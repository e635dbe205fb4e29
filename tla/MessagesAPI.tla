----------------------------- MODULE MessagesAPI -----------------------------
(***************************************************************************)
(* API.py and cache.py: listing the recent messages of a thread through    *)
(* Redis, while other handlers write the thread and invalidate its key.    *)
(* Every await is a step.  Threads do not share keys, so one is modelled.  *)
(*                                                                         *)
(* A write is one step here (WritesAreAtomic in MessageStoreProofs).  The  *)
(* thread's contents are abstracted to the number of writes committed and  *)
(* the number of live messages; a page is known by the thread it shows.    *)
(*   reader:  "idle" -> "get" -> "touch" -> "done"                         *)
(*            "idle" -> "get" -> "query" -> "set" -> "done"                *)
(*   writer:  "idle" -> "write" -> "invalidate" -> "done"                  *)
(***************************************************************************)
EXTENDS Integers

CONSTANTS
  Readers,     \* concurrent list_messages handlers, over all replicas
  Writers,     \* concurrent create, update and delete handlers
  Limits,      \* values of the "limit" parameter
  MaxItems,    \* CACHE_MAX_ITEMS
  TTL,         \* CACHE_TTL_SECONDS in ticks of the model; 0 never expires
  TouchOnHit,  \* CACHE_TOUCH_ON_HIT
  Faults,      \* may Redis calls fail and replicas die?
  MaxVersion,  \* bound on the writes of a behaviour
  MaxTotal,    \* bound on the messages of the thread
  Nothing      \* no entry under the key, no page

ASSUME APIAssumption ==
  /\ Limits \subseteq Nat \ {0} /\ MaxItems \in Nat /\ TTL \in Nat
  /\ TouchOnHit \in BOOLEAN /\ Faults \in BOOLEAN
  /\ MaxVersion \in Nat /\ MaxTotal \in Nat

VARIABLES
  version,   \* writes committed in the thread
  total,     \* live messages of the thread
  entry,     \* the page under the thread's key in Redis, or Nothing
  age,       \* ticks since the key's expiry was set
  rpc,       \* reader |-> where it is
  limit,     \* reader |-> its limit
  page,      \* reader |-> the page it holds, and answers when it is done
  since,     \* reader |-> versions acknowledged before it was called
  wpc,       \* writer |-> where it is
  wrote,     \* writer |-> the version its write made
  acked,     \* versions whose writer answered its client
  lost       \* versions that no handler will invalidate the key for

vars == <<version, total, entry, age, rpc, limit, page, since, wpc, wrote,
          acked, lost>>
readerVars == <<rpc, limit, page, since>>
writerVars == <<wpc, wrote, acked, lost>>
threadVars == <<version, total>>
redisVars  == <<entry, age>>

Smaller(a, b) == IF a <= b THEN a ELSE b

(* A page: count of the total messages the thread had at version, selected *)
(* with the limit asked, put in Redis when the thread was at version       *)
(* filled.                                                                 *)
Page == [version : Nat, filled : Nat, total : Nat, asked : Nat, count : Nat]

Init ==
  /\ version = 0
  /\ total \in 0..MaxTotal
  /\ entry = Nothing
  /\ age = 0
  /\ rpc = [r \in Readers |-> "idle"]
  /\ limit \in [Readers -> Limits]
  /\ page = [r \in Readers |-> Nothing]
  /\ since = [r \in Readers |-> {}]
  /\ wpc = [w \in Writers |-> "idle"]
  /\ wrote = [w \in Writers |-> 0]
  /\ acked = {}
  /\ lost = {}

-----------------------------------------------------------------------------
(* list_messages, without a cursor. *)

ReaderAt(r, label) == rpc' = [rpc EXCEPT ![r] = label]

(* The key is looked up only if the limit fits what a fill may hold. *)
Cacheable_Always(lim) == TRUE
Cacheable(lim) == lim <= MaxItems

CallList(r) ==
  /\ rpc[r] \in {"idle", "done"}
  /\ \E lim \in Limits :
       /\ limit' = [limit EXCEPT ![r] = lim]
       /\ ReaderAt(r, IF Cacheable(lim) THEN "get" ELSE "query")
  /\ page' = [page EXCEPT ![r] = Nothing]
  /\ since' = [since EXCEPT ![r] = acked]
  /\ UNCHANGED <<threadVars, redisVars, writerVars>>

(* data[:limit] *)
Truncated_Assumed(p, lim) == [p EXCEPT !.count = lim]
Truncated(p, lim) == [p EXCEPT !.count = Smaller(@, lim)]

TouchesOnHit_Always == TTL > 0
TouchesOnHit == TouchOnHit /\ TTL > 0

(* GET: a hit is answered, after a touch if that is configured. *)
GetHit(r) ==
  /\ rpc[r] = "get" /\ entry # Nothing
  /\ page' = [page EXCEPT ![r] = Truncated(entry, limit[r])]
  /\ ReaderAt(r, IF TouchesOnHit THEN "touch" ELSE "done")
  /\ UNCHANGED <<limit, since, threadVars, redisVars, writerVars>>

GetMiss(r) ==
  /\ rpc[r] = "get" /\ entry = Nothing
  /\ ReaderAt(r, "query")
  /\ UNCHANGED <<limit, page, since, threadVars, redisVars, writerVars>>

(* EXPIRE: restarts the expiry of whatever is under the key by now. *)
Touch(r) ==
  /\ rpc[r] = "touch"
  /\ age' = 0
  /\ ReaderAt(r, "done")
  /\ UNCHANGED <<limit, page, since, entry, threadVars, writerVars>>

(* Any exception of GET or EXPIRE is a miss: the page at hand is dropped. *)
CacheReadError(r) ==
  /\ Faults /\ rpc[r] \in {"get", "touch"}
  /\ page' = [page EXCEPT ![r] = Nothing]
  /\ ReaderAt(r, "query")
  /\ UNCHANGED <<limit, since, threadVars, redisVars, writerVars>>

(* ListMessages: the SELECT. *)
Query(r) ==
  /\ rpc[r] = "query"
  /\ page' = [page EXCEPT ![r] =
       [version |-> version, filled |-> version, total |-> total,
        asked |-> limit[r], count |-> Smaller(total, limit[r])]]
  /\ ReaderAt(r, "set")
  /\ UNCHANGED <<limit, since, threadVars, redisVars, writerVars>>

(* SET with its expiry, of items[:CACHE_MAX_ITEMS]. *)
SetRecent(r) ==
  /\ rpc[r] = "set"
  /\ entry' = [Truncated(page[r], MaxItems) EXCEPT !.filled = version]
  /\ age' = 0
  /\ ReaderAt(r, "done")
  /\ UNCHANGED <<limit, page, since, threadVars, writerVars>>

(* A SET that fails is only logged. *)
SetError(r) ==
  /\ Faults /\ rpc[r] = "set"
  /\ ReaderAt(r, "done")
  /\ UNCHANGED <<limit, page, since, threadVars, redisVars, writerVars>>

(* The SELECT fails (500), or the replica dies at any await. *)
ReaderAbort(r) ==
  /\ Faults /\ rpc[r] \notin {"idle", "done"}
  /\ page' = [page EXCEPT ![r] = Nothing]
  /\ ReaderAt(r, "idle")
  /\ UNCHANGED <<limit, since, threadVars, redisVars, writerVars>>

-----------------------------------------------------------------------------
(* create_message, update_message, delete_message. *)

WriterAt(w, label) == wpc' = [wpc EXCEPT ![w] = label]

CallWrite(w) ==
  /\ wpc[w] \in {"idle", "done"}
  /\ version < MaxVersion
  /\ WriterAt(w, "write")
  /\ UNCHANGED <<wrote, acked, lost, threadVars, redisVars, readerVars>>

(* A create adds a message, an update none, a delete takes one away. *)
Commit(w) ==
  /\ wpc[w] = "write" /\ version < MaxVersion
  /\ version' = version + 1
  /\ total' \in {total - 1, total, total + 1} \cap (0..MaxTotal)
  /\ wrote' = [wrote EXCEPT ![w] = version + 1]

Write_AcksFirst(w) ==
  /\ Commit(w)
  /\ acked' = acked \cup {version + 1}
  /\ WriterAt(w, "invalidate")
  /\ UNCHANGED <<lost, redisVars, readerVars>>
Write(w) ==
  /\ Commit(w)
  /\ WriterAt(w, "invalidate")
  /\ UNCHANGED <<acked, lost, redisVars, readerVars>>

(* The statement committed, but the controller returns an error: a broken  *)
(* connection, SendEvent raising.  The handler answers 500 at line 112,    *)
(* before it comes to the cache; a crash has the same effect.              *)
WriteUnreported(w) ==
  /\ Faults
  /\ Commit(w)
  /\ lost' = lost \cup {version + 1}
  /\ WriterAt(w, "idle")
  /\ UNCHANGED <<acked, redisVars, readerVars>>

(* 404, or an error before anything was written. *)
WriteRefused(w) ==
  /\ wpc[w] = "write"
  /\ WriterAt(w, "idle")
  /\ UNCHANGED <<wrote, acked, lost, threadVars, redisVars, readerVars>>

(* invalidate_thread: the DELETE of the key. *)
Invalidate_Skipped(w) ==
  /\ wpc[w] = "invalidate"
  /\ acked' = acked \cup {wrote[w]}
  /\ WriterAt(w, "done")
  /\ UNCHANGED <<wrote, lost, threadVars, redisVars, readerVars>>
Invalidate(w) ==
  /\ wpc[w] = "invalidate"
  /\ entry' = Nothing /\ age' = 0
  /\ acked' = acked \cup {wrote[w]}
  /\ WriterAt(w, "done")
  /\ UNCHANGED <<wrote, lost, threadVars, readerVars>>

(* A DELETE that fails is only logged, and the write acknowledged. *)
InvalidateError(w) ==
  /\ Faults /\ wpc[w] = "invalidate"
  /\ acked' = acked \cup {wrote[w]}
  /\ lost' = lost \cup {wrote[w]}
  /\ WriterAt(w, "done")
  /\ UNCHANGED <<wrote, threadVars, redisVars, readerVars>>

WriterCrash(w) ==
  /\ Faults /\ wpc[w] = "invalidate"
  /\ lost' = lost \cup {wrote[w]}
  /\ WriterAt(w, "idle")
  /\ UNCHANGED <<wrote, acked, threadVars, redisVars, readerVars>>

-----------------------------------------------------------------------------

(* Time passes in Redis; a key that is old enough is gone. *)
Tick ==
  /\ TTL > 0 /\ entry # Nothing
  /\ \/ age + 1 < TTL /\ age' = age + 1 /\ UNCHANGED entry
     \/ age + 1 >= TTL /\ age' = 0 /\ entry' = Nothing
  /\ UNCHANGED <<threadVars, readerVars, writerVars>>

ReaderStep(r) ==
  GetHit(r) \/ GetMiss(r) \/ Touch(r) \/ Query(r) \/ SetRecent(r)
ReaderFault(r) == CacheReadError(r) \/ SetError(r) \/ ReaderAbort(r)
WriterStep(w) == Write(w) \/ WriteRefused(w) \/ Invalidate(w)
WriterFault(w) == WriteUnreported(w) \/ InvalidateError(w) \/ WriterCrash(w)

Next ==
  \/ \E r \in Readers : CallList(r) \/ ReaderStep(r) \/ ReaderFault(r)
  \/ \E w \in Writers : CallWrite(w) \/ WriterStep(w) \/ WriterFault(w)
  \/ Tick

Spec == Init /\ [][Next]_vars

(* Redis and asyncpg calls have timeouts, so every handler goes on; and    *)
(* the clock of Redis does not stop.                                       *)
Fairness ==
  /\ \A r \in Readers : WF_vars(ReaderStep(r) \/ ReaderFault(r))
  /\ \A w \in Writers : WF_vars(WriterStep(w) \/ WriterFault(w))
  /\ WF_vars(Tick)

FairSpec == Spec /\ Fairness

-----------------------------------------------------------------------------
(* Properties. *)

(* Types; a page shows no more messages than its thread had, and was read  *)
(* before it was put in Redis, which was not in the future.                *)
GoodPage(p) ==
  p \in Page /\ p.count <= p.total /\ p.version <= p.filled /\ p.filled <= version

TypeOK ==
  /\ version \in 0..MaxVersion /\ total \in 0..MaxTotal
  /\ entry # Nothing => GoodPage(entry)
  /\ age \in Nat
  /\ rpc \in [Readers -> {"idle", "get", "touch", "query", "set", "done"}]
  /\ limit \in [Readers -> Limits]
  /\ page \in [Readers -> Page \cup {Nothing}]
  /\ \A r \in Readers : page[r] # Nothing => GoodPage(page[r])
  /\ since \in [Readers -> SUBSET (1..version)]
  /\ wpc \in [Writers -> {"idle", "write", "invalidate", "done"}]
  /\ wrote \in [Writers -> 0..version]
  /\ acked \subseteq 1..version /\ lost \subseteq 1..version

Pending(v) == \E w \in Writers : wpc[w] = "invalidate" /\ wrote[w] = v

(* Whatever Redis holds, every write committed since it was put there has  *)
(* its invalidation still to come, or lost to a failure: a handler never   *)
(* ends with a write that it forgot to announce to the cache.              *)
InvalidationOwed ==
  entry # Nothing =>
    \A v \in (entry.filled + 1)..version : v \in lost \/ Pending(v)

(* A list that starts after a write was acknowledged shows that write,     *)
(* unless its invalidation was lost, or the page was read before it and    *)
(* put in Redis after it.  No other interleaving of API.py, cache.py and   *)
(* the replicas serves a page that old.                                    *)
AckedVisible ==
  \A r \in Readers :
    rpc[r] = "done" /\ page[r] # Nothing =>
      \A v \in since[r] : v <= page[r].filled \/ v \in lost

HasMore(r) == page[r].count = limit[r]

(* has_more = FALSE is the last page: nothing is left out, unless a hit    *)
(* gave a page that another reader had selected with a smaller limit.  No  *)
(* page is short because of CACHE_MAX_ITEMS, of a limit above it, or of a  *)
(* write between the fill and the hit.                                     *)
LastUnlessNarrow ==
  \A r \in Readers :
    rpc[r] = "done" /\ page[r] # Nothing /\ ~HasMore(r)
      => page[r].count = page[r].total \/ page[r].asked < limit[r]

(* What service/README.md:64-65 says of has_more, without exception.       *)
NoneLeftOut ==
  \A r \in Readers :
    rpc[r] = "done" /\ page[r] # Nothing /\ ~HasMore(r)
      => page[r].count = page[r].total

(* When the writes stop, Redis soon holds nothing stale, whatever the      *)
(* order of fills and invalidations was and however many were lost.        *)
EventuallyFresh == <>[](entry = Nothing \/ entry.version = version)
=============================================================================
