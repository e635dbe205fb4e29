-------------------------- MODULE MessagesAPIProofs --------------------------
(***************************************************************************)
(* MessagesAPI for every number of handlers, writes and messages, every    *)
(* limit and every cache setting: what a stale page can be blamed on.      *)
(***************************************************************************)
EXTENDS MessagesAPI, TLAPS

(* A writer between its COMMIT and its DELETE owes exactly one version, a  *)
(* version no client has been told of.                                     *)
OwedVersions ==
  /\ \A w \in Writers :
       wpc[w] = "invalidate" => wrote[w] \in 1..version /\ wrote[w] \notin acked
  /\ \A w1, w2 \in Writers :
       wpc[w1] = "invalidate" /\ wpc[w2] = "invalidate" /\ wrote[w1] = wrote[w2]
         => w1 = w2

(* A reader knows only of acknowledged writes, and a page it holds shows   *)
(* them, up to the failures.                                               *)
ReaderPages ==
  \A r \in Readers :
    /\ since[r] \subseteq acked
    /\ rpc[r] = "set" => GoodPage(page[r])
    /\ rpc[r] \in {"touch", "set", "done"} /\ page[r] # Nothing =>
         \A v \in since[r] : v <= page[r].filled \/ v \in lost

IInv == TypeOK /\ InvalidationOwed /\ OwedVersions /\ ReaderPages

LEMMA InitIInv == Init => IInv
<1> SUFFICES ASSUME Init PROVE IInv
  OBVIOUS
<1>1. TypeOK
  BY APIAssumption DEF Init, TypeOK, APIAssumption
<1>2. InvalidationOwed /\ OwedVersions /\ ReaderPages
  BY DEF Init, InvalidationOwed, OwedVersions, ReaderPages
<1> QED BY <1>1, <1>2 DEF IInv

-----------------------------------------------------------------------------
(* Pages.                                                                  *)

LEMMA TruncatedPage ==
  ASSUME NEW p, GoodPage(p), NEW lim \in Nat
  PROVE  /\ GoodPage(Truncated(p, lim))
         /\ Truncated(p, lim).filled = p.filled
BY DEF GoodPage, Page, Truncated, Smaller

LEMMA FilledPage ==
  ASSUME NEW p, GoodPage(p), version \in Nat
  PROVE  /\ GoodPage([p EXCEPT !.filled = version])
         /\ [p EXCEPT !.filled = version].filled = version
BY DEF GoodPage, Page

(* A page stays good when the thread moves on. *)
LEMMA LaterPage ==
  ASSUME NEW p, GoodPage(p), version \in Nat, version' \in Nat,
         version <= version'
  PROVE  GoodPage(p)'
BY DEF GoodPage, Page

-----------------------------------------------------------------------------
(* Steps of a reader that touch neither the thread nor Redis.              *)

LEMMA ReaderLocal ==
  ASSUME IInv, NEW r \in Readers, UNCHANGED <<threadVars, redisVars, writerVars>>,
         NEW l \in {"idle", "get", "touch", "query", "set", "done"},
         rpc' = [rpc EXCEPT ![r] = l],
         limit' \in [Readers -> Limits],
         NEW p \in Page \cup {Nothing}, page' = [page EXCEPT ![r] = p],
         NEW s, s \subseteq acked, since' = [since EXCEPT ![r] = s],
         p # Nothing \/ l = "set" => GoodPage(p),
         l \in {"touch", "set", "done"} /\ p # Nothing =>
           \A v \in s : v <= p.filled \/ v \in lost
  PROVE  IInv'
<1> USE DEF IInv, threadVars, redisVars, writerVars
<1>1. /\ rpc'[r] = l /\ page'[r] = p /\ since'[r] = s
      /\ \A q \in Readers \ {r} : /\ rpc'[q] = rpc[q] /\ page'[q] = page[q]
                                  /\ since'[q] = since[q]
  BY DEF TypeOK
<1>2. \A q : GoodPage(q)' <=> GoodPage(q)
  BY DEF GoodPage
<1>3. TypeOK'
  <2>1. since' \in [Readers -> SUBSET (1..version)]
    BY DEF TypeOK
  <2>2. \A q \in Readers : page'[q] # Nothing => GoodPage(page'[q])
    BY <1>1 DEF TypeOK
  <2> QED BY <1>1, <1>2, <2>1, <2>2 DEF TypeOK
<1>4. ReaderPages'
  BY <1>1, <1>2 DEF ReaderPages
<1>5. InvalidationOwed' /\ OwedVersions'
  BY DEF InvalidationOwed, OwedVersions, Pending
<1> QED BY <1>3, <1>4, <1>5

LEMMA CallListIInv ==
  ASSUME IInv, NEW r \in Readers, CallList(r)
  PROVE  IInv'
<1>1. PICK lim \in Limits, l \in {"get", "query"} :
        limit' = [limit EXCEPT ![r] = lim] /\ rpc' = [rpc EXCEPT ![r] = l]
  BY DEF CallList, ReaderAt
<1>2. limit' \in [Readers -> Limits]
  BY <1>1 DEF IInv, TypeOK
<1>3. /\ page' = [page EXCEPT ![r] = Nothing]
      /\ since' = [since EXCEPT ![r] = acked]
      /\ UNCHANGED <<threadVars, redisVars, writerVars>>
  BY DEF CallList
<1> QED BY <1>1, <1>2, <1>3, ReaderLocal

(* A hit: what Redis held when it answered is at most as old as the last   *)
(* acknowledged write, by InvalidationOwed.                                *)
LEMMA HitShowsAcked ==
  ASSUME IInv, entry # Nothing, NEW v \in acked, v \notin lost
  PROVE  v <= entry.filled
<1>1. v \in 1..version /\ entry.filled \in Nat /\ version \in Nat
  BY APIAssumption DEF IInv, TypeOK, GoodPage, Page, APIAssumption
<1>2. ~Pending(v)
  BY DEF IInv, OwedVersions, Pending
<1> QED BY <1>1, <1>2 DEF IInv, InvalidationOwed

LEMMA GetHitIInv ==
  ASSUME IInv, NEW r \in Readers, GetHit(r)
  PROVE  IInv'
<1> DEFINE p == Truncated(entry, limit[r])
<1>1. /\ rpc[r] = "get" /\ entry # Nothing
      /\ page' = [page EXCEPT ![r] = p]
      /\ UNCHANGED <<limit, since, threadVars, redisVars, writerVars>>
  BY DEF GetHit
<1>2. PICK l \in {"touch", "done"} : rpc' = [rpc EXCEPT ![r] = l]
  BY DEF GetHit, ReaderAt
<1>3. GoodPage(p) /\ p.filled = entry.filled
  BY <1>1, TruncatedPage, APIAssumption DEF IInv, TypeOK, APIAssumption
<1>4. p \in Page
  BY <1>3 DEF GoodPage
<1>5. since[r] \subseteq acked /\ since' = [since EXCEPT ![r] = since[r]]
  BY <1>1 DEF IInv, TypeOK, ReaderPages
<1>6. \A v \in since[r] : v <= p.filled \/ v \in lost
  BY <1>1, <1>3, <1>5, HitShowsAcked
<1>7. limit' \in [Readers -> Limits]
  BY <1>1 DEF IInv, TypeOK
<1> HIDE DEF p
<1> QED BY <1>1, <1>2, <1>3, <1>4, <1>5, <1>6, <1>7, ReaderLocal

LEMMA QueryIInv ==
  ASSUME IInv, NEW r \in Readers, Query(r)
  PROVE  IInv'
<1> DEFINE p == [version |-> version, filled |-> version, total |-> total,
                 asked |-> limit[r], count |-> Smaller(total, limit[r])]
<1>1. /\ page' = [page EXCEPT ![r] = p] /\ rpc' = [rpc EXCEPT ![r] = "set"]
      /\ UNCHANGED <<limit, since, threadVars, redisVars, writerVars>>
  BY DEF Query, ReaderAt
<1>2. version \in Nat /\ total \in Nat /\ limit[r] \in Nat
  <2>1. version \in Nat /\ total \in Nat
    BY APIAssumption DEF IInv, TypeOK, APIAssumption
  <2>2. limit[r] \in Nat
    BY APIAssumption DEF IInv, TypeOK, APIAssumption
  <2> QED BY <2>1, <2>2
<1>3. since[r] \subseteq acked
  BY DEF IInv, ReaderPages
<1>4. GoodPage(p) /\ p \in Page
  BY <1>2 DEF GoodPage, Page, Smaller
<1>5. \A v \in since[r] : v <= p.filled
  <2>1. \A v \in acked : v <= version
    BY <1>2 DEF IInv, TypeOK
  <2> QED BY <2>1, <1>3
<1>6. since' = [since EXCEPT ![r] = since[r]] /\ limit' \in [Readers -> Limits]
  BY <1>1 DEF IInv, TypeOK
<1> HIDE DEF p
<1> QED BY <1>1, <1>3, <1>4, <1>5, <1>6, ReaderLocal

(* The rest of the reader's own steps keep its page or drop it.            *)
LEMMA ReaderQuietIInv ==
  ASSUME IInv, NEW r \in Readers,
         GetMiss(r) \/ CacheReadError(r) \/ SetError(r) \/ ReaderAbort(r)
  PROVE  IInv'
<1>1. PICK l \in {"idle", "query", "done"}, p \in {page[r], Nothing} :
        /\ rpc' = [rpc EXCEPT ![r] = l] /\ page' = [page EXCEPT ![r] = p]
        /\ l = "done" => rpc[r] = "set"
        /\ UNCHANGED <<limit, since, threadVars, redisVars, writerVars>>
  <2>1. page = [page EXCEPT ![r] = page[r]]
    BY DEF IInv, TypeOK
  <2> QED BY <2>1 DEF GetMiss, CacheReadError, SetError, ReaderAbort, ReaderAt
<1>2. /\ p \in Page \cup {Nothing}
      /\ p # Nothing => GoodPage(p)
      /\ since[r] \subseteq acked /\ since' = [since EXCEPT ![r] = since[r]]
      /\ limit' \in [Readers -> Limits]
  BY <1>1 DEF IInv, TypeOK, ReaderPages
<1>3. l = "done" /\ p # Nothing => \A v \in since[r] : v <= p.filled \/ v \in lost
  BY <1>1 DEF IInv, ReaderPages
<1> QED BY <1>1, <1>2, <1>3, ReaderLocal

-----------------------------------------------------------------------------
(* Steps that change Redis.                                                *)

LEMMA TouchIInv ==
  ASSUME IInv, NEW r \in Readers, Touch(r)
  PROVE  IInv'
<1>1. /\ rpc[r] = "touch" /\ age' = 0 /\ rpc' = [rpc EXCEPT ![r] = "done"]
      /\ UNCHANGED <<limit, page, since, entry, threadVars, writerVars>>
  BY DEF Touch, ReaderAt
<1> USE <1>1 DEF IInv, threadVars, writerVars
<1>2. \A q : GoodPage(q)' <=> GoodPage(q)
  BY DEF GoodPage
<1>3. TypeOK'
  BY <1>2 DEF TypeOK
<1>4. ReaderPages'
  BY <1>2 DEF TypeOK, ReaderPages
<1>5. InvalidationOwed' /\ OwedVersions'
  BY DEF InvalidationOwed, OwedVersions, Pending
<1> QED BY <1>3, <1>4, <1>5

(* A new entry owes nothing: no version is above the current one.          *)
LEMMA SetRecentIInv ==
  ASSUME IInv, NEW r \in Readers, SetRecent(r)
  PROVE  IInv'
<1> DEFINE p == Truncated(page[r], MaxItems)
           e == [p EXCEPT !.filled = version]
<1>1. /\ rpc[r] = "set" /\ entry' = e /\ age' = 0
      /\ rpc' = [rpc EXCEPT ![r] = "done"]
      /\ UNCHANGED <<limit, page, since, threadVars, writerVars>>
  BY DEF SetRecent, ReaderAt
<1>2. version \in Nat
  BY APIAssumption DEF IInv, TypeOK, APIAssumption
<1>3. GoodPage(page[r])
  BY <1>1 DEF IInv, ReaderPages
<1>4. GoodPage(p)
  BY <1>3, TruncatedPage, APIAssumption DEF APIAssumption
<1> HIDE DEF p
<1>5. GoodPage(e) /\ e.filled = version
  BY <1>2, <1>4, FilledPage
<1> HIDE DEF e
<1>6. \A q : GoodPage(q)' <=> GoodPage(q)
  BY <1>1 DEF GoodPage, threadVars
<1>7. TypeOK'
  BY <1>1, <1>5, <1>6 DEF IInv, TypeOK, threadVars, writerVars
<1>8. ReaderPages'
  BY <1>1, <1>6 DEF IInv, TypeOK, ReaderPages, writerVars
<1>9. InvalidationOwed'
  BY <1>1, <1>2, <1>5 DEF InvalidationOwed, threadVars
<1>10. OwedVersions'
  BY <1>1 DEF IInv, OwedVersions, threadVars, writerVars
<1> QED BY <1>7, <1>8, <1>9, <1>10 DEF IInv

LEMMA TickIInv == IInv /\ Tick => IInv'
<1> SUFFICES ASSUME IInv, Tick PROVE IInv'
  OBVIOUS
<1>1. /\ age' \in Nat /\ entry' \in {entry, Nothing}
      /\ UNCHANGED <<threadVars, readerVars, writerVars>>
  BY DEF Tick, IInv, TypeOK
<1> USE <1>1 DEF IInv, threadVars, readerVars, writerVars
<1>2. \A q : GoodPage(q)' <=> GoodPage(q)
  BY DEF GoodPage
<1>3. TypeOK'
  BY <1>2 DEF TypeOK
<1>4. ReaderPages'
  BY <1>2 DEF ReaderPages
<1>5. InvalidationOwed' /\ OwedVersions'
  BY DEF InvalidationOwed, OwedVersions, Pending
<1> QED BY <1>3, <1>4, <1>5

-----------------------------------------------------------------------------
(* Steps of the writers.                                                   *)

(* A write leaves its version owed, by its writer or for ever.             *)
LEMMA CommitIInv ==
  ASSUME IInv, NEW w \in Writers, Write(w) \/ WriteUnreported(w)
  PROVE  IInv'
<1>1. /\ wpc[w] = "write" /\ version < MaxVersion
      /\ version' = version + 1 /\ total' \in 0..MaxTotal
      /\ wrote' = [wrote EXCEPT ![w] = version + 1]
      /\ \/ lost' = lost /\ wpc' = [wpc EXCEPT ![w] = "invalidate"]
         \/ /\ lost' = lost \cup {version + 1}
            /\ wpc' = [wpc EXCEPT ![w] = "idle"]
      /\ UNCHANGED <<acked, redisVars, readerVars>>
  BY DEF Write, WriteUnreported, Commit, WriterAt
<1>2. version \in Nat /\ version' \in 0..MaxVersion /\ version <= version'
  BY <1>1, APIAssumption DEF IInv, TypeOK, APIAssumption
<1>3. \A q : GoodPage(q) => GoodPage(q)'
  BY <1>2, LaterPage
<1>4. 1..version \subseteq 1..version' /\ 0..version \subseteq 0..version'
      /\ version + 1 \in 1..version' /\ version + 1 \notin 1..version
  BY <1>1, <1>2
<1>5. \A u \in Writers \ {w} : wrote'[u] = wrote[u] /\ wpc'[u] = wpc[u]
  BY <1>1 DEF IInv, TypeOK
<1>6. wrote'[w] = version + 1 /\ wpc'[w] \in {"invalidate", "idle"}
      /\ (wpc'[w] = "idle" => version + 1 \in lost') /\ lost \subseteq lost'
  BY <1>1 DEF IInv, TypeOK
<1>7. TypeOK'
  <2>1. /\ wrote' \in [Writers -> 0..version']
        /\ wpc' \in [Writers -> {"idle", "write", "invalidate", "done"}]
    BY <1>1, <1>4 DEF IInv, TypeOK
  <2>2. /\ acked' \subseteq 1..version' /\ lost' \subseteq 1..version'
        /\ since' \in [Readers -> SUBSET (1..version')]
    BY <1>1, <1>4 DEF IInv, TypeOK, readerVars
  <2> QED BY <1>1, <1>2, <1>3, <2>1, <2>2
          DEF IInv, TypeOK, redisVars, readerVars
<1>8. ReaderPages'
  BY <1>1, <1>3, <1>6 DEF IInv, ReaderPages, readerVars
<1>9. OwedVersions'
  BY <1>1, <1>4, <1>5, <1>6 DEF IInv, TypeOK, OwedVersions
<1>10. InvalidationOwed'
  <2> SUFFICES ASSUME entry # Nothing, NEW v \in (entry.filled + 1)..version'
               PROVE  v \in lost' \/ Pending(v)'
    BY <1>1 DEF InvalidationOwed, redisVars
  <2>1. entry.filled \in Nat
    BY DEF IInv, TypeOK, GoodPage, Page
  <2>2. CASE v = version + 1
    BY <1>6, <2>2 DEF Pending
  <2>3. CASE v # version + 1
    <3>1. v \in (entry.filled + 1)..version
      BY <1>1, <1>2, <2>1, <2>3
    <3>2. v \in lost \/ Pending(v)
      BY <3>1 DEF IInv, InvalidationOwed
    <3> QED BY <3>2, <1>1, <1>5, <1>6 DEF Pending
  <2> QED BY <2>2, <2>3
<1> QED BY <1>7, <1>8, <1>9, <1>10 DEF IInv

LEMMA WriterQuietIInv ==
  ASSUME IInv, NEW w \in Writers, CallWrite(w) \/ WriteRefused(w)
  PROVE  IInv'
<1>1. PICK l \in {"write", "idle"} : /\ wpc[w] # "invalidate"
                                   /\ wpc' = [wpc EXCEPT ![w] = l]
  BY DEF CallWrite, WriteRefused, WriterAt
<1>2. UNCHANGED <<wrote, acked, lost, threadVars, redisVars, readerVars>>
  BY DEF CallWrite, WriteRefused
<1> USE <1>1, <1>2 DEF IInv, threadVars, redisVars, readerVars
<1>3. \A q : GoodPage(q)' <=> GoodPage(q)
  BY DEF GoodPage
<1>4. \A u \in Writers : wpc'[u] = "invalidate" <=> wpc[u] = "invalidate"
  BY DEF TypeOK
<1>5. TypeOK'
  BY <1>3 DEF TypeOK
<1>6. ReaderPages'
  BY <1>3 DEF ReaderPages
<1>7. InvalidationOwed' /\ OwedVersions'
  BY <1>4 DEF InvalidationOwed, OwedVersions, Pending
<1> QED BY <1>5, <1>6, <1>7

(* The end of a writer: its version is paid by the DELETE, or lost.        *)
LEMMA WriterEndIInv ==
  ASSUME IInv, NEW w \in Writers,
         Invalidate(w) \/ InvalidateError(w) \/ WriterCrash(w)
  PROVE  IInv'
<1>1. PICK l \in {"done", "idle"} :
        /\ wpc[w] = "invalidate" /\ wpc' = [wpc EXCEPT ![w] = l]
        /\ acked' \in {acked, acked \cup {wrote[w]}}
        /\ \/ lost' = lost /\ entry' = Nothing /\ age' = 0
           \/ lost' = lost \cup {wrote[w]} /\ UNCHANGED redisVars
        /\ UNCHANGED <<wrote, threadVars, readerVars>>
  BY DEF Invalidate, InvalidateError, WriterCrash, WriterAt
<1>2. wrote[w] \in 1..version
  BY <1>1 DEF IInv, OwedVersions
<1>3. \A u \in Writers \ {w} : wpc'[u] = wpc[u]
  BY <1>1 DEF IInv, TypeOK
<1>4. wpc'[w] # "invalidate"
  BY <1>1 DEF IInv, TypeOK
<1>5. \A q : GoodPage(q)' <=> GoodPage(q)
  BY <1>1 DEF GoodPage, threadVars
<1>6. TypeOK'
  <2>1. acked' \subseteq 1..version' /\ lost' \subseteq 1..version'
    BY <1>1, <1>2 DEF IInv, TypeOK, threadVars
  <2> QED BY <1>1, <1>5, <2>1 DEF IInv, TypeOK, redisVars, threadVars, readerVars
<1>7. ReaderPages'
  BY <1>1, <1>5 DEF IInv, ReaderPages, readerVars
<1>8. OwedVersions'
  BY <1>1, <1>3, <1>4 DEF IInv, OwedVersions, threadVars
<1>9. InvalidationOwed'
  BY <1>1, <1>3 DEF IInv, InvalidationOwed, Pending, threadVars, redisVars
<1> QED BY <1>6, <1>7, <1>8, <1>9 DEF IInv

LEMMA StepIInv == IInv /\ [Next]_vars => IInv'
<1> SUFFICES ASSUME IInv, [Next]_vars PROVE IInv'
  OBVIOUS
<1>1. CASE UNCHANGED vars
  BY <1>1 DEF vars, IInv, TypeOK, GoodPage, InvalidationOwed, OwedVersions,
              ReaderPages, Pending
<1>2. ASSUME NEW r \in Readers, CallList(r) \/ ReaderStep(r) \/ ReaderFault(r)
      PROVE  IInv'
  BY <1>2, CallListIInv, GetHitIInv, QueryIInv, ReaderQuietIInv, TouchIInv,
     SetRecentIInv DEF ReaderStep, ReaderFault
<1>3. ASSUME NEW w \in Writers, CallWrite(w) \/ WriterStep(w) \/ WriterFault(w)
      PROVE  IInv'
  BY <1>3, CommitIInv, WriterQuietIInv, WriterEndIInv DEF WriterStep, WriterFault
<1> QED BY <1>1, <1>2, <1>3, TickIInv DEF Next

(* The inductive invariant holds in every reachable state.                 *)
THEOREM Invariance == Spec => []IInv
BY InitIInv, StepIInv, PTL DEF Spec

(* Every variable of the handlers and of Redis keeps its type.             *)
THEOREM TypeCorrect == Spec => []TypeOK
<1>1. IInv => TypeOK
  BY DEF IInv
<1> QED BY <1>1, Invariance, PTL

(* No handler ends with a write that it forgot to announce to the cache.   *)
THEOREM EveryInvalidationOwed == Spec => []InvalidationOwed
<1>1. IInv => InvalidationOwed
  BY DEF IInv
<1> QED BY <1>1, Invariance, PTL

(* A list shows every write acknowledged before it was called, but for     *)
(* those whose invalidation failed and those that overtook a fill.         *)
THEOREM AcknowledgedWritesVisible == Spec => []AckedVisible
<1>1. IInv => AckedVisible
  BY DEF IInv, ReaderPages, AckedVisible
<1> QED BY <1>1, Invariance, PTL

-----------------------------------------------------------------------------
(* The last page.                                                          *)

(* What is in Redis is what a SELECT gave, cut to CACHE_MAX_ITEMS at most; *)
(* what a reader has in hand for it, what the SELECT gave for its limit.   *)
(* A hit of a limit that looks there is thus short for one of two reasons. *)
EntryServes ==
  entry # Nothing =>
    entry.count = entry.total \/ entry.count = entry.asked \/ entry.count = MaxItems
PageServes(r) ==
  /\ rpc[r] = "get" => Cacheable(limit[r])
  /\ rpc[r] = "set" => /\ page[r].count = Smaller(page[r].total, limit[r])
                      /\ page[r].asked = limit[r]
  /\ rpc[r] \in {"touch", "done"} /\ page[r] # Nothing
       => \/ page[r].count = limit[r] \/ page[r].count = page[r].total
          \/ page[r].asked < limit[r]
WholePages == EntryServes /\ \A r \in Readers : PageServes(r)

(* Numbers of a state with good pages.                                     *)
LEMMA PageNumbers ==
  ASSUME IInv
  PROVE  /\ MaxItems \in Nat /\ version \in Nat /\ total \in Nat
         /\ \A lim \in Limits : lim \in Nat
         /\ \A r \in Readers : limit[r] \in Limits
         /\ entry # Nothing => entry \in Page
         /\ \A r \in Readers : page[r] # Nothing => page[r] \in Page
         /\ \A r \in Readers : rpc[r] = "set" => GoodPage(page[r])
BY APIAssumption DEF IInv, TypeOK, ReaderPages, GoodPage, APIAssumption

(* Steps of the reader r that leave Redis alone: one page is new.          *)
LEMMA OneReader ==
  ASSUME IInv, WholePages, NEW r \in Readers, entry' = entry,
         \A q \in Readers \ {r} : /\ rpc'[q] = rpc[q] /\ page'[q] = page[q]
                                  /\ limit'[q] = limit[q],
         PageServes(r)'
  PROVE  WholePages'
BY DEF WholePages, EntryServes, PageServes

LEMMA ReaderServes ==
  ASSUME IInv, WholePages, NEW r \in Readers,
         CallList(r) \/ GetHit(r) \/ GetMiss(r) \/ Touch(r) \/ Query(r)
           \/ CacheReadError(r) \/ SetError(r) \/ ReaderAbort(r)
  PROVE  WholePages'
<1>1. /\ rpc \in [Readers -> {"idle", "get", "touch", "query", "set", "done"}]
      /\ limit \in [Readers -> Limits] /\ page \in [Readers -> Page \cup {Nothing}]
  BY DEF IInv, TypeOK
<1>2. /\ entry' = entry
      /\ \A q \in Readers \ {r} : /\ rpc'[q] = rpc[q] /\ page'[q] = page[q]
                                  /\ limit'[q] = limit[q]
  <2>1. entry' = entry
    BY DEF CallList, GetHit, GetMiss, Touch, Query, CacheReadError, SetError,
           ReaderAbort, redisVars
  <2>2. \A q \in Readers \ {r} : rpc'[q] = rpc[q]
    BY <1>1 DEF CallList, GetHit, GetMiss, Touch, Query, CacheReadError, SetError,
                ReaderAbort, ReaderAt
  <2>3. \A q \in Readers \ {r} : page'[q] = page[q]
    BY <1>1 DEF CallList, GetHit, GetMiss, Touch, Query, CacheReadError, SetError,
                ReaderAbort
  <2>4. \A q \in Readers \ {r} : limit'[q] = limit[q]
    BY <1>1 DEF CallList, GetHit, GetMiss, Touch, Query, CacheReadError, SetError,
                ReaderAbort
  <2> QED BY <2>1, <2>2, <2>3, <2>4
<1>3. PageServes(r)'
  <2>1. CASE CallList(r)
    BY <2>1, <1>1 DEF CallList, ReaderAt, PageServes
  <2>2. CASE GetHit(r)
    <3>1. /\ rpc'[r] \in {"touch", "done"} /\ limit'[r] = limit[r]
          /\ page'[r] = Truncated(entry, limit[r]) /\ entry # Nothing
      BY <2>2, <1>1 DEF GetHit, ReaderAt
    <3>2. /\ entry.count \in Nat /\ entry.asked \in Nat /\ limit[r] \in Nat
          /\ MaxItems \in Nat /\ limit[r] <= MaxItems
          /\ \/ entry.count = entry.total \/ entry.count = entry.asked
             \/ entry.count = MaxItems
      BY <2>2, <3>1, PageNumbers
         DEF GetHit, WholePages, EntryServes, PageServes, Cacheable, Page
    <3>3. /\ page'[r].count = Smaller(entry.count, limit[r])
          /\ page'[r].total = entry.total /\ page'[r].asked = entry.asked
      BY <3>1, PageNumbers DEF Truncated, Page
    <3>4. \/ page'[r].count = limit[r] \/ page'[r].count = page'[r].total
          \/ page'[r].asked < limit[r]
      BY <3>2, <3>3 DEF Smaller
    <3> QED BY <3>1, <3>4 DEF PageServes
  <2>3. CASE GetMiss(r) \/ CacheReadError(r) \/ ReaderAbort(r)
    <3>1. rpc'[r] \in {"query", "idle"}
      BY <2>3, <1>1 DEF GetMiss, CacheReadError, ReaderAbort, ReaderAt
    <3> QED BY <3>1 DEF PageServes
  <2>4. CASE Touch(r)
    BY <2>4, <1>1 DEF Touch, ReaderAt, WholePages, PageServes
  <2>5. CASE Query(r)
    <3>1. /\ rpc'[r] = "set" /\ limit'[r] = limit[r] /\ page'[r].total = total
          /\ page'[r].count = Smaller(total, limit[r]) /\ page'[r].asked = limit[r]
      BY <2>5, <1>1 DEF Query, ReaderAt
    <3> QED BY <3>1 DEF PageServes
  <2>6. CASE SetError(r)
    <3>1. /\ rpc[r] = "set" /\ rpc'[r] = "done"
          /\ limit'[r] = limit[r] /\ page'[r] = page[r]
      BY <2>6, <1>1 DEF SetError, ReaderAt
    <3>2. page[r].count = Smaller(page[r].total, limit[r])
      BY <3>1 DEF WholePages, PageServes
    <3> QED BY <3>1, <3>2 DEF PageServes, Smaller
  <2> QED BY <2>1, <2>2, <2>3, <2>4, <2>5, <2>6
<1> QED BY <1>2, <1>3, OneReader

(* A fill: the page of its reader, cut if CACHE_MAX_ITEMS is smaller.      *)
LEMMA FillServes ==
  ASSUME IInv, WholePages, NEW r \in Readers, SetRecent(r)
  PROVE  WholePages'
<1>1. /\ rpc[r] = "set" /\ rpc' = [rpc EXCEPT ![r] = "done"]
      /\ entry' = [Truncated(page[r], MaxItems) EXCEPT !.filled = version]
      /\ UNCHANGED <<limit, page>>
  BY DEF SetRecent, ReaderAt
<1>2. /\ page[r] \in Page /\ page[r].count = Smaller(page[r].total, limit[r])
      /\ page[r].asked = limit[r]
  BY <1>1, PageNumbers DEF WholePages, PageServes, GoodPage
<1>3. /\ entry'.count = Smaller(page[r].count, MaxItems)
      /\ entry'.total = page[r].total /\ entry'.asked = page[r].asked
  BY <1>1, <1>2 DEF Truncated, Page
<1>4. EntryServes'
  BY <1>2, <1>3 DEF EntryServes, Smaller
<1>5. ASSUME NEW q \in Readers PROVE PageServes(q)'
  <2>1. CASE q = r
    <3>1. rpc'[r] = "done"
      BY <1>1 DEF IInv, TypeOK
    <3> QED BY <2>1, <3>1, <1>1, <1>2 DEF PageServes, Smaller
  <2>2. CASE q # r
    <3>1. rpc'[q] = rpc[q]
      BY <2>2, <1>1 DEF IInv, TypeOK
    <3> QED BY <3>1, <1>1 DEF WholePages, PageServes
  <2> QED BY <2>1, <2>2
<1> QED BY <1>4, <1>5 DEF WholePages

(* The others leave the readers alone, and empty Redis at most.            *)
LEMMA OthersServe ==
  ASSUME WholePages, UNCHANGED readerVars, entry' \in {entry, Nothing}
  PROVE  WholePages'
BY DEF WholePages, EntryServes, PageServes, readerVars

(* has_more = FALSE is the last page, whichever replica filled the cache   *)
(* and however long ago, but where a page was selected for a smaller limit *)
(* than the one it is given for.                                           *)
THEOREM ShortOnlyByNarrowFill == Spec => []LastUnlessNarrow
<1>1. Init => WholePages
  BY DEF Init, WholePages, EntryServes, PageServes
<1>2. IInv /\ WholePages /\ [Next]_vars => WholePages'
  <2> SUFFICES ASSUME IInv, WholePages, [Next]_vars PROVE WholePages'
    OBVIOUS
  <2>1. CASE UNCHANGED vars
    BY <2>1, OthersServe DEF vars, readerVars
  <2>2. ASSUME NEW r \in Readers, CallList(r) \/ ReaderStep(r) \/ ReaderFault(r)
        PROVE  WholePages'
    BY <2>2, ReaderServes, FillServes DEF ReaderStep, ReaderFault
  <2>3. ASSUME NEW w \in Writers, CallWrite(w) \/ WriterStep(w) \/ WriterFault(w)
        PROVE  WholePages'
    <3>1. UNCHANGED readerVars /\ entry' \in {entry, Nothing}
      BY <2>3 DEF CallWrite, WriterStep, WriterFault, Write, WriteRefused, Invalidate,
                  WriteUnreported, InvalidateError, WriterCrash, redisVars
    <3> QED BY <3>1, OthersServe
  <2>4. CASE Tick
    BY <2>4, OthersServe DEF Tick
  <2> QED BY <2>1, <2>2, <2>3, <2>4 DEF Next
<1>3. WholePages => LastUnlessNarrow
  BY DEF WholePages, PageServes, LastUnlessNarrow, HasMore
<1> QED BY <1>1, <1>2, <1>3, Invariance, PTL DEF Spec
=============================================================================
