------------------------------ MODULE LoadTool ------------------------------
(***************************************************************************)
(* tools/seed_messages.py and tools/consume_messages.py: both fill a queue *)
(* with jobs, then with one sentinel per worker, wait for the queue to be  *)
(* worked off, then for the workers.  A seed job posts one message, with   *)
(* retries; a consume job lists a page, and sometimes the page after it.   *)
(*                                                                         *)
(* The queue is FIFO and is filled before any worker runs: its items are   *)
(* 1..Jobs, then the sentinels, and "head" of them have been taken.        *)
(*                                                                         *)
(* pc of a worker:   "get" -> "post" -> ["sleep" -> "post" ...] -> "get"   *)
(*                   "get" -> "page" -> ["follow" ->] "get"                *)
(*                   "get" -> "left"                                       *)
(***************************************************************************)
EXTENDS Naturals, FiniteSets

CONSTANTS
  Workers,   \* "concurrency" tasks
  Jobs,      \* items before the sentinels: threads * messages, or "reads"
  Attempts   \* of _post_with_retry

ASSUME LoadAssumption ==
  IsFiniteSet(Workers) /\ Jobs \in Nat /\ Attempts \in Nat \ {0}

VARIABLES
  tool,        \* "seed" or "consume"
  head,        \* items taken from the queue
  unfinished,  \* the queue's count of items without their task_done
  pc,          \* worker |-> where it is
  job,         \* worker |-> the item it took
  tried,       \* worker |-> posts made for the job
  main,        \* run(): "join", "gather" or "done"
  stored,      \* job |-> messages the service stored for it
  ok, fail,    \* the counters
  follows      \* follow-up pages counted in them

vars == <<tool, head, unfinished, pc, job, tried, main, stored, ok, fail, follows>>
queueVars == <<head, unfinished>>
counters == <<ok, fail, follows>>

(* One None per worker. *)
Sentinels_One == 1
Sentinels == Cardinality(Workers)

Init ==
  /\ tool \in {"seed", "consume"}
  /\ head = 0
  /\ unfinished = Jobs + Sentinels
  /\ pc = [w \in Workers |-> "get"]
  /\ job = [w \in Workers |-> 0]
  /\ tried = [w \in Workers |-> 0]
  /\ main = "join"
  /\ stored = [j \in 1..Jobs |-> 0]
  /\ ok = 0 /\ fail = 0 /\ follows = 0

Goto(w, label) == pc' = [pc EXCEPT ![w] = label]

-----------------------------------------------------------------------------
(* q.get() *)

Take_Finishes(w) ==
  /\ pc[w] = "get" /\ head < Jobs
  /\ head' = head + 1
  /\ unfinished' = unfinished - 1
  /\ job' = [job EXCEPT ![w] = head + 1]
  /\ tried' = [tried EXCEPT ![w] = 0]
  /\ Goto(w, IF tool = "seed" THEN "post" ELSE "page")
  /\ UNCHANGED <<tool, main, stored, counters>>
Take(w) ==
  /\ pc[w] = "get" /\ head < Jobs
  /\ head' = head + 1
  /\ job' = [job EXCEPT ![w] = head + 1]
  /\ tried' = [tried EXCEPT ![w] = 0]
  /\ Goto(w, IF tool = "seed" THEN "post" ELSE "page")
  /\ UNCHANGED <<tool, unfinished, main, stored, counters>>

Leave(w) ==
  /\ pc[w] = "get" /\ head \in Jobs..(Jobs + Sentinels - 1)
  /\ head' = head + 1
  /\ unfinished' = unfinished - 1
  /\ Goto(w, "left")
  /\ UNCHANGED <<tool, job, tried, main, stored, counters>>

(* The counters and task_done, with no await in between. *)
TaskDone(w) ==
  /\ unfinished' = unfinished - 1
  /\ Goto(w, "get")

(* How often the service stored the message of a post. *)
Store(w, times) ==
  \E n \in times : stored' = [stored EXCEPT ![job[w]] = @ + n]

(* POST: 201. *)
PostCreated(w) ==
  /\ pc[w] = "post"
  /\ Store(w, {1})
  /\ ok' = ok + 1
  /\ TaskDone(w)
  /\ UNCHANGED <<tool, head, job, tried, main, fail, follows>>

(* A 4xx: nothing was stored, and nothing is tried again. *)
PostRefused_IsOk(w) ==
  /\ pc[w] = "post"
  /\ ok' = ok + 1
  /\ TaskDone(w)
  /\ UNCHANGED <<tool, head, job, tried, main, stored, fail, follows>>
PostRefused(w) ==
  /\ pc[w] = "post"
  /\ fail' = fail + 1
  /\ TaskDone(w)
  /\ UNCHANGED <<tool, head, job, tried, main, stored, ok, follows>>

(* 429 or 5xx, a timeout, a connection that breaks: the message may have   *)
(* been stored all the same.                                               *)
PostFails(w) ==
  /\ pc[w] = "post"
  /\ Store(w, {0, 1})
  /\ tried' = [tried EXCEPT ![w] = @ + 1]
  /\ Goto(w, "sleep")
  /\ UNCHANGED <<tool, queueVars, job, main, counters>>

Retry(w) ==
  /\ pc[w] = "sleep" /\ tried[w] < Attempts
  /\ Goto(w, "post")
  /\ UNCHANGED <<tool, queueVars, job, tried, main, stored, counters>>

GiveUp_Forgets(w) ==
  /\ pc[w] = "sleep" /\ tried[w] >= Attempts
  /\ Goto(w, "get")
  /\ UNCHANGED <<tool, queueVars, job, tried, main, stored, counters>>
GiveUp(w) ==
  /\ pc[w] = "sleep" /\ tried[w] >= Attempts
  /\ fail' = fail + 1
  /\ TaskDone(w)
  /\ UNCHANGED <<tool, head, job, tried, main, stored, ok, follows>>

(* GET: the first page; the one after it in three of ten cases, if there   *)
(* is a next_cursor.                                                       *)
FirstPage(w) ==
  /\ pc[w] = "page"
  /\ \/ ok' = ok + 1 /\ TaskDone(w) /\ UNCHANGED fail
     \/ ok' = ok + 1 /\ Goto(w, "follow") /\ UNCHANGED <<unfinished, fail>>
     \/ fail' = fail + 1 /\ TaskDone(w) /\ UNCHANGED ok
  /\ UNCHANGED <<tool, head, job, tried, main, stored, follows>>

FollowPage(w) ==
  /\ pc[w] = "follow"
  /\ \/ ok' = ok + 1 /\ UNCHANGED fail
     \/ fail' = fail + 1 /\ UNCHANGED ok
  /\ follows' = follows + 1
  /\ TaskDone(w)
  /\ UNCHANGED <<tool, head, job, tried, main, stored>>

-----------------------------------------------------------------------------
(* run() *)

Join ==
  /\ main = "join" /\ unfinished = 0
  /\ main' = "gather"
  /\ UNCHANGED <<tool, queueVars, pc, job, tried, stored, counters>>

Gather ==
  /\ main = "gather" /\ \A w \in Workers : pc[w] = "left"
  /\ main' = "done"
  /\ UNCHANGED <<tool, queueVars, pc, job, tried, stored, counters>>

(* The reporter prints every second until it is cancelled.                 *)
Report == main # "done" /\ UNCHANGED vars

Finished == main = "done" /\ UNCHANGED vars

Step(w) ==
  \/ Take(w) \/ Leave(w)
  \/ PostCreated(w) \/ PostRefused(w) \/ PostFails(w) \/ Retry(w) \/ GiveUp(w)
  \/ FirstPage(w) \/ FollowPage(w)

Next == Join \/ Gather \/ Report \/ Finished
        \/ \E w \in Workers : Step(w)

(* httpx requests have a timeout and sleeps end; the event loop is fair.   *)
Spec ==
  /\ Init /\ [][Next]_vars
  /\ WF_vars(Join \/ Gather) /\ \A w \in Workers : WF_vars(Step(w))

-----------------------------------------------------------------------------
(* Properties. *)

(* Types; the queue knows the items in it and in the hands of workers, and *)
(* a retry stores a message again no more often than it is sent.           *)
Busy == {w \in Workers : pc[w] \in {"post", "sleep", "page", "follow"}}

TypeOK ==
  /\ tool \in {"seed", "consume"} /\ main \in {"join", "gather", "done"}
  /\ head \in 0..(Jobs + Sentinels)
  /\ unfinished = Jobs + Sentinels - head + Cardinality(Busy)
  /\ pc \in [Workers -> {"get", "post", "sleep", "page", "follow", "left"}]
  /\ job \in [Workers -> 0..Jobs]
  /\ tried \in [Workers -> 0..Attempts]
  /\ stored \in [1..Jobs -> 0..Attempts]
  /\ ok \in Nat /\ fail \in Nat /\ follows \in Nat

(* What the summary is made of: when run() has joined the queue, every job *)
(* was counted once, as sent or as failed, follow-up pages apart.          *)
AllCounted == main # "join" => ok + fail = Jobs + follows

(* The seed never reports more messages than the service stored; it may    *)
(* report fewer, since a failure says nothing about what was stored.       *)
OkStored ==
  tool = "seed" => ok <= Cardinality({j \in 1..Jobs : stored[j] > 0})

(* The tool ends, however the service answers: no worker waits for an item *)
(* that never comes, and join does not wait for a task_done that never     *)
(* comes.                                                                  *)
Terminates == <>(main = "done")
=============================================================================
