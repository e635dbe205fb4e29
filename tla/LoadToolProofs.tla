---------------------------- MODULE LoadToolProofs ----------------------------
(***************************************************************************)
(* LoadTool for any number of workers, jobs and attempts: the counts of    *)
(* the queue and of the summary agree with what the workers did, whatever  *)
(* fails and however the workers interleave.                               *)
(***************************************************************************)
EXTENDS LoadTool, FiniteSetTheorems, TLAPS

Labels == {"get", "post", "sleep", "page", "follow", "left"}
Working == {"post", "sleep", "page", "follow"}

(* A worker between the two GETs of a consume job has counted the first.   *)
Following == {w \in Workers : pc[w] = "follow"}

(* Jobs that are stored and that no worker has in hand any more.           *)
InHand(j) == \E w \in Busy : job[w] = j
Settled == {j \in 1..Jobs : stored[j] > 0 /\ ~InHand(j)}

(* Jobs of the queue that have been taken, sentinels apart.                *)
Taken == IF head < Jobs THEN head ELSE Jobs

(* The type invariant but for the count of the queue.                      *)
Types ==
  /\ tool \in {"seed", "consume"} /\ main \in {"join", "gather", "done"}
  /\ head \in 0..(Jobs + Sentinels)
  /\ pc \in [Workers -> Labels]
  /\ job \in [Workers -> 0..Jobs]
  /\ tried \in [Workers -> 0..Attempts]
  /\ stored \in [1..Jobs -> 0..Attempts]
  /\ ok \in Nat /\ fail \in Nat /\ follows \in Nat

(* A worker that is busy has a job of its own, which was taken; its tool's *)
(* steps are those of the job; an attempt is left while it posts.          *)
HandsInv ==
  \A w \in Workers :
    /\ pc[w] \in {"post", "sleep"} => tool = "seed"
    /\ pc[w] \in {"page", "follow"} => tool = "consume"
    /\ pc[w] = "post" => tried[w] < Attempts
    /\ pc[w] \in Working => job[w] \in 1..Jobs /\ job[w] <= head
OwnJobs ==
  \A v, w \in Workers : pc[v] \in Working /\ pc[w] \in Working /\ job[v] = job[w] => v = w

(* The service stored a message no more often than it was sent, and none   *)
(* before its job was taken.                                               *)
StoredInv ==
  /\ \A w \in Workers : pc[w] \in Working => stored[job[w]] <= tried[w]
  /\ \A j \in 1..Jobs : j > head => stored[j] = 0

(* The queue's count and the summary's.                                    *)
QueueInv == unfinished = Jobs + Sentinels - head + Cardinality(Busy)
CountInv == ok + fail + Cardinality(Busy) = Taken + Cardinality(Following) + follows

(* Once joined, the queue is empty and no worker holds an item.            *)
JoinInv == main # "join" => head = Jobs + Sentinels /\ Busy = {}

(* What was reported as sent is stored, and done with.                     *)
OkInv == tool = "seed" => ok <= Cardinality(Settled)

IInv == /\ Types /\ HandsInv /\ OwnJobs /\ StoredInv
        /\ QueueInv /\ CountInv /\ JoinInv /\ OkInv

-----------------------------------------------------------------------------
LEMMA Finite ==
  /\ IsFiniteSet(Workers) /\ Sentinels \in Nat /\ Jobs \in Nat /\ Attempts \in Nat \ {0}
  /\ \A S \in SUBSET Workers : IsFiniteSet(S) /\ Cardinality(S) \in Nat
BY LoadAssumption, FS_Subset, FS_CardinalityType DEF LoadAssumption, Sentinels

One(P) == IF P THEN 1 ELSE 0

(* A subset of the workers that one of them joins, leaves or stays in.     *)
LEMMA MemberCount ==
  ASSUME NEW S \in SUBSET Workers, NEW T, NEW w,
         T = S \cup {w} \/ T = S \ {w}
  PROVE  Cardinality(T) = Cardinality(S) + One(w \in T) - One(w \in S)
<1>1. IsFiniteSet(S) /\ Cardinality(S) \in Nat
  BY Finite
<1>2. Cardinality(S \cup {w}) = IF w \in S THEN Cardinality(S) ELSE Cardinality(S) + 1
  BY <1>1, FS_AddElement
<1>3. Cardinality(S \ {w}) = IF w \in S THEN Cardinality(S) - 1 ELSE Cardinality(S)
  BY <1>1, FS_RemoveElement
<1> QED BY <1>1, <1>2, <1>3 DEF One

LEMMA Moves ==
  ASSUME Types, NEW w \in Workers, NEW l \in Labels, Goto(w, l)
  PROVE  /\ pc' \in [Workers -> Labels] /\ pc'[w] = l
         /\ \A v \in Workers \ {w} : pc'[v] = pc[v]
         /\ Cardinality(Busy) \in Nat /\ Cardinality(Following) \in Nat
         /\ Cardinality(Busy)' = Cardinality(Busy) + One(l \in Working) - One(pc[w] \in Working)
         /\ Cardinality(Following)' =
              Cardinality(Following) + One(l = "follow") - One(pc[w] = "follow")
<1>1. /\ pc' \in [Workers -> Labels] /\ pc'[w] = l
      /\ \A v \in Workers \ {w} : pc'[v] = pc[v]
  BY DEF Types, Goto
<1>2. /\ Busy' = Busy \cup {w} \/ Busy' = Busy \ {w}
      /\ w \in Busy' <=> l \in Working
      /\ w \in Busy <=> pc[w] \in Working
      /\ Busy \in SUBSET Workers
  BY <1>1 DEF Busy, Working
<1>3. /\ Following' = Following \cup {w} \/ Following' = Following \ {w}
      /\ w \in Following' <=> l = "follow"
      /\ w \in Following <=> pc[w] = "follow"
      /\ Following \in SUBSET Workers
  BY <1>1 DEF Following
<1>4. Cardinality(Busy)' = Cardinality(Busy) + One(w \in Busy') - One(w \in Busy)
  BY <1>2, MemberCount
<1>5. Cardinality(Following)' =
        Cardinality(Following) + One(w \in Following') - One(w \in Following)
  BY <1>3, MemberCount
<1>6. Cardinality(Busy) \in Nat /\ Cardinality(Following) \in Nat
  BY <1>2, <1>3, Finite
<1> QED BY <1>1, <1>2, <1>3, <1>4, <1>5, <1>6 DEF One

LEMMA SettledFinite ==
  ASSUME Types
  PROVE  /\ IsFiniteSet(Settled) /\ Cardinality(Settled) \in Nat
         /\ IsFiniteSet(Settled') /\ Cardinality(Settled') \in Nat
<1>1. IsFiniteSet(1..Jobs)
  BY Finite, FS_Interval
<1>2. Settled \in SUBSET (1..Jobs) /\ Settled' \in SUBSET (1..Jobs)
  BY DEF Settled
<1> QED BY <1>1, <1>2, FS_Subset, FS_CardinalityType

LEMMA InitIInv == Init => IInv
<1> SUFFICES ASSUME Init PROVE IInv
  OBVIOUS
<1> USE Finite DEF Init
<1>1. Types
  BY DEF Types, Labels
<1>2. Busy = {} /\ Following = {}
  BY DEF Busy, Following
<1>3. Cardinality(Busy) = 0 /\ Cardinality(Following) = 0
  BY <1>2, FS_EmptySet
<1>4. HandsInv /\ OwnJobs /\ StoredInv
  BY DEF HandsInv, OwnJobs, StoredInv, Working
<1>5. QueueInv /\ CountInv /\ JoinInv
  BY <1>3 DEF QueueInv, CountInv, JoinInv, Taken
<1>6. OkInv
  BY <1>1, SettledFinite DEF OkInv
<1> QED BY <1>1, <1>4, <1>5, <1>6 DEF IInv

(* A step that is not the end of a job keeps what is settled settled.      *)
LEMMA SettledGrows ==
  ASSUME IInv, Settled \subseteq Settled', UNCHANGED <<tool, ok>>
  PROVE  OkInv'
<1>1. IsFiniteSet(Settled') /\ Cardinality(Settled) <= Cardinality(Settled')
  BY SettledFinite, FS_Subset DEF IInv
<1>2. Cardinality(Settled) \in Nat /\ Cardinality(Settled') \in Nat /\ ok \in Nat
  BY SettledFinite DEF IInv, Types
<1> QED BY <1>1, <1>2 DEF IInv, OkInv

-----------------------------------------------------------------------------
(* A worker takes the next job.                                            *)
LEMMA StepTake ==
  ASSUME IInv, NEW w \in Workers, Take(w)
  PROVE  IInv'
<1> USE Finite DEF IInv
<1>1. PICK l \in {"post", "page"} :
        /\ Goto(w, l) /\ (l = "post" <=> tool = "seed")
        /\ pc[w] = "get" /\ head < Jobs /\ head' = head + 1
        /\ job' = [job EXCEPT ![w] = head + 1] /\ tried' = [tried EXCEPT ![w] = 0]
        /\ UNCHANGED <<tool, unfinished, main, stored, ok, fail, follows>>
  BY DEF Take, counters
<1>2. /\ pc' \in [Workers -> Labels] /\ pc'[w] = l
      /\ \A v \in Workers \ {w} : pc'[v] = pc[v]
      /\ Cardinality(Busy) \in Nat /\ Cardinality(Following) \in Nat
      /\ Cardinality(Busy)' = Cardinality(Busy) + 1
      /\ Cardinality(Following)' = Cardinality(Following)
  <2>1. l \in Labels
    BY <1>1 DEF Labels
  <2> QED BY <1>1, <2>1, Moves DEF One, Working
<1>3. /\ head \in Nat /\ head' \in 1..Jobs /\ job'[w] = head' /\ tried'[w] = 0
      /\ \A v \in Workers \ {w} : job'[v] = job[v] /\ tried'[v] = tried[v]
  BY <1>1 DEF Types
<1>4. Types'
  <2>1. job' \in [Workers -> 0..Jobs] /\ tried' \in [Workers -> 0..Attempts]
    BY <1>1, <1>3 DEF Types
  <2>2. head' \in 0..(Jobs + Sentinels)
    BY <1>3
  <2> QED BY <1>1, <1>2, <2>1, <2>2 DEF Types
<1>5. HandsInv'
  <2>1. ASSUME NEW v \in Workers \ {w}
        PROVE  (/\ pc[v] \in {"post", "sleep"} => tool = "seed"
                /\ pc[v] \in {"page", "follow"} => tool = "consume"
                /\ pc[v] = "post" => tried[v] < Attempts
                /\ pc[v] \in Working => job[v] \in 1..Jobs /\ job[v] <= head)'
    BY <1>1, <1>2, <1>3 DEF HandsInv
  <2>2. (/\ pc[w] \in {"post", "sleep"} => tool = "seed"
         /\ pc[w] \in {"page", "follow"} => tool = "consume"
         /\ pc[w] = "post" => tried[w] < Attempts
         /\ pc[w] \in Working => job[w] \in 1..Jobs /\ job[w] <= head)'
    BY <1>1, <1>2, <1>3 DEF Types
  <2> QED BY <2>1, <2>2 DEF HandsInv
<1>6. OwnJobs'
  <2>1. ASSUME NEW v \in Workers \ {w}, pc'[v] \in Working PROVE job'[v] # job'[w]
    BY <2>1, <1>1, <1>2, <1>3 DEF HandsInv
  <2>2. ASSUME NEW u \in Workers \ {w}, NEW v \in Workers \ {w},
               pc'[u] \in Working, pc'[v] \in Working, job'[u] = job'[v]
        PROVE  u = v
    BY <2>2, <1>2, <1>3 DEF OwnJobs
  <2> QED BY <2>1, <2>2 DEF OwnJobs
<1>7. StoredInv'
  <2>1. stored'[job'[w]] <= tried'[w]
    BY <1>1, <1>3 DEF StoredInv
  <2>2. ASSUME NEW v \in Workers \ {w}, pc'[v] \in Working PROVE stored'[job'[v]] <= tried'[v]
    BY <2>2, <1>1, <1>2, <1>3 DEF StoredInv
  <2>3. \A j \in 1..Jobs : j > head' => stored'[j] = 0
    BY <1>1, <1>3 DEF StoredInv
  <2> QED BY <2>1, <2>2, <2>3 DEF StoredInv
<1>8. QueueInv' /\ CountInv'
  <2>1. head \in Nat /\ ok \in Nat /\ fail \in Nat /\ follows \in Nat
    BY DEF Types
  <2>2. Taken' = Taken + 1 /\ Taken \in Nat
    BY <1>1, <2>1 DEF Taken
  <2>3. QueueInv'
    BY <1>1, <1>2, <2>1 DEF QueueInv
  <2> QED BY <1>1, <1>2, <2>1, <2>2, <2>3 DEF CountInv
<1>9. JoinInv'
  <2>1. main = "join"
    BY <1>1 DEF JoinInv, Types
  <2> QED BY <1>1, <2>1 DEF JoinInv
<1>10. OkInv'
  <2>1. ASSUME NEW j \in Settled PROVE j \in Settled'
    <3>1. j \in 1..Jobs /\ stored[j] > 0 /\ j <= head
      BY <1>3 DEF Settled, StoredInv
    <3>2. ASSUME NEW v \in Busy' PROVE job'[v] # j
      BY <3>1, <1>1, <1>2, <1>3 DEF Settled, InHand, Busy
    <3> QED BY <3>1, <3>2, <1>1 DEF Settled, InHand
  <2> QED BY <2>1, <1>1, SettledGrows
<1> QED BY <1>4, <1>5, <1>6, <1>7, <1>8, <1>9, <1>10

LEMMA StepLeave ==
  ASSUME IInv, NEW w \in Workers, Leave(w)
  PROVE  IInv'
<1> USE Finite DEF IInv
<1>1. /\ Goto(w, "left") /\ pc[w] = "get"
      /\ head \in Jobs..(Jobs + Sentinels - 1) /\ head' = head + 1
      /\ unfinished' = unfinished - 1
      /\ UNCHANGED <<tool, job, tried, main, stored, ok, fail, follows>>
  BY DEF Leave, counters
<1>2. /\ pc' \in [Workers -> Labels] /\ pc'[w] = "left"
      /\ \A v \in Workers \ {w} : pc'[v] = pc[v]
      /\ Cardinality(Busy) \in Nat /\ Cardinality(Following) \in Nat
      /\ Cardinality(Busy)' = Cardinality(Busy)
      /\ Cardinality(Following)' = Cardinality(Following)
  <2>1. "left" \in Labels
    BY DEF Labels
  <2> QED BY <1>1, <2>1, Moves DEF One, Working
<1>3. head \in Nat /\ head' \in Nat /\ head' <= Jobs + Sentinels /\ head >= Jobs
  BY <1>1
<1>4. Types'
  BY <1>1, <1>2, <1>3 DEF Types
<1>5. Busy' = Busy /\ \A v \in Workers : pc'[v] \in Working => pc[v] \in Working /\ pc'[v] = pc[v]
  BY <1>1, <1>2 DEF Busy, Working
<1>6. HandsInv' /\ OwnJobs'
  <2>1. HandsInv'
    BY <1>1, <1>2, <1>3, <1>5 DEF HandsInv, Types
  <2> QED BY <2>1, <1>1, <1>5 DEF OwnJobs
<1>7. StoredInv'
  BY <1>1, <1>3, <1>5 DEF StoredInv
<1>8. QueueInv' /\ CountInv'
  <2>1. Taken' = Taken
    BY <1>1, <1>3 DEF Taken
  <2> QED BY <2>1, <1>1, <1>2, <1>3 DEF QueueInv, CountInv
<1>9. JoinInv'
  BY <1>1 DEF JoinInv, Types
<1>10. OkInv'
  BY <1>1, <1>5 DEF OkInv, Settled, InHand
<1> QED BY <1>4, <1>6, <1>7, <1>8, <1>9, <1>10

-----------------------------------------------------------------------------
(* What may become of the messages stored for the job of a post.           *)
LEMMA StoredTypes ==
  ASSUME IInv, NEW w \in Workers, pc[w] \in Working,
         \/ stored' = stored
         \/ pc[w] = "post" /\ stored' = [stored EXCEPT ![job[w]] = @ + 1]
  PROVE  /\ stored' \in [1..Jobs -> 0..Attempts]
         /\ \A j \in 1..Jobs : j # job[w] => stored'[j] = stored[j]
         /\ \A j \in 1..Jobs : stored[j] > 0 => stored'[j] > 0
         /\ stored'[job[w]] <= stored[job[w]] + 1
         /\ pc[w] # "post" => stored' = stored
         /\ \A j \in 1..Jobs : j > head => stored'[j] = 0
         /\ job[w] \in 1..Jobs /\ job[w] <= head
<1> USE Finite DEF IInv
<1>1. job[w] \in 1..Jobs /\ job[w] <= head /\ head \in Nat
  BY DEF HandsInv, Types
<1>2. stored \in [1..Jobs -> 0..Attempts] /\ \A j \in 1..Jobs : j > head => stored[j] = 0
  BY DEF Types, StoredInv
<1>3. CASE stored' = stored
  BY <1>1, <1>2, <1>3
<1>4. CASE pc[w] = "post" /\ stored' = [stored EXCEPT ![job[w]] = @ + 1]
  <2>1. /\ stored[job[w]] \in Nat /\ tried[w] \in Nat
        /\ stored[job[w]] <= tried[w] /\ tried[w] < Attempts
    BY <1>1, <1>2, <1>4 DEF Types, StoredInv, HandsInv
  <2>2. stored[job[w]] + 1 \in 0..Attempts
    BY <2>1
  <2> QED BY <1>1, <1>2, <1>4, <2>2
<1> QED BY <1>3, <1>4

(* The end of a job, with its counters.                                    *)
LEMMA EndOfJob ==
  ASSUME IInv, NEW w \in Workers, pc[w] \in Working, TaskDone(w),
         UNCHANGED <<tool, head, job, tried, main>>,
         ok' \in Nat, fail' \in Nat, ok' + fail' = ok + fail + 1,
         follows' = follows + One(pc[w] = "follow"),
         \/ stored' = stored
         \/ pc[w] = "post" /\ stored' = [stored EXCEPT ![job[w]] = @ + 1],
         \/ ok' = ok
         \/ ok' = ok + 1 /\ (tool = "seed" => stored'[job[w]] > 0)
  PROVE  IInv'
<1> USE Finite DEF IInv
<1>1. Goto(w, "get") /\ unfinished' = unfinished - 1
  BY DEF TaskDone
<1>2. /\ pc' \in [Workers -> Labels] /\ pc'[w] = "get"
      /\ \A v \in Workers \ {w} : pc'[v] = pc[v]
      /\ Cardinality(Busy) \in Nat /\ Cardinality(Following) \in Nat
      /\ Cardinality(Busy)' = Cardinality(Busy) - 1
      /\ Cardinality(Following)' = Cardinality(Following) - One(pc[w] = "follow")
  <2>1. "get" \in Labels
    BY DEF Labels
  <2> QED BY <1>1, <2>1, Moves DEF One, Working
<1>3. /\ stored' \in [1..Jobs -> 0..Attempts]
      /\ \A j \in 1..Jobs : j # job[w] => stored'[j] = stored[j]
      /\ \A j \in 1..Jobs : stored[j] > 0 => stored'[j] > 0
      /\ \A j \in 1..Jobs : j > head => stored'[j] = 0
      /\ job[w] \in 1..Jobs
  BY StoredTypes
<1>4. ok \in Nat /\ fail \in Nat /\ follows \in Nat /\ follows' \in Nat
  BY DEF Types, One
<1>5. Types'
  <2>1. stored' \in [1..Jobs -> 0..Attempts] /\ pc' \in [Workers -> Labels]
    BY <1>2, <1>3
  <2> QED BY <1>4, <2>1 DEF Types
<1>6. \A v \in Workers : pc'[v] \in Working => v # w /\ pc[v] \in Working /\ pc'[v] = pc[v]
  BY <1>2 DEF Working
<1>7. HandsInv'
  BY <1>2 DEF HandsInv, Working
<1>8. OwnJobs'
  BY <1>6 DEF OwnJobs
<1>9. StoredInv'
  <2>1. ASSUME NEW v \in Workers, pc'[v] \in Working PROVE stored'[job'[v]] <= tried'[v]
    <3>1. job[v] # job[w] /\ job[v] \in 1..Jobs
      BY <2>1, <1>6 DEF OwnJobs, HandsInv
    <3> QED BY <2>1, <3>1, <1>3, <1>6 DEF StoredInv
  <2> QED BY <2>1, <1>3 DEF StoredInv
<1>10. QueueInv'
  <2>1. head \in Nat
    BY DEF Types
  <2> QED BY <2>1, <1>1, <1>2 DEF QueueInv
<1>11. CountInv'
  <2>1. Taken' = Taken /\ Taken \in Nat
    BY DEF Taken, Types
  <2>2. ok + fail + Cardinality(Busy) = Taken + Cardinality(Following) + follows
    BY DEF CountInv
  <2>3. ok' + fail' + Cardinality(Busy)' = ok + fail + Cardinality(Busy)
    <3>1. Cardinality(Busy)' \in Int /\ Cardinality(Busy) \in Int
      BY <1>2
    <3>2. Cardinality(Busy)' = Cardinality(Busy) - 1
      BY <1>2
    <3>3. \A a, b \in Int : b = a - 1 => (ok + fail + 1) + b = ok + fail + a
      BY <1>4
    <3>4. (ok + fail + 1) + Cardinality(Busy)' = ok + fail + Cardinality(Busy)
      BY <3>1, <3>2, <3>3
    <3> QED BY <3>4
  <2>4. Cardinality(Following)' \in Int
        /\ Cardinality(Following)' + follows' = Cardinality(Following) + follows
    BY <1>2, <1>4 DEF One
  <2> HIDE DEF IInv
  <2>5. Taken' + Cardinality(Following)' + follows' = Taken + Cardinality(Following) + follows
    BY <2>1, <2>4, <1>2, <1>4
  <2> QED BY <2>2, <2>3, <2>5 DEF CountInv
<1>12. JoinInv'
  <2>1. w \in Busy
    BY DEF Busy, Working
  <2> QED BY <2>1 DEF JoinInv
<1>13. OkInv'
  <2>1. Settled \subseteq Settled'
    <3>1. ASSUME NEW v \in Busy' PROVE v \in Busy
      BY <1>6 DEF Busy, Working
    <3> QED BY <3>1, <1>3 DEF Settled, InHand
  <2>2. CASE ok' = ok
    BY <2>1, <2>2, SettledGrows
  <2>3. CASE ok' = ok + 1 /\ (tool = "seed" => stored'[job[w]] > 0)
    <3> SUFFICES ASSUME tool = "seed" PROVE ok' <= Cardinality(Settled')
      BY DEF OkInv
    <3>1. job[w] \notin Settled
      BY DEF Settled, InHand, Busy, Working
    <3>2. job[w] \in Settled'
      <4>1. ASSUME NEW v \in Busy' PROVE job'[v] # job[w]
        BY <1>6 DEF Busy, Working, OwnJobs
      <4> QED BY <4>1, <2>3, <1>3 DEF Settled, InHand
    <3>3. /\ IsFiniteSet(Settled) /\ Cardinality(Settled) \in Nat
          /\ IsFiniteSet(Settled') /\ Cardinality(Settled') \in Nat
      BY SettledFinite
    <3>4. Cardinality(Settled \cup {job[w]}) = Cardinality(Settled) + 1
      BY <3>1, <3>3, FS_AddElement
    <3>5. Cardinality(Settled \cup {job[w]}) <= Cardinality(Settled')
      BY <2>1, <3>2, <3>3, FS_Subset
    <3>6. ok <= Cardinality(Settled)
      BY DEF OkInv
    <3> QED BY <2>3, <3>3, <3>4, <3>5, <3>6, <1>4
  <2> QED BY <2>2, <2>3
<1> QED BY <1>5, <1>7, <1>8, <1>9, <1>10, <1>11, <1>12, <1>13

LEMMA StepEndOfJob ==
  ASSUME IInv, NEW w \in Workers,
         PostCreated(w) \/ PostRefused(w) \/ GiveUp(w) \/ FollowPage(w)
  PROVE  IInv'
<1>1. ok \in Nat /\ fail \in Nat /\ follows \in Nat
  BY DEF IInv, Types
<1>2. CASE PostCreated(w)
  <2>1. /\ pc[w] = "post" /\ stored' = [stored EXCEPT ![job[w]] = @ + 1]
        /\ ok' = ok + 1 /\ TaskDone(w)
        /\ UNCHANGED <<tool, head, job, tried, main, fail, follows>>
    BY <1>2 DEF PostCreated, Store
  <2>2. stored'[job[w]] > 0
    BY <2>1, Finite DEF IInv, Types, HandsInv, Working
  <2>3. pc[w] \in Working /\ follows' = follows + One(pc[w] = "follow")
    BY <1>1, <2>1 DEF Working, One
  <2>4. ok' \in Nat /\ fail' \in Nat /\ ok' + fail' = ok + fail + 1
    BY <1>1, <2>1
  <2> QED BY <2>1, <2>2, <2>3, <2>4, EndOfJob
<1>3. CASE PostRefused(w) \/ GiveUp(w)
  <2>1. /\ pc[w] \in {"post", "sleep"} /\ fail' = fail + 1 /\ TaskDone(w)
        /\ UNCHANGED <<tool, head, job, tried, main, stored, ok, follows>>
    BY <1>3 DEF PostRefused, GiveUp
  <2>2. pc[w] \in Working /\ follows' = follows + One(pc[w] = "follow")
    BY <1>1, <2>1 DEF Working, One
  <2>3. ok' \in Nat /\ fail' \in Nat /\ ok' + fail' = ok + fail + 1
    BY <1>1, <2>1
  <2> QED BY <2>1, <2>2, <2>3, EndOfJob
<1>4. CASE FollowPage(w)
  <2>1. /\ pc[w] = "follow" /\ follows' = follows + 1 /\ TaskDone(w)
        /\ (ok' = ok + 1 /\ fail' = fail) \/ (fail' = fail + 1 /\ ok' = ok)
        /\ UNCHANGED <<tool, head, job, tried, main, stored>>
    BY <1>4 DEF FollowPage
  <2>2. tool # "seed"
    BY <2>1 DEF IInv, HandsInv
  <2>3. pc[w] \in Working /\ follows' = follows + One(pc[w] = "follow")
    BY <1>1, <2>1 DEF Working, One
  <2>4. ok' \in Nat /\ fail' \in Nat /\ ok' + fail' = ok + fail + 1
    BY <1>1, <2>1
  <2> QED BY <2>1, <2>2, <2>3, <2>4, EndOfJob
<1> QED BY <1>2, <1>3, <1>4

(* A step within a job.                                                    *)
LEMMA WithinJob ==
  ASSUME IInv, NEW w \in Workers, NEW l \in Working, pc[w] \in Working, Goto(w, l),
         l \in {"post", "sleep"} => tool = "seed",
         l \in {"page", "follow"} => tool = "consume",
         NEW t \in 0..Attempts, tried' = [tried EXCEPT ![w] = t], l = "post" => t < Attempts,
         UNCHANGED <<tool, queueVars, job, main, fail, follows>>,
         \/ stored' = stored /\ tried[w] <= t
         \/ /\ pc[w] = "post" /\ stored' = [stored EXCEPT ![job[w]] = @ + 1]
            /\ tried[w] < t,
         ok' = ok + One(l = "follow"), pc[w] # "follow"
  PROVE  IInv'
<1> USE Finite DEF IInv, queueVars
<1>1. /\ pc' \in [Workers -> Labels] /\ pc'[w] = l
      /\ \A v \in Workers \ {w} : pc'[v] = pc[v]
      /\ Cardinality(Busy) \in Nat /\ Cardinality(Following) \in Nat
      /\ Cardinality(Busy)' = Cardinality(Busy)
      /\ Cardinality(Following)' = Cardinality(Following) + One(l = "follow")
  <2>1. l \in Labels
    BY DEF Labels, Working
  <2> QED BY <2>1, Moves DEF One
<1>2. /\ stored' \in [1..Jobs -> 0..Attempts]
      /\ \A j \in 1..Jobs : j # job[w] => stored'[j] = stored[j]
      /\ \A j \in 1..Jobs : stored[j] > 0 => stored'[j] > 0
      /\ stored'[job[w]] <= stored[job[w]] + 1
      /\ \A j \in 1..Jobs : j > head => stored'[j] = 0
      /\ job[w] \in 1..Jobs /\ job[w] <= head
  BY StoredTypes
<1>3. /\ tried' \in [Workers -> 0..Attempts] /\ tried'[w] = t
      /\ \A v \in Workers \ {w} : tried'[v] = tried[v]
  BY DEF Types
<1>4. ok \in Nat /\ ok' \in Nat /\ One(l = "follow") \in {0, 1}
  BY DEF Types, One
<1>5. Types'
  BY <1>1, <1>2, <1>3, <1>4 DEF Types
<1>6. /\ Busy' = Busy
      /\ \A v \in Workers : pc'[v] \in Working <=> pc[v] \in Working
  BY <1>1 DEF Busy, Working
<1>7. HandsInv'
  <2>1. ASSUME NEW v \in Workers \ {w}
        PROVE  (/\ pc[v] \in {"post", "sleep"} => tool = "seed"
                /\ pc[v] \in {"page", "follow"} => tool = "consume"
                /\ pc[v] = "post" => tried[v] < Attempts
                /\ pc[v] \in Working => job[v] \in 1..Jobs /\ job[v] <= head)'
    BY <1>1, <1>3 DEF HandsInv
  <2> QED BY <2>1, <1>1, <1>2, <1>3 DEF HandsInv
<1>8. OwnJobs'
  BY <1>6 DEF OwnJobs
<1>9. StoredInv'
  <2>1. ASSUME NEW v \in Workers \ {w}, pc'[v] \in Working PROVE stored'[job'[v]] <= tried'[v]
    <3>1. job[v] # job[w] /\ job[v] \in 1..Jobs
      BY <2>1, <1>6 DEF OwnJobs, HandsInv
    <3> QED BY <2>1, <3>1, <1>2, <1>3, <1>6 DEF StoredInv
  <2>2. stored'[job'[w]] <= tried'[w]
    <3>1. stored[job[w]] <= tried[w] /\ stored[job[w]] \in Nat /\ tried[w] \in Nat /\ t \in Nat
      BY <1>2 DEF StoredInv, Types
    <3>2. stored'[job[w]] \in Nat
      BY <1>2
    <3> QED BY <3>1, <3>2, <1>2, <1>3
  <2> QED BY <2>1, <2>2, <1>2 DEF StoredInv
<1>10. QueueInv'
  BY <1>1 DEF QueueInv
<1>11. CountInv'
  <2>1. Taken' = Taken /\ Taken \in Nat /\ fail \in Nat /\ follows \in Nat
    BY DEF Taken, Types
  <2> QED BY <2>1, <1>1, <1>4 DEF CountInv
<1>12. JoinInv'
  BY <1>6 DEF JoinInv
<1>13. OkInv'
  <2>1. Settled \subseteq Settled'
    BY <1>2, <1>6 DEF Settled, InHand
  <2>2. CASE l = "follow"
    BY <2>2 DEF OkInv
  <2>3. CASE l # "follow"
    BY <2>1, <2>3, <1>4, SettledGrows DEF One
  <2> QED BY <2>2, <2>3
<1> QED BY <1>5, <1>7, <1>8, <1>9, <1>10, <1>11, <1>12, <1>13

LEMMA StepWithinJob ==
  ASSUME IInv, NEW w \in Workers, PostFails(w) \/ Retry(w)
  PROVE  IInv'
<1>1. /\ tried \in [Workers -> 0..Attempts] /\ tried[w] \in 0..Attempts /\ Attempts \in Nat
      /\ ok \in Nat /\ stored \in [1..Jobs -> 0..Attempts]
  BY Finite DEF IInv, Types
<1>2. CASE PostFails(w)
  <2>1. /\ pc[w] = "post" /\ tried' = [tried EXCEPT ![w] = tried[w] + 1] /\ Goto(w, "sleep")
        /\ UNCHANGED <<tool, queueVars, job, main, ok, fail, follows>>
    BY <1>2 DEF PostFails, counters
  <2>2. tool = "seed" /\ tried[w] < Attempts /\ job[w] \in 1..Jobs
    BY <2>1 DEF IInv, HandsInv, Working
  <2>3. stored' = stored \/ stored' = [stored EXCEPT ![job[w]] = @ + 1]
    <3>1. PICK n \in {0, 1} : stored' = [stored EXCEPT ![job[w]] = @ + n]
      BY <1>2 DEF PostFails, Store
    <3>2. CASE n = 0
      <4>1. stored[job[w]] \in Nat
        BY <1>1, <2>2
      <4> QED BY <3>1, <3>2, <4>1, <1>1
    <3> QED BY <3>1, <3>2
  <2>4. tried[w] + 1 \in 0..Attempts /\ tried[w] < tried[w] + 1 /\ ok' = ok + One("sleep" = "follow")
    BY <1>1, <2>1, <2>2 DEF One
  <2>5. "sleep" \in Working /\ pc[w] \in Working /\ pc[w] # "follow"
    BY <2>1 DEF Working
  <2>6. UNCHANGED <<tool, queueVars, job, main, fail, follows>>
    BY <2>1
  <2>7. \/ stored' = stored /\ tried[w] <= tried[w] + 1
        \/ /\ pc[w] = "post" /\ stored' = [stored EXCEPT ![job[w]] = @ + 1]
           /\ tried[w] < tried[w] + 1
    BY <1>1, <2>1, <2>3
  <2> QED BY <2>1, <2>2, <2>4, <2>5, <2>6, <2>7, WithinJob
<1>3. CASE Retry(w)
  <2>1. /\ pc[w] = "sleep" /\ tried[w] < Attempts /\ Goto(w, "post")
        /\ UNCHANGED <<tool, queueVars, job, tried, main, stored, ok, fail, follows>>
    BY <1>3 DEF Retry, counters
  <2>2. tool = "seed" /\ tried' = [tried EXCEPT ![w] = tried[w]] /\ tried[w] <= tried[w]
    BY <1>1, <2>1 DEF IInv, HandsInv
  <2>3. "post" \in Working /\ pc[w] \in Working /\ ok' = ok + One("post" = "follow") /\ pc[w] # "follow"
    BY <1>1, <2>1 DEF Working, One
  <2> QED BY <1>1, <2>1, <2>2, <2>3, WithinJob
<1> QED BY <1>2, <1>3

LEMMA StepFirstPage ==
  ASSUME IInv, NEW w \in Workers, FirstPage(w)
  PROVE  IInv'
<1>1. /\ pc[w] = "page" /\ UNCHANGED <<tool, head, job, tried, main, stored, follows>>
      /\ \/ ok' = ok + 1 /\ TaskDone(w) /\ fail' = fail
         \/ ok' = ok + 1 /\ Goto(w, "follow") /\ unfinished' = unfinished /\ fail' = fail
         \/ fail' = fail + 1 /\ TaskDone(w) /\ ok' = ok
  BY DEF FirstPage
<1>2. /\ tried \in [Workers -> 0..Attempts] /\ tried[w] \in 0..Attempts /\ Attempts \in Nat
      /\ ok \in Nat /\ fail \in Nat /\ follows \in Nat
  BY Finite DEF IInv, Types
<1>3. tool = "consume" /\ pc[w] \in Working /\ pc[w] # "follow"
  BY <1>1 DEF IInv, HandsInv, Working
<1>4. CASE TaskDone(w)
  <2>1. ok' \in Nat /\ fail' \in Nat /\ ok' + fail' = ok + fail + 1
    <3>1. ~Goto(w, "follow")
      BY <1>2, <1>3, <1>4 DEF TaskDone, Goto, IInv, Types
    <3> QED BY <3>1, <1>1, <1>2
  <2>2. follows' = follows + One(pc[w] = "follow") /\ (ok' = ok \/ ok' = ok + 1)
    BY <1>1, <1>2, <1>3 DEF One
  <2> QED BY <1>1, <1>3, <1>4, <2>1, <2>2, EndOfJob
<1>5. CASE ok' = ok + 1 /\ Goto(w, "follow") /\ unfinished' = unfinished /\ fail' = fail
  <2>1. /\ "follow" \in Working /\ ok' = ok + One("follow" = "follow")
        /\ tried' = [tried EXCEPT ![w] = tried[w]] /\ tried[w] <= tried[w]
        /\ UNCHANGED queueVars
    BY <1>1, <1>2, <1>5 DEF Working, One, queueVars
  <2> QED BY <1>1, <1>2, <1>3, <1>5, <2>1, WithinJob
<1> QED BY <1>1, <1>4, <1>5

-----------------------------------------------------------------------------
LEMMA Unmoved ==
  ASSUME IInv, UNCHANGED <<tool, queueVars, pc, job, tried, stored, counters>>,
         main' \in {"join", "gather", "done"}, main' # "join" => head = Jobs + Sentinels /\ Busy = {}
  PROVE  IInv'
<1> USE DEF IInv, queueVars, counters
<1>1. Busy' = Busy /\ Following' = Following /\ Taken' = Taken
  BY DEF Busy, Following, Taken
<1>2. Settled' = Settled
  BY <1>1 DEF Settled, InHand
<1>3. Types' /\ HandsInv' /\ OwnJobs' /\ StoredInv'
  BY DEF Types, HandsInv, OwnJobs, StoredInv
<1>4. QueueInv' /\ CountInv' /\ JoinInv' /\ OkInv'
  BY <1>1, <1>2 DEF QueueInv, CountInv, JoinInv, OkInv
<1> QED BY <1>3, <1>4

(* The queue's count is 0 only when it is empty and nobody holds an item.  *)
LEMMA StepJoin ==
  ASSUME IInv, Join
  PROVE  IInv'
<1>1. Busy \in SUBSET Workers
  BY DEF Busy
<1>2. Cardinality(Busy) \in Nat /\ IsFiniteSet(Busy)
  BY <1>1, Finite
<1>3. unfinished = 0 /\ main' = "gather" /\ UNCHANGED <<tool, queueVars, pc, job, tried, stored, counters>>
  BY DEF Join
<1>4. head \in 0..(Jobs + Sentinels) /\ 0 = Jobs + Sentinels - head + Cardinality(Busy)
  BY <1>3 DEF IInv, Types, QueueInv
<1>5. head = Jobs + Sentinels /\ Cardinality(Busy) = 0
  BY <1>2, <1>4, Finite
<1>6. Busy = {}
  BY <1>2, <1>5, FS_EmptySet
<1> QED BY <1>3, <1>5, <1>6, Unmoved

LEMMA StepGather ==
  ASSUME IInv, Gather
  PROVE  IInv'
<1>1. main # "join" /\ main' = "done" /\ UNCHANGED <<tool, queueVars, pc, job, tried, stored, counters>>
  BY DEF Gather
<1> QED BY <1>1, Unmoved DEF IInv, JoinInv

LEMMA StepIInv == IInv /\ [Next]_vars => IInv'
<1> SUFFICES ASSUME IInv, [Next]_vars PROVE IInv'
  OBVIOUS
<1>1. ASSUME NEW w \in Workers, Step(w) PROVE IInv'
  BY <1>1, StepTake, StepLeave, StepEndOfJob, StepWithinJob, StepFirstPage DEF Step
<1>2. CASE UNCHANGED vars
  BY <1>2, Unmoved DEF vars, queueVars, counters, IInv, Types, JoinInv
<1> QED BY <1>1, <1>2, StepJoin, StepGather DEF Next, Report, Finished

(* The invariant holds in every reachable state.                           *)
THEOREM Invariance == Spec => []IInv
BY InitIInv, StepIInv, PTL DEF Spec

(* Every variable keeps its type, and the queue's count of unfinished      *)
(* items is that of the items in it and in the workers' hands.             *)
THEOREM TypeCorrect == Spec => []TypeOK
<1>1. IInv => TypeOK
  BY DEF IInv, Types, QueueInv, TypeOK, Labels
<1> QED BY <1>1, Invariance, PTL

(* The summary counts every job once.                                      *)
THEOREM SummaryComplete == Spec => []AllCounted
<1>1. IInv => AllCounted
  <2> SUFFICES ASSUME IInv, main # "join" PROVE ok + fail = Jobs + follows
    BY DEF AllCounted
  <2>1. head = Jobs + Sentinels /\ Busy = {}
    BY DEF IInv, JoinInv
  <2>2. Following = {}
    BY <2>1 DEF Busy, Following
  <2>3. Cardinality(Busy) = 0 /\ Cardinality(Following) = 0
    BY <2>1, <2>2, FS_EmptySet
  <2>4. Taken = Jobs
    BY <2>1, Finite DEF Taken
  <2> QED BY <2>3, <2>4, Finite DEF IInv, CountInv, Types
<1> QED BY <1>1, Invariance, PTL

(* Every message reported as sent is stored.                               *)
THEOREM SentIsStored == Spec => []OkStored
<1>1. IInv => OkStored
  <2> SUFFICES ASSUME IInv, tool = "seed"
               PROVE  ok <= Cardinality({j \in 1..Jobs : stored[j] > 0})
    BY DEF OkStored
  <2> DEFINE All == {j \in 1..Jobs : stored[j] > 0}
  <2>1. IsFiniteSet(1..Jobs)
    BY Finite, FS_Interval
  <2>2. All \in SUBSET (1..Jobs) /\ Settled \in SUBSET All
    BY DEF Settled
  <2>3. IsFiniteSet(All) /\ Cardinality(All) \in Nat
    BY <2>1, <2>2, FS_Subset, FS_CardinalityType
  <2>4. Cardinality(Settled) <= Cardinality(All) /\ Cardinality(Settled) \in Nat
    BY <2>2, <2>3, FS_Subset, SettledFinite DEF IInv
  <2>5. ok <= Cardinality(Settled) /\ ok \in Nat
    BY DEF IInv, OkInv, Types
  <2> HIDE DEF All
  <2>6. ok <= Cardinality(All)
    BY <2>3, <2>4, <2>5
  <2> QED BY <2>6 DEF All
<1> QED BY <1>1, Invariance, PTL

-----------------------------------------------------------------------------
(* The safety of Terminates: no state in which the tool waits for an item  *)
(* or a task_done that never comes.  A worker that leaves takes one        *)
(* sentinel, so there is one for each of the others.                       *)

Left == {w \in Workers : pc[w] = "left"}
LeftInv == Cardinality(Left) = head - Taken

LEMMA StepLeft ==
  ASSUME IInv, LeftInv, [Next]_vars
  PROVE  LeftInv'
<1> USE Finite
<1>1. /\ head \in Nat /\ pc \in [Workers -> Labels] /\ Left \in SUBSET Workers
  BY DEF IInv, Types, Left
<1>2. Cardinality(Left) \in Nat
  BY <1>1
<1>3. ASSUME NEW w \in Workers, Leave(w) PROVE LeftInv'
  <2>1. /\ pc[w] = "get" /\ pc' = [pc EXCEPT ![w] = "left"]
        /\ head >= Jobs /\ head' = head + 1
    BY <1>3 DEF Leave, Goto
  <2>2. Left' = Left \cup {w} /\ w \notin Left /\ w \in Left'
    BY <1>1, <2>1 DEF Left
  <2>3. Cardinality(Left') = Cardinality(Left) + 1
    BY <1>1, <2>2, FS_AddElement
  <2> QED BY <1>1, <1>2, <2>1, <2>3 DEF LeftInv, Taken
<1>4. ASSUME NEW w \in Workers, NEW l \in Labels \ {"left"}, pc[w] # "left", Goto(w, l)
      PROVE  Left' = Left
  BY <1>1, <1>4 DEF Goto, Left
<1>5. ASSUME NEW w \in Workers, Take(w) PROVE LeftInv'
  <2>1. PICK l \in {"post", "page"} : Goto(w, l)
    BY <1>5 DEF Take
  <2>2. pc[w] # "left" /\ head < Jobs /\ head' = head + 1
    BY <1>5 DEF Take
  <2>3. Left' = Left
    BY <1>4, <2>1, <2>2 DEF Labels
  <2> QED BY <1>1, <2>2, <2>3 DEF LeftInv, Taken
<1>6. ASSUME NEW w \in Workers,
             \/ PostCreated(w) \/ PostRefused(w) \/ PostFails(w) \/ Retry(w) \/ GiveUp(w)
             \/ FirstPage(w) \/ FollowPage(w)
      PROVE  LeftInv'
  <2>1. pc[w] # "left" /\ head' = head
    BY <1>6 DEF PostCreated, PostRefused, PostFails, Retry, GiveUp, FirstPage, FollowPage,
                queueVars
  <2>2. PICK l \in {"get", "post", "sleep", "follow"} : Goto(w, l)
    BY <1>6 DEF PostCreated, PostRefused, PostFails, Retry, GiveUp, FirstPage, FollowPage,
                TaskDone
  <2>3. Left' = Left
    BY <1>4, <2>1, <2>2 DEF Labels
  <2> QED BY <2>1, <2>3 DEF LeftInv, Taken
<1>7. ASSUME UNCHANGED <<head, pc>> PROVE LeftInv'
  BY <1>7 DEF LeftInv, Left, Taken
<1> QED BY <1>3, <1>5, <1>6, <1>7
        DEF Next, Join, Gather, Report, Finished, Step, vars, queueVars

(* run() joins a queue that somebody still works on, and gathers workers   *)
(* that have all left.                                                     *)
SomebodyWorks ==
  \E w \in Workers : pc[w] \in Working \/ (pc[w] = "get" /\ head < Jobs + Sentinels)
NeverStuck ==
  /\ main = "join" /\ unfinished # 0 => SomebodyWorks
  /\ main # "join" => \A w \in Workers : pc[w] = "left"

(* With a worker at all, the tool is never stuck: while the queue has      *)
(* unfinished items some worker can go on, and once it was joined nobody   *)
(* waits for an item.                                                      *)
THEOREM ToolNeverStuck ==
  ASSUME Workers # {}
  PROVE  Spec => []NeverStuck
<1>1. Init => LeftInv
  <2> SUFFICES ASSUME Init PROVE LeftInv
    OBVIOUS
  <2>1. Left = {}
    BY DEF Init, Left
  <2> QED BY <2>1, FS_EmptySet, Finite DEF Init, LeftInv, Taken
<1>2. IInv /\ LeftInv => NeverStuck
  <2> SUFFICES ASSUME IInv, LeftInv PROVE NeverStuck
    OBVIOUS
  <2>1. /\ Left \in SUBSET Workers /\ Busy \in SUBSET Workers
        /\ head \in 0..(Jobs + Sentinels) /\ pc \in [Workers -> Labels]
    BY DEF Left, Busy, IInv, Types
  <2>2. /\ Sentinels \in Nat \ {0} /\ Jobs \in Nat /\ Cardinality(Left) \in Nat
    BY <2>1, Finite, FS_EmptySet DEF Sentinels
  <2>3. Cardinality(Left) = IF head < Jobs THEN 0 ELSE head - Jobs
    BY <2>1, <2>2 DEF LeftInv, Taken
  <2>4. ASSUME head = Jobs + Sentinels PROVE Left = Workers
    <3>1. Cardinality(Left) = Cardinality(Workers)
      BY <2>2, <2>3, <2>4 DEF Sentinels
    <3> QED BY <3>1, <2>1, Finite, FS_Subset
  <2>5. ASSUME unfinished # 0 PROVE SomebodyWorks
    <3>1. CASE Busy # {}
      BY <3>1 DEF Busy, Working, SomebodyWorks
    <3>2. CASE Busy = {}
      <4>1. unfinished = Jobs + Sentinels - head
        BY <3>2, <2>1, <2>2, FS_EmptySet DEF IInv, QueueInv
      <4>2. head < Jobs + Sentinels
        BY <4>1, <2>1, <2>2, <2>5
      <4>3. Cardinality(Left) # Cardinality(Workers)
        BY <4>2, <2>1, <2>2, <2>3 DEF Sentinels
      <4>4. PICK w \in Workers : w \notin Left
        BY <4>3, <2>1
      <4>5. pc[w] = "get"
        BY <4>4, <3>2, <2>1 DEF Left, Busy, Labels
      <4> QED BY <4>2, <4>5 DEF SomebodyWorks
    <3> QED BY <3>1, <3>2
  <2>6. ASSUME main # "join" PROVE \A w \in Workers : pc[w] = "left"
    BY <2>4, <2>6 DEF IInv, JoinInv, Left
  <2> QED BY <2>5, <2>6 DEF NeverStuck
<1> QED BY <1>1, <1>2, StepLeft, Invariance, PTL DEF Spec
=============================================================================
