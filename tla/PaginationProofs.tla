--------------------------- MODULE PaginationProofs ---------------------------
(***************************************************************************)
(* Pagination for any number of messages and any limit: the walk is exact  *)
(* when no two messages of the thread share a created_at.                  *)
(***************************************************************************)
EXTENDS Pagination, FiniteSetTheorems, TLAPS

(* Different messages have different stamps.                                *)
Stamped == \A a, b \in Ids :
  status[a] # "free" /\ status[b] # "free" /\ created[a] = created[b] => a = b

Standing == \A id \in standing : status[id] \in {"live", "deleted"}

(* What was given is not below the cursor. *)
GivenAbove ==
  \A id \in Ids : shown[id] # 0 =>
    /\ walk # "start" /\ shown[id] = 1 /\ status[id] # "free"
    /\ ~Older(id, cursor)

(* What was not given is below the cursor, or the walk is over.            *)
RestBelow ==
  \A id \in standing :
    status[id] = "live" =>
      /\ walk = "more" => shown[id] > 0 \/ Older(id, cursor)
      /\ walk = "end" => shown[id] > 0

IInv == TypeOK /\ Stamped /\ Standing /\ GivenAbove /\ RestBelow

LEMMA InitIInv == Init => IInv
BY PaginationAssumption DEF PaginationAssumption, Init, IInv, TypeOK, Stamped,
     Standing, GivenAbove, RestBelow

-----------------------------------------------------------------------------

(* LIMIT gives a page that is full or that has all the rows.               *)
LEMMA PageOfLive ==
  ASSUME NEW rows \in SUBSET Ids, NEW page, Limited(page, rows)
  PROVE  /\ page = {} => rows = {} /\ ~HasMore(page)
         /\ ~HasMore(page) => page = rows
<1>1. IsFiniteSet(page)
  BY PaginationAssumption, FS_Subset DEF PaginationAssumption, Limited
<1>2. Cardinality(page) \in Nat
  BY <1>1, FS_CardinalityType
<1>3. Cardinality({}) = 0
  BY FS_EmptySet
<1>4. Limit \in Nat \ {0}
  BY PaginationAssumption DEF PaginationAssumption
<1>5. ~HasMore(page) => page = rows
  <2> SUFFICES ASSUME Cardinality(page) # Limit PROVE page = rows
    BY DEF HasMore
  <2>1. Cardinality(page) < Limit
    BY <1>2, <1>4 DEF Limited
  <2> QED BY <2>1 DEF Limited
<1>6. page = {} => ~HasMore(page)
  BY <1>3, <1>4 DEF HasMore
<1> QED BY <1>5, <1>6

(* The other requests move messages in and out of sight, and give a new    *)
(* one a stamp of its own.                                                 *)
LEMMA ThreadStep ==
  ASSUME IInv, UniqueStamps,
         ClockTick \/ \E id \in Ids :
           StartInsert(id) \/ CommitInsert(id) \/ SoftDelete(id)
  PROVE  IInv'
<1> USE DEF IInv
<1>1. UNCHANGED walkVars
  BY DEF ClockTick, StartInsert, CommitInsert, SoftDelete
<1>2. TypeOK'
  <2>1. CASE ClockTick
    BY <2>1, PaginationAssumption DEF ClockTick, TypeOK, walkVars,
                                      PaginationAssumption
  <2>2. ASSUME NEW id \in Ids,
               StartInsert(id) \/ CommitInsert(id) \/ SoftDelete(id)
        PROVE  TypeOK'
    BY <2>2 DEF StartInsert, CommitInsert, SoftDelete, TypeOK, walkVars, Stamp
  <2> QED BY <2>1, <2>2
<1>3. Stamped'
  <2>1. ASSUME NEW id \in Ids, StartInsert(id) PROVE Stamped'
    BY <2>1 DEF StartInsert, TypeOK, Stamped
  <2> QED BY <2>1 DEF ClockTick, CommitInsert, SoftDelete, TypeOK, Stamped
<1>4. \A id \in Ids : status[id] # "free" =>
        /\ status'[id] # "free" /\ created'[id] = created[id]
        /\ status[id] \in {"live", "deleted"} =>
             /\ status'[id] \in {"live", "deleted"}
             /\ status'[id] = "live" => status[id] = "live"
  BY DEF ClockTick, StartInsert, CommitInsert, SoftDelete, TypeOK
<1>5. Standing' /\ GivenAbove' /\ RestBelow'
  BY <1>1, <1>4 DEF TypeOK, Standing, GivenAbove, RestBelow, Older, walkVars
<1> QED BY <1>2, <1>3, <1>5

LEMMA OlderAsymmetric ==
  ASSUME TypeOK, NEW a \in Ids, NEW b \in Ids
  PROVE  Older(a, Key(b)) => ~Older(b, Key(a))
<1>1. /\ a \in Nat /\ b \in Nat
      /\ created[a] \in Int /\ created[b] \in Int
  BY PaginationAssumption DEF PaginationAssumption, TypeOK
<1> QED BY <1>1 DEF Older, Key

(* A page of rows that were not given before, all of them above the rest,  *)
(* keeps the walk exact.                                                   *)
LEMMA PageStep ==
  ASSUME IInv, UNCHANGED threadVars, NEW rows \in SUBSET Live, NEW page,
         Limited(page, rows), NEW l,
         page # {} => cursor' = Key(l) /\ l \in page,
         page = {} => cursor' = cursor,
         \A p \in page \ {l} : Older(l, Key(p)),
         \A q \in rows \ page : page # {} => Older(q, Key(l)),
         \A p \in page : shown[p] = 0,
         \A p \in Ids : shown[p] # 0 => \A q \in rows : Older(q, Key(p)),
         standing' \subseteq Live \cup standing,
         \A id \in standing' : status[id] = "live" => shown[id] > 0 \/ id \in rows,
         shown' = [id \in Ids |-> IF id \in page THEN shown[id] + 1 ELSE shown[id]],
         walk' = IF HasMore(page) THEN "more" ELSE "end"
  PROVE  IInv'
<1> USE DEF IInv, threadVars
<1>1. page \subseteq rows /\ rows \subseteq Live /\ Live \subseteq Ids
  BY DEF Limited, Live
<1>2. /\ page = {} => rows = {}
      /\ ~HasMore(page) => page = rows
  BY <1>1, PageOfLive
<1>3. TypeOK'
  <2>1. cursor' \in [created : 0..MaxNow, id : Ids \cup {0}]
    <3>1. CASE page = {}
      BY <3>1 DEF TypeOK
    <3>2. CASE page # {}
      <4>1. l \in Ids /\ cursor' = Key(l)
        BY <1>1, <3>2
      <4> QED BY <4>1 DEF TypeOK, Key
    <3> QED BY <3>1, <3>2
  <2>2. standing' \subseteq Ids /\ walk' \in {"start", "more", "end"}
    BY <1>1 DEF TypeOK
  <2>3. shown' \in [Ids -> Nat]
    BY DEF TypeOK
  <2> QED BY <2>1, <2>2, <2>3 DEF TypeOK
<1>4. Stamped' /\ Standing'
  BY DEF TypeOK, Stamped, Standing, Live
<1>5. GivenAbove'
  <2> SUFFICES ASSUME NEW id \in Ids, shown'[id] # 0
               PROVE  /\ shown'[id] = 1 /\ status[id] # "free"
                      /\ ~Older(id, cursor')
    BY DEF GivenAbove, Older
  <2>1. CASE id \in page
    <3>1. shown'[id] = 1 /\ status[id] # "free" /\ cursor' = Key(l)
      BY <1>1, <2>1 DEF Live, TypeOK
    <3>2. CASE id = l
      BY <3>1, <3>2, OlderAsymmetric
    <3>3. CASE id # l
      <4>1. Older(l, Key(id)) /\ l \in Ids
        BY <1>1, <2>1, <3>3
      <4> QED BY <4>1, <3>1, OlderAsymmetric
    <3> QED BY <3>1, <3>2, <3>3
  <2>2. CASE id \notin page
    <3>1. shown'[id] = shown[id] /\ shown[id] # 0
      BY <2>2
    <3>2. shown[id] = 1 /\ status[id] # "free" /\ ~Older(id, cursor)
      BY <3>1 DEF GivenAbove
    <3>3. CASE page = {}
      BY <3>1, <3>2, <3>3
    <3>4. CASE page # {}
      BY <1>1, <3>1, <3>2, <3>4, OlderAsymmetric
    <3> QED BY <3>3, <3>4
  <2> QED BY <2>1, <2>2
<1>6. RestBelow'
  <2> SUFFICES ASSUME NEW id \in standing', status[id] = "live"
               PROVE  /\ walk' = "more" => shown'[id] > 0 \/ Older(id, cursor')
                      /\ walk' = "end" => shown'[id] > 0
    BY DEF RestBelow, Older
  <2>1. id \in Ids /\ shown[id] \in Nat
    BY <1>1 DEF TypeOK
  <2>2. CASE shown[id] > 0 \/ id \in page
    BY <2>1, <2>2
  <2>3. CASE ~(shown[id] > 0) /\ id \notin page
    <3>1. id \in rows \ page /\ page # {}
      BY <1>2, <2>3
    <3>2. HasMore(page) /\ walk' = "more" /\ Older(id, Key(l))
      BY <1>2, <3>1
    <3> QED BY <3>1, <3>2
  <2> QED BY <2>2, <2>3
<1> QED BY <1>3, <1>4, <1>5, <1>6

(* With stamps of their own the rows of the first page are in the order of *)
(* the later pages too.                                                    *)
LEMMA FirstPageIInv == IInv /\ FirstPage => IInv'
<1> SUFFICES ASSUME IInv, FirstPage PROVE IInv'
  OBVIOUS
<1> USE DEF IInv
<1>1. PICK page \in SUBSET Live :
        /\ Limited(page, Live) /\ NewestByStamp(page, Live)
        /\ Give(page, LastByStamp(page))
  BY DEF FirstPage
<1>2. walk = "start" /\ standing' = Live /\ UNCHANGED threadVars
  BY DEF FirstPage
<1>3. PICK l : /\ page # {} => l \in LastByStamp(page) /\ cursor' = Key(l)
               /\ page = {} => cursor' = cursor
  BY <1>1 DEF Give, LastByStamp
<1>4. \A a, b \in Live : a # b /\ created[a] >= created[b] => Older(b, Key(a))
  <2> SUFFICES ASSUME NEW a \in Live, NEW b \in Live, a # b,
                      created[a] >= created[b]
               PROVE  Older(b, Key(a))
    OBVIOUS
  <2>1. created[a] \in Int /\ created[b] \in Int /\ created[a] # created[b]
    BY DEF Live, Stamped, TypeOK
  <2> QED BY <2>1 DEF Older, Key
<1>5. \A p \in page \ {l} : Older(l, Key(p))
  BY <1>3, <1>4 DEF LastByStamp
<1>6. \A q \in Live \ page : page # {} => Older(q, Key(l))
  BY <1>1, <1>3, <1>4 DEF LastByStamp, NewestByStamp
<1>7. \A p \in Ids : shown[p] = 0
  BY <1>2 DEF GivenAbove
<1>8. /\ shown' = [id \in Ids |-> IF id \in page THEN shown[id] + 1 ELSE shown[id]]
      /\ walk' = IF HasMore(page) THEN "more" ELSE "end"
  BY <1>1 DEF Give
<1>9. Live \subseteq Ids
  BY DEF Live
<1> QED BY <1>1, <1>2, <1>3, <1>5, <1>6, <1>7, <1>8, <1>9, PageStep DEF LastByStamp

LEMMA NextPageIInv == IInv /\ NextPage => IInv'
<1> SUFFICES ASSUME IInv, NextPage PROVE IInv'
  OBVIOUS
<1> USE DEF IInv
<1>1. PICK page \in SUBSET Candidates :
        /\ Limited(page, Candidates) /\ Newest(page, Candidates)
        /\ Give(page, Last(page))
  BY DEF NextPage
<1>2. walk = "more" /\ UNCHANGED <<threadVars, standing>>
  BY DEF NextPage
<1>3. PICK l : /\ page # {} => l \in Last(page) /\ cursor' = Key(l)
               /\ page = {} => cursor' = cursor
  BY <1>1 DEF Give, Last
<1>4. Candidates \subseteq Live /\ Live \subseteq Ids
  BY DEF Candidates, Live
<1>5. \A p \in page \ {l} : Older(l, Key(p))
  BY <1>3 DEF Last
<1>6. \A q \in Candidates \ page : page # {} => Older(q, Key(l))
  BY <1>1, <1>3 DEF Last, Newest
<1>7. \A p \in page : shown[p] = 0
  BY <1>4 DEF GivenAbove, Candidates
<1>8. \A p \in Ids : shown[p] # 0 => \A q \in Candidates : Older(q, Key(p))
  <2> SUFFICES ASSUME NEW p \in Ids, shown[p] # 0, NEW q \in Candidates
               PROVE  Older(q, Key(p))
    OBVIOUS
  <2>1. ~Older(p, cursor) /\ Older(q, cursor) /\ q \in Ids
    BY <1>4 DEF GivenAbove, Candidates
  <2>2. p \in Int /\ q \in Int /\ created[p] \in Int /\ created[q] \in Int
    BY <2>1, PaginationAssumption DEF PaginationAssumption, TypeOK
  <2>3. cursor.created \in 0..MaxNow /\ cursor.id \in Ids \cup {0}
    BY DEF TypeOK
  <2>4. Ids \subseteq Int /\ MaxNow \in Int
    BY PaginationAssumption DEF PaginationAssumption
  <2>5. cursor.created \in Int
    BY <2>3, <2>4
  <2>6. cursor.id \in Int
    <3>1. CASE cursor.id \in Ids
      BY <3>1, <2>4
    <3>2. CASE cursor.id = 0
      BY <3>2
    <3> QED BY <3>1, <3>2, <2>3
  <2> QED BY <2>1, <2>2, <2>5, <2>6 DEF Older, Key
<1>9. \A id \in standing' : status[id] = "live" => shown[id] > 0 \/ id \in Candidates
  BY <1>2 DEF RestBelow, Candidates, Live, TypeOK
<1>10. /\ shown' = [id \in Ids |-> IF id \in page THEN shown[id] + 1 ELSE shown[id]]
       /\ walk' = IF HasMore(page) THEN "more" ELSE "end"
  BY <1>1 DEF Give
<1> QED BY <1>1, <1>2, <1>3, <1>4, <1>5, <1>6, <1>7, <1>8, <1>9, <1>10, PageStep
        DEF Last

LEMMA StepIInv == UniqueStamps /\ IInv /\ [Next]_vars => IInv'
<1> SUFFICES ASSUME UniqueStamps, IInv, [Next]_vars PROVE IInv'
  OBVIOUS
<1>1. CASE UNCHANGED vars
  BY <1>1 DEF vars, IInv, TypeOK, Stamped, Standing, GivenAbove, RestBelow, Older
<1>2. CASE NewWalk
  BY <1>2, PaginationAssumption
     DEF PaginationAssumption, NewWalk, threadVars, IInv, TypeOK, Stamped,
         Standing, GivenAbove, RestBelow
<1> QED BY <1>1, <1>2, ThreadStep, FirstPageIInv, NextPageIInv DEF Next

(* Without ties the invariant holds in every reachable state.              *)
THEOREM Invariance == UniqueStamps => (Spec => []IInv)
<1> SUFFICES ASSUME UniqueStamps PROVE Spec => []IInv
  OBVIOUS
<1>1. IInv /\ [Next]_vars => IInv'
  BY StepIInv
<1> QED BY InitIInv, <1>1, PTL DEF Spec

(* Every variable keeps its type.                                          *)
THEOREM TypeCorrect == UniqueStamps => (Spec => []TypeOK)
<1>1. IInv => TypeOK
  BY DEF IInv
<1> QED BY <1>1, Invariance, PTL

(* A walk over messages with stamps of their own misses none that was      *)
(* there all the while.                                                    *)
THEOREM WalkIsComplete == UniqueStamps => (Spec => []NoneSkipped)
<1>1. IInv => NoneSkipped
  BY DEF IInv, RestBelow, NoneSkipped
<1> QED BY <1>1, Invariance, PTL

(* ... and gives none twice.                                               *)
THEOREM WalkGivesOnce == UniqueStamps => (Spec => []NoneRepeated)
<1>1. IInv => NoneRepeated
  BY DEF IInv, TypeOK, GivenAbove, NoneRepeated
<1> QED BY <1>1, Invariance, PTL

(* Ties or not, each cursor of a walk is below the one before it.          *)
THEOREM WalkDescends == Spec => CursorDescends
<1>1. ASSUME [Next]_vars, walk = "more", cursor' # cursor
      PROVE  \/ cursor'.created < cursor.created
             \/ cursor'.created = cursor.created /\ cursor'.id < cursor.id
  <2>1. NextPage
    BY <1>1 DEF Next, vars, ClockTick, StartInsert, CommitInsert, SoftDelete,
                FirstPage, NewWalk, walkVars
  <2>2. PICK page \in SUBSET Candidates : Give(page, Last(page))
    BY <2>1 DEF NextPage
  <2>3. PICK l \in Last(page) : cursor' = Key(l)
    BY <1>1, <2>2 DEF Give
  <2>4. Older(l, cursor)
    BY <2>2, <2>3 DEF Last, Candidates
  <2> QED BY <2>3, <2>4 DEF Older, Key
<1>2. Spec => [][Next]_vars
  BY PTL DEF Spec
<1> QED BY <1>1, <1>2, PTL DEF CursorDescends
=============================================================================
