------------------------- MODULE MessageStoreProofs -------------------------
(***************************************************************************)
(* The properties of MessageStore for every number of requests, threads,   *)
(* messages and contents.  IInv is the inductive invariant: what a handler *)
(* between two statements still knows about the table.                     *)
(***************************************************************************)
EXTENDS MessageStore, TLAPS

(* An idle handler has worked nothing out. *)
IdleFresh == \A r \in Requests : pc[r] = "idle" => result[r] = "none"

(* A handler runs the statements of the operation it was called for. *)
OpOfLabel ==
  \A r \in Requests :
    /\ pc[r] # "idle" => args[r] \in Args
    /\ pc[r] = "insert" => args[r] \in CreateArgs
    /\ pc[r] \in {"select", "write"} => args[r] \in UpdateArgs \cup DeleteArgs

(* What the SELECT established and no other request can take back: the row *)
(* is there and is in the handler's thread.                                *)
WriteTarget ==
  \A r \in Requests :
    pc[r] = "write" => InThread(rows[args[r].target], args[r].thread)

(* A delete that succeeded left a tombstone. *)
DeletedForGood ==
  \A r \in Requests :
    IsOp(r, "delete") /\ result[r] = "ok"
      => /\ args[r].target \in Ids
         /\ rows[args[r].target] # NoRow
         /\ rows[args[r].target].deleted

IInv == TypeOK /\ IdleFresh /\ OpOfLabel /\ WriteTarget /\ DeletedForGood
        /\ DeleteOnce

-----------------------------------------------------------------------------
(* The statements keep rows well formed, in their thread, and deleted.     *)

LEMMA NotNoRow == ASSUME NEW row \in Row PROVE row # NoRow
BY TableAssumption DEF TableAssumption

LEMMA CoalesceType ==
  ASSUME NEW S, NEW old \in S, NEW new \in S \cup {Null}
  PROVE  Coalesce(new, old) \in S
BY DEF Coalesce

LEMMA InsertedRowType ==
  ASSUME NEW t \in Threads, NEW c \in Contents \cup {Null},
         NEW p \in Paths \cup {Null}
  PROVE  /\ InsertedRow(t, c, p) \in Row
         /\ InsertedRow(t, c, p) # NoRow
<1>1. Coalesce(c, Empty) \in Contents
  BY TableAssumption, CoalesceType DEF TableAssumption
<1>2. InsertedRow(t, c, p) \in Row
  BY <1>1 DEF InsertedRow, Row
<1> QED BY <1>2, NotNoRow

LEMMA UpdatedRowType ==
  ASSUME NEW row \in Row, NEW c \in Contents \cup {Null},
         NEW p \in Paths \cup {Null}
  PROVE  /\ UpdatedRow(row, c, p) \in Row
         /\ UpdatedRow(row, c, p) # NoRow
         /\ UpdatedRow(row, c, p).thread = row.thread
         /\ UpdatedRow(row, c, p).deleted = row.deleted
<1>1. Coalesce(c, row.content) \in Contents
  BY CoalesceType DEF Row
<1>2. Coalesce(p, row.paths) \in Paths \cup {Null}
  BY DEF Row, Coalesce
<1>3. /\ UpdatedRow(row, c, p) \in Row
      /\ UpdatedRow(row, c, p).thread = row.thread
      /\ UpdatedRow(row, c, p).deleted = row.deleted
  BY <1>1, <1>2 DEF UpdatedRow, Row
<1> QED BY <1>3, NotNoRow

LEMMA SoftDeletedRowType ==
  ASSUME NEW row \in Row
  PROVE  /\ SoftDeletedRow(row) \in Row
         /\ SoftDeletedRow(row) # NoRow
         /\ SoftDeletedRow(row).thread = row.thread
         /\ SoftDeletedRow(row).deleted
<1>1. /\ SoftDeletedRow(row) \in Row
      /\ SoftDeletedRow(row).thread = row.thread
      /\ SoftDeletedRow(row).deleted
  BY DEF SoftDeletedRow, Row
<1> QED BY <1>1, NotNoRow

LEMMA InitIInv == Init => IInv
<1> SUFFICES ASSUME Init PROVE IInv
  OBVIOUS
<1>1. TypeOK
  BY DEF Init, TypeOK, Labels
<1>2. IdleFresh /\ OpOfLabel /\ WriteTarget /\ DeletedForGood /\ DeleteOnce
  BY DEF Init, IdleFresh, OpOfLabel, WriteTarget, DeletedForGood, DeleteOnce,
         IsOp
<1> QED BY <1>1, <1>2 DEF IInv

-----------------------------------------------------------------------------
(* One lemma per action: it preserves the inductive invariant.             *)

LEMMA CallIInv ==
  ASSUME IInv, NEW r \in Requests, CallCreate(r) \/ CallChange(r)
  PROVE  IInv'
<1> USE DEF IInv
<1>1. PICK a \in CreateArgs \cup UpdateArgs \cup DeleteArgs :
        /\ pc[r] = "idle"
        /\ args' = [args EXCEPT ![r] = a]
        /\ \/ a \in CreateArgs /\ pc' = [pc EXCEPT ![r] = "insert"]
           \/ /\ a \in UpdateArgs \cup DeleteArgs
              /\ pc' = [pc EXCEPT ![r] = "select"]
        /\ UNCHANGED <<rows, current, result, reply>>
  BY DEF CallCreate, CallChange, Goto
<1>2. TypeOK'
  BY <1>1 DEF TypeOK, Args, Labels
<1>3. IdleFresh' /\ OpOfLabel'
  BY <1>1 DEF TypeOK, IdleFresh, OpOfLabel, Args
<1>4. WriteTarget'
  BY <1>1 DEF TypeOK, WriteTarget
<1>5. result[r] = "none"
  BY <1>1 DEF IdleFresh
<1>6. DeletedForGood' /\ DeleteOnce'
  BY <1>1, <1>5 DEF TypeOK, DeletedForGood, DeleteOnce, IsOp
<1> QED BY <1>2, <1>3, <1>4, <1>6

LEMMA InsertIInv ==
  ASSUME IInv, NEW r \in Requests, Insert(r)
  PROVE  IInv'
<1> USE DEF IInv
<1> DEFINE row == InsertedRow(args[r].thread, args[r].content, args[r].paths)
<1>1. PICK id \in Ids :
        /\ pc[r] = "insert"
        /\ rows[id] = NoRow
        /\ rows' = [rows EXCEPT ![id] = row]
        /\ args' = [args EXCEPT ![r].target = id]
        /\ result' = [result EXCEPT ![r] = "ok"]
        /\ pc' = [pc EXCEPT ![r] = "publish"]
        /\ UNCHANGED <<current, reply>>
  BY DEF Insert, Goto
<1>2. args[r] \in CreateArgs
  BY <1>1 DEF OpOfLabel
<1>3. row \in Row /\ row # NoRow
  BY <1>2, InsertedRowType DEF CreateArgs
<1>4. args'[r] \in Args /\ args'[r].op = "create"
  BY <1>1, <1>2 DEF TypeOK, Args, CreateArgs
<1>5. \A q \in Requests \ {r} : /\ args'[q] = args[q] /\ pc'[q] = pc[q]
                               /\ result'[q] = result[q]
  BY <1>1 DEF TypeOK
<1>6. pc'[r] = "publish" /\ result'[r] = "ok"
  BY <1>1 DEF TypeOK
<1>7. \A i \in Ids : rows[i] # NoRow => rows'[i] = rows[i]
  BY <1>1 DEF TypeOK, Table
<1>8. TypeOK'
  <2>1. rows' \in Table
    BY <1>1, <1>3 DEF TypeOK, Table
  <2>2. args' \in [Requests -> Args \cup {Null}]
    BY <1>1, <1>4, <1>5 DEF TypeOK
  <2> HIDE DEF row
  <2> QED BY <1>1, <2>1, <2>2 DEF TypeOK, Labels
<1>9. IdleFresh' /\ OpOfLabel'
  BY <1>4, <1>5, <1>6 DEF IdleFresh, OpOfLabel
<1>10. WriteTarget'
  <2> SUFFICES ASSUME NEW q \in Requests, pc'[q] = "write"
               PROVE  InThread(rows'[args'[q].target], args'[q].thread)
    BY DEF WriteTarget, InThread
  <2>1. q # r /\ pc[q] = "write"
    BY <1>5, <1>6
  <2>2. args[q].target \in Ids /\ InThread(rows[args[q].target], args[q].thread)
    BY <2>1 DEF OpOfLabel, WriteTarget, UpdateArgs, DeleteArgs
  <2> QED BY <2>1, <2>2, <1>5, <1>7 DEF InThread
<1>11. DeletedForGood'
  BY <1>4, <1>5, <1>6, <1>7 DEF DeletedForGood, IsOp
<1>12. DeleteOnce'
  BY <1>4, <1>5, <1>6 DEF DeleteOnce, IsOp
<1> QED BY <1>8, <1>9, <1>10, <1>11, <1>12

(* The rest of the actions leave the arguments alone and keep every row in *)
(* its thread, and deleted if it was.                                      *)
RowsKept ==
  \A i \in Ids :
    rows[i] # NoRow => /\ rows'[i] # NoRow
                       /\ rows'[i].thread = rows[i].thread
                       /\ rows[i].deleted => rows'[i].deleted

LEMMA KeptIInv ==
  ASSUME IInv, TypeOK', RowsKept, args' = args, NEW r \in Requests,
         pc[r] # "idle", pc'[r] \in {"write", "return", "done"},
         pc'[r] = "write" => /\ pc[r] = "select"
                             /\ InThread(rows'[args[r].target], args[r].thread),
         \A q \in Requests \ {r} : pc'[q] = pc[q] /\ result'[q] = result[q],
         \/ result'[r] = result[r]
         \/ result'[r] = "absent"
         \/ result'[r] = "ok" /\ args[r].op = "update"
         \/ /\ result'[r] = "ok" /\ args[r].target \in Ids
            /\ rows[args[r].target] # NoRow /\ ~rows[args[r].target].deleted
            /\ rows'[args[r].target].deleted
  PROVE  IInv'
<1> USE DEF IInv
<1>1. IdleFresh' /\ OpOfLabel'
  BY DEF IdleFresh, OpOfLabel
<1>2. WriteTarget'
  <2> SUFFICES ASSUME NEW q \in Requests, pc'[q] = "write"
               PROVE  InThread(rows'[args[q].target], args[q].thread)
    BY DEF WriteTarget, InThread
  <2>1. CASE q = r
    BY <2>1
  <2>2. CASE q # r
    <3>1. args[q].target \in Ids /\ InThread(rows[args[q].target], args[q].thread)
      BY <2>2 DEF OpOfLabel, WriteTarget, UpdateArgs, DeleteArgs
    <3> QED BY <3>1 DEF InThread, RowsKept
  <2> QED BY <2>1, <2>2
<1>3. DeletedForGood'
  <2> SUFFICES ASSUME NEW q \in Requests, IsOp(q, "delete")', result'[q] = "ok"
               PROVE  /\ args[q].target \in Ids
                      /\ rows'[args[q].target] # NoRow
                      /\ rows'[args[q].target].deleted
    BY DEF DeletedForGood
  <2>1. args[q].op = "delete" /\ pc[q] # "idle"
    BY DEF IsOp
  <2>2. CASE result[q] = "ok"
    BY <2>1, <2>2 DEF DeletedForGood, RowsKept, IsOp
  <2>3. CASE result[q] # "ok"
    BY <2>1, <2>3 DEF RowsKept
  <2> QED BY <2>2, <2>3
<1>4. DeleteOnce'
  <2> SUFFICES ASSUME NEW p \in Requests, NEW q \in Requests, p # q,
                      IsOp(p, "delete")', result'[p] = "ok",
                      IsOp(q, "delete")', result'[q] = "ok",
                      args[p].target = args[q].target
               PROVE  FALSE
    BY DEF DeleteOnce
  <2>1. /\ args[p].op = "delete" /\ pc[p] # "idle"
        /\ args[q].op = "delete" /\ pc[q] # "idle"
    BY DEF IsOp
  <2>2. CASE result[p] = "ok" /\ result[q] = "ok"
    BY <2>1, <2>2 DEF DeleteOnce, IsOp
  <2>3. CASE result[p] # "ok"
    BY <2>1, <2>3 DEF DeletedForGood, IsOp
  <2>4. CASE result[q] # "ok"
    BY <2>1, <2>4 DEF DeletedForGood, IsOp
  <2> QED BY <2>2, <2>3, <2>4
<1> QED BY <1>1, <1>2, <1>3, <1>4

LEMMA QuietIInv ==
  ASSUME IInv, NEW r \in Requests, Publish(r) \/ Return(r) \/ Fail(r)
  PROVE  IInv'
<1>1. /\ UNCHANGED <<rows, args, current, result>>
      /\ pc[r] # "idle"
      /\ \E l \in {"return", "done"} : pc' = [pc EXCEPT ![r] = l]
      /\ \/ reply' = reply
         \/ reply' = [reply EXCEPT ![r] = result[r]]
         \/ reply' = [reply EXCEPT ![r] = "error"]
  BY DEF Publish, Return, Fail, Goto
<1>2. TypeOK'
  BY <1>1 DEF IInv, TypeOK, Labels
<1>3. RowsKept
  BY <1>1 DEF RowsKept
<1>4. /\ pc'[r] \in {"return", "done"} /\ result'[r] = result[r]
      /\ \A q \in Requests \ {r} : pc'[q] = pc[q] /\ result'[q] = result[q]
  BY <1>1 DEF IInv, TypeOK
<1> QED BY <1>1, <1>2, <1>3, <1>4, KeptIInv

(* The row a handler is addressed to.                                      *)
LEMMA TargetType ==
  ASSUME IInv, NEW r \in Requests, pc[r] \in {"select", "write"}
  PROVE  /\ args[r] \in UpdateArgs \cup DeleteArgs
         /\ args[r].target \in Ids
         /\ rows[args[r].target] \in Row \cup {NoRow}
         /\ args[r].content \in Contents \cup {Null}
         /\ args[r].paths \in Paths \cup {Null}
<1>1. args[r] \in UpdateArgs \cup DeleteArgs
  BY DEF IInv, OpOfLabel
<1>2. args[r].target \in Ids
  BY <1>1 DEF UpdateArgs, DeleteArgs
<1> QED BY <1>1, <1>2 DEF IInv, TypeOK, Table, UpdateArgs, DeleteArgs

LEMMA SelectIInv ==
  ASSUME IInv, NEW r \in Requests, Select(r)
  PROVE  IInv'
<1>1. /\ pc[r] = "select" /\ UNCHANGED <<rows, args, reply>>
      /\ current' = [current EXCEPT ![r] = rows[args[r].target]]
      /\ \/ /\ Allowed(r, rows[args[r].target])
            /\ pc' = [pc EXCEPT ![r] = "write"] /\ result' = result
         \/ /\ pc' = [pc EXCEPT ![r] = "return"]
            /\ result' = [result EXCEPT ![r] = "absent"]
  BY DEF Select, Goto, Resolve
<1>2. TypeOK'
  BY <1>1, TargetType DEF IInv, TypeOK, Labels
<1>3. RowsKept
  BY <1>1 DEF RowsKept
<1>4. pc'[r] = "write" => InThread(rows'[args[r].target], args[r].thread)
  BY <1>1 DEF IInv, TypeOK, Allowed, UpdateAllowed, DeleteAllowed, InThread
<1>5. /\ pc'[r] \in {"write", "return"}
      /\ result'[r] = result[r] \/ result'[r] = "absent"
      /\ \A q \in Requests \ {r} : pc'[q] = pc[q] /\ result'[q] = result[q]
  BY <1>1 DEF IInv, TypeOK
<1> QED BY <1>1, <1>2, <1>3, <1>4, <1>5, KeptIInv

(* By WriteTarget the UPDATE always finds its row: "absent" is dead there. *)
LEMMA WriteUpdateEffect ==
  ASSUME IInv, NEW r \in Requests, WriteUpdate(r)
  PROVE  /\ pc[r] = "write" /\ args[r].op = "update"
         /\ InThread(rows[args[r].target], args[r].thread)
         /\ rows' = [rows EXCEPT ![args[r].target] =
              UpdatedRow(rows[args[r].target], args[r].content, args[r].paths)]
         /\ result' = [result EXCEPT ![r] = "ok"]
         /\ pc' = [pc EXCEPT ![r] = "return"]
         /\ UNCHANGED <<args, current, reply>>
<1>1. InThread(rows[args[r].target], args[r].thread)
  BY DEF IInv, WriteTarget, WriteUpdate
<1> QED BY <1>1 DEF InThread, WriteUpdate, Resolve, Goto, NewRow

LEMMA WriteUpdateIInv ==
  ASSUME IInv, NEW r \in Requests, WriteUpdate(r)
  PROVE  IInv'
<1> DEFINE t == args[r].target
           row == UpdatedRow(rows[t], args[r].content, args[r].paths)
<1>1. /\ pc[r] = "write" /\ args[r].op = "update" /\ rows[t] # NoRow
      /\ rows' = [rows EXCEPT ![t] = row]
      /\ result' = [result EXCEPT ![r] = "ok"]
      /\ pc' = [pc EXCEPT ![r] = "return"]
      /\ UNCHANGED <<args, current, reply>>
  BY WriteUpdateEffect DEF InThread
<1>2. t \in Ids /\ rows[t] \in Row
  BY <1>1, TargetType
<1>3. /\ row \in Row /\ row # NoRow
      /\ row.thread = rows[t].thread /\ row.deleted = rows[t].deleted
  BY <1>1, <1>2, TargetType, UpdatedRowType
<1> HIDE DEF row
<1>4. rows' \in Table /\ RowsKept
  BY <1>1, <1>2, <1>3 DEF IInv, TypeOK, Table, RowsKept
<1>5. TypeOK'
  BY <1>1, <1>4 DEF IInv, TypeOK, Labels
<1>6. /\ pc'[r] = "return" /\ result'[r] = "ok"
      /\ \A q \in Requests \ {r} : pc'[q] = pc[q] /\ result'[q] = result[q]
  BY <1>1 DEF IInv, TypeOK
<1> QED BY <1>1, <1>4, <1>5, <1>6, KeptIInv

(* Either the row was live and is now a tombstone, or nothing changed.     *)
LEMMA WriteDeleteEffect ==
  ASSUME IInv, NEW r \in Requests, WriteDelete(r)
  PROVE  /\ pc[r] = "write" /\ args[r].op = "delete"
         /\ pc' = [pc EXCEPT ![r] = "return"]
         /\ UNCHANGED <<args, current, reply>>
         /\ \/ /\ Live(rows[args[r].target])
               /\ rows' = [rows EXCEPT
                     ![args[r].target] = SoftDeletedRow(rows[args[r].target])]
               /\ result' = [result EXCEPT ![r] = "ok"]
            \/ /\ ~Live(rows[args[r].target])
               /\ rows' = rows
               /\ result' = [result EXCEPT ![r] = "absent"]
BY DEF WriteDelete, SoftDeleteMatches, Resolve, Goto

LEMMA WriteDeleteIInv ==
  ASSUME IInv, NEW r \in Requests, WriteDelete(r)
  PROVE  IInv'
<1> DEFINE t == args[r].target
<1>1. /\ pc[r] = "write" /\ args[r].op = "delete"
      /\ pc' = [pc EXCEPT ![r] = "return"]
      /\ UNCHANGED <<args, current, reply>>
  BY WriteDeleteEffect
<1>2. t \in Ids /\ rows[t] \in Row \cup {NoRow}
  BY <1>1, TargetType
<1>3. CASE rows' = rows /\ result' = [result EXCEPT ![r] = "absent"]
  <2>1. TypeOK' /\ RowsKept
    BY <1>1, <1>3 DEF IInv, TypeOK, Labels, RowsKept
  <2>2. /\ pc'[r] = "return" /\ result'[r] = "absent"
        /\ \A q \in Requests \ {r} : pc'[q] = pc[q] /\ result'[q] = result[q]
    BY <1>1, <1>3 DEF IInv, TypeOK
  <2> QED BY <1>1, <2>1, <2>2, KeptIInv
<1>4. CASE /\ Live(rows[t])
           /\ rows' = [rows EXCEPT ![t] = SoftDeletedRow(rows[t])]
           /\ result' = [result EXCEPT ![r] = "ok"]
  <2> DEFINE row == SoftDeletedRow(rows[t])
  <2>1. rows[t] \in Row /\ rows[t] # NoRow /\ ~rows[t].deleted
    BY <1>2, <1>4 DEF Live
  <2>2. row \in Row /\ row # NoRow /\ row.thread = rows[t].thread /\ row.deleted
    BY <2>1, SoftDeletedRowType
  <2>3. rows' = [rows EXCEPT ![t] = row]
    BY <1>4
  <2> HIDE DEF row
  <2>4. rows' \in Table /\ RowsKept /\ rows'[t].deleted
    BY <1>2, <2>1, <2>2, <2>3 DEF IInv, TypeOK, Table, RowsKept
  <2>5. TypeOK'
    BY <1>1, <1>4, <2>4 DEF IInv, TypeOK, Labels
  <2>6. /\ pc'[r] = "return" /\ result'[r] = "ok"
        /\ \A q \in Requests \ {r} : pc'[q] = pc[q] /\ result'[q] = result[q]
    BY <1>1, <1>4 DEF IInv, TypeOK
  <2> QED BY <1>1, <1>2, <2>1, <2>4, <2>5, <2>6, KeptIInv
<1> QED BY <1>3, <1>4, WriteDeleteEffect

LEMMA StepIInv == IInv /\ [Next]_vars => IInv'
<1> SUFFICES ASSUME IInv, [Next]_vars PROVE IInv'
  OBVIOUS
<1>1. CASE UNCHANGED vars
  BY <1>1 DEF vars, IInv, TypeOK, IdleFresh, OpOfLabel, WriteTarget,
              DeletedForGood, DeleteOnce, IsOp, InThread
<1>2. ASSUME NEW r \in Requests, CallCreate(r) \/ CallChange(r) PROVE IInv'
  BY <1>2, CallIInv
<1>3. ASSUME NEW r \in Requests, Insert(r) PROVE IInv'
  BY <1>3, InsertIInv
<1>4. ASSUME NEW r \in Requests, Publish(r) \/ Return(r) \/ Fail(r) PROVE IInv'
  BY <1>4, QuietIInv
<1>5. ASSUME NEW r \in Requests, Select(r) PROVE IInv'
  BY <1>5, SelectIInv
<1>6. ASSUME NEW r \in Requests, WriteUpdate(r) PROVE IInv'
  BY <1>6, WriteUpdateIInv
<1>7. ASSUME NEW r \in Requests, WriteDelete(r) PROVE IInv'
  BY <1>7, WriteDeleteIInv
<1> QED BY <1>1, <1>2, <1>3, <1>4, <1>5, <1>6, <1>7 DEF Next, Step, Finished

(* The invariant holds in every reachable state, whatever the table held   *)
(* when the service started.                                               *)
THEOREM Invariance == Spec => []IInv
BY InitIInv, StepIInv, PTL DEF Spec

-----------------------------------------------------------------------------

(* Every variable of the controller keeps its type.                        *)
THEOREM TypeCorrect == Spec => []TypeOK
<1>1. IInv => TypeOK
  BY DEF IInv
<1> QED BY <1>1, Invariance, PTL

(* However many DELETEs of a message race, at most one succeeds.           *)
THEOREM AtMostOneDelete == Spec => []DeleteOnce
<1>1. IInv => DeleteOnce
  BY DEF IInv
<1> QED BY <1>1, Invariance, PTL

(* The table after one step: a row that was there is untouched, or is the  *)
(* one that a handler at its second statement writes.                      *)
LEMMA TableStep ==
  ASSUME IInv, [Next]_vars, NEW id \in Ids, rows[id] # NoRow
  PROVE  \/ rows'[id] = rows[id]
         \/ \E r \in Requests :
              /\ pc[r] = "write" /\ pc'[r] = "return" /\ result'[r] = "ok"
              /\ args[r].target = id
              /\ args[r].thread = rows[id].thread
              /\ rows'[id] # NoRow
              /\ rows[id].deleted => rows'[id].deleted
<1>1. CASE rows' = rows
  BY <1>1
<1>2. ASSUME NEW r \in Requests, Insert(r) PROVE rows'[id] = rows[id]
  BY <1>2 DEF Insert, IInv, TypeOK, Table
<1> DEFINE Written(r) ==
      /\ pc[r] = "write" /\ pc'[r] = "return" /\ result'[r] = "ok"
      /\ args[r].target = id
      /\ args[r].thread = rows[id].thread
      /\ rows'[id] # NoRow
      /\ rows[id].deleted => rows'[id].deleted
<1>3. ASSUME NEW r \in Requests, WriteUpdate(r)
      PROVE  rows'[id] = rows[id] \/ Written(r)
  <2> DEFINE t == args[r].target
             row == UpdatedRow(rows[t], args[r].content, args[r].paths)
  <2>1. /\ pc[r] = "write" /\ InThread(rows[t], args[r].thread)
        /\ rows' = [rows EXCEPT ![t] = row]
        /\ result' = [result EXCEPT ![r] = "ok"]
        /\ pc' = [pc EXCEPT ![r] = "return"]
    BY <1>3, WriteUpdateEffect
  <2>2. t \in Ids /\ rows[t] \in Row
    BY <2>1, TargetType DEF InThread
  <2>3. row # NoRow /\ row.deleted = rows[t].deleted
    BY <2>1, <2>2, TargetType, UpdatedRowType
  <2> HIDE DEF row
  <2>4. pc'[r] = "return" /\ result'[r] = "ok"
    BY <2>1 DEF IInv, TypeOK
  <2> QED BY <2>1, <2>2, <2>3, <2>4 DEF IInv, TypeOK, Table, InThread
<1>4. ASSUME NEW r \in Requests, WriteDelete(r)
      PROVE  rows'[id] = rows[id] \/ Written(r)
  <2> DEFINE t == args[r].target
             row == SoftDeletedRow(rows[t])
  <2>1. /\ pc[r] = "write" /\ pc' = [pc EXCEPT ![r] = "return"]
        /\ \/ rows' = rows
           \/ /\ Live(rows[t]) /\ rows' = [rows EXCEPT ![t] = row]
              /\ result' = [result EXCEPT ![r] = "ok"]
    BY <1>4, WriteDeleteEffect
  <2>2. CASE rows' = rows
    BY <2>2
  <2>3. CASE /\ Live(rows[t]) /\ rows' = [rows EXCEPT ![t] = row]
             /\ result' = [result EXCEPT ![r] = "ok"]
    <3>1. t \in Ids /\ rows[t] \in Row
      BY <2>1, <2>3, TargetType DEF Live
    <3>2. row # NoRow /\ row.deleted
      BY <3>1, SoftDeletedRowType
    <3> HIDE DEF row
    <3>3. InThread(rows[t], args[r].thread)
      BY <2>1 DEF IInv, WriteTarget
    <3>4. pc'[r] = "return" /\ result'[r] = "ok"
      BY <2>1, <2>3 DEF IInv, TypeOK
    <3> QED BY <2>1, <2>3, <3>1, <3>2, <3>3, <3>4
            DEF IInv, TypeOK, Table, InThread
  <2> QED BY <2>1, <2>2, <2>3
<1> QED BY <1>1, <1>2, <1>3, <1>4 DEF Next, Step, Finished, vars,
      CallCreate, CallChange, Publish, Select, Return, Fail

(* Every write stays in the thread its request was addressed to, although  *)
(* the UPDATE itself only names the message.                               *)
THEOREM WritesStayInThread == Spec => ThreadConfined
<1>1. IInv /\ [Next]_vars =>
        [\A id \in Ids :
           rows[id] # NoRow /\ rows'[id] # rows[id]
             => \E r \in Requests :
                  /\ pc[r] = "write" /\ pc'[r] = "return" /\ result'[r] = "ok"
                  /\ args[r].target = id
                  /\ args[r].thread = rows[id].thread]_vars
  BY TableStep
<1> QED BY <1>1, Invariance, PTL DEF Spec, ThreadConfined

(* No update, however late, brings a deleted message back.                 *)
THEOREM DeletedForever == Spec => TombstonesStay
<1>1. IInv /\ [Next]_vars =>
        [\A id \in Ids : rows[id] # NoRow /\ rows[id].deleted
           => rows'[id] # NoRow /\ rows'[id].deleted]_vars
  BY TableStep
<1> QED BY <1>1, Invariance, PTL DEF Spec, TombstonesStay

-----------------------------------------------------------------------------
(* The controller implements MessageBoard.                                 *)

LEMMA PhaseStep ==
  ASSUME IInv, NEW r \in Requests, NEW l \in Labels, NEW phase,
         pc' = [pc EXCEPT ![r] = l],
         \/ l \in {"insert", "select", "write"} /\ phase = "submitted"
         \/ l \in {"publish", "return"} /\ phase = "applied"
         \/ l = "done" /\ phase = "answered"
  PROVE  [q \in Requests |-> Phase(q)]'
           = [[q \in Requests |-> Phase(q)] EXCEPT ![r] = phase]
<1>1. Phase(r)' = phase
  BY DEF IInv, TypeOK, Phase, Labels
<1>2. \A q \in Requests \ {r} : Phase(q)' = Phase(q)
  BY DEF IInv, TypeOK, Phase
<1> QED BY <1>1, <1>2

LEMMA InitMaps == Init => Board!BoardInit
BY DEF Init, Board!BoardInit, Phase, Table, Board!Table, Row, Board!Row

LEMMA CallMaps ==
  ASSUME IInv, NEW r \in Requests, CallCreate(r) \/ CallChange(r)
  PROVE  Board!Submit(r)
<1>1. PICK l \in {"insert", "select"} : /\ pc[r] = "idle"
                                      /\ pc' = [pc EXCEPT ![r] = l]
  BY DEF CallCreate, CallChange, Goto
<1>2. [q \in Requests |-> Phase(q)]'
        = [[q \in Requests |-> Phase(q)] EXCEPT ![r] = "submitted"]
  BY <1>1, PhaseStep DEF Labels
<1>3. Phase(r) = "new"
  BY <1>1 DEF Phase
<1> QED BY <1>2, <1>3
        DEF CallCreate, CallChange, Board!Submit, CreateArgs, UpdateArgs,
            DeleteArgs, Board!CreateArgs, Board!UpdateArgs, Board!DeleteArgs

LEMMA InsertMaps ==
  ASSUME IInv, NEW r \in Requests, Insert(r)
  PROVE  Board!ApplyCreate(r)
<1>1. pc[r] = "insert" /\ pc' = [pc EXCEPT ![r] = "publish"]
  BY DEF Insert, Goto
<1>2. [q \in Requests |-> Phase(q)]'
        = [[q \in Requests |-> Phase(q)] EXCEPT ![r] = "applied"]
  BY <1>1, PhaseStep DEF Labels
<1>3. Phase(r) = "submitted" /\ args[r].op = "create"
  BY <1>1 DEF Phase, IInv, OpOfLabel, CreateArgs
<1> QED BY <1>2, <1>3
        DEF Insert, Board!ApplyCreate, Board!Applied, InsertedRow, Coalesce,
            Board!InsertedRow, Board!Coalesce

LEMMA SelectMaps ==
  ASSUME IInv, NEW r \in Requests, Select(r)
  PROVE  Board!FindAbsent(r) \/ UNCHANGED Board!boardVars
<1>1. /\ pc[r] = "select" /\ UNCHANGED <<rows, args, reply>>
      /\ \/ pc' = [pc EXCEPT ![r] = "write"] /\ result' = result
         \/ /\ ~Allowed(r, rows[args[r].target])
            /\ pc' = [pc EXCEPT ![r] = "return"]
            /\ result' = [result EXCEPT ![r] = "absent"]
  BY DEF Select, Goto, Resolve
<1>2. CASE pc' = [pc EXCEPT ![r] = "write"] /\ result' = result
  <2>1. [q \in Requests |-> Phase(q)]'
          = [[q \in Requests |-> Phase(q)] EXCEPT ![r] = "submitted"]
    BY <1>2, PhaseStep DEF Labels
  <2>2. Phase(r) = "submitted"
    BY <1>1 DEF Phase
  <2>3. [q \in Requests |-> Phase(q)]' = [q \in Requests |-> Phase(q)]
    BY <2>1, <2>2
  <2> QED BY <1>1, <1>2, <2>3 DEF Board!boardVars
<1>3. CASE /\ ~Allowed(r, rows[args[r].target])
           /\ pc' = [pc EXCEPT ![r] = "return"]
           /\ result' = [result EXCEPT ![r] = "absent"]
  <2>1. [q \in Requests |-> Phase(q)]'
          = [[q \in Requests |-> Phase(q)] EXCEPT ![r] = "applied"]
    BY <1>3, PhaseStep DEF Labels
  <2>2. Phase(r) = "submitted"
    BY <1>1 DEF Phase
  <2>3. args[r].op \in {"update", "delete"}
    BY <1>1, TargetType DEF UpdateArgs, DeleteArgs
  <2> QED BY <1>1, <1>3, <2>1, <2>2, <2>3
          DEF Board!FindAbsent, Board!Applied, Allowed, UpdateAllowed,
              DeleteAllowed, InThread, Live, Board!InThread, Board!Live
<1> QED BY <1>1, <1>2, <1>3

LEMMA WriteUpdateMaps ==
  ASSUME IInv, NEW r \in Requests, WriteUpdate(r)
  PROVE  Board!ApplyUpdate(r)
<1>1. [q \in Requests |-> Phase(q)]'
        = [[q \in Requests |-> Phase(q)] EXCEPT ![r] = "applied"]
  BY WriteUpdateEffect, PhaseStep DEF Labels
<1>2. Phase(r) = "submitted"
  BY WriteUpdateEffect DEF Phase
<1> QED BY <1>1, <1>2, WriteUpdateEffect
        DEF Board!ApplyUpdate, Board!Applied, InThread, Board!InThread,
            UpdatedRow, Board!UpdatedRow, Coalesce, Board!Coalesce

(* A delete that comes too late is an "absent" found at its second         *)
(* statement.                                                              *)
LEMMA WriteDeleteMaps ==
  ASSUME IInv, NEW r \in Requests, WriteDelete(r)
  PROVE  Board!ApplyDelete(r) \/ Board!FindAbsent(r)
<1>1. [q \in Requests |-> Phase(q)]'
        = [[q \in Requests |-> Phase(q)] EXCEPT ![r] = "applied"]
  BY WriteDeleteEffect, PhaseStep DEF Labels
<1>2. Phase(r) = "submitted"
  BY WriteDeleteEffect DEF Phase
<1>3. InThread(rows[args[r].target], args[r].thread)
  BY WriteDeleteEffect DEF IInv, WriteTarget
<1> QED BY <1>1, <1>2, <1>3, WriteDeleteEffect
        DEF Board!ApplyDelete, Board!FindAbsent, Board!Applied, InThread,
            Board!InThread, Live, Board!Live, SoftDeletedRow,
            Board!SoftDeletedRow

LEMMA PublishMaps ==
  ASSUME IInv, NEW r \in Requests, Publish(r)
  PROVE  UNCHANGED Board!boardVars
<1>1. [q \in Requests |-> Phase(q)]'
        = [[q \in Requests |-> Phase(q)] EXCEPT ![r] = "applied"]
  BY PhaseStep DEF Publish, Goto, Labels
<1>2. Phase(r) = "applied"
  BY DEF Publish, Phase
<1>3. [q \in Requests |-> Phase(q)]' = [q \in Requests |-> Phase(q)]
  BY <1>1, <1>2
<1> QED BY <1>3 DEF Publish, Board!boardVars

LEMMA AnswerMaps ==
  ASSUME IInv, NEW r \in Requests, Return(r) \/ Fail(r)
  PROVE  Board!Answer(r) \/ Board!AnswerError(r)
<1>1. [q \in Requests |-> Phase(q)]'
        = [[q \in Requests |-> Phase(q)] EXCEPT ![r] = "answered"]
  BY PhaseStep DEF Return, Fail, Goto, Labels
<1>2. Phase(r) \in {"submitted", "applied"} /\ (Return(r) => Phase(r) = "applied")
  BY DEF Return, Fail, Phase, IInv, TypeOK, Labels
<1> QED BY <1>1, <1>2 DEF Return, Fail, Board!Answer, Board!AnswerError

LEMMA StepMaps ==
  ASSUME IInv, [Next]_vars
  PROVE  [Board!BoardNext]_(Board!boardVars)
<1>1. CASE UNCHANGED vars
  BY <1>1 DEF vars, Board!boardVars, Phase
<1> QED BY <1>1, CallMaps, InsertMaps, SelectMaps, WriteUpdateMaps,
           WriteDeleteMaps, PublishMaps, AnswerMaps
        DEF Next, Step, Finished, Board!BoardNext

(* The two-statement handlers of Controller.py are indistinguishable from  *)
(* atomic ones: no lost update, no delete answered twice, every 404        *)
(* justified at one instant of its request.                                *)
THEOREM WritesAreAtomic == Spec => AtomicWrites
BY InitMaps, StepMaps, Invariance, PTL DEF Spec, AtomicWrites, Board!BoardSpec
=============================================================================
