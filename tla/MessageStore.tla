---------------------------- MODULE MessageStore ----------------------------
(***************************************************************************)
(* Controller.py: the write operations of the service, one action per SQL  *)
(* statement or await.  The handlers of many requests interleave in one    *)
(* event loop and over several replicas, so anything may happen between    *)
(* two actions of a request.  asyncpg runs each statement outside an       *)
(* explicit transaction: it commits on its own, and the row lock of a      *)
(* SELECT ... FOR UPDATE ends with the SELECT.                             *)
(*                                                                         *)
(* pc of a handler:  "idle" -> "insert" -> "publish" -> "return" -> "done" *)
(*                   "idle" -> "select" -> "write"   -> "return" -> "done" *)
(***************************************************************************)
EXTENDS MessageTable

CONSTANT Requests

VARIABLES
  rows,       \* the messages table
  pc,         \* request |-> where its handler is
  args,       \* request |-> the arguments of the controller call
  current,    \* request |-> the row its SELECT returned (Null before)
  result,     \* request |-> what the controller function has worked out
  reply       \* request |-> what its client was told

vars == <<rows, pc, args, current, result, reply>>

CreateArgs == [op : {"create"}, thread : Threads, target : {Null},
               content : Contents, paths : Paths \cup {Null}]
UpdateArgs == [op : {"update"}, thread : Threads, target : Ids,
               content : Contents \cup {Null}, paths : Paths \cup {Null}]
DeleteArgs == [op : {"delete"}, thread : Threads, target : Ids,
               content : {Null}, paths : {Null}]

(* A restarted service finds whatever the table holds. *)
Init ==
  /\ rows \in Table
  /\ pc = [r \in Requests |-> "idle"]
  /\ args = [r \in Requests |-> Null]
  /\ current = [r \in Requests |-> Null]
  /\ result = [r \in Requests |-> "none"]
  /\ reply = [r \in Requests |-> "none"]

-----------------------------------------------------------------------------

Goto(r, label) == pc' = [pc EXCEPT ![r] = label]

Resolve(r, res) == result' = [result EXCEPT ![r] = res] /\ Goto(r, "return")

CallCreate(r) ==
  /\ pc[r] = "idle"
  /\ \E a \in CreateArgs : args' = [args EXCEPT ![r] = a]
  /\ Goto(r, "insert")
  /\ UNCHANGED <<rows, current, result, reply>>

CallChange(r) ==
  /\ pc[r] = "idle"
  /\ \E a \in UpdateArgs \cup DeleteArgs : args' = [args EXCEPT ![r] = a]
  /\ Goto(r, "select")
  /\ UNCHANGED <<rows, current, result, reply>>

(* CreateMessage: the INSERT, under an id the database makes up. *)
Insert(r) ==
  /\ pc[r] = "insert"
  /\ \E id \in Ids :
       /\ rows[id] = NoRow
       /\ rows' = [rows EXCEPT ![id] =
            InsertedRow(args[r].thread, args[r].content, args[r].paths)]
       /\ args' = [args EXCEPT ![r].target = id]
  /\ result' = [result EXCEPT ![r] = "ok"]
  /\ Goto(r, "publish")
  /\ UNCHANGED <<current, reply>>

(* CreateMessage: the await on SendEvent, whose failure is only logged: the *)
(* created row is returned either way.  Module EventPublisher has the rest. *)
Publish(r) ==
  /\ pc[r] = "publish"
  /\ Goto(r, "return")
  /\ UNCHANGED <<rows, args, current, result, reply>>

(* What UpdateMessage and DeleteMessage ask of the row they selected. *)
UpdateAllowed_AnyThread(row, thread) == row # NoRow
UpdateAllowed(row, thread) == InThread(row, thread)
DeleteAllowed(row, thread) == InThread(row, thread) /\ Live(row)

Allowed(r, row) ==
  \/ args[r].op = "update" /\ UpdateAllowed(row, args[r].thread)
  \/ args[r].op = "delete" /\ DeleteAllowed(row, args[r].thread)

(* The SELECT ... FOR UPDATE and the test of the row it returned. *)
Select(r) ==
  /\ pc[r] = "select"
  /\ current' = [current EXCEPT ![r] = rows[args[r].target]]
  /\ \/ /\ Allowed(r, rows[args[r].target])
        /\ Goto(r, "write")
        /\ UNCHANGED result
     \/ /\ ~Allowed(r, rows[args[r].target])
        /\ Resolve(r, "absent")
  /\ UNCHANGED <<rows, args, reply>>

(* The row UPDATE_MESSAGE_CONTENT_AND_PATHS leaves for request r. *)
NewRow_FromSelect(r) == UpdatedRow(current[r], args[r].content, args[r].paths)
NewRow(r) == UpdatedRow(rows[args[r].target], args[r].content, args[r].paths)

(* UpdateMessage: the UPDATE, WHERE id = :p1; no row is a 404. *)
WriteUpdate(r) ==
  LET row == rows[args[r].target] IN
  /\ pc[r] = "write" /\ args[r].op = "update"
  /\ rows' = [rows EXCEPT ![args[r].target] =
                IF row = NoRow THEN NoRow ELSE NewRow(r)]
  /\ Resolve(r, IF row = NoRow THEN "absent" ELSE "ok")
  /\ UNCHANGED <<args, current, reply>>

(* The WHERE clause of SOFT_DELETE_MESSAGE. *)
SoftDeleteMatches_ById(row) == row # NoRow
SoftDeleteMatches(row) == Live(row)

(* DeleteMessage: the UPDATE, WHERE id = :p1 AND deleted_at IS NULL. *)
WriteDelete(r) ==
  /\ pc[r] = "write" /\ args[r].op = "delete"
  /\ \/ /\ SoftDeleteMatches(rows[args[r].target])
        /\ rows' = [rows EXCEPT ![args[r].target] = SoftDeletedRow(@)]
        /\ Resolve(r, "ok")
     \/ /\ ~SoftDeleteMatches(rows[args[r].target])
        /\ Resolve(r, "absent")
        /\ UNCHANGED rows
  /\ UNCHANGED <<args, current, reply>>

(* The handler answers 201, 200 or 204, or 404 for "No row returned". *)
Return(r) ==
  /\ pc[r] = "return"
  /\ reply' = [reply EXCEPT ![r] = result[r]]
  /\ Goto(r, "done")
  /\ UNCHANGED <<rows, args, current, result>>

(* Any other exception (a statement that times out, a pool connection that *)
(* breaks before or after its statement committed) is a 500; a crash of    *)
(* the replica closes the client's connection.  What was written stays.    *)
Fail(r) ==
  /\ pc[r] \notin {"idle", "done"}
  /\ reply' = [reply EXCEPT ![r] = "error"]
  /\ Goto(r, "done")
  /\ UNCHANGED <<rows, args, current, result>>

(* The requests of the model are all answered. *)
Finished ==
  /\ \A r \in Requests : pc[r] = "done"
  /\ UNCHANGED vars

Step(r) ==
  \/ Insert(r) \/ Publish(r) \/ Select(r)
  \/ WriteUpdate(r) \/ WriteDelete(r) \/ Return(r)

Next ==
  \/ \E r \in Requests : CallCreate(r) \/ CallChange(r) \/ Step(r) \/ Fail(r)
  \/ Finished

Spec == Init /\ [][Next]_vars

-----------------------------------------------------------------------------
(* Properties. *)

Args == CreateArgs \cup UpdateArgs \cup DeleteArgs
          \cup [op : {"create"}, thread : Threads, target : Ids,
                content : Contents, paths : Paths \cup {Null}]
Labels == {"idle", "insert", "publish", "select", "write", "return", "done"}

(* Every variable has its type: rows are rows of the schema, the handlers  *)
(* of Controller.py are at one of their awaits.                            *)
TypeOK ==
  /\ rows \in Table
  /\ pc \in [Requests -> Labels]
  /\ args \in [Requests -> Args \cup {Null}]
  /\ current \in [Requests -> Row \cup {NoRow, Null}]
  /\ result \in [Requests -> {"none", "ok", "absent"}]
  /\ reply \in [Requests -> {"none", "ok", "absent", "error"}]

IsOp(r, op) == pc[r] # "idle" /\ args[r].op = op

(* However many DELETEs of one message race, at most one of them deletes   *)
(* it: DeleteMessage tests the row in one statement and writes it in the   *)
(* next, and only the WHERE clause of the second decides.                  *)
DeleteOnce ==
  \A r1, r2 \in Requests :
    /\ IsOp(r1, "delete") /\ result[r1] = "ok"
    /\ IsOp(r2, "delete") /\ result[r2] = "ok"
    /\ args[r1].target = args[r2].target
    => r1 = r2

(* A request changes only messages of the thread in its URL, although the  *)
(* statement that writes has no thread in its WHERE clause.                *)
ThreadConfined ==
  [][\A id \in Ids :
       rows[id] # NoRow /\ rows'[id] # rows[id]
         => \E r \in Requests :
              /\ pc[r] = "write" /\ pc'[r] = "return" /\ result'[r] = "ok"
              /\ args[r].target = id
              /\ args[r].thread = rows[id].thread]_vars

(* A deleted message stays deleted, whatever updates that had already      *)
(* passed their test still write to it.                                    *)
TombstonesStay ==
  [][\A id \in Ids : rows[id] # NoRow /\ rows[id].deleted
       => rows'[id] # NoRow /\ rows'[id].deleted]_vars

(* The phase of a handler as its client could time it. *)
Phase(r) ==
  CASE pc[r] = "idle" -> "new"
    [] pc[r] = "done" -> "answered"
    [] pc[r] \in {"publish", "return"} -> "applied"
    [] OTHER -> "submitted"

Board == INSTANCE MessageBoard
  WITH phase  <- [r \in Requests |-> Phase(r)],
       effect <- result,
       answer <- reply

(* Every request takes effect at one instant between call and answer, on   *)
(* the row as it is at that instant: no update is lost, none is undone by  *)
(* a racing one, and every 404 was true when it was decided.               *)
AtomicWrites == Board!BoardSpec
=============================================================================
