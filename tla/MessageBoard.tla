---------------------------- MODULE MessageBoard ----------------------------
(***************************************************************************)
(* What the write side of the Messages Service promises, with no statement *)
(* in between: every request to create, update or delete a message takes   *)
(* effect at ONE instant between its submission and its answer.  At that   *)
(* instant it either changes the table or finds its message absent.  The   *)
(* answer is the effect, or "error" (HTTP 500, a lost connection), which   *)
(* tells the client nothing: the effect may or may not have happened.      *)
(***************************************************************************)
EXTENDS MessageTable

CONSTANT Requests

VARIABLES
  rows,     \* the table
  phase,    \* request |-> "new", "submitted", "applied" or "answered"
  args,     \* request |-> what it asks for, Null before it is submitted
  effect,   \* request |-> "none", "ok" or "absent"
  answer    \* request |-> "none", "ok", "absent" or "error"

boardVars == <<rows, phase, args, effect, answer>>

CreateArgs == [op : {"create"}, thread : Threads, target : {Null},
               content : Contents, paths : Paths \cup {Null}]
UpdateArgs == [op : {"update"}, thread : Threads, target : Ids,
               content : Contents \cup {Null}, paths : Paths \cup {Null}]
DeleteArgs == [op : {"delete"}, thread : Threads, target : Ids,
               content : {Null}, paths : {Null}]

BoardInit ==
  /\ rows \in Table
  /\ phase = [r \in Requests |-> "new"]
  /\ args = [r \in Requests |-> Null]
  /\ effect = [r \in Requests |-> "none"]
  /\ answer = [r \in Requests |-> "none"]

Submit(r) ==
  /\ phase[r] = "new"
  /\ \E a \in CreateArgs \cup UpdateArgs \cup DeleteArgs :
       args' = [args EXCEPT ![r] = a]
  /\ phase' = [phase EXCEPT ![r] = "submitted"]
  /\ UNCHANGED <<rows, effect, answer>>

Applied(r, eff) ==
  /\ phase' = [phase EXCEPT ![r] = "applied"]
  /\ effect' = [effect EXCEPT ![r] = eff]
  /\ UNCHANGED answer

(* A create always finds a fresh id, which becomes its target. *)
ApplyCreate(r) ==
  /\ phase[r] = "submitted" /\ args[r].op = "create"
  /\ \E id \in Ids :
       /\ rows[id] = NoRow
       /\ rows' = [rows EXCEPT ![id] =
            InsertedRow(args[r].thread, args[r].content, args[r].paths)]
       /\ args' = [args EXCEPT ![r].target = id]
  /\ Applied(r, "ok")

(* An update changes the fields it gives, of the row as it is NOW. *)
ApplyUpdate(r) ==
  /\ phase[r] = "submitted" /\ args[r].op = "update"
  /\ InThread(rows[args[r].target], args[r].thread)
  /\ rows' = [rows EXCEPT ![args[r].target] =
       UpdatedRow(@, args[r].content, args[r].paths)]
  /\ Applied(r, "ok")
  /\ UNCHANGED args

(* Only a message that is still there can be deleted. *)
ApplyDelete(r) ==
  /\ phase[r] = "submitted" /\ args[r].op = "delete"
  /\ InThread(rows[args[r].target], args[r].thread)
  /\ Live(rows[args[r].target])
  /\ rows' = [rows EXCEPT ![args[r].target] = SoftDeletedRow(@)]
  /\ Applied(r, "ok")
  /\ UNCHANGED args

(* "absent" is justified by the table at this very instant. *)
FindAbsent(r) ==
  /\ phase[r] = "submitted" /\ args[r].op \in {"update", "delete"}
  /\ \/ ~InThread(rows[args[r].target], args[r].thread)
     \/ args[r].op = "delete" /\ ~Live(rows[args[r].target])
  /\ Applied(r, "absent")
  /\ UNCHANGED <<rows, args>>

Answer(r) ==
  /\ phase[r] = "applied"
  /\ answer' = [answer EXCEPT ![r] = effect[r]]
  /\ phase' = [phase EXCEPT ![r] = "answered"]
  /\ UNCHANGED <<rows, args, effect>>

AnswerError(r) ==
  /\ phase[r] \in {"submitted", "applied"}
  /\ answer' = [answer EXCEPT ![r] = "error"]
  /\ phase' = [phase EXCEPT ![r] = "answered"]
  /\ UNCHANGED <<rows, args, effect>>

BoardNext ==
  \E r \in Requests :
    \/ Submit(r) \/ ApplyCreate(r) \/ ApplyUpdate(r) \/ ApplyDelete(r)
    \/ FindAbsent(r) \/ Answer(r) \/ AnswerError(r)

BoardSpec == BoardInit /\ [][BoardNext]_boardVars
=============================================================================
