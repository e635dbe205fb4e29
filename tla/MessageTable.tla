---------------------------- MODULE MessageTable ----------------------------
(***************************************************************************)
(* The rows of the "messages" table and the effect of the SQL statements   *)
(* that the service runs on one row.  A message id is a member of Ids, a   *)
(* table maps every id to its row or to NoRow.  Contents and path lists    *)
(* are opaque values; Null is SQL NULL and Python None.  user_id, type and *)
(* the timestamps are left out here: no statement reads them to decide     *)
(* what it writes (the order by created_at is in module Pagination).       *)
(***************************************************************************)

CONSTANTS
  Threads,    \* thread ids
  Ids,        \* message ids, the values gen_random_uuid() can return
  Contents,   \* message texts
  Paths,      \* lists of attachment paths
  Empty,      \* the empty text, the column's default
  Null,       \* SQL NULL
  NoRow       \* what a SELECT or a RETURNING clause gives when no row matches

Row == [thread  : Threads,
        content : Contents,
        paths   : Paths \cup {Null},
        deleted : BOOLEAN]

Table == [Ids -> Row \cup {NoRow}]

ASSUME TableAssumption ==
  /\ Empty \in Contents
  /\ Null \notin Contents \cup Paths \cup Ids
  /\ NoRow \notin Row

(* SQL COALESCE of two arguments. *)
Coalesce(new, old) == IF new = Null THEN old ELSE new

(* CREATE_MESSAGE: the row the INSERT stores. *)
InsertedRow(thread, content, paths) ==
  [thread  |-> thread,
   content |-> Coalesce(content, Empty),
   paths   |-> paths,
   deleted |-> FALSE]

(* UPDATE_MESSAGE_CONTENT_AND_PATHS: SET content = COALESCE(:p2, content), *)
(* paths = COALESCE(:p3, paths); it does not look at deleted_at.           *)
UpdatedRow_Overwrite(row, content, paths) ==
  [row EXCEPT !.content = content, !.paths = paths]
UpdatedRow_Restore(row, content, paths) ==
  [row EXCEPT !.content = Coalesce(content, @), !.paths = Coalesce(paths, @),
              !.deleted = FALSE]
UpdatedRow(row, content, paths) ==
  [row EXCEPT !.content = Coalesce(content, @), !.paths = Coalesce(paths, @)]

(* SOFT_DELETE_MESSAGE: SET deleted_at. *)
SoftDeletedRow(row) == [row EXCEPT !.deleted = TRUE]

(* Is this the row of a message of the thread? *)
InThread(row, thread) == row # NoRow /\ row.thread = thread

(* A row that lists show and that may be deleted: deleted_at IS NULL. *)
Live(row) == row # NoRow /\ ~row.deleted
=============================================================================
