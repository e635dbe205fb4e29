----------------------------- MODULE Pagination -----------------------------
(***************************************************************************)
(* Walking the pages of a thread: ListMessages gives the first page,       *)
(* ListMessagesBefore the one after a cursor (created_at, id), while other *)
(* requests create and delete messages.  An INSERT stamps its row with the *)
(* time it started (NOW()), and the row is seen when it commits, so rows   *)
(* may appear out of the order of their stamps.                            *)
(* The first page is sorted by created_at alone (sqlc messages.py:167),    *)
(* the others by created_at and id (:158).                                 *)
(***************************************************************************)
EXTENDS Integers, FiniteSets

CONSTANTS
  Ids,           \* message ids, in the order PostgreSQL gives uuids
  Limit,         \* the walk's "limit"
  MaxNow,        \* bound on the clock
  UniqueStamps   \* do no two messages of the thread share a created_at?

ASSUME PaginationAssumption ==
  /\ Ids \subseteq Nat /\ IsFiniteSet(Ids)
  /\ Limit \in Nat \ {0} /\ MaxNow \in Nat
  /\ UniqueStamps \in BOOLEAN

VARIABLES
  now,       \* the database's clock
  status,    \* id |-> "free", "inserting", "live" or "deleted"
  created,   \* id |-> created_at
  walk,      \* the client: "start", "more" or "end"
  cursor,    \* [created, id] of the last message it was given
  shown,     \* id |-> how many times the walk was given it
  standing   \* messages live when the walk started

vars == <<now, status, created, walk, cursor, shown, standing>>
threadVars == <<now, status, created>>
walkVars == <<walk, cursor, shown, standing>>

Live == {id \in Ids : status[id] = "live"}

Init ==
  /\ now = 0
  /\ status = [id \in Ids |-> "free"]
  /\ created = [id \in Ids |-> 0]
  /\ walk = "start"
  /\ cursor = [created |-> 0, id |-> 0]
  /\ shown = [id \in Ids |-> 0]
  /\ standing = {}

-----------------------------------------------------------------------------
(* The other requests. *)

ClockTick ==
  /\ now < MaxNow
  /\ now' = now + 1
  /\ UNCHANGED <<status, created, walkVars>>

(* CREATE_MESSAGE starts: gen_random_uuid() and NOW(). *)
Stamp == now
StartInsert(id) ==
  /\ status[id] = "free"
  /\ UniqueStamps =>
       \A other \in Ids : status[other] # "free" => created[other] # Stamp
  /\ status' = [status EXCEPT ![id] = "inserting"]
  /\ created' = [created EXCEPT ![id] = Stamp]
  /\ UNCHANGED <<now, walkVars>>

CommitInsert(id) ==
  /\ status[id] = "inserting"
  /\ status' = [status EXCEPT ![id] = "live"]
  /\ UNCHANGED <<now, created, walkVars>>

(* SOFT_DELETE_MESSAGE. *)
SoftDelete(id) ==
  /\ status[id] = "live"
  /\ status' = [status EXCEPT ![id] = "deleted"]
  /\ UNCHANGED <<now, created, walkVars>>

-----------------------------------------------------------------------------
(* The pages. *)

(* LIMIT: no more rows than that, and fewer only if there are no others. *)
Limited(page, rows) ==
  /\ page \subseteq rows
  /\ Cardinality(page) <= Limit
  /\ Cardinality(page) < Limit => page = rows

(* ORDER BY created_at DESC: equal stamps come in any order. *)
NewestByStamp(page, rows) ==
  \A p \in page, q \in rows \ page : created[p] >= created[q]

(* ORDER BY created_at DESC, id DESC. *)
Older(a, c) == created[a] < c.created \/ (created[a] = c.created /\ a < c.id)
Key(id) == [created |-> created[id], id |-> id]
Newest(page, rows) == \A p \in page, q \in rows \ page : Older(q, Key(p))

(* The row of the page that comes last, resultado[-1]. *)
LastByStamp(page) == {l \in page : \A p \in page : created[p] >= created[l]}
Last(page) == {l \in page : \A p \in page \ {l} : Older(l, Key(p))}

(* has_more = len(resultado) == limit *)
HasMore_Above(page) == Cardinality(page) > Limit
HasMore(page) == Cardinality(page) = Limit

(* next_cursor is made from the last row; the client goes on if it should. *)
Give(page, lasts) ==
  /\ shown' = [id \in Ids |-> IF id \in page THEN shown[id] + 1 ELSE shown[id]]
  /\ \/ page = {} /\ UNCHANGED cursor
     \/ \E l \in lasts : cursor' = Key(l)
  /\ walk' = IF HasMore(page) THEN "more" ELSE "end"

(* LIST_THREAD_MESSAGES_NOT_DELETED_DESC_FIRST *)
FirstPage ==
  /\ walk = "start"
  /\ \E page \in SUBSET Live :
       /\ Limited(page, Live) /\ NewestByStamp(page, Live)
       /\ Give(page, LastByStamp(page))
  /\ standing' = Live
  /\ UNCHANGED threadVars

(* The rows a cursor selects: (created_at, id) < (:p2, :p3). *)
Candidates_All == Live
Candidates_Inclusive ==
  {id \in Live : Older(id, cursor) \/ id = cursor.id}
Candidates == {id \in Live : Older(id, cursor)}

(* LIST_THREAD_MESSAGES_NOT_DELETED_DESC_BEFORE *)
NextPage ==
  /\ walk = "more"
  /\ \E page \in SUBSET Candidates :
       /\ Limited(page, Candidates) /\ Newest(page, Candidates)
       /\ Give(page, Last(page))
  /\ UNCHANGED <<threadVars, standing>>

(* The client starts again from the newest message. *)
NewWalk ==
  /\ walk = "end"
  /\ walk' = "start"
  /\ cursor' = [created |-> 0, id |-> 0]
  /\ shown' = [id \in Ids |-> 0]
  /\ standing' = {}
  /\ UNCHANGED threadVars

Next ==
  \/ ClockTick
  \/ \E id \in Ids : StartInsert(id) \/ CommitInsert(id) \/ SoftDelete(id)
  \/ FirstPage \/ NextPage \/ NewWalk

Spec == Init /\ [][Next]_vars

-----------------------------------------------------------------------------
(* Properties. *)

(* Types of the thread and of the walk.                                    *)
TypeOK ==
  /\ now \in 0..MaxNow
  /\ status \in [Ids -> {"free", "inserting", "live", "deleted"}]
  /\ created \in [Ids -> 0..MaxNow]
  /\ walk \in {"start", "more", "end"}
  /\ cursor \in [created : 0..MaxNow, id : Ids \cup {0}]
  /\ shown \in [Ids -> Nat]
  /\ standing \subseteq Ids

(* A walk to the last page is given every message that was live all the    *)
(* while, whatever is created and deleted between its pages.               *)
NoneSkipped ==
  walk = "end" =>
    \A id \in standing : status[id] = "live" => shown[id] > 0

(* No message is given twice, on the same page or on a later one.          *)
NoneRepeated == \A id \in Ids : shown[id] <= 1

(* Each cursor is below the one before it: the walk moves to older         *)
(* messages only, so new ones cannot keep it going.                        *)
CursorDescends ==
  [][walk = "more" /\ cursor' # cursor =>
       \/ cursor'.created < cursor.created
       \/ cursor'.created = cursor.created /\ cursor'.id < cursor.id]_vars
=============================================================================
