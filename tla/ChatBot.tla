------------------------------ MODULE ChatBot ------------------------------
(***************************************************************************)
(* interfaz/core/views.py, chatbot_view, and utils.py, API_CB: a message   *)
(* to a chatbot.  The request copies the history from the session, appends *)
(* the message, posts it to one gateway after the other until one answers, *)
(* appends the answer and saves the session, whole, when it ends.          *)
(*                                                                         *)
(* The script of the page does not wait for an answer before it sends the  *)
(* next message, so several requests of a browser are under way, to one    *)
(* bot or to several, and so are requests of other views (WebSession).     *)
(*                                                                         *)
(* pc of a post:   "idle" -> "calling" -> "saving" -> "done" or "failed"   *)
(* pc of another:  "idle" -> "saving" -> "done" or "failed"                *)
(***************************************************************************)
EXTENDS Naturals, Sequences

CONSTANTS
  Posts,     \* POSTs of a message, each known by its message,
  Bot,       \* and the chatbot each is for: Posts -> Bots
  Others,    \* requests of other views that save the session
  Bots,      \* keys of CHATBOT_ENDPOINTS
  Gateways,  \* how many GATEWAY_BASES there are
  None

ASSUME ChatAssumption ==
  /\ Posts \cap Others = {}
  /\ Bot \in [Posts -> Bots]
  /\ Gateways \in Nat \ {0}
  /\ None \notin Others

Requests == Posts \cup Others

VARIABLES
  store,   \* the session: history of each bot, and who saved the rest last
  pc,      \* request |-> where it is
  base,    \* post |-> the gateway it tries, from 1
  copy,    \* request |-> its copy of the session
  heard,   \* post |-> how often a chatbot took its message
  saves,   \* requests whose session was saved, in that order
  seen     \* request |-> the requests saved before it read the session

vars == <<store, pc, base, copy, heard, saves, seen>>
postVars == <<base, heard>>

(* An entry of the history: whose it is, and the post it belongs to.       *)
Entry(sender, p) == [sender |-> sender, post |-> p]

Empty == [history |-> [b \in Bots |-> <<>>], rest |-> None]

Saved == {saves[i] : i \in DOMAIN saves}

Init ==
  /\ store = Empty
  /\ pc = [r \in Requests |-> "idle"]
  /\ base = [p \in Posts |-> 1]
  /\ copy = [r \in Requests |-> Empty]
  /\ heard = [p \in Posts |-> 0]
  /\ saves = <<>>
  /\ seen = [r \in Requests |-> {}]

-----------------------------------------------------------------------------
Goto(r, label) == pc' = [pc EXCEPT ![r] = label]

(* SessionMiddleware, at the beginning of a request: it gets "session".    *)
Load(r, session) ==
  /\ pc[r] = "idle"
  /\ copy' = [copy EXCEPT ![r] = session]
  /\ seen' = [seen EXCEPT ![r] = Saved]
  /\ UNCHANGED <<store, saves>>

With(session, b, entry) == [session EXCEPT !.history[b] = Append(@, entry)]

Post_Anew(p) ==
  /\ Load(p, With(Empty, Bot[p], Entry("user", p)))
  /\ Goto(p, "calling")
  /\ UNCHANGED <<base, heard>>
Post(p) ==
  /\ Load(p, With(store, Bot[p], Entry("user", p)))
  /\ Goto(p, "calling")
  /\ UNCHANGED <<base, heard>>

(* API_CB: the chatbot may have taken the message "times" times.           *)
Call(p, times) ==
  /\ pc[p] = "calling"
  /\ \E n \in times : heard' = [heard EXCEPT ![p] = @ + n]
  /\ UNCHANGED <<store, saves, seen>>

Answer_Rereads(p, sender) ==
  /\ copy' = [copy EXCEPT ![p] = With(store, Bot[p], Entry(sender, p))]
  /\ Goto(p, "saving")
  /\ UNCHANGED base
Answer(p, sender) ==
  /\ copy' = [copy EXCEPT ![p] = With(@, Bot[p], Entry(sender, p))]
  /\ Goto(p, "saving")
  /\ UNCHANGED base

Replied_Html(p) == Call(p, {0, 1}) /\ Answer(p, "bot")
Replied(p) == Call(p, {1}) /\ Answer(p, "bot")

(* An exception (no connection, or no answer within 12 seconds), a page of *)
(* HTML, a status that is not a success: the next gateway is tried,        *)
NextGateway_Beyond(p) ==
  /\ base[p] <= Gateways
  /\ Call(p, {0, 1})
  /\ base' = [base EXCEPT ![p] = @ + 1]
  /\ UNCHANGED <<pc, copy>>
NextGateway(p) ==
  /\ base[p] < Gateways
  /\ Call(p, {0, 1})
  /\ base' = [base EXCEPT ![p] = @ + 1]
  /\ UNCHANGED <<pc, copy>>

(* ... or, after the last, the errors are the answer.                      *)
NoGateway_Again(p) ==
  /\ base[p] >= Gateways
  /\ Call(p, {0})
  /\ base' = [base EXCEPT ![p] = 1]
  /\ UNCHANGED <<pc, copy>>
NoGateway(p) ==
  /\ base[p] >= Gateways
  /\ Call(p, {0, 1})
  /\ Answer(p, "error")

Step(p) == Replied(p) \/ NextGateway(p) \/ NoGateway(p)

(* Any other view that saves something: the history goes with it.          *)
Open(o) ==
  /\ Load(o, [store EXCEPT !.rest = o])
  /\ Goto(o, "saving")
  /\ UNCHANGED postVars

Merged(r) ==
  IF r \in Others THEN [store EXCEPT !.rest = r]
  ELSE LET h == copy[r].history[Bot[r]] IN
       [store EXCEPT !.history[Bot[r]] = @ \o SubSeq(h, Len(h) - 1, Len(h))]
Save_Merges(r) ==
  /\ pc[r] = "saving"
  /\ store' = Merged(r)
  /\ saves' = Append(saves, r)
  /\ Goto(r, "done")
  /\ copy' = [copy EXCEPT ![r] = Empty]
  /\ UNCHANGED <<postVars, seen>>
Save(r) ==
  /\ pc[r] = "saving"
  /\ store' = copy[r]
  /\ saves' = Append(saves, r)
  /\ Goto(r, "done")
  /\ copy' = [copy EXCEPT ![r] = Empty]
  /\ UNCHANGED <<postVars, seen>>

(* The process stops, an exception nobody catches, or a 400 because the    *)
(* session was logged out meanwhile: nothing is saved.                     *)
Fail(r) ==
  /\ pc[r] \in {"calling", "saving"}
  /\ Goto(r, "failed")
  /\ copy' = [copy EXCEPT ![r] = Empty]
  /\ UNCHANGED <<store, postVars, saves, seen>>

Finished ==
  /\ \A r \in Requests : pc[r] \in {"done", "failed"}
  /\ UNCHANGED vars

Next ==
  \/ \E p \in Posts : Post(p) \/ Step(p)
  \/ \E o \in Others : Open(o)
  \/ \E r \in Requests : Save(r) \/ Fail(r)
  \/ Finished

Spec == Init /\ [][Next]_vars

(* Each call of API_CB has a timeout; Django serves each request in a      *)
(* thread of its own.  Users need send nothing.                            *)
FairSpec ==
  Spec /\ \A p \in Posts : WF_vars(Step(p) \/ Save(p) \/ Fail(p))

-----------------------------------------------------------------------------
(* Properties. *)

Entries == [sender : {"user", "bot", "error"}, post : Posts]
SessionType == [history : [Bots -> Seq(Entries)], rest : Others \cup {None}]

(* Types; no gateway is tried that is not configured.                      *)
TypeOK ==
  /\ store \in SessionType
  /\ pc \in [Requests -> {"idle", "calling", "saving", "done", "failed"}]
  /\ base \in [Posts -> 1..Gateways]
  /\ copy \in [Requests -> SessionType]
  /\ heard \in [Posts -> Nat]
  /\ saves \in Seq(Requests)
  /\ seen \in [Requests -> SUBSET Requests]

(* However requests overlap and fail, a saved history is made of whole     *)
(* exchanges: a message, then what its own request answered to it.         *)
Exchange(message, answer) ==
  /\ message.sender = "user"
  /\ answer.sender \in {"bot", "error"} /\ answer.post = message.post
WholeExchanges ==
  \A b \in Bots : LET h == store.history[b] IN
    /\ \A i \in DOMAIN h : Bot[h[i].post] = b
    /\ \A i \in DOMAIN h : i % 2 = 1 => i < Len(h) /\ Exchange(h[i], h[i + 1])

(* A history is one that could have been had by waiting for each answer:   *)
(* of two exchanges in it, the second was begun after the first was saved. *)
HistorySequential ==
  \A b \in Bots : LET h == store.history[b] IN
    \A i, j \in DOMAIN h : i < j /\ h[i].post # h[j].post => h[i].post \in seen[h[j].post]

(* An exchange that was saved stays in the history, unless a request that  *)
(* had read the session before is saved after it; and so does what another *)
(* view saved, unless another view was saved since.                        *)
Overlapped(r) ==
  \E i, j \in DOMAIN saves : i < j /\ saves[i] = r /\ r \notin seen[saves[j]]
Kept(r) ==
  \/ r \in Posts /\ \E i \in DOMAIN store.history[Bot[r]] : store.history[Bot[r]][i].post = r
  \/ r \in Others /\ store.rest = r
  \/ r \in Others /\ \E i, j \in DOMAIN saves : i < j /\ saves[i] = r /\ saves[j] \in Others
KeptUnlessOverlapped == \A r \in Saved : Kept(r) \/ Overlapped(r)

(* A chatbot may take a message more than once, but no more often than     *)
(* gateways were tried; and an answer in the history that is not an error  *)
(* is one to a message that was taken.                                     *)
HeardAsAnswered ==
  /\ \A p \in Posts : heard[p] <= base[p]
  /\ \A b \in Bots : \A i \in DOMAIN store.history[b] :
       store.history[b][i].sender = "bot" => heard[store.history[b][i].post] > 0

(* Every message is answered, if only with the errors of all gateways.     *)
PostsEnd == \A p \in Posts : pc[p] = "calling" ~> pc[p] \in {"done", "failed"}
=============================================================================
