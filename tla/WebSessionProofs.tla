--------------------------- MODULE WebSessionProofs ---------------------------
(***************************************************************************)
(* WebSession for any number of tabs, keys, channels and threads: what a   *)
(* saved session may be, and whom a tab acts on, whatever the tabs of the  *)
(* browser do at once and whichever calls fail.                            *)
(***************************************************************************)
EXTENDS WebSession, TLAPS

ChatMaps == Maps(Chats, Channels)
ThreadMaps == Maps(Titles, Threads)

Places == {"home", "main", "waiting", "listed", "hilos", "mensajes", "mod_chat",
           "mod_hilos", "blank"}
PageType ==
  [at : Places, map : ChatMaps \cup ThreadMaps \cup {None},
   channel : Channels \cup {None}, thread : Threads \cup {None}, mine : BOOLEAN]

(* Pages with channels to choose from and pages with threads.              *)
GoodPage(p) ==
  /\ p \in PageType
  /\ p.at \in {"listed", "mod_chat"} => p.map \in ChatMaps
  /\ p.at \in {"hilos", "mod_hilos"} => p.map \in ThreadMaps

(* HasChat, HasThread and Thread of any session.                           *)
ChatChosen(s) == s.lists # None /\ s.chat # None /\ s.chat \in DOMAIN s.lists.all
ThreadChosen(s) == s.hilos # None /\ s.hilo # None /\ s.hilo \in DOMAIN s.hilos
ThreadOf(s) == s.hilos[s.hilo]

(* The order of the pages, for the session of a row or of a request.       *)
InOrder(s) ==
  /\ s.hilo # None => s.hilos # None
  /\ s.hilos # None => s.lists # None /\ s.chat # None
GoodSession(s) == s \in SessionType /\ InOrder(s)

(* Requests that are about to save, those that list threads first, those   *)
(* that only call a service.                                               *)
Listing == {"hilos", "choose", "member"}
Saving == Listing \cup {"adding", "saving"}
Calling == {"send", "mod_chat", "mod_hilos"}
Views == {"idle", "login", "signup", "presence", "log_out", "leaving"} \cup Saving \cup Calling

RequestType ==
  [view : Views, key : Keys \cup {None}, s : SessionType, then : PageType,
   target : Channels \cup Threads \cup {None},
   shown : Channels \cup Threads \cup Titles \cup {None}, alone : BOOLEAN]

(* A request that will save has one login, and but for the list that   *)
(* it is waiting for, a session in order; the calls it makes on behalf of  *)
(* a page go where the page said, unless another request came in between.  *)
GoodRequest(r) ==
  /\ r \in RequestType /\ GoodPage(r.then)
  /\ r.view \in Saving \cup {"presence"} => r.s.login \in Users
  /\ r.view \in Listing => ChatChosen(r.s)
  /\ r.view = "adding" => ChatChosen(r.s) /\ r.s.hilos # None
  /\ r.view \notin Listing => InOrder(r.s)
  /\ r.view = "log_out" => r.key \in Keys
  /\ r.view \in {"login", "signup", "presence", "member"} => r.then = Blank
  /\ r.view = "choose" => r.then.at = "blank" /\ r.shown \in Titles \cup {None}
  /\ r.view \in Calling /\ r.shown # None /\ r.alone => r.target = r.shown
  /\ r.view \in {"member", "adding"} /\ r.shown # None /\ r.alone => Channel(r.s) = r.shown

GoodFetch(f) ==
  /\ f \in [tab : Tabs \cup {None}, key : Keys \cup {None}, s : SessionType]
  /\ f # Silent => f.tab \in Tabs /\ f.key \in Keys /\ f.s.login = "whole" /\ InOrder(f.s)

(* A page agrees with a session if what the session would have the page's  *)
(* forms act on is what the page shows.                                    *)
Agrees(p, s) ==
  /\ p.channel # None /\ ChatChosen(s) => Channel(s) = p.channel
  /\ p.at = "mensajes" /\ ThreadChosen(s) => ThreadOf(s) = p.thread
  /\ p.at = "mod_chat" /\ s.lists # None => p.map = s.lists.mios
  /\ p.at = "mod_hilos" /\ s.hilos # None => p.map = s.hilos

(* The page after a request agrees with the session that is there by then: *)
(* the request's own if it saves, or else the one saved now.               *)
Follows(r, s) ==
  /\ r.view \in Calling => Agrees(r.then, s)
  /\ r.view \in Saving => Agrees(r.then, r.s)

StoreInv ==
  /\ store \in [Keys -> SessionType \cup {None}]
  /\ cookie \in Keys \cup {None} /\ ended \subseteq Keys
  /\ \A k \in Keys : store[k] # None => GoodSession(store[k]) /\ store[k].login \in Users
  /\ \A k \in ended : store[k] = None

TabsInv ==
  /\ page \in [Tabs -> PageType] /\ request \in [Tabs -> RequestType]
  /\ \A t \in Tabs : GoodPage(page[t]) /\ GoodRequest(request[t])
  /\ alone \in [Tabs -> BOOLEAN]

AloneInv ==
  \A t \in Tabs : alone[t] => Agrees(page[t], Session) /\ Follows(request[t], Session)

IInv == StoreInv /\ TabsInv /\ GoodFetch(fetch) /\ AloneInv

-----------------------------------------------------------------------------
(* Maps and the constants.                                                 *)

LEMMA MapsDomain ==
  ASSUME NEW A, NEW B, NEW f \in Maps(A, B)
  PROVE  DOMAIN f \subseteq A /\ \A x \in DOMAIN f : f[x] \in B
BY DEF Maps

LEMMA MapsIntro ==
  ASSUME NEW A, NEW B, NEW D \in SUBSET A, NEW f \in [D -> B]
  PROVE  f \in Maps(A, B)
BY DEF Maps

LEMMA ChatMapsDomain ==
  ASSUME NEW f \in ChatMaps
  PROVE  DOMAIN f \subseteq Chats /\ \A c \in DOMAIN f : f[c] \in Channels
BY MapsDomain DEF ChatMaps

LEMMA ThreadMapsDomain ==
  ASSUME NEW f \in ThreadMaps
  PROVE  DOMAIN f \subseteq Titles /\ \A h \in DOMAIN f : f[h] \in Threads
BY MapsDomain DEF ThreadMaps

LEMMA Nones ==
  /\ None \notin Tabs /\ None \notin Keys /\ None \notin Chats /\ None \notin Titles
  /\ None \notin ChannelLists /\ None \notin ThreadMaps /\ None \notin ChatMaps
BY WebAssumption DEF WebAssumption, ThreadMaps, ChatMaps

LEMMA Answers ==
  /\ \A l \in ChannelLists : l.all \in ChatMaps /\ l.mios \in ChatMaps /\ Listed(l) \in ChatMaps
  /\ \A c \in Channels : GetHilosAPI(c) \subseteq ThreadMaps
<1>1. \A l \in ChannelLists : l.all \in ChatMaps /\ l.mios \in ChatMaps
  BY WebAssumption DEF WebAssumption, ChatMaps
<1>2. ASSUME NEW l \in ChannelLists PROVE Listed(l) \in ChatMaps
  <2> DEFINE D == DOMAIN l.all \cup DOMAIN l.mios
  <2>1. D \in SUBSET Chats
    BY <1>1, ChatMapsDomain
  <2>2. Listed(l) \in [D -> Channels]
    BY <1>1, ChatMapsDomain DEF Listed
  <2> QED BY <2>1, <2>2, MapsIntro DEF ChatMaps
<1>3. NoThreads \in ThreadMaps
  <2>1. NoThreads \in [{} -> Threads]
    BY DEF NoThreads
  <2> QED BY <2>1, MapsIntro DEF ThreadMaps
<1>4. \A c \in Channels : ThreadLists[c] \subseteq ThreadMaps
  BY WebAssumption DEF WebAssumption, ThreadMaps
<1> QED BY <1>1, <1>2, <1>3, <1>4 DEF GetHilosAPI

(* What a session's choices denote.                                        *)
LEMMA Chosen ==
  ASSUME NEW s \in SessionType
  PROVE  /\ ChatChosen(s) => Channel(s) \in Channels /\ s.lists \in ChannelLists
         /\ ThreadChosen(s) => ThreadOf(s) \in Threads
         /\ s.lists # None => s.lists \in ChannelLists /\ s.lists.mios \in ChatMaps
         /\ s.hilos # None => s.hilos \in ThreadMaps
<1>1. /\ s.lists \in ChannelLists \cup {None} /\ s.hilos \in ThreadMaps \cup {None}
  BY DEF SessionType, ThreadMaps
<1>2. ChatChosen(s) => Channel(s) \in Channels
  BY <1>1, Answers, ChatMapsDomain DEF ChatChosen, Channel
<1>3. ThreadChosen(s) => ThreadOf(s) \in Threads
  BY <1>1, ThreadMapsDomain DEF ThreadChosen, ThreadOf
<1> QED BY <1>1, <1>2, <1>3, Answers DEF ChatChosen

-----------------------------------------------------------------------------
(* Sessions, pages and requests as they are when nothing was chosen yet.   *)

LEMMA NewSessionGood == GoodSession(NewSession) /\ NewSession.login = "none"
BY DEF NewSession, GoodSession, SessionType, InOrder

(* A page without choices.                                                 *)
Plain == {"home", "main", "waiting", "blank"}

LEMMA PlainPage ==
  ASSUME NEW at \in Plain
  PROVE  /\ GoodPage(Page(at)) /\ \A s : Agrees(Page(at), s)
         /\ Page(at).at = at /\ Page(at).channel = None
BY DEF Page, Plain, Places, GoodPage, PageType, Agrees

LEMMA BlankPage ==
  /\ GoodPage(Blank) /\ \A s : Agrees(Blank, s)
  /\ Blank.at = "blank" /\ Blank.channel = None
BY PlainPage DEF Blank, Plain

LEMMA IdleRequest == GoodRequest(Idle) /\ \A s : Follows(Idle, s)
<1>1. Idle \in RequestType
  BY BlankPage, NewSessionGood DEF Idle, RequestType, Views, GoodPage, GoodSession
<1> QED BY <1>1, BlankPage, NewSessionGood
        DEF Idle, GoodRequest, Follows, GoodSession, Saving, Calling, Listing

LEMMA SilentFetch == GoodFetch(Silent)
BY NewSessionGood DEF GoodFetch, Silent, GoodSession

(* The session that a request finds.                                       *)
LEMMA SessionGood ==
  ASSUME IInv
  PROVE  /\ GoodSession(Session) /\ Key \in Keys \cup {None}
         /\ Session.login # "none" => Key \in Keys /\ Session.login \in Users
         /\ Inside => Key \in Keys /\ Session.login = "whole"
<1>1. Key \in Keys \cup {None} /\ (Key # None => Key \in Keys /\ store[Key] # None)
  BY DEF IInv, StoreInv, Key
<1>2. CASE Key = None
  BY <1>1, <1>2, NewSessionGood DEF Session, Inside, NewSession
<1>3. CASE Key # None
  BY <1>1, <1>3 DEF Session, Inside, IInv, StoreInv, Users
<1> QED BY <1>1, <1>2, <1>3

LEMMA InitIInv == Init => IInv
<1> SUFFICES ASSUME Init PROVE IInv
  OBVIOUS
<1>1. StoreInv
  BY DEF Init, StoreInv
<1>2. TabsInv
  <2>1. GoodPage(Page("home")) /\ Page("home") \in PageType
    BY PlainPage DEF Plain, GoodPage
  <2>2. GoodRequest(Idle) /\ Idle \in RequestType
    BY IdleRequest DEF GoodRequest
  <2> QED BY <2>1, <2>2 DEF Init, TabsInv
<1>3. GoodFetch(fetch)
  BY SilentFetch DEF Init
<1>4. AloneInv
  BY DEF Init, AloneInv
<1> QED BY <1>1, <1>2, <1>3, <1>4 DEF IInv

-----------------------------------------------------------------------------
(* A step of one tab.  Any page agrees with a new session, which has       *)
(* nothing to act on; so what a page needs is that the session it was read *)
(* from is still there, or no session is.                                  *)

LEMMA AgreesNew == \A p : Agrees(p, NewSession)
BY DEF Agrees, NewSession, ChatChosen, ThreadChosen

LEMMA SessionStep ==
  ASSUME IInv, StoreInv', NEW t \in Tabs, GoodFetch(fetch'),
         NEW r, GoodRequest(r), request' = [request EXCEPT ![t] = r],
         NEW p, GoodPage(p), page' = [page EXCEPT ![t] = p],
         alone' \in [Tabs -> BOOLEAN],
         alone'[t] => Agrees(p, Session') /\ Follows(r, Session'),
         \A u \in Tabs \ {t} : alone'[u] => alone[u] /\ Session' \in {Session, NewSession}
  PROVE  IInv'
<1>1. r \in RequestType /\ p \in PageType
  BY DEF GoodRequest, GoodPage
<1>2. /\ request'[t] = r /\ page'[t] = p
      /\ \A u \in Tabs \ {t} : request'[u] = request[u] /\ page'[u] = page[u]
  BY DEF IInv, TabsInv
<1>3. TabsInv'
  <2>1. page' \in [Tabs -> PageType] /\ request' \in [Tabs -> RequestType]
    BY <1>1 DEF IInv, TabsInv
  <2>2. ASSUME NEW u \in Tabs PROVE GoodPage(page'[u]) /\ GoodRequest(request'[u])
    BY <1>2 DEF IInv, TabsInv
  <2> QED BY <2>1, <2>2 DEF TabsInv
<1>4. AloneInv'
  <2> SUFFICES ASSUME NEW u \in Tabs, alone'[u]
               PROVE  Agrees(page'[u], Session') /\ Follows(request'[u], Session')
    BY DEF AloneInv
  <2>1. CASE u = t
    BY <1>2, <2>1
  <2>2. CASE u # t
    <3>1. /\ Agrees(page[u], Session) /\ Follows(request[u], Session)
          /\ Session' \in {Session, NewSession}
      BY <2>2 DEF IInv, AloneInv
    <3>2. Agrees(page[u], Session') /\ Follows(request[u], Session')
      BY <3>1, AgreesNew DEF Follows
    <3> QED BY <1>2, <2>2, <3>2
  <2> QED BY <2>1, <2>2
<1> QED BY <1>3, <1>4 DEF IInv

(* A step that leaves the saved session alone.                             *)
LEMMA TabStep ==
  ASSUME IInv, NEW t \in Tabs, UNCHANGED <<store, cookie, ended>>, GoodFetch(fetch'),
         NEW r, GoodRequest(r), request' = [request EXCEPT ![t] = r],
         NEW p, GoodPage(p), page' = [page EXCEPT ![t] = p],
         NEW b \in BOOLEAN, alone' = [alone EXCEPT ![t] = b],
         b => Agrees(p, Session) /\ Follows(r, Session)
  PROVE  IInv'
<1>1. Session' = Session
  BY DEF Session, Key
<1>2. StoreInv'
  BY DEF IInv, StoreInv
<1>3. /\ alone' \in [Tabs -> BOOLEAN] /\ alone'[t] = b
      /\ \A u \in Tabs \ {t} : alone'[u] = alone[u]
  BY DEF IInv, TabsInv
<1> QED BY <1>1, <1>2, <1>3, SessionStep

(* Other steps of the tab: it stays without a request, its request goes    *)
(* on, a request begins, a request ends.                                   *)
LEMMA Unchanged ==
  ASSUME IInv, NEW t \in Tabs
  PROVE  /\ request = [request EXCEPT ![t] = request[t]]
         /\ page = [page EXCEPT ![t] = page[t]]
         /\ alone = [alone EXCEPT ![t] = alone[t]]
         /\ GoodRequest(request[t]) /\ GoodPage(page[t]) /\ alone[t] \in BOOLEAN
         /\ alone[t] => Agrees(page[t], Session) /\ Follows(request[t], Session)
         /\ GoodFetch(fetch)
BY DEF IInv, TabsInv, AloneInv

LEMMA Shows ==
  ASSUME IInv, NEW t \in Tabs, request[t].view = "idle",
         UNCHANGED <<store, cookie, ended, request>>, GoodFetch(fetch'),
         NEW p, GoodPage(p), Show(t, p),
         NEW b \in BOOLEAN, alone' = [alone EXCEPT ![t] = b], b => Agrees(p, Session)
  PROVE  IInv'
<1>1. GoodRequest(request[t]) /\ request' = [request EXCEPT ![t] = request[t]]
  BY Unchanged
<1>2. Follows(request[t], Session)
  BY DEF Follows, Calling, Saving, Listing
<1> QED BY <1>1, <1>2, TabStep DEF Show

LEMMA Continues ==
  ASSUME IInv, NEW t \in Tabs, UNCHANGED <<store, cookie, ended, fetch, page, alone>>,
         NEW r, GoodRequest(r), Continue(t, r), alone[t] => Follows(r, Session)
  PROVE  IInv'
<1>1. /\ GoodPage(page[t]) /\ page' = [page EXCEPT ![t] = page[t]]
      /\ alone[t] \in BOOLEAN /\ alone' = [alone EXCEPT ![t] = alone[t]]
      /\ GoodFetch(fetch') /\ (alone[t] => Agrees(page[t], Session))
  BY Unchanged
<1> QED BY <1>1, TabStep DEF Continue

LEMMA Begins ==
  ASSUME IInv, NEW t \in Tabs, UNCHANGED <<store, cookie, ended, fetch>>,
         NEW r, GoodRequest(r), Begin(t, r),
         NEW b \in BOOLEAN, alone' = [alone EXCEPT ![t] = b], b => Follows(r, Session)
  PROVE  IInv'
<1>1. GoodFetch(fetch')
  BY Unchanged
<1> QED BY <1>1, TabStep, BlankPage DEF Begin, Continue, Show

LEMMA Ends ==
  ASSUME IInv, NEW t \in Tabs, UNCHANGED <<store, cookie, ended, fetch>>,
         NEW p, GoodPage(p), End(t, p),
         NEW b \in BOOLEAN, alone' = [alone EXCEPT ![t] = b], b => Agrees(p, Session)
  PROVE  IInv'
<1>1. GoodFetch(fetch')
  BY Unchanged
<1> QED BY <1>1, TabStep, IdleRequest DEF End, Continue, Show

LEMMA Crashes ==
  ASSUME IInv, NEW t \in Tabs, UNCHANGED <<store, cookie, ended, fetch>>, Crash(t),
         NEW b \in BOOLEAN, alone' = [alone EXCEPT ![t] = b]
  PROVE  IInv'
BY Ends, BlankPage DEF Crash

-----------------------------------------------------------------------------
(* What a view does to its copy of the session.                            *)

LEMMA Edits ==
  ASSUME NEW s, GoodSession(s)
  PROVE  /\ \A l \in {"none", "token"} \cup Users :
              GoodSession([s EXCEPT !.login = l]) /\ [s EXCEPT !.login = l].login = l
         /\ \A c \in Chats :
              GoodSession([s EXCEPT !.chat = c]) /\ [s EXCEPT !.chat = c].login = s.login
         /\ \A l \in ChannelLists :
              GoodSession([s EXCEPT !.lists = l]) /\ [s EXCEPT !.lists = l].login = s.login
         /\ \A m \in ThreadMaps \cup {None} : [s EXCEPT !.hilos = m] \in SessionType
BY Nones DEF GoodSession, SessionType, InOrder, ThreadMaps

(* Requests made from Idle.                                                *)
LEMMA LoginRequest ==
  ASSUME NEW view \in {"login", "signup"}, NEW key \in Keys \cup {None},
         NEW s, GoodSession(s), NEW r,
         r = [Idle EXCEPT !.view = view, !.key = key, !.s = s]
  PROVE  GoodRequest(r) /\ \A x : Follows(r, x)
<1>1. /\ r \in RequestType /\ r.view = view /\ r.s = s /\ r.then = Blank
  BY BlankPage DEF Idle, RequestType, Views, GoodPage, GoodSession
<1> QED BY <1>1, BlankPage DEF GoodRequest, Follows, GoodSession, Saving, Calling, Listing

LEMMA SavingRequest ==
  ASSUME NEW key \in Keys \cup {None}, NEW s, GoodSession(s), s.login \in Users,
         NEW p, GoodPage(p), NEW r,
         \/ r = [Idle EXCEPT !.view = "saving", !.key = key, !.s = s, !.then = p]
         \/ p = Blank /\ r = [Idle EXCEPT !.view = "saving", !.key = key, !.s = s]
  PROVE  GoodRequest(r) /\ \A x : Agrees(p, s) => Follows(r, x)
<1>1. /\ r \in RequestType /\ r.view = "saving" /\ r.s = s /\ r.then = p
  BY DEF Idle, RequestType, Views, Saving, GoodPage, GoodSession
<1> QED BY <1>1 DEF GoodRequest, Follows, GoodSession, Saving, Calling, Listing

LEMMA CallingRequest ==
  ASSUME NEW view \in Calling, NEW target \in Channels \cup Threads \cup {None},
         NEW shown \in Channels \cup Threads \cup {None}, NEW p, GoodPage(p),
         NEW b \in BOOLEAN, b /\ shown # None => target = shown, NEW r,
         r = [Idle EXCEPT !.view = view, !.target = target, !.shown = shown,
                          !.then = p, !.alone = b]
  PROVE  GoodRequest(r) /\ \A x : Agrees(p, x) => Follows(r, x)
<1>1. /\ r \in RequestType /\ r.view = view /\ r.s = NewSession /\ r.then = p
      /\ r.target = target /\ r.shown = shown /\ r.alone = b
  BY NewSessionGood DEF Idle, RequestType, Views, GoodPage, GoodSession
<1> QED BY <1>1, NewSessionGood
        DEF GoodRequest, Follows, GoodSession, Saving, Calling, Listing

-----------------------------------------------------------------------------
(* home, create_user, log_out, main                                        *)

LEMMA StepHome ==
  ASSUME IInv, NEW t \in Tabs, Home(t) \/ Main(t)
  PROVE  IInv'
<1>1. PICK at \in {"home", "main"} :
        /\ request[t].view = "idle" /\ Show(t, Page(at))
        /\ alone' = [alone EXCEPT ![t] = FALSE]
        /\ UNCHANGED <<store, cookie, ended, request, fetch>>
  BY DEF Home, Main, Open
<1>2. GoodPage(Page(at))
  BY PlainPage DEF Plain
<1>3. GoodFetch(fetch')
  BY <1>1, Unchanged
<1> QED BY <1>1, <1>2, <1>3, Shows

LEMMA StepLogIn ==
  ASSUME IInv, NEW t \in Tabs, Login(t) \/ SignUp(t)
  PROVE  IInv'
<1>1. PICK view \in {"login", "signup"} : LogIn(t, view)
  BY DEF Login, SignUp
<1> DEFINE s == [Session EXCEPT !.login = "token"]
           r == [Idle EXCEPT !.view = view, !.key = Key, !.s = s]
<1>2. GoodSession(s) /\ Key \in Keys \cup {None}
  BY SessionGood, Edits
<1>3. GoodRequest(r) /\ Follows(r, Session)
  BY <1>2, LoginRequest
<1>4. Begin(t, r) /\ UNCHANGED <<store, cookie, ended, fetch, alone>>
  BY <1>1 DEF LogIn
<1> HIDE DEF r
<1> QED BY <1>3, <1>4, Unchanged, Begins

(* obtener_usuario, registrar_presencia.                                   *)
LEMMA StepLoginUser ==
  ASSUME IInv, NEW t \in Tabs, LoginUser(t) \/ Presence(t)
  PROVE  IInv'
<1> DEFINE r == request[t]
<1>1. /\ r.view \in {"login", "signup", "presence"}
      /\ UNCHANGED <<store, cookie, ended, fetch, alone>>
      /\ \/ Crash(t)
         \/ /\ UNCHANGED page
            /\ \E n \in {"presence", "saving"}, w \in Users :
                 \/ Continue(t, [r EXCEPT !.s.login = w, !.view = n])
                 \/ r.view = "presence" /\ Continue(t, [r EXCEPT !.view = n])
  <2>1. CASE LoginUser(t)
    BY <2>1 DEF LoginUser
  <2>2. CASE Presence(t)
    BY <2>2 DEF Presence, Users
  <2> QED BY <2>1, <2>2
<1>2. CASE Crash(t)
  BY <1>1, <1>2, Unchanged, Crashes
<1>3. ASSUME NEW n \in {"presence", "saving"}, NEW w \in Users, NEW q,
             Continue(t, q), UNCHANGED page,
             \/ q = [r EXCEPT !.s.login = w, !.view = n]
             \/ r.view = "presence" /\ q = [r EXCEPT !.view = n]
      PROVE  IInv'
  <2>1. /\ r \in RequestType /\ r.then = Blank /\ GoodSession(r.s)
        /\ r.view = "presence" => r.s.login \in Users
    BY <1>1, Unchanged DEF GoodRequest, GoodSession, Listing, RequestType
  <2>2. GoodSession([r.s EXCEPT !.login = w]) /\ [r.s EXCEPT !.login = w].login = w
    BY <2>1, Edits
  <2>3. /\ q.view = n /\ q.then = r.then
        /\ q.s = [r.s EXCEPT !.login = w] \/ (q.s = r.s /\ r.view = "presence")
    BY <1>3, <2>1 DEF RequestType
  <2>4. GoodSession(q.s) /\ q.s.login \in Users
    BY <2>1, <2>2, <2>3
  <2>5. q \in RequestType
    BY <1>3, <2>1, <2>2 DEF RequestType, Views, Saving, GoodSession
  <2>6. GoodRequest(q)
    BY <2>1, <2>3, <2>4, <2>5, BlankPage
       DEF GoodRequest, GoodSession, Saving, Calling, Listing
  <2>7. Follows(q, Session)
    BY <2>1, <2>3, BlankPage DEF Follows, Calling
  <2> QED BY <1>1, <1>3, <2>6, <2>7, Continues
<1> QED BY <1>1, <1>2, <1>3

LEMMA StepMainPage ==
  ASSUME IInv, NEW t \in Tabs, LogOut(t) \/ FetchLists(t) \/ ChooseChat(t)
  PROVE  IInv'
<1>1. CASE LogOut(t)
  <2> DEFINE r == [Idle EXCEPT !.view = "log_out", !.key = Key]
  <2>1. /\ Crash(t) \/ (Session.login # "none" /\ Begin(t, r))
        /\ UNCHANGED <<store, cookie, ended, fetch, alone>>
    BY <1>1 DEF LogOut
  <2>2. ASSUME Session.login # "none" PROVE GoodRequest(r) /\ Follows(r, Session)
    <3>1. Key \in Keys
      BY <2>2, SessionGood
    <3>2. r \in RequestType /\ r.view = "log_out" /\ r.key = Key /\ r.then = Blank /\ r.s = NewSession
      BY <3>1, IdleRequest DEF Idle, RequestType, Views, GoodRequest
    <3> QED BY <3>1, <3>2, BlankPage, NewSessionGood
            DEF GoodRequest, Follows, GoodSession, Saving, Calling, Listing
  <2> HIDE DEF r
  <2> QED BY <2>1, <2>2, Unchanged, Crashes, Begins
<1>2. CASE FetchLists(t)
  <2>1. /\ Inside /\ request[t].view = "idle" /\ Show(t, Page("waiting"))
        /\ fetch' = [tab |-> t, key |-> Key, s |-> Session]
        /\ UNCHANGED <<store, cookie, ended, request, alone>>
    BY <1>2 DEF FetchLists, Form, Open
  <2>2. GoodFetch(fetch')
    BY <2>1, SessionGood DEF GoodFetch, GoodSession
  <2>3. GoodPage(Page("waiting")) /\ Agrees(Page("waiting"), Session)
    BY PlainPage DEF Plain
  <2> QED BY <2>1, <2>2, <2>3, Unchanged, Shows
<1>3. CASE ChooseChat(t)
  <2>1. PICK c \in DOMAIN page[t].map :
          Begin(t, [Idle EXCEPT !.view = "saving", !.key = Key,
                                !.s = [Session EXCEPT !.chat = c]])
    BY <1>3 DEF ChooseChat
  <2> DEFINE s == [Session EXCEPT !.chat = c]
             r == [Idle EXCEPT !.view = "saving", !.key = Key, !.s = s]
  <2>2. Begin(t, r)
    BY <2>1
  <2>3. c \in Chats
    <3>1. page[t].at = "listed" /\ GoodPage(page[t])
      BY <1>3, Unchanged DEF ChooseChat, Form
    <3> QED BY <3>1, ChatMapsDomain DEF GoodPage
  <2>4. GoodSession(s) /\ s.login \in Users /\ Key \in Keys \cup {None}
    BY <1>3, <2>3, SessionGood, Edits DEF ChooseChat, Form, Open, Users
  <2>5. GoodRequest(r) /\ Follows(r, Session)
    BY <2>4, SavingRequest, BlankPage
  <2>6. UNCHANGED <<store, cookie, ended, fetch, alone>>
    BY <1>3 DEF ChooseChat
  <2> HIDE DEF r
  <2> QED BY <2>2, <2>5, <2>6, Unchanged, Begins
<1> QED BY <1>1, <1>2, <1>3

-----------------------------------------------------------------------------
(* The middleware: what is saved, and what is flushed.                     *)

LEMMA SavedStore ==
  ASSUME IInv, NEW key \in Keys \cup {None}, NEW s, GoodSession(s), s.login \in Users,
         Saved(key, s), ended' = ended
  PROVE  StoreInv' /\ Session' \in {s, NewSession}
<1>1. PICK k \in IF key = None THEN Fresh ELSE {key} :
        /\ key # None => store[k] # None
        /\ store' = [store EXCEPT ![k] = s] /\ cookie' = k
  BY DEF Saved
<1>2. k \in Keys /\ k \notin ended /\ k # None
  BY <1>1, Nones DEF Fresh, IInv, StoreInv
<1>3. /\ store'[k] = s /\ \A j \in Keys \ {k} : store'[j] = store[j]
      /\ store' \in [Keys -> SessionType \cup {None}]
  BY <1>1, <1>2 DEF IInv, StoreInv, GoodSession
<1>4. StoreInv'
  BY <1>1, <1>2, <1>3 DEF IInv, StoreInv
<1> QED BY <1>1, <1>2, <1>3, <1>4 DEF Session, Key

LEMMA StepSave ==
  ASSUME IInv, NEW t \in Tabs, Save(t)
  PROVE  IInv'
<1> DEFINE r == request[t]
<1>1. /\ r.view = "saving" /\ GoodRequest(r) /\ GoodFetch(fetch)
      /\ UNCHANGED <<ended, fetch>>
  BY Unchanged DEF Save
<1>2. /\ r.key \in Keys \cup {None} /\ GoodSession(r.s) /\ r.s.login \in Users
      /\ GoodPage(r.then)
  BY <1>1 DEF GoodRequest, RequestType, GoodSession, Saving, Listing
<1>3. CASE Saved(r.key, r.s) /\ End(t, r.then) /\ alone' = Overtaken(t)
  <2>1. StoreInv' /\ Session' \in {r.s, NewSession}
    BY <1>1, <1>2, <1>3, SavedStore
  <2>2. /\ alone' \in [Tabs -> BOOLEAN] /\ alone'[t] = alone[t]
        /\ \A u \in Tabs \ {t} : ~alone'[u]
    BY <1>3 DEF Overtaken, IInv, TabsInv
  <2>3. alone[t] => Agrees(r.then, r.s)
    BY <1>1, Unchanged DEF Follows, Saving
  <2>4. alone'[t] => Agrees(r.then, Session') /\ Follows(Idle, Session')
    BY <2>1, <2>2, <2>3, AgreesNew, IdleRequest
  <2>5. /\ request' = [request EXCEPT ![t] = Idle] /\ page' = [page EXCEPT ![t] = r.then]
    BY <1>3 DEF End, Continue, Show
  <2> QED BY <1>1, <1>2, <2>1, <2>2, <2>4, <2>5, IdleRequest, SessionStep
<1>4. CASE End(t, Blank) /\ UNCHANGED <<store, cookie, alone>>
  BY <1>1, <1>4, Unchanged, Crashes DEF Crash
<1> QED BY <1>3, <1>4 DEF Save

LEMMA StepFlush ==
  ASSUME IInv, NEW t \in Tabs, Flush(t)
  PROVE  IInv'
<1> DEFINE k == request[t].key
           r == [request[t] EXCEPT !.view = "leaving"]
<1>1. /\ request[t].view = "log_out" /\ store' = [store EXCEPT ![k] = None]
      /\ ended' = ended \cup {k} /\ alone' = Overtaken(t) /\ Continue(t, r)
      /\ UNCHANGED <<cookie, page, fetch>>
  BY DEF Flush
<1>2. GoodRequest(request[t]) /\ k \in Keys
  BY <1>1, Unchanged DEF GoodRequest
<1>3. GoodRequest(r) /\ Follows(r, Session')
  <2>1. /\ r \in RequestType /\ r.view = "leaving" /\ r.s = request[t].s
        /\ r.then = request[t].then
    BY <1>2 DEF GoodRequest, RequestType, Views
  <2> QED BY <1>1, <1>2, <2>1 DEF GoodRequest, Follows, Saving, Calling, Listing
<1>4. StoreInv'
  BY <1>1, <1>2 DEF IInv, StoreInv
<1>5. Session' \in {Session, NewSession}
  BY <1>1, <1>2 DEF Session, Key, IInv, StoreInv
<1>6. /\ alone' \in [Tabs -> BOOLEAN] /\ alone'[t] = alone[t]
      /\ \A u \in Tabs \ {t} : ~alone'[u]
  BY <1>1 DEF Overtaken, IInv, TabsInv
<1>7. alone'[t] => Agrees(page[t], Session')
  BY <1>5, <1>6, Unchanged, AgreesNew
<1>8. /\ page' = [page EXCEPT ![t] = page[t]] /\ GoodPage(page[t]) /\ GoodFetch(fetch')
      /\ request' = [request EXCEPT ![t] = r]
  BY <1>1, Unchanged DEF Continue
<1> HIDE DEF r
<1> QED BY <1>3, <1>4, <1>6, <1>7, <1>8, SessionStep

(* The browser loses its cookie, or a dead one.                            *)
LEMMA StepCookie ==
  ASSUME IInv, NEW t \in Tabs, Leave(t) \/ Outside(t)
  PROVE  IInv'
<1>1. /\ cookie' = None \/ cookie' = Key
      /\ UNCHANGED <<store, ended, fetch, alone>>
      /\ Show(t, Page("home"))
      /\ request' = [request EXCEPT ![t] = Idle] \/ (request' = request /\ request[t].view = "idle")
  BY DEF Leave, Outside, End, Continue
<1>2. Session' \in {Session, NewSession}
  BY <1>1 DEF Session, Key
<1>3. StoreInv'
  BY <1>1, SessionGood DEF IInv, StoreInv
<1>4. PICK r : /\ GoodRequest(r) /\ request' = [request EXCEPT ![t] = r]
               /\ Follows(r, Session')
  <2>1. request[t].view = "idle" => Follows(request[t], Session')
    BY DEF Follows, Calling, Saving, Listing
  <2> QED BY <1>1, <2>1, Unchanged, IdleRequest
<1>5. GoodPage(Page("home")) /\ Agrees(Page("home"), Session')
  BY PlainPage DEF Plain
<1>6. page' = [page EXCEPT ![t] = Page("home")] /\ GoodFetch(fetch')
  BY <1>1, Unchanged DEF Show
<1>7. alone' \in [Tabs -> BOOLEAN] /\ alone' = alone
  BY <1>1 DEF IInv, TabsInv
<1> QED BY <1>2, <1>3, <1>4, <1>5, <1>6, <1>7, SessionStep

-----------------------------------------------------------------------------
(* The lists of channels arrive.                                           *)

LEMMA ListedPage ==
  ASSUME NEW m \in ChatMaps, NEW at \in {"listed", "mod_chat"}
  PROVE  /\ GoodPage([Page(at) EXCEPT !.map = m])
         /\ [Page(at) EXCEPT !.map = m].at = at
         /\ [Page(at) EXCEPT !.map = m].map = m
         /\ [Page(at) EXCEPT !.map = m].channel = None
BY DEF Page, GoodPage, PageType, Places

LEMMA StepListsArrive ==
  ASSUME IInv, ListsArrive
  PROVE  IInv'
<1> DEFINE t == fetch.tab
<1>1. /\ t \in Tabs /\ fetch.key \in Keys /\ GoodSession(fetch.s) /\ fetch.s.login = "whole"
      /\ fetch' = Silent /\ UNCHANGED <<ended, request>> /\ GoodFetch(fetch')
  BY SilentFetch DEF ListsArrive, IInv, GoodFetch, GoodSession
<1>2. /\ GoodRequest(request[t]) /\ request' = [request EXCEPT ![t] = request[t]]
      /\ GoodPage(page[t]) /\ page = [page EXCEPT ![t] = page[t]]
  BY <1>1, Unchanged
<1>3. CASE UNCHANGED <<store, cookie, page, alone>>
  BY <1>1, <1>2, <1>3, Unchanged, TabStep
<1>4. ASSUME NEW l \in ChannelLists, Saved(fetch.key, [fetch.s EXCEPT !.lists = l]),
             page' = page \/ Show(t, [Page("listed") EXCEPT !.map = Listed(l)]),
             alone' = [u \in Tabs |-> FALSE]
      PROVE  IInv'
  <2> DEFINE s == [fetch.s EXCEPT !.lists = l]
  <2>1. GoodSession(s) /\ s.login \in Users
    BY <1>1, Edits DEF Users
  <2>2. StoreInv'
    BY <1>1, <1>4, <2>1, SavedStore
  <2>3. PICK p : GoodPage(p) /\ page' = [page EXCEPT ![t] = p]
    BY <1>2, <1>4, Answers, ListedPage DEF Show
  <2>4. alone' \in [Tabs -> BOOLEAN] /\ \A u \in Tabs : ~alone'[u]
    BY <1>4
  <2> QED BY <1>1, <1>2, <2>2, <2>3, <2>4, SessionStep
<1> QED BY <1>3, <1>4 DEF ListsArrive, GetChats

-----------------------------------------------------------------------------
(* hilos                                                                   *)

LEMMA ChosenHere ==
  /\ HasChat <=> ChatChosen(Session)
  /\ HasThread <=> ThreadChosen(Session)
  /\ Thread = ThreadOf(Session)
BY DEF HasChat, ChatChosen, HasThread, ThreadChosen, Thread, ThreadOf

(* A view that lists the threads anew: its copy of the session keeps the   *)
(* channel.                                                                *)
LEMMA ListingRequest ==
  ASSUME IInv, Inside, HasChat, NEW view \in Listing,
         NEW p, GoodPage(p), p.at = "blank",
         NEW shown \in Channels \cup Titles \cup {None},
         view = "choose" => shown \in Titles \cup {None},
         NEW b \in BOOLEAN,
         view = "member" => p = Blank,
         view = "member" /\ b /\ shown # None => Channel(Session) = shown,
         NEW r, r \in RequestType, r.view = view, r.key = Key,
         r.s = [Session EXCEPT !.hilos = None], r.then = p, r.shown = shown, r.alone = b
  PROVE  GoodRequest(r) /\ (Agrees(p, Session) => Follows(r, Session))
<1>1. /\ GoodSession(Session) /\ Session.login = "whole" /\ ChatChosen(Session)
  BY SessionGood, ChosenHere
<1>2. /\ r.s.login \in Users /\ ChatChosen(r.s) /\ Channel(r.s) = Channel(Session)
  BY <1>1 DEF GoodSession, SessionType, ChatChosen, Channel
<1>3. GoodRequest(r)
  BY <1>2 DEF GoodRequest, Listing, Saving, Calling
<1>4. Agrees(p, Session) => Agrees(p, r.s)
  BY <1>1, <1>2 DEF Agrees
<1> QED BY <1>3, <1>4 DEF Follows, Listing, Saving, Calling

LEMMA StepHilos ==
  ASSUME IInv, NEW t \in Tabs, Hilos(t)
  PROVE  IInv'
<1> DEFINE q == [Idle EXCEPT !.view = "hilos"]
           r == [q EXCEPT !.key = Key, !.s = [Session EXCEPT !.hilos = None]]
<1>1. /\ Inside /\ UNCHANGED <<store, cookie, ended, fetch>>
      /\ alone' = [alone EXCEPT ![t] = TRUE]
      /\ Crash(t) \/ (HasChat /\ Begin(t, r))
  BY DEF Hilos, OpenHilos, Open
<1>2. ASSUME HasChat PROVE GoodRequest(r) /\ Follows(r, Session)
  <2>1. /\ Key \in Keys \cup {None} /\ GoodSession(Session)
        /\ [Session EXCEPT !.hilos = None] \in SessionType
    BY SessionGood, Edits
  <2>2. /\ r \in RequestType /\ r.view = "hilos" /\ r.key = Key
        /\ r.s = [Session EXCEPT !.hilos = None] /\ r.then = Blank
        /\ r.shown = None /\ r.alone = FALSE
    BY <2>1, BlankPage DEF Idle, RequestType, Views, Saving, Listing, GoodPage
  <2> HIDE DEF r
  <2>3. "hilos" \in Listing
    BY DEF Listing
  <2> QED BY <1>1, <1>2, <2>2, <2>3, BlankPage, ListingRequest
<1> HIDE DEF r
<1> QED BY <1>1, <1>2, Crashes, Begins

LEMMA StepHilosForm ==
  ASSUME IInv, NEW t \in Tabs, ChooseHilo(t) \/ Participants(t)
  PROVE  IInv'
<1>1. PICK q :
        /\ OpenHilos(t, q)
        /\ \/ \E h \in DOMAIN page[t].map : q = [Idle EXCEPT !.view = "choose", !.shown = h]
           \/ q = [Idle EXCEPT !.view = "choose", !.then.channel = page[t].channel]
           \/ q = [Idle EXCEPT !.view = "member", !.shown = page[t].channel, !.alone = alone[t]]
  BY DEF ChooseHilo, Participants
<1> DEFINE r == [q EXCEPT !.key = Key, !.s = [Session EXCEPT !.hilos = None]]
<1>2. /\ Inside /\ page[t].at = "hilos" /\ UNCHANGED <<store, cookie, ended, fetch, alone>>
      /\ Crash(t) \/ (HasChat /\ Begin(t, r))
  BY <1>1 DEF ChooseHilo, Participants, OpenHilos, Form, Open
<1>3. /\ GoodPage(page[t]) /\ page[t].channel \in Channels \cup {None} /\ alone[t] \in BOOLEAN
      /\ DOMAIN page[t].map \subseteq Titles
      /\ alone[t] => Agrees(page[t], Session)
  BY <1>2, Unchanged, ThreadMapsDomain DEF GoodPage, PageType
<1>4. /\ Key \in Keys \cup {None} /\ GoodSession(Session)
      /\ [Session EXCEPT !.hilos = None] \in SessionType
  BY SessionGood, Edits
<1>5. "choose" \in Listing /\ "member" \in Listing
  BY DEF Listing
<1>6. ASSUME HasChat PROVE GoodRequest(r) /\ (alone[t] => Follows(r, Session))
  <2>1. CASE \E h \in DOMAIN page[t].map : q = [Idle EXCEPT !.view = "choose", !.shown = h]
    <3>1. PICK h \in Titles : q = [Idle EXCEPT !.view = "choose", !.shown = h]
      BY <2>1, <1>3
    <3>2. /\ r \in RequestType /\ r.view = "choose" /\ r.key = Key
          /\ r.s = [Session EXCEPT !.hilos = None] /\ r.then = Blank
          /\ r.shown = h /\ r.alone = FALSE
      BY <3>1, <1>4, BlankPage DEF Idle, RequestType, Views, Saving, Listing, GoodPage
    <3> HIDE DEF r
    <3> QED BY <1>2, <1>5, <1>6, <3>2, BlankPage, ListingRequest
  <2>2. CASE q = [Idle EXCEPT !.view = "choose", !.then.channel = page[t].channel]
    <3> DEFINE p == [Blank EXCEPT !.channel = page[t].channel]
    <3>1. GoodPage(p) /\ p.at = "blank" /\ p.channel = page[t].channel
      BY <1>3 DEF Blank, Page, GoodPage, PageType, Places
    <3>2. alone[t] => Agrees(p, Session)
      BY <1>3, <3>1 DEF Agrees
    <3>3. /\ r \in RequestType /\ r.view = "choose" /\ r.key = Key
          /\ r.s = [Session EXCEPT !.hilos = None] /\ r.then = p
          /\ r.shown = None /\ r.alone = FALSE
      BY <2>2, <3>1, <1>4 DEF Idle, RequestType, Views, Saving, Listing, GoodPage
    <3> HIDE DEF r, p
    <3> QED BY <1>2, <1>5, <1>6, <3>1, <3>2, <3>3, ListingRequest
  <2>3. CASE q = [Idle EXCEPT !.view = "member", !.shown = page[t].channel, !.alone = alone[t]]
    <3>1. /\ r \in RequestType /\ r.view = "member" /\ r.key = Key
          /\ r.s = [Session EXCEPT !.hilos = None] /\ r.then = Blank
          /\ r.shown = page[t].channel /\ r.alone = alone[t]
      BY <2>3, <1>3, <1>4, BlankPage DEF Idle, RequestType, Views, Saving, Listing, GoodPage
    <3>2. alone[t] /\ page[t].channel # None => Channel(Session) = page[t].channel
      BY <1>3, <1>6, ChosenHere DEF Agrees
    <3> HIDE DEF r
    <3> QED BY <1>2, <1>3, <1>5, <1>6, <3>1, <3>2, BlankPage, ListingRequest
  <2> QED BY <1>1, <2>1, <2>2, <2>3
<1> HIDE DEF r
<1> QED BY <1>2, <1>3, <1>6, Unchanged, Crashes, Begins

(* The page of the threads of a session shows its channel.                 *)
LEMMA ListPage ==
  ASSUME NEW s \in SessionType, ChatChosen(s), s.hilos # None
  PROVE  GoodPage(HilosPage(s)) /\ Agrees(HilosPage(s), s)
<1>1. /\ Channel(s) \in Channels /\ s.hilos \in ThreadMaps
  BY Chosen
<1>2. /\ HilosPage(s).at = "hilos" /\ HilosPage(s).channel = Channel(s)
      /\ HilosPage(s).map = s.hilos
  BY DEF HilosPage, Page
<1>3. (s.chat \in DOMAIN s.lists.mios) \in BOOLEAN
  OBVIOUS
<1>4. HilosPage(s) \in PageType
  BY <1>1, <1>3 DEF HilosPage, Page, PageType, Places
<1> QED BY <1>1, <1>2, <1>4 DEF GoodPage, Agrees

(* The threads arrive: the session is in order again.                      *)
LEMMA StepThreadsArrive ==
  ASSUME IInv, NEW t \in Tabs, ThreadsArrive(t)
  PROVE  IInv'
<1> DEFINE r == request[t]
<1>1. /\ r.view \in Listing /\ GoodRequest(r)
      /\ UNCHANGED <<store, cookie, ended, fetch, alone>>
  BY Unchanged DEF ThreadsArrive, Listing
<1>2. /\ r \in RequestType /\ r.s \in SessionType /\ r.s.login \in Users /\ ChatChosen(r.s)
      /\ GoodPage(r.then) /\ r.key \in Keys \cup {None}
  BY <1>1 DEF GoodRequest, RequestType, Saving
<1>3. CASE Crash(t)
  BY <1>1, <1>3, Unchanged, Crashes
<1> SUFFICES ASSUME ~Crash(t) PROVE IInv'
  BY <1>3
<1>4. UNCHANGED page
  BY DEF ThreadsArrive
<1>5. PICK m \in GetHilosAPI(Channel(r.s)) :
        LET s == [r.s EXCEPT !.hilos = m] IN
        \/ r.view = "hilos" /\ Continue(t, [Idle EXCEPT !.view = "saving", !.key = r.key,
                                                         !.s = s, !.then = HilosPage(s)])
        \/ r.view = "choose" /\ Continue(t, [Idle EXCEPT !.view = "saving", !.key = r.key,
                                                 !.s = [s EXCEPT !.hilo = r.shown],
                                                 !.then = r.then])
        \/ r.view = "member" /\ Continue(t, [r EXCEPT !.view = "adding", !.s = s])
  BY DEF ThreadsArrive
<1> DEFINE s == [r.s EXCEPT !.hilos = m]
<1>6. m \in ThreadMaps /\ m # None
  BY <1>2, Answers, Chosen, Nones
<1>7. /\ GoodSession(s) /\ s.login \in Users /\ s.hilos = m
      /\ ChatChosen(s) /\ Channel(s) = Channel(r.s)
  BY <1>2, <1>6 DEF GoodSession, SessionType, InOrder, ThreadMaps, ChatChosen, Channel
<1>8. alone[t] => Agrees(r.then, r.s)
  BY <1>1, Unchanged DEF Follows, Saving
<1>9. CASE r.view = "hilos"
  <2> DEFINE p == HilosPage(s)
             q == [Idle EXCEPT !.view = "saving", !.key = r.key, !.s = s, !.then = p]
  <2>1. GoodPage(p) /\ Agrees(p, s)
    BY <1>6, <1>7, ListPage DEF GoodSession
  <2>2. Continue(t, q)
    BY <1>5, <1>9
  <2> HIDE DEF p, s
  <2>3. GoodRequest(q) /\ Follows(q, Session)
    BY <1>2, <1>7, <2>1, SavingRequest
  <2> HIDE DEF q
  <2> QED BY <1>1, <1>4, <2>2, <2>3, Continues
<1>10. CASE r.view = "choose"
  <2> DEFINE n == [s EXCEPT !.hilo = r.shown]
             q == [Idle EXCEPT !.view = "saving", !.key = r.key, !.s = n, !.then = r.then]
  <2>1. Continue(t, q)
    BY <1>5, <1>10
  <2>2. r.shown \in Titles \cup {None} /\ r.then.at = "blank"
    BY <1>1, <1>10 DEF GoodRequest
  <2>3. GoodSession(n) /\ n.login \in Users /\ n.lists = r.s.lists /\ n.chat = r.s.chat
    BY <1>2, <1>6, <1>7, <2>2 DEF GoodSession, SessionType, InOrder
  <2>4. Agrees(r.then, r.s) => Agrees(r.then, n)
    BY <2>2, <2>3 DEF Agrees, ChatChosen, Channel
  <2> HIDE DEF n
  <2>5. GoodRequest(q) /\ (Agrees(r.then, n) => Follows(q, Session))
    BY <1>2, <2>3, SavingRequest
  <2> HIDE DEF q
  <2> QED BY <1>1, <1>8, <1>4, <2>1, <2>4, <2>5, Continues
<1>11. CASE r.view = "member"
  <2> DEFINE q == [r EXCEPT !.view = "adding", !.s = s]
  <2>1. Continue(t, q)
    BY <1>5, <1>11
  <2>2. /\ q \in RequestType /\ q.view = "adding" /\ q.s = s /\ q.then = r.then
        /\ q.shown = r.shown /\ q.alone = r.alone
    BY <1>2, <1>7 DEF RequestType, Views, Saving, GoodSession
  <2>3. r.shown # None /\ r.alone => Channel(r.s) = r.shown
    BY <1>1, <1>11 DEF GoodRequest
  <2> HIDE DEF q, s
  <2>4. GoodRequest(q)
    BY <1>2, <1>6, <1>7, <2>2, <2>3 DEF GoodRequest, GoodSession, Saving, Listing, Calling
  <2>5. Agrees(r.then, r.s) => Agrees(r.then, s)
    <3>1. r.then = Blank
      BY <1>1, <1>11 DEF GoodRequest
    <3> QED BY <3>1, BlankPage
  <2>6. alone[t] => Follows(q, Session)
    BY <1>8, <2>2, <2>5 DEF Follows, Calling
  <2> QED BY <1>1, <1>4, <2>1, <2>4, <2>6, Continues
<1> QED BY <1>1, <1>9, <1>10, <1>11 DEF Listing

LEMMA StepMemberDone ==
  ASSUME IInv, NEW t \in Tabs, MemberDone(t)
  PROVE  IInv'
<1> DEFINE r == request[t]
<1>1. /\ r.view = "adding" /\ GoodRequest(r)
      /\ UNCHANGED <<store, cookie, ended, page, fetch, alone>>
  BY Unchanged DEF MemberDone
<1>2. PICK p \in {Blank, HilosPage(r.s)} :
        Continue(t, [Idle EXCEPT !.view = "saving", !.key = r.key, !.s = r.s, !.then = p])
  BY DEF MemberDone
<1>3. /\ GoodSession(r.s) /\ r.s.login \in Users /\ r.key \in Keys \cup {None}
      /\ ChatChosen(r.s) /\ r.s.hilos # None
  BY <1>1 DEF GoodRequest, RequestType, GoodSession, Saving, Listing
<1>4. GoodPage(p) /\ Agrees(p, r.s)
  BY <1>3, BlankPage, ListPage DEF GoodSession
<1> DEFINE q == [Idle EXCEPT !.view = "saving", !.key = r.key, !.s = r.s, !.then = p]
<1>5. GoodRequest(q) /\ Follows(q, Session)
  BY <1>3, <1>4, SavingRequest
<1> HIDE DEF q
<1>6. Continue(t, q)
  BY <1>2 DEF q
<1> QED BY <1>1, <1>5, <1>6, Continues

-----------------------------------------------------------------------------
(* mensajes, mod_chat, mod_hilos                                           *)

(* The pages of these views, made from the session of their request.       *)
LEMMA ThreadPage ==
  ASSUME IInv, HasThread, NEW p, p = [Page("mensajes") EXCEPT !.thread = Thread]
  PROVE  GoodPage(p) /\ Agrees(p, Session) /\ p.at = "mensajes" /\ p.thread = Thread
<1>1. Thread \in Threads
  BY SessionGood, ChosenHere, Chosen DEF GoodSession
<1>2. p \in PageType /\ p.at = "mensajes" /\ p.thread = Thread /\ p.channel = None
  BY <1>1 DEF Page, PageType, Places
<1> QED BY <1>2, ChosenHere DEF GoodPage, Agrees

LEMMA ChatPage ==
  ASSUME IInv
  PROVE  GoodPage(ModChatPage) /\ Agrees(ModChatPage, Session)
<1>1. CASE Session.lists = None
  BY <1>1, BlankPage DEF ModChatPage
<1>2. CASE Session.lists # None
  <2>1. Session.lists.mios \in ChatMaps
    BY <1>2, SessionGood, Chosen DEF GoodSession
  <2> QED BY <1>2, <2>1, ListedPage DEF ModChatPage, Agrees
<1> QED BY <1>1, <1>2

LEMMA HilosFormPage ==
  ASSUME IInv, NEW t \in Tabs
  PROVE  GoodPage(ModHilosPage(t)) /\ (alone[t] => Agrees(ModHilosPage(t), Session))
<1>1. CASE Session.hilos = None
  BY <1>1, BlankPage DEF ModHilosPage
<1>2. CASE Session.hilos # None
  <2> DEFINE p == ModHilosPage(t)
  <2>1. Session.hilos \in ThreadMaps
    BY <1>2, SessionGood, Chosen DEF GoodSession
  <2>2. /\ page[t].channel \in Channels \cup {None}
        /\ alone[t] => Agrees(page[t], Session)
    BY Unchanged DEF GoodPage, PageType
  <2>3. /\ p \in PageType /\ p.at = "mod_hilos" /\ p.map = Session.hilos
        /\ p.channel = page[t].channel
    BY <1>2, <2>1, <2>2 DEF ModHilosPage, Page, PageType, Places
  <2> HIDE DEF p
  <2>4. GoodPage(p) /\ (alone[t] => Agrees(p, Session))
    BY <2>1, <2>2, <2>3 DEF GoodPage, Agrees
  <2> QED BY <2>4 DEF p
<1> QED BY <1>1, <1>2

LEMMA StepOpen ==
  ASSUME IInv, NEW t \in Tabs, Mensajes(t) \/ ModChat(t) \/ ModHilos(t)
  PROVE  IInv'
<1>1. /\ request[t].view = "idle" /\ UNCHANGED <<store, cookie, ended, request, fetch>>
      /\ GoodFetch(fetch')
  BY Unchanged DEF Mensajes, ModChat, ModHilos, Open
<1>2. CASE Mensajes(t)
  <2>1. CASE /\ HasThread /\ Show(t, [Page("mensajes") EXCEPT !.thread = Thread])
             /\ alone' = [alone EXCEPT ![t] = TRUE]
    BY <1>1, <2>1, ThreadPage, Shows
  <2>2. CASE Show(t, Blank) /\ alone' = [alone EXCEPT ![t] = FALSE]
    BY <1>1, <2>2, BlankPage, Shows
  <2> QED BY <1>2, <2>1, <2>2 DEF Mensajes
<1>3. CASE ModChat(t)
  BY <1>1, <1>3, ChatPage, Shows DEF ModChat
<1>4. CASE ModHilos(t)
  <2>1. Show(t, ModHilosPage(t)) /\ alone' = [alone EXCEPT ![t] = alone[t]]
    BY <1>4, Unchanged DEF ModHilos
  <2> QED BY <1>1, <2>1, HilosFormPage, Unchanged, Shows
<1> QED BY <1>2, <1>3, <1>4

(* A call on behalf of a page that agrees with the session goes where the  *)
(* page says.                                                              *)
LEMMA Acts ==
  ASSUME IInv, NEW t \in Tabs, UNCHANGED <<store, cookie, ended, fetch, alone>>,
         NEW view \in Calling, NEW target \in Channels \cup Threads \cup {None},
         NEW shown \in Channels \cup Threads \cup {None}, NEW p, GoodPage(p),
         Act(t, view, target, shown, p),
         alone[t] => Agrees(p, Session) /\ (shown # None => target = shown)
  PROVE  IInv'
<1> DEFINE r == [Idle EXCEPT !.view = view, !.target = target, !.shown = shown,
                             !.then = p, !.alone = alone[t]]
<1>1. Begin(t, r)
  BY DEF Act
<1>2. alone[t] \in BOOLEAN /\ alone' = [alone EXCEPT ![t] = alone[t]]
  BY Unchanged
<1>3. GoodRequest(r) /\ (alone[t] => Follows(r, Session))
  BY <1>2, CallingRequest
<1> HIDE DEF r
<1> QED BY <1>1, <1>2, <1>3, Begins

LEMMA StepSend ==
  ASSUME IInv, NEW t \in Tabs, Send(t)
  PROVE  IInv'
<1>1. /\ page[t].at = "mensajes" /\ UNCHANGED <<store, cookie, ended, fetch, alone>>
      /\ Crash(t) \/ (HasThread /\ Act(t, "send", Thread, page[t].thread, Blank))
  BY DEF Send, Form
<1>2. /\ page[t].thread \in Threads \cup {None}
      /\ HasThread => Thread \in Threads /\ (alone[t] => Thread = page[t].thread)
  BY <1>1, Unchanged, SessionGood, ChosenHere, Chosen
     DEF GoodPage, PageType, GoodSession, Agrees
<1>3. "send" \in Calling
  BY DEF Calling
<1>4. CASE Crash(t)
  BY <1>1, <1>4, Unchanged, Crashes
<1>5. CASE HasThread /\ Act(t, "send", Thread, page[t].thread, Blank)
  BY <1>1, <1>2, <1>3, <1>5, BlankPage, Acts
<1> QED BY <1>1, <1>4, <1>5

LEMMA StepChangeChat ==
  ASSUME IInv, NEW t \in Tabs, ChangeChat(t)
  PROVE  IInv'
<1>1. /\ page[t].at = "mod_chat" /\ UNCHANGED <<store, cookie, ended, fetch, alone>>
  BY DEF ChangeChat, Form
<1>2. "mod_chat" \in Calling /\ GoodPage(ModChatPage) /\ Agrees(ModChatPage, Session)
  BY ChatPage DEF Calling
<1>3. CASE Act(t, "mod_chat", None, None, ModChatPage)
  BY <1>1, <1>2, <1>3, Acts
<1>4. CASE Crash(t)
  BY <1>1, <1>4, Unchanged, Crashes
<1>5. ASSUME NEW c \in DOMAIN page[t].map, Session.lists # None,
             c \in DOMAIN Session.lists.mios,
             Act(t, "mod_chat", Session.lists.mios[c], page[t].map[c], ModChatPage)
      PROVE  IInv'
  <2>1. Session.lists.mios \in ChatMaps /\ page[t].map \in ChatMaps
    BY <1>1, <1>5, Unchanged, SessionGood, Chosen DEF GoodPage, GoodSession
  <2>2. Session.lists.mios[c] \in Channels /\ page[t].map[c] \in Channels
    BY <1>5, <2>1, ChatMapsDomain
  <2>3. alone[t] => Session.lists.mios[c] = page[t].map[c]
    BY <1>1, <1>5, Unchanged DEF Agrees
  <2> QED BY <1>1, <1>2, <1>5, <2>2, <2>3, Acts
<1> QED BY <1>3, <1>4, <1>5 DEF ChangeChat

LEMMA StepChangeHilo ==
  ASSUME IInv, NEW t \in Tabs, ChangeHilo(t)
  PROVE  IInv'
<1> DEFINE p == ModHilosPage(t)
<1>1. /\ page[t].at = "mod_hilos" /\ UNCHANGED <<store, cookie, ended, fetch, alone>>
  BY DEF ChangeHilo, Form
<1>2. "mod_hilos" \in Calling /\ GoodPage(p) /\ (alone[t] => Agrees(p, Session))
  BY HilosFormPage DEF Calling
<1>3. CASE Crash(t)
  BY <1>1, <1>3, Unchanged, Crashes
<1>4. CASE HasChat /\ Act(t, "mod_hilos", Channel(Session), page[t].channel, p)
  <2>1. Channel(Session) \in Channels /\ page[t].channel \in Channels \cup {None}
    BY <1>4, Unchanged, SessionGood, ChosenHere, Chosen DEF GoodPage, PageType, GoodSession
  <2>2. alone[t] /\ page[t].channel # None => Channel(Session) = page[t].channel
    BY <1>4, Unchanged, ChosenHere DEF Agrees
  <2> HIDE DEF p
  <2> QED BY <1>1, <1>2, <1>4, <2>1, <2>2, Acts
<1>5. ASSUME NEW h \in DOMAIN page[t].map, Session.hilos # None, h \in DOMAIN Session.hilos,
             Act(t, "mod_hilos", Session.hilos[h], page[t].map[h], p)
      PROVE  IInv'
  <2>1. Session.hilos \in ThreadMaps /\ page[t].map \in ThreadMaps
    BY <1>1, <1>5, Unchanged, SessionGood, Chosen DEF GoodPage, GoodSession
  <2>2. Session.hilos[h] \in Threads /\ page[t].map[h] \in Threads
    BY <1>5, <2>1, ThreadMapsDomain
  <2>3. alone[t] => Session.hilos[h] = page[t].map[h]
    BY <1>1, <1>5, Unchanged DEF Agrees
  <2> HIDE DEF p
  <2> QED BY <1>1, <1>2, <1>5, <2>2, <2>3, Acts
<1> QED BY <1>3, <1>4, <1>5 DEF ChangeHilo

LEMMA StepDone ==
  ASSUME IInv, NEW t \in Tabs, SendDone(t) \/ ChatDone(t) \/ HiloDone(t)
  PROVE  IInv'
<1>1. /\ request[t].view \in Calling /\ UNCHANGED <<store, cookie, ended, fetch, alone>>
      /\ \E p \in {Blank, request[t].then} : End(t, p)
  BY DEF SendDone, ChatDone, HiloDone, Done, Calling
<1>2. GoodPage(request[t].then) /\ (alone[t] => Agrees(request[t].then, Session))
  BY <1>1, Unchanged DEF GoodRequest, Follows
<1> QED BY <1>1, <1>2, BlankPage, Unchanged, Ends

-----------------------------------------------------------------------------

LEMMA StepIInv == IInv /\ [Next]_vars => IInv'
<1> SUFFICES ASSUME IInv, [Next]_vars PROVE IInv'
  OBVIOUS
<1>1. CASE UNCHANGED vars
  BY <1>1 DEF vars, IInv, StoreInv, TabsInv, AloneInv, Session, Key
<1>2. ASSUME NEW t \in Tabs, Step(t) PROVE IInv'
  <2>1. CASE Save(t) \/ Outside(t) \/ Home(t) \/ Login(t) \/ SignUp(t) \/ LoginUser(t)
             \/ Presence(t) \/ LogOut(t) \/ Flush(t) \/ Leave(t)
             \/ Main(t) \/ FetchLists(t) \/ ChooseChat(t)
    BY <2>1, StepSave, StepCookie, StepHome, StepLogIn, StepLoginUser, StepMainPage, StepFlush
  <2>2. CASE Hilos(t) \/ ChooseHilo(t) \/ Participants(t) \/ ThreadsArrive(t) \/ MemberDone(t)
    BY <2>2, StepHilos, StepHilosForm, StepThreadsArrive, StepMemberDone
  <2>3. CASE Mensajes(t) \/ Send(t) \/ SendDone(t) \/ ModChat(t) \/ ChangeChat(t)
             \/ ChatDone(t) \/ ModHilos(t) \/ ChangeHilo(t) \/ HiloDone(t)
    BY <2>3, StepOpen, StepSend, StepDone, StepChangeChat, StepChangeHilo
  <2> QED BY <1>2, <2>1, <2>2, <2>3 DEF Step
<1> QED BY <1>1, <1>2, StepListsArrive DEF Next

(* The invariant holds in every reachable state.                           *)
THEOREM Invariance == Spec => []IInv
BY InitIInv, StepIInv, PTL DEF Spec

(* The session's rows and the copies that requests and main's script hold  *)
(* keep their types.                                                       *)
THEOREM TypeCorrect == Spec => []TypeOK
<1>1. IInv => TypeOK
  BY DEF IInv, StoreInv, TabsInv, GoodSession, GoodRequest, RequestType, GoodFetch, TypeOK
<1> QED BY <1>1, Invariance, PTL

(* What is saved of a login comes from one login: the token of one is      *)
(* never beside the user of another, nor a user that was not asked for.    *)
THEOREM SessionsOfOneLogin == Spec => []OneLogin
<1>1. IInv => OneLogin
  BY DEF IInv, StoreInv, OneLogin
<1> QED BY <1>1, Invariance, PTL

(* What was logged out stays out, however many requests of the other tabs  *)
(* still held a copy of the session.                                       *)
THEOREM LogOutIsFinal == Spec => []LoggedOut
<1>1. IInv => LoggedOut
  BY DEF IInv, StoreInv, LoggedOut
<1> QED BY <1>1, Invariance, PTL

(* Every session saved has beside a chosen thread a list of threads, and   *)
(* beside that a chat and lists, whatever updates were lost between tabs.  *)
THEOREM SessionsInOrder == Spec => []BuiltInOrder
<1>1. IInv => BuiltInOrder
  BY DEF IInv, StoreInv, GoodSession, InOrder, BuiltInOrder
<1> QED BY <1>1, Invariance, PTL

(* A tab acts on the thread or channel that it shows, unless the browser   *)
(* saved another request since.                                            *)
THEOREM TabsActWhereShown == Spec => []ActsWhereShown
<1>1. IInv => ActsWhereShown
  BY DEF IInv, TabsInv, GoodRequest, ActsWhereShown, Acting, Target, Calling
<1> QED BY <1>1, Invariance, PTL
===============================================================================
