----------------------------- MODULE WebSession -----------------------------
(***************************************************************************)
(* interfaz/core/views.py and utils.py: the web interface keeps in the     *)
(* Django session what the user chose on earlier pages, and each page      *)
(* finds there the channel or thread it acts on.  The tabs of one browser  *)
(* share the session.  A request reads it whole when it begins and, if it  *)
(* changed it, writes it whole when it ends with anything but a 500.       *)
(*                                                                         *)
(* The services behind the gateway belong to other teams: a list is any of *)
(* the answers given as constants, a call succeeds or fails.               *)
(*                                                                         *)
(* page[t].at: "home" "main" "waiting" "listed" (main and its lists)       *)
(*   "hilos" "mensajes" "mod_chat" "mod_hilos", or "blank": an error, or   *)
(*   nothing yet.  A tab may open any address at any time: a link, a       *)
(*   bookmark, a reload, a redirect.                                       *)
(* request[t].view: "idle"; "login" -> "presence" -> "saving";             *)
(*   "signup" -> "saving"; "hilos" / "choose" / "member" -> ["adding" ->]  *)
(*   "saving"; "saving" alone for main; "send", "mod_chat", "mod_hilos"    *)
(*   (a service is called, nothing saved); "log_out" -> "leaving".         *)
(***************************************************************************)
EXTENDS Naturals, FiniteSets

CONSTANTS
  Tabs,          \* of one browser
  Keys,          \* session keys: bounds how often a session is created
  Chats,         \* names of channels
  Channels, Titles, Threads,
  ChannelLists,  \* answers of the channels service: [all, mios: Chats -|-> Channels]
  ThreadLists,   \* Channels -> answers of the threads service: Titles -|-> Threads
  None

Maps(A, B) == UNION {[D -> B] : D \in SUBSET A}
NoThreads == [x \in {} |-> None]

ASSUME WebAssumption ==
  /\ IsFiniteSet(Keys)
  /\ ChannelLists \subseteq [all : Maps(Chats, Channels), mios : Maps(Chats, Channels)]
  /\ ThreadLists \in [Channels -> SUBSET Maps(Titles, Threads)]
  /\ None \notin Tabs \cup Keys \cup Chats \cup Channels \cup Titles \cup Threads
  /\ None \notin ChannelLists \cup Maps(Titles, Threads) \cup Maps(Chats, Channels)

VARIABLES
  store,    \* key |-> the session saved under it, or None
  cookie,   \* the browser's session key, or None
  ended,    \* keys whose session was logged out
  page,     \* tab |-> what it shows
  request,  \* tab |-> the request it waits for
  fetch,    \* the request of main's script, which outlives its page: one at a time
  alone     \* tab |-> whether its page shows what it may act on, and no other
            \*   request was saved since that was read

vars == <<store, cookie, ended, page, request, fetch, alone>>

(* "lists" stands for canales_all and canales_mios, assigned together;     *)
(* "login" for token, user and user_id: "none" of them, a new "token" with *)
(* no user or an earlier login's, a token that is of "nobody" because the  *)
(* service named no user, or the "whole" of one login.                     *)
NewSession ==
  [login |-> "none", lists |-> None, chat |-> None, hilos |-> None, hilo |-> None]

Page(at) == [at |-> at, map |-> None, channel |-> None, thread |-> None, mine |-> FALSE]
Blank == Page("blank")

(* "then" is the page that follows, "target" what a service is called for, *)
(* "shown" what the tab's page showed in its place.                        *)
Idle == [view |-> "idle", key |-> None, s |-> NewSession, then |-> Blank,
         target |-> None, shown |-> None, alone |-> FALSE]

Silent == [tab |-> None, key |-> None, s |-> NewSession]

Init ==
  /\ store = [k \in Keys |-> None]
  /\ cookie = None
  /\ ended = {}
  /\ page = [t \in Tabs |-> Page("home")]
  /\ request = [t \in Tabs |-> Idle]
  /\ fetch = Silent
  /\ alone = [t \in Tabs |-> FALSE]

-----------------------------------------------------------------------------
(* SessionMiddleware. *)

Key == IF cookie # None /\ store[cookie] # None THEN cookie ELSE None
Session == IF Key = None THEN NewSession ELSE store[Key]
Inside == Session.login = "whole"

Open(t) == request[t].view = "idle" /\ Inside   \* any address, logged in
Form(t, at) == Open(t) /\ page[t].at = at       \* a form of a page

Show(t, p) == page' = [page EXCEPT ![t] = p]
Continue(t, r) == request' = [request EXCEPT ![t] = r]
Begin(t, r) == Continue(t, r) /\ Show(t, Blank)
End(t, p) == Continue(t, Idle) /\ Show(t, p)
Crash(t) == End(t, Blank)   \* an exception, a 500: nothing is saved

(* save() updates the row, which log_out may have deleted: then a 400. A   *)
(* session without a key gets a row and the browser its cookie.            *)
Fresh == {k \in Keys \ ended : store[k] = None}
Saved(key, s) ==
  \E k \in IF key = None THEN Fresh ELSE {key} :
    /\ key # None => store[k] # None
    /\ store' = [store EXCEPT ![k] = s]
    /\ cookie' = k

Overtaken(t) == [u \in Tabs |-> u = t /\ alone[u]]

Save(t) ==
  LET r == request[t] IN
  /\ r.view = "saving"
  /\ \/ Saved(r.key, r.s) /\ End(t, r.then) /\ alone' = Overtaken(t)
     \/ /\ r.key # None /\ store[r.key] = None
        /\ End(t, Blank)
        /\ UNCHANGED <<store, cookie, alone>>
  /\ UNCHANGED <<ended, fetch>>

-----------------------------------------------------------------------------
(* home, create_user, log_out *)

Creating == {t \in Tabs : request[t].view \in {"login", "signup", "presence", "saving"}
                            /\ request[t].key = None}

Home(t) ==
  /\ request[t].view = "idle"
  /\ Show(t, Page("home"))
  /\ alone' = [alone EXCEPT ![t] = FALSE]
  /\ UNCHANGED <<store, cookie, ended, request, fetch>>

(* API_LogIn gave a token, to home, or to create_user after crear_usuario; *)
(* if it gives none, nothing changes.                                      *)
LogIn(t, view) ==
  /\ request[t].view = "idle" /\ page[t].at = "home"
  /\ Key # None \/ Cardinality(Creating) < Cardinality(Fresh)
  /\ Begin(t, [Idle EXCEPT !.view = view, !.key = Key,
                           !.s = [Session EXCEPT !.login = "token"]])
  /\ UNCHANGED <<store, cookie, ended, fetch, alone>>
Login(t) == LogIn(t, "login")
SignUp(t) == LogIn(t, "signup")

(* obtener_usuario: an answer may name the user or nobody (user_id None);  *)
(* without one, var["username"] raises.  Only home goes on to              *)
(* registrar_presencia.                                                    *)
Users == {"whole", "nobody"}
LoginUser_Keeps(t) ==
  LET r == request[t]
      next == IF r.view = "login" THEN "presence" ELSE "saving"
  IN
  /\ r.view \in {"login", "signup"}
  /\ \/ \E u \in Users : Continue(t, [r EXCEPT !.s.login = u, !.view = next])
     \/ Continue(t, [r EXCEPT !.view = "saving"])
  /\ UNCHANGED <<store, cookie, ended, page, fetch, alone>>
LoginUser(t) ==
  LET r == request[t]
      next == IF r.view = "login" THEN "presence" ELSE "saving"
  IN
  /\ r.view \in {"login", "signup"}
  /\ \/ /\ \E u \in Users : Continue(t, [r EXCEPT !.s.login = u, !.view = next])
        /\ UNCHANGED page
     \/ Crash(t)
  /\ UNCHANGED <<store, cookie, ended, fetch, alone>>

(* registrar_presencia raises if its call fails.                           *)
Presence(t) ==
  /\ request[t].view = "presence"
  /\ \/ Continue(t, [request[t] EXCEPT !.view = "saving"]) /\ UNCHANGED page
     \/ Crash(t)
  /\ UNCHANGED <<store, cookie, ended, fetch, alone>>

(* Every view but home and log_out sends a session without user_id home;   *)
(* an answer to a dead cookie deletes it.                                  *)
Outside(t) ==
  /\ request[t].view = "idle" /\ ~Inside
  /\ Show(t, Page("home"))
  /\ cookie' = Key
  /\ UNCHANGED <<store, ended, request, fetch, alone>>

(* Without a login, request.session["user_id"] raises; None is no error.   *)
LogOut(t) ==
  /\ request[t].view = "idle"
  /\ IF Session.login # "none"
     THEN Begin(t, [Idle EXCEPT !.view = "log_out", !.key = Key])
     ELSE Crash(t)
  /\ UNCHANGED <<store, cookie, ended, fetch, alone>>

(* flush(): the row goes; the cookie, when the answer arrives.             *)
Flush_Clears(t) ==
  /\ request[t].view = "log_out"
  /\ store' = [store EXCEPT ![request[t].key] = IF @ = None THEN @ ELSE NewSession]
  /\ ended' = ended \cup {request[t].key}
  /\ alone' = Overtaken(t)
  /\ Continue(t, [request[t] EXCEPT !.view = "leaving"])
  /\ UNCHANGED <<cookie, page, fetch>>
Flush(t) ==
  /\ request[t].view = "log_out"
  /\ store' = [store EXCEPT ![request[t].key] = None]
  /\ ended' = ended \cup {request[t].key}
  /\ alone' = Overtaken(t)
  /\ Continue(t, [request[t] EXCEPT !.view = "leaving"])
  /\ UNCHANGED <<cookie, page, fetch>>

Leave(t) ==
  /\ request[t].view = "leaving"
  /\ cookie' = None
  /\ End(t, Page("home"))
  /\ UNCHANGED <<store, ended, fetch, alone>>

-----------------------------------------------------------------------------
(* main *)

Main(t) ==
  /\ Open(t)
  /\ Show(t, Page("main"))
  /\ alone' = [alone EXCEPT ![t] = FALSE]
  /\ UNCHANGED <<store, cookie, ended, request, fetch>>

(* The page's script asks for the lists of channels.                       *)
FetchLists(t) ==
  /\ Form(t, "main") /\ fetch = Silent
  /\ fetch' = [tab |-> t, key |-> Key, s |-> Session]
  /\ Show(t, Page("waiting"))
  /\ UNCHANGED <<store, cookie, ended, request, alone>>

(* GetChats and GetChatsMiosFiltrados; None if one of them failed.         *)
GetChats == ChannelLists \cup {None}

(* The names the script shows: mios, and all that are not among them.      *)
Listed(l) == [c \in DOMAIN l.all \cup DOMAIN l.mios |->
                IF c \in DOMAIN l.mios THEN l.mios[c] ELSE l.all[c]]

(* Saved as the answer leaves, even if its page is gone; without lists,    *)
(* nothing is saved and the page stays empty.                              *)
ListsArrive_Failed ==
  /\ fetch # Silent
  /\ fetch' = Silent
  /\ \E l \in GetChats :
       \/ /\ Saved(fetch.key, [fetch.s EXCEPT !.lists = IF l = None THEN NoThreads ELSE l])
          /\ UNCHANGED page
          /\ alone' = [u \in Tabs |-> FALSE]
       \/ UNCHANGED <<store, cookie, page, alone>>
  /\ UNCHANGED <<ended, request>>
ListsArrive ==
  /\ fetch # Silent
  /\ fetch' = Silent
  /\ \E l \in GetChats :
       IF l # None /\ store[fetch.key] # None
       THEN /\ Saved(fetch.key, [fetch.s EXCEPT !.lists = l])
            /\ IF page[fetch.tab].at = "waiting"
               THEN Show(fetch.tab, [Page("listed") EXCEPT !.map = Listed(l)])
               ELSE UNCHANGED page
            /\ alone' = [u \in Tabs |-> FALSE]
       ELSE UNCHANGED <<store, cookie, page, alone>>
  /\ UNCHANGED <<ended, request>>

ChooseChat(t) ==
  /\ Form(t, "listed")
  /\ \E c \in DOMAIN page[t].map :
       Begin(t, [Idle EXCEPT !.view = "saving", !.key = Key,
                             !.s = [Session EXCEPT !.chat = c]])
  /\ UNCHANGED <<store, cookie, ended, fetch, alone>>

-----------------------------------------------------------------------------
(* hilos.  GET and POST both list the threads of the session's chat anew.  *)

HasChat == Session.lists # None /\ Session.chat # None
           /\ Session.chat \in DOMAIN Session.lists.all
Channel(s) == s.lists.all[s.chat]

HilosPage(s) ==
  [Page("hilos") EXCEPT !.map = s.hilos, !.channel = Channel(s),
                        !.mine = s.chat \in DOMAIN s.lists.mios]

(* Up to the call of GetHilosAPI, which replaces the list.                 *)
OpenHilos(t, r) ==
  IF HasChat THEN Begin(t, [r EXCEPT !.key = Key, !.s = [Session EXCEPT !.hilos = None]])
             ELSE Crash(t)

Hilos(t) ==
  /\ Open(t)
  /\ OpenHilos(t, [Idle EXCEPT !.view = "hilos"])
  /\ alone' = [alone EXCEPT ![t] = TRUE]
  /\ UNCHANGED <<store, cookie, ended, fetch>>

(* The button of a title, or "Modificar hilo", whose form has no title;    *)
(* the page that follows is still about this channel for the user.         *)
ChooseHilo_AsShown(t) ==
  /\ Form(t, "hilos")
  /\ \E h \in DOMAIN page[t].map :
       Begin(t, [Idle EXCEPT !.view = "saving", !.key = Key,
                             !.s = [Session EXCEPT !.hilo = h]])
  /\ UNCHANGED <<store, cookie, ended, fetch, alone>>
ChooseHilo(t) ==
  /\ Form(t, "hilos")
  /\ \/ \E h \in DOMAIN page[t].map : OpenHilos(t, [Idle EXCEPT !.view = "choose", !.shown = h])
     \/ /\ page[t].mine
        /\ OpenHilos(t, [Idle EXCEPT !.view = "choose", !.then.channel = page[t].channel])
  /\ UNCHANGED <<store, cookie, ended, fetch, alone>>

(* The form that adds or removes a user.                                   *)
Participants(t) ==
  /\ Form(t, "hilos") /\ page[t].mine
  /\ OpenHilos(t, [Idle EXCEPT !.view = "member", !.shown = page[t].channel,
                               !.alone = alone[t]])
  /\ UNCHANGED <<store, cookie, ended, fetch, alone>>

(* A failed call or an answer that is not JSON counts as no threads; JSON  *)
(* that cannot be searched for threads raises.                             *)
GetHilosAPI(channel) == ThreadLists[channel] \cup {NoThreads}

ThreadsArrive(t) ==
  LET r == request[t] IN
  /\ r.view \in {"hilos", "choose", "member"}
  /\ \E m \in GetHilosAPI(Channel(r.s)) :
       LET s == [r.s EXCEPT !.hilos = m]
           Reply(new, p) == Continue(t, [Idle EXCEPT !.view = "saving", !.key = r.key,
                                                     !.s = new, !.then = p])
       IN
       \/ r.view = "hilos" /\ Reply(s, HilosPage(s)) /\ UNCHANGED page
       \/ r.view = "choose" /\ Reply([s EXCEPT !.hilo = r.shown], r.then) /\ UNCHANGED page
       \/ /\ r.view = "member"
          /\ Continue(t, [r EXCEPT !.view = "adding", !.s = s])
          /\ UNCHANGED page
       \/ Crash(t)
  /\ UNCHANGED <<store, cookie, ended, fetch, alone>>

(* AddUserToChannel, RemoveUserFromChannel: the page again with an error,  *)
(* or a redirect to it.  The list of threads is saved either way.          *)
MemberDone(t) ==
  LET r == request[t] IN
  /\ r.view = "adding"
  /\ \E p \in {Blank, HilosPage(r.s)} :
       Continue(t, [Idle EXCEPT !.view = "saving", !.key = r.key, !.s = r.s, !.then = p])
  /\ UNCHANGED <<store, cookie, ended, page, fetch, alone>>

-----------------------------------------------------------------------------
(* mensajes *)

HasThread == Session.hilos # None /\ Session.hilo # None
             /\ Session.hilo \in DOMAIN Session.hilos
Thread == Session.hilos[Session.hilo]

(* A page opened, or the script's every 3 seconds, which leaves the page   *)
(* as it is after an error: no such thread, or no page (MessageFiles).     *)
Mensajes(t) ==
  /\ Open(t)
  /\ \/ /\ HasThread
        /\ Show(t, [Page("mensajes") EXCEPT !.thread = Thread])
        /\ alone' = [alone EXCEPT ![t] = TRUE]
     \/ Show(t, Blank) /\ alone' = [alone EXCEPT ![t] = FALSE]
  /\ UNCHANGED <<store, cookie, ended, request, fetch>>

(* A service is called for what the session names, from a page that shows  *)
(* what the user means; "then" is the page after a failure.                *)
Act(t, view, target, shown, then) ==
  Begin(t, [Idle EXCEPT !.view = view, !.target = target, !.shown = shown,
                        !.then = then, !.alone = alone[t]])

(* enviar_mensaje, and subir_archivo for each file.                        *)
Send(t) ==
  /\ Form(t, "mensajes")
  /\ IF HasThread THEN Act(t, "send", Thread, page[t].thread, Blank) ELSE Crash(t)
  /\ UNCHANGED <<store, cookie, ended, fetch, alone>>

-----------------------------------------------------------------------------
(* mod_chat, mod_hilos *)

ModChatPage == IF Session.lists = None THEN Blank
               ELSE [Page("mod_chat") EXCEPT !.map = Session.lists.mios]

ModChat(t) ==
  /\ Open(t)
  /\ Show(t, ModChatPage)
  /\ alone' = [alone EXCEPT ![t] = TRUE]
  /\ UNCHANGED <<store, cookie, ended, request, fetch>>

(* CreateChat, which needs the user only; ModifyChat, DeleteChat,          *)
(* AddUserToChannel and RemoveUserFromChannel.                             *)
ChangeChat(t) ==
  /\ Form(t, "mod_chat")
  /\ \/ Act(t, "mod_chat", None, None, ModChatPage)
     \/ \E c \in DOMAIN page[t].map :
          IF Session.lists # None /\ c \in DOMAIN Session.lists.mios
          THEN Act(t, "mod_chat", Session.lists.mios[c], page[t].map[c], ModChatPage)
          ELSE Crash(t)
  /\ UNCHANGED <<store, cookie, ended, fetch, alone>>

ModHilosPage(t) ==
  IF Session.hilos = None THEN Blank
  ELSE [Page("mod_hilos") EXCEPT !.map = Session.hilos, !.channel = page[t].channel]

ModHilos(t) ==
  /\ Open(t)
  /\ Show(t, ModHilosPage(t))
  /\ UNCHANGED <<store, cookie, ended, request, fetch, alone>>

(* create_thread; edit_thread and delete_thread.                           *)
ChangeHilo_Anew(t) ==
  /\ Form(t, "mod_hilos")
  /\ \/ IF HasChat
        THEN Act(t, "mod_hilos", Channel(Session), page[t].channel, ModHilosPage(t))
        ELSE Crash(t)
     \/ \E h \in DOMAIN page[t].map :
          \/ /\ HasChat
             /\ \E m \in ThreadLists[Channel(Session)] : h \in DOMAIN m
                  /\ Act(t, "mod_hilos", m[h], page[t].map[h], ModHilosPage(t))
          \/ Crash(t)
  /\ UNCHANGED <<store, cookie, ended, fetch, alone>>
ChangeHilo(t) ==
  /\ Form(t, "mod_hilos")
  /\ \/ IF HasChat
        THEN Act(t, "mod_hilos", Channel(Session), page[t].channel, ModHilosPage(t))
        ELSE Crash(t)
     \/ \E h \in DOMAIN page[t].map :
          IF Session.hilos # None /\ h \in DOMAIN Session.hilos
          THEN Act(t, "mod_hilos", Session.hilos[h], page[t].map[h], ModHilosPage(t))
          ELSE Crash(t)
  /\ UNCHANGED <<store, cookie, ended, fetch, alone>>

(* The calls end, well (a redirect to main, or to mensajes whatever became *)
(* of the message) or with an error on the page.                           *)
Done(t, view) ==
  /\ request[t].view = view
  /\ \E p \in {Blank, request[t].then} : End(t, p)
  /\ UNCHANGED <<store, cookie, ended, fetch, alone>>
SendDone(t) == Done(t, "send")
ChatDone(t) == Done(t, "mod_chat")
HiloDone(t) == Done(t, "mod_hilos")

Step(t) ==
  \/ Save(t) \/ Outside(t) \/ Home(t) \/ Login(t) \/ SignUp(t) \/ LoginUser(t)
  \/ Presence(t) \/ LogOut(t) \/ Flush(t) \/ Leave(t)
  \/ Main(t) \/ FetchLists(t) \/ ChooseChat(t)
  \/ Hilos(t) \/ ChooseHilo(t) \/ Participants(t) \/ ThreadsArrive(t) \/ MemberDone(t)
  \/ Mensajes(t) \/ Send(t) \/ SendDone(t)
  \/ ModChat(t) \/ ChangeChat(t) \/ ChatDone(t)
  \/ ModHilos(t) \/ ChangeHilo(t) \/ HiloDone(t)

Next == ListsArrive \/ \E t \in Tabs : Step(t)

Spec == Init /\ [][Next]_vars

-----------------------------------------------------------------------------
(* Properties. *)

(* Types.  A request keeps the session it read.                            *)
SessionType ==
  [login : {"none", "token"} \cup Users, lists : ChannelLists \cup {None},
   chat : Chats \cup {None}, hilos : Maps(Titles, Threads) \cup {None},
   hilo : Titles \cup {None}]

TypeOK ==
  /\ \A k \in Keys : store[k] # None => store[k] \in SessionType
  /\ cookie \in Keys \cup {None} /\ ended \subseteq Keys
  /\ \A t \in Tabs :
       request[t].s \in SessionType /\ request[t].key \in Keys \cup {None}
  /\ fetch.s \in SessionType /\ (fetch # Silent => fetch.key \in Keys)
  /\ alone \in [Tabs -> BOOLEAN]

(* A saved session has the token and the user of one login, although two   *)
(* calls fetch them, either may fail, and the browser may log in again     *)
(* over another user's session: never a new token with no user asked for,  *)
(* or beside the user of an earlier login.  The user may be nobody.        *)
OneLogin == \A k \in Keys : store[k] # None => store[k].login \in Users

(* Nobody is logged in again by a request that was under way when the      *)
(* session was logged out, with its own copy of it.                        *)
LoggedOut == \A k \in ended : store[k] # None => store[k].login # "whole"

(* Sessions are written whole, so even one that lost an update has what    *)
(* its later pages look up: beside a chosen thread there is a list of      *)
(* threads, and beside that a chosen chat and the lists of channels.  A    *)
(* chat alone may stand without the lists: a tab that logs in again saves  *)
(* over them, another still shows them and its choice is saved.            *)
BuiltInOrder ==
  \A k \in Keys : store[k] # None =>
    /\ store[k].hilo # None => store[k].hilos # None
    /\ store[k].hilos # None => store[k].lists # None /\ store[k].chat # None

(* A tab acts on what it shows, be it a thread or a channel, whatever      *)
(* other users rename and whichever calls fail, unless another request of  *)
(* the browser was saved after the tab's page was read.                    *)
Target(r) == IF r.view = "adding" THEN Channel(r.s) ELSE r.target
Acting(r) == r.view \in {"send", "adding", "mod_chat", "mod_hilos"} /\ r.shown # None
ActsWhereShown ==
  \A t \in Tabs : Acting(request[t]) /\ request[t].alone
                  => Target(request[t]) = request[t].shown

(* docs/tarea-3/Chat.md:45: "Enviar mensajes al chat que el integrante     *)
(* desee", messages go to the chat the member wants: the one on the page.  *)
SentWhereShown ==
  \A t \in Tabs : request[t].view = "send" => request[t].target = request[t].shown
=============================================================================
