---------------------------- MODULE ChatBotProofs ----------------------------
(***************************************************************************)
(* ChatBot for any number of messages, chatbots, gateways and requests of  *)
(* other views: what the histories are made of, in which order, and what   *)
(* can be lost of them.                                                    *)
(***************************************************************************)
EXTENDS ChatBot, SequenceTheorems, TLAPS

Active(r) == pc[r] \in {"calling", "saving"}

(* A request that was saved is done, and one that was seen was saved.      *)
SavedDone ==
  /\ \A r \in Requests : r \in Saved <=> pc[r] = "done"
  /\ \A r \in Requests : seen[r] \subseteq Saved

(* An ended or waiting request of another view has no call.                *)
OthersSave == \A o \in Others : pc[o] # "calling"

(* Of a history, and what the posts in it have seen. *)
PostsIn(h, posts) == \A i \in DOMAIN h : h[i].post \in posts

InOrder(h, sn) ==
  \A i, j \in DOMAIN h : i < j /\ h[i].post # h[j].post => h[i].post \in sn[h[j].post]

Orderly(session, posts, sn) ==
  \A b \in Bots : PostsIn(session.history[b], posts) /\ InOrder(session.history[b], sn)

(* What is saved is made of posts that were saved.  What a request has in  *)
(* its hands is made of those it has seen and, at the end, its own.        *)
OrderInv ==
  /\ Orderly(store, Saved, seen)
  /\ \A r \in Requests : Active(r) => Orderly(copy[r], seen[r] \cup {r}, seen)

(* A history is whole; one to which an answer is being waited for is not   *)
(* yet.                                                                    *)
Whole(h, b) ==
  /\ \A i \in DOMAIN h : Bot[h[i].post] = b
  /\ \A i \in DOMAIN h : i % 2 = 1 => i < Len(h) /\ Exchange(h[i], h[i + 1])

Half(h, b, p) ==
  /\ Len(h) % 2 = 1 /\ h[Len(h)] = Entry("user", p)
  /\ \A i \in DOMAIN h : Bot[h[i].post] = b
  /\ \A i \in DOMAIN h : i % 2 = 1 /\ i # Len(h) => i < Len(h) /\ Exchange(h[i], h[i + 1])

WholeInv ==
  /\ \A b \in Bots : Whole(store.history[b], b)
  /\ \A r \in Requests : pc[r] = "saving" => \A b \in Bots : Whole(copy[r].history[b], b)
  /\ \A p \in Posts : pc[p] = "calling" =>
       /\ \A b \in Bots \ {Bot[p]} : Whole(copy[p].history[b], b)
       /\ Half(copy[p].history[Bot[p]], Bot[p], p)

(* What a session has of a request, and why it may have lost it.           *)
Holds(session, r) ==
  \/ r \in Posts /\ \E i \in DOMAIN session.history[Bot[r]] : session.history[Bot[r]][i].post = r
  \/ r \in Others /\ session.rest = r

Excused(r, sv, sn) ==
  \E i, j \in DOMAIN sv :
    /\ i < j /\ sv[i] = r
    /\ r \notin sn[sv[j]] \/ (r \in Others /\ sv[j] \in Others)

KeptInv ==
  /\ \A r \in Saved : Holds(store, r) \/ Excused(r, saves, seen)
  /\ \A q \in Requests : Active(q) =>
       /\ Holds(copy[q], q)
       /\ \A r \in seen[q] :
            Holds(copy[q], r) \/ Excused(r, saves, seen) \/ (r \in Others /\ q \in Others)

(* Answers are to messages that were taken, as often as was tried at most. *)
Heard(session, hd) ==
  \A b \in Bots : \A i \in DOMAIN session.history[b] :
    session.history[b][i].sender = "bot" => hd[session.history[b][i].post] > 0

HeardInv ==
  /\ \A p \in Posts : heard[p] <= base[p]
  /\ \A p \in Posts : pc[p] \in {"idle", "calling"} => heard[p] < base[p]
  /\ Heard(store, heard)
  /\ \A r \in Requests : Active(r) => Heard(copy[r], heard)

IInv == TypeOK /\ SavedDone /\ OthersSave /\ OrderInv /\ WholeInv /\ KeptInv /\ HeardInv

-----------------------------------------------------------------------------
LEMMA WithEntry ==
  ASSUME NEW session \in SessionType, NEW b \in Bots, NEW entry \in Entries
  PROVE  /\ With(session, b, entry) \in SessionType
         /\ With(session, b, entry).rest = session.rest
         /\ \A c \in Bots \ {b} : With(session, b, entry).history[c] = session.history[c]
         /\ LET h == session.history[b]
                g == With(session, b, entry).history[b]
            IN /\ g \in Seq(Entries) /\ Len(g) = Len(h) + 1 /\ Len(h) \in Nat
               /\ DOMAIN h = 1..Len(h) /\ DOMAIN g = 1..(Len(h) + 1)
               /\ \A i \in 1..Len(h) : g[i] = h[i]
               /\ g[Len(h) + 1] = entry
<1> DEFINE h == session.history[b]
           g == Append(h, entry)
<1>1. /\ session.history \in [Bots -> Seq(Entries)]
      /\ session.rest \in Others \cup {None}
      /\ session = [history |-> session.history, rest |-> session.rest]
  BY DEF SessionType
<1>2. h \in Seq(Entries)
  BY <1>1
<1>3. /\ g \in Seq(Entries) /\ Len(g) = Len(h) + 1
      /\ \A i \in 1..Len(h) : g[i] = h[i]
      /\ g[Len(h) + 1] = entry
  BY <1>2, AppendProperties
<1>4. With(session, b, entry) =
        [history |-> [session.history EXCEPT ![b] = g], rest |-> session.rest]
  <2>1. With(session, b, entry) = [session EXCEPT !.history = [@ EXCEPT ![b] = g]]
    BY DEF With
  <2> HIDE DEF g
  <2> QED BY <1>1, <2>1
<1>5. /\ Len(h) \in Nat /\ DOMAIN h = 1..Len(h) /\ DOMAIN g = 1..Len(g)
  BY <1>2, <1>3, LenProperties
<1> QED BY <1>1, <1>3, <1>4, <1>5 DEF SessionType

(* An entry at the end of a history keeps it in order if all before it is  *)
(* seen by its post.                                                       *)
LEMMA AppendOrderly ==
  ASSUME NEW session \in SessionType, NEW b \in Bots, NEW sender, NEW p \in Posts,
         Entry(sender, p) \in Entries, NEW sn,
         Orderly(session, sn[p] \cup {p}, sn)
  PROVE  Orderly(With(session, b, Entry(sender, p)), sn[p] \cup {p}, sn)
<1> DEFINE h == session.history[b]
           g == With(session, b, Entry(sender, p)).history[b]
<1>1. \A c \in Bots \ {b} : With(session, b, Entry(sender, p)).history[c] = session.history[c]
  BY WithEntry
<1>2. /\ Len(h) \in Nat /\ DOMAIN h = 1..Len(h) /\ DOMAIN g = 1..(Len(h) + 1)
      /\ \A i \in 1..Len(h) : g[i] = h[i]
      /\ g[Len(h) + 1] = Entry(sender, p)
  BY WithEntry
<1>3. Entry(sender, p).post = p
  BY DEF Entry
<1>4. InOrder(h, sn) /\ PostsIn(h, sn[p] \cup {p})
  BY DEF Orderly
<1> HIDE DEF g, h
<1>5. PostsIn(g, sn[p] \cup {p})
  BY <1>2, <1>3, <1>4 DEF PostsIn
<1>6. InOrder(g, sn)
  <2> SUFFICES ASSUME NEW i \in DOMAIN g, NEW j \in DOMAIN g, i < j, g[i].post # g[j].post
               PROVE  g[i].post \in sn[g[j].post]
    BY DEF InOrder
  <2>1. i \in DOMAIN h /\ g[i] = h[i]
    BY <1>2
  <2>2. CASE j = Len(h) + 1
    BY <2>1, <2>2, <1>2, <1>3, <1>4 DEF PostsIn
  <2>3. CASE j # Len(h) + 1
    BY <2>1, <2>3, <1>2, <1>4 DEF InOrder
  <2> QED BY <2>2, <2>3
<1> QED BY <1>1, <1>5, <1>6 DEF g, Orderly

LEMMA Parity ==
  ASSUME NEW n \in Nat
  PROVE  n % 2 \in {0, 1} /\ (n % 2 = 1 => (n + 1) % 2 = 0 /\ n >= 1)
OBVIOUS

LEMMA AppendUser ==
  ASSUME NEW session \in SessionType, NEW b \in Bots, NEW p \in Posts, Bot[p] = b,
         \A c \in Bots : Whole(session.history[c], c)
  PROVE  LET new == With(session, b, Entry("user", p)) IN
         /\ \A c \in Bots \ {b} : Whole(new.history[c], c)
         /\ Half(new.history[b], b, p)
<1> DEFINE h == session.history[b]
           g == With(session, b, Entry("user", p)).history[b]
<1>1. Entry("user", p) \in Entries /\ Entry("user", p).post = p
  BY DEF Entry, Entries
<1>2. \A c \in Bots \ {b} :
        With(session, b, Entry("user", p)).history[c] = session.history[c]
  BY <1>1, WithEntry
<1>3. /\ Len(h) \in Nat /\ DOMAIN h = 1..Len(h) /\ DOMAIN g = 1..(Len(h) + 1)
      /\ g \in Seq(Entries) /\ Len(g) = Len(h) + 1
      /\ \A i \in 1..Len(h) : g[i] = h[i]
      /\ g[Len(h) + 1] = Entry("user", p)
  BY <1>1, WithEntry
<1>4. Whole(h, b)
  BY <1>1
<1> HIDE DEF g, h
<1>5. Len(h) % 2 = 0
  <2>1. CASE Len(h) % 2 = 1
    <3>1. Len(h) \in DOMAIN h
      BY <2>1, <1>3, Parity
    <3>2. Len(h) < Len(h)
      BY <2>1, <3>1, <1>4 DEF Whole
    <3> QED BY <3>2, <1>3
  <2> QED BY <2>1, <1>3, Parity
<1>6. Half(g, b, p)
  BY <1>1, <1>3, <1>4, <1>5 DEF Whole, Half
<1> QED BY <1>2, <1>6 DEF g

LEMMA AppendAnswer ==
  ASSUME NEW session \in SessionType, NEW b \in Bots, NEW p \in Posts, Bot[p] = b, NEW sender \in {"bot", "error"},
         \A c \in Bots \ {b} : Whole(session.history[c], c),
         Half(session.history[b], b, p)
  PROVE  \A c \in Bots : Whole(With(session, b, Entry(sender, p)).history[c], c)
<1> DEFINE h == session.history[b]
           g == With(session, b, Entry(sender, p)).history[b]
<1>1. /\ Entry(sender, p) \in Entries
      /\ Entry(sender, p).post = p /\ Entry(sender, p).sender = sender
      /\ Entry("user", p).post = p /\ Entry("user", p).sender = "user"
  BY DEF Entry, Entries
<1>2. \A c \in Bots \ {b} :
        With(session, b, Entry(sender, p)).history[c] = session.history[c]
  BY <1>1, WithEntry
<1>3. /\ Len(h) \in Nat /\ DOMAIN h = 1..Len(h) /\ DOMAIN g = 1..(Len(h) + 1)
      /\ g \in Seq(Entries) /\ Len(g) = Len(h) + 1
      /\ \A i \in 1..Len(h) : g[i] = h[i]
      /\ g[Len(h) + 1] = Entry(sender, p)
  BY <1>1, WithEntry
<1>4. Half(h, b, p)
  OBVIOUS
<1> HIDE DEF g, h
<1>5. \A i \in DOMAIN g : Bot[g[i].post] = b
  BY <1>1, <1>3, <1>4 DEF Half
<1>6. ASSUME NEW i \in DOMAIN g, i % 2 = 1
      PROVE  i < Len(g) /\ Exchange(g[i], g[i + 1])
  <2>1. i # Len(g)
    BY <1>3, <1>4, <1>6, Parity DEF Half
  <2>2. CASE i = Len(h)
    <3>1. i < Len(g) /\ g[i] = Entry("user", p) /\ g[i + 1] = Entry(sender, p)
      BY <2>2, <1>3, <1>4 DEF Half
    <3>2. Exchange(Entry("user", p), Entry(sender, p))
      BY <1>1 DEF Exchange
    <3> QED BY <3>1, <3>2
  <2>3. CASE i # Len(h)
    <3>1. i \in 1..Len(h) /\ i + 1 \in 1..Len(h)
      BY <2>1, <2>3, <1>3
    <3>2. i < Len(h) /\ Exchange(h[i], h[i + 1])
      BY <3>1, <2>3, <1>3, <1>4, <1>6 DEF Half
    <3> QED BY <3>1, <3>2, <1>3
  <2> QED BY <2>2, <2>3
<1>7. Whole(g, b)
  BY <1>5, <1>6 DEF Whole
<1> QED BY <1>2, <1>7 DEF g

LEMMA AppendHeard ==
  ASSUME NEW session \in SessionType, NEW b \in Bots, NEW sender, NEW p \in Posts,
         Entry(sender, p) \in Entries, NEW hd,
         Heard(session, hd), sender = "bot" => hd[p] > 0
  PROVE  Heard(With(session, b, Entry(sender, p)), hd)
<1>1. Entry(sender, p).post = p /\ Entry(sender, p).sender = sender
  BY DEF Entry
<1> DEFINE new == With(session, b, Entry(sender, p))
<1>2. \A c \in Bots \ {b} : new.history[c] = session.history[c]
  BY WithEntry
<1> DEFINE h == session.history[b]
           g == new.history[b]
<1>3. /\ Len(h) \in Nat /\ DOMAIN h = 1..Len(h) /\ DOMAIN g = 1..(Len(h) + 1)
      /\ \A i \in 1..Len(h) : g[i] = h[i]
      /\ g[Len(h) + 1] = Entry(sender, p)
  BY WithEntry
<1> HIDE DEF new
<1>4. ASSUME NEW i \in DOMAIN g, g[i].sender = "bot"
      PROVE  hd[g[i].post] > 0
  <2>1. \A k \in DOMAIN h : h[k].sender = "bot" => hd[h[k].post] > 0
    BY DEF Heard
  <2> HIDE DEF g, h
  <2>2. CASE i = Len(h) + 1
    BY <2>2, <1>1, <1>3, <1>4
  <2>3. CASE i # Len(h) + 1
    <3>1. i \in 1..Len(h)
      BY <2>3, <1>3
    <3>2. g[i] = h[i] /\ i \in DOMAIN h
      BY <3>1, <1>3
    <3> QED BY <3>2, <2>1, <1>4
  <2> QED BY <2>2, <2>3
<1>5. ASSUME NEW c \in Bots \ {b}, NEW i \in DOMAIN new.history[c],
             new.history[c][i].sender = "bot"
      PROVE  hd[new.history[c][i].post] > 0
  BY <1>2, <1>5 DEF Heard
<1> QED BY <1>4, <1>5 DEF Heard, new

LEMMA AppendHolds ==
  ASSUME NEW session \in SessionType, NEW p \in Posts, NEW sender, Entry(sender, p) \in Entries
  PROVE  /\ Holds(With(session, Bot[p], Entry(sender, p)), p)
         /\ \A r \in Requests : Holds(session, r) =>
              Holds(With(session, Bot[p], Entry(sender, p)), r)
<1> DEFINE new == With(session, Bot[p], Entry(sender, p))
<1>1. Bot[p] \in Bots /\ Entry(sender, p).post = p
  BY ChatAssumption DEF ChatAssumption, Entry
<1>2. new.rest = session.rest
  BY <1>1, WithEntry
<1>3. \A c \in Bots \ {Bot[p]} : new.history[c] = session.history[c]
  BY <1>1, WithEntry
<1> DEFINE h == session.history[Bot[p]]
           g == new.history[Bot[p]]
<1>4. /\ Len(h) \in Nat /\ DOMAIN h = 1..Len(h) /\ DOMAIN g = 1..(Len(h) + 1)
      /\ \A i \in 1..Len(h) : g[i] = h[i]
      /\ g[Len(h) + 1] = Entry(sender, p)
  <2>1. PICK b \in Bots : b = Bot[p]
    BY <1>1
  <2>2. LET f == session.history[b]
            k == With(session, b, Entry(sender, p)).history[b]
        IN /\ Len(f) \in Nat /\ DOMAIN f = 1..Len(f) /\ DOMAIN k = 1..(Len(f) + 1)
           /\ \A i \in 1..Len(f) : k[i] = f[i]
           /\ k[Len(f) + 1] = Entry(sender, p)
    BY WithEntry
  <2> QED BY <2>1, <2>2
<1> HIDE DEF new
<1>5. Holds(new, p)
  <2>1. Len(h) + 1 \in DOMAIN g /\ g[Len(h) + 1].post = p
    <3> HIDE DEF g, h
    <3> QED BY <1>1, <1>4
  <2> QED BY <2>1 DEF Holds
<1>6. ASSUME NEW r \in Requests, Holds(session, r) PROVE Holds(new, r)
  <2>1. CASE r \in Others
    BY <2>1, <1>6, <1>2, ChatAssumption DEF ChatAssumption, Holds
  <2>2. CASE r \in Posts
    <3>1. Bot[r] \in Bots
      BY <2>2, ChatAssumption DEF ChatAssumption
    <3>2. PICK i \in DOMAIN session.history[Bot[r]] : session.history[Bot[r]][i].post = r
      BY <2>2, <1>6, ChatAssumption DEF ChatAssumption, Holds
    <3>3. i \in DOMAIN new.history[Bot[r]] /\ new.history[Bot[r]][i].post = r
      <4>1. CASE Bot[r] = Bot[p]
        BY <4>1, <3>2, <1>4
      <4>2. CASE Bot[r] # Bot[p]
        BY <4>2, <3>1, <3>2, <1>3
      <4> QED BY <4>1, <4>2
    <3> QED BY <3>3, <2>2 DEF Holds
  <2> QED BY <2>1, <2>2 DEF Requests
<1> QED BY <1>5, <1>6 DEF new

(* A session stays orderly if more posts count, or what the posts in it    *)
(* have seen is the same.                                                  *)
LEMMA OrderlyKept ==
  ASSUME NEW session, NEW posts, NEW more, NEW sn, NEW sm,
         Orderly(session, posts, sn), posts \subseteq more,
         \A x \in posts : sm[x] = sn[x]
  PROVE  Orderly(session, more, sm)
BY DEF Orderly, PostsIn, InOrder

LEMMA InitIInv == Init => IInv
<1> SUFFICES ASSUME Init PROVE IInv
  OBVIOUS
<1> USE ChatAssumption DEF ChatAssumption, Init
<1>1. Saved = {}
  BY DEF Saved
<1>2. Empty \in SessionType
  BY EmptySeq DEF Empty, SessionType
<1>3. TypeOK
  BY <1>2, EmptySeq DEF TypeOK, Requests
<1>4. SavedDone /\ OthersSave
  BY <1>1 DEF SavedDone, OthersSave, Requests
<1>5. OrderInv
  BY DEF OrderInv, Orderly, PostsIn, InOrder, Empty, Active
<1>6. WholeInv
  BY DEF WholeInv, Whole, Empty, Requests
<1>7. KeptInv
  BY <1>1 DEF KeptInv, Active
<1>8. HeardInv
  BY DEF HeardInv, Heard, Empty, Active
<1> QED BY <1>3, <1>4, <1>5, <1>6, <1>7, <1>8 DEF IInv

-----------------------------------------------------------------------------
(* A request begins: it has seen what was saved, and all that was so of    *)
(* the others is so still.                                                 *)
LEMMA Begin ==
  ASSUME IInv, NEW r \in Requests, NEW session \in SessionType, Load(r, session)
  PROVE  /\ pc[r] = "idle" /\ r \notin Saved /\ Saved \subseteq Requests
         /\ Saved' = Saved /\ saves' = saves /\ store' = store
         /\ copy' \in [Requests -> SessionType] /\ copy'[r] = session
         /\ seen' \in [Requests -> SUBSET Requests] /\ seen'[r] = Saved
         /\ \A q \in Requests \ {r} : copy'[q] = copy[q] /\ seen'[q] = seen[q]
         /\ Orderly(store, Saved, seen')
         /\ \A q \in Requests \ {r} : Active(q) => Orderly(copy'[q], seen'[q] \cup {q}, seen')
         /\ \A x \in Requests : Excused(x, saves, seen) => Excused(x, saves, seen')
<1>1. /\ pc[r] = "idle"
      /\ copy' = [copy EXCEPT ![r] = session]
      /\ seen' = [seen EXCEPT ![r] = Saved]
      /\ UNCHANGED <<store, saves>>
  BY DEF Load
<1>2. /\ r \notin Saved /\ Saved' = Saved /\ Saved \subseteq Requests
      /\ \A q \in Requests : seen[q] \subseteq Saved
  <2>1. Saved' = Saved
    BY <1>1 DEF Saved
  <2>2. Saved \subseteq Requests
    BY ElementOfSeq, LenProperties DEF Saved, IInv, TypeOK
  <2> QED BY <1>1, <2>1, <2>2 DEF IInv, SavedDone
<1>3. /\ copy' \in [Requests -> SessionType] /\ copy'[r] = session
      /\ seen' \in [Requests -> SUBSET Requests] /\ seen'[r] = Saved
      /\ \A q \in Requests \ {r} : copy'[q] = copy[q] /\ seen'[q] = seen[q]
  BY <1>1, <1>2 DEF IInv, TypeOK
<1>4. Orderly(store, Saved, seen')
  <2>1. \A x \in Saved : seen'[x] = seen[x]
    BY <1>2, <1>3
  <2> QED BY <2>1, OrderlyKept DEF IInv, OrderInv
<1>5. ASSUME NEW q \in Requests \ {r}, Active(q)
      PROVE  Orderly(copy'[q], seen'[q] \cup {q}, seen')
  <2>1. \A x \in seen[q] \cup {q} : seen'[x] = seen[x]
    BY <1>2, <1>3
  <2>2. Orderly(copy[q], seen[q] \cup {q}, seen)
    BY <1>5 DEF IInv, OrderInv
  <2> QED BY <2>1, <2>2, <1>3, OrderlyKept
<1>6. ASSUME NEW x \in Requests, Excused(x, saves, seen)
      PROVE  Excused(x, saves, seen')
  <2>1. \A j \in DOMAIN saves : seen'[saves[j]] = seen[saves[j]]
    BY <1>2, <1>3 DEF Saved
  <2> QED BY <2>1, <1>6 DEF Excused
<1> QED BY <1>1, <1>2, <1>3, <1>4, <1>5, <1>6

LEMMA PostIInv == ASSUME IInv, NEW p \in Posts, Post(p) PROVE IInv'
<1> DEFINE mine == With(store, Bot[p], Entry("user", p))
<1>1. /\ pc' = [pc EXCEPT ![p] = "calling"] /\ Load(p, mine)
      /\ base' = base /\ heard' = heard
  BY DEF Post, Goto
<1>2. /\ Entry("user", p) \in Entries /\ Entry("user", p).sender = "user"
      /\ Bot[p] \in Bots /\ p \in Requests /\ p \notin Others
  BY ChatAssumption DEF ChatAssumption, Entry, Entries, Requests
<1>3. mine \in SessionType /\ store \in SessionType
  BY <1>2, WithEntry DEF IInv, TypeOK
<1>4. /\ pc[p] = "idle" /\ p \notin Saved /\ Saved \subseteq Requests
      /\ Saved' = Saved /\ saves' = saves /\ store' = store
      /\ copy' \in [Requests -> SessionType] /\ copy'[p] = mine
      /\ seen' \in [Requests -> SUBSET Requests] /\ seen'[p] = Saved
      /\ \A q \in Requests \ {p} : copy'[q] = copy[q] /\ seen'[q] = seen[q]
      /\ Orderly(store, Saved, seen')
      /\ \A q \in Requests \ {p} : Active(q) => Orderly(copy'[q], seen'[q] \cup {q}, seen')
      /\ \A x \in Requests : Excused(x, saves, seen) => Excused(x, saves, seen')
  BY <1>1, <1>2, <1>3, Begin
<1>5. Orderly(mine, seen'[p] \cup {p}, seen')
  <2>1. Orderly(store, seen'[p] \cup {p}, seen')
    BY <1>4, OrderlyKept
  <2> QED BY <2>1, <1>2, <1>3, AppendOrderly
<1>6. /\ \A c \in Bots \ {Bot[p]} : Whole(mine.history[c], c)
      /\ Half(mine.history[Bot[p]], Bot[p], p)
  BY <1>2, <1>3, AppendUser DEF IInv, WholeInv
<1>7. Holds(mine, p) /\ \A r \in Requests : Holds(store, r) => Holds(mine, r)
  BY <1>2, <1>3, AppendHolds
<1>8. Heard(mine, heard)
  BY <1>2, <1>3, AppendHeard DEF IInv, HeardInv
<1> HIDE DEF mine
<1>9. /\ pc' \in [Requests -> {"idle", "calling", "saving", "done", "failed"}]
      /\ pc'[p] = "calling" /\ \A q \in Requests \ {p} : pc'[q] = pc[q]
      /\ Active(p)' /\ \A q \in Requests \ {p} : Active(q)' <=> Active(q)
  BY <1>1, <1>2 DEF IInv, TypeOK, Active
<1>10. TypeOK'
  BY <1>1, <1>4, <1>9 DEF IInv, TypeOK
<1>11. SavedDone' /\ OthersSave'
  BY <1>1, <1>2, <1>4, <1>9 DEF IInv, SavedDone, OthersSave, Requests
<1>12. OrderInv'
  BY <1>2, <1>4, <1>5, <1>9 DEF OrderInv
<1>13. WholeInv'
  BY <1>2, <1>4, <1>6, <1>9 DEF IInv, WholeInv, Requests
<1>14. KeptInv'
  <2>1. \A r \in Saved' : Holds(store', r) \/ Excused(r, saves', seen')
    BY <1>4 DEF IInv, KeptInv
  <2>2. ASSUME NEW q \in Requests, Active(q)', NEW r \in seen'[q]
        PROVE  Holds(copy'[q], r) \/ Excused(r, saves', seen') \/ (r \in Others /\ q \in Others)
    <3>1. CASE q = p
      BY <3>1, <2>1, <2>2, <1>4, <1>7
    <3>2. CASE q # p
      <4>1. Active(q) /\ copy'[q] = copy[q] /\ seen'[q] = seen[q]
        BY <3>2, <2>2, <1>4, <1>9
      <4>2. r \in Requests
        BY <4>1, <2>2, <1>4
      <4> QED BY <4>1, <4>2, <2>2, <1>4 DEF IInv, KeptInv
    <3> QED BY <3>1, <3>2
  <2>3. \A q \in Requests : Active(q)' => Holds(copy'[q], q)
    BY <1>4, <1>7, <1>9 DEF IInv, KeptInv
  <2> QED BY <2>1, <2>2, <2>3 DEF KeptInv
<1>15. HeardInv'
  BY <1>1, <1>2, <1>4, <1>8, <1>9 DEF IInv, HeardInv, Requests
<1> QED BY <1>10, <1>11, <1>12, <1>13, <1>14, <1>15 DEF IInv

LEMMA OpenIInv == ASSUME IInv, NEW o \in Others, Open(o) PROVE IInv'
<1> DEFINE mine == [store EXCEPT !.rest = o]
<1>1. /\ pc' = [pc EXCEPT ![o] = "saving"] /\ Load(o, mine)
      /\ base' = base /\ heard' = heard
  BY DEF Open, Goto, postVars
<1>2. o \in Requests /\ o \notin Posts
  BY ChatAssumption DEF ChatAssumption, Requests
<1>3. /\ mine \in SessionType /\ store \in SessionType
      /\ mine.history = store.history /\ mine.rest = o
  BY DEF IInv, TypeOK, SessionType
<1>4. /\ pc[o] = "idle" /\ o \notin Saved /\ Saved \subseteq Requests
      /\ Saved' = Saved /\ saves' = saves /\ store' = store
      /\ copy' \in [Requests -> SessionType] /\ copy'[o] = mine
      /\ seen' \in [Requests -> SUBSET Requests] /\ seen'[o] = Saved
      /\ \A q \in Requests \ {o} : copy'[q] = copy[q] /\ seen'[q] = seen[q]
      /\ Orderly(store, Saved, seen')
      /\ \A q \in Requests \ {o} : Active(q) => Orderly(copy'[q], seen'[q] \cup {q}, seen')
      /\ \A x \in Requests : Excused(x, saves, seen) => Excused(x, saves, seen')
  BY <1>1, <1>2, <1>3, Begin
<1> HIDE DEF mine
<1>5. Orderly(mine, seen'[o] \cup {o}, seen')
  <2>1. Orderly(store, seen'[o] \cup {o}, seen')
    BY <1>4, OrderlyKept
  <2> QED BY <2>1, <1>3 DEF Orderly
<1>6. \A c \in Bots : Whole(mine.history[c], c)
  BY <1>3 DEF IInv, WholeInv
<1>7. Holds(mine, o) /\ \A r \in Requests : Holds(store, r) => Holds(mine, r) \/ r \in Others
  BY <1>3 DEF Holds
<1>8. Heard(mine, heard)
  BY <1>3 DEF IInv, HeardInv, Heard
<1>9. /\ pc' \in [Requests -> {"idle", "calling", "saving", "done", "failed"}]
      /\ pc'[o] = "saving" /\ \A q \in Requests \ {o} : pc'[q] = pc[q]
      /\ Active(o)' /\ \A q \in Requests \ {o} : Active(q)' <=> Active(q)
  BY <1>1, <1>2 DEF IInv, TypeOK, Active
<1>10. TypeOK'
  BY <1>1, <1>4, <1>9 DEF IInv, TypeOK
<1>11. SavedDone' /\ OthersSave'
  BY <1>1, <1>2, <1>4, <1>9 DEF IInv, SavedDone, OthersSave, Requests
<1>12. OrderInv'
  BY <1>2, <1>4, <1>5, <1>9 DEF OrderInv
<1>13. WholeInv'
  BY <1>2, <1>4, <1>6, <1>9 DEF IInv, WholeInv, Requests
<1>14. KeptInv'
  <2>1. \A r \in Saved' : Holds(store', r) \/ Excused(r, saves', seen')
    BY <1>4 DEF IInv, KeptInv
  <2>2. ASSUME NEW q \in Requests, Active(q)', NEW r \in seen'[q]
        PROVE  Holds(copy'[q], r) \/ Excused(r, saves', seen') \/ (r \in Others /\ q \in Others)
    <3>1. CASE q = o
      BY <3>1, <2>1, <2>2, <1>4, <1>7
    <3>2. CASE q # o
      <4>1. Active(q) /\ copy'[q] = copy[q] /\ seen'[q] = seen[q]
        BY <3>2, <2>2, <1>4, <1>9
      <4>2. r \in Requests
        BY <4>1, <2>2, <1>4
      <4> QED BY <4>1, <4>2, <2>2, <1>4 DEF IInv, KeptInv
    <3> QED BY <3>1, <3>2
  <2>3. \A q \in Requests : Active(q)' => Holds(copy'[q], q)
    BY <1>4, <1>7, <1>9 DEF IInv, KeptInv
  <2> QED BY <2>1, <2>2, <2>3 DEF KeptInv
<1>15. HeardInv'
  BY <1>1, <1>2, <1>4, <1>8, <1>9 DEF IInv, HeardInv, Requests
<1> QED BY <1>10, <1>11, <1>12, <1>13, <1>14, <1>15 DEF IInv

-----------------------------------------------------------------------------
(* A chatbot may take the message: what was heard only grows, and stays    *)
(* below the number of the next gateway.                                   *)
LEMMA Heeds ==
  ASSUME IInv, NEW p \in Posts, NEW times \in SUBSET {0, 1}, Call(p, times)
  PROVE  /\ pc[p] = "calling" /\ p \in Requests
         /\ store' = store /\ saves' = saves /\ seen' = seen /\ Saved' = Saved
         /\ heard' \in [Posts -> Nat] /\ heard'[p] <= base[p]
         /\ times = {1} => heard'[p] > 0
         /\ \A x \in Posts \ {p} : heard'[x] = heard[x]
         /\ Heard(store, heard')
         /\ \A r \in Requests : Active(r) => Heard(copy[r], heard')
<1>1. PICK n \in times : heard' = [heard EXCEPT ![p] = @ + n]
  BY DEF Call
<1>2. /\ pc[p] = "calling" /\ p \in Requests
      /\ store' = store /\ saves' = saves /\ seen' = seen /\ Saved' = Saved
  BY DEF Call, Requests, Saved
<1>3. heard \in [Posts -> Nat] /\ base \in [Posts -> Nat] /\ n \in {0, 1}
  BY ChatAssumption DEF ChatAssumption, IInv, TypeOK
<1>4. heard[p] < base[p]
  BY <1>2 DEF IInv, HeardInv
<1>5. /\ heard' \in [Posts -> Nat] /\ heard'[p] = heard[p] + n
      /\ \A x \in Posts \ {p} : heard'[x] = heard[x]
  BY <1>1, <1>3
<1>6. \A x \in Posts : heard[x] > 0 => heard'[x] > 0
  BY <1>3, <1>5
<1>7. ASSUME NEW session \in SessionType, Heard(session, heard)
      PROVE  Heard(session, heard')
  <2>1. ASSUME NEW b \in Bots, NEW i \in DOMAIN session.history[b]
        PROVE  session.history[b][i].post \in Posts
    <3>1. session.history[b] \in Seq(Entries)
      BY DEF SessionType
    <3>2. session.history[b][i] \in Entries
      BY <3>1, ElementOfSeq, LenProperties
    <3> QED BY <3>2 DEF Entries
  <2> QED BY <2>1, <1>6, <1>7 DEF Heard
<1>8. /\ Heard(store, heard')
      /\ \A r \in Requests : Active(r) => Heard(copy[r], heard')
  BY <1>7 DEF IInv, TypeOK, HeardInv
<1>9. heard'[p] <= base[p] /\ (times = {1} => heard'[p] > 0)
  <2>1. heard[p] \in Nat /\ base[p] \in Nat
    BY <1>3
  <2>2. times = {1} => n = 1
    BY <1>1
  <2> QED BY <2>1, <2>2, <1>3, <1>4, <1>5
<1> QED BY <1>2, <1>5, <1>8, <1>9

LEMMA NextGatewayIInv == ASSUME IInv, NEW p \in Posts, NextGateway(p) PROVE IInv'
<1>1. /\ Call(p, {0, 1}) /\ base[p] < Gateways
      /\ base' = [base EXCEPT ![p] = @ + 1] /\ pc' = pc /\ copy' = copy
  BY DEF NextGateway
<1>2. /\ store' = store /\ saves' = saves /\ seen' = seen /\ Saved' = Saved
      /\ heard' \in [Posts -> Nat] /\ heard'[p] <= base[p]
      /\ \A x \in Posts \ {p} : heard'[x] = heard[x]
      /\ Heard(store, heard')
      /\ \A r \in Requests : Active(r) => Heard(copy[r], heard')
  BY <1>1, Heeds
<1>3. /\ base' \in [Posts -> 1..Gateways] /\ base'[p] = base[p] + 1 /\ base[p] \in Nat
      /\ \A x \in Posts \ {p} : base'[x] = base[x]
  BY <1>1, ChatAssumption DEF ChatAssumption, IInv, TypeOK
<1>4. TypeOK'
  BY <1>1, <1>2, <1>3 DEF IInv, TypeOK
<1>5. SavedDone' /\ OthersSave'
  BY <1>1, <1>2 DEF IInv, SavedDone, OthersSave
<1>6. OrderInv'
  BY <1>1, <1>2 DEF IInv, OrderInv, Active
<1>7. WholeInv'
  BY <1>1, <1>2 DEF IInv, WholeInv
<1>8. KeptInv'
  BY <1>1, <1>2 DEF IInv, KeptInv, Active
<1>9. HeardInv'
  <2>1. heard'[p] < base'[p]
    BY <1>2, <1>3
  <2>2. ASSUME NEW x \in Posts
        PROVE  heard'[x] <= base'[x] /\ (pc'[x] \in {"idle", "calling"} => heard'[x] < base'[x])
    BY <2>1, <1>1, <1>2, <1>3 DEF IInv, HeardInv
  <2> QED BY <2>2, <1>1, <1>2 DEF HeardInv, Active
<1> QED BY <1>4, <1>5, <1>6, <1>7, <1>8, <1>9 DEF IInv

(* The answer, of a chatbot or not.                                        *)
LEMMA AnswerIInv ==
  ASSUME IInv, NEW p \in Posts, NEW times \in SUBSET {0, 1}, NEW sender \in {"bot", "error"},
         Call(p, times), Answer(p, sender), sender = "bot" => times = {1}
  PROVE  IInv'
<1> DEFINE mine == With(copy[p], Bot[p], Entry(sender, p))
<1>1. /\ pc' = [pc EXCEPT ![p] = "saving"] /\ copy' = [copy EXCEPT ![p] = mine]
      /\ base' = base
  BY DEF Answer, Goto
<1>2. /\ pc[p] = "calling" /\ p \in Requests
      /\ store' = store /\ saves' = saves /\ seen' = seen /\ Saved' = Saved
      /\ heard' \in [Posts -> Nat] /\ heard'[p] <= base[p]
      /\ times = {1} => heard'[p] > 0
      /\ \A x \in Posts \ {p} : heard'[x] = heard[x]
      /\ Heard(store, heard')
      /\ \A r \in Requests : Active(r) => Heard(copy[r], heard')
  BY Heeds
<1>3. /\ Entry(sender, p) \in Entries /\ Bot[p] \in Bots /\ Active(p) /\ p \notin Others
  BY <1>2, ChatAssumption DEF ChatAssumption, Entry, Entries, Active
<1>4. copy[p] \in SessionType /\ mine \in SessionType
  <2>1. copy[p] \in SessionType
    BY <1>2 DEF IInv, TypeOK
  <2> QED BY <2>1, <1>3, WithEntry
<1>5. Orderly(mine, seen[p] \cup {p}, seen)
  BY <1>2, <1>3, <1>4, AppendOrderly DEF IInv, OrderInv
<1>6. \A c \in Bots : Whole(mine.history[c], c)
  BY <1>2, <1>3, <1>4, AppendAnswer DEF IInv, WholeInv
<1>7. Holds(mine, p) /\ \A r \in Requests : Holds(copy[p], r) => Holds(mine, r)
  BY <1>3, <1>4, AppendHolds
<1>8. Heard(mine, heard')
  BY <1>2, <1>3, <1>4, AppendHeard
<1> HIDE DEF mine
<1>9. /\ pc' \in [Requests -> {"idle", "calling", "saving", "done", "failed"}]
      /\ pc'[p] = "saving" /\ \A q \in Requests \ {p} : pc'[q] = pc[q]
      /\ \A q \in Requests : Active(q)' <=> Active(q)
      /\ copy' \in [Requests -> SessionType] /\ copy'[p] = mine
      /\ \A q \in Requests \ {p} : copy'[q] = copy[q]
  BY <1>1, <1>2, <1>4 DEF IInv, TypeOK, Active
<1>10. TypeOK'
  BY <1>1, <1>2, <1>9 DEF IInv, TypeOK
<1>11. SavedDone' /\ OthersSave'
  BY <1>2, <1>3, <1>9 DEF IInv, SavedDone, OthersSave, Requests
<1>12. OrderInv'
  BY <1>2, <1>5, <1>9 DEF IInv, OrderInv
<1>13. WholeInv'
  BY <1>2, <1>6, <1>9 DEF IInv, WholeInv, Requests
<1>14. KeptInv'
  <2>1. \A r \in Saved' : Holds(store', r) \/ Excused(r, saves', seen')
    BY <1>2 DEF IInv, KeptInv
  <2>2. ASSUME NEW q \in Requests, Active(q)', NEW r \in seen'[q]
        PROVE  Holds(copy'[q], r) \/ Excused(r, saves', seen') \/ (r \in Others /\ q \in Others)
    <3>1. r \in Requests
      BY <2>2, <1>2 DEF IInv, TypeOK
    <3>2. Holds(copy[q], r) \/ Excused(r, saves, seen) \/ (r \in Others /\ q \in Others)
      BY <2>2, <1>2, <1>9 DEF IInv, KeptInv
    <3> QED BY <3>1, <3>2, <1>2, <1>7, <1>9
  <2>3. \A q \in Requests : Active(q)' => Holds(copy'[q], q)
    BY <1>7, <1>9 DEF IInv, KeptInv
  <2> QED BY <2>1, <2>2, <2>3 DEF KeptInv
<1>15. HeardInv'
  BY <1>1, <1>2, <1>8, <1>9 DEF IInv, HeardInv, Requests
<1> QED BY <1>10, <1>11, <1>12, <1>13, <1>14, <1>15 DEF IInv
-----------------------------------------------------------------------------
(* The request ends and its session replaces the one that is there.        *)
LEMMA SaveIInv == ASSUME IInv, NEW r \in Requests, Save(r) PROVE IInv'
<1>1. /\ pc[r] = "saving" /\ store' = copy[r] /\ saves' = Append(saves, r)
      /\ pc' = [pc EXCEPT ![r] = "done"] /\ copy' = [copy EXCEPT ![r] = Empty]
      /\ base' = base /\ heard' = heard /\ seen' = seen
  BY DEF Save, Goto, postVars
<1>2. /\ saves \in Seq(Requests) /\ saves' \in Seq(Requests)
      /\ Len(saves) \in Nat /\ DOMAIN saves = 1..Len(saves)
      /\ DOMAIN saves' = 1..(Len(saves) + 1)
      /\ \A i \in 1..Len(saves) : saves'[i] = saves[i]
      /\ saves'[Len(saves) + 1] = r
  BY <1>1, AppendProperties, LenProperties DEF IInv, TypeOK
<1>3. /\ Saved' = Saved \cup {r}
      /\ \A x \in Requests : Excused(x, saves, seen) => Excused(x, saves', seen)
      /\ \A x \in Saved : x \notin seen[r] => Excused(x, saves', seen)
      /\ \A x \in Saved : x \in Others /\ r \in Others => Excused(x, saves', seen)
  <2>1. Saved' = Saved \cup {r}
    BY <1>2 DEF Saved
  <2>2. \A x \in Requests : Excused(x, saves, seen) => Excused(x, saves', seen)
    BY <1>2 DEF Excused
  <2>3. ASSUME NEW x \in Saved, x \notin seen[r] \/ (x \in Others /\ r \in Others)
        PROVE  Excused(x, saves', seen)
    <3>1. PICK i \in 1..Len(saves) : saves[i] = x
      BY <1>2 DEF Saved
    <3>2. /\ i \in DOMAIN saves' /\ Len(saves) + 1 \in DOMAIN saves'
          /\ i < Len(saves) + 1 /\ saves'[i] = x /\ saves'[Len(saves) + 1] = r
      BY <3>1, <1>2
    <3> QED BY <3>2, <2>3 DEF Excused
  <2> QED BY <2>1, <2>2, <2>3
<1>4. Empty \in SessionType
  BY EmptySeq DEF Empty, SessionType
<1>5. /\ pc' \in [Requests -> {"idle", "calling", "saving", "done", "failed"}]
      /\ pc'[r] = "done" /\ ~Active(r)'
      /\ copy' \in [Requests -> SessionType] /\ copy[r] \in SessionType
      /\ \A q \in Requests \ {r} : /\ pc'[q] = pc[q] /\ copy'[q] = copy[q]
                                   /\ Active(q)' <=> Active(q)
      /\ Active(r)
  BY <1>1, <1>4 DEF IInv, TypeOK, Active
<1>6. /\ seen[r] \subseteq Saved /\ Saved \subseteq Requests
  BY <1>2, ElementOfSeq DEF IInv, SavedDone, Saved
<1>7. TypeOK'
  BY <1>1, <1>2, <1>5 DEF IInv, TypeOK
<1>8. SavedDone' /\ OthersSave'
  BY <1>1, <1>3, <1>5 DEF IInv, SavedDone, OthersSave, Requests
<1>9. OrderInv'
  <2>1. Orderly(copy[r], Saved \cup {r}, seen)
    <3>1. Orderly(copy[r], seen[r] \cup {r}, seen)
      BY <1>5 DEF IInv, OrderInv
    <3> QED BY <3>1, <1>6, OrderlyKept
  <2> QED BY <2>1, <1>1, <1>3, <1>5 DEF IInv, OrderInv
<1>10. WholeInv'
  BY <1>1, <1>5 DEF IInv, WholeInv, Requests
<1>11. KeptInv'
  <2>1. ASSUME NEW x \in Saved \cup {r}
        PROVE  Holds(copy[r], x) \/ Excused(x, saves', seen)
    <3>1. CASE x = r
      BY <3>1, <1>5 DEF IInv, KeptInv
    <3>2. CASE x \in Saved /\ x \in seen[r]
      <4>1. Holds(copy[r], x) \/ Excused(x, saves, seen) \/ (x \in Others /\ r \in Others)
        BY <3>2, <1>5 DEF IInv, KeptInv
      <4> QED BY <4>1, <3>2, <1>3, <1>6
    <3>3. CASE x \in Saved /\ x \notin seen[r]
      BY <3>3, <1>3
    <3> QED BY <2>1, <3>1, <3>2, <3>3
  <2>2. \A x \in Saved' : Holds(store', x) \/ Excused(x, saves', seen')
    BY <2>1, <1>1, <1>3
  <2>3. ASSUME NEW q \in Requests, Active(q)', NEW x \in seen'[q]
        PROVE  Holds(copy'[q], x) \/ Excused(x, saves', seen') \/ (x \in Others /\ q \in Others)
    <3>1. Active(q) /\ copy'[q] = copy[q] /\ seen'[q] = seen[q]
      BY <2>3, <1>1, <1>5
    <3>2. x \in Requests
      BY <3>1, <2>3 DEF IInv, TypeOK
    <3>3. Holds(copy[q], x) \/ Excused(x, saves, seen) \/ (x \in Others /\ q \in Others)
      BY <2>3, <3>1 DEF IInv, KeptInv
    <3> QED BY <3>1, <3>2, <3>3, <1>1, <1>3
  <2>4. \A q \in Requests : Active(q)' => Holds(copy'[q], q)
    BY <1>5 DEF IInv, KeptInv
  <2> QED BY <2>2, <2>3, <2>4 DEF KeptInv
<1>12. HeardInv'
  BY <1>1, <1>5 DEF IInv, HeardInv, Requests
<1> QED BY <1>7, <1>8, <1>9, <1>10, <1>11, <1>12 DEF IInv

LEMMA FailIInv == ASSUME IInv, NEW r \in Requests, Fail(r) PROVE IInv'
<1>1. /\ pc[r] \in {"calling", "saving"} /\ store' = store /\ saves' = saves
      /\ pc' = [pc EXCEPT ![r] = "failed"] /\ copy' = [copy EXCEPT ![r] = Empty]
      /\ base' = base /\ heard' = heard /\ seen' = seen /\ Saved' = Saved
  BY DEF Fail, Goto, postVars, Saved
<1>2. Empty \in SessionType
  BY EmptySeq DEF Empty, SessionType
<1>3. /\ pc' \in [Requests -> {"idle", "calling", "saving", "done", "failed"}]
      /\ pc'[r] = "failed" /\ ~Active(r)'
      /\ copy' \in [Requests -> SessionType]
      /\ \A q \in Requests \ {r} : /\ pc'[q] = pc[q] /\ copy'[q] = copy[q]
                                   /\ Active(q)' <=> Active(q)
  BY <1>1, <1>2 DEF IInv, TypeOK, Active
<1>4. TypeOK'
  BY <1>1, <1>3 DEF IInv, TypeOK
<1>5. SavedDone' /\ OthersSave'
  BY <1>1, <1>3 DEF IInv, SavedDone, OthersSave, Requests
<1>6. OrderInv'
  BY <1>1, <1>3 DEF IInv, OrderInv
<1>7. WholeInv'
  BY <1>1, <1>3 DEF IInv, WholeInv, Requests
<1>8. KeptInv'
  BY <1>1, <1>3 DEF IInv, KeptInv
<1>9. HeardInv'
  BY <1>1, <1>3 DEF IInv, HeardInv, Requests
<1> QED BY <1>4, <1>5, <1>6, <1>7, <1>8, <1>9 DEF IInv

-----------------------------------------------------------------------------
LEMMA StepIInv == IInv /\ [Next]_vars => IInv'
<1> SUFFICES ASSUME IInv, [Next]_vars PROVE IInv'
  OBVIOUS
<1>1. ASSUME NEW p \in Posts, Post(p) PROVE IInv'
  BY <1>1, PostIInv
<1>2. ASSUME NEW p \in Posts, Step(p) PROVE IInv'
  <2>1. CASE Replied(p)
    BY <2>1, AnswerIInv DEF Replied
  <2>2. CASE NextGateway(p)
    BY <2>2, NextGatewayIInv
  <2>3. CASE NoGateway(p)
    BY <2>3, AnswerIInv DEF NoGateway
  <2> QED BY <1>2, <2>1, <2>2, <2>3 DEF Step
<1>3. ASSUME NEW o \in Others, Open(o) PROVE IInv'
  BY <1>3, OpenIInv
<1>4. ASSUME NEW r \in Requests, Save(r) \/ Fail(r) PROVE IInv'
  BY <1>4, SaveIInv, FailIInv
<1>5. CASE UNCHANGED vars
  BY <1>5 DEF vars, IInv, TypeOK, SavedDone, OthersSave, OrderInv, WholeInv, KeptInv,
              HeardInv, Saved, Active
<1> QED BY <1>1, <1>2, <1>3, <1>4, <1>5 DEF Next, Finished

(* The invariant holds in every reachable state.                           *)
THEOREM Invariance == Spec => []IInv
BY InitIInv, StepIInv, PTL DEF Spec

(* Every variable keeps its type, and no gateway beyond the last is tried. *)
THEOREM TypeCorrect == Spec => []TypeOK
<1>1. IInv => TypeOK
  BY DEF IInv
<1> QED BY <1>1, Invariance, PTL

(* A saved history is made of messages and of what the request of each     *)
(* answered, whatever overlaps and fails.                                  *)
THEOREM ExchangesStayWhole == Spec => []WholeExchanges
<1>1. IInv => WholeExchanges
  BY DEF IInv, WholeInv, Whole, WholeExchanges
<1> QED BY <1>1, Invariance, PTL

(* A saved history is one that a user who waits could have.                *)
THEOREM HistoriesInOrder == Spec => []HistorySequential
<1>1. IInv => HistorySequential
  BY DEF IInv, OrderInv, Orderly, InOrder, HistorySequential
<1> QED BY <1>1, Invariance, PTL

(* Only a request that overlaps another one loses what it saved.           *)
THEOREM OnlyOverlapLoses == Spec => []KeptUnlessOverlapped
<1>1. ASSUME IInv, NEW r \in Saved PROVE Kept(r) \/ Overlapped(r)
  <2>1. Holds(store, r) \/ Excused(r, saves, seen)
    BY <1>1 DEF IInv, KeptInv
  <2>2. Holds(store, r) => Kept(r)
    BY DEF Holds, Kept
  <2>3. Excused(r, saves, seen) => Kept(r) \/ Overlapped(r)
    BY DEF Excused, Kept, Overlapped
  <2> QED BY <2>1, <2>2, <2>3
<1>2. IInv => KeptUnlessOverlapped
  BY <1>1 DEF KeptUnlessOverlapped
<1> QED BY <1>2, Invariance, PTL

(* A message is taken no more often than gateways were tried, and at least *)
(* once if a chatbot's answer to it is in a history.                       *)
THEOREM AnswersWereHeard == Spec => []HeardAsAnswered
<1>1. IInv => HeardAsAnswered
  BY DEF IInv, HeardInv, Heard, HeardAsAnswered
<1> QED BY <1>1, Invariance, PTL
=============================================================================
