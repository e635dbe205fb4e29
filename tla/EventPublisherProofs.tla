------------------------ MODULE EventPublisherProofs ------------------------
(***************************************************************************)
(* EventPublisher for any number of handlers, connections and threads, and *)
(* for every configuration.                                                *)
(***************************************************************************)
EXTENDS EventPublisher, FiniteSetTheorems, TLAPS

(* What a handler has behind it at each place: a pool, a stored row, an    *)
(* event that was kept, if events are.                                     *)
Keeps == config.enabled /\ config.outbox = "kept" /\ config.lossless

Placed ==
  \A h \in Handlers :
    /\ pc[h] \in {"acquire", "statement"} => mine[h] # None
    /\ pc[h] \in {"submit", "connect", "publish", "outbox"} => h \in stored
    /\ pc[h] = "return" /\ h \in Creates /\ Keeps => h \in queue \cup outbox

IInv ==
  TypeOK /\ Placed /\ NoPhantomEvents /\ BrokerHarmless /\ EventKept

LEMMA InitIInv == Init => IInv
BY DEF Init, IInv, TypeOK, Labels, Keeps, Placed, NoPhantomEvents, BrokerHarmless,
       EventKept, Handlers

-----------------------------------------------------------------------------

LEMMA DatabaseIInv ==
  ASSUME IInv, NEW h \in Handlers, DatabaseStep(h)
  PROVE  IInv'
<1> USE PublisherAssumption
    DEF PublisherAssumption, IInv, Goto, Answer, env, poolVars, eventVars, answerVars
<1>1. TypeOK'
  <2>1. CASE GetPool(h) \/ OpenPool(h) \/ OpenPoolFails(h)
    BY <2>1 DEF GetPool, OpenPool, OpenPoolFails, TypeOK, Labels
  <2>2. CASE Acquire(h)
    BY <2>2 DEF Acquire, TypeOK, Labels, Keeps, Placed
  <2>3. CASE Statement(h) \/ StatementFails(h)
    BY <2>3 DEF Statement, StatementFails, TypeOK, Labels
  <2> QED BY <2>1, <2>2, <2>3 DEF DatabaseStep
<1>2. Placed'
  <2>1. CASE GetPool(h) \/ OpenPool(h) \/ OpenPoolFails(h)
    BY <2>1 DEF GetPool, OpenPool, OpenPoolFails, TypeOK, Keeps, Placed
  <2>2. CASE Acquire(h)
    BY <2>2 DEF Acquire, TypeOK, Keeps, Placed
  <2>3. CASE Statement(h) \/ StatementFails(h)
    BY <2>3 DEF Statement, StatementFails, TypeOK, Keeps, Placed
  <2> QED BY <2>1, <2>2, <2>3 DEF DatabaseStep
<1>3. NoPhantomEvents'
  BY DEF DatabaseStep, GetPool, OpenPool, OpenPoolFails, Acquire, Statement,
         StatementFails, NoPhantomEvents
<1>4. BrokerHarmless' /\ EventKept'
  BY DEF DatabaseStep, GetPool, OpenPool, OpenPoolFails, Acquire, Statement,
         StatementFails, TypeOK, BrokerHarmless, EventKept, Handlers
<1> QED BY <1>1, <1>2, <1>3, <1>4

LEMMA SendEventIInv ==
  ASSUME IInv, NEW h \in Handlers, SendEventStep(h)
  PROVE  IInv'
<1> USE DEF IInv, Goto, Answer, env, poolVars, eventVars, answerVars
<1>1. h \in stored \/ pc[h] \notin {"submit", "connect", "publish", "outbox"}
  BY DEF Keeps, Placed
<1>2. h \in stored /\ h \in Creates /\ UNCHANGED stored
  BY <1>1 DEF SendEventStep, RunInExecutor, Disabled, ParamsRaise, Connect,
              Publish, SaveToOutbox, TypeOK
<1>3. TypeOK'
  BY <1>2 DEF SendEventStep, RunInExecutor, Disabled, ParamsRaise, Connect,
              Publish, SaveToOutbox, TypeOK, Labels
<1>4. Placed'
  BY <1>2 DEF SendEventStep, RunInExecutor, Disabled, ParamsRaise, Connect,
              Publish, SaveToOutbox, TypeOK, Keeps, Placed
<1>5. NoPhantomEvents'
  BY <1>2 DEF SendEventStep, RunInExecutor, Disabled, ParamsRaise, Connect,
              Publish, SaveToOutbox, NoPhantomEvents
<1>6. BrokerHarmless' /\ EventKept'
  BY <1>2 DEF SendEventStep, RunInExecutor, Disabled, ParamsRaise, Connect,
              Publish, SaveToOutbox, TypeOK, BrokerHarmless, EventKept,
              Handlers
<1> QED BY <1>3, <1>4, <1>5, <1>6

LEMMA ReturnIInv ==
  ASSUME IInv, NEW h \in Handlers, Return(h)
  PROVE  IInv'
BY DEF Return, IInv, Answer, Goto, env, poolVars, eventVars, TypeOK, Labels,
       Keeps, Placed, NoPhantomEvents, BrokerHarmless, EventKept, Handlers

LEMMA CrashIInv == IInv /\ Crash => IInv'
BY DEF Crash, IInv, env, eventVars, TypeOK, Labels, Keeps, Placed, NoPhantomEvents,
       BrokerHarmless, EventKept, Handlers

LEMMA ExpireIInv == IInv /\ ExpireOutbox => IInv'
BY DEF ExpireOutbox, IInv, env, poolVars, answerVars, TypeOK, Keeps, Placed,
       NoPhantomEvents, BrokerHarmless, EventKept, Handlers

LEMMA StepIInv == IInv /\ [Next]_vars => IInv'
<1> SUFFICES ASSUME IInv, [Next]_vars PROVE IInv'
  OBVIOUS
<1>1. CASE UNCHANGED vars
  BY <1>1 DEF vars, IInv, TypeOK, Keeps, Placed, NoPhantomEvents, BrokerHarmless,
              EventKept
<1>2. CASE BrokerChanges
  BY <1>2 DEF BrokerChanges, poolVars, eventVars, answerVars, IInv, TypeOK,
              Keeps, Placed, NoPhantomEvents, BrokerHarmless, EventKept
<1> QED BY <1>1, <1>2, DatabaseIInv, SendEventIInv, ReturnIInv, CrashIInv,
           ExpireIInv DEF Next

(* The invariant holds in every reachable state.                           *)
THEOREM Invariance == Spec => []IInv
BY InitIInv, StepIInv, PTL DEF Spec

(* Every variable keeps its type, and connections are of this process.     *)
THEOREM TypeCorrect == Spec => []TypeOK
<1>1. IInv => TypeOK
  BY DEF IInv
<1> QED BY <1>1, Invariance, PTL

(* Every event published or saved is about a message in the table.         *)
THEOREM EventsOfStoredMessages == Spec => []NoPhantomEvents
<1>1. IInv => NoPhantomEvents
  BY DEF IInv
<1> QED BY <1>1, Invariance, PTL

(* A failing broker fails no create: who was answered 500 met a failure of *)
(* the database or of the replica, or is a create of a configuration that  *)
(* does not parse, with its row stored.                                    *)
THEOREM BrokerNeverFailsCreate == Spec => []BrokerHarmless
<1>1. IInv => BrokerHarmless
  BY DEF IInv
<1> QED BY <1>1, Invariance, PTL

(* With an outbox that lasts, and if no service loses what it took, the    *)
(* event of every acknowledged create is in the queue or the outbox.       *)
THEOREM EveryEventKept == Spec => []EventKept
<1>1. IInv => EventKept
  BY DEF IInv
<1> QED BY <1>1, Invariance, PTL

(* After the race for the first pool a process opens no other.             *)
THEOREM PoolsSettle == Spec => NoMorePools
<1>1. ASSUME IInv, [Next]_vars, Settled, opened' # {}
      PROVE  Settled' /\ opened' = opened
  <2> USE <1>1 DEF Goto, Answer, env, poolVars, eventVars, answerVars, Settled,
                   IInv, TypeOK
  <2>1. ASSUME NEW h \in Handlers, DatabaseStep(h)
        PROVE  Settled' /\ opened' = opened
    BY <2>1 DEF DatabaseStep, GetPool, OpenPool, OpenPoolFails, Acquire,
                Statement, StatementFails
  <2>2. ASSUME NEW h \in Handlers, SendEventStep(h)
        PROVE  Settled' /\ opened' = opened
    BY <2>2 DEF SendEventStep, RunInExecutor, Disabled, ParamsRaise, Connect,
                Publish, SaveToOutbox
  <2>3. ASSUME NEW h \in Handlers, Return(h)
        PROVE  Settled' /\ opened' = opened
    BY <2>3 DEF Return
  <2>4. CASE BrokerChanges \/ ExpireOutbox \/ UNCHANGED vars
    BY <2>4 DEF BrokerChanges, ExpireOutbox, vars
  <2> QED BY <2>1, <2>2, <2>3, <2>4 DEF Next, Crash
<1>2. Spec => [][Next]_vars
  BY PTL DEF Spec
<1> QED BY <1>1, <1>2, Invariance, PTL DEF NoMorePools

-----------------------------------------------------------------------------
(* Connections and threads.  A connection is held during the statements    *)
(* only, never while an event is published: so who waits for one waits for *)
(* the database alone.                                                     *)

Using(p) == {h \in holding : mine[h] = p}

HeldInStatement == holding = {h \in Handlers : pc[h] = "statement"}
WithinLimits ==
  /\ \A p \in Handlers : Cardinality(Using(p)) <= PoolSize
  /\ Cardinality(InThread) <= Workers

ResourceInv == HeldInStatement /\ WithinLimits

LEMMA Finite ==
  /\ IsFiniteSet(Handlers) /\ PoolSize \in Nat \ {0} /\ Workers \in Nat \ {0}
  /\ \A S \in SUBSET Handlers : IsFiniteSet(S) /\ Cardinality(S) \in Nat
BY PublisherAssumption, FS_Subset, FS_CardinalityType DEF PublisherAssumption

LEMMA Fewer ==
  ASSUME NEW S \in SUBSET Handlers, NEW T \in SUBSET S, NEW n \in Nat, Cardinality(S) <= n
  PROVE  Cardinality(T) <= n
<1>1. /\ IsFiniteSet(S) /\ Cardinality(S) \in Nat /\ T \in SUBSET Handlers
      /\ Cardinality(T) \in Nat
  BY Finite
<1>2. Cardinality(T) <= Cardinality(S)
  BY <1>1, FS_Subset
<1> QED BY <1>1, <1>2

(* One more, where there was room for one.                                 *)
LEMMA OneMore ==
  ASSUME NEW S \in SUBSET Handlers, NEW h, NEW n \in Nat, Cardinality(S) < n
  PROVE  Cardinality(S \cup {h}) <= n
<1>1. IsFiniteSet(S) /\ Cardinality(S) \in Nat
  BY Finite
<1> QED BY <1>1, FS_AddElement

LEMMA Users ==
  ASSUME IInv, ResourceInv
  PROVE  /\ pc \in [Handlers -> Labels] /\ InThread \in SUBSET Handlers
         /\ \A p : Using(p) \in SUBSET Handlers
         /\ \A h \in Handlers : h \in holding <=> pc[h] = "statement"
         /\ holding \subseteq Handlers
         /\ mine \in [Handlers -> opened \cup {None}]
BY DEF IInv, TypeOK, ResourceInv, HeldInStatement, Using, InThread

(* A step of one handler that takes neither a connection nor a thread.     *)
LEMMA TakesNothing ==
  ASSUME IInv, ResourceInv, NEW h \in Handlers, NEW l \in Labels \ {"statement"}, Goto(h, l),
         l \in {"connect", "publish", "outbox"} => h \in InThread,
         holding' = holding \ {h},
         \A g \in Handlers \ {h} : mine'[g] = mine[g]
  PROVE  ResourceInv'
<1>1. pc'[h] = l /\ \A g \in Handlers \ {h} : pc'[g] = pc[g]
  BY Users DEF Goto
<1>2. HeldInStatement'
  BY <1>1, Users DEF HeldInStatement
<1>3. ASSUME NEW p \in Handlers PROVE Cardinality(Using(p)') <= PoolSize
  <2>1. Using(p)' \in SUBSET Using(p)
    BY Users DEF Using
  <2> QED BY <2>1, Users, Fewer, Finite DEF ResourceInv, WithinLimits
<1>4. Cardinality(InThread') <= Workers
  <2>1. InThread' \in SUBSET InThread
    BY <1>1 DEF InThread
  <2> QED BY <2>1, Users, Fewer, Finite DEF ResourceInv, WithinLimits
<1> QED BY <1>2, <1>3, <1>4 DEF ResourceInv, WithinLimits

LEMMA StepResources ==
  ASSUME IInv, ResourceInv, [Next]_vars
  PROVE  ResourceInv'
<1> USE DEF Goto, Answer, env, poolVars, eventVars, answerVars
<1>1. ASSUME NEW h \in Handlers, Acquire(h) PROVE ResourceInv'
  <2>1. /\ holding' = holding \cup {h} /\ mine' = mine
        /\ Cardinality(Using(mine[h])) < PoolSize
        /\ pc'[h] = "statement" /\ \A g \in Handlers \ {h} : pc'[g] = pc[g]
        /\ pc[h] = "acquire"
    BY <1>1, Users DEF Acquire, Using
  <2>2. HeldInStatement'
    BY <2>1, Users DEF HeldInStatement
  <2>3. ASSUME NEW p \in Handlers PROVE Cardinality(Using(p)') <= PoolSize
    <3>1. CASE p = mine[h]
      <4>1. Using(p)' = Using(p) \cup {h}
        BY <2>1, <3>1 DEF Using
      <4> QED BY <2>1, <3>1, <4>1, Users, OneMore, Finite
    <3>2. CASE p # mine[h]
      <4>1. Using(p)' = Using(p)
        BY <2>1, <3>2 DEF Using
      <4> QED BY <4>1 DEF ResourceInv, WithinLimits
    <3> QED BY <3>1, <3>2
  <2>4. InThread' = InThread
    BY <2>1 DEF InThread
  <2> QED BY <2>2, <2>3, <2>4 DEF ResourceInv, WithinLimits
<1>2. ASSUME NEW h \in Handlers, RunInExecutor(h) PROVE ResourceInv'
  <2>1. /\ UNCHANGED <<holding, mine>> /\ Cardinality(InThread) < Workers
        /\ pc[h] = "submit" /\ pc'[h] = "connect"
        /\ \A g \in Handlers \ {h} : pc'[g] = pc[g]
    BY <1>2, Users DEF RunInExecutor
  <2>2. InThread' = InThread \cup {h}
    BY <2>1 DEF InThread
  <2>3. Cardinality(InThread') <= Workers
    BY <2>1, <2>2, Users, OneMore, Finite
  <2>4. HeldInStatement' /\ \A p : Using(p)' = Using(p)
    BY <2>1, Users DEF HeldInStatement, Using
  <2> QED BY <2>3, <2>4 DEF ResourceInv, WithinLimits
<1>3. ASSUME NEW h \in Handlers,
             \/ GetPool(h) \/ OpenPool(h) \/ OpenPoolFails(h) \/ Statement(h) \/ StatementFails(h)
             \/ Disabled(h) \/ ParamsRaise(h) \/ Connect(h) \/ Publish(h) \/ SaveToOutbox(h)
             \/ Return(h)
      PROVE  ResourceInv'
  <2>1. PICK l \in Labels \ {"statement"} :
          /\ pc' = [pc EXCEPT ![h] = l]
          /\ l \in {"connect", "publish", "outbox"} => pc[h] \in {"connect", "publish", "outbox"}
    BY <1>3 DEF GetPool, OpenPool, OpenPoolFails, Statement, StatementFails, Disabled,
                ParamsRaise, Connect, Publish, SaveToOutbox, Return, Labels
  <2>2. holding' = holding \ {h}
    <3>1. CASE Statement(h) \/ StatementFails(h)
      BY <3>1 DEF Statement, StatementFails
    <3>2. CASE ~(Statement(h) \/ StatementFails(h))
      <4>1. holding' = holding /\ pc[h] # "statement"
        BY <1>3, <3>2 DEF GetPool, OpenPool, OpenPoolFails, Disabled, ParamsRaise, Connect,
                          Publish, SaveToOutbox, Return
      <4> QED BY <4>1, Users
    <3> QED BY <3>1, <3>2
  <2>3. \A g \in Handlers \ {h} : mine'[g] = mine[g]
    BY <1>3, Users DEF GetPool, OpenPool, OpenPoolFails, Statement, StatementFails, Disabled,
                       ParamsRaise, Connect, Publish, SaveToOutbox, Return
  <2>4. l \in {"connect", "publish", "outbox"} => h \in InThread
    BY <2>1 DEF InThread
  <2> QED BY <2>1, <2>2, <2>3, <2>4, TakesNothing
<1>4. CASE Crash
  <2>1. /\ holding' = {}
        /\ \A g \in Handlers : pc'[g] \in {"idle", "done"}
    BY <1>4, Users DEF Crash
  <2>2. HeldInStatement' /\ InThread' = {} /\ \A p : Using(p)' = {}
    BY <2>1 DEF HeldInStatement, InThread, Using
  <2> QED BY <2>2, FS_EmptySet, Finite DEF ResourceInv, WithinLimits
<1>5. CASE UNCHANGED <<pc, holding, mine>>
  BY <1>5 DEF ResourceInv, HeldInStatement, WithinLimits, Using, InThread
<1> QED BY <1>1, <1>2, <1>3, <1>4, <1>5
        DEF Next, DatabaseStep, SendEventStep, BrokerChanges, ExpireOutbox, vars

LEMMA ResourcesKept == Spec => [](IInv /\ ResourceInv)
<1>1. Init => ResourceInv
  <2> SUFFICES ASSUME Init PROVE ResourceInv
    OBVIOUS
  <2>1. HeldInStatement /\ InThread = {} /\ \A p : Using(p) = {}
    BY DEF Init, HeldInStatement, InThread, Using
  <2> QED BY <2>1, FS_EmptySet, Finite DEF ResourceInv, WithinLimits
<1> QED BY <1>1, StepResources, Invariance, PTL DEF Spec

(* No pool lends more connections than it has, and no more events are      *)
(* published at a time than the executor has threads.                      *)
THEOREM ResourcesWithinLimits == Spec => []WithinLimits
<1>1. ResourceInv => WithinLimits
  BY DEF ResourceInv
<1> QED BY <1>1, ResourcesKept, PTL

(* A handler that has to wait for a connection waits for a statement of    *)
(* another, which command_timeout ends: never for the broker.              *)
WaitsForStatements ==
  \A h \in Handlers :
    pc[h] = "acquire" /\ ~(Cardinality(Using(mine[h])) < PoolSize) =>
      \E g \in Handlers : pc[g] = "statement" /\ mine[g] = mine[h]

THEOREM BrokerHoldsNoConnection == Spec => []WaitsForStatements
<1>1. IInv /\ ResourceInv => WaitsForStatements
  <2> SUFFICES ASSUME IInv, ResourceInv, NEW h \in Handlers,
                      ~(Cardinality(Using(mine[h])) < PoolSize)
               PROVE  \E g \in Handlers : pc[g] = "statement" /\ mine[g] = mine[h]
    BY DEF WaitsForStatements
  <2>1. Cardinality({}) = 0
    BY FS_EmptySet
  <2>2. Using(mine[h]) # {}
    BY <2>1, Finite
  <2> QED BY <2>2, Users DEF Using
<1> QED BY <1>1, ResourcesKept, PTL
=============================================================================
