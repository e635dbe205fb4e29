--------------------------- MODULE EventPublisher ---------------------------
(***************************************************************************)
(* One replica of the service seen from its resources: the pool that the   *)
(* first handlers open (connection.py), its connections, the threads that  *)
(* run SendEvent (rabbitmq.py), the broker and the outbox in Redis.        *)
(*                                                                         *)
(* pc of a handler:                                                        *)
(*   "idle" -> ["opening" ->] "acquire" -> "statement" -> "return" -> ...  *)
(* and for a create, after its statement:                                  *)
(*   "submit" -> "connect" -> ["publish" ->] ["outbox" ->] "return"        *)
(***************************************************************************)
EXTENDS Naturals, FiniteSets

CONSTANTS
  Creates,   \* create_message handlers
  Others,    \* handlers of the other operations, which publish nothing
  PoolSize,  \* max_size of a pool
  Workers,   \* threads of the event loop's default executor
  None       \* no pool

Handlers == Creates \cup Others

ASSUME PublisherAssumption ==
  /\ IsFiniteSet(Handlers) /\ Creates \cap Others = {}
  /\ PoolSize \in Nat \ {0} /\ Workers \in Nat \ {0}
  /\ None \notin Handlers

VARIABLES
  config,   \* of rabbitmq.py and of what it calls, never changed
  broker,   \* does RabbitMQ answer?
  pc,       \* handler |-> where it is
  pool,     \* AsyncDatabase._pool; a pool is named after who opened it
  opened,   \* the pools of this process
  mine,     \* handler |-> the pool it got
  holding,  \* the handlers that hold a connection of their pool
  stored,   \* creates whose row is in the table
  queue,    \* creates whose event reached the queue "messages_service"
  outbox,   \* creates whose event is in the Redis list
  broken,   \* handlers hit by a failure of the database or of the replica
  reply     \* handler |-> what its client was told

vars == <<config, broker, pc, pool, opened, mine, holding, stored, queue,
          outbox, broken, reply>>
poolVars == <<pool, opened, mine, holding>>
eventVars == <<queue, outbox>>
answerVars == <<broken, reply>>
env == <<config, broker>>

(* QUEUE_ENABLED; do the numbers of _queue_params parse; the outbox, off   *)
(* by default, and QUEUE_OUTBOX_TTL_SECONDS.  "lossless" is no variable of *)
(* rabbitmq.py but a hypothesis: a basic_publish that returns has reached  *)
(* the queue, and an RPUSH its list.                                       *)
Config == [enabled : BOOLEAN, parses : BOOLEAN,
           outbox : {"off", "kept", "expiring"}, lossless : BOOLEAN]

Init ==
  /\ config \in Config
  /\ broker \in BOOLEAN
  /\ pc = [h \in Handlers |-> "idle"]
  /\ pool = None
  /\ opened = {}
  /\ mine = [h \in Handlers |-> None]
  /\ holding = {}
  /\ stored = {}
  /\ queue = {} /\ outbox = {}
  /\ broken = {}
  /\ reply = [h \in Handlers |-> "none"]

Goto(h, label) == pc' = [pc EXCEPT ![h] = label]

(* The exception of a handler ends as a 500. *)
Answer(h, what) == reply' = [reply EXCEPT ![h] = what] /\ Goto(h, "done")

-----------------------------------------------------------------------------
(* connection.py: get_pool, and a connection of the pool. *)

GetPool_Always(h) ==
  /\ pc[h] = "idle"
  /\ Goto(h, "opening")
  /\ UNCHANGED <<env, poolVars, stored, eventVars, answerVars>>
GetPool(h) ==
  /\ pc[h] = "idle"
  /\ \/ /\ pool # None
        /\ mine' = [mine EXCEPT ![h] = pool]
        /\ Goto(h, "acquire")
     \/ /\ pool = None
        /\ Goto(h, "opening")
        /\ UNCHANGED mine
  /\ UNCHANGED <<env, pool, opened, holding, stored, eventVars, answerVars>>

(* create_pool has come back to the handler that awaited it: it sets the   *)
(* field, whatever is there by now.                                        *)
OpenPool(h) ==
  /\ pc[h] = "opening"
  /\ pool' = h
  /\ opened' = opened \cup {h}
  /\ mine' = [mine EXCEPT ![h] = h]
  /\ Goto(h, "acquire")
  /\ UNCHANGED <<env, holding, stored, eventVars, answerVars>>

OpenPoolFails(h) ==
  /\ pc[h] = "opening"
  /\ broken' = broken \cup {h}
  /\ Answer(h, "error")
  /\ UNCHANGED <<env, poolVars, stored, eventVars>>

(* pool.acquire(), which waits as long as it takes. *)
Acquire(h) ==
  /\ pc[h] = "acquire"
  /\ Cardinality({g \in holding : mine[g] = mine[h]}) < PoolSize
  /\ holding' = holding \cup {h}
  /\ Goto(h, "statement")
  /\ UNCHANGED <<env, pool, opened, mine, stored, eventVars, answerVars>>

(* The statements; the connection goes back when "async with" ends, before *)
(* anything is published.                                                  *)
Statement_KeepsConnection(h) ==
  /\ pc[h] = "statement"
  /\ stored' = stored \cup ({h} \cap Creates)
  /\ Goto(h, IF h \in Creates THEN "submit" ELSE "return")
  /\ UNCHANGED <<env, poolVars, eventVars, answerVars>>
Statement(h) ==
  /\ pc[h] = "statement"
  /\ stored' = stored \cup ({h} \cap Creates)
  /\ holding' = holding \ {h}
  /\ Goto(h, IF h \in Creates THEN "submit" ELSE "return")
  /\ UNCHANGED <<env, pool, opened, mine, eventVars, answerVars>>

(* The statement raises, before or after it took effect. *)
StatementFails_GoesOn(h) ==
  /\ pc[h] = "statement"
  /\ holding' = holding \ {h}
  /\ Goto(h, IF h \in Creates THEN "submit" ELSE "return")
  /\ UNCHANGED <<env, pool, opened, mine, stored, eventVars, answerVars>>
StatementFails(h) ==
  /\ pc[h] = "statement"
  /\ stored' \in {stored, stored \cup ({h} \cap Creates)}
  /\ holding' = holding \ {h}
  /\ broken' = broken \cup {h}
  /\ Answer(h, "error")
  /\ UNCHANGED <<env, pool, opened, mine, eventVars>>

-----------------------------------------------------------------------------
(* rabbitmq.py: SendEvent, in a thread of the executor. *)

InThread == {h \in Handlers : pc[h] \in {"connect", "publish", "outbox"}}

RunInExecutor(h) ==
  /\ pc[h] = "submit"
  /\ Cardinality(InThread) < Workers
  /\ Goto(h, "connect")
  /\ UNCHANGED <<env, poolVars, stored, eventVars, answerVars>>

(* QUEUE_ENABLED is off: SendEvent returns None. *)
Disabled(h) ==
  /\ pc[h] = "connect" /\ ~config.enabled
  /\ Goto(h, "return")
  /\ UNCHANGED <<env, poolVars, stored, eventVars, answerVars>>

(* int() or float() of _queue_params raises, outside of the try block: so  *)
(* does SendEvent, and CreateMessage returns the exception.                *)
ParamsRaise(h) ==
  /\ pc[h] = "connect" /\ config.enabled /\ ~config.parses
  /\ Answer(h, "error")
  /\ UNCHANGED <<env, poolVars, stored, eventVars, broken>>

(* BlockingConnection, channel and queue_declare, with their timeouts. *)
Connect_NoTimeout(h) ==
  /\ pc[h] = "connect" /\ config.enabled /\ config.parses
  /\ broker /\ Goto(h, "publish")
  /\ UNCHANGED <<env, poolVars, stored, eventVars, answerVars>>
Connect_NoFallback(h) ==
  /\ pc[h] = "connect" /\ config.enabled /\ config.parses
  /\ Goto(h, IF broker THEN "publish" ELSE "return")
  /\ UNCHANGED <<env, poolVars, stored, eventVars, answerVars>>
Connect(h) ==
  /\ pc[h] = "connect" /\ config.enabled /\ config.parses
  /\ \/ broker /\ Goto(h, "publish")
     \/ Goto(h, "outbox")
  /\ UNCHANGED <<env, poolVars, stored, eventVars, answerVars>>

(* basic_publish and close.  There is no publisher confirm: a publish that *)
(* returns may have reached nothing but a socket, and one that raises may  *)
(* have reached the queue.                                                 *)
Publish(h) ==
  /\ pc[h] = "publish"
  /\ \/ /\ Goto(h, "return")
        /\ \/ queue' = queue \cup {h}
           \/ ~config.lossless /\ UNCHANGED queue
     \/ /\ Goto(h, "outbox")
        /\ queue' \in {queue, queue \cup {h}}
  /\ UNCHANGED <<env, poolVars, stored, outbox, answerVars>>

(* _save_to_outbox_redis, in a short event loop of the thread's own: the   *)
(* client belongs to another loop, so the RPUSH may raise even with Redis  *)
(* up, before or after it was sent.  Without an outbox nothing is saved.   *)
(* Either way SendEvent returns.                                           *)
SaveToOutbox(h) ==
  /\ pc[h] = "outbox"
  /\ \/ config.outbox # "off" /\ outbox' = outbox \cup {h}
     \/ (config.outbox = "off" \/ ~config.lossless) /\ UNCHANGED outbox
  /\ Goto(h, "return")
  /\ UNCHANGED <<env, poolVars, stored, queue, answerVars>>

(* EXPIRE is set on the list, not on its items. *)
ExpireOutbox ==
  /\ config.outbox = "expiring" /\ outbox # {}
  /\ outbox' = {}
  /\ UNCHANGED <<env, pc, poolVars, stored, queue, answerVars>>

(* CreateMessage logs the error of SendEvent and returns the row. *)
Return_PublishError(h) ==
  /\ pc[h] = "return"
  /\ Answer(h, IF h \in outbox THEN "error" ELSE "ok")
  /\ UNCHANGED <<env, poolVars, stored, eventVars, broken>>
Return(h) ==
  /\ pc[h] = "return"
  /\ Answer(h, "ok")
  /\ UNCHANGED <<env, poolVars, stored, eventVars, broken>>

-----------------------------------------------------------------------------

BrokerChanges ==
  /\ broker' = ~broker
  /\ UNCHANGED <<config, pc, poolVars, stored, eventVars, answerVars>>

(* The replica dies and is started again, with its handlers and pool gone. *)
Crash ==
  LET running == {h \in Handlers : pc[h] \notin {"idle", "done"}} IN
  /\ running # {}
  /\ pc' = [h \in Handlers |-> IF h \in running THEN "done" ELSE pc[h]]
  /\ reply' = [h \in Handlers |-> IF h \in running THEN "error" ELSE reply[h]]
  /\ broken' = broken \cup running
  /\ pool' = None /\ opened' = {} /\ holding' = {}
  /\ mine' = [h \in Handlers |-> None]
  /\ UNCHANGED <<env, stored, eventVars>>

DatabaseStep(h) ==
  \/ GetPool(h) \/ OpenPool(h) \/ OpenPoolFails(h)
  \/ Acquire(h) \/ Statement(h) \/ StatementFails(h)
SendEventStep(h) ==
  \/ RunInExecutor(h) \/ Disabled(h) \/ ParamsRaise(h)
  \/ Connect(h) \/ Publish(h) \/ SaveToOutbox(h)

Next ==
  \/ \E h \in Handlers : DatabaseStep(h) \/ SendEventStep(h) \/ Return(h)
  \/ BrokerChanges \/ ExpireOutbox \/ Crash

Spec == Init /\ [][Next]_vars

(* create_pool and command_timeout=30 bound every wait for the database.   *)
(* Nothing is assumed here of the broker or of the threads ...             *)
DatabaseSpec == Spec /\ \A h \in Handlers : WF_vars(DatabaseStep(h))

(* ... the timeouts of _queue_params and of the Redis client bound those.  *)
SendEventFairness == \A h \in Handlers : WF_vars(SendEventStep(h) \/ Return(h))

-----------------------------------------------------------------------------
(* Properties. *)

Labels == {"idle", "opening", "acquire", "statement", "submit", "connect",
           "publish", "outbox", "return", "done"}

(* Types; the pool in the field, and the pool of every handler that holds  *)
(* a connection, was opened and not lost with its process.                 *)
TypeOK ==
  /\ config \in Config /\ broker \in BOOLEAN
  /\ pc \in [Handlers -> Labels]
  /\ pool \in opened \cup {None} /\ opened \subseteq Handlers
  /\ mine \in [Handlers -> opened \cup {None}]
  /\ holding \subseteq {h \in Handlers : mine[h] # None}
  /\ stored \subseteq Creates
  /\ queue \subseteq Creates /\ outbox \subseteq Creates
  /\ broken \subseteq Handlers
  /\ reply \in [Handlers -> {"none", "ok", "error"}]

(* An event, in the queue or in the outbox, is about a message that is in  *)
(* the table: CreateMessage publishes nothing before its INSERT committed, *)
(* nor after one that failed.                                              *)
NoPhantomEvents == queue \cup outbox \subseteq stored

(* README.md:74, a broker that fails does not fail a create: a 500 means   *)
(* that the database or the replica failed, or that the numbers of the     *)
(* configuration do not parse, which only a create whose row is stored by  *)
(* then gets to know.                                                      *)
BrokerHarmless ==
  \A h \in Handlers : reply[h] = "error" =>
    h \in broken \/ (h \in stored /\ config.enabled /\ ~config.parses)

(* "Almacena eventos para reintento" (rabbitmq.py:37): with an outbox that *)
(* does not expire, and a broker and a Redis that keep what they were      *)
(* given, the event of an acknowledged create is in one of them, whichever *)
(* calls failed.  Nothing is claimed without an outbox: an event that the  *)
(* broker did not take is then gone.                                       *)
EventKept ==
  config.enabled /\ config.outbox = "kept" /\ config.lossless =>
    \A h \in Creates : reply[h] = "ok" => h \in queue \cup outbox

(* Once there is a pool and no handler is opening another, it stays so as  *)
(* long as the process lives: the race for the first pool is over.         *)
Settled == pool # None /\ \A h \in Handlers : pc[h] # "opening"

NoMorePools ==
  [][Settled /\ opened' # {} => Settled' /\ opened' = opened]_vars

(* A handler waiting for a connection gets it even if the broker blocks    *)
(* every thread that publishes, for as long as it likes.                   *)
ConnectionsServed ==
  \A h \in Handlers : pc[h] = "acquire" ~> pc[h] # "acquire"

(* Every request is answered, whatever the broker and Redis do, as long as *)
(* each of their calls ends in some way.                                   *)
AllAnswered ==
  SendEventFairness => \A h \in Handlers : pc[h] # "idle" ~> pc[h] = "done"
=============================================================================
