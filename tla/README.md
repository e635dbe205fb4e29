# TLA+ models of the Messages Service

This directory models the programs of the repository: the Messages Service
(`service/`), FastAPI handlers over PostgreSQL, a Redis cache and a RabbitMQ queue;
its load tools (`tools/`); and the Django web interface (`interfaz/`), which calls
this service and those of other teams and keeps a session. TLC checks the
models on small instances and TLAPS proves the main safety properties for every
value of the constants.

Run a check with `tlc -config X.cfg M.tla` and a proof with `tlapm M.tla`.

## 1. The system

| Component | State it keeps | Operations | Talks to |
|---|---|---|---|
| **Message writes**: `service/src/Controller.py`, SQL in `service/db/sqlc/messages.py` | table `messages` | `CreateMessage`, `UpdateMessage`, `DeleteMessage` | PostgreSQL, event publisher |
| **HTTP API**: `service/src/API.py` | none of its own | POST, PUT, DELETE, GET of messages; errors to HTTP codes | controller, cache |
| **Recent cache**: `service/src/cache.py`, `clients/redis.py` | one Redis key per thread, with an expiry | get (with touch), set, invalidate | Redis |
| **Pagination**: `ListMessages`, `ListMessagesBefore`, the cursor in `API.py` | the cursor, held by the client | first page, page before a cursor | PostgreSQL |
| **Connection pool**: `service/db/connection.py` | `AsyncDatabase._pool` | `get_pool`, `prepare` | PostgreSQL |
| **Event publisher**: `service/src/clients/rabbitmq.py` | queue `messages_service`, outbox list in Redis | `SendEvent` in an executor thread | RabbitMQ, Redis |
| **Load tools**: `tools/seed_messages.py`, `tools/consume_messages.py` | an `asyncio.Queue`, counters | retries, workers, join | HTTP API |
| **Web interface**: `interfaz/core/views.py`, `utils.py`, templates | the Django session, with a history per chatbot | channels, threads, messages with files, chatbots | HTTP API, services of other teams |
| **Startup**: `service/docker-compose.yml`, `init-db.sh`, migrations | which containers are up | ordering, migration | PostgreSQL |
| Gateway, Kubernetes, docs | declarative | none | |

What is hard in it:

* The handlers of one replica interleave at every `await`; several replicas
  share the database and Redis. No operation holds a lock or a transaction over
  two statements (asyncpg commits each `fetchrow` by itself), so the
  `SELECT ... FOR UPDATE` of an update or a delete locks nothing that lasts.
* The cache is filled after the database was read and invalidated after it was
  written, without a version: fills and invalidations of the same key may arrive
  in any order, and any of the three Redis calls may fail and is only logged.
* A page of a thread is a function of rows that other requests create and
  delete between pages, with stamps taken when an INSERT starts.
* The first requests race to open the pool; all requests share its ten
  connections; publishing blocks a thread for as long as the broker makes it.
* A replica may stop between any two steps.
* The tabs of a browser share one Django session. A request reads it when it
  begins, may call services for seconds, and writes it whole when it ends: the
  last one wins. A page does not carry the channel or thread it shows; its forms
  act on what the session says when they arrive. The chatbot page's script does not
  even wait for an answer before it sends the next message.
* A message and its files go to two services, one call after the other; a page
  reads them back in two calls and joins them by position, and its script polls
  without waiting for the answers.
* A message to a chatbot is posted again to a second gateway when the first one
  gave no usable answer, which does not mean that nobody read it.
* The load tools retry a POST that may have been stored, and end only if every
  item of the queue is counted once.

`PROJECT.json` lists these hazards at their lines, with the properties that
would catch them going wrong. Where the code accepts the loss itself (a late or lost
invalidation, an event nobody took, an overlapped session), no property can
deny it: the note of the hazard says so, and which property bounds it.

What makes each component correct: a write takes effect at one instant and
only on a message of the thread in the URL; a deleted message stays deleted; the
cache never hides an acknowledged write for ever; a page that says it is the
last is; a walk is given every message once; publishing changes nothing in
the answer, starves nobody and, with an outbox that is kept, loses no event of
its own doing (without one, the default, an event that the broker did not take is
gone and only logged); a load tool ends with
every job counted once and no success that was not stored; a web session never has
the token of one login beside the user of another, stays ended, and a tab acts on what it shows; a
chatbot's history is made of whole exchanges and only overlapped requests lose any;
a page shows files under the message they were sent with.

## 2. The modules

| Module | Models | Composed of |
|---|---|---|
| `MessageTable` | rows and what each SQL statement does to one | |
| `MessageBoard` | what the write side promises: one atomic effect per request (abstract) | `MessageTable` |
| `MessageStore` | `Controller.py`'s writes, one action per statement | `MessageTable`; implements `MessageBoard` |
| `MessagesAPI` | lists through the cache, and the writers' invalidation | its one-step writes rest on `WritesAreAtomic` |
| `Pagination` | walking the pages of a thread | |
| `EventPublisher` | one replica's pool, connections, threads, broker and outbox | expands the `Publish` step of `MessageStore` |
| `LoadTool` | the queue, workers and retries of both tools | stands alone; `Store` is the service seen from outside |
| `WebSession` | the session of one browser, its tabs and requests | stands alone; services answer anything |
| `ChatBot` | messages to chatbots: the histories in the session, the gateways tried | another view of `WebSession` is its `Open` |
| `MessageFiles` | messages with files in two services, and the pages that join them | what `WebSession!Send` and the page of a thread do |
| `PreparedSql` | `prepare`, as a function on token sequences | the statements of `MessageStore` and `Pagination` |
| `MC*` | symmetry and constants for TLC | |
| `*Proofs` | the theorems, checked by TLAPS | |

### MessageStore

`rows` is the table; `pc`, `args`, `current` and `result` are the local state of
the handler of each request (`current` and `resultado` in the code), `reply` is
what its client was told. `Insert`, `Select`, `WriteUpdate` and `WriteDelete` are
the four statements, each with the test that the code makes of the row it
returns; `Publish` is the await on `SendEvent`; `Fail` is any exception, before
or after a statement took effect, and the crash of a replica. The initial table
is any table: the service keeps no other state over a restart. `user_id`, `type`
and the timestamps are left out because no statement reads them to decide
what to write (the service never compares the user of a request with the
author of the message).

`MessageBoard` has the same requests with one atomic `Apply...` step each. The
refinement (`AtomicWrites`) maps handlers before their last statement to
"submitted" and after it to "applied". A 404 found by the SELECT is an atomic
`FindAbsent` at the SELECT; one found by the UPDATE is one at the UPDATE.

### MessagesAPI

One thread (keys do not interfere). Its contents are abstracted to `version`, the
number of writes committed, and `total`, the number of live messages. A page
remembers the version it was read at, the version current when it was put in
Redis (`filled`, a history variable), the limit it was selected with (`asked`, another
one), and how many messages it shows of how many there were. Readers follow `list_messages` call by call: GET, EXPIRE, SELECT, SET;
writers commit and then DELETE the key. `WriteUnreported` is a write that took
effect but whose controller returned an exception: the handler leaves with a 500
before the invalidation at `API.py:116`. `lost` collects the writes whose
invalidation will never come. `entry` and `age` are the key and its expiry.

### Pagination

Ids are numbers, in the order PostgreSQL gives uuids, handed out in any order.
`StartInsert` takes the stamp, `CommitInsert` makes the row visible. `Limited`,
`NewestByStamp` and `Newest` say what LIMIT and the two ORDER BY clauses promise
about a set of rows, no more: with equal stamps the first page is any page that
fits. `standing` and `shown` are history variables: what was live when the walk
began, and how many times each message was given.

### EventPublisher

One replica. A handler gets the pool (or opens it), waits for a connection,
runs its statements, gives the connection back, and, for a create, waits for a
thread of the executor in which `SendEvent` connects, publishes and, if it
failed, saves the event to the outbox. `config` holds the environment variables
as constants of a behaviour, so one run covers every configuration; its
`lossless` is not one of them but the hypothesis of `EventKept`, that the broker and
Redis keep what they were given. `broker` goes up and down freely; without publisher confirms, both outcomes of
`basic_publish` are possible with and without the event in the queue. The
outbox call may fail even with Redis up: it uses, from an event loop of its own,
a client that belongs to the main loop. A crash ends every handler and the pool;
table, queue and outbox stay.

### LoadTool

The two tools have the same shape, so `tool` is either of them. The queue is
filled before a worker runs: its items are the jobs 1..`Jobs` and then one sentinel per
worker, and `head` says how many were taken. `PostCreated`, `PostRefused` and
`PostFails` are the three branches of `_post_with_retry` (201, another status that
is not retried, 5xx or an exception), `Retry` is the end of the sleep, `GiveUp` the end
of the loop. `Store` says when the service keeps a message: with a 201 always,
with a failure perhaps. `FirstPage` and `FollowPage` are the consumer's
requests, counted alike. `Join` and `Gather` are the two awaits of `run()`.

### WebSession

`store` is Django's session table, `cookie` the key the browser sends. Each tab has
what its page shows (`page[t]`) and the request it waits for (`request[t]`), which
holds its own copy of the session; `fetch` is the script of the main page, whose
request goes on when the page is left. `Key`, `Session`, `Saved` and `Save` are the session
middleware, external code: a session is loaded when a request begins, saved whole
when it ends with anything but a 500, and saving a row that a logout deleted ends in
a 400. The rest is one action per view, or one per service call of a view
where another request may be served meanwhile (`login` is "token" while `home` or
`create_user` has a new token and asks for its user, "nobody" if the service names none):
`Login`/`LoginUser`/`Presence`,
`OpenHilos`/`ThreadsArrive`/`MemberDone`, `Send`/`SendDone`. A lookup of a title that the
session does not have is a `KeyError`, thus `Crash`: the page is lost and nothing is
saved.

The services of other teams answer anything of `ChannelLists` and
`ThreadLists`, so channels and threads come, go and are renamed between any two
calls. Left out: the "back" button (a page is the last one its tab was given), a
second request of the main page's script while one is under way, and the
poll of a thread taking time (it is one step, for it saves nothing). `alone[t]` is a
history variable: the tab's page was read from the session, and no other request of
the browser was saved since.

### ChatBot

`store` is the session as saved, reduced to what this view uses: the `history`
of each bot (`chat_<tipo>`), and who saved `rest` last, for all other keys. `copy`
is what a request has read and changed. `Post` is `chatbot_view` up to the call;
`Replied`, `NextGateway` and `NoGateway` are one turn each of the loop of `API_CB`
(an answer; an exception, HTML or an error status with a base left; the same with
none left); `Save` is Django saving the session when the request ends. A gateway
that gave no usable answer may have passed the message on: `heard` counts. Sessions
are the external part: read when a request begins, saved whole, not saved when the
request failed. `saves` and `seen` are history variables: who saved, in which
order, and what each request could have read. The model follows one session,
from its login to its logout (`WebSession` has those).

Entries are known by who said them and to which post they belong. In the code, the
text of all errors is saved with the sender "bot"; the model tells it apart as
"error", since `HeardAsAnswered` does.

### MessageFiles

`thread` is the messages service, `files` the files service: each file carries
the message id it was uploaded with. A POST sends its message (`Send`, or `SendFails`, which
may have stored it: the caller got `None` or no id), then tries one file after the
other, each stored or not, reported or not. A GET lists messages (perhaps from
the service's cache, so any earlier thread), then all files of the thread, then asks
for links, oldest message first. `group` is `files_by_message`, `GetArchivos` the list by
position that `mensajes` joins with its own; whether a file has its link or an
error in its place is not told apart. `box` is what the window shows: `refreshMessages` in `mensajes.html` asks every
3 seconds whether or not the last answer came, so several GETs are under way, and
`Arrive` shows whichever comes, in any order. A 500 (`LinksFail`) and a lost answer
leave the box as it is; an error of the messages service is an empty page with
status 200, which empties it. `tried`, `reported` and `since` are history variables.
Assumed of the files service: what it lists has an id and the message id it was
given; an object without an id would be skipped (`utils.py:1234`).

### PreparedSql

A statement is a sequence of tokens: `:pN`, or text. `PrepareBinds` is an
assumption that TLC evaluates with `message_store`: for each of the 5461 statements
of up to six tokens over three names, every place gets the value of its name and as
many values are passed as the numbers used. `AllGiven` says the same of
the six statements that `Controller.py` runs, with the keys that it passes.

## 3. What the runs check

| Run | Shows | Bounds |
|---|---|---|
| `message_store` | `TypeOK`, `DeleteOnce`, `ThreadConfined`, `TombstonesStay`, `AtomicWrites` | 3 requests of any kind on 1 id, 2 threads, 2 texts: every pair of racing handlers and a third to disturb them; statements only ever look at one row |
| `api_cache` | `TypeOK`, `InvalidationOwed`, `AckedVisible` under every failure | 2 readers, 2 writers, 2 writes, 2 messages, CACHE_MAX_ITEMS 1 and limits 1 and 2, one cached and one not; handlers are reused, so fills and invalidations cross in every order |
| `api_cache_fresh` | `EventuallyFresh` with CACHE_TOUCH_ON_HIT off, `LastUnlessNarrow` | 2 readers, 1 writer, 1 write, which is enough for a fill that crosses it or an invalidation that is lost, expiry of 2 ticks; 3 messages, CACHE_MAX_ITEMS 2 and limits 1, 2 and 3, so one below, one at and one above it |
| `pagination` | `NoneSkipped`, `NoneRepeated`, `CursorDescends` | 5 messages, pages of 2: two full pages and a short one |
| `publisher` | `NoPhantomEvents`, `BrokerHarmless`, `EventKept`, `NoMorePools`, `ConnectionsServed`, `AllAnswered` | 2 creates and 1 other handler, 1 connection, 1 thread: each resource is exhausted |
| `load_tool` | `TypeOK`, `AllCounted`, `OkStored`, `Terminates`, for both tools | 3 workers, 3 jobs, 2 attempts: sentinels wait behind jobs under way, and the last attempt fails |
| `web_session` | `TypeOK`, `OneLogin`, `LoggedOut`, `BuiltInOrder`, `ActsWhereShown` | 2 tabs and a script: three requests with a copy of the session each; 2 channels that both have a thread "dudas", and the first of which may be renamed; 1 session key, so a session, its logout and what comes after |
| `chatbot` | `TypeOK`, `WholeExchanges`, `HistorySequential`, `KeptUnlessOverlapped`, `HeardAsAnswered`, `PostsEnd` | 2 messages to one bot and 1 to another, 1 request of another view, 2 gateways as configured: each pair of requests overlaps in every way, with a third request saved in between |
| `message_files` | `TypeOK`, `NoOrphans`, `FilesWithTheirMessage`, `PageCarriesFiles`, `AllTried`, `PagesEnd` | 2 messages, with 2 files and with none, and 2 GETs that overlap again and again; one failed upload of two, a message next to one without files, a list of messages older than the list of files |

`MaxVersion`, `MaxTotal` and `MaxNow` are the only bounds on counters; they cap
writes, messages and clock. `Finished` in `MessageStore` and `ChatBot` is the end of
the modelled requests, not a deadlock.

Three runs show where the code does not do what its comments or documents say:

| Run | Disagreement |
|---|---|
| `api_cache_touch` | A list returns the most recent messages (`service/README.md:64`). A fill may end after the invalidation that should have removed it; as every hit renews the expiry (`cache.py:55`), readers that poll keep it for ever. The web page of a thread polls every 3 seconds, the expiry is 120. |
| `api_mixed_limits` | A short page cached by a reader with a small limit is given, with `has_more = false`, to a reader with a larger one. `NoneLeftOut`, which this run violates, is `LastUnlessNarrow` without its exception: there is no other case. |
| `web_two_tabs` | `docs/tarea-3/Chat.md:45`: messages go to the chat the member wants. The form of a thread's page does not say which thread it shows; after another tab chose one, the message goes there. |

More that the models show without a run of their own:

* `service/README.md:57` says that PUT answers 404 if the message does not exist.
  `UpdateAllowed` does not look at `deleted_at`: a soft-deleted message is updated and
  answered 200. `TombstonesStay` shows that this does not bring it back.
* `connection.py:12` promises one shared pool. Two first requests may open one each,
  and the first is never closed; `NoMorePools` shows that it stops there.
* The comment at `utils.py:1247` says that a link comes as text ("La API devuelve un
  string (URL)"); `views.py:417` takes `entry.get("url")["url"]`, which raises for text. This is
  `LinksFail`: the page of the thread is then a 500. `views.py:397` gives the error
  of the file list, which is one, to every message of the page; as `mensajes.html:23` goes through
  `m.file`, a text here, each of its characters becomes a link.
* The polls of a window are not ordered: an answer that was overtaken puts the window
  back, until the next one comes.
* A chatbot's exchange is lost when another request that was under way is saved after
  it: `Overlapped` in `KeptUnlessOverlapped`. The next page of the chat lacks it, though
  the user saw the answer.
* `Controller.py:93` says that the SELECT locks the row for the update: each
  statement is a transaction, so the row may change before the write; `AtomicWrites` shows
  that no update is lost all the same, since both UPDATEs are written against the
  row as they find it.
* The first page of a thread is ordered by `created_at` alone while its cursor
  compares ids too (`messages.py:167`): with `UniqueStamps = FALSE`, `NoneSkipped` fails,
  as equal stamps at the end of the first page lose a message. A first page from
  the cache is no other case: it is the newest messages of an earlier moment, as if
  the client had waited before it asked for the second page.
* `BrokerHarmless` excepts a create whose message is stored under a configuration that
  does not parse: `_queue_params()` is called outside the `try` of `SendEvent`
  (`rabbitmq.py:83`), whose docstring says it never raises, so such a create
  answers 500 after its INSERT.
* `EventKept` needs its three conditions. The outbox is off by default
  (`rabbitmq.py:36`): an event that the broker did not take is then nowhere. One that
  expires or that Redis refuses is lost too, and a replica that stops before it published
  has not acknowledged the create, but the message is stored and its event never comes.
* `obtener_usuario` does not look at what a 200 contains (`utils.py:114`). If it names no
  user, a session with a token and without one is saved ("nobody" in
  `OneLogin`); every view then sends it home, and logging out works.
* A saved session may have a chat and no lists of channels: a tab that logs in again saves
  a copy read before the lists arrived, and the other tab's choice of a chat is saved
  after it. `hilos` is then a 500 until main is opened. `BuiltInOrder` claims only what
  holds: a thread has a list of threads, and that a chat and lists.
* `GetHilosAPI` iterates whatever JSON came (`utils.py:761`): one that is not a list of
  objects may raise, and the page is a 500 (`Crash` in `ThreadsArrive`).
* `AckedVisible` is not "a list shows every acknowledged write": `filled`, not
  `version`, bounds the age of a page, for the late fill above.

## 4. Fairness

* `MessagesAPI!Fairness`: every handler goes on, because the statements have
  `command_timeout=30` and Redis calls a socket timeout of 0.5 s (`redis.py:65`),
  and Redis expires keys. Readers and writers need never be called. Steps are
  weakly fair with their failures, so a behaviour may fail at every call.
* `EventPublisher!DatabaseSpec`: only database steps are fair. `ConnectionsServed`
  is checked under it: no assumption about the broker. Each handler takes a
  connection once, so weak fairness of `Acquire` is enough; asyncpg serves
  waiters in order.
* `LoadTool!Spec`: calls have httpx's timeouts, sleeps end, and the event loop runs
  every task that can go on. A worker that finds an item takes it.
* `WebSession` has none, and no liveness: several calls have no timeout
  (`utils.py:302`), so a request may wait for ever.
* `ChatBot!FairSpec`: `requests.post` has a timeout of 12 s, there are finitely many
  gateways, and Django serves each request in a thread of its own. Each post is
  fair by itself, so one slow call delays no other.
* `MessageFiles!FairSpec`: the three calls of a GET have timeouts (5, 10 and 10 s). There
  is none for posts, since `enviar_mensaje` has no timeout (`utils.py:1120`).
* `EventPublisher!SendEventFairness`, the premise of `AllAnswered`: the calls of
  `SendEvent` end, by the timeouts of `_queue_params`.

## 5. What is proved

For all values of the constants (any number of requests, readers, messages,
connections), from the named assumptions in the modules (`TableAssumption`,
`APIAssumption`, `PaginationAssumption`, `PublisherAssumption`, `LoadAssumption`,
`WebAssumption`, `ChatAssumption`, `FilesAssumption`):

* `MessageStoreProofs`: `TypeCorrect`, `AtMostOneDelete`, `WritesStayInThread`,
  `DeletedForever`, and `WritesAreAtomic`, the refinement of `MessageBoard`. The
  inductive invariant says that a handler about to write has selected a row of
  the thread in its arguments and that the row's thread never changes (so the
  test made in one statement still holds in the next), and that a delete that
  succeeded has left its target deleted (so no other can succeed).
* `MessagesAPIProofs`: `TypeCorrect`, `EveryInvalidationOwed`,
  `AcknowledgedWritesVisible`. An acknowledged write is not pending any more, so
  an entry filled before it can only be there if its invalidation was lost; the
  invariant carries this to the pages that readers hold. `ShortOnlyByNarrowFill` is
  `LastUnlessNarrow` for whatever limits the clients ask for: a page in Redis was cut at
  the limit it was selected with and nowhere else, since a larger limit than
  CACHE_MAX_ITEMS neither fills nor hits.
* `PaginationProofs`: `WalkIsComplete` and `WalkGivesOnce` when no two messages
  share a stamp (`UniqueStamps`), `WalkDescends` always. The invariant splits the
  messages at the cursor: what was given is not below it, what is standing and
  was not given is. Inserts cannot disturb it since a new message was not
  standing; deletes only shrink the standing part.
* `EventPublisherProofs`: `TypeCorrect`, `EventsOfStoredMessages`,
  `BrokerNeverFailsCreate`, `EveryEventKept`, `PoolsSettle`. The invariant
  places a handler: with a pool when it waits for a connection, with a stored row
  when it publishes, and when it returns, under the conditions of `EventKept`, with an event
  that is in the queue or the outbox. On top of it,
  `ResourcesWithinLimits` (the connections lent by a pool, the threads publishing) and
  `BrokerHoldsNoConnection`: connections are held in statements only, so a full pool
  has a statement under way. It is the part of `ConnectionsServed` that holds in
  every state, and needs no fairness.
* `LoadToolProofs`: `TypeCorrect`, `SummaryComplete`, `SentIsStored`, `ToolNeverStuck`. Busy
  workers have jobs of their own, all taken. The queue's count is then the items not
  taken and the busy workers; `ok` and `fail` together are the jobs taken, less the
  busy workers, plus those of them that have counted a first page, plus the follow-up pages; `ok` is at most
  the stored jobs that nobody has in hand, so the count grows only as a stored job
  leaves a worker's hands. `ToolNeverStuck` adds that every worker that left took
  a sentinel of its own, so items cannot be left without a worker to take them. It
  assumes a worker: the tools do not check `--concurrency`, and with 0 and a
  job, `q.join()` waits for ever. `Workers` of the run is not empty.
* `WebSessionProofs`: `TypeCorrect`, `SessionsOfOneLogin`, `LogOutIsFinal`,
  `SessionsInOrder`, `TabsActWhereShown`. As in `ChatBot`, the invariant is about the
  copies: one that may be saved has what one login gave and, but for the list that its
  request still waits for, in the pages' order (`InOrder`). A key that was logged out has no row,
  and saving needs one. For a tab that is alone since its page was read, the page
  `Agrees` with the session saved, and the page that its request will bring with
  the session that there will be then (`Follows`): what another tab or the script of
  the main page saves ends the premise in the same step, and after a logout there is no
  session to disagree with.
* `ChatBotProofs`: `TypeCorrect`, `ExchangesStayWhole`, `HistoriesInOrder`,
  `OnlyOverlapLoses`, `AnswersWereHeard`. The invariant is about the copies of the
  session that requests hold, not only about the saved one: a copy has no posts but
  those its request had seen saved, and its own; the message that waits for its
  answer is the last, odd entry of its history; what a copy has lost was lost by a
  save already made, so whoever saves over a post it has not seen overlapped it. A
  request that is still calling has a gateway that has not counted it.
* `MessageFilesProofs`: `TypeCorrect`, `FilesHaveMessages`, `WindowJoinsRightly`,
  `PagesForgetNothing`, `EveryFileTried`. A file has one owner, a stored file is under
  it, and a post has an id only once its message is in the thread. The lists in hand,
  the answers and the window show nothing that is not stored; since stored files
  never go, an answer that was overtaken is still right, only older, and what was
  known when a list was asked for is in the list.

The type invariants of `Pagination` and `EventPublisher` are in the proofs and not in
the runs. `NeverStuck`, `WithinLimits` and `WaitsForStatements` are defined with their proofs.

Every safety property that a passing run checks is so proved, and only
model-checked are:

* the liveness properties `EventuallyFresh`, `ConnectionsServed`, `AllAnswered`,
  `Terminates`, `PostsEnd` and `PagesEnd`: fairness and ENABLED are outside the prover's
  reach;
* `PrepareBinds`, what a recursive function computes for every statement: a proof
  needs induction over sequences, which the installed provers cannot instantiate;
* the three violations: TLC's counterexamples are their evidence.

## 6. What is not modelled, and the plan

Left out of the modelled parts: the cache switched off (`CACHE_ENABLED`; every
list is then the `Query` step alone), header and payload validation, an invalid
cursor (400, no state changes), the text of errors (that "no row returned" is a
404 is the `absent` result), `close_client` (nothing calls it), the queries that
sqlc generated and nobody calls. In the web interface: registration's form checks,
printed errors, what pages look like. In the load tools: latency statistics and payloads. Gateway, Kubernetes objects and the documents of
other teams' services are declarative or external.

Startup (`docker-compose.yml`, `init-db.sh`, the migration) is not modelled: it is a
declaration of which container waits for which, and what acts on it is Docker. The
migration's failure is discarded (`up || true`), so the API may run without its table;
`MessageStore!Fail` and `EventPublisher!StatementFails` let every statement fail at
any time and so include it.

Next: `PagesForgetNothing` and `KeptUnlessOverlapped` say what is not lost; what they
exclude (answers overtaken, requests overlapped) could be bounded too. Steps towards the
liveness properties, as for `ConnectionsServed` and `Terminates`: that a state
where a request waits has a step that lets it go on (`AllAnswered`, `PostsEnd`,
`PagesEnd`), and a measure that such steps decrease.
