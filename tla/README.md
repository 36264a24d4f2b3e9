# CPP_Reactor in TLA+

A model of the one-loop-per-thread HTTP server in `src/` (own code: `src/src`,
`src/include`): TLA+ modules, the TLC configurations that check them on small
instances, and TLAPS proofs for every value of the constants. `PROJECT.json`
maps every definition to the lines it stands for, and lists runs, mutants,
findings, hazards and theorems. Paths below are relative to the repository.

## 1. Inventory

| Component | State | Operations | Interacts with |
|---|---|---|---|
| `core::EventLoop` | `channelMap_`, `taskQ_`, `callbackQueue_`, `isQuit_`, wake-up socketpair | `run`, `active`, `addTask`, `destroyTask`, `processTaskQ` (re-entrant), `post`, `shutdown` | calls its Dispatcher and the callbacks of its Channels; called by every other thread |
| `core::Dispatcher` and the epoll, poll, select back ends | interest lists, arrays, fd sets | `add`, `remove`, `modify`, `dispatch` | owner thread only; `dispatch` calls `EventLoop::active` |
| `net::Channel` | descriptor, event mask, callbacks | `writeEventEnable`, destructor (close, then callback) | owned by `channelMap_`; calls the raw `TcpConnection` |
| `net::IOThreadPool` | threads, loops, `latch_`, `loopIndex_` | `start`, `stop`, `getNextLoop` | constructs, feeds and shuts down loops |
| `net::TcpServer` | `conns_`, `pendingCloseFds_`, metrics | `run`, `acceptConnection`, `cleanupClosedConnections_`, `stop` | accept thread; posts ADD and idle closes to the loops |
| `net::TcpConnection` | `state_`, `channel_`, buffers, pending response | `init`, `handleRead`, `handleWrite`, `handleClose`, `sendAsyncResponse`, `shouldCloseForIdle` | loop thread, and the accept thread for the idle close |
| `protocol::HttpRequest` | parser stage, headers, body | `parseRequest` | incremental over `Buffer` |
| `core::Buffer` | vector, read and write index | `append`, `retrieve`, `find`, `readFd`, `writeFd` | both buffers of a connection |
| `protocol::HttpRouter` | `routes_` | `addRoute`, `addPrefix`, `dispatch` | called by the handler `main.cpp` gives the server |
| `handler::StaticFileHandler` | `root_`; the file system | `handle` | its pages link to URLs that come back through the router |
| `handler::SqlHandler`, `SqlStatementGuard` | executor, `readOnly_` | `handle` | submits a job; the job posts the answer to the loop |
| `persistence::SqlExecutor`, `ThreadLocalSingleConn`, `MySqlConnection` | `jobQueue_`, `running_`, `stopping_`, the thread's Slot | `start`, `stop`, `submit`, `run_`; `ensureConnected_`, ping, query | one worker thread, mutex and condition variable |
| `persistence::SqlTransaction` | `conn_`, `finished_`; autocommit mode and writes of the session | constructor, `execute`, `commit`, `rollback`, destructor | runs in a job, on the session later jobs use |
| response, repository, configuration, metrics, `main_echo` | little or none | formatting, I/O, wiring | see section 9 |

What is hard in this code: tasks, callbacks and shutdown requests racing with
a loop that is going to sleep; `processTaskQ()` entered again from a callback
it is running; descriptors reused while events, tasks and close notices still
name them; two threads closing one connection; a response that must wait for
another thread; the order in which loops, connections and executor are torn
down; a transaction that fails half-way on a session others use next; and one
text read by several pieces of code that must agree on it (a URL, a
statement). `hazards` in `PROJECT.json` lists each at its line.

What makes the components correct: nothing handed to a loop is lost, doubled
or left for the dispatch time-out; a callback never runs on freed memory; each
descriptor has one owner; recycling hits the right connection; a back end
watches what the Channels asked for; every request is answered once and in
order, or the connection ends; a stopped executor owes no answer; no job meets
what another left in the session; what is served lies where it may be seen and
what the pages link to is there.

## 2. Modules

| Module | Models | Theorems |
|---|---|---|
| `EventLoop` | the loop with its owner and other threads | `EventLoopProofs` |
| `IOThreadPool` | the pool, each loop reduced to `isQuit_` and run() begun or returned | `IOThreadPoolProofs` |
| `TcpServer` | accept thread, loops and connections: who owns a descriptor, a Channel, an object | `TcpServerProofs` |
| `Dispatcher` | abstract: what a loop relies on | |
| `PollDispatcher`, `EpollDispatcher`, `SelectDispatcher` | the back ends, step by step | |
| `DispatcherFactory` | `createDispatcher`; composes the three and states their properties | `DispatcherFactoryProofs` |
| `SqlService` | abstract: what the executor promises SqlHandler | |
| `SqlExecutor` | executor, its worker's database connection, the database going down and up | `SqlTransactionProofs` |
| `SqlTransaction` | extends it: jobs whose body is a transaction, call by call | `SqlTransactionProofs` |
| `Buffer` | one read or write buffer: indices, growth, compaction, the two-part `readv` | `BufferProofs` |
| `HttpConnection` | the HTTP side of a connection; its SQL answers come from an instance of `SqlService` | `HttpConnectionProofs` |
| `Url` | the text helpers all of these use: cutting, decoding, encoding | |
| `HttpRouter`, `StaticFileHandler`, `SqlHandler` | what each answers, as operators | |
| `Site` | the request handler of `main.cpp`, put together from the three, and a client that follows links | `SiteProofs` |

`MC*` modules extend one of them for TLC. Composition runs along promises:
`IOThreadPool` assumes of a loop what `EventLoop` checks (`ShutdownStops`),
`HttpConnection` uses `SqlService`, which `SqlExecutor` is shown to implement,
poll and epoll implement `Dispatcher`, and a request of `HttpConnection` that
waits for SQL is one for which `Site` answers "job".

### How state and actions correspond to the code

*EventLoop.* `pc` is where the owner is in `run()` and `active()`; `phase` and
`stack` are the activations of `processTaskQ()` nested in it: each keeps its
own local callback queue, all share the local task queue that `swap` filled.
Every critical section is one action; what a caller does outside it (writing
the wake-up byte after unlocking, `taskWakeup_`) is another, so that every
interleaving of producers with drain, swap and sleep is there. A callback of a
Channel may return, queue DELETE or MODIFY, or post. The socketpair is a
counter with capacity `WakeCap`: a full pair drops the byte, as the
non-blocking `write` does.

*TcpServer.* The accept thread (`apc`), each loop (`lpc`), and for each
connection the object (`life`), the descriptor (`cfd`, `fdOpen`), `state_`,
`channel_` and the place of the Channel (`chan`: not made, queued in ADD, in
the map, in its destructor, gone). `handleClose()` is two steps, load and
store of `state_`, on either thread; the idle close has a third, the
dereference of `channel_`; the Channel's destructor is two, `close(fd)` and
the callback. Tasks name descriptors only, as in the code, with the connection
they were meant for as a history field.

*Back ends.* Channels are added, modified and removed between dispatches and,
by callbacks, in the middle of the walk over the results. The poll walk goes
over the live array.

*SqlExecutor.* One action per critical section and per atomic exchange; the
Slot is `conn`, `broken` and `age` (what `created` and `lastUsed` decide).

*SqlTransaction.* While the worker is in "query", the job makes its calls; the
session's `autocommit` and `pending` belong to the database server, which may
refuse a statement or a commit and go away between any two calls. `commit()`
is two round trips, and so is `rollback()`. A job stops at the first call that
fails. The jobs of the server itself only query; transactions are what the
interface offers its callers. `durable` and `lost` are history.

*Site.* Names and statements are sequences of bytes; the special ones (`/`,
`%`, `+`, `?`, `#`, `.`) are themselves, the keyword sets are constants. The
file system is a constant tree of directories, files and links; `Real` is
`weakly_canonical`, which follows links, and `readable = FALSE` makes opening
or listing fail. The state is what the process keeps between requests, what
the client saw last and the link it followed to get it.

*Buffer.* `buf` is the vector, its size and the two indices; a byte is its
number in the stream that was put in, so content and order show in the memory.
What is below 2^32 bytes, the range of the indices, is assumed; `given`,
`taken` and `peak` are history.

*HttpConnection.* Bytes are tokens (a line with its CRLF, or a body); `readv`
takes any prefix of what was sent, pieces of tokens included (they stay in the
stream and the parse sees nothing). Parse, `Parse*`, follows the three stages
and leaves in the buffer what the code leaves, so a bad request line stays and
a bad header goes. A response is a record of the request it answers, its
status and its Connection header. Actions that end a dispatch leave in `pc`
whether the same event was writable too. Values of time are two booleans,
`late` (five seconds of an incomplete request) and `recent`. `select` says
which kind of back end there is (`main.cpp:80-83`). With poll and epoll the
MODIFY after `writeEventEnable(false)` ends write events; with select the bit
stays in `writeSet_`, `leftOver`, and `handleWrite` is called again with an empty
buffer. The bit may also be there from an earlier Channel with the descriptor.
`ActiveError` is the first branch of `active()`, which select never takes. The
client counts responses, not what they answer.

## 3. Runs

| Run | Question | Bounds | Distinct states |
|---|---|---|---|
| `event_loop` | are tasks, callbacks, wake-ups and shutdowns handled once and without the time-out? | 2 descriptors, 1 other thread, 4 calls, `WakeCap` 1, shutdown before run, failing dispatch | 535,634 |
| `dispatchers` | do the back ends watch all they should (poll and epoll nothing else), and do poll and epoll implement `Dispatcher`? | 3 descriptors, room for 2 | 51,726 |
| `io_thread_pool` | are loops ready when used, evenly used, and does stop return? | 3 workers, 2 connections, 1 start | 3,727 |
| `tcp_server` | do callbacks, recycling, ownership and counters survive every interleaving, and is a closing connection freed? | 3 connections on 2 descriptors, 1 loop | 202,651 |
| `sql_executor` | are jobs answered once, in order, also around stop and outages, and does a transaction leave all or nothing and a clean session? | 3 jobs, 2 starts, 2 outages, 2 writes | 90,680 |
| `buffer` | do bytes come out as they went in, in bounded memory? | reserve 1, capacity 2, `extraBuf` 2, 9 bytes | 2,486 |
| `http_connection` | are requests answered in order, once, or the connection ended, also under select? | 2 requests of 7 kinds, keep-alive limits 1 and 2, either kind of back end, `MaxReplies` 1 | 397,464 |
| `site` | is what is served public, do links lead where they say, does read-only mode only read? | a tree of 29 entries, 10,204 requests | 9,747 |
| `io_thread_pool_hang`, `tcp_server_idle_race`, `tcp_server_stop`, `http_held` | the four findings of section 6 | minimal | |

Why these bounds suffice to meet the interesting cases:

* *event_loop*: the four calls are tasks and callbacks in any split over the
  other thread and the owner's own callbacks, around any shutdown. Two
  descriptors and four calls are what it takes for a callback to run a nested
  `processTaskQ()` that removes a channel whose event is still in the batch
  (`ActiveNotFound`). A second other thread (with 1 descriptor and 3 calls,
  134,840 states) changed nothing: the remote calls meet only in the two mutexes,
  and the proofs cover any number of threads. `WakeCap` 1 makes the second
  byte the dropped one.
* *dispatchers*: three descriptors for two slots meet a full table, a freed
  slot that is taken again in the same walk, and a neighbour that must not be
  hurt.
* *tcp_server*: three connections on two descriptors meet reuse of a
  descriptor while the old connection waits for recycling, and a third that is
  not concerned; `FirstUseInOrder` lets interchangeable connections begin in one
  order only. One loop holds every conflict between the accept thread and a
  loop; loops do not share connections, and the proofs cover any number.
* *sql_executor*: two jobs can wait behind one; a restart and a second outage
  show that no state is left over. Two writes are the fewest of which a part can
  be kept. `SubmittedInOrder` is the same reduction for jobs.
* *buffer*: the vector is full after two bytes, so nine meet growth,
  compaction and a spill of one or two bytes in any order; the proofs cover the
  real sizes (8, 1024, 32768).
* *http_connection*: the second request comes after a kept response, after a
  limit or after an error. `MaxAhead = 1`: the client waits for an answer
  before it sends again and obeys `Connection: close` (pipelining is in
  section 6). `MaxReplies` only bounds answers without new input, repeated 408
  and writes after an idle close; 2 gives 863,014 states and no other result. The kind `get` behaves as `post` without a
  body and is left out.
* *site*: URLs are all sequences of up to three segments, among them `..` in
  both spellings, an empty one, links out of the root, into the hidden
  directory, to themselves and to nothing, and names that need encoding (these in
  sequences of two; six segments exhaust the links a lookup may follow);
  statements are up to five pieces out of a keyword that reads, one that writes,
  the halves of a forbidden token, blank, comment and semicolon.

`CHECK_DEADLOCK FALSE`: a stopped server, a loop that returned, a closed
connection and a client with nothing to say may all stop.

## 4. Fairness

* `EventLoop`: the owner thread is scheduled, and a thread inside `addTask`,
  `post` or `shutdown` writes its byte. The two-second time-out of `dispatch`
  is possible and never relied on.
* `IOThreadPool`: the main thread goes on within a call, a worker reaches
  `run()`, and a loop whose `isQuit_` stays set returns (checked in
  `EventLoop`). No one has to call anything.
* `TcpServer`: the accept thread goes through its loop (the 1 ms sleep makes
  `accept` return), the loops run. Clients and idle time-outs are free.
* `SqlTransaction`: worker and stopping thread are scheduled, and a job ends.
  The database may stay down for ever.
* `HttpConnection`: the loop is scheduled, so what has arrived is read, the end
  of a connection noticed, a posted answer run and a DELETE handled; a write
  event that stays possible takes a whole response at last, which assumes that
  the client reads what it is sent; and the executor answers
  (`EveryJobAnswered`). The client need not send anything, nor stay.

## 5. What the passing runs show

* `NoLostWakeup`, `WorkHandled`, `ShutdownStops`: the order drain, swap, check
  loses nothing, although the owner writes no byte to itself and a full pair
  drops bytes. `ShutdownStops` speaks of a loop that has entered `run()`; a
  `shutdown()` before that is lost, and only `StopAlwaysReturns`
  (`io_thread_pool_hang`) is about it.
* `TaskFIFO`, `CallbackOnce`: re-entrancy neither doubles nor reorders tasks
  nor runs a callback twice. `WriteOnLiveChannel`: the second look-up in
  `active()` is needed and enough.
* `TablesMatchMap`: the table of poll or epoll and `channelMap_` never drift
  apart, also when an add is refused. For select it says less: `readSet_` is
  exact and `writeSet_` has every write interest a Channel asks for, but keeps
  those that were given up (section 6). `NoStaleEvent`: a Channel in a reused
  slot of poll gets no event found for the one before. `Implements` is about
  poll and epoll.
* `ChannelConnAlive`, `PendingExact`, `FdOwnedOnce`,
  `DeleteHitsOwn`, `MetricsExact`, `CloseCompletes`: while
  the server runs the life cycle is right although two threads may close a
  connection and tasks and notices name descriptors that are reused. The key is
  that the accept thread empties `pendingCloseFds_` and `conns_` itself.
* `JobsInOrder`, `OneFailurePerOutage`,
  `StopReturns`, `EveryJobAnswered`, `Implements`: the executor keeps the
  promise of `SqlService`, also with jobs queued when it is stopped.
* `SessionClean`, `AllOrNothing`: `finished_` is set late enough and autocommit
  restored early enough that every failure of a call still ends in a rollback
  and a session in autocommit mode, or in no session.
* `Contents`, `MemoryBounded`: bytes survive every growth, compaction and
  spill, and the consumed part is used again before the vector grows.
* `AnswersInOrder`, `OwesNothing`, `EndIsLast`, `EveryRequestEnds`: for a client
  that waits, whichever way bytes are cut, writes are short and queries slow.
  The first and the third hold with select only until a write interest that was
  given up is left in `writeSet_` (`~leftOver`); `EveryRequestEnds` holds
  with every back end throughout.
* `ServedIsPublic`: the check of the resolved path and that of the shown name
  together hide what lies outside of the root, in `config` and behind a dot,
  and a page lists what a request would get. `LinksLead`: encoding, page,
  router, cut and decoding agree on every byte of a name. `OnlyReadsSubmitted`:
  the guard's reading of a statement is as strict as the database's.

## 6. Where code and documents disagree

Checked by a run of their own (`findings` quotes the lines):

1. `io_thread_pool_hang`: `stop()` soon after `start()` may hang, because
   `run()` resets `isQuit_` after the latch was counted down.
2. `tcp_server_idle_race`: the idle close runs `handleClose()` on the accept
   thread and may use a Channel the loop has destroyed.
3. `tcp_server_stop`: `stop()` frees connections whose Channels still exist.
4. `http_held`: an idle time-out closes a connection that waits for SQL.

Seen while modelling, with a definition in the module but no run; add the name
to the configuration to see the trace:

* `CallbackAfterItsTasks` (`EventLoop`): tasks and callbacks are swapped out in
  two critical sections, so a callback can overtake a task accepted before it.
* `NoDestroyInActive` (`EventLoop`): a nested `processTaskQ()` handles DELETE
  inside `active()`, against `EventLoop.cpp:193-194`.
* `WatchedWasAsked` (`DispatcherFactory`): MODIFY and REMOVE of the select back
  end clear by the mask the Channel has at that moment; after
  `writeEventEnable(false)` (`TcpConnection.cpp:423-427`) the write bit stays in
  `writeSet_` (`SelectDispatcher.cpp:35-47, 60-71`, against `Dispatcher.hpp:40, 45`),
  while the Channel is mapped and after its removal, when `select()` meets a
  closed descriptor.
* `AnswersInOrder` without its condition on `leftOver`: what follows for a
  client. With select, after each answer of a kept connection `handleWrite` is
  called with an empty buffer and sends an empty 200 with `Connection: close`
  (`TcpConnection.cpp:390-394, 423-430`), so keep-alive is lost. `EndIsLast`
  without it: that 200, written in part, may be followed by an error answer.
* `AcceptedIsNew`, `EventHitsOwn` (`TcpServer`): the destructor closes the
  descriptor before the entry of `conns_` goes, so `accept()` can return it in
  between (the server then refuses that connection), and an event found for
  the old connection may reach the new one.
* `LatchNeverUnderflows` (`IOThreadPool`, `MaxStarts = 2`): a pool that is
  started again counts the latch down again.
* `OneFailurePerOutage` with `PingBeforeUse = FALSE`: a dropped session is used
  until it expires.
* `AnswersInOrder` without its condition on `closedBy`: an idle close while a
  response is written leaves the write interest on, and an empty 200 may follow.
* `AnswersInOrder`, `OwesNothing` and `EndIsLast` with `MaxAhead = 2`: a
  pipelined request stays in `readBuffer_` until more bytes come, or takes the
  answer of the one before.
* The kind `bare` in `OwesNothing`: a request without headers is never complete.
* `AllOrNothing` without its condition on `lost`: with `OPT_RECONNECT`
  (`MySqlConnection.cpp:159`) the driver opens a new session in autocommit mode
  within a transaction, and its later writes are kept one by one.

Seen in the text of the code, where no document says otherwise or the model
leaves the detail out:

* `POST /sql` has no route, falls through to the static files and is answered
  405 as plain text, while HTTP-API.md §4 promises JSON; a method in small
  letters does reach `SqlHandler`, since the router compares without case.
* The link `..` of a page is put together from the decoded path without
  encoding (`StaticFileHandler.cpp:227-241`), so it fails below a name with
  special bytes; `LinksLead` says so with `Plain`.
* A URL whose path does not exist before its `..` are taken away is only tidied
  up, not resolved (`StaticFileHandler.cpp:326-345`). If what is left leads
  through a link out of the root and back in, the page is shown, and its `..`
  names a place outside, which is refused; `LinksLead` says so with `Public`.
* The same kind of URL, on which links have been followed already, may use up
  what the kernel follows; an entry behind one more link is then denied as an
  error of `relative()` and missing from the page (`MaxLinks` in
  `StaticFileHandler`).
* `directory_iterator` and `weakly_canonical` throw on an unreadable directory
  and on a loop of links, and nobody catches (`up` in `Site`); the 500 that
  `StaticFileHandler.hpp:24` names for a file that cannot be read or a directory
  that cannot be walked is not reached then.
* HTTP-API.md §6 (lines 125 and 130-131) still says that `config/SQLConfig.json`
  can be downloaded and that the deny list is to be written; §3 of the same
  document (lines 38-39), the tests and the code refuse it (`ServedIsPublic`).
* A file named like an exact route, or `healthz`, cannot be fetched (`Kept`).
* The destructor of a moved-from `SqlTransaction` still rolls back: the move is
  defaulted and leaves `conn_` and `finished_` as they were (`SqlTransaction.hpp:32`).
* `commit()` reports failure when the server has committed and only
  `setAutoCommit(true)` failed.

## 7. Proofs

`tlapm` checks the eight proof modules of section 2 from the named assumptions on
the constants only. Bounds such as `MaxCalls`, `MaxStarts` and `MaxWrites` and
the sizes of `Fd`, `Conn`, `Loop`, `Remote` and `Job` are arbitrary there.

* *EventLoop.* `TypeInv` = types plus `Control` (which activations can be where;
  without it a step of a nested `processTaskQ()` has no typed stack). On it:
  `TaskOrder` (`TaskFIFO` is inductive with `TypeInv`), `EachCallbackOnce`
  (`CallbackOnce` with `NoneTwice`: no id is twice in a stack frame or in
  `callbackQueue`) and `NoWakeupLost`. The last speaks of `pc = "wait"` only and
  is not inductive; `WakeInv` and `LocalInv` say for every other place in an
  iteration which queues may hold work without a byte, because the swap or the
  check of `isQuit_` is still to come. `WriteCallbackLive` follows the same way.
* *IOThreadPool.* `Balanced` needs `NextIndex`, the modulus-free successor;
  `LoopsBuilt` needs `LatchInv`: the latch is the number of workers that have
  not counted down, of which the proof keeps the cardinality.
* *TcpServer.* `Inv` = `TypeInv /\ ChannelConnAlive /\ PendingExact`, where
  `TypeInv` carries what each thread's place implies for the connection it holds
  (`AcceptInv` and its companions), and which loops and queues may mention a
  connection. From it `NoDanglingThis`, `RecyclingExact` (with
  `NoLeak`) and `CountersAgree`; with it `OneOwner`
  (`FdOwnedOnce` is inductive relative to `Inv`) and `DeleteIsOwn`, through
  `DeleteInv`: a DELETE in a queue stands behind no ADD of another connection
  with the same descriptor. The step of a loop is proved for one arbitrary
  loop; `OtherLoop` shows the rest untouched.
* *Buffer.* `Inv` = `TypeOK /\ Contents /\ MemoryBounded` is inductive as it
  stands. One lemma per operator (`GrowFacts`, and its companions) says what
  the operator does to the shape of a buffer and to the bytes it holds; the
  actions are put together from them.

* *SqlTransaction.* `ExecInv` = `TypeOK /\ Phases /\ Places` holds of the
  executor alone: which threads can be where, and that job, queue and answers
  are consecutive parts of what was accepted. A call of a job is a stutter of
  the executor (`ExecutorSteps`), so what is proved of `Next` holds of `TxNext`:
  `NothingLost`, `ServiceKept` (the refinement of `SqlService`) and, through
  `FailInv`, `FailuresBounded`, which needs `PingBeforeUse`. `TxInv` adds what
  each place of a transaction implies for the session and the writes
  (`Sessions`, `Calls`, `Writes`); `SessionsClean` and `Atomic` follow.
* *Back ends.* `PollInv`: a slot is in use exactly for a mapped descriptor, with
  its events, and a free slot has no results. `EpollInv` adds that the entries of
  `readyEvents_` name different descriptors. `SelectInv` needs that every
  Channel reads. `NothingUnwatched` is `TablesMatchMap`, with its weaker part for
  select. The refinement of `Dispatcher` goes through `PollView` and
  `EpollView`, which say what `watched` and `undelivered` are in terms of slots
  and of list entries; each action has its lemma.
* *HttpConnection.* `TypeInv` carries who closed the connection and that the
  loop counts no response after the one that reached the limit; `TypeCorrect`
  holds for any client. The other three theorems are about a client that waits
  for each answer (`MaxAhead = 1`, an assumption of the theorem, since the
  properties fail without it, section 6); kinds, numbers of requests and
  limits are arbitrary. `After(c, b, s)` says that the buffer and then the
  stream hold the parts of the last request after the first `c`. `LineStage`,
  `HeadStage` and `BodyStage` say what each stage of the parser makes of that,
  and so `Progress` what any cut of the bytes does; `Stuck` is the same behind
  an error answer. `LiveInv` puts a connection whose loop still writes, with
  no write interest left over (`Alive`), in one of four places: the request is
  arriving (`Incoming`), its job is with the executor (`Owed`), its answer is
  pending (`Ready`), it is answered (`Idle`); and it says what the wire holds
  in each (`OnWire`). From it `EachAnswerInOrder`, `NothingAfterTheEnd` and
  `NoRequestForgotten`. The first line end of a buffer exists by `Least`,
  which takes the least element of a set of numbers from the well-foundedness
  of finite sets under inclusion: the library's induction on numbers takes an
  operator and cannot be used.

* *Site.* `SiteInv` says that the last answer is one the router and the handlers
  give to some method and URL, and that a link that was followed stood on a page
  that was shown; the rest is about the operators. They recur over bytes, names
  and links, as recursive functions. The library's induction takes an operator,
  so the first section states induction (`RankInduction`) and recursion
  (`Recursion`, `TailRecursion`) for sets and functions: they follow from the
  well-foundedness of finite sets, like `Least`. From there each function has
  its equation (`WalkDef`, `PartsDef`, `DecodeDef`).
  - `ServedIsPublicAlways`: a place the two checks let pass is public
    (`PublicIsAllowed`), for the file that is served and for the entries of a
    page alike, because both look at a resolved path.
  - `EncodingIsUndone`: encoding writes each byte by itself (`Spread`), and
    decoding undoes what a byte was written as, whatever follows
    (`DecodeSpread`).
  - `LinksLeadAlways`: a resolved path meets no link (`RealSolid`), so a lookup
    of it with something behind goes on from its end (`Continue`). An encoded
    way has no byte that a later cut would see; it is taken apart into the
    segments it was put together from (`EncodedLeads`, `PlainLeads` for the way
    up). What `handle` then looks up is the target (`LedTo`), and what it
    answers is the target's, since the target is allowed.
  - `OnlyReadsSubmittedAlways`: a statement without comment signs reads the
    same to the database (`NoComment`); a semicolon can only be followed by
    blanks, cut off by the guard; the first word is the guard's (`SameKeyword`),
    and a text without its blanks has the same bytes whether they were removed
    one by one or the words joined (`StripFlat`).

What is left to TLC is what needs fairness: `WorkHandled`, `ShutdownStops`,
`StopReturns`, `EveryJobAnswered`, `CloseCompletes`, `EveryRequestEnds`. That an
`HttpConnection` owes nothing when it is settled is proved, that it settles is
checked.

## 8. Abstractions worth knowing

* `HttpConnection` does not know payloads, headers or SQL text; a request is one
  of the kinds of `Parts`. `Site` knows URL and statement and no bytes on a
  wire.
* `TcpServer` does not read or answer; a callback returns, closes or posts.
  `HttpConnection` has one connection and no second loop.
* Data races on plain fields (`channel_`, `writing`) are interleavings of
  atomic steps.
* The kernel follows 40 links in a lookup, the model `MaxLinks` = 5: the proofs do
  not depend on the number. A zero byte in a URL is a byte like others, where
  the system calls would end the name at it.
* `SIGPIPE` is taken as ignored; `main.cpp` does not ignore it.

## 9. Not modelled

* `HttpResponse` and the text of pages and JSON: formatting only.
* `SqlConfig`, `JsonConfigLoader`: each reads a file once, before anything runs.
* `main_echo`: a second program on the same core, for trying it out.
* `Metrics` but for the three counters `TcpServer` keeps, and
  `logMetricsIfNeeded_`: relaxed counters, each changed by one atomic operation.
* `TcpServer::run` when `listen` fails: it returns before anything was started.
* `SqlRepository`: one query through `submit` with a callback, which is a job of
  `SqlExecutor`; no one calls it.
* Vendored code, scripts and tests.

## 10. Plan

Order: the loop, then the life cycle that rests on it, then what clients see.
Done are the modules of section 2, and every invariant and action property of
a run has a theorem. Next:

1. A composition of `IOThreadPool` with the life cycle: a loop whose `run()`
   failed is still handed out.
2. The back-end properties `Dispatcher` promises, used by `EventLoop` in place
   of its own event batch.
