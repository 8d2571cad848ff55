# TLA+ models of the Qore oracle module

The oracle module is a DBI driver of the Qore language (`src/src/`).  It makes
database connections with the Oracle Call Interface (OCI), and offers Advanced
Queuing (AQ) with subscriptions through a copy of OCILIB (`src/src/ocilib/`).
This directory models the parts of it in which several things happen at once or
fail in the middle: the recovery from lost connections, the threads behind AQ
subscriptions, the binds of a statement, the fetch calls, the direct path load,
and the threads that share a connection.

## Inventory

| Part | State | Operations | What is hard |
|---|---|---|---|
| Connection and error recovery (`QoreOracleConnection.*`, `oracle.cpp`, parts of `QorePreparedStatement.cpp`) | OCI session, `lost`, `call_depth`, `abort_pending`, `in_logon`, receive timeout, registered statements and their temporary LOBs | open, close, exec and select calls, SQLStatement calls, commit, rollback, `handleError()`, `logon()`, `abortConnection()` | the session dies between any two round trips; a retry after an unknown outcome; a timeout that leaves client and server out of step; deletion of the connection under its own call |
| AQ queue subscriptions (`QC_AQQueue.qpp`, `AQQueuePriv.h`) | `m_conn`, `m_hasSubscription`, `m_subscription`, `m_lost`, the queue's lock | start and stop, get, post, commit, destruction, the watchdog's check, notification, delivery | four kinds of threads, two kinds of locks, callbacks that call back |
| AQ subscription watchdog (`QC_AQQueue.qpp`) | watched queues, `started`, `running`, `quit`, thread handle | `add()`, `remove()`, `stop()`, `run()` | a thread that is told to quit and then needed again; joins outside the lock |
| AQ callback dispatcher (`QC_AQQueue.qpp`) | queue of callbacks, `started`, `running`, thread handle | `post()`, `stop()`, `run()` | a thread that leaves while work arrives; joins outside the lock |
| AQ callback thread ID (`QC_AQQueue.qpp`) | reserved thread ID and its count | `inc()`, `dec()` | shared by all queues and by failed starts |
| Prepared statements (`QorePreparedStatement.*`) | SQL, bind nodes and what they allocated, handles | parse, bind, execute, output | array binds, binds that fail half way, binding again in a new session |
| Fetching (`QoreOracleStatement.*`, `OraResultSet.*`) | array fetch window, end flags, columnar validity | `next()`, fetch rows, columns, columnar | boundaries of the window, limits and cancellation |
| Direct path load (`QoreOracleBulkLoad.cpp`) | direct path context, stream, counts | begin, rows, end | partial failure, abort by rollback and destructor, chunk limits |
| Thread session attributes (`QoreOracleConnection.*`, `ql_oracle.qpp`) | what the session has, what the thread wants | set, apply | a cache in front of a shared session |
| Cancelling (`QorePreparedStatement.*`) | callback registration | register, break, unregister | a break that arrives late |
| fork() handling | process ID, pthread state of the two AQ threads | prepare, parent, child | threads that do not exist in the child |
| Column values, named types, AQ messages, options, `OracleExtensions.qm` | values | conversion | data only |

What makes each part correct is stated as the properties of the runs below (the
callback thread ID is part of `AQSubscription`).  `PROJECT.json` lists the
hazards, each at its line.

How the parts interact: a driver call holds a `QoreOracleCallGuard`, makes
prepared statements, which call `checkerr()`/`handleError()` of the connection,
which clears, rebinds or resets the registered statements and asks the
datasource (Qore library) to close or keep itself.  A queue owns a datasource of
its own.  Its lock is held over calls of the watchdog manager and the callback
thread manager; the dispatcher's and the manager's locks are innermost; joins
are made outside of the managers' locks.  The client's notification thread and
the watchdog post to the dispatcher, whose thread runs Qore code that may call
any method of a queue.

## Modules

| Module | Models |
|---|---|
| `CallbackQueue` | abstract: a FIFO queue of callbacks that are made one at a time and exactly once |
| `AQCallbackDispatcher` | class `AQCallbackDispatcher` |
| `AQCallbackDispatcherProofs` | its invariants, and that it implements `CallbackQueue` |
| `AQSubscriptionManager` | class `AQSubscriptionManager` |
| `AQSubscriptionManagerProofs` | its invariants |
| `AQSubscription` | class `AQQueuePriv` and `AQCallbackThreadManager`, composed with instances of the two modules above and with the listener of the Oracle client |
| `AQSubscriptionProofs` | its inductive invariant, its theorems, and that it keeps to the specifications of the manager and of `CallbackQueue` |
| `OracleConnection` | class `QoreOracleConnection`, `QoreOracleCallGuard`, the driver calls, and the session on the server; implements `Transactions` |
| `Transactions` | abstract: a transaction is committed whole and once or not at all; one reported as committed is, and one reported as lost never will be, unless it is the commit itself that is lost |
| `OracleConnectionProofs` | its inductive invariant and theorems, and the refinement of `Transactions` |
| `AtomicLoad` | abstract: rows become visible all at once, each once, after the application has asked for it, or not at all |
| `BulkLoad` | `QoreOracleBulkLoadState`, `QoreOracleBulkStream` and the three calls of a direct path load; implements `AtomicLoad` |
| `BulkLoadProofs` | its inductive invariant and theorems, and the refinement of `AtomicLoad` |
| `ThreadCalls` | `applyThreadSessionInfo()` and `QoreOracleCancelHelper`, with several threads on one connection |
| `ThreadCallsProofs` | its inductive invariant and theorems |
| `Cursor` | abstract: an answer has the rows that follow the rows of earlier answers, and the end is told at the end |
| `ColumnarBuilder` | class `OracleColumnarBuilder` and the validity bitmap, as operators |
| `StatementFetch` | `next()`, the fetch calls and the one-shot selects; implements `Cursor` |
| `StatementFetchProofs` | its invariants, what its recursive functions compute, and the refinement of `Cursor` |
| `StatementBind` | `OraBindNode`, the array binds and `QorePreparedStatement`'s bind, execute, clear and reset |
| `StatementBindProofs` | its invariants: what is bound, and which nodes free only what is theirs |
| `MC*` | the constants of the runs |

Definitions have the names of the functions they model.  A definition whose name
has a suffix after an underscore and whose comment begins with "mutation" is a
wrong variant of the definition that follows it; no specification uses it.  It
documents a bug that a property is there to find.

### AQCallbackDispatcher, AQSubscriptionManager

A lock is held for the whole of `post()`, `add()`, `remove()` and `stop()`, and
by a thread of the module between its callbacks or checks, so each such section
is one action; `pthread_join()`, made by the destructor of `AQThreadJoiner`
after the lock is released, is another.  Thread identifiers are reused after a
join, as POSIX allows.  Creation of a thread, and the allocation of an entry of
the dispatcher's queue, can fail (`postFails`, `addFails`).  That the watchdog's
`objects.insert()` (`QC_AQQueue.qpp:177`) runs out of memory is not a case of
`addFails`: the C++ exception would leave `add()` with the manager unchanged, and
`startSubscription()` with the registration made, and is not followed.  A
timed wait may end at any time, so the models say nothing of how long a thread
sleeps.

### AQSubscription

`at`, `why` and `on` are the program counters of the user threads, the dispatch
thread, the watchdog and the listener.  A method is split only where it waits
(for a queue's lock, for the listener's lock in `OCI_Subscribe`/`Unsubscribe`,
for a join, for the server in a dequeue).  `add()` of the watchdog joins before it
returns, so a start goes on to `subscribed` or `addFailed` only when its join is
over.  The Oracle client is modelled from
how the code uses it: it calls back with its listener's lock held and takes that
lock to register and unregister.  The action `ConnectionLost` breaks a
connection at any time.  `MaxSubs`, the number of subscriptions that are
started, and `MaxQueue`, the queued callbacks, are bounds.

`deliverAsyncMessage()` is two steps, as in the code: the test of the subscription
under `m_sandbox_lock` (`deliverAsyncMessage`), and, with no lock, the call of
`onAsyncMessage()` (`onAsyncMessage`).  A thread between them is at `"deliver"`.
Qore code runs on the dispatch thread, and, if that cannot be created, on the
notification thread or the watchdog (`code`).

Assumed of the client: `OCISubscriptionUnRegister` ends the registration also when
it returns an error.  `OCI_DequeueUnsubscribe()` (`ocilib/dequeue.cpp:1091-1105`)
frees its handle in any case and so can only hope for it; if it does not hold,
`RegisteredIsAlive` does not either.

### OracleConnection

A datasource is locked by the Qore library for each call, so there is one call
at a time; `pc` is the round trip that it makes next.  A round trip succeeds,
fails with an error of the server, finds the connection broken, or is ended by
the receive timeout, in which case the server may or may not have done the
work.  `breakLink` can happen between any two steps.  Each change of the
application is an element of `Ops`, tried once; `work` and `committed` are what
the server has, `acked`, `durable`, `gone` and `doubt` what the application was
told.  `PingStalls` says whether the ping of `handleError()` can itself be ended
by the receive timeout; it does not stand for a configuration of the code but
separates one finding from the rest.

A commit whose answer is lost or late may still be running on the server, whatever
becomes of the session: `late` has these transactions, and `settle` lets each take
effect, or not, at any later time.

`Transactions` has `committed`, `late` and the reports, and no session: a commit
takes the whole open transaction into the database, once, possibly with changes
of statements that failed after they had made them, either now or, if its answer is
lost, at any later time (`Leave`, `Settle`); the end of a transaction is
reported as success only if it is committed, and as lost only if nothing of it is
committed or will be.  Only the commit that is lost itself may be reported as lost
and have been made, or be made later.  This is as much as a client
can be told when the answer to a commit does not arrive.

The server is external: a broken session
is rolled back, `OCISessionEnd()` on a reachable session commits, as the comments
in `handleError()` rely on.  The Qore library is external, too:
`activeTransaction()` is true from the first successful statement of a
datasource without autocommit to a successful commit or rollback, and closing a
datasource with a transaction rolls it back first.

Abstractions: a long bind value is one temporary LOB per statement; a direct
path load call is one round trip; several output values are one; the errors of
the logon's own steps are one (`logonFails`); an error while the LOBs of the
application's statements are freed on a session that timed out is recorded in
`misfreed` and not followed.  An element of `Ops` is a change that a rollback undoes:
`AtMostOnce` says nothing of a statement that commits itself, such as DDL, whose retry
after a loss would find its effect there.

### BulkLoad

`bulkLoadBegin()`, a block of rows and `bulkLoadEnd()` are cut where they make a
call of the direct path interface: each can fail, time out or be cancelled.  A
block is cut into chunks of `MaxRows` rows, a chunk is converted into the stream
piece by piece (`OCI_CONTINUE`) and each stream is loaded.  A row is its number;
`MaxLength` bounds the rows of a block, `MaxGiven` those of a load, and
`MaxBytes` is the largest value of the payload counter.  The rows of the table that others see are external state,
changed by `OCIDirPathFinish` and `OCIDirPathAbort`.  `context` is the direct
path context on the side of the session.  An abort can fail on a live session (it is
made under the cancel helper): the context is then `"left"` open there, although
`prepared` is reset and the handles are freed.  A finish that the receive timeout
gives up can still be running in the abandoned session (`"late"`), and takes
effect at any later time (`finishLate`).  A block without rows and
the errors for a load that is not or already active change nothing.  The
application is careful: after a failed block it ends the load without success
or closes the datasource.  One that asks for success would make the rows before
the failure visible.

### ThreadCalls

The Qore library lets one thread at a time use a datasource.  An interruption
copies the callback registered for its thread and calls the copy at any later
time: this is the race the locks of `QoreOracleCancelHelper` are for.  A step of
`applyThreadSessionInfo` is one attribute.  After a loss `logon()` makes a round
trip of its own before the call is made again.  `MaxTrips` bounds the run.
An interruption between the test of `qore_check_cancel()` and the registration
of the callback is not seen until the round trip has ended, so `InterruptEndsTrip` is
about those that find the callback.

### StatementFetch, ColumnarBuilder

A result is a list of columns, of which there is at least one, with names that
are sequences so that a suffix can be added, and up to `MaxRows` rows.  `fetchLoop` is one turn of the loop of
a fetch call; a fetch or a conversion can fail in each, and a cancellation is
seen every `CancelEvery` rows.  `Bits` is the number of rows of a byte of the
validity bitmap.  A value is the pair of its row and column, NULL or, for
numbers, an integer or a fraction.  `EmptyReads` lets an application call
`fetchRow()` after a first block without rows.

### StatementBind

A bind node has its argument, the type of its last bind, its array flag, its
temporary string, its LOB (descriptor and temporary LOB) and what its union holds:
nothing, a pointer into its value, a buffer, a date descriptor or an array bind of
its own, or the pointer to something that was deleted (`"stale"`).  `steps` is what
is allocated by calls that can fail; a bind can fail after any of them, and an
array bind before or after its setup.  All nodes are bound again by each of
`bind()`, `bindValues()` and `bindPlaceholders()`, and only those that the call is
for are cleared first, one after the other until one cannot be set.

A node `strays` if clearing it would delete an array bind that is none, or free a
descriptor or buffer through a union that holds something else.  The call that
clears such a node, and `getOutput()` of a node that is wrongly an array, has an
undefined effect: the statement is `"undefined"` and is followed no further.  The
history variable `astray` records that a node was bound while it still was an
array, or with an array of dates; `DamageNeedsArray` says that nothing else leads
there.  Memory that is lost without being freed is not counted.

A connection is lost only in the first execution of a statement; the other places
are in `OracleConnection`.  After a receive timeout the connection is not marked as
lost, and the nodes are cleared with calls that free their temporary LOBs in the
session that timed out: this makes no difference to the nodes, and is followed in
`OracleConnection` (`misfreed`, `LobsFreedInTheirSession`), but not an error of
these calls, which would handle a second loss inside of the first.

## Runs

All runs finish in well under five minutes.

| Run | Question | Bounds |
|---|---|---|
| `dispatcher` | one thread, exactly-once FIFO callbacks, joins, stop | 2 posters, 3 threads, queue of 2: one thread running, one being joined, one new |
| `watchdog` | one watchdog for the watched queues, joins, stop | 3 queues, 4 threads: more threads than can be unjoined at once |
| `subscription` | the parts of a subscription agree; the shared thread ID is counted; a subscription is watched; no delivery begins after stop; each loss has a reporter | 1 queue, 1 user thread besides the system threads, 2 subscriptions in a row, so that leftovers of the first meet the second; `ThreadIdIsCounted` and `SubscriptionsAreWatched` prove the count and the watch for any number of queues |
| `aq_liveness` | methods return when threads cannot be created and callbacks run on the notification thread | start and stop, 1 queue, 1 subscription, 1 queued callback: all locks and joins are met |
| `aq_restart` | a loss is reported, also the second; methods return, also a start that joins the previous watchdog | start, stop and get, 1 queue, 2 subscriptions, 2 threads of each kind, no notifications |
| `connection` | nothing twice, no half transactions, nothing reported and missing, nothing lost and committed, usable afterwards | 2 changes (a transaction with a past, and one that could be halved), 1 SQLStatement besides the statement on the stack |
| `autocommit` | with autocommit and stalling pings: nothing reported and missing; every call returns | 2 changes, 1 SQLStatement |
| `bulk_load` | the rows of a load are visible together and once, or never; the observer hears the outcome once; a context that was prepared is finished or aborted, and is not left with success; calls end | 6 rows given in blocks, chunks of 2 rows, streams that hold a chunk or a part of it |
| `call_threads` | a round trip has the attributes of its thread; a break hits its round trip | 2 threads, 2 attributes of 2 values, 3 round trips: a call, its logon and its retry, or three calls |
| `fetch` | rows in order, aligned under keys of their own, none left behind at the end | up to 4 rows, blocks of all sizes, lists of columns with equal names and names that look like suffixes, 2 bits to a byte |
| `bind` | a statement runs with its last arguments; nodes stray only after arrays | 2 values, 1 placeholder; NULL, numbers, LOBs, dates, lists of 1 and 2, also of dates, so that every kind of union and of failing setup meets the others |
| `ping_stalls` | expects a violation: a lost transaction that is committed | 2 changes, 1 SQLStatement, statements and commits; pings can end at the receive timeout |

The type invariants (`TypeOK`) hold in all of these runs and are left out of
their cfgs; so are most invariants that a refinement or a theorem already states.

Deadlock is not checked in the AQ runs, because the system may really stop: the
module is stopped and every object destroyed, or the bound on subscriptions is
used up; nor in `bind`, where a statement whose effect is undefined is
followed no further.  It is checked in all others.

Symmetry is used for thread identifiers in `subscription`, which checks invariants
and an action property only, never with liveness.

`ping_stalls` is expected to find a violation, with a finding in `PROJECT.json` that
quotes the line it contradicts: a ping ended by the receive timeout makes the driver
end, and so commit, a session whose transaction it has reported as lost.

The modules state more formulas that the source or its documentation suggests
and that do not hold.  No run lists them; replacing the properties of the cfg
named here by one of them, with the constants in the third column if there are
any, shows a counterexample:

| Formula | cfg | With | What happens |
|---|---|---|---|
| `NoNullCallback` | `MCAQSubscription` | `MaxSubs = 1` | `OCI_DequeueUnsubscribe()` clears `dequeue->callback` (`ocilib/dequeue.cpp:1085`) before the registration has ended, and `ocilib/callback.cpp:250` calls it without a test |
| `ConnectionNotDeleted` | `MCAQSubscription` | `MaxSubs = 1` | `AQQueuePriv::commit()` and `rollback()` (`QC_AQQueue.qpp:927-947`) have no call guard: a lost connection is deleted, and `m_conn` is left |
| `WaitTimeIsKept` | `MCAQSubscription` | `MaxSubs = 1` | a `getMessage()` that is connected again has a new handle without its time limit (`QC_AQQueue.qpp:990`), against "NOTHING if no message was available in the timeout period" (`:1489`) |
| `CallbacksOnCallbackThread` | `MCAQSubscription` | | "Both callbacks are called on a background callback thread" (`QC_AQQueue.qpp:1394`): if the dispatch thread cannot be started, Qore code runs on the client's notification thread with the client's lock held, or on the watchdog thread |
| `NoDeliveryAfterStop` | `MCAQSubscription` | `MaxSubs = 1` | "No notification of the subscription that has not been delivered yet is delivered once the subscription is stopped" (`QC_AQQueue.qpp:1528-1530`): `deliverAsyncMessage()` compares the subscription under `m_sandbox_lock` (`:1144-1150`) and calls `onAsyncMessage()` after it has released the lock (`:1156`); `stopSubscription()` can begin and return between the two |
| `UnrestoredIsReported` | `MCAQSubscription` | | "when a subscription cannot be restored, onSubscriptionLost() is called" (`QC_AQQueue.qpp:1393`): not when it is `getMessage()` that tries to restore it |
| `LostCommitIsLost` | `MCConnection` | `Calls <- PlainCalls` | a commit whose answer is lost raises 'transaction has been lost' (`QoreOracleConnection.cpp:580`) although the server has committed; `docs/guide-ora_lost_connections.dox.tmpl:34` has it restarted |
| `ConnectionOutlivesCall` | `MCConnection` | | the direct path calls (`oracle.cpp:202-217`) and the closing of statements (`oracle.cpp:481-510`) have no call guard, so that a connection found lost in them is deleted under them |
| `LobsFreedInTheirSession` | `MCConnection` | | after a receive timeout `lost` is not set and the executing statement is not cleared (`QoreOracleConnection.cpp:535`): temporary LOBs are freed in the session that is out of step, or in the new one, where they do not exist |
| `NoListenerCycle` (as an invariant) | `MCAQLiveness` | | `onAsyncMessage()`, called on the notification thread because the dispatch thread cannot be started (`QC_AQQueue.qpp:1132-1138`), has the client's lock and takes the lock of a queue, whose holder is starting, stopping or restoring a subscription and waits for the client's lock: neither goes on.  `CallsReturn` is checked with this exception |
| `PlaceholderIsNoArray` | `MCStatementBind` | | `assert(!array)` of `setPlaceholder()` (`QorePreparedStatement.cpp:102`): `bindPlaceholder()` makes a node an array (`:1721`) before it raises an exception for a type without array bind or for a setup that fails (`:1740-1746`), and `clearPlaceholder()` does nothing for a node without a type (`:162`).  A debug build aborts, another keeps the flag for the next bind |
| `SavesOnce` (as an invariant) | `MCStatementBind` | | `assert(tmp_type == OBT_NONE)` of `ora_bind::save()` (`QorePreparedStatement.h:137`): `bindPlaceholders()` sets the placeholders only (`QorePreparedStatement.cpp:2319`) and binds all nodes again, so that a number saves a second temporary string over its first (`:1635`) |
| `AnswersHoldTheirRows` | `MCStatementFetch` | `EmptyReads = TRUE` | `fetchRow()` after a first block without rows reads buffers that were never filled (TLC cannot evaluate the formula: there is no such row) |

What `StatementBind` shows of nodes that are bound again, beyond its two rows of the table,
with traces that end in `"undefined"`:

* a statement with an array of dates whose connection is lost is cleared twice;
  `resetValue()` (`QorePreparedStatement.cpp:2039-2043`) leaves the type of an array
  bind and a dangling pointer, and the second time frees it as a date descriptor;
* after an array bind, `bindValues()` with scalars leaves the placeholders arrays:
  they are bound as scalars, and their output is read, and freed, through the
  pointer to an array bind that is none.

And memory that is lost, which the model does not count: `bindValues()` and
`bindPlaceholders()` (`:2315-2353`) bind the other nodes again over their LOBs,
descriptors, buffers and strings; an array bind whose setup failed is not deleted,
as its node has no type; the destructor of the array bind of LOBs (`:831-974`) never
frees its descriptors and temporary LOBs, and that of a single date (`:1161`) not its
descriptor.

Other things that were met while reading and are left out of the models: an empty
list before a longer one is bound as NULLs instead of being refused
(`QoreOracleStatement.h:211`); a second in/out bind of a placeholder meets
`assert(!value)` (`:117`); the parser skips a character after `\:` and `\%`; a
placeholder without a size is not trimmed after its statement was bound again
(`:1757`); columns named `a`, `a`, `a_1` clash in a columnar result;
`QoreOracleBulkLoad.cpp:563-569` makes `checkerr()` while the cancel helper of the
prepare is still armed, where `ThreadCalls` has it always after the helper's release;
an error of setting the receive timeout (`QoreOracleConnection.cpp:481-491`), which
is an attribute of a local handle, is not a case of `setRecvTimeout`.

## Fairness

* Threads of the module that can run do run (weak fairness of each thread and of
  each join): the code has no priorities and every wait has a waker.
* `AQSubscriptionManager`: a thread that is at the start of a round while nothing
  is being stopped gets to take its snapshot (strong fairness): mutexes are not
  assumed to be fair in any one acquisition, but not to starve one thread for
  ever either.
* `AQSubscription`: the same for waiters for a queue's or the listener's lock, also
  for those that make callbacks (`Callers`: the notification thread and the watchdog
  are among them only if threads cannot be created); a dequeue ends at its time
  limit and its connection is not lost again every time before that; the Qore code
  of a callback returns.  Without the last, no callback after it is ever made.  The
  client's lock is asked for by the holder of a queue's lock only, so one strong
  fairness condition for each queue stands for all threads; it does not help the
  threads of `ListenerCycle`, for which the lock is never free.
* `BulkLoad`: a call that has begun takes its next step (weak fairness), unless
  its connection was deleted under it (`ConnectionOutlivesCall`).
* `ThreadCalls`: the calling thread and the copied callbacks take their steps
  (weak fairness); the server need never answer.
* `OracleConnection`: a call that has begun takes its next step (weak fairness).
  Nothing is assumed of the network: `breakLink` may be taken at any time and
  infinitely often.

## Proofs

All theorems hold for arbitrary constants that satisfy the named assumptions
(distinguished values are not members of the sets they are distinguished from,
flags are Boolean).

* `AQCallbackDispatcherProofs`.  `DispatcherInv` is the conjunction of the
  checked invariants plus the facts that tie `started`, `running`, `thread` and
  the thread's position together: without them, "one thread in the loop" is not
  inductive, because `post()` decides from `running` alone.  From it follow type
  correctness, `OneThread`, `ThreadsAreJoined`, `NothingLeftBehind` and the
  refinement `RefinesCallbackQueue`, with the queue mapped to itself and the
  callback being made mapped to that of the one thread in the loop.
* `AQSubscriptionManagerProofs`.  `WatchdogInv` likewise, with what `stopped`
  implies for `started` and `quit`; five theorems.
* `OracleConnectionProofs`.  `IInv` has six parts, each with a lemma that every
  step preserves it: `TypeOK`; `CallInv`, the control of a call (where a call can
  be, whether it has raised, whether its guard counts it); `StackInv`, the
  statement of a plain call holds no handles outside the call, so that nothing
  can fail after a commit; `ServerInv`, a change is in at most one of the session
  and the database and in neither while it is pending - this is what makes the
  retry safe (`NoChangeTwice`); `LateInv`, a commit that the server still runs has
  changes that are nowhere else; `ReportInv`, what was or will be reported against
  what the server has (`ReportedIsCommitted`, `TransactionIsWhole`).
  `GuardsProtect` follows from `CallInv`.  `LostTransactionsStayLost` needs
  `LossInv` and `RunningInv` (a commit that still runs is of no transaction that
  another call reported as lost), and the assumption that pings do not stall; the run
  `ping_stalls` shows that the assumption is needed.  `RefinesTransactions` also needs
  `DoubtInv`: after the round trip of a commit its transaction is committed whole,
  still being committed whole, or neither; it is neither if the commit failed on a
  connection that is still there; and what was reported as lost by its commit is
  not in the session any more.  Every step then is a step of `Transactions` or
  changes nothing there: the round trip of a commit, or the end of a session with
  autocommit, is `Commit`, or `Leave` if its answer is lost, and `settle` is `Settle`;
  `transactionLost` is `Lose` or `Doubt`; a call that
  returns is `Report`, `ReportCommitted`, `Succeed` or `Abandon`.

* `ThreadCallsProofs`.  `IInv` has, besides `TypeOK`: `CallInv`, somebody uses the
  datasource exactly during a call, with the connection open up to its result;
  `CacheInv`, a cache that is said to be known is right, and in the loop the
  attributes before `index` are those of the thread and of the cache (without
  the latter, setting `known` at the end of the loop is not inductive);
  `HelperInv`, only the helper of the current round trip is registered or has
  handles, and only such a one is breaking; `BreakInv`, a callback that can break
  the current round trip comes from an interruption of its thread.  The three
  invariants of the run follow.

* `AQSubscriptionProofs`.  The invariant `Base` says where threads can be and
  what is true of a queue there.  `Control`, `WatchdogControl` and
  `ListenerControl` tie the place of each system thread to what it is doing
  (`checking`, `note`, `code`); `Locks` says that the holder of a queue's lock is
  exactly the thread at one of the places `Held`; `Stages` says, for each place,
  which parts of the subscription exist there, and that a queue without a holder
  is `Whole`.  None of them is inductive alone: that a step leaves the queue whole
  needs what the holder's earlier steps did, and that nobody interfered needs the
  locks, which need the control.  `HoldersStay` sums up the discipline: a holder
  stays where it is until its own next step.  From `Base` follow
  `SubscriptionsAreWhole` and `RegisteredLive`.
  The composition is proved against the parts.  `UsesWatchdog`: every behaviour
  is one of `AQSubscriptionManager` (a queue is added only when it is not watched
  and removed only when it is, and never by a thread with a join outstanding), so
  the manager's invariant, proved there, holds here, and with it
  `SubscriptionsAreWatched`.  The dispatcher is used by two posters, one of which
  does not look at the bound of the queue, so its specification is not implemented
  literally; its lemmas about single operations are used instead.
  `UsesDispatcher` and `CallbacksInOrder` (the composition implements
  `CallbackQueue`) are the results.
  `NoDeliveryBegins` follows because a delivery begins on the dispatch thread only
  for the callback that the one thread in the loop has taken (`CodeIsDispatched`).
  `LossesAreReported` follows the report from the watchdog into the queue and out
  of it; `ThreadIdIsCounted` counts, with the theorems about finite sets, the
  queues that have an identifier or whose holder is ending them.
* `BulkLoadProofs`.  `IInv` says at each step of a load what the handles are,
  which rows are in the stream, in the column array and sent (`Sent`: the rows
  before the offset, each once, and none after it), and what the application and
  the observer were told.  `LoadIsAtomic` maps the step at which the application
  asks for the end to `Ask`, and `OCIDirPathFinish`, or `finishLate`, to the step
  that makes the rows visible.
* `StatementFetchProofs`.  A call that has not failed has taken the `n` rows that
  follow the row where it began, and its loop ends only at its limit or at the end
  (`CallInv`); that the end was told means that the cursor is at the end
  (`ResultInv`).  `EndIsTheEnd` and `CallsAreACursor` follow.  What an answer
  holds is proved in three layers.
  The builders: `append()` keeps the elements that a builder has and adds one
  (`Extends`), over the bytes and bits of its bitmap and over the change of a
  NUMBER column to a list.
  The keys: `rowHash()`, `pushColumns()` and `columnarResult()` are recursions
  over the columns.  Each is described by the function of its partial results
  (`RowSteps`, `PushSteps`, `ColumnSteps`), which exists and whose last value is
  the result; both are proved by induction from one fact, that a set of numbers
  that is not empty has a least one (`Least`, `InductionToBound`).  `Keys` says
  which keys the columns get: one of the suffixes is free for a duplicated name,
  as there are as many as columns (`ASuffixIsFree`, by counting), so that a key is
  new and the values of the earlier columns stay (`KeysAreNew`, `RowHasItsKeys`).
  `fetchColumns()` finds the same keys by the lengths of its lists: with all lists
  of one length before a row, the longer ones are those of the earlier columns
  (`RowIsPushed`).  The unique names of a columnar result differ if no name of
  the select list is another with a suffix (`UniqueNames`); without that
  hypothesis, `NoClash`, the statement is false, see the end of "Runs".
  The calls: `Collected` is what a running call has, after each row.  With it
  `AnswersAreInOrder` is preserved (`AnswersKeepTheOrder`), and
  `RowsAreUnderTheirKeys` and `ColumnsAreUnderTheirNames` follow.
  The last three assume `~EmptyReads`: with it the code answers with a row that
  was never fetched (see the table above).
* `StatementBindProofs`.  `BindInv`: the positions before `pos` refer to the
  arguments of their nodes, in memory that these have, and lists are as long as the
  array; an execution that is bound again keeps its iterations.  `ArgumentsAreBound`
  follows; it assumes that no list is empty (an empty list before a longer one is
  bound as NULLs).  `CleanInv`: as long as nothing went `astray`, the type, the array
  flag and the union of every node agree (`Clean`), and a statement without lists has
  no node that is an array.  A clean node stays clean when it is cleared, once or
  twice, set, or bound while it is no array, so that it frees only what is its own:
  `DamageIsOfArrays`.

Every invariant and safety property that a passing run checks is a theorem, the
refinements with their safety parts.

Only model-checked: liveness (`LossIsReported`, `CallsReturn`,
`StopReturns`, `WatchedAreChecked`, `ThreadsEnd`, `CallsEnd`, `InterruptEndsTrip`, and
the liveness of `Implements`), which rests on fairness and `ENABLED`, outside the
proof system's reach; and everything under "do not hold" above, which are
counterexamples.

## Not modelled

See the components with status `not_modelled` and `partly` in `PROJECT.json`.

* OCILIB (`src/src/ocilib/`) is a third-party library, about four fifths of the
  lines of the implementation, most of it declarations and accessors that the module
  never calls.  Only the registration and the notification of AQ subscriptions
  matter to the module's own logic, and they are in `AQSubscription`.
* Conversions of values, named types and collections (`oracleobject.cpp`,
  `OraColumnValue.cpp`), message payloads and options carry data and no control;
  where they can fail the models have a choice of the outcomes.
* fork(): the handlers take and release the locks of the two AQ classes; which
  of them run, and in which order, is decided by the Qore library, which is not
  in the repository.
* The placeholder parser, in/out values and named types in binds; nested cursors
  and LONG columns in results; the encoding and truncation of session attributes,
  and `OCI_SetTrace()`, which sets one of them behind the cache
  (`QC_AQQueue.qpp:764`).

## Plan

Done: the dispatcher, the watchdog, the subscriptions composed of them, the
connection and its transactions, the direct path load, threads and cancellation,
fetching and binding, and the proofs of all their safety properties.  Left:

1. The placeholder parser, `oracle_columnar_parse_decimal128()` and
   `ora_truncate_utf8()` as recursive functions with a reference definition; the
   lemmas for inductions over columns in `StatementFetchProofs` carry over.
2. `StatementBind` with connections that are lost in a later execution, composed
   with `OracleConnection`.
