# Verification of philips_tv_app

TLA+ modules, TLC configurations and TLAPS proofs for the native TV server
(`src/tvserver`, C++) and the over-the-air download application
(`src/oadapp_architecture`, Java). Paths below are relative to `src/`.

## 1. Inventory

Each part: the state it keeps, its operations, what is hard about it, and what
makes it correct. Section 7 says where each stands.

**MemoryPool** (`tvserver/CDbFactory/hsvmempool_m.cpp`, `hsvmempool.h`). A free
list threaded through an array of integers, `FreeList`, with head `FreePtr`;
`FreeList[i] = i` marks element `i` as handed out. `Malloc`, `Free`, `Reset`.
Hard: double frees, frees of addresses it does not own, and the list's last node
`MaxElements`, which has no memory behind it but is not `POOL_TERMINAL`. Correct
when the list is one chain through exactly the elements not in use.

**SortedTable** (`tvserver/CDbFactory/hsvsrtdb.{h,cpp}`). A descending array
`Data` of pointers into a pool of its own, searched by two different bisections:
`mBinInsert` finds a position, `mBinSearch` a record. Insert, update, delete,
query by key and by index, three prefix searches, a nearest-key search, clear.
`srtdb_mutex` guards everything, but `UpdateRecord` releases it twice on the way.
Hard: window arithmetic at both ends, agreement of the two bisections, agreement
of array and pool over long call sequences, the gaps in update. Correct when it
is an ordered map of bounded size whose answers are exact.

**CDbFactory** (`tvserver/CDbFactory/CDbFactory.cpp`). A registry `m_dbs` from
table ids to tables, with forwarding methods. Hard: `Init` changes the registry
without a lock, and clears a table that others are in. Correct when an id always
means one table, and a call acts on it as on a set of records.

**CMsgQueue, CFixedAlloc** (`tvserver/CRtk/CMsgQueue.h`). A vector `m_q` of
messages in cells of a fixed allocator, `m_mutex`, and an Android `Looper` to
sleep on. `Send`, `Receive(msg)`, `Receive(msg, timeout)`. Hard: emptiness is
tested without the mutex, the wake comes after the unlock, wakes do not count.
Correct when it is a bounded FIFO and no receiver sleeps on a message.

**CRtk** (`tvserver/CRtk/CRtk.cpp`, `CRtk.h`). Tables of 32 tasks, 32 queues and
100 semaphores, addressed by index or by pointer. `TaskCreate`, `Halt`,
`MsgQCreate`, `MsgQSend`, `MsgQReceive`, `SemCreate`, `SemAcquire`, `SemRelease`,
`SemDelete`. Hard: a full table answers with handle 0, slots and the count of
semaphores are read and written without a lock. Correct when a handle names what
was created, and no two share it.

**CRunOnce** (`tvserver/CRtk/CRunOnce.h`). A thread that runs one runnable once;
`Halt` sends it SIGUSR2 and joins. Hard: post outside the mutex, a signal before
its handler is installed, exit while holding a mutex or inside a `Halt`. Correct
when a posted runnable runs, and after `Halt` its thread has ended.

**CLooperRunnabler, CLooperPumpEngines** (`tvserver/CLooperPumpEngines/`). Two
engine threads, each a looper that runs posted `IRunnable`s after a delay; a post
may replace the runnable's last handler, which the runnable's key names. Each
engine reposts a keep-alive every 5 s. Hard: a handler replaced while it runs,
keys shared by two engines, halt during a keep-alive. Correct when a key never
leads to a freed handler, replacing leaves one handler pending, and no handler is
lost.

**PumpWatchDog** (same directory). One thread per process; a keep-alive re-arms a
delayed message that aborts the process. Correct when only an engine that was
really stuck is bitten, and a halted engine never is.

**OADFSMService** (`oadapp_architecture/src/org/droidtv/oad/services/`). A table
of actions by event and state. A handler thread takes events off a queue; timer
posts run on the main thread, read the scan mode without a lock and send events.
Hard: timers that outlive their scan, events queued behind a change of state.
Correct when a locked stream never holds the scan for ever and a stopped scan
stays quiet.

**TvServerService** (`tvserverservice/`). Starts the native server once, from a
bind or a start command. Hard: the "started" flag is set by a later message.

**OADActivity, SearchUpdatesScreen, NotificationHandler** (`oadapp_architecture`).
Service binding of one activity, and a list of listeners. Little state.

**Resources, jars, generated and compiled files.** No logic of this program.

How they interact: `CDbFactory` calls `SortedTable`, which calls `MemoryPool`
inside its critical sections. `CRtk` owns `CRunOnce` threads and `CMsgQueue`s;
tasks talk through the queues. Pump engines call the watchdog through
`IWatchDog`, under the watchdog's mutex, and the watchdog calls back through
`IRunnable`. `OADFSMService` talks to itself through its handler's queue, and to
the tuner and the client through messages from outside the repository. The two
applications share no state.

`PROJECT.json` lists the hazards found in each part, at their lines, with the
properties that cover them, or the reason none does.

## 2. Modules

| Module | Role |
| --- | --- |
| `MemoryPool` | the pool's two variables and its operations, as actions to conjoin |
| `PoolClient` | the pool under the most general client |
| `KeyOrder` | keys of four levels and the comparison cascade |
| `SortedTable` | the table, `EXTENDS KeyOrder, MemoryPool`; any number of threads |
| `TableMap` | abstract: an ordered bounded map, every call one step but update |
| `TableRefinement` | the refinement mapping of `SortedTable` onto `TableMap` |
| `MsgQueue` | queue, allocator, looper, senders and receivers |
| `BoundedFifo` | abstract: a bounded first-in-first-out queue |
| `FifoRefinement` | the refinement mapping of `MsgQueue` onto `BoundedFifo` |
| `RtkTasks` | tasks of `CRtk` and their `CRunOnce` threads: create, post, run, signal, halt |
| `RtkHandles` | queues and semaphores of `CRtk` by handle |
| `DbRegistry` | the registry of `CDbFactory` over tables that are sets of keys |
| `KeyedStore` | abstract: what `CDbFactory` promises to its callers |
| `StoreRefinement` | the refinement mapping of `DbRegistry` onto `KeyedStore` |
| `OadFsm` | scan state machine, handler thread, timer thread |
| `PumpEngine` | pump engines: posts, handlers, keys, engine threads, halt |
| `PumpWatchDog` | one engine, its keep-alive and halt, and the watchdog's bite |
| `MC*` | instances for TLC |
| `*Proofs` | theorems and proofs of the module they are named after; `SortedTableProofs` also those of `MemoryPool`, `PoolClient` and `KeyOrder`, on which the table rests, and `SortedTableProofs`, `MsgQueueProofs` and `DbRegistryProofs` those of the refinements |

Definitions keep the names of the code. Operators commented "Mutation of ..."
are slips the properties were tried against; no specification uses them.

### Correspondence with the code

*Pool.* An address `Buffers + i * ElementSize` is the index `i`. `FreePtr` and
`FreeList` are the code's. `Reset` and the constructor build the same list.

*Table.* A thread's `pc` goes `idle -> mBinInsert | mBinSearch -> placed |
searched -> idle`; each arrow is one atomic section: taking the mutex with the
part of the body before the bisection, one iteration of it, and the part after it
up to the unlock. `low`, `hi`, `index` are the bisection's locals; only the
holder of the mutex has any, so there is one set. `UpdateRecord` is the one
method that is not one section: after its search (`UpdateFound`) the mutex is
free, its inner calls to `DeleteRecord` and `InsertRecord` enter like any other
call, and `UpdateReturns` is its last lock and unlock. `answer` and `disturbed`
are history variables: the call that just ended, and whether another thread
changed the table under an update. Keys are functions on four levels, a sorting
criterion is a set of levels. The element `MaxElements` of `Buffers` stands for
the memory past the allocation. `SearchOnPrefix` with argument 1, 2 or 3 is one
of the three prefix searches.

*Queue.* Sections under `m_mutex` are single steps. The unlocked test of
`m_q.empty()`, the poll and the wake after `Send` are steps of their own. A
concurrent test that meets a push in the middle sees the vector as it was before
or after the push. Reading the front of an empty vector is undefined behaviour:
`undefined` becomes TRUE and the model ends, as anything may follow. The
allocator's initial order is arbitrary; the properties do not depend on it. Which
of the `Receivers` a queue has is chosen at the start (`using`), so that one
instance covers the lone receiver and every kind of rivals.

*Tasks.* The object, the thread and the runnable of a task are one number, the
order of creation. `pc` and `local` say where a thread is in `TaskCreate` (store
the object, `Post`: test, set, lock and start, unlock) or in `Halt` (visit a slot,
claim its task under the mutex, unlock, signal, join); `at` says where the thread
of a task is. The signal is sent in one step and arrives in another, at any place,
and ends the thread with whatever it holds. `m_threads[i]` may be read once or
twice by `TaskCreate`, as the compiler likes, there being no synchronisation.

*Handles.* A queue is known by its order of creation, a semaphore by its index in
`m_mtxs`. The four uses of `mtx_count` in `SemCreate` are separate accesses: the
check, the initialisation (with the value of the check or a newer one), the
address taken with the old count, and the write of the new one. Rivals can take the
count past `m_mtxs`, where `mtx_count` itself lies (`CRtk.h:25-26`): whoever then uses
an element that is not there sets `undefined`, and the model ends.

*Registry.* A call looks its table up in one step and enters it in another.
Storing a new id takes from `StoreBegins` to `StoreEnds`; a look-up or a store of
another thread in between, or clearing a table that was configured without
records, sets `undefined`, after which the model ends. Tables are sets of keys
with a bound, each method one step on them but `UpdateRecord`: that is what
`table_refinement` checks of `SortedTable`. Values, order and searches for
neighbours are left to that module.

*Scan.* `Handle` is one message on the handler thread: the table lookup
(`InTable`) and the whole action. `TimerExpires` and `TimerSends` are the two
halves of `TimerRunnable.run` on the main thread, so that the handler thread may
act between the read of the mode and the send. The mode is written by one thread
and read by another without synchronisation; the read may return what was
visible when the timer was posted, or the current value. A timer is pending until it
begins to run; `removeCallbacks` takes back only pending ones.

*Pump engines.* A handler is a member of `Handlers`; `m_run[h] = NULL` means it is
not allocated. `Post` is split at each access to the key of the runnable (enter,
read the key, remove the old handler, construct the new one, send it and leave),
and so is the end of `handleMessage` (lock, compare, clear and unlock), because
each engine has a mutex of its own and a runnable posted to both engines is
guarded by neither. Reference counting is modelled by its effect: a handler is
freed (`Frees`) when the last looper or thread lets go of it, keys and pointers
to it then become `Dangling`, and a use of one puts the runnable into
`undefined`, after which the model says nothing more. Delays are arbitrary, so
any pending handler may be the next one taken. The engines' runnables post from
inside `Run` as callers do from outside.

*Watchdog.* The thread of one engine goes `created -> sendAlive -> post -> poll`
and then takes keep-alives and other work; `bite` and `alive` are the ticks until
the watchdog's message and the keep-alive are due. `bark` removes and sends under
`wdMutex`, one step. A tick passes when nothing is due at once: statements take no
time, runnables (`work`) take any. `Halt` and the engine's start are not
synchronised: `Halt` may see `m_wdmsg` or `m_threadid` unset, and then removes
nothing. `busy` is a history variable.

## 3. Runs

| Run | Instance | Shows |
| --- | --- | --- |
| `pool_client` | 5 elements | chain intact, nothing lost, past-the-end only for a client holding everything |
| `table_order` | 1 thread, 4 slots, 5 keys, 2 sorting levels | order, bisection windows, exact answers, termination |
| `table_refinement` | 2 threads, 2 slots, 3 keys, 2 values | array and pool agree, undisturbed updates succeed, the table implements `TableMap` |
| `queue` | 2 senders, any of 1 blocking and 2 timed receivers, 2 cells | no lost wake, no undefined read and delivery with a lone receiver; FIFO up to an undefined read with any |
| `rtk_tasks` | the main thread, 3 tasks, 2 slots, 2 halts | a handle names its task, a halt leaves nothing running behind it, the process is ended only early, a halt returns |
| `rtk_handles` | 2 threads, 2 slots, 2 semaphores, 3 queues | handles of creations that do not overlap never share what they name |
| `db_registry` | 2 threads, 2 keys, 2 tables (one without records) and the id 0 | no table is lost but to rivals, the registry implements `KeyedStore` |
| `oad_scan` | all outside events, at most 3 events and timers | hand-over kept and acted on, stopped scan quiet, timers start nothing |
| `pump_engine` | 2 engines, 2 callers, 3 handlers, a shared runnable and one of one engine | a freed handler is reached only through a shared runnable, replacing leaves one pending, none lost |
| `pump_watchdog` | ticks of 5 s: keep-alive 1, bite 10 | ended is unwatched, only busy is bitten, stuck is bitten |
| `oad_preferred_dwell` | preferred events, at most 1 event or timer | counterexample: the preferred dwell does not end |
| `oad_frequency_dwell` | the three events that lead to a locked stream of the frequency list, at most 1 event or timer | counterexample: the frequency dwell does not end |

**Why the bounds are enough.** Five pool elements give free lists of every shape up to
permutation of three and more live nodes. Four records are the smallest table in which
`mBinInsert`, which looks at three neighbours at once, takes an iteration in the middle;
five keys for four slots make "table full" and "absent" differ, with two keys that only
an unused level distinguishes. Two slots are enough for concurrency because the hazard
there is the gap in update, with the table full, emptied, or holding the updated key
again, and all three occur with two threads. Two cells and two senders make the queue
full while a wake is outstanding; three receivers make two rivals of different kinds.
Three tasks on two slots make the table full, two tasks meet in one slot, and one is
left that calls `Halt` while the main thread does; two halts (`MaxHalts`) are one that
is killed inside another's claim and one that comes later, and three would repeat them.
Two threads are rivals in `SemCreate` at the limit of two semaphores, and before it: the
count then goes back and a later lone call initialises a mutex in use. `MaxQueues` is
one more than the slots. In the registry two threads are two rivals for one id, one
stores while the other looks up, and one clears or deletes in the gap of the other's
update; `MaxRecords` of one makes a table full, and `MaxTables` of three allows both
tables and one duplicate. `MaxWork` bounds queued events plus timers: three is enough
for a lock event, a timer and a completion to be under way together. The code has two
pump engines. Three handlers are one running, one pending and one being posted at the
same time, or one running on each engine while a caller posts a third. The two runnables
are of the two kinds the properties tell apart. The watchdog's intervals are those of
the code, 5000 and 50000 ms, in ticks of 5 s; its proofs hold for any.

**Symmetry** is used in `table_refinement`, over `Threads` and `Values`, in
`pump_engine`, over `Handlers` and `Callers`, in `rtk_handles`, over `Threads`, and
in `db_registry`, over `Threads` and `Keys`. No definition
distinguishes their members (`CHOOSE` in `TableRefinement` picks positions, never
a thread or a value), and those runs check no liveness.

**Deadlock** is checked everywhere but where the system really may stop: in
`queue` after an undefined read, in `rtk_tasks` when every task has ended, `Halt`
has been called as often as `MaxHalts` allows, or the process has been ended, in
`rtk_handles` when all threads wait for messages or a semaphore past the end has been used, in `db_registry` after undefined
behaviour, in `pump_engine` after a use of freed
memory or when both engines have been halted, in `pump_watchdog` after the
process has been aborted.

## 4. Fairness

`SortedTable`: a thread that holds the mutex keeps running (weak fairness of its
steps inside a section). Nothing is assumed of who gets a free mutex, nor that
anyone calls. `MsgQueue`: a sender that owes a wake gives it; a receiver inside a
call goes on, which a poll does only on a wake or a timeout. Nobody has to send.
These are threads under a preemptive scheduler outside of any lock, or holding
the only lock involved. `OadFsm`: both Android loopers run messages that are due
(weak fairness of `Handle` and of `RunTimer`); nothing is assumed of tuner or
client. `PumpWatchDog`: time passes, the watchdog's thread runs a due bite, the
engine's thread goes on, and a caller inside `Halt` reaches the join. Nothing is
assumed of the work an engine takes, which need not end, nor that anyone halts.
`RtkTasks`: a thread inside `TaskCreate` or `Halt` goes on, and a signal that was
sent arrives; no runnable has to end. A mutex wanted by two threads is let go of
again and wanted only a bounded number of times, as calls are bounded, so weak
fairness is enough. `PumpEngine`, `RtkHandles` and `DbRegistry` have safety
properties only and no fairness.

## 5. What the checks found

**The 90 s timer does not stop a preferred scan** (run `oad_preferred_dwell`).
`PrefferedTsLocked` posts `TimerRunnable`, with "As ts lock set 90s timer for
searching oad" at the branch that is to send `CbmhgOadPrefferedScanStop`
(`OADFSMService.java:266-268`). That branch asks for mode `PREFFERED`, but no
statement ever sets it: `StartPrefferedScan` leaves it `NONE`. The message's
`arg1` then stays 0, which is `CbmhgOadPrefferedScanStart`, and the table ignores
it while a scan is in progress. The scan remains there until an event from
outside ends it. `TimerStartsNothing` shows that the stray start event never does
harm to an idle machine, because `mFirstScanning` is never reset.

**The 90 s timer does not move the frequency list on either** (run
`oad_frequency_dwell`). Here the expiry sends `CbmhgOadFrequencyScanNextTs` as meant,
but its action `FrequencyListScanNextTs` (`OADFSMService.java:354-364`) only logs. Its
comment says "Start Full Freq Scan" above a tuning call that is commented out, and
`OAD_ScanState.jpg`, beside the source, draws an arrow "Tune next freq" from it to
`StartFrequencyListScan`. The arrow from `PrefferedScanNextTs` to the same action is in
the code: it sends `FrequencyScanStart`. This one is not, so the locked stream holds the
scan as a preferred one does, until an event from outside ends it.

Two more disagreements with a document, which no run shows:

- `SendAlive` arms the bite with `BITE_INTERVAL_MS`, commented "Half a minute"
  (`PumpWatchDog.h:112`); line 13 defines it as 50000 ms. An engine may be stuck for
  50 s before the process is aborted, and work of less than 45 s is certain to be
  tolerated (`OnlyBusyIsBitten`).
- `OAD_ScanState.jpg` has `ScanComplete` followed by `StopScan`. In the code
  `ScanComplete` makes the machine idle, where the table has no action for either stop
  event, so `StopScan` cannot follow and the scan's timers keep running.
  `TimerStartsNothing` shows that they start nothing when they expire.

Observations that contradict no document, kept in the model as they are:

- `UpdateRecord` deletes first: with NULL data, or a table filled by another
  thread in between, it returns FALSE and the record is gone. `TableMap` states
  this as part of the promise.
- A full pool would hand out the address past its end once; the check of
  `InsertRecord` against `MaxRecords` is all that prevents it (`TableStaysInside`).
- `Receive(msg)` with a second receiver may read the front of an empty vector.
- `Receive(msg, timeout)` may return early and empty, before its timeout, on a
  wake left over from a message already taken. It never does so over a pending
  message, which is what `BoundedFifo` asks.
- `MsgQCreate` on a full table returns 0, which is another queue's handle; so does
  `TaskCreate`, which drops the task. `SemDelete` never gives an element back.
- Two `TaskCreate`s at once may leave a task running that no table knows, which
  no `Halt` reaches; two `SemCreate`s may return one mutex twice, or one past the
  end of `m_mtxs`, or let a later call initialise one in use.
- A `Halt` that is killed by another one, or by its own signal when a task calls
  it, leaves what it has claimed running for good, or a mutex locked that every
  later `Halt` waits for. `HaltEndsAll` and `HaltReturns` name these exceptions.
- SIGUSR2 ends the process if a `Halt` meets the very first task before it has
  installed the handler (`AbortedOnlyEarly`).
- `CDbFactory::Init` of the id 0 does nothing; a second `Init` of a table
  configured without records uses a null pool while it holds the table's mutex.
- `RtkInstance` (`CRtk.h:30`) is static but uses members that are not, and would
  empty the tables on every call; the destructor of `CRtk` is defined twice, and
  the one in `CRtk.cpp` deletes the queues before it halts the tasks that may be
  waiting in them.
- A runnable posted to both engines can have its key cleared or left by one of
  them while the other uses it: its next replacing post may reach a freed handler.
  `FreedNeedsTwoEngines` shows that this is the only way.
- A handler posted without `replace` is out of reach of later replacing posts,
  so `ReplaceKeepsOne` asks for runnables that are always replaced.

## 6. Proofs

All proofs are for every value of the constants that satisfies the `ASSUME`s of
the modules: a pool of at least one element; keys that are functions from four
levels to naturals; sorting criteria among the levels; distinct model values;
finitely many cells and handlers; tables with at least one slot; a keep-alive
interval that is positive and shorter than the bite's. Two theorems on the scan have
a hypothesis of their own, given below.

**Pool** (`SortedTableProofs`, first part). The strengthening
is the chain itself: there is an injective sequence `c` of elements such that the
list is `c[1], ..., c[n], ListEnd` and the unmarked elements are exactly its
members. Malloc drops its head and Free prepends; both keep it. "No double
entry" alone is not inductive, as nothing would relate the marks to the list.

**Table** (`SortedTableProofs`). The invariant has three named
parts. *ControlOK*: types, one holder of the mutex, and what each `pc` says of
the call under way. *TableOK*: pool and array agree, the positions in use are strictly
sorted, and there are never more records than `MaxRecords`. *SearchOK*: windows of
running bisections and what a finished one has established, for
`mBinInsert` that the position found separates bigger from smaller. Insertion
keeps the order because of SearchOK, and SearchOK survives other threads
because of ControlOK: only the holder changes the table. What `index` may be is
part of SearchOK. That the comparison is transitive and antisymmetric under any
criteria are lemmas of their own. The answers need more (*FullInv*): *OutcomeOK*, that a
finished search has found a record exactly if one compares equal, and has found the
place between bigger and smaller if none does; and *LoneOK*, that of an update nobody
has disturbed the record is there before its delete, gone and the table not full
before its insert. From these, `AnswersExact` is proved per method: the walks of the
prefix searches stop where agreement does because the order is that of the prefix, and
the neighbour search is one step beside a place.

For the refinement of `TableMap`, the positions in use are the map's sort keys, one
each, since no two records are equal (*AsManyKeys*). The key of a call
splits the positions in three ranges: those before it, at most one equal to it, those
after it (*Splits*); so every rank and every count of the map is a position of the table.
An insert that shifts the positions after its place is the map's put, a delete its
removal, a refused one leaves the map alone, and each search answers with the rank or
range the map gives. That the call which returns is the one that began is an invariant
of its own (*ArgumentsOK*): a call keeps the arguments it came with.

**Queue** (`MsgQueueProofs`). `m_q \o m_free` is a permutation of the cells: a send
leaves the concatenation as it is, a receive rotates its front part. Receivers
outside `using` stay out of the queue (*OthersStayOut*). A lone receiver at "take" finds a message (`LoneTakeFinds`), which gives
`UndefinedNeedsRival`; and while it polls, a pending message has a wake given or
owed. For the refinement, the cells accounted for and finite, the lengths of `m_q` and
of the free list sum to the capacity, so a send is refused exactly when the fifo is
full; and the cell a send writes is not pending, so the other messages stay.

**Tasks** (`RtkTasksProofs`). The properties speak of what has been created or passed;
what keeps them is what is under way: the object a `TaskCreate` has not stored yet is
new and nobody else has it (*FreshOK*), one without a rival finds slot and object as it
left them (*AloneOK*), and none is about to store into a slot that has a name
(*CreatedOK*). For halts: whatever a `Halt` is to end is claimed, hence halted, when it
passes it (*DueOK*), and a halted task has ended or somebody is about to join it
(*StatesOK*). The process is ended only while the handler is not installed
(*SignalsOK*).

**Handles** (`RtkHandlesProofs`). Without a rival the slot a `MsgQCreate` has found is
free until it stores, and nobody is about to store into a slot that has a name
(*StoresOK*); whoever waits in a queue waits by a handle that leads to one
(*ReceivesOK*). As long as `SemCreate`s take turns, the semaphores below `mtx_count` have
been returned once each and those above never (*TurnsOK*).

**Registry** (`DbRegistryProofs`). Until two `Init`s create one id at once, that id leads
nowhere while it is being created, and only one thread creates it (*CreatesOK*); then a
store replaces nothing. The refinement of `KeyedStore` also needs that a call under
way is in the table its id leads to (*LooksOK*) and that a table not stored yet is
empty (*FreshOK*). Its only assumption on constants is that NULL is neither a set of
keys nor a step of an update (`NoStoreAssumption`).

**Scan** (`OadFsmProofs`). `TypeOK` and `StoppingIsQuiet` are inductive together.
`HandOverKept` and `TimerStartsNothing` need what the queue may hold (*ScanOK*): at most
one start of the full scan, sent by the service to itself and only while the machine
is idle, and timer events only once the preferred scan has started, which it does
once. Both theorems suppose that the event of that start is not among those posted
from outside (`FullScanStart \notin Posted`): line 314 is the only place that makes it, and
the configurations post no such event either.

**Pump engines** (`PumpEngineProofs`). The sections under one engine's mutex exclude
each other (*SectionsOK*); a handler in use is allocated and in one place
(*PlacesOK*, *SendingOK*); pointers that do not dangle point to a handler of the
right runnable (*PointersOK*). For a runnable of one engine its handlers stay with
that engine (*HomesOK*), its key dangles only inside a post that is about to set
it again (*KeysOK*), and if it is always replaced, whatever is pending is the
handler the key names (*ReplacesOK*). The properties themselves are not inductive:
nothing in them says that the handler a post removes is the one pending.

**Watchdog** (`PumpWatchDogProofs`). Right after a keep-alive the bite is whole;
until the next keep-alive is due the two count down together; from then on, each
tick that brings the bite nearer is a tick of work. So a due bite means work for at
least the difference of the intervals.

| Theorem | States |
| --- | --- |
| `PoolAlwaysIntact`, `ClientTypeCorrect`, `PoolNeverLeaks` | every property of run `pool_client` |
| `TableIsSound` | the inductive invariant of the table |
| `TableTypeCorrect`, `TableNeverLeaks`, `TableSorted`, `TableWindowsSound`, `AnswersAreExact`, `LoneUpdates` | the invariants of the table's runs |
| `TableImplementsMap` | the table implements `TableMap` |
| `TableStaysInside` | that no slot lies past the pool's memory (`NeverPastEnd`) |
| `QueueIsSound` | the inductive invariant of the queue |
| `QueueTypeCorrect`, `QueueKeepsCells`, `QueueDefined`, `QueueWakes` | the invariants of run `queue` |
| `QueueImplementsFifo` | the queue implements `BoundedFifo` |
| `TasksTypesCorrect`, `HandlesKeepNaming`, `HaltsEndTheirTasks`, `ProcessEndsOnlyEarly` | the invariants of run `rtk_tasks` |
| `HandlesTypesCorrect`, `HandlesStaySeparate` | the invariants of run `rtk_handles` |
| `RegistryTypesCorrect`, `RegistryKeepsTables` | the invariants of run `db_registry` |
| `RegistryImplementsStore` | the registry implements `KeyedStore` |
| `ScanTypesCorrect`, `StoppingStaysQuiet`, `FullScanIsReached`, `TimersStartNothing` | the safety properties of run `oad_scan` |
| `EnginesAreSound` | the inductive invariant of the pump engines |
| `EngineTypeCorrect`, `KeysLeadToHandlers`, `ReplacingKeepsOne`, `HandlersAccounted` | every property of run `pump_engine` |
| `WatchDogIsSound` | the inductive invariant of engine and watchdog |
| `WatchDogTypeCorrect`, `HaltUnarms`, `BitesOnlyBusy` | the invariants of run `pump_watchdog` |

Proof attempts corrected the models twice. A table whose sorting criteria leave out the
primary level never gets a place from its search, so it refuses every record;
`TableMap` promised to take them, and no run has such criteria. The map now takes a record
only where the primary level is sorted by, and the theorem holds for all criteria. And
with three threads, rivals in `SemCreate` can take `mtx_count` past its limit by more than
one, and what `RtkHandles` then said of an element past the end was arbitrary. It now ends
there.

**Only model-checked**: the liveness properties `MutexReleased`, `Delivered`,
`HaltReturns`, `HandOverTakesPlace` and `StuckIsBitten`. The prover has no
rules for liveness under fairness, for `ENABLED`, or for induction over data.

## 7. Plan

Done: every part of the native server that keeps state of its own, the scan, and
the proofs above: every invariant, action property and refinement of a passing run is a
theorem. Only the liveness properties are left to TLC.

**Not modelled, and why.** The destructors of pool, table, registry, queue, tasks and
`CRtk`: the objects live as long as the process's factories. `RtkInstance`, which does
not compile as it stands: the tables start empty. Failures of `pthread_create`,
`pthread_mutex_init` and `new`, none of which the code looks at but one.
`TvServerService`: one flag and one message around a server that is outside this
repository. The life cycle of `OADActivity`, which the Android framework drives. The
linear search that `BIN_SEARCH` compiles out. Calls left to callers outside this
repository: negative indices of `QueryOnIndex`; NULL for an out-pointer of the table's
queries and searches, which then answer FALSE though a record was found (`SearchOnKey2`
checks nothing and writes through it); operators of `SearchOnKey2` other than equal,
greater and smaller; a NULL runnable for a task, which `CRunOnce::Post` leaves
unstarted; a queue of zero cells. Addresses as numbers, hence the cut of `Send`'s return
value to an `int`. The TV input session `OADFSMService` opens at start, and its
commented-out tuning calls: they do not happen. Frees of addresses inside the pool's
memory that no `Malloc` returned: an address is modelled by its index, and the one wild
free is that of the address past the end. Semaphores that are released by a thread that
does not hold them, or deleted while one does: `SemRelease` and `SemDelete` check
nothing, and `RtkHandles` assumes clients that use them as locks. The `ASSERT(FALSE)` of
`SemCreate` at its limit, a macro from outside this repository: it is taken to return
NULL, as the line after it does. A second `Halt` of one pump engine at the same time:
both would join the thread, which is undefined. The destructors and the creation of the
pump engines and of their watchdog's only instance, and the loggers. A runnable that
posts itself without delay, which may keep `pollOnce` from returning: due times are
arbitrary in `PumpEngine`. `NotificationHandler`: it has no sender here. Time functions
and JNI attach/detach: no state.
