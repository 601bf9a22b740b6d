# A TLA+ verification of CCcloud

CCcloud is a file service over gRPC with an asynchronous logging subsystem built
on two lock-free queues.  This directory models the queues, the memory
reclamation beneath one of them, the asynchronous logger and its rolling files,
the order in which the statics of all these are destroyed, the two servers, their
clients, and the generated code that carries their messages, as TLA+ modules.
TLC checks them on small instances and TLAPS proves the safety properties that
matter most for every value of the constants.

Paths such as `async_logger.hpp:255` are relative to `src/src/`, in the
directory the file lives in (`tools/`, `logger/`, `server/`, `client/`).

## 1. The system

| Component | State | Operations | Talks to |
|---|---|---|---|
| `EBRManager` (`tools/EBRQueue.hpp:25-214`), epoch-based reclamation | `global_epoch`, `thread_registry` (thread id -> local epoch and retired list), two `thread_local`s | `enter`, `leave` (with `try_reclaim`), `retire`, `bump_epoch`, `unregister_thread` | called by `MPMCQueue` at the start and the end of every operation |
| `MPMCQueue` (`tools/EBRQueue.hpp:217-366`), Michael-Scott queue | `head`, `tail`, the nodes | `enqueue`, `dequeue`, `empty` | called by `AsyncLogger` and by any other thread, through `BaseQueue` |
| `LockFreeMPMCQueue` (`tools/RingBuffer.hpp`), ring buffer | `head_`, `tail_`, `buffer_` | `try_enqueue`, `enqueue` (spins), `try_dequeue`, `dequeue` (spins), `empty` | the other backend of `AsyncLogger` |
| `AsyncLogger` (`logger/async_logger.hpp`) | the queue, `running_`, `unflushed_count_`, `file_path_`, `mutex_`, `cv_`, the background thread | `append`, `start`, `stop`, `set_filepath`, `background_flush` | appending threads, background thread and owner share it |
| Log files (same file, `get_current_log_file_path`) | a directory per day, numbered files, `current_file_index_` | choose, open, append | the file system; survives restarts |
| `AccessLogger` (`logger/AccessLogger.hpp`) | none of its own | `log_prepare`, `log_commit`, `log_abort` | `AsyncLogger::append` |
| Callback server (`server/Async*Call.hpp`, `server.cc`) | one reactor per call, files under the upload directory | `OnReadDone`, `OnWriteDone`, `OnCancel`, `OnDone` | gRPC's callback threads, the file system, `AccessLogger` |
| Naive server (`server/FileServiceImpl.hpp`, `naive_server.cc`) | the same files; nothing outlives a handler | `Upload`, `Download`, `Delete`, each on one thread from its first line to its return | gRPC, the file system, `AccessLogger` |
| Load test (`client/async_client.cc`) | one completion queue per task; three phases | `run_upload_only`, `run_download_only`, `run_delete_only`, `main` | the callback server |
| Naive client (`client/CCcloud_client.hpp`, `naive_client.cc`) | none | `UploadFile`, `DownloadFile`, `DeleteFile` | the naive server |
| Generated code (`generated/`) | message objects; the tables of methods | set, clear, merge, copy, move, serialize, parse; stub and services | both clients and both servers |

`client_api.hpp` belongs to no build target, `tests/` holds a stress test.

### What is hard here

* Any number of threads inside the queue operations, interleaved between any
  two atomic accesses, with nodes freed and their addresses handed out again.
* Compare-exchanges on indices that wrap round, in the ring, and on pointers that
  are reused, in the list.
* A slot of the ring is published before it is written and given up before it is
  read.
* A condition variable whose notification may fall into the gap between the
  evaluation of the predicate and the wait; a background thread that decides to
  end while others append.
* Log files that roll by size and by date and outlive the process that wrote
  them, which may end between any two accesses.
* Uploads, downloads and deletions of one file at the same time, calls that are
  cancelled, connections that break, writes that fail, and data that reaches the
  file long after it was received.
* Two servers, in two processes, that share one directory and look at different
  things when they decide whether a call has failed.
* A client, a connection and a server that learn at different times that a call
  is over, and two phases of a load test that rely on the first to have ended.
* Function-local statics that are built by whichever thread needs them first and
  destroyed in the reverse order, while a background thread still runs.
* Message objects that are reused, and peers of different versions.

`PROJECT.json` lists these one by one under "hazards", each at the line where it
bites, with the properties that are about it.

### What makes each part correct

* Queue: a linearizable FIFO queue; no access to a freed node; every node is
  freed at most once and never forgotten; an operation returns even if other
  threads have stopped inside theirs.
* Ring: it never holds more than it has room for, an entry that was written is
  the one that is read, a full queue lets its producer go on once there is room.
* Logger: no entry is lost, duplicated or reordered; `stop` returns, and when it
  joins the background thread only after everything appended before it is on
  disk; a short batch is written too.
* Log files: bounded size, `1.txt` first, nothing is ever overwritten.
* Servers: what a successful upload sent is in the file, a successful download
  has sent the whole file, and the audit log says of each call how it ended.
* Clients: success told to a user is true from end to end; every call ends.
* Messages: what is read is what was written, whatever the objects held before;
  a call arrives at the handler it names, with the types its stub uses.
* End of the program: nobody uses what has been destroyed.

## 2. The modules

| Module | Models |
|---|---|
| `FIFOQueue` | what `BaseQueue` promises its callers: operations that are invoked, take effect at one moment, and return |
| `EBRManager` | registration, epochs, retired lists and the heap; its `Enter`, `Leave` and `Retire` are conjuncts of the queue's steps, `BumpEpoch`, `UnregisterThread`, `ThreadExit` are steps of the environment |
| `MPMCQueue` | extends `EBRManager`; one action per load or compare-exchange of `head`, `tail` or `next` |
| `MCMPMCQueue` | symmetry for TLC |
| `MPMCQueue_proofs` | theorems |
| `LockFreeMPMCQueue`, `MCLockFreeMPMCQueue`, `LockFreeMPMCQueue_proofs` | the ring buffer in the same three parts |
| `AsyncLogger`, `MCAsyncLogger`, `AsyncLogger_proofs` | the logger over a FIFO queue |
| `LogFiles`, `LogFiles_proofs` | the choice of the log file and what the file system holds |
| `FileServer`, `MCFileServer`, `FileServer_proofs` | the three reactors of the callback server over one file, and their audit trail |
| `NaiveServer` | extends `FileServer`: the handlers of the naive server over the same file; each call is made to one of the two servers |
| `System`, `MCSystem`, `System_proofs` | extends `NaiveServer`: both clients, the connections, and what a user is told; the theorems are about `NaiveServer` and about `System` |
| `FileMessages` | pure operators: the six messages and what the generated functions do with them |
| `Wire`, `MCWire`, `Wire_proofs` | extends `FileMessages`: one method of the service, its stub and handler, message objects on both sides and the bytes between them |
| `Lifetime`, `Lifetime_proofs` | logger, queue and manager from their construction to the end of the program |

`MPMCQueue` implements `FIFOQueue` through the refinement mapping `AbsQueue`,
`AbsCall`, and that is what entitles `AsyncLogger` to use a sequence for its
queue.  `System` implements `NaiveServer`'s own specification (`ServersSpec`): the
clients only restrict what the servers are asked.  For the ring only half of this holds, see `Ring_lost` below, so
`AsyncLogger` describes the logger with its default backend.

Variables and actions carry the names of the code.  Where a function is cut into
several steps the variable `pc` (in the logger `bg`, `writer`, `owner`) says
where a thread is.  Variables that only observe are marked "history" where they
are declared: `rank` numbers the nodes in the order they were linked;
`enqueued`, `taken`, `written`, `ticket`, `lapped` do the corresponding for the
ring; `appended`, `promised` remember what was appended when, `joined` whether a
`stop` has found a thread to join; `disturbed` says which call's file another one
has changed.  No guard depends on them, except that an entry is appended only once and values are
distinct so that they can be told apart.

### Correspondence with the code

`MPMCQueue` and `EBRManager` (`EBRQueue.hpp`)

| Actions | Code |
|---|---|
| `CallEnqueue`, `LoadTail`, `LoadTailNext`, `CheckTail`, `LinkNode`, `SwingTail`, `HelpTail` | `enqueue`, 262-291: allocation and `enter`, the two loads, the comparison, the two compare-exchanges, helping |
| `CallDequeueOrEmpty`, `LoadHead`, `LoadHeadTail`, `LoadHeadNext`, `CheckHead`, `TakeHead`, `MoveData`, `RetireHead`, `LeaveAndReturn` | `dequeue`, 297-343, and the loads of `empty`, 357-364 |
| `Enter`, `Leave` with `Reclaimable`, `Retire` | `enter`, `leave` and `try_reclaim`, `retire` |
| `BumpEpoch`, `UnregisterThread`, `ThreadExit` | the public members nobody in the repository calls while the queue runs, and the reuse of a thread id |

`LockFreeMPMCQueue` (`RingBuffer.hpp`): `LoadTail`, `CheckFull`, `AdvanceTail`,
`BeginWrite`, `EndWrite` are `try_enqueue` line by line; `LoadHead`,
`CheckEmpty`, `AdvanceHead`, `BeginRead`, `EndRead` are `try_dequeue`; `Fail`
returns from the `try_` functions and goes round the loop of the blocking
ones.  Copying an entry takes two steps because nothing orders it.  While a
producer writes, its slot holds the producer itself, which is no entry; when two
accesses to one slot overlap, a writer leaves `Torn` in it and a reader gets `Torn`
(`Undisturbed`).

`AsyncLogger` (`async_logger.hpp`): `Enqueue`, `CountEntry`, `ResetCount`,
`NotifyBatch` are `append`; `Lock` to `CheckEmpty` are one round of
`background_flush`, where `wait_for` is cut into the evaluation of its
predicate, the atomic release of the mutex with the wait, the three ways out of
the wait, and the reacquisition of the mutex.  The opening of the file succeeds
(`OpenLogFile`) or throws out of the thread, which ends the process (`FailToOpen`,
lines 190, 209 and 226); `Stop`, `ClearRunning`,
`NotifyStop`, `Join`, `StopReturns` are `stop`; `SetFilePath`, `AssignFilePath`
are `set_filepath`, between which the string has no value a reader may rely on
(`Garbage`).

`LogFiles` (`async_logger.hpp`): `FirstFileOfDay` and `CurrentFileOfDay` are the
two branches of `get_current_log_file_path`, `OpenFile` and `WriteBatch` the
accesses of `background_flush`, `Midnight` and `Restart` what happens to it.

`FileServer` (`AsyncUploadCall.hpp`, `AsyncDownloadCall.hpp`,
`AsyncDeleteCall.hpp`, `AccessLogger.hpp`):

| Actions | Code |
|---|---|
| `StartUpload`, `StartDownload`, `StartDelete` | the constructors; a deletion does everything there |
| `OnReadDone`, `OpenForWriting`, `WriteChunk` | one `OnReadDone`: the end of the stream or a chunk, on the first one the opening with `trunc`, the write |
| `OnWriteDone`, `OpenForReading`, `ReadChunk` | one `OnWriteDone`: a failed or a successful write, the opening, the read and what its outcome leads to |
| `OnCancel` | the reaction of a deletion to being cancelled; the other reactors have none |
| `UploadDone`, `DownloadDone`, `DeleteDone` | `OnDone` and the destructor it calls, which closes the file |
| `DoneOnFreed` | `OnDone` of a deletion whose reactor `OnCancel` has deleted already: it logs a status read from freed memory, any code, and deletes the reactor again |
| `Break` | gRPC (external): the client cancels, or the connection is lost |

A callback is cut where it touches the file system, as other calls may do so in
between.  The contents of a file are a sequence of chunks, each named by its
upload and its number.  `ofs_` buffers: any prefix of what it was given may be in
the file (`WriteOut`), the rest follows with later chunks or when it is closed,
or never.  A file that loses its name stays open where it is open, so a
download keeps an `inode`, not a name.

`NaiveServer` (`FileServiceImpl.hpp`) shares the file, the audit log and the steps
that are the same line for line (`StartUpload`, `OpenForWriting`, `WriteChunk`,
`OpenForReading`) with `FileServer`, and differs where the handlers do:

| Actions | Code |
|---|---|
| `ReadMore`, `EndUpload`, `FailUpload`, `OpenUpload`, `WriteUpload` | the loop of `Upload`, 33-50, its early return, and what follows the loop: `close`, commit, OK, whether or not the writes went well |
| `StartNaive`, `FailDownload`, `OpenDownload`, `FetchChunk` | `Download`; the loop ends at the end of the file or when a read fails |
| `Remove` | `Delete`: removed, not found, or an exception |
| `Throw` | gRPC (external): a handler that throws is answered UNKNOWN |
| `LoseReader` | gRPC (external): the client of a download goes away, which the handler does not notice |

`System` (`async_client.cc`, `CCcloud_client.hpp`): `MakeCall`, `SendChunk`,
`WritesDone`, `ReceiveChunk`, `Finished`, `FailCall` are the steps of the
`run_..._only` functions and of the methods of `CCCloudClient`; `CannotStore` the
output file of a download that cannot be opened; `PhaseReached` the joins of the
load test's `main`.  `Serve` lets a handler take its next step, reading only what
was sent; `HangUp` is the loss of a connection.

`FileMessages` (`file.pb.cc`, `file.pb.h`) keeps for each message the list of
fields that each generated function has (`parses`, `clears`, `serializes`,
`sizes`, `merges`, `swaps`): protoc writes them out six times, and a property
about messages is about their agreement.  The functions themselves (`Cleared`,
`Merged`, `Serialized`, `ByteSizeLong`, `ParseRecord`, ...) are written once.
Values are names of strings with a length; the wire is a sequence of records.
The parser's loop belongs to the library and is modelled from how the tables use
it.  `Wire`: `Stub`, `AddMethod`, `MarkMethodCallback` are the three tables of
methods in `file.grpc.pb`, and the actions are what the programs do with message
objects; `WriteLater` is a peer with a newer `file.proto`.

`Lifetime`: `ConstructQueue`, `ConstructLogger` are the two moments of
`AsyncLogger::instance` at which a static is complete, `UseManager` the call of
`EBRManager::instance()` in every queue operation, `Wait`, `Flush`, `Check` a round
of the background thread, the `...Destructor` actions what `exit` calls in reverse.

The operators commented "Mutant of ..." are not part of the models: each is a
definition as a plausible slip would have left it, and `PROJECT.json` says which
property the slip breaks.

## 3. What is checked

Run a configuration with `tlc -workers 2 -config <run>.cfg <module>`.

### Runs that pass

* `MPMC_run` (`MCMPMCQueue`): three threads, one of which both enqueues and
  dequeues, three values, spurious failures of `compare_exchange_weak`, and
  `bump_epoch` and `unregister_thread`, called while no thread is inside an
  operation.  Nodes are really deleted and their addresses reused (three nodes for
  up to four allocations).  `TypeOK`; `NoDanglingPointer`;
  `TailBetweenHeadAndEnd`; `ImpossibleBranches` (the two branches the code
  comments as unreachable); `MemoryAccounted` (each node has exactly one holder,
  so none leaks untracked and none can be deleted twice); `ImplementsFIFO`.  The
  behaviours without these calls, those of the programs as shipped, are among the
  ones checked.
* `MPMC_logger`: two producers and one consumer, the producer `t2` stopping
  anywhere.  `OperationsReturn`: the other two still finish, they are never left
  waiting for `t2` to swing the tail.  `SoleConsumerFindsElement`: what
  `background_flush` relies on when it calls `empty` and then `dequeue`.
* `Ring_spsc` (`MCLockFreeMPMCQueue`): one producer, one consumer, two slots, four
  values, so the indices wrap twice.  `TypeOK`, `OccupancyBounded`,
  `SlotNotReusedWhileRead`, `WrittenEntriesArrive`, `SoleConsumerFindsEntry`,
  and the liveness property `EnqueueReturns`.
* `Ring_mpmc`: two and two threads.  `BoundedUnlessLapped`: the ring overflows
  only in behaviours where an index went once round between a thread's
  load and its compare-exchange.  Such behaviours exist: `OccupancyBounded` fails
  under this configuration.
* `Logger_run` (`MCAsyncLogger`): two appending threads, three entries, batches of
  two, a restart and a `set_filepath`.  `TypeOK`; `EntriesConserved`;
  `JoiningStopFlushesEarlierEntries`; `CountBounded` (increment, test and reset of the
  counter are separate: it passes the threshold only with appends that are about
  to reset it); `StopIsNotMissed` (the mutex in `stop` is what makes its single
  notification reach the thread).  Liveness: `AppendedIsWritten`, an entry of an
  incomplete batch is written given that the wait times out; `StopCompletes`,
  `stop` returns even if it never does.  Both except the one thing that prevents
  them, a log file that cannot be opened and so ends the process.
  `JoiningStopFlushesEarlierEntries` is about a `stop` that finds a thread to
  join.  The comment above `stop` (`async_logger.hpp:141`) says that it flushes all
  logs, without that condition, and so stated (`StopFlushes`) it does not hold:
  after `stop(); append(); stop();`, the second one being for instance the
  destructor's, `log_thread_` is not joinable, `stop` returns at once (142-151), and
  the entry stays in the queue.  With `StopFlushes` in place of the invariant TLC
  finds just this.
* `Files_roll` (`LogFiles`): two days, two restarts, six batches of size 0 to 2, a
  maximum size of 2.  `TypeOK`, `SizeBounded`, `DaysBeginWithFirstFile`,
  `FilesOnlyGrow`.
* `System_run` (`MCSystem`): a load test on the callback server and naive clients
  on the naive one, six calls on one file, of which any two are made in all.
  `UploadStored` and `DownloadsIntact` (a call that succeeded while no other one
  changed its file has stored or sent exactly what it should, at either server);
  `ServersAudit` (one entry when a call starts, one with its status when it ends,
  none if the handler throws; one `delete this`); `SuccessIsEndToEnd` (what the
  user is told is true of the server's file); `DownloadsWhatWasUploaded` (read your
  writes: a download started after its user learnt of the success of an
  undisturbed upload receives exactly the chunks of that upload, whichever of the
  two servers either call goes to); `SystemTypeOK`; and the liveness property
  `CallsEnd`.  Two conditions are worth knowing.  `DownloadsWhatWasUploaded` asks of an
  upload to the callback server that its reactor is gone when the download starts:
  the answer is sent before the destructor flushes the file
  (`AsyncUploadCall.hpp:88`), and without the condition TLC finds a download, started
  on the answer, that reads one of two chunks.  In the load test it is `OnDone` and
  the client's next phase that race.  `CallsEnd` exempts the callback server's calls
  once a reactor has been deleted twice (`DeletedTwice`): from then on nothing is
  promised of that process.
* `Wire_run` (`MCWire`): every method, direction and message type.  `ReadIsExact`:
  what is read into a reused object is exactly what was written since the last
  read, also when several images follow each other; a read fails only over a
  string that is not UTF-8.  `SizeExact`: the computed size is the written size,
  with lengths of one and of two bytes.  `RelayKeepsAll`: a peer that takes a
  message for another one passes on all of it.  `CallsReachTheirHandler`.

### Runs that exhibit a disagreement

* `Ring_lost`: with one producer and one consumer an entry is already lost.
  `try_enqueue` advances `tail_` and then writes the slot; a consumer that is
  quick takes the slot's old content.
* `Logger_wakeup`: `append` notifies without the mutex.  The notification of a
  full batch can fall between predicate and wait, and the batch waits for the
  timeout.  (It does not wait longer: `AppendedIsWritten`.)
* `Server_cut`: an upload that the client breaks off is finished with `OK` and
  logged as committed, for `OnReadDone(false)` is taken for the end of the stream.
  (Its client is never told that it succeeded: `SuccessIsEndToEnd`.)
* `Lifetime_exit` (`Lifetime`): the queue is built in the logger's constructor, the
  manager at the first queue operation, so the manager is destroyed first, and
  `~MPMCQueue` dequeues in an epoch of a manager that is no more.  If the background
  thread was slower than the constructor the manager goes even before the logger
  has joined that thread.

Not a disagreement but good to know: `try_reclaim` frees what was retired two
epochs ago without looking at any thread's `local_epoch`, so the epochs protect
nobody.  `NoDanglingPointer` fails as soon as `bump_epoch` may be called while
operations run (`QuiescentCalls = FALSE` in `MPMC_run.cfg`).  No program of the
repository calls it; the price is that nothing is reclaimed
before the process exits, as with `global_epoch` at 0 `try_reclaim` always returns
at line 94.

### Bounds, and why they suffice

* Three threads in the queue: one that stops half-way, one that helps, one that
  observes; every compare-exchange has a rival of each kind.  Three nodes for the
  dummy and three values: the last value can be enqueued only at an address that
  was reclaimed.  `EpochMod` stands for 2^64 and exceeds every epoch of a
  behaviour, `SafeEpoch` wraps as in the code.  `MaxEpoch` 3 lets a node be retired,
  become reclaimable two epochs later and be reused.
* `capacity_` 2 is the smallest ring that holds an entry, so full, empty and
  wrapped states follow each other most quickly; 4 in `Ring_lost`, where
  the slot's old content shall be seen without help from the wrap.  The
  number of values bounds a behaviour, at least one lap and a half.
* `Threshold` 2 with three entries gives complete and incomplete batches and two
  appends that compete for the reset; one restart lets entries cross a stop.
  `MaxRestarts`, `MaxPaths` cap the calls of the owner.
* `MaxFileSize` 2 with batches up to 2: files below, at and above the maximum;
  two restarts let a file be overfilled by several processes.  `MaxDay`,
  `MaxWrites` cap the behaviour.
* Two uploads, one longer than the other, make files that shrink, grow and mix;
  a buffer of two chunks gives downloads with full and with short reads, files
  of its size and files below it.  A call is broken off where it can notice it
  (in its next read or write, or, for a deletion, before `OnDone`): breaking it
  earlier makes no difference to the code.
* `MaxCalls` 2 in `System_run` is the number of calls made in all: every pair of the
  six, on one server or on both, one after the other and in every interleaving.  A
  third call meets either of the others as the second does.  A load test that goes
  through its three phases makes three calls: for it only the theorems speak, which
  hold for any number.  `OldFile`: the file may
  exist before, and is then longer than what is uploaded.
* `MaxRecords` 3 lets an image of two records be followed by one of another image
  or of a later version; a string of 127 and one of 128 bytes are the two sides
  of the boundary at which a length takes a second byte.
* `MaxAppends` 1 in `Lifetime_exit`: one entry is enough for every order in which
  the statics can be built.
* Behaviours end when all values are used or all calls done; configurations in
  which nothing is left to do then switch the deadlock check off (`Files_roll`,
  `System_run`, `Wire_run`), in the others the calls that are always possible (`empty`,
  `stop`) go on.

### Symmetry

Nodes and values of `MPMCQueue`, values and threads of one role of the ring, and
entries and writers of the logger are interchangeable: no definition
distinguishes them.  Symmetry is not used where liveness is
checked.

### Fairness

* `MPMCQueue!LiveSpec`: the threads of `Scheduled` are scheduled (weak fairness of
  their next step, which is always enabled inside an operation).  The others get
  none: lock-freedom must not need them.  `SpuriousCAS` is FALSE there: a
  compare-exchange that failed spuriously for ever would justify any delay.
* `LockFreeMPMCQueue!LiveSpec`: weak fairness of every thread's steps, and
  consumers that go on calling `dequeue`, as the logger's background thread
  does; strong fairness, for calling `dequeue` is disabled while the consumer is
  inside another call.
* `AsyncLogger!LiveSpec`: weak fairness of each thread's steps.  Strong fairness
  for `stop` getting the mutex: the background thread gives it up in every round
  and the program relies on `std::mutex` not starving its only rival.  No
  fairness for `append` being called, nor for the timeout: `AppendedIsWritten`
  has it as a hypothesis.  Finitely many entries are appended: with an
  endless supply that keeps the queue filled, `stop` does not return.

* `System!LiveSpec`: weak fairness of the servers' threads (`Serve`) and of a client
  with a call under way (`GoOn`): both clients of the repository are loops that
  only wait for gRPC, which reports a lost connection to a client that waits.  And
  weak fairness of the server being told that a client is gone, once that client
  has ended: closing the channel or the context does that.  No call need be
  made, and no connection need be lost.

## 4. What is proved

`tlapm` proves every obligation of the eight `_proofs` modules.  Each has an
inductive invariant; the temporal theorems follow from it by `PTL`.

* `MPMCQueue_proofs`: `TypeCorrect` for every environment.  Under `QuietEnv`,
  for any number of threads, nodes and values: `PointersStayValid`
  (`NoDanglingPointer`), `TailKeepsUp`, `BranchesImpossible`, `NodesAccounted`
  (`MemoryAccounted`), `SoleConsumerNotMisled` (`SoleConsumerFindsElement`),
  `QueueIsLinearizable` (`ImplementsFIFO`).  `QuietEnv` is
  `EnvCalls = {} \/ QuiescentCalls`: nobody calls `bump_epoch` or
  `unregister_thread`, as in the programs of the repository (no call of either),
  or they are called only while no thread is inside an operation of the queue.
  Without it `NoDanglingPointer` fails, as section 3 explains.

  The properties are not inductive.  That the tail is at most one node from the
  end needs that a compare-exchange on `tail` succeeds only for a node whose
  successor is the loaded one, which needs that linked nodes form one chain in
  the order of their ranks and that a loaded pointer still means what it meant.
  With reclamation the chain has a moving start: there is a `floor` below which
  no thread holds a pointer, and the nodes from it on (`Live(floor)`) form the
  chain (`ListOK`), with what is known about a node not linked yet
  (`NewNodeOK`), about the local pointers at each program point (`LoadedOK`) and
  which of them are one thread's alone (`Exclusive`).  `RetiredOK` puts every
  node retired in an earlier epoch below the floor, so that what `try_reclaim`
  frees is in nobody's hands; a quiescent environment step lifts the floor to
  the rank of `head`.  `Accounted` gives every other node behind `head` its
  holder.  `QueueInv` is their conjunction, the floor quantified away.

  The refinement maps the list after `head` to the abstract queue and each
  thread's program point to its abstract call.  `AbsQueue` chooses a sequence, so
  the proof first shows that there is exactly one (`ContentsUnique`, from the
  chain without gaps, `ChainOK`).  Linking a node is `DoEnqueue`, moving
  `head` is `DoDequeue`, loading that `head` has no successor is `SeeEmpty`, a
  retry after it `LookAgain`, loading that it has one is `SeeNonEmpty` for `empty`;
  calls and returns are those of the abstract queue, and every other step, the
  deletion of nodes included, stutters.
* `LockFreeMPMCQueue_proofs`: `TypeCorrect`, with what local indices
  are at each program point and that `head_`, `tail_` are `taken` and
  `Len(enqueued)` modulo the capacity.  `OccupancyStaysBounded`
  (`BoundedUnlessLapped`) for any threads and capacity.  `SoleConsumerNotMisled`
  (`SoleConsumerFindsEntry`) for one consumer, any number of producers and any
  capacity, also where producers lap each other: the consumer only needs that it
  never takes more than was enqueued (`SoleView`).  Under `AtMostOneEach`, at most
  one producer and at most one consumer: `SoleOccupancyBounded`
  (`OccupancyBounded`), as nobody can lap them (`NeverLapped`);
  `SlotsAreNotShared` (`SlotNotReusedWhileRead`) and `WrittenEntriesAreReturned`
  (`WrittenEntriesArrive`).  For the last two the invariant is `Custody`: the producer in
  a slot holds the last position, the consumer the one claimed last (`FillOK`,
  `MoveOK`), what is written and not claimed yet is in its slot (`Stored`), and what
  was written when it was claimed stays there until it is moved out (`GotOK`).
  That the two are then never in each other's slot is `SlotsApart`: the positions
  from the one claimed last on number at most the capacity.  The
  arithmetic, that indices less than a lap apart are equal only if the
  positions are, is in `MultiplesApart`, `RemainderUnique`, `IndexWraps`,
  `IndexInjective`.
* `AsyncLogger_proofs`: `TypeCorrect`, `NoEntryIsLost`, `JoiningStopFlushes`
  (`JoiningStopFlushesEarlierEntries`), `StopWakesThread`, `CountStaysBounded`
  (`CountBounded`).  The invariant has four parts.  `HandshakeInv`: who
  holds the mutex where, and that the thread is not about to sleep once
  `running_` is cleared.  `EntriesInv`: entries move in order from the queue to
  the batch to the log, and the thread does not end with entries of before the
  stop under way.  It needs `HandshakeInv`: that the thread has not ended
  before `stop` cleared `running_` is what makes its last look at the queue
  a look after the promise.  Of a `stop` that joins no thread it says nothing.  `CountBounded` is inductive as it stands: an append
  that raises the count to the threshold is from then on one that will reset it.
* `LogFiles_proofs`: `TypeCorrect`, `SizesStayBounded`, `FirstFileComesFirst`,
  `NothingIsOverwritten`.  The size bound needs that files with a higher number
  than the current one have not been written to by this process, for which
  `SizeInv` says what they may have been left with by the earlier ones.

* `FileServer_proofs`: `TypeCorrect`, `EveryCallIsAudited` (`AuditTrail`),
  `UploadsAreStored` (`UploadStored`), `DownloadsAreIntact` (`DownloadIntact`), for any
  number of calls, chunks and any buffer size.  `ControlInv` says what a call at
  each point of its callbacks has: a file, a chunk to write.  `StoredInv` and
  `ReadInv` say that an undisturbed upload's file is what `ofs_` has written out,
  and that an undisturbed download has the beginning of its file.  They are kept
  by the call's own steps, and by those of the others because these either leave
  the file alone or disturb the call (`FileOfOther`, `LocalsOfOther`).

* `System_proofs`, on both servers: `ServersTypeCorrect`, `ServersAreAudited` (`ServersAudit`),
  `BothStoreUploads` (`UploadStored`), `BothDownloadsIntact` (`DownloadsIntact`), for any
  division of the calls among the two servers.  The steps of the callback server
  are those of `FileServer_proofs`, whose lemmas are cited; the naive steps keep the
  same invariant, but that a naive download may end before the end of its file,
  for which `PrefixInv` takes the place of `ReadInv`.
* `System_proofs`, with the clients: `SystemImplementsServers` (every behaviour of `SystemSpec` is one
  of `ServersSpec`: a client's step leaves the servers alone, and a step of a server
  is one it may also take without clients), so the theorems above hold with
  clients; stated once more for the system in `PromisesHoldInSystem` (`UploadStored`,
  `DownloadsIntact`, `ServersAudit`); `SystemTypeCorrect`; `SuccessIsTrue`
  (`SuccessIsEndToEnd`); `ReadYourWrites` (`DownloadsWhatWasUploaded`).  `ToldInv` says what a client that was told of a success
  knows of its handler; that an upload answered OK was received whole needs in
  addition that a handler ends its loop early only for a broken call, whose
  client is never told.  `ReadYourWrites` relates three moments, so its proof has
  two invariants more.  `FreshInv`: at the server a download has not begun before its
  client calls it, and without a file it cannot have been disturbed.  `FollowsInv`,
  from the moment the upload was told and its handler is gone: as long as nobody
  disturbs the upload, a download that has a file has that of the upload
  (`DownloadOpens`), and nobody disturbs the download either.
* `Lifetime_proofs`: `ThreadAlwaysEndsFirst` (`ThreadEndsFirst`): whatever becomes of the
  manager, the logger is destroyed only after its thread has ended and has
  emptied the queue, for any number of entries.

* `Wire_proofs`: `Tables`, `SerializedReadsAsMerged`, `TypeCorrect`, `SizesAreExact` (`SizeExact`), `RelaysKeepAll`
  (`RelayKeepsAll`), `ReadsAreExact` (`ReadIsExact`), `CallsArrive`
  (`CallsReachTheirHandler`), for any set of strings of any lengths and any number
  of records and images on the wire.

  `TablesAgree` is what the six generated functions of a message need of each
  other: the same fields, tags, kinds and defaults in each of their lists.  It is
  proved for each of the six messages (`Tables`), and nothing after it looks at a
  table again, but for which fields are bytes.  A message is serialized, counted
  and parsed by folds, and a length by a recursion.  The library's induction
  theorems cannot be applied here, as they take an operator for a parameter;
  `SetInduction` takes a set instead, and follows from the well-foundedness of the
  numbers.  With it `FoldExists` shows that the function which `FoldLeft` chooses
  exists, so a fold is the last of a sequence of results (`FoldIsRun`), one element
  more being one application more (`RunOfAppend`); and `VarintExists`,
  `VarintUnique` that `VarintSize` obeys its recursion.  From these come `KnownIs`
  (what is sent of a message), `SizeIsExact`, and `AfterAppend` (what a record more
  does to the message that is parsed).

  The inductive invariant of `Wire` is `WireInv`: the variables have their types, no
  object of the sender has unknown fields, and the records on the wire, parsed
  into a new message, give `written`.  The last part is what makes a read exact.
  A write keeps it because reading a message after anything else is merging it
  (`SerializedReadsAsMerged`), shown for messages without unknown fields; the second
  part says that the sender's are such, as only the receiver's object is ever
  parsed into.  `RelayIsRead`
  goes through what a peer may make of two records: it knows both, one or none
  of them, and sends what it knows first, so the order may change, but not what
  the first type reads (`RelayOfTwo`, `EitherOrder`).

The only assumptions are those the modules state as `ASSUME` (distinct
constants, producers that are no entries, positive capacity and threshold, finitely many appending threads, the
bounds being numbers, and, for the messages, that a string has a length, 0 only
for the empty one, and is no Boolean) and the hypotheses `QuietEnv` and `AtMostOneEach`, which the
theorems on the queue and on the ring carry.  A run satisfies each: `MPMC_run`
and `MPMC_logger` the two sides of `QuietEnv`, `Ring_spsc` `AtMostOneEach`.

Model-checked only:

* Liveness (`OperationsReturn`, `EnqueueReturns`, `AppendedIsWritten`,
  `StopCompletes`, `CallsEnd`): it rests on fairness and `ENABLED`, which the
  prover does not handle.
* The ring with several producers: how long its slots are safe depends on who is
  lapped, and the entry properties are checked and proved for one of each.

## 5. What is not modelled

* Weak memory.  The models are sequentially consistent.  Every shared
  access the queues synchronize by is an acquire or release operation or
  stronger; the relaxed ones are on epochs nothing reads.
* `EBRManager`'s operations are one step each: the registry and retired-list
  mutexes make them so, as long as `bump_epoch` does not fall into one.
* In the logger: writes that fail (the code does not look at the result), formatting.
* In `LogFiles`, who calls `set_filepath`: one log root, and one process that writes
  under it.  Both servers use the default one, so where both run at the same time they
  append to the same files, each sees the other's bytes in their sizes, and
  `SizeBounded` does not speak of them.
* In `FileServer`: of what `OnDone` may do after `OnCancel` has deleted the reactor,
  the model has that it logs any code and returns, or never runs (`CallsEnd` does not
  ask for it), not that it corrupts the rest of the process; file names that are paths;
  more than one file, as calls on different files share nothing but the
  logger.
* In `System`: the local file a client writes a download to (nobody looks whether
  the writes succeed, `async_client.cc:282`), the completion queue a failed upload
  leaves behind, command lines, timing and output.  Whether the clients of
  another program end their calls: the servers set no deadline.
* In the generated code: descriptors and reflection, arenas (no program uses one),
  `release_` and `set_allocated_` accessors, and the service templates nothing
  instantiates (`WithAsyncMethod_`, `WithGenericMethod_`, `WithRawMethod_`,
  `WithRawCallbackMethod_`, the streamed ones).
* `client_api.hpp`: no target builds it, nothing includes it, and it does not
  compile, so there is no behaviour to be faithful to.

## 6. Plan

Done: queue, reclamation, ring, logger, files, both servers, both clients, messages
and service tables, lifetime of the statics, with the theorems above; among them
every safety property of the passing runs.

1. The logger composed with the queue's abstract specification in place of
   its sequence, so that `AsyncLogger` runs on `FIFOQueue!Spec` literally.
2. The local files of downloads, and a server that is restarted between calls.
3. Proofs: what holds of the ring's slots with several producers as long as
   nobody is lapped.
