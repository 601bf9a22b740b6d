----------------------------- MODULE AsyncLogger -----------------------------
(***************************************************************************)
(* AsyncLogger<Q> of src/src/logger/async_logger.hpp: threads that append  *)
(* entries, the background thread that writes them in batches, and the     *)
(* owner that stops and restarts it.  The queue backend is the FIFO queue  *)
(* its module shows it to implement (FIFOQueue), an enqueue or a dequeue   *)
(* being one step.  Choosing the file under the log root is the subject of *)
(* LogFiles and formatting is left out: the log is the sequence of entries *)
(* written.                                                                *)
(***************************************************************************)
EXTENDS Integers, Sequences, FiniteSets

CONSTANTS
    Writers,      \* threads that call append
    Entries,      \* the log entries, each appended once
    Threshold,    \* LOGENTRY_BATCH_THRESHOLD
    FilePaths,    \* what set_filepath may be given
    Garbage,      \* a std::string read while it is being assigned
    MaxRestarts,  \* bound on the calls of start() after the constructor's
    MaxPaths      \* bound on the calls of set_filepath

ASSUME LoggerAssumption ==
    /\ Threshold \in Nat \ {0} /\ IsFiniteSet(Writers)
    /\ FilePaths # {} /\ Garbage \notin FilePaths
    /\ MaxRestarts \in Nat /\ MaxPaths \in Nat

VARIABLES
    log_queue_, running_, unflushed_count_, mutex_, file_path_,
    bg,           \* where background_flush is; "none": log_thread_ not joinable;
                  \* "terminated": its exception has ended the process
    entries,      \* its batch
    opened,       \* the log root its ofs was last opened under
    log,          \* what has been written and flushed, oldest first
    writer,       \* where each append is
    owner,        \* where start, stop or set_filepath is
    restarts, repaths,   \* how often start and set_filepath were called
    appended,     \* history: all entries in the order they were enqueued
    promised,     \* history: how many were enqueued when stop was called
    joined        \* history: whether stop has found a thread to join

bgVars == <<bg, entries, opened, log>>
ownerVars == <<owner, restarts, repaths, promised, joined>>
writerVars == <<writer, appended>>
vars == <<log_queue_, running_, unflushed_count_, mutex_, file_path_,
          bgVars, ownerVars, writerVars>>

TypeOK ==
    /\ log_queue_ \in Seq(Entries)
    /\ running_ \in BOOLEAN
    /\ unflushed_count_ \in Nat
    /\ mutex_ \in {"free", "bg", "owner"}
    /\ file_path_ \in FilePaths \cup {Garbage}
    /\ bg \in {"none", "lock", "check", "block", "waiting", "woken",
               "timed_out", "unlock", "open", "drain", "take", "write",
               "check_running", "check_empty", "finished", "terminated"}
    /\ entries \in Seq(Entries)
    /\ opened \in FilePaths \cup {Garbage}
    /\ log \in Seq(Entries)
    /\ writer \in [Writers -> {"idle", "count", "reset", "notify"}]
    /\ owner \in {"idle", "stop", "notify", "join", "stopped", "assign"}
    /\ restarts \in 0..MaxRestarts
    /\ repaths \in 0..MaxPaths
    /\ appended \in Seq(Entries)
    /\ promised \in Nat
    /\ joined \in BOOLEAN

(* The constructor has started the background thread.                      *)
Init ==
    /\ log_queue_ = <<>>
    /\ running_ = TRUE
    /\ unflushed_count_ = 0
    /\ mutex_ = "free"
    /\ file_path_ \in FilePaths
    /\ bg = "lock"
    /\ entries = <<>>
    /\ opened = file_path_
    /\ log = <<>>
    /\ writer = [w \in Writers |-> "idle"]
    /\ owner = "idle"
    /\ restarts = 0
    /\ repaths = 0
    /\ appended = <<>>
    /\ promised = 0
    /\ joined = FALSE

ProcessRuns == bg # "terminated"

(* cv_.notify_one(): only a thread that is waiting gets it.                *)
NotifyOne == bg' = IF bg = "waiting" THEN "woken" ELSE bg

-----------------------------------------------------------------------------
(* append                                                                  *)

WriterGoto(w, label) == writer' = [writer EXCEPT ![w] = label]

Enqueue(w, e) ==
    /\ ProcessRuns
    /\ writer[w] = "idle"
    /\ e \notin {appended[i] : i \in DOMAIN appended}
    /\ log_queue_' = Append(log_queue_, e)
    /\ appended' = Append(appended, e)
    /\ WriterGoto(w, "count")
    /\ UNCHANGED <<running_, unflushed_count_, mutex_, file_path_, bgVars,
                   ownerVars>>

(* ++unflushed_count_ and its comparison with the threshold                *)
CountEntry(w) ==
    /\ writer[w] = "count"
    /\ unflushed_count_' = unflushed_count_ + 1
    /\ WriterGoto(w, IF unflushed_count_ + 1 >= Threshold THEN "reset" ELSE "idle")
    /\ UNCHANGED <<log_queue_, running_, mutex_, file_path_, bgVars, ownerVars,
                   appended>>

(* Mutants of ResetCount: it is left out, and the threshold is subtracted. *)
LeaveCount(w) ==
    /\ writer[w] = "reset"
    /\ WriterGoto(w, "notify")
    /\ UNCHANGED <<log_queue_, running_, unflushed_count_, mutex_, file_path_,
                   bgVars, ownerVars, appended>>

SubtractThreshold(w) ==
    /\ writer[w] = "reset"
    /\ unflushed_count_' = unflushed_count_ - Threshold
    /\ WriterGoto(w, "notify")
    /\ UNCHANGED <<log_queue_, running_, mutex_, file_path_, bgVars, ownerVars,
                   appended>>

ResetCount(w) ==
    /\ writer[w] = "reset"
    /\ unflushed_count_' = 0
    /\ WriterGoto(w, "notify")
    /\ UNCHANGED <<log_queue_, running_, mutex_, file_path_, bgVars, ownerVars,
                   appended>>

(* mutex_ is not held.                                                     *)
NotifyBatch(w) ==
    /\ writer[w] = "notify"
    /\ NotifyOne
    /\ WriterGoto(w, "idle")
    /\ UNCHANGED <<log_queue_, running_, unflushed_count_, mutex_, file_path_,
                   entries, opened, log, ownerVars, appended>>

WriterStep(w) ==
    ProcessRuns /\ (CountEntry(w) \/ ResetCount(w) \/ NotifyBatch(w))

-----------------------------------------------------------------------------
(* background_flush                                                        *)

BgGoto(from, to) ==
    /\ bg = from
    /\ bg' = to
    /\ UNCHANGED <<running_, unflushed_count_, file_path_, ownerVars, writerVars>>

Lock ==
    /\ BgGoto("lock", "check")
    /\ mutex_ = "free"
    /\ mutex_' = "bg"
    /\ UNCHANGED <<log_queue_, entries, opened, log>>

(* The predicate of the wait, evaluated with mutex_ held.                  *)
CheckPredicate ==
    /\ BgGoto("check", IF ~running_ \/ log_queue_ # <<>> THEN "unlock" ELSE "block")
    /\ UNCHANGED <<mutex_, log_queue_, entries, opened, log>>

(* Releasing mutex_ and going to sleep is atomic.                          *)
Block ==
    /\ BgGoto("block", "waiting")
    /\ mutex_' = "free"
    /\ UNCHANGED <<log_queue_, entries, opened, log>>

WakeSpuriously ==
    /\ BgGoto("waiting", "woken")
    /\ UNCHANGED <<mutex_, log_queue_, entries, opened, log>>

TimeOut ==
    /\ BgGoto("waiting", "timed_out")
    /\ UNCHANGED <<mutex_, log_queue_, entries, opened, log>>

(* Awake, the wait evaluates the predicate again; after the timeout it     *)
(* returns whatever the predicate says.                                    *)
Relock ==
    /\ BgGoto("woken", "check") \/ BgGoto("timed_out", "unlock")
    /\ mutex_ = "free"
    /\ mutex_' = "bg"
    /\ UNCHANGED <<log_queue_, entries, opened, log>>

Unlock ==
    /\ BgGoto("unlock", "open")
    /\ mutex_' = "free"
    /\ UNCHANGED <<log_queue_, entries, opened, log>>

(* file_path_ is read here without the lock.                               *)
OpenLogFile ==
    /\ BgGoto("open", "drain")
    /\ opened' = file_path_
    /\ UNCHANGED <<mutex_, log_queue_, entries, log>>

(* A directory or a file cannot be created or opened: the exception leaves *)
(* the thread, and that ends the process.                                  *)
FailToOpen ==
    /\ BgGoto("open", "terminated")
    /\ UNCHANGED <<mutex_, log_queue_, entries, opened, log>>

(* Mutant of Drain: an incomplete batch is left in the queue.              *)
DrainWholeBatch ==
    /\ BgGoto("drain", IF Len(entries) + Len(log_queue_) >= Threshold
                          /\ Len(entries) < Threshold
                       THEN "take" ELSE "write")
    /\ UNCHANGED <<mutex_, log_queue_, entries, opened, log>>

Drain ==
    /\ BgGoto("drain", IF log_queue_ # <<>> /\ Len(entries) < Threshold
                       THEN "take" ELSE "write")
    /\ UNCHANGED <<mutex_, log_queue_, entries, opened, log>>

(* Mutant of Take: the entry is not kept.                                  *)
TakeAndDrop ==
    /\ BgGoto("take", "drain")
    /\ log_queue_' = Tail(log_queue_)
    /\ UNCHANGED <<mutex_, entries, opened, log>>

(* There is no other consumer: what empty() saw is still there.            *)
Take ==
    /\ BgGoto("take", "drain")
    /\ entries' = Append(entries, Head(log_queue_))
    /\ log_queue_' = Tail(log_queue_)
    /\ UNCHANGED <<mutex_, opened, log>>

Write ==
    /\ BgGoto("write", "check_running")
    /\ log' = log \o entries
    /\ entries' = <<>>
    /\ UNCHANGED <<mutex_, log_queue_, opened>>

(* Mutant of CheckRunning: the queue is not looked at again.               *)
CheckRunningOnly ==
    /\ BgGoto("check_running", IF running_ THEN "lock" ELSE "finished")
    /\ UNCHANGED <<mutex_, log_queue_, entries, opened, log>>

CheckRunning ==
    /\ BgGoto("check_running", IF running_ THEN "lock" ELSE "check_empty")
    /\ UNCHANGED <<mutex_, log_queue_, entries, opened, log>>

CheckEmpty ==
    /\ BgGoto("check_empty", IF log_queue_ = <<>> THEN "finished" ELSE "lock")
    /\ UNCHANGED <<mutex_, log_queue_, entries, opened, log>>

BgStep ==
    \/ Lock \/ CheckPredicate \/ Block \/ Relock \/ Unlock
    \/ OpenLogFile \/ Drain \/ Take \/ Write \/ CheckRunning \/ CheckEmpty

-----------------------------------------------------------------------------
(* start, stop and set_filepath, called by the logger's owner              *)

Stop ==
    /\ ProcessRuns
    /\ owner = "idle"
    /\ owner' = "stop"
    /\ promised' = Len(appended)
    /\ UNCHANGED <<log_queue_, running_, unflushed_count_, mutex_, file_path_,
                   bgVars, restarts, repaths, joined, writerVars>>

(* Mutant of ClearRunning: without mutex_.                                 *)
ClearRunningUnlocked ==
    /\ ProcessRuns
    /\ owner = "stop"
    /\ running_' = FALSE
    /\ owner' = "notify"
    /\ UNCHANGED <<log_queue_, unflushed_count_, mutex_, file_path_, bgVars,
                   restarts, repaths, promised, joined, writerVars>>

(* Under mutex_, taken and given back.                                     *)
ClearRunning ==
    /\ ProcessRuns
    /\ owner = "stop"
    /\ mutex_ = "free"
    /\ running_' = FALSE
    /\ owner' = "notify"
    /\ UNCHANGED <<log_queue_, unflushed_count_, mutex_, file_path_, bgVars,
                   restarts, repaths, promised, joined, writerVars>>

NotifyStop ==
    /\ ProcessRuns
    /\ owner = "notify"
    /\ NotifyOne
    /\ owner' = "join"
    /\ UNCHANGED <<log_queue_, running_, unflushed_count_, mutex_, file_path_,
                   entries, opened, log, restarts, repaths, promised, joined, writerVars>>

(* A logger that has been stopped before has no thread to join any more.   *)
Join ==
    /\ owner = "join"
    /\ bg \in {"finished", "none"}
    /\ joined' = (bg = "finished")
    /\ bg' = "none"
    /\ owner' = "stopped"
    /\ UNCHANGED <<log_queue_, running_, unflushed_count_, mutex_, file_path_,
                   entries, opened, log, restarts, repaths, promised, writerVars>>

StopReturns ==
    /\ owner = "stopped"
    /\ owner' = "idle"
    /\ promised' = 0
    /\ joined' = FALSE
    /\ UNCHANGED <<log_queue_, running_, unflushed_count_, mutex_, file_path_,
                   bgVars, restarts, repaths, writerVars>>

(* Only a stopped logger is started again: assigning to a std::thread that *)
(* is running would end the process.                                       *)
Start ==
    /\ owner = "idle"
    /\ bg = "none"
    /\ restarts < MaxRestarts
    /\ restarts' = restarts + 1
    /\ running_' = TRUE
    /\ bg' = "lock"
    /\ UNCHANGED <<log_queue_, unflushed_count_, mutex_, file_path_, entries,
                   opened, log, owner, repaths, promised, joined, writerVars>>

(* set_filepath takes mutex_; while it assigns, file_path_ has no value.   *)
SetFilePath ==
    /\ ProcessRuns
    /\ owner = "idle"
    /\ mutex_ = "free"
    /\ repaths < MaxPaths
    /\ repaths' = repaths + 1
    /\ mutex_' = "owner"
    /\ file_path_' = Garbage
    /\ owner' = "assign"
    /\ UNCHANGED <<log_queue_, running_, unflushed_count_, bgVars, restarts,
                   promised, joined, writerVars>>

AssignFilePath ==
    /\ ProcessRuns
    /\ owner = "assign"
    /\ file_path_' \in FilePaths
    /\ mutex_' = "free"
    /\ owner' = "idle"
    /\ UNCHANGED <<log_queue_, running_, unflushed_count_, bgVars, restarts,
                   repaths, promised, joined, writerVars>>

OwnerStep == ClearRunning \/ NotifyStop \/ Join \/ StopReturns \/ AssignFilePath

-----------------------------------------------------------------------------
Terminated == ~ProcessRuns /\ UNCHANGED vars

Next ==
    \/ \E w \in Writers : WriterStep(w) \/ \E e \in Entries : Enqueue(w, e)
    \/ BgStep \/ TimeOut \/ WakeSpuriously \/ FailToOpen
    \/ OwnerStep \/ Stop \/ Start \/ SetFilePath
    \/ Terminated

Spec == Init /\ [][Next]_vars

(* Threads inside the logger are scheduled; stop gets the mutex, which the *)
(* background thread gives up in every round.  Nothing makes the wait time *)
(* out: a property that needs the timeout says so.                         *)
LiveSpec ==
    /\ Spec
    /\ WF_vars(BgStep)
    /\ \A w \in Writers : WF_vars(WriterStep(w))
    /\ WF_vars(OwnerStep) /\ SF_vars(ClearRunning)

-----------------------------------------------------------------------------
(* No entry is lost, duplicated or reordered on its way from append to the *)
(* log, also across a stop and a restart.                                  *)
EntriesConserved == appended = log \o entries \o log_queue_

(* A stop() that joins the background thread returns only after everything *)
(* appended before the call is in the log.  A stop() of a logger that has  *)
(* been stopped already joins nothing, and flushes nothing: what was       *)
(* appended in between stays in the queue, StopFlushes does not hold.      *)
JoiningStopFlushesEarlierEntries ==
    owner = "stopped" /\ joined => promised <= Len(log)

(* stop() "stops the background thread, flushes all logs": everything that *)
(* was appended before any call is in the log when the call returns.       *)
StopFlushes == owner = "stopped" => promised <= Len(log)

(* The count reaches the threshold only while appends that have seen it do *)
(* so are about to reset it, and passes it by at most one for each of      *)
(* them: the increment, the comparison and the reset are separate, but no  *)
(* full batch is left standing without an append that will notify.         *)
CountBounded ==
    unflushed_count_ < Threshold + Cardinality({w \in Writers : writer[w] = "reset"})

(* Once stop() waits in join(), the background thread is not asleep, nor   *)
(* about to go to sleep on a predicate it evaluated before running_ was    *)
(* cleared: the one notification of stop() is not missed.                  *)
StopIsNotMissed == owner = "join" => bg \notin {"block", "waiting"}

(* What is appended while the background thread runs is written: at the    *)
(* latest after the timeout, the batch threshold being reached or not;     *)
(* unless a log file cannot be opened, which ends the process.             *)
AppendedIsWritten ==
    WF_vars(TimeOut) =>
        \A e \in Entries :
            (\E i \in DOMAIN log_queue_ : log_queue_[i] = e)
                ~> \/ \E i \in DOMAIN log : log[i] = e
                   \/ bg \in {"finished", "none", "terminated"}

(* stop() returns even if the wait never times out, as its wake-up is not  *)
(* lost; unless a log file cannot be opened, which ends the process.       *)
StopCompletes == owner = "stop" ~> owner = "stopped" \/ ~ProcessRuns

(* The threshold triggers a flush: the background thread is not asleep     *)
(* with a whole batch in the queue and no append about to notify it.       *)
ThresholdWakes ==
    bg = "waiting" /\ (\A w \in Writers : writer[w] = "idle")
        => Len(log_queue_) < Threshold
=============================================================================
