------------------------------ MODULE Lifetime ------------------------------
(***************************************************************************)
(* The function-local statics of the logger, its queue and the epoch-based *)
(* reclamation, from their first use to the end of the program. A static   *)
(* is destroyed in the reverse of the order in which its construction      *)
(* ended. The queue is built inside the logger's constructor, the manager  *)
(* at the first call of enqueue, dequeue or empty, by whichever thread     *)
(* makes it: the background thread runs before the constructor is done.    *)
(* main may append entries, may stop the logger itself, and returns.       *)
(***************************************************************************)
EXTENDS Naturals, Sequences

CONSTANT MaxAppends     \* entries main appends, a bound of the model

VARIABLES
    atexit,     \* the statics to destroy, the last one first
    destroyed,
    main, background,   \* where the two threads are
    running_,
    appended, entries,  \* entries appended so far, and in the queue
    registered,         \* threads whose current_thread_data is set
    late        \* history: the threads that used the manager once destroyed

vars == <<atexit, destroyed, main, background, running_, appended, entries,
          registered, late>>

Init ==
    /\ atexit = << >> /\ destroyed = {}
    /\ main = "start" /\ background = "none"
    /\ running_ = FALSE /\ appended = 0 /\ entries = 0
    /\ registered = {} /\ late = {}

Built(s) == s \in destroyed \/ \E i \in DOMAIN atexit : atexit[i] = s

\* EBRManager::instance().enter() and leave() of one queue operation.
UseManager(t) ==
    /\ atexit' = IF Built("manager") THEN atexit ELSE Append(atexit, "manager")
    /\ registered' = registered \cup {t}
    /\ late' = IF "manager" \in destroyed THEN late \cup {t} ELSE late

\* AsyncLogger's constructor up to start(), with Q::instance().
ConstructQueue ==
    /\ main = "start"
    /\ atexit' = Append(atexit, "queue")
    /\ main' = "starting"
    /\ running_' = TRUE /\ background' = "wait"
    /\ UNCHANGED <<destroyed, appended, entries, registered, late>>

ConstructLogger ==
    /\ main = "starting"
    /\ atexit' = Append(atexit, "logger")
    /\ main' = "run"
    /\ UNCHANGED <<destroyed, background, running_, appended, entries, registered, late>>

AppendEntry ==
    /\ main = "run" /\ appended < MaxAppends
    /\ UseManager("main")
    /\ appended' = appended + 1 /\ entries' = entries + 1
    /\ UNCHANGED <<destroyed, main, background, running_>>

\* main calls stop(), as the stress test does, or leaves it to ~AsyncLogger.
Stop ==
    /\ main \in {"run", "~logger"}
    /\ running_' = FALSE
    /\ main' = IF main = "run" THEN "join" ELSE "~logger join"
    /\ UNCHANGED <<atexit, destroyed, background, appended, entries, registered, late>>

Return ==
    /\ \/ main = "run"
       \/ main = "join" /\ background = "done"
    /\ main' = "exit"
    /\ UNCHANGED <<atexit, destroyed, background, running_, appended, entries,
                   registered, late>>

-----------------------------------------------------------------------------
Last == atexit[Len(atexit)]
Destroy(s) == atexit # << >> /\ Last = s

\* exit takes a destructor off the list before it calls it.
Taken == SubSeq(atexit, 1, Len(atexit) - 1)

BeginLoggerDestructor ==
    /\ main = "exit" /\ Destroy("logger")
    /\ atexit' = Taken
    /\ main' = "~logger"
    /\ UNCHANGED <<destroyed, background, running_, appended, entries, registered, late>>

LoggerDestructor ==
    /\ main = "~logger join" /\ background = "done"
    /\ destroyed' = destroyed \cup {"logger"}
    /\ main' = "exit"
    /\ UNCHANGED <<atexit, background, running_, appended, entries, registered, late>>

\* ~EBRManager clears the registry; the thread_local pointers stay as they are.
ManagerDestructor ==
    /\ main = "exit" /\ Destroy("manager")
    /\ atexit' = Taken
    /\ destroyed' = destroyed \cup {"manager"}
    /\ UNCHANGED <<main, background, running_, appended, entries, registered, late>>

\* ~MPMCQueue dequeues until the queue is empty; every dequeue enters an epoch.
BeginQueueDestructor ==
    /\ main = "exit" /\ Destroy("queue")
    /\ atexit' = Taken
    /\ main' = "~queue"
    /\ UNCHANGED <<destroyed, background, running_, appended, entries, registered, late>>

QueueDestructor ==
    /\ main = "~queue"
    /\ UseManager("main")
    /\ IF entries > 0
       THEN /\ entries' = entries - 1
            /\ UNCHANGED <<main, destroyed>>
       ELSE /\ destroyed' = destroyed \cup {"queue"}
            /\ main' = "exit"
            /\ UNCHANGED entries
    /\ UNCHANGED <<background, running_, appended>>

-----------------------------------------------------------------------------
\* wait_for asks the queue only while the logger runs.
Wait ==
    /\ background = "wait"
    /\ IF running_ THEN UseManager("background") ELSE UNCHANGED <<atexit, registered, late>>
    /\ background' = "flush"
    /\ UNCHANGED <<destroyed, main, running_, appended, entries>>

Flush ==
    /\ background = "flush"
    /\ UseManager("background")
    /\ IF entries > 0
       THEN entries' = entries - 1 /\ UNCHANGED background
       ELSE background' = "check" /\ UNCHANGED entries
    /\ UNCHANGED <<destroyed, main, running_, appended>>

Check ==
    /\ background = "check"
    /\ \/ /\ running_
          /\ background' = "wait"
          /\ UNCHANGED <<atexit, registered, late>>
       \/ /\ ~running_
          /\ UseManager("background")
          /\ background' = IF entries = 0 THEN "done" ELSE "wait"
    /\ UNCHANGED <<destroyed, main, running_, appended, entries>>

Done == main = "exit" /\ atexit = << >> /\ UNCHANGED vars

Next ==
    \/ ConstructQueue \/ ConstructLogger \/ AppendEntry \/ Stop \/ Return
    \/ BeginLoggerDestructor \/ LoggerDestructor \/ ManagerDestructor
    \/ BeginQueueDestructor \/ QueueDestructor
    \/ Wait \/ Flush \/ Check \/ Done

Spec == Init /\ [][Next]_vars

-----------------------------------------------------------------------------
(***************************************************************************)
(* The README promises safe memory management of the queue with epoch-     *)
(* based reclamation: no thread uses the manager, or the records of it the *)
(* registry owned, once it is destroyed (~EBRManager and ~MPMCQueue).      *)
(***************************************************************************)
ManagerOutlivesItsUsers == late = {}

(***************************************************************************)
(* The destructors run over the logger only when its thread has ended, and *)
(* over the queue when nothing is in it that was appended (~AsyncLogger,   *)
(* stop and background_flush).                                             *)
(***************************************************************************)
ThreadEndsFirst ==
    "logger" \in destroyed => background = "done" /\ entries = 0
=============================================================================
