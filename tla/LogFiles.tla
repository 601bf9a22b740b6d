------------------------------ MODULE LogFiles ------------------------------
(***************************************************************************)
(* The log files AsyncLogger::background_flush of                          *)
(* src/src/logger/async_logger.hpp writes under its log root: a directory  *)
(* for each day, numbered files in it, and a new file when the current one *)
(* has reached its maximum size.  The process may end between any two      *)
(* accesses to the file system and be started again; only the files        *)
(* survive, the file number starts again at 1.  One process at a time is   *)
(* assumed to write under the log root, though nothing enforces it.        *)
(***************************************************************************)
EXTENDS Integers

CONSTANTS
    MaxFileSize,   \* MAX_LOG_FILE_SIZE
    MaxBatch,      \* the size of the largest batch
    MaxDay, MaxRestarts, MaxWrites   \* bounds

ASSUME LogFilesAssumption ==
    /\ MaxFileSize \in Nat \ {0}
    /\ {MaxBatch, MaxDay, MaxRestarts, MaxWrites} \subseteq Nat

VARIABLES
    day,           \* the date, counted from the first start
    dirs,          \* the days that have a directory
    size,          \* the size of each file, a file being <<day, number>>
    current_file_index_,
    bg,            \* where background_flush is
    path,          \* the file it has chosen
    restarts, writes   \* how often the process started again, and wrote

vars == <<day, dirs, size, current_file_index_, bg, path, restarts, writes>>

Files == Nat \X (Nat \ {0})

TypeOK ==
    /\ day \in 0..MaxDay
    /\ dirs \subseteq 0..day
    /\ DOMAIN size \subseteq Files
    /\ size \in [DOMAIN size -> Nat]
    /\ current_file_index_ \in Nat \ {0}
    /\ bg \in {"choose", "open", "write"}
    /\ path \in Files
    /\ restarts \in 0..MaxRestarts
    /\ writes \in 0..MaxWrites

Init ==
    /\ day = 0
    /\ dirs = {}
    /\ size = [f \in {} |-> 0]
    /\ current_file_index_ = 1
    /\ bg = "choose"
    /\ path = <<0, 1>>
    /\ restarts = 0
    /\ writes = 0

-----------------------------------------------------------------------------
(* Mutant of Opened: opening a file empties it.                            *)
OpenedEmpty(f) ==
    [g \in DOMAIN size \cup {f} |-> IF g = f THEN 0 ELSE size[g]]

(* The files when f has been opened for appending, and so exists.          *)
Opened(f) ==
    [g \in DOMAIN size \cup {f} |-> IF g \in DOMAIN size THEN size[g] ELSE 0]

(* Mutant of Oversized: a new file is never called for.                    *)
OversizedNever(f) == FALSE

Oversized(f) == f \in DOMAIN size /\ size[f] >= MaxFileSize

(* Mutant of FirstFileOfDay: it has the number reached the day before.     *)
NextFileOfDay ==
    /\ day \notin dirs
    /\ dirs' = dirs \cup {day}
    /\ path' = <<day, current_file_index_>>
    /\ UNCHANGED <<size, current_file_index_>>

(* The directory of the day is missing: 1.txt, whatever the file number.   *)
FirstFileOfDay ==
    /\ day \notin dirs
    /\ dirs' = dirs \cup {day}
    /\ path' = <<day, 1>>
    /\ UNCHANGED <<size, current_file_index_>>

(* Otherwise the current number, or the next one; a file that does not     *)
(* exist is created.                                                       *)
CurrentFileOfDay ==
    /\ day \in dirs
    /\ current_file_index_' = IF Oversized(<<day, current_file_index_>>)
                              THEN current_file_index_ + 1
                              ELSE current_file_index_
    /\ path' = <<day, current_file_index_'>>
    /\ size' = Opened(path')
    /\ UNCHANGED dirs

ChooseFile ==
    /\ bg = "choose"
    /\ FirstFileOfDay \/ CurrentFileOfDay
    /\ bg' = "open"
    /\ UNCHANGED <<day, restarts, writes>>

OpenFile ==
    /\ bg = "open"
    /\ size' = Opened(path)
    /\ bg' = "write"
    /\ UNCHANGED <<day, dirs, current_file_index_, path, restarts, writes>>

(* The batch is written and flushed, as far as the disk takes it.          *)
WriteBatch ==
    /\ bg = "write"
    /\ writes < MaxWrites
    /\ \E b \in 0..MaxBatch : size' = [size EXCEPT ![path] = @ + b]
    /\ bg' = "choose"
    /\ writes' = writes + 1
    /\ UNCHANGED <<day, dirs, current_file_index_, path, restarts>>

Midnight ==
    /\ day < MaxDay
    /\ day' = day + 1
    /\ UNCHANGED <<dirs, size, current_file_index_, bg, path, restarts, writes>>

(* Mutant of Restart: the number of the first file is one too low.         *)
RestartAtZero ==
    /\ restarts < MaxRestarts
    /\ restarts' = restarts + 1
    /\ current_file_index_' = 0
    /\ bg' = "choose"
    /\ UNCHANGED <<day, dirs, size, path, writes>>

(* The process ends, by itself or by an exception of background_flush, and *)
(* its next constructor sets the file number to 1.                         *)
Restart ==
    /\ restarts < MaxRestarts
    /\ restarts' = restarts + 1
    /\ current_file_index_' = 1
    /\ bg' = "choose"
    /\ UNCHANGED <<day, dirs, size, path, writes>>

Next == ChooseFile \/ OpenFile \/ WriteBatch \/ Midnight \/ Restart

Spec == Init /\ [][Next]_vars

-----------------------------------------------------------------------------
(* A file outgrows its maximum by less than one batch, and by at most one  *)
(* more for each time the process was started again.                       *)
SizeBounded ==
    \A f \in DOMAIN size :
        size[f] < MaxFileSize + MaxBatch * (1 + restarts)

(* Every day's entries begin in 1.txt: no directory has a file without it, *)
(* though the file number goes on from the day before and a crash may      *)
(* leave a directory empty.                                                *)
DaysBeginWithFirstFile ==
    \A f \in DOMAIN size : <<f[1], 1>> \in DOMAIN size

(* Nothing logged is overwritten, also by a process started again.         *)
FilesOnlyGrow ==
    [][\A f \in DOMAIN size : f \in DOMAIN size' /\ size'[f] >= size[f]]_vars
=============================================================================
