--------------------------- MODULE LogFiles_proofs ---------------------------
(***************************************************************************)
(* Proofs about LogFiles, for every maximum size and every largest batch,  *)
(* however many days, restarts and batches there are.                      *)
(***************************************************************************)
EXTENDS LogFiles, TLAPS

(* What the sizes may have grown to in the earlier runs of the process.    *)
Before == MaxFileSize + MaxBatch * restarts

(* In one run a file gets at most one batch that takes it over the maximum *)
(* size: files with a higher number than the current one have not been     *)
(* written to yet, and the chosen file was below the maximum or is one of  *)
(* those.                                                                  *)
SizeInv ==
    /\ \A f \in DOMAIN size : size[f] < Before + MaxBatch
    /\ \A f \in DOMAIN size : f[2] > current_file_index_ => size[f] < Before
    /\ bg \in {"open", "write"} =>
           /\ path[2] <= current_file_index_
           /\ path \in DOMAIN size => size[path] < Before
    /\ bg = "write" => path \in DOMAIN size
    /\ \A f \in DOMAIN size : f[1] \in dirs
    /\ bg \in {"open", "write"} => path[1] \in dirs

(* Where the directory of today lacks 1.txt that file is chosen next.      *)
FirstFileInv ==
    /\ DaysBeginWithFirstFile
    /\ day \in dirs =>
           \/ <<day, 1>> \in DOMAIN size
           \/ current_file_index_ = 1
           \/ bg = "open" /\ path = <<day, 1>>
    /\ bg = "open" => path[2] = 1 \/ path \in DOMAIN size

IInv == TypeOK /\ SizeInv /\ FirstFileInv

-----------------------------------------------------------------------------
(* What the invariant compares sizes with, and how it changes.             *)
LEMMA BeforeGrows ==
    ASSUME TypeOK
    PROVE  /\ Before \in Nat /\ MaxFileSize \in Nat
           /\ Before >= MaxFileSize /\ MaxFileSize > 0
           /\ MaxBatch \in Nat
           /\ restarts' = restarts => Before' = Before
           /\ restarts' = restarts + 1 => Before' = Before + MaxBatch
<1>1. restarts \in Nat /\ MaxBatch \in Nat /\ MaxFileSize \in Nat \ {0}
  BY LogFilesAssumption DEF TypeOK
<1>2. /\ MaxBatch * restarts \in Nat
      /\ MaxBatch * (restarts + 1) = MaxBatch * restarts + MaxBatch
  BY <1>1
<1> QED  BY <1>1, <1>2 DEF Before

(* Opening a file adds it with size 0, or changes nothing.                 *)
LEMMA OpenedFiles ==
    ASSUME TypeOK, NEW f \in Files
    PROVE  /\ DOMAIN Opened(f) = DOMAIN size \cup {f}
           /\ Opened(f) \in [DOMAIN size \cup {f} -> Nat]
           /\ \A g \in DOMAIN size : Opened(f)[g] = size[g]
           /\ f \notin DOMAIN size => Opened(f)[f] = 0
BY DEF Opened, TypeOK

(* There are no files at first.                                            *)
LEMMA IInvInit == Init => IInv
<1> SUFFICES ASSUME Init PROVE IInv
  OBVIOUS
<1>1. TypeOK
  BY LogFilesAssumption DEF Init, TypeOK, Files
<1>2. SizeInv /\ FirstFileInv
  BY DEF Init, SizeInv, FirstFileInv, DaysBeginWithFirstFile
<1> QED  BY <1>1, <1>2 DEF IInv

(* Choosing the file, in both of its branches.                             *)
LEMMA ChooseFileKeeps == IInv /\ ChooseFile => IInv'
<1> SUFFICES ASSUME IInv, ChooseFile PROVE IInv'
  OBVIOUS
<1>0. TypeOK /\ SizeInv /\ FirstFileInv /\ restarts' = restarts
  BY DEF IInv, ChooseFile
<1>b. /\ Before \in Nat /\ MaxFileSize \in Nat
      /\ Before >= MaxFileSize /\ MaxFileSize > 0 /\ Before' = Before
  BY <1>0, BeforeGrows
<1>c. /\ MaxBatch \in Nat /\ bg' = "open"
      /\ day' = day /\ writes' = writes
  BY LogFilesAssumption DEF ChooseFile
<1>1. CASE FirstFileOfDay
  <2>1. /\ path' = <<day, 1>> /\ dirs' = dirs \cup {day} /\ day \notin dirs
        /\ size' = size /\ current_file_index_' = current_file_index_
    BY <1>1 DEF FirstFileOfDay
  <2>2. <<day, 1>> \notin DOMAIN size
    BY <1>0, <2>1 DEF SizeInv
  <2>3. TypeOK'
    BY <1>0, <1>c, <2>1 DEF TypeOK, Files
  <2>4. SizeInv'
    BY <1>0, <1>b, <1>c, <2>1, <2>2 DEF SizeInv, TypeOK
  <2>5. FirstFileInv'
    BY <1>0, <1>c, <2>1 DEF FirstFileInv, DaysBeginWithFirstFile
  <2> QED  BY <2>3, <2>4, <2>5 DEF IInv
<1>2. CASE CurrentFileOfDay
  <2> DEFINE n == current_file_index_
  <2>1. /\ day \in dirs /\ dirs' = dirs
        /\ n' = IF Oversized(<<day, n>>) THEN n + 1 ELSE n
        /\ path' = <<day, n'>>
        /\ size' = Opened(path')
    BY <1>2 DEF CurrentFileOfDay
  <2>2. n \in Nat \ {0} /\ n' \in Nat \ {0} /\ n <= n' /\ path' \in Files
    BY <1>0, <2>1 DEF TypeOK, Files
  <2>3. /\ DOMAIN size' = DOMAIN size \cup {path'}
        /\ size' \in [DOMAIN size \cup {path'} -> Nat]
        /\ \A g \in DOMAIN size : size'[g] = size[g]
        /\ path' \notin DOMAIN size => size'[path'] = 0
    BY <1>0, <2>1, <2>2, OpenedFiles
  <2>4. path' \in DOMAIN size => size[path'] < Before
    <3>1. CASE Oversized(<<day, n>>)
      BY <1>0, <2>1, <2>2, <3>1 DEF SizeInv
    <3>2. CASE ~Oversized(<<day, n>>)
      BY <1>0, <1>b, <2>1, <2>2, <3>2, LogFilesAssumption DEF Oversized, TypeOK
    <3> QED  BY <3>1, <3>2
  <2>5. size'[path'] < Before
    <3>1. CASE path' \in DOMAIN size
      <4>1. size'[path'] = size[path']
        BY <2>3, <3>1
      <4> QED  BY <2>4, <3>1, <4>1
    <3>2. CASE path' \notin DOMAIN size
      <4>1. size'[path'] = 0
        BY <2>3, <3>2
      <4> QED  BY <1>b, <4>1
    <3> QED  BY <3>1, <3>2
  <2>6. TypeOK'
    BY <1>0, <1>c, <2>1, <2>2, <2>3 DEF TypeOK
  <2>7. SizeInv'
    <3>1. \A f \in DOMAIN size' : size'[f] < Before' + MaxBatch
      BY <1>0, <1>b, <1>c, <2>3, <2>5, <2>6 DEF SizeInv, TypeOK
    <3>2. \A f \in DOMAIN size' : f[2] > n' => size'[f] < Before'
      <4> SUFFICES ASSUME NEW f \in DOMAIN size', f[2] > n'
                   PROVE  size'[f] < Before'
        OBVIOUS
      <4>1. CASE f = path'
        BY <1>b, <2>5, <4>1
      <4>2. CASE f # path'
        <5>1. f \in DOMAIN size /\ f[2] \in Nat
          BY <1>0, <2>3, <4>2 DEF TypeOK, Files
        <5>2. f[2] > n
          BY <2>2, <5>1
        <5> QED  BY <1>0, <1>b, <2>3, <5>1, <5>2 DEF SizeInv
      <4> QED  BY <4>1, <4>2
    <3>3. path'[2] = n' /\ path'[1] = day /\ path'[2] <= n'
      BY <2>1, <2>2
    <3>4. \A f \in DOMAIN size' : f[1] \in dirs'
      BY <1>0, <2>1, <2>3, <3>3 DEF SizeInv
    <3> QED  BY <1>b, <1>c, <2>1, <2>5, <3>1, <3>2, <3>3, <3>4 DEF SizeInv
  <2>8. FirstFileInv'
    <3>0. bg = "choose"
      BY DEF ChooseFile
    <3>1. \/ <<day, 1>> \in DOMAIN size
          \/ n = 1 /\ path' = <<day, 1>> /\ n' = 1
      BY <1>0, <2>1, <3>0 DEF FirstFileInv, Oversized
    <3>2. <<day, 1>> \in DOMAIN size'
      BY <2>3, <3>1
    <3>3. path'[1] = day
      BY <2>1
    <3>4. DaysBeginWithFirstFile'
      BY <1>0, <2>3, <3>2, <3>3 DEF FirstFileInv, DaysBeginWithFirstFile
    <3> QED  BY <1>c, <2>3, <3>2, <3>4 DEF FirstFileInv
  <2> QED  BY <2>6, <2>7, <2>8 DEF IInv
<1> QED  BY <1>1, <1>2 DEF ChooseFile

(* Opening the chosen file for appending keeps the invariant.              *)
LEMMA OpenFileKeeps == IInv /\ OpenFile => IInv'
<1> SUFFICES ASSUME IInv, OpenFile PROVE IInv'
  OBVIOUS
<1>0. TypeOK /\ SizeInv /\ FirstFileInv /\ path \in Files /\ bg = "open"
  BY DEF IInv, OpenFile, TypeOK
<1>1. /\ bg' = "write" /\ size' = Opened(path)
      /\ UNCHANGED <<day, dirs, current_file_index_, path, restarts, writes>>
  BY DEF OpenFile
<1>2. /\ DOMAIN size' = DOMAIN size \cup {path}
      /\ size' \in [DOMAIN size \cup {path} -> Nat]
      /\ \A g \in DOMAIN size : size'[g] = size[g]
      /\ path \notin DOMAIN size => size'[path] = 0
  BY <1>0, <1>1, OpenedFiles
<1>3. Before \in Nat /\ Before > 0 /\ Before' = Before /\ MaxBatch \in Nat
  BY <1>0, <1>1, BeforeGrows, LogFilesAssumption
<1>4. size'[path] < Before
  BY <1>0, <1>2, <1>3 DEF SizeInv
<1>5. TypeOK'
  BY <1>0, <1>1, <1>2 DEF TypeOK
<1>6. SizeInv'
  <2>1. \A f \in DOMAIN size' : size'[f] < Before' + MaxBatch
    BY <1>0, <1>2, <1>3, <1>4, <1>5 DEF SizeInv, TypeOK
  <2>2. \A f \in DOMAIN size' : f[2] > current_file_index_ => size'[f] < Before'
    BY <1>0, <1>2, <1>3, <1>4 DEF SizeInv
  <2> QED  BY <1>0, <1>1, <1>2, <1>3, <1>4, <2>1, <2>2 DEF SizeInv
<1>7. FirstFileInv'
  <2>1. <<path[1], 1>> \in DOMAIN size'
    <3>1. CASE path[2] = 1
      <4>1. path = <<path[1], 1>>
        BY <1>0, <3>1 DEF Files
      <4> QED  BY <1>2, <4>1
    <3>2. CASE path \in DOMAIN size
      BY <1>0, <1>2, <3>2 DEF FirstFileInv, DaysBeginWithFirstFile
    <3> QED  BY <1>0, <3>1, <3>2 DEF FirstFileInv
  <2>2. DaysBeginWithFirstFile'
    BY <1>0, <1>2, <2>1 DEF FirstFileInv, DaysBeginWithFirstFile
  <2> QED  BY <1>0, <1>1, <1>2, <2>1, <2>2 DEF FirstFileInv
<1> QED  BY <1>5, <1>6, <1>7 DEF IInv

(* Writing a batch to the chosen file keeps the invariant.                 *)
LEMMA WriteBatchKeeps == IInv /\ WriteBatch => IInv'
<1> SUFFICES ASSUME IInv, WriteBatch PROVE IInv'
  OBVIOUS
<1>0. TypeOK /\ SizeInv /\ FirstFileInv /\ bg = "write"
  BY DEF IInv, WriteBatch
<1>1. PICK b \in 0..MaxBatch : size' = [size EXCEPT ![path] = @ + b]
  BY DEF WriteBatch
<1>2. /\ bg' = "choose" /\ writes < MaxWrites /\ writes' = writes + 1
      /\ UNCHANGED <<day, dirs, current_file_index_, path, restarts>>
  BY DEF WriteBatch
<1>3. Before \in Nat /\ Before' = Before /\ MaxBatch \in Nat /\ b \in Nat /\ b <= MaxBatch
  BY <1>0, <1>2, BeforeGrows, LogFilesAssumption
<1>4. /\ path \in DOMAIN size /\ size[path] < Before /\ size[path] \in Nat
      /\ DOMAIN size' = DOMAIN size
      /\ size'[path] = size[path] + b
      /\ \A f \in DOMAIN size : f # path => size'[f] = size[f]
  BY <1>0, <1>1 DEF SizeInv, TypeOK
<1>5. TypeOK'
  BY <1>0, <1>1, <1>2, <1>3, <1>4, LogFilesAssumption DEF TypeOK
<1>6. SizeInv'
  <2>1. \A f \in DOMAIN size' : size'[f] < Before' + MaxBatch
    BY <1>0, <1>3, <1>4 DEF SizeInv
  <2>2. \A f \in DOMAIN size' : f[2] > current_file_index_ => size'[f] < Before'
    <3>1. ~(path[2] > current_file_index_)
      BY <1>0 DEF SizeInv, TypeOK, Files
    <3> QED  BY <1>0, <1>3, <1>4, <3>1 DEF SizeInv
  <2> QED  BY <1>0, <1>2, <1>4, <2>1, <2>2 DEF SizeInv
<1>7. FirstFileInv'
  BY <1>0, <1>2, <1>4 DEF FirstFileInv, DaysBeginWithFirstFile
<1> QED  BY <1>5, <1>6, <1>7 DEF IInv

(* A new date, which has no directory yet, keeps the invariant.            *)
LEMMA MidnightKeeps == IInv /\ Midnight => IInv'
<1> SUFFICES ASSUME IInv, Midnight PROVE IInv'
  OBVIOUS
<1>0. TypeOK /\ SizeInv /\ FirstFileInv
  BY DEF IInv
<1>1. /\ day < MaxDay /\ day' = day + 1
      /\ UNCHANGED <<dirs, size, current_file_index_, bg, path, restarts, writes>>
  BY DEF Midnight
<1>2. day \in Nat /\ dirs \subseteq 0..day /\ MaxDay \in Nat
  BY <1>0, LogFilesAssumption DEF TypeOK
<1>3. day' \notin dirs /\ dirs \subseteq 0..day' /\ day' \in 0..MaxDay
  BY <1>1, <1>2
<1>4. TypeOK'
  BY <1>0, <1>1, <1>3 DEF TypeOK
<1>5. SizeInv'
  BY <1>0, <1>1, BeforeGrows DEF SizeInv
<1>6. FirstFileInv'
  BY <1>0, <1>1, <1>3 DEF FirstFileInv, DaysBeginWithFirstFile
<1> QED  BY <1>4, <1>5, <1>6 DEF IInv

(* Starting the process again keeps the invariant: every file may now get  *)
(* one more batch.                                                         *)
LEMMA RestartKeeps == IInv /\ Restart => IInv'
<1> SUFFICES ASSUME IInv, Restart PROVE IInv'
  OBVIOUS
<1>0. TypeOK /\ SizeInv /\ FirstFileInv
  BY DEF IInv
<1>1. /\ restarts < MaxRestarts /\ restarts' = restarts + 1
      /\ current_file_index_' = 1 /\ bg' = "choose"
      /\ UNCHANGED <<day, dirs, size, path, writes>>
  BY DEF Restart
<1>2. Before \in Nat /\ Before' = Before + MaxBatch /\ MaxBatch \in Nat
  BY <1>0, <1>1, BeforeGrows
<1>3. TypeOK'
  BY <1>0, <1>1, LogFilesAssumption DEF TypeOK
<1>4. SizeInv'
  <2>1. \A f \in DOMAIN size' : size'[f] < Before' /\ size'[f] \in Nat
    BY <1>0, <1>1, <1>2 DEF SizeInv, TypeOK
  <2> QED  BY <1>0, <1>1, <1>2, <2>1 DEF SizeInv
<1>5. FirstFileInv'
  BY <1>0, <1>1 DEF FirstFileInv, DaysBeginWithFirstFile
<1> QED  BY <1>3, <1>4, <1>5 DEF IInv

(* The invariant holds throughout.                                         *)
LEMMA IInvHolds == Spec => []IInv
<1>1. IInv /\ UNCHANGED vars => IInv'
  BY DEF vars, IInv, TypeOK, SizeInv, FirstFileInv, DaysBeginWithFirstFile, Before
<1>2. IInv /\ [Next]_vars => IInv'
  BY <1>1, ChooseFileKeeps, OpenFileKeeps, WriteBatchKeeps, MidnightKeeps,
     RestartKeeps DEF Next
<1> QED  BY IInvInit, <1>2, PTL DEF Spec

-----------------------------------------------------------------------------
(* The state of the log files keeps its types.                             *)
THEOREM TypeCorrect == Spec => []TypeOK
<1>1. IInv => TypeOK
  BY DEF IInv
<1> QED  BY <1>1, IInvHolds, PTL

(* A log file outgrows MAX_LOG_FILE_SIZE by less than one batch, plus at   *)
(* most one batch for each restart of the process.                         *)
THEOREM SizesStayBounded == Spec => []SizeBounded
<1>1. IInv => SizeBounded
  <2> SUFFICES ASSUME IInv PROVE SizeBounded
    OBVIOUS
  <2>1. restarts \in Nat /\ MaxBatch \in Nat /\ MaxFileSize \in Nat
    BY LogFilesAssumption DEF IInv, TypeOK
  <2>2. MaxFileSize + MaxBatch * (1 + restarts) = Before + MaxBatch
    <3>1. /\ MaxBatch * restarts \in Nat
          /\ MaxBatch * (1 + restarts) = MaxBatch * restarts + MaxBatch
      BY <2>1
    <3> QED  BY <2>1, <3>1 DEF Before
  <2> QED  BY <2>2 DEF IInv, SizeInv, SizeBounded
<1> QED  BY <1>1, IInvHolds, PTL

(* Every day that has log files has a 1.txt.                               *)
THEOREM FirstFileComesFirst == Spec => []DaysBeginWithFirstFile
<1>1. IInv => DaysBeginWithFirstFile
  BY DEF IInv, FirstFileInv
<1> QED  BY <1>1, IInvHolds, PTL

(* No step of the process, and no restart, shortens or removes a log file. *)
THEOREM NothingIsOverwritten == Spec => FilesOnlyGrow
<1> DEFINE Grow == \A f \in DOMAIN size : f \in DOMAIN size' /\ size'[f] >= size[f]
<1>1. ASSUME IInv, [Next]_vars PROVE [Grow]_vars
  <2>0. TypeOK /\ \A f \in DOMAIN size : size[f] \in Nat
    BY <1>1 DEF IInv, TypeOK
  <2>1. ASSUME NEW f \in Files, size' = Opened(f) PROVE Grow
    <3>1. /\ DOMAIN size' = DOMAIN size \cup {f}
          /\ \A g \in DOMAIN size : size'[g] = size[g]
      BY <2>0, <2>1, OpenedFiles
    <3> QED  BY <2>0, <3>1
  <2>2. CASE ChooseFile
    <3>1. CASE FirstFileOfDay
      BY <2>0, <3>1 DEF FirstFileOfDay
    <3>2. CASE CurrentFileOfDay
      <4>1. path' \in Files
        BY <2>0, <3>2 DEF CurrentFileOfDay, TypeOK, Files
      <4> QED  BY <2>1, <3>2, <4>1 DEF CurrentFileOfDay
    <3> QED  BY <2>2, <3>1, <3>2 DEF ChooseFile
  <2>3. CASE OpenFile
    BY <2>0, <2>1, <2>3 DEF OpenFile, TypeOK
  <2>4. CASE WriteBatch
    <3>1. PICK b \in 0..MaxBatch : size' = [size EXCEPT ![path] = @ + b]
      BY <2>4 DEF WriteBatch
    <3>2. b \in Nat
      BY LogFilesAssumption
    <3> QED  BY <2>0, <3>1, <3>2 DEF TypeOK
  <2>5. CASE Midnight \/ Restart \/ UNCHANGED vars
    BY <2>0, <2>5 DEF Midnight, Restart, vars
  <2> QED  BY <1>1, <2>2, <2>3, <2>4, <2>5 DEF Next
<1> QED  BY <1>1, IInvHolds, PTL DEF Spec, FilesOnlyGrow
=============================================================================
