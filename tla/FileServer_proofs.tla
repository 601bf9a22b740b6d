-------------------------- MODULE FileServer_proofs --------------------------
(***************************************************************************)
(* Proofs about FileServer, for any number of uploads, downloads and       *)
(* deletions, chunks of any number and any size of the download's buffer.  *)
(***************************************************************************)
EXTENDS FileServer, SequenceTheorems, TLAPS

(* What is known of a call at each point: it is deleted twice only after   *)
(* it is cancelled, it handles data only with a file open, and there is a  *)
(* chunk to write when it is about to.                                     *)
ControlInv ==
    /\ \A c \in Calls : pc[c] # "gone" => deletes[c] <= 1
    /\ \A c \in Calls : pc[c] \in {"new", "open"} => inode[c] = 0
    /\ \A c \in Calls : pc[c] \in {"write", "fetch"} => inode[c] # 0
    /\ \A c \in Uploads : inode[c] = 0 => received[c] = 0
    /\ \A c \in Uploads : pc[c] \in {"open", "write"} => received[c] < chunks[c]
    /\ \A c \in Downloads : inode[c] = 0 => got[c] = <<>> /\ ~eof[c]

IInv == TypeOK /\ ControlInv

-----------------------------------------------------------------------------
(* What is written to a file is data.                                      *)
LEMMA WrittenType ==
    ASSUME TypeOK, NEW c \in Uploads, inode[c] # 0,
           NEW from \in Nat, NEW to \in Nat
    PROVE  Written(c, from, to) \in Seq(Data)
<1> DEFINE old == contents[inode[c]]
           length == IF to > Len(old) THEN to ELSE Len(old)
<1>1. inode[c] \in 1..Len(contents)
  BY DEF TypeOK, Calls
<1>2. old \in Seq(Data)
  BY <1>1, ElementOfSeq DEF TypeOK
<1>3. length \in Nat
  BY <1>2, LenProperties
<1>4. Written(c, from, to) \in [1..length -> Data]
  <2>1. ASSUME NEW i \in 1..length, i <= Len(old)
        PROVE  old[i] \in Data
    BY <1>2, <2>1, ElementOfSeq
  <2>2. ASSUME NEW i \in 1..length
        PROVE  <<c, i>> \in Data /\ Hole \in Data
    BY DEF Data
  <2> QED  BY <2>1, <2>2 DEF Written
<1> QED  BY <1>3, <1>4

(* Writing out keeps the types.                                            *)
LEMMA WriteOutType ==
    ASSUME TypeOK, NEW c \in Uploads,
           NEW n \in stored[c]..(received[c] + 1), inode[c] # 0 \/ n = stored[c],
           WriteOut(c, n)
    PROVE  /\ contents' \in Seq(Seq(Data)) /\ Len(contents') = Len(contents)
           /\ stored' = [stored EXCEPT ![c] = n]
           /\ disturbed' \in [Calls -> BOOLEAN]
<1>1. CASE n = stored[c]
  BY <1>1 DEF WriteOut, TypeOK
<1>2. CASE n # stored[c]
  <2>1. inode[c] \in 1..Len(contents) /\ stored[c] \in Nat /\ n \in Nat
    BY <1>2 DEF TypeOK, Calls
  <2>2. Written(c, stored[c] + 1, n) \in Seq(Data)
    BY <1>2, <2>1, WrittenType
  <2>3. /\ contents' = [contents EXCEPT ![inode[c]] = Written(c, stored[c] + 1, n)]
        /\ stored' = [stored EXCEPT ![c] = n]
        /\ Disturb(c, inode[c], Calls)
    BY <1>2 DEF WriteOut
  <2>4. contents' \in Seq(Seq(Data)) /\ Len(contents') = Len(contents)
    BY <2>1, <2>2, <2>3, ExceptSeq DEF TypeOK
  <2>5. disturbed' \in [Calls -> BOOLEAN]
    BY <2>3 DEF Disturb, TypeOK
  <2> QED  BY <2>3, <2>4, <2>5
<1> QED  BY <1>1, <1>2

(* What a read finds is data, no more than fits the buffer.                *)
LEMMA AvailableData ==
    ASSUME TypeOK, NEW c \in Downloads, inode[c] # 0
    PROVE  Available(c) \in Seq(Data)
<1> DEFINE data == contents[inode[c]]
           last == Len(got[c]) + ReadSize
           to == IF last < Len(data) THEN last ELSE Len(data)
<1>1. data \in Seq(Data) /\ Len(got[c]) \in Nat
  BY ElementOfSeq DEF TypeOK, Calls
<1>2. to \in Int /\ \A i \in (Len(got[c]) + 1)..to : data[i] \in Data
  BY <1>1, ElementOfSeq, ServerAssumption
<1>3. SubSeq(data, Len(got[c]) + 1, to) \in Seq(Data)
  <2> HIDE DEF data, to
  <2> QED  BY <1>1, <1>2, SubSeqProperties
<1> QED  BY <1>3 DEF Available

-----------------------------------------------------------------------------
(* The invariant of the control flow holds at first.                       *)
LEMMA ControlInit == Init => IInv
<1> SUFFICES ASSUME Init PROVE IInv
  OBVIOUS
<1>0. <<OldFile>> \in Seq(Seq(Data)) /\ Len(<<OldFile>>) = 1
  <2>1. OldFile \in Seq(Data)
    BY ServerAssumption DEF Data
  <2> QED  BY <2>1
<1>1. TypeOK
  <2>1. contents \in Seq(Seq(Data)) /\ file \in 0..Len(contents)
    <3>1. CASE file = 0 /\ contents = <<>>
      BY <3>1
    <3>2. CASE file = 1 /\ contents = <<OldFile>>
      BY <1>0, <3>2
    <3> QED  BY <3>1, <3>2 DEF Init
  <2> QED  BY <2>1, ServerAssumption DEF Init, TypeOK, Calls, Codes
<1>2. ControlInv
  BY DEF Init, ControlInv, Calls
<1> QED  BY <1>1, <1>2 DEF IInv

(* What OnDone does at least, also on a reactor that was deleted before.   *)
Ended(c) ==
    /\ pc[c] = "finish"
    /\ \E code \in Codes : LogCommit(c, code)
    /\ deletes' = [deletes EXCEPT ![c] = @ + 1]
    /\ Goto(c, "gone")
    /\ UNCHANGED <<file, status_, inode, received, downloadVars, broken>>

LEMMA DoneEnds ==
    ASSUME TypeOK, NEW c \in Calls,
           \/ UploadDone(c) \/ DownloadDone(c) \/ DeleteDone(c)
    PROVE  Ended(c)
<1>1. status_[c] \in Codes /\ deletes \in [Calls -> 0..2]
  BY DEF TypeOK
<1>2. CASE Done(c)
  <2>1. LogCommit(c, status_[c])
    BY <1>2 DEF Done, LogOutcome, LogAbort
  <2> QED  BY <1>1, <1>2, <2>1 DEF Done, Ended
<1>3. CASE deletes[c] = 1 /\ DoneOnFreed(c)
  <2>1. deletes' = [deletes EXCEPT ![c] = @ + 1]
    BY <1>1, <1>3 DEF DoneOnFreed
  <2> QED  BY <1>3, <2>1 DEF DoneOnFreed, Ended
<1> QED  BY <1>2, <1>3 DEF UploadDone, DownloadDone, DeleteDone

(* Logging appends an entry.                                               *)
LEMMA LoggedType ==
    ASSUME TypeOK, NEW c \in Calls,
           \/ LogPrepare(c) \/ LogAbort(c, status_[c])
           \/ \E code \in Codes : LogCommit(c, code)
    PROVE  log' \in [Calls -> Seq(Entry)]
<1>1. ASSUME NEW e \in Entry PROVE [log EXCEPT ![c] = Append(@, e)] \in [Calls -> Seq(Entry)]
  BY DEF TypeOK
<1>2. PICK e \in Entry : Logged(c, e)
  BY DEF Codes, LogPrepare, LogAbort, LogCommit, TypeOK, Entry
<1> QED  BY <1>1, <1>2 DEF Logged

(* The start of the three calls.                                           *)
LEMMA StartKeeps ==
    ASSUME IInv, NEW c \in Calls,
           \/ c \in Uploads /\ StartUpload(c) /\ UNCHANGED <<downloadVars, broken>>
           \/ c \in Downloads /\ StartDownload(c) /\ UNCHANGED <<fileVars, uploadVars, broken>>
           \/ /\ c \in Deletes /\ StartDelete(c)
              /\ UNCHANGED <<uploadVars, downloadVars, inode, broken>>
    PROVE  IInv'
<1> USE DEF fileVars, uploadVars, downloadVars
<1>0. log' \in [Calls -> Seq(Entry)]
  BY LoggedType DEF IInv, StartUpload, StartDownload, StartDelete
<1>1. CASE c \in Uploads /\ StartUpload(c) /\ UNCHANGED <<downloadVars, broken>>
  BY <1>0, <1>1, ServerAssumption DEF IInv, TypeOK, ControlInv, StartUpload, Goto, Calls
<1>2. CASE c \in Downloads /\ StartDownload(c) /\ UNCHANGED <<fileVars, uploadVars, broken>>
  BY <1>0, <1>2, ServerAssumption DEF IInv, TypeOK, ControlInv, StartDownload, Goto, Calls
<1>3. CASE /\ c \in Deletes /\ StartDelete(c)
           /\ UNCHANGED <<uploadVars, downloadVars, inode, broken>>
  <2>1. TypeOK /\ ControlInv /\ c \notin Uploads /\ c \notin Downloads
    BY <1>3, ServerAssumption DEF IInv
  <2>2. /\ UNCHANGED <<contents, deletes, received, stored, got, eof, inode, broken>>
        /\ pc[c] = "new" /\ pc' = [pc EXCEPT ![c] = "finish"]
    BY <1>3 DEF StartDelete, Finish, Goto
  <2>3. /\ status_' \in [Calls -> Codes]
        /\ file' \in 0..Len(contents)
        /\ disturbed' \in [Calls -> BOOLEAN]
    <3>1. status_' \in [Calls -> Codes]
      BY <1>3, <2>1 DEF Codes, StartDelete, Finish, TypeOK
    <3>2. file' \in 0..Len(contents)
      BY <1>3, <2>1 DEF StartDelete, TypeOK
    <3>3. disturbed' \in [Calls -> BOOLEAN]
      <4>1. disturbed' = disturbed \/ Disturb(c, file, Uploads)
        BY <1>3 DEF StartDelete
      <4> QED  BY <2>1, <4>1 DEF Disturb, TypeOK
    <3> QED  BY <3>1, <3>2, <3>3
  <2>4. TypeOK'
    BY <1>0, <2>1, <2>2, <2>3 DEF TypeOK
  <2>5. ControlInv'
    BY <2>1, <2>2 DEF TypeOK, ControlInv, Calls
  <2> QED  BY <2>4, <2>5 DEF IInv
<1> QED  BY <1>1, <1>2, <1>3

(* Reading, opening and writing in an upload.                              *)
LEMMA UploadKeeps ==
    ASSUME IInv, NEW c \in Uploads,
           OnReadDone(c) \/ OpenForWriting(c) \/ WriteChunk(c),
           UNCHANGED <<downloadVars, broken>>
    PROVE  IInv'
<1> USE DEF fileVars, uploadVars, downloadVars
<1>0. TypeOK /\ ControlInv /\ c \in Calls
  BY DEF IInv, Calls
<1>1. CASE OnReadDone(c)
  BY <1>0, <1>1, ServerAssumption, ZenonT(60)
     DEF Codes, IInv, TypeOK, ControlInv, OnReadDone, Finish, Proceed, Goto, Calls
<1>2. CASE OpenForWriting(c)
  <2>1. CASE Finish(c, "INTERNAL") /\ UNCHANGED <<fileVars, inode, deletes, log>>
    BY <1>0, <1>2, <2>1, ServerAssumption
       DEF Codes, IInv, TypeOK, ControlInv, OpenForWriting, Finish, Goto, Calls
  <2>2. ASSUME ~(Finish(c, "INTERNAL") /\ UNCHANGED <<fileVars, inode, deletes, log>>)
        PROVE  IInv'
    <3>1. /\ pc[c] = "open" /\ pc' = [pc EXCEPT ![c] = "write"]
          /\ inode' = [inode EXCEPT ![c] = file']
          /\ UNCHANGED <<received, stored, got, eof, status_, deletes, log, broken>>
      BY <1>2, <2>2 DEF OpenForWriting, Proceed, Goto
    <3>2. /\ contents' \in Seq(Seq(Data)) /\ Len(contents') >= Len(contents)
          /\ file' \in 1..Len(contents')
          /\ disturbed' \in [Calls -> BOOLEAN]
      <4>1. CASE file = 0
        <5>1. /\ contents' = Append(contents, <<>>)
              /\ file' = Len(contents) + 1 /\ UNCHANGED disturbed
          BY <1>2, <2>2, <4>1 DEF OpenForWriting
        <5>2. contents' \in Seq(Seq(Data)) /\ Len(contents') = Len(contents) + 1
          <6>1. contents \in Seq(Seq(Data)) /\ <<>> \in Seq(Data)
            BY <1>0 DEF TypeOK
          <6> QED  BY <5>1, <6>1
        <5> QED  BY <1>0, <5>1, <5>2 DEF TypeOK
      <4>2. CASE file # 0
        <5>1. /\ contents' = [contents EXCEPT ![file] = <<>>]
              /\ UNCHANGED file /\ Disturb(c, file, Calls)
          BY <1>2, <2>2, <4>2 DEF OpenForWriting, Truncate
        <5>2. contents \in Seq(Seq(Data)) /\ <<>> \in Seq(Data) /\ file \in 1..Len(contents)
          BY <1>0, <4>2 DEF TypeOK
        <5>3. contents' \in Seq(Seq(Data)) /\ Len(contents') = Len(contents)
          BY <5>1, <5>2, ExceptSeq
        <5> QED  BY <1>0, <5>1, <5>2, <5>3 DEF Disturb, TypeOK
      <4> QED  BY <4>1, <4>2
    <3>a. inode' \in [Calls -> 0..Len(contents')] /\ file' \in 0..Len(contents')
      BY <1>0, <3>1, <3>2 DEF TypeOK
    <3>3. TypeOK'
      BY <1>0, <3>1, <3>2, <3>a DEF TypeOK
    <3>4. ControlInv'
      BY <1>0, <3>1, <3>2, ServerAssumption DEF TypeOK, ControlInv, Calls
    <3> QED  BY <3>3, <3>4 DEF IInv
  <2> QED  BY <2>1, <2>2
<1>3. CASE WriteChunk(c)
  <2>1. PICK n \in stored[c]..(received[c] + 1) :
            /\ WriteOut(c, n)
            /\ \/ Proceed(c, "read")
               \/ Finish(c, "INTERNAL") /\ UNCHANGED <<deletes, log>>
    BY <1>3 DEF WriteChunk
  <2>2. /\ contents' \in Seq(Seq(Data)) /\ Len(contents') = Len(contents)
        /\ stored' = [stored EXCEPT ![c] = n]
        /\ disturbed' \in [Calls -> BOOLEAN]
    BY <1>0, <1>3, <2>1, WriteOutType DEF WriteChunk, ControlInv
  <2>3. /\ pc[c] = "write" /\ received' = [received EXCEPT ![c] = @ + 1]
        /\ pc' = [pc EXCEPT ![c] = "read"] \/ pc' = [pc EXCEPT ![c] = "finish"]
        /\ UNCHANGED <<file, inode, got, eof, deletes, log, broken>>
    BY <1>3, <2>1 DEF WriteChunk, Finish, Proceed, Goto
  <2>4. status_' \in [Calls -> Codes]
    BY <1>0, <2>1 DEF Codes, Finish, Proceed, TypeOK
  <2>5. /\ received' \in [Uploads -> Nat] /\ stored' \in [Uploads -> Nat]
        /\ \A d \in Uploads : stored'[d] <= received'[d] /\ received'[d] <= chunks[d]
    <3>1. received[c] < chunks[c] /\ n \in Nat /\ n <= received[c] + 1
      BY <1>0, <2>3 DEF TypeOK, ControlInv
    <3>2. /\ received \in [Uploads -> Nat] /\ stored \in [Uploads -> Nat]
          /\ \A d \in Uploads : stored[d] <= received[d] /\ received[d] <= chunks[d]
          /\ \A d \in Uploads : chunks[d] \in Nat
      BY <1>0, ServerAssumption DEF TypeOK
    <3> QED  BY <2>2, <2>3, <3>1, <3>2
  <2>6. TypeOK'
    BY <1>0, <2>2, <2>3, <2>4, <2>5 DEF TypeOK
  <2>7. ControlInv'
    <3>1. inode[c] # 0 /\ \A d \in Uploads : d # c => received'[d] = received[d]
      BY <1>0, <2>3 DEF TypeOK, ControlInv
    <3>2. pc'[c] \in {"read", "finish"} /\ \A d \in Calls : d # c => pc'[d] = pc[d]
      BY <1>0, <2>3 DEF TypeOK
    <3> QED  BY <1>0, <2>3, <3>1, <3>2 DEF ControlInv, Calls
  <2> QED  BY <2>6, <2>7 DEF IInv
<1> QED  BY <1>1, <1>2, <1>3

(* Sending, opening and reading in a download.                             *)
LEMMA DownloadKeeps ==
    ASSUME IInv, NEW c \in Downloads,
           OnWriteDone(c) \/ OpenForReading(c) \/ ReadChunk(c),
           UNCHANGED <<fileVars, uploadVars, broken>>
    PROVE  IInv'
<1> USE DEF fileVars, uploadVars, downloadVars
<1>0. TypeOK /\ ControlInv /\ c \in Calls
  BY DEF IInv, Calls
<1>1. CASE OnWriteDone(c)
  BY <1>0, <1>1, ServerAssumption, ZenonT(60)
     DEF Codes, IInv, TypeOK, ControlInv, OnWriteDone, Finish, Proceed, Goto, Calls
<1>2. CASE OpenForReading(c)
  <2>1. /\ UNCHANGED <<file, contents, disturbed, received, stored, got, eof, deletes, log, broken>>
        /\ pc[c] = "open"
        /\ \/ pc' = [pc EXCEPT ![c] = "finish"] /\ UNCHANGED inode
           \/ /\ pc' = [pc EXCEPT ![c] = "fetch"] /\ file # 0
              /\ inode' = [inode EXCEPT ![c] = file]
    BY <1>2 DEF OpenForReading, Finish, Proceed, Goto
  <2>2. status_' \in [Calls -> Codes]
    BY <1>0, <1>2 DEF Codes, OpenForReading, Finish, Proceed, TypeOK
  <2>3. TypeOK'
    BY <1>0, <2>1, <2>2, ZenonT(60) DEF TypeOK
  <2>4. ControlInv'
    BY <1>0, <2>1, ServerAssumption DEF TypeOK, ControlInv, Calls
  <2> QED  BY <2>3, <2>4 DEF IInv
<1>3. CASE ReadChunk(c)
  <2>1. Available(c) \in Seq(Data)
    BY <1>0, <1>3, AvailableData DEF ReadChunk, ControlInv
  <2>2. got' \in [Downloads -> Seq(Data)]
    <3>1. got[c] \in Seq(Data) /\ got[c] \o Available(c) \in Seq(Data)
      BY <1>0, <2>1, ConcatProperties DEF TypeOK
    <3>2. got' = got \/ got' = [got EXCEPT ![c] = got[c] \o Available(c)]
      BY <1>3 DEF ReadChunk
    <3> QED  BY <1>0, <3>1, <3>2 DEF TypeOK
  <2>3. /\ UNCHANGED <<file, contents, disturbed, received, stored, inode, deletes, log, broken>>
        /\ pc[c] = "fetch"
        /\ pc' = [pc EXCEPT ![c] = "finish"] \/ pc' = [pc EXCEPT ![c] = "send"]
    BY <1>3 DEF ReadChunk, Finish, Proceed, Goto
  <2>4. /\ status_' \in [Calls -> Codes]
        /\ eof' \in [Downloads -> BOOLEAN]
    <3>1. status_' \in [Calls -> Codes]
      BY <1>0, <1>3 DEF Codes, ReadChunk, Finish, Proceed, TypeOK
    <3>2. \/ eof' = eof
          \/ eof' = [eof EXCEPT ![c] = TRUE]
          \/ eof' = [eof EXCEPT ![c] = FALSE]
      BY <1>3 DEF ReadChunk
    <3> QED  BY <1>0, <3>1, <3>2 DEF TypeOK
  <2>5. \A d \in Downloads : d # c => got'[d] = got[d] /\ eof'[d] = eof[d]
    BY <1>0, <1>3 DEF ReadChunk, TypeOK
  <2>6. TypeOK'
    BY <1>0, <2>2, <2>3, <2>4 DEF TypeOK
  <2>7. ControlInv'
    BY <1>0, <2>3, <2>5, ServerAssumption DEF TypeOK, ControlInv, Calls
  <2> QED  BY <2>6, <2>7 DEF IInv
<1> QED  BY <1>1, <1>2, <1>3

(* The end of a call, its cancellation and the breaking of its connection. *)
LEMMA EndKeeps ==
    ASSUME IInv, NEW c \in Calls,
           \/ UploadDone(c) \/ DownloadDone(c) \/ DeleteDone(c)
           \/ Break(c)
           \/ /\ c \in Deletes /\ OnCancel(c)
              /\ UNCHANGED <<uploadVars, downloadVars, inode, broken>>
    PROVE  IInv'
<1> USE DEF fileVars, uploadVars, downloadVars
<1>0. TypeOK /\ ControlInv
  BY DEF IInv
<1>1. ASSUME Ended(c)
      PROVE  /\ log' \in [Calls -> Seq(Entry)]
             /\ deletes' \in [Calls -> 0..2]
             /\ \A d \in Calls : d # c => deletes'[d] = deletes[d]
             /\ pc' = [pc EXCEPT ![c] = "gone"]
             /\ UNCHANGED <<file, status_, inode, received, got, eof, broken>>
  <2>1. log' \in [Calls -> Seq(Entry)]
    BY <1>0, <1>1, LoggedType DEF Ended
  <2>2. deletes' \in [Calls -> 0..2]
    <3>1. deletes \in [Calls -> 0..2] /\ deletes[c] <= 1
      BY <1>0, <1>1 DEF Ended, TypeOK, ControlInv
    <3> QED  BY <1>1, <3>1 DEF Ended
  <2>3. \A d \in Calls : d # c => deletes'[d] = deletes[d]
    BY <1>0, <1>1 DEF Ended, TypeOK
  <2> QED  BY <1>1, <2>1, <2>2, <2>3 DEF Ended, Goto
<1>2. CASE UploadDone(c)
  <2>0. Ended(c)
    BY <1>0, <1>2, DoneEnds
  <2>1. PICK n \in stored[c]..received[c] : WriteOut(c, n)
    BY <1>2 DEF UploadDone
  <2>2. n \in stored[c]..(received[c] + 1) /\ (inode[c] # 0 \/ n = stored[c])
    BY <1>0, <1>2 DEF UploadDone, TypeOK, ControlInv
  <2>3. /\ contents' \in Seq(Seq(Data)) /\ Len(contents') = Len(contents)
        /\ stored' = [stored EXCEPT ![c] = n]
        /\ disturbed' \in [Calls -> BOOLEAN]
    BY <1>0, <1>2, <2>1, <2>2, WriteOutType DEF UploadDone
  <2>4. TypeOK'
    <3>1. /\ stored' \in [Uploads -> Nat]
          /\ \A d \in Uploads : stored'[d] <= received[d]
      BY <1>0, <1>2, <2>1, <2>3 DEF TypeOK, UploadDone
    <3> QED  BY <1>0, <1>1, <2>0, <2>3, <3>1 DEF TypeOK
  <2>5. ControlInv'
    BY <1>0, <1>1, <2>0 DEF TypeOK, ControlInv, Calls
  <2> QED  BY <2>4, <2>5 DEF IInv
<1>3. CASE DownloadDone(c) \/ DeleteDone(c)
  <2>1. Ended(c) /\ UNCHANGED <<contents, stored, disturbed>>
    BY <1>0, <1>3, DoneEnds DEF DownloadDone, DeleteDone
  <2>2. TypeOK'
    BY <1>0, <1>1, <2>1 DEF TypeOK
  <2>3. ControlInv'
    BY <1>0, <1>1, <2>1 DEF TypeOK, ControlInv, Calls
  <2> QED  BY <2>2, <2>3 DEF IInv
<1>4. CASE Break(c)
  BY <1>0, <1>4 DEF IInv, TypeOK, ControlInv, Break, Calls
<1>5. CASE /\ c \in Deletes /\ OnCancel(c)
           /\ UNCHANGED <<uploadVars, downloadVars, inode, broken>>
  <2>1. log' \in [Calls -> Seq(Entry)]
    BY <1>0, <1>5, LoggedType DEF OnCancel
  <2>2. /\ UNCHANGED <<file, contents, disturbed, received, stored, got, eof, inode,
                       pc, status_, broken>>
        /\ deletes[c] = 0 /\ deletes' = [deletes EXCEPT ![c] = 1]
    BY <1>5 DEF OnCancel
  <2>3. TypeOK'
    BY <1>0, <2>1, <2>2 DEF TypeOK
  <2>4. ControlInv'
    BY <1>0, <2>2 DEF TypeOK, ControlInv
  <2> QED  BY <2>3, <2>4 DEF IInv
<1> QED  BY <1>2, <1>3, <1>4, <1>5

(* Every step keeps the invariant of the control flow.                     *)
LEMMA ControlNext == IInv /\ [Next]_vars => IInv'
<1> SUFFICES ASSUME IInv, [Next]_vars PROVE IInv'
  OBVIOUS
<1>1. CASE UNCHANGED vars
  BY <1>1 DEF vars, fileVars, uploadVars, downloadVars, IInv, TypeOK, ControlInv
<1>2. ASSUME NEW c \in Calls, UploadStep(c) PROVE IInv'
  BY <1>2, StartKeeps, UploadKeeps DEF UploadStep
<1>3. ASSUME NEW c \in Calls, DownloadStep(c) PROVE IInv'
  BY <1>3, StartKeeps, DownloadKeeps DEF DownloadStep
<1>4. ASSUME NEW c \in Calls, DeleteStep(c) PROVE IInv'
  BY <1>4, StartKeeps, EndKeeps DEF DeleteStep
<1>5. ASSUME NEW c \in Calls,
             UploadDone(c) \/ DownloadDone(c) \/ DeleteDone(c) \/ Break(c)
      PROVE  IInv'
  BY <1>5, EndKeeps
<1> QED  BY <1>1, <1>2, <1>3, <1>4, <1>5 DEF Next, CallbackStep

(* The state of the callback server keeps its types, for any number of     *)
(* calls; in particular no upload stores what it has not received.         *)
THEOREM TypeCorrect == Spec => []TypeOK
<1>1. Spec => []IInv
  BY ControlInit, ControlNext, PTL DEF Spec
<1> QED  BY <1>1, PTL DEF IInv

-----------------------------------------------------------------------------
(* A step of one call is not seen in what is logged for another.           *)
LEMMA OthersUntouched ==
    ASSUME TypeOK, NEW c \in Calls, NEW d \in Calls, d # c,
           \/ UploadStep(c) \/ DownloadStep(c) \/ DeleteStep(c)
           \/ UploadDone(c) \/ DownloadDone(c) \/ DeleteDone(c)
           \/ Break(c)
    PROVE  /\ pc'[d] = pc[d] /\ log'[d] = log[d] /\ deletes'[d] = deletes[d]
           /\ status_'[d] = status_[d] /\ broken'[d] = broken[d]
<1>1. CASE UploadStep(c) \/ DownloadStep(c)
  BY <1>1 DEF TypeOK, UploadStep, StartUpload, OnReadDone, OpenForWriting, WriteChunk,
              DownloadStep, StartDownload, OnWriteDone, OpenForReading, ReadChunk,
              LogPrepare, Logged, Finish, Proceed, Goto
<1>2. CASE DeleteStep(c)
  BY <1>2 DEF TypeOK, DeleteStep, StartDelete, OnCancel,
              LogPrepare, LogAbort, LogCommit, Logged, Finish, Goto
<1>3. CASE UploadDone(c) \/ DownloadDone(c) \/ DeleteDone(c)
  <2>1. PICK code \in Codes : LogCommit(c, code)
    BY <1>3, DoneEnds DEF Ended
  <2>2. log'[d] = log[d]
    BY <2>1 DEF TypeOK, LogCommit, Logged
  <2> QED  BY <1>3, <2>2, DoneEnds DEF TypeOK, Ended, Goto
<1>4. CASE Break(c)
  BY <1>4 DEF TypeOK, Break
<1> QED  BY <1>1, <1>2, <1>3, <1>4

(* The audit trail of a call that is started, goes on, ends, or is         *)
(* cancelled.                                                              *)
LEMMA StepAudited ==
    ASSUME TypeOK, NEW c \in Calls, Audited(c),
           \/ UploadStep(c) \/ DownloadStep(c) \/ DeleteStep(c)
           \/ UploadDone(c) \/ DownloadDone(c) \/ DeleteDone(c)
           \/ Break(c)
    PROVE  Audited(c)'
<1>1. CASE StartUpload(c) \/ StartDownload(c) \/ StartDelete(c)
  <2>1. log[c] \in Seq(Entry) /\ log'[c] = Append(log[c], [type |-> "PREPARE", code |-> "OK"])
    BY <1>1 DEF TypeOK, StartUpload, StartDownload, StartDelete, LogPrepare, Logged
  <2>2. Len(log'[c]) = Len(log[c]) + 1
    BY <2>1 DEF Entry
  <2>3. pc[c] = "new" /\ pc'[c] \in {"read", "send", "finish"} /\ deletes' = deletes
    BY <1>1 DEF TypeOK, StartUpload, StartDownload, StartDelete, Finish, Goto
  <2>4. c \in Deletes /\ broken[c] => broken'[c]
    <3>1. ~Ended(c)
      BY <2>3 DEF Ended
    <3> QED  BY <1>1, <3>1, DoneEnds
                DEF UploadStep, DownloadStep, DeleteStep, Break, TypeOK
  <2> QED  BY <2>2, <2>3, <2>4 DEF Audited
<1>2. CASE \/ UploadStep(c) /\ ~StartUpload(c)
           \/ DownloadStep(c) /\ ~StartDownload(c)
  <2>1. /\ pc[c] \notin {"new", "gone"} /\ pc'[c] \notin {"new", "gone"}
        /\ log' = log /\ deletes' = deletes /\ broken' = broken
    BY <1>2 DEF TypeOK, UploadStep, OnReadDone, OpenForWriting, WriteChunk,
                DownloadStep, OnWriteDone, OpenForReading, ReadChunk,
                Finish, Proceed, Goto
  <2> QED  BY <2>1 DEF Audited
<1>3. CASE DeleteStep(c) /\ ~StartDelete(c)
  BY <1>3 DEF DeleteStep, OnCancel, Audited
<1>4. CASE c \in Deletes /\ deletes[c] = 1 /\ DoneOnFreed(c)
  BY <1>4 DEF DoneOnFreed, Audited
<1>5. CASE Done(c)
  <2>1. /\ pc[c] = "finish" /\ pc'[c] = "gone" /\ LogOutcome(c)
        /\ deletes'[c] = deletes[c] + 1
        /\ status_' = status_ /\ broken' = broken
    BY <1>5 DEF TypeOK, Done, Goto
  <2> DEFINE e == [type |-> "COMMIT", code |-> status_[c]]
  <2>2. log'[c] = Append(log[c], e) /\ e \in Entry /\ e.code = status_[c]
    <3>1. Logged(c, e)
      BY <2>1 DEF LogOutcome, LogAbort, LogCommit
    <3>2. log'[c] = Append(log[c], e)
      BY <3>1 DEF Logged, TypeOK
    <3> QED  BY <3>2 DEF TypeOK, Entry
  <2> HIDE DEF e
  <2>3. log[c] \in Seq(Entry) /\ deletes[c] \in Nat
    <3>1. log \in [Calls -> Seq(Entry)] /\ deletes \in [Calls -> 0..2]
      BY DEF TypeOK
    <3> QED  BY <3>1
  <2>4. Len(log'[c]) = Len(log[c]) + 1 /\ log'[c][Len(log[c]) + 1] = e
    BY <2>2, <2>3
  <2> QED  BY <2>1, <2>2, <2>3, <2>4 DEF Audited
<1>6. CASE Break(c)
  <2>1. /\ UNCHANGED <<pc, log, deletes, status_>>
        /\ broken[c] => broken'[c]
    BY <1>6 DEF Break, TypeOK
  <2> QED  BY <2>1 DEF Audited
<1> QED  BY <1>1, <1>2, <1>3, <1>4, <1>5, <1>6
            DEF UploadStep, DownloadStep, DeleteStep, UploadDone, DownloadDone,
                DeleteDone

(* The audit trail of AccessLogger is complete for any number of calls:    *)
(* one entry at the start, one with the status of the call at its end, and *)
(* the reactor deleted once; but for deletions the client breaks off.      *)
THEOREM EveryCallIsAudited == Spec => []AuditTrail
<1>1. AuditTrail <=> \A c \in Calls : Audited(c)
  BY DEF AuditTrail
<1>2. Init => AuditTrail
  BY <1>1 DEF Init, Audited
<1>3. IInv /\ AuditTrail /\ [Next]_vars => AuditTrail'
  <2> SUFFICES ASSUME IInv, AuditTrail, [Next]_vars, NEW d \in Calls PROVE Audited(d)'
    BY DEF AuditTrail
  <2>0. TypeOK /\ Audited(d)
    BY <1>1 DEF IInv
  <2>1. CASE UNCHANGED vars
    BY <2>0, <2>1 DEF vars, Audited
  <2>2. CASE Next
    <3>1. PICK c \in Calls :
              \/ UploadStep(c) \/ DownloadStep(c) \/ DeleteStep(c)
              \/ UploadDone(c) \/ DownloadDone(c) \/ DeleteDone(c)
              \/ Break(c)
      BY <2>2 DEF Next, CallbackStep
    <3>2. CASE d = c
      BY <2>0, <3>1, <3>2, StepAudited
    <3>3. CASE d # c
      BY <2>0, <3>1, <3>3, OthersUntouched DEF Audited
    <3> QED  BY <3>2, <3>3
  <2> QED  BY <2>1, <2>2
<1>4. Spec => []IInv
  BY ControlInit, ControlNext, PTL DEF Spec
<1> QED  BY <1>2, <1>3, <1>4, PTL DEF Spec

-----------------------------------------------------------------------------
(* An undisturbed upload's file is the one of that name, and holds what    *)
(* ofs_ has written out; it ends well only when it has received all.       *)
StoredInv(c) ==
    /\ inode[c] # 0 /\ ~disturbed[c] =>
           /\ file = inode[c]
           /\ contents[inode[c]] = [i \in 1..stored[c] |-> <<c, i>>]
    /\ pc[c] \in {"finish", "gone"} /\ status_[c] = "OK" /\ ~broken[c] =>
           received[c] = chunks[c]

(* An undisturbed download has read the beginning of its file, all of it   *)
(* at its eof and when it ends well.                                       *)
ReadInv(c) ==
    /\ inode[c] # 0 /\ ~disturbed[c] =>
           /\ Len(got[c]) <= Len(contents[inode[c]])
           /\ \A i \in 1..Len(got[c]) : got[c][i] = contents[inode[c]][i]
           /\ eof[c] => Len(got[c]) = Len(contents[inode[c]])
    /\ pc[c] \in {"finish", "gone"} /\ status_[c] = "OK" /\ ~broken[c] =>
           /\ inode[c] # 0
           /\ ~disturbed[c] => Len(got[c]) = Len(contents[inode[c]])

DataInv == (\A c \in Uploads : StoredInv(c)) /\ (\A c \in Downloads : ReadInv(c))

(* Writing out changes no file but the one that is written to, and marks   *)
(* the others that have that open.                                         *)
LEMMA WriteOutElsewhere ==
    ASSUME IInv, NEW c \in Uploads, NEW d \in Calls, d # c,
           NEW n \in stored[c]..(received[c] + 1), inode[c] # 0 \/ n = stored[c],
           WriteOut(c, n), inode[d] # 0, ~disturbed'[d]
    PROVE  ~disturbed[d] /\ contents'[inode[d]] = contents[inode[d]]
<1>1. CASE n = stored[c]
  BY <1>1 DEF WriteOut
<1>2. CASE n # stored[c]
  <2>1. /\ contents' = [contents EXCEPT ![inode[c]] = Written(c, stored[c] + 1, n)]
        /\ disturbed'[d] = (disturbed[d] \/ (d # c /\ d \in Calls /\ inode[d] = inode[c]))
    BY <1>2 DEF WriteOut, Disturb
  <2>2. ~disturbed[d] /\ inode[d] # inode[c]
    BY <2>1
  <2>3. inode[d] \in 1..Len(contents) /\ contents \in Seq(Seq(Data))
    BY DEF IInv, TypeOK
  <2> QED  BY <2>1, <2>2, <2>3
<1> QED  BY <1>1, <1>2

(* What a step of one call does to the file of another that it does not    *)
(* disturb.                                                                *)
LEMMA FileOfOther ==
    ASSUME IInv, NEW c \in Calls, NEW d \in Calls, d # c,
           \/ UploadStep(c) \/ DownloadStep(c) \/ DeleteStep(c)
           \/ UploadDone(c) \/ DownloadDone(c) \/ DeleteDone(c)
           \/ Break(c),
           inode[d] # 0, ~disturbed'[d]
    PROVE  /\ ~disturbed[d]
           /\ contents'[inode[d]] = contents[inode[d]]
           /\ d \in Uploads /\ file = inode[d] => file' = inode[d]
<1> USE DEF fileVars, uploadVars, downloadVars
<1>0. TypeOK /\ ControlInv
  BY DEF IInv
<1>1. CASE UNCHANGED fileVars
  BY <1>1
<1>2. CASE UploadStep(c) /\ OpenForWriting(c) /\ ~UNCHANGED fileVars
  <2>1. CASE file = 0
    <3>1. contents' = Append(contents, <<>>) /\ UNCHANGED disturbed
      BY <1>2, <2>1 DEF OpenForWriting
    <3>2. inode[d] \in 1..Len(contents) /\ contents \in Seq(Seq(Data))
      BY <1>0 DEF TypeOK
    <3>3. contents'[inode[d]] = contents[inode[d]]
      BY <3>1, <3>2
    <3> QED  BY <2>1, <3>1, <3>3
  <2>2. CASE file # 0
    <3>1. /\ contents' = [contents EXCEPT ![file] = <<>>] /\ file' = file
          /\ disturbed'[d] = (disturbed[d] \/ (d # c /\ d \in Calls /\ inode[d] = file))
      BY <1>2, <2>2 DEF OpenForWriting, Truncate, Disturb
    <3>2. ~disturbed[d] /\ inode[d] # file
      BY <3>1
    <3>3. inode[d] \in 1..Len(contents) /\ contents \in Seq(Seq(Data))
      BY <1>0 DEF TypeOK
    <3> QED  BY <3>1, <3>2, <3>3
  <2> QED  BY <2>1, <2>2
<1>3. CASE UploadStep(c) /\ WriteChunk(c)
  <2>1. PICK n \in stored[c]..(received[c] + 1) : WriteOut(c, n)
    BY <1>3 DEF WriteChunk
  <2>2. c \in Uploads /\ inode[c] # 0 /\ file' = file
    BY <1>0, <1>3 DEF UploadStep, WriteChunk, ControlInv
  <2> QED  BY <2>1, <2>2, WriteOutElsewhere
<1>4. CASE DeleteStep(c) /\ ~UNCHANGED fileVars
  <2>1. /\ UNCHANGED contents
        /\ disturbed'[d] = (disturbed[d] \/ (d # c /\ d \in Uploads /\ inode[d] = file))
    BY <1>4 DEF DeleteStep, StartDelete, OnCancel, Disturb
  <2> QED  BY <2>1
<1>5. CASE UploadDone(c)
  <2>1. PICK n \in stored[c]..received[c] : WriteOut(c, n)
    BY <1>5 DEF UploadDone
  <2>2. /\ c \in Uploads /\ file' = file
        /\ n \in stored[c]..(received[c] + 1) /\ (inode[c] # 0 \/ n = stored[c])
    BY <1>0, <1>5 DEF UploadDone, Done, TypeOK, ControlInv
  <2> QED  BY <2>1, <2>2, WriteOutElsewhere
<1> QED  BY <1>1, <1>2, <1>3, <1>4, <1>5
            DEF UploadStep, StartUpload, OnReadDone, DownloadStep,
                DownloadDone, DeleteDone, Done, DoneOnFreed, Break

(* The local state of other calls is their own.                            *)
LEMMA LocalsOfOther ==
    ASSUME TypeOK, NEW c \in Calls, NEW d \in Calls, d # c,
           \/ UploadStep(c) \/ DownloadStep(c) \/ DeleteStep(c)
           \/ UploadDone(c) \/ DownloadDone(c) \/ DeleteDone(c)
           \/ Break(c)
    PROVE  /\ inode'[d] = inode[d]
           /\ d \in Uploads => stored'[d] = stored[d] /\ received'[d] = received[d]
           /\ d \in Downloads => got'[d] = got[d] /\ eof'[d] = eof[d]
<1> USE DEF fileVars, uploadVars, downloadVars
<1>1. CASE UploadStep(c)
  BY <1>1 DEF TypeOK, UploadStep, StartUpload, OnReadDone, OpenForWriting, WriteChunk, WriteOut
<1>2. CASE DownloadStep(c)
  BY <1>2 DEF TypeOK, DownloadStep, StartDownload, OnWriteDone, OpenForReading, ReadChunk
<1>3. CASE DeleteStep(c) \/ Break(c) \/ DownloadDone(c) \/ DeleteDone(c)
  BY <1>3 DEF TypeOK, DeleteStep, Break, DownloadDone, DeleteDone, Done, DoneOnFreed
<1>4. CASE UploadDone(c)
  BY <1>4 DEF TypeOK, UploadDone, Done, WriteOut
<1> QED  BY <1>1, <1>2, <1>3, <1>4

(* Writing out the next chunks of an undisturbed upload appends them.      *)
LEMMA WriteOutAppends ==
    ASSUME IInv, NEW c \in Uploads,
           NEW n \in stored[c]..(received[c] + 1), inode[c] # 0,
           contents[inode[c]] = [i \in 1..stored[c] |-> <<c, i>>],
           WriteOut(c, n)
    PROVE  /\ contents'[inode[c]] = [i \in 1..n |-> <<c, i>>]
           /\ disturbed'[c] = disturbed[c]
<1> DEFINE old == [i \in 1..stored[c] |-> <<c, i>>]
<1>0. stored[c] \in Nat /\ n \in Nat /\ stored[c] <= n /\ c \in Calls
  BY DEF IInv, TypeOK, Calls
<1>1. CASE n = stored[c]
  BY <1>1 DEF WriteOut
<1>2. CASE n # stored[c]
  <2>1. inode[c] \in 1..Len(contents) /\ contents \in Seq(Seq(Data))
    BY <1>0 DEF IInv, TypeOK
  <2>2. contents'[inode[c]] = Written(c, stored[c] + 1, n)
    BY <1>2, <2>1 DEF WriteOut
  <2>3. Len(old) = stored[c] /\ \A i \in 1..stored[c] : old[i] = <<c, i>>
    BY <1>0
  <2>4. Written(c, stored[c] + 1, n) = [i \in 1..n |-> <<c, i>>]
    <3>1. contents[inode[c]] = old
      OBVIOUS
    <3>2. Written(c, stored[c] + 1, n) =
              [i \in 1..n |-> IF i \in (stored[c] + 1)..n THEN <<c, i>>
                              ELSE IF i <= stored[c] THEN old[i] ELSE Hole]
      <4> HIDE DEF old
      <4> QED  BY <1>0, <1>2, <2>3, <3>1 DEF Written
    <3>3. \A i \in 1..n : (IF i \in (stored[c] + 1)..n THEN <<c, i>>
                              ELSE IF i <= stored[c] THEN old[i] ELSE Hole) = <<c, i>>
      BY <1>0, <2>3
    <3> HIDE DEF old
    <3> QED  BY <3>2, <3>3
  <2>5. disturbed'[c] = disturbed[c]
    <3>1. disturbed'[c] = (disturbed[c] \/ (c # c /\ c \in Calls /\ inode[c] = inode[c]))
      BY <1>0, <1>2 DEF WriteOut, Disturb
    <3>2. disturbed[c] \in BOOLEAN
      BY <1>0 DEF IInv, TypeOK
    <3> QED  BY <3>1, <3>2
  <2> QED  BY <2>2, <2>4, <2>5
<1> QED  BY <1>1, <1>2

(* The steps of an upload keep what is known of its file.                  *)
LEMMA OwnStoredKept ==
    ASSUME IInv, NEW c \in Uploads, StoredInv(c),
           UploadStep(c) \/ UploadDone(c) \/ Break(c)
    PROVE  StoredInv(c)'
<1> USE DEF fileVars, uploadVars, downloadVars
<1>0. TypeOK /\ ControlInv /\ c \in Calls
  BY DEF IInv, Calls
<1>1. CASE UploadStep(c) /\ StartUpload(c)
  <2>1. inode'[c] = 0 /\ pc'[c] = "read"
    BY <1>0, <1>1 DEF StartUpload, Goto, TypeOK, ControlInv
  <2> QED  BY <2>1 DEF StoredInv
<1>2. CASE UploadStep(c) /\ OnReadDone(c)
  <2>1. /\ UNCHANGED <<fileVars, stored, received, inode, broken>>
        /\ \/ broken[c] \/ received[c] = chunks[c]
           \/ pc'[c] \in {"open", "write"}
    BY <1>0, <1>2 DEF UploadStep, OnReadDone, Proceed, Goto, TypeOK
  <2> QED  BY <2>1 DEF StoredInv
<1>3. CASE UploadStep(c) /\ OpenForWriting(c)
  <2>0. inode[c] = 0 /\ stored[c] = 0 /\ stored' = stored
    BY <1>0, <1>3 DEF OpenForWriting, TypeOK, ControlInv
  <2>1. CASE pc'[c] = "finish"
    <3>1. status_'[c] # "OK" /\ inode' = inode
      BY <1>0, <1>3, <2>1 DEF OpenForWriting, Finish, Proceed, Goto, TypeOK
    <3> QED  BY <2>0, <3>1 DEF StoredInv
  <2>2. CASE pc'[c] # "finish"
    <3>1. ~Finish(c, "INTERNAL")
      BY <1>0, <2>2 DEF Finish, Goto, TypeOK
    <3>2. /\ inode' = [inode EXCEPT ![c] = file'] /\ pc'[c] = "write"
          /\ IF file = 0 THEN contents' = Append(contents, <<>>) /\ file' = Len(contents) + 1
             ELSE contents' = [contents EXCEPT ![file] = <<>>] /\ file' = file
      BY <1>0, <1>3, <3>1 DEF OpenForWriting, Truncate, Proceed, Goto, TypeOK
    <3>3. contents \in Seq(Seq(Data)) /\ file \in 0..Len(contents) /\ inode'[c] = file'
      BY <1>0, <3>2 DEF TypeOK
    <3>4. contents'[file'] = <<>>
      BY <3>2, <3>3
    <3>5. <<>> = [i \in 1..0 |-> <<c, i>>]
      OBVIOUS
    <3> QED  BY <2>0, <3>2, <3>3, <3>4, <3>5 DEF StoredInv
  <2> QED  BY <2>1, <2>2
<1>4. ASSUME NEW n \in stored[c]..(received[c] + 1), WriteOut(c, n),
             inode[c] # 0, UNCHANGED <<file, inode>>
      PROVE  inode'[c] # 0 /\ ~disturbed'[c] =>
                 /\ file' = inode'[c]
                 /\ contents'[inode'[c]] = [i \in 1..stored'[c] |-> <<c, i>>]
  <2>1. stored'[c] = n
    BY <1>0, <1>4, WriteOutType DEF TypeOK
  <2>2. disturbed[c] => disturbed'[c]
    BY <1>0, <1>4 DEF WriteOut, Disturb
  <2> QED  BY <1>4, <2>1, <2>2, WriteOutAppends DEF StoredInv
<1>5. CASE UploadStep(c) /\ WriteChunk(c)
  <2>1. PICK n \in stored[c]..(received[c] + 1) : WriteOut(c, n)
    BY <1>5 DEF WriteChunk
  <2>2. inode[c] # 0 /\ UNCHANGED <<file, inode>>
    BY <1>0, <1>5 DEF WriteChunk, ControlInv
  <2>3. pc'[c] = "read" \/ status_'[c] # "OK"
    BY <1>0, <1>5 DEF WriteChunk, Finish, Proceed, Goto, TypeOK
  <2>4. pc'[c] = "read" => ~(pc'[c] \in {"finish", "gone"})
    OBVIOUS
  <2> QED  BY <1>4, <2>1, <2>2, <2>3, <2>4 DEF StoredInv
<1>6. CASE UploadDone(c)
  <2>1. PICK n \in stored[c]..received[c] : WriteOut(c, n)
    BY <1>6 DEF UploadDone
  <2>2. /\ n \in stored[c]..(received[c] + 1) /\ UNCHANGED <<file, inode>>
        /\ UNCHANGED <<received, status_, broken>> /\ pc[c] = "finish"
    BY <1>0, <1>6 DEF UploadDone, Done, TypeOK
  <2>3. CASE inode[c] # 0
    BY <1>4, <2>1, <2>2, <2>3 DEF StoredInv
  <2>4. CASE inode[c] = 0
    BY <2>2, <2>4 DEF StoredInv
  <2> QED  BY <2>3, <2>4
<1>7. CASE Break(c)
  <2>1. /\ UNCHANGED <<fileVars, uploadVars, inode, pc, status_>>
        /\ broken[c] => broken'[c]
    BY <1>0, <1>7 DEF Break, TypeOK
  <2> QED  BY <2>1 DEF StoredInv
<1> QED  BY <1>1, <1>2, <1>3, <1>5, <1>6, <1>7 DEF UploadStep

(* What a read finds follows what the download has.                        *)
LEMMA AvailableFollows ==
    ASSUME TypeOK, NEW c \in Downloads, inode[c] # 0,
           Len(got[c]) <= Len(contents[inode[c]]),
           eof[c] => Len(got[c]) = Len(contents[inode[c]])
    PROVE  LET data == contents[inode[c]]
               more == Available(c)
           IN  /\ Len(more) \in Nat /\ Len(got[c]) + Len(more) <= Len(data)
               /\ \A i \in 1..Len(more) : more[i] = data[Len(got[c]) + i]
               /\ Len(more) < ReadSize => Len(got[c]) + Len(more) = Len(data)
<1> DEFINE data == contents[inode[c]]
           more == Available(c)
           last == Len(got[c]) + ReadSize
           to == IF last < Len(data) THEN last ELSE Len(data)
<1>1. data \in Seq(Data) /\ Len(got[c]) \in Nat /\ Len(data) \in Nat
  BY ElementOfSeq, LenProperties DEF TypeOK, Calls
<1>2. ReadSize \in Nat /\ ReadSize > 0
  BY ServerAssumption
<1>3. CASE eof[c]
  <2>1. more = <<>> /\ Len(got[c]) = Len(data)
    BY <1>3 DEF Available
  <2> QED  BY <1>1, <1>2, <2>1
<1>4. CASE ~eof[c]
  <2>1. more = SubSeq(data, Len(got[c]) + 1, to)
    BY <1>4 DEF Available
  <2>2. /\ to \in Int /\ to >= Len(got[c]) /\ to <= Len(data)
        /\ to = Len(data) \/ to = Len(got[c]) + ReadSize
    BY <1>1, <1>2
  <2>3. \A i \in (Len(got[c]) + 1)..to : data[i] \in Data
    BY <1>1, <2>2, ElementOfSeq
  <2> HIDE DEF data, to, more
  <2>4. /\ Len(more) = IF Len(got[c]) + 1 <= to THEN to - (Len(got[c]) + 1) + 1 ELSE 0
        /\ \A i \in 1..(to - (Len(got[c]) + 1) + 1) :
               more[i] = data[(Len(got[c]) + 1) + i - 1]
    <3> DEFINE from == Len(got[c]) + 1
    <3>1. from \in Int /\ to \in Int /\ \A i \in from..to : data[i] \in Data
      BY <1>1, <2>2, <2>3
    <3>2. more = SubSeq(data, from, to)
      BY <2>1
    <3> HIDE DEF from
    <3>3. /\ Len(more) = IF from <= to THEN to - from + 1 ELSE 0
          /\ \A i \in 1..(to - from + 1) : more[i] = data[from + i - 1]
      BY <3>1, <3>2, SubSeqProperties
    <3> QED  BY <3>3 DEF from
  <2>5. Len(more) = to - Len(got[c])
    <3> DEFINE have == Len(got[c])
    <3>1. have \in Nat /\ to \in Int /\ to >= have
      BY <1>1, <2>2
    <3>2. Len(more) = IF have + 1 <= to THEN to - (have + 1) + 1 ELSE 0
      BY <2>4
    <3> HIDE DEF have
    <3>3. Len(more) = to - have
      BY <3>1, <3>2
    <3> QED  BY <3>3 DEF have
  <2>6. \A i \in 1..Len(more) : more[i] = data[Len(got[c]) + i]
    BY <1>1, <2>2, <2>4, <2>5
  <2>7. Len(more) \in Nat /\ Len(got[c]) + Len(more) <= Len(data)
    BY <1>1, <2>2, <2>5
  <2>8. Len(more) < ReadSize => Len(got[c]) + Len(more) = Len(data)
    BY <1>1, <1>2, <2>2, <2>5
  <2> QED  BY <2>6, <2>7, <2>8 DEF data, more
<1> QED  BY <1>3, <1>4

(* So what the download has then is still the beginning of its file.       *)
LEMMA AppendFollows ==
    ASSUME TypeOK, NEW c \in Downloads, inode[c] # 0,
           Len(got[c]) <= Len(contents[inode[c]]),
           \A i \in 1..Len(got[c]) : got[c][i] = contents[inode[c]][i],
           eof[c] => Len(got[c]) = Len(contents[inode[c]])
    PROVE  LET data == contents[inode[c]]
               read == got[c] \o Available(c)
           IN  /\ Len(read) <= Len(data)
               /\ \A i \in 1..Len(read) : read[i] = data[i]
               /\ Len(Available(c)) < ReadSize => Len(read) = Len(data)
<1> DEFINE data == contents[inode[c]]
           more == Available(c)
           read == got[c] \o more
<1>1. got[c] \in Seq(Data) /\ more \in Seq(Data) /\ Len(got[c]) \in Nat
  BY AvailableData DEF TypeOK
<1>2. /\ Len(more) \in Nat /\ Len(got[c]) + Len(more) <= Len(data)
      /\ \A i \in 1..Len(more) : more[i] = data[Len(got[c]) + i]
      /\ Len(more) < ReadSize => Len(got[c]) + Len(more) = Len(data)
  BY AvailableFollows
<1>a. \A i \in 1..Len(got[c]) : got[c][i] = data[i]
  OBVIOUS
<1> HIDE DEF data, more
<1>3. /\ Len(read) = Len(got[c]) + Len(more)
      /\ \A i \in 1..(Len(got[c]) + Len(more)) :
             read[i] = IF i <= Len(got[c]) THEN got[c][i] ELSE more[i - Len(got[c])]
  BY <1>1, ConcatProperties
<1> HIDE DEF read
<1>4. ASSUME NEW i \in 1..Len(read) PROVE read[i] = data[i]
  <2>1. CASE i <= Len(got[c])
    BY <1>1, <1>2, <1>3, <1>a, <2>1
  <2>2. CASE i > Len(got[c])
    <3>1. PICK j \in 1..Len(more) : j = i - Len(got[c]) /\ i = Len(got[c]) + j
      BY <1>1, <1>2, <1>3, <2>2
    <3>2. read[i] = more[j]
      BY <1>1, <1>3, <2>2, <3>1
    <3>3. more[j] = data[i]
      BY <1>2, <3>1
    <3> QED  BY <3>2, <3>3
  <2> QED  BY <1>1, <2>1, <2>2
<1>5. /\ Len(read) <= Len(data)
      /\ Len(more) < ReadSize => Len(read) = Len(data)
  BY <1>2, <1>3
<1> QED  BY <1>4, <1>5 DEF data, more, read

(* Reading a chunk, or the end of the file.                                *)
LEMMA ReadChunkKeeps ==
    ASSUME IInv, NEW c \in Downloads, ReadInv(c), ReadChunk(c),
           UNCHANGED <<fileVars, uploadVars, broken>>
    PROVE  ReadInv(c)'
<1> USE DEF fileVars, uploadVars, downloadVars
<1> DEFINE data == contents[inode[c]]
           more == Available(c)
<1>0. TypeOK /\ c \in Calls /\ inode[c] # 0 /\ got[c] \in Seq(Data)
  BY DEF IInv, Calls, ReadChunk, TypeOK, ControlInv
<1>1. UNCHANGED <<inode, broken, contents, disturbed>>
  BY DEF ReadChunk
<1>2. more \in Seq(Data)
  BY <1>0, AvailableData
<1>3. CASE HasMore(c) /\ Proceed(c, "send")
           /\ got' = [got EXCEPT ![c] = @ \o Available(c)]
           /\ eof' = [eof EXCEPT ![c] = Len(Available(c)) < ReadSize]
  <2>1. pc'[c] = "send"
    BY <1>0, <1>3 DEF Proceed, Goto, TypeOK
  <2>2. got'[c] = got[c] \o more /\ eof'[c] = (Len(more) < ReadSize)
    BY <1>0, <1>3 DEF TypeOK
  <2>3. ASSUME ~disturbed[c]
        PROVE  /\ Len(got'[c]) <= Len(data)
               /\ \A i \in 1..Len(got'[c]) : got'[c][i] = data[i]
               /\ eof'[c] => Len(got'[c]) = Len(data)
    <3>1. /\ Len(got[c]) <= Len(data) /\ \A i \in 1..Len(got[c]) : got[c][i] = data[i]
          /\ eof[c] => Len(got[c]) = Len(data)
      BY <1>0, <2>3 DEF ReadInv
    <3> QED  BY <1>0, <2>2, <3>1, AppendFollows, ZenonT(60)
  <2> QED  BY <1>1, <2>1, <2>3 DEF ReadInv
<1>4. CASE ~HasMore(c) /\ Finish(c, "OK") /\ UNCHANGED downloadVars
  <2>1. ~disturbed[c] => Len(got[c]) = Len(data)
    <3>1. more = <<>> /\ ReadSize > 0
      BY <1>4, ServerAssumption DEF HasMore
    <3>2. ASSUME ~disturbed[c] PROVE Len(got[c]) = Len(data)
      <4>1. Len(more) < ReadSize /\ Len(got[c]) + Len(more) = Len(got[c])
        BY <1>0, <3>1
      <4>2. /\ Len(got[c]) <= Len(data)
            /\ eof[c] => Len(got[c]) = Len(data)
        BY <1>0, <3>2 DEF ReadInv
      <4> QED  BY <1>0, <4>1, <4>2, AvailableFollows
    <3> QED  BY <3>2
  <2> QED  BY <1>0, <1>1, <1>4, <2>1 DEF ReadInv
<1>5. CASE Finish(c, "INTERNAL") /\ UNCHANGED downloadVars
  <2>1. status_'[c] # "OK"
    BY <1>0, <1>5 DEF Finish, TypeOK
  <2> QED  BY <1>1, <1>5, <2>1 DEF ReadInv
<1> QED  BY <1>3, <1>4, <1>5 DEF ReadChunk

(* The steps of a download keep what is known of what it has read.         *)
LEMMA OwnReadKept ==
    ASSUME IInv, NEW c \in Downloads, ReadInv(c),
           DownloadStep(c) \/ DownloadDone(c) \/ Break(c)
    PROVE  ReadInv(c)'
<1> USE DEF fileVars, uploadVars, downloadVars
<1>0. TypeOK /\ ControlInv /\ c \in Calls
  BY DEF IInv, Calls
<1>1. CASE DownloadStep(c) /\ StartDownload(c)
  <2>1. inode'[c] = 0 /\ pc'[c] = "send"
    BY <1>0, <1>1 DEF StartDownload, Goto, TypeOK, ControlInv
  <2> QED  BY <2>1 DEF ReadInv
<1>2. CASE DownloadStep(c) /\ OnWriteDone(c)
  <2>1. /\ UNCHANGED <<fileVars, got, eof, inode, broken>>
        /\ broken[c] \/ pc'[c] \in {"open", "fetch"}
    BY <1>0, <1>2 DEF DownloadStep, OnWriteDone, Proceed, Goto, TypeOK
  <2> QED  BY <2>1 DEF ReadInv
<1>3. CASE DownloadStep(c) /\ OpenForReading(c)
  <2>1. /\ UNCHANGED <<fileVars, got, eof, broken>>
        /\ inode[c] = 0 /\ got[c] = <<>> /\ ~eof[c]
    BY <1>0, <1>3 DEF DownloadStep, OpenForReading, ControlInv
  <2>2. \/ status_'[c] # "OK" /\ inode' = inode
        \/ /\ pc'[c] = "fetch" /\ file # 0
           /\ inode' = [inode EXCEPT ![c] = file]
    BY <1>0, <1>3 DEF OpenForReading, Finish, Proceed, Goto, TypeOK
  <2>3. CASE status_'[c] # "OK" /\ inode' = inode
    BY <2>1, <2>3 DEF ReadInv
  <2>4. CASE pc'[c] = "fetch" /\ file # 0 /\ inode' = [inode EXCEPT ![c] = file]
    <3>1. inode'[c] = file /\ file \in 1..Len(contents) /\ Len(contents[file]) \in Nat
      BY <1>0, <2>4, ElementOfSeq, LenProperties DEF TypeOK
    <3>2. Len(got'[c]) = 0 /\ ~eof'[c]
      BY <2>1
    <3> QED  BY <2>1, <2>4, <3>1, <3>2 DEF ReadInv
  <2> QED  BY <2>2, <2>3, <2>4
<1>4. CASE DownloadStep(c) /\ ReadChunk(c)
  BY <1>4, ReadChunkKeeps DEF DownloadStep
<1>5. CASE DownloadDone(c)
  <2>1. /\ UNCHANGED <<contents, disturbed, got, eof, inode, status_, broken>>
        /\ pc[c] = "finish"
    BY <1>5 DEF DownloadDone, Done
  <2> QED  BY <2>1 DEF ReadInv
<1>6. CASE Break(c)
  <2>1. /\ UNCHANGED <<fileVars, downloadVars, inode, pc, status_>>
        /\ broken[c] => broken'[c]
    BY <1>0, <1>6 DEF Break, TypeOK
  <2> QED  BY <2>1 DEF ReadInv
<1> QED  BY <1>1, <1>2, <1>3, <1>4, <1>5, <1>6 DEF DownloadStep

(* Every step keeps what is known of the data.                             *)
LEMMA DataNext == IInv /\ DataInv /\ [Next]_vars => DataInv'
<1> SUFFICES ASSUME IInv, DataInv, [Next]_vars PROVE DataInv'
  OBVIOUS
<1>0. TypeOK
  BY DEF IInv
<1>1. CASE UNCHANGED vars
  BY <1>1 DEF vars, fileVars, uploadVars, downloadVars, DataInv, StoredInv, ReadInv
<1>2. CASE Next
  <2>1. PICK c \in Calls :
            \/ UploadStep(c) \/ DownloadStep(c) \/ DeleteStep(c)
            \/ UploadDone(c) \/ DownloadDone(c) \/ DeleteDone(c)
            \/ Break(c)
    BY <1>2 DEF Next, CallbackStep
  <2>2. ASSUME NEW d \in Uploads PROVE StoredInv(d)'
    <3>0. StoredInv(d) /\ d \in Calls
      BY DEF DataInv, Calls
    <3>1. CASE d = c
      BY <2>1, <3>0, <3>1, OwnStoredKept, ServerAssumption
         DEF UploadStep, DownloadStep, DeleteStep, UploadDone, DownloadDone, DeleteDone
    <3>2. CASE d # c
      <4>1. /\ pc'[d] = pc[d] /\ status_'[d] = status_[d] /\ broken'[d] = broken[d]
            /\ inode'[d] = inode[d] /\ stored'[d] = stored[d]
            /\ received'[d] = received[d]
        BY <1>0, <2>1, <3>0, <3>2, OthersUntouched, LocalsOfOther
      <4>2. ASSUME inode[d] # 0, ~disturbed'[d]
            PROVE  /\ ~disturbed[d] /\ contents'[inode[d]] = contents[inode[d]]
                   /\ file = inode[d] => file' = inode[d]
        BY <2>1, <3>0, <3>2, <4>2, FileOfOther
      <4> QED  BY <3>0, <4>1, <4>2 DEF StoredInv
    <3> QED  BY <3>1, <3>2
  <2>3. ASSUME NEW d \in Downloads PROVE ReadInv(d)'
    <3>0. ReadInv(d) /\ d \in Calls
      BY DEF DataInv, Calls
    <3>1. CASE d = c
      BY <2>1, <3>0, <3>1, OwnReadKept, ServerAssumption
         DEF UploadStep, DownloadStep, DeleteStep, UploadDone, DownloadDone, DeleteDone
    <3>2. CASE d # c
      <4>1. /\ pc'[d] = pc[d] /\ status_'[d] = status_[d] /\ broken'[d] = broken[d]
            /\ inode'[d] = inode[d] /\ got'[d] = got[d] /\ eof'[d] = eof[d]
        BY <1>0, <2>1, <3>0, <3>2, OthersUntouched, LocalsOfOther
      <4>2. ASSUME inode[d] # 0, ~disturbed'[d]
            PROVE  ~disturbed[d] /\ contents'[inode[d]] = contents[inode[d]]
        BY <2>1, <3>0, <3>2, <4>2, FileOfOther
      <4> QED  BY <3>0, <4>1, <4>2 DEF ReadInv
    <3> QED  BY <3>1, <3>2
  <2> QED  BY <2>2, <2>3 DEF DataInv
<1> QED  BY <1>1, <1>2

(* What is known of the data holds in every state.                         *)
LEMMA DataAlways == Spec => [](IInv /\ DataInv)
<1>1. Init => DataInv
  BY DEF Init, DataInv, StoredInv, ReadInv, Calls
<1>2. IInv /\ DataInv /\ [Next]_vars => IInv' /\ DataInv'
  BY ControlNext, DataNext
<1> QED  BY <1>1, <1>2, ControlInit, PTL DEF Spec

(* An upload that succeeds, disturbed by no other call, leaves exactly its *)
(* chunks in the file of that name, for any number of concurrent calls.    *)
THEOREM UploadsAreStored == Spec => []UploadStored
<1>1. IInv /\ DataInv => UploadStored
  <2> SUFFICES ASSUME IInv, DataInv, NEW c \in Uploads,
                      Succeeded(c), chunks[c] > 0, ~disturbed[c], stored[c] = received[c]
               PROVE  /\ file = inode[c]
                      /\ contents[file] = [i \in 1..chunks[c] |-> <<c, i>>]
    BY DEF UploadStored
  <2>1. StoredInv(c) /\ chunks[c] \in Nat /\ (inode[c] = 0 => received[c] = 0)
    BY ServerAssumption DEF IInv, DataInv, ControlInv
  <2>2. received[c] = chunks[c]
    BY <2>1 DEF Succeeded, StoredInv
  <2>3. inode[c] # 0
    BY <2>1, <2>2
  <2> QED  BY <2>1, <2>2, <2>3 DEF StoredInv
<1> QED  BY <1>1, DataAlways, PTL

(* A download that succeeds, while nobody writes to its file, has sent     *)
(* that file whole, for any size of file and of buffer_.                   *)
THEOREM DownloadsAreIntact == Spec => []DownloadIntact
<1>1. IInv /\ DataInv => DownloadIntact
  <2> SUFFICES ASSUME IInv, DataInv, NEW c \in Downloads, Succeeded(c), ~disturbed[c]
               PROVE  got[c] = contents[inode[c]]
    BY DEF DownloadIntact
  <2>1. ReadInv(c) /\ inode[c] # 0
    BY DEF DataInv, ReadInv, Succeeded
  <2>2. /\ Len(got[c]) = Len(contents[inode[c]])
        /\ \A i \in 1..Len(got[c]) : got[c][i] = contents[inode[c]][i]
    BY <2>1 DEF ReadInv, Succeeded
  <2>3. got[c] \in Seq(Data) /\ contents[inode[c]] \in Seq(Data)
    BY <2>1, ElementOfSeq DEF IInv, TypeOK, Calls
  <2> QED  BY <2>2, <2>3, SeqEqual
<1> QED  BY <1>1, DataAlways, PTL
=============================================================================
