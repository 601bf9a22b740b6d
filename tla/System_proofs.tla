---------------------------- MODULE System_proofs ----------------------------
(***************************************************************************)
(* Proofs about the two servers together, and about them with their        *)
(* clients, for any calls, however they are divided between the servers.   *)
(* Most steps of a handler of NaiveServer are steps a reactor of the       *)
(* callback server takes as well, and FileServer_proofs has shown what     *)
(* those do; what is left to show are the steps only a handler takes.      *)
(* With their clients the servers do nothing they could not do alone, so   *)
(* all this holds in System too, and what a client is told of its call is  *)
(* true.                                                                   *)
(***************************************************************************)
EXTENDS System, FileServer_proofs

(* The steps no reactor takes.                                             *)
HandlerOnly(c) ==
    \/ c \in Uploads /\ EndUpload(c) /\ UNCHANGED <<downloadVars, deletes, broken>>
    \/ c \in Uploads /\ FailUpload(c) /\ UNCHANGED <<downloadVars, deletes, broken>>
    \/ /\ c \in Downloads /\ StartNaive(c)
       /\ UNCHANGED <<fileVars, uploadVars, downloadVars, inode, deletes, broken>>
    \/ c \in Downloads /\ FailDownload(c) /\ UNCHANGED <<fileVars, uploadVars, deletes, broken>>
    \/ c \in Downloads /\ FetchChunk(c) /\ UNCHANGED <<fileVars, uploadVars, deletes, broken>>
    \/ NaiveDeleteStep(c)
    \/ LoseReader(c)

(* A handler's step is one of these, or one a reactor could take.          *)
LEMMA HandlerCases ==
    ASSUME NEW c \in Calls, NaiveStep(c)
    PROVE  \/ UploadStep(c) /\ ~OnReadDone(c) /\ deletes' = deletes
           \/ UploadStep(c) /\ ReadMore(c)
           \/ DownloadStep(c) /\ OpenForReading(c) /\ pc'[c] = "fetch"
           \/ HandlerOnly(c)
<1>1. CASE NaiveUploadStep(c)
  <2>1. ReadMore(c) => OnReadDone(c)
    BY DEF ReadMore, OnReadDone, uploadVars
  <2>2. StartUpload(c) \/ OpenForWriting(c) \/ WriteChunk(c) => pc[c] # "read"
    BY DEF StartUpload, OpenForWriting, WriteChunk
  <2>3. OnReadDone(c) => pc[c] = "read"
    BY DEF OnReadDone
  <2> QED  BY <1>1, <2>1, <2>2, <2>3
              DEF NaiveUploadStep, UploadStep, OpenUpload, WriteUpload, HandlerOnly
<1>2. CASE NaiveDownloadStep(c)
  BY <1>2 DEF NaiveDownloadStep, DownloadStep, OpenDownload, HandlerOnly
<1>3. CASE NaiveDeleteStep(c)
  BY <1>3 DEF HandlerOnly
<1> QED  BY <1>1, <1>2, <1>3 DEF NaiveStep

(* All steps of the two servers.                                           *)
LEMMA ServersCases ==
    ASSUME ServersNext
    PROVE  \E c \in Calls : CallbackStep(c) \/ Break(c) \/ HandlerOnly(c)
<1>1. PICK c \in Calls : ServerStep(c) \/ Lose(c)
  BY DEF ServersNext
<1>2. CASE Lose(c)
  BY <1>2 DEF Lose, HandlerOnly
<1>3. CASE ServerStep(c) /\ c \notin Naive
  BY <1>3 DEF ServerStep
<1>4. CASE ServerStep(c) /\ c \in Naive
  BY <1>4, HandlerCases DEF ServerStep, CallbackStep
<1> QED  BY <1>1, <1>2, <1>3, <1>4

-----------------------------------------------------------------------------
(* What a handler logs is an entry.                                        *)
LEMMA HandlerLogs ==
    ASSUME TypeOK, NEW c \in Calls, NEW code \in Codes,
           LogPrepare(c) \/ LogAbort(c, code) \/ LogCommit(c, code)
    PROVE  /\ log' \in [Calls -> Seq(Entry)]
           /\ log'[c] = Append(log[c], [type |-> "PREPARE", code |-> "OK"])
              \/ log'[c] = Append(log[c], [type |-> "COMMIT", code |-> code])
           /\ \A d \in Calls : d # c => log'[d] = log[d]
<1>1. PICK e \in Entry :
          /\ Logged(c, e)
          /\ \/ e = [type |-> "PREPARE", code |-> "OK"]
             \/ e = [type |-> "COMMIT", code |-> code]
  BY DEF LogPrepare, LogAbort, LogCommit, Entry, Codes
<1>2. log \in [Calls -> Seq(Entry)] /\ log' = [log EXCEPT ![c] = Append(@, e)]
  BY <1>1 DEF TypeOK, Logged
<1>3. Append(log[c], e) \in Seq(Entry)
  BY <1>2
<1> QED  BY <1>1, <1>2, <1>3

(* A handler that returns: where it is, its status and its log.            *)
LEMMA AnswerType ==
    ASSUME TypeOK, NEW c \in Calls, NEW code \in Codes, Answer(c, code)
    PROVE  /\ pc' = [pc EXCEPT ![c] = "gone"] /\ pc'[c] = "gone"
           /\ status_' \in [Calls -> Codes] /\ status_'[c] = code
           /\ \A d \in Calls : d # c => pc'[d] = pc[d] /\ status_'[d] = status_[d]
BY DEF Answer, Goto, TypeOK

(* The steps only a handler takes keep the types and what is known of a    *)
(* call at each point.                                                     *)
LEMMA HandlerKeeps ==
    ASSUME IInv, NEW c \in Calls, HandlerOnly(c)
    PROVE  IInv'
<1> USE DEF fileVars, uploadVars, downloadVars
<1>0. TypeOK /\ ControlInv /\ {"OK", "INTERNAL", "NOT_FOUND", "UNKNOWN"} = Codes
  BY DEF IInv, Codes
<1>1. CASE c \in Uploads /\ EndUpload(c) /\ UNCHANGED <<downloadVars, deletes, broken>>
  <2>1. PICK n \in stored[c]..received[c] : WriteOut(c, n)
    BY <1>1 DEF EndUpload, Close
  <2>2. n \in stored[c]..(received[c] + 1) /\ (inode[c] # 0 \/ n = stored[c])
    BY <1>0, <1>1, <2>1 DEF TypeOK, ControlInv
  <2>3. /\ contents' \in Seq(Seq(Data)) /\ Len(contents') = Len(contents)
        /\ stored' = [stored EXCEPT ![c] = n]
        /\ disturbed' \in [Calls -> BOOLEAN]
    BY <1>0, <1>1, <2>1, <2>2, WriteOutType
  <2>4. log' \in [Calls -> Seq(Entry)] /\ LogCommit(c, "OK") /\ Answer(c, "OK")
    BY <1>0, <1>1, HandlerLogs DEF EndUpload
  <2>5. pc' = [pc EXCEPT ![c] = "gone"] /\ status_' \in [Calls -> Codes]
    BY <1>0, <2>4, AnswerType
  <2>6. UNCHANGED <<file, received, inode, got, eof, deletes, broken>>
    BY <1>1 DEF EndUpload
  <2>7. /\ stored' \in [Uploads -> Nat]
        /\ \A d \in Uploads : stored'[d] <= received[d]
    BY <1>0, <1>1, <2>1, <2>3 DEF TypeOK
  <2>8. TypeOK'
    BY <1>0, <2>3, <2>4, <2>5, <2>6, <2>7 DEF TypeOK
  <2>9. ControlInv'
    BY <1>0, <2>5, <2>6 DEF TypeOK, ControlInv, Calls
  <2> QED  BY <2>8, <2>9 DEF IInv
<1>2. CASE \/ c \in Uploads /\ FailUpload(c) /\ UNCHANGED <<downloadVars, deletes, broken>>
           \/ c \in Downloads /\ FailDownload(c) /\ UNCHANGED <<fileVars, uploadVars, deletes, broken>>
  <2>1. PICK code \in Codes : Answer(c, code) /\ (LogAbort(c, code) \/ log' = log)
    BY <1>0, <1>2 DEF FailUpload, FailDownload, Throw
  <2>2. pc' = [pc EXCEPT ![c] = "gone"] /\ status_' \in [Calls -> Codes]
    BY <1>0, <2>1, AnswerType
  <2>3. log' \in [Calls -> Seq(Entry)]
    BY <1>0, <2>1, HandlerLogs DEF TypeOK
  <2>4. UNCHANGED <<file, contents, disturbed, received, stored, got, eof, inode, deletes, broken>>
    BY <1>2 DEF FailUpload, FailDownload
  <2>5. TypeOK'
    BY <1>0, <2>2, <2>3, <2>4 DEF TypeOK
  <2>6. ControlInv'
    BY <1>0, <2>2, <2>4 DEF TypeOK, ControlInv, Calls
  <2> QED  BY <2>5, <2>6 DEF IInv
<1>3. CASE StartNaive(c) /\ c \notin Uploads
           /\ UNCHANGED <<fileVars, uploadVars, downloadVars, inode, deletes, broken>>
  <2>1. log' \in [Calls -> Seq(Entry)]
    BY <1>0, <1>3, HandlerLogs DEF StartNaive
  <2>2. pc[c] = "new" /\ pc' = [pc EXCEPT ![c] = "open"] /\ status_' = status_
    BY <1>3 DEF StartNaive, Goto
  <2>3. TypeOK'
    BY <1>0, <1>3, <2>1, <2>2 DEF TypeOK
  <2>4. ControlInv'
    BY <1>0, <1>3, <2>2 DEF TypeOK, ControlInv, Calls
  <2> QED  BY <2>3, <2>4 DEF IInv
<1>4. CASE c \in Downloads /\ FetchChunk(c) /\ UNCHANGED <<fileVars, uploadVars, deletes, broken>>
  <2>1. /\ Available(c) \in Seq(Data)
        /\ pc[c] = "fetch" /\ inode[c] # 0 /\ c \notin Uploads
    BY <1>0, <1>4, AvailableData, ServerAssumption DEF FetchChunk, ControlInv
  <2>2. got' \in [Downloads -> Seq(Data)]
    <3>1. got[c] \in Seq(Data) /\ got[c] \o Available(c) \in Seq(Data)
      BY <1>0, <1>4, <2>1, ConcatProperties DEF TypeOK
    <3>2. got' = got \/ got' = [got EXCEPT ![c] = got[c] \o Available(c)]
      BY <1>4 DEF FetchChunk
    <3> QED  BY <1>0, <3>1, <3>2 DEF TypeOK
  <2>3. eof' \in [Downloads -> BOOLEAN]
    <3>1. \/ eof' = eof
          \/ eof' = [eof EXCEPT ![c] = TRUE]
          \/ eof' = [eof EXCEPT ![c] = FALSE]
      BY <1>4 DEF FetchChunk
    <3> QED  BY <1>0, <3>1 DEF TypeOK
  <2>4. /\ pc' = pc \/ pc' = [pc EXCEPT ![c] = "gone"]
        /\ status_' \in [Calls -> Codes] /\ log' \in [Calls -> Seq(Entry)]
    <3>1. CASE Proceed(c, "fetch")
      BY <1>0, <2>1, <3>1 DEF Proceed, Goto, TypeOK
    <3>2. CASE LogCommit(c, "OK") /\ Answer(c, "OK")
      BY <1>0, <3>2, HandlerLogs, AnswerType
    <3> QED  BY <1>4, <3>1, <3>2 DEF FetchChunk
  <2>5. \A d \in Downloads : d # c => got'[d] = got[d] /\ eof'[d] = eof[d]
    BY <1>0, <1>4 DEF FetchChunk, TypeOK
  <2>6. UNCHANGED <<file, contents, disturbed, received, stored, inode, deletes, broken>>
    BY <1>4 DEF FetchChunk
  <2>7. TypeOK'
    BY <1>0, <2>2, <2>3, <2>4, <2>6 DEF TypeOK
  <2>8. ControlInv'
    BY <1>0, <2>1, <2>4, <2>5, <2>6 DEF TypeOK, ControlInv, Calls
  <2> QED  BY <2>7, <2>8 DEF IInv
<1>5. CASE c \in Deletes /\ Remove(c)
           /\ UNCHANGED <<uploadVars, downloadVars, inode, deletes, broken>>
  <2>1. PICK code \in Codes : Answer(c, code) /\ (LogCommit(c, code) \/ log' = log)
    BY <1>0, <1>5 DEF Remove, Throw
  <2>2. pc' = [pc EXCEPT ![c] = "gone"] /\ status_' \in [Calls -> Codes]
    BY <1>0, <2>1, AnswerType
  <2>3. log' \in [Calls -> Seq(Entry)]
    BY <1>0, <2>1, HandlerLogs DEF TypeOK
  <2>4. /\ UNCHANGED <<contents, received, stored, got, eof, inode, deletes, broken>>
        /\ file' = file \/ file' = 0
        /\ disturbed' = disturbed \/ Disturb(c, file, Uploads)
    BY <1>5 DEF Remove
  <2>5. disturbed' \in [Calls -> BOOLEAN] /\ file' \in 0..Len(contents)
    <3>1. disturbed' \in [Calls -> BOOLEAN]
      BY <1>0, <2>4 DEF Disturb, TypeOK
    <3>2. file' \in 0..Len(contents)
      BY <1>0, <2>4 DEF TypeOK
    <3> QED  BY <3>1, <3>2
  <2>6. TypeOK'
    BY <1>0, <2>2, <2>3, <2>4, <2>5 DEF TypeOK
  <2>7. ControlInv'
    BY <1>0, <2>2, <2>4 DEF TypeOK, ControlInv, Calls
  <2> QED  BY <2>6, <2>7 DEF IInv
<1>6. CASE LoseReader(c)
  BY <1>0, <1>6 DEF IInv, TypeOK, ControlInv, LoseReader, Calls
<1> QED  BY <1>1, <1>2, <1>3, <1>4, <1>5, <1>6, ServerAssumption
            DEF HandlerOnly, NaiveDeleteStep

(* Every step of the two servers keeps them.                               *)
LEMMA ServersControl == IInv /\ [ServersNext]_vars => IInv'
<1> SUFFICES ASSUME IInv, [ServersNext]_vars PROVE IInv'
  OBVIOUS
<1>1. CASE UNCHANGED vars
  BY <1>1, ControlNext
<1>2. CASE ServersNext
  <2>1. PICK c \in Calls : CallbackStep(c) \/ Break(c) \/ HandlerOnly(c)
    BY <1>2, ServersCases
  <2>2. CASE CallbackStep(c) \/ Break(c)
    BY <2>2, ControlNext DEF Next
  <2>3. CASE HandlerOnly(c)
    BY <2>3, HandlerKeeps
  <2> QED  BY <2>1, <2>2, <2>3
<1> QED  BY <1>1, <1>2

(* The state of the two servers keeps its types, for any calls.            *)
THEOREM ServersTypeCorrect == ServersSpec => []TypeOK
<1>1. ServersSpec => []IInv
  BY ControlInit, ServersControl, PTL DEF ServersSpec
<1> QED  BY <1>1, PTL DEF IInv

-----------------------------------------------------------------------------
(* A step of one call leaves alone what belongs to another.                *)
LEMMA HandlerLocals ==
    ASSUME TypeOK, NEW c \in Calls, NEW d \in Calls, d # c, HandlerOnly(c)
    PROVE  /\ pc'[d] = pc[d] /\ log'[d] = log[d] /\ deletes'[d] = deletes[d]
           /\ status_'[d] = status_[d] /\ broken'[d] = broken[d]
           /\ inode'[d] = inode[d]
           /\ d \in Uploads => stored'[d] = stored[d] /\ received'[d] = received[d]
           /\ d \in Downloads => got'[d] = got[d] /\ eof'[d] = eof[d]
<1> USE DEF fileVars, uploadVars, downloadVars, TypeOK,
            LogPrepare, LogAbort, LogCommit, Logged, Answer, Throw, Proceed, Goto
<1>1. CASE c \in Uploads /\ EndUpload(c) /\ UNCHANGED <<downloadVars, deletes, broken>>
  BY <1>1 DEF EndUpload, Close, WriteOut
<1>2. CASE \/ c \in Uploads /\ FailUpload(c) /\ UNCHANGED <<downloadVars, deletes, broken>>
           \/ c \in Downloads /\ FailDownload(c) /\ UNCHANGED <<fileVars, uploadVars, deletes, broken>>
  BY <1>2 DEF FailUpload, FailDownload
<1>3. CASE /\ StartNaive(c)
           /\ UNCHANGED <<fileVars, uploadVars, downloadVars, inode, deletes, broken>>
  BY <1>3 DEF StartNaive
<1>4. CASE c \in Downloads /\ FetchChunk(c) /\ UNCHANGED <<fileVars, uploadVars, deletes, broken>>
  BY <1>4 DEF FetchChunk
<1>5. CASE Remove(c) /\ UNCHANGED <<uploadVars, downloadVars, inode, deletes, broken>>
  BY <1>5 DEF Remove
<1>6. CASE LoseReader(c)
  BY <1>6 DEF LoseReader
<1> QED  BY <1>1, <1>2, <1>3, <1>4, <1>5, <1>6 DEF HandlerOnly, NaiveDeleteStep

(* What a handler alone does keeps the audit trail of its call.            *)
LEMMA HandlerAudited ==
    ASSUME TypeOK, NEW c \in Naive, NaiveAudited(c), NaiveStep(c) \/ Lose(c)
    PROVE  NaiveAudited(c)'
<1>0. c \in Calls /\ log[c] \in Seq(Entry) /\ {"OK", "INTERNAL", "NOT_FOUND", "UNKNOWN"} = Codes
  BY NaiveAssumption DEF TypeOK, Codes
<1>1. ASSUME pc[c] = "new", pc'[c] \in {"read", "open"}, LogPrepare(c), UNCHANGED deletes
      PROVE  NaiveAudited(c)'
  <2>1. log'[c] = Append(log[c], [type |-> "PREPARE", code |-> "OK"])
    BY <1>0, <1>1 DEF LogPrepare, Logged, TypeOK
  <2>2. Len(log'[c]) = Len(log[c]) + 1
    BY <1>0, <2>1 DEF Entry
  <2> QED  BY <1>1, <2>2 DEF NaiveAudited
<1>2. ASSUME NEW code \in Codes, pc[c] \notin {"new", "gone"}, Answer(c, code),
             \/ code # "UNKNOWN" /\ LogCommit(c, code)
             \/ code = "UNKNOWN" /\ log' = log,
             UNCHANGED deletes
      PROVE  NaiveAudited(c)'
  <2>1. pc'[c] = "gone" /\ status_'[c] = code /\ Len(log[c]) = 1 /\ deletes'[c] = 0
    BY <1>0, <1>2, AnswerType DEF NaiveAudited
  <2>2. CASE code = "UNKNOWN"
    BY <1>2, <2>1, <2>2 DEF NaiveAudited
  <2>3. CASE code # "UNKNOWN"
    <3> DEFINE e == [type |-> "COMMIT", code |-> code]
    <3>1. log'[c] = Append(log[c], e) /\ e \in Entry
      BY <1>0, <1>2, <2>3 DEF LogCommit, Logged, TypeOK, Entry
    <3>2. Len(log'[c]) = 2 /\ log'[c][2] = e
      <4> HIDE DEF e
      <4> QED  BY <1>0, <2>1, <3>1
    <3> QED  BY <2>1, <2>3, <3>2 DEF NaiveAudited
  <2> QED  BY <2>2, <2>3
<1>3. ASSUME pc[c] \notin {"new", "gone"}, pc'[c] \notin {"new", "gone"},
             UNCHANGED <<log, deletes>>
      PROVE  NaiveAudited(c)'
  BY <1>3 DEF NaiveAudited
<1>4. CASE NaiveUploadStep(c)
  <2>1. CASE StartUpload(c)
    BY <1>0, <1>1, <1>4, <2>1 DEF NaiveUploadStep, StartUpload, Goto, TypeOK
  <2>2. CASE EndUpload(c)
    BY <1>0, <1>2, <1>4, <2>2 DEF NaiveUploadStep, EndUpload
  <2>3. CASE FailUpload(c)
    <3>1. pc[c] = "open" /\ UNCHANGED deletes
      BY <1>4, <2>3 DEF NaiveUploadStep, FailUpload
    <3>2. CASE Throw(c)
      BY <1>0, <1>2, <3>1, <3>2 DEF Throw
    <3>3. CASE LogAbort(c, "INTERNAL") /\ Answer(c, "INTERNAL")
      BY <1>0, <1>2, <3>1, <3>3 DEF LogAbort, LogCommit
    <3> QED  BY <2>3, <3>2, <3>3 DEF FailUpload
  <2>4. CASE ReadMore(c) \/ OpenUpload(c) \/ WriteUpload(c)
    <3>1. pc[c] \in {"read", "open", "write"} /\ pc'[c] \in {"read", "open", "write"}
      BY <1>0, <2>4 DEF ReadMore, OpenUpload, WriteUpload, OpenForWriting, WriteChunk,
                        Proceed, Goto, TypeOK
    <3>2. log' = log
      BY <2>4 DEF ReadMore, OpenUpload, WriteUpload, OpenForWriting, WriteChunk,
                        Proceed, Finish
    <3> QED  BY <1>3, <1>4, <3>1, <3>2 DEF NaiveUploadStep
  <2> QED  BY <1>4, <2>1, <2>2, <2>3, <2>4 DEF NaiveUploadStep
<1>5. CASE NaiveDownloadStep(c)
  <2>1. CASE StartNaive(c)
    BY <1>0, <1>1, <1>5, <2>1 DEF NaiveDownloadStep, StartNaive, Goto, TypeOK
  <2>2. CASE FailDownload(c)
    BY <1>0, <1>2, <1>5, <2>2 DEF NaiveDownloadStep, FailDownload, LogAbort, LogCommit
  <2>3. CASE OpenDownload(c)
    BY <1>0, <1>3, <1>5, <2>3 DEF NaiveDownloadStep, OpenDownload, OpenForReading, Proceed, Finish
  <2>4. CASE FetchChunk(c)
    <3>1. pc[c] = "fetch" /\ UNCHANGED deletes
      BY <1>5, <2>4 DEF NaiveDownloadStep, FetchChunk
    <3>2. CASE Proceed(c, "fetch")
      BY <1>0, <1>3, <3>1, <3>2 DEF Proceed, Goto, TypeOK
    <3>3. CASE LogCommit(c, "OK") /\ Answer(c, "OK")
      BY <1>0, <1>2, <3>1, <3>3
    <3> QED  BY <2>4, <3>2, <3>3 DEF FetchChunk
  <2> QED  BY <1>5, <2>1, <2>2, <2>3, <2>4 DEF NaiveDownloadStep
<1>6. CASE NaiveDeleteStep(c)
  <2>1. CASE StartNaive(c)
    BY <1>0, <1>1, <1>6, <2>1 DEF NaiveDeleteStep, StartNaive, Goto, TypeOK
  <2>2. CASE Remove(c)
    <3>1. pc[c] = "open" /\ UNCHANGED deletes
      BY <1>6, <2>2 DEF NaiveDeleteStep, Remove
    <3>2. CASE Throw(c)
      BY <1>0, <1>2, <3>1, <3>2 DEF Throw
    <3>3. CASE \E code \in {"OK", "NOT_FOUND"} : LogCommit(c, code) /\ Answer(c, code)
      BY <1>0, <1>2, <3>1, <3>3
    <3> QED  BY <2>2, <3>2, <3>3 DEF Remove
  <2> QED  BY <1>6, <2>1, <2>2 DEF NaiveDeleteStep
<1>7. CASE Lose(c)
  <2>1. UNCHANGED <<pc, log, deletes, status_>>
    BY <1>7 DEF Lose, Break, LoseReader
  <2> QED  BY <2>1 DEF NaiveAudited
<1> QED  BY <1>4, <1>5, <1>6, <1>7 DEF NaiveStep

(* The audit trail of both servers is complete, for any number of calls.   *)
THEOREM ServersAreAudited == ServersSpec => []ServersAudit
<1>1. Init => ServersAudit
  <2> SUFFICES ASSUME Init, NEW c \in Calls PROVE NaiveAudited(c) /\ Audited(c)
    BY DEF ServersAudit
  <2>1. pc[c] = "new" /\ deletes[c] = 0 /\ log[c] = <<>>
    BY DEF Init
  <2> QED  BY <2>1 DEF NaiveAudited, Audited
<1>2. IInv /\ ServersAudit /\ [ServersNext]_vars => ServersAudit'
  <2> SUFFICES ASSUME IInv, ServersAudit, [ServersNext]_vars, NEW d \in Calls
               PROVE  IF d \in Naive THEN NaiveAudited(d)' ELSE Audited(d)'
    BY DEF ServersAudit
  <2>0. TypeOK /\ (IF d \in Naive THEN NaiveAudited(d) ELSE Audited(d))
    BY DEF IInv, ServersAudit
  <2>1. CASE UNCHANGED vars
    BY <2>0, <2>1 DEF vars, NaiveAudited, Audited
  <2>2. CASE ServersNext
    <3>1. PICK c \in Calls : ServerStep(c) \/ Lose(c)
      BY <2>2 DEF ServersNext
    <3>2. CASE d = c /\ d \in Naive
      BY <2>0, <3>1, <3>2, HandlerAudited DEF ServerStep
    <3>3. CASE d = c /\ d \notin Naive
      <4>1. CallbackStep(c) \/ Break(c)
        BY <3>1, <3>3 DEF ServerStep, Lose, LoseReader
      <4> QED  BY <2>0, <3>3, <4>1, StepAudited DEF CallbackStep
    <3>4. CASE d # c
      <4>1. CallbackStep(c) \/ Break(c) \/ HandlerOnly(c)
        BY <3>1, HandlerCases DEF ServerStep, Lose, HandlerOnly, CallbackStep
      <4>2. /\ pc'[d] = pc[d] /\ log'[d] = log[d] /\ deletes'[d] = deletes[d]
            /\ status_'[d] = status_[d] /\ broken'[d] = broken[d]
        BY <2>0, <3>4, <4>1, OthersUntouched, HandlerLocals DEF CallbackStep
      <4> QED  BY <2>0, <4>2 DEF NaiveAudited, Audited
    <3> QED  BY <3>2, <3>3, <3>4
  <2> QED  BY <2>1, <2>2
<1>3. ServersSpec => []IInv
  BY ControlInit, ServersControl, PTL DEF ServersSpec
<1> QED  BY <1>1, <1>2, <1>3, PTL DEF ServersSpec

-----------------------------------------------------------------------------
(* What is known of an undisturbed naive download: ReadInv, but that it    *)
(* may end early.                                                          *)
PrefixInv(c) ==
    /\ inode[c] # 0 /\ ~disturbed[c] =>
           /\ Len(got[c]) <= Len(contents[inode[c]])
           /\ \A i \in 1..Len(got[c]) : got[c][i] = contents[inode[c]][i]
           /\ eof[c] => Len(got[c]) = Len(contents[inode[c]])
    /\ pc[c] = "gone" /\ status_[c] = "OK" => inode[c] # 0

ServersData ==
    /\ \A c \in Uploads : StoredInv(c)
    /\ \A c \in Downloads : IF c \in Naive THEN PrefixInv(c) ELSE ReadInv(c)

(* What a handler's step does to the file of a call that it does not       *)
(* disturb.                                                                *)
LEMMA HandlerFileOfOther ==
    ASSUME IInv, NEW c \in Calls, NEW d \in Calls, d # c, HandlerOnly(c),
           inode[d] # 0, ~disturbed'[d]
    PROVE  /\ ~disturbed[d]
           /\ contents'[inode[d]] = contents[inode[d]]
           /\ d \in Uploads /\ file = inode[d] => file' = inode[d]
<1> USE DEF fileVars, uploadVars, downloadVars
<1>0. TypeOK /\ ControlInv
  BY DEF IInv
<1>1. CASE UNCHANGED fileVars
  BY <1>1
<1>2. CASE c \in Uploads /\ EndUpload(c)
  <2>1. PICK n \in stored[c]..received[c] : WriteOut(c, n)
    BY <1>2 DEF EndUpload, Close
  <2>2. /\ file' = file
        /\ n \in stored[c]..(received[c] + 1) /\ (inode[c] # 0 \/ n = stored[c])
    BY <1>0, <1>2, <2>1 DEF EndUpload, TypeOK, ControlInv
  <2> QED  BY <1>2, <2>1, <2>2, WriteOutElsewhere
<1>3. CASE Remove(c) /\ ~UNCHANGED fileVars
  <2>1. /\ UNCHANGED contents
        /\ disturbed'[d] = (disturbed[d] \/ (d # c /\ d \in Uploads /\ inode[d] = file))
    BY <1>3 DEF Remove, Disturb
  <2> QED  BY <2>1
<1> QED  BY <1>1, <1>2, <1>3
            DEF HandlerOnly, NaiveDeleteStep, StartNaive, FailUpload, LoseReader

(* The steps of a naive upload keep what is known of its file.             *)
LEMMA HandlerStores ==
    ASSUME IInv, NEW c \in Uploads, StoredInv(c), HandlerOnly(c)
    PROVE  StoredInv(c)'
<1> USE DEF fileVars, uploadVars, downloadVars
<1>0. TypeOK /\ ControlInv /\ c \in Calls /\ c \notin Downloads /\ c \notin Deletes
  BY ServerAssumption DEF IInv, Calls
<1>1. CASE EndUpload(c) /\ UNCHANGED broken
  <2>1. PICK n \in stored[c]..received[c] : WriteOut(c, n)
    BY <1>1 DEF EndUpload, Close
  <2>2. /\ n \in stored[c]..(received[c] + 1) /\ (inode[c] # 0 \/ n = stored[c])
        /\ UNCHANGED <<file, inode, received, broken>>
        /\ broken[c] \/ received[c] = chunks[c]
    BY <1>0, <1>1, <2>1 DEF EndUpload, StreamEnded, TypeOK, ControlInv
  <2>3. stored'[c] = n /\ (disturbed[c] => disturbed'[c])
    BY <1>0, <2>1, <2>2, WriteOutType DEF TypeOK, WriteOut, Disturb
  <2> QED  BY <2>1, <2>2, <2>3, WriteOutAppends DEF StoredInv
<1>2. CASE FailUpload(c) /\ UNCHANGED broken
  <2>1. UNCHANGED <<fileVars, uploadVars, inode>> /\ status_'[c] # "OK"
    BY <1>0, <1>2 DEF FailUpload, Throw, Answer, TypeOK
  <2> QED  BY <2>1 DEF StoredInv
<1> QED  BY <1>0, <1>1, <1>2 DEF HandlerOnly, NaiveDeleteStep, LoseReader

(* The steps of a naive download keep what is known of what it has read.   *)
LEMMA HandlerReads ==
    ASSUME IInv, NEW c \in Downloads, PrefixInv(c),
           \/ HandlerOnly(c)
           \/ DownloadStep(c) /\ OpenForReading(c) /\ pc'[c] = "fetch"
           \/ Break(c)
    PROVE  PrefixInv(c)'
<1> USE DEF fileVars, uploadVars, downloadVars
<1>0. TypeOK /\ ControlInv /\ c \in Calls /\ c \notin Uploads /\ c \notin Deletes
  BY ServerAssumption DEF IInv, Calls
<1>1. CASE StartNaive(c) /\ UNCHANGED <<fileVars, downloadVars, inode>>
  <2>1. pc'[c] = "open"
    BY <1>0, <1>1 DEF StartNaive, Goto, TypeOK
  <2> QED  BY <1>1, <2>1 DEF PrefixInv
<1>2. CASE FailDownload(c) /\ UNCHANGED fileVars
  <2>1. status_'[c] # "OK" /\ UNCHANGED <<downloadVars, inode>>
    BY <1>0, <1>2 DEF FailDownload, Answer, TypeOK
  <2> QED  BY <1>2, <2>1 DEF PrefixInv
<1>3. CASE DownloadStep(c) /\ OpenForReading(c) /\ pc'[c] = "fetch"
  <2>1. /\ UNCHANGED <<fileVars, got, eof>>
        /\ inode[c] = 0 /\ got[c] = <<>> /\ ~eof[c]
    BY <1>0, <1>3 DEF DownloadStep, OpenForReading, ControlInv
  <2>2. file # 0 /\ inode' = [inode EXCEPT ![c] = file]
    BY <1>0, <1>3 DEF OpenForReading, Finish, Goto, TypeOK
  <2>3. inode'[c] = file /\ file \in 1..Len(contents) /\ Len(contents[file]) \in Nat
    BY <1>0, <2>2, ElementOfSeq, LenProperties DEF TypeOK
  <2>4. Len(got'[c]) = 0 /\ ~eof'[c]
    BY <2>1
  <2> QED  BY <1>3, <2>1, <2>3, <2>4 DEF PrefixInv
<1>4. CASE FetchChunk(c) /\ UNCHANGED fileVars
  <2>0. inode[c] # 0 /\ inode' = inode
    BY <1>0, <1>4 DEF FetchChunk, ControlInv
  <2>1. CASE HasMore(c) /\ got' = [got EXCEPT ![c] = @ \o Available(c)]
             /\ eof' = [eof EXCEPT ![c] = Len(Available(c)) < ReadSize]
             /\ Proceed(c, "fetch")
    <3>1. got'[c] = got[c] \o Available(c) /\ eof'[c] = (Len(Available(c)) < ReadSize)
      BY <1>0, <2>1 DEF TypeOK
    <3>2. pc'[c] = "fetch"
      BY <1>0, <2>1 DEF Proceed, Goto, TypeOK
    <3> QED  BY <1>0, <1>4, <2>0, <3>1, <3>2, AppendFollows, ZenonT(60) DEF PrefixInv
  <2>2. CASE ~HasMore(c) /\ eof' = [eof EXCEPT ![c] = TRUE] /\ UNCHANGED got
    <3>1. ASSUME ~disturbed[c] PROVE Len(got[c]) = Len(contents[inode[c]])
      <4>1. Available(c) = <<>> /\ ReadSize > 0 /\ got[c] \in Seq(Data)
        BY <1>0, <2>2, ServerAssumption DEF HasMore, TypeOK
      <4>2. Len(Available(c)) < ReadSize /\ Len(got[c]) + Len(Available(c)) = Len(got[c])
        BY <4>1
      <4> QED  BY <1>0, <2>0, <3>1, <4>2, AvailableFollows DEF PrefixInv
    <3> QED  BY <1>0, <1>4, <2>0, <2>2, <3>1 DEF PrefixInv
  <2>3. CASE UNCHANGED <<got, eof>>
    BY <1>4, <2>0, <2>3 DEF PrefixInv
  <2> QED  BY <1>4, <2>1, <2>2, <2>3 DEF FetchChunk
<1>5. CASE LoseReader(c) \/ Break(c)
  <2>1. UNCHANGED <<fileVars, downloadVars, inode, pc, status_>>
    BY <1>5 DEF LoseReader, Break
  <2> QED  BY <2>1 DEF PrefixInv
<1> QED  BY <1>0, <1>1, <1>2, <1>3, <1>4, <1>5 DEF HandlerOnly, NaiveDeleteStep

(* Every step of the two servers keeps what is known of the data.          *)
LEMMA ServersDataNext == IInv /\ ServersData /\ [ServersNext]_vars => ServersData'
<1> SUFFICES ASSUME IInv, ServersData, [ServersNext]_vars PROVE ServersData'
  OBVIOUS
<1>0. TypeOK
  BY DEF IInv
<1>1. CASE UNCHANGED vars
  BY <1>1 DEF vars, fileVars, uploadVars, downloadVars, ServersData, StoredInv, ReadInv, PrefixInv
<1>2. CASE ServersNext
  <2>1. PICK c \in Calls : ServerStep(c) \/ Lose(c)
    BY <1>2 DEF ServersNext
  <2>2. CallbackStep(c) \/ Break(c) \/ HandlerOnly(c)
    BY <2>1, HandlerCases DEF ServerStep, Lose, HandlerOnly, CallbackStep
  <2>3. ASSUME NEW d \in Calls, d # c
        PROVE  /\ pc'[d] = pc[d] /\ status_'[d] = status_[d] /\ broken'[d] = broken[d]
               /\ inode'[d] = inode[d]
               /\ d \in Uploads => stored'[d] = stored[d] /\ received'[d] = received[d]
               /\ d \in Downloads => got'[d] = got[d] /\ eof'[d] = eof[d]
               /\ inode[d] # 0 /\ ~disturbed'[d] =>
                     /\ ~disturbed[d] /\ contents'[inode[d]] = contents[inode[d]]
                     /\ d \in Uploads /\ file = inode[d] => file' = inode[d]
    <3>1. CASE CallbackStep(c) \/ Break(c)
      BY <1>0, <2>3, <3>1, OthersUntouched, LocalsOfOther, FileOfOther DEF CallbackStep
    <3>2. CASE HandlerOnly(c)
      BY <1>0, <2>3, <3>2, HandlerLocals, HandlerFileOfOther
    <3> QED  BY <2>2, <3>1, <3>2
  <2>4. ASSUME NEW d \in Uploads PROVE StoredInv(d)'
    <3>0. StoredInv(d) /\ d \in Calls /\ d \notin Downloads /\ d \notin Deletes
      BY ServerAssumption DEF ServersData, Calls
    <3>1. CASE d = c
      <4>1. CASE CallbackStep(c) \/ Break(c)
        BY <3>0, <3>1, <4>1, OwnStoredKept
           DEF CallbackStep, DownloadStep, DeleteStep, DownloadDone, DeleteDone
      <4>2. CASE HandlerOnly(c)
        BY <3>0, <3>1, <4>2, HandlerStores
      <4> QED  BY <2>2, <4>1, <4>2
    <3>2. CASE d # c
      BY <2>3, <3>0, <3>2 DEF StoredInv
    <3> QED  BY <3>1, <3>2
  <2>5. ASSUME NEW d \in Downloads
        PROVE  IF d \in Naive THEN PrefixInv(d)' ELSE ReadInv(d)'
    <3>0. /\ IF d \in Naive THEN PrefixInv(d) ELSE ReadInv(d)
          /\ d \in Calls /\ d \notin Uploads /\ d \notin Deletes
      BY ServerAssumption DEF ServersData, Calls
    <3>1. CASE d = c /\ d \notin Naive
      <4>1. CallbackStep(c) \/ Break(c)
        BY <2>1, <3>1 DEF ServerStep, Lose, LoseReader
      <4> QED  BY <3>0, <3>1, <4>1, OwnReadKept
                  DEF CallbackStep, UploadStep, DeleteStep, UploadDone, DeleteDone
    <3>2. CASE d = c /\ d \in Naive
      <4>1. \/ HandlerOnly(c)
            \/ DownloadStep(c) /\ OpenForReading(c) /\ pc'[c] = "fetch"
            \/ Break(c)
        BY <2>1, <3>0, <3>2, HandlerCases DEF ServerStep, Lose, HandlerOnly, UploadStep
      <4> QED  BY <3>0, <3>2, <4>1, HandlerReads
    <3>3. CASE d # c
      BY <2>3, <3>0, <3>3 DEF ReadInv, PrefixInv
    <3> QED  BY <3>1, <3>2, <3>3
  <2> QED  BY <2>4, <2>5 DEF ServersData
<1> QED  BY <1>1, <1>2

(* What is known of the data holds in every state.                         *)
LEMMA ServersDataAlways == ServersSpec => [](IInv /\ ServersData)
<1>1. Init => ServersData
  BY DEF Init, ServersData, StoredInv, ReadInv, PrefixInv, Calls
<1>2. IInv /\ ServersData /\ [ServersNext]_vars => IInv' /\ ServersData'
  BY ServersControl, ServersDataNext
<1> QED  BY <1>1, <1>2, ControlInit, PTL DEF ServersSpec

(* An upload that succeeds at either server, disturbed by no call to       *)
(* either, leaves exactly its chunks in the file of that name.             *)
THEOREM BothStoreUploads == ServersSpec => []UploadStored
<1>1. IInv /\ ServersData => UploadStored
  <2> SUFFICES ASSUME IInv, ServersData, NEW c \in Uploads,
                      Succeeded(c), chunks[c] > 0, ~disturbed[c], stored[c] = received[c]
               PROVE  /\ file = inode[c]
                      /\ contents[file] = [i \in 1..chunks[c] |-> <<c, i>>]
    BY DEF UploadStored
  <2>1. StoredInv(c) /\ chunks[c] \in Nat /\ (inode[c] = 0 => received[c] = 0)
    BY ServerAssumption DEF IInv, ServersData, ControlInv
  <2>2. received[c] = chunks[c]
    BY <2>1 DEF Succeeded, StoredInv
  <2>3. inode[c] # 0
    BY <2>1, <2>2
  <2> QED  BY <2>1, <2>2, <2>3 DEF StoredInv
<1> QED  BY <1>1, ServersDataAlways, PTL

(* A download that ends well at either server, while nobody writes to its  *)
(* file, has sent that file whole; at the naive server unless a read       *)
(* failed.                                                                 *)
THEOREM BothDownloadsIntact == ServersSpec => []DownloadsIntact
<1>1. IInv /\ ServersData => DownloadsIntact
  <2> SUFFICES ASSUME IInv, ServersData, NEW c \in Downloads, Succeeded(c), ~disturbed[c],
                      c \in Naive => eof[c]
               PROVE  got[c] = contents[inode[c]]
    BY DEF DownloadsIntact
  <2>1. /\ inode[c] # 0 /\ Len(got[c]) = Len(contents[inode[c]])
        /\ \A i \in 1..Len(got[c]) : got[c][i] = contents[inode[c]][i]
    <3>1. CASE c \in Naive
      BY <3>1 DEF ServersData, PrefixInv, Succeeded
    <3>2. CASE c \notin Naive
      BY <3>2 DEF ServersData, ReadInv, Succeeded
    <3> QED  BY <3>1, <3>2
  <2>2. got[c] \in Seq(Data) /\ contents[inode[c]] \in Seq(Data)
    BY <2>1, ElementOfSeq DEF IInv, TypeOK, Calls
  <2> QED  BY <2>1, <2>2, SeqEqual
<1> QED  BY <1>1, ServersDataAlways, PTL

-----------------------------------------------------------------------------
(* A step of the system is a step of the servers, or they do nothing.      *)
LEMMA StepImplements == [SystemNext]_systemVars => [ServersNext]_vars
BY DEF SystemNext, systemVars, ClientStep, Serve, HangUp, ServersNext

(* The system implements the servers' own specification, which knows of    *)
(* no client: they may count on no order of the clients' steps.            *)
THEOREM SystemImplementsServers == SystemSpec => ServersSpec
<1>1. SystemInit => Init
  BY DEF SystemInit
<1> QED  BY <1>1, StepImplements, PTL DEF SystemSpec, ServersSpec

-----------------------------------------------------------------------------
(* What is known of a client and its handler: the handler has only what    *)
(* was sent, and a client that was told of a success has the whole answer. *)
ToldInv(c) ==
    told[c] = "success" =>
        /\ status_[c] = "OK"
        /\ pc[c] = "gone" \/ (c \notin Naive /\ pc[c] = "finish")
        /\ cpc[c] = "done"
        /\ c \notin Deletes => ~broken[c]
        /\ c \in Downloads => taken[c] = Len(got[c])

ClientInv ==
    /\ SystemTypeOK
    /\ \A c \in Uploads : pc[c] \in {"open", "write"} => received[c] < sent[c]
    /\ \A c \in Calls : ToldInv(c)

(* Where a call that is answered can still go.                             *)
LEMMA AnsweredStays ==
    ASSUME TypeOK, NEW c \in Calls, ServerStep(c),
           pc[c] = "gone" \/ (c \notin Naive /\ pc[c] = "finish")
    PROVE  /\ pc'[c] = "gone" \/ (c \notin Naive /\ pc'[c] = "finish")
           /\ status_' = status_ /\ broken' = broken
           /\ received' = received /\ got' = got
<1>1. CASE c \in Naive
  <2>1. pc[c] = "gone"
    BY <1>1
  <2>2. ~NaiveUploadStep(c)
    BY <2>1 DEF NaiveUploadStep, StartUpload, EndUpload, ReadMore, FailUpload, OpenUpload,
                WriteUpload, OpenForWriting, WriteChunk
  <2>3. ~NaiveDownloadStep(c)
    BY <2>1 DEF NaiveDownloadStep, StartNaive, FailDownload, OpenDownload, FetchChunk,
                OpenForReading
  <2>4. ~NaiveDeleteStep(c)
    BY <2>1 DEF NaiveDeleteStep, StartNaive, Remove
  <2> QED  BY <1>1, <2>2, <2>3, <2>4 DEF ServerStep, NaiveStep
<1>2. CASE c \notin Naive
  <2>1. CallbackStep(c) /\ pc[c] \in {"finish", "gone"}
    BY <1>2 DEF ServerStep
  <2>2. ~UploadStep(c)
    BY <2>1 DEF UploadStep, StartUpload, OnReadDone, OpenForWriting, WriteChunk
  <2>3. ~DownloadStep(c)
    BY <2>1 DEF DownloadStep, StartDownload, OnWriteDone, OpenForReading, ReadChunk
  <2>4. CASE DeleteStep(c)
    BY <1>2, <2>1, <2>4 DEF DeleteStep, StartDelete, OnCancel, uploadVars, downloadVars
  <2>5. CASE UploadDone(c) \/ DownloadDone(c) \/ DeleteDone(c)
    BY <1>2, <2>5, DoneEnds DEF Ended, Goto, TypeOK, downloadVars
  <2> QED  BY <2>1, <2>2, <2>3, <2>4, <2>5 DEF CallbackStep
<1> QED  BY <1>1, <1>2

(* A handler's step receives at most one chunk, which it was about to      *)
(* write, and what it has sent grows.                                      *)
LEMMA ServeProgress ==
    ASSUME IInv, NEW c \in Calls, ServerStep(c)
    PROVE  /\ c \in Uploads =>
                 \/ received'[c] = received[c] /\ (pc'[c] \in {"open", "write"} =>
                        \/ pc[c] \in {"open", "write"}
                        \/ pc[c] = "read" /\ ~broken[c])
                 \/ /\ pc[c] = "write" /\ received'[c] = received[c] + 1
                    /\ pc'[c] \notin {"open", "write"}
           /\ c \in Downloads => Len(got[c]) <= Len(got'[c])
<1> USE DEF fileVars, uploadVars, downloadVars
<1>0. TypeOK /\ ControlInv
  BY DEF IInv
<1>1. CallbackStep(c) \/ HandlerOnly(c)
  BY HandlerCases DEF ServerStep, CallbackStep
<1>2. ASSUME c \in Downloads, inode[c] # 0,
             got' = [got EXCEPT ![c] = got[c] \o Available(c)]
      PROVE  Len(got[c]) <= Len(got'[c])
  <2>1. got[c] \in Seq(Data) /\ Available(c) \in Seq(Data) /\ got'[c] = got[c] \o Available(c)
    BY <1>0, <1>2, AvailableData DEF TypeOK
  <2>2. Len(got'[c]) = Len(got[c]) + Len(Available(c))
    BY <2>1, ConcatProperties
  <2>3. Len(got[c]) \in Nat /\ Len(Available(c)) \in Nat
    BY <2>1, LenProperties
  <2> QED  BY <2>2, <2>3
<1>3. CASE c \in Uploads
  <2>0. c \notin Downloads /\ c \notin Deletes
    BY <1>3, ServerAssumption
  <2>1. CASE UploadStep(c)
    BY <1>0, <1>3, <2>0, <2>1
       DEF UploadStep, StartUpload, OnReadDone, OpenForWriting, WriteChunk, Finish,
           Proceed, Goto, TypeOK, Calls
  <2>2. CASE UploadDone(c)
    BY <1>0, <2>0, <2>2 DEF UploadDone, Done, Goto, TypeOK
  <2>3. CASE (EndUpload(c) \/ FailUpload(c)) /\ UNCHANGED <<downloadVars, deletes, broken>>
    BY <1>0, <2>0, <2>3 DEF EndUpload, FailUpload, Throw, Answer, Goto, TypeOK
  <2> QED  BY <1>1, <2>0, <2>1, <2>2, <2>3
              DEF CallbackStep, HandlerOnly, DownloadStep, DeleteStep, DownloadDone,
                  DeleteDone, NaiveDeleteStep, LoseReader
<1>4. CASE c \in Downloads
  <2>0. c \notin Uploads /\ c \notin Deletes /\ Len(got[c]) <= Len(got[c])
    BY <1>0, <1>4, ServerAssumption DEF TypeOK
  <2>1. CASE DownloadStep(c) \/ DownloadDone(c)
    BY <1>0, <1>2, <1>4, <2>0, <2>1
       DEF DownloadStep, StartDownload, OnWriteDone, OpenForReading, ReadChunk,
           DownloadDone, Done, ControlInv
  <2>2. CASE HandlerOnly(c)
    BY <1>0, <1>2, <1>4, <2>0, <2>2
       DEF HandlerOnly, NaiveDeleteStep, StartNaive, FailDownload, FetchChunk,
           LoseReader, ControlInv
  <2> QED  BY <1>1, <2>0, <2>1, <2>2
              DEF CallbackStep, UploadStep, DeleteStep, UploadDone, DeleteDone
<1> QED  BY <1>3, <1>4, ServerAssumption

-----------------------------------------------------------------------------
(* A client's step keeps what is known.                                    *)
LEMMA ClientKeeps ==
    ASSUME IInv, ClientInv, NEW c \in Calls, ClientStep(c)
    PROVE  ClientInv'
<1> USE DEF fileVars, uploadVars, downloadVars, vars
<1>0. /\ TypeOK /\ TypeOK' /\ SystemTypeOK /\ \A d \in Calls : ToldInv(d)
      /\ \A d \in Uploads : d \in Calls
      /\ \A d \in Downloads : d \in Calls /\ Len(got[d]) \in Nat
      /\ \A d \in Uploads : chunks[d] \in Nat
      /\ ReadSize \in Nat
  <2>1. TypeOK /\ SystemTypeOK
    BY DEF ClientInv, SystemTypeOK
  <2>2. TypeOK'
    BY <2>1 DEF ClientStep, TypeOK
  <2>3. \A d \in Downloads : Len(got[d]) \in Nat
    BY <2>1 DEF TypeOK
  <2> QED  BY <2>1, <2>2, <2>3, ServerAssumption DEF ClientInv, Calls
<1>1. UNCHANGED <<pc, status_, broken, received, got, eof, log>>
  BY DEF ClientStep
<1>2. ASSUME cpc' \in [Calls -> {"idle", "uncalled", "send", "receive", "wait", "done"}],
             told' \in [Calls -> {"nothing", "success", "failure"}],
             sent' \in [Uploads -> Nat], taken' \in [Downloads -> Nat],
             \A d \in Uploads : sent[d] <= sent'[d] /\ sent'[d] <= chunks[d] + 1,
             \A d \in Downloads : taken'[d] <= Len(got[d]),
             \A d \in Calls : ToldInv(d)'
      PROVE  ClientInv'
  <2>1. \A d \in Uploads : received[d] <= sent'[d] /\ (received[d] < sent[d] => received[d] < sent'[d])
    BY <1>0, <1>2, SMTT(30) DEF SystemTypeOK, TypeOK
  <2>2. SystemTypeOK'
    BY <1>0, <1>1, <1>2, <2>1 DEF SystemTypeOK
  <2> QED  BY <1>1, <1>2, <2>1, <2>2 DEF ClientInv
<1>3. ASSUME NEW d \in Calls, told'[d] = told[d], cpc'[d] = cpc[d],
             d \in Downloads => taken'[d] = taken[d]
      PROVE  ToldInv(d)'
  BY <1>0, <1>1, <1>3 DEF ToldInv
<1>4. CASE MakeCall(c) \/ CannotStore(c) \/ FailCall(c)
  <2>1. /\ cpc' \in [Calls -> {"idle", "uncalled", "send", "receive", "wait", "done"}]
        /\ \A d \in Calls : d # c => cpc'[d] = cpc[d]
    <3>1. \E x \in {"uncalled", "send", "receive", "wait", "done"} :
              cpc' = [cpc EXCEPT ![c] = x]
      BY <1>4 DEF MakeCall, CannotStore, FailCall
    <3> QED  BY <1>0, <3>1 DEF SystemTypeOK
  <2>2. /\ told' \in [Calls -> {"nothing", "success", "failure"}]
        /\ \A d \in Calls : d # c => told'[d] = told[d]
        /\ told'[c] = told[c] \/ told'[c] = "failure"
    BY <1>0, <1>4 DEF MakeCall, CannotStore, FailCall, Tell, SystemTypeOK
  <2>3. UNCHANGED <<sent, taken>> /\ cpc[c] # "done"
    BY <1>4 DEF MakeCall, CannotStore, FailCall
  <2>4. ASSUME NEW d \in Calls PROVE ToldInv(d)'
    <3>1. CASE d # c
      BY <1>3, <2>1, <2>2, <2>3, <3>1
    <3>2. CASE d = c
      BY <1>0, <2>2, <2>3, <3>2 DEF ToldInv
    <3> QED  BY <3>1, <3>2
  <2>5. /\ \A d \in Uploads : sent[d] <= sent'[d] /\ sent'[d] <= chunks[d] + 1
        /\ \A d \in Downloads : taken'[d] <= Len(got[d])
        /\ sent' \in [Uploads -> Nat] /\ taken' \in [Downloads -> Nat]
    BY <1>0, <2>3 DEF SystemTypeOK
  <2> QED  BY <1>2, <2>1, <2>2, <2>4, <2>5
<1>5. CASE SendChunk(c) \/ WritesDone(c)
  <2>1. /\ c \in Uploads /\ cpc[c] = "send" /\ sent[c] <= chunks[c]
        /\ sent' = [sent EXCEPT ![c] = @ + 1] /\ UNCHANGED <<taken, told>>
        /\ cpc' = cpc \/ cpc' = [cpc EXCEPT ![c] = "wait"]
    BY <1>0, <1>5 DEF SendChunk, WritesDone, SystemTypeOK
  <2>2. cpc' \in [Calls -> {"idle", "uncalled", "send", "receive", "wait", "done"}]
    BY <1>0, <2>1 DEF SystemTypeOK
  <2>3. ASSUME NEW d \in Calls PROVE ToldInv(d)'
    <3>1. CASE d # c
      BY <1>0, <1>3, <2>1, <3>1 DEF SystemTypeOK
    <3>2. CASE d = c
      BY <1>0, <2>1, <3>2 DEF ToldInv
    <3> QED  BY <3>1, <3>2
  <2>4. /\ \A d \in Uploads : sent[d] <= sent'[d] /\ sent'[d] <= chunks[d] + 1
        /\ sent' \in [Uploads -> Nat]
    BY <1>0, <2>1 DEF SystemTypeOK
  <2> QED  BY <1>0, <1>2, <2>1, <2>2, <2>3, <2>4 DEF SystemTypeOK
<1>6. CASE ReceiveChunk(c)
  <2>1. /\ c \in Downloads /\ cpc[c] = "receive" /\ UNCHANGED <<cpc, sent, told>>
        /\ taken' \in [Downloads -> Nat]
        /\ \A d \in Downloads : taken'[d] <= Len(got[d]) /\ (d # c => taken'[d] = taken[d])
    BY <1>0, <1>6 DEF ReceiveChunk, SystemTypeOK
  <2>2. ASSUME NEW d \in Calls PROVE ToldInv(d)'
    <3>1. CASE d # c
      BY <1>3, <2>1, <3>1
    <3>2. CASE d = c
      BY <1>0, <2>1, <3>2 DEF ToldInv
    <3> QED  BY <3>1, <3>2
  <2>3. \A d \in Uploads : sent[d] <= sent'[d] /\ sent'[d] <= chunks[d] + 1
    BY <1>0, <2>1 DEF SystemTypeOK
  <2> QED  BY <1>0, <1>2, <2>1, <2>2, <2>3 DEF SystemTypeOK
<1>7. CASE Finished(c)
  <2>1. /\ Answered(c) /\ (c \in Downloads => taken[c] = Len(got[c]))
        /\ cpc' = [cpc EXCEPT ![c] = "done"] /\ UNCHANGED <<sent, taken>>
        /\ told' = [told EXCEPT ![c] = Outcome(c)]
        /\ Outcome(c) \in {"success", "failure"} /\ (Outcome(c) = "success" => status_[c] = "OK")
    BY <1>7 DEF Finished, Tell, Outcome
  <2>2. ASSUME NEW d \in Calls PROVE ToldInv(d)'
    <3>1. CASE d # c
      BY <1>0, <1>3, <2>1, <3>1 DEF SystemTypeOK
    <3>2. CASE d = c
      BY <1>0, <1>1, <2>1, <3>2 DEF ToldInv, Answered, SystemTypeOK
    <3> QED  BY <3>1, <3>2
  <2>3. /\ cpc' \in [Calls -> {"idle", "uncalled", "send", "receive", "wait", "done"}]
        /\ told' \in [Calls -> {"nothing", "success", "failure"}]
    BY <1>0, <2>1 DEF SystemTypeOK
  <2>4. /\ \A d \in Uploads : sent[d] <= sent'[d] /\ sent'[d] <= chunks[d] + 1
        /\ \A d \in Downloads : taken'[d] <= Len(got[d])
    BY <1>0, <2>1 DEF SystemTypeOK
  <2> QED  BY <1>0, <1>2, <2>1, <2>2, <2>3, <2>4 DEF SystemTypeOK
<1> QED  BY <1>4, <1>5, <1>6, <1>7 DEF ClientStep

(* So does a step of a server, and the loss of a connection.               *)
LEMMA ServeKeeps ==
    ASSUME IInv, IInv', ClientInv, NEW c \in Calls, Serve(c) \/ HangUp(c)
    PROVE  ClientInv'
<1> USE DEF fileVars, uploadVars, downloadVars, clientVars
<1>0. /\ TypeOK /\ TypeOK' /\ SystemTypeOK /\ UNCHANGED <<cpc, sent, taken, told>>
      /\ \A d \in Uploads : d \in Calls
      /\ \A d \in Downloads : d \in Calls
  BY DEF IInv, ClientInv, Serve, HangUp, Calls
<1>1. ASSUME NEW d \in Calls, d # c
      PROVE  /\ pc'[d] = pc[d] /\ status_'[d] = status_[d] /\ broken'[d] = broken[d]
             /\ d \in Uploads => received'[d] = received[d]
             /\ d \in Downloads => got'[d] = got[d]
  <2>1. CallbackStep(c) \/ Break(c) \/ HandlerOnly(c)
    BY HandlerCases DEF Serve, HangUp, ServerStep, Lose, HandlerOnly, CallbackStep
  <2> QED  BY <1>0, <1>1, <2>1, OthersUntouched, LocalsOfOther, HandlerLocals DEF CallbackStep
<1>2. CASE Serve(c)
  <2>1. /\ ServerStep(c)
        /\ c \in Uploads /\ pc[c] = "read" => broken[c] \/ received[c] < sent[c]
    BY <1>2 DEF Serve
  <2>2. ASSUME NEW d \in Uploads
        PROVE  /\ received'[d] <= sent[d]
               /\ pc'[d] \in {"open", "write"} => received'[d] < sent[d]
    <3>1. /\ received[d] <= sent[d] /\ (pc[d] \in {"open", "write"} => received[d] < sent[d])
          /\ received[d] \in Nat /\ sent[d] \in Nat
      BY <1>0 DEF ClientInv, SystemTypeOK, TypeOK
    <3>2. CASE d # c
      BY <1>0, <1>1, <3>1, <3>2
    <3>3. CASE d = c
      BY <2>1, <3>1, <3>3, ServeProgress
    <3> QED  BY <3>2, <3>3
  <2>3. ASSUME NEW d \in Downloads PROVE taken[d] <= Len(got'[d])
    <3>1. taken[d] <= Len(got[d]) /\ taken[d] \in Nat /\ Len(got[d]) \in Nat /\ Len(got'[d]) \in Nat
      BY <1>0 DEF SystemTypeOK, TypeOK
    <3>2. Len(got[d]) <= Len(got'[d])
      BY <1>0, <1>1, <2>1, <3>1, ServeProgress
    <3> QED  BY <3>1, <3>2
  <2>4. ASSUME NEW d \in Calls PROVE ToldInv(d)'
    <3>0. ToldInv(d)
      BY DEF ClientInv
    <3>1. CASE d # c
      BY <1>0, <1>1, <3>0, <3>1 DEF ToldInv
    <3>2. CASE d = c
      BY <1>0, <2>1, <3>0, <3>2, AnsweredStays DEF ToldInv
    <3> QED  BY <3>1, <3>2
  <2>5. SystemTypeOK'
    BY <1>0, <2>2, <2>3 DEF SystemTypeOK
  <2> QED  BY <1>0, <2>2, <2>4, <2>5 DEF ClientInv
<1>3. CASE HangUp(c)
  <2>1. /\ UNCHANGED <<pc, status_, received, got>>
        /\ pc[c] \notin {"finish", "gone"} \/ c \in Deletes
        /\ c \in Deletes => c \notin Uploads /\ c \notin Downloads
    BY <1>3, ServerAssumption DEF HangUp, Lose, Break, LoseReader
  <2>2. ASSUME NEW d \in Calls PROVE ToldInv(d)'
    BY <1>0, <1>1, <2>1 DEF ToldInv, ClientInv
  <2>3. SystemTypeOK'
    BY <1>0, <2>1 DEF SystemTypeOK
  <2> QED  BY <1>0, <2>1, <2>2, <2>3 DEF ClientInv
<1> QED  BY <1>2, <1>3

(* What is known of clients and handlers holds in every state.             *)
LEMMA ClientAlways == SystemSpec => [](IInv /\ ClientInv)
<1>1. SystemInit => IInv /\ ClientInv
  <2> SUFFICES ASSUME SystemInit PROVE IInv /\ ClientInv
    OBVIOUS
  <2>1. IInv
    BY ControlInit DEF SystemInit
  <2>2. SystemTypeOK
    <3>1. TypeOK
      BY <2>1 DEF IInv
    <3>2. \A c \in Uploads : received[c] = 0 /\ sent[c] = 0 /\ chunks[c] \in Nat
      BY ServerAssumption DEF SystemInit, Init
    <3>3. \A c \in Downloads : taken[c] = 0 /\ got[c] = << >>
      BY DEF SystemInit, Init
    <3>4. \A c \in Downloads : taken[c] <= Len(got[c])
      BY <3>3
    <3>5. /\ cpc \in [Calls -> {"idle", "uncalled", "send", "receive", "wait", "done"}]
          /\ sent \in [Uploads -> Nat]
          /\ taken \in [Downloads -> Nat]
          /\ told \in [Calls -> {"nothing", "success", "failure"}]
      BY DEF SystemInit
    <3> QED  BY <3>1, <3>2, <3>4, <3>5 DEF SystemTypeOK
  <2>3. \A c \in Calls : pc[c] = "new" /\ told[c] = "nothing"
    BY DEF SystemInit, Init
  <2> QED  BY <2>1, <2>2, <2>3 DEF ClientInv, ToldInv, Calls
<1>2. IInv /\ ClientInv /\ [SystemNext]_systemVars => IInv' /\ ClientInv'
  <2> SUFFICES ASSUME IInv, ClientInv, [SystemNext]_systemVars PROVE IInv' /\ ClientInv'
    OBVIOUS
  <2>1. IInv'
    BY StepImplements, ServersControl
  <2>2. CASE SystemNext
    BY <2>1, <2>2, ClientKeeps, ServeKeeps DEF SystemNext
  <2>3. CASE UNCHANGED systemVars
    <3>1. UNCHANGED vars /\ UNCHANGED clientVars
      BY <2>3 DEF systemVars
    <3>2. /\ UNCHANGED <<pc, status_, broken, received, got>>
          /\ UNCHANGED <<cpc, sent, taken, told>>
          /\ TypeOK' <=> TypeOK
      BY <3>1 DEF vars, fileVars, uploadVars, downloadVars, clientVars, TypeOK
    <3>3. SystemTypeOK'
      BY <3>2 DEF ClientInv, SystemTypeOK
    <3>4. ASSUME NEW c \in Calls PROVE ToldInv(c)'
      BY <3>2 DEF ClientInv, ToldInv
    <3> QED  BY <3>2, <3>3, <3>4, <2>1 DEF ClientInv
  <2> QED  BY <2>1, <2>2, <2>3
<1> QED  BY <1>1, <1>2, PTL DEF SystemSpec

(* The state of clients and servers keeps its types: no handler has        *)
(* received what was not sent, no client has read what was not served.     *)
THEOREM SystemTypeCorrect == SystemSpec => []SystemTypeOK
BY ClientAlways, PTL DEF ClientInv

(* Whoever is told of a success: the server has all of it, or the client.  *)
THEOREM SuccessIsTrue == SystemSpec => []SuccessIsEndToEnd
<1>1. IInv /\ ClientInv /\ ServersData /\ DownloadsIntact => SuccessIsEndToEnd
  <2> SUFFICES ASSUME IInv, ClientInv, ServersData, DownloadsIntact,
                      NEW c \in Calls, told[c] = "success"
               PROVE  /\ c \in Uploads => received[c] = chunks[c]
                      /\ c \in Downloads =>
                            /\ inode[c] # 0
                            /\ taken[c] = Len(got[c])
                            /\ ~disturbed[c] /\ (c \in Naive => eof[c])
                                  => got[c] = contents[inode[c]]
    BY DEF SuccessIsEndToEnd
  <2>1. /\ status_[c] = "OK"
        /\ pc[c] = "gone" \/ (c \notin Naive /\ pc[c] = "finish")
        /\ c \notin Deletes => ~broken[c]
        /\ c \in Downloads => taken[c] = Len(got[c])
    BY DEF ClientInv, ToldInv
  <2>2. CASE c \in Uploads
    BY <2>1, <2>2, ServerAssumption DEF ServersData, StoredInv
  <2>3. CASE c \in Downloads
    <3>0. c \notin Uploads /\ c \notin Deletes
      BY <2>3, ServerAssumption
    <3>1. inode[c] # 0
      BY <2>1, <2>3, <3>0 DEF ServersData, ReadInv, PrefixInv
    <3>2. ASSUME ~disturbed[c], c \in Naive => eof[c]
          PROVE  got[c] = contents[inode[c]]
      <4>1. /\ Len(got[c]) = Len(contents[inode[c]])
            /\ \A i \in 1..Len(got[c]) : got[c][i] = contents[inode[c]][i]
        BY <2>1, <2>3, <3>0, <3>1, <3>2 DEF ServersData, ReadInv, PrefixInv
      <4>2. got[c] \in Seq(Data) /\ contents[inode[c]] \in Seq(Data)
        BY <2>3, <3>1, ElementOfSeq DEF IInv, TypeOK, Calls
      <4> QED  BY <4>1, <4>2, SeqEqual
    <3> QED  BY <2>1, <2>3, <3>0, <3>1, <3>2
  <2>4. CASE c \in Deletes
    BY <2>4, ServerAssumption
  <2> QED  BY <2>2, <2>3, <2>4 DEF Calls
<1> QED  BY <1>1, ClientAlways, SystemImplementsServers, ServersDataAlways,
            BothDownloadsIntact, PTL

(* What the servers promise alone they promise with clients, on any        *)
(* connections: undisturbed files are stored and sent whole, every call is *)
(* audited.                                                                *)
THEOREM PromisesHoldInSystem ==
  SystemSpec => [](UploadStored /\ DownloadsIntact /\ ServersAudit)
BY SystemImplementsServers, BothStoreUploads, BothDownloadsIntact, ServersAreAudited,
   PTL

-----------------------------------------------------------------------------
(* Read your writes                                                        *)

(* A step marks nobody as disturbed, or whoever else has one file open.    *)
LEMMA DisturbCases ==
    ASSUME IInv, NEW c \in Calls, CallbackStep(c) \/ Break(c) \/ HandlerOnly(c)
    PROVE  \/ disturbed' = disturbed
           \/ \E f \in Nat \ {0} : Disturb(c, f, Calls) \/ Disturb(c, f, Uploads)
<1> USE DEF fileVars
<1>0. /\ TypeOK /\ ControlInv
      /\ file \in Nat /\ inode[c] \in Nat
      /\ \A d \in Uploads : stored[d] \in Nat /\ received[d] \in Nat
  BY DEF IInv, TypeOK
<1>1. ASSUME NEW n \in Nat, WriteOut(c, n), inode[c] # 0 \/ n = stored[c]
      PROVE  disturbed' = disturbed \/ \E f \in Nat \ {0} : Disturb(c, f, Calls)
  BY <1>0, <1>1 DEF WriteOut
<1>2. CASE UploadStep(c)
  <2>1. CASE StartUpload(c) \/ OnReadDone(c)
    BY <2>1 DEF StartUpload, OnReadDone
  <2>2. CASE OpenForWriting(c)
    BY <1>0, <2>2 DEF OpenForWriting
  <2>3. CASE WriteChunk(c)
    <3>1. PICK n \in stored[c]..(received[c] + 1) : WriteOut(c, n)
      BY <2>3 DEF WriteChunk
    <3>2. n \in Nat /\ inode[c] # 0
      BY <1>0, <1>2, <2>3, <3>1 DEF UploadStep, WriteChunk, ControlInv
    <3> QED  BY <1>1, <3>1, <3>2
  <2> QED  BY <1>2, <2>1, <2>2, <2>3 DEF UploadStep
<1>3. CASE UploadDone(c) \/ (c \in Uploads /\ EndUpload(c))
  <2>1. c \in Uploads
    BY <1>3 DEF UploadDone
  <2>2. PICK n \in stored[c]..received[c] : WriteOut(c, n)
    BY <1>3 DEF UploadDone, EndUpload, Close
  <2>3. n \in Nat /\ (inode[c] # 0 \/ n = stored[c])
    BY <1>0, <2>1, <2>2 DEF ControlInv
  <2> QED  BY <1>1, <2>2, <2>3
<1>4. CASE StartDelete(c) \/ Remove(c)
  BY <1>0, <1>4 DEF StartDelete, Remove
<1> QED  BY <1>2, <1>3, <1>4
            DEF CallbackStep, HandlerOnly, DownloadStep, DeleteStep, OnCancel,
                DownloadDone, DeleteDone, FailUpload, NaiveDeleteStep, LoseReader, Break

(* A download opens the file of that name, and disturbs nobody.            *)
LEMMA DownloadOpens ==
    ASSUME IInv, NEW d \in Downloads, CallbackStep(d) \/ Break(d) \/ HandlerOnly(d)
    PROVE  /\ disturbed' = disturbed
           /\ inode'[d] = inode[d] \/ (inode[d] = 0 /\ inode'[d] = file /\ file # 0)
<1> USE DEF fileVars
<1>1. d \notin Uploads /\ d \notin Deletes /\ inode \in [Calls -> 0..Len(contents)] /\ d \in Calls
  BY ServerAssumption DEF IInv, TypeOK, Calls
<1>2. pc[d] = "open" => inode[d] = 0
  BY <1>1 DEF IInv, ControlInv
<1>3. CASE DownloadStep(d)
  BY <1>1, <1>2, <1>3 DEF DownloadStep, StartDownload, OnWriteDone, OpenForReading, ReadChunk
<1>4. CASE HandlerOnly(d)
  BY <1>1, <1>4 DEF HandlerOnly, FailDownload, FetchChunk, NaiveDeleteStep, LoseReader
<1>5. CASE DownloadDone(d) \/ Break(d)
  BY <1>5 DEF DownloadDone, Done, Break
<1> QED  BY <1>1, <1>3, <1>4, <1>5 DEF CallbackStep, UploadStep, DeleteStep, UploadDone, DeleteDone

(* A call that is over takes no step any more.                             *)
LEMMA GoneIsOver ==
    ASSUME NEW c \in Calls, pc[c] = "gone", TypeOK
    PROVE  ~ServerStep(c) /\ ~Lose(c)
<1>1. ~CallbackStep(c)
  <2>1. ~Ended(c)
    BY DEF Ended
  <2> QED  BY <2>1, DoneEnds
              DEF CallbackStep, UploadStep, StartUpload, OnReadDone, OpenForWriting,
                  WriteChunk, DownloadStep, StartDownload, OnWriteDone, OpenForReading,
                  ReadChunk, DeleteStep, StartDelete, OnCancel
<1>2. ~NaiveStep(c)
  BY DEF NaiveStep, NaiveUploadStep, StartUpload, EndUpload, ReadMore, FailUpload,
         OpenUpload, WriteUpload, OpenForWriting, WriteChunk, NaiveDownloadStep,
         StartNaive, FailDownload, OpenDownload, FetchChunk, OpenForReading,
         NaiveDeleteStep, Remove
<1> QED  BY <1>1, <1>2 DEF ServerStep, Lose, LoseReader, Break

(* What is known of a download that is not called yet, or has no file.     *)
FreshInv(d) ==
    /\ cpc[d] = "idle" => pc[d] = "new"
    /\ inode[d] = 0 => ~disturbed[d]

LEMMA FreshNext ==
    ASSUME IInv, ClientInv, NEW d \in Downloads, FreshInv(d), [SystemNext]_systemVars
    PROVE  FreshInv(d)'
<1>0. d \in Calls /\ TypeOK /\ SystemTypeOK
  BY DEF IInv, ClientInv, Calls
<1>1. CASE UNCHANGED vars /\ (cpc'[d] = "idle" => cpc[d] = "idle")
  BY <1>1 DEF FreshInv, vars, fileVars
<1>2. ASSUME NEW c \in Calls, ClientStep(c) PROVE UNCHANGED vars /\ (cpc'[d] = "idle" => cpc[d] = "idle")
  BY <1>0, <1>2
     DEF ClientStep, MakeCall, CannotStore, SendChunk, WritesDone, ReceiveChunk, Finished,
         FailCall, SystemTypeOK
<1>3. ASSUME NEW c \in Calls, Serve(c) \/ HangUp(c) PROVE FreshInv(d)'
  <2>1. /\ CallbackStep(c) \/ Break(c) \/ HandlerOnly(c)
        /\ Called(c) /\ cpc' = cpc
    BY <1>3, HandlerCases
       DEF Serve, HangUp, ServerStep, Lose, HandlerOnly, CallbackStep, clientVars
  <2>2. CASE d = c
    BY <1>0, <2>1, <2>2, DownloadOpens DEF FreshInv, Called
  <2>3. CASE d # c
    <3>1. pc'[d] = pc[d] /\ inode'[d] = inode[d]
      BY <1>0, <2>1, <2>3, OthersUntouched, LocalsOfOther, HandlerLocals DEF CallbackStep
    <3>2. inode[d] = 0 => disturbed'[d] = disturbed[d]
      BY <1>0, <2>1, DisturbCases DEF Disturb, TypeOK
    <3> QED  BY <2>1, <3>1, <3>2 DEF FreshInv
  <2> QED  BY <2>2, <2>3
<1>4. CASE UNCHANGED systemVars
  BY <1>1, <1>4 DEF systemVars, clientVars
<1> QED  BY <1>1, <1>2, <1>3, <1>4 DEF SystemNext

(* From a success that was told on: as long as nobody disturbs the upload, *)
(* a download that is started later opens its file, which nobody changes.  *)
FollowsInv(u, d) ==
    /\ told[u] = "success" /\ pc[u] = "gone"
    /\ inode[u] # 0 /\ ~disturbed[u] /\ inode[d] # 0
           => inode[d] = inode[u] /\ ~disturbed[d]

LEMMA FollowsNext ==
    ASSUME IInv, ClientInv, ServersData, NEW u \in Uploads, NEW d \in Downloads,
           FreshInv(d), FollowsInv(u, d), [SystemNext]_systemVars
    PROVE  FollowsInv(u, d)'
<1>0. /\ u \in Calls /\ d \in Calls /\ u # d /\ TypeOK /\ SystemTypeOK
      /\ cpc[u] = "done" /\ StoredInv(u)
  BY ServerAssumption
     DEF IInv, ClientInv, ToldInv, ServersData, FollowsInv, Calls
<1>1. CASE UNCHANGED vars /\ told'[u] = told[u]
  BY <1>1 DEF FollowsInv, vars, fileVars
<1>2. ASSUME NEW c \in Calls, ClientStep(c) PROVE UNCHANGED vars /\ told'[u] = told[u]
  BY <1>0, <1>2
     DEF ClientStep, MakeCall, CannotStore, SendChunk, WritesDone, ReceiveChunk, Finished,
         FailCall, Tell, SystemTypeOK
<1>3. ASSUME NEW c \in Calls, Serve(c) \/ HangUp(c) PROVE FollowsInv(u, d)'
  <2>1. /\ CallbackStep(c) \/ Break(c) \/ HandlerOnly(c)
        /\ told' = told
    BY <1>3, HandlerCases
       DEF Serve, HangUp, ServerStep, Lose, HandlerOnly, CallbackStep, clientVars
  <2>2. c # u
    BY <1>0, <1>3, GoneIsOver DEF Serve, HangUp, FollowsInv
  <2>3. pc'[u] = pc[u] /\ inode'[u] = inode[u]
    BY <1>0, <2>1, <2>2, OthersUntouched, LocalsOfOther, HandlerLocals DEF CallbackStep
  <2>4. CASE d = c
    <3>1. /\ disturbed' = disturbed
          /\ inode'[d] = inode[d] \/ (inode[d] = 0 /\ inode'[d] = file /\ file # 0)
      BY <2>1, <2>4, DownloadOpens
    <3> QED  BY <1>0, <2>1, <2>3, <3>1 DEF FollowsInv, FreshInv, StoredInv
  <2>5. CASE d # c
    <3>1. inode'[d] = inode[d]
      BY <1>0, <2>1, <2>5, LocalsOfOther, HandlerLocals DEF CallbackStep
    <3>2. \/ disturbed' = disturbed
          \/ \E f \in Nat \ {0} : Disturb(c, f, Calls) \/ Disturb(c, f, Uploads)
      BY <2>1, DisturbCases
    <3>3. /\ disturbed[u] => disturbed'[u]
          /\ inode[d] = inode[u] /\ ~disturbed'[u] => disturbed'[d] = disturbed[d]
      BY <1>0, <2>2, <3>2 DEF Disturb, TypeOK
    <3> QED  BY <2>1, <2>3, <3>1, <3>3 DEF FollowsInv
  <2> QED  BY <2>4, <2>5
<1>4. CASE UNCHANGED systemVars
  BY <1>1, <1>4 DEF systemVars, clientVars
<1> QED  BY <1>1, <1>2, <1>3, <1>4 DEF SystemNext

(* Through either server, for any calls at once: a download started after  *)
(* the success of an upload was told receives what was uploaded.           *)
THEOREM ReadYourWrites == SystemSpec => DownloadsWhatWasUploaded
<1> SUFFICES ASSUME NEW u \in Uploads, NEW d \in Downloads
             PROVE  SystemSpec => [](ToldBefore(u, d) => []HasUpload(d, u))
  BY DEF DownloadsWhatWasUploaded
<1>1. SystemInit => FreshInv(d)
  BY DEF SystemInit, Init, FreshInv, Calls
<1>2. IInv /\ ClientInv /\ FreshInv(d) /\ [SystemNext]_systemVars => FreshInv(d)'
  BY FreshNext
<1>3. IInv /\ ClientInv /\ FreshInv(d) /\ ToldBefore(u, d) => FollowsInv(u, d)
  BY DEF IInv, ControlInv, ClientInv, ToldInv, FreshInv, ToldBefore, FollowsInv, Calls
<1>4. IInv /\ ClientInv /\ ServersData /\ FreshInv(d) /\ FollowsInv(u, d)
          /\ [SystemNext]_systemVars => FollowsInv(u, d)'
  BY FollowsNext
<1>5. IInv /\ ServersData /\ SuccessIsEndToEnd /\ FollowsInv(u, d) => HasUpload(d, u)
  <2> SUFFICES ASSUME IInv, ServersData, SuccessIsEndToEnd, FollowsInv(u, d),
                      told[d] = "success", d \in Naive => eof[d],
                      chunks[u] > 0, stored[u] = received[u], ~disturbed[u]
               PROVE  got[d] = [i \in 1..chunks[u] |-> <<u, i>>]
    BY DEF HasUpload
  <2>1. received[u] = chunks[u] /\ inode[d] # 0
    BY DEF SuccessIsEndToEnd, FollowsInv, Calls
  <2>2. inode[u] # 0
    BY <2>1, ServerAssumption DEF IInv, ControlInv
  <2>3. contents[inode[u]] = [i \in 1..chunks[u] |-> <<u, i>>]
    BY <2>1, <2>2 DEF ServersData, StoredInv
  <2>4. inode[d] = inode[u] /\ ~disturbed[d]
    BY <2>1, <2>2 DEF FollowsInv
  <2>5. got[d] = contents[inode[d]]
    BY <2>4 DEF SuccessIsEndToEnd, Calls
  <2> QED  BY <2>3, <2>4, <2>5
<1> QED  BY <1>1, <1>2, <1>3, <1>4, <1>5, ClientAlways, SystemImplementsServers,
            ServersDataAlways, SuccessIsTrue, PTL DEF SystemSpec
=============================================================================
