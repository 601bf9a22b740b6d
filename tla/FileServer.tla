----------------------------- MODULE FileServer -----------------------------
(***************************************************************************)
(* The callback server of src/src/server: AsyncUploadCall,                 *)
(* AsyncDownloadCall and AsyncDeleteCall, one reactor for each call, and   *)
(* the entries AccessLogger appends for them.  All calls name the same     *)
(* file; calls on different files share nothing.  gRPC runs the callbacks  *)
(* of different calls on different threads, so they interleave between any *)
(* two accesses to the file system.                                        *)
(*                                                                         *)
(* From gRPC the reactors get one callback for each read or write they     *)
(* start, OnCancel when the call is broken off, and OnDone after Finish    *)
(* and every other callback.                                               *)
(***************************************************************************)
EXTENDS Integers, Sequences

CONSTANTS
    Uploads, Downloads, Deletes,   \* the calls
    chunks,      \* how many chunks the client of each upload sends
    ReadSize,    \* how many of them fill the download's buffer_
    Hole,        \* data that no upload has sent: what a file holds where
                 \* nothing was written, and
    OldFile      \* what the file of that name may hold when the server starts

Calls == Uploads \cup Downloads \cup Deletes

ASSUME ServerAssumption ==
    /\ Uploads \cap Downloads = {}
    /\ Uploads \cap Deletes = {}
    /\ Downloads \cap Deletes = {}
    /\ chunks \in [Uploads -> Nat]
    /\ ReadSize \in Nat \ {0}
    /\ Hole \notin Uploads \X Nat
    /\ OldFile \in Seq({Hole})

VARIABLES
    file,       \* what the name refers to in uploads/; 0: there is no file
    contents,   \* all files there have been, also those without a name now
    pc,         \* where each reactor is
    status_,
    inode,      \* the file ofs_ or ifs_ was opened on; 0: not opened
    received,   \* how many chunks OnReadDone has been given
    stored,     \* how many of them ofs_ has written out of its buffer
    got,        \* what OnWriteDone has read and sent
    eof,        \* ifs_.eof()
    deletes,    \* how often "delete this" was executed
    log,        \* the entries logged for each call
    broken,     \* the client has cancelled, or is gone
    disturbed   \* history: another call changed the file meanwhile

fileVars == <<file, contents, disturbed>>
uploadVars == <<received, stored>>
downloadVars == <<got, eof>>
vars == <<fileVars, uploadVars, downloadVars, pc, status_, inode, deletes, log,
          broken>>

Data == (Uploads \X Nat) \cup {Hole}

(* The values of grpc::StatusCode the two servers answer with.             *)
Codes == {"OK", "INTERNAL", "NOT_FOUND", "UNKNOWN"}

Entry == [type : {"PREPARE", "COMMIT"}, code : Codes]

TypeOK ==
    /\ file \in 0..Len(contents)
    /\ contents \in Seq(Seq(Data))
    /\ pc \in [Calls -> {"new", "read", "open", "write", "send", "fetch",
                         "finish", "gone"}]
    /\ status_ \in [Calls -> Codes]
    /\ inode \in [Calls -> 0..Len(contents)]
    /\ received \in [Uploads -> Nat]
    /\ stored \in [Uploads -> Nat]
    /\ \A c \in Uploads : stored[c] <= received[c] /\ received[c] <= chunks[c]
    /\ got \in [Downloads -> Seq(Data)]
    /\ eof \in [Downloads -> BOOLEAN]
    /\ deletes \in [Calls -> 0..2]
    /\ log \in [Calls -> Seq(Entry)]
    /\ broken \in [Calls -> BOOLEAN]
    /\ disturbed \in [Calls -> BOOLEAN]

Init ==
    /\ \/ file = 0 /\ contents = <<>>
       \/ file = 1 /\ contents = <<OldFile>>
    /\ pc = [c \in Calls |-> "new"]
    /\ status_ = [c \in Calls |-> "OK"]
    /\ inode = [c \in Calls |-> 0]
    /\ received = [c \in Uploads |-> 0]
    /\ stored = [c \in Uploads |-> 0]
    /\ got = [c \in Downloads |-> <<>>]
    /\ eof = [c \in Downloads |-> FALSE]
    /\ deletes = [c \in Calls |-> 0]
    /\ log = [c \in Calls |-> <<>>]
    /\ broken = [c \in Calls |-> FALSE]
    /\ disturbed = [c \in Calls |-> FALSE]

-----------------------------------------------------------------------------
Goto(c, label) == pc' = [pc EXCEPT ![c] = label]

Proceed(c, label) == Goto(c, label) /\ UNCHANGED <<status_, deletes, log>>

(* finish_ok and finish_err: the response and status are set, Finish is    *)
(* called.                                                                 *)
Finish(c, status) ==
    /\ Goto(c, "finish")
    /\ status_' = [status_ EXCEPT ![c] = status]

(* AccessLogger.  log_abort is log_commit with another code: nothing is    *)
(* ever logged with the type ABORT.                                        *)
Logged(c, entry) == log' = [log EXCEPT ![c] = Append(@, entry)]

LogPrepare(c) == Logged(c, [type |-> "PREPARE", code |-> "OK"])

LogCommit(c, code) == Logged(c, [type |-> "COMMIT", code |-> code])

LogAbort(c, code) == LogCommit(c, code)

(* Call c changes the file f under the eyes of the others.                 *)
Disturb(c, f, calls) ==
    disturbed' = [d \in Calls |->
                     disturbed[d] \/ (d # c /\ d \in calls /\ inode[d] = f)]

-----------------------------------------------------------------------------
(* AsyncUploadCall                                                         *)

StartUpload(c) ==
    /\ pc[c] = "new"
    /\ LogPrepare(c)
    /\ Goto(c, "read")
    /\ UNCHANGED <<fileVars, uploadVars, status_, inode, deletes>>

(* A stream that ends and one that breaks off look the same.               *)
OnReadDone(c) ==
    /\ pc[c] = "read"
    /\ \/ /\ broken[c] \/ received[c] = chunks[c]
          /\ Finish(c, "OK")
          /\ UNCHANGED <<deletes, log>>
       \/ /\ ~broken[c] /\ received[c] < chunks[c]
          /\ Proceed(c, IF inode[c] = 0 THEN "open" ELSE "write")
    /\ UNCHANGED <<fileVars, uploadVars, inode>>

(* Mutant of Truncate: opened without std::ios::trunc.                     *)
KeepContents(f) == UNCHANGED contents

Truncate(f) == contents' = [contents EXCEPT ![f] = <<>>]

(* The directory or the file may not be there to be opened; an existing    *)
(* file is emptied.                                                        *)
OpenForWriting(c) ==
    /\ c \in Uploads
    /\ pc[c] = "open"
    /\ \/ /\ Finish(c, "INTERNAL")
          /\ UNCHANGED <<fileVars, inode, deletes, log>>
       \/ /\ IF file = 0
             THEN /\ contents' = Append(contents, <<>>)
                  /\ file' = Len(contents) + 1
                  /\ UNCHANGED disturbed
             ELSE /\ Truncate(file)
                  /\ Disturb(c, file, Calls)
                  /\ UNCHANGED file
          /\ inode' = [inode EXCEPT ![c] = file']
          /\ Proceed(c, "write")
    /\ UNCHANGED uploadVars

(* The contents of c's file when its chunks from..to have been written     *)
(* where they belong.                                                      *)
Written(c, from, to) ==
    LET old == contents[inode[c]]
        length == IF to > Len(old) THEN to ELSE Len(old)
    IN  [i \in 1..length |-> IF i \in from..to     THEN <<c, i>>
                             ELSE IF i <= Len(old) THEN old[i]
                             ELSE Hole]

(* Mutant of WriteOut: it counts one chunk more.                           *)
WriteOutOneMore(c, n) ==
    /\ contents' = [contents EXCEPT ![inode[c]] = Written(c, stored[c] + 1, n)]
    /\ stored' = [stored EXCEPT ![c] = n + 1]
    /\ Disturb(c, inode[c], Calls)

(* ofs_ has written out the first n chunks it was given.                   *)
WriteOut(c, n) ==
    IF n = stored[c] THEN UNCHANGED <<contents, stored, disturbed>>
    ELSE /\ contents' = [contents EXCEPT
                            ![inode[c]] = Written(c, stored[c] + 1, n)]
         /\ stored' = [stored EXCEPT ![c] = n]
         /\ Disturb(c, inode[c], Calls)

(* Any part of what is buffered may be written out; a failure to do so     *)
(* ends the call.                                                          *)
WriteChunk(c) ==
    /\ pc[c] = "write"
    /\ received' = [received EXCEPT ![c] = @ + 1]
    /\ \E n \in stored[c]..(received[c] + 1) :
          /\ WriteOut(c, n)
          /\ \/ Proceed(c, "read")
             \/ /\ n <= received[c]
                /\ Finish(c, "INTERNAL")
                /\ UNCHANGED <<deletes, log>>
    /\ UNCHANGED <<file, inode>>

UploadStep(c) ==
    /\ c \in Uploads
    /\ StartUpload(c) \/ OnReadDone(c) \/ OpenForWriting(c) \/ WriteChunk(c)
    /\ UNCHANGED <<downloadVars, broken>>

-----------------------------------------------------------------------------
(* AsyncDownloadCall                                                       *)

(* It starts with sending an empty chunk.                                  *)
StartDownload(c) ==
    /\ pc[c] = "new"
    /\ LogPrepare(c)
    /\ Goto(c, "send")
    /\ UNCHANGED <<downloadVars, status_, inode, deletes>>

OnWriteDone(c) ==
    /\ pc[c] = "send"
    /\ \/ /\ broken[c]
          /\ Finish(c, "OK")
          /\ UNCHANGED <<deletes, log>>
       \/ /\ ~broken[c]
          /\ Proceed(c, IF inode[c] = 0 THEN "open" ELSE "fetch")
    /\ UNCHANGED <<downloadVars, inode>>

OpenForReading(c) ==
    /\ c \in Downloads
    /\ pc[c] = "open"
    /\ \/ /\ Finish(c, "INTERNAL")
          /\ UNCHANGED <<inode, deletes, log>>
       \/ /\ file # 0
          /\ inode' = [inode EXCEPT ![c] = file]
          /\ Proceed(c, "fetch")
    /\ UNCHANGED downloadVars

(* What the next read of c finds.                                          *)
Available(c) ==
    LET data == contents[inode[c]]
        last == Len(got[c]) + ReadSize
    IN  IF eof[c] THEN <<>>
        ELSE SubSeq(data, Len(got[c]) + 1,
                    IF last < Len(data) THEN last ELSE Len(data))

(* Mutant of HasMore: a buffer that is not full is taken for the end.      *)
FillsBuffer(c) == Len(Available(c)) = ReadSize

HasMore(c) == Available(c) # <<>>

(* A read that does not fill buffer_ leaves ifs_ at its end for good.      *)
ReadChunk(c) ==
    /\ pc[c] = "fetch"
    /\ \/ /\ HasMore(c)
          /\ got' = [got EXCEPT ![c] = @ \o Available(c)]
          /\ eof' = [eof EXCEPT ![c] = Len(Available(c)) < ReadSize]
          /\ Proceed(c, "send")
       \/ /\ \/ ~HasMore(c) /\ Finish(c, "OK")
             \/ Finish(c, "INTERNAL")
          /\ UNCHANGED <<downloadVars, deletes, log>>
    /\ UNCHANGED inode

DownloadStep(c) ==
    /\ c \in Downloads
    /\ StartDownload(c) \/ OnWriteDone(c) \/ OpenForReading(c) \/ ReadChunk(c)
    /\ UNCHANGED <<fileVars, uploadVars, broken>>

-----------------------------------------------------------------------------
(* AsyncDeleteCall                                                         *)

(* All in the constructor.  The file loses its name; who has it open keeps *)
(* it.                                                                     *)
StartDelete(c) ==
    /\ pc[c] = "new"
    /\ LogPrepare(c)
    /\ \/ /\ file # 0
          /\ file' = 0
          /\ Disturb(c, file, Uploads)
          /\ Finish(c, "OK")
       \/ /\ Finish(c, "INTERNAL")
          /\ UNCHANGED <<file, disturbed>>
    /\ UNCHANGED <<contents, deletes>>

(* delete this, with OnDone still to come.                                 *)
OnCancel(c) ==
    /\ broken[c] /\ pc[c] = "finish" /\ deletes[c] = 0
    /\ LogAbort(c, status_[c])
    /\ deletes' = [deletes EXCEPT ![c] = 1]
    /\ UNCHANGED <<fileVars, pc, status_>>

DeleteStep(c) ==
    /\ c \in Deletes
    /\ StartDelete(c) \/ OnCancel(c)
    /\ UNCHANGED <<uploadVars, downloadVars, inode, broken>>

-----------------------------------------------------------------------------
(* Mutant of LogOutcome: the status is not looked at.                      *)
LogSuccess(c) == LogCommit(c, "OK")

LogOutcome(c) ==
    \/ status_[c] = "OK" /\ LogCommit(c, "OK")
    \/ status_[c] # "OK" /\ LogAbort(c, status_[c])

Done(c) ==
    /\ pc[c] = "finish"
    /\ LogOutcome(c)
    /\ deletes' = [deletes EXCEPT ![c] = @ + 1]
    /\ Goto(c, "gone")
    /\ UNCHANGED <<file, status_, inode, received, downloadVars, broken>>

(* The destructor closes ofs_, which writes the rest of the buffer, and    *)
(* does not look whether that succeeds.                                    *)
UploadDone(c) ==
    /\ c \in Uploads
    /\ Done(c)
    /\ \E n \in stored[c]..received[c] : WriteOut(c, n)

DownloadDone(c) ==
    /\ c \in Downloads
    /\ Done(c)
    /\ UNCHANGED <<contents, stored, disturbed>>

(* OnDone of a reactor that OnCancel has deleted: undefined.  The status   *)
(* it logs is read from memory that was given back; and that memory it     *)
(* gives back again, after which the process may not go on.                *)
DoneOnFreed(c) ==
    /\ pc[c] = "finish"
    /\ \E code \in Codes : LogCommit(c, code)
    /\ deletes' = [deletes EXCEPT ![c] = 2]
    /\ Goto(c, "gone")
    /\ UNCHANGED <<file, status_, inode, received, downloadVars, broken>>

DeleteDone(c) ==
    /\ c \in Deletes
    /\ \/ deletes[c] = 0 /\ Done(c)
       \/ deletes[c] = 1 /\ DoneOnFreed(c)
    /\ UNCHANGED <<contents, stored, disturbed>>

(* The client cancels the call, or the connection is lost.  A stream       *)
(* notices it in its next read or write, or never.                         *)
Break(c) ==
    /\ pc[c] \in {"read", "send"} \/ (c \in Deletes /\ pc[c] = "finish")
    /\ ~broken[c]
    /\ broken' = [broken EXCEPT ![c] = TRUE]
    /\ UNCHANGED <<fileVars, uploadVars, downloadVars, pc, status_, inode,
                   deletes, log>>

CallbackStep(c) ==
    \/ UploadStep(c) \/ DownloadStep(c) \/ DeleteStep(c)
    \/ UploadDone(c) \/ DownloadDone(c) \/ DeleteDone(c)

Next == \E c \in Calls : CallbackStep(c) \/ Break(c)

Spec == Init /\ [][Next]_vars

-----------------------------------------------------------------------------
Succeeded(c) == pc[c] = "gone" /\ status_[c] = "OK" /\ ~broken[c]

(* An upload that succeeded has left exactly its chunks in the file, if no *)
(* other call wrote or removed the file between its opening and now, and   *)
(* everything it was given could be written.                               *)
UploadStored ==
    \A c \in Uploads :
        /\ Succeeded(c) /\ chunks[c] > 0
        /\ ~disturbed[c] /\ stored[c] = received[c]
        => /\ file = inode[c]
           /\ contents[file] = [i \in 1..chunks[c] |-> <<c, i>>]

(* A download that succeeded has sent the file it opened, whole and in     *)
(* order, if nobody wrote to it meanwhile.  Deleting the file does not     *)
(* harm a download that has opened it.                                     *)
DownloadIntact ==
    \A c \in Downloads :
        Succeeded(c) /\ ~disturbed[c] => got[c] = contents[inode[c]]

(* The audit trail of a call: logged when it starts and with its status    *)
(* when its reactor is deleted, which happens once.  The exception is a    *)
(* deletion the client breaks off: OnCancel logs and deletes as well.      *)
Audited(c) ==
    \/ c \in Deletes /\ broken[c]
    \/ /\ deletes[c] = (IF pc[c] = "gone" THEN 1 ELSE 0)
       /\ Len(log[c]) = (IF pc[c] = "new" THEN 0 ELSE 1 + deletes[c])
       /\ pc[c] = "gone" => log[c][2].code = status_[c]

AuditTrail == \A c \in Calls : Audited(c)

(* "upload committed" and "upload complete" are said of complete uploads   *)
(* only.                                                                   *)
CommittedIsComplete ==
    \A c \in Uploads :
        pc[c] = "gone" /\ [type |-> "COMMIT", code |-> "OK"] = log[c][2]
            => received[c] = chunks[c]
=============================================================================
