---------------------------- MODULE NaiveServer ----------------------------
(***************************************************************************)
(* The naive server (src/src/server/FileServiceImpl.hpp, naive_server.cc): *)
(* one thread runs the handler of a call from its first line to its        *)
(* return.  It listens on another port than the callback server and keeps  *)
(* its files in the same directory uploads/, so that the calls made to     *)
(* either server meet in the files, and nowhere else.                      *)
(*                                                                         *)
(* A handler has no reactor: its call is over ("gone") when it returns,    *)
(* and grpc answers the status it returns, or UNKNOWN if it throws.  What  *)
(* it does to its file between two accesses is what a reactor does; the    *)
(* handlers differ in what they take for a failure.                        *)
(***************************************************************************)
EXTENDS FileServer

CONSTANT Naive    \* the calls made to FileServiceImpl

ASSUME NaiveAssumption == Naive \subseteq Calls

Answer(c, status) ==
    /\ Goto(c, "gone")
    /\ status_' = [status_ EXCEPT ![c] = status]

(* An exception leaves the handler, which logs nothing any more.           *)
Throw(c) == Answer(c, "UNKNOWN") /\ UNCHANGED log

-----------------------------------------------------------------------------
(* FileServiceImpl::Upload                                                 *)

(* ofs.close() writes the rest; nobody looks whether that succeeds.        *)
Close(c) == \E n \in stored[c]..received[c] : WriteOut(c, n)

(* Mutant of StreamEnded: it takes no notice of a client that is gone.     *)
AllReceived(c) == received[c] = chunks[c]

(* reader->Read returns false: the client has sent all, or is gone.        *)
StreamEnded(c) == broken[c] \/ received[c] = chunks[c]

EndUpload(c) ==
    /\ pc[c] = "read"
    /\ StreamEnded(c)
    /\ Close(c)
    /\ LogCommit(c, "OK")
    /\ Answer(c, "OK")
    /\ UNCHANGED <<file, received, inode>>

ReadMore(c) ==
    /\ pc[c] = "read"
    /\ ~broken[c] /\ received[c] < chunks[c]
    /\ Proceed(c, IF inode[c] = 0 THEN "open" ELSE "write")
    /\ UNCHANGED <<fileVars, uploadVars, inode>>

(* create_directories throws, or the file cannot be opened.                *)
FailUpload(c) ==
    /\ pc[c] = "open"
    /\ \/ Throw(c)
       \/ LogAbort(c, "INTERNAL") /\ Answer(c, "INTERNAL")
    /\ UNCHANGED <<fileVars, uploadVars, inode>>

(* Opened, like the callback server does it.                               *)
OpenUpload(c) == OpenForWriting(c) /\ pc'[c] = "write"

(* Whatever becomes of the chunk, the next one is read.                    *)
WriteUpload(c) == WriteChunk(c) /\ pc'[c] = "read"

NaiveUploadStep(c) ==
    /\ c \in Uploads
    /\ \/ StartUpload(c)
       \/ EndUpload(c) \/ ReadMore(c)
       \/ FailUpload(c) \/ OpenUpload(c) \/ WriteUpload(c)
    /\ UNCHANGED <<downloadVars, deletes, broken>>

-----------------------------------------------------------------------------
(* FileServiceImpl::Download                                               *)

StartNaive(c) ==
    /\ pc[c] = "new"
    /\ LogPrepare(c)
    /\ Goto(c, "open")
    /\ UNCHANGED status_

FailDownload(c) ==
    /\ pc[c] = "open"
    /\ LogAbort(c, "NOT_FOUND")
    /\ Answer(c, "NOT_FOUND")
    /\ UNCHANGED <<downloadVars, inode>>

OpenDownload(c) == OpenForReading(c) /\ pc'[c] = "fetch"

(* The loop goes on whether or not writer->Write reaches the client.  It   *)
(* ends at the end of the file (eof), or when a read fails: the handler    *)
(* does not tell the two apart.                                            *)
FetchChunk(c) ==
    /\ pc[c] = "fetch"
    /\ \/ /\ HasMore(c)
          /\ got' = [got EXCEPT ![c] = @ \o Available(c)]
          /\ eof' = [eof EXCEPT ![c] = Len(Available(c)) < ReadSize]
          /\ Proceed(c, "fetch")
       \/ /\ \/ ~HasMore(c) /\ eof' = [eof EXCEPT ![c] = TRUE]
             \/ ~eof[c] /\ UNCHANGED eof
          /\ LogCommit(c, "OK")
          /\ Answer(c, "OK")
          /\ UNCHANGED got
    /\ UNCHANGED inode

NaiveDownloadStep(c) ==
    /\ c \in Downloads
    /\ \/ StartNaive(c) /\ UNCHANGED <<downloadVars, inode>>
       \/ FailDownload(c) \/ OpenDownload(c) \/ FetchChunk(c)
    /\ UNCHANGED <<fileVars, uploadVars, deletes, broken>>

-----------------------------------------------------------------------------
(* FileServiceImpl::Delete                                                 *)

(* remove finds the file, does not find it, or throws.                     *)
Remove(c) ==
    /\ pc[c] = "open"
    /\ \/ /\ file # 0
          /\ file' = 0
          /\ Disturb(c, file, Uploads)
          /\ LogCommit(c, "OK")
          /\ Answer(c, "OK")
       \/ /\ file = 0
          /\ LogCommit(c, "NOT_FOUND")
          /\ Answer(c, "NOT_FOUND")
          /\ UNCHANGED <<file, disturbed>>
       \/ /\ Throw(c)
          /\ UNCHANGED <<file, disturbed>>
    /\ UNCHANGED contents

NaiveDeleteStep(c) ==
    /\ c \in Deletes
    /\ (StartNaive(c) /\ UNCHANGED fileVars) \/ Remove(c)
    /\ UNCHANGED <<uploadVars, downloadVars, inode, deletes, broken>>

-----------------------------------------------------------------------------
NaiveStep(c) ==
    NaiveUploadStep(c) \/ NaiveDownloadStep(c) \/ NaiveDeleteStep(c)

ServerStep(c) == IF c \in Naive THEN NaiveStep(c) ELSE CallbackStep(c)

(* The client of a naive download goes away.                               *)
LoseReader(c) ==
    /\ c \in Naive \cap Downloads
    /\ pc[c] = "fetch" /\ ~broken[c]
    /\ broken' = [broken EXCEPT ![c] = TRUE]
    /\ UNCHANGED <<fileVars, uploadVars, downloadVars, pc, status_, inode,
                   deletes, log>>

Lose(c) == Break(c) \/ LoseReader(c)

ServersNext == \E c \in Calls : ServerStep(c) \/ Lose(c)

ServersSpec == Init /\ [][ServersNext]_vars

-----------------------------------------------------------------------------
(* A download that ended well, at either server and undisturbed, has sent  *)
(* its file whole; at the naive server if its last read ended at the end   *)
(* of the file.                                                            *)
DownloadsIntact ==
    \A c \in Downloads :
        Succeeded(c) /\ ~disturbed[c] /\ (c \in Naive => eof[c])
            => got[c] = contents[inode[c]]

(* A handler logs its outcome, with the status it answers, before it       *)
(* returns; not if it throws.                                              *)
NaiveAudited(c) ==
    /\ deletes[c] = 0
    /\ Len(log[c]) = (IF pc[c] = "new" THEN 0
                      ELSE IF pc[c] = "gone" /\ status_[c] # "UNKNOWN" THEN 2
                      ELSE 1)
    /\ pc[c] = "gone" /\ status_[c] # "UNKNOWN"
          => log[c][2] = [type |-> "COMMIT", code |-> status_[c]]

(* The audit trail of both servers.                                        *)
ServersAudit ==
    \A c \in Calls : IF c \in Naive THEN NaiveAudited(c) ELSE Audited(c)
=============================================================================
