------------------------------- MODULE System -------------------------------
(***************************************************************************)
(* The clients (async_client.cc, CCcloud_client.hpp) at work on the two    *)
(* servers.  grpc carries what a client sends to its handler in order, and *)
(* the handler's data and then its status back; a connection may be lost   *)
(* at any time.  Each side sees only what has arrived from the other: a    *)
(* handler reads what was sent, a client learns the outcome after all      *)
(* data.                                                                   *)
(*                                                                         *)
(* The load test (async_client.cc, on the callback server) runs an upload, *)
(* a download and a deletion of one file, each phase after the one before  *)
(* has ended.  The other clients come and go as they like.                 *)
(***************************************************************************)
EXTENDS NaiveServer, FiniteSets

CONSTANTS
    LoadTests,   \* its calls: an upload, a download, a deletion
    MaxCalls     \* bound: how many calls are made

ASSUME ClientAssumption ==
    /\ LoadTests \subseteq (Uploads \ Naive) \X (Downloads \ Naive) \X (Deletes \ Naive)
    /\ MaxCalls \in Nat

VARIABLES
    cpc,      \* where each client is
    sent,     \* how many chunks it has sent; one more: WritesDone
    taken,    \* how much of what the server sent it has read
    told      \* what the user is told of the call

clientVars == <<cpc, sent, taken, told>>
systemVars == <<vars, clientVars>>

SystemTypeOK ==
    /\ TypeOK
    /\ cpc \in [Calls -> {"idle", "uncalled", "send", "receive", "wait", "done"}]
    /\ sent \in [Uploads -> Nat]
    /\ taken \in [Downloads -> Nat]
    /\ told \in [Calls -> {"nothing", "success", "failure"}]
    /\ \A c \in Uploads : received[c] <= sent[c] /\ sent[c] <= chunks[c] + 1
    /\ \A c \in Downloads : taken[c] <= Len(got[c])

SystemInit ==
    /\ Init
    /\ cpc = [c \in Calls |-> "idle"]
    /\ sent = [c \in Uploads |-> 0]
    /\ taken = [c \in Downloads |-> 0]
    /\ told = [c \in Calls |-> "nothing"]

-----------------------------------------------------------------------------
Tell(c, outcome) == told' = [told EXCEPT ![c] = outcome]

Called(c) == cpc[c] \notin {"idle", "uncalled"}

Over(c) == cpc[c] \in {"done", "uncalled"}

(* main joins the threads of a phase before it starts the next.            *)
PhaseReached(c) ==
    \A t \in LoadTests : /\ c = t[2] => Over(t[1])
                         /\ c = t[3] => Over(t[2])

(* The request is on its way; the naive client may find afterwards that it *)
(* cannot open its local file, and gives the call up.                      *)
MakeCall(c) ==
    /\ cpc[c] = "idle"
    /\ PhaseReached(c)
    /\ Cardinality({d \in Calls : Called(d)}) < MaxCalls
    /\ \/ /\ cpc' = [cpc EXCEPT ![c] = IF c \in Uploads THEN "send"
                                       ELSE IF c \in Downloads THEN "receive"
                                       ELSE "wait"]
          /\ UNCHANGED told
       \/ /\ c \in Naive \ Deletes
          /\ cpc' = [cpc EXCEPT ![c] = "done"]
          /\ Tell(c, "failure")
    /\ UNCHANGED <<sent, taken>>

(* The load test opens its output file first.                              *)
CannotStore(c) ==
    /\ c \in Downloads \ Naive
    /\ cpc[c] = "idle"
    /\ PhaseReached(c)
    /\ cpc' = [cpc EXCEPT ![c] = "uncalled"]
    /\ Tell(c, "failure")
    /\ UNCHANGED <<sent, taken>>

SendChunk(c) ==
    /\ c \in Uploads
    /\ cpc[c] = "send" /\ sent[c] < chunks[c]
    /\ sent' = [sent EXCEPT ![c] = @ + 1]
    /\ UNCHANGED <<cpc, taken, told>>

WritesDone(c) ==
    /\ c \in Uploads
    /\ cpc[c] = "send" /\ sent[c] = chunks[c]
    /\ sent' = [sent EXCEPT ![c] = @ + 1]
    /\ cpc' = [cpc EXCEPT ![c] = "wait"]
    /\ UNCHANGED <<taken, told>>

(* The next message, which holds one read of the server's.                 *)
ReceiveChunk(c) ==
    /\ c \in Downloads
    /\ cpc[c] = "receive" /\ taken[c] < Len(got[c])
    /\ taken' = [taken EXCEPT ![c] = IF @ + ReadSize < Len(got[c]) THEN @ + ReadSize
                                     ELSE Len(got[c])]
    /\ UNCHANGED <<cpc, sent, told>>

(* The server has answered, and the answer arrives.                        *)
Answered(c) ==
    /\ ~broken[c]
    /\ pc[c] = "gone" \/ (c \notin Naive /\ pc[c] = "finish")

(* Mutant of Outcome: the status is not looked at.                         *)
AnyOutcome(c) == "success"

(* DeleteFile of the naive client also asks for response.success, which    *)
(* FileServiceImpl never sets.                                             *)
Outcome(c) ==
    IF status_[c] = "OK" /\ c \notin Naive \cap Deletes THEN "success"
    ELSE "failure"

(* Finish returns the status, after everything that was sent before it.    *)
Finished(c) ==
    /\ cpc[c] \in {"wait", "receive"}
    /\ Answered(c)
    /\ c \in Downloads => taken[c] = Len(got[c])
    /\ cpc' = [cpc EXCEPT ![c] = "done"]
    /\ Tell(c, Outcome(c))
    /\ UNCHANGED <<sent, taken>>

(* Starting, writing or finishing fails: the connection is lost, or the    *)
(* call has ended before all was sent.                                     *)
FailCall(c) ==
    /\ cpc[c] \in {"send", "receive", "wait"}
    /\ cpc' = [cpc EXCEPT ![c] = "done"]
    /\ Tell(c, "failure")
    /\ UNCHANGED <<sent, taken>>

ClientStep(c) ==
    /\ \/ MakeCall(c) \/ CannotStore(c)
       \/ SendChunk(c) \/ WritesDone(c) \/ ReceiveChunk(c)
       \/ Finished(c) \/ FailCall(c)
    /\ UNCHANGED vars

-----------------------------------------------------------------------------
(* A call reaches its handler, whose reads return what has been sent.      *)
Serve(c) ==
    /\ Called(c)
    /\ c \in Uploads /\ pc[c] = "read" => broken[c] \/ received[c] < sent[c]
    /\ ServerStep(c)
    /\ UNCHANGED clientVars

HangUp(c) == Called(c) /\ Lose(c) /\ UNCHANGED clientVars

SystemNext == \E c \in Calls : ClientStep(c) \/ Serve(c) \/ HangUp(c)

SystemSpec == SystemInit /\ [][SystemNext]_systemVars

-----------------------------------------------------------------------------
(* A client goes on with a call it has begun; it learns that the call has  *)
(* broken off, or has ended before all was sent.                           *)
GoOn(c) ==
    /\ \/ SendChunk(c) \/ WritesDone(c) \/ ReceiveChunk(c) \/ Finished(c)
       \/ FailCall(c) /\ (broken[c] \/ (cpc[c] = "send" /\ Answered(c)))
    /\ UNCHANGED vars

(* The threads of clients and servers go on, and a server is told in the   *)
(* end that the client of a stream is gone.                                *)
Fairness ==
    \A c \in Calls :
        /\ WF_systemVars(GoOn(c))
        /\ WF_systemVars(Serve(c))
        /\ WF_systemVars(cpc[c] = "done" /\ HangUp(c))

LiveSpec == SystemSpec /\ Fairness

-----------------------------------------------------------------------------
(* What the user is told is true from end to end: of a call that succeeded *)
(* the server has received every chunk, and the client has all the server  *)
(* read of the file, which is the whole file if nobody wrote to it.        *)
SuccessIsEndToEnd ==
    \A c \in Calls : told[c] = "success" =>
        /\ c \in Uploads => received[c] = chunks[c]
        /\ c \in Downloads =>
              /\ inode[c] # 0
              /\ taken[c] = Len(got[c])
              /\ ~disturbed[c] /\ (c \in Naive => eof[c])
                    => got[c] = contents[inode[c]]

(* u's user has been told of a success, its file is closed, and the client *)
(* of d has not yet done anything.  The naive server closes the file       *)
(* before it answers; the callback server answers first.                   *)
ToldBefore(u, d) ==
    /\ told[u] = "success"
    /\ u \in Naive \/ pc[u] = "gone"
    /\ cpc[d] = "idle"

(* A download d that succeeded has the upload u, if all that u was given   *)
(* could be written and nobody else wrote or removed its file so far.      *)
HasUpload(d, u) ==
    /\ told[d] = "success" /\ (d \in Naive => eof[d])
    /\ chunks[u] > 0 /\ stored[u] = received[u] /\ ~disturbed[u]
    => got[d] = [i \in 1..chunks[u] |-> <<u, i>>]

(* Read your writes, through either server: a download that is started     *)
(* after the success of an upload was told receives what was uploaded.     *)
DownloadsWhatWasUploaded ==
    \A u \in Uploads, d \in Downloads :
        [](ToldBefore(u, d) => []HasUpload(d, u))

(* A reactor that was deleted twice: nothing is promised any more of the   *)
(* callback server's process.                                              *)
DeletedTwice == \E c \in Deletes \ Naive : deletes[c] = 2

(* Every call that reached its server ends there, and at its client.       *)
CallsEnd ==
    \A c \in Calls :
        pc[c] # "new"
            ~> (pc[c] = "gone" /\ Over(c)) \/ (c \notin Naive /\ DeletedTwice)
=============================================================================
