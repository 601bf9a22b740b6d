----------------------------- MODULE EBRManager -----------------------------
(***************************************************************************)
(* The epoch-based memory reclamation of src/src/tools/EBRQueue.hpp: the   *)
(* registry of threads, their epochs, the lists of retired nodes and the   *)
(* heap the nodes live in.  MPMCQueue composes Enter, Leave and Retire     *)
(* with its own steps; BumpEpoch, UnregisterThread and ThreadExit are      *)
(* steps of the environment.                                               *)
(*                                                                         *)
(* Each operation is one step.  The list and registry mutexes make the     *)
(* list and registry updates atomic, and the global epoch each operation   *)
(* loads changes only in BumpEpoch, which no code of the repository calls  *)
(* while queue operations run.                                             *)
(***************************************************************************)
EXTENDS Integers, FiniteSets

CONSTANTS
    Threads,        \* thread ids (std::thread::id)
    Nodes,          \* addresses operator new can return for a queue node
    EpochMod,       \* 2^64 in the code: epochs are uint64_t
    MaxEpoch,       \* bound on global_epoch
    EnvCalls,       \* public EBRManager calls made outside MPMCQueue
    QuiescentCalls  \* TRUE: the environment makes them only while no thread
                    \* is inside a queue operation

ASSUME EBRAssumption ==
    /\ MaxEpoch \in Nat
    /\ EpochMod \in Nat
    /\ EpochMod > MaxEpoch + 2
    /\ EnvCalls \subseteq {"bump_epoch", "unregister_thread"}
    /\ QuiescentCalls \in BOOLEAN

VARIABLES
    global_epoch,
    thread_registry,      \* ids that have a ThreadData
    current_thread_data,  \* current_thread_data[t]: t's thread_local is set
    local_epoch,          \* ThreadData::local_epoch
    retired_list,         \* ThreadData::retired_list
    allocated             \* nodes between their new and their delete

ebrVars == <<global_epoch, thread_registry, current_thread_data,
             local_epoch, retired_list>>

(* UINT64_MAX marks a thread that is in no queue operation. *)
Inactive == EpochMod - 1

RetiredNode == [node : Nodes, epoch : 0..MaxEpoch]

EBRTypeOK ==
    /\ global_epoch \in 0..MaxEpoch
    /\ thread_registry \subseteq Threads
    /\ current_thread_data \in [Threads -> BOOLEAN]
    /\ local_epoch \in [Threads -> 0..MaxEpoch \cup {Inactive}]
    /\ retired_list \in [Threads -> SUBSET RetiredNode]
    /\ allocated \subseteq Nodes

EBRInit ==
    /\ global_epoch = 0
    /\ thread_registry = {}
    /\ current_thread_data = [t \in Threads |-> FALSE]
    /\ local_epoch = [t \in Threads |-> Inactive]
    /\ retired_list = [t \in Threads |-> {}]

(* An id that is already registered keeps its ThreadData: the new thread   *)
(* takes over the epoch and the retired list the old one left behind.      *)
RegisterThreadIfNeeded(t) ==
    /\ thread_registry' = thread_registry \cup {t}
    /\ current_thread_data' = [current_thread_data EXCEPT ![t] = TRUE]

Enter(t) ==
    /\ RegisterThreadIfNeeded(t)
    /\ local_epoch' = [local_epoch EXCEPT ![t] = global_epoch]
    /\ UNCHANGED <<global_epoch, retired_list>>

(* What try_reclaim deletes: retired two epochs ago.  No thread's          *)
(* local_epoch is consulted.                                               *)
SafeEpoch == (global_epoch - 2) % EpochMod

(* Mutant of Reclaimable: without the return for epochs below two.         *)
ReclaimableAnyEpoch(t) == {r \in retired_list[t] : r.epoch <= SafeEpoch}

Reclaimable(t) ==
    {r \in retired_list[t] : global_epoch >= 2 /\ r.epoch <= SafeEpoch}

NodesOf(retired) == {r.node : r \in retired}

(* Mutant of Leave: the list keeps what was deleted.                       *)
LeaveAllRetired(t) ==
    /\ local_epoch' = [local_epoch EXCEPT ![t] = Inactive]
    /\ allocated' = allocated \ NodesOf(Reclaimable(t))
    /\ UNCHANGED <<global_epoch, thread_registry, current_thread_data,
                   retired_list>>

Leave(t) ==
    /\ local_epoch' = [local_epoch EXCEPT ![t] = Inactive]
    /\ retired_list' = [retired_list EXCEPT ![t] = @ \ Reclaimable(t)]
    /\ allocated' = allocated \ NodesOf(Reclaimable(t))
    /\ UNCHANGED <<global_epoch, thread_registry, current_thread_data>>

(* Mutant of Retire: the node is forgotten.                                *)
ForgetNode(t, n) == RegisterThreadIfNeeded(t) /\ UNCHANGED
    <<global_epoch, local_epoch, retired_list, allocated>>

Retire(t, n) ==
    /\ RegisterThreadIfNeeded(t)
    /\ retired_list' = [retired_list EXCEPT
                           ![t] = @ \cup {[node |-> n, epoch |-> global_epoch]}]
    /\ UNCHANGED <<global_epoch, local_epoch, allocated>>

-----------------------------------------------------------------------------
(* The environment: other callers of the public interface, and thread ids. *)

EnvMayCall(f) ==
    /\ f \in EnvCalls
    /\ QuiescentCalls => \A t \in Threads : local_epoch[t] = Inactive

BumpEpoch ==
    /\ EnvMayCall("bump_epoch")
    /\ global_epoch < MaxEpoch
    /\ global_epoch' = global_epoch + 1
    /\ UNCHANGED <<thread_registry, current_thread_data, local_epoch,
                   retired_list, allocated>>

(* Called by t itself, outside any queue operation.  Whatever try_reclaim  *)
(* spares is deleted just after it, so the whole list goes.                *)
UnregisterThread(t) ==
    /\ EnvMayCall("unregister_thread")
    /\ local_epoch[t] = Inactive
    /\ t \in thread_registry
    /\ allocated' = allocated \ NodesOf(retired_list[t])
    /\ retired_list' = [retired_list EXCEPT ![t] = {}]
    /\ thread_registry' = thread_registry \ {t}
    /\ current_thread_data' = [current_thread_data EXCEPT ![t] = FALSE]
    /\ UNCHANGED <<global_epoch, local_epoch>>

(* A thread ends and a later one is given its id: the thread_locals are    *)
(* fresh, the registry entry and its retired list are still there.         *)
ThreadExit(t) ==
    /\ local_epoch[t] = Inactive
    /\ current_thread_data[t]
    /\ current_thread_data' = [current_thread_data EXCEPT ![t] = FALSE]
    /\ UNCHANGED <<global_epoch, thread_registry, local_epoch,
                   retired_list, allocated>>

EBREnv == BumpEpoch \/ \E t \in Threads : UnregisterThread(t) \/ ThreadExit(t)
=============================================================================
