------------------------------ MODULE MPMCQueue ------------------------------
(***************************************************************************)
(* MPMCQueue<T> of src/src/tools/EBRQueue.hpp: the Michael-Scott queue     *)
(* with its nodes managed by EBRManager.  One action per atomic load or    *)
(* compare-exchange of a shared pointer, so every interleaving of two      *)
(* threads inside enqueue, dequeue and empty is a behaviour.  Steps that   *)
(* touch only the thread's own data (allocating the new node, resetting    *)
(* a pointer that is not used again) are part of the neighbouring step.    *)
(***************************************************************************)
EXTENDS EBRManager

CONSTANTS
    Values,       \* the entries that are enqueued, each by one call
    NoValue,      \* std::nullopt
    Null,         \* nullptr
    Producers,    \* threads that call enqueue
    Consumers,    \* threads that call dequeue and empty
    SpuriousCAS,  \* compare_exchange_weak may fail although the value matches
    Scheduled     \* threads the scheduler keeps running (liveness only)

ASSUME QueueAssumption ==
    /\ NoValue \notin Values
    /\ Null \notin Nodes
    /\ Producers \subseteq Threads
    /\ Consumers \subseteq Threads
    /\ SpuriousCAS \in BOOLEAN
    /\ Scheduled \subseteq Threads

VARIABLES
    head, tail,     \* the two ends of the list; head is the dummy node
    next, data,     \* the fields of the nodes
    pc,             \* where each thread is
    op,             \* the member function it executes (and empty()'s answer)
    value,          \* the argument of enqueue, the out-parameter of dequeue
    new_node, current_head, current_tail, next_node,   \* local pointers
    unsent,         \* values no call has been given yet: bounds a behaviour
    rank            \* history: rank[n] is the position at which n was linked

heapVars  == <<allocated, next, data>>
localVars == <<op, value, new_node, current_head, current_tail, next_node>>
vars == <<ebrVars, heapVars, localVars, head, tail, pc, unsent, rank>>

Ops == {"none", "enqueue", "dequeue", "empty", "is_empty", "not_empty"}

Labels == {"idle", "load_tail", "load_tail_next", "check_tail", "link",
           "swing", "help", "load_head", "load_head_tail", "load_head_next",
           "check_head", "take_head", "move_data", "retire", "leave"}

TypeOK ==
    /\ EBRTypeOK
    /\ head \in Nodes
    /\ tail \in Nodes
    /\ next \in [Nodes -> Nodes \cup {Null}]
    /\ data \in [Nodes -> Values \cup {NoValue}]
    /\ pc \in [Threads -> Labels]
    /\ op \in [Threads -> Ops]
    /\ value \in [Threads -> Values \cup {NoValue}]
    /\ new_node \in [Threads -> Nodes \cup {Null}]
    /\ current_head \in [Threads -> Nodes \cup {Null}]
    /\ current_tail \in [Threads -> Nodes \cup {Null}]
    /\ next_node \in [Threads -> Nodes \cup {Null}]
    /\ unsent \subseteq Values
    /\ rank \in [Nodes -> Nat]

Init ==
    /\ EBRInit
    /\ head \in Nodes
    /\ tail = head
    /\ allocated = {head}
    /\ next = [n \in Nodes |-> Null]
    /\ data = [n \in Nodes |-> NoValue]
    /\ pc = [t \in Threads |-> "idle"]
    /\ op = [t \in Threads |-> "none"]
    /\ value = [t \in Threads |-> NoValue]
    /\ new_node = [t \in Threads |-> Null]
    /\ current_head = [t \in Threads |-> Null]
    /\ current_tail = [t \in Threads |-> Null]
    /\ next_node = [t \in Threads |-> Null]
    /\ unsent = Values
    /\ rank = [n \in Nodes |-> IF n = head THEN 1 ELSE 0]

-----------------------------------------------------------------------------
Goto(t, label) == pc' = [pc EXCEPT ![t] = label]

Become(f, t, x) == [f EXCEPT ![t] = x]

(* x.compare_exchange_weak(expected, desired): the values x may then have. *)
CASOutcomes(x, expected, desired) ==
    {IF x = expected THEN desired ELSE x}
        \cup (IF SpuriousCAS THEN {x} ELSE {})

(* Mutants of MoveTailTo: the wrong new value, no comparison, no step.     *)
MoveTailToNextNode(t, n) == tail' \in CASOutcomes(tail, current_tail[t], next_node[t])
StoreTail(t, n) == tail' = n
LeaveTail(t, n) == UNCHANGED tail

(* tail.compare_exchange_weak(current_tail, n), tried once                 *)
MoveTailTo(t, n) == tail' \in CASOutcomes(tail, current_tail[t], n)

(* The loop variables are loaded afresh by the next iteration.             *)
ForgetLoop(t) ==
    /\ current_head' = Become(current_head, t, Null)
    /\ current_tail' = Become(current_tail, t, Null)
    /\ next_node' = Become(next_node, t, Null)

LoopStart(t) == IF op[t] = "enqueue" THEN "load_tail" ELSE "load_head"

(* The head of the loop of enqueue or dequeue is reached again.            *)
TryAgain(t) ==
    /\ Goto(t, LoopStart(t))
    /\ ForgetLoop(t)
    /\ UNCHANGED <<op, value, new_node>>

-----------------------------------------------------------------------------
(* enqueue                                                                 *)

(* new Node(value), then enter().                                          *)
CallEnqueue(t, v) ==
    /\ pc[t] = "idle"
    /\ \E n \in Nodes \ allocated :
          /\ allocated' = allocated \cup {n}
          /\ data' = [data EXCEPT ![n] = v]
          /\ next' = [next EXCEPT ![n] = Null]
          /\ rank' = [rank EXCEPT ![n] = 0]
          /\ new_node' = Become(new_node, t, n)
    /\ Enter(t)
    /\ op' = Become(op, t, "enqueue")
    /\ value' = Become(value, t, v)
    /\ unsent' = unsent \ {v}
    /\ Goto(t, "load_tail")
    /\ UNCHANGED <<head, tail, current_head, current_tail, next_node>>

LoadTail(t) ==
    /\ pc[t] = "load_tail"
    /\ current_tail' = Become(current_tail, t, tail)
    /\ Goto(t, "load_tail_next")
    /\ UNCHANGED <<ebrVars, heapVars, head, tail, unsent, rank,
                   op, value, new_node, current_head, next_node>>

LoadTailNext(t) ==
    /\ pc[t] = "load_tail_next"
    /\ next_node' = Become(next_node, t, next[current_tail[t]])
    /\ Goto(t, "check_tail")
    /\ UNCHANGED <<ebrVars, heapVars, head, tail, unsent, rank,
                   op, value, new_node, current_head, current_tail>>

CheckTail(t) ==
    /\ pc[t] = "check_tail"
    /\ \/ /\ current_tail[t] # tail
          /\ TryAgain(t)
       \/ /\ current_tail[t] = tail
          /\ Goto(t, IF next_node[t] = Null THEN "link" ELSE "help")
          /\ UNCHANGED localVars
    /\ UNCHANGED <<ebrVars, heapVars, head, tail, unsent, rank>>

(* Mutant of LinkNode: a plain store of the next pointer.                  *)
StoreNext(t) ==
    /\ pc[t] = "link"
    /\ next' = [next EXCEPT ![current_tail[t]] = new_node[t]]
    /\ rank' = [rank EXCEPT ![new_node[t]] = rank[current_tail[t]] + 1]
    /\ Goto(t, "swing")
    /\ UNCHANGED <<ebrVars, allocated, data, head, tail, unsent, localVars>>

(* current_tail->next.compare_exchange_weak(nullptr, new_node)             *)
LinkNode(t) ==
    /\ pc[t] = "link"
    /\ \/ /\ next[current_tail[t]] = Null
          /\ next' = [next EXCEPT ![current_tail[t]] = new_node[t]]
          /\ rank' = [rank EXCEPT ![new_node[t]] = rank[current_tail[t]] + 1]
          /\ Goto(t, "swing")
          /\ UNCHANGED localVars
       \/ /\ next[current_tail[t]] # Null \/ SpuriousCAS
          /\ TryAgain(t)
          /\ UNCHANGED <<next, rank>>
    /\ UNCHANGED <<ebrVars, allocated, data, head, tail, unsent>>

(* Whether or not tail could be moved to the new node, enqueue is done.    *)
SwingTail(t) ==
    /\ pc[t] = "swing"
    /\ MoveTailTo(t, new_node[t])
    /\ current_tail' = Become(current_tail, t, Null)
    /\ new_node' = Become(new_node, t, Null)
    /\ Goto(t, "leave")
    /\ UNCHANGED <<ebrVars, heapVars, head, unsent, rank,
                   op, value, current_head, next_node>>

(* The tail lags behind: both loops move it on before they try again.      *)
HelpTail(t) ==
    /\ pc[t] = "help"
    /\ MoveTailTo(t, next_node[t])
    /\ TryAgain(t)
    /\ UNCHANGED <<ebrVars, heapVars, head, unsent, rank>>

-----------------------------------------------------------------------------
(* dequeue and empty                                                       *)

CallDequeueOrEmpty(t, f) ==
    /\ pc[t] = "idle"
    /\ Enter(t)
    /\ op' = Become(op, t, f)
    /\ Goto(t, "load_head")
    /\ UNCHANGED <<heapVars, head, tail, unsent, rank, value, new_node,
                   current_head, current_tail, next_node>>

LoadHead(t) ==
    /\ pc[t] = "load_head"
    /\ current_head' = Become(current_head, t, head)
    /\ Goto(t, "load_head_tail")
    /\ UNCHANGED <<ebrVars, heapVars, head, tail, unsent, rank,
                   op, value, new_node, current_tail, next_node>>

LoadHeadTail(t) ==
    /\ pc[t] = "load_head_tail"
    /\ current_tail' = Become(current_tail, t, tail)
    /\ Goto(t, "load_head_next")
    /\ UNCHANGED <<ebrVars, heapVars, head, tail, unsent, rank,
                   op, value, new_node, current_head, next_node>>

(* Mutant of SeesEmpty: the comparison with nullptr inverted.              *)
SeesNonNull(t) ==
    current_head[t] = current_tail[t] /\ next[current_head[t]] # Null

SeesEmpty(t) ==
    current_head[t] = current_tail[t] /\ next[current_head[t]] = Null

(* dequeue goes on to check head; empty() has its answer.                  *)
LoadHeadNext(t) ==
    /\ pc[t] = "load_head_next"
    /\ \/ /\ op[t] = "dequeue"
          /\ next_node' = Become(next_node, t, next[current_head[t]])
          /\ Goto(t, "check_head")
          /\ UNCHANGED <<op, current_head, current_tail>>
       \/ /\ op[t] = "empty"
          /\ op' = Become(op, t,
                          IF SeesEmpty(t) THEN "is_empty" ELSE "not_empty")
          /\ Goto(t, "leave")
          /\ ForgetLoop(t)
    /\ UNCHANGED <<ebrVars, heapVars, head, tail, unsent, rank,
                   value, new_node>>

(* The branches on head, tail and next_node.  A lone null next_node is the *)
(* retry the code marks "Should not happen if head != tail".               *)
CheckHead(t) ==
    /\ pc[t] = "check_head"
    /\ \/ /\ \/ current_head[t] # head
             \/ current_head[t] # current_tail[t] /\ next_node[t] = Null
          /\ TryAgain(t)
       \/ /\ current_head[t] = head
          /\ current_head[t] = current_tail[t]
          /\ next_node[t] = Null
          /\ Goto(t, "leave")
          /\ ForgetLoop(t)
          /\ UNCHANGED <<op, value, new_node>>
       \/ /\ current_head[t] = head
          /\ next_node[t] # Null
          /\ Goto(t, IF current_head[t] = current_tail[t]
                     THEN "help" ELSE "take_head")
          /\ UNCHANGED localVars
    /\ UNCHANGED <<ebrVars, heapVars, head, tail, unsent, rank>>

(* Mutant of TakeHead: a plain store of head.                              *)
StoreHead(t) ==
    /\ pc[t] = "take_head"
    /\ head' = next_node[t]
    /\ current_tail' = Become(current_tail, t, Null)
    /\ Goto(t, "move_data")
    /\ UNCHANGED <<ebrVars, heapVars, tail, unsent, rank,
                   op, value, new_node, current_head, next_node>>

(* head.compare_exchange_weak(current_head, next_node)                     *)
TakeHead(t) ==
    /\ pc[t] = "take_head"
    /\ \/ /\ head = current_head[t]
          /\ head' = next_node[t]
          /\ current_tail' = Become(current_tail, t, Null)
          /\ Goto(t, "move_data")
          /\ UNCHANGED <<op, value, new_node, current_head, next_node>>
       \/ /\ head # current_head[t] \/ SpuriousCAS
          /\ TryAgain(t)
          /\ UNCHANGED head
    /\ UNCHANGED <<ebrVars, heapVars, tail, unsent, rank>>

(* Without data the code returns false and forgets the node it unlinked.   *)
MoveData(t) ==
    /\ pc[t] = "move_data"
    /\ value' = Become(value, t, data[next_node[t]])
    /\ data' = [data EXCEPT ![next_node[t]] = NoValue]
    /\ Goto(t, IF data[next_node[t]] = NoValue THEN "leave" ELSE "retire")
    /\ next_node' = Become(next_node, t, Null)
    /\ UNCHANGED <<ebrVars, allocated, next, head, tail, unsent, rank,
                   op, new_node, current_head, current_tail>>

RetireHead(t) ==
    /\ pc[t] = "retire"
    /\ Retire(t, current_head[t])
    /\ current_head' = Become(current_head, t, Null)
    /\ Goto(t, "leave")
    /\ UNCHANGED <<next, data, head, tail, unsent, rank,
                   op, value, new_node, current_tail, next_node>>

-----------------------------------------------------------------------------
(* leave() and return to the caller.                                       *)
LeaveAndReturn(t) ==
    /\ pc[t] = "leave"
    /\ Leave(t)
    /\ op' = Become(op, t, "none")
    /\ value' = Become(value, t, NoValue)
    /\ Goto(t, "idle")
    /\ UNCHANGED <<next, data, head, tail, unsent, rank,
                   new_node, current_head, current_tail, next_node>>

EnqueueStep(t) == \/ LoadTail(t) \/ LoadTailNext(t) \/ CheckTail(t)
                  \/ LinkNode(t) \/ SwingTail(t)

DequeueStep(t) == \/ LoadHead(t) \/ LoadHeadTail(t) \/ LoadHeadNext(t)
                  \/ CheckHead(t) \/ TakeHead(t) \/ MoveData(t)
                  \/ RetireHead(t)

(* A thread that is inside an operation goes on with it.                   *)
Proceed(t) ==
    EnqueueStep(t) \/ DequeueStep(t) \/ HelpTail(t) \/ LeaveAndReturn(t)

Call(t) ==
    \/ t \in Producers /\ \E v \in unsent : CallEnqueue(t, v)
    \/ t \in Consumers /\ \E f \in {"dequeue", "empty"} :
                              CallDequeueOrEmpty(t, f)

Env == EBREnv /\ UNCHANGED <<next, data, localVars, head, tail, pc,
                             unsent, rank>>

Next == Env \/ \E t \in Threads : Call(t) \/ Proceed(t)

Spec == Init /\ [][Next]_vars

-----------------------------------------------------------------------------
(* Safety                                                                  *)

Pointers(t) ==
    {new_node[t], current_head[t], current_tail[t], next_node[t]} \ {Null}

(* Epoch-based reclamation makes memory management safe: no node that      *)
(* head, tail or a pointer a thread is still going to use refers to has    *)
(* been deleted.                                                           *)
NoDanglingPointer ==
    {head, tail} \cup UNION {Pointers(t) : t \in Threads} \subseteq allocated

(* tail never falls behind head, however dequeue's and enqueue's           *)
(* compare-exchanges interleave, and lags the end by at most one node:     *)
(* a lagging tail can be repaired by one helping step.                     *)
TailBetweenHeadAndEnd ==
    /\ rank[head] <= rank[tail]
    /\ next[tail] # Null => next[next[tail]] = Null

(* The two branches of dequeue the code comments as impossible (lines 319  *)
(* and 331) are: a null next_node is only seen when head = tail, and the   *)
(* node dequeue moves head to still holds its data.                        *)
ImpossibleBranches ==
    \A t \in Threads :
        /\ pc[t] = "check_head" /\ next_node[t] = Null
               => current_head[t] = current_tail[t]
        /\ pc[t] = "move_data" => data[next_node[t]] # NoValue

(* Who is responsible for a node: the list, the thread about to link it,   *)
(* the thread about to retire it, or a retired list.                       *)
Holders(n) ==
    {<<"list", x>> : x \in {y \in {n} : rank[n] >= rank[head]}}
    \cup {<<"new", t>> : t \in {u \in Threads :
             new_node[u] = n /\ pc[u] # "swing"}}
    \cup {<<"unlinked", t>> : t \in {u \in Threads :
             current_head[u] = n /\ pc[u] \in {"move_data", "retire"}}}
    \cup {<<"retired", t>> : t \in {u \in Threads :
             n \in NodesOf(retired_list[u])}}

(* No leak and no double delete: every allocated node has exactly one of   *)
(* these holders, in particular it is in at most one retired list and in   *)
(* none while it is still in the list.                                     *)
MemoryAccounted == \A n \in allocated : Cardinality(Holders(n)) = 1

(* What AsyncLogger::background_flush relies on: when the only consumer is *)
(* told by empty() that there is an element, dequeue will find it, so      *)
(* "!empty() && dequeue()" cannot go wrong between the two calls.          *)
SoleConsumerFindsElement ==
    \A t \in Threads :
        Consumers = {t} /\ op[t] = "not_empty" => next[head] # Null

-----------------------------------------------------------------------------
(* MPMCQueue implements FIFOQueue.                                         *)

End == CHOOSE n \in allocated : rank[n] >= rank[head] /\ next[n] = Null

NodeAt(r) == CHOOSE n \in allocated : rank[n] = r

AbsQueue == [i \in 1..(rank[End] - rank[head]) |-> data[NodeAt(rank[head] + i)]]

(* An enqueue takes effect when its node is linked, a dequeue when head    *)
(* moves, an empty result when the null next pointer is loaded.            *)
AbsCall ==
    [t \in Threads |->
        [op    |-> CASE op[t] = "is_empty"  -> "empty"
                     [] op[t] = "not_empty" -> "nonempty"
                     [] OTHER               -> op[t],
         value |-> IF pc[t] = "move_data" THEN data[next_node[t]] ELSE value[t],
         done  |-> \/ pc[t] \in {"swing", "move_data", "retire", "leave"}
                   \/ pc[t] = "check_head" /\ next_node[t] = Null]]

FIFO == INSTANCE FIFOQueue WITH queue <- AbsQueue, call <- AbsCall

(* Every behaviour of the lock-free queue is one of a FIFO queue whose     *)
(* operations are atomic: nothing is lost, duplicated or reordered, and    *)
(* "empty" is only reported of a queue that was empty during the call.     *)
ImplementsFIFO == FIFO!Spec

-----------------------------------------------------------------------------
(* Liveness                                                                *)

(* Only the threads of Scheduled are; any other may stop anywhere.         *)
LiveSpec == Spec /\ \A t \in Scheduled : WF_vars(Proceed(t))

(* Lock-freedom: an operation of a scheduled thread returns even when the  *)
(* other threads have stopped in the middle of theirs.                     *)
OperationsReturn == \A t \in Scheduled : pc[t] # "idle" ~> pc[t] = "idle"
=============================================================================
