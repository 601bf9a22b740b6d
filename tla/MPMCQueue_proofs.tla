-------------------------- MODULE MPMCQueue_proofs --------------------------
(***************************************************************************)
(* Theorems about MPMCQueue, for any number of threads, nodes and values.  *)
(* TypeCorrect holds in every environment, the others in a QuietEnv: the   *)
(* environment changes the epoch and the registry of the reclamation at    *)
(* most while no thread is inside a queue operation.                       *)
(***************************************************************************)
EXTENDS MPMCQueue, FiniteSetTheorems, SequenceTheorems, TLAPS

(* Between its allocation and its linking a node belongs to the enqueue.   *)
Unlinked(t) ==
    \/ pc[t] \in {"load_tail", "load_tail_next", "check_tail", "link"}
    \/ pc[t] = "help" /\ op[t] = "enqueue"

(* A node taken off the list is the dequeue's until it is retired.         *)
Detached(t) == pc[t] \in {"move_data", "retire"}

(* What each program point knows about the thread's own variables.         *)
LocalsOK(t) ==
    /\ pc[t] \in {"load_tail", "load_tail_next", "check_tail", "link", "swing"}
           => op[t] = "enqueue"
    /\ pc[t] \in {"load_head", "load_head_tail", "load_head_next"}
           => op[t] \in {"dequeue", "empty"}
    /\ pc[t] \in {"check_head", "take_head", "move_data", "retire"}
           => op[t] = "dequeue"
    /\ pc[t] = "help" => op[t] \in {"enqueue", "dequeue"}
    /\ Unlinked(t) \/ pc[t] = "swing" => new_node[t] # Null
    /\ pc[t] \in {"load_tail_next", "check_tail", "link", "swing", "help",
                  "load_head_next", "check_head", "take_head"}
           => current_tail[t] # Null
    /\ pc[t] \in {"load_head_tail", "load_head_next", "check_head",
                  "take_head", "move_data", "retire"}
           => current_head[t] # Null
    /\ pc[t] \in {"help", "take_head", "move_data"} => next_node[t] # Null

TypeInv == TypeOK /\ \A t \in Threads : LocalsOK(t)

-----------------------------------------------------------------------------
(* Type correctness                                                        *)

(* The types hold in a new queue.                                          *)
THEOREM TypeInit == Init => TypeInv
BY EBRAssumption, QueueAssumption
   DEF Init, EBRInit, TypeInv, TypeOK, EBRTypeOK, LocalsOK, Unlinked, Labels,
       Ops, Inactive

(* Every step of the queue, of the reclamation and of its environment      *)
(* keeps the types.                                                        *)
THEOREM TypeNext == TypeInv /\ [Next]_vars => TypeInv'
<1> SUFFICES ASSUME TypeInv, [Next]_vars PROVE TypeInv'
  OBVIOUS
<1> USE EBRAssumption, QueueAssumption
    DEF TypeInv, TypeOK, EBRTypeOK, LocalsOK, Unlinked, Labels, Ops, Goto,
        Become, ebrVars, heapVars, localVars
<1>1. ASSUME NEW t \in Threads, NEW v \in unsent, CallEnqueue(t, v)
      PROVE  TypeInv'
  BY <1>1 DEF CallEnqueue, Enter, RegisterThreadIfNeeded
<1>2. ASSUME NEW t \in Threads, NEW f \in {"dequeue", "empty"},
             CallDequeueOrEmpty(t, f)
      PROVE  TypeInv'
  BY <1>2 DEF CallDequeueOrEmpty, Enter, RegisterThreadIfNeeded
<1>3. ASSUME NEW t \in Threads, LoadTail(t) PROVE TypeInv'
  BY <1>3 DEF LoadTail
<1>4. ASSUME NEW t \in Threads, LoadTailNext(t) PROVE TypeInv'
  BY <1>4 DEF LoadTailNext
<1>5. ASSUME NEW t \in Threads, CheckTail(t) PROVE TypeInv'
  BY <1>5 DEF CheckTail, TryAgain, LoopStart, ForgetLoop
<1>6. ASSUME NEW t \in Threads, LinkNode(t) PROVE TypeInv'
  BY <1>6 DEF LinkNode, TryAgain, LoopStart, ForgetLoop
<1>7. ASSUME NEW t \in Threads, SwingTail(t) PROVE TypeInv'
  BY <1>7 DEF SwingTail, MoveTailTo, CASOutcomes
<1>8. ASSUME NEW t \in Threads, LoadHead(t) PROVE TypeInv'
  BY <1>8 DEF LoadHead
<1>9. ASSUME NEW t \in Threads, LoadHeadTail(t) PROVE TypeInv'
  BY <1>9 DEF LoadHeadTail
<1>10. ASSUME NEW t \in Threads, LoadHeadNext(t) PROVE TypeInv'
  BY <1>10 DEF LoadHeadNext, ForgetLoop, SeesEmpty
<1>11. ASSUME NEW t \in Threads, CheckHead(t) PROVE TypeInv'
  BY <1>11 DEF CheckHead, TryAgain, LoopStart, ForgetLoop
<1>12. ASSUME NEW t \in Threads, TakeHead(t) PROVE TypeInv'
  BY <1>12 DEF TakeHead, TryAgain, LoopStart, ForgetLoop
<1>13. ASSUME NEW t \in Threads, MoveData(t) PROVE TypeInv'
  BY <1>13 DEF MoveData
<1>14. ASSUME NEW t \in Threads, RetireHead(t) PROVE TypeInv'
  BY <1>14 DEF RetireHead, Retire, RegisterThreadIfNeeded, RetiredNode
<1>15. ASSUME NEW t \in Threads, HelpTail(t) PROVE TypeInv'
  BY <1>15 DEF HelpTail, MoveTailTo, CASOutcomes, TryAgain, LoopStart, ForgetLoop
<1>16. ASSUME NEW t \in Threads, LeaveAndReturn(t) PROVE TypeInv'
  BY <1>16 DEF LeaveAndReturn, Leave, Reclaimable, NodesOf
<1>17. CASE Env
  <2> USE <1>17 DEF Env
  <2>1. CASE BumpEpoch
    BY <2>1 DEF BumpEpoch
  <2>2. ASSUME NEW t \in Threads, UnregisterThread(t) PROVE TypeInv'
    BY <2>2 DEF UnregisterThread, NodesOf
  <2>3. ASSUME NEW t \in Threads, ThreadExit(t) PROVE TypeInv'
    BY <2>3 DEF ThreadExit
  <2> QED
    BY <2>1, <2>2, <2>3 DEF EBREnv
<1>18. CASE UNCHANGED vars
  BY <1>18 DEF vars
<1> QED
  BY <1>1, <1>2, <1>3, <1>4, <1>5, <1>6, <1>7, <1>8, <1>9, <1>10, <1>11, <1>12, <1>13, <1>14, <1>15, <1>16, <1>17, <1>18
     DEF Next, Call, Proceed, EnqueueStep, DequeueStep

(* Every variable keeps its type, and no program point dereferences a      *)
(* null pointer.                                                           *)
THEOREM TypeCorrect == Spec => []TypeOK
<1>1. TypeInv => TypeOK
  BY DEF TypeInv
<1> QED
  BY TypeInit, TypeNext, <1>1, PTL DEF Spec

-----------------------------------------------------------------------------
(* What a thread holds outside the steps that need it                      *)

(* A pointer is set only where it is used, and a thread has an epoch, an   *)
(* operation and a value only while it is inside a call.                   *)
CallOK(t) ==
    /\ new_node[t] # Null => Unlinked(t) \/ pc[t] = "swing"
    /\ current_tail[t] # Null
           => pc[t] \in {"load_tail_next", "check_tail", "link", "swing", "help",
                         "load_head_next", "check_head", "take_head"}
    /\ next_node[t] # Null
           => pc[t] \in {"check_tail", "help", "check_head", "take_head",
                         "move_data"}
    /\ pc[t] = "idle" <=> local_epoch[t] = Inactive
    /\ pc[t] = "idle" => op[t] = "none" /\ value[t] = NoValue
    /\ pc[t] = "leave" => op[t] \in {"enqueue", "dequeue", "is_empty", "not_empty"}
    /\ op[t] \in {"is_empty", "not_empty"} => pc[t] = "leave"
    /\ op[t] = "enqueue" => value[t] \in Values
    /\ op[t] \in {"empty", "is_empty", "not_empty"} => value[t] = NoValue
    /\ op[t] = "dequeue" /\ pc[t] \notin {"retire", "leave"} => value[t] = NoValue
    /\ op[t] \in {"dequeue", "empty"} => t \in Consumers

CallInv == \A t \in Threads : CallOK(t)

(* A new queue is in no call.                                              *)
LEMMA CallInit == Init => CallInv
BY DEF Init, EBRInit, CallInv, CallOK, Unlinked

(* What the thread does itself is all that matters to CallOK.              *)
LEMMA CallStay ==
  ASSUME CallInv, NEW t \in Threads, CallOK(t)',
         \A u \in Threads \ {t} :
             /\ pc'[u] = pc[u]
             /\ op'[u] = op[u]
             /\ value'[u] = value[u]
             /\ local_epoch'[u] = local_epoch[u]
             /\ new_node'[u] = new_node[u]
             /\ current_head'[u] = current_head[u]
             /\ current_tail'[u] = current_tail[u]
             /\ next_node'[u] = next_node[u]
  PROVE  CallInv'
BY DEF CallInv, CallOK, Unlinked

(* Every step keeps to that.                                               *)
LEMMA CallNext == TypeInv /\ CallInv /\ [Next]_vars => CallInv'
<1> SUFFICES ASSUME TypeInv, CallInv, [Next]_vars PROVE CallInv'
  OBVIOUS
<1> USE EBRAssumption, QueueAssumption
    DEF TypeInv, TypeOK, EBRTypeOK, LocalsOK, Unlinked, Goto, Become, Inactive,
        ebrVars, heapVars, localVars
<1>1. ASSUME NEW t \in Threads, NEW v \in unsent, CallEnqueue(t, v)
      PROVE  CallInv'
  <2>1. CallOK(t)'
    BY <1>1 DEF CallEnqueue, Enter, CallInv, CallOK
  <2> QED
    BY <1>1, <2>1, CallStay DEF CallEnqueue, Enter
<1>2. ASSUME NEW t \in Consumers, NEW f \in {"dequeue", "empty"},
             CallDequeueOrEmpty(t, f)
      PROVE  CallInv'
  <2>1. CallOK(t)'
    BY <1>2 DEF CallDequeueOrEmpty, Enter, CallInv, CallOK
  <2> QED
    BY <1>2, <2>1, CallStay DEF CallDequeueOrEmpty, Enter
<1>3. ASSUME NEW t \in Threads, EnqueueStep(t) PROVE CallInv'
  <2> USE DEF LoadTail, LoadTailNext, CheckTail, LinkNode, SwingTail,
              TryAgain, LoopStart, ForgetLoop
  <2>1. CallOK(t)'
    <3>1. CASE LoadTail(t) \/ LoadTailNext(t)
      BY <3>1 DEF CallInv, CallOK
    <3>2. CASE CheckTail(t)
      BY <3>2 DEF CallInv, CallOK
    <3>3. CASE LinkNode(t)
      BY <3>3 DEF CallInv, CallOK
    <3>4. CASE SwingTail(t)
      BY <3>4 DEF CallInv, CallOK
    <3> QED
      BY <1>3, <3>1, <3>2, <3>3, <3>4 DEF EnqueueStep
  <2> QED
    BY <1>3, <2>1, CallStay DEF EnqueueStep
<1>4. ASSUME NEW t \in Threads, DequeueStep(t) PROVE CallInv'
  <2> USE DEF LoadHead, LoadHeadTail, LoadHeadNext, CheckHead, TakeHead,
              MoveData, RetireHead, Retire, TryAgain, LoopStart, ForgetLoop
  <2>1. CallOK(t)'
    <3>1. CASE LoadHead(t) \/ LoadHeadTail(t)
      BY <3>1 DEF CallInv, CallOK
    <3>2. CASE LoadHeadNext(t)
      BY <3>2 DEF CallInv, CallOK
    <3>3. CASE CheckHead(t)
      BY <3>3 DEF CallInv, CallOK
    <3>4. CASE TakeHead(t)
      BY <3>4 DEF CallInv, CallOK
    <3>5. CASE MoveData(t) \/ RetireHead(t)
      BY <3>5 DEF CallInv, CallOK
    <3> QED
      BY <1>4, <3>1, <3>2, <3>3, <3>4, <3>5 DEF DequeueStep
  <2> QED
    BY <1>4, <2>1, CallStay DEF DequeueStep
<1>5. ASSUME NEW t \in Threads, HelpTail(t) PROVE CallInv'
  <2> USE DEF HelpTail, TryAgain, LoopStart, ForgetLoop
  <2>1. CallOK(t)'
    BY <1>5 DEF CallInv, CallOK
  <2> QED
    BY <1>5, <2>1, CallStay
<1>6. ASSUME NEW t \in Threads, LeaveAndReturn(t) PROVE CallInv'
  <2> USE DEF LeaveAndReturn, Leave
  <2>1. CallOK(t)'
    BY <1>6 DEF CallInv, CallOK
  <2> QED
    BY <1>6, <2>1, CallStay
<1>7. CASE Env
  BY <1>7 DEF Env, EBREnv, BumpEpoch, UnregisterThread, ThreadExit, CallInv, CallOK
<1>8. CASE UNCHANGED vars
  BY <1>8 DEF vars, CallInv, CallOK
<1> QED
  BY <1>1, <1>2, <1>3, <1>4, <1>5, <1>6, <1>7, <1>8 DEF Next, Call, Proceed

-----------------------------------------------------------------------------
(* The inductive invariant behind the safety theorems.  rank numbers the   *)
(* nodes in the order in which they were linked.  Nodes linked before the  *)
(* last time the epoch was bumped or a thread unregistered may be deleted; *)
(* nobody has a pointer to them.  floor is a rank that separates them from *)
(* the live ones.                                                          *)

Live(floor) == {n \in allocated : rank[n] >= floor}

(* The live nodes form one chain in the order of their ranks, head and     *)
(* tail are on it, tail is at most one node from its end, and the nodes    *)
(* after head hold their data and have no gap between them.                *)
ListOK(floor) ==
    /\ head \in Live(floor)
    /\ tail \in Live(floor)
    /\ rank[head] <= rank[tail]
    /\ \A n \in Live(floor) :
          /\ next[n] # Null => /\ next[n] \in Live(floor)
                               /\ rank[next[n]] = rank[n] + 1
          /\ next[n] = Null => \A m \in Live(floor) : rank[m] <= rank[n]
          /\ rank[n] <= rank[tail] + 1
          /\ rank[n] > rank[head] => data[n] # NoValue
          /\ \A r \in rank[head]..rank[n] : \E m \in Live(floor) : rank[m] = r
    /\ \A m, n \in Live(floor) : rank[m] = rank[n] => m = n

(* The node a thread is about to link is its own.                          *)
NewNodeOK(t, floor) ==
    /\ Unlinked(t) => /\ new_node[t] \in allocated
                      /\ rank[new_node[t]] = 0
                      /\ next[new_node[t]] = Null
                      /\ data[new_node[t]] = value[t]
    /\ pc[t] = "swing" => /\ new_node[t] \in Live(floor)
                          /\ rank[new_node[t]] = rank[current_tail[t]] + 1

(* Loaded pointers lag behind head and tail, in a known order.             *)
LoadedOK(t, floor) ==
    /\ current_head[t] # Null => /\ current_head[t] \in Live(floor)
                                 /\ rank[current_head[t]] <= rank[head]
                                 /\ op[t] \in {"dequeue", "empty"}
                                 /\ pc[t] # "leave"
    /\ current_tail[t] # Null => /\ current_tail[t] \in Live(floor)
                                 /\ rank[current_tail[t]] <= rank[tail]
    /\ next_node[t] # Null => next_node[t] \in Live(floor)
    /\ pc[t] \in {"check_tail", "help"} /\ next_node[t] # Null
           => rank[next_node[t]] = rank[current_tail[t]] + 1
    /\ pc[t] \in {"check_head", "take_head", "move_data"} /\ next_node[t] # Null
           => rank[next_node[t]] = rank[current_head[t]] + 1
    /\ pc[t] \in {"load_head_next", "check_head", "take_head"}
           => rank[current_head[t]] <= rank[current_tail[t]]
    /\ pc[t] = "check_head" /\ next_node[t] = Null
           => current_head[t] = current_tail[t]
    /\ pc[t] = "take_head" => current_head[t] # current_tail[t]
    /\ pc[t] = "move_data" => /\ rank[next_node[t]] <= rank[head]
                              /\ data[next_node[t]] # NoValue
    /\ Detached(t) => rank[current_head[t]] < rank[head]

(* No two threads own the same new node, move the same node's data or are  *)
(* about to retire the same node.                                          *)
Exclusive(t, u) ==
    /\ Unlinked(t) /\ Unlinked(u) => new_node[t] # new_node[u]
    /\ pc[t] = "move_data" /\ pc[u] = "move_data" => next_node[t] # next_node[u]
    /\ Detached(t) /\ Detached(u) => current_head[t] # current_head[u]

ListInv(floor) ==
    /\ ListOK(floor)
    /\ \A t \in Threads : NewNodeOK(t, floor) /\ LoadedOK(t, floor)
    /\ \A t, u \in Threads : t # u => Exclusive(t, u)

(* A retired node is behind head, in one list once and in nobody's hands;  *)
(* if it was retired in an earlier epoch it is not live.                   *)
RetiredOK(floor) ==
    \A t \in Threads : \A r \in retired_list[t] :
        /\ r.node \in allocated
        /\ 0 < rank[r.node] /\ rank[r.node] < rank[head]
        /\ r.epoch < global_epoch => rank[r.node] < floor
        /\ \A u \in Threads :
              /\ Detached(u) => current_head[u] # r.node
              /\ \A s \in retired_list[u] : s.node = r.node => t = u /\ r = s

(* Every node that is neither in the list nor new is retired or about to   *)
(* be.                                                                     *)
Accounted ==
    \A n \in allocated :
        \/ rank[n] >= rank[head]
        \/ \E t \in Threads : \/ Unlinked(t) /\ new_node[t] = n
                              \/ Detached(t) /\ current_head[t] = n
                              \/ n \in NodesOf(retired_list[t])

QueueInv ==
    /\ Accounted
    /\ \E floor \in Nat \ {0} : ListInv(floor) /\ RetiredOK(floor)

-----------------------------------------------------------------------------
(* The safety invariant is inductive                                       *)

(* A step that leaves the list alone and deletes only nodes that were in   *)
(* it once and are no longer live.                                         *)
SameList(floor) ==
    /\ UNCHANGED <<next, data, rank, head, tail>>
    /\ Live(floor)' = Live(floor)
    /\ \A n \in allocated : rank[n] = 0 => n \in allocated'

UnchangedLocals(u) ==
    /\ pc'[u] = pc[u]
    /\ op'[u] = op[u]
    /\ value'[u] = value[u]
    /\ new_node'[u] = new_node[u]
    /\ current_head'[u] = current_head[u]
    /\ current_tail'[u] = current_tail[u]
    /\ next_node'[u] = next_node[u]

(* A step of t that changes only variables of its own keeps the invariant  *)
(* if what t has loaded still fits the program point it reaches.           *)
LEMMA LocalStep ==
  ASSUME NEW floor \in Nat \ {0}, TypeInv, ListInv(floor), NEW t \in Threads,
         SameList(floor), UNCHANGED new_node,
         \A u \in Threads \ {t} : UnchangedLocals(u),
         pc'[t] \notin {"swing", "move_data", "retire"},
         Unlinked(t)' => Unlinked(t) /\ value'[t] = value[t],
         LoadedOK(t, floor)'
  PROVE  ListInv(floor)'
<1>1. ListOK(floor)'
  BY DEF ListInv, ListOK, SameList
<1>2. ASSUME NEW u \in Threads PROVE NewNodeOK(u, floor)'
  BY DEF ListInv, NewNodeOK, Unlinked, SameList, UnchangedLocals
<1>3. ASSUME NEW u \in Threads PROVE LoadedOK(u, floor)'
  BY DEF ListInv, LoadedOK, Detached, SameList, UnchangedLocals
<1>4. ASSUME NEW u \in Threads, NEW w \in Threads, u # w
      PROVE  Exclusive(u, w)'
  BY <1>4 DEF ListInv, Exclusive, Unlinked, Detached, UnchangedLocals
<1> QED
  BY <1>1, <1>2, <1>3, <1>4 DEF ListInv

(* What a thread that does not move keeps when the list only grows and     *)
(* head and tail only advance.                                             *)
LEMMA OthersStay ==
  ASSUME NEW floor \in Nat \ {0}, TypeInv, TypeInv', ListInv(floor),
         NEW u \in Threads, UnchangedLocals(u),
         Live(floor) \subseteq Live(floor)', \A n \in Live(floor) : rank'[n] = rank[n],
         rank[head] <= rank'[head'], rank[tail] <= rank'[tail'],
         pc[u] = "move_data" => data'[next_node[u]] = data[next_node[u]]
  PROVE  LoadedOK(u, floor)'
<1>1. /\ LoadedOK(u, floor)
      /\ {rank[head], rank[tail], rank'[head'], rank'[tail']} \subseteq Nat
  BY DEF ListInv, TypeInv, TypeOK
<1>2. \A n \in Live(floor) : n \in Live(floor)' /\ rank'[n] = rank[n] /\ rank[n] \in Nat
  BY DEF Live, TypeInv, TypeOK, EBRTypeOK
<1>3. pc[u] = "move_data" => next_node[u] # Null
  BY DEF TypeInv, LocalsOK
<1>4. /\ current_head[u] # Null => /\ current_head[u] \in Live(floor)'
                                   /\ rank'[current_head[u]] <= rank'[head']
      /\ current_tail[u] # Null => /\ current_tail[u] \in Live(floor)'
                                   /\ rank'[current_tail[u]] <= rank'[tail']
      /\ next_node[u] # Null => next_node[u] \in Live(floor)'
  BY <1>1, <1>2 DEF LoadedOK
<1>5. pc[u] = "move_data" => /\ rank'[next_node[u]] <= rank'[head']
                             /\ data'[next_node[u]] # NoValue
  BY <1>1, <1>2, <1>3 DEF LoadedOK
<1>6. /\ pc[u] \in {"load_tail_next", "check_tail", "help", "load_head_next",
                     "check_head", "take_head"} => current_tail[u] # Null
      /\ pc[u] \in {"load_head_next", "check_head", "take_head", "move_data",
                     "retire"}
           => current_head[u] # Null
  BY DEF TypeInv, LocalsOK
<1>7. Detached(u) => rank'[current_head[u]] < rank'[head']
  BY <1>1, <1>2, <1>6 DEF LoadedOK, Detached
<1> QED
  BY <1>1, <1>2, <1>4, <1>5, <1>6, <1>7 DEF LoadedOK, Detached, UnchangedLocals

(* The loads and the comparison of enqueue keep the invariant.             *)
LEMMA EnqueueLocal ==
  ASSUME NEW floor \in Nat \ {0}, TypeInv, CallInv, ListInv(floor),
         NEW t \in Threads,
         LoadTail(t) \/ LoadTailNext(t) \/ CheckTail(t)
  PROVE  ListInv(floor)'
<1> USE DEF TypeInv, TypeOK, LocalsOK, Goto, Become, ebrVars, heapVars,
            localVars, Unlinked, Detached, ListInv, UnchangedLocals
<1>1. CASE LoadTail(t)
  <2>1. LoadedOK(t, floor)'
    BY <1>1 DEF LoadTail, LoadedOK, ListOK, Live
  <2> QED
    BY <1>1, <2>1, LocalStep DEF SameList, Live, LoadTail
<1>2. CASE LoadTailNext(t)
  <2>1. LoadedOK(t, floor)'
    BY <1>2 DEF LoadTailNext, LoadedOK, ListOK, Live
  <2> QED
    BY <1>2, <2>1, LocalStep DEF SameList, Live, LoadTailNext
<1>3. CASE CheckTail(t)
  <2>1. LoadedOK(t, floor)'
    BY <1>3 DEF CheckTail, TryAgain, ForgetLoop, LoopStart, LoadedOK, Live
  <2> QED
    BY <1>3, <2>1, LocalStep DEF SameList, Live, CheckTail, TryAgain, ForgetLoop, LoopStart
<1> QED
  BY <1>1, <1>2, <1>3

(* The loads and the comparison of dequeue and empty, and the retiring of  *)
(* the old dummy, keep the invariant.                                      *)
LEMMA DequeueLocal ==
  ASSUME NEW floor \in Nat \ {0}, TypeInv, CallInv, ListInv(floor),
         NEW t \in Threads,
         \/ LoadHead(t) \/ LoadHeadTail(t) \/ LoadHeadNext(t) \/ CheckHead(t)
         \/ RetireHead(t)
         \/ \E f \in {"dequeue", "empty"} : CallDequeueOrEmpty(t, f)
  PROVE  ListInv(floor)'
<1> USE DEF TypeInv, TypeOK, LocalsOK, Goto, Become, ebrVars, heapVars,
            localVars, Unlinked, Detached, ListInv, UnchangedLocals
<1>1. CASE LoadHead(t)
  <2>1. LoadedOK(t, floor)'
    BY <1>1 DEF LoadHead, LoadedOK, ListOK, Live
  <2> QED
    BY <1>1, <2>1, LocalStep DEF SameList, Live, LoadHead
<1>2. CASE LoadHeadTail(t)
  <2>1. LoadedOK(t, floor)'
    BY <1>2 DEF LoadHeadTail, LoadedOK, ListOK, Live
  <2> QED
    BY <1>2, <2>1, LocalStep DEF SameList, Live, LoadHeadTail
<1>3. CASE LoadHeadNext(t)
  <2>1. LoadedOK(t, floor)'
    BY <1>3 DEF LoadHeadNext, ForgetLoop, LoadedOK, ListOK, Live
  <2> QED
    BY <1>3, <2>1, LocalStep DEF SameList, Live, LoadHeadNext, ForgetLoop
<1>4. CASE CheckHead(t)
  <2>1. LoadedOK(t, floor)'
    BY <1>4 DEF CheckHead, TryAgain, ForgetLoop, LoopStart, LoadedOK, Live
  <2> QED
    BY <1>4, <2>1, LocalStep DEF SameList, Live, CheckHead, TryAgain, ForgetLoop, LoopStart
<1>5. CASE RetireHead(t)
  <2>1. LoadedOK(t, floor)'
    BY <1>5 DEF RetireHead, Retire, LoadedOK, Live
  <2> QED
    BY <1>5, <2>1, LocalStep DEF SameList, Live, RetireHead, Retire
<1>6. ASSUME NEW f \in {"dequeue", "empty"}, CallDequeueOrEmpty(t, f)
      PROVE  ListInv(floor)'
  <2>1. LoadedOK(t, floor)'
    BY <1>6 DEF CallDequeueOrEmpty, Enter, LoadedOK, Live, CallInv,
                CallOK
  <2> QED
    BY <1>6, <2>1, LocalStep DEF SameList, Live, CallDequeueOrEmpty, Enter
<1> QED
  BY <1>1, <1>2, <1>3, <1>4, <1>5, <1>6

(* The node new returns is on no list and in no other thread's hands.      *)
LEMMA CallEnqueueStep ==
  ASSUME NEW floor \in Nat \ {0}, TypeInv, TypeInv', CallInv, ListInv(floor),
         NEW t \in Threads, NEW v \in unsent,
         CallEnqueue(t, v)
  PROVE  ListInv(floor)'
<1> USE DEF TypeInv, TypeOK, LocalsOK, Unlinked, Detached, CallEnqueue, Goto, Become
<1>1. PICK n \in Nodes \ allocated :
          /\ allocated' = allocated \cup {n}
          /\ data' = [data EXCEPT ![n] = v]
          /\ next' = [next EXCEPT ![n] = Null]
          /\ rank' = [rank EXCEPT ![n] = 0]
          /\ new_node' = [new_node EXCEPT ![t] = n]
  OBVIOUS
<1>2. \A u \in Threads \ {t} : UnchangedLocals(u)
  BY <1>1 DEF UnchangedLocals
<1>3. /\ Live(floor)' = Live(floor)
      /\ \A m \in allocated : /\ m # n
                              /\ rank'[m] = rank[m]
                              /\ next'[m] = next[m]
                              /\ data'[m] = data[m]
  BY <1>1 DEF Live, EBRTypeOK
<1>4. Live(floor) \subseteq allocated
  BY DEF Live
<1>5. ListOK(floor)'
  BY <1>1, <1>3, <1>4 DEF ListInv, ListOK
<1>6. ASSUME NEW u \in Threads PROVE NewNodeOK(u, floor)'
  <2>1. CASE u = t
    BY <1>1, <2>1, QueueAssumption DEF NewNodeOK
  <2>2. CASE u # t
    BY <1>1, <1>2, <1>3, <1>4, <2>2
       DEF ListInv, NewNodeOK, LoadedOK, UnchangedLocals
  <2> QED
    BY <2>1, <2>2
<1>7. ASSUME NEW u \in Threads PROVE LoadedOK(u, floor)'
  <2>1. CASE u = t
    <3>1. LoadedOK(t, floor) /\ head \in Live(floor) /\ tail \in Live(floor)
      BY DEF ListInv, ListOK
    <3>2. pc'[t] = "load_tail" /\ current_head[t] = Null
      BY <3>1 DEF LoadedOK, CallInv, CallOK
    <3> QED
      BY <1>3, <1>4, <2>1, <3>1, <3>2 DEF LoadedOK
  <2>2. CASE u # t
    BY <1>2, <1>3, <1>4, <2>2, OthersStay DEF ListInv, ListOK, LoadedOK
  <2> QED
    BY <2>1, <2>2
<1>8. ASSUME NEW u \in Threads, NEW w \in Threads, u # w
      PROVE  Exclusive(u, w)'
  BY <1>1, <1>8 DEF ListInv, Exclusive, NewNodeOK
<1> QED
  BY <1>5, <1>6, <1>7, <1>8 DEF ListInv, Enter

(* Linking appends the new node: current_tail was the end of the list.     *)
LEMMA LinkNodeStep ==
  ASSUME NEW floor \in Nat \ {0}, TypeInv, TypeInv', CallInv, ListInv(floor),
         NEW t \in Threads, LinkNode(t)
  PROVE  ListInv(floor)'
<1> USE DEF TypeInv, TypeOK, LocalsOK, Unlinked, Detached, LinkNode, Goto, Become
<1> DEFINE n == new_node[t]
           c == current_tail[t]
<1>1. CASE /\ next[c] = Null
           /\ next' = [next EXCEPT ![c] = n]
           /\ rank' = [rank EXCEPT ![n] = rank[c] + 1]
           /\ pc' = [pc EXCEPT ![t] = "swing"]
           /\ UNCHANGED localVars
  <2> USE <1>1 DEF localVars
  <2>1. /\ n \in allocated \ Live(floor)
        /\ n # c
        /\ next[n] = Null
        /\ data[n] # NoValue
        /\ c \in Live(floor)
        /\ rank[c] <= rank[tail]
        /\ \A m \in Live(floor) : rank[m] <= rank[c]
    <3>1. NewNodeOK(t, floor) /\ LoadedOK(t, floor) /\ ListOK(floor) /\ CallOK(t)
      BY DEF ListInv, CallInv
    <3>2. /\ c \in Live(floor)
          /\ rank[c] <= rank[tail]
          /\ \A m \in Live(floor) : rank[m] <= rank[c]
      BY <3>1 DEF LoadedOK, ListOK
    <3>3. /\ n \in allocated
          /\ rank[n] = 0
          /\ next[n] = Null
          /\ data[n] # NoValue
      BY <3>1, QueueAssumption DEF NewNodeOK, CallOK
    <3>4. n \notin Live(floor)
      BY <3>3 DEF Live
    <3> QED
      BY <3>2, <3>3, <3>4
  <2>2. /\ Live(floor)' = Live(floor) \cup {n}
        /\ Live(floor) \subseteq Live(floor)'
        /\ \A m \in Live(floor) : rank'[m] = rank[m]
        /\ \A m \in Live(floor) : /\ m # n
                             /\ rank'[m] = rank[m]
                             /\ m # c => next'[m] = next[m] /\ next[m] # Null
        /\ next'[c] = n
        /\ next'[n] = Null
        /\ rank'[n] = rank[c] + 1
    <3>1. /\ Live(floor)' = Live(floor) \cup {n}
          /\ \A m \in Live(floor) : m # n /\ rank'[m] = rank[m]
      BY <2>1 DEF Live, EBRTypeOK, ebrVars
    <3>2. ASSUME NEW m \in Live(floor), m # c
          PROVE  next'[m] = next[m] /\ next[m] # Null
      <4>1. m \in Nodes /\ c \in Nodes
        BY <2>1 DEF Live, EBRTypeOK
      <4>2. CASE next[m] = Null
        <5>1. rank[c] <= rank[m]
          BY <2>1, <4>2 DEF ListInv, ListOK
        <5>2. rank[m] = rank[c]
          BY <2>1, <4>1, <5>1
        <5> QED
          BY <2>1, <3>2, <5>2 DEF ListInv, ListOK
      <4> QED
        BY <3>2, <4>1, <4>2
    <3> QED
      BY <2>1, <3>1, <3>2
  <2>3. Live(floor) \subseteq allocated /\ allocated \subseteq Nodes
    BY DEF Live, EBRTypeOK
  <2>4. ListOK(floor)'
    <3> DEFINE M == Live(floor) \cup {n}
    <3>1. ListOK(floor)
      BY DEF ListInv
    <3>2. ASSUME NEW m \in M, NEW r \in rank'[head]..rank'[m]
          PROVE  \E w \in M : rank'[w] = r
      <4>1. CASE m \in Live(floor)
        BY <2>1, <2>2, <2>3, <3>1, <3>2, <4>1 DEF ListOK
      <4>2. CASE m = n /\ r = rank[c] + 1
        BY <2>2, <4>2
      <4>3. CASE m = n /\ r # rank[c] + 1
        <5>1. r \in rank[head]..rank[c]
          BY <2>1, <2>2, <2>3, <3>1, <3>2, <4>3 DEF ListOK
        <5> QED
          BY <2>1, <2>2, <3>1, <5>1 DEF ListOK
      <4> QED
        BY <4>1, <4>2, <4>3
    <3>3. ASSUME NEW m \in M
          PROVE  /\ next'[m] # Null => /\ next'[m] \in M
                                       /\ rank'[next'[m]] = rank'[m] + 1
                 /\ next'[m] = Null => \A w \in M : rank'[w] <= rank'[m]
                 /\ rank'[m] <= rank'[tail] + 1
                 /\ rank'[m] > rank'[head] => data[m] # NoValue
      BY <2>1, <2>2, <2>3, <3>1 DEF ListOK
    <3>4. \A m, w \in M : rank'[m] = rank'[w] => w = m
      BY <2>1, <2>2, <2>3, <3>1 DEF ListOK
    <3>5. head \in M /\ tail \in M /\ rank'[head] <= rank'[tail]
      <4>1. head \in Live(floor) /\ tail \in Live(floor) /\ rank[head] <= rank[tail]
        BY <3>1 DEF ListOK
      <4> QED
        BY <2>2, <4>1
    <3> QED
      BY <2>2, <3>2, <3>3, <3>4, <3>5 DEF ListOK
  <2>5. ASSUME NEW u \in Threads \ {t} PROVE UnchangedLocals(u)
    BY DEF UnchangedLocals
  <2>6. ASSUME NEW u \in Threads PROVE NewNodeOK(u, floor)'
    <3>1. CASE u = t
      <4>1. pc'[t] = "swing" /\ new_node'[t] = n /\ current_tail'[t] = c
        OBVIOUS
      <4> QED
        BY <2>1, <2>2, <3>1, <4>1 DEF NewNodeOK
    <3>2. CASE u # t
      <4>1. NewNodeOK(u, floor) /\ LoadedOK(u, floor) /\ Exclusive(t, u) /\ UnchangedLocals(u)
        BY <2>5, <3>2 DEF ListInv
      <4>2. ASSUME Unlinked(u)
            PROVE  /\ new_node[u] \in Nodes \ {n, c}
                   /\ rank[new_node[u]] = 0
                   /\ next[new_node[u]] = Null
                   /\ data[new_node[u]] = value[u]
        <5>1. new_node[u] # n
          BY <4>1, <4>2 DEF Exclusive
        <5>2. /\ new_node[u] \in Nodes
              /\ rank[new_node[u]] = 0
              /\ next[new_node[u]] = Null
              /\ data[new_node[u]] = value[u]
          BY <4>1, <4>2 DEF NewNodeOK, EBRTypeOK
        <5>3. new_node[u] # c
          BY <2>1, <5>2 DEF Live
        <5> QED
          BY <5>1, <5>2, <5>3
      <4>3. ASSUME Unlinked(u)
            PROVE  /\ rank'[new_node[u]] = 0
                   /\ next'[new_node[u]] = Null
                   /\ data'[new_node[u]] = value[u]
        BY <4>2, <4>3
      <4>4. pc[u] = "swing" => /\ new_node[u] \in Live(floor)'
                               /\ rank'[new_node[u]] = rank'[current_tail[u]] + 1
        <5>1. ASSUME pc[u] = "swing"
              PROVE  /\ new_node[u] \in Live(floor)
                     /\ current_tail[u] \in Live(floor)
                     /\ rank[new_node[u]] = rank[current_tail[u]] + 1
          BY <4>1, <5>1 DEF NewNodeOK, LoadedOK
        <5>2. \A m \in Live(floor) : m \in Live(floor)' /\ rank'[m] = rank[m]
          BY <2>2
        <5> QED
          BY <5>1, <5>2
      <4> QED
        BY <4>1, <4>3, <4>4 DEF NewNodeOK, UnchangedLocals
    <3> QED
      BY <3>1, <3>2
  <2>7. ASSUME NEW u \in Threads PROVE LoadedOK(u, floor)'
    <3>1. CASE u = t
      BY <2>1, <2>2, <2>3, <3>1 DEF ListInv, ListOK, LoadedOK
    <3>2. CASE u # t
      <4>1. /\ Live(floor) \subseteq Live(floor)'
            /\ \A m \in Live(floor) : rank'[m] = rank[m]
            /\ rank[head] <= rank'[head] /\ rank[tail] <= rank'[tail]
        <5>1. head \in Live(floor) /\ tail \in Live(floor)
          BY DEF ListInv, ListOK
        <5>2. head \in Nodes /\ tail \in Nodes
          BY <2>3, <5>1
        <5> QED
          BY <2>2, <5>1
      <4> QED
        BY <2>5, <3>2, <4>1, OthersStay
    <3> QED
      BY <3>1, <3>2
  <2>8. ASSUME NEW u \in Threads, NEW w \in Threads, u # w
        PROVE  Exclusive(u, w)'
    BY <2>8 DEF ListInv, Exclusive
  <2> QED
    BY <2>4, <2>6, <2>7, <2>8 DEF ListInv, ebrVars
<1>2. CASE TryAgain(t) /\ UNCHANGED <<next, rank>>
  <2>1. LoadedOK(t, floor)'
    BY <1>2 DEF TryAgain, ForgetLoop, LoopStart, LoadedOK
  <2> QED
    BY <1>2, <2>1, LocalStep
       DEF TryAgain, ForgetLoop, LoopStart, SameList, Live, UnchangedLocals,
           ebrVars
<1> QED
  BY <1>1, <1>2

(* tail moves from a node to its successor or not at all.                  *)
LEMMA MoveTailStep ==
  ASSUME NEW floor \in Nat \ {0}, TypeInv, TypeInv', CallInv, ListInv(floor),
         NEW t \in Threads,
         SwingTail(t) \/ HelpTail(t)
  PROVE  ListInv(floor)'
<1> USE DEF TypeInv, TypeOK, LocalsOK, Unlinked, Detached, Goto, Become, ebrVars,
            heapVars
<1>1. /\ UNCHANGED <<allocated, next, data, rank, head>>
      /\ \A u \in Threads \ {t} : UnchangedLocals(u)
      /\ pc'[t] \in {"load_tail", "load_head", "leave"}
  BY DEF SwingTail, HelpTail, TryAgain, ForgetLoop, LoopStart, UnchangedLocals
<1>2. tail' # tail => tail' \in Live(floor) /\ rank[tail'] = rank[tail] + 1
  BY DEF SwingTail, HelpTail, MoveTailTo, CASOutcomes, ListInv, NewNodeOK,
         LoadedOK
<1>3. Live(floor)' = Live(floor) /\ Live(floor) \subseteq Nodes
  BY <1>1 DEF Live, EBRTypeOK
<1>4. tail' \in Live(floor) /\ rank[tail] <= rank[tail']
  BY <1>2 DEF ListInv, ListOK
<1>5. ListOK(floor)'
  <2>1. rank[head] <= rank[tail']
    BY <1>4 DEF ListInv, ListOK
  <2>2. ASSUME NEW n \in Live(floor) PROVE rank[n] <= rank[tail'] + 1
    BY <1>3, <1>4 DEF ListInv, ListOK
  <2> QED
    BY <1>1, <1>3, <1>4, <2>1, <2>2 DEF ListInv, ListOK
<1>6. ASSUME NEW u \in Threads PROVE LoadedOK(u, floor)'
  <2>1. CASE u = t
    <3>1. current_head'[t] = Null
      BY DEF SwingTail, HelpTail, TryAgain, ForgetLoop, ListInv, LoadedOK
    <3>2. current_tail'[t] = Null /\ next_node'[t] \in {next_node[t], Null}
      BY DEF SwingTail, HelpTail, TryAgain, ForgetLoop
    <3> QED
      BY <1>1, <1>3, <2>1, <3>1, <3>2 DEF ListInv, LoadedOK
  <2>2. CASE u # t
    BY <1>1, <1>3, <1>4, <2>2, OthersStay
  <2> QED
    BY <2>1, <2>2
<1>7. ASSUME NEW u \in Threads PROVE NewNodeOK(u, floor)'
  <2>1. CASE u = t
    BY <1>1, <1>3, <2>1
       DEF SwingTail, HelpTail, TryAgain, ForgetLoop, LoopStart, ListInv,
           NewNodeOK
  <2>2. CASE u # t
    BY <1>1, <1>3, <2>2 DEF ListInv, NewNodeOK, UnchangedLocals
  <2> QED
    BY <2>1, <2>2
<1>8. ASSUME NEW u \in Threads, NEW w \in Threads, u # w
      PROVE  Exclusive(u, w)'
  <2>1. /\ Unlinked(t)' => Unlinked(t) /\ new_node'[t] = new_node[t]
        /\ pc'[t] # "move_data"
    BY <1>1 DEF SwingTail, HelpTail, TryAgain, ForgetLoop, LoopStart
  <2> QED
    BY <1>1, <1>8, <2>1 DEF ListInv, Exclusive, UnchangedLocals
<1> QED
  BY <1>1, <1>5, <1>6, <1>7, <1>8 DEF ListInv

(* head moves to the successor of the dummy node, which holds data nobody  *)
(* else can still be moving out, and does not overtake tail.               *)
LEMMA TakeHeadStep ==
  ASSUME NEW floor \in Nat \ {0}, TypeInv, TypeInv', CallInv, ListInv(floor),
         NEW t \in Threads, TakeHead(t)
  PROVE  ListInv(floor)'
<1> USE DEF TypeInv, TypeOK, LocalsOK, Unlinked, Detached, Goto, Become, ebrVars, heapVars,
            TakeHead
<1>1. CASE head = current_head[t] /\ head' = next_node[t]
           /\ pc' = [pc EXCEPT ![t] = "move_data"]
           /\ current_tail' = [current_tail EXCEPT ![t] = Null]
           /\ UNCHANGED <<op, value, new_node, current_head, next_node>>
  <2> USE <1>1
  <2>1. /\ UNCHANGED <<allocated, next, data, rank, tail, new_node>>
        /\ \A u \in Threads \ {t} : UnchangedLocals(u)
    BY DEF UnchangedLocals
  <2>2. Live(floor)' = Live(floor) /\ Live(floor) \subseteq Nodes
    BY <2>1 DEF Live, EBRTypeOK
  <2>3. /\ head' \in Live(floor)
        /\ rank[head'] = rank[head] + 1
        /\ data[head'] # NoValue
    BY <2>2 DEF ListInv, ListOK, LoadedOK
  <2>4. rank[head'] <= rank[tail]
    <3> DEFINE c == current_tail[t]
    <3>1. /\ c \in Live(floor) /\ head \in Live(floor) /\ head # c
          /\ rank[head] <= rank[c]
          /\ rank[c] <= rank[tail]
      BY DEF ListInv, ListOK, LoadedOK
    <3>2. rank[head] # rank[c]
      BY <3>1 DEF ListInv, ListOK
    <3>3. {rank[head], rank[c], rank[tail]} \subseteq Nat
      BY <2>2, <3>1
    <3> QED
      BY <2>3, <3>1, <3>2, <3>3
  <2>5. ListOK(floor)'
    BY <2>1, <2>2, <2>3, <2>4 DEF ListInv, ListOK
  <2>6. ASSUME NEW u \in Threads PROVE LoadedOK(u, floor)'
    <3>1. CASE u = t
      BY <2>1, <2>2, <2>3, <3>1 DEF ListInv, ListOK, LoadedOK
    <3>2. CASE u # t
      BY <2>1, <2>2, <2>3, <3>2, OthersStay
    <3> QED
      BY <3>1, <3>2
  <2>7. ASSUME NEW u \in Threads PROVE NewNodeOK(u, floor)'
    BY <2>1, <2>2 DEF ListInv, NewNodeOK, UnchangedLocals
  <2>8. ASSUME NEW u \in Threads \ {t}, pc[u] = "move_data"
        PROVE  next_node[u] # next_node[t]
    BY <2>3, <2>8 DEF ListInv, LoadedOK
  <2>9. ASSUME NEW u \in Threads, NEW w \in Threads, u # w
        PROVE  Exclusive(u, w)'
    <3>1. \A x \in Threads \ {t} : Detached(x) => current_head[x] # head
      BY DEF ListInv, LoadedOK
    <3> QED
      BY <2>1, <2>8, <2>9, <3>1 DEF ListInv, Exclusive, UnchangedLocals
  <2> QED
    BY <2>1, <2>5, <2>6, <2>7, <2>9 DEF ListInv
<1>2. CASE TryAgain(t) /\ UNCHANGED head
  <2>1. LoadedOK(t, floor)'
    BY <1>2 DEF TryAgain, ForgetLoop, LoopStart, LoadedOK
  <2> QED
    BY <1>2, <2>1, LocalStep
       DEF TryAgain, ForgetLoop, LoopStart, SameList, Live, UnchangedLocals
<1> QED
  BY <1>1, <1>2

(* The node whose data is moved out is behind head and no other thread's.  *)
LEMMA MoveDataStep ==
  ASSUME NEW floor \in Nat \ {0}, TypeInv, TypeInv', CallInv, ListInv(floor),
         NEW t \in Threads, MoveData(t)
  PROVE  ListInv(floor)'
<1> USE DEF TypeInv, TypeOK, LocalsOK, Unlinked, Detached, Goto, Become, ebrVars, MoveData
<1>1. /\ UNCHANGED <<allocated, next, rank, head, tail>>
      /\ \A u \in Threads \ {t} : UnchangedLocals(u)
  BY DEF UnchangedLocals
<1>2. Live(floor)' = Live(floor) /\ Live(floor) \subseteq Nodes
  BY <1>1 DEF Live, EBRTypeOK
<1>3. /\ next_node[t] \in Live(floor)
      /\ rank[next_node[t]] <= rank[head]
      /\ \A n \in Nodes \ {next_node[t]} : data'[n] = data[n]
  BY DEF ListInv, LoadedOK
<1>4. ListOK(floor)'
  BY <1>1, <1>2, <1>3 DEF ListInv, ListOK
<1>5. ASSUME NEW u \in Threads PROVE LoadedOK(u, floor)'
  <2>1. CASE u = t
    BY <1>1, <1>2, <2>1 DEF ListInv, LoadedOK
  <2>2. CASE u # t
    <3>1. pc[u] = "move_data" => /\ next_node[u] \in Nodes
                                 /\ next_node[u] # next_node[t]
      BY <2>2 DEF ListInv, Exclusive
    <3> QED
      BY <1>1, <1>2, <1>3, <2>2, <3>1, OthersStay
  <2> QED
    BY <2>1, <2>2
<1>6. ASSUME NEW u \in Threads PROVE NewNodeOK(u, floor)'
  <2>1. Unlinked(u)' => /\ Unlinked(u)
                        /\ new_node[u] \in Nodes \ {next_node[t]}
    BY <1>3 DEF ListInv, NewNodeOK, Live
  <2> QED
    BY <1>1, <1>2, <1>3, <2>1 DEF ListInv, NewNodeOK, UnchangedLocals
<1>7. ASSUME NEW u \in Threads, NEW w \in Threads, u # w
      PROVE  Exclusive(u, w)'
  BY <1>1, <1>7 DEF ListInv, Exclusive, UnchangedLocals
<1> QED
  BY <1>1, <1>4, <1>5, <1>6, <1>7 DEF ListInv


-----------------------------------------------------------------------------
(* Retired nodes and the epoch                                             *)

(* A new queue satisfies the invariant: only the dummy node exists.        *)
LEMMA QueueInit == Init => QueueInv
<1> SUFFICES ASSUME Init PROVE QueueInv
  OBVIOUS
<1> USE EBRAssumption, QueueAssumption DEF Init, EBRInit
<1>1. Live(1) = {head} /\ tail = head /\ rank[head] = 1 /\ next[head] = Null
  BY DEF Live
<1>2. ListInv(1)
  BY <1>1 DEF ListInv, ListOK, NewNodeOK, LoadedOK, Exclusive, Unlinked, Detached
<1>3. RetiredOK(1)
  BY DEF RetiredOK
<1>4. Accounted
  BY <1>1 DEF Accounted
<1> QED
  BY <1>2, <1>3, <1>4 DEF QueueInv

(* What is retired stays behind head, and what is detached was detached    *)
(* before or is the node head has just left.                               *)
LEMMA RetiredStay ==
  ASSUME NEW floor \in Nat \ {0}, TypeInv, TypeInv', RetiredOK(floor),
         UNCHANGED <<retired_list, global_epoch>>,
         allocated \subseteq allocated',
         \A n \in allocated : rank[n] > 0 => rank'[n] = rank[n],
         rank[head] <= rank'[head'],
         \A u \in Threads :
             Detached(u)' => \/ Detached(u) /\ current_head'[u] = current_head[u]
                             \/ current_head'[u] = head
  PROVE  RetiredOK(floor)'
<1> SUFFICES ASSUME NEW t \in Threads, NEW r \in retired_list[t]
             PROVE  /\ r.node \in allocated'
                    /\ 0 < rank'[r.node] /\ rank'[r.node] < rank'[head']
                    /\ r.epoch < global_epoch => rank'[r.node] < floor
                    /\ \A u \in Threads :
                          /\ Detached(u)' => current_head'[u] # r.node
                          /\ \A s \in retired_list[u] :
                                s.node = r.node => t = u /\ r = s
  BY DEF RetiredOK
<1>1. /\ r.node \in allocated
      /\ 0 < rank[r.node] /\ rank[r.node] < rank[head]
      /\ r.epoch < global_epoch => rank[r.node] < floor
      /\ \A u \in Threads :
            /\ Detached(u) => current_head[u] # r.node
            /\ \A s \in retired_list[u] : s.node = r.node => t = u /\ r = s
  BY DEF RetiredOK
<1>2. {rank[r.node], rank[head], rank'[head']} \subseteq Nat
  BY <1>1 DEF TypeInv, TypeOK, EBRTypeOK
<1>3. rank'[r.node] = rank[r.node] /\ r.node # head
  BY <1>1, <1>2
<1> QED
  BY <1>1, <1>2, <1>3

(* A node does not lose its holder while head stays where it is.           *)
LEMMA AccountedStay ==
  ASSUME TypeInv, TypeInv', Accounted, UNCHANGED <<allocated, head>>,
         rank'[head] = rank[head],
         \A n \in allocated : rank[n] <= rank'[n],
         \A u \in Threads : retired_list[u] \subseteq retired_list'[u],
         \A u \in Threads :
             Unlinked(u) => \/ Unlinked(u)' /\ new_node'[u] = new_node[u]
                            \/ rank[head] <= rank'[new_node[u]],
         \A u \in Threads :
             Detached(u) => \/ Detached(u)' /\ current_head'[u] = current_head[u]
                            \/ current_head[u] \in NodesOf(retired_list'[u])
  PROVE  Accounted'
<1> SUFFICES ASSUME NEW n \in allocated
             PROVE  \/ rank'[n] >= rank'[head]
                    \/ \E u \in Threads : \/ Unlinked(u)' /\ new_node'[u] = n
                                          \/ Detached(u)' /\ current_head'[u] = n
                                          \/ n \in NodesOf(retired_list'[u])
  BY DEF Accounted
<1>1. CASE rank[n] >= rank[head]
  <2>1. {rank[n], rank'[n], rank[head]} \subseteq Nat
    BY DEF TypeInv, TypeOK, EBRTypeOK
  <2> QED
    BY <1>1, <2>1
<1>2. CASE \E u \in Threads : \/ Unlinked(u) /\ new_node[u] = n
                              \/ Detached(u) /\ current_head[u] = n
  BY <1>2
<1>3. CASE \E u \in Threads : n \in NodesOf(retired_list[u])
  BY <1>3 DEF NodesOf
<1> QED
  BY <1>1, <1>2, <1>3 DEF Accounted

(* The loads, comparisons and attempts of the loops concern no retired     *)
(* node, and no node that has a holder loses it.                           *)
LEMMA LocalMemory ==
  ASSUME NEW floor \in Nat \ {0}, TypeInv, TypeInv', CallInv, ListInv(floor),
         RetiredOK(floor), Accounted, NEW t \in Threads,
         \/ LoadTail(t) \/ LoadTailNext(t) \/ CheckTail(t) \/ SwingTail(t)
         \/ HelpTail(t) \/ LoadHead(t) \/ LoadHeadTail(t) \/ LoadHeadNext(t)
         \/ CheckHead(t) \/ MoveData(t)
         \/ \E f \in {"dequeue", "empty"} : CallDequeueOrEmpty(t, f)
  PROVE  RetiredOK(floor)' /\ Accounted'
<1> USE DEF Goto, Become, ebrVars, heapVars, localVars, TryAgain, ForgetLoop,
            LoopStart
<1>1. /\ UNCHANGED <<allocated, rank, head, retired_list, global_epoch>>
      /\ \A u \in Threads \ {t} : UnchangedLocals(u)
  BY DEF TypeInv, TypeOK, UnchangedLocals, LoadTail, LoadTailNext, CheckTail,
         SwingTail, HelpTail, LoadHead, LoadHeadTail, LoadHeadNext, CheckHead,
         MoveData, CallDequeueOrEmpty, Enter
<1>2. /\ Unlinked(t) => Unlinked(t)' /\ new_node'[t] = new_node[t]
      /\ Detached(t) => Detached(t)' /\ current_head'[t] = current_head[t]
      /\ Detached(t)' => Detached(t) /\ current_head'[t] = current_head[t]
  <2> USE DEF TypeInv, TypeOK, LocalsOK, Unlinked, Detached
  <2>1. CASE LoadTail(t) \/ LoadTailNext(t) \/ CheckTail(t)
    BY <2>1 DEF LoadTail, LoadTailNext, CheckTail
  <2>2. CASE SwingTail(t) \/ HelpTail(t)
    BY <2>2 DEF SwingTail, HelpTail
  <2>3. CASE LoadHead(t) \/ LoadHeadTail(t) \/ LoadHeadNext(t)
    BY <2>3 DEF LoadHead, LoadHeadTail, LoadHeadNext
  <2>4. CASE CheckHead(t)
    BY <2>4 DEF CheckHead
  <2>5. CASE MoveData(t)
    BY <2>5 DEF MoveData, ListInv, LoadedOK
  <2>6. CASE \E f \in {"dequeue", "empty"} : CallDequeueOrEmpty(t, f)
    BY <2>6 DEF CallDequeueOrEmpty
  <2> QED
    BY <2>1, <2>2, <2>3, <2>4, <2>5, <2>6
<1>3. \A u \in Threads \ {t} :
          /\ Unlinked(u)' <=> Unlinked(u)
          /\ Detached(u)' <=> Detached(u)
          /\ new_node'[u] = new_node[u]
          /\ current_head'[u] = current_head[u]
  BY <1>1 DEF UnchangedLocals, Unlinked, Detached
<1>4. \A n \in allocated \cup {head} : rank[n] \in Nat
  BY DEF TypeInv, TypeOK, EBRTypeOK
<1>5. RetiredOK(floor)'
  BY <1>1, <1>2, <1>3, <1>4, RetiredStay
<1>6. Accounted'
  BY <1>1, <1>2, <1>3, <1>4, AccountedStay
<1> QED
  BY <1>5, <1>6

(* A new node belongs to the enqueue that allocated it.                    *)
LEMMA CallEnqueueMemory ==
  ASSUME NEW floor \in Nat \ {0}, TypeInv, TypeInv', CallInv, ListInv(floor),
         RetiredOK(floor), Accounted, NEW t \in Threads, NEW v \in unsent,
         CallEnqueue(t, v)
  PROVE  RetiredOK(floor)' /\ Accounted'
<1> USE DEF TypeInv, TypeOK, Goto, Become, CallEnqueue, Enter
<1>1. PICK n \in Nodes \ allocated :
          /\ allocated' = allocated \cup {n}
          /\ rank' = [rank EXCEPT ![n] = 0]
          /\ new_node' = [new_node EXCEPT ![t] = n]
  OBVIOUS
<1>2. /\ head \in allocated /\ allocated \subseteq Nodes
      /\ \A m \in allocated : rank'[m] = rank[m] /\ rank[m] \in Nat
  BY <1>1 DEF ListInv, ListOK, Live, EBRTypeOK
<1>3. /\ Unlinked(t)' /\ new_node'[t] = n /\ ~Detached(t)'
      /\ ~Unlinked(t) /\ ~Detached(t)
      /\ \A u \in Threads \ {t} :
            /\ Unlinked(u)' <=> Unlinked(u)
            /\ Detached(u)' <=> Detached(u)
            /\ new_node'[u] = new_node[u]
            /\ current_head'[u] = current_head[u]
  BY <1>1 DEF Unlinked, Detached
<1>4. RetiredOK(floor)'
  BY <1>1, <1>2, <1>3, RetiredStay
<1>5. Accounted'
  BY <1>1, <1>2, <1>3 DEF Accounted
<1> QED
  BY <1>4, <1>5

(* A linked node is in the list.                                           *)
LEMMA LinkNodeMemory ==
  ASSUME NEW floor \in Nat \ {0}, TypeInv, TypeInv', CallInv, ListInv(floor),
         RetiredOK(floor), Accounted, NEW t \in Threads, LinkNode(t)
  PROVE  RetiredOK(floor)' /\ Accounted'
<1> USE DEF TypeInv, TypeOK, LocalsOK, Goto, Become, LinkNode, ebrVars
<1>1. /\ UNCHANGED <<allocated, head, retired_list, global_epoch>>
      /\ \A u \in Threads : Detached(u)' <=> Detached(u)
      /\ \A u \in Threads : Detached(u) => current_head'[u] = current_head[u]
      /\ \A u \in Threads \ {t} :
            /\ Unlinked(u)' <=> Unlinked(u)
            /\ new_node'[u] = new_node[u]
  BY DEF localVars, TryAgain, ForgetLoop, LoopStart, Unlinked, Detached
<1>2. head \in allocated /\ rank[head] > 0 /\ allocated \subseteq Nodes
  BY DEF ListInv, ListOK, Live, EBRTypeOK
<1>3. CASE rank' = rank /\ Unlinked(t)' /\ new_node'[t] = new_node[t]
  <2>1. \A n \in allocated \cup {head} : rank[n] \in Nat
    BY <1>2
  <2>2. RetiredOK(floor)'
    BY <1>1, <1>2, <1>3, <2>1, RetiredStay
  <2>3. Accounted'
    BY <1>1, <1>2, <1>3, <2>1, AccountedStay
  <2> QED
    BY <2>2, <2>3
<1>4. CASE /\ next[current_tail[t]] = Null
           /\ rank' = [rank EXCEPT ![new_node[t]] = rank[current_tail[t]] + 1]
  <2>1. /\ new_node[t] \in allocated
        /\ rank[new_node[t]] = 0
        /\ rank[head] <= rank[current_tail[t]]
        /\ current_tail[t] \in allocated
    BY <1>4 DEF ListInv, ListOK, Live, NewNodeOK, LoadedOK, Unlinked
  <2>2. \A n \in allocated : n # new_node[t] => rank'[n] = rank[n]
    BY <1>2, <1>4
  <2>3. rank'[new_node[t]] = rank[current_tail[t]] + 1
    BY <1>2, <1>4, <2>1
  <2>4. \A n \in allocated : rank[n] \in Nat
    BY <1>2
  <2>5. RetiredOK(floor)'
    BY <1>1, <1>2, <2>1, <2>2, <2>3, <2>4, RetiredStay
  <2>6. Accounted'
    BY <1>1, <1>2, <2>1, <2>2, <2>3, <2>4, AccountedStay
  <2> QED
    BY <2>5, <2>6
<1> QED
  BY <1>3, <1>4 DEF TryAgain, ForgetLoop, LoopStart, Unlinked

(* The node head leaves belongs to the dequeue that moved head.            *)
LEMMA TakeHeadMemory ==
  ASSUME NEW floor \in Nat \ {0}, TypeInv, TypeInv', CallInv, ListInv(floor),
         RetiredOK(floor), Accounted, NEW t \in Threads, TakeHead(t)
  PROVE  RetiredOK(floor)' /\ Accounted'
<1> USE DEF TypeInv, TypeOK, LocalsOK, Goto, Become, TakeHead, ebrVars, heapVars
<1>1. /\ UNCHANGED <<allocated, rank, retired_list, global_epoch>>
      /\ ~Unlinked(t) /\ ~Detached(t)
      /\ \A u \in Threads \ {t} :
            /\ Unlinked(u)' <=> Unlinked(u)
            /\ Detached(u)' <=> Detached(u)
            /\ new_node'[u] = new_node[u]
            /\ current_head'[u] = current_head[u]
  BY DEF TryAgain, ForgetLoop, LoopStart, Unlinked, Detached
<1>2. allocated \subseteq Nodes /\ head \in allocated
  BY DEF ListInv, ListOK, Live, EBRTypeOK
<1>3. \A n \in allocated : rank[n] \in Nat
  BY <1>2
<1>4. CASE head' = head /\ ~Detached(t)'
  <2>1. RetiredOK(floor)'
    BY <1>1, <1>2, <1>3, <1>4, RetiredStay
  <2>2. Accounted'
    BY <1>1, <1>2, <1>3, <1>4, AccountedStay
  <2> QED
    BY <2>1, <2>2
<1>5. CASE /\ head = current_head[t]
           /\ head' = next_node[t]
           /\ current_head' = current_head
           /\ pc' = [pc EXCEPT ![t] = "move_data"]
  <2>1. /\ rank[head'] = rank[head] + 1
        /\ \A n \in allocated : rank[n] = rank[head] => n = head
        /\ Detached(t)' /\ current_head'[t] = head
    BY <1>2, <1>5 DEF ListInv, ListOK, LoadedOK, Live, Detached
  <2>2. RetiredOK(floor)'
    BY <1>1, <1>2, <1>3, <2>1, RetiredStay
  <2>3. Accounted'
    BY <1>1, <1>2, <1>3, <2>1 DEF Accounted
  <2> QED
    BY <2>2, <2>3
<1> QED
  BY <1>4, <1>5 DEF TryAgain, ForgetLoop, LoopStart, Detached

(* Retiring hands the detached node to the retired list.                   *)
LEMMA RetireMemory ==
  ASSUME NEW floor \in Nat \ {0}, TypeInv, TypeInv', CallInv, ListInv(floor),
         RetiredOK(floor), Accounted, NEW t \in Threads, RetireHead(t)
  PROVE  RetiredOK(floor)' /\ Accounted'
<1> USE DEF TypeInv, TypeOK, LocalsOK, Goto, Become, RetireHead, Retire
<1> DEFINE n == current_head[t]
           new == [node |-> n, epoch |-> global_epoch]
<1>1. /\ UNCHANGED <<allocated, rank, head, global_epoch>>
      /\ Detached(t) /\ ~Detached(t)' /\ ~Unlinked(t)
      /\ \A u \in Threads \ {t} :
            /\ Unlinked(u)' <=> Unlinked(u)
            /\ Detached(u)' <=> Detached(u)
            /\ new_node'[u] = new_node[u]
            /\ current_head'[u] = current_head[u]
            /\ retired_list'[u] = retired_list[u]
      /\ retired_list'[t] = retired_list[t] \cup {new}
  BY DEF Unlinked, Detached, EBRTypeOK
<1>2. n \in allocated /\ floor <= rank[n] /\ rank[n] < rank[head]
  BY <1>1 DEF ListInv, LoadedOK, Live
<1>3. \A u \in Threads \ {t} : Detached(u) => current_head[u] # n
  BY <1>1 DEF ListInv, Exclusive
<1>4. \A u \in Threads : \A r \in retired_list[u] : r.node # n
  BY <1>1 DEF RetiredOK
<1>5. RetiredOK(floor)'
  <2> SUFFICES ASSUME NEW w \in Threads, NEW r \in retired_list'[w]
               PROVE  /\ r.node \in allocated
                      /\ 0 < rank[r.node] /\ rank[r.node] < rank[head]
                      /\ r.epoch < global_epoch => rank[r.node] < floor
                      /\ \A u \in Threads :
                            /\ Detached(u)' => current_head'[u] # r.node
                            /\ \A s \in retired_list'[u] :
                                  s.node = r.node => w = u /\ r = s
    BY <1>1 DEF RetiredOK
  <2>1. CASE w = t /\ r = new
    <3>1. r.node = n /\ r.epoch = global_epoch /\ rank[n] \in Nat
      BY <1>2, <2>1 DEF EBRTypeOK
    <3>2. ~(r.epoch < global_epoch)
      BY <3>1 DEF EBRTypeOK
    <3>3. \A u \in Threads : \A s \in retired_list'[u] :
                s.node = n => w = u /\ r = s
      BY <1>1, <1>4, <2>1
    <3> QED
      BY <1>1, <1>2, <1>3, <3>1, <3>2, <3>3
  <2>2. CASE r \in retired_list[w]
    <3>1. \A u \in Threads : \A s \in retired_list'[u] :
                s.node = r.node => w = u /\ r = s
      <4> SUFFICES ASSUME NEW u \in Threads, NEW s \in retired_list'[u],
                          s.node = r.node
                   PROVE  w = u /\ r = s
        OBVIOUS
      <4>1. s # new
        BY <1>4, <2>2
      <4>2. s \in retired_list[u]
        BY <1>1, <4>1
      <4> QED
        BY <2>2, <4>2 DEF RetiredOK
    <3> QED
      BY <1>1, <2>2, <3>1 DEF RetiredOK
  <2> QED
    BY <1>1, <2>1, <2>2
<1>6. Accounted'
  <2>1. current_head[t] \in NodesOf(retired_list'[t])
    <3>1. new \in retired_list'[t] /\ new.node = n
      BY <1>1
    <3> QED
      BY <3>1, Zenon DEF NodesOf
  <2>2. \A u \in Threads : retired_list[u] \subseteq retired_list'[u]
    BY <1>1
  <2>3. \A m \in allocated : rank[m] <= rank'[m]
    BY <1>1 DEF EBRTypeOK
  <2>4. \A u \in Threads : Unlinked(u) => Unlinked(u)' /\ new_node'[u] = new_node[u]
    BY <1>1
  <2>5. \A u \in Threads :
            Detached(u) => \/ Detached(u)' /\ current_head'[u] = current_head[u]
                           \/ current_head[u] \in NodesOf(retired_list'[u])
    BY <1>1, <2>1
  <2> HIDE DEF TypeInv, RetireHead, Retire
  <2> QED
    BY <1>1, <2>2, <2>3, <2>4, <2>5, AccountedStay
<1> QED
  BY <1>5, <1>6

(* What leave() deletes was retired in an earlier epoch, so nobody uses    *)
(* it, and nothing else leaves the heap.                                   *)
LEMMA LeaveDeletes ==
  ASSUME NEW floor \in Nat \ {0}, TypeInv, RetiredOK(floor),
         NEW t \in Threads, NEW r \in Reclaimable(t)
  PROVE  r \in retired_list[t] /\ 0 < rank[r.node] /\ rank[r.node] < floor
<1>1. /\ r \in retired_list[t]
      /\ global_epoch \in 0..MaxEpoch /\ global_epoch >= 2
      /\ r.epoch \in 0..MaxEpoch /\ r.epoch <= SafeEpoch
  BY DEF Reclaimable, TypeInv, TypeOK, EBRTypeOK, RetiredNode
<1>2. SafeEpoch = global_epoch - 2
  <2>1. global_epoch - 2 \in 0..(EpochMod - 1)
    BY <1>1, EBRAssumption
  <2> QED
    BY <2>1, EBRAssumption DEF SafeEpoch
<1>3. r.epoch < global_epoch
  BY <1>1, <1>2, EBRAssumption
<1> QED
  BY <1>1, <1>3 DEF RetiredOK

(* leave() keeps the invariant, whatever it deletes.                       *)
LEMMA LeaveStep ==
  ASSUME NEW floor \in Nat \ {0}, TypeInv, TypeInv', CallInv, ListInv(floor),
         RetiredOK(floor), Accounted, NEW t \in Threads, LeaveAndReturn(t)
  PROVE  ListInv(floor)' /\ RetiredOK(floor)' /\ Accounted'
<1> USE DEF TypeInv, TypeOK, LocalsOK, Goto, Become, LeaveAndReturn, Leave
<1>1. /\ UNCHANGED <<next, data, rank, head, tail, global_epoch, new_node,
                     current_head>>
      /\ \A u \in Threads \ {t} : /\ UnchangedLocals(u)
                                  /\ retired_list'[u] = retired_list[u]
      /\ retired_list'[t] = retired_list[t] \ Reclaimable(t)
      /\ \A u \in Threads : /\ Unlinked(u)' <=> Unlinked(u)
                            /\ Detached(u)' <=> Detached(u)
      /\ allocated \subseteq Nodes /\ head \in allocated
      /\ allocated' = allocated \ NodesOf(Reclaimable(t))
  BY DEF UnchangedLocals, Unlinked, Detached, EBRTypeOK, ListInv, ListOK, Live
<1>2. \A n \in NodesOf(Reclaimable(t)) : 0 < rank[n] /\ rank[n] < floor
  BY LeaveDeletes DEF NodesOf
<1>3. \A n \in allocated : rank[n] \in Nat
  BY <1>1
<1>4. Live(floor)' = Live(floor)
  BY <1>1, <1>2, <1>3 DEF Live
<1>5. LoadedOK(t, floor)'
  BY <1>1, <1>4 DEF ListInv, LoadedOK, CallInv, CallOK, Unlinked, Detached
<1>6. ListInv(floor)'
  BY <1>1, <1>2, <1>3, <1>4, <1>5, LocalStep DEF SameList, Unlinked
<1>7. RetiredOK(floor)'
  <2> SUFFICES ASSUME NEW w \in Threads, NEW r \in retired_list'[w]
               PROVE  /\ r.node \in allocated'
                      /\ 0 < rank[r.node] /\ rank[r.node] < rank[head]
                      /\ r.epoch < global_epoch => rank[r.node] < floor
                      /\ \A u \in Threads :
                            /\ Detached(u) => current_head[u] # r.node
                            /\ \A s \in retired_list'[u] :
                                  s.node = r.node => w = u /\ r = s
    BY <1>1 DEF RetiredOK
  <2>1. /\ r \in retired_list[w] /\ r \notin Reclaimable(t)
        /\ \A u \in Threads : retired_list'[u] \subseteq retired_list[u]
    <3>1. CASE w = t
      BY <1>1, <3>1
    <3>2. CASE w # t
      <4>1. \A s \in Reclaimable(t) : s \in retired_list[t]
        BY DEF Reclaimable
      <4> QED
        BY <1>1, <3>2, <4>1 DEF RetiredOK
    <3> QED
      BY <3>1, <3>2
  <2>2. r.node \notin NodesOf(Reclaimable(t))
    BY <2>1 DEF NodesOf, Reclaimable, RetiredOK
  <2> QED
    BY <1>1, <2>1, <2>2 DEF RetiredOK
<1>8. Accounted'
  <2> SUFFICES ASSUME NEW n \in allocated'
               PROVE  \/ rank[n] >= rank[head]
                      \/ \E u \in Threads : \/ Unlinked(u) /\ new_node[u] = n
                                            \/ Detached(u) /\ current_head[u] = n
                                            \/ n \in NodesOf(retired_list'[u])
    <3> HIDE DEF LeaveAndReturn, Leave, TypeInv
    <3> QED
      BY <1>1 DEF Accounted
  <2>1. ASSUME NEW u \in Threads, n \in NodesOf(retired_list[u])
        PROVE  n \in NodesOf(retired_list'[u])
    BY <1>1, <2>1 DEF NodesOf
  <2> QED
    BY <1>1, <2>1 DEF Accounted
<1> QED
  BY <1>6, <1>7, <1>8

(* The programs of the repository call neither bump_epoch nor              *)
(* unregister_thread.  Or the environment calls them only while nobody is  *)
(* inside a queue operation.                                               *)
QuietEnv == EnvCalls = {} \/ QuiescentCalls

(* The environment changes the epoch and the registry only while nobody is *)
(* inside a call.  Everything behind head may then be deleted, so head's   *)
(* rank is the new floor.                                                  *)
LEMMA EnvStep ==
  ASSUME QuietEnv, TypeInv, TypeInv', CallInv, QueueInv, Env
  PROVE  QueueInv'
<1> USE DEF TypeInv, TypeOK, Env
<1>1. PICK floor \in Nat \ {0} : ListInv(floor) /\ RetiredOK(floor)
  BY DEF QueueInv
<1>2. /\ UNCHANGED <<next, data, rank, head, tail, pc>>
      /\ \A u \in Threads : /\ UnchangedLocals(u)
                            /\ Unlinked(u)' <=> Unlinked(u)
                            /\ Detached(u)' <=> Detached(u)
      /\ allocated \subseteq Nodes /\ head \in allocated /\ floor <= rank[head]
  BY <1>1 DEF localVars, UnchangedLocals, Unlinked, Detached, EBRTypeOK, ListInv, ListOK, Live
<1>3. \A n \in allocated : rank[n] \in Nat
  BY <1>2
<1>4. CASE \E t \in Threads : ThreadExit(t)
  <2>1. UNCHANGED <<allocated, retired_list, global_epoch>>
    BY <1>4 DEF ThreadExit
  <2>2. ListInv(floor)'
    BY <1>1, <1>2, <2>1 DEF ListInv, ListOK, Live, NewNodeOK, LoadedOK, Exclusive,
       UnchangedLocals
  <2>3. RetiredOK(floor)' /\ Accounted'
    BY <1>1, <1>2, <2>1 DEF RetiredOK, Accounted, QueueInv, UnchangedLocals
  <2> QED
    BY <2>2, <2>3 DEF QueueInv
<1>5. CASE BumpEpoch \/ \E t \in Threads : UnregisterThread(t)
  <2>1. \A u \in Threads : local_epoch[u] = Inactive
    BY <1>5 DEF BumpEpoch, UnregisterThread, EnvMayCall, QuietEnv
  <2>2. \A u \in Threads : /\ pc[u] = "idle"
                           /\ new_node[u] = Null /\ current_head[u] = Null
                           /\ current_tail[u] = Null /\ next_node[u] = Null
                           /\ ~Unlinked(u) /\ ~Detached(u)
    BY <1>1, <2>1 DEF CallInv, CallOK, ListInv, LoadedOK, Unlinked, Detached
  <2>3. PICK k \in Nat \ {0} : k = rank[head]
    BY <1>2, <1>3
  <2> DEFINE Shrinks ==
           /\ \A u \in Threads : retired_list'[u] \subseteq retired_list[u]
           /\ allocated' \subseteq allocated
           /\ \A n \in allocated \ allocated' : rank[n] < k
           /\ \A u \in Threads : \A r \in retired_list'[u] : r.node \in allocated'
           /\ \A u \in Threads : \A n \in allocated' :
                  n \in NodesOf(retired_list[u]) => n \in NodesOf(retired_list'[u])
  <2>4. Shrinks
    <3>1. CASE BumpEpoch
      BY <1>1, <3>1 DEF BumpEpoch, RetiredOK
    <3>2. ASSUME NEW t \in Threads, UnregisterThread(t)
          PROVE  Shrinks
      <4>1. /\ retired_list'[t] = {}
            /\ \A u \in Threads \ {t} : retired_list'[u] = retired_list[u]
            /\ allocated' = allocated \ NodesOf(retired_list[t])
        BY <3>2 DEF UnregisterThread, EBRTypeOK
      <4>2. \A n \in NodesOf(retired_list[t]) : rank[n] < k
        BY <1>1, <2>3 DEF RetiredOK, NodesOf
      <4>3. ASSUME NEW u \in Threads, NEW r \in retired_list'[u]
            PROVE  r.node \in allocated'
        <5>1. u # t /\ r \in retired_list[u]
          BY <4>1
        <5>2. r.node \notin NodesOf(retired_list[t])
          BY <1>1, <5>1 DEF RetiredOK, NodesOf
        <5> QED
          BY <1>1, <4>1, <5>1, <5>2 DEF RetiredOK
      <4> QED
        BY <4>1, <4>2, <4>3
    <3> QED
      BY <1>5, <3>1, <3>2
  <2>5. Live(k)' = Live(k) /\ Live(k) \subseteq Live(floor)
        /\ \A n \in Live(floor) : n \in Live(k) <=> rank[n] >= rank[head]
    BY <1>2, <1>3, <2>3, <2>4 DEF Live
  <2>6. ListOK(k)'
    <3>1. ListOK(floor)
      BY <1>1 DEF ListInv
    <3>2. head \in Live(k) /\ tail \in Live(k)
      BY <2>5, <3>1 DEF ListOK
    <3>3. ASSUME NEW n \in Live(k)
          PROVE  /\ next[n] # Null => /\ next[n] \in Live(k)
                                      /\ rank[next[n]] = rank[n] + 1
                 /\ next[n] = Null => \A m \in Live(k) : rank[m] <= rank[n]
                 /\ rank[n] <= rank[tail] + 1
                 /\ rank[n] > rank[head] => data[n] # NoValue
                 /\ \A r \in rank[head]..rank[n] : \E m \in Live(k) : rank[m] = r
      <4>1. n \in Live(floor) /\ rank[n] >= rank[head] /\ rank[n] \in Nat
        BY <1>2, <1>3, <2>5 DEF Live
      <4>2. \A r \in rank[head]..rank[n] : \E m \in Live(k) : rank[m] = r
        BY <1>2, <1>3, <2>5, <3>1, <4>1 DEF ListOK
      <4>3. next[n] # Null => next[n] \in Live(k) /\ rank[next[n]] = rank[n] + 1
        BY <1>2, <1>3, <2>5, <3>1, <4>1 DEF ListOK
      <4> QED
        BY <2>5, <3>1, <4>1, <4>2, <4>3 DEF ListOK
    <3> QED
      BY <1>2, <2>5, <3>1, <3>2, <3>3 DEF ListOK
  <2>7. ListInv(k)'
    BY <1>2, <2>2, <2>6 DEF ListInv, NewNodeOK, LoadedOK, Exclusive, UnchangedLocals,
       Unlinked, Detached
  <2>8. RetiredOK(k)'
    BY <1>1, <1>2, <2>2, <2>3, <2>4 DEF RetiredOK
  <2>9. Accounted'
    BY <1>2, <2>2, <2>4 DEF QueueInv, Accounted
  <2> QED
    BY <2>3, <2>7, <2>8, <2>9 DEF QueueInv
<1> QED
  BY <1>4, <1>5 DEF EBREnv

(* Every step keeps the invariant.                                         *)
THEOREM QueueNext ==
  ASSUME QuietEnv, TypeInv, TypeInv', CallInv, QueueInv, [Next]_vars
  PROVE  QueueInv'
<1>1. PICK floor \in Nat \ {0} : ListInv(floor) /\ RetiredOK(floor)
  BY DEF QueueInv
<1>2. Accounted
  BY DEF QueueInv
<1>3. ASSUME NEW t \in Threads, Call(t) \/ Proceed(t)
      PROVE  ListInv(floor)' /\ RetiredOK(floor)' /\ Accounted'
  <2>1. ASSUME NEW v \in unsent, CallEnqueue(t, v)
        PROVE  ListInv(floor)' /\ RetiredOK(floor)' /\ Accounted'
    BY <1>1, <1>2, <2>1, CallEnqueueStep, CallEnqueueMemory
  <2>2. CASE LoadTail(t) \/ LoadTailNext(t) \/ CheckTail(t)
    BY <1>1, <1>2, <2>2, EnqueueLocal, LocalMemory
  <2>3. CASE SwingTail(t) \/ HelpTail(t)
    BY <1>1, <1>2, <2>3, MoveTailStep, LocalMemory
  <2>4. CASE LinkNode(t)
    BY <1>1, <1>2, <2>4, LinkNodeStep, LinkNodeMemory
  <2>5. CASE \/ LoadHead(t) \/ LoadHeadTail(t) \/ LoadHeadNext(t) \/ CheckHead(t)
             \/ \E f \in {"dequeue", "empty"} : CallDequeueOrEmpty(t, f)
    BY <1>1, <1>2, <2>5, DequeueLocal, LocalMemory
  <2>6. CASE TakeHead(t)
    BY <1>1, <1>2, <2>6, TakeHeadStep, TakeHeadMemory
  <2>7. CASE MoveData(t)
    BY <1>1, <1>2, <2>7, MoveDataStep, LocalMemory
  <2>8. CASE RetireHead(t)
    BY <1>1, <1>2, <2>8, DequeueLocal, RetireMemory
  <2>9. CASE LeaveAndReturn(t)
    BY <1>1, <1>2, <2>9, LeaveStep
  <2> QED
    BY <1>3, <2>1, <2>2, <2>3, <2>4, <2>5, <2>6, <2>7, <2>8, <2>9
       DEF Call, Proceed, EnqueueStep, DequeueStep
<1>4. CASE UNCHANGED vars
  BY <1>4 DEF vars, ebrVars, heapVars, localVars, QueueInv, ListInv, ListOK,
              Live, NewNodeOK, LoadedOK, Exclusive, Unlinked, Detached,
              RetiredOK, Accounted
<1> QED
  BY <1>1, <1>3, <1>4, EnvStep DEF Next, QueueInv

(* The types, what threads hold, the list and the retired nodes are as     *)
(* described above throughout.                                             *)
LEMMA QueueInvariant ==
  ASSUME QuietEnv PROVE Spec => [](TypeInv /\ CallInv /\ QueueInv)
<1>1. Init => TypeInv /\ CallInv /\ QueueInv
  BY TypeInit, CallInit, QueueInit
<1>2. TypeInv /\ CallInv /\ QueueInv /\ [Next]_vars
          => TypeInv' /\ CallInv' /\ QueueInv'
  BY TypeNext, CallNext, QueueNext
<1> QED
  BY <1>1, <1>2, PTL DEF Spec

-----------------------------------------------------------------------------
(* What the invariant implies                                              *)

(* No pointer the queue or a thread inside it holds refers to a node that  *)
(* was deleted.                                                            *)
THEOREM PointersStayValid ==
  ASSUME QuietEnv PROVE Spec => []NoDanglingPointer
<1>1. TypeInv /\ CallInv /\ QueueInv => NoDanglingPointer
  <2> SUFFICES ASSUME TypeInv, CallInv, NEW floor \in Nat \ {0}, ListInv(floor)
               PROVE  NoDanglingPointer
    BY DEF QueueInv
  <2>1. {head, tail} \subseteq allocated
    BY DEF ListInv, ListOK, Live
  <2>2. ASSUME NEW t \in Threads PROVE Pointers(t) \subseteq allocated
    BY DEF ListInv, NewNodeOK, LoadedOK, Live, Pointers, CallInv, CallOK
  <2> QED
    BY <2>1, <2>2 DEF NoDanglingPointer
<1> QED
  BY QueueInvariant, <1>1, PTL

(* tail is never behind head and at most one node behind the end.          *)
THEOREM TailKeepsUp ==
  ASSUME QuietEnv PROVE Spec => []TailBetweenHeadAndEnd
<1>1. TypeInv /\ QueueInv => TailBetweenHeadAndEnd
  <2> SUFFICES ASSUME TypeInv, NEW floor \in Nat \ {0}, ListOK(floor)
               PROVE  TailBetweenHeadAndEnd
    BY DEF QueueInv, ListInv
  <2>1. rank[head] <= rank[tail] /\ tail \in Live(floor)
    BY DEF ListOK
  <2>2. ASSUME next[tail] # Null, next[next[tail]] # Null PROVE FALSE
    <3> DEFINE n == next[tail]
               m == next[n]
    <3>1. n \in Live(floor) /\ rank[n] = rank[tail] + 1
      BY <2>1, <2>2 DEF ListOK
    <3>2. m \in Live(floor) /\ rank[m] = rank[n] + 1
      BY <2>2, <3>1 DEF ListOK
    <3>3. rank[m] <= rank[tail] + 1
      BY <3>2 DEF ListOK
    <3>4. rank[tail] \in Nat
      BY DEF TypeInv, TypeOK
    <3> QED
      BY <3>1, <3>2, <3>3, <3>4
  <2> QED
    BY <2>1, <2>2 DEF TailBetweenHeadAndEnd
<1> QED
  BY QueueInvariant, <1>1, PTL

(* The two branches of dequeue that are commented as impossible are.       *)
THEOREM BranchesImpossible ==
  ASSUME QuietEnv PROVE Spec => []ImpossibleBranches
<1>1. QueueInv => ImpossibleBranches
  BY DEF QueueInv, ListInv, LoadedOK, ImpossibleBranches
<1> QED
  BY QueueInvariant, <1>1, PTL

(* Every node between its new and its delete has exactly one holder: the   *)
(* list, the enqueue that brings it, the dequeue that took it off, or one  *)
(* retired list.  Nothing is leaked and nothing is deleted twice.          *)
THEOREM NodesAccounted ==
  ASSUME QuietEnv PROVE Spec => []MemoryAccounted
<1>1. TypeInv /\ CallInv /\ QueueInv => MemoryAccounted
  <2> SUFFICES ASSUME TypeInv, CallInv, Accounted, NEW floor \in Nat \ {0},
                      ListInv(floor), RetiredOK(floor), NEW n \in allocated
               PROVE  Cardinality(Holders(n)) = 1
    BY DEF QueueInv, MemoryAccounted
  <2> DEFINE InList == rank[n] >= rank[head]
             New(t) == new_node[t] = n /\ pc[t] # "swing"
             Off(t) == current_head[t] = n /\ pc[t] \in {"move_data", "retire"}
             Retired(t) == n \in NodesOf(retired_list[t])
  <2>1. /\ n \in Nodes /\ n # Null
        /\ rank[n] \in Nat /\ rank[head] \in Nat /\ floor <= rank[head]
    BY QueueAssumption DEF TypeInv, TypeOK, EBRTypeOK, ListInv, ListOK, Live
  <2>2. \A t \in Threads : New(t) <=> Unlinked(t) /\ new_node[t] = n
    BY <2>1 DEF CallInv, CallOK, Unlinked
  <2>3. \A t \in Threads : New(t) => rank[n] = 0
    BY <2>2 DEF ListInv, NewNodeOK
  <2>4. \A t \in Threads : Off(t) => floor <= rank[n] /\ rank[n] < rank[head]
    BY <2>1 DEF ListInv, LoadedOK, Live, Detached
  <2>5. \A t \in Threads : Retired(t) => 0 < rank[n] /\ rank[n] < rank[head]
    BY DEF RetiredOK, NodesOf
  <2>6. \A t, u \in Threads : /\ New(t) /\ New(u) => t = u
                              /\ Off(t) /\ Off(u) => t = u
                              /\ Retired(t) /\ Retired(u) => t = u
    BY <2>2 DEF ListInv, Exclusive, Detached, RetiredOK, NodesOf
  <2>7. \A t, u \in Threads : ~(Off(t) /\ Retired(u))
    BY DEF RetiredOK, NodesOf, Detached
  <2>8. InList \/ \E t \in Threads : New(t) \/ Off(t) \/ Retired(t)
    BY <2>2 DEF Accounted, Detached
  <2>9. \A g : g \in Holders(n) <=>
               \/ g = <<"list", n>> /\ InList
               \/ \E t \in Threads : \/ g = <<"new", t>> /\ New(t)
                                     \/ g = <<"unlinked", t>> /\ Off(t)
                                     \/ g = <<"retired", t>> /\ Retired(t)
    BY DEF Holders
  <2> HIDE DEF InList, New, Off, Retired
  <2>10. \E h : Holders(n) = {h}
    <3>1. CASE InList
      <4>1. \A t \in Threads : ~New(t) /\ ~Off(t) /\ ~Retired(t)
        BY <2>1, <2>3, <2>4, <2>5, <3>1 DEF InList
      <4>2. Holders(n) = {<<"list", n>>}
        BY <2>9, <3>1, <4>1
      <4> QED
        BY <4>2
    <3>2. CASE ~InList
      <4>1. PICK t \in Threads : New(t) \/ Off(t) \/ Retired(t)
        BY <2>8, <3>2
      <4>2. CASE New(t)
        <5>1. \A u \in Threads : (New(u) => u = t) /\ ~Off(u) /\ ~Retired(u)
          BY <2>1, <2>3, <2>4, <2>5, <2>6, <4>2
        <5>2. Holders(n) = {<<"new", t>>}
          BY <2>9, <3>2, <4>2, <5>1
        <5> QED
          BY <5>2
      <4>3. CASE Off(t)
        <5>1. \A u \in Threads : (Off(u) => u = t) /\ ~New(u) /\ ~Retired(u)
          BY <2>1, <2>3, <2>4, <2>6, <2>7, <4>3
        <5>2. Holders(n) = {<<"unlinked", t>>}
          BY <2>9, <3>2, <4>3, <5>1
        <5> QED
          BY <5>2
      <4>4. CASE Retired(t)
        <5>1. \A u \in Threads : (Retired(u) => u = t) /\ ~New(u) /\ ~Off(u)
          BY <2>1, <2>3, <2>5, <2>6, <2>7, <4>4
        <5>2. Holders(n) = {<<"retired", t>>}
          BY <2>9, <3>2, <4>4, <5>1
        <5> QED
          BY <5>2
      <4> QED
        BY <4>1, <4>2, <4>3, <4>4
    <3> QED
      BY <3>1, <3>2
  <2> QED
    BY <2>10, FS_Singleton
<1> QED
  BY QueueInvariant, <1>1, PTL

-----------------------------------------------------------------------------
(* The only consumer                                                       *)

(* While one thread alone dequeues, head stays where that thread last saw  *)
(* it, and a list that has a second node keeps one until that thread takes *)
(* it.                                                                     *)
SoleConsumerOK ==
    \A t \in Threads :
        Consumers = {t} =>
            /\ pc[t] \in {"load_head_tail", "load_head_next"}
                   => current_head[t] = head
            /\ op[t] = "not_empty" => next[head] # Null

(* Every step of the queue keeps that.                                     *)
LEMMA SoleConsumerNext ==
  ASSUME TypeInv, TypeInv', CallInv, QueueInv, SoleConsumerOK, [Next]_vars
  PROVE  SoleConsumerOK'
<1> SUFFICES ASSUME NEW c \in Threads, Consumers = {c}
             PROVE  /\ pc'[c] \in {"load_head_tail", "load_head_next"}
                           => current_head'[c] = head'
                    /\ op'[c] = "not_empty" => next'[head'] # Null
  BY DEF SoleConsumerOK
<1> USE EBRAssumption, QueueAssumption
    DEF TypeInv, TypeOK, LocalsOK, Goto, Become, ebrVars, heapVars, localVars
<1>1. /\ pc[c] \in {"load_head_tail", "load_head_next"} => current_head[c] = head
      /\ op[c] = "not_empty" => next[head] # Null
  BY DEF SoleConsumerOK
<1>2. PICK floor \in Nat \ {0} : ListInv(floor)
  BY DEF QueueInv
<1>3. head \in allocated /\ allocated \subseteq Nodes
  BY <1>2 DEF ListInv, ListOK, Live, EBRTypeOK
<1>4. ASSUME NEW t \in Producers, NEW v \in unsent, CallEnqueue(t, v)
      PROVE  /\ pc'[c] \in {"load_head_tail", "load_head_next"}
                    => current_head'[c] = head'
             /\ op'[c] = "not_empty" => next'[head'] # Null
  BY <1>1, <1>3, <1>4 DEF CallEnqueue
<1>5. ASSUME NEW t \in Threads, EnqueueStep(t) \/ HelpTail(t)
      PROVE  /\ pc'[c] \in {"load_head_tail", "load_head_next"}
                    => current_head'[c] = head'
             /\ op'[c] = "not_empty" => next'[head'] # Null
  <2> USE DEF TryAgain, LoopStart, ForgetLoop
  <2>1. CASE LoadTail(t) \/ LoadTailNext(t)
    BY <1>1, <2>1 DEF LoadTail, LoadTailNext
  <2>2. CASE CheckTail(t)
    BY <1>1, <2>2 DEF CheckTail
  <2>3. CASE LinkNode(t)
    <3>1. next[head] # Null => next'[head] # Null
      BY <2>3 DEF LinkNode
    <3> QED
      BY <1>1, <2>3, <3>1 DEF LinkNode
  <2>4. CASE SwingTail(t) \/ HelpTail(t)
    BY <1>1, <2>4 DEF SwingTail, HelpTail
  <2> QED
    BY <1>5, <2>1, <2>2, <2>3, <2>4 DEF EnqueueStep
<1>6. ASSUME NEW t \in Consumers, NEW f \in {"dequeue", "empty"},
             CallDequeueOrEmpty(t, f)
      PROVE  /\ pc'[c] \in {"load_head_tail", "load_head_next"}
                    => current_head'[c] = head'
             /\ op'[c] = "not_empty" => next'[head'] # Null
  BY <1>1, <1>6 DEF CallDequeueOrEmpty
<1>7. ASSUME NEW t \in Threads, DequeueStep(t)
      PROVE  /\ pc'[c] \in {"load_head_tail", "load_head_next"}
                    => current_head'[c] = head'
             /\ op'[c] = "not_empty" => next'[head'] # Null
  <2> USE DEF TryAgain, LoopStart, ForgetLoop
  <2>1. t = c
    BY <1>7 DEF DequeueStep, LoadHead, LoadHeadTail, LoadHeadNext, CheckHead,
                TakeHead, MoveData, RetireHead, CallInv, CallOK
  <2>2. CASE LoadHead(t) \/ LoadHeadTail(t)
    BY <1>1, <2>1, <2>2 DEF LoadHead, LoadHeadTail
  <2>3. CASE LoadHeadNext(t)
    <3>1. ~SeesEmpty(c) => next[head] # Null
      <4>1. current_head[c] = head
        BY <1>1, <2>1, <2>3 DEF LoadHeadNext
      <4>2. /\ current_tail[c] \in Live(floor)
            /\ head \in Live(floor)
            /\ rank[head] <= rank[current_tail[c]]
        BY <1>2, <2>1, <2>3, <4>1 DEF LoadHeadNext, ListInv, ListOK, LoadedOK
      <4>3. ASSUME current_tail[c] # head, next[head] = Null PROVE FALSE
        <5>1. rank[current_tail[c]] <= rank[head]
          BY <1>2, <4>2, <4>3 DEF ListInv, ListOK
        <5>2. rank[current_tail[c]] = rank[head]
          BY <1>3, <4>2, <5>1 DEF Live
        <5> QED
          BY <1>2, <4>2, <4>3, <5>2 DEF ListInv, ListOK
      <4> QED
        BY <4>1, <4>3 DEF SeesEmpty
    <3> QED
      BY <1>1, <2>1, <2>3, <3>1 DEF LoadHeadNext
  <2>4. CASE CheckHead(t)
    BY <1>1, <2>1, <2>4 DEF CheckHead
  <2>5. CASE TakeHead(t)
    BY <1>1, <2>1, <2>5 DEF TakeHead
  <2>6. CASE MoveData(t) \/ RetireHead(t)
    BY <1>1, <2>1, <2>6 DEF MoveData, RetireHead
  <2> QED
    BY <1>7, <2>2, <2>3, <2>4, <2>5, <2>6 DEF DequeueStep
<1>8. ASSUME NEW t \in Threads, LeaveAndReturn(t)
      PROVE  /\ pc'[c] \in {"load_head_tail", "load_head_next"}
                    => current_head'[c] = head'
             /\ op'[c] = "not_empty" => next'[head'] # Null
  BY <1>1, <1>8 DEF LeaveAndReturn
<1>9. CASE Env \/ UNCHANGED vars
  BY <1>1, <1>9 DEF Env, vars
<1> QED
  BY <1>4, <1>5, <1>6, <1>7, <1>8, <1>9 DEF Next, Call, Proceed

(* What AsyncLogger::background_flush relies on: once empty() has told the *)
(* only consumer that there is an element, its dequeue finds one.          *)
THEOREM SoleConsumerNotMisled ==
  ASSUME QuietEnv PROVE Spec => []SoleConsumerFindsElement
<1>1. Init => SoleConsumerOK
  BY DEF Init, SoleConsumerOK
<1>2. TypeInv /\ TypeInv' /\ CallInv /\ QueueInv /\ SoleConsumerOK /\ [Next]_vars
          => SoleConsumerOK'
  BY SoleConsumerNext
<1>3. SoleConsumerOK => SoleConsumerFindsElement
  BY DEF SoleConsumerOK, SoleConsumerFindsElement
<1> QED
  BY QueueInvariant, <1>1, <1>2, <1>3, PTL DEF Spec

-----------------------------------------------------------------------------
(* The queue implements a FIFO queue: the contents of the list             *)

InList == {n \in allocated : rank[n] >= rank[head]}

(* From head on, the list has one node for every rank up to its end, and   *)
(* all but head hold values.                                               *)
ChainOK ==
    /\ head \in InList
    /\ \E e \in InList :
          /\ \A n \in InList : rank[n] <= rank[e] /\ (next[n] = Null <=> n = e)
          /\ \A r \in rank[head]..rank[e] : \E n \in InList : rank[n] = r
    /\ \A n \in InList : rank[n] > rank[head] => data[n] \in Values
    /\ \A m, n \in InList : rank[m] = rank[n] => m = n

(* The list has an end, as tail is at most one node away from it.          *)
LEMMA ChainHolds == TypeInv /\ QueueInv => ChainOK
<1> SUFFICES ASSUME TypeInv, NEW floor \in Nat \ {0}, ListOK(floor)
             PROVE  ChainOK
  BY DEF QueueInv, ListInv
<1>1. /\ \A n \in Live(floor) : rank[n] \in Nat
      /\ head \in Live(floor) /\ tail \in Live(floor)
      /\ \A n \in allocated : n \in InList <=> n \in Live(floor) /\ rank[n] >= rank[head]
      /\ InList \subseteq allocated
  <2>1. /\ \A n \in allocated : rank[n] \in Nat
        /\ head \in Live(floor) /\ tail \in Live(floor)
    BY DEF ListOK, TypeInv, TypeOK, EBRTypeOK
  <2> QED
    BY <2>1 DEF Live, InList
<1>2. PICK e \in Live(floor) : next[e] = Null
  <2>1. CASE next[tail] = Null
    BY <1>1, <2>1
  <2>2. CASE next[tail] # Null
    <3> DEFINE n == next[tail]
    <3>1. n \in Live(floor) /\ rank[n] = rank[tail] + 1
      BY <1>1, <2>2 DEF ListOK
    <3>2. ASSUME next[n] # Null PROVE FALSE
      <4>1. next[n] \in Live(floor) /\ rank[next[n]] = rank[n] + 1
        BY <3>1, <3>2 DEF ListOK
      <4>2. rank[next[n]] <= rank[tail] + 1
        BY <4>1 DEF ListOK
      <4> QED
        BY <1>1, <3>1, <4>1, <4>2
    <3> QED
      BY <3>1, <3>2
  <2> QED
    BY <2>1, <2>2
<1>3. \A n \in Live(floor) : rank[n] <= rank[e] /\ (next[n] = Null <=> n = e)
  <2>1. \A n \in Live(floor) : rank[n] <= rank[e]
    BY <1>2 DEF ListOK
  <2>2. ASSUME NEW n \in Live(floor), next[n] = Null PROVE n = e
    <3>1. rank[e] <= rank[n] /\ rank[n] <= rank[e]
      BY <2>1, <2>2 DEF ListOK
    <3>2. rank[n] = rank[e]
      BY <1>1, <3>1
    <3> QED
      BY <3>2 DEF ListOK
  <2> QED
    BY <1>2, <2>1, <2>2
<1>4. e \in InList
  BY <1>1, <1>3 DEF Live
<1>5. \A r \in rank[head]..rank[e] : \E n \in InList : rank[n] = r
  <2> SUFFICES ASSUME NEW r \in rank[head]..rank[e]
               PROVE  \E n \in InList : rank[n] = r
    OBVIOUS
  <2>1. PICK n \in Live(floor) : rank[n] = r
    BY DEF ListOK
  <2>2. n \in InList
    BY <1>1, <2>1 DEF Live
  <2> QED
    BY <2>1, <2>2
<1>6. \A n \in InList : rank[n] > rank[head] => data[n] \in Values
  <2>1. \A n \in InList : n \in Nodes /\ n \in Live(floor)
    BY <1>1 DEF TypeInv, TypeOK, EBRTypeOK
  <2> QED
    BY <2>1 DEF ListOK, TypeInv, TypeOK
<1>7. /\ head \in InList
      /\ \A n \in InList : n \in Live(floor)
  BY <1>1 DEF Live
<1> QED
  BY <1>3, <1>4, <1>5, <1>6, <1>7 DEF ChainOK, ListOK

(* q lists the values from the node after head to the last one.            *)
Contains(q) ==
    \E e \in InList :
        /\ next[e] = Null
        /\ Len(q) = rank[e] - rank[head]
        /\ \A n \in InList : rank[n] > rank[head] => q[rank[n] - rank[head]] = data[n]

(* AbsQueue is that sequence, and there is no other.                       *)
LEMMA ContentsUnique ==
  TypeInv /\ ChainOK =>
      /\ AbsQueue \in Seq(Values)
      /\ \A q \in Seq(Values) : Contains(q) <=> q = AbsQueue
<1> SUFFICES ASSUME TypeInv, ChainOK
             PROVE  /\ AbsQueue \in Seq(Values)
                    /\ \A q \in Seq(Values) : Contains(q) <=> q = AbsQueue
  OBVIOUS
<1>1. PICK e \in InList :
          /\ \A n \in InList : rank[n] <= rank[e] /\ (next[n] = Null <=> n = e)
          /\ \A r \in rank[head]..rank[e] : \E n \in InList : rank[n] = r
  BY DEF ChainOK
<1>2. /\ \A n \in InList : n \in allocated /\ rank[n] \in Nat /\ rank[head] <= rank[n]
      /\ \A n \in allocated : rank[n] \in Nat
      /\ rank[head] \in Nat
  BY DEF InList, ChainOK, TypeInv, TypeOK, EBRTypeOK
<1>3. End = e
  <2>1. e \in allocated /\ rank[e] >= rank[head] /\ next[e] = Null
    BY <1>1, <1>2
  <2>2. ASSUME NEW n \in allocated, rank[n] >= rank[head], next[n] = Null
        PROVE  n = e
    BY <1>1, <2>2 DEF InList
  <2> QED
    BY <2>1, <2>2 DEF End
<1>4. ASSUME NEW n \in InList PROVE NodeAt(rank[n]) = n
  <2>1. ASSUME NEW m \in allocated, rank[m] = rank[n] PROVE m = n
    BY <1>2, <2>1 DEF InList, ChainOK
  <2>2. n \in allocated
    BY <1>2
  <2> QED
    BY <2>1, <2>2 DEF NodeAt
<1>5. ASSUME NEW i \in 1..(rank[e] - rank[head])
      PROVE  /\ NodeAt(rank[head] + i) \in InList
             /\ rank[NodeAt(rank[head] + i)] = rank[head] + i
  <2>1. rank[head] + i \in rank[head]..rank[e]
    BY <1>2
  <2>2. PICK n \in InList : rank[n] = rank[head] + i
    BY <1>1, <2>1
  <2>3. NodeAt(rank[head] + i) = n
    BY <1>4, <2>2
  <2> QED
    BY <2>2, <2>3
<1>6. /\ AbsQueue \in Seq(Values)
      /\ Len(AbsQueue) = rank[e] - rank[head]
      /\ \A i \in 1..(rank[e] - rank[head]) : AbsQueue[i] = data[NodeAt(rank[head] + i)]
  <2> DEFINE N == rank[e] - rank[head]
             q == [i \in 1..N |-> data[NodeAt(rank[head] + i)]]
  <2>1. N \in Nat
    BY <1>1, <1>2
  <2>2. \A i \in 1..N : data[NodeAt(rank[head] + i)] \in Values
    BY <1>2, <1>5 DEF ChainOK
  <2>3. AbsQueue = q
    BY <1>3 DEF AbsQueue
  <2>4. q \in [1..N -> Values]
    BY <2>2
  <2>5. q \in Seq(Values)
    BY <2>1, <2>4, SeqDef
  <2>6. Len(q) = N
    BY <2>1, <2>4, <2>5, LenProperties
  <2> QED
    BY <2>3, <2>5, <2>6
<1>7. Contains(AbsQueue)
  <2>1. ASSUME NEW n \in InList, rank[n] > rank[head]
        PROVE  AbsQueue[rank[n] - rank[head]] = data[n]
    <3>1. rank[n] - rank[head] \in 1..(rank[e] - rank[head])
      BY <1>1, <1>2, <2>1
    <3>2. rank[head] + (rank[n] - rank[head]) = rank[n]
      BY <1>2
    <3> QED
      BY <1>4, <1>6, <3>1, <3>2
  <2> QED
    BY <1>1, <1>6, <2>1 DEF Contains
<1>8. ASSUME NEW q \in Seq(Values), Contains(q) PROVE q = AbsQueue
  <2>1. Len(q) = rank[e] - rank[head]
    BY <1>1, <1>8 DEF Contains
  <2>2. ASSUME NEW i \in 1..Len(q) PROVE q[i] = AbsQueue[i]
    <3> DEFINE n == NodeAt(rank[head] + i)
    <3>1. n \in InList /\ rank[n] = rank[head] + i
      BY <1>5, <2>1
    <3>2. rank[n] > rank[head] /\ rank[n] - rank[head] = i
      BY <1>2, <3>1
    <3>3. q[i] = data[n]
      BY <1>8, <3>1, <3>2 DEF Contains
    <3> QED
      BY <1>6, <2>1, <3>3
  <2> QED
    BY <1>6, <2>1, <2>2, SeqEqual
<1> QED
  BY <1>6, <1>7, <1>8

(* The same of the state a step reaches.                                   *)
LEMMA ContentsUniqueNext ==
  TypeInv' /\ ChainOK' => \A q \in Seq(Values) : Contains(q)' => AbsQueue' = q
<1>1. (TypeInv /\ ChainOK =>
          /\ AbsQueue \in Seq(Values)
          /\ \A q \in Seq(Values) : Contains(q) <=> q = AbsQueue)'
  BY ContentsUnique, PTL
<1> QED
  BY <1>1

(* The contents stay when the list does.                                   *)
LEMMA ContentsStay ==
  ASSUME TypeInv, TypeInv', ChainOK, ChainOK', head' = head, InList' = InList,
         \A n \in InList :
             /\ rank'[n] = rank[n]
             /\ next[n] = Null => next'[n] = Null
             /\ rank[n] > rank[head] => data'[n] = data[n]
  PROVE  AbsQueue' = AbsQueue
<1>1. PICK q \in Seq(Values) : q = AbsQueue
  BY ContentsUnique
<1>2. Contains(q)
  BY <1>1, ContentsUnique
<1>3. rank'[head] = rank[head]
  BY DEF ChainOK
<1>4. Contains(q)'
  BY <1>2, <1>3 DEF Contains
<1> QED
  BY <1>1, <1>4, ContentsUniqueNext

(* A step of t changes at most what AbsCall says of t.                     *)
LEMMA AbsCallStep ==
  ASSUME NEW t \in Threads, NEW c, AbsCall'[t] = c,
         \A u \in Threads \ {t} :
             /\ UnchangedLocals(u)
             /\ pc[u] = "move_data" => data'[next_node[u]] = data[next_node[u]]
  PROVE  AbsCall' = [AbsCall EXCEPT ![t] = c]
<1>1. ASSUME NEW u \in Threads \ {t} PROVE AbsCall'[u] = AbsCall[u]
  BY DEF AbsCall, UnchangedLocals
<1>2. AbsCall' = [u \in Threads |-> AbsCall'[u]]
  BY DEF AbsCall
<1>3. AbsCall = [u \in Threads |-> AbsCall[u]]
  BY DEF AbsCall
<1> QED
  BY <1>1, <1>2, <1>3, Zenon

(* If that stays, nothing changes.                                         *)
LEMMA AbsCallSame ==
  ASSUME NEW t \in Threads, AbsCall'[t] = AbsCall[t],
         AbsCall' = [AbsCall EXCEPT ![t] = AbsCall'[t]]
  PROVE  AbsCall' = AbsCall
<1>1. AbsCall = [u \in Threads |-> AbsCall[u]]
  BY DEF AbsCall
<1>2. [AbsCall EXCEPT ![t] = AbsCall[t]] = AbsCall
  BY <1>1, Zenon
<1> QED
  BY <1>2

(* The loads, the comparisons that lead on, the moves of tail, the copying *)
(* of the data and the retiring are not visible.                           *)
LEMMA HiddenSteps ==
  ASSUME TypeInv, TypeInv', CallInv, CallInv', QueueInv, ChainOK, ChainOK',
         NEW t \in Threads,
         \/ LoadTail(t) \/ LoadTailNext(t) \/ CheckTail(t) \/ SwingTail(t)
         \/ HelpTail(t) \/ LoadHead(t) \/ LoadHeadTail(t) \/ MoveData(t)
         \/ RetireHead(t)
  PROVE  UNCHANGED <<AbsQueue, AbsCall>>
<1> USE DEF Goto, Become, ebrVars, heapVars, localVars, TryAgain, ForgetLoop,
            LoopStart
<1>1. PICK floor \in Nat \ {0} : ListInv(floor)
  BY DEF QueueInv
<1>2. /\ UNCHANGED <<allocated, rank, head, next>>
      /\ \A u \in Threads \ {t} : UnchangedLocals(u)
  BY DEF TypeInv, TypeOK, UnchangedLocals, LoadTail, LoadTailNext, CheckTail,
         SwingTail, HelpTail, LoadHead, LoadHeadTail, MoveData, RetireHead, Retire
<1>3. MoveData(t) \/ data' = data
  BY DEF LoadTail, LoadTailNext, CheckTail,
         SwingTail, HelpTail, LoadHead, LoadHeadTail, RetireHead
<1>4. MoveData(t) => /\ rank[next_node[t]] <= rank[head]
                     /\ next_node[t] \in Nodes
                     /\ rank[next_node[t]] \in Nat /\ rank[head] \in Nat
                     /\ \A n \in Nodes : n # next_node[t] => data'[n] = data[n]
                     /\ \A u \in Threads \ {t} :
                           pc[u] = "move_data" => /\ next_node[u] # next_node[t]
                                                  /\ next_node[u] \in Nodes
  BY <1>1 DEF MoveData, ListInv, LoadedOK, Exclusive, TypeInv, TypeOK, LocalsOK
<1>5. AbsQueue' = AbsQueue
  <2>1. InList' = InList /\ InList \subseteq Nodes
    BY <1>2 DEF InList, TypeInv, TypeOK, EBRTypeOK
  <2>2. \A n \in InList : rank[n] > rank[head] => data'[n] = data[n]
    BY <1>3, <1>4, <2>1
  <2> QED
    BY <1>2, <2>1, <2>2, ContentsStay
<1>6. AbsCall'[t] = AbsCall[t]
  <2> USE DEF TypeInv, TypeOK, LocalsOK, CallInv, CallOK, AbsCall
  <2>1. CASE LoadTail(t) \/ LoadTailNext(t)
    BY <2>1 DEF LoadTail, LoadTailNext
  <2>2. CASE CheckTail(t)
    BY <2>2 DEF CheckTail
  <2>3. CASE SwingTail(t)
    BY <2>3 DEF SwingTail
  <2>4. CASE HelpTail(t)
    BY <2>4 DEF HelpTail
  <2>5. CASE LoadHead(t) \/ LoadHeadTail(t)
    BY <2>5 DEF LoadHead, LoadHeadTail
  <2>6. CASE MoveData(t)
    BY <2>6 DEF MoveData
  <2>7. CASE RetireHead(t)
    BY <2>7 DEF RetireHead
  <2> QED
    BY <2>1, <2>2, <2>3, <2>4, <2>5, <2>6, <2>7
<1>7. AbsCall' = [AbsCall EXCEPT ![t] = AbsCall'[t]]
  BY <1>2, <1>3, <1>4, AbsCallStep
<1>8. AbsCall' = AbsCall
  BY <1>6, <1>7, AbsCallSame
<1> QED
  BY <1>5, <1>8

(* A call of enqueue, dequeue or empty is the abstract invocation.         *)
LEMMA CallRefines ==
  ASSUME TypeInv, TypeInv', CallInv, QueueInv, ChainOK, ChainOK',
         NEW t \in Threads, Call(t)
  PROVE  FIFO!Invoke(t)
<1> USE DEF TypeInv, TypeOK, Goto, Become, Enter, CallEnqueue,
            CallDequeueOrEmpty, heapVars, ebrVars
<1>1. PICK floor \in Nat \ {0} : ListInv(floor)
  BY DEF QueueInv
<1>2. InList \subseteq allocated /\ allocated \subseteq Nodes /\ head \in allocated
  BY DEF InList, EBRTypeOK, ChainOK
<1>3. \A u \in Threads : pc[u] = "move_data" => next_node[u] \in allocated
  BY <1>1 DEF ListInv, LoadedOK, Live, LocalsOK
<1>4. pc[t] = "idle" /\ AbsCall[t] = FIFO!NoCall
  BY DEF Call, CallInv, CallOK, AbsCall, FIFO!NoCall
<1>5. ASSUME NEW v \in unsent, CallEnqueue(t, v) PROVE FIFO!Invoke(t)
  <2>1. PICK n \in Nodes \ allocated :
            /\ allocated' = allocated \cup {n}
            /\ data' = [data EXCEPT ![n] = v]
            /\ next' = [next EXCEPT ![n] = Null]
            /\ rank' = [rank EXCEPT ![n] = 0]
            /\ new_node' = [new_node EXCEPT ![t] = n]
    BY <1>5
  <2>2. \A m \in allocated : /\ rank'[m] = rank[m]
                             /\ next'[m] = next[m]
                             /\ data'[m] = data[m]
    BY <1>2, <2>1
  <2>3. InList' = InList
    <3>1. rank'[n] = 0 /\ rank[head] > 0 /\ head' = head
      BY <1>1, <1>5, <2>1 DEF ListInv, ListOK, Live
    <3>2. rank'[head] = rank[head]
      BY <1>2, <2>2
    <3> QED
      BY <1>2, <2>1, <2>2, <3>1, <3>2 DEF InList
  <2>4. AbsQueue' = AbsQueue
    BY <1>2, <1>5, <2>2, <2>3, ContentsStay
  <2>5. AbsCall'[t] = [op |-> "enqueue", value |-> v, done |-> FALSE]
    BY <1>5 DEF AbsCall
  <2>6. \A u \in Threads \ {t} : UnchangedLocals(u)
    BY <1>5, <2>1 DEF UnchangedLocals
  <2>7. AbsCall' = [AbsCall EXCEPT
                       ![t] = [op |-> "enqueue", value |-> v, done |-> FALSE]]
    BY <1>3, <2>2, <2>5, <2>6, AbsCallStep
  <2> QED
    BY <1>4, <2>4, <2>7 DEF FIFO!Invoke, FIFO!Become
<1>6. ASSUME NEW f \in {"dequeue", "empty"}, CallDequeueOrEmpty(t, f)
      PROVE  FIFO!Invoke(t)
  <2>1. InList' = InList
    BY <1>6 DEF InList
  <2>2. AbsQueue' = AbsQueue
    BY <1>6, <2>1, ContentsStay
  <2>3. AbsCall'[t] = [op |-> f, value |-> NoValue, done |-> FALSE]
    BY <1>4, <1>6 DEF AbsCall, CallInv, CallOK
  <2>4. \A u \in Threads \ {t} : UnchangedLocals(u)
    BY <1>6 DEF UnchangedLocals
  <2>5. AbsCall' = [AbsCall EXCEPT
                       ![t] = [op |-> f, value |-> NoValue, done |-> FALSE]]
    BY <1>6, <2>3, <2>4, AbsCallStep
  <2> QED
    BY <1>4, <2>2, <2>5 DEF FIFO!Invoke, FIFO!Become
<1> QED
  BY <1>5, <1>6 DEF Call

-----------------------------------------------------------------------------
(* What the EXCEPTs of the abstract actions make of a call's record        *)

(* The operation is done.                                                  *)
LEMMA TakesEffect ==
  ASSUME NEW t \in Threads, NEW o, NEW v,
         AbsCall[t] = [op |-> o, value |-> v, done |-> FALSE],
         AbsCall'[t] = [op |-> o, value |-> v, done |-> TRUE],
         AbsCall' = [AbsCall EXCEPT ![t] = AbsCall'[t]]
  PROVE  AbsCall' = [AbsCall EXCEPT ![t] = [AbsCall[t] EXCEPT !.done = TRUE]]
<1>1. PICK was : was = FALSE
  OBVIOUS
<1>2. PICK now : now = TRUE
  OBVIOUS
<1>3. PICK b : b = AbsCall[t]
  OBVIOUS
<1>4. PICK u : u = [b EXCEPT !.done = now]
  OBVIOUS
<1>5. b = [op |-> o, value |-> v, done |-> was]
  BY <1>1, <1>3
<1>6. u = [op |-> o, value |-> v, done |-> now]
  BY <1>4, <1>5
<1>7. AbsCall'[t] = [op |-> o, value |-> v, done |-> now]
  BY <1>2
<1>8. [AbsCall[t] EXCEPT !.done = TRUE] = [b EXCEPT !.done = now]
  BY <1>2, <1>3
<1> QED
  BY <1>4, <1>6, <1>7, <1>8, Zenon

(* It is not any more.                                                     *)
LEMMA StartsAgain ==
  ASSUME NEW t \in Threads, NEW o, NEW v,
         AbsCall[t] = [op |-> o, value |-> v, done |-> TRUE],
         AbsCall'[t] = [op |-> o, value |-> v, done |-> FALSE],
         AbsCall' = [AbsCall EXCEPT ![t] = AbsCall'[t]]
  PROVE  AbsCall' = [AbsCall EXCEPT ![t] = [AbsCall[t] EXCEPT !.done = FALSE]]
<1>1. PICK was : was = TRUE
  OBVIOUS
<1>2. PICK now : now = FALSE
  OBVIOUS
<1>3. PICK b : b = AbsCall[t]
  OBVIOUS
<1>4. PICK u : u = [b EXCEPT !.done = now]
  OBVIOUS
<1>5. b = [op |-> o, value |-> v, done |-> was]
  BY <1>1, <1>3
<1>6. u = [op |-> o, value |-> v, done |-> now]
  BY <1>4, <1>5
<1>7. AbsCall'[t] = [op |-> o, value |-> v, done |-> now]
  BY <1>2
<1>8. [AbsCall[t] EXCEPT !.done = FALSE] = [b EXCEPT !.done = now]
  BY <1>2, <1>3
<1> QED
  BY <1>4, <1>6, <1>7, <1>8, Zenon

(* It is done and its answer is known.                                     *)
LEMMA SettlesNonEmpty ==
  ASSUME NEW t \in Threads, NEW v,
         AbsCall[t] = [op |-> "empty", value |-> v, done |-> FALSE],
         AbsCall'[t] = [op |-> "nonempty", value |-> v, done |-> TRUE],
         AbsCall' = [AbsCall EXCEPT ![t] = AbsCall'[t]]
  PROVE  AbsCall' = [AbsCall EXCEPT ![t] = [AbsCall[t] EXCEPT !.op = "nonempty", !.done = TRUE]]
<1>1. PICK was : was = FALSE
  OBVIOUS
<1>2. PICK now : now = TRUE
  OBVIOUS
<1>3. PICK b : b = AbsCall[t]
  OBVIOUS
<1>4. PICK u : u = [b EXCEPT !.op = "nonempty", !.done = now]
  OBVIOUS
<1>5. b = [op |-> "empty", value |-> v, done |-> was]
  BY <1>1, <1>3
<1>6. u = [op |-> "nonempty", value |-> v, done |-> now]
  BY <1>4, <1>5
<1>7. AbsCall'[t] = [op |-> "nonempty", value |-> v, done |-> now]
  BY <1>2
<1>8. [AbsCall[t] EXCEPT !.op = "nonempty", !.done = TRUE] = [b EXCEPT !.op = "nonempty", !.done = now]
  BY <1>2, <1>3
<1> QED
  BY <1>4, <1>6, <1>7, <1>8, Zenon

(* It is done and has a value.                                             *)
LEMMA TakesValue ==
  ASSUME NEW t \in Threads, NEW v,
         AbsCall[t] = [op |-> "dequeue", value |-> v, done |-> FALSE],
         AbsCall'[t] = [op |-> "dequeue", value |-> Head(AbsQueue), done |-> TRUE],
         AbsCall' = [AbsCall EXCEPT ![t] = AbsCall'[t]]
  PROVE  AbsCall' = [AbsCall EXCEPT ![t] = [AbsCall[t] EXCEPT !.value = Head(AbsQueue), !.done = TRUE]]
<1>1. PICK was : was = FALSE
  OBVIOUS
<1>2. PICK now : now = TRUE
  OBVIOUS
<1>3. PICK b : b = AbsCall[t]
  OBVIOUS
<1>4. PICK u : u = [b EXCEPT !.value = Head(AbsQueue), !.done = now]
  OBVIOUS
<1>5. b = [op |-> "dequeue", value |-> v, done |-> was]
  BY <1>1, <1>3
<1>6. u = [op |-> "dequeue", value |-> Head(AbsQueue), done |-> now]
  BY <1>4, <1>5
<1>7. AbsCall'[t] = [op |-> "dequeue", value |-> Head(AbsQueue), done |-> now]
  BY <1>2
<1>8. [AbsCall[t] EXCEPT !.value = Head(AbsQueue), !.done = TRUE] = [b EXCEPT !.value = Head(AbsQueue), !.done = now]
  BY <1>2, <1>3
<1> QED
  BY <1>4, <1>6, <1>7, <1>8, Zenon

(* Linking the new node is the moment the enqueue takes effect; a failed   *)
(* attempt is not visible.                                                 *)
LEMMA LinkNodeRefines ==
  ASSUME TypeInv, TypeInv', CallInv, QueueInv, ChainOK, ChainOK',
         NEW t \in Threads, LinkNode(t)
  PROVE  FIFO!DoEnqueue(t) \/ UNCHANGED <<AbsQueue, AbsCall>>
<1> USE DEF TypeInv, TypeOK, LocalsOK, Goto, Become, LinkNode, ebrVars
<1> DEFINE n == new_node[t]
           c == current_tail[t]
<1>1. PICK floor \in Nat \ {0} : ListInv(floor)
  BY DEF QueueInv
<1>2. /\ UNCHANGED <<allocated, data, head>>
      /\ \A u \in Threads \ {t} : UnchangedLocals(u)
      /\ op[t] = "enqueue" /\ pc[t] = "link"
  BY DEF localVars, TryAgain, ForgetLoop, UnchangedLocals
<1>3. CASE UNCHANGED <<next, rank>> /\ TryAgain(t)
  <2>1. InList' = InList
    BY <1>2, <1>3 DEF InList
  <2>2. AbsQueue' = AbsQueue
    BY <1>2, <1>3, <2>1, ContentsStay
  <2>3. AbsCall'[t] = AbsCall[t]
    BY <1>2, <1>3 DEF AbsCall, TryAgain, LoopStart
  <2>4. AbsCall' = [AbsCall EXCEPT ![t] = AbsCall'[t]]
    BY <1>2, AbsCallStep
  <2>5. AbsCall' = AbsCall
    BY <2>3, <2>4, AbsCallSame
  <2> QED
    BY <2>2, <2>5
<1>4. CASE /\ next[c] = Null
           /\ next' = [next EXCEPT ![c] = n]
           /\ rank' = [rank EXCEPT ![n] = rank[c] + 1]
           /\ pc' = [pc EXCEPT ![t] = "swing"]
           /\ UNCHANGED localVars
  <2>1. /\ n \in allocated /\ rank[n] = 0 /\ next[n] = Null
        /\ data[n] = value[t] /\ value[t] \in Values
        /\ c \in InList
        /\ rank[head] > 0 /\ rank[head] \in Nat /\ head \in InList
    <3>1. NewNodeOK(t, floor) /\ LoadedOK(t, floor) /\ ListOK(floor) /\ CallOK(t)
      BY <1>1 DEF ListInv, CallInv
    <3>2. /\ c \in Live(floor) /\ head \in Live(floor)
          /\ rank[head] <= rank[c]
      BY <1>2, <1>4, <3>1 DEF LoadedOK, ListOK
    <3>3. /\ n \in allocated /\ rank[n] = 0 /\ next[n] = Null
          /\ data[n] = value[t] /\ value[t] \in Values
      BY <1>2, <3>1 DEF NewNodeOK, CallOK, Unlinked
    <3> QED
      BY <3>2, <3>3 DEF Live, InList, ChainOK
  <2>2. /\ allocated \subseteq Nodes /\ InList \subseteq allocated
        /\ \A m \in allocated : rank[m] \in Nat
        /\ n \notin InList /\ n # c
    BY <2>1 DEF EBRTypeOK, InList
  <2>3. /\ rank'[n] = rank[c] + 1 /\ next'[n] = Null
        /\ \A m \in InList : rank'[m] = rank[m] /\ m \in allocated /\ m # n
        /\ \A m \in allocated : m # n => rank'[m] = rank[m]
    BY <1>4, <2>1, <2>2
  <2>4. InList' = InList \cup {n}
    BY <1>2, <2>1, <2>2, <2>3 DEF InList
  <2>5. /\ AbsQueue \in Seq(Values)
        /\ Len(AbsQueue) = rank[c] - rank[head]
        /\ \A m \in InList : rank[m] <= rank[c]
        /\ \A m \in InList : rank[m] > rank[head]
              => AbsQueue[rank[m] - rank[head]] = data[m]
    <3>1. AbsQueue \in Seq(Values) /\ Contains(AbsQueue)
      BY ContentsUnique
    <3>2. \A e \in InList : next[e] = Null => e = c /\ \A m \in InList : rank[m] <= rank[e]
      BY <1>4, <2>1 DEF ChainOK
    <3> HIDE <1>4
    <3> QED
      BY <3>1, <3>2 DEF Contains
  <2>6. PICK q \in Seq(Values) : q = Append(AbsQueue, value[t])
    BY <2>1, <2>5, AppendProperties
  <2>7. /\ Len(q) = rank[c] - rank[head] + 1
        /\ q[rank[c] - rank[head] + 1] = value[t]
        /\ \A i \in 1..(rank[c] - rank[head]) : q[i] = AbsQueue[i]
    BY <2>1, <2>5, <2>6
  <2>8. Contains(q)'
    <3>1. n \in InList' /\ next'[n] = Null /\ Len(q) = rank'[n] - rank'[head']
      BY <1>2, <2>1, <2>2, <2>3, <2>4, <2>7
    <3>2. ASSUME NEW m \in InList', rank'[m] > rank'[head']
          PROVE  q[rank'[m] - rank'[head']] = data'[m]
      <4>1. rank'[head'] = rank[head] /\ data' = data
        BY <1>2, <2>1, <2>3
      <4>2. CASE m = n
        <5>1. rank'[m] - rank'[head'] = rank[c] - rank[head] + 1
          BY <2>1, <2>2, <2>3, <4>1, <4>2
        <5> QED
          BY <2>1, <2>7, <4>1, <4>2, <5>1
      <4>3. CASE m \in InList
        <5>1. rank'[m] = rank[m] /\ rank[m] <= rank[c] /\ rank[m] \in Nat /\ rank[c] \in Nat
          BY <2>1, <2>2, <2>3, <2>5, <4>3
        <5>2. rank[m] - rank[head] \in 1..(rank[c] - rank[head])
          BY <2>1, <3>2, <4>1, <5>1, SMTT(30)
        <5>3. AbsQueue[rank[m] - rank[head]] = data[m]
          BY <2>5, <3>2, <4>1, <4>3, <5>1
        <5> QED
          BY <2>7, <4>1, <5>1, <5>2, <5>3
      <4> QED
        BY <2>4, <4>2, <4>3
    <3> HIDE <1>4
    <3> QED
      BY <3>1, <3>2 DEF Contains
  <2>9. AbsQueue' = Append(AbsQueue, value[t])
    BY <2>6, <2>8, ContentsUniqueNext
  <2>10. /\ AbsCall[t] = [op |-> "enqueue", value |-> value[t], done |-> FALSE]
         /\ AbsCall'[t] = [op |-> "enqueue", value |-> value[t], done |-> TRUE]
    BY <1>2, <1>4 DEF AbsCall, localVars
  <2>11. AbsCall' = [AbsCall EXCEPT ![t] = [AbsCall[t] EXCEPT !.done = TRUE]]
    <3>1. AbsCall' = [AbsCall EXCEPT ![t] = AbsCall'[t]]
      BY <1>2, AbsCallStep
    <3> QED
      BY <2>10, <3>1, TakesEffect
  <2> QED
    BY <2>9, <2>10, <2>11 DEF FIFO!DoEnqueue, FIFO!Pending, FIFO!Become
<1> QED
  BY <1>3, <1>4 DEF TryAgain

(* The list is empty when the node loaded as head has no successor.        *)
LEMMA EmptySeen ==
  ASSUME TypeInv, QueueInv, ChainOK, NEW t \in Threads,
         pc[t] = "load_head_next", next[current_head[t]] = Null
  PROVE  AbsQueue = <<>>
<1> USE DEF TypeInv, TypeOK, LocalsOK
<1>1. PICK floor \in Nat \ {0} : ListInv(floor)
  BY DEF QueueInv
<1>2. \A n \in InList : rank[n] <= rank[head] /\ rank[n] = rank[head]
  <2>1. /\ current_head[t] \in Live(floor)
        /\ rank[current_head[t]] <= rank[head]
        /\ head \in Live(floor)
        /\ \A m \in Live(floor) : rank[m] <= rank[current_head[t]]
    BY <1>1 DEF ListInv, ListOK, LoadedOK
  <2>2. \A n \in InList : n \in Live(floor) /\ rank[n] \in Nat /\ rank[head] <= rank[n]
    BY <2>1 DEF InList, Live, EBRTypeOK
  <2>3. {rank[head], rank[current_head[t]]} \subseteq Nat
    BY <2>1 DEF Live, EBRTypeOK
  <2> QED
    BY <2>1, <2>2, <2>3
<1>3. AbsQueue \in Seq(Values) /\ Contains(AbsQueue)
  BY ContentsUnique
<1>4. Len(AbsQueue) = 0
  BY <1>2, <1>3 DEF Contains
<1> QED
  BY <1>3, <1>4, EmptySeq

(* Loading the pointer after head decides empty(), and dequeue if it finds *)
(* nothing.                                                                *)
LEMMA LoadHeadNextRefines ==
  ASSUME TypeInv, TypeInv', CallInv, QueueInv, ChainOK, ChainOK',
         NEW t \in Threads, LoadHeadNext(t)
  PROVE  \/ FIFO!SeeEmpty(t) \/ FIFO!SeeNonEmpty(t)
         \/ UNCHANGED <<AbsQueue, AbsCall>>
<1> USE DEF TypeInv, TypeOK, LocalsOK, Goto, Become, LoadHeadNext, ebrVars, heapVars
<1>1. /\ UNCHANGED <<allocated, rank, head, next, data>>
      /\ \A u \in Threads \ {t} : UnchangedLocals(u)
      /\ pc[t] = "load_head_next"
  BY DEF ForgetLoop, UnchangedLocals
<1>2. AbsQueue' = AbsQueue
  <2>1. InList' = InList
    BY <1>1 DEF InList
  <2> QED
    BY <1>1, <2>1, ContentsStay
<1>3. AbsCall' = [AbsCall EXCEPT ![t] = AbsCall'[t]]
  BY <1>1, AbsCallStep
<1>4. CASE op[t] = "dequeue"
  <2>1. AbsCall[t] = [op |-> "dequeue", value |-> NoValue, done |-> FALSE]
    BY <1>1, <1>4 DEF AbsCall, CallInv, CallOK
  <2>2. AbsCall'[t] = [op |-> "dequeue", value |-> NoValue,
                       done |-> next[current_head[t]] = Null]
    BY <1>1, <1>4, ZenonT(60) DEF AbsCall, CallInv, CallOK
  <2>3. CASE next[current_head[t]] = Null
    <3>1. AbsQueue = <<>>
      BY <1>1, <2>3, EmptySeen
    <3>2. AbsCall'[t] = [op |-> "dequeue", value |-> NoValue, done |-> TRUE]
      BY <2>2, <2>3
    <3>3. AbsCall' = [AbsCall EXCEPT ![t] = [AbsCall[t] EXCEPT !.done = TRUE]]
      BY <1>3, <2>1, <3>2, TakesEffect
    <3> QED
      BY <1>2, <2>1, <3>1, <3>3 DEF FIFO!SeeEmpty, FIFO!Pending, FIFO!Become
  <2>4. CASE next[current_head[t]] # Null
    <3>1. AbsCall'[t] = AbsCall[t]
      BY <2>1, <2>2, <2>4
    <3>2. AbsCall' = AbsCall
      BY <1>3, <3>1, AbsCallSame
    <3> QED
      BY <1>2, <3>2
  <2> QED
    BY <2>3, <2>4
<1>5. CASE op[t] = "empty"
  <2>1. AbsCall[t] = [op |-> "empty", value |-> NoValue, done |-> FALSE]
    BY <1>1, <1>5 DEF AbsCall, CallInv, CallOK
  <2>2. CASE SeesEmpty(t)
    <3>1. AbsQueue = <<>>
      BY <1>1, <2>2, EmptySeen DEF SeesEmpty
    <3>2. AbsCall'[t] = [op |-> "empty", value |-> NoValue, done |-> TRUE]
      BY <1>1, <1>5, <2>2 DEF AbsCall, CallInv, CallOK
    <3>3. AbsCall' = [AbsCall EXCEPT ![t] = [AbsCall[t] EXCEPT !.done = TRUE]]
      BY <1>3, <2>1, <3>2, TakesEffect
    <3> QED
      BY <1>2, <2>1, <3>1, <3>3 DEF FIFO!SeeEmpty, FIFO!Pending, FIFO!Become
  <2>3. CASE ~SeesEmpty(t)
    <3>1. AbsCall'[t] = [op |-> "nonempty", value |-> NoValue, done |-> TRUE]
      BY <1>1, <1>5, <2>3 DEF AbsCall, CallInv, CallOK
    <3>2. AbsCall' = [AbsCall EXCEPT
                         ![t] = [AbsCall[t] EXCEPT !.op = "nonempty", !.done = TRUE]]
      BY <1>3, <2>1, <3>1, SettlesNonEmpty
    <3> QED
      BY <1>2, <2>1, <3>2 DEF FIFO!SeeNonEmpty, FIFO!Pending, FIFO!Become
  <2> QED
    BY <2>2, <2>3
<1> QED
  BY <1>4, <1>5

(* A dequeue that saw an empty queue returns false or looks again.         *)
LEMMA CheckHeadRefines ==
  ASSUME TypeInv, TypeInv', CallInv, QueueInv, ChainOK, ChainOK',
         NEW t \in Threads, CheckHead(t)
  PROVE  FIFO!LookAgain(t) \/ UNCHANGED <<AbsQueue, AbsCall>>
<1> USE QueueAssumption
    DEF TypeInv, TypeOK, LocalsOK, Goto, Become, CheckHead, ebrVars, heapVars,
        localVars, TryAgain, LoopStart, ForgetLoop
<1>1. /\ UNCHANGED <<allocated, rank, head, next, data>>
      /\ \A u \in Threads \ {t} : UnchangedLocals(u)
      /\ pc[t] = "check_head" /\ op[t] = "dequeue"
  BY DEF UnchangedLocals
<1>2. AbsQueue' = AbsQueue
  <2>1. InList' = InList
    BY <1>1 DEF InList
  <2> QED
    BY <1>1, <2>1, ContentsStay
<1>3. AbsCall' = [AbsCall EXCEPT ![t] = AbsCall'[t]]
  BY <1>1, AbsCallStep
<1>4. AbsCall[t] = [op |-> "dequeue", value |-> NoValue, done |-> next_node[t] = Null]
  BY <1>1 DEF AbsCall, CallInv, CallOK
<1>5. AbsCall'[t] = [op |-> "dequeue", value |-> NoValue, done |-> pc'[t] = "leave"]
  BY <1>1 DEF AbsCall, CallInv, CallOK
<1>6. CASE next_node[t] = Null <=> pc'[t] = "leave"
  <2>1. AbsCall'[t] = AbsCall[t]
    BY <1>4, <1>5, <1>6, Zenon
  <2>2. AbsCall' = AbsCall
    BY <1>3, <2>1, AbsCallSame
  <2> QED
    BY <1>2, <2>2
<1>7. CASE next_node[t] = Null /\ pc'[t] # "leave"
  <2>1. AbsCall[t] = [op |-> "dequeue", value |-> NoValue, done |-> TRUE]
    BY <1>4, <1>7
  <2>2. AbsCall'[t] = [op |-> "dequeue", value |-> NoValue, done |-> FALSE]
    BY <1>5, <1>7
  <2>3. AbsCall' = [AbsCall EXCEPT ![t] = [AbsCall[t] EXCEPT !.done = FALSE]]
    BY <1>3, <2>1, <2>2, StartsAgain
  <2> QED
    BY <1>2, <2>1, <2>3 DEF FIFO!LookAgain, FIFO!Become
<1> QED
  BY <1>1, <1>6, <1>7

(* Moving head is the moment a dequeue takes effect, with the data of the  *)
(* node head moves to.                                                     *)
LEMMA TakeHeadRefines ==
  ASSUME TypeInv, TypeInv', CallInv, QueueInv, ChainOK, ChainOK',
         NEW t \in Threads, TakeHead(t)
  PROVE  FIFO!DoDequeue(t) \/ UNCHANGED <<AbsQueue, AbsCall>>
<1> USE DEF TypeInv, TypeOK, LocalsOK, Goto, Become, TakeHead, ebrVars, heapVars
<1> DEFINE n == next_node[t]
<1>1. PICK floor \in Nat \ {0} : ListInv(floor)
  BY DEF QueueInv
<1>2. /\ UNCHANGED <<allocated, rank, next, data>>
      /\ \A u \in Threads \ {t} : UnchangedLocals(u)
      /\ op[t] = "dequeue" /\ pc[t] = "take_head" /\ n # Null
  BY DEF TryAgain, ForgetLoop, UnchangedLocals
<1>3. AbsCall' = [AbsCall EXCEPT ![t] = AbsCall'[t]]
  BY <1>2, AbsCallStep
<1>4. AbsCall[t] = [op |-> "dequeue", value |-> NoValue, done |-> FALSE]
  BY <1>2 DEF AbsCall, CallInv, CallOK
<1>5. CASE head' = head /\ TryAgain(t)
  <2>1. InList' = InList
    BY <1>2, <1>5 DEF InList
  <2>2. AbsQueue' = AbsQueue
    BY <1>2, <1>5, <2>1, ContentsStay
  <2>3. AbsCall'[t] = AbsCall[t]
    BY <1>2, <1>5 DEF AbsCall, TryAgain, LoopStart
  <2>4. AbsCall' = AbsCall
    BY <1>3, <2>3, AbsCallSame
  <2> QED
    BY <2>2, <2>4
<1>6. CASE /\ head = current_head[t]
           /\ head' = n
           /\ pc' = [pc EXCEPT ![t] = "move_data"]
           /\ UNCHANGED <<op, value, next_node>>
  <2>1. /\ n \in InList /\ head \in InList
        /\ rank[n] = rank[head] + 1
        /\ \A m \in InList : m \in allocated /\ rank[m] \in Nat /\ rank[head] <= rank[m]
        /\ \A m \in InList : rank[m] = rank[head] => m = head
    <3>1. n \in Live(floor) /\ rank[n] = rank[head] + 1
      BY <1>1, <1>2, <1>6 DEF ListInv, LoadedOK
    <3>2. rank[head] \in Nat
      BY DEF TypeOK
    <3> QED
      BY <3>1, <3>2 DEF Live, InList, EBRTypeOK, ChainOK
  <2>2. InList' = InList \ {head}
    <3>1. rank'[head'] = rank[head] + 1
      BY <1>2, <1>6, <2>1
    <3>2. \A m \in allocated : m \in InList' <=> rank[m] >= rank[head] + 1
      BY <1>2, <3>1 DEF InList
    <3>3. \A m \in allocated : m \in InList <=> rank[m] >= rank[head]
      BY DEF InList
    <3>4. InList \subseteq allocated /\ InList' \subseteq allocated
      BY <1>2 DEF InList
    <3>5. rank[head] \in Nat /\ \A m \in allocated : rank[m] \in Nat
      BY DEF EBRTypeOK
    <3>6. ASSUME NEW m \in allocated
          PROVE  m \in InList' <=> m \in InList /\ m # head
      <4>1. m = head => ~(rank[m] >= rank[head] + 1)
        BY <3>5
      <4>2. m \in InList /\ m # head => rank[m] >= rank[head] + 1
        BY <2>1, <3>3, <3>5
      <4>3. rank[m] >= rank[head] + 1 => rank[m] >= rank[head]
        BY <3>5
      <4> QED
        BY <3>2, <3>3, <4>1, <4>2, <4>3
    <3> QED
      BY <3>4, <3>6
  <2>3. AbsQueue \in Seq(Values) /\ Contains(AbsQueue)
    BY ContentsUnique
  <2>4. PICK e \in InList :
            /\ next[e] = Null
            /\ Len(AbsQueue) = rank[e] - rank[head]
            /\ \A m \in InList : rank[m] > rank[head]
                   => AbsQueue[rank[m] - rank[head]] = data[m]
    BY <2>3 DEF Contains
  <2>5. rank[n] <= rank[e]
    BY <2>1, <2>4 DEF ChainOK
  <2>6. AbsQueue # <<>> /\ e # head
    BY <2>1, <2>3, <2>4, <2>5
  <2>7. /\ Tail(AbsQueue) \in Seq(Values)
        /\ Len(Tail(AbsQueue)) = Len(AbsQueue) - 1
        /\ \A i \in 1..Len(Tail(AbsQueue)) : Tail(AbsQueue)[i] = AbsQueue[i + 1]
    BY <2>3, <2>6, HeadTailProperties
  <2>8. Head(AbsQueue) = data[n]
    <3>1. Head(AbsQueue) = AbsQueue[1]
      BY <2>3, <2>6
    <3>2. rank[n] - rank[head] = 1 /\ rank[n] > rank[head]
      BY <2>1
    <3> QED
      BY <2>1, <2>4, <3>1, <3>2
  <2>9. PICK q \in Seq(Values) : q = Tail(AbsQueue)
    BY <2>7
  <2>10. /\ rank[e] \in Nat /\ rank[head] \in Nat
         /\ Len(q) = rank[e] - rank[head] - 1
         /\ \A i \in 1..Len(q) : q[i] = AbsQueue[i + 1]
    BY <2>1, <2>4, <2>7, <2>9
  <2>11. Contains(q)'
    <3>1. rank'[head'] = rank[head] + 1 /\ rank' = rank /\ data' = data /\ next' = next
      BY <1>2, <1>6, <2>1
    <3>2. e \in InList' /\ next'[e] = Null /\ Len(q) = rank'[e] - rank'[head']
      BY <2>1, <2>2, <2>4, <2>6, <2>7, <2>9, <3>1
    <3>3. ASSUME NEW m \in InList', rank'[m] > rank'[head']
          PROVE  q[rank'[m] - rank'[head']] = data'[m]
      <4>1. m \in InList /\ rank[m] \in Nat /\ rank[m] > rank[head] + 1
        BY <2>1, <2>2, <3>1, <3>3
      <4>2. rank[m] <= rank[e]
        BY <2>4, <4>1 DEF ChainOK
      <4>3. PICK i \in Nat : i = rank[m] - rank[head] - 1
        BY <2>1, <4>1
      <4>4. i \in 1..Len(q) /\ i + 1 = rank[m] - rank[head]
        <5>1. i >= 1 /\ i <= rank[e] - rank[head] - 1 /\ i + 1 = rank[m] - rank[head]
          <6>1. {rank[e], rank[m], rank[head]} \subseteq Nat
            BY <2>10, <4>1
          <6> HIDE DEF TypeInv, TakeHead
          <6> QED
            BY <4>1, <4>2, <4>3, <6>1
        <5> QED
          BY <2>10, <5>1
      <4>5. q[i] = data[m]
        <5>1. rank[m] > rank[head]
          BY <2>10, <4>1
        <5> QED
          BY <2>4, <2>10, <4>1, <4>4, <5>1, ZenonT(60)
      <4>6. rank'[m] - rank'[head'] = i
        BY <2>1, <3>1, <4>1, <4>3
      <4> QED
        BY <3>1, <4>5, <4>6
    <3> HIDE <1>6
    <3> QED
      BY <3>2, <3>3 DEF Contains
  <2>12. AbsQueue' = Tail(AbsQueue)
    BY <2>9, <2>11, ContentsUniqueNext
  <2>13. AbsCall'[t] = [op |-> "dequeue", value |-> Head(AbsQueue), done |-> TRUE]
    BY <1>2, <1>6, <2>8 DEF AbsCall
  <2>14. AbsCall' = [AbsCall EXCEPT
                        ![t] = [AbsCall[t] EXCEPT !.value = Head(AbsQueue), !.done = TRUE]]
    BY <1>3, <1>4, <2>13, TakesValue
  <2> QED
    BY <1>4, <2>6, <2>12, <2>14 DEF FIFO!DoDequeue, FIFO!Pending, FIFO!Become
<1> QED
  BY <1>5, <1>6 DEF TryAgain

(* leave() and the return are the abstract return: what try_reclaim        *)
(* deletes is not in the list.                                             *)
LEMMA ReturnRefines ==
  ASSUME TypeInv, TypeInv', CallInv, QueueInv, ChainOK, ChainOK',
         NEW t \in Threads, LeaveAndReturn(t)
  PROVE  FIFO!Return(t)
<1> USE DEF TypeInv, TypeOK, Goto, Become, LeaveAndReturn, Leave
<1>1. PICK floor \in Nat \ {0} : ListInv(floor) /\ RetiredOK(floor)
  BY DEF QueueInv
<1>2. /\ UNCHANGED <<rank, next, data, head>>
      /\ \A u \in Threads \ {t} : UnchangedLocals(u)
      /\ pc[t] = "leave"
  BY DEF UnchangedLocals
<1>3. InList' = InList
  <2>1. floor <= rank[head] /\ rank[head] \in Nat
    BY <1>1 DEF ListInv, ListOK, Live
  <2>2. \A n \in NodesOf(Reclaimable(t)) : rank[n] < floor /\ n \in allocated /\ rank[n] \in Nat
    BY <1>1, LeaveDeletes DEF NodesOf, RetiredOK, EBRTypeOK
  <2>3. \A n \in InList : n \notin NodesOf(Reclaimable(t))
    BY <2>1, <2>2 DEF InList
  <2> QED
    BY <1>2, <2>3 DEF InList
<1>4. AbsQueue' = AbsQueue
  BY <1>2, <1>3, ContentsStay
<1>5. AbsCall[t].done = TRUE
  BY <1>2 DEF AbsCall
<1>6. AbsCall'[t] = FIFO!NoCall
  BY <1>2 DEF AbsCall, FIFO!NoCall
<1>7. AbsCall' = [AbsCall EXCEPT ![t] = FIFO!NoCall]
  BY <1>2, <1>6, AbsCallStep
<1> QED
  BY <1>4, <1>5, <1>7 DEF FIFO!Return, FIFO!Become

(* Neither the environment's calls nor what they delete is visible.        *)
LEMMA EnvHidden ==
  ASSUME TypeInv, TypeInv', QueueInv, QueueInv', ChainOK, ChainOK', Env
  PROVE  UNCHANGED <<AbsQueue, AbsCall>>
<1> USE DEF TypeInv, TypeOK, Env
<1>1. PICK floor \in Nat \ {0} : ListInv(floor) /\ RetiredOK(floor)
  BY DEF QueueInv
<1>2. UNCHANGED <<rank, next, data, head, pc, op, value, next_node>>
  BY DEF localVars
<1>3. InList' = InList
  <2>1. CASE allocated' = allocated
    BY <1>2, <2>1 DEF InList
  <2>2. ASSUME NEW t \in Threads, allocated' = allocated \ NodesOf(retired_list[t])
        PROVE  InList' = InList
    <3>1. \A n \in NodesOf(retired_list[t]) : /\ rank[n] \in Nat /\ rank[head] \in Nat
                                              /\ rank[n] < rank[head]
      BY <1>1 DEF NodesOf, RetiredOK, EBRTypeOK
    <3>2. \A n \in InList : n \notin NodesOf(retired_list[t])
      BY <3>1 DEF InList
    <3> QED
      BY <1>2, <2>2, <3>2 DEF InList
  <2> QED
    BY <2>1, <2>2 DEF EBREnv, BumpEpoch, UnregisterThread, ThreadExit
<1>4. AbsQueue' = AbsQueue
  BY <1>2, <1>3, ContentsStay
<1>5. AbsCall' = AbsCall
  BY <1>2 DEF AbsCall
<1> QED
  BY <1>4, <1>5

(* A new queue is empty and nobody calls it.                               *)
LEMMA InitRefines == Init => FIFO!Init
<1> SUFFICES ASSUME Init PROVE FIFO!Init
  OBVIOUS
<1>1. TypeInv /\ QueueInv /\ ChainOK
  BY TypeInit, QueueInit, ChainHolds
<1>2. AbsQueue = <<>>
  <2>1. Contains(<<>>)
    BY <1>1 DEF Init, Contains, InList, ChainOK, TypeInv, TypeOK
  <2> QED
    BY <1>1, <2>1, ContentsUnique, EmptySeq
<1>3. AbsCall = [t \in Threads |-> FIFO!NoCall]
  BY DEF Init, AbsCall, FIFO!NoCall
<1> QED
  BY <1>2, <1>3 DEF FIFO!Init

(* Every step of the queue is a step of the FIFO queue or hidden.          *)
LEMMA StepRefines ==
  ASSUME TypeInv, TypeInv', CallInv, CallInv', QueueInv, QueueInv', ChainOK,
         ChainOK', [Next]_vars
  PROVE  [FIFO!Next]_FIFO!fifoVars
<1> USE DEF FIFO!Next, FIFO!fifoVars
<1>1. CASE Env
  BY <1>1, EnvHidden
<1>2. ASSUME NEW t \in Threads, Call(t) PROVE [FIFO!Next]_FIFO!fifoVars
  BY <1>2, CallRefines
<1>3. ASSUME NEW t \in Threads, EnqueueStep(t) \/ HelpTail(t)
      PROVE  [FIFO!Next]_FIFO!fifoVars
  BY <1>3, HiddenSteps, LinkNodeRefines DEF EnqueueStep
<1>4. ASSUME NEW t \in Threads, DequeueStep(t) PROVE [FIFO!Next]_FIFO!fifoVars
  BY <1>4, HiddenSteps, LoadHeadNextRefines, CheckHeadRefines, TakeHeadRefines
     DEF DequeueStep
<1>5. ASSUME NEW t \in Threads, LeaveAndReturn(t) PROVE [FIFO!Next]_FIFO!fifoVars
  BY <1>5, ReturnRefines
<1>6. CASE UNCHANGED vars
  <2>1. UNCHANGED <<AbsQueue, AbsCall>>
    BY <1>6 DEF vars, ebrVars, heapVars, localVars, AbsQueue, AbsCall, End, NodeAt
  <2> QED
    BY <2>1
<1> QED
  BY <1>1, <1>2, <1>3, <1>4, <1>5, <1>6 DEF Next, Proceed

(* Every behaviour of the lock-free queue, with its stale loads, failed    *)
(* compare-exchanges and helping, is one of a FIFO queue whose operations  *)
(* are atomic.                                                             *)
THEOREM QueueIsLinearizable ==
  ASSUME QuietEnv PROVE Spec => ImplementsFIFO
<1>1. TypeInv /\ QueueInv => ChainOK
  BY ChainHolds
<1>2. /\ TypeInv /\ CallInv /\ QueueInv /\ ChainOK
      /\ TypeInv' /\ CallInv' /\ QueueInv' /\ ChainOK'
      /\ [Next]_vars
      => [FIFO!Next]_FIFO!fifoVars
  BY StepRefines
<1> QED
  BY QueueInvariant, InitRefines, <1>1, <1>2, PTL DEF Spec, ImplementsFIFO, FIFO!Spec
=============================================================================
