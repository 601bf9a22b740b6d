-------------------------- MODULE LockFreeMPMCQueue --------------------------
(***************************************************************************)
(* LockFreeMPMCQueue<T> of src/src/tools/RingBuffer.hpp: the bounded ring  *)
(* buffer.  One action per atomic access of head_ or tail_; copying an     *)
(* entry into or out of a slot takes two steps, because the code does it   *)
(* with no synchronization and the slot may be accessed in between.        *)
(***************************************************************************)
EXTENDS Integers, Sequences

CONSTANTS
    Producers, Consumers,   \* the threads that enqueue, and that dequeue
    Values,      \* the entries that are enqueued, each by one call
    NoEntry,     \* a default-constructed or moved-from entry
    Torn,        \* what is left where two accesses to a slot overlap
    capacity_

ASSUME RingAssumption ==
    /\ NoEntry \notin Values
    /\ Torn \notin Values \cup {NoEntry}
    /\ Producers \cap (Values \cup {NoEntry, Torn}) = {}
    /\ capacity_ \in Nat \ {0}

VARIABLES
    head_, tail_,     \* indices: next slot to dequeue, next slot to enqueue
    buffer_,          \* a producer stands in the slot it is writing
    pc, op,           \* where each thread is, in which member function
    value,            \* the argument of enqueue, the result of dequeue
    current_head, current_tail,   \* the indices a thread has loaded
    unsent,           \* values no call has been given yet
    enqueued,         \* history: the values in the order tail_ was advanced
    taken,            \* history: how often head_ was advanced
    written,          \* history: positions in enqueued whose slot is written
    ticket,           \* history: the position the index a thread has loaded
                      \* stands for; for a dequeue, whether the position was
                      \* written when it was claimed
    lapped            \* history: an index was advanced by a thread that had
                      \* loaded it a full lap of the ring earlier

shared == <<head_, tail_, buffer_>>
history == <<unsent, enqueued, taken, written, lapped>>
vars == <<shared, history, pc, op, value, current_head, current_tail, ticket>>

Threads == Producers \cup Consumers
Slots == 0..(capacity_ - 1)
Entries == Values \cup {NoEntry, Torn} \cup Producers
NoTicket == [at |-> 0, ready |-> FALSE]

Labels == {"idle", "load_tail", "check_full", "advance_tail", "write",
           "writing", "load_head", "check_empty", "advance_head", "read",
           "reading", "return"}

Ops == {"none", "enqueue", "try_enqueue", "dequeue", "try_dequeue", "empty",
        "is_empty", "not_empty"}

TypeOK ==
    /\ head_ \in Slots
    /\ tail_ \in Slots
    /\ buffer_ \in [Slots -> Entries]
    /\ pc \in [Threads -> Labels]
    /\ op \in [Threads -> Ops]
    /\ value \in [Threads -> Entries]
    /\ current_head \in [Threads -> Slots]
    /\ current_tail \in [Threads -> Slots]
    /\ unsent \subseteq Values
    /\ enqueued \in Seq(Values)
    /\ taken \in Nat
    /\ written \subseteq 1..Len(enqueued)
    /\ ticket \in [Threads -> [at : Nat, ready : BOOLEAN]]
    /\ lapped \in BOOLEAN

Init ==
    /\ head_ = 0
    /\ tail_ = 0
    /\ buffer_ = [s \in Slots |-> NoEntry]
    /\ pc = [t \in Threads |-> "idle"]
    /\ op = [t \in Threads |-> "none"]
    /\ value = [t \in Threads |-> NoEntry]
    /\ current_head = [t \in Threads |-> 0]
    /\ current_tail = [t \in Threads |-> 0]
    /\ unsent = Values
    /\ enqueued = <<>>
    /\ taken = 0
    /\ written = {}
    /\ ticket = [t \in Threads |-> NoTicket]
    /\ lapped = FALSE

-----------------------------------------------------------------------------
Become(f, t, x) == [f EXCEPT ![t] = x]

Goto(t, label) == pc' = Become(pc, t, label)

(* Mutant of After: the index is not wrapped at the last slot.             *)
AfterUnwrapped(i) == i + 1

After(i) == (i + 1) % capacity_

Forget(t) ==
    /\ current_head' = Become(current_head, t, 0)
    /\ current_tail' = Become(current_tail, t, 0)
    /\ ticket' = Become(ticket, t, NoTicket)

(* Back to the caller of the member function.                              *)
Return(t) ==
    /\ Goto(t, "idle")
    /\ op' = Become(op, t, "none")
    /\ value' = Become(value, t, NoEntry)
    /\ Forget(t)

(* try_enqueue or try_dequeue fails; enqueue and dequeue yield and retry.  *)
Fail(t) ==
    \/ /\ op[t] \in {"try_enqueue", "try_dequeue"}
       /\ Return(t)
    \/ /\ op[t] \in {"enqueue", "dequeue"}
       /\ Goto(t, IF op[t] = "enqueue" THEN "load_tail" ELSE "load_head")
       /\ Forget(t)
       /\ UNCHANGED <<op, value>>

-----------------------------------------------------------------------------
(* enqueue and try_enqueue                                                 *)

CallEnqueue(t, v, f) ==
    /\ pc[t] = "idle"
    /\ op' = Become(op, t, f)
    /\ value' = Become(value, t, v)
    /\ unsent' = unsent \ {v}
    /\ Goto(t, "load_tail")
    /\ UNCHANGED <<shared, enqueued, taken, written, lapped, current_head,
                   current_tail, ticket>>

LoadTail(t) ==
    /\ pc[t] = "load_tail"
    /\ current_tail' = Become(current_tail, t, tail_)
    /\ ticket' = Become(ticket, t, [at |-> Len(enqueued) + 1, ready |-> FALSE])
    /\ Goto(t, "check_full")
    /\ UNCHANGED <<shared, history, op, value, current_head>>

(* Mutants of Full: no comparison, and one with an index never refreshed.  *)
FullNever(t) == FALSE
FullForOldHead(t) == After(current_tail[t]) = current_head[t]

(* head_ is loaded and compared.                                           *)
Full(t) == After(current_tail[t]) = head_

CheckFull(t) ==
    /\ pc[t] = "check_full"
    /\ \/ Full(t) /\ Fail(t)
       \/ /\ ~Full(t)
          /\ Goto(t, "advance_tail")
          /\ UNCHANGED <<op, value, current_head, current_tail, ticket>>
    /\ UNCHANGED <<shared, history>>

(* tail_ is published here, before the slot is written.                    *)
AdvanceTail(t) ==
    /\ pc[t] = "advance_tail"
    /\ \/ /\ tail_ = current_tail[t]
          /\ tail_' = After(tail_)
          /\ enqueued' = Append(enqueued, value[t])
          /\ lapped' = (lapped \/ ticket[t].at # Len(enqueued) + 1)
          /\ ticket' = Become(ticket, t,
                              [at |-> Len(enqueued) + 1, ready |-> FALSE])
          /\ Goto(t, "write")
          /\ UNCHANGED <<op, value, current_head, current_tail>>
       \/ /\ tail_ # current_tail[t]
          /\ Fail(t)
          /\ UNCHANGED <<tail_, enqueued, lapped>>
    /\ UNCHANGED <<head_, buffer_, unsent, taken, written>>

BeginWrite(t) ==
    /\ pc[t] = "write"
    /\ buffer_' = Become(buffer_, current_tail[t], t)
    /\ Goto(t, "writing")
    /\ UNCHANGED <<head_, tail_, history, op, value, current_head,
                   current_tail, ticket>>

(* Nobody else is copying into or out of slot s, which has kept what t    *)
(* found or left there when its own copying began.                         *)
Undisturbed(t, s, x) ==
    /\ buffer_[s] = x
    /\ \A u \in Threads \ {t} : /\ pc[u] = "writing" => current_tail[u] # s
                                /\ pc[u] = "reading" => current_head[u] # s

EndWrite(t) ==
    /\ pc[t] = "writing"
    /\ buffer_' = Become(buffer_, current_tail[t],
                         IF Undisturbed(t, current_tail[t], t)
                         THEN value[t] ELSE Torn)
    /\ written' = written \cup {ticket[t].at}
    /\ Return(t)
    /\ UNCHANGED <<head_, tail_, unsent, enqueued, taken, lapped>>

-----------------------------------------------------------------------------
(* dequeue, try_dequeue and empty                                          *)

CallDequeueOrEmpty(t, f) ==
    /\ pc[t] = "idle"
    /\ op' = Become(op, t, f)
    /\ Goto(t, "load_head")
    /\ UNCHANGED <<shared, history, value, current_head, current_tail, ticket>>

LoadHead(t) ==
    /\ pc[t] = "load_head"
    /\ current_head' = Become(current_head, t, head_)
    /\ ticket' = Become(ticket, t, [at |-> taken + 1, ready |-> FALSE])
    /\ Goto(t, "check_empty")
    /\ UNCHANGED <<shared, history, op, value, current_tail>>

(* Mutant of Empty: no comparison.                                         *)
EmptyNever(t) == FALSE

(* tail_ is loaded and compared.                                           *)
Empty(t) == current_head[t] = tail_

CheckEmpty(t) ==
    /\ pc[t] = "check_empty"
    /\ \/ /\ op[t] = "empty"
          /\ op' = Become(op, t, IF Empty(t) THEN "is_empty" ELSE "not_empty")
          /\ Goto(t, "return")
          /\ Forget(t)
          /\ UNCHANGED value
       \/ /\ op[t] # "empty"
          /\ Empty(t)
          /\ Fail(t)
       \/ /\ op[t] # "empty"
          /\ ~Empty(t)
          /\ Goto(t, "advance_head")
          /\ UNCHANGED <<op, value, current_head, current_tail, ticket>>
    /\ UNCHANGED <<shared, history>>

(* head_ gives the slot up here, before it is read.                        *)
AdvanceHead(t) ==
    /\ pc[t] = "advance_head"
    /\ \/ /\ head_ = current_head[t]
          /\ head_' = After(head_)
          /\ taken' = taken + 1
          /\ lapped' = (lapped \/ ticket[t].at # taken + 1)
          /\ ticket' = Become(ticket, t, [at    |-> taken + 1,
                                          ready |-> taken + 1 \in written])
          /\ Goto(t, "read")
          /\ UNCHANGED <<op, value, current_head, current_tail>>
       \/ /\ head_ # current_head[t]
          /\ Fail(t)
          /\ UNCHANGED <<head_, taken, lapped>>
    /\ UNCHANGED <<tail_, buffer_, unsent, enqueued, written>>

(* Mutant of BeginRead: the slot head_ has moved on to.                    *)
BeginReadAtHead(t) ==
    /\ pc[t] = "read"
    /\ value' = Become(value, t, buffer_[head_])
    /\ Goto(t, "reading")
    /\ UNCHANGED <<shared, history, op, current_head, current_tail, ticket>>

BeginRead(t) ==
    /\ pc[t] = "read"
    /\ value' = Become(value, t, buffer_[current_head[t]])
    /\ Goto(t, "reading")
    /\ UNCHANGED <<shared, history, op, current_head, current_tail, ticket>>

(* The entry is moved out.                                                 *)
EndRead(t) ==
    /\ pc[t] = "reading"
    /\ LET s == current_head[t] IN
         IF Undisturbed(t, s, value[t])
         THEN /\ buffer_' = Become(buffer_, s, NoEntry)
              /\ UNCHANGED value
         ELSE /\ buffer_' = Become(buffer_, s, Torn)
              /\ value' = Become(value, t, Torn)
    /\ Goto(t, "return")
    /\ UNCHANGED <<head_, tail_, history, op, current_head, current_tail, ticket>>

ReturnToCaller(t) ==
    /\ pc[t] = "return"
    /\ Return(t)
    /\ UNCHANGED <<shared, history>>

-----------------------------------------------------------------------------
Proceed(t) ==
    \/ LoadTail(t) \/ CheckFull(t) \/ AdvanceTail(t)
    \/ BeginWrite(t) \/ EndWrite(t)
    \/ LoadHead(t) \/ CheckEmpty(t) \/ AdvanceHead(t)
    \/ BeginRead(t) \/ EndRead(t) \/ ReturnToCaller(t)

Call(t) ==
    \/ t \in Producers /\ \E v \in unsent, f \in {"enqueue", "try_enqueue"} :
                              CallEnqueue(t, v, f)
    \/ t \in Consumers /\ \E f \in {"dequeue", "try_dequeue", "empty"} :
                              CallDequeueOrEmpty(t, f)

Next == \E t \in Threads : Call(t) \/ Proceed(t)

Spec == Init /\ [][Next]_vars

(* Threads are scheduled, and the consumers never stop dequeuing.          *)
LiveSpec ==
    /\ Spec
    /\ \A t \in Threads : WF_vars(Proceed(t))
    /\ \A t \in Consumers : SF_vars(CallDequeueOrEmpty(t, "dequeue"))

-----------------------------------------------------------------------------
(* The queue is bounded: it never holds more than capacity_ - 1 entries    *)
(* and never gives out more than it was given, so "full" and "empty" can   *)
(* be told apart by comparing the two indices.                             *)
OccupancyBounded == Len(enqueued) - taken \in 0..(capacity_ - 1)

(* However many threads compete, only a compare-exchange that mistakes an  *)
(* index for the one a lap earlier can break that bound.                   *)
BoundedUnlessLapped == ~lapped => OccupancyBounded

Reading(c, s) == pc[c] \in {"read", "reading"} /\ current_head[c] = s

Filling(p, s) == pc[p] \in {"write", "writing"} /\ current_tail[p] = s

(* A slot whose entry is being moved out has been given up by head_        *)
(* already; nobody claims it for the next entry until the move is done.    *)
SlotNotReusedWhileRead ==
    \A c \in Consumers, p \in Producers, s \in Slots :
        Reading(c, s) /\ Filling(p, s) => ticket[p].at = ticket[c].at

(* A dequeue that claims a slot after the enqueue has finished writing it  *)
(* returns the entry that was enqueued at that position.                   *)
WrittenEntriesArrive ==
    \A t \in Consumers :
        pc[t] = "return" /\ ticket[t].ready
            => value[t] = enqueued[ticket[t].at]

(* Every dequeue returns the entry that was enqueued at its position: no   *)
(* data is lost.                                                           *)
EntriesArrive ==
    \A t \in Consumers :
        pc[t] = "return" /\ ticket[t].at # 0
            => value[t] = enqueued[ticket[t].at]

(* A sole consumer that is told the queue is not empty will not block in   *)
(* dequeue, the way AsyncLogger::background_flush calls the two.           *)
SoleConsumerFindsEntry ==
    \A t \in Threads :
        Consumers = {t} /\ op[t] = "not_empty" => taken < Len(enqueued)

(* An enqueue that finds the queue full waits until there is room and      *)
(* returns, as long as entries are dequeued.                               *)
EnqueueReturns ==
    \A t \in Producers : pc[t] # "idle" ~> pc[t] = "idle"
=============================================================================
