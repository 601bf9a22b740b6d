----------------------- MODULE LockFreeMPMCQueue_proofs -----------------------
(***************************************************************************)
(* Theorems about LockFreeMPMCQueue, for any threads, values and capacity. *)
(***************************************************************************)
EXTENDS LockFreeMPMCQueue, TLAPS

-----------------------------------------------------------------------------
(* Indices are positions modulo the capacity                               *)

(* Different multiples of c are at least c apart.                          *)
LEMMA MultiplesApart ==
  ASSUME NEW c \in Nat \ {0}, NEW p \in Int, NEW q \in Int, p < q
  PROVE  c * p + c <= c * q
<1>1. c * q = c * p + c * (q - p)
  OBVIOUS
<1>2. c * (q - p) >= c
  <2>1. q - p >= 1 /\ q - p \in Nat
    OBVIOUS
  <2>2. \A d \in Nat : d >= 1 => c * d >= c
    OBVIOUS
  <2> QED
    BY <2>1, <2>2
<1>3. c * p \in Int /\ c * q \in Int /\ c * (q - p) \in Int
  OBVIOUS
<1> QED
  BY <1>1, <1>2, <1>3

(* The remainder of a division by c is determined by its bounds.           *)
LEMMA RemainderUnique ==
  ASSUME NEW c \in Nat \ {0}, NEW q \in Int, NEW r \in 0..(c - 1)
  PROVE  (c * q + r) % c = r
<1> DEFINE n == c * q + r
           p == n \div c
           s == n % c
<1>1. n \in Int /\ p \in Int /\ s \in 0..(c - 1) /\ n = c * p + s
  OBVIOUS
<1>2. ~(p < q) /\ ~(q < p)
  BY <1>1, MultiplesApart
<1> QED
  BY <1>1, <1>2

(* The slot that position n + 1 of the history occupies.                   *)
Index(n) == n % capacity_

(* Every position has a slot of the buffer.                                *)
LEMMA IndexIsSlot == \A n \in Nat : Index(n) \in Slots
BY RingAssumption DEF Index, Slots

(* After is the successor on positions.                                    *)
LEMMA AfterIsNext ==
  ASSUME NEW n \in Nat PROVE After(Index(n)) = Index(n + 1)
<1> DEFINE c == capacity_
           q == n \div c
           r == n % c
<1> USE DEF Index
<1>1. c \in Nat \ {0}
  BY RingAssumption
<1>2. q \in Int /\ r \in 0..(c - 1) /\ n = c * q + r
  BY <1>1
<1>3. CASE r + 1 < c
  <2>1. (c * q + (r + 1)) % c = r + 1 /\ (c * 0 + (r + 1)) % c = r + 1
    <3>1. r + 1 \in 0..(c - 1)
      BY <1>1, <1>2, <1>3
    <3> HIDE DEF c, q, r
    <3> QED
      BY <1>1, <1>2, <3>1, RemainderUnique
  <2>2. n + 1 = c * q + (r + 1) /\ r + 1 = c * 0 + (r + 1)
    <3>1. c * q \in Int /\ c * 0 = 0
      BY <1>1, <1>2
    <3> HIDE DEF q, r
    <3> QED
      BY <1>2, <3>1
  <2> QED
    BY <2>1, <2>2 DEF After
<1>4. CASE r + 1 = c
  <2>1. (c * (q + 1) + 0) % c = 0 /\ (c * 1 + 0) % c = 0
    BY <1>1, <1>2, RemainderUnique
  <2>2. n + 1 = c * (q + 1) + 0 /\ r + 1 = c * 1 + 0
    <3>1. c * (q + 1) = c * q + c /\ c * q \in Int
      BY <1>1, <1>2
    <3> QED
      BY <1>1, <1>2, <1>4, <3>1
  <2> QED
    BY <2>1, <2>2 DEF After
<1> QED
  BY <1>1, <1>2, <1>3, <1>4

-----------------------------------------------------------------------------
(* Type correctness                                                        *)

(* What each program point knows about the thread's own variables.         *)
LocalsOK(t) ==
    /\ pc[t] \in {"load_tail", "check_full", "advance_tail", "write", "writing"}
           => /\ t \in Producers
              /\ op[t] \in {"enqueue", "try_enqueue"}
              /\ value[t] \in Values
    /\ pc[t] \in {"load_head", "check_empty", "advance_head"}
           => op[t] \in {"dequeue", "try_dequeue", "empty"}
    /\ pc[t] = "advance_head" => op[t] # "empty"
    /\ pc[t] \in {"write", "writing"} => ticket[t].at \in 1..Len(enqueued)
    /\ pc[t] \in {"check_full", "advance_tail"}
           => /\ ticket[t].at \in 1..(Len(enqueued) + 1)
              /\ current_tail[t] = Index(ticket[t].at - 1)
    /\ pc[t] \in {"check_empty", "advance_head"}
           => /\ ticket[t].at \in 1..(taken + 1)
              /\ current_head[t] = Index(ticket[t].at - 1)

TypeInv ==
    /\ TypeOK
    /\ tail_ = Index(Len(enqueued))
    /\ head_ = Index(taken)
    /\ \A t \in Threads : LocalsOK(t)

(* The types hold in a new queue.                                          *)
THEOREM TypeInit == Init => TypeInv
<1> SUFFICES ASSUME Init PROVE TypeInv
  OBVIOUS
<1>1. Index(0) = 0 /\ 0 \in Slots
  BY RingAssumption DEF Slots, Index
<1>2. Len(enqueued) = 0 /\ enqueued \in Seq(Values)
  BY DEF Init
<1> QED
  BY <1>1, <1>2, RingAssumption
     DEF Init, TypeInv, TypeOK, LocalsOK, NoTicket, Labels, Ops, Entries

UnchangedLocals(u) ==
    /\ pc'[u] = pc[u]
    /\ op'[u] = op[u]
    /\ value'[u] = value[u]
    /\ current_head'[u] = current_head[u]
    /\ current_tail'[u] = current_tail[u]
    /\ ticket'[u] = ticket[u]

(* A step of t keeps TypeInv if it keeps the types, t's own part and the   *)
(* indices in step with the history.                                       *)
LEMMA StepOf ==
  ASSUME TypeInv, TypeOK', NEW t \in Threads,
         \A u \in Threads \ {t} : UnchangedLocals(u),
         LocalsOK(t)',
         Len(enqueued) <= Len(enqueued'), taken <= taken',
         tail_' = Index(Len(enqueued')), head_' = Index(taken')
  PROVE  TypeInv'
<1>1. {Len(enqueued), Len(enqueued'), taken, taken'} \subseteq Nat
  BY DEF TypeInv, TypeOK
<1>2. ASSUME NEW u \in Threads \ {t} PROVE LocalsOK(u)'
  BY <1>1 DEF TypeInv, TypeOK, LocalsOK, UnchangedLocals
<1> QED
  BY <1>2 DEF TypeInv

(* A failed attempt leaves the thread at a program point and with          *)
(* variables of the right types, and nobody else affected.                 *)
LEMMA FailKeepsTypes ==
  ASSUME TypeInv, NEW t \in Threads, Fail(t)
  PROVE  /\ pc' \in [Threads -> Labels]
         /\ op' \in [Threads -> Ops]
         /\ value' \in [Threads -> Entries]
         /\ current_head' \in [Threads -> Slots]
         /\ current_tail' \in [Threads -> Slots]
         /\ ticket' \in [Threads -> [at : Nat, ready : BOOLEAN]]
         /\ \A u \in Threads \ {t} : UnchangedLocals(u)
         /\ pc'[t] \in {"idle", "load_tail", "load_head"}
<1> USE DEF TypeInv, TypeOK, Labels, Ops, Entries, NoTicket, Goto, Become,
            Forget, UnchangedLocals
<1>1. 0 \in Slots
  BY RingAssumption DEF Slots
<1>2. CASE Return(t)
  BY <1>1, <1>2 DEF Return
<1>3. CASE /\ Goto(t, IF op[t] = "enqueue" THEN "load_tail" ELSE "load_head")
           /\ Forget(t)
           /\ UNCHANGED <<op, value>>
  BY <1>1, <1>3
<1> QED
  BY <1>2, <1>3 DEF Fail

(* Every atomic access of the five member functions keeps the types.       *)
THEOREM TypeNext == TypeInv /\ [Next]_vars => TypeInv'
<1> SUFFICES ASSUME TypeInv, [Next]_vars PROVE TypeInv'
  OBVIOUS
<1> USE DEF Goto, Become, shared, history
<1>1. /\ 0 \in Slots
      /\ Len(enqueued) \in Nat /\ taken \in Nat
      /\ tail_ = Index(Len(enqueued)) /\ head_ = Index(taken)
      /\ Index(Len(enqueued)) \in Slots
      /\ Index(taken) \in Slots
  BY RingAssumption, IndexIsSlot DEF TypeInv, TypeOK, Slots
<1>2. ASSUME NEW t \in Producers, NEW v \in unsent,
             NEW f \in {"enqueue", "try_enqueue"}, CallEnqueue(t, v, f)
      PROVE  TypeInv'
  <2>0. t \in Threads
    BY DEF Threads
  <2> USE <1>2, <2>0 DEF CallEnqueue
  <2>1. TypeOK'
    BY <1>1 DEF TypeInv, TypeOK, Labels, Ops, Entries, NoTicket, LocalsOK
  <2>2. LocalsOK(t)'
    BY <1>1 DEF TypeInv, TypeOK, Labels, Ops, Entries, NoTicket, LocalsOK
  <2>3. \A u \in Threads \ {t} : UnchangedLocals(u)
    BY DEF TypeInv, TypeOK, UnchangedLocals
  <2> QED
    BY <1>1, <2>1, <2>2, <2>3, StepOf
<1>3. ASSUME NEW t \in Threads, NEW f \in {"dequeue", "try_dequeue", "empty"},
             CallDequeueOrEmpty(t, f)
      PROVE  TypeInv'
  <2> USE <1>3 DEF CallDequeueOrEmpty
  <2>1. TypeOK'
    BY <1>1 DEF TypeInv, TypeOK, Labels, Ops, Entries, NoTicket, LocalsOK
  <2>2. LocalsOK(t)'
    BY <1>1 DEF TypeInv, TypeOK, Labels, Ops, Entries, NoTicket, LocalsOK
  <2>3. \A u \in Threads \ {t} : UnchangedLocals(u)
    BY DEF TypeInv, TypeOK, UnchangedLocals
  <2> QED
    BY <1>1, <2>1, <2>2, <2>3, StepOf
<1>4. ASSUME NEW t \in Threads, LoadTail(t)
      PROVE  TypeInv'
  <2> USE <1>4 DEF LoadTail
  <2>1. TypeOK'
    BY <1>1 DEF TypeInv, TypeOK, Labels, Ops, Entries, NoTicket, LocalsOK
  <2>2. LocalsOK(t)'
    BY <1>1 DEF TypeInv, TypeOK, Labels, Ops, Entries, NoTicket, LocalsOK
  <2>3. \A u \in Threads \ {t} : UnchangedLocals(u)
    BY DEF TypeInv, TypeOK, UnchangedLocals
  <2> QED
    BY <1>1, <2>1, <2>2, <2>3, StepOf
<1>5. ASSUME NEW t \in Threads, CheckFull(t) PROVE TypeInv'
  <2> USE <1>5 DEF CheckFull
  <2>1. CASE Fail(t) /\ UNCHANGED <<shared, history>>
    <3>1. TypeOK'
      BY <2>1, FailKeepsTypes DEF TypeInv, TypeOK
    <3>2. LocalsOK(t)'
      BY <2>1 DEF Fail, Return, Forget, TypeInv, TypeOK, LocalsOK
    <3>3. \A u \in Threads \ {t} : UnchangedLocals(u)
      BY <2>1, FailKeepsTypes
    <3>4. /\ Len(enqueued) <= Len(enqueued') /\ taken <= taken'
          /\ tail_' = Index(Len(enqueued')) /\ head_' = Index(taken')
      BY <1>1, <2>1
    <3> QED
      BY <3>1, <3>2, <3>3, <3>4, StepOf
  <2>2. CASE /\ pc' = [pc EXCEPT ![t] = "advance_tail"]
             /\ UNCHANGED <<op, value, current_head, current_tail, ticket>>
             /\ UNCHANGED <<shared, history>>
    <3>1. TypeOK'
      BY <1>1, <2>2 DEF TypeInv, TypeOK, Labels, Ops, Entries, NoTicket, Forget
    <3>2. LocalsOK(t)'
      BY <1>1, <2>2 DEF TypeInv, TypeOK, Labels, Ops, Entries, NoTicket, Forget, LocalsOK
    <3>3. \A u \in Threads \ {t} : UnchangedLocals(u)
      BY <2>2 DEF TypeInv, TypeOK, Forget, UnchangedLocals
    <3> QED
      BY <1>1, <2>2, <3>1, <3>2, <3>3, StepOf
  <2> QED
    BY <2>1, <2>2
<1>6. ASSUME NEW t \in Threads, AdvanceTail(t) PROVE TypeInv'
  <2> USE <1>6 DEF AdvanceTail
  <2>1. CASE Fail(t) /\ UNCHANGED <<shared, history>>
    <3>1. TypeOK'
      BY <2>1, FailKeepsTypes DEF TypeInv, TypeOK
    <3>2. LocalsOK(t)'
      BY <2>1 DEF Fail, Return, Forget, TypeInv, TypeOK, LocalsOK
    <3>3. \A u \in Threads \ {t} : UnchangedLocals(u)
      BY <2>1, FailKeepsTypes
    <3>4. /\ Len(enqueued) <= Len(enqueued') /\ taken <= taken'
          /\ tail_' = Index(Len(enqueued')) /\ head_' = Index(taken')
      BY <1>1, <2>1
    <3> QED
      BY <3>1, <3>2, <3>3, <3>4, StepOf
  <2>2. CASE /\ tail_' = After(tail_)
             /\ enqueued' = Append(enqueued, value[t])
             /\ lapped' = (lapped \/ ticket[t].at # Len(enqueued) + 1)
             /\ ticket' = [ticket EXCEPT ![t] =
                              [at |-> Len(enqueued) + 1, ready |-> FALSE]]
             /\ pc' = [pc EXCEPT ![t] = "write"]
             /\ UNCHANGED <<op, value, current_head, current_tail>>
    <3> USE <2>2
    <3>1. enqueued' \in Seq(Values) /\ Len(enqueued') = Len(enqueued) + 1
      BY DEF TypeInv, TypeOK, LocalsOK
    <3>2. tail_' = Index(Len(enqueued')) /\ tail_' \in Slots
      <4>1. After(tail_) = Index(Len(enqueued) + 1)
        BY <1>1, AfterIsNext
      <4>2. Index(Len(enqueued) + 1) \in Slots
        BY <1>1, IndexIsSlot
      <4> QED
        BY <3>1, <4>1, <4>2
    <3>3. ticket' \in [Threads -> [at : Nat, ready : BOOLEAN]]
      BY <1>1 DEF TypeInv, TypeOK
    <3>4. ticket'[t].at = Len(enqueued) + 1
      BY DEF TypeInv, TypeOK
    <3>5. TypeOK'
      BY <1>1, <3>1, <3>2, <3>3 DEF TypeInv, TypeOK, Labels
    <3>6. LocalsOK(t)'
      BY <1>1, <3>1, <3>4 DEF TypeInv, TypeOK, LocalsOK
    <3>7. \A u \in Threads \ {t} : UnchangedLocals(u)
      BY DEF TypeInv, TypeOK, UnchangedLocals
    <3> QED
      BY <1>1, <3>1, <3>2, <3>5, <3>6, <3>7, StepOf
  <2> QED
    BY <2>1, <2>2
<1>7. ASSUME NEW t \in Threads, BeginWrite(t)
      PROVE  TypeInv'
  <2> USE <1>7 DEF BeginWrite
  <2>1. TypeOK'
    BY <1>1 DEF TypeInv, TypeOK, Labels, Ops, Entries, NoTicket, LocalsOK
  <2>2. LocalsOK(t)'
    BY <1>1 DEF TypeInv, TypeOK, Labels, Ops, Entries, NoTicket, LocalsOK
  <2>3. \A u \in Threads \ {t} : UnchangedLocals(u)
    BY DEF TypeInv, TypeOK, UnchangedLocals
  <2> QED
    BY <1>1, <2>1, <2>2, <2>3, StepOf
<1>8. ASSUME NEW t \in Threads, EndWrite(t)
      PROVE  TypeInv'
  <2> USE <1>8 DEF EndWrite, Return, Forget
  <2>1. TypeOK'
    BY <1>1 DEF TypeInv, TypeOK, Labels, Ops, Entries, NoTicket, LocalsOK
  <2>2. LocalsOK(t)'
    BY <1>1 DEF TypeInv, TypeOK, Labels, Ops, Entries, NoTicket, LocalsOK
  <2>3. \A u \in Threads \ {t} : UnchangedLocals(u)
    BY DEF TypeInv, TypeOK, UnchangedLocals
  <2> QED
    BY <1>1, <2>1, <2>2, <2>3, StepOf
<1>9. ASSUME NEW t \in Threads, LoadHead(t)
      PROVE  TypeInv'
  <2> USE <1>9 DEF LoadHead
  <2>1. TypeOK'
    BY <1>1 DEF TypeInv, TypeOK, Labels, Ops, Entries, NoTicket, LocalsOK
  <2>2. LocalsOK(t)'
    BY <1>1 DEF TypeInv, TypeOK, Labels, Ops, Entries, NoTicket, LocalsOK
  <2>3. \A u \in Threads \ {t} : UnchangedLocals(u)
    BY DEF TypeInv, TypeOK, UnchangedLocals
  <2> QED
    BY <1>1, <2>1, <2>2, <2>3, StepOf
<1>10. ASSUME NEW t \in Threads, CheckEmpty(t) PROVE TypeInv'
  <2> USE <1>10 DEF CheckEmpty
  <2>1. CASE Fail(t) /\ UNCHANGED <<shared, history>>
    <3>1. TypeOK'
      BY <2>1, FailKeepsTypes DEF TypeInv, TypeOK
    <3>2. LocalsOK(t)'
      BY <2>1 DEF Fail, Return, Forget, TypeInv, TypeOK, LocalsOK
    <3>3. \A u \in Threads \ {t} : UnchangedLocals(u)
      BY <2>1, FailKeepsTypes
    <3>4. /\ Len(enqueued) <= Len(enqueued') /\ taken <= taken'
          /\ tail_' = Index(Len(enqueued')) /\ head_' = Index(taken')
      BY <1>1, <2>1
    <3> QED
      BY <3>1, <3>2, <3>3, <3>4, StepOf
  <2>2. CASE /\ op[t] # "empty"
             /\ pc' = [pc EXCEPT ![t] = "advance_head"]
             /\ UNCHANGED <<op, value, current_head, current_tail, ticket>>
             /\ UNCHANGED <<shared, history>>
    <3>1. TypeOK'
      BY <1>1, <2>2 DEF TypeInv, TypeOK, Labels, Ops, Entries, NoTicket, Forget
    <3>2. LocalsOK(t)'
      BY <1>1, <2>2 DEF TypeInv, TypeOK, Labels, Ops, Entries, NoTicket, Forget, LocalsOK
    <3>3. \A u \in Threads \ {t} : UnchangedLocals(u)
      BY <2>2 DEF TypeInv, TypeOK, Forget, UnchangedLocals
    <3> QED
      BY <1>1, <2>2, <3>1, <3>2, <3>3, StepOf
  <2>3. CASE /\ op' = [op EXCEPT ![t] = IF Empty(t) THEN "is_empty" ELSE "not_empty"]
             /\ pc' = [pc EXCEPT ![t] = "return"]
             /\ Forget(t)
             /\ UNCHANGED value
             /\ UNCHANGED <<shared, history>>
    <3>1. TypeOK'
      BY <1>1, <2>3 DEF TypeInv, TypeOK, Labels, Ops, Entries, NoTicket, Forget
    <3>2. LocalsOK(t)'
      BY <1>1, <2>3 DEF TypeInv, TypeOK, Labels, Ops, Entries, NoTicket, Forget, LocalsOK
    <3>3. \A u \in Threads \ {t} : UnchangedLocals(u)
      BY <2>3 DEF TypeInv, TypeOK, Forget, UnchangedLocals
    <3> QED
      BY <1>1, <2>3, <3>1, <3>2, <3>3, StepOf
  <2> QED
    BY <2>1, <2>2, <2>3
<1>11. ASSUME NEW t \in Threads, AdvanceHead(t) PROVE TypeInv'
  <2> USE <1>11 DEF AdvanceHead
  <2>1. CASE Fail(t) /\ UNCHANGED <<shared, history>>
    <3>1. TypeOK'
      BY <2>1, FailKeepsTypes DEF TypeInv, TypeOK
    <3>2. LocalsOK(t)'
      BY <2>1 DEF Fail, Return, Forget, TypeInv, TypeOK, LocalsOK
    <3>3. \A u \in Threads \ {t} : UnchangedLocals(u)
      BY <2>1, FailKeepsTypes
    <3>4. /\ Len(enqueued) <= Len(enqueued') /\ taken <= taken'
          /\ tail_' = Index(Len(enqueued')) /\ head_' = Index(taken')
      BY <1>1, <2>1
    <3> QED
      BY <3>1, <3>2, <3>3, <3>4, StepOf
  <2>2. CASE /\ head_' = After(head_)
             /\ taken' = taken + 1
             /\ lapped' = (lapped \/ ticket[t].at # taken + 1)
             /\ ticket' = [ticket EXCEPT ![t] = [at    |-> taken + 1,
                                          ready |-> taken + 1 \in written]]
             /\ pc' = [pc EXCEPT ![t] = "read"]
             /\ UNCHANGED <<op, value, current_head, current_tail>>
    <3> USE <2>2
    <3>1. head_' = Index(taken') /\ head_' \in Slots
      BY <1>1, AfterIsNext, IndexIsSlot
    <3>2. TypeOK'
      BY <1>1, <3>1 DEF TypeInv, TypeOK, Labels
    <3>3. LocalsOK(t)'
      BY <1>1 DEF TypeInv, TypeOK, LocalsOK
    <3>4. \A u \in Threads \ {t} : UnchangedLocals(u)
      BY DEF TypeInv, TypeOK, UnchangedLocals
    <3> QED
      BY <1>1, <3>1, <3>2, <3>3, <3>4, StepOf
  <2> QED
    BY <2>1, <2>2
<1>12. ASSUME NEW t \in Threads, BeginRead(t)
      PROVE  TypeInv'
  <2> USE <1>12 DEF BeginRead
  <2>1. TypeOK'
    BY <1>1 DEF TypeInv, TypeOK, Labels, Ops, Entries, NoTicket, LocalsOK
  <2>2. LocalsOK(t)'
    BY <1>1 DEF TypeInv, TypeOK, Labels, Ops, Entries, NoTicket, LocalsOK
  <2>3. \A u \in Threads \ {t} : UnchangedLocals(u)
    BY DEF TypeInv, TypeOK, UnchangedLocals
  <2> QED
    BY <1>1, <2>1, <2>2, <2>3, StepOf
<1>13. ASSUME NEW t \in Threads, EndRead(t)
      PROVE  TypeInv'
  <2> USE <1>13 DEF EndRead
  <2>1. TypeOK'
    <3>1. buffer_' \in [Slots -> Entries] /\ value' \in [Threads -> Entries]
      BY DEF TypeInv, TypeOK, Entries
    <3> QED
      BY <3>1 DEF TypeInv, TypeOK, Labels
  <2>2. LocalsOK(t)'
    BY <1>1 DEF TypeInv, TypeOK, Labels, Ops, Entries, NoTicket, LocalsOK
  <2>3. \A u \in Threads \ {t} : UnchangedLocals(u)
    BY DEF TypeInv, TypeOK, UnchangedLocals
  <2> QED
    BY <1>1, <2>1, <2>2, <2>3, StepOf
<1>14. ASSUME NEW t \in Threads, ReturnToCaller(t)
      PROVE  TypeInv'
  <2> USE <1>14 DEF ReturnToCaller, Return, Forget
  <2>1. TypeOK'
    BY <1>1 DEF TypeInv, TypeOK, Labels, Ops, Entries, NoTicket, LocalsOK
  <2>2. LocalsOK(t)'
    BY <1>1 DEF TypeInv, TypeOK, Labels, Ops, Entries, NoTicket, LocalsOK
  <2>3. \A u \in Threads \ {t} : UnchangedLocals(u)
    BY DEF TypeInv, TypeOK, UnchangedLocals
  <2> QED
    BY <1>1, <2>1, <2>2, <2>3, StepOf
<1>15. CASE UNCHANGED vars
  BY <1>15 DEF vars, TypeInv, TypeOK, LocalsOK
<1> QED
  BY <1>2, <1>3, <1>4, <1>5, <1>6, <1>7, <1>8,
     <1>9, <1>10, <1>11, <1>12, <1>13, <1>14, <1>15
     DEF Next, Call, Proceed

(* Every variable keeps its type: in particular the indices stay within    *)
(* the buffer, whatever the capacity.                                      *)
THEOREM TypeCorrect == Spec => []TypeOK
<1>1. TypeInv => TypeOK
  BY DEF TypeInv
<1> QED
  BY TypeInit, TypeNext, <1>1, PTL DEF Spec

-----------------------------------------------------------------------------
(* The bound on the occupancy                                              *)

(* A position and the one a lap later share their slot.                    *)
LEMMA IndexWraps ==
  ASSUME NEW n \in Nat PROVE Index(n + capacity_) = Index(n)
<1> USE DEF Index
<1> DEFINE c == capacity_
           q == n \div c
           r == n % c
<1>1. c \in Nat \ {0}
  BY RingAssumption
<1>2. q \in Int /\ r \in 0..(c - 1) /\ n = c * q + r
  BY <1>1
<1>3. c * (q + 1) = c * q + c /\ c * q \in Int
  BY <1>1, <1>2
<1>4. n + c = c * (q + 1) + r
  <2> HIDE DEF q, r
  <2> QED
    BY <1>1, <1>2, <1>3
<1>5. (c * (q + 1) + r) % c = r
  <2> HIDE DEF q, r
  <2> QED
    BY <1>1, <1>2, RemainderUnique
<1> QED
  BY <1>4, <1>5

(* A thread about to advance an index nobody has advanced since it was     *)
(* loaded has seen room, or an entry.                                      *)
ClaimOK(t) ==
    /\ pc[t] = "advance_tail" /\ ticket[t].at = Len(enqueued) + 1
           => Len(enqueued) + 1 - taken < capacity_
    /\ pc[t] = "advance_head" /\ ticket[t].at = taken + 1
           => taken < Len(enqueued)

Bounded == ~lapped => OccupancyBounded /\ \A t \in Threads : ClaimOK(t)

(* A step that does not decrease the two counts keeps the bound if it does *)
(* so for the thread that takes it.                                        *)
LEMMA BoundStep ==
  ASSUME TypeInv, TypeInv', Bounded, NEW t \in Threads,
         \A u \in Threads \ {t} : pc'[u] = pc[u] /\ ticket'[u] = ticket[u],
         Len(enqueued) <= Len(enqueued'), taken <= taken', lapped => lapped',
         ~lapped' => OccupancyBounded' /\ ClaimOK(t)'
  PROVE  Bounded'
<1> SUFFICES ASSUME ~lapped', NEW u \in Threads \ {t} PROVE ClaimOK(u)'
  BY DEF Bounded
<1>1. /\ {Len(enqueued), Len(enqueued'), taken, taken'} \subseteq Nat
      /\ capacity_ \in Nat
  BY RingAssumption DEF TypeInv, TypeOK
<1>2. ClaimOK(u) /\ LocalsOK(u) /\ pc'[u] = pc[u] /\ ticket'[u] = ticket[u]
  BY DEF Bounded, TypeInv
<1>3. ASSUME pc'[u] = "advance_tail", ticket'[u].at = Len(enqueued') + 1
      PROVE  Len(enqueued') + 1 - taken' < capacity_
  <2>1. pc[u] = "advance_tail" /\ ticket[u].at <= Len(enqueued) + 1
    BY <1>1, <1>2, <1>3 DEF LocalsOK
  <2>2. Len(enqueued') = Len(enqueued) /\ ticket[u].at = Len(enqueued) + 1
    BY <1>1, <1>2, <1>3, <2>1
  <2> QED
    BY <1>1, <1>2, <2>1, <2>2 DEF ClaimOK
<1>4. ASSUME pc'[u] = "advance_head", ticket'[u].at = taken' + 1
      PROVE  taken' < Len(enqueued')
  <2>1. pc[u] = "advance_head" /\ ticket[u].at <= taken + 1
    BY <1>1, <1>2, <1>4 DEF LocalsOK
  <2>2. taken' = taken /\ ticket[u].at = taken + 1
    BY <1>1, <1>2, <1>4, <2>1
  <2> QED
    BY <1>1, <1>2, <2>1, <2>2 DEF ClaimOK
<1> QED
  BY <1>3, <1>4 DEF ClaimOK

(* Every atomic access keeps the bound, as long as no compare-exchange     *)
(* takes an index for the one a lap earlier.                               *)
LEMMA BoundedNext == TypeInv /\ TypeInv' /\ Bounded /\ [Next]_vars => Bounded'
<1> SUFFICES ASSUME TypeInv, TypeInv', Bounded, [Next]_vars PROVE Bounded'
  OBVIOUS
<1> USE DEF shared, history
<1>1. /\ Len(enqueued) \in Nat /\ taken \in Nat /\ capacity_ \in Nat \ {0}
      /\ tail_ = Index(Len(enqueued)) /\ head_ = Index(taken)
  BY RingAssumption DEF TypeInv, TypeOK
<1>2. ASSUME NEW t \in Threads,
             UNCHANGED <<enqueued, taken, lapped>>,
             pc'[t] \notin {"advance_tail", "advance_head"},
             \A u \in Threads \ {t} : pc'[u] = pc[u] /\ ticket'[u] = ticket[u]
      PROVE  Bounded'
  BY <1>1, <1>2, BoundStep DEF Bounded, OccupancyBounded, ClaimOK
<1>3. ASSUME NEW t \in Threads, Call(t) PROVE Bounded'
  BY <1>2, <1>3 DEF Call, CallEnqueue, CallDequeueOrEmpty, Goto, Become, TypeInv,
                    TypeOK
<1>4. ASSUME NEW t \in Threads,
             \/ LoadTail(t) \/ BeginWrite(t) \/ EndWrite(t) \/ LoadHead(t)
             \/ BeginRead(t) \/ EndRead(t) \/ ReturnToCaller(t)
      PROVE  Bounded'
  BY <1>2, <1>4
     DEF LoadTail, BeginWrite, EndWrite, LoadHead, BeginRead, EndRead,
         ReturnToCaller, Return, Forget, Goto, Become, TypeInv, TypeOK
<1>5. ASSUME NEW t \in Threads, Fail(t), UNCHANGED <<enqueued, taken, lapped>>
      PROVE  Bounded'
  BY <1>2, <1>5, FailKeepsTypes DEF UnchangedLocals
<1>6. ASSUME NEW t \in Threads, CheckFull(t) PROVE Bounded'
  <2>1. CASE ~Full(t) /\ pc' = [pc EXCEPT ![t] = "advance_tail"]
             /\ UNCHANGED <<ticket, enqueued, taken, lapped>>
    <3>1. ASSUME OccupancyBounded, ticket[t].at = Len(enqueued) + 1
          PROVE  Len(enqueued) + 1 - taken < capacity_
      <4>1. current_tail[t] = Index(Len(enqueued))
        BY <1>1, <1>6, <3>1 DEF CheckFull, TypeInv, LocalsOK
      <4>2. Index(Len(enqueued) + 1) # Index(taken)
        BY <1>1, <2>1, <4>1, AfterIsNext DEF Full
      <4>3. Len(enqueued) + 1 # taken + capacity_
        BY <1>1, <4>2, IndexWraps
      <4> QED
        BY <1>1, <3>1, <4>3 DEF OccupancyBounded
    <3>2. ~lapped' => OccupancyBounded' /\ ClaimOK(t)'
      BY <2>1, <3>1 DEF Bounded, OccupancyBounded, ClaimOK, TypeInv, TypeOK
    <3> QED
      BY <1>1, <2>1, <3>2, BoundStep DEF TypeInv, TypeOK
  <2> QED
    BY <1>5, <1>6, <2>1 DEF CheckFull, Goto, Become
<1>7. ASSUME NEW t \in Threads, AdvanceTail(t) PROVE Bounded'
  <2>1. CASE /\ enqueued' = Append(enqueued, value[t])
             /\ lapped' = (lapped \/ ticket[t].at # Len(enqueued) + 1)
             /\ pc' = [pc EXCEPT ![t] = "write"]
             /\ \A u \in Threads \ {t} : ticket'[u] = ticket[u]
             /\ taken' = taken
    <3>1. Len(enqueued') = Len(enqueued) + 1
      BY <2>1 DEF TypeInv, TypeOK
    <3>2. pc[t] = "advance_tail" /\ pc'[t] = "write"
      BY <1>7, <2>1 DEF AdvanceTail, TypeInv, TypeOK
    <3>3. /\ lapped => lapped'
          /\ ~lapped' => ~lapped /\ ticket[t].at = Len(enqueued) + 1
      BY <2>1
    <3>4. ~lapped' => OccupancyBounded /\ Len(enqueued) + 1 - taken < capacity_
      BY <3>2, <3>3 DEF Bounded, ClaimOK
    <3>5. ~lapped' => OccupancyBounded' /\ ClaimOK(t)'
      BY <1>1, <2>1, <3>1, <3>2, <3>4 DEF OccupancyBounded, ClaimOK
    <3>6. \A u \in Threads \ {t} : pc'[u] = pc[u] /\ ticket'[u] = ticket[u]
      BY <2>1 DEF TypeInv, TypeOK
    <3> QED
      BY <1>1, <2>1, <3>1, <3>3, <3>5, <3>6, BoundStep
  <2> QED
    BY <1>5, <1>7, <2>1 DEF AdvanceTail, Goto, Become, TypeInv, TypeOK
<1>8. ASSUME NEW t \in Threads, CheckEmpty(t) PROVE Bounded'
  <2>1. CASE ~Empty(t) /\ pc' = [pc EXCEPT ![t] = "advance_head"]
             /\ UNCHANGED <<ticket, enqueued, taken, lapped>>
    <3>1. ASSUME OccupancyBounded, ticket[t].at = taken + 1
          PROVE  taken < Len(enqueued)
      <4>1. current_head[t] = Index(taken)
        BY <1>1, <1>8, <3>1 DEF CheckEmpty, TypeInv, LocalsOK
      <4> QED
        BY <1>1, <2>1, <3>1, <4>1 DEF Empty, OccupancyBounded
    <3>2. ~lapped' => OccupancyBounded' /\ ClaimOK(t)'
      BY <2>1, <3>1 DEF Bounded, OccupancyBounded, ClaimOK, TypeInv, TypeOK
    <3> QED
      BY <1>1, <2>1, <3>2, BoundStep DEF TypeInv, TypeOK
  <2>2. CASE pc' = [pc EXCEPT ![t] = "return"] /\ Forget(t)
             /\ UNCHANGED <<enqueued, taken, lapped>>
    BY <1>2, <2>2 DEF Forget, Become, TypeInv, TypeOK
  <2> QED
    BY <1>5, <1>8, <2>1, <2>2 DEF CheckEmpty, Goto, Become
<1>9. ASSUME NEW t \in Threads, AdvanceHead(t) PROVE Bounded'
  <2>1. CASE /\ taken' = taken + 1
             /\ lapped' = (lapped \/ ticket[t].at # taken + 1)
             /\ pc' = [pc EXCEPT ![t] = "read"]
             /\ \A u \in Threads \ {t} : ticket'[u] = ticket[u]
             /\ enqueued' = enqueued
    <3>1. pc[t] = "advance_head" /\ pc'[t] = "read"
      BY <1>9, <2>1 DEF AdvanceHead, TypeInv, TypeOK
    <3>2. /\ lapped => lapped'
          /\ ~lapped' => ~lapped /\ ticket[t].at = taken + 1
      BY <2>1
    <3>3. ~lapped' => OccupancyBounded /\ taken < Len(enqueued)
      BY <3>1, <3>2 DEF Bounded, ClaimOK
    <3>4. ~lapped' => OccupancyBounded' /\ ClaimOK(t)'
      BY <1>1, <2>1, <3>1, <3>3 DEF OccupancyBounded, ClaimOK
    <3>5. \A u \in Threads \ {t} : pc'[u] = pc[u] /\ ticket'[u] = ticket[u]
      BY <2>1 DEF TypeInv, TypeOK
    <3> QED
      BY <1>1, <2>1, <3>2, <3>4, <3>5, BoundStep
  <2> QED
    BY <1>5, <1>9, <2>1 DEF AdvanceHead, Goto, Become, TypeInv, TypeOK
<1>10. CASE UNCHANGED vars
  BY <1>10 DEF vars, Bounded, OccupancyBounded, ClaimOK
<1> QED
  BY <1>3, <1>4, <1>6, <1>7, <1>8, <1>9, <1>10 DEF Next, Proceed

(* Types and bound hold throughout.                                        *)
LEMMA BoundedInvariant == Spec => [](TypeInv /\ Bounded)
<1>1. Init => Bounded
  <2>1. enqueued = <<>> => Len(enqueued) = 0
    OBVIOUS
  <2> QED
    BY <2>1, RingAssumption DEF Init, Bounded, OccupancyBounded, ClaimOK
<1> QED
  BY <1>1, TypeInit, TypeNext, BoundedNext, PTL DEF Spec

(* For any number of threads and any capacity: as long as no index is      *)
(* mistaken for the one a lap earlier, the queue holds at most capacity_-1 *)
(* entries and hands out none it does not hold.                            *)
THEOREM OccupancyStaysBounded == Spec => []BoundedUnlessLapped
<1>1. Bounded => BoundedUnlessLapped
  BY DEF Bounded, BoundedUnlessLapped
<1> QED
  BY <1>1, BoundedInvariant, PTL

-----------------------------------------------------------------------------
(* One producer and one consumer are never lapped                          *)

SoleRole(t) ==
    /\ pc[t] \in {"load_tail", "check_full", "advance_tail"} => t \in Producers
    /\ pc[t] \in {"load_head", "check_empty", "advance_head"} => t \in Consumers
    /\ pc[t] \in {"check_full", "advance_tail"}
           => ticket[t].at = Len(enqueued) + 1
    /\ pc[t] \in {"check_empty", "advance_head"} => ticket[t].at = taken + 1

NeverLapped == ~lapped /\ \A t \in Threads : SoleRole(t)

AtMostOneEach ==
    /\ \A p, q \in Producers : p = q
    /\ \A c, d \in Consumers : c = d

(* With one producer and one consumer no index changes between its load    *)
(* and its compare-exchange.                                               *)
LEMMA NeverLappedNext ==
  ASSUME AtMostOneEach, TypeInv, NeverLapped, [Next]_vars
  PROVE  NeverLapped'
<1> USE DEF shared, history, Goto, Become
<1>1. ASSUME NEW t \in Threads, UNCHANGED <<enqueued, taken, lapped>>,
             \A u \in Threads \ {t} : pc'[u] = pc[u] /\ ticket'[u] = ticket[u],
             SoleRole(t)'
      PROVE  NeverLapped'
  BY <1>1 DEF NeverLapped, SoleRole
<1>2. ASSUME NEW t \in Threads, Call(t) PROVE NeverLapped'
  <2>1. SoleRole(t)'
    BY <1>2 DEF Call, CallEnqueue, CallDequeueOrEmpty, SoleRole, TypeInv, TypeOK
  <2> QED
    BY <1>1, <1>2, <2>1
       DEF Call, CallEnqueue, CallDequeueOrEmpty, TypeInv, TypeOK
<1>3. ASSUME NEW t \in Threads, BeginWrite(t) \/ EndWrite(t) \/ BeginRead(t)
                                \/ EndRead(t) \/ ReturnToCaller(t)
      PROVE  NeverLapped'
  <2>1. SoleRole(t)'
    BY <1>3 DEF BeginWrite, EndWrite, BeginRead, EndRead, ReturnToCaller, Return,
                SoleRole, TypeInv, TypeOK
  <2> QED
    BY <1>1, <1>3, <2>1
       DEF BeginWrite, EndWrite, BeginRead, EndRead, ReturnToCaller, Return,
           Forget, TypeInv, TypeOK
<1>4. ASSUME NEW t \in Threads, LoadTail(t) \/ LoadHead(t) PROVE NeverLapped'
  <2>1. SoleRole(t)'
    BY <1>4 DEF LoadTail, LoadHead, NeverLapped, SoleRole, TypeInv, TypeOK
  <2> QED
    BY <1>1, <1>4, <2>1 DEF LoadTail, LoadHead, TypeInv, TypeOK
<1>5. ASSUME NEW t \in Threads, Fail(t), UNCHANGED <<enqueued, taken, lapped>>,
             pc[t] \in {"check_full", "advance_tail",
                        "check_empty", "advance_head"}
      PROVE  NeverLapped'
  <2>1. SoleRole(t)'
    BY <1>5 DEF Fail, Return, NeverLapped, SoleRole, TypeInv, TypeOK, LocalsOK
  <2> QED
    BY <1>1, <1>5, <2>1, FailKeepsTypes DEF UnchangedLocals
<1>6. ASSUME NEW t \in Threads, CheckFull(t) \/ CheckEmpty(t) PROVE NeverLapped'
  <2>1. CASE Fail(t)
    BY <1>5, <1>6, <2>1 DEF CheckFull, CheckEmpty
  <2>2. CASE ~Fail(t)
    <3>1. SoleRole(t)'
      BY <1>6, <2>2
         DEF CheckFull, CheckEmpty, Forget, NeverLapped, SoleRole, TypeInv, TypeOK
    <3> QED
      BY <1>1, <1>6, <2>2, <3>1
         DEF CheckFull, CheckEmpty, Forget, TypeInv, TypeOK
  <2> QED
    BY <2>1, <2>2
<1>7. ASSUME NEW t \in Threads, AdvanceTail(t) PROVE NeverLapped'
  <2>1. CASE Fail(t) /\ UNCHANGED <<enqueued, taken, lapped>>
    BY <1>5, <1>7, <2>1 DEF AdvanceTail
  <2>2. CASE lapped' = (lapped \/ ticket[t].at # Len(enqueued) + 1)
             /\ pc' = [pc EXCEPT ![t] = "write"]
             /\ \A u \in Threads \ {t} : ticket'[u] = ticket[u]
             /\ taken' = taken
    <3>1. t \in Producers /\ ticket[t].at = Len(enqueued) + 1 /\ ~lapped
      BY <1>7 DEF AdvanceTail, NeverLapped, SoleRole
    <3>2. ~lapped'
      BY <2>2, <3>1
    <3>3. ASSUME NEW u \in Threads PROVE SoleRole(u)'
      BY <2>2, <3>1 DEF NeverLapped, SoleRole, AtMostOneEach, TypeInv, TypeOK
    <3> QED
      BY <3>2, <3>3 DEF NeverLapped
  <2> QED
    BY <1>7, <2>1, <2>2 DEF AdvanceTail, TypeInv, TypeOK
<1>8. ASSUME NEW t \in Threads, AdvanceHead(t) PROVE NeverLapped'
  <2>1. CASE Fail(t) /\ UNCHANGED <<enqueued, taken, lapped>>
    BY <1>5, <1>8, <2>1 DEF AdvanceHead
  <2>2. CASE lapped' = (lapped \/ ticket[t].at # taken + 1)
             /\ pc' = [pc EXCEPT ![t] = "read"]
             /\ \A u \in Threads \ {t} : ticket'[u] = ticket[u]
             /\ enqueued' = enqueued
    <3>1. t \in Consumers /\ ticket[t].at = taken + 1 /\ ~lapped
      BY <1>8 DEF AdvanceHead, NeverLapped, SoleRole
    <3>2. ~lapped'
      BY <2>2, <3>1
    <3>3. ASSUME NEW u \in Threads PROVE SoleRole(u)'
      BY <2>2, <3>1 DEF NeverLapped, SoleRole, AtMostOneEach, TypeInv, TypeOK
    <3> QED
      BY <3>2, <3>3 DEF NeverLapped
  <2> QED
    BY <1>8, <2>1, <2>2 DEF AdvanceHead, TypeInv, TypeOK
<1>9. CASE UNCHANGED vars
  BY <1>9 DEF vars, NeverLapped, SoleRole
<1> QED
  BY <1>2, <1>3, <1>4, <1>6, <1>7, <1>8, <1>9 DEF Next, Proceed

(* With at most one producer and one consumer the bound holds without any  *)
(* condition, for every capacity.                                          *)
THEOREM SoleOccupancyBounded ==
  ASSUME AtMostOneEach PROVE Spec => []OccupancyBounded
<1>1. Init => NeverLapped
  BY DEF Init, NeverLapped, SoleRole
<1>2. Bounded /\ NeverLapped => OccupancyBounded
  BY DEF Bounded, NeverLapped
<1>3. TypeInv /\ NeverLapped /\ [Next]_vars => NeverLapped'
  BY NeverLappedNext
<1> QED
  BY <1>1, <1>2, <1>3, BoundedInvariant, PTL DEF Spec

-----------------------------------------------------------------------------
(* A sole consumer is told the truth                                       *)

(* What the only consumer t may rely on, however many producers there are  *)
(* and whether or not they lap each other.                                 *)
SoleView(t) ==
    /\ taken <= Len(enqueued)
    /\ \A u \in Threads \ {t} :
           pc[u] \notin {"load_head", "check_empty", "advance_head"}
    /\ pc[t] \in {"check_empty", "advance_head"} => ticket[t].at = taken + 1
    /\ pc[t] = "advance_head" => taken < Len(enqueued)
    /\ op[t] = "not_empty" => pc[t] = "return" /\ taken < Len(enqueued)

(* The other threads only enqueue: they never take the entry away.         *)
LEMMA OthersKeepSoleView ==
  ASSUME TypeInv, NEW t \in Threads, Consumers = {t}, SoleView(t),
         NEW u \in Threads \ {t}, Call(u) \/ Proceed(u)
  PROVE  SoleView(t)'
<1> USE DEF shared, history, Goto, Become
<1>1. u \in Producers /\ u \notin Consumers
  BY DEF Threads
<1>2. Len(enqueued) \in Nat /\ taken \in Nat
  BY DEF TypeInv, TypeOK
<1>3. ASSUME taken' = taken, Len(enqueued) <= Len(enqueued'),
             Len(enqueued') \in Nat,
             \A w \in Threads \ {u} : pc'[w] = pc[w],
             op'[t] = op[t], ticket'[t] = ticket[t],
             pc'[u] \notin {"load_head", "check_empty", "advance_head"}
      PROVE  SoleView(t)'
  BY <1>2, <1>3 DEF SoleView
<1>4. ASSUME Fail(u), UNCHANGED <<shared, history>>, pc[u] \in {"check_full", "advance_tail"}
      PROVE  SoleView(t)'
  <2>1. pc'[u] \in {"idle", "load_tail"}
    BY <1>4 DEF Fail, Return, TypeInv, TypeOK, LocalsOK
  <2> QED
    BY <1>2, <1>3, <1>4, <2>1, FailKeepsTypes DEF UnchangedLocals
<1>5. CASE Call(u)
  BY <1>1, <1>2, <1>3, <1>5 DEF Call, CallEnqueue, TypeInv, TypeOK
<1>6. CASE LoadTail(u) \/ BeginWrite(u) \/ EndWrite(u) \/ BeginRead(u)
           \/ EndRead(u) \/ ReturnToCaller(u)
  BY <1>2, <1>3, <1>6
     DEF LoadTail, BeginWrite, EndWrite, BeginRead, EndRead, ReturnToCaller,
         Return, Forget, TypeInv, TypeOK
<1>7. CASE CheckFull(u)
  BY <1>2, <1>3, <1>4, <1>7 DEF CheckFull, TypeInv, TypeOK
<1>8. CASE AdvanceTail(u)
  <2>1. CASE /\ enqueued' = Append(enqueued, value[u])
             /\ ticket' = [ticket EXCEPT ![u] =
                              [at |-> Len(enqueued) + 1, ready |-> FALSE]]
             /\ pc' = [pc EXCEPT ![u] = "write"]
             /\ op' = op /\ taken' = taken
    <3>1. Len(enqueued') = Len(enqueued) + 1
      BY <2>1 DEF TypeInv, TypeOK
    <3> QED
      BY <1>2, <1>3, <2>1, <3>1 DEF TypeInv, TypeOK
  <2> QED
    BY <1>4, <1>8, <2>1 DEF AdvanceTail
<1>9. CASE LoadHead(u) \/ CheckEmpty(u) \/ AdvanceHead(u)
  BY <1>9 DEF LoadHead, CheckEmpty, AdvanceHead, SoleView
<1> QED
  BY <1>5, <1>6, <1>7, <1>8, <1>9 DEF Proceed

(* Nor does the consumer itself, between being told and dequeuing.         *)
LEMMA OwnStepKeepsSoleView ==
  ASSUME TypeInv, NEW t \in Threads, Consumers = {t}, SoleView(t),
         Call(t) \/ Proceed(t)
  PROVE  SoleView(t)'
<1> USE DEF shared, history, Goto, Become
<1>1. /\ Len(enqueued) \in Nat /\ taken \in Nat
      /\ tail_ = Index(Len(enqueued)) /\ head_ = Index(taken)
      /\ taken <= Len(enqueued)
      /\ LocalsOK(t)
      /\ pc \in [Threads -> Labels] /\ op \in [Threads -> Ops]
      /\ ticket \in [Threads -> [at : Nat, ready : BOOLEAN]]
      /\ op[t] = "not_empty" => pc[t] = "return"
  BY DEF TypeInv, TypeOK, SoleView
<1>2. ASSUME taken' <= Len(enqueued'),
             \A w \in Threads \ {t} : pc'[w] = pc[w],
             pc'[t] \in {"check_empty", "advance_head"}
                 => ticket'[t].at = taken' + 1,
             pc'[t] = "advance_head" => taken' < Len(enqueued'),
             op'[t] = "not_empty"
                 => pc'[t] = "return" /\ taken' < Len(enqueued')
      PROVE  SoleView(t)'
  BY <1>2 DEF SoleView
<1>3. ASSUME Fail(t), UNCHANGED <<shared, history>>, pc[t] # "return"
      PROVE  SoleView(t)'
  <2>1. op'[t] # "not_empty"
    BY <1>1, <1>3 DEF Fail, Return
  <2> QED
    BY <1>1, <1>2, <1>3, <2>1, FailKeepsTypes DEF UnchangedLocals
<1>4. CASE Call(t)
  BY <1>1, <1>2, <1>4 DEF Call, CallEnqueue, CallDequeueOrEmpty
<1>5. CASE LoadTail(t) \/ BeginWrite(t) \/ EndWrite(t) \/ LoadHead(t)
           \/ BeginRead(t) \/ EndRead(t) \/ ReturnToCaller(t)
  BY <1>1, <1>2, <1>5
     DEF LoadTail, BeginWrite, EndWrite, LoadHead, BeginRead, EndRead,
         ReturnToCaller, Return, Forget
<1>6. CASE CheckFull(t)
  BY <1>1, <1>2, <1>3, <1>6 DEF CheckFull
<1>7. CASE AdvanceTail(t)
  <2>1. CASE /\ enqueued' = Append(enqueued, value[t])
             /\ pc[t] = "advance_tail"
             /\ pc' = [pc EXCEPT ![t] = "write"]
             /\ op' = op /\ taken' = taken
    <3>1. Len(enqueued') = Len(enqueued) + 1
      BY <2>1 DEF TypeInv, TypeOK
    <3> QED
      BY <1>1, <1>2, <2>1, <3>1
  <2> QED
    BY <1>3, <1>7, <2>1 DEF AdvanceTail
<1>8. CASE CheckEmpty(t)
  <2>1. ~Empty(t) => taken < Len(enqueued)
    <3>1. pc[t] = "check_empty" /\ ticket[t].at = taken + 1
      BY <1>8 DEF CheckEmpty, SoleView
    <3>2. current_head[t] = Index(ticket[t].at - 1)
      BY <1>1, <3>1 DEF LocalsOK
    <3>3. current_head[t] = Index(taken)
      BY <1>1, <3>1, <3>2
    <3> QED
      BY <1>1, <3>3 DEF Empty
  <2>2. ticket[t].at = taken + 1
    BY <1>8 DEF CheckEmpty, SoleView
  <2>3. CASE /\ pc[t] = "check_empty"
             /\ op' = [op EXCEPT ![t] = IF Empty(t) THEN "is_empty" ELSE "not_empty"]
             /\ pc' = [pc EXCEPT ![t] = "return"]
             /\ UNCHANGED <<shared, history>>
    BY <1>1, <1>2, <2>1, <2>3
  <2>4. CASE /\ pc[t] = "check_empty" /\ ~Empty(t)
             /\ pc' = [pc EXCEPT ![t] = "advance_head"]
             /\ UNCHANGED <<op, ticket>>
             /\ UNCHANGED <<shared, history>>
    BY <1>1, <1>2, <2>1, <2>2, <2>4
  <2> QED
    BY <1>3, <1>8, <2>3, <2>4 DEF CheckEmpty
<1>9. CASE AdvanceHead(t)
  <2>1. pc[t] = "advance_head" /\ taken < Len(enqueued)
    BY <1>9 DEF AdvanceHead, SoleView
  <2>2. CASE /\ taken' = taken + 1 /\ enqueued' = enqueued /\ op' = op
             /\ pc' = [pc EXCEPT ![t] = "read"]
    BY <1>1, <1>2, <2>1, <2>2
  <2> QED
    BY <1>3, <1>9, <2>1, <2>2 DEF AdvanceHead
<1> QED
  BY <1>4, <1>5, <1>6, <1>7, <1>8, <1>9 DEF Proceed

(* For any number of producers and any capacity: a queue that has a single *)
(* consumer still holds an entry when empty() has told it so, so that the  *)
(* dequeue of AsyncLogger::background_flush does not block.                *)
THEOREM SoleConsumerNotMisled == Spec => []SoleConsumerFindsEntry
<1> DEFINE Views == \A t \in Threads : Consumers = {t} => SoleView(t)
<1>1. Init => Views
  <2>1. enqueued = <<>> => Len(enqueued) = 0
    OBVIOUS
  <2> QED
    BY <2>1 DEF Init, SoleView
<1>2. TypeInv /\ Views /\ [Next]_vars => Views'
  <2> SUFFICES ASSUME TypeInv, [Next]_vars, NEW t \in Threads, Consumers = {t},
                      SoleView(t)
               PROVE  SoleView(t)'
    OBVIOUS
  <2>1. CASE UNCHANGED vars
    BY <2>1 DEF vars, shared, history, SoleView
  <2>2. CASE Next
    BY <2>2, OthersKeepSoleView, OwnStepKeepsSoleView DEF Next
  <2> QED
    BY <2>1, <2>2
<1>3. Views => SoleConsumerFindsEntry
  BY DEF SoleView, SoleConsumerFindsEntry
<1> QED
  BY <1>1, <1>2, <1>3, TypeInit, TypeNext, PTL DEF Spec

-----------------------------------------------------------------------------
(* One producer and one consumer never meet in a slot                      *)

(* Positions less than a lap apart that share their slot are the same.     *)
LEMMA IndexInjective ==
  ASSUME NEW m \in Nat, NEW n \in Nat, Index(m) = Index(n),
         m - n < capacity_, n - m < capacity_
  PROVE  m = n
<1> DEFINE c == capacity_
           p == m \div c
           q == n \div c
           r == m % c
<1>1. c \in Nat \ {0}
  BY RingAssumption
<1>2. p \in Int /\ q \in Int /\ r \in 0..(c - 1)
  BY <1>1
<1>3. m = c * p + r /\ n = c * q + r
  BY <1>1 DEF Index
<1>4. c * p \in Int /\ c * q \in Int
  BY <1>1, <1>2
<1>5. ~(p < q) /\ ~(q < p)
  <2>1. p < q => c * p + c <= c * q
    BY <1>1, <1>2, MultiplesApart
  <2>2. q < p => c * q + c <= c * p
    BY <1>1, <1>2, MultiplesApart
  <2>3. m - n < c /\ n - m < c
    OBVIOUS
  <2> HIDE DEF c, p, q, r
  <2> QED
    BY <1>1, <1>2, <1>3, <1>4, <2>1, <2>2, <2>3
<1> HIDE DEF c, p, q, r
<1> QED
  BY <1>2, <1>3, <1>5

(* The entries between the last one claimed by the consumer and the last   *)
(* one claimed by the producer have slots of their own.                    *)
LEMMA SlotsApart ==
  ASSUME TypeInv, OccupancyBounded,
         NEW i \in 1..Len(enqueued), NEW j \in 1..Len(enqueued),
         taken <= i, taken <= j, Index(i - 1) = Index(j - 1)
  PROVE  i = j
<1>1. Len(enqueued) \in Nat /\ taken \in Nat /\ capacity_ \in Nat \ {0}
  BY RingAssumption DEF TypeInv, TypeOK
<1>2. i - 1 \in Nat /\ j - 1 \in Nat
  BY <1>1
<1>3. (i - 1) - (j - 1) < capacity_ /\ (j - 1) - (i - 1) < capacity_
  BY <1>1 DEF OccupancyBounded
<1>4. i - 1 = j - 1
  BY <1>2, <1>3, IndexInjective
<1> QED
  BY <1>1, <1>4

(* A producer in its slot holds the last position, which is not written;   *)
(* until the position is claimed, the slot stays as the producer left it.  *)
FillOK(t) ==
    pc[t] \in {"write", "writing"}
        => /\ t \in Producers
           /\ ticket[t].at = Len(enqueued)
           /\ Len(enqueued) \notin written
           /\ current_tail[t] = Index(Len(enqueued) - 1)
           /\ value[t] = enqueued[Len(enqueued)]
           /\ pc[t] = "writing" /\ taken < Len(enqueued)
                  => buffer_[Index(Len(enqueued) - 1)] = t

(* A consumer in its slot holds the position claimed last.                 *)
MoveOK(t) ==
    pc[t] \in {"read", "reading"}
        => /\ t \in Consumers
           /\ ticket[t].at = taken
           /\ taken \in 1..Len(enqueued)
           /\ current_head[t] = Index(taken - 1)

(* If the position was written when it was claimed, the entry is in the    *)
(* slot until the consumer has moved it out.                               *)
GotOK(t) ==
    ticket[t].ready
        => /\ pc[t] \in {"read", "reading"}
                  => /\ taken \in written
                     /\ buffer_[Index(taken - 1)] = enqueued[taken]
           /\ pc[t] = "reading" => value[t] = enqueued[taken]
           /\ pc[t] = "return"
                  => /\ ticket[t].at \in 1..Len(enqueued)
                     /\ value[t] = enqueued[ticket[t].at]

(* So is every written entry that is still to be claimed.                  *)
Stored == \A i \in written : taken < i => buffer_[Index(i - 1)] = enqueued[i]

Custody == Stored /\ \A t \in Threads : FillOK(t) /\ MoveOK(t) /\ GotOK(t)

(* Steps that neither claim nor change a slot.                             *)
LEMMA CustodyOfOthers ==
  ASSUME TypeInv, Custody, NEW t \in Threads,
         UNCHANGED <<buffer_, enqueued, taken, written>>,
         \A u \in Threads \ {t} : UnchangedLocals(u),
         FillOK(t)' /\ MoveOK(t)' /\ GotOK(t)'
  PROVE  Custody'
<1>1. Stored'
  BY DEF Custody, Stored
<1>2. ASSUME NEW u \in Threads \ {t} PROVE FillOK(u)' /\ MoveOK(u)' /\ GotOK(u)'
  BY <1>2 DEF Custody, FillOK, MoveOK, GotOK, UnchangedLocals
<1> QED
  BY <1>1, <1>2 DEF Custody

(* Claiming the next position for an enqueue.                              *)
LEMMA CustodyAdvanceTail ==
  ASSUME AtMostOneEach, TypeInv, NeverLapped, OccupancyBounded, Custody,
         NEW t \in Threads, pc[t] = "advance_tail",
         enqueued' = Append(enqueued, value[t]),
         ticket' = [ticket EXCEPT ![t] =
                        [at |-> Len(enqueued) + 1, ready |-> FALSE]],
         pc' = [pc EXCEPT ![t] = "write"],
         UNCHANGED <<buffer_, value, current_head, current_tail, taken, written>>
  PROVE  Custody'
<1> DEFINE n == Len(enqueued)
<1>1. /\ n \in Nat /\ taken \in Nat /\ written \subseteq 1..n
      /\ Len(enqueued') = n + 1 /\ enqueued'[n + 1] = value[t]
      /\ \A i \in 1..n : enqueued'[i] = enqueued[i]
  BY DEF TypeInv, TypeOK, LocalsOK
<1>2. t \in Producers /\ current_tail[t] = Index(n)
  <2>1. t \in Producers /\ ticket[t].at = n + 1
    BY DEF NeverLapped, SoleRole
  <2>2. current_tail[t] = Index(ticket[t].at - 1)
    BY DEF TypeInv, LocalsOK
  <2> QED
    BY <1>1, <2>1, <2>2
<1>3. pc'[t] = "write" /\ ticket'[t] = [at |-> n + 1, ready |-> FALSE]
  BY DEF TypeInv, TypeOK
<1>4. \A u \in Threads \ {t} : pc'[u] = pc[u] /\ ticket'[u] = ticket[u]
  BY DEF TypeInv, TypeOK
<1> HIDE DEF n
<1>5. FillOK(t)' /\ MoveOK(t)' /\ GotOK(t)'
  BY <1>1, <1>2, <1>3 DEF FillOK, MoveOK, GotOK
<1>6. ASSUME NEW u \in Threads \ {t} PROVE FillOK(u)' /\ MoveOK(u)' /\ GotOK(u)'
  <2>1. FillOK(u) /\ MoveOK(u) /\ GotOK(u)
    BY DEF Custody
  <2>2. pc[u] \notin {"write", "writing"}
    BY <1>2, <2>1 DEF FillOK, AtMostOneEach
  <2>3. FillOK(u)'
    BY <1>4, <2>2 DEF FillOK
  <2>4. MoveOK(u)'
    BY <1>1, <1>4, <2>1 DEF MoveOK, n
  <2>5. GotOK(u)'
    BY <1>1, <1>4, <2>1 DEF GotOK, n
  <2> QED
    BY <2>3, <2>4, <2>5
<1>7. Stored'
  BY <1>1 DEF Custody, Stored
<1> QED
  BY <1>5, <1>6, <1>7 DEF Custody

(* Filling the slot disturbs no entry on its way to the consumer.          *)
LEMMA CustodyWrite ==
  ASSUME AtMostOneEach, TypeInv, NeverLapped, OccupancyBounded, Custody,
         NEW t \in Threads, BeginWrite(t) \/ EndWrite(t)
  PROVE  Custody'
<1> USE DEF Goto, Become, shared, history
<1> DEFINE n == Len(enqueued)
           s == Index(n - 1)
<1>1. /\ n \in Nat /\ taken \in Nat /\ written \subseteq 1..n /\ taken <= n
      /\ buffer_ \in [Slots -> Entries]
  BY RingAssumption DEF TypeInv, TypeOK, OccupancyBounded
<1>2. /\ t \in Producers /\ ticket[t].at = n /\ n \in 1..n /\ n \notin written
      /\ current_tail[t] = s /\ value[t] = enqueued[n] /\ s \in Slots
  <2>1. pc[t] \in {"write", "writing"} /\ FillOK(t) /\ LocalsOK(t)
    BY DEF BeginWrite, EndWrite, Custody, TypeInv
  <2>2. ticket[t].at \in 1..n
    BY <2>1 DEF LocalsOK
  <2> QED
    BY <1>1, <2>1, <2>2, IndexIsSlot DEF FillOK
<1>3. ASSUME NEW i \in written, taken <= i PROVE Index(i - 1) # s
  <2>1. i \in 1..n /\ i # n
    BY <1>1, <1>2
  <2> QED
    BY <1>1, <1>2, <1>3, <2>1, SlotsApart
<1>4. /\ \A x \in Slots \ {s} : buffer_'[x] = buffer_[x]
      /\ UNCHANGED <<enqueued, taken>>
      /\ \A u \in Threads \ {t} : UnchangedLocals(u)
  BY <1>2 DEF BeginWrite, EndWrite, Return, Forget, TypeInv, TypeOK,
              UnchangedLocals
<1>5. \A i \in written : i - 1 \in Nat /\ Index(i - 1) \in Slots
  BY <1>1, IndexIsSlot
<1>6. ASSUME NEW u \in Threads \ {t}
      PROVE  pc[u] \notin {"write", "writing"}
  BY <1>2 DEF Custody, FillOK, AtMostOneEach
<1>7. CASE BeginWrite(t)
  <2>1. pc'[t] = "writing" /\ pc[t] = "write" /\ written' = written
    BY <1>7 DEF BeginWrite, TypeInv, TypeOK
  <2>2. FillOK(t)' /\ MoveOK(t)' /\ GotOK(t)'
    <3>1. FillOK(t)
      BY DEF Custody
    <3>2. /\ UNCHANGED <<ticket, current_tail, value, enqueued, written, taken>>
          /\ buffer_'[s] = t
      BY <1>1, <1>2, <1>7 DEF BeginWrite
    <3> QED
      BY <2>1, <3>1, <3>2 DEF FillOK, MoveOK, GotOK
  <2>3. ASSUME NEW u \in Threads \ {t}
        PROVE  FillOK(u)' /\ MoveOK(u)' /\ GotOK(u)'
    <3>1. MoveOK(u) /\ GotOK(u) /\ UnchangedLocals(u)
      BY <1>4 DEF Custody
    <3> QED
      BY <1>1, <1>3, <1>4, <1>5, <1>6, <2>1, <3>1
         DEF FillOK, MoveOK, GotOK, UnchangedLocals
  <2>4. Stored'
    BY <1>1, <1>3, <1>4, <1>5, <2>1 DEF Custody, Stored
  <2> QED
    BY <2>2, <2>3, <2>4 DEF Custody
<1>8. CASE EndWrite(t)
  <2>1. pc'[t] = "idle" /\ written' = written \cup {n}
    BY <1>2, <1>8 DEF EndWrite, Return, TypeInv, TypeOK
  <2>2. taken < n => buffer_'[s] = enqueued[n]
    <3> SUFFICES ASSUME taken < n PROVE Undisturbed(t, s, t)
      BY <1>1, <1>2, <1>8 DEF EndWrite
    <3>1. buffer_[s] = t
      BY <1>2, <1>8 DEF Custody, FillOK, EndWrite
    <3>2. ASSUME NEW u \in Threads \ {t}, pc[u] = "reading"
          PROVE  current_head[u] # s
      <4>1. taken \in 1..n /\ current_head[u] = Index(taken - 1)
        BY <3>2 DEF Custody, MoveOK
      <4> QED
        BY <1>1, <1>2, <4>1, SlotsApart
    <3> QED
      BY <1>6, <3>1, <3>2 DEF Undisturbed
  <2>3. FillOK(t)' /\ MoveOK(t)' /\ GotOK(t)'
    BY <2>1 DEF FillOK, MoveOK, GotOK
  <2>4. ASSUME NEW u \in Threads \ {t}
        PROVE  FillOK(u)' /\ MoveOK(u)' /\ GotOK(u)'
    <3>1. MoveOK(u) /\ GotOK(u) /\ UnchangedLocals(u)
      BY <1>4 DEF Custody
    <3> QED
      BY <1>1, <1>3, <1>4, <1>5, <1>6, <2>1, <3>1
         DEF FillOK, MoveOK, GotOK, UnchangedLocals
  <2>5. Stored'
    <3>1. ASSUME NEW i \in written, taken < i
          PROVE  buffer_'[Index(i - 1)] = enqueued[i]
      BY <1>1, <1>3, <1>4, <1>5, <3>1 DEF Custody, Stored
    <3> QED
      BY <1>4, <2>1, <2>2, <3>1 DEF Stored
  <2> QED
    BY <2>3, <2>4, <2>5 DEF Custody
<1> QED
  BY <1>7, <1>8

(* Claiming an entry that is written claims it in its slot.                *)
LEMMA CustodyAdvanceHead ==
  ASSUME AtMostOneEach, TypeInv, NeverLapped, Bounded, Custody,
         NEW t \in Threads, pc[t] = "advance_head",
         taken' = taken + 1,
         ticket' = [ticket EXCEPT ![t] =
                        [at |-> taken + 1, ready |-> taken + 1 \in written]],
         pc' = [pc EXCEPT ![t] = "read"],
         UNCHANGED <<buffer_, value, current_head, current_tail, enqueued,
                     written>>
  PROVE  Custody'
<1>1. /\ Len(enqueued) \in Nat /\ taken \in Nat
      /\ written \subseteq 1..Len(enqueued)
  BY DEF TypeInv, TypeOK
<1>2. t \in Consumers /\ taken < Len(enqueued) /\ current_head[t] = Index(taken)
  <2>1. t \in Consumers /\ ticket[t].at = taken + 1
    BY DEF NeverLapped, SoleRole
  <2>2. taken < Len(enqueued)
    BY <2>1 DEF NeverLapped, Bounded, ClaimOK
  <2>3. current_head[t] = Index(ticket[t].at - 1)
    BY DEF TypeInv, LocalsOK
  <2> QED
    BY <1>1, <2>1, <2>2, <2>3
<1>3. /\ pc'[t] = "read"
      /\ ticket'[t] = [at |-> taken + 1, ready |-> taken + 1 \in written]
  BY DEF TypeInv, TypeOK
<1>4. \A u \in Threads \ {t} : pc'[u] = pc[u] /\ ticket'[u] = ticket[u]
  BY DEF TypeInv, TypeOK
<1>5. FillOK(t)' /\ MoveOK(t)'
  BY <1>1, <1>2, <1>3 DEF FillOK, MoveOK
<1>6. GotOK(t)'
  <2>1. taken + 1 \in written => buffer_[Index(taken)] = enqueued[taken + 1]
    BY <1>1 DEF Custody, Stored
  <2>2. ticket'[t].ready => taken + 1 \in written
    <3>1. ASSUME taken + 1 \notin written PROVE ~ticket'[t].ready
      <4>1. (taken + 1 \in written) = FALSE
        BY <3>1
      <4> DEFINE w == taken + 1 \in written
      <4>2. ticket'[t] = [at |-> taken + 1, ready |-> w] /\ w = FALSE
        BY <1>3, <4>1
      <4> HIDE DEF w
      <4> QED
        BY <4>2
    <3> QED
      BY <3>1
  <2>3. taken' - 1 = taken
    BY <1>1
  <2>4. ticket'[t].ready
            => taken' \in written /\ buffer_[Index(taken' - 1)] = enqueued[taken']
    BY <2>1, <2>2, <2>3
  <2> QED
    BY <1>3, <2>4 DEF GotOK
<1>7. ASSUME NEW u \in Threads \ {t} PROVE FillOK(u)' /\ MoveOK(u)' /\ GotOK(u)'
  <2>1. FillOK(u) /\ MoveOK(u) /\ GotOK(u)
    BY DEF Custody
  <2>2. pc[u] \notin {"read", "reading"}
    BY <1>2, <2>1 DEF MoveOK, AtMostOneEach
  <2>3. FillOK(u)'
    BY <1>1, <1>4, <2>1 DEF FillOK
  <2> QED
    BY <1>4, <2>1, <2>2, <2>3 DEF MoveOK, GotOK
<1>8. Stored'
  BY <1>1 DEF Custody, Stored
<1> QED
  BY <1>5, <1>6, <1>7, <1>8 DEF Custody

(* Moving the entry out of its slot leaves the others where they are.      *)
LEMMA CustodyEndRead ==
  ASSUME AtMostOneEach, TypeInv, OccupancyBounded, Custody,
         NEW t \in Threads, EndRead(t)
  PROVE  Custody'
<1> USE DEF Goto, Become, shared, history
<1> DEFINE s == Index(taken - 1)
<1>1. /\ Len(enqueued) \in Nat /\ taken \in Nat
      /\ written \subseteq 1..Len(enqueued)
      /\ buffer_ \in [Slots -> Entries]
  BY DEF TypeInv, TypeOK
<1>2. /\ t \in Consumers /\ ticket[t].at = taken
      /\ taken \in 1..Len(enqueued) /\ current_head[t] = s /\ s \in Slots
  <2>1. MoveOK(t) /\ pc[t] = "reading"
    BY DEF Custody, EndRead
  <2> QED
    BY <1>1, <2>1, IndexIsSlot DEF MoveOK
<1>3. ASSUME NEW i \in written, taken < i
      PROVE  buffer_'[Index(i - 1)] = enqueued[i]
  <2>1. i \in 1..Len(enqueued) /\ i # taken /\ Index(i - 1) \in Slots
    BY <1>1, <1>3, IndexIsSlot
  <2>2. Index(i - 1) # s
    BY <1>1, <1>2, <1>3, <2>1, SlotsApart
  <2> QED
    BY <1>1, <1>2, <1>3, <2>1, <2>2 DEF EndRead, Custody, Stored
<1>4. Stored'
  BY <1>3 DEF EndRead, Stored
<1>5. FillOK(t)' /\ MoveOK(t)'
  BY DEF EndRead, FillOK, MoveOK, TypeInv, TypeOK
<1>6. GotOK(t)'
  <2> SUFFICES ASSUME ticket[t].ready
               PROVE  Undisturbed(t, s, value[t])
    <3>1. ticket[t].ready => value[t] = enqueued[taken]
      BY DEF Custody, GotOK, EndRead
    <3>2. /\ pc'[t] = "return" /\ ticket' = ticket /\ enqueued' = enqueued
          /\ Undisturbed(t, s, value[t]) => value' = value
      BY <1>2 DEF EndRead, TypeInv, TypeOK
    <3> QED
      BY <1>2, <3>1, <3>2 DEF GotOK
  <2>1. buffer_[s] = value[t] /\ taken \in written
    BY DEF Custody, GotOK, EndRead
  <2>2. ASSUME NEW u \in Threads \ {t}, pc[u] = "writing"
        PROVE  current_tail[u] # s
    <3>1. /\ Len(enqueued) \notin written
          /\ current_tail[u] = Index(Len(enqueued) - 1)
      BY <2>2 DEF Custody, FillOK
    <3>2. Len(enqueued) \in 1..Len(enqueued) /\ taken <= Len(enqueued)
      BY <1>1, <1>2
    <3> QED
      BY <1>1, <1>2, <2>1, <3>1, <3>2, SlotsApart
  <2>3. ASSUME NEW u \in Threads \ {t} PROVE pc[u] # "reading"
    BY <1>2 DEF Custody, MoveOK, AtMostOneEach
  <2> QED
    BY <2>1, <2>2, <2>3 DEF Undisturbed
<1>7. ASSUME NEW u \in Threads \ {t} PROVE FillOK(u)' /\ MoveOK(u)' /\ GotOK(u)'
  <2>1. FillOK(u) /\ MoveOK(u) /\ GotOK(u)
    BY DEF Custody
  <2>2. pc[u] \notin {"read", "reading"}
    BY <1>2, <2>1 DEF MoveOK, AtMostOneEach
  <2>3. UnchangedLocals(u) /\ UNCHANGED <<enqueued, taken, written>>
    BY DEF EndRead, UnchangedLocals, TypeInv, TypeOK
  <2>4. taken < Len(enqueued)
            => buffer_'[Index(Len(enqueued) - 1)]
                   = buffer_[Index(Len(enqueued) - 1)]
    <3> SUFFICES ASSUME taken < Len(enqueued)
                 PROVE  Index(Len(enqueued) - 1) # s
      <4>1. \A x \in Slots \ {s} : buffer_'[x] = buffer_[x]
        BY <1>1, <1>2 DEF EndRead
      <4>2. Index(Len(enqueued) - 1) \in Slots
        BY <1>1, <1>2, IndexIsSlot
      <4> QED
        BY <4>1, <4>2
    <3> QED
      BY <1>1, <1>2, SlotsApart
  <2> QED
    BY <2>1, <2>2, <2>3, <2>4 DEF FillOK, MoveOK, GotOK, UnchangedLocals
<1> QED
  BY <1>4, <1>5, <1>6, <1>7 DEF Custody

(* Every step of a sole producer or a sole consumer keeps the slots apart. *)
LEMMA CustodyNext ==
  ASSUME AtMostOneEach, TypeInv, NeverLapped, Bounded, Custody, [Next]_vars
  PROVE  Custody'
<1> USE DEF Goto, Become, shared, history
<1>0. OccupancyBounded
  BY DEF NeverLapped, Bounded
<1>1. ASSUME NEW t \in Threads, Fail(t),
             UNCHANGED <<buffer_, enqueued, taken, written>>
      PROVE  Custody'
  <2>1. FillOK(t)' /\ MoveOK(t)' /\ GotOK(t)'
    BY <1>1, FailKeepsTypes DEF FillOK, MoveOK, GotOK
  <2> QED
    BY <1>1, <2>1, CustodyOfOthers, FailKeepsTypes
<1>2. ASSUME NEW t \in Threads, Call(t) PROVE Custody'
  <2>1. /\ UNCHANGED <<buffer_, enqueued, taken, written>>
        /\ pc'[t] \in {"load_tail", "load_head"}
        /\ \A u \in Threads \ {t} : UnchangedLocals(u)
    BY <1>2 DEF Call, CallEnqueue, CallDequeueOrEmpty, UnchangedLocals, TypeInv,
                TypeOK
  <2>2. FillOK(t)' /\ MoveOK(t)' /\ GotOK(t)'
    BY <2>1 DEF FillOK, MoveOK, GotOK
  <2> QED
    BY <2>1, <2>2, CustodyOfOthers
<1>3. ASSUME NEW t \in Threads, LoadTail(t) \/ LoadHead(t) \/ ReturnToCaller(t)
      PROVE  Custody'
  <2>1. /\ UNCHANGED <<buffer_, enqueued, taken, written>>
        /\ pc'[t] \in {"check_full", "check_empty", "idle"}
        /\ \A u \in Threads \ {t} : UnchangedLocals(u)
    BY <1>3 DEF LoadTail, LoadHead, ReturnToCaller, Return, Forget,
                UnchangedLocals, TypeInv, TypeOK
  <2>2. FillOK(t)' /\ MoveOK(t)' /\ GotOK(t)'
    BY <2>1 DEF FillOK, MoveOK, GotOK
  <2> QED
    BY <2>1, <2>2, CustodyOfOthers
<1>4. ASSUME NEW t \in Threads, CheckFull(t) \/ CheckEmpty(t) PROVE Custody'
  <2>1. CASE Fail(t)
    BY <1>1, <1>4, <2>1 DEF CheckFull, CheckEmpty
  <2>2. CASE ~Fail(t)
    <3>1. /\ UNCHANGED <<buffer_, enqueued, taken, written>>
          /\ \/ pc'[t] \in {"advance_tail", "advance_head"}
             \/ pc'[t] = "return" /\ ticket'[t] = NoTicket
          /\ \A u \in Threads \ {t} : UnchangedLocals(u)
      BY <1>4, <2>2 DEF CheckFull, CheckEmpty, Forget, UnchangedLocals, TypeInv,
                        TypeOK
    <3>2. FillOK(t)' /\ MoveOK(t)' /\ GotOK(t)'
      BY <3>1 DEF FillOK, MoveOK, GotOK, NoTicket
    <3> QED
      BY <3>1, <3>2, CustodyOfOthers
  <2> QED
    BY <2>1, <2>2
<1>5. ASSUME NEW t \in Threads, AdvanceTail(t) PROVE Custody'
  <2>1. CASE Fail(t) /\ UNCHANGED <<buffer_, enqueued, taken, written>>
    BY <1>1, <2>1
  <2>2. CASE /\ enqueued' = Append(enqueued, value[t])
             /\ ticket' = [ticket EXCEPT ![t] =
                              [at |-> Len(enqueued) + 1, ready |-> FALSE]]
             /\ pc' = [pc EXCEPT ![t] = "write"]
             /\ UNCHANGED <<buffer_, value, current_head, current_tail, taken,
                            written>>
    BY <1>0, <1>5, <2>2, CustodyAdvanceTail DEF AdvanceTail
  <2> QED
    BY <1>5, <2>1, <2>2 DEF AdvanceTail
<1>6. ASSUME NEW t \in Threads, AdvanceHead(t) PROVE Custody'
  <2>1. CASE Fail(t) /\ UNCHANGED <<buffer_, enqueued, taken, written>>
    BY <1>1, <2>1
  <2>2. CASE /\ taken' = taken + 1
             /\ ticket' = [ticket EXCEPT ![t] =
                    [at |-> taken + 1, ready |-> taken + 1 \in written]]
             /\ pc' = [pc EXCEPT ![t] = "read"]
             /\ UNCHANGED <<buffer_, value, current_head, current_tail,
                            enqueued, written>>
    BY <1>6, <2>2, CustodyAdvanceHead DEF AdvanceHead
  <2> QED
    BY <1>6, <2>1, <2>2 DEF AdvanceHead
<1>7. ASSUME NEW t \in Threads, BeginRead(t) PROVE Custody'
  <2>1. /\ UNCHANGED <<buffer_, enqueued, taken, written, ticket, current_head>>
        /\ pc[t] = "read" /\ pc'[t] = "reading"
        /\ value'[t] = buffer_[current_head[t]]
        /\ \A u \in Threads \ {t} : UnchangedLocals(u)
    BY <1>7 DEF BeginRead, UnchangedLocals, TypeInv, TypeOK
  <2>2. MoveOK(t) /\ GotOK(t)
    BY DEF Custody
  <2>3. FillOK(t)' /\ MoveOK(t)' /\ GotOK(t)'
    BY <2>1, <2>2 DEF FillOK, MoveOK, GotOK
  <2> QED
    BY <2>1, <2>3, CustodyOfOthers
<1>8. CASE UNCHANGED vars
  BY <1>8 DEF vars, Custody, Stored, FillOK, MoveOK, GotOK
<1> QED
  BY <1>0, <1>2, <1>3, <1>4, <1>5, <1>6, <1>7, <1>8, CustodyWrite,
     CustodyEndRead DEF Next, Proceed

(* Bound, indices and slots hold throughout.                               *)
LEMMA CustodyInvariant ==
  ASSUME AtMostOneEach
  PROVE  Spec => [](TypeInv /\ Bounded /\ NeverLapped /\ Custody)
<1>1. Init => NeverLapped /\ Custody
  BY DEF Init, NeverLapped, SoleRole, Custody, Stored, FillOK, MoveOK, GotOK,
         NoTicket
<1>2. TypeInv /\ NeverLapped /\ [Next]_vars => NeverLapped'
  BY NeverLappedNext
<1>3. TypeInv /\ NeverLapped /\ Bounded /\ Custody /\ [Next]_vars => Custody'
  BY CustodyNext
<1> QED
  BY <1>1, <1>2, <1>3, BoundedInvariant, PTL DEF Spec

(* With at most one producer and one consumer, for every capacity: the     *)
(* slot whose entry the consumer is moving out is not claimed for another  *)
(* entry, although head_ has given it up already.                          *)
THEOREM SlotsAreNotShared ==
  ASSUME AtMostOneEach PROVE Spec => []SlotNotReusedWhileRead
<1>1. TypeInv /\ Bounded /\ NeverLapped /\ Custody => SlotNotReusedWhileRead
  <2> SUFFICES ASSUME TypeInv, OccupancyBounded, Custody,
                      NEW c \in Consumers, NEW p \in Producers, NEW s \in Slots,
                      Reading(c, s), Filling(p, s)
               PROVE  ticket[p].at = ticket[c].at
    BY DEF Bounded, NeverLapped, SlotNotReusedWhileRead
  <2>1. Len(enqueued) \in Nat /\ taken \in Nat
    BY DEF TypeInv, TypeOK
  <2>2. MoveOK(c) /\ FillOK(p)
    BY DEF Custody, Threads
  <2>3. /\ ticket[c].at = taken /\ taken \in 1..Len(enqueued)
        /\ ticket[p].at = Len(enqueued)
        /\ Index(taken - 1) = Index(Len(enqueued) - 1)
    BY <2>2 DEF MoveOK, FillOK, Reading, Filling
  <2>4. taken = Len(enqueued)
    BY <2>1, <2>3, SlotsApart
  <2> QED
    BY <2>3, <2>4
<1> QED
  BY <1>1, CustodyInvariant, PTL

(* With at most one producer and one consumer, for every capacity: an      *)
(* entry that is written when its position is claimed is the one returned. *)
THEOREM WrittenEntriesAreReturned ==
  ASSUME AtMostOneEach PROVE Spec => []WrittenEntriesArrive
<1>1. Custody => WrittenEntriesArrive
  BY DEF Custody, GotOK, WrittenEntriesArrive, Threads
<1> QED
  BY <1>1, CustodyInvariant, PTL

=============================================================================
