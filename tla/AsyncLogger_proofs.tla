------------------------- MODULE AsyncLogger_proofs -------------------------
(***************************************************************************)
(* Proofs about AsyncLogger, for any number of threads and entries, any    *)
(* batch threshold, and any number of stops and restarts.  The inductive   *)
(* invariant has four parts: the types, the handshake between stop and the *)
(* background thread, the bookkeeping of the entries, and the count of     *)
(* what is not flushed yet.                                                *)
(***************************************************************************)
EXTENDS AsyncLogger, SequenceTheorems, FiniteSetTheorems, TLAPS

(* The background thread decides to sleep with mutex_ held, and stop       *)
(* clears running_ with mutex_ held; until stop is called the thread runs. *)
HandshakeInv ==
    /\ mutex_ = "bg" <=> bg \in {"check", "block", "unlock"}
    /\ mutex_ = "owner" <=> owner = "assign"
    /\ owner \in {"notify", "join", "stopped"} => ~running_ /\ bg # "block"
    /\ owner = "join" => bg # "waiting"
    /\ owner = "stopped" => bg = "none"
    /\ joined => owner = "stopped"
    /\ owner \in {"idle", "stop", "assign"} /\ bg # "none" => running_
    /\ bg \in {"check_empty", "finished"} => ~running_

(* Entries move in order from the queue to the batch to the log.  The      *)
(* thread does not end with entries of before the stop under way: if there *)
(* is a thread to join the stop was called before it ended.                *)
EntriesInv ==
    /\ EntriesConserved
    /\ bg = "take" => log_queue_ # <<>>
    /\ entries # <<>> => bg \in {"drain", "take", "write"}
    /\ promised <= Len(appended)
    /\ bg = "finished" \/ joined => promised <= Len(log)

-----------------------------------------------------------------------------
(* Type correctness holds initially.                                       *)
LEMMA TypeInit == Init => TypeOK
<1> SUFFICES ASSUME Init PROVE TypeOK
  OBVIOUS
<1>1. running_ \in BOOLEAN /\ joined \in BOOLEAN
  BY DEF Init
<1>2. /\ log_queue_ \in Seq(Entries) /\ entries \in Seq(Entries)
      /\ log \in Seq(Entries) /\ appended \in Seq(Entries)
  BY DEF Init
<1> QED  BY <1>1, <1>2, LoggerAssumption DEF Init, TypeOK

(* The steps of append keep the types.                                     *)
LEMMA TypeWriters ==
    ASSUME TypeOK, NEW w \in Writers,
           WriterStep(w) \/ \E e \in Entries : Enqueue(w, e)
    PROVE  TypeOK'
<1>1. CASE \E e \in Entries : Enqueue(w, e)
  BY <1>1 DEF TypeOK, Enqueue, WriterGoto, bgVars, ownerVars
<1>2. CASE CountEntry(w)
  BY <1>2 DEF TypeOK, CountEntry, WriterGoto, bgVars, ownerVars
<1>3. CASE ResetCount(w)
  BY <1>3 DEF TypeOK, ResetCount, WriterGoto, bgVars, ownerVars
<1>4. CASE NotifyBatch(w)
  BY <1>4 DEF TypeOK, NotifyBatch, NotifyOne, WriterGoto, ownerVars
<1> QED  BY <1>1, <1>2, <1>3, <1>4 DEF WriterStep

(* The steps of the background thread keep the types.                      *)
LEMMA TypeBackground ==
    ASSUME TypeOK, EntriesInv, BgStep \/ TimeOut \/ WakeSpuriously \/ FailToOpen
    PROVE  TypeOK'
<1> USE DEF TypeOK, BgGoto, ownerVars, writerVars
<1>1. CASE Lock            BY <1>1 DEF Lock
<1>2. CASE CheckPredicate  BY <1>2 DEF CheckPredicate
<1>3. CASE Block           BY <1>3 DEF Block
<1>4. CASE Relock          BY <1>4 DEF Relock
<1>5. CASE Unlock          BY <1>5 DEF Unlock
<1>6. CASE OpenLogFile     BY <1>6 DEF OpenLogFile
<1>7. CASE Drain           BY <1>7 DEF Drain
<1>8. CASE Take
  <2>1. log_queue_ # <<>>
    BY <1>8 DEF Take, EntriesInv
  <2>2. Head(log_queue_) \in Entries /\ Tail(log_queue_) \in Seq(Entries)
    BY <2>1, HeadTailProperties
  <2>3. Append(entries, Head(log_queue_)) \in Seq(Entries)
    BY <2>2, AppendProperties
  <2> QED  BY <1>8, <2>2, <2>3 DEF Take
<1>9. CASE Write
  <2>1. log \o entries \in Seq(Entries)
    BY ConcatProperties
  <2> QED  BY <1>9, <2>1 DEF Write
<1>10. CASE CheckRunning    BY <1>10 DEF CheckRunning
<1>11. CASE CheckEmpty      BY <1>11 DEF CheckEmpty
<1>12. CASE TimeOut         BY <1>12 DEF TimeOut
<1>13. CASE WakeSpuriously  BY <1>13 DEF WakeSpuriously
<1>14. CASE FailToOpen      BY <1>14 DEF FailToOpen
<1> QED  BY <1>1, <1>2, <1>3, <1>4, <1>5, <1>6, <1>7, <1>8, <1>9, <1>10,
             <1>11, <1>12, <1>13, <1>14 DEF BgStep

(* The steps of start, stop and set_filepath keep the types.               *)
LEMMA TypeOwner ==
    ASSUME TypeOK, OwnerStep \/ Stop \/ Start \/ SetFilePath
    PROVE  TypeOK'
<1> USE LoggerAssumption DEF TypeOK, bgVars, writerVars
<1>1. CASE ClearRunning    BY <1>1 DEF ClearRunning
<1>2. CASE NotifyStop      BY <1>2 DEF NotifyStop, NotifyOne
<1>3. CASE Join            BY <1>3 DEF Join
<1>4. CASE StopReturns     BY <1>4 DEF StopReturns
<1>5. CASE AssignFilePath  BY <1>5 DEF AssignFilePath
<1>6. CASE Stop
  <2>1. Len(appended) \in Nat
    BY LenProperties
  <2> QED  BY <1>6, <2>1 DEF Stop
<1>7. CASE Start           BY <1>7 DEF Start
<1>8. CASE SetFilePath     BY <1>8 DEF SetFilePath
<1> QED  BY <1>1, <1>2, <1>3, <1>4, <1>5, <1>6, <1>7, <1>8 DEF OwnerStep

-----------------------------------------------------------------------------
(* The handshake: mutex_ orders the last look of the background thread at  *)
(* running_ and the store of stop.                                         *)
LEMMA HandshakeWriters ==
    ASSUME TypeOK, HandshakeInv, NEW w \in Writers,
           WriterStep(w) \/ \E e \in Entries : Enqueue(w, e)
    PROVE  HandshakeInv'
<1> USE DEF HandshakeInv
<1>1. CASE \E e \in Entries : Enqueue(w, e)
  BY <1>1 DEF Enqueue, bgVars, ownerVars
<1>2. CASE CountEntry(w)
  BY <1>2 DEF CountEntry, bgVars, ownerVars
<1>3. CASE ResetCount(w)
  BY <1>3 DEF ResetCount, bgVars, ownerVars
<1>4. CASE NotifyBatch(w)
  BY <1>4 DEF NotifyBatch, NotifyOne, ownerVars
<1> QED  BY <1>1, <1>2, <1>3, <1>4 DEF WriterStep

(* The background thread goes to sleep only from a predicate it evaluated  *)
(* with mutex_ held and running_ still set.                                *)
LEMMA HandshakeBackground ==
    ASSUME TypeOK, HandshakeInv, BgStep \/ TimeOut \/ WakeSpuriously \/ FailToOpen
    PROVE  HandshakeInv'
<1> USE DEF TypeOK, HandshakeInv, BgGoto, ownerVars
<1>1. CASE Lock            BY <1>1 DEF Lock
<1>2. CASE CheckPredicate  BY <1>2 DEF CheckPredicate
<1>3. CASE Block           BY <1>3 DEF Block
<1>4. CASE Relock          BY <1>4 DEF Relock
<1>5. CASE Unlock          BY <1>5 DEF Unlock
<1>6. CASE OpenLogFile     BY <1>6 DEF OpenLogFile
<1>7. CASE Drain           BY <1>7 DEF Drain
<1>8. CASE Take            BY <1>8 DEF Take
<1>9. CASE Write           BY <1>9 DEF Write
<1>10. CASE CheckRunning    BY <1>10 DEF CheckRunning
<1>11. CASE CheckEmpty      BY <1>11 DEF CheckEmpty
<1>12. CASE TimeOut         BY <1>12 DEF TimeOut
<1>13. CASE WakeSpuriously  BY <1>13 DEF WakeSpuriously
<1>14. CASE FailToOpen      BY <1>14 DEF FailToOpen
<1> QED  BY <1>1, <1>2, <1>3, <1>4, <1>5, <1>6, <1>7, <1>8, <1>9, <1>10,
             <1>11, <1>12, <1>13, <1>14 DEF BgStep

(* stop() clears running_ while the background thread is not between that  *)
(* evaluation and its sleep, and then notifies it.                         *)
LEMMA HandshakeOwner ==
    ASSUME TypeOK, HandshakeInv, OwnerStep \/ Stop \/ Start \/ SetFilePath
    PROVE  HandshakeInv'
<1> USE DEF TypeOK, HandshakeInv, bgVars
<1>1. CASE ClearRunning    BY <1>1 DEF ClearRunning
<1>2. CASE NotifyStop      BY <1>2 DEF NotifyStop, NotifyOne
<1>3. CASE Join            BY <1>3 DEF Join
<1>4. CASE StopReturns     BY <1>4 DEF StopReturns
<1>5. CASE AssignFilePath  BY <1>5 DEF AssignFilePath
<1>6. CASE Stop            BY <1>6 DEF Stop
<1>7. CASE Start           BY <1>7 DEF Start
<1>8. CASE SetFilePath     BY <1>8 DEF SetFilePath
<1> QED  BY <1>1, <1>2, <1>3, <1>4, <1>5, <1>6, <1>7, <1>8 DEF OwnerStep
-----------------------------------------------------------------------------
(* Taking the first entry of the queue into the batch does not change what *)
(* batch and queue contain together.                                       *)
LEMMA MoveHead ==
    ASSUME NEW l \in Seq(Entries), NEW b \in Seq(Entries),
           NEW q \in Seq(Entries), q # <<>>
    PROVE  (l \o Append(b, Head(q))) \o Tail(q) = (l \o b) \o q
<1> DEFINE h == <<Head(q)>>
<1>1. Head(q) \in Entries /\ Tail(q) \in Seq(Entries) /\ h \in Seq(Entries)
  BY HeadTailProperties
<1>2. Append(b, Head(q)) = b \o h
  BY <1>1, AppendIsConcat
<1>3. h \o Tail(q) = q
  <2>1. /\ h \o Tail(q) \in Seq(Entries)
        /\ Len(h \o Tail(q)) = 1 + Len(Tail(q))
        /\ \A i \in 1..(1 + Len(Tail(q))) :
              (h \o Tail(q))[i] = IF i <= 1 THEN h[i] ELSE Tail(q)[i - 1]
    BY <1>1, ConcatProperties
  <2>2. Len(q) = 1 + Len(Tail(q)) /\ Len(q) \in Nat
    BY HeadTailProperties, LenProperties
  <2>3. ASSUME NEW i \in 1..Len(q)
        PROVE  (h \o Tail(q))[i] = q[i]
    <3>1. CASE i = 1
      BY <2>1, <2>2, <3>1
    <3>2. CASE i # 1
      <4>1. i - 1 \in 1..Len(Tail(q))
        BY <2>2, <3>2
      <4> QED  BY <2>1, <2>2, <3>2, <4>1, HeadTailProperties
    <3> QED  BY <3>1, <3>2
  <2> HIDE DEF h
  <2> QED  BY <2>1, <2>2, <2>3, SeqEqual
<1>4. /\ (l \o (b \o h)) = (l \o b) \o h
      /\ l \o b \in Seq(Entries)
  BY <1>1, ConcatAssociative, ConcatProperties
<1>5. ((l \o b) \o h) \o Tail(q) = (l \o b) \o (h \o Tail(q))
  BY <1>1, <1>4, ConcatAssociative
<1> HIDE DEF h
<1> QED  BY <1>2, <1>3, <1>4, <1>5

(* Appending at the back of the queue appends to all of it.                *)
LEMMA AppendAtBack ==
    ASSUME NEW l \in Seq(Entries), NEW q \in Seq(Entries), NEW e \in Entries
    PROVE  Append(l \o q, e) = l \o Append(q, e)
<1>1. <<e>> \in Seq(Entries) /\ l \o q \in Seq(Entries)
  BY ConcatProperties
<1>2. Append(l \o q, e) = (l \o q) \o <<e>> /\ Append(q, e) = q \o <<e>>
  BY <1>1, AppendIsConcat
<1> QED  BY <1>1, <1>2, ConcatAssociative

(* The steps of append put an entry at the back or move none.              *)
LEMMA EntriesWriters ==
    ASSUME TypeOK, EntriesInv, NEW w \in Writers,
           WriterStep(w) \/ \E e \in Entries : Enqueue(w, e)
    PROVE  EntriesInv'
<1>0. /\ log \in Seq(Entries) /\ entries \in Seq(Entries)
      /\ log_queue_ \in Seq(Entries) /\ appended \in Seq(Entries)
      /\ appended = (log \o entries) \o log_queue_
  BY DEF TypeOK, EntriesInv, EntriesConserved
<1> USE DEF TypeOK, EntriesInv
<1>1. CASE \E e \in Entries : Enqueue(w, e)
  <2>1. PICK e \in Entries : Enqueue(w, e)
    BY <1>1
  <2>2. log \o entries \in Seq(Entries)
    BY ConcatProperties
  <2>3. Append(appended, e) = (log \o entries) \o Append(log_queue_, e)
    BY <1>0, <2>2, AppendAtBack
  <2>4. /\ Append(log_queue_, e) # <<>>
        /\ Len(Append(appended, e)) = Len(appended) + 1
        /\ Len(appended) \in Nat
    BY AppendProperties, LenProperties
  <2> QED  BY <2>1, <2>3, <2>4 DEF Enqueue, EntriesConserved, bgVars, ownerVars
<1>2. CASE CountEntry(w)
  BY <1>2 DEF CountEntry, EntriesConserved, bgVars, ownerVars
<1>3. CASE ResetCount(w)
  BY <1>3 DEF ResetCount, EntriesConserved, bgVars, ownerVars
<1>4. CASE NotifyBatch(w)
  BY <1>4 DEF NotifyBatch, NotifyOne, EntriesConserved, ownerVars
<1> QED  BY <1>1, <1>2, <1>3, <1>4 DEF WriterStep

(* The steps of the background thread move entries on in order, and it     *)
(* ends only when every entry is in the log.                               *)
LEMMA EntriesBackground ==
    ASSUME TypeOK, EntriesInv, BgStep \/ TimeOut \/ WakeSpuriously \/ FailToOpen
    PROVE  EntriesInv'
<1>0. /\ log \in Seq(Entries) /\ entries \in Seq(Entries)
      /\ log_queue_ \in Seq(Entries)
  BY DEF TypeOK
<1> USE DEF TypeOK, EntriesInv, EntriesConserved, BgGoto, ownerVars, writerVars
<1>1. CASE Lock            BY <1>1 DEF Lock
<1>2. CASE CheckPredicate  BY <1>2 DEF CheckPredicate
<1>3. CASE Block           BY <1>3 DEF Block
<1>4. CASE Relock          BY <1>4 DEF Relock
<1>5. CASE Unlock          BY <1>5 DEF Unlock
<1>6. CASE OpenLogFile     BY <1>6 DEF OpenLogFile
<1>7. CASE Drain           BY <1>7 DEF Drain
<1>8. CASE Take
  <2>1. log_queue_ # <<>>
    BY <1>8 DEF Take
  <2>2. (log \o Append(entries, Head(log_queue_))) \o Tail(log_queue_)
          = (log \o entries) \o log_queue_
    BY <1>0, <2>1, MoveHead, ZenonT(60)
  <2> QED  BY <1>8, <2>2 DEF Take
<1>9. CASE Write
  <2>1. log \o entries \in Seq(Entries)
    BY ConcatProperties
  <2>2. (log \o entries) \o <<>> = log \o entries
    BY <2>1, ConcatEmptySeq
  <2> QED  BY <1>9, <2>2 DEF Write
<1>10. CASE CheckRunning    BY <1>10 DEF CheckRunning
<1>11. CASE CheckEmpty
  <2>1. CASE log_queue_ = <<>>
    <3>1. log \o <<>> = log
      BY ConcatEmptySeq
    <3>2. appended = log
      BY <1>11, <2>1, <3>1 DEF CheckEmpty
    <3> QED  BY <1>11, <3>2 DEF CheckEmpty
  <2>2. CASE log_queue_ # <<>>
    BY <1>11, <2>2 DEF CheckEmpty
  <2> QED  BY <2>1, <2>2
<1>12. CASE TimeOut         BY <1>12 DEF TimeOut
<1>13. CASE WakeSpuriously  BY <1>13 DEF WakeSpuriously
<1>14. CASE FailToOpen      BY <1>14 DEF FailToOpen
<1> QED  BY <1>1, <1>2, <1>3, <1>4, <1>5, <1>6, <1>7, <1>8, <1>9, <1>10,
             <1>11, <1>12, <1>13, <1>14 DEF BgStep

(* The steps of the owner move no entry; stop is called while the          *)
(* background thread runs, or when it has been joined already and this     *)
(* stop will join nothing.                                                 *)
LEMMA EntriesOwner ==
    ASSUME TypeOK, HandshakeInv, EntriesInv,
           OwnerStep \/ Stop \/ Start \/ SetFilePath
    PROVE  EntriesInv'
<1>0. Len(appended) \in Nat /\ Len(log) \in Nat
  BY LenProperties DEF TypeOK
<1> USE <1>0 DEF TypeOK, EntriesInv, EntriesConserved, bgVars, writerVars
<1>1. CASE ClearRunning    BY <1>1 DEF ClearRunning
<1>2. CASE NotifyStop      BY <1>2 DEF NotifyStop, NotifyOne
<1>3. CASE Join            BY <1>3 DEF Join
<1>4. CASE StopReturns     BY <1>4 DEF StopReturns
<1>5. CASE AssignFilePath  BY <1>5 DEF AssignFilePath
<1>6. CASE Stop
  <2>1. bg # "finished" /\ ~joined
    BY <1>6 DEF Stop, HandshakeInv
  <2> QED  BY <1>6, <2>1 DEF Stop
<1>7. CASE Start           BY <1>7 DEF Start
<1>8. CASE SetFilePath     BY <1>8 DEF SetFilePath
<1> QED  BY <1>1, <1>2, <1>3, <1>4, <1>5, <1>6, <1>7, <1>8 DEF OwnerStep

-----------------------------------------------------------------------------
(* The appends that are about to reset the count.                          *)
Resetting == {w \in Writers : writer[w] = "reset"}

(* An append that goes elsewhere than to the reset was resetting, or not.  *)
LEMMA LeaveReset ==
    ASSUME TypeOK, NEW w \in Writers, NEW label, label # "reset",
           writer' = [writer EXCEPT ![w] = label]
    PROVE  /\ Resetting' = Resetting \ {w}
           /\ writer[w] # "reset" => Resetting' = Resetting
BY DEF Resetting, TypeOK

(* There are finitely many of them, however many that is.                  *)
LEMMA ResettingFinite ==
    TypeOK => IsFiniteSet(Resetting) /\ Cardinality(Resetting) \in Nat
<1> SUFFICES ASSUME TypeOK PROVE IsFiniteSet(Resetting) /\ Cardinality(Resetting) \in Nat
  OBVIOUS
<1>1. Resetting \subseteq Writers
  BY DEF Resetting
<1>2. IsFiniteSet(Resetting)
  BY <1>1, FS_Subset, LoggerAssumption
<1> QED  BY <1>2, FS_CardinalityType

(* The count passes the threshold only with one more append to reset it.   *)
LEMMA CountWriters ==
    ASSUME TypeOK, CountBounded, NEW w \in Writers,
           WriterStep(w) \/ \E e \in Entries : Enqueue(w, e)
    PROVE  CountBounded'
<1>0. IsFiniteSet(Resetting) /\ Cardinality(Resetting) \in Nat /\ Threshold \in Nat \ {0}
  BY ResettingFinite, LoggerAssumption
<1>a. unflushed_count_ < Threshold + Cardinality(Resetting)
  BY DEF CountBounded, Resetting
<1> SUFFICES unflushed_count_' < Threshold + Cardinality(Resetting')
  BY DEF CountBounded, Resetting
<1>1. CASE \E e \in Entries : Enqueue(w, e)
  <2>1. Resetting' = Resetting
    BY <1>1, LeaveReset DEF Enqueue, WriterGoto
  <2> QED  BY <1>1, <1>a, <2>1 DEF Enqueue
<1>2. CASE CountEntry(w)
  <2>1. CASE unflushed_count_ + 1 >= Threshold
    <3>1. Resetting' = Resetting \cup {w} /\ w \notin Resetting
      BY <1>2, <2>1 DEF CountEntry, WriterGoto, Resetting, TypeOK
    <3>2. Cardinality(Resetting') = Cardinality(Resetting) + 1
      BY <1>0, <3>1, FS_AddElement
    <3> QED  BY <1>0, <1>2, <1>a, <3>2 DEF CountEntry, TypeOK
  <2>2. CASE ~(unflushed_count_ + 1 >= Threshold)
    <3>1. Resetting' = Resetting
      BY <1>2, <2>2, LeaveReset DEF CountEntry, WriterGoto
    <3> QED  BY <1>0, <1>2, <2>2, <3>1 DEF CountEntry, TypeOK
  <2> QED  BY <2>1, <2>2
<1>3. CASE ResetCount(w)
  <2>1. Resetting' = Resetting \ {w}
    BY <1>3, LeaveReset DEF ResetCount, WriterGoto
  <2>2. Cardinality(Resetting') \in Nat
    BY <1>0, <2>1, FS_Subset, FS_CardinalityType
  <2> QED  BY <1>0, <1>3, <2>2 DEF ResetCount
<1>4. CASE NotifyBatch(w)
  <2>1. Resetting' = Resetting
    BY <1>4, LeaveReset DEF NotifyBatch, WriterGoto
  <2> QED  BY <1>4, <1>a, <2>1 DEF NotifyBatch
<1> QED  BY <1>1, <1>2, <1>3, <1>4 DEF WriterStep

(* Nobody else touches the count.                                          *)
LEMMA CountOthers ==
    ASSUME CountBounded, UNCHANGED <<unflushed_count_, writer>>
    PROVE  CountBounded'
BY DEF CountBounded

-----------------------------------------------------------------------------
(* The whole invariant.                                                    *)
IInv == TypeOK /\ HandshakeInv /\ EntriesInv /\ CountBounded

(* The invariant holds when the constructor has returned.                  *)
LEMMA IInvInit == Init => IInv
<1> SUFFICES ASSUME Init PROVE IInv
  OBVIOUS
<1>1. TypeOK
  BY TypeInit
<1>2. HandshakeInv
  BY DEF Init, HandshakeInv
<1>3. EntriesInv
  BY DEF Init, EntriesInv, EntriesConserved
<1>4. CountBounded
  <2>1. Cardinality(Resetting) \in Nat
    BY <1>1, ResettingFinite
  <2> QED  BY <2>1, LoggerAssumption DEF Init, CountBounded, Resetting
<1> QED  BY <1>1, <1>2, <1>3, <1>4 DEF IInv

(* Every step keeps the invariant.                                         *)
LEMMA IInvNext == IInv /\ [Next]_vars => IInv'
<1> SUFFICES ASSUME IInv, [Next]_vars PROVE IInv'
  OBVIOUS
<1> USE DEF IInv
<1>1. CASE \E w \in Writers : WriterStep(w) \/ \E e \in Entries : Enqueue(w, e)
  BY <1>1, TypeWriters, HandshakeWriters, EntriesWriters, CountWriters
<1>2. CASE BgStep \/ TimeOut \/ WakeSpuriously \/ FailToOpen
  <2>1. UNCHANGED <<unflushed_count_, writer>>
    BY <1>2 DEF BgStep, Lock, CheckPredicate, Block, Relock, Unlock, OpenLogFile,
                Drain, Take, Write, CheckRunning, CheckEmpty, TimeOut,
                WakeSpuriously, FailToOpen, BgGoto, writerVars
  <2> QED  BY <1>2, <2>1, TypeBackground, HandshakeBackground, EntriesBackground,
              CountOthers
<1>3. CASE OwnerStep \/ Stop \/ Start \/ SetFilePath
  <2>1. UNCHANGED <<unflushed_count_, writer>>
    BY <1>3 DEF OwnerStep, Stop, Start, SetFilePath, ClearRunning, NotifyStop,
                Join, StopReturns, AssignFilePath, writerVars
  <2> QED  BY <1>3, <2>1, TypeOwner, HandshakeOwner, EntriesOwner, CountOthers
<1>4. CASE UNCHANGED vars
  BY <1>4 DEF vars, bgVars, ownerVars, writerVars, TypeOK, HandshakeInv,
              EntriesInv, EntriesConserved, CountBounded
<1>5. CASE Terminated
  BY <1>4, <1>5 DEF Terminated
<1> QED  BY <1>1, <1>2, <1>3, <1>4, <1>5 DEF Next

(* The invariant holds throughout.                                         *)
LEMMA IInvHolds == Spec => []IInv
BY IInvInit, IInvNext, PTL DEF Spec

(* Every variable of the logger keeps its type.                            *)
THEOREM TypeCorrect == Spec => []TypeOK
<1>1. IInv => TypeOK
  BY DEF IInv
<1> QED  BY <1>1, IInvHolds, PTL

(* append, background_flush and stop lose, duplicate and reorder no entry, *)
(* whatever the number of threads, the batch threshold and the restarts.   *)
THEOREM NoEntryIsLost == Spec => []EntriesConserved
<1>1. IInv => EntriesConserved
  BY DEF IInv, EntriesInv
<1> QED  BY <1>1, IInvHolds, PTL

(* A stop() that joins the background thread returns only when everything  *)
(* appended before it was called has been written.  It says nothing of a   *)
(* stop() that finds no thread to join: that one writes nothing.           *)
THEOREM JoiningStopFlushes == Spec => []JoiningStopFlushesEarlierEntries
<1>1. IInv => JoiningStopFlushesEarlierEntries
  BY DEF IInv, EntriesInv, JoiningStopFlushesEarlierEntries
<1> QED  BY <1>1, IInvHolds, PTL

(* The background thread never sleeps through the notification of stop().  *)
THEOREM StopWakesThread == Spec => []StopIsNotMissed
<1>1. IInv => StopIsNotMissed
  BY DEF IInv, HandshakeInv, StopIsNotMissed
<1> QED  BY <1>1, IInvHolds, PTL

(* The count of what is not flushed passes the threshold only with appends *)
(* that are about to reset it, for any number of threads.                  *)
THEOREM CountStaysBounded == Spec => []CountBounded
<1>1. IInv => CountBounded
  BY DEF IInv
<1> QED  BY <1>1, IInvHolds, PTL
=============================================================================
