--------------------------- MODULE Lifetime_proofs ---------------------------
(* The logger's thread has ended, and has emptied the queue, when the      *)
(* logger is destroyed, whatever the order of the other destructors.       *)
EXTENDS Lifetime, TLAPS

\* Once the thread has ended nothing is appended any more.
Inv ==
    /\ entries \in Nat
    /\ running_ \in BOOLEAN
    /\ main \in {"starting", "run"} => running_
    /\ main = "start" => background = "none"
    /\ background = "done" => ~running_ /\ entries = 0 /\ main # "start"
    /\ ThreadEndsFirst

LEMMA InvInit == Init => Inv
<1> SUFFICES ASSUME Init PROVE Inv
  OBVIOUS
<1>1. /\ entries = 0 /\ running_ = FALSE /\ destroyed = {}
      /\ main = "start" /\ background = "none"
  BY DEF Init
<1>2. entries \in Nat /\ running_ \in BOOLEAN
  BY <1>1
<1>3. ThreadEndsFirst
  BY <1>1 DEF ThreadEndsFirst
<1> QED  BY <1>1, <1>2, <1>3 DEF Inv

LEMMA InvNext == Inv /\ [Next]_vars => Inv'
<1> SUFFICES ASSUME Inv, [Next]_vars PROVE Inv'
  OBVIOUS
<1> USE DEF Inv, ThreadEndsFirst
<1>1. CASE ConstructQueue
  BY <1>1 DEF ConstructQueue
<1>2. CASE ConstructLogger
  BY <1>2 DEF ConstructLogger
<1>3. CASE AppendEntry
  BY <1>3 DEF AppendEntry
<1>4. CASE Stop
  BY <1>4 DEF Stop
<1>5. CASE Return
  BY <1>5 DEF Return
<1>6. CASE BeginLoggerDestructor
  BY <1>6 DEF BeginLoggerDestructor
<1>7. CASE LoggerDestructor
  BY <1>7 DEF LoggerDestructor
<1>8. CASE ManagerDestructor
  BY <1>8 DEF ManagerDestructor
<1>9. CASE BeginQueueDestructor
  BY <1>9 DEF BeginQueueDestructor
<1>10. CASE QueueDestructor
  BY <1>10 DEF QueueDestructor
<1>11. CASE Wait
  BY <1>11 DEF Wait
<1>12. CASE Flush
  BY <1>12 DEF Flush
<1>13. CASE Check
  BY <1>13 DEF Check
<1>14. CASE UNCHANGED vars
  BY <1>14 DEF vars
<1> QED
  BY <1>1, <1>2, <1>3, <1>4, <1>5, <1>6, <1>7, <1>8, <1>9, <1>10, <1>11,
     <1>12, <1>13, <1>14 DEF Next, Done

(* No destructor runs over a logger whose thread still reads its members,  *)
(* and none over entries that were appended: ~AsyncLogger joins the thread,*)
(* which ends only with the queue empty.                                   *)
THEOREM ThreadAlwaysEndsFirst == Spec => []ThreadEndsFirst
<1>1. Inv => ThreadEndsFirst
  BY DEF Inv
<1> QED  BY InvInit, InvNext, <1>1, PTL DEF Spec
=============================================================================
