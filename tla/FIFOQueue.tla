----------------------------- MODULE FIFOQueue -----------------------------
(***************************************************************************)
(* What a queue backend promises to the code that calls it through         *)
(* BaseQueue: a linearizable first-in first-out queue.  An operation is    *)
(* invoked, takes effect atomically at one moment between its invocation   *)
(* and its return, and returns.  A dequeue may return false, and empty()   *)
(* may return true, only after having observed an empty queue during the   *)
(* call.  empty() returning false is a snapshot that promises nothing to   *)
(* concurrent callers (the @warning of MPMCQueue::empty).                  *)
(***************************************************************************)
EXTENDS Sequences

CONSTANTS Threads,   \* the calling threads
          Values,    \* what is enqueued (the LogEntry objects)
          NoValue    \* the absence of a value

VARIABLES queue,     \* the values in the queue, oldest first
          call       \* call[t]: the operation thread t is executing

fifoVars == <<queue, call>>

NoCall == [op |-> "none", value |-> NoValue, done |-> FALSE]

Init == /\ queue = <<>>
        /\ call = [t \in Threads |-> NoCall]

Become(t, c) == call' = [call EXCEPT ![t] = c]

Pending(t, op) == call[t].op = op /\ ~call[t].done

(* A thread calls enqueue(v), dequeue() or empty(). *)
Invoke(t) ==
    /\ call[t] = NoCall
    /\ \/ \E v \in Values :
             Become(t, [op |-> "enqueue", value |-> v, done |-> FALSE])
       \/ \E op \in {"dequeue", "empty"} :
             Become(t, [op |-> op, value |-> NoValue, done |-> FALSE])
    /\ UNCHANGED queue

(* The moment an enqueue takes effect. *)
DoEnqueue(t) ==
    /\ Pending(t, "enqueue")
    /\ queue' = Append(queue, call[t].value)
    /\ Become(t, [call[t] EXCEPT !.done = TRUE])

(* The moment a successful dequeue takes effect. *)
DoDequeue(t) ==
    /\ Pending(t, "dequeue")
    /\ queue # <<>>
    /\ queue' = Tail(queue)
    /\ Become(t, [call[t] EXCEPT !.value = Head(queue), !.done = TRUE])

(* A dequeue or an empty() sees that there is nothing in the queue. *)
SeeEmpty(t) ==
    /\ Pending(t, "dequeue") \/ Pending(t, "empty")
    /\ queue = <<>>
    /\ Become(t, [call[t] EXCEPT !.done = TRUE])
    /\ UNCHANGED queue

(* A dequeue that saw an empty queue looks again instead of returning. *)
LookAgain(t) ==
    /\ call[t] = [op |-> "dequeue", value |-> NoValue, done |-> TRUE]
    /\ Become(t, [call[t] EXCEPT !.done = FALSE])
    /\ UNCHANGED queue

(* An empty() settles for the answer false. *)
SeeNonEmpty(t) ==
    /\ Pending(t, "empty")
    /\ Become(t, [call[t] EXCEPT !.op = "nonempty", !.done = TRUE])
    /\ UNCHANGED queue

Return(t) ==
    /\ call[t].done
    /\ Become(t, NoCall)
    /\ UNCHANGED queue

Next == \E t \in Threads :
            \/ Invoke(t)    \/ DoEnqueue(t) \/ DoDequeue(t)
            \/ SeeEmpty(t)  \/ LookAgain(t) \/ SeeNonEmpty(t)
            \/ Return(t)

Spec == Init /\ [][Next]_fifoVars
=============================================================================
