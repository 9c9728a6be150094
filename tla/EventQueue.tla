----------------------------- MODULE EventQueue -----------------------------
(***************************************************************************)
(* The agent's alert queue (src_CTA/EventQueue.cpp): a deque of EventRecord *)
(* guarded by one mutex.  Every method takes the mutex for its whole body,  *)
(* so each one is a single atomic step of its caller and is modelled by the *)
(* value it leaves in the deque.                                            *)
(***************************************************************************)
EXTENDS Naturals, Sequences

CONSTANT Capacity   \* max_capacity_; the constructor never leaves it at 0

ASSUME CapacityAssumption == Capacity \in Nat \ {0}

IsFull(q) == Len(q) >= Capacity

(* Mutant of Push: the test for a full queue is forgotten.                 *)
PushUnbounded(q, e) == Append(q, e)

(* push: a full queue gives up its oldest element to make room.            *)
Push(q, e) == Append(IF IsFull(q) THEN Tail(q) ELSE q, e)

(* pop: fails on an empty queue, otherwise takes the front element.        *)
CanPop(q) == q # <<>>
Oldest(q) == Head(q)
AfterPop(q) == Tail(q)

(* Mutants of Drained and AfterDrain: newest first; copied, not moved.     *)
DrainedNewestFirst(q) == [i \in 1 .. Len(q) |-> q[Len(q) + 1 - i]]
AfterCopy(q) == q

(* drainAll: every element, oldest first; the queue is left empty.         *)
Drained(q) == q
AfterDrain(q) == <<>>
=============================================================================
