------------------------------ MODULE AuditLog ------------------------------
(***************************************************************************)
(* What the reader of the audit output may rely on: a bounded queue in     *)
(* front of a log.  Events may be missing, but none is reported twice, and *)
(* the events of one thread are reported in the order of its calls.        *)
(***************************************************************************)
EXTENDS Naturals, Sequences

CONSTANTS
  Capacity,  \* events that may be waiting
  Threads,
  Calls      \* numbers of the calls of a thread

VARIABLES
  waiting,  \* events accepted and not reported: sequence of [tid, nth]
  reported  \* per thread: the call it was last reported for

vars == <<waiting, reported>>

Init == waiting = << >> /\ reported = [t \in Threads |-> 0]

\* A thread may have skipped calls, but does not go back.
Accept(t, n) ==
  /\ Len(waiting) < Capacity
  /\ reported[t] < n
  /\ \A k \in DOMAIN waiting : waiting[k].tid = t => waiting[k].nth < n
  /\ waiting' = Append(waiting, [tid |-> t, nth |-> n])
  /\ UNCHANGED reported

Report ==
  /\ waiting # << >>
  /\ reported[Head(waiting).tid] < Head(waiting).nth
  /\ reported' = [reported EXCEPT ![Head(waiting).tid] = Head(waiting).nth]
  /\ waiting' = Tail(waiting)

Next == Report \/ \E t \in Threads, n \in Calls : Accept(t, n)

Spec == Init /\ [][Next]_vars

=============================================================================
