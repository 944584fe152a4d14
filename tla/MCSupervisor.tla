---------------------------- MODULE MCSupervisor ----------------------------
(* Supervisor on a small instance.                                         *)
EXTENDS Supervisor

Say(o, nr) == [site |-> o, enc |-> EncodedNr(nr)]

\* The launched build, one that rebinds its second site and fills the map, one
\* with more sites than fit, and one that does not parse.
SomeBuilds ==
  [old  |-> <<Say(1, 0), Say(2, AnyNr)>>,
   new  |-> <<Say(2, 1), Say(1, 0), Say(3, 1)>>,
   more |-> <<Say(3, 1), Say(4, 1), Say(1, 0)>>,
   bad  |-> << >>]

SomeCalls == [t \in Threads |-> IF t = 1 THEN 2 ELSE 1]

=============================================================================
