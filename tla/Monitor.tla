------------------------------ MODULE Monitor ------------------------------
(***************************************************************************)
(* What enforcement promises of one process: a set of calls is granted     *)
(* when it is launched, never one outside the permitted set; a call that   *)
(* is not granted is denied; and when denial is lethal, no thread resumes  *)
(* after it.                                                               *)
(***************************************************************************)
CONSTANTS
  Child,  \* threads of the process
  Calls   \* what a thread may ask for

VARIABLES
  permitted,  \* the calls the policy means to permit
  lethal,     \* a denied call kills the process
  launched,
  granted,    \* the calls that are let through
  status,     \* per thread: absent, user, allowed, denied, dead
  doomed      \* the process has been killed

vars == <<permitted, lethal, launched, granted, status, doomed>>

Init ==
  /\ permitted \subseteq Calls
  /\ lethal \in BOOLEAN
  /\ launched = FALSE /\ granted = {}
  /\ status = [t \in Child |-> "absent"]
  /\ doomed = FALSE

Launch ==
  /\ ~launched /\ launched' = TRUE
  /\ granted' \subseteq permitted
  /\ \E t \in Child : status' = [status EXCEPT ![t] = "user"]
  /\ UNCHANGED <<permitted, lethal, doomed>>

Move(t, from, to) ==
  /\ status[t] = from
  /\ status' = [status EXCEPT ![t] = to]
  /\ UNCHANGED <<permitted, lethal, launched, granted>>

Allow(t) ==
  /\ granted # {}
  /\ Move(t, "user", "allowed")
  /\ UNCHANGED doomed

Deny(t) ==
  /\ granted # Calls
  /\ Move(t, "user", "denied")
  /\ doomed' = (doomed \/ lethal)

\* A call returns only into a process that lives.
Resume(t) ==
  /\ ~doomed
  /\ Move(t, "allowed", "user") \/ Move(t, "denied", "user")
  /\ UNCHANGED doomed

Die(t) == status[t] # "absent" /\ Move(t, status[t], "dead") /\ UNCHANGED doomed

Spawn(t) ==
  /\ ~doomed
  /\ \E u \in Child : status[u] = "user"
  /\ Move(t, "absent", "user") /\ UNCHANGED doomed

\* A non-lethal denial may still end the process.
Killed ==
  /\ ~lethal /\ doomed' = TRUE
  /\ UNCHANGED <<permitted, lethal, launched, granted, status>>

Next ==
  \/ Launch \/ Killed
  \/ \E t \in Child : Allow(t) \/ Deny(t) \/ Resume(t) \/ Die(t) \/ Spawn(t)

Spec == Init /\ [][Next]_vars

=============================================================================
