-------------------------- MODULE SupervisorProofs --------------------------
(***************************************************************************)
(* Supervision in audit mode, for every number of threads, calls, SIGHUPs  *)
(* and replacements of the binary, every set of builds and every size of   *)
(* the maps: the audit log, then the main policy map under hot reload,     *)
(* what it may hold, that a reload leaves no gap, and which policy the map *)
(* ends with.                                                              *)
(***************************************************************************)
EXTENDS Supervisor, FiniteSetTheorems, TLAPS

\* One time limit for the SMT solver on every leaf.
USE SMTT(30)

Events  == [tid : Threads, nth : Nat]
Records == [event : Events, busy : BOOLEAN]
Places  == {"stopped", "user", "emit", "fill", "signal", "inside", "dead"}

-----------------------------------------------------------------------------
(* The ring buffer.                                                        *)

\* What the records in the ring say: newer than what was reported of their
\* thread, not newer than its last call, and in the order of its calls.
InOrder(r, rep, c, a) ==
  /\ \A k \in DOMAIN r :
       /\ rep[r[k].event.tid] < r[k].event.nth
       /\ r[k].event.nth <= c[r[k].event.tid]
       /\ a[r[k].event.tid] = "emit" => r[k].event.nth < c[r[k].event.tid]
  /\ \A j, k \in DOMAIN r :
       j < k /\ r[j].event.tid = r[k].event.tid => r[j].event.nth < r[k].event.nth

RingInv ==
  /\ ring \in Seq(Records)
  /\ reported \in [Threads -> Nat]
  /\ at \in [Threads -> Places]
  /\ calls \in [Threads -> Nat]
  /\ \A t \in Threads :
       /\ calls[t] <= MaxCalls[t]
       /\ reported[t] <= calls[t]
       /\ at[t] = "emit" => reported[t] < calls[t]
  /\ InOrder(ring, reported, calls, at)

\* A record of the ring carries the number of a thread and of a call.
LEMMA RecordType ==
  ASSUME NEW r \in Seq(Records), NEW k \in DOMAIN r
  PROVE  /\ r[k] \in Records /\ r[k].event \in Events
         /\ r[k].event.tid \in Threads /\ r[k].event.nth \in Nat
<1>1. r[k] \in Records
  OBVIOUS
<1>2. r[k].event \in Events
  BY <1>1, Zenon DEF Records
<1>3. \A e \in Events : e.tid \in Threads /\ e.nth \in Nat
  BY Zenon DEF Events
<1> QED BY <1>1, <1>2, <1>3, Zenon

\* The ring is empty when supervision starts.
LEMMA RingInit == Init => RingInv
<1> SUFFICES ASSUME Init PROVE RingInv
  BY Zenon
<1>1. ring \in Seq(Records) /\ DOMAIN ring = {}
  BY DEF Init
<1>2. /\ reported \in [Threads -> Nat] /\ at \in [Threads -> Places]
      /\ calls \in [Threads -> Nat]
  BY Zenon DEF Init, Places
<1>3. \A t \in Threads :
        /\ calls[t] <= MaxCalls[t] /\ reported[t] <= calls[t]
        /\ at[t] = "emit" => reported[t] < calls[t]
  BY SupervisorAssumption DEF Init
<1> QED BY <1>1, <1>2, <1>3, Zenon DEF RingInv, InOrder

\* A thread's next call gives it a number above all it has in the ring.
LEMMA EnterKeeps ==
  ASSUME NEW t \in Threads, RingInv, Enter(t)
  PROVE  RingInv'
<1>1. /\ at[t] = "user" /\ at' = [at EXCEPT ![t] = "emit"]
      /\ calls[t] < MaxCalls[t] /\ calls' = [calls EXCEPT ![t] = @ + 1]
      /\ ring' = ring /\ reported' = reported
  BY Zenon DEF Enter, Step, reader
<1>2. MaxCalls[t] \in Nat
  BY SupervisorAssumption, Zenon
<1>3. calls' \in [Threads -> Nat] /\ at' \in [Threads -> Places]
  BY <1>1 DEF RingInv, Places
<1>4. ASSUME NEW u \in Threads
      PROVE  /\ calls'[u] <= MaxCalls[u] /\ reported'[u] <= calls'[u]
             /\ at'[u] = "emit" => reported'[u] < calls'[u]
  BY <1>1, <1>2, <1>4 DEF RingInv
<1>5. InOrder(ring', reported', calls', at')
  <2>1. ASSUME NEW k \in DOMAIN ring
        PROVE  /\ reported[ring[k].event.tid] < ring[k].event.nth
               /\ ring[k].event.nth <= calls'[ring[k].event.tid]
               /\ at'[ring[k].event.tid] = "emit"
                    => ring[k].event.nth < calls'[ring[k].event.tid]
    <3>1. ring[k].event.tid \in Threads /\ ring[k].event.nth \in Nat
      BY <2>1, RecordType, Zenon DEF RingInv
    <3>2. /\ reported[ring[k].event.tid] < ring[k].event.nth
          /\ ring[k].event.nth <= calls[ring[k].event.tid]
          /\ at[ring[k].event.tid] = "emit"
               => ring[k].event.nth < calls[ring[k].event.tid]
      BY <2>1, Zenon DEF RingInv, InOrder
    <3> QED BY <1>1, <3>1, <3>2 DEF RingInv
  <2>2. \A j, k \in DOMAIN ring :
          j < k /\ ring[j].event.tid = ring[k].event.tid
            => ring[j].event.nth < ring[k].event.nth
    BY Zenon DEF RingInv, InOrder
  <2> QED BY <1>1, <2>1, <2>2, Zenon DEF InOrder
<1> QED BY <1>1, <1>3, <1>4, <1>5, Zenon DEF RingInv

\* A reservation appends the event of a call that is newer than all of its
\* thread (sentinel.bpf.c:124-131).
LEMMA ReserveKeeps ==
  ASSUME NEW t \in Threads, RingInv, Reserve(t)
  PROVE  RingInv'
<1>1. /\ at[t] = "emit"
      /\ at' = [at EXCEPT ![t] = "fill"] \/ at' = [at EXCEPT ![t] = "signal"]
      /\ calls' = calls /\ reported' = reported
      /\ ring' = ring \/ ring' = Append(ring, [event |-> Event(t), busy |-> TRUE])
  BY Zenon DEF Reserve, Step, reader
<1>2. at' \in [Threads -> Places] /\ \A u \in Threads : at'[u] = "emit" => at[u] = "emit"
  BY Zenon, <1>1 DEF RingInv, Places
<1>3. /\ [event |-> Event(t), busy |-> TRUE] \in Records
      /\ Event(t).tid = t /\ Event(t).nth = calls[t]
  BY Zenon DEF RingInv, Records, Events, Event
<1>4. \A u \in Threads :
        /\ calls'[u] <= MaxCalls[u] /\ reported'[u] <= calls'[u]
        /\ at'[u] = "emit" => reported'[u] < calls'[u]
  BY <1>1, <1>2, Zenon DEF RingInv
<1>5. CASE ring' = ring
  <2>1. InOrder(ring', reported', calls', at')
    BY <1>1, <1>2, <1>5, RecordType, Zenon DEF RingInv, InOrder
  <2> QED BY <1>1, <1>2, <1>4, <1>5, <2>1, Zenon DEF RingInv
<1>6. CASE ring' = Append(ring, [event |-> Event(t), busy |-> TRUE])
  <2>1. /\ ring' \in Seq(Records) /\ Len(ring') = Len(ring) + 1
        /\ \A k \in 1..Len(ring) : ring'[k] = ring[k]
        /\ ring'[Len(ring) + 1] = [event |-> Event(t), busy |-> TRUE]
        /\ Len(ring) \in Nat /\ DOMAIN ring = 1..Len(ring) /\ DOMAIN ring' = 1..Len(ring')
    BY <1>3, <1>6 DEF RingInv
  <2>2. ASSUME NEW k \in DOMAIN ring'
        PROVE  /\ reported'[ring'[k].event.tid] < ring'[k].event.nth
               /\ ring'[k].event.nth <= calls'[ring'[k].event.tid]
               /\ at'[ring'[k].event.tid] = "emit"
                    => ring'[k].event.nth < calls'[ring'[k].event.tid]
    <3>1. CASE k \in DOMAIN ring
      BY <1>1, <1>2, <2>1, <3>1, RecordType DEF RingInv, InOrder
    <3>2. CASE k = Len(ring) + 1
      <4>1. ring'[k].event.tid = t /\ ring'[k].event.nth = calls[t]
        BY <1>3, <2>1, <3>2
      <4>2. at'[t] # "emit" /\ reported[t] < calls[t] /\ calls[t] \in Nat
        BY <1>1, Zenon DEF RingInv
      <4> QED BY <1>1, <4>1, <4>2
    <3> QED BY <2>1, <2>2, <3>1, <3>2
  <2>3. ASSUME NEW j \in DOMAIN ring', NEW k \in DOMAIN ring', j < k,
               ring'[j].event.tid = ring'[k].event.tid
        PROVE  ring'[j].event.nth < ring'[k].event.nth
    <3>1. j \in DOMAIN ring
      BY <2>1, <2>3
    <3>2. CASE k \in DOMAIN ring
      BY <2>1, <2>3, <3>1, <3>2, Zenon DEF RingInv, InOrder
    <3>3. CASE k = Len(ring) + 1
      <4>1. ring'[k].event.tid = t /\ ring'[k].event.nth = calls[t]
        BY <1>3, <2>1, <3>3
      <4>2. ring[j].event.tid = t /\ ring'[j].event.nth = ring[j].event.nth
        BY <2>1, <2>3, <3>1, <4>1, Zenon
      <4>3. ring[j].event.nth < calls[t]
        BY <1>1, <3>1, <4>2, Zenon DEF RingInv, InOrder
      <4> QED BY <4>1, <4>2, <4>3, Zenon
    <3> QED BY <2>1, <2>3, <3>2, <3>3
  <2>4. InOrder(ring', reported', calls', at')
    BY <2>2, <2>3, Zenon DEF InOrder
  <2> QED BY <1>1, <1>2, <1>4, <2>1, <2>4, Zenon DEF RingInv
<1> QED BY <1>1, <1>5, <1>6, Zenon

\* Steps that keep the events in the ring, and start no hook.
LEMMA SameEventsKeep ==
  ASSUME RingInv,
         ring' \in Seq(Records), DOMAIN ring' = DOMAIN ring,
         \A k \in DOMAIN ring : ring'[k].event = ring[k].event,
         reported' = reported, calls' = calls,
         at' \in [Threads -> Places],
         \A u \in Threads : at'[u] = "emit" => at[u] = "emit"
  PROVE  RingInv'
<1>1. InOrder(ring', reported', calls', at')
  <2>1. ASSUME NEW k \in DOMAIN ring
        PROVE  /\ reported[ring[k].event.tid] < ring[k].event.nth
               /\ ring[k].event.nth <= calls[ring[k].event.tid]
               /\ at'[ring[k].event.tid] = "emit"
                    => ring[k].event.nth < calls[ring[k].event.tid]
    BY <2>1, RecordType, Zenon DEF RingInv, InOrder
  <2>2. \A j, k \in DOMAIN ring :
          j < k /\ ring[j].event.tid = ring[k].event.tid
            => ring[j].event.nth < ring[k].event.nth
    BY Zenon DEF RingInv, InOrder
  <2> QED BY <2>1, <2>2, Zenon DEF InOrder
<1> QED BY <1>1, Zenon DEF RingInv

\* bpf_ringbuf_submit, and the rest of a hook.
LEMMA SubmitKeeps ==
  ASSUME NEW t \in Threads, RingInv, Submit(t)
  PROVE  /\ RingInv' /\ DOMAIN ring' = DOMAIN ring
         /\ \A k \in DOMAIN ring : ring'[k].event = ring[k].event
<1>1. /\ at' = [at EXCEPT ![t] = "signal"] /\ calls' = calls /\ reported' = reported
      /\ ring' = [k \in DOMAIN ring |->
                    IF ring[k].event = Event(t) THEN [ring[k] EXCEPT !.busy = FALSE]
                    ELSE ring[k]]
  BY Zenon DEF Submit, Step, reader
<1>2. \A k \in DOMAIN ring : ring'[k] \in Records /\ ring'[k].event = ring[k].event
  <2>1. ASSUME NEW rec \in Records
        PROVE  /\ [rec EXCEPT !.busy = FALSE] \in Records
               /\ [rec EXCEPT !.busy = FALSE].event = rec.event
    BY Zenon, <2>1 DEF Records
  <2> QED BY <1>1, <2>1, RecordType, Zenon DEF RingInv
<1>3. ring' \in Seq(Records) /\ DOMAIN ring' = DOMAIN ring
  <2>1. Len(ring) \in Nat /\ DOMAIN ring = 1..Len(ring)
    BY DEF RingInv
  <2>2. ring' \in [1..Len(ring) -> Records]
    BY <1>1, <1>2, <2>1, Zenon
  <2> QED BY <1>1, <2>1, <2>2
<1>4. at' \in [Threads -> Places] /\ \A u \in Threads : at'[u] = "emit" => at[u] = "emit"
  BY <1>1, Zenon DEF RingInv, Places
<1> QED BY <1>1, <1>2, <1>3, <1>4, SameEventsKeep, Zenon

\* The consumer takes the oldest record; those of the same thread behind it
\* are newer.
LEMMA ConsumeKeeps ==
  ASSUME RingInv, Consume
  PROVE  RingInv'
<1>1. /\ ring # << >> /\ ring' = Tail(ring)
      /\ reported' = [reported EXCEPT ![ring[1].event.tid] = ring[1].event.nth]
      /\ calls' = calls /\ at' = at
  BY Zenon DEF Consume, child
<1>2. /\ ring' \in Seq(Records) /\ Len(ring) \in Nat /\ Len(ring) > 0
      /\ Len(ring') = Len(ring) - 1
      /\ DOMAIN ring = 1..Len(ring) /\ DOMAIN ring' = 1..Len(ring')
      /\ \A k \in 1..Len(ring') : ring'[k] = ring[k + 1]
  BY <1>1 DEF RingInv
<1>3. 1 \in DOMAIN ring
  BY <1>2
<1>4. PICK t \in Threads : t = ring[1].event.tid
  BY <1>3, RecordType, Zenon DEF RingInv
<1>5. PICK n \in Nat : n = ring[1].event.nth
  BY Zenon, <1>3, RecordType DEF RingInv
<1>6. n <= calls[t] /\ (at[t] = "emit" => n < calls[t])
  BY <1>3, <1>4, <1>5, Zenon DEF RingInv, InOrder
<1>7. reported' = [reported EXCEPT ![t] = n] /\ reported' \in [Threads -> Nat]
  BY <1>1, <1>4, <1>5, Zenon DEF RingInv
<1>8. \A u \in Threads :
        /\ calls'[u] <= MaxCalls[u] /\ reported'[u] <= calls'[u]
        /\ at'[u] = "emit" => reported'[u] < calls'[u]
  BY Zenon, <1>1, <1>6, <1>7 DEF RingInv
<1>9. ASSUME NEW k \in DOMAIN ring'
      PROVE  /\ k + 1 \in DOMAIN ring /\ ring'[k] = ring[k + 1]
             /\ reported'[ring'[k].event.tid] < ring'[k].event.nth
  <2>1. k + 1 \in DOMAIN ring /\ 1 < k + 1 /\ ring'[k] = ring[k + 1]
    BY <1>2, <1>9
  <2>2. ring[k + 1].event.tid \in Threads
    BY <2>1, RecordType, Zenon DEF RingInv
  <2>3. reported[ring[k + 1].event.tid] < ring[k + 1].event.nth
    BY <2>1, Zenon DEF RingInv, InOrder
  <2>4. ring[k + 1].event.tid = t => n < ring[k + 1].event.nth
    BY <1>3, <1>4, <1>5, <2>1, Zenon DEF RingInv, InOrder
  <2> QED BY <1>7, <2>1, <2>2, <2>3, <2>4, Zenon DEF RingInv
<1>10. ASSUME NEW k \in DOMAIN ring'
       PROVE  /\ ring'[k].event.nth <= calls[ring'[k].event.tid]
              /\ at[ring'[k].event.tid] = "emit"
                   => ring'[k].event.nth < calls[ring'[k].event.tid]
  BY <1>9, <1>10, Zenon DEF RingInv, InOrder
<1>11. ASSUME NEW j \in DOMAIN ring', NEW k \in DOMAIN ring', j < k,
              ring'[j].event.tid = ring'[k].event.tid
       PROVE  ring'[j].event.nth < ring'[k].event.nth
  <2>1. /\ j + 1 \in DOMAIN ring /\ k + 1 \in DOMAIN ring /\ j + 1 < k + 1
        /\ ring'[j] = ring[j + 1] /\ ring'[k] = ring[k + 1]
    BY <1>2, <1>9, <1>11
  <2> QED BY <1>11, <2>1, Zenon DEF RingInv, InOrder
<1>12. InOrder(ring', reported', calls', at')
  BY <1>1, <1>9, <1>10, <1>11, Zenon DEF InOrder
<1> QED BY <1>1, <1>2, <1>7, <1>8, <1>12, Zenon DEF RingInv

\* Everything else leaves the ring alone.
Still ==
  /\ ring' = ring /\ reported' = reported /\ calls' = calls
  /\ at' \in [Threads -> Places]
  /\ \A u \in Threads : at'[u] = "emit" => at[u] = "emit"

\* Such steps keep the order of the events.
LEMMA StillKeeps == RingInv /\ Still => RingInv'
<1> SUFFICES ASSUME RingInv, Still PROVE RingInv'
  BY Zenon
<1>2. ring' \in Seq(Records) /\ reported' = reported /\ calls' = calls /\ ring' = ring
  BY Zenon DEF RingInv, Still
<1> QED BY <1>2, SameEventsKeep, Zenon DEF Still

\* The kinds of steps, as far as the ring is concerned.
LEMMA RingSteps ==
  ASSUME RingInv, [Next]_vars
  PROVE  \/ Still \/ Consume
         \/ \E t \in Threads : Enter(t) \/ Reserve(t) \/ Submit(t)
<1>1. ASSUME NEW t \in Threads, Signal(t) \/ Return(t) \/ Die(t) \/ Exit(t)
      PROVE  Still
  <2>1. CASE Signal(t)
    BY <2>1, Zenon DEF Signal, Step, Still, Places, reader, RingInv
  <2>2. CASE Return(t)
    BY <2>2, Zenon DEF Return, Step, Still, Places, reader, RingInv
  <2>3. CASE Die(t)
    BY <2>3, Zenon DEF Die, Step, Still, Places, reader, RingInv
  <2>4. CASE Exit(t)
    BY Zenon, <2>4 DEF Exit, Step, Still, Places, reader, RingInv
  <2> QED BY <1>1, <2>1, <2>2, <2>3, <2>4, Zenon
<1>2. CASE Install \/ Top \/ Parse \/ Update \/ Wait \/ PollDone
  BY <1>2, Zenon DEF Install, Top, Parse, Update, Wait, PollDone, child, Still, RingInv
<1>3. CASE Detach
  BY <1>3, Zenon DEF Detach, Still, Places
<1>4. CASE Hangup \/ Edit \/ UNCHANGED vars
  BY <1>4, Zenon DEF Hangup, Edit, vars, child, reader, Still, RingInv
<1> QED BY <1>1, <1>2, <1>3, <1>4, Zenon DEF Next, Main, Hook

\* Every step keeps the order of the events.
LEMMA RingStep == RingInv /\ [Next]_vars => RingInv'
  BY RingSteps, StillKeeps, ConsumeKeeps, EnterKeeps, ReserveKeeps, SubmitKeeps, Zenon

-----------------------------------------------------------------------------
(* Refinement of the audit log.                                            *)

EventsOf(r) == [k \in DOMAIN r |-> r[k].event]

\* The events of a sequence of records.
LEMMA EventsOfSeq ==
  ASSUME NEW r \in Seq(Records)
  PROVE  /\ EventsOf(r) \in Seq(Events) /\ Len(EventsOf(r)) = Len(r)
         /\ DOMAIN EventsOf(r) = DOMAIN r
<1>1. Len(r) \in Nat /\ DOMAIN r = 1..Len(r)
  OBVIOUS
<1>2. EventsOf(r) \in [1..Len(r) -> Events]
  BY <1>1, RecordType, Zenon DEF EventsOf
<1> QED BY <1>1, <1>2 DEF EventsOf

\* A record appended is an event appended.
LEMMA EventsOfAppend ==
  ASSUME NEW r \in Seq(Records), NEW rec \in Records
  PROVE  EventsOf(Append(r, rec)) = Append(EventsOf(r), rec.event)
<1>1. /\ Len(r) \in Nat /\ DOMAIN r = 1..Len(r)
      /\ DOMAIN Append(r, rec) = 1..(Len(r) + 1)
      /\ Append(r, rec) \in Seq(Records)
      /\ \A k \in 1..Len(r) : Append(r, rec)[k] = r[k]
      /\ Append(r, rec)[Len(r) + 1] = rec
  OBVIOUS
<1>2. EventsOf(r) \in Seq(Events) /\ Len(EventsOf(r)) = Len(r) /\ rec.event \in Events
  BY Zenon, EventsOfSeq DEF Records
<1>3. /\ DOMAIN Append(EventsOf(r), rec.event) = 1..(Len(r) + 1)
      /\ Append(EventsOf(r), rec.event) \in Seq(Events)
      /\ \A k \in 1..Len(r) : Append(EventsOf(r), rec.event)[k] = EventsOf(r)[k]
      /\ Append(EventsOf(r), rec.event)[Len(r) + 1] = rec.event
  BY <1>1, <1>2
<1>4. \A k \in 1..(Len(r) + 1) :
        EventsOf(Append(r, rec))[k] = Append(EventsOf(r), rec.event)[k]
  BY <1>1, <1>3 DEF EventsOf
<1>5. EventsOf(Append(r, rec)) \in Seq(Events) /\ DOMAIN EventsOf(Append(r, rec)) = 1..(Len(r) + 1)
  BY Zenon, <1>1, EventsOfSeq
<1> QED BY <1>1, <1>3, <1>4, <1>5

\* The oldest record has the oldest event.
LEMMA EventsOfTail ==
  ASSUME NEW r \in Seq(Records), r # << >>
  PROVE  /\ EventsOf(r) # << >> /\ Head(EventsOf(r)) = r[1].event
         /\ EventsOf(Tail(r)) = Tail(EventsOf(r))
<1>1. /\ Len(r) \in Nat /\ Len(r) > 0 /\ DOMAIN r = 1..Len(r)
      /\ Tail(r) \in Seq(Records) /\ DOMAIN Tail(r) = 1..(Len(r) - 1)
      /\ \A k \in 1..(Len(r) - 1) : Tail(r)[k] = r[k + 1]
  OBVIOUS
<1>2. /\ EventsOf(r) \in Seq(Events) /\ Len(EventsOf(r)) = Len(r)
      /\ EventsOf(r)[1] = r[1].event
  BY <1>1, EventsOfSeq DEF EventsOf
<1>3. EventsOf(r) # << >> /\ Head(EventsOf(r)) = r[1].event
  BY <1>1, <1>2
<1>4. /\ Tail(EventsOf(r)) \in Seq(Events) /\ DOMAIN Tail(EventsOf(r)) = 1..(Len(r) - 1)
      /\ \A k \in 1..(Len(r) - 1) : Tail(EventsOf(r))[k] = EventsOf(r)[k + 1]
  BY <1>1, <1>2, <1>3
<1>5. \A k \in 1..(Len(r) - 1) : EventsOf(Tail(r))[k] = Tail(EventsOf(r))[k]
  <2>1. \A k \in 1..(Len(r) - 1) : k + 1 \in DOMAIN r
    BY <1>1
  <2> QED BY <1>1, <1>4, <2>1, Zenon DEF EventsOf
<1>6. EventsOf(Tail(r)) \in Seq(Events) /\ DOMAIN EventsOf(Tail(r)) = 1..(Len(r) - 1)
  BY Zenon, <1>1, EventsOfSeq
<1> QED BY <1>1, <1>3, <1>4, <1>5, <1>6

\* The audit log starts empty.
LEMMA AuditInit == Init => Audit!Init
<1> SUFFICES ASSUME Init PROVE Audit!Init
  BY Zenon
<1>1. ring = << >> /\ reported = [t \in Threads |-> 0]
  BY Zenon DEF Init
<1>2. [k \in DOMAIN ring |-> ring[k].event] = << >>
  BY <1>1
<1> QED BY <1>1, <1>2, Zenon DEF Audit!Init

\* A reservation accepts an event.
LEMMA ReserveAccepts ==
  ASSUME NEW t \in Threads, RingInv, Reserve(t)
  PROVE  Audit!Next \/ UNCHANGED Audit!vars
<1>1. /\ at[t] = "emit" /\ reported' = reported
      /\ \/ ring' = ring
         \/ Len(ring) < RingCap /\ ring' = Append(ring, [event |-> Event(t), busy |-> TRUE])
  BY Zenon DEF Reserve, Step, reader
<1>2. CASE ring' = ring
  BY <1>1, <1>2, Zenon DEF Audit!vars
<1>3. CASE Len(ring) < RingCap /\ ring' = Append(ring, [event |-> Event(t), busy |-> TRUE])
  <2>1. PICK n : n = calls[t]
    BY Zenon
  <2>2. n \in Nat /\ reported[t] < n /\ n <= MaxCalls[t] /\ reported[t] \in Nat
    BY <1>1, <2>1, Zenon DEF RingInv
  <2>3. n \in UNION {1..MaxCalls[u] : u \in Threads}
    <3>1. n \in 1..MaxCalls[t]
      BY <2>2, SupervisorAssumption
    <3> QED BY <3>1, Zenon
  <2>4. [event |-> Event(t), busy |-> TRUE] \in Records /\ Event(t) = [tid |-> t, nth |-> n]
    BY <2>1, <2>2, Zenon DEF Records, Events, Event
  <2>5. EventsOf(ring') = Append(EventsOf(ring), [tid |-> t, nth |-> n])
    BY Zenon, <1>3, <2>4, EventsOfAppend DEF RingInv
  <2>6. Len(EventsOf(ring)) < RingCap
    BY <1>3, EventsOfSeq, Zenon DEF RingInv
  <2>7. \A k \in DOMAIN EventsOf(ring) : EventsOf(ring)[k].tid = t => EventsOf(ring)[k].nth < n
    BY <1>1, <2>1, Zenon DEF RingInv, InOrder, EventsOf
  <2>8. Audit!Accept(t, n)
    BY Zenon, <1>1, <2>2, <2>5, <2>6, <2>7 DEF Audit!Accept, EventsOf
  <2> QED BY <2>3, <2>8, Zenon DEF Audit!Next
<1> QED BY <1>1, <1>2, <1>3, Zenon

\* Handing a record to audit_event_handler reports its event.
LEMMA ConsumeReports ==
  ASSUME RingInv, Consume
  PROVE  Audit!Next
<1>1. /\ ring # << >> /\ ring' = Tail(ring)
      /\ reported' = [reported EXCEPT ![ring[1].event.tid] = ring[1].event.nth]
  BY Zenon DEF Consume
<1>2. /\ EventsOf(ring) # << >> /\ Head(EventsOf(ring)) = ring[1].event
      /\ EventsOf(ring') = Tail(EventsOf(ring))
  BY <1>1, EventsOfTail, Zenon DEF RingInv
<1>3. 1 \in DOMAIN ring
  BY <1>1 DEF RingInv
<1>4. reported[ring[1].event.tid] < ring[1].event.nth
  BY <1>3, Zenon DEF RingInv, InOrder
<1>5. Audit!Report
  BY Zenon, <1>1, <1>2, <1>4 DEF Audit!Report, EventsOf
<1> QED BY <1>5, Zenon DEF Audit!Next

\* No other step is visible in the log: a submission changes no event.
LEMMA AuditStep == RingInv /\ [Next]_vars => [Audit!Next]_(Audit!vars)
<1> SUFFICES ASSUME RingInv, [Next]_vars PROVE Audit!Next \/ UNCHANGED Audit!vars
  BY Zenon
<1>1. CASE Still
  BY <1>1, Zenon DEF Still, Audit!vars
<1>2. CASE Consume
  BY <1>2, ConsumeReports, Zenon
<1>3. ASSUME NEW t \in Threads, Enter(t) PROVE UNCHANGED Audit!vars
  BY <1>3, Zenon DEF Enter, reader, Audit!vars
<1>4. ASSUME NEW t \in Threads, Reserve(t) PROVE Audit!Next \/ UNCHANGED Audit!vars
  BY <1>4, ReserveAccepts, Zenon
<1>5. ASSUME NEW t \in Threads, Submit(t) PROVE UNCHANGED Audit!vars
  <2>1. /\ DOMAIN ring' = DOMAIN ring /\ reported' = reported
        /\ \A k \in DOMAIN ring : ring'[k].event = ring[k].event
    BY <1>5, SubmitKeeps, Zenon DEF Submit, reader
  <2> QED BY <2>1, Zenon DEF Audit!vars
<1> QED BY <1>1, <1>2, <1>3, <1>4, <1>5, RingSteps, Zenon

\* The ring buffer, its producers and its consumer implement the audit log, for
\* every capacity and number of threads (sentinel.bpf.c:124-140,
\* loader.c:1943).  It rests on RingInv: the events of a thread are in the
\* order of its calls and newer than what was reported of it.
THEOREM AuditRefinement == Spec => AuditSpec
<1>1. Spec => []RingInv
  BY RingInit, RingStep, PTL DEF Spec
<1> QED BY <1>1, AuditInit, AuditStep, PTL DEF Spec, AuditSpec, Audit!Spec

-----------------------------------------------------------------------------
(* What is left in the ring.                                               *)

\* Once a poll has ended, the oldest record is one it could not take.
SettledInv ==
  /\ loop = "poll" => settled = {}
  /\ ring = << >> => settled = {}
  /\ ring # << >> => ring[1].event \notin settled

\* It is kept by every step: a poll stops only at a record that is not
\* submitted, and two records never carry the same event.
LEMMA SettledStep == RingInv /\ SettledInv /\ [Next]_vars => SettledInv'
<1> SUFFICES ASSUME RingInv, SettledInv, [Next]_vars PROVE SettledInv'
  BY Zenon
<1>1. ASSUME NEW t \in Threads, Reserve(t) PROVE SettledInv'
  <2>1. /\ loop' = loop /\ settled' = settled
        /\ ring' = ring \/ ring' = Append(ring, [event |-> Event(t), busy |-> TRUE])
    BY <1>1, Zenon DEF Reserve, reader
  <2>2. CASE ring' = ring
    BY <2>1, <2>2, Zenon DEF SettledInv
  <2>3. CASE ring' = Append(ring, [event |-> Event(t), busy |-> TRUE])
    <3>1. ring' # << >> /\ (ring # << >> => ring'[1] = ring[1])
      BY <2>3 DEF RingInv
    <3> QED BY <2>1, <3>1, Zenon DEF SettledInv
  <2> QED BY <2>1, <2>2, <2>3, Zenon
<1>2. ASSUME NEW t \in Threads, Submit(t) PROVE SettledInv'
  <2>1. /\ loop' = loop /\ settled' = settled /\ DOMAIN ring' = DOMAIN ring
        /\ \A k \in DOMAIN ring : ring'[k].event = ring[k].event
        /\ ring \in Seq(Records) /\ ring' \in Seq(Records)
    BY Zenon, <1>2, SubmitKeeps DEF Submit, reader, RingInv
  <2>2. (ring' = << >>) = (ring = << >>)
    BY <2>1
  <2>3. ring # << >> => 1 \in DOMAIN ring
    BY <2>1
  <2> QED BY <2>1, <2>2, <2>3, Zenon DEF SettledInv
<1>3. CASE PollDone
  <2>1. /\ loop' = "top" /\ ring' = ring /\ settled' = SubmittedNow
        /\ ring # << >> => ring[1].busy
    BY <1>3, Zenon DEF PollDone
  <2>2. ring = << >> => SubmittedNow = {}
    BY DEF SubmittedNow
  <2>3. ASSUME ring # << >>, ring[1].event \in SubmittedNow PROVE FALSE
    <3>1. PICK k \in DOMAIN ring : ~ring[k].busy /\ ring[k].event = ring[1].event
      BY <2>3, Zenon DEF SubmittedNow
    <3>2. 1 \in DOMAIN ring /\ k \in Nat /\ 1 <= k
      BY <2>3 DEF RingInv
    <3>3. k # 1
      BY <2>1, <2>3, <3>1, Zenon
    <3>4. 1 < k /\ ring[1].event.tid = ring[k].event.tid
      BY <3>1, <3>2, <3>3
    <3>5. ring[1].event.nth < ring[k].event.nth
      BY <3>2, <3>4, Zenon DEF RingInv, InOrder
    <3>6. ring[1].event.nth \in Nat
      BY <3>2, RecordType, Zenon DEF RingInv
    <3> QED BY <3>1, <3>5, <3>6
  <2> QED BY <2>1, <2>2, <2>3, Zenon DEF SettledInv
<1>4. CASE Consume
  BY <1>4, Zenon DEF Consume, SettledInv
<1>5. CASE \/ Install \/ Detach \/ Top \/ Parse \/ Update \/ Wait
           \/ Hangup \/ Edit \/ UNCHANGED vars
  BY <1>5, Zenon DEF Install, Detach, Top, Parse, Update, Wait, Hangup, Edit, vars, reader, SettledInv
<1>6. ASSUME NEW t \in Threads, Enter(t) \/ Signal(t) \/ Return(t) \/ Die(t) \/ Exit(t)
      PROVE  SettledInv'
  BY Zenon, <1>6 DEF Enter, Signal, Return, Die, Exit, reader, SettledInv
<1> QED BY <1>1, <1>2, <1>3, <1>4, <1>5, <1>6, Zenon DEF Next, Main, Hook

\* An event is left behind only by a hook that was still at work when the last
\* poll ended (loader.c:1931-1943).
THEOREM LeftoverRecent == Spec => []LeftoverIsRecent
<1>1. Init => SettledInv
  BY Zenon DEF Init, SettledInv
<1>2. SettledInv => LeftoverIsRecent
  BY Zenon DEF SettledInv, LeftoverIsRecent
<1> QED BY RingInit, RingStep, SettledStep, <1>1, <1>2, PTL DEF Spec

-----------------------------------------------------------------------------
(* The record a thread fills in.                                           *)

\* A record that is not submitted belongs to the current call of a thread that
\* is filling it in, and such a thread has one.
FillInv ==
  /\ loop = "install" => \A t \in Threads : at[t] = "stopped"
  /\ Len(ring) <= RingCap
  /\ \A k \in DOMAIN ring : ring[k].busy =>
       /\ at[ring[k].event.tid] = "fill"
       /\ ring[k].event.nth = calls[ring[k].event.tid]
  /\ \A t \in Threads :
       at[t] = "fill" => \E k \in DOMAIN ring : ring[k].busy /\ ring[k].event.tid = t

\* A record with a thread's identity and the number of its last call is that of
\* its current call.
LEMMA EventIs ==
  ASSUME NEW r \in Records, r.event.nth = calls[r.event.tid]
  PROVE  r.event = Event(r.event.tid)
<1>1. r.event \in Events
  BY Zenon DEF Records
<1>2. \A e \in Events : e = [tid |-> e.tid, nth |-> e.nth]
  BY DEF Events
<1> QED BY <1>1, <1>2, Zenon DEF Event

\* No thread runs and the ring is empty when supervision starts.
LEMMA FillInit == Init => FillInv
<1> SUFFICES ASSUME Init PROVE FillInv
  BY Zenon
<1>1. ring = << >> /\ \A t \in Threads : at[t] = "stopped"
  BY Zenon DEF Init
<1>2. DOMAIN ring = {} /\ Len(ring) = 0
  BY <1>1
<1> QED BY <1>1, <1>2, SupervisorAssumption DEF FillInv

\* Steps that start or end no filling in.
LEMMA FillSame ==
  ASSUME RingInv, FillInv, ring' = ring, calls' = calls,
         \A u \in Threads : (at'[u] = "fill") = (at[u] = "fill"),
         loop' = "install" => loop = "install" /\ at' = at
  PROVE  FillInv'
<1>2. \A k \in DOMAIN ring : ring[k].event.tid \in Threads
  BY RecordType, Zenon DEF RingInv
<1>3. ASSUME NEW k \in DOMAIN ring', ring'[k].busy
      PROVE  at'[ring'[k].event.tid] = "fill" /\ ring'[k].event.nth = calls'[ring'[k].event.tid]
  BY <1>2, <1>3, Zenon DEF FillInv
<1>4. ASSUME NEW t \in Threads, at'[t] = "fill"
      PROVE  \E k \in DOMAIN ring' : ring'[k].busy /\ ring'[k].event.tid = t
  BY <1>4, Zenon DEF FillInv
<1>5. loop' = "install" => \A t \in Threads : at'[t] = "stopped"
  BY Zenon DEF FillInv
<1>6. Len(ring') <= RingCap
  BY Zenon DEF FillInv
<1> QED BY <1>3, <1>4, <1>5, <1>6, Zenon DEF FillInv

\* A thread that enters a call has nothing left to fill in.
LEMMA FillEnter ==
  ASSUME NEW t \in Threads, RingInv, FillInv, Enter(t)
  PROVE  FillInv'
<1>1. /\ at[t] = "user" /\ at' = [at EXCEPT ![t] = "emit"]
      /\ calls' = [calls EXCEPT ![t] = @ + 1] /\ ring' = ring /\ loop' = loop
  BY Zenon DEF Enter, Step, reader
<1>2. \A u \in Threads : u # t => calls'[u] = calls[u] /\ at'[u] = at[u]
  BY <1>1, Zenon DEF RingInv
<1>3. \A k \in DOMAIN ring : ring[k].event.tid \in Threads
  BY RecordType, Zenon DEF RingInv
<1>4. at'[t] = "emit" /\ loop # "install"
  BY <1>1, Zenon DEF FillInv, RingInv
<1>5. ASSUME NEW k \in DOMAIN ring, ring[k].busy
      PROVE  at'[ring[k].event.tid] = "fill" /\ ring[k].event.nth = calls'[ring[k].event.tid]
  <2>1. at[ring[k].event.tid] = "fill" /\ ring[k].event.nth = calls[ring[k].event.tid]
    BY <1>5, Zenon DEF FillInv
  <2>2. ring[k].event.tid # t
    BY <1>1, <2>1, Zenon
  <2> QED BY <1>2, <1>3, <1>5, <2>1, <2>2, Zenon
<1>6. ASSUME NEW u \in Threads, at'[u] = "fill"
      PROVE  \E k \in DOMAIN ring : ring[k].busy /\ ring[k].event.tid = u
  <2>1. u # t
    BY <1>4, <1>6, Zenon
  <2> QED BY <1>2, <1>6, <2>1, Zenon DEF FillInv
<1>7. Len(ring) <= RingCap
  BY Zenon DEF FillInv
<1> QED BY <1>1, <1>4, <1>5, <1>6, <1>7 DEF FillInv

\* A reservation gives the thread its record (sentinel.bpf.c:124-131).
LEMMA FillReserve ==
  ASSUME NEW t \in Threads, RingInv, FillInv, Reserve(t)
  PROVE  FillInv'
<1>1. at[t] = "emit" /\ calls' = calls /\ loop' = loop /\ loop # "install"
  BY Zenon DEF Reserve, Step, reader, FillInv
<1>2. CASE Len(ring) >= RingCap /\ at' = [at EXCEPT ![t] = "signal"] /\ ring' = ring
  <2>1. \A u \in Threads : (at'[u] = "fill") = (at[u] = "fill")
    BY <1>1, <1>2, Zenon DEF RingInv
  <2> QED BY <1>1, <1>2, <2>1, FillSame, Zenon
<1>3. CASE /\ Len(ring) < RingCap /\ at' = [at EXCEPT ![t] = "fill"]
           /\ ring' = Append(ring, [event |-> Event(t), busy |-> TRUE])
  <2>1. /\ [event |-> Event(t), busy |-> TRUE] \in Records
        /\ Event(t).tid = t /\ Event(t).nth = calls[t]
        /\ [event |-> Event(t), busy |-> TRUE].event = Event(t)
    BY Zenon DEF RingInv, Records, Events, Event
  <2>2. /\ Len(ring') = Len(ring) + 1 /\ Len(ring) \in Nat
        /\ DOMAIN ring' = 1..(Len(ring) + 1) /\ DOMAIN ring = 1..Len(ring)
        /\ \A k \in DOMAIN ring : ring'[k] = ring[k]
        /\ ring'[Len(ring) + 1].event = Event(t) /\ ring'[Len(ring) + 1].busy
    BY <1>3, <2>1 DEF RingInv
  <2>4. \A k \in DOMAIN ring : ring[k].event.tid \in Threads
    BY RecordType, Zenon DEF RingInv
  <2>5. at'[t] = "fill" /\ \A u \in Threads : u # t => at'[u] = at[u]
    BY <1>3, Zenon DEF RingInv
  <2>6. ASSUME NEW k \in DOMAIN ring', ring'[k].busy
        PROVE  at'[ring'[k].event.tid] = "fill" /\ ring'[k].event.nth = calls'[ring'[k].event.tid]
    <3>1. CASE k \in DOMAIN ring
      <4>1. at[ring[k].event.tid] = "fill" /\ ring[k].event.nth = calls[ring[k].event.tid]
        BY <2>2, <2>6, <3>1, Zenon DEF FillInv
      <4> QED BY <1>1, <2>2, <2>4, <2>5, <3>1, <4>1, Zenon
    <3>2. CASE k = Len(ring) + 1
      BY <1>1, <2>1, <2>2, <2>5, <3>2, Zenon
    <3> QED BY <2>2, <2>6, <3>1, <3>2
  <2>7. ASSUME NEW u \in Threads, at'[u] = "fill"
        PROVE  \E k \in DOMAIN ring' : ring'[k].busy /\ ring'[k].event.tid = u
    <3>1. CASE u = t
      BY <2>1, <2>2, <3>1
    <3>2. CASE u # t
      <4>1. PICK k \in DOMAIN ring : ring[k].busy /\ ring[k].event.tid = u
        BY <2>5, <2>7, <3>2, Zenon DEF FillInv
      <4>2. k \in DOMAIN ring' /\ ring'[k] = ring[k]
        BY <2>2
      <4> QED BY <4>1, <4>2, Zenon
    <3> QED BY <3>1, <3>2, Zenon
  <2>8. Len(ring') <= RingCap
    BY <1>3, <2>2, SupervisorAssumption
  <2> QED BY <1>1, <2>6, <2>7, <2>8, Zenon DEF FillInv
<1> QED BY <1>2, <1>3, Zenon DEF Reserve, Step

\* A submission ends the filling in of the thread's record and of no other
\* (sentinel.bpf.c:133-140).
LEMMA FillSubmit ==
  ASSUME NEW t \in Threads, RingInv, FillInv, Submit(t)
  PROVE  FillInv'
<1>1. /\ at[t] = "fill" /\ at' = [at EXCEPT ![t] = "signal"] /\ calls' = calls /\ loop' = loop
      /\ ring' = [k \in DOMAIN ring |->
                    IF ring[k].event = Event(t) THEN [ring[k] EXCEPT !.busy = FALSE] ELSE ring[k]]
  BY Zenon DEF Submit, Step, reader
<1>2. \A k \in DOMAIN ring : ring[k] \in Records /\ ring[k].event.tid \in Threads
  BY RecordType, Zenon DEF RingInv
<1>3. DOMAIN ring' = DOMAIN ring
  BY <1>1, Zenon
<1>4. ASSUME NEW k \in DOMAIN ring, ring[k].event = Event(t)
      PROVE  ~ring'[k].busy
  BY <1>1, <1>2, <1>4, Zenon DEF Records
<1>5. ASSUME NEW k \in DOMAIN ring, ring[k].event # Event(t)
      PROVE  ring'[k] = ring[k]
  BY <1>1, <1>5, Zenon
<1>6. Event(t).tid = t /\ Event(t).nth = calls[t]
  BY Zenon DEF Event
<1>7. at'[t] = "signal" /\ \A u \in Threads : u # t => at'[u] = at[u]
  BY <1>1, Zenon DEF RingInv
<1>8. ASSUME NEW k \in DOMAIN ring', ring'[k].busy
      PROVE  at'[ring'[k].event.tid] = "fill" /\ ring'[k].event.nth = calls'[ring'[k].event.tid]
  <2>1. ring[k].event # Event(t) /\ ring'[k] = ring[k]
    BY <1>3, <1>4, <1>5, <1>8, Zenon
  <2>2. at[ring[k].event.tid] = "fill" /\ ring[k].event.nth = calls[ring[k].event.tid]
    BY <1>3, <1>8, <2>1, Zenon DEF FillInv
  <2>3. ring[k].event.tid # t
    BY <1>2, <1>3, <1>8, <2>1, <2>2, EventIs, Zenon
  <2> QED BY <1>1, <1>2, <1>3, <1>7, <2>1, <2>2, <2>3, Zenon
<1>9. ASSUME NEW u \in Threads, at'[u] = "fill"
      PROVE  \E k \in DOMAIN ring' : ring'[k].busy /\ ring'[k].event.tid = u
  <2>1. u # t /\ at[u] = "fill"
    BY <1>7, <1>9, Zenon
  <2>2. PICK k \in DOMAIN ring : ring[k].busy /\ ring[k].event.tid = u
    BY <2>1, Zenon DEF FillInv
  <2>3. ring[k].event # Event(t)
    BY <1>6, <2>1, <2>2, Zenon
  <2> QED BY <1>3, <1>5, <2>2, <2>3, Zenon
<1>10. Len(ring') <= RingCap
  <2>1. Len(ring') = Len(ring)
    BY <1>3, SubmitKeeps DEF RingInv
  <2> QED BY <2>1, Zenon DEF FillInv
<1>11. loop # "install"
  BY <1>1, Zenon DEF FillInv
<1> QED BY <1>1, <1>8, <1>9, <1>10, <1>11, Zenon DEF FillInv

\* A poll takes submitted records only (loader.c:1943).
LEMMA FillConsume ==
  ASSUME RingInv, FillInv, Consume
  PROVE  FillInv'
<1>1. /\ ring # << >> /\ ~ring[1].busy /\ ring' = Tail(ring)
      /\ at' = at /\ calls' = calls /\ loop' = loop /\ loop = "poll"
  BY Zenon DEF Consume, child
<1>2. /\ Len(ring) \in Nat /\ Len(ring) > 0 /\ Len(ring') = Len(ring) - 1
      /\ DOMAIN ring = 1..Len(ring) /\ DOMAIN ring' = 1..Len(ring')
      /\ \A k \in 1..Len(ring') : ring'[k] = ring[k + 1]
  BY <1>1 DEF RingInv
<1>4. \A k \in DOMAIN ring : ring[k].event.tid \in Threads
  BY RecordType, Zenon DEF RingInv
<1>5. ASSUME NEW k \in DOMAIN ring', ring'[k].busy
      PROVE  at'[ring'[k].event.tid] = "fill" /\ ring'[k].event.nth = calls'[ring'[k].event.tid]
  <2>1. k + 1 \in DOMAIN ring /\ ring'[k] = ring[k + 1]
    BY <1>2, <1>5
  <2>2. /\ at[ring[k + 1].event.tid] = "fill"
        /\ ring[k + 1].event.nth = calls[ring[k + 1].event.tid]
    BY <1>5, <2>1, Zenon DEF FillInv
  <2> QED BY <1>1, <1>4, <2>1, <2>2, Zenon
<1>6. ASSUME NEW u \in Threads, at'[u] = "fill"
      PROVE  \E k \in DOMAIN ring' : ring'[k].busy /\ ring'[k].event.tid = u
  <2>1. PICK k \in DOMAIN ring : ring[k].busy /\ ring[k].event.tid = u
    BY <1>1, <1>6, Zenon DEF FillInv
  <2>2. k # 1
    BY <1>1, <2>1, Zenon
  <2>3. k - 1 \in DOMAIN ring' /\ ring'[k - 1] = ring[k]
    BY <1>2, <2>1, <2>2
  <2> QED BY <2>1, <2>3, Zenon
<1>7. Len(ring') <= RingCap
  BY <1>2, SupervisorAssumption DEF FillInv
<1> QED BY <1>1, <1>5, <1>6, <1>7, Zenon DEF FillInv

\* Every step keeps it.
LEMMA FillStep == RingInv /\ FillInv /\ [Next]_vars => FillInv'
<1> SUFFICES ASSUME RingInv, FillInv, [Next]_vars PROVE FillInv'
  BY Zenon
<1>1. ASSUME NEW t \in Threads, Signal(t) \/ Return(t) \/ Die(t) \/ Exit(t)
      PROVE  FillInv'
  <2>1. /\ ring' = ring /\ calls' = calls /\ loop' = loop
        /\ at[t] \in {"signal", "inside", "user"}
        /\ \/ at' = at
           \/ \E p \in {"inside", "dead", "user"} : at' = [at EXCEPT ![t] = p]
    BY Zenon, <1>1 DEF Signal, Return, Die, Exit, Step, reader
  <2>2. \A u \in Threads : (at'[u] = "fill") = (at[u] = "fill")
    BY <2>1, Zenon DEF RingInv
  <2>3. loop # "install"
    BY <2>1, Zenon DEF FillInv
  <2> QED BY <2>1, <2>2, <2>3, FillSame, Zenon
<1>2. CASE Install \/ Top \/ Parse \/ Update \/ Wait \/ PollDone \/ Hangup \/ Edit \/ UNCHANGED vars
  <2>1. ring' = ring /\ calls' = calls /\ at' = at /\ (loop' = "install" => loop = "install")
    BY <1>2, Zenon DEF Install, Top, Parse, Update, Wait, PollDone, Hangup, Edit, vars, child, reader
  <2> QED BY <2>1, FillSame, Zenon
<1>3. CASE Detach
  <2>1. /\ ring' = ring /\ calls' = calls /\ loop = "install" /\ loop' = "top"
        /\ at' = [t \in Threads |-> "user"]
    BY <1>3, Zenon DEF Detach
  <2>2. \A u \in Threads : at'[u] = "user" /\ at[u] = "stopped"
    BY <2>1, Zenon DEF FillInv
  <2>3. \A u \in Threads : (at'[u] = "fill") = (at[u] = "fill")
    BY <2>2, Zenon
  <2> QED BY <2>1, <2>3, FillSame, Zenon
<1> QED BY <1>1, <1>2, <1>3, FillEnter, FillReserve, FillSubmit, FillConsume, Zenon DEF Next, Main, Hook

-----------------------------------------------------------------------------
(* One update of the map.                                                  *)

Full(m) == Cardinality(DOMAIN m) = MapCap

\* bpf_map_update_elem sets the rule of its offset, touches no other, and only
\* leaves an offset out when the map is full.
LEMMA PutRule ==
  ASSUME NEW m, NEW e
  PROVE  /\ \A o \in DOMAIN m : o \in DOMAIN Put(m, e)
         /\ \A o \in DOMAIN Put(m, e) :
              IF o = e.site THEN Put(m, e)[o] = Rule(e)
              ELSE o \in DOMAIN m /\ Put(m, e)[o] = m[o]
  BY Zenon DEF Put

\* The map stays within its size, and a full map stays full.
LEMMA PutSize ==
  ASSUME NEW m, NEW e, IsFiniteSet(DOMAIN m), Cardinality(DOMAIN m) <= MapCap
  PROVE  /\ IsFiniteSet(DOMAIN Put(m, e))
         /\ Cardinality(DOMAIN Put(m, e)) <= MapCap
         /\ Cardinality(DOMAIN Put(m, e)) <= Cardinality(DOMAIN m) + 1
         /\ e.site \in DOMAIN Put(m, e) \/ Full(Put(m, e))
         /\ Full(m) => Full(Put(m, e))
<1>1. Cardinality(DOMAIN m) \in Nat /\ MapCap \in Nat
  BY FS_CardinalityType, SupervisorAssumption, Zenon
<1>2. CASE e.site \notin DOMAIN m /\ Cardinality(DOMAIN m) >= MapCap
  <2>1. Put(m, e) = m
    BY <1>2, Zenon DEF Put
  <2> QED BY <1>1, <1>2, <2>1 DEF Full
<1>3. CASE e.site \in DOMAIN m
  <2>1. DOMAIN Put(m, e) = DOMAIN m
    BY <1>3, Zenon DEF Put
  <2> QED BY <1>1, <1>3, <2>1 DEF Full
<1>4. CASE e.site \notin DOMAIN m /\ ~(Cardinality(DOMAIN m) >= MapCap)
  <2>1. DOMAIN Put(m, e) = DOMAIN m \cup {e.site}
    BY <1>4, Zenon DEF Put
  <2>2. /\ IsFiniteSet(DOMAIN m \cup {e.site})
        /\ Cardinality(DOMAIN m \cup {e.site}) = Cardinality(DOMAIN m) + 1
    BY <1>4, FS_AddElement, Zenon
  <2>3. e.site \in DOMAIN Put(m, e)
    BY <2>1, Zenon
  <2> QED BY <1>1, <1>4, <2>1, <2>2, <2>3 DEF Full
<1> QED BY <1>2, <1>3, <1>4, Zenon

\* A build's sites are those of its entries.
LEMMA SitesOf ==
  ASSUME NEW b \in DOMAIN Builds
  PROVE  /\ Builds[b] \in Seq(Entry) /\ Len(Builds[b]) <= MapCap
         /\ \A o : o \in Sites[b] <=> \E k \in DOMAIN Builds[b] : Builds[b][k].site = o
<1>1. Builds[b] \in Seq(Entry) /\ Len(Builds[b]) <= MapCap
  BY SupervisorAssumption, Zenon
<1>2. Sites[b] = {Builds[b][k].site : k \in DOMAIN Builds[b]}
  BY Zenon DEF Sites
<1> QED BY <1>1, <1>2, Zenon

-----------------------------------------------------------------------------
(* Steps, as far as the map is concerned.                                  *)

state == <<loop, reload, entries, next, policy, disk, readings, fresh>>

\* waitpid and the poll move the loop on.
MoveOn ==
  /\ loop \in {"wait", "poll"} /\ loop' \in {"poll", "over", "top"}
  /\ UNCHANGED <<reload, entries, next, policy, disk, readings, fresh>>

\* The kinds of steps.
LEMMA ReloadSteps ==
  ASSUME [Next]_vars
  PROVE  \/ Install \/ Detach \/ Top \/ Parse \/ Update \/ Hangup \/ Edit
         \/ MoveOn \/ UNCHANGED state
<1>1. ASSUME NEW t \in Threads, Enter(t) \/ Hook(t) \/ Return(t) \/ Die(t) \/ Exit(t)
      PROVE  UNCHANGED state
  BY Zenon, <1>1 DEF Enter, Hook, Reserve, Submit, Signal, Return, Die, Exit, reader, user, state
<1>2. CASE Wait \/ PollDone
  BY <1>2, Zenon DEF Wait, PollDone, user, MoveOn
<1>3. CASE Consume \/ UNCHANGED vars
  BY <1>3, Zenon DEF Consume, vars, user, reader, state
<1> QED BY <1>1, <1>2, <1>3, Zenon DEF Next, Main

-----------------------------------------------------------------------------
(* Types, and what of the entries at hand is in the map.                   *)

Installing == {"install", "update"}

LoadInv ==
  /\ disk \in DOMAIN Builds
  /\ readings \in Seq(DOMAIN Builds) /\ readings # << >>
  /\ entries \in Seq(Entry) /\ next \in Nat
  /\ IsFiniteSet(DOMAIN policy) /\ Cardinality(DOMAIN policy) <= MapCap
  /\ loop \in Installing =>
       /\ entries = Builds[readings[Len(readings)]] /\ next <= Len(entries)
       /\ \A k \in 1..next : entries[k].site \in DOMAIN policy \/ Full(policy)
  /\ loop = "install" =>
       /\ entries # << >> /\ Cardinality(DOMAIN policy) <= next
       /\ \A k \in 1..next : entries[k].site \in DOMAIN policy

\* The map is empty when installation begins.
LEMMA LoadInit == Init => LoadInv
<1> SUFFICES ASSUME Init PROVE LoadInv
  BY Zenon
<1>1. /\ disk = Launched /\ readings = <<Launched>> /\ loop = "install"
      /\ entries = Builds[Launched] /\ next = 0 /\ policy = << >>
  BY Zenon DEF Init
<1>2. DOMAIN policy = {}
  BY <1>1
<1>3. IsFiniteSet({}) /\ Cardinality({}) = 0
  BY FS_EmptySet, Zenon
<1>4. readings \in Seq(DOMAIN Builds) /\ readings # << >> /\ readings[Len(readings)] = Launched
  BY <1>1, SupervisorAssumption
<1>5. entries \in Seq(Entry) /\ entries # << >> /\ Len(entries) \in Nat /\ MapCap \in Nat
  BY <1>1, SupervisorAssumption
<1> QED BY <1>1, <1>2, <1>3, <1>4, <1>5, SupervisorAssumption DEF LoadInv, Installing

\* One entry more is in the map, unless the map is full.
LEMMA InstallNextKeeps ==
  ASSUME LoadInv, loop \in Installing, next < Len(entries), InstallNext
  PROVE  /\ next' = next + 1 /\ next' \in Nat /\ next' <= Len(entries)
         /\ IsFiniteSet(DOMAIN policy') /\ Cardinality(DOMAIN policy') <= MapCap
         /\ Cardinality(DOMAIN policy') <= Cardinality(DOMAIN policy) + 1
         /\ \A k \in 1..next' : entries[k].site \in DOMAIN policy' \/ Full(policy')
         /\ \A o \in DOMAIN policy : o \in DOMAIN policy'
<1>1. PICK e : e = entries[next + 1]
  BY Zenon
<1>2. policy' = Put(policy, e) /\ next' = next + 1
  BY <1>1, Zenon DEF InstallNext
<1>3. next \in Nat /\ Len(entries) \in Nat
  BY DEF LoadInv
<1>4. /\ IsFiniteSet(DOMAIN policy') /\ Cardinality(DOMAIN policy') <= MapCap
      /\ Cardinality(DOMAIN policy') <= Cardinality(DOMAIN policy) + 1
      /\ e.site \in DOMAIN policy' \/ Full(policy')
      /\ Full(policy) => Full(policy')
  BY <1>2, PutSize, Zenon DEF LoadInv
<1>5. \A o \in DOMAIN policy : o \in DOMAIN policy'
  BY <1>2, PutRule, Zenon
<1>6. ASSUME NEW k \in 1..next' PROVE entries[k].site \in DOMAIN policy' \/ Full(policy')
  <2>1. CASE k \in 1..next
    BY <1>4, <1>5, <2>1, Zenon DEF LoadInv
  <2>2. CASE k = next + 1
    BY <1>1, <1>4, <2>2, Zenon
  <2> QED BY <1>2, <1>3, <2>1, <2>2
<1> QED BY <1>2, <1>3, <1>4, <1>5, <1>6

\* While the policy of the launched build is installed, the map has room.
LEMMA InstallKeeps == LoadInv /\ Install => LoadInv'
<1> SUFFICES ASSUME LoadInv, Install PROVE LoadInv'
  BY Zenon
<1>1. /\ loop = "install" /\ next < Len(entries) /\ InstallNext
      /\ loop' = loop /\ entries' = entries /\ disk' = disk /\ readings' = readings
  BY Zenon DEF Install, user
<1>2. /\ next' = next + 1 /\ next' \in Nat /\ next' <= Len(entries)
      /\ IsFiniteSet(DOMAIN policy') /\ Cardinality(DOMAIN policy') <= MapCap
      /\ Cardinality(DOMAIN policy') <= Cardinality(DOMAIN policy) + 1
      /\ \A k \in 1..next' : entries[k].site \in DOMAIN policy' \/ Full(policy')
      /\ \A o \in DOMAIN policy : o \in DOMAIN policy'
  BY <1>1, InstallNextKeeps, Zenon DEF Installing
<1>3. /\ Cardinality(DOMAIN policy) \in Nat /\ Cardinality(DOMAIN policy') \in Nat
      /\ MapCap \in Nat /\ next \in Nat /\ Len(entries) \in Nat
  BY <1>2, FS_CardinalityType, SupervisorAssumption DEF LoadInv
<1>4. readings[Len(readings)] \in DOMAIN Builds
  BY DEF LoadInv
<1>5. Len(entries) <= MapCap
  BY <1>1, <1>4, SitesOf, Zenon DEF LoadInv, Installing
<1>6. Cardinality(DOMAIN policy) < MapCap /\ Cardinality(DOMAIN policy') <= next'
  BY <1>1, <1>2, <1>3, <1>5 DEF LoadInv
<1>7. ASSUME NEW k \in 1..next' PROVE entries[k].site \in DOMAIN policy'
  <2>1. CASE k \in 1..next
    BY <1>1, <1>2, <2>1, Zenon DEF LoadInv
  <2>2. CASE k = next + 1
    <3>1. PICK e : e = entries[next + 1]
      BY Zenon
    <3>2. policy' = Put(policy, e)
      BY <1>1, <3>1, Zenon DEF InstallNext
    <3>3. e.site \in DOMAIN Put(policy, e)
      BY <1>3, <1>6 DEF Put
    <3> QED BY <2>2, <3>1, <3>2, <3>3, Zenon
  <2> QED BY <1>2, <1>3, <2>1, <2>2
<1> QED BY <1>1, <1>2, <1>6, <1>7, Zenon DEF LoadInv, Installing

\* Every step keeps it.
LEMMA LoadStep == LoadInv /\ [Next]_vars => LoadInv'
<1> SUFFICES ASSUME LoadInv, [Next]_vars PROVE LoadInv'
  BY Zenon
<1>1. CASE Install
  BY <1>1, InstallKeeps, Zenon
<1>2. CASE Update
  <2>1. CASE next < Len(entries)
    <3>1. /\ loop = "update" /\ InstallNext /\ loop' = loop /\ entries' = entries
          /\ disk' = disk /\ readings' = readings
      BY <1>2, <2>1, Zenon DEF Update, user
    <3>2. /\ next' \in Nat /\ next' <= Len(entries)
          /\ IsFiniteSet(DOMAIN policy') /\ Cardinality(DOMAIN policy') <= MapCap
          /\ \A k \in 1..next' : entries[k].site \in DOMAIN policy' \/ Full(policy')
      BY <2>1, <3>1, InstallNextKeeps, Zenon DEF Installing
    <3> QED BY <3>1, <3>2, Zenon DEF LoadInv, Installing
  <2>2. CASE ~(next < Len(entries))
    BY <1>2, <2>2, Zenon DEF Update, user, LoadInv, Installing
  <2> QED BY <2>1, <2>2, Zenon
<1>3. CASE Parse
  <2>1. /\ loop = "parse" /\ entries' = Builds[disk] /\ next' = 0
        /\ policy' = policy /\ disk' = disk
        /\ \/ loop' = "wait" /\ readings' = readings
           \/ loop' = "update" /\ readings' = Append(readings, disk)
    BY <1>3, Zenon DEF Parse, user
  <2>2. entries' \in Seq(Entry) /\ Len(entries') \in Nat
    BY <2>1, SitesOf DEF LoadInv
  <2>3. CASE loop' = "wait" /\ readings' = readings
    BY <2>1, <2>2, <2>3, Zenon DEF LoadInv, Installing
  <2>4. CASE loop' = "update" /\ readings' = Append(readings, disk)
    <3>1. /\ readings' \in Seq(DOMAIN Builds) /\ readings' # << >>
          /\ readings'[Len(readings')] = disk
      BY <2>4 DEF LoadInv
    <3> QED BY <2>1, <2>2, <2>4, <3>1 DEF LoadInv, Installing
  <2> QED BY <2>1, <2>3, <2>4, Zenon
<1>4. CASE Detach
  BY <1>4, Zenon DEF Detach, user, LoadInv, Installing
<1>5. CASE Top
  BY <1>5, Zenon DEF Top, user, LoadInv, Installing
<1>6. CASE Hangup
  BY <1>6, Zenon DEF Hangup, reader, LoadInv
<1>7. CASE Edit
  BY <1>7, Zenon DEF Edit, reader, LoadInv
<1>8. CASE MoveOn
  BY <1>8, Zenon DEF MoveOn, LoadInv, Installing
<1>9. CASE UNCHANGED state
  BY <1>9, Zenon DEF state, LoadInv
<1> QED BY <1>1, <1>2, <1>3, <1>4, <1>5, <1>6, <1>7, <1>8, <1>9, ReloadSteps, Zenon

-----------------------------------------------------------------------------
(* The rest of the type invariant.                                         *)

PlainInv ==
  /\ mode \in Modes
  /\ loop \in {"install", "top", "parse", "update", "wait", "poll", "over"}
  /\ reload \in BOOLEAN /\ doomed \in BOOLEAN /\ fresh \in BOOLEAN
  /\ denied \in [Threads -> BOOLEAN]
  /\ next <= Len(entries)
  /\ DOMAIN policy \subseteq Nat
  /\ hups \in 0..MaxHangups /\ edits \in 0..MaxEdits

\* Installation starts with an empty map.
LEMMA PlainInit == Init => PlainInv
<1> SUFFICES ASSUME Init PROVE PlainInv
  BY Zenon
<1>1. /\ mode \in Modes /\ loop = "install" /\ reload = FALSE /\ doomed = FALSE /\ fresh = FALSE
      /\ denied = [t \in Threads |-> FALSE] /\ next = 0 /\ policy = << >>
      /\ entries = Builds[Launched] /\ hups = 0 /\ edits = 0
  BY Zenon DEF Init
<1>2. DOMAIN policy = {} /\ Len(entries) \in Nat
  BY <1>1, SitesOf, SupervisorAssumption
<1>3. denied \in [Threads -> BOOLEAN]
  BY <1>1, Zenon
<1>4. 0 \in 0..MaxHangups /\ 0 \in 0..MaxEdits
  BY SupervisorAssumption
<1>5. reload \in BOOLEAN /\ doomed \in BOOLEAN /\ fresh \in BOOLEAN
  BY Zenon, <1>1
<1>6. next <= Len(entries) /\ DOMAIN policy \subseteq Nat
  BY <1>1, <1>2
<1> QED BY <1>1, <1>3, <1>4, <1>5, <1>6, Zenon DEF PlainInv

\* One entry more: its site is an offset.
LEMMA PlainInstallNext ==
  ASSUME LoadInv, PlainInv, next < Len(entries), InstallNext
  PROVE  next' <= Len(entries) /\ DOMAIN policy' \subseteq Nat
<1>1. next \in Nat /\ Len(entries) \in Nat /\ next + 1 \in DOMAIN entries
  BY DEF LoadInv
<1>2. PICK e \in Entry : e = entries[next + 1]
  BY <1>1 DEF LoadInv
<1>3. e.site \in Nat
  BY Zenon DEF Entry
<1>4. policy' = Put(policy, e) /\ next' = next + 1
  BY <1>2, Zenon DEF InstallNext
<1>5. DOMAIN policy' \subseteq DOMAIN policy \cup {e.site}
  BY <1>4, PutRule, Zenon
<1> QED BY <1>1, <1>3, <1>4, <1>5 DEF PlainInv

\* A violation is decided, and forgotten, as a truth value.
LEMMA PlainThread ==
  ASSUME NEW t \in Threads, PlainInv, Enter(t) \/ Hook(t) \/ Return(t) \/ Die(t) \/ Exit(t)
  PROVE  PlainInv'
<1>1. /\ mode' = mode /\ loop' = loop /\ reload' = reload /\ fresh' = fresh
      /\ next' = next /\ entries' = entries /\ policy' = policy
      /\ hups' = hups /\ edits' = edits
  BY Zenon DEF Enter, Hook, Reserve, Submit, Signal, Return, Die, Exit, reader, user
<1>2. denied' = denied \/ \E v \in BOOLEAN : denied' = [denied EXCEPT ![t] = v]
  <2>1. CASE Enter(t)
    <3>1. PICK o \in Offsets, nr \in Nrs : denied' = [denied EXCEPT ![t] = ~Allowed(o, nr)]
      BY Zenon, <2>1 DEF Enter
    <3>2. (~Allowed(o, nr)) \in BOOLEAN
      BY Zenon
    <3> QED BY Zenon, <3>1, <3>2
  <2>2. CASE Signal(t)
    BY Zenon, <2>2 DEF Signal
  <2>3. CASE Reserve(t) \/ Submit(t) \/ Return(t) \/ Die(t) \/ Exit(t)
    BY <2>3, Zenon DEF Reserve, Submit, Return, Die, Exit
  <2> QED BY <2>1, <2>2, <2>3, Zenon DEF Hook
<1>3. denied' \in [Threads -> BOOLEAN]
  BY <1>2, Zenon DEF PlainInv
<1>4. doomed' \in BOOLEAN
  <2>1. CASE Signal(t)
    <3>1. doomed' \in {doomed, TRUE}
      BY Zenon, <2>1 DEF Signal
    <3> QED BY Zenon, <3>1 DEF PlainInv
  <2>2. CASE ~Signal(t)
    BY Zenon, <2>2 DEF Enter, Hook, Reserve, Submit, Return, Die, Exit, PlainInv
  <2> QED BY <2>1, <2>2, Zenon
<1> QED BY <1>1, <1>3, <1>4, Zenon DEF PlainInv

\* Every step keeps it.
LEMMA PlainStep == LoadInv /\ PlainInv /\ [Next]_vars => PlainInv'
<1> SUFFICES ASSUME LoadInv, PlainInv, [Next]_vars PROVE PlainInv'
  BY Zenon
<1>1. CASE Install \/ (Update /\ next < Len(entries))
  <2>1. /\ next < Len(entries) /\ InstallNext /\ mode' = mode /\ loop' = loop /\ reload' = reload
        /\ doomed' = doomed /\ fresh' = fresh /\ denied' = denied /\ entries' = entries
        /\ hups' = hups /\ edits' = edits
    BY <1>1, Zenon DEF Install, Update, user, child
  <2> QED BY <2>1, PlainInstallNext, Zenon DEF PlainInv
<1>2. CASE Parse
  <2>1. /\ entries' = Builds[disk] /\ next' = 0 /\ policy' = policy /\ mode' = mode
        /\ loop' \in {"wait", "update"} /\ reload' = reload
        /\ doomed' = doomed /\ fresh' = fresh /\ denied' = denied
        /\ hups' = hups /\ edits' = edits
    BY <1>2, Zenon DEF Parse, user, child
  <2>2. Len(entries') \in Nat
    BY <2>1, SitesOf DEF LoadInv
  <2> QED BY <2>1, <2>2 DEF PlainInv
<1>3. CASE Detach \/ Top \/ (Update /\ ~(next < Len(entries))) \/ Wait \/ Consume \/ PollDone
  <2>1. /\ mode' = mode /\ loop' \in {"top", "parse", "wait", "poll", "over"}
        /\ reload' \in {reload, FALSE} /\ doomed' = doomed /\ fresh' = fresh
        /\ denied' = denied /\ next' = next /\ entries' = entries /\ policy' = policy
        /\ hups' = hups /\ edits' = edits
    BY Zenon, <1>3 DEF Detach, Top, Update, Wait, Consume, PollDone, user, child, PlainInv
  <2> QED BY Zenon, <2>1 DEF PlainInv
<1>4. CASE Hangup
  <2>1. /\ mode' = mode /\ loop' = loop /\ reload' = TRUE /\ doomed' = doomed /\ fresh' = TRUE
        /\ denied' = denied /\ next' = next /\ entries' = entries /\ policy' = policy
        /\ hups < MaxHangups /\ hups' = hups + 1 /\ edits' = edits
    BY <1>4, Zenon DEF Hangup, reader, child
  <2>2. hups' \in 0..MaxHangups
    BY <2>1, SupervisorAssumption DEF PlainInv
  <2> QED BY <2>1, <2>2, Zenon DEF PlainInv
<1>5. CASE Edit
  <2>1. /\ mode' = mode /\ loop' = loop /\ reload' = reload /\ doomed' = doomed /\ fresh' = FALSE
        /\ denied' = denied /\ next' = next /\ entries' = entries /\ policy' = policy
        /\ edits < MaxEdits /\ edits' = edits + 1 /\ hups' = hups
    BY <1>5, Zenon DEF Edit, reader, child
  <2>2. edits' \in 0..MaxEdits
    BY <2>1, SupervisorAssumption DEF PlainInv
  <2> QED BY Zenon, <2>1, <2>2 DEF PlainInv
<1>6. CASE UNCHANGED vars
  BY <1>6, Zenon DEF vars, user, reader, child, PlainInv
<1> QED BY <1>1, <1>2, <1>3, <1>4, <1>5, <1>6, PlainThread, Zenon DEF Next, Main

\* Type correctness, for every number of threads and size of the maps: the
\* policy map and the ring buffer stay within their sizes, and a thread is in
\* the middle of filling in an event exactly when one record of the ring, that
\* of its current call, is not submitted (sentinel.bpf.c:124-140,
\* loader.c:1331-1352, 1895-1946).  The invariants say which record that is,
\* how far the entries at hand are installed and what the map holds of them.
THEOREM SupervisorTyped == Spec => []TypeOK
<1>1. RingInv /\ LoadInv /\ FillInv /\ PlainInv => TypeOK
  <2> SUFFICES ASSUME RingInv, LoadInv, FillInv, PlainInv PROVE TypeOK
    BY Zenon
  <2>1. next \in 0..Len(entries)
    BY DEF LoadInv, PlainInv
  <2>2. \A t \in Threads : calls[t] \in 0..MaxCalls[t]
    BY SupervisorAssumption DEF RingInv
  <2>3. ASSUME NEW t \in Threads
        PROVE  at[t] = "fill" <=> \E k \in DOMAIN ring : ring[k].busy /\ ring[k].event = Event(t)
    <3>1. ASSUME at[t] = "fill"
          PROVE  \E k \in DOMAIN ring : ring[k].busy /\ ring[k].event = Event(t)
      <4>1. PICK k \in DOMAIN ring : ring[k].busy /\ ring[k].event.tid = t
        BY <3>1, Zenon DEF FillInv
      <4>2. ring[k] \in Records /\ ring[k].event.nth = calls[ring[k].event.tid]
        BY <4>1, RecordType, Zenon DEF RingInv, FillInv
      <4> QED BY <4>1, <4>2, EventIs, Zenon
    <3>2. ASSUME NEW k \in DOMAIN ring, ring[k].busy, ring[k].event = Event(t)
          PROVE  at[t] = "fill"
      <4>1. ring[k].event.tid = t
        BY <3>2 DEF Event
      <4> QED BY <3>2, <4>1, Zenon DEF FillInv
    <3> QED BY <3>1, <3>2, Zenon
  <2>4. at \in [Threads -> {"stopped", "user", "emit", "fill", "signal", "inside", "dead"}]
    BY Zenon DEF RingInv, Places
  <2>5. Cardinality(DOMAIN policy) <= MapCap /\ disk \in DOMAIN Builds
    BY Zenon DEF LoadInv
  <2>6. Len(ring) <= RingCap
    BY Zenon DEF FillInv
  <2> QED BY <2>1, <2>2, <2>3, <2>4, <2>5, <2>6, Zenon DEF TypeOK, PlainInv
<1> QED BY RingInit, RingStep, LoadInit, LoadStep, FillInit, FillStep, PlainInit, PlainStep,
           <1>1, PTL DEF Spec

-----------------------------------------------------------------------------
(* No gap during a reload.                                                 *)

\* What the map says of a steady call permits it, and once the child runs the
\* map says something.
GapInv ==
  \A c \in Steady :
    /\ c[1] \in DOMAIN policy => NrPermitted(policy[c[1]], c[2])
    /\ loop # "install" => c[1] \in DOMAIN policy

\* No entry of any build refuses a steady call.
LEMMA SteadyEntry ==
  ASSUME NEW c \in Steady, NEW b \in DOMAIN Builds, NEW k \in DOMAIN Builds[b],
         Builds[b][k].site = c[1]
  PROVE  NrPermitted(Rule(Builds[b][k]), c[2])
<1>1. Builds[b] # << >>
  OBVIOUS
<1> QED BY <1>1 DEF Steady

\* An update of a reload replaces the rule of its offset in one step.
LEMMA GapStep == LoadInv /\ GapInv /\ [Next]_vars => GapInv'
<1> SUFFICES ASSUME LoadInv, GapInv, [Next]_vars PROVE GapInv'
  BY Zenon
<1>1. ASSUME loop \in Installing, next < Len(entries), InstallNext, loop' = loop
      PROVE  GapInv'
  <2>1. PICK b : b = readings[Len(readings)]
    BY Zenon
  <2>2. b \in DOMAIN Builds /\ entries = Builds[b]
    BY <1>1, <2>1 DEF LoadInv
  <2>3. next + 1 \in DOMAIN entries
    BY <1>1 DEF LoadInv
  <2>4. PICK e : e = entries[next + 1]
    BY Zenon
  <2>5. policy' = Put(policy, e)
    BY <1>1, <2>4, Zenon DEF InstallNext
  <2>6. ASSUME NEW c \in Steady, c[1] \in DOMAIN policy'
        PROVE  NrPermitted(policy'[c[1]], c[2])
    <3>1. CASE c[1] = e.site
      <4>1. NrPermitted(Rule(e), c[2])
        BY <2>2, <2>3, <2>4, <3>1, SteadyEntry, Zenon
      <4>2. policy'[c[1]] = Rule(e)
        BY <2>5, <2>6, <3>1, PutRule
      <4> QED BY <4>1, <4>2, Zenon
    <3>2. CASE c[1] # e.site
      <4>1. c[1] \in DOMAIN policy /\ policy'[c[1]] = policy[c[1]]
        BY <2>5, <2>6, <3>2, PutRule
      <4> QED BY <4>1, Zenon DEF GapInv
    <3> QED BY <3>1, <3>2, Zenon
  <2>7. ASSUME NEW c \in Steady, loop' # "install" PROVE c[1] \in DOMAIN policy'
    <3>1. c[1] \in DOMAIN policy
      BY <1>1, <2>7, Zenon DEF GapInv
    <3> QED BY <2>5, <3>1, PutRule, Zenon
  <2> QED BY <2>6, <2>7, Zenon DEF GapInv
<1>2. CASE Install
  BY <1>1, <1>2, Zenon DEF Install, Installing
<1>3. CASE Update
  <2>1. CASE next < Len(entries)
    BY <1>1, <1>3, <2>1, Zenon DEF Update, Installing
  <2>2. CASE ~(next < Len(entries))
    BY <1>3, <2>2, Zenon DEF Update, GapInv
  <2> QED BY <2>1, <2>2, Zenon
<1>4. CASE Detach
  <2>1. /\ loop = "install" /\ next >= Len(entries) /\ policy' = policy
    BY <1>4, Zenon DEF Detach
  <2>2. PICK b : b = readings[Len(readings)]
    BY Zenon
  <2>3. b \in DOMAIN Builds /\ entries = Builds[b] /\ entries \in Seq(Entry)
    BY <2>1, <2>2 DEF LoadInv, Installing
  <2>4. next = Len(entries)
    BY <2>1, <2>3 DEF LoadInv, Installing
  <2>5. ASSUME NEW c \in Steady, entries # << >> PROVE c[1] \in DOMAIN policy
    <3>1. c[1] \in Sites[b]
      BY <2>3, <2>5 DEF Steady
    <3>2. PICK k \in DOMAIN entries : entries[k].site = c[1]
      BY <2>3, <3>1, SitesOf, Zenon
    <3>3. k \in 1..next
      BY <2>3, <2>4
    <3> QED BY <2>1, <3>2, <3>3, Zenon DEF LoadInv
  <2>6. entries # << >>
    BY <2>1, Zenon DEF LoadInv
  <2> QED BY <2>1, <2>5, <2>6, Zenon DEF GapInv
<1>5. CASE Parse \/ Top \/ Hangup \/ Edit \/ MoveOn \/ UNCHANGED state
  BY <1>5, Zenon DEF Parse, Top, Hangup, Edit, MoveOn, state, reader, GapInv
<1> QED BY <1>2, <1>3, <1>4, <1>5, ReloadSteps, Zenon

\* A call that every build permits is never refused once the child runs,
\* whatever is reloaded and when (loader.c:1331-1352, 1912-1922): the map is
\* updated in place, and an installation from an empty map has room for every
\* entry.
THEOREM NoGap == Spec => []NoGapDuringReload
<1>1. Init => GapInv
  <2>1. Init => loop = "install" /\ DOMAIN policy = {}
    BY DEF Init
  <2> QED BY <2>1, Zenon DEF GapInv
<1>2. GapInv => NoGapDuringReload
  BY Zenon DEF GapInv, NoGapDuringReload, Allowed
<1> QED BY LoadInit, LoadStep, GapStep, <1>1, <1>2, PTL DEF Spec

-----------------------------------------------------------------------------
(* A SIGHUP takes effect.                                                  *)

\* With no SIGHUP pending and the binary the one it was sent for, the binary is
\* the one being installed, or installed.
FreshInv ==
  fresh /\ ~reload =>
    /\ loop # "install"
    /\ loop = "update" => readings[Len(readings)] = disk
    /\ loop \notin {"install", "parse", "update"} /\ Sites[disk] # {} =>
         /\ readings[Len(readings)] = disk
         /\ \A o \in Sites[disk] : o \in DOMAIN policy \/ Full(policy)

\* g_reload is cleared before the file is read (loader.c:1900-1909).
LEMMA FreshStep == LoadInv /\ FreshInv /\ [Next]_vars => FreshInv'
<1> SUFFICES ASSUME LoadInv, FreshInv, [Next]_vars PROVE FreshInv'
  BY Zenon
<1>1. CASE Install
  BY <1>1, Zenon DEF Install, user, FreshInv
<1>2. CASE Update
  <2>1. CASE next < Len(entries)
    BY <1>2, <2>1, Zenon DEF Update, user, FreshInv
  <2>2. CASE ~(next < Len(entries))
    <3>1. /\ loop = "update" /\ loop' = "wait" /\ policy' = policy
          /\ fresh' = fresh /\ reload' = reload /\ disk' = disk /\ readings' = readings
      BY <1>2, <2>2, Zenon DEF Update, user
    <3>2. entries = Builds[readings[Len(readings)]] /\ entries \in Seq(Entry) /\ next = Len(entries)
      BY <2>2, <3>1 DEF LoadInv, Installing
    <3>3. ASSUME fresh, ~reload, NEW o \in Sites[disk]
          PROVE  o \in DOMAIN policy \/ Full(policy)
      <4>1. readings[Len(readings)] = disk /\ disk \in DOMAIN Builds
        BY <3>1, <3>3, Zenon DEF FreshInv, LoadInv
      <4>2. PICK k \in DOMAIN Builds[disk] : Builds[disk][k].site = o
        BY <3>3, <4>1, SitesOf, Zenon
      <4>3. k \in 1..next /\ entries[k].site = o
        BY <3>2, <4>1, <4>2
      <4> QED BY <3>1, <4>3, Zenon DEF LoadInv, Installing
    <3> QED BY <3>1, <3>3, Zenon DEF FreshInv
  <2> QED BY <2>1, <2>2, Zenon
<1>3. CASE Parse
  <2>1. /\ loop = "parse" /\ entries' = Builds[disk] /\ disk' = disk
        /\ \/ entries' = << >> /\ loop' = "wait"
           \/ loop' = "update" /\ readings' = Append(readings, disk)
    BY <1>3, Zenon DEF Parse, user
  <2>2. CASE entries' = << >> /\ loop' = "wait"
    <3>1. disk \in DOMAIN Builds /\ DOMAIN Builds[disk] = {}
      BY <2>1, <2>2 DEF LoadInv
    <3>2. Sites[disk] = {}
      BY <3>1, SitesOf, Zenon
    <3> QED BY <2>1, <2>2, <3>2, Zenon DEF FreshInv
  <2>3. CASE loop' = "update" /\ readings' = Append(readings, disk)
    <3>1. readings'[Len(readings')] = disk
      BY <2>3 DEF LoadInv
    <3> QED BY <2>1, <2>3, <3>1, Zenon DEF FreshInv
  <2> QED BY <2>1, <2>2, <2>3, Zenon
<1>4. CASE Detach
  BY <1>4, Zenon DEF Detach, user, FreshInv
<1>5. CASE Top
  BY <1>5, Zenon DEF Top, user, FreshInv
<1>6. CASE Hangup \/ Edit
  BY <1>6, Zenon DEF Hangup, Edit, FreshInv
<1>7. CASE MoveOn
  BY <1>7, Zenon DEF MoveOn, FreshInv
<1>8. CASE UNCHANGED state
  BY <1>8, Zenon DEF state, FreshInv
<1> QED BY <1>1, <1>2, <1>3, <1>4, <1>5, <1>6, <1>7, <1>8, ReloadSteps, ZenonT(30)

\* A SIGHUP that has been handled has put every site of the binary it was sent
\* for into the map, unless the map is full (loader.c:1900-1922).
THEOREM ReloadTakesEffect == Spec => []ReloadInstalls
<1>1. Init => FreshInv
  BY Zenon DEF Init, FreshInv
<1>2. FreshInv => ReloadInstalls
  BY Zenon DEF FreshInv, ReloadInstalls, Full
<1> QED BY LoadInit, LoadStep, FreshStep, <1>1, <1>2, PTL DEF Spec

-----------------------------------------------------------------------------
(* Whose rule is in the map.                                               *)

\* Reading k is the newest of the first n readings that lists o.
Newest(rs, n, o, k) ==
  /\ k \in 1..n /\ o \in Sites[rs[k]]
  /\ \A j \in 1..n : o \in Sites[rs[j]] => j <= k

\* Entry k is the last of the first n entries for o.
LastFor(s, n, o, k) ==
  /\ k \in 1..n /\ s[k].site = o
  /\ \A j \in 1..n : s[j].site = o => j <= k

\* val is the rule of the last of the first n entries of s for o.
FromEntries(val, s, n, o) == \E k \in 1..n : LastFor(s, n, o, k) /\ val = Rule(s[k])

\* val is what the newest of the first n readings that lists o says of it.
FromReadings(val, rs, n, o) == \E k \in 1..n : Newest(rs, n, o, k) /\ val = Says[rs[k]][o]

\* The rule of an offset is that of the last entry installed for it; if the
\* entries at hand have not touched it yet, that of the readings before.
PartlyRuled(val, s, n, rs, o) ==
  \/ FromEntries(val, s, n, o)
  \/ (\A j \in 1..n : s[j].site # o) /\ FromReadings(val, rs, Len(rs) - 1, o)

RuleInv ==
  /\ loop \in Installing =>
       \A o \in DOMAIN policy : PartlyRuled(policy[o], entries, next, readings, o)
  /\ loop \notin Installing =>
       \A o \in DOMAIN policy : FromReadings(policy[o], readings, Len(readings), o)

\* The largest of a set of indices.
LEMMA MaxIs ==
  ASSUME NEW S \in SUBSET Nat, NEW x \in S, \A y \in S : y <= x
  PROVE  Max(S) = x
<1>1. \A y \in S : x >= y
  BY Zenon
<1>2. Max(S) \in S /\ \A y \in S : Max(S) >= y
  BY Zenon, <1>1 DEF Max
<1>3. PICK m : m = Max(S)
  BY Zenon
<1>4. m \in Nat /\ x \in Nat /\ m >= x /\ m <= x
  BY Zenon, <1>2, <1>3
<1> QED BY <1>3, <1>4

\* What a build says of a site is the rule of its last entry for it.
LEMMA SaysLast ==
  ASSUME NEW b \in DOMAIN Builds, NEW o, NEW k,
         LastFor(Builds[b], Len(Builds[b]), o, k)
  PROVE  o \in Sites[b] /\ Says[b][o] = Rule(Builds[b][k])
<1>1. /\ Builds[b] \in Seq(Entry) /\ DOMAIN Builds[b] = 1..Len(Builds[b])
      /\ Len(Builds[b]) \in Nat
  BY SitesOf
<1>2. k \in DOMAIN Builds[b] /\ Builds[b][k].site = o
  BY <1>1, Zenon DEF LastFor
<1>3. o \in Sites[b]
  BY <1>2, SitesOf, Zenon
<1>4. PICK S : S = {j \in DOMAIN Builds[b] : Builds[b][j].site = o}
  BY Zenon
<1>5. S \in SUBSET Nat /\ k \in S /\ \A j \in S : j <= k
  BY <1>1, <1>2, <1>4 DEF LastFor
<1>6. Max(S) = k
  BY <1>5, MaxIs, Zenon
<1>7. Says[b][o] = Rule(Builds[b][Max(S)])
  BY <1>3, <1>4, Zenon DEF Says
<1> QED BY <1>3, <1>6, <1>7, Zenon

\* One entry more makes itself the last one for its offset, and leaves the last
\* one of every other offset as it was.
LEMMA OneMoreEntry ==
  ASSUME NEW s, NEW n \in Nat, NEW rs, NEW o, NEW val, s[n + 1].site # o,
         PartlyRuled(val, s, n, rs, o)
  PROVE  PartlyRuled(val, s, n + 1, rs, o)
<1>1. CASE FromEntries(val, s, n, o)
  <2>1. PICK k \in 1..n : LastFor(s, n, o, k) /\ val = Rule(s[k])
    BY <1>1, Zenon DEF FromEntries
  <2>2. k \in 1..(n + 1) /\ LastFor(s, n + 1, o, k)
    BY <2>1 DEF LastFor
  <2> QED BY <2>1, <2>2, Zenon DEF FromEntries, PartlyRuled
<1>2. CASE (\A j \in 1..n : s[j].site # o) /\ FromReadings(val, rs, Len(rs) - 1, o)
  <2>1. \A j \in 1..(n + 1) : s[j].site # o
    BY <1>2
  <2> QED BY <1>2, <2>1, Zenon DEF PartlyRuled
<1> QED BY <1>1, <1>2, Zenon DEF PartlyRuled

LEMMA RuleInstallNext ==
  ASSUME LoadInv, RuleInv, loop \in Installing, next < Len(entries), InstallNext,
         loop' = loop, entries' = entries, readings' = readings
  PROVE  RuleInv'
<1>1. PICK e : e = entries[next + 1]
  BY Zenon
<1>2. policy' = Put(policy, e) /\ next' = next + 1 /\ next \in Nat
  BY <1>1, Zenon DEF InstallNext, LoadInv
<1>3. ASSUME NEW o \in DOMAIN policy'
      PROVE  PartlyRuled(policy'[o], entries, next + 1, readings, o)
  <2>1. CASE o = e.site
    <3>1. policy'[o] = Rule(e)
      BY <1>2, <1>3, <2>1, PutRule, Zenon
    <3>2. next + 1 \in 1..(next + 1) /\ LastFor(entries, next + 1, o, next + 1)
      BY <1>1, <1>2, <2>1 DEF LastFor
    <3> QED BY <1>1, <3>1, <3>2, Zenon DEF FromEntries, PartlyRuled
  <2>2. CASE o # e.site
    <3>1. o \in DOMAIN policy /\ policy'[o] = policy[o]
      BY <1>2, <1>3, <2>2, PutRule
    <3>2. PartlyRuled(policy[o], entries, next, readings, o)
      BY <3>1, Zenon DEF RuleInv
    <3> QED BY <1>1, <1>2, <2>2, <3>1, <3>2, OneMoreEntry, ZenonT(30)
  <2> QED BY <2>1, <2>2, Zenon
<1> QED BY <1>2, <1>3, Zenon DEF RuleInv

\* When all entries are installed the newest reading has had its say.
LEMMA RuleDone ==
  ASSUME LoadInv, RuleInv, loop \in Installing, next >= Len(entries),
         NEW o \in DOMAIN policy
  PROVE  FromReadings(policy[o], readings, Len(readings), o)
<1>1. PICK n : n = Len(readings)
  BY Zenon
<1>2. n \in Nat /\ n > 0 /\ readings[n] \in DOMAIN Builds
  BY <1>1 DEF LoadInv
<1>3. PICK b \in DOMAIN Builds : b = readings[n]
  BY <1>2, Zenon
<1>4. entries = Builds[b] /\ next = Len(Builds[b]) /\ Builds[b] \in Seq(Entry)
  BY <1>1, <1>3 DEF LoadInv
<1>5. CASE FromEntries(policy[o], entries, next, o)
  <2>1. PICK k \in 1..next : LastFor(entries, next, o, k) /\ policy[o] = Rule(entries[k])
    BY <1>5, Zenon DEF FromEntries
  <2>2. o \in Sites[b] /\ policy[o] = Says[b][o]
    BY <1>4, <2>1, SaysLast, Zenon
  <2>3. n \in 1..n /\ Newest(readings, n, o, n)
    BY <1>2, <1>3, <2>2 DEF Newest
  <2> QED BY <1>1, <1>3, <2>2, <2>3, Zenon DEF FromReadings
<1>6. CASE /\ \A j \in 1..next : entries[j].site # o
           /\ FromReadings(policy[o], readings, n - 1, o)
  <2>1. PICK k \in 1..(n - 1) :
          Newest(readings, n - 1, o, k) /\ policy[o] = Says[readings[k]][o]
    BY <1>6, Zenon DEF FromReadings
  <2>2. o \notin Sites[b]
    <3>1. \A j \in DOMAIN Builds[b] : Builds[b][j].site # o
      BY <1>4, <1>6
    <3> QED BY <3>1, SitesOf, Zenon
  <2>3. k \in 1..n /\ Newest(readings, n, o, k)
    BY <1>2, <1>3, <2>1, <2>2 DEF Newest
  <2> QED BY <1>1, <2>1, <2>3, Zenon DEF FromReadings
<1>7. PartlyRuled(policy[o], entries, next, readings, o)
  BY Zenon DEF RuleInv
<1> QED BY <1>1, <1>5, <1>6, <1>7, Zenon DEF PartlyRuled

\* Another reading leaves what the readings before it said.
LEMMA OneMoreReading ==
  ASSUME NEW rs \in Seq(DOMAIN Builds), NEW b \in DOMAIN Builds, NEW o, NEW val,
         FromReadings(val, rs, Len(rs), o)
  PROVE  FromReadings(val, Append(rs, b), Len(Append(rs, b)) - 1, o)
<1>1. PICK k \in 1..Len(rs) : Newest(rs, Len(rs), o, k) /\ val = Says[rs[k]][o]
  BY Zenon DEF FromReadings
<1>2. PICK q : q = Append(rs, b)
  BY Zenon
<1>3. Len(q) - 1 = Len(rs) /\ \A j \in 1..Len(rs) : q[j] = rs[j]
  BY <1>2
<1>4. Newest(q, Len(rs), o, k) /\ val = Says[q[k]][o]
  BY <1>1, <1>3, Zenon DEF Newest
<1> QED BY <1>2, <1>3, <1>4, Zenon DEF FromReadings

\* Every step keeps the authorship of the rules.
LEMMA RuleStep == LoadInv /\ RuleInv /\ [Next]_vars => RuleInv'
<1> SUFFICES ASSUME LoadInv, RuleInv, [Next]_vars PROVE RuleInv'
  BY Zenon
<1>1. CASE Install
  BY <1>1, RuleInstallNext, Zenon DEF Install, Installing
<1>2. CASE Update
  <2>1. CASE next < Len(entries)
    BY <1>2, <2>1, RuleInstallNext, Zenon DEF Update, Installing
  <2>2. CASE ~(next < Len(entries))
    <3>1. /\ loop = "update" /\ loop' = "wait" /\ policy' = policy /\ readings' = readings
      BY <1>2, <2>2, Zenon DEF Update
    <3>2. next >= Len(entries)
      BY <2>2 DEF LoadInv
    <3> QED BY <3>1, <3>2, RuleDone, Zenon DEF RuleInv, Installing
  <2> QED BY <2>1, <2>2, Zenon
<1>3. CASE Detach
  <2>1. /\ loop = "install" /\ next >= Len(entries) /\ loop' = "top"
        /\ policy' = policy /\ readings' = readings
    BY <1>3, Zenon DEF Detach
  <2> QED BY <2>1, RuleDone, Zenon DEF RuleInv, Installing
<1>4. CASE Parse
  <2>1. /\ loop = "parse" /\ next' = 0 /\ policy' = policy
        /\ \/ loop' = "wait" /\ readings' = readings
           \/ loop' = "update" /\ readings' = Append(readings, disk)
    BY <1>4, Zenon DEF Parse
  <2>2. CASE loop' = "wait" /\ readings' = readings
    BY <2>1, <2>2, Zenon DEF RuleInv, Installing
  <2>3. CASE loop' = "update" /\ readings' = Append(readings, disk)
    <3>1. ASSUME NEW o \in DOMAIN policy
          PROVE  FromReadings(policy'[o], readings', Len(readings') - 1, o)
      <4>1. FromReadings(policy[o], readings, Len(readings), o)
        BY <2>1, Zenon DEF RuleInv, Installing
      <4>2. readings \in Seq(DOMAIN Builds) /\ disk \in DOMAIN Builds
        BY Zenon DEF LoadInv
      <4> QED BY <2>1, <2>3, <4>1, <4>2, OneMoreReading, Zenon
    <3>2. \A j \in 1..next' : FALSE
      BY <2>1
    <3>3. ASSUME NEW o \in DOMAIN policy
          PROVE  PartlyRuled(policy'[o], entries', next', readings', o)
      BY <3>1, <3>2, Zenon DEF PartlyRuled
    <3> QED BY <2>1, <2>3, <3>3, Zenon DEF RuleInv, Installing
  <2> QED BY <2>1, <2>2, <2>3, Zenon
<1>5. CASE Top \/ MoveOn
  <2>1. /\ loop \notin Installing /\ loop' \notin Installing
        /\ policy' = policy /\ readings' = readings
    BY <1>5, Zenon DEF Top, MoveOn, Installing
  <2> QED BY <2>1, Zenon DEF RuleInv
<1>6. CASE Hangup \/ Edit \/ UNCHANGED state
  <2>1. /\ loop' = loop /\ policy' = policy /\ entries' = entries /\ next' = next
        /\ readings' = readings
    BY <1>6, Zenon DEF Hangup, Edit, reader, state
  <2> QED BY <2>1, Zenon DEF RuleInv
<1> QED BY <1>1, <1>2, <1>3, <1>4, <1>5, <1>6, ReloadSteps, Zenon

\* Between two reloads the map answers as the newest build read that lists the
\* offset (loader.c:1331-1352, 1912-1922).  The invariant follows an update
\* entry by entry: who spoke last for an offset, among the entries at hand and
\* the readings before.
THEOREM NewestWins == Spec => []NewestRule
<1>1. Init => RuleInv
  <2>1. Init => DOMAIN policy = {}
    BY DEF Init
  <2> QED BY <2>1, Zenon DEF RuleInv
<1>2. LoadInv /\ RuleInv => NewestRule
  <2> SUFFICES ASSUME LoadInv, RuleInv, loop \notin Installing, NEW o \in DOMAIN policy
               PROVE  policy[o] =
                        Says[readings[Max({j \in DOMAIN readings :
                                             o \in Sites[readings[j]]})]][o]
    BY Zenon DEF NewestRule, Installing
  <2>1. PICK k \in 1..Len(readings) :
          Newest(readings, Len(readings), o, k) /\ policy[o] = Says[readings[k]][o]
    BY Zenon DEF RuleInv, FromReadings
  <2>2. PICK S : S = {j \in DOMAIN readings : o \in Sites[readings[j]]}
    BY Zenon
  <2>3. DOMAIN readings = 1..Len(readings) /\ Len(readings) \in Nat
    BY DEF LoadInv
  <2>4. S \in SUBSET Nat /\ k \in S /\ \A j \in S : j <= k
    BY <2>1, <2>2, <2>3 DEF Newest
  <2>5. Max(S) = k
    BY <2>4, MaxIs, Zenon
  <2> QED BY <2>1, <2>2, <2>5, Zenon
<1> QED BY LoadInit, LoadStep, RuleStep, <1>1, <1>2, PTL DEF Spec

=============================================================================
