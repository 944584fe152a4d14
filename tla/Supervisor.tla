----------------------------- MODULE Supervisor -----------------------------
(***************************************************************************)
(* Supervision in audit mode: main() installs the policy of the binary,    *)
(* lets the child run, and enters the loop that reloads the policy on      *)
(* SIGHUP, watches the child and drains the audit ring buffer              *)
(* (loader.c:1331-1352, 1895-1946), concurrent with the hooks that read    *)
(* the policy, write the ring buffer and signal the child                  *)
(* (sentinel.bpf.c:120-284).                                               *)
(*                                                                         *)
(* A call of the child is reduced to the offset in the main binary and the *)
(* number it is made with.  A build of the binary is what                  *)
(* parse_sentinel_section returns for it, sites as offsets.  SIGINT and    *)
(* SIGTERM, which end the loader, are in Loader.                           *)
(***************************************************************************)
EXTENDS PolicyCodec, Sequences, FiniteSetsExt

CONSTANTS
  Threads,     \* threads of the child
  Offsets,     \* bound: offsets of calls
  Nrs,         \* bound: numbers of calls
  Builds,      \* bound: build -> its entries; << >>: it does not parse
  Launched,    \* the build the child was started from
  MapCap,      \* MAX_POLICY_ENTRIES, and max_entries of the main policy map
  RingCap,     \* events that fit into audit_ringbuf
  Modes,       \* enforcement modes
  MaxCalls,    \* bound: calls of each thread
  MaxHangups,  \* bound: SIGHUPs
  MaxEdits     \* bound: replacements of the binary

Entry == [site : Nat, enc : 0..Word]

ASSUME SupervisorAssumption ==
  /\ Nrs \subseteq 0..(Word - 1)
  /\ \A b \in DOMAIN Builds : Builds[b] \in Seq(Entry) /\ Len(Builds[b]) <= MapCap
  /\ Launched \in DOMAIN Builds /\ Builds[Launched] # << >>
  /\ Modes \subseteq {"kill", "permissive", "term"}
  /\ MapCap \in Nat /\ RingCap \in Nat
  /\ MaxCalls \in [Threads -> Nat] /\ MaxHangups \in Nat /\ MaxEdits \in Nat

VARIABLES
  mode,      \* enforce_mode
  loop,      \* where main() is: install, top, parse, update, wait, poll, over
  reload,    \* g_reload
  entries,   \* what parse_sentinel_section returned last
  next,      \* entries installed
  policy,    \* the main policy map: offset -> policy value
  ring,      \* audit_ringbuf: sequence of [event, busy]
  at,        \* per thread: stopped, user, emit, fill, signal, inside, dead
  denied,    \* per thread: its hook has found a violation
  calls,     \* per thread: calls made
  doomed,    \* a fatal signal has been sent to the child
  disk,      \* the build on disk
  hups,      \* SIGHUPs so far
  edits,     \* replacements so far
  reported,  \* history: per thread, its last event handed to audit_event_handler
  settled,   \* history: events in the ring, submitted, when the last poll ended
  readings,  \* history: the builds whose entries were installed
  fresh      \* history: the binary is the one of the last SIGHUP

user   == <<disk, hups, edits, fresh>>
reader == <<loop, entries, next, policy, reported, settled, readings>>
child  == <<at, denied, calls, doomed>>
vars   == <<mode, reload, ring, user, reader, child>>

-----------------------------------------------------------------------------
(* The policy map.                                                         *)

Rule(e) == PolicyValue(DecodedNr(e.enc))

\* Mutant: the map takes every entry.
PutUnbounded(m, e) == [o \in DOMAIN m \cup {e.site} |-> IF o = e.site THEN Rule(e) ELSE m[o]]

\* Mutant: an entry that is present is not replaced.
PutNoExist(m, e) ==
  IF e.site \in DOMAIN m \/ Cardinality(DOMAIN m) >= MapCap THEN m
  ELSE [o \in DOMAIN m \cup {e.site} |-> IF o = e.site THEN Rule(e) ELSE m[o]]

\* bpf_map_update_elem with BPF_ANY: a new key needs room; failures are ignored.
Put(m, e) ==
  IF e.site \notin DOMAIN m /\ Cardinality(DOMAIN m) >= MapCap THEN m
  ELSE [o \in DOMAIN m \cup {e.site} |-> IF o = e.site THEN Rule(e) ELSE m[o]]

Init ==
  /\ mode \in Modes
  /\ loop = "install" /\ reload = FALSE
  /\ entries = Builds[Launched] /\ next = 0 /\ policy = << >>
  /\ ring = << >> /\ settled = {} /\ reported = [t \in Threads |-> 0]
  /\ at = [t \in Threads |-> "stopped"]
  /\ denied = [t \in Threads |-> FALSE]
  /\ calls = [t \in Threads |-> 0]
  /\ doomed = FALSE
  /\ disk = Launched /\ hups = 0 /\ edits = 0
  /\ readings = <<Launched>> /\ fresh = FALSE

-----------------------------------------------------------------------------
(* The hooks, in the threads of the child.                                 *)

\* sentinel_check on a site of the main binary.
Allowed(o, nr) == o \in DOMAIN policy /\ NrPermitted(policy[o], nr)

Step(t, from, to) == at[t] = from /\ at' = [at EXCEPT ![t] = to]

Enter(t) ==
  /\ Step(t, "user", "emit")
  /\ calls[t] < MaxCalls[t]
  /\ \E o \in Offsets, nr \in Nrs : denied' = [denied EXCEPT ![t] = ~Allowed(o, nr)]
  /\ calls' = [calls EXCEPT ![t] = @ + 1]
  /\ UNCHANGED <<mode, reload, ring, user, reader, doomed>>

Event(t) == [tid |-> t, nth |-> calls[t]]

\* Mutant: a full ring buffer ends the hook.
ReserveReturns(t) ==
  /\ \/ /\ Len(ring) < RingCap
        /\ Step(t, "emit", "fill")
        /\ ring' = Append(ring, [event |-> Event(t), busy |-> TRUE])
     \/ /\ Len(ring) >= RingCap
        /\ Step(t, "emit", "inside")
        /\ UNCHANGED ring
  /\ UNCHANGED <<mode, reload, user, reader, denied, calls, doomed>>

\* bpf_ringbuf_reserve; without room the event is dropped.
Reserve(t) ==
  /\ \/ /\ Len(ring) < RingCap
        /\ Step(t, "emit", "fill")
        /\ ring' = Append(ring, [event |-> Event(t), busy |-> TRUE])
     \/ /\ Len(ring) >= RingCap
        /\ Step(t, "emit", "signal")
        /\ UNCHANGED ring
  /\ UNCHANGED <<mode, reload, user, reader, denied, calls, doomed>>

\* The fields are filled in and the record is submitted.
Submit(t) ==
  /\ Step(t, "fill", "signal")
  /\ ring' = [k \in DOMAIN ring |->
                IF ring[k].event = Event(t) THEN [ring[k] EXCEPT !.busy = FALSE] ELSE ring[k]]
  /\ UNCHANGED <<mode, reload, user, reader, denied, calls, doomed>>

\* The rest of deny_action: SIGTERM may be handled by the program.
Signal(t) ==
  /\ Step(t, "signal", "inside")
  /\ doomed' \in CASE denied[t] /\ mode = "kill" -> {TRUE}
                   [] denied[t] /\ mode = "term" -> {doomed, TRUE}
                   [] OTHER -> {doomed}
  /\ denied' = [denied EXCEPT ![t] = FALSE]
  /\ UNCHANGED <<mode, reload, ring, user, reader, calls>>

\* The call ends: a fatal signal is taken before user space is reached.
Return(t) ==
  /\ Step(t, "inside", IF doomed THEN "dead" ELSE "user")
  /\ UNCHANGED <<mode, reload, ring, user, reader, denied, calls, doomed>>

\* A thread in user space is interrupted by the fatal signal.
Die(t) ==
  /\ doomed /\ Step(t, "user", "dead")
  /\ UNCHANGED <<mode, reload, ring, user, reader, denied, calls, doomed>>

\* A thread exits, or ends the process.
Exit(t) ==
  /\ \/ Step(t, "user", "dead") /\ UNCHANGED doomed
     \/ at[t] = "user" /\ ~doomed /\ doomed' = TRUE /\ UNCHANGED at
  /\ UNCHANGED <<mode, reload, ring, user, reader, denied, calls>>

-----------------------------------------------------------------------------
(* main()                                                                  *)

InstallNext == policy' = Put(policy, entries[next + 1]) /\ next' = next + 1

\* The child is stopped while its policy is installed.
Install ==
  /\ loop = "install" /\ next < Len(entries)
  /\ InstallNext
  /\ UNCHANGED <<mode, loop, reload, ring, user, entries, reported, settled, readings, child>>

Detach ==
  /\ loop = "install" /\ next >= Len(entries)
  /\ loop' = "top"
  /\ at' = [t \in Threads |-> "user"]
  /\ UNCHANGED <<mode, reload, ring, user, entries, next, policy, reported, settled,
                 readings, denied, calls, doomed>>

Top ==
  /\ loop = "top"
  /\ loop' = IF reload THEN "parse" ELSE "wait"
  /\ reload' = FALSE
  /\ UNCHANGED <<mode, ring, user, entries, next, policy, reported, settled, readings, child>>

\* Mutant: the map is emptied before the new entries are installed.
ParseClears ==
  /\ loop = "parse"
  /\ entries' = Builds[disk] /\ next' = 0
  /\ \/ entries' = << >> /\ loop' = "wait" /\ UNCHANGED <<readings, policy>>
     \/ /\ entries' # << >> /\ loop' = "update" /\ policy' = << >>
        /\ readings' = Append(readings, disk)
  /\ UNCHANGED <<mode, reload, ring, user, reported, settled, child>>

\* A binary that does not parse, or has no entries, leaves the policy alone.
Parse ==
  /\ loop = "parse"
  /\ entries' = Builds[disk] /\ next' = 0
  /\ \/ entries' = << >> /\ loop' = "wait" /\ UNCHANGED readings
     \/ entries' # << >> /\ loop' = "update" /\ readings' = Append(readings, disk)
  /\ UNCHANGED <<mode, reload, ring, user, policy, reported, settled, child>>

\* Mutant: the last entry is left out.
UpdateShort ==
  /\ loop = "update"
  /\ IF next + 1 < Len(entries)
     THEN InstallNext /\ UNCHANGED loop
     ELSE loop' = "wait" /\ UNCHANGED <<policy, next>>
  /\ UNCHANGED <<mode, reload, ring, user, entries, reported, settled, readings, child>>

Update ==
  /\ loop = "update"
  /\ IF next < Len(entries)
     THEN InstallNext /\ UNCHANGED loop
     ELSE loop' = "wait" /\ UNCHANGED <<policy, next>>
  /\ UNCHANGED <<mode, reload, ring, user, entries, reported, settled, readings, child>>

\* waitpid(WNOHANG) reports the process once all its threads are dead.
Wait ==
  /\ loop = "wait"
  /\ \/ /\ \A t \in Threads : at[t] = "dead"
        /\ loop' = "over" /\ UNCHANGED settled
     \/ /\ \E t \in Threads : at[t] # "dead"
        /\ loop' = "poll" /\ settled' = {}
  /\ UNCHANGED <<mode, reload, ring, user, entries, next, policy, reported, readings, child>>

\* Mutant: records that are not submitted are passed over.
ConsumeSubmitted ==
  /\ loop = "poll"
  /\ \E k \in DOMAIN ring :
       /\ ~ring[k].busy /\ \A j \in 1..(k - 1) : ring[j].busy
       /\ reported' = [reported EXCEPT ![ring[k].event.tid] = ring[k].event.nth]
       /\ ring' = SubSeq(ring, 1, k - 1) \o SubSeq(ring, k + 1, Len(ring))
  /\ UNCHANGED <<mode, reload, user, loop, entries, next, policy, settled, readings, child>>

\* ring_buffer__poll hands the records over in order and stops at one that is
\* not submitted yet.
Consume ==
  /\ loop = "poll"
  /\ ring # << >> /\ ~ring[1].busy
  /\ reported' = [reported EXCEPT ![ring[1].event.tid] = ring[1].event.nth]
  /\ ring' = Tail(ring)
  /\ UNCHANGED <<mode, reload, user, loop, entries, next, policy, settled, readings, child>>

SubmittedNow == {ring[k].event : k \in {j \in DOMAIN ring : ~ring[j].busy}}

\* Mutant: a poll may leave submitted records behind.
PollDoneEarly ==
  /\ loop = "poll"
  /\ loop' = "top"
  /\ settled' = SubmittedNow
  /\ UNCHANGED <<mode, reload, ring, user, entries, next, policy, reported, readings, child>>

PollDone ==
  /\ loop = "poll"
  /\ ring # << >> => ring[1].busy
  /\ loop' = "top"
  /\ settled' = SubmittedNow
  /\ UNCHANGED <<mode, reload, ring, user, entries, next, policy, reported, readings, child>>

-----------------------------------------------------------------------------

\* sighup_handler
Hangup ==
  /\ loop # "over" /\ hups < MaxHangups
  /\ hups' = hups + 1
  /\ reload' = TRUE
  /\ fresh' = TRUE
  /\ UNCHANGED <<mode, ring, disk, edits, reader, child>>

\* The user installs another build.
Edit ==
  /\ edits < MaxEdits
  /\ edits' = edits + 1
  /\ disk' \in DOMAIN Builds \ {disk}
  /\ fresh' = FALSE
  /\ UNCHANGED <<mode, reload, ring, hups, reader, child>>

Hook(t) == Reserve(t) \/ Submit(t) \/ Signal(t)
Main    == Install \/ Detach \/ Top \/ Parse \/ Update \/ Wait \/ Consume \/ PollDone

Next ==
  \/ Main
  \/ \E t \in Threads : Enter(t) \/ Hook(t) \/ Return(t) \/ Die(t) \/ Exit(t)
  \/ Hangup \/ Edit

Spec == Init /\ [][Next]_vars

\* The scheduler runs the loader; a hook runs to its end once it has started,
\* and the kernel carries out fatal signals.  A call of a process that is not
\* being killed may block for ever.
Fairness ==
  /\ WF_vars(Main)
  /\ \A t \in Threads : WF_vars(Hook(t)) /\ WF_vars(Die(t)) /\ WF_vars(doomed /\ Return(t))

FairSpec == Spec /\ Fairness

-----------------------------------------------------------------------------
(* Properties.                                                             *)

\* The sites of a build, and what it says of each: the last entry counts.
Sites == [b \in DOMAIN Builds |-> {Builds[b][k].site : k \in DOMAIN Builds[b]}]
Says  ==
  [b \in DOMAIN Builds |-> [o \in Sites[b] |->
     Rule(Builds[b][Max({k \in DOMAIN Builds[b] : Builds[b][k].site = o})])]]

\* Type invariant: the map and the ring buffer stay within their sizes, and a
\* thread has one record to fill in at most.
TypeOK ==
  /\ mode \in Modes
  /\ loop \in {"install", "top", "parse", "update", "wait", "poll", "over"}
  /\ reload \in BOOLEAN /\ doomed \in BOOLEAN /\ fresh \in BOOLEAN
  /\ next \in 0..Len(entries)
  /\ DOMAIN policy \subseteq Nat /\ Cardinality(DOMAIN policy) <= MapCap
  /\ Len(ring) <= RingCap
  /\ at \in [Threads -> {"stopped", "user", "emit", "fill", "signal", "inside", "dead"}]
  /\ denied \in [Threads -> BOOLEAN]
  /\ \A t \in Threads : calls[t] \in 0..MaxCalls[t]
  /\ \A t \in Threads :
       at[t] = "fill" <=> \E k \in DOMAIN ring : ring[k].busy /\ ring[k].event = Event(t)
  /\ disk \in DOMAIN Builds /\ hups \in 0..MaxHangups /\ edits \in 0..MaxEdits

\* Between two reloads the map answers for every offset in it as the newest
\* build read that lists the offset; a binary replaced without a SIGHUP has no
\* say, nor has an older build (loader.c:1900-1922).
NewestRule ==
  loop \notin {"install", "update"} =>
    \A o \in DOMAIN policy :
      LET k == Max({j \in DOMAIN readings : o \in Sites[readings[j]]})
      IN  policy[o] = Says[readings[k]][o]

\* Calls that every entry for their site permits, in every build.
Steady ==
  {c \in {<<o, nr>> : o \in Offsets, nr \in Nrs} :
     \A b \in DOMAIN Builds : Builds[b] # << >> =>
       /\ c[1] \in Sites[b]
       /\ \A k \in DOMAIN Builds[b] :
            Builds[b][k].site = c[1] => NrPermitted(Rule(Builds[b][k]), c[2])}

\* A call that every build permits is never refused, however a hook interleaves
\* with the updates of a reload.
NoGapDuringReload == loop # "install" => \A c \in Steady : Allowed(c[1], c[2])

\* A SIGHUP takes effect: once it has been handled, and while the binary is
\* still the one it was sent for, every entry of the binary is in the map,
\* unless the map is full.
ReloadInstalls ==
  (fresh /\ ~reload /\ loop \notin {"install", "parse", "update"} /\ Sites[disk] # {}) =>
    /\ readings[Len(readings)] = disk
    /\ \A o \in Sites[disk] : o \in DOMAIN policy \/ Cardinality(DOMAIN policy) = MapCap

\* When the loop ends, the oldest event left in the ring buffer was not yet
\* submitted when the last poll ended: an event is left behind only by a hook
\* that was still at work then (loader.c:1931-1943).
LeftoverIsRecent ==
  loop = "over" /\ ring # << >> => ring[1].event \notin settled

Audit == INSTANCE AuditLog WITH
  Capacity <- RingCap,
  Calls    <- UNION {1..MaxCalls[t] : t \in Threads},
  waiting  <- [k \in DOMAIN ring |-> ring[k].event]

\* Reservation, submission and polling implement the audit log: threads whose
\* hooks overlap never have an event reported twice or before an earlier one
\* of the same thread.
AuditSpec == Audit!Spec

\* In kill mode a denied call ends the process and the supervision of it, also
\* when its event finds no room in the ring buffer.
DenialEndsSupervision ==
  (mode = "kill" /\ \E t \in Threads : denied[t]) ~> (loop = "over")

=============================================================================
