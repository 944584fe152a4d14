------------------------------- MODULE Loader -------------------------------
(***************************************************************************)
(* The life of one sentinel-loader process (src/src/runtime/loader.c),     *)
(* interleaved with the child it launches under ptrace, the signals it     *)
(* catches, and the edits a user makes to the binary.                      *)
(*                                                                         *)
(* One value of pc stands for one place in main() at which the process can *)
(* be preempted by a signal or at which another process can be scheduled   *)
(* with a visible effect.  The SIGINT/SIGTERM handler never returns, so    *)
(* only its innermost activation matters; it masks only its own signal     *)
(* (empty sa_mask), so the other one may interrupt it.                     *)
(***************************************************************************)
EXTENDS Naturals

CONSTANTS
  Images,      \* what exec may start: a subset of {"ld", "static"}
  StepLimit,   \* PTRACE_STEP_LIMIT: stops tolerated while waiting for libc
  RingCap,     \* audit events that fit into audit_ringbuf
  MaxHangups,  \* bound: SIGHUPs the user sends
  MaxEdits,    \* bound: times the user replaces the binary on disk
  TermSignals  \* termination signals the user may send: subset of {2, 15}

ASSUME LoaderConstants ==
  /\ Images \subseteq {"ld", "static"}
  /\ StepLimit \in Nat
  /\ RingCap \in Nat
  /\ MaxHangups \in Nat
  /\ MaxEdits \in Nat
  /\ TermSignals \subseteq {2, 15}

VARIABLES
  pc,         \* where main() is
  audit,      \* audit_mode
  gchild,     \* g_child holds the child's pid
  skel,       \* g_skel: "null", "live", or "dangling" (destroyed, not cleared)
  attached,   \* the BPF programs are attached
  maps,       \* which maps hold this child's data
  rb,         \* a ring buffer consumer exists
  ring,       \* audit events submitted and not yet consumed
  libc,       \* libc_base # 0
  steps,      \* iterations of the libc wait loop
  status,     \* what the last successful waitpid stored
  exit,       \* the process's exit code, 255 while it runs
  hpc,        \* where the innermost signal_handler activation is
  hsig,       \* the signal it handles
  caught,     \* signals whose handler has been entered
  shutdown,   \* g_shutdown
  reload,     \* g_reload
  hups,       \* SIGHUPs delivered so far
  child,      \* scheduling state of the child, as the kernel sees it
  image,      \* what the child is executing
  death,      \* how the child ended
  sigs,       \* signals sent to the child and not yet taken
  fileVer,    \* version of the binary on disk
  lookVer,    \* version parse_sentinel_section last looked at
  wantVer,    \* version on disk when the last SIGHUP was delivered
  unchecked,  \* history: the program made a syscall before it was enrolled
  fault,      \* history: sentinel_bpf__destroy ran on a destroyed skeleton
  eintr       \* history: SIGHUP interrupted a blocking waitpid

bpf   == <<skel, attached, maps, rb, ring>>
libcw == <<libc, steps>>
sigv  == <<hpc, hsig, caught, shutdown, reload, hups>>
proc  == <<child, image, death, sigs>>
vers  == <<fileVer, lookVer, wantVer>>
hist  == <<unchecked, fault, eintr>>

vars == <<pc, audit, gchild, bpf, libcw, status, exit, sigv, proc, vers, hist>>

-----------------------------------------------------------------------------
(* The child, as wait and ptrace see it.                                   *)

Dead  == {"none", "zombie", "reaped"}
Alive == child \notin Dead

\* Running, and not about to be killed.
Surviving == Alive /\ "KILL" \notin sigs

\* waitpid(g_child, ..., 0) would return without blocking.
WaitReady == child \in {"stopped", "zombie", "reaped"}

\* What waitpid collects: a stop is reported once, a zombie is reaped, and
\* ECHILD leaves child and status word as they were.
Collect ==
  child' = CASE child = "stopped" -> "held"
             [] child = "zombie"  -> "reaped"
             [] OTHER             -> child

StoreStatus(ptraceStop) ==
  status' = CASE child = "stopped" -> ptraceStop
              [] child = "zombie"  -> death
              [] OTHER             -> status

\* Mutant: libc is recognised only once the dynamic linker is done.
LibcMappedLate == Alive /\ image \in {"loader", "main"}

\* get_libc_base: the child's /proc maps name a libc.  A forked child that
\* has not called exec yet still has the loader's own maps.
LibcMapped ==
  Alive /\ image \in {"loader", "mapped", "binding", "linked", "main"}

Tracked == "pid" \in maps

\* The main program runs, as opposed to the dynamic linker.
InProgram == image \in {"main", "static"}

-----------------------------------------------------------------------------
(* Steps of main() happen only when no signal handler is active.           *)

At(l) == pc = l /\ hpc = "none"

Goto(from, to) == At(from) /\ pc' = to

\* The process ends: the kernel closes its BPF links and maps, detaches the
\* tracee and lets it run, and gives a zombie child to init.
Exit(code) ==
  /\ pc' = "exited"
  /\ exit' = code
  /\ attached' = FALSE
  /\ hpc' = "none"
  /\ child' = CASE child \in {"traced", "stopped", "held"} -> "free"
                [] child = "zombie" -> "reaped"
                [] OTHER -> child

\* return from main() without touching anything else
Return(code) ==
  /\ Exit(code)
  /\ UNCHANGED <<audit, gchild, skel, maps, rb, ring, libcw, status, hsig, caught,
                 shutdown, reload, hups, image, death, sigs, vers, hist>>

\* sentinel_bpf__destroy(g_skel): the pointer itself is not cleared.
DestroySkel ==
  /\ skel' = "dangling"
  /\ attached' = FALSE
  /\ fault' = (fault \/ skel = "dangling")

\* if (g_skel) sentinel_bpf__destroy(g_skel)
DestroyIfSet ==
  \/ skel # "null" /\ DestroySkel
  \/ skel = "null" /\ UNCHANGED <<skel, attached, fault>>

-----------------------------------------------------------------------------
(* Start-up: command line, policy, BPF (main, loader.c:1088-1209).         *)

Init ==
  /\ pc = "args" /\ exit = 255
  /\ hpc = "none" /\ hsig = 0 /\ caught = {}
  /\ audit = FALSE
  /\ gchild = FALSE /\ status = "uninit"
  /\ skel = "null" /\ attached = FALSE /\ maps = {}
  /\ rb = FALSE /\ ring = 0
  /\ libc = FALSE /\ steps = 0
  /\ shutdown = FALSE /\ reload = FALSE /\ hups = 0
  /\ child = "none" /\ image = "none" /\ death = "none" /\ sigs = {}
  /\ fileVer = 0 /\ lookVer = 0 /\ wantVer = 0
  /\ unchecked = FALSE /\ fault = FALSE /\ eintr = FALSE

\* --audit, --permissive or --enforce=permissive; the other options set only
\* g_enforce_mode, which is handed to the BPF programs (module Enforcer).
ParseOption ==
  /\ At("args")
  /\ audit' = TRUE
  /\ UNCHANGED <<pc, gchild, bpf, libcw, status, exit, sigv, proc, vers, hist>>

\* --help and --version return 0; no binary, or one that cannot be opened, 1.
StopAtArgs == At("args") /\ \E code \in {0, 1} : Return(code)

\* The first argument that is no option names the binary; the handlers are
\* installed and the binary is opened for fexecve.
OpenBinary ==
  /\ Goto("args", "parse")
  /\ UNCHANGED <<audit, gchild, bpf, libcw, status, exit, sigv, proc, vers, hist>>

\* parse_sentinel_section opens the path a second time.
ParsePolicy ==
  \/ /\ Goto("parse", "bpf")
     /\ lookVer' = fileVer
     /\ UNCHANGED <<audit, gchild, bpf, libcw, status, exit, sigv, proc,
                    fileVer, wantVer, hist>>
  \/ At("parse") /\ Return(1)

OpenBpf ==
  \/ /\ Goto("bpf", "load")
     /\ skel' = "live"
     /\ UNCHANGED <<audit, gchild, attached, maps, rb, ring, libcw, status, exit,
                    sigv, proc, vers, hist>>
  \/ At("bpf") /\ Return(1)

\* Mutant: the [FATAL] path goes on to the common cleanup.
DestroyAndFailCleanup(from) ==
  /\ Goto(from, "cleanup")
  /\ DestroySkel
  /\ UNCHANGED <<audit, gchild, maps, rb, ring, libcw, status, exit, sigv, proc,
                 vers, unchecked, eintr>>

\* A [FATAL] path that destroys the skeleton and leaves g_skel set.
DestroyAndFail(from) ==
  /\ Goto(from, "fail_return")
  /\ DestroySkel
  /\ UNCHANGED <<audit, gchild, maps, rb, ring, libcw, status, exit, sigv, proc,
                 vers, unchecked, eintr>>

LoadBpf ==
  \/ /\ Goto("load", "attach")
     /\ UNCHANGED <<audit, gchild, bpf, libcw, status, exit, sigv, proc, vers, hist>>
  \/ DestroyAndFail("load")

AttachBpf ==
  \/ /\ Goto("attach", "ring")
     /\ attached' = TRUE
     /\ UNCHANGED <<audit, gchild, skel, maps, rb, ring, libcw, status, exit, sigv,
                    proc, vers, hist>>
  \/ DestroyAndFail("attach")

\* Without --audit there is no consumer; a failure to create one only warns.
SetupRing ==
  /\ Goto("ring", "fork")
  /\ rb' \in {audit, FALSE}
  /\ UNCHANGED <<audit, gchild, skel, attached, maps, ring, libcw, status, exit,
                 sigv, proc, vers, hist>>

FailReturn == At("fail_return") /\ Return(1)

-----------------------------------------------------------------------------
(* Launch: fork, the exec trap, the wait for libc (loader.c:1227-1282).    *)

Fork ==
  \/ /\ Goto("fork", "forked")
     /\ child' = "forked"
     /\ image' = "loader"
     /\ UNCHANGED <<audit, gchild, bpf, libcw, status, exit, sigv, death, sigs,
                    vers, hist>>
  \/ DestroyAndFail("fork")

\* fork() has returned; only now is its result stored in g_child.
StoreChild ==
  /\ Goto("forked", "wait_exec")
  /\ gchild' = TRUE
  /\ UNCHANGED <<audit, bpf, libcw, status, exit, sigv, proc, vers, hist>>

WaitExec ==
  /\ Goto("wait_exec", "check_trap")
  /\ WaitReady
  /\ Collect
  /\ StoreStatus("trap")
  /\ UNCHANGED <<audit, gchild, bpf, libcw, exit, sigv, image, death, sigs, vers,
                 hist>>

\* status is uninitialised when waitpid was interrupted: it may look like
\* the trap or like anything else.
CheckTrap ==
  /\ At("check_trap")
  /\ \/ status \in {"trap", "uninit"} /\ pc' = "libc_check" /\ status' = "trap"
     \/ status # "trap" /\ pc' = "fail_kill" /\ UNCHANGED status
  /\ UNCHANGED <<audit, gchild, bpf, libcw, exit, sigv, proc, vers, hist>>

\* kill(g_child, SIGKILL)
SendKill == sigs' = IF Alive THEN sigs \cup {"KILL"} ELSE sigs

\* Mutant: the child is waited for but not killed.
FailKillOmitted ==
  /\ Goto("fail_kill", "fail_wait")
  /\ UNCHANGED <<audit, gchild, bpf, libcw, status, exit, sigv, proc, vers, hist>>

FailKill ==
  /\ Goto("fail_kill", "fail_wait")
  /\ SendKill
  /\ UNCHANGED <<audit, gchild, bpf, libcw, status, exit, sigv, child, image,
                 death, vers, hist>>

\* waitpid(g_child, NULL, 0)
WaitKilled(from, to) ==
  /\ Goto(from, to)
  /\ WaitReady
  /\ Collect
  /\ UNCHANGED <<audit, gchild, bpf, libcw, status, exit, sigv, image, death, sigs,
                 vers, hist>>

\* waitpid(g_child, &status, 0)
WaitStatus(from, to) ==
  /\ Goto(from, to)
  /\ WaitReady
  /\ Collect
  /\ StoreStatus("stop")
  /\ UNCHANGED <<audit, gchild, bpf, libcw, exit, sigv, image, death, sigs, vers,
                 hist>>

FailWait == WaitKilled("fail_wait", "fail_destroy")

FailDestroy == DestroyAndFail("fail_destroy")

LibcCheck ==
  /\ At("libc_check")
  /\ libc' = LibcMapped
  /\ pc' = IF LibcMapped THEN "vma" ELSE "resume"
  /\ UNCHANGED <<audit, gchild, bpf, steps, status, exit, sigv, proc, vers, hist>>

\* PTRACE_SYSCALL fails (ignored) unless the child is in a ptrace stop.
Resume ==
  /\ Goto("resume", "wait_step")
  /\ child' = IF child \in {"stopped", "held"} THEN "traced" ELSE child
  /\ UNCHANGED <<audit, gchild, bpf, libcw, status, exit, sigv, image, death, sigs,
                 vers, hist>>

WaitStep == WaitStatus("wait_step", "step_test")

\* Mutant: the limit is tested before the increment.
StepTestLate ==
  /\ At("step_test")
  /\ \/ /\ status \in {"exit0", "exit1"}
        /\ pc' = "vma"
        /\ UNCHANGED steps
     \/ /\ status \notin {"exit0", "exit1"}
        /\ steps' = steps + 1
        /\ pc' = IF steps > StepLimit THEN "vma" ELSE "libc_check"
  /\ UNCHANGED <<audit, gchild, bpf, libc, status, exit, sigv, proc, vers, hist>>

\* Mutant: the stops are not counted.
StepTestUncounted ==
  /\ At("step_test")
  /\ pc' = IF status \in {"exit0", "exit1"} THEN "vma" ELSE "libc_check"
  /\ UNCHANGED <<audit, gchild, bpf, libcw, status, exit, sigv, proc, vers, hist>>

\* Only WIFEXITED ends the loop; a signaled child runs into the limit.
StepTest ==
  /\ At("step_test")
  /\ \/ /\ status \in {"exit0", "exit1"}
        /\ pc' = "vma"
        /\ UNCHANGED steps
     \/ /\ status \notin {"exit0", "exit1"}
        /\ steps' = steps + 1
        /\ pc' = IF steps' > StepLimit THEN "vma" ELSE "libc_check"
  /\ UNCHANGED <<audit, gchild, bpf, libc, status, exit, sigv, proc, vers, hist>>

-----------------------------------------------------------------------------
(* Policy: VMA blocks, policy maps, enrolment (loader.c:1284-1893).        *)

\* populate_vma_for_module finds no line when the child is gone or has not
\* called exec; the loader goes on either way.
PopulateVma ==
  /\ Goto("vma", "main_map")
  /\ maps' = IF Alive /\ image # "loader" THEN maps \cup {"vma"} ELSE maps
  /\ UNCHANGED <<audit, gchild, skel, attached, rb, ring, libcw, status, exit, sigv,
                 proc, vers, hist>>

\* Install a map and go on, or skip to cleanup.
InstallOrAbandon(from, to, map) ==
  /\ At(from)
  /\ \/ pc' = to /\ maps' = maps \cup {map}
     \/ pc' = "cleanup" /\ UNCHANGED maps
  /\ UNCHANGED <<audit, gchild, skel, attached, rb, ring, libcw, status, exit, sigv,
                 proc, vers, hist>>

\* The main policy map cannot be created or registered: goto cleanup.
InstallMain == InstallOrAbandon("main_map", "libc_map", "main")

\* A libc map that cannot be registered: goto cleanup.
InstallLibc == libc /\ InstallOrAbandon("libc_map", "track", "libc")

\* No libc, or a libc map that cannot be created: go on without it.
SkipLibc ==
  /\ Goto("libc_map", "track")
  /\ UNCHANGED <<audit, gchild, bpf, libcw, status, exit, sigv, proc, vers, hist>>

\* Mutant: a failed enrolment only warns.
TrackWarns ==
  /\ Goto("track", "detach")
  /\ maps' \in {maps, maps \cup {"pid"}}
  /\ UNCHANGED <<audit, gchild, skel, attached, rb, ring, libcw, status, exit, sigv,
                 proc, vers, hist>>

\* Enrol the child's TGID, or kill it and clean up.
Track ==
  /\ At("track")
  /\ \/ /\ pc' = "detach"
        /\ maps' = maps \cup {"pid"}
        /\ UNCHANGED sigs
     \/ /\ pc' = "track_wait"
        /\ SendKill
        /\ UNCHANGED maps
  /\ UNCHANGED <<audit, gchild, skel, attached, rb, ring, libcw, status, exit, sigv,
                 child, image, death, vers, hist>>

TrackWait == WaitKilled("track_wait", "cleanup")

\* Mutant: the child is continued with PTRACE_SYSCALL instead.
DetachResumes ==
  /\ Goto("detach", IF rb THEN "audit" ELSE "wait")
  /\ child' = IF child \in {"stopped", "held"} THEN "traced" ELSE child
  /\ UNCHANGED <<audit, gchild, bpf, libcw, status, exit, sigv, image, death, sigs,
                 vers, hist>>

\* PTRACE_DETACH fails (ignored) unless the child is in a ptrace stop.
Detach ==
  /\ Goto("detach", IF rb THEN "audit" ELSE "wait")
  /\ child' = IF child \in {"stopped", "held"} THEN "free" ELSE child
  /\ UNCHANGED <<audit, gchild, bpf, libcw, status, exit, sigv, image, death, sigs,
                 vers, hist>>

-----------------------------------------------------------------------------
(* Supervision and cleanup (loader.c:1895-1969).                           *)

\* while (!g_shutdown): a pending reload is acknowledged before the file is read.
AuditTop ==
  /\ At("audit")
  /\ pc' = IF shutdown THEN "ring_free" ELSE IF reload THEN "reload" ELSE "poll_wait"
  /\ reload' = (reload /\ shutdown)
  /\ UNCHANGED <<audit, gchild, bpf, libcw, status, exit, hpc, hsig, caught,
                 shutdown, hups, proc, vers, hist>>

\* Mutant: the entries parsed at start-up are installed again.
ReloadStale ==
  /\ Goto("reload", "poll_wait")
  /\ UNCHANGED <<audit, gchild, bpf, libcw, status, exit, sigv, proc, vers, hist>>

Reload ==
  /\ Goto("reload", "poll_wait")
  /\ lookVer' = fileVer
  /\ UNCHANGED <<audit, gchild, bpf, libcw, status, exit, sigv, proc, fileVer,
                 wantVer, hist>>

\* Mutant: only WIFEXITED ends the loop.
PollWaitExitOnly ==
  /\ At("poll_wait")
  /\ Collect
  /\ StoreStatus("stop")
  /\ pc' = IF child = "zombie" /\ death # "signaled" THEN "ring_free" ELSE "poll_ring"
  /\ UNCHANGED <<audit, gchild, bpf, libcw, exit, sigv, image, death, sigs, vers,
                 hist>>

\* waitpid(WNOHANG): a dead child ends the loop, a stop or ECHILD does not.
PollWait ==
  /\ At("poll_wait")
  /\ Collect
  /\ StoreStatus("stop")
  /\ pc' = IF child = "zombie" THEN "ring_free" ELSE "poll_ring"
  /\ UNCHANGED <<audit, gchild, bpf, libcw, exit, sigv, image, death, sigs, vers,
                 hist>>

\* ring_buffer__poll hands every submitted event to audit_event_handler.
PollRing ==
  /\ Goto("poll_ring", "audit")
  /\ ring' = 0
  /\ UNCHANGED <<audit, gchild, skel, attached, maps, rb, libcw, status, exit, sigv,
                 proc, vers, hist>>

RingFree ==
  /\ Goto("ring_free", "cleanup")
  /\ rb' = FALSE
  /\ UNCHANGED <<audit, gchild, skel, attached, maps, ring, libcw, status, exit, sigv,
                 proc, vers, hist>>

SimpleWait == WaitStatus("wait", "cleanup")

Cleanup ==
  /\ Goto("cleanup", "return")
  /\ DestroyIfSet
  /\ UNCHANGED <<audit, gchild, maps, rb, ring, libcw, status, exit, sigv, proc, vers,
                 unchecked, eintr>>

\* g_skel = NULL; return 0
ReturnZero ==
  /\ At("return")
  /\ skel' = "null"
  /\ Exit(0)
  /\ UNCHANGED <<audit, gchild, maps, rb, ring, libcw, status, hsig, caught, shutdown,
                 reload, hups, image, death, sigs, vers, hist>>

-----------------------------------------------------------------------------
(* Signals (loader.c:59-88).  The handlers are in place once pc has left   *)
(* "args"; SA_RESTART is not set, so a wait that would block returns EINTR. *)

\* Where main() continues when the wait it is blocked in is interrupted.
Interrupted ==
  [wait_exec |-> "check_trap", fail_wait |-> "fail_destroy",
   wait_step |-> "step_test", track_wait |-> "cleanup", wait |-> "cleanup"]

\* sighup_handler: the signal may also come just before the wait begins.
Hangup ==
  /\ pc \notin {"args", "exited"}
  /\ hups < MaxHangups
  /\ hups' = hups + 1
  /\ reload' = TRUE
  /\ wantVer' = fileVer
  /\ \/ UNCHANGED <<pc, eintr>>
     \/ /\ hpc = "none" /\ pc \in DOMAIN Interrupted /\ ~WaitReady
        /\ pc' = Interrupted[pc]
        /\ eintr' = TRUE
  /\ UNCHANGED <<audit, gchild, bpf, libcw, status, exit, hpc, hsig, caught, shutdown,
                 proc, fileVer, lookVer, unchecked, fault>>

\* SIGINT or SIGTERM: signal_handler is entered.
Catch(sig) ==
  /\ pc \notin {"args", "exited"}
  /\ sig \notin caught
  /\ caught' = caught \cup {sig}
  /\ hsig' = sig
  /\ hpc' = "kill"
  /\ UNCHANGED <<pc, audit, gchild, bpf, libcw, status, exit, shutdown, reload, hups,
                 proc, vers, hist>>

HandlerGoto(from, to) == pc # "exited" /\ hpc = from /\ hpc' = to

\* g_shutdown = 1; if (g_child > 0) { kill(SIGTERM); waitpid(WNOHANG); }
HandlerKill ==
  /\ HandlerGoto("kill", "destroy")
  /\ shutdown' = TRUE
  /\ IF gchild
     THEN Collect /\ sigs' = IF Alive THEN sigs \cup {"TERM"} ELSE sigs
     ELSE UNCHANGED <<child, sigs>>
  /\ UNCHANGED <<pc, audit, gchild, bpf, libcw, status, exit, hsig, caught, reload,
                 hups, image, death, vers, hist>>

HandlerDestroy ==
  /\ HandlerGoto("destroy", "clear")
  /\ DestroyIfSet
  /\ UNCHANGED <<pc, audit, gchild, maps, rb, ring, libcw, status, exit, hsig, caught,
                 shutdown, reload, hups, proc, vers, unchecked, eintr>>

\* g_skel = NULL; _exit(128 + sig)
HandlerExit ==
  /\ pc # "exited" /\ hpc = "clear"
  /\ skel' = "null"
  /\ Exit(128 + hsig)
  /\ UNCHANGED <<audit, gchild, maps, rb, ring, libcw, status, hsig, caught, shutdown,
                 reload, hups, image, death, sigs, vers, hist>>

\* Destroying a destroyed skeleton is undefined: the process may go on, or
\* die of SIGABRT at any later point.
Crash == fault /\ pc # "exited" /\ Return(134)

-----------------------------------------------------------------------------
(* The child (loader.c:1234-1243, then the program itself).                *)

\* An orphan's zombie is reaped by init.
Die(how) ==
  /\ child' = IF pc = "exited" THEN "reaped" ELSE "zombie"
  /\ death' = how
  /\ sigs' = {}
  /\ UNCHANGED <<pc, audit, gchild, bpf, libcw, status, exit, sigv, image, vers, hist>>

\* ptrace(PTRACE_TRACEME)
ChildTraceme ==
  /\ child = "forked"
  /\ child' = "traced"
  /\ UNCHANGED <<pc, audit, gchild, bpf, libcw, status, exit, sigv, image, death, sigs,
                 vers, hist>>

\* fexecve: a tracee stops with SIGTRAP; on failure _exit(1).
ChildExec ==
  /\ image = "loader" /\ child \in {"traced", "free"}
  /\ \/ /\ image' \in Images
        /\ child' = IF child = "traced" THEN "stopped" ELSE child
        /\ UNCHANGED <<pc, audit, gchild, bpf, libcw, status, exit, sigv, death, sigs,
                       vers, hist>>
     \/ Die("exit1")

\* The dynamic linker maps libc (several mmap calls), then enters the program.
ChildAdvance ==
  /\ \/ child \in {"traced", "free"} /\ image = "ld" /\ image' = "mapped"
     \/ child = "free" /\ image \in {"mapped", "binding"} /\ image' = "linked"
     \/ child \in {"traced", "free"} /\ image = "linked" /\ image' = "main"
  /\ UNCHANGED <<pc, audit, gchild, bpf, libcw, status, exit, sigv, child, death, sigs,
                 vers, hist>>

\* A tracee stops at the next syscall boundary or to have a signal delivered.
ChildStop ==
  /\ child = "traced"
  /\ image # "loader" \/ "TERM" \in sigs
  /\ child' = "stopped"
  /\ image' = CASE image = "mapped"  -> "binding"
                [] image = "binding" -> "linked"
                [] OTHER             -> image
  /\ unchecked' = (unchecked \/ (InProgram /\ attached /\ ~Tracked))
  /\ UNCHANGED <<pc, audit, gchild, bpf, libcw, status, exit, sigv, death, sigs, vers,
                 fault, eintr>>

\* A syscall of the running program reaches a hook, which may submit one
\* event; a full ring buffer drops it.
ChildSyscall ==
  /\ child = "free" /\ InProgram /\ attached
  /\ unchecked' = (unchecked \/ ~Tracked)
  /\ ring' = IF Tracked /\ ring < RingCap THEN ring + 1 ELSE ring
  /\ UNCHANGED <<pc, audit, gchild, skel, attached, maps, rb, libcw, status, exit, sigv,
                 proc, vers, fault, eintr>>

ChildExits ==
  /\ child \in {"traced", "free"} /\ image \notin {"loader", "mapped"}
  /\ \E code \in {"exit0", "exit1"} : Die(code)

\* SIGKILL from the enforcer or from anyone else, or a fatal fault.
ChildKilled == Alive /\ Die("signaled")

ChildTakesKill == Alive /\ "KILL" \in sigs /\ Die("signaled")

\* SIGTERM from the handler: before exec the child still has the loader's
\* handler, which exits; the dynamic linker dies of it; a program may
\* handle or ignore it.
ChildTakesTerm ==
  /\ "TERM" \in sigs
  /\ \/ image = "loader" /\ child \in {"forked", "free"} /\ Die("exit1")
     \/ image # "loader" /\ child = "free" /\ Die("signaled")
     \/ /\ InProgram /\ child = "free"
        /\ sigs' = sigs \ {"TERM"}
        /\ UNCHANGED <<pc, audit, gchild, bpf, libcw, status, exit, sigv, child, image,
                       death, vers, hist>>

-----------------------------------------------------------------------------

\* The user installs a new build of the binary.
EditBinary ==
  /\ fileVer < MaxEdits
  /\ pc # "exited"
  /\ fileVer' = fileVer + 1
  /\ UNCHANGED <<pc, audit, gchild, bpf, libcw, status, exit, sigv, proc, lookVer,
                 wantVer, hist>>

Startup ==
  \/ StopAtArgs \/ OpenBinary \/ ParsePolicy
  \/ OpenBpf \/ LoadBpf \/ AttachBpf \/ SetupRing \/ FailReturn

Launch ==
  \/ Fork \/ StoreChild \/ WaitExec \/ CheckTrap
  \/ FailKill \/ FailWait \/ FailDestroy
  \/ LibcCheck \/ Resume \/ WaitStep \/ StepTest

Enrol ==
  \/ PopulateVma \/ InstallMain \/ InstallLibc \/ SkipLibc
  \/ Track \/ TrackWait \/ Detach

Supervise ==
  \/ AuditTop \/ Reload \/ PollWait \/ PollRing \/ RingFree
  \/ SimpleWait \/ Cleanup \/ ReturnZero

Main == Startup \/ Launch \/ Enrol \/ Supervise

Handler == HandlerKill \/ HandlerDestroy \/ HandlerExit

Child ==
  \/ ChildTraceme \/ ChildExec \/ ChildAdvance \/ ChildStop \/ ChildSyscall
  \/ ChildExits \/ ChildKilled \/ ChildTakesKill \/ ChildTakesTerm

Environment ==
  Hangup \/ (\E sig \in TermSignals : Catch(sig)) \/ EditBinary

Done == pc = "exited" /\ ~Alive /\ UNCHANGED vars

Next == ParseOption \/ Main \/ Handler \/ Crash \/ Child \/ Environment \/ Done

Spec == Init /\ [][Next]_vars

\* The scheduler runs the loader; the kernel carries out exec, fatal signals
\* and ptrace stops.  Nothing is assumed of the program itself: it may
\* compute, or wait, for ever.
Fairness ==
  /\ WF_vars(Main)
  /\ WF_vars(Handler)
  /\ WF_vars(ChildTraceme)
  /\ WF_vars(ChildExec)
  /\ WF_vars(ChildStop /\ ~InProgram)
  /\ WF_vars(ChildTakesKill)

FairSpec == Spec /\ Fairness

-----------------------------------------------------------------------------
(* Correctness.                                                            *)

MainLabels ==
  {"args", "parse", "bpf", "load", "attach", "ring", "fork", "forked",
   "wait_exec", "check_trap", "fail_kill", "fail_wait", "fail_destroy",
   "fail_return", "libc_check", "resume", "wait_step", "step_test", "vma",
   "main_map", "libc_map", "track", "track_wait", "detach", "audit", "reload",
   "poll_wait", "poll_ring", "ring_free", "wait", "cleanup", "return", "exited"}

\* After PTRACE_DETACH, waiting for the child (loader.c:1896-1956).
Supervising == {"audit", "reload", "poll_wait", "poll_ring", "wait"}

\* Type invariant: the values main(), the handlers and the kernel give to the
\* loader's state.
TypeOK ==
  /\ pc \in MainLabels
  /\ audit \in BOOLEAN
  /\ gchild \in BOOLEAN
  /\ skel \in {"null", "live", "dangling"}
  /\ attached \in BOOLEAN
  /\ maps \in SUBSET {"vma", "main", "libc", "pid"}
  /\ rb \in BOOLEAN /\ ring \in 0..RingCap
  /\ libc \in BOOLEAN /\ steps \in 0..(StepLimit + 1)
  /\ status \in {"uninit", "trap", "stop", "exit0", "exit1", "signaled"}
  /\ exit \in {0, 1, 130, 134, 143, 255}
  /\ hpc \in {"none", "kill", "destroy", "clear"}
  /\ hsig \in {0, 2, 15} /\ caught \in SUBSET {2, 15}
  /\ shutdown \in BOOLEAN /\ reload \in BOOLEAN /\ hups \in 0..MaxHangups
  /\ child \in {"none", "forked", "traced", "stopped", "held", "free", "zombie",
                "reaped"}
  /\ image \in {"none", "loader", "ld", "mapped", "binding", "linked",
                "main", "static"}
  /\ death \in {"none", "exit0", "exit1", "signaled"}
  /\ sigs \in SUBSET {"KILL", "TERM"}
  /\ fileVer \in 0..MaxEdits /\ lookVer \in 0..MaxEdits /\ wantVer \in 0..MaxEdits
  /\ unchecked \in BOOLEAN /\ fault \in BOOLEAN /\ eintr \in BOOLEAN

\* While the hooks are attached, a child that runs untraced is enrolled in
\* target_pid_map and its main policy map is registered: PTRACE_DETACH comes
\* after enrolment on every path, failures and interrupted waits included
\* (loader.c:1304-1893).
EnrolledBeforeFree ==
  child = "free" /\ attached => Tracked /\ "main" \in maps

\* A dynamically linked program never gets a syscall of its own past the
\* attached hooks before it is enrolled: the wait for libc leaves it stopped
\* inside the dynamic linker (loader.c:1264-1282).
LinkedProgramChecked == unchecked => image = "static"

\* main() tears enforcement down only when the child is dead or being killed;
\* the exceptions are an abandoned setup (goto cleanup before enrolment) and a
\* waitpid interrupted by SIGHUP (loader.c:1309-1321, 1369-1374, 1880-1956).
TeardownAfterDeath ==
  pc \in {"ring_free", "cleanup", "return"} => ~Surviving \/ ~Tracked \/ eintr

\* When the loader returns 1 no child survives it: a child that could not be
\* trapped at exec has been killed (loader.c:1250-1256).
FatalLeavesNoSurvivor == pc = "exited" /\ exit = 1 => ~Surviving

\* g_skel is left set where a [FATAL] path has destroyed it; no path of main()
\* destroys it again, only the handler of a termination signal that arrives in
\* between can (loader.c:65-68, 1181, 1188, 1230, 1254, 1964-1966).
DoubleDestroyNeedsSignal == fault => caught # {}

\* No SIGHUP is lost in the audit loop: with no reload pending, the policy was
\* read from a file at least as new as the one in place when the last SIGHUP
\* arrived (loader.c:1900-1909).
ReloadNotLost ==
  pc \in {"audit", "poll_wait", "poll_ring"} /\ ~reload => lookVer >= wantVer

\* A child that dies under supervision is noticed: the loader cleans up and
\* exits, in the audit loop as in the simple wait (loader.c:1896-1968).
DeathEndsLoader ==
  (child = "zombie" /\ pc \in Supervising) ~> (pc = "exited")

\* Setup of a dynamically linked child comes to an end: the wait for libc is
\* bounded by PTRACE_STEP_LIMIT (loader.c:1277-1281).
SetupCompletes ==
  (child # "none") ~> (pc \in Supervising \cup {"exited"})

=============================================================================
