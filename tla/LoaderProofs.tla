---------------------------- MODULE LoaderProofs ----------------------------
(***************************************************************************)
(* Type correctness and safety of the loader, for every step limit, ring   *)
(* size, number of hang-ups, edits and termination signals.                *)
(***************************************************************************)
EXTENDS Loader, TLAPS

\* Time for the larger steps.
USE SMTT(30)

-----------------------------------------------------------------------------
(* The type invariant by component, with the bounds and matches that type  *)
(* correctness itself rests on.                                            *)

PreFork ==
  {"args", "parse", "bpf", "load", "attach", "ring", "fork"}

\* Between fork() and the end of the wait for libc.
Launching ==
  {"forked", "wait_exec", "check_trap", "libc_check", "resume", "wait_step",
   "step_test"}

Setup == {"vma", "main_map", "libc_map", "track"}

ProgramType ==
  /\ pc \in MainLabels
  /\ skel \in {"null", "live", "dangling"}
  /\ audit \in BOOLEAN /\ gchild \in BOOLEAN
  /\ rb \in BOOLEAN /\ attached \in BOOLEAN

MapsType ==
  /\ maps \in SUBSET {"vma", "main", "libc", "pid"}
  /\ ring \in 0..RingCap

\* The step counter passes the limit only on the way out of the loop.
LoopType ==
  /\ libc \in BOOLEAN
  /\ steps \in 0..(StepLimit + 1)
  /\ pc \in PreFork \cup Launching => steps <= StepLimit

\* A zombie has a cause of death.
ChildType ==
  /\ status \in {"uninit", "trap", "stop", "exit0", "exit1", "signaled"}
  /\ death \in {"none", "exit0", "exit1", "signaled"}
  /\ child \in {"none", "forked", "traced", "stopped", "held", "free", "zombie",
                "reaped"}
  /\ child = "zombie" => death # "none"

ImageType ==
  /\ image \in {"none", "loader", "ld", "mapped", "binding", "linked",
                "main", "static"}
  /\ sigs \in SUBSET {"KILL", "TERM"}

\* An active handler has the signal it was entered for.
SignalType ==
  /\ hpc \in {"none", "kill", "destroy", "clear"}
  /\ hsig \in {0, 2, 15} /\ caught \in SUBSET {2, 15}
  /\ hpc # "none" => hsig \in {2, 15}

ExitType ==
  hups \in 0..MaxHangups /\ exit \in {0, 1, 130, 134, 143, 255}

FlagType ==
  /\ shutdown \in BOOLEAN /\ reload \in BOOLEAN
  /\ unchecked \in BOOLEAN /\ fault \in BOOLEAN /\ eintr \in BOOLEAN

VersionType ==
  fileVer \in 0..MaxEdits /\ lookVer \in 0..MaxEdits /\ wantVer \in 0..MaxEdits

TypeInv ==
  /\ ProgramType /\ MapsType /\ LoopType /\ ChildType
  /\ ImageType /\ SignalType /\ ExitType /\ FlagType /\ VersionType

-----------------------------------------------------------------------------

\* Where main() goes on when a hang-up ends its wait.
LEMMA HangupGoes ==
  ASSUME Hangup
  PROVE  \/ pc' = pc /\ eintr' = eintr
         \/ /\ ~WaitReady /\ eintr'
            /\ \/ pc = "wait_exec" /\ pc' = "check_trap"
               \/ pc = "fail_wait" /\ pc' = "fail_destroy"
               \/ pc = "wait_step" /\ pc' = "step_test"
               \/ pc \in {"track_wait", "wait"} /\ pc' = "cleanup"
  BY DEF Hangup, Interrupted

\* main()'s place, its flags and g_skel stay in range in every step of the
\* loader, its handlers, the child and the user.
LEMMA ProgramStep == ProgramType /\ [Next]_vars => ProgramType'
<1> SUFFICES ASSUME ProgramType, [Next]_vars PROVE ProgramType'
  BY Zenon
<1> USE DEF ProgramType, MainLabels, At, Goto
<1>1. CASE Startup
  BY <1>1, ZenonT(30) DEF Startup, StopAtArgs, Return, Exit, OpenBinary, bpf, ParsePolicy,
     OpenBpf, LoadBpf, DestroyAndFail, DestroySkel, AttachBpf, SetupRing,
     FailReturn
<1>2. CASE Launch
  <2>1. CASE Fork
    BY <2>1, Zenon DEF Fork, bpf, DestroyAndFail, DestroySkel
  <2>2. CASE StoreChild
    BY <2>2, Zenon DEF StoreChild, bpf
  <2>3. CASE WaitExec
    BY <2>3, Zenon DEF WaitExec, bpf
  <2>4. CASE CheckTrap
    BY <2>4 DEF CheckTrap, bpf
  <2>5. CASE FailKill
    BY <2>5, Zenon DEF FailKill, bpf
  <2>6. CASE FailWait
    BY <2>6, Zenon DEF FailWait, WaitKilled, bpf
  <2>7. CASE FailDestroy
    BY <2>7, Zenon DEF FailDestroy, DestroyAndFail, DestroySkel
  <2>8. CASE LibcCheck
    BY <2>8, Zenon DEF LibcCheck, bpf
  <2>9. CASE Resume
    BY <2>9, Zenon DEF Resume, bpf
  <2>10. CASE WaitStep
    BY <2>10, Zenon DEF WaitStep, WaitStatus, bpf
  <2>11. CASE StepTest
    BY <2>11 DEF StepTest, bpf
  <2> QED BY <1>2, <2>1, <2>2, <2>3, <2>4, <2>5, <2>6, <2>7, <2>8, <2>9, <2>10,
     <2>11, Zenon DEF Launch
<1>3. CASE Enrol
  BY <1>3 DEF Enrol, PopulateVma, InstallMain, InstallOrAbandon, InstallLibc,
     SkipLibc, bpf, Track, TrackWait, WaitKilled, Detach
<1>4. CASE Supervise
  BY <1>4, ZenonT(30) DEF Supervise, AuditTop, bpf, Reload, PollWait, PollRing, RingFree,
     SimpleWait, WaitStatus, Cleanup, DestroyIfSet, DestroySkel, ReturnZero,
     Exit
<1>5. CASE Handler
  BY <1>5, Zenon DEF Handler, HandlerKill, bpf, HandlerGoto, HandlerDestroy,
     DestroyIfSet, DestroySkel, HandlerExit, Exit
<1>6. CASE Child
  BY <1>6 DEF Child, ChildTraceme, bpf, ChildExec, Die, ChildAdvance,
     ChildStop, ChildSyscall, ChildExits, ChildKilled, ChildTakesKill,
     ChildTakesTerm
<1>7. CASE Environment
  BY <1>7 DEF Environment, Hangup, bpf, Interrupted, Catch, EditBinary
<1>8. CASE ParseOption
  BY <1>8, Zenon DEF ParseOption, bpf
<1>9. CASE Crash
  BY <1>9, Zenon DEF Crash, Return, Exit
<1>10. CASE UNCHANGED vars
  BY <1>10 DEF vars, bpf
<1> QED BY <1>1, <1>2, <1>3, <1>4, <1>5, <1>6, <1>7, <1>8, <1>9, <1>10, Zenon DEF
   Next, Main, Done

\* Only the four maps are filled, and a full ring buffer drops the event
\* (sentinel.bpf.c:128-131) instead of overflowing.
LEMMA MapsTypeStep == MapsType /\ [Next]_vars => MapsType'
<1> SUFFICES ASSUME MapsType, [Next]_vars PROVE MapsType'
  BY Zenon
<1> USE LoaderConstants DEF MapsType, At, Goto
<1>1. CASE Startup
  BY <1>1, Zenon DEF Startup, StopAtArgs, Return, OpenBinary, bpf, ParsePolicy,
     OpenBpf, LoadBpf, DestroyAndFail, AttachBpf, SetupRing, FailReturn
<1>2. CASE Launch
  BY <1>2, Zenon DEF Launch, Fork, bpf, DestroyAndFail, StoreChild, WaitExec,
     CheckTrap, FailKill, FailWait, WaitKilled, FailDestroy, LibcCheck, Resume,
     WaitStep, WaitStatus, StepTest
<1>3. CASE Enrol
  BY <1>3, Zenon DEF Enrol, PopulateVma, InstallMain, InstallOrAbandon, InstallLibc,
     SkipLibc, bpf, Track, TrackWait, WaitKilled, Detach
<1>4. CASE Supervise
  <2>1. CASE AuditTop
    BY <2>1, Zenon DEF AuditTop, bpf
  <2>2. CASE Reload
    BY <2>2, Zenon DEF Reload, bpf
  <2>3. CASE PollWait
    BY <2>3, Zenon DEF PollWait, bpf
  <2>4. CASE PollRing
    BY <2>4 DEF PollRing
  <2>5. CASE RingFree
    BY <2>5, Zenon DEF RingFree
  <2>6. CASE SimpleWait
    BY <2>6, Zenon DEF SimpleWait, WaitStatus, bpf
  <2>7. CASE Cleanup
    BY <2>7, Zenon DEF Cleanup
  <2>8. CASE ReturnZero
    BY <2>8, Zenon DEF ReturnZero
  <2> QED BY <1>4, <2>1, <2>2, <2>3, <2>4, <2>5, <2>6, <2>7, <2>8, Zenon DEF Supervise
<1>5. CASE Handler
  BY <1>5, Zenon DEF Handler, HandlerKill, bpf, HandlerDestroy, HandlerExit
<1>6. CASE Child
  BY <1>6 DEF Child, ChildTraceme, bpf, ChildExec, Die, ChildAdvance,
     ChildStop, Tracked, ChildSyscall, ChildExits, ChildKilled, ChildTakesKill,
     ChildTakesTerm
<1>7. CASE Environment
  BY <1>7, Zenon DEF Environment, Hangup, bpf, Interrupted, Catch, EditBinary
<1>8. CASE ParseOption \/ Crash \/ UNCHANGED vars
  BY <1>8, Zenon DEF ParseOption, bpf, Crash, Return, vars
<1> QED BY <1>1, <1>2, <1>3, <1>4, <1>5, <1>6, <1>7, <1>8, Zenon DEF Next, Main, Done

\* PTRACE_STEP_LIMIT is tested after every increment, so the counter stops at
\* one past it (loader.c:1277-1281).
LEMMA LoopStep == LoopType /\ [Next]_vars => LoopType'
<1> SUFFICES ASSUME LoopType, [Next]_vars PROVE LoopType'
  BY Zenon
<1> USE LoaderConstants DEF LoopType, PreFork, Launching, At, Goto
<1>1. CASE Startup
  BY <1>1, Zenon DEF Startup, StopAtArgs, Return, libcw, Exit, OpenBinary,
     ParsePolicy, OpenBpf, LoadBpf, DestroyAndFail, AttachBpf, SetupRing,
     FailReturn
<1>2. CASE Launch
  <2>1. CASE Fork
    BY <2>1, Zenon DEF Fork, libcw, DestroyAndFail
  <2>2. CASE StoreChild
    BY <2>2, Zenon DEF StoreChild, libcw
  <2>3. CASE WaitExec
    BY <2>3, Zenon DEF WaitExec, libcw
  <2>4. CASE CheckTrap
    BY <2>4, Zenon DEF CheckTrap, libcw
  <2>5. CASE FailKill
    BY <2>5, Zenon DEF FailKill, libcw
  <2>6. CASE FailWait
    BY <2>6, Zenon DEF FailWait, WaitKilled, libcw
  <2>7. CASE FailDestroy
    BY <2>7, Zenon DEF FailDestroy, DestroyAndFail, libcw
  <2>8. CASE LibcCheck
    <3>1. libc' \in BOOLEAN
      BY <2>8, Zenon DEF LibcCheck, LibcMapped, Alive
    <3> QED BY <2>8, <3>1, Zenon DEF LibcCheck
  <2>9. CASE Resume
    BY <2>9, Zenon DEF Resume, libcw
  <2>10. CASE WaitStep
    BY <2>10, Zenon DEF WaitStep, WaitStatus, libcw
  <2>11. CASE StepTest
    BY <2>11 DEF StepTest
  <2> QED BY <1>2, <2>1, <2>2, <2>3, <2>4, <2>5, <2>6, <2>7, <2>8, <2>9, <2>10,
     <2>11, Zenon DEF Launch
<1>3. CASE Enrol
  BY <1>3, Zenon DEF Enrol, PopulateVma, libcw, InstallMain, InstallOrAbandon,
     InstallLibc, SkipLibc, Track, TrackWait, WaitKilled, Detach
<1>4. CASE Supervise
  BY <1>4, Zenon DEF Supervise, AuditTop, libcw, Reload, PollWait, PollRing, RingFree,
     SimpleWait, WaitStatus, Cleanup, ReturnZero, Exit
<1>5. CASE Handler
  BY <1>5, Zenon DEF Handler, HandlerKill, libcw, HandlerGoto, HandlerDestroy,
     HandlerExit, Exit
<1>6. CASE Child
  BY <1>6, Zenon DEF Child, ChildTraceme, libcw, ChildExec, Die, ChildAdvance,
     ChildStop, ChildSyscall, ChildExits, ChildKilled, ChildTakesKill,
     ChildTakesTerm
<1>7. CASE Environment
  BY <1>7 DEF Environment, Hangup, libcw, Interrupted, Catch, EditBinary
<1>8. CASE ParseOption \/ Crash \/ UNCHANGED vars
  BY <1>8, Zenon DEF ParseOption, libcw, Crash, Return, Exit, vars
<1> QED BY <1>1, <1>2, <1>3, <1>4, <1>5, <1>6, <1>7, <1>8, Zenon DEF Next, Main, Done

\* waitpid stores a status word only for a stop or a death, and death comes
\* with its cause (loader.c:1247, 1270, 1931, 1951).
LEMMA ChildTypeStep == ChildType /\ [Next]_vars => ChildType'
<1> SUFFICES ASSUME ChildType, [Next]_vars PROVE ChildType'
  BY Zenon
<1> USE DEF ChildType, At, Goto
<1>1. CASE Startup
  BY <1>1, Zenon DEF Startup, StopAtArgs, Return, Exit, OpenBinary, proc, ParsePolicy,
     OpenBpf, LoadBpf, DestroyAndFail, AttachBpf, SetupRing, FailReturn
<1>2. CASE Launch
  BY <1>2, Zenon DEF Launch, Fork, DestroyAndFail, proc, StoreChild, WaitExec,
     WaitReady, Collect, StoreStatus, CheckTrap, FailKill, SendKill, Alive,
     Dead, FailWait, WaitKilled, FailDestroy, LibcCheck, LibcMapped, Resume,
     WaitStep, WaitStatus, StepTest
<1>3. CASE Enrol
  BY <1>3, Zenon DEF Enrol, PopulateVma, proc, Alive, Dead, InstallMain,
     InstallOrAbandon, InstallLibc, SkipLibc, Track, SendKill, TrackWait,
     WaitKilled, WaitReady, Collect, Detach
<1>4. CASE Supervise
  BY <1>4, Zenon DEF Supervise, AuditTop, proc, Reload, PollWait, Collect,
     StoreStatus, PollRing, RingFree, SimpleWait, WaitStatus, WaitReady,
     Cleanup, ReturnZero, Exit
<1>5. CASE Handler
  BY <1>5, Zenon DEF Handler, HandlerKill, Alive, Dead, Collect, HandlerDestroy, proc,
     HandlerExit, Exit
<1>6. CASE Child
  BY <1>6, Zenon DEF Child, ChildTraceme, ChildExec, Die, ChildAdvance, ChildStop,
     ChildSyscall, proc, ChildExits, ChildKilled, Alive, Dead, ChildTakesKill,
     ChildTakesTerm
<1>7. CASE Environment
  BY <1>7, Zenon DEF Environment, Hangup, proc, WaitReady, Interrupted, Catch,
     EditBinary
<1>8. CASE ParseOption \/ Crash \/ UNCHANGED vars
  BY <1>8, Zenon DEF ParseOption, proc, Crash, Return, Exit, vars
<1> QED BY <1>1, <1>2, <1>3, <1>4, <1>5, <1>6, <1>7, <1>8, Zenon DEF Next, Main, Done

\* exec starts one of the possible images, and the only signals sent to the
\* child are SIGKILL and SIGTERM (loader.c:62, 1253, 1880).
LEMMA ImageStep == ImageType /\ [Next]_vars => ImageType'
<1> SUFFICES ASSUME ImageType, [Next]_vars PROVE ImageType'
  BY Zenon
<1> USE LoaderConstants DEF ImageType, At, Goto
<1>1. CASE Startup
  BY <1>1, Zenon DEF Startup, StopAtArgs, Return, OpenBinary, proc, ParsePolicy,
     OpenBpf, LoadBpf, DestroyAndFail, AttachBpf, SetupRing, FailReturn
<1>2. CASE Launch
  BY <1>2, Zenon DEF Launch, Fork, DestroyAndFail, proc, StoreChild, WaitExec,
     CheckTrap, FailKill, SendKill, FailWait, WaitKilled, FailDestroy,
     LibcCheck, LibcMapped, Resume, WaitStep, WaitStatus, StepTest
<1>3. CASE Enrol
  BY <1>3, Zenon DEF Enrol, PopulateVma, proc, InstallMain, InstallOrAbandon,
     InstallLibc, SkipLibc, Track, SendKill, TrackWait, WaitKilled, Detach
<1>4. CASE Supervise
  BY <1>4, Zenon DEF Supervise, AuditTop, proc, Reload, PollWait, PollRing, RingFree,
     SimpleWait, WaitStatus, Cleanup, ReturnZero
<1>5. CASE Handler
  BY <1>5, Zenon DEF Handler, HandlerKill, HandlerDestroy, proc, HandlerExit
<1>6. CASE Child
  <2>1. CASE ChildTraceme
    BY <2>1, Zenon DEF ChildTraceme
  <2>2. CASE ChildExec
    BY <2>2, Zenon DEF ChildExec, Die
  <2>3. CASE ChildAdvance
    BY <2>3, Zenon DEF ChildAdvance
  <2>4. CASE ChildStop
    BY <2>4, Zenon DEF ChildStop, InProgram
  <2>5. CASE ChildSyscall
    BY <2>5, Zenon DEF ChildSyscall, proc, InProgram
  <2>6. CASE ChildExits
    BY <2>6, Zenon DEF ChildExits, Die
  <2>7. CASE ChildKilled
    BY <2>7, Zenon DEF ChildKilled, Die
  <2>8. CASE ChildTakesKill
    BY <2>8, Zenon DEF ChildTakesKill, Die
  <2>9. CASE ChildTakesTerm
    BY <2>9, Zenon DEF ChildTakesTerm, InProgram, Die
  <2> QED BY <1>6, <2>1, <2>2, <2>3, <2>4, <2>5, <2>6, <2>7, <2>8, <2>9, Zenon DEF
     Child
<1>7. CASE Environment
  BY <1>7, Zenon DEF Environment, Hangup, proc, Interrupted, Catch, EditBinary
<1>8. CASE ParseOption \/ Crash \/ UNCHANGED vars
  BY <1>8, Zenon DEF ParseOption, proc, Crash, Return, vars
<1> QED BY <1>1, <1>2, <1>3, <1>4, <1>5, <1>6, <1>7, <1>8, Zenon DEF Next, Main, Done

\* signal_handler runs only for the signals it was installed for
\* (loader.c:81-82).
LEMMA SignalStep == SignalType /\ [Next]_vars => SignalType'
<1> SUFFICES ASSUME SignalType, [Next]_vars PROVE SignalType'
  BY Zenon
<1> USE LoaderConstants DEF SignalType, At, Goto
<1>1. CASE Startup
  BY <1>1, Zenon DEF Startup, StopAtArgs, Return, Exit, OpenBinary, sigv, ParsePolicy,
     OpenBpf, LoadBpf, DestroyAndFail, AttachBpf, SetupRing, FailReturn
<1>2. CASE Launch
  BY <1>2, Zenon DEF Launch, Fork, sigv, DestroyAndFail, StoreChild, WaitExec,
     CheckTrap, FailKill, FailWait, WaitKilled, FailDestroy, LibcCheck, Resume,
     WaitStep, WaitStatus, StepTest
<1>3. CASE Enrol
  BY <1>3, Zenon DEF Enrol, PopulateVma, sigv, InstallMain, InstallOrAbandon,
     InstallLibc, SkipLibc, Track, TrackWait, WaitKilled, Detach
<1>4. CASE Supervise
  BY <1>4, Zenon DEF Supervise, AuditTop, Reload, sigv, PollWait, PollRing, RingFree,
     SimpleWait, WaitStatus, Cleanup, ReturnZero, Exit
<1>5. CASE Handler
  BY <1>5, Zenon DEF Handler, HandlerKill, HandlerGoto, HandlerDestroy, HandlerExit,
     Exit
<1>6. CASE Child
  BY <1>6, Zenon DEF Child, ChildTraceme, sigv, ChildExec, Die, ChildAdvance,
     ChildStop, ChildSyscall, ChildExits, ChildKilled, ChildTakesKill,
     ChildTakesTerm
<1>7. CASE Environment
  BY <1>7, Zenon DEF Environment, Hangup, Interrupted, Catch, EditBinary, sigv
<1>8. CASE ParseOption \/ Crash \/ UNCHANGED vars
  BY <1>8, Zenon DEF ParseOption, sigv, Crash, Return, Exit, vars
<1> QED BY <1>1, <1>2, <1>3, <1>4, <1>5, <1>6, <1>7, <1>8, Zenon DEF Next, Main, Done

\* The exit codes are those of return, _exit(128 + sig) and abort
\* (loader.c:70, 1968).
LEMMA ExitStep == SignalType /\ ExitType /\ [Next]_vars => ExitType'
<1> SUFFICES ASSUME SignalType, ExitType, [Next]_vars PROVE ExitType'
  BY Zenon
<1> USE DEF SignalType, ExitType, At, Goto
<1>1. CASE Startup
  <2>1. CASE StopAtArgs
    BY <2>1 DEF StopAtArgs, Return, Exit
  <2>2. CASE OpenBinary
    BY <2>2, Zenon DEF OpenBinary, sigv
  <2>3. CASE ParsePolicy
    BY <2>3 DEF ParsePolicy, sigv, Return, Exit
  <2>4. CASE OpenBpf
    BY <2>4 DEF OpenBpf, sigv, Return, Exit
  <2>5. CASE LoadBpf
    BY <2>5 DEF LoadBpf, sigv, DestroyAndFail
  <2>6. CASE AttachBpf
    BY <2>6 DEF AttachBpf, sigv, DestroyAndFail
  <2>7. CASE SetupRing
    BY <2>7, Zenon DEF SetupRing, sigv
  <2>8. CASE FailReturn
    BY <2>8, Zenon DEF FailReturn, Return, Exit
  <2> QED BY <1>1, <2>1, <2>2, <2>3, <2>4, <2>5, <2>6, <2>7, <2>8, Zenon DEF Startup
<1>2. CASE Launch
  BY <1>2 DEF Launch, Fork, sigv, DestroyAndFail, StoreChild, WaitExec,
     CheckTrap, FailKill, FailWait, WaitKilled, FailDestroy, LibcCheck, Resume,
     WaitStep, WaitStatus, StepTest
<1>3. CASE Enrol
  BY <1>3 DEF Enrol, PopulateVma, sigv, InstallMain, InstallOrAbandon,
     InstallLibc, SkipLibc, Track, TrackWait, WaitKilled, Detach
<1>4. CASE Supervise
  BY <1>4 DEF Supervise, AuditTop, Reload, sigv, PollWait, PollRing, RingFree,
     SimpleWait, WaitStatus, Cleanup, ReturnZero, Exit
<1>5. CASE Handler
  BY <1>5 DEF Handler, HandlerKill, HandlerGoto, HandlerDestroy, HandlerExit,
     Exit
<1>6. CASE Child
  BY <1>6 DEF Child, ChildTraceme, sigv, ChildExec, Die, ChildAdvance,
     ChildStop, ChildSyscall, ChildExits, ChildKilled, ChildTakesKill,
     ChildTakesTerm
<1>7. CASE Environment
  <2>1. CASE Hangup
    BY <2>1, LoaderConstants DEF Hangup, Interrupted
  <2>2. ASSUME NEW sig \in TermSignals, Catch(sig) PROVE ExitType'
    BY <2>2, Zenon DEF Catch
  <2>3. CASE EditBinary
    BY <2>3, Zenon DEF EditBinary, sigv
  <2> QED BY <1>7, <2>1, <2>2, <2>3 DEF Environment
<1>8. CASE ParseOption \/ Crash \/ UNCHANGED vars
  BY <1>8 DEF ParseOption, sigv, Crash, Return, Exit, vars
<1> QED BY <1>1, <1>2, <1>3, <1>4, <1>5, <1>6, <1>7, <1>8, Zenon DEF Next, Main, Done

\* The flags shared between main() and the handlers stay booleans.
LEMMA FlagStep == FlagType /\ [Next]_vars => FlagType'
<1> SUFFICES ASSUME FlagType, [Next]_vars PROVE FlagType'
  BY Zenon
<1> USE DEF FlagType, At, Goto
<1>1. CASE Startup
  BY <1>1, Zenon DEF Startup, StopAtArgs, Return, hist, OpenBinary, sigv, ParsePolicy,
     OpenBpf, LoadBpf, DestroyAndFail, DestroySkel, AttachBpf, SetupRing,
     FailReturn
<1>2. CASE Launch
  BY <1>2, Zenon DEF Launch, Fork, sigv, hist, DestroyAndFail, DestroySkel,
     StoreChild, WaitExec, CheckTrap, FailKill, FailWait, WaitKilled,
     FailDestroy, LibcCheck, Resume, WaitStep, WaitStatus, StepTest
<1>3. CASE Enrol
  BY <1>3, Zenon DEF Enrol, PopulateVma, sigv, hist, InstallMain, InstallOrAbandon,
     InstallLibc, SkipLibc, Track, TrackWait, WaitKilled, Detach
<1>4. CASE Supervise
  BY <1>4, Zenon DEF Supervise, AuditTop, hist, Reload, sigv, PollWait, PollRing,
     RingFree, SimpleWait, WaitStatus, Cleanup, DestroyIfSet, DestroySkel,
     ReturnZero
<1>5. CASE Handler
  BY <1>5, ZenonT(30) DEF Handler, HandlerKill, hist, HandlerDestroy, DestroyIfSet,
     DestroySkel, HandlerExit
<1>6. CASE Child
  BY <1>6, Zenon DEF Child, ChildTraceme, sigv, hist, ChildExec, Die, ChildAdvance,
     ChildStop, ChildSyscall, ChildExits, ChildKilled, ChildTakesKill,
     ChildTakesTerm
<1>7. CASE Environment
  BY <1>7, Zenon DEF Environment, Hangup, Interrupted, Catch, hist, EditBinary, sigv
<1>8. CASE ParseOption \/ Crash \/ UNCHANGED vars
  BY <1>8, Zenon DEF ParseOption, sigv, hist, Crash, Return, vars
<1> QED BY <1>1, <1>2, <1>3, <1>4, <1>5, <1>6, <1>7, <1>8, Zenon DEF Next, Main, Done

\* The loader looks only at versions of the binary the user installed.
LEMMA VersionStep == VersionType /\ [Next]_vars => VersionType'
<1> SUFFICES ASSUME VersionType, [Next]_vars PROVE VersionType'
  BY Zenon
<1> USE LoaderConstants DEF VersionType, At, Goto
<1>1. CASE Startup
  BY <1>1, Zenon DEF Startup, StopAtArgs, Return, vers, OpenBinary, ParsePolicy,
     OpenBpf, LoadBpf, DestroyAndFail, AttachBpf, SetupRing, FailReturn
<1>2. CASE Launch
  BY <1>2, Zenon DEF Launch, Fork, vers, DestroyAndFail, StoreChild, WaitExec,
     CheckTrap, FailKill, FailWait, WaitKilled, FailDestroy, LibcCheck, Resume,
     WaitStep, WaitStatus, StepTest
<1>3. CASE Enrol
  BY <1>3, Zenon DEF Enrol, PopulateVma, vers, InstallMain, InstallOrAbandon,
     InstallLibc, SkipLibc, Track, TrackWait, WaitKilled, Detach
<1>4. CASE Supervise
  BY <1>4, Zenon DEF Supervise, AuditTop, vers, Reload, PollWait, PollRing, RingFree,
     SimpleWait, WaitStatus, Cleanup, ReturnZero
<1>5. CASE Handler
  BY <1>5, Zenon DEF Handler, HandlerKill, vers, HandlerDestroy, HandlerExit
<1>6. CASE Child
  BY <1>6, Zenon DEF Child, ChildTraceme, vers, ChildExec, Die, ChildAdvance,
     ChildStop, ChildSyscall, ChildExits, ChildKilled, ChildTakesKill,
     ChildTakesTerm
<1>7. CASE Environment
  BY <1>7 DEF Environment, Hangup, Interrupted, Catch, vers, EditBinary
<1>8. CASE ParseOption \/ Crash \/ UNCHANGED vars
  BY <1>8, Zenon DEF ParseOption, vers, Crash, Return, vars
<1> QED BY <1>1, <1>2, <1>3, <1>4, <1>5, <1>6, <1>7, <1>8, Zenon DEF Next, Main, Done

-----------------------------------------------------------------------------

\* The loader starts with every variable in range.
LEMMA TypeInit == Init => TypeInv
<1> SUFFICES ASSUME Init PROVE TypeInv
  BY Zenon
<1>1. LoopType
  <2>1. steps = 0 /\ libc = FALSE
    BY Zenon DEF Init
  <2>2. steps \in 0..(StepLimit + 1) /\ steps <= StepLimit
    BY <2>1, LoaderConstants
  <2> QED BY <2>1, <2>2, Zenon DEF LoopType
<1> USE LoaderConstants DEF Init
<1>2. ProgramType BY Zenon DEF ProgramType, MainLabels
<1>3. MapsType BY DEF MapsType
<1>4. ChildType BY Zenon DEF ChildType
<1>5. ImageType BY Zenon DEF ImageType
<1>6. SignalType /\ ExitType BY DEF SignalType, ExitType
<1>7. FlagType BY Zenon DEF FlagType
<1>8. VersionType BY DEF VersionType
<1> QED BY <1>1, <1>2, <1>3, <1>4, <1>5, <1>6, <1>7, <1>8, Zenon DEF TypeInv

\* Every step of the loader, its handlers, the child and the user keeps every
\* variable in range.
LEMMA TypeStep == TypeInv /\ [Next]_vars => TypeInv'
  BY ProgramStep, MapsTypeStep, LoopStep, ChildTypeStep, ImageStep, SignalStep, ExitStep,
     FlagStep, VersionStep, Zenon DEF TypeInv

\* The loader's state stays in range for ever: in particular the libc wait loop
\* never counts past PTRACE_STEP_LIMIT + 1 and the ring buffer never holds
\* more than its capacity.
THEOREM TypeCorrect == Spec => []TypeOK
<1>1. TypeInv => TypeOK
  BY Zenon DEF TypeOK, TypeInv, ProgramType, MapsType, LoopType, ChildType, ImageType,
     SignalType, ExitType, FlagType, VersionType
<1> QED BY TypeInit, TypeStep, <1>1, PTL DEF Spec

-----------------------------------------------------------------------------
(* The inductive invariant of the safety theorems, one conjunct per        *)
(* argument.                                                               *)

\* Who is where when the loader has exited or has not forked yet.
LifeInv ==
  /\ pc = "exited" <=> exit # 255
  /\ pc = "exited" => ~attached
  /\ pc \in PreFork => child = "none"
  /\ shutdown => hpc # "none" \/ pc = "exited"

\* The maps fill in program order, and only PTRACE_DETACH frees the child.
MapsInv ==
  /\ pc \in {"libc_map", "track", "track_wait", "detach"} \cup Supervising
       => "main" \in maps
  /\ pc \in {"detach"} \cup Supervising => Tracked
  /\ pc \in PreFork \cup Launching \cup Setup
            \cup {"fail_kill", "fail_wait", "fail_destroy", "track_wait"} => ~Tracked
  /\ pc # "exited" /\ child = "free" => Tracked /\ "main" \in maps

\* A child that could not be trapped is dead or has SIGKILL pending.
FatalInv ==
  /\ pc \in {"fail_wait", "fail_destroy", "fail_return"} => ~Surviving
  /\ exit = 1 => ~Surviving

\* The versions seen and asked for.
ReloadInv ==
  /\ lookVer <= fileVer /\ wantVer <= fileVer
  /\ pc \notin {"reload", "exited"} /\ ~reload => lookVer >= wantVer

\* As long as no wait was interrupted, main() knows where the child is: held
\* in a stop it has collected, free after the detach, or dead.
HeldInv ==
  ~eintr =>
    /\ pc \in {"forked", "wait_exec"} /\ child = "reaped" => hpc # "none"
    /\ pc = "check_trap" => status # "uninit"
    /\ pc = "check_trap" /\ status = "trap" => child \in {"held", "zombie", "reaped"}
    /\ pc \in {"libc_check", "resume", "step_test", "detach"} \cup Setup
         => child \in {"held", "zombie", "reaped"}
    /\ pc \in Supervising => child \in {"free", "zombie", "reaped"}
    /\ pc \in {"ring_free", "cleanup", "return"} /\ Tracked => ~Surviving

\* A dynamically linked child is at most one stop past the mapping of libc
\* when it is enrolled.
LinkInv ==
  /\ unchecked => image = "static"
  /\ pc \in PreFork => image = "none"
  /\ child = "forked" => image = "loader"
  /\ pc # "exited" /\ ~Tracked =>
       /\ Alive => image # "main"
       /\ image = "linked" => child # "traced"
       /\ pc = "resume" /\ Alive => image \notin {"loader", "linked", "main"}
       /\ pc = "resume" /\ image = "binding" => child # "traced"

\* Without a termination signal, a destroyed skeleton is only ever left set on
\* the way out of main().
DestroyInv ==
  caught = {} =>
    /\ hpc = "none" /\ ~fault
    /\ skel = "dangling" => pc \in {"fail_return", "return", "exited"}

IInv ==
  /\ TypeInv
  /\ LifeInv /\ MapsInv /\ FatalInv /\ ReloadInv /\ HeldInv /\ LinkInv /\ DestroyInv

-----------------------------------------------------------------------------

\* An exit code means an exited process whose BPF links are closed; there is
\* no child before fork(); main() takes no step once g_shutdown is set.
LEMMA LifeStep == TypeInv /\ LifeInv /\ [Next]_vars => LifeInv'
<1> SUFFICES ASSUME TypeInv, LifeInv, [Next]_vars PROVE LifeInv'
  BY Zenon
<1>a. /\ shutdown \in BOOLEAN /\ hsig \in {0, 2, 15}
  BY Zenon DEF TypeInv, FlagType, SignalType
<1> USE <1>a DEF LifeInv, PreFork, At, Goto
<1>1. CASE Startup
  <2>1. CASE StopAtArgs
    BY <2>1 DEF StopAtArgs, Return, Exit
  <2>2. CASE OpenBinary
    BY <2>2, Zenon DEF OpenBinary, bpf, sigv, proc
  <2>3. CASE ParsePolicy
    BY <2>3 DEF ParsePolicy, bpf, sigv, proc, Return, Exit
  <2>4. CASE OpenBpf
    BY <2>4 DEF OpenBpf, sigv, proc, Return, Exit
  <2>5. CASE LoadBpf
    BY <2>5 DEF LoadBpf, bpf, sigv, proc, DestroyAndFail, DestroySkel
  <2>6. CASE AttachBpf
    BY <2>6 DEF AttachBpf, sigv, proc, DestroyAndFail, DestroySkel
  <2>7. CASE SetupRing
    BY <2>7, Zenon DEF SetupRing, sigv, proc
  <2>8. CASE FailReturn
    BY <2>8 DEF FailReturn, Return, Exit
  <2> QED BY <1>1, <2>1, <2>2, <2>3, <2>4, <2>5, <2>6, <2>7, <2>8, Zenon DEF Startup
<1>2. CASE Launch
  BY <1>2 DEF Launch, Fork, bpf, sigv, DestroyAndFail, proc, DestroySkel,
     StoreChild, WaitExec, WaitReady, Collect, StoreStatus, CheckTrap,
     FailKill, SendKill, Alive, Dead, FailWait, WaitKilled, FailDestroy,
     LibcCheck, LibcMapped, Resume, WaitStep, WaitStatus, StepTest
<1>3. CASE Enrol
  BY <1>3 DEF Enrol, PopulateVma, sigv, proc, Alive, Dead, InstallMain,
     InstallOrAbandon, InstallLibc, SkipLibc, bpf, Track, SendKill, TrackWait,
     WaitKilled, WaitReady, Collect, Detach
<1>4. CASE Supervise
  BY <1>4 DEF Supervise, AuditTop, bpf, proc, Reload, sigv, PollWait, Collect,
     StoreStatus, PollRing, RingFree, SimpleWait, WaitStatus, WaitReady,
     Cleanup, DestroyIfSet, DestroySkel, ReturnZero, Exit
<1>5. CASE Handler
  BY <1>5 DEF Handler, HandlerKill, bpf, Alive, Dead, Collect, HandlerGoto,
     HandlerDestroy, proc, DestroyIfSet, DestroySkel, HandlerExit, Exit
<1>6. CASE Child
  <2>1. CASE ChildTraceme
    BY <2>1, Zenon DEF ChildTraceme, bpf, sigv
  <2>2. CASE ChildExec
    BY <2>2 DEF ChildExec, bpf, sigv, Die
  <2>3. CASE ChildAdvance
    BY <2>3, Zenon DEF ChildAdvance, bpf, sigv
  <2>4. CASE ChildStop
    BY <2>4, Zenon DEF ChildStop, bpf, sigv
  <2>5. CASE ChildSyscall
    BY <2>5, Zenon DEF ChildSyscall, sigv, proc
  <2>6. CASE ChildExits
    BY <2>6 DEF ChildExits, Die, bpf, sigv
  <2>7. CASE ChildKilled
    BY <2>7, Zenon DEF ChildKilled, Alive, Dead, Die, bpf, sigv
  <2>8. CASE ChildTakesKill
    BY <2>8, Zenon DEF ChildTakesKill, Alive, Dead, Die, bpf, sigv
  <2>9. CASE ChildTakesTerm
    BY <2>9 DEF ChildTakesTerm, bpf, sigv, Die
  <2> QED BY <1>6, <2>1, <2>2, <2>3, <2>4, <2>5, <2>6, <2>7, <2>8, <2>9, Zenon DEF
     Child
<1>7. CASE Environment
  <2>1. CASE Hangup
    <3>1. /\ exit' = exit /\ attached' = attached /\ child' = child
          /\ hpc' = hpc /\ shutdown' = shutdown
      BY <2>1, Zenon DEF Hangup, bpf, proc
    <3> QED BY <2>1, <3>1, HangupGoes
  <2>2. ASSUME NEW sig \in TermSignals, Catch(sig) PROVE LifeInv'
    BY <2>2, Zenon DEF Catch, bpf, proc
  <2>3. CASE EditBinary
    BY <2>3, Zenon DEF EditBinary, bpf, sigv, proc
  <2> QED BY <1>7, <2>1, <2>2, <2>3, ZenonT(30) DEF Environment
<1>8. CASE ParseOption \/ Crash \/ UNCHANGED vars
  BY <1>8 DEF ParseOption, bpf, sigv, proc, Crash, Return, Exit, vars
<1> QED BY <1>1, <1>2, <1>3, <1>4, <1>5, <1>6, <1>7, <1>8, Zenon DEF Next, Main, Done

\* The main policy map is registered before libc's, both before enrolment, and
\* enrolment before PTRACE_DETACH (loader.c:1304-1893).
LEMMA MapsStep == TypeInv /\ LifeInv /\ MapsInv /\ [Next]_vars => MapsInv'
<1> SUFFICES ASSUME TypeInv, LifeInv, MapsInv, [Next]_vars PROVE MapsInv'
  BY Zenon
<1> USE DEF MapsInv, PreFork, Launching, Setup, Supervising, Tracked, At, Goto
<1>1. CASE Startup
  BY <1>1, Zenon DEF Startup, StopAtArgs, Return, Exit, OpenBinary, bpf, sigv, proc,
     ParsePolicy, OpenBpf, LoadBpf, DestroyAndFail, AttachBpf, SetupRing,
     FailReturn
<1>2. CASE Launch
  BY <1>2, Zenon DEF Launch, Fork, bpf, sigv, DestroyAndFail, proc, StoreChild,
     WaitExec, WaitReady, Collect, StoreStatus, CheckTrap, FailKill, SendKill,
     Alive, Dead, FailWait, WaitKilled, FailDestroy, LibcCheck, LibcMapped,
     Resume, WaitStep, WaitStatus, StepTest
<1>3. CASE Enrol
  BY <1>3, Zenon DEF Enrol, PopulateVma, sigv, proc, Alive, Dead, InstallMain,
     InstallOrAbandon, InstallLibc, SkipLibc, bpf, Track, SendKill, TrackWait,
     WaitKilled, WaitReady, Collect, Detach
<1>4. CASE Supervise
  BY <1>4, Zenon DEF Supervise, AuditTop, bpf, proc, Reload, sigv, PollWait, Collect,
     StoreStatus, PollRing, RingFree, SimpleWait, WaitStatus, WaitReady,
     Cleanup, ReturnZero, Exit
<1>5. CASE Handler
  BY <1>5, Zenon DEF Handler, HandlerKill, bpf, Alive, Dead, Collect, HandlerGoto,
     HandlerDestroy, proc, HandlerExit, Exit
<1>6. CASE Child
  BY <1>6, Zenon DEF Child, ChildTraceme, bpf, sigv, ChildExec, Die, ChildAdvance,
     ChildStop, ChildSyscall, proc, ChildExits, ChildKilled, Alive, Dead,
     ChildTakesKill, ChildTakesTerm
<1>7. CASE Environment
  <2>1. CASE Hangup
    BY <2>1, HangupGoes, Zenon DEF Hangup, bpf, proc, WaitReady
  <2>2. ASSUME NEW sig \in TermSignals, Catch(sig) PROVE MapsInv'
    BY <2>2, Zenon DEF Catch, bpf, proc
  <2>3. CASE EditBinary
    BY <2>3, Zenon DEF EditBinary, bpf, sigv, proc
  <2> QED BY <1>7, <2>1, <2>2, <2>3, Zenon DEF Environment
<1>8. CASE ParseOption \/ Crash \/ UNCHANGED vars
  BY <1>8, Zenon DEF ParseOption, bpf, sigv, proc, Crash, Return, Exit, vars
<1> QED BY <1>1, <1>2, <1>3, <1>4, <1>5, <1>6, <1>7, <1>8, Zenon DEF Next, Main, Done

\* Every path to `return 1' after fork() sends SIGKILL first
\* (loader.c:1250-1256).
LEMMA FatalStep == TypeInv /\ LifeInv /\ FatalInv /\ [Next]_vars => FatalInv'
<1> SUFFICES ASSUME TypeInv, LifeInv, FatalInv, [Next]_vars PROVE FatalInv'
  BY Zenon
<1>a. /\ hsig \in {0, 2, 15}
  BY Zenon DEF TypeInv, SignalType
<1> USE <1>a DEF FatalInv, Surviving, Alive, Dead, LifeInv, PreFork, At, Goto
<1>1. CASE Startup
  BY <1>1, ZenonT(30) DEF Startup, StopAtArgs, Return, Exit, OpenBinary, sigv, proc,
     ParsePolicy, OpenBpf, LoadBpf, DestroyAndFail, AttachBpf, SetupRing,
     FailReturn
<1>2. CASE Launch
  <2>1. CASE Fork
    BY <2>1 DEF Fork, sigv, DestroyAndFail, proc
  <2>2. CASE StoreChild
    BY <2>2, ZenonT(30) DEF StoreChild, sigv, proc
  <2>3. CASE WaitExec
    BY <2>3, Zenon DEF WaitExec, sigv, WaitReady, Collect, StoreStatus
  <2>4. CASE CheckTrap
    BY <2>4, Zenon DEF CheckTrap, sigv, proc
  <2>5. CASE FailKill
    BY <2>5, Zenon DEF FailKill, sigv, SendKill
  <2>6. CASE FailWait
    BY <2>6, Zenon DEF FailWait, WaitKilled, sigv, WaitReady, Collect
  <2>7. CASE FailDestroy
    BY <2>7, Zenon DEF FailDestroy, DestroyAndFail, sigv, proc
  <2>8. CASE LibcCheck
    BY <2>8 DEF LibcCheck, sigv, proc, LibcMapped
  <2>9. CASE Resume
    BY <2>9 DEF Resume, sigv
  <2>10. CASE WaitStep
    BY <2>10, Zenon DEF WaitStep, WaitStatus, sigv, WaitReady, Collect, StoreStatus
  <2>11. CASE StepTest
    BY <2>11, ZenonT(30) DEF StepTest, sigv, proc
  <2> QED BY <1>2, <2>1, <2>2, <2>3, <2>4, <2>5, <2>6, <2>7, <2>8, <2>9, <2>10,
     <2>11, Zenon DEF Launch
<1>3. CASE Enrol
  BY <1>3 DEF Enrol, PopulateVma, sigv, proc, InstallMain, InstallOrAbandon,
     InstallLibc, SkipLibc, Track, SendKill, TrackWait, WaitKilled, WaitReady,
     Collect, Detach
<1>4. CASE Supervise
  BY <1>4 DEF Supervise, AuditTop, proc, Reload, sigv, PollWait, Collect,
     StoreStatus, PollRing, RingFree, SimpleWait, WaitStatus, WaitReady,
     Cleanup, ReturnZero, Exit
<1>5. CASE Handler
  BY <1>5 DEF Handler, HandlerKill, Collect, HandlerGoto, HandlerDestroy, proc,
     HandlerExit, Exit
<1>6. CASE Child
  <2>1. CASE ChildTraceme
    BY <2>1, Zenon DEF ChildTraceme, sigv
  <2>2. CASE ChildExec
    BY <2>2, Zenon DEF ChildExec, sigv, Die
  <2>3. CASE ChildAdvance
    BY <2>3, Zenon DEF ChildAdvance, sigv
  <2>4. CASE ChildStop
    BY <2>4, Zenon DEF ChildStop, sigv
  <2>5. CASE ChildSyscall
    BY <2>5, Zenon DEF ChildSyscall, sigv, proc
  <2>6. CASE ChildExits
    BY <2>6, Zenon DEF ChildExits, Die, sigv
  <2>7. CASE ChildKilled
    BY <2>7, Zenon DEF ChildKilled, Die, sigv
  <2>8. CASE ChildTakesKill
    BY <2>8, Zenon DEF ChildTakesKill, Die, sigv
  <2>9. CASE ChildTakesTerm
    BY <2>9, Zenon DEF ChildTakesTerm, sigv, Die
  <2> QED BY <1>6, <2>1, <2>2, <2>3, <2>4, <2>5, <2>6, <2>7, <2>8, <2>9, Zenon DEF
     Child
<1>7. CASE Environment
  <2>1. CASE Hangup
    <3>1. /\ exit' = exit /\ child' = child /\ sigs' = sigs
      BY <2>1, Zenon DEF Hangup, bpf, proc
    <3> QED BY <2>1, <3>1, HangupGoes, Zenon
  <2>2. ASSUME NEW sig \in TermSignals, Catch(sig) PROVE FatalInv'
    BY <2>2, Zenon DEF Catch, proc
  <2>3. CASE EditBinary
    BY <2>3, ZenonT(30) DEF EditBinary, sigv, proc
  <2> QED BY <1>7, <2>1, <2>2, <2>3, ZenonT(30) DEF Environment
<1>8. CASE ParseOption \/ Crash \/ UNCHANGED vars
  BY <1>8 DEF ParseOption, sigv, proc, Crash, Return, Exit, vars
<1> QED BY <1>1, <1>2, <1>3, <1>4, <1>5, <1>6, <1>7, <1>8, Zenon DEF Next, Main, Done

\* g_reload is cleared before the file is read, so a SIGHUP that arrives
\* during the read sets it again (loader.c:1900-1909).
LEMMA ReloadStep == TypeInv /\ ReloadInv /\ [Next]_vars => ReloadInv'
<1> SUFFICES ASSUME TypeInv, ReloadInv, [Next]_vars PROVE ReloadInv'
  BY Zenon
<1>a. /\ fileVer \in Nat /\ lookVer \in Nat /\ wantVer \in Nat
     /\ shutdown \in BOOLEAN /\ reload \in BOOLEAN
  BY DEF TypeInv, FlagType, VersionType
<1> USE <1>a DEF ReloadInv, At, Goto
<1>1. CASE Startup
  <2>1. CASE StopAtArgs
    BY <2>1, Zenon DEF StopAtArgs, Return, vers, Exit
  <2>2. CASE OpenBinary
    BY <2>2, Zenon DEF OpenBinary, sigv, vers
  <2>3. CASE ParsePolicy
    BY <2>3 DEF ParsePolicy, sigv, Return, vers, Exit
  <2>4. CASE OpenBpf
    BY <2>4, Zenon DEF OpenBpf, sigv, vers, Return, Exit
  <2>5. CASE LoadBpf
    BY <2>5, Zenon DEF LoadBpf, sigv, vers, DestroyAndFail
  <2>6. CASE AttachBpf
    BY <2>6, Zenon DEF AttachBpf, sigv, vers, DestroyAndFail
  <2>7. CASE SetupRing
    BY <2>7, Zenon DEF SetupRing, sigv, vers
  <2>8. CASE FailReturn
    BY <2>8, Zenon DEF FailReturn, Return, vers, Exit
  <2> QED BY <1>1, <2>1, <2>2, <2>3, <2>4, <2>5, <2>6, <2>7, <2>8, Zenon DEF Startup
<1>2. CASE Launch
  BY <1>2, Zenon DEF Launch, Fork, sigv, vers, DestroyAndFail, StoreChild, WaitExec,
     CheckTrap, FailKill, FailWait, WaitKilled, FailDestroy, LibcCheck, Resume,
     WaitStep, WaitStatus, StepTest
<1>3. CASE Enrol
  BY <1>3, Zenon DEF Enrol, PopulateVma, sigv, vers, InstallMain, InstallOrAbandon,
     InstallLibc, SkipLibc, Track, TrackWait, WaitKilled, Detach
<1>4. CASE Supervise
  BY <1>4 DEF Supervise, AuditTop, vers, Reload, sigv, PollWait, PollRing,
     RingFree, SimpleWait, WaitStatus, Cleanup, ReturnZero, Exit
<1>5. CASE Handler
  BY <1>5, Zenon DEF Handler, HandlerKill, vers, HandlerGoto, HandlerDestroy,
     HandlerExit, Exit
<1>6. CASE Child
  BY <1>6, Zenon DEF Child, ChildTraceme, sigv, vers, ChildExec, Die, ChildAdvance,
     ChildStop, ChildSyscall, ChildExits, ChildKilled, ChildTakesKill,
     ChildTakesTerm
<1>7. CASE Environment
  BY <1>7 DEF Environment, Hangup, Interrupted, Catch, vers, EditBinary, sigv
<1>8. CASE ParseOption \/ Crash \/ UNCHANGED vars
  BY <1>8, Zenon DEF ParseOption, sigv, vers, Crash, Return, Exit, vars
<1> QED BY <1>1, <1>2, <1>3, <1>4, <1>5, <1>6, <1>7, <1>8, Zenon DEF Next, Main, Done

\* Without an interrupted wait, every resume and detach of the child follows
\* a stop that main() has collected (loader.c:1247-1893).
LEMMA HeldStep == TypeInv /\ LifeInv /\ MapsInv /\ HeldInv /\ [Next]_vars => HeldInv'
<1> SUFFICES ASSUME TypeInv, LifeInv, MapsInv, HeldInv, [Next]_vars PROVE HeldInv'
  BY Zenon
<1>a. /\ death # "uninit" /\ death # "trap"
  BY Zenon DEF TypeInv, ChildType
<1> USE <1>a DEF HeldInv, MapsInv, LifeInv, Setup, Supervising, PreFork,
   Launching, Tracked, Surviving, Alive, Dead, At, Goto
<1>1. CASE Startup
  <2>1. CASE StopAtArgs
    BY <2>1, Zenon DEF StopAtArgs, Return, hist, Exit
  <2>2. CASE OpenBinary
    BY <2>2, Zenon DEF OpenBinary, bpf, sigv, proc, hist
  <2>3. CASE ParsePolicy
    BY <2>3 DEF ParsePolicy, bpf, sigv, proc, hist, Return, Exit
  <2>4. CASE OpenBpf
    BY <2>4 DEF OpenBpf, sigv, proc, hist, Return, Exit
  <2>5. CASE LoadBpf
    BY <2>5 DEF LoadBpf, bpf, sigv, proc, hist, DestroyAndFail
  <2>6. CASE AttachBpf
    BY <2>6 DEF AttachBpf, sigv, proc, hist, DestroyAndFail
  <2>7. CASE SetupRing
    BY <2>7, Zenon DEF SetupRing, sigv, proc, hist
  <2>8. CASE FailReturn
    BY <2>8, Zenon DEF FailReturn, Return, hist, Exit
  <2> QED BY <1>1, <2>1, <2>2, <2>3, <2>4, <2>5, <2>6, <2>7, <2>8, Zenon DEF Startup
<1>2. CASE Launch
  <2>1. CASE Fork
    BY <2>1 DEF Fork, bpf, sigv, hist, DestroyAndFail, proc
  <2>2. CASE StoreChild
    BY <2>2, Zenon DEF StoreChild, bpf, sigv, proc, hist
  <2>3. CASE WaitExec
    <3>1. CASE child = "stopped"
      BY <2>3, <3>1, Zenon DEF WaitExec, hist, bpf, sigv, Collect, StoreStatus
    <3>2. CASE child = "zombie"
      <4>1. pc' = "check_trap" /\ child' = "reaped" /\ status' = death
        BY <2>3, <3>2, Zenon DEF WaitExec, Collect, StoreStatus
      <4>2. status' # "uninit"
        BY <4>1, Zenon
      <4> QED BY <4>1, <4>2, Zenon
    <3>3. CASE child = "reaped"
      BY <2>3, <3>3, Zenon DEF WaitExec, hist
    <3> QED BY <2>3, <3>1, <3>2, <3>3, Zenon DEF WaitExec, WaitReady
  <2>4. CASE CheckTrap
    BY <2>4 DEF CheckTrap, bpf, sigv, proc, hist
  <2>5. CASE FailKill
    BY <2>5, Zenon DEF FailKill, bpf, sigv, hist, SendKill
  <2>6. CASE FailWait
    BY <2>6, Zenon DEF FailWait, WaitKilled, bpf, sigv, hist, WaitReady, Collect
  <2>7. CASE FailDestroy
    BY <2>7, Zenon DEF FailDestroy, DestroyAndFail, sigv, proc
  <2>8. CASE LibcCheck
    BY <2>8 DEF LibcCheck, bpf, sigv, proc, hist, LibcMapped
  <2>9. CASE Resume
    BY <2>9, Zenon DEF Resume, bpf, sigv, hist
  <2>10. CASE WaitStep
    BY <2>10, Zenon DEF WaitStep, WaitStatus, bpf, sigv, hist, WaitReady, Collect,
       StoreStatus
  <2>11. CASE StepTest
    BY <2>11 DEF StepTest, bpf, sigv, proc, hist
  <2> QED BY <1>2, <2>1, <2>2, <2>3, <2>4, <2>5, <2>6, <2>7, <2>8, <2>9, <2>10,
     <2>11, Zenon DEF Launch
<1>3. CASE Enrol
  <2>1. CASE PopulateVma
    BY <2>1, Zenon DEF PopulateVma, sigv, proc, hist
  <2>2. CASE InstallMain
    BY <2>2 DEF InstallMain, InstallOrAbandon, sigv, proc, hist
  <2>3. CASE InstallLibc
    BY <2>3, Zenon DEF InstallLibc, InstallOrAbandon, sigv, proc, hist
  <2>4. CASE SkipLibc
    BY <2>4, Zenon DEF SkipLibc, bpf, sigv, proc, hist
  <2>5. CASE Track
    BY <2>5 DEF Track, sigv, hist, SendKill
  <2>6. CASE TrackWait
    BY <2>6, Zenon DEF TrackWait, WaitKilled, bpf, sigv, hist, WaitReady, Collect
  <2>7. CASE Detach
    BY <2>7, ZenonT(30) DEF Detach, bpf, sigv, hist
  <2> QED BY <1>3, <2>1, <2>2, <2>3, <2>4, <2>5, <2>6, <2>7, Zenon DEF Enrol
<1>4. CASE Supervise
  <2>1. CASE AuditTop
    BY <2>1 DEF AuditTop, bpf, proc, hist
  <2>2. CASE Reload
    BY <2>2, Zenon DEF Reload, bpf, sigv, proc, hist
  <2>3. CASE PollWait
    BY <2>3 DEF PollWait, bpf, sigv, hist, Collect, StoreStatus
  <2>4. CASE PollRing
    BY <2>4, Zenon DEF PollRing, sigv, proc, hist
  <2>5. CASE RingFree
    BY <2>5, Zenon DEF RingFree, sigv, proc, hist
  <2>6. CASE SimpleWait
    BY <2>6, Zenon DEF SimpleWait, WaitStatus, bpf, sigv, hist, WaitReady, Collect,
       StoreStatus
  <2>7. CASE Cleanup
    BY <2>7, ZenonT(30) DEF Cleanup, sigv, proc
  <2>8. CASE ReturnZero
    BY <2>8, Zenon DEF ReturnZero, hist, Exit
  <2> QED BY <1>4, <2>1, <2>2, <2>3, <2>4, <2>5, <2>6, <2>7, <2>8, Zenon DEF Supervise
<1>5. CASE Handler
  <2>1. CASE HandlerKill
    BY <2>1 DEF HandlerKill, bpf, hist, Collect, HandlerGoto
  <2>2. CASE HandlerDestroy
    BY <2>2 DEF HandlerDestroy, proc, HandlerGoto
  <2>3. CASE HandlerExit
    BY <2>3, Zenon DEF HandlerExit, hist, Exit
  <2> QED BY <1>5, <2>1, <2>2, <2>3, Zenon DEF Handler
<1>6. CASE Child
  <2>1. CASE ChildTraceme
    BY <2>1 DEF ChildTraceme, bpf, sigv, hist
  <2>2. CASE ChildExec
    BY <2>2 DEF ChildExec, bpf, sigv, hist, Die
  <2>3. CASE ChildAdvance
    BY <2>3 DEF ChildAdvance, bpf, sigv, hist
  <2>4. CASE ChildStop
    BY <2>4 DEF ChildStop, bpf, sigv
  <2>5. CASE ChildSyscall
    BY <2>5, ZenonT(30) DEF ChildSyscall, sigv, proc
  <2>6. CASE ChildExits
    BY <2>6 DEF ChildExits, Die, bpf, sigv, hist
  <2>7. CASE ChildKilled
    BY <2>7 DEF ChildKilled, Die, bpf, sigv, hist
  <2>8. CASE ChildTakesKill
    BY <2>8 DEF ChildTakesKill, Die, bpf, sigv, hist
  <2>9. CASE ChildTakesTerm
    BY <2>9 DEF ChildTakesTerm, bpf, sigv, hist, Die
  <2> QED BY <1>6, <2>1, <2>2, <2>3, <2>4, <2>5, <2>6, <2>7, <2>8, <2>9, Zenon DEF
     Child
<1>7. CASE Environment
  <2>1. CASE Hangup
    <3>1. /\ maps' = maps /\ child' = child /\ status' = status /\ hpc' = hpc
          /\ sigs' = sigs
      BY <2>1, Zenon DEF Hangup, bpf, proc
    <3> QED BY <2>1, <3>1, HangupGoes
  <2>2. ASSUME NEW sig \in TermSignals, Catch(sig) PROVE HeldInv'
    BY <2>2 DEF Catch, bpf, proc, hist
  <2>3. CASE EditBinary
    BY <2>3 DEF EditBinary, bpf, sigv, proc, hist
  <2> QED BY <1>7, <2>1, <2>2, <2>3, Zenon DEF Environment
<1>8. CASE ParseOption \/ Crash \/ UNCHANGED vars
  BY <1>8 DEF ParseOption, bpf, sigv, proc, hist, Crash, Return, Exit, vars
<1> QED BY <1>1, <1>2, <1>3, <1>4, <1>5, <1>6, <1>7, <1>8, Zenon DEF Next, Main, Done

\* The child is never resumed from a stop at which libc is mapped, so it
\* cannot leave the dynamic linker before it is enrolled (loader.c:1264-1282).
LEMMA LinkStep == TypeInv /\ LifeInv /\ MapsInv /\ LinkInv /\ [Next]_vars => LinkInv'
<1> SUFFICES ASSUME TypeInv, LifeInv, MapsInv, LinkInv, [Next]_vars PROVE LinkInv'
  BY Zenon
<1> USE DEF LinkInv, MapsInv, LifeInv, Tracked, Alive, Dead, PreFork,
   Launching, Setup, Supervising, At, Goto
<1>1. CASE Startup
  <2>1. CASE StopAtArgs
    BY <2>1 DEF StopAtArgs, Return, hist, Exit
  <2>2. CASE OpenBinary
    BY <2>2, Zenon DEF OpenBinary, bpf, sigv, proc, hist
  <2>3. CASE ParsePolicy
    BY <2>3 DEF ParsePolicy, bpf, sigv, proc, hist, Return, Exit
  <2>4. CASE OpenBpf
    BY <2>4 DEF OpenBpf, sigv, proc, hist, Return, Exit
  <2>5. CASE LoadBpf
    BY <2>5 DEF LoadBpf, bpf, sigv, proc, hist, DestroyAndFail, DestroySkel
  <2>6. CASE AttachBpf
    BY <2>6 DEF AttachBpf, sigv, proc, hist, DestroyAndFail, DestroySkel
  <2>7. CASE SetupRing
    BY <2>7, Zenon DEF SetupRing, sigv, proc, hist
  <2>8. CASE FailReturn
    BY <2>8, ZenonT(30) DEF FailReturn, Return, hist, Exit
  <2> QED BY <1>1, <2>1, <2>2, <2>3, <2>4, <2>5, <2>6, <2>7, <2>8, Zenon DEF Startup
<1>2. CASE Launch
  <2>1. CASE Fork
    BY <2>1 DEF Fork, bpf, sigv, hist, DestroyAndFail, proc, DestroySkel
  <2>2. CASE StoreChild
    BY <2>2 DEF StoreChild, bpf, sigv, proc, hist
  <2>3. CASE WaitExec
    BY <2>3 DEF WaitExec, bpf, sigv, hist, WaitReady, Collect, StoreStatus
  <2>4. CASE CheckTrap
    BY <2>4 DEF CheckTrap, bpf, sigv, proc, hist
  <2>5. CASE FailKill
    BY <2>5 DEF FailKill, bpf, sigv, hist, SendKill
  <2>6. CASE FailWait
    BY <2>6 DEF FailWait, WaitKilled, bpf, sigv, hist, WaitReady, Collect
  <2>7. CASE FailDestroy
    BY <2>7 DEF FailDestroy, DestroyAndFail, sigv, proc, DestroySkel
  <2>8. CASE LibcCheck
    BY <2>8 DEF LibcCheck, bpf, sigv, proc, hist, LibcMapped
  <2>9. CASE Resume
    BY <2>9 DEF Resume, bpf, sigv, hist
  <2>10. CASE WaitStep
    BY <2>10 DEF WaitStep, WaitStatus, bpf, sigv, hist, WaitReady, Collect,
       StoreStatus
  <2>11. CASE StepTest
    BY <2>11 DEF StepTest, bpf, sigv, proc, hist
  <2> QED BY <1>2, <2>1, <2>2, <2>3, <2>4, <2>5, <2>6, <2>7, <2>8, <2>9, <2>10,
     <2>11, Zenon DEF Launch
<1>3. CASE Enrol
  <2>1. CASE PopulateVma
    BY <2>1 DEF PopulateVma, sigv, proc, hist
  <2>2. CASE InstallMain
    BY <2>2 DEF InstallMain, InstallOrAbandon, sigv, proc, hist
  <2>3. CASE InstallLibc
    BY <2>3 DEF InstallLibc, InstallOrAbandon, sigv, proc, hist
  <2>4. CASE SkipLibc
    BY <2>4 DEF SkipLibc, bpf, sigv, proc, hist
  <2>5. CASE Track
    BY <2>5 DEF Track, sigv, hist, SendKill
  <2>6. CASE TrackWait
    BY <2>6 DEF TrackWait, WaitKilled, bpf, sigv, hist, WaitReady, Collect
  <2>7. CASE Detach
    BY <2>7 DEF Detach, bpf, sigv, hist
  <2> QED BY <1>3, <2>1, <2>2, <2>3, <2>4, <2>5, <2>6, <2>7, Zenon DEF Enrol
<1>4. CASE Supervise
  <2>1. CASE AuditTop
    BY <2>1 DEF AuditTop, bpf, proc, hist
  <2>2. CASE Reload
    BY <2>2 DEF Reload, bpf, sigv, proc, hist
  <2>3. CASE PollWait
    BY <2>3 DEF PollWait, bpf, sigv, hist, Collect, StoreStatus
  <2>4. CASE PollRing
    BY <2>4 DEF PollRing, sigv, proc, hist
  <2>5. CASE RingFree
    BY <2>5 DEF RingFree, sigv, proc, hist
  <2>6. CASE SimpleWait
    BY <2>6 DEF SimpleWait, WaitStatus, bpf, sigv, hist, WaitReady, Collect,
       StoreStatus
  <2>7. CASE Cleanup
    BY <2>7 DEF Cleanup, sigv, proc, DestroyIfSet, DestroySkel
  <2>8. CASE ReturnZero
    BY <2>8, Zenon DEF ReturnZero, hist, Exit
  <2> QED BY <1>4, <2>1, <2>2, <2>3, <2>4, <2>5, <2>6, <2>7, <2>8, Zenon DEF Supervise
<1>5. CASE Handler
  <2>1. CASE HandlerKill
    BY <2>1 DEF HandlerKill, bpf, hist, Collect, HandlerGoto
  <2>2. CASE HandlerDestroy
    BY <2>2 DEF HandlerDestroy, proc, DestroyIfSet, DestroySkel, HandlerGoto
  <2>3. CASE HandlerExit
    BY <2>3, Zenon DEF HandlerExit, hist, Exit
  <2> QED BY <1>5, <2>1, <2>2, <2>3, Zenon DEF Handler
<1>6. CASE Child
  <2>1. CASE ChildTraceme
    BY <2>1, Zenon DEF ChildTraceme, bpf, sigv, hist
  <2>2. CASE ChildExec
    BY <2>2, LoaderConstants DEF ChildExec, bpf, sigv, hist, Die
  <2>3. CASE ChildAdvance
    BY <2>3 DEF ChildAdvance, bpf, sigv, hist
  <2>4. CASE ChildStop
    BY <2>4, ZenonT(30) DEF ChildStop, bpf, sigv, InProgram
  <2>5. CASE ChildSyscall
    BY <2>5, Zenon DEF ChildSyscall, sigv, proc, InProgram
  <2>6. CASE ChildExits
    BY <2>6 DEF ChildExits, Die, bpf, sigv, hist
  <2>7. CASE ChildKilled
    BY <2>7 DEF ChildKilled, Die, bpf, sigv, hist
  <2>8. CASE ChildTakesKill
    BY <2>8 DEF ChildTakesKill, Die, bpf, sigv, hist
  <2>9. CASE ChildTakesTerm
    BY <2>9 DEF ChildTakesTerm, bpf, sigv, hist, InProgram, Die
  <2> QED BY <1>6, <2>1, <2>2, <2>3, <2>4, <2>5, <2>6, <2>7, <2>8, <2>9, Zenon DEF
     Child
<1>7. CASE Environment
  <2>1. CASE Hangup
    <3>1. /\ maps' = maps /\ child' = child /\ image' = image /\ hpc' = hpc
          /\ unchecked' = unchecked /\ sigs' = sigs
      BY <2>1, Zenon DEF Hangup, bpf, proc
    <3> QED BY <2>1, <3>1, HangupGoes
  <2>2. ASSUME NEW sig \in TermSignals, Catch(sig) PROVE LinkInv'
    BY <2>2 DEF Catch, bpf, proc, hist
  <2>3. CASE EditBinary
    BY <2>3 DEF EditBinary, bpf, sigv, proc, hist
  <2> QED BY <1>7, <2>1, <2>2, <2>3, Zenon DEF Environment
<1>8. CASE ParseOption \/ Crash \/ UNCHANGED vars
  BY <1>8 DEF ParseOption, bpf, sigv, proc, hist, Crash, Return, Exit, vars
<1> QED BY <1>1, <1>2, <1>3, <1>4, <1>5, <1>6, <1>7, <1>8, Zenon DEF Next, Main, Done

\* main() destroys the skeleton on its way out, once (loader.c:1181-1256,
\* 1962-1966).
LEMMA DestroyStep == TypeInv /\ DestroyInv /\ [Next]_vars => DestroyInv'
<1> SUFFICES ASSUME TypeInv, DestroyInv, [Next]_vars PROVE DestroyInv'
  BY Zenon
<1>a. fault \in BOOLEAN
  BY Zenon DEF TypeInv, FlagType
<1> USE <1>a DEF DestroyInv, At, Goto
<1>1. CASE Startup
  BY <1>1, Zenon DEF Startup, StopAtArgs, Return, Exit, OpenBinary, bpf, sigv, hist,
     ParsePolicy, OpenBpf, LoadBpf, DestroyAndFail, DestroySkel, AttachBpf,
     SetupRing, FailReturn
<1>2. CASE Launch
  BY <1>2, Zenon DEF Launch, Fork, bpf, sigv, hist, DestroyAndFail, DestroySkel,
     StoreChild, WaitExec, CheckTrap, FailKill, FailWait, WaitKilled,
     FailDestroy, LibcCheck, Resume, WaitStep, WaitStatus, StepTest
<1>3. CASE Enrol
  BY <1>3, Zenon DEF Enrol, PopulateVma, bpf, sigv, hist, InstallMain,
     InstallOrAbandon, InstallLibc, SkipLibc, Track, TrackWait, WaitKilled,
     Detach
<1>4. CASE Supervise
  BY <1>4, Zenon DEF Supervise, AuditTop, bpf, hist, Reload, sigv, PollWait, PollRing,
     RingFree, SimpleWait, WaitStatus, Cleanup, DestroyIfSet, DestroySkel,
     ReturnZero, Exit
<1>5. CASE Handler
  BY <1>5, Zenon DEF Handler, HandlerKill, bpf, hist, HandlerGoto, HandlerDestroy,
     DestroyIfSet, DestroySkel, HandlerExit, Exit
<1>6. CASE Child
  BY <1>6, Zenon DEF Child, ChildTraceme, bpf, sigv, hist, ChildExec, Die,
     ChildAdvance, ChildStop, ChildSyscall, ChildExits, ChildKilled,
     ChildTakesKill, ChildTakesTerm
<1>7. CASE Environment
  <2>1. CASE Hangup
    BY <2>1, Zenon DEF Hangup, bpf, Interrupted
  <2>2. ASSUME NEW sig \in TermSignals, Catch(sig) PROVE DestroyInv'
    BY <2>2, Zenon DEF Catch
  <2>3. CASE EditBinary
    BY <2>3, Zenon DEF EditBinary, bpf, sigv, hist
  <2> QED BY <1>7, <2>1, <2>2, <2>3, Zenon DEF Environment
<1>8. CASE ParseOption \/ Crash \/ UNCHANGED vars
  BY <1>8, Zenon DEF ParseOption, bpf, sigv, hist, Crash, Return, Exit, vars
<1> QED BY <1>1, <1>2, <1>3, <1>4, <1>5, <1>6, <1>7, <1>8, Zenon DEF Next, Main, Done

-----------------------------------------------------------------------------

\* The inductive invariant holds when the loader starts.
LEMMA InvInit == Init => IInv
<1> SUFFICES ASSUME Init PROVE IInv
  BY Zenon
<1>1. TypeInv BY TypeInit, Zenon
<1> USE DEF Init
<1>2. LifeInv BY Zenon DEF LifeInv, PreFork
<1>3. MapsInv BY Zenon DEF MapsInv, PreFork, Tracked, Supervising
<1>4. FatalInv BY DEF FatalInv
<1>5. ReloadInv BY DEF ReloadInv
<1>6. HeldInv BY Zenon DEF HeldInv, Setup, Supervising
<1>7. LinkInv BY Zenon DEF LinkInv, Alive, Dead
<1>8. DestroyInv BY Zenon DEF DestroyInv
<1> QED BY <1>1, <1>2, <1>3, <1>4, <1>5, <1>6, <1>7, <1>8, Zenon DEF IInv

\* It is kept by every step of the loader, its handlers, the child and the user.
LEMMA InvStep == IInv /\ [Next]_vars => IInv'
  BY TypeStep, LifeStep, MapsStep, FatalStep, ReloadStep, HeldStep, LinkStep,
     DestroyStep, Zenon DEF IInv

\* So it holds in every state the loader reaches.
LEMMA Invariance == Spec => []IInv
  BY InvInit, InvStep, PTL DEF Spec

\* While hooks are attached no child runs untraced without being enrolled and
\* having its policy registered (loader.c:1304-1893): MapsInv, with LifeInv for
\* a loader that has exited.
THEOREM Enrolled == Spec => []EnrolledBeforeFree
<1>1. IInv => EnrolledBeforeFree
  BY Zenon DEF IInv, MapsInv, LifeInv, EnrolledBeforeFree
<1> QED BY Invariance, <1>1, PTL

\* A dynamically linked program's first syscall already meets its policy
\* (loader.c:1264-1282): the first conjunct of LinkInv.
THEOREM LinkedChecked == Spec => []LinkedProgramChecked
<1>1. IInv => LinkedProgramChecked
  BY Zenon DEF IInv, LinkInv, LinkedProgramChecked
<1> QED BY Invariance, <1>1, PTL

\* main() tears enforcement down only after the child's death, an abandoned
\* setup or an interrupted wait (loader.c:1880-1968): the last conjunct of
\* HeldInv.
THEOREM TeardownOrder == Spec => []TeardownAfterDeath
<1>1. IInv => TeardownAfterDeath
  BY Zenon DEF IInv, TypeInv, FlagType, HeldInv, TeardownAfterDeath
<1> QED BY Invariance, <1>1, PTL

\* A loader that returns 1 leaves no child running (loader.c:1250-1256).
THEOREM FatalKills == Spec => []FatalLeavesNoSurvivor
<1>1. IInv => FatalLeavesNoSurvivor
  BY Zenon DEF IInv, FatalInv, FatalLeavesNoSurvivor
<1> QED BY Invariance, <1>1, PTL

\* No SIGHUP is lost in the audit loop (loader.c:1900-1909).
THEOREM ReloadKept == Spec => []ReloadNotLost
<1>1. IInv => ReloadNotLost
  BY Zenon DEF IInv, ReloadInv, ReloadNotLost
<1> QED BY Invariance, <1>1, PTL

\* The skeleton is destroyed twice only by the handler of a termination signal
\* (loader.c:65-68, 1181-1256): DestroyInv.
THEOREM DestroyedBySignal == Spec => []DoubleDestroyNeedsSignal
<1>1. IInv => DoubleDestroyNeedsSignal
  BY Zenon DEF IInv, DestroyInv, DoubleDestroyNeedsSignal
<1> QED BY Invariance, <1>1, PTL

=============================================================================
