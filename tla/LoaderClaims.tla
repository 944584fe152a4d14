---------------------------- MODULE LoaderClaims ----------------------------
(***************************************************************************)
(* What the repository's documents and comments say of the loader, stated  *)
(* over the model of the code.  Each of these is refuted by a behaviour of *)
(* Loader; the README of this directory tells each story.                  *)
(***************************************************************************)
EXTENDS Loader

\* "SIGHUP triggers policy hot-reload instead of shutdown" (loader.c:84): the
\* loader does not stop waiting for a child that runs free.
HangupIsNotShutdown ==
  [][pc = "wait" /\ child = "free" => pc' # "cleanup"]_vars

\* "Static binary - no libc to wait for, proceed with binary-only policy"
\* (loader.c:1274): no program, static ones included, makes a syscall past the
\* attached hooks before it is enrolled.
StaticProgramChecked == ~unchecked

\* "Wait for child exit, cleanup BPF" (docs/architecture.md:91): once the child
\* has been reaped, the loader exits.
ReapedChildEndsLoader == (child = "reaped") ~> (pc = "exited")

=============================================================================
