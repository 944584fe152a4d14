--------------------------- MODULE EnforcerClaims ---------------------------
(***************************************************************************)
(* What the repository's documents and comments say of the enforcer, each  *)
(* checked against Enforcer on an instance in which the code disagrees.    *)
(***************************************************************************)
EXTENDS EnforcerModels

\* loader.c:820 "Anchored match: /libc.so or /libc- to avoid libcrypto,
\* libcap, etc.": the wrappers of libc keep their policy in a process that has
\* also mapped a library whose name starts with libc.
LibcAnchored ==
  Complete =>
    \A site \in Addresses, nr \in Nrs \cap Hooked, caller \in Callers :
      Inside("libc", site) /\ Intended(site, nr, caller) /\ ~Shadowed(site)
        => PolicyCheck(site, nr, caller)

\* libcrypto below libc; "libc" matches both.
PrefixMatching == [m \in Modules |-> IF m = "libc" THEN {"libc", "liba"} ELSE {m}]
PrefixLayouts  == {ExecPlaced(24, 36, 16, 52)}

=============================================================================
