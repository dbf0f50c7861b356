--------------------------- MODULE LastGoodBuild ---------------------------
(***************************************************************************)
(* What `polygl serve --watch` promises about the build it serves:         *)
(* "Successful rebuilds atomically switch the active generation [...].     *)
(* Failed rebuilds preserve the last good generation and display           *)
(* HTML-escaped source diagnostics" (docs/cli.md).  Only complete builds   *)
(* are ever served, a failure changes nothing but the diagnostic, and a    *)
(* diagnostic goes away only once a later build has replaced the one it    *)
(* complained about.                                                       *)
(***************************************************************************)
CONSTANTS
  Builds,       \* the complete builds
  Diagnostics,  \* what a failed build can report
  NoBuild, NoDiagnostic

VARIABLES
  served,       \* the build that a page opened now is served from
  diagnostic,   \* the diagnostic that it is shown
  settling      \* a newer build is served, its diagnostic not yet withdrawn

vars == <<served, diagnostic, settling>>

Init ==
  /\ served = NoBuild
  /\ diagnostic = NoDiagnostic
  /\ settling = FALSE

\* A build completes and is served from now on.
Succeed ==
  /\ ~settling
  /\ served' \in Builds
  /\ settling' = (diagnostic # NoDiagnostic)
  /\ UNCHANGED diagnostic

\* The diagnostic of an earlier build is withdrawn.
Settle ==
  /\ settling
  /\ settling' = FALSE
  /\ diagnostic' = NoDiagnostic
  /\ UNCHANGED served

\* A build fails.
Fail ==
  /\ ~settling
  /\ diagnostic' \in Diagnostics
  /\ UNCHANGED <<served, settling>>

Next == Succeed \/ Settle \/ Fail
Spec == Init /\ [][Next]_vars
=============================================================================
