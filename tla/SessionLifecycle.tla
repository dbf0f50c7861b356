-------------------------- MODULE SessionLifecycle --------------------------
(***************************************************************************)
(* What the documentation promises of sessions: the facade owns at most    *)
(* one session that has not stopped, `start` replaces it, a lost context   *)
(* can only end in a stop ("restoration terminates the session",           *)
(* docs/resource-lifecycle.md), and a stopped session stays stopped.       *)
(***************************************************************************)
CONSTANTS Sessions, NoSession

VARIABLES
  status,    \* of each session
  owned,     \* the sessions that the facade has started
  current    \* the session of the facade that has not stopped

vars == <<status, owned, current>>

Moves ==
  {<<"starting", "live">>, <<"starting", "lost">>, <<"live", "lost">>,
   <<"starting", "stopped">>, <<"live", "stopped">>, <<"lost", "stopped">>}

Init ==
  /\ status = [s \in Sessions |-> "unborn"]
  /\ owned = {}
  /\ current = NoSession

\* start: the current session, if any, makes room for s.
Replace(s) ==
  /\ status[s] = "unborn"
  /\ status' = [t \in Sessions |-> IF t = s THEN "starting"
                                   ELSE IF t = current THEN "stopped"
                                   ELSE status[t]]
  /\ owned' = owned \cup {s}
  /\ current' = s

\* createRuntimeSession: s belongs to its caller.
Create(s) ==
  /\ status[s] = "unborn"
  /\ status' = [status EXCEPT ![s] = "starting"]
  /\ UNCHANGED <<owned, current>>

\* A session moves on; the facade forgets it when it stops.
Move(s) ==
  /\ \E to \in {"live", "lost", "stopped"} :
       /\ <<status[s], to>> \in Moves
       /\ status' = [status EXCEPT ![s] = to]
       /\ current' = IF to = "stopped" /\ s = current THEN NoSession ELSE current
  /\ UNCHANGED owned

Next == \E s \in Sessions : Replace(s) \/ Create(s) \/ Move(s)

Spec == Init /\ [][Next]_vars
=============================================================================
