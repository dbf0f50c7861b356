------------------------------ MODULE Session ------------------------------
(***************************************************************************)
(* Runtime sessions (runtime/src/session.ts) and the facade that starts    *)
(* them (runtime/src/index.ts): one JavaScript thread on which the         *)
(* asynchronous `run`, browser events and animation-frame callbacks take   *)
(* turns.  An action is one turn: what runs from one await, event or       *)
(* callback to the next.                                                   *)
(*                                                                         *)
(* Each session is a record; the methods that handlers call (stop, fail,   *)
(* pauseAnimation, scheduleAnimation, scheduleRender) are operators from   *)
(* record to record, composed as the handlers compose them.                *)
(***************************************************************************)
EXTENDS Naturals, FiniteSets

CONSTANTS
  Sessions,     \* identities of sessions
  NoSession,
  MaxPending    \* bound: callbacks of one session pending in the browser

ASSUME SessionsAssumption == NoSession \notin Sessions
ASSUME PendingAssumption == MaxPending \in Nat \ {0}

VARIABLES
  session,          \* the state of each session
  activeSession,
  startInProgress,
  hidden            \* document.hidden

vars == <<session, activeSession, startInProgress, hidden>>

Programs == {"none", "still", "frame"}  \* `still` exports no frame function

SessionRecord ==
  [run : {"unborn", "created", "loading", "setup", "assets", "done"},
   state : {"initializing", "running", "paused", "context-lost", "stopped"},
   contextLost : BOOLEAN, initialized : BOOLEAN, stopped : BOOLEAN,
   animationHandle : BOOLEAN,   \* the handle is defined
   renderHandle : BOOLEAN,
   ticks : 0..MaxPending,       \* tick callbacks pending in the browser
   draws : 0..MaxPending,       \* render callbacks pending in the browser
   program : Programs,
   pauses : BOOLEAN,            \* visibilityPolicy = "pause"
   cancels : BOOLEAN,           \* the host has a working cancelAnimationFrame
   facade : BOOLEAN,            \* made by start, not by createRuntimeSession
   renderedFrames : 0..1]       \* parity of the counter

Unborn ==
  [run |-> "unborn", state |-> "initializing", contextLost |-> FALSE,
   initialized |-> FALSE, stopped |-> FALSE, animationHandle |-> FALSE,
   renderHandle |-> FALSE, ticks |-> 0, draws |-> 0, program |-> "none",
   pauses |-> FALSE, cancels |-> TRUE, facade |-> FALSE,
   renderedFrames |-> 0]

----------------------------------------------------------------------------
(* Methods of a session *)

HasFrame(r) == r.program = "frame"

\* Listeners are installed by the constructor and removed by stop.
Listens(r) == r.run # "unborn" /\ ~r.stopped

\* The caller of start gets the handle once run has ended; the caller of
\* createRuntimeSession has it from the beginning.
HandleKnown(r) == r.run # "unborn" /\ (r.facade => r.run = "done")

\* Pending callbacks are cancelled, where the host can: the default canceller
\* of a host without cancelAnimationFrame does nothing.
PauseAnimation(r) ==
  [r EXCEPT
    !.ticks = IF r.animationHandle /\ r.cancels THEN r.ticks - 1 ELSE r.ticks,
    !.draws = IF r.renderHandle /\ r.cancels THEN r.draws - 1 ELSE r.draws,
    !.animationHandle = FALSE,
    !.renderHandle = FALSE]

\* Idempotent; cancels what is pending and removes the listeners.
Stop(r) ==
  IF r.stopped THEN r
  ELSE [PauseAnimation(r) EXCEPT !.stopped = TRUE, !.state = "stopped"]

\* fail stops the session and reports the reason.
Fail(r) == Stop(r)

ScheduleAnimation(r) ==
  IF \/ r.stopped \/ r.contextLost \/ r.state # "running"
     \/ ~HasFrame(r) \/ r.animationHandle
    THEN r
    ELSE [r EXCEPT !.animationHandle = TRUE, !.ticks = r.ticks + 1]

ScheduleRender(r) ==
  IF \/ r.stopped \/ ~r.initialized \/ r.contextLost
     \/ HasFrame(r) \/ r.renderHandle
    THEN r
    ELSE [r EXCEPT !.renderHandle = TRUE, !.draws = r.draws + 1]

Render(r) == [r EXCEPT !.renderedFrames = 1 - r.renderedFrames]

ShouldPause(r) == r.pauses /\ hidden

\* Session s becomes r.  If that stops it, the stop handler set by start
\* clears activeSession.
Becomes(s, r) ==
  /\ session' = [session EXCEPT ![s] = r]
  /\ activeSession' = IF r.stopped /\ activeSession = s THEN NoSession
                      ELSE activeSession

\* Mutant of RunEnds: the flag is cleared only by a run that gets to its end.
RunEndsUnlessStopped(s, r) ==
  /\ Becomes(s, [r EXCEPT !.run = "done"])
  /\ startInProgress' = (startInProgress /\ (r.facade => r.stopped))

\* The run of session s ends with r, and with it the start that awaits it.
RunEnds(s, r) ==
  /\ Becomes(s, [r EXCEPT !.run = "done"])
  /\ startInProgress' = (startInProgress /\ ~r.facade)

----------------------------------------------------------------------------
(* Creating and running a session *)

Init ==
  /\ session = [s \in Sessions |-> Unborn]
  /\ activeSession = NoSession
  /\ startInProgress = FALSE
  /\ hidden \in BOOLEAN

\* A session whose constructor has returned ...
NewSession(facade, run, p, c) ==
  [Unborn EXCEPT !.run = run, !.facade = facade, !.pauses = p, !.cancels = c]

\* ... with any of the options.
Made(facade, run) == {NewSession(facade, run, p, c) : p \in BOOLEAN, c \in BOOLEAN}

\* start: rejected while another start is in progress; stops the active
\* session, then constructs the new one and runs it up to its first await.
Start(s) ==
  /\ ~startInProgress
  /\ session[s].run = "unborn"
  /\ \E new \in Made(TRUE, "loading") :
       session' = [t \in Sessions |-> IF t = s THEN new
                                      ELSE IF t = activeSession THEN Stop(session[t])
                                      ELSE session[t]]
  /\ activeSession' = s
  /\ startInProgress' = TRUE
  /\ UNCHANGED hidden

\* start fails in the constructor, after it has stopped the active session.
StartFails ==
  /\ ~startInProgress
  /\ activeSession # NoSession
  /\ Becomes(activeSession, Stop(session[activeSession]))
  /\ UNCHANGED <<startInProgress, hidden>>

\* createRuntimeSession leaves the facade alone.
CreateRuntimeSession(s) ==
  /\ session[s].run = "unborn"
  /\ \E new \in Made(FALSE, "created") : Becomes(s, new)
  /\ UNCHANGED <<startInProgress, hidden>>

\* Its owner calls run, which throws when the session was stopped before.
Run(s) ==
  /\ session[s].run = "created" /\ ~session[s].stopped
  /\ Becomes(s, [session[s] EXCEPT !.run = "loading"])
  /\ UNCHANGED <<startInProgress, hidden>>

\* Loading or validating the program fails, or the shader bundle does.
LoadFails(s) ==
  /\ session[s].run = "loading"
  /\ RunEnds(s, Fail(session[s]))
  /\ UNCHANGED hidden

\* The program is loaded and setup is called, unless stopped meanwhile.
Loaded(s) ==
  /\ session[s].run = "loading"
  /\ IF session[s].stopped
       THEN RunEnds(s, session[s])
       ELSE /\ \E p \in {"still", "frame"} :
                 Becomes(s, [session[s] EXCEPT !.program = p, !.run = "setup"])
            /\ UNCHANGED startInProgress
  /\ UNCHANGED hidden

\* setup is finished; its assets are awaited.
SetupDone(s) ==
  /\ session[s].run = "setup"
  /\ Becomes(s, [session[s] EXCEPT !.run = "assets"])
  /\ UNCHANGED <<startInProgress, hidden>>

SetupFails(s) ==
  /\ session[s].run \in {"setup", "assets"}
  /\ RunEnds(s, Fail(session[s]))
  /\ UNCHANGED hidden

\* What becomes of a session when the first frame can be rendered.
Initialized(r) ==
  ScheduleAnimation(
    [Render(r) EXCEPT !.initialized = TRUE,
                      !.state = IF ShouldPause(r) THEN "paused" ELSE "running"])

\* Mutant of Ready: setup is taken to have finished before any stop.
ReadyAnyway(s) ==
  /\ session[s].run = "assets"
  /\ RunEnds(s, IF session[s].contextLost THEN session[s]
                ELSE Initialized(session[s]))
  /\ UNCHANGED hidden

\* The assets of setup are there; the session may have been stopped or have
\* lost its context during each of the awaits.
Ready(s) ==
  /\ session[s].run = "assets"
  /\ RunEnds(s, IF session[s].stopped \/ session[s].contextLost THEN session[s]
                ELSE Initialized(session[s]))
  /\ UNCHANGED hidden

----------------------------------------------------------------------------
(* Callbacks, events and calls *)

\* How a callback of the program ends: it may stop its own session.
Outcomes(r) ==
  {"returns", "throws"} \cup (IF HandleKnown(r) THEN {"stops"} ELSE {})

After(outcome, r, next) ==
  CASE outcome = "returns" -> next
    [] outcome = "throws" -> Fail(r)
    [] outcome = "stops" -> Stop(r)

\* Mutant of Tick: the handle of the frame that runs is kept.
TickKeepingHandle(s) ==
  LET r == [session[s] EXCEPT !.ticks = @ - 1] IN
  /\ session[s].ticks > 0
  /\ IF r.stopped \/ r.state # "running"
       THEN Becomes(s, r)
       ELSE \E o \in Outcomes(r) :
              Becomes(s, After(o, r, ScheduleAnimation(Render(r))))
  /\ UNCHANGED <<startInProgress, hidden>>

\* The animation frame: simulate, render, schedule the next one.
Tick(s) ==
  LET r == [session[s] EXCEPT !.ticks = @ - 1, !.animationHandle = FALSE] IN
  /\ session[s].ticks > 0
  /\ IF r.stopped \/ r.state # "running"
       THEN Becomes(s, r)
       ELSE \E o \in Outcomes(r) :
              Becomes(s, After(o, r, ScheduleAnimation(Render(r))))
  /\ UNCHANGED <<startInProgress, hidden>>

\* The coalesced redraw of a program without a frame function.
Draw(s) ==
  LET r == [session[s] EXCEPT !.draws = @ - 1, !.renderHandle = FALSE] IN
  /\ session[s].draws > 0
  /\ IF r.stopped \/ r.contextLost
       THEN Becomes(s, r)
       ELSE \E o \in {"returns", "throws"} : Becomes(s, After(o, r, Render(r)))
  /\ UNCHANGED <<startInProgress, hidden>>

\* Pointer, wheel and key events reach on_event as soon as the program is
\* known, then ask for a redraw.
DispatchEvent(s) ==
  LET r == session[s] IN
  /\ Listens(r)
  /\ r.draws < MaxPending
  /\ \E o \in (IF r.program = "none" THEN {"returns"} ELSE Outcomes(r)) :
       Becomes(s, After(o, r, ScheduleRender(r)))
  /\ UNCHANGED <<startInProgress, hidden>>

\* The canvas or the window is resized (autoResize).
HandleResize(s) ==
  LET r == session[s] IN
  /\ Listens(r) /\ ~r.contextLost
  /\ r.draws < MaxPending
  /\ \E o \in {"returns", "throws"} : Becomes(s, After(o, r, ScheduleRender(r)))
  /\ UNCHANGED <<startInProgress, hidden>>

\* Mutant of Visibility: resuming asks for one redraw in any case.
VisibilityOnce(r) ==
  IF ~Listens(r) \/ ~r.initialized \/ ~r.pauses THEN r
  ELSE IF ~hidden THEN [PauseAnimation(r) EXCEPT !.state = "paused"]
  ELSE IF r.contextLost \/ r.state # "paused" THEN r
  ELSE ScheduleRender([r EXCEPT !.state = "running"])

\* handleVisibilityChange, where the document is about to be hidden or shown.
Visibility(r) ==
  IF ~Listens(r) \/ ~r.initialized \/ ~r.pauses THEN r
  ELSE IF ~hidden THEN [PauseAnimation(r) EXCEPT !.state = "paused"]
  ELSE IF r.contextLost \/ r.state # "paused" THEN r
  ELSE LET resumed == [r EXCEPT !.state = "running"]
       IN  IF HasFrame(r) THEN ScheduleAnimation(resumed) ELSE ScheduleRender(resumed)

\* Every session listens to the document.
HandleVisibilityChange ==
  /\ \A s \in Sessions : session[s].ticks < MaxPending /\ session[s].draws < MaxPending
  /\ hidden' = ~hidden
  /\ session' = [s \in Sessions |-> Visibility(session[s])]
  /\ UNCHANGED <<activeSession, startInProgress>>

HandleContextLost(s) ==
  LET r == session[s] IN
  /\ Listens(r) /\ ~r.contextLost
  /\ Becomes(s, PauseAnimation([r EXCEPT !.contextLost = TRUE,
                                         !.state = "context-lost"]))
  /\ UNCHANGED <<startInProgress, hidden>>

\* Mutant of HandleContextRestored: the session goes on with its old handles.
HandleContextResumed(s) ==
  /\ Listens(session[s]) /\ session[s].contextLost
  /\ Becomes(s, ScheduleRender([session[s] EXCEPT !.contextLost = FALSE]))
  /\ UNCHANGED <<startInProgress, hidden>>

\* A restored context has none of the old resources: the session fails.
HandleContextRestored(s) ==
  /\ Listens(session[s]) /\ session[s].contextLost
  /\ Becomes(s, Fail(session[s]))
  /\ UNCHANGED <<startInProgress, hidden>>

\* handle.stop(), or a texture that cannot be loaded, which fails the session.
StopCalled(s) ==
  /\ HandleKnown(session[s]) /\ ~session[s].stopped
  /\ Becomes(s, Stop(session[s]))
  /\ UNCHANGED <<startInProgress, hidden>>

AssetFails(s) ==
  /\ Listens(session[s]) /\ session[s].program # "none"
  /\ Becomes(s, Fail(session[s]))
  /\ UNCHANGED <<startInProgress, hidden>>

----------------------------------------------------------------------------
\* The asynchronous `run`, whose promises are settled sooner or later.
Progress(s) ==
  Loaded(s) \/ LoadFails(s) \/ SetupDone(s) \/ SetupFails(s) \/ Ready(s)

Other(s) ==
  \/ Start(s) \/ CreateRuntimeSession(s) \/ Run(s)
  \/ Tick(s) \/ Draw(s)
  \/ DispatchEvent(s) \/ HandleResize(s)
  \/ HandleContextLost(s) \/ HandleContextRestored(s)
  \/ StopCalled(s) \/ AssetFails(s)

Next ==
  \/ \E s \in Sessions : Progress(s) \/ Other(s)
  \/ StartFails
  \/ HandleVisibilityChange

Spec == Init /\ [][Next]_vars

\* Loading and setup come to an end, and the browser runs the animation frames
\* of a document that is shown.
FairSpec ==
  /\ Spec
  /\ \A s \in Sessions : WF_vars(Progress(s)) /\ WF_vars(~hidden /\ Tick(s))

----------------------------------------------------------------------------
(* Properties *)

\* Types; no callback is taken back that is not pending.
TypeOK ==
  /\ session \in [Sessions -> SessionRecord]
  /\ activeSession \in Sessions \cup {NoSession}
  /\ startInProgress \in BOOLEAN
  /\ hidden \in BOOLEAN

One(b) == IF b THEN 1 ELSE 0

\* A handle is defined exactly while its callback is pending, so that there is
\* never a second animation loop and no callback outlives its handle (hosts
\* that cancel).
HandlesExact ==
  \A s \in Sessions :
    session[s].cancels =>
      /\ session[s].ticks = One(session[s].animationHandle)
      /\ session[s].draws = One(session[s].renderHandle)

\* Nothing is pending for a session that has stopped or lost its context:
\* "Context loss cancels frames and suspends rendering"
\* (docs/resource-lifecycle.md:43).
EndedIsQuiet ==
  \A s \in Sessions :
    session[s].stopped \/ session[s].contextLost =>
      ~session[s].animationHandle /\ ~session[s].renderHandle

\* The animation loop of a running program never dies: however it got to
\* "running", its next frame is scheduled.
LoopAlive ==
  \A s \in Sessions :
    session[s].state = "running" /\ HasFrame(session[s]) =>
      session[s].animationHandle /\ session[s].ticks > 0

\* A session that pauses is paused exactly while the document is hidden,
\* whether it was hidden before, during or after setup.
PausedWhileHidden ==
  \A s \in Sessions :
    LET r == session[s] IN
    r.initialized /\ r.pauses /\ ~r.stopped /\ ~r.contextLost =>
      r.state = IF hidden THEN "paused" ELSE "running"

\* At most one session started by the facade has not stopped, and it is the
\* active one: every other has released its GPU resources and listeners.
OneFacadeSession ==
  \A s \in Sessions :
    session[s].facade /\ ~session[s].stopped => s = activeSession

\* Handles, the loop, pausing and the active session are in order, whatever has
\* been hidden, lost, stopped or started in between.
SessionsSound ==
  /\ HandlesExact
  /\ EndedIsQuiet
  /\ LoopAlive
  /\ PausedWhileHidden
  /\ OneFacadeSession

\* Whatever callbacks the host leaves pending, nothing is rendered before
\* setup has finished, without a context or after stop.
RendersOnlyWhenReady ==
  [][\A s \in Sessions :
       session[s].renderedFrames # session'[s].renderedFrames =>
         LET r == session'[s] IN
         r.run = "done" /\ r.initialized /\ ~r.contextLost /\ ~r.stopped]_vars

\* What happens to a session, apart from what its handle reports.
Status(r) ==
  CASE r.run = "unborn" -> "unborn"
    [] r.run # "unborn" /\ r.stopped -> "stopped"
    [] r.run # "unborn" /\ ~r.stopped /\ r.contextLost -> "lost"
    [] OTHER -> IF r.initialized THEN "live" ELSE "starting"

Lifecycle == INSTANCE SessionLifecycle WITH
  status <- [s \in Sessions |-> Status(session[s])],
  owned <- {s \in Sessions : session[s].facade},
  current <- activeSession
FollowsLifecycle == Lifecycle!Spec

\* A start is never left in progress, so that a later one can succeed.
StartSettles == startInProgress ~> ~startInProgress

\* A program with a frame function that stays running in a document that stays
\* shown gets frame after frame.
FramesKeepComing ==
  \A s \in Sessions :
    <>[](session[s].state = "running" /\ HasFrame(session[s]) /\ ~hidden)
      => []<><<Tick(s)>>_vars
=============================================================================
