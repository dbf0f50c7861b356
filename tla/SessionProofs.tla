--------------------------- MODULE SessionProofs ---------------------------
(***************************************************************************)
(* Proofs about Session, for every set of sessions and every bound.  What  *)
(* a method does to a record is stated once, as a lemma about the record;  *)
(* an action is then a composition of methods on one session.              *)
(***************************************************************************)
EXTENDS Session, TLAPS

\* Handles and pending callbacks agree.
Counted(r) ==
  /\ r.animationHandle => r.ticks > 0
  /\ r.renderHandle => r.draws > 0
  /\ r.cancels => r.ticks = One(r.animationHandle) /\ r.draws = One(r.renderHandle)

\* What holds of a record between any two methods.
Sound(r) ==
  /\ r \in SessionRecord
  /\ Counted(r)
  /\ r.stopped <=> r.state = "stopped"
  /\ r.stopped \/ r.contextLost => ~r.animationHandle /\ ~r.renderHandle
  /\ r.state = "running" => r.initialized /\ ~r.contextLost
  /\ r.state = "paused" => r.initialized
  /\ r.initialized => r.run \in {"assets", "done"}
  /\ ~r.initialized => r.ticks = 0 /\ r.draws = 0
  /\ r.run = "unborn" => ~r.facade /\ ~r.stopped /\ ~r.contextLost

\* What a turn of the program restores.
Lively(r, h) ==
  /\ r.initialized => r.run = "done"
  /\ r.run = "unborn" => r.renderedFrames = 0
  /\ r.state = "running" /\ HasFrame(r) => r.animationHandle
  /\ r.initialized /\ r.pauses /\ ~r.stopped /\ ~r.contextLost
       => r.state = IF h THEN "paused" ELSE "running"

Good(r, h) == Sound(r) /\ Lively(r, h)

\* What a session can never take back, and when it may have rendered.
Moved(r, n) ==
  /\ r.run # "unborn" /\ n.run # "unborn"
  /\ n.facade = r.facade
  /\ r.stopped => n.stopped
  /\ r.contextLost => n.contextLost
  /\ r.initialized => n.initialized
  /\ n.renderedFrames # r.renderedFrames =>
       n.run = "done" /\ n.initialized /\ ~n.contextLost /\ ~n.stopped

\* The fields that no method but its own assigns.
SameLife(r, n) ==
  /\ n.run = r.run /\ n.contextLost = r.contextLost
  /\ n.initialized = r.initialized /\ n.program = r.program
  /\ n.pauses = r.pauses /\ n.cancels = r.cancels /\ n.facade = r.facade

----------------------------------------------------------------------------
(* Methods *)

\* pauseAnimation leaves no handle, and no callback where the host cancels.
LEMMA Pausing ==
  ASSUME NEW r \in SessionRecord, Counted(r)
  PROVE  LET n == PauseAnimation(r) IN
         /\ n \in SessionRecord /\ Counted(n) /\ SameLife(r, n)
         /\ ~n.animationHandle /\ ~n.renderHandle
         /\ r.ticks = 0 => n.ticks = 0
         /\ r.draws = 0 => n.draws = 0
         /\ n.state = r.state /\ n.stopped = r.stopped
         /\ n.renderedFrames = r.renderedFrames
<1> DEFINE t == IF r.animationHandle /\ r.cancels THEN r.ticks - 1 ELSE r.ticks
           d == IF r.renderHandle /\ r.cancels THEN r.draws - 1 ELSE r.draws
           n == [r EXCEPT !.ticks = t, !.draws = d, !.animationHandle = FALSE,
                          !.renderHandle = FALSE]
<1>1. /\ t \in 0..MaxPending /\ d \in 0..MaxPending
      /\ r.cancels => t = 0 /\ d = 0
      /\ r.ticks = 0 => t = 0
      /\ r.draws = 0 => d = 0
  BY PendingAssumption DEF SessionRecord, Counted, One
<1>2. PauseAnimation(r) = n
  BY DEF PauseAnimation
<1> HIDE DEF t, d
<1>3. /\ n \in SessionRecord /\ SameLife(r, n)
      /\ n.animationHandle = FALSE /\ n.renderHandle = FALSE
      /\ n.ticks = t /\ n.draws = d
      /\ n.state = r.state /\ n.stopped = r.stopped
      /\ n.renderedFrames = r.renderedFrames
  BY <1>1 DEF SessionRecord, SameLife
<1> HIDE DEF n
<1>4. Counted(n)
  BY <1>1, <1>3 DEF Counted, SameLife, One
<1> QED BY <1>1, <1>2, <1>3, <1>4

\* stop leaves a stopped session with nothing pending; a second one changes
\* nothing.
LEMMA Stopping ==
  ASSUME NEW r, Sound(r), r.run # "unborn", NEW h,
         r.initialized => r.run = "done"
  PROVE  LET n == Stop(r) IN
         /\ Good(n, h) /\ SameLife(r, n) /\ n.stopped
         /\ n.renderedFrames = r.renderedFrames
<1> DEFINE p == PauseAnimation(r)
<1>1. CASE r.stopped
  BY <1>1 DEF Stop, Good, Sound, Lively, SameLife
<1>2. CASE ~r.stopped
  <2>1. /\ p \in SessionRecord /\ Counted(p) /\ SameLife(r, p)
        /\ ~p.animationHandle /\ ~p.renderHandle
        /\ r.ticks = 0 => p.ticks = 0
        /\ r.draws = 0 => p.draws = 0
        /\ p.renderedFrames = r.renderedFrames
    BY Pausing DEF Sound
  <2>2. Stop(r) = [p EXCEPT !.stopped = TRUE, !.state = "stopped"]
    BY <1>2 DEF Stop
  <2> HIDE DEF p
  <2> DEFINE n == [p EXCEPT !.stopped = TRUE, !.state = "stopped"]
  <2>3. /\ n \in SessionRecord /\ n.stopped /\ n.state = "stopped"
        /\ n.animationHandle = p.animationHandle /\ n.renderHandle = p.renderHandle
        /\ n.ticks = p.ticks /\ n.draws = p.draws /\ n.cancels = p.cancels
        /\ SameLife(p, n) /\ n.renderedFrames = p.renderedFrames
    BY <2>1 DEF SessionRecord, SameLife
  <2>4. Counted(n) /\ SameLife(r, n)
    BY <2>1, <2>3 DEF Counted, SameLife
  <2> HIDE DEF n
  <2>5. Sound(n)
    BY <2>1, <2>3, <2>4 DEF Sound, SameLife
  <2>6. Lively(n, h)
    BY <2>1, <2>3 DEF Lively, SameLife
  <2> QED BY <2>1, <2>2, <2>3, <2>4, <2>5, <2>6 DEF Good, n
<1> QED BY <1>1, <1>2 DEF Sound, SessionRecord

\* scheduleAnimation keeps a running program going and adds no second frame.
LEMMA Scheduling ==
  ASSUME NEW r, Sound(r), r.ticks < MaxPending
  PROVE  LET n == ScheduleAnimation(r) IN
         /\ Sound(n) /\ SameLife(r, n)
         /\ n.state = r.state /\ n.stopped = r.stopped
         /\ n.renderedFrames = r.renderedFrames
         /\ n.state = "running" /\ HasFrame(n) => n.animationHandle
<1> DEFINE n == ScheduleAnimation(r)
<1>1. CASE r.stopped \/ r.contextLost \/ r.state # "running" \/ ~HasFrame(r) \/ r.animationHandle
  BY <1>1 DEF ScheduleAnimation, Sound, SameLife
<1>2. CASE ~(r.stopped \/ r.contextLost \/ r.state # "running" \/ ~HasFrame(r) \/ r.animationHandle)
  <2> DEFINE k == r.ticks + 1
  <2>0. r \in SessionRecord /\ k \in 0..MaxPending
    BY PendingAssumption DEF Sound, SessionRecord
  <2>1. n = [r EXCEPT !.animationHandle = TRUE, !.ticks = k]
    BY <1>2 DEF ScheduleAnimation
  <2> HIDE DEF n, k
  <2>2. /\ n \in SessionRecord /\ SameLife(r, n)
        /\ n.state = r.state /\ n.stopped = r.stopped
        /\ n.renderedFrames = r.renderedFrames
        /\ n.animationHandle /\ n.ticks = k
        /\ n.draws = r.draws /\ n.renderHandle = r.renderHandle
    BY <2>0, <2>1 DEF SessionRecord, SameLife
  <2>3. /\ r.ticks \in Nat /\ r.draws \in Nat /\ Counted(r) /\ ~r.animationHandle
        /\ n.cancels = r.cancels
    BY <1>2, <2>2, PendingAssumption DEF Sound, SessionRecord, SameLife
  <2>4. Counted(n)
    BY <2>2, <2>3 DEF Counted, One, k
  <2>5. Sound(n)
    BY <1>2, <2>2, <2>4 DEF Sound, SameLife
  <2> QED BY <2>2, <2>5 DEF n, k
<1> QED BY <1>1, <1>2

\* scheduleRender has one redraw pending at most.
LEMMA Redrawing ==
  ASSUME NEW r, Sound(r), r.draws < MaxPending
  PROVE  LET n == ScheduleRender(r) IN
         /\ Sound(n) /\ SameLife(r, n)
         /\ n.state = r.state /\ n.stopped = r.stopped
         /\ n.renderedFrames = r.renderedFrames
         /\ n.animationHandle = r.animationHandle
<1> DEFINE n == ScheduleRender(r)
<1>1. CASE r.stopped \/ ~r.initialized \/ r.contextLost \/ HasFrame(r) \/ r.renderHandle
  BY <1>1 DEF ScheduleRender, SameLife
<1>2. CASE ~(r.stopped \/ ~r.initialized \/ r.contextLost \/ HasFrame(r) \/ r.renderHandle)
  <2> DEFINE k == r.draws + 1
  <2>0. r \in SessionRecord /\ k \in 0..MaxPending
    BY PendingAssumption DEF Sound, SessionRecord
  <2>1. n = [r EXCEPT !.renderHandle = TRUE, !.draws = k]
    BY <1>2 DEF ScheduleRender
  <2> HIDE DEF n, k
  <2>2. /\ n \in SessionRecord /\ SameLife(r, n)
        /\ n.state = r.state /\ n.stopped = r.stopped
        /\ n.renderedFrames = r.renderedFrames
        /\ n.renderHandle /\ n.draws = k
        /\ n.ticks = r.ticks /\ n.animationHandle = r.animationHandle
    BY <2>0, <2>1 DEF SessionRecord, SameLife
  <2>3. /\ r.ticks \in Nat /\ r.draws \in Nat /\ Counted(r) /\ ~r.renderHandle
        /\ n.cancels = r.cancels
    BY <1>2, <2>2, PendingAssumption DEF Sound, SessionRecord, SameLife
  <2>4. Counted(n)
    BY <2>2, <2>3 DEF Counted, One, k
  <2>5. Sound(n)
    BY <1>2, <2>2, <2>4 DEF Sound, SameLife
  <2> QED BY <2>2, <2>5 DEF n, k
<1> QED BY <1>1, <1>2

\* Rendering changes nothing but the count of frames.
LEMMA Rendering ==
  ASSUME NEW r, Sound(r)
  PROVE  LET n == Render(r) IN
         /\ Sound(n) /\ SameLife(r, n)
         /\ n.state = r.state /\ n.stopped = r.stopped
         /\ n.ticks = r.ticks /\ n.draws = r.draws
         /\ n.animationHandle = r.animationHandle
         /\ n.renderHandle = r.renderHandle
<1> DEFINE n == Render(r)
<1>1. /\ n \in SessionRecord /\ SameLife(r, n)
      /\ n.state = r.state /\ n.stopped = r.stopped
      /\ n.ticks = r.ticks /\ n.draws = r.draws
      /\ n.animationHandle = r.animationHandle
      /\ n.renderHandle = r.renderHandle
  BY DEF Render, Sound, SessionRecord, SameLife
<1>2. Counted(n)
  BY <1>1 DEF Sound, Counted, SameLife
<1> HIDE DEF n
<1>3. Sound(n)
  BY <1>1, <1>2 DEF Sound, SameLife
<1> QED BY <1>1, <1>3 DEF n

\* run reaching its end changes nothing else.
LEMMA Ending ==
  ASSUME NEW r, Sound(r), r.run # "unborn", NEW h,
         r.state = "running" /\ HasFrame(r) => r.animationHandle,
         r.initialized /\ r.pauses /\ ~r.stopped /\ ~r.contextLost
           => r.state = IF h THEN "paused" ELSE "running"
  PROVE  LET n == [r EXCEPT !.run = "done"] IN
         /\ Good(n, h) /\ n.run = "done" /\ n.facade = r.facade
         /\ n.stopped = r.stopped /\ n.contextLost = r.contextLost
         /\ n.initialized = r.initialized
         /\ n.renderedFrames = r.renderedFrames
<1> DEFINE n == [r EXCEPT !.run = "done"]
<1>1. /\ n \in SessionRecord /\ n.run = "done" /\ n.facade = r.facade
      /\ n.stopped = r.stopped /\ n.contextLost = r.contextLost
      /\ n.initialized = r.initialized /\ n.state = r.state
      /\ n.renderedFrames = r.renderedFrames /\ n.pauses = r.pauses
      /\ n.program = r.program /\ n.cancels = r.cancels
      /\ n.ticks = r.ticks /\ n.draws = r.draws
      /\ n.animationHandle = r.animationHandle /\ n.renderHandle = r.renderHandle
  BY DEF Sound, SessionRecord
<1> HIDE DEF n
<1>2. Counted(n)
  BY <1>1 DEF Sound, Counted
<1>3. Sound(n)
  BY <1>1, <1>2 DEF Sound
<1>4. Lively(n, h)
  BY <1>1 DEF Lively, HasFrame
<1> QED BY <1>1, <1>3, <1>4 DEF n, Good

----------------------------------------------------------------------------
(* Turns *)

\* What holds of all sessions between two turns.
Inv ==
  /\ session \in [Sessions -> SessionRecord]
  /\ activeSession \in Sessions \cup {NoSession}
  /\ startInProgress \in BOOLEAN
  /\ hidden \in BOOLEAN
  /\ \A s \in Sessions : Good(session[s], hidden)
  /\ \A s \in Sessions :
       activeSession = s <=> session[s].facade /\ ~session[s].stopped

\* Session s takes a turn that leaves it in good order.
Turn(s) ==
  /\ \E n : Becomes(s, n) /\ Good(n, hidden) /\ Moved(session[s], n)
  /\ startInProgress' \in BOOLEAN
  /\ UNCHANGED hidden

\* A turn that ends in stop or fail.
LEMMA StopTurn ==
  ASSUME Inv, NEW s \in Sessions, session[s].run # "unborn"
  PROVE  Good(Stop(session[s]), hidden) /\ Moved(session[s], Stop(session[s]))
<1>1. Sound(session[s]) /\ (session[s].initialized => session[s].run = "done")
  BY DEF Inv, Good, Lively
<1> DEFINE n == Stop(session[s])
<1>2. /\ Good(n, hidden) /\ SameLife(session[s], n) /\ n.stopped
      /\ n.renderedFrames = session[s].renderedFrames
  BY <1>1, Stopping
<1> QED BY <1>2 DEF Moved, SameLife

\* The steps of run.
LEMMA RunTurn ==
  ASSUME Inv, NEW s \in Sessions, Run(s) \/ Progress(s)
  PROVE  Turn(s)
<1> DEFINE r == session[s]
<1>0. /\ r \in SessionRecord /\ Sound(r) /\ Lively(r, hidden) /\ Good(r, hidden)
      /\ startInProgress \in BOOLEAN
  BY DEF Inv, Good
<1>1. CASE Run(s)
  <2> DEFINE n == [r EXCEPT !.run = "loading"]
  <2>1. Becomes(s, n) /\ r.run = "created" /\ UNCHANGED <<startInProgress, hidden>>
    BY <1>1 DEF Run
  <2>2. /\ n \in SessionRecord /\ n.run = "loading" /\ n.facade = r.facade
        /\ n.stopped = r.stopped /\ n.contextLost = r.contextLost
        /\ n.initialized = r.initialized /\ n.state = r.state
        /\ n.renderedFrames = r.renderedFrames /\ n.pauses = r.pauses
        /\ n.program = r.program /\ n.cancels = r.cancels
        /\ n.ticks = r.ticks /\ n.draws = r.draws
        /\ n.animationHandle = r.animationHandle /\ n.renderHandle = r.renderHandle
    BY <1>0 DEF SessionRecord
  <2> HIDE DEF n
  <2>3. ~r.initialized
    BY <1>0, <2>1 DEF Lively
  <2>4. Good(n, hidden)
    BY <1>0, <2>2, <2>3 DEF Good, Sound, Lively, Counted
  <2>5. Moved(r, n)
    BY <2>1, <2>2 DEF Moved
  <2> QED BY <1>0, <2>1, <2>4, <2>5 DEF Turn
<1>2. ASSUME NEW x, RunEnds(s, x), Good(x, hidden), Moved(r, x), UNCHANGED hidden
      PROVE  Turn(s)
  <2> DEFINE n == [x EXCEPT !.run = "done"]
  <2>1. Good(n, hidden) /\ Moved(r, n)
    <3>1. /\ Sound(x) /\ x.run # "unborn"
          /\ x.state = "running" /\ HasFrame(x) => x.animationHandle
          /\ x.initialized /\ x.pauses /\ ~x.stopped /\ ~x.contextLost
               => x.state = IF hidden THEN "paused" ELSE "running"
      BY <1>2 DEF Good, Lively, Moved
    <3>2. /\ Good(n, hidden) /\ n.run = "done" /\ n.facade = x.facade
          /\ n.stopped = x.stopped /\ n.contextLost = x.contextLost
          /\ n.initialized = x.initialized
          /\ n.renderedFrames = x.renderedFrames
      BY <3>1, Ending
    <3> HIDE DEF n
    <3> QED BY <1>2, <3>2 DEF Moved
  <2> HIDE DEF n
  <2>2. Becomes(s, n) /\ startInProgress' \in BOOLEAN
    BY <1>2 DEF RunEnds, n
  <2> QED BY <1>2, <2>1, <2>2 DEF Turn
<1>3. ASSUME r.run # "unborn" PROVE Good(r, hidden) /\ Moved(r, r)
  BY <1>0, <1>3 DEF Moved
<1>4. CASE LoadFails(s)
  BY <1>2, <1>4, StopTurn DEF LoadFails, Fail
<1>5. CASE Loaded(s)
  <2>1. CASE r.stopped
    BY <1>2, <1>3, <1>5, <2>1 DEF Loaded
  <2>2. CASE ~r.stopped
    <3>1. PICK p \in {"still", "frame"} :
            Becomes(s, [r EXCEPT !.program = p, !.run = "setup"])
      BY <1>5, <2>2 DEF Loaded
    <3>2. r.run = "loading" /\ UNCHANGED <<startInProgress, hidden>>
      BY <1>5, <2>2 DEF Loaded
    <3> DEFINE n == [r EXCEPT !.program = p, !.run = "setup"]
    <3>3. /\ n \in SessionRecord /\ n.run = "setup" /\ n.facade = r.facade
          /\ n.stopped = r.stopped /\ n.contextLost = r.contextLost
          /\ n.initialized = r.initialized /\ n.state = r.state
          /\ n.renderedFrames = r.renderedFrames /\ n.cancels = r.cancels
          /\ n.ticks = r.ticks /\ n.draws = r.draws
          /\ n.animationHandle = r.animationHandle
          /\ n.renderHandle = r.renderHandle
      BY <1>0, <3>1 DEF SessionRecord, Programs
    <3>4. Becomes(s, n)
      BY <3>1
    <3> HIDE DEF n
    <3>5. ~r.initialized /\ r.state # "running"
      BY <1>0, <3>2 DEF Sound, Lively
    <3>6. Good(n, hidden)
      BY <1>0, <3>3, <3>5 DEF Good, Sound, Lively, Counted
    <3>7. Moved(r, n)
      BY <3>2, <3>3 DEF Moved
    <3> QED BY <1>0, <3>2, <3>4, <3>6, <3>7 DEF Turn
  <2> QED BY <1>0, <2>1, <2>2 DEF SessionRecord
<1>6. CASE SetupDone(s)
  <2> DEFINE n == [r EXCEPT !.run = "assets"]
  <2>1. Becomes(s, n) /\ r.run = "setup" /\ UNCHANGED <<startInProgress, hidden>>
    BY <1>6 DEF SetupDone
  <2>2. /\ n \in SessionRecord /\ n.run = "assets" /\ n.facade = r.facade
        /\ n.stopped = r.stopped /\ n.contextLost = r.contextLost
        /\ n.initialized = r.initialized /\ n.state = r.state
        /\ n.renderedFrames = r.renderedFrames /\ n.cancels = r.cancels
        /\ n.ticks = r.ticks /\ n.draws = r.draws
        /\ n.animationHandle = r.animationHandle /\ n.renderHandle = r.renderHandle
    BY <1>0 DEF SessionRecord
  <2> HIDE DEF n
  <2>3. ~r.initialized /\ r.state # "running"
    BY <1>0, <2>1 DEF Sound, Lively
  <2>4. Good(n, hidden)
    BY <1>0, <2>2, <2>3 DEF Good, Sound, Lively, Counted
  <2>5. Moved(r, n)
    BY <2>1, <2>2 DEF Moved
  <2> QED BY <1>0, <2>1, <2>4, <2>5 DEF Turn
<1>7. CASE SetupFails(s)
  BY <1>2, <1>7, StopTurn DEF SetupFails, Fail
<1>8. CASE Ready(s)
  <2>1. CASE r.stopped \/ r.contextLost
    BY <1>2, <1>3, <1>8, <2>1 DEF Ready
  <2>2. CASE ~r.stopped /\ ~r.contextLost
    <3>1. /\ RunEnds(s, Initialized(r)) /\ r.run = "assets" /\ UNCHANGED hidden
      BY <1>8, <2>2 DEF Ready
    <3>2. ~r.initialized /\ r.ticks = 0 /\ r.draws = 0
      BY <1>0, <3>1 DEF Sound, Lively
    <3> DEFINE st == IF ShouldPause(r) THEN "paused" ELSE "running"
               a == Render(r)
               b == [a EXCEPT !.initialized = TRUE, !.state = st]
               c == ScheduleAnimation(b)
               n == [c EXCEPT !.run = "done"]
    <3>3. /\ Sound(a) /\ SameLife(r, a) /\ a.ticks = 0 /\ ~a.stopped
      BY <1>0, <2>2, <3>2, Rendering
    <3>4. /\ st \in {"paused", "running"}
          /\ r.pauses => st = IF hidden THEN "paused" ELSE "running"
      BY DEF ShouldPause
    <3> HIDE DEF a, st
    <3>5. /\ b \in SessionRecord /\ b.initialized /\ b.state = st
          /\ b.run = "assets" /\ b.facade = r.facade /\ ~b.stopped /\ ~b.contextLost
          /\ b.ticks = 0 /\ b.draws = a.draws /\ b.cancels = a.cancels
          /\ b.pauses = r.pauses
          /\ b.animationHandle = a.animationHandle /\ b.renderHandle = a.renderHandle
      BY <2>2, <3>1, <3>3, <3>4 DEF Sound, SessionRecord, SameLife
    <3> HIDE DEF b
    <3>6. Sound(b)
      BY <3>3, <3>4, <3>5 DEF Sound, Counted
    <3>7. /\ Sound(c) /\ SameLife(b, c) /\ c.state = st /\ ~c.stopped
          /\ c.state = "running" /\ HasFrame(c) => c.animationHandle
      BY <3>5, <3>6, Scheduling, PendingAssumption
    <3> HIDE DEF c
    <3>8. /\ c.run # "unborn" /\ c.initialized /\ ~c.contextLost
          /\ c.facade = r.facade
          /\ c.pauses => c.state = IF hidden THEN "paused" ELSE "running"
      BY <3>4, <3>5, <3>7 DEF SameLife
    <3>9. /\ Good(n, hidden) /\ n.run = "done" /\ n.facade = c.facade
          /\ n.stopped = c.stopped /\ n.contextLost = c.contextLost
          /\ n.initialized = c.initialized
      BY <3>7, <3>8, Ending
    <3>10. Becomes(s, n) /\ startInProgress' \in BOOLEAN
      BY <3>1 DEF RunEnds, Initialized, a, b, c, st
    <3> HIDE DEF n
    <3>11. Moved(r, n)
      BY <2>2, <3>1, <3>7, <3>8, <3>9 DEF Moved
    <3> QED BY <3>1, <3>9, <3>10, <3>11 DEF Turn
  <2> QED BY <1>0, <2>1, <2>2 DEF SessionRecord
<1> QED BY <1>1, <1>4, <1>5, <1>6, <1>7, <1>8 DEF Progress

\* A callback that stops or throws ends in stop; one that returns goes on.
LEMMA AfterCallback ==
  ASSUME NEW r, Sound(r), r.run # "unborn", r.initialized => r.run = "done",
         NEW next, Good(next, hidden), Moved(r, next),
         NEW o \in {"returns", "throws", "stops"}
  PROVE  Good(After(o, r, next), hidden) /\ Moved(r, After(o, r, next))
<1>1. CASE o = "returns"
  <2>1. After(o, r, next) = next
    BY <1>1 DEF After
  <2> QED BY <2>1
<1>2. CASE o \in {"throws", "stops"}
  <2> DEFINE n == Stop(r)
  <2>1. After(o, r, next) = n
    BY <1>2 DEF After, Fail
  <2>2. /\ Good(n, hidden) /\ SameLife(r, n) /\ n.stopped
        /\ n.renderedFrames = r.renderedFrames
    BY Stopping
  <2> HIDE DEF n
  <2>3. Moved(r, n)
    BY <2>2 DEF Moved, SameLife
  <2> QED BY <2>1, <2>2, <2>3
<1> QED BY <1>1, <1>2

\* The outcomes of a callback.
LEMMA OutcomeType == ASSUME NEW r PROVE Outcomes(r) \subseteq {"returns", "throws", "stops"}
BY DEF Outcomes

\* The animation frame.
LEMMA TickTurn ==
  ASSUME Inv, NEW s \in Sessions, Tick(s)
  PROVE  Turn(s)
<1> DEFINE q == session[s]
           r == [session[s] EXCEPT !.ticks = @ - 1, !.animationHandle = FALSE]
<1>0. /\ q \in SessionRecord /\ Sound(q) /\ Lively(q, hidden)
      /\ startInProgress \in BOOLEAN
  BY DEF Inv, Good
<1>1. q.ticks > 0 /\ UNCHANGED <<startInProgress, hidden>>
  BY DEF Tick
<1>2. \/ (r.stopped \/ r.state # "running") /\ Becomes(s, r)
      \/ /\ ~r.stopped /\ r.state = "running"
         /\ \E o \in Outcomes(r) :
              Becomes(s, After(o, r, ScheduleAnimation(Render(r))))
  BY DEF Tick
<1>3. /\ r \in SessionRecord /\ SameLife(q, r)
      /\ r.ticks = q.ticks - 1 /\ ~r.animationHandle
      /\ r.draws = q.draws /\ r.renderHandle = q.renderHandle
      /\ r.state = q.state /\ r.stopped = q.stopped
      /\ r.renderedFrames = q.renderedFrames
  <2> DEFINE k == q.ticks - 1
  <2>1. k \in 0..MaxPending
    BY <1>0, <1>1, PendingAssumption DEF SessionRecord
  <2>2. r = [q EXCEPT !.ticks = k, !.animationHandle = FALSE]
    OBVIOUS
  <2> HIDE DEF r, k
  <2>3. /\ r \in SessionRecord /\ SameLife(q, r)
        /\ r.ticks = k /\ r.animationHandle = FALSE
        /\ r.draws = q.draws /\ r.renderHandle = q.renderHandle
        /\ r.state = q.state /\ r.stopped = q.stopped
        /\ r.renderedFrames = q.renderedFrames
    BY <1>0, <2>1, <2>2 DEF SessionRecord, SameLife
  <2> QED BY <2>3 DEF k
<1> HIDE DEF r
<1>4. q.initialized /\ q.ticks \in Nat /\ q.ticks <= MaxPending
  BY <1>0, <1>1 DEF Sound, SessionRecord
<1>5. Counted(r)
  <2>1. q.cancels => q.animationHandle /\ q.ticks = 1
    BY <1>0, <1>1 DEF Sound, Counted, One
  <2> QED BY <1>0, <1>3, <2>1 DEF Sound, Counted, SameLife, One
<1>6. Sound(r) /\ r.run = "done" /\ r.initialized
  BY <1>0, <1>3, <1>4, <1>5 DEF Sound, Lively, SameLife
<1>7. CASE (r.stopped \/ r.state # "running") /\ Becomes(s, r)
  <2>1. r.state # "running"
    BY <1>6, <1>7 DEF Sound
  <2>2. Good(r, hidden)
    BY <1>0, <1>3, <1>6, <2>1 DEF Good, Lively, SameLife
  <2>3. Moved(q, r)
    BY <1>3, <1>6 DEF Moved, SameLife
  <2> QED BY <1>0, <1>1, <1>7, <2>2, <2>3 DEF Turn
<1>8. ASSUME ~r.stopped, r.state = "running",
             NEW o \in Outcomes(r),
             Becomes(s, After(o, r, ScheduleAnimation(Render(r))))
      PROVE  Turn(s)
  <2> DEFINE a == Render(r)
             n == ScheduleAnimation(a)
  <2>1. /\ Sound(a) /\ SameLife(r, a) /\ a.state = r.state /\ a.ticks = r.ticks
        /\ a.stopped = r.stopped
    BY <1>6, Rendering
  <2> HIDE DEF a
  <2>2. /\ Sound(n) /\ SameLife(a, n) /\ n.state = a.state
        /\ n.stopped = a.stopped
        /\ n.state = "running" /\ HasFrame(n) => n.animationHandle
    <3>1. a.ticks < MaxPending
      BY <1>1, <1>3, <1>4, <2>1, PendingAssumption
    <3> QED BY <2>1, <3>1, Scheduling
  <2> HIDE DEF n
  <2>3. /\ n.run = "done" /\ n.initialized /\ n.state = "running"
        /\ n.pauses = q.pauses /\ n.facade = r.facade /\ ~n.stopped
        /\ n.contextLost = r.contextLost
    BY <1>3, <1>6, <1>8, <2>1, <2>2 DEF SameLife
  <2>4. ~r.contextLost
    BY <1>6, <1>8 DEF Sound
  <2>5. q.pauses => ~hidden
    <3>1. ~q.contextLost /\ ~q.stopped /\ q.state = "running"
      BY <1>3, <1>8, <2>4 DEF SameLife
    <3> QED BY <1>0, <1>4, <3>1 DEF Lively
  <2>6. Good(n, hidden)
    BY <2>2, <2>3, <2>5 DEF Good, Lively
  <2>7. Moved(r, n)
    BY <1>6, <1>8, <2>3, <2>4 DEF Moved
  <2>8. o \in {"returns", "throws", "stops"}
    BY OutcomeType
  <2> DEFINE m == After(o, r, n)
  <2>9. Good(m, hidden) /\ Moved(r, m)
    BY <1>6, <2>6, <2>7, <2>8, AfterCallback
  <2>10. Becomes(s, m)
    BY <1>8 DEF a, n
  <2> HIDE DEF m
  <2>11. Moved(q, m)
    BY <1>3, <2>9 DEF Moved, SameLife
  <2> QED BY <1>0, <1>1, <2>9, <2>10, <2>11 DEF Turn
<1> QED BY <1>2, <1>7, <1>8

\* The coalesced redraw.
LEMMA DrawTurn ==
  ASSUME Inv, NEW s \in Sessions, Draw(s)
  PROVE  Turn(s)
<1> DEFINE q == session[s]
           r == [session[s] EXCEPT !.draws = @ - 1, !.renderHandle = FALSE]
<1>0. /\ q \in SessionRecord /\ Sound(q) /\ Lively(q, hidden)
      /\ startInProgress \in BOOLEAN
  BY DEF Inv, Good
<1>1. q.draws > 0 /\ UNCHANGED <<startInProgress, hidden>>
  BY DEF Draw
<1>2. \/ (r.stopped \/ r.contextLost) /\ Becomes(s, r)
      \/ /\ ~r.stopped /\ ~r.contextLost
         /\ \E o \in {"returns", "throws"} : Becomes(s, After(o, r, Render(r)))
  BY DEF Draw
<1>3. /\ r \in SessionRecord /\ SameLife(q, r)
      /\ r.draws = q.draws - 1 /\ ~r.renderHandle
      /\ r.ticks = q.ticks /\ r.animationHandle = q.animationHandle
      /\ r.state = q.state /\ r.stopped = q.stopped
      /\ r.renderedFrames = q.renderedFrames
  <2> DEFINE k == q.draws - 1
  <2>1. k \in 0..MaxPending
    BY <1>0, <1>1, PendingAssumption DEF SessionRecord
  <2>2. r = [q EXCEPT !.draws = k, !.renderHandle = FALSE]
    OBVIOUS
  <2> HIDE DEF r, k
  <2>3. /\ r \in SessionRecord /\ SameLife(q, r)
        /\ r.draws = k /\ r.renderHandle = FALSE
        /\ r.ticks = q.ticks /\ r.animationHandle = q.animationHandle
        /\ r.state = q.state /\ r.stopped = q.stopped
        /\ r.renderedFrames = q.renderedFrames
    BY <1>0, <2>1, <2>2 DEF SessionRecord, SameLife
  <2> QED BY <2>3 DEF k
<1> HIDE DEF r
<1>4. q.initialized
  BY <1>0, <1>1 DEF Sound
<1>5. Counted(r)
  <2>1. q.cancels => q.renderHandle /\ q.draws = 1
    BY <1>0, <1>1 DEF Sound, Counted, One
  <2> QED BY <1>0, <1>3, <2>1 DEF Sound, Counted, SameLife, One
<1>6. Sound(r) /\ r.run = "done" /\ r.initialized
  BY <1>0, <1>3, <1>4, <1>5 DEF Sound, Lively, SameLife
<1>7. Good(r, hidden) /\ Moved(q, r)
  BY <1>0, <1>3, <1>6 DEF Good, Lively, SameLife, HasFrame, Moved
<1>8. CASE Becomes(s, r)
  BY <1>0, <1>1, <1>7, <1>8 DEF Turn
<1>9. ASSUME ~r.stopped, ~r.contextLost, NEW o \in {"returns", "throws"},
             Becomes(s, After(o, r, Render(r)))
      PROVE  Turn(s)
  <2> DEFINE n == Render(r)
             m == After(o, r, n)
  <2>1. /\ Sound(n) /\ SameLife(r, n) /\ n.state = r.state
        /\ n.stopped = r.stopped /\ n.animationHandle = r.animationHandle
    BY <1>6, Rendering
  <2> HIDE DEF n
  <2>2. Good(n, hidden)
    BY <1>6, <1>7, <2>1 DEF Good, Lively, SameLife, HasFrame
  <2>3. Moved(r, n)
    BY <1>6, <1>9, <2>1 DEF Moved, SameLife
  <2>4. Good(m, hidden) /\ Moved(r, m)
    BY <1>6, <2>2, <2>3, AfterCallback
  <2>5. Becomes(s, m)
    BY <1>9 DEF n
  <2> HIDE DEF m
  <2>6. Moved(q, m)
    BY <1>3, <2>4 DEF Moved, SameLife
  <2> QED BY <1>0, <1>1, <2>4, <2>5, <2>6 DEF Turn
<1> QED BY <1>2, <1>8, <1>9

\* Events that ask for a redraw.
LEMMA EventTurn ==
  ASSUME Inv, NEW s \in Sessions, DispatchEvent(s) \/ HandleResize(s)
  PROVE  Turn(s)
<1> DEFINE r == session[s]
           n == ScheduleRender(r)
<1>0. /\ r \in SessionRecord /\ Sound(r) /\ Lively(r, hidden)
      /\ startInProgress \in BOOLEAN
  BY DEF Inv, Good
<1>1. /\ r.run # "unborn" /\ ~r.stopped /\ r.draws < MaxPending
      /\ UNCHANGED <<startInProgress, hidden>>
  BY DEF DispatchEvent, HandleResize, Listens
<1>2. PICK o \in {"returns", "throws", "stops"} : Becomes(s, After(o, r, n))
  BY OutcomeType DEF DispatchEvent, HandleResize
<1>3. /\ Sound(n) /\ SameLife(r, n) /\ n.state = r.state
      /\ n.stopped = r.stopped /\ n.renderedFrames = r.renderedFrames
      /\ n.animationHandle = r.animationHandle
  BY <1>0, <1>1, Redrawing
<1> DEFINE m == After(o, r, n)
<1>4. Becomes(s, m)
  BY <1>2
<1> HIDE DEF n
<1>5. Good(n, hidden)
  BY <1>0, <1>3 DEF Good, Lively, SameLife, HasFrame
<1>6. Moved(r, n)
  BY <1>1, <1>3 DEF Moved, SameLife
<1>7. Good(m, hidden) /\ Moved(r, m)
  BY <1>0, <1>1, <1>5, <1>6, AfterCallback DEF Lively
<1> HIDE DEF m
<1> QED BY <1>0, <1>1, <1>4, <1>7 DEF Turn

\* A lost context: whatever was pending is cancelled.
LEMMA LostTurn ==
  ASSUME Inv, NEW s \in Sessions, HandleContextLost(s)
  PROVE  Turn(s)
<1> DEFINE q == session[s]
           r == [q EXCEPT !.contextLost = TRUE, !.state = "context-lost"]
           n == PauseAnimation(r)
<1>0. /\ q \in SessionRecord /\ Sound(q) /\ Lively(q, hidden)
      /\ startInProgress \in BOOLEAN
  BY DEF Inv, Good
<1>1. /\ q.run # "unborn" /\ ~q.stopped
      /\ Becomes(s, n) /\ UNCHANGED <<startInProgress, hidden>>
  BY DEF HandleContextLost, Listens
<1>2. /\ r \in SessionRecord /\ r.run = q.run /\ r.initialized = q.initialized
      /\ r.program = q.program /\ r.pauses = q.pauses /\ r.cancels = q.cancels
      /\ r.facade = q.facade /\ r.contextLost /\ r.state = "context-lost"
      /\ r.stopped = q.stopped /\ r.ticks = q.ticks /\ r.draws = q.draws
      /\ r.animationHandle = q.animationHandle /\ r.renderHandle = q.renderHandle
      /\ r.renderedFrames = q.renderedFrames
  BY <1>0 DEF SessionRecord
<1> HIDE DEF r
<1>3. Counted(r)
  BY <1>0, <1>2 DEF Sound, Counted
<1>4. /\ n \in SessionRecord /\ Counted(n) /\ SameLife(r, n)
      /\ ~n.animationHandle /\ ~n.renderHandle
      /\ r.ticks = 0 => n.ticks = 0
      /\ r.draws = 0 => n.draws = 0
      /\ n.state = r.state /\ n.stopped = r.stopped
      /\ n.renderedFrames = r.renderedFrames
  BY <1>2, <1>3, Pausing
<1> HIDE DEF n
<1>5. Good(n, hidden)
  BY <1>0, <1>1, <1>2, <1>4 DEF Good, Sound, Lively, SameLife
<1>6. Moved(q, n)
  BY <1>1, <1>2, <1>4 DEF Moved, SameLife
<1> QED BY <1>0, <1>1, <1>5, <1>6 DEF Turn

\* What ends a session from outside.
LEMMA EndTurn ==
  ASSUME Inv, NEW s \in Sessions,
         HandleContextRestored(s) \/ StopCalled(s) \/ AssetFails(s)
  PROVE  Turn(s)
<1>1. /\ Becomes(s, Stop(session[s])) /\ UNCHANGED <<startInProgress, hidden>>
  BY DEF HandleContextRestored, StopCalled, AssetFails, Fail
<1>2. startInProgress \in BOOLEAN
  BY DEF Inv
<1>3. session[s].run # "unborn"
  BY DEF Inv, HandleContextRestored, StopCalled, AssetFails, Listens, HandleKnown
<1> QED BY <1>1, <1>2, <1>3, StopTurn DEF Turn

----------------------------------------------------------------------------
(* The invariant *)

\* A turn of one session keeps the invariant.
LEMMA TurnKeeps ==
  ASSUME Inv, NEW s \in Sessions, Turn(s)
  PROVE  Inv'
<1>1. PICK n : Becomes(s, n) /\ Good(n, hidden) /\ Moved(session[s], n)
  BY DEF Turn
<1>2. /\ session' = [session EXCEPT ![s] = n]
      /\ activeSession' = IF n.stopped /\ activeSession = s THEN NoSession
                          ELSE activeSession
  BY <1>1 DEF Becomes
<1>3. n \in SessionRecord
  BY <1>1 DEF Good, Sound
<1>4. startInProgress' \in BOOLEAN /\ hidden' = hidden
  BY DEF Turn
<1>5. /\ session' \in [Sessions -> SessionRecord]
      /\ activeSession' \in Sessions \cup {NoSession}
      /\ hidden' \in BOOLEAN
  BY <1>2, <1>3, <1>4 DEF Inv
<1>6. \A t \in Sessions : session'[t] = IF t = s THEN n ELSE session[t]
  BY <1>2 DEF Inv
<1>7. \A t \in Sessions : Good(session'[t], hidden')
  BY <1>1, <1>4, <1>6 DEF Inv
<1>8. ASSUME NEW t \in Sessions
      PROVE  activeSession' = t <=> session'[t].facade /\ ~session'[t].stopped
  <2>0. /\ activeSession = t <=> session[t].facade /\ ~session[t].stopped
        /\ activeSession = s <=> session[s].facade /\ ~session[s].stopped
        /\ NoSession # t
    BY SessionsAssumption DEF Inv
  <2>1. CASE t = s
    <3>1. session'[t] = n /\ n.facade = session[s].facade
          /\ (session[s].stopped => n.stopped)
      BY <1>1, <1>6, <2>1 DEF Moved
    <3> QED BY <1>2, <2>0, <2>1, <3>1
  <2>2. CASE t # s
    BY <1>2, <1>6, <2>0, <2>2
  <2> QED BY <2>1, <2>2
<1> QED BY <1>4, <1>5, <1>7, <1>8 DEF Inv

\* The fields of a session that has not been constructed.
LEMMA UnbornType ==
  /\ Unborn \in SessionRecord /\ Unborn.stopped = FALSE
  /\ Unborn.contextLost = FALSE /\ Unborn.initialized = FALSE
  /\ Unborn.ticks = 0 /\ Unborn.draws = 0
  /\ Unborn.state = "initializing" /\ Unborn.animationHandle = FALSE
  /\ Unborn.renderHandle = FALSE /\ Unborn.renderedFrames = 0
  /\ Unborn.run = "unborn" /\ Unborn.facade = FALSE
BY PendingAssumption DEF Unborn, SessionRecord, Programs

\* A new record is in good order.
LEMMA MadeGood ==
  ASSUME NEW f \in BOOLEAN, NEW run \in {"created", "loading"},
         NEW n \in Made(f, run), NEW h
  PROVE  /\ n \in SessionRecord /\ Good(n, h)
         /\ n.facade = f /\ n.run = run /\ ~n.stopped /\ ~n.contextLost
         /\ ~n.initialized /\ n.renderedFrames = 0
<1>1. PICK p \in BOOLEAN, c \in BOOLEAN : n = NewSession(f, run, p, c)
  BY DEF Made
<1> DEFINE u == Unborn
<1>a. /\ u \in SessionRecord /\ u.stopped = FALSE
      /\ u.contextLost = FALSE /\ u.initialized = FALSE /\ u.ticks = 0 /\ u.draws = 0
      /\ u.state = "initializing" /\ u.animationHandle = FALSE
      /\ u.renderHandle = FALSE /\ u.renderedFrames = 0
  BY UnbornType
<1>b. n = [u EXCEPT !.run = run, !.facade = f, !.pauses = p, !.cancels = c]
  BY <1>1 DEF NewSession
<1> HIDE DEF u
<1>2. /\ n \in SessionRecord /\ n.facade = f /\ n.run = run /\ n.stopped = FALSE
      /\ n.contextLost = FALSE /\ n.initialized = FALSE /\ n.ticks = 0 /\ n.draws = 0
      /\ n.state = "initializing" /\ n.animationHandle = FALSE
      /\ n.renderHandle = FALSE /\ n.renderedFrames = 0
  BY <1>a, <1>b DEF SessionRecord
<1>3. Good(n, h)
  BY <1>2 DEF Good, Sound, Lively, Counted, One
<1> QED BY <1>2, <1>3

\* start keeps it: the active session stops before the new one is in charge.
LEMMA StartKeeps ==
  ASSUME Inv, NEW s \in Sessions, Start(s)
  PROVE  Inv'
<1>1. PICK new \in Made(TRUE, "loading") :
        session' = [t \in Sessions |-> IF t = s THEN new
                                       ELSE IF t = activeSession THEN Stop(session[t])
                                       ELSE session[t]]
  BY DEF Start
<1>2. /\ activeSession' = s /\ startInProgress' = TRUE /\ hidden' = hidden
  BY DEF Start
<1>3. /\ new \in SessionRecord /\ Good(new, hidden) /\ new.facade /\ ~new.stopped
  BY MadeGood
<1>4. ASSUME NEW t \in Sessions, t = activeSession, t # s
      PROVE  /\ session'[t] \in SessionRecord /\ Good(session'[t], hidden)
             /\ session'[t].stopped
  <2>1. session'[t] = Stop(session[t])
    BY <1>1, <1>4
  <2>2. /\ Sound(session[t]) /\ session[t].facade
        /\ (session[t].initialized => session[t].run = "done")
    BY <1>4 DEF Inv, Good, Lively
  <2>3. session[t].run # "unborn"
    BY <2>2 DEF Sound
  <2>4. Good(Stop(session[t]), hidden) /\ Stop(session[t]).stopped
    BY <2>2, <2>3, Stopping
  <2> QED BY <2>1, <2>4 DEF Good, Sound
<1>5. ASSUME NEW t \in Sessions, t # activeSession, t # s
      PROVE  session'[t] = session[t]
  BY <1>1, <1>5
<1>6. ASSUME NEW t \in Sessions
      PROVE  /\ session'[t] \in SessionRecord /\ Good(session'[t], hidden)
             /\ (t = s) <=> (session'[t].facade /\ ~session'[t].stopped)
  <2>1. CASE t = s
    BY <1>1, <1>3, <2>1
  <2>2. CASE t = activeSession /\ t # s
    BY <1>4, <2>2
  <2>3. CASE t # activeSession /\ t # s
    BY <1>5, <2>3 DEF Inv
  <2> QED BY <2>1, <2>2, <2>3
<1>7. session' \in [Sessions -> SessionRecord]
  <2>1. session' = [t \in Sessions |-> session'[t]]
    BY <1>1
  <2> QED BY <1>6, <2>1
<1> QED BY <1>2, <1>6, <1>7 DEF Inv

\* createRuntimeSession keeps it.
LEMMA CreateKeeps ==
  ASSUME Inv, NEW s \in Sessions, CreateRuntimeSession(s)
  PROVE  Inv'
<1>1. PICK n \in Made(FALSE, "created") : Becomes(s, n)
  BY DEF CreateRuntimeSession
<1>2. /\ n \in SessionRecord /\ Good(n, hidden) /\ ~n.facade /\ ~n.stopped
  BY MadeGood
<1>3. /\ session' = [session EXCEPT ![s] = n] /\ activeSession' = activeSession
      /\ UNCHANGED <<startInProgress, hidden>>
  BY <1>1, <1>2 DEF Becomes, CreateRuntimeSession
<1>4. session[s].run = "unborn" /\ Sound(session[s])
  BY DEF CreateRuntimeSession, Inv, Good
<1>5. ~session[s].facade
  BY <1>4 DEF Sound
<1>6. \A t \in Sessions : session'[t] = IF t = s THEN n ELSE session[t]
  BY <1>3 DEF Inv
<1>7. /\ session' \in [Sessions -> SessionRecord]
      /\ activeSession' \in Sessions \cup {NoSession}
      /\ startInProgress' \in BOOLEAN /\ hidden' \in BOOLEAN
  BY <1>2, <1>3 DEF Inv
<1>8. \A t \in Sessions : Good(session'[t], hidden')
  BY <1>2, <1>3, <1>6 DEF Inv
<1>9. \A t \in Sessions :
        activeSession' = t <=> session'[t].facade /\ ~session'[t].stopped
  BY <1>2, <1>3, <1>5, <1>6 DEF Inv
<1> QED BY <1>7, <1>8, <1>9 DEF Inv

\* handleVisibilityChange restores good order for the new visibility.
LEMMA VisibilityGood ==
  ASSUME NEW r, Good(r, hidden), hidden \in BOOLEAN,
         r.ticks < MaxPending, r.draws < MaxPending
  PROVE  LET n == Visibility(r) IN
         /\ Good(n, ~hidden) /\ SameLife(r, n) /\ n.stopped = r.stopped
         /\ n.renderedFrames = r.renderedFrames
<1> DEFINE n == Visibility(r)
<1>0. r \in SessionRecord /\ Sound(r) /\ Counted(r) /\ Lively(r, hidden)
  BY DEF Good, Sound
<1>1. CASE ~Listens(r) \/ ~r.initialized \/ ~r.pauses
  <2>1. n = r
    BY <1>1 DEF Visibility
  <2>2. r.initialized /\ r.pauses => r.stopped \/ r.run = "unborn"
    BY <1>1 DEF Listens
  <2>3. r.initialized /\ r.pauses => r.stopped
    BY <1>0, <2>2 DEF Lively
  <2>4. Lively(r, ~hidden)
    BY <1>0, <2>3 DEF Lively
  <2> QED BY <1>0, <2>1, <2>4 DEF Good, SameLife
<1>2. CASE Listens(r) /\ r.initialized /\ r.pauses /\ ~hidden
  <2> DEFINE p == PauseAnimation(r)
  <2>1. n = [p EXCEPT !.state = "paused"]
    BY <1>2 DEF Visibility
  <2>2. /\ p \in SessionRecord /\ Counted(p) /\ SameLife(r, p)
        /\ ~p.animationHandle /\ ~p.renderHandle
        /\ r.ticks = 0 => p.ticks = 0
        /\ r.draws = 0 => p.draws = 0
        /\ p.stopped = r.stopped
        /\ p.renderedFrames = r.renderedFrames
    BY <1>0, Pausing
  <2> HIDE DEF p, n
  <2>3. /\ n \in SessionRecord /\ n.state = "paused" /\ SameLife(p, n)
        /\ n.stopped = p.stopped /\ n.ticks = p.ticks /\ n.draws = p.draws
        /\ n.animationHandle = p.animationHandle /\ n.renderHandle = p.renderHandle
        /\ n.renderedFrames = p.renderedFrames
    BY <2>1, <2>2 DEF SessionRecord, SameLife
  <2>4. Counted(n) /\ SameLife(r, n)
    BY <2>2, <2>3 DEF Counted, SameLife
  <2>5. ~r.stopped
    BY <1>2 DEF Listens
  <2>6. Sound(n)
    BY <1>0, <1>2, <2>2, <2>3, <2>4, <2>5 DEF Sound, SameLife
  <2>7. Lively(n, ~hidden)
    BY <1>0, <1>2, <2>3, <2>4 DEF Lively, SameLife
  <2> QED BY <2>2, <2>3, <2>4, <2>6, <2>7 DEF Good, n
<1>3. CASE /\ Listens(r) /\ r.initialized /\ r.pauses /\ hidden
           /\ r.contextLost \/ r.state # "paused"
  <2>1. n = r
    BY <1>3 DEF Visibility
  <2>2. r.contextLost
    BY <1>0, <1>3 DEF Lively, Listens
  <2>3. Lively(r, ~hidden)
    BY <1>0, <2>2 DEF Lively
  <2> QED BY <1>0, <2>1, <2>3 DEF Good, SameLife
<1>4. CASE /\ Listens(r) /\ r.initialized /\ r.pauses /\ hidden
           /\ ~r.contextLost /\ r.state = "paused"
  <2> DEFINE b == [r EXCEPT !.state = "running"]
  <2>1. n = IF HasFrame(b) THEN ScheduleAnimation(b) ELSE ScheduleRender(b)
    BY <1>4 DEF Visibility, HasFrame
  <2>2. /\ b \in SessionRecord /\ b.state = "running" /\ SameLife(r, b)
        /\ b.stopped = r.stopped /\ b.ticks = r.ticks /\ b.draws = r.draws
        /\ b.animationHandle = r.animationHandle /\ b.renderHandle = r.renderHandle
        /\ b.renderedFrames = r.renderedFrames
    BY <1>0 DEF SessionRecord, SameLife
  <2> HIDE DEF b, n
  <2>3. Counted(b) /\ ~r.stopped
    BY <1>0, <1>4, <2>2 DEF Counted, SameLife, Listens
  <2>4. Sound(b)
    BY <1>0, <1>4, <2>2, <2>3 DEF Sound, SameLife
  <2>5. /\ Sound(n) /\ SameLife(b, n) /\ n.state = "running"
        /\ n.stopped = b.stopped /\ n.renderedFrames = b.renderedFrames
        /\ HasFrame(n) => n.animationHandle
    <3>1. CASE HasFrame(b)
      BY <2>1, <2>2, <2>4, <3>1, Scheduling
    <3>2. CASE ~HasFrame(b)
      <4>1. /\ Sound(n) /\ SameLife(b, n) /\ n.state = "running"
            /\ n.stopped = b.stopped /\ n.renderedFrames = b.renderedFrames
        BY <2>1, <2>2, <2>4, <3>2, Redrawing
      <4> QED BY <3>2, <4>1 DEF SameLife, HasFrame
    <3> QED BY <3>1, <3>2
  <2>6. SameLife(r, n)
    BY <2>2, <2>5 DEF SameLife
  <2>7. Lively(n, ~hidden)
    BY <1>0, <1>4, <2>5, <2>6 DEF Lively, SameLife
  <2> QED BY <2>2, <2>5, <2>6, <2>7 DEF Good, n
<1> QED BY <1>1, <1>2, <1>3, <1>4

\* Every session sees the document hidden or shown.
LEMMA VisibilityKeeps ==
  ASSUME Inv, HandleVisibilityChange
  PROVE  Inv'
<1>1. /\ \A s \in Sessions : session[s].ticks < MaxPending /\ session[s].draws < MaxPending
      /\ hidden' = ~hidden
      /\ session' = [s \in Sessions |-> Visibility(session[s])]
      /\ UNCHANGED <<activeSession, startInProgress>>
  BY DEF HandleVisibilityChange
<1>2. ASSUME NEW s \in Sessions
      PROVE  /\ session'[s] \in SessionRecord /\ Good(session'[s], hidden')
             /\ session'[s].facade = session[s].facade
             /\ session'[s].stopped = session[s].stopped
  <2>1. Good(session[s], hidden) /\ hidden \in BOOLEAN
    BY DEF Inv
  <2> DEFINE n == Visibility(session[s])
  <2>2. /\ Good(n, ~hidden) /\ SameLife(session[s], n)
        /\ n.stopped = session[s].stopped
    BY <1>1, <2>1, VisibilityGood
  <2>3. session'[s] = n
    BY <1>1
  <2> HIDE DEF n
  <2> QED BY <1>1, <2>2, <2>3 DEF Good, Sound, SameLife
<1>3. session' \in [Sessions -> SessionRecord]
  <2>1. session' = [s \in Sessions |-> session'[s]]
    BY <1>1
  <2> QED BY <1>2, <2>1
<1>4. \A s \in Sessions :
        activeSession' = s <=> session'[s].facade /\ ~session'[s].stopped
  BY <1>1, <1>2 DEF Inv
<1> QED BY <1>1, <1>2, <1>3, <1>4 DEF Inv

\* Every step is a turn of one session or changes several at once.
LEMMA StepKinds ==
  ASSUME Inv, [Next]_vars
  PROVE  \/ \E s \in Sessions : Turn(s)
         \/ \E s \in Sessions : Start(s) \/ CreateRuntimeSession(s)
         \/ HandleVisibilityChange
         \/ UNCHANGED vars
<1>1. ASSUME NEW s \in Sessions, Progress(s) \/ Run(s)
      PROVE  Turn(s)
  BY <1>1, RunTurn
<1>2. ASSUME NEW s \in Sessions,
             \/ Tick(s) \/ Draw(s) \/ DispatchEvent(s) \/ HandleResize(s)
             \/ HandleContextLost(s) \/ HandleContextRestored(s)
             \/ StopCalled(s) \/ AssetFails(s)
      PROVE  Turn(s)
  BY <1>2, TickTurn, DrawTurn, EventTurn, LostTurn, EndTurn
<1>3. ASSUME StartFails
      PROVE  \E s \in Sessions : Turn(s)
  <2>1. /\ activeSession \in Sessions
        /\ Becomes(activeSession, Stop(session[activeSession]))
        /\ UNCHANGED <<startInProgress, hidden>> /\ startInProgress \in BOOLEAN
    BY <1>3 DEF StartFails, Inv
  <2>2. session[activeSession].facade /\ Sound(session[activeSession])
    BY <2>1 DEF Inv, Good
  <2>3. session[activeSession].run # "unborn"
    BY <2>2 DEF Sound
  <2>4. Turn(activeSession)
    BY <2>1, <2>3, StopTurn DEF Turn
  <2> QED BY <2>1, <2>4
<1> QED BY <1>1, <1>2, <1>3 DEF Next, Other

\* Init establishes the invariant and every step keeps it.
LEMMA Invariance == Spec => []Inv
<1>1. Init => Inv
  <2> SUFFICES ASSUME Init PROVE Inv
    OBVIOUS
  <2>1. \A s \in Sessions : session[s] = Unborn
    BY DEF Init
  <2>2. Good(Unborn, hidden)
    BY UnbornType DEF Good, Sound, Lively, Counted, One
  <2>3. \A s \in Sessions :
          activeSession = s <=> session[s].facade /\ ~session[s].stopped
    BY <2>1, UnbornType, SessionsAssumption DEF Init
  <2>4. session \in [Sessions -> SessionRecord]
    BY UnbornType DEF Init
  <2> QED BY <2>1, <2>2, <2>3, <2>4 DEF Inv, Init
<1>2. Inv /\ [Next]_vars => Inv'
  <2> SUFFICES ASSUME Inv, [Next]_vars PROVE Inv'
    OBVIOUS
  <2>1. CASE \E s \in Sessions : Turn(s)
    BY <2>1, TurnKeeps
  <2>2. CASE \E s \in Sessions : Start(s) \/ CreateRuntimeSession(s)
    BY <2>2, StartKeeps, CreateKeeps
  <2>3. CASE HandleVisibilityChange
    BY <2>3, VisibilityKeeps
  <2>4. CASE UNCHANGED vars
    BY <2>4 DEF Inv, vars
  <2> QED BY <2>1, <2>2, <2>3, <2>4, StepKinds
<1> QED BY <1>1, <1>2, PTL DEF Spec

\* Types.
THEOREM TypesCorrect == Spec => []TypeOK
<1>1. Inv => TypeOK
  BY DEF Inv, TypeOK
<1> QED BY <1>1, Invariance, PTL

\* A handle is defined exactly while its callback is pending, for every host
\* that cancels (session.ts:476-477, 771-791, 821-842).
THEOREM HandlesAreExact == Spec => []HandlesExact
<1>1. Inv => HandlesExact
  BY DEF Inv, Good, Sound, Counted, HandlesExact
<1> QED BY <1>1, Invariance, PTL

\* Nothing is pending after stop or the loss of the context
\* (session.ts:284-297, 702-713).
THEOREM EndedSessionsAreQuiet == Spec => []EndedIsQuiet
<1>1. Inv => EndedIsQuiet
  BY DEF Inv, Good, Sound, EndedIsQuiet
<1> QED BY <1>1, Invariance, PTL

\* A running program with a frame function has its next frame scheduled
\* (session.ts:274-277, 476-497, 667-687).
THEOREM LoopStaysAlive == Spec => []LoopAlive
<1>1. Inv => LoopAlive
  BY DEF Inv, Good, Sound, Lively, Counted, LoopAlive
<1> QED BY <1>1, Invariance, PTL

\* Pausing follows the visibility of the document, before, during and after
\* setup (session.ts:276, 667-687).
THEOREM PausedExactlyWhileHidden == Spec => []PausedWhileHidden
<1>1. Inv => PausedWhileHidden
  BY DEF Inv, Good, Lively, PausedWhileHidden
<1> QED BY <1>1, Invariance, PTL

\* However many sessions are started, at most one of the facade's has not
\* stopped (index.ts:105-133).
THEOREM OneSessionOfTheFacade == Spec => []OneFacadeSession
<1>1. Inv => OneFacadeSession
  BY DEF Inv, OneFacadeSession
<1> QED BY <1>1, Invariance, PTL

\* Nothing is rendered before setup has finished, without a context or after
\* stop, also on hosts that cannot cancel a callback (session.ts:269-277,
\* 478, 831-835).
THEOREM RendersWhenReady == Spec => RendersOnlyWhenReady
<1> DEFINE OK(s) ==
      session[s].renderedFrames # session'[s].renderedFrames =>
        LET r == session'[s] IN
        r.run = "done" /\ r.initialized /\ ~r.contextLost /\ ~r.stopped
<1>1. ASSUME Inv, NEW s \in Sessions, Turn(s), NEW t \in Sessions
      PROVE  OK(t)
  <2>1. PICK n : Becomes(s, n) /\ Moved(session[s], n)
    BY <1>1 DEF Turn
  <2>2. session'[t] = IF t = s THEN n ELSE session[t]
    BY <2>1, <1>1 DEF Becomes, Inv
  <2> QED BY <2>1, <2>2 DEF Moved
<1>2. ASSUME Inv, NEW s \in Sessions, Start(s), NEW t \in Sessions
      PROVE  OK(t)
  <2>1. PICK new \in Made(TRUE, "loading") :
          session' = [u \in Sessions |-> IF u = s THEN new
                                         ELSE IF u = activeSession THEN Stop(session[u])
                                         ELSE session[u]]
    BY <1>2 DEF Start
  <2>2. new.renderedFrames = 0
    BY MadeGood
  <2>3. session[s].renderedFrames = 0
    BY <1>2 DEF Start, Inv, Good, Lively
  <2>4. t = activeSession => Stop(session[t]).renderedFrames = session[t].renderedFrames
    <3>1. ASSUME t = activeSession
          PROVE  /\ Sound(session[t]) /\ session[t].facade
                 /\ session[t].initialized => session[t].run = "done"
      BY <1>2, <3>1 DEF Inv, Good, Lively
    <3>2. ASSUME t = activeSession PROVE session[t].run # "unborn"
      BY <3>1, <3>2 DEF Sound
    <3> QED BY <3>1, <3>2, Stopping
  <2>5. session'[t] = IF t = s THEN new
                      ELSE IF t = activeSession THEN Stop(session[t]) ELSE session[t]
    BY <2>1
  <2> QED BY <2>2, <2>3, <2>4, <2>5
<1>3. ASSUME Inv, NEW s \in Sessions, CreateRuntimeSession(s), NEW t \in Sessions
      PROVE  OK(t)
  <2>1. PICK n \in Made(FALSE, "created") : Becomes(s, n)
    BY <1>3 DEF CreateRuntimeSession
  <2>2. n.renderedFrames = 0
    BY MadeGood
  <2>3. session[s].renderedFrames = 0
    BY <1>3 DEF CreateRuntimeSession, Inv, Good, Lively
  <2>4. session'[t] = IF t = s THEN n ELSE session[t]
    BY <1>3, <2>1 DEF Becomes, Inv
  <2> QED BY <2>2, <2>3, <2>4
<1>4. ASSUME Inv, HandleVisibilityChange, NEW t \in Sessions
      PROVE  OK(t)
  <2>1. /\ session[t].ticks < MaxPending /\ session[t].draws < MaxPending
        /\ session'[t] = Visibility(session[t])
    BY <1>4 DEF HandleVisibilityChange
  <2>2. Good(session[t], hidden) /\ hidden \in BOOLEAN
    BY <1>4 DEF Inv
  <2>3. Visibility(session[t]).renderedFrames = session[t].renderedFrames
    BY <2>1, <2>2, VisibilityGood
  <2> QED BY <2>1, <2>3
<1>5. ASSUME Inv, [Next]_vars
      PROVE  [\A s \in Sessions : OK(s)]_vars
  BY <1>1, <1>2, <1>3, <1>4, <1>5, StepKinds
<1> QED BY <1>5, Invariance, PTL DEF Spec, RendersOnlyWhenReady

----------------------------------------------------------------------------
(* Refinement *)

\* A turn moves a session on in its life, or leaves it where it is.
LEMMA StatusMoves ==
  ASSUME NEW r, NEW n, Sound(r), Sound(n), Moved(r, n)
  PROVE  \/ Status(n) = Status(r)
         \/ /\ Status(n) \in {"live", "lost", "stopped"}
            /\ <<Status(r), Status(n)>> \in Lifecycle!Moves
<1>1. /\ r.run # "unborn" /\ n.run # "unborn"
      /\ r.stopped \in BOOLEAN /\ r.contextLost \in BOOLEAN /\ r.initialized \in BOOLEAN
      /\ n.stopped \in BOOLEAN /\ n.contextLost \in BOOLEAN /\ n.initialized \in BOOLEAN
      /\ r.stopped => n.stopped
      /\ r.contextLost => n.contextLost
      /\ r.initialized => n.initialized
  BY DEF Moved, Sound, SessionRecord
<1>2. /\ r.stopped => Status(r) = "stopped"
      /\ ~r.stopped /\ r.contextLost => Status(r) = "lost"
      /\ ~r.stopped /\ ~r.contextLost =>
           Status(r) = IF r.initialized THEN "live" ELSE "starting"
  BY <1>1 DEF Status
<1>3. /\ n.stopped => Status(n) = "stopped"
      /\ ~n.stopped /\ n.contextLost => Status(n) = "lost"
      /\ ~n.stopped /\ ~n.contextLost =>
           Status(n) = IF n.initialized THEN "live" ELSE "starting"
  BY <1>1 DEF Status
<1> QED BY <1>1, <1>2, <1>3 DEF Lifecycle!Moves

\* Stopped sessions are the stopped ones.
LEMMA StatusStopped ==
  ASSUME NEW r, Sound(r)
  PROVE  r.stopped <=> Status(r) = "stopped"
<1>1. CASE r.run = "unborn"
  BY <1>1 DEF Sound, Status
<1>2. CASE r.run # "unborn"
  BY <1>2 DEF Status, Sound, SessionRecord
<1> QED BY <1>1, <1>2

\* Sessions live as the documentation says they do, whatever the order of
\* loading, events, callbacks and stops.
THEOREM SessionsFollowLifecycle == Spec => FollowsLifecycle
<1> DEFINE st == [t \in Sessions |-> Status(session[t])]
           ow == {t \in Sessions : session[t].facade}
<1>1. Init => Lifecycle!Init
  <2> SUFFICES ASSUME Init PROVE Lifecycle!Init
    OBVIOUS
  <2>1. \A t \in Sessions : session[t] = Unborn
    BY DEF Init
  <2>2. Status(Unborn) = "unborn" /\ ~Unborn.facade
    BY UnbornType DEF Status
  <2> QED BY <2>1, <2>2 DEF Init, Lifecycle!Init
<1>2. ASSUME Inv, Inv', NEW s \in Sessions, Turn(s)
      PROVE  Lifecycle!Move(s) \/ UNCHANGED Lifecycle!vars
  <2>1. PICK n : Becomes(s, n) /\ Good(n, hidden) /\ Moved(session[s], n)
    BY <1>2 DEF Turn
  <2>2. /\ \A t \in Sessions : session'[t] = IF t = s THEN n ELSE session[t]
        /\ activeSession' = IF n.stopped /\ activeSession = s THEN NoSession
                            ELSE activeSession
    BY <1>2, <2>1 DEF Becomes, Inv
  <2>3. Sound(session[s]) /\ Sound(n)
    BY <1>2, <2>1 DEF Inv, Good
  <2>4. ow' = ow
    BY <2>1, <2>2 DEF Moved
  <2>5. st' = [st EXCEPT ![s] = Status(n)]
    BY <2>2
  <2>6. CASE Status(n) = Status(session[s])
    <3>1. st' = st
      BY <2>5, <2>6
    <3>2. activeSession = s => ~session[s].stopped
      BY <1>2 DEF Inv
    <3>3. session[s].stopped <=> n.stopped
      BY <2>3, <2>6, StatusStopped
    <3>4. activeSession' = activeSession
      BY <2>2, <3>2, <3>3
    <3> QED BY <2>4, <3>1, <3>4 DEF Lifecycle!vars
  <2>7. CASE /\ Status(n) \in {"live", "lost", "stopped"}
             /\ <<Status(session[s]), Status(n)>> \in Lifecycle!Moves
    <3>1. activeSession' = IF Status(n) = "stopped" /\ s = activeSession THEN NoSession
                           ELSE activeSession
      BY <2>2, <2>3, StatusStopped
    <3>2. <<st[s], Status(n)>> \in Lifecycle!Moves
      BY <2>7
    <3> QED BY <2>4, <2>5, <2>7, <3>1, <3>2 DEF Lifecycle!Move
  <2> QED BY <2>1, <2>3, <2>6, <2>7, StatusMoves
<1>3. ASSUME Inv, Inv', NEW s \in Sessions, Start(s)
      PROVE  Lifecycle!Replace(s)
  <2>1. PICK new \in Made(TRUE, "loading") :
          session' = [u \in Sessions |-> IF u = s THEN new
                                         ELSE IF u = activeSession THEN Stop(session[u])
                                         ELSE session[u]]
    BY <1>3 DEF Start
  <2>2. /\ new.facade /\ new.run = "loading" /\ ~new.stopped /\ ~new.contextLost
        /\ ~new.initialized
    BY MadeGood
  <2>3. Status(new) = "starting" /\ Status(session[s]) = "unborn"
    BY <1>3, <2>2 DEF Status, Start
  <2>4. ASSUME NEW t \in Sessions, t = activeSession
        PROVE  Status(Stop(session[t])) = "stopped" /\ Stop(session[t]).facade /\ session[t].facade
    <3> DEFINE n == Stop(session[t])
    <3>1. /\ Sound(session[t]) /\ session[t].facade
          /\ session[t].initialized => session[t].run = "done"
      BY <1>3, <2>4 DEF Inv, Good, Lively
    <3>2. session[t].run # "unborn"
      BY <3>1 DEF Sound
    <3>3. Good(n, hidden) /\ SameLife(session[t], n) /\ n.stopped
      BY <3>1, <3>2, Stopping
    <3> HIDE DEF n
    <3>4. Status(n) = "stopped" /\ n.facade
      BY <3>1, <3>3, StatusStopped DEF Good, SameLife
    <3> QED BY <3>1, <3>4 DEF n
  <2>5. st' = [t \in Sessions |-> IF t = s THEN "starting"
                                  ELSE IF t = activeSession THEN "stopped" ELSE st[t]]
    BY <2>1, <2>3, <2>4
  <2>6. ow' = ow \cup {s}
    BY <2>1, <2>2, <2>4
  <2> QED BY <1>3, <2>3, <2>5, <2>6 DEF Lifecycle!Replace, Start
<1>4. ASSUME Inv, Inv', NEW s \in Sessions, CreateRuntimeSession(s)
      PROVE  Lifecycle!Create(s)
  <2>1. PICK n \in Made(FALSE, "created") : Becomes(s, n)
    BY <1>4 DEF CreateRuntimeSession
  <2>2. /\ ~n.facade /\ n.run = "created" /\ ~n.stopped /\ ~n.contextLost
        /\ ~n.initialized
    BY MadeGood
  <2>3. Status(n) = "starting" /\ Status(session[s]) = "unborn"
    BY <1>4, <2>2 DEF Status, CreateRuntimeSession
  <2>4. \A t \in Sessions : session'[t] = IF t = s THEN n ELSE session[t]
    BY <1>4, <2>1 DEF Becomes, Inv
  <2>5. ~session[s].facade
    BY <1>4 DEF CreateRuntimeSession, Inv, Good, Sound
  <2>6. ow' = ow
    BY <2>2, <2>4, <2>5
  <2>7. st' = [st EXCEPT ![s] = "starting"]
    BY <2>3, <2>4
  <2>8. activeSession' = activeSession
    BY <2>1, <2>2 DEF Becomes
  <2> QED BY <2>3, <2>6, <2>7, <2>8 DEF Lifecycle!Create
<1>5. ASSUME Inv, Inv', HandleVisibilityChange
      PROVE  UNCHANGED Lifecycle!vars
  <2>1. ASSUME NEW t \in Sessions
        PROVE  /\ Status(session'[t]) = Status(session[t])
               /\ session'[t].facade = session[t].facade
    <3> DEFINE n == Visibility(session[t])
    <3>1. /\ session[t].ticks < MaxPending /\ session[t].draws < MaxPending
          /\ session'[t] = n
      BY <1>5 DEF HandleVisibilityChange
    <3>2. Good(session[t], hidden) /\ hidden \in BOOLEAN
      BY <1>5 DEF Inv
    <3>3. SameLife(session[t], n) /\ n.stopped = session[t].stopped
      BY <3>1, <3>2, VisibilityGood
    <3> HIDE DEF n
    <3> QED BY <3>1, <3>3 DEF SameLife, Status
  <2>2. st' = st /\ ow' = ow /\ activeSession' = activeSession
    BY <1>5, <2>1 DEF HandleVisibilityChange
  <2> QED BY <2>2 DEF Lifecycle!vars
<1>6. ASSUME UNCHANGED vars
      PROVE  UNCHANGED Lifecycle!vars
  BY <1>6 DEF vars, Lifecycle!vars
<1>7. Inv /\ Inv' /\ [Next]_vars => [Lifecycle!Next]_(Lifecycle!vars)
  BY <1>2, <1>3, <1>4, <1>5, <1>6, StepKinds DEF Lifecycle!Next
<1> QED BY <1>1, <1>7, Invariance, PTL DEF Spec, FollowsLifecycle, Lifecycle!Spec

\* Handles, loop, pausing and the active session together: a session is sound
\* whatever was hidden, lost, stopped or started meanwhile.
THEOREM SessionsStaySound == Spec => []SessionsSound
<1>1. HandlesExact /\ EndedIsQuiet /\ LoopAlive /\ PausedWhileHidden /\ OneFacadeSession
        => SessionsSound
  BY DEF SessionsSound
<1> QED
  BY <1>1, HandlesAreExact, EndedSessionsAreQuiet, LoopStaysAlive,
     PausedExactlyWhileHidden, OneSessionOfTheFacade, PTL

----------------------------------------------------------------------------
(* The start in progress *)

\* A run that a start awaits.
Awaited(r) == r.facade /\ r.run \in {"loading", "setup", "assets"}

\* A start is in progress exactly while a run that the facade has begun has not
\* ended, and there is one such run.
StartHasItsRun ==
  /\ startInProgress <=> \E s \in Sessions : Awaited(session[s])
  /\ \A s, t \in Sessions : Awaited(session[s]) /\ Awaited(session[t]) => s = t

\* The caller of createRuntimeSession runs its session, not the facade.
CreatedByCaller == \A s \in Sessions : session[s].run = "created" => ~session[s].facade

StartInv == StartHasItsRun /\ CreatedByCaller

\* A record that methods may work on, of the stage and the origin of r.
Fields == {"run", "state", "contextLost", "initialized", "stopped", "animationHandle",
           "renderHandle", "ticks", "draws", "program", "pauses", "cancels", "facade",
           "renderedFrames"}
SameRun(r, n) ==
  /\ n = [f \in Fields |-> n[f]]
  /\ n.run = r.run /\ n.facade = r.facade

LEMMA RecordFields == ASSUME NEW r \in SessionRecord PROVE SameRun(r, r)
BY DEF SessionRecord, SameRun, Fields

\* No method takes a run further.
LEMMA MethodsKeepTheRun ==
  ASSUME NEW r, NEW n, SameRun(r, n)
  PROVE  /\ SameRun(r, PauseAnimation(n)) /\ SameRun(r, Stop(n))
         /\ SameRun(r, ScheduleAnimation(n)) /\ SameRun(r, ScheduleRender(n))
         /\ SameRun(r, Render(n))
<1> USE DEF SameRun, Fields
<1>1. SameRun(r, PauseAnimation(n))
  BY DEF PauseAnimation
<1>2. SameRun(r, Stop(n))
  <2> DEFINE p == PauseAnimation(n)
  <2>1. SameRun(r, p)
    BY <1>1
  <2>2. Stop(n) = IF n.stopped THEN n ELSE [p EXCEPT !.stopped = TRUE, !.state = "stopped"]
    BY DEF Stop
  <2> HIDE DEF p
  <2> QED BY <2>1, <2>2
<1>3. SameRun(r, ScheduleAnimation(n))
  BY DEF ScheduleAnimation
<1>4. SameRun(r, ScheduleRender(n))
  BY DEF ScheduleRender
<1>5. SameRun(r, Render(n))
  BY DEF Render
<1> QED BY <1>1, <1>2, <1>3, <1>4, <1>5

\* Nor does a callback, however it ends.
LEMMA CallbacksKeepTheRun ==
  ASSUME NEW q, NEW r, NEW next, SameRun(q, r), SameRun(q, next),
         NEW o \in {"returns", "throws", "stops"}
  PROVE  SameRun(q, After(o, r, next))
<1>1. After(o, r, next) \in {next, Stop(r)}
  BY DEF After, Fail
<1>2. SameRun(q, Stop(r))
  BY MethodsKeepTheRun
<1> QED BY <1>1, <1>2

\* A turn of no run: one session stays at its stage.
Aside(s) ==
  /\ \E n : session' = [session EXCEPT ![s] = n] /\ SameRun(session[s], n)
  /\ UNCHANGED startInProgress

\* Callbacks, events and calls.
LEMMA AsideTurns ==
  ASSUME Inv, NEW s \in Sessions,
         \/ Tick(s) \/ Draw(s) \/ DispatchEvent(s) \/ HandleResize(s)
         \/ HandleContextLost(s) \/ HandleContextRestored(s)
         \/ StopCalled(s) \/ AssetFails(s)
  PROVE  Aside(s)
<1> DEFINE q == session[s]
<1>0. SameRun(q, q)
  BY RecordFields DEF Inv
<1>1. ASSUME NEW n, SameRun(q, n), Becomes(s, n), UNCHANGED startInProgress PROVE Aside(s)
  BY <1>1 DEF Aside, Becomes
<1>2. CASE Tick(s)
  <2> DEFINE r == [session[s] EXCEPT !.ticks = @ - 1, !.animationHandle = FALSE]
  <2>1. SameRun(q, r)
    BY <1>0 DEF SameRun, Fields
  <2>2. \/ Becomes(s, r)
        \/ \E o \in Outcomes(r) : Becomes(s, After(o, r, ScheduleAnimation(Render(r))))
    BY <1>2 DEF Tick
  <2>3. UNCHANGED startInProgress
    BY <1>2 DEF Tick
  <2> HIDE DEF r
  <2>4. SameRun(q, ScheduleAnimation(Render(r)))
    BY <2>1, MethodsKeepTheRun
  <2>5. \A o \in Outcomes(r) : SameRun(q, After(o, r, ScheduleAnimation(Render(r))))
    BY <2>1, <2>4, CallbacksKeepTheRun, OutcomeType
  <2> QED BY <1>1, <2>1, <2>2, <2>3, <2>5
<1>3. CASE Draw(s)
  <2> DEFINE r == [session[s] EXCEPT !.draws = @ - 1, !.renderHandle = FALSE]
  <2>1. SameRun(q, r)
    BY <1>0 DEF SameRun, Fields
  <2>2. \/ Becomes(s, r)
        \/ \E o \in {"returns", "throws"} : Becomes(s, After(o, r, Render(r)))
    BY <1>3 DEF Draw
  <2>3. UNCHANGED startInProgress
    BY <1>3 DEF Draw
  <2> HIDE DEF r
  <2>4. \A o \in {"returns", "throws"} : SameRun(q, After(o, r, Render(r)))
    BY <2>1, MethodsKeepTheRun, CallbacksKeepTheRun
  <2> QED BY <1>1, <2>1, <2>2, <2>3, <2>4
<1>4. CASE DispatchEvent(s) \/ HandleResize(s)
  <2>1. PICK o \in {"returns", "throws", "stops"} : Becomes(s, After(o, q, ScheduleRender(q)))
    BY <1>4, OutcomeType DEF DispatchEvent, HandleResize
  <2>2. SameRun(q, After(o, q, ScheduleRender(q)))
    BY <1>0, MethodsKeepTheRun, CallbacksKeepTheRun
  <2> QED BY <1>1, <1>4, <2>1, <2>2 DEF DispatchEvent, HandleResize
<1>5. CASE HandleContextLost(s)
  <2> DEFINE r == [q EXCEPT !.contextLost = TRUE, !.state = "context-lost"]
  <2>1. SameRun(q, r)
    BY <1>0 DEF SameRun, Fields
  <2>2. Becomes(s, PauseAnimation(r)) /\ UNCHANGED startInProgress
    BY <1>5 DEF HandleContextLost
  <2> HIDE DEF r
  <2> QED BY <1>1, <2>1, <2>2, MethodsKeepTheRun
<1>6. CASE HandleContextRestored(s) \/ StopCalled(s) \/ AssetFails(s)
  <2>1. Becomes(s, Stop(q)) /\ UNCHANGED startInProgress
    BY <1>6 DEF HandleContextRestored, StopCalled, AssetFails, Fail
  <2> QED BY <1>0, <1>1, <2>1, MethodsKeepTheRun
<1> QED BY <1>2, <1>3, <1>4, <1>5, <1>6

\* A run goes on: it stays the facade's or its caller's.
LEMMA RunGoesOn ==
  ASSUME Inv, StartInv, NEW s \in Sessions, NEW n,
         session' = [session EXCEPT ![s] = n], UNCHANGED startInProgress,
         n.facade = session[s].facade,
         \/ n.run = session[s].run
         \/ /\ session[s].run \in {"loading", "setup", "assets"}
            /\ n.run \in {"loading", "setup", "assets"}
         \/ /\ session[s].run = "created" /\ n.run = "loading"
  PROVE  StartInv'
<1>1. \A t \in Sessions : session'[t] = IF t = s THEN n ELSE session[t]
  BY DEF Inv
<1>2. Awaited(n) <=> Awaited(session[s])
  BY DEF Awaited, StartInv, CreatedByCaller
<1>3. \A t \in Sessions : Awaited(session'[t]) <=> Awaited(session[t])
  BY <1>1, <1>2
<1>4. n.run = "created" => ~n.facade
  BY DEF StartInv, CreatedByCaller
<1> QED BY <1>1, <1>3, <1>4 DEF StartInv, StartHasItsRun, CreatedByCaller

\* A run ends, and with it the start that awaits it and no other.
LEMMA RunIsOver ==
  ASSUME Inv, StartInv, NEW s \in Sessions, NEW r, RunEnds(s, r), SameRun(session[s], r),
         session[s].run \in {"loading", "setup", "assets"}
  PROVE  StartInv'
<1> DEFINE n == [r EXCEPT !.run = "done"]
<1>1. n.run = "done" /\ n.facade = session[s].facade
  BY DEF SameRun, Fields
<1>2. /\ session' = [session EXCEPT ![s] = n]
      /\ startInProgress' = (startInProgress /\ ~session[s].facade)
  BY DEF RunEnds, Becomes, SameRun
<1> HIDE DEF n
<1>3. \A t \in Sessions : session'[t] = IF t = s THEN n ELSE session[t]
  BY <1>2 DEF Inv
<1>4. \A t \in Sessions : Awaited(session'[t]) <=> t # s /\ Awaited(session[t])
  BY <1>1, <1>3 DEF Awaited
<1>5. Awaited(session[s]) <=> session[s].facade
  BY DEF Awaited, Inv, SessionRecord
<1>6. startInProgress \in BOOLEAN /\ session[s].facade \in BOOLEAN
  BY DEF Inv, SessionRecord
<1>7. startInProgress' <=> \E t \in Sessions : Awaited(session'[t])
  BY <1>2, <1>4, <1>5, <1>6 DEF StartInv, StartHasItsRun
<1>8. \A t \in Sessions : session'[t].run = "created" => ~session'[t].facade
  BY <1>1, <1>3 DEF StartInv, CreatedByCaller
<1> QED BY <1>4, <1>7, <1>8 DEF StartInv, StartHasItsRun, CreatedByCaller

\* The steps of run.
LEMMA RunKeepsTheStart ==
  ASSUME Inv, StartInv, NEW s \in Sessions, Run(s) \/ Progress(s)
  PROVE  StartInv'
<1> DEFINE r == session[s]
<1>0. r \in SessionRecord /\ SameRun(r, r)
  BY RecordFields DEF Inv
<1>1. CASE Run(s)
  BY <1>0, <1>1, RunGoesOn DEF Run, Becomes, SessionRecord
<1>2. CASE LoadFails(s) \/ SetupFails(s)
  <2>1. RunEnds(s, Stop(r)) /\ r.run \in {"loading", "setup", "assets"}
    BY <1>2 DEF LoadFails, SetupFails, Fail
  <2> QED BY <1>0, <2>1, MethodsKeepTheRun, RunIsOver
<1>3. CASE Loaded(s) /\ r.stopped
  BY <1>0, <1>3, RunIsOver DEF Loaded
<1>4. CASE Loaded(s) /\ ~r.stopped
  <2>1. PICK p \in {"still", "frame"} : Becomes(s, [r EXCEPT !.program = p, !.run = "setup"])
    BY <1>4 DEF Loaded
  <2>2. r.run = "loading" /\ UNCHANGED startInProgress
    BY <1>4 DEF Loaded
  <2> QED BY <1>0, <2>1, <2>2, RunGoesOn DEF Becomes, SessionRecord
<1>5. CASE SetupDone(s)
  BY <1>0, <1>5, RunGoesOn DEF SetupDone, Becomes, SessionRecord
<1>6. CASE Ready(s)
  <2> DEFINE b == [Render(r) EXCEPT !.initialized = TRUE,
                                    !.state = IF ShouldPause(r) THEN "paused" ELSE "running"]
  <2>1. SameRun(r, b)
    <3>1. SameRun(r, Render(r))
      BY <1>0, MethodsKeepTheRun
    <3> QED BY <3>1 DEF SameRun, Fields
  <2>2. Initialized(r) = ScheduleAnimation(b)
    BY DEF Initialized
  <2> HIDE DEF b
  <2>3. SameRun(r, Initialized(r))
    BY <2>1, <2>2, MethodsKeepTheRun
  <2>4. r.run = "assets" /\ (RunEnds(s, r) \/ RunEnds(s, Initialized(r)))
    BY <1>6 DEF Ready
  <2> QED BY <1>0, <2>3, <2>4, RunIsOver
<1> QED BY <1>1, <1>2, <1>3, <1>4, <1>5, <1>6 DEF Progress

\* A start begins one run, and the session that makes room for it is in none.
LEMMA StartBeginsOneRun ==
  ASSUME Inv, StartInv, NEW s \in Sessions, Start(s)
  PROVE  StartInv'
<1>1. PICK new \in Made(TRUE, "loading") :
        session' = [t \in Sessions |-> IF t = s THEN new
                                       ELSE IF t = activeSession THEN Stop(session[t])
                                       ELSE session[t]]
  BY DEF Start
<1>2. ~startInProgress /\ startInProgress' = TRUE
  BY DEF Start
<1>3. new.facade /\ new.run = "loading"
  BY MadeGood
<1>4. ASSUME NEW t \in Sessions, t # s PROVE SameRun(session[t], session'[t])
  BY <1>1, <1>4, RecordFields, MethodsKeepTheRun DEF Inv
<1>5. \A t \in Sessions : Awaited(session'[t]) <=> t = s
  <2>1. \A t \in Sessions : ~Awaited(session[t])
    BY <1>2 DEF StartInv, StartHasItsRun
  <2>2. \A t \in Sessions : t # s => ~Awaited(session'[t])
    BY <1>4, <2>1 DEF Awaited, SameRun
  <2> QED BY <1>1, <1>3, <2>2 DEF Awaited
<1>6. CreatedByCaller'
  <2>1. \A t \in Sessions : t # s => session'[t].run = session[t].run
                                       /\ session'[t].facade = session[t].facade
    BY <1>4 DEF SameRun
  <2> QED BY <1>1, <1>3, <2>1 DEF StartInv, CreatedByCaller
<1> QED BY <1>2, <1>5, <1>6 DEF StartInv, StartHasItsRun

\* createRuntimeSession leaves the start alone.
LEMMA CreateKeepsTheStart ==
  ASSUME Inv, StartInv, NEW s \in Sessions, CreateRuntimeSession(s)
  PROVE  StartInv'
<1>1. PICK n \in Made(FALSE, "created") : Becomes(s, n)
  BY DEF CreateRuntimeSession
<1>2. ~n.facade
  BY MadeGood
<1>3. session' = [session EXCEPT ![s] = n] /\ UNCHANGED startInProgress
  BY <1>1 DEF Becomes, CreateRuntimeSession
<1>4. \A t \in Sessions : session'[t] = IF t = s THEN n ELSE session[t]
  BY <1>3 DEF Inv
<1>5. ~session[s].facade
  BY DEF CreateRuntimeSession, Inv, Good, Sound
<1>6. \A t \in Sessions : Awaited(session'[t]) <=> Awaited(session[t])
  BY <1>2, <1>4, <1>5 DEF Awaited
<1> QED BY <1>2, <1>3, <1>4, <1>6 DEF StartInv, StartHasItsRun, CreatedByCaller

\* So does every session that stays at its stage.
LEMMA StagesKeepTheStart ==
  ASSUME Inv, StartInv, UNCHANGED startInProgress,
         \A t \in Sessions : SameRun(session[t], session'[t])
  PROVE  StartInv'
<1>1. \A t \in Sessions : /\ Awaited(session'[t]) <=> Awaited(session[t])
                          /\ session'[t].run = session[t].run
                          /\ session'[t].facade = session[t].facade
  BY DEF Awaited, SameRun
<1> QED BY <1>1 DEF StartInv, StartHasItsRun, CreatedByCaller

\* The safety half of StartSettles: the flag that makes start reject its caller
\* (index.ts:105-133) is set exactly while a run of the facade is in progress,
\* which will clear it: no stop, lost context or failure leaves it set for good,
\* and no second start ever runs beside the first.
THEOREM StartIsOne == Spec => []StartHasItsRun
<1>1. Init => StartInv
  <2> SUFFICES ASSUME Init PROVE StartInv
    OBVIOUS
  <2>1. \A s \in Sessions : session[s] = Unborn
    BY DEF Init
  <2>2. Unborn.run = "unborn" /\ Unborn.facade = FALSE
    BY UnbornType
  <2> QED BY <2>1, <2>2 DEF Init, StartInv, StartHasItsRun, CreatedByCaller, Awaited
<1>2. Inv /\ StartInv /\ [Next]_vars => StartInv'
  <2> SUFFICES ASSUME Inv, StartInv, [Next]_vars PROVE StartInv'
    OBVIOUS
  <2>1. ASSUME NEW s \in Sessions, Aside(s) PROVE StartInv'
    <3>1. PICK n : session' = [session EXCEPT ![s] = n] /\ SameRun(session[s], n)
      BY <2>1 DEF Aside
    <3>2. \A t \in Sessions : SameRun(session[t], session'[t])
      BY <3>1, RecordFields DEF Inv
    <3> QED BY <2>1, <3>2, StagesKeepTheStart DEF Aside
  <2>2. CASE StartFails
    <3>1. /\ activeSession \in Sessions
          /\ session' = [session EXCEPT ![activeSession] = Stop(session[activeSession])]
          /\ UNCHANGED startInProgress
      BY <2>2 DEF StartFails, Becomes, Inv
    <3>2. SameRun(session[activeSession], Stop(session[activeSession]))
      BY <3>1, RecordFields, MethodsKeepTheRun DEF Inv
    <3> QED BY <2>1, <3>1, <3>2 DEF Aside
  <2>3. CASE HandleVisibilityChange
    <3>1. /\ session' = [s \in Sessions |-> Visibility(session[s])]
          /\ UNCHANGED startInProgress
      BY <2>3 DEF HandleVisibilityChange
    <3>2. ASSUME NEW t \in Sessions PROVE SameRun(session[t], Visibility(session[t]))
      <4> DEFINE r == session[t]
                 b == [r EXCEPT !.state = "running"]
                 p == PauseAnimation(r)
      <4>1. SameRun(r, r)
        BY RecordFields DEF Inv
      <4>2. SameRun(r, b) /\ SameRun(r, p)
        BY <4>1, MethodsKeepTheRun DEF SameRun, Fields
      <4>3. Visibility(r) \in {r, [p EXCEPT !.state = "paused"], ScheduleAnimation(b),
                               ScheduleRender(b)}
        BY DEF Visibility
      <4> HIDE DEF b, p
      <4>4. SameRun(r, [p EXCEPT !.state = "paused"])
        BY <4>2 DEF SameRun, Fields
      <4> QED BY <4>1, <4>2, <4>3, <4>4, MethodsKeepTheRun
    <3> QED BY <3>1, <3>2, StagesKeepTheStart
  <2>4. CASE UNCHANGED vars
    BY <2>4 DEF vars, StartInv, StartHasItsRun, CreatedByCaller
  <2>5. ASSUME NEW s \in Sessions, Progress(s) \/ Other(s) PROVE StartInv'
    BY <2>1, <2>5, AsideTurns, RunKeepsTheStart, StartBeginsOneRun, CreateKeepsTheStart
       DEF Other
  <2> QED BY <2>2, <2>3, <2>4, <2>5 DEF Next
<1>3. StartInv => StartHasItsRun
  BY DEF StartInv
<1> QED BY <1>1, <1>2, <1>3, Invariance, PTL DEF Spec
=============================================================================
