----------------------------- MODULE DevServer -----------------------------
(***************************************************************************)
(* `polygl serve` (crates/polygl-cli/src/serve.rs): the main loop that     *)
(* watches the inputs and rebuilds, the generations it builds into private *)
(* directories, and the connection threads that serve the active one.      *)
(*                                                                         *)
(* Files are saved by an editor at any moment, between any two reads of a  *)
(* build.  A generation's directory lives as long as its Arc: `strong` is  *)
(* the count of that Arc, `dirs` the directories on disk.  Sequence        *)
(* numbers of generations serve only to tell directories apart, so a       *)
(* generation here is any identity whose directory is not on disk.         *)
(***************************************************************************)
EXTENDS Integers, FiniteSets

CONSTANTS
  Source,     \* the path of the program being served
  Assets,     \* the paths of the textures a program may reference
  Texts,      \* contents of the source file
  Blobs,      \* contents of an asset file
  Uses,       \* Uses[t]: the assets that source text t references
  Broken,     \* the source texts that do not compile
  Gens,       \* identities of generations
  Conns,      \* connection threads
  MaxConns,   \* MAX_HTTP_CONNECTIONS
  MaxSaves,   \* bound: saves by the editor
  MaxFaults,  \* bound: generations that cannot be written to disk
  Absent,     \* content of a path that does not exist
  Unread,     \* content of a path that a build has not read
  NoFp,       \* the fingerprint None
  NoGen, NoError,
  IoFailure   \* diagnostic of a generation that cannot be written

Path == {Source} \cup Assets
Content == Texts \cup Blobs \cup {Absent}
Trees == {d \in [Path -> Content] :
            /\ d[Source] \in Texts \cup {Absent}
            /\ \A a \in Assets : d[a] \in Blobs \cup {Absent}}
Inputs == [Path -> Content \cup {Unread}]
Diagnostic == (Path \X Content) \cup {IoFailure}

ASSUME NamesAssumption ==
  /\ Source \notin Assets
  /\ Unread \notin Texts \cup Blobs \cup {Absent}
  /\ Absent \notin Texts \cup Blobs
  /\ Uses \in [Texts -> SUBSET Assets]
  /\ Broken \subseteq Texts
  /\ NoGen \notin Gens
  /\ NoError \notin Diagnostic
  /\ NoFp \notin Inputs
ASSUME BoundsAssumption ==
  /\ IsFiniteSet(Conns)
  /\ MaxConns \in Nat /\ MaxSaves \in Nat /\ MaxFaults \in Nat

VARIABLES
  disk,         \* contents of the files
  saves,        \* saves made so far
  faults,       \* failed writes of a generation so far
  watch,        \* the --watch flag
  loop,         \* where the main thread is
  started,      \* the main thread has reached its loop
  sourceBefore, \* the source at `source_before_build`
  touched,      \* the source was saved since then, until the loop starts
  input,        \* what the build in progress has read
  raced,        \* paths saved after the build read them (see Save)
  watched,      \* watched_paths
  fp,           \* fingerprint
  retryDue,     \* next_failed_retry has passed
  building,     \* the generation under construction
  active,       \* state.active
  error,        \* state.error
  meta,         \* what each generation was built from
  strong,       \* strong count of each generation's Arc
  dirs,         \* generation directories on disk
  permits,      \* active_connections
  conn,         \* where each connection thread is
  holds,        \* the Arc a connection thread has cloned
  seen          \* the error a connection thread has cloned

files == <<disk, saves>>
builds == <<input, building, meta>>
arcs == <<strong, dirs>>
http == <<permits, conn, holds, seen>>
startup == <<watch, started, sourceBefore, touched>>
vars == <<files, faults, startup, loop, builds, raced, watched, fp, retryDue,
          active, error, arcs, http>>

----------------------------------------------------------------------------
(* Fingerprints, and what a build makes of its inputs *)

NothingRead == [p \in Path |-> Unread]

\* The paths a build reports as its inputs (BuildReport.watched_paths).
WatchedOf(in) == {p \in Path : in[p] # Unread}

\* paths_fingerprint: the paths and their contents.  A missing file is
\* hashed as missing.  Distinct trees are taken to have distinct hashes.
Fingerprint(paths) == [p \in Path |-> IF p \in paths THEN disk[p] ELSE Unread]

\* path_fingerprint(source) against source_before_build: a save changes the
\* modification time, but a missing file has the fingerprint None each time.
SourceMoved == IF disk[Source] = Absent THEN sourceBefore # Absent ELSE touched

\* The phases in which the build in progress reads its inputs, up to the
\* fingerprint taken after it.
Building == loop \in {"source", "assets", "install", "baseline"}

----------------------------------------------------------------------------
Init ==
  /\ disk \in Trees
  /\ saves = 0 /\ faults = 0
  /\ watch \in BOOLEAN
  /\ loop = "source" /\ started = FALSE
  /\ sourceBefore = disk[Source] /\ touched = FALSE
  /\ input = NothingRead /\ raced = {}
  /\ watched = {Source} /\ fp = NoFp /\ retryDue = TRUE
  /\ building \in Gens /\ active = NoGen /\ error = NoError
  /\ meta = [g \in Gens |-> NothingRead]
  /\ strong = [g \in Gens |-> 0] /\ dirs = {building}
  /\ permits = 0
  /\ conn = [c \in Conns |-> "none"]
  /\ holds = [c \in Conns |-> NoGen]
  /\ seen = [c \in Conns |-> NoError]

\* The editor creates, rewrites or removes a file.  `raced` records the
\* saves that a build may miss: the path was already read by the build in
\* progress.  The check of the source before the first loop covers it there,
\* provided the source existed when the server started.
Save(p, c) ==
  /\ saves < MaxSaves
  /\ c # disk[p]
  /\ c \in (IF p = Source THEN Texts ELSE Blobs) \cup {Absent}
  /\ disk' = [disk EXCEPT ![p] = c]
  /\ saves' = saves + 1
  /\ touched' = (touched \/ (p = Source /\ ~started))
  /\ raced' = IF /\ Building /\ input[p] # Unread
                 /\ started \/ p # Source \/ sourceBefore = Absent
              THEN raced \cup {p}
              ELSE raced
  /\ UNCHANGED <<faults, watch, started, sourceBefore, loop, builds, watched,
                 fp, retryDue, active, error, arcs, http>>

----------------------------------------------------------------------------
(* The main thread: one build *)

\* Mutant of BuildFails: the directory is forgotten but not removed.
BuildFailsLeaking(m) ==
  /\ building' = NoGen
  /\ input' = NothingRead
  /\ raced' = {}
  /\ loop' = (IF started THEN "idle" ELSE IF watch THEN "baseline" ELSE "exited")
  /\ error' = m
  /\ UNCHANGED <<files, startup, meta, watched, fp, retryDue, active, arcs,
                 http>>

\* Generation::build fails: its directory is removed.  The first build ends
\* the program unless it watches; a later one replaces the diagnostic and
\* leaves the active generation alone.
BuildFails(m) ==
  /\ dirs' = dirs \ {building}
  /\ building' = NoGen
  /\ input' = NothingRead
  /\ raced' = {}
  /\ IF ~started /\ ~watch
       THEN loop' = "exited" /\ error' = error
       ELSE loop' = (IF started THEN "idle" ELSE "baseline") /\ error' = m
  /\ UNCHANGED <<files, startup, meta, watched, fp, retryDue, active, strong,
                 http>>

\* load_source and the compiler: the source is read once.
ReadSource ==
  /\ loop = "source"
  /\ LET text == disk[Source] IN
       IF text = Absent \/ text \in Broken
         THEN BuildFails(<<Source, text>>) /\ UNCHANGED faults
         ELSE /\ input' = [input EXCEPT ![Source] = text]
              /\ loop' = "assets"
              /\ UNCHANGED <<files, faults, startup, building, meta, raced,
                             watched, fp, retryDue, active, error, arcs, http>>

\* Mutant of ReadAsset: a missing asset is left out of the build.
ReadAssetLeniently(a) ==
  /\ loop = "assets"
  /\ a \in Uses[input[Source]] /\ input[a] = Unread
  /\ input' = [input EXCEPT ![a] = disk[a]]
  /\ UNCHANGED <<files, faults, startup, loop, building, meta, raced,
                 watched, fp, retryDue, active, error, arcs, http>>

\* prepare_assets: each referenced asset is read in turn.
ReadAsset(a) ==
  /\ loop = "assets"
  /\ a \in Uses[input[Source]] /\ input[a] = Unread
  /\ IF disk[a] = Absent
       THEN BuildFails(<<a, Absent>>) /\ UNCHANGED faults
       ELSE /\ input' = [input EXCEPT ![a] = disk[a]]
            /\ UNCHANGED <<files, faults, startup, loop, building, meta, raced,
                           watched, fp, retryDue, active, error, arcs, http>>

AllRead == \A a \in Uses[input[Source]] : input[a] # Unread

\* The artifact is written and becomes a generation with one Arc.
WriteGeneration ==
  /\ loop = "assets" /\ AllRead
  /\ meta' = [meta EXCEPT ![building] = input]
  /\ strong' = [strong EXCEPT ![building] = 1]
  /\ loop' = IF started THEN "baseline" ELSE "install"
  /\ UNCHANGED <<files, faults, startup, input, building, raced, watched, fp,
                 retryDue, active, error, dirs, http>>

\* Writing it fails instead (no space, no temporary directory).
WriteFails ==
  /\ loop = "assets" /\ AllRead
  /\ faults < MaxFaults
  /\ faults' = faults + 1
  /\ BuildFails(IoFailure)

\* ServerState is created with the first generation in place.
Install ==
  /\ loop = "install"
  /\ active' = building
  /\ building' = NoGen
  /\ loop' = "baseline"
  /\ UNCHANGED <<files, faults, startup, input, meta, raced, watched, fp,
                 retryDue, error, arcs, http>>

\* After a build the watched paths become those of the new generation, or the
\* source alone when there is none, and their fingerprint is taken afresh.
Baseline ==
  /\ loop = "baseline"
  /\ watched' = (IF started THEN WatchedOf(meta[building])
                 ELSE IF active = NoGen THEN {Source}
                 ELSE WatchedOf(meta[active]))
  /\ fp' = Fingerprint(watched')
  /\ input' = NothingRead
  /\ loop' = IF started THEN "activate" ELSE "recheck"
  /\ UNCHANGED <<files, faults, startup, building, meta, raced, retryDue,
                 active, error, arcs, http>>

\* Mutant of Recheck: the first fingerprint is trusted.
RecheckSkipped ==
  /\ loop = "recheck"
  /\ started' = TRUE /\ touched' = FALSE
  /\ loop' = "idle"
  /\ UNCHANGED <<files, faults, watch, sourceBefore, builds, raced, watched, fp,
                 retryDue, active, error, arcs, http>>

\* The source changed under the first build: force a rebuild.
Recheck ==
  /\ loop = "recheck"
  /\ fp' = IF SourceMoved THEN NoFp ELSE fp
  /\ started' = TRUE /\ touched' = FALSE
  /\ loop' = "idle"
  /\ UNCHANGED <<files, faults, watch, sourceBefore, builds, raced, watched,
                 retryDue, active, error, arcs, http>>

\* One Arc of g is dropped; the last one removes the directory.
Drop(g) ==
  /\ strong' = [h \in Gens |-> IF h = g THEN strong[h] - 1 ELSE strong[h]]
  /\ dirs' = IF g \in Gens /\ strong[g] = 1 THEN dirs \ {g} ELSE dirs

\* *state.active.write() = Some(generation)
Activate ==
  /\ loop = "activate"
  /\ Drop(active)
  /\ active' = building
  /\ building' = NoGen
  /\ loop' = "clear"
  /\ UNCHANGED <<files, faults, startup, input, meta, raced, watched, fp,
                 retryDue, error, http>>

\* *state.error.write() = None, under its own lock.
ClearError ==
  /\ loop = "clear"
  /\ error' = NoError
  /\ loop' = "idle"
  /\ UNCHANGED <<files, faults, startup, builds, raced, watched, fp, retryDue,
                 active, arcs, http>>

\* Mutant of WatchTick: only a change of the watched files starts a build.
WatchTickNoRetry ==
  /\ loop = "idle" /\ watch
  /\ Fingerprint(watched) # fp
  /\ fp' = Fingerprint(watched)
  /\ retryDue' = FALSE
  /\ \E g \in Gens \ dirs : building' = g /\ dirs' = dirs \cup {g}
  /\ raced' = {}
  /\ loop' = "source"
  /\ UNCHANGED <<files, faults, startup, input, meta, watched, active, error,
                 strong, http>>

\* The watch interval has passed.  A changed fingerprint, or a diagnostic
\* whose retry is due, starts a build.
WatchTick ==
  /\ loop = "idle" /\ watch
  /\ Fingerprint(watched) # fp \/ (error # NoError /\ retryDue)
  /\ fp' = Fingerprint(watched)
  /\ retryDue' = FALSE
  /\ \E g \in Gens \ dirs : building' = g /\ dirs' = dirs \cup {g}
  /\ raced' = {}
  /\ loop' = "source"
  /\ UNCHANGED <<files, faults, startup, input, meta, watched, active, error,
                 strong, http>>

\* FAILED_BUILD_RETRY_INTERVAL passes.
RetryInterval ==
  /\ ~retryDue
  /\ retryDue' = TRUE
  /\ UNCHANGED <<files, faults, startup, loop, builds, raced, watched, fp,
                 active, error, arcs, http>>

----------------------------------------------------------------------------
(* Connection threads *)

\* accept_pending runs between two watch ticks; above the limit the
\* connection is answered 503 at once and no thread starts.
Accept(c) ==
  /\ loop = "idle"
  /\ conn[c] = "none"
  /\ permits < MaxConns
  /\ permits' = permits + 1
  /\ conn' = [conn EXCEPT ![c] = "accepted"]
  /\ UNCHANGED <<files, faults, startup, loop, builds, raced, watched, fp,
                 retryDue, active, error, arcs, holds, seen>>

\* The thread ends: its Arc, if any, and its permit are dropped.
Finish(c) ==
  /\ permits' = permits - 1
  /\ conn' = [conn EXCEPT ![c] = "none"]
  /\ holds' = [holds EXCEPT ![c] = NoGen]
  /\ seen' = [seen EXCEPT ![c] = NoError]
  /\ Drop(holds[c])
  /\ UNCHANGED <<files, faults, startup, loop, builds, raced, watched, fp,
                 retryDue, active, error>>

\* Read timeout, malformed request, forbidden host, method or path, or a
\* WebSocket upgrade, which never looks at the generation.
Turn(c) == conn[c] = "accepted" /\ Finish(c)

\* Mutant of ReadActive: the thread borrows the path and takes no Arc.
ReadActiveBorrowing(c) ==
  /\ conn[c] = "accepted"
  /\ holds' = [holds EXCEPT ![c] = active]
  /\ conn' = [conn EXCEPT ![c] = "cloned"]
  /\ UNCHANGED <<files, faults, startup, loop, builds, raced, watched, fp,
                 retryDue, active, error, arcs, permits, seen>>

\* serve_static clones the Arc under the lock of state.active ...
ReadActive(c) ==
  /\ conn[c] = "accepted"
  /\ holds' = [holds EXCEPT ![c] = active]
  /\ strong' = [g \in Gens |-> IF g = active THEN strong[g] + 1 ELSE strong[g]]
  /\ conn' = [conn EXCEPT ![c] = "cloned"]
  /\ UNCHANGED <<files, faults, startup, loop, builds, raced, watched, fp,
                 retryDue, active, error, dirs, permits, seen>>

\* ... then the diagnostic under the lock of state.error ...
ReadError(c) ==
  /\ conn[c] = "cloned"
  /\ seen' = [seen EXCEPT ![c] = error]
  /\ conn' = [conn EXCEPT ![c] = "respond"]
  /\ UNCHANGED <<files, faults, startup, loop, builds, raced, watched, fp,
                 retryDue, active, error, arcs, permits, holds>>

\* ... and answers from the generation's directory.
Respond(c) == conn[c] = "respond" /\ Finish(c)

----------------------------------------------------------------------------
\* Startup fails without --watch: the program has ended.
Exited == loop = "exited" /\ UNCHANGED vars

Main ==
  \/ ReadSource
  \/ \E a \in Assets : ReadAsset(a)
  \/ WriteGeneration
  \/ WriteFails
  \/ Install
  \/ Baseline
  \/ Recheck
  \/ Activate
  \/ ClearError
  \/ WatchTick

Thread(c) == Turn(c) \/ ReadActive(c) \/ ReadError(c) \/ Respond(c)

Next ==
  \/ \E p \in Path, c \in Content : Save(p, c)
  \/ Main
  \/ RetryInterval
  \/ \E c \in Conns : Accept(c) \/ Thread(c)
  \/ Exited

Spec == Init /\ [][Next]_vars

\* The main thread and the connection threads are scheduled by the operating
\* system, a request is bounded by HTTP_READ_TIMEOUT and the retry interval
\* passes.  Saves, faults and new connections need not happen.
FairSpec ==
  /\ Spec
  /\ WF_vars(Main)
  /\ WF_vars(RetryInterval)
  /\ \A c \in Conns : WF_vars(Thread(c))
----------------------------------------------------------------------------
(* Properties *)

\* Types of the variables; no count falls below zero.
TypeOK ==
  /\ disk \in Trees
  /\ saves \in 0..MaxSaves /\ faults \in 0..MaxFaults
  /\ watch \in BOOLEAN /\ started \in BOOLEAN /\ touched \in BOOLEAN
  /\ sourceBefore \in Content
  /\ loop \in {"source", "assets", "install", "baseline", "recheck", "idle",
               "activate", "clear", "exited"}
  /\ input \in Inputs
  /\ raced \subseteq Path /\ watched \subseteq Path
  /\ fp \in Inputs \cup {NoFp}
  /\ retryDue \in BOOLEAN
  /\ building \in Gens \cup {NoGen} /\ active \in Gens \cup {NoGen}
  /\ error \in Diagnostic \cup {NoError}
  /\ meta \in [Gens -> Inputs]
  /\ strong \in [Gens -> Nat] /\ dirs \subseteq Gens
  /\ permits \in Nat
  /\ conn \in [Conns -> {"none", "accepted", "cloned", "respond"}]
  /\ holds \in [Conns -> Gens \cup {NoGen}]
  /\ seen \in [Conns -> Diagnostic \cup {NoError}]

Holders(g) == {c \in Conns : holds[c] = g}

\* The main thread's local variable holds an Arc of g.
Local(g) == building = g /\ loop \in {"install", "baseline", "activate"}

One(b) == IF b THEN 1 ELSE 0

\* A generation's directory is on disk for as long as the server state, the
\* main thread or a connection thread has its Arc, or it is under
\* construction, and no longer: a thread never answers from a removed
\* directory, and no directory is leaked however the threads interleave.
GenerationsLive ==
  /\ \A g \in Gens :
       strong[g] = Cardinality(Holders(g)) + One(active = g) + One(Local(g))
  /\ dirs = {g \in Gens : strong[g] > 0 \/ building = g}

\* At most MAX_HTTP_CONNECTIONS threads run, and every one of them gives its
\* permit back on each way out.
PermitsExact ==
  /\ permits = Cardinality({c \in Conns : conn[c] # "none"})
  /\ permits <= MaxConns

\* What threads share is counted exactly: directories and permits.
ResourcesExact == GenerationsLive /\ PermitsExact

\* When the watcher is content (no diagnostic, and the fingerprint it keeps
\* is that of the files as they are), the active generation was built from
\* the files as they are, but for saves that raced with the build itself.
NoStaleGeneration ==
  (/\ loop = "idle" /\ error = NoError
   /\ fp = Fingerprint(watched))
    => /\ active # NoGen
       /\ \A p \in watched \ raced : meta[active][p] = disk[p]

\* The inputs of a build that can be completed.
CompleteInputs ==
  {in \in Inputs :
     /\ in[Source] \in Texts \ Broken
     /\ \A a \in Assets : IF a \in Uses[in[Source]] THEN in[a] \in Blobs
                                                   ELSE in[a] = Unread}

\* The server implements the promise about the build it serves.
LastGood == INSTANCE LastGoodBuild WITH
  Builds <- CompleteInputs,
  Diagnostics <- Diagnostic,
  NoBuild <- NoGen,
  NoDiagnostic <- NoError,
  served <- IF active = NoGen THEN NoGen ELSE meta[active],
  diagnostic <- error,
  settling <- loop = "clear" /\ error # NoError
ServesLastGoodBuild == LastGood!Spec

\* The files as they are make a complete build.
Buildable ==
  /\ disk[Source] \in Texts \ Broken
  /\ \A a \in Uses[disk[Source]] : disk[a] # Absent

\* Once the editor rests, and unless its last saves raced with the build, the
\* server ends up serving the files as they are, or showing a diagnostic when
\* they do not build.  Retries keep it from getting stuck on a diagnostic
\* whose cause lies outside the watched paths.
EventuallyServesTheFiles ==
  <>[](watch /\ raced = {} /\ loop = "idle" =>
         IF Buildable
           THEN /\ error = NoError /\ active # NoGen
                /\ \A p \in {Source} \cup Uses[disk[Source]] :
                     meta[active][p] = disk[p]
           ELSE error # NoError)
=============================================================================
