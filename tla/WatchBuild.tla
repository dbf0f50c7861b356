---------------------------- MODULE WatchBuild ----------------------------
(***************************************************************************)
(* polygl build --watch (crates/polygl-cli/src/serve.rs, lib.rs): how the  *)
(* command line and the project configuration make a plan, how the inputs  *)
(* of the plan become a directory of files, and how the watcher, which     *)
(* compares fingerprints of what the last build read, keeps that directory *)
(* up to date with files that an editor saves while it reads them.         *)
(* Publish has the replacement of the directory itself.                    *)
(***************************************************************************)
EXTENDS Naturals

CONSTANTS
  Requests,  \* command lines: records of the settings and "explicit"
  InitFiles, \* the files at the start, a function from paths
  Saves,     \* what an editor may save: [path, contents]
  Inside,    \* the paths within each directory that a setting may name
  MaxSaves   \* bound: how often

\* What is at a path: one of these, or what the build can read from there: a
\* configuration, an image, an HTML template, a directory, or a program: its code
\* (what the script is made from), its text and the textures that it names.
Missing == [kind |-> "missing"]
Unreadable == [kind |-> "unreadable"]
\* A configuration that does not parse, or with a value out of range.
Garbled == [kind |-> "garbled"]

\* A setting that neither the command line nor the configuration gives.
Unset == "unset"
Settings == {"entry", "output", "template", "public", "mode", "map",
             "content", "hashed"}
ConfigPath == "config"
Paths == DOMAIN InitFiles

ASSUME SavesAssumption == \A s \in Saves : s.path \in Paths
ASSUME BoundAssumption == MaxSaves \in Nat
ASSUME ConfigAssumption == ConfigPath \in Paths
\* What the configuration may be. With any command line it names a directory
\* that Inside knows (OutputAssumption).
Configurations ==
  {InitFiles[ConfigPath]} \cup {s.contents : s \in {t \in Saves : t.path = ConfigPath}}

VARIABLES
  files,        \* what is at each path
  saves,        \* how often it has changed
  request,      \* the command line
  plan,         \* the settings that the running or the last build follows
  pc,           \* where the watcher is
  first,        \* in its first build
  sourceBefore, \* what the source file was before the first build
  read,         \* what the running build has read so far, by input
  built,        \* what the last successful build had read
  watched,      \* the paths whose changes count
  fingerprint,  \* what was there when they were looked at, or None
  failed,       \* the last attempt to build failed
  outputs       \* the artifact in each directory, {} for none

vars == <<files, saves, request, plan, pc, first, sourceBefore, read, built,
          watched, fingerprint, failed, outputs>>

--------------------------------------------------------------------------
(* The plan: what the command line gives, else the configuration, else a   *)
(* default.                                                                *)

DefaultConfig == [s \in Settings |-> Unset]

ConfigFails(r, c) ==
  \/ c.kind \in {"garbled", "unreadable"}
  \/ c = Missing /\ r.explicit

Setting(r, c, s, default) ==
  LET own == (IF c = Missing THEN DefaultConfig ELSE c)[s]
  IN CASE r[s] # Unset -> r[s]
       [] r[s] = Unset /\ own # Unset -> own
       [] OTHER -> default

PlanOf(r, c) ==
  LET mode == Setting(r, c, "mode", "debug")
  IN [source   |-> Setting(r, c, "entry", Unset),
      output   |-> Setting(r, c, "output", "dist"),
      mode     |-> mode,
      map      |-> Setting(r, c, "map",
                           IF mode = "debug" THEN "external" ELSE "none"),
      content  |-> Setting(r, c, "content", "no"),
      public   |-> Setting(r, c, "public", Unset),
      template |-> Setting(r, c, "template", Unset),
      hashed   |-> Setting(r, c, "hashed", "no")]

Resolves(r, c) ==
  /\ ~ConfigFails(r, c)
  /\ PlanOf(r, c).source # Unset
  /\ ~(PlanOf(r, c).content = "yes" /\ PlanOf(r, c).map = "none")

ASSUME OutputAssumption ==
  \A r \in Requests, c \in Configurations :
    Resolves(r, c) => PlanOf(r, c).output \in DOMAIN Inside

Optional(path) == {path} \ {Unset}

ConfiguredPaths(p) ==
  {p.source, ConfigPath} \cup Optional(p.template) \cup Optional(p.public)

--------------------------------------------------------------------------
(* What a build makes of what it has read: f has the contents by input, a   *)
(* path and what it is read as, for a path may be read twice.              *)

Input(role, path) == [as |-> role, path |-> path]
Only(input, contents) == [i \in {input} |-> contents]
Adding(f, input, contents) ==
  [i \in DOMAIN f \cup {input} |-> IF i = input THEN contents ELSE f[i]]
PathsOf(inputs) == {i.path : i \in inputs}
Reading(f, role, path) == f[Input(role, path)]
ConfigRead(f) == Reading(f, "config", ConfigPath)
SourceRead(f, p) == Reading(f, "source", p.source)
TextureRead(f, t) == Reading(f, "texture", t)
TemplateRead(f, p) == Reading(f, "template", p.template)
PublicRead(f, p) == Reading(f, "public", p.public)

\* The output directory may hold none of the inputs, and neither hold the
\* public directory nor be within it.
Separate(p, assets) ==
  /\ (ConfiguredPaths(p) \cup assets) \cap Inside[p.output] = {}
  /\ p.public # Unset => p.output \notin Inside[p.public]

Compiles(f, p) == SourceRead(f, p).kind = "program"
Textures(f, p) == SourceRead(f, p).textures
\* Any regular file will do.
TextureReads(f, t) ==
  TextureRead(f, t).kind \notin {"missing", "unreadable", "directory"}
PageRenders(f, p) ==
  p.template # Unset =>
    TemplateRead(f, p).kind = "page" /\ TemplateRead(f, p).markers = 1
PublicReads(f, p) == p.public # Unset => PublicRead(f, p).kind = "directory"

\* The content hash in a name tells contents apart: it stands for them.
NameOf(p, stem, contents) ==
  IF p.hashed = "yes" THEN [stem |-> stem, hash |-> contents] ELSE [stem |-> stem]

\* Positions follow the text; the map does not name the script, which names it.
SourceMap(f, p) ==
  [text |-> IF p.content = "yes" THEN SourceRead(f, p).text ELSE 0,
   positions |-> SourceRead(f, p).text]
SourceMapName(f, p) == NameOf(p, "app.js.map", SourceMap(f, p))

\* The script as it is before the name of its map is known, and with it.
Unlinked(f, p) ==
  [code |-> SourceRead(f, p).code, mode |-> p.mode,
   map |-> IF p.map = "inline" THEN SourceMap(f, p) ELSE Missing]
Script(f, p) ==
  [Unlinked(f, p) EXCEPT
     !.map = IF p.map = "external" THEN SourceMapName(f, p) ELSE @]
\* The shaders come with their places in the text.
Shaders(f, p) ==
  [code |-> SourceRead(f, p).code, text |-> SourceRead(f, p).text, mode |-> p.mode]
Runtime == [kind |-> "runtime"]

\* A mutant: the name is taken before the name of the map replaces its marker.
ScriptNameUnlinked(f, p) == NameOf(p, "app.js", Unlinked(f, p))

ScriptName(f, p) == NameOf(p, "app.js", Script(f, p))

Index(f, p) ==
  [page    |-> IF p.template = Unset THEN 0 ELSE TemplateRead(f, p).text,
   app     |-> ScriptName(f, p),
   shaders |-> NameOf(p, "shaders.js", Shaders(f, p)),
   runtime |-> NameOf(p, "runtime.js", Runtime)]

\* The files of an artifact, each with its name in the output directory.
File(name, contents) == [name |-> name, contents |-> contents]
Names(artifacts) == {a.name : a \in artifacts}

\* A file whose name is that of what it contains.
Hashable(p, stem, contents) == File(NameOf(p, stem, contents), contents)

Generated(f, p) ==
  {File(ScriptName(f, p), Script(f, p)),
   Hashable(p, "shaders.js", Shaders(f, p)),
   Hashable(p, "runtime.js", Runtime),
   File([stem |-> "index.html"], Index(f, p))}
  \cup (IF p.map = "external" THEN {File(SourceMapName(f, p), SourceMap(f, p))} ELSE {})

Assets(f, p) == {File([stem |-> t], TextureRead(f, t)) : t \in Textures(f, p)}

PublicFiles(f, p) ==
  IF p.public = Unset THEN {} ELSE
  LET held == PublicRead(f, p).holds
  IN {File([stem |-> n], [bytes |-> held[n]]) : n \in DOMAIN held}

Manifest(f, p) ==
  File([stem |-> "polygl-manifest.json"],
       [names |-> Names(Generated(f, p) \cup Assets(f, p) \cup PublicFiles(f, p))])

\* No two files of the artifact may have one path.
PathsDiffer(f, p) ==
  LET generated == Names(Generated(f, p) \cup {Manifest(f, p)})
      assets == Names(Assets(f, p))
      public == Names(PublicFiles(f, p))
  IN /\ generated \cap assets = {}
     /\ generated \cap public = {}
     /\ assets \cap public = {}

Artifact(f, p) ==
  Generated(f, p) \cup Assets(f, p) \cup PublicFiles(f, p) \cup {Manifest(f, p)}

--------------------------------------------------------------------------
(* The watcher.                                                            *)

\* One hash of everything watched, unless something there cannot be read.
None == [none |-> TRUE]
FingerprintOf(paths) ==
  IF \E q \in paths : files[q] = Unreadable THEN None
  ELSE [q \in paths |-> files[q]]

Init ==
  /\ files = InitFiles /\ saves = 0
  /\ request \in {r \in Requests : Resolves(r, InitFiles[ConfigPath])}
  /\ plan = PlanOf(request, InitFiles[ConfigPath])
  /\ pc = "start" /\ first = TRUE
  /\ sourceBefore = Missing
  /\ read = Only(Input("config", ConfigPath), InitFiles[ConfigPath])
  /\ built = <<>>
  /\ watched = {} /\ fingerprint = None /\ failed = FALSE
  /\ outputs = [d \in DOMAIN Inside |-> {}]

\* An editor changes a file, at any time.
Save ==
  /\ saves < MaxSaves
  /\ \E s \in Saves :
       /\ files[s.path] # s.contents
       /\ files' = [files EXCEPT ![s.path] = s.contents]
  /\ saves' = saves + 1
  /\ UNCHANGED <<request, plan, pc, first, sourceBefore, read, built, watched,
                 fingerprint, failed, outputs>>

Start ==
  /\ pc = "start"
  /\ sourceBefore' = files[plan.source]
  /\ watched' = ConfiguredPaths(plan)
  /\ fingerprint' = FingerprintOf(ConfiguredPaths(plan))
  /\ pc' = "source"
  /\ UNCHANGED <<files, saves, request, plan, first, read, built, failed, outputs>>

\* A step of the build that reads what is at a path and goes on if it is right.
ReadInto(role, path, right(_), next) ==
  LET now == Adding(read, Input(role, path), files[path])
  IN /\ read' = now
     /\ pc' = IF right(now) THEN next ELSE "failed"
     /\ UNCHANGED <<files, saves, request, plan, first, sourceBefore, built,
                    watched, fingerprint, failed, outputs>>

GoTo(next) ==
  /\ pc' = next
  /\ UNCHANGED <<files, saves, request, plan, first, sourceBefore, read, built,
                 watched, fingerprint, failed, outputs>>

LoadSource ==
  /\ pc = "source"
  /\ LET right(f) == Separate(plan, {}) /\ Compiles(f, plan)
     IN ReadInto("source", plan.source, right, "textures")

\* The textures that the program names, one after the other.
Unloaded == {t \in Textures(read, plan) : Input("texture", t) \notin DOMAIN read}

LoadTexture ==
  /\ pc = "textures"
  /\ \E t \in Unloaded :
       LET right(f) == TextureReads(f, t) IN ReadInto("texture", t, right, "textures")

TexturesLoaded ==
  /\ pc = "textures" /\ Unloaded = {}
  /\ GoTo(IF Separate(plan, Textures(read, plan)) THEN "page" ELSE "failed")

RenderPage ==
  /\ pc = "page"
  /\ IF plan.template = Unset THEN GoTo("public")
     ELSE LET right(f) == PageRenders(f, plan)
          IN ReadInto("template", plan.template, right, "public")

ReadPublic ==
  /\ pc = "public"
  /\ IF plan.public = Unset THEN GoTo("publish")
     ELSE LET right(f) == PublicReads(f, plan)
          IN ReadInto("public", plan.public, right, "publish")

PublishArtifact ==
  /\ pc = "publish"
  /\ IF PathsDiffer(read, plan)
     THEN /\ outputs' = [outputs EXCEPT ![plan.output] = Artifact(read, plan)]
          /\ pc' = "built"
     ELSE pc' = "failed" /\ UNCHANGED outputs
  /\ UNCHANGED <<files, saves, request, plan, first, sourceBefore, read, built,
                 watched, fingerprint, failed>>

\* After the first build: a source that has changed meanwhile is built again.
Settle(paths, print) ==
  /\ watched' = paths
  /\ fingerprint' = IF first /\ files[plan.source] # sourceBefore THEN None ELSE print
  /\ first' = FALSE
  /\ sourceBefore' = Missing
  /\ read' = <<>>
  /\ pc' = "idle"
  /\ UNCHANGED <<files, saves, request, plan, outputs>>

Built ==
  /\ pc = "built"
  /\ Settle(PathsOf(DOMAIN read), FingerprintOf(PathsOf(DOMAIN read)))
  /\ built' = read
  /\ failed' = FALSE

\* A mutant: a failed build does not remember that it is to be tried again.
BuildFailsForgetting ==
  /\ pc = "failed"
  /\ Settle(ConfiguredPaths(plan), FingerprintOf(ConfiguredPaths(plan)))
  /\ UNCHANGED <<built, failed>>

BuildFails ==
  /\ pc = "failed"
  /\ Settle(ConfiguredPaths(plan),
            IF first THEN fingerprint ELSE FingerprintOf(ConfiguredPaths(plan)))
  /\ failed' = TRUE
  /\ UNCHANGED built

\* Time to look: something has changed, or a failed build is due for a retry
\* (when that is depends on the clock).
Look ==
  /\ pc = "idle"
  /\ FingerprintOf(watched) # fingerprint \/ failed
  /\ fingerprint' = FingerprintOf(watched)
  /\ pc' = "resolve"
  /\ UNCHANGED <<files, saves, request, plan, first, sourceBefore, read, built,
                 watched, failed, outputs>>

Sleep == pc = "idle" /\ UNCHANGED vars

Resolve ==
  /\ pc = "resolve"
  /\ LET c == files[ConfigPath] IN
     IF Resolves(request, c)
     THEN /\ plan' = PlanOf(request, c)
          /\ read' = Only(Input("config", ConfigPath), c)
          /\ pc' = "source"
          /\ UNCHANGED failed
     ELSE /\ failed' = TRUE
          /\ pc' = "idle"
          /\ UNCHANGED <<plan, read>>
  /\ UNCHANGED <<files, saves, request, first, sourceBefore, built, watched,
                 fingerprint, outputs>>

Watch ==
  \/ Start \/ LoadSource \/ LoadTexture \/ TexturesLoaded \/ RenderPage
  \/ ReadPublic \/ PublishArtifact \/ Built \/ BuildFails \/ Look \/ Resolve

Next == Save \/ Watch \/ Sleep

Spec == Init /\ [][Next]_vars
\* The loop of watch_build keeps running, whatever its builds return.
FairSpec == Spec /\ WF_vars(Watch)

--------------------------------------------------------------------------
(* Properties.                                                             *)

CurrentPlan == PlanOf(request, files[ConfigPath])

\* What a build that reads everything at once finds.
Roles == {"config", "source", "texture", "template", "public"}
Now(p) ==
  LET source == files[p.source]
      textures == IF source.kind = "program" THEN source.textures ELSE {}
  IN [i \in [as : Roles, path : ConfiguredPaths(p) \cup textures] |-> files[i.path]]

\* What every step of a build asks for.
AllRight(f, p) ==
  /\ Compiles(f, p)
  /\ Separate(p, Textures(f, p))
  /\ \A t \in Textures(f, p) : TextureReads(f, t)
  /\ PageRenders(f, p)
  /\ PublicReads(f, p)
  /\ PathsDiffer(f, p)

\* A build of the files as they are would succeed.
Buildable ==
  Resolves(request, files[ConfigPath]) /\ AllRight(Now(CurrentPlan), CurrentPlan)

UpToDate ==
  IF Buildable
  THEN /\ ~failed
       /\ outputs[CurrentPlan.output] = Artifact(Now(CurrentPlan), CurrentPlan)
  ELSE failed

\* The one thing that may be missed: a file saved after the last successful
\* build had read it and before the fingerprint was taken of it.
SavedDuringBuild ==
  /\ ~failed
  /\ \/ fingerprint = None
     \/ \E i \in DOMAIN built :
          i.path \in DOMAIN fingerprint /\ fingerprint[i.path] # built[i]

\* However saves interleave with the reads of builds, once they stop the output
\* is for good what a build of the files as they are makes, under the
\* configuration as it is, or a failure is remembered if they cannot be built
\* (and nothing else is: a repaired file of any kind, watched or not, ends it).
\* Only a save during a build that succeeded may be missed, and in the first
\* build not even that of the source (watch_build).
EventuallyUpToDate == <>[](UpToDate \/ SavedDuringBuild)

\* A name with a content hash never changes its meaning: two successive builds
\* that publish one hashed name publish the same contents under it, so that a
\* browser may cache it for ever (prepare_generated_files).
HashedNamesHold ==
  [][\A d \in DOMAIN outputs : \A a \in outputs[d], b \in outputs'[d] :
       a.name = b.name /\ "hash" \in DOMAIN a.name => a.contents = b.contents]_vars
=============================================================================
