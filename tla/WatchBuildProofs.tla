------------------------- MODULE WatchBuildProofs -------------------------
(***************************************************************************)
(* What WatchBuild publishes under a content-hashed name, and what its     *)
(* watcher may miss, for every project, every request and every sequence   *)
(* of saves.                                                               *)
(***************************************************************************)
EXTENDS WatchBuild, TLAPS

\* A file that has a hash in its name holds what the hash is of.
Faithful(a) == "hash" \in DOMAIN a.name => a.contents = a.name.hash

\* So are all the files published.
AllFaithful == \A d \in DOMAIN outputs : \A a \in outputs[d] : Faithful(a)

--------------------------------------------------------------------------
\* A file named by NameOf is faithful, whether names are hashed or not.
LEMMA NameOfFaithful ==
  ASSUME NEW p, NEW stem, NEW contents
  PROVE  Faithful(File(NameOf(p, stem, contents), contents))
<1>1. CASE p.hashed = "yes"
  BY <1>1 DEF Faithful, NameOf, File
<1>2. CASE p.hashed # "yes"
  BY <1>2 DEF Faithful, NameOf, File
<1> QED
  BY <1>1, <1>2

\* So is a file whose name is no more than a stem.
LEMMA StemFaithful ==
  ASSUME NEW stem, NEW contents
  PROVE  Faithful(File([stem |-> stem], contents))
BY DEF Faithful, File

\* Every file of an artifact has a name of one of the two kinds.
LEMMA ArtifactFaithful ==
  ASSUME NEW f, NEW p, NEW a \in Artifact(f, p)
  PROVE  Faithful(a)
<1>1. CASE a \in Generated(f, p)
  BY <1>1, NameOfFaithful, StemFaithful
     DEF Generated, Hashable, ScriptName, SourceMapName
<1>2. CASE a \in Assets(f, p)
  BY <1>2, StemFaithful DEF Assets
<1>3. CASE a \in PublicFiles(f, p)
  BY <1>3, StemFaithful DEF PublicFiles
<1>4. CASE a = Manifest(f, p)
  BY <1>4, StemFaithful DEF Manifest
<1> QED
  BY <1>1, <1>2, <1>3, <1>4 DEF Artifact

--------------------------------------------------------------------------
LEMMA InitFaithful == Init => AllFaithful
BY DEF Init, AllFaithful

\* Only PublishArtifact changes a directory, and it writes an artifact.
LEMMA NextFaithful == AllFaithful /\ [Next]_vars => AllFaithful'
<1> SUFFICES ASSUME AllFaithful, [Next]_vars PROVE AllFaithful'
  OBVIOUS
<1>1. CASE UNCHANGED outputs
  BY <1>1 DEF AllFaithful
<1>2. CASE PublishArtifact /\ outputs' # outputs
  <2>1. outputs' = [outputs EXCEPT ![plan.output] = Artifact(read, plan)]
    BY <1>2 DEF PublishArtifact
  <2>2. ASSUME NEW d \in DOMAIN outputs', NEW a \in outputs'[d]
        PROVE  Faithful(a)
    <3>1. a \in outputs[d] \/ a \in Artifact(read, plan)
      BY <2>1, <2>2
    <3>2. d \in DOMAIN outputs
      BY <2>1, <2>2
    <3> QED
      BY <3>1, <3>2, ArtifactFaithful DEF AllFaithful
  <2> QED
    BY <2>2 DEF AllFaithful
<1>3. UNCHANGED outputs \/ PublishArtifact
  BY DEF Next, Watch, vars, Save, Start, LoadSource, LoadTexture, TexturesLoaded,
         RenderPage, ReadPublic, ReadInto, GoTo, Built, BuildFails, Settle, Look,
         Sleep, Resolve
<1> QED
  BY <1>1, <1>2, <1>3

\* Every file ever published under a hashed name holds what its name says.
THEOREM HashesAreTrue == Spec => []AllFaithful
<1>1. Init => AllFaithful
  BY InitFaithful
<1>2. AllFaithful /\ [Next]_vars => AllFaithful'
  BY NextFaithful
<1> QED
  BY <1>1, <1>2, PTL DEF Spec

\* Whatever is saved and however the configuration changes, a content-hashed name
\* keeps its meaning from one output to the next (prepare_generated_files).
THEOREM NamesKeepTheirMeaning == Spec => HashedNamesHold
<1>1. ASSUME AllFaithful, AllFaithful', DOMAIN outputs' = DOMAIN outputs
      PROVE  \A d \in DOMAIN outputs : \A a \in outputs[d], b \in outputs'[d] :
               a.name = b.name /\ "hash" \in DOMAIN a.name => a.contents = b.contents
  BY <1>1 DEF AllFaithful, Faithful
<1>2. [Next]_vars => DOMAIN outputs' = DOMAIN outputs
  BY DEF Next, Watch, vars, Save, Start, LoadSource, LoadTexture, TexturesLoaded,
         RenderPage, ReadPublic, ReadInto, GoTo, PublishArtifact, Built, BuildFails,
         Settle, Look, Sleep, Resolve
<1> QED
  BY <1>1, <1>2, HashesAreTrue, PTL DEF Spec, HashedNamesHold

--------------------------------------------------------------------------
(* A build step by step: what its place says of what it has read.          *)

\* At rest the watcher has missed nothing: with no failed build to try again and
\* nothing to be seen in the files it watches, the output is what a build of the
\* files and of the configuration as they are makes (watch_build).
NothingMissed ==
  pc = "idle" /\ ~failed /\ FingerprintOf(watched) = fingerprint
    => UpToDate \/ SavedDuringBuild

\* What a build by the plan p reads, when the program names these textures.
Inputs(p, textures) ==
  {Input("config", ConfigPath), Input("source", p.source)}
  \cup {Input("texture", t) : t \in textures}
  \cup {Input("template", t) : t \in Optional(p.template)}
  \cup {Input("public", d) : d \in Optional(p.public)}

\* The plan that the configuration in f makes.
PlanIn(f) == PlanOf(request, ConfigRead(f))

\* f has all the inputs of a build, which succeeds and leaves its artifact.
BuiltFrom(f) ==
  /\ ConfigRead(f) \in Configurations
  /\ Resolves(request, ConfigRead(f))
  /\ Inputs(PlanIn(f), Textures(f, PlanIn(f))) \subseteq DOMAIN f
  /\ AllRight(f, PlanIn(f))
  /\ outputs[PlanIn(f).output] = Artifact(f, PlanIn(f))

\* What each place of a running build knows of what it has read.
Building == {"source", "textures", "page", "public", "publish", "built"}

FollowsTheConfiguration ==
  pc \in Building \cup {"start"} =>
    /\ Input("config", ConfigPath) \in DOMAIN read
    /\ ConfigRead(read) \in Configurations
    /\ Resolves(request, ConfigRead(read))
    /\ plan = PlanIn(read)
NothingReadYet ==
  pc \in {"start", "source"} => DOMAIN read = {Input("config", ConfigPath)}
SourceIsRead ==
  pc \in Building \ {"source"} =>
    /\ Input("source", plan.source) \in DOMAIN read
    /\ Compiles(read, plan)
    /\ \A t \in Textures(read, plan) :
         Input("texture", t) \in DOMAIN read => TextureReads(read, t)
TexturesAreRead ==
  pc \in Building \ {"source", "textures"} =>
    Unloaded = {} /\ Separate(plan, Textures(read, plan))
PageIsRendered ==
  pc \in {"public", "publish", "built"} =>
    /\ PageRenders(read, plan)
    /\ plan.template # Unset => Input("template", plan.template) \in DOMAIN read
PublicIsRead ==
  pc \in {"publish", "built"} =>
    /\ PublicReads(read, plan)
    /\ plan.public # Unset => Input("public", plan.public) \in DOMAIN read
ArtifactIsThere ==
  pc = "built" =>
    PathsDiffer(read, plan) /\ outputs[plan.output] = Artifact(read, plan)

\* What is left of it when the watcher rests.
Rest ==
  pc = "idle" /\ ~failed => watched = PathsOf(DOMAIN built) /\ BuiltFrom(built)

Typed ==
  /\ request \in Requests
  /\ DOMAIN files = Paths /\ files[ConfigPath] \in Configurations
  /\ DOMAIN outputs = DOMAIN Inside

BuildInv ==
  /\ Typed
  /\ FollowsTheConfiguration /\ NothingReadYet /\ SourceIsRead /\ TexturesAreRead
  /\ PageIsRendered /\ PublicIsRead /\ ArtifactIsThere
  /\ Rest

--------------------------------------------------------------------------

\* Inputs are told apart by what they are read as.
LEMMA InputsDiffer ==
  ASSUME NEW a, NEW b, NEW q, NEW r
  PROVE  Input(a, q) = Input(b, r) <=> a = b /\ q = r
BY DEF Input

\* What a build makes depends on its inputs alone.
LEMMA SameInputs ==
  ASSUME NEW f, NEW g, NEW p,
         \A i \in Inputs(p, Textures(f, p)) : f[i] = g[i]
  PROVE  /\ ConfigRead(f) = ConfigRead(g)
         /\ AllRight(f, p) = AllRight(g, p)
         /\ Artifact(f, p) = Artifact(g, p)
<1>1. ConfigRead(f) = ConfigRead(g) /\ SourceRead(f, p) = SourceRead(g, p)
  BY DEF Inputs, ConfigRead, SourceRead, Reading
<1>2. Textures(f, p) = Textures(g, p)
  BY <1>1 DEF Textures
<1>3. ASSUME NEW t \in Textures(f, p)
      PROVE  TextureRead(f, t) = TextureRead(g, t)
  BY <1>3 DEF Inputs, TextureRead, Reading
<1>4. ASSUME p.template # Unset
      PROVE  TemplateRead(f, p) = TemplateRead(g, p)
  BY <1>4 DEF Inputs, TemplateRead, Reading, Optional
<1>5. ASSUME p.public # Unset
      PROVE  PublicRead(f, p) = PublicRead(g, p)
  BY <1>5 DEF Inputs, PublicRead, Reading, Optional
<1>6. Assets(f, p) = Assets(g, p)
  BY <1>2, <1>3 DEF Assets
<1>7. PublicFiles(f, p) = PublicFiles(g, p)
  BY <1>5 DEF PublicFiles
<1>8. /\ SourceMap(f, p) = SourceMap(g, p)
      /\ Shaders(f, p) = Shaders(g, p)
  BY <1>1 DEF SourceMap, Shaders
<1>9. /\ SourceMapName(f, p) = SourceMapName(g, p)
      /\ Script(f, p) = Script(g, p)
  BY <1>1, <1>8 DEF SourceMapName, Script, Unlinked
<1>10. ScriptName(f, p) = ScriptName(g, p)
  BY <1>9 DEF ScriptName
<1>11. Index(f, p) = Index(g, p)
  BY <1>4, <1>8, <1>10 DEF Index
<1>12. Generated(f, p) = Generated(g, p)
  BY <1>8, <1>9, <1>10, <1>11 DEF Generated
<1>13. Manifest(f, p) = Manifest(g, p)
  BY <1>6, <1>7, <1>12 DEF Manifest
<1>14. Artifact(f, p) = Artifact(g, p)
  BY <1>6, <1>7, <1>12, <1>13 DEF Artifact
<1>15. PathsDiffer(f, p) <=> PathsDiffer(g, p)
  BY <1>6, <1>7, <1>12, <1>13 DEF PathsDiffer
<1>16. (\A t \in Textures(f, p) : TextureReads(f, t))
       <=> (\A t \in Textures(g, p) : TextureReads(g, t))
  BY <1>2, <1>3 DEF TextureReads
<1>17. /\ PageRenders(f, p) <=> PageRenders(g, p)
       /\ PublicReads(f, p) <=> PublicReads(g, p)
  BY <1>4, <1>5 DEF PageRenders, PublicReads
<1>18. AllRight(f, p) <=> AllRight(g, p)
  BY <1>1, <1>2, <1>15, <1>16, <1>17 DEF AllRight, Compiles
<1> QED
  BY <1>1, <1>14, <1>18 DEF AllRight

\* What a step of the build reads is there after it, and the rest stays.
LEMMA ReadKeeps ==
  ASSUME NEW role, NEW path, read' = Adding(read, Input(role, path), files[path])
  PROVE  /\ DOMAIN read' = DOMAIN read \cup {Input(role, path)}
         /\ \A i \in DOMAIN read \ {Input(role, path)} : read'[i] = read[i]
BY DEF Adding

--------------------------------------------------------------------------
(* One lemma for each step.                                                *)

LEMMA InitBuild == Init => BuildInv
<1> SUFFICES ASSUME Init PROVE BuildInv
  OBVIOUS
<1>1. Typed
  BY ConfigAssumption DEF Init, Typed, Configurations, Paths
<1>2. /\ DOMAIN read = {Input("config", ConfigPath)}
      /\ ConfigRead(read) = InitFiles[ConfigPath]
  BY DEF Init, Only, ConfigRead, Reading
<1>3. FollowsTheConfiguration /\ NothingReadYet
  BY <1>2 DEF Init, FollowsTheConfiguration, NothingReadYet, Configurations, PlanIn
<1> QED
  BY <1>1, <1>3 DEF Init, BuildInv, Building, SourceIsRead, TexturesAreRead, PageIsRendered,
     PublicIsRead, ArtifactIsThere, Rest

\* A step that ends in a failed build, or that saves, has nothing to keep but
\* the typing.
LEMMA FailureKeeps ==
  ASSUME BuildInv, Typed', pc' = "failed"
  PROVE  BuildInv'
BY DEF BuildInv, Building, FollowsTheConfiguration, NothingReadYet, SourceIsRead,
   TexturesAreRead, PageIsRendered, PublicIsRead, ArtifactIsThere, Rest

LEMMA SaveKeeps ==
  ASSUME BuildInv, Save
  PROVE  BuildInv'
<1>1. PICK s \in Saves : files' = [files EXCEPT ![s.path] = s.contents]
  BY DEF Save
<1>2. s.path = ConfigPath => s.contents \in Configurations
  BY DEF Configurations
<1>3. Typed'
  BY <1>1, <1>2, ConfigAssumption DEF Save, BuildInv, Typed
<1>4. UNCHANGED <<request, plan, pc, read, built, watched, failed, outputs>>
  BY DEF Save
<1> QED
  BY <1>3, <1>4 DEF BuildInv, FollowsTheConfiguration, NothingReadYet, SourceIsRead,
     TexturesAreRead, PageIsRendered, PublicIsRead, ArtifactIsThere, Rest, PlanIn, BuiltFrom,
     Unloaded

LEMMA StartKeeps ==
  ASSUME BuildInv, Start
  PROVE  BuildInv'
BY DEF Start, BuildInv, Typed, Building, FollowsTheConfiguration, NothingReadYet,
   SourceIsRead, TexturesAreRead, PageIsRendered, PublicIsRead, ArtifactIsThere, Rest, PlanIn

\* The configuration stays what it was while a step reads something else.
LEMMA ConfigurationStays ==
  ASSUME BuildInv, pc \in Building, NEW role \in Roles \ {"config"}, NEW path,
         read' = Adding(read, Input(role, path), files[path]),
         UNCHANGED <<request, plan>>
  PROVE  FollowsTheConfiguration'
<1>1. Input("config", ConfigPath) \in DOMAIN read \ {Input(role, path)}
  BY InputsDiffer DEF BuildInv, FollowsTheConfiguration
<1>2. ConfigRead(read') = ConfigRead(read)
  BY <1>1, ReadKeeps DEF ConfigRead, Reading
<1> QED
  BY <1>1, <1>2, ReadKeeps DEF BuildInv, FollowsTheConfiguration, PlanIn

\* So do the program and the textures, when it reads neither.
LEMMA ProgramStays ==
  ASSUME BuildInv, pc \in Building \ {"source"},
         NEW role \in Roles \ {"config", "source", "texture"}, NEW path,
         read' = Adding(read, Input(role, path), files[path]),
         UNCHANGED <<request, plan>>
  PROVE  /\ SourceIsRead'
         /\ SourceRead(read', plan) = SourceRead(read, plan)
         /\ \A t : Input("texture", t) \in DOMAIN read' <=> Input("texture", t) \in DOMAIN read
<1>1. Input("source", plan.source) \in DOMAIN read \ {Input(role, path)}
  BY InputsDiffer DEF BuildInv, SourceIsRead
<1>2. SourceRead(read', plan) = SourceRead(read, plan)
  BY <1>1, ReadKeeps DEF SourceRead, Reading
<1>3. \A t : Input("texture", t) \in DOMAIN read' <=> Input("texture", t) \in DOMAIN read
  <2>1. \A t : Input("texture", t) # Input(role, path)
    BY DEF Input, Roles
  <2>2. DOMAIN read' = DOMAIN read \cup {Input(role, path)}
    BY ReadKeeps
  <2> QED
    BY <2>1, <2>2
<1>4. ASSUME NEW t \in Textures(read, plan), Input("texture", t) \in DOMAIN read
      PROVE  TextureReads(read', t)
  <2>1. TextureReads(read, t)
    BY <1>4 DEF BuildInv, SourceIsRead
  <2>2. TextureRead(read', t) = TextureRead(read, t)
    <3>1. Input("texture", t) \in DOMAIN read \ {Input(role, path)}
      BY <1>4 DEF Input, Roles
    <3> QED
      BY <3>1, ReadKeeps DEF TextureRead, Reading
  <2> QED
    BY <2>1, <2>2 DEF TextureReads
<1>5. SourceIsRead'
  BY <1>1, <1>2, <1>3, <1>4, ReadKeeps DEF BuildInv, SourceIsRead, Compiles, Textures
<1> QED
  BY <1>2, <1>3, <1>5

LEMMA LoadSourceKeeps ==
  ASSUME BuildInv, LoadSource
  PROVE  BuildInv'
<1>1. /\ read' = Adding(read, Input("source", plan.source), files[plan.source])
      /\ pc = "source" /\ pc' \in {"textures", "failed"}
      /\ UNCHANGED <<files, request, plan, outputs>>
  BY DEF LoadSource, ReadInto
<1>2. pc' = "textures" => Compiles(read', plan)
  BY DEF LoadSource, ReadInto
<1>3. DOMAIN read' = {Input("config", ConfigPath), Input("source", plan.source)}
  BY <1>1, ReadKeeps DEF BuildInv, NothingReadYet
<1>4. FollowsTheConfiguration'
  BY <1>1, ConfigurationStays DEF Building, Roles
<1>5. pc' = "textures" => SourceIsRead'
  BY <1>1, <1>2, <1>3, InputsDiffer DEF SourceIsRead
<1>6. Typed'
  BY <1>1 DEF BuildInv, Typed
<1> QED
  BY <1>1, <1>4, <1>5, <1>6, FailureKeeps DEF BuildInv, Building, NothingReadYet,
     TexturesAreRead, PageIsRendered, PublicIsRead, ArtifactIsThere, Rest

LEMMA LoadTextureKeeps ==
  ASSUME BuildInv, LoadTexture
  PROVE  BuildInv'
<1>1. PICK t \in Unloaded :
        /\ read' = Adding(read, Input("texture", t), files[t])
        /\ pc' \in {"textures", "failed"}
        /\ pc' = "textures" => TextureReads(read', t)
  BY DEF LoadTexture, ReadInto
<1>2. pc = "textures" /\ UNCHANGED <<files, request, plan, outputs>>
  BY DEF LoadTexture, ReadInto
<1>3. FollowsTheConfiguration'
  BY <1>1, <1>2, ConfigurationStays DEF Building, Roles
<1>4. Input("source", plan.source) \in DOMAIN read \ {Input("texture", t)}
  BY <1>2, InputsDiffer DEF BuildInv, SourceIsRead, Building
<1>5. SourceRead(read', plan) = SourceRead(read, plan)
  BY <1>1, <1>4, ReadKeeps DEF SourceRead, Reading
<1>6. ASSUME NEW u \in Textures(read, plan), Input("texture", u) \in DOMAIN read', u # t
      PROVE  TextureReads(read', u)
  <2>1. Input("texture", u) \in DOMAIN read \ {Input("texture", t)}
    <3>1. Input("texture", u) # Input("texture", t)
      BY <1>6 DEF Input
    <3>2. DOMAIN read' = DOMAIN read \cup {Input("texture", t)}
      BY <1>1, ReadKeeps
    <3> QED
      BY <1>6, <3>1, <3>2
  <2>2. TextureRead(read', u) = TextureRead(read, u)
    BY <1>1, <2>1, ReadKeeps DEF TextureRead, Reading
  <2>3. TextureReads(read, u)
    BY <1>2, <1>6, <2>1 DEF BuildInv, SourceIsRead, Building
  <2> QED
    BY <2>2, <2>3 DEF TextureReads
<1>7. pc' = "textures" => SourceIsRead'
  BY <1>1, <1>2, <1>4, <1>5, <1>6, ReadKeeps
     DEF BuildInv, SourceIsRead, Building, Compiles, Textures
<1>8. Typed'
  BY <1>2 DEF BuildInv, Typed
<1> QED
  BY <1>1, <1>2, <1>3, <1>7, <1>8, FailureKeeps DEF BuildInv, Building, NothingReadYet,
     TexturesAreRead, PageIsRendered, PublicIsRead, ArtifactIsThere, Rest

LEMMA TexturesLoadedKeeps ==
  ASSUME BuildInv, TexturesLoaded
  PROVE  BuildInv'
<1>1. /\ pc = "textures" /\ pc' \in {"page", "failed"}
      /\ Unloaded = {}
      /\ pc' = "page" => Separate(plan, Textures(read, plan))
      /\ UNCHANGED <<files, request, plan, read, outputs>>
  BY DEF TexturesLoaded, GoTo
<1>2. Typed'
  BY <1>1 DEF BuildInv, Typed
<1>3. FollowsTheConfiguration' /\ SourceIsRead'
  BY <1>1 DEF BuildInv, FollowsTheConfiguration, SourceIsRead, Building, PlanIn
<1>4. pc' = "page" => TexturesAreRead'
  BY <1>1 DEF TexturesAreRead, Unloaded
<1> QED
  BY <1>1, <1>2, <1>3, <1>4, FailureKeeps DEF BuildInv, Building, NothingReadYet,
     PageIsRendered, PublicIsRead, ArtifactIsThere, Rest

LEMMA RenderPageKeeps ==
  ASSUME BuildInv, RenderPage
  PROVE  BuildInv'
<1>1. CASE plan.template = Unset
  <2>1. /\ pc = "page" /\ pc' = "public"
        /\ UNCHANGED <<files, request, plan, read, outputs>>
    BY <1>1 DEF RenderPage, GoTo
  <2> QED
    BY <1>1, <2>1 DEF BuildInv, Typed, Building, FollowsTheConfiguration, NothingReadYet,
       SourceIsRead, TexturesAreRead, PageIsRendered, PublicIsRead, ArtifactIsThere, Rest,
       PlanIn, Unloaded, PageRenders
<1>2. CASE plan.template # Unset
  <2>1. /\ read' = Adding(read, Input("template", plan.template), files[plan.template])
        /\ pc = "page" /\ pc' \in {"public", "failed"}
        /\ pc' = "public" => PageRenders(read', plan)
        /\ UNCHANGED <<files, request, plan, outputs>>
    BY <1>2 DEF RenderPage, ReadInto
  <2>2. Typed'
    BY <2>1 DEF BuildInv, Typed
  <2>3. FollowsTheConfiguration'
    BY <2>1, ConfigurationStays DEF Building, Roles
  <2>4. /\ SourceIsRead'
        /\ Textures(read', plan) = Textures(read, plan)
        /\ Unloaded' = Unloaded
    BY <2>1, ProgramStays DEF Building, Roles, Textures, Unloaded
  <2>5. TexturesAreRead'
    BY <2>1, <2>4 DEF BuildInv, TexturesAreRead, Building
  <2>6. pc' = "public" => PageIsRendered'
    <3>1. DOMAIN read' = DOMAIN read \cup {Input("template", plan.template)}
      BY <2>1, ReadKeeps
    <3> QED
      BY <2>1, <3>1 DEF PageIsRendered
  <2> QED
    BY <2>1, <2>2, <2>3, <2>4, <2>5, <2>6, FailureKeeps DEF BuildInv, Building,
       NothingReadYet, PublicIsRead, ArtifactIsThere, Rest
<1> QED
  BY <1>1, <1>2

LEMMA ReadPublicKeeps ==
  ASSUME BuildInv, ReadPublic
  PROVE  BuildInv'
<1>1. CASE plan.public = Unset
  <2>1. /\ pc = "public" /\ pc' = "publish"
        /\ UNCHANGED <<files, request, plan, read, outputs>>
    BY <1>1 DEF ReadPublic, GoTo
  <2> QED
    BY <1>1, <2>1 DEF BuildInv, Typed, Building, FollowsTheConfiguration, NothingReadYet,
       SourceIsRead, TexturesAreRead, PageIsRendered, PublicIsRead, ArtifactIsThere, Rest,
       PlanIn, Unloaded, PublicReads
<1>2. CASE plan.public # Unset
  <2>1. /\ read' = Adding(read, Input("public", plan.public), files[plan.public])
        /\ pc = "public" /\ pc' \in {"publish", "failed"}
        /\ pc' = "publish" => PublicReads(read', plan)
        /\ UNCHANGED <<files, request, plan, outputs>>
    BY <1>2 DEF ReadPublic, ReadInto
  <2>2. Typed'
    BY <2>1 DEF BuildInv, Typed
  <2>3. FollowsTheConfiguration'
    BY <2>1, ConfigurationStays DEF Building, Roles
  <2>4. /\ SourceIsRead'
        /\ Textures(read', plan) = Textures(read, plan)
        /\ Unloaded' = Unloaded
    BY <2>1, ProgramStays DEF Building, Roles, Textures, Unloaded
  <2>5. TexturesAreRead'
    BY <2>1, <2>4 DEF BuildInv, TexturesAreRead, Building
  <2>6. PageIsRendered'
    <3>1. plan.template # Unset =>
            Input("template", plan.template)
              \in DOMAIN read \ {Input("public", plan.public)}
      BY <2>1, InputsDiffer DEF BuildInv, PageIsRendered
    <3>2. plan.template # Unset => TemplateRead(read', plan) = TemplateRead(read, plan)
      BY <2>1, <3>1, ReadKeeps DEF TemplateRead, Reading
    <3> QED
      BY <2>1, <3>1, <3>2, ReadKeeps DEF BuildInv, PageIsRendered, PageRenders
  <2>7. pc' = "publish" => PublicIsRead'
    <3>1. DOMAIN read' = DOMAIN read \cup {Input("public", plan.public)}
      BY <2>1, ReadKeeps
    <3> QED
      BY <2>1, <3>1 DEF PublicIsRead
  <2> QED
    BY <2>1, <2>2, <2>3, <2>4, <2>5, <2>6, <2>7, FailureKeeps DEF BuildInv, Building,
       NothingReadYet, ArtifactIsThere, Rest
<1> QED
  BY <1>1, <1>2

LEMMA PublishArtifactKeeps ==
  ASSUME BuildInv, PublishArtifact
  PROVE  BuildInv'
<1>1. /\ pc = "publish" /\ pc' \in {"built", "failed"}
      /\ UNCHANGED <<files, request, plan, read>>
  BY DEF PublishArtifact
<1>2. Typed'
  BY <1>1 DEF BuildInv, Typed, PublishArtifact
<1>3. /\ FollowsTheConfiguration' /\ SourceIsRead' /\ TexturesAreRead'
      /\ PageIsRendered' /\ PublicIsRead'
  BY <1>1 DEF BuildInv, Building, FollowsTheConfiguration, SourceIsRead, TexturesAreRead,
     PageIsRendered, PublicIsRead, PlanIn, Unloaded
<1>4. pc' = "built" => ArtifactIsThere'
  <2>1. plan.output \in DOMAIN outputs
    BY <1>1, OutputAssumption
       DEF BuildInv, Typed, FollowsTheConfiguration, PlanIn, Building
  <2>2. SUFFICES ASSUME pc' = "built" PROVE ArtifactIsThere'
    OBVIOUS
  <2>3. /\ PathsDiffer(read, plan)
        /\ outputs' = [outputs EXCEPT ![plan.output] = Artifact(read, plan)]
    BY <2>2 DEF PublishArtifact
  <2> QED
    BY <1>1, <2>1, <2>3 DEF ArtifactIsThere
<1> QED
  BY <1>1, <1>2, <1>3, <1>4, FailureKeeps DEF BuildInv, Building, NothingReadYet, Rest

\* A finished build has read all its inputs and found them right.
LEMMA FinishedBuild ==
  ASSUME BuildInv, pc = "built"
  PROVE  BuiltFrom(read)
<1>1. /\ Input("config", ConfigPath) \in DOMAIN read
      /\ ConfigRead(read) \in Configurations
      /\ Resolves(request, ConfigRead(read))
      /\ plan = PlanIn(read)
  BY DEF BuildInv, Building, FollowsTheConfiguration
<1>2. /\ Input("source", plan.source) \in DOMAIN read
      /\ Compiles(read, plan)
      /\ \A t \in Textures(read, plan) :
           Input("texture", t) \in DOMAIN read => TextureReads(read, t)
  BY DEF BuildInv, Building, SourceIsRead
<1>3. /\ \A t \in Textures(read, plan) : Input("texture", t) \in DOMAIN read
      /\ Separate(plan, Textures(read, plan))
  BY DEF BuildInv, Building, TexturesAreRead, Unloaded
<1>4. /\ PageRenders(read, plan)
      /\ plan.template # Unset => Input("template", plan.template) \in DOMAIN read
      /\ PublicReads(read, plan)
      /\ plan.public # Unset => Input("public", plan.public) \in DOMAIN read
      /\ PathsDiffer(read, plan) /\ outputs[plan.output] = Artifact(read, plan)
  BY DEF BuildInv, PageIsRendered, PublicIsRead, ArtifactIsThere
<1>5. AllRight(read, plan)
  BY <1>2, <1>3, <1>4 DEF AllRight
<1>6. Inputs(plan, Textures(read, plan)) \subseteq DOMAIN read
  BY <1>1, <1>2, <1>3, <1>4 DEF Inputs, Optional
<1> QED
  BY <1>1, <1>4, <1>5, <1>6 DEF BuiltFrom

LEMMA BuiltKeeps ==
  ASSUME BuildInv, Built
  PROVE  BuildInv'
<1>1. /\ pc = "built" /\ pc' = "idle" /\ built' = read /\ failed' = FALSE
      /\ watched' = PathsOf(DOMAIN read)
      /\ UNCHANGED <<files, request, outputs>>
  BY DEF Built, Settle
<1>2. BuiltFrom(read)
  BY <1>1, FinishedBuild
<1>3. Rest'
  BY <1>1, <1>2 DEF Rest, BuiltFrom, PlanIn
<1> QED
  BY <1>1, <1>3 DEF BuildInv, Typed, Building, FollowsTheConfiguration, NothingReadYet,
     SourceIsRead, TexturesAreRead, PageIsRendered, PublicIsRead, ArtifactIsThere

LEMMA BuildFailsKeeps ==
  ASSUME BuildInv, BuildFails
  PROVE  BuildInv'
BY DEF BuildFails, Settle, BuildInv, Typed, Building, FollowsTheConfiguration,
   NothingReadYet, SourceIsRead, TexturesAreRead, PageIsRendered, PublicIsRead,
   ArtifactIsThere, Rest

LEMMA LookKeeps ==
  ASSUME BuildInv, Look
  PROVE  BuildInv'
BY DEF Look, BuildInv, Typed, Building, FollowsTheConfiguration, NothingReadYet,
   SourceIsRead, TexturesAreRead, PageIsRendered, PublicIsRead, ArtifactIsThere, Rest

LEMMA ResolveKeeps ==
  ASSUME BuildInv, Resolve
  PROVE  BuildInv'
<1>1. Typed'
  BY DEF Resolve, BuildInv, Typed
<1>2. CASE Resolves(request, files[ConfigPath])
  <2>1. /\ plan' = PlanOf(request, files[ConfigPath])
        /\ read' = Only(Input("config", ConfigPath), files[ConfigPath])
        /\ pc' = "source"
        /\ UNCHANGED <<files, request>>
    BY <1>2 DEF Resolve
  <2>2. /\ DOMAIN read' = {Input("config", ConfigPath)}
        /\ ConfigRead(read') = files[ConfigPath]
    BY <2>1 DEF Only, ConfigRead, Reading
  <2>3. FollowsTheConfiguration' /\ NothingReadYet'
    BY <1>2, <2>1, <2>2
       DEF FollowsTheConfiguration, NothingReadYet, PlanIn, BuildInv, Typed
  <2> QED
    BY <1>1, <2>1, <2>3 DEF BuildInv, Building, SourceIsRead, TexturesAreRead,
       PageIsRendered, PublicIsRead, ArtifactIsThere, Rest
<1>3. CASE ~Resolves(request, files[ConfigPath])
  BY <1>1, <1>3 DEF Resolve, BuildInv, Building, FollowsTheConfiguration, NothingReadYet,
     SourceIsRead, TexturesAreRead, PageIsRendered, PublicIsRead, ArtifactIsThere, Rest
<1> QED
  BY <1>2, <1>3

LEMMA NextBuild == BuildInv /\ [Next]_vars => BuildInv'
<1> SUFFICES ASSUME BuildInv, [Next]_vars PROVE BuildInv'
  OBVIOUS
<1>1. CASE UNCHANGED vars
  BY <1>1 DEF vars, BuildInv, Typed, FollowsTheConfiguration, NothingReadYet, SourceIsRead,
     TexturesAreRead, PageIsRendered, PublicIsRead, ArtifactIsThere, Rest, PlanIn, BuiltFrom,
     Unloaded
<1>2. CASE Save
  BY <1>2, SaveKeeps
<1>3. CASE Watch
  BY <1>3, StartKeeps, LoadSourceKeeps, LoadTextureKeeps, TexturesLoadedKeeps,
     RenderPageKeeps, ReadPublicKeeps, PublishArtifactKeeps, BuiltKeeps, BuildFailsKeeps,
     LookKeeps, ResolveKeeps DEF Watch
<1> QED
  BY <1>1, <1>2, <1>3 DEF Next, Sleep

\* A watcher at rest has missed nothing but what SavedDuringBuild says.
LEMMA RestMissesNothing == BuildInv => NothingMissed
<1> SUFFICES ASSUME BuildInv, pc = "idle", ~failed, FingerprintOf(watched) = fingerprint,
                    ~SavedDuringBuild
             PROVE  UpToDate
  BY DEF NothingMissed
<1> DEFINE p == PlanIn(built)
           textures == Textures(built, p)
<1>1. BuiltFrom(built) /\ watched = PathsOf(DOMAIN built)
  BY DEF BuildInv, Rest
<1>2. fingerprint = [q \in watched |-> files[q]]
  BY DEF FingerprintOf, SavedDuringBuild
<1>3. ASSUME NEW i \in DOMAIN built
      PROVE  built[i] = files[i.path]
  <2>1. i.path \in watched
    BY <1>1, <1>3 DEF PathsOf
  <2> QED
    BY <1>2, <1>3, <2>1 DEF SavedDuringBuild
<1>4. ASSUME NEW i \in Inputs(p, textures)
      PROVE  built[i] = files[i.path]
  BY <1>1, <1>3, <1>4 DEF BuiltFrom
<1>5. /\ ConfigRead(built) = files[ConfigPath]
      /\ SourceRead(built, p) = files[p.source]
  BY <1>4 DEF Inputs, Input, ConfigRead, SourceRead, Reading
<1>6. CurrentPlan = p
  BY <1>5 DEF CurrentPlan, PlanIn
<1>7. textures = IF files[p.source].kind = "program" THEN files[p.source].textures ELSE {}
  BY <1>1, <1>5 DEF BuiltFrom, AllRight, Compiles, Textures
<1>8. ASSUME NEW i \in Inputs(p, textures)
      PROVE  Now(p)[i] = built[i]
  <2>1. i \in [as : Roles, path : ConfiguredPaths(p) \cup textures]
    BY <1>8 DEF Inputs, Input, Roles, ConfiguredPaths, Optional
  <2> HIDE DEF p, textures
  <2>2. Now(p) = [j \in [as : Roles, path : ConfiguredPaths(p) \cup textures] |-> files[j.path]]
    BY <1>7 DEF Now
  <2> QED
    BY <1>4, <1>8, <2>1, <2>2
<1>9. /\ AllRight(built, p) = AllRight(Now(p), p)
      /\ Artifact(built, p) = Artifact(Now(p), p)
  BY <1>8, SameInputs
<1> QED
  BY <1>1, <1>5, <1>6, <1>9 DEF UpToDate, Buildable, BuiltFrom

\* Whatever is saved, whenever, and whatever the configuration becomes: when the
\* watcher rests, its output is that of the files as they are (watch_build). That
\* it does come to rest is left to TLC (EventuallyUpToDate).
THEOREM TheWatcherMissesNothing == Spec => []NothingMissed
<1>1. Init => BuildInv
  BY InitBuild
<1>2. BuildInv /\ [Next]_vars => BuildInv'
  BY NextBuild
<1>3. BuildInv => NothingMissed
  BY RestMissesNothing
<1> QED
  BY <1>1, <1>2, <1>3, PTL DEF Spec
=============================================================================
