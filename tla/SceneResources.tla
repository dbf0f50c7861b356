--------------------------- MODULE SceneResources ---------------------------
(***************************************************************************)
(* The resources of the retained scene (runtime/src/scene.ts): meshes,     *)
(* nodes and textures, who refers to what, the WebGL objects they hold,    *)
(* the loading of images, and the wait for those that setup has asked for. *)
(*                                                                         *)
(* JavaScript runs one callback at a time.  Between two of them the        *)
(* program calls the scene, an image arrives or fails, or the session ends.*)
(* A call that the scene refuses throws before it has changed anything, so *)
(* it is no step.                                                          *)
(***************************************************************************)
EXTENDS Integers, FiniteSets

CONSTANTS
    Meshes, Nodes, Textures,    \* handles; each is given out once
    Basic, Shaders,             \* the basic material, materials with a shader
    Uniforms,                   \* of these shaders, that take a texture
    Keys,                       \* a path with its options
    MeshSizes, ImageSizes,      \* in bytes
    MaxMeshes, MaxMeshBytes, MaxNodes, MaxTextures, MaxTextureBytes, \* resourceLimits
    MaxImage,                   \* the largest image the hardware and the limits allow
    Placeholder,                \* textureFailurePolicy is "placeholder"
    None, Default, Unknown      \* no handle, the default vertex array, not cached

Materials == Shaders \cup {Basic}

ASSUME SizesAssumption == MeshSizes \subseteq Nat /\ ImageSizes \subseteq Nat
ASSUME LimitsAssumption == MaxMeshBytes \in Nat /\ MaxTextureBytes \in Nat
ASSUME FiniteAssumption == IsFiniteSet(Nodes) /\ IsFiniteSet(Uniforms)
ASSUME NamesAssumption ==
    /\ Meshes \cap Nodes = {} /\ Meshes \cap Textures = {} /\ Nodes \cap Textures = {}
    /\ None \notin Meshes \cup Textures /\ \A shown \in SUBSET Nodes : shown # None
    /\ Unknown \notin Meshes /\ Default # Unknown
    /\ \A m \in Meshes, x \in Materials : <<m, x>> # Default /\ <<m, x>> # Unknown

VARIABLES
    phase,      \* of the session
    mesh,       \* bytes of the meshes that exist
    node,       \* mesh, material and textures of the nodes in the scene
    textures,   \* [Keys -> Textures \cup {None}]
    texture,    \* what has become of every texture that was requested
    refs,       \* how often nodes refer to a mesh or a texture
    meshBytes, textureBytes,
    used,       \* handles that have been given out
    pendingSetupAssets, \* loads that nobody waits for yet
    awaited,    \* loads that awaitSetupAssets waits for
    gl,         \* the objects that exist in the context
    arrays,     \* the index buffer each vertex array holds
    cache,      \* the vertex array and the index buffer bound, in WebGLStateCache
    drawing     \* nodes still to draw in this frame, or None

vars == <<phase, mesh, node, textures, texture, refs, meshBytes, textureBytes, used,
          pendingSetupAssets, awaited, gl, arrays, cache, drawing>>

meshes == DOMAIN mesh
nodes == DOMAIN node
Live(t) == t \in DOMAIN texture /\ textures[texture[t].key] = t /\ ~texture[t].disposed
Loaded == {t \in Textures : Live(t)}

\* A callback of the program runs and the scene has not been disposed.
Active == phase # "ended" /\ drawing = None
startupPhase == phase \in {"setup", "awaiting"}

VertexArrays(m) == {v \in DOMAIN arrays \ {Default} : v[1] = m}
Buffers(m) == {<<"vertices", m>>, <<"indices", m>>}
MeshObjects(m) == Buffers(m) \cup {<<"array", v>> : v \in VertexArrays(m)}
SceneObjects ==
    (UNION {MeshObjects(m) : m \in meshes}) \cup {<<"texture", t>> : t \in Loaded}

With(f, x, value) == [y \in DOMAIN f \cup {x} |-> IF y = x THEN value ELSE f[y]]
Without(f, x) == [y \in DOMAIN f \ {x} |-> f[y]]

-----------------------------------------------------------------------------
(* webgl-state.ts: the index buffer is part of the vertex array. *)

\* Mutant of Bound: the index buffer is thought to stay.
BoundKeeping(v) == [cache EXCEPT !.array = v]

\* The cache after `bindVertexArray`.
Bound(v) == IF cache.array = v THEN cache ELSE [array |-> v, indices |-> Unknown]

\* The vertex arrays after `bindVertexArray` and `bindElementArrayBuffer`.
WithIndices(v, m) ==
    LET held == IF v \in DOMAIN arrays THEN arrays[v] ELSE None
    IN  With(arrays, v, IF Bound(v).indices = m THEN held ELSE m)

-----------------------------------------------------------------------------
(* Meshes and nodes *)

CreateMesh(m, bytes) ==
    /\ Active
    /\ m \notin used
    /\ Cardinality(meshes) < MaxMeshes
    /\ meshBytes + bytes <= MaxMeshBytes
    /\ mesh' = With(mesh, m, bytes)
    /\ meshBytes' = meshBytes + bytes
    /\ used' = used \cup {m}
    /\ gl' = gl \cup Buffers(m)
    /\ arrays' = WithIndices(Default, m)
    /\ cache' = [array |-> Default, indices |-> m]
    /\ UNCHANGED <<phase, node, textures, texture, refs, textureBytes,
                   pendingSetupAssets, awaited, drawing>>

MeshDispose(m) ==
    /\ Active
    /\ m \in meshes
    /\ refs[m] = 0
    /\ mesh' = Without(mesh, m)
    /\ meshBytes' = meshBytes - mesh[m]
    /\ gl' = gl \ MeshObjects(m)
    /\ arrays' = [v \in DOMAIN arrays \ VertexArrays(m) |-> arrays[v]]
    /\ UNCHANGED <<phase, node, textures, texture, refs, textureBytes, used,
                   pendingSetupAssets, awaited, cache, drawing>>

NodeAdd(n, m, material) ==
    /\ Active
    /\ n \notin used
    /\ m \in meshes
    /\ Cardinality(nodes) < MaxNodes
    /\ node' = With(node, n, [mesh |-> m, material |-> material,
                              textures |-> [u \in Uniforms |-> None]])
    /\ refs' = [refs EXCEPT ![m] = @ + 1]
    /\ used' = used \cup {n}
    /\ UNCHANGED <<phase, mesh, textures, texture, meshBytes, textureBytes,
                   pendingSetupAssets, awaited, gl, arrays, cache, drawing>>

\* How often a node refers to a texture.
References(n, t) == Cardinality({u \in Uniforms : node[n].textures[u] = t})

\* Mutant of NodeRemove: its textures stay referred to.
NodeRemoveLightly(n) ==
    /\ Active
    /\ n \in nodes
    /\ node' = Without(node, n)
    /\ refs' = [refs EXCEPT ![node[n].mesh] = @ - 1]
    /\ UNCHANGED <<phase, mesh, textures, texture, meshBytes, textureBytes, used,
                   pendingSetupAssets, awaited, gl, arrays, cache, drawing>>

NodeRemove(n) ==
    /\ Active
    /\ n \in nodes
    /\ node' = Without(node, n)
    /\ refs' = [r \in DOMAIN refs |->
                    refs[r] - (IF r = node[n].mesh THEN 1 ELSE 0)
                            - (IF r \in Textures THEN References(n, r) ELSE 0)]
    /\ UNCHANGED <<phase, mesh, textures, texture, meshBytes, textureBytes, used,
                   pendingSetupAssets, awaited, gl, arrays, cache, drawing>>

\* `value` is a texture, or None for a value of another type.
ShaderSet(n, uniform, value) ==
    /\ Active
    /\ n \in nodes
    /\ node[n].material \in Shaders
    /\ value # None => Live(value)
    /\ LET previous == node[n].textures[uniform]
       IN  /\ previous # value
           /\ refs' = [r \in DOMAIN refs |->
                           refs[r] - (IF r = previous THEN 1 ELSE 0)
                                   + (IF r = value THEN 1 ELSE 0)]
    /\ node' = [node EXCEPT ![n].textures[uniform] = value]
    /\ UNCHANGED <<phase, mesh, textures, texture, meshBytes, textureBytes, used,
                   pendingSetupAssets, awaited, gl, arrays, cache, drawing>>

-----------------------------------------------------------------------------
(* Textures *)

\* A key that is in the table already has its handle: nothing changes.
TextureLoad(t, key) ==
    /\ Active
    /\ t \notin used
    /\ textures[key] = None
    /\ Cardinality(Loaded) < MaxTextures
    /\ textures' = [textures EXCEPT ![key] = t]
    /\ texture' = With(texture, t,
                       [key |-> key, bytes |-> 0, loaded |-> FALSE, disposed |-> FALSE,
                        load |-> "started", early |-> startupPhase])
    /\ used' = used \cup {t}
    /\ gl' = gl \cup {<<"texture", t>>}
    /\ pendingSetupAssets' = IF startupPhase THEN pendingSetupAssets \cup {t}
                             ELSE pendingSetupAssets
    /\ UNCHANGED <<phase, mesh, node, refs, meshBytes, textureBytes, awaited,
                   arrays, cache, drawing>>

TextureDispose(t) ==
    /\ Active
    /\ Live(t)
    /\ refs[t] = 0
    /\ texture' = [texture EXCEPT ![t].disposed = TRUE]
    /\ textures' = [textures EXCEPT ![texture[t].key] = None]
    /\ textureBytes' = textureBytes - texture[t].bytes
    /\ gl' = gl \ {<<"texture", t>>}
    /\ UNCHANGED <<phase, mesh, node, refs, meshBytes, used,
                   pendingSetupAssets, awaited, arrays, cache, drawing>>

\* `loadTexture` goes on with an image or without one (bytes = None).
Settle(t, outcome) == texture' = [texture EXCEPT ![t].load = outcome]

\* Mutant of ImageArrives: the texture is not looked at again.
ImageArrivesAnyway(t, bytes) ==
    /\ drawing = None
    /\ t \in DOMAIN texture
    /\ texture[t].load = "started"
    /\ IF bytes > MaxImage \/ textureBytes + bytes > MaxTextureBytes
       THEN Settle(t, "failed") /\ UNCHANGED textureBytes
       ELSE /\ texture' = [texture EXCEPT ![t].load = "done", ![t].loaded = TRUE,
                                          ![t].bytes = bytes]
            /\ textureBytes' = textureBytes + bytes
    /\ UNCHANGED <<phase, mesh, node, textures, refs, meshBytes, used,
                   pendingSetupAssets, awaited, gl, arrays, cache, drawing>>

ImageArrives(t, bytes) ==
    /\ drawing = None
    /\ t \in DOMAIN texture
    /\ texture[t].load = "started"
    /\ \/ /\ phase = "ended" \/ ~Live(t)
          /\ Settle(t, "done")
          /\ UNCHANGED textureBytes
       \/ /\ phase # "ended" /\ Live(t)
          /\ bytes > MaxImage \/ textureBytes + bytes > MaxTextureBytes
          /\ Settle(t, "failed")
          /\ UNCHANGED textureBytes
       \/ /\ phase # "ended" /\ Live(t)
          /\ bytes <= MaxImage /\ textureBytes + bytes <= MaxTextureBytes
          /\ texture' = [texture EXCEPT ![t].load = "done", ![t].loaded = TRUE,
                                        ![t].bytes = bytes]
          /\ textureBytes' = textureBytes + bytes
    /\ UNCHANGED <<phase, mesh, node, textures, refs, meshBytes, used,
                   pendingSetupAssets, awaited, gl, arrays, cache, drawing>>

ImageFails(t) ==
    /\ drawing = None
    /\ t \in DOMAIN texture
    /\ texture[t].load = "started"
    /\ Settle(t, IF phase = "ended" \/ ~Live(t) \/ Placeholder THEN "done" ELSE "failed")
    /\ UNCHANGED <<phase, mesh, node, textures, refs, meshBytes, textureBytes, used,
                   pendingSetupAssets, awaited, gl, arrays, cache, drawing>>

-----------------------------------------------------------------------------
(* The session: setup, the wait for its images, frames, the end *)

Dispose ==
    /\ phase' = "ended"
    /\ gl' = gl \ (SceneObjects \cup {<<"program">>})
    /\ texture' = [t \in DOMAIN texture |->
                       [texture[t] EXCEPT !.disposed = @ \/ Live(t)]]
    /\ mesh' = <<>> /\ node' = <<>>
    /\ textures' = [k \in Keys |-> None]
    /\ pendingSetupAssets' = {}
    /\ textureBytes' = 0
    /\ awaited' = {}
    /\ drawing' = None
    /\ UNCHANGED <<refs, meshBytes, used, arrays, cache>>

\* `stop`, or `fail` after an exception in a callback or in the middle of a frame.
Stop == phase # "ended" /\ Dispose

SetupEnds ==
    /\ phase = "setup"
    /\ phase' = "awaiting"
    /\ UNCHANGED <<mesh, node, textures, texture, refs, meshBytes, textureBytes, used,
                   pendingSetupAssets, awaited, gl, arrays, cache, drawing>>

\* Mutant of AwaitSetupAssets: what is requested during the wait is not waited for.
AwaitSetupAssetsOnce ==
    /\ phase = "awaiting"
    /\ \A t \in awaited : texture[t].load = "done"
    /\ IF awaited = {} /\ pendingSetupAssets # {}
       THEN awaited' = pendingSetupAssets /\ UNCHANGED phase
       ELSE awaited' = {} /\ phase' = "running"
    /\ pendingSetupAssets' = {}
    /\ UNCHANGED <<mesh, node, textures, texture, refs, meshBytes, textureBytes, used,
                   gl, arrays, cache, drawing>>

\* A turn of the loop in `awaitSetupAssets`; what follows it in `run`.
AwaitSetupAssets ==
    /\ phase = "awaiting"
    /\ \A t \in awaited : texture[t].load = "done"
    /\ awaited' = pendingSetupAssets
    /\ pendingSetupAssets' = {}
    /\ phase' = IF pendingSetupAssets = {} THEN "running" ELSE phase
    /\ UNCHANGED <<mesh, node, textures, texture, refs, meshBytes, textureBytes, used,
                   gl, arrays, cache, drawing>>

\* A load that fails rejects the wait, or reaches onAsyncError when no one waits.
LoadError(t) ==
    /\ phase # "ended"
    /\ t \in DOMAIN texture
    /\ texture[t].load = "failed"
    /\ t \in awaited \/ ~texture[t].early
    /\ Dispose

\* Nodes with the basic material may be found to be out of sight.
Render ==
    /\ phase = "running"
    /\ drawing = None
    /\ nodes # {}
    /\ \E culled \in SUBSET {n \in nodes : node[n].material = Basic} :
           drawing' = nodes \ culled
    /\ UNCHANGED <<phase, mesh, node, textures, texture, refs, meshBytes, textureBytes,
                   used, pendingSetupAssets, awaited, gl, arrays, cache>>

\* `drawItem` with `bindBasic` and `bindMesh`.  The materials differ in the
\* layout of their attributes.
DrawItem(n) ==
    /\ drawing # None
    /\ n \in drawing
    /\ drawing' = drawing \ {n}
    /\ LET m == node[n].mesh
           v == <<m, node[n].material>>
           program == IF node[n].material = Basic THEN {<<"program">>} ELSE {}
       IN  IF v \in VertexArrays(m)
           THEN /\ cache' = Bound(v)
                /\ gl' = gl \cup program
                /\ UNCHANGED arrays
           ELSE /\ cache' = [array |-> v, indices |-> m]
                /\ gl' = gl \cup program \cup {<<"array", v>>}
                /\ arrays' = WithIndices(v, m)
    /\ UNCHANGED <<phase, mesh, node, textures, texture, refs, meshBytes, textureBytes,
                   used, pendingSetupAssets, awaited>>

EndFrame ==
    /\ drawing = {}
    /\ drawing' = None
    /\ cache' = Bound(Default)
    /\ UNCHANGED <<phase, mesh, node, textures, texture, refs, meshBytes, textureBytes,
                   used, pendingSetupAssets, awaited, gl, arrays>>

-----------------------------------------------------------------------------
Init ==
    /\ phase = "setup"
    /\ mesh = <<>> /\ node = <<>> /\ texture = <<>>
    /\ textures = [k \in Keys |-> None]
    /\ refs = [r \in Meshes \cup Textures |-> 0]
    /\ meshBytes = 0 /\ textureBytes = 0
    /\ used = {}
    /\ pendingSetupAssets = {} /\ awaited = {}
    /\ gl = {}
    /\ arrays = [v \in {Default} |-> None]
    /\ cache = [array |-> Unknown, indices |-> Unknown]
    /\ drawing = None

Call ==
    \/ \E m \in Meshes, bytes \in MeshSizes : CreateMesh(m, bytes)
    \/ \E m \in Meshes : MeshDispose(m)
    \/ \E n \in Nodes, m \in Meshes, material \in Materials : NodeAdd(n, m, material)
    \/ \E n \in Nodes : NodeRemove(n)
    \/ \E n \in Nodes, u \in Uniforms, t \in Textures \cup {None} : ShaderSet(n, u, t)
    \/ \E t \in Textures, k \in Keys : TextureLoad(t, k)
    \/ \E t \in Textures : TextureDispose(t)

Image(t) == ImageFails(t) \/ \E bytes \in ImageSizes : ImageArrives(t, bytes)

Next ==
    \/ Call
    \/ \E t \in Textures : Image(t)
    \/ \E t \in Textures : LoadError(t)
    \/ SetupEnds
    \/ AwaitSetupAssets
    \/ Render
    \/ \E n \in Nodes : DrawItem(n)
    \/ EndFrame
    \/ Stop

Spec == Init /\ [][Next]_vars

-----------------------------------------------------------------------------
TypeOK ==
    /\ phase \in {"setup", "awaiting", "running", "ended"}
    /\ mesh \in [meshes -> MeshSizes] /\ meshes \subseteq Meshes
    /\ node \in [nodes -> [mesh : Meshes, material : Materials,
                           textures : [Uniforms -> Textures \cup {None}]]]
    /\ nodes \subseteq Nodes
    /\ texture \in [DOMAIN texture ->
                      [key : Keys, bytes : ImageSizes \cup {0}, loaded : BOOLEAN,
                       disposed : BOOLEAN, load : {"started", "done", "failed"},
                       early : BOOLEAN]]
    /\ DOMAIN texture \subseteq Textures
    /\ textures \in [Keys -> Textures \cup {None}]
    /\ refs \in [Meshes \cup Textures -> Nat]
    /\ meshBytes \in Int /\ textureBytes \in Int
    /\ used \subseteq Meshes \cup Nodes \cup Textures
    /\ pendingSetupAssets \cup awaited \subseteq DOMAIN texture
    /\ drawing = None \/ drawing \subseteq nodes

\* The nodes that refer to a mesh, and where a texture is referred to.
MeshUsers(m) == {n \in nodes : node[n].mesh = m}
TextureUsers(t) == {p \in nodes \X Uniforms : node[p[1]].textures[p[2]] = t}

(* docs/resource-lifecycle.md, 17: nothing a node refers to has been       *)
(* disposed of, because the counts that dispose looks at are right through *)
(* added and removed nodes and changed uniforms.                           *)
ReferencesExact ==
    /\ \A n \in nodes :
           /\ node[n].mesh \in meshes
           /\ \A u \in Uniforms : node[n].textures[u] # None => Live(node[n].textures[u])
    /\ \A m \in meshes : refs[m] = Cardinality(MeshUsers(m))
    /\ \A t \in Loaded : refs[t] = Cardinality(TextureUsers(t))

(* The context holds the objects of what is in the scene and no others:    *)
(* nothing that is in use is deleted and, when the session has ended,      *)
(* nothing is left.                                                        *)
ObjectsExact ==
    /\ gl \ {<<"program">>} = SceneObjects
    /\ phase = "ended" => gl = {}

\* The bytes of things of these sizes, each byte by its owner and its number, and of
\* the textures that are loaded.
Bytes(size) == UNION {{x} \X (1 .. size[x]) : x \in DOMAIN size}
Images == [t \in Loaded |-> texture[t].bytes]

(* What is counted against the limits is what is there, however loads,     *)
(* disposals and reloads of the same image overlap.                        *)
BudgetsKept ==
    /\ textureBytes = Cardinality(Bytes(Images))
    /\ textureBytes <= MaxTextureBytes
    /\ phase # "ended" =>
           meshBytes = Cardinality(Bytes(mesh)) /\ meshBytes <= MaxMeshBytes

(* Counts and objects agree with the scene.                                *)
SceneExact ==
    /\ TypeOK
    /\ ReferencesExact
    /\ ObjectsExact

(* scene.ts, awaitSetupAssets: when the program runs, every texture that   *)
(* was asked for before is there, also one that was asked for while others *)
(* were loading; unless it may be missing or has been disposed of since.   *)
SetupAssetsReady ==
    phase = "running" =>
        \A t \in Loaded : texture[t].early =>
            texture[t].loaded \/ (Placeholder /\ texture[t].load = "done")

(* docs/resource-lifecycle.md, 22: "stop or disposal prevents a late decode *)
(* from uploading."                                                        *)
NoLateUpload ==
    [][\A t \in DOMAIN texture :
           texture'[t].loaded # texture[t].loaded => <<"texture", t>> \in gl]_vars

(* A node is drawn with the vertex array of its own mesh and layout, and   *)
(* that array holds the mesh's index buffer.                               *)
DrawsOwnMesh ==
    [][\A n \in nodes :
           drawing # None /\ drawing' # None /\ n \in drawing \ drawing' =>
               /\ cache'.array = <<node[n].mesh, node[n].material>>
               /\ arrays'[cache'.array] = node[n].mesh]_vars
=============================================================================
