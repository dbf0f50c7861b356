----------------------- MODULE SceneResourcesProofs -----------------------
(***************************************************************************)
(* Proofs about SceneResources: the reference counts, the objects in the   *)
(* context, the wait for the images of setup, the drawing of nodes and the *)
(* limits on bytes.                                                        *)
(*                                                                         *)
(* The counts are right only because handles are not given out twice and   *)
(* an unused one has a count of zero (UsedOK).  The objects need to know   *)
(* whose mesh a vertex array belongs to (ArraysOK), the wait needs to know *)
(* of every load how far it has come (LoadsOK).  Every conjunct needs that *)
(* a scene that has ended is empty (PhaseOK).                              *)
(***************************************************************************)
EXTENDS SceneResources, FiniteSetTheorems, TLAPS

NodeRecord == [mesh : Meshes, material : Materials,
               textures : [Uniforms -> Textures \cup {None}]]
TextureRecord == [key : Keys, bytes : ImageSizes \cup {0}, loaded : BOOLEAN,
                  disposed : BOOLEAN, load : {"started", "done", "failed"},
                  early : BOOLEAN]

\* What has not been given out has no references.
UsedOK ==
  /\ meshes \subseteq used /\ nodes \subseteq used /\ DOMAIN texture \subseteq used
  /\ \A r \in (Meshes \cup Textures) \ used : refs[r] = 0

\* Only a running session draws, and nothing is left of one that has ended.
PhaseOK ==
  /\ drawing # None => phase = "running"
  /\ phase = "ended" => meshes = {} /\ nodes = {} /\ Loaded = {}

\* A vertex array is of a mesh in the scene and holds its indices; the one that is
\* thought to be bound exists if it is of such a mesh.
ArraysOK ==
  /\ Default \in DOMAIN arrays
  /\ phase # "ended" =>
       /\ \A v \in DOMAIN arrays \ {Default} :
            \E m \in meshes, x \in Materials : v = <<m, x>> /\ arrays[v] = m
       /\ \A m \in meshes, x \in Materials :
            cache.array = <<m, x>> => cache.array \in DOMAIN arrays

\* Before the program runs, the texture of a load that is under way is waited for.
LoadsOK ==
  \A t \in DOMAIN texture :
    /\ texture[t].loaded => texture[t].load = "done"
    /\ Live(t) /\ texture[t].load = "done" => texture[t].loaded \/ Placeholder
    /\ startupPhase /\ texture[t].early =>
         texture[t].load = "done" \/ t \in pendingSetupAssets \cup awaited \/ ~Live(t)

\* The inductive invariant.
Inv ==
  /\ TypeOK /\ UsedOK /\ PhaseOK /\ ReferencesExact /\ ObjectsExact
  /\ ArraysOK /\ LoadsOK /\ SetupAssetsReady

USE SizesAssumption, FiniteAssumption, NamesAssumption

----------------------------------------------------------------------------
LEMMA Typed ==
  TypeOK <=>
    /\ phase \in {"setup", "awaiting", "running", "ended"}
    /\ mesh \in [meshes -> MeshSizes] /\ meshes \subseteq Meshes
    /\ node \in [nodes -> NodeRecord] /\ nodes \subseteq Nodes
    /\ texture \in [DOMAIN texture -> TextureRecord] /\ DOMAIN texture \subseteq Textures
    /\ textures \in [Keys -> Textures \cup {None}]
    /\ refs \in [Meshes \cup Textures -> Nat]
    /\ meshBytes \in Int /\ textureBytes \in Int
    /\ used \subseteq Meshes \cup Nodes \cup Textures
    /\ pendingSetupAssets \cup awaited \subseteq DOMAIN texture
    /\ (drawing = None \/ drawing \subseteq nodes)
BY DEF TypeOK, NodeRecord, TextureRecord

LEMMA TypedNext ==
  ASSUME phase' \in {"setup", "awaiting", "running", "ended"},
         mesh' \in [meshes' -> MeshSizes], meshes' \subseteq Meshes,
         node' \in [nodes' -> NodeRecord], nodes' \subseteq Nodes,
         texture' \in [DOMAIN texture' -> TextureRecord], DOMAIN texture' \subseteq Textures,
         textures' \in [Keys -> Textures \cup {None}],
         refs' \in [Meshes \cup Textures -> Nat],
         meshBytes' \in Int, textureBytes' \in Int,
         used' \subseteq Meshes \cup Nodes \cup Textures,
         pendingSetupAssets' \cup awaited' \subseteq DOMAIN texture',
         drawing' = None \/ drawing' \subseteq nodes'
  PROVE  TypeOK'
BY DEF TypeOK, NodeRecord, TextureRecord

\* What a call of the scene does.
LEMMA WithDoes ==
  ASSUME NEW f, NEW x, NEW value
  PROVE  /\ DOMAIN With(f, x, value) = DOMAIN f \cup {x}
         /\ With(f, x, value)[x] = value
         /\ \A y \in DOMAIN f : y # x => With(f, x, value)[y] = f[y]
BY DEF With

LEMMA WithTyped ==
  ASSUME NEW f, NEW x, NEW S, NEW value \in S, f \in [DOMAIN f -> S]
  PROVE  With(f, x, value) \in [DOMAIN f \cup {x} -> S]
BY DEF With

LEMMA WithoutDoes ==
  ASSUME NEW f, NEW x
  PROVE  /\ DOMAIN Without(f, x) = DOMAIN f \ {x}
         /\ \A y \in DOMAIN f : y # x => Without(f, x)[y] = f[y]
BY DEF Without

LEMMA WithoutTyped ==
  ASSUME NEW f, NEW x, NEW S, f \in [DOMAIN f -> S]
  PROVE  Without(f, x) \in [DOMAIN f \ {x} -> S]
BY DEF Without

\* What becomes of textures: they stay, ...
LEMMA LiveStays ==
  ASSUME DOMAIN texture' = DOMAIN texture, textures' = textures,
         \A t \in DOMAIN texture :
           texture'[t].key = texture[t].key /\ texture'[t].disposed = texture[t].disposed
  PROVE  (\A t : Live(t)' <=> Live(t)) /\ Loaded' = Loaded
<1>1. \A t : Live(t)' <=> Live(t)
  BY DEF Live
<1> QED
  BY <1>1 DEF Loaded

LEMMA LiveFacts ==
  ASSUME Inv, NEW t, Live(t)
  PROVE  /\ t \in DOMAIN texture /\ t \in Textures /\ t \in used /\ t # None
         /\ texture[t] \in TextureRecord /\ texture[t].key \in Keys
         /\ textures[texture[t].key] = t /\ ~texture[t].disposed
<1>1. t \in DOMAIN texture /\ t \in Textures /\ t \in used
  BY Typed DEF Live, Inv, UsedOK
<1>2. texture[t] \in TextureRecord
  BY <1>1, Typed DEF Inv
<1>3. texture[t].key \in Keys
  BY <1>2 DEF TextureRecord
<1> QED
  BY <1>1, <1>2, <1>3 DEF Live

\* ... are requested, ...
LEMMA LoadDoes ==
  ASSUME Inv, NEW t \in Textures, NEW k \in Keys, TextureLoad(t, k)
  PROVE  /\ Active /\ t \notin used /\ t \notin DOMAIN texture /\ ~Live(t)
         /\ DOMAIN texture' = DOMAIN texture \cup {t}
         /\ texture'[t] = [key |-> k, bytes |-> 0, loaded |-> FALSE, disposed |-> FALSE,
                           load |-> "started", early |-> startupPhase]
         /\ texture'[t] \in TextureRecord
         /\ texture' \in [DOMAIN texture' -> TextureRecord]
         /\ \A x \in DOMAIN texture : texture'[x] = texture[x]
         /\ textures' \in [Keys -> Textures \cup {None}]
         /\ \A x : Live(x)' <=> Live(x) \/ x = t
<1> DEFINE new == [key |-> k, bytes |-> 0, loaded |-> FALSE, disposed |-> FALSE,
                   load |-> "started", early |-> startupPhase]
<1>1. /\ Active /\ t \notin used /\ t \notin DOMAIN texture /\ textures[k] = None
      /\ texture' = With(texture, t, new) /\ textures' = [textures EXCEPT ![k] = t]
  BY DEF TextureLoad, Inv, UsedOK
<1>2. new \in TextureRecord /\ new.key = k /\ new.disposed = FALSE
  BY DEF TextureRecord, startupPhase
<1>3. /\ DOMAIN texture' = DOMAIN texture \cup {t} /\ texture'[t] = new
      /\ \A x \in DOMAIN texture : texture'[x] = texture[x]
      /\ texture' \in [DOMAIN texture' -> TextureRecord]
  <2> HIDE DEF new
  <2>1. texture \in [DOMAIN texture -> TextureRecord]
    BY Typed DEF Inv
  <2>2. /\ DOMAIN texture' = DOMAIN texture \cup {t} /\ texture'[t] = new
        /\ \A x \in DOMAIN texture : x # t => texture'[x] = texture[x]
    BY <1>1 DEF With
  <2>3. texture' \in [DOMAIN texture \cup {t} -> TextureRecord]
    BY <1>1, <1>2, <2>1, WithTyped
  <2> QED
    BY <1>1, <2>2, <2>3
<1>4. textures \in [Keys -> Textures \cup {None}]
  BY Typed DEF Inv
<1>5. textures'[k] = t /\ \A j \in Keys : j # k => textures'[j] = textures[j]
  BY <1>1, <1>4
<1>6. ASSUME NEW x PROVE Live(x)' <=> Live(x) \/ x = t
  <2>1. CASE x = t
    BY <1>1, <1>2, <1>3, <1>5, <2>1 DEF Live
  <2>2. CASE x # t /\ x \in DOMAIN texture
    <3>1. texture'[x] = texture[x] /\ texture[x].key \in Keys /\ x # None
      BY <1>3, <2>2, Typed DEF Inv, TextureRecord
    <3>2. CASE texture[x].key = k
      BY <1>1, <1>5, <2>2, <3>1, <3>2 DEF Live
    <3>3. CASE texture[x].key # k
      BY <1>3, <1>5, <2>2, <3>1, <3>3 DEF Live
    <3> QED
      BY <3>2, <3>3
  <2>3. CASE x # t /\ x \notin DOMAIN texture
    BY <1>3, <2>3 DEF Live
  <2> QED
    BY <2>1, <2>2, <2>3
<1> QED
  BY <1>1, <1>2, <1>3, <1>4, <1>6 DEF Live

\* ... disposed of one by one ...
LEMMA DisposeDoes ==
  ASSUME Inv, NEW t \in Textures, TextureDispose(t)
  PROVE  /\ Active /\ Live(t) /\ refs[t] = 0
         /\ texture' \in [DOMAIN texture' -> TextureRecord]
         /\ DOMAIN texture' = DOMAIN texture
         /\ \A x \in DOMAIN texture : x # t => texture'[x] = texture[x]
         /\ texture'[t].load = texture[t].load /\ texture'[t].loaded = texture[t].loaded
         /\ texture'[t].early = texture[t].early
         /\ textures' \in [Keys -> Textures \cup {None}]
         /\ textureBytes' \in Int
         /\ \A x : Live(x)' <=> Live(x) /\ x # t
<1>1. /\ Active /\ Live(t) /\ refs[t] = 0
      /\ texture' = [texture EXCEPT ![t].disposed = TRUE]
      /\ textures' = [textures EXCEPT ![texture[t].key] = None]
      /\ textureBytes' = textureBytes - texture[t].bytes
  BY DEF TextureDispose
<1>2. /\ t \in DOMAIN texture /\ texture[t].key \in Keys /\ textures[texture[t].key] = t
      /\ texture[t] \in TextureRecord
  BY <1>1, LiveFacts
<1>3. texture \in [DOMAIN texture -> TextureRecord]
  BY Typed DEF Inv
<1>4. /\ texture' \in [DOMAIN texture' -> TextureRecord]
      /\ DOMAIN texture' = DOMAIN texture
      /\ \A x \in DOMAIN texture : x # t => texture'[x] = texture[x]
      /\ texture'[t].load = texture[t].load /\ texture'[t].loaded = texture[t].loaded
      /\ texture'[t].early = texture[t].early /\ texture'[t].disposed
  BY <1>1, <1>2, <1>3 DEF TextureRecord
<1>5. /\ textures' \in [Keys -> Textures \cup {None}]
      /\ textures'[texture[t].key] = None
      /\ \A j \in Keys : j # texture[t].key => textures'[j] = textures[j]
  BY <1>1, <1>2, Typed DEF Inv
<1>6. textureBytes' \in Int
  BY <1>1, <1>2, Typed DEF Inv, TextureRecord
<1>7. ASSUME NEW x PROVE Live(x)' <=> Live(x) /\ x # t
  <2>1. CASE x = t
    BY <1>4, <2>1 DEF Live
  <2>2. CASE x # t /\ x \in DOMAIN texture
    <3>1. texture'[x] = texture[x] /\ texture[x].key \in Keys /\ x # None
      BY <1>4, <2>2, Typed DEF Inv, TextureRecord
    <3>2. CASE texture[x].key = texture[t].key
      BY <1>2, <1>5, <2>2, <3>1, <3>2 DEF Live
    <3>3. CASE texture[x].key # texture[t].key
      BY <1>4, <1>5, <2>2, <3>1, <3>3 DEF Live
    <3> QED
      BY <3>2, <3>3
  <2>3. CASE x # t /\ x \notin DOMAIN texture
    BY <1>4, <2>3 DEF Live
  <2> QED
    BY <2>1, <2>2, <2>3
<1> QED
  BY <1>1, <1>4, <1>5, <1>6, <1>7

\* ... or all together, ...
LEMMA EndDoes ==
  ASSUME Inv, Dispose
  PROVE  /\ phase' = "ended" /\ meshes' = {} /\ nodes' = {} /\ drawing' = None
         /\ texture' \in [DOMAIN texture' -> TextureRecord]
         /\ DOMAIN texture' = DOMAIN texture
         /\ \A x \in DOMAIN texture :
              texture'[x].load = texture[x].load /\ texture'[x].loaded = texture[x].loaded
         /\ textures' \in [Keys -> Textures \cup {None}]
         /\ \A k \in Keys : textures'[k] = None
         /\ \A x : ~Live(x)'
<1>1. /\ phase' = "ended" /\ meshes' = {} /\ nodes' = {} /\ drawing' = None
      /\ texture' = [t \in DOMAIN texture |->
                       [texture[t] EXCEPT !.disposed = @ \/ Live(t)]]
      /\ textures' = [k \in Keys |-> None]
  BY DEF Dispose, meshes, nodes
<1>2. texture \in [DOMAIN texture -> TextureRecord] /\ DOMAIN texture \subseteq Textures
  BY Typed DEF Inv
<1>3. ASSUME NEW t \in DOMAIN texture
      PROVE  /\ texture'[t] \in TextureRecord /\ texture'[t].key = texture[t].key
             /\ texture'[t].load = texture[t].load /\ texture'[t].loaded = texture[t].loaded
  <2>1. texture[t] \in TextureRecord
    BY <1>2
  <2>2. PICK b \in BOOLEAN : texture'[t] = [texture[t] EXCEPT !.disposed = b]
    <3>1. (texture[t].disposed \/ Live(t)) \in BOOLEAN
      OBVIOUS
    <3> QED
      BY <1>1, <3>1
  <2> QED
    BY <2>1, <2>2 DEF TextureRecord
<1>4. DOMAIN texture' = DOMAIN texture
  BY <1>1
<1>5. ASSUME NEW x PROVE ~Live(x)'
  <2> SUFFICES ASSUME x \in DOMAIN texture, textures'[texture'[x].key] = x PROVE FALSE
    BY <1>4 DEF Live
  <2>1. texture'[x].key \in Keys
    BY <1>3 DEF TextureRecord
  <2> QED
    BY <1>1, <1>2, <2>1
<1> QED
  BY <1>1, <1>3, <1>4, <1>5

\* ... and an image for one arrives or fails.
LEMMA ImageDoes ==
  ASSUME Inv, NEW t \in Textures, Image(t)
  PROVE  /\ t \in DOMAIN texture /\ texture[t].load = "started" /\ drawing = None
         /\ texture' \in [DOMAIN texture' -> TextureRecord]
         /\ DOMAIN texture' = DOMAIN texture
         /\ \A x \in DOMAIN texture : x # t => texture'[x] = texture[x]
         /\ texture'[t].early = texture[t].early
         /\ textureBytes' \in Int
         /\ \A x : Live(x)' <=> Live(x)
         /\ Loaded' = Loaded
         /\ \/ /\ texture'[t].load = "done" /\ texture'[t].loaded = texture[t].loaded
               /\ ~Live(t) \/ Placeholder
            \/ texture'[t].load = "failed" /\ texture'[t].loaded = texture[t].loaded
            \/ texture'[t].load = "done" /\ texture'[t].loaded /\ Live(t)
<1>1. /\ t \in DOMAIN texture /\ texture[t].load = "started" /\ drawing = None
      /\ textures' = textures
  BY DEF Image, ImageArrives, ImageFails
<1>2. texture \in [DOMAIN texture -> TextureRecord] /\ textureBytes \in Int
  BY Typed DEF Inv
<1>3. phase = "ended" => ~Live(t)
  BY DEF Inv, PhaseOK, Loaded
<1>4. \/ /\ \/ Settle(t, "done") /\ (~Live(t) \/ Placeholder)
            \/ Settle(t, "failed")
         /\ textureBytes' = textureBytes
      \/ /\ Live(t)
         /\ \E bytes \in ImageSizes :
              /\ texture' = [texture EXCEPT ![t].load = "done", ![t].loaded = TRUE,
                                            ![t].bytes = bytes]
              /\ textureBytes' = textureBytes + bytes
  BY <1>3 DEF Image, ImageArrives, ImageFails
<1>5. CASE Settle(t, "done") /\ (~Live(t) \/ Placeholder) /\ textureBytes' = textureBytes
  <2>1. /\ texture' \in [DOMAIN texture' -> TextureRecord] /\ DOMAIN texture' = DOMAIN texture
        /\ \A x \in DOMAIN texture : x # t => texture'[x] = texture[x]
        /\ texture'[t].early = texture[t].early /\ texture'[t].load = "done"
        /\ texture'[t].loaded = texture[t].loaded /\ texture'[t].key = texture[t].key
        /\ texture'[t].disposed = texture[t].disposed
    BY <1>1, <1>2, <1>5 DEF Settle, TextureRecord
  <2> QED
    BY <1>1, <1>2, <1>5, <2>1, LiveStays
<1>6. CASE Settle(t, "failed") /\ textureBytes' = textureBytes
  <2>1. /\ texture' \in [DOMAIN texture' -> TextureRecord] /\ DOMAIN texture' = DOMAIN texture
        /\ \A x \in DOMAIN texture : x # t => texture'[x] = texture[x]
        /\ texture'[t].early = texture[t].early /\ texture'[t].load = "failed"
        /\ texture'[t].loaded = texture[t].loaded /\ texture'[t].key = texture[t].key
        /\ texture'[t].disposed = texture[t].disposed
    BY <1>1, <1>2, <1>6 DEF Settle, TextureRecord
  <2> QED
    BY <1>1, <1>2, <1>6, <2>1, LiveStays
<1>7. ASSUME Live(t), NEW bytes \in ImageSizes,
             texture' = [texture EXCEPT ![t].load = "done", ![t].loaded = TRUE,
                                        ![t].bytes = bytes],
             textureBytes' = textureBytes + bytes
      PROVE  /\ texture' \in [DOMAIN texture' -> TextureRecord]
             /\ DOMAIN texture' = DOMAIN texture
             /\ \A x \in DOMAIN texture : x # t => texture'[x] = texture[x]
             /\ texture'[t].early = texture[t].early
             /\ textureBytes' \in Int
             /\ \A x : Live(x)' <=> Live(x)
             /\ Loaded' = Loaded
             /\ texture'[t].load = "done" /\ texture'[t].loaded
  <2>1. /\ texture' \in [DOMAIN texture' -> TextureRecord] /\ DOMAIN texture' = DOMAIN texture
        /\ \A x \in DOMAIN texture : x # t => texture'[x] = texture[x]
        /\ texture'[t].early = texture[t].early /\ texture'[t].load = "done"
        /\ texture'[t].loaded /\ texture'[t].key = texture[t].key
        /\ texture'[t].disposed = texture[t].disposed
    <3>1. /\ DOMAIN texture' = DOMAIN texture
          /\ \A x \in DOMAIN texture : x # t => texture'[x] = texture[x]
      BY <1>7
    <3>2. texture[t] \in TextureRecord
      BY <1>1, <1>2
    <3>3. texture'[t] = [texture[t] EXCEPT !.load = "done", !.loaded = TRUE, !.bytes = bytes]
      BY <1>1, <1>7
    <3>4. /\ texture'[t] \in TextureRecord
          /\ texture'[t].early = texture[t].early /\ texture'[t].load = "done"
          /\ texture'[t].loaded /\ texture'[t].key = texture[t].key
          /\ texture'[t].disposed = texture[t].disposed
      BY <3>2, <3>3 DEF TextureRecord
    <3>5. texture' \in [DOMAIN texture' -> TextureRecord]
      BY <1>2, <1>7, <3>1, <3>4
    <3> QED
      BY <3>1, <3>4, <3>5
  <2>2. textureBytes' \in Int
    BY <1>2, <1>7
  <2> QED
    BY <1>1, <2>1, <2>2, LiveStays
<1> QED
  BY <1>1, <1>4, <1>5, <1>6, <1>7


----------------------------------------------------------------------------
\* What the context holds, object by object.
Wanted(o) ==
  \/ \E m \in meshes : o = <<"vertices", m>> \/ o = <<"indices", m>>
  \/ \E v \in DOMAIN arrays \ {Default} : v[1] \in meshes /\ o = <<"array", v>>
  \/ \E t \in Loaded : o = <<"texture", t>>

LEMMA ObjectByObject ==
  /\ ObjectsExact <=>
       /\ \A o : o # <<"program">> => (o \in gl <=> Wanted(o))
       /\ phase = "ended" => gl = {}
  /\ ObjectsExact' <=>
       /\ \A o : o # <<"program">> => (o \in gl' <=> Wanted(o)')
       /\ phase' = "ended" => gl' = {}
<1> DEFINE OfMesh(m, o) ==
             \/ o = <<"vertices", m>> \/ o = <<"indices", m>>
             \/ \E v \in DOMAIN arrays \ {Default} : v[1] = m /\ o = <<"array", v>>
           Some == UNION {MeshObjects(m) : m \in meshes}
           Others == {<<"texture", t>> : t \in Loaded}
<1>1. /\ \A m, o : o \in MeshObjects(m) <=> OfMesh(m, o)
      /\ \A m, o : o \in MeshObjects(m)' <=> OfMesh(m, o)'
  <2>1. \A m, o : o \in MeshObjects(m) <=> OfMesh(m, o)
    BY Zenon DEF MeshObjects, Buffers, VertexArrays
  <2>2. \A m, o : o \in MeshObjects(m)' <=> OfMesh(m, o)'
    BY Zenon DEF MeshObjects, Buffers, VertexArrays
  <2> QED
    BY <2>1, <2>2
<1>2. /\ \A o : o \in SceneObjects <=> (\E m \in meshes : o \in MeshObjects(m))
                               \/ \E t \in Loaded : o = <<"texture", t>>
      /\ \A o : o \in SceneObjects' <=> (\E m \in meshes' : o \in MeshObjects(m)')
                                \/ \E t \in Loaded' : o = <<"texture", t>>
  <2>1. \A o : o \in SceneObjects <=> (\E m \in meshes : o \in MeshObjects(m))
                            \/ \E t \in Loaded : o = <<"texture", t>>
    <3>1. ASSUME NEW o
          PROVE  o \in Some
                   <=> \E m \in meshes : o \in MeshObjects(m)
      OBVIOUS
    <3>2. ASSUME NEW o
          PROVE  o \in Others
                   <=> \E t \in Loaded : o = <<"texture", t>>
      OBVIOUS
    <3>3. SceneObjects = Some \cup Others
      BY DEF SceneObjects
    <3> HIDE DEF Some, Others
    <3> QED
      BY <3>1, <3>2, <3>3
  <2>2. \A o : o \in SceneObjects' <=> (\E m \in meshes' : o \in MeshObjects(m)')
                            \/ \E t \in Loaded' : o = <<"texture", t>>
    <3>1. ASSUME NEW o
          PROVE  o \in Some'
                   <=> \E m \in meshes' : o \in MeshObjects(m)'
      OBVIOUS
    <3>2. ASSUME NEW o
          PROVE  o \in Others'
                   <=> \E t \in Loaded' : o = <<"texture", t>>
      OBVIOUS
    <3>3. SceneObjects' = Some' \cup Others'
      BY DEF SceneObjects
    <3> HIDE DEF Some, Others
    <3> QED
      BY <3>1, <3>2, <3>3
  <2> QED
    BY <2>1, <2>2
<1>3. (\A o : o \in SceneObjects <=> Wanted(o)) /\ (\A o : o \in SceneObjects' <=> Wanted(o)')
  <2>1. \A o : o \in SceneObjects <=> Wanted(o)
    BY <1>1, <1>2 DEF Wanted
  <2>2. \A o : o \in SceneObjects' <=> Wanted(o)'
    BY <1>1, <1>2 DEF Wanted
  <2> QED
    BY <2>1, <2>2
<1>4. ~Wanted(<<"program">>) /\ ~Wanted(<<"program">>)'
  BY DEF Wanted
<1>5. <<"program">> \notin SceneObjects /\ <<"program">> \notin SceneObjects'
  BY <1>3, <1>4, Zenon
<1>6. ObjectsExact <=>
       /\ \A o : o # <<"program">> => (o \in gl <=> Wanted(o))
       /\ phase = "ended" => gl = {}
  <2>1. ObjectsExact <=> gl \ {<<"program">>} = SceneObjects /\ (phase = "ended" => gl = {})
    BY DEF ObjectsExact
  <2> QED
    BY <2>1, <1>3, <1>5
<1>7. ObjectsExact' <=>
       /\ \A o : o # <<"program">> => (o \in gl' <=> Wanted(o)')
       /\ phase' = "ended" => gl' = {}
  <2>1. ObjectsExact' <=> gl' \ {<<"program">>} = SceneObjects' /\ (phase' = "ended" => gl' = {})
    BY DEF ObjectsExact
  <2> QED
    BY <2>1, <1>3, <1>5
<1> QED
  BY <1>6, <1>7

LEMMA ObjectsKept ==
  ASSUME ObjectsExact, gl' = gl, arrays' = arrays, meshes' = meshes, Loaded' = Loaded,
         phase' = "ended" => phase = "ended"
  PROVE  ObjectsExact'
<1>1. \A o : Wanted(o)' <=> Wanted(o)
  BY DEF Wanted
<1> QED
  BY <1>1, ObjectByObject

LEMMA ArraysKept ==
  ASSUME ArraysOK, arrays' = arrays, cache' = cache, meshes' = meshes,
         phase' # "ended" => phase # "ended"
  PROVE  ArraysOK'
BY DEF ArraysOK

LEMMA LoadsKept ==
  ASSUME LoadsOK, SetupAssetsReady, phase' = phase, texture' = texture,
         textures' = textures, pendingSetupAssets' = pendingSetupAssets, awaited' = awaited
  PROVE  LoadsOK' /\ SetupAssetsReady'
<1>1. \A t : Live(t)' <=> Live(t)
  BY DEF Live
<1> QED
  BY <1>1 DEF LoadsOK, SetupAssetsReady, startupPhase, Loaded

LEMMA ReferencesKept ==
  ASSUME ReferencesExact, node' = node, meshes' = meshes, refs' = refs,
         \A t : Live(t)' <=> Live(t)
  PROVE  ReferencesExact'
<1>1. Loaded' = Loaded /\ nodes' = nodes
  BY DEF Loaded, nodes
<1>2. \A m : MeshUsers(m)' = MeshUsers(m)
  BY <1>1 DEF MeshUsers
<1>3. \A t : TextureUsers(t)' = TextureUsers(t)
  BY <1>1 DEF TextureUsers
<1> QED
  BY <1>1, <1>2, <1>3 DEF ReferencesExact

LEMMA UsedKept ==
  ASSUME UsedOK, used' = used, refs' = refs, meshes' \subseteq meshes,
         nodes' \subseteq nodes, DOMAIN texture' = DOMAIN texture
  PROVE  UsedOK'
BY DEF UsedOK

\* The sets that are counted are finite.
LEMMA UsersFinite ==
  ASSUME Inv
  PROVE  /\ IsFiniteSet(nodes)
         /\ \A m : IsFiniteSet(MeshUsers(m)) /\ Cardinality(MeshUsers(m)) \in Nat
         /\ \A t : IsFiniteSet(TextureUsers(t)) /\ Cardinality(TextureUsers(t)) \in Nat
<1>1. IsFiniteSet(nodes)
  BY FS_Subset, Typed DEF Inv
<1>2. IsFiniteSet(nodes \X Uniforms)
  BY <1>1, FS_Product
<1>3. \A m : MeshUsers(m) \subseteq nodes
  BY DEF MeshUsers
<1>4. \A t : TextureUsers(t) \subseteq nodes \X Uniforms
  BY DEF TextureUsers
<1> QED
  BY <1>1, <1>2, <1>3, <1>4, FS_Subset, FS_CardinalityType

\* Nobody refers to what is not in the scene.
LEMMA NoUsers ==
  ASSUME Inv
  PROVE  /\ \A m \in Meshes : m \notin meshes => MeshUsers(m) = {}
         /\ \A t \in Textures : ~Live(t) => TextureUsers(t) = {}
<1>1. \A m \in Meshes : m \notin meshes => MeshUsers(m) = {}
  BY DEF MeshUsers, Inv, ReferencesExact
<1>2. \A t \in Textures : ~Live(t) => TextureUsers(t) = {}
  BY DEF TextureUsers, Inv, ReferencesExact
<1> QED
  BY <1>1, <1>2


----------------------------------------------------------------------------
\* The life of the session.
LEMMA SetupEndsKeeps ==
  ASSUME Inv, SetupEnds
  PROVE  Inv'
<1>1. /\ phase = "setup" /\ phase' = "awaiting" /\ meshes' = meshes /\ nodes' = nodes
      /\ UNCHANGED <<mesh, node, textures, texture, refs, meshBytes, textureBytes, used,
                     pendingSetupAssets, awaited, gl, arrays, cache, drawing>>
  BY DEF SetupEnds, meshes, nodes
<1>2. (\A t : Live(t)' <=> Live(t)) /\ Loaded' = Loaded
  BY <1>1, LiveStays
<1>3. TypeOK'
  BY <1>1, Typed, TypedNext DEF Inv
<1>4. UsedOK' /\ PhaseOK'
  BY <1>1, <1>2, UsedKept DEF Inv, PhaseOK
<1>5. ReferencesExact' /\ ObjectsExact' /\ ArraysOK'
  BY <1>1, <1>2, ReferencesKept, ObjectsKept, ArraysKept DEF Inv
<1>6. LoadsOK' /\ SetupAssetsReady'
  BY <1>1, <1>2 DEF Inv, LoadsOK, SetupAssetsReady, startupPhase
<1> QED
  BY <1>3, <1>4, <1>5, <1>6 DEF Inv

LEMMA AwaitKeeps ==
  ASSUME Inv, AwaitSetupAssets
  PROVE  Inv'
<1>1. /\ phase = "awaiting" /\ meshes' = meshes /\ nodes' = nodes
      /\ \A t \in awaited : texture[t].load = "done"
      /\ awaited' = pendingSetupAssets /\ pendingSetupAssets' = {}
      /\ phase' = IF pendingSetupAssets = {} THEN "running" ELSE phase
      /\ UNCHANGED <<mesh, node, textures, texture, refs, meshBytes, textureBytes, used,
                     gl, arrays, cache, drawing>>
  BY DEF AwaitSetupAssets, meshes, nodes
<1>2. (\A t : Live(t)' <=> Live(t)) /\ Loaded' = Loaded
  BY <1>1, LiveStays
<1>3. TypeOK'
  BY <1>1, Typed, TypedNext DEF Inv
<1>4. UsedOK' /\ PhaseOK'
  BY <1>1, <1>2, UsedKept DEF Inv, PhaseOK
<1>5. ReferencesExact' /\ ObjectsExact' /\ ArraysOK'
  BY <1>1, <1>2, ReferencesKept, ObjectsKept, ArraysKept DEF Inv
<1>6. LoadsOK'
  BY <1>1, <1>2 DEF Inv, LoadsOK, startupPhase
<1>7. SetupAssetsReady'
  <2> SUFFICES ASSUME phase' = "running", NEW t \in Loaded, texture[t].early
               PROVE  texture[t].loaded \/ (Placeholder /\ texture[t].load = "done")
    BY <1>1, <1>2 DEF SetupAssetsReady
  <2>1. pendingSetupAssets = {} /\ startupPhase /\ t \in DOMAIN texture /\ Live(t)
    BY <1>1 DEF startupPhase, Loaded, Live
  <2>2. texture[t].load = "done"
    BY <1>1, <2>1 DEF Inv, LoadsOK
  <2> QED
    BY <2>1, <2>2 DEF Inv, LoadsOK
<1> QED
  BY <1>3, <1>4, <1>5, <1>6, <1>7 DEF Inv

LEMMA RenderKeeps ==
  ASSUME Inv, Render
  PROVE  Inv'
<1>1. /\ phase = "running" /\ drawing = None /\ meshes' = meshes /\ nodes' = nodes
      /\ drawing' \subseteq nodes
      /\ UNCHANGED <<phase, mesh, node, textures, texture, refs, meshBytes, textureBytes,
                     used, pendingSetupAssets, awaited, gl, arrays, cache>>
  BY DEF Render, meshes, nodes
<1>2. (\A t : Live(t)' <=> Live(t)) /\ Loaded' = Loaded
  BY <1>1, LiveStays
<1>3. TypeOK'
  BY <1>1, Typed, TypedNext DEF Inv
<1>4. UsedOK' /\ PhaseOK'
  BY <1>1, <1>2, UsedKept DEF Inv, PhaseOK
<1>5. ReferencesExact' /\ ObjectsExact' /\ ArraysOK'
  BY <1>1, <1>2, ReferencesKept, ObjectsKept, ArraysKept DEF Inv
<1>6. LoadsOK' /\ SetupAssetsReady'
  BY <1>1, LoadsKept DEF Inv
<1> QED
  BY <1>3, <1>4, <1>5, <1>6 DEF Inv

LEMMA EndFrameKeeps ==
  ASSUME Inv, EndFrame
  PROVE  Inv'
<1>1. /\ meshes' = meshes /\ nodes' = nodes /\ drawing' = None /\ cache' = Bound(Default)
      /\ UNCHANGED <<phase, mesh, node, textures, texture, refs, meshBytes, textureBytes,
                     used, pendingSetupAssets, awaited, gl, arrays>>
  BY DEF EndFrame, meshes, nodes
<1>2. (\A t : Live(t)' <=> Live(t)) /\ Loaded' = Loaded
  BY <1>1, LiveStays
<1>3. TypeOK'
  BY <1>1, Typed, TypedNext DEF Inv
<1>4. UsedOK' /\ PhaseOK'
  BY <1>1, <1>2, UsedKept DEF Inv, PhaseOK
<1>5. ReferencesExact' /\ ObjectsExact'
  BY <1>1, <1>2, ReferencesKept, ObjectsKept DEF Inv
<1>6. ArraysOK'
  <2>1. cache'.array = Default
    BY <1>1 DEF Bound
  <2>2. meshes \subseteq Meshes
    BY Typed DEF Inv
  <2> QED
    BY <1>1, <2>1, <2>2 DEF Inv, ArraysOK
<1>7. LoadsOK' /\ SetupAssetsReady'
  BY <1>1, LoadsKept DEF Inv
<1> QED
  BY <1>3, <1>4, <1>5, <1>6, <1>7 DEF Inv

LEMMA DisposeKeeps ==
  ASSUME Inv, Dispose
  PROVE  Inv'
<1>1. /\ phase' = "ended" /\ meshes' = {} /\ nodes' = {} /\ drawing' = None
      /\ texture' \in [DOMAIN texture' -> TextureRecord]
      /\ DOMAIN texture' = DOMAIN texture
      /\ \A x \in DOMAIN texture :
           texture'[x].load = texture[x].load /\ texture'[x].loaded = texture[x].loaded
      /\ textures' \in [Keys -> Textures \cup {None}]
      /\ \A x : ~Live(x)'
  BY EndDoes
<1>2. /\ mesh' = <<>> /\ node' = <<>> /\ pendingSetupAssets' = {} /\ textureBytes' = 0
      /\ awaited' = {} /\ gl' = gl \ (SceneObjects \cup {<<"program">>})
      /\ UNCHANGED <<refs, meshBytes, used, arrays, cache>>
  BY DEF Dispose
<1>3. Loaded' = {}
  BY <1>1 DEF Loaded
<1>4. mesh' \in [meshes' -> MeshSizes] /\ node' \in [nodes' -> NodeRecord]
  BY <1>1, <1>2 DEF meshes, nodes
<1>5. TypeOK'
  BY <1>1, <1>2, <1>4, Typed, TypedNext DEF Inv
<1>6. UsedOK' /\ PhaseOK'
  BY <1>1, <1>2, <1>3, UsedKept DEF Inv, PhaseOK
<1>7. ReferencesExact'
  BY <1>1, <1>3 DEF ReferencesExact
<1>8. ObjectsExact'
  <2>1. gl' = {}
    BY <1>2 DEF Inv, ObjectsExact
  <2>2. \A o : ~Wanted(o)'
    BY <1>1, <1>3 DEF Wanted
  <2> QED
    BY <2>1, <2>2, ObjectByObject
<1>9. ArraysOK'
  BY <1>1, <1>2 DEF Inv, ArraysOK
<1>10. LoadsOK' /\ SetupAssetsReady'
  BY <1>1 DEF Inv, LoadsOK, SetupAssetsReady, startupPhase
<1> QED
  BY <1>5, <1>6, <1>7, <1>8, <1>9, <1>10 DEF Inv

LEMMA ImageKeeps ==
  ASSUME Inv, NEW t \in Textures, Image(t)
  PROVE  Inv'
<1>1. /\ meshes' = meshes /\ nodes' = nodes
      /\ UNCHANGED <<phase, mesh, node, textures, refs, meshBytes, used,
                     pendingSetupAssets, awaited, gl, arrays, cache, drawing>>
  BY DEF Image, ImageArrives, ImageFails, meshes, nodes
<1>2. /\ t \in DOMAIN texture /\ texture[t].load = "started" /\ drawing = None
      /\ texture' \in [DOMAIN texture' -> TextureRecord]
      /\ DOMAIN texture' = DOMAIN texture
      /\ \A x \in DOMAIN texture : x # t => texture'[x] = texture[x]
      /\ texture'[t].early = texture[t].early
      /\ textureBytes' \in Int
      /\ \A x : Live(x)' <=> Live(x)
      /\ Loaded' = Loaded
      /\ \/ /\ texture'[t].load = "done" /\ texture'[t].loaded = texture[t].loaded
            /\ ~Live(t) \/ Placeholder
         \/ texture'[t].load = "failed" /\ texture'[t].loaded = texture[t].loaded
         \/ texture'[t].load = "done" /\ texture'[t].loaded /\ Live(t)
  BY ImageDoes
<1>3. TypeOK'
  BY <1>1, <1>2, Typed, TypedNext DEF Inv
<1>4. UsedOK' /\ PhaseOK'
  BY <1>1, <1>2, UsedKept DEF Inv, PhaseOK
<1>5. ReferencesExact' /\ ObjectsExact' /\ ArraysOK'
  BY <1>1, <1>2, ReferencesKept, ObjectsKept, ArraysKept DEF Inv
<1>6. ~texture[t].loaded
  BY <1>2 DEF Inv, LoadsOK
<1>7. LoadsOK'
  <2> SUFFICES ASSUME NEW x \in DOMAIN texture
               PROVE  /\ texture'[x].loaded => texture'[x].load = "done"
                      /\ Live(x) /\ texture'[x].load = "done" =>
                           texture'[x].loaded \/ Placeholder
                      /\ startupPhase /\ texture'[x].early =>
                           \/ texture'[x].load = "done"
                           \/ x \in pendingSetupAssets \cup awaited \/ ~Live(x)
    BY <1>1, <1>2 DEF LoadsOK, startupPhase
  <2>1. CASE x = t
    BY <1>2, <1>6, <2>1 DEF Inv, LoadsOK
  <2>2. CASE x # t
    BY <1>2, <2>2 DEF Inv, LoadsOK
  <2> QED
    BY <2>1, <2>2
<1>8. SetupAssetsReady'
  <2> SUFFICES ASSUME phase = "running", NEW x \in Loaded, texture'[x].early
               PROVE  texture'[x].loaded \/ (Placeholder /\ texture'[x].load = "done")
    BY <1>1, <1>2 DEF SetupAssetsReady
  <2>1. CASE x = t
    BY <1>2, <1>6, <2>1 DEF Inv, SetupAssetsReady
  <2>2. CASE x # t
    BY <1>2, <2>2 DEF Inv, SetupAssetsReady, Loaded, Live
  <2> QED
    BY <2>1, <2>2
<1> QED
  BY <1>3, <1>4, <1>5, <1>7, <1>8 DEF Inv

----------------------------------------------------------------------------
\* Textures that are requested and disposed of.
LEMMA TextureLoadKeeps ==
  ASSUME Inv, NEW t \in Textures, NEW k \in Keys, TextureLoad(t, k)
  PROVE  Inv'
<1>1. /\ Active /\ t \notin used /\ t \notin DOMAIN texture /\ ~Live(t)
      /\ DOMAIN texture' = DOMAIN texture \cup {t}
      /\ texture'[t] = [key |-> k, bytes |-> 0, loaded |-> FALSE, disposed |-> FALSE,
                        load |-> "started", early |-> startupPhase]
      /\ texture' \in [DOMAIN texture' -> TextureRecord]
      /\ \A x \in DOMAIN texture : texture'[x] = texture[x]
      /\ textures' \in [Keys -> Textures \cup {None}]
      /\ \A x : Live(x)' <=> Live(x) \/ x = t
  BY LoadDoes
<1>2. /\ meshes' = meshes /\ nodes' = nodes /\ used' = used \cup {t}
      /\ gl' = gl \cup {<<"texture", t>>}
      /\ pendingSetupAssets' = IF startupPhase THEN pendingSetupAssets \cup {t}
                               ELSE pendingSetupAssets
      /\ UNCHANGED <<phase, mesh, node, refs, meshBytes, textureBytes, awaited,
                     arrays, cache, drawing>>
  BY DEF TextureLoad, meshes, nodes
<1>3. Loaded' = Loaded \cup {t}
  BY <1>1 DEF Loaded
<1>4. texture'[t].loaded = FALSE /\ texture'[t].load = "started"
      /\ texture'[t].early = startupPhase
  BY <1>1
<1>5. TypeOK'
  <2>1. pendingSetupAssets' \cup awaited' \subseteq DOMAIN texture'
    BY <1>1, <1>2, Typed DEF Inv
  <2> QED
    BY <1>1, <1>2, <2>1, Typed, TypedNext DEF Inv
<1>6. UsedOK' /\ PhaseOK'
  BY <1>1, <1>2, <1>3 DEF Inv, UsedOK, PhaseOK, Active
<1>7. ReferencesExact'
  <2>1. \A m : MeshUsers(m)' = MeshUsers(m)
    BY <1>2 DEF MeshUsers
  <2>2. \A x : TextureUsers(x)' = TextureUsers(x)
    BY <1>2 DEF TextureUsers
  <2>3. refs[t] = 0 /\ TextureUsers(t) = {}
    BY <1>1, NoUsers DEF Inv, UsedOK
  <2>4. \A x \in Loaded' : refs'[x] = Cardinality(TextureUsers(x)')
    BY <1>2, <1>3, <2>2, <2>3, FS_EmptySet DEF Inv, ReferencesExact
  <2>5. \A m \in meshes' : refs'[m] = Cardinality(MeshUsers(m)')
    BY <1>2, <2>1 DEF Inv, ReferencesExact
  <2>6. \A n \in nodes' :
          /\ node'[n].mesh \in meshes'
          /\ \A u \in Uniforms : node'[n].textures[u] # None => Live(node[n].textures[u])'
    BY <1>1, <1>2 DEF Inv, ReferencesExact
  <2> QED
    BY <2>4, <2>5, <2>6, <1>1, <1>2 DEF ReferencesExact
<1>8. ObjectsExact'
  <2>1. \A o : Wanted(o)' <=> Wanted(o) \/ o = <<"texture", t>>
    BY <1>2, <1>3 DEF Wanted
  <2> QED
    BY <1>1, <1>2, <2>1, ObjectByObject DEF Inv, Active
<1>9. ArraysOK'
  BY <1>2, ArraysKept DEF Inv
<1>10. LoadsOK'
  <2>1. startupPhase' <=> startupPhase
    BY <1>2 DEF startupPhase
  <2> SUFFICES ASSUME NEW x \in DOMAIN texture'
               PROVE  /\ texture'[x].loaded => texture'[x].load = "done"
                      /\ Live(x)' /\ texture'[x].load = "done" =>
                           texture'[x].loaded \/ Placeholder
                      /\ startupPhase /\ texture'[x].early =>
                           \/ texture'[x].load = "done"
                           \/ x \in pendingSetupAssets' \cup awaited' \/ ~Live(x)'
    BY <2>1 DEF LoadsOK
  <2>2. CASE x = t
    BY <1>2, <1>4, <2>2
  <2>3. CASE x # t
    BY <1>1, <1>2, <2>3 DEF Inv, LoadsOK
  <2> QED
    BY <2>2, <2>3
<1>11. SetupAssetsReady'
  <2> SUFFICES ASSUME phase = "running", NEW x \in Loaded', texture'[x].early
               PROVE  texture'[x].loaded \/ (Placeholder /\ texture'[x].load = "done")
    BY <1>2 DEF SetupAssetsReady
  <2>1. x # t
    BY <1>4 DEF startupPhase
  <2>2. x \in Loaded /\ texture'[x] = texture[x]
    BY <1>1, <1>3, <2>1 DEF Loaded, Live
  <2> QED
    BY <2>2 DEF Inv, SetupAssetsReady
<1> QED
  BY <1>5, <1>6, <1>7, <1>8, <1>9, <1>10, <1>11 DEF Inv

LEMMA TextureDisposeKeeps ==
  ASSUME Inv, NEW t \in Textures, TextureDispose(t)
  PROVE  Inv'
<1>1. /\ Active /\ Live(t) /\ refs[t] = 0
      /\ texture' \in [DOMAIN texture' -> TextureRecord]
      /\ DOMAIN texture' = DOMAIN texture
      /\ \A x \in DOMAIN texture : x # t => texture'[x] = texture[x]
      /\ texture'[t].load = texture[t].load /\ texture'[t].loaded = texture[t].loaded
      /\ texture'[t].early = texture[t].early
      /\ textures' \in [Keys -> Textures \cup {None}]
      /\ textureBytes' \in Int
      /\ \A x : Live(x)' <=> Live(x) /\ x # t
  BY DisposeDoes
<1>2. /\ meshes' = meshes /\ nodes' = nodes /\ gl' = gl \ {<<"texture", t>>}
      /\ UNCHANGED <<phase, mesh, node, refs, meshBytes, used,
                     pendingSetupAssets, awaited, arrays, cache, drawing>>
  BY DEF TextureDispose, meshes, nodes
<1>3. Loaded' = Loaded \ {t} /\ t \in Loaded
  BY <1>1 DEF Loaded
<1>4. TypeOK'
  BY <1>1, <1>2, Typed, TypedNext DEF Inv
<1>5. UsedOK' /\ PhaseOK'
  BY <1>1, <1>2, <1>3, UsedKept DEF Inv, PhaseOK, Active
<1>6. ReferencesExact'
  <2>1. \A m : MeshUsers(m)' = MeshUsers(m)
    BY <1>2 DEF MeshUsers
  <2>2. \A x : TextureUsers(x)' = TextureUsers(x)
    BY <1>2 DEF TextureUsers
  <2>3. TextureUsers(t) = {}
    <3>1. Cardinality(TextureUsers(t)) = 0
      BY <1>1, <1>3 DEF Inv, ReferencesExact
    <3> QED
      BY <3>1, UsersFinite, FS_EmptySet
  <2>4. \A x \in Loaded' : refs'[x] = Cardinality(TextureUsers(x)')
    BY <1>2, <1>3, <2>2 DEF Inv, ReferencesExact
  <2>5. \A m \in meshes' : refs'[m] = Cardinality(MeshUsers(m)')
    BY <1>2, <2>1 DEF Inv, ReferencesExact
  <2>6. ASSUME NEW n \in nodes, NEW u \in Uniforms, node[n].textures[u] # None
        PROVE  Live(node[n].textures[u])'
    <3>1. node[n].textures[u] # t
      <4>1. <<n, u>> \notin TextureUsers(t)
        BY <2>3
      <4> QED
        BY <4>1 DEF TextureUsers
    <3>2. Live(node[n].textures[u])
      BY <2>6 DEF Inv, ReferencesExact
    <3>3. PICK x : x = node[n].textures[u]
      OBVIOUS
    <3>4. Live(x)'
      BY <1>1, <3>1, <3>2, <3>3
    <3>5. x = node'[n].textures[u]
      BY <1>2, <3>3
    <3> QED
      BY <3>4, <3>5
  <2> QED
    BY <1>2, <2>4, <2>5, <2>6 DEF Inv, ReferencesExact
<1>7. ObjectsExact'
  <2>1. \A o : Wanted(o)' <=> Wanted(o) /\ o # <<"texture", t>>
    BY <1>2, <1>3 DEF Wanted
  <2> QED
    BY <1>1, <1>2, <2>1, ObjectByObject DEF Inv, Active
<1>8. ArraysOK'
  BY <1>2, ArraysKept DEF Inv
<1>9. \A x \in DOMAIN texture :
        /\ texture'[x].load = texture[x].load /\ texture'[x].loaded = texture[x].loaded
        /\ texture'[x].early = texture[x].early
  BY <1>1
<1>10. LoadsOK' /\ SetupAssetsReady'
  <2>1. startupPhase' <=> startupPhase
    BY <1>2 DEF startupPhase
  <2>2. LoadsOK'
    BY <1>1, <1>2, <1>9, <2>1 DEF Inv, LoadsOK
  <2>3. \A x \in Loaded' : x \in DOMAIN texture /\ x \in Loaded
    BY <1>3 DEF Loaded, Live
  <2>4. SetupAssetsReady'
    BY <1>2, <1>9, <2>3 DEF Inv, SetupAssetsReady
  <2> QED
    BY <2>2, <2>4
<1> QED
  BY <1>4, <1>5, <1>6, <1>7, <1>8, <1>10 DEF Inv

----------------------------------------------------------------------------
\* Meshes.
LEMMA CreateMeshKeeps ==
  ASSUME Inv, NEW m \in Meshes, NEW bytes \in MeshSizes, CreateMesh(m, bytes)
  PROVE  Inv'
<1>1. /\ Active /\ m \notin used /\ m \notin meshes
      /\ mesh' = With(mesh, m, bytes) /\ meshBytes' = meshBytes + bytes
      /\ used' = used \cup {m} /\ gl' = gl \cup Buffers(m)
      /\ arrays' = WithIndices(Default, m)
      /\ cache' = [array |-> Default, indices |-> m]
      /\ nodes' = nodes
      /\ UNCHANGED <<phase, node, textures, texture, refs, textureBytes,
                     pendingSetupAssets, awaited, drawing>>
  BY DEF CreateMesh, Inv, UsedOK, nodes
<1>2. (\A t : Live(t)' <=> Live(t)) /\ Loaded' = Loaded
  BY <1>1, LiveStays
<1>3. meshes' = meshes \cup {m} /\ mesh' \in [meshes' -> MeshSizes]
  <2>1. mesh \in [DOMAIN mesh -> MeshSizes]
    BY Typed DEF Inv, meshes
  <2>2. DOMAIN mesh' = DOMAIN mesh \cup {m}
    BY <1>1 DEF With
  <2>3. mesh' \in [DOMAIN mesh \cup {m} -> MeshSizes]
    BY <1>1, <2>1, WithTyped
  <2> QED
    BY <2>2, <2>3 DEF meshes
<1>4. Default \in DOMAIN arrays /\ DOMAIN arrays' = DOMAIN arrays
      /\ \A v \in DOMAIN arrays \ {Default} : arrays'[v] = arrays[v]
  BY <1>1 DEF WithIndices, With, Inv, ArraysOK
<1>5. TypeOK'
  <2>1. meshBytes' \in Int
    BY <1>1, Typed DEF Inv
  <2> QED
    BY <1>1, <1>3, <2>1, Typed, TypedNext DEF Inv
<1>6. UsedOK' /\ PhaseOK'
  BY <1>1, <1>2, <1>3 DEF Inv, UsedOK, PhaseOK, Active
<1>7. ReferencesExact'
  <2>1. \A x : MeshUsers(x)' = MeshUsers(x)
    BY <1>1 DEF MeshUsers
  <2>2. \A x : TextureUsers(x)' = TextureUsers(x)
    BY <1>1 DEF TextureUsers
  <2>3. refs[m] = 0 /\ MeshUsers(m) = {}
    BY <1>1, NoUsers DEF Inv, UsedOK
  <2>4. \A x \in meshes' : refs'[x] = Cardinality(MeshUsers(x)')
    BY <1>1, <1>3, <2>1, <2>3, FS_EmptySet DEF Inv, ReferencesExact
  <2>5. \A x \in Loaded' : refs'[x] = Cardinality(TextureUsers(x)')
    BY <1>1, <1>2, <2>2 DEF Inv, ReferencesExact
  <2> QED
    BY <1>1, <1>2, <1>3, <2>4, <2>5 DEF Inv, ReferencesExact
<1>8. ObjectsExact'
  <2>1. ASSUME NEW v \in DOMAIN arrays \ {Default} PROVE v[1] \in meshes
    BY <1>1, Typed DEF Inv, ArraysOK, Active
  <2>2. \A o : Wanted(o)' <=> Wanted(o) \/ o = <<"vertices", m>> \/ o = <<"indices", m>>
    BY <1>2, <1>3, <1>4, <2>1 DEF Wanted
  <2> QED
    BY <1>1, <2>2, ObjectByObject DEF Inv, Active, Buffers
<1>9. ArraysOK'
  <2>1. meshes' \subseteq Meshes
    BY <1>3, Typed DEF Inv
  <2>2. cache'.array = Default
    BY <1>1
  <2> QED
    BY <1>1, <1>3, <1>4, <2>1, <2>2 DEF Inv, ArraysOK, Active
<1>10. LoadsOK' /\ SetupAssetsReady'
  BY <1>1, LoadsKept DEF Inv
<1> QED
  BY <1>5, <1>6, <1>7, <1>8, <1>9, <1>10 DEF Inv

LEMMA MeshDisposeKeeps ==
  ASSUME Inv, NEW m \in Meshes, MeshDispose(m)
  PROVE  Inv'
<1>1. /\ Active /\ m \in meshes /\ refs[m] = 0
      /\ mesh' = Without(mesh, m) /\ meshBytes' = meshBytes - mesh[m]
      /\ gl' = gl \ MeshObjects(m)
      /\ arrays' = [v \in DOMAIN arrays \ VertexArrays(m) |-> arrays[v]]
      /\ nodes' = nodes
      /\ UNCHANGED <<phase, node, textures, texture, refs, textureBytes, used,
                     pendingSetupAssets, awaited, cache, drawing>>
  BY DEF MeshDispose, nodes
<1>2. (\A t : Live(t)' <=> Live(t)) /\ Loaded' = Loaded
  BY <1>1, LiveStays
<1>3. meshes' = meshes \ {m} /\ mesh' \in [meshes' -> MeshSizes] /\ mesh[m] \in MeshSizes
  BY <1>1, WithoutDoes, WithoutTyped, Typed DEF meshes, Inv
<1>4. /\ DOMAIN arrays' = DOMAIN arrays \ VertexArrays(m)
      /\ \A v \in DOMAIN arrays' : arrays'[v] = arrays[v]
  BY <1>1
<1>5. TypeOK'
  <2>1. meshBytes' \in Int
    BY <1>1, <1>3, Typed DEF Inv
  <2> QED
    BY <1>1, <1>3, <2>1, Typed, TypedNext DEF Inv
<1>6. UsedOK' /\ PhaseOK'
  BY <1>1, <1>2, <1>3, UsedKept DEF Inv, PhaseOK, Active
<1>7. ReferencesExact'
  <2>1. \A x : MeshUsers(x)' = MeshUsers(x)
    BY <1>1 DEF MeshUsers
  <2>2. \A x : TextureUsers(x)' = TextureUsers(x)
    BY <1>1 DEF TextureUsers
  <2>3. MeshUsers(m) = {}
    <3>1. Cardinality(MeshUsers(m)) = 0
      BY <1>1 DEF Inv, ReferencesExact
    <3> QED
      BY <3>1, UsersFinite, FS_EmptySet
  <2>4. \A x \in meshes' : refs'[x] = Cardinality(MeshUsers(x)')
    BY <1>1, <1>3, <2>1 DEF Inv, ReferencesExact
  <2>5. \A x \in Loaded' : refs'[x] = Cardinality(TextureUsers(x)')
    BY <1>1, <1>2, <2>2 DEF Inv, ReferencesExact
  <2>6. \A n \in nodes : node[n].mesh \in meshes \ {m}
    BY <2>3 DEF Inv, ReferencesExact, MeshUsers
  <2> QED
    BY <1>1, <1>2, <1>3, <2>4, <2>5, <2>6 DEF Inv, ReferencesExact
<1>8. ObjectsExact'
  <2>1. ASSUME NEW o
        PROVE  o \in MeshObjects(m) <=>
                 \/ o = <<"vertices", m>> \/ o = <<"indices", m>>
                 \/ \E v \in DOMAIN arrays \ {Default} : v[1] = m /\ o = <<"array", v>>
    BY Zenon DEF MeshObjects, Buffers, VertexArrays
  <2>2. DOMAIN arrays' \ {Default} = {v \in DOMAIN arrays \ {Default} : v[1] # m}
    BY <1>4 DEF VertexArrays
  <2>3. \A o : Wanted(o)' <=> Wanted(o) /\ o \notin MeshObjects(m)
    BY <1>2, <1>3, <2>1, <2>2 DEF Wanted
  <2> QED
    BY <1>1, <2>3, ObjectByObject DEF Inv, Active
<1>9. ArraysOK'
  <2>1. Default \in DOMAIN arrays'
    BY <1>4 DEF Inv, ArraysOK, VertexArrays
  <2>2. ASSUME NEW v \in DOMAIN arrays' \ {Default}
        PROVE  \E x \in meshes', y \in Materials : v = <<x, y>> /\ arrays'[v] = x
    <3>1. v \in DOMAIN arrays \ {Default} /\ v[1] # m /\ arrays'[v] = arrays[v]
      BY <1>4 DEF VertexArrays
    <3>2. PICK x \in meshes, y \in Materials : v = <<x, y>> /\ arrays[v] = x
      BY <1>1, <3>1 DEF Inv, ArraysOK, Active
    <3> QED
      BY <1>3, <3>1, <3>2
  <2>3. ASSUME NEW x \in meshes', NEW y \in Materials, cache.array = <<x, y>>
        PROVE  cache.array \in DOMAIN arrays'
    <3>1. cache.array \in DOMAIN arrays /\ cache.array[1] # m
      BY <1>1, <1>3, <2>3 DEF Inv, ArraysOK, Active
    <3> QED
      BY <1>4, <3>1 DEF VertexArrays
  <2> QED
    BY <1>1, <2>1, <2>2, <2>3 DEF ArraysOK
<1>10. LoadsOK' /\ SetupAssetsReady'
  BY <1>1, LoadsKept DEF Inv
<1> QED
  BY <1>5, <1>6, <1>7, <1>8, <1>9, <1>10 DEF Inv

----------------------------------------------------------------------------
\* Nodes.
LEMMA NodeAddKeeps ==
  ASSUME Inv, NEW n \in Nodes, NEW m \in Meshes, NEW material \in Materials,
         NodeAdd(n, m, material)
  PROVE  Inv'
<1> DEFINE new == [mesh |-> m, material |-> material, textures |-> [u \in Uniforms |-> None]]
<1>1. /\ Active /\ n \notin used /\ n \notin nodes /\ m \in meshes
      /\ node' = With(node, n, new)
      /\ refs' = [refs EXCEPT ![m] = @ + 1] /\ used' = used \cup {n} /\ meshes' = meshes
      /\ UNCHANGED <<phase, mesh, textures, texture, meshBytes, textureBytes,
                     pendingSetupAssets, awaited, gl, arrays, cache, drawing>>
  BY DEF NodeAdd, Inv, UsedOK, meshes
<1>2. (\A t : Live(t)' <=> Live(t)) /\ Loaded' = Loaded
  BY <1>1, LiveStays
<1>3. new \in NodeRecord /\ new.mesh = m /\ \A u \in Uniforms : new.textures[u] = None
  BY DEF NodeRecord
<1>4. /\ nodes' = nodes \cup {n} /\ node' \in [nodes' -> NodeRecord]
      /\ \A x \in nodes : node'[x] = node[x]
      /\ node'[n].mesh = m /\ \A u \in Uniforms : node'[n].textures[u] = None
  <2> HIDE DEF new
  <2>1. node \in [DOMAIN node -> NodeRecord]
    BY Typed DEF Inv, nodes
  <2>2. /\ DOMAIN node' = DOMAIN node \cup {n} /\ node'[n] = new
        /\ \A x \in nodes : node'[x] = node[x]
    BY <1>1 DEF With, nodes
  <2>3. node' \in [DOMAIN node \cup {n} -> NodeRecord]
    BY <1>1, <1>3, <2>1, WithTyped
  <2> QED
    BY <1>3, <2>2, <2>3 DEF nodes
<1> HIDE DEF new
<1>5. refs \in [Meshes \cup Textures -> Nat]
  BY Typed DEF Inv
<1>6. refs' \in [Meshes \cup Textures -> Nat] /\ refs'[m] = refs[m] + 1
      /\ \A r \in Meshes \cup Textures : r # m => refs'[r] = refs[r]
  BY <1>1, <1>5
<1>7. TypeOK'
  BY <1>1, <1>4, <1>6, Typed, TypedNext DEF Inv, Active
<1>8. UsedOK' /\ PhaseOK'
  BY <1>1, <1>2, <1>4, <1>6 DEF Inv, UsedOK, PhaseOK, Active
<1>9. ReferencesExact'
  <2>1. MeshUsers(m)' = MeshUsers(m) \cup {n} /\ n \notin MeshUsers(m)
    BY <1>1, <1>4 DEF MeshUsers
  <2>2. \A x : x # m => MeshUsers(x)' = MeshUsers(x)
    BY <1>4 DEF MeshUsers
  <2>3. ASSUME NEW t \in Textures PROVE TextureUsers(t)' = TextureUsers(t)
    <3>1. t # None
      OBVIOUS
    <3> QED
      BY <1>1, <1>4, <3>1 DEF TextureUsers
  <2>4. Cardinality(MeshUsers(m)') = refs[m] + 1
    BY <1>1, <2>1, UsersFinite, FS_AddElement DEF Inv, ReferencesExact
  <2>5. \A x \in meshes' : refs'[x] = Cardinality(MeshUsers(x)')
    BY <1>1, <1>6, <2>2, <2>4, Typed DEF Inv, ReferencesExact
  <2>6. \A x \in Loaded' : refs'[x] = Cardinality(TextureUsers(x)')
    BY <1>2, <1>6, <2>3 DEF Inv, ReferencesExact, Loaded
  <2>7. ASSUME NEW x \in nodes'
        PROVE  /\ node'[x].mesh \in meshes
               /\ \A u \in Uniforms : node'[x].textures[u] # None
                    => Live(node'[x].textures[u])
    BY <1>1, <1>4 DEF Inv, ReferencesExact
  <2>8. ASSUME NEW x \in nodes', NEW u \in Uniforms, node'[x].textures[u] # None
        PROVE  Live(node[x].textures[u])'
    <3>1. PICK t : t = node'[x].textures[u]
      OBVIOUS
    <3> QED
      BY <1>2, <2>7, <2>8, <3>1
  <2> QED
    BY <1>1, <2>5, <2>6, <2>7, <2>8 DEF ReferencesExact
<1>10. ObjectsExact' /\ ArraysOK'
  BY <1>1, <1>2, ObjectsKept, ArraysKept DEF Inv
<1>11. LoadsOK' /\ SetupAssetsReady'
  BY <1>1, LoadsKept DEF Inv
<1> QED
  BY <1>7, <1>8, <1>9, <1>10, <1>11 DEF Inv

\* Where a node refers to a texture, in the terms of all such places.
Places(n, t) == {p \in TextureUsers(t) : p[1] = n}

LEMMA PlacesCounted ==
  ASSUME Inv, NEW n \in nodes, NEW t \in Textures
  PROVE  /\ IsFiniteSet(Places(n, t)) /\ Cardinality(Places(n, t)) = References(n, t)
         /\ References(n, t) \in Nat
         /\ Cardinality(TextureUsers(t) \ Places(n, t)) =
              Cardinality(TextureUsers(t)) - References(n, t)
         /\ Cardinality(TextureUsers(t) \ Places(n, t)) \in Nat
<1> DEFINE U == {u \in Uniforms : node[n].textures[u] = t}
           f == [u \in U |-> <<n, u>>]
<1>1. IsFiniteSet(U) /\ Cardinality(U) = References(n, t) /\ References(n, t) \in Nat
  BY FS_Subset, FS_CardinalityType DEF References
<1>2. Places(n, t) \subseteq TextureUsers(t) /\ IsFiniteSet(Places(n, t))
  BY UsersFinite, FS_Subset DEF Places
<1>3. Cardinality(Places(n, t)) = Cardinality(U)
  <2>1. f \in [U -> Places(n, t)]
    BY DEF Places, TextureUsers
  <2>2. \A u, w \in U : f[u] = f[w] => u = w
    OBVIOUS
  <2>3. \A p \in Places(n, t) : \E u \in U : f[u] = p
    <3> SUFFICES ASSUME NEW p \in Places(n, t) PROVE \E u \in U : f[u] = p
      OBVIOUS
    <3>1. PICK x \in nodes, u \in Uniforms : p = <<x, u>> /\ node[x].textures[u] = t
      BY DEF Places, TextureUsers
    <3>2. x = n
      BY <3>1 DEF Places
    <3> QED
      BY <3>1, <3>2
  <2>4. f \in Bijection(U, Places(n, t))
    BY <2>1, <2>2, <2>3 DEF Bijection, Injection, Surjection, IsInjective
  <2> HIDE DEF f, U
  <2> QED
    BY <1>1, <2>4, FS_Bijection DEF ExistsBijection
<1>4. Cardinality(TextureUsers(t) \ Places(n, t)) =
        Cardinality(TextureUsers(t)) - Cardinality(Places(n, t))
      /\ IsFiniteSet(TextureUsers(t) \ Places(n, t))
  <2>1. TextureUsers(t) \cap Places(n, t) = Places(n, t)
    BY <1>2
  <2> QED
    BY <2>1, UsersFinite, FS_Difference
<1>5. Cardinality(TextureUsers(t) \ Places(n, t)) \in Nat
  BY <1>4, FS_CardinalityType
<1> QED
  BY <1>1, <1>2, <1>3, <1>4, <1>5

LEMMA NodeRemoveKeeps ==
  ASSUME Inv, NEW n \in Nodes, NodeRemove(n)
  PROVE  Inv'
<1>1. /\ Active /\ n \in nodes /\ node' = Without(node, n) /\ meshes' = meshes
      /\ refs' = [r \in DOMAIN refs |->
                    refs[r] - (IF r = node[n].mesh THEN 1 ELSE 0)
                            - (IF r \in Textures THEN References(n, r) ELSE 0)]
      /\ UNCHANGED <<phase, mesh, textures, texture, meshBytes, textureBytes, used,
                     pendingSetupAssets, awaited, gl, arrays, cache, drawing>>
  BY DEF NodeRemove, meshes
<1>2. (\A t : Live(t)' <=> Live(t)) /\ Loaded' = Loaded
  BY <1>1, LiveStays
<1>3. /\ nodes' = nodes \ {n} /\ node' \in [nodes' -> NodeRecord]
      /\ \A x \in nodes' : node'[x] = node[x]
  BY <1>1, WithoutTyped, Typed DEF Without, nodes, Inv
<1>4. refs \in [Meshes \cup Textures -> Nat] /\ meshes \subseteq Meshes
  BY Typed DEF Inv
<1>5. PICK m \in meshes : node[n].mesh = m
  BY <1>1 DEF Inv, ReferencesExact
<1>6. \A x \in Meshes : refs'[x] = refs[x] - (IF x = m THEN 1 ELSE 0)
  <2> SUFFICES ASSUME NEW x \in Meshes PROVE refs'[x] = refs[x] - (IF x = m THEN 1 ELSE 0)
    OBVIOUS
  <2>1. x \notin Textures /\ x \in DOMAIN refs /\ refs[x] \in Nat
    BY <1>4
  <2> QED
    BY <1>1, <1>5, <2>1
<1>7. ASSUME NEW t \in Textures
      PROVE  refs'[t] = refs[t] - References(n, t) /\ References(n, t) \in Nat
  <2>1. t # node[n].mesh /\ t \in DOMAIN refs
    BY <1>4, <1>5
  <2>2. References(n, t) \in Nat /\ refs[t] \in Nat
    BY <1>1, <1>4, PlacesCounted
  <2> QED
    BY <1>1, <2>1, <2>2
<1>8. /\ MeshUsers(m)' = MeshUsers(m) \ {n} /\ n \in MeshUsers(m)
      /\ \A x : x # m => MeshUsers(x)' = MeshUsers(x)
  BY <1>1, <1>3, <1>5 DEF MeshUsers
<1>9. refs[m] = Cardinality(MeshUsers(m)) /\ Cardinality(MeshUsers(m)') = refs[m] - 1
      /\ refs[m] - 1 \in Nat
  <2>1. refs[m] = Cardinality(MeshUsers(m))
    BY <1>5 DEF Inv, ReferencesExact
  <2>2. IsFiniteSet(MeshUsers(m) \ {n})
    BY UsersFinite, FS_Subset
  <2> QED
    BY <1>8, <2>1, <2>2, UsersFinite, FS_RemoveElement, FS_CardinalityType
<1>10. \A t : TextureUsers(t)' = TextureUsers(t) \ Places(n, t)
  BY <1>3 DEF TextureUsers, Places
<1>11. ASSUME NEW t \in Textures, ~Live(t)
       PROVE  References(n, t) = 0
  <2>1. TextureUsers(t) = {} /\ Places(n, t) = {}
    BY <1>11, NoUsers DEF Places
  <2> QED
    BY <1>1, <2>1, PlacesCounted, FS_EmptySet
<1>12. \A t \in Loaded : refs'[t] = Cardinality(TextureUsers(t)') /\ refs'[t] \in Nat
  <2> SUFFICES ASSUME NEW t \in Loaded
               PROVE  refs'[t] = Cardinality(TextureUsers(t)') /\ refs'[t] \in Nat
    OBVIOUS
  <2>1. t \in Textures /\ refs[t] = Cardinality(TextureUsers(t))
    BY DEF Loaded, Inv, ReferencesExact
  <2>2. /\ Cardinality(TextureUsers(t)') = Cardinality(TextureUsers(t)) - References(n, t)
        /\ Cardinality(TextureUsers(t)') \in Nat
    BY <1>1, <1>10, <2>1, PlacesCounted
  <2> QED
    BY <1>7, <2>1, <2>2
<1>13. refs' \in [Meshes \cup Textures -> Nat]
  <2>1. \A t \in Textures : refs'[t] \in Nat
    <3> SUFFICES ASSUME NEW t \in Textures PROVE refs'[t] \in Nat
      OBVIOUS
    <3>1. CASE Live(t)
      BY <1>12, <3>1 DEF Loaded
    <3>2. CASE ~Live(t)
      BY <1>4, <1>7, <1>11, <3>2
    <3> QED
      BY <3>1, <3>2
  <2>2. \A x \in Meshes : refs'[x] \in Nat
    BY <1>4, <1>6, <1>9
  <2>3. refs' = [r \in Meshes \cup Textures |-> refs'[r]]
    BY <1>1, <1>4
  <2> QED
    BY <2>1, <2>2, <2>3
<1>14. TypeOK'
  BY <1>1, <1>3, <1>13, Typed, TypedNext DEF Inv, Active
<1>15. UsedOK' /\ PhaseOK'
  <2>1. ASSUME NEW r \in (Meshes \cup Textures) \ used PROVE refs'[r] = 0
    <3>1. refs[r] = 0
      BY DEF Inv, UsedOK
    <3>2. CASE r \in Meshes
      <4>1. r # m
        BY <1>5 DEF Inv, UsedOK
      <4> QED
        BY <1>6, <3>1, <3>2, <4>1
    <3>3. CASE r \in Textures
      <4>1. ~Live(r)
        BY LiveFacts
      <4> QED
        BY <1>7, <1>11, <3>1, <3>3, <4>1
    <3> QED
      BY <3>2, <3>3
  <2> QED
    BY <1>1, <1>2, <1>3, <2>1 DEF Inv, UsedOK, PhaseOK, Active
<1>16. ReferencesExact'
  <2>1. \A x \in meshes' : refs'[x] = Cardinality(MeshUsers(x)')
    <3> SUFFICES ASSUME NEW x \in meshes PROVE refs'[x] = Cardinality(MeshUsers(x)')
      BY <1>1
    <3>1. CASE x = m
      BY <1>4, <1>6, <1>9, <3>1
    <3>2. CASE x # m
      <4>1. x \in Meshes /\ refs[x] \in Nat /\ refs[x] = Cardinality(MeshUsers(x))
        BY <1>4 DEF Inv, ReferencesExact
      <4> QED
        BY <1>6, <1>8, <3>2, <4>1
    <3> QED
      BY <3>1, <3>2
  <2>2. ASSUME NEW x \in nodes'
        PROVE  /\ node'[x].mesh \in meshes
               /\ \A u \in Uniforms : node'[x].textures[u] # None
                    => Live(node'[x].textures[u])
    BY <1>3 DEF Inv, ReferencesExact
  <2>3. ASSUME NEW x \in nodes', NEW u \in Uniforms, node'[x].textures[u] # None
        PROVE  Live(node[x].textures[u])'
    <3>1. PICK t : t = node'[x].textures[u]
      OBVIOUS
    <3> QED
      BY <1>2, <2>2, <2>3, <3>1
  <2> QED
    BY <1>1, <1>2, <1>12, <2>1, <2>2, <2>3 DEF ReferencesExact
<1>17. ObjectsExact' /\ ArraysOK'
  BY <1>1, <1>2, ObjectsKept, ArraysKept DEF Inv
<1>18. LoadsOK' /\ SetupAssetsReady'
  BY <1>1, LoadsKept DEF Inv
<1> QED
  BY <1>14, <1>15, <1>16, <1>17, <1>18 DEF Inv

LEMMA ShaderSetKeeps ==
  ASSUME Inv, NEW n \in Nodes, NEW uniform \in Uniforms, NEW value \in Textures \cup {None},
         ShaderSet(n, uniform, value)
  PROVE  Inv'
<1>1. PICK previous : previous = node[n].textures[uniform]
  OBVIOUS
<1>2. /\ Active /\ n \in nodes /\ (value # None => Live(value)) /\ previous # value
      /\ refs' = [r \in DOMAIN refs |-> refs[r] - (IF r = previous THEN 1 ELSE 0)
                                               + (IF r = value THEN 1 ELSE 0)]
      /\ node' = [node EXCEPT ![n].textures[uniform] = value]
      /\ meshes' = meshes /\ nodes' = nodes
      /\ UNCHANGED <<phase, mesh, textures, texture, meshBytes, textureBytes, used,
                     pendingSetupAssets, awaited, gl, arrays, cache, drawing>>
  BY <1>1 DEF ShaderSet, meshes, nodes
<1>3. (\A t : Live(t)' <=> Live(t)) /\ Loaded' = Loaded
  BY <1>2, LiveStays
<1>4. refs \in [Meshes \cup Textures -> Nat] /\ node \in [nodes -> NodeRecord]
  BY Typed DEF Inv
<1>5. previous \in Textures \cup {None} /\ (previous # None => Live(previous))
  <2>1. node[n] \in NodeRecord
    BY <1>2, <1>4
  <2> QED
    BY <1>1, <1>2, <2>1 DEF NodeRecord, Inv, ReferencesExact
<1>6. /\ node' \in [nodes' -> NodeRecord]
      /\ \A x \in nodes : node'[x].mesh = node[x].mesh
      /\ \A x \in nodes : x # n => node'[x] = node[x]
      /\ node'[n].textures[uniform] = value
      /\ \A u \in Uniforms : u # uniform => node'[n].textures[u] = node[n].textures[u]
  <2>1. node[n] \in NodeRecord
    BY <1>2, <1>4
  <2>2. /\ node'[n] = [node[n] EXCEPT !.textures = [@ EXCEPT ![uniform] = value]]
        /\ \A x \in nodes : x # n => node'[x] = node[x]
        /\ DOMAIN node' = nodes /\ node' = [x \in nodes |-> node'[x]]
    BY <1>2, <1>4
  <2>3. /\ node'[n].mesh = node[n].mesh /\ node'[n].material = node[n].material
        /\ node'[n].textures = [node[n].textures EXCEPT ![uniform] = value]
        /\ node'[n] \in NodeRecord
    BY <2>1, <2>2 DEF NodeRecord
  <2>4. node[n].textures \in [Uniforms -> Textures \cup {None}]
    BY <2>1 DEF NodeRecord
  <2>5. node' \in [nodes' -> NodeRecord]
    BY <1>2, <1>4, <2>2, <2>3
  <2> QED
    BY <2>2, <2>3, <2>4, <2>5
<1>7. \A x : MeshUsers(x)' = MeshUsers(x)
  BY <1>2, <1>6 DEF MeshUsers
<1>8. previous \notin Meshes /\ value \notin Meshes
  BY <1>5
<1>9. \A x \in Meshes : refs'[x] = refs[x]
  BY <1>2, <1>4, <1>8
<1>10. \A t \in Textures :
         refs'[t] = refs[t] - (IF t = previous THEN 1 ELSE 0) + (IF t = value THEN 1 ELSE 0)
  BY <1>2, <1>4
<1>11. ASSUME NEW t \in Textures, t # previous, t # value
       PROVE  TextureUsers(t)' = TextureUsers(t)
  <2> SUFFICES ASSUME NEW x \in nodes, NEW u \in Uniforms
               PROVE  node'[x].textures[u] = t <=> node[x].textures[u] = t
    BY <1>2 DEF TextureUsers
  <2> QED
    BY <1>1, <1>6, <1>11
<1>12. ASSUME previous # None
       PROVE  /\ TextureUsers(previous)' = TextureUsers(previous) \ {<<n, uniform>>}
              /\ <<n, uniform>> \in TextureUsers(previous)
  <2>1. <<n, uniform>> \in TextureUsers(previous)
    BY <1>1, <1>2 DEF TextureUsers
  <2>2. ASSUME NEW x \in nodes, NEW u \in Uniforms
        PROVE  node'[x].textures[u] = previous <=>
                 node[x].textures[u] = previous /\ ~(x = n /\ u = uniform)
    BY <1>2, <1>6
  <2>3. ASSUME NEW p
        PROVE  p \in TextureUsers(previous)' <=> p \in TextureUsers(previous) \ {<<n, uniform>>}
    BY <1>2, <2>2 DEF TextureUsers
  <2> QED
    BY <2>1, <2>3
<1>13. ASSUME value # None
       PROVE  /\ TextureUsers(value)' = TextureUsers(value) \cup {<<n, uniform>>}
              /\ <<n, uniform>> \notin TextureUsers(value)
  <2>1. <<n, uniform>> \notin TextureUsers(value)
    BY <1>1, <1>2 DEF TextureUsers
  <2>2. ASSUME NEW x \in nodes, NEW u \in Uniforms
        PROVE  node'[x].textures[u] = value <=>
                 node[x].textures[u] = value \/ (x = n /\ u = uniform)
    BY <1>2, <1>6
  <2>3. ASSUME NEW p
        PROVE  p \in TextureUsers(value)' <=> p \in TextureUsers(value) \cup {<<n, uniform>>}
    BY <1>2, <2>2 DEF TextureUsers
  <2> QED
    BY <2>1, <2>3
<1>14. ASSUME NEW t \in Loaded
       PROVE  refs'[t] = Cardinality(TextureUsers(t)') /\ refs'[t] \in Nat
  <2>1. t \in Textures /\ refs[t] \in Nat /\ refs[t] = Cardinality(TextureUsers(t)) /\ t # None
    BY <1>4 DEF Loaded, Inv, ReferencesExact
  <2>2. CASE t = previous
    <3>1. TextureUsers(t)' = TextureUsers(t) \ {<<n, uniform>>}
          /\ <<n, uniform>> \in TextureUsers(t)
      BY <1>12, <2>1, <2>2
    <3>2. Cardinality(TextureUsers(t)') = Cardinality(TextureUsers(t)) - 1
          /\ Cardinality(TextureUsers(t)') \in Nat
      <4>1. IsFiniteSet(TextureUsers(t)) /\ IsFiniteSet(TextureUsers(t) \ {<<n, uniform>>})
        BY UsersFinite, FS_Subset
      <4>2. Cardinality(TextureUsers(t) \ {<<n, uniform>>}) \in Nat
        BY <4>1, FS_CardinalityType
      <4>3. Cardinality(TextureUsers(t) \ {<<n, uniform>>}) = Cardinality(TextureUsers(t)) - 1
        BY <3>1, <4>1, FS_RemoveElement
      <4> QED
        BY <3>1, <4>2, <4>3
    <3> QED
      BY <1>2, <1>10, <2>1, <2>2, <3>2
  <2>3. CASE t = value
    <3>1. TextureUsers(t)' = TextureUsers(t) \cup {<<n, uniform>>}
          /\ <<n, uniform>> \notin TextureUsers(t)
      BY <1>13, <2>1, <2>3
    <3>2. Cardinality(TextureUsers(t)') = Cardinality(TextureUsers(t)) + 1
      BY <3>1, UsersFinite, FS_AddElement
    <3> QED
      BY <1>2, <1>10, <2>1, <2>3, <3>2
  <2>4. CASE t # previous /\ t # value
    BY <1>10, <1>11, <2>1, <2>4
  <2> QED
    BY <2>2, <2>3, <2>4
<1>15. \A r \in Textures : ~Live(r) => refs'[r] = refs[r]
  BY <1>2, <1>4, <1>5, <1>10
<1>16. refs' \in [Meshes \cup Textures -> Nat]
  <2>1. \A r \in Meshes \cup Textures : refs'[r] \in Nat
    BY <1>4, <1>9, <1>14, <1>15 DEF Loaded
  <2>2. refs' = [r \in Meshes \cup Textures |-> refs'[r]]
    BY <1>2, <1>4
  <2> QED
    BY <2>1, <2>2
<1>17. TypeOK'
  BY <1>2, <1>6, <1>16, Typed, TypedNext DEF Inv
<1>18. UsedOK' /\ PhaseOK'
  <2>1. ASSUME NEW r \in (Meshes \cup Textures) \ used PROVE refs'[r] = 0
    BY <1>9, <1>15, LiveFacts DEF Inv, UsedOK
  <2> QED
    BY <1>2, <1>3, <2>1 DEF Inv, UsedOK, PhaseOK
<1>19. ReferencesExact'
  <2>1. \A x \in meshes' : refs'[x] = Cardinality(MeshUsers(x)')
    BY <1>2, <1>7, <1>9, Typed DEF Inv, ReferencesExact
  <2>2. ASSUME NEW x \in nodes, NEW u \in Uniforms, node'[x].textures[u] # None
        PROVE  Live(node[x].textures[u])'
    <3>1. PICK t : t = node'[x].textures[u]
      OBVIOUS
    <3>2. Live(t)
      BY <1>2, <1>6, <2>2, <3>1 DEF Inv, ReferencesExact
    <3> QED
      BY <1>3, <3>1, <3>2
  <2> QED
    BY <1>2, <1>3, <1>6, <1>14, <2>1, <2>2 DEF Inv, ReferencesExact
<1>20. ObjectsExact' /\ ArraysOK'
  BY <1>2, <1>3, ObjectsKept, ArraysKept DEF Inv
<1>21. LoadsOK' /\ SetupAssetsReady'
  BY <1>2, LoadsKept DEF Inv
<1> QED
  BY <1>17, <1>18, <1>19, <1>20, <1>21 DEF Inv

----------------------------------------------------------------------------
\* An item of a frame: the vertex array that is bound is the one of its mesh,
\* with the mesh's index buffer, whether it was there before or not.
LEMMA DrawDoes ==
  ASSUME Inv, NEW n \in Nodes, DrawItem(n)
  PROVE  \E m \in meshes, x \in Materials :
           /\ n \in nodes /\ node[n].mesh = m /\ node[n].material = x
           /\ cache'.array = <<m, x>>
           /\ <<m, x>> # Default
           /\ DOMAIN arrays' = DOMAIN arrays \cup {<<m, x>>} /\ arrays'[<<m, x>>] = m
           /\ \A v \in DOMAIN arrays : arrays'[v] = arrays[v]
           /\ \A o : o # <<"program">> =>
                (o \in gl' <=> o \in gl \/ (o = <<"array", <<m, x>>>> /\ <<m, x>> \notin DOMAIN arrays))
<1>1. n \in drawing /\ drawing # None
  BY DEF DrawItem
<1>2. n \in nodes /\ phase = "running"
  BY <1>1, Typed DEF Inv, PhaseOK
<1>3. node[n] \in NodeRecord
  BY <1>2, Typed DEF Inv
<1>4. PICK m \in meshes, x \in Materials : node[n].mesh = m /\ node[n].material = x
  BY <1>2, <1>3 DEF NodeRecord, Inv, ReferencesExact
<1>5. PICK v : v = <<m, x>>
  OBVIOUS
<1>6. v # Default /\ v[1] = m /\ m # Unknown
  BY <1>4, <1>5, Typed DEF Inv
<1>7. v \in VertexArrays(m) <=> v \in DOMAIN arrays
  BY <1>6 DEF VertexArrays
<1>8. CASE v \in DOMAIN arrays
  <2>1. /\ cache' = Bound(v) /\ arrays' = arrays
        /\ \E program : gl' = gl \cup program /\ program \subseteq {<<"program">>}
    BY <1>4, <1>5, <1>7, <1>8 DEF DrawItem
  <2>2. cache'.array = v
    BY <2>1 DEF Bound
  <2>3. arrays[v] = m
    BY <1>2, <1>5, <1>6, <1>8 DEF Inv, ArraysOK
  <2>4. \A o : o # <<"program">> => (o \in gl' <=> o \in gl)
    BY <2>1
  <2>5. DOMAIN arrays' = DOMAIN arrays \cup {v} /\ \A w \in DOMAIN arrays : arrays'[w] = arrays[w]
    BY <1>8, <2>1
  <2>6. arrays'[v] = m
    BY <2>1, <2>3
  <2> QED
    BY <1>2, <1>4, <1>5, <1>6, <1>8, <2>2, <2>4, <2>5, <2>6
<1>9. CASE v \notin DOMAIN arrays
  <2>1. /\ cache' = [array |-> v, indices |-> m] /\ arrays' = WithIndices(v, m)
        /\ \E program : /\ gl' = gl \cup program \cup {<<"array", v>>}
                        /\ program \subseteq {<<"program">>}
    BY <1>4, <1>5, <1>7, <1>9 DEF DrawItem
  <2>2. cache.array # v
    BY <1>2, <1>4, <1>5, <1>9 DEF Inv, ArraysOK
  <2>3. Bound(v).indices # m
    BY <1>6, <2>2 DEF Bound
  <2>4. arrays' = With(arrays, v, m)
    BY <1>9, <2>1, <2>3 DEF WithIndices
  <2>5. /\ DOMAIN arrays' = DOMAIN arrays \cup {v} /\ arrays'[v] = m
        /\ \A w \in DOMAIN arrays : arrays'[w] = arrays[w]
    BY <1>9, <2>4 DEF With
  <2> QED
    BY <1>2, <1>4, <1>5, <1>6, <1>9, <2>1, <2>5
<1> QED
  BY <1>8, <1>9

LEMMA DrawItemKeeps ==
  ASSUME Inv, NEW n \in Nodes, DrawItem(n)
  PROVE  Inv'
<1>1. /\ drawing # None /\ drawing' = drawing \ {n} /\ meshes' = meshes /\ nodes' = nodes
      /\ UNCHANGED <<phase, mesh, node, textures, texture, refs, meshBytes, textureBytes,
                     used, pendingSetupAssets, awaited>>
  BY DEF DrawItem, meshes, nodes
<1>2. (\A t : Live(t)' <=> Live(t)) /\ Loaded' = Loaded
  BY <1>1, LiveStays
<1>3. PICK m \in meshes, x \in Materials :
        /\ cache'.array = <<m, x>> /\ <<m, x>> # Default
        /\ DOMAIN arrays' = DOMAIN arrays \cup {<<m, x>>} /\ arrays'[<<m, x>>] = m
        /\ \A v \in DOMAIN arrays : arrays'[v] = arrays[v]
        /\ \A o : o # <<"program">> =>
             (o \in gl' <=> o \in gl \/ (o = <<"array", <<m, x>>>> /\ <<m, x>> \notin DOMAIN arrays))
  BY DrawDoes
<1>4. phase = "running"
  BY <1>1 DEF Inv, PhaseOK
<1>5. TypeOK'
  BY <1>1, Typed, TypedNext DEF Inv
<1>6. UsedOK' /\ PhaseOK'
  BY <1>1, <1>2, <1>4, UsedKept DEF Inv, PhaseOK
<1>7. ReferencesExact'
  BY <1>1, <1>2, ReferencesKept DEF Inv
<1>8. ObjectsExact'
  <2>1. PICK v : v = <<m, x>>
    OBVIOUS
  <2>2. v[1] = m /\ v # Default /\ DOMAIN arrays' = DOMAIN arrays \cup {v}
    BY <1>3, <2>1
  <2>3. \A o : Wanted(o)' <=> Wanted(o) \/ (o = <<"array", v>> /\ v \notin DOMAIN arrays)
    BY <1>1, <1>2, <2>2 DEF Wanted
  <2> QED
    BY <1>1, <1>3, <1>4, <2>1, <2>3, ObjectByObject DEF Inv
<1>9. ArraysOK'
  <2>1. Default \in DOMAIN arrays'
    BY <1>3 DEF Inv, ArraysOK
  <2>2. ASSUME NEW v \in DOMAIN arrays' \ {Default}
        PROVE  \E y \in meshes', z \in Materials : v = <<y, z>> /\ arrays'[v] = y
    <3>1. CASE v = <<m, x>>
      BY <1>1, <1>3, <3>1
    <3>2. CASE v # <<m, x>>
      BY <1>1, <1>3, <1>4, <3>2 DEF Inv, ArraysOK
    <3> QED
      BY <3>1, <3>2
  <2>3. cache'.array \in DOMAIN arrays'
    BY <1>3
  <2> QED
    BY <2>1, <2>2, <2>3 DEF ArraysOK
<1>10. LoadsOK' /\ SetupAssetsReady'
  BY <1>1, LoadsKept DEF Inv
<1> QED
  BY <1>5, <1>6, <1>7, <1>8, <1>9, <1>10 DEF Inv

----------------------------------------------------------------------------
LEMMA InvInitially == Init => Inv
<1> SUFFICES ASSUME Init PROVE Inv
  OBVIOUS
<1>1. /\ phase = "setup" /\ meshes = {} /\ nodes = {} /\ DOMAIN texture = {}
      /\ drawing = None /\ used = {} /\ gl = {}
      /\ mesh = <<>> /\ node = <<>> /\ texture = <<>>
      /\ textures = [k \in Keys |-> None] /\ refs = [r \in Meshes \cup Textures |-> 0]
      /\ meshBytes = 0 /\ textureBytes = 0 /\ pendingSetupAssets = {} /\ awaited = {}
      /\ DOMAIN arrays = {Default} /\ cache.array = Unknown
  BY DEF Init, meshes, nodes
<1>2. Loaded = {}
  BY <1>1 DEF Loaded, Live
<1>3. TypeOK
  <2>1. /\ mesh \in [meshes -> MeshSizes] /\ node \in [nodes -> NodeRecord]
        /\ texture \in [DOMAIN texture -> TextureRecord]
    BY <1>1
  <2> QED
    BY <1>1, <2>1, Typed
<1>4. UsedOK /\ PhaseOK /\ ReferencesExact
  BY <1>1, <1>2 DEF UsedOK, PhaseOK, ReferencesExact
<1>5. ObjectsExact
  <2>1. \A o : ~Wanted(o)
    BY <1>1, <1>2 DEF Wanted
  <2> QED
    BY <1>1, <2>1, ObjectByObject
<1>6. ArraysOK /\ LoadsOK /\ SetupAssetsReady
  BY <1>1 DEF ArraysOK, LoadsOK, SetupAssetsReady
<1> QED
  BY <1>3, <1>4, <1>5, <1>6 DEF Inv

LEMMA InvKept == Inv /\ [Next]_vars => Inv'
<1> SUFFICES ASSUME Inv, [Next]_vars PROVE Inv'
  OBVIOUS
<1>1. CASE Call
  <2>1. CASE \E m \in Meshes, bytes \in MeshSizes : CreateMesh(m, bytes)
    BY <2>1, CreateMeshKeeps
  <2>2. CASE \E m \in Meshes : MeshDispose(m)
    BY <2>2, MeshDisposeKeeps
  <2>3. CASE \E n \in Nodes, m \in Meshes, material \in Materials : NodeAdd(n, m, material)
    BY <2>3, NodeAddKeeps
  <2>4. CASE \E n \in Nodes : NodeRemove(n)
    BY <2>4, NodeRemoveKeeps
  <2>5. CASE \E n \in Nodes, u \in Uniforms, t \in Textures \cup {None} : ShaderSet(n, u, t)
    BY <2>5, ShaderSetKeeps
  <2>6. CASE \E t \in Textures, k \in Keys : TextureLoad(t, k)
    BY <2>6, TextureLoadKeeps
  <2>7. CASE \E t \in Textures : TextureDispose(t)
    BY <2>7, TextureDisposeKeeps
  <2> QED
    BY <1>1, <2>1, <2>2, <2>3, <2>4, <2>5, <2>6, <2>7 DEF Call
<1>2. CASE \E t \in Textures : Image(t)
  BY <1>2, ImageKeeps
<1>3. CASE (\E t \in Textures : LoadError(t)) \/ Stop
  BY <1>3, DisposeKeeps DEF LoadError, Stop
<1>4. CASE SetupEnds
  BY <1>4, SetupEndsKeeps
<1>5. CASE AwaitSetupAssets
  BY <1>5, AwaitKeeps
<1>6. CASE Render
  BY <1>6, RenderKeeps
<1>7. CASE \E n \in Nodes : DrawItem(n)
  BY <1>7, DrawItemKeeps
<1>8. CASE EndFrame
  BY <1>8, EndFrameKeeps
<1>9. CASE UNCHANGED vars
  <2>1. meshes' = meshes /\ nodes' = nodes
    BY <1>9 DEF vars, meshes, nodes
  <2>2. (\A t : Live(t)' <=> Live(t)) /\ Loaded' = Loaded
    BY <1>9, LiveStays DEF vars
  <2>3. TypeOK'
    BY <1>9, <2>1, Typed, TypedNext DEF vars, Inv
  <2>4. UsedOK' /\ PhaseOK'
    BY <1>9, <2>1, <2>2, UsedKept DEF vars, Inv, PhaseOK
  <2>5. ReferencesExact' /\ ObjectsExact' /\ ArraysOK'
    BY <1>9, <2>1, <2>2, ReferencesKept, ObjectsKept, ArraysKept DEF vars, Inv
  <2>6. LoadsOK' /\ SetupAssetsReady'
    BY <1>9, LoadsKept DEF vars, Inv
  <2> QED
    BY <2>3, <2>4, <2>5, <2>6 DEF Inv
<1> QED
  BY <1>1, <1>2, <1>3, <1>4, <1>5, <1>6, <1>7, <1>8, <1>9 DEF Next

\* The inductive invariant holds in every behaviour of the scene.
LEMMA InvHolds == Spec => []Inv
BY InvInitially, InvKept, PTL DEF Spec

(* The reference counts, by which dispose refuses what is in use, and the  *)
(* objects in the context agree with the scene after any calls, loads and  *)
(* frames.                                                                 *)
THEOREM SceneStaysExact == Spec => []SceneExact
<1>1. Inv => SceneExact
  BY DEF Inv, SceneExact
<1> QED
  BY <1>1, InvHolds, PTL

(* awaitSetupAssets: the program runs only when the textures of setup are  *)
(* there, also those that were requested during the wait.                  *)
THEOREM SetupAssetsAreReady == Spec => []SetupAssetsReady
<1>1. Inv => SetupAssetsReady
  BY DEF Inv
<1> QED
  BY <1>1, InvHolds, PTL

(* loadTexture looks again at the session and the texture when the image   *)
(* has come: it never uploads to an object that has been deleted.          *)
THEOREM NoUploadIsLate == Spec => NoLateUpload
<1>1. ASSUME Inv, [Next]_vars, NEW t \in DOMAIN texture, texture'[t].loaded # texture[t].loaded
      PROVE  <<"texture", t>> \in gl
  <2>1. CASE \E x \in Textures : Image(x)
    <3>1. PICK x \in Textures : Image(x)
      BY <2>1
    <3>2. x = t
      BY <1>1, <3>1, ImageDoes
    <3>3. Live(t)
      BY <1>1, <3>1, <3>2, ImageDoes
    <3>4. t \in Loaded
      BY <3>3, LiveFacts, <1>1 DEF Loaded
    <3>5. Wanted(<<"texture", t>>) /\ <<"texture", t>> # <<"program">>
      BY <3>4 DEF Wanted
    <3> QED
      BY <1>1, <3>5, ObjectByObject DEF Inv
  <2>2. CASE \E x \in Textures, k \in Keys : TextureLoad(x, k)
    BY <1>1, <2>2, LoadDoes
  <2>3. CASE \E x \in Textures : TextureDispose(x)
    <3>1. PICK x \in Textures : TextureDispose(x)
      BY <2>3
    <3> QED
      BY <1>1, <3>1, DisposeDoes
  <2>4. CASE Dispose
    BY <1>1, <2>4, EndDoes
  <2>5. CASE texture' = texture
    BY <1>1, <2>5
  <2>6. \/ \E x \in Textures : Image(x)
        \/ \E x \in Textures, k \in Keys : TextureLoad(x, k)
        \/ \E x \in Textures : TextureDispose(x)
        \/ Dispose \/ texture' = texture
    BY <1>1 DEF Next, Call, LoadError, Stop, CreateMesh, MeshDispose, NodeAdd, NodeRemove,
                ShaderSet, SetupEnds, AwaitSetupAssets, Render, DrawItem, EndFrame, vars
  <2> QED
    BY <2>1, <2>2, <2>3, <2>4, <2>5, <2>6
<1>2. Inv /\ [Next]_vars =>
        [\A t \in DOMAIN texture :
           texture'[t].loaded # texture[t].loaded => <<"texture", t>> \in gl]_vars
  BY <1>1
<1> QED
  BY <1>2, InvHolds, PTL DEF Spec, NoLateUpload

(* bindMesh: whatever is in the cache of bindings, a node is drawn with    *)
(* the vertex array of its own mesh and layout and with that mesh's        *)
(* indices.                                                                *)
THEOREM NodesDrawTheirMesh == Spec => DrawsOwnMesh
<1>1. ASSUME Inv, [Next]_vars, NEW n \in nodes,
             drawing # None, drawing' # None, n \in drawing \ drawing'
      PROVE  /\ cache'.array = <<node[n].mesh, node[n].material>>
             /\ arrays'[cache'.array] = node[n].mesh
  <2>1. \E x \in Nodes : DrawItem(x)
    BY <1>1 DEF Next, Call, LoadError, Stop, Dispose, CreateMesh, MeshDispose, NodeAdd,
                NodeRemove, ShaderSet, TextureLoad, TextureDispose, Image, ImageArrives,
                ImageFails, SetupEnds, AwaitSetupAssets, Render, EndFrame, vars, Active
  <2>2. DrawItem(n) /\ n \in Nodes
    BY <1>1, <2>1 DEF DrawItem
  <2> QED
    BY <1>1, <2>2, DrawDoes
<1>2. Inv /\ [Next]_vars =>
        [\A n \in nodes :
           drawing # None /\ drawing' # None /\ n \in drawing \ drawing' =>
               /\ cache'.array = <<node[n].mesh, node[n].material>>
               /\ arrays'[cache'.array] = node[n].mesh]_vars
  BY <1>1
<1> QED
  BY <1>2, InvHolds, PTL DEF Spec, DrawsOwnMesh

----------------------------------------------------------------------------
(* The limits on bytes.  What is counted is a cardinality, of the bytes that are
   there, so that every step has to add or remove the bytes of one thing. *)

\* An image that has not been loaded has no bytes.
BudgetsOK ==
  /\ IsFiniteSet(Bytes(Images)) /\ IsFiniteSet(Bytes(mesh))
  /\ \A t \in DOMAIN texture : texture[t].load = "started" => texture[t].bytes = 0
  /\ BudgetsKept

LEMMA BytesAdded ==
  ASSUME NEW f, NEW g, NEW x, NEW n \in Nat, IsFiniteSet(Bytes(f)),
         x \in DOMAIN g, g[x] = n, DOMAIN g \ {x} = DOMAIN f \ {x},
         \A y \in DOMAIN f \ {x} : g[y] = f[y],
         x \in DOMAIN f => f[x] = 0
  PROVE  /\ IsFiniteSet(Bytes(g))
         /\ Cardinality(Bytes(g)) = Cardinality(Bytes(f)) + n
<1> DEFINE new == {x} \X (1 .. n)
<1>1. IsFiniteSet(new) /\ Cardinality(new) = n
  <2>1. IsFiniteSet({x}) /\ Cardinality({x}) = 1
    BY FS_Singleton
  <2>2. IsFiniteSet(1 .. n) /\ Cardinality(1 .. n) = n
    BY FS_Interval
  <2>3. IsFiniteSet(new) /\ Cardinality(new) = Cardinality({x}) * Cardinality(1 .. n)
    <3> DEFINE T == 1 .. n
    <3>1. IsFiniteSet(T)
      BY <2>2
    <3> HIDE DEF T
    <3>2. IsFiniteSet({x} \X T) /\ Cardinality({x} \X T) = Cardinality({x}) * Cardinality(T)
      BY <2>1, <3>1, FS_Product
    <3> QED
      BY <3>2 DEF T
  <2> QED
    BY <2>1, <2>2, <2>3
<1>2. ASSUME NEW y \in DOMAIN f PROVE y = x => 1 .. f[y] = {}
  OBVIOUS
<1>3. Bytes(g) = Bytes(f) \cup new
  <2>1. ASSUME NEW b PROVE b \in Bytes(g) <=> b \in Bytes(f) \/ b \in new
    <3>1. b \in Bytes(g) <=> \E y \in DOMAIN g : b \in {y} \X (1 .. g[y])
      BY DEF Bytes
    <3>2. b \in Bytes(f) <=> \E y \in DOMAIN f : b \in {y} \X (1 .. f[y])
      BY DEF Bytes
    <3>3. ASSUME NEW y \in DOMAIN g, b \in {y} \X (1 .. g[y])
          PROVE  b \in Bytes(f) \/ b \in new
      BY <3>2, <3>3
    <3>4. ASSUME NEW y \in DOMAIN f, b \in {y} \X (1 .. f[y])
          PROVE  b \in Bytes(g)
      <4>1. y # x
        BY <1>2, <3>4
      <4> QED
        BY <3>1, <3>4, <4>1
    <3>5. ASSUME b \in new PROVE b \in Bytes(g)
      BY <3>1, <3>5
    <3> QED
      BY <3>1, <3>2, <3>3, <3>4, <3>5
  <2> QED
    BY <2>1
<1>4. Bytes(f) \cap new = {}
  <2> SUFFICES ASSUME NEW b \in Bytes(f), b \in new PROVE FALSE
    OBVIOUS
  <2>1. PICK y \in DOMAIN f : b \in {y} \X (1 .. f[y])
    BY DEF Bytes
  <2>2. y = x
    BY <2>1
  <2> QED
    BY <1>2, <2>1, <2>2
<1> HIDE DEF new
<1>5. Cardinality(Bytes(f)) \in Nat
  BY FS_CardinalityType
<1> QED
  BY <1>1, <1>3, <1>4, <1>5, FS_Union, FS_EmptySet

LEMMA BytesRemoved ==
  ASSUME NEW f, NEW g, NEW x \in DOMAIN f, f[x] \in Nat, IsFiniteSet(Bytes(f)),
         DOMAIN g = DOMAIN f \ {x}, \A y \in DOMAIN g : g[y] = f[y]
  PROVE  /\ IsFiniteSet(Bytes(g))
         /\ Cardinality(Bytes(g)) = Cardinality(Bytes(f)) - f[x]
<1>1. Bytes(g) \subseteq Bytes(f)
  BY DEF Bytes
<1>2. IsFiniteSet(Bytes(g))
  BY <1>1, FS_Subset
<1>3. Cardinality(Bytes(f)) = Cardinality(Bytes(g)) + f[x]
  BY <1>2, BytesAdded
<1> QED
  BY <1>2, <1>3, FS_CardinalityType

LEMMA NoBytes ==
  ASSUME NEW f, DOMAIN f = {}
  PROVE  IsFiniteSet(Bytes(f)) /\ Cardinality(Bytes(f)) = 0
BY FS_EmptySet DEF Bytes

\* No step makes a count wrong.
LEMMA MeshBudget ==
  ASSUME Inv, BudgetsOK, [Next]_vars
  PROVE  /\ IsFiniteSet(Bytes(mesh'))
         /\ phase' # "ended" =>
              meshBytes' = Cardinality(Bytes(mesh')) /\ meshBytes' <= MaxMeshBytes
<1>1. CASE mesh' = mesh /\ meshBytes' = meshBytes /\ (phase = "ended" => phase' = "ended")
  BY <1>1 DEF BudgetsOK, BudgetsKept
<1>2. CASE \E m \in Meshes, bytes \in MeshSizes : CreateMesh(m, bytes)
  <2>1. PICK m \in Meshes, bytes \in MeshSizes : CreateMesh(m, bytes)
    BY <1>2
  <2>2. /\ phase # "ended" /\ phase' = phase /\ m \notin meshes
        /\ mesh' = With(mesh, m, bytes) /\ meshBytes' = meshBytes + bytes
        /\ meshBytes + bytes <= MaxMeshBytes
    BY <2>1 DEF CreateMesh, Active, Inv, UsedOK
  <2>3. bytes \in Nat
    OBVIOUS
  <2>4. /\ DOMAIN mesh' = DOMAIN mesh \cup {m} /\ mesh'[m] = bytes
        /\ \A y \in DOMAIN mesh : y # m => mesh'[y] = mesh[y]
    BY <2>2 DEF With
  <2>5. m \notin DOMAIN mesh
    BY <2>2 DEF meshes
  <2>6. /\ IsFiniteSet(Bytes(mesh'))
        /\ Cardinality(Bytes(mesh')) = Cardinality(Bytes(mesh)) + bytes
    BY <2>3, <2>4, <2>5, BytesAdded DEF BudgetsOK
  <2> QED
    BY <2>2, <2>6 DEF BudgetsOK, BudgetsKept
<1>3. CASE \E m \in Meshes : MeshDispose(m)
  <2>1. PICK m \in Meshes : MeshDispose(m)
    BY <1>3
  <2>2. /\ phase # "ended" /\ phase' = phase /\ m \in DOMAIN mesh
        /\ mesh' = Without(mesh, m) /\ meshBytes' = meshBytes - mesh[m]
    BY <2>1 DEF MeshDispose, Active, meshes
  <2>3. mesh[m] \in Nat
    BY <2>2, Typed DEF Inv, meshes
  <2>4. DOMAIN mesh' = DOMAIN mesh \ {m} /\ \A y \in DOMAIN mesh' : mesh'[y] = mesh[y]
    BY <2>2, WithoutDoes
  <2>5. /\ IsFiniteSet(Bytes(mesh'))
        /\ Cardinality(Bytes(mesh')) = Cardinality(Bytes(mesh)) - mesh[m]
    BY <2>2, <2>3, <2>4, BytesRemoved DEF BudgetsOK
  <2>6. meshBytes \in Int
    BY Typed DEF Inv
  <2> QED
    BY LimitsAssumption, <2>2, <2>3, <2>5, <2>6 DEF BudgetsOK, BudgetsKept
<1>4. CASE Dispose
  <2>1. phase' = "ended" /\ DOMAIN mesh' = {}
    BY <1>4 DEF Dispose
  <2> QED
    BY <2>1, NoBytes
<1>5. \/ \E m \in Meshes, bytes \in MeshSizes : CreateMesh(m, bytes)
      \/ \E m \in Meshes : MeshDispose(m)
      \/ Dispose
      \/ mesh' = mesh /\ meshBytes' = meshBytes /\ (phase = "ended" => phase' = "ended")
  BY DEF Next, Call, Image, ImageArrives, ImageFails, LoadError, Stop, NodeAdd, NodeRemove,
         ShaderSet, TextureLoad, TextureDispose, SetupEnds, AwaitSetupAssets, Render,
         DrawItem, EndFrame, vars
<1> QED
  BY <1>1, <1>2, <1>3, <1>4, <1>5

LEMMA ImageBudget ==
  ASSUME Inv, BudgetsOK, [Next]_vars
  PROVE  /\ IsFiniteSet(Bytes(Images'))
         /\ \A t \in DOMAIN texture' :
              texture'[t].load = "started" => texture'[t].bytes = 0
         /\ textureBytes' = Cardinality(Bytes(Images')) /\ textureBytes' <= MaxTextureBytes
<1>0. /\ IsFiniteSet(Bytes(Images)) /\ textureBytes = Cardinality(Bytes(Images))
      /\ textureBytes <= MaxTextureBytes /\ textureBytes \in Int
      /\ \A t \in DOMAIN texture : texture[t].load = "started" => texture[t].bytes = 0
      /\ texture \in [DOMAIN texture -> TextureRecord] /\ DOMAIN texture \subseteq Textures
  BY Typed DEF BudgetsOK, BudgetsKept, Inv
<1>1. CASE UNCHANGED <<textures, texture, textureBytes>>
  <2>1. Loaded' = Loaded
    BY <1>1, LiveStays
  <2>2. Images' = Images
    BY <1>1, <2>1 DEF Images
  <2> QED
    BY <1>0, <1>1, <2>2
<1>2. CASE \E t \in Textures, k \in Keys : TextureLoad(t, k)
  <2>1. PICK t \in Textures, k \in Keys : TextureLoad(t, k)
    BY <1>2
  <2>2. /\ DOMAIN texture' = DOMAIN texture \cup {t} /\ t \notin DOMAIN texture
        /\ ~Live(t) /\ \A x \in DOMAIN texture : texture'[x] = texture[x]
        /\ \A x : Live(x)' <=> Live(x) \/ x = t
    BY <2>1, LoadDoes
  <2>3. texture'[t].bytes = 0
    <3>1. texture'[t] = [key |-> k, bytes |-> 0, loaded |-> FALSE, disposed |-> FALSE,
                         load |-> "started", early |-> startupPhase]
      BY <2>1, LoadDoes
    <3> QED
      BY <3>1
  <2>4. Loaded' = Loaded \cup {t} /\ t \notin Loaded /\ Loaded \subseteq DOMAIN texture
    BY <2>2 DEF Loaded, Live
  <2>5. /\ DOMAIN Images = Loaded /\ DOMAIN Images' = Loaded'
        /\ Images'[t] = 0 /\ \A x \in Loaded : Images'[x] = Images[x]
    BY <2>2, <2>3, <2>4 DEF Images
  <2>6. /\ IsFiniteSet(Bytes(Images'))
        /\ Cardinality(Bytes(Images')) = Cardinality(Bytes(Images)) + 0
    <3> DEFINE f == Images
               g == Images'
    <3>1. /\ IsFiniteSet(Bytes(f)) /\ t \in DOMAIN g /\ g[t] = 0
          /\ DOMAIN g \ {t} = DOMAIN f \ {t} /\ \A y \in DOMAIN f \ {t} : g[y] = f[y]
          /\ t \notin DOMAIN f
      BY <1>0, <2>4, <2>5
    <3> HIDE DEF f, g
    <3>2. IsFiniteSet(Bytes(g)) /\ Cardinality(Bytes(g)) = Cardinality(Bytes(f)) + 0
      BY <3>1, BytesAdded
    <3> QED
      BY <3>2 DEF f, g
  <2>7. textureBytes' = textureBytes
    BY <2>1 DEF TextureLoad
  <2> QED
    BY <1>0, <2>2, <2>3, <2>6, <2>7
<1>3. CASE \E t \in Textures : TextureDispose(t)
  <2>1. PICK t \in Textures : TextureDispose(t)
    BY <1>3
  <2>2. /\ DOMAIN texture' = DOMAIN texture /\ Live(t)
        /\ \A x \in DOMAIN texture : x # t => texture'[x] = texture[x]
        /\ \A x : Live(x)' <=> Live(x) /\ x # t
    BY <2>1, DisposeDoes
  <2>3. texture[t].bytes \in Nat /\ t \in DOMAIN texture
    <3>1. t \in DOMAIN texture /\ texture[t] \in TextureRecord
      BY <2>2, LiveFacts
    <3>2. texture[t].bytes \in ImageSizes \cup {0}
      BY <3>1 DEF TextureRecord
    <3>3. ImageSizes \cup {0} \subseteq Nat
      OBVIOUS
    <3> QED
      BY ONLY <3>1, <3>2, <3>3
  <2>4. Loaded' = Loaded \ {t} /\ t \in Loaded /\ Loaded \subseteq DOMAIN texture
    BY <2>2 DEF Loaded, Live
  <2>5. /\ DOMAIN Images = Loaded /\ DOMAIN Images' = Loaded'
        /\ Images[t] = texture[t].bytes /\ \A x \in Loaded' : Images'[x] = Images[x]
    BY <2>2, <2>4 DEF Images
  <2>6. /\ IsFiniteSet(Bytes(Images'))
        /\ Cardinality(Bytes(Images')) = Cardinality(Bytes(Images)) - texture[t].bytes
    <3> DEFINE f == Images
               g == Images'
    <3>1. /\ IsFiniteSet(Bytes(f)) /\ t \in DOMAIN f /\ f[t] = texture[t].bytes
          /\ DOMAIN g = DOMAIN f \ {t} /\ \A y \in DOMAIN g : g[y] = f[y]
      BY <1>0, <2>4, <2>5
    <3> HIDE DEF f, g
    <3>2. IsFiniteSet(Bytes(g)) /\ Cardinality(Bytes(g)) = Cardinality(Bytes(f)) - f[t]
      BY <2>3, <3>1, BytesRemoved
    <3> QED
      BY <3>1, <3>2 DEF f, g
  <2>7. textureBytes' = textureBytes - texture[t].bytes
    BY <2>1 DEF TextureDispose
  <2>8. ASSUME NEW x \in DOMAIN texture', texture'[x].load = "started"
        PROVE  texture'[x].bytes = 0
    <3>1. texture' = [texture EXCEPT ![t].disposed = TRUE]
      BY <2>1 DEF TextureDispose
    <3>2. texture[x] \in TextureRecord /\ x \in DOMAIN texture
      BY <1>0, <2>2
    <3>3. texture'[x].load = texture[x].load /\ texture'[x].bytes = texture[x].bytes
      BY <3>1, <3>2 DEF TextureRecord
    <3> QED
      BY <1>0, <2>8, <3>2, <3>3
  <2> QED
    BY LimitsAssumption, <1>0, <2>3, <2>6, <2>7, <2>8
<1>4. CASE Dispose
  <2>1. Loaded' = {} /\ DOMAIN texture' = DOMAIN texture /\ textureBytes' = 0
    BY <1>4, EndDoes DEF Loaded, Dispose
  <2>2. ASSUME NEW f, f = Images' PROVE IsFiniteSet(Bytes(f)) /\ Cardinality(Bytes(f)) = 0
    <3>1. DOMAIN f = {}
      BY <2>1, <2>2 DEF Images
    <3> QED
      BY <3>1, NoBytes
  <2>3. ASSUME NEW x \in DOMAIN texture', texture'[x].load = "started"
        PROVE  texture'[x].bytes = 0
    <3>1. x \in DOMAIN texture /\ texture[x] \in TextureRecord
      BY <1>0, <2>1
    <3>2. texture'[x] = [texture[x] EXCEPT !.disposed = @ \/ Live(x)]
      BY <1>4, <3>1 DEF Dispose
    <3>3. texture'[x].load = texture[x].load /\ texture'[x].bytes = texture[x].bytes
      BY <3>1, <3>2 DEF TextureRecord
    <3> QED
      BY <1>0, <2>3, <3>1, <3>3
  <2> QED
    BY LimitsAssumption, <2>1, <2>2, <2>3
<1>5. CASE \E t \in Textures : Image(t)
  <2>1. PICK t \in Textures : Image(t)
    BY <1>5
  <2>2. /\ t \in DOMAIN texture /\ texture[t].load = "started"
        /\ DOMAIN texture' = DOMAIN texture
        /\ \A x \in DOMAIN texture : x # t => texture'[x] = texture[x]
        /\ texture'[t].load # "started" /\ Loaded' = Loaded
    BY <2>1, ImageDoes
  <2>3. texture[t].bytes = 0 /\ texture[t] \in TextureRecord
    BY <1>0, <2>2
  <2>4. ASSUME NEW x \in DOMAIN texture', texture'[x].load = "started"
        PROVE  texture'[x].bytes = 0
    BY <1>0, <2>2, <2>4
  <2>5. /\ DOMAIN Images = Loaded /\ DOMAIN Images' = Loaded
        /\ \A x \in Loaded : Images[x] = texture[x].bytes /\ Images'[x] = texture'[x].bytes
        /\ Loaded \subseteq DOMAIN texture
    BY <2>2 DEF Images, Loaded, Live
  <2>6. CASE (\E outcome \in {"done", "failed"} : Settle(t, outcome))
             /\ textureBytes' = textureBytes
    <3>1. texture'[t].bytes = texture[t].bytes
      BY <1>0, <2>2, <2>3, <2>6 DEF Settle, TextureRecord
    <3>2. Images' = Images
      BY <2>2, <2>5, <3>1 DEF Images
    <3> QED
      BY <1>0, <2>4, <2>6, <3>2
  <2>7. CASE \E bytes \in ImageSizes :
               /\ Live(t) /\ textureBytes + bytes <= MaxTextureBytes
               /\ texture' = [texture EXCEPT ![t].load = "done", ![t].loaded = TRUE,
                                             ![t].bytes = bytes]
               /\ textureBytes' = textureBytes + bytes
    <3>1. PICK bytes \in ImageSizes :
               /\ Live(t) /\ textureBytes + bytes <= MaxTextureBytes
               /\ texture' = [texture EXCEPT ![t].load = "done", ![t].loaded = TRUE,
                                             ![t].bytes = bytes]
               /\ textureBytes' = textureBytes + bytes
      BY <2>7
    <3>2. texture'[t].bytes = bytes /\ bytes \in Nat
      BY <1>0, <2>2, <2>3, <3>1 DEF TextureRecord
    <3>3. t \in Loaded
      BY <3>1 DEF Loaded
    <3> DEFINE f == Images
               g == Images'
    <3>4. /\ IsFiniteSet(Bytes(f)) /\ t \in DOMAIN g /\ g[t] = bytes
          /\ DOMAIN g \ {t} = DOMAIN f \ {t} /\ \A y \in DOMAIN f \ {t} : g[y] = f[y]
          /\ f[t] = 0
      BY <1>0, <2>2, <2>3, <2>5, <3>2, <3>3
    <3> HIDE DEF f, g
    <3>5. IsFiniteSet(Bytes(g)) /\ Cardinality(Bytes(g)) = Cardinality(Bytes(f)) + bytes
      BY <3>2, <3>4, BytesAdded
    <3> QED
      BY <1>0, <2>4, <3>1, <3>5 DEF f, g
  <2>8. \/ (\E outcome \in {"done", "failed"} : Settle(t, outcome))
           /\ textureBytes' = textureBytes
        \/ \E bytes \in ImageSizes :
               /\ Live(t) /\ textureBytes + bytes <= MaxTextureBytes
               /\ texture' = [texture EXCEPT ![t].load = "done", ![t].loaded = TRUE,
                                             ![t].bytes = bytes]
               /\ textureBytes' = textureBytes + bytes
    BY <2>1 DEF Image, ImageArrives, ImageFails
  <2> QED
    BY <2>6, <2>7, <2>8
<1>6. \/ UNCHANGED <<textures, texture, textureBytes>>
      \/ \E t \in Textures, k \in Keys : TextureLoad(t, k)
      \/ \E t \in Textures : TextureDispose(t)
      \/ Dispose
      \/ \E t \in Textures : Image(t)
  BY DEF Next, Call, LoadError, Stop, CreateMesh, MeshDispose, NodeAdd, NodeRemove,
         ShaderSet, SetupEnds, AwaitSetupAssets, Render, DrawItem, EndFrame, vars
<1> QED
  BY <1>1, <1>2, <1>3, <1>4, <1>5, <1>6

(* The limits of resourceLimits are held: what meshBytes and textureBytes  *)
(* say is the bytes of what is there, for images that arrive in any order, *)
(* and after the texture was disposed of and asked for again.              *)
THEOREM BudgetsAreKept == Spec => []BudgetsKept
<1>1. Init => BudgetsOK
  <2> SUFFICES ASSUME Init PROVE BudgetsOK
    OBVIOUS
  <2>1. /\ DOMAIN texture = {} /\ DOMAIN mesh = {} /\ meshBytes = 0 /\ textureBytes = 0
    BY DEF Init
  <2>2. DOMAIN Images = {}
    BY <2>1 DEF Images, Loaded, Live
  <2> QED
    BY <2>1, <2>2, NoBytes, LimitsAssumption DEF BudgetsOK, BudgetsKept
<1>2. Inv /\ BudgetsOK /\ [Next]_vars => BudgetsOK'
  <2> SUFFICES ASSUME Inv, BudgetsOK, [Next]_vars PROVE BudgetsOK'
    OBVIOUS
  <2>1. Bytes(mesh)' = Bytes(mesh') /\ Bytes(Images)' = Bytes(Images')
    BY DEF Bytes
  <2> QED
    BY <2>1, MeshBudget, ImageBudget DEF BudgetsOK, BudgetsKept
<1>3. BudgetsOK => BudgetsKept
  BY DEF BudgetsOK
<1> QED
  BY <1>1, <1>2, <1>3, InvHolds, PTL DEF Spec
=============================================================================
