--------------------------- MODULE ShaderUniforms ---------------------------
(***************************************************************************)
(* What the shader programs of a session hold: WebGL2ShaderRegistry        *)
(* (runtime/src/shader.ts), the part of WebGLStateCache                    *)
(* (runtime/src/webgl-state.ts) that concerns programs and textures, and   *)
(* how scene.ts and session.ts call them in a frame.  Every call that is   *)
(* not made is one that a cache believes redundant, so the caches are      *)
(* checked against the context that they stand for.  Textures are not      *)
(* disposed of, and uniform calls do not fail.                             *)
(***************************************************************************)
EXTENDS Integers, Sequences, FiniteSets

CONSTANTS
  Shaders,   \* linked shader pairs
  Other,     \* the programs of the renderer and of basic materials
  Bindings,  \* Bindings[s]: the active uniforms of s, in the order of the artifact
  KindOf,    \* KindOf[u]: "clock", "matrix", "plain" or "texture"
  Nodes,     \* retained nodes with a shader material
  ShaderOf,  \* ShaderOf[n]: the shader of the material of n
  Times,     \* values of clocks (u_time, u_resolution)
  Matrices,  \* values of transforms
  Identity,
  Values,    \* values of plain user uniforms
  Textures,
  Foreign,   \* a texture or program of outside code
  Default,   \* WebGL's value of a uniform that was never set; no texture
  Unset,     \* no entry in a map
  Units,     \* texture units, from 0
  Scenes,    \* the scenes considered: [nodes, textures, times,
             \* matrices, units], the last four those that may be used
  Debugging, \* the builds considered: debug (TRUE) and release (FALSE)
  Policies   \* the values of externalWebGLPolicy considered

UniformsOf(s) == {Bindings[s][i] : i \in 1..Len(Bindings[s])}
Automatic(u) == KindOf[u] \in {"clock", "matrix"}
ValuesFor(u) == IF KindOf[u] = "texture" THEN Textures ELSE Values

ASSUME KindsAssumption ==
  \A s \in Shaders : \A u \in UniformsOf(s) :
    KindOf[u] \in {"clock", "matrix", "plain", "texture"}
ASSUME BindingsAssumption ==
  /\ \A s \in Shaders :
       /\ Bindings[s] \in Seq(DOMAIN KindOf)
       /\ \A i, j \in 1..Len(Bindings[s]) : Bindings[s][i] = Bindings[s][j] => i = j
  /\ \A n \in Nodes : ShaderOf[n] \in Shaders
ASSUME NamesAssumption ==
  /\ Other \notin Shaders /\ Foreign \notin Shaders \cup Textures \cup {Other}
  /\ Unset \notin Shaders \cup Textures \cup Values \cup Times \cup Matrices
                 \cup Units \cup {Foreign, Other}
  /\ Default \notin Textures \cup Values \cup Times \cup Matrices
  /\ Identity \in Matrices
ASSUME OptionsAssumption ==
  Debugging \subseteq BOOLEAN /\ Policies \subseteq {"exclusive", "reset"}
ASSUME ScenesAssumption ==
  \A sc \in Scenes : /\ sc.nodes \subseteq Nodes /\ sc.textures \subseteq Textures
                     /\ sc.times \subseteq Times /\ sc.matrices \subseteq Matrices
                     /\ sc.units \subseteq Units
ASSUME UnitsAssumption ==
  /\ Units \subseteq Nat /\ 0 \in Units
  /\ \A s \in Shaders :
       0..(Cardinality({i \in 1..Len(Bindings[s]) : KindOf[Bindings[s][i]] = "texture"}) - 1)
         \subseteq Units

VARIABLES
  gl,      \* the context: its program, active unit, textures, and uniforms held
  cache,   \* WebGLStateCache: what is believed of the program and textures
  shader,  \* LinkedShader of each shader
  node,    \* uniforms and model of each node
  image,   \* of each texture: "none" before it is created, "pixel", "decoded"
  clock,   \* elapsed seconds
  frame,   \* what render is doing
  scene, debug, policy  \* options

options == <<scene, debug, policy>>
vars == <<gl, cache, shader, node, image, clock, frame, options>>

\* The shaders linked for the scene.
InScene == {ShaderOf[n] : n \in scene.nodes}

NoValues(s) == [u \in UniformsOf(s) |-> Unset]
Linked(s) == [user |-> NoValues(s), dirty |-> {}, isSet |-> FALSE,
              draw |-> NoValues(s), last |-> Unset]
Unknown == [program |-> Unset, unit |-> Unset, bound |-> [t \in Units |-> Unset]]
Idle == [phase |-> "idle", todo |-> {}, at |-> Unset, drawn |-> Unset,
         index |-> 1, unit |-> 0]
Bare(n) == [uniforms |-> NoValues(ShaderOf[n]), model |-> Identity]

Init ==
  /\ scene \in Scenes /\ clock \in scene.times
  /\ gl = [program |-> Default, unit |-> 0, bound |-> [t \in Units |-> Default],
           held |-> [s \in InScene |-> [u \in UniformsOf(s) |->
                       IF KindOf[u] = "texture" THEN 0 ELSE Default]]]
  /\ cache = Unknown
  /\ shader = [s \in InScene |-> Linked(s)]
  /\ node = [n \in scene.nodes |-> Bare(n)]
  /\ image = [t \in scene.textures |-> "none"]
  /\ frame = Idle
  /\ debug \in Debugging /\ policy \in Policies

----------------------------------------------------------------------------
(* WebGLStateCache, on a context x and what is believed of it *)

Context == [gl |-> gl, cache |-> cache]

UseProgram(x, p) ==
  IF x.cache.program = p THEN x
  ELSE [gl |-> [x.gl EXCEPT !.program = p], cache |-> [x.cache EXCEPT !.program = p]]

ActivateTexture(x, t) ==
  IF x.cache.unit = t THEN x
  ELSE [gl |-> [x.gl EXCEPT !.unit = t], cache |-> [x.cache EXCEPT !.unit = t]]

BindTexture(x, texture) ==
  IF x.cache.bound[x.cache.unit] = texture THEN x
  ELSE [gl |-> [x.gl EXCEPT !.bound[x.gl.unit] = texture],
        cache |-> [x.cache EXCEPT !.bound[x.cache.unit] = texture]]

\* A uniform call; WebGL refuses it when another program is in use.
SetUniformValue(x, s, u, value) ==
  IF x.gl.program = s THEN [x EXCEPT !.gl.held[s][u] = value] ELSE x

\* uploadUser
UploadUser(x, s, u, value, t) ==
  IF KindOf[u] = "texture"
    THEN SetUniformValue(BindTexture(ActivateTexture(x, t), value), s, u, t)
    ELSE SetUniformValue(x, s, u, value)

----------------------------------------------------------------------------
(* The program, between frames *)

InUse(x) == gl' = x.gl /\ cache' = x.cache

\* A value that the program can have: of textures, one that was created.
Available(u, value) ==
  value \in ValuesFor(u) /\ (KindOf[u] = "texture" => image[value] # "none")

\* invalidateWebGLState: the caches forget all they believe.
Forgotten(S) ==
  [s \in InScene |->
     [S[s] EXCEPT !.last = Unset, !.draw = NoValues(s),
                  !.dirty = @ \cup {u \in UniformsOf(s) : S[s].user[u] # Unset}]]

\* setUniform, the global surface.
SetUniform(s, u, value) ==
  /\ frame = Idle
  /\ u \in UniformsOf(s) /\ ~Automatic(u) /\ Available(u, value)
  /\ shader' = [shader EXCEPT ![s].user[u] = value, ![s].isSet = TRUE,
                  ![s].dirty = IF shader[s].user[u] = value THEN @ ELSE @ \cup {u}]
  /\ UNCHANGED <<gl, cache, node, image, clock, frame, options>>

\* shaderSet, of a value or of a texture.
ShaderSet(n, u, value) ==
  /\ frame = Idle
  /\ u \in UniformsOf(ShaderOf[n]) /\ ~Automatic(u) /\ Available(u, value)
  /\ node' = [node EXCEPT ![n].uniforms[u] = value]
  /\ UNCHANGED <<gl, cache, shader, image, clock, frame, options>>

\* position, rotation, scale or the camera.
Move(n, m) ==
  /\ frame = Idle
  /\ node' = [node EXCEPT ![n].model = m]
  /\ UNCHANGED <<gl, cache, shader, image, clock, frame, options>>

\* node_remove and a new node with the same material.
Renew(n) ==
  /\ frame = Idle
  /\ node' = [node EXCEPT ![n] = Bare(n)]
  /\ UNCHANGED <<gl, cache, shader, image, clock, frame, options>>

\* The renderer's flush in a callback, which was prepared for.
DrawShapes ==
  /\ frame = Idle
  /\ IF policy = "reset"
       THEN InUse(UseProgram([Context EXCEPT !.cache = Unknown], Other))
            /\ shader' = Forgotten(shader)
       ELSE InUse(UseProgram(Context, Other)) /\ UNCHANGED shader
  /\ UNCHANGED <<node, image, clock, frame, options>>

\* texImage2D fills the texture that is bound to the active unit.
Fill(x, texture) == InUse(BindTexture(ActivateTexture(x, 0), texture))

\* textureLoad, called by the program: the callback it is called from was
\* prepared for (prepareForUserCallback).
CreateTexture(texture) ==
  /\ frame = Idle /\ image[texture] = "none"
  /\ image' = [image EXCEPT ![texture] = "pixel"]
  /\ IF policy = "reset"
       THEN Fill([Context EXCEPT !.cache = Unknown], texture) /\ shader' = Forgotten(shader)
       ELSE Fill(Context, texture) /\ UNCHANGED shader
  /\ UNCHANGED <<node, clock, frame, options>>

\* loadTexture, when the image has been decoded: between frames.
TextureDecoded(texture) ==
  /\ frame = Idle /\ image[texture] = "pixel"
  /\ image' = [image EXCEPT ![texture] = "decoded"]
  /\ Fill(Context, texture)
  /\ UNCHANGED <<shader, node, clock, frame, options>>

\* Mutant of Outside: bindings are believed all the same.
OutsideKeepingBindings(t) ==
  /\ frame = Idle
  /\ gl' = [gl EXCEPT !.program = Foreign, !.unit = t, !.bound[t] = Foreign]
  /\ IF policy = "exclusive"
       THEN cache' = [Unknown EXCEPT !.bound = cache.bound] /\ shader' = Forgotten(shader)
       ELSE UNCHANGED <<cache, shader>>
  /\ UNCHANGED <<node, image, clock, frame, options>>

\* Outside code uses the context.  In the exclusive mode it says so afterwards.
Outside(t) ==
  /\ frame = Idle
  /\ gl' = [gl EXCEPT !.program = Foreign, !.unit = t, !.bound[t] = Foreign]
  /\ IF policy = "exclusive"
       THEN cache' = Unknown /\ shader' = Forgotten(shader)
       ELSE UNCHANGED <<cache, shader>>
  /\ UNCHANGED <<node, image, clock, frame, options>>

----------------------------------------------------------------------------
(* render: the global surface of every shader, then the nodes.  A step is    *)
(* one turn of the loop over the uniforms.                                   *)

Binding == Bindings[frame.at][frame.index]
Stepped(units) == frame' = [frame EXCEPT !.index = @ + 1, !.unit = @ + units]
Fails == frame' = [Idle EXCEPT !.phase = "failed"]

Render(now) ==
  /\ frame = Idle
  /\ clock' = now
  /\ frame' = [Idle EXCEPT !.phase = "global", !.todo = InScene]
  /\ IF policy = "reset" THEN cache' = Unknown /\ shader' = Forgotten(shader)
                         ELSE UNCHANGED <<cache, shader>>
  /\ UNCHANGED <<gl, node, image, options>>

\* updateAutomaticUniforms takes the next shader; its program is put to use
\* with the first upload.
NextShader(s) ==
  /\ frame.phase = "global" /\ frame.at = Unset /\ s \in frame.todo
  /\ frame' = [frame EXCEPT !.at = s, !.index = 1, !.unit = 0]
  /\ UNCHANGED <<gl, cache, shader, node, image, clock, options>>

InGlobal == frame.phase = "global" /\ frame.at # Unset /\ frame.index <= Len(Bindings[frame.at])

\* globalAutomaticChanged: transforms count as changed only the first time.
Changed(s, u) ==
  \/ shader[s].last = Unset
  \/ KindOf[u] = "clock" /\ shader[s].last # clock

\* Mutant of GlobalAutomatic: what the last draw uploaded is still believed.
GlobalAutomaticKeeping ==
  /\ InGlobal /\ Automatic(Binding)
  /\ IF Changed(frame.at, Binding)
       THEN /\ InUse(SetUniformValue(UseProgram(Context, frame.at), frame.at, Binding,
                       IF KindOf[Binding] = "clock" THEN clock ELSE Identity))
            /\ UNCHANGED shader
       ELSE UNCHANGED <<gl, cache, shader>>
  /\ Stepped(0)
  /\ UNCHANGED <<node, image, clock, options>>

GlobalAutomatic ==
  /\ InGlobal /\ Automatic(Binding)
  /\ IF Changed(frame.at, Binding)
       THEN /\ InUse(SetUniformValue(UseProgram(Context, frame.at), frame.at, Binding,
                       IF KindOf[Binding] = "clock" THEN clock ELSE Identity))
            /\ shader' = [shader EXCEPT ![frame.at].draw[Binding] = Unset]
       ELSE UNCHANGED <<gl, cache, shader>>
  /\ Stepped(0)
  /\ UNCHANGED <<node, image, clock, options>>

\* A user uniform that has no global value, or one that is not dirty: of these
\* textures use up a unit all the same.
GlobalSkipped ==
  /\ InGlobal /\ ~Automatic(Binding)
  /\ LET value == shader[frame.at].user[Binding]
     IN \/ /\ value = Unset
           /\ IF debug /\ shader[frame.at].isSet THEN Fails ELSE Stepped(0)
        \/ /\ value # Unset /\ Binding \notin shader[frame.at].dirty
           /\ Stepped(IF KindOf[Binding] = "texture" THEN 1 ELSE 0)
  /\ UNCHANGED <<gl, cache, shader, node, image, clock, options>>

\* A dirty user uniform is uploaded, and what a draw uploaded is forgotten.
GlobalUser ==
  /\ InGlobal /\ ~Automatic(Binding)
  /\ LET s == frame.at
         value == shader[s].user[Binding]
     IN /\ value # Unset /\ Binding \in shader[s].dirty
        /\ InUse(UploadUser(UseProgram(Context, s), s, Binding, value, frame.unit))
        /\ shader' = [shader EXCEPT ![s].dirty = @ \ {Binding}, ![s].draw[Binding] = Unset]
  /\ Stepped(IF KindOf[Binding] = "texture" THEN 1 ELSE 0)
  /\ UNCHANGED <<node, image, clock, options>>

ShaderDone ==
  /\ frame.phase = "global" /\ frame.at # Unset
  /\ frame.index > Len(Bindings[frame.at])
  /\ shader' = [shader EXCEPT ![frame.at].last = clock]
  /\ frame' = [frame EXCEPT !.at = Unset, !.todo = @ \ {frame.at}]
  /\ UNCHANGED <<gl, cache, node, image, clock, options>>

\* The nodes are drawn, in some order.
DrawScene ==
  /\ frame.phase = "global" /\ frame.at = Unset /\ frame.todo = {}
  /\ frame' = [Idle EXCEPT !.phase = "draw", !.todo = scene.nodes]
  /\ UNCHANGED <<gl, cache, shader, node, image, clock, options>>

\* bindForDraw
BindForDraw(n) ==
  /\ frame.phase = "draw" /\ frame.at = Unset /\ n \in frame.todo
  /\ InUse(UseProgram(Context, ShaderOf[n]))
  /\ frame' = [frame EXCEPT !.at = ShaderOf[n], !.drawn = n, !.index = 1, !.unit = 0]
  /\ UNCHANGED <<shader, node, image, clock, options>>

\* A node with a basic material.
DrawBasic ==
  /\ frame.phase = "draw" /\ frame.at = Unset
  /\ InUse(UseProgram(Context, Other))
  /\ UNCHANGED <<shader, node, image, clock, frame, options>>

InDraw == frame.phase = "draw" /\ frame.at # Unset /\ frame.index <= Len(Bindings[frame.at])

AutomaticValue(n, u) == IF KindOf[u] = "clock" THEN clock ELSE node[n].model

\* An upload is left out if the last draw made the same.
DrawAutomatic ==
  /\ InDraw /\ Automatic(Binding)
  /\ LET value == AutomaticValue(frame.drawn, Binding)
     IN IF shader[frame.at].draw[Binding] = value
          THEN UNCHANGED <<gl, cache, shader>>
          ELSE /\ InUse(SetUniformValue(Context, frame.at, Binding, value))
               /\ shader' = [shader EXCEPT ![frame.at].draw[Binding] = value]
  /\ Stepped(0)
  /\ UNCHANGED <<node, image, clock, options>>

\* Mutant of DrawUser: textures are left out like other values.
DrawUserCached ==
  /\ InDraw /\ ~Automatic(Binding)
  /\ LET s == frame.at
         value == node[frame.drawn].uniforms[Binding]
     IN \/ /\ value = Unset
           /\ IF debug THEN Fails ELSE Stepped(0)
           /\ UNCHANGED <<gl, cache, shader>>
        \/ /\ value # Unset /\ shader[s].draw[Binding] = value
           /\ Stepped(0)
           /\ UNCHANGED <<gl, cache, shader>>
        \/ /\ value # Unset /\ shader[s].draw[Binding] # value
           /\ InUse(UploadUser(Context, s, Binding, value, frame.unit))
           /\ shader' = [shader EXCEPT ![s].draw[Binding] = value]
           /\ Stepped(IF KindOf[Binding] = "texture" THEN 1 ELSE 0)
  /\ UNCHANGED <<node, image, clock, options>>

\* What the node does not set stays as it is, or fails in a debug build;
\* textures are always bound again.
DrawUser ==
  /\ InDraw /\ ~Automatic(Binding)
  /\ LET s == frame.at
         value == node[frame.drawn].uniforms[Binding]
     IN \/ /\ value = Unset
           /\ IF debug THEN Fails ELSE Stepped(0)
           /\ UNCHANGED <<gl, cache, shader>>
        \/ /\ value # Unset
           /\ KindOf[Binding] # "texture" /\ shader[s].draw[Binding] = value
           /\ Stepped(0)
           /\ UNCHANGED <<gl, cache, shader>>
        \/ /\ value # Unset
           /\ KindOf[Binding] = "texture" \/ shader[s].draw[Binding] # value
           /\ InUse(UploadUser(Context, s, Binding, value, frame.unit))
           /\ shader' = [shader EXCEPT ![s].draw[Binding] = value]
           /\ Stepped(IF KindOf[Binding] = "texture" THEN 1 ELSE 0)
  /\ UNCHANGED <<node, image, clock, options>>

\* drawElements, with all that bindForDraw has seen to.
Draws == frame.phase = "draw" /\ frame.at # Unset /\ frame.index > Len(Bindings[frame.at])

Draw ==
  /\ Draws
  /\ frame' = [frame EXCEPT !.at = Unset, !.drawn = Unset, !.todo = @ \ {frame.drawn}]
  /\ UNCHANGED <<gl, cache, shader, node, image, clock, options>>

\* The end of render: the renderer flushes the shapes there are.
Rendered ==
  /\ frame.phase = "draw" /\ frame.at = Unset /\ frame.todo = {}
  /\ frame' = Idle
  /\ (UNCHANGED <<gl, cache>>) \/ InUse(UseProgram(Context, Other))
  /\ UNCHANGED <<shader, node, image, clock, options>>

\* The session has failed and stopped.
Failed == frame.phase = "failed" /\ UNCHANGED vars

----------------------------------------------------------------------------
Program ==
  \/ \E s \in InScene : \E u \in UniformsOf(s) : \E v \in ValuesFor(u) : SetUniform(s, u, v)
  \/ \E n \in scene.nodes : \E u \in UniformsOf(ShaderOf[n]) : \E v \in ValuesFor(u) : ShaderSet(n, u, v)
  \/ \E n \in scene.nodes : Renew(n) \/ \E m \in scene.matrices : Move(n, m)
  \/ DrawShapes
  \/ \E t \in scene.textures : CreateTexture(t) \/ TextureDecoded(t)
  \/ \E t \in scene.units : Outside(t)

Frame ==
  \/ \E now \in scene.times : Render(now)
  \/ \E s \in InScene : NextShader(s)
  \/ GlobalAutomatic \/ GlobalSkipped \/ GlobalUser \/ ShaderDone
  \/ DrawScene \/ \E n \in scene.nodes : BindForDraw(n)
  \/ DrawBasic \/ DrawAutomatic \/ DrawUser \/ Draw \/ Rendered
  \/ Failed

Next == Program \/ Frame

Spec == Init /\ [][Next]_vars

----------------------------------------------------------------------------
(* Properties *)

Held(u) == IF KindOf[u] = "texture" THEN Units
           ELSE Values \cup Times \cup Matrices \cup {Default}
Uploaded(u) == IF KindOf[u] = "texture" THEN Textures
               ELSE Values \cup Times \cup Matrices

\* Types; a shader has no texture beyond the units there are.
TypeOK ==
  /\ gl.program \in Shaders \cup {Other, Foreign, Default} /\ gl.unit \in Units
  /\ gl.bound \in [Units -> Textures \cup {Foreign, Default}]
  /\ \A s \in InScene : \A u \in UniformsOf(s) :
       /\ gl.held[s][u] \in Held(u)
       /\ shader[s].user[u] \in ValuesFor(u) \cup {Unset}
       /\ shader[s].draw[u] \in Uploaded(u) \cup {Unset}
  /\ \A s \in InScene : /\ shader[s].dirty \subseteq UniformsOf(s)
                        /\ shader[s].last \in Times \cup {Unset}
                        /\ shader[s].isSet \in BOOLEAN
  /\ cache.program \in Shaders \cup {Other, Unset} /\ cache.unit \in Units \cup {Unset}
  /\ cache.bound \in [Units -> Textures \cup {Unset}]
  /\ \A n \in scene.nodes : /\ node[n].model \in Matrices
                      /\ \A u \in UniformsOf(ShaderOf[n]) :
                           node[n].uniforms[u] \in ValuesFor(u) \cup {Unset}
  /\ clock \in Times /\ image \in [scene.textures -> {"none", "pixel", "decoded"}]
  /\ frame.phase \in {"idle", "global", "draw", "failed"}
  /\ frame.at # Unset /\ frame.index <= Len(Bindings[frame.at])
     /\ KindOf[Binding] = "texture" => frame.unit \in Units

\* docs/resource-lifecycle.md:35-36: "If outside code uses the same context,
\* call invalidateWebGLState afterward or select per-frame reset."  Wherever
\* the caches are used in a frame, and always in the exclusive mode, what they
\* believe is so.
CachesAreRight ==
  /\ policy = "exclusive" \/ frame.phase \in {"global", "draw"} =>
       /\ cache.program \in {gl.program, Unset}
       /\ cache.unit \in {gl.unit, Unset}
       /\ \A t \in Units : cache.bound[t] \in {gl.bound[t], Unset}
  /\ \A s \in InScene : \A u \in UniformsOf(s) :
       KindOf[u] # "texture" => shader[s].draw[u] \in {gl.held[s][u], Unset}

\* The state of the context and what the caches make of it.
StateOK == TypeOK /\ CachesAreRight

\* What a draw sees.
Seen(s, u) == IF KindOf[u] = "texture" THEN gl.bound[gl.held[s][u]] ELSE gl.held[s][u]

\* docs/runtime.md:72-74: "A retained node instead receives its actual model,
\* view, and projection matrices at draw time."  At every draw the program in
\* use is that of the node, with the values of the node, whatever was drawn,
\* set or skipped before.
DrawsSeeTheirNode ==
  Draws =>
    /\ gl.program = frame.at
    /\ \A u \in UniformsOf(frame.at) :
         /\ Automatic(u) => Seen(frame.at, u) = AutomaticValue(frame.drawn, u)
         /\ ~Automatic(u) /\ node[frame.drawn].uniforms[u] # Unset =>
              Seen(frame.at, u) = node[frame.drawn].uniforms[u]

\* The pixels of a texture that is created or decoded are put into it.
Filled == gl'.bound[gl'.unit]

\* initializeTexture and its late counterpart: pixels reach the texture they are
\* meant for, whatever was bound before, in the exclusive mode.
UploadsReachTheirTexture ==
  [][\A t \in scene.textures :
       policy = "exclusive" /\ (CreateTexture(t) \/ TextureDecoded(t)) => Filled = t]_vars
=============================================================================
