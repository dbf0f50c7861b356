------------------------ MODULE ShaderUniformsProofs ------------------------
(***************************************************************************)
(* Proofs about ShaderUniforms, for any shaders with any uniforms, any     *)
(* nodes, textures and values.  The invariant adds to what the caches       *)
(* believe what a draw has seen to so far: of every uniform that the loop   *)
(* over the bindings has passed, what the program will read is what its    *)
(* node asks for.  That stays so because a texture takes the next unit,    *)
(* and a uniform occurs once in the bindings of its shader.                *)
(***************************************************************************)
EXTENDS ShaderUniforms, FiniteSetTheorems, TLAPS

\* What the values of programs, uniforms and uploads are, of whatever kind.
Programs == Shaders \cup {Other, Foreign, Default}
AnyUniform == Textures \cup Values \cup {Unset}
AnyUpload == Textures \cup Values \cup Times \cup Matrices \cup {Unset}

USE KindsAssumption, BindingsAssumption, NamesAssumption, OptionsAssumption,
    ScenesAssumption, UnitsAssumption

----------------------------------------------------------------------------
(* A context and what is believed of it *)

\* x has the fields of a context and its caches.
Shaped(x) ==
  x = [gl |-> [program |-> x.gl.program, unit |-> x.gl.unit, bound |-> x.gl.bound,
               held |-> x.gl.held],
       cache |-> [program |-> x.cache.program, unit |-> x.cache.unit,
                  bound |-> x.cache.bound]]

\* The uniforms that the programs of S hold, and the types of a context.
HeldOK(held, S) ==
  /\ DOMAIN held = S
  /\ \A s \in S : DOMAIN held[s] = UniformsOf(s) /\ \A u \in UniformsOf(s) : held[s][u] \in Held(u)

ContextOK(x, S) ==
  /\ Shaped(x)
  /\ x.gl.program \in Programs /\ x.gl.unit \in Units
  /\ x.gl.bound \in [Units -> Textures \cup {Foreign, Default}]
  /\ HeldOK(x.gl.held, S)
  /\ x.cache.program \in Shaders \cup {Other, Unset} /\ x.cache.unit \in Units \cup {Unset}
  /\ x.cache.bound \in [Units -> Textures \cup {Unset}]

\* What is believed is so.
Agrees(x) ==
  /\ x.cache.program \in {x.gl.program, Unset}
  /\ x.cache.unit \in {x.gl.unit, Unset}
  /\ \A t \in Units : x.cache.bound[t] \in {x.gl.bound[t], Unset}

\* The context after a step that uses it.
LEMMA InUseDoes ==
  ASSUME NEW x, Shaped(x), InUse(x)
  PROVE  [gl |-> gl', cache |-> cache'] = x
BY DEF InUse, Shaped

\* How an update inside a field of a context is made.
LEMMA NestedUpdates ==
  ASSUME NEW p, NEW t, NEW b, NEW h, NEW q, NEW v, NEW k, NEW i, NEW w, NEW g, NEW c,
         g = [program |-> p, unit |-> t, bound |-> b, held |-> h],
         c = [program |-> q, unit |-> v, bound |-> k]
  PROVE  /\ [g EXCEPT !.bound[i] = w] =
              [program |-> p, unit |-> t, bound |-> [b EXCEPT ![i] = w], held |-> h]
         /\ [c EXCEPT !.bound[i] = w] =
              [program |-> q, unit |-> v, bound |-> [k EXCEPT ![i] = w]]
         /\ \A s, u : [g EXCEPT !.held[s][u] = w] =
              [program |-> p, unit |-> t, bound |-> b,
               held |-> [h EXCEPT ![s] = [@ EXCEPT ![u] = w]]]
<1>1. [g EXCEPT !.bound[i] = w] =
              [program |-> p, unit |-> t, bound |-> [b EXCEPT ![i] = w], held |-> h]
  OBVIOUS
<1>2. [c EXCEPT !.bound[i] = w] =
              [program |-> q, unit |-> v, bound |-> [k EXCEPT ![i] = w]]
  OBVIOUS
<1>3. ASSUME NEW s, NEW u
      PROVE  [g EXCEPT !.held[s][u] = w] =
              [program |-> p, unit |-> t, bound |-> b,
               held |-> [h EXCEPT ![s] = [@ EXCEPT ![u] = w]]]
  OBVIOUS
<1> QED
  BY <1>1, <1>2, <1>3

\* useProgram, activateTexture, bindTexture and a uniform call: what each
\* leaves alone, and that what is believed stays true.
LEMMA UseDoes ==
  ASSUME NEW x, NEW S, ContextOK(x, S), NEW p \in Shaders \cup {Other}
  PROVE  /\ ContextOK(UseProgram(x, p), S)
         /\ UseProgram(x, p).gl.held = x.gl.held /\ UseProgram(x, p).gl.bound = x.gl.bound
         /\ Agrees(x) => /\ Agrees(UseProgram(x, p))
                         /\ UseProgram(x, p).gl.program = p
<1>1. CASE x.cache.program = p
  <2>1. UseProgram(x, p) = x
    BY <1>1 DEF UseProgram
  <2>2. Agrees(x) => x.gl.program = p
    BY <1>1 DEF Agrees
  <2> QED
    BY <2>1, <2>2
<1>2. CASE x.cache.program # p
  <2> DEFINE y == [gl |-> [program |-> p, unit |-> x.gl.unit, bound |-> x.gl.bound,
                           held |-> x.gl.held],
                   cache |-> [program |-> p, unit |-> x.cache.unit, bound |-> x.cache.bound]]
  <2>1. UseProgram(x, p) = y
    BY <1>2 DEF UseProgram, ContextOK, Shaped
  <2>2. ContextOK(y, S)
    BY DEF ContextOK, Shaped, Programs
  <2>3. Agrees(x) => Agrees(y)
    BY DEF Agrees
  <2> QED
    BY <2>1, <2>2, <2>3
<1> QED
  BY <1>1, <1>2

LEMMA ActivateDoes ==
  ASSUME NEW x, NEW S, ContextOK(x, S), NEW t \in Units
  PROVE  /\ ContextOK(ActivateTexture(x, t), S)
         /\ ActivateTexture(x, t).gl.held = x.gl.held
         /\ ActivateTexture(x, t).gl.bound = x.gl.bound
         /\ ActivateTexture(x, t).gl.program = x.gl.program
         /\ ActivateTexture(x, t).cache.unit = t
         /\ Agrees(x) => /\ Agrees(ActivateTexture(x, t))
                         /\ ActivateTexture(x, t).gl.unit = t
<1>1. CASE x.cache.unit = t
  <2>1. ActivateTexture(x, t) = x
    BY <1>1 DEF ActivateTexture
  <2>2. Agrees(x) => x.gl.unit = t
    BY <1>1 DEF Agrees
  <2> QED
    BY <1>1, <2>1, <2>2
<1>2. CASE x.cache.unit # t
  <2> DEFINE y == [gl |-> [program |-> x.gl.program, unit |-> t, bound |-> x.gl.bound,
                           held |-> x.gl.held],
                   cache |-> [program |-> x.cache.program, unit |-> t, bound |-> x.cache.bound]]
  <2>1. ActivateTexture(x, t) = y
    BY <1>2 DEF ActivateTexture, ContextOK, Shaped
  <2>2. ContextOK(y, S)
    BY DEF ContextOK, Shaped
  <2>3. Agrees(x) => Agrees(y)
    BY DEF Agrees
  <2> QED
    BY <2>1, <2>2, <2>3
<1> QED
  BY <1>1, <1>2

\* After the unit has been activated.
LEMMA BindDoes ==
  ASSUME NEW x, NEW S, ContextOK(x, S), x.cache.unit \in Units, NEW texture \in Textures
  PROVE  /\ ContextOK(BindTexture(x, texture), S)
         /\ BindTexture(x, texture).gl.held = x.gl.held
         /\ BindTexture(x, texture).gl.program = x.gl.program
         /\ BindTexture(x, texture).gl.unit = x.gl.unit
         /\ \A t \in Units : t # x.gl.unit =>
              BindTexture(x, texture).gl.bound[t] = x.gl.bound[t]
         /\ Agrees(x) => /\ Agrees(BindTexture(x, texture))
                         /\ BindTexture(x, texture).gl.bound[x.gl.unit] = texture
<1>0. x.gl.unit \in Units
  BY DEF ContextOK
<1>1. CASE x.cache.bound[x.cache.unit] = texture
  <2>1. BindTexture(x, texture) = x
    BY <1>1 DEF BindTexture
  <2>2. Agrees(x) => x.gl.bound[x.gl.unit] = texture
    <3> SUFFICES ASSUME Agrees(x) PROVE x.gl.bound[x.gl.unit] = texture
      OBVIOUS
    <3>1. x.cache.unit = x.gl.unit
      BY DEF Agrees
    <3> QED
      BY <1>0, <1>1, <3>1 DEF Agrees
  <2> QED
    BY <2>1, <2>2
<1>2. CASE x.cache.bound[x.cache.unit] # texture
  <2> DEFINE g == [x.gl.bound EXCEPT ![x.gl.unit] = texture]
             c == [x.cache.bound EXCEPT ![x.cache.unit] = texture]
             y == [gl |-> [program |-> x.gl.program, unit |-> x.gl.unit, bound |-> g,
                           held |-> x.gl.held],
                   cache |-> [program |-> x.cache.program, unit |-> x.cache.unit, bound |-> c]]
  <2>1. BindTexture(x, texture) = y
    <3>1. /\ x.gl = [program |-> x.gl.program, unit |-> x.gl.unit, bound |-> x.gl.bound,
                    held |-> x.gl.held]
          /\ x.cache = [program |-> x.cache.program, unit |-> x.cache.unit,
                        bound |-> x.cache.bound]
      BY DEF ContextOK, Shaped
    <3>2. /\ [x.gl EXCEPT !.bound[x.gl.unit] = texture] = y.gl
          /\ [x.cache EXCEPT !.bound[x.cache.unit] = texture] = y.cache
      BY <3>1, NestedUpdates
    <3> QED
      BY <1>2, <3>2 DEF BindTexture
  <2>2. /\ g \in [Units -> Textures \cup {Foreign, Default}] /\ g[x.gl.unit] = texture
        /\ \A t \in Units : t # x.gl.unit => g[t] = x.gl.bound[t]
    BY <1>0 DEF ContextOK
  <2>3. /\ c \in [Units -> Textures \cup {Unset}] /\ c[x.cache.unit] = texture
        /\ \A t \in Units : t # x.cache.unit => c[t] = x.cache.bound[t]
    BY DEF ContextOK
  <2> HIDE DEF g, c
  <2>4. ContextOK(y, S)
    BY <2>2, <2>3 DEF ContextOK, Shaped
  <2>5. Agrees(x) => Agrees(y)
    <3> SUFFICES ASSUME Agrees(x) PROVE Agrees(y)
      OBVIOUS
    <3>1. x.cache.unit = x.gl.unit
      BY DEF Agrees
    <3>2. ASSUME NEW t \in Units PROVE c[t] \in {g[t], Unset}
      BY <2>2, <2>3, <3>1 DEF Agrees
    <3> QED
      BY <3>2 DEF Agrees
  <2> QED
    BY <2>1, <2>2, <2>4, <2>5
<1> QED
  BY <1>1, <1>2

LEMMA SetDoes ==
  ASSUME NEW x, NEW S, ContextOK(x, S), NEW s \in S, NEW u \in UniformsOf(s),
         NEW value \in Held(u)
  PROVE  /\ ContextOK(SetUniformValue(x, s, u, value), S)
         /\ SetUniformValue(x, s, u, value).gl.program = x.gl.program
         /\ SetUniformValue(x, s, u, value).gl.bound = x.gl.bound
         /\ Agrees(x) => Agrees(SetUniformValue(x, s, u, value))
         /\ \A r \in S : \A w \in UniformsOf(r) : r # s \/ w # u =>
              SetUniformValue(x, s, u, value).gl.held[r][w] = x.gl.held[r][w]
         /\ x.gl.program = s => SetUniformValue(x, s, u, value).gl.held[s][u] = value
<1>1. CASE x.gl.program # s
  BY <1>1 DEF SetUniformValue
<1>2. CASE x.gl.program = s
  <2> DEFINE h == [x.gl.held EXCEPT ![s] = [@ EXCEPT ![u] = value]]
             y == [gl |-> [program |-> x.gl.program, unit |-> x.gl.unit, bound |-> x.gl.bound,
                           held |-> h],
                   cache |-> [program |-> x.cache.program, unit |-> x.cache.unit,
                              bound |-> x.cache.bound]]
  <2>1. SetUniformValue(x, s, u, value) = y
    <3>1. /\ x.gl = [program |-> x.gl.program, unit |-> x.gl.unit, bound |-> x.gl.bound,
                    held |-> x.gl.held]
          /\ x.cache = y.cache
      BY DEF ContextOK, Shaped
    <3>2. [x.gl EXCEPT !.held[s][u] = value] = y.gl
      BY <3>1, NestedUpdates
    <3>3. [x EXCEPT !.gl.held[s][u] = value] =
            [gl |-> [x.gl EXCEPT !.held[s][u] = value], cache |-> x.cache]
      BY DEF ContextOK, Shaped
    <3> QED
      BY <1>2, <3>1, <3>2, <3>3 DEF SetUniformValue
  <2>2. HeldOK(x.gl.held, S)
    BY DEF ContextOK
  <2>3. HeldOK(h, S)
    BY <2>2 DEF HeldOK
  <2>4. /\ h[s][u] = value
        /\ \A r \in S : \A w \in UniformsOf(r) : r # s \/ w # u => h[r][w] = x.gl.held[r][w]
    BY <2>2 DEF HeldOK
  <2> HIDE DEF h
  <2>5. ContextOK(y, S)
    BY <2>3 DEF ContextOK, Shaped
  <2>6. Agrees(x) => Agrees(y)
    BY DEF Agrees
  <2> QED
    BY <2>1, <2>4, <2>5, <2>6
<1> QED
  BY <1>1, <1>2

\* uploadUser
LEMMA UploadDoes ==
  ASSUME NEW x, NEW S, ContextOK(x, S), NEW s \in S, NEW u \in UniformsOf(s),
         NEW value \in Uploaded(u), NEW t, KindOf[u] = "texture" => t \in Units
  PROVE  /\ ContextOK(UploadUser(x, s, u, value, t), S)
         /\ Agrees(x) => Agrees(UploadUser(x, s, u, value, t))
         /\ UploadUser(x, s, u, value, t).gl.program = x.gl.program
         /\ \A r \in S : \A w \in UniformsOf(r) : r # s \/ w # u =>
              UploadUser(x, s, u, value, t).gl.held[r][w] = x.gl.held[r][w]
         /\ KindOf[u] # "texture" =>
              /\ UploadUser(x, s, u, value, t).gl.bound = x.gl.bound
              /\ x.gl.program = s => UploadUser(x, s, u, value, t).gl.held[s][u] = value
         /\ KindOf[u] = "texture" /\ Agrees(x) =>
              /\ \A i \in Units : i # t => UploadUser(x, s, u, value, t).gl.bound[i] = x.gl.bound[i]
              /\ UploadUser(x, s, u, value, t).gl.bound[t] = value
              /\ x.gl.program = s => UploadUser(x, s, u, value, t).gl.held[s][u] = t
<1>1. CASE KindOf[u] # "texture"
  <2>1. value \in Held(u)
    BY <1>1 DEF Held, Uploaded
  <2>2. UploadUser(x, s, u, value, t) = SetUniformValue(x, s, u, value)
    BY <1>1 DEF UploadUser
  <2> QED
    BY <1>1, <2>1, <2>2, SetDoes
<1>2. CASE KindOf[u] = "texture"
  <2>1. value \in Textures /\ t \in Held(u) /\ t \in Units
    BY <1>2 DEF Held, Uploaded
  <2>2. PICK a : a = ActivateTexture(x, t)
    OBVIOUS
  <2>3. /\ ContextOK(a, S) /\ a.gl.held = x.gl.held /\ a.gl.bound = x.gl.bound
        /\ a.gl.program = x.gl.program /\ a.cache.unit = t
        /\ Agrees(x) => Agrees(a) /\ a.gl.unit = t
    BY <2>1, <2>2, ActivateDoes
  <2>4. PICK b : b = BindTexture(a, value)
    OBVIOUS
  <2>5. /\ ContextOK(b, S) /\ b.gl.held = a.gl.held /\ b.gl.program = a.gl.program
        /\ \A i \in Units : i # a.gl.unit => b.gl.bound[i] = a.gl.bound[i]
        /\ Agrees(a) => Agrees(b) /\ b.gl.bound[a.gl.unit] = value
    BY <2>1, <2>3, <2>4, BindDoes
  <2>6. UploadUser(x, s, u, value, t) = SetUniformValue(b, s, u, t)
    BY <1>2, <2>2, <2>4 DEF UploadUser
  <2>7. PICK c : c = SetUniformValue(b, s, u, t)
    OBVIOUS
  <2>8. /\ ContextOK(c, S) /\ c.gl.program = b.gl.program /\ c.gl.bound = b.gl.bound
        /\ Agrees(b) => Agrees(c)
        /\ \A r \in S : \A w \in UniformsOf(r) : r # s \/ w # u => c.gl.held[r][w] = b.gl.held[r][w]
        /\ b.gl.program = s => c.gl.held[s][u] = t
    BY <2>1, <2>5, <2>7, SetDoes
  <2> QED
    BY <1>2, <2>3, <2>5, <2>6, <2>7, <2>8
<1> QED
  BY <1>1, <1>2

----------------------------------------------------------------------------
(* The invariant *)

\* Types of a LinkedShader and of a node.
LinkedOK(l, s) ==
  /\ l \in [user : [UniformsOf(s) -> AnyUniform], dirty : SUBSET UniformsOf(s),
            isSet : BOOLEAN, draw : [UniformsOf(s) -> AnyUpload], last : Times \cup {Unset}]
  /\ \A u \in UniformsOf(s) : /\ l.user[u] \in ValuesFor(u) \cup {Unset}
                              /\ l.draw[u] \in Uploaded(u) \cup {Unset}

ShadersOK == DOMAIN shader = InScene /\ \A s \in InScene : LinkedOK(shader[s], s)

NodeOK(x, s) ==
  /\ x \in [uniforms : [UniformsOf(s) -> AnyUniform], model : Matrices]
  /\ \A u \in UniformsOf(s) : x.uniforms[u] \in ValuesFor(u) \cup {Unset}

NodesOK == DOMAIN node = scene.nodes /\ \A n \in scene.nodes : NodeOK(node[n], ShaderOf[n])

OptionsOK ==
  /\ scene \in Scenes /\ debug \in BOOLEAN /\ policy \in {"exclusive", "reset"}
  /\ clock \in Times /\ image \in [scene.textures -> {"none", "pixel", "decoded"}]

\* What a shader believes of the last draw.
DrawsKnown ==
  \A s \in InScene : \A u \in UniformsOf(s) :
    KindOf[u] # "texture" => shader[s].draw[u] \in {gl.held[s][u], Unset}

\* Where the caches are relied on, they are right.
Believed == policy = "exclusive" \/ frame.phase \in {"global", "draw"} => Agrees(Context)

\* The texture uniforms of s before the i-th: as many units are taken at most.
TexturesBefore(s, i) == {j \in 1..(i - 1) : KindOf[Bindings[s][j]] = "texture"}

\* Types of the frame, and where the loops are.
Frames ==
  [phase : {"idle", "global", "draw", "failed"}, todo : SUBSET (Shaders \cup Nodes),
   at : InScene \cup {Unset}, drawn : scene.nodes \cup {Unset},
   index : Nat \ {0}, unit : Nat]

FrameOK ==
  /\ frame \in Frames
  /\ frame.phase = "global" => frame.todo \subseteq InScene
  /\ frame.phase = "draw" => frame.todo \subseteq scene.nodes
  /\ frame.at # Unset =>
       /\ frame.phase \in {"global", "draw"}
       /\ frame.index <= Len(Bindings[frame.at]) + 1
       /\ frame.unit <= Cardinality(TexturesBefore(frame.at, frame.index))

\* What a draw is going to see of a uniform that the loop has passed.
Passed(u) ==
  /\ Automatic(u) => gl.held[frame.at][u] = AutomaticValue(frame.drawn, u)
  /\ ~Automatic(u) /\ node[frame.drawn].uniforms[u] # Unset =>
       IF KindOf[u] = "texture"
         THEN /\ gl.held[frame.at][u] \in Units /\ gl.held[frame.at][u] < frame.unit
              /\ gl.bound[gl.held[frame.at][u]] = node[frame.drawn].uniforms[u]
         ELSE gl.held[frame.at][u] = node[frame.drawn].uniforms[u]

\* In a draw the program is that of the node, with what the loop has passed.
DrawOK ==
  frame.phase = "draw" /\ frame.at # Unset =>
    /\ frame.drawn \in scene.nodes /\ frame.at = ShaderOf[frame.drawn]
    /\ gl.program = frame.at
    /\ \A j \in 1..(frame.index - 1) : Passed(Bindings[frame.at][j])

\* The inductive invariant.
Inv ==
  /\ ContextOK(Context, InScene) /\ ShadersOK /\ NodesOK /\ OptionsOK
  /\ DrawsKnown /\ Believed /\ FrameOK /\ DrawOK

\* What the assumptions say of the scene and of a uniform.
LEMMA SceneFacts ==
  ASSUME OptionsOK
  PROVE  /\ scene.nodes \subseteq Nodes /\ scene.textures \subseteq Textures
         /\ scene.times \subseteq Times /\ scene.matrices \subseteq Matrices
         /\ scene.units \subseteq Units
         /\ InScene \subseteq Shaders /\ \A n \in scene.nodes : ShaderOf[n] \in InScene
BY DEF OptionsOK, InScene

LEMMA UniformFacts ==
  ASSUME NEW s \in Shaders
  PROVE  /\ \A i \in 1..Len(Bindings[s]) : Bindings[s][i] \in UniformsOf(s)
         /\ \A u \in UniformsOf(s) : \E i \in 1..Len(Bindings[s]) : Bindings[s][i] = u
         /\ \A u \in UniformsOf(s) :
              /\ KindOf[u] \in {"clock", "matrix", "plain", "texture"}
              /\ Unset \notin Uploaded(u) /\ ValuesFor(u) \subseteq AnyUniform
              /\ Uploaded(u) \subseteq AnyUpload
              /\ ~Automatic(u) => ValuesFor(u) \subseteq Uploaded(u)
              /\ KindOf[u] # "texture" => Uploaded(u) \subseteq Held(u)
         /\ Len(Bindings[s]) \in Nat
<1>1. Len(Bindings[s]) \in Nat
  OBVIOUS
<1>2. ASSUME NEW u \in UniformsOf(s)
      PROVE  /\ KindOf[u] \in {"clock", "matrix", "plain", "texture"}
             /\ Unset \notin Uploaded(u) /\ ValuesFor(u) \subseteq AnyUniform
             /\ Uploaded(u) \subseteq AnyUpload
             /\ ~Automatic(u) => ValuesFor(u) \subseteq Uploaded(u)
             /\ KindOf[u] # "texture" => Uploaded(u) \subseteq Held(u)
  BY DEF Uploaded, ValuesFor, AnyUniform, AnyUpload, Held
<1>3. /\ \A i \in 1..Len(Bindings[s]) : Bindings[s][i] \in UniformsOf(s)
      /\ \A u \in UniformsOf(s) : \E i \in 1..Len(Bindings[s]) : Bindings[s][i] = u
  BY DEF UniformsOf
<1> QED
  BY <1>1, <1>2, <1>3

\* A step that uses the context.
LEMMA ContextMoves ==
  ASSUME NEW x, ContextOK(x, InScene), InUse(x), scene' = scene
  PROVE  /\ gl' = x.gl /\ cache' = x.cache
         /\ ContextOK(Context, InScene)'
         /\ Agrees(x) => Agrees(Context)'
<1>1. gl' = x.gl /\ cache' = x.cache
  BY DEF InUse
<1>2. InScene' = InScene
  BY DEF InScene
<1>3. Context' = x
  BY <1>1 DEF Context, ContextOK, Shaped
<1>4. ContextOK(Context, InScene)' <=> ContextOK(x, InScene)
  BY <1>2, <1>3 DEF ContextOK, Shaped, HeldOK
<1>5. Agrees(Context)' <=> Agrees(x)
  BY <1>3 DEF Agrees
<1> QED
  BY <1>1, <1>4, <1>5

LEMMA ContextStays ==
  ASSUME ContextOK(Context, InScene), gl' = gl, cache' = cache, scene' = scene
  PROVE  ContextOK(Context, InScene)' /\ (Agrees(Context) => Agrees(Context)')
<1>1. InScene' = InScene /\ Context' = Context
  BY DEF InScene, Context
<1> QED
  BY <1>1 DEF ContextOK, Shaped, HeldOK, Agrees

\* The caches forget all they believe.
LEMMA NothingIsWrong ==
  ASSUME NEW x, ContextOK(x, InScene)
  PROVE  /\ ContextOK([x EXCEPT !.cache = Unknown], InScene)
         /\ Agrees([x EXCEPT !.cache = Unknown])
         /\ [x EXCEPT !.cache = Unknown].gl = x.gl
<1>1. [x EXCEPT !.cache = Unknown] = [gl |-> x.gl, cache |-> Unknown]
  BY DEF ContextOK, Shaped
<1>2. ContextOK([gl |-> x.gl, cache |-> Unknown], InScene)
  BY DEF ContextOK, Shaped, Unknown
<1>3. Agrees([gl |-> x.gl, cache |-> Unknown])
  BY DEF Agrees, Unknown
<1> QED
  BY <1>1, <1>2, <1>3

LEMMA ForgottenDoes ==
  ASSUME Inv, shader' = Forgotten(shader), scene' = scene
  PROVE  ShadersOK' /\ DrawsKnown'
<1>1. InScene' = InScene /\ InScene \subseteq Shaders
  BY SceneFacts DEF InScene, Inv
<1>2. ASSUME NEW s \in InScene
      PROVE  LinkedOK(shader'[s], s) /\ \A u \in UniformsOf(s) : shader'[s].draw[u] = Unset
  <2>1. LinkedOK(shader[s], s)
    BY DEF Inv, ShadersOK
  <2>2. PICK d : d = shader[s].dirty \cup {u \in UniformsOf(s) : shader[s].user[u] # Unset}
    OBVIOUS
  <2>3. shader'[s] = [user |-> shader[s].user, dirty |-> d, isSet |-> shader[s].isSet,
                      draw |-> NoValues(s), last |-> Unset]
    BY <2>1, <2>2 DEF LinkedOK, Forgotten
  <2>4. d \subseteq UniformsOf(s)
    BY <2>1, <2>2 DEF LinkedOK
  <2>5. NoValues(s) \in [UniformsOf(s) -> AnyUpload] /\ \A u \in UniformsOf(s) : NoValues(s)[u] = Unset
    BY DEF NoValues, AnyUpload
  <2> QED
    BY <2>1, <2>3, <2>4, <2>5 DEF LinkedOK
<1>3. DOMAIN shader' = InScene
  BY DEF Forgotten
<1> QED
  BY <1>1, <1>2, <1>3 DEF ShadersOK, DrawsKnown

LEMMA IdleIsFine ==
  ASSUME frame' = Idle
  PROVE  FrameOK' /\ DrawOK'
BY DEF FrameOK, Frames, DrawOK, Idle

LEMMA OptionsKept ==
  ASSUME OptionsOK, UNCHANGED <<scene, debug, policy, clock, image>>
  PROVE  OptionsOK'
BY DEF OptionsOK

LEMMA NodesKept ==
  ASSUME NodesOK, UNCHANGED <<scene, node>>
  PROVE  NodesOK'
BY DEF NodesOK

LEMMA ShadersKept ==
  ASSUME ShadersOK, UNCHANGED <<scene, shader>>
  PROVE  ShadersOK'
BY DEF ShadersOK, InScene

----------------------------------------------------------------------------
(* Between frames *)

LEMMA BelievedStays ==
  ASSUME Inv, UNCHANGED <<gl, cache, frame, options>>
  PROVE  ContextOK(Context, InScene)' /\ Believed'
<1>1. ContextOK(Context, InScene)' /\ (Agrees(Context) => Agrees(Context)')
  BY ContextStays DEF Inv, options
<1> QED
  BY <1>1 DEF Inv, Believed, options

LEMMA SetUniformKeeps ==
  ASSUME Inv, NEW s \in InScene, NEW u \in UniformsOf(s), NEW value \in ValuesFor(u),
         SetUniform(s, u, value)
  PROVE  Inv'
<1>1. /\ frame' = Idle /\ UNCHANGED <<gl, cache, node, image, clock, frame, options>>
      /\ shader' = [shader EXCEPT ![s].user[u] = value, ![s].isSet = TRUE,
                      ![s].dirty = IF shader[s].user[u] = value THEN @ ELSE @ \cup {u}]
  BY DEF SetUniform
<1>2. InScene' = InScene /\ InScene \subseteq Shaders
  BY <1>1, SceneFacts DEF InScene, Inv, options
<1>3. LinkedOK(shader[s], s) /\ DOMAIN shader = InScene
  BY DEF Inv, ShadersOK
<1>4. PICK d \in SUBSET UniformsOf(s) :
        shader' = [shader EXCEPT ![s].user[u] = value, ![s].isSet = TRUE, ![s].dirty = d]
  <2>1. CASE shader[s].user[u] = value
    BY <1>1, <1>3, <2>1 DEF LinkedOK
  <2>2. CASE shader[s].user[u] # value
    BY <1>1, <1>3, <2>2 DEF LinkedOK
  <2> QED
    BY <2>1, <2>2
<1>5. /\ shader'[s] = [user |-> [shader[s].user EXCEPT ![u] = value], dirty |-> d,
                       isSet |-> TRUE, draw |-> shader[s].draw, last |-> shader[s].last]
      /\ \A r \in InScene : r # s => shader'[r] = shader[r]
      /\ DOMAIN shader' = InScene
  BY <1>3, <1>4 DEF LinkedOK
<1>6. LinkedOK(shader'[s], s)
  <2>1. value \in AnyUniform
    BY <1>2, UniformFacts
  <2>2. /\ [shader[s].user EXCEPT ![u] = value] \in [UniformsOf(s) -> AnyUniform]
        /\ \A w \in UniformsOf(s) :
             [shader[s].user EXCEPT ![u] = value][w] \in ValuesFor(w) \cup {Unset}
    BY <1>3, <2>1 DEF LinkedOK
  <2> QED
    BY <1>3, <1>5, <2>2 DEF LinkedOK
<1>7. ShadersOK' /\ DrawsKnown'
  BY <1>1, <1>2, <1>5, <1>6 DEF Inv, ShadersOK, DrawsKnown
<1>8. ContextOK(Context, InScene)' /\ Believed'
  BY <1>1, BelievedStays
<1> QED
  BY <1>1, <1>7, <1>8, IdleIsFine, OptionsKept, NodesKept DEF Inv, options

LEMMA NodeChangeKeeps ==
  ASSUME Inv, frame = Idle, UNCHANGED <<gl, cache, shader, image, clock, frame, options>>,
         NEW n \in scene.nodes, DOMAIN node' = DOMAIN node, NodeOK(node'[n], ShaderOf[n]),
         \A x \in scene.nodes : x # n => node'[x] = node[x]
  PROVE  Inv'
<1>1. NodesOK'
  BY DEF Inv, NodesOK, options
<1>2. ContextOK(Context, InScene)' /\ Believed'
  BY BelievedStays
<1>3. DrawsKnown'
  BY DEF Inv, DrawsKnown, options, InScene
<1> QED
  BY <1>1, <1>2, <1>3, IdleIsFine, OptionsKept, ShadersKept DEF Inv, options

LEMMA NodeStepsKeep ==
  ASSUME Inv, NEW n \in scene.nodes,
         \/ \E u \in UniformsOf(ShaderOf[n]) : \E v \in ValuesFor(u) : ShaderSet(n, u, v)
         \/ \E m \in scene.matrices : Move(n, m)
         \/ Renew(n)
  PROVE  Inv'
<1>1. /\ frame = Idle /\ UNCHANGED <<gl, cache, shader, image, clock, frame, options>>
  BY DEF ShaderSet, Move, Renew
<1>2. /\ NodeOK(node[n], ShaderOf[n]) /\ DOMAIN node = scene.nodes /\ ShaderOf[n] \in Shaders
  BY SceneFacts DEF Inv, NodesOK
<1>3. CASE \E u \in UniformsOf(ShaderOf[n]) : \E v \in ValuesFor(u) : ShaderSet(n, u, v)
  <2>1. PICK u \in UniformsOf(ShaderOf[n]) : \E v \in ValuesFor(u) : ShaderSet(n, u, v)
    BY <1>3
  <2>2. PICK v \in ValuesFor(u) : node' = [node EXCEPT ![n].uniforms[u] = v]
    BY <2>1 DEF ShaderSet
  <2>3. v \in AnyUniform
    BY <1>2, UniformFacts
  <2>4. /\ node'[n] = [uniforms |-> [node[n].uniforms EXCEPT ![u] = v], model |-> node[n].model]
        /\ DOMAIN node' = DOMAIN node /\ \A x \in scene.nodes : x # n => node'[x] = node[x]
    BY <1>2, <2>2 DEF NodeOK
  <2>5. /\ [node[n].uniforms EXCEPT ![u] = v] \in [UniformsOf(ShaderOf[n]) -> AnyUniform]
        /\ \A w \in UniformsOf(ShaderOf[n]) :
             [node[n].uniforms EXCEPT ![u] = v][w] \in ValuesFor(w) \cup {Unset}
    BY <1>2, <2>3 DEF NodeOK
  <2>6. NodeOK(node'[n], ShaderOf[n])
    BY <1>2, <2>4, <2>5 DEF NodeOK
  <2> QED
    BY <1>1, <2>4, <2>6, NodeChangeKeeps
<1>4. CASE \E m \in scene.matrices : Move(n, m)
  <2>1. PICK m \in Matrices : node' = [node EXCEPT ![n].model = m]
    BY <1>4, SceneFacts DEF Move, Inv
  <2>2. /\ node'[n] = [uniforms |-> node[n].uniforms, model |-> m]
        /\ DOMAIN node' = DOMAIN node /\ \A x \in scene.nodes : x # n => node'[x] = node[x]
    BY <1>2, <2>1 DEF NodeOK
  <2>3. NodeOK(node'[n], ShaderOf[n])
    BY <1>2, <2>2 DEF NodeOK
  <2> QED
    BY <1>1, <2>2, <2>3, NodeChangeKeeps
<1>5. CASE Renew(n)
  <2>1. /\ node'[n] = Bare(n)
        /\ DOMAIN node' = DOMAIN node /\ \A x \in scene.nodes : x # n => node'[x] = node[x]
    BY <1>2, <1>5 DEF Renew
  <2>2. NodeOK(Bare(n), ShaderOf[n])
    BY DEF NodeOK, Bare, NoValues, AnyUniform
  <2> QED
    BY <1>1, <2>1, <2>2, NodeChangeKeeps
<1> QED
  BY <1>3, <1>4, <1>5

\* A step between frames that changes what is bound, not what is held.
LEMMA RebindKeeps ==
  ASSUME Inv, frame = Idle, UNCHANGED <<node, clock, frame, options>>,
         image' \in [scene.textures -> {"none", "pixel", "decoded"}],
         NEW x, ContextOK(x, InScene), InUse(x), x.gl.held = gl.held,
         policy = "exclusive" => Agrees(x),
         shader' = shader \/ shader' = Forgotten(shader)
  PROVE  Inv'
<1>1. /\ gl'.held = gl.held /\ ContextOK(Context, InScene)' /\ (Agrees(x) => Agrees(Context)')
      /\ InScene' = InScene
  BY ContextMoves DEF options, InScene
<1>2. Believed'
  BY <1>1 DEF Believed, options, Idle
<1>3. ShadersOK' /\ DrawsKnown'
  <2>1. CASE shader' = shader
    BY <1>1, <2>1 DEF Inv, ShadersOK, DrawsKnown
  <2>2. CASE shader' = Forgotten(shader)
    BY <2>2, ForgottenDoes DEF options
  <2> QED
    BY <2>1, <2>2
<1>4. OptionsOK'
  BY DEF Inv, OptionsOK, options
<1> QED
  BY <1>1, <1>2, <1>3, <1>4, IdleIsFine, NodesKept DEF Inv, options

\* Filling a texture makes it the one of the active unit.
LEMMA FillDoes ==
  ASSUME NEW x, ContextOK(x, InScene), NEW texture \in Textures
  PROVE  \E y : /\ Fill(x, texture) <=> InUse(y)
                /\ ContextOK(y, InScene) /\ y.gl.held = x.gl.held
                /\ Agrees(x) => Agrees(y) /\ y.gl.bound[y.gl.unit] = texture
<1>1. PICK a : a = ActivateTexture(x, 0)
  OBVIOUS
<1>2. /\ ContextOK(a, InScene) /\ a.gl.held = x.gl.held /\ a.cache.unit = 0 /\ 0 \in Units
      /\ Agrees(x) => Agrees(a)
  BY <1>1, ActivateDoes
<1>3. PICK y : y = BindTexture(a, texture)
  OBVIOUS
<1>4. /\ ContextOK(y, InScene) /\ y.gl.held = a.gl.held /\ y.gl.unit = a.gl.unit
      /\ Agrees(a) => Agrees(y) /\ y.gl.bound[a.gl.unit] = texture
  BY <1>2, <1>3, BindDoes
<1>5. Fill(x, texture) <=> InUse(y)
  BY <1>1, <1>3 DEF Fill
<1> QED
  BY <1>2, <1>4, <1>5

LEMMA DrawShapesKeeps ==
  ASSUME Inv, DrawShapes
  PROVE  Inv'
<1>1. /\ frame = Idle /\ UNCHANGED <<node, image, clock, frame, options>>
      /\ image' \in [scene.textures -> {"none", "pixel", "decoded"}]
  BY DEF DrawShapes, Inv, OptionsOK
<1>2. ContextOK(Context, InScene) /\ Context.gl = gl
  BY DEF Inv, Context
<1>3. CASE policy = "reset"
  <2>1. PICK c : c = [Context EXCEPT !.cache = Unknown]
    OBVIOUS
  <2>2. ContextOK(c, InScene) /\ Agrees(c) /\ c.gl = gl
    BY <1>2, <2>1, NothingIsWrong
  <2>3. PICK x : x = UseProgram(c, Other)
    OBVIOUS
  <2>4. ContextOK(x, InScene) /\ Agrees(x) /\ x.gl.held = gl.held
    BY <2>2, <2>3, UseDoes
  <2>5. InUse(x) /\ shader' = Forgotten(shader)
    BY <1>3, <2>1, <2>3 DEF DrawShapes
  <2> QED
    BY <1>1, <2>4, <2>5, RebindKeeps
<1>4. CASE policy # "reset"
  <2>1. policy = "exclusive" /\ Agrees(Context)
    BY <1>4 DEF Inv, OptionsOK, Believed
  <2>2. PICK x : x = UseProgram(Context, Other)
    OBVIOUS
  <2>3. ContextOK(x, InScene) /\ Agrees(x) /\ x.gl.held = gl.held
    BY <1>2, <2>1, <2>2, UseDoes
  <2>4. InUse(x) /\ shader' = shader
    BY <1>4, <2>2 DEF DrawShapes
  <2> QED
    BY <1>1, <2>3, <2>4, RebindKeeps
<1> QED
  BY <1>3, <1>4

LEMMA TextureStepsKeep ==
  ASSUME Inv, NEW texture \in scene.textures, CreateTexture(texture) \/ TextureDecoded(texture)
  PROVE  Inv' /\ (policy = "exclusive" => gl'.bound[gl'.unit] = texture)
<1>1. /\ frame = Idle /\ UNCHANGED <<node, clock, frame, options>> /\ texture \in Textures
      /\ image' \in [scene.textures -> {"none", "pixel", "decoded"}]
  BY SceneFacts DEF CreateTexture, TextureDecoded, Inv, OptionsOK
<1>2. ContextOK(Context, InScene) /\ Context.gl = gl
  BY DEF Inv, Context
<1>3. CASE policy = "reset" /\ CreateTexture(texture)
  <2>1. PICK c : c = [Context EXCEPT !.cache = Unknown]
    OBVIOUS
  <2>2. ContextOK(c, InScene) /\ Agrees(c) /\ c.gl = gl
    BY <1>2, <2>1, NothingIsWrong
  <2>3. Fill(c, texture) /\ shader' = Forgotten(shader)
    BY <1>3, <2>1 DEF CreateTexture
  <2>4. PICK x : InUse(x) /\ ContextOK(x, InScene) /\ x.gl.held = gl.held
    BY <1>1, <2>2, <2>3, FillDoes
  <2> QED
    BY <1>1, <1>3, <2>3, <2>4, RebindKeeps
<1>4. CASE ~(policy = "reset" /\ CreateTexture(texture))
  <2>1. Fill(Context, texture) /\ shader' = shader
    BY <1>4 DEF CreateTexture, TextureDecoded
  <2>2. PICK x : /\ InUse(x) /\ ContextOK(x, InScene) /\ x.gl.held = gl.held
                 /\ Agrees(Context) => Agrees(x) /\ x.gl.bound[x.gl.unit] = texture
    BY <1>1, <1>2, <2>1, FillDoes
  <2>3. policy = "exclusive" => Agrees(Context)
    BY DEF Inv, Believed
  <2>4. gl' = x.gl
    BY <2>2 DEF InUse
  <2> QED
    BY <1>1, <2>1, <2>2, <2>3, <2>4, RebindKeeps
<1> QED
  BY <1>3, <1>4

LEMMA OutsideKeeps ==
  ASSUME Inv, NEW t \in scene.units, Outside(t)
  PROVE  Inv'
<1>1. /\ frame = Idle /\ UNCHANGED <<node, image, clock, frame, options>> /\ t \in Units
      /\ gl' = [gl EXCEPT !.program = Foreign, !.unit = t, !.bound[t] = Foreign]
      /\ image' \in [scene.textures -> {"none", "pixel", "decoded"}]
  BY SceneFacts DEF Outside, Inv, OptionsOK
<1>2. PICK g : g = [gl.bound EXCEPT ![t] = Foreign]
  OBVIOUS
<1>3. /\ gl' = [program |-> Foreign, unit |-> t, bound |-> g, held |-> gl.held]
      /\ g \in [Units -> Textures \cup {Foreign, Default}]
  <2>1. gl = [program |-> gl.program, unit |-> gl.unit, bound |-> gl.bound, held |-> gl.held]
        /\ gl.bound \in [Units -> Textures \cup {Foreign, Default}]
    BY DEF Inv, ContextOK, Shaped, Context
  <2> QED
    BY <1>1, <1>2, <2>1
<1>4. CASE policy = "exclusive"
  <2>1. PICK x : x = [gl |-> gl', cache |-> Unknown]
    OBVIOUS
  <2>2. ContextOK(x, InScene) /\ Agrees(x) /\ x.gl.held = gl.held
    BY <1>1, <1>3, <2>1 DEF Inv, ContextOK, Shaped, Context, Unknown, Agrees, Programs
  <2>3. InUse(x) /\ shader' = Forgotten(shader)
    BY <1>4, <2>1 DEF Outside, InUse
  <2> QED
    BY <1>1, <2>2, <2>3, RebindKeeps
<1>5. CASE policy # "exclusive"
  <2>1. PICK x : x = [gl |-> gl', cache |-> cache]
    OBVIOUS
  <2>2. ContextOK(x, InScene) /\ x.gl.held = gl.held
    BY <1>1, <1>3, <2>1 DEF Inv, ContextOK, Shaped, Context, Programs
  <2>3. InUse(x) /\ shader' = shader
    BY <1>5, <2>1 DEF Outside, InUse
  <2> QED
    BY <1>1, <1>5, <2>2, <2>3, RebindKeeps
<1> QED
  BY <1>4, <1>5

----------------------------------------------------------------------------
(* Texture units *)

LEMMA SlotsFinite ==
  ASSUME NEW s \in Shaders, NEW i \in Nat \ {0}
  PROVE  /\ IsFiniteSet(TexturesBefore(s, i)) /\ Cardinality(TexturesBefore(s, i)) \in Nat
         /\ i \notin TexturesBefore(s, i)
<1>1. TexturesBefore(s, i) \subseteq 1..(i - 1) /\ i \notin 1..(i - 1)
  BY DEF TexturesBefore
<1>2. IsFiniteSet(1..(i - 1))
  BY FS_Interval
<1> QED
  BY <1>1, <1>2, FS_Subset, FS_CardinalityType

\* The loop never has more units in use than it has seen textures.
LEMMA SlotCounted ==
  ASSUME NEW s \in Shaders, NEW i \in 1..Len(Bindings[s]), NEW unit \in Nat,
         unit <= Cardinality(TexturesBefore(s, i))
  PROVE  /\ unit <= Cardinality(TexturesBefore(s, i + 1))
         /\ KindOf[Bindings[s][i]] = "texture" =>
              unit + 1 <= Cardinality(TexturesBefore(s, i + 1)) /\ unit \in Units
<1>1. i \in Nat \ {0} /\ i + 1 \in Nat \ {0} /\ Len(Bindings[s]) \in Nat
  OBVIOUS
<1>2. /\ IsFiniteSet(TexturesBefore(s, i)) /\ Cardinality(TexturesBefore(s, i)) \in Nat
      /\ i \notin TexturesBefore(s, i)
  BY <1>1, SlotsFinite
<1>3. CASE KindOf[Bindings[s][i]] # "texture"
  <2>1. TexturesBefore(s, i + 1) = TexturesBefore(s, i)
    BY <1>1, <1>3 DEF TexturesBefore
  <2> QED
    BY <1>3, <2>1
<1>4. CASE KindOf[Bindings[s][i]] = "texture"
  <2>1. TexturesBefore(s, i + 1) = TexturesBefore(s, i) \cup {i}
    BY <1>1, <1>4 DEF TexturesBefore
  <2>2. Cardinality(TexturesBefore(s, i + 1)) = Cardinality(TexturesBefore(s, i)) + 1
    BY <1>2, <2>1, FS_AddElement
  <2> DEFINE All == {j \in 1..Len(Bindings[s]) : KindOf[Bindings[s][j]] = "texture"}
  <2>3. IsFiniteSet(All) /\ Cardinality(All) \in Nat
    <3>1. IsFiniteSet(1..Len(Bindings[s]))
      <4>1. \A n \in Nat : IsFiniteSet(1..n)
        BY FS_Interval
      <4> QED
        BY <1>1, <4>1
    <3>2. All \subseteq 1..Len(Bindings[s])
      OBVIOUS
    <3> QED
      BY <3>1, <3>2, FS_Subset, FS_CardinalityType
  <2>4. TexturesBefore(s, i + 1) \subseteq All
    BY <1>1 DEF TexturesBefore
  <2>5. Cardinality(TexturesBefore(s, i + 1)) <= Cardinality(All)
    BY <2>3, <2>4, FS_Subset
  <2>6. 0..(Cardinality(All) - 1) \subseteq Units
    OBVIOUS
  <2> HIDE DEF All
  <2>7. unit \in 0..(Cardinality(All) - 1)
    BY <1>2, <2>2, <2>3, <2>5
  <2> QED
    BY <1>2, <2>2, <2>6, <2>7
<1> QED
  BY <1>3, <1>4

\* Where the loop over the uniforms is.
LEMMA LoopFacts ==
  ASSUME Inv, frame.at # Unset, frame.index <= Len(Bindings[frame.at])
  PROVE  /\ frame.at \in InScene /\ frame.at \in Shaders
         /\ frame.index \in 1..Len(Bindings[frame.at]) /\ frame.unit \in Nat
         /\ Binding = Bindings[frame.at][frame.index]
         /\ Binding \in UniformsOf(frame.at)
         /\ KindOf[Binding] = "texture" => frame.unit \in Units
<1>1. /\ frame.at \in InScene /\ frame.at \in Shaders
      /\ frame.index \in Nat \ {0} /\ frame.unit \in Nat
      /\ frame.unit <= Cardinality(TexturesBefore(frame.at, frame.index))
  BY SceneFacts DEF Inv, FrameOK, Frames
<1>2. PICK s \in Shaders : s = frame.at
  BY <1>1
<1>3. frame.index \in 1..Len(Bindings[s])
  BY <1>1, <1>2, UniformFacts
<1>4. Bindings[s][frame.index] \in UniformsOf(s)
  BY <1>3, UniformFacts
<1>5. KindOf[Bindings[s][frame.index]] = "texture" => frame.unit \in Units
  BY <1>1, <1>2, <1>3, SlotCounted
<1> QED
  BY <1>1, <1>2, <1>3, <1>4, <1>5 DEF Binding

LEMMA SteppedDoes ==
  ASSUME Inv, frame.at # Unset, frame.index <= Len(Bindings[frame.at]), scene' = scene,
         NEW k, k = 0 \/ (k = 1 /\ KindOf[Binding] = "texture"), Stepped(k)
  PROVE  /\ FrameOK'
         /\ frame'.phase = frame.phase /\ frame'.at = frame.at /\ frame'.drawn = frame.drawn
         /\ frame'.index = frame.index + 1 /\ frame'.unit = frame.unit + k
<1>1. /\ frame.at \in InScene /\ frame.at \in Shaders
      /\ frame.index \in 1..Len(Bindings[frame.at]) /\ frame.unit \in Nat
      /\ Binding = Bindings[frame.at][frame.index]
  BY LoopFacts
<1>2. /\ frame \in Frames
      /\ frame.unit <= Cardinality(TexturesBefore(frame.at, frame.index))
  BY DEF Inv, FrameOK, Frames
<1>3. /\ frame'.phase = frame.phase /\ frame'.at = frame.at /\ frame'.drawn = frame.drawn
      /\ frame'.index = frame.index + 1 /\ frame'.unit = frame.unit + k
      /\ frame'.todo = frame.todo
      /\ frame' \in Frames
  <2>1. frame = [phase |-> frame.phase, todo |-> frame.todo, at |-> frame.at,
                 drawn |-> frame.drawn, index |-> frame.index, unit |-> frame.unit]
    BY <1>2 DEF Frames
  <2>2. frame' = [phase |-> frame.phase, todo |-> frame.todo, at |-> frame.at,
                  drawn |-> frame.drawn, index |-> frame.index + 1, unit |-> frame.unit + k]
    BY <2>1 DEF Stepped
  <2>3. frame.index + 1 \in Nat \ {0} /\ frame.unit + k \in Nat
    BY <1>1
  <2> QED
    BY <1>2, <2>2, <2>3 DEF Frames
<1>4. PICK s \in Shaders : s = frame.at
  BY <1>1
<1>9. PICK i \in 1..Len(Bindings[s]) : i = frame.index
  BY <1>1, <1>4
<1>5. frame.unit + k <= Cardinality(TexturesBefore(s, i + 1))
  <2>1. frame.unit <= Cardinality(TexturesBefore(s, i))
    BY <1>2, <1>4, <1>9
  <2>2. /\ frame.unit <= Cardinality(TexturesBefore(s, i + 1))
        /\ KindOf[Bindings[s][i]] = "texture" =>
             frame.unit + 1 <= Cardinality(TexturesBefore(s, i + 1))
    BY <1>1, <2>1, SlotCounted
  <2>3. CASE k = 0
    BY <1>1, <2>2, <2>3
  <2>4. CASE k = 1 /\ KindOf[Binding] = "texture"
    BY <1>1, <1>4, <1>9, <2>2, <2>4
  <2> QED
    BY <2>3, <2>4
<1>6. InScene' = InScene
  BY DEF InScene
<1>7. i + 1 <= Len(Bindings[s]) + 1
  BY <1>4, <1>9, UniformFacts
<1>8. FrameOK'
  <2>1. /\ frame'.at # Unset /\ frame'.phase \in {"global", "draw"}
        /\ frame'.index <= Len(Bindings[frame'.at]) + 1
        /\ frame'.phase = "global" => frame'.todo \subseteq InScene
        /\ frame'.phase = "draw" => frame'.todo \subseteq scene.nodes
    BY <1>3, <1>4, <1>9, <1>7 DEF Inv, FrameOK, Frames
  <2>2. TexturesBefore(frame.at, frame.index)' = TexturesBefore(s, i + 1)
    BY <1>3, <1>4, <1>9 DEF TexturesBefore
  <2>3. frame'.unit <= Cardinality(TexturesBefore(frame.at, frame.index)')
    BY <1>3, <1>5, <2>2
  <2> QED
    BY <1>3, <1>6, <2>1, <2>3 DEF FrameOK, Frames
<1> QED
  BY <1>3, <1>8

LEMMA FailsIsFine ==
  ASSUME Fails
  PROVE  FrameOK' /\ DrawOK' /\ frame'.phase = "failed"
BY DEF Fails, Idle, FrameOK, Frames, DrawOK

----------------------------------------------------------------------------
(* The global surface *)

LEMMA RenderKeeps ==
  ASSUME Inv, NEW now \in scene.times, Render(now)
  PROVE  Inv'
<1>1. /\ frame = Idle /\ clock' = now /\ now \in Times
      /\ frame' = [Idle EXCEPT !.phase = "global", !.todo = InScene]
      /\ UNCHANGED <<gl, node, image, options>>
  BY SceneFacts DEF Render, Inv
<1>2. InScene' = InScene /\ InScene \subseteq Shaders
  BY <1>1, SceneFacts DEF InScene, options, Inv
<1>3. frame' = [phase |-> "global", todo |-> InScene, at |-> Unset, drawn |-> Unset,
                index |-> 1, unit |-> 0]
  BY <1>1 DEF Idle
<1>4. FrameOK' /\ DrawOK'
  BY <1>2, <1>3 DEF FrameOK, Frames, DrawOK
<1>5. OptionsOK'
  BY <1>1 DEF Inv, OptionsOK, options
<1>6. NodesOK'
  BY <1>1, NodesKept DEF Inv, options
<1>7. CASE policy = "reset"
  <2>1. cache' = Unknown /\ shader' = Forgotten(shader)
    BY <1>7 DEF Render
  <2>2. PICK x : x = [Context EXCEPT !.cache = Unknown]
    OBVIOUS
  <2>3. ContextOK(x, InScene) /\ Agrees(x) /\ x.gl = gl /\ x.cache = Unknown
    BY <2>2, NothingIsWrong DEF Inv, Context
  <2>4. InUse(x)
    BY <1>1, <2>1, <2>3 DEF InUse
  <2>5. ContextOK(Context, InScene)' /\ Believed'
    BY <1>1, <2>3, <2>4, ContextMoves DEF options, Believed
  <2>6. ShadersOK' /\ DrawsKnown'
    BY <1>1, <2>1, ForgottenDoes DEF options
  <2> QED
    BY <1>4, <1>5, <1>6, <2>5, <2>6 DEF Inv
<1>8. CASE policy # "reset"
  <2>1. cache' = cache /\ shader' = shader /\ policy = "exclusive"
    BY <1>8 DEF Render, Inv, OptionsOK
  <2>2. ContextOK(Context, InScene)' /\ Believed'
    BY <1>1, <2>1, ContextStays DEF options, Believed, Inv
  <2>3. ShadersOK' /\ DrawsKnown'
    BY <1>1, <1>2, <2>1, ShadersKept DEF Inv, options, DrawsKnown
  <2> QED
    BY <1>4, <1>5, <1>6, <2>2, <2>3 DEF Inv
<1> QED
  BY <1>7, <1>8

\* Steps that only go on: to a shader, to the nodes, past a uniform.
LEMMA GoesOn ==
  ASSUME Inv, UNCHANGED <<gl, cache, node, image, clock, options>>, FrameOK', DrawOK',
         frame'.phase \in {"global", "draw"} => frame.phase \in {"global", "draw"},
         ShadersOK', \A s \in InScene : \A u \in UniformsOf(s) : shader'[s].draw[u] = shader[s].draw[u]
  PROVE  Inv'
<1>1. InScene' = InScene
  BY DEF InScene, options
<1>2. ContextOK(Context, InScene)' /\ Believed'
  BY ContextStays DEF Inv, options, Believed
<1>3. DrawsKnown'
  BY <1>1 DEF Inv, DrawsKnown
<1> QED
  BY <1>2, <1>3, OptionsKept, NodesKept DEF Inv, options

LEMMA NextShaderKeeps ==
  ASSUME Inv, NEW s \in InScene, NextShader(s)
  PROVE  Inv'
<1>1. /\ frame.phase = "global" /\ frame' = [frame EXCEPT !.at = s, !.index = 1, !.unit = 0]
      /\ UNCHANGED <<gl, cache, shader, node, image, clock, options>>
  BY DEF NextShader
<1>2. s \in Shaders /\ InScene' = InScene
  BY <1>1, SceneFacts DEF Inv, options, InScene
<1>3. /\ frame'.phase = "global" /\ frame'.at = s /\ frame'.index = 1 /\ frame'.unit = 0
      /\ frame'.todo = frame.todo
      /\ frame' \in Frames
  <2>1. frame \in Frames
    BY DEF Inv, FrameOK
  <2>2. frame = [phase |-> frame.phase, todo |-> frame.todo, at |-> frame.at,
                 drawn |-> frame.drawn, index |-> frame.index, unit |-> frame.unit]
    BY <2>1 DEF Frames
  <2>3. frame' = [phase |-> frame.phase, todo |-> frame.todo, at |-> s,
                  drawn |-> frame.drawn, index |-> 1, unit |-> 0]
    BY <1>1, <2>2
  <2> QED
    BY <1>1, <2>1, <2>3 DEF Frames
<1>4. Cardinality(TexturesBefore(frame'.at, frame'.index)) \in Nat
  BY <1>2, <1>3, SlotsFinite
<1>5. Len(Bindings[s]) \in Nat
  BY <1>2, UniformFacts
<1>6. FrameOK' /\ DrawOK'
  <2>1. TexturesBefore(frame.at, frame.index)' = TexturesBefore(frame'.at, frame'.index)
    BY DEF TexturesBefore
  <2>2. frame'.unit <= Cardinality(TexturesBefore(frame.at, frame.index)')
    BY <1>3, <1>4, <2>1
  <2>3. frame'.index <= Len(Bindings[frame'.at]) + 1 /\ frame'.todo \subseteq InScene
    BY <1>1, <1>3, <1>5 DEF Inv, FrameOK, Frames
  <2> QED
    BY <1>1, <1>2, <1>3, <2>2, <2>3 DEF FrameOK, Frames, DrawOK, options
<1> QED
  BY <1>1, <1>6, GoesOn, ShadersKept DEF Inv, options

LEMMA GlobalSkippedKeeps ==
  ASSUME Inv, GlobalSkipped
  PROVE  Inv'
<1>1. /\ InGlobal
      /\ Fails \/ Stepped(0) \/ (KindOf[Binding] = "texture" /\ Stepped(1))
      /\ UNCHANGED <<gl, cache, shader, node, image, clock, options>>
  BY DEF GlobalSkipped
<1>2. frame.phase = "global" /\ frame.at # Unset /\ frame.index <= Len(Bindings[frame.at])
  BY <1>1 DEF InGlobal
<1>3. ShadersOK'
  BY <1>1, ShadersKept DEF Inv, options
<1>4. CASE Fails
  BY <1>1, <1>2, <1>3, <1>4, FailsIsFine, GoesOn
<1>5. CASE Stepped(0) \/ (KindOf[Binding] = "texture" /\ Stepped(1))
  <2>1. FrameOK' /\ frame'.phase = "global"
    BY <1>1, <1>2, <1>5, SteppedDoes DEF options
  <2>2. DrawOK'
    BY <2>1 DEF DrawOK
  <2> QED
    BY <1>1, <1>2, <1>3, <2>1, <2>2, GoesOn
<1> QED
  BY <1>1, <1>4, <1>5

LEMMA ShaderDoneKeeps ==
  ASSUME Inv, ShaderDone
  PROVE  Inv'
<1>1. /\ frame.phase = "global" /\ frame.at # Unset
      /\ shader' = [shader EXCEPT ![frame.at].last = clock]
      /\ frame' = [frame EXCEPT !.at = Unset, !.todo = @ \ {frame.at}]
      /\ UNCHANGED <<gl, cache, node, image, clock, options>>
  BY DEF ShaderDone
<1>2. frame.at \in InScene /\ clock \in Times /\ InScene' = InScene
  BY <1>1 DEF Inv, FrameOK, Frames, OptionsOK, InScene, options
<1>3. PICK s \in InScene : s = frame.at
  BY <1>2
<1>4. LinkedOK(shader[s], s) /\ DOMAIN shader = InScene
  BY DEF Inv, ShadersOK
<1>5. /\ shader'[s] = [user |-> shader[s].user, dirty |-> shader[s].dirty,
                       isSet |-> shader[s].isSet, draw |-> shader[s].draw, last |-> clock]
      /\ \A r \in InScene : r # s => shader'[r] = shader[r]
      /\ DOMAIN shader' = InScene
  BY <1>1, <1>3, <1>4 DEF LinkedOK
<1>6. LinkedOK(shader'[s], s)
  BY <1>2, <1>4, <1>5 DEF LinkedOK
<1>7. ShadersOK' /\ \A r \in InScene : \A u \in UniformsOf(r) : shader'[r].draw[u] = shader[r].draw[u]
  BY <1>2, <1>5, <1>6 DEF Inv, ShadersOK
<1>8. FrameOK' /\ DrawOK'
  <2>1. /\ frame'.at = Unset /\ frame'.phase = "global" /\ frame'.todo \subseteq frame.todo
        /\ frame' \in Frames
    BY <1>1 DEF Inv, FrameOK, Frames
  <2> QED
    BY <1>1, <1>2, <2>1 DEF Inv, FrameOK, Frames, DrawOK, options
<1> QED
  BY <1>1, <1>7, <1>8, GoesOn

LEMMA DrawSceneKeeps ==
  ASSUME Inv, DrawScene
  PROVE  Inv'
<1>1. /\ frame.phase = "global"
      /\ frame' = [phase |-> "draw", todo |-> scene.nodes, at |-> Unset, drawn |-> Unset,
                   index |-> 1, unit |-> 0]
      /\ UNCHANGED <<gl, cache, shader, node, image, clock, options>>
  BY DEF DrawScene, Idle
<1>2. FrameOK' /\ DrawOK'
  BY <1>1, SceneFacts DEF FrameOK, Frames, DrawOK, options, Inv, InScene
<1> QED
  BY <1>1, <1>2, GoesOn, ShadersKept DEF Inv, options

----------------------------------------------------------------------------
(* A turn of a loop that uses the context *)

\* In a frame the caches are right.
LEMMA InFrame ==
  ASSUME Inv, frame.phase \in {"global", "draw"}
  PROVE  ContextOK(Context, InScene) /\ Agrees(Context) /\ Context.gl = gl /\ Context.cache = cache
BY DEF Inv, Believed, Context

\* What shader s knows, after v of uniform u and d of what is dirty.
Relinked(s, u, v, d) ==
  shader' = [shader EXCEPT ![s] = [user |-> shader[s].user, dirty |-> d,
               isSet |-> shader[s].isSet, draw |-> [shader[s].draw EXCEPT ![u] = v],
               last |-> shader[s].last]]

\* An update inside the record of a shader is one of that form.
LEMMA LinkedUpdates ==
  ASSUME NEW s \in DOMAIN shader, LinkedOK(shader[s], s), NEW u, NEW v
  PROVE  /\ shader' = [shader EXCEPT ![s].draw[u] = v] => Relinked(s, u, v, shader[s].dirty)
         /\ shader' = [shader EXCEPT ![s].dirty = @ \ {u}, ![s].draw[u] = v] =>
              Relinked(s, u, v, shader[s].dirty \ {u})
<1>1. PICK l : l = shader[s]
  OBVIOUS
<1>2. l = [user |-> l.user, dirty |-> l.dirty, isSet |-> l.isSet, draw |-> l.draw,
           last |-> l.last]
  BY <1>1 DEF LinkedOK
<1>3. [l EXCEPT !.draw[u] = v] = [user |-> l.user, dirty |-> l.dirty, isSet |-> l.isSet,
                                  draw |-> [l.draw EXCEPT ![u] = v], last |-> l.last]
  BY <1>2
<1>4. PICK d : d = l.dirty \ {u}
  OBVIOUS
<1>5. PICK m : m = [user |-> l.user, dirty |-> d, isSet |-> l.isSet, draw |-> l.draw,
                    last |-> l.last]
  OBVIOUS
<1>6. [m EXCEPT !.draw[u] = v] = [user |-> l.user, dirty |-> d, isSet |-> l.isSet,
                                  draw |-> [l.draw EXCEPT ![u] = v], last |-> l.last]
  BY <1>5
<1>7. shader' = [shader EXCEPT ![s].draw[u] = v] => shader' = [shader EXCEPT ![s] = [l EXCEPT !.draw[u] = v]]
  BY <1>1
<1>8. ASSUME shader' = [shader EXCEPT ![s].dirty = @ \ {u}, ![s].draw[u] = v]
      PROVE  shader' = [shader EXCEPT ![s] = [m EXCEPT !.draw[u] = v]]
  <2>1. m = [l EXCEPT !.dirty = d]
    BY <1>2, <1>5
  <2>2. shader' = [[shader EXCEPT ![s].dirty = d] EXCEPT ![s].draw[u] = v]
    BY <1>1, <1>4, <1>8
  <2>3. PICK T : T = [shader EXCEPT ![s] = m]
    OBVIOUS
  <2>4. [shader EXCEPT ![s].dirty = d] = T
    BY <1>1, <2>1, <2>3
  <2>5. T[s] = m
    BY <2>3
  <2>6. [T EXCEPT ![s].draw[u] = v] = [T EXCEPT ![s] = [m EXCEPT !.draw[u] = v]]
    BY <2>5
  <2>7. \A w : [T EXCEPT ![s] = w] = [shader EXCEPT ![s] = w]
    BY <2>3
  <2> QED
    BY <2>2, <2>4, <2>6, <2>7
<1> QED
  BY <1>1, <1>3, <1>4, <1>6, <1>7, <1>8 DEF Relinked

\* An upload to uniform u of s, after which v is believed of it.
LEMMA UploadKeeps ==
  ASSUME Inv, frame.phase \in {"global", "draw"}, scene' = scene,
         NEW s \in InScene, NEW u \in UniformsOf(s),
         NEW x, ContextOK(x, InScene), InUse(x), Agrees(x),
         \A r \in InScene : \A w \in UniformsOf(r) : r # s \/ w # u =>
           x.gl.held[r][w] = gl.held[r][w],
         NEW v \in Uploaded(u) \cup {Unset},
         KindOf[u] # "texture" => v \in {x.gl.held[s][u], Unset},
         NEW d \in SUBSET UniformsOf(s),
         Relinked(s, u, v, d)
  PROVE  /\ ContextOK(Context, InScene)' /\ Believed' /\ ShadersOK' /\ DrawsKnown'
         /\ gl' = x.gl
<1>1. InScene' = InScene /\ s \in Shaders
  BY SceneFacts DEF InScene, Inv
<1>2. gl' = x.gl /\ ContextOK(Context, InScene)' /\ Believed'
  BY ContextMoves DEF Believed
<1>3. LinkedOK(shader[s], s) /\ DOMAIN shader = InScene
  BY DEF Inv, ShadersOK
<1>4. PICK e : e = [shader[s].draw EXCEPT ![u] = v]
  OBVIOUS
<1>5. /\ e \in [UniformsOf(s) -> AnyUpload] /\ e[u] = v
      /\ \A w \in UniformsOf(s) : w # u => e[w] = shader[s].draw[w]
  <2>1. v \in AnyUpload
    BY <1>1, UniformFacts DEF AnyUpload
  <2>2. shader[s].draw \in [UniformsOf(s) -> AnyUpload]
    BY <1>3 DEF LinkedOK
  <2> QED
    BY <1>4, <2>1, <2>2
<1>6. /\ shader'[s] = [user |-> shader[s].user, dirty |-> d, isSet |-> shader[s].isSet,
                       draw |-> e, last |-> shader[s].last]
      /\ \A r \in InScene : r # s => shader'[r] = shader[r]
      /\ DOMAIN shader' = InScene
  BY <1>3, <1>4 DEF Relinked
<1>7. LinkedOK(shader'[s], s)
  BY <1>3, <1>5, <1>6 DEF LinkedOK
<1>8. ShadersOK'
  BY <1>1, <1>6, <1>7 DEF Inv, ShadersOK
<1>9. ASSUME NEW r \in InScene, NEW w \in UniformsOf(r), KindOf[w] # "texture"
      PROVE  shader'[r].draw[w] \in {gl'.held[r][w], Unset}
  <2>1. shader[r].draw[w] \in {gl.held[r][w], Unset}
    BY <1>9 DEF Inv, DrawsKnown
  <2>2. CASE r # s
    BY <1>2, <1>6, <2>1, <2>2
  <2>3. CASE r = s /\ w # u
    BY <1>2, <1>5, <1>6, <2>1, <2>3
  <2>4. CASE r = s /\ w = u
    BY <1>2, <1>5, <1>6, <1>9, <2>4
  <2> QED
    BY <2>2, <2>3, <2>4
<1> QED
  BY <1>1, <1>2, <1>8, <1>9 DEF DrawsKnown

LEMMA GlobalAutomaticKeeps ==
  ASSUME Inv, GlobalAutomatic
  PROVE  Inv'
<1>1. /\ InGlobal /\ Automatic(Binding) /\ Stepped(0)
      /\ UNCHANGED <<node, image, clock, options>>
  BY DEF GlobalAutomatic
<1>2. frame.phase = "global" /\ frame.at # Unset /\ frame.index <= Len(Bindings[frame.at])
  BY <1>1 DEF InGlobal
<1>3. FrameOK' /\ frame'.phase = "global" /\ DrawOK'
  BY <1>1, <1>2, SteppedDoes DEF options, DrawOK
<1>4. frame.at \in InScene /\ frame.at \in Shaders /\ Binding \in UniformsOf(frame.at)
  BY <1>2, LoopFacts
<1>5. PICK s : s = frame.at
  OBVIOUS
<1>6. PICK u : u = Binding
  OBVIOUS
<1>7. CASE ~Changed(s, u)
  <2>1. UNCHANGED <<gl, cache, shader>>
    BY <1>5, <1>6, <1>7 DEF GlobalAutomatic
  <2> QED
    BY <1>1, <1>2, <1>3, <2>1, GoesOn, ShadersKept DEF Inv, options
<1>8. CASE Changed(s, u)
  <2>1. PICK value : value = IF KindOf[u] = "clock" THEN clock ELSE Identity
    OBVIOUS
  <2>2. value \in Held(u)
    BY <1>1, <1>6, <2>1 DEF Automatic, Held, Inv, OptionsOK
  <2>3. ContextOK(Context, InScene) /\ Agrees(Context) /\ Context.gl = gl
    BY <1>2, InFrame
  <2>4. PICK y : y = UseProgram(Context, s)
    OBVIOUS
  <2>5. ContextOK(y, InScene) /\ Agrees(y) /\ y.gl.held = gl.held
    BY <1>4, <1>5, <2>3, <2>4, UseDoes
  <2>6. PICK x : x = SetUniformValue(y, s, u, value)
    OBVIOUS
  <2>7. /\ ContextOK(x, InScene) /\ Agrees(x)
        /\ \A r \in InScene : \A w \in UniformsOf(r) : r # s \/ w # u =>
             x.gl.held[r][w] = gl.held[r][w]
    BY <1>4, <1>5, <1>6, <2>2, <2>5, <2>6, SetDoes
  <2>8. InUse(x) /\ shader' = [shader EXCEPT ![s].draw[u] = Unset]
    BY <1>5, <1>6, <1>8, <2>1, <2>4, <2>6 DEF GlobalAutomatic
  <2>9. Relinked(s, u, Unset, shader[s].dirty) /\ shader[s].dirty \in SUBSET UniformsOf(s)
    <3>1. LinkedOK(shader[s], s)
      BY <1>4, <1>5 DEF Inv, ShadersOK
    <3>4. s \in DOMAIN shader
      BY <1>4, <1>5 DEF Inv, ShadersOK
    <3>2. shader[s].dirty \in SUBSET UniformsOf(s)
      BY <3>1 DEF LinkedOK
    <3> QED
      BY <2>8, <3>1, <3>2, <3>4, LinkedUpdates
  <2>10. ContextOK(Context, InScene)' /\ Believed' /\ ShadersOK' /\ DrawsKnown'
    <3>1. /\ frame.phase \in {"global", "draw"} /\ scene' = scene
          /\ s \in InScene /\ u \in UniformsOf(s)
      BY <1>1, <1>2, <1>4, <1>5, <1>6 DEF options
    <3>2. Unset \in Uploaded(u) \cup {Unset} /\ Unset \in {x.gl.held[s][u], Unset}
      OBVIOUS
    <3> QED
      BY <2>7, <2>8, <2>9, <3>1, <3>2, UploadKeeps
  <2> QED
    BY <1>1, <1>3, <2>10, OptionsKept, NodesKept DEF Inv, options
<1> QED
  BY <1>7, <1>8

LEMMA GlobalUserKeeps ==
  ASSUME Inv, GlobalUser
  PROVE  Inv'
<1>1. /\ InGlobal /\ ~Automatic(Binding)
      /\ Stepped(IF KindOf[Binding] = "texture" THEN 1 ELSE 0)
      /\ UNCHANGED <<node, image, clock, options>>
  BY DEF GlobalUser
<1>2. frame.phase = "global" /\ frame.at # Unset /\ frame.index <= Len(Bindings[frame.at])
  BY <1>1 DEF InGlobal
<1>3. FrameOK' /\ frame'.phase = "global" /\ DrawOK'
  <2>1. CASE KindOf[Binding] = "texture"
    BY <1>1, <1>2, <2>1, SteppedDoes DEF options, DrawOK
  <2>2. CASE KindOf[Binding] # "texture"
    BY <1>1, <1>2, <2>2, SteppedDoes DEF options, DrawOK
  <2> QED
    BY <2>1, <2>2
<1>4. /\ frame.at \in InScene /\ frame.at \in Shaders /\ Binding \in UniformsOf(frame.at)
      /\ KindOf[Binding] = "texture" => frame.unit \in Units
  BY <1>2, LoopFacts
<1>5. PICK s : s = frame.at
  OBVIOUS
<1>6. PICK u : u = Binding
  OBVIOUS
<1>7. PICK value : value = shader[s].user[u]
  OBVIOUS
<1>8. LinkedOK(shader[s], s) /\ s \in DOMAIN shader
  BY <1>4, <1>5 DEF Inv, ShadersOK
<1>9. value \in Uploaded(u)
  <2>1. value \in ValuesFor(u) /\ ValuesFor(u) \subseteq Uploaded(u)
    BY <1>1, <1>4, <1>5, <1>6, <1>7, <1>8, UniformFacts DEF GlobalUser, LinkedOK
  <2> QED
    BY <2>1
<1>10. ContextOK(Context, InScene) /\ Agrees(Context) /\ Context.gl = gl
  BY <1>2, InFrame
<1>11. PICK y : y = UseProgram(Context, s)
  OBVIOUS
<1>12. ContextOK(y, InScene) /\ Agrees(y) /\ y.gl.held = gl.held
  BY <1>4, <1>5, <1>10, <1>11, UseDoes
<1>13. PICK x : x = UploadUser(y, s, u, value, frame.unit)
  OBVIOUS
<1>14. /\ ContextOK(x, InScene) /\ Agrees(x)
       /\ \A r \in InScene : \A w \in UniformsOf(r) : r # s \/ w # u =>
            x.gl.held[r][w] = gl.held[r][w]
  BY <1>4, <1>5, <1>6, <1>9, <1>12, <1>13, UploadDoes
<1>15. /\ InUse(x)
       /\ shader' = [shader EXCEPT ![s].dirty = @ \ {u}, ![s].draw[u] = Unset]
  BY <1>5, <1>6, <1>7, <1>11, <1>13 DEF GlobalUser
<1>16. PICK d : d = shader[s].dirty \ {u}
  OBVIOUS
<1>17. Relinked(s, u, Unset, d) /\ d \in SUBSET UniformsOf(s)
  <2>1. d \in SUBSET UniformsOf(s)
    BY <1>8, <1>16 DEF LinkedOK
  <2> QED
    BY <1>8, <1>15, <1>16, <2>1, LinkedUpdates
<1>18. ContextOK(Context, InScene)' /\ Believed' /\ ShadersOK' /\ DrawsKnown'
  <2>1. /\ frame.phase \in {"global", "draw"} /\ scene' = scene
        /\ s \in InScene /\ u \in UniformsOf(s)
    BY <1>1, <1>2, <1>4, <1>5, <1>6 DEF options
  <2>2. Unset \in Uploaded(u) \cup {Unset} /\ Unset \in {x.gl.held[s][u], Unset}
    OBVIOUS
  <2> QED
    BY <1>14, <1>15, <1>17, <2>1, <2>2, UploadKeeps
<1> QED
  BY <1>1, <1>3, <1>18, OptionsKept, NodesKept DEF Inv, options

----------------------------------------------------------------------------
(* The nodes *)

\* A step that uses the context and changes nothing that is held or bound.
LEMMA UseKeeps ==
  ASSUME Inv, UNCHANGED <<shader, node, image, clock, options>>, FrameOK', DrawOK',
         NEW x, ContextOK(x, InScene), InUse(x), Agrees(x), x.gl.held = gl.held
  PROVE  Inv'
<1>1. gl' = x.gl /\ ContextOK(Context, InScene)' /\ Agrees(Context)' /\ InScene' = InScene
  BY ContextMoves DEF options, InScene
<1>2. DrawsKnown' /\ Believed'
  BY <1>1 DEF Inv, DrawsKnown, Believed
<1> QED
  BY <1>1, <1>2, OptionsKept, NodesKept, ShadersKept DEF Inv, options

LEMMA BindForDrawKeeps ==
  ASSUME Inv, NEW n \in scene.nodes, BindForDraw(n)
  PROVE  Inv'
<1>1. /\ frame.phase = "draw" /\ n \in frame.todo
      /\ frame' = [frame EXCEPT !.at = ShaderOf[n], !.drawn = n, !.index = 1, !.unit = 0]
      /\ UNCHANGED <<shader, node, image, clock, options>>
  BY DEF BindForDraw
<1>2. PICK s : s = ShaderOf[n]
  OBVIOUS
<1>3. s \in InScene /\ s \in Shaders /\ InScene' = InScene
  BY <1>1, <1>2, SceneFacts DEF Inv, options, InScene
<1>4. ContextOK(Context, InScene) /\ Agrees(Context) /\ Context.gl = gl
  BY <1>1, InFrame
<1>5. PICK x : x = UseProgram(Context, s)
  OBVIOUS
<1>6. ContextOK(x, InScene) /\ Agrees(x) /\ x.gl.held = gl.held /\ x.gl.program = s
  BY <1>3, <1>4, <1>5, UseDoes
<1>7. InUse(x) /\ gl'.program = s
  BY <1>2, <1>5, <1>6 DEF BindForDraw, InUse
<1>8. frame' = [phase |-> "draw", todo |-> frame.todo, at |-> s, drawn |-> n, index |-> 1,
                unit |-> 0] /\ frame \in Frames
  <2>1. frame \in Frames
    BY DEF Inv, FrameOK
  <2>2. frame = [phase |-> frame.phase, todo |-> frame.todo, at |-> frame.at,
                 drawn |-> frame.drawn, index |-> frame.index, unit |-> frame.unit]
    BY <2>1 DEF Frames
  <2> QED
    BY <1>1, <1>2, <2>1, <2>2
<1>9. FrameOK'
  <2>1. Cardinality(TexturesBefore(s, 1)) \in Nat /\ Len(Bindings[s]) \in Nat
    BY <1>3, SlotsFinite, UniformFacts
  <2>2. TexturesBefore(frame.at, frame.index)' = TexturesBefore(s, 1)
    BY <1>8 DEF TexturesBefore
  <2>3. frame'.unit <= Cardinality(TexturesBefore(frame.at, frame.index)')
    BY <1>8, <2>1, <2>2
  <2>4. frame'.index <= Len(Bindings[frame'.at]) + 1 /\ frame'.todo \subseteq scene.nodes
    BY <1>1, <1>8, <2>1 DEF Inv, FrameOK
  <2> QED
    BY <1>1, <1>3, <1>8, <2>3, <2>4 DEF FrameOK, Frames, options
<1>10. DrawOK'
  BY <1>1, <1>2, <1>7, <1>8 DEF DrawOK, options
<1> QED
  BY <1>1, <1>6, <1>7, <1>9, <1>10, UseKeeps

LEMMA DrawBasicKeeps ==
  ASSUME Inv, DrawBasic
  PROVE  Inv'
<1>1. frame.phase = "draw" /\ frame.at = Unset /\ UNCHANGED <<shader, node, image, clock, frame, options>>
  BY DEF DrawBasic
<1>2. ContextOK(Context, InScene) /\ Agrees(Context) /\ Context.gl = gl
  BY <1>1, InFrame
<1>3. PICK x : x = UseProgram(Context, Other)
  OBVIOUS
<1>4. ContextOK(x, InScene) /\ Agrees(x) /\ x.gl.held = gl.held /\ InUse(x)
  BY <1>2, <1>3, UseDoes DEF DrawBasic
<1>5. FrameOK' /\ DrawOK'
  BY <1>1 DEF Inv, FrameOK, Frames, DrawOK, options, InScene
<1> QED
  BY <1>1, <1>4, <1>5, UseKeeps

\* A turn of the loop leaves alone what it has passed.
LEMMA PassedStays ==
  ASSUME Inv, InDraw, UNCHANGED <<node, clock>>, gl'.program = gl.program,
         frame'.at = frame.at, frame'.drawn = frame.drawn, frame'.index = frame.index + 1,
         frame'.unit \in Nat, frame.unit <= frame'.unit, scene' = scene,
         \A w \in UniformsOf(frame.at) : w # Binding => gl'.held[frame.at][w] = gl.held[frame.at][w],
         \A i \in Units : i < frame.unit => gl'.bound[i] = gl.bound[i],
         NEW u, u = Binding, Passed(u)'
  PROVE  DrawOK'
<1>1. /\ frame.phase = "draw" /\ frame.at # Unset /\ frame.index <= Len(Bindings[frame.at])
      /\ frame.drawn \in scene.nodes /\ frame.at = ShaderOf[frame.drawn]
      /\ gl.program = frame.at
      /\ \A j \in 1..(frame.index - 1) : Passed(Bindings[frame.at][j])
  BY DEF InDraw, Inv, DrawOK
<1>2. /\ frame.at \in Shaders /\ frame.index \in 1..Len(Bindings[frame.at]) /\ frame.unit \in Nat
      /\ Binding = Bindings[frame.at][frame.index] /\ Len(Bindings[frame.at]) \in Nat
  BY <1>1, LoopFacts, UniformFacts
<1>3. ASSUME NEW j \in 1..(frame.index - 1)
      PROVE  Passed(Bindings[frame.at][j])'
  <2>1. PICK w : w = Bindings[frame.at][j]
    OBVIOUS
  <2>2. j \in 1..Len(Bindings[frame.at]) /\ j # frame.index
    BY <1>2
  <2>3. w \in UniformsOf(frame.at) /\ w # Binding
    BY <1>2, <2>1, <2>2, UniformFacts
  <2>4. Passed(w)
    BY <1>1, <2>1
  <2>5. gl'.held[frame.at][w] = gl.held[frame.at][w]
    BY <2>3
  <2>6. AutomaticValue(frame.drawn, w)' = AutomaticValue(frame.drawn, w)
    BY DEF AutomaticValue
  <2>7. Passed(w)'
    <3>1. Automatic(w) => gl'.held[frame'.at][w] = AutomaticValue(frame.drawn, w)'
      BY <2>4, <2>5, <2>6 DEF Passed
    <3>2. ASSUME ~Automatic(w), node[frame.drawn].uniforms[w] # Unset, KindOf[w] = "texture"
          PROVE  /\ gl'.held[frame.at][w] \in Units /\ gl'.held[frame.at][w] < frame'.unit
                 /\ gl'.bound[gl'.held[frame.at][w]] = node[frame.drawn].uniforms[w]
      <4>1. PICK i : i = gl.held[frame.at][w]
        OBVIOUS
      <4>2. i \in Units /\ i < frame.unit /\ gl.bound[i] = node[frame.drawn].uniforms[w]
        BY <2>4, <3>2, <4>1 DEF Passed
      <4>3. i < frame'.unit
        <5>1. i \in Nat
          BY <4>2
        <5> HIDE UnitsAssumption, BindingsAssumption, NamesAssumption
        <5> QED
          BY <1>2, <4>2, <5>1
      <4> QED
        BY <2>5, <4>1, <4>2, <4>3
    <3>3. ASSUME ~Automatic(w), node[frame.drawn].uniforms[w] # Unset, KindOf[w] # "texture"
          PROVE  gl'.held[frame.at][w] = node[frame.drawn].uniforms[w]
      BY <2>4, <2>5, <3>3 DEF Passed
    <3> QED
      BY <3>1, <3>2, <3>3 DEF Passed
  <2>8. Bindings[frame.at][j]' = w
    BY <2>1
  <2> QED
    BY <2>7, <2>8 DEF Passed
<1>4. ASSUME NEW j \in 1..(frame'.index - 1)
      PROVE  Passed(Bindings[frame.at][j])'
  <2>1. CASE j = frame.index
    BY <1>2, <2>1 DEF Passed
  <2>2. CASE j # frame.index
    <3>1. j \in 1..(frame.index - 1)
      BY <1>2, <2>2
    <3> QED
      BY <1>3, <3>1
  <2> QED
    BY <2>1, <2>2
<1> QED
  BY <1>1, <1>4 DEF DrawOK

LEMMA DrawAutomaticKeeps ==
  ASSUME Inv, DrawAutomatic
  PROVE  Inv'
<1>1. /\ InDraw /\ Automatic(Binding) /\ Stepped(0)
      /\ UNCHANGED <<node, image, clock, options>>
  BY DEF DrawAutomatic
<1>2. frame.phase = "draw" /\ frame.at # Unset /\ frame.index <= Len(Bindings[frame.at])
  BY <1>1 DEF InDraw
<1>3. /\ FrameOK' /\ frame'.phase = "draw" /\ frame'.at = frame.at /\ frame'.drawn = frame.drawn
      /\ frame'.index = frame.index + 1 /\ frame'.unit = frame.unit + 0
  BY <1>1, <1>2, SteppedDoes DEF options
<1>4. /\ frame.at \in InScene /\ frame.at \in Shaders /\ Binding \in UniformsOf(frame.at)
      /\ frame.unit \in Nat
  BY <1>2, LoopFacts
<1>5. PICK s : s = frame.at
  OBVIOUS
<1>6. PICK u : u = Binding
  OBVIOUS
<1>7. PICK value : value = AutomaticValue(frame.drawn, u)
  OBVIOUS
<1>8. frame.drawn \in scene.nodes /\ gl.program = s /\ scene' = scene /\ frame'.unit = frame.unit
  BY <1>1, <1>2, <1>3, <1>4, <1>5 DEF Inv, DrawOK, options
<1>9. value \in Times \cup Matrices /\ KindOf[u] # "texture"
  BY <1>1, <1>6, <1>7, <1>8 DEF AutomaticValue, Automatic, Inv, OptionsOK, NodesOK, NodeOK
<1>10. value \in Held(u) /\ value \in Uploaded(u) /\ value # Unset
  BY <1>9 DEF Held, Uploaded
<1>11. AutomaticValue(frame.drawn, u)' = value
  BY <1>1, <1>3, <1>7 DEF AutomaticValue
<1>12. LinkedOK(shader[s], s) /\ s \in DOMAIN shader
  BY <1>4, <1>5 DEF Inv, ShadersOK
<1>13. CASE shader[s].draw[u] = value
  <2>1. UNCHANGED <<gl, cache, shader>>
    BY <1>5, <1>6, <1>7, <1>13 DEF DrawAutomatic
  <2>2. gl.held[s][u] = value
    BY <1>4, <1>5, <1>6, <1>9, <1>10, <1>13 DEF Inv, DrawsKnown
  <2>3. Passed(u)'
    BY <1>1, <1>3, <1>5, <1>6, <1>11, <2>1, <2>2 DEF Passed
  <2>4. DrawOK'
    BY <1>1, <1>3, <1>4, <1>6, <1>8, <2>1, <2>3, PassedStays
  <2>5. ShadersOK'
    BY <1>1, <2>1, ShadersKept DEF Inv, options
  <2> QED
    BY <1>1, <1>2, <1>3, <2>1, <2>4, <2>5, GoesOn
<1>14. CASE shader[s].draw[u] # value
  <2>1. PICK x : x = SetUniformValue(Context, s, u, value)
    OBVIOUS
  <2>2. ContextOK(Context, InScene) /\ Agrees(Context) /\ Context.gl = gl
    BY <1>2, InFrame
  <2>3. /\ ContextOK(x, InScene) /\ Agrees(x)
        /\ x.gl.program = gl.program /\ x.gl.bound = gl.bound
        /\ \A r \in InScene : \A w \in UniformsOf(r) : r # s \/ w # u =>
             x.gl.held[r][w] = gl.held[r][w]
        /\ x.gl.held[s][u] = value
    BY <1>4, <1>5, <1>6, <1>8, <1>10, <2>1, <2>2, SetDoes
  <2>4. InUse(x) /\ shader' = [shader EXCEPT ![s].draw[u] = value]
    BY <1>5, <1>6, <1>7, <1>14, <2>1 DEF DrawAutomatic
  <2>5. Relinked(s, u, value, shader[s].dirty) /\ shader[s].dirty \in SUBSET UniformsOf(s)
    <3>1. shader[s].dirty \in SUBSET UniformsOf(s)
      BY <1>12 DEF LinkedOK
    <3> QED
      BY <1>12, <2>4, <3>1, LinkedUpdates
  <2>6. /\ ContextOK(Context, InScene)' /\ Believed' /\ ShadersOK' /\ DrawsKnown'
        /\ gl' = x.gl
    <3>1. /\ frame.phase \in {"global", "draw"} /\ scene' = scene
          /\ s \in InScene /\ u \in UniformsOf(s)
      BY <1>1, <1>2, <1>4, <1>5, <1>6, <1>8
    <3>2. value \in Uploaded(u) \cup {Unset} /\ value \in {x.gl.held[s][u], Unset}
      BY <1>10, <2>3
    <3> QED
      BY <2>3, <2>4, <2>5, <3>1, <3>2, UploadKeeps
  <2>7. Passed(u)'
    BY <1>1, <1>3, <1>5, <1>6, <1>11, <2>3, <2>6 DEF Passed
  <2>8. DrawOK'
    <3>1. \A w \in UniformsOf(frame.at) : w # Binding =>
            gl'.held[frame.at][w] = gl.held[frame.at][w]
      BY <1>4, <1>5, <1>6, <2>3, <2>6
    <3>2. gl'.program = gl.program /\ gl'.bound = gl.bound
      BY <2>3, <2>6
    <3> QED
      BY <1>1, <1>3, <1>4, <1>6, <1>8, <2>7, <3>1, <3>2, PassedStays
  <2> QED
    BY <1>1, <1>3, <2>6, <2>8, OptionsKept, NodesKept DEF Inv, options
<1> QED
  BY <1>13, <1>14

LEMMA DrawUserKeeps ==
  ASSUME Inv, DrawUser
  PROVE  Inv'
<1>1. /\ InDraw /\ ~Automatic(Binding) /\ UNCHANGED <<node, image, clock, options>>
  BY DEF DrawUser
<1>2. frame.phase = "draw" /\ frame.at # Unset /\ frame.index <= Len(Bindings[frame.at])
  BY <1>1 DEF InDraw
<1>3. /\ frame.at \in InScene /\ frame.at \in Shaders /\ Binding \in UniformsOf(frame.at)
      /\ frame.unit \in Nat
      /\ KindOf[Binding] = "texture" => frame.unit \in Units
  BY <1>2, LoopFacts
<1>4. PICK s : s = frame.at
  OBVIOUS
<1>5. PICK u : u = Binding
  OBVIOUS
<1>6. PICK n \in scene.nodes : n = frame.drawn
  BY <1>2 DEF Inv, DrawOK
<1>7. PICK value : value = node[n].uniforms[u]
  OBVIOUS
<1>8. gl.program = s /\ scene' = scene /\ ShaderOf[n] = s
  BY <1>1, <1>2, <1>4, <1>6 DEF Inv, DrawOK, options
<1>9. LinkedOK(shader[s], s) /\ s \in DOMAIN shader
  BY <1>3, <1>4 DEF Inv, ShadersOK
<1>10. value \in ValuesFor(u) \cup {Unset}
  BY <1>3, <1>4, <1>5, <1>6, <1>7, <1>8 DEF Inv, NodesOK, NodeOK
<1>11. value # Unset => value \in Uploaded(u)
  BY <1>1, <1>3, <1>4, <1>5, <1>10, UniformFacts
<1>12. CASE value = Unset
  <2>1. UNCHANGED <<gl, cache, shader>> /\ (Fails \/ Stepped(0))
    BY <1>5, <1>6, <1>7, <1>12 DEF DrawUser
  <2>2. ShadersOK'
    BY <1>1, <2>1, ShadersKept DEF Inv, options
  <2>3. CASE Fails
    BY <1>1, <1>2, <2>1, <2>2, <2>3, FailsIsFine, GoesOn
  <2>4. CASE Stepped(0)
    <3>1. /\ FrameOK' /\ frame'.phase = "draw" /\ frame'.at = frame.at
          /\ frame'.drawn = frame.drawn
          /\ frame'.index = frame.index + 1 /\ frame'.unit = frame.unit + 0
      BY <1>2, <1>8, <2>4, SteppedDoes
    <3>2. frame'.unit = frame.unit
      BY <1>3, <3>1
    <3>3. Passed(u)'
      BY <1>1, <1>5, <1>6, <1>7, <1>12, <3>1 DEF Passed
    <3>4. DrawOK'
      BY <1>1, <1>3, <1>5, <1>8, <2>1, <3>1, <3>2, <3>3, PassedStays
    <3> QED
      BY <1>1, <1>2, <2>1, <2>2, <3>1, <3>4, GoesOn
  <2> QED
    BY <2>1, <2>3, <2>4
<1>13. CASE value # Unset /\ KindOf[u] # "texture" /\ shader[s].draw[u] = value
  <2>1. UNCHANGED <<gl, cache, shader>> /\ Stepped(0)
    BY <1>4, <1>5, <1>6, <1>7, <1>13 DEF DrawUser
  <2>2. ShadersOK'
    BY <1>1, <2>1, ShadersKept DEF Inv, options
  <2>3. /\ FrameOK' /\ frame'.phase = "draw" /\ frame'.at = frame.at
        /\ frame'.drawn = frame.drawn
        /\ frame'.index = frame.index + 1 /\ frame'.unit = frame.unit + 0
    BY <1>2, <1>8, <2>1, SteppedDoes
  <2>4. frame'.unit = frame.unit
    BY <1>3, <2>3
  <2>5. gl.held[s][u] = value
    BY <1>3, <1>4, <1>5, <1>13 DEF Inv, DrawsKnown
  <2>6. Passed(u)'
    BY <1>1, <1>4, <1>5, <1>6, <1>7, <1>13, <2>1, <2>3, <2>5 DEF Passed
  <2>7. DrawOK'
    BY <1>1, <1>3, <1>5, <1>8, <2>1, <2>3, <2>4, <2>6, PassedStays
  <2> QED
    BY <1>1, <1>2, <2>1, <2>2, <2>3, <2>7, GoesOn
<1>14. CASE value # Unset /\ (KindOf[u] = "texture" \/ shader[s].draw[u] # value)
  <2>1. PICK x : x = UploadUser(Context, s, u, value, frame.unit)
    OBVIOUS
  <2>2. ContextOK(Context, InScene) /\ Agrees(Context) /\ Context.gl = gl
    BY <1>2, InFrame
  <2>3. s \in InScene /\ u \in UniformsOf(s) /\ value \in Uploaded(u)
        /\ (KindOf[u] = "texture" => frame.unit \in Units)
    BY <1>3, <1>4, <1>5, <1>11, <1>14
  <2>4. /\ ContextOK(x, InScene) /\ Agrees(x) /\ x.gl.program = gl.program
        /\ \A r \in InScene : \A w \in UniformsOf(r) : r # s \/ w # u =>
             x.gl.held[r][w] = gl.held[r][w]
        /\ KindOf[u] # "texture" => x.gl.bound = gl.bound /\ x.gl.held[s][u] = value
        /\ KindOf[u] = "texture" =>
             /\ \A i \in Units : i # frame.unit => x.gl.bound[i] = gl.bound[i]
             /\ x.gl.bound[frame.unit] = value /\ x.gl.held[s][u] = frame.unit
    BY <1>8, <2>1, <2>2, <2>3, UploadDoes
  <2>5. /\ InUse(x) /\ shader' = [shader EXCEPT ![s].draw[u] = value]
        /\ Stepped(IF KindOf[u] = "texture" THEN 1 ELSE 0)
    BY <1>4, <1>5, <1>6, <1>7, <1>14, <2>1 DEF DrawUser
  <2>6. Relinked(s, u, value, shader[s].dirty) /\ shader[s].dirty \in SUBSET UniformsOf(s)
    <3>1. shader[s].dirty \in SUBSET UniformsOf(s)
      BY <1>9 DEF LinkedOK
    <3> QED
      BY <1>9, <2>5, <3>1, LinkedUpdates
  <2>7. /\ ContextOK(Context, InScene)' /\ Believed' /\ ShadersOK' /\ DrawsKnown'
        /\ gl' = x.gl
    <3>1. frame.phase \in {"global", "draw"}
      BY <1>2
    <3>2. /\ value \in Uploaded(u) \cup {Unset}
          /\ KindOf[u] # "texture" => value \in {x.gl.held[s][u], Unset}
      BY <2>3, <2>4
    <3> QED
      BY <1>8, <2>3, <2>4, <2>5, <2>6, <3>1, <3>2, UploadKeeps
  <2>8. /\ FrameOK' /\ frame'.phase = "draw" /\ frame'.at = frame.at
        /\ frame'.drawn = frame.drawn /\ frame'.index = frame.index + 1
        /\ frame'.unit = frame.unit + (IF KindOf[u] = "texture" THEN 1 ELSE 0)
    <3>1. CASE KindOf[u] = "texture"
      BY <1>2, <1>5, <1>8, <2>5, <3>1, SteppedDoes
    <3>2. CASE KindOf[u] # "texture"
      BY <1>2, <1>5, <1>8, <2>5, <3>2, SteppedDoes
    <3> QED
      BY <3>1, <3>2
  <2>9. /\ frame'.unit \in Nat /\ frame.unit <= frame'.unit
        /\ KindOf[u] = "texture" => frame.unit < frame'.unit
    BY <1>3, <2>8
  <2>10. Passed(u)'
    <3>1. node' = node /\ frame'.drawn = n /\ frame'.at = s /\ ~Automatic(u)
      BY <1>1, <1>4, <1>5, <1>6, <2>8
    <3>2. CASE KindOf[u] = "texture"
      BY <1>7, <2>3, <2>4, <2>7, <2>9, <3>1, <3>2 DEF Passed
    <3>3. CASE KindOf[u] # "texture"
      BY <1>7, <2>4, <2>7, <3>1, <3>3 DEF Passed
    <3> QED
      BY <3>2, <3>3
  <2>11. DrawOK'
    <3>1. \A w \in UniformsOf(frame.at) : w # Binding =>
            gl'.held[frame.at][w] = gl.held[frame.at][w]
      BY <1>3, <1>4, <1>5, <2>4, <2>7
    <3>2. gl'.program = gl.program
      BY <2>4, <2>7
    <3>3. \A i \in Units : i < frame.unit => gl'.bound[i] = gl.bound[i]
      BY <1>3, <1>5, <2>4, <2>7
    <3> QED
      BY <1>1, <1>5, <1>8, <2>8, <2>9, <2>10, <3>1, <3>2, <3>3, PassedStays
  <2> QED
    BY <1>1, <2>7, <2>8, <2>11, OptionsKept, NodesKept DEF Inv, options
<1> QED
  BY <1>12, <1>13, <1>14

LEMMA DrawKeeps ==
  ASSUME Inv, Draw
  PROVE  Inv'
<1>1. /\ frame.phase = "draw"
      /\ frame' = [frame EXCEPT !.at = Unset, !.drawn = Unset, !.todo = @ \ {frame.drawn}]
      /\ UNCHANGED <<gl, cache, shader, node, image, clock, options>>
  BY DEF Draw, Draws
<1>2. frame \in Frames
  BY DEF Inv, FrameOK
<1>3. frame = [phase |-> frame.phase, todo |-> frame.todo, at |-> frame.at,
               drawn |-> frame.drawn, index |-> frame.index, unit |-> frame.unit]
  BY <1>2 DEF Frames
<1>4. frame' = [phase |-> "draw", todo |-> frame.todo \ {frame.drawn}, at |-> Unset,
                drawn |-> Unset, index |-> frame.index, unit |-> frame.unit]
  BY <1>1, <1>3
<1>5. FrameOK' /\ DrawOK'
  BY <1>1, <1>2, <1>4 DEF Inv, FrameOK, Frames, DrawOK, options, InScene
<1> QED
  BY <1>1, <1>5, GoesOn, ShadersKept DEF Inv, options

LEMMA RenderedKeeps ==
  ASSUME Inv, Rendered
  PROVE  Inv'
<1>1. /\ frame.phase = "draw" /\ frame' = Idle
      /\ (UNCHANGED <<gl, cache>>) \/ InUse(UseProgram(Context, Other))
      /\ UNCHANGED <<shader, node, image, clock, options>>
  BY DEF Rendered
<1>2. FrameOK' /\ DrawOK'
  BY <1>1, IdleIsFine
<1>3. CASE UNCHANGED <<gl, cache>>
  BY <1>1, <1>2, <1>3, GoesOn, ShadersKept DEF Inv, options
<1>4. CASE InUse(UseProgram(Context, Other))
  <2>1. ContextOK(Context, InScene) /\ Agrees(Context) /\ Context.gl = gl
    BY <1>1, InFrame
  <2>2. PICK x : x = UseProgram(Context, Other)
    OBVIOUS
  <2>3. ContextOK(x, InScene) /\ Agrees(x) /\ x.gl.held = gl.held /\ InUse(x)
    BY <1>4, <2>1, <2>2, UseDoes
  <2> QED
    BY <1>1, <1>2, <2>3, UseKeeps
<1> QED
  BY <1>1, <1>3, <1>4

LEMMA StutterKeeps ==
  ASSUME Inv, UNCHANGED vars
  PROVE  Inv'
<1>1. /\ frame' = frame /\ scene' = scene /\ gl' = gl /\ node' = node /\ clock' = clock
      /\ shader' = shader /\ UNCHANGED <<gl, cache, node, image, clock, options>>
  BY DEF vars, options
<1>2. InScene' = InScene /\ Frames' = Frames
  BY <1>1 DEF InScene, Frames
<1>3. TexturesBefore(frame.at, frame.index)' = TexturesBefore(frame.at, frame.index)
  BY <1>1 DEF TexturesBefore
<1>4. FrameOK'
  BY <1>1, <1>2, <1>3 DEF Inv, FrameOK
<1>5. \A u : Passed(u)' <=> Passed(u)
  BY <1>1 DEF Passed, AutomaticValue
<1>6. DrawOK'
  BY <1>1, <1>5 DEF Inv, DrawOK
<1>7. ShadersOK'
  BY <1>1, ShadersKept DEF Inv
<1> QED
  BY <1>1, <1>4, <1>6, <1>7, GoesOn

----------------------------------------------------------------------------
(* The theorems *)

LEMMA InitInv == Init => Inv
<1> SUFFICES ASSUME Init PROVE Inv
  OBVIOUS
<1>1. OptionsOK
  BY DEF Init, OptionsOK
<1>2. InScene \subseteq Shaders /\ \A n \in scene.nodes : ShaderOf[n] \in Shaders
  BY <1>1, SceneFacts
<1>3. HeldOK(gl.held, InScene)
  <2>1. gl.held = [s \in InScene |-> [u \in UniformsOf(s) |->
                     IF KindOf[u] = "texture" THEN 0 ELSE Default]]
    BY DEF Init
  <2>2. \A u : (IF KindOf[u] = "texture" THEN 0 ELSE Default) \in Held(u)
    BY DEF Held
  <2> QED
    BY <2>1, <2>2 DEF HeldOK
<1>4. ContextOK(Context, InScene) /\ Agrees(Context)
  <2>1. /\ gl = [program |-> Default, unit |-> 0, bound |-> [t \in Units |-> Default],
                 held |-> gl.held]
        /\ cache = Unknown
    BY DEF Init
  <2>2. Context = [gl |-> gl, cache |-> cache]
    BY DEF Context
  <2> QED
    BY <1>3, <2>1, <2>2 DEF ContextOK, Shaped, Unknown, Agrees, Programs
<1>5. ASSUME NEW s \in InScene
      PROVE  LinkedOK(shader[s], s) /\ \A u \in UniformsOf(s) : shader[s].draw[u] = Unset
  <2>1. shader[s] = Linked(s)
    BY DEF Init
  <2>2. /\ NoValues(s) \in [UniformsOf(s) -> AnyUpload]
        /\ NoValues(s) \in [UniformsOf(s) -> AnyUniform]
        /\ \A u \in UniformsOf(s) : NoValues(s)[u] = Unset
    BY DEF NoValues, AnyUpload, AnyUniform
  <2> QED
    BY <2>1, <2>2 DEF LinkedOK, Linked
<1>6. ShadersOK /\ DrawsKnown
  BY <1>5 DEF Init, ShadersOK, DrawsKnown
<1>7. NodesOK
  BY DEF Init, NodesOK, NodeOK, Bare, NoValues, AnyUniform
<1>8. FrameOK /\ DrawOK
  BY DEF Init, FrameOK, Frames, DrawOK, Idle
<1> QED
  BY <1>1, <1>4, <1>6, <1>7, <1>8 DEF Inv, Believed

LEMMA InvStep == Inv /\ [Next]_vars => Inv'
<1> SUFFICES ASSUME Inv, [Next]_vars PROVE Inv'
  OBVIOUS
<1>1. CASE UNCHANGED vars
  BY <1>1, StutterKeeps
<1>2. CASE Program
  <2>1. CASE \E s \in InScene : \E u \in UniformsOf(s) : \E v \in ValuesFor(u) : SetUniform(s, u, v)
    BY <2>1, SetUniformKeeps
  <2>2. CASE \E n \in scene.nodes : \E u \in UniformsOf(ShaderOf[n]) : \E v \in ValuesFor(u) :
               ShaderSet(n, u, v)
    BY <2>2, NodeStepsKeep
  <2>3. CASE \E n \in scene.nodes : Renew(n) \/ \E m \in scene.matrices : Move(n, m)
    BY <2>3, NodeStepsKeep
  <2>4. CASE DrawShapes
    BY <2>4, DrawShapesKeeps
  <2>5. CASE \E t \in scene.textures : CreateTexture(t) \/ TextureDecoded(t)
    BY <2>5, TextureStepsKeep
  <2>6. CASE \E t \in scene.units : Outside(t)
    BY <2>6, OutsideKeeps
  <2> QED
    BY <1>2, <2>1, <2>2, <2>3, <2>4, <2>5, <2>6 DEF Program
<1>3. CASE Frame
  <2>1. CASE \E now \in scene.times : Render(now)
    BY <2>1, RenderKeeps
  <2>2. CASE \E s \in InScene : NextShader(s)
    BY <2>2, NextShaderKeeps
  <2>3. CASE GlobalAutomatic
    BY <2>3, GlobalAutomaticKeeps
  <2>4. CASE GlobalSkipped
    BY <2>4, GlobalSkippedKeeps
  <2>5. CASE GlobalUser
    BY <2>5, GlobalUserKeeps
  <2>6. CASE ShaderDone
    BY <2>6, ShaderDoneKeeps
  <2>7. CASE DrawScene
    BY <2>7, DrawSceneKeeps
  <2>8. CASE \E n \in scene.nodes : BindForDraw(n)
    BY <2>8, BindForDrawKeeps
  <2>9. CASE DrawBasic
    BY <2>9, DrawBasicKeeps
  <2>10. CASE DrawAutomatic
    BY <2>10, DrawAutomaticKeeps
  <2>11. CASE DrawUser
    BY <2>11, DrawUserKeeps
  <2>12. CASE Draw
    BY <2>12, DrawKeeps
  <2>13. CASE Rendered
    BY <2>13, RenderedKeeps
  <2>14. CASE Failed
    BY <2>14, StutterKeeps DEF Failed
  <2> QED
    BY <1>3, <2>1, <2>2, <2>3, <2>4, <2>5, <2>6, <2>7, <2>8, <2>9, <2>10, <2>11, <2>12,
       <2>13, <2>14 DEF Frame
<1> QED
  BY <1>1, <1>2, <1>3 DEF Next

LEMMA AlwaysInv == Spec => []Inv
BY InitInv, InvStep, PTL DEF Spec

\* In every session what the caches believe of the context is so wherever it is
\* relied on (webgl-state.ts: WebGLStateCache; shader.ts: drawUniforms), and no
\* shader runs out of texture units.
THEOREM CachesStayRight == Spec => []StateOK
<1>1. Inv => StateOK
  <2> SUFFICES ASSUME Inv PROVE StateOK
    OBVIOUS
  <2>1. /\ gl.program \in Shaders \cup {Other, Foreign, Default} /\ gl.unit \in Units
        /\ gl.bound \in [Units -> Textures \cup {Foreign, Default}]
        /\ cache.program \in Shaders \cup {Other, Unset} /\ cache.unit \in Units \cup {Unset}
        /\ cache.bound \in [Units -> Textures \cup {Unset}]
        /\ \A s \in InScene : \A u \in UniformsOf(s) : gl.held[s][u] \in Held(u)
    BY DEF Inv, ContextOK, HeldOK, Context, Programs
  <2>2. /\ \A s \in InScene : \A u \in UniformsOf(s) :
             /\ shader[s].user[u] \in ValuesFor(u) \cup {Unset}
             /\ shader[s].draw[u] \in Uploaded(u) \cup {Unset}
        /\ \A s \in InScene : /\ shader[s].dirty \subseteq UniformsOf(s)
                              /\ shader[s].last \in Times \cup {Unset}
                              /\ shader[s].isSet \in BOOLEAN
    BY DEF Inv, ShadersOK, LinkedOK
  <2>3. \A n \in scene.nodes : /\ node[n].model \in Matrices
                               /\ \A u \in UniformsOf(ShaderOf[n]) :
                                    node[n].uniforms[u] \in ValuesFor(u) \cup {Unset}
    BY DEF Inv, NodesOK, NodeOK
  <2>4. /\ clock \in Times /\ image \in [scene.textures -> {"none", "pixel", "decoded"}]
        /\ frame.phase \in {"idle", "global", "draw", "failed"}
    BY DEF Inv, OptionsOK, FrameOK, Frames
  <2>5. frame.at # Unset /\ frame.index <= Len(Bindings[frame.at])
          /\ KindOf[Binding] = "texture" => frame.unit \in Units
    BY LoopFacts
  <2>6. TypeOK
    BY <2>1, <2>2, <2>3, <2>4, <2>5 DEF TypeOK
  <2>7. CachesAreRight
    BY DEF Inv, Believed, Agrees, Context, DrawsKnown, CachesAreRight
  <2> QED
    BY <2>6, <2>7 DEF StateOK
<1> QED
  BY <1>1, AlwaysInv, PTL

\* docs/runtime.md:72-74, in every session: a draw uses the program of its node,
\* with the automatic values of this frame and every uniform that the node has set
\* (shader.ts: bindForDraw).
THEOREM EveryDrawSeesItsNode == Spec => []DrawsSeeTheirNode
<1>1. Inv => DrawsSeeTheirNode
  <2> SUFFICES ASSUME Inv, Draws PROVE DrawsSeeTheirNode
    BY DEF DrawsSeeTheirNode
  <2>1. /\ frame.phase = "draw" /\ frame.at # Unset /\ frame.at \in Shaders
        /\ frame.index > Len(Bindings[frame.at])
        /\ frame.index <= Len(Bindings[frame.at]) + 1 /\ frame.index \in Nat
    BY SceneFacts DEF Inv, FrameOK, Frames, Draws
  <2>2. Len(Bindings[frame.at]) \in Nat
    BY <2>1, UniformFacts
  <2>3. frame.index - 1 = Len(Bindings[frame.at])
    BY <2>1, <2>2
  <2>4. gl.program = frame.at /\ \A j \in 1..Len(Bindings[frame.at]) : Passed(Bindings[frame.at][j])
    BY <2>1, <2>3 DEF Inv, DrawOK
  <2>5. ASSUME NEW u \in UniformsOf(frame.at)
        PROVE  /\ Automatic(u) => Seen(frame.at, u) = AutomaticValue(frame.drawn, u)
               /\ ~Automatic(u) /\ node[frame.drawn].uniforms[u] # Unset =>
                    Seen(frame.at, u) = node[frame.drawn].uniforms[u]
    <3>1. PICK j \in 1..Len(Bindings[frame.at]) : Bindings[frame.at][j] = u
      BY <2>1, UniformFacts
    <3>2. Passed(u)
      BY <2>4, <3>1
    <3> QED
      BY <3>2 DEF Passed, Seen, Automatic
  <2> QED
    BY <2>4, <2>5 DEF DrawsSeeTheirNode
<1> QED
  BY <1>1, AlwaysInv, PTL

\* In the exclusive mode the pixels of a texture that is created or decoded reach
\* that texture, in every session (scene.ts: initializeTexture).
THEOREM PixelsReachTheirTexture == Spec => UploadsReachTheirTexture
<1>1. ASSUME Inv, NEW t \in scene.textures, policy = "exclusive",
             CreateTexture(t) \/ TextureDecoded(t)
      PROVE  Filled = t
  BY <1>1, TextureStepsKeep DEF Filled
<1>2. Inv /\ [Next]_vars =>
        [\A t \in scene.textures :
           policy = "exclusive" /\ (CreateTexture(t) \/ TextureDecoded(t)) => Filled = t]_vars
  BY <1>1
<1> QED
  BY <1>2, AlwaysInv, PTL DEF Spec, UploadsReachTheirTexture
=============================================================================
