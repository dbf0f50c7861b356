-------------------------- MODULE MCShaderUniforms --------------------------
(* Instances of ShaderUniforms for TLC: a scene whose two nodes share a     *)
(* shader with a clock, a transform and a plain value, and one with a node  *)
(* of two textures.                                                         *)
EXTENDS ShaderUniforms, TLC

CONSTANTS lit, woven, m, n, o, a, b, early, late, moved

MCBindings == (lit :> <<"u_time", "u_model", "tint">>) @@ (woven :> <<"map", "mask">>)
Kinds == ("u_time" :> "clock") @@ ("u_model" :> "matrix") @@ ("tint" :> "plain")
         @@ [u \in {"map", "mask"} |-> "texture"]
MCShaderOf == [x \in {m, n} |-> lit] @@ (o :> woven)
MCScenes == {[nodes |-> {m, n}, textures |-> {}, times |-> {early, late},
              matrices |-> {Identity, moved}, units |-> {0}],
             [nodes |-> {o}, textures |-> {a, b}, times |-> {early},
              matrices |-> {Identity}, units |-> {0, 1}]}
Interchangeable == Permutations(Textures) \cup Permutations(Values)
=============================================================================
