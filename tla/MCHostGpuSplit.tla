---------------------------- MODULE MCHostGpuSplit ----------------------------
(* Four families of modules, each exhaustive in what it varies. *)
EXTENDS HostGpuSplit

Plain == [calls |-> {}, traits |-> {}, types |-> {}, divisors |-> {},
          materials |-> {}, textures |-> {}]

Host(body) == [target |-> "host", body |-> body, stage |-> "none", shader |-> "none",
               attributes |-> "none", result |-> "none", id |-> 1]
Vertex(body, attributes, result, id) ==
    [target |-> "gpu", body |-> body, stage |-> "vertex", shader |-> "main",
     attributes |-> attributes, result |-> result, id |-> id]
Fragment(body, takes, result, id) ==
    [target |-> "gpu", body |-> body, stage |-> "fragment", shader |-> "main",
     attributes |-> takes, result |-> result, id |-> id]

Module(bodies, entries, fields, value) ==
    [body |-> bodies, entries |-> entries, fields |-> fields, value |-> value]

Numbers == [s \in {"S", "T"} |-> <<"clip_pos", "number">>]
Literals == [c \in {3, 4} |-> Nonzero]
Calling(calls) == [Plain EXCEPT !.calls = calls]

(* References among three symbols, and one of them with an operation that   *)
(* has a target of its own.                                                *)
Graphs ==
    {Module([s \in 1 .. 4 |->
                IF s = 4 THEN [Plain EXCEPT !.traits = {"host builtin"}]
                ELSE [Calling(edges[s]) EXCEPT !.traits = IF s = odd THEN traits ELSE {}]],
            {Host(Calling(h)), Vertex(Calling(g), "standard", "vec4", 1),
             Fragment(Plain, "none", "vec4", 1)},
            Numbers, Literals) :
        edges \in [1 .. 3 -> SUBSET (1 .. 3)],
        odd \in {1, 3}, traits \in {{}, {"uniform"}, {"host builtin"}},
        h \in {{}, {1}, {2, 3}}, g \in {{}, {1}, {2, 3}}}

(* Types of a helper and of the varyings, through two structs. *)
Types ==
    {Module([s \in 1 .. 4 |-> IF s = 1 THEN [Plain EXCEPT !.types = types] ELSE Plain],
            {Vertex([Calling({1}) EXCEPT !.types = {"S"}], "standard", "S", 1),
             Fragment([Plain EXCEPT !.types = {"S"}], takes, "vec4", 1)},
            [s \in {"S", "T"} |-> IF s = "S" THEN <<first, second>> ELSE <<other>>],
            Literals) :
        types \in {{}, {"T"}, {"dynamic"}}, takes \in {"S", "T", "none"},
        first \in {"clip_pos", "number", "T"},
        second \in {"number", "bool", "dynamic", "handle", "S", "T"},
        other \in {"number", "string", "S", "T"}}

(* Shader pairs, the host's references to them and to textures. *)
References ==
    {Module([s \in 1 .. 4 |->
                IF s = 1 THEN [Plain EXCEPT !.materials = materials, !.textures = textures]
                ELSE IF s = 3 THEN [Plain EXCEPT !.textures = {"brick"}, !.traits = {"string"}]
                ELSE Plain],
            {Host(Calling(h))}
                \cup {Vertex(Plain, attributes, result, i) : i \in 1 .. vertices}
                \cup {Fragment(Plain, "none", "vec4", i) : i \in 1 .. fragments},
            Numbers, Literals) :
        materials \in {{}, {"main"}, {"other"}, {Computed}},
        textures \in {{}, {"wall"}, {"wall", "not portable"}, {Computed}},
        h \in {{}, {1}, {1, 3}}, vertices \in 0 .. 2, fragments \in 0 .. 2,
        attributes \in {"standard", "repeated"}, result \in {"vec4", "other"}}

(* A shader divides by a constant, which is a literal or another constant. *)
Divisors ==
    {Module([s \in 1 .. 4 |->
                IF s = 1 THEN [Plain EXCEPT !.divisors = {d}, !.calls = {d} \cap {3, 4}]
                ELSE IF s \in {3, 4} THEN Calling({value[s]} \cap {3, 4})
                ELSE [Plain EXCEPT !.traits = {"string"}]],
            {Host(Calling({1})), Vertex(Calling(g), "standard", "vec4", 1),
             Fragment(Plain, "none", "vec4", 1)},
            Numbers, value) :
        d \in {3, Computed, Zero, Nonzero}, g \in {{}, {1}, {1, 2}},
        value \in [{3, 4} -> {Zero, Nonzero, Computed, 3, 4}]}

const_Families == {Graphs, Types, References, Divisors}
=============================================================================
