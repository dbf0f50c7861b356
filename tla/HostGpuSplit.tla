----------------------------- MODULE HostGpuSplit -----------------------------
(***************************************************************************)
(* The middle of the compiler (crates/polygl-lir): `resolve_domains`        *)
(* decides for every function and constant whether it belongs to the host, *)
(* to the GPU or to both, and `split` takes the module apart into a host   *)
(* and a GPU program, or rejects it.                                       *)
(*                                                                         *)
(* A symbol is its SymbolId: functions come first, then constants.  Of a   *)
(* body the model keeps what the two passes look at: what it refers to,    *)
(* which operations it uses, the types in it.                              *)
(***************************************************************************)
EXTENDS Naturals, FiniteSets, Sequences, SequencesExt

CONSTANTS
    NF, NC,     \* how many functions and constants there are
    Structs,    \* names of struct types
    Shaders,    \* names of shader pairs
    Zero, Nonzero, Computed, \* a literal divisor; a value that is computed
    Families    \* sets of low-level modules that may be compiled

Functions == 1 .. NF
Constants == NF + 1 .. NF + NC
Symbols == Functions \cup Constants

ASSUME SizesAssumption == NF \in Nat /\ NC \in Nat

(* A literal is not a constant, and zero is not another number. *)
ASSUME DivisorsAssumption == Zero # Nonzero /\ Zero \notin Constants

(* `SymbolTable::require`: a body refers only to what is declared. *)
ASSUME DeclaredAssumption ==
    \A family \in Families : \A m \in family :
        /\ \A s \in Symbols : m.body[s].calls \subseteq Symbols
        /\ \A e \in m.entries : e.body.calls \subseteq Symbols

Targets == {"host", "gpu"}
Domains == Targets \cup {"shared"}

(* Operations with a target of their own, and values the GPU does not have. *)
HostOnly == {"host builtin"}
GpuOnly == {"uniform", "gpu builtin"}
NotOnGpu == {"host builtin", "string", "dynamic"}

VARIABLES
    module,     \* the low-level module
    pc,         \* the pass that comes next
    domain,     \* [Symbols -> Domains], as resolved
    pending,    \* symbols to look at for the host
    host,       \* host_functions and host_constants
    gpu,        \* gpu_functions and gpu_constants
    checked,    \* those of gpu whose bodies have been inspected
    gpuStructs, \* gpu_structs
    assets,     \* paths of textures the host loads
    warned,     \* functions reported to compute with two precisions
    errors      \* codes of the diagnostics so far

vars == <<module, pc, domain, pending, host, gpu, checked, gpuStructs, assets,
          warned, errors>>

-----------------------------------------------------------------------------
(* graph.rs: strongly connected components, dependencies first. *)

ReachableFrom(edges, roots) ==
    {s \in DOMAIN edges :
        \A S \in SUBSET DOMAIN edges :
            roots \subseteq S /\ (\A r \in S : edges[r] \subseteq S) => s \in S}

(* One turn of the depth-first search: the next symbol that the last one on *)
(* the stack refers to, or the next root, or a symbol that is finished.    *)
SearchStep(edges, s) ==
    LET new == (IF s.stack = <<>> THEN DOMAIN edges ELSE edges[Last(s.stack)]) \ s.visited
    IN  IF new # {}
        THEN [s EXCEPT !.stack = Append(@, Min(new)), !.visited = @ \cup {Min(new)}]
        ELSE IF s.stack # <<>>
        THEN [s EXCEPT !.stack = Front(@), !.finished = Append(@, Last(s.stack))]
        ELSE s

(* The order in which the search finishes with the symbols: each of them is *)
(* put on the stack once and taken off it once.                            *)
Finished(edges) ==
    LET turns == 2 * Cardinality(DOMAIN edges)
        search[n \in 0 .. turns] ==
            IF n = 0 THEN [stack |-> <<>>, visited |-> {}, finished |-> <<>>]
            ELSE SearchStep(edges, search[n - 1])
    IN  search[turns].finished

(* What of the rest leads to a symbol is a component.                      *)
Dependents(edges, components, root) ==
    LET left == DOMAIN edges \ UNION ToSet(components)
    IN  ReachableFrom([s \in left |-> {t \in left : s \in edges[t]}], {root})

\* Mutant of Collect: dependents before their dependencies.
CollectUnreversed(edges, components, root) ==
    IF root \in UNION ToSet(components) THEN components
    ELSE components \o <<Dependents(edges, components, root)>>

Collect(edges, components, root) ==
    IF root \in UNION ToSet(components) THEN components
    ELSE <<Dependents(edges, components, root)>> \o components

StronglyConnectedComponents(edges) ==
    LET order == Reverse(Finished(edges))
        found[n \in 0 .. Len(order)] ==
            IF n = 0 THEN <<>> ELSE Collect(edges, found[n - 1], order[n])
    IN  found[Len(order)]

-----------------------------------------------------------------------------
(* domain.rs *)

Body(s) == module.body[s]
Calls == [s \in Symbols |-> Body(s).calls]
EntriesOf(target) == {e \in module.entries : e.target = target}
Roots(target) == UNION {e.body.calls : e \in EntriesOf(target)}

(* Where a body could run, but for what it refers to. *)
OwnAllowed(s) ==
    {t \in Targets : Body(s).traits \cap (IF t = "host" THEN GpuOnly ELSE HostOnly) = {}}

(* The members of a component can run where each of them can, and          *)
(* everything that they refer to.                                          *)
Meet(allowed, c) ==
    LET all == (UNION {Calls[s] : s \in c}) \cup c
        common == {t \in Targets : \A s \in all : t \in allowed[s]}
    IN  [s \in Symbols |-> IF s \in c THEN common ELSE allowed[s]]

(* Where it can run with what it refers to: dependencies first. *)
Allowed(components) ==
    LET allowed[n \in 0 .. Len(components)] ==
            IF n = 0 THEN [s \in Symbols |-> OwnAllowed(s)]
            ELSE Meet(allowed[n - 1], components[n])
    IN  allowed[Len(components)]

(* What refers to one member of a component uses all of them, and all that  *)
(* they refer to.                                                          *)
Spread(usage, c) ==
    LET here == UNION {usage[s] : s \in c}
    IN  [s \in Symbols |-> IF s \in c THEN here
                           ELSE IF \E d \in c : s \in Calls[d] THEN usage[s] \cup here
                           ELSE usage[s]]

(* Which targets refer to it, from their entries on: dependents first. *)
Usage(components) ==
    LET order == Reverse(components)
        usage[n \in 0 .. Len(order)] ==
            IF n = 0 THEN [s \in Symbols |-> {t \in Targets : s \in Roots(t)}]
            ELSE Spread(usage[n - 1], order[n])
    IN  usage[Len(order)]

ResolvedDomain(allowed, usage) ==
    IF \E t \in Targets : allowed = {t} THEN CHOOSE t \in Targets : allowed = {t}
    ELSE IF \E t \in Targets : usage = {t} THEN CHOOSE t \in Targets : usage = {t}
    ELSE "shared"

ResolveDomains ==
    /\ pc = "resolve"
    /\ LET components == StronglyConnectedComponents(Calls)
           allowed == Allowed(components)
           usage == Usage(components)
       IN  domain' = [s \in Symbols |-> ResolvedDomain(allowed[s], usage[s])]
    /\ pc' = "pairs"
    /\ UNCHANGED <<module, pending, host, gpu, checked, gpuStructs, assets, warned, errors>>

-----------------------------------------------------------------------------
(* split.rs: shader pairs and host reachability *)

Stages(shader, stage) == {e \in module.entries : e.stage = stage /\ e.shader = shader}

VaryingStruct(s) ==
    LET fields == module.fields[s]
    IN  /\ fields # <<>>
        /\ fields[1] = "clip_pos"
        /\ \A i \in 2 .. Len(fields) : fields[i] \in {"clip_pos", "number"}

ValidPair(vertex, fragment) ==
    /\ vertex.attributes = "standard"
    /\ \/ vertex.result = "vec4" /\ fragment.attributes = "none"
       \/ /\ vertex.result \in Structs
          /\ VaryingStruct(vertex.result)
          /\ fragment.attributes = vertex.result
    /\ fragment.result = "vec4"

ShaderNames == {s \in Shaders : \E e \in module.entries : e.shader = s}

Pairs == {s \in ShaderNames : Stages(s, "vertex") # {} /\ Stages(s, "fragment") # {}}

ValidateShaderPairs ==
    /\ pc = "pairs"
    /\ errors' = errors \cup
         {"E0405" : s \in {s \in ShaderNames :
              \/ Cardinality(Stages(s, "vertex")) # 1
              \/ Cardinality(Stages(s, "fragment")) # 1
              \/ \E v \in Stages(s, "vertex"), f \in Stages(s, "fragment") : ~ValidPair(v, f)}}
    /\ pending' = Roots("host")
    /\ pc' = "reach"
    /\ UNCHANGED <<module, domain, host, gpu, checked, gpuStructs, assets, warned>>

\* Mutant of ReachHost: what a symbol refers to is not looked at.
ReachHostShallow(s) ==
    /\ pc = "reach"
    /\ s \in pending
    /\ host' = IF domain[s] # "gpu" THEN host \cup {s} ELSE host
    /\ pending' = pending \ {s}
    /\ UNCHANGED <<module, pc, domain, gpu, checked, gpuStructs, assets, warned, errors>>

(* `resolve_host_reachability`: one symbol from the list.  Which one is of  *)
(* no consequence, so any is taken.                                        *)
ReachHost(s) ==
    /\ pc = "reach"
    /\ s \in pending
    /\ LET new == domain[s] # "gpu" /\ s \notin host
       IN  /\ host' = IF new THEN host \cup {s} ELSE host
           /\ pending' = (pending \ {s}) \cup (IF new THEN Calls[s] ELSE {})
    /\ UNCHANGED <<module, pc, domain, gpu, checked, gpuStructs, assets, warned, errors>>

(* What is looked at for a target: its entries, and what they reach. *)
BodiesOf(target, symbols) ==
    {e.body : e \in EntriesOf(target)} \cup {Body(s) : s \in symbols}

(* `validate_material_references`: a shader is named by a literal. *)
MaterialErrors(bodies) ==
    {"E0405" : m \in (UNION {b.materials : b \in bodies}) \ Pairs}

(* A path of a texture that is no literal, or that is no name of a file in *)
(* the build on every system.                                              *)
Unusable == {Computed, "not portable"}

(* `collect_string_runtime_references`: paths wherever textures are loaded. *)
Textures(bodies) == UNION {b.textures : b \in bodies}

(* `validate_asset_references` *)
ValidateReferences ==
    /\ pc = "reach"
    /\ pending = {}
    /\ LET bodies == BodiesOf("host", host)
           textures == Textures(bodies)
       IN  /\ assets' = textures \ Unusable
           /\ errors' = errors \cup MaterialErrors(bodies)
                               \cup {"E0501" : t \in textures \cap Unusable}
    /\ pc' = "host"
    /\ UNCHANGED <<module, domain, pending, host, gpu, checked, gpuStructs, warned>>

(* `inspect_host_block` and `inspect_host_expr` of one body. *)
HostErrors(b) ==
    {"E0404" : t \in b.traits \cap GpuOnly}
      \cup {"E0404" : d \in {d \in b.calls : domain[d] = "gpu"}}

(* `validate_host_graph` *)
ValidateHostGraph ==
    /\ pc = "host"
    /\ errors' = errors \cup UNION {HostErrors(b) : b \in BodiesOf("host", host)}
    /\ pc' = "entries"
    /\ UNCHANGED <<module, domain, pending, host, gpu, checked, gpuStructs, assets, warned>>

-----------------------------------------------------------------------------
(* split.rs: the GPU program *)

StructsIn(types) ==
    ReachableFrom([s \in Structs |-> ToSet(module.fields[s]) \cap Structs], types \cap Structs)

Recursive(s) ==
    \E t \in ToSet(module.fields[s]) \cap Structs : s \in StructsIn({t})

(* `validate_type` of every type in a body, through the fields of structs. *)
TypeErrors(types) ==
    LET all == types \cup UNION {ToSet(module.fields[s]) : s \in StructsIn(types)}
    IN  {"E0403" : t \in all \cap {"dynamic"}}
          \cup {"E0402" : t \in all \cap {"string", "handle"}}
          \cup {"E0402" : s \in {s \in StructsIn(types) : Recursive(s)}}

(* `constant_integer_value`: literals, and constants that are defined as     *)
(* another constant, followed until one was seen before.                   *)
IntegerValue(d) ==
    LET follow[n \in 0 .. NC] ==
            IF n = 0 THEN d
            ELSE LET e == follow[n - 1] IN IF e \in Constants THEN module.value[e] ELSE e
    IN  follow[NC]

ProvablyNonzero(d) == IntegerValue(d) = Nonzero

(* `inspect_block` and `inspect_expr` of one body. *)
GpuErrors(b) ==
    TypeErrors(b.types)
      \cup {"E0402" : t \in b.traits \cap {"string"}}
      \cup {"E0403" : t \in b.traits \cap {"dynamic"}}
      \cup {"E0404" : t \in b.traits \cap HostOnly}
      \cup {"E0404" : d \in {d \in b.calls : domain[d] = "host"}}
      \cup {"E0406" : d \in {d \in b.divisors : ~ProvablyNonzero(d)}}

\* Mutant of Inspect: errors in the bodies are dropped.
InspectLeniently(bodies) ==
    /\ gpu' = gpu \cup {d \in UNION {b.calls : b \in bodies} : domain[d] # "host"}
    /\ gpuStructs' = gpuStructs \cup StructsIn(UNION {b.types : b \in bodies})
    /\ UNCHANGED errors

Inspect(bodies) ==
    /\ gpu' = gpu \cup {d \in UNION {b.calls : b \in bodies} : domain[d] # "host"}
    /\ gpuStructs' = gpuStructs \cup StructsIn(UNION {b.types : b \in bodies})
    /\ errors' = errors \cup UNION {GpuErrors(b) : b \in bodies}

InspectEntries ==
    /\ pc = "entries"
    /\ Inspect({e.body : e \in EntriesOf("gpu")})
    /\ pc' = "gpu"
    /\ UNCHANGED <<module, domain, pending, host, checked, assets, warned>>

\* Mutant of InspectSymbol: constants are reported as well.
InspectSymbolWarning(s) ==
    /\ pc = "gpu"
    /\ s \in gpu \ checked
    /\ checked' = checked \cup {s}
    /\ warned' = IF domain[s] = "shared" /\ s \in host THEN warned \cup {s} ELSE warned
    /\ Inspect({Body(s)})
    /\ UNCHANGED <<module, pc, domain, pending, host, assets>>

(* One turn of the loop in `validate_gpu_graph`.  The code takes functions  *)
(* before constants and each in the order of the module.                   *)
InspectSymbol(s) ==
    /\ pc = "gpu"
    /\ s \in gpu \ checked
    /\ checked' = checked \cup {s}
    /\ warned' = IF s \in Functions /\ domain[s] = "shared" /\ s \in host
                 THEN warned \cup {s} ELSE warned
    /\ Inspect({Body(s)})
    /\ UNCHANGED <<module, pc, domain, pending, host, assets>>

\* Mutant of GpuCycle: a symbol that refers to itself is no cycle.
GpuCycleOfSeveral(c) == Cardinality(c) > 1 /\ c \cap checked # {}

(* `validate_dependency_cycles` *)
GpuCycle(c) ==
    /\ Cardinality(c) > 1 \/ \E s \in c : s \in Calls[s]
    /\ c \cap checked # {}

ValidateCycles ==
    /\ pc = "gpu"
    /\ gpu \subseteq checked
    /\ errors' = errors \cup
         {"E0401" : c \in {c \in ToSet(StronglyConnectedComponents(Calls)) : GpuCycle(c)}}
    /\ pc' = "done"
    /\ UNCHANGED <<module, domain, pending, host, gpu, checked, gpuStructs, assets, warned>>

-----------------------------------------------------------------------------
Init ==
    /\ \E family \in Families : module \in family
    /\ pc = "resolve"
    /\ domain = [s \in Symbols |-> "shared"]
    /\ pending = {}
    /\ host = {}
    /\ gpu = {}
    /\ checked = {}
    /\ gpuStructs = {}
    /\ assets = {}
    /\ warned = {}
    /\ errors = {}

Next ==
    \/ ResolveDomains
    \/ ValidateShaderPairs
    \/ \E s \in Symbols : ReachHost(s)
    \/ ValidateReferences
    \/ ValidateHostGraph
    \/ InspectEntries
    \/ \E s \in Symbols : InspectSymbol(s)
    \/ ValidateCycles

Spec == Init /\ [][Next]_vars

-----------------------------------------------------------------------------
(* What the two passes are for, in terms of the module as it was given. *)

TypeOK ==
    /\ pc \in {"resolve", "pairs", "reach", "host", "entries", "gpu", "done"}
    /\ domain \in [Symbols -> Domains]
    /\ pending \subseteq Symbols
    /\ host \subseteq Symbols
    /\ checked \subseteq gpu
    /\ gpu \subseteq Symbols
    /\ gpuStructs \subseteq Structs
    /\ warned \subseteq Functions \cap checked
    /\ errors \subseteq {"E0401", "E0402", "E0403", "E0404", "E0405", "E0406", "E0501"}

Accepted == pc = "done" /\ errors = {}

Closed(S, target) == Roots(target) \subseteq S /\ \A s \in S : Calls[s] \subseteq S

(* Constants whose initializers do something that only the host can do.     *)
Effectful == {c \in Constants : module.body[c].traits \cap HostOnly # {}}

(* What the host's entries need is in an accepted program with all that it  *)
(* needs itself (`filtered_host_module`). What is in it is needed by an     *)
(* entry or by an initializer that has an effect. Whether initializers that *)
(* no entry needs are there is left open: docs/architecture-tutorial.md:47  *)
(* says that they survive, and `resolve_host_reachability` (split.rs:383),  *)
(* which starts from entries alone, drops them.                            *)
HostIsWhatIsNeeded ==
    Accepted =>
        /\ Closed(host, "host")
        /\ \A S \in SUBSET Symbols : Closed(S, "host") /\ Effectful \subseteq S => host \subseteq S

(* The same of `filtered_gpu_module`. *)
GpuIsWhatEntriesNeed ==
    Accepted => /\ Closed(gpu, "gpu")
                /\ \A S \in SUBSET Symbols : Closed(S, "gpu") => gpu \subseteq S

(* What is emitted for a target. *)
Emitted(target, symbols) ==
    {e.body : e \in EntriesOf(target)} \cup {module.body[s] : s \in symbols}

(* In an accepted program no operation is emitted for a target that cannot  *)
(* perform it, whatever way the body that has it was reached.              *)
RunsWhereItIs ==
    Accepted => /\ \A b \in Emitted("host", host) : b.traits \cap GpuOnly = {}
                /\ \A b \in Emitted("gpu", gpu) : b.traits \cap NotOnGpu = {}

(* What is emitted for the GPU has a finite form: no symbol depends on       *)
(* itself, the structs in it are there and do not contain themselves, and  *)
(* no shader divides by a constant that is zero.                           *)
GpuFormIsFinite ==
    Accepted =>
        /\ \A s \in gpu : s \notin ReachableFrom(Calls, Calls[s])
        /\ \A b \in Emitted("gpu", gpu) :
               /\ StructsIn(b.types) \subseteq gpuStructs
               /\ \A d \in b.divisors : d \in Constants => module.value[d] # Zero
        /\ \A s \in gpuStructs : ~Recursive(s)

(* A program is rejected only for something that is wrong with it: with a   *)
(* shader pair, a reference, or a body that a target needs.                *)
Needs(target) == ReachableFrom(Calls, Roots(target))

Flawed ==
    \/ \E s \in ShaderNames : \/ Cardinality(Stages(s, "vertex")) # 1
                              \/ Cardinality(Stages(s, "fragment")) # 1
                              \/ \E v \in Stages(s, "vertex"), f \in Stages(s, "fragment") :
                                     ~ValidPair(v, f)
    \/ \E b \in Emitted("host", Needs("host")) :
           \/ b.traits \cap GpuOnly # {}
           \/ ~(b.materials \subseteq Pairs)
           \/ b.textures \cap Unusable # {}
    \/ \E b \in Emitted("gpu", Needs("gpu")) :
           \/ b.traits \cap NotOnGpu # {}
           \/ TypeErrors(b.types) # {}
           \/ \E d \in b.divisors : ~ProvablyNonzero(d)
    \/ \E s \in Needs("gpu") : s \in ReachableFrom(Calls, Calls[s])

RejectedForAReason == pc = "done" /\ errors # {} => Flawed

(* The domain of a symbol depends on what it refers to and on the entries  *)
(* that need it, and not on the order of declarations or on which member   *)
(* of a cycle is visited first.                                            *)
DomainsAreTheirDefinition ==
    pc = "pairs" =>
        \A s \in Symbols :
            LET allowed == {t \in Targets :
                                \A r \in ReachableFrom(Calls, {s}) : t \in OwnAllowed(r)}
                usage == {t \in Targets : s \in Needs(t)}
            IN  domain[s] = ResolvedDomain(allowed, usage)

(* docs/shader-abi.md: every function that an accepted program runs with   *)
(* two precisions is reported (W0401), and no other.                       *)
TwoPrecisionsAreReported == Accepted => warned = Functions \cap host \cap gpu

(* The build ships the textures that the host program can ask for, and no  *)
(* others: docs/improvement-resolution.md, number 12.                      *)
AssetsAreWhatTheHostLoads ==
    Accepted => assets = UNION {b.textures : b \in Emitted("host", host)}

(* The parts and the assets of an accepted program are what it needs.      *)
PartsAreWhatIsNeeded ==
    /\ HostIsWhatIsNeeded
    /\ GpuIsWhatEntriesNeed
    /\ AssetsAreWhatTheHostLoads

(* What is wrong is reported, and nothing else is.                         *)
ReportsAreRight ==
    /\ GpuFormIsFinite
    /\ RejectedForAReason
    /\ TwoPrecisionsAreReported
=============================================================================
