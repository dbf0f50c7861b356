-------------------------- MODULE DevServerProofs --------------------------
(***************************************************************************)
(* Proofs about DevServer, for any files, any number of generations and    *)
(* connection threads, and any bound on saves and faults.                  *)
(***************************************************************************)
EXTENDS DevServer, FiniteSetTheorems, TLAPS

\* TypeOK, before it is known that the counters never fall below zero.
TypeInt ==
  /\ disk \in Trees
  /\ saves \in 0..MaxSaves /\ faults \in 0..MaxFaults
  /\ watch \in BOOLEAN /\ started \in BOOLEAN /\ touched \in BOOLEAN
  /\ sourceBefore \in Content
  /\ loop \in {"source", "assets", "install", "baseline", "recheck", "idle",
               "activate", "clear", "exited"}
  /\ input \in Inputs
  /\ raced \subseteq Path /\ watched \subseteq Path
  /\ fp \in Inputs \cup {NoFp}
  /\ retryDue \in BOOLEAN
  /\ building \in Gens \cup {NoGen} /\ active \in Gens \cup {NoGen}
  /\ error \in Diagnostic \cup {NoError}
  /\ meta \in [Gens -> Inputs]
  /\ strong \in [Gens -> Int] /\ dirs \subseteq Gens
  /\ permits \in Int
  /\ conn \in [Conns -> {"none", "accepted", "cloned", "respond"}]
  /\ holds \in [Conns -> Gens \cup {NoGen}]
  /\ seen \in [Conns -> Diagnostic \cup {NoError}]

\* Which phases of the main thread have a generation under construction, and
\* which of them belong to the startup.
Phases ==
  /\ loop \in {"source", "assets", "install", "activate"} => building \in Gens
  /\ loop = "baseline" => (building = NoGen <=> ~started)
  /\ loop \in {"recheck", "idle", "clear", "exited"} => building = NoGen
  /\ loop \in {"install", "recheck"} => ~started
  /\ loop \in {"activate", "clear", "idle"} => started
  /\ loop \in {"source", "assets", "install"} /\ ~started
       => active = NoGen /\ error = NoError
  /\ loop = "clear" => active \in Gens
  /\ loop = "assets" => input[Source] \in Texts \ Broken
  /\ loop = "exited" => ~started
  /\ \A c \in Conns : conn[c] \in {"none", "accepted"} => holds[c] = NoGen

\* A fingerprint ranges over the same functions as the inputs of a build.
LEMMA FingerprintType ==
  ASSUME disk \in Trees, NEW W \in SUBSET Path
  PROVE  Fingerprint(W) \in Inputs
BY DEF Fingerprint, Inputs, Trees, Content

\* Every step keeps the types and the phases.
LEMMA Typing == Spec => [](TypeInt /\ Phases)
<1> USE NamesAssumption, BoundsAssumption DEF NamesAssumption, BoundsAssumption
<1>1. Init => TypeInt /\ Phases
  <2> SUFFICES ASSUME Init PROVE TypeInt /\ Phases
    OBVIOUS
  <2>1. TypeInt
    <3>1. sourceBefore \in Content
      BY DEF Init, Trees, Path
    <3>2. NothingRead \in Inputs
      BY DEF NothingRead, Inputs
    <3> HIDE DEF NothingRead
    <3>3. meta \in [Gens -> Inputs] /\ input \in Inputs
      BY <3>2 DEF Init
    <3>4. watched \subseteq Path /\ raced \subseteq Path
      BY DEF Init, Path
    <3>5. watch \in BOOLEAN /\ started \in BOOLEAN /\ touched \in BOOLEAN
      BY Zenon DEF Init
    <3>6. strong \in [Gens -> Int] /\ dirs \subseteq Gens /\ permits \in Int
      BY DEF Init
    <3>7. /\ conn \in [Conns -> {"none", "accepted", "cloned", "respond"}]
          /\ holds \in [Conns -> Gens \cup {NoGen}]
          /\ seen \in [Conns -> Diagnostic \cup {NoError}]
      BY DEF Init
    <3>8. saves \in 0..MaxSaves /\ faults \in 0..MaxFaults
      BY DEF Init
    <3> QED BY <3>1, <3>3, <3>4, <3>5, <3>6, <3>7, <3>8 DEF Init, TypeInt
  <2>2. Phases
    BY DEF Init, Phases
  <2> QED BY <2>1, <2>2
<1>2. TypeInt /\ Phases /\ [Next]_vars => TypeInt' /\ Phases'
  <2> SUFFICES ASSUME TypeInt, Phases, [Next]_vars PROVE TypeInt' /\ Phases'
    OBVIOUS
  <2> USE DEF files, builds, arcs, http, startup
  <2>1. ASSUME NEW p \in Path, NEW c \in Content, Save(p, c)
        PROVE  TypeInt' /\ Phases'
    <3>1. disk' \in Trees
      BY <2>1 DEF Save, TypeInt, Trees, Path, Content
    <3>2. saves' \in 0..MaxSaves
      BY <2>1 DEF Save, TypeInt
    <3> QED BY <2>1, <3>1, <3>2 DEF Save, TypeInt, Phases
  <2>2. ASSUME NEW m \in Diagnostic, BuildFails(m), loop \in {"source", "assets"},
               faults' \in 0..MaxFaults
        PROVE  TypeInt' /\ Phases'
    <3>1. TypeInt'
      BY <2>2 DEF BuildFails, TypeInt, NothingRead, Inputs
    <3>2. Phases'
      BY <2>2 DEF BuildFails, TypeInt, Phases
    <3> QED BY <3>1, <3>2
  <2>3. CASE ReadSource
    <3> DEFINE text == disk[Source]
    <3>1. text \in Texts \cup {Absent} /\ text \in Content /\ Source \in Path
      BY DEF TypeInt, Trees, Content, Path
    <3>2. CASE text = Absent \/ text \in Broken
      <4>1. BuildFails(<<Source, text>>) /\ faults' = faults
        BY <2>3, <3>2 DEF ReadSource
      <4>2. <<Source, text>> \in Diagnostic /\ loop = "source" /\ faults' \in 0..MaxFaults
        BY <2>3, <3>1, <4>1 DEF Diagnostic, ReadSource, TypeInt
      <4> QED BY <2>2, <4>1, <4>2
    <3>3. CASE ~(text = Absent \/ text \in Broken)
      <4>1. input' = [input EXCEPT ![Source] = text] /\ text \in Texts \ Broken
        BY <2>3, <3>1, <3>3 DEF ReadSource
      <4>2. input' \in Inputs /\ input'[Source] \in Texts \ Broken
        BY <3>1, <4>1 DEF TypeInt, Inputs
      <4>3. /\ loop = "source" /\ loop' = "assets"
            /\ UNCHANGED <<files, faults, startup, building, meta, raced, watched,
                           fp, retryDue, active, error, arcs, http>>
        BY <2>3, <3>3 DEF ReadSource
      <4>4. TypeInt'
        BY <4>2, <4>3 DEF TypeInt
      <4> QED BY <4>2, <4>3, <4>4 DEF Phases
    <3> QED BY <3>2, <3>3
  <2>4. ASSUME NEW a \in Assets, ReadAsset(a)
        PROVE  TypeInt' /\ Phases'
    <3>1. disk[a] \in Content /\ a \in Path /\ a # Source
      BY DEF TypeInt, Trees, Path
    <3>2. CASE disk[a] = Absent
      <4>1. BuildFails(<<a, Absent>>) /\ faults' = faults
        BY <2>4, <3>2 DEF ReadAsset
      <4>2. <<a, Absent>> \in Diagnostic /\ loop = "assets" /\ faults' \in 0..MaxFaults
        BY <2>4, <3>1, <4>1 DEF Diagnostic, ReadAsset, TypeInt, Content
      <4> QED BY <2>2, <4>1, <4>2
    <3>3. CASE disk[a] # Absent
      <4>1. /\ loop = "assets" /\ input' = [input EXCEPT ![a] = disk[a]]
            /\ UNCHANGED <<files, faults, startup, loop, building, meta, raced,
                           watched, fp, retryDue, active, error, arcs, http>>
        BY <2>4, <3>3 DEF ReadAsset
      <4>2. input' \in Inputs /\ input'[Source] = input[Source]
        BY <3>1, <4>1 DEF TypeInt, Inputs
      <4>3. TypeInt'
        BY <4>1, <4>2 DEF TypeInt
      <4> QED BY <4>1, <4>2, <4>3 DEF Phases
    <3> QED BY <3>2, <3>3
  <2>5. CASE WriteGeneration
    BY <2>5 DEF WriteGeneration, TypeInt, Phases
  <2>6. CASE WriteFails
    <3>1. IoFailure \in Diagnostic /\ loop = "assets" /\ faults' \in 0..MaxFaults
      BY <2>6 DEF WriteFails, Diagnostic, TypeInt
    <3> QED BY <2>2, <2>6, <3>1 DEF WriteFails
  <2>7. CASE Install
    BY <2>7 DEF Install, TypeInt, Phases
  <2>8. CASE Baseline
    <3>1. watched' \subseteq Path
      BY <2>8 DEF Baseline, WatchedOf, Path
    <3>2. fp' \in Inputs
      BY <2>8, <3>1, FingerprintType DEF Baseline, TypeInt
    <3> QED BY <2>8, <3>1, <3>2 DEF Baseline, TypeInt, Phases, NothingRead, Inputs
  <2>9. CASE Recheck
    BY <2>9 DEF Recheck, TypeInt, Phases
  <2>10. CASE Activate
    BY <2>10 DEF Activate, Drop, TypeInt, Phases
  <2>11. CASE ClearError
    BY <2>11 DEF ClearError, TypeInt, Phases
  <2>12. CASE WatchTick
    <3>1. fp' \in Inputs
      BY <2>12, FingerprintType DEF WatchTick, TypeInt
    <3> QED BY <2>12, <3>1 DEF WatchTick, TypeInt, Phases
  <2>13. CASE RetryInterval
    BY <2>13 DEF RetryInterval, TypeInt, Phases
  <2>14. ASSUME NEW c \in Conns, Accept(c)
         PROVE  TypeInt' /\ Phases'
    BY <2>14 DEF Accept, TypeInt, Phases
  <2>15. ASSUME NEW c \in Conns, Finish(c)
         PROVE  TypeInt' /\ Phases'
    BY <2>15 DEF Finish, Drop, TypeInt, Phases
  <2>16. ASSUME NEW c \in Conns, ReadActive(c)
         PROVE  TypeInt' /\ Phases'
    BY <2>16 DEF ReadActive, TypeInt, Phases
  <2>17. ASSUME NEW c \in Conns, ReadError(c)
         PROVE  TypeInt' /\ Phases'
    BY <2>17 DEF ReadError, TypeInt, Phases
  <2>18. CASE UNCHANGED vars
    BY <2>18 DEF vars, TypeInt, Phases
  <2> QED BY <2>1, <2>3, <2>4, <2>5, <2>6, <2>7, <2>8, <2>9, <2>10, <2>11, <2>12,
             <2>13, <2>14, <2>15, <2>16, <2>17, <2>18
          DEF Next, Main, Thread, Turn, Respond, Exited
<1> QED BY <1>1, <1>2, PTL DEF Spec
----------------------------------------------------------------------------
(* Generations and their directories *)

\* A generation under construction has no Arc yet.
GenInv ==
  /\ GenerationsLive
  /\ loop \in {"source", "assets"} => strong[building] = 0

\* Counting the threads that hold a generation.
LEMMA HoldersFinite ==
  ASSUME NEW g
  PROVE  IsFiniteSet(Holders(g)) /\ Cardinality(Holders(g)) \in Nat
<1>1. IsFiniteSet(Holders(g))
  BY FS_Subset, BoundsAssumption DEF BoundsAssumption, Holders
<1> QED BY <1>1, FS_CardinalityType

\* What the active generation, and any other with an Arc, keep apart from the
\* one under construction.
LEMMA ActiveIsNotBuilding ==
  ASSUME TypeInt, Phases, GenInv, loop \in {"source", "assets"}
  PROVE  /\ active # building
         /\ Holders(building) = {}
<1>1. building \in Gens
  BY DEF Phases
<1>2. 0 = Cardinality(Holders(building)) + One(active = building) + One(Local(building))
  BY <1>1 DEF GenInv, GenerationsLive
<1>3. One(active = building) \in {0, 1} /\ One(Local(building)) \in {0, 1}
  BY DEF One
<1>4. Cardinality(Holders(building)) = 0 /\ One(active = building) = 0
  BY <1>2, <1>3, HoldersFinite
<1> QED BY <1>4, HoldersFinite, FS_EmptySet DEF One

\* A generation that is referred to has a positive count.
LEMMA Counted ==
  ASSUME GenerationsLive, NEW g \in Gens
  PROVE  /\ strong[g] \in Nat
         /\ active = g \/ Local(g) \/ (\E c \in Conns : holds[c] = g) => strong[g] > 0
<1>1. strong[g] = Cardinality(Holders(g)) + One(active = g) + One(Local(g))
  BY DEF GenerationsLive
<1>2. One(active = g) \in {0, 1} /\ One(Local(g)) \in {0, 1}
  BY DEF One
<1>3. active = g \/ Local(g) => One(active = g) = 1 \/ One(Local(g)) = 1
  BY DEF One
<1>4. ASSUME NEW c \in Conns, holds[c] = g
      PROVE  Cardinality(Holders(g)) # 0
  <2>1. Holders(g) # {}
    BY <1>4 DEF Holders
  <2> QED BY <2>1, HoldersFinite, FS_EmptySet
<1> QED BY <1>1, <1>2, <1>3, <1>4, HoldersFinite

\* Counts of Arcs and directories on disk agree after every step.
LEMMA Generations == Spec => []GenInv
<1> USE NamesAssumption, BoundsAssumption DEF NamesAssumption, BoundsAssumption
<1>1. Init => GenInv
  <2> SUFFICES ASSUME Init PROVE GenInv
    OBVIOUS
  <2>1. \A g \in Gens : Holders(g) = {}
    BY DEF Init, Holders
  <2>2. \A g \in Gens : Cardinality(Holders(g)) = 0
    BY <2>1, FS_EmptySet
  <2> QED BY <2>2 DEF Init, GenInv, GenerationsLive, One, Local
<1>2. TypeInt /\ Phases /\ GenInv /\ [Next]_vars => GenInv'
  <2> SUFFICES ASSUME TypeInt, Phases, GenInv, [Next]_vars PROVE GenInv'
    OBVIOUS
  <2> USE DEF files, builds, arcs, http, startup
  \* The steps that move no Arc: neither the threads' holds, nor the counts,
  \* nor who the main thread and the state refer to.
  <2>1. ASSUME UNCHANGED <<holds, strong, active, building, dirs>>,
               \A g \in Gens : Local(g)' <=> Local(g),
               loop' \in {"source", "assets"} => loop \in {"source", "assets"}
        PROVE  GenInv'
    BY <2>1 DEF GenInv, GenerationsLive, Holders, One
  <2>2. ASSUME NEW p \in Path, NEW c \in Content, Save(p, c) PROVE GenInv'
    BY <2>1, <2>2 DEF Save, Local
  <2>3. ASSUME NEW m, BuildFails(m), loop \in {"source", "assets"} PROVE GenInv'
    <3>1. \A g \in Gens : One(Local(g)') = One(Local(g))
      BY <2>3 DEF BuildFails, Local, One
    <3>2. strong[building] = 0 /\ building \in Gens
      BY <2>3 DEF GenInv, Phases
    <3>3. Holders(building) = {} /\ active # building
      BY <2>3, ActiveIsNotBuilding
    <3>4. dirs' = {g \in Gens : strong'[g] > 0 \/ building' = g}
      BY <2>3, <3>2 DEF BuildFails, GenInv, GenerationsLive, TypeInt
    <3>5. \A g \in Gens : Holders(g)' = Holders(g)
      BY <2>3 DEF BuildFails, Holders
    <3> QED BY <2>3, <3>1, <3>4, <3>5 DEF BuildFails, GenInv, GenerationsLive, One
  <2>4. CASE ReadSource
    <3>1. CASE disk[Source] = Absent \/ disk[Source] \in Broken
      BY <2>3, <2>4, <3>1 DEF ReadSource
    <3> QED BY <2>1, <2>4, <3>1 DEF ReadSource, Local
  <2>5. ASSUME NEW a \in Assets, ReadAsset(a) PROVE GenInv'
    <3>1. CASE disk[a] = Absent
      BY <2>3, <2>5, <3>1 DEF ReadAsset
    <3> QED BY <2>1, <2>5, <3>1 DEF ReadAsset, Local
  <2>6. CASE WriteGeneration
    <3>1. active # building /\ Holders(building) = {} /\ building \in Gens
      BY <2>6, ActiveIsNotBuilding DEF WriteGeneration, Phases
    <3>2. \A g \in Gens : Holders(g)' = Holders(g)
      BY <2>6 DEF WriteGeneration, Holders
    <3>3. \A g \in Gens : (Local(g)' <=> g = building) /\ ~Local(g)
      BY <2>6 DEF WriteGeneration, Local
    <3>4. Cardinality(Holders(building)) = 0
      BY <3>1, FS_EmptySet
    <3>5. \A g \in Gens : strong'[g] = IF g = building THEN 1 ELSE strong[g]
      BY <2>6 DEF WriteGeneration, TypeInt
    <3>6. \A g \in Gens : strong'[g] = Cardinality(Holders(g)')
                              + One(active' = g) + One(Local(g)')
      <4> SUFFICES ASSUME NEW g \in Gens
                   PROVE  strong'[g] = Cardinality(Holders(g)')
                              + One(active' = g) + One(Local(g)')
        OBVIOUS
      <4>1. strong[g] = Cardinality(Holders(g)) + One(active = g) + One(Local(g))
        BY DEF GenInv, GenerationsLive
      <4>2. One(Local(g)') = (IF g = building THEN 1 ELSE 0) /\ One(Local(g)) = 0
        BY <3>3 DEF One
      <4>3. active' = active
        BY <2>6 DEF WriteGeneration
      <4> QED BY <3>1, <3>2, <3>4, <3>5, <4>1, <4>2, <4>3, HoldersFinite DEF One
    <3>7. dirs' = {g \in Gens : strong'[g] > 0 \/ building' = g}
      BY <2>6, <3>1, <3>5 DEF WriteGeneration, GenInv, GenerationsLive
    <3> QED BY <2>6, <3>6, <3>7 DEF WriteGeneration, GenInv, GenerationsLive
  <2>7. CASE WriteFails
    BY <2>3, <2>7 DEF WriteFails
  <2>8. CASE Install
    <3>1. active = NoGen /\ building \in Gens
      BY <2>8 DEF Install, Phases
    <3>2. \A g \in Gens : Holders(g)' = Holders(g)
      BY <2>8 DEF Install, Holders
    <3>3. \A g \in Gens : ~Local(g)' /\ (Local(g) <=> g = building)
      BY <2>8 DEF Install, Local
    <3>4. \A g \in Gens : /\ One(active' = g) = One(Local(g))
                         /\ One(Local(g)') = 0 /\ One(active = g) = 0
      BY <2>8, <3>1, <3>3 DEF Install, One
    <3>5. \A g \in Gens : strong'[g] = Cardinality(Holders(g)')
                              + One(active' = g) + One(Local(g)')
      <4> SUFFICES ASSUME NEW g \in Gens
                   PROVE  strong'[g] = Cardinality(Holders(g)')
                              + One(active' = g) + One(Local(g)')
        OBVIOUS
      <4>1. strong[g] = Cardinality(Holders(g)) + One(active = g) + One(Local(g))
        BY DEF GenInv, GenerationsLive
      <4>2. strong' = strong /\ One(Local(g)) \in {0, 1}
        BY <2>8 DEF Install, One
      <4> QED BY <3>2, <3>4, <4>1, <4>2, HoldersFinite
    <3>6. strong[building] > 0
      BY <3>1, <3>3, Counted DEF GenInv
    <3> QED BY <2>8, <3>1, <3>5, <3>6 DEF Install, GenInv, GenerationsLive, TypeInt
  <2>9. CASE Baseline
    BY <2>1, <2>9 DEF Baseline, Local, Phases
  <2>10. CASE Recheck
    BY <2>1, <2>10 DEF Recheck, Local
  <2>11. CASE Activate
    <3>1. building \in Gens
      BY <2>11 DEF Activate, Phases
    <3>2. \A g \in Gens : Holders(g)' = Holders(g)
      BY <2>11 DEF Activate, Holders
    <3>3. \A g \in Gens : ~Local(g)' /\ (Local(g) <=> g = building)
      BY <2>11 DEF Activate, Local
    <3>4. \A g \in Gens : strong'[g] = IF g = active THEN strong[g] - 1 ELSE strong[g]
      BY <2>11 DEF Activate, Drop
    <3>5. \A g \in Gens : strong'[g] = Cardinality(Holders(g)')
                              + One(active' = g) + One(Local(g)')
      <4> SUFFICES ASSUME NEW g \in Gens
                   PROVE  strong'[g] = Cardinality(Holders(g)')
                              + One(active' = g) + One(Local(g)')
        OBVIOUS
      <4>1. strong[g] = Cardinality(Holders(g)) + One(active = g) + One(g = building)
        BY <3>3 DEF GenInv, GenerationsLive, One
      <4>2. active' = building /\ One(Local(g)') = 0
        BY <2>11, <3>3 DEF Activate, One
      <4> QED BY <3>2, <3>4, <4>1, <4>2, HoldersFinite DEF One
    <3>6. strong[building] > 0 /\ strong'[building] > 0
      <4> SUFFICES ASSUME NEW b \in Gens, b = building
                   PROVE  strong[b] > 0 /\ strong'[b] > 0
        BY <3>1
      <4>1. strong[b] > 0
        BY <3>3, Counted DEF GenInv
      <4>2. One(active' = b) = 1 /\ One(Local(b)') = 0
        BY <2>11, <3>3 DEF Activate, One
      <4>3. strong'[b] = Cardinality(Holders(b)) + 1 + 0
        BY <3>2, <3>5, <4>2
      <4> QED BY <4>1, <4>3, HoldersFinite
    <3>7. dirs' = {g \in Gens : strong'[g] > 0 \/ building' = g}
      BY <2>11, <3>1, <3>4, <3>6 DEF Activate, Drop, GenInv, GenerationsLive, TypeInt
    <3> QED BY <2>11, <3>5, <3>7 DEF Activate, GenInv, GenerationsLive
  <2>12. CASE ClearError
    BY <2>1, <2>12 DEF ClearError, Local
  <2>13. CASE WatchTick
    <3>1. \A g \in Gens : Holders(g)' = Holders(g)
      BY <2>13 DEF WatchTick, Holders
    <3>2. \A g \in Gens : One(Local(g)') = One(Local(g))
      BY <2>13 DEF WatchTick, Local, One
    <3>3. building = NoGen
      BY <2>13 DEF WatchTick, Phases
    <3>4. PICK b \in Gens \ dirs : building' = b /\ dirs' = dirs \cup {b}
      BY <2>13 DEF WatchTick
    <3>5. strong[b] = 0
      BY <3>4, Counted DEF GenInv, GenerationsLive
    <3>6. dirs' = {g \in Gens : strong'[g] > 0 \/ building' = g}
      BY <2>13, <3>3, <3>4 DEF WatchTick, GenInv, GenerationsLive
    <3>7. \A g \in Gens : strong'[g] = Cardinality(Holders(g)')
                              + One(active' = g) + One(Local(g)')
      BY <2>13, <3>1, <3>2 DEF WatchTick, GenInv, GenerationsLive
    <3> QED BY <2>13, <3>4, <3>5, <3>6, <3>7 DEF WatchTick, GenInv, GenerationsLive
  <2>14. CASE RetryInterval
    BY <2>1, <2>14 DEF RetryInterval, Local
  <2>15. ASSUME NEW c \in Conns, Accept(c) PROVE GenInv'
    BY <2>1, <2>15 DEF Accept, Local
  <2>16. ASSUME NEW c \in Conns, Finish(c) PROVE GenInv'
    <3>1. \A g \in Gens : Local(g)' = Local(g)
      BY <2>16 DEF Finish, Local
    <3>2. \A g \in Gens : Holders(g)' = IF g = holds[c] THEN Holders(g) \ {c} ELSE Holders(g)
      BY <2>16 DEF Finish, Holders, TypeInt
    <3>3. \A g \in Gens : Cardinality(Holders(g)') = IF g = holds[c]
                                                    THEN Cardinality(Holders(g)) - 1
                                                    ELSE Cardinality(Holders(g))
      <4> SUFFICES ASSUME NEW g \in Gens, g = holds[c]
                   PROVE  Cardinality(Holders(g)') = Cardinality(Holders(g)) - 1
        BY <3>2
      <4>1. Holders(g)' = Holders(g) \ {c} /\ c \in Holders(g)
        BY <3>2 DEF Holders
      <4> QED BY <4>1, HoldersFinite, FS_RemoveElement
    <3>4. \A g \in Gens : strong'[g] = IF g = holds[c] THEN strong[g] - 1 ELSE strong[g]
      BY <2>16 DEF Finish, Drop
    <3>5. \A g \in Gens : strong'[g] = Cardinality(Holders(g)')
                              + One(active' = g) + One(Local(g)')
      <4> SUFFICES ASSUME NEW g \in Gens
                   PROVE  strong'[g] = Cardinality(Holders(g)')
                              + One(active' = g) + One(Local(g)')
        OBVIOUS
      <4>1. strong[g] = Cardinality(Holders(g)) + One(active = g) + One(Local(g))
        BY DEF GenInv, GenerationsLive
      <4>2. active' = active
        BY <2>16 DEF Finish
      <4> QED BY <3>1, <3>3, <3>4, <4>1, <4>2, HoldersFinite DEF One
    <3>6. building' = building /\ loop' = loop
      BY <2>16 DEF Finish
    <3>7. holds[c] \in Gens => strong[holds[c]] > 0
      BY Counted DEF GenInv
    <3>8. building = holds[c] /\ building \in Gens => strong'[building] > 0
      <4> SUFFICES ASSUME NEW b \in Gens, b = building, b = holds[c]
                   PROVE  strong'[b] > 0
        OBVIOUS
      <4>1. Local(b)'
        BY <3>1, <3>6, <3>7 DEF GenInv, Local, Phases, TypeInt
      <4>2. One(Local(b)') = 1 /\ One(active' = b) \in {0, 1}
        BY <4>1 DEF One
      <4>3. Cardinality(Holders(b)') = Cardinality(Holders(b)) - 1
        BY <3>3
      <4>4. Cardinality(Holders(b)) # 0
        <5>1. c \in Holders(b)
          BY DEF Holders
        <5> QED BY <5>1, HoldersFinite, FS_EmptySet
      <4>5. strong'[b] = Cardinality(Holders(b)) - 1 + One(active' = b) + 1
        BY <3>5, <4>2, <4>3
      <4> QED BY <4>2, <4>4, <4>5, HoldersFinite
    <3>9. dirs' = {g \in Gens : strong'[g] > 0 \/ building' = g}
      BY <2>16, <3>4, <3>6, <3>7, <3>8 DEF Finish, Drop, GenInv, GenerationsLive, TypeInt
    <3>10. loop' \in {"source", "assets"} => strong'[building'] = 0
      BY <3>4, <3>6, <3>7 DEF GenInv, Phases
    <3> QED BY <3>5, <3>9, <3>10 DEF GenInv, GenerationsLive
  <2>17. ASSUME NEW c \in Conns, ReadActive(c) PROVE GenInv'
    <3>1. \A g \in Gens : Local(g)' = Local(g)
      BY <2>17 DEF ReadActive, Local
    <3>2. holds[c] = NoGen
      BY <2>17 DEF ReadActive, Phases
    <3>3. \A g \in Gens : Holders(g)' = IF g = active THEN Holders(g) \cup {c} ELSE Holders(g)
      BY <2>17, <3>2 DEF ReadActive, Holders, TypeInt
    <3>4. \A g \in Gens : c \notin Holders(g)
      BY <3>2 DEF Holders
    <3>5. \A g \in Gens : Cardinality(Holders(g)') = IF g = active
                                                    THEN Cardinality(Holders(g)) + 1
                                                    ELSE Cardinality(Holders(g))
      BY <3>3, <3>4, HoldersFinite, FS_AddElement
    <3>6. \A g \in Gens : strong'[g] = IF g = active THEN strong[g] + 1 ELSE strong[g]
      BY <2>17 DEF ReadActive
    <3>7. \A g \in Gens : strong'[g] = Cardinality(Holders(g)')
                              + One(active' = g) + One(Local(g)')
      BY <2>17, <3>1, <3>5, <3>6, HoldersFinite DEF ReadActive, GenInv, GenerationsLive, One
    <3>8. active \in Gens => strong[active] > 0
      BY HoldersFinite DEF GenInv, GenerationsLive, One
    <3>9. dirs' = {g \in Gens : strong'[g] > 0 \/ building' = g}
      BY <2>17, <3>6, <3>8 DEF ReadActive, GenInv, GenerationsLive, TypeInt
    <3>10. loop' \in {"source", "assets"} => strong'[building'] = 0
      BY <2>17, <3>6, ActiveIsNotBuilding DEF ReadActive, GenInv, Phases
    <3> QED BY <3>7, <3>9, <3>10 DEF GenInv, GenerationsLive
  <2>18. ASSUME NEW c \in Conns, ReadError(c) PROVE GenInv'
    BY <2>1, <2>18 DEF ReadError, Local
  <2>19. CASE UNCHANGED vars
    BY <2>1, <2>19 DEF vars, Local
  <2> QED BY <2>2, <2>4, <2>5, <2>6, <2>7, <2>8, <2>9, <2>10, <2>11, <2>12, <2>13,
             <2>14, <2>15, <2>16, <2>17, <2>18, <2>19
          DEF Next, Main, Thread, Turn, Respond, Exited
<1> QED BY <1>1, <1>2, Typing, PTL DEF Spec
----------------------------------------------------------------------------
(* Connection permits *)

Busy == {c \in Conns : conn[c] # "none"}

\* The running threads can be counted.
LEMMA BusyFinite == IsFiniteSet(Busy) /\ Cardinality(Busy) \in Nat
<1>1. IsFiniteSet(Busy)
  BY FS_Subset, BoundsAssumption DEF BoundsAssumption, Busy
<1> QED BY <1>1, FS_CardinalityType

\* No more than MAX_HTTP_CONNECTIONS threads run, and the counter of permits
\* is the number of running threads (serve.rs:385-401).
THEOREM PermitsAreExact == Spec => []PermitsExact
<1> USE BoundsAssumption DEF BoundsAssumption
<1>1. Init => PermitsExact
  <2> SUFFICES ASSUME Init PROVE PermitsExact
    OBVIOUS
  <2>1. {c \in Conns : conn[c] # "none"} = {}
    BY DEF Init
  <2>2. Cardinality({c \in Conns : conn[c] # "none"}) = 0
    BY <2>1, FS_EmptySet
  <2>3. permits = 0
    BY DEF Init
  <2> QED BY <2>2, <2>3 DEF PermitsExact
<1>2. TypeInt /\ PermitsExact /\ [Next]_vars => PermitsExact'
  <2> SUFFICES ASSUME TypeInt, PermitsExact, [Next]_vars PROVE PermitsExact'
    OBVIOUS
  <2>0. permits = Cardinality(Busy) /\ permits <= MaxConns
    BY DEF PermitsExact, Busy
  <2>1. ASSUME permits' = Cardinality(Busy') /\ permits' <= MaxConns PROVE PermitsExact'
    BY <2>1 DEF PermitsExact, Busy
  <2>2. ASSUME UNCHANGED <<permits, conn>> PROVE PermitsExact'
    BY <2>2 DEF PermitsExact
  <2>3. ASSUME NEW c \in Conns, Accept(c) PROVE PermitsExact'
    <3>1. c \notin Busy /\ Busy' = Busy \cup {c}
      BY <2>3 DEF Accept, Busy, TypeInt
    <3>2. Cardinality(Busy') = Cardinality(Busy) + 1
      BY <3>1, BusyFinite, FS_AddElement
    <3> QED BY <2>0, <2>1, <2>3, <3>2 DEF Accept, TypeInt
  <2>4. ASSUME NEW c \in Conns, Finish(c), conn[c] # "none" PROVE PermitsExact'
    <3>1. c \in Busy /\ Busy' = Busy \ {c}
      BY <2>4 DEF Finish, Busy, TypeInt
    <3>2. Cardinality(Busy') = Cardinality(Busy) - 1
      BY <3>1, BusyFinite, FS_RemoveElement
    <3> QED BY <2>0, <2>1, <2>4, <3>2 DEF Finish, TypeInt
  <2>5. ASSUME NEW c \in Conns, ReadActive(c) \/ ReadError(c) PROVE PermitsExact'
    <3>1. Busy' = Busy /\ permits' = permits
      BY <2>5 DEF ReadActive, ReadError, Busy, TypeInt
    <3> QED BY <2>0, <2>1, <3>1
  <2>6. ASSUME NEW c \in Conns, Thread(c) PROVE PermitsExact'
    BY <2>4, <2>5, <2>6 DEF Thread, Turn, Respond
  <2>7. CASE Main
    BY <2>2, <2>7
       DEF Main, ReadSource, ReadAsset, BuildFails, WriteGeneration, WriteFails,
           Install, Baseline, Recheck, Activate, ClearError, WatchTick, http
  <2>8. ASSUME NEW p \in Path, NEW c \in Content, Save(p, c) PROVE PermitsExact'
    BY <2>2, <2>8 DEF Save, http
  <2>9. CASE RetryInterval \/ Exited \/ UNCHANGED vars
    BY <2>2, <2>9 DEF RetryInterval, Exited, vars, http
  <2> QED BY <2>3, <2>6, <2>7, <2>8, <2>9 DEF Next
<1> QED BY <1>1, <1>2, Typing, PTL DEF Spec

\* Every variable keeps its type; in particular no count of an Arc and no
\* count of permits ever falls below zero.
THEOREM TypeCorrect == Spec => []TypeOK
<1>1. TypeInt /\ GenInv /\ PermitsExact => TypeOK
  <2> SUFFICES ASSUME TypeInt, GenInv, PermitsExact PROVE TypeOK
    OBVIOUS
  <2>1. strong \in [Gens -> Nat]
    BY Counted DEF TypeInt, GenInv
  <2>2. permits \in Nat
    BY BusyFinite DEF PermitsExact, Busy
  <2> QED BY <2>1, <2>2 DEF TypeInt, TypeOK
<1> QED BY <1>1, Typing, Generations, PermitsAreExact, PTL

\* The directory of a generation is on disk exactly while somebody has its
\* Arc or it is under construction (serve.rs:93-132, 190-192, 229, 711-714).
THEOREM GenerationsStayAlive == Spec => []GenerationsLive
<1>1. GenInv => GenerationsLive
  BY DEF GenInv
<1> QED BY <1>1, Generations, PTL

----------------------------------------------------------------------------
(* The watcher and what it has seen *)

\* A save of the source that the check before the first loop will notice.
Noticed == ~started /\ touched /\ sourceBefore # Absent

\* The values in W of `in` are those of `now`, but for raced saves.
Agree(in, now, W) ==
  \A p \in W : in[p] = now[p] \/ p \in raced \/ (p = Source /\ Noticed)

Fresh ==
  /\ loop \notin {"assets", "install", "baseline"} => input = NothingRead
  /\ Building => Agree(input, disk, WatchedOf(input))
  /\ loop = "install" \/ (loop = "baseline" /\ started) => meta[building] = input
  /\ loop = "baseline" /\ ~started /\ active # NoGen => meta[active] = input
  /\ loop = "activate" => Agree(meta[building], fp, watched)
  /\ loop \in {"recheck", "clear"} /\ active # NoGen => Agree(meta[active], fp, watched)
  /\ loop = "idle" /\ error = NoError /\ fp # NoFp => Agree(meta[active], fp, watched)
  /\ error = NoError /\ (loop \in {"baseline", "recheck"} \/ started) => active # NoGen

\* What is up to date about the build in progress, the watched paths, their
\* fingerprint and the active generation, at each place of the main loop.
LEMMA Freshness == Spec => []Fresh
<1> USE NamesAssumption DEF NamesAssumption
<1>1. Init => Fresh
  BY DEF Init, Fresh, Building, Agree, WatchedOf, NothingRead
<1>2. TypeInt /\ Phases /\ GenInv /\ Fresh /\ [Next]_vars => Fresh'
  <2> SUFFICES ASSUME TypeInt, Phases, GenInv, Fresh, [Next]_vars PROVE Fresh'
    OBVIOUS
  <2> USE DEF files, builds, arcs, http, startup
  <2>1. ASSUME NEW p \in Path, NEW c \in Content, Save(p, c) PROVE Fresh'
    <3>1. Building' = Building /\ WatchedOf(input)' = WatchedOf(input)
      BY <2>1 DEF Save, Building, WatchedOf
    <3>2. Noticed => Noticed'
      BY <2>1 DEF Save, Noticed
    <3>3. Building => Agree(input, disk, WatchedOf(input))'
      <4> SUFFICES ASSUME Building, NEW q \in WatchedOf(input)
                   PROVE  input[q] = disk'[q] \/ q \in raced' \/ (q = Source /\ Noticed')
        BY <2>1, <3>1 DEF Agree, Save
      <4>1. input[q] = disk[q] \/ q \in raced \/ (q = Source /\ Noticed)
        BY DEF Agree, Fresh
      <4>2. CASE q = p
        BY <2>1, <4>2 DEF Save, Noticed, WatchedOf, TypeInt
      <4>3. CASE q # p
        BY <2>1, <3>2, <4>1, <4>3 DEF Save, TypeInt, Trees, WatchedOf
      <4> QED BY <4>2, <4>3
    <3>4. raced \subseteq raced' /\ UNCHANGED <<loop, meta, building, active, error, fp, watched>>
      BY <2>1 DEF Save
    <3>5. /\ loop = "activate" => Agree(meta[building], fp, watched)'
          /\ loop \in {"recheck", "clear"} /\ active # NoGen => Agree(meta[active], fp, watched)'
          /\ loop = "idle" /\ error = NoError /\ fp # NoFp => Agree(meta[active], fp, watched)'
      BY <3>2, <3>4 DEF Fresh, Agree
    <3> QED BY <2>1, <3>1, <3>3, <3>5 DEF Save, Fresh, NothingRead
  <2>2. ASSUME NEW m \in Diagnostic, BuildFails(m), loop \in {"source", "assets"} PROVE Fresh'
    <3>1. input' = NothingRead /\ WatchedOf(input') = {}
      BY <2>2 DEF BuildFails, WatchedOf, NothingRead
    <3>2. m # NoError
      OBVIOUS
    <3>3. ~started => active = NoGen
      BY <2>2 DEF Phases
    <3> QED BY <2>2, <3>1, <3>2, <3>3 DEF BuildFails, Fresh, Building, Agree, NothingRead
  <2>3. CASE ReadSource
    <3>1. <<Source, disk[Source]>> \in Diagnostic /\ loop = "source" /\ Source \in Path
      BY <2>3 DEF ReadSource, Diagnostic, TypeInt, Trees, Content, Path
    <3>2. CASE disk[Source] = Absent \/ disk[Source] \in Broken
      BY <2>2, <2>3, <3>1, <3>2 DEF ReadSource
    <3>3. CASE ~(disk[Source] = Absent \/ disk[Source] \in Broken)
      <4>1. /\ input' = [input EXCEPT ![Source] = disk[Source]] /\ loop' = "assets"
            /\ UNCHANGED <<files, faults, startup, building, meta, raced, watched,
                           fp, retryDue, active, error, arcs, http>>
        BY <2>3, <3>3 DEF ReadSource
      <4>2. input = NothingRead
        BY <3>1 DEF Fresh
      <4>3. Agree(input, disk, WatchedOf(input))'
        BY <4>1, <4>2 DEF Agree, WatchedOf, NothingRead
      <4> QED BY <3>1, <4>1, <4>3 DEF Fresh, Building
    <3> QED BY <3>2, <3>3
  <2>4. ASSUME NEW a \in Assets, ReadAsset(a) PROVE Fresh'
    <3>1. <<a, Absent>> \in Diagnostic /\ loop = "assets" /\ a \in Path
      BY <2>4 DEF ReadAsset, Diagnostic, Content, Path
    <3>2. CASE disk[a] = Absent
      BY <2>2, <2>4, <3>1, <3>2 DEF ReadAsset
    <3>3. CASE disk[a] # Absent
      <4>1. /\ input' = [input EXCEPT ![a] = disk[a]]
            /\ UNCHANGED <<files, faults, startup, loop, building, meta, raced,
                           watched, fp, retryDue, active, error, arcs, http>>
        BY <2>4, <3>3 DEF ReadAsset
      <4>2. Agree(input, disk, WatchedOf(input)) /\ input \in [Path -> Content \cup {Unread}]
        BY <3>1 DEF Fresh, Building, TypeInt, Inputs
      <4>3. Noticed' = Noticed
        BY <4>1 DEF Noticed
      <4>4. Agree(input, disk, WatchedOf(input))'
        BY <3>1, <4>1, <4>2, <4>3 DEF Agree, WatchedOf
      <4> QED BY <3>1, <4>1, <4>4 DEF Fresh, Building
    <3> QED BY <3>2, <3>3
  <2>5. CASE WriteGeneration
    <3>1. active # building /\ building \in Gens
      BY <2>5, ActiveIsNotBuilding DEF WriteGeneration, Phases
    <3>2. meta'[building] = input
      BY <2>5, <3>1 DEF WriteGeneration, TypeInt
    <3> QED BY <2>5, <3>1, <3>2
            DEF WriteGeneration, Fresh, Phases, Building, Agree, WatchedOf, Noticed
  <2>6. CASE WriteFails
    <3>1. IoFailure \in Diagnostic /\ loop \in {"source", "assets"}
      BY <2>6 DEF WriteFails, Diagnostic
    <3> QED BY <2>2, <2>6, <3>1 DEF WriteFails
  <2>7. CASE Install
    <3>1. building \in Gens /\ ~started
      BY <2>7 DEF Install, Phases
    <3> QED BY <2>7, <3>1 DEF Install, Fresh, Building, Agree, WatchedOf, Noticed
  <2>8. CASE Baseline
    <3>1. Agree(input, disk, WatchedOf(input))
      BY <2>8 DEF Baseline, Fresh, Building
    <3>2. \A p \in watched' : fp'[p] = disk[p]
      <4>1. watched' \subseteq Path
        BY <2>8 DEF Baseline, WatchedOf, Path
      <4>2. fp' = Fingerprint(watched')
        BY <2>8 DEF Baseline
      <4> QED BY <4>1, <4>2 DEF Fingerprint
    <3>3. Noticed' = Noticed /\ raced' = raced /\ input' = NothingRead
      BY <2>8 DEF Baseline, Noticed
    <3>4. CASE started
      <4>1. meta[building] = input /\ watched' = WatchedOf(input)
        BY <2>8, <3>4 DEF Baseline, Fresh
      <4>2. Agree(meta[building], fp, watched)'
        BY <2>8, <3>1, <3>2, <3>3, <4>1 DEF Agree, Baseline
      <4> QED BY <2>8, <3>3, <3>4, <4>2 DEF Baseline, Fresh, Building, NothingRead
    <3>5. CASE ~started
      <4>1. ASSUME active # NoGen PROVE Agree(meta[active], fp, watched)'
        <5>1. meta[active] = input /\ watched' = WatchedOf(input)
          BY <2>8, <3>5, <4>1 DEF Baseline, Fresh
        <5> QED BY <2>8, <3>1, <3>2, <3>3, <5>1 DEF Agree, Baseline
      <4> QED BY <2>8, <3>3, <3>5, <4>1 DEF Baseline, Fresh, Building, NothingRead
    <3> QED BY <3>4, <3>5
  <2>9. CASE Recheck
    <3>1. ASSUME fp' # NoFp, active # NoGen PROVE Agree(meta[active], fp, watched)'
      <4>1. Agree(meta[active], fp, watched) /\ ~SourceMoved /\ fp' = fp
        BY <2>9, <3>1 DEF Recheck, Fresh
      <4>2. CASE Noticed
        <5>1. touched /\ sourceBefore # Absent
          BY <4>2 DEF Noticed
        <5> QED BY <4>1, <5>1 DEF SourceMoved
      <4>3. CASE ~Noticed
        BY <2>9, <4>1, <4>3 DEF Agree, Recheck
      <4> QED BY <4>2, <4>3
    <3> QED BY <2>9, <3>1 DEF Recheck, Fresh, Building, NothingRead
  <2>10. CASE Activate
    <3>1. Agree(meta[active], fp, watched)'
      BY <2>10 DEF Activate, Fresh, Agree, Noticed
    <3>2. building \in Gens
      BY <2>10 DEF Activate, Phases
    <3> QED BY <2>10, <3>1, <3>2 DEF Activate, Fresh, Building, NothingRead
  <2>11. CASE ClearError
    <3>1. active # NoGen
      BY <2>11 DEF ClearError, Phases
    <3>2. Agree(meta[active], fp, watched)'
      BY <2>11, <3>1 DEF ClearError, Fresh, Agree, Noticed
    <3> QED BY <2>11, <3>1, <3>2 DEF ClearError, Fresh, Building, NothingRead
  <2>12. CASE WatchTick
    <3>1. input' = NothingRead /\ WatchedOf(input') = {}
      BY <2>12 DEF WatchTick, Fresh, WatchedOf, NothingRead
    <3> QED BY <2>12, <3>1 DEF WatchTick, Fresh, Building, Agree, NothingRead, Phases
  \* The steps of the threads and of the clock touch none of these variables.
  <2>13. ASSUME UNCHANGED <<disk, loop, started, touched, sourceBefore, input,
                            meta, building, raced, watched, fp, active, error>>
         PROVE  Fresh'
    BY <2>13 DEF Fresh, Building, Agree, WatchedOf, Noticed, NothingRead
  <2>14. CASE RetryInterval
    BY <2>13, <2>14 DEF RetryInterval
  <2>15. ASSUME NEW c \in Conns, Accept(c) \/ Thread(c) PROVE Fresh'
    BY <2>13, <2>15 DEF Accept, Thread, Turn, Respond, Finish, ReadActive, ReadError
  <2>16. CASE UNCHANGED vars
    BY <2>13, <2>16 DEF vars
  <2> QED BY <2>1, <2>3, <2>4, <2>5, <2>6, <2>7, <2>8, <2>9, <2>10, <2>11, <2>12,
             <2>14, <2>15, <2>16 DEF Next, Main, Exited
<1> QED BY <1>1, <1>2, Typing, Generations, PTL DEF Spec

\* With no diagnostic and an up-to-date fingerprint, the active generation was
\* built from the files as they are, raced saves excepted (serve.rs:158,
\* 198-235).
THEOREM NoStaleGenerationServed == Spec => []NoStaleGeneration
<1>1. TypeInt /\ Phases /\ Fresh => NoStaleGeneration
  <2> SUFFICES ASSUME TypeInt, Phases, Fresh,
                      loop = "idle", error = NoError, fp = Fingerprint(watched)
               PROVE  /\ active # NoGen
                      /\ \A p \in watched \ raced : meta[active][p] = disk[p]
    BY DEF NoStaleGeneration
  <2>1. started
    BY DEF Phases
  <2>2. active # NoGen
    BY <2>1 DEF Fresh
  <2>3. fp # NoFp
    BY FingerprintType, NamesAssumption DEF NamesAssumption, TypeInt
  <2>4. Agree(meta[active], fp, watched)
    BY <2>3 DEF Fresh
  <2>5. \A p \in watched : fp[p] = disk[p]
    BY DEF Fingerprint, TypeInt
  <2> QED BY <2>1, <2>2, <2>4, <2>5 DEF Agree, Noticed
<1> QED BY <1>1, Typing, Freshness, PTL
----------------------------------------------------------------------------
(* The server implements LastGoodBuild *)

\* Everything a build has read exists, nothing unreferenced is read, and the
\* active generation came from a complete build.
Complete ==
  /\ loop \in {"assets", "install"} \/ (loop = "baseline" /\ started)
       => /\ input[Source] \in Texts \ Broken
          /\ \A a \in Assets : IF a \in Uses[input[Source]]
                                THEN input[a] \in Blobs \cup {Unread}
                                ELSE input[a] = Unread
  /\ loop = "source" => input = NothingRead
  /\ loop \in {"install", "activate"} \/ (loop = "baseline" /\ started)
       => meta[building] \in CompleteInputs
  /\ active # NoGen => meta[active] \in CompleteInputs

\* Nothing is written, installed or activated that lacks one of its inputs.
LEMMA Completeness == Spec => []Complete
<1> USE NamesAssumption DEF NamesAssumption
<1>1. Init => Complete
  BY DEF Init, Complete
<1>2. TypeInt /\ Phases /\ GenInv /\ Fresh /\ Complete /\ [Next]_vars => Complete'
  <2> SUFFICES ASSUME TypeInt, Phases, GenInv, Fresh, Complete, [Next]_vars PROVE Complete'
    OBVIOUS
  <2> USE DEF files, builds, arcs, http, startup
  <2>1. ASSUME UNCHANGED <<loop, started, input, meta, building, active>> PROVE Complete'
    BY <2>1 DEF Complete, NothingRead, CompleteInputs
  <2>2. ASSUME NEW m \in Diagnostic, BuildFails(m), loop \in {"source", "assets"} PROVE Complete'
    BY <2>2 DEF BuildFails, Complete, CompleteInputs
  <2>3. CASE ReadSource
    <3>1. <<Source, disk[Source]>> \in Diagnostic /\ loop = "source"
      BY <2>3 DEF ReadSource, Diagnostic, TypeInt, Trees, Content, Path
    <3>2. CASE disk[Source] = Absent \/ disk[Source] \in Broken
      BY <2>2, <2>3, <3>1, <3>2 DEF ReadSource
    <3>3. CASE ~(disk[Source] = Absent \/ disk[Source] \in Broken)
      <4>1. input' = [NothingRead EXCEPT ![Source] = disk[Source]]
        BY <2>3, <3>1, <3>3 DEF ReadSource, Complete
      <4>2. disk[Source] \in Texts \ Broken
        BY <3>3 DEF TypeInt, Trees
      <4>3. input'[Source] = disk[Source] /\ \A a \in Assets : input'[a] = Unread
        BY <4>1 DEF NothingRead, Path
      <4>4. loop' = "assets" /\ UNCHANGED <<meta, building, active>>
        BY <2>3, <3>3 DEF ReadSource
      <4> QED BY <4>2, <4>3, <4>4 DEF Complete, CompleteInputs
    <3> QED BY <3>2, <3>3
  <2>4. ASSUME NEW a \in Assets, ReadAsset(a) PROVE Complete'
    <3>1. <<a, Absent>> \in Diagnostic /\ loop = "assets" /\ a \in Path /\ a # Source
      BY <2>4 DEF ReadAsset, Diagnostic, Content, Path
    <3>2. CASE disk[a] = Absent
      BY <2>2, <2>4, <3>1, <3>2 DEF ReadAsset
    <3>3. CASE disk[a] # Absent
      <4>1. /\ input' = [input EXCEPT ![a] = disk[a]] /\ a \in Uses[input[Source]]
            /\ UNCHANGED <<loop, started, meta, building, active>>
        BY <2>4, <3>3 DEF ReadAsset
      <4>2. disk[a] \in Blobs /\ input \in [Path -> Content \cup {Unread}]
        BY <3>3 DEF TypeInt, Trees, Inputs
      <4>3. input'[Source] = input[Source] /\ input'[a] \in Blobs
            /\ \A b \in Assets \ {a} : input'[b] = input[b]
        BY <3>1, <4>1, <4>2 DEF Path
      <4> QED BY <3>1, <4>1, <4>3 DEF Complete, CompleteInputs
    <3> QED BY <3>2, <3>3
  <2>5. CASE WriteGeneration
    <3>1. active # building /\ building \in Gens
      BY <2>5, ActiveIsNotBuilding DEF WriteGeneration, Phases
    <3>2. input \in CompleteInputs
      BY <2>5 DEF WriteGeneration, AllRead, Complete, CompleteInputs, TypeInt
    <3>3. meta'[building] = input /\ meta'[active] = meta[active]
      BY <2>5, <3>1 DEF WriteGeneration, TypeInt
    <3> QED BY <2>5, <3>2, <3>3 DEF WriteGeneration, Complete, CompleteInputs
  <2>6. CASE WriteFails
    <3>1. IoFailure \in Diagnostic /\ loop \in {"source", "assets"}
      BY <2>6 DEF WriteFails, Diagnostic
    <3> QED BY <2>2, <2>6, <3>1 DEF WriteFails
  <2>7. CASE Install
    BY <2>7 DEF Install, Complete, CompleteInputs, Phases
  <2>8. CASE Baseline
    BY <2>8 DEF Baseline, Complete, CompleteInputs
  <2>9. CASE Recheck
    BY <2>9 DEF Recheck, Complete, CompleteInputs
  <2>10. CASE Activate
    BY <2>10 DEF Activate, Complete, CompleteInputs
  <2>11. CASE ClearError
    BY <2>11 DEF ClearError, Complete, CompleteInputs
  <2>12. CASE WatchTick
    BY <2>12 DEF WatchTick, Complete, CompleteInputs, Fresh, NothingRead
  <2>13. ASSUME NEW p \in Path, NEW c \in Content, Save(p, c) PROVE Complete'
    BY <2>1, <2>13 DEF Save
  <2>14. CASE RetryInterval
    BY <2>1, <2>14 DEF RetryInterval
  <2>15. ASSUME NEW c \in Conns, Accept(c) \/ Thread(c) PROVE Complete'
    BY <2>1, <2>15 DEF Accept, Thread, Turn, Respond, Finish, ReadActive, ReadError
  <2>16. CASE UNCHANGED vars
    BY <2>1, <2>16 DEF vars
  <2> QED BY <2>3, <2>4, <2>5, <2>6, <2>7, <2>8, <2>9, <2>10, <2>11, <2>12, <2>13,
             <2>14, <2>15, <2>16 DEF Next, Main, Exited
<1> QED BY <1>1, <1>2, Typing, Generations, Freshness, PTL DEF Spec

\* The build that pages are served from and the diagnostic they are shown
\* behave as docs/cli.md:123-125 promises, whatever the files, the number of
\* generations and the number of connections (serve.rs:222-261).
THEOREM ServerImplementsLastGoodBuild == Spec => ServesLastGoodBuild
<1> USE NamesAssumption DEF NamesAssumption
<1> DEFINE served == IF active = NoGen THEN NoGen ELSE meta[active]
           settling == loop = "clear" /\ error # NoError
<1>1. Init => LastGood!Init
  BY DEF Init, LastGood!Init
<1>2. TypeInt /\ Phases /\ GenInv /\ Complete /\ [Next]_vars
        => [LastGood!Next]_LastGood!vars
  <2> SUFFICES ASSUME TypeInt, Phases, GenInv, Complete, [Next]_vars
               PROVE  [LastGood!Next]_LastGood!vars
    OBVIOUS
  <2> USE DEF files, builds, arcs, http, startup
  <2>1. ASSUME served' = served, error' = error, settling' <=> settling
        PROVE  [LastGood!Next]_LastGood!vars
    BY <2>1 DEF LastGood!vars
  <2>2. ASSUME NEW m \in Diagnostic, BuildFails(m), loop \in {"source", "assets"}
        PROVE  [LastGood!Next]_LastGood!vars
    <3>1. served' = served /\ ~settling /\ ~settling'
      BY <2>2 DEF BuildFails
    <3>2. error' = error \/ error' = m
      BY <2>2 DEF BuildFails
    <3> QED BY <2>1, <3>1, <3>2 DEF LastGood!Next, LastGood!Fail
  <2>3. CASE ReadSource
    <3>1. <<Source, disk[Source]>> \in Diagnostic /\ loop = "source"
      BY <2>3 DEF ReadSource, Diagnostic, TypeInt, Trees, Content, Path
    <3> QED BY <2>1, <2>2, <2>3, <3>1 DEF ReadSource
  <2>4. ASSUME NEW a \in Assets, ReadAsset(a) PROVE [LastGood!Next]_LastGood!vars
    <3>1. <<a, Absent>> \in Diagnostic /\ loop = "assets"
      BY <2>4 DEF ReadAsset, Diagnostic, Content, Path
    <3> QED BY <2>1, <2>2, <2>4, <3>1 DEF ReadAsset
  <2>5. CASE WriteGeneration
    <3>1. active # building /\ building \in Gens
      BY <2>5, ActiveIsNotBuilding DEF WriteGeneration, Phases
    <3>2. served' = served
      BY <2>5, <3>1 DEF WriteGeneration, TypeInt
    <3> QED BY <2>1, <2>5, <3>2 DEF WriteGeneration
  <2>6. CASE WriteFails
    <3>1. IoFailure \in Diagnostic /\ loop \in {"source", "assets"}
      BY <2>6 DEF WriteFails, Diagnostic
    <3> QED BY <2>2, <2>6, <3>1 DEF WriteFails
  <2>7. CASE Install
    <3>1. building \in Gens /\ meta[building] \in CompleteInputs
      BY <2>7 DEF Install, Phases, Complete
    <3>2. served' = meta[building] /\ ~settling /\ ~settling' /\ error' = error
      BY <2>7, <3>1 DEF Install
    <3>3. error = NoError
      BY <2>7 DEF Install, Phases
    <3> QED BY <3>1, <3>2, <3>3 DEF LastGood!Next, LastGood!Succeed
  <2>8. CASE Activate
    <3>1. building \in Gens /\ meta[building] \in CompleteInputs
      BY <2>8 DEF Activate, Phases, Complete
    <3>2. served' = meta[building] /\ ~settling /\ (settling' <=> error # NoError)
          /\ error' = error
      BY <2>8, <3>1 DEF Activate
    <3> QED BY <3>1, <3>2 DEF LastGood!Next, LastGood!Succeed
  <2>9. CASE ClearError
    <3>1. served' = served /\ error' = NoError /\ ~settling'
      BY <2>9 DEF ClearError
    <3>2. CASE error = NoError
      BY <2>1, <3>1, <3>2
    <3>3. CASE error # NoError
      BY <2>9, <3>1, <3>3 DEF ClearError, LastGood!Next, LastGood!Settle
    <3> QED BY <3>2, <3>3
  <2>10. CASE Baseline \/ Recheck \/ WatchTick
    BY <2>1, <2>10 DEF Baseline, Recheck, WatchTick
  <2>11. ASSUME NEW p \in Path, NEW c \in Content, Save(p, c)
         PROVE  [LastGood!Next]_LastGood!vars
    BY <2>1, <2>11 DEF Save
  <2>12. CASE RetryInterval \/ UNCHANGED vars
    BY <2>1, <2>12 DEF RetryInterval, vars
  <2>13. ASSUME NEW c \in Conns, Accept(c) \/ Thread(c)
         PROVE  [LastGood!Next]_LastGood!vars
    BY <2>1, <2>13 DEF Accept, Thread, Turn, Respond, Finish, ReadActive, ReadError
  <2> QED BY <2>3, <2>4, <2>5, <2>6, <2>7, <2>8, <2>9, <2>10, <2>11, <2>12, <2>13
          DEF Next, Main, Exited
<1> QED BY <1>1, <1>2, Typing, Generations, Completeness, PTL
        DEF Spec, ServesLastGoodBuild, LastGood!Spec

\* Directories and permits are counted exactly, for any number of connections
\* and generations (serve.rs:390, 712).
THEOREM ResourcesStayExact == Spec => []ResourcesExact
<1>1. GenerationsLive /\ PermitsExact => ResourcesExact
  BY DEF ResourcesExact
<1> QED BY <1>1, GenerationsStayAlive, PermitsAreExact, PTL

----------------------------------------------------------------------------
(* What the server has settled on *)

\* What is watched after a build is what the build has read.
Watches ==
  /\ loop = "activate" => watched = WatchedOf(meta[building])
  /\ loop \in {"recheck", "clear", "idle"} \/ (started /\ Building)
       => watched = IF active = NoGen THEN {Source} ELSE WatchedOf(meta[active])

\* The fingerprint after a build is taken of other paths only together with the
\* generation that has read them.
LEMMA WatchesKept ==
  TypeInt /\ Phases /\ GenInv /\ Watches /\ [Next]_vars => Watches'
<1> USE NamesAssumption DEF NamesAssumption
<1> SUFFICES ASSUME TypeInt, Phases, GenInv, Watches, [Next]_vars PROVE Watches'
  OBVIOUS
<1> USE DEF files, builds, arcs, http, startup
<1>1. ASSUME UNCHANGED <<loop, started, meta, building, active, watched>> PROVE Watches'
  BY <1>1 DEF Watches, WatchedOf, Building
<1>2. ASSUME NEW m, BuildFails(m), loop \in {"source", "assets"} PROVE Watches'
  BY <1>2 DEF BuildFails, Watches, WatchedOf, Building
<1>3. CASE ReadSource
  <2>1. loop = "source"
    BY <1>3 DEF ReadSource
  <2>2. CASE BuildFails(<<Source, disk[Source]>>)
    BY <1>2, <2>1, <2>2
  <2>3. CASE loop' = "assets" /\ UNCHANGED <<started, building, meta, watched, active>>
    BY <2>1, <2>3 DEF Watches, WatchedOf, Building
  <2> QED
    BY <1>3, <2>2, <2>3 DEF ReadSource
<1>4. ASSUME NEW a \in Assets, ReadAsset(a) PROVE Watches'
  <2>1. loop = "assets"
    BY <1>4 DEF ReadAsset
  <2>2. CASE BuildFails(<<a, Absent>>)
    BY <1>2, <2>1, <2>2
  <2>3. CASE UNCHANGED <<loop, started, building, meta, watched, active>>
    BY <1>1, <2>3
  <2> QED
    BY <1>4, <2>2, <2>3 DEF ReadAsset
<1>5. CASE WriteGeneration
  <2>1. active # building /\ building \in Gens
    BY <1>5, ActiveIsNotBuilding DEF WriteGeneration, Phases
  <2>2. meta'[active] = meta[active]
    BY <1>5, <2>1 DEF WriteGeneration, TypeInt
  <2> QED
    BY <1>5, <2>2 DEF WriteGeneration, Watches, WatchedOf, Building
<1>6. CASE WriteFails
  BY <1>2, <1>6 DEF WriteFails
<1>7. CASE Install
  BY <1>7 DEF Install, Watches, Building, Phases
<1>8. CASE Baseline
  BY <1>8 DEF Baseline, Watches, WatchedOf, Building
<1>9. CASE Recheck
  BY <1>9 DEF Recheck, Watches, WatchedOf, Building
<1>10. CASE Activate
  BY <1>10 DEF Activate, Watches, WatchedOf, Building, Phases
<1>11. CASE ClearError
  BY <1>11 DEF ClearError, Watches, WatchedOf, Building
<1>12. CASE WatchTick
  BY <1>12 DEF WatchTick, Watches, WatchedOf, Building
<1>13. ASSUME NEW p \in Path, NEW c \in Content, Save(p, c) PROVE Watches'
  BY <1>1, <1>13 DEF Save
<1>14. CASE RetryInterval
  BY <1>1, <1>14 DEF RetryInterval
<1>15. ASSUME NEW c \in Conns, Accept(c) \/ Thread(c) PROVE Watches'
  BY <1>1, <1>15 DEF Accept, Thread, Turn, Respond, Finish, ReadActive, ReadError
<1>16. CASE UNCHANGED vars
  BY <1>1, <1>16 DEF vars
<1> QED
  BY <1>3, <1>4, <1>5, <1>6, <1>7, <1>8, <1>9, <1>10, <1>11, <1>12, <1>13, <1>14,
     <1>15, <1>16 DEF Next, Main, Exited

\* A server that waits for changes, has no diagnostic to retry and has missed no
\* save serves the files as they are, all of them.
ServesTheFiles ==
  (loop = "idle" /\ raced = {} /\ error = NoError /\ fp = Fingerprint(watched))
    => /\ Buildable /\ active # NoGen
       /\ \A p \in {Source} \cup Uses[disk[Source]] : meta[active][p] = disk[p]

\* The safety half of EventuallyServesTheFiles: if the server comes to rest
\* (serve.rs:198-261), it does so with the files as they are.
THEOREM SettlesOnTheFiles == Spec => []ServesTheFiles
<1> USE NamesAssumption DEF NamesAssumption
<1>1. Init => Watches
  BY DEF Init, Watches, Building
<1>2. Spec => []Watches
  BY <1>1, WatchesKept, Typing, Generations, PTL DEF Spec
<1>3. TypeInt /\ Phases /\ Complete /\ Watches /\ NoStaleGeneration => ServesTheFiles
  <2> SUFFICES ASSUME TypeInt, Phases, Complete, Watches, NoStaleGeneration,
                      loop = "idle", raced = {}, error = NoError, fp = Fingerprint(watched)
               PROVE  /\ Buildable /\ active # NoGen
                      /\ \A p \in {Source} \cup Uses[disk[Source]] : meta[active][p] = disk[p]
    BY DEF ServesTheFiles
  <2> DEFINE in == meta[active]
  <2>1. active # NoGen /\ \A p \in watched : in[p] = disk[p]
    BY DEF NoStaleGeneration
  <2>2. in \in CompleteInputs
    BY <2>1 DEF Complete
  <2>3. /\ in[Source] \in Texts \ Broken
        /\ \A a \in Assets : IF a \in Uses[in[Source]] THEN in[a] \in Blobs
                                                      ELSE in[a] = Unread
    BY <2>2 DEF CompleteInputs
  <2>4. watched = WatchedOf(in)
    BY <2>1 DEF Watches
  <2> HIDE DEF in
  <2>5. \A p \in Path : in[p] # Unread => p \in watched
    BY <2>4 DEF WatchedOf
  <2>6. in[Source] # Unread /\ Uses[in[Source]] \subseteq Assets
    BY <2>3
  <2>7. in[Source] = disk[Source]
    BY <2>1, <2>5, <2>6 DEF Path
  <2>8. \A a \in Uses[disk[Source]] : in[a] = disk[a] /\ disk[a] \in Blobs
    BY <2>1, <2>3, <2>5, <2>6, <2>7 DEF Path
  <2> QED
    BY <2>1, <2>3, <2>7, <2>8 DEF Buildable, in
<1> QED
  BY <1>2, <1>3, Typing, Completeness, NoStaleGenerationServed, PTL
=============================================================================
