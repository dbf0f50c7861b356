--------------------------- MODULE PublishProofs ---------------------------
(***************************************************************************)
(* Proofs about Publish, for any builds, files and processes and any bound *)
(* on failures and crashes.                                                *)
(***************************************************************************)
EXTENDS Publish, TLAPS

\* A directory of build b that has all its files.
Full(b) == Dir(b, FilesOf[b])

\* From the moment that a process asks whether there is an output, its staging
\* directory is complete; what is set aside always is.
Staged(p) ==
  /\ pc[p] # "idle" => building[p] \in Builds
  /\ pc[p] = "write" => \E S \in SUBSET Files : staging[p] = Dir(building[p], S)
  /\ pc[p] \in {"preserve", "install"} => staging[p] = Full(building[p])
  /\ pc[p] = "restore" => backup[p] # Absent
  /\ backup[p] # Absent => pc[p] \in {"install", "installed", "restore"}
  /\ backup[p] \in Complete \cup {Absent}

\* No process gets past the first check while a link or a file is in the way.
Structure ==
  /\ target = Foreign => \A p \in Builders : pc[p] = "idle"
  /\ target \in {Absent, Foreign} \cup Complete
  /\ \A p \in Builders : Staged(p)

\* A full directory is a directory, and complete.
LEMMA FullDirs ==
  /\ \A b \in Builds : Full(b) \in Complete
  /\ Complete \subseteq Dirs
  /\ Absent \notin Complete /\ Foreign \notin Complete
BY BuildsAssumption, NamesAssumption DEF Full, Complete, Dirs, Dir

\* Every step keeps the types and the structure.
LEMMA Structured == Spec => [](TypeOK /\ Structure)
<1> USE BuildsAssumption, NamesAssumption, BoundsAssumption DEF TypeOK, Structure
<1>1. Init => TypeOK /\ Structure
  <2> SUFFICES ASSUME Init PROVE TypeOK /\ Structure
    OBVIOUS
  <2>1. target \in {Absent, Foreign} \cup Complete
    BY DEF Init, Complete
  <2> QED
    BY <2>1, FullDirs DEF Init, Staged
<1>2. TypeOK /\ Structure /\ [Next]_vars => TypeOK' /\ Structure'
  <2> SUFFICES ASSUME TypeOK, Structure, [Next]_vars PROVE TypeOK' /\ Structure'
    OBVIOUS
  <2>1. ASSUME NEW p \in Builders, NEW b \in Builds, Begin(p, b)
        PROVE  TypeOK' /\ Structure'
    <3>1. Dir(b, {}) \in Dirs
      BY DEF Dirs, Dir
    <3>2. TypeOK'
      BY <2>1, <3>1 DEF Begin, Returns, Goto, Fault
    <3>3. \A q \in Builders : Staged(q)'
      BY <2>1 DEF Begin, Returns, Goto, Fault, Staged
    <3>4. target' = target /\ (target' = Foreign => \A q \in Builders : pc'[q] = "idle")
      BY <2>1 DEF Begin, Returns, Goto
    <3> QED
      BY <3>2, <3>3, <3>4
  <2>2. ASSUME NEW p \in Builders, NEW f \in Files, WriteFile(p, f)
        PROVE  TypeOK' /\ Structure'
    <3>1. PICK S \in SUBSET Files : staging[p] = Dir(building[p], S)
      BY <2>2 DEF WriteFile, Staged
    <3>2. building[p] \in Builds
      BY <2>2 DEF WriteFile, Staged
    <3> DEFINE new == Dir(building[p], staging[p].files \cup {f})
    <3>3. new = Dir(building[p], S \cup {f})
      BY <3>1 DEF Dir
    <3>4. new \in Dirs
      BY <3>2, <3>3 DEF Dirs, Dir
    <3>5. \/ Fault /\ Returns(p, "error")
          \/ /\ staging' = [staging EXCEPT ![p] = new]
             /\ UNCHANGED <<pc, backup, outcome, faults>>
      BY <2>2 DEF WriteFile
    <3> HIDE DEF new
    <3>6. TypeOK'
      BY <2>2, <3>4, <3>5 DEF WriteFile, Returns, Goto, Fault
    <3>7. ASSUME NEW q \in Builders PROVE Staged(q)'
      <4>1. CASE Fault /\ Returns(p, "error")
        BY <2>2, <4>1 DEF WriteFile, Returns, Goto, Staged
      <4>2. CASE /\ staging' = [staging EXCEPT ![p] = new]
                 /\ UNCHANGED <<pc, backup, outcome, faults>>
        <5>1. pc[p] = "write" /\ building' = building
          BY <2>2 DEF WriteFile
        <5>2. CASE q = p
          BY <4>2, <5>1, <5>2, <3>3 DEF Staged
        <5>3. CASE q # p
          BY <4>2, <5>1, <5>3, <3>3 DEF Staged
        <5> QED BY <5>2, <5>3
      <4> QED BY <3>5, <4>1, <4>2
    <3>8. target' = target /\ target # Foreign
      BY <2>2 DEF WriteFile
    <3> QED BY <3>6, <3>7, <3>8
  <2>3. ASSUME NEW p \in Builders, Check(p) PROVE TypeOK' /\ Structure'
    <3>1. staging[p] = Full(building[p])
      BY <2>3 DEF Check, Staged, Dir, Full
    <3>2. TypeOK'
      BY <2>3 DEF Check, Returns, Goto, Fault
    <3>3. \A q \in Builders : Staged(q)'
      BY <2>3, <3>1 DEF Check, Returns, Goto, Fault, Staged
    <3>4. target' = target /\ target # Foreign
      BY <2>3 DEF Check
    <3> QED BY <3>2, <3>3, <3>4
  <2>4. ASSUME NEW p \in Builders, Preserve(p) PROVE TypeOK' /\ Structure'
    <3>1. target # Foreign /\ (target # Absent => target \in Complete)
      BY <2>4 DEF Preserve
    <3>2. TypeOK'
      BY <2>4, <3>1 DEF Preserve, Returns, Goto, Fault
    <3>3. \A q \in Builders : Staged(q)'
      BY <2>4, <3>1 DEF Preserve, Returns, Goto, Fault, Staged
    <3>4. target' \in {target, Absent}
      BY <2>4 DEF Preserve
    <3> QED BY <3>1, <3>2, <3>3, <3>4
  <2>5. ASSUME NEW p \in Builders, Install(p) PROVE TypeOK' /\ Structure'
    <3>1. target # Foreign /\ building[p] \in Builds /\ staging[p] \in Complete
      BY <2>5, FullDirs DEF Install, Staged
    <3>3. TypeOK'
      BY <2>5 DEF Install, Returns, Goto, Fault
    <3>4. \A q \in Builders : Staged(q)'
      BY <2>5 DEF Install, Returns, Goto, Fault, Staged
    <3>5. target' \in {target, staging[p]}
      BY <2>5 DEF Install
    <3> QED BY <3>1, <3>3, <3>4, <3>5, FullDirs
  <2>6. ASSUME NEW p \in Builders, Clean(p) PROVE TypeOK' /\ Structure'
    <3>1. \A q \in Builders : Staged(q)'
      BY <2>6 DEF Clean, Returns, Goto, Staged
    <3> QED BY <2>6, <3>1 DEF Clean, Returns, Goto
  <2>7. ASSUME NEW p \in Builders, Restore(p) PROVE TypeOK' /\ Structure'
    <3>1. backup[p] \in Complete
      BY <2>7 DEF Restore, Staged
    <3>2. \A q \in Builders : Staged(q)'
      BY <2>7 DEF Restore, Returns, Goto, Staged
    <3>3. TypeOK'
      BY <2>7, <3>1, FullDirs DEF Restore, Returns, Goto, Fault
    <3>4. target' \in {target, backup[p]} /\ target # Foreign
      BY <2>7 DEF Restore
    <3> QED BY <3>1, <3>2, <3>3, <3>4, FullDirs
  <2>8. ASSUME NEW p \in Builders, Crash(p) PROVE TypeOK' /\ Structure'
    <3>1. \A q \in Builders : Staged(q)'
      BY <2>8 DEF Crash, Returns, Goto, Staged
    <3> QED BY <2>8, <3>1 DEF Crash, Returns, Goto
  <2>9. CASE UNCHANGED vars
    BY <2>9 DEF vars, Staged
  <2> QED
    BY <2>1, <2>2, <2>3, <2>4, <2>5, <2>6, <2>7, <2>8, <2>9 DEF Next, Step, Done
<1> QED
  BY <1>1, <1>2, PTL DEF Spec

\* Variables keep their types, and what is set aside is a directory of one
\* build.
THEOREM TypesCorrect == Spec => []TypeOK
BY Structured, PTL

\* The output is never partial, whatever fails, dies or interferes.
THEOREM OutputIsComplete == Spec => []OutputComplete
<1>1. Structure => OutputComplete
  BY DEF Structure, OutputComplete
<1> QED
  BY <1>1, Structured, PTL

\* An output that is not a directory stays as it is.
THEOREM ForeignStays == Spec => ForeignIsKept
<1>1. TypeOK /\ Structure /\ [Next]_vars => [target = Foreign <=> target' = Foreign]_vars
  <2> SUFFICES ASSUME TypeOK, Structure, [Next]_vars
               PROVE  target = Foreign <=> target' = Foreign
    OBVIOUS
  <2> USE NamesAssumption, FullDirs DEF Structure
  <2>1. ASSUME NEW p \in Builders, Step(p) PROVE target = Foreign <=> target' = Foreign
    <3>1. CASE pc[p] = "idle"
      BY <2>1, <3>1 DEF Step, Begin, WriteFile, Check, Preserve, Install, Clean,
                        Restore, Crash
    <3>2. CASE pc[p] # "idle"
      <4>1. target # Foreign /\ Staged(p)
        BY <3>2
      <4>2. pc[p] = "install" => staging[p] \in Complete
        BY <4>1 DEF Staged
      <4>3. pc[p] = "restore" => backup[p] \in Complete
        BY <4>1 DEF Staged
      <4> QED
        BY <2>1, <3>2, <4>1, <4>2, <4>3 DEF Step, Begin, WriteFile, Check,
           Preserve, Install, Clean, Restore, Crash
    <3> QED BY <3>1, <3>2
  <2> QED
    BY <2>1 DEF Next, Done, vars
<1> QED
  BY <1>1, Structured, PTL DEF Spec, ForeignIsKept

\* Only a crash, or a restore that fails, can cost the user both the old and
\* the new output.
THEOREM OutputStays == Spec => OutputSurvives
<1>1. TypeOK /\ Structure /\ [Next]_vars =>
        [Kept => \/ Kept'
                 \/ crashes' # crashes
                 \/ faults' # faults /\ \E p \in Builders : pc[p] = "restore"]_vars
  <2> SUFFICES ASSUME TypeOK, Structure, [Next]_vars, Kept,
                      crashes' = crashes,
                      ~(faults' # faults /\ \E p \in Builders : pc[p] = "restore")
               PROVE  Kept'
    OBVIOUS
  <2> USE NamesAssumption, FullDirs DEF TypeOK, Structure
  <2> DEFINE Holds(q) == pc[q] \in {"install", "restore"} /\ backup[q] # Absent
  <2>1. ASSUME NEW p \in Builders, NEW q \in Builders, q # p, Step(p), Holds(q)
        PROVE  Kept'
    BY <2>1 DEF Step, Begin, WriteFile, Check, Preserve, Install, Clean, Restore,
                Crash, Returns, Goto, Kept
  <2>2. ASSUME NEW p \in Builders, Step(p) PROVE Kept'
    <3> SUFFICES ASSUME \A q \in Builders \ {p} : ~Holds(q) PROVE Kept'
      BY <2>1, <2>2
    <3>1. target # Absent \/ Holds(p)
      BY DEF Kept
    <3>2. ASSUME NEW b \in Builds, Begin(p, b) PROVE Kept'
      BY <3>1, <3>2 DEF Begin, Kept
    <3>3. ASSUME NEW f \in Files, WriteFile(p, f) PROVE Kept'
      BY <3>1, <3>3 DEF WriteFile, Kept
    <3>4. CASE Check(p) \/ Clean(p)
      BY <3>1, <3>4 DEF Check, Clean, Kept
    <3>5. CASE Preserve(p)
      BY <3>1, <3>5 DEF Preserve, Goto, Kept
    <3>6. CASE Install(p)
      <4>1. staging[p] # Absent
        BY <3>6 DEF Install, Staged
      <4> QED
        BY <3>1, <3>6, <4>1 DEF Install, Goto, Kept
    <3>7. CASE Restore(p)
      <4>1. backup[p] # Absent /\ faults' = faults
        BY <3>7 DEF Restore, Staged, Fault
      <4> QED
        BY <3>7, <4>1 DEF Restore, Kept, Fault
    <3>8. CASE Crash(p)
      BY <3>8 DEF Crash
    <3> QED
      BY <2>2, <3>2, <3>3, <3>4, <3>5, <3>6, <3>7, <3>8 DEF Step
  <2>3. CASE UNCHANGED vars
    BY <2>3 DEF vars, Kept
  <2> QED
    BY <2>2, <2>3 DEF Next, Done
<1> QED
  BY <1>1, Structured, PTL DEF Spec, OutputSurvives

\* Build b is the output, or set aside to become it again.
Present(b) ==
  \/ target \in Dirs /\ target.build = b
  \/ \E q \in Builders : backup[q] # Absent /\ backup[q].build = b

\* p has not installed its build, and will not unless its next steps succeed.
Failing(p) ==
  \/ pc[p] \in {"write", "preserve", "install", "restore"}
  \/ pc[p] = "idle" /\ outcome[p] = "error"

\* A build belongs to the one process that publishes it, and is present only
\* once that process has installed it.
Ownership ==
  /\ \A p \in Builders : building[p] \in published \cup {NoBuild}
  /\ \A p, q \in Builders : building[p] = building[q] /\ building[p] \in Builds => p = q
  /\ \A b \in Builds : Present(b) => b \in published
  /\ \A p \in Builders : Failing(p) => building[p] \in Builds /\ ~Present(building[p])

\* Every step keeps the ownership.
LEMMA Owned == Spec => []Ownership
<1> USE BuildsAssumption, NamesAssumption, FullDirs
<1>1. Init => Ownership
  <2> SUFFICES ASSUME Init PROVE Ownership
    OBVIOUS
  <2>1. ASSUME NEW b \in Builds, Present(b) PROVE b \in published
    BY <2>1 DEF Init, Present, Dir
  <2> QED
    BY <2>1 DEF Init, Ownership, Failing
<1>2. /\ TypeOK /\ Structure /\ Ownership
      /\ TypeOK' /\ [Next]_vars
      => Ownership'
  <2> SUFFICES ASSUME TypeOK, Structure, Ownership, TypeOK', [Next]_vars
               PROVE  Ownership'
    OBVIOUS
  <2>1. ASSUME NEW p \in Builders, NEW b \in Builds, Begin(p, b) PROVE Ownership'
    <3>1. b \notin published /\ published' = published \cup {b}
      BY <2>1 DEF Begin
    <3>2. building' = [building EXCEPT ![p] = b]
      BY <2>1 DEF Begin
    <3>3. \A c \in Builds : Present(c)' => Present(c)
      BY <2>1 DEF Begin, Returns, Present, TypeOK
    <3>4. \A q \in Builders \ {p} : Failing(q)' => Failing(q)
      BY <2>1 DEF Begin, Returns, Goto, Failing, TypeOK
    <3>5. ~Present(b)
      BY <3>1 DEF Ownership
    <3>6. \A q \in Builders : building[q] # b
      BY <3>1 DEF Ownership
    <3>7. \A q \in Builders : building'[q] = IF q = p THEN b ELSE building[q]
      BY <3>2 DEF TypeOK
    <3>8. b \in published' /\ published \subseteq published'
      BY <3>1
    <3> HIDE DEF Present, Failing
    <3>9. \A q \in Builders : building'[q] \in published' \cup {NoBuild}
      BY <3>7, <3>8 DEF Ownership
    <3>10. ASSUME NEW q \in Builders, NEW r \in Builders,
                  building'[q] = building'[r], building'[q] \in Builds
           PROVE  q = r
      BY <3>6, <3>7, <3>10 DEF Ownership
    <3>11. ASSUME NEW c \in Builds, Present(c)' PROVE c \in published'
      BY <3>3, <3>8, <3>11 DEF Ownership
    <3>12. ASSUME NEW q \in Builders, Failing(q)'
           PROVE  building'[q] \in Builds /\ ~Present(building[q])'
      <4>1. CASE q = p
        <5>1. building'[q] = b
          BY <3>7, <4>1
        <5>2. ~Present(b)'
          BY <3>3, <3>5
        <5> QED BY <5>1, <5>2
      <4>2. CASE q # p
        <5>1. building'[q] = building[q]
          BY <3>7, <4>2
        <5>2. building[q] \in Builds /\ ~Present(building[q])
          BY <3>4, <3>12, <4>2 DEF Ownership
        <5>3. \A c \in Builds : c = building[q] => ~Present(c)'
          BY <3>3, <5>2
        <5> QED BY <5>1, <5>2, <5>3
      <4> QED BY <4>1, <4>2
    <3> QED
      BY <3>9, <3>10, <3>11, <3>12 DEF Ownership
  <2>2. ASSUME NEW p \in Builders, Step(p),
               published' = published, building' = building
        PROVE  Ownership'
    <3>1. ASSUME NEW q \in Builders, Failing(q)' PROVE Failing(q)
      BY <2>2, <3>1 DEF Step, Begin, WriteFile, Check, Preserve, Install, Clean,
         Restore, Crash, Returns, Goto, Failing, TypeOK
    <3>2. ASSUME NEW c \in Builds, Present(c)'
          PROVE  \/ Present(c)
                 \/ c = building[p] /\ pc[p] = "install" /\ ~Failing(p)'
      <4>1. CASE Install(p)
        <5>1. staging[p].build = building[p]
          <6>1. staging[p] = Full(building[p])
            BY <4>1 DEF Install, Structure, Staged
          <6>2. Full(building[p]).build = building[p]
            BY DEF Full, Dir
          <6> QED BY <6>1, <6>2
        <5> QED
          BY <3>2, <4>1, <5>1 DEF Install, Returns, Goto, Present, Failing, TypeOK
      <4>2. CASE Preserve(p)
        <5>1. target \in Dirs \cup {Absent}
          BY <4>2 DEF Preserve, Structure, TypeOK
        <5> QED
          BY <3>2, <4>2, <5>1 DEF Preserve, Returns, Present, TypeOK
      <4>3. CASE Restore(p)
        <5>1. backup[p] # Absent
          BY <4>3 DEF Restore, Structure, Staged
        <5> QED
          BY <3>2, <4>3, <5>1 DEF Restore, Returns, Present, TypeOK
      <4>4. CASE Check(p) \/ Clean(p) \/ Crash(p)
        BY <3>2, <4>4 DEF Check, Clean, Crash, Returns, Present, TypeOK
      <4>5. CASE \E f \in Files : WriteFile(p, f)
        BY <3>2, <4>5 DEF WriteFile, Returns, Present, TypeOK
      <4>6. ~(\E b \in Builds : Begin(p, b))
        BY <2>2 DEF Begin
      <4> QED
        BY <2>2, <4>1, <4>2, <4>3, <4>4, <4>5, <4>6 DEF Step
    <3>3. pc[p] = "install" => building[p] \in published
      BY DEF Ownership, Failing
    <3> HIDE DEF Present, Failing
    <3>4. \A c \in Builds : Present(c)' => c \in published
      BY <3>2, <3>3 DEF Ownership
    <3>5. ASSUME NEW q \in Builders, Failing(q)'
          PROVE  building[q] \in Builds /\ ~Present(building[q])'
      <4>1. building[q] \in Builds /\ ~Present(building[q])
        BY <3>1, <3>5 DEF Ownership
      <4>2. ~(building[q] = building[p] /\ ~Failing(p)')
        BY <3>5, <4>1 DEF Ownership
      <4>3. \A c \in Builds : Present(c)' => Present(c) \/ (c = building[p] /\ ~Failing(p)')
        BY <3>2
      <4>4. ~Present(building[q])'
        <5> SUFFICES ASSUME Present(building[q])' PROVE FALSE
          OBVIOUS
        <5>1. building'[q] = building[q]
          BY <2>2
        <5> QED
          BY <4>1, <4>2, <4>3, <5>1, <2>2
      <4> QED BY <4>1, <4>4
    <3> QED
      BY <2>2, <3>4, <3>5 DEF Ownership
  <2>3. CASE UNCHANGED vars
    BY <2>3 DEF vars, Ownership, Present, Failing
  <2>4. ASSUME NEW p \in Builders, Step(p) PROVE Ownership'
    <3>1. \/ \E b \in Builds : Begin(p, b)
          \/ published' = published /\ building' = building
      BY <2>4 DEF Step, WriteFile, Check, Preserve, Install, Clean, Restore, Crash
    <3> QED
      BY <2>1, <2>2, <2>4, <3>1
  <2> QED
    BY <2>3, <2>4 DEF Next, Done
<1> QED
  BY <1>1, <1>2, Structured, PTL DEF Spec

\* A publish that fails leaves nothing of its build in place or set aside.
THEOREM FailuresAreClean == Spec => []FailuresLeaveNothing
<1>1. TypeOK /\ Ownership => FailuresLeaveNothing
  BY DEF TypeOK, Ownership, FailuresLeaveNothing, Failing, Present, SetAside
<1> QED
  BY <1>1, Owned, Structured, PTL

\* The output is one build's and not that of a publish that failed, for any
\* number of builders, failures and crashes (artifact.rs:284-330).
THEOREM OutputStaysSound == Spec => []OutputSound
<1>1. OutputComplete /\ FailuresLeaveNothing => OutputSound
  BY DEF OutputSound
<1> QED BY <1>1, OutputIsComplete, FailuresAreClean, PTL

\* No step replaces what is not a build, or loses the output but for a crash
\* or a failed restore (artifact.rs:191, 298-320).
THEOREM OutputIsKept == Spec => OutputKept
BY ForeignStays, OutputStays DEF OutputKept
=============================================================================
