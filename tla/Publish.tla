------------------------------ MODULE Publish ------------------------------
(***************************************************************************)
(* `publish` (crates/polygl-cli/src/artifact.rs): how a build becomes the  *)
(* output directory.  Its files are written to a staging directory, the    *)
(* output is moved into a backup directory and the staging directory into  *)
(* its place.  Every file system call may fail, the process may die        *)
(* between any two, and several processes may build into one output.       *)
(***************************************************************************)
EXTENDS Naturals, FiniteSets

CONSTANTS
  Builders,   \* processes that publish
  Builds,     \* what they publish; each build is published once
  Files,      \* the paths of files
  FilesOf,    \* FilesOf[b]: the files of build b
  Colliding,  \* the builds whose paths collide (validate_paths)
  Previous,   \* the build that is there at the beginning
  Absent,     \* no directory
  Foreign,    \* a symlink or a file where the output should be
  NoBuild,
  MaxFaults,  \* bound: file system calls that fail
  MaxCrashes  \* bound: processes that die

\* A directory that holds files of a build.
Dir(b, files) == [build |-> b, files |-> files]
Dirs == [build : Builds, files : SUBSET Files]
Complete == {Dir(b, FilesOf[b]) : b \in Builds}

ASSUME BuildsAssumption ==
  /\ Previous \in Builds /\ NoBuild \notin Builds
  /\ Colliding \subseteq Builds
  /\ FilesOf \in [Builds -> (SUBSET Files) \ {{}}]
ASSUME NamesAssumption ==
  /\ Absent # Foreign
  /\ Absent \notin Dirs /\ Foreign \notin Dirs
ASSUME BoundsAssumption == MaxFaults \in Nat /\ MaxCrashes \in Nat

VARIABLES
  target,    \* the output directory
  pc,        \* where each process is
  building,  \* the build that each publishes
  staging,   \* the staging directory of each
  backup,    \* backup/previous of each
  outcome,   \* what each last returned
  published, \* builds that were taken up so far
  faults, crashes

vars == <<target, pc, building, staging, backup, outcome, published, faults,
          crashes>>

Init ==
  /\ target \in {Absent, Foreign, Dir(Previous, FilesOf[Previous])}
  /\ pc = [p \in Builders |-> "idle"]
  /\ building = [p \in Builders |-> NoBuild]
  /\ staging = [p \in Builders |-> Absent]
  /\ backup = [p \in Builders |-> Absent]
  /\ outcome = [p \in Builders |-> "none"]
  /\ published = {Previous}
  /\ faults = 0 /\ crashes = 0

----------------------------------------------------------------------------
Goto(p, where) == pc' = [pc EXCEPT ![p] = where]

\* publish returns: the TempDirs that p still owns are removed.
Returns(p, result) ==
  /\ Goto(p, "idle")
  /\ staging' = [staging EXCEPT ![p] = Absent]
  /\ backup' = [backup EXCEPT ![p] = Absent]
  /\ outcome' = [outcome EXCEPT ![p] = result]

\* A file system call of the kind that may fail at any time.
Fault == faults < MaxFaults /\ faults' = faults + 1

\* Mutant of Begin: whatever is there is taken for an output directory.
BeginTrusting(p, b) ==
  /\ pc[p] = "idle"
  /\ b \notin published
  /\ published' = published \cup {b}
  /\ building' = [building EXCEPT ![p] = b]
  /\ Goto(p, "write")
  /\ staging' = [staging EXCEPT ![p] = Dir(b, {})]
  /\ UNCHANGED <<target, backup, outcome, faults, crashes>>

\* validate_paths, resolve_destination, reject_unsafe_existing_destination
\* and the creation of the staging directory.
Begin(p, b) ==
  /\ pc[p] = "idle"
  /\ b \notin published
  /\ published' = published \cup {b}
  /\ building' = [building EXCEPT ![p] = b]
  /\ \/ /\ b \in Colliding \/ target = Foreign
        /\ Returns(p, "error")
        /\ UNCHANGED faults
     \/ Fault /\ Returns(p, "error")
     \/ /\ b \notin Colliding /\ target # Foreign
        /\ Goto(p, "write")
        /\ staging' = [staging EXCEPT ![p] = Dir(b, {})]
        /\ UNCHANGED <<backup, outcome, faults>>
  /\ UNCHANGED <<target, crashes>>

\* write_files: one file, with its directories.
WriteFile(p, f) ==
  /\ pc[p] = "write"
  /\ f \in FilesOf[building[p]] \ staging[p].files
  /\ \/ Fault /\ Returns(p, "error")
     \/ /\ staging' = [staging EXCEPT ![p] = Dir(building[p], @.files \cup {f})]
        /\ UNCHANGED <<pc, backup, outcome, faults>>
  /\ UNCHANGED <<target, building, published, crashes>>

\* Mutant of Check: the output is replaced when the first file is there.
CheckEarly(p) ==
  /\ pc[p] = "write" /\ staging[p].files # {}
  /\ Goto(p, IF target = Absent THEN "install" ELSE "preserve")
  /\ UNCHANGED <<target, building, staging, backup, outcome, published,
                 faults, crashes>>

\* replace_destination: is there an output to preserve?  If so, the backup
\* directory is created.
Check(p) ==
  /\ pc[p] = "write"
  /\ staging[p].files = FilesOf[building[p]]
  /\ \/ target # Absent /\ Fault /\ Returns(p, "error")
     \/ /\ Goto(p, IF target = Absent THEN "install" ELSE "preserve")
        /\ UNCHANGED <<staging, backup, outcome, faults>>
  /\ UNCHANGED <<target, building, published, crashes>>

\* rename(target, previous): fails also when another process has moved the
\* output away in the meantime.
Preserve(p) ==
  /\ pc[p] = "preserve"
  /\ \/ /\ target = Absent
        /\ Returns(p, "error")
        /\ UNCHANGED <<target, faults>>
     \/ /\ Fault
        /\ Returns(p, "error")
        /\ UNCHANGED target
     \/ /\ target # Absent
        /\ backup' = [backup EXCEPT ![p] = target]
        /\ target' = Absent
        /\ Goto(p, "install")
        /\ UNCHANGED <<staging, outcome, faults>>
  /\ UNCHANGED <<building, published, crashes>>

\* Mutant of Install: a failure returns at once.
InstallGivingUp(p) ==
  /\ pc[p] = "install"
  /\ \/ /\ target = Absent
        /\ target' = staging[p]
        /\ Returns(p, "ok")
        /\ UNCHANGED faults
     \/ /\ \/ target # Absent /\ UNCHANGED faults
           \/ Fault
        /\ Returns(p, "error")
        /\ UNCHANGED target
  /\ UNCHANGED <<building, published, crashes>>

\* rename(staging, target): fails also when another process has put its
\* build there, for a directory with files in it is not replaced.  The
\* staging directory is gone either way.
Install(p) ==
  /\ pc[p] = "install"
  /\ \/ /\ target = Absent
        /\ target' = staging[p]
        /\ staging' = [staging EXCEPT ![p] = Absent]
        /\ Goto(p, "installed")
        /\ UNCHANGED <<backup, outcome, faults>>
     \/ /\ \/ target # Absent /\ UNCHANGED faults
           \/ Fault
        /\ IF backup[p] = Absent
             THEN Returns(p, "error")
             ELSE /\ staging' = [staging EXCEPT ![p] = Absent]
                  /\ Goto(p, "restore")
                  /\ UNCHANGED <<backup, outcome>>
        /\ UNCHANGED target
  /\ UNCHANGED <<building, published, crashes>>

\* The backup is removed and publish succeeds.
Clean(p) ==
  /\ pc[p] = "installed"
  /\ Returns(p, "ok")
  /\ UNCHANGED <<target, building, published, faults, crashes>>

\* rename(previous, target).  If that fails too, the previous build goes with
\* the backup directory.
Restore(p) ==
  /\ pc[p] = "restore"
  /\ \/ /\ target = Absent
        /\ target' = backup[p]
        /\ UNCHANGED faults
     \/ /\ \/ target # Absent /\ UNCHANGED faults
           \/ Fault
        /\ UNCHANGED target
  /\ Returns(p, "error")
  /\ UNCHANGED <<building, published, crashes>>

\* The process dies; what it had on disk stays there for ever, under names
\* that nobody looks at.
Crash(p) ==
  /\ pc[p] # "idle"
  /\ crashes < MaxCrashes
  /\ crashes' = crashes + 1
  /\ Returns(p, "died")
  /\ UNCHANGED <<target, building, published, faults>>

----------------------------------------------------------------------------
Step(p) ==
  \/ \E b \in Builds : Begin(p, b)
  \/ \E f \in Files : WriteFile(p, f)
  \/ Check(p) \/ Preserve(p) \/ Install(p) \/ Clean(p) \/ Restore(p)
  \/ Crash(p)

\* Every build has been published and every process has returned.
Done ==
  /\ published = Builds
  /\ \A p \in Builders : pc[p] = "idle"
  /\ UNCHANGED vars

Next == (\E p \in Builders : Step(p)) \/ Done

Spec == Init /\ [][Next]_vars

----------------------------------------------------------------------------
(* Properties *)

\* Types; what is staged or set aside is a directory of one build.
TypeOK ==
  /\ target \in {Absent, Foreign} \cup Dirs
  /\ pc \in [Builders -> {"idle", "write", "preserve", "install", "installed",
                          "restore"}]
  /\ building \in [Builders -> Builds \cup {NoBuild}]
  /\ staging \in [Builders -> Dirs \cup {Absent}]
  /\ backup \in [Builders -> Dirs \cup {Absent}]
  /\ outcome \in [Builders -> {"none", "ok", "error", "died"}]
  /\ published \subseteq Builds
  /\ faults \in 0..MaxFaults /\ crashes \in 0..MaxCrashes

\* docs/cli.md:96-98: "failed builds cannot mix old and new files".  Whatever
\* fails, dies or interferes, the output holds all files of one build or is
\* not there at all.
OutputComplete == target \in {Absent, Foreign} \cup Complete

\* reject_unsafe_existing_destination: an output that is not a directory is
\* neither replaced nor followed.
ForeignIsKept == [][target = Foreign <=> target' = Foreign]_vars

\* The builds that are set aside, to be put back if need be.
SetAside == {backup[q].build : q \in {r \in Builders : backup[r] # Absent}}

\* A publish that reports an error has left nothing of its build behind, and
\* nobody has set it aside to bring it back.
FailuresLeaveNothing ==
  \A p \in Builders :
    pc[p] = "idle" /\ outcome[p] = "error" =>
      /\ target \in Dirs => target.build # building[p]
      /\ building[p] \notin SetAside

\* The output is one build's, and not that of a publish that failed.
OutputSound == OutputComplete /\ FailuresLeaveNothing

\* There is an output, or somebody is about to put one there.
Kept ==
  \/ target # Absent
  \/ \E p \in Builders : pc[p] \in {"install", "restore"} /\ backup[p] # Absent

\* No step loses the output for good, except the death of a process between
\* its renames (docs/cli.md:98-101) and a restore that fails as well.
OutputSurvives ==
  [][Kept => \/ Kept'
             \/ crashes' # crashes
             \/ faults' # faults /\ \E p \in Builders : pc[p] = "restore"]_vars

\* What is in place is neither lost nor, if it is not a build, replaced.
OutputKept == ForeignIsKept /\ OutputSurvives
=============================================================================
