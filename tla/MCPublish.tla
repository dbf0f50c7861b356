----------------------------- MODULE MCPublish -----------------------------
(* Instances of Publish for TLC: builds of two files, one whose paths      *)
(* collide, and a previous build with a file that the others do not have.  *)
EXTENDS Publish, TLC

CONSTANTS old, b1, b2, b3, bad, app, page, stale

MCFiles == {app, page, stale}
MCBuilds == {old, b1, b2, b3, bad}
MCFilesOf == [b \in MCBuilds |-> IF b = old THEN {app, stale} ELSE {app, page}]
Interchangeable == Permutations(Builders)
=============================================================================
