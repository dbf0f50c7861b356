--------------------------- MODULE MCSceneResources ---------------------------
EXTENDS SceneResources, TLC

CONSTANTS m1, m2, n1, n2, t1, t2

Symmetry == Permutations({m1, m2}) \cup Permutations({n1, n2}) \cup Permutations({t1, t2})
=============================================================================
