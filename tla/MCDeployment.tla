---------------------------- MODULE MCDeployment ----------------------------
(***************************************************************************)
(* Small instances of Deployment for TLC.                                  *)
(***************************************************************************)
EXTENDS Deployment, TLC

CONSTANTS r1, r2, s1, s2

\* The second revision appends a script.
GrowingScripts == r1 :> {1, 2} @@ r2 :> {1, 2, 3}

\* and changes nothing but the archive and the application's image.
ChangingTwo ==
    [s \in Stacks |-> [r \in Revisions |-> IF s \in {"Sql", "App"} THEN r ELSE r1]]

Symmetry == Permutations(Shells)
=============================================================================
