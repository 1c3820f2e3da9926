---------------------------- MODULE MCDBMigrator ----------------------------
(***************************************************************************)
(* Small instances of DBMigrator for TLC.                                  *)
(***************************************************************************)
EXTENDS DBMigrator, TLC

CONSTANTS a1, a2, a3, a4, e1, e2, c1, c2

\* Assets as the repository grows them: each appends a script.
GrowingContent ==
    a1 :> (1 :> c1) @@ a2 :> (1 :> c1 @@ 2 :> c1)

\* Assets as careless branches make them: one appends to the first, one
\* skips the version the other has, one edits a script that may have run.
CarelessContent ==
    a1 :> (1 :> c1) @@ a2 :> (1 :> c1 @@ 2 :> c1) @@ a3 :> (1 :> c1 @@ 3 :> c1)
      @@ a4 :> (1 :> c2 @@ 2 :> c1)

OneAsset == a1 :> (1 :> c1 @@ 2 :> c1)

Symmetry == Permutations(Envs)
=============================================================================
