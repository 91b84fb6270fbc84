--------------------------- MODULE MCRunDirectory ---------------------------
(***************************************************************************)
(* Instances of RunDirectory for TLC.  Processes are model values; those   *)
(* that run the same command are interchangeable.                          *)
(***************************************************************************)
EXTENDS RunDirectory, TLC

MCSymmetry ==
    Permutations(Trainers) \cup Permutations(Retrainers)
        \cup Permutations(Validators) \cup Permutations(Testers)
=============================================================================
