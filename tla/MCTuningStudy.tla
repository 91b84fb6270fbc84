--------------------------- MODULE MCTuningStudy ----------------------------
(***************************************************************************)
(* Instances of TuningStudy for TLC: studies of four trials in batches of  *)
(* two, with a swarm of three particles, a grid of three points and a      *)
(* history searcher that looks at its results from the first one on.       *)
(***************************************************************************)
EXTENDS TuningStudy
=============================================================================
