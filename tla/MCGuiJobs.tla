------------------------------ MODULE MCGuiJobs -----------------------------
(***************************************************************************)
(* Instances of GuiJobs for TLC: jobs are model values.                    *)
(***************************************************************************)
EXTENDS GuiJobs
=============================================================================
