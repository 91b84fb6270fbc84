----------------------------- MODULE MCEvidence -----------------------------
(***************************************************************************)
(* What the project publishes about itself, on small instances; the parts  *)
(* that a behaviour does not pick rest in one of their initial states.     *)
(***************************************************************************)
EXTENDS Evidence, TLC

(***************************************************************************)
(* Two runs of one method, and one of each kind.                           *)
(***************************************************************************)
FormalTasks == {"t1", "t2"}
RunKinds == {[t \in FormalTasks |-> k] : k \in
  {"environment", "baseline", "trained", "transfer", "mechanism", "agents", "search"}}

(***************************************************************************)
(* Two sources of one symbol and one of two others; rows in order, out of  *)
(* order, repeated, late, and bad before and after the cutoff.  The source *)
(* of the last symbol begins in order or bad: it is chosen or it is not.   *)
(***************************************************************************)
Symbols == <<1, 1, 2, 3>>
Good(day) == [day |-> day, good |-> TRUE]
Bad(day) == [day |-> day, good |-> FALSE]
SourceRows ==
  {<<Good(1), Good(2), Good(3)>>, <<Good(1), Good(3), Good(2)>>, <<Good(2), Good(3)>>,
   <<Good(1), Good(2), Good(3), Good(3)>>, <<Good(1), Good(2), Bad(3)>>, <<Bad(1), Good(2)>>}

(***************************************************************************)
(* Packages of an agent run and a search, with each one defect.            *)
(***************************************************************************)
Reviewed == {"agents", "search"}
Sound == [recorded |-> TRUE, status |-> "completed", explained |-> FALSE, result |-> TRUE,
          replay |-> TRUE, study |-> TRUE, tests |-> 1, isolated |-> TRUE, formal |-> TRUE,
          developed |-> FALSE]
Defective ==
  [agents |-> {[Sound EXCEPT !.status = "failed", !.explained = TRUE],
               [Sound EXCEPT !.status = "failed"], [Sound EXCEPT !.recorded = FALSE],
               [Sound EXCEPT !.replay = FALSE], [Sound EXCEPT !.formal = FALSE]},
   search |-> {[Sound EXCEPT !.tests = 2], [Sound EXCEPT !.study = FALSE],
               [Sound EXCEPT !.isolated = FALSE]}]
Package(runs, metrics, payload, identities) ==
  [runs |-> runs, metrics |-> metrics, payload |-> payload, identities |-> identities,
   checksums |-> TRUE]
Perfect == [r \in Reviewed |-> Sound]
ReviewPackages ==
  UNION {{Package([Perfect EXCEPT ![r] = d], Reviewed, "matching", TRUE) :
            d \in Defective[r] \cup {Sound}} : r \in Reviewed}
  \cup {Package(Perfect, {"other"}, "matching", TRUE), Package(Perfect, Reviewed, "different", TRUE),
        Package(Perfect, Reviewed, "absent", TRUE), Package(Perfect, Reviewed, "absent", FALSE)}

(***************************************************************************)
(* A training that is in order, one from before manifests, one whose       *)
(* configuration contradicts it, and a run that is not a training.         *)
(***************************************************************************)
Trained == [version |-> 1, sealed |-> 1, metric |-> 10, kind |-> "training", consistent |-> TRUE]
SourceRuns ==
  {Trained, [Trained EXCEPT !.sealed = 0], [Trained EXCEPT !.consistent = FALSE],
   [Trained EXCEPT !.kind = "agent"]}

Summary(k, id, flag) == [kind |-> k, id |-> id, version |-> 1, flag |-> flag]
Summaries ==
  <<Summary("training", 1, FALSE), Summary("training", 2, FALSE), Summary("tuning", 2, TRUE),
    Summary("phase7", 3, TRUE), Summary("agent", 3, FALSE), Summary("malformed", 4, FALSE),
    Summary("nothing", 0, FALSE)>>
\* one of every pair and its mirror image: the two directories are alike
HeldRuns ==
  {[d1 |-> Summaries[i], d2 |-> Summaries[j]] : <<i, j>> \in {p \in (1..7) \X (1..7) : p[1] <= p[2]}}
RunsAskedFor == {{}, {1}}

(***************************************************************************)
(* Three versions of the code; the second drops a schema.                  *)
(***************************************************************************)
Exported == <<[a |-> 1, c |-> 1], [a |-> 2, c |-> 0], [a |-> 3, c |-> 0]>>

\* the instances satisfy what the theorems about them assume
ASSUME EvidenceInstances == EvidenceAssumption

Rested ==
  /\ part = "runs" \/ kind = [t \in FormalTasks |-> "environment"]
  /\ part = "universe" \/ files = [f \in Files |-> <<Good(1), Good(2), Good(3)>>]
  /\ part = "benchmark" \/ package = Package(Perfect, Reviewed, "matching", TRUE)
  /\ part = "replays" \/ source = Trained
  /\ part = "reports" \/ held = [d \in Directories |-> Summary("nothing", 0, FALSE)]
  /\ part = "release" \/ /\ benchmark = [valid |-> TRUE, named |-> TRUE, version |-> 1]
                         /\ ancestor = "yes"

MCEvidenceInit ==
  /\ part \in Parts /\ Rested /\ EvidenceInit
  /\ part = "universe" => files[4] \in {<<Good(1), Good(2), Good(3)>>, <<Bad(1), Good(2)>>}

MCEvidenceSpec == MCEvidenceInit /\ [][EvidenceNext]_evidenceVars
=============================================================================
