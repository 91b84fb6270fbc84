---------------------------- MODULE Aggregation ----------------------------
(***************************************************************************)
(* The arbitration of a team's decisions (agents/aggregation/policies.py). *)
(* Of a decision only its kind is kept.  Confidence, risk score and        *)
(* instance name choose between decisions of one kind and so never change  *)
(* the kind that comes out; constraints follow from the selected decision. *)
(* Float weights are natural numbers here.                                 *)
(***************************************************************************)
EXTENDS Naturals, FiniteSets

Kinds == {"abstain", "approve", "revise", "reject"}

\* What a result without a decision has in place of a kind.
NoKind == "none"

Policies == {"judge", "most_conservative", "majority_vote", "weighted_vote", "reject"}

\* Mutant: the order of Python's strings.
Alphabetical ==
    [k \in Kinds |-> CASE k = "abstain" -> 0 [] k = "approve" -> 1
                       [] k = "revise" -> 3 [] k = "reject" -> 2]

Conservative ==
    [k \in Kinds |-> CASE k = "abstain" -> 0 [] k = "approve" -> 1
                       [] k = "revise" -> 2 [] k = "reject" -> 3]

\* latest[i] is the kind of the latest result of instance i, or NoKind.
Candidates(latest) == {i \in DOMAIN latest : latest[i] # NoKind}

\* quorum is a percentage of the configured instances.
QuorumReached(latest, quorum) ==
    Cardinality(Candidates(latest)) * 100 >= quorum * Cardinality(DOMAIN latest)

MostConservative(kinds) ==
    CHOOSE k \in kinds : \A other \in kinds : Conservative[k] >= Conservative[other]

\* The sum of the weights: a weight of w is w ballots.
Score(latest, weight, kind) ==
    Cardinality(UNION {{i} \X (1..weight[i]) :
                          i \in {j \in DOMAIN latest : latest[j] = kind}})

\* The heaviest kind; ties go to the more conservative one.
Vote(latest, weight) ==
    LET kinds == {latest[i] : i \in Candidates(latest)}
        heaviest == {k \in kinds : \A other \in kinds :
                        Score(latest, weight, k) >= Score(latest, weight, other)}
    IN  MostConservative(heaviest)

\* aggregate_results: the kind of the team's decision.
Aggregate(latest, policy, quorum, weight, judge) ==
    LET kinds == {latest[i] : i \in Candidates(latest)}
        affirmative == kinds \ {"abstain"}
    IN  CASE ~QuorumReached(latest, quorum) -> "reject"
          [] OTHER ->
             CASE policy = "judge" ->
                    IF latest[judge] = NoKind THEN "reject" ELSE latest[judge]
               [] policy = "most_conservative" ->
                    IF kinds = {} THEN "reject" ELSE MostConservative(kinds)
               [] policy = "majority_vote" ->
                    Vote(latest, [i \in DOMAIN latest |-> 1])
               [] policy = "weighted_vote" -> Vote(latest, weight)
               [] policy = "reject" ->
                    IF Cardinality(affirmative) = 1
                    THEN CHOOSE k \in affirmative : TRUE
                    ELSE "reject"
=============================================================================
