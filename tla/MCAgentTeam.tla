---------------------------- MODULE MCAgentTeam ----------------------------
(***************************************************************************)
(* Teams for TLC: a lead with a vote of two, a worker that uses tools and  *)
(* may be retried, and a third whose fallback rejects and whose sessions   *)
(* have two rounds.                                                        *)
(***************************************************************************)
EXTENDS AgentTeam, TLC

CONSTANTS lead, worker, risk

MCInstances == {lead, worker, risk}

Pair(topology, policy, parallel, workers, rounds) ==
    [team |-> <<lead, worker>>, topology |-> topology, policy |-> policy,
     parallel |-> parallel, workers |-> workers, rounds |-> rounds,
     lead |-> lead, judge |-> lead]

Trio(topology, policy, parallel, workers, rounds) ==
    [Pair(topology, policy, parallel, workers, rounds) EXCEPT
        !.team = <<lead, worker, risk>>]

Solo ==
    [Pair("single", "majority_vote", TRUE, 1, 1) EXCEPT
        !.team = <<worker>>, !.lead = worker, !.judge = worker]

\* Each topology and each policy, pools smaller than a batch, and batches whose
\* calls are made one by one.
MCConfigs ==
    {Solo,
     Trio("committee_vote", "most_conservative", TRUE, 2, 1),
     Trio("committee_vote", "majority_vote", FALSE, 2, 1),
     Pair("pipeline", "reject", FALSE, 2, 1),
     Pair("supervisor_worker", "most_conservative", TRUE, 2, 2),
     Pair("debate_then_judge", "judge", TRUE, 2, 3),
     Pair("map_reduce", "weighted_vote", TRUE, 2, 2)}

MCSerial == {Pair("committee_vote", "most_conservative", FALSE, 2, 1)}

MCAnswers ==
    (lead :> {"approve"}) @@ (worker :> {"revise"}) @@ (risk :> {"approve"})
MCFallback == (lead :> "abstain") @@ (worker :> "abstain") @@ (risk :> "reject")
MCTools == (lead :> {}) @@ (worker :> {"estimate", "expensive"}) @@ (risk :> {})
MCRetries == (lead :> 0) @@ (worker :> 1) @@ (risk :> 0)
MCRounds == (lead :> 1) @@ (worker :> 1) @@ (risk :> 2)
MCWeight == (lead :> 2) @@ (worker :> 1) @@ (risk :> 1)
=============================================================================
