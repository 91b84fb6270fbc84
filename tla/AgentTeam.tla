----------------------------- MODULE AgentTeam -----------------------------
(***************************************************************************)
(* One run of a team of agents: the schedule of a topology                 *)
(* (agents/runtime.py), the threads that answer it through provider        *)
(* sessions (agents/session.py) and the tools they call within the budget  *)
(* of their instance (agents/tools/registry.py), up to the files of the    *)
(* run and their manifest (agents/runtime_workflow.py).                    *)
(*                                                                         *)
(* A thread cannot be stopped.  One that is timed out works on, with the   *)
(* role object a later batch of the same run may call again.               *)
(*                                                                         *)
(* Left out: the content of messages and decisions but their kind; prompts *)
(* and upstream messages; time, except that a timeout is longer than a     *)
(* free worker takes to start a call.                                      *)
(***************************************************************************)
EXTENDS Aggregation, Sequences, SequencesExt

CONSTANTS
    Instances,       \* the instances the specifications expand to
    Configs,         \* the team specifications to run
    Answers,         \* Answers[i]: kinds the provider of i may answer
    Fallback,        \* Fallback[i]: kind of its administrator fallback
    Tools,           \* Tools[i]: its allowed tools
    Weight,          \* Weight[i]: its weight in a vote
    Quorum,          \* percentage of the instances that must decide
    MaxRetries,      \* MaxRetries[i]: attempts after the first
    MaxToolRounds,   \* MaxToolRounds[i]: provider responses in one session
    MaxToolCalls,    \* tool calls of an instance in the run
    MaxExpensive     \* expensive ones among them

Topologies == {"single", "pipeline", "supervisor_worker", "committee_vote",
               "debate_then_judge", "map_reduce"}

\* estimate_compute_budget, an expensive tool and any other one.
ToolNames == {"estimate", "expensive", "other"}

\* A team specification; team lists its instances in configuration order, lead
\* is its supervisor, reducer or debate judge, judge the one of the policy.
Config == [team: Seq(Instances), topology: Topologies, policy: Policies, parallel: BOOLEAN,
           workers: Nat \ {0}, rounds: Nat \ {0},
           lead: Instances, judge: Instances]

\* TeamSpec.validate_topology and the fields of AgentSpec.
ASSUME TeamAssumption ==
    /\ IsFiniteSet(Instances)
    /\ \A c \in Configs :
        /\ c \in Config
        /\ c.team # <<>> /\ Cardinality(ToSet(c.team)) = Len(c.team)
        /\ {c.lead, c.judge} \subseteq ToSet(c.team)
        /\ c.topology = "single" => Len(c.team) = 1
        /\ c.topology \in {"supervisor_worker", "debate_then_judge", "map_reduce"}
              => Len(c.team) > 1
        /\ c.topology \in {"debate_then_judge", "map_reduce"} => c.rounds > 1
        /\ c.topology = "debate_then_judge" => c.lead = c.judge
    /\ Answers \in [Instances -> SUBSET Kinds]
    /\ Fallback \in [Instances -> Kinds]
    /\ Tools \in [Instances -> SUBSET ToolNames]
    /\ Weight \in [Instances -> Nat \ {0}]
    /\ Quorum \in 1..100
    /\ MaxRetries \in [Instances -> Nat]
    /\ MaxToolRounds \in [Instances -> Nat \ {0}]
    /\ MaxToolCalls \in Nat /\ MaxExpensive \in Nat

VARIABLES
    config,      \* the team specification of this run
    main,        \* where the thread that runs the team stands
    stage,       \* the batch it is at
    calls,       \* the invocations in the order of their submission
    results,     \* their results, in the same order, as far as collected
    used,        \* ToolExecutor.total_calls of each instance
    expensive,   \* ToolExecutor.expensive_calls
    estimated,   \* ToolExecutor.budget_estimated
    hashed,      \* instances whose files are as the manifest says
    decision     \* kind of the team's decision

vars == <<config, main, stage, calls, results, used, expensive, estimated,
          hashed, decision>>

budgets == <<used, expensive, estimated>>

-----------------------------------------------------------------------------
(***************************************************************************)
(* The schedule: the batches of each topology.                             *)
(***************************************************************************)
Batch(members, parallel) == [members |-> members, parallel |-> parallel]

LeadAlone == Batch(<<config.lead>>, FALSE)
Others == RemoveFirst(config.team, config.lead)

Schedule ==
    CASE config.topology \in {"single", "committee_vote"} ->
            <<Batch(config.team, config.parallel)>>
      [] config.topology = "pipeline" ->
            [n \in DOMAIN config.team |-> Batch(<<config.team[n]>>, FALSE)]
      [] config.topology = "supervisor_worker" ->
            <<Batch(config.team, config.parallel)>>
                \o (IF config.rounds >= 2 THEN <<LeadAlone>> ELSE <<>>)
      [] config.topology = "debate_then_judge" ->
            [r \in 1..(config.rounds - 1) |-> Batch(Others, config.parallel)]
                \o <<LeadAlone>>
      [] config.topology = "map_reduce" ->
            <<Batch(Others, config.parallel), LeadAlone>>

Members == Schedule[stage].members

\* The calls of the current batch, and how many of its members have been
\* submitted and answered for.
InBatch(n) == calls[n].stage = stage
Submitted == Cardinality({n \in DOMAIN calls : InBatch(n)})
Collected == Cardinality({n \in DOMAIN results : InBatch(n)})

Running == {"provider", "tools", "charge", "handler"}

\* Each batch has an executor of its own.
Workers ==
    IF Schedule[stage].parallel
    THEN Min({config.workers, Len(Members)})
    ELSE 1

FreeWorker ==
    Cardinality({n \in DOMAIN calls : InBatch(n) /\ calls[n].at \in Running})
        < Workers

-----------------------------------------------------------------------------
(***************************************************************************)
(* Calls.  at: queued, then in the provider, between the tool calls of a   *)
(* response, past the checks of a tool, in its handler; at the end done or *)
(* cancelled.                                                              *)
(***************************************************************************)
Statuses == {"succeeded", "fallback", "failed", "timed_out"}

Result == [instance: Instances, status: Statuses, kind: Kinds \cup {NoKind}]

Call == [instance: Instances, stage: Nat \ {0},
         at: Running \cup {"queued", "done", "cancelled"},
         attempt: Nat, round: Nat,
         tool: ToolNames \cup {"none"},
         status: Statuses \cup {"none"}, kind: Kinds \cup {NoKind}]

Queued(i) == [instance |-> i, stage |-> stage, at |-> "queued", attempt |-> 0,
              round |-> 0, tool |-> "none", status |-> "none", kind |-> NoKind]

Init ==
    /\ config \in Configs
    /\ main = "batch" /\ stage = 1
    /\ calls = <<>> /\ results = <<>>
    /\ used = [i \in Instances |-> 0]
    /\ expensive = [i \in Instances |-> 0]
    /\ estimated = [i \in Instances |-> FALSE]
    /\ hashed = {} /\ decision = NoKind

-----------------------------------------------------------------------------
(***************************************************************************)
(* The thread that runs the team: AgentRuntime._batch.                     *)
(***************************************************************************)

\* A parallel batch is submitted as a whole before the first result is waited
\* for, any other one call by call.
Submit ==
    /\ main = "batch" /\ Submitted < Len(Members)
    /\ Schedule[stage].parallel \/ Submitted = Collected
    /\ calls' = Append(calls, Queued(Members[Submitted + 1]))
    /\ UNCHANGED <<config, main, stage, results, hashed, decision>>
    /\ UNCHANGED budgets

\* Mutant: as_completed, in the order in which the threads end.
FirstCompleted ==
    {n \in DOMAIN calls : InBatch(n) /\ calls[n].at = "done"}

\* The result waited for.
Awaited ==
    IF Schedule[stage].parallel /\ Submitted < Len(Members)
    THEN {}
    ELSE {n \in DOMAIN calls : n = Len(results) + 1}

Collect(n, status, kind) ==
    results' = Append(results, [instance |-> calls[n].instance,
                                status |-> status, kind |-> kind])

Receive(n) ==
    /\ main = "batch" /\ n \in Awaited
    /\ calls[n].at = "done"
    /\ Collect(n, calls[n].status, calls[n].kind)
    /\ UNCHANGED <<config, main, stage, calls, hashed, decision>>
    /\ UNCHANGED budgets

\* Mutant: the timeout is not handed to future.result.
NeverTimesOut(n) == FALSE

\* A call that is still queued can be cancelled, one that runs cannot.
MayTimeOut(n) ==
    calls[n].at \in Running \/ (calls[n].at = "queued" /\ ~FreeWorker)

TimeOut(n) ==
    /\ main = "batch" /\ n \in Awaited
    /\ MayTimeOut(n)
    /\ Collect(n, "timed_out", NoKind)
    /\ calls' = [calls EXCEPT ![n].at = IF @ = "queued" THEN "cancelled" ELSE @]
    /\ UNCHANGED <<config, main, stage, hashed, decision>>
    /\ UNCHANGED budgets

\* Mutant: the batch is over when its quorum has been reached.
WithoutStragglers ==
    /\ main = "batch" /\ Collected * 100 >= Quorum * Len(Members)
    /\ IF stage < Len(Schedule)
       THEN stage' = stage + 1 /\ main' = main
       ELSE stage' = stage /\ main' = "aggregate"
    /\ UNCHANGED <<config, calls, results, hashed, decision>>
    /\ UNCHANGED budgets

\* Mutant: the last batch is passed like the others.
PastTheEnd ==
    /\ main = "batch" /\ Collected = Len(Members)
    /\ stage' = stage + 1
    /\ main' = IF stage < Len(Schedule) THEN main ELSE "aggregate"
    /\ UNCHANGED <<config, calls, results, hashed, decision>>
    /\ UNCHANGED budgets

NextBatch ==
    /\ main = "batch" /\ Collected = Len(Members)
    /\ IF stage < Len(Schedule)
       THEN stage' = stage + 1 /\ main' = main
       ELSE stage' = stage /\ main' = "aggregate"
    /\ UNCHANGED <<config, calls, results, hashed, decision>>
    /\ UNCHANGED budgets

\* Mutant: the latest decision instead of the latest result.
LatestDecision(i) ==
    LET own == {n \in DOMAIN results :
                    results[n].instance = i /\ results[n].kind # NoKind}
    IN  IF own = {} THEN NoKind ELSE results[Max(own)].kind

\* The kind of the latest result of an instance.
Latest(i) ==
    LET own == {n \in DOMAIN results : results[n].instance = i}
    IN  IF own = {} THEN NoKind ELSE results[Max(own)].kind

\* AgentRuntime.run after the topology: aggregate_results, record_summary.
Resolve ==
    /\ main = "aggregate"
    /\ decision' = Aggregate([i \in ToSet(config.team) |-> Latest(i)], config.policy,
                             Quorum, Weight, config.judge)
    /\ main' = "close"
    /\ UNCHANGED <<config, stage, calls, results, hashed>>
    /\ UNCHANGED budgets

\* AgentRuntime.close in the finally of execute_agent_runtime; a role that
\* fails to close takes the result with it.
Close ==
    /\ main = "close"
    /\ main' \in {"manifest", "raised"}
    /\ UNCHANGED <<config, stage, calls, results, hashed, decision>>
    /\ UNCHANGED budgets

WriteManifest ==
    /\ main = "manifest"
    /\ main' = "done"
    /\ hashed' = Instances
    /\ UNCHANGED <<config, stage, calls, results, decision>>
    /\ UNCHANGED budgets

-----------------------------------------------------------------------------
(***************************************************************************)
(* A thread of the pool: AgentRuntime._invoke, ProviderToolSession.run and *)
(* ToolExecutor.execute.  What it does it writes into the files of its     *)
(* instance.                                                               *)
(***************************************************************************)
Writes(n) == hashed' = hashed \ {calls[n].instance}

Thread(n, new) ==
    /\ calls' = [calls EXCEPT ![n] = new]
    /\ UNCHANGED <<config, main, stage, results, decision>>

Ended(n, status, kind) ==
    [calls[n] EXCEPT !.at = "done", !.status = status, !.kind = kind]

\* A worker takes the oldest call of its queue.
Start(n) ==
    /\ InBatch(n) /\ calls[n].at = "queued" /\ FreeWorker
    /\ \A m \in 1..(n - 1) : calls[m].at # "queued"
    /\ Thread(n, [calls[n] EXCEPT !.at = "provider", !.attempt = 1, !.round = 1])
    /\ Writes(n)
    /\ UNCHANGED budgets

\* A structured answer that passes its schema.
Answer(n) ==
    /\ calls[n].at = "provider"
    /\ \E kind \in Answers[calls[n].instance] :
            Thread(n, Ended(n, "succeeded", kind))
    /\ Writes(n)
    /\ UNCHANGED budgets

\* A ProviderError, no structured answer or one that fails its schema.
FallBack(n) ==
    /\ calls[n].at = "provider"
    /\ Thread(n, Ended(n, "fallback", Fallback[calls[n].instance]))
    /\ Writes(n)
    /\ UNCHANGED budgets

\* Any other exception: another attempt, with a new session and the same role
\* object, or a failure.
Raise(n) ==
    /\ calls[n].at \in {"provider", "tools"}
    /\ Thread(n, IF calls[n].attempt <= MaxRetries[calls[n].instance]
                 THEN [calls[n] EXCEPT !.at = "provider", !.round = 1,
                                       !.attempt = @ + 1]
                 ELSE Ended(n, "failed", NoKind))
    /\ UNCHANGED hashed
    /\ UNCHANGED budgets

\* A response that calls tools.
CallTools(n) ==
    /\ calls[n].at = "provider"
    /\ Thread(n, [calls[n] EXCEPT !.at = "tools"])
    /\ Writes(n)
    /\ UNCHANGED budgets

\* Mutant: the total is off by one.
OneCallMore(i, tool) ==
    /\ tool \in Tools[i]
    /\ used[i] <= MaxToolCalls
    /\ tool = "expensive" => expensive[i] < MaxExpensive /\ estimated[i]

\* Mutant: no estimate is required.
EstimateOptional(i, tool) ==
    /\ tool \in Tools[i]
    /\ used[i] < MaxToolCalls
    /\ tool = "expensive" => expensive[i] < MaxExpensive

\* The checks of ToolExecutor.execute.  A denied call changes nothing.
MayCall(i, tool) ==
    /\ tool \in Tools[i]
    /\ used[i] < MaxToolCalls
    /\ tool = "expensive" => expensive[i] < MaxExpensive /\ estimated[i]

PassChecks(n) ==
    /\ calls[n].at = "tools"
    /\ \E tool \in ToolNames :
        /\ MayCall(calls[n].instance, tool)
        /\ Thread(n, [calls[n] EXCEPT !.at = "charge", !.tool = tool])
    /\ UNCHANGED hashed
    /\ UNCHANGED budgets

\* Paths and input were validated since the checks.
Charge(n) ==
    LET i == calls[n].instance
        isExpensive == calls[n].tool = "expensive"
    IN  /\ calls[n].at = "charge"
        /\ used' = [used EXCEPT ![i] = @ + 1]
        /\ expensive' = [expensive EXCEPT ![i] = IF isExpensive THEN @ + 1 ELSE @]
        /\ Thread(n, [calls[n] EXCEPT !.at = "handler"])
        /\ UNCHANGED <<estimated, hashed>>

\* The handler answers, raises, or is no longer waited for.
HandlerEnds(n) ==
    /\ calls[n].at = "handler"
    /\ \E success \in BOOLEAN :
        estimated' = [estimated EXCEPT ![calls[n].instance] =
                         @ \/ (success /\ calls[n].tool = "estimate")]
    /\ Thread(n, [calls[n] EXCEPT !.at = "tools", !.tool = "none"])
    /\ Writes(n)
    /\ UNCHANGED <<used, expensive>>

\* All calls of the response are answered: another response is asked for.
NextRound(n) ==
    /\ calls[n].at = "tools"
    /\ Thread(n, IF calls[n].round < MaxToolRounds[calls[n].instance]
                 THEN [calls[n] EXCEPT !.at = "provider", !.round = @ + 1]
                 ELSE Ended(n, "fallback", Fallback[calls[n].instance]))
    /\ Writes(n)
    /\ UNCHANGED budgets

-----------------------------------------------------------------------------
TeamStep ==
    \/ Submit
    \/ \E n \in DOMAIN calls : Receive(n) \/ TimeOut(n)
    \/ NextBatch
    \/ Resolve
    \/ Close
    \/ WriteManifest

CallStep(n) ==
    \/ Answer(n) \/ FallBack(n) \/ Raise(n)
    \/ CallTools(n) \/ PassChecks(n) \/ Charge(n) \/ HandlerEnds(n)
    \/ NextRound(n)

PoolStep == \E n \in DOMAIN calls : Start(n)

Next == TeamStep \/ PoolStep \/ \E n \in DOMAIN calls : CallStep(n)

Spec == Init /\ [][Next]_vars

\* The thread that runs the team runs and the pools start what they can.  No
\* provider, tool or role ever has to answer.
FairSpec == Spec /\ WF_vars(TeamStep) /\ WF_vars(PoolStep)

-----------------------------------------------------------------------------
(***************************************************************************)
(* Properties.                                                             *)
(***************************************************************************)
TypeOK ==
    /\ config \in Configs
    /\ main \in {"batch", "aggregate", "close", "manifest", "done", "raised"}
    /\ stage \in DOMAIN Schedule
    /\ calls \in Seq(Call) /\ results \in Seq(Result)
    /\ used \in [Instances -> Nat] /\ expensive \in [Instances -> Nat]
    /\ estimated \in [Instances -> BOOLEAN]
    /\ hashed \subseteq Instances
    /\ decision \in Kinds \cup {NoKind}

\* The results are those of the submitted calls in the order of the
\* configuration, each what its own call answered or a timeout, whatever its
\* thread did later; a batch is over when each of its calls has one.
OneResultPerCall ==
    /\ Len(results) <= Len(calls)
    /\ \A n \in DOMAIN results :
        /\ results[n].instance = calls[n].instance
        /\ results[n].status # "timed_out" =>
            /\ calls[n].at = "done"
            /\ results[n].status = calls[n].status
            /\ results[n].kind = calls[n].kind
    /\ \A n \in DOMAIN calls :
        calls[n].stage < stage \/ main # "batch" => n \in DOMAIN results

\* The results of an instance after which it has no other.
LastResults ==
    {n \in DOMAIN results :
        \A m \in DOMAIN results :
            results[m].instance = results[n].instance => m <= n}

Deciding == {n \in LastResults : results[n].status \in {"succeeded", "fallback"}}

\* Anything but a rejection is the decision of an instance that still stood by
\* it, in a team whose quorum decided: an instance that decided in an earlier
\* round and then failed or ran late counts as missing.
DecisionBacked ==
    decision \notin {NoKind, "reject"} =>
        /\ Cardinality(Deciding) * 100 >= Quorum * Len(config.team)
        /\ \E n \in Deciding : results[n].kind = decision

\* The kinds at least as conservative as a kind.
AtLeast(kind) ==
    CASE kind = "abstain" -> Kinds
      [] kind = "approve" -> Kinds \ {"abstain"}
      [] kind = "revise" -> {"revise", "reject"}
      [] kind = "reject" -> {"reject"}

\* Under most-conservative arbitration the team decides no less conservatively
\* than any instance whose last result has a decision, a fallback taken after a
\* provider or tool failure included.
FallbackNotLoosened ==
    config.policy = "most_conservative" /\ decision # NoKind =>
        \A n \in Deciding : decision \in AtLeast(results[n].kind)

\* Calls that were given up while their thread was at work.
Late(i) ==
    {n \in DOMAIN results :
        /\ results[n].instance = i /\ results[n].status = "timed_out"
        /\ calls[n].at # "cancelled"}

\* An instance keeps its tool budgets over retries and rounds; each late thread
\* can add one call, because the checks and the count are apart.
BudgetHeld ==
    \A i \in Instances :
        /\ used[i] <= MaxToolCalls + Cardinality(Late(i))
        /\ expensive[i] <= MaxExpensive + Cardinality(Late(i))

\* An expensive tool runs only after an estimate succeeded for its instance.
ExpensiveAfterEstimate ==
    \A i \in Instances :
        expensive[i] > 0 => estimated[i] /\ used[i] > expensive[i]

\* The limits of the tool permissions over all threads of an instance.
ToolLimitsHeld == BudgetHeld /\ ExpensiveAfterEstimate

\* Only a thread that was given up can change files under a written manifest.
ManifestHoldsWithoutLate ==
    main = "done" => \A i \in Instances \ hashed : Late(i) # {}

\* A run ends although any number of threads never answer.
RunEnds == <>(main \in {"done", "raised"})

\* Violated by the code: only an agent that was at work exceeds its timeout; a
\* timeout is isolated from the other members of the batch.
TimeoutIsolated ==
    \A n \in DOMAIN results :
        results[n].status = "timed_out" => calls[n].at # "cancelled"
=============================================================================
