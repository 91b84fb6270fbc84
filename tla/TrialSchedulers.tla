--------------------------- MODULE TrialSchedulers ---------------------------
(***************************************************************************)
(* The decisions of the resource schedulers (tuning/schedulers/            *)
(* algorithms.py): median stopping, ASHA, HyperBand and population based   *)
(* training, fed by results that arrive in any order.                      *)
(*                                                                         *)
(* ASHA is HyperBand with one bracket.  A dictionary keeps the order of    *)
(* its insertions, which decides ties, so it is a sequence here; a         *)
(* checkpoint is JSON with sorted keys and gives it back sorted.           *)
(***************************************************************************)
EXTENDS Integers, Sequences, FiniteSets

CONSTANTS Schedulers,  \* pairs of "median", "asha", "hyperband" or "pbt" and a direction
          Trials,      \* trial ids, natural numbers
          Levels,      \* resources a trial reports at, grace * Factor^i
          Factor,      \* reduction_factor
          Metrics,     \* finite metrics
          NaN,         \* below every metric
          MinTrials,   \* min_trials of the median rule
          Interval,    \* perturbation_interval of PBT, quantile 1/4
          MaxReports   \* of a behaviour, by kind of scheduler

VARIABLES scheduler,
          state,    \* [rungs, reached, history, latest, exploited]
          log,      \* every report so far
          verdict   \* the last decision

schedulerVars == <<scheduler, state, log, verdict>>

\* the bounds of config.py:55; an infinite utility is below every finite one
SchedulerAssumption ==
  /\ Schedulers \subseteq {"median", "asha", "hyperband", "pbt"} \X {"maximize", "minimize"}
  /\ Trials \subseteq Nat
  /\ Levels \subseteq Nat \ {0} /\ Levels # {} /\ IsFiniteSet(Levels)
  /\ Factor \in Nat /\ Factor >= 2 /\ {MinTrials, Interval} \subseteq Nat \ {0}
  /\ Metrics \subseteq Int /\ NaN \in Int
  /\ \A m \in Metrics : NaN < m /\ NaN < -m

kind == scheduler[1]
direction == scheduler[2]

TopLevel == CHOOSE k \in Levels : \A j \in Levels : j <= k
PopulationMin == 4

\* a bracket starts at one of the levels; ASHA has the first one only
Brackets == IF kind = "hyperband" THEN 0..(Cardinality(Levels) - 1) ELSE {0}
BracketOf(t) == t % Cardinality(Brackets)
LevelsOf(b) == {k \in Levels : Cardinality({j \in Levels : j < k}) >= b}

\* Mutant: the direction of the study is ignored.
MaximizeOnly(metric) == metric
Utility(metric) == IF metric = NaN \/ direction = "maximize" THEN metric ELSE -metric

\* position of the i-th key when keys are sorted stably, and the key at a position
Place(keys, i) ==
  Cardinality({j \in DOMAIN keys : keys[j] < keys[i] \/ (j < i /\ keys[j] = keys[i])}) + 1
SortedAt(keys, n) == CHOOSE i \in DOMAIN keys : Place(keys, i) = n

\* how many entries come before that of trial t, the best first
RankOf(entries, t) ==
  LET at == CHOOSE i \in DOMAIN entries : entries[i].trial = t
  IN  Place([i \in DOMAIN entries |-> -Utility(entries[i].metric)], at) - 1

\* an assignment to a dictionary keeps the place of a key that is there
Put(entries, entry) ==
  IF \E i \in DOMAIN entries : entries[i].trial = entry.trial
  THEN [i \in DOMAIN entries |-> IF entries[i].trial = entry.trial THEN entry ELSE entries[i]]
  ELSE Append(entries, entry)

Fraction(n, parts) == (n + parts - 1) \div parts
Continue == [action |-> "continue", at |-> 0, source |-> -1]
StopAt(level) == [action |-> "stop", at |-> level, source |-> -1]
Exploit(trial) == [action |-> "exploit", at |-> 0, source |-> trial]

(***************************************************************************)
(* A decision is a pair of the verdict and the state after it.             *)
(***************************************************************************)
\* twice the median of the utilities of a non-empty sequence
TwiceMedian(metrics) ==
  LET keys == [i \in DOMAIN metrics |-> Utility(metrics[i])]
      n == Len(metrics)
      low == keys[SortedAt(keys, (n + 1) \div 2)]
      high == keys[SortedAt(keys, n \div 2 + 1)]
  IN  IF low = NaN THEN 2 * NaN ELSE low + high

MedianDecision(s, r) ==
  LET prior == s.history[r.resource]
      stop == Len(prior) >= MinTrials /\ 2 * Utility(r.metric) < TwiceMedian(prior)
  IN  <<IF stop THEN StopAt(0) ELSE Continue,
        [s EXCEPT !.history[r.resource] = Append(prior, r.metric)]>>

\* rungs are entered from the lowest eligible one up to the first that stops
AshaDecision(s, r) ==
  LET b == BracketOf(r.trial)
      eligible == {k \in LevelsOf(b) : k <= r.resource /\ k \notin s.reached[r.trial]}
      entered(k) == Put(s.rungs[b][k], [trial |-> r.trial, metric |-> r.metric])
      stops(k) == /\ Len(entered(k)) >= Factor
                  /\ RankOf(entered(k), r.trial) >= Fraction(Len(entered(k)), Factor)
      visited == {k \in eligible : \A j \in eligible : j < k => ~stops(j)}
      stopping == {k \in visited : stops(k)}
  IN  <<IF stopping # {} THEN StopAt(CHOOSE k \in stopping : TRUE)
        ELSE IF r.resource >= TopLevel THEN StopAt(0) ELSE Continue,
        [s EXCEPT !.reached[r.trial] = @ \cup visited,
                  !.rungs[b] = [k \in Levels |-> IF k \in visited THEN entered(k)
                                                 ELSE s.rungs[b][k]]]>>

PbtDecision(s, r) ==
  LET latest == Put(s.latest, [trial |-> r.trial, metric |-> r.metric])
      seen == [s EXCEPT !.latest = latest]
      due == r.resource - s.exploited[r.trial] >= Interval /\ Len(latest) >= PopulationMin
      bottom == RankOf(latest, r.trial) >= Len(latest) - Fraction(Len(latest), 4)
      best == CHOOSE t \in {latest[i].trial : i \in DOMAIN latest} : RankOf(latest, t) = 0
  IN  IF due /\ bottom
      THEN <<Exploit(best), [seen EXCEPT !.exploited[r.trial] = r.resource]>>
      ELSE <<Continue, seen>>

Decision(s, r) ==
  CASE kind = "median" -> MedianDecision(s, r)
    [] kind \in {"asha", "hyperband"} -> AshaDecision(s, r)
    [] kind = "pbt" -> PbtDecision(s, r)

(***************************************************************************)
(* A checkpoint: state_dict, JSON with sorted keys, load_state_dict.       *)
(***************************************************************************)
ByTrial(entries) ==
  LET trials == [i \in DOMAIN entries |-> entries[i].trial]
  IN  [n \in DOMAIN entries |-> entries[SortedAt(trials, n)]]

Restored(s) ==
  [s EXCEPT !.rungs = [b \in DOMAIN @ |-> [k \in Levels |-> ByTrial(@[b][k])]],
            !.latest = ByTrial(@)]

(***************************************************************************)
(* A trial reports at increasing resources, and whenever it likes.         *)
(***************************************************************************)
Reports == [trial : Trials, resource : Levels, metric : Metrics \cup {NaN}]

MayReport(r) ==
  /\ Len(log) < MaxReports[kind]
  /\ \A i \in DOMAIN log : log[i].trial = r.trial => log[i].resource < r.resource

Init ==
  /\ scheduler \in Schedulers
  /\ state = [rungs |-> [b \in 0..(Cardinality(Levels) - 1) |-> [k \in Levels |-> <<>>]],
              reached |-> [t \in Trials |-> {}], history |-> [k \in Levels |-> <<>>],
              latest |-> <<>>, exploited |-> [t \in Trials |-> 0]]
  /\ log = <<>>
  /\ verdict = Continue

OnResult(r) ==
  /\ MayReport(r)
  /\ verdict' = Decision(state, r)[1]
  /\ state' = Decision(state, r)[2]
  /\ log' = Append(log, r)
  /\ UNCHANGED scheduler

Restore ==
  /\ state' = Restored(state) /\ state' # state
  /\ UNCHANGED <<scheduler, log, verdict>>

Next == Restore \/ \E r \in Reports : OnResult(r)

Spec == Init /\ [][Next]_schedulerVars

(***************************************************************************)
(* Properties.                                                             *)
(***************************************************************************)
TypeOK ==
  /\ scheduler \in Schedulers /\ log \in Seq(Reports)
  /\ verdict.action \in {"continue", "stop", "exploit"}
  /\ \A t \in Trials : state.reached[t] \subseteq LevelsOf(BracketOf(t))

\* Against the log of reports alone, whatever order they came in and however
\* often the scheduler was restored between them: a trial stopped at a rung has
\* a rival of its bracket that was no worse at that resource or later; a trial
\* that exploits another copies one that is no worse; a trial stopped by the
\* median has a better one at its resource.
LastReport == log[Len(log)]

NoWorse(r, s) ==
  \/ s.metric = NaN
  \/ r.metric # NaN /\ (IF direction = "maximize" THEN r.metric >= s.metric ELSE r.metric <= s.metric)

StopsJustified ==
  log # <<>> =>
    LET mine == LastReport
        rivals == {i \in DOMAIN log : log[i].trial # mine.trial}
    IN  /\ verdict.action = "stop" /\ verdict.at > 0 =>
             \E i \in rivals : /\ BracketOf(log[i].trial) = BracketOf(mine.trial)
                               /\ log[i].resource >= verdict.at /\ NoWorse(log[i], mine)
        /\ verdict.action = "exploit" =>
             \E i \in rivals : log[i].trial = verdict.source /\ NoWorse(log[i], mine)
        /\ verdict.action = "stop" /\ kind = "median" =>
             \E i \in rivals : log[i].resource = mine.resource /\ ~NoWorse(mine, log[i])

\* A scheduler restored from its checkpoint decides every possible next report
\* as the one that went on would: checkpoints lose only the order of equals.
Tied(r) == \E i \in DOMAIN log : log[i].metric = r.metric /\ log[i].trial # r.trial

NoTies ==
  \A i, j \in DOMAIN log : log[i].metric = log[j].metric => log[i].trial = log[j].trial

ResumeTransparent ==
  NoTies => \A r \in Reports :
    MayReport(r) /\ ~Tied(r) => Decision(Restored(state), r)[1] = Decision(state, r)[1]

DecisionsSound == StopsJustified /\ ResumeTransparent
=============================================================================
