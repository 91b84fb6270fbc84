---------------------------- MODULE AgentTeamProofs ----------------------------
(***************************************************************************)
(* Theorems about AgentTeam, for any team, topology, policy, budgets and   *)
(* number of threads that answer late or never.                            *)
(*                                                                         *)
(* The argument: a batch is submitted in the order of its members, which   *)
(* are different instances, and its results are collected in that order    *)
(* (BatchesInv); a call with a result is over, or was given up while its   *)
(* thread was at work (CallsInv).  An instance therefore has one thread at *)
(* a time that was not given up, and as many others as it has late calls:  *)
(* that bounds what its budgets can be exceeded by (BudgetsInv).           *)
(***************************************************************************)
EXTENDS AgentTeam, FiniteSetTheorems, WellFoundedInduction, SequenceTheorems, TLAPS

-----------------------------------------------------------------------------
(***************************************************************************)
(* What the arbitration of a team's decisions promises under every policy, *)
(* for any number of instances and any weights.                            *)
(***************************************************************************)

\* A bounded set of numbers has a largest one.
LEMMA LargestUpTo ==
  ASSUME NEW n \in Nat, NEW S \in SUBSET (0..n), S # {}
  PROVE  \E t \in S : \A u \in S : u <= t
<1> DEFINE Left == {n - u : u \in S}
<1>1. Left \in SUBSET Nat /\ Left # {}
  <2>1. \A u \in S : n - u \in Nat
    OBVIOUS
  <2>2. PICK u \in S : TRUE
    OBVIOUS
  <2>3. n - u \in Left
    BY <2>2
  <2> QED BY <2>1, <2>3
<1> HIDE DEF Left
<1>2. PICK l \in Left : \A k \in Left : <<k, l>> \notin OpToRel(<, Nat)
  BY <1>1, NatLessThanWellFounded, WFMin
<1>3. PICK t \in S : l = n - t
  BY <1>2 DEF Left
<1>4. ASSUME NEW u \in S PROVE u <= t
  <2>1. n - u \in Left /\ n - u \in Nat /\ l \in Nat
    BY <1>1 DEF Left
  <2>2. ~(n - u < l)
    BY <1>2, <2>1 DEF OpToRel
  <2>3. u \in 0..n /\ t \in 0..n
    BY <1>3
  <2> QED BY <1>3, <2>2, <2>3
<1> QED BY <1>4

\* The kinds of the decisions there are.
KindsOf(latest) == {latest[i] : i \in Candidates(latest)}

\* Any set of kinds has a most conservative one.
LEMMA MostConservativeIs ==
  ASSUME NEW S \in SUBSET Kinds, S # {}
  PROVE  /\ MostConservative(S) \in S
         /\ \A k \in S : Conservative[MostConservative(S)] >= Conservative[k]
<1>1. /\ Conservative["abstain"] = 0 /\ Conservative["approve"] = 1
      /\ Conservative["revise"] = 2 /\ Conservative["reject"] = 3
  BY DEF Conservative, Kinds
<1>2. \A k \in Kinds : k \in {"abstain", "approve", "revise", "reject"}
  BY DEF Kinds
<1>3. \E k \in S : \A other \in S : Conservative[k] >= Conservative[other]
  <2>1. CASE "reject" \in S
    BY <1>1, <1>2, <2>1
  <2>2. CASE "reject" \notin S /\ "revise" \in S
    BY <1>1, <1>2, <2>2
  <2>3. CASE "reject" \notin S /\ "revise" \notin S /\ "approve" \in S
    BY <1>1, <1>2, <2>3
  <2>4. CASE "reject" \notin S /\ "revise" \notin S /\ "approve" \notin S
    BY <1>1, <1>2, <2>4
  <2> QED BY <2>1, <2>2, <2>3, <2>4
<1> QED BY <1>3 DEF MostConservative

\* The score of a kind is a number.
LEMMA ScoreIs ==
  ASSUME NEW D, IsFiniteSet(D), NEW latest, DOMAIN latest = D,
         NEW weight, \A i \in D : weight[i] \in Nat, NEW k
  PROVE  Score(latest, weight, k) \in Nat
<1> DEFINE V == {j \in D : latest[j] = k}
           ballots == [i \in V |-> {i} \X (1..weight[i])]
           B == {{i} \X (1..weight[i]) : i \in V}
<1>1. IsFiniteSet(V)
  BY FS_Subset
<1>2. ballots \in Surjection(V, B)
  BY DEF Surjection
<1>3. IsFiniteSet(B)
  BY <1>1, <1>2, FS_Surjection
<1>4. ASSUME NEW b \in B PROVE IsFiniteSet(b)
  <2>1. PICK i \in V : b = {i} \X (1..weight[i])
    OBVIOUS
  <2>2. IsFiniteSet(1..weight[i]) /\ IsFiniteSet({i})
    <3>1. 1 \in Int /\ weight[i] \in Int
      OBVIOUS
    <3> QED BY <3>1, FS_Interval, FS_Singleton
  <2> QED BY <2>1, <2>2, FS_Product
<1>5. IsFiniteSet(UNION B)
  BY <1>3, <1>4, FS_UNION
<1>6. Score(latest, weight, k) = Cardinality(UNION B)
  BY DEF Score
<1> QED BY <1>5, <1>6, FS_CardinalityType

\* A vote has a winner, and it is one of the kinds that were voted for.
LEMMA VoteIs ==
  ASSUME NEW D, IsFiniteSet(D), NEW latest \in [D -> Kinds \cup {NoKind}],
         NEW weight, \A i \in D : weight[i] \in Nat, KindsOf(latest) # {}
  PROVE  Vote(latest, weight) \in KindsOf(latest)
<1> DEFINE K == KindsOf(latest)
           score == [k \in K |-> Score(latest, weight, k)]
           scores == {score[k] : k \in K}
           heaviest == {k \in K : \A other \in K :
                           Score(latest, weight, k) >= Score(latest, weight, other)}
<1>1. K \in SUBSET Kinds
  BY DEF KindsOf, Candidates
<1>2. \A k \in K : score[k] \in Nat /\ score[k] = Score(latest, weight, k)
  BY ScoreIs
<1> HIDE DEF K
<1> HIDE DEF score
<1> DEFINE of(k) == IF k \in K THEN score[k] ELSE 0
           most == of("abstain") + of("approve") + of("revise") + of("reject")
<1>3. most \in Nat /\ scores \in SUBSET (0..most) /\ scores # {}
  <2>1. \A k \in Kinds : of(k) \in Nat
    BY <1>2
  <2>2. \A k \in K : score[k] = of(k)
    OBVIOUS
  <2>3. scores # {}
    BY DEF K
  <2> HIDE DEF of
  <2>4. most \in Nat /\ \A k \in Kinds : of(k) <= most
    BY <2>1 DEF Kinds
  <2> HIDE DEF most
  <2> QED BY <1>1, <1>2, <2>2, <2>3, <2>4
<1>4. PICK m \in scores : \A u \in scores : u <= m
  <2> HIDE DEF scores, most
  <2> QED BY <1>3, LargestUpTo
<1>5. PICK k \in K : score[k] = m
  OBVIOUS
<1>6. \A other \in K : score[other] \in scores
  OBVIOUS
<1> HIDE DEF score, scores
<1>7. \A other \in K : Score(latest, weight, k) >= Score(latest, weight, other)
  BY <1>2, <1>4, <1>5, <1>6
<1>8. heaviest \in SUBSET Kinds /\ heaviest # {}
  BY <1>1, <1>5, <1>7
<1>9. MostConservative(heaviest) \in heaviest
  BY <1>8, MostConservativeIs
<1>10. Vote(latest, weight) = MostConservative(heaviest)
  BY DEF Vote, K, KindsOf
<1> HIDE DEF heaviest
<1> QED BY <1>9, <1>10 DEF heaviest, K

\* The decision of a team is a rejection or the decision of one of its
\* instances, in a team whose quorum decided; under most-conservative
\* arbitration no decision of an instance is more conservative.
THEOREM AggregateBacked ==
  ASSUME NEW D, IsFiniteSet(D), D # {}, NEW latest \in [D -> Kinds \cup {NoKind}],
         NEW weight, \A i \in D : weight[i] \in Nat,
         NEW quorum \in 1..100, NEW judge \in D, NEW policy \in Policies
  PROVE  LET d == Aggregate(latest, policy, quorum, weight, judge)
         IN  /\ d \in Kinds
             /\ d # "reject" => d \in KindsOf(latest) /\ QuorumReached(latest, quorum)
             /\ policy = "most_conservative" =>
                   \A k \in KindsOf(latest) : Conservative[d] >= Conservative[k]
<1> DEFINE K == KindsOf(latest)
           d == Aggregate(latest, policy, quorum, weight, judge)
           affirmative == K \ {"abstain"}
<1>1. K \in SUBSET Kinds /\ "reject" \in Kinds
  BY DEF KindsOf, Candidates, Kinds
<1>2. \A k \in Kinds : Conservative["reject"] >= Conservative[k]
  BY DEF Conservative, Kinds
<1>3. CASE ~QuorumReached(latest, quorum)
  <2>1. d = "reject"
    BY <1>3 DEF Aggregate
  <2> HIDE DEF d, K
  <2> QED BY <1>1, <1>2, <2>1 DEF K, d
<1>4. CASE QuorumReached(latest, quorum)
  <2>1. K # {}
    <3>1. Cardinality(D) \in Nat /\ Cardinality(D) # 0
      BY FS_CardinalityType, FS_EmptySet
    <3>2. Cardinality(Candidates(latest)) * 100 >= quorum * Cardinality(D)
      BY <1>4 DEF QuorumReached
    <3>3. quorum * Cardinality(D) > 0
      BY <3>1
    <3>4. Candidates(latest) = {} => Cardinality(Candidates(latest)) = 0
      BY FS_EmptySet
    <3>5. quorum * Cardinality(D) \in Nat
      BY <3>1
    <3>6. Candidates(latest) # {}
      BY <3>2, <3>3, <3>4, <3>5
    <3> QED BY <3>6 DEF KindsOf
  <2>2. CASE policy = "judge"
    <3>1. d = IF latest[judge] = NoKind THEN "reject" ELSE latest[judge]
      BY <1>4, <2>2 DEF Aggregate
    <3>2. latest[judge] # NoKind => latest[judge] \in K
      BY DEF KindsOf, Candidates
    <3> HIDE DEF d, K
    <3> QED BY <1>1, <1>4, <2>2, <3>1, <3>2 DEF K, d
  <2>3. CASE policy = "most_conservative"
    <3>1. d = MostConservative(K)
      BY <1>4, <2>1, <2>3 DEF Aggregate, KindsOf
    <3>2. d \in K /\ \A k \in K : Conservative[d] >= Conservative[k]
      BY <1>1, <2>1, <3>1, MostConservativeIs
    <3> HIDE DEF d, K
    <3> QED BY <1>1, <1>4, <3>2 DEF K, d
  <2>4. CASE policy = "majority_vote"
    <3>1. d = Vote(latest, [i \in D |-> 1])
      BY <1>4, <2>4 DEF Aggregate
    <3>2. d \in K
      BY <2>1, <3>1, VoteIs
    <3> HIDE DEF d, K
    <3> QED BY <1>1, <1>4, <2>4, <3>2 DEF K, d
  <2>5. CASE policy = "weighted_vote"
    <3>1. d = Vote(latest, weight)
      BY <1>4, <2>5 DEF Aggregate
    <3>2. d \in K
      BY <2>1, <3>1, VoteIs
    <3> HIDE DEF d, K
    <3> QED BY <1>1, <1>4, <2>5, <3>2 DEF K, d
  <2>6. CASE policy = "reject"
    <3>1. d = IF Cardinality(affirmative) = 1 THEN CHOOSE k \in affirmative : TRUE
              ELSE "reject"
      BY <1>4, <2>6 DEF Aggregate, KindsOf
    <3>2. Cardinality(affirmative) = 1 => affirmative # {}
      BY FS_EmptySet
    <3>3. d = "reject" \/ d \in affirmative
      <4> HIDE DEF d, affirmative
      <4> QED BY <3>1, <3>2
    <3> HIDE DEF d, K
    <3> QED BY <1>1, <1>4, <2>6, <3>3 DEF K, d
  <2> QED BY <2>2, <2>3, <2>4, <2>5, <2>6 DEF Policies
<1> QED BY <1>3, <1>4

-----------------------------------------------------------------------------
(***************************************************************************)
(* The schedule.                                                           *)
(***************************************************************************)
Team == ToSet(config.team)

Distinct(m) == \A i, j \in DOMAIN m : m[i] = m[j] => i = j

BatchSet == [members: {m \in Seq(Team) : Distinct(m)}, parallel: BOOLEAN]

\* The instances of a team are listed once each.
LEMMA TeamIs ==
  ASSUME config \in Configs
  PROVE  /\ config.team \in Seq(Team) /\ Distinct(config.team)
         /\ DOMAIN config.team = 1..Len(config.team) /\ Len(config.team) \in Nat \ {0}
         /\ Team \in SUBSET Instances /\ IsFiniteSet(Team)
         /\ Cardinality(Team) = Len(config.team)
         /\ config.lead \in Team /\ config.judge \in Team
         /\ config.topology \in Topologies /\ config.policy \in Policies
         /\ config.parallel \in BOOLEAN /\ config.rounds \in Nat \ {0}
<1> DEFINE t == config.team
           n == Len(t)
<1>1. /\ config \in Config /\ t # <<>> /\ Cardinality(Team) = n
      /\ config.lead \in Team /\ config.judge \in Team
  BY TeamAssumption DEF Team
<1>2. /\ t \in Seq(Instances)
      /\ config.topology \in Topologies /\ config.policy \in Policies
      /\ config.parallel \in BOOLEAN /\ config.rounds \in Nat \ {0}
  BY <1>1 DEF Config
<1>3. n \in Nat \ {0} /\ DOMAIN t = 1..n /\ t \in [1..n -> Instances]
  BY <1>1, <1>2, LenProperties, EmptySeq
<1> HIDE DEF t
<1>4. Team = {t[i] : i \in 1..n}
  BY <1>3 DEF Team, ToSet, t
<1>5. t \in Surjection(1..n, Team)
  BY <1>3, <1>4 DEF Surjection
<1>6. IsFiniteSet(1..n) /\ Cardinality(1..n) = n
  BY <1>3, FS_Interval
<1>7. IsFiniteSet(Team) /\ t \in Injection(1..n, Team)
  BY <1>1, <1>5, <1>6, FS_Surjection
<1>8. Distinct(t)
  BY <1>3, <1>7 DEF Distinct, Injection, IsInjective
<1>9. Team \in SUBSET Instances
  BY <1>3, <1>4
<1>10. t \in Seq(Team)
  BY <1>3, <1>5, SeqDef DEF Surjection
<1> QED BY <1>1, <1>2, <1>3, <1>7, <1>8, <1>9, <1>10 DEF t

\* The members of a batch that its lead is not part of.
LEMMA OthersIs ==
  ASSUME config \in Configs
  PROVE  Others \in Seq(Team) /\ Distinct(Others)
<1> DEFINE t == config.team
           n == Len(t)
           e == config.lead
<1>1. /\ t \in Seq(Team) /\ Distinct(t) /\ DOMAIN t = 1..n /\ n \in Nat \ {0} /\ e \in Team
  BY TeamIs
<1>2. PICK l \in 1..n : t[l] = e
  BY <1>1 DEF Team, ToSet
<1> DEFINE a == SubSeq(t, 1, l - 1)
           b == SubSeq(t, l + 1, n)
<1>3. {i \in 1..n : t[i] = e} = {l}
  BY <1>1, <1>2 DEF Distinct
<1>4. Min({l}) = l
  <2>1. l <= l
    BY <1>1
  <2> QED BY <2>1 DEF Min
<1>5. Others = a \o b
  <2>1. RemoveFirst(t, e) = RemoveAt(t, l)
    BY <1>2, <1>3, <1>4 DEF RemoveFirst, SelectInSeq
  <2> QED BY <2>1 DEF Others, RemoveAt
<1>6. /\ a \in Seq(Team) /\ Len(a) = l - 1
      /\ \A i \in 1..(l - 1) : a[i] = t[i]
  <2>1. /\ 1 \in Int /\ l - 1 \in Int /\ \A i \in 1..(l - 1) : t[i] \in Team
        /\ (IF 1 <= l - 1 THEN l - 1 - 1 + 1 ELSE 0) = l - 1
        /\ l - 1 - 1 + 1 = l - 1 /\ \A i \in 1..(l - 1) : 1 + i - 1 = i
    <3>1. \A i \in 1..(l - 1) : i \in 1..n
      BY <1>1
    <3> HIDE DEF t
    <3>2. \A i \in 1..n : t[i] \in Team
      BY <1>1, ElementOfSeq
    <3> QED BY <1>1, <3>1, <3>2
  <2> HIDE DEF t
  <2>2. /\ a \in Seq(Team) /\ Len(a) = IF 1 <= l - 1 THEN l - 1 - 1 + 1 ELSE 0
        /\ \A i \in 1..(l - 1 - 1 + 1) : a[i] = t[1 + i - 1]
    BY <2>1, SubSeqProperties
  <2> HIDE DEF a
  <2> QED BY <2>1, <2>2
<1>7. /\ b \in Seq(Team) /\ Len(b) = n - l
      /\ \A i \in 1..(n - l) : b[i] = t[l + i]
  <2> HIDE DEF t, n
  <2>1. l \in Nat /\ n \in Nat /\ 1 <= l /\ l <= n
    BY <1>1
  <2>2. l + 1 \in Int /\ n \in Int
    BY <2>1
  <2>3. \A i \in (l + 1)..n : t[i] \in Team
    <3>1. \A i \in (l + 1)..n : i \in 1..n
      BY <2>1
    <3>2. \A i \in 1..n : t[i] \in Team
      BY <1>1, ElementOfSeq DEF n
    <3> QED BY <3>1, <3>2
  <2>4. /\ b \in Seq(Team) /\ Len(b) = IF l + 1 <= n THEN n - (l + 1) + 1 ELSE 0
        /\ \A i \in 1..(n - (l + 1) + 1) : b[i] = t[(l + 1) + i - 1]
    BY <2>2, <2>3, SubSeqProperties
  <2> HIDE DEF b
  <2>5. (IF l + 1 <= n THEN n - (l + 1) + 1 ELSE 0) = n - l
    BY <2>1
  <2>6. n - (l + 1) + 1 = n - l
    BY <2>1
  <2>7. \A i \in 1..(n - l) : (l + 1) + i - 1 = l + i
    BY <2>1
  <2> QED BY <2>4, <2>5, <2>6, <2>7
<1> HIDE DEF a, b, t
<1>8. /\ Others \in Seq(Team) /\ Len(Others) = n - 1
      /\ \A i \in 1..(n - 1) : Others[i] = t[IF i < l THEN i ELSE i + 1]
  <2>1. /\ Others \in Seq(Team) /\ Len(Others) = (l - 1) + (n - l)
        /\ \A i \in 1..((l - 1) + (n - l)) :
              Others[i] = IF i <= l - 1 THEN a[i] ELSE b[i - (l - 1)]
    <3>1. /\ Others \in Seq(Team) /\ Len(Others) = Len(a) + Len(b)
          /\ \A i \in 1..(Len(a) + Len(b)) :
                Others[i] = IF i <= Len(a) THEN a[i] ELSE b[i - Len(a)]
      BY <1>5, <1>6, <1>7, ConcatProperties
    <3> QED BY <1>6, <1>7, <3>1
  <2>2. (l - 1) + (n - l) = n - 1
    BY <1>1
  <2>3. ASSUME NEW i \in 1..(n - 1)
        PROVE  Others[i] = t[IF i < l THEN i ELSE i + 1]
    <3>1. CASE i < l
      <4>1. i <= l - 1 /\ i \in 1..(l - 1)
        BY <1>1, <3>1
      <4> QED BY <1>6, <2>1, <2>2, <3>1, <4>1
    <3>2. CASE ~(i < l)
      <4>1. ~(i <= l - 1) /\ i - (l - 1) \in 1..(n - l) /\ l + (i - (l - 1)) = i + 1
        BY <1>1, <3>2
      <4> QED BY <1>7, <2>1, <2>2, <3>2, <4>1
    <3> QED BY <3>1, <3>2
  <2> QED BY <2>1, <2>2, <2>3
<1>9. Distinct(Others)
  <2>1. DOMAIN Others = 1..(n - 1)
    BY <1>8, LenProperties
  <2> SUFFICES ASSUME NEW i \in 1..(n - 1), NEW j \in 1..(n - 1), Others[i] = Others[j]
               PROVE  i = j
    BY <2>1 DEF Distinct
  <2> DEFINE f(k) == IF k < l THEN k ELSE k + 1
  <2>2. f(i) \in 1..n /\ f(j) \in 1..n
    BY <1>1
  <2>3. t[f(i)] = t[f(j)]
    BY <1>8
  <2> HIDE DEF f
  <2>4. f(i) = f(j)
    BY <1>1, <2>2, <2>3 DEF Distinct
  <2> QED BY <1>1, <2>4 DEF f
<1> QED BY <1>8, <1>9

\* Every topology schedules batches of different members of the team.
LEMMA ScheduleIs ==
  ASSUME config \in Configs
  PROVE  /\ Schedule \in Seq(BatchSet) /\ DOMAIN Schedule = 1..Len(Schedule)
         /\ Len(Schedule) \in Nat \ {0}
<1> DEFINE all == Batch(config.team, config.parallel)
           others == Batch(Others, config.parallel)
<1>1. /\ config.team \in Seq(Team) /\ Distinct(config.team)
      /\ DOMAIN config.team = 1..Len(config.team) /\ Len(config.team) \in Nat \ {0}
      /\ config.topology \in Topologies /\ config.parallel \in BOOLEAN
      /\ config.rounds \in Nat \ {0} /\ config.lead \in Team
  BY TeamIs
<1>2. all \in BatchSet /\ others \in BatchSet
  BY <1>1, OthersIs DEF Batch, BatchSet
<1>3. \A i \in Team : Batch(<<i>>, FALSE) \in BatchSet
  <2> SUFFICES ASSUME NEW i \in Team PROVE Batch(<<i>>, FALSE) \in BatchSet
    OBVIOUS
  <2>1. <<i>> \in Seq(Team) /\ DOMAIN <<i>> = {1}
    OBVIOUS
  <2>2. Distinct(<<i>>)
    BY <2>1 DEF Distinct
  <2> QED BY <2>1, <2>2 DEF Batch, BatchSet
<1>4. LeadAlone \in BatchSet
  BY <1>1, <1>3 DEF LeadAlone
<1> HIDE DEF all, others
<1>5. /\ <<all>> \in Seq(BatchSet) /\ <<LeadAlone>> \in Seq(BatchSet)
      /\ <<others, LeadAlone>> \in Seq(BatchSet) /\ Len(<<all>>) = 1
      /\ Len(<<LeadAlone>>) = 1 /\ Len(<<others, LeadAlone>>) = 2
  BY <1>2, <1>4
<1>6. Schedule \in Seq(BatchSet) /\ Len(Schedule) \in Nat \ {0}
  <2>1. CASE config.topology \in {"single", "committee_vote"}
    <3>1. Schedule = <<all>>
      BY <2>1 DEF Schedule, all
    <3> QED BY <1>5, <3>1
  <2>2. CASE config.topology = "pipeline"
    <3> DEFINE s == [n \in 1..Len(config.team) |-> Batch(<<config.team[n]>>, FALSE)]
    <3>1. Schedule = s
      BY <1>1, <2>2 DEF Schedule
    <3>2. s \in [1..Len(config.team) -> BatchSet]
      <4>1. \A n \in 1..Len(config.team) : config.team[n] \in Team
        BY <1>1, ElementOfSeq
      <4> QED BY <1>3, <4>1
    <3> HIDE DEF s
    <3>3. s \in Seq(BatchSet) /\ DOMAIN s = 1..Len(config.team)
      BY <1>1, <3>2, SeqDef
    <3>4. Len(s) \in Nat /\ 1 \in 1..Len(s)
      BY <1>1, <3>3, LenProperties
    <3> QED BY <3>1, <3>3, <3>4
  <2>3. CASE config.topology = "supervisor_worker"
    <3> DEFINE s == IF config.rounds >= 2 THEN <<LeadAlone>> ELSE <<>>
    <3>1. Schedule = <<all>> \o s
      BY <2>3 DEF Schedule, all
    <3>2. s \in Seq(BatchSet) /\ Len(s) \in Nat
      BY <1>5, EmptySeq
    <3> HIDE DEF s
    <3>3. <<all>> \o s \in Seq(BatchSet) /\ Len(<<all>> \o s) = 1 + Len(s)
      BY <1>5, <3>2, ConcatProperties
    <3> QED BY <3>1, <3>2, <3>3
  <2>4. CASE config.topology = "debate_then_judge"
    <3> DEFINE s == [r \in 1..(config.rounds - 1) |-> others]
    <3>1. Schedule = s \o <<LeadAlone>>
      BY <2>4 DEF Schedule, others
    <3>2. s \in [1..(config.rounds - 1) -> BatchSet] /\ config.rounds - 1 \in Nat
      BY <1>1, <1>2 DEF others
    <3> HIDE DEF s
    <3>3. s \in Seq(BatchSet) /\ Len(s) \in Nat
      BY <3>2, SeqDef, LenProperties
    <3>4. s \o <<LeadAlone>> \in Seq(BatchSet) /\ Len(s \o <<LeadAlone>>) = Len(s) + 1
      BY <1>5, <3>3, ConcatProperties
    <3> QED BY <3>1, <3>3, <3>4
  <2>5. CASE config.topology = "map_reduce"
    <3>1. Schedule = <<others, LeadAlone>>
      BY <2>5 DEF Schedule, others
    <3> QED BY <1>5, <3>1
  <2> QED BY <1>1, <2>1, <2>2, <2>3, <2>4, <2>5 DEF Topologies
<1> QED BY <1>6, LenProperties

\* The members of a batch are different instances of the team.
LEMMA MembersIs ==
  ASSUME config \in Configs, stage \in DOMAIN Schedule
  PROVE  /\ Members \in Seq(Team) /\ Distinct(Members)
         /\ DOMAIN Members = 1..Len(Members) /\ Len(Members) \in Nat
         /\ \A k \in 1..Len(Members) : Members[k] \in Team
         /\ stage \in Nat \ {0} /\ stage <= Len(Schedule) /\ Len(Schedule) \in Nat
<1>1. /\ Schedule \in Seq(BatchSet) /\ stage \in 1..Len(Schedule)
      /\ Len(Schedule) \in Nat \ {0}
  BY ScheduleIs
<1>2. Schedule[stage] \in BatchSet
  BY <1>1, ElementOfSeq
<1>3. Members \in Seq(Team) /\ Distinct(Members)
  BY <1>2 DEF Members, BatchSet
<1> HIDE DEF Members
<1>4. \A k \in 1..Len(Members) : Members[k] \in Team
  BY <1>3, ElementOfSeq
<1> QED BY <1>1, <1>3, <1>4, LenProperties

-----------------------------------------------------------------------------
(***************************************************************************)
(* The inductive invariant.                                                *)
(***************************************************************************)

\* Of the calls the first b belong to earlier batches, the others are those of
\* the first members of this batch; all results of the former are collected.
Split(b) ==
    /\ b \in 0..Len(results) /\ Len(calls) <= b + Len(Members)
    /\ \A n \in DOMAIN calls :
        IF n <= b THEN calls[n].stage < stage
                  ELSE calls[n].stage = stage /\ calls[n].instance = Members[n - b]

BatchesInv ==
    /\ Len(results) <= Len(calls)
    /\ \A n \in DOMAIN calls : calls[n].instance \in Team
    /\ main # "batch" => Len(results) = Len(calls)
    /\ \E b \in Nat : Split(b)

\* A decision comes with the statuses that promise one and with no other.
Answered(c) ==
    \/ c.status \in {"succeeded", "fallback"} /\ c.kind \in Kinds
    \/ c.status = "failed" /\ c.kind = NoKind

OwnAnswer(n) ==
    \/ results[n].status = "timed_out" /\ results[n].kind = NoKind
    \/ /\ calls[n].at = "done"
       /\ results[n].status = calls[n].status /\ results[n].kind = calls[n].kind

CallsInv ==
    /\ \A n \in DOMAIN calls :
        /\ calls[n].at = "done" => Answered(calls[n])
        /\ calls[n].at = "queued" => n \notin DOMAIN results
        /\ calls[n].at = "cancelled" => n \in DOMAIN results
        /\ calls[n].at \in {"charge", "handler"} => calls[n].tool \in ToolNames
    /\ \A n \in DOMAIN results :
        results[n].instance = calls[n].instance /\ OwnAnswer(n)

LatestKinds == [i \in Team |-> Latest(i)]

DecisionInv ==
    IF main \in {"batch", "aggregate"}
    THEN decision = NoKind
    ELSE decision = Aggregate(LatestKinds, config.policy, Quorum, Weight, config.judge)

\* The calls of an instance between the checks and the count.
Charging(i) ==
    {n \in DOMAIN calls : calls[n].instance = i /\ calls[n].at = "charge"}

Spending(i) == {n \in Charging(i) : calls[n].tool = "expensive"}

BudgetsInv ==
    \A i \in Instances :
        /\ used[i] + Cardinality(Charging(i)) <= MaxToolCalls + Cardinality(Late(i))
        /\ expensive[i] + Cardinality(Spending(i)) <= MaxExpensive + Cardinality(Late(i))
        /\ expensive[i] <= used[i]
        /\ estimated[i] => expensive[i] < used[i]
        /\ expensive[i] > 0 => estimated[i]

\* A handler that may end an estimate has been counted, and no expensive call
\* passes the checks before an estimate.
ToolsInv ==
    \A n \in DOMAIN calls :
        /\ calls[n].at = "handler" /\ calls[n].tool = "estimate"
              => expensive[calls[n].instance] < used[calls[n].instance]
        /\ calls[n].at = "charge" /\ calls[n].tool = "expensive"
              => estimated[calls[n].instance]

-----------------------------------------------------------------------------
(***************************************************************************)
(* The steps of the threads.                                               *)
(***************************************************************************)
LEMMA Sizes ==
  ASSUME TypeOK
  PROVE  /\ DOMAIN calls = 1..Len(calls) /\ Len(calls) \in Nat
         /\ DOMAIN results = 1..Len(results) /\ Len(results) \in Nat
         /\ \A n \in DOMAIN calls : calls[n] \in Call
         /\ \A n \in DOMAIN results : results[n] \in Result
<1>1. calls \in Seq(Call) /\ results \in Seq(Result)
  BY DEF TypeOK
<1>2. /\ DOMAIN calls = 1..Len(calls) /\ Len(calls) \in Nat
      /\ DOMAIN results = 1..Len(results) /\ Len(results) \in Nat
  BY <1>1, LenProperties
<1>3. \A n \in 1..Len(calls) : calls[n] \in Call
  BY <1>1, ElementOfSeq
<1>4. \A n \in 1..Len(results) : results[n] \in Result
  BY <1>1, ElementOfSeq
<1> QED BY <1>2, <1>3, <1>4

\* The fields of a call are of the types declared.
LEMMA CallFields ==
  ASSUME NEW c \in Call
  PROVE  /\ c.instance \in Instances /\ c.stage \in Nat \ {0}
         /\ c.at \in Running \cup {"queued", "done", "cancelled"}
         /\ c.attempt \in Nat /\ c.round \in Nat /\ c.tool \in ToolNames \cup {"none"}
         /\ c.status \in Statuses \cup {"none"} /\ c.kind \in Kinds \cup {NoKind}
BY DEF Call

\* What every step of a thread does: it moves one call, which was not over, and
\* leaves its instance and its batch.
Moves(n) ==
    /\ calls' \in Seq(Call) /\ Len(calls') = Len(calls) /\ DOMAIN calls' = DOMAIN calls
    /\ \A m \in DOMAIN calls \ {n} : calls'[m] = calls[m]
    /\ calls[n].at \in Running \cup {"queued"}
    /\ calls'[n].at \in Running \cup {"done"}
    /\ calls'[n].instance = calls[n].instance /\ calls'[n].stage = calls[n].stage
    /\ calls'[n].at = "done" => Answered(calls'[n])
    /\ calls'[n].at \in {"charge", "handler"} => calls'[n].tool \in ToolNames
    /\ hashed' \in {hashed, hashed \ {calls[n].instance}}
    /\ UNCHANGED <<config, main, stage, results, decision>>

\* A step outside of tool calls.
Quiet(n) ==
    /\ calls[n].at \notin {"charge", "handler"}
    /\ calls'[n].at \notin {"charge", "handler"}
    /\ UNCHANGED budgets

\* A step of a thread replaces its own call.
LEMMA ThreadIs ==
  ASSUME TypeOK, NEW n \in DOMAIN calls, NEW new \in Call, Thread(n, new)
  PROVE  /\ calls' \in Seq(Call) /\ Len(calls') = Len(calls) /\ DOMAIN calls' = DOMAIN calls
         /\ \A m \in DOMAIN calls \ {n} : calls'[m] = calls[m]
         /\ calls'[n] = new
         /\ UNCHANGED <<config, main, stage, results, decision>>
<1>1. calls \in Seq(Call) /\ DOMAIN calls = 1..Len(calls) /\ calls' = [calls EXCEPT ![n] = new]
  BY Sizes DEF TypeOK, Thread
<1>2. calls' \in Seq(Call) /\ Len(calls') = Len(calls)
  BY <1>1, ExceptSeq
<1>3. DOMAIN calls' = DOMAIN calls /\ \A m \in DOMAIN calls \ {n} : calls'[m] = calls[m]
  BY <1>1
<1>4. calls'[n] = new
  BY <1>1
<1> QED BY <1>2, <1>3, <1>4 DEF Thread

\* The step of a thread that replaces its call by a given one.
LEMMA MoveOf ==
  ASSUME TypeOK, NEW n \in DOMAIN calls, NEW new \in Call, Thread(n, new),
         calls[n].at \in Running \cup {"queued"}, new.at \in Running \cup {"done"},
         new.instance = calls[n].instance, new.stage = calls[n].stage,
         new.at = "done" => Answered(new),
         new.at \in {"charge", "handler"} => new.tool \in ToolNames,
         hashed' \in {hashed, hashed \ {calls[n].instance}}
  PROVE  Moves(n) /\ calls'[n] = new
BY ThreadIs DEF Moves

\* A thread moves a call of its own, and outside of its tool calls it leaves
\* the budgets as they are.
LEMMA ThreadMoves ==
  ASSUME TypeOK, CallsInv, NEW n \in DOMAIN calls, Start(n) \/ CallStep(n)
  PROVE  /\ Moves(n)
         /\ \/ Quiet(n)
            \/ PassChecks(n) /\ calls'[n].at = "charge"
                             /\ MayCall(calls[n].instance, calls'[n].tool)
            \/ Charge(n) /\ calls'[n].at = "handler" /\ calls'[n].tool = calls[n].tool
            \/ HandlerEnds(n) /\ calls'[n].at = "tools"
<1> DEFINE c == calls[n]
           i == calls[n].instance
<1>1. c \in Call
  BY Sizes
<1>2. /\ i \in Instances /\ c.stage \in Nat \ {0}
      /\ c.at \in Running \cup {"queued", "done", "cancelled"}
      /\ c.attempt \in Nat /\ c.round \in Nat /\ c.tool \in ToolNames \cup {"none"}
      /\ c.status \in Statuses \cup {"none"} /\ c.kind \in Kinds \cup {NoKind}
  BY <1>1, CallFields
<1>3. /\ Answers[i] \in SUBSET Kinds /\ Fallback[i] \in Kinds
      /\ {"succeeded", "fallback", "failed"} \subseteq Statuses
  BY <1>2, TeamAssumption DEF Statuses
<1>4. /\ Running = {"provider", "tools", "charge", "handler"}
      /\ hashed \ {i} \in {hashed, hashed \ {i}} /\ hashed \in {hashed, hashed \ {i}}
  BY DEF Running
<1>5. ASSUME NEW status \in {"succeeded", "fallback", "failed"}, NEW kind \in Kinds \cup {NoKind},
             status = "failed" => kind = NoKind, status # "failed" => kind \in Kinds,
             Thread(n, Ended(n, status, kind)), c.at \in {"provider", "tools"},
             hashed' \in {hashed, hashed \ {i}}, UNCHANGED budgets
      PROVE  Moves(n) /\ Quiet(n)
  <2> DEFINE new == Ended(n, status, kind)
  <2>1. /\ new \in Call /\ new.at = "done" /\ new.instance = c.instance
        /\ new.stage = c.stage /\ new.status = status /\ new.kind = kind
    BY <1>1, <1>3, <1>5 DEF Call, Ended
  <2>2. Answered(new)
    BY <1>5, <2>1 DEF Answered
  <2> HIDE DEF new
  <2>3. Thread(n, new)
    BY <1>5 DEF new
  <2>4. c.at \in Running
    BY <1>4, <1>5
  <2>5. Moves(n) /\ calls'[n] = new
    BY <1>5, <2>1, <2>2, <2>3, <2>4, MoveOf
  <2> QED BY <1>5, <2>1, <2>5 DEF Quiet
<1>6. ASSUME NEW a \in Nat, NEW r \in Nat, NEW at \in {"provider", "tools"},
             NEW new, new = [c EXCEPT !.at = at, !.attempt = a, !.round = r],
             Thread(n, new), c.at \in {"queued", "provider", "tools"},
             hashed' \in {hashed, hashed \ {i}}, UNCHANGED budgets
      PROVE  Moves(n) /\ Quiet(n)
  <2>1. /\ new \in Call /\ new.at = at /\ new.instance = c.instance
        /\ new.stage = c.stage
    BY <1>1, <1>4, <1>6 DEF Call
  <2>2. c.at \in Running \cup {"queued"}
    BY <1>4, <1>6
  <2>3. new.at \in Running \cup {"done"} /\ new.at # "done" /\ new.at \notin {"charge", "handler"}
    BY <1>4, <1>6, <2>1
  <2>4. Moves(n) /\ calls'[n] = new
    BY <1>6, <2>1, <2>2, <2>3, MoveOf
  <2> QED BY <1>6, <2>3, <2>4 DEF Quiet
<1>7. CASE Start(n)
  <2> DEFINE new == [c EXCEPT !.at = "provider", !.attempt = 1, !.round = 1]
  <2>1. /\ Thread(n, new) /\ c.at = "queued" /\ hashed' = hashed \ {i} /\ UNCHANGED budgets
    BY <1>7 DEF Start, Writes
  <2> HIDE DEF c
  <2> QED BY <1>4, <1>6, <2>1
<1>8. CASE Answer(n)
  <2>1. PICK kind \in Answers[i] : Thread(n, Ended(n, "succeeded", kind))
    BY <1>8 DEF Answer
  <2>2. kind \in Kinds /\ kind \in Kinds \cup {NoKind}
    BY <1>3
  <2>3. c.at = "provider" /\ hashed' = hashed \ {i} /\ UNCHANGED budgets
    BY <1>8 DEF Answer, Writes
  <2> QED BY <1>4, <1>5, <2>1, <2>2, <2>3
<1>9. CASE FallBack(n)
  <2>1. /\ Thread(n, Ended(n, "fallback", Fallback[i]))
        /\ c.at = "provider" /\ hashed' = hashed \ {i} /\ UNCHANGED budgets
    BY <1>9 DEF FallBack, Writes
  <2> QED BY <1>3, <1>4, <1>5, <2>1
<1>10. CASE Raise(n)
  <2> DEFINE new == [c EXCEPT !.at = "provider", !.round = 1, !.attempt = @ + 1]
  <2>1. c.at \in {"provider", "tools"} /\ hashed' = hashed /\ UNCHANGED budgets
    BY <1>10 DEF Raise
  <2>2. CASE c.attempt <= MaxRetries[i]
    <3>1. Thread(n, new)
      BY <1>10, <2>2 DEF Raise
    <3>2. new = [c EXCEPT !.at = "provider", !.attempt = c.attempt + 1, !.round = 1]
      BY <1>1 DEF Call
    <3>3. c.attempt + 1 \in Nat
      BY <1>2
    <3> HIDE DEF new, c
    <3> QED BY <1>4, <1>6, <2>1, <3>1, <3>2, <3>3
  <2>3. CASE ~(c.attempt <= MaxRetries[i])
    <3>1. Thread(n, Ended(n, "failed", NoKind))
      BY <1>10, <2>3 DEF Raise
    <3> QED BY <1>4, <1>5, <2>1, <3>1
  <2> QED BY <2>2, <2>3
<1>11. CASE CallTools(n)
  <2> DEFINE new == [c EXCEPT !.at = "tools"]
  <2>1. Thread(n, new) /\ c.at = "provider" /\ hashed' = hashed \ {i} /\ UNCHANGED budgets
    BY <1>11 DEF CallTools, Writes
  <2>2. new = [c EXCEPT !.at = "tools", !.attempt = c.attempt, !.round = c.round]
    BY <1>1 DEF Call
  <2> HIDE DEF new, c
  <2> QED BY <1>2, <1>4, <1>6, <2>1, <2>2
<1>12. CASE PassChecks(n)
  <2>1. PICK tool \in ToolNames : MayCall(i, tool) /\ Thread(n, [c EXCEPT !.at = "charge", !.tool = tool])
    BY <1>12 DEF PassChecks
  <2> DEFINE new == [c EXCEPT !.at = "charge", !.tool = tool]
  <2>2. /\ new \in Call /\ new.at = "charge" /\ new.instance = c.instance
        /\ new.stage = c.stage /\ new.tool = tool
    BY <1>1, <1>4 DEF Call
  <2> HIDE DEF new
  <2>3. Thread(n, new) /\ c.at \in Running /\ hashed' = hashed
    BY <1>4, <1>12, <2>1 DEF PassChecks, new
  <2>4. Moves(n) /\ calls'[n] = new
    BY <1>4, <2>2, <2>3, MoveOf
  <2> QED BY <1>12, <2>1, <2>2, <2>4
<1>13. CASE Charge(n)
  <2> DEFINE new == [c EXCEPT !.at = "handler"]
  <2>1. Thread(n, new) /\ c.at = "charge" /\ hashed' = hashed
    BY <1>13 DEF Charge
  <2>2. c.tool \in ToolNames
    BY <2>1 DEF CallsInv
  <2>3. /\ new \in Call /\ new.at = "handler" /\ new.instance = c.instance
        /\ new.stage = c.stage /\ new.tool = c.tool
    BY <1>1, <1>4 DEF Call
  <2> HIDE DEF new
  <2>4. Moves(n) /\ calls'[n] = new
    BY <1>4, <2>1, <2>2, <2>3, MoveOf
  <2> QED BY <1>13, <2>3, <2>4
<1>14. CASE HandlerEnds(n)
  <2> DEFINE new == [c EXCEPT !.at = "tools", !.tool = "none"]
  <2>1. Thread(n, new) /\ c.at = "handler" /\ hashed' = hashed \ {i}
    BY <1>14 DEF HandlerEnds, Writes
  <2>2. /\ new \in Call /\ new.at = "tools" /\ new.instance = c.instance
        /\ new.stage = c.stage
    BY <1>1, <1>4 DEF Call
  <2> HIDE DEF new
  <2>3. Moves(n) /\ calls'[n] = new
    BY <1>4, <2>1, <2>2, MoveOf
  <2> QED BY <1>14, <2>2, <2>3
<1>15. CASE NextRound(n)
  <2> DEFINE new == [c EXCEPT !.at = "provider", !.round = @ + 1]
  <2>1. c.at = "tools" /\ hashed' = hashed \ {i} /\ UNCHANGED budgets
    BY <1>15 DEF NextRound, Writes
  <2>2. CASE c.round < MaxToolRounds[i]
    <3>1. Thread(n, new)
      BY <1>15, <2>2 DEF NextRound
    <3>2. new = [c EXCEPT !.at = "provider", !.attempt = c.attempt, !.round = c.round + 1]
      BY <1>1 DEF Call
    <3>3. c.round + 1 \in Nat
      BY <1>2
    <3> HIDE DEF new, c
    <3> QED BY <1>2, <1>4, <1>6, <2>1, <3>1, <3>2, <3>3
  <2>3. CASE ~(c.round < MaxToolRounds[i])
    <3>1. Thread(n, Ended(n, "fallback", Fallback[i]))
      BY <1>15, <2>3 DEF NextRound
    <3> QED BY <1>3, <1>4, <1>5, <2>1, <3>1
  <2> QED BY <2>2, <2>3
<1> QED BY <1>7, <1>8, <1>9, <1>10, <1>11, <1>12, <1>13, <1>14, <1>15 DEF CallStep

-----------------------------------------------------------------------------
(***************************************************************************)
(* The steps of the thread that runs the team.                             *)
(***************************************************************************)
LEMMA ScheduleStays ==
  ASSUME config' = config
  PROVE  Schedule' = Schedule /\ Team' = Team
BY DEF Schedule, Team, LeadAlone, Others, Batch

\* The batch changes with the stage only.
LEMMA MembersStay ==
  ASSUME config' = config, stage' = stage
  PROVE  Members' = Members /\ Team' = Team
BY ScheduleStays DEF Members

\* How many calls of the batch there are, and how many of its results.
LEMMA SplitCounts ==
  ASSUME TypeOK, Len(results) <= Len(calls), NEW b \in Nat, Split(b)
  PROVE  Submitted = Len(calls) - b /\ Collected = Len(results) - b
<1>1. /\ DOMAIN calls = 1..Len(calls) /\ Len(calls) \in Nat
      /\ DOMAIN results = 1..Len(results) /\ Len(results) \in Nat
  BY Sizes
<1>2. b \in 0..Len(results) /\ stage \in Nat
  BY MembersIs DEF Split, TypeOK
<1>3. \A n \in 1..Len(calls) : InBatch(n) <=> n > b
  <2> SUFFICES ASSUME NEW n \in 1..Len(calls) PROVE InBatch(n) <=> n > b
    OBVIOUS
  <2>1. CASE n <= b
    <3>1. calls[n].stage < stage /\ ~(n > b)
      BY <1>1, <2>1 DEF Split
    <3>2. calls[n].stage \in Nat
      BY <1>1, Sizes, CallFields
    <3> QED BY <1>2, <3>1, <3>2 DEF InBatch
  <2>2. CASE ~(n <= b)
    BY <1>1, <2>2 DEF Split, InBatch
  <2> QED BY <2>1, <2>2
<1>4. {n \in DOMAIN calls : InBatch(n)} = (b + 1)..Len(calls)
  BY <1>1, <1>2, <1>3
<1>5. {n \in DOMAIN results : InBatch(n)} = (b + 1)..Len(results)
  BY <1>1, <1>2, <1>3
<1>6. \A m \in Nat : b <= m => Cardinality((b + 1)..m) = m - b
  <2> SUFFICES ASSUME NEW m \in Nat, b <= m PROVE Cardinality((b + 1)..m) = m - b
    OBVIOUS
  <2>1. Cardinality((b + 1)..m) = IF b + 1 > m THEN 0 ELSE m - (b + 1) + 1
    BY FS_Interval
  <2> QED BY <2>1
<1>7. b <= Len(calls) /\ b <= Len(results)
  BY <1>1, <1>2
<1>8. Submitted = Len(calls) - b
  BY <1>1, <1>4, <1>6, <1>7 DEF Submitted
<1>9. Collected = Len(results) - b
  BY <1>1, <1>5, <1>6, <1>7 DEF Collected
<1> QED BY <1>8, <1>9

\* The result that is waited for is that of the oldest call without one.
LEMMA AwaitedIs ==
  ASSUME TypeOK, NEW n \in Awaited
  PROVE  /\ n = Len(results) + 1 /\ n \in DOMAIN calls /\ n \notin DOMAIN results
         /\ Len(results) + 1 <= Len(calls)
BY Sizes DEF Awaited

\* A result is appended to the others.
Appended(n, status, kind) ==
    /\ results' \in Seq(Result) /\ Len(results') = Len(results) + 1
    /\ DOMAIN results' = DOMAIN results \cup {n}
    /\ \A m \in DOMAIN results : results'[m] = results[m]
    /\ results'[n].instance = calls[n].instance
    /\ results'[n].status = status /\ results'[n].kind = kind

\* Collecting appends the result of a call.
LEMMA CollectIs ==
  ASSUME TypeOK, NEW n \in DOMAIN calls, n = Len(results) + 1,
         NEW status \in Statuses, NEW kind \in Kinds \cup {NoKind},
         Collect(n, status, kind)
  PROVE  Appended(n, status, kind)
<1> DEFINE r == [instance |-> calls[n].instance, status |-> status, kind |-> kind]
<1>1. /\ DOMAIN results = 1..Len(results) /\ Len(results) \in Nat
      /\ results \in Seq(Result) /\ calls[n] \in Call
  BY Sizes DEF TypeOK
<1>2. r \in Result
  BY <1>1, CallFields DEF Result
<1>3. r.instance = calls[n].instance /\ r.status = status /\ r.kind = kind
  OBVIOUS
<1>4. results' = Append(results, r)
  BY DEF Collect
<1> HIDE DEF r
<1>5. /\ results' \in Seq(Result) /\ Len(results') = Len(results) + 1
      /\ \A m \in 1..Len(results) : results'[m] = results[m]
      /\ results'[Len(results) + 1] = r
  BY <1>1, <1>2, <1>4, AppendProperties
<1>6. DOMAIN results' = 1..(Len(results) + 1)
  BY <1>5, LenProperties
<1> QED BY <1>1, <1>3, <1>5, <1>6 DEF Appended

\* Submitting appends a queued call for the next member.
LEMMA SubmitIs ==
  ASSUME TypeOK, BatchesInv, Submit
  PROVE  /\ calls' \in Seq(Call) /\ Len(calls') = Len(calls) + 1
         /\ DOMAIN calls' = DOMAIN calls \cup {Len(calls) + 1}
         /\ \A n \in DOMAIN calls : calls'[n] = calls[n]
         /\ calls'[Len(calls) + 1] = Queued(Members[Submitted + 1])
         /\ Submitted + 1 \in DOMAIN Members
<1> DEFINE c == Queued(Members[Submitted + 1])
<1>1. /\ DOMAIN calls = 1..Len(calls) /\ Len(calls) \in Nat /\ calls \in Seq(Call)
  BY Sizes DEF TypeOK
<1>2. /\ DOMAIN Members = 1..Len(Members) /\ Len(Members) \in Nat
      /\ \A k \in 1..Len(Members) : Members[k] \in Team
      /\ Team \in SUBSET Instances /\ stage \in Nat \ {0}
  BY MembersIs, TeamIs DEF TypeOK
<1>3. Submitted \in Nat
  <2>1. PICK b \in Nat : Split(b)
    BY DEF BatchesInv
  <2>2. Submitted = Len(calls) - b /\ b <= Len(results) /\ Len(results) <= Len(calls)
    BY <2>1, SplitCounts DEF BatchesInv, Split
  <2> QED BY <1>1, <2>2, Sizes
<1>4. Submitted + 1 \in 1..Len(Members)
  BY <1>2, <1>3 DEF Submit
<1>5. Members[Submitted + 1] \in Instances
  BY <1>2, <1>4
<1>6. c \in Call
  BY <1>2, <1>5 DEF Queued, Call
<1>7. calls' = Append(calls, c)
  BY DEF Submit
<1> HIDE DEF c
<1>8. /\ calls' \in Seq(Call) /\ Len(calls') = Len(calls) + 1
      /\ \A n \in 1..Len(calls) : calls'[n] = calls[n]
      /\ calls'[Len(calls) + 1] = c
  BY <1>1, <1>6, <1>7, AppendProperties
<1>9. DOMAIN calls' = 1..(Len(calls) + 1)
  BY <1>8, LenProperties
<1> QED BY <1>1, <1>2, <1>4, <1>8, <1>9 DEF c

\* A result that is received is that of the oldest call without one.
LEMMA ReceiveIs ==
  ASSUME TypeOK, NEW n \in DOMAIN calls, Receive(n), CallsInv
  PROVE  /\ n = Len(results) + 1 /\ Answered(calls[n]) /\ calls[n].at = "done"
         /\ calls[n].status \in Statuses /\ Collect(n, calls[n].status, calls[n].kind)
         /\ calls[n].kind \in Kinds \cup {NoKind}
         /\ UNCHANGED <<config, main, stage, calls, hashed, decision>> /\ UNCHANGED budgets
<1>1. n \in Awaited /\ calls[n].at = "done"
  BY DEF Receive
<1>2. n = Len(results) + 1
  BY <1>1, AwaitedIs
<1>3. Answered(calls[n])
  BY <1>1 DEF CallsInv
<1>4. calls[n].status \in Statuses /\ calls[n].kind \in Kinds \cup {NoKind}
  BY <1>3 DEF Answered, Statuses
<1> QED BY <1>1, <1>2, <1>3, <1>4 DEF Receive

\* A timeout cancels a queued call and leaves any other one to its thread.
LEMMA TimeOutIs ==
  ASSUME TypeOK, NEW n \in DOMAIN calls, TimeOut(n)
  PROVE  /\ n = Len(results) + 1 /\ calls[n].at \in Running \cup {"queued"}
         /\ calls' \in Seq(Call) /\ Len(calls') = Len(calls) /\ DOMAIN calls' = DOMAIN calls
         /\ \A m \in DOMAIN calls \ {n} : calls'[m] = calls[m]
         /\ calls'[n].instance = calls[n].instance /\ calls'[n].stage = calls[n].stage
         /\ calls'[n].tool = calls[n].tool
         /\ calls[n].at = "queued" => calls'[n].at = "cancelled"
         /\ calls[n].at # "queued" => calls'[n] = calls[n]
         /\ Collect(n, "timed_out", NoKind)
         /\ UNCHANGED <<config, main, stage, hashed, decision>> /\ UNCHANGED budgets
<1> DEFINE new == [calls[n] EXCEPT !.at = IF calls[n].at = "queued" THEN "cancelled" ELSE calls[n].at]
<1>1. n \in Awaited /\ calls[n].at \in Running \cup {"queued"}
  BY DEF TimeOut, MayTimeOut
<1>2. n = Len(results) + 1
  BY <1>1, AwaitedIs
<1>3. calls[n] \in Call /\ calls \in Seq(Call) /\ DOMAIN calls = 1..Len(calls)
  BY Sizes DEF TypeOK
<1>4. /\ new \in Call /\ new.instance = calls[n].instance /\ new.stage = calls[n].stage
      /\ new.tool = calls[n].tool
      /\ new.at = IF calls[n].at = "queued" THEN "cancelled" ELSE calls[n].at
  BY <1>3 DEF Call
<1>5. calls[n].at # "queued" => new = calls[n]
  BY <1>3 DEF Call
<1>6. calls' = [calls EXCEPT ![n] = new]
  BY DEF TimeOut
<1> HIDE DEF new
<1>7. calls' \in Seq(Call) /\ Len(calls') = Len(calls)
  BY <1>3, <1>4, <1>6, ExceptSeq
<1>8. /\ DOMAIN calls' = DOMAIN calls /\ calls'[n] = new
      /\ \A m \in DOMAIN calls \ {n} : calls'[m] = calls[m]
  BY <1>3, <1>6
<1> QED BY <1>1, <1>2, <1>4, <1>5, <1>7, <1>8 DEF TimeOut

\* A batch is over when all its calls, and so all calls, have their result.
LEMMA BatchOver ==
  ASSUME TypeOK, BatchesInv, NextBatch
  PROVE  Len(results) = Len(calls)
<1>1. PICK b \in Nat : Split(b)
  BY DEF BatchesInv
<1>2. Len(results) <= Len(calls) /\ Len(calls) <= b + Len(Members)
  BY <1>1 DEF BatchesInv, Split
<1>3. Collected = Len(results) - b /\ Collected = Len(Members)
  BY <1>1, <1>2, SplitCounts DEF NextBatch
<1>4. Len(calls) \in Nat /\ Len(results) \in Nat /\ Len(Members) \in Nat
  BY Sizes, MembersIs DEF TypeOK
<1> QED BY <1>1, <1>2, <1>3, <1>4

\* The end of the run changes nothing that was collected.
Closing ==
    /\ main # "batch" /\ main' # "batch" /\ main' # "aggregate"
    /\ UNCHANGED <<config, stage, calls, results>> /\ UNCHANGED budgets

\* What each of the last three steps is one of.
LEMMA ClosingIs ==
  ASSUME Resolve \/ Close \/ WriteManifest
  PROVE  Closing
BY DEF Resolve, Close, WriteManifest, Closing

-----------------------------------------------------------------------------
(***************************************************************************)
(* The latest results and the decision.                                    *)
(***************************************************************************)
Own(i) == {n \in DOMAIN results : results[n].instance = i}

\* The latest result of an instance is the one after which it has no other.
LEMMA LatestIs ==
  ASSUME TypeOK, NEW i
  PROVE  /\ Own(i) = {} => Latest(i) = NoKind
         /\ \A n \in Own(i) : (\A m \in Own(i) : m <= n) => Latest(i) = results[n].kind
         /\ Own(i) # {} => \E n \in Own(i) : \A m \in Own(i) : m <= n
<1>1. DOMAIN results = 1..Len(results) /\ Len(results) \in Nat
  BY Sizes
<1>2. Own(i) \in SUBSET (1..Len(results))
  BY <1>1 DEF Own
<1>3. Own(i) \in SUBSET (0..Len(results)) /\ Own(i) \in SUBSET Nat
  BY <1>1, <1>2
<1>4. ASSUME NEW n \in Own(i), \A m \in Own(i) : m <= n
      PROVE  Latest(i) = results[n].kind
  <2>1. \A x \in Own(i) : (\A y \in Own(i) : x >= y) => x = n
    BY <1>3, <1>4
  <2>2. \A y \in Own(i) : n >= y
    BY <1>3, <1>4
  <2>3. Max(Own(i)) = n
    BY <2>1, <2>2, <1>4 DEF Max
  <2> QED BY <1>4, <2>3 DEF Latest, Own
<1>5. Own(i) = {} => Latest(i) = NoKind
  BY DEF Latest, Own
<1> QED BY <1>1, <1>3, <1>4, <1>5, LargestUpTo

\* What the policies are given.
LEMMA LatestType ==
  ASSUME TypeOK
  PROVE  LatestKinds \in [Team -> Kinds \cup {NoKind}]
<1> SUFFICES ASSUME NEW i \in Team PROVE Latest(i) \in Kinds \cup {NoKind}
  BY DEF LatestKinds
<1>1. CASE Own(i) = {}
  BY <1>1, LatestIs
<1>2. CASE Own(i) # {}
  <2>1. PICK n \in Own(i) : Latest(i) = results[n].kind
    BY <1>2, LatestIs
  <2>2. results[n] \in Result
    BY Sizes DEF Own
  <2> QED BY <2>1, <2>2 DEF Result
<1> QED BY <1>1, <1>2

\* What the team decides when its topology is through.
LEMMA Decided ==
  ASSUME TypeOK
  PROVE  LET d == Aggregate(LatestKinds, config.policy, Quorum, Weight, config.judge)
         IN  /\ d \in Kinds
             /\ d # "reject" => /\ d \in KindsOf(LatestKinds)
                                /\ QuorumReached(LatestKinds, Quorum)
             /\ config.policy = "most_conservative" =>
                   \A k \in KindsOf(LatestKinds) : Conservative[d] >= Conservative[k]
<1>1. /\ IsFiniteSet(Team) /\ config.judge \in Team /\ config.policy \in Policies
      /\ Team \in SUBSET Instances
  BY TeamIs DEF TypeOK
<1>2. Team # {}
  BY <1>1
<1>3. /\ Quorum \in 1..100 /\ \A i \in Instances : Weight[i] \in Nat
  BY TeamAssumption
<1>4. \A i \in Team : Weight[i] \in Nat
  BY <1>1, <1>3
<1> QED BY <1>1, <1>2, <1>3, <1>4, LatestType, AggregateBacked

-----------------------------------------------------------------------------
(***************************************************************************)
(* The conjuncts of the invariant, step by step.                           *)
(***************************************************************************)
LEMMA TypesStep ==
  ASSUME TypeOK, BatchesInv, CallsInv, [Next]_vars
  PROVE  TypeOK'
<1>1. /\ config \in Configs /\ stage \in DOMAIN Schedule
      /\ main \in {"batch", "aggregate", "close", "manifest", "done", "raised"}
      /\ calls \in Seq(Call) /\ results \in Seq(Result)
      /\ used \in [Instances -> Nat] /\ expensive \in [Instances -> Nat]
      /\ estimated \in [Instances -> BOOLEAN]
      /\ hashed \subseteq Instances /\ decision \in Kinds \cup {NoKind}
  BY DEF TypeOK
<1>2. config' = config => Schedule' = Schedule
  BY ScheduleStays
<1>3. CASE Submit
  <2>1. calls' \in Seq(Call)
    BY <1>3, SubmitIs
  <2> QED BY <1>1, <1>2, <1>3, <2>1 DEF Submit, TypeOK, budgets
<1>4. ASSUME NEW n \in DOMAIN calls, Receive(n) PROVE TypeOK'
  <2>1. Appended(n, calls[n].status, calls[n].kind)
    BY <1>4, ReceiveIs, CollectIs
  <2>2. results' \in Seq(Result)
    BY <2>1 DEF Appended
  <2> QED BY <1>1, <1>2, <1>4, <2>2 DEF Receive, TypeOK, budgets
<1>5. ASSUME NEW n \in DOMAIN calls, TimeOut(n) PROVE TypeOK'
  <2>1. calls' \in Seq(Call) /\ Collect(n, "timed_out", NoKind) /\ n = Len(results) + 1
    BY <1>5, TimeOutIs
  <2>2. results' \in Seq(Result)
    BY <2>1, CollectIs DEF Statuses, Appended
  <2> QED BY <1>1, <1>2, <1>5, <2>1, <2>2 DEF TimeOut, TypeOK, budgets
<1>6. CASE NextBatch
  <2>1. /\ UNCHANGED <<config, calls, results, hashed, decision>> /\ UNCHANGED budgets
        /\ IF stage < Len(Schedule) THEN stage' = stage + 1 /\ main' = main
                                    ELSE stage' = stage /\ main' = "aggregate"
    BY <1>6 DEF NextBatch
  <2>2. stage' \in 1..Len(Schedule) /\ DOMAIN Schedule = 1..Len(Schedule)
    <3>1. Len(Schedule) \in Nat /\ stage \in 1..Len(Schedule)
      BY <1>1, ScheduleIs
    <3> QED BY <1>1, <2>1, <3>1, ScheduleIs
  <2> QED BY <1>1, <1>2, <2>1, <2>2 DEF TypeOK, budgets
<1>7. CASE Resolve
  <2>1. decision' = Aggregate(LatestKinds, config.policy, Quorum, Weight, config.judge)
    BY <1>7 DEF Resolve, LatestKinds, Team
  <2>2. decision' \in Kinds
    BY <2>1, Decided
  <2> QED BY <1>1, <1>2, <1>7, <2>2 DEF Resolve, TypeOK, budgets
<1>8. CASE Close
  BY <1>1, <1>2, <1>8 DEF Close, TypeOK, budgets
<1>9. CASE WriteManifest
  BY <1>1, <1>2, <1>9 DEF WriteManifest, TypeOK, budgets
<1>10. ASSUME NEW n \in DOMAIN calls, Start(n) \/ CallStep(n) PROVE TypeOK'
  <2>1. Moves(n) /\ (Quiet(n) \/ PassChecks(n) \/ Charge(n) \/ HandlerEnds(n))
    BY <1>10, ThreadMoves
  <2>2. calls[n].instance \in Instances
    BY Sizes, CallFields
  <2>3. /\ used' \in [Instances -> Nat] /\ expensive' \in [Instances -> Nat]
        /\ estimated' \in [Instances -> BOOLEAN]
    <3>1. CASE Quiet(n) \/ PassChecks(n)
      BY <1>1, <3>1 DEF Quiet, PassChecks, budgets
    <3>2. CASE Charge(n)
      BY <1>1, <2>2, <3>2 DEF Charge
    <3>3. CASE HandlerEnds(n)
      <4>1. estimated' \in [Instances -> BOOLEAN]
        BY <1>1, <3>3 DEF HandlerEnds
      <4> QED BY <1>1, <3>3, <4>1 DEF HandlerEnds
    <3> QED BY <2>1, <3>1, <3>2, <3>3
  <2>4. hashed' \subseteq Instances
    BY <1>1, <2>1 DEF Moves
  <2> QED BY <1>1, <1>2, <2>1, <2>3, <2>4 DEF Moves, TypeOK
<1>11. CASE UNCHANGED vars
  BY <1>1, <1>2, <1>11 DEF vars, TypeOK
<1> QED BY <1>3, <1>4, <1>5, <1>6, <1>7, <1>8, <1>9, <1>10, <1>11 DEF Next, TeamStep, PoolStep

\* Whatever moves, the calls stay those of the members in their order.
LEMMA SplitKept ==
  ASSUME TypeOK, BatchesInv, config' = config, stage' = stage,
         Len(results') \in Nat, Len(results) <= Len(results'), Len(results') <= Len(calls'),
         Len(calls') = Len(calls), DOMAIN calls' = DOMAIN calls,
         \A n \in DOMAIN calls : /\ calls'[n].instance = calls[n].instance
                                 /\ calls'[n].stage = calls[n].stage,
         main' # "batch" => Len(results') = Len(calls')
  PROVE  BatchesInv'
<1>1. PICK b \in Nat : Split(b)
  BY DEF BatchesInv
<1>2. Members' = Members /\ Team' = Team
  BY MembersStay
<1>3. b \in 0..Len(results')
  BY <1>1, Sizes DEF Split
<1>4. Split(b)'
  BY <1>1, <1>2, <1>3 DEF Split
<1> QED BY <1>2, <1>4 DEF BatchesInv

\* Batches are submitted and answered in order.
LEMMA BatchesStep ==
  ASSUME TypeOK, BatchesInv, CallsInv, [Next]_vars
  PROVE  BatchesInv'
<1>0. /\ DOMAIN calls = 1..Len(calls) /\ Len(calls) \in Nat
      /\ DOMAIN results = 1..Len(results) /\ Len(results) \in Nat
      /\ Len(results) <= Len(calls) /\ (main # "batch" => Len(results) = Len(calls))
  BY Sizes DEF BatchesInv
<1> DEFINE N == Len(calls)
           R == Len(results)
<1>00. R \in 0..N /\ R <= R /\ R <= N /\ R \in Nat
  <2>1. R \in Nat /\ N \in Nat /\ R <= N
    BY <1>0
  <2> HIDE DEF R, N
  <2> QED BY <2>1
<1>1. CASE Submit
  <2>1. PICK b \in Nat : Split(b)
    BY DEF BatchesInv
  <2>2. /\ calls' \in Seq(Call) /\ Len(calls') = Len(calls) + 1
        /\ DOMAIN calls' = DOMAIN calls \cup {Len(calls) + 1}
        /\ \A n \in DOMAIN calls : calls'[n] = calls[n]
        /\ calls'[Len(calls) + 1] = Queued(Members[Submitted + 1])
        /\ Submitted + 1 \in DOMAIN Members
    BY <1>1, SubmitIs
  <2>3. main = "batch" /\ main' = main /\ config' = config /\ stage' = stage /\ results' = results
    BY <1>1 DEF Submit
  <2>4. Members' = Members /\ Team' = Team
    BY <2>3, MembersStay
  <2>5. Submitted = Len(calls) - b
    BY <1>0, <2>1, SplitCounts
  <2>6. /\ DOMAIN Members = 1..Len(Members) /\ Len(Members) \in Nat
        /\ \A k \in 1..Len(Members) : Members[k] \in Team
    BY MembersIs DEF TypeOK
  <2>7. b \in 0..Len(results) /\ Len(calls) - b + 1 <= Len(Members)
    BY <2>1, <2>2, <2>5, <2>6 DEF Split
  <2>8. /\ calls'[Len(calls) + 1].stage = stage
        /\ calls'[Len(calls) + 1].instance = Members[(Len(calls) + 1) - b]
        /\ Members[(Len(calls) + 1) - b] \in Team
    <3>1. Submitted + 1 = (Len(calls) + 1) - b
      <4>1. \A p \in Nat : (p - b) + 1 = (p + 1) - b
        OBVIOUS
      <4> QED BY <1>0, <2>5, <4>1
    <3>2. Members[Submitted + 1] \in Team
      BY <2>2, <2>6
    <3>3. calls'[Len(calls) + 1] = Queued(Members[(Len(calls) + 1) - b])
      BY <2>2, <3>1
    <3> QED BY <3>1, <3>2, <3>3 DEF Queued
  <2>9. Len(calls') <= b + Len(Members)
    <3>1. \A p, q \in Nat : p - b + 1 <= q => p + 1 <= b + q
      OBVIOUS
    <3>2. Len(calls) + 1 <= b + Len(Members)
      BY <1>0, <2>6, <2>7, <3>1
    <3> QED BY <2>2, <3>2
  <2>10. ASSUME NEW n \in DOMAIN calls'
         PROVE  IF n <= b THEN calls'[n].stage < stage
                ELSE calls'[n].stage = stage /\ calls'[n].instance = Members[n - b]
    <3>1. CASE n \in DOMAIN calls
      BY <2>1, <2>2, <3>1 DEF Split
    <3>2. CASE n = Len(calls) + 1
      <4>1. \A p, q \in Nat : q \in 0..p /\ b \in 0..q => ~(p + 1 <= b)
        OBVIOUS
      <4>2. Len(results) \in 0..Len(calls)
        BY <1>00
      <4>3. ~(n <= b)
        BY <1>0, <2>7, <3>2, <4>1, <4>2
      <4> QED BY <2>8, <3>2, <4>3
    <3> QED BY <2>2, <3>1, <3>2
  <2>11. Split(b)'
    BY <2>3, <2>4, <2>7, <2>9, <2>10 DEF Split
  <2>12. \A n \in DOMAIN calls' : calls'[n].instance \in Team'
    BY <2>2, <2>4, <2>8 DEF BatchesInv
  <2>13. Len(results') <= Len(calls')
    BY <1>0, <2>2, <2>3
  <2> QED BY <2>3, <2>11, <2>12, <2>13 DEF BatchesInv
<1>2. ASSUME NEW n \in DOMAIN calls, Receive(n) PROVE BatchesInv'
  <2>1. /\ n = Len(results) + 1 /\ calls[n].status \in Statuses
        /\ calls[n].kind \in Kinds \cup {NoKind}
        /\ Collect(n, calls[n].status, calls[n].kind)
        /\ config' = config /\ main' = main /\ stage' = stage /\ calls' = calls
    BY <1>2, ReceiveIs
  <2>2. Len(results') = Len(results) + 1 /\ main = "batch"
    BY <1>2, <2>1, CollectIs DEF Receive, Appended
  <2>3. /\ Len(results') \in Nat /\ Len(results) <= Len(results') /\ Len(results') <= Len(calls')
    BY <1>0, <2>1, <2>2
  <2> QED BY <2>1, <2>2, <2>3, SplitKept
<1>3. ASSUME NEW n \in DOMAIN calls, TimeOut(n) PROVE BatchesInv'
  <2>1. /\ n = Len(results) + 1 /\ Collect(n, "timed_out", NoKind)
        /\ config' = config /\ main' = main /\ stage' = stage
        /\ Len(calls') = Len(calls) /\ DOMAIN calls' = DOMAIN calls
        /\ \A m \in DOMAIN calls \ {n} : calls'[m] = calls[m]
        /\ calls'[n].instance = calls[n].instance /\ calls'[n].stage = calls[n].stage
    BY <1>3, TimeOutIs
  <2>2. Len(results') = Len(results) + 1 /\ main = "batch"
    BY <1>3, <2>1, CollectIs DEF TimeOut, Statuses, Appended
  <2>3. /\ Len(results') \in Nat /\ Len(results) <= Len(results') /\ Len(results') <= Len(calls')
    BY <1>0, <2>1, <2>2
  <2>4. \A m \in DOMAIN calls : /\ calls'[m].instance = calls[m].instance
                                /\ calls'[m].stage = calls[m].stage
    BY <2>1
  <2> QED BY <2>1, <2>2, <2>3, <2>4, SplitKept
<1>4. CASE NextBatch
  <2>1. /\ UNCHANGED <<config, calls, results>>
        /\ IF stage < Len(Schedule) THEN stage' = stage + 1 /\ main' = main
                                    ELSE stage' = stage /\ main' = "aggregate"
    BY <1>4 DEF NextBatch
  <2>2. Len(results) = Len(calls)
    BY <1>4, BatchOver
  <2>3. CASE ~(stage < Len(Schedule))
    BY <1>0, <2>1, <2>2, <2>3, SplitKept
  <2>4. CASE stage < Len(Schedule)
    <3>1. TypeOK' /\ Team' = Team
      BY <2>1, TypesStep, ScheduleStays
    <3>2. /\ stage \in Nat \ {0} /\ Len(Schedule) \in Nat
      BY MembersIs DEF TypeOK
    <3>3. Len(Members') \in Nat
      <4>1. Members' = Schedule[stage + 1].members
        BY <2>1, <2>4, ScheduleStays DEF Members
      <4>2. stage + 1 \in 1..Len(Schedule)
        BY <2>4, <3>2
      <4>3. Schedule[stage + 1] \in BatchSet
        BY <4>2, ScheduleIs, ElementOfSeq DEF TypeOK
      <4>4. Members' \in Seq(Team)
        BY <4>1, <4>3 DEF BatchSet
      <4> QED BY <4>4, LenProperties
    <3>4. \A n \in DOMAIN calls : calls[n].stage <= stage
      <4>1. PICK b \in Nat : Split(b)
        BY DEF BatchesInv
      <4>2. \A n \in DOMAIN calls : calls[n].stage \in Nat
        BY Sizes, CallFields
      <4>3. \A n \in DOMAIN calls : calls[n].stage < stage \/ calls[n].stage = stage
        BY <4>1 DEF Split
      <4> QED BY <3>2, <4>2, <4>3
    <3>5. \A n \in DOMAIN calls : n <= Len(results) /\ calls[n].stage < stage'
      <4>1. \A n \in DOMAIN calls : calls[n].stage \in Nat
        BY Sizes, CallFields
      <4>2. \A n \in DOMAIN calls : calls[n].stage < stage + 1
        BY <3>2, <3>4, <4>1
      <4> QED BY <1>0, <2>1, <2>2, <2>4, <4>2
    <3>6. Len(calls') <= Len(results') + Len(Members')
      BY <1>0, <2>1, <2>2, <3>3
    <3>7. PICK b \in Nat : b = Len(results)
      BY <1>0
    <3>8. b \in 0..Len(results') /\ Len(calls') <= b + Len(Members')
      BY <2>1, <3>6, <3>7
    <3>9. Split(b)'
      BY <2>1, <3>5, <3>7, <3>8 DEF Split
    <3>10. \A n \in DOMAIN calls' : calls'[n].instance \in Team'
      BY <2>1, <3>1 DEF BatchesInv
    <3>11. Len(results') <= Len(calls') /\ Len(results') = Len(calls')
      BY <1>0, <2>1, <2>2
    <3> QED BY <3>9, <3>10, <3>11 DEF BatchesInv
  <2> QED BY <2>3, <2>4
<1>5. CASE Resolve \/ Close \/ WriteManifest
  <2>1. Closing
    BY <1>5, ClosingIs
  <2> QED BY <1>0, <2>1, SplitKept DEF Closing
<1>6. ASSUME NEW n \in DOMAIN calls, Start(n) \/ CallStep(n) PROVE BatchesInv'
  <2>1. Moves(n)
    BY <1>6, ThreadMoves
  <2>2. \A m \in DOMAIN calls : /\ calls'[m].instance = calls[m].instance
                                /\ calls'[m].stage = calls[m].stage
    BY <2>1 DEF Moves
  <2>3. /\ config' = config /\ main' = main /\ stage' = stage /\ results' = results
        /\ Len(calls') = Len(calls) /\ DOMAIN calls' = DOMAIN calls
    BY <2>1 DEF Moves
  <2>4. Len(results') \in Nat /\ Len(results) <= Len(results') /\ Len(results') <= Len(calls')
    BY <1>00, <2>3
  <2> QED BY <1>0, <2>2, <2>3, <2>4, SplitKept
<1>7. CASE UNCHANGED vars
  <2>1. /\ config' = config /\ main' = main /\ stage' = stage /\ results' = results
        /\ calls' = calls
    BY <1>7 DEF vars
  <2>2. Len(results') \in Nat /\ Len(results) <= Len(results') /\ Len(results') <= Len(calls')
    BY <1>00, <2>1
  <2> QED BY <1>0, <2>1, <2>2, SplitKept
<1> QED BY <1>1, <1>2, <1>3, <1>4, <1>5, <1>6, <1>7 DEF Next, TeamStep, PoolStep

\* A result has its call.
LEMMA HasCall ==
  ASSUME TypeOK, BatchesInv
  PROVE  DOMAIN results \subseteq DOMAIN calls
<1> DEFINE N == Len(calls)
           R == Len(results)
<1>1. R \in Nat /\ N \in Nat /\ R <= N
  BY Sizes DEF BatchesInv
<1> HIDE DEF N, R
<1>2. 1..R \subseteq 1..N
  BY <1>1
<1> QED BY <1>2, Sizes DEF N, R

\* A call with a result is over or was given up.
LEMMA CallsStep ==
  ASSUME TypeOK, BatchesInv, CallsInv, [Next]_vars
  PROVE  CallsInv'
<1>0. DOMAIN results \subseteq DOMAIN calls /\ Len(calls) + 1 \notin DOMAIN calls
  BY HasCall, Sizes
<1>1. CASE UNCHANGED <<calls, results>>
  BY <1>1 DEF CallsInv, Answered, OwnAnswer
<1>2. CASE Submit
  <2>1. /\ DOMAIN calls' = DOMAIN calls \cup {Len(calls) + 1}
        /\ \A n \in DOMAIN calls : calls'[n] = calls[n]
        /\ calls'[Len(calls) + 1].at = "queued"
        /\ results' = results
    BY <1>2, SubmitIs DEF Submit, Queued
  <2>2. ASSUME NEW n \in DOMAIN calls'
        PROVE  /\ calls'[n].at = "done" => Answered(calls'[n])
               /\ calls'[n].at = "queued" => n \notin DOMAIN results'
               /\ calls'[n].at = "cancelled" => n \in DOMAIN results'
               /\ calls'[n].at \in {"charge", "handler"} => calls'[n].tool \in ToolNames
    <3>1. CASE n \in DOMAIN calls
      BY <2>1, <3>1 DEF CallsInv
    <3>2. CASE n = Len(calls) + 1
      BY <1>0, <2>1, <3>2
    <3> QED BY <2>1, <3>1, <3>2
  <2>3. ASSUME NEW n \in DOMAIN results'
        PROVE  results'[n].instance = calls'[n].instance /\ OwnAnswer(n)'
    <3>1. n \in DOMAIN results /\ calls'[n] = calls[n] /\ results'[n] = results[n]
      BY <1>0, <2>1
    <3> QED BY <3>1 DEF CallsInv, OwnAnswer
  <2> QED BY <2>2, <2>3 DEF CallsInv, Answered
<1>3. ASSUME NEW n \in DOMAIN calls, Receive(n) PROVE CallsInv'
  <2>1. /\ n = Len(results) + 1 /\ calls[n].at = "done"
        /\ calls[n].status \in Statuses /\ calls[n].kind \in Kinds \cup {NoKind}
        /\ Collect(n, calls[n].status, calls[n].kind) /\ calls' = calls
    BY <1>3, ReceiveIs
  <2>2. /\ DOMAIN results' = DOMAIN results \cup {n}
        /\ \A m \in DOMAIN results : results'[m] = results[m]
        /\ results'[n].instance = calls[n].instance
        /\ results'[n].status = calls[n].status /\ results'[n].kind = calls[n].kind
    <3>1. Appended(n, calls[n].status, calls[n].kind)
      BY <2>1, CollectIs
    <3> QED BY <3>1 DEF Appended
  <2>3. ASSUME NEW m \in DOMAIN calls'
        PROVE  /\ calls'[m].at = "done" => Answered(calls'[m])
               /\ calls'[m].at = "queued" => m \notin DOMAIN results'
               /\ calls'[m].at = "cancelled" => m \in DOMAIN results'
               /\ calls'[m].at \in {"charge", "handler"} => calls'[m].tool \in ToolNames
    <3>1. /\ calls'[m] = calls[m] /\ m \in DOMAIN calls
          /\ m \in DOMAIN results => m \in DOMAIN results'
      BY <2>1, <2>2
    <3>2. calls[m].at = "queued" => m # n
      BY <2>1
    <3>3. calls[m].at = "queued" => m \notin DOMAIN results'
      BY <2>2, <3>1, <3>2 DEF CallsInv
    <3> QED BY <3>1, <3>3 DEF CallsInv
  <2>4. ASSUME NEW m \in DOMAIN results'
        PROVE  results'[m].instance = calls'[m].instance /\ OwnAnswer(m)'
    <3>1. CASE m \in DOMAIN results
      BY <2>1, <2>2, <3>1 DEF CallsInv, OwnAnswer
    <3>2. CASE m = n
      BY <2>1, <2>2, <3>2 DEF OwnAnswer
    <3> QED BY <2>2, <3>1, <3>2
  <2> QED BY <2>3, <2>4 DEF CallsInv, Answered
<1>4. ASSUME NEW n \in DOMAIN calls, TimeOut(n) PROVE CallsInv'
  <2>1. /\ n = Len(results) + 1 /\ calls[n].at \in Running \cup {"queued"}
        /\ DOMAIN calls' = DOMAIN calls
        /\ \A m \in DOMAIN calls \ {n} : calls'[m] = calls[m]
        /\ calls'[n].instance = calls[n].instance
        /\ calls[n].at = "queued" => calls'[n].at = "cancelled"
        /\ calls[n].at # "queued" => calls'[n] = calls[n]
        /\ Collect(n, "timed_out", NoKind)
    BY <1>4, TimeOutIs
  <2>2. /\ DOMAIN results' = DOMAIN results \cup {n}
        /\ \A m \in DOMAIN results : results'[m] = results[m]
        /\ results'[n].instance = calls[n].instance
        /\ results'[n].status = "timed_out" /\ results'[n].kind = NoKind
    <3>1. Appended(n, "timed_out", NoKind)
      BY <2>1, CollectIs DEF Statuses
    <3> QED BY <3>1 DEF Appended
  <2>3. n \notin DOMAIN results
    BY <1>4, AwaitedIs DEF TimeOut
  <2>4. ASSUME NEW m \in DOMAIN calls'
        PROVE  /\ calls'[m].at = "done" => Answered(calls'[m])
               /\ calls'[m].at = "queued" => m \notin DOMAIN results'
               /\ calls'[m].at = "cancelled" => m \in DOMAIN results'
               /\ calls'[m].at \in {"charge", "handler"} => calls'[m].tool \in ToolNames
    <3>1. CASE m # n
      BY <2>1, <2>2, <3>1 DEF CallsInv
    <3>2. CASE m = n /\ calls[n].at = "queued"
      BY <2>1, <2>2, <3>2
    <3>3. CASE m = n /\ calls[n].at # "queued"
      <4>1. calls'[m] = calls[m] /\ calls[m].at # "queued" /\ m \in DOMAIN results'
        BY <2>1, <2>2, <3>3
      <4> QED BY <2>1, <4>1 DEF CallsInv
    <3> QED BY <3>1, <3>2, <3>3
  <2>5. ASSUME NEW m \in DOMAIN results'
        PROVE  results'[m].instance = calls'[m].instance /\ OwnAnswer(m)'
    <3>1. CASE m = n
      BY <2>1, <2>2, <3>1 DEF OwnAnswer
    <3>2. CASE m # n
      <4>1. m \in DOMAIN results /\ results'[m] = results[m] /\ calls'[m] = calls[m]
        BY <1>0, <2>1, <2>2, <3>2
      <4> QED BY <4>1 DEF CallsInv, OwnAnswer
    <3> QED BY <3>1, <3>2
  <2> QED BY <2>4, <2>5 DEF CallsInv, Answered
<1>5. ASSUME NEW n \in DOMAIN calls, Start(n) \/ CallStep(n) PROVE CallsInv'
  <2>1. Moves(n)
    BY <1>5, ThreadMoves
  <2>2. /\ DOMAIN calls' = DOMAIN calls /\ results' = results
        /\ \A m \in DOMAIN calls \ {n} : calls'[m] = calls[m]
        /\ calls[n].at # "done" /\ calls'[n].at \notin {"queued", "cancelled"}
        /\ calls'[n].instance = calls[n].instance
    BY <2>1 DEF Moves, Running
  <2>3. ASSUME NEW m \in DOMAIN calls'
        PROVE  /\ calls'[m].at = "done" => Answered(calls'[m])
               /\ calls'[m].at = "queued" => m \notin DOMAIN results'
               /\ calls'[m].at = "cancelled" => m \in DOMAIN results'
               /\ calls'[m].at \in {"charge", "handler"} => calls'[m].tool \in ToolNames
    <3>1. CASE m # n
      BY <2>2, <3>1 DEF CallsInv
    <3>2. CASE m = n
      BY <2>1, <2>2, <3>2 DEF Moves
    <3> QED BY <3>1, <3>2
  <2>4. ASSUME NEW m \in DOMAIN results'
        PROVE  results'[m].instance = calls'[m].instance /\ OwnAnswer(m)'
    <3>1. CASE m # n
      <4>1. m \in DOMAIN calls \ {n} /\ calls'[m] = calls[m] /\ results'[m] = results[m]
        BY <1>0, <2>2, <3>1
      <4> QED BY <2>2, <4>1 DEF CallsInv, OwnAnswer
    <3>2. CASE m = n
      BY <2>2, <3>2 DEF CallsInv, OwnAnswer
    <3> QED BY <3>1, <3>2
  <2> QED BY <2>3, <2>4 DEF CallsInv, Answered
<1>6. CASE NextBatch
  BY <1>1, <1>6 DEF NextBatch
<1>7. CASE Resolve \/ Close \/ WriteManifest
  BY <1>1, <1>7, ClosingIs DEF Closing
<1>8. CASE UNCHANGED vars
  BY <1>1, <1>8 DEF vars
<1> QED BY <1>2, <1>3, <1>4, <1>5, <1>6, <1>7, <1>8 DEF Next, TeamStep, PoolStep

\* The decision is the one of the policy, and stays.
LEMMA DecisionStep ==
  ASSUME TypeOK, BatchesInv, CallsInv, DecisionInv, [Next]_vars
  PROVE  DecisionInv'
<1>1. ASSUME UNCHANGED <<config, results, decision>>,
             main' = main \/ (main \in {"batch", "aggregate"} /\ main' = "aggregate")
             \/ (main = "close" /\ main' \in {"manifest", "raised"})
             \/ (main = "manifest" /\ main' = "done")
      PROVE  DecisionInv'
  <2>1. LatestKinds' = LatestKinds
    BY <1>1 DEF LatestKinds, Latest, Team
  <2>2. decision' = decision /\ config' = config
    BY <1>1
  <2>3. main' \in {"batch", "aggregate"} <=> main \in {"batch", "aggregate"}
    BY <1>1
  <2> QED BY <2>1, <2>2, <2>3 DEF DecisionInv
<1>2. CASE Resolve
  <2>1. decision' = Aggregate(LatestKinds, config.policy, Quorum, Weight, config.judge)
    BY <1>2 DEF Resolve, LatestKinds, Team
  <2>2. main' = "close" /\ config' = config /\ results' = results
    BY <1>2 DEF Resolve
  <2>3. LatestKinds' = LatestKinds
    BY <2>2 DEF LatestKinds, Latest, Team
  <2> QED BY <2>1, <2>2, <2>3 DEF DecisionInv
<1>3. ASSUME main = "batch", main' = main, decision' = decision PROVE DecisionInv'
  BY <1>3 DEF DecisionInv
<1>4. CASE Submit
  BY <1>3, <1>4 DEF Submit
<1>5. ASSUME NEW n \in DOMAIN calls, Receive(n) \/ TimeOut(n) PROVE DecisionInv'
  BY <1>3, <1>5 DEF Receive, TimeOut
<1>6. CASE NextBatch
  <2>1. /\ UNCHANGED <<config, results, decision>> /\ main = "batch"
        /\ main' = main \/ main' = "aggregate"
    BY <1>6 DEF NextBatch
  <2> QED BY <1>1, <2>1
<1>7. CASE Close
  BY <1>1, <1>7 DEF Close
<1>8. CASE WriteManifest
  BY <1>1, <1>8 DEF WriteManifest
<1>9. ASSUME NEW n \in DOMAIN calls, Start(n) \/ CallStep(n) PROVE DecisionInv'
  <2>1. Moves(n)
    BY <1>9, ThreadMoves
  <2> QED BY <1>1, <2>1 DEF Moves
<1>10. CASE UNCHANGED vars
  BY <1>1, <1>10 DEF vars
<1> QED BY <1>2, <1>4, <1>5, <1>6, <1>7, <1>8, <1>9, <1>10 DEF Next, TeamStep, PoolStep

-----------------------------------------------------------------------------
(***************************************************************************)
(* The budgets.                                                            *)
(***************************************************************************)
LEMMA FiniteCalls ==
  ASSUME TypeOK, NEW i
  PROVE  /\ IsFiniteSet(DOMAIN calls) /\ IsFiniteSet(DOMAIN results)
         /\ IsFiniteSet(Late(i)) /\ IsFiniteSet(Charging(i)) /\ IsFiniteSet(Spending(i))
         /\ Cardinality(Late(i)) \in Nat /\ Cardinality(Charging(i)) \in Nat
         /\ Cardinality(Spending(i)) \in Nat
<1>1. IsFiniteSet(DOMAIN calls) /\ IsFiniteSet(DOMAIN results)
  BY Sizes, FS_Interval
<1>2. IsFiniteSet(Late(i)) /\ IsFiniteSet(Charging(i))
  BY <1>1, FS_Subset DEF Late, Charging
<1>3. IsFiniteSet(Spending(i))
  BY <1>2, FS_Subset DEF Spending
<1> QED BY <1>1, <1>2, <1>3, FS_CardinalityType

\* An instance has one thread at work that was not given up.
LEMMA OneAtWork ==
  ASSUME TypeOK, BatchesInv, CallsInv, NEW i,
         NEW m \in DOMAIN calls, NEW n \in DOMAIN calls,
         calls[m].instance = i, calls[n].instance = i,
         calls[m].at \in Running, calls[n].at \in Running, m \notin Late(i), n \notin Late(i)
  PROVE  m = n
<1>1. ASSUME NEW p \in DOMAIN calls, calls[p].instance = i, calls[p].at \in Running,
             p \notin Late(i)
      PROVE  p \notin DOMAIN results
  <2> SUFFICES ASSUME p \in DOMAIN results PROVE FALSE
    OBVIOUS
  <2>1. results[p].instance = i /\ OwnAnswer(p)
    BY <1>1 DEF CallsInv
  <2>2. calls[p].at # "done" /\ calls[p].at # "cancelled"
    BY <1>1 DEF Running
  <2> QED BY <1>1, <2>1, <2>2 DEF OwnAnswer, Late
<1>2. PICK b \in Nat : Split(b)
  BY DEF BatchesInv
<1>3. /\ DOMAIN calls = 1..Len(calls) /\ Len(calls) \in Nat
      /\ DOMAIN results = 1..Len(results) /\ Len(results) \in Nat
      /\ b \in 0..Len(results)
  BY <1>2, Sizes DEF Split
<1>4. ASSUME NEW p \in DOMAIN calls, p \notin DOMAIN results
      PROVE  ~(p <= b)
  BY <1>3, <1>4
<1>5. ~(m <= b) /\ ~(n <= b)
  BY <1>1, <1>4
<1>6. Members[m - b] = i /\ Members[n - b] = i
  BY <1>2, <1>5 DEF Split
<1>7. Len(calls) <= b + Len(Members) /\ DOMAIN Members = 1..Len(Members)
      /\ Len(Members) \in Nat /\ Distinct(Members)
  BY <1>2, MembersIs DEF Split, TypeOK
<1>8. ASSUME NEW p \in DOMAIN calls, ~(p <= b)
      PROVE  p \in Nat /\ p - b \in DOMAIN Members
  <2>1. p \in Nat /\ p >= 1 /\ p <= Len(calls)
    BY <1>3
  <2>2. \A q, r \in Nat : q <= r /\ p <= q /\ r = b + Len(Members) => p - b <= Len(Members)
    BY <1>7, <2>1
  <2>3. b + Len(Members) \in Nat
    BY <1>7
  <2>4. p - b <= Len(Members)
    BY <1>3, <1>7, <2>1, <2>2, <2>3
  <2>5. p - b >= 1 /\ p - b \in Int
    BY <1>8, <2>1
  <2> QED BY <1>7, <2>1, <2>4, <2>5
<1>9. m \in Nat /\ n \in Nat /\ m - b \in DOMAIN Members /\ n - b \in DOMAIN Members
  BY <1>5, <1>8
<1>10. m - b = n - b
  BY <1>6, <1>7, <1>9 DEF Distinct
<1> QED BY <1>9, <1>10

\* So there are at most one more at work than there are late ones.
LEMMA AtMostOneMore ==
  ASSUME TypeOK, BatchesInv, CallsInv, NEW i,
         NEW W \in SUBSET {n \in DOMAIN calls : calls[n].instance = i /\ calls[n].at \in Running}
  PROVE  IsFiniteSet(W) /\ Cardinality(W) \in Nat /\ Cardinality(W) <= Cardinality(Late(i)) + 1
<1>1. IsFiniteSet(Late(i)) /\ Cardinality(Late(i)) \in Nat /\ IsFiniteSet(DOMAIN calls)
  BY FiniteCalls
<1>2. IsFiniteSet(W) /\ Cardinality(W) \in Nat
  BY <1>1, FS_Subset, FS_CardinalityType
<1>3. CASE W \subseteq Late(i)
  <2>1. Cardinality(W) <= Cardinality(Late(i))
    BY <1>1, <1>3, FS_Subset
  <2> QED BY <1>1, <1>2, <2>1
<1>4. CASE ~(W \subseteq Late(i))
  <2>1. PICK m \in W : m \notin Late(i)
    BY <1>4
  <2>2. W \subseteq Late(i) \cup {m}
    BY <2>1, OneAtWork
  <2>3. IsFiniteSet(Late(i) \cup {m}) /\ Cardinality(Late(i) \cup {m}) = Cardinality(Late(i)) + 1
    BY <1>1, <2>1, FS_AddElement, Zenon
  <2>4. Cardinality(W) <= Cardinality(Late(i) \cup {m})
    BY <2>2, <2>3, FS_Subset
  <2> QED BY <1>2, <2>3, <2>4
<1> QED BY <1>3, <1>4

\* The late calls can be counted.
LEMMA LateCount ==
  ASSUME TypeOK, BatchesInv, CallsInv, [Next]_vars, NEW i
  PROVE  IsFiniteSet(Late(i)') /\ Cardinality(Late(i)') \in Nat
<1>1. calls' \in Seq(Call) /\ results' \in Seq(Result)
  BY TypesStep DEF TypeOK
<1>2. DOMAIN results' = 1..Len(results') /\ Len(results') \in Nat
  BY <1>1, LenProperties
<1>3. IsFiniteSet(DOMAIN results')
  BY <1>2, FS_Interval
<1>4. IsFiniteSet(Late(i)')
  BY <1>3, FS_Subset DEF Late
<1> QED BY <1>4, FS_CardinalityType

\* No step takes a late call back, and only a timeout adds one.
LEMMA LateStays ==
  ASSUME TypeOK, BatchesInv, CallsInv, [Next]_vars, NEW i
  PROVE  Late(i) \subseteq Late(i)' /\ Cardinality(Late(i)) <= Cardinality(Late(i)')
<1>0. DOMAIN results \subseteq DOMAIN calls
  BY HasCall
<1>1. ASSUME DOMAIN results \subseteq DOMAIN results',
             \A n \in DOMAIN results : results'[n] = results[n],
             \A n \in DOMAIN results : calls[n].at # "cancelled" => calls'[n].at # "cancelled"
      PROVE  Late(i) \subseteq Late(i)'
  BY <1>1 DEF Late
<1>2. ASSUME Submit PROVE Late(i) \subseteq Late(i)'
  <2>1. results' = results /\ \A n \in DOMAIN calls : calls'[n] = calls[n]
    BY <1>2, SubmitIs DEF Submit
  <2>2. \A n \in DOMAIN results : calls'[n] = calls[n]
    BY <1>0, <2>1
  <2> QED BY <2>1, <2>2 DEF Late
<1>3. ASSUME NEW n \in DOMAIN calls, Receive(n) PROVE Late(i) \subseteq Late(i)'
  <2>1. /\ DOMAIN results' = DOMAIN results \cup {n} /\ calls' = calls
        /\ \A m \in DOMAIN results : results'[m] = results[m]
    BY <1>3, ReceiveIs, CollectIs DEF Appended
  <2> QED BY <1>1, <2>1
<1>4. ASSUME NEW n \in DOMAIN calls, TimeOut(n) PROVE Late(i) \subseteq Late(i)'
  <2>1. /\ DOMAIN results' = DOMAIN results \cup {n}
        /\ \A m \in DOMAIN results : results'[m] = results[m]
        /\ \A m \in DOMAIN calls \ {n} : calls'[m] = calls[m]
    BY <1>4, TimeOutIs, CollectIs DEF Statuses, Appended
  <2>2. n \notin DOMAIN results
    BY <1>4, AwaitedIs DEF TimeOut
  <2> QED BY <1>0, <1>1, <2>1, <2>2
<1>5. ASSUME NEW n \in DOMAIN calls, Start(n) \/ CallStep(n) PROVE Late(i) \subseteq Late(i)'
  <2>1. Moves(n)
    BY <1>5, ThreadMoves
  <2>2. /\ results' = results /\ calls'[n].at # "cancelled"
        /\ \A m \in DOMAIN calls \ {n} : calls'[m] = calls[m]
    BY <2>1 DEF Moves, Running
  <2> QED BY <1>0, <1>1, <2>2
<1>6. ASSUME UNCHANGED <<calls, results>> PROVE Late(i) \subseteq Late(i)'
  BY <1>6 DEF Late
<1>7. ASSUME NextBatch \/ UNCHANGED vars PROVE Late(i) \subseteq Late(i)'
  BY <1>6, <1>7 DEF NextBatch, vars
<1>8. ASSUME Resolve \/ Close \/ WriteManifest PROVE Late(i) \subseteq Late(i)'
  BY <1>6, <1>8, ClosingIs DEF Closing
<1>9. Late(i) \subseteq Late(i)'
  BY <1>2, <1>3, <1>4, <1>5, <1>7, <1>8 DEF Next, TeamStep, PoolStep
<1>10. IsFiniteSet(Late(i)')
  BY LateCount
<1> QED BY <1>9, <1>10, FS_Subset

\* The steps outside of the tools: what is charged stays so.
LEMMA BudgetsKept ==
  ASSUME TypeOK, BatchesInv, CallsInv, BudgetsInv, ToolsInv, [Next]_vars, UNCHANGED budgets,
         DOMAIN calls \subseteq DOMAIN calls',
         \A n \in DOMAIN calls : calls'[n].instance = calls[n].instance,
         \A n \in DOMAIN calls' :
            calls'[n].at \in {"charge", "handler"} => n \in DOMAIN calls,
         \A n \in DOMAIN calls :
            calls[n].at \in {"charge", "handler"} \/ calls'[n].at \in {"charge", "handler"} =>
                calls'[n].at = calls[n].at /\ calls'[n].tool = calls[n].tool
  PROVE  BudgetsInv' /\ ToolsInv'
<1>1. used' = used /\ expensive' = expensive /\ estimated' = estimated
  BY DEF budgets
<1>2. ToolsInv'
  BY <1>1 DEF ToolsInv
<1>3. ASSUME NEW i \in Instances
      PROVE  /\ used'[i] + Cardinality(Charging(i)') <= MaxToolCalls + Cardinality(Late(i)')
             /\ expensive'[i] + Cardinality(Spending(i)') <= MaxExpensive + Cardinality(Late(i)')
  <2>1. Charging(i)' = Charging(i)
    BY DEF Charging
  <2>2. Spending(i)' = Spending(i)
    BY <2>1 DEF Spending, Charging
  <2>3. Cardinality(Late(i)) <= Cardinality(Late(i)')
    BY LateStays
  <2>4. /\ used[i] + Cardinality(Charging(i)) <= MaxToolCalls + Cardinality(Late(i))
        /\ expensive[i] + Cardinality(Spending(i)) <= MaxExpensive + Cardinality(Late(i))
        /\ MaxToolCalls \in Nat /\ MaxExpensive \in Nat
        /\ used[i] \in Nat /\ expensive[i] \in Nat
    BY TeamAssumption DEF BudgetsInv, TypeOK
  <2>5. /\ Cardinality(Late(i)) \in Nat /\ Cardinality(Charging(i)) \in Nat
        /\ Cardinality(Spending(i)) \in Nat /\ Cardinality(Late(i)') \in Nat
    BY FiniteCalls, LateCount
  <2> QED BY <1>1, <2>1, <2>2, <2>3, <2>4, <2>5
<1> QED BY <1>1, <1>2, <1>3 DEF BudgetsInv

BudgetOf(i) ==
    /\ used[i] + Cardinality(Charging(i)) <= MaxToolCalls + Cardinality(Late(i))
    /\ expensive[i] + Cardinality(Spending(i)) <= MaxExpensive + Cardinality(Late(i))
    /\ expensive[i] <= used[i]
    /\ estimated[i] => expensive[i] < used[i]
    /\ expensive[i] > 0 => estimated[i]

\* The numbers of an instance before and after a step.
LEMMA Amounts ==
  ASSUME TypeOK, BatchesInv, CallsInv, BudgetsInv, [Next]_vars, NEW i \in Instances
  PROVE  /\ BudgetOf(i)
         /\ used[i] \in Nat /\ expensive[i] \in Nat /\ estimated[i] \in BOOLEAN
         /\ MaxToolCalls \in Nat /\ MaxExpensive \in Nat
         /\ Cardinality(Late(i)) \in Nat /\ Cardinality(Charging(i)) \in Nat
         /\ Cardinality(Spending(i)) \in Nat /\ Cardinality(Late(i)') \in Nat
         /\ Cardinality(Late(i)) <= Cardinality(Late(i)')
<1>1. BudgetOf(i)
  BY DEF BudgetsInv, BudgetOf
<1>2. /\ used[i] \in Nat /\ expensive[i] \in Nat /\ estimated[i] \in BOOLEAN
      /\ MaxToolCalls \in Nat /\ MaxExpensive \in Nat
  BY TeamAssumption DEF TypeOK
<1> QED BY <1>1, <1>2, FiniteCalls, LateCount, LateStays

\* An instance that no tool call of this step is about.
LEMMA OtherBudget ==
  ASSUME TypeOK, BatchesInv, CallsInv, BudgetsInv, [Next]_vars, NEW i \in Instances,
         used'[i] = used[i], expensive'[i] = expensive[i], estimated'[i] = estimated[i],
         Charging(i)' = Charging(i), Spending(i)' = Spending(i)
  PROVE  BudgetOf(i)'
<1> DEFINE late == Cardinality(Late(i))
           late2 == Cardinality(Late(i)')
           charging == Cardinality(Charging(i))
           spending == Cardinality(Spending(i))
<1>1. /\ used[i] + charging <= MaxToolCalls + late
      /\ expensive[i] + spending <= MaxExpensive + late
      /\ late \in Nat /\ late2 \in Nat /\ late <= late2 /\ charging \in Nat /\ spending \in Nat
      /\ used[i] \in Nat /\ expensive[i] \in Nat /\ MaxToolCalls \in Nat /\ MaxExpensive \in Nat
  BY Amounts DEF BudgetOf
<1>2. /\ expensive[i] <= used[i] /\ (estimated[i] => expensive[i] < used[i])
      /\ (expensive[i] > 0 => estimated[i])
  BY Amounts DEF BudgetOf
<1> HIDE DEF late, late2, charging, spending
<1>3. used[i] + charging <= MaxToolCalls + late2 /\ expensive[i] + spending <= MaxExpensive + late2
  BY <1>1
<1> QED BY <1>2, <1>3 DEF BudgetOf, late2, charging, spending

\* The checks leave room for the call they let pass.
LEMMA PassChecksBudgets ==
  ASSUME TypeOK, BatchesInv, CallsInv, BudgetsInv, ToolsInv, [Next]_vars,
         NEW n \in DOMAIN calls, Moves(n), PassChecks(n), calls'[n].at = "charge",
         MayCall(calls[n].instance, calls'[n].tool)
  PROVE  BudgetsInv' /\ ToolsInv'
<1>0. PICK i \in Instances : i = calls[n].instance
  BY Sizes, CallFields
<1> DEFINE late == Cardinality(Late(i))
           late2 == Cardinality(Late(i)')
<1>1. /\ used' = used /\ expensive' = expensive /\ estimated' = estimated
      /\ calls[n].at = "tools" /\ DOMAIN calls' = DOMAIN calls
      /\ calls'[n].instance = i /\ \A m \in DOMAIN calls \ {n} : calls'[m] = calls[m]
  BY <1>0 DEF PassChecks, Moves, budgets
<1>2. used[i] < MaxToolCalls
  BY <1>0 DEF MayCall
<1>3. calls'[n].tool = "expensive" => expensive[i] < MaxExpensive /\ estimated[i]
  BY <1>0 DEF MayCall
<1>5. ToolsInv'
  BY <1>0, <1>1, <1>3 DEF ToolsInv
<1>6. ASSUME NEW j \in Instances, j # i PROVE BudgetOf(j)'
  <2>1. Charging(j)' = Charging(j)
    BY <1>0, <1>1, <1>6 DEF Charging
  <2>2. Spending(j)' = Spending(j)
    BY <1>0, <1>1, <1>6, <2>1 DEF Spending, Charging
  <2> QED BY <1>1, <2>1, <2>2, OtherBudget
<1>7. Charging(i)' \in SUBSET {m \in DOMAIN calls : calls[m].instance = i /\ calls[m].at \in Running}
  BY <1>0, <1>1 DEF Charging, Running
<1>8. Spending(i)' \in SUBSET {m \in DOMAIN calls : calls[m].instance = i /\ calls[m].at \in Running}
  BY <1>7 DEF Spending
<1>9. /\ Cardinality(Charging(i)') \in Nat /\ Cardinality(Charging(i)') <= late + 1
      /\ Cardinality(Spending(i)') \in Nat /\ Cardinality(Spending(i)') <= late + 1
  BY <1>7, <1>8, AtMostOneMore
<1>10. /\ expensive[i] <= used[i] /\ (estimated[i] => expensive[i] < used[i])
       /\ (expensive[i] > 0 => estimated[i])
       /\ expensive[i] + Cardinality(Spending(i)) <= MaxExpensive + late
  BY Amounts DEF BudgetOf
<1>11. /\ used[i] \in Nat /\ expensive[i] \in Nat /\ MaxToolCalls \in Nat /\ MaxExpensive \in Nat
       /\ late \in Nat /\ late2 \in Nat /\ late <= late2 /\ Cardinality(Spending(i)) \in Nat
  BY Amounts
<1>12. calls'[n].tool # "expensive" => Spending(i)' = Spending(i)
  BY <1>0, <1>1 DEF Spending, Charging
<1>13. BudgetOf(i)'
  <2> DEFINE charging2 == Cardinality(Charging(i)')
             spending2 == Cardinality(Spending(i)')
             spending == Cardinality(Spending(i))
  <2> HIDE DEF late, late2, charging2, spending2, spending
  <2>1. used[i] + charging2 <= MaxToolCalls + late2
    BY <1>2, <1>9, <1>11 DEF charging2
  <2>2. expensive[i] + spending2 <= MaxExpensive + late2
    <3>1. CASE calls'[n].tool = "expensive"
      BY <1>3, <1>9, <1>11, <3>1 DEF spending2
    <3>2. CASE calls'[n].tool # "expensive"
      <4>1. spending2 = spending
        BY <1>12, <3>2 DEF spending, spending2
      <4> QED BY <1>10, <1>11, <4>1 DEF spending
    <3> QED BY <3>1, <3>2
  <2> QED BY <1>1, <1>10, <2>1, <2>2 DEF BudgetOf, charging2, spending2, late2
<1>14. \A j \in Instances : BudgetOf(j)'
  BY <1>6, <1>13
<1> QED BY <1>5, <1>14 DEF BudgetsInv, BudgetOf

\* A call is counted once.
LEMMA ChargeBudgets ==
  ASSUME TypeOK, BatchesInv, CallsInv, BudgetsInv, ToolsInv, [Next]_vars,
         NEW n \in DOMAIN calls, Moves(n), Charge(n), calls'[n].at = "handler",
         calls'[n].tool = calls[n].tool
  PROVE  BudgetsInv' /\ ToolsInv'
<1>0. PICK i \in Instances : i = calls[n].instance
  BY Sizes, CallFields
<1> DEFINE late == Cardinality(Late(i))
           late2 == Cardinality(Late(i)')
           charging == Cardinality(Charging(i))
           charging2 == Cardinality(Charging(i)')
           spending == Cardinality(Spending(i))
           spending2 == Cardinality(Spending(i)')
           isExpensive == calls[n].tool = "expensive"
<1>1. /\ estimated' = estimated /\ calls[n].at = "charge" /\ DOMAIN calls' = DOMAIN calls
      /\ calls'[n].instance = i /\ \A m \in DOMAIN calls \ {n} : calls'[m] = calls[m]
  BY <1>0 DEF Charge, Moves
<1>2. /\ used' = [used EXCEPT ![i] = @ + 1]
      /\ expensive' = [expensive EXCEPT ![i] = IF isExpensive THEN @ + 1 ELSE @]
  BY <1>0 DEF Charge
<1>3. /\ used'[i] = used[i] + 1
      /\ expensive'[i] = IF isExpensive THEN expensive[i] + 1 ELSE expensive[i]
      /\ \A j \in Instances \ {i} : used'[j] = used[j] /\ expensive'[j] = expensive[j]
  BY <1>2 DEF TypeOK
<1>4. /\ used[i] + charging <= MaxToolCalls + late
      /\ expensive[i] + spending <= MaxExpensive + late
      /\ expensive[i] <= used[i] /\ (estimated[i] => expensive[i] < used[i])
      /\ (expensive[i] > 0 => estimated[i])
  BY Amounts DEF BudgetOf
<1>5. /\ used[i] \in Nat /\ expensive[i] \in Nat /\ MaxToolCalls \in Nat /\ MaxExpensive \in Nat
      /\ late \in Nat /\ late2 \in Nat /\ late <= late2 /\ charging \in Nat /\ spending \in Nat
  BY Amounts
<1>6. Charging(i)' = Charging(i) \ {n} /\ n \in Charging(i)
  BY <1>0, <1>1 DEF Charging
<1>7. charging2 = charging - 1
  BY <1>6, FiniteCalls, FS_RemoveElement, Zenon
<1>8. Spending(i)' = Spending(i) \ {n} /\ (n \in Spending(i) <=> isExpensive)
  BY <1>1, <1>6 DEF Spending, Charging
<1>9. spending2 = IF isExpensive THEN spending - 1 ELSE spending
  <2>1. CASE isExpensive
    <3>1. n \in Spending(i)
      BY <1>8, <2>1
    <3>2. Cardinality(Spending(i) \ {n}) = Cardinality(Spending(i)) - 1
      BY <3>1, FiniteCalls, FS_RemoveElement, Zenon
    <3> QED BY <1>8, <2>1, <3>2
  <2>2. CASE ~isExpensive
    <3>1. Spending(i)' = Spending(i)
      BY <1>8, <2>2
    <3> QED BY <2>2, <3>1
  <2> QED BY <2>1, <2>2
<1>10. isExpensive => estimated[i]
  BY <1>0, <1>1 DEF ToolsInv
<1> HIDE DEF late, late2, charging, charging2, spending, spending2, isExpensive
<1>11. /\ used'[i] + charging2 <= MaxToolCalls + late2
       /\ expensive'[i] + spending2 <= MaxExpensive + late2
  <2>1. (used[i] + 1) + (charging - 1) <= MaxToolCalls + late2
    BY <1>4, <1>5
  <2>2. (expensive[i] + 1) + (spending - 1) <= MaxExpensive + late2
    BY <1>4, <1>5
  <2>3. expensive[i] + spending <= MaxExpensive + late2
    BY <1>4, <1>5
  <2> QED BY <1>3, <1>7, <1>9, <2>1, <2>2, <2>3
<1>12. /\ expensive'[i] <= used'[i] /\ (estimated[i] => expensive'[i] < used'[i])
       /\ (expensive'[i] > 0 => estimated[i])
       /\ (~isExpensive => expensive'[i] < used'[i])
       /\ (expensive[i] < used[i] => expensive'[i] < used'[i])
  <2>1. CASE isExpensive
    BY <1>3, <1>4, <1>5, <1>10, <2>1
  <2>2. CASE ~isExpensive
    BY <1>3, <1>4, <1>5, <2>2
  <2> QED BY <2>1, <2>2
<1>13. BudgetOf(i)'
  BY <1>1, <1>11, <1>12 DEF BudgetOf, late2, charging2, spending2
<1>14. ASSUME NEW j \in Instances, j # i PROVE BudgetOf(j)'
  <2>1. Charging(j)' = Charging(j)
    BY <1>0, <1>1, <1>14 DEF Charging
  <2>2. Spending(j)' = Spending(j)
    BY <1>0, <1>1, <1>14, <2>1 DEF Spending, Charging
  <2> QED BY <1>1, <1>3, <1>14, <2>1, <2>2, OtherBudget
<1>15. ASSUME NEW m \in DOMAIN calls
       PROVE  /\ calls'[m].at = "handler" /\ calls'[m].tool = "estimate"
                    => expensive'[calls'[m].instance] < used'[calls'[m].instance]
              /\ calls'[m].at = "charge" /\ calls'[m].tool = "expensive"
                    => estimated'[calls'[m].instance]
  <2>1. CASE m = n
    <3>1. calls'[m].tool = "estimate" => ~isExpensive
      BY <2>1 DEF isExpensive
    <3> QED BY <1>1, <1>12, <2>1, <3>1
  <2>2. CASE m # n
    <3>1. calls'[m] = calls[m]
      BY <1>1, <2>2
    <3>2. calls[m].instance \in Instances
      BY Sizes, CallFields
    <3>3. expensive[calls[m].instance] < used[calls[m].instance]
             => expensive'[calls[m].instance] < used'[calls[m].instance]
      BY <1>3, <1>12, <3>2
    <3> QED BY <1>1, <3>1, <3>3 DEF ToolsInv
  <2> QED BY <2>1, <2>2
<1>16. ToolsInv'
  BY <1>1, <1>15 DEF ToolsInv
<1>17. \A j \in Instances : BudgetOf(j)'
  BY <1>13, <1>14
<1> QED BY <1>16, <1>17 DEF BudgetsInv, BudgetOf

\* An estimate opens the expensive tools after it was counted.
LEMMA HandlerEndsBudgets ==
  ASSUME TypeOK, BatchesInv, CallsInv, BudgetsInv, ToolsInv, [Next]_vars,
         NEW n \in DOMAIN calls, Moves(n), HandlerEnds(n), calls'[n].at = "tools"
  PROVE  BudgetsInv' /\ ToolsInv'
<1>0. PICK i \in Instances : i = calls[n].instance
  BY Sizes, CallFields
<1>1. /\ used' = used /\ expensive' = expensive
      /\ calls[n].at = "handler" /\ DOMAIN calls' = DOMAIN calls
      /\ calls'[n].instance = i /\ \A m \in DOMAIN calls \ {n} : calls'[m] = calls[m]
  BY <1>0 DEF HandlerEnds, Moves
<1>2. PICK success \in BOOLEAN :
        estimated' = [estimated EXCEPT ![i] = @ \/ (success /\ calls[n].tool = "estimate")]
  BY <1>0 DEF HandlerEnds
<1>3. \A j \in Instances \ {i} : estimated'[j] = estimated[j]
  BY <1>2 DEF TypeOK
<1>4. /\ estimated[i] => estimated'[i]
      /\ estimated'[i] => estimated[i] \/ calls[n].tool = "estimate"
  <2>1. estimated'[i] = (estimated[i] \/ (success /\ calls[n].tool = "estimate"))
    BY <1>2 DEF TypeOK
  <2> QED BY <2>1, Zenon
<1>5. \A j \in Instances : Charging(j)' = Charging(j)
  BY <1>0, <1>1 DEF Charging
<1>6. \A j \in Instances : Spending(j)' = Spending(j)
  BY <1>0, <1>1, <1>5 DEF Spending, Charging
<1>7. ASSUME NEW j \in Instances, j # i PROVE BudgetOf(j)'
  BY <1>1, <1>3, <1>5, <1>6, <1>7, OtherBudget
<1>8. BudgetOf(i)'
  <2>1. /\ BudgetOf(i)
        /\ used[i] \in Nat /\ expensive[i] \in Nat /\ MaxToolCalls \in Nat /\ MaxExpensive \in Nat
        /\ Cardinality(Late(i)) \in Nat /\ Cardinality(Charging(i)) \in Nat
        /\ Cardinality(Spending(i)) \in Nat /\ Cardinality(Late(i)') \in Nat
        /\ Cardinality(Late(i)) <= Cardinality(Late(i)')
    BY Amounts
  <2>2. /\ used[i] + Cardinality(Charging(i)) <= MaxToolCalls + Cardinality(Late(i)')
        /\ expensive[i] + Cardinality(Spending(i)) <= MaxExpensive + Cardinality(Late(i)')
    BY <2>1 DEF BudgetOf
  <2>3. calls[n].tool = "estimate" => expensive[i] < used[i]
    BY <1>0, <1>1 DEF ToolsInv
  <2>4. (estimated'[i] => expensive[i] < used[i]) /\ (expensive[i] > 0 => estimated'[i])
    BY <1>4, <2>1, <2>3 DEF BudgetOf
  <2>5. expensive[i] <= used[i]
    BY <2>1 DEF BudgetOf
  <2> QED BY <1>1, <1>5, <1>6, <2>2, <2>4, <2>5 DEF BudgetOf
<1>9. ASSUME NEW m \in DOMAIN calls
      PROVE  /\ calls'[m].at = "handler" /\ calls'[m].tool = "estimate"
                   => expensive'[calls'[m].instance] < used'[calls'[m].instance]
             /\ calls'[m].at = "charge" /\ calls'[m].tool = "expensive"
                   => estimated'[calls'[m].instance]
  <2>1. CASE m = n
    BY <2>1
  <2>2. CASE m # n
    <3>1. calls'[m] = calls[m] /\ calls[m].instance \in Instances
      BY <1>1, <2>2, Sizes, CallFields
    <3>2. estimated[calls[m].instance] => estimated'[calls[m].instance]
      BY <1>3, <1>4, <3>1
    <3> QED BY <1>1, <3>1, <3>2 DEF ToolsInv
  <2> QED BY <2>1, <2>2
<1>10. ToolsInv'
  BY <1>1, <1>9 DEF ToolsInv
<1>11. \A j \in Instances : BudgetOf(j)'
  BY <1>7, <1>8
<1> QED BY <1>10, <1>11 DEF BudgetsInv, BudgetOf

\* The budgets over every step.
LEMMA BudgetsStep ==
  ASSUME TypeOK, BatchesInv, CallsInv, BudgetsInv, ToolsInv, [Next]_vars
  PROVE  BudgetsInv' /\ ToolsInv'
<1>1. ASSUME calls' = calls, UNCHANGED budgets PROVE BudgetsInv' /\ ToolsInv'
  <2>1. /\ DOMAIN calls \subseteq DOMAIN calls'
        /\ \A n \in DOMAIN calls : calls'[n].instance = calls[n].instance
        /\ \A n \in DOMAIN calls' :
              calls'[n].at \in {"charge", "handler"} => n \in DOMAIN calls
        /\ \A n \in DOMAIN calls :
              calls[n].at \in {"charge", "handler"} \/ calls'[n].at \in {"charge", "handler"} =>
                  calls'[n].at = calls[n].at /\ calls'[n].tool = calls[n].tool
    BY <1>1
  <2> QED BY <1>1, <2>1, BudgetsKept
<1>2. CASE Submit
  <2>1. /\ DOMAIN calls' = DOMAIN calls \cup {Len(calls) + 1}
        /\ \A n \in DOMAIN calls : calls'[n] = calls[n]
        /\ calls'[Len(calls) + 1].at = "queued" /\ UNCHANGED budgets
    BY <1>2, SubmitIs DEF Submit, Queued
  <2>2. \A n \in DOMAIN calls' :
            calls'[n].at \in {"charge", "handler"} => n \in DOMAIN calls
    BY <2>1
  <2>3. DOMAIN calls \subseteq DOMAIN calls'
    BY <2>1
  <2> QED BY <2>1, <2>2, <2>3, BudgetsKept
<1>3. ASSUME NEW n \in DOMAIN calls, Receive(n) PROVE BudgetsInv' /\ ToolsInv'
  BY <1>1, <1>3 DEF Receive
<1>4. ASSUME NEW n \in DOMAIN calls, TimeOut(n) PROVE BudgetsInv' /\ ToolsInv'
  <2>1. /\ DOMAIN calls' = DOMAIN calls /\ UNCHANGED budgets
        /\ \A m \in DOMAIN calls \ {n} : calls'[m] = calls[m]
        /\ calls'[n].instance = calls[n].instance /\ calls'[n].tool = calls[n].tool
        /\ calls[n].at = "queued" => calls'[n].at = "cancelled"
        /\ calls[n].at # "queued" => calls'[n] = calls[n]
    BY <1>4, TimeOutIs
  <2>2. \A m \in DOMAIN calls :
            calls[m].at \in {"charge", "handler"} \/ calls'[m].at \in {"charge", "handler"} =>
                calls'[m].at = calls[m].at /\ calls'[m].tool = calls[m].tool
    BY <2>1
  <2>3. \A m \in DOMAIN calls : calls'[m].instance = calls[m].instance
    BY <2>1
  <2> QED BY <2>1, <2>2, <2>3, BudgetsKept
<1>5. CASE NextBatch
  BY <1>1, <1>5 DEF NextBatch
<1>6. CASE Resolve \/ Close \/ WriteManifest
  BY <1>1, <1>6, ClosingIs DEF Closing
<1>7. ASSUME NEW n \in DOMAIN calls, Start(n) \/ CallStep(n) PROVE BudgetsInv' /\ ToolsInv'
  <2>1. Moves(n)
    BY <1>7, ThreadMoves
  <2>2. CASE Quiet(n)
    <3>1. /\ DOMAIN calls' = DOMAIN calls /\ UNCHANGED budgets
          /\ \A m \in DOMAIN calls \ {n} : calls'[m] = calls[m]
          /\ calls'[n].instance = calls[n].instance
          /\ calls[n].at \notin {"charge", "handler"} /\ calls'[n].at \notin {"charge", "handler"}
      BY <2>1, <2>2 DEF Moves, Quiet
    <3>2. \A m \in DOMAIN calls :
            calls[m].at \in {"charge", "handler"} \/ calls'[m].at \in {"charge", "handler"} =>
                calls'[m].at = calls[m].at /\ calls'[m].tool = calls[m].tool
      BY <3>1
    <3>3. \A m \in DOMAIN calls : calls'[m].instance = calls[m].instance
      BY <3>1
    <3> QED BY <3>1, <3>2, <3>3, BudgetsKept
  <2>3. CASE ~Quiet(n)
    BY <1>7, <2>1, <2>3, ThreadMoves, PassChecksBudgets, ChargeBudgets, HandlerEndsBudgets
  <2> QED BY <2>2, <2>3
<1>8. CASE UNCHANGED vars
  BY <1>1, <1>8 DEF vars, budgets
<1> QED BY <1>2, <1>3, <1>4, <1>5, <1>6, <1>7, <1>8 DEF Next, TeamStep, PoolStep

\* After the last batch every thread at work has been given up.
LEMMA ManifestStep ==
  ASSUME TypeOK, BatchesInv, CallsInv, ManifestHoldsWithoutLate, [Next]_vars
  PROVE  ManifestHoldsWithoutLate'
<1>1. ASSUME UNCHANGED <<calls, results, hashed>>, main' = "done" => main = "done"
      PROVE  ManifestHoldsWithoutLate'
  BY <1>1 DEF ManifestHoldsWithoutLate, Late
<1>2. ASSUME main' # "done" PROVE ManifestHoldsWithoutLate'
  BY <1>2 DEF ManifestHoldsWithoutLate
<1>3. CASE Submit
  BY <1>2, <1>3 DEF Submit
<1>4. ASSUME NEW n \in DOMAIN calls, Receive(n) \/ TimeOut(n)
      PROVE  ManifestHoldsWithoutLate'
  BY <1>2, <1>4 DEF Receive, TimeOut
<1>5. CASE NextBatch
  BY <1>2, <1>5 DEF NextBatch
<1>6. CASE Resolve
  BY <1>2, <1>6 DEF Resolve
<1>7. CASE Close
  BY <1>2, <1>7 DEF Close
<1>8. CASE WriteManifest
  BY <1>8 DEF WriteManifest, ManifestHoldsWithoutLate
<1>9. ASSUME NEW n \in DOMAIN calls, Start(n) \/ CallStep(n)
      PROVE  ManifestHoldsWithoutLate'
  <2>1. Moves(n)
    BY <1>9, ThreadMoves
  <2>2. main' = main /\ hashed' \in {hashed, hashed \ {calls[n].instance}}
    BY <2>1 DEF Moves
  <2>3. CASE main # "done"
    BY <1>2, <2>2, <2>3
  <2>4. CASE main = "done"
    <3>1. Len(results) = Len(calls)
      BY <2>4 DEF BatchesInv
    <3>2. n \in DOMAIN results
      BY <3>1, Sizes
    <3>3. results[n].instance = calls[n].instance /\ OwnAnswer(n)
          /\ calls[n].at \notin {"done", "cancelled"}
      BY <2>1, <3>2 DEF CallsInv, Moves, Running
    <3>4. n \in Late(calls[n].instance)
      BY <3>2, <3>3 DEF OwnAnswer, Late
    <3>5. ASSUME NEW i \in Instances \ hashed' PROVE Late(i)' # {}
      <4>1. Late(i) # {}
        BY <2>2, <2>4, <3>4, <3>5 DEF ManifestHoldsWithoutLate
      <4> QED BY <4>1, LateStays
    <3> QED BY <3>5 DEF ManifestHoldsWithoutLate
  <2> QED BY <2>3, <2>4
<1>10. CASE UNCHANGED vars
  BY <1>1, <1>10 DEF vars
<1> QED BY <1>3, <1>4, <1>5, <1>6, <1>7, <1>8, <1>9, <1>10 DEF Next, TeamStep, PoolStep

-----------------------------------------------------------------------------
(***************************************************************************)
(* The theorems.                                                           *)
(***************************************************************************)
IInv ==
    /\ TypeOK /\ BatchesInv /\ CallsInv /\ DecisionInv
    /\ BudgetsInv /\ ToolsInv /\ ManifestHoldsWithoutLate

\* A run starts with nothing submitted and nothing spent.
LEMMA InitTeam ==
  ASSUME Init
  PROVE  IInv
<1>1. /\ config \in Configs /\ main = "batch" /\ stage = 1
      /\ calls = <<>> /\ results = <<>>
      /\ used = [i \in Instances |-> 0] /\ expensive = [i \in Instances |-> 0]
      /\ estimated = [i \in Instances |-> FALSE]
      /\ hashed = {} /\ decision = NoKind
  BY DEF Init
<1>2. stage \in DOMAIN Schedule
  BY <1>1, ScheduleIs
<1>3. /\ calls \in Seq(Call) /\ results \in Seq(Result)
      /\ Len(calls) = 0 /\ Len(results) = 0 /\ DOMAIN calls = {} /\ DOMAIN results = {}
  BY <1>1
<1>4. TypeOK
  BY <1>1, <1>2, <1>3 DEF TypeOK
<1>5. BatchesInv
  <2>1. Len(Members) \in Nat
    BY <1>1, <1>2, MembersIs
  <2>2. Split(0)
    BY <1>3, <2>1 DEF Split
  <2> QED BY <1>1, <1>3, <2>2 DEF BatchesInv
<1>6. CallsInv /\ ToolsInv
  BY <1>3 DEF CallsInv, ToolsInv
<1>7. DecisionInv /\ ManifestHoldsWithoutLate
  BY <1>1 DEF DecisionInv, ManifestHoldsWithoutLate
<1>8. BudgetsInv
  <2> SUFFICES ASSUME NEW i \in Instances PROVE BudgetOf(i)
    BY DEF BudgetsInv, BudgetOf
  <2>1. Charging(i) = {} /\ Spending(i) = {}
    BY <1>3 DEF Charging, Spending
  <2>2. Cardinality(Charging(i)) = 0 /\ Cardinality(Spending(i)) = 0
    BY <2>1, FS_EmptySet
  <2>3. Cardinality(Late(i)) \in Nat
    BY <1>4, FiniteCalls
  <2>4. used[i] = 0 /\ expensive[i] = 0 /\ estimated[i] = FALSE
    BY <1>1
  <2>5. MaxToolCalls \in Nat /\ MaxExpensive \in Nat
    BY TeamAssumption
  <2> QED BY <2>2, <2>3, <2>4, <2>5 DEF BudgetOf
<1> QED BY <1>4, <1>5, <1>6, <1>7, <1>8 DEF IInv

\* The invariant of a run, for any team and any order of its threads: batches
\* in order, results in order, the decision that of the policy, and the budgets
\* with what is charged next.
THEOREM TeamKept == Spec => []IInv
<1>1. Init => IInv
  BY InitTeam
<1>2. IInv /\ [Next]_vars => IInv'
  BY TypesStep, BatchesStep, CallsStep, DecisionStep, BudgetsStep, ManifestStep DEF IInv
<1> QED BY <1>1, <1>2, PTL DEF Spec

\* The state of a run is of the types declared, its stage one of its schedule.
THEOREM TeamTypes == Spec => []TypeOK
<1>1. IInv => TypeOK
  BY DEF IInv
<1> QED BY <1>1, TeamKept, PTL

\* Results are those of the submitted calls in the order of the configuration,
\* whatever threads that were given up do later (AgentRuntime._batch).
THEOREM ResultsAlwaysInOrder == Spec => []OneResultPerCall
<1>1. ASSUME IInv PROVE OneResultPerCall
  <2>1. Len(results) <= Len(calls) /\ (main # "batch" => Len(results) = Len(calls))
    BY <1>1 DEF IInv, BatchesInv
  <2>2. ASSUME NEW n \in DOMAIN results
        PROVE  /\ results[n].instance = calls[n].instance
               /\ results[n].status # "timed_out" =>
                    /\ calls[n].at = "done"
                    /\ results[n].status = calls[n].status
                    /\ results[n].kind = calls[n].kind
    BY <1>1 DEF IInv, CallsInv, OwnAnswer
  <2>3. ASSUME NEW n \in DOMAIN calls, calls[n].stage < stage \/ main # "batch"
        PROVE  n \in DOMAIN results
    <3>1. /\ DOMAIN calls = 1..Len(calls) /\ DOMAIN results = 1..Len(results)
          /\ Len(results) \in Nat /\ Len(calls) \in Nat
      BY <1>1, Sizes DEF IInv
    <3>2. CASE main # "batch"
      BY <2>1, <3>1, <3>2
    <3>3. CASE calls[n].stage < stage
      <4>1. PICK b \in Nat : Split(b)
        BY <1>1 DEF IInv, BatchesInv
      <4>2. stage \in Nat
        BY <1>1, MembersIs DEF IInv, TypeOK
      <4>3. n <= b /\ b \in 0..Len(results)
        BY <3>3, <4>1, <4>2 DEF Split
      <4> QED BY <3>1, <4>3
    <3> QED BY <2>3, <3>2, <3>3
  <2> QED BY <2>1, <2>2, <2>3 DEF OneResultPerCall
<1> QED BY <1>1, TeamKept, PTL

\* The budgets of the tool permissions hold over all attempts, rounds and
\* threads of an instance, but for one call per late thread
\* (ToolExecutor.execute).
THEOREM LimitsAlwaysHeld == Spec => []ToolLimitsHeld
<1>1. ASSUME IInv PROVE ToolLimitsHeld
  <2> SUFFICES ASSUME NEW i \in Instances
               PROVE  /\ used[i] <= MaxToolCalls + Cardinality(Late(i))
                      /\ expensive[i] <= MaxExpensive + Cardinality(Late(i))
                      /\ expensive[i] > 0 => estimated[i] /\ used[i] > expensive[i]
    BY DEF ToolLimitsHeld, BudgetHeld, ExpensiveAfterEstimate
  <2>1. /\ used[i] + Cardinality(Charging(i)) <= MaxToolCalls + Cardinality(Late(i))
        /\ expensive[i] + Cardinality(Spending(i)) <= MaxExpensive + Cardinality(Late(i))
        /\ estimated[i] => expensive[i] < used[i]
        /\ expensive[i] > 0 => estimated[i]
    BY <1>1 DEF IInv, BudgetsInv
  <2>2. /\ Cardinality(Late(i)) \in Nat /\ Cardinality(Charging(i)) \in Nat
        /\ Cardinality(Spending(i)) \in Nat
    BY <1>1, FiniteCalls DEF IInv
  <2>3. /\ used[i] \in Nat /\ expensive[i] \in Nat /\ MaxToolCalls \in Nat /\ MaxExpensive \in Nat
    BY <1>1, TeamAssumption DEF IInv, TypeOK
  <2> QED BY <2>1, <2>2, <2>3
<1> QED BY <1>1, TeamKept, PTL

\* Files change under a written manifest only by a thread that was given up.
THEOREM ManifestAlwaysHolds == Spec => []ManifestHoldsWithoutLate
<1>1. IInv => ManifestHoldsWithoutLate
  BY DEF IInv
<1> QED BY <1>1, TeamKept, PTL

\* The last result of an instance is the latest one, and it has a kind just
\* when the instance decides.
LEMMA DecidingIs ==
  ASSUME TypeOK, BatchesInv, CallsInv
  PROVE  /\ \A n \in Deciding :
              /\ results[n].instance \in Team
              /\ LatestKinds[results[n].instance] = results[n].kind
              /\ results[n].kind \in KindsOf(LatestKinds)
         /\ \A i \in Candidates(LatestKinds) :
              \E n \in Deciding : results[n].instance = i
         /\ IsFiniteSet(Deciding)
<1>1. ASSUME NEW n \in DOMAIN results
      PROVE  /\ results[n].instance \in Team
             /\ results[n].status \in {"succeeded", "fallback"} => results[n].kind \in Kinds
             /\ results[n].kind # NoKind => results[n].status \in {"succeeded", "fallback"}
  <2>1. results[n].instance = calls[n].instance /\ OwnAnswer(n) /\ n \in DOMAIN calls
    BY HasCall DEF CallsInv
  <2>2. calls[n].at = "done" => Answered(calls[n])
    BY <2>1 DEF CallsInv
  <2>3. calls[n].instance \in Team
    BY <2>1 DEF BatchesInv
  <2> QED BY <2>1, <2>2, <2>3 DEF OwnAnswer, Answered
<1>2. NoKind \notin Kinds
  BY DEF NoKind, Kinds
<1>3. DOMAIN LatestKinds = Team /\ \A i \in Team : LatestKinds[i] = Latest(i)
  BY DEF LatestKinds
<1>4. ASSUME NEW n \in Deciding
      PROVE  /\ results[n].instance \in Team
             /\ LatestKinds[results[n].instance] = results[n].kind
             /\ results[n].kind \in KindsOf(LatestKinds)
  <2>1. PICK i \in Team : i = results[n].instance
    BY <1>1 DEF Deciding, LastResults
  <2>2. n \in Own(i) /\ \A m \in Own(i) : m <= n
    BY <2>1 DEF Deciding, LastResults, Own
  <2>3. Latest(i) = results[n].kind
    BY <2>2, LatestIs
  <2>4. results[n].kind \in Kinds
    BY <1>1 DEF Deciding, LastResults
  <2>5. i \in Candidates(LatestKinds) /\ LatestKinds[i] = results[n].kind
    BY <1>2, <1>3, <2>3, <2>4 DEF Candidates
  <2> QED BY <2>1, <2>5 DEF KindsOf
<1>5. ASSUME NEW i \in Candidates(LatestKinds)
      PROVE  \E n \in Deciding : results[n].instance = i
  <2>1. Latest(i) # NoKind
    BY <1>3 DEF Candidates
  <2>2. PICK n \in Own(i) : \A m \in Own(i) : m <= n
    BY <2>1, LatestIs
  <2>3. n \in DOMAIN results /\ results[n].instance = i /\ results[n].kind # NoKind
    BY <2>1, <2>2, LatestIs DEF Own
  <2>4. n \in LastResults
    BY <2>2, <2>3 DEF LastResults, Own
  <2> QED BY <1>1, <2>3, <2>4 DEF Deciding
<1>6. IsFiniteSet(Deciding)
  BY FiniteCalls, FS_Subset DEF Deciding, LastResults
<1> QED BY <1>4, <1>5, <1>6

\* What the team decides is backed by its quorum and by an instance that still
\* stood by it, and a run that has not decided has no decision
\* (aggregate_results).
THEOREM DecisionAlwaysBacked == Spec => []DecisionBacked
<1>1. ASSUME IInv, decision \notin {NoKind, "reject"}
      PROVE  /\ Cardinality(Deciding) * 100 >= Quorum * Len(config.team)
             /\ \E n \in Deciding : results[n].kind = decision
  <2>0. TypeOK /\ BatchesInv /\ CallsInv /\ DecisionInv
    BY <1>1 DEF IInv
  <2>1. decision = Aggregate(LatestKinds, config.policy, Quorum, Weight, config.judge)
    BY <1>1, <2>0 DEF DecisionInv
  <2>2. decision \in KindsOf(LatestKinds) /\ QuorumReached(LatestKinds, Quorum)
    BY <1>1, <2>0, <2>1, Decided
  <2>3. PICK i \in Candidates(LatestKinds) : LatestKinds[i] = decision
    BY <2>2 DEF KindsOf
  <2>4. PICK n \in Deciding : results[n].instance = i
    BY <2>0, DecidingIs
  <2>5. results[n].kind = decision
    BY <2>0, <2>3, <2>4, DecidingIs
  <2> DEFINE backing == {m \in Deciding : results[m].instance \in Candidates(LatestKinds)}
             g == [m \in backing |-> results[m].instance]
  <2>6. g \in Surjection(backing, Candidates(LatestKinds))
    <3>1. g \in [backing -> Candidates(LatestKinds)]
      OBVIOUS
    <3>2. \A j \in Candidates(LatestKinds) : \E m \in backing : g[m] = j
      BY <2>0, DecidingIs
    <3> QED BY <3>1, <3>2 DEF Surjection
  <2>7. /\ IsFiniteSet(Deciding) /\ IsFiniteSet(backing)
        /\ Cardinality(backing) <= Cardinality(Deciding)
    BY <2>0, DecidingIs, FS_Subset
  <2>8. /\ IsFiniteSet(Candidates(LatestKinds))
        /\ Cardinality(Candidates(LatestKinds)) <= Cardinality(backing)
    BY <2>6, <2>7, FS_Surjection
  <2>9. Cardinality(Candidates(LatestKinds)) * 100 >= Quorum * Len(config.team)
    <3>1. DOMAIN LatestKinds = Team
      BY DEF LatestKinds
    <3>2. Cardinality(Team) = Len(config.team)
      BY <2>0, TeamIs DEF TypeOK
    <3> QED BY <2>2, <3>1, <3>2 DEF QuorumReached
  <2>10. /\ Cardinality(Candidates(LatestKinds)) \in Nat /\ Cardinality(backing) \in Nat
         /\ Cardinality(Deciding) \in Nat /\ Quorum * Len(config.team) \in Int
    <3>1. Quorum \in Int /\ Len(config.team) \in Int
      BY <2>0, TeamAssumption, TeamIs DEF TypeOK
    <3>2. Quorum * Len(config.team) \in Int
      BY <3>1
    <3> QED BY <2>7, <2>8, <3>2, FS_CardinalityType
  <2>11. \A c, k, d \in Nat : \A q \in Int : c <= k /\ k <= d /\ c * 100 >= q => d * 100 >= q
    OBVIOUS
  <2>12. Cardinality(Deciding) * 100 >= Quorum * Len(config.team)
    BY <2>7, <2>8, <2>9, <2>10, <2>11
  <2> QED BY <2>5, <2>12
<1>2. IInv => DecisionBacked
  BY <1>1 DEF DecisionBacked
<1> QED BY <1>2, TeamKept, PTL

\* Under most-conservative arbitration no decision is looser than that of an
\* instance whose last result has one, fallbacks included.
THEOREM FallbackNeverLoosened == Spec => []FallbackNotLoosened
<1>1. ASSUME IInv, config.policy = "most_conservative", decision # NoKind, NEW n \in Deciding
      PROVE  decision \in AtLeast(results[n].kind)
  <2>0. TypeOK /\ BatchesInv /\ CallsInv /\ DecisionInv
    BY <1>1 DEF IInv
  <2>1. decision = Aggregate(LatestKinds, config.policy, Quorum, Weight, config.judge)
    BY <1>1, <2>0 DEF DecisionInv
  <2>2. results[n].kind \in KindsOf(LatestKinds)
    BY <2>0, DecidingIs
  <2>3. decision \in Kinds /\ Conservative[decision] >= Conservative[results[n].kind]
    BY <1>1, <2>0, <2>1, <2>2, Decided
  <2>4. results[n].kind \in Kinds
    BY <2>0, <2>2, LatestType DEF KindsOf, Candidates
  <2>5. /\ Conservative["abstain"] = 0 /\ Conservative["approve"] = 1
        /\ Conservative["revise"] = 2 /\ Conservative["reject"] = 3
    BY DEF Conservative, Kinds
  <2>6. /\ decision \in {"abstain", "approve", "revise", "reject"}
        /\ results[n].kind \in {"abstain", "approve", "revise", "reject"}
    BY <2>3, <2>4 DEF Kinds
  <2> QED BY <2>3, <2>5, <2>6 DEF AtLeast, Kinds
<1>2. IInv => FallbackNotLoosened
  BY <1>1 DEF FallbackNotLoosened
<1> QED BY <1>2, TeamKept, PTL
=============================================================================
