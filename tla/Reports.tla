------------------------------ MODULE Reports -------------------------------
(***************************************************************************)
(* The reports about finished runs (reporting/): an index of what the runs *)
(* directory holds, a comparison read from it, and a directory of tables,  *)
(* figures and pages, written in place and listed last in a manifest.      *)
(*                                                                         *)
(* A report that is built again is written over the one before, so a build *)
(* that is killed leaves files of two builds side by side; two builds may  *)
(* also overlap.  Runs go on changing meanwhile, between the index and the *)
(* comparison too, which reads the runs a second time.  The content of a   *)
(* file is the index and the comparison it was rendered from; a manifest   *)
(* names the index alone.                                                  *)
(***************************************************************************)
EXTENDS Integers, FiniteSets

CONSTANTS Directories,            \* candidate directories below the runs root
          Held,                   \* what they may hold to begin with
          Requests,               \* sets of run ids asked for; none for all of them
          MaxRuns,
          Builders,               \* calls of build_softwarex_report
          MaxChanges              \* bound: changes of the runs

VARIABLES held, changes, builder, files, manifest, mixed

reportVars == <<held, changes, builder, files, manifest, mixed>>

Groups == <<"tables", "figures", "data", "pages">>
ReportFiles == {Groups[i] : i \in 1..4}
NoIndex == [d \in {} |-> 0]
Blank == [index |-> NoIndex, comparison |-> NoIndex]
Idle == [pc |-> "idle", request |-> {}, content |-> Blank, next |-> 1]
NoManifest == [written |-> FALSE, index |-> NoIndex, listed |-> [f \in ReportFiles |-> Blank]]

(***************************************************************************)
(* What a directory holds: the summary of a run under the id it gives      *)
(* itself, a version of its metrics, and what its kind records of it; or   *)
(* nothing recognised, which is passed over; or something malformed.       *)
(***************************************************************************)
Candidate ==
  [kind : {"training", "tuning", "phase7", "agent", "nothing", "malformed"},
   id : UNION {{h[d].id : d \in Directories} : h \in Held}, version : Nat, flag : BOOLEAN]

ReportAssumption ==
  /\ IsFiniteSet(Directories) /\ Held \subseteq [Directories -> Candidate]
  /\ MaxRuns \in Nat /\ MaxChanges \in Nat

Recognised(d) == held[d].kind # "nothing"

Status(d) ==
  CASE held[d].kind = "training" -> "completed"
    [] held[d].kind = "tuning"   -> IF held[d].flag THEN "invalid_test_access" ELSE "completed"
    [] held[d].kind = "phase7"   -> IF held[d].flag THEN "completed" ELSE "unverified"
    [] OTHER -> "unknown"

Init ==
  /\ held \in Held
  /\ changes = 0
  /\ builder = [b \in Builders |-> Idle]
  /\ files = [f \in ReportFiles |-> Blank]
  /\ manifest = NoManifest
  /\ mixed = {}

\* a run goes on, or its locked test is made
ChangeRun ==
  /\ changes < MaxChanges /\ changes' = changes + 1
  /\ \E d \in Directories : Recognised(d) /\ held' = [held EXCEPT ![d].version = @ + 1]
  /\ UNCHANGED <<builder, files, manifest, mixed>>

(***************************************************************************)
(* The index, from every directory whether it is asked for or not: one     *)
(* that does not parse, too many, or two of one id refuse the report.      *)
(***************************************************************************)
RunIndexed == {d \in Directories : Recognised(d)}

Unindexable(request) ==
  \/ \E d \in RunIndexed : held[d].kind = "malformed"
  \/ Cardinality(RunIndexed) > MaxRuns
  \/ \E c, d \in RunIndexed : c # d /\ held[c].id = held[d].id
  \/ ~(request \subseteq {held[d].id : d \in RunIndexed})

Holder(id) == CHOOSE d \in RunIndexed : held[d].id = id
Row(id) ==
  [kind |-> held[Holder(id)].kind, version |-> held[Holder(id)].version, status |-> Status(Holder(id))]

Index(request) ==
  [id \in IF request = {} THEN {held[d].id : d \in RunIndexed} ELSE request |-> Row(id)]

Alone(b) == \A c \in Builders \ {b} : builder[c].pc \in {"idle", "raised", "killed", "done"}

BuildRunIndex(b) ==
  /\ builder[b].pc = "idle"
  /\ \E request \in Requests :
       /\ ~Unindexable(request)
       /\ builder' = [builder EXCEPT ![b] =
            [pc |-> "writing", request |-> request, next |-> 1,
             content |-> [index |-> Index(request), comparison |-> NoIndex]]]
  /\ mixed' = IF Alone(b) THEN mixed ELSE Builders
  /\ UNCHANGED <<held, changes, files, manifest>>

RefuseIndex(b) ==
  /\ builder[b].pc = "idle" /\ \E request \in Requests : Unindexable(request)
  /\ builder' = [builder EXCEPT ![b].pc = "raised"]
  /\ UNCHANGED <<held, changes, files, manifest, mixed>>

(***************************************************************************)
(* The comparison reads the weights and the configuration of every         *)
(* training of the index again, one run after the other, as they are now.  *)
(***************************************************************************)
Trainings(index) == {id \in DOMAIN index : index[id].kind = "training"}
Compared(content) == DOMAIN content.comparison = Trainings(content.index)

With(comparison, id, version) ==
  [i \in DOMAIN comparison \cup {id} |-> IF i = id THEN version ELSE comparison[i]]

CompareRun(b) ==
  /\ builder[b].pc = "writing"
  /\ \E id \in Trainings(builder[b].content.index) \ DOMAIN builder[b].content.comparison :
       builder' = [builder EXCEPT ![b].content.comparison = With(@, id, held[Holder(id)].version)]
  /\ UNCHANGED <<held, changes, files, manifest, mixed>>

\* Mutant: tables are rendered before every run is compared
CompareOnTheWay(b) ==
  /\ builder[b].pc = "writing" /\ builder[b].next <= 4
  /\ files' = [files EXCEPT ![Groups[builder[b].next]] = builder[b].content]
  /\ builder' = [builder EXCEPT ![b].next = @ + 1]
  /\ UNCHANGED <<held, changes, manifest, mixed>>

WriteGroup(b) ==
  /\ builder[b].pc = "writing" /\ Compared(builder[b].content) /\ builder[b].next <= 4
  /\ files' = [files EXCEPT ![Groups[builder[b].next]] = builder[b].content]
  /\ builder' = [builder EXCEPT ![b].next = @ + 1]
  /\ UNCHANGED <<held, changes, manifest, mixed>>

Listed(b) ==
  /\ manifest' = [written |-> TRUE, index |-> builder[b].content.index, listed |-> files]
  /\ builder' = [builder EXCEPT ![b].pc = "done"]
  /\ UNCHANGED <<held, changes, files, mixed>>

\* Mutant: the digests are taken before the pages are rendered
WriteManifestEarly(b) == builder[b].pc = "writing" /\ builder[b].next > 3 /\ Listed(b)

WriteManifest(b) ==
  /\ builder[b].pc = "writing" /\ builder[b].next > 4
  /\ Listed(b)

\* the process ends between any two writes; a builder that raises does the same
Kill(b) ==
  /\ builder[b].pc = "writing"
  /\ builder' = [builder EXCEPT ![b].pc = "killed"]
  /\ UNCHANGED <<held, changes, files, manifest, mixed>>

Next ==
  \/ ChangeRun
  \/ \E b \in Builders :
       \/ BuildRunIndex(b) \/ RefuseIndex(b) \/ CompareRun(b)
       \/ WriteGroup(b) \/ WriteManifest(b) \/ Kill(b)

Spec == Init /\ [][Next]_reportVars

(***************************************************************************)
(* Properties.                                                             *)
(***************************************************************************)
TypeOK ==
  /\ changes \in 0..MaxChanges
  /\ \A b \in Builders : builder[b].pc \in {"idle", "writing", "raised", "killed", "done"}
                         /\ builder[b].next \in 1..5

Verifies == manifest.written /\ manifest.listed = files

(***************************************************************************)
(* Unless builds overlapped, a report whose manifest matches every file is *)
(* of one index and one comparison throughout, however many builds were    *)
(* killed before or after: the index is the one the manifest names, and    *)
(* the comparison has every training of it, none older than its row.  And  *)
(* an index names the runs asked for, as completed only if their kind says *)
(* so.                                                                     *)
(***************************************************************************)
Whole(content) ==
  /\ Compared(content)
  /\ \A id \in DOMAIN content.comparison : content.index[id].version <= content.comparison[id]

ReportSound ==
  /\ Verifies /\ mixed = {} =>
       \A f \in ReportFiles : /\ files[f] = files["pages"] /\ Whole(files[f])
                              /\ files[f].index = manifest.index
  /\ \A b \in Builders : builder[b].pc \notin {"idle", "raised"} =>
       LET index == builder[b].content.index
       IN  /\ builder[b].request \subseteq DOMAIN index
           /\ Cardinality(DOMAIN index) <= MaxRuns
           /\ \A d \in Directories :
                held[d].kind = "tuning" /\ held[d].flag /\ held[d].id \in DOMAIN index =>
                  index[held[d].id].status # "completed"
=============================================================================
