-------------------------- MODULE DatasetUniverse ---------------------------
(***************************************************************************)
(* The universe of the formal experiments and its snapshot                 *)
(* (experiments/source_inventory.py, dataset_snapshot.py): an inventory of *)
(* the source files chooses symbols by what was known at a cutoff and says *)
(* how much of each file is accepted; a snapshot is built from the files   *)
(* it chose, in a temporary directory, and moved into place.               *)
(*                                                                         *)
(* A source is the sequence of its rows in file order, which need not be   *)
(* the order of their days.  Sources may change after the inventory, and   *)
(* several builds may run.  The day range of the rows is the window of the *)
(* experiment.                                                             *)
(***************************************************************************)
EXTENDS Integers, FiniteSets, Sequences, FiniteSetsExt

CONSTANTS Files,                  \* paths, numbered in their order
          SymbolOf,               \* [Files -> symbols], numbered in hash order
          Histories,              \* sequences of rows a source may have
          Cutoff,                 \* last day known when the universe is formed
          Assets, HeldOut,        \* symbols to choose, and how many stay unseen
          Builders, MaxChanges

VARIABLES source, inventory, snapshot, builder, changes

universeVars == <<source, inventory, snapshot, builder, changes>>

Row == [day : Nat, good : BOOLEAN]

DataAssumption ==
  /\ Files \subseteq Nat /\ IsFiniteSet(Files)
  /\ SymbolOf \in [Files -> Nat]
  /\ Histories \subseteq Seq(Row)
  /\ Cutoff \in Nat /\ Assets \in Nat /\ HeldOut \in Nat /\ MaxChanges \in Nat

Symbols == {SymbolOf[f] : f \in Files}
NoInventory == [exists |-> FALSE, digest |-> <<>>, chosen |-> {}, accepted |-> <<>>,
                training |-> {}, heldOut |-> {}]
Idle == [pc |-> "idle", left |-> {}, copied |-> [f \in {} |-> <<>>]]

(***************************************************************************)
(* Quality: rows that are bad in themselves, days that go backwards, days  *)
(* that occur twice (both of their rows).                                  *)
(***************************************************************************)
Bad(rows) == {i \in 1..Len(rows) : ~rows[i].good}
Backwards(rows) == {i \in 2..Len(rows) : rows[i].day < rows[i - 1].day}
Twice(rows) == {i \in 1..Len(rows) : \E j \in 1..Len(rows) : j # i /\ rows[j].day = rows[i].day}

Invalid(rows) == Bad(rows) \cup Backwards(rows) \cup Twice(rows)
Valid(rows) == Invalid(rows) = {}
Disordered(rows) == Backwards(rows) \cup Twice(rows) # {}

\* The rows known at the cutoff, in file order: the first, the second, ... of
\* their positions.
KnownRows(rows) == {i \in 1..Len(rows) : rows[i].day <= Cutoff}
Nth(n, S) == CHOOSE i \in S : Cardinality({j \in S : j < i}) = n - 1
Selection(rows) ==
  [n \in 1..Cardinality(KnownRows(rows)) |-> rows[Nth(n, KnownRows(rows))]]

(***************************************************************************)
(* What is accepted of a source: all of it, or the rows before the first   *)
(* invalid one, or, if rows of the whole are out of order or repeated, the *)
(* rows known at the cutoff.                                               *)
(***************************************************************************)
PrefixAccepted(rows) ==
  IF Valid(rows) THEN rows ELSE SubSeq(rows, 1, Min(Invalid(rows)) - 1)

AcceptedRows(rows) ==
  IF Disordered(rows) THEN Selection(rows) ELSE PrefixAccepted(rows)

(***************************************************************************)
(* The universe: per symbol the eligible source of most known rows, first  *)
(* in order of path; of the symbols the first Assets in hash order, the    *)
(* last HeldOut of these for unseen-stock evaluation.                      *)
(***************************************************************************)
\* Mutant: eligibility by the quality of the whole file, as in inventory v1
EligibleByWhole(rows) ==
  LET known == Selection(rows)
  IN  /\ known # <<>> /\ Valid(rows)
      /\ known[1].day = 1 /\ known[Len(known)].day >= Cutoff

Eligible(rows) ==
  LET known == Selection(rows)
  IN  /\ known # <<>> /\ Valid(known)
      /\ known[1].day = 1 /\ known[Len(known)].day >= Cutoff

Preferred(files, s) ==
  LET candidates == {f \in Files : SymbolOf[f] = s /\ Eligible(files[f])}
      Known(f) == Len(Selection(files[f]))
  IN  CHOOSE f \in candidates :
        \A g \in candidates : Known(f) > Known(g) \/ (Known(f) = Known(g) /\ f <= g)

EligibleSymbols(files) == {SymbolOf[f] : f \in {g \in Files : Eligible(files[g])}}
FirstOf(n, S) == {s \in S : Cardinality({t \in S : t < s}) < n}
SelectedSymbols(files) == FirstOf(Assets, EligibleSymbols(files))
TrainingSymbols(files) == FirstOf(Assets - HeldOut, SelectedSymbols(files))
Universe(files) == {Preferred(files, s) : s \in SelectedSymbols(files)}

Init ==
  /\ source \in [Files -> Histories]
  /\ inventory = NoInventory
  /\ snapshot = [exists |-> FALSE, rows |-> [f \in {} |-> <<>>]]
  /\ builder = [b \in Builders |-> Idle]
  /\ changes = 0

\* an inventory that exists is never built again; too few symbols refuse it
BuildSourceInventory ==
  /\ ~inventory.exists
  /\ Cardinality(EligibleSymbols(source)) >= Assets
  /\ inventory' = [exists   |-> TRUE,
                   digest   |-> source,
                   chosen   |-> Universe(source),
                   accepted |-> [f \in Files |-> AcceptedRows(source[f])],
                   training |-> TrainingSymbols(source),
                   heldOut  |-> SelectedSymbols(source) \ TrainingSymbols(source)]
  /\ UNCHANGED <<source, snapshot, builder, changes>>

\* any change does: the digest of a file tells it apart
ChangeSource ==
  /\ inventory.exists
  /\ changes < MaxChanges /\ changes' = changes + 1
  /\ \E f \in Files : source[f] # <<>> /\ source' = [source EXCEPT ![f] = Tail(@)]
  /\ UNCHANGED <<inventory, snapshot, builder>>

(***************************************************************************)
(* The snapshot.  Each file is taken only if it is still the one of the    *)
(* inventory; the temporary directory is removed whatever goes wrong, and  *)
(* renaming onto a snapshot that exists fails.                             *)
(***************************************************************************)
BeginSnapshot(b) ==
  /\ builder[b].pc = "idle" /\ inventory.exists /\ ~snapshot.exists
  /\ builder' = [builder EXCEPT ![b] = [@ EXCEPT !.pc = "copying", !.left = inventory.chosen]]
  /\ UNCHANGED <<source, inventory, snapshot, changes>>

CopySource(b, f) ==
  /\ builder[b].pc = "copying" /\ f \in builder[b].left
  /\ source[f] = inventory.digest[f]
  /\ inventory.accepted[f] # <<>> /\ Valid(inventory.accepted[f])
  /\ builder' = [builder EXCEPT ![b].left = @ \ {f},
       ![b].copied = [g \in DOMAIN @ \cup {f} |-> IF g = f THEN inventory.accepted[f] ELSE @[g]]]
  /\ UNCHANGED <<source, inventory, snapshot, changes>>

Publish(b) ==
  /\ builder[b].pc = "copying" /\ builder[b].left = {} /\ ~snapshot.exists
  /\ snapshot' = [exists |-> TRUE, rows |-> builder[b].copied]
  /\ builder' = [builder EXCEPT ![b].pc = "published"]
  /\ UNCHANGED <<source, inventory, changes>>

\* a changed source, a manifest that differs from the frozen one, a lost race
Abort(b) ==
  /\ builder[b].pc = "copying"
  /\ builder' = [builder EXCEPT ![b] = [Idle EXCEPT !.pc = "raised"]]
  /\ UNCHANGED <<source, inventory, snapshot, changes>>

Next ==
  \/ BuildSourceInventory \/ ChangeSource
  \/ \E b \in Builders :
       BeginSnapshot(b) \/ (\E f \in Files : CopySource(b, f)) \/ Publish(b) \/ Abort(b)

Spec == Init /\ [][Next]_universeVars

(***************************************************************************)
(* Properties.                                                             *)
(***************************************************************************)
TypeOK ==
  /\ \A f \in Files : source[f] \in Seq([day : Nat, good : BOOLEAN])
  /\ changes \in 0..MaxChanges
  /\ inventory.training \subseteq Symbols /\ inventory.heldOut \subseteq Symbols
  /\ \A b \in Builders : builder[b].left \subseteq Files

(***************************************************************************)
(* No look ahead: the universe is what it would be had no source any row   *)
(* after the cutoff; what is accepted of a chosen source is sound and      *)
(* keeps every row it was chosen for, so that no later row can keep it     *)
(* from being published; unseen symbols are not trained on; and a snapshot *)
(* holds every chosen source as it was inventoried.                        *)
(***************************************************************************)
Known == [f \in Files |-> Selection(inventory.digest[f])]

UniverseSound ==
  inventory.exists =>
    /\ inventory.chosen = Universe(Known)
    /\ inventory.training = TrainingSymbols(Known)
    /\ inventory.training \cap inventory.heldOut = {}
    /\ \A f \in inventory.chosen :
         /\ Valid(inventory.accepted[f])
         /\ Selection(inventory.accepted[f]) = Known[f]
    /\ snapshot.exists => snapshot.rows = [f \in inventory.chosen |-> inventory.accepted[f]]
=============================================================================
