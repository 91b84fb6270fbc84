---------------------------- MODULE ReleaseFiles ----------------------------
(***************************************************************************)
(* The files a release is checked against (release/freeze.py,              *)
(* stable_manifest.py, checks.py): the frozen contracts, exported from the *)
(* code one file after the other into the places of the former ones, and   *)
(* the stable manifest with its checksum, written after the benchmark and  *)
(* its identity were verified.  Nothing is moved into place atomically, so *)
(* a writer that is killed leaves files of two releases, the last of them  *)
(* torn; the next one writes over whatever is there.                       *)
(*                                                                         *)
(* Code is a version; what it exports under a name is Content, 0 for a     *)
(* name that this version does not register.  Inventories are 0 when torn. *)
(***************************************************************************)
EXTENDS Integers, Sequences

CONSTANTS Documents,              \* JSON Schema files below schemas/rc1
          Content,                \* [versions -> [Documents -> 0..]], what is exported
          Writers, MaxEdits

VARIABLES code, documents, inventories, checksums, benchmark, ancestor,
          stable, writer, edits

releaseVars ==
  <<code, documents, inventories, checksums, benchmark, ancestor, stable, writer, edits>>

ReleaseAssumption ==
  /\ Content \in Seq([Documents -> Nat]) /\ Len(Content) >= 1
  /\ MaxEdits \in Nat

Versions == DOMAIN Content
NoText == [benchmark |-> 0, ancestor |-> FALSE]
Garbled == 9
Idle == [pc |-> "idle", version |-> 0, left |-> {}, alone |-> FALSE]

(***************************************************************************)
(* A benchmark verifies or not, is the one the release names or not, and   *)
(* has a version; git knows whether the formal commit is an ancestor, or   *)
(* cannot tell.  The repository starts with the release of version 1.      *)
(***************************************************************************)
Init ==
  /\ code = 1 /\ edits = 0
  /\ documents = Content[1] /\ inventories = 1 /\ checksums = Content[1]
  /\ benchmark \in [valid : BOOLEAN, named : BOOLEAN, version : {1}]
  /\ ancestor \in {"yes", "no", "unknown"}
  /\ stable = [text |-> NoText, checksum |-> NoText]
  /\ writer = [w \in Writers |-> Idle]

\* the code goes on, a frozen file is edited, the benchmark is touched or built
\* anew under the same identity
Change ==
  /\ edits < MaxEdits /\ edits' = edits + 1
  /\ \/ /\ code < Len(Content) /\ code' = code + 1
        /\ UNCHANGED <<documents, benchmark>>
     \/ /\ \E d \in Documents, v \in {0, Garbled} : documents' = [documents EXCEPT ![d] = v]
        /\ UNCHANGED <<code, benchmark>>
     \/ /\ \E valid \in BOOLEAN :
             benchmark' = [benchmark EXCEPT !.valid = valid, !.version = @ + 1]
        /\ UNCHANGED <<code, documents>>
  /\ writer' = [w \in Writers |-> [writer[w] EXCEPT !.alone = FALSE]]
  /\ UNCHANGED <<inventories, checksums, ancestor, stable>>

(***************************************************************************)
(* export_frozen_contracts: everything is rendered first; then the         *)
(* inventories, the checksums, and each registered schema in turn.  A      *)
(* schema the code no longer registers stays where it is.  A writer was    *)
(* alone if nobody else wrote these files, and nothing changed, since it   *)
(* began; what those before it left, killed or not, does not matter.       *)
(***************************************************************************)
Registered(v) == {d \in Documents : Content[v][d] # 0}
Exporting(w) == writer[w].pc \in {"checksums", "schemas"}
OfContracts(w) == Exporting(w) \/ writer[w].pc = "exported"
OfStable(w) == writer[w].pc \in {"text", "sealed"}

ExportInventories(w) ==
  /\ writer[w].pc = "idle"
  /\ inventories' = code
  /\ writer' = [v \in Writers |->
       IF v = w THEN [pc |-> "checksums", version |-> code, left |-> Registered(code),
                      alone |-> \A u \in Writers : ~Exporting(u)]
       ELSE [writer[v] EXCEPT !.alone = @ /\ ~OfContracts(v)]]
  /\ UNCHANGED <<code, documents, checksums, benchmark, ancestor, stable, edits>>

ExportChecksums(w) ==
  /\ writer[w].pc = "checksums"
  /\ checksums' = Content[writer[w].version]
  /\ writer' = [writer EXCEPT ![w].pc = "schemas"]
  /\ UNCHANGED <<code, documents, inventories, benchmark, ancestor, stable, edits>>

\* Mutant: a schema that is there already is taken for exported
ExportSchemaIfMissing(w, d) ==
  /\ writer[w].pc = "schemas" /\ d \in writer[w].left
  /\ documents' = [documents EXCEPT ![d] = IF @ = 0 THEN Content[writer[w].version][d] ELSE @]
  /\ writer' = [writer EXCEPT ![w].left = @ \ {d}]
  /\ UNCHANGED <<code, inventories, checksums, benchmark, ancestor, stable, edits>>

ExportSchema(w, d) ==
  /\ writer[w].pc = "schemas" /\ d \in writer[w].left
  /\ documents' = [documents EXCEPT ![d] = Content[writer[w].version][d]]
  /\ writer' = [writer EXCEPT ![w].left = @ \ {d}]
  /\ UNCHANGED <<code, inventories, checksums, benchmark, ancestor, stable, edits>>

ExportDone(w) ==
  /\ writer[w].pc = "schemas" /\ writer[w].left = {}
  /\ writer' = [writer EXCEPT ![w].pc = "exported"]
  /\ UNCHANGED <<code, documents, inventories, checksums, benchmark, ancestor, stable, edits>>

(***************************************************************************)
(* verify_frozen_contracts compares with what the code would export now:   *)
(* inventories, schemas that are missing or changed, and schemas that are  *)
(* not registered.                                                         *)
(***************************************************************************)
Mismatches ==
  {m \in {"inventory", "missing", "changed", "extra"} :
     \/ m = "inventory" /\ ~(inventories = code /\ checksums = Content[code])
     \/ m = "missing" /\ \E d \in Registered(code) : documents[d] = 0
     \/ m = "changed" /\ \E d \in Registered(code) : documents[d] \notin {0, Content[code][d]}
     \/ m = "extra" /\ \E d \in Documents \ Registered(code) : documents[d] # 0}

(***************************************************************************)
(* The stable manifest: text, then the digest of the text found there.     *)
(* It says that the formal commit is an ancestor unless git denies it.     *)
(***************************************************************************)
Buildable == benchmark.valid /\ benchmark.named /\ ancestor # "no"
StableText == [benchmark |-> benchmark.version, ancestor |-> TRUE]

WriteStableManifest(w) ==
  /\ writer[w].pc = "idle" /\ Buildable
  /\ stable' = [stable EXCEPT !.text = StableText]
  /\ writer' = [v \in Writers |->
       IF v = w THEN [Idle EXCEPT !.pc = "text",
                                  !.alone = \A u \in Writers : writer[u].pc # "text"]
       ELSE [writer[v] EXCEPT !.alone = @ /\ ~OfStable(v)]]
  /\ UNCHANGED <<code, documents, inventories, checksums, benchmark, ancestor, edits>>

\* Mutant: the digest of the text that was there before is kept
KeepStableChecksum(w) ==
  /\ writer[w].pc = "text"
  /\ stable' = [stable EXCEPT !.checksum = IF @ = NoText THEN stable.text ELSE @]
  /\ writer' = [writer EXCEPT ![w].pc = "sealed"]
  /\ UNCHANGED <<code, documents, inventories, checksums, benchmark, ancestor, edits>>

WriteStableChecksum(w) ==
  /\ writer[w].pc = "text"
  /\ stable' = [stable EXCEPT !.checksum = stable.text]
  /\ writer' = [writer EXCEPT ![w].pc = "sealed"]
  /\ UNCHANGED <<code, documents, inventories, checksums, benchmark, ancestor, edits>>

RefuseStable(w) ==
  /\ writer[w].pc = "idle" /\ ~Buildable
  /\ writer' = [writer EXCEPT ![w].pc = "raised"]
  /\ UNCHANGED <<code, documents, inventories, checksums, benchmark, ancestor, stable, edits>>

(***************************************************************************)
(* A writer is killed: the file it was at is whole or torn, and those that *)
(* follow are not written.                                                 *)
(***************************************************************************)
TornExport(w) ==
  \/ /\ writer[w].pc = "checksums"
     /\ \/ inventories' = 0 /\ UNCHANGED checksums
        \/ checksums' = [d \in Documents |-> Garbled] /\ UNCHANGED inventories
     /\ UNCHANGED documents
  \/ /\ writer[w].pc = "schemas"
     /\ \E d \in writer[w].left : documents' = [documents EXCEPT ![d] = Garbled]
     /\ UNCHANGED <<inventories, checksums>>

Kill(w) ==
  /\ Exporting(w) \/ writer[w].pc = "text"
  /\ \/ TornExport(w) /\ UNCHANGED stable
     \/ /\ writer[w].pc = "text"
        /\ \E file \in {"text", "checksum"} : stable' = [stable EXCEPT ![file] = NoText]
        /\ UNCHANGED <<documents, inventories, checksums>>
     \/ UNCHANGED <<documents, inventories, checksums, stable>>
  /\ writer' = [writer EXCEPT ![w].pc = "killed"]
  /\ UNCHANGED <<code, benchmark, ancestor, edits>>

StableVerified ==
  /\ stable.text # NoText /\ Buildable
  /\ stable.text = StableText
  /\ stable.checksum = stable.text

Next ==
  \/ Change
  \/ \E w \in Writers :
       \/ ExportInventories(w) \/ ExportChecksums(w) \/ ExportDone(w)
       \/ \E d \in Documents : ExportSchema(w, d)
       \/ WriteStableManifest(w) \/ WriteStableChecksum(w) \/ RefuseStable(w)
       \/ Kill(w)

Spec == Init /\ [][Next]_releaseVars

(***************************************************************************)
(* Properties.                                                             *)
(***************************************************************************)
TypeOK ==
  /\ code \in Versions /\ inventories \in Versions \cup {0} /\ edits \in 0..MaxEdits
  /\ \A w \in Writers : writer[w].left \subseteq Documents

(***************************************************************************)
(* An export repairs: after one that nobody disturbed, verifying finds at  *)
(* most schemas the code has dropped, whatever was edited, torn or left of *)
(* another release before it.  And a stable manifest that nobody disturbed *)
(* verifies, whatever stood there.                                         *)
(***************************************************************************)
ReleaseSound ==
  \A w \in Writers : writer[w].alone =>
    /\ writer[w].pc = "exported" => Mismatches \subseteq {"extra"}
    /\ writer[w].pc = "sealed" => StableVerified
=============================================================================
