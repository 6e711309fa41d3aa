------------------------------ MODULE UpdateRules ------------------------------
(***************************************************************************)
(* What an update of a manuscript has to satisfy before it is proposed,      *)
(* approved or applied (paperforge/result_update.py): the target it names,   *)
(* the markers of the protected block, every value and citation that is new  *)
(* in the block, the wording that a person has to acknowledge, and the       *)
(* artifacts and ledgers it rests on.                                       *)
(***************************************************************************)
LOCAL INSTANCE Naturals
LOCAL INSTANCE Sequences

----------------------------------------------------------------------------
(* extract_protected_blocks: the markers of a text open and close in turn.   *)
WellMarked(marks) ==
  /\ Len(marks) % 2 = 0
  /\ \A i \in DOMAIN marks : marks[i] = IF i % 2 = 1 THEN "start" ELSE "end"

(* ResultUpdateSpec: one relative path without wildcards.                    *)
SpecAdmissible(spec) ==
  /\ spec.path \notin {"", "..", "wildcard"}
  /\ spec.mode = "replace_block"

(* _resolve_target: a file inside the workspace that no link leads to.        *)
Resolves(spec) == spec.path \notin {"absolute", "..", "link", "outside", "directory", "missing"}

----------------------------------------------------------------------------
(* A candidate is one number of a block: its value, the unit that is read     *)
(* behind it, whether it stands in a reference ("Table 3", "[24]", "\ref"),   *)
(* whether it has a decimal point and whether it has fewer than four          *)
(* characters.                                                              *)
ProtocolUnits == {"px", "epochs", "seeds", "folds", "runs", "x"}
MetricUnits == {"ms", "s", "mJ", "J", "FPS", "%", "mAP"}

(* The short units are tried first and may end within a word, so "3 seeds" is *)
(* read as "3 s"; a word that begins with none of them is no unit.            *)
UnitRead(word) ==
  CASE word \in {"seeds", "samples", "s"} -> "s"
    [] word \in {"jobs", "J"} -> "J"
    [] word \in (ProtocolUnits \cup MetricUnits) \ {"seeds", "s", "J"} -> word
    [] OTHER -> ""

(* _classify_candidates.  What stands before a number is only looked at for    *)
(* references: "batch 16" is structural, and so is 0.9 without a unit.        *)
Kind(c) ==
  CASE c.reference -> "structural"
    [] ~ c.reference /\ c.unit \in ProtocolUnits -> "protocol"
    [] ~ c.reference /\ c.unit \in MetricUnits -> "metric"
    [] ~ c.reference /\ c.unit = "" ->
         IF c.point /\ ~ c.short THEN "metric" ELSE "structural"

(* A metric is bound by an allowed fact of the same value, whatever its unit. *)
MetricBound(c, spec, facts) ==
  \E f \in facts : f.id \in spec.facts /\ f.value = c.value

(* A protocol value is bound by an entry with the same value that names its   *)
(* source; of the entries of one name and unit only the last is looked at.    *)
ProtocolBound(c, spec) == \E i \in DOMAIN spec.protocols :
  /\ spec.protocols[i].value = c.value
  /\ spec.protocols[i].source # ""
  /\ \A j \in DOMAIN spec.protocols : j > i =>
       \/ spec.protocols[j].name # spec.protocols[i].name
       \/ spec.protocols[j].unit # spec.protocols[i].unit

(* "values" counts the occurrences of each candidate of a block: those that   *)
(* the old block had already need no binding, one for one.                    *)
Occurrences(block, c) == IF c \in DOMAIN block.values THEN block.values[c] ELSE 0
ValuesBound(old, new, spec, facts) ==
  \A c \in DOMAIN new.values :
    Occurrences(new, c) > Occurrences(old, c) =>
      CASE Kind(c) = "structural" -> TRUE
        [] Kind(c) = "metric" -> MetricBound(c, spec, facts)
        [] Kind(c) = "protocol" -> ProtocolBound(c, spec)

(* What build_proposal asks of the block it is given: the markers, where only *)
(* the opening ones are counted, no unsafe command, the values, the citations. *)
BlockAdmissible(old, new, spec, facts) ==
  /\ new.starts = 1 /\ new.ends >= 1
  /\ ~ new.unsafe
  /\ ValuesBound(old, new, spec, facts)
  /\ new.cites \subseteq spec.citations

(* _semantic_diff: the strong claims that the new block is the first to make. *)
SemanticDiff(old, new) == new.claims \ old.claims

(* approve_proposal: each of them is acknowledged, and a reason is given.     *)
Acknowledged(old, new, acknowledged, rationale) ==
  SemanticDiff(old, new) # {} =>
    SemanticDiff(old, new) \subseteq acknowledged /\ rationale # ""

----------------------------------------------------------------------------
(* The artifacts and ledgers of a workspace: artifact -> file -> hash, on the  *)
(* disk and in the database, and ledger -> what is known of it.               *)

(* _artifact_directories and _collect_artifact_hashes.                        *)
Collected(disk, artifacts) == [a \in artifacts |-> disk[a]]
Collectable(disk, artifacts) ==
  \A a \in artifacts : a \in DOMAIN disk /\ DOMAIN disk[a] # {}

(* verify_bound_artifact_integrity: the same members with the same bytes as   *)
(* the proposal was made from, and every file as it is registered.            *)
ArtifactsIntact(data, expected) ==
  /\ Collectable(data.disk, DOMAIN expected)
  /\ Collected(data.disk, DOMAIN expected) = expected
  /\ \A a \in DOMAIN expected : \A file \in DOMAIN expected[a] :
       /\ <<a, file>> \in DOMAIN data.rows
       /\ data.rows[<<a, file>>] = expected[a][file]

(* _verify_ledger_bindings: a binding without an identifier is passed over;   *)
(* a digest is compared only when the binding has one.                        *)
LedgersEligible(data, bindings) == \A b \in bindings : b.ledger # "" =>
  /\ b.ledger \in DOMAIN data.ledgers
  /\ b.digest \in {"", data.ledgers[b.ledger].digest}
  /\ data.ledgers[b.ledger].eligible

(* _verify_proposal_artifacts reads what to verify from spec.json; a spec     *)
(* without artifacts leaves nothing to verify.                                *)
ProposalArtifactsIntact(data, spec, expected) ==
  spec.artifacts = {} \/ ArtifactsIntact(data, expected)
=============================================================================
