--------------------------- MODULE ReviewerMatrix ---------------------------
(***************************************************************************)
(* The matrix of what the reviewers asked for (reviewer_matrix.py), and the    *)
(* gates of a release that it, the engineering checks and the policy decide   *)
(* (release_eligibility.py).                                                *)
(*                                                                         *)
(* A matrix is a record [criteria, actions, bindings]: a criterion is         *)
(* [id, type, required], an action [id, status, criteria], a binding          *)
(* [action, kind, of, satisfies, role, by, reason, digest, target].  A policy  *)
(* is a record [gates, warnings, states, strict, blocking].                    *)
(***************************************************************************)
EXTENDS Integers, FiniteSets, Sequences

CONSTANT Unsaid

(* What a binding names is there and current, as each kind is verified: most  *)
(* kinds are only looked for, held names what the verifiers vouch for.        *)
BindingCurrent(binding, held) ==
  \/ binding.kind \in {"imported_evidence", "citation_support"}
  \/ binding.kind = "human_verification" /\ Unsaid \notin {binding.by, binding.reason}
  \/ /\ binding.kind \in {"result_update_proposal", "result_update_baseline", "fact", "table",
                          "figure", "ledger", "review_bundle", "pdf_qa"}
     /\ <<binding.kind, binding.of>> \in held

OfAction(bindings, action) == {b \in bindings : b.action = action.id}

(* Whether a required criterion forbids the action's bindings, and the status  *)
(* that says so.                                                            *)
Objection(criterion, bound) ==
  LET kinds == {b.kind : b \in bound}
  IN IF ~ criterion.required THEN "none"
     ELSE IF /\ criterion.type = "hardware_measurement"
             /\ kinds \cap {"imported_evidence", "human_verification"} = {}
     THEN IF kinds \cap {"fact", "table", "figure"} # {} THEN "partial" ELSE "blocked"
     ELSE IF criterion.type = "scientific_experiment" /\ \E b \in bound : b.role = "fixture"
     THEN "blocked"
     ELSE "none"

(* derive_action_status: prose never addresses anything, and nothing that is   *)
(* derived is verified.                                                      *)
DerivedStatus(action, criteria, bindings, held) ==
  LET bound == OfAction(bindings, action)
      objecting == {i \in DOMAIN criteria : Objection(criteria[i], bound) # "none"}
  IN IF objecting # {}
     THEN Objection(criteria[CHOOSE i \in objecting : \A j \in objecting : i <= j], bound)
     ELSE IF \E b \in bound : ~ BindingCurrent(b, held) THEN "partial"
     ELSE IF bound = {} /\ \E i \in DOMAIN criteria : criteria[i].required
     THEN IF action.status \in {"not_started", "planned"} THEN "planned" ELSE "partial"
     ELSE "addressed"

CommentStatus(statuses, blocker) ==
  IF statuses = {} THEN "not_started"
  ELSE IF blocker /\ statuses \cap {"partial", "blocked"} # {} THEN "blocked"
  ELSE IF statuses = {"verified"} THEN "verified"
  ELSE IF statuses \subseteq {"addressed", "verified"} THEN "addressed"
  ELSE IF statuses \cap {"addressed", "verified", "partial"} # {} THEN "partial"
  ELSE "not_started"

Required(matrix) == {c.id : c \in {c \in matrix.criteria : c.required}}
Referenced(matrix) == UNION {a.criteria : a \in matrix.actions}

(* verify_review_matrix, of a matrix whose files are as they were frozen.     *)
MatrixCurrent(matrix, held) ==
  /\ \A b \in matrix.bindings : BindingCurrent(b, held)
  /\ Required(matrix) \subseteq Referenced(matrix)

AllVerified(matrix) == matrix.actions # {} /\ \A a \in matrix.actions : a.status = "verified"

----------------------------------------------------------------------------
(* Gate D, over the evidence of the release: records [id, semantics, digest,  *)
(* current].                                                                *)

Admissible(e) == /\ e.semantics.role = "scientific"
                 /\ e.semantics.kind \in {"measured", "simulated", "remapped", "derived"}

(* A binding counts with a digest of the target or of the evidence; a kind    *)
(* whose digest the gate cannot compute does not count.                       *)
Binds(b, evidence, target) ==
  \/ /\ b.kind = "human_verification"
     /\ b.target = target /\ Unsaid \notin {b.by, b.reason, b.digest}
  \/ /\ b.kind = "imported_evidence"
     /\ \E e \in evidence : e.id = b.of /\ e.digest = b.digest /\ e.current /\ Admissible(e)

(* Measurements are not replaced by words, nor words by measurements.         *)
Satisfies(b, criterion, evidence) ==
  /\ criterion.id \in b.satisfies
  /\ \/ /\ criterion.type \in {"layout", "manuscript_clarification"}
        /\ b.kind = "human_verification"
     \/ /\ criterion.type \in {"hardware_measurement", "scientific_experiment"}
        /\ b.kind = "imported_evidence"
        /\ criterion.type = "hardware_measurement" =>
             \E e \in evidence : e.id = b.of /\ e.semantics.kind = "measured"

Settled(action, matrix, evidence, target) ==
  \A c \in {c \in matrix.criteria : c.required /\ c.id \in action.criteria} :
    \E b \in OfAction(matrix.bindings, action) : Binds(b, evidence, target) /\ Satisfies(b, c, evidence)

MatrixStatus(matrix, evidence, target, policy) ==
  LET asked == {a \in matrix.actions : a.criteria \cap Required(matrix) # {}}
  IN IF Required(matrix) = {} THEN "passed"
     ELSE IF \/ ~ Required(matrix) \subseteq Referenced(matrix)
             \/ \E a \in asked : a.status \in {"blocked", "partial"} \/ ~ Settled(a, matrix, evidence, target)
     THEN "blocked"
     ELSE IF \A a \in asked : a.status = "verified" THEN "passed"
     ELSE IF policy.strict THEN "blocked" ELSE "needs_human"

----------------------------------------------------------------------------
(* Gates G and H: a check [status, category, recorded, target, code, by,       *)
(* findings] that did not run is never taken as passed.                       *)

CheckStatus(check, target, policy) ==
  CASE check.status = "passed" ->
         IF /\ check.recorded /\ check.target = target /\ check.code = 0
            /\ check.by # Unsaid /\ check.findings = {}
         THEN "passed" ELSE "blocked"
    [] check.status \in {"unavailable", "not_run"} ->
         IF policy.blocking THEN "blocked" ELSE "needs_human"
    [] check.status = "blocked_environment" -> "blocked"
    [] OTHER -> "failed"

CheckCategory(check) ==
  IF check.status = "blocked_environment" THEN "environment_readiness" ELSE check.category

(* gates maps a category to the statuses of its gates; a required category    *)
(* without a gate blocks.                                                   *)
Overall(gates, policy) ==
  LET found == UNION {gates[c] : c \in policy.gates \cap DOMAIN gates}
                 \cup {"blocked" : c \in {c \in policy.gates : c \notin DOMAIN gates \/ gates[c] = {}}}
  IN IF found \cap {"failed", "blocked"} # {} THEN "NOT_ELIGIBLE"
     ELSE IF "needs_human" \in found THEN "NEEDS_HUMAN"
     ELSE "ELIGIBLE"
=============================================================================
