--------------------------- MODULE ScienceReview ---------------------------
(***************************************************************************)
(* The checkers of the scientific review and the state they add up to        *)
(* (scientific_review.py).  The checkers look for phrases in the text of a    *)
(* claim; here the text is the set of the kinds of phrases that it uses.      *)
(*                                                                         *)
(* A claim is a record [type, words, subjects, facts, citations], a fact a    *)
(* record [kind, parents, qualifiers, identity] whose last two map            *)
(* dimensions to values, with Absent for a blank.                            *)
(***************************************************************************)
EXTENDS ImportManifest, FiniteSets

Passed == "passed"
Failed == "failed"
NeedsHuman == "needs_human"

(* The text only fills a gap: a structured type wins, but a claim that is    *)
(* taken for a plain metric and calls it significant is a statistical one.    *)
ClaimType(sentence) ==
  LET byRole == [metric_report |-> "descriptive_metric", comparison |-> "comparison",
                 protocol_statement |-> "protocol_statement", limitation |-> "limitation",
                 provenance_statement |-> "descriptive_metric", transition |-> "descriptive_metric"]
      declared == First(sentence.type, IF sentence.role \in DOMAIN byRole THEN byRole[sentence.role]
                                       ELSE "descriptive_metric")
  IN IF declared = "descriptive_metric" /\ "significant" \in sentence.words
     THEN "statistical_superiority" ELSE declared

----------------------------------------------------------------------------
(* The checkers.                                                            *)

Forbidden ==
  [simulated |-> {"on device", "physical device", "hardware validated"},
   remapped  |-> {"physical device", "hardware validated"},
   measured  |-> {"hardware validated", "robust", "generalizable"}]

(* The kinds are looked at in no particular order and the first that the     *)
(* wording overstates decides, so several answers are possible.              *)
Layer(claim, facts) ==
  LET overstated == {k \in DOMAIN Forbidden : /\ \E f \in claim.facts : facts[f].kind = k
                                              /\ Forbidden[k] \cap claim.words # {}}
  IN IF overstated = {} THEN {Passed}
     ELSE {IF k = "measured" THEN NeedsHuman ELSE Failed : k \in overstated}

(* Results computed from one measurement are not independent of each other.  *)
Dependency(claim, facts) ==
  IF \A f, g \in claim.facts : f # g => facts[f].parents \cap facts[g].parents = {}
  THEN Passed
  ELSE IF "independent" \in claim.words THEN Failed ELSE NeedsHuman

Differing(claim, facts, dimensions) ==
  {d \in dimensions : \E f, g \in claim.facts :
     LET value(x) == IF d \in DOMAIN facts[x].qualifiers THEN facts[x].qualifiers[d]
                     ELSE IF d \in DOMAIN facts[x].identity THEN facts[x].identity[d] ELSE Absent
     IN value(f) # value(g) /\ Absent \notin {value(f), value(g)}}

Compared == {"dataset", "split", "checkpoint", "input_size", "device", "runtime",
             "precision", "batch_size", "timing_scope", "measurement_kind"}

Comparison(claim, facts, allowed) ==
  LET differing == Differing(claim, facts, Compared)
  IN IF claim.type \notin {"comparison", "ranking", "statistical_superiority", "statistical_equivalence"}
     THEN Passed
     ELSE IF "identical conditions" \in claim.words /\ differing # {} THEN Failed
     ELSE IF differing \subseteq allowed THEN Passed ELSE NeedsHuman

Calibration(roles) ==
  IF \E f \in DOMAIN roles : {"calibration", "validation"} \subseteq roles[f] THEN Failed ELSE Passed

Statistical == {"significant", "equivalent", "non-inferior", "robust", "stable"}

Unsupported(condition) == IF condition THEN NeedsHuman ELSE Passed

Wording(claim, statistics) == Unsupported(claim.words \cap Statistical # {} /\ statistics = {})
Scope(claim) == Unsupported("general" \in claim.words)
Citations(claim, support) == Unsupported(~ claim.citations \subseteq support)

(* The dimensions that a cause must be isolated from are looked for in the    *)
(* qualifiers alone.                                                         *)
Causal(claim, facts) ==
  LET qualified == [f \in claim.facts |-> [facts[f] EXCEPT !.identity = [d \in {} |-> Absent]]]
  IN Unsupported(/\ "causes" \in claim.words
                 /\ Differing(claim, qualified,
                      {"architecture", "training_route", "implementation", "model_id"}) # {})

(* The results of review_claim, with what the caller knows of the world:      *)
(* [facts, allowed, roles, statistics, support].                             *)
Reviews(claim, known) ==
  {[layer_consistency        |-> layer,
    derived_dependency       |-> Dependency(claim, known.facts),
    comparison_compatibility |-> Comparison(claim, known.facts, known.allowed),
    calibration_overlap      |-> Calibration(known.roles),
    statistical_wording      |-> Wording(claim, known.statistics),
    scope                    |-> Scope(claim),
    causal_attribution       |-> Causal(claim, known.facts),
    citation_support         |-> Citations(claim, known.support)] : layer \in Layer(claim, known.facts)}

----------------------------------------------------------------------------
(* An analysis [facts, subjects, margin] must be about the claim.            *)

StatisticalBinding(claim, statistics) ==
  LET apart(a, b) == a # {} /\ b # {} /\ a \cap b = {}
      about == {s \in statistics : ~ apart(claim.facts, s.facts) /\ ~ apart(claim.subjects, s.subjects)}
      bounded == "non-inferior" \in claim.words \/ "equivalent" \in claim.words
                   \/ claim.type = "statistical_equivalence"
  IN IF /\ claim.words \cap Statistical = {}
        /\ claim.type \notin {"statistical_superiority", "statistical_equivalence", "stability"}
     THEN Passed
     ELSE IF \E s \in about : bounded => s.margin # Absent THEN Passed
     ELSE IF bounded THEN Failed ELSE NeedsHuman

(* A sentence needs a claim unless it only leads over to the next.           *)
SentenceCovered(sentence, claimed) ==
  \/ sentence.role = "transition" /\ ~ sentence.substantial
  \/ sentence.id \in claimed

----------------------------------------------------------------------------
(* Coverage and state.                                                      *)

RequiredChecks ==
  [descriptive_metric       |-> {"layer_consistency"},
   comparison               |-> {"layer_consistency", "comparison_compatibility"},
   ranking                  |-> {"layer_consistency", "comparison_compatibility"},
   statistical_superiority  |-> {"comparison_compatibility", "statistical_wording"},
   statistical_equivalence  |-> {"comparison_compatibility", "statistical_wording"},
   stability                |-> {"statistical_wording"},
   hardware_measurement     |-> {"layer_consistency"},
   hardware_validation      |-> {"layer_consistency", "scope"},
   derived_metric_statement |-> {"derived_dependency", "layer_consistency"},
   generalization           |-> {"scope"},
   causal_attribution       |-> {"comparison_compatibility", "causal_attribution"},
   protocol_statement       |-> {"comparison_compatibility"},
   limitation               |-> {}]

(* Only the checks that a type requires count, whatever the others found.    *)
Verdict(type, results) ==
  IF type \notin DOMAIN RequiredChecks THEN NeedsHuman
  ELSE IF ~ RequiredChecks[type] \subseteq DOMAIN results THEN "not_reviewed"
  ELSE LET found == {results[check] : check \in RequiredChecks[type]}
       IN IF Failed \in found THEN Failed
          ELSE IF NeedsHuman \in found THEN NeedsHuman ELSE "reviewed"

(* What somebody assumed and nobody verified caps the review.                *)
AggregateState(verdicts, unverified) ==
  IF verdicts = {} \/ Failed \in verdicts THEN "not_reviewed"
  ELSE IF unverified \/ NeedsHuman \in verdicts THEN "reviewed_with_caveats"
  ELSE IF "not_reviewed" \in verdicts THEN "partial"
  ELSE "reviewed"
=============================================================================
