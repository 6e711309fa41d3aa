---------------------------- MODULE NarrativeRules ----------------------------
(***************************************************************************)
(* The grounding of generated prose (paperforge/grounded_narrative.py): a    *)
(* model writes sentences that name the facts they report, and a sentence    *)
(* that says more than its facts is refused or put before a person.          *)
(*                                                                         *)
(* Of the text of a sentence a model keeps the numbers in it (a value, and    *)
(* whether it numbers a table, figure, equation or section), the wording it   *)
(* has, the models it names and the input size it states.                    *)
(***************************************************************************)
EXTENDS UpdateRules
LOCAL INSTANCE Naturals
LOCAL INSTANCE FiniteSets
LOCAL INSTANCE Sequences
LOCAL INSTANCE Functions

Roles == {"metric_report", "comparison", "protocol_statement",
          "limitation", "provenance_statement", "transition"}

(* GroundedNarrativeSpec.                                                    *)
NarrativeSpecAdmissible(spec) ==
  /\ spec.facts # {} \/ spec.protocols # {}
  /\ spec.maxParagraphs > 0 /\ spec.maxSentences > 0

(* parse_model_output and draft_from_model_output: an answer that was cut or  *)
(* is not an object with paragraphs of sentences is no draft.                *)
Parses(answer) == ~ answer.cut /\ answer.json = "paragraphs"
Drafted(answer) ==
  /\ Parses(answer)
  /\ \A i \in DOMAIN answer.paragraphs :
       /\ answer.paragraphs[i] # <<>>
       /\ \A s \in Range(answer.paragraphs[i]) : s.role \in Roles

----------------------------------------------------------------------------
(* validate_narrative.  facts and protocols map the identifiers that are      *)
(* known to what they state.                                                *)
WithinBudget(spec, paragraphs) ==
  /\ Len(paragraphs) <= spec.maxParagraphs
  /\ FoldFunction(LAMBDA p, n : Len(p) + n, 0, paragraphs) <= spec.maxSentences

(* The two allowlists are one for this check; what a sentence cites as a      *)
(* measured fact must be known as one, and a protocol fact likewise.         *)
Allowlisted(spec, s, facts, protocols) ==
  /\ s.facts \cup s.protocols \subseteq spec.facts \cup spec.protocols
  /\ s.facts \subseteq DOMAIN facts /\ s.protocols \subseteq DOMAIN protocols
  /\ s.citations \subseteq spec.citations
  /\ spec.layers = {} \/ s.layers \subseteq spec.layers

ScientificWords == {"comparison", "significant", "layer", "measured on device",
                    "hardware validated", "generalizable"}
PureTransition(s) == s.numbers = {} /\ s.words \cap ScientificWords = {}

NumbersBound(s, facts, protocols) == \A n \in s.numbers : n.reference
  \/ n.value \in {facts[f].value : f \in s.facts}
  \/ n.value \in {protocols[f].value : f \in s.protocols}

(* Wording that a layer never has; of a measured value it is for a person.    *)
LayerWording ==
  [simulated |-> {"measured on device", "direct measurement", "hardware validated"},
   remapped |-> {"direct measurement", "hardware validated"},
   measured |-> {"hardware validated", "robust", "generalizable"}]
Layers(s, facts) == {facts[f].layer : f \in s.facts}
ForbiddenWords(s, layer) ==
  IF layer \in DOMAIN LayerWording THEN s.words \cap LayerWording[layer] ELSE {}
LayersHonest(s, facts) ==
  /\ \A layer \in Layers(s, facts) \ {"measured"} : ForbiddenWords(s, layer) = {}
  /\ Cardinality(Layers(s, facts)) > 1 =>
       /\ Cardinality(s.layers) >= Cardinality(Layers(s, facts))
       /\ s.words \cap {"layer", "proxy"} # {}

(* The model of every fact is named and a stated input size is the fact's.    *)
ModelNamed(s, facts) == \A f \in s.facts : facts[f].model \in s.models \cup {""}
SizeAgrees(s, facts) == s.size = 0 \/ \A f \in s.facts : facts[f].size \in {0, s.size}

SentenceGrounded(spec, s, facts, protocols, excerptsOnly) ==
  /\ Allowlisted(spec, s, facts, protocols)
  /\ IF s.role = "transition" THEN PureTransition(s)
     ELSE /\ NumbersBound(s, facts, protocols)
          /\ s.role = "comparison" => s.facts # {}
          /\ LayersHonest(s, facts)
          /\ ModelNamed(s, facts)
          /\ SizeAgrees(s, facts)
          /\ "ranking" \notin s.words
          /\ ~ (excerptsOnly /\ s.numbers # {})

(* A sentence that is more than "the model measured the value", and words of  *)
(* statistics and of validated hardware, are left to a person.                *)
SentenceNeedsHuman(s, facts) == s.role # "transition" /\
  \/ \E f \in s.facts : facts[f].model # "" /\ ~ s.simple
  \/ "measured" \in Layers(s, facts) /\ ForbiddenWords(s, "measured") # {}
  \/ s.words \cap {"significant", "equivalent"} # {}

Sentences(paragraphs) == UNION {Range(paragraphs[i]) : i \in DOMAIN paragraphs}
Grounded(spec, paragraphs, facts, protocols, excerptsOnly) ==
  /\ WithinBudget(spec, paragraphs)
  /\ \A s \in Sentences(paragraphs) :
       SentenceGrounded(spec, s, facts, protocols, excerptsOnly)

----------------------------------------------------------------------------
(* render_narrative: no forbidden command, and citations written in the text  *)
(* are exactly those the sentence declares; otherwise they are appended.      *)
Renders(s) == ~ s.unsafe /\ s.inlined \in {{}, s.citations}
RenderedCitations(paragraphs) == UNION {s.citations : s \in Sentences(paragraphs)}

(* build_update_from_narrative: protocol facts are not handed on to the       *)
(* validation, so no sentence of such a narrative can cite one.               *)
NarrativeUpdate(spec, paragraphs, facts) ==
  /\ Grounded(spec, paragraphs, facts, [f \in {} |-> facts[f]], FALSE)
  /\ \A s \in Sentences(paragraphs) : Renders(s)
FactsUsed(spec, facts) == DOMAIN facts \cap spec.facts
=============================================================================
