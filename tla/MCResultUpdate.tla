---------------------------- MODULE MCResultUpdate ----------------------------
(* Two updates of one file: the second is built on the text the first leads   *)
(* to, and the owner can also write a text of neither.  The prose of the      *)
(* first text may be patched.  The rules for blocks, patches and sentences     *)
(* are tried at their edges.                                                *)
EXTENDS ResultUpdate, NarrativeRules, TLC

(* Values are in tenths.                                                     *)
Number(value, word) ==
  [value |-> value, unit |-> UnitRead(word), reference |-> FALSE, point |-> FALSE,
   short |-> value % 10 = 0 /\ value < 10000]
Value(value, word) == [Number(value, word) EXCEPT !.point = TRUE, !.short = value < 100]
Reference(value) == [Number(value, "") EXCEPT !.reference = TRUE]

Block(values, cites, claims) ==
  [values |-> values, cites |-> cites, claims |-> claims,
   starts |-> 1, ends |-> 1, unsafe |-> FALSE]
MCBlocks ==
  [old |-> Block(Value(200, "ms") :> 1 @@ Reference(30) :> 1, {}, {}),
   better |-> Block(Value(224, "ms") :> 1 @@ Reference(40) :> 1, {"key"}, {"ranking"}),
   longer |-> Block(Value(224, "ms") :> 2 @@ Number(5000, "epochs") :> 1, {}, {"ranking"})]

Whole(blocks) ==
  [marks |-> [i \in 1..2 * Len(blocks) |-> IF i % 2 = 1 THEN "start" ELSE "end"],
   blocks |-> blocks,
   anchors |-> [intro |-> [hits |-> 1, line |-> 5], the |-> [hits |-> 2, line |-> 4]],
   parts |-> {"documentclass", "begin", "end"},
   last |-> "text", opened |-> 4, closed |-> 4, begins |-> 1, ends |-> 1]
MCContents == {"first", "second", "third", "edited", "patched"}
MCTexts == [first |-> Whole(<<"old">>), patched |-> Whole(<<"old">>),
            second |-> Whole(<<"better">>), third |-> Whole(<<"longer">>),
            edited |-> Whole(<<>>)]
MCOld == [p \in Proposals |-> IF p = "p1" THEN "first" ELSE "second"]
MCNew == [p \in Proposals |-> IF p = "p1" THEN "second" ELSE "third"]

MCFacts == {[id |-> "latency", value |-> 224], [id |-> "other", value |-> 999]}
Entry(name, value, source) == [name |-> name, value |-> value, unit |-> name, source |-> source]
MCSpec == [path |-> "paper.tex", mode |-> "replace_block", facts |-> {"latency"},
           protocols |-> <<Entry("epochs", 5000, "ledger-1")>>, citations |-> {"key"},
           artifacts |-> {"facts"},
           ledgers |-> {[ledger |-> "l1", digest |-> "d1"], [ledger |-> "", digest |-> "x"]}]
MCDraft == [p \in Proposals |-> [spec |-> MCSpec, index |-> 1,
             block |-> IF p = "p1" THEN "better" ELSE "longer"]]
MCHashes == [p \in Proposals |-> [facts |-> [json |-> "h1"]]]
MCAcknowledgements == {[claims |-> {"ranking"}, rationale |-> "checked by hand"],
                       [claims |-> {}, rationale |-> ""]}

State(disk, row, eligible) ==
  [disk |-> [facts |-> disk], rows |-> <<"facts", "json">> :> row,
   ledgers |-> [l1 |-> [digest |-> "d1", eligible |-> eligible]]]
MCData == [current |-> State([json |-> "h1"], "h1", TRUE),
           rewritten |-> State([json |-> "h2"], "h2", TRUE),
           stale |-> State([json |-> "h1"], "h1", FALSE)]
MCInputs == DOMAIN MCData

Prose == [last |-> "text", opened |-> 0, closed |-> 0, begins |-> 0, ends |-> 0]
Answer == [cut |-> FALSE, text |-> Prose, secret |-> FALSE, unsafe |-> FALSE]
Request == [extra |-> FALSE, path |-> "tex", source |-> "first", anchor |-> "intro",
            range |-> <<1, 5>>, size |-> 2, answer |-> Answer, result |-> "patched"]
MCPatchRequests == {Request, [Request EXCEPT !.result = "second"]}

----------------------------------------------------------------------------
(* Markers that nest, or that end what has not begun, are refused.           *)
ASSUME MarkerRule ==
  /\ WellMarked(<<>>) /\ WellMarked(<<"start", "end", "start", "end">>)
  /\ \A marks \in [1..3 -> {"start", "end"}] : ~ WellMarked(marks)
  /\ ~ WellMarked(<<"start", "start", "end", "end">>) /\ ~ WellMarked(<<"end", "start">>)

ASSUME TargetRule ==
  /\ SpecAdmissible(MCSpec) /\ Resolves(MCSpec)
  /\ \A path \in {"", "..", "wildcard"} : ~ SpecAdmissible([MCSpec EXCEPT !.path = path])
  /\ \A path \in {"absolute", "link", "outside", "directory", "missing"} :
       ~ Resolves([MCSpec EXCEPT !.path = path])

(* "3 seeds" is a protocol value to the comment of _classify_candidates and a *)
(* measurement to the code, which no protocol entry can bind.                *)
ASSUME KindRule ==
  /\ Kind(Reference(30)) = "structural" /\ Kind(Number(160, "")) = "structural"
  /\ Kind(Value(9, "")) = "structural" /\ Kind(Value(224, "")) = "metric"
  /\ \A word \in {"px", "epochs", "folds", "runs", "x"} : Kind(Number(30, word)) = "protocol"
  /\ \A word \in MetricUnits \cup {"seeds", "samples", "jobs"} :
       Kind(Number(30, word)) = "metric"

Proposed(values) == Block(values, {}, {})
Accepts(values, spec) == BlockAdmissible(MCBlocks.old, Proposed(values), spec, MCFacts)
ASSUME BindingRule ==
  /\ Accepts(Value(200, "ms") :> 1, MCSpec) /\ ~ Accepts(Value(200, "ms") :> 2, MCSpec)
  /\ Accepts(Value(224, "FPS") :> 1, MCSpec)          \* the unit is not compared
  /\ ~ Accepts(Value(999, "ms") :> 1, MCSpec)         \* a fact outside the allowlist
  /\ ~ Accepts(Number(30, "seeds") :> 1,
               [MCSpec EXCEPT !.protocols = <<Entry("seeds", 30, "ledger-1")>>])
  /\ ~ Accepts(Number(5000, "epochs") :> 1,
               [MCSpec EXCEPT !.protocols = <<Entry("epochs", 5000, "")>>])
  /\ ~ Accepts(Number(5000, "epochs") :> 1,           \* only the last entry of a name
               [MCSpec EXCEPT !.protocols = <<Entry("epochs", 5000, "ledger-1"),
                                              Entry("epochs", 3000, "ledger-1")>>])
  /\ \A block \in {[MCBlocks.old EXCEPT !.starts = 2], [MCBlocks.old EXCEPT !.ends = 0],
                   [MCBlocks.old EXCEPT !.unsafe = TRUE],
                   [MCBlocks.old EXCEPT !.cites = {"unknown"}]} :
       ~ BlockAdmissible(MCBlocks.old, block, MCSpec, MCFacts)
  /\ BlockAdmissible(MCBlocks.old, [MCBlocks.old EXCEPT !.ends = 2], MCSpec, MCFacts)

ASSUME AcknowledgementRule ==
  /\ Acknowledged(MCBlocks.old, MCBlocks.better, {"ranking"}, "why")
  /\ ~ Acknowledged(MCBlocks.old, MCBlocks.better, {"ranking"}, "")
  /\ ~ Acknowledged(MCBlocks.old, MCBlocks.better, {"hardware"}, "why")
  /\ Acknowledged(MCBlocks.better, MCBlocks.longer, {}, "")

Expected == [facts |-> [json |-> "h1"]]
ASSUME ArtifactRule ==
  /\ ArtifactsIntact(MCData.current, Expected) /\ ArtifactsIntact(MCData.stale, Expected)
  /\ ~ ArtifactsIntact(MCData.rewritten, Expected)
  /\ ~ ArtifactsIntact([MCData.current EXCEPT !.rows = <<>>], Expected)
  /\ ~ ArtifactsIntact([MCData.current EXCEPT !.disk.facts = [json |-> "h1", more |-> "h1"]],
                       Expected)
  /\ ~ ArtifactsIntact([MCData.current EXCEPT !.disk = <<>>], Expected)
  /\ ProposalArtifactsIntact(MCData.rewritten, [MCSpec EXCEPT !.artifacts = {}], Expected)
  /\ LedgersEligible(MCData.current, MCSpec.ledgers)
  /\ ~ LedgersEligible(MCData.stale, MCSpec.ledgers)
  /\ ~ LedgersEligible(MCData.current, {[ledger |-> "l1", digest |-> "d2"]})
  /\ ~ LedgersEligible(MCData.current, {[ledger |-> "l2", digest |-> ""]})

----------------------------------------------------------------------------
ASSUME PatchRule ==
  /\ Patchable(Request, MCTexts.first) /\ Patchable([Request EXCEPT !.range = <<>>], MCTexts.first)
  /\ ~ Patchable(Request, MCTexts.edited)
  /\ \A r \in {[Request EXCEPT !.extra = TRUE], [Request EXCEPT !.path = "link"],
               [Request EXCEPT !.anchor = ""], [Request EXCEPT !.anchor = "the"],
               [Request EXCEPT !.range = <<6, 9>>], [Request EXCEPT !.range = <<5, 4>>],
               [Request EXCEPT !.range = <<0, 9>>]} : ~ Patchable(r, MCTexts.first)
  /\ \A a \in {[Answer EXCEPT !.cut = TRUE], [Answer EXCEPT !.secret = TRUE],
               [Answer EXCEPT !.unsafe = TRUE], [Answer EXCEPT !.text.last = "fence"],
               [Answer EXCEPT !.text.last = ""], [Answer EXCEPT !.text.opened = 1],
               [Answer EXCEPT !.text.ends = 1]} : ~ AnswerAdmissible(a)
  /\ SplicedAdmissible(MCTexts.first, MCTexts.patched)
  /\ ~ SplicedAdmissible(MCTexts.first, MCTexts.second)
  /\ ~ SplicedAdmissible(MCTexts.first, [MCTexts.patched EXCEPT !.parts = {"begin", "end"}])
  /\ ~ SplicedAdmissible(MCTexts.first, [MCTexts.patched EXCEPT !.last = "escape"])

----------------------------------------------------------------------------
Narrative == [facts |-> {"sim", "dev"}, protocols |-> {"epochs"}, citations |-> {"key"},
              layers |-> {"simulated", "measured"}, maxParagraphs |-> 1, maxSentences |-> 2]
Known == [sim |-> [value |-> 224, layer |-> "simulated", model |-> "M", size |-> 640],
          dev |-> [value |-> 301, layer |-> "measured", model |-> "M", size |-> 640],
          gone |-> [value |-> 1, layer |-> "measured", model |-> "", size |-> 0]]
KnownProtocols == [epochs |-> [value |-> 5000]]
Says(value) == [value |-> value, reference |-> FALSE]
Sentence == [role |-> "metric_report", facts |-> {"sim"}, protocols |-> {}, citations |-> {},
             layers |-> {"simulated"}, numbers |-> {Says(224)}, words |-> {}, models |-> {"M"},
             size |-> 0, simple |-> TRUE, unsafe |-> FALSE, inlined |-> {}]
Both == [Sentence EXCEPT !.facts = {"sim", "dev"}, !.layers = {"simulated", "measured"},
                         !.words = {"layer"}]
Transition == [Sentence EXCEPT !.role = "transition", !.facts = {}, !.numbers = {}]
Holds(s) == Grounded(Narrative, <<<<s>>>>, Known, KnownProtocols, FALSE)

ASSUME GroundingRule ==
  /\ \A s \in {Sentence, Both, Transition,
               [Sentence EXCEPT !.numbers = {[value |-> 30, reference |-> TRUE]}],
               [Sentence EXCEPT !.protocols = {"epochs"}, !.numbers = {Says(5000)}],
               [Sentence EXCEPT !.words = {"significant"}]} : Holds(s)
  /\ \A s \in {[Sentence EXCEPT !.numbers = {Says(225)}], [Sentence EXCEPT !.facts = {"gone"}],
               [Sentence EXCEPT !.facts = {"epochs"}, !.models = {}],
               [Sentence EXCEPT !.citations = {"unknown"}],
               [Sentence EXCEPT !.layers = {"remapped"}],
               [Sentence EXCEPT !.words = {"hardware validated"}],
               [Sentence EXCEPT !.words = {"ranking"}], [Sentence EXCEPT !.models = {}],
               [Sentence EXCEPT !.size = 320],
               [Sentence EXCEPT !.role = "comparison", !.facts = {}, !.numbers = {}],
               [Both EXCEPT !.layers = {"measured"}], [Both EXCEPT !.words = {}],
               [Transition EXCEPT !.numbers = {Says(224)}],
               [Transition EXCEPT !.words = {"comparison"}]} : ~ Holds(s)
  /\ ~ Grounded(Narrative, <<<<Sentence, Sentence, Sentence>>>>, Known, KnownProtocols, FALSE)
  /\ ~ Grounded(Narrative, <<<<Sentence>>, <<Sentence>>>>, Known, KnownProtocols, FALSE)
  /\ ~ Grounded(Narrative, <<<<Sentence>>>>, Known, KnownProtocols, TRUE)

ASSUME PersonRule ==
  /\ ~ SentenceNeedsHuman(Sentence, Known) /\ ~ SentenceNeedsHuman(Transition, Known)
  /\ \A s \in {[Sentence EXCEPT !.simple = FALSE], [Sentence EXCEPT !.words = {"equivalent"}],
               [Sentence EXCEPT !.facts = {"dev"}, !.words = {"hardware validated"}]} :
       SentenceNeedsHuman(s, Known)

ASSUME DraftRule ==
  /\ NarrativeSpecAdmissible(Narrative)
  /\ ~ NarrativeSpecAdmissible([Narrative EXCEPT !.facts = {}, !.protocols = {}])
  /\ ~ NarrativeSpecAdmissible([Narrative EXCEPT !.maxSentences = 0])
  /\ LET answer == [cut |-> FALSE, json |-> "paragraphs", paragraphs |-> <<<<Sentence>>>>]
     IN /\ Drafted(answer) /\ ~ Drafted([answer EXCEPT !.cut = TRUE])
        /\ ~ Drafted([answer EXCEPT !.json = "text"])
        /\ ~ Drafted([answer EXCEPT !.paragraphs = <<<<>>>>])

(* What is handed on as an update: citations written out must be the declared  *)
(* ones, and a sentence that cites a protocol fact never gets that far.        *)
ASSUME RenderRule ==
  /\ NarrativeUpdate(Narrative, <<<<Sentence>>>>, Known)
  /\ FactsUsed(Narrative, Known) = {"sim", "dev"}
  /\ RenderedCitations(<<<<Sentence, [Sentence EXCEPT !.citations = {"key"}]>>>>) = {"key"}
  /\ \A s \in {[Sentence EXCEPT !.unsafe = TRUE],
               [Sentence EXCEPT !.inlined = {"key"}],
               [Sentence EXCEPT !.protocols = {"epochs"}]} :
       Holds(s) /\ ~ NarrativeUpdate(Narrative, <<<<s>>>>, Known)

(* Every number of a grounded sentence that an update takes for a measurement  *)
(* is one the update can bind to the same facts.                             *)
ASSUME GroundedIsBindable ==
  \A value \in {224, 225, 301, 5000}, word \in {"ms", "", "seeds"},
     cited \in SUBSET {"sim", "dev"} :
    LET s == [Sentence EXCEPT !.facts = cited, !.numbers = {Says(value)},
                              !.layers = {"simulated", "measured"}, !.words = {"layer"}]
        c == Value(value, word)
    IN Holds(s) /\ Kind(c) = "metric" =>
         MetricBound(c, Narrative, {[id |-> f, value |-> Known[f].value] : f \in DOMAIN Known})
=============================================================================
