---------------------------- MODULE MCFrozenReview ----------------------------
(* One import with a table of two metrics, two contents of the paper, a       *)
(* comparison that rests on the import, one thing that the reviewers asked    *)
(* for, and checks that passed for both papers.                              *)
EXTENDS FrozenReview

CONSTANTS imported, p1, p2
OneImported == {imported}
TwoPapers == {p1, p2}

(* The evidence.                                                            *)
Semantics(kind, origin) ==
  [kind |-> kind, origin |-> origin, role |-> "scientific",
   parents |-> {}, method |-> Absent, version |-> Absent]
Run == [device |-> "board", seed |-> "1", measurement_kind |-> "measured"]
Entry(metric, unit, value) == [metric |-> metric, unit |-> unit, is |-> "number", value |-> value]
Unclaimed == [device |-> Absent]
Unstated == [metric |-> Absent, method |-> Absent, frames |-> 0, elapsed |-> 0,
             trace |-> Absent, window |-> Absent]
Import(form, entries) ==
  [imported |-> TRUE, semantics |-> Semantics("measured", "external_import"), run |-> Run,
   how |-> Unstated, form |-> form, claims |-> Unclaimed, entries |-> entries]
Table == {Entry("latency", "ms", 20), Entry("accuracy", "percent", 91)}

(* The other rows are only asked about below, where the rules are tested.     *)
Native(metric, unit, value, run) ==
  [imported |-> FALSE, semantics |-> Semantics("measured", "paperforge_run"), run |-> run,
   how |-> Unstated, form |-> Absent, claims |-> Unclaimed, entries |-> {Entry(metric, unit, value)}]
SecondSeed == [Run EXCEPT !.seed = "2"]
MCRows == [r \in {imported, "same", "other", "seconds", "second seed", "fixture", "fps", "text",
                  "renamed", "unread"} |->
  CASE r = imported      -> Import("table", Table)
    [] r = "same"        -> Native("latency", "ms", 20, Run)
    [] r = "other"       -> Native("latency", "ms", 21, Run)
    [] r = "seconds"     -> Native("latency", "s", 1, SecondSeed)
    [] r = "second seed" -> Native("latency", "ms", 24, SecondSeed)
    [] r = "fixture"     -> [Native("latency", "ms", 1, Run) EXCEPT !.semantics.role = "fixture"]
    [] r = "fps"         -> Import("value", {Entry("fps", "1/s", 50)})
    [] r = "text"        -> Import("value", {[Entry("latency", "ms", 20) EXCEPT !.is = "text"]})
    [] r = "renamed"     -> [Import("value", {Entry("latency", "ms", 20)}) EXCEPT !.claims.device = "gpu"]
    [] r = "unread"      -> Import(Absent, {})]

Mean(groups, crossed) == [metric |-> "latency", reducer |-> "mean", ddof |-> Absent,
                          group_by |-> groups, allow_cross |-> crossed]
Query(aggregations) ==
  [purpose |-> "scientific", selected |-> {}, metrics |-> {}, kinds |-> {}, origins |-> {},
   runs |-> [k \in {} |-> Absent], aggregations |-> aggregations, conversions |-> {}]
MCQueries == [all |-> Query({Mean({"device"}, {"seed"})})]

(* The paper.                                                               *)
Fact(kind, parents, device) ==
  [kind |-> kind, parents |-> parents, qualifiers |-> [device |-> device],
   identity |-> [model_id |-> "model"]]
MCKnown == [facts |-> [board |-> Fact("measured", {}, "board"), gpu |-> Fact("measured", {}, "gpu"),
                       model |-> Fact("simulated", {}, "board")],
            allowed |-> {"device"}, roles |-> [f \in {} |-> {}], statistics |-> {}, support |-> {"key"}]
Claim(type, words, sources) == [type |-> type, words |-> words, subjects |-> {}, facts |-> sources,
                                citations |-> {"key"}]
Faster == Claim("comparison", {}, {"board", "gpu"})
MCClaims == [faster |-> Faster]

Page(bytes, points) ==
  [bytes |-> bytes, readable |-> TRUE, pages |-> 1, texts |-> {<<1, points>>}, images |-> FALSE,
   embedded |-> TRUE, overflow |-> FALSE, touch |-> FALSE, sizes |-> 1, role |-> "production"]
Seen(pdf, status) ==
  [page |-> 1, pdf |-> pdf, render |-> <<pdf, 1>>, status |-> status, reviewer |-> "person",
   source |-> "human_explicit", at |-> "day", role |-> "production"]
MCLayout == [p \in TwoPapers |-> Page(p, 10)]
MCHumans == [p \in TwoPapers |-> {Seen(MCLayout[p], "passed")}]

Binding(kind, of, satisfied, target) ==
  [action |-> "answer", kind |-> kind, of |-> of, satisfies |-> satisfied, role |-> "scientific",
   by |-> "person", reason |-> "seen", digest |-> of, target |-> target]
Criterion(id, type) == [id |-> id, type |-> type, required |-> TRUE]
Action(status) == [id |-> "answer", status |-> status, criteria |-> {"measure", "explain"}]
MCMatrix ==
  [criteria |-> {Criterion("measure", "hardware_measurement"),
                 Criterion("explain", "manuscript_clarification")},
   actions  |-> {Action("verified")},
   bindings |-> {Binding("imported_evidence", imported, {"measure"}, Unsaid)}
                  \cup {Binding("human_verification", "text", {"explain"}, p) : p \in TwoPapers}]
Check(category, target, status) ==
  [category |-> category, target |-> target, status |-> status, recorded |-> TRUE,
   code |-> 0, by |-> "ci", findings |-> {}]
MCChecks == [p \in TwoPapers |-> {Check(c, p, "passed") :
                                    c \in {"engineering_quality", "environment_readiness"}}]
MCPolicy == [gates |-> Categories, warnings |-> {}, states |-> {"reviewed"},
             strict |-> TRUE, blocking |-> TRUE]

----------------------------------------------------------------------------
(* The rules of a ledger, at their edges.                                    *)

Plain == Query({})
Grouped(rows, groups, crossed) == Freezable(rows, Query({Mean(groups, crossed)}))

(* Equal values agree, others do not, unless an extreme is asked for.         *)
ASSUME ConflictRule ==
  /\ Freezable({imported, "same"}, Plain) /\ ~ Freezable({"same", "other"}, Plain)
  /\ Freezable({"same", "other"}, Query({[Mean({}, {}) EXCEPT !.reducer = "max"]}))
(* What differs must be grouped by or crossed, and units must be converted.   *)
ASSUME PoolingRule ==
  /\ ~ Grouped({"same", "second seed"}, {"device"}, {})
  /\ Grouped({"same", "second seed"}, {"seed"}, {}) /\ Grouped({"same", "second seed"}, {}, {"seed"})
  /\ ~ Grouped({"same"}, {}, {"measurement_kind"})
  /\ ~ Grouped({"same", "seconds"}, {}, {"seed"})
  /\ Freezable({"same", "seconds"},
       [Query({Mean({}, {"seed"})}) EXCEPT
          !.conversions = {[from |-> "s", to |-> "ms", metric |-> Absent, factor |-> 1000]}])
(* A fixture is in no scientific ledger, and a deviation needs its degrees.   *)
ASSUME ScopeRule ==
  /\ Sources({"same", "fixture"}, Plain) = {"same"}
  /\ Sources({"fixture"}, [Plain EXCEPT !.purpose = "diagnostic"]) = {"fixture"}
  /\ ~ Freezable({"same"}, Query({[Mean({}, {}) EXCEPT !.reducer = "std"]}))
  /\ ~ Freezable({"same"}, Query({[Mean({}, {}) EXCEPT !.reducer = "std", !.ddof = 1]}))
(* A file may not say otherwise than its approved manifest, name a rate that   *)
(* nobody measured, or hold text for a number; one that nothing reads is       *)
(* passed over unless it was asked for.                                      *)
ASSUME SourceRule ==
  /\ \A r \in {"fps", "text", "renamed"} : ~ Freezable({r}, Plain)
  /\ Freezable({"unread"}, Plain) /\ Sources({"unread"}, Plain) = {}
  /\ ~ Freezable({"unread"}, [Plain EXCEPT !.selected = {"unread"}])

----------------------------------------------------------------------------
(* The rules of a review, at their edges.                                    *)

Verdict1(claim, known) == {Verdict(claim.type, results) : results \in Reviews(claim, known)}

ASSUME ReviewRule ==
  /\ Verdict1(Faster, MCKnown) = {"reviewed"}
  /\ Verdict1(Faster, [MCKnown EXCEPT !.allowed = {}]) = {NeedsHuman}
  /\ Verdict1([Faster EXCEPT !.words = {"identical conditions"}], MCKnown) = {Failed}
  /\ Verdict1([Faster EXCEPT !.type = "statistical_superiority", !.words = {"significant"}], MCKnown)
       = {NeedsHuman}
(* Of a measured and a simulated fact either may be looked at first.          *)
ASSUME LayerOrder ==
  Layer(Claim("hardware_validation", {"hardware validated"}, {"board", "model"}), MCKnown.facts)
    = {NeedsHuman, Failed}
(* A check that the type does not require may fail unheard.                   *)
ASSUME UnheardCheck ==
  LET shared == [MCKnown EXCEPT !.roles = [f \in {"board"} |-> {"calibration", "validation"}]]
  IN /\ \A results \in Reviews(Faster, shared) : results.calibration_overlap = Failed
     /\ Verdict1(Faster, shared) = {"reviewed"}
ASSUME StateRule ==
  /\ AggregateState({"reviewed"}, TRUE) = "reviewed_with_caveats"
  /\ AggregateState({"reviewed", Failed}, TRUE) = "not_reviewed"
  /\ AggregateState({"reviewed", "not_reviewed"}, FALSE) = "partial"
ASSUME BindingRule ==
  LET equal == Claim("statistical_equivalence", {"equivalent"}, {"board"})
      analysis(sources, margin) == [facts |-> sources, subjects |-> {}, margin |-> margin]
  IN /\ StatisticalBinding(equal, {analysis({"board"}, Absent)}) = Failed
     /\ StatisticalBinding(equal, {analysis({"gpu"}, "5%")}) = Failed
     /\ StatisticalBinding(equal, {analysis({"board"}, "5%")}) = Passed
     /\ StatisticalBinding(Faster, {}) = Passed
ASSUME SentenceRule ==
  LET sentence == [id |-> "s", role |-> "transition", substantial |-> FALSE, type |-> Absent, words |-> {}]
  IN /\ SentenceCovered(sentence, {})
     /\ ~ SentenceCovered([sentence EXCEPT !.substantial = TRUE], {})
     /\ ClaimType([sentence EXCEPT !.words = {"significant"}]) = "statistical_superiority"

(* The rules of the layout: what a person must see cannot pass without one,   *)
(* a stale failure still fails, and a warning needs a policy that allows it.   *)
ASSUME LayoutRule ==
  LET good == Page(p1, 10)
      small == Page(p1, 6)
      status(pdf, reviews, allowed) == LayoutStatus(pdf, reviews, allowed)
  IN /\ status(good, {}, {}) = "needs_human"
     /\ status(good, {Seen(good, "passed")}, {}) = "passed"
     /\ status(good, {Seen(MCLayout[p2], "passed")}, {}) = "needs_human"
     /\ status(good, {Seen(good, "passed"), Seen(MCLayout[p2], "failed")}, {}) = "blocked"
     /\ status(small, {Seen(small, "passed")}, {}) = "blocked"
     /\ status(small, {Seen(small, "passed")}, {"tiny_text"}) = "passed"
     /\ status(Page(p1, 5), {}, {"tiny_text"}) = "blocked"
     /\ ~ Authentic({[Seen(good, "passed") EXCEPT !.reviewer = Nobody]})
     /\ ~ CriterionMet(LayoutIssues(small), {Seen(small, "passed")}, small,
                       {[page |-> 1, category |-> "tiny_text"]}, {1}, TRUE)

(* The rules of the matrix: no status that is derived is verified, so the      *)
(* strict gate passes only what somebody declared to be; words do not answer   *)
(* for a measurement.                                                        *)
ASSUME DerivedRule ==
  \A status \in {"planned", "verified"} :
    \A bindings \in SUBSET MCMatrix.bindings :
      LET criteria == <<Criterion("measure", "hardware_measurement")>>
      IN DerivedStatus(Action(status), criteria, bindings, {}) \notin {"verified"}
ASSUME MatrixRule ==
  LET seen == {[id |-> imported, semantics |-> MCRows[imported].semantics, digest |-> imported,
                current |-> TRUE]}
      words == [MCMatrix EXCEPT !.bindings =
                  {Binding("human_verification", "text", {"measure", "explain"}, p1)}]
      addressed == [MCMatrix EXCEPT !.actions = {Action("addressed")}]
  IN /\ MatrixStatus(MCMatrix, seen, p1, MCPolicy) = "passed"
     /\ MatrixStatus(MCMatrix, {}, p1, MCPolicy) = "blocked"
     /\ MatrixStatus(words, seen, p1, MCPolicy) = "blocked"
     /\ MatrixStatus(addressed, seen, p1, MCPolicy) = "blocked"
     /\ MatrixStatus(addressed, seen, p1, [MCPolicy EXCEPT !.strict = FALSE]) = "needs_human"
     /\ MatrixCurrent(words, {}) /\ AllVerified(words) /\ ~ AllVerified(addressed)
ASSUME CommentRule ==
  /\ CommentStatus({"verified", "addressed"}, TRUE) = "addressed"
  /\ CommentStatus({"verified", "partial"}, TRUE) = "blocked"
  /\ CommentStatus({"verified", "planned"}, FALSE) = "partial"
(* A check that did not run is never taken as passed, nor one of another paper. *)
ASSUME CheckRule ==
  /\ CheckStatus(Check("engineering_quality", p1, "not_run"), p1, MCPolicy) = "blocked"
  /\ CheckStatus(Check("engineering_quality", p2, "passed"), p1, MCPolicy) = "blocked"
  /\ Overall([c \in Categories \ {"human_approval"} |-> {"passed"}], MCPolicy) = "NOT_ELIGIBLE"
  /\ Overall([c \in Categories |-> {"passed", "needs_human"}], MCPolicy) = "NEEDS_HUMAN"

----------------------------------------------------------------------------
(* The contents of the paper are interchangeable: start from the first.     *)
FirstInit == Init /\ paper = p1
FirstSpec == FirstInit /\ [][Next]_vars
=============================================================================
