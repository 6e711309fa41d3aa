---------------------------- MODULE FrozenReview ----------------------------
(***************************************************************************)
(* The audit chain of a release: a result ledger over the evidence, a       *)
(* scientific review bound to that ledger, a layout check of the PDF, a     *)
(* release assessment over all of them and the owner's acknowledgement of   *)
(* it.  Each is a frozen bundle: a few JSON files below .paperforge,        *)
(* written one by one, then two rows of the artifact registry               *)
(* (paperforge/immutable_artifacts.py).  The name of a bundle is a digest   *)
(* of its content, so a bundle is its content here.  A process can be       *)
(* killed between any two files or rows; the evidence, its approvals and    *)
(* the paper change at any time; damage to the files happens while no call  *)
(* runs (the single-writer contract of docs/u4c-reliability.md:215-216).    *)
(* What the bundles say is decided by the rules of LedgerQuery,             *)
(* ScienceReview, LayoutReview and ReviewerMatrix; the claims, the human     *)
(* reviews of each paper, the reviewers' matrix, whose bundle freezes like    *)
(* the others, the engineering checks and the policy do not change.           *)
(***************************************************************************)
EXTENDS LedgerQuery, ScienceReview, LayoutReview, ReviewerMatrix

CONSTANTS Evidence,        \* rows the evidence table may hold
          Imported,        \* those an import brought, which need its approval
          Papers,          \* contents of the manuscript with its PDF and build
          Claims, Known,   \* name -> claim of the paper, and what their review knows
          Unverified,      \* whether some assumption of theirs is unverified
          Layout, Humans,  \* paper -> its PDF, and the human reviews of it
          Matrix,          \* what the reviewers asked for and what answers it
          Checks,          \* paper -> the engineering checks run for it
          Policy,          \* of the release
          Missing,         \* no file, no call, no assessment at hand
          MaxChanges,      \* bound on changes of evidence and approvals
          MaxDamage,       \* bound on files damaged from outside
          MaxKills,        \* bound on kills
          MaxBundles       \* bound on bundles that get a file

Files == [intact : BOOLEAN, stamp : Nat]
ASSUME ImportedAssumption == Imported \subseteq Evidence
ASSUME MissingAssumption == Missing \notin Files

(* The categories that a policy requires unless it is told otherwise.        *)
Categories == {"source_integrity", "scientific_evidence", "scientific_review",
               "reviewer_resolution", "pdf_layout_qa", "human_approval",
               "engineering_quality", "environment_readiness"}
ASSUME PolicyAssumption == Policy.gates = Categories
ASSUME BoundAssumption == /\ MaxChanges \in Nat
                          /\ MaxDamage \in Nat
                          /\ MaxKills \in Nat
                          /\ MaxBundles \in Nat

VARIABLES
  evidence, approved,  \* rows present; rows whose import approval is valid
  epoch,               \* how often those tables have changed
  paper,               \* manuscript, PDF and build manifest as they are now
  file,                \* <<bundle, member>> -> file, for the files that exist
  registry,            \* <<bundle, member>> -> file whose hash the row has
  written,             \* bundle -> how often its stamped file was written
  call,                \* the call in progress, or Missing
  payload,             \* the assessment a caller evaluated, or Missing
  acks,                \* acknowledgements on disk
  finished, damaged,   \* history: bundles frozen to the end; damaged bundles
  damage, kills        \* how many files were damaged, calls killed

facts == <<evidence, approved, epoch>>
disk == <<file, registry, written>>
history == <<finished, damaged, damage, kills>>
vars == <<facts, paper, disk, call, payload, acks, history>>

-----------------------------------------------------------------------------
(* Bundles.                                                                  *)

Is(kind, b) == kind \in DOMAIN b

AllMembers == {"side", "main", "manifest"}
Members(b) == IF Is("review", b) THEN AllMembers \ {"side"} ELSE AllMembers
(* The order in which they are written.                                      *)
Place == [side |-> 1, main |-> 2, manifest |-> 3]

Registered == {"main", "manifest"}

(* "main" holds created_at, the only part that differs between two writings  *)
(* of a bundle; nothing else of an intact file can differ.                   *)
Written(b) == IF b \in DOMAIN written THEN written[b] ELSE 0
FileOf(b, m) == [intact |-> TRUE, stamp |-> IF m = "main" THEN Written(b) + 1 ELSE 0]

At(b, m) == IF <<b, m>> \in DOMAIN file THEN file[<<b, m>>] ELSE Missing
Row(b, m) == IF <<b, m>> \in DOMAIN registry THEN registry[<<b, m>>] ELSE Missing

SetAt(f, x, v) == [y \in DOMAIN f \cup {x} |-> IF y = x THEN v ELSE f[y]]

(* verify_registered_bundle: each file is there and its row has its hash.    *)
CompleteUnregistered(b) ==
  \A m \in Registered : At(b, m) # Missing /\ Row(b, m) \in {Missing, At(b, m)}
Complete(b) ==
  \A m \in Registered : At(b, m) # Missing /\ Row(b, m) = At(b, m)

Readable(b) == At(b, "main") # Missing /\ At(b, "main").intact

-----------------------------------------------------------------------------
(* What each verifier recomputes.                                            *)

LedgerCurrent(l) == /\ Readable(l) /\ Complete(l)
                    /\ l.ledger \subseteq evidence
                    /\ l.ledger \cap Imported \subseteq approved

ReviewCurrent(r) == /\ Readable(r) /\ Complete(r)
                    /\ LedgerCurrent(r.review)

(* The gates of evaluate_release, over a review with its ledger and a layout *)
(* check, for the paper the target names.                                    *)
SourceGate(target) == paper = target

(* The evidence that the release names is that of the ledger.               *)
References(in) ==
  {[id |-> e, semantics |-> Rows[e].semantics, digest |-> e,
    current |-> e \in Imported => e \in approved] : e \in in.review.review.ledger \cap evidence}

EvidenceGate(in) == /\ LedgerCurrent(in.review.review)
                    /\ in.review.review.ledger # {}
                    /\ \A e \in References(in) : Admissible(e)

ReviewState(r) == AggregateState({r.verdicts[c] : c \in DOMAIN r.verdicts}, Unverified)

ReviewGate(in) == /\ ReviewCurrent(in.review)
                  /\ ReviewState(in.review) \in Policy.states

LayoutVerdict == [p \in Papers |-> LayoutStatus(Layout[p], Humans[p], Policy.warnings)]

LayoutGate(in, target) ==
  IF Readable(in.qa) /\ Complete(in.qa) /\ in.qa.qa = target
  THEN LayoutVerdict[target] ELSE "blocked"

Gate(passes) == {IF passes THEN "passed" ELSE "blocked"}

ChecksOf(category, target) ==
  {CheckStatus(c, target, Policy) : c \in {c \in Checks[target] : CheckCategory(c) = category}}

(* The gate of the human reviews repeats that of the layout.                 *)
Gates(in, target) ==
  [source_integrity      |-> Gate(SourceGate(target)),
   scientific_evidence   |-> Gate(EvidenceGate(in)),
   scientific_review     |-> Gate(ReviewGate(in)),
   reviewer_resolution   |-> {MatrixStatus(Matrix, References(in), target, Policy)},
   pdf_layout_qa         |-> {LayoutGate(in, target)},
   human_approval        |-> {LayoutGate(in, target)},
   engineering_quality   |-> ChecksOf("engineering_quality", target),
   environment_readiness |-> ChecksOf("environment_readiness", target)]

Eligible(in, target) == Overall(Gates(in, target), Policy) = "ELIGIBLE"

Pins(in) == [ledger |-> At(in.review.review, "main"),
             review |-> At(in.review, "main"),
             qa     |-> At(in.qa, "main"),
             paper  |-> paper,
             domain |-> epoch]

Assess(in, target) ==
  [assesses |-> in, target |-> target, eligible |-> Eligible(in, target), pins |-> Pins(in)]

AssessmentStored(a) == Readable(a) /\ Complete(a)
AssessmentCurrent(a) == /\ Readable(a) /\ Complete(a)
                        /\ Assess(a.assesses, a.target) = a

World == [evidence |-> evidence, approved |-> approved, paper |-> paper]

(* release_authorization with the acknowledgement k answers AUTHORIZED.      *)
Authorized(k) == AssessmentCurrent(k.of) /\ k.of.eligible

-----------------------------------------------------------------------------
TypeOK ==
  /\ evidence \subseteq Evidence /\ approved \subseteq Imported
  /\ epoch \in 0..MaxChanges /\ paper \in Papers
  /\ \A p \in DOMAIN file : file[p] \in Files
  /\ \A p \in DOMAIN registry : registry[p] \in Files
  /\ \A b \in DOMAIN written : written[b] \in Nat \ {0}
  /\ damage \in 0..MaxDamage /\ kills \in 0..MaxKills

NoFile == [p \in {} |-> Missing]

Init ==
  /\ evidence = Evidence /\ approved = Imported /\ epoch = 0
  /\ paper \in Papers
  /\ file = NoFile /\ registry = NoFile /\ written = NoFile
  /\ call = Missing /\ payload = Missing /\ acks = {}
  /\ finished = {} /\ damaged = {} /\ damage = 0 /\ kills = 0

-----------------------------------------------------------------------------
(* A freeze call.                                                            *)

Freezing == call # Missing /\ "freeze" \in DOMAIN call

(* An existing member must be what the bundle says, but for created_at.      *)
CollidesExactly(b) ==
  \E m \in AllMembers : At(b, m) \notin {Missing, FileOf(b, m)}
Collides(b) ==
  \E m \in AllMembers : At(b, m) # Missing /\ ~At(b, m).intact

Within(b) == \/ \E p \in DOMAIN file : p[1] = b
             \/ Cardinality({p[1] : p \in DOMAIN file}) < MaxBundles

Begin(b, refused) ==
  LET absent == {m \in Members(b) : At(b, m) = Missing}
  IN /\ Within(b) \/ refused
     /\ call' = [freeze |-> b, absent |-> absent,
                 step |-> IF refused THEN "refused"
                          ELSE IF absent = {} THEN "main" ELSE "files"]

(* write_immutable_bundle looks at every member before it writes one.        *)
StartUnchecked(b) == Begin(b, FALSE)
Start(b) == Begin(b, Collides(b))

(* freeze_ledger: an import without its approval, or a query that cannot be  *)
(* answered, stops it before a file is written.                             *)
FreezeLedger ==
  /\ call = Missing
  /\ \E name \in DOMAIN Queries : LET q == Queries[name] IN
       /\ Selected(evidence, q) \cap Imported \subseteq approved
       /\ Freezable(evidence, q)
       /\ Start([ledger |-> Sources(evidence, q), query |-> name])
  /\ UNCHANGED <<facts, paper, disk, payload, acks, history>>

(* What review_claim and coverage_gate say of the claims.                    *)
Verdicts == {v \in [DOMAIN Claims -> {"reviewed", NeedsHuman, Failed, "not_reviewed"}] :
  \A c \in DOMAIN Claims : \E results \in Reviews(Claims[c], Known) : v[c] = Verdict(Claims[c].type, results)}

(* freeze_review over a ledger whose file is there, registered or not.       *)
FreezeReview ==
  /\ call = Missing
  /\ \E p \in DOMAIN file, v \in Verdicts :
       /\ Is("ledger", p[1]) /\ p[2] = "main"
       /\ Start([review |-> p[1], verdicts |-> v])
  /\ UNCHANGED <<facts, paper, disk, payload, acks, history>>

(* run_pdf_qa of the present PDF.                                            *)
RunPdfQA ==
  /\ call = Missing
  /\ Layout[paper].readable /\ Renderable(Layout[paper], FALSE) /\ Authentic(Humans[paper])
  /\ Start([qa |-> paper])
  /\ UNCHANGED <<facts, paper, disk, payload, acks, history>>

(* evaluate_release: reads only; the caller keeps the answer.                *)
EvaluateRelease ==
  /\ call = Missing /\ payload = Missing
  /\ \E r, q \in DOMAIN file :
       /\ Is("review", r[1]) /\ r[2] = "main"
       /\ Is("qa", q[1]) /\ q[2] = "main"
       /\ payload' = Assess([review |-> r[1], qa |-> q[1]], q[1].qa)
  /\ UNCHANGED <<facts, paper, disk, call, acks, history>>

(* freeze_assessment evaluates again and refuses what has changed since.     *)
FreezeAssessment ==
  /\ call = Missing /\ payload # Missing
  /\ IF Assess(payload.assesses, payload.target) = payload
       THEN Start(payload)
       ELSE Begin(payload, TRUE)
  /\ payload' = Missing
  /\ UNCHANGED <<facts, paper, disk, acks, history>>

(* One member that was absent: a temporary file renamed into place.          *)
WriteMember ==
  /\ Freezing /\ call.step = "files"
  /\ \E m \in call.absent :
       /\ \A n \in call.absent : Place[m] <= Place[n]
       /\ LET b == call.freeze
          IN /\ file' = SetAt(file, <<b, m>>, FileOf(b, m))
             /\ written' = IF m = "main" THEN SetAt(written, b, Written(b) + 1) ELSE written
       /\ call' = [call EXCEPT !.absent = @ \ {m},
                               !.step = IF call.absent = {m} THEN "main" ELSE @]
  /\ UNCHANGED <<facts, paper, registry, payload, acks, history>>

RegisterAnyway(b, m) == registry' = SetAt(registry, <<b, m>>, At(b, m))

Agrees(b, m) == Row(b, m) \in {Missing, At(b, m)}

(* register_immutable: a row that is there stays and must agree.             *)
Register(b, m) ==
  /\ Agrees(b, m)
  /\ registry' = IF Row(b, m) = Missing THEN SetAt(registry, <<b, m>>, At(b, m)) ELSE registry

RegisterMember ==
  /\ Freezing /\ call.step \in Registered
  /\ LET b == call.freeze
         m == call.step
     IN /\ Register(b, m)
        /\ call' = IF m = "main" THEN [call EXCEPT !.step = "manifest"] ELSE Missing
        /\ finished' = IF m = "manifest" THEN finished \cup {b} ELSE finished
  /\ UNCHANGED <<facts, paper, file, written, payload, acks, damaged, damage, kills>>

RegistryDisagrees ==
  /\ Freezing /\ call.step \in Registered
  /\ ~Agrees(call.freeze, call.step)
  /\ call' = [call EXCEPT !.step = "refused"]
  /\ UNCHANGED <<facts, paper, disk, payload, acks, history>>

Raise ==
  /\ Freezing /\ call.step = "refused"
  /\ call' = Missing
  /\ UNCHANGED <<facts, paper, disk, payload, acks, history>>

-----------------------------------------------------------------------------
(* The owner acknowledges an assessment: it is verified, then the record is  *)
(* written; the world may move between the two.                              *)

CheckAcknowledged ==
  /\ call = Missing
  /\ \E p \in DOMAIN file : LET a == p[1] IN
       /\ Is("assesses", a) /\ p[2] = "main"
       /\ AssessmentCurrent(a) /\ a.eligible
       /\ \A k \in acks : k.of # a
       /\ call' = [acknowledge |-> [of |-> a, seen |-> World]]
  /\ UNCHANGED <<facts, paper, disk, payload, acks, history>>

WriteAcknowledgement ==
  /\ call # Missing /\ "acknowledge" \in DOMAIN call
  /\ acks' = acks \cup {call.acknowledge}
  /\ call' = Missing
  /\ UNCHANGED <<facts, paper, disk, payload, history>>

(* The process is killed: its files and rows stay.                           *)
Kill ==
  /\ call # Missing /\ kills < MaxKills
  /\ call' = Missing /\ payload' = Missing
  /\ kills' = kills + 1
  /\ UNCHANGED <<facts, paper, disk, acks, finished, damaged, damage>>

-----------------------------------------------------------------------------
(* The rest of the workspace.                                                *)

RemoveEvidence ==
  /\ \E e \in evidence : evidence' = evidence \ {e}
  /\ UNCHANGED approved

Approve ==
  /\ \E e \in Imported \ approved : approved' = approved \cup {e}
  /\ UNCHANGED evidence

Revoke ==
  /\ \E e \in approved : approved' = approved \ {e}
  /\ UNCHANGED evidence

(* Rows carry times, so the tables never look as they did before.            *)
ChangeFacts ==
  /\ epoch < MaxChanges
  /\ epoch' = epoch + 1
  /\ RemoveEvidence \/ Approve \/ Revoke
  /\ UNCHANGED <<paper, disk, call, payload, acks, history>>

EditPaper ==
  /\ \E p \in Papers \ {paper} : paper' = p
  /\ UNCHANGED <<facts, disk, call, payload, acks, history>>

Without(f, x) == [y \in DOMAIN f \ {x} |-> f[y]]

(* A frozen file is altered or removed from outside.                         *)
Damage ==
  /\ call = Missing /\ damage < MaxDamage
  /\ \E p \in DOMAIN file :
       /\ \/ file' = [file EXCEPT ![p].intact = FALSE]
          \/ file' = Without(file, p)
       /\ damaged' = damaged \cup {p[1]}
  /\ damage' = damage + 1
  /\ UNCHANGED <<facts, paper, registry, written, call, payload, acks, finished, kills>>

Next == \/ FreezeLedger \/ FreezeReview \/ RunPdfQA
        \/ EvaluateRelease \/ FreezeAssessment
        \/ WriteMember \/ RegisterMember \/ RegistryDisagrees \/ Raise
        \/ CheckAcknowledged \/ WriteAcknowledgement \/ Kill
        \/ ChangeFacts \/ EditPaper \/ Damage

Spec == Init /\ [][Next]_vars

-----------------------------------------------------------------------------
(* What a row of the registry vouches for is the content the name of its     *)
(* bundle stands for, never bytes that were put there in between: a retry    *)
(* after a kill looks at the files again before it registers them.           *)
RegisteredIsFrozen == \A p \in DOMAIN registry : registry[p].intact

(* No retry heals a disagreement: once registered, a hash stays, and a file  *)
(* that is there is changed by nothing the program does.                     *)
NothingIsRewritten ==
  [][/\ \A p \in DOMAIN registry :
          p \in DOMAIN registry' /\ registry'[p] = registry[p]
     /\ damage' = damage =>
          \A p \in DOMAIN file : p \in DOMAIN file' /\ file'[p] = file[p]]_vars

(* A freeze that was killed anywhere can be run again to its end: it is      *)
(* refused only for a bundle that was damaged, or an assessment whose inputs *)
(* are no longer what they were (docs/u4c-reliability.md:79).                *)
Refused == Freezing /\ call.step = "refused"
RefusedForCause ==
  [][Refused' /\ ~Refused =>
       \/ call'.freeze \in damaged
       \/ /\ Is("assesses", call'.freeze)
          /\ Assess(call'.freeze.assesses, call'.freeze.target) # call'.freeze]_vars

(* What is authorized is what the owner acknowledged: when an acknowledgement *)
(* of it authorizes a release, the evidence, its approvals and the paper are *)
(* those of the moment at which the assessment was verified for it.          *)
AuthorizedAsAcknowledged == \A k \in acks : Authorized(k) => k.seen = World

(* No authority from half a freeze: every bundle under an authorized release *)
(* was frozen to its end at some time, not killed on the way.                *)
AuthorityIsFinished ==
  \A k \in acks : Authorized(k) =>
    {k.of, k.of.assesses.qa, k.of.assesses.review, k.of.assesses.review.review} \subseteq finished
=============================================================================
