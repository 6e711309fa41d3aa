----------------------------- MODULE Publication -----------------------------
(***************************************************************************)
(* Publishing and releasing a paper: PublicationEngine.publish with its     *)
(* repair rounds (paperforge/publication/), the inspection of the pages,    *)
(* and ReleaseVerifier.verify (paperforge/release.py) as the service's      *)
(* release calls it.  Every file that a publication consists of is written  *)
(* in a step of its own, so a killed call leaves a mixture of two of them,  *)
(* and the author may save the manuscript or change the claims at any time. *)
(*                                                                          *)
(* A manuscript is what it says (science), how it is set (layout), and the  *)
(* lines in front of its text (lines), which decide where its claims stand. *)
(* A file is Nothing or what it was made from; equal hashes are equal       *)
(* values.  Left out: the reports that are only written, the scan for       *)
(* secrets and the profile of the template, which read constant text.       *)
(***************************************************************************)
EXTENDS Naturals

CONSTANTS
  Sciences,     \* what an author may write
  Foreign,      \* what only a repairer writes, into the manuscript or the bibliography
  Bibs,         \* the bibliographies an author may write
  Layouts,      \* the settings of a manuscript
  CleanLayouts, \* those without a layout issue
  Stamps,       \* what tells two builds of one source apart
  MaxRounds,    \* max_rounds
  Nothing,      \* no such file
  Failed,       \* a manifest whose status is not "passed"
  MaxEdits, MaxCalls, MaxKills   \* bounds of the instance

ASSUME ContentAssumption == Foreign \notin Sciences /\ Foreign \notin Bibs /\ CleanLayouts \subseteq Layouts
ASSUME RoundsAssumption == MaxRounds \in 1..3
ASSUME BoundsAssumption == {MaxEdits, MaxCalls, MaxKills} \subseteq Nat

Texts == [science : Sciences \cup {Foreign}, layout : Layouts, lines : {0, 1}]
AllBibs == Bibs \cup {Foreign}
Sources == [tex : Texts, bib : AllBibs]
Builds == [of : Sources, stamp : Stamps]
Rounds == 1..MaxRounds
(* The claims of the database: on which lines the text they were imported   *)
(* from stood, for each text, and whether evidence supports all of them.    *)
Claims == [at : [Sciences -> {0, 1, Nothing}], ok : BOOLEAN]
ASSUME NothingAssumption == Nothing \notin Sources \cup Builds

VARIABLES
  tex, bib, claims,      \* the manuscript, the bibliography, the claims
  pdf, pages,            \* the PDF, the page images of each round
  zip, sum, lock,        \* the source bundle, its checksum, its source lock
  manifest, inspection,  \* the publication manifest, the page inspection
  completed,             \* the workflow row is COMPLETED
  call,                  \* the running call
  intact,                \* nothing changed since the last passed publication began
  torn,                  \* a repair was killed before it was verified or put back
  budget                 \* edits, calls and kills that are left

files == <<pdf, pages, zip, sum, lock, manifest>>
vars == <<tex, bib, claims, files, inspection, completed, call, intact, torn, budget>>

Now == [tex |-> tex, bib |-> bib]

(* The manifest of a passed publication: what the sources were when it was  *)
(* written, what publish started from, and the artifacts it names.  What a  *)
(* manifest with another status holds makes no difference.                  *)
Manifests == [source : Sources, start : Texts, claims : Claims,
              pdf : Builds, round : Rounds, zip : Sources]
ASSUME ManifestAssumption == Nothing \notin Manifests /\ Failed \notin Manifests
Inspections == [pdf : Builds, pages : Sources]
ASSUME InspectionAssumption == Nothing \notin Inspections

Steps == {"idle", "compile", "render", "diagnose", "repair",
          "write", "verify", "pack", "sum", "lock", "check", "manifest",
          "gate", "files", "invariants", "revalidate", "complete"}
RepairSteps == {"repair", "verify"}
ReleaseSteps == {"gate", "files", "invariants", "revalidate", "complete"}
EditKinds == {"edits", "calls", "kills"}
(* The running call: its step and round, the manuscript and bibliography    *)
(* publish started from and the claims it read, the text before the repair, *)
(* the proposed text, the source packed, whether the call has passed so     *)
(* far, whether nobody edited since it began, and whether a tool failed.    *)
Calls == [step : Steps, round : Rounds, start : Texts \cup {Nothing},
          bib : AllBibs \cup {Nothing}, claims : Claims \cup {Nothing},
          before : Texts \cup {Nothing}, proposal : Texts \cup {Nothing},
          packed : Sources \cup {Nothing},
          ok : BOOLEAN, quiet : BOOLEAN, flaky : BOOLEAN]
NoCall == [step |-> "idle", round |-> 1, start |-> Nothing, bib |-> Nothing,
           claims |-> Nothing, before |-> Nothing, proposal |-> Nothing,
           packed |-> Nothing, ok |-> TRUE, quiet |-> TRUE, flaky |-> FALSE]

Passed == manifest \notin {Nothing, Failed}
Idle == call.step = "idle"
Goto(step) == call' = [call EXCEPT !.step = step]
End == call' = NoCall
Fail == call' = [call EXCEPT !.step = "manifest", !.ok = FALSE,
                              !.before = Nothing, !.proposal = Nothing]
Spend(kind) == budget[kind] > 0 /\ budget' = [budget EXCEPT ![kind] = @ - 1]

----------------------------------------------------------------------------
(* claim_gate: every claim is supported by evidence of its kind.            *)
ClaimGate == claims.ok
(* Mutation: only the lines are compared.                                   *)
CoveredByPlace(text, known) == \E science \in Sciences : known.at[science] = text.lines
(* _claim_coverage: every sentence of the manuscript is a claim of the      *)
(* database, word for word and on the same lines.                           *)
Covered(text, known) == text.science \in Sciences /\ known.at[text.science] = text.lines
(* InvariantSnapshot.verify: blocks, citations, numbers, claims and prose   *)
(* are those of the snapshot; settings and blank space may differ.          *)
SameScience(text, snapshot) == text.science = snapshot.science
(* InvariantSnapshot.fingerprint adds what stands on the lines of a claim.  *)
SameFingerprint(text, snapshot) == SameScience(text, snapshot) /\ text.lines = snapshot.lines
Clean(source) == source.tex.layout \in CleanLayouts

Begin == Idle /\ Spend("calls")

(* publish: the claim gate and the coverage have passed, else it raises     *)
(* before it has changed anything.                                          *)
StartPublish ==
  /\ ClaimGate /\ Covered(tex, claims)
  /\ Begin
  /\ call' = [NoCall EXCEPT !.step = "compile", !.start = tex, !.bib = bib, !.claims = claims]
  /\ intact' = FALSE
  /\ UNCHANGED <<tex, bib, claims, files, inspection, completed, torn>>

----------------------------------------------------------------------------
(* PublicationCompiler.compile removes the old PDF first: it leaves the one  *)
(* it built from the files as they are now, or none.                        *)
Compile ==
  /\ call.step = "compile"
  /\ \/ /\ \E stamp \in Stamps : pdf' = [of |-> Now, stamp |-> stamp]
        /\ Goto("render")
     \/ pdf' = Nothing /\ Goto("diagnose")
  /\ UNCHANGED <<tex, bib, claims, pages, zip, sum, lock, manifest, inspection,
                 completed, intact, torn, budget>>
(* PopplerRenderer.render empties the directory of the round and fills it,  *)
(* or fails.                                                                *)
Render ==
  /\ call.step = "render"
  /\ \E image \in {pdf.of, Nothing} : pages' = [pages EXCEPT ![call.round] = image]
  /\ Goto("diagnose")
  /\ UNCHANGED <<tex, bib, claims, pdf, zip, sum, lock, manifest, inspection,
                 completed, intact, torn, budget>>

LastRound == call.round = MaxRounds
(* A clean round ends the repair if the manuscript as it is now still says  *)
(* what it said at the start; the last one is not repaired; else a repair   *)
(* begins from the text as it is now.                                       *)
IsClean == pdf # Nothing /\ pages[call.round] = pdf.of /\ Clean(pdf.of)
Diagnose ==
  /\ call.step = "diagnose"
  /\ IF IsClean THEN IF SameScience(tex, call.start) THEN Goto("pack") ELSE Fail
     ELSE IF LastRound THEN Fail
     ELSE call' = [call EXCEPT !.step = "repair", !.before = tex]
  /\ UNCHANGED <<tex, bib, claims, files, inspection, completed, intact, torn, budget>>

----------------------------------------------------------------------------
(* A repairer may be any program: it may write the files it was to leave    *)
(* alone.                                                                   *)
RepairerMeddles ==
  /\ call.step = "repair"
  /\ \/ tex' = [tex EXCEPT !.science = Foreign] /\ UNCHANGED bib
     \/ bib' = Foreign /\ UNCHANGED tex
  /\ UNCHANGED <<claims, files, inspection, completed, call, intact, torn, budget>>

Rollback == tex' = call.before /\ bib' = call.bib /\ Fail

(* It raises, or either file is not what it was: both are put back.         *)
RepairFails ==
  /\ call.step = "repair"
  /\ Rollback
  /\ UNCHANGED <<claims, files, inspection, completed, intact, torn, budget>>
(* It returns nothing, the same text, or a proposal: other settings, more   *)
(* lines in front of the text or, if it does not keep to the rules, another *)
(* content.                                                                 *)
Proposals == {text \in Texts : text.science \in {call.before.science, Foreign}
                               /\ text.lines >= call.before.lines}
RepairReturns ==
  /\ call.step = "repair"
  /\ tex = call.before /\ bib = call.bib
  /\ \/ Fail
     \/ \E text \in Proposals \ {call.before} :
          call' = [call EXCEPT !.step = "write", !.proposal = text]
  /\ UNCHANGED <<tex, bib, claims, files, inspection, completed, intact, torn, budget>>
WriteProposal ==
  /\ call.step = "write"
  /\ tex' = call.proposal
  /\ Goto("verify")
  /\ UNCHANGED <<bib, claims, files, inspection, completed, intact, torn, budget>>

(* Mutation: the proposal is not compared with the snapshot.                *)
ProposalUnchecked == bib = call.bib
ProposalKeeps == SameScience(call.proposal, call.start) /\ bib = call.bib
(* Mutation: the round is not counted.                                      *)
SameRound == call.round
NextRound == call.round + 1
(* transaction.verify reads the file, and finds a difference only inside a  *)
(* protected block; invariant.verify takes the proposed text.               *)
VerifyProposal ==
  /\ call.step = "verify"
  /\ \/ /\ ProposalKeeps
        /\ call' = [call EXCEPT !.step = "compile", !.round = NextRound,
                                  !.before = Nothing, !.proposal = Nothing]
        /\ UNCHANGED <<tex, bib>>
     \/ /\ ~ProposalKeeps \/ ~SameScience(tex, call.before)
        /\ Rollback
  /\ UNCHANGED <<claims, files, inspection, completed, intact, torn, budget>>

----------------------------------------------------------------------------
(* SourceBundler.build reads the sources and replaces the archive, or       *)
(* raises; the checksum and the lock follow.                                *)
Pack ==
  /\ call.step = "pack"
  /\ \/ Fail /\ UNCHANGED zip
     \/ zip' = Now /\ call' = [call EXCEPT !.step = "sum", !.packed = Now]
  /\ UNCHANGED <<tex, bib, claims, pdf, pages, sum, lock, manifest, inspection,
                 completed, intact, torn, budget>>
WriteSum ==
  /\ call.step = "sum"
  /\ sum' = zip
  /\ Goto("lock")
  /\ UNCHANGED <<tex, bib, claims, pdf, pages, zip, lock, manifest, inspection,
                 completed, intact, torn, budget>>
WriteLock ==
  /\ call.step = "lock"
  /\ lock' = call.packed
  /\ Goto("check")
  /\ UNCHANGED <<tex, bib, claims, pdf, pages, zip, sum, manifest, inspection,
                 completed, intact, torn, budget>>
(* verify_source_lock: the sources are still those of the lock.             *)
CheckLock ==
  /\ call.step = "check"
  /\ IF lock = Now THEN Goto("manifest") ELSE Fail
  /\ UNCHANGED <<tex, bib, claims, files, inspection, completed, intact, torn, budget>>

(* Mutation: it records the sources publish started from.                   *)
SourceAtStart == [tex |-> call.start, bib |-> call.bib]
SourceAtEnd == Now
(* The manifest comes last, of a failed publication too; it hashes the      *)
(* sources as they are now.                                                 *)
WriteManifest ==
  /\ call.step = "manifest"
  /\ manifest' = IF call.ok
                 THEN [source |-> SourceAtEnd, start |-> call.start, claims |-> call.claims,
                       pdf |-> pdf, round |-> call.round, zip |-> call.packed]
                 ELSE Failed
  /\ intact' = (call.ok /\ call.quiet)
  /\ End
  /\ UNCHANGED <<tex, bib, claims, pdf, pages, zip, sum, lock, inspection,
                 completed, torn, budget>>

(* write_page_inspection: somebody looks at the pages of a round.           *)
Inspect(round) ==
  /\ Idle
  /\ pdf # Nothing /\ pages[round] # Nothing
  /\ inspection' = [pdf |-> pdf, pages |-> pages[round]]
  /\ UNCHANGED <<tex, bib, claims, files, completed, call, intact, torn, budget>>

----------------------------------------------------------------------------
StartRelease ==
  /\ Begin
  /\ call' = [NoCall EXCEPT !.step = "gate"]
  /\ UNCHANGED <<tex, bib, claims, files, inspection, completed, intact, torn>>

(* Every check is made and its answer kept; none of them ends the call.     *)
Judge(step, here, next) ==
  /\ call.step = step
  /\ call' = [call EXCEPT !.step = next, !.ok = @ /\ here]
  /\ UNCHANGED <<tex, bib, claims, files, inspection, completed, intact, torn, budget>>

ReleaseGate == Judge("gate", ClaimGate, "files")

(* _verify_page_inspection: the inspection is of this PDF and these pages.   *)
Inspected == /\ inspection # Nothing /\ inspection.pdf = pdf
             /\ inspection.pages = pages[manifest.round]
(* The manifest names the files there are, the lock is that of the sources. *)
FilesAgree ==
  /\ Passed
  /\ pdf # Nothing /\ pdf = manifest.pdf
  /\ pages[manifest.round] # Nothing /\ Inspected
  /\ zip = manifest.zip /\ sum = zip
  /\ lock = manifest.zip /\ lock = Now
ReleaseFiles == Judge("files", FilesAgree, "invariants")

(* _source_invariants: the sources, the claims and the fingerprint are the  *)
(* manifest's, and the claims cover the manuscript.                         *)
SourceInvariants ==
  /\ Passed
  /\ Now = manifest.source /\ claims = manifest.claims
  /\ SameFingerprint(tex, manifest.start) /\ Covered(tex, claims)
ReleaseInvariants == Judge("invariants", SourceInvariants, "revalidate")

(* Mutation: the rebuilt pages are not compared with the official ones.     *)
NotRebuilt == pages[manifest.round] = pdf.of /\ Clean(zip)
(* The bundle is built again: clean, and its pages are those of the PDF,    *)
(* which are those that were inspected.                                     *)
Rebuilt == pages[manifest.round] = pdf.of /\ zip = pdf.of /\ Clean(zip)
(* _revalidate_publication, unless artifacts are missing or a tool fails.   *)
Revalidate ==
  \/ /\ IF Passed /\ pdf # Nothing /\ zip # Nothing /\ lock # Nothing
        THEN Judge("revalidate", lock = manifest.zip /\ zip = lock /\ Rebuilt, "complete")
        ELSE Judge("revalidate", FALSE, "complete")
  \/ /\ call.step = "revalidate"
     /\ call' = [call EXCEPT !.step = "complete", !.ok = FALSE, !.flaky = TRUE]
     /\ UNCHANGED <<tex, bib, claims, files, inspection, completed, intact, torn, budget>>

(* The transition to COMPLETED is refused unless every gate passed.         *)
Complete ==
  /\ call.step = "complete"
  /\ completed' = (completed \/ call.ok)
  /\ End
  /\ UNCHANGED <<tex, bib, claims, files, inspection, intact, torn, budget>>

----------------------------------------------------------------------------
Disturb == call' = IF Idle THEN call ELSE [call EXCEPT !.quiet = FALSE]
(* The author saves the manuscript, with one thing changed, or the          *)
(* bibliography.                                                            *)
EditTex ==
  /\ Spend("edits")
  /\ \/ \E science \in Sciences : tex' = [tex EXCEPT !.science = science]
     \/ tex.science # Foreign /\ \E layout \in Layouts : tex' = [tex EXCEPT !.layout = layout]
     \/ tex.science # Foreign /\ tex' = [tex EXCEPT !.lines = 1 - @]
  /\ tex' # tex
  /\ Disturb
  /\ intact' = FALSE /\ torn' = (torn /\ (~Idle \/ bib = Foreign))
  /\ UNCHANGED <<bib, claims, files, inspection, completed>>
EditBib ==
  /\ Spend("edits")
  /\ \E other \in Bibs \ {bib} : bib' = other
  /\ Disturb
  /\ intact' = FALSE /\ torn' = (torn /\ (~Idle \/ tex.science = Foreign))
  /\ UNCHANGED <<tex, claims, files, inspection, completed>>
(* import_latex_claims from the manuscript as it is, which moves a claim of *)
(* the same text; or a claim loses its evidence, or gets it.                *)
ChangeClaims ==
  /\ Spend("edits")
  /\ \/ /\ tex.science # Foreign
        /\ claims' = [claims EXCEPT !.at[tex.science] = tex.lines]
     \/ claims' = [claims EXCEPT !.ok = ~ @]
  /\ claims' # claims
  /\ Disturb
  /\ intact' = FALSE
  /\ UNCHANGED <<tex, bib, files, inspection, completed, torn>>

(* The process is killed between two steps of a call.                       *)
Kill ==
  /\ ~Idle
  /\ Spend("kills")
  /\ End
  /\ torn' = (torn \/ tex.science = Foreign \/ bib = Foreign)
  /\ UNCHANGED <<tex, bib, claims, files, inspection, completed, intact>>

----------------------------------------------------------------------------
Init ==
  /\ tex \in {text \in Texts : text.science # Foreign /\ text.lines = 0}
  /\ bib \in Bibs
  /\ claims = [at |-> [s \in Sciences |-> IF s = tex.science THEN 0 ELSE Nothing], ok |-> TRUE]
  /\ pdf = Nothing /\ pages = [r \in Rounds |-> Nothing]
  /\ zip = Nothing /\ sum = Nothing /\ lock = Nothing
  /\ manifest = Nothing /\ inspection = Nothing
  /\ completed = FALSE /\ intact = FALSE /\ torn = FALSE
  /\ call = NoCall
  /\ budget = [edits |-> MaxEdits, calls |-> MaxCalls, kills |-> MaxKills]

Publish == \/ Compile \/ Render \/ Diagnose
           \/ RepairFails \/ RepairReturns \/ WriteProposal \/ VerifyProposal
           \/ Pack \/ WriteSum \/ WriteLock \/ CheckLock \/ WriteManifest
Release == ReleaseGate \/ ReleaseFiles \/ ReleaseInvariants \/ Revalidate \/ Complete
Owner == \/ StartPublish \/ StartRelease \/ EditTex \/ EditBib \/ ChangeClaims
         \/ \E round \in Rounds : Inspect(round)
Next == Publish \/ Release \/ RepairerMeddles \/ Owner \/ Kill

Spec == Init /\ [][Next]_vars
(* A call that has begun is carried on: every command it runs has a         *)
(* timeout.                                                                 *)
FairSpec == Spec /\ WF_vars(Publish \/ Release)

----------------------------------------------------------------------------
TypeOK ==
  /\ tex \in Texts /\ bib \in AllBibs /\ claims \in Claims
  /\ pdf \in Builds \cup {Nothing}
  /\ pages \in [Rounds -> Sources \cup {Nothing}]
  /\ {zip, sum, lock} \subseteq Sources \cup {Nothing}
  /\ manifest \in Manifests \cup {Nothing, Failed}
  /\ inspection \in Inspections \cup {Nothing}
  /\ call \in Calls
  /\ {completed, intact, torn} \subseteq BOOLEAN
  /\ budget \in [EditKinds -> Nat]

(* What a repairer wrote on its own account is in the sources only while    *)
(* its round runs, or when it was killed there: every other way out of a    *)
(* round puts the manuscript and the bibliography back.  (The rollbacks of  *)
(* publish.)                                                                *)
ScienceIsAuthored ==
  tex.science = Foreign \/ bib = Foreign => torn \/ call.step \in RepairSteps

(* The files a publication consists of belong together.                     *)
Whole ==
  /\ pdf # Nothing /\ Clean(pdf.of)
  /\ zip = pdf.of /\ sum = zip /\ lock = zip
  /\ Passed /\ manifest.pdf = pdf /\ manifest.zip = zip
  /\ pages[manifest.round] = pdf.of
  /\ inspection = [pdf |-> pdf, pages |-> pdf.of]
(* A workflow is completed only while the PDF, its bundle, checksum and     *)
(* lock, the manifest, the pages and their inspection all come from one     *)
(* publication, whatever killed calls and the author's edits left behind.   *)
(* (release and the checks of ReleaseVerifier.)                             *)
OnlyWholeIsReleased == [][completed' # completed => Whole]_vars

(* If nobody edits while release runs, the claims of the database support   *)
(* every sentence of the released bundle.  (Claim gate, coverage, source lock and   *)
(* source invariants, each of which sees only a part.)                      *)
SupportedIsReleased ==
  [][completed' # completed /\ call.quiet =>
       /\ claims.ok
       /\ zip.tex.science \in Sciences /\ claims.at[zip.tex.science] = zip.tex.lines]_vars

(* The repair put lines in front of the text, so that its claims no longer  *)
(* stand where the database has them.                                       *)
Shifted == manifest.source.tex.lines # manifest.start.lines
(* release refuses a passed publication only for a reason: somebody edited  *)
(* or published since it began, its pages were not inspected, its own       *)
(* repair has moved the claims, or a tool failed.                           *)
RefusalHasCause ==
  [][call.step = "complete" /\ ~call.ok /\ call'.step = "idle" =>
       \/ ~intact \/ Shifted \/ call.flaky
       \/ inspection # [pdf |-> pdf, pages |-> pdf.of]
       \/ ~call.quiet]_vars

(* Every call ends: the rounds are bounded, and a kill is an end too.       *)
(* (max_rounds and the breaks of publish.)                                  *)
CallsEnd == ~Idle ~> Idle
=============================================================================
