-------------------------- MODULE PublicationProofs --------------------------
(***************************************************************************)
(* For every set of texts and tools and any number of edits, calls, rounds  *)
(* and kills: a repair leaves nothing of its own behind, and what release   *)
(* completes is one whole publication whose sentences the claims support.   *)
(***************************************************************************)
EXTENDS Publication, TLAPS

PublishSteps == {"compile", "render", "diagnose", "repair", "write", "verify",
                 "pack", "sum", "lock", "check", "manifest"}
Rebuilding == {"repair", "write", "verify"}
Packing == {"sum", "lock", "check"}
Built == {"render", "pack", "sum", "lock", "check"}

(* What a call has filled in by the step it has reached.                    *)
CallOK ==
  /\ call.step \in PublishSteps =>
       call.start \in Texts /\ call.bib \in AllBibs /\ call.claims \in Claims
  /\ call.step \in Rebuilding => call.before \in Texts /\ call.round # MaxRounds
  /\ call.step \in {"write", "verify"} => call.proposal \in Texts
  /\ call.step \in Packing \/ (call.step = "manifest" /\ call.ok) => call.packed \in Sources
  /\ call.step \in Built \/ (call.step = "manifest" /\ call.ok) => pdf \in Builds

TypeInv == TypeOK /\ CallOK

(* The ways in which a step changes the record of the call.                 *)
LEMMA GotoFacts ==
  ASSUME call \in Calls, NEW step \in Steps, Goto(step)
  PROVE  /\ call' \in Calls /\ call'.step = step
         /\ call'.round = call.round /\ call'.start = call.start /\ call'.bib = call.bib
         /\ call'.claims = call.claims /\ call'.before = call.before
         /\ call'.proposal = call.proposal /\ call'.packed = call.packed
         /\ call'.ok = call.ok /\ call'.quiet = call.quiet
  BY DEF Calls, Goto

LEMMA FailFacts ==
  ASSUME call \in Calls, Fail
  PROVE  /\ call' \in Calls /\ call'.step = "manifest" /\ call'.ok = FALSE
         /\ call'.start = call.start /\ call'.bib = call.bib
         /\ call'.claims = call.claims /\ call'.quiet = call.quiet
<1>1. "manifest" \in Steps /\ FALSE \in BOOLEAN
  BY DEF Steps
<1> QED  BY <1>1 DEF Calls, Fail

LEMMA NoCallFacts == NoCall \in Calls /\ NoCall.step = "idle"
<1>1. 1 \in Rounds
  BY RoundsAssumption DEF Rounds
<1>2. "idle" \in Steps
  BY DEF Steps
<1> QED  BY <1>1, <1>2 DEF Calls, NoCall

LEMMA DisturbFacts ==
  ASSUME call \in Calls, Disturb
  PROVE  /\ call' \in Calls /\ call'.step = call.step
         /\ call'.round = call.round /\ call'.start = call.start /\ call'.bib = call.bib
         /\ call'.claims = call.claims /\ call'.before = call.before
         /\ call'.proposal = call.proposal /\ call'.packed = call.packed
         /\ call'.ok = call.ok /\ call'.flaky = call.flaky
         /\ ~Idle => ~call'.quiet
<1>1. CASE Idle
  BY <1>1 DEF Disturb
<1>2. CASE ~Idle
  BY <1>2 DEF Disturb, Calls
<1> QED  BY <1>1, <1>2

LEMMA JudgeFacts ==
  ASSUME call \in Calls, NEW step \in Steps, NEW here, NEW next \in Steps,
         Judge(step, here, next)
  PROVE  /\ call' \in Calls /\ call.step = step /\ call'.step = next
         /\ call'.ok = (call.ok /\ here)
         /\ call'.quiet = call.quiet /\ call'.flaky = call.flaky
         /\ UNCHANGED <<tex, bib, claims, files, inspection, completed, intact, torn, budget>>
<1>1. (call.ok /\ here) \in BOOLEAN
  OBVIOUS
<1> QED  BY <1>1 DEF Judge, Calls

(* A spent edit, call or kill leaves a budget.                              *)
LEMMA SpendFacts ==
  ASSUME budget \in [EditKinds -> Nat], NEW kind \in EditKinds, Spend(kind)
  PROVE  budget' \in [EditKinds -> Nat]
  BY DEF Spend

LEMMA InitTypes == Init => TypeInv
<1> SUFFICES ASSUME Init PROVE TypeInv
  OBVIOUS
<1>1. tex \in Texts /\ bib \in AllBibs
  BY DEF Init, AllBibs
<1>2. claims \in Claims
  BY DEF Init, Claims
<1>3. call \in Calls /\ call.step = "idle"
  BY NoCallFacts DEF Init
<1>4. budget \in [EditKinds -> Nat]
  BY BoundsAssumption DEF Init, EditKinds
<1>5. pages \in [Rounds -> Sources \cup {Nothing}]
  BY DEF Init
<1>6. TypeOK
  BY <1>1, <1>2, <1>3, <1>4, <1>5 DEF Init, TypeOK
<1>7. CallOK
  BY <1>3 DEF CallOK, PublishSteps, Rebuilding, Packing, Built
<1> QED  BY <1>6, <1>7 DEF TypeInv

(* Compiling and looking at the pages.                                      *)
LEMMA CompileTypes == TypeInv /\ Compile => TypeInv'
<1> SUFFICES ASSUME TypeInv, Compile PROVE TypeInv'
  OBVIOUS
<1>0. /\ Now \in Sources /\ call \in Calls
      /\ "render" \in Steps /\ "diagnose" \in Steps
  BY DEF TypeInv, TypeOK, Now, Sources, Steps
<1>1. \/ pdf' \in Builds /\ Goto("render")
      \/ pdf' = Nothing /\ Goto("diagnose")
  <2>1. ASSUME NEW stamp \in Stamps PROVE [of |-> Now, stamp |-> stamp] \in Builds
    BY <1>0 DEF Builds
  <2> QED  BY <2>1 DEF Compile
<1>2. /\ call' \in Calls
      /\ call'.step = "diagnose" \/ (call'.step = "render" /\ pdf' \in Builds)
      /\ call'.start = call.start /\ call'.bib = call.bib /\ call'.claims = call.claims
  BY <1>0, <1>1, GotoFacts
<1>3. TypeOK'
  BY <1>1, <1>2 DEF TypeInv, TypeOK, Compile
<1>4. CallOK'
  BY <1>2 DEF TypeInv, CallOK, Compile, PublishSteps, Rebuilding, Packing, Built
<1> QED  BY <1>3, <1>4 DEF TypeInv

LEMMA RenderTypes == TypeInv /\ Render => TypeInv'
<1> SUFFICES ASSUME TypeInv, Render PROVE TypeInv'
  OBVIOUS
<1>1. call \in Calls /\ "diagnose" \in Steps /\ call.step = "render" /\ Goto("diagnose")
  BY DEF TypeInv, TypeOK, Steps, Render
<1>2. /\ call' \in Calls /\ call'.step = "diagnose"
      /\ call'.start = call.start /\ call'.bib = call.bib /\ call'.claims = call.claims
  BY <1>1, GotoFacts
<1>3. pdf \in Builds
  BY <1>1 DEF TypeInv, CallOK, Built
<1>4. pages' \in [Rounds -> Sources \cup {Nothing}]
  BY <1>3 DEF TypeInv, TypeOK, Render, Builds
<1>5. TypeOK'
  BY <1>2, <1>4 DEF TypeInv, TypeOK, Render
<1>6. CallOK'
  BY <1>1, <1>2 DEF TypeInv, CallOK, Render, PublishSteps, Rebuilding, Packing, Built
<1> QED  BY <1>5, <1>6 DEF TypeInv

LEMMA DiagnoseTypes == TypeInv /\ Diagnose => TypeInv'
<1> SUFFICES ASSUME TypeInv, Diagnose PROVE TypeInv'
  OBVIOUS
<1> USE DEF TypeInv
<1>1. call \in Calls /\ tex \in Texts /\ call.step = "diagnose" /\ {"pack", "repair"} \subseteq Steps
  BY DEF TypeOK, Steps, Diagnose
<1>2. CASE IsClean /\ Goto("pack")
  <2>1. /\ call' \in Calls /\ call'.step = "pack"
        /\ call'.start = call.start /\ call'.bib = call.bib /\ call'.claims = call.claims
    BY <1>1, <1>2, GotoFacts
  <2>2. pdf \in Builds
    BY <1>2 DEF IsClean, TypeOK
  <2>3. CallOK'
    BY <1>1, <2>1, <2>2 DEF CallOK, Diagnose, files, PublishSteps, Rebuilding, Packing, Built
  <2>4. TypeOK'
    BY <2>1 DEF TypeOK, Diagnose, files
  <2> QED  BY <2>3, <2>4
<1>3. CASE Fail
  <2>1. CallOK'
    BY <1>1, <1>3, FailFacts DEF CallOK, Diagnose, files, PublishSteps, Rebuilding, Packing, Built
  <2>2. TypeOK'
    BY <1>1, <1>3, FailFacts DEF TypeOK, Diagnose, files
  <2> QED  BY <2>1, <2>2
<1>4. CASE ~LastRound /\ call' = [call EXCEPT !.step = "repair", !.before = tex]
  <2>1. /\ call' \in Calls /\ call'.step = "repair" /\ call'.before = tex
        /\ call'.round = call.round /\ call'.start = call.start /\ call'.bib = call.bib
        /\ call'.claims = call.claims
    BY <1>1, <1>4 DEF Calls
  <2>2. CallOK'
    BY <1>1, <1>4, <2>1 DEF CallOK, Diagnose, LastRound, PublishSteps, Rebuilding, Packing, Built
  <2>3. TypeOK'
    BY <2>1 DEF TypeOK, Diagnose, files
  <2> QED  BY <2>2, <2>3
<1> QED  BY <1>2, <1>3, <1>4 DEF Diagnose

(* The steps of a repair.                                                   *)
LEMMA RollbackTypes ==
  ASSUME TypeInv, call.step \in Rebuilding, Rollback,
         UNCHANGED <<claims, files, inspection, completed, intact, torn, budget>>
  PROVE  TypeInv'
<1>1. call.step \in PublishSteps /\ call \in Calls
  BY DEF TypeInv, TypeOK, Rebuilding, PublishSteps
<1>2. tex' \in Texts /\ bib' \in AllBibs
  BY <1>1 DEF TypeInv, CallOK, Rollback
<1>3. TypeOK'
  BY <1>1, <1>2, FailFacts DEF TypeInv, TypeOK, Rollback, files
<1>4. CallOK'
  BY <1>1, FailFacts DEF TypeInv, CallOK, Rollback, files, PublishSteps, Rebuilding, Packing, Built
<1> QED  BY <1>3, <1>4 DEF TypeInv

LEMMA RepairTypes ==
  TypeInv /\ (RepairFails \/ RepairReturns \/ RepairerMeddles) => TypeInv'
<1> SUFFICES ASSUME TypeInv, RepairFails \/ RepairReturns \/ RepairerMeddles PROVE TypeInv'
  OBVIOUS
<1>1. /\ call \in Calls /\ call.step = "repair" /\ call.step \in Rebuilding
      /\ tex \in Texts /\ bib \in AllBibs
  BY DEF TypeInv, TypeOK, RepairFails, RepairReturns, RepairerMeddles, Rebuilding
<1>2. /\ call.before \in Texts /\ call.round # MaxRounds
      /\ call.start \in Texts /\ call.bib \in AllBibs /\ call.claims \in Claims
  BY <1>1 DEF TypeInv, CallOK, PublishSteps
<1>3. CASE RepairFails
  BY <1>1, <1>3, RollbackTypes DEF RepairFails
<1>4. CASE RepairReturns /\ Fail
  <2>1. TypeOK'
    BY <1>1, <1>4, FailFacts DEF TypeInv, TypeOK, RepairReturns, files
  <2>2. CallOK'
    BY <1>1, <1>2, <1>4, FailFacts
       DEF CallOK, RepairReturns, files, PublishSteps, Rebuilding, Packing, Built
  <2> QED  BY <2>1, <2>2 DEF TypeInv
<1>5. CASE RepairReturns /\ ~Fail
  <2>1. PICK text \in Texts : call' = [call EXCEPT !.step = "write", !.proposal = text]
    BY <1>5 DEF RepairReturns, Proposals
  <2>2. "write" \in Steps
    BY DEF Steps
  <2>3. /\ call' \in Calls /\ call'.step = "write" /\ call'.proposal = text
        /\ call'.before = call.before /\ call'.round = call.round
        /\ call'.start = call.start /\ call'.bib = call.bib /\ call'.claims = call.claims
    BY <1>1, <2>1, <2>2 DEF Calls
  <2>4. TypeOK'
    BY <1>5, <2>3 DEF TypeInv, TypeOK, RepairReturns, files
  <2>5. CallOK'
    BY <1>2, <1>5, <2>3
       DEF CallOK, RepairReturns, files, PublishSteps, Rebuilding, Packing, Built
  <2> QED  BY <2>4, <2>5 DEF TypeInv
<1>6. CASE RepairerMeddles
  <2>1. [tex EXCEPT !.science = Foreign] \in Texts /\ Foreign \in AllBibs
    BY <1>1 DEF Texts, AllBibs
  <2>2. tex' \in Texts /\ bib' \in AllBibs
    BY <1>1, <1>6, <2>1 DEF RepairerMeddles
  <2>3. TypeOK'
    BY <1>6, <2>2 DEF TypeInv, TypeOK, RepairerMeddles, files
  <2>4. CallOK'
    BY <1>6 DEF TypeInv, CallOK, RepairerMeddles, files
  <2> QED  BY <2>3, <2>4 DEF TypeInv
<1> QED  BY <1>3, <1>4, <1>5, <1>6

LEMMA WriteTypes == TypeInv /\ WriteProposal => TypeInv'
<1> SUFFICES ASSUME TypeInv, WriteProposal PROVE TypeInv'
  OBVIOUS
<1>1. call \in Calls /\ call.step = "write" /\ "verify" \in Steps /\ Goto("verify")
  BY DEF TypeInv, TypeOK, Steps, WriteProposal
<1>2. /\ call' \in Calls /\ call'.step = "verify" /\ call'.before = call.before
      /\ call'.round = call.round /\ call'.proposal = call.proposal
      /\ call'.start = call.start /\ call'.bib = call.bib /\ call'.claims = call.claims
  BY <1>1, GotoFacts
<1>3. tex' \in Texts
  BY <1>1 DEF TypeInv, CallOK, WriteProposal
<1>4. TypeOK'
  BY <1>2, <1>3 DEF TypeInv, TypeOK, WriteProposal, files
<1>5. CallOK'
  BY <1>1, <1>2
     DEF TypeInv, CallOK, WriteProposal, files, PublishSteps, Rebuilding, Packing, Built
<1> QED  BY <1>4, <1>5 DEF TypeInv

LEMMA VerifyTypes == TypeInv /\ VerifyProposal => TypeInv'
<1> SUFFICES ASSUME TypeInv, VerifyProposal PROVE TypeInv'
  OBVIOUS
<1>1. call \in Calls /\ call.step = "verify" /\ call.step \in Rebuilding
  BY DEF TypeInv, TypeOK, VerifyProposal, Rebuilding
<1>2. CASE Rollback
  BY <1>1, <1>2, RollbackTypes DEF VerifyProposal
<1>3. CASE ~Rollback
  <2>1. call' = [call EXCEPT !.step = "compile", !.round = call.round + 1,
                              !.before = Nothing, !.proposal = Nothing]
    BY <1>3 DEF VerifyProposal, NextRound
  <2>2. "compile" \in Steps /\ call.round + 1 \in Rounds
    BY <1>1, RoundsAssumption DEF TypeInv, CallOK, Steps, Calls, Rounds
  <2>3. /\ call' \in Calls /\ call'.step = "compile"
        /\ call'.start = call.start /\ call'.bib = call.bib /\ call'.claims = call.claims
    BY <1>1, <2>1, <2>2 DEF Calls
  <2>4. TypeOK'
    BY <1>3, <2>3 DEF TypeInv, TypeOK, VerifyProposal, files
  <2>5. CallOK'
    BY <1>1, <2>3 DEF TypeInv, CallOK, PublishSteps, Rebuilding, Packing, Built
  <2> QED  BY <2>4, <2>5 DEF TypeInv
<1> QED  BY <1>2, <1>3

(* Packing the sources and recording the publication.                       *)
LEMMA PackTypes == TypeInv /\ Pack => TypeInv'
<1> SUFFICES ASSUME TypeInv, Pack PROVE TypeInv'
  OBVIOUS
<1>1. call \in Calls /\ call.step = "pack" /\ Now \in Sources /\ "sum" \in Steps
  BY DEF TypeInv, TypeOK, Pack, Now, Sources, Steps
<1>2. CASE Fail /\ UNCHANGED zip
  <2>1. TypeOK'
    BY <1>1, <1>2, FailFacts DEF TypeInv, TypeOK, Pack
  <2>2. CallOK'
    BY <1>1, <1>2, FailFacts DEF TypeInv, CallOK, Pack, PublishSteps, Rebuilding, Packing, Built
  <2> QED  BY <2>1, <2>2 DEF TypeInv
<1>3. CASE zip' = Now /\ call' = [call EXCEPT !.step = "sum", !.packed = Now]
  <2>1. /\ call' \in Calls /\ call'.step = "sum" /\ call'.packed = Now
        /\ call'.start = call.start /\ call'.bib = call.bib /\ call'.claims = call.claims
    BY <1>1, <1>3 DEF Calls
  <2>2. TypeOK'
    BY <1>1, <1>3, <2>1 DEF TypeInv, TypeOK, Pack
  <2>3. CallOK'
    BY <1>1, <2>1 DEF TypeInv, CallOK, Pack, PublishSteps, Rebuilding, Packing, Built
  <2> QED  BY <2>2, <2>3 DEF TypeInv
<1> QED  BY <1>2, <1>3 DEF Pack

LEMMA LockTypes == TypeInv /\ (WriteSum \/ WriteLock \/ CheckLock) => TypeInv'
<1> SUFFICES ASSUME TypeInv, WriteSum \/ WriteLock \/ CheckLock PROVE TypeInv'
  OBVIOUS
<1>1. /\ call \in Calls /\ call.step \in Packing
      /\ "lock" \in Steps /\ "check" \in Steps /\ "manifest" \in Steps
  BY DEF TypeInv, TypeOK, WriteSum, WriteLock, CheckLock, Packing, Steps
<1>2. call.packed \in Sources /\ pdf \in Builds
  BY <1>1 DEF TypeInv, CallOK, Packing, Built
<1>3. CASE Fail /\ CheckLock
  <2>1. TypeOK'
    BY <1>1, <1>3, FailFacts DEF TypeInv, TypeOK, CheckLock, files
  <2>2. CallOK'
    BY <1>1, <1>3, FailFacts
       DEF TypeInv, CallOK, CheckLock, files, PublishSteps, Rebuilding, Packing, Built
  <2> QED  BY <2>1, <2>2 DEF TypeInv
<1>4. CASE ~(Fail /\ CheckLock)
  <2>1. Goto("lock") \/ Goto("check") \/ Goto("manifest")
    BY <1>4 DEF WriteSum, WriteLock, CheckLock
  <2>2. /\ call' \in Calls /\ call'.step \in {"lock", "check", "manifest"}
        /\ call'.packed = call.packed
        /\ call'.start = call.start /\ call'.bib = call.bib /\ call'.claims = call.claims
    BY <1>1, <2>1, GotoFacts
  <2>3. /\ sum' \in Sources \cup {Nothing} /\ lock' \in Sources \cup {Nothing}
        /\ UNCHANGED <<tex, bib, claims, pdf, pages, zip, manifest, inspection,
                       completed, intact, torn, budget>>
    BY <1>2 DEF TypeInv, TypeOK, WriteSum, WriteLock, CheckLock, files
  <2>4. TypeOK'
    BY <2>2, <2>3 DEF TypeInv, TypeOK
  <2>5. CallOK'
    BY <1>1, <1>2, <2>2, <2>3
       DEF TypeInv, CallOK, PublishSteps, Rebuilding, Packing, Built
  <2> QED  BY <2>4, <2>5 DEF TypeInv
<1> QED  BY <1>3, <1>4

(* A step of no publication has nothing to fill in.                         *)
LEMMA OutsideNext == ASSUME call'.step \notin PublishSteps PROVE CallOK'
  BY DEF CallOK, PublishSteps, Rebuilding, Packing, Built

LEMMA NoCallOutside == NoCall \in Calls /\ NoCall.step \notin PublishSteps
  BY NoCallFacts DEF PublishSteps

LEMMA ManifestTypes == TypeInv /\ WriteManifest => TypeInv'
<1> SUFFICES ASSUME TypeInv, WriteManifest PROVE TypeInv'
  OBVIOUS
<1>1. call \in Calls /\ call.step = "manifest" /\ Now \in Sources /\ SourceAtEnd = Now
  BY DEF TypeInv, TypeOK, WriteManifest, Now, Sources, SourceAtEnd
<1>2. call.start \in Texts /\ call.claims \in Claims /\ call.round \in Rounds
  BY <1>1 DEF TypeInv, CallOK, PublishSteps, Calls
<1>3. manifest' \in Manifests \cup {Nothing, Failed}
  <2>1. CASE call.ok
    <3>1. call.packed \in Sources /\ pdf \in Builds
      BY <1>1, <2>1 DEF TypeInv, CallOK
    <3> QED  BY <1>1, <1>2, <2>1, <3>1 DEF WriteManifest, Manifests
  <2>2. CASE ~call.ok
    BY <2>2 DEF WriteManifest
  <2> QED  BY <2>1, <2>2
<1>4. intact' \in BOOLEAN
  BY DEF WriteManifest
<1>5. TypeOK'
  BY <1>3, <1>4, NoCallOutside DEF TypeInv, TypeOK, WriteManifest, End
<1>6. CallOK'
  BY NoCallOutside, OutsideNext DEF WriteManifest, End
<1> QED  BY <1>5, <1>6 DEF TypeInv

----------------------------------------------------------------------------
(* What the owner of the paper does between the calls.                      *)
LEMMA InspectTypes ==
  ASSUME TypeInv, NEW round \in Rounds, Inspect(round)
  PROVE  TypeInv'
<1>1. inspection' \in Inspections
  BY DEF TypeInv, TypeOK, Inspect, Inspections
<1>2. TypeOK'
  BY <1>1 DEF TypeInv, TypeOK, Inspect, files
<1>3. CallOK'
  BY DEF TypeInv, CallOK, Inspect, files
<1> QED  BY <1>2, <1>3 DEF TypeInv

LEMMA StartFacts ==
  ASSUME TypeInv, StartPublish
  PROVE  /\ call' \in Calls /\ call'.step = "compile" /\ call'.start = tex
         /\ call'.bib = bib /\ call'.claims = claims /\ call'.ok = TRUE /\ call'.quiet = TRUE
<1>1. tex \in Texts /\ bib \in AllBibs /\ claims \in Claims /\ "compile" \in Steps
  BY DEF TypeInv, TypeOK, Steps
<1>2. call' = [NoCall EXCEPT !.step = "compile", !.start = tex, !.bib = bib, !.claims = claims]
  BY DEF StartPublish
<1>3. NoCall \in Calls /\ NoCall.ok = TRUE /\ NoCall.quiet = TRUE
  BY NoCallFacts DEF NoCall
<1> QED  BY <1>1, <1>2, <1>3 DEF Calls

LEMMA ReleaseFacts ==
  ASSUME StartRelease
  PROVE  /\ call' \in Calls /\ call'.step = "gate"
         /\ call'.ok = TRUE /\ call'.quiet = TRUE /\ call'.flaky = FALSE
<1>1. call' = [NoCall EXCEPT !.step = "gate"] /\ "gate" \in Steps
  BY DEF StartRelease, Steps
<1>2. NoCall \in Calls /\ NoCall.ok = TRUE /\ NoCall.quiet = TRUE /\ NoCall.flaky = FALSE
  BY NoCallFacts DEF NoCall
<1> QED  BY <1>1, <1>2 DEF Calls

LEMMA StartTypes == TypeInv /\ (StartPublish \/ StartRelease) => TypeInv'
<1> SUFFICES ASSUME TypeInv, StartPublish \/ StartRelease PROVE TypeInv'
  OBVIOUS
<1>1. budget' \in [EditKinds -> Nat]
  <2>1. budget \in [EditKinds -> Nat] /\ "calls" \in EditKinds /\ Spend("calls")
    BY DEF TypeInv, TypeOK, EditKinds, StartPublish, StartRelease, Begin
  <2> QED  BY <2>1, SpendFacts
<1>2. CASE StartPublish
  <2>1. TypeOK'
    BY <1>1, <1>2, StartFacts DEF TypeInv, TypeOK, StartPublish, files
  <2>2. CallOK'
    BY <1>2, StartFacts
       DEF TypeInv, TypeOK, CallOK, PublishSteps, Rebuilding, Packing, Built
  <2> QED  BY <2>1, <2>2 DEF TypeInv
<1>3. CASE StartRelease
  <2>1. TypeOK'
    BY <1>1, <1>3, ReleaseFacts DEF TypeInv, TypeOK, StartRelease, files
  <2>2. CallOK'
    BY <1>3, ReleaseFacts, OutsideNext DEF PublishSteps
  <2> QED  BY <2>1, <2>2 DEF TypeInv
<1> QED  BY <1>2, <1>3

(* A disturbed call keeps what it has filled in.                            *)
LEMMA DisturbOK ==
  ASSUME CallOK, call \in Calls, Disturb, UNCHANGED pdf
  PROVE  CallOK'
  BY DisturbFacts DEF CallOK

LEMMA EditTypes == TypeInv /\ (EditTex \/ EditBib \/ ChangeClaims) => TypeInv'
<1> SUFFICES ASSUME TypeInv, EditTex \/ EditBib \/ ChangeClaims PROVE TypeInv'
  OBVIOUS
<1>1. /\ call \in Calls /\ tex \in Texts /\ bib \in AllBibs /\ claims \in Claims
      /\ budget \in [EditKinds -> Nat] /\ "edits" \in EditKinds /\ torn \in BOOLEAN
  BY DEF TypeInv, TypeOK, EditKinds
<1>2. Disturb /\ Spend("edits")
  BY DEF EditTex, EditBib, ChangeClaims
<1>3. call' \in Calls /\ budget' \in [EditKinds -> Nat]
  BY <1>1, <1>2, DisturbFacts, SpendFacts
<1>4. CallOK'
  BY <1>1, <1>2, DisturbOK DEF TypeInv, EditTex, EditBib, ChangeClaims, files
<1>5. CASE EditTex
  <2>1. tex' \in Texts
    <3>1. ASSUME NEW science \in Sciences PROVE [tex EXCEPT !.science = science] \in Texts
      BY <1>1 DEF Texts
    <3>2. ASSUME NEW layout \in Layouts PROVE [tex EXCEPT !.layout = layout] \in Texts
      BY <1>1 DEF Texts
    <3>3. [tex EXCEPT !.lines = 1 - tex.lines] \in Texts
      BY <1>1 DEF Texts
    <3> QED  BY <1>5, <3>1, <3>2, <3>3 DEF EditTex
  <2>2. torn' \in BOOLEAN
    BY <1>5 DEF EditTex
  <2>3. TypeOK'
    BY <1>3, <1>5, <2>1, <2>2 DEF TypeInv, TypeOK, EditTex, files
  <2> QED  BY <1>4, <2>3 DEF TypeInv
<1>6. CASE EditBib
  <2>1. bib' \in AllBibs /\ torn' \in BOOLEAN
    BY <1>6 DEF EditBib, AllBibs
  <2>2. TypeOK'
    BY <1>3, <1>6, <2>1 DEF TypeInv, TypeOK, EditBib, files
  <2> QED  BY <1>4, <2>2 DEF TypeInv
<1>7. CASE ChangeClaims
  <2>1. claims' \in Claims
    <3>1. CASE claims' = [claims EXCEPT !.ok = ~ claims.ok]
      BY <1>1, <3>1 DEF Claims
    <3>2. CASE tex.science # Foreign /\ claims' = [claims EXCEPT !.at[tex.science] = tex.lines]
      <4>1. tex.science \in Sciences /\ tex.lines \in {0, 1}
        BY <1>1, <3>2 DEF Texts
      <4>2. claims.at \in [Sciences -> {0, 1, Nothing}] /\ claims.ok \in BOOLEAN
        BY <1>1 DEF Claims
      <4>3. [claims.at EXCEPT ![tex.science] = tex.lines] \in [Sciences -> {0, 1, Nothing}]
        BY <4>1, <4>2
      <4>4. claims' = [at |-> [claims.at EXCEPT ![tex.science] = tex.lines], ok |-> claims.ok]
        BY <1>1, <3>2 DEF Claims
      <4> QED  BY <4>2, <4>3, <4>4 DEF Claims
    <3> QED  BY <1>7, <3>1, <3>2 DEF ChangeClaims
  <2>2. TypeOK'
    BY <1>3, <1>7, <2>1 DEF TypeInv, TypeOK, ChangeClaims, files
  <2> QED  BY <1>4, <2>2 DEF TypeInv
<1> QED  BY <1>5, <1>6, <1>7

LEMMA KillTypes == TypeInv /\ Kill => TypeInv'
<1> SUFFICES ASSUME TypeInv, Kill PROVE TypeInv'
  OBVIOUS
<1>1. budget' \in [EditKinds -> Nat]
  <2>1. budget \in [EditKinds -> Nat] /\ "kills" \in EditKinds /\ Spend("kills")
    BY DEF TypeInv, TypeOK, EditKinds, Kill
  <2> QED  BY <2>1, SpendFacts
<1>2. torn' \in BOOLEAN
  BY DEF Kill
<1>3. TypeOK'
  BY <1>1, <1>2, NoCallOutside DEF TypeInv, TypeOK, Kill, End, files
<1>4. CallOK'
  BY NoCallOutside, OutsideNext DEF Kill, End
<1> QED  BY <1>3, <1>4 DEF TypeInv

----------------------------------------------------------------------------
(* A release asks its questions and writes nothing before the last step.    *)
LEMMA JudgeTypes ==
  ASSUME TypeInv, NEW step \in ReleaseSteps, NEW here, NEW next \in ReleaseSteps,
         Judge(step, here, next)
  PROVE  TypeInv'
<1>1. call \in Calls /\ step \in Steps /\ next \in Steps /\ next \notin PublishSteps
  BY DEF TypeInv, TypeOK, ReleaseSteps, Steps, PublishSteps
<1>2. /\ call' \in Calls /\ call'.step = next
      /\ UNCHANGED <<tex, bib, claims, files, inspection, completed, intact, torn, budget>>
  BY <1>1, JudgeFacts
<1>3. TypeOK'
  BY <1>2 DEF TypeInv, TypeOK, files
<1>4. CallOK'
  BY <1>1, <1>2, OutsideNext
<1> QED  BY <1>3, <1>4 DEF TypeInv

(* Revalidate is a question too, or a tool fails.                           *)
Verified == lock = manifest.zip /\ zip = lock /\ Rebuilt
HasArtifacts == Passed /\ pdf # Nothing /\ zip # Nothing /\ lock # Nothing
ToolFails ==
  /\ call.step = "revalidate"
  /\ call' = [call EXCEPT !.step = "complete", !.ok = FALSE, !.flaky = TRUE]
  /\ UNCHANGED <<tex, bib, claims, files, inspection, completed, intact, torn, budget>>

LEMMA RevalidateCases ==
  Revalidate => \/ HasArtifacts /\ Judge("revalidate", Verified, "complete")
                \/ ~HasArtifacts /\ Judge("revalidate", FALSE, "complete")
                \/ ToolFails
  BY DEF Revalidate, Verified, HasArtifacts, ToolFails

LEMMA ToolFailsFacts ==
  ASSUME call \in Calls, ToolFails
  PROVE  /\ call' \in Calls /\ call'.step = "complete" /\ call'.ok = FALSE
         /\ call'.flaky = TRUE /\ call'.quiet = call.quiet
<1>1. "complete" \in Steps
  BY DEF Steps
<1> QED  BY <1>1 DEF ToolFails, Calls

LEMMA ReleaseTypes == TypeInv /\ Release => TypeInv'
<1> SUFFICES ASSUME TypeInv, Release PROVE TypeInv'
  OBVIOUS
<1> USE DEF ReleaseSteps
<1>1. CASE ReleaseGate
  BY <1>1, JudgeTypes DEF ReleaseGate
<1>2. CASE ReleaseFiles
  BY <1>2, JudgeTypes DEF ReleaseFiles
<1>3. CASE ReleaseInvariants
  BY <1>3, JudgeTypes DEF ReleaseInvariants
<1>4. CASE Revalidate
  <2>1. CASE Judge("revalidate", Verified, "complete")
    BY <2>1, JudgeTypes
  <2>2. CASE Judge("revalidate", FALSE, "complete")
    BY <2>2, JudgeTypes
  <2>3. CASE ToolFails
    <3>1. call' \in Calls /\ call'.step = "complete"
      BY <2>3, ToolFailsFacts DEF TypeInv, TypeOK
    <3>2. TypeOK'
      BY <2>3, <3>1 DEF TypeInv, TypeOK, ToolFails, files
    <3>3. CallOK'
      BY <3>1, OutsideNext DEF PublishSteps
    <3> QED  BY <3>2, <3>3 DEF TypeInv
  <2> QED  BY <1>4, <2>1, <2>2, <2>3, RevalidateCases
<1>5. CASE Complete
  <2>1. completed' \in BOOLEAN
    BY <1>5 DEF Complete
  <2>2. TypeOK'
    BY <1>5, <2>1, NoCallOutside DEF TypeInv, TypeOK, Complete, End, files
  <2>3. CallOK'
    BY <1>5, NoCallOutside, OutsideNext DEF Complete, End
  <2> QED  BY <2>2, <2>3 DEF TypeInv
<1> QED  BY <1>1, <1>2, <1>3, <1>4, <1>5 DEF Release

LEMMA NextTypes == TypeInv /\ [Next]_vars => TypeInv'
<1> SUFFICES ASSUME TypeInv, [Next]_vars PROVE TypeInv'
  OBVIOUS
<1>1. CASE Publish
  BY <1>1, CompileTypes, RenderTypes, DiagnoseTypes, RepairTypes, WriteTypes, VerifyTypes,
     PackTypes, LockTypes, ManifestTypes DEF Publish
<1>2. CASE Release
  BY <1>2, ReleaseTypes
<1>3. CASE RepairerMeddles
  BY <1>3, RepairTypes
<1>4. CASE Owner
  BY <1>4, StartTypes, EditTypes, InspectTypes DEF Owner
<1>5. CASE Kill
  BY <1>5, KillTypes
<1>6. CASE UNCHANGED vars
  BY <1>6 DEF TypeInv, TypeOK, CallOK, vars, files
<1> QED  BY <1>1, <1>2, <1>3, <1>4, <1>5, <1>6 DEF Next

LEMMA AlwaysTypes == Spec => []TypeInv
  BY InitTypes, NextTypes, PTL DEF Spec

(* Every file, record and answer has its form, and a call has filled in     *)
(* what its step reads.                                                     *)
THEOREM Typed == Spec => []TypeOK
  BY AlwaysTypes, PTL DEF TypeInv

----------------------------------------------------------------------------
(* What keeps a repairer's content out: publish starts from what an author  *)
(* wrote, what a rollback restores was there before the repair, and only a  *)
(* proposal that is being verified may be in the manuscript.                *)
Tainted == tex.science = Foreign \/ bib = Foreign
ScienceInv ==
  /\ ScienceIsAuthored
  /\ call.step \in PublishSteps =>
       call.start.science # Foreign /\ (call.bib = Foreign => torn)
  /\ call.step \in Rebuilding => (call.before.science = Foreign => torn)
  /\ call.step = "verify" /\ tex.science = Foreign /\ ~torn =>
       call.proposal.science = Foreign

LEMMA InitScience == Init => ScienceInv
<1> SUFFICES ASSUME Init PROVE ScienceInv
  OBVIOUS
<1>1. tex.science # Foreign /\ bib # Foreign /\ call.step = "idle"
  BY ContentAssumption, NoCallFacts DEF Init
<1> QED  BY <1>1 DEF ScienceInv, ScienceIsAuthored, PublishSteps, Rebuilding

(* A publication that leaves the sources as they are, outside its repairs.  *)
LEMMA QuietScience ==
  ASSUME ScienceInv, UNCHANGED <<tex, bib, torn>>,
         call.step \notin RepairSteps \/ ~Tainted,
         call'.step \in PublishSteps =>
           /\ call'.step \notin Rebuilding /\ call.step \in PublishSteps
           /\ call'.start = call.start /\ call'.bib = call.bib
  PROVE  ScienceInv'
  BY DEF ScienceInv, ScienceIsAuthored, Tainted, RepairSteps, Rebuilding, PublishSteps

LEMMA RollbackScience ==
  ASSUME TypeInv, ScienceInv, call.step \in Rebuilding, Rollback, UNCHANGED torn
  PROVE  ScienceInv'
<1>1. call \in Calls /\ call.step \in PublishSteps
  BY DEF TypeInv, TypeOK, Rebuilding, PublishSteps
<1>2. /\ call'.step = "manifest" /\ call'.start = call.start /\ call'.bib = call.bib
      /\ tex' = call.before /\ bib' = call.bib
  BY <1>1, FailFacts DEF Rollback
<1> QED  BY <1>1, <1>2 DEF ScienceInv, ScienceIsAuthored, Rebuilding, RepairSteps

LEMMA PublishScience == TypeInv /\ ScienceInv /\ Publish => ScienceInv'
<1> SUFFICES ASSUME TypeInv, ScienceInv, Publish PROVE ScienceInv'
  OBVIOUS
<1> USE DEF PublishSteps, Rebuilding
<1>1. call \in Calls /\ tex \in Texts /\ bib \in AllBibs
  BY DEF TypeInv, TypeOK
<1>2. CASE Compile \/ Render
  <2>1. Goto("render") \/ Goto("diagnose")
    BY <1>2 DEF Compile, Render
  <2>2. "render" \in Steps /\ "diagnose" \in Steps
    BY DEF Steps
  <2>3. /\ call'.step \in {"render", "diagnose"}
        /\ call'.start = call.start /\ call'.bib = call.bib
    BY <1>1, <2>1, <2>2, GotoFacts
  <2> QED  BY <1>2, <2>3, QuietScience DEF Compile, Render, RepairSteps
<1>3. CASE Diagnose
  <2>1. "pack" \in Steps /\ "repair" \in Steps
    BY DEF Steps
  <2>2. CASE Goto("pack") \/ Fail
    <3>1. /\ call'.step \in {"pack", "manifest"}
          /\ call'.start = call.start /\ call'.bib = call.bib
      BY <1>1, <2>1, <2>2, GotoFacts, FailFacts
    <3> QED  BY <1>3, <3>1, QuietScience DEF Diagnose, RepairSteps
  <2>3. CASE call' = [call EXCEPT !.step = "repair", !.before = tex]
    <3>1. /\ call'.step = "repair" /\ call'.before = tex
          /\ call'.start = call.start /\ call'.bib = call.bib
      BY <1>1, <2>3 DEF Calls
    <3> QED  BY <1>3, <3>1 DEF Diagnose, ScienceInv, ScienceIsAuthored, RepairSteps
  <2> QED  BY <1>3, <2>2, <2>3 DEF Diagnose
<1>4. CASE RepairFails
  BY <1>4, RollbackScience DEF RepairFails
<1>5. CASE RepairReturns /\ Fail
  <2>1. call'.step = "manifest" /\ call'.start = call.start /\ call'.bib = call.bib
    BY <1>1, <1>5, FailFacts
  <2> QED  BY <1>5, <2>1 DEF RepairReturns, ScienceInv, ScienceIsAuthored
<1>6. CASE RepairReturns /\ ~Fail
  <2>1. PICK text \in Texts : call' = [call EXCEPT !.step = "write", !.proposal = text]
    BY <1>6 DEF RepairReturns, Proposals
  <2>2. /\ call'.step = "write" /\ call'.before = call.before
        /\ call'.start = call.start /\ call'.bib = call.bib
    BY <1>1, <2>1 DEF Calls
  <2> QED  BY <1>6, <2>2 DEF RepairReturns, ScienceInv, ScienceIsAuthored
<1>7. CASE WriteProposal
  <2>1. "verify" \in Steps /\ call.step = "write" /\ Goto("verify")
    BY <1>7 DEF Steps, WriteProposal
  <2>2. /\ call'.step = "verify" /\ call'.before = call.before
        /\ call'.proposal = call.proposal
        /\ call'.start = call.start /\ call'.bib = call.bib
    BY <1>1, <2>1, GotoFacts
  <2> QED  BY <1>7, <2>1, <2>2 DEF WriteProposal, ScienceInv, ScienceIsAuthored, RepairSteps
<1>8. CASE VerifyProposal /\ Rollback
  BY <1>8, RollbackScience DEF VerifyProposal
<1>9. CASE VerifyProposal /\ ~Rollback
  <2>1. call' = [call EXCEPT !.step = "compile", !.round = call.round + 1,
                              !.before = Nothing, !.proposal = Nothing]
    BY <1>9 DEF VerifyProposal, NextRound
  <2>2. call'.step = "compile" /\ call'.start = call.start /\ call'.bib = call.bib
    BY <1>1, <2>1 DEF Calls
  <2>3. call.proposal.science = call.start.science /\ bib = call.bib /\ UNCHANGED <<tex, bib, torn>>
    BY <1>9 DEF VerifyProposal, ProposalKeeps, SameScience
  <2> QED  BY <1>9, <2>2, <2>3 DEF VerifyProposal, ScienceInv, ScienceIsAuthored
<1>10. CASE Pack \/ WriteSum \/ WriteLock \/ CheckLock
  <2>1. \/ Fail \/ Goto("lock") \/ Goto("check") \/ Goto("manifest")
        \/ call' = [call EXCEPT !.step = "sum", !.packed = Now]
    BY <1>10 DEF Pack, WriteSum, WriteLock, CheckLock
  <2>2. "lock" \in Steps /\ "check" \in Steps /\ "manifest" \in Steps
    BY DEF Steps
  <2>3. /\ call'.step \in {"sum", "lock", "check", "manifest"}
        /\ call'.start = call.start /\ call'.bib = call.bib
    <3>1. CASE call' = [call EXCEPT !.step = "sum", !.packed = Now]
      BY <1>1, <3>1 DEF Calls
    <3> QED  BY <1>1, <2>1, <2>2, <3>1, GotoFacts, FailFacts
  <2> QED  BY <1>10, <2>3, QuietScience DEF Pack, WriteSum, WriteLock, CheckLock, RepairSteps
<1>11. CASE WriteManifest
  <2>1. call'.step = "idle"
    BY <1>11, NoCallFacts DEF WriteManifest, End
  <2> QED  BY <1>11, <2>1, QuietScience DEF WriteManifest, RepairSteps
<1> QED  BY <1>2, <1>3, <1>4, <1>5, <1>6, <1>7, <1>8, <1>9, <1>10, <1>11 DEF Publish

(* An edit puts an author's text in the place of the repairer's.            *)
LEMMA EditScience ==
  ASSUME TypeInv, ScienceInv, EditTex \/ EditBib \/ ChangeClaims
  PROVE  ScienceInv'
<1>1. /\ call \in Calls /\ tex \in Texts /\ Disturb
      /\ Idle => call.step \notin PublishSteps /\ call.step \notin RepairSteps
  BY DEF TypeInv, TypeOK, EditTex, EditBib, ChangeClaims, Idle, PublishSteps, RepairSteps
<1>2. /\ call'.step = call.step /\ call'.start = call.start /\ call'.bib = call.bib
      /\ call'.before = call.before /\ call'.proposal = call.proposal
  BY <1>1, DisturbFacts
<1>3. CASE EditTex
  <2>1. tex'.science # Foreign
    <3>1. ASSUME NEW science \in Sciences PROVE [tex EXCEPT !.science = science].science # Foreign
      BY <1>1, ContentAssumption DEF Texts
    <3>2. ASSUME NEW layout PROVE [tex EXCEPT !.layout = layout].science = tex.science
      BY <1>1 DEF Texts
    <3>3. [tex EXCEPT !.lines = 1 - tex.lines].science = tex.science
      BY <1>1 DEF Texts
    <3> QED  BY <1>3, <3>1, <3>2, <3>3 DEF EditTex
  <2>2. UNCHANGED bib /\ torn' = (torn /\ (~Idle \/ bib = Foreign))
    BY <1>3 DEF EditTex
  <2> QED  BY <1>1, <1>2, <2>1, <2>2 DEF ScienceInv, ScienceIsAuthored, Rebuilding, PublishSteps
<1>4. CASE EditBib
  <2>1. bib' # Foreign /\ UNCHANGED tex /\ torn' = (torn /\ (~Idle \/ tex.science = Foreign))
    BY <1>4, ContentAssumption DEF EditBib
  <2> QED  BY <1>1, <1>2, <2>1 DEF ScienceInv, ScienceIsAuthored, Rebuilding, PublishSteps
<1>5. CASE ChangeClaims
  BY <1>2, <1>5 DEF ChangeClaims, ScienceInv, ScienceIsAuthored
<1> QED  BY <1>3, <1>4, <1>5

LEMMA NextScience == TypeInv /\ ScienceInv /\ [Next]_vars => ScienceInv'
<1> SUFFICES ASSUME TypeInv, ScienceInv, [Next]_vars PROVE ScienceInv'
  OBVIOUS
<1>1. call \in Calls
  BY DEF TypeInv, TypeOK
<1>2. CASE Publish
  BY <1>2, PublishScience
<1>3. CASE Release
  <2>1. call.step \in ReleaseSteps /\ UNCHANGED <<tex, bib, torn>>
    BY <1>3 DEF Release, ReleaseGate, ReleaseFiles, ReleaseInvariants, Revalidate, Judge,
                Complete, ReleaseSteps
  <2>2. call'.step \notin PublishSteps
    BY <1>1, <1>3, NoCallOutside
       DEF Release, ReleaseGate, ReleaseFiles, ReleaseInvariants, Revalidate, Judge,
           Complete, End, PublishSteps, Calls
  <2> QED  BY <2>1, <2>2, QuietScience DEF ReleaseSteps, RepairSteps
<1>4. CASE RepairerMeddles
  <2>1. call' = call /\ call.step = "repair" /\ UNCHANGED torn
    BY <1>4 DEF RepairerMeddles
  <2> QED  BY <2>1 DEF ScienceInv, ScienceIsAuthored, RepairSteps
<1>5. CASE StartPublish
  <2>1. /\ tex.science # Foreign /\ UNCHANGED <<tex, bib, torn>> /\ call.step = "idle"
        /\ call'.step = "compile" /\ call'.start = tex /\ call'.bib = bib
    BY <1>5, StartFacts, ContentAssumption DEF StartPublish, Covered, Begin, Idle
  <2> QED  BY <2>1 DEF ScienceInv, ScienceIsAuthored, PublishSteps, Rebuilding, RepairSteps
<1>6. CASE StartRelease
  <2>1. UNCHANGED <<tex, bib, torn>> /\ call.step = "idle" /\ call'.step = "gate"
    BY <1>6, ReleaseFacts DEF StartRelease, Begin, Idle
  <2> QED  BY <2>1, QuietScience DEF PublishSteps, RepairSteps
<1>7. CASE EditTex \/ EditBib \/ ChangeClaims
  BY <1>7, EditScience
<1>8. CASE \E round \in Rounds : Inspect(round)
  <2>1. UNCHANGED <<tex, bib, torn, call>>
    BY <1>8 DEF Inspect
  <2> QED  BY <2>1 DEF ScienceInv, ScienceIsAuthored
<1>9. CASE Kill
  <2>1. /\ UNCHANGED <<tex, bib>> /\ call'.step = "idle"
        /\ torn' = (torn \/ tex.science = Foreign \/ bib = Foreign)
    BY <1>9, NoCallFacts DEF Kill, End
  <2> QED  BY <2>1 DEF ScienceInv, ScienceIsAuthored, PublishSteps, Rebuilding
<1>10. CASE UNCHANGED vars
  BY <1>10 DEF vars, ScienceInv, ScienceIsAuthored
<1> QED  BY <1>2, <1>3, <1>4, <1>5, <1>6, <1>7, <1>8, <1>9, <1>10 DEF Next, Owner

(* What a repairer writes on its own account never stays in the paper,      *)
(* unless the process is killed before the round is verified or put back.   *)
THEOREM RepairsLeaveNothing == Spec => []ScienceIsAuthored
<1>1. ScienceInv => ScienceIsAuthored
  BY DEF ScienceInv
<1> QED  BY <1>1, AlwaysTypes, InitScience, NextScience, PTL DEF Spec

----------------------------------------------------------------------------
(* What a release has established by the step it has reached, if every      *)
(* answer was yes: about the files, which nobody else writes, for good;     *)
(* about the sources and the claims as long as nobody edits them.           *)
AfterGate == {"files", "invariants", "revalidate", "complete"}
AfterFiles == {"invariants", "revalidate", "complete"}
AfterInvariants == {"revalidate", "complete"}
FilesFit ==
  /\ Passed
  /\ pdf # Nothing /\ pdf = manifest.pdf
  /\ Inspected
  /\ zip = manifest.zip /\ sum = zip /\ lock = manifest.zip
ReleaseInv ==
  /\ call.step \in AfterGate /\ call.ok /\ call.quiet => claims.ok
  /\ call.step \in AfterFiles /\ call.ok => FilesFit
  /\ call.step \in AfterFiles /\ call.ok /\ call.quiet => lock = Now
  /\ call.step \in AfterInvariants /\ call.ok /\ call.quiet => Covered(tex, claims)
  /\ call.step = "complete" /\ call.ok => Rebuilt

(* Where a step leads that is not one of a release under way.               *)
LEMMA OutsideRelease ==
  ASSUME call'.step \notin AfterGate
  PROVE  ReleaseInv'
  BY DEF ReleaseInv, AfterGate, AfterFiles, AfterInvariants

LEMMA PublishLeadsNowhere ==
  ASSUME call \in Calls, Publish
  PROVE  call'.step \notin ReleaseSteps
<1>1. /\ "render" \in Steps /\ "diagnose" \in Steps /\ "pack" \in Steps /\ "verify" \in Steps
      /\ "lock" \in Steps /\ "check" \in Steps /\ "manifest" \in Steps
  BY DEF Steps
<1>2. CASE \/ Goto("render") \/ Goto("diagnose") \/ Goto("pack") \/ Goto("verify")
           \/ Goto("lock") \/ Goto("check") \/ Goto("manifest") \/ Fail \/ End
  BY <1>1, <1>2, GotoFacts, FailFacts, NoCallFacts DEF End, ReleaseSteps
<1>3. CASE /\ ~Fail /\ ~Goto("render") /\ ~Goto("diagnose") /\ ~Goto("pack")
           /\ ~Goto("verify") /\ ~Goto("lock") /\ ~Goto("check") /\ ~Goto("manifest") /\ ~End
  <2>1. \/ call' = [call EXCEPT !.step = "repair", !.before = tex]
        \/ \E text \in Texts : call' = [call EXCEPT !.step = "write", !.proposal = text]
        \/ call' = [call EXCEPT !.step = "compile", !.round = call.round + 1,
                                !.before = Nothing, !.proposal = Nothing]
        \/ call' = [call EXCEPT !.step = "sum", !.packed = Now]
    BY <1>3 DEF Publish, Compile, Render, Diagnose, RepairFails, RepairReturns, WriteProposal,
                VerifyProposal, Pack, WriteSum, WriteLock, CheckLock, WriteManifest,
                Rollback, Proposals, NextRound
  <2>2. call'.step \in {"repair", "write", "compile", "sum"}
    BY <2>1 DEF Calls
  <2> QED  BY <2>2 DEF ReleaseSteps
<1> QED  BY <1>2, <1>3

LEMMA JudgeRelease ==
  ASSUME TypeInv, ReleaseInv, Release, ~Complete
  PROVE  ReleaseInv'
<1>1. call \in Calls
  BY DEF TypeInv, TypeOK
<1> USE DEF AfterGate, AfterFiles, AfterInvariants
<1>2. /\ "gate" \in Steps /\ "files" \in Steps /\ "invariants" \in Steps
      /\ "revalidate" \in Steps /\ "complete" \in Steps
  BY DEF Steps
<1>3. UNCHANGED <<tex, bib, claims, pdf, pages, zip, sum, lock, manifest, inspection>>
  BY DEF Release, ReleaseGate, ReleaseFiles, ReleaseInvariants, Revalidate, Judge, files
<1>4. /\ UNCHANGED <<Now, Passed, FilesFit, Rebuilt>> /\ Covered(tex, claims)' = Covered(tex, claims)
  BY <1>3 DEF Now, Passed, FilesFit, Inspected, Rebuilt, Clean, Covered
<1>5. CASE ReleaseGate
  <2>1. /\ call.step = "gate" /\ call'.step = "files" /\ call'.quiet = call.quiet
        /\ call'.ok = (call.ok /\ ClaimGate)
    BY <1>1, <1>2, <1>5, JudgeFacts DEF ReleaseGate
  <2> QED  BY <1>3, <2>1 DEF ReleaseInv, ClaimGate
<1>6. CASE ReleaseFiles
  <2>1. /\ call.step = "files" /\ call'.step = "invariants" /\ call'.quiet = call.quiet
        /\ call'.ok = (call.ok /\ FilesAgree)
    BY <1>1, <1>2, <1>6, JudgeFacts DEF ReleaseFiles
  <2>2. FilesAgree => FilesFit /\ lock = Now
    BY DEF FilesAgree, FilesFit
  <2> QED  BY <1>3, <1>4, <2>1, <2>2 DEF ReleaseInv
<1>7. CASE ReleaseInvariants
  <2>1. /\ call.step = "invariants" /\ call'.step = "revalidate" /\ call'.quiet = call.quiet
        /\ call'.ok = (call.ok /\ SourceInvariants)
    BY <1>1, <1>2, <1>7, JudgeFacts DEF ReleaseInvariants
  <2>2. SourceInvariants => Covered(tex, claims)
    BY DEF SourceInvariants
  <2> QED  BY <1>3, <1>4, <2>1, <2>2 DEF ReleaseInv
<1>8. CASE HasArtifacts /\ Judge("revalidate", Verified, "complete")
  <2>1. /\ call.step = "revalidate" /\ call'.step = "complete" /\ call'.quiet = call.quiet
        /\ call'.ok = (call.ok /\ Verified)
    BY <1>1, <1>2, <1>8, JudgeFacts
  <2>2. Verified => Rebuilt
    BY DEF Verified
  <2> QED  BY <1>3, <1>4, <2>1, <2>2 DEF ReleaseInv
<1>9. CASE Judge("revalidate", FALSE, "complete")
  <2>1. call'.step = "complete" /\ call'.ok = FALSE
    BY <1>1, <1>2, <1>9, JudgeFacts
  <2> QED  BY <2>1 DEF ReleaseInv
<1>10. CASE ToolFails
  BY <1>1, <1>10, ToolFailsFacts DEF ReleaseInv
<1> QED  BY <1>5, <1>6, <1>7, <1>8, <1>9, <1>10, RevalidateCases DEF Release

LEMMA NextRelease == TypeInv /\ ReleaseInv /\ [Next]_vars => ReleaseInv'
<1> SUFFICES ASSUME TypeInv, ReleaseInv, [Next]_vars PROVE ReleaseInv'
  OBVIOUS
<1>1. call \in Calls
  BY DEF TypeInv, TypeOK
<1>2. CASE Publish
  BY <1>1, <1>2, PublishLeadsNowhere, OutsideRelease DEF AfterGate, ReleaseSteps
<1>3. CASE Release /\ ~Complete
  BY <1>3, JudgeRelease
<1>4. CASE Complete \/ Kill
  <2>1. call'.step = "idle"
    BY <1>4, NoCallFacts DEF Complete, Kill, End
  <2> QED  BY <2>1, OutsideRelease DEF AfterGate
<1>5. CASE RepairerMeddles
  <2>1. call'.step = "repair"
    BY <1>5 DEF RepairerMeddles
  <2> QED  BY <2>1, OutsideRelease DEF AfterGate
<1>6. CASE StartPublish \/ StartRelease
  <2>1. call'.step \in {"compile", "gate"}
    BY <1>6, StartFacts, ReleaseFacts
  <2> QED  BY <2>1, OutsideRelease DEF AfterGate
<1>7. CASE \E round \in Rounds : Inspect(round)
  <2>1. call'.step = "idle"
    BY <1>7 DEF Inspect, Idle
  <2> QED  BY <2>1, OutsideRelease DEF AfterGate
<1>8. CASE EditTex \/ EditBib \/ ChangeClaims
  <2>1. /\ Disturb
        /\ UNCHANGED <<pdf, pages, zip, sum, lock, manifest, inspection>>
    BY <1>8 DEF EditTex, EditBib, ChangeClaims, files
  <2>2. /\ call'.step = call.step /\ call'.ok = call.ok
        /\ Idle \/ ~call'.quiet
    BY <1>1, <2>1, DisturbFacts
  <2>3. UNCHANGED <<FilesFit, Rebuilt>>
    BY <2>1 DEF Passed, FilesFit, Inspected, Rebuilt, Clean
  <2>4. CASE Idle
    BY <2>2, <2>4, OutsideRelease DEF Idle, AfterGate
  <2>5. CASE ~call'.quiet
    BY <2>2, <2>3, <2>5 DEF ReleaseInv, AfterGate, AfterFiles, AfterInvariants
  <2> QED  BY <2>2, <2>4, <2>5
<1>9. CASE UNCHANGED vars
  <2>1. UNCHANGED <<call, FilesFit, Rebuilt, Now, claims.ok, lock>>
        /\ Covered(tex, claims)' = Covered(tex, claims)
    BY <1>9 DEF vars, files, Passed, FilesFit, Inspected, Rebuilt, Clean, Now, Covered
  <2> QED  BY <2>1 DEF ReleaseInv
<1> QED  BY <1>2, <1>3, <1>4, <1>5, <1>6, <1>7, <1>8, <1>9 DEF Next, Owner

LEMMA InitRelease == Init => ReleaseInv
<1> SUFFICES ASSUME Init PROVE ReleaseInv
  OBVIOUS
<1>1. call.step = "idle"
  BY NoCallFacts DEF Init
<1> QED  BY <1>1 DEF ReleaseInv, AfterGate, AfterFiles, AfterInvariants

(* Only the last step of a release completes the workflow.                  *)
LEMMA CompletedBy ==
  ASSUME TypeInv, [Next]_vars, completed' # completed
  PROVE  Complete /\ call.step = "complete" /\ call.ok
<1>1. Complete
  BY DEF Next, Publish, Release, Owner, vars, Compile, Render, Diagnose, RepairFails,
         RepairReturns, WriteProposal, VerifyProposal, Pack, WriteSum, WriteLock, CheckLock,
         WriteManifest, ReleaseGate, ReleaseFiles, ReleaseInvariants, Revalidate, Judge,
         RepairerMeddles, StartPublish, StartRelease, EditTex, EditBib, ChangeClaims,
         Inspect, Kill
<1>2. completed \in BOOLEAN /\ call.ok \in BOOLEAN
  BY DEF TypeInv, TypeOK, Calls
<1> QED  BY <1>1, <1>2 DEF Complete

LEMMA ReleasedIsWhole ==
  ASSUME TypeInv, ReleaseInv, [Next]_vars, completed' # completed
  PROVE  Whole
<1>1. /\ FilesFit /\ Rebuilt
  BY CompletedBy DEF ReleaseInv, AfterFiles
<1>2. inspection = [pdf |-> pdf, pages |-> pdf.of]
  <2>1. inspection \in Inspections \cup {Nothing, Failed} /\ inspection # Nothing
    BY <1>1 DEF TypeInv, TypeOK, FilesFit, Inspected
  <2>2. inspection \in Inspections
    BY <2>1 DEF TypeInv, TypeOK
  <2>3. inspection.pdf = pdf /\ inspection.pages = pdf.of
    BY <1>1 DEF FilesFit, Inspected, Rebuilt
  <2> QED  BY <2>2, <2>3 DEF Inspections
<1>3. zip = pdf.of /\ Clean(zip)
  BY <1>1 DEF Rebuilt
<1> QED  BY <1>1, <1>2, <1>3 DEF Whole, FilesFit, Rebuilt

(* A workflow is completed only by one whole publication.                   *)
THEOREM WholeIsReleased == Spec => OnlyWholeIsReleased
<1>1. TypeInv /\ ReleaseInv /\ [Next]_vars => [completed' # completed => Whole]_vars
  BY ReleasedIsWhole
<1> QED  BY <1>1, AlwaysTypes, InitRelease, NextRelease, PTL DEF Spec, OnlyWholeIsReleased

(* If nobody edits while it runs, the claims of the database support every  *)
(* sentence of the bundle that is released.                                 *)
THEOREM ReleasedIsSupported == Spec => SupportedIsReleased
<1>1. ASSUME TypeInv, ReleaseInv, [Next]_vars, completed' # completed, call.quiet
      PROVE  /\ claims.ok
             /\ zip.tex.science \in Sciences /\ claims.at[zip.tex.science] = zip.tex.lines
  <2>1. /\ claims.ok /\ FilesFit /\ lock = Now /\ Covered(tex, claims)
    BY <1>1, CompletedBy DEF ReleaseInv, AfterGate, AfterFiles, AfterInvariants
  <2>2. zip.tex = tex
    BY <2>1 DEF FilesFit, Now
  <2> QED  BY <2>1, <2>2 DEF Covered
<1>2. TypeInv /\ ReleaseInv /\ [Next]_vars
        => [completed' # completed /\ call.quiet =>
              /\ claims.ok
              /\ zip.tex.science \in Sciences
              /\ claims.at[zip.tex.science] = zip.tex.lines]_vars
  BY <1>1
<1> QED  BY <1>2, AlwaysTypes, InitRelease, NextRelease, PTL DEF Spec, SupportedIsReleased

----------------------------------------------------------------------------
(* What a publication has made by the step it has reached, as far as nobody *)
(* has edited meanwhile, and what therefore holds as long as the last       *)
(* passed one is intact.                                                    *)
AtManifest == call.step = "manifest" /\ call.ok
HasPdf == call.step \in Built \/ AtManifest
IsSound == call.step \in Packing \cup {"pack"} \/ AtManifest
IsPacked == call.step \in Packing \/ AtManifest
PublishInv ==
  /\ call.step \in PublishSteps => ~intact /\ Covered(call.start, call.claims)
  /\ call.step \in PublishSteps /\ call.quiet => claims = call.claims /\ claims.ok
  /\ HasPdf \/ (call.step = "diagnose" /\ pdf # Nothing) => (call.quiet => pdf.of = Now)
  /\ IsSound => /\ pages[call.round] = pdf.of /\ Clean(pdf.of)
                /\ call.quiet => SameScience(tex, call.start)
  /\ IsPacked => zip = call.packed /\ (call.quiet => zip = Now)
  /\ call.step \in {"lock", "check"} \/ AtManifest => sum = zip
  /\ call.step = "check" \/ AtManifest => lock = call.packed
IsIntact ==
  /\ manifest \in Manifests
  /\ pdf = manifest.pdf /\ pages[manifest.round] = pdf.of /\ Clean(pdf.of)
  /\ pdf.of = Now /\ zip = Now /\ sum = Now /\ lock = Now
  /\ manifest.zip = Now /\ manifest.source = Now
  /\ claims = manifest.claims /\ claims.ok
  /\ SameScience(tex, manifest.start) /\ Covered(manifest.start, claims)
IntactInv == intact => IsIntact

LEMMA InitIntact == Init => PublishInv /\ IntactInv
<1> SUFFICES ASSUME Init PROVE PublishInv /\ IntactInv
  OBVIOUS
<1>1. call.step = "idle" /\ ~intact
  BY NoCallFacts DEF Init
<1> QED  BY <1>1 DEF PublishInv, IntactInv, PublishSteps, AtManifest, HasPdf, IsSound, IsPacked,
            Packing, Built

(* Outside of publish and of edits the last publication stays as it is.     *)
LEMMA OutsideIntact ==
  ASSUME IntactInv, call'.step \notin PublishSteps,
         UNCHANGED <<tex, bib, claims, pdf, pages, zip, sum, lock, manifest, intact>>
  PROVE  PublishInv' /\ IntactInv'
<1>1. PublishInv'
  BY DEF PublishInv, PublishSteps, AtManifest, HasPdf, IsSound, IsPacked, Packing, Built
<1>2. UNCHANGED <<Now, IsIntact>>
  BY DEF IsIntact, Now, Clean, SameScience, Covered
<1> QED  BY <1>1, <1>2 DEF IntactInv

(* A failed publication promises nothing more than the call has read.       *)
LEMMA FailIntact ==
  ASSUME TypeInv, PublishInv, call.step \in PublishSteps, Fail, UNCHANGED <<claims, intact>>
  PROVE  PublishInv' /\ IntactInv'
<1>1. call \in Calls
  BY DEF TypeInv, TypeOK
<1>2. /\ call'.step = "manifest" /\ ~call'.ok /\ call'.start = call.start
      /\ call'.claims = call.claims /\ call'.quiet = call.quiet
  BY <1>1, FailFacts
<1>3. ~intact'
  BY DEF PublishInv
<1>4. PublishInv'
  BY <1>2, <1>3 DEF PublishInv, PublishSteps, AtManifest, HasPdf, IsSound, IsPacked,
     Packing, Built, Covered
<1> QED  BY <1>3, <1>4 DEF IntactInv

(* A repair promises nothing more either.                                   *)
LEMMA RepairIntact ==
  ASSUME TypeInv, PublishInv, call.step \in PublishSteps,
         call'.step \in Rebuilding \cup {"compile"},
         call'.start = call.start, call'.claims = call.claims, call'.quiet = call.quiet,
         UNCHANGED <<claims, intact>>
  PROVE  PublishInv' /\ IntactInv'
<1>1. ~intact'
  BY DEF PublishInv
<1>2. PublishInv'
  BY <1>1 DEF PublishInv, PublishSteps, Rebuilding, AtManifest, HasPdf, IsSound, IsPacked,
     Packing, Built, Covered
<1> QED  BY <1>1, <1>2 DEF IntactInv

LEMMA BuildIntact ==
  ASSUME TypeInv, PublishInv, Compile \/ Render \/ Diagnose
  PROVE  PublishInv' /\ IntactInv'
<1>1. call \in Calls /\ call.step \in PublishSteps /\ ~intact' /\ UNCHANGED <<claims, intact>>
  BY DEF TypeInv, TypeOK, PublishInv, PublishSteps, Compile, Render, Diagnose
<1>2. /\ "render" \in Steps /\ "diagnose" \in Steps /\ "pack" \in Steps
  BY DEF Steps
<1> USE DEF PublishSteps, AtManifest, HasPdf, IsSound, IsPacked, Packing, Built, Covered
<1>3. CASE Compile
  <2>1. \/ pdf'.of = Now /\ Goto("render")
        \/ pdf' = Nothing /\ Goto("diagnose")
    BY <1>3 DEF Compile
  <2>2. /\ call'.start = call.start /\ call'.claims = call.claims /\ call'.quiet = call.quiet
        /\ \/ call'.step = "render" /\ pdf'.of = Now
           \/ call'.step = "diagnose" /\ pdf' = Nothing
    BY <1>1, <1>2, <2>1, GotoFacts
  <2>3. Now' = Now
    BY <1>3 DEF Compile, Now
  <2> QED  BY <1>1, <2>2, <2>3 DEF PublishInv, IntactInv
<1>4. CASE Render
  <2>1. /\ call'.start = call.start /\ call'.claims = call.claims /\ call'.quiet = call.quiet
        /\ call.step = "render" /\ call'.step = "diagnose" /\ UNCHANGED <<Now, pdf>>
    BY <1>1, <1>2, <1>4, GotoFacts DEF Render, Now
  <2> QED  BY <1>1, <2>1 DEF PublishInv, IntactInv
<1>5. CASE Diagnose /\ Fail
  BY <1>1, <1>5, FailIntact
<1>6. CASE Diagnose /\ ~Fail /\ Goto("pack")
  <2>1. /\ call'.step = "pack" /\ call'.round = call.round /\ call'.start = call.start
        /\ call'.claims = call.claims /\ call'.quiet = call.quiet
        /\ UNCHANGED <<tex, bib, pdf, pages>> /\ call.step = "diagnose"
    BY <1>1, <1>2, <1>6, GotoFacts DEF Diagnose, files
  <2>2. IsClean /\ SameScience(tex, call.start)
    <3>1. CASE call' = [call EXCEPT !.step = "repair", !.before = tex]
      <4>1. call'.step = "repair"
        BY <1>1, <3>1 DEF Calls
      <4> QED  BY <2>1, <4>1
    <3> QED  BY <1>6, <3>1 DEF Diagnose
  <2> QED  BY <1>1, <2>1, <2>2 DEF PublishInv, IntactInv, IsClean, Clean, SameScience, Now
<1>7. CASE Diagnose /\ ~Fail /\ ~Goto("pack")
  <2>1. call' = [call EXCEPT !.step = "repair", !.before = tex]
    BY <1>7 DEF Diagnose
  <2>2. /\ call'.step = "repair" /\ call'.start = call.start /\ call'.claims = call.claims
        /\ call'.quiet = call.quiet
    BY <1>1, <2>1 DEF Calls
  <2> QED  BY <1>1, <2>2, RepairIntact DEF Rebuilding
<1> QED  BY <1>3, <1>4, <1>5, <1>6, <1>7

LEMMA RepairsIntact ==
  ASSUME TypeInv, PublishInv,
         RepairFails \/ RepairReturns \/ RepairerMeddles \/ WriteProposal \/ VerifyProposal
  PROVE  PublishInv' /\ IntactInv'
<1>1. call \in Calls /\ call.step \in PublishSteps /\ UNCHANGED <<claims, intact>>
  BY DEF TypeInv, TypeOK, PublishSteps, RepairFails, RepairReturns, RepairerMeddles,
         WriteProposal, VerifyProposal
<1>2. CASE Fail
  BY <1>1, <1>2, FailIntact
<1>3. CASE ~Fail
  <2>1. \/ call' = call /\ call.step = "repair"
        \/ \E text \in Texts : call' = [call EXCEPT !.step = "write", !.proposal = text]
        \/ Goto("verify")
        \/ call' = [call EXCEPT !.step = "compile", !.round = call.round + 1,
                                !.before = Nothing, !.proposal = Nothing]
    BY <1>3 DEF RepairFails, RepairReturns, RepairerMeddles, WriteProposal, VerifyProposal,
                Rollback, Proposals, NextRound
  <2>2. /\ call'.step \in {"repair", "write", "verify", "compile"}
        /\ call'.start = call.start /\ call'.claims = call.claims /\ call'.quiet = call.quiet
    BY <1>1, <2>1 DEF Calls, Goto
  <2> QED  BY <1>1, <2>2, RepairIntact DEF Rebuilding
<1> QED  BY <1>2, <1>3

LEMMA PackIntact ==
  ASSUME TypeInv, PublishInv, Pack \/ WriteSum \/ WriteLock \/ CheckLock
  PROVE  PublishInv' /\ IntactInv'
<1>1. /\ call \in Calls /\ call.step \in PublishSteps /\ ~intact'
      /\ UNCHANGED <<tex, bib, claims, pdf, pages, intact>> /\ Now' = Now
  BY DEF TypeInv, TypeOK, PublishInv, PublishSteps, Pack, WriteSum, WriteLock, CheckLock, files,
         Now
<1>2. "lock" \in Steps /\ "check" \in Steps /\ "manifest" \in Steps
  BY DEF Steps
<1> USE DEF PublishSteps, AtManifest, HasPdf, IsSound, IsPacked, Packing, Built, Covered, SameScience
<1>3. CASE Fail
  BY <1>1, <1>3, FailIntact
<1>4. CASE Pack /\ ~Fail
  <2>1. zip' = Now /\ call' = [call EXCEPT !.step = "sum", !.packed = Now] /\ call.step = "pack"
    BY <1>4 DEF Pack
  <2>2. /\ call'.step = "sum" /\ call'.packed = Now /\ call'.round = call.round
        /\ call'.start = call.start /\ call'.claims = call.claims /\ call'.quiet = call.quiet
    BY <1>1, <2>1 DEF Calls
  <2> QED  BY <1>1, <2>1, <2>2 DEF PublishInv, IntactInv, Clean
<1>5. CASE ~Pack /\ ~Fail
  <2>1. \/ call.step = "sum" /\ sum' = zip /\ Goto("lock") /\ UNCHANGED <<zip, lock>>
        \/ call.step = "lock" /\ lock' = call.packed /\ Goto("check") /\ UNCHANGED <<zip, sum>>
        \/ call.step = "check" /\ Goto("manifest") /\ UNCHANGED <<zip, sum, lock>>
    BY <1>5 DEF WriteSum, WriteLock, CheckLock, files
  <2>2. /\ call'.packed = call.packed /\ call'.round = call.round /\ call'.start = call.start
        /\ call'.claims = call.claims /\ call'.quiet = call.quiet
        /\ \/ call.step = "sum" /\ call'.step = "lock" /\ sum' = zip /\ UNCHANGED zip
           \/ /\ call.step = "lock" /\ call'.step = "check" /\ lock' = call.packed
              /\ UNCHANGED <<zip, sum>>
           \/ call.step = "check" /\ call'.step = "manifest" /\ UNCHANGED <<zip, sum, lock>>
    BY <1>1, <1>2, <2>1, GotoFacts
  <2> QED  BY <1>1, <2>2 DEF PublishInv, IntactInv, Clean
<1> QED  BY <1>3, <1>4, <1>5

LEMMA ManifestIntact ==
  ASSUME TypeInv, TypeInv', PublishInv, WriteManifest
  PROVE  PublishInv' /\ IntactInv'
<1>1. /\ call \in Calls /\ call.step = "manifest" /\ intact' = (call.ok /\ call.quiet)
      /\ UNCHANGED <<tex, bib, claims, pdf, pages, zip, sum, lock>>
  BY DEF TypeInv, TypeOK, WriteManifest
<1>2. PublishInv'
  <2>1. call'.step = "idle"
    BY NoCallFacts DEF WriteManifest, End
  <2> QED  BY <2>1 DEF PublishInv, PublishSteps, AtManifest, HasPdf, IsSound, IsPacked, Packing, Built
<1>3. ASSUME call.ok, call.quiet PROVE IsIntact'
  <2>1. /\ manifest' = [source |-> Now, start |-> call.start, claims |-> call.claims,
                        pdf |-> pdf, round |-> call.round, zip |-> call.packed]
        /\ AtManifest
    BY <1>1, <1>3 DEF WriteManifest, SourceAtEnd, AtManifest
  <2>2. manifest' \in Manifests
    <3>1. /\ Now \in Sources /\ call.start \in Texts /\ call.claims \in Claims /\ call.round \in Rounds
          /\ call.packed \in Sources /\ pdf \in Builds
      BY <1>1, <1>3 DEF TypeInv, TypeOK, CallOK, PublishSteps, Now, Sources, Calls
    <3> QED  BY <2>1, <3>1 DEF Manifests
  <2>3. /\ pages[call.round] = pdf.of /\ Clean(pdf.of) /\ SameScience(tex, call.start)
        /\ zip = call.packed /\ sum = zip /\ lock = call.packed /\ pdf.of = Now
        /\ claims = call.claims /\ claims.ok /\ Covered(call.start, call.claims)
        /\ zip = Now
    BY <1>1, <1>3, <2>1 DEF PublishInv, HasPdf, IsSound, IsPacked, PublishSteps
  <2>4. UNCHANGED Now
    BY <1>1 DEF Now
  <2> QED  BY <1>1, <2>1, <2>2, <2>3, <2>4 DEF IsIntact, Clean, SameScience, Covered
<1>4. IntactInv'
  BY <1>1, <1>3 DEF IntactInv, Calls
<1> QED  BY <1>2, <1>4

LEMMA EditIntact ==
  ASSUME TypeInv, PublishInv, EditTex \/ EditBib \/ ChangeClaims
  PROVE  PublishInv' /\ IntactInv'
<1>1. /\ call \in Calls /\ Disturb /\ ~intact' /\ UNCHANGED <<pdf, pages, zip, sum, lock>>
      /\ Idle => call.step \notin PublishSteps
  BY DEF TypeInv, TypeOK, EditTex, EditBib, ChangeClaims, files, Idle, PublishSteps
<1>2. /\ call'.step = call.step /\ call'.ok = call.ok /\ call'.start = call.start
      /\ call'.claims = call.claims /\ call'.packed = call.packed /\ call'.round = call.round
      /\ Idle \/ ~call'.quiet
  BY <1>1, DisturbFacts
<1>3. PublishInv'
  <2>1. CASE Idle
    BY <1>1, <1>2, <2>1
       DEF Idle, PublishInv, PublishSteps, AtManifest, HasPdf, IsSound, IsPacked, Packing, Built
  <2>2. CASE ~call'.quiet
    BY <1>1, <1>2, <2>2 DEF PublishInv, AtManifest, HasPdf, IsSound, IsPacked, Covered, Clean
  <2> QED  BY <1>2, <2>1, <2>2
<1> QED  BY <1>1, <1>3 DEF IntactInv

LEMMA NextIntact ==
  TypeInv /\ TypeInv' /\ PublishInv /\ IntactInv /\ [Next]_vars => PublishInv' /\ IntactInv'
<1> SUFFICES ASSUME TypeInv, TypeInv', PublishInv, IntactInv, [Next]_vars
             PROVE  PublishInv' /\ IntactInv'
  OBVIOUS
<1>1. call \in Calls
  BY DEF TypeInv, TypeOK
<1>2. CASE Publish
  BY <1>2, BuildIntact, RepairsIntact, PackIntact, ManifestIntact DEF Publish
<1>3. CASE RepairerMeddles
  BY <1>3, RepairsIntact
<1>4. CASE Release
  <2>1. call'.step \notin PublishSteps
    BY <1>1, <1>4, NoCallOutside
       DEF Release, ReleaseGate, ReleaseFiles, ReleaseInvariants, Revalidate, Judge,
           Complete, End, PublishSteps, Calls
  <2> QED  BY <1>4, <2>1, OutsideIntact
           DEF Release, ReleaseGate, ReleaseFiles, ReleaseInvariants, Revalidate, Judge,
               Complete, files
<1>5. CASE StartRelease \/ Kill
  <2>1. call'.step \in {"gate", "idle"}
    BY <1>5, ReleaseFacts, NoCallFacts DEF Kill, End
  <2> QED  BY <1>5, <2>1, OutsideIntact DEF StartRelease, Kill, files, PublishSteps
<1>6. CASE \E round \in Rounds : Inspect(round)
  <2>1. call'.step = "idle"
    BY <1>6 DEF Inspect, Idle
  <2> QED  BY <1>6, <2>1, OutsideIntact DEF Inspect, files, PublishSteps
<1>7. CASE StartPublish
  <2>1. /\ call'.step = "compile" /\ call'.start = tex /\ call'.claims = claims
        /\ ~intact' /\ UNCHANGED <<tex, claims>> /\ claims.ok /\ Covered(tex, claims)
    BY <1>7, StartFacts DEF StartPublish, ClaimGate
  <2> QED  BY <2>1 DEF PublishInv, IntactInv, PublishSteps, AtManifest, HasPdf, IsSound, IsPacked,
           Packing, Built, Covered
<1>8. CASE EditTex \/ EditBib \/ ChangeClaims
  BY <1>8, EditIntact
<1>9. CASE UNCHANGED vars
  <2>1. UNCHANGED <<call, intact, claims, pages, pdf, zip, sum, lock, tex, Now, IsIntact>>
    BY <1>9 DEF vars, files, IsIntact, Now, Clean, SameScience, Covered
  <2> QED  BY <2>1 DEF PublishInv, IntactInv, AtManifest, HasPdf, IsSound, IsPacked, Clean,
           SameScience, Covered
<1> QED  BY <1>2, <1>3, <1>4, <1>5, <1>6, <1>7, <1>8, <1>9 DEF Next, Owner

----------------------------------------------------------------------------
(* A release that has answered no has a cause, and the cause stays.         *)
Cause == \/ ~intact \/ Shifted \/ call.flaky
         \/ inspection # [pdf |-> pdf, pages |-> pdf.of]
         \/ ~call.quiet
RefusalInv == call.step \in ReleaseSteps /\ ~call.ok => Cause

LEMMA IntactPasses ==
  ASSUME TypeInv, IsIntact, ~Shifted, inspection = [pdf |-> pdf, pages |-> pdf.of]
  PROVE  ClaimGate /\ FilesAgree /\ SourceInvariants /\ HasArtifacts /\ Verified
<1>1. Passed
  BY ManifestAssumption DEF IsIntact, Passed
<1>2. Now \in Sources /\ pdf \in Builds
  BY DEF TypeInv, TypeOK, Now, Sources, IsIntact, Manifests
<1>3. Now # Nothing /\ pdf # Nothing
  BY <1>2, NothingAssumption
<1>4. Inspected
  <2>1. inspection.pdf = pdf /\ inspection.pages = pdf.of
    OBVIOUS
  <2>2. inspection # Nothing
    <3>1. inspection \in Inspections
      BY <1>2 DEF Inspections, Builds
    <3> QED  BY <3>1, InspectionAssumption
  <2> QED  BY <2>1, <2>2 DEF Inspected, IsIntact
<1>5. FilesAgree
  BY <1>1, <1>3, <1>4 DEF FilesAgree, IsIntact
<1>6. SourceInvariants
  <2>1. tex.lines = manifest.start.lines
    BY DEF Shifted, IsIntact, Now
  <2>2. Covered(tex, claims) /\ SameFingerprint(tex, manifest.start)
    BY <2>1 DEF IsIntact, Covered, SameScience, SameFingerprint
  <2> QED  BY <1>1, <2>2 DEF SourceInvariants, IsIntact
<1>7. HasArtifacts /\ Verified
  BY <1>1, <1>3 DEF HasArtifacts, Verified, Rebuilt, IsIntact
<1> QED  BY <1>5, <1>6, <1>7 DEF ClaimGate, IsIntact

LEMMA OutsideRefusal ==
  ASSUME call'.step \notin ReleaseSteps
  PROVE  RefusalInv'
  BY DEF RefusalInv

LEMMA JudgeRefusal ==
  ASSUME TypeInv, IntactInv, RefusalInv, Release, ~Complete
  PROVE  RefusalInv'
<1>1. call \in Calls
  BY DEF TypeInv, TypeOK
<1>2. /\ "gate" \in Steps /\ "files" \in Steps /\ "invariants" \in Steps
      /\ "revalidate" \in Steps /\ "complete" \in Steps
  BY DEF Steps
<1>3. UNCHANGED <<intact, inspection, pdf, manifest>> /\ UNCHANGED Shifted
  BY DEF Release, ReleaseGate, ReleaseFiles, ReleaseInvariants, Revalidate, Judge, files, Shifted
<1>4. Cause \/ (ClaimGate /\ FilesAgree /\ SourceInvariants /\ HasArtifacts /\ Verified)
  BY IntactPasses DEF Cause, IntactInv
<1>5. ASSUME NEW step \in {"gate", "files", "invariants", "revalidate"}, NEW here,
             NEW next \in AfterGate, Judge(step, here, next), ~here => Cause
      PROVE  RefusalInv'
  <2>1. step \in Steps /\ next \in Steps
    BY <1>2 DEF AfterGate
  <2>2. /\ call.step = step /\ call'.ok = (call.ok /\ here)
        /\ call'.quiet = call.quiet /\ call'.flaky = call.flaky
    BY <1>1, <1>5, <2>1, JudgeFacts
  <2>3. Cause => Cause'
    BY <1>3, <2>2 DEF Cause
  <2> QED  BY <1>5, <2>2, <2>3 DEF RefusalInv, ReleaseSteps
<1> USE DEF AfterGate
<1>7. CASE ReleaseGate
  BY <1>4, <1>5, <1>7 DEF ReleaseGate
<1>8. CASE ReleaseFiles
  BY <1>4, <1>5, <1>8 DEF ReleaseFiles
<1>9. CASE ReleaseInvariants
  BY <1>4, <1>5, <1>9 DEF ReleaseInvariants
<1>10. CASE HasArtifacts /\ Judge("revalidate", Verified, "complete")
  BY <1>4, <1>5, <1>10
<1>11. CASE ~HasArtifacts /\ Judge("revalidate", FALSE, "complete")
  BY <1>4, <1>5, <1>11
<1>6. CASE ToolFails
  BY <1>1, <1>6, ToolFailsFacts DEF RefusalInv, Cause
<1> QED  BY <1>6, <1>7, <1>8, <1>9, <1>10, <1>11, RevalidateCases DEF Release

LEMMA NextRefusal ==
  TypeInv /\ IntactInv /\ RefusalInv /\ [Next]_vars => RefusalInv'
<1> SUFFICES ASSUME TypeInv, IntactInv, RefusalInv, [Next]_vars PROVE RefusalInv'
  OBVIOUS
<1>1. call \in Calls
  BY DEF TypeInv, TypeOK
<1>2. CASE Publish
  BY <1>1, <1>2, PublishLeadsNowhere, OutsideRefusal
<1>3. CASE Release /\ ~Complete
  BY <1>3, JudgeRefusal
<1>4. CASE Complete \/ Kill
  <2>1. call'.step = "idle"
    BY <1>4, NoCallFacts DEF Complete, Kill, End
  <2> QED  BY <2>1, OutsideRefusal DEF ReleaseSteps
<1>5. CASE RepairerMeddles
  <2>1. call'.step = "repair"
    BY <1>5 DEF RepairerMeddles
  <2> QED  BY <2>1, OutsideRefusal DEF ReleaseSteps
<1>6. CASE StartPublish
  <2>1. call'.step = "compile"
    BY <1>6, StartFacts
  <2> QED  BY <2>1, OutsideRefusal DEF ReleaseSteps
<1>7. CASE StartRelease
  BY <1>7, ReleaseFacts DEF RefusalInv
<1>8. CASE \E round \in Rounds : Inspect(round)
  <2>1. call'.step = "idle"
    BY <1>8 DEF Inspect, Idle
  <2> QED  BY <2>1, OutsideRefusal DEF ReleaseSteps
<1>9. CASE EditTex \/ EditBib \/ ChangeClaims
  <2>1. ~intact' /\ Disturb
    BY <1>9 DEF EditTex, EditBib, ChangeClaims
  <2> QED  BY <2>1 DEF RefusalInv, Cause
<1>10. CASE UNCHANGED vars
  BY <1>10 DEF vars, files, RefusalInv, Cause, Shifted
<1> QED  BY <1>2, <1>3, <1>4, <1>5, <1>6, <1>7, <1>8, <1>9, <1>10 DEF Next, Owner

LEMMA InitRefusal == Init => RefusalInv
<1> SUFFICES ASSUME Init PROVE RefusalInv
  OBVIOUS
<1>1. call.step = "idle"
  BY NoCallFacts DEF Init
<1> QED  BY <1>1 DEF RefusalInv, ReleaseSteps

(* Nobody is refused without a reason: a release turns down a passed        *)
(* publication only after an edit or another publish, without an inspection *)
(* of its pages, for a repair that moved the claims, or for a failed tool.  *)
THEOREM RefusedForCause == Spec => RefusalHasCause
<1>1. RefusalInv /\ [Next]_vars
        => [call.step = "complete" /\ ~call.ok /\ call'.step = "idle" =>
              \/ ~intact \/ Shifted \/ call.flaky
              \/ inspection # [pdf |-> pdf, pages |-> pdf.of]
              \/ ~call.quiet]_vars
  BY DEF RefusalInv, Cause, ReleaseSteps
<1> QED  BY <1>1, AlwaysTypes, InitIntact, NextIntact, InitRefusal, NextRefusal, PTL
         DEF Spec, RefusalHasCause
=============================================================================
