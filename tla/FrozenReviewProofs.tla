-------------------------- MODULE FrozenReviewProofs --------------------------
(***************************************************************************)
(* For any evidence, any papers and any number of changes, kills, damaged   *)
(* files and bundles: the registry vouches only for what was frozen, no     *)
(* step rewrites it, a retry is refused only for a cause, and a release is  *)
(* authorized only as its owner acknowledged it and never by half a freeze. *)
(***************************************************************************)
EXTENDS FrozenReview, TLAPS

(* What a running freeze has seen: the members there are intact, those it   *)
(* has yet to write are still absent, and it registers when both are there. *)
CallShape ==
  \/ call = Missing
  \/ DOMAIN call = {"freeze", "absent", "step"}
  \/ DOMAIN call = {"acknowledge"}
FreezeInv ==
  Freezing =>
    /\ call.step # "refused" =>
         \A m \in AllMembers : At(call.freeze, m) = Missing \/ At(call.freeze, m).intact
    /\ call.step = "files" =>
         /\ call.absent \subseteq AllMembers
         /\ \A m \in call.absent : <<call.freeze, m>> \notin DOMAIN file
         /\ \A m \in Registered \ call.absent : <<call.freeze, m>> \in DOMAIN file
    /\ call.step \in Registered =>
         \A m \in Registered : <<call.freeze, m>> \in DOMAIN file

(* Only damage makes a file differ from its content or from its row.        *)
FileInv == \A p \in DOMAIN file : file[p].intact \/ p[1] \in damaged
RowInv ==
  \A p \in DOMAIN registry :
    /\ registry[p].intact
    /\ p[1] \in damaged \/ (p \in DOMAIN file /\ file[p] = registry[p])
    /\ p[2] = "manifest" => p[1] \in finished

(* An acknowledgement saw the world that its assessment is bound to.        *)
Worlds == [evidence : SUBSET Evidence, approved : SUBSET Imported, paper : Papers]
Bound(k) ==
  /\ k.seen \in Worlds
  /\ k.of.pins.paper = k.seen.paper
  /\ k.of.pins.domain \in 0..epoch
  /\ k.of.pins.domain = epoch => k.seen.evidence = evidence /\ k.seen.approved = approved
Acknowledging == call # Missing /\ "acknowledge" \in DOMAIN call
AckInv == /\ \A k \in acks : Bound(k)
          /\ Acknowledging => Bound(call.acknowledge)

IInv == TypeOK /\ CallShape /\ FreezeInv /\ FileInv /\ RowInv /\ AckInv

----------------------------------------------------------------------------
LEMMA InitIInv == Init => IInv
<1> SUFFICES ASSUME Init PROVE IInv
  OBVIOUS
<1>1. DOMAIN file = {} /\ DOMAIN registry = {} /\ DOMAIN written = {}
  BY DEF Init, NoFile
<1>2. TypeOK
  BY <1>1, BoundAssumption DEF Init, TypeOK
<1>3. CallShape /\ FreezeInv /\ AckInv
  BY DEF Init, CallShape, FreezeInv, Freezing, AckInv, Acknowledging
<1> QED  BY <1>1, <1>2, <1>3 DEF IInv, FileInv, RowInv

(* A step that begins no freeze and touches neither the files nor the rows. *)
LEMMA StillFreeze ==
  ASSUME FreezeInv, UNCHANGED <<call, file>>
  PROVE  FreezeInv'
  BY DEF FreezeInv, Freezing, At

LEMMA NoFreeze ==
  ASSUME ~Freezing'
  PROVE  FreezeInv'
  BY DEF FreezeInv

(* A freeze that begins has looked at every member.                         *)
LEMMA StartStep ==
  ASSUME IInv, NEW b, NEW refused \in BOOLEAN, Begin(b, refused), UNCHANGED <<file, acks, facts>>,
         Collides(b) => refused
  PROVE  CallShape' /\ FreezeInv' /\ AckInv'
<1> DEFINE absent == {m \in Members(b) : At(b, m) = Missing}
           step == IF refused THEN "refused" ELSE IF absent = {} THEN "main" ELSE "files"
<1>1. call' = [freeze |-> b, absent |-> absent, step |-> step]
  BY DEF Begin
<1>2. /\ call'.freeze = b /\ call'.absent = absent /\ call'.step = step
      /\ DOMAIN call' = {"freeze", "absent", "step"}
  BY <1>1
<1>3. \A m \in AllMembers : At(b, m)' = At(b, m)
  BY DEF At
<1>4. ~refused => \A m \in AllMembers : At(b, m) = Missing \/ At(b, m).intact
  BY DEF Collides
<1>5. absent \subseteq AllMembers /\ Registered \subseteq Members(b)
  BY DEF Members, AllMembers, Registered
<1>6. \A m \in absent : <<b, m>> \notin DOMAIN file
  BY MissingAssumption DEF At, IInv, TypeOK
<1>7. \A m \in Registered \ absent : <<b, m>> \in DOMAIN file
  BY <1>5 DEF At
<1>8. FreezeInv'
  BY <1>2, <1>3, <1>4, <1>5, <1>6, <1>7 DEF FreezeInv, Registered
<1> HIDE DEF absent, step
<1>9. AckInv'
  <2>1. ~Acknowledging'
    BY <1>2 DEF Acknowledging
  <2> QED  BY <2>1 DEF IInv, AckInv, Bound, facts
<1> QED  BY <1>2, <1>8, <1>9 DEF CallShape

LEMMA CollidesBoolean == ASSUME NEW b PROVE Collides(b) \in BOOLEAN
  BY DEF Collides

LEMMA FreezeStep ==
  ASSUME IInv, FreezeLedger \/ FreezeReview \/ RunPdfQA \/ FreezeAssessment
  PROVE  IInv'
<1>1. UNCHANGED <<facts, paper, disk, acks, history>>
  BY DEF FreezeLedger, FreezeReview, RunPdfQA, FreezeAssessment
<1>2. \E b : \E refused \in BOOLEAN : Begin(b, refused) /\ (Collides(b) => refused)
  <2>1. ASSUME NEW b, Start(b) PROVE \E refused \in BOOLEAN : Begin(b, refused) /\ (Collides(b) => refused)
    BY <2>1, CollidesBoolean DEF Start
  <2> QED  BY <2>1 DEF FreezeLedger, FreezeReview, RunPdfQA, FreezeAssessment
<1>3. PICK b : \E refused \in BOOLEAN : Begin(b, refused) /\ (Collides(b) => refused)
  BY <1>2
<1>4. PICK refused \in BOOLEAN : Begin(b, refused) /\ (Collides(b) => refused)
  BY <1>3
<1>5. CallShape' /\ FreezeInv' /\ AckInv'
  BY <1>1, <1>4, StartStep DEF disk
<1>6. TypeOK' /\ FileInv' /\ RowInv'
  BY <1>1 DEF IInv, TypeOK, FileInv, RowInv, facts, disk, history
<1> QED  BY <1>5, <1>6 DEF IInv

LEMMA StampInNat == ASSUME TypeOK, NEW b PROVE Written(b) \in Nat
  BY DEF TypeOK, Written

LEMMA WriteStep ==
  ASSUME IInv, WriteMember
  PROVE  IInv'
<1> DEFINE b == call.freeze
<1>1. PICK m \in call.absent :
        /\ file' = SetAt(file, <<b, m>>, FileOf(b, m))
        /\ written' = IF m = "main" THEN SetAt(written, b, Written(b) + 1) ELSE written
        /\ call' = [call EXCEPT !.absent = call.absent \ {m},
                                !.step = IF call.absent = {m} THEN "main" ELSE call.step]
  BY DEF WriteMember
<1>2. /\ Freezing /\ call.step = "files"
      /\ UNCHANGED <<facts, paper, registry, payload, acks, history>>
  BY DEF WriteMember
<1>3. /\ call.absent \subseteq AllMembers
      /\ \A n \in call.absent : <<b, n>> \notin DOMAIN file
      /\ \A n \in Registered \ call.absent : <<b, n>> \in DOMAIN file
      /\ \A n \in AllMembers : At(b, n) = Missing \/ At(b, n).intact
  BY <1>2 DEF IInv, FreezeInv
<1>4. DOMAIN call = {"freeze", "absent", "step"}
  BY <1>2 DEF IInv, CallShape, Freezing
<1>5. /\ DOMAIN call' = {"freeze", "absent", "step"}
      /\ call'.freeze = b /\ call'.absent = call.absent \ {m}
      /\ call'.step = IF call.absent = {m} THEN "main" ELSE "files"
  BY <1>1, <1>2, <1>4
<1>6. /\ DOMAIN file' = DOMAIN file \cup {<<b, m>>}
      /\ file'[<<b, m>>] = FileOf(b, m)
      /\ \A p \in DOMAIN file : file'[p] = file[p]
  BY <1>1, <1>3 DEF SetAt
<1>7. FileOf(b, m) \in Files /\ FileOf(b, m).intact = TRUE
  BY StampInNat DEF FileOf, Files, IInv
<1>8. TypeOK'
  <2>1. \A p \in DOMAIN file' : file'[p] \in Files
    BY <1>6, <1>7 DEF IInv, TypeOK
  <2>2. \A c \in DOMAIN written' : written'[c] \in Nat \ {0}
    <3>1. CASE m = "main"
      <4>1. Written(b) + 1 \in Nat \ {0}
        BY StampInNat DEF IInv
      <4>2. /\ DOMAIN written' = DOMAIN written \cup {b} /\ written'[b] = Written(b) + 1
            /\ \A c \in DOMAIN written \ {b} : written'[c] = written[c]
        BY <1>1, <3>1 DEF SetAt
      <4> QED  BY <4>1, <4>2 DEF IInv, TypeOK
    <3>2. CASE m # "main"
      BY <1>1, <3>2 DEF IInv, TypeOK
    <3> QED  BY <3>1, <3>2
  <2> QED  BY <1>2, <2>1, <2>2 DEF IInv, TypeOK, facts, history
<1>9. CallShape'
  BY <1>5 DEF CallShape
<1>10. FreezeInv'
  <2>2. \A n \in call.absent \ {m} : <<b, n>> \notin DOMAIN file'
    BY <1>3, <1>6
  <2>3. \A n \in Registered \ (call.absent \ {m}) : <<b, n>> \in DOMAIN file'
    BY <1>3, <1>6
  <2>4. call.absent = {m} => \A n \in Registered : <<b, n>> \in DOMAIN file'
    BY <1>3, <1>6
  <2>5. \A n : At(call.freeze, n)' = IF <<b, n>> \in DOMAIN file' THEN file'[<<b, n>>] ELSE Missing
    BY <1>5 DEF At
  <2>6. \A n \in AllMembers : At(call.freeze, n)' = Missing \/ At(call.freeze, n)'.intact
    BY <1>3, <1>6, <1>7, <2>5 DEF At
  <2> QED  BY <1>3, <1>5, <2>2, <2>3, <2>4, <2>6 DEF FreezeInv, Registered
<1>11. FileInv'
  BY <1>2, <1>6, <1>7 DEF IInv, FileInv, history
<1>12. RowInv'
  BY <1>2, <1>6 DEF IInv, RowInv, history
<1>13. AckInv'
  BY <1>2, <1>5 DEF IInv, AckInv, Acknowledging, Bound, facts
<1> QED  BY <1>8, <1>9, <1>10, <1>11, <1>12, <1>13 DEF IInv

LEMMA RegisterStep ==
  ASSUME IInv, RegisterMember
  PROVE  IInv'
<1> DEFINE b == call.freeze
           m == call.step
<1>1. /\ Freezing /\ m \in Registered /\ Agrees(b, m)
      /\ registry' = IF Row(b, m) = Missing THEN SetAt(registry, <<b, m>>, At(b, m)) ELSE registry
      /\ call' = IF m = "main" THEN [call EXCEPT !.step = "manifest"] ELSE Missing
      /\ finished' = IF m = "manifest" THEN finished \cup {b} ELSE finished
      /\ UNCHANGED <<facts, paper, file, written, payload, acks, damaged, damage, kills>>
  BY DEF RegisterMember, Register
<1>2. /\ \A n \in AllMembers : At(b, n) = Missing \/ At(b, n).intact
      /\ \A n \in Registered : <<b, n>> \in DOMAIN file
  BY <1>1 DEF IInv, FreezeInv, Registered
<1>3. /\ At(b, m) = file[<<b, m>>] /\ <<b, m>> \in DOMAIN file
      /\ At(b, m) \in Files /\ At(b, m).intact
  <2>1. <<b, m>> \in DOMAIN file
    BY <1>1, <1>2
  <2>2. At(b, m) \in Files /\ At(b, m) # Missing
    BY <2>1, MissingAssumption DEF At, IInv, TypeOK
  <2> QED  BY <1>1, <1>2, <2>1, <2>2 DEF At, Registered, AllMembers
<1>4. \/ /\ DOMAIN registry' = DOMAIN registry \cup {<<b, m>>}
         /\ registry'[<<b, m>>] = file[<<b, m>>]
         /\ \A p \in DOMAIN registry \ {<<b, m>>} : registry'[p] = registry[p]
      \/ registry' = registry /\ <<b, m>> \in DOMAIN registry
  <2>1. CASE Row(b, m) = Missing
    BY <1>1, <1>3, <2>1 DEF SetAt
  <2>2. CASE Row(b, m) # Missing
    BY <1>1, <2>2 DEF Row
  <2> QED  BY <2>1, <2>2
<1>5. TypeOK'
  <2>1. \A p \in DOMAIN registry' : registry'[p] \in Files
    BY <1>3, <1>4 DEF IInv, TypeOK
  <2> QED  BY <1>1, <2>1 DEF IInv, TypeOK, facts
<1>6. CallShape' /\ FreezeInv' /\ AckInv'
  <2>1. CASE m = "main"
    <3>1. DOMAIN call = {"freeze", "absent", "step"}
      BY <1>1 DEF IInv, CallShape, Freezing
    <3>2. DOMAIN call' = {"freeze", "absent", "step"} /\ call'.step = "manifest" /\ call'.freeze = b
      BY <1>1, <2>1, <3>1
    <3>3. \A n : At(call.freeze, n)' = At(b, n)
      BY <1>1, <3>2 DEF At
    <3>4. FreezeInv'
      BY <1>1, <1>2, <3>2, <3>3 DEF FreezeInv
    <3>5. AckInv'
      BY <1>1, <3>2 DEF IInv, AckInv, Acknowledging, Bound, facts
    <3> QED  BY <3>2, <3>4, <3>5 DEF CallShape
  <2>2. CASE m # "main"
    BY <1>1, <2>2 DEF IInv, CallShape, FreezeInv, Freezing, AckInv, Acknowledging, Bound, facts
  <2> QED  BY <2>1, <2>2
<1>7. FileInv'
  BY <1>1 DEF IInv, FileInv
<1>8. RowInv'
  <2>1. ASSUME NEW p \in DOMAIN registry' PROVE
          /\ registry'[p].intact
          /\ p[1] \in damaged' \/ (p \in DOMAIN file' /\ file'[p] = registry'[p])
          /\ p[2] = "manifest" => p[1] \in finished'
    <3>1. CASE p \in DOMAIN registry /\ registry'[p] = registry[p]
      BY <1>1, <3>1 DEF IInv, RowInv
    <3>2. CASE p = <<b, m>> /\ registry'[p] = file[p]
      <4>1. p[1] = b /\ p[2] = m
        BY <3>2
      <4> QED  BY <1>1, <1>3, <3>2, <4>1
    <3> QED  BY <1>4, <2>1, <3>1, <3>2
  <2> QED  BY <2>1 DEF RowInv
<1> QED  BY <1>5, <1>6, <1>7, <1>8 DEF IInv

(* A call that ends, and one that is refused.                               *)
LEMMA EndStep ==
  ASSUME IInv, \/ call' = Missing
               \/ Freezing /\ call' = [call EXCEPT !.step = "refused"],
         UNCHANGED <<facts, paper, disk, finished, damaged, damage>>, kills' \in 0..MaxKills,
         \A k \in acks' : k \in acks \/ (Acknowledging /\ k = call.acknowledge)
  PROVE  IInv'
<1>1. TypeOK' /\ FileInv' /\ RowInv'
  BY DEF IInv, TypeOK, FileInv, RowInv, facts, disk
<1>2. \A k \in acks' : Bound(k)'
  BY DEF IInv, AckInv, Bound, facts
<1>3. CASE call' = Missing
  BY <1>1, <1>2, <1>3 DEF IInv, CallShape, FreezeInv, Freezing, AckInv, Acknowledging
<1>4. CASE Freezing /\ call' = [call EXCEPT !.step = "refused"]
  <2>1. DOMAIN call = {"freeze", "absent", "step"}
    BY <1>4 DEF IInv, CallShape, Freezing
  <2>2. DOMAIN call' = {"freeze", "absent", "step"} /\ call'.step = "refused"
    BY <1>4, <2>1
  <2> QED  BY <1>1, <1>2, <2>2 DEF IInv, CallShape, FreezeInv, AckInv, Acknowledging, Registered
<1> QED  BY <1>3, <1>4

LEMMA AcknowledgeStep ==
  ASSUME IInv, CheckAcknowledged
  PROVE  IInv'
<1>1. PICK a : AssessmentCurrent(a) /\ call' = [acknowledge |-> [of |-> a, seen |-> World]]
  BY DEF CheckAcknowledged
<1>2. UNCHANGED <<facts, paper, disk, payload, acks, history>>
  BY DEF CheckAcknowledged
<1>3. a.pins.paper = paper /\ a.pins.domain = epoch
  <2>1. Assess(a.assesses, a.target) = a
    BY <1>1 DEF AssessmentCurrent
  <2>2. a.pins = Pins(a.assesses)
    BY <2>1 DEF Assess
  <2> QED  BY <2>2 DEF Pins
<1>4. World \in Worlds /\ World.evidence = evidence /\ World.approved = approved /\ World.paper = paper
  BY DEF World, Worlds, IInv, TypeOK
<1>5. /\ DOMAIN call' = {"acknowledge"} /\ call'.acknowledge.of = a
      /\ call'.acknowledge.seen = World
  BY <1>1
<1>6. TypeOK' /\ FileInv' /\ RowInv'
  BY <1>2 DEF IInv, TypeOK, FileInv, RowInv, facts, disk, history
<1>7. Bound(call.acknowledge)'
  BY <1>2, <1>3, <1>4, <1>5 DEF Bound, facts, IInv, TypeOK
<1>8. \A k \in acks' : Bound(k)'
  BY <1>2 DEF IInv, AckInv, Bound, facts
<1> QED  BY <1>5, <1>6, <1>7, <1>8 DEF IInv, CallShape, FreezeInv, Freezing, AckInv

LEMMA WorldStep ==
  ASSUME IInv, EvaluateRelease \/ ChangeFacts \/ EditPaper
  PROVE  IInv'
<1>1. UNCHANGED <<disk, call, acks, history>>
  BY DEF EvaluateRelease, ChangeFacts, EditPaper
<1>2. \/ UNCHANGED facts
      \/ epoch' = epoch + 1 /\ epoch < MaxChanges
  BY DEF EvaluateRelease, ChangeFacts, EditPaper
<1>3. evidence' \subseteq Evidence /\ approved' \subseteq Imported /\ paper' \in Papers
  BY DEF IInv, TypeOK, EvaluateRelease, ChangeFacts, EditPaper, RemoveEvidence, Approve, Revoke, facts
<1>4. epoch' \in 0..MaxChanges
  BY <1>2, BoundAssumption DEF IInv, TypeOK, facts
<1>5. TypeOK' /\ FileInv' /\ RowInv'
  BY <1>1, <1>3, <1>4 DEF IInv, TypeOK, FileInv, RowInv, disk, history
<1>6. CallShape' /\ FreezeInv'
  BY <1>1, StillFreeze DEF IInv, CallShape, disk
<1>7. ASSUME NEW k, Bound(k) PROVE Bound(k)'
  BY <1>2, <1>7 DEF Bound, facts, IInv, TypeOK
<1>8. AckInv'
  BY <1>1, <1>7 DEF IInv, AckInv, Acknowledging
<1> QED  BY <1>5, <1>6, <1>8 DEF IInv

LEMMA DamageStep ==
  ASSUME IInv, Damage
  PROVE  IInv'
<1>1. /\ call = Missing /\ damage < MaxDamage /\ damage' = damage + 1
      /\ UNCHANGED <<facts, paper, registry, written, call, payload, acks, finished, kills>>
  BY DEF Damage
<1>2. PICK p \in DOMAIN file :
        /\ file' = [file EXCEPT ![p].intact = FALSE] \/ file' = Without(file, p)
        /\ damaged' = damaged \cup {p[1]}
  BY DEF Damage
<1>3. /\ DOMAIN file' \subseteq DOMAIN file
      /\ \A q \in DOMAIN file \ {p} : q \in DOMAIN file' /\ file'[q] = file[q]
      /\ p \in DOMAIN file' => file'[p] \in Files
  <2>1. CASE file' = Without(file, p)
    BY <2>1 DEF Without
  <2>2. CASE file' = [file EXCEPT ![p].intact = FALSE]
    <3>1. [file[p] EXCEPT !.intact = FALSE] \in Files
      BY DEF IInv, TypeOK, Files
    <3> QED  BY <2>2, <3>1
  <2> QED  BY <1>2, <2>1, <2>2
<1>4. TypeOK'
  BY <1>1, <1>3, BoundAssumption DEF IInv, TypeOK, facts
<1>5. FileInv'
  BY <1>2, <1>3 DEF IInv, FileInv
<1>6. RowInv'
  BY <1>1, <1>2, <1>3 DEF IInv, RowInv
<1>7. CallShape' /\ FreezeInv' /\ AckInv'
  BY <1>1 DEF IInv, CallShape, FreezeInv, Freezing, AckInv, Acknowledging, Bound, facts
<1> QED  BY <1>4, <1>5, <1>6, <1>7 DEF IInv

LEMMA NextIInv == IInv /\ [Next]_vars => IInv'
<1> SUFFICES ASSUME IInv, [Next]_vars PROVE IInv'
  OBVIOUS
<1>1. CASE FreezeLedger \/ FreezeReview \/ RunPdfQA \/ FreezeAssessment
  BY <1>1, FreezeStep
<1>2. CASE WriteMember \/ RegisterMember
  BY <1>2, WriteStep, RegisterStep
<1>3. CASE RegistryDisagrees \/ Raise \/ WriteAcknowledgement \/ Kill
  <2>1. kills' \in 0..MaxKills
    BY <1>3, BoundAssumption
       DEF RegistryDisagrees, Raise, WriteAcknowledgement, Kill, IInv, TypeOK, history
  <2> QED  BY <1>3, <2>1, EndStep
           DEF RegistryDisagrees, Raise, WriteAcknowledgement, Kill, Acknowledging, history
<1>4. CASE CheckAcknowledged
  BY <1>4, AcknowledgeStep
<1>5. CASE EvaluateRelease \/ ChangeFacts \/ EditPaper
  BY <1>5, WorldStep
<1>6. CASE Damage
  BY <1>6, DamageStep
<1>7. CASE UNCHANGED vars
  <2>1. TypeOK' /\ FileInv' /\ RowInv' /\ CallShape'
    BY <1>7 DEF IInv, TypeOK, FileInv, RowInv, CallShape, vars, facts, disk, history
  <2>2. FreezeInv' /\ AckInv'
    BY <1>7, StillFreeze DEF IInv, AckInv, Acknowledging, Bound, vars, facts, disk
  <2> QED  BY <2>1, <2>2 DEF IInv
<1> QED  BY <1>1, <1>2, <1>3, <1>4, <1>5, <1>6, <1>7 DEF Next

LEMMA AlwaysIInv == Spec => []IInv
  BY InitIInv, NextIInv, PTL DEF Spec

----------------------------------------------------------------------------
(* The files, the rows and the tables keep their form.                      *)
THEOREM Typed == Spec => []TypeOK
  BY AlwaysIInv, PTL DEF IInv

(* A row vouches only for the content of its bundle.                        *)
THEOREM RegistryIsFrozen == Spec => []RegisteredIsFrozen
<1>1. IInv => RegisteredIsFrozen
  BY DEF IInv, RowInv, RegisteredIsFrozen
<1> QED  BY <1>1, AlwaysIInv, PTL

(* The program rewrites neither a registered hash nor a file.               *)
THEOREM NothingRewritten == Spec => NothingIsRewritten
<1>1. IInv /\ [Next]_vars =>
        [/\ \A p \in DOMAIN registry :
              p \in DOMAIN registry' /\ registry'[p] = registry[p]
         /\ damage' = damage =>
              \A p \in DOMAIN file : p \in DOMAIN file' /\ file'[p] = file[p]]_vars
  <2> SUFFICES ASSUME IInv, Next
               PROVE /\ \A p \in DOMAIN registry :
                          p \in DOMAIN registry' /\ registry'[p] = registry[p]
                     /\ damage' = damage =>
                          \A p \in DOMAIN file : p \in DOMAIN file' /\ file'[p] = file[p]
    OBVIOUS
  <2>1. CASE WriteMember
    <3>1. PICK m \in call.absent : file' = SetAt(file, <<call.freeze, m>>, FileOf(call.freeze, m))
      BY <2>1 DEF WriteMember
    <3>2. <<call.freeze, m>> \notin DOMAIN file
      BY <2>1, <3>1 DEF WriteMember, IInv, FreezeInv
    <3>3. UNCHANGED registry
      BY <2>1 DEF WriteMember
    <3> QED  BY <3>1, <3>2, <3>3 DEF SetAt
  <2>2. CASE RegisterMember
    <3>1. /\ UNCHANGED file
          /\ registry' = IF Row(call.freeze, call.step) = Missing
                         THEN SetAt(registry, <<call.freeze, call.step>>, At(call.freeze, call.step))
                         ELSE registry
      BY <2>2 DEF RegisterMember, Register
    <3>2. Row(call.freeze, call.step) = Missing => <<call.freeze, call.step>> \notin DOMAIN registry
      BY MissingAssumption DEF Row, IInv, TypeOK
    <3> QED  BY <3>1, <3>2 DEF SetAt
  <2>3. CASE Damage
    BY <2>3 DEF Damage, IInv, TypeOK
  <2>4. CASE ~WriteMember /\ ~RegisterMember /\ ~Damage
    BY <2>4 DEF Next, FreezeLedger, FreezeReview, RunPdfQA, FreezeAssessment, EvaluateRelease,
                RegistryDisagrees, Raise, CheckAcknowledged, WriteAcknowledgement, Kill,
                ChangeFacts, EditPaper, disk
  <2> QED  BY <2>1, <2>2, <2>3, <2>4
<1> QED  BY <1>1, AlwaysIInv, PTL DEF Spec, NothingIsRewritten

(* A release is authorized only as its owner acknowledged it.               *)
THEOREM AcknowledgedIsAuthorized == Spec => []AuthorizedAsAcknowledged
<1>1. IInv => AuthorizedAsAcknowledged
  <2> SUFFICES ASSUME IInv, NEW k \in acks, Authorized(k) PROVE k.seen = World
    BY DEF AuthorizedAsAcknowledged
  <2>1. Assess(k.of.assesses, k.of.target) = k.of
    BY DEF Authorized, AssessmentCurrent
  <2>2. k.of.pins = Pins(k.of.assesses)
    BY <2>1 DEF Assess
  <2>3. k.of.pins.paper = paper /\ k.of.pins.domain = epoch
    BY <2>2 DEF Pins
  <2>4. /\ k.seen \in Worlds /\ k.seen.paper = paper
        /\ k.seen.evidence = evidence /\ k.seen.approved = approved
    BY <2>3 DEF IInv, AckInv, Bound
  <2> QED  BY <2>4 DEF Worlds, World
<1> QED  BY <1>1, AlwaysIInv, PTL

(* The row of a manifest is written last, so a complete bundle is finished. *)
LEMMA CompleteIsFinished ==
  ASSUME IInv, NEW b, Complete(b)
  PROVE  b \in finished
<1>1. At(b, "manifest") # Missing /\ Row(b, "manifest") = At(b, "manifest")
  BY DEF Complete, Registered
<1>2. <<b, "manifest">> \in DOMAIN registry
  BY <1>1 DEF Row
<1> DEFINE p == <<b, "manifest">>
<1>3. p[1] = b /\ p[2] = "manifest"
  OBVIOUS
<1> QED  BY <1>2, <1>3 DEF IInv, RowInv

(* A category that the policy requires and whose one gate does not pass      *)
(* stops the release.                                                       *)
LEMMA RequiredPasses ==
  ASSUME NEW gates, NEW c \in Policy.gates \cap DOMAIN gates, NEW status, gates[c] = {status},
         Overall(gates, Policy) = "ELIGIBLE"
  PROVE  status \notin {"failed", "blocked"}
<1> DEFINE found == UNION {gates[d] : d \in Policy.gates \cap DOMAIN gates}
                      \cup {"blocked" : d \in {d \in Policy.gates : d \notin DOMAIN gates \/ gates[d] = {}}}
<1>1. status \in found
  OBVIOUS
<1>2. found \cap {"failed", "blocked"} = {}
  BY DEF Overall
<1> QED  BY <1>1, <1>2

(* The gates of an eligible release found its bundles complete.             *)
LEMMA EligibleIsComplete ==
  ASSUME NEW in, NEW target, Eligible(in, target)
  PROVE  Complete(in.qa) /\ Complete(in.review) /\ Complete(in.review.review)
<1> DEFINE gates == Gates(in, target)
<1>1. /\ "pdf_layout_qa" \in Policy.gates \cap DOMAIN gates
      /\ "scientific_review" \in Policy.gates \cap DOMAIN gates
  BY PolicyAssumption DEF Categories, Gates
<1>2. /\ gates["pdf_layout_qa"] = {LayoutGate(in, target)}
      /\ gates["scientific_review"] = {IF ReviewGate(in) THEN "passed" ELSE "blocked"}
  BY DEF Gates, Gate
<1>3. Overall(gates, Policy) = "ELIGIBLE"
  BY DEF Eligible
<1> HIDE DEF gates
<1>4. LayoutGate(in, target) # "blocked"
  BY <1>1, <1>2, <1>3, RequiredPasses
<1>5. (IF ReviewGate(in) THEN "passed" ELSE "blocked") # "blocked"
  BY <1>1, <1>2, <1>3, RequiredPasses
<1> QED  BY <1>4, <1>5 DEF LayoutGate, ReviewGate, ReviewCurrent, LedgerCurrent

(* No bundle under an authorized release was left half frozen.              *)
THEOREM FinishedIsAuthorized == Spec => []AuthorityIsFinished
<1>1. IInv => AuthorityIsFinished
  <2> SUFFICES ASSUME IInv, NEW k \in acks, Authorized(k)
               PROVE {k.of, k.of.assesses.qa, k.of.assesses.review,
                      k.of.assesses.review.review} \subseteq finished
    BY DEF AuthorityIsFinished
  <2>1. Complete(k.of) /\ Assess(k.of.assesses, k.of.target) = k.of /\ k.of.eligible
    BY DEF Authorized, AssessmentCurrent
  <2>2. Eligible(k.of.assesses, k.of.target)
    BY <2>1 DEF Assess
  <2>3. /\ Complete(k.of.assesses.qa) /\ Complete(k.of.assesses.review)
        /\ Complete(k.of.assesses.review.review)
    BY <2>2, EligibleIsComplete
  <2> QED  BY <2>1, <2>3, CompleteIsFinished
<1> QED  BY <1>1, AlwaysIInv, PTL

(* A freeze that was killed is refused again only for damage, or because    *)
(* what was assessed has changed.                                           *)
LEMMA CollisionIsDamage ==
  ASSUME IInv, NEW b, Collides(b)
  PROVE  b \in damaged
<1>1. PICK m \in AllMembers : At(b, m) # Missing /\ ~At(b, m).intact
  BY DEF Collides
<1> DEFINE p == <<b, m>>
<1>2. p \in DOMAIN file /\ ~file[p].intact /\ p[1] = b
  BY <1>1 DEF At
<1> QED  BY <1>2 DEF IInv, FileInv

LEMMA DisagreementIsDamage ==
  ASSUME IInv, NEW b, NEW m, ~Agrees(b, m)
  PROVE  b \in damaged
<1> DEFINE p == <<b, m>>
<1>1. p \in DOMAIN registry /\ registry[p] # At(b, m) /\ p[1] = b
  BY DEF Agrees, Row
<1> QED  BY <1>1 DEF IInv, RowInv, At

(* What a caller holds is an assessment.                                    *)
PayloadShape == payload = Missing \/ Is("assesses", payload)
LEMMA AlwaysPayload == Spec => []PayloadShape
<1>1. Init => PayloadShape
  BY DEF Init, PayloadShape
<1>2. PayloadShape /\ [Next]_vars => PayloadShape'
  <2> SUFFICES ASSUME PayloadShape, [Next]_vars PROVE PayloadShape'
    OBVIOUS
  <2>1. CASE EvaluateRelease
    <3>1. \E in, target : payload' = Assess(in, target)
      BY <2>1 DEF EvaluateRelease
    <3> QED  BY <3>1 DEF PayloadShape, Assess, Is
  <2>2. CASE ~EvaluateRelease
    <3>1. payload' = payload \/ payload' = Missing
      BY <2>2 DEF Next, vars, FreezeLedger, FreezeReview, RunPdfQA, FreezeAssessment, WriteMember,
                  RegisterMember, RegistryDisagrees, Raise, CheckAcknowledged,
                  WriteAcknowledgement, Kill, ChangeFacts, EditPaper, Damage
    <3> QED  BY <3>1 DEF PayloadShape, Is
  <2> QED  BY <2>1, <2>2
<1> QED  BY <1>1, <1>2, PTL DEF Spec

(* A retry of a freeze fails only for a reason of its own.                  *)
THEOREM RefusalHasACause == Spec => RefusedForCause
<1>1. IInv /\ PayloadShape /\ [Next]_vars =>
        [Refused' /\ ~Refused =>
           \/ call'.freeze \in damaged
           \/ /\ Is("assesses", call'.freeze)
              /\ Assess(call'.freeze.assesses, call'.freeze.target) # call'.freeze]_vars
  <2> SUFFICES ASSUME IInv, PayloadShape, Next, Refused', ~Refused
               PROVE  \/ call'.freeze \in damaged
                      \/ /\ Is("assesses", call'.freeze)
                         /\ Assess(call'.freeze.assesses, call'.freeze.target) # call'.freeze
    OBVIOUS
  <2>1. ASSUME NEW b, NEW refused \in BOOLEAN, Begin(b, refused) PROVE call'.freeze = b /\ refused
    BY <2>1 DEF Begin, Refused
  <2>2. ASSUME NEW b, Start(b) PROVE call'.freeze \in damaged
    BY <2>1, <2>2, CollidesBoolean, CollisionIsDamage DEF Start
  <2>3. CASE FreezeLedger \/ FreezeReview \/ RunPdfQA
    BY <2>2, <2>3 DEF FreezeLedger, FreezeReview, RunPdfQA
  <2>4. CASE FreezeAssessment
    <3>1. CASE Assess(payload.assesses, payload.target) = payload
      BY <2>2, <2>4, <3>1 DEF FreezeAssessment
    <3>2. CASE Assess(payload.assesses, payload.target) # payload
      <4>1. Begin(payload, TRUE)
        BY <2>4, <3>2, Zenon DEF FreezeAssessment
      <4>2. Is("assesses", payload)
        BY <2>4 DEF FreezeAssessment, PayloadShape
      <4>3. call'.freeze = payload
        BY <4>1 DEF Begin
      <4> QED  BY <3>2, <4>2, <4>3, Zenon DEF Is
    <3> QED  BY <3>1, <3>2
  <2>5. CASE RegistryDisagrees
    <3>1. call'.freeze = call.freeze
      BY <2>5 DEF RegistryDisagrees, Freezing
    <3> QED  BY <2>5, <3>1, DisagreementIsDamage DEF RegistryDisagrees
  <2>6. ~WriteMember
    <3>1. WriteMember => call'.step \in {"main", "files"}
      BY DEF WriteMember, Freezing, IInv, CallShape
    <3> QED  BY <3>1 DEF Refused
  <2>7. ~RegisterMember
    <3>1. RegisterMember => call' = Missing \/ call'.step = "manifest"
      BY DEF RegisterMember, Freezing, IInv, CallShape
    <3> QED  BY <3>1 DEF Refused, Freezing
  <2>8. ~Raise /\ ~WriteAcknowledgement /\ ~Kill
    BY DEF Raise, WriteAcknowledgement, Kill, Refused, Freezing
  <2>9. ~CheckAcknowledged
    <3>1. CheckAcknowledged => "freeze" \notin DOMAIN call'
      BY DEF CheckAcknowledged
    <3> QED  BY <3>1 DEF Refused, Freezing
  <2>10. ~EvaluateRelease /\ ~ChangeFacts /\ ~EditPaper /\ ~Damage
    BY DEF EvaluateRelease, ChangeFacts, EditPaper, Damage, Refused, Freezing
  <2> QED  BY <2>3, <2>4, <2>5, <2>6, <2>7, <2>8, <2>9, <2>10 DEF Next
<1> QED  BY <1>1, AlwaysIInv, AlwaysPayload, PTL DEF Spec, RefusedForCause
=============================================================================
