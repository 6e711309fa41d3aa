---------------------------- MODULE MCPublication ----------------------------
(* One paper for TLC: an edit, two or three calls, a kill.                  *)
EXTENDS Publication

CONSTANTS s1, s2, b1, b2, tight, loose
TwoSciences == {s1, s2}
TwoBibs == {b1, b2}
TwoLayouts == {tight, loose}
OnlyTight == {tight}

(* Sciences and bibliographies are interchangeable: start from the first.   *)
FirstInit == Init /\ tex.science = s1 /\ bib = b1
FirstSpec == FirstInit /\ [][Next]_vars /\ WF_vars(Publish \/ Release)
=============================================================================
