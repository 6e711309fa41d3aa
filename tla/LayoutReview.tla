---------------------------- MODULE LayoutReview ----------------------------
(***************************************************************************)
(* What the layout check finds in a PDF, what people may say about its pages, *)
(* and when a release accepts the two (pdf_qa.py and gate E of               *)
(* release_eligibility.py).                                                 *)
(*                                                                         *)
(* A PDF is a record [readable, pages, texts, images, embedded, overflow,     *)
(* touch, sizes, role]: texts holds <<page, points>> of the text that is      *)
(* shown, role says which renderer draws it.  A human review is a record      *)
(* [page, pdf, render, status, reviewer, source, at, role].                   *)
(***************************************************************************)
EXTENDS Integers

CONSTANTS FontCritical, FontWarning, Nobody

Pages(pdf) == 1..pdf.pages

Issue(page, category, severity) ==
  [page |-> page, category |-> category, severity |-> severity,
   status |-> IF severity = "needs_human" THEN "needs_human" ELSE "open"]

(* Text in an image has no size that could be read from the file.            *)
FontIssues(pdf) ==
  IF pdf.texts = {}
  THEN IF pdf.images THEN {Issue(1, "raster_text_unmeasurable", "needs_human")} ELSE {}
  ELSE {Issue(t[1], "tiny_text", "critical") : t \in {t \in pdf.texts : t[2] < FontCritical}}
       \cup {Issue(t[1], "tiny_text", "warning")
               : t \in {t \in pdf.texts : t[2] \in FontCritical..(FontWarning - 1)}}
       \cup {Issue(t[1], "nonembedded_font", "warning") : t \in {t \in pdf.texts : ~ pdf.embedded}}

(* Boxes that touch are for people to look at.                               *)
GeometryIssues(pdf) ==
  {Issue(1, "overflow", "critical") : x \in {x \in {pdf} : x.overflow}}
  \cup {Issue(1, "overlap_candidate", "needs_human") : x \in {x \in {pdf} : x.touch}}
  \cup {Issue(1, "inconsistent_page_geometry", "warning") : x \in {x \in {pdf} : x.sizes > 1}}

LayoutIssues(pdf) == FontIssues(pdf) \cup GeometryIssues(pdf)

(* Every page is drawn by a real renderer, unless a test asks for another.    *)
Renderable(pdf, synthetic) == pdf.role = "production" \/ synthetic

----------------------------------------------------------------------------
(* What people said.                                                        *)

Looked == {"passed", "passed_with_warnings"}

(* No program vouches for a page: a verdict has a name, a source and a date.  *)
Authentic(reviews) == \A h \in reviews : h.status # "pending" =>
  Nobody \notin {h.reviewer, h.at} /\ h.source = "human_explicit"

(* A review of other bytes or another picture of the page is stale.          *)
Fresh(h, pdf) == h.pdf = pdf /\ h.render = <<pdf, h.page>> /\ h.page \in Pages(pdf)

Reviewed(reviews, pdf) == {h.page : h \in {h \in reviews : Fresh(h, pdf) /\ h.status \in Looked}}

(* The state of run_pdf_qa.  One failed review fails the whole, stale or not. *)
LayoutState(pdf, reviews) ==
  LET issues == LayoutIssues(pdf)
  IN IF \/ \E i \in issues : i.severity = "critical" /\ i.status = "open"
        \/ \E h \in reviews : h.status = "failed"
     THEN "failed"
     ELSE IF \/ \E i \in issues : i.status = "needs_human"
             \/ ~ Pages(pdf) \subseteq Reviewed(reviews, pdf)
     THEN "needs_human"
     ELSE IF \E h \in reviews : h.status = "passed_with_warnings" THEN "passed_with_warnings"
     ELSE "passed"

(* A criterion of a reviewer is about its own issues and pages: that the      *)
(* whole passes does not settle it.                                          *)
CriterionMet(issues, reviews, pdf, wanted, pages, acceptsReason) ==
  /\ \A w \in wanted : \E i \in issues :
       /\ i.page = w.page /\ i.category = w.category
       /\ \/ i.status = "resolved"
          \/ i.status = "accepted_with_rationale" /\ acceptsReason
  /\ pages \subseteq Reviewed(reviews, pdf)

----------------------------------------------------------------------------
(* Gate E, for a policy with the set allowed of classes of warnings.         *)

(* Warnings pass only where the policy names them.                           *)
LayoutBlocked(pdf, reviews, allowed) ==
  LET issues == LayoutIssues(pdf)
  IN \/ LayoutState(pdf, reviews) \notin Looked \cup {"needs_human"}
     \/ \E i \in issues : /\ i.status = "open"
                          /\ i.severity = "critical" \/ i.category \notin allowed
     \/ LayoutState(pdf, reviews) = "passed_with_warnings" /\ allowed = {}
     \/ pdf.pages = 0 \/ pdf.role # "production"

(* Each page was seen by somebody, and nobody who saw it objects.            *)
LayoutPending(pdf, reviews) ==
  \/ LayoutState(pdf, reviews) = "needs_human"
  \/ \E i \in LayoutIssues(pdf) : i.status = "needs_human"
  \/ \E page \in Pages(pdf) :
       LET seen == {h \in reviews : /\ h.page = page /\ Fresh(h, pdf)
                                    /\ h.role = "production" /\ h.source = "human_explicit"
                                    /\ Nobody \notin {h.reviewer, h.at}}
       IN seen = {} \/ \E h \in seen : h.status \notin Looked

LayoutStatus(pdf, reviews, allowed) ==
  IF LayoutBlocked(pdf, reviews, allowed) THEN "blocked"
  ELSE IF LayoutPending(pdf, reviews) THEN "needs_human"
  ELSE "passed"
=============================================================================
