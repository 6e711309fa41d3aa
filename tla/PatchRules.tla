------------------------------ MODULE PatchRules ------------------------------
(***************************************************************************)
(* What a patch of one .tex file has to satisfy (paperforge/                *)
(* writing_patch.py): a model rewrites the text of one anchor, and whatever  *)
(* does not fit is refused before the file is written.                      *)
(***************************************************************************)
EXTENDS UpdateRules
LOCAL INSTANCE Naturals
LOCAL INSTANCE Sequences

(* _looks_truncated: braces or environments left open, a trailing escape or a *)
(* leftover fence.                                                          *)
LooksTruncated(text) ==
  \/ text.last \in {"", "escape", "fence"}
  \/ text.opened # text.closed
  \/ text.begins # text.ends

(* _resolve_target: a regular .tex file of the workspace.                    *)
PatchTarget(request) == request.path = "tex"

(* Before the model is asked.                                               *)
Patchable(request, text) ==
  /\ ~ request.extra
  /\ PatchTarget(request)
  /\ request.anchor # ""
  /\ text.anchors[request.anchor].hits = 1
  /\ request.range # <<>> =>
       /\ 1 <= request.range[1] /\ request.range[1] <= request.range[2]
       /\ text.anchors[request.anchor].line \in request.range[1]..request.range[2]
  /\ WellMarked(text.marks) /\ text.blocks # <<>>

(* The size of what the model is asked, the excerpt around the anchor and the *)
(* reference material, which is cut to its own budget.                       *)
PromptFits(request, limit) == request.size <= limit

(* What the model answered.                                                 *)
AnswerAdmissible(answer) ==
  /\ ~ answer.cut
  /\ answer.text.last # ""
  /\ ~ LooksTruncated(answer.text)
  /\ ~ answer.secret /\ ~ answer.unsafe

(* The document with the answer in the place of the anchor: it is whole and   *)
(* has the protected blocks of the old one, byte for byte and in order.       *)
SplicedAdmissible(text, spliced) ==
  /\ ~ LooksTruncated(spliced)
  /\ {"documentclass", "begin", "end"} \subseteq spliced.parts
  /\ WellMarked(spliced.marks)
  /\ spliced.blocks = text.blocks
=============================================================================
