------------------------------ MODULE MCWorkflow ------------------------------
(* Small instances of RuntimeChain.  Calls and retries are not counted, so   *)
(* every run covers any number of them for its processes.                   *)
EXTENDS RuntimeChain

CONSTANTS p1, p2, p3

Stage(gpus, seconds) == [backend |-> "local", execute |-> TRUE, command |-> "check",
                         gpus |-> gpus, seconds |-> seconds, cost |-> 1]
Job(static, mini, limit) ==
  [execute |-> TRUE, command |-> "train", cost |-> 2, limit |-> limit,
   stages |-> [static_check |-> static, mini_experiment |-> mini]]
Bound == Job(Stage(0, 300), Stage(1, 1800), 4)
File(readable) == [inside |-> TRUE, regular |-> TRUE, readable |-> readable]

Plain == [rows |-> "none", writing |-> FALSE, source |-> FALSE, secret |-> FALSE,
          paths |-> {"document"}, references |-> {File(TRUE)}, job |-> Bound, proposal |-> NoJob]
Writing == [Plain EXCEPT !.writing = TRUE]

(* A workflow that analyses rows, two that write - into the author's document *)
(* or a new draft - and one whose rows have no plugin.  What the analysis     *)
(* records and what the writing changes are apart, so no request needs both.  *)
(* Three have a job that may not run, or a reference that does not load.      *)
Sound == {[Plain EXCEPT !.rows = "given"], [Plain EXCEPT !.rows = "half"],
          Writing, [Writing EXCEPT !.source = TRUE]}
Halting == {[Plain EXCEPT !.job = NoJob],
            [Plain EXCEPT !.proposal = [limit |-> 4, job |-> NoJob]],
            [Writing EXCEPT !.references = {File(FALSE)}]}
(* These never become a workflow.                                            *)
Refused == {[Plain EXCEPT !.secret = TRUE],
            [Plain EXCEPT !.job = Job(Stage(0, 301), Stage(1, 1800), 4)],
            [Plain EXCEPT !.job = Job(Stage(1, 300), Stage(1, 1800), 4)],
            [Plain EXCEPT !.job = Job(Stage(0, 300), Stage(1, 1800), 3)],
            [Plain EXCEPT !.proposal = [limit |-> 5, job |-> Bound]]}
MCRequests == Sound \cup Halting \cup Refused

Answer == [cut |-> FALSE, text |-> "whole", blocks |-> "kept", adds |-> {}, cites |-> {"known"}]
MCAnswers == {Answer, [Answer EXCEPT !.cut = TRUE], [Answer EXCEPT !.blocks = "changed"],
              [Answer EXCEPT !.adds = {"result"}], [Answer EXCEPT !.cites = {"unknown"}]}
=============================================================================
