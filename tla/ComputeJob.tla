------------------------------ MODULE ComputeJob ------------------------------
(***************************************************************************)
(* What a compute backend promises of one job: an execution is launched     *)
(* only once the job is on record, and an attempt is recorded as succeeded  *)
(* only after an execution of it has succeeded.                             *)
(***************************************************************************)
CONSTANTS Runs, AttemptIds

VARIABLES
  state,  \* execution -> "none", "alive" or "over"
  won,    \* the attempts of which an execution has succeeded
  record  \* the recorded attempt and verdict

jobVars == <<state, won, record>>

NoRecord == [attempt |-> 0, verdict |-> "none"]
Records == [attempt : AttemptIds, verdict : {"open", "succeeded", "closed"}]

JobInit ==
  /\ state = [r \in Runs |-> "none"]
  /\ won = {}
  /\ record = NoRecord

LaunchRun(r) ==
  /\ record # NoRecord
  /\ state[r] = "none"
  /\ state' = [state EXCEPT ![r] = "alive"]
  /\ UNCHANGED <<won, record>>

EndRuns(ended) ==
  state' = [r \in Runs |-> IF r \in ended THEN "over" ELSE state[r]]

RunWins(r, a) ==
  /\ state[r] = "alive"
  /\ EndRuns({r})
  /\ won' = won \cup {a}
  /\ UNCHANGED record

(* A call may stop executions before it records what it found.              *)
RecordVerdict(ended, new) ==
  /\ \A r \in ended : state[r] = "alive"
  /\ EndRuns(ended)
  /\ new.verdict = "succeeded" => new.attempt \in won
  /\ record' = new
  /\ UNCHANGED won

RunsEnd(ended) ==
  /\ \A r \in ended : state[r] = "alive"
  /\ EndRuns(ended)
  /\ UNCHANGED <<won, record>>

JobNext == \/ \E r \in Runs : LaunchRun(r) \/ \E a \in AttemptIds : RunWins(r, a)
           \/ \E ended \in SUBSET Runs :
                RunsEnd(ended) \/ \E new \in Records : RecordVerdict(ended, new)

JobSpec == JobInit /\ [][JobNext]_jobVars
=============================================================================
