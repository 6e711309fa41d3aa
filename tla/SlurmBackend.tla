----------------------------- MODULE SlurmBackend -----------------------------
(***************************************************************************)
(* SlurmBackend (paperforge/compute/slurm.py).  sbatch can accept a job and *)
(* lose its answer; the controller then finds the job by the name that all  *)
(* attempts share.  The scheduler identifier in use is cached apart from    *)
(* the result (_slurm_ids), and only a later answer replaces it.            *)
(***************************************************************************)
EXTENDS ComputeClient

NoSite == <<>>
SiteTypeOK == site = NoSite
SiteInit == site = NoSite

(* The identifier of a job no scheduler answer named: the job's own name.   *)
Self == MaxRuns + 1
Unresolved == 0

(* _reconcile_scheduler_id: the one job that squeue and sacct list under    *)
(* the name; none yet, or more than one, leaves the intent unresolved.      *)
Reconciled(seen) ==
  IF Cardinality(seen) = 1 THEN CHOOSE r \in seen : TRUE ELSE Unresolved

(* _scheduler_id: cached, recorded, reconciled from the intent, or the name.*)
SchedulerId(seen) ==
  CASE memory.handle # 0 -> memory.handle
    [] memory.handle = 0 /\ Current.run # NoRun -> Current.run
    [] memory.handle = 0 /\ Current.run = NoRun /\ "intent" \in Current.marks
         -> Reconciled(seen)
    [] OTHER -> Self
(* The result under which that identifier is then used.                     *)
Identified(id) ==
  IF memory.handle = 0 /\ Current.run = NoRun /\ "intent" \in Current.marks
    THEN Result("SUBMITTED", Current.attempt, id) ELSE Current

(* _map_status of squeue, sacct or scontrol; UNKNOWN when none answers.     *)
SchedulerState(r) ==
  CASE Alive(r) -> "RUNNING"
    [] runs[r].state = "won" -> "SUCCEEDED"
    [] runs[r].state = "lost" -> "FAILED"
    [] OTHER -> "CANCELLED"
Answers(id) == {"UNKNOWN"} \cup IF id \in Launched THEN {SchedulerState(id)} ELSE {}

----------------------------------------------------------------------------
Status ==
  /\ Idle /\ Known
  /\ \E seen \in SUBSET Launched :
       LET id == SchedulerId(seen)
       IN IF id = Unresolved THEN Remember(Current, TRUE, memory.handle)
          ELSE \E status \in Answers(id) :
                 Remember([Identified(id) EXCEPT !.status = status], TRUE, id)
  /\ UNCHANGED <<call, runs, site>>

(* sbatch reaches the scheduler or does not; the answer comes back or not.  *)
SbatchAccepted ==
  /\ call.pc = "launching"
  /\ Launch(call.attempt, "running")
  /\ UNCHANGED <<row, memory, site>>
SbatchRejected ==
  /\ call.pc = "launching"
  /\ Goto("launched")
  /\ UNCHANGED <<row, memory, runs, site>>

Answered ==
  /\ call.pc = "launched" /\ call.run # NoRun
  /\ Remember(Result("SUBMITTED", call.attempt, call.run), TRUE, call.run)
  /\ Return
  /\ UNCHANGED <<runs, site>>
(* A failed submit caches the job's name as its identifier; a failed resume *)
(* leaves the identifier of the attempt before.                             *)
AnsweredFailure ==
  /\ call.pc = "launched"
  /\ Remember(Result("FAILED", call.attempt, NoRun), TRUE,
              IF call.op = "submit" THEN Self ELSE memory.handle)
  /\ Return
  /\ UNCHANGED <<runs, site>>
(* The command times out: the call raises and remembers nothing.            *)
Raised ==
  /\ call.pc = "launched"
  /\ Return
  /\ UNCHANGED <<row, memory, runs, site>>

(* cancel raises while the intent is unresolved.                            *)
Cancel ==
  /\ Idle /\ Known
  /\ \E seen \in SUBSET Launched : \E ok \in BOOLEAN :
       LET id == SchedulerId(seen)
           known == [Current EXCEPT
             !.run = IF id \in RunIds THEN id ELSE NoRun,
             !.status = IF ok /\ id \in RunIds THEN "CANCELLED" ELSE "FAILED"]
       IN IF id = Unresolved
          THEN Remember(Current, TRUE, memory.handle) /\ UNCHANGED runs
          ELSE /\ Remember(known, TRUE, id)
               /\ IF ok /\ id \in Launched /\ Alive(id)
                    THEN MoveRun(id, "stopped") ELSE UNCHANGED runs
  /\ UNCHANGED <<call, site>>

(* Mutation: only a running job is refused.                                 *)
MayResumeSubmitted == Current.status # "RUNNING"
(* resume looks only at the last result, and saves no intent.               *)
MayResume == ~Active(Current)
Resume ==
  /\ Resumable
  /\ Remember(Current, TRUE, memory.handle)
  /\ MayResume
  /\ Current.attempt < MaxAttempt
  /\ Begin("resume", "launching", Current.attempt + 1)
  /\ UNCHANGED <<runs, site>>

Controller == \/ BeginSubmit \/ SubmitRefused \/ Reopen
              \/ Status \/ SbatchAccepted \/ SbatchRejected
              \/ Answered \/ AnsweredFailure \/ Raised \/ Cancel \/ Resume

JobEnds(r, state) ==
  /\ runs[r].state = "running"
  /\ MoveRun(r, state)
  /\ UNCHANGED <<row, memory, call, site>>
World == \E r \in RunIds : \E state \in {"won", "lost", "stopped"} : JobEnds(r, state)

Init == ClientInit /\ SiteInit
Next == Controller \/ World
Spec == Init /\ [][Next]_clientVars
=============================================================================
