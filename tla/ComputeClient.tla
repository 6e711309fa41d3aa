---------------------------- MODULE ComputeClient ----------------------------
(***************************************************************************)
(* What every compute backend shares (paperforge/compute/base.py, state.py): *)
(* the results a controller remembers for one job, in its own memory and in *)
(* the durable table, and the executions of that job that exist outside it. *)
(* A controller is one backend object; ResearchOSRuntime._handle_compute    *)
(* makes a new one for every call of the handler, so its memory is lost     *)
(* whenever the next one is made, and also when the process dies.           *)
(***************************************************************************)
EXTENDS Integers, FiniteSets

CONSTANTS
  MaxAttempt,  \* bound on the attempts of the job
  MaxRuns,     \* bound on the executions that are ever launched
  Crashes      \* TRUE when the controller may die part-way through a call

ASSUME ClientAssumption == /\ MaxAttempt \in Nat \ {0}
                           /\ MaxRuns \in Nat \ {0}
                           /\ Crashes \in BOOLEAN

VARIABLES
  row,     \* the durable result of the job in the table compute_jobs
  memory,  \* what the controller caches: result, specification, handle
  call,    \* the call the controller is in, and how far it is
  runs,    \* execution -> its attempt and state, in the outside world
  site     \* what else the backend's machine keeps of the job

clientVars == <<row, memory, call, runs, site>>

Attempts == 0..MaxAttempt
RunIds == 1..MaxRuns
NoRun == 0

Statuses == {"PLANNED", "SUBMITTED", "RUNNING", "SUCCEEDED", "FAILED",
             "CANCELLED", "UNKNOWN"}
Terminal(r) == r.status \in {"SUCCEEDED", "FAILED", "CANCELLED"}
(* JobStatus.QUEUED and SUSPENDED are treated like RUNNING everywhere.      *)
Active(r) == r.status \in {"SUBMITTED", "RUNNING"}
Marks == {"intent", "cleanup_pending", "timeout_pending", "timed_out"}

(* A JobResult: the execution it names (a process, a scheduler or container *)
(* identifier), the nonce of its launch, and the flags of its metadata.     *)
Rows == [status : Statuses \cup {"NONE"}, attempt : Attempts, run : 0..MaxRuns,
         nonce : 0..MaxRuns, marks : SUBSET Marks]
NoRow == [status |-> "NONE", attempt |-> 0, run |-> NoRun, nonce |-> 0,
          marks |-> {}]
Result(status, attempt, run) ==
  [NoRow EXCEPT !.status = status, !.attempt = attempt, !.run = run]
Planned == Result("PLANNED", 1, NoRun)
Intent(attempt) ==
  [Result("SUBMITTED", attempt, NoRun) EXCEPT !.marks = {"intent"}]

NoMemory == [result |-> NoRow, spec |-> FALSE, handle |-> 0]
NoCall == [op |-> "none", pc |-> "idle", run |-> NoRun, attempt |-> 0]

RunStates == {"none", "starting", "running", "won", "lost", "stopped"}
Alive(r) == runs[r].state \in {"starting", "running"}
Launched == {r \in RunIds : runs[r].state # "none"}
FreshRun == CHOOSE r \in RunIds \ Launched : \A q \in RunIds \ Launched : r <= q

ClientTypeOK ==
  /\ row \in Rows
  /\ memory \in [result : Rows, spec : BOOLEAN, handle : 0..(MaxRuns + 1)]
  /\ call \in [op : {"none", "submit", "resume", "cancel"},
               pc : {"idle", "launching", "launched", "watched", "deleting",
                     "cancelling"},
               run : 0..MaxRuns, attempt : Attempts]
  /\ runs \in [RunIds -> [attempt : Attempts, state : RunStates]]
  /\ row # NoRow => row.status # "PLANNED"

ClientInit ==
  /\ row = NoRow
  /\ memory = NoMemory
  /\ call = NoCall
  /\ runs = [r \in RunIds |-> [attempt |-> 0, state |-> "none"]]

----------------------------------------------------------------------------
(* _known_result: the cached result, else the durable one.  Without either  *)
(* the caller sees UnknownJobError.                                         *)
Current == IF memory.result # NoRow THEN memory.result ELSE row
Known == Current # NoRow

(* _remember: the result of an execution is saved only when the controller  *)
(* holds the job's specification; a plan is never saved.                    *)
Remember(result, spec, handle) ==
  /\ memory' = [result |-> result, spec |-> spec, handle |-> handle]
  /\ row' = IF spec /\ result # Current /\ result.status # "PLANNED"
              THEN result ELSE row

Idle == call.pc = "idle"
(* A caller resumes a job that was submitted, never one whose submit was    *)
(* refused before anything was saved.                                       *)
Resumable == Idle /\ row # NoRow
In(op, pc) == call.op = op /\ call.pc = pc
Begin(op, pc, attempt) ==
  call' = [op |-> op, pc |-> pc, run |-> NoRun, attempt |-> attempt]
Goto(pc) == call' = [call EXCEPT !.pc = pc]
Return == call' = NoCall

(* A new execution of an attempt, outside the controller.                   *)
Launch(attempt, state) ==
  /\ Launched # RunIds
  /\ runs' = [runs EXCEPT ![FreshRun] = [attempt |-> attempt, state |-> state]]
  /\ call' = [call EXCEPT !.pc = "launched", !.run = FreshRun]
MoveRun(r, state) == runs' = [runs EXCEPT ![r].state = state]

(* submit: the plan is cached, then the intent is saved before the launch.  *)
(* Its caller has just seen UnknownJobError.                                *)
BeginSubmit ==
  /\ Idle /\ ~Known
  /\ Remember(Intent(1), TRUE, memory.handle)
  /\ Begin("submit", "launching", 1)
  /\ UNCHANGED <<runs, site>>

(* A submit that raises before the intent leaves its plan in the cache.     *)
SubmitRefused ==
  /\ Idle /\ ~Known
  /\ Remember(Planned, TRUE, memory.handle)
  /\ UNCHANGED <<call, runs, site>>

(* The next call of the handler makes a new controller, or the process died.*)
Reopen ==
  /\ Idle \/ Crashes
  /\ memory # NoMemory
  /\ memory' = NoMemory
  /\ Return
  /\ UNCHANGED <<row, runs, site>>
=============================================================================
