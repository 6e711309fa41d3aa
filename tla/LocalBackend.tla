----------------------------- MODULE LocalBackend -----------------------------
(***************************************************************************)
(* LocalBackend (paperforge/compute/local.py) with the supervisor process   *)
(* it starts (_local_supervisor.py).  A supervisor reads the launch file,   *)
(* writes its identity, runs the command and writes a completion record;    *)
(* the controller recognises both by the nonce of the launch.               *)
(***************************************************************************)
EXTENDS ComputeClient

(* The job's directory: the launch, identity and completion files, the      *)
(* nonce each supervisor has read, and the ones told to stop.               *)
Sites == [launch : [nonce : 0..MaxRuns, attempt : Attempts],
          identity : [pid : 0..MaxRuns, nonce : 0..MaxRuns],
          completion : [nonce : 0..MaxRuns, status : Statuses \cup {"NONE"}],
          nonce : [RunIds -> 0..MaxRuns],
          told : SUBSET RunIds]
NoIdentity == [pid |-> NoRun, nonce |-> 0]
NoCompletion == [nonce |-> 0, status |-> "NONE"]
SiteTypeOK == site \in Sites
SiteInit == site = [launch |-> [nonce |-> 0, attempt |-> 0],
                    identity |-> NoIdentity, completion |-> NoCompletion,
                    nonce |-> [r \in RunIds |-> 0], told |-> {}]

(* _supervisor_alive: by the process object, or by the identity file.       *)
SupervisorAlive(r) ==
  IF memory.handle # NoRun THEN Alive(memory.handle)
  ELSE /\ r.run # NoRun
       /\ site.identity = [pid |-> r.run, nonce |-> r.nonce]
       /\ Alive(r.run)

(* _recover_submission_intent: the identity file must answer the launch.    *)
Recovered(r) ==
  IF /\ "intent" \in r.marks
     /\ site.identity.nonce # 0
     /\ site.identity.nonce = site.launch.nonce
  THEN [Result("RUNNING", site.launch.attempt, site.identity.pid)
          EXCEPT !.nonce = site.launch.nonce]
  ELSE r

(* _completion_result: without a recorded path, or with the nonce of        *)
(* another launch, the job has failed.                                      *)
Completed(r) == r.run = NoRun \/ site.completion.nonce # 0
(* Mutation: any completion record is believed.                             *)
CompletionUnchecked(r) ==
  [r EXCEPT !.status = IF r.run # NoRun THEN site.completion.status ELSE "FAILED"]
CompletionResult(r) ==
  [r EXCEPT !.status = IF r.run # NoRun /\ site.completion.nonce = r.nonce
                         THEN site.completion.status ELSE "FAILED"]

(* Mutation: a terminal result is looked up again.                          *)
VerdictAgain(r) ==
  LET q == Recovered(r)
  IN IF Completed(q) THEN CompletionResult(q)
     ELSE IF SupervisorAlive(q) THEN q
     ELSE [q EXCEPT !.status = "FAILED"]
(* status: a terminal result is final; the completion record is looked for  *)
(* again after the supervisor was seen dead, so it is read as one step.     *)
Verdict(r) ==
  LET q == Recovered(r)
  IN IF Terminal(r) THEN r
     ELSE IF Completed(q) THEN CompletionResult(q)
     ELSE IF SupervisorAlive(q) THEN q
     ELSE [q EXCEPT !.status = "FAILED"]

----------------------------------------------------------------------------
(* status never loads the specification, so a fresh controller does not     *)
(* save what it finds.                                                      *)
Status ==
  /\ Idle /\ Known
  /\ Remember(Verdict(Current), memory.spec, memory.handle)
  /\ UNCHANGED <<call, runs, site>>

(* A stage that runs again submits the same job without asking first        *)
(* (ExperimentManager._execute_bound_local_stage).                          *)
SubmitAgain ==
  /\ Idle /\ Known
  /\ memory = NoMemory
  /\ Remember(Intent(1), TRUE, NoRun)
  /\ Begin("submit", "launching", 1)
  /\ UNCHANGED <<runs, site>>

Resume ==
  LET current == Verdict(Current)
  IN /\ Resumable
     /\ Remember(current, TRUE, memory.handle)
     /\ IF Active(current)
          THEN Return
          ELSE /\ current.attempt < MaxAttempt
               /\ Begin("resume", "launching", current.attempt + 1)
     /\ UNCHANGED <<runs, site>>

(* _start_supervisor removes the files of the last one and starts the next. *)
StartSupervisor ==
  /\ call.pc = "launching"
  /\ Launch(call.attempt, "starting")
  /\ site' = [site EXCEPT
       !.launch = [nonce |-> FreshRun, attempt |-> call.attempt],
       !.identity = NoIdentity, !.completion = NoCompletion]
  /\ UNCHANGED <<row, memory>>

(* The supervisor that dies before its identity makes the call raise.       *)
FailedStartup(r) == site.identity = NoIdentity /\ ~Alive(r)
Started ==
  /\ call.pc = "launched"
  /\ IF FailedStartup(call.run) THEN UNCHANGED <<row, memory>>
     ELSE Remember([Result("RUNNING", call.attempt, call.run)
                      EXCEPT !.nonce = call.run], TRUE, call.run)
  /\ Return
  /\ UNCHANGED <<runs, site>>

(* cancel: a supervisor that has not installed its handler dies of the      *)
(* signal; one that has records CANCELLED once its command has ended.       *)
Cancel ==
  LET current == Verdict(Current)
  IN /\ Idle /\ Known
     /\ Remember(current, TRUE, memory.handle)
     /\ IF Terminal(current) THEN UNCHANGED <<call, runs, site>>
        ELSE /\ Begin("cancel", "cancelling", current.attempt)
             /\ IF runs[current.run].state = "starting"
                  THEN MoveRun(current.run, "stopped") /\ UNCHANGED site
                ELSE /\ site' = [site EXCEPT !.told = @ \cup {current.run}]
                     /\ UNCHANGED runs
CancelAcknowledged ==
  /\ In("cancel", "cancelling")
  /\ Terminal(Verdict(Current))
  /\ Remember(Verdict(Current), TRUE, memory.handle)
  /\ Return
  /\ UNCHANGED <<runs, site>>
(* Six seconds without an answer: the supervisor is killed.                 *)
CancelForced ==
  /\ In("cancel", "cancelling")
  /\ ~Terminal(Verdict(Current))
  /\ MoveRun(Current.run, "stopped")
  /\ Remember([Current EXCEPT !.status = "FAILED"], TRUE, memory.handle)
  /\ Return
  /\ UNCHANGED site

Controller == \/ BeginSubmit \/ SubmitRefused \/ Reopen
              \/ Status \/ SubmitAgain \/ Resume \/ StartSupervisor \/ Started
              \/ Cancel \/ CancelAcknowledged \/ CancelForced

----------------------------------------------------------------------------
(* supervise: a late supervisor reads whatever launch file is there now.    *)
SupervisorStarts(r) ==
  /\ runs[r].state = "starting"
  /\ runs' = [runs EXCEPT ![r] = [attempt |-> site.launch.attempt,
                                  state |-> "running"]]
  /\ site' = [site EXCEPT !.nonce[r] = site.launch.nonce,
                          !.identity = [pid |-> r, nonce |-> site.launch.nonce]]
  /\ UNCHANGED <<row, memory, call>>

(* A command that was told to stop is cancelled, unless its time was up     *)
(* before that.                                                             *)
CompletionStatus(r, state) ==
  IF r \in site.told /\ state = "won" THEN "CANCELLED"
  ELSE IF state = "won" THEN "SUCCEEDED" ELSE "FAILED"
JobEnds(r, state) ==
  /\ runs[r].state = "running"
  /\ MoveRun(r, IF r \in site.told THEN "stopped" ELSE state)
  /\ site' = [site EXCEPT !.completion =
       [nonce |-> site.nonce[r], status |-> CompletionStatus(r, state)]]
  /\ UNCHANGED <<row, memory, call>>

(* The machine stops, or the supervisor is killed: no completion record.    *)
SupervisorDies(r) ==
  /\ Alive(r)
  /\ MoveRun(r, "stopped")
  /\ UNCHANGED <<row, memory, call, site>>

World == \E r \in RunIds : \/ SupervisorStarts(r) \/ SupervisorDies(r)
                           \/ \E state \in {"won", "lost"} : JobEnds(r, state)

Init == ClientInit /\ SiteInit
Next == Controller \/ World
Spec == Init /\ [][Next]_clientVars
=============================================================================
