------------------------------ MODULE SSHBackend ------------------------------
(***************************************************************************)
(* SSHBackend (paperforge/compute/ssh.py; CloudSSHBackend passes its calls  *)
(* on to it).  The launch script starts a shell on the host, which runs a   *)
(* container and records its exit code in the attempt's directory; a        *)
(* watcher enforces the deadline.  A launch whose answer was lost is        *)
(* terminated by a cleanup script, which must say CLEANED.                  *)
(***************************************************************************)
EXTENDS ComputeClient

(* The host, per execution: its shell is alive, and the files of its        *)
(* attempt's directory: identity, container_id, exit_code, cancelled,       *)
(* timed_out, timeout_cleanup_done; "firing": the watcher has decided.      *)
Files == {"shell", "identity", "cid", "exit", "cancelled", "late", "done", "firing"}
SiteTypeOK == site \in [Files -> SUBSET RunIds]
SiteInit == site = [f \in Files |-> {}]
Has(r, f) == r \in site[f]
Put(r, fs) == site' = [f \in Files |-> IF f \in fs THEN site[f] \cup {r} ELSE site[f]]
(* The state of r becomes state, its shell ends, and it gains the files fs. *)
EndShell(r, fs) ==
  site' = [f \in Files |-> IF f = "shell" THEN site[f] \ {r}
                           ELSE IF f \in fs THEN site[f] \cup {r} ELSE site[f]]

RunOf(attempt) == {r \in Launched : runs[r].attempt = attempt}
HasContainer(r) == runs[r].state = "running"

----------------------------------------------------------------------------
(* Keep what was found, or only answer it.                                  *)
Keep(result) == Remember(result, TRUE, memory.handle)

(* _failed_submit_cleanup_script: with the identity and a live shell it     *)
(* removes the container it knows of, and kills the shell; removing may     *)
(* fail unnoticed, and a container that has no file yet is not stopped.     *)
Cleanable(r) == Has(r, "identity") /\ Has(r, "shell")
CleanUp(r) ==
  /\ EndShell(r, {})
  /\ \/ HasContainer(r) /\ MoveRun(r, "stopped")
     \/ UNCHANGED runs

(* The cleanup of an attempt: CLEANED, UNCHANGED, or no answer (FAILED).    *)
Outcomes == {"CLEANED", "UNCHANGED", "FAILED"}
Cleanup(attempt, outcome) ==
  \/ \E r \in RunOf(attempt) : Cleanable(r) /\ CleanUp(r) /\ outcome \in {"CLEANED", "FAILED"}
  \/ /\ \A r \in RunOf(attempt) : ~Cleanable(r)
     /\ outcome = "UNCHANGED"
     /\ UNCHANGED <<runs, site>>
  \/ outcome = "FAILED" /\ UNCHANGED <<runs, site>>

(* Mutation: a host that found nothing to clean resolves it too.            *)
CleanedUpUnlessFailed(attempt, outcome) ==
  IF outcome # "FAILED" THEN Result("FAILED", attempt, NoRun)
  ELSE [Result("UNKNOWN", attempt, NoRun)
          EXCEPT !.marks = {"intent", "cleanup_pending"}]
(* Only CLEANED resolves a launch.                                          *)
CleanedUp(attempt, outcome) ==
  IF outcome = "CLEANED" THEN Result("FAILED", attempt, NoRun)
  ELSE [Result("UNKNOWN", attempt, NoRun)
          EXCEPT !.marks = {"intent", "cleanup_pending"}]

(* The status script on the execution the result names.  A deadline comes   *)
(* before a cancellation, and that before the exit code.                    *)
Observed(r) ==
  CASE Has(r, "cancelled") -> "CANCELLED"
    [] ~Has(r, "cancelled") /\ Has(r, "exit") ->
         IF runs[r].state = "won" THEN "SUCCEEDED" ELSE "FAILED"
    [] ~Has(r, "cancelled") /\ ~Has(r, "exit") /\ Has(r, "shell")
         /\ HasContainer(r) -> "RUNNING"
    [] OTHER -> "UNKNOWN"
TimedOut(result) == [result EXCEPT !.status = "FAILED",
                       !.marks = (@ \ {"timeout_pending"}) \cup {"timed_out"}]
StillTimingOut(result) == [result EXCEPT !.status = "RUNNING",
                       !.marks = (@ \ {"timed_out"}) \cup {"timeout_pending"}]
Lost == [Current EXCEPT !.status = "UNKNOWN"]
Query(r, result) ==
  \/ result = Lost /\ UNCHANGED <<runs, site>>
  \/ /\ ~Has(r, "late")
     /\ result = [Current EXCEPT !.status = Observed(r)]
     /\ UNCHANGED <<runs, site>>
  \/ /\ Has(r, "late")
     /\ \/ /\ Put(r, {"done"})
           /\ IF HasContainer(r) THEN MoveRun(r, "stopped") ELSE UNCHANGED runs
           /\ result \in {TimedOut(Current), Lost}
        \/ /\ ~Has(r, "done")
           /\ result = StillTimingOut(Current)
           /\ UNCHANGED <<runs, site>>

(* status: a pending launch is reconciled; without an identity the answer   *)
(* is UNKNOWN and the saved result stays.                                   *)
Answers == {[Current EXCEPT !.status = s] : s \in Statuses}
             \cup {TimedOut(Current), StillTimingOut(Current)}
             \cup {CleanedUp(Current.attempt, o) : o \in Outcomes}
Inspect(result) ==
  CASE "cleanup_pending" \in Current.marks ->
         \E o \in Outcomes : result = CleanedUp(Current.attempt, o) /\ Cleanup(Current.attempt, o)
    [] "cleanup_pending" \notin Current.marks /\ Current.run # NoRun ->
         Query(Current.run, result)
    [] OTHER -> result = Lost /\ UNCHANGED <<runs, site>>
Unsaved == "cleanup_pending" \notin Current.marks /\ Current.run = NoRun
Status ==
  /\ Idle /\ Known
  /\ \E result \in Answers : Inspect(result) /\ Keep(IF Unsaved THEN Current ELSE result)
  /\ UNCHANGED call

(* resume: not while a launch or a timed-out container is unresolved.       *)
Blocked(result) == \/ {"cleanup_pending", "timeout_pending"} \cap result.marks # {}
                   \/ Active(result)
Resume ==
  /\ Resumable
  /\ \E result \in Answers :
       /\ Inspect(result)
       /\ IF Blocked(result)
         THEN Keep(IF Unsaved THEN Current ELSE result) /\ Return
         ELSE /\ Current.attempt < MaxAttempt
              /\ Keep(Intent(Current.attempt + 1))
              /\ Begin("resume", "launching", Current.attempt + 1)

----------------------------------------------------------------------------
(* The launch script reaches the host, and writes the identity unless the   *)
(* connection cuts it off; or it never arrives.                             *)
LaunchOnHost ==
  /\ call.pc = "launching"
  /\ Launch(call.attempt, "starting")
  /\ \E files \in {{"shell"}, {"shell", "identity"}} : Put(FreshRun, files)
  /\ UNCHANGED <<row, memory>>
LaunchLost ==
  /\ call.pc = "launching"
  /\ Goto("launched")
  /\ UNCHANGED <<row, memory, runs, site>>

(* The answer names the process and the container.                          *)
Answered ==
  /\ call.pc = "launched" /\ call.run # NoRun
  /\ Has(call.run, "identity") /\ Has(call.run, "cid")
  /\ Keep(Result("SUBMITTED", call.attempt, call.run))
  /\ Return
  /\ UNCHANGED <<runs, site>>
(* A failed launch, and one whose answer is lost or incomplete; such an     *)
(* answer names no container, so the result it leaves names no execution.   *)
LaunchFailed ==
  /\ call.pc = "launched"
  /\ \E o \in Outcomes : Cleanup(call.attempt, o) /\ Keep(CleanedUp(call.attempt, o))
  /\ Return

Cancel ==
  /\ Idle /\ Known
  /\ LET r == Current.run
     IN IF r = NoRun THEN Keep(Current) /\ UNCHANGED <<runs, site>>
        ELSE \/ /\ Keep([Current EXCEPT !.status = "UNKNOWN"])
                /\ UNCHANGED <<runs, site>>
             \/ /\ Cleanable(r) /\ HasContainer(r)
                /\ EndShell(r, {"cancelled"})
                /\ MoveRun(r, "stopped") \/ UNCHANGED runs
                /\ \E s \in {"CANCELLED", "UNKNOWN"} :
                     Keep([Current EXCEPT !.status = s])
  /\ UNCHANGED call

Controller == \/ BeginSubmit \/ SubmitRefused \/ Reopen \/ Status \/ Resume
              \/ LaunchOnHost \/ LaunchLost \/ Answered \/ LaunchFailed \/ Cancel

----------------------------------------------------------------------------
(* The container starts even when its shell was killed meanwhile.           *)
ContainerStarts(r) ==
  /\ runs[r].state = "starting"
  /\ MoveRun(r, "running")
  /\ Put(r, {"cid"})
  /\ UNCHANGED <<row, memory, call>>
(* The shell records the exit code, if it still lives.                      *)
JobEnds(r, state) ==
  /\ Alive(r)
  /\ state = "won" => HasContainer(r)
  /\ MoveRun(r, state)
  /\ EndShell(r, IF Has(r, "shell") THEN {"exit"} ELSE {})
  /\ UNCHANGED <<row, memory, call>>
(* The watcher sees neither an exit code nor a cancellation at the deadline,*)
(* and then stops what may have ended meanwhile.                            *)
DeadlinePasses(r) ==
  /\ Cleanable(r)
  /\ ~Has(r, "exit") /\ ~Has(r, "cancelled") /\ ~Has(r, "firing")
  /\ Put(r, {"firing"})
  /\ UNCHANGED <<row, memory, call, runs>>
DeadlineEnforced(r) ==
  /\ Has(r, "firing") /\ ~Has(r, "late")
  /\ \/ /\ Has(r, "cid")
        /\ EndShell(r, {"late", "done"})
        /\ IF HasContainer(r) THEN MoveRun(r, "stopped") ELSE UNCHANGED runs
     \/ EndShell(r, {"late"}) /\ UNCHANGED runs
  /\ UNCHANGED <<row, memory, call>>

World == \E r \in RunIds : \/ ContainerStarts(r) \/ DeadlinePasses(r) \/ DeadlineEnforced(r)
                           \/ \E state \in {"won", "lost"} : JobEnds(r, state)

Init == ClientInit /\ SiteInit
Next == Controller \/ World
Spec == Init /\ [][Next]_clientVars
=============================================================================
