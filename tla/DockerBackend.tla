---------------------------- MODULE DockerBackend ----------------------------
(***************************************************************************)
(* DockerBackend (paperforge/compute/docker.py) and the watchdog process it *)
(* leaves behind (_deadline_watchdog.py).  A container is found by the name *)
(* of its attempt and recognised by its identifier; status and the watchdog *)
(* both enforce the deadline, the watchdog by leaving a marker file.        *)
(***************************************************************************)
EXTENDS ComputeClient

(* The daemon's containers, those it is removing, those past their          *)
(* deadline, the ones a watchdog guards, has found running after it, or has *)
(* seen gone, and the ones the marker of their attempt names.               *)
Kinds == {"exists", "removing", "late", "guarded", "firing", "verified", "marker"}
SiteTypeOK == site \in [Kinds -> SUBSET RunIds]
SiteInit == site = [k \in Kinds |-> {}]
Has(r, k) == r \in site[k]
Put(r, kinds) == site' = [k \in Kinds |-> IF k \in kinds THEN site[k] \cup {r} ELSE site[k]]
Named(attempt) == {r \in site["exists"] : runs[r].attempt = attempt}

(* docker rm --force has ended: the container is gone, its process too.     *)
Removed(r, kinds) ==
  /\ site' = [k \in Kinds |-> IF k \in {"exists", "removing"} THEN site[k] \ {r}
                              ELSE IF k \in kinds THEN site[k] \cup {r} ELSE site[k]]
  /\ IF Alive(r) THEN MoveRun(r, "stopped") ELSE UNCHANGED runs

----------------------------------------------------------------------------
Keep(result) == Remember(result, TRUE, memory.handle)
As(status) == [Current EXCEPT !.status = status]
Pending(status) == [As(status) EXCEPT !.marks = (@ \ {"timed_out"}) \cup {"cleanup_pending"}]
TimedOut == [As("FAILED") EXCEPT !.marks = (@ \ {"cleanup_pending"}) \cup {"timed_out"}]

(* The state docker inspect prints.                                         *)
ContainerState(r) ==
  CASE Has(r, "removing") -> "CANCELLED"
    [] ~Has(r, "removing") /\ Alive(r) -> "RUNNING"
    [] ~Has(r, "removing") /\ runs[r].state = "won" -> "SUCCEEDED"
    [] OTHER -> "FAILED"

(* Mutation: only the marker counts.                                        *)
EnforcedByMarker == Current.run # NoRun /\ Has(Current.run, "marker")
(* Enforced already: by an earlier status, or by the watchdog's marker.     *)
Enforced == \/ "timed_out" \in Current.marks
            \/ Current.run # NoRun /\ Has(Current.run, "marker")
(* The deadline of the container the result names; a watchdog guards it.    *)
Elapsed == Current.run # NoRun /\ Has(Current.run, "late")
(* Mutation: a cleanup that failed is forgotten.                            *)
CleaningUpNever == FALSE
CleaningUp == "cleanup_pending" \in Current.marks /\ Elapsed

(* The daemon does not answer, or has no such container.                    *)
Unseen(result) ==
  /\ UNCHANGED <<runs, site>>
  /\ IF Elapsed THEN result \in {Pending("RUNNING"), Pending("UNKNOWN")}
     ELSE result = As("UNKNOWN")
(* The container of that name is seen.  A running one past its deadline, or *)
(* any whose cleanup has begun, is removed and then looked for again.       *)
Seen(r, result) ==
  LET mine == r = Current.run
      state == ContainerState(r)
      tested == state \notin {"FAILED"} \/ "cleanup_pending" \in Current.marks
      due == mine /\ Elapsed /\ tested
  IN CASE Current.run # NoRun /\ ~mine ->
            result = As("UNKNOWN") /\ UNCHANGED <<runs, site>>
       [] due /\ Has(r, "removing") ->
            result = Pending("RUNNING") /\ UNCHANGED <<runs, site>>
       [] due /\ ~Has(r, "removing") /\ (state = "RUNNING" \/ CleaningUp) ->
            \/ Removed(r, {}) /\ result \in {TimedOut, Pending("RUNNING"), Pending("UNKNOWN")}
            \/ /\ UNCHANGED <<runs, site>>
               /\ result \in {Pending("RUNNING"), Pending("UNKNOWN")}
       [] OTHER -> result = As(state) /\ UNCHANGED <<runs, site>>

Answers == {TimedOut} \cup {As(s) : s \in Statuses} \cup {Pending(s) : s \in {"RUNNING", "UNKNOWN"}}
Inspect(result) ==
  IF Enforced THEN result = TimedOut /\ UNCHANGED <<runs, site>>
  ELSE \/ Unseen(result)
       \/ \E r \in Named(Current.attempt) : Seen(r, result)

Status ==
  /\ Idle /\ Known
  /\ \E result \in Answers : Inspect(result) /\ Keep(result)
  /\ UNCHANGED call

(* docker stop, only for the container the result names.                    *)
Cancel ==
  /\ Idle /\ Known
  /\ LET r == Current.run
     IN \/ Keep(Current) /\ UNCHANGED <<runs, site>>
        \/ /\ r # NoRun /\ Has(r, "exists")
           /\ \/ Keep(As("CANCELLED")) /\ IF Alive(r) THEN MoveRun(r, "stopped") ELSE UNCHANGED runs
              \/ Keep(As("FAILED")) /\ UNCHANGED runs
           /\ UNCHANGED site
  /\ UNCHANGED call

(* resume: not while the container runs, or its cleanup is pending.         *)
Blocked(result) == "cleanup_pending" \in result.marks \/ Active(result)
Resume ==
  /\ Resumable
  /\ \E result \in Answers :
       /\ Inspect(result) /\ Keep(result)
       /\ IF Blocked(result) THEN Return
          ELSE /\ Current.attempt < MaxAttempt
               /\ Begin("resume", "launching", Current.attempt + 1)

----------------------------------------------------------------------------
(* docker run --detach --name: refused while the name is taken.  The        *)
(* directory of the attempt is cleared before; a marker in it is of a       *)
(* container no record names, which nobody asks for.                        *)
RunContainer ==
  /\ call.pc = "launching"
  /\ Named(call.attempt) = {}
  /\ Launch(call.attempt, "running")
  /\ Put(FreshRun, {"exists"})
  /\ UNCHANGED <<row, memory>>
RunRefused ==
  /\ call.pc = "launching"
  /\ Goto("launched")
  /\ UNCHANGED <<row, memory, runs, site>>
(* The identifier comes back: the watchdog is started on it, and only then  *)
(* the record of the attempt is saved.  A job without a deadline is one     *)
(* whose deadline never passes.                                             *)
WatchdogStarts ==
  /\ call.pc = "launched" /\ call.run # NoRun
  /\ Put(call.run, {"guarded"})
  /\ Goto("watched")
  /\ UNCHANGED <<row, memory, runs>>
Answered ==
  /\ call.pc = "watched"
  /\ Keep(Result("SUBMITTED", call.attempt, call.run))
  /\ Return
  /\ UNCHANGED <<runs, site>>
LaunchFailed ==
  /\ call.pc = "launched"
  /\ Keep(Result("FAILED", call.attempt, NoRun))
  /\ Return
  /\ UNCHANGED <<runs, site>>
(* The command times out: the call raises.                                  *)
Raised ==
  /\ call.pc = "launched"
  /\ Return
  /\ UNCHANGED <<row, memory, runs, site>>
(* Starting the watchdog fails: submit removes the container and raises;    *)
(* resume only raises.                                                      *)
WatchdogFails ==
  /\ call.pc = "launched" /\ call.run # NoRun
  /\ Has(call.run, "exists")
  /\ IF call.op = "submit" THEN Removed(call.run, {}) ELSE UNCHANGED <<runs, site>>
  /\ Return
  /\ UNCHANGED <<row, memory>>

Controller == \/ BeginSubmit \/ SubmitRefused \/ Reopen \/ Status \/ Cancel \/ Resume
              \/ RunContainer \/ RunRefused \/ WatchdogStarts \/ Answered
              \/ LaunchFailed \/ Raised \/ WatchdogFails

----------------------------------------------------------------------------
JobEnds(r, state) ==
  /\ Has(r, "exists") /\ Alive(r)
  /\ MoveRun(r, state)
  /\ UNCHANGED <<row, memory, call, site>>
DeadlinePasses(r) ==
  /\ Has(r, "guarded") /\ ~Has(r, "late")
  /\ Put(r, {"late"})
  /\ UNCHANGED <<row, memory, call, runs>>
(* The watchdog finds its container running and removes it by name.  When   *)
(* no container has that name any more it writes the marker, one file for   *)
(* all the containers of an attempt.                                        *)
WatchdogFires(r) ==
  /\ Has(r, "late") /\ ~Has(r, "firing")
  /\ Has(r, "exists") /\ Alive(r)
  /\ Put(r, {"firing"})
  /\ UNCHANGED <<row, memory, call, runs>>
WatchdogRemoves(r) ==
  /\ Has(r, "firing") /\ Has(r, "exists") /\ ~Has(r, "removing")
  /\ Put(r, {"removing"})
  /\ UNCHANGED <<row, memory, call, runs>>
RemovalEnds(r) ==
  /\ Has(r, "removing")
  /\ Removed(r, {})
  /\ UNCHANGED <<row, memory, call>>
WatchdogChecks(r) ==
  /\ Has(r, "firing") /\ ~Has(r, "verified")
  /\ Named(runs[r].attempt) = {}
  /\ Put(r, {"verified"})
  /\ UNCHANGED <<row, memory, call, runs>>
WatchdogMarks(r) ==
  /\ Has(r, "verified")
  /\ site' = [site EXCEPT !["firing"] = @ \ {r}, !["verified"] = @ \ {r},
                          !["marker"] = {q \in @ : runs[q].attempt # runs[r].attempt} \cup {r}]
  /\ UNCHANGED <<row, memory, call, runs>>

World == \E r \in RunIds :
           \/ DeadlinePasses(r) \/ WatchdogFires(r) \/ WatchdogRemoves(r)
           \/ RemovalEnds(r) \/ WatchdogChecks(r) \/ WatchdogMarks(r)
           \/ \E state \in {"won", "lost"} : JobEnds(r, state)

Init == ClientInit /\ SiteInit
Next == Controller \/ World
Spec == Init /\ [][Next]_clientVars
=============================================================================
