-------------------------- MODULE KubernetesBackend --------------------------
(***************************************************************************)
(* KubernetesBackend (paperforge/compute/kubernetes.py).  The Job of an     *)
(* attempt has a name of its own, so applying it twice runs it once while   *)
(* it exists; one that has ended expires.  A resume deletes the Job of the  *)
(* attempt it knows before it applies the next.  Every command can fail     *)
(* before or after it took effect.                                          *)
(***************************************************************************)
EXTENDS ComputeClient

(* The Jobs that exist in the cluster, ended or not.                        *)
SiteTypeOK == site \in SUBSET RunIds
SiteInit == site = {}
JobsOf(attempt) == {r \in site : runs[r].attempt = attempt}

(* _status_from_job of the Job named by the result; without an answer, or   *)
(* without the Job, the state is UNKNOWN.                                   *)
JobState(r) ==
  CASE Alive(r) -> "RUNNING" [] runs[r].state = "won" -> "SUCCEEDED" [] OTHER -> "FAILED"
Answers == {"UNKNOWN"} \cup {JobState(r) : r \in JobsOf(Current.attempt)}

----------------------------------------------------------------------------
Status ==
  /\ Idle /\ Known
  /\ \E status \in Answers :
       Remember([Current EXCEPT !.status = status], TRUE, memory.handle)
  /\ UNCHANGED <<call, runs, site>>

(* kubectl delete --ignore-not-found --wait.                                *)
Delete(attempt) ==
  /\ site' = site \ JobsOf(attempt)
  /\ runs' = [r \in RunIds |->
       IF r \in JobsOf(attempt) /\ Alive(r)
         THEN [runs[r] EXCEPT !.state = "stopped"] ELSE runs[r]]

Cancel ==
  /\ Idle /\ Known
  /\ \E effect, ok \in BOOLEAN :
       /\ ok => effect
       /\ IF effect THEN Delete(Current.attempt) ELSE UNCHANGED <<runs, site>>
       /\ Remember([Current EXCEPT !.status = IF ok THEN "CANCELLED" ELSE "FAILED"],
                   TRUE, memory.handle)
  /\ UNCHANGED call

Resume ==
  /\ Resumable
  /\ \E status \in Answers :
       LET current == [Current EXCEPT !.status = status]
       IN /\ Remember(current, TRUE, memory.handle)
          /\ IF Active(current) THEN Return
             ELSE /\ current.attempt < MaxAttempt
                  /\ Begin("resume", "deleting", current.attempt + 1)
  /\ UNCHANGED <<runs, site>>

(* A command of the call fails: the result is FAILED under the new attempt, *)
(* or the command timed out and the call raises.                            *)
FailCall ==
  /\ \/ Remember(Result("FAILED", call.attempt, NoRun), TRUE, memory.handle)
     \/ UNCHANGED <<row, memory>>
  /\ Return

DeletePrevious ==
  /\ call.pc = "deleting"
  /\ Delete(Current.attempt)
  /\ Goto("launching")
  /\ UNCHANGED <<row, memory>>
DeleteFails ==
  /\ call.pc = "deleting"
  /\ Delete(Current.attempt) \/ UNCHANGED <<runs, site>>
  /\ FailCall

(* The network policy is applied and read back first.                       *)
PolicyFails ==
  /\ call.pc = "launching"
  /\ FailCall
  /\ UNCHANGED <<runs, site>>
(* Mutation: a Job that exists is created again.                            *)
ApplyAgain ==
  /\ call.pc = "launching"
  /\ Launch(call.attempt, "running")
  /\ site' = site \cup {FreshRun}
  /\ UNCHANGED <<row, memory>>
(* Applying a Job that exists changes nothing.                              *)
Apply ==
  /\ call.pc = "launching"
  /\ IF JobsOf(call.attempt) # {}
       THEN Goto("launched") /\ UNCHANGED <<runs, site>>
       ELSE Launch(call.attempt, "running") /\ site' = site \cup {FreshRun}
  /\ UNCHANGED <<row, memory>>
Applied ==
  /\ call.pc = "launched"
  /\ Remember(Result("SUBMITTED", call.attempt, NoRun), TRUE, memory.handle)
  /\ Return
  /\ UNCHANGED <<runs, site>>
ApplyFails ==
  /\ call.pc = "launched"
  /\ FailCall
  /\ UNCHANGED <<runs, site>>

Controller == \/ BeginSubmit \/ SubmitRefused \/ Reopen
              \/ Status \/ Cancel \/ Resume \/ DeletePrevious \/ DeleteFails
              \/ PolicyFails \/ Apply \/ Applied \/ ApplyFails

JobEnds(r, state) ==
  /\ runs[r].state = "running"
  /\ MoveRun(r, state)
  /\ UNCHANGED <<row, memory, call, site>>
(* ttlSecondsAfterFinished: the cluster deletes a Job that has ended.       *)
JobExpires(r) ==
  /\ r \in site /\ ~Alive(r)
  /\ site' = site \ {r}
  /\ UNCHANGED <<row, memory, call, runs>>
World == \E r \in RunIds : \/ \E state \in {"won", "lost"} : JobEnds(r, state)
                           \/ JobExpires(r)

Init == ClientInit /\ SiteInit
Next == Controller \/ World
Spec == Init /\ [][Next]_clientVars
=============================================================================
