--------------------------- MODULE ComputeBackends ---------------------------
(***************************************************************************)
(* The registry of compute backends (paperforge/compute/registry.py): a job *)
(* is bound to one kind, and its controller is that backend.                *)
(***************************************************************************)
EXTENDS ComputeClient

CONSTANT Backends  \* the kinds a job may be bound to

Kinds == {"local", "slurm", "ssh", "docker", "kubernetes"}
ASSUME BackendsAssumption == Backends \subseteq Kinds

VARIABLE kind

vars == <<clientVars, kind>>

L == INSTANCE LocalBackend
U == INSTANCE SlurmBackend
H == INSTANCE SSHBackend
D == INSTANCE DockerBackend
K == INSTANCE KubernetesBackend

TypeOK == /\ kind \in Backends
          /\ ClientTypeOK
          /\ CASE kind = "local" -> L!SiteTypeOK
               [] kind = "slurm" -> U!SiteTypeOK
               [] kind = "ssh" -> H!SiteTypeOK
               [] kind = "docker" -> D!SiteTypeOK
               [] kind = "kubernetes" -> K!SiteTypeOK

(* create_backend: the factory registered under the name.                   *)
Init ==
  /\ kind \in Backends
  /\ \/ kind = "local" /\ L!Init
     \/ kind = "slurm" /\ U!Init
     \/ kind = "ssh" /\ H!Init
     \/ kind = "docker" /\ D!Init
     \/ kind = "kubernetes" /\ K!Init
Next ==
  /\ \/ kind = "local" /\ L!Next
     \/ kind = "slurm" /\ U!Next
     \/ kind = "ssh" /\ H!Next
     \/ kind = "docker" /\ D!Next
     \/ kind = "kubernetes" /\ K!Next
  /\ UNCHANGED kind
Spec == Init /\ [][Next]_vars

----------------------------------------------------------------------------
(* Over SSH an attempt is executed once.  A container or a Job can be       *)
(* executed again under the same attempt, when the controller died before   *)
(* it saved the first and the watchdog or the cluster freed its name: then  *)
(* no record ever named the first, and it no longer runs.                   *)
OnlyLostAttemptsRepeat ==
  [][(kind \in {"ssh", "docker", "kubernetes"}) =>
       \A r \in Launched' \ Launched, q \in Launched :
         runs[q].attempt = runs'[r].attempt
           => kind # "ssh" /\ ~Alive(q) /\ row.attempt < runs[q].attempt]_vars

(* A Slurm submission whose answer was lost is found again without doubt:   *)
(* while its intent names no job, the scheduler holds at most one.          *)
IntentIsUnambiguous ==
  (kind = "slurm" /\ "intent" \in row.marks /\ row.run = NoRun)
    => Cardinality(Launched) <= 1

(* A saved verdict of a local job stands until the job is started again,    *)
(* whatever the supervisor of a job that was given up does afterwards.      *)
LocalVerdictIsFinal ==
  [][(kind = "local" /\ Terminal(row) /\ row' # row)
       => "intent" \in row'.marks \/ row'.attempt > row.attempt]_vars

(* Once a backend has enforced a deadline the attempt never succeeds; for   *)
(* Docker it stays failed, whatever the daemon says of the container it     *)
(* removes (docker.py, status).  Over SSH a query may still fail.           *)
DeadlineIsFinal ==
  [][("timed_out" \in row.marks /\ row'.attempt = row.attempt)
       => row'.status \in IF kind = "docker" THEN {"FAILED"} ELSE {"FAILED", "CANCELLED", "UNKNOWN"}]_vars

(* A deadline cleanup or a launch cleanup that has begun never ends in a    *)
(* success of that attempt.                                                 *)
CleanupNeverSucceeds ==
  [][({"cleanup_pending", "timeout_pending"} \cap row.marks # {}
        /\ row'.attempt = row.attempt) => row'.status # "SUCCEEDED"]_vars

(* A new SSH attempt follows an unresolved launch only once the shell that  *)
(* launch left on the host is dead.                                         *)
PendingLaunchIsResolved ==
  [][(kind = "ssh" /\ "cleanup_pending" \in row.marks /\ row'.attempt > row.attempt)
       => \A r \in Launched : runs[r].attempt = row.attempt
                                => r \notin site'["shell"]]_vars

(* A Job applied by a resume is the only one: the resume deletes the one    *)
(* before with --wait and gives up when that fails (kubernetes.py, resume). *)
ReplacedJobIsGone ==
  kind = "kubernetes" => Cardinality({r \in RunIds : Alive(r)}) <= 1

----------------------------------------------------------------------------
(* The promise, for every kind.  The scheduler identifier a Slurm            *)
(* controller caches can be that of an earlier attempt, so for Slurm the     *)
(* attempts count as one.                                                    *)
AttemptOf(a) == IF kind = "slurm" THEN 0 ELSE a
Job == INSTANCE ComputeJob WITH
  Runs <- RunIds, AttemptIds <- Attempts,
  state <- [r \in RunIds |-> IF runs[r].state = "none" THEN "none"
                             ELSE IF Alive(r) THEN "alive" ELSE "over"],
  won <- {AttemptOf(runs[r].attempt) : r \in {q \in RunIds : runs[q].state = "won"}},
  record <- [attempt |-> AttemptOf(row.attempt),
             verdict |-> IF row = NoRow THEN "none"
                         ELSE IF row.status = "SUCCEEDED" THEN "succeeded"
                         ELSE IF Terminal(row) THEN "closed" ELSE "open"]
KeepsPromise == Job!JobSpec
=============================================================================
