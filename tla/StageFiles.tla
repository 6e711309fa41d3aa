------------------------------ MODULE StageFiles ------------------------------
(***************************************************************************)
(* The files behind a full stage on a remote backend: the source the job    *)
(* was approved with, on its way from the owner's worktree over the local   *)
(* snapshot to the machine that runs it (paperforge/compute/binding.py,     *)
(* source_bundle.py, stage_source), and the declared outputs on their way   *)
(* back into the workspace (sync_artifacts, _artifacts.py).  The steps of   *)
(* the handler itself are those of BackendStage; this module says which     *)
(* files they need and leave, and adds the steps between them.              *)
(***************************************************************************)
EXTENDS BackendStage

CONSTANTS
  Kinds,  \* the backends the proposal may be bound to
  Extra   \* declared outputs of the job beside its metrics file

ASSUME KindsAssumption == Kinds \subseteq {"slurm", "docker", "ssh", "kubernetes"}

Metrics == "metrics"
Outputs == Extra \cup {Metrics}
ASSUME ExtraAssumption == Metrics \notin Extra

VARIABLES
  kind,      \* the backend of the approved binding
  worktree,  \* the owner's worktree, as against the approved one
  snapshot,  \* compute-snapshots/<key>, which backends take the source from
  remote,    \* the source tree on the machine of the job
  ran,       \* the source tree the job was launched on
  stray,     \* an extraction whose answer was lost may still run over there
  pods,      \* transport pods of Kubernetes that exist
  download,  \* outputs in attempts/<n>/artifact-download of the backend
  desk,      \* process -> how far the files of its handler are
  copied     \* outputs of the job that have arrived in the workspace

fileVars == <<kind, worktree, snapshot, remote, ran, stray, pods, download, desk, copied>>
filesVars == <<vars, fileVars>>

(* A tree is the approved one, another one, or not there.                   *)
Trees == {"absent", "approved", "torn"}
Clear == [pc |-> "none", staged |-> {}]
Steps == {"none", "hashed", "present", "verified", "bundled", "waiting",
          "extracting", "placed", "fetching", "fetched", "copying"}

FilesTypeOK ==
  /\ kind \in Kinds
  /\ worktree \in {"approved", "edited"}
  /\ {snapshot, remote, ran} \subseteq Trees
  /\ stray \in BOOLEAN
  /\ pods \subseteq {"source", "artifact"}
  /\ {download, copied} \subseteq SUBSET Outputs
  /\ desk \in [Workers -> [pc : Steps, staged : SUBSET Outputs]]

(* The approved proposal: its binding hashed the worktree, and made the     *)
(* snapshot, which somebody may have cleared away since.                    *)
FilesInit ==
  /\ Init
  /\ kind \in Kinds
  /\ worktree = "approved"
  /\ snapshot \in {"approved", "absent"}
  /\ remote = "absent" /\ ran = "absent" /\ stray = FALSE
  /\ pods = {} /\ download = {} /\ copied = {}
  /\ desk = [w \in Workers |-> Clear]

On(w, step) == desk[w].pc = step
Move(w, step) == desk' = [desk EXCEPT ![w].pc = step]
Drop(w) == desk' = [desk EXCEPT ![w] = Clear]
Uploads == kind \in {"ssh", "kubernetes"}

----------------------------------------------------------------------------
(* Binding.  build_compute_binding hashes the worktree; another one than    *)
(* was approved blocks the handler at once.                                 *)
HashWorktree(w) ==
  /\ At(w, "idle") \/ At(w, "gated")
  /\ On(w, "none")
  /\ worktree = "approved"
  /\ Move(w, "hashed")
  /\ UNCHANGED <<vars, kind, worktree, snapshot, remote, ran, stray, pods, download, copied>>

(* _materialize_local_snapshot copies the worktree as it is by now into a   *)
(* temporary directory and renames that; a snapshot that is there is kept.  *)
MaterializeSnapshot(w) ==
  /\ On(w, "hashed")
  /\ snapshot' = IF snapshot # "absent" THEN snapshot
                 ELSE IF worktree = "approved" THEN "approved" ELSE "torn"
  /\ Move(w, "present")
  /\ UNCHANGED <<vars, kind, worktree, remote, ran, stray, pods, download, copied>>

(* Mutation: a snapshot is known by its key.                                *)
SnapshotByKey == snapshot # "absent"
(* Its files are hashed again and compared with the records.                *)
SnapshotAgrees == snapshot = "approved"

(* The handler passes the gate with a binding equal to the approved one,    *)
(* and verifies it a second time right before it reserves.                  *)
GateBound(w) ==
  /\ On(w, "present") /\ SnapshotAgrees
  /\ Gate(w)
  /\ Drop(w)
  /\ UNCHANGED <<kind, worktree, snapshot, remote, ran, stray, pods, download, copied>>

VerifyBinding(w) ==
  /\ At(w, "gated") /\ On(w, "present") /\ SnapshotAgrees
  /\ Move(w, "verified")
  /\ UNCHANGED <<vars, kind, worktree, snapshot, remote, ran, stray, pods, download, copied>>

BindingChanged(w) ==
  /\ \/ On(w, "present") /\ ~SnapshotAgrees
     \/ At(w, "gated") /\ On(w, "none") /\ worktree # "approved"
  /\ IF At(w, "gated") THEN BlockedBeforeReserve(w) ELSE UNCHANGED vars
  /\ Drop(w)
  /\ UNCHANGED <<kind, worktree, snapshot, remote, ran, stray, pods, download, copied>>

----------------------------------------------------------------------------
(* Source, for the backends that upload it.  create_verified_source_bundle  *)
(* packs the snapshot and compares the archive with the approved hash; what *)
(* it refuses is raised out of the handler.                                 *)
Bundle(w) ==
  /\ At(w, "unknown") /\ On(w, "verified") /\ Uploads
  /\ snapshot = "approved"
  /\ Move(w, IF kind = "ssh" THEN "extracting" ELSE "bundled")
  /\ UNCHANGED <<vars, kind, worktree, snapshot, remote, ran, stray, pods, download, copied>>

(* Kubernetes: a pod that mounts the volume, applied and waited for.        *)
ApplySourcePod(w) ==
  /\ On(w, "bundled")
  /\ pods' = pods \cup {"source"}
  /\ Move(w, "extracting")
  /\ UNCHANGED <<vars, kind, worktree, snapshot, remote, ran, stray, download, copied>>

(* The archive is uploaded, its hash compared over there, the old tree      *)
(* removed and the archive unpacked.                                        *)
Extracts(w) ==
  /\ On(w, "extracting")
  /\ remote' = "approved"
  /\ pods' \in {pods, pods \ {"source"}}
  /\ Move(w, "placed")
  /\ UNCHANGED <<vars, kind, worktree, snapshot, ran, stray, download, copied>>

(* A command fails: the tree may be half there, and the pod may be left.    *)
StagingFails(w) ==
  /\ On(w, "bundled") \/ On(w, "extracting")
  /\ SubmitRaises(w, FALSE)
  /\ remote' \in IF On(w, "extracting") THEN {remote, "torn"} ELSE {remote}
  /\ pods' \in {pods, pods \ {"source"}}
  /\ Drop(w)
  /\ UNCHANGED <<kind, worktree, snapshot, ran, stray, download, copied>>

(* A command times out: the exception ends the handler and the row stays    *)
(* reserved, but the command may go on where it was sent; over there only   *)
(* the end of its pod stops it.                                             *)
StagingTimesOut(w) ==
  /\ On(w, "extracting")
  /\ LeaveReserved(w)
  /\ pods' \in {pods, pods \ {"source"}}
  /\ stray' = (stray \/ kind = "ssh" \/ "source" \in pods')
  /\ Drop(w)
  /\ UNCHANGED <<kind, worktree, snapshot, remote, ran, download, copied>>

StrayExtracts ==
  /\ stray
  /\ remote' \in {"torn", "approved"}
  /\ UNCHANGED <<vars, kind, worktree, snapshot, ran, stray, pods, download, desk, copied>>

(* Slurm and Docker copy the snapshot into the directory of the attempt,    *)
(* wiped first, as a part of submit; an error there submits nothing.        *)
PrepareAttempt(w) ==
  /\ At(w, "unknown") /\ On(w, "verified") /\ ~Uploads
  /\ remote' = snapshot
  /\ Move(w, "placed")
  /\ UNCHANGED <<vars, kind, worktree, snapshot, ran, stray, pods, download, copied>>

PrepareFails(w) ==
  /\ At(w, "unknown") /\ On(w, "verified") /\ ~Uploads
  /\ SubmitRaises(w, FALSE)
  /\ remote' = "torn"
  /\ Drop(w)
  /\ UNCHANGED <<kind, worktree, snapshot, ran, stray, pods, download, copied>>

(* The job is launched on the tree that is there; its outputs are made      *)
(* empty beforehand, for this attempt alone.                                *)
LaunchJob(w) ==
  /\ On(w, "placed")
  /\ Submit(w, "running") \/ SubmitRaises(w, TRUE)
  /\ ran' = remote
  /\ Drop(w)
  /\ UNCHANGED <<kind, worktree, snapshot, remote, stray, pods, download, copied>>

LaunchFails(w) ==
  /\ On(w, "placed")
  /\ Submit(w, "failed") \/ SubmitRaises(w, FALSE)
  /\ Drop(w)
  /\ UNCHANGED <<kind, worktree, snapshot, remote, ran, stray, pods, download, copied>>

----------------------------------------------------------------------------
(* Outputs.  A download begins with an empty directory of its own; over     *)
(* Kubernetes a pod that mounts the volume of the artifacts serves it.      *)
StartDownload(w) ==
  /\ At(w, "charged") /\ job.status = "succeeded"
  /\ On(w, "none") \/ On(w, "verified")
  /\ Uploads
  /\ download' = {}
  /\ pods' = IF kind = "kubernetes" THEN pods \cup {"artifact"} ELSE pods
  /\ Move(w, "fetching")
  /\ UNCHANGED <<vars, kind, worktree, snapshot, remote, ran, stray, copied>>

FetchOne(w, o) ==
  /\ On(w, "fetching")
  /\ o \notin download
  /\ download' = download \cup {o}
  /\ UNCHANGED <<vars, kind, worktree, snapshot, remote, ran, stray, pods, desk, copied>>

(* Mutation: a declared output that is not there is passed over.            *)
SomeMatch(files) == files # {}
(* copy_local_artifacts: every declared output must match a file.           *)
EachMatches(files) == files = Outputs

(* All of them are there, and the pod is deleted: they go on into the       *)
(* handler's temporary directory, and the download is removed.              *)
Fetched(w) ==
  /\ On(w, "fetching") /\ EachMatches(download)
  /\ pods' = pods \ {"artifact"}
  /\ desk' = [desk EXCEPT ![w] = [pc |-> "copying", staged |-> download]]
  /\ download' = {}
  /\ UNCHANGED <<vars, kind, worktree, snapshot, remote, ran, stray, copied>>

(* Slurm and Docker keep the outputs of an attempt on this machine.         *)
CopyAttempt(w) ==
  /\ At(w, "charged") /\ job.status = "succeeded"
  /\ On(w, "none") \/ On(w, "verified")
  /\ ~Uploads
  /\ desk' = [desk EXCEPT ![w] = [pc |-> "copying", staged |-> Outputs]]
  /\ UNCHANGED <<vars, kind, worktree, snapshot, remote, ran, stray, pods, download, copied>>

(* A command of a download fails, a delete of the pod included: what came   *)
(* is removed, and the pod deleted unless that fails.                       *)
FetchFails(w) ==
  /\ On(w, "fetching")
  /\ SyncFails(w)
  /\ download' = {}
  /\ pods' \in {pods, pods \ {"artifact"}}
  /\ Drop(w)
  /\ UNCHANGED <<kind, worktree, snapshot, remote, ran, stray, copied>>

(* The handler copies the outputs into the workspace, one after the other.  *)
CopyOne(w, o) ==
  /\ On(w, "copying") /\ o \in desk[w].staged
  /\ IF o = Metrics THEN UNCHANGED worker /\ Sync(w) ELSE UNCHANGED vars
  /\ copied' = copied \cup {o}
  /\ desk' = [desk EXCEPT ![w].staged = @ \ {o}]
  /\ UNCHANGED <<kind, worktree, snapshot, remote, ran, stray, pods, download>>

CopyFails(w) ==
  /\ On(w, "copying")
  /\ SyncFails(w)
  /\ Drop(w)
  /\ UNCHANGED <<kind, worktree, snapshot, remote, ran, stray, pods, download, copied>>

Synced(w) ==
  /\ On(w, "copying") /\ desk[w].staged = {}
  /\ Goto(w, "synced") /\ Sync(w)
  /\ Drop(w)
  /\ UNCHANGED <<kind, worktree, snapshot, remote, ran, stray, pods, download, copied>>

----------------------------------------------------------------------------
(* The steps of the handler that touch no file; where one ends the handler, *)
(* its temporary directories go with it.                                    *)
HandlerStep(w) ==
  \/ Refuse(w) \/ ReserveRefused(w) \/ Status(w) \/ LeaveReserved(w)
  \/ On(w, "verified") /\ (ReadRows(w) \/ \E e \in Events : Reuse(w, e))
  \/ \E e \in Events : Reserve(w, e)
  \/ ReleaseRead(w) \/ Release(w)
  \/ Recharge(w) \/ AuthorizeCharge(w) \/ Charge(w) \/ ChargeViolation(w)
  \/ FinalizeAgain(w) \/ Finalize(w) \/ AuthorizeRecord(w) \/ Record(w)
Carry(w) ==
  /\ HandlerStep(w)
  /\ IF worker'[w] = Idle THEN Drop(w) ELSE UNCHANGED desk
  /\ UNCHANGED <<kind, worktree, snapshot, remote, ran, stray, pods, download, copied>>

(* The process dies: temporary directories are orphaned, what is kept under *)
(* a name of its own stays.                                                 *)
Kill(w) ==
  /\ IF At(w, "idle") THEN Crashes /\ ~On(w, "none") /\ UNCHANGED vars ELSE Crash(w)
  /\ Drop(w)
  /\ UNCHANGED <<kind, worktree, snapshot, remote, ran, stray, pods, download, copied>>

JobEndsRemotely ==
  /\ \/ \E file \in Contents, cost \in 0..(CostLimit + 1) : JobEnds("succeeded", file, cost)
     \/ \E cost \in 0..(CostLimit + 1) : JobEnds("failed", Missing, cost)
  /\ UNCHANGED fileVars
ApproveAgain == (\E scope \in Scopes : Approve(scope)) /\ UNCHANGED fileVars

(* The owner works on, and may clear the snapshots away while no handler    *)
(* runs.                                                                    *)
EditWorktree ==
  /\ worktree' \in {"approved", "edited"} \ {worktree}
  /\ UNCHANGED <<vars, kind, snapshot, remote, ran, stray, pods, download, desk, copied>>
ClearSnapshots ==
  /\ \A w \in Workers : At(w, "idle") /\ On(w, "none")
  /\ snapshot' = "absent"
  /\ UNCHANGED <<vars, kind, worktree, remote, ran, stray, pods, download, desk, copied>>

FilesNext ==
  \/ \E w \in Workers :
       \/ HashWorktree(w) \/ MaterializeSnapshot(w)
       \/ GateBound(w) \/ VerifyBinding(w) \/ BindingChanged(w)
       \/ Bundle(w) \/ ApplySourcePod(w) \/ Extracts(w)
       \/ StagingFails(w) \/ StagingTimesOut(w)
       \/ PrepareAttempt(w) \/ PrepareFails(w) \/ LaunchJob(w) \/ LaunchFails(w)
       \/ StartDownload(w) \/ Fetched(w) \/ FetchFails(w) \/ CopyAttempt(w)
       \/ \E o \in Outputs : FetchOne(w, o) \/ CopyOne(w, o)
       \/ CopyFails(w) \/ Synced(w)
       \/ Carry(w) \/ Kill(w)
  \/ StrayExtracts \/ JobEndsRemotely \/ ApproveAgain \/ EditWorktree \/ ClearSnapshots

FilesSpec == FilesInit /\ [][FilesNext]_filesVars

----------------------------------------------------------------------------
(* What is launched is what was approved: however the owner edits while a   *)
(* handler hashes, copies and uploads, whatever is cleared away and killed  *)
(* on the way, the job starts on the tree its approval names, as long as no *)
(* extraction that timed out is still at work over there.                   *)
SourceIsApproved ==
  [][job.status = "none" /\ job'.status = "running" /\ ~stray => ran' = "approved"]_filesVars

(* A full run passes only on all that was declared: every output of the job *)
(* has come, and nothing of a download cut short, of its directory or its   *)
(* pod, is left when the run is recorded.                                   *)
PassedIsWhole ==
  [][\A e \in Events : runs'[e] # runs[e] /\ runs'[e].status = "PASSED" =>
       copied = Outputs /\ download = {} /\ "artifact" \notin pods]_filesVars
=============================================================================
