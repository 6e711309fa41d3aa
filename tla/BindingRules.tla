------------------------------ MODULE BindingRules ------------------------------
(***************************************************************************)
(* What a compute job is bound to (paperforge/compute/binding.py): the files  *)
(* it reads, the worktree it runs in, and the tools and configuration files  *)
(* of its backend, all hashed so that a later change is noticed.              *)
(*                                                                         *)
(* A path is the sequence of its names below the workspace, a file tree maps  *)
(* the paths that exist to [kind, content], and a hash is what it is taken    *)
(* of.  A world has the tree, the tools, the other files of the host (keys,   *)
(* images, the modules of the local backend), its platform and the commit of  *)
(* its repository.  "" stands for a field that is not given, 0 for a number.   *)
(***************************************************************************)
EXTENDS Integers, Sequences
LOCAL INSTANCE SequencesExt

Outside == <<"..">>
Descend(path, name) ==
  CASE path = Outside \/ (path = <<>> /\ name = "..") -> Outside
    [] path \notin {Outside, <<>>} /\ name = ".." -> Front(path)
    [] path # Outside /\ name # ".." -> Append(path, name)
Resolved(path) == FoldLeft(Descend, <<>>, path)
Leading(path) == {SubSeq(path, 1, i) : i \in 0..Len(path)}

(* _reject_symlink_components and _resolve_controlled_path: no link on the     *)
(* way, and what is there is in the workspace.                               *)
ThroughLink(tree, path) ==
  \E p \in Leading(path) :
    Resolved(p) \in DOMAIN tree /\ tree[Resolved(p)].kind = "link"
Controlled(tree, path) == ~ ThroughLink(tree, path) /\ Resolved(path) \in DOMAIN tree

----------------------------------------------------------------------------
(* _iter_input_files: a file, or what is below a directory outside the parts   *)
(* that are skipped and the paths that are excluded.  A link there is refused, *)
(* one in a skipped part is not looked at.                                   *)
SkippedParts == {".git", ".mypy_cache", ".paperforge", ".pytest_cache", ".ruff_cache",
                 "__pycache__", "artifacts", "checkpoints", "logs", "output",
                 "outputs", "results", "runs"}
Below(tree, path) == {p \in DOMAIN tree : Len(p) > Len(path) /\ path \in Leading(p)}
Considered(tree, path, excluded) ==
  IF tree[path].kind = "file" THEN {path}
  ELSE {p \in Below(tree, path) :
          /\ {p[i] : i \in (Len(path) + 1)..Len(p)} \cap SkippedParts = {}
          /\ Leading(p) \cap excluded = {}}
Hashable(tree, path, excluded) ==
  /\ ~ ThroughLink(tree, path)
  /\ \A p \in Considered(tree, path, excluded) : tree[p].kind # "link"

(* _file_records.                                                            *)
FileRecords(tree, paths, excluded) ==
  {<<p, tree[p].content>> : p \in
     {q \in UNION {Considered(tree, path, excluded) : path \in paths} : tree[q].kind = "file"}}

----------------------------------------------------------------------------
(* _resolve_executable and _resolve_tool: an executable file.                 *)
Executable(tools, name) == name \in DOMAIN tools /\ tools[name].executable
RegularFile(files, name) == name \in DOMAIN files /\ files[name].kind = "file"

(* _canonical_compute_config: the tools and the files a backend rests on.  The *)
(* configuration of cloud-ssh is the ssh mapping in it.                       *)
SandboxTools(platform) ==
  CASE platform = "Darwin" -> {"sandbox-exec"}
    [] platform = "Linux" -> {"bwrap"}
    [] platform = "Windows" -> {"powershell.exe", "icacls.exe"}
    [] platform \notin {"Darwin", "Linux", "Windows"} -> {}
BoundTools(backend, config, platform) ==
  CASE backend = "local" -> SandboxTools(platform)
    [] backend = "docker" -> {"docker"}
    [] backend = "kubernetes" -> {"kubectl"}
    [] backend = "slurm" -> {"sbatch", "squeue", "sacct", "scancel", "scontrol"}
                              \cup ({config.runtime} \ {""})
    [] backend \in {"ssh", "cloud-ssh"} -> {"ssh", "scp"}
BoundFiles(backend, config) ==
  CASE backend = "local" -> {"local.py", "_local_supervisor.py", "_windows_appcontainer.py"}
    [] backend = "slurm" -> {config.image} \ {""}
    [] backend \in {"ssh", "cloud-ssh"} -> {config.known_hosts} \cup ({config.identity} \ {""})
    [] backend \in {"docker", "kubernetes"} -> {}

Backends == {"local", "docker", "ssh", "slurm", "kubernetes", "cloud-ssh"}
RemoteBackends == Backends \ {"local"}
ConfigAdmissible(job, world) ==
  /\ \A tool \in BoundTools(job.backend, job.config, world.platform) : Executable(world.tools, tool)
  /\ \A name \in BoundFiles(job.backend, job.config) : RegularFile(world.files, name)
  /\ job.backend = "docker" => job.config.mount \in {"", "worktree"}
Dependencies(job, world) ==
  {<<tool, world.tools[tool].content>> :
     tool \in BoundTools(job.backend, job.config, world.platform)}
    \cup {<<name, world.files[name].content>> : name \in BoundFiles(job.backend, job.config)}

----------------------------------------------------------------------------
(* ResourceSpec and JobSpec.                                                 *)
ResourcesAdmissible(resources) ==
  /\ resources.cpus >= 1 /\ resources.memory >= 0
  /\ resources.gpus >= 0 /\ resources.timeout >= 0
BroadOutputs == {<<>>, <<"*">>, <<"**">>, <<"**", "*">>}
SpecAdmissible(spec) ==
  /\ spec.command # <<>> /\ "" \notin Range(spec.command)
  /\ ~ spec.secret
  /\ \A output \in spec.outputs : output \notin BroadOutputs /\ ".." \notin Range(output)
  /\ ResourcesAdmissible(spec.resources)

(* What a job that is to be executed needs of its backend; "digest" stands for *)
(* an image pinned by one.                                                   *)
Pinned(job) ==
  CASE job.backend = "local" -> TRUE
    [] job.backend = "docker" -> job.config.image = "digest"
    [] job.backend = "kubernetes" ->
         /\ job.config.image = "digest" /\ job.config.transport = "digest"
         /\ "" \notin {job.config.source_pvc, job.config.artifact_pvc}
    [] job.backend = "slurm" -> "" \notin {job.config.runtime, job.config.image}
    [] job.backend \in {"ssh", "cloud-ssh"} ->
         job.config.image = "digest" /\ job.config.runtime = "digest"

----------------------------------------------------------------------------
(* build_compute_binding.  The inputs and those arguments of the command that  *)
(* name something in the worktree are bound.                                 *)
Worktree(spec) == Resolved(spec.workdir)
Exists(tree, path) == Resolved(path) \in DOMAIN tree \cup {Outside}
BoundPaths(spec, tree) ==
  {Worktree(spec) \o path : path \in spec.inputs}
    \cup {Worktree(spec) \o path : path \in
            {q \in spec.arguments : Exists(tree, Worktree(spec) \o q)}}
MutableOutputs(spec) == {Worktree(spec) \o output : output \in spec.outputs}
WorktreeRecords(spec, tree) == FileRecords(tree, {Worktree(spec)}, MutableOutputs(spec))

Bindable(job, world) ==
  LET spec == job.spec  tree == world.tree IN
  /\ job.backend \in Backends /\ SpecAdmissible(spec)
  /\ Controlled(tree, spec.workdir) /\ tree[Worktree(spec)].kind = "directory"
  /\ Range(Worktree(spec)) \cap {".git", ".paperforge"} = {}
  /\ ConfigAdmissible(job, world)
  /\ job.backend = "local" => Executable(world.tools, spec.command[1])
  /\ \A path \in BoundPaths(spec, tree) : Controlled(tree, path) /\ Hashable(tree, Resolved(path), {})
  /\ \A output \in MutableOutputs(spec) : ~ ThroughLink(tree, output)
  /\ Hashable(tree, Worktree(spec), MutableOutputs(spec))
  /\ spec.execute => Pinned(job)
  /\ job.backend \in RemoteBackends /\ spec.execute =>
       spec.snapshot \in {{}, {WorktreeRecords(spec, tree)}}

(* The specification with its paths and its executable resolved, the hash of   *)
(* its sources in its metadata when they are sent away, and an identifier.    *)
CanonicalSpec(job, world) ==
  LET spec == job.spec
      settled == [spec EXCEPT
        !.command[1] = IF job.backend = "local" THEN world.tools[@].path ELSE @,
        !.workdir = Worktree(spec),
        !.snapshot = IF job.backend \in RemoteBackends /\ spec.execute
                     THEN {WorktreeRecords(spec, world.tree)} ELSE @]
  IN  [settled EXCEPT !.id = IF spec.execute /\ @ = "" THEN <<"id of", settled>> ELSE @]

Binding(job, world) ==
  LET spec == job.spec IN
  [backend |-> job.backend, spec |-> CanonicalSpec(job, world), config |-> job.config,
   dependencies |-> Dependencies(job, world),
   executable |-> IF job.backend = "local" THEN world.tools[spec.command[1]].content ELSE "remote",
   inputs |-> FileRecords(world.tree, {Resolved(p) : p \in BoundPaths(spec, world.tree)}, {}),
   worktree |-> WorktreeRecords(spec, world.tree), git |-> world.git]

(* verify_compute_binding: building it again from its own parts gives the same. *)
BindingVerified(binding, world) ==
  LET job == [backend |-> binding.backend, spec |-> binding.spec, config |-> binding.config]
  IN  Bindable(job, world) /\ Binding(job, world) = binding

----------------------------------------------------------------------------
(* job_manifest_inputs: no field but the known ones, and the two stages.       *)
ManifestFields == {"schema", "compute_backend", "compute_config", "cost_limit",
                   "experiment_stages", "job_spec"}
StageFields == {"compute_backend", "compute_config", "job_spec"}
ManifestAdmissible(manifest) ==
  /\ {"schema", "job_spec"} \subseteq manifest.fields
  /\ manifest.fields \subseteq ManifestFields
  /\ DOMAIN manifest.stages \subseteq {"static_check", "mini_experiment"}
  /\ \A stage \in DOMAIN manifest.stages :
       "job_spec" \in manifest.stages[stage] /\ manifest.stages[stage] \subseteq StageFields
=============================================================================
