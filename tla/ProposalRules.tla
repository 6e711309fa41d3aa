----------------------------- MODULE ProposalRules -----------------------------
(***************************************************************************)
(* What the experiment manager accepts as a proposal, and how it hashes the   *)
(* files a run rests on (paperforge/experiments.py).                          *)
(***************************************************************************)
EXTENDS BindingRules, TLC
LOCAL INSTANCE SequencesExt

(* _normalize_paths: relative and never upwards, each once and in the order    *)
(* given.  "absolute" is the first name of a path that is.                    *)
PathAdmissible(path) == Range(path) \cap {"..", "absolute", "secret"} = {}
NormalPaths(paths) ==
  FoldLeft(LAMBDA seen, path : IF path \in Range(seen) THEN seen ELSE Append(seen, path),
           <<>>, paths)

----------------------------------------------------------------------------
(* _resolve_input: it exists below the workspace and no link leads to it.      *)
InputResolves(tree, path) ==
  path # <<>> /\ path \in DOMAIN tree /\ ~ ThroughLink(tree, path)

Refused == {"refused"}

(* _hash_one: a file, or the files of a directory under their names in it.     *)
HashOne(tree, path) ==
  LET files == {p \in Below(tree, path) : tree[p].kind = "file"} IN
  IF ~ InputResolves(tree, path) THEN Refused
  ELSE CASE tree[path].kind = "file" -> {<<<<>>, tree[path].content>>}
         [] tree[path].kind = "directory" ->
              IF files = {} \/ \E p \in Below(tree, path) : tree[p].kind = "link"
              THEN Refused
              ELSE {<<SubSeq(p, Len(path) + 1, Len(p)), tree[p].content>> : p \in files}
         [] tree[path].kind \notin {"file", "directory"} -> Refused

(* _hash_paths: nothing, the hash of the only path, or one of all of them in   *)
(* the order of the proposal.                                               *)
HashPaths(tree, paths) ==
  CASE \E path \in Range(paths) : HashOne(tree, path) = Refused -> Refused
    [] paths = <<>> -> {}
    [] Len(paths) = 1 /\ HashOne(tree, paths[1]) # Refused -> HashOne(tree, paths[1])
    [] Len(paths) > 1 /\ \A path \in Range(paths) : HashOne(tree, path) # Refused ->
         {<<i, paths[i], HashOne(tree, paths[i])>> : i \in DOMAIN paths}

(* _output_hashes: an output may be missing, a link on the way to it may not.  *)
OutputsHashable(tree, paths) ==
  \A path \in Range(paths) :
    /\ path # <<>> /\ ~ ThroughLink(tree, path)
    /\ path \in DOMAIN tree => HashOne(tree, path) # Refused
OutputHashes(tree, paths) ==
  [path \in Range(paths) |-> IF path \in DOMAIN tree THEN HashOne(tree, path) ELSE {}]

----------------------------------------------------------------------------
(* _validate_stage_bindings.  A timeout of 0 stands for none, and none is      *)
(* within every limit.                                                      *)
StageLimit == [static_check |-> [gpus |-> 0, timeout |-> 300],
               mini_experiment |-> [gpus |-> 1, timeout |-> 1800]]
CostKnown(spec) == spec.cost > 0
StageBindingAdmissible(stage, binding, world, fullCommand) ==
  LET spec == binding.spec IN
  /\ BindingVerified(binding, world)
  /\ binding.backend = "local" /\ spec.execute
  /\ spec.command # fullCommand
  /\ CostKnown(spec)
  /\ spec.resources.gpus <= StageLimit[stage].gpus
  /\ spec.resources.timeout <= StageLimit[stage].timeout

(* propose: a request with a command has the binding of a compute job, whose   *)
(* command and outputs it must have, or is bound to this machine.             *)
LocalJob(request) ==
  [backend |-> "local", config |-> <<>>,
   spec |-> [command |-> request.command, workdir |-> <<>>,
             inputs |-> Range(request.code) \cup Range(request.config) \cup Range(request.data),
             arguments |-> request.arguments, outputs |-> Range(request.outputs),
             resources |-> [cpus |-> 1, memory |-> 0, gpus |-> 0, timeout |-> 0],
             cost |-> request.cost, snapshot |-> {}, id |-> "", execute |-> TRUE,
             secret |-> FALSE]]
BindingOf(request, world) ==
  IF request.command = <<>> THEN <<>>
  ELSE IF request.binding = <<>> THEN Binding(LocalJob(request), world)
  ELSE request.binding
CommandOf(request, world) ==
  IF request.command = <<>> THEN <<>> ELSE BindingOf(request, world).spec.command
OutputsOf(request, world) ==
  IF request.command = <<>> THEN Range(request.outputs)
  ELSE BindingOf(request, world).spec.outputs

ProposalAccepted(request, world) ==
  /\ request.title # "" /\ request.limit >= 0 /\ ~ request.secret
  /\ "" \notin Range(request.command)
  /\ \A paths \in {request.code, request.config, request.data, request.outputs} :
       \A path \in Range(paths) : PathAdmissible(path)
  /\ request.command # <<>> =>
       IF request.binding = <<>> THEN Bindable(LocalJob(request), world)
       ELSE /\ request.command = CommandOf(request, world)
            /\ request.outputs # <<>> => Range(request.outputs) = OutputsOf(request, world)
  /\ request.stages # <<>> =>
       /\ DOMAIN request.stages = DOMAIN StageLimit
       /\ \A stage \in DOMAIN request.stages :
            StageBindingAdmissible(stage, request.stages[stage], world, CommandOf(request, world))

(* The identifier of a proposal is a digest of its document, which holds       *)
(* neither the limit nor the risk: a document that is known keeps the row it   *)
(* has, whatever limit it is proposed with now.  A limit of 0 stands for none. *)
Document(request, world) ==
  [title |-> request.title, command |-> CommandOf(request, world),
   code |-> NormalPaths(request.code), config |-> NormalPaths(request.config),
   data |-> NormalPaths(request.data), outputs |-> OutputsOf(request, world),
   binding |-> BindingOf(request, world), stages |-> request.stages]
Propose(rows, request, world) ==
  rows @@ (Document(request, world) :> [status |-> "PROPOSED", limit |-> request.limit])

----------------------------------------------------------------------------
(* _reject_simulated_claims: no field of the metadata of a simulated run, at   *)
(* whatever depth, states a claim or a conclusion.                           *)
ClaimKeys == {"claim", "claims", "conclusion", "conclusions", "performance_claim",
              "performance_conclusion", "publication_claim", "publishable_claim"}
ClaimsFromSimulation(provenance, fields) ==
  provenance = "SIMULATED" /\ \E f \in fields : f.key \in ClaimKeys /\ ~ f.empty

(* _normalize_outcome: a mapping without a return code counts as a success.    *)
OutcomeCode(outcome) ==
  IF outcome.form = "mapping" /\ ~ outcome.given THEN 0 ELSE outcome.code

(* import_metric_evidence: what the run was recorded with prevails over what   *)
(* the caller declares of it.                                                *)
MetricsCitable(run, excerpt) == run.eligible /\ run.hashes.metrics # {} /\ excerpt # ""
MetricEvidence(run, declared) == run.hashes @@ declared
=============================================================================
