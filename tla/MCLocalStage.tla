----------------------------- MODULE MCLocalStage -----------------------------
(* Small instances of LocalStage.  Three cost units are enough for the three *)
(* stages of one proposal and leave none for a retry, or one with a limit of *)
(* four.  The rules of proposals and of bindings are tried on a small         *)
(* workspace with one job for every backend.                                *)
EXTENDS LocalStage, ProposalRules

CONSTANTS e1, e2, e3, e4, x1, x2, new, other

MCScopes == {Stages, {StaticCheck, MiniExperiment}}
UnitEstimate == [s \in Stages |-> 1]
StepEstimate == [s \in Stages |-> IF s = FullExperiment THEN 2 ELSE 1]

Symmetry == Permutations(Executors) \cup Permutations(Events)

----------------------------------------------------------------------------
(* A workspace with code, an old result, data, and a link to the data.        *)
File(c) == [kind |-> "file", content |-> c]
Directory == [kind |-> "directory", content |-> ""]
Link == [kind |-> "link", content |-> ""]
Train == <<"code", "train.py">>
OldRun == <<"code", "runs", "log">>
Metrics == <<"code", "metrics.json">>
Data == <<"data", "set.csv">>
LinkName == <<"code", "latest">>
Workspace == << >> :> Directory @@ <<"code">> :> Directory @@ Train :> File("v1")
             @@ <<"code", "runs">> :> Directory @@ OldRun :> File("v1")
             @@ Metrics :> File("v1") @@ <<"data">> :> Directory @@ Data :> File("v1")

Tool(name) == [path |-> name, content |-> name, executable |-> TRUE]
Tools == [name \in {"bwrap", "docker", "kubectl", "sbatch", "squeue", "sacct", "scancel",
                    "scontrol", "apptainer", "ssh", "scp", "/usr/bin/python"}
            |-> Tool(name)] @@ "python" :> Tool("/usr/bin/python")
HostFiles == [name \in {"local.py", "_local_supervisor.py", "_windows_appcontainer.py",
                        "image.sif", "hosts", "key"} |-> File(name)]
World == [tree |-> Workspace, tools |-> Tools, files |-> HostFiles, platform |-> "Linux",
          git |-> "head"]
Put(path, entry) == [World EXCEPT !.tree = path :> entry @@ @]
Remove(path) == [World EXCEPT !.tree = [p \in DOMAIN @ \ {path} |-> @[p]]]

Resources == [cpus |-> 1, memory |-> 0, gpus |-> 0, timeout |-> 0]
TrainSpec == [command |-> <<"python", "train.py">>, workdir |-> <<"code">>,
              inputs |-> {<<"..", "data">>}, arguments |-> {<<"train.py">>},
              outputs |-> {<<"metrics.json">>}, resources |-> Resources, cost |-> 1,
              snapshot |-> {}, id |-> "", execute |-> TRUE, secret |-> FALSE]
ConfigFor ==
  [local |-> <<>>, docker |-> [image |-> "digest", mount |-> ""],
   kubernetes |-> [image |-> "digest", transport |-> "digest", source_pvc |-> "s",
                   artifact_pvc |-> "a"],
   slurm |-> [runtime |-> "apptainer", image |-> "image.sif"]]
  @@ [backend \in {"ssh", "cloud-ssh"} |->
        [known_hosts |-> "hosts", identity |-> "key", image |-> "digest", runtime |-> "digest"]]
JobFor(backend) == [backend |-> backend, spec |-> TrainSpec, config |-> ConfigFor[backend]]
Jobs == {JobFor(backend) : backend \in Backends}
          \cup {[JobFor(backend) EXCEPT !.spec.execute = FALSE] : backend \in Backends}

(* A job on a plain workspace is bound, and its binding verifies until a file  *)
(* it reads, a tool, a key or the commit changes; its outputs, the skipped     *)
(* parts and the rest of the host may change.                                *)
ASSUME BindingRule ==
  \A job \in Jobs :
    LET binding == Binding(job, World) IN
    /\ Bindable(job, World)
    /\ BindingVerified(binding, World)
    /\ \A path \in {Train, Data} :
         /\ ~ BindingVerified(binding, Put(path, File("v2")))
         /\ ~ BindingVerified(binding, Remove(path))
    /\ ~ BindingVerified(binding, [World EXCEPT !.git = "next"])
    /\ \A path \in {OldRun, Metrics, <<"paper.tex">>} :
         BindingVerified(binding, Put(path, File("v2")))
    /\ \A name \in DOMAIN Tools :
         BindingVerified(binding, [World EXCEPT !.tools[name].content = "v2"])
           <=> name \notin BoundTools(job.backend, job.config, "Linux")
                 \cup (IF job.backend = "local" THEN {"/usr/bin/python"} ELSE {})
    /\ \A name \in DOMAIN HostFiles :
         BindingVerified(binding, [World EXCEPT !.files[name].content = "v2"])
           <=> name \notin BoundFiles(job.backend, job.config)

(* A link is refused where it is followed or hashed and nowhere else.          *)
ASSUME LinkRule ==
  \A job \in Jobs :
    /\ \A path \in {LinkName, Train, Metrics, <<"data">>, Data} :
         ~ Bindable(job, Put(path, Link))
    /\ \A path \in {OldRun, <<"paper.tex">>} : Bindable(job, Put(path, Link))

(* What is executed has to be pinned, and inside the workspace.               *)
Unpinned == {[JobFor("docker") EXCEPT !.config.image = "latest"],
             [JobFor("kubernetes") EXCEPT !.config.transport = ""],
             [JobFor("kubernetes") EXCEPT !.config.artifact_pvc = ""],
             [JobFor("slurm") EXCEPT !.config.image = ""],
             [JobFor("cloud-ssh") EXCEPT !.config.runtime = ""]}
ASSUME PinningRule ==
  \A job \in Unpinned :
    ~ Bindable(job, World) /\ Bindable([job EXCEPT !.spec.execute = FALSE], World)
ASSUME EdgeRule ==
  \A job \in Jobs : \A spec \in
    {[job.spec EXCEPT !.workdir = <<".paperforge">>], [job.spec EXCEPT !.workdir = Train],
     [job.spec EXCEPT !.workdir = <<"..">>], [job.spec EXCEPT !.inputs = {<<"missing">>}],
     [job.spec EXCEPT !.inputs = {<<"..", "..", "etc">>}], [job.spec EXCEPT !.outputs = {<<>>}],
     [job.spec EXCEPT !.outputs = {<<"..", "data">>}], [job.spec EXCEPT !.command = <<>>],
     [job.spec EXCEPT !.arguments = {<<"..", "..">>}], [job.spec EXCEPT !.resources.cpus = 0],
     [job.spec EXCEPT !.secret = TRUE]} :
      ~ Bindable([job EXCEPT !.spec = spec], World)
ASSUME SourceRule ==
  \A job \in Jobs :
    Bindable([job EXCEPT !.spec.snapshot = {{<<Train, "other">>}}], World)
      <=> job.backend = "local" \/ ~ job.spec.execute
ASSUME ManifestRule ==
  LET manifest == [fields |-> {"schema", "job_spec"},
                   stages |-> [static_check |-> {"job_spec"}]] IN
  /\ ManifestAdmissible(manifest)
  /\ ~ ManifestAdmissible([manifest EXCEPT !.fields = @ \cup {"owner"}])
  /\ ~ ManifestAdmissible([manifest EXCEPT !.fields = {"schema"}])
  /\ ~ ManifestAdmissible([manifest EXCEPT !.stages = [full_experiment |-> {"job_spec"}]])
  /\ ~ ManifestAdmissible([manifest EXCEPT !.stages.static_check = {"job_spec", "cost_limit"}])

----------------------------------------------------------------------------
(* A proposal with its two stages.                                           *)
StageOf(argument, timeout) ==
  Binding([JobFor("local") EXCEPT !.spec.command = <<"python", argument>>,
                                  !.spec.resources.timeout = timeout], World)
StagesOf(static, mini) == [static_check |-> StageOf("check", static),
                           mini_experiment |-> StageOf("mini", mini)]
Request == [title |-> "t", limit |-> 5, secret |-> FALSE, cost |-> 1,
            command |-> <<"python", "train.py">>, arguments |-> {<<"code", "train.py">>},
            code |-> <<<<"code">>, <<"code">>>>, config |-> <<>>, data |-> <<<<"data">>>>,
            outputs |-> <<Metrics>>, binding |-> <<>>, stages |-> StagesOf(300, 1800)]
BoundRequest == [Request EXCEPT !.binding = Binding(JobFor("slurm"), World), !.outputs = <<>>]

ASSUME ProposalRule ==
  /\ ProposalAccepted(Request, World) /\ ProposalAccepted(BoundRequest, World)
  /\ ProposalAccepted([Request EXCEPT !.stages = StagesOf(0, 0)], World)
  /\ \A request \in
       {[Request EXCEPT !.title = ""], [Request EXCEPT !.limit = -1],
        [Request EXCEPT !.data = <<<<"absolute", "data">>>>],
        [Request EXCEPT !.data = <<<<"missing">>>>],
        [Request EXCEPT !.stages = StagesOf(301, 0)],
        [Request EXCEPT !.stages = StagesOf(0, 1801)],
        [Request EXCEPT !.stages = [static_check |-> StageOf("check", 0)]],
        [Request EXCEPT !.stages.mini_experiment = StageOf("train.py", 0)],
        [BoundRequest EXCEPT !.command = <<"python">>],
        [BoundRequest EXCEPT !.outputs = <<Data>>]} :
       ~ ProposalAccepted(request, World)
  /\ ~ ProposalAccepted(BoundRequest, Put(Train, File("v2")))

(* Proposing the same document with another limit keeps the limit it had; a   *)
(* change of the sources makes another proposal.                             *)
ASSUME RepeatRule ==
  LET rows == Propose(<<>>, Request, World)
      edited == [Request EXCEPT !.stages = <<>>] IN
  /\ Propose(rows, [Request EXCEPT !.limit = 9], World) = rows
  /\ Cardinality(DOMAIN Propose(Propose(<<>>, edited, World), edited, Put(Train, File("v2")))) = 2
  /\ Document(Request, World).code = <<<<"code">>>>

(* A directory hashes as its files under their names, a missing output as      *)
(* nothing; the order of the paths of a proposal counts.                      *)
ASSUME HashRule ==
  /\ HashOne(Workspace, <<"data">>) = {<<<<"set.csv">>, "v1">>}
  /\ HashOne(Workspace, Data) # HashOne(Workspace, <<"data">>)
  /\ \A path \in {<<>>, <<"missing">>} : HashOne(Workspace, path) = Refused
  /\ HashOne(Put(LinkName, Link).tree, <<"code">>) = Refused
  /\ HashOne(Remove(Data).tree, <<"data">>) = Refused
  /\ HashPaths(Workspace, <<>>) = {}
  /\ HashPaths(Workspace, <<Data>>) = HashOne(Workspace, Data)
  /\ HashPaths(Workspace, <<Data, Train>>) # HashPaths(Workspace, <<Train, Data>>)
  /\ HashPaths(Workspace, <<Data, <<"missing">>>>) = Refused
  /\ OutputHashes(Workspace, <<<<"missing">>>>) = (<<"missing">> :> {})
  /\ OutputsHashable(Workspace, <<Metrics, <<"missing">>>>)
  /\ ~ OutputsHashable(Put(LinkName, Link).tree, <<LinkName \o <<"x">>>>)

(* Of a run that may back claims, the caller cannot declare other hashes.      *)
ASSUME EvidenceRule ==
  LET run == [eligible |-> TRUE, hashes |-> [metrics |-> {"m"}, code |-> "c"]]
      declared == [metrics |-> {"better"}, note |-> "n"] IN
  /\ MetricsCitable(run, "text") /\ ~ MetricsCitable(run, "")
  /\ ~ MetricsCitable([run EXCEPT !.eligible = FALSE], "text")
  /\ ~ MetricsCitable([run EXCEPT !.hashes.metrics = {}], "text")
  /\ MetricEvidence(run, declared) = run.hashes @@ [note |-> "n"]
  /\ ClaimsFromSimulation("SIMULATED", {[key |-> "claim", empty |-> FALSE]})
  /\ ~ ClaimsFromSimulation("MEASURED", {[key |-> "claim", empty |-> FALSE]})
  /\ ~ ClaimsFromSimulation("SIMULATED", {[key |-> "claims", empty |-> TRUE]})
  /\ OutcomeCode([form |-> "mapping", given |-> FALSE, code |-> 3]) = 0
  /\ OutcomeCode([form |-> "mapping", given |-> TRUE, code |-> 3]) = 3
=============================================================================
