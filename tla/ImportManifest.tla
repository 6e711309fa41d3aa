---------------------------- MODULE ImportManifest ----------------------------
(***************************************************************************)
(* What the manifest of a measurement from outside says, and when that may   *)
(* become evidence (external_import.py, evidence_semantics.py).              *)
(*                                                                         *)
(* A manifest is a record [subject, execution, semantics]; its parts are     *)
(* records of the fields that the code reads, and a field that is missing or *)
(* blank is Absent.  Names that the code treats alike (latency and           *)
(* latency_ms, direct_timer and timer_samples) are one value here.           *)
(***************************************************************************)
EXTENDS Integers

CONSTANT Absent

First(preferred, other) == IF preferred # Absent THEN preferred ELSE other

(* Two imports measured the same scientific run when these agree.            *)
RunIdentity(m) ==
  [model_id          |-> m.subject.model_id,
   checkpoint_sha256 |-> m.subject.checkpoint_sha256,
   dataset_id        |-> m.subject.dataset_id,
   split_sha256      |-> m.subject.split_sha256,
   seed              |-> m.subject.seed,
   device_id         |-> First(m.execution.device, m.execution.device_id),
   runtime           |-> m.execution.runtime,
   runtime_version   |-> m.execution.runtime_version,
   precision         |-> m.execution.precision,
   input_size        |-> First(m.execution.input_size, m.subject.input_size),
   batch_size        |-> First(m.execution.batch_size, m.subject.batch_size),
   timing_scope      |-> m.execution.timing_scope,
   measurement_kind  |-> m.semantics.kind]

----------------------------------------------------------------------------
(* Semantics: [kind, origin, role, parents, method, version].                *)

KnownWords(s) ==
  /\ s.kind \in {"measured", "simulated", "remapped", "derived", "transcribed"}
  /\ s.origin \in {"paperforge_run", "external_import", "manuscript_existing", "manual_entry"}
  /\ s.role \in {"scientific", "fixture", "synthetic_test"}

HasLineage(s) ==
  s.kind \in {"derived", "remapped"} => s.parents # {} /\ Absent \notin {s.method, s.version}

ScientificCandidate(s) ==
  s.role = "scientific" /\ s.kind # "transcribed" /\ HasLineage(s)

SemanticsPass(s) == KnownWords(s) /\ HasLineage(s) /\ ScientificCandidate(s)

----------------------------------------------------------------------------
(* The checks of validate_import that can fail on the manifest alone.        *)

RequiredGiven(m) ==
  Absent \notin {m.subject.model_id, m.subject.dataset_id,
                 m.execution.device, m.execution.timing_scope}

TimingKnown(m) ==
  m.execution.timing_scope \in {Absent, "inference_only", "end_to_end", "training_step"}

ManifestPasses(m) == RequiredGiven(m) /\ SemanticsPass(m.semantics) /\ TimingKnown(m)

----------------------------------------------------------------------------
(* How a metric was acquired: [metric, method, frames, elapsed, trace,       *)
(* window], where the caller or the manifest says so.  Counts that are not    *)
(* positive numbers are 0.                                                   *)

Derived(s) == s.kind = "derived" /\ s.parents # {}

LatencyAllowed(s, how) == how.method = "direct_timer" /\ s.kind = "measured"

FpsAllowed(s, how) ==
  \/ how.method = "reciprocal_latency" /\ Derived(s)
  \/ how.method = "frame_count_window" /\ s.kind = "measured"
       /\ how.frames > 0 /\ how.elapsed > 0

EnergyAllowed(s, how) ==
  \/ how.method = "fixed_power" /\ Derived(s)
  \/ how.method = "power_trace" /\ s.kind = "measured"
       /\ Absent \notin {how.trace, how.window} /\ how.frames > 0

(* Without a method the name must not claim more than the kind allows.       *)
NameAllowed(s, metric) ==
  /\ metric = "measured_energy" => s.kind = "measured"
  /\ metric \in {"fps", "energy"} => s.kind # "measured"

MetricAllowed(s, how) ==
  IF how.method = Absent
  THEN NameAllowed(s, how.metric)
  ELSE /\ how.metric = "latency" => LatencyAllowed(s, how)
       /\ how.metric = "fps" => FpsAllowed(s, how)
       /\ how.metric \in {"energy", "energy_per_frame", "measured_energy"} => EnergyAllowed(s, how)
=============================================================================
