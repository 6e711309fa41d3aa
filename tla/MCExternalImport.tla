--------------------------- MODULE MCExternalImport ---------------------------
(* Two imports that measured the same run as they were staged.  Amending the *)
(* first makes it a transcription, which may not be evidence; amending the   *)
(* second makes it a simulation and so another run's.                        *)
EXTENDS ExternalImport

Subject == [model_id |-> "model", checkpoint_sha256 |-> Absent, dataset_id |-> "data",
            split_sha256 |-> Absent, seed |-> "1", input_size |-> Absent, batch_size |-> Absent]
Execution == [device |-> "board", device_id |-> Absent, runtime |-> "torch",
              runtime_version |-> Absent, precision |-> Absent, input_size |-> Absent,
              batch_size |-> Absent, timing_scope |-> "end_to_end"]
Semantics(kind) == [kind |-> kind, origin |-> "external_import", role |-> "scientific",
                    parents |-> {}, method |-> Absent, version |-> Absent]
Manifest(kind) == [subject |-> Subject, execution |-> Execution, semantics |-> Semantics(kind)]

MCManifests == [a |-> [declared |-> Manifest("measured"), amended |-> Manifest("transcribed")],
                b |-> [declared |-> Manifest("measured"), amended |-> Manifest("simulated")]]

How(metric, method, frames) == [metric |-> metric, method |-> method, frames |-> frames,
                                elapsed |-> frames, trace |-> Absent, window |-> Absent]
(* Frames counted over a window, or a rate nobody says how it was measured.   *)
MCMetrics == {How("fps", "frame_count_window", 9), How("fps", Absent, 0)}

----------------------------------------------------------------------------
(* The rules on manifests and metrics, at their edges.                       *)

Lineage(s) == [s EXCEPT !.parents = {"e"}, !.method = "m", !.version = "v"]
Measured1 == Semantics("measured")
Derived1 == Lineage(Semantics("derived"))

(* A derived measurement needs its lineage, a required field its value; the   *)
(* device may be given under either name but only one of them is checked.     *)
ASSUME LineageRule == ~ SemanticsPass(Semantics("derived")) /\ SemanticsPass(Derived1)
ASSUME RoleRule == ~ ScientificCandidate([Measured1 EXCEPT !.role = "fixture"])
ASSUME DeviceRule ==
       LET renamed == [Manifest("measured") EXCEPT !.execution.device = Absent,
                                                   !.execution.device_id = "board"]
       IN /\ RunIdentity(renamed) = RunIdentity(Manifest("measured"))
          /\ ~ ManifestPasses(renamed)

(* A reciprocal or a fixed power is never a measurement; a window without     *)
(* frames measures nothing; what has no method may not be called measured.    *)
ASSUME MetricRules == \A s \in {Measured1, Derived1} :
  /\ MetricAllowed(s, How("fps", "reciprocal_latency", 0)) <=> s = Derived1
  /\ MetricAllowed(s, How("energy", "fixed_power", 0)) <=> s = Derived1
  /\ MetricAllowed(s, How("fps", "frame_count_window", 9)) <=> s = Measured1
  /\ ~ MetricAllowed(s, How("fps", "frame_count_window", 0))
  /\ MetricAllowed(s, How("fps", Absent, 0)) <=> s = Derived1
  /\ MetricAllowed(s, How("latency", "direct_timer", 0)) <=> s = Measured1
=============================================================================
