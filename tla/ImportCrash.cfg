\* Two imports with two versions each, the files of one of them edited.
SPECIFICATION ImportSpec
CONSTANTS
  Imports = {"a", "b"}
  Versions = {"declared", "amended"}
  Manifests <- MCManifests
  Metrics <- MCMetrics
  Absent = Absent
  Edited = {"b"}
INVARIANTS OneMeasurementPerRun
PROPERTIES EvidenceIsFinal MismatchIsKept
