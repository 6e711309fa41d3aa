---------------------------- MODULE ExternalImport ----------------------------
(***************************************************************************)
(* Measurements from outside (paperforge/external_import.py): staged into    *)
(* files and a row, validated into a report, approved by a person, and       *)
(* materialised as evidence.  Calls run one at a time, as                    *)
(* docs/u4c-reliability.md demands of the operators, and can be killed       *)
(* between two of their writes; between calls the files may be edited.       *)
(*                                                                         *)
(* Hashes are compared, never inverted, so content stands for its hash.     *)
(* Every import has one source file, approvals keep the manifest's scope, no *)
(* two imports have the same content, and an edited manifest still describes *)
(* the same source (its subject, execution or admissibility changes).        *)
(***************************************************************************)
EXTENDS ImportManifest

CONSTANTS
  Imports,     \* import identifiers
  Versions,    \* contents a manifest can be edited to
  Manifests,   \* import -> version -> the manifest with that content
  Metrics,     \* metrics, with their provenance, that a caller may name
  Edited       \* imports whose files somebody edits between the calls

Missing == "missing"

ASSUME VersionsAssumption == Missing \notin Versions
ASSUME ManifestsAssumption == DOMAIN Manifests = Imports

(* The scientific run that each version of an import says it measured.       *)
Identity == [i \in Imports |-> [v \in Versions |-> RunIdentity(Manifests[i][v])]]

VARIABLES
  manifest,   \* import -> content of manifest.json, or Missing
  intact,     \* import -> the source has the hash that the manifest lists
  report,     \* import -> the stable content of validation.json
  importState,      \* import -> imports.state, or "ABSENT" without a row
  approval,   \* import -> the newest row of import_approvals that is valid
  materials,  \* rows of import_materializations
  evidence,   \* import -> what its evidence row says it was made from
  importCall        \* the call that is under way, between two of its writes

tables == <<importState, approval, materials, evidence>>
importVars == <<manifest, intact, report, tables, importCall>>

ManifestContents == Versions \cup {Missing}

(* The report that the digest covers.  "others" are the imports it found in  *)
(* conflict; a report that is not genuine was altered after it was written.  *)
Reports == [version : Versions, intact : BOOLEAN, others : SUBSET Imports,
            genuine : BOOLEAN]
NoReport == [version |-> Missing]

(* An approval binds the manifest and the digest of the report, and so does  *)
(* the key of a materialisation.                                            *)
Bindings == [version : Versions, intact : BOOLEAN, others : SUBSET Imports]
NoBinding == [version |-> Missing]

NoImportCall == [pc |-> "idle"]
ImportStates == {"ABSENT", "staged", "validated", "validation_failed", "approved",
           "invalidated", "materialized"}

ImportTypeOK ==
  /\ manifest \in [Imports -> ManifestContents]
  /\ intact \in [Imports -> BOOLEAN]
  /\ report \in [Imports -> Reports \cup {NoReport}]
  /\ importState \in [Imports -> ImportStates]
  /\ approval \in [Imports -> Bindings \cup {NoBinding}]
  /\ materials \subseteq [import : Imports, key : Bindings]
  /\ evidence \in [Imports -> Bindings \cup {NoBinding}]
  /\ importCall \in [pc : {"staging", "validating"}, import : Imports] \cup {NoImportCall}

ImportInit ==
  /\ manifest = [i \in Imports |-> Missing]
  /\ intact = [i \in Imports |-> TRUE]
  /\ report = [i \in Imports |-> NoReport]
  /\ importState = [i \in Imports |-> "ABSENT"]
  /\ approval = [i \in Imports |-> NoBinding]
  /\ materials = {}
  /\ evidence = [i \in Imports |-> NoBinding]
  /\ importCall = NoImportCall

(* UPDATE imports: nothing happens when the row is not there.               *)
SetState(i, new) == importState' = [importState EXCEPT ![i] = IF @ = "ABSENT" THEN @ ELSE new]

Measured(i) == Identity[i][manifest[i]]

----------------------------------------------------------------------------
(* stage_import: the files, then the row.  Identifiers are never reused.     *)
StageFiles(i, version) ==
  /\ importCall = NoImportCall
  /\ manifest[i] = Missing /\ importState[i] = "ABSENT" /\ report[i] = NoReport
  /\ manifest' = [manifest EXCEPT ![i] = version]
  /\ intact' = [intact EXCEPT ![i] = TRUE]
  /\ importCall' = [pc |-> "staging", import |-> i]
  /\ UNCHANGED <<report, tables>>

StageRow(i) ==
  /\ importCall = [pc |-> "staging", import |-> i]
  /\ importState' = [importState EXCEPT ![i] = "staged"]
  /\ importCall' = NoImportCall
  /\ UNCHANGED <<manifest, intact, report, approval, materials, evidence>>

(* validate_import: imports of the same run are compared by their files as   *)
(* they are now, and only those with a row are looked at.                   *)
Others(i) == {j \in Imports \ {i} : /\ importState[j] # "ABSENT"
                                    /\ manifest[j] # Missing
                                    /\ Measured(j) = Measured(i)}

Verdict(i) == [version |-> manifest[i], intact |-> intact[i], others |-> Others(i)]

(* What the report says, apart from whether it still says so.               *)
Digest(i) == IF report[i] = NoReport THEN NoBinding
             ELSE [version |-> report[i].version, intact |-> report[i].intact,
                   others |-> report[i].others]

(* A report that has the new digest is kept, altered or not.                 *)
ValidateReport(i) ==
  /\ importCall = NoImportCall
  /\ manifest[i] # Missing
  /\ IF Digest(i) = Verdict(i)
     THEN UNCHANGED report
     ELSE report' = [report EXCEPT ![i] =
            [version |-> manifest[i], intact |-> intact[i], others |-> Others(i),
             genuine |-> TRUE]]
  /\ importCall' = [pc |-> "validating", import |-> i]
  /\ UNCHANGED <<manifest, intact, tables>>

Failed(i) == ~ report[i].intact \/ ~ ManifestPasses(Manifests[i][report[i].version])

(* Every other report needs a person: no file proves which device wrote it. *)
ValidateRow(i) ==
  /\ importCall = [pc |-> "validating", import |-> i]
  /\ SetState(i, IF Failed(i) THEN "validation_failed" ELSE "validated")
  /\ importCall' = NoImportCall
  /\ UNCHANGED <<manifest, intact, report, approval, materials, evidence>>

----------------------------------------------------------------------------
(* The files are read again and compared: manifest, report and source.      *)
Readable(i) == manifest[i] # Missing /\ report[i] # NoReport /\ report[i].genuine

(* approve_import, with the acknowledgements and the rationale it asks for.  *)
(* Neither the row nor its state matters.                                   *)
ApproveImport(i) ==
  /\ importCall = NoImportCall
  /\ Readable(i)
  /\ report[i].version = manifest[i]
  /\ intact[i]
  /\ ~ Failed(i)
  /\ approval' = [approval EXCEPT ![i] = Digest(i)]
  /\ SetState(i, "approved")
  /\ UNCHANGED <<manifest, intact, report, materials, evidence, importCall>>

(* approval_valid.                                                          *)
ApprovalValid(i) ==
  /\ approval[i] # NoBinding
  /\ Readable(i)
  /\ approval[i].version = manifest[i]
  /\ approval[i] = Digest(i)
  /\ intact[i]

----------------------------------------------------------------------------
(* reconcile_imports.                                                       *)
RowsOf(i) == {m \in materials : m.import = i}

(* A row whose evidence, manifest or import row is not what it was made from. *)
Orphan(m) == \/ evidence[m.import] # m.key
             \/ manifest[m.import] # m.key.version
             \/ importState[m.import] = "ABSENT"

Mismatch(i) ==
  \/ importState[i] = "materialized" /\ ~ \E m \in RowsOf(i) : RowsOf(i) = {m} /\ ~ Orphan(m)
  \/ importState[i] \notin {"materialized", "ABSENT"} /\ RowsOf(i) # {}

(* Mutation: the states of the imports are not compared.                     *)
ConsistentRows == \A m \in materials : ~ Orphan(m)
Consistent == /\ \A i \in Imports : ~ Mismatch(i)
              /\ \A m \in materials : ~ Orphan(m)
              /\ \A i \in Imports : evidence[i] # NoBinding =>
                   [import |-> i, key |-> evidence[i]] \in materials

----------------------------------------------------------------------------
(* materialize_import.  A stale approval is marked so and the state with it. *)
Invalidate(i) ==
  /\ importCall = NoImportCall
  /\ ~ ApprovalValid(i)
  /\ approval' = [approval EXCEPT ![i] = NoBinding]
  /\ SetState(i, "invalidated")
  /\ UNCHANGED <<manifest, intact, report, materials, evidence, importCall>>

(* Mutation: conflicts are what the report found at its time.                *)
ConflictReported(i) == \E j \in report[i].others : RowsOf(j) # {}
(* Another import of the same run has evidence already.                     *)
Conflict(i) == \E j \in Others(i) : RowsOf(j) # {}

(* The manifest may be evidence, and the metric that the caller names may be *)
(* claimed for it.                                                          *)
Eligible(i) ==
  LET semantics == Manifests[i][manifest[i]].semantics
  IN /\ ScientificCandidate(semantics)
     /\ \E metric \in Metrics : MetricAllowed(semantics, metric)

(* The evidence row says where it was made from; a row of the same source    *)
(* and semantics is written over.                                           *)
InsertEvidence(i) == evidence' = [evidence EXCEPT ![i] = Digest(i)]

(* Mutation: a retry writes its rows again, whatever became of them.         *)
MaterializeAgain(i) ==
  /\ importCall = NoImportCall
  /\ ApprovalValid(i)
  /\ Eligible(i)
  /\ ~ Conflict(i)
  /\ materials' = materials \cup {[import |-> i, key |-> Digest(i)]}
  /\ InsertEvidence(i)
  /\ SetState(i, "materialized")
  /\ UNCHANGED <<manifest, intact, report, approval, importCall>>

(* Evidence, materialisation and state are one transaction.                  *)
Materialize(i) ==
  /\ importCall = NoImportCall
  /\ ApprovalValid(i)
  /\ Eligible(i)
  /\ Consistent
  /\ [import |-> i, key |-> Digest(i)] \notin materials
  /\ ~ Conflict(i)
  /\ materials' = materials \cup {[import |-> i, key |-> Digest(i)]}
  /\ InsertEvidence(i)
  /\ SetState(i, "materialized")
  /\ UNCHANGED <<manifest, intact, report, approval, importCall>>

----------------------------------------------------------------------------
(* Between calls somebody edits, restores or removes the files, or alters    *)
(* the report.                                                              *)
EditManifest(i, content) ==
  /\ importCall = NoImportCall
  /\ manifest[i] # content
  /\ manifest[i] # Missing \/ importState[i] # "ABSENT"
  /\ manifest' = [manifest EXCEPT ![i] = content]
  /\ UNCHANGED <<intact, report, tables, importCall>>

EditSource(i) ==
  /\ importCall = NoImportCall
  /\ intact' = [intact EXCEPT ![i] = ~ @]
  /\ UNCHANGED <<manifest, report, tables, importCall>>

AlterReport(i) ==
  /\ importCall = NoImportCall
  /\ report[i] # NoReport
  /\ report' = [report EXCEPT ![i].genuine = ~ @]
  /\ UNCHANGED <<manifest, intact, tables, importCall>>

KillImport ==
  /\ importCall # NoImportCall
  /\ importCall' = NoImportCall
  /\ UNCHANGED <<manifest, intact, report, tables>>

ImportNext ==
  \/ \E i \in Imports :
       \/ \E version \in Versions : StageFiles(i, version)
       \/ StageRow(i) \/ ValidateReport(i) \/ ValidateRow(i)
       \/ ApproveImport(i) \/ Invalidate(i) \/ Materialize(i)
  \/ \E i \in Edited \cap Imports :
       \/ \E content \in ManifestContents : EditManifest(i, content)
       \/ EditSource(i) \/ AlterReport(i)
  \/ KillImport

ImportSpec == ImportInit /\ [][ImportNext]_importVars

----------------------------------------------------------------------------
(* One scientific run has one measurement: however imports of the same run    *)
(* are staged, edited and approved side by side, evidence is made from one of *)
(* them only, and the others wait for a person (materialize_import raises     *)
(* ConflictError).                                                           *)
OneMeasurementPerRun == \A m, n \in materials :
  Identity[m.import][m.key.version] = Identity[n.import][n.key.version]
    => m.import = n.import

(* Evidence is final: no later report, approval or retry of its import writes *)
(* over the row that claims may cite by now.                                 *)
EvidenceIsFinal == [][\A i \in Imports :
  evidence[i] # NoBinding => evidence'[i] = evidence[i]]_importVars

(* A mismatch is kept for a person to look at: no call makes a store that     *)
(* reconcile_imports finds inconsistent look consistent; only the manifest    *)
(* files coming back do.                                                     *)
MismatchIsKept == [][~ Consistent /\ Consistent' => manifest' # manifest]_importVars
=============================================================================
