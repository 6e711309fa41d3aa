----------------------------- MODULE LedgerQuery -----------------------------
(***************************************************************************)
(* What a result ledger takes from the evidence (result_ledger.py, with the  *)
(* adapters of metric_adapters.py): the observations of the rows a query     *)
(* selects, unless they contradict each other or the query pools what it      *)
(* must not.                                                                *)
(*                                                                         *)
(* A row is a record [imported, semantics, run, how, form, claims, entries].  *)
(* The entries of an imported row are those of its source file, which has a   *)
(* form and may claim semantics of its own; a native row has one entry, or     *)
(* none.  An entry is [metric, unit, is, value], where is tells numbers from  *)
(* text and blanks; equal decimals are equal values, and a file repeats no    *)
(* entry.  What the rows of an aggregate compute is left out; that they may   *)
(* be computed at all is not.                                               *)
(***************************************************************************)
EXTENDS ImportManifest, FiniteSets

CONSTANTS Rows,    \* evidence -> what the row measured
          Queries  \* name -> query

----------------------------------------------------------------------------
(* The adapters.                                                            *)

Whole(o) == Absent \notin {o.metric, o.unit} /\ o.is # "blank"

(* One value, a summary or a table, each with its schema; nothing half read.  *)
Reads(row, form) == row.form = form /\ row.entries # {} /\ \A o \in row.entries : Whole(o)
ReadsValue(row) == Reads(row, "value") /\ Cardinality(row.entries) = 1
ReadsSummary(row) == Reads(row, "summary")
ReadsTable(row) == Reads(row, "table")

Extracts(row) == ReadsValue(row) \/ ReadsSummary(row) \/ ReadsTable(row)

(* The manifest that was approved is the authority, not the file.            *)
Authority(row) == [k \in DOMAIN row.run \cup {"acquisition_origin", "environment_role"} |->
  CASE k = "acquisition_origin" -> row.semantics.origin
    [] k = "environment_role"   -> row.semantics.role
    [] OTHER                    -> row.run[k]]

Contradicts(row) ==
  /\ row.form \in {"value", "summary"}
  /\ \E k \in DOMAIN row.claims : row.claims[k] \notin {Absent, Authority(row)[k]}

(* The metric's name is the file's unless the manifest names it.             *)
Claimable(row) == \A o \in row.entries :
  MetricAllowed(row.semantics, [row.how EXCEPT !.metric = First(@, o.metric)])

(* A source that no adapter reads is passed over unless it was asked for.    *)
Stops(e, query) ==
  LET row == Rows[e]
  IN /\ row.imported
     /\ \/ Contradicts(row)
        \/ ~ Extracts(row) /\ e \in query.selected
        \/ Extracts(row) /\ \E o \in row.entries : o.is = "text"
        \/ Extracts(row) /\ ~ Claimable(row)

----------------------------------------------------------------------------
(* Snapshots.                                                               *)

Wanted(filter, x) == filter = {} \/ x \in filter

InScope(row, o, query) ==
  /\ Absent \notin {o.metric, o.unit}
  /\ KnownWords(row.semantics)
  /\ Wanted(query.metrics, o.metric)
  /\ \A k \in DOMAIN query.runs : row.run[k] = query.runs[k]
  /\ query.purpose = "scientific" =>
       /\ row.semantics.role = "scientific"
       /\ row.semantics.kind # "transcribed"
       /\ Wanted(query.kinds, row.semantics.kind)
       /\ Wanted(query.origins, row.semantics.origin)

Selected(rows, query) == IF query.selected = {} THEN rows ELSE rows \cap query.selected

(* A value that is missing, or is no number in a native row, stays missing.  *)
Snapshot(e, o) ==
  [of |-> e, metric |-> o.metric, unit |-> o.unit, given |-> o.is = "number",
   value |-> o.value, run |-> Rows[e].run, kind |-> Rows[e].semantics.kind]

Observed(row) == IF row.imported /\ ~ Extracts(row) THEN {} ELSE row.entries

Snapshots(rows, query) ==
  UNION {{Snapshot(e, o) : o \in {o \in Observed(Rows[e]) : InScope(Rows[e], o, query)}}
           : e \in Selected(rows, query)}

Given(snapshots) == {s \in snapshots : s.given}

(* Two values for the same quantity: nobody chooses the latest or the best,  *)
(* unless the query asks for an extreme.                                    *)
Conflict(snapshots, query) ==
  LET extremes == {spec.metric : spec \in {x \in query.aggregations : x.reducer \in {"max", "min"}}}
  IN \E s, t \in Given(snapshots) :
       /\ s.metric \notin extremes
       /\ <<s.metric, s.unit, s.run, s.kind>> = <<t.metric, t.unit, t.run, t.kind>>
       /\ s.value # t.value

(* A query has at most one conversion for a metric and a unit.               *)
Convert(s, query) ==
  LET rules == {r \in query.conversions : r.from = s.unit /\ r.metric \in {Absent, s.metric}}
  IN IF rules = {} THEN s
     ELSE LET rule == CHOOSE r \in rules : TRUE
          IN [s EXCEPT !.unit = rule.to, !.value = @ * rule.factor]

----------------------------------------------------------------------------
(* Aggregations.                                                            *)

WellFormed(spec) ==
  /\ spec.metric # Absent
  /\ spec.reducer \in {"mean", "std", "max", "min", "count"}
  /\ spec.reducer = "std" => spec.ddof # Absent

Group(spec, snapshots, s) ==
  {t \in snapshots : t.metric = spec.metric /\ \A k \in spec.group_by : t.run[k] = s.run[k]}

(* Only what the query groups by or crosses may differ among what is pooled, *)
(* kinds of measurement never in a scientific ledger.                        *)
Pools(spec, snapshots, purpose) ==
  LET relevant == {s \in snapshots : s.metric = spec.metric}
  IN relevant # {} =>
       /\ purpose = "scientific" => "measurement_kind" \notin spec.allow_cross
       /\ \A s, t \in Given(relevant) : s.unit = t.unit
       /\ \A s \in relevant :
            LET group == Group(spec, snapshots, s)
            IN /\ \A t \in group, k \in DOMAIN s.run \ (spec.group_by \cup spec.allow_cross) :
                    t.run[k] = s.run[k]
               /\ spec.reducer = "std" /\ Given(group) # {} =>
                    Cardinality(Given(group)) > spec.ddof

----------------------------------------------------------------------------
(* freeze_ledger writes nothing unless the whole query can be answered.      *)
Freezable(rows, query) ==
  LET snapshots == Snapshots(rows, query)
  IN /\ \A spec \in query.aggregations : WellFormed(spec)
     /\ \A e \in Selected(rows, query) : ~ Stops(e, query)
     /\ ~ Conflict(snapshots, query)
     /\ \A spec \in query.aggregations :
          Pools(spec, {Convert(s, query) : s \in snapshots}, query.purpose)

(* The rows that a ledger holds snapshots of.                                *)
Sources(rows, query) == {s.of : s \in Snapshots(rows, query)}
=============================================================================
