------------------------ MODULE ComputeBackendsProofs ------------------------
(***************************************************************************)
(* The compute backends, for every bound on the attempts and executions of   *)
(* a job and wherever the controller dies: only lost attempts are repeated, a *)
(* lost Slurm submission is found again without doubt, verdicts, deadlines   *)
(* and cleanups stand, and each kind keeps the promise of ComputeJob.        *)
(***************************************************************************)
EXTENDS ComputeBackends, WellFoundedInduction, FiniteSetTheorems, TLAPS

Calls == [op : {"none", "submit", "resume", "cancel"},
          pc : {"idle", "launching", "launched", "watched", "deleting", "cancelling"},
          run : 0..MaxRuns, attempt : Attempts]
RunTable == [RunIds -> [attempt : Attempts, state : RunStates]]
Handles == 0..(MaxRuns + 1)

(* What the controller knows is what is saved, but for a plan.              *)
Synced == memory.result \in {NoRow, row} \/ (memory.result = Planned /\ row = NoRow)
Saved == row = NoRow \/ row.status \in Statuses \ {"PLANNED"}
Forgotten == memory.result = NoRow => memory = NoMemory
CallShape ==
  /\ Idle => call = NoCall
  /\ ~ Idle => row # NoRow /\ memory.result = row
  /\ call.run # NoRun => /\ call.pc \in {"launched", "watched"} /\ call.run \in Launched
                         /\ runs[call.run].attempt = call.attempt
NothingYet == row = NoRow => Launched = {}

(* A recorded success is the success of an execution of that attempt.        *)
Won(a) == \E r \in RunIds : runs[r].state = "won" /\ AttemptOf(runs[r].attempt) = AttemptOf(a)
Justified(r) == r.status = "SUCCEEDED" => Won(r.attempt)

(* What holds of the kinds that save every answer: all but the local one.    *)
Remote == Synced /\ Saved /\ Forgotten /\ CallShape /\ NothingYet /\ Justified(Current)

----------------------------------------------------------------------------
(* Results, plans and intents, field by field.                              *)
LEMMA AttemptFacts ==
  0 \in Attempts /\ 1 \in Attempts /\ 0 \in 0..MaxRuns /\ Attempts \subseteq Nat
BY ClientAssumption DEF Attempts

LEMMA NoRowFacts ==
  /\ NoRow \in Rows
  /\ NoRow.status = "NONE" /\ NoRow.attempt = 0 /\ NoRow.run = NoRun
  /\ NoRow.nonce = 0 /\ NoRow.marks = {}
BY AttemptFacts DEF NoRow, Rows, NoRun

LEMMA ResultFacts ==
  ASSUME NEW s \in Statuses, NEW a \in Attempts, NEW n \in 0..MaxRuns
  PROVE  /\ Result(s, a, n) \in Rows
         /\ Result(s, a, n).status = s
         /\ Result(s, a, n).attempt = a
         /\ Result(s, a, n).run = n
         /\ Result(s, a, n).nonce = 0
         /\ Result(s, a, n).marks = {}
BY NoRowFacts DEF Result, Rows

LEMMA PlannedFacts ==
  /\ Planned \in Rows
  /\ Planned.status = "PLANNED" /\ Planned.attempt = 1 /\ Planned.run = NoRun
  /\ Planned.nonce = 0 /\ Planned.marks = {}
<1>1. "PLANNED" \in Statuses
  BY DEF Statuses
<1> QED  BY <1>1, AttemptFacts, ResultFacts DEF Planned, NoRun

LEMMA IntentFacts ==
  ASSUME NEW a \in Attempts
  PROVE  /\ Intent(a) \in Rows
         /\ Intent(a).status = "SUBMITTED" /\ Intent(a).attempt = a
         /\ Intent(a).run = NoRun /\ Intent(a).nonce = 0 /\ Intent(a).marks = {"intent"}
<1> DEFINE x == Result("SUBMITTED", a, NoRun)
<1>1. /\ x \in Rows /\ x.status = "SUBMITTED" /\ x.attempt = a /\ x.run = NoRun
      /\ x.nonce = 0
  BY AttemptFacts, ResultFacts DEF Statuses, NoRun
<1>2. Intent(a) = [x EXCEPT !.marks = {"intent"}]
  BY DEF Intent
<1>3. {"intent"} \in SUBSET Marks
  BY DEF Marks
<1> HIDE DEF x
<1> QED  BY <1>1, <1>2, <1>3 DEF Rows

(* The same result with another status.                                     *)
LEMMA StatusFacts ==
  ASSUME NEW r \in Rows, NEW s \in Statuses
  PROVE  /\ [r EXCEPT !.status = s] \in Rows
         /\ [r EXCEPT !.status = s].status = s
         /\ [r EXCEPT !.status = s].attempt = r.attempt
         /\ [r EXCEPT !.status = s].run = r.run
         /\ [r EXCEPT !.status = s].nonce = r.nonce
         /\ [r EXCEPT !.status = s].marks = r.marks
BY DEF Rows

----------------------------------------------------------------------------
(* There is a next execution to launch until all have been.                 *)
LEMMA FreshFacts ==
  ASSUME Launched # RunIds
  PROVE  FreshRun \in RunIds /\ runs[FreshRun].state = "none"
<1> DEFINE S == RunIds \ Launched
<1>1. S # {} /\ S \subseteq Nat
  BY DEF Launched, RunIds
<1>2. \E n \in S : \A m \in S : ~ (<<m, n>> \in OpToRel(<, Nat))
  BY <1>1, WFMin, NatLessThanWellFounded, Zenon
<1>3. \A m, n \in Nat : m < n => <<m, n>> \in OpToRel(<, Nat)
  BY DEF OpToRel
<1> HIDE DEF S
<1>4. \E n \in S : \A m \in S : n <= m
  <2>1. PICK n \in S : \A m \in S : ~ (<<m, n>> \in OpToRel(<, Nat))
    BY <1>2
  <2>2. \A m \in S : ~ (m < n)
    BY <1>1, <1>3, <2>1
  <2>3. \A m, k \in Nat : ~ (m < k) => k <= m
    OBVIOUS
  <2> QED  BY <1>1, <2>2, <2>3
<1> USE DEF S
<1>5. FreshRun \in S
  BY <1>4 DEF FreshRun
<1> QED  BY <1>5 DEF Launched

(* A launch changes one execution that there was none of.                   *)
LEMMA LaunchFacts ==
  ASSUME runs \in RunTable, call \in Calls, NEW a \in Attempts, NEW s \in {"starting", "running"},
         Launch(a, s)
  PROVE  /\ FreshRun \in RunIds \ Launched
         /\ runs[FreshRun].state = "none"
         /\ runs' \in RunTable
         /\ runs'[FreshRun].attempt = a
         /\ runs'[FreshRun].state = s
         /\ \A r \in RunIds \ {FreshRun} : runs'[r] = runs[r]
         /\ Launched' = Launched \cup {FreshRun}
         /\ call' \in Calls
         /\ call'.pc = "launched" /\ call'.run = FreshRun
         /\ call'.op = call.op /\ call'.attempt = call.attempt
<1>1. FreshRun \in RunIds /\ runs[FreshRun].state = "none"
  BY FreshFacts DEF Launch
<1> DEFINE f == FreshRun
<1>2. f \in RunIds /\ f \notin Launched /\ runs[f].state = "none" /\ f \in 0..MaxRuns
  BY <1>1 DEF Launched, RunIds
<1>3. /\ runs' = [runs EXCEPT ![f] = [attempt |-> a, state |-> s]]
      /\ call' = [call EXCEPT !.pc = "launched", !.run = f]
  BY DEF Launch
<1> HIDE DEF f
<1> DEFINE new == [attempt |-> a, state |-> s]
<1>4. new \in [attempt : Attempts, state : RunStates] /\ new.attempt = a /\ new.state = s
  BY DEF RunStates
<1>5. runs' = [runs EXCEPT ![f] = new]
  BY <1>3
<1> HIDE DEF new
<1>6. runs' \in RunTable /\ runs'[f] = new /\ \A r \in RunIds \ {f} : runs'[r] = runs[r]
  BY <1>2, <1>4, <1>5 DEF RunTable
<1>7. Launched' = Launched \cup {f}
  BY <1>2, <1>4, <1>6 DEF Launched
<1>8. /\ call' \in Calls /\ call'.pc = "launched" /\ call'.run = f
      /\ call'.op = call.op /\ call'.attempt = call.attempt
  BY <1>2, <1>3 DEF Calls
<1> QED  BY <1>2, <1>4, <1>6, <1>7, <1>8 DEF f

(* One execution moves on to another state.                                 *)
LEMMA MoveFacts ==
  ASSUME runs \in RunTable, NEW r \in RunIds, NEW s \in RunStates \ {"none"},
         runs[r].state # "none", MoveRun(r, s)
  PROVE  /\ runs' \in RunTable
         /\ runs'[r].state = s /\ runs'[r].attempt = runs[r].attempt
         /\ \A q \in RunIds \ {r} : runs'[q] = runs[q]
         /\ \A q \in RunIds : runs'[q].attempt = runs[q].attempt
         /\ Launched' = Launched
<1>1. runs[r] \in [attempt : Attempts, state : RunStates]
  BY DEF RunTable
<1> DEFINE new == [runs[r] EXCEPT !.state = s]
<1>2. /\ new \in [attempt : Attempts, state : RunStates]
      /\ new.state = s /\ new.attempt = runs[r].attempt
  BY <1>1
<1>3. runs' = [runs EXCEPT ![r] = new]
  BY DEF MoveRun
<1> HIDE DEF new
<1>4. runs' \in RunTable /\ runs'[r] = new /\ \A q \in RunIds \ {r} : runs'[q] = runs[q]
  BY <1>2, <1>3 DEF RunTable
<1> QED  BY <1>2, <1>4 DEF Launched

----------------------------------------------------------------------------
(* The types that every kind keeps, and the results it knows.               *)
ClientOK == /\ row \in Rows
            /\ memory \in [result : Rows, spec : BOOLEAN, handle : Handles]
            /\ call \in Calls
            /\ runs \in RunTable

LEMMA ClientTypes == ASSUME Saved PROVE ClientTypeOK <=> ClientOK
BY NoRowFacts DEF ClientTypeOK, ClientOK, Calls, RunTable, Handles, Saved

LEMMA CurrentFacts ==
  ASSUME ClientOK, Synced, Saved
  PROVE  /\ Current \in Rows
         /\ Current = row \/ (Current = Planned /\ row = NoRow)
         /\ Known => Current.status \in Statuses
         /\ row # NoRow => Current = row /\ Known /\ Current.status # "PLANNED"
<1>1. "PLANNED" \in Statuses
  BY DEF Statuses
<1> QED  BY <1>1, PlannedFacts, NoRowFacts DEF ClientOK, Synced, Saved, Current, Known

(* Saving an answer: what is known afterwards is the answer.                *)
LEMMA RememberFacts ==
  ASSUME ClientOK, Synced, Saved, NEW r \in Rows, NEW h \in Handles, Remember(r, TRUE, h),
         r.status \in Statuses, r.status # "PLANNED" \/ (r = Planned /\ row = NoRow)
  PROVE  /\ row' \in Rows
         /\ memory' \in [result : Rows, spec : BOOLEAN, handle : Handles]
         /\ memory'.result = r /\ memory'.handle = h
         /\ Current' = r
         /\ Synced' /\ Saved' /\ Forgotten'
         /\ r.status # "PLANNED" => row' = r
         /\ r.status = "PLANNED" => row' = row
         /\ row' # row => row' # NoRow
<1>1. r # NoRow
  BY NoRowFacts DEF Statuses
<1>2. memory' = [result |-> r, spec |-> TRUE, handle |-> h]
  BY DEF Remember
<1>3. Current' = r /\ memory'.result = r /\ memory'.handle = h
  BY <1>1, <1>2 DEF Current
<1>4. row' = IF r # Current /\ r.status # "PLANNED" THEN r ELSE row
  BY DEF Remember
<1>5. r.status # "PLANNED" => row' = r
  BY <1>4, PlannedFacts, CurrentFacts
<1>6. r.status = "PLANNED" => row' = row /\ r = Planned /\ row = NoRow
  BY <1>4
<1>7. row' \in Rows /\ (row' # row => row' # NoRow)
  BY <1>1, <1>5, <1>6 DEF ClientOK
<1> QED
  BY <1>1, <1>2, <1>3, <1>5, <1>6, <1>7 DEF Synced, Saved, Forgotten

(* What a step may do to the executions and to the row: a call or the        *)
(* machine stops some; one succeeds; or one is launched for a job on record, *)
(* which for a named execution is the first of its attempt or follows others *)
(* that no record named and that have ended.                                 *)
LostBefore(r) == (kind \in {"ssh", "docker", "kubernetes"}) =>
                   \A q \in Launched :
                     runs[q].attempt = runs'[r].attempt
                       => kind # "ssh" /\ ~ Alive(q) /\ row.attempt < runs[q].attempt
RunsStop == /\ runs' \in RunTable
            /\ \A r \in RunIds : \/ runs'[r] = runs[r]
                                 \/ Alive(r) /\ runs'[r].state \in {"running", "lost", "stopped"}
SomeStop == /\ RunsStop
            /\ row' = row \/ (row' # NoRow /\ (row'.status = "SUCCEEDED" => Won(row'.attempt)))
OneWins == /\ row' = row
           /\ \E r \in RunIds : /\ Alive(r) /\ runs'[r].state = "won"
                                /\ runs'[r].attempt = runs[r].attempt
                                /\ \A q \in RunIds \ {r} : runs'[q] = runs[q]
OneStarts == /\ row' = row /\ row # NoRow
             /\ \E r \in RunIds : /\ runs[r].state = "none"
                                  /\ runs'[r].state \in {"starting", "running"}
                                  /\ \A q \in RunIds \ {r} : runs'[q] = runs[q]
                                  /\ LostBefore(r)
RunStep == UNCHANGED kind /\ (SomeStop \/ OneWins \/ OneStarts)

(* A deadline and a cleanup, when an attempt stays the one on record.        *)
DeadlineStep == ("timed_out" \in row.marks /\ row'.attempt = row.attempt)
                  => row'.status \in IF kind = "docker" THEN {"FAILED"}
                                     ELSE {"FAILED", "CANCELLED", "UNKNOWN"}
CleanupStep == ({"cleanup_pending", "timeout_pending"} \cap row.marks # {}
                  /\ row'.attempt = row.attempt) => row'.status # "SUCCEEDED"

(* Executions that have succeeded stay, and those that were launched.       *)
RunsKept == /\ runs' \in RunTable
            /\ \A r \in RunIds : runs[r].state = "won" => runs'[r] = runs[r]
            /\ Launched \subseteq Launched'

LEMMA StopKeeps == ASSUME RunsStop PROVE RunsKept /\ Launched' = Launched
BY DEF RunsStop, RunsKept, Launched, Alive

LEMMA StillStops == ASSUME ClientOK, UNCHANGED runs PROVE RunsStop
BY DEF RunsStop, ClientOK

LEMMA WonStays ==
  ASSUME RunsKept, UNCHANGED kind, NEW a
  PROVE  Won(a) => Won(a)'
BY DEF RunsKept, Won, AttemptOf

(* A call saves an answer, and returns, goes on or is between two calls.    *)
LEMMA AnswerKeeps ==
  ASSUME ClientOK, Remote, UNCHANGED kind, NEW r \in Rows, NEW h \in Handles,
         Remember(r, TRUE, h), r.status \in Statuses,
         r.status # "PLANNED" \/ (r = Planned /\ row = NoRow),
         RunsStop, call' \in Calls, call'.run = NoRun,
         call' = NoCall \/ (call'.pc # "idle" /\ r.status # "PLANNED"),
         r.status = "SUCCEEDED" => Won(r.attempt)
  PROVE  /\ ClientOK' /\ Remote' /\ Current' = r /\ Launched' = Launched /\ RunStep
         /\ r.status # "PLANNED" => row' = r
<1>0. RunsKept /\ Launched' = Launched
  BY StopKeeps
<1>1. /\ row' \in Rows /\ memory' \in [result : Rows, spec : BOOLEAN, handle : Handles]
      /\ memory'.result = r /\ Current' = r /\ Synced' /\ Saved' /\ Forgotten'
      /\ (r.status # "PLANNED" => row' = r) /\ (row' # row => row' # NoRow)
      /\ (r.status = "PLANNED" => row' = row)
  BY RememberFacts DEF Remote
<1>2. ClientOK'
  BY <1>0, <1>1 DEF ClientOK, RunsKept
<1>3. r # NoRow
  BY NoRowFacts DEF Statuses
<1>4. CallShape'
  BY <1>1, <1>3 DEF CallShape, Idle, NoCall
<1>5. NothingYet'
  BY <1>0, <1>1 DEF Remote, NothingYet
<1>6. Justified(Current)'
  BY <1>0, <1>1, WonStays DEF Justified
<1>7. SomeStop
  <2>1. CASE r.status = "PLANNED"
    BY <2>1, <1>1 DEF SomeStop
  <2>2. CASE r.status # "PLANNED"
    BY <2>2, <1>1, <1>3 DEF SomeStop
  <2> QED  BY <2>1, <2>2
<1> QED  BY <1>0, <1>1, <1>2, <1>4, <1>5, <1>6, <1>7 DEF Remote, RunStep

(* A step that saves nothing.                                               *)
LEMMA QuietKeeps ==
  ASSUME ClientOK, Remote, UNCHANGED <<row, memory, kind>>, RunsKept,
         row = NoRow => Launched' = Launched,
         call' \in Calls,
         call' = NoCall \/ (call'.pc # "idle" /\ ~ Idle) \/ call' = call,
         call'.run # NoRun => /\ call'.pc \in {"launched", "watched"} /\ call'.run \in Launched'
                              /\ runs'[call'.run].attempt = call'.attempt
  PROVE  ClientOK' /\ Remote' /\ Current' = Current
<1>1. Current' = Current
  BY DEF Current
<1>2. ClientOK'
  BY DEF ClientOK, RunsKept
<1>3. Synced' /\ Saved' /\ Forgotten'
  BY DEF Remote, Synced, Saved, Forgotten
<1>4. CallShape'
  BY DEF Remote, CallShape, Idle, NoCall
<1>5. NothingYet'
  BY DEF Remote, NothingYet
<1>6. Justified(Current)'
  BY <1>1, WonStays DEF Remote, Justified
<1> QED  BY <1>1, <1>2, <1>3, <1>4, <1>5, <1>6 DEF Remote

(* What a step leaves known when the next call begins with a new controller, *)
(* or a submit is refused: the row, or a plan when there is no row.          *)
LEMMA ReopenFacts ==
  ASSUME ClientOK, Remote, Reopen, UNCHANGED kind
  PROVE  /\ ClientOK' /\ Remote' /\ Current' = row /\ call' = NoCall /\ row' = row
         /\ row = NoRow => Launched = {}
         /\ row # NoRow => Current = row
         /\ UNCHANGED <<runs, site>> /\ memory' = NoMemory /\ RunStep
<1>1. /\ memory' = NoMemory /\ call' = NoCall /\ UNCHANGED <<row, runs, site>>
      /\ Current' = row
  BY DEF Reopen, Return, Current, NoMemory
<1>2. NoMemory \in [result : Rows, spec : BOOLEAN, handle : Handles]
  BY NoRowFacts, ClientAssumption DEF NoMemory, Handles
<1>3. NoCall \in Calls
  BY AttemptFacts DEF NoCall, Calls, NoRun
<1>4. ClientOK'
  BY <1>1, <1>2, <1>3 DEF ClientOK
<1>5. Synced' /\ Saved' /\ Forgotten' /\ NothingYet' /\ CallShape'
  BY <1>1 DEF Remote, Synced, Saved, Forgotten, NothingYet, Launched, CallShape, NoMemory,
              NoCall, Idle
<1>6. Justified(Current)'
  <2>1. CASE row = NoRow
    BY <1>1, <2>1, NoRowFacts DEF Justified
  <2>2. CASE row # NoRow
    <3>1. Current = row
      BY <2>2, CurrentFacts DEF Remote
    <3> QED  BY <1>1, <3>1 DEF Remote, Justified, Won, AttemptOf
  <2> QED  BY <2>1, <2>2
<1>7. RunStep
  BY <1>1, StillStops DEF RunStep, SomeStop
<1>8. row # NoRow => Current = row
  BY CurrentFacts DEF Remote
<1> QED  BY <1>1, <1>4, <1>5, <1>6, <1>7, <1>8 DEF Remote, NothingYet

LEMMA NotKnownFacts ==
  ASSUME Remote, ~ Known
  PROVE  /\ row = NoRow /\ Launched = {} /\ memory = NoMemory /\ Current = NoRow
         /\ call = NoCall
<1>1. memory.result = NoRow /\ row = NoRow
  BY DEF Known, Current
<1> QED
  BY <1>1 DEF Remote, Forgotten, NothingYet, CallShape, Current

LEMMA BeginSubmitFacts ==
  ASSUME ClientOK, Remote, BeginSubmit, UNCHANGED kind
  PROVE  /\ ClientOK' /\ Remote' /\ Current' = Intent(1) /\ row' = Intent(1)
         /\ Launched = {} /\ row = NoRow /\ Current = NoRow
         /\ call' = [op |-> "submit", pc |-> "launching", run |-> NoRun, attempt |-> 1]
         /\ memory'.handle = 0 /\ UNCHANGED <<runs, site>> /\ RunStep
<1>1. row = NoRow /\ Launched = {} /\ memory = NoMemory /\ Current = NoRow
  BY NotKnownFacts DEF BeginSubmit
<1>2. /\ Intent(1) \in Rows /\ Intent(1).status = "SUBMITTED"
  BY AttemptFacts, IntentFacts
<1>3. 0 \in Handles /\ memory.handle = 0
  BY <1>1, ClientAssumption DEF NoMemory, Handles
<1>4. /\ Remember(Intent(1), TRUE, 0) /\ UNCHANGED <<runs, site>>
      /\ call' = [op |-> "submit", pc |-> "launching", run |-> NoRun, attempt |-> 1]
  BY <1>3 DEF BeginSubmit, Begin
<1>5. call' \in Calls /\ call'.run = NoRun /\ call'.pc # "idle"
  BY <1>4, AttemptFacts DEF Calls, NoRun
<1>6. RunsStop
  BY <1>4, StillStops
<1>7. "SUBMITTED" \in Statuses
  BY DEF Statuses
<1>8. ClientOK' /\ Remote' /\ Current' = Intent(1) /\ RunStep
  BY <1>2, <1>3, <1>4, <1>5, <1>6, <1>7, AnswerKeeps
<1>9. row' = Intent(1) /\ memory'.handle = 0
  BY <1>2, <1>3, <1>4, <1>7, RememberFacts DEF Remote
<1> QED  BY <1>1, <1>4, <1>8, <1>9

LEMMA SubmitRefusedFacts ==
  ASSUME ClientOK, Remote, SubmitRefused, UNCHANGED kind
  PROVE  /\ ClientOK' /\ Remote' /\ Current' = Planned /\ row' = NoRow
         /\ Launched = {} /\ Launched' = {} /\ row = NoRow /\ Current = NoRow
         /\ call' = call /\ call = NoCall /\ UNCHANGED <<runs, site>> /\ RunStep
<1>1. /\ row = NoRow /\ Launched = {} /\ memory = NoMemory /\ Current = NoRow
      /\ call = NoCall
  BY NotKnownFacts DEF SubmitRefused
<1>2. 0 \in Handles /\ memory.handle = 0
  BY <1>1, ClientAssumption DEF NoMemory, Handles
<1>3. Remember(Planned, TRUE, 0) /\ UNCHANGED <<call, runs, site>>
  BY <1>2 DEF SubmitRefused
<1>4. RunsStop
  BY <1>3, StillStops
<1>5. "PLANNED" \in Statuses
  BY DEF Statuses
<1>6. call' \in Calls /\ call'.run = NoRun
  BY <1>1, <1>3 DEF ClientOK, NoCall
<1>7. ClientOK' /\ Remote' /\ Current' = Planned /\ Launched' = Launched /\ RunStep
  BY <1>1, <1>2, <1>3, <1>4, <1>5, <1>6, PlannedFacts, AnswerKeeps
<1>8. row' = NoRow
  BY <1>1, <1>3, PlannedFacts DEF Remember
<1> QED  BY <1>1, <1>3, <1>4, <1>7, <1>8

----------------------------------------------------------------------------
(* The job as ComputeJob sees it.                                           *)
States == [r \in RunIds |-> IF runs[r].state = "none" THEN "none"
                            ELSE IF Alive(r) THEN "alive" ELSE "over"]
WonAttempts == {AttemptOf(runs[r].attempt) : r \in {q \in RunIds : runs[q].state = "won"}}
RecordOf(x) == [attempt |-> AttemptOf(x.attempt),
                verdict |-> IF x = NoRow THEN "none"
                            ELSE IF x.status = "SUCCEEDED" THEN "succeeded"
                            ELSE IF Terminal(x) THEN "closed" ELSE "open"]

LEMMA JobActions ==
  ASSUME NEW r, NEW a, NEW ended
  PROVE  /\ Job!LaunchRun(r) <=> /\ RecordOf(row) # Job!NoRecord /\ States[r] = "none"
                                 /\ States' = [States EXCEPT ![r] = "alive"]
                                 /\ WonAttempts' = WonAttempts /\ RecordOf(row)' = RecordOf(row)
         /\ Job!RunWins(r, a) <=> /\ States[r] = "alive"
                                  /\ States' = [q \in RunIds |-> IF q \in {r} THEN "over" ELSE States[q]]
                                  /\ WonAttempts' = WonAttempts \cup {a}
                                  /\ RecordOf(row)' = RecordOf(row)
         /\ Job!RunsEnd(ended) <=> /\ \A q \in ended : States[q] = "alive"
                                   /\ States' = [q \in RunIds |-> IF q \in ended THEN "over" ELSE States[q]]
                                   /\ WonAttempts' = WonAttempts /\ RecordOf(row)' = RecordOf(row)
         /\ Job!RecordVerdict(ended, a) <=>
               /\ \A q \in ended : States[q] = "alive"
               /\ States' = [q \in RunIds |-> IF q \in ended THEN "over" ELSE States[q]]
               /\ a.verdict = "succeeded" => a.attempt \in WonAttempts
               /\ RecordOf(row)' = a
               /\ WonAttempts' = WonAttempts
<1>1. Job!LaunchRun(r) <=> /\ RecordOf(row) # Job!NoRecord /\ States[r] = "none"
                           /\ States' = [States EXCEPT ![r] = "alive"]
                           /\ WonAttempts' = WonAttempts /\ RecordOf(row)' = RecordOf(row)
  BY DEF Job!LaunchRun, States, WonAttempts, RecordOf
<1>2. Job!RunWins(r, a) <=> /\ States[r] = "alive"
                            /\ States' = [q \in RunIds |-> IF q \in {r} THEN "over" ELSE States[q]]
                            /\ WonAttempts' = WonAttempts \cup {a}
                            /\ RecordOf(row)' = RecordOf(row)
  BY DEF Job!RunWins, Job!EndRuns, States, WonAttempts, RecordOf
<1>3. Job!RunsEnd(ended) <=>
        /\ \A q \in ended : States[q] = "alive"
        /\ States' = [q \in RunIds |-> IF q \in ended THEN "over" ELSE States[q]]
        /\ WonAttempts' = WonAttempts /\ RecordOf(row)' = RecordOf(row)
  BY DEF Job!RunsEnd, Job!EndRuns, States, WonAttempts, RecordOf
<1>4. Job!RecordVerdict(ended, a) <=>
        /\ \A q \in ended : States[q] = "alive"
        /\ States' = [q \in RunIds |-> IF q \in ended THEN "over" ELSE States[q]]
        /\ a.verdict = "succeeded" => a.attempt \in WonAttempts
        /\ RecordOf(row)' = a
        /\ WonAttempts' = WonAttempts
  BY DEF Job!RecordVerdict, Job!EndRuns, States, WonAttempts, RecordOf
<1> QED  BY <1>1, <1>2, <1>3, <1>4

LEMMA RecordFacts ==
  ASSUME NEW x \in Rows
  PROVE  /\ RecordOf(x) = Job!NoRecord <=> x = NoRow
         /\ x # NoRow => RecordOf(x) \in Job!Records
         /\ RecordOf(x).verdict = "succeeded" <=> x # NoRow /\ x.status = "SUCCEEDED"
         /\ RecordOf(x).attempt = AttemptOf(x.attempt)
<1>1. AttemptOf(x.attempt) \in Attempts
  BY AttemptFacts DEF AttemptOf, Rows
<1>2. x = NoRow => AttemptOf(x.attempt) = 0
  BY NoRowFacts DEF AttemptOf
<1> QED
  BY <1>1, <1>2 DEF RecordOf, Job!NoRecord, Job!Records

(* Every such step is a step of the promise.                                *)
LEMMA JobStep ==
  ASSUME ClientOK, row' \in Rows, runs' \in RunTable, RunStep
  PROVE  Job!JobNext \/ UNCHANGED Job!jobVars
<1>0. PICK ended \in SUBSET RunIds :
        ended = {r \in RunIds : Alive(r) /\ runs'[r].state \notin {"starting", "running"}}
  OBVIOUS
<1>1. /\ runs \in RunTable /\ UNCHANGED kind
      /\ \A r \in RunIds : runs[r].state \in RunStates /\ runs'[r].state \in RunStates
  BY DEF ClientOK, RunTable, RunStep
<1>2. row' = row => RecordOf(row)' = RecordOf(row)
  BY <1>1 DEF RecordOf, AttemptOf, Terminal
<1>3. \A r \in ended : States[r] = "alive"
  BY <1>0, <1>1 DEF States, Alive
<1>4. CASE SomeStop
  <2>1. States' = [r \in RunIds |-> IF r \in ended THEN "over" ELSE States[r]]
    BY <1>0, <1>1, <1>4 DEF SomeStop, RunsStop, States, Alive
  <2>2. WonAttempts' = WonAttempts
    <3>1. \A r \in RunIds : /\ runs[r].state = "won" <=> runs'[r].state = "won"
                            /\ runs[r].state = "won" => runs'[r] = runs[r]
      BY <1>1, <1>4 DEF SomeStop, RunsStop, Alive
    <3> QED  BY <1>1, <3>1 DEF WonAttempts, AttemptOf
  <2>3. CASE row' = row
    <3>1. Job!RunsEnd(ended)
      BY <1>2, <1>3, <2>1, <2>2, <2>3, JobActions
    <3> QED  BY <3>1 DEF Job!JobNext
  <2>4. CASE row' # row
    <3>0. PICK new : new = RecordOf(row')
      OBVIOUS
    <3>1. new \in Job!Records
      BY <1>4, <2>4, <3>0, RecordFacts DEF SomeStop
    <3>2. new.verdict = "succeeded" => new.attempt \in WonAttempts
      BY <1>4, <2>4, <3>0, RecordFacts DEF SomeStop, Won, WonAttempts
    <3>3. RecordOf(row)' = new
      BY <1>1, <3>0 DEF RecordOf, AttemptOf, Terminal
    <3>4. Job!RecordVerdict(ended, new)
      BY <1>3, <2>1, <2>2, <3>2, <3>3, JobActions
    <3> QED  BY <3>1, <3>4 DEF Job!JobNext
  <2> QED  BY <2>3, <2>4
<1>5. CASE OneWins
  <2>1. PICK r \in RunIds : /\ Alive(r) /\ runs'[r].state = "won"
                            /\ runs'[r].attempt = runs[r].attempt
                            /\ \A q \in RunIds \ {r} : runs'[q] = runs[q]
    BY <1>5 DEF OneWins
  <2>2. /\ States[r] = "alive"
        /\ States' = [q \in RunIds |-> IF q \in {r} THEN "over" ELSE States[q]]
    BY <1>1, <2>1 DEF States, Alive
  <2>3. WonAttempts' = WonAttempts \cup {AttemptOf(runs[r].attempt)}
    <3>1. {q \in RunIds : runs'[q].state = "won"} = {q \in RunIds : runs[q].state = "won"} \cup {r}
      BY <2>1 DEF Alive
    <3>2. \A q \in RunIds : runs'[q].attempt = runs[q].attempt
      BY <2>1
    <3> QED  BY <1>1, <3>1, <3>2 DEF WonAttempts, AttemptOf
  <2>4. PICK a \in Attempts : a = AttemptOf(runs[r].attempt)
    BY <1>1, AttemptFacts DEF AttemptOf, RunTable
  <2>5. Job!RunWins(r, a)
    BY <1>2, <1>5, <2>2, <2>3, <2>4, JobActions DEF OneWins
  <2> QED  BY <2>4, <2>5 DEF Job!JobNext
<1>6. CASE OneStarts
  <2>1. PICK r \in RunIds : /\ runs[r].state = "none"
                            /\ runs'[r].state \in {"starting", "running"}
                            /\ \A q \in RunIds \ {r} : runs'[q] = runs[q]
    BY <1>6 DEF OneStarts
  <2>2. States[r] = "none" /\ States' = [States EXCEPT ![r] = "alive"]
    BY <1>1, <2>1 DEF States, Alive
  <2>3. WonAttempts' = WonAttempts
    <3>1. {q \in RunIds : runs'[q].state = "won"} = {q \in RunIds : runs[q].state = "won"}
      BY <2>1
    <3>2. \A q \in RunIds : runs[q].state = "won" => runs'[q].attempt = runs[q].attempt
      BY <2>1
    <3> QED  BY <1>1, <3>1, <3>2 DEF WonAttempts, AttemptOf
  <2>4. RecordOf(row) # Job!NoRecord
    BY <1>6, RecordFacts DEF OneStarts, ClientOK
  <2>5. Job!LaunchRun(r)
    BY <1>2, <1>6, <2>2, <2>3, <2>4, JobActions DEF OneStarts
  <2> QED  BY <2>5 DEF Job!JobNext
<1> QED  BY <1>4, <1>5, <1>6 DEF RunStep

----------------------------------------------------------------------------
(* Attempts whose executions have names of their own: one that runs holds its *)
(* name, and the attempt being launched is beyond the one on record.         *)
NextAttempt == IF call.op = "submit" THEN Current.attempt ELSE Current.attempt + 1
Reserved(there) ==
  /\ ~ Idle => call.attempt = NextAttempt
  /\ \A r \in Launched : Alive(r) => r \in there
  /\ call.op = "submit" /\ call.pc = "launching" => Launched = {}

Holds(r, before, after) == Alive(r)' => Alive(r) /\ (r \in before => r \in after)

(* Kubernetes: the Job of every execution that runs is there.                *)
KubernetesInv ==
  /\ call.pc \in {"idle", "deleting", "launching", "launched"}
  /\ call.pc = "deleting" => call.op # "submit"
  /\ Reserved(site)
  /\ site \subseteq Launched
  /\ Current.marks \subseteq {"intent"}

LEMMA KubernetesNames ==
  /\ K!Current = Current /\ K!Idle = Idle /\ K!Known = Known /\ K!Resumable = Resumable
  /\ K!RunIds = RunIds /\ K!NoRun = NoRun /\ K!Launched = Launched /\ K!FreshRun = FreshRun
  /\ K!NoCall = NoCall /\ K!NoRow = NoRow /\ K!NoMemory = NoMemory /\ K!Return = Return
  /\ \A s, a, n : K!Result(s, a, n) = Result(s, a, n)
  /\ \A a : K!Intent(a) = Intent(a)
  /\ \A r : (K!Alive(r) <=> Alive(r)) /\ (K!Active(r) <=> Active(r)) /\ (K!Terminal(r) <=> Terminal(r))
  /\ \A r, b, h : K!Remember(r, b, h) <=> Remember(r, b, h)
  /\ \A o, p, a : K!Begin(o, p, a) <=> Begin(o, p, a)
  /\ \A a, s : K!Launch(a, s) <=> Launch(a, s)
  /\ \A r, s : K!MoveRun(r, s) <=> MoveRun(r, s)
  /\ K!BeginSubmit = BeginSubmit /\ K!SubmitRefused = SubmitRefused /\ K!Reopen = Reopen
<1>1. /\ K!Current = Current /\ K!NoRun = NoRun /\ K!RunIds = RunIds /\ K!NoCall = NoCall
      /\ K!NoRow = NoRow /\ K!NoMemory = NoMemory
  BY DEF K!Current, Current, K!NoRow, NoRow, K!NoRun, NoRun, K!RunIds, RunIds,
         K!NoCall, NoCall, K!NoMemory, NoMemory
<1>2. K!Idle = Idle /\ K!Known = Known /\ K!Resumable = Resumable
  BY <1>1 DEF K!Known, Known, K!Idle, Idle, K!Resumable, Resumable
<1>3. K!Launched = Launched
  BY <1>1 DEF K!Launched, Launched
<1>4. K!FreshRun = FreshRun
  BY <1>1, <1>3 DEF K!FreshRun, FreshRun
<1>5. \A s, a, n : K!Result(s, a, n) = Result(s, a, n)
  BY <1>1 DEF K!Result, Result
<1>6. \A a : K!Intent(a) = Intent(a)
  BY <1>1, <1>5 DEF K!Intent, Intent
<1>7. \A r : (K!Alive(r) <=> Alive(r)) /\ (K!Active(r) <=> Active(r)) /\ (K!Terminal(r) <=> Terminal(r))
  BY DEF K!Alive, Alive, K!Active, Active, K!Terminal, Terminal
<1>8. \A r, b, h : K!Remember(r, b, h) <=> Remember(r, b, h)
  BY <1>1 DEF K!Remember, Remember
<1>9. K!Return = Return /\ \A o, p, a : K!Begin(o, p, a) <=> Begin(o, p, a)
  BY <1>1 DEF K!Begin, Begin, K!Return, Return
<1>10. /\ \A a, s : K!Launch(a, s) <=> Launch(a, s)
       /\ \A r, s : K!MoveRun(r, s) <=> MoveRun(r, s)
  BY <1>1, <1>3, <1>4 DEF K!Launch, Launch, K!MoveRun, MoveRun
<1>11. K!BeginSubmit = BeginSubmit /\ K!SubmitRefused = SubmitRefused /\ K!Reopen = Reopen
  BY <1>1, <1>2, <1>5, <1>6
  DEF K!BeginSubmit, BeginSubmit, K!SubmitRefused, SubmitRefused, K!Reopen, Reopen,
      K!Remember, Remember, K!Begin, Begin, K!Planned, Planned, K!Return, Return
<1> QED  BY <1>1, <1>2, <1>3, <1>4, <1>5, <1>6, <1>7, <1>8, <1>9, <1>10, <1>11

KubernetesOK == /\ kind = "kubernetes" /\ ClientOK /\ Remote
                /\ site \in SUBSET RunIds /\ KubernetesInv

(* What kubectl answers of the Job that is known.                           *)
LEMMA KubernetesAnswers ==
  ASSUME KubernetesOK, NEW s \in K!Answers
  PROVE  s \in Statuses \ {"PLANNED"} /\ (s = "SUCCEEDED" => Won(Current.attempt))
<1>1. s \in {"UNKNOWN", "RUNNING", "SUCCEEDED", "FAILED"}
  BY DEF K!Answers, K!JobState
<1>2. ASSUME s = "SUCCEEDED" PROVE Won(Current.attempt)
  <2>1. PICK r \in K!JobsOf(K!Current.attempt) : s = K!JobState(r)
    BY <1>2 DEF K!Answers
  <2>2. r \in RunIds /\ runs[r].state = "won" /\ runs[r].attempt = Current.attempt
    BY <1>2, <2>1, KubernetesNames DEF K!JobsOf, K!JobState, KubernetesOK
  <2> QED  BY <2>2 DEF Won
<1> QED  BY <1>1, <1>2 DEF Statuses

(* kubectl delete stops the executions of an attempt and removes their Jobs. *)
LEMMA KubernetesDelete ==
  ASSUME KubernetesOK, NEW a, K!Delete(a)
  PROVE  /\ RunsStop
         /\ \A r \in RunIds : runs'[r].attempt = runs[r].attempt
         /\ site' \subseteq site /\ \A r \in RunIds : Holds(r, site, site')
<1>1. /\ site' = site \ K!JobsOf(a)
      /\ runs' = [r \in RunIds |-> IF r \in K!JobsOf(a) /\ Alive(r)
                                     THEN [runs[r] EXCEPT !.state = "stopped"] ELSE runs[r]]
  BY KubernetesNames DEF K!Delete
<1>2. \A r \in RunIds : LET new == [runs[r] EXCEPT !.state = "stopped"]
                        IN /\ new \in [attempt : Attempts, state : RunStates]
                           /\ new.attempt = runs[r].attempt /\ new.state = "stopped"
  BY DEF KubernetesOK, ClientOK, RunTable, RunStates
<1>3. \A r \in RunIds : \/ runs'[r] = runs[r]
                        \/ /\ Alive(r) /\ runs'[r].state = "stopped"
                           /\ runs'[r].attempt = runs[r].attempt
                           /\ runs'[r] \in [attempt : Attempts, state : RunStates]
  BY <1>1, <1>2
<1>4. runs' \in RunTable
  BY <1>1, <1>3 DEF KubernetesOK, ClientOK, RunTable
<1>5. \A r \in K!JobsOf(a) : ~ Alive(r)'
  BY <1>1, <1>2 DEF KubernetesOK, K!JobsOf, Alive
<1>6. \A r \in RunIds : Holds(r, site, site')
  BY <1>1, <1>3, <1>5 DEF Holds, Alive
<1> QED  BY <1>1, <1>3, <1>4, <1>6 DEF RunsStop

(* A step that launches nothing and deletes no Job of one that runs on.       *)
LEMMA KubernetesReserved ==
  ASSUME KubernetesOK, ClientOK', Remote', UNCHANGED kind, Launched' = Launched,
         \A r \in RunIds : runs'[r].attempt = runs[r].attempt,
         site' \subseteq site, \A r \in RunIds : Holds(r, site, site'),
         Current'.marks \subseteq {"intent"},
         \/ call' = NoCall
         \/ /\ call'.pc = call.pc /\ call'.op = call.op /\ call'.attempt = call.attempt
            /\ Current'.attempt = Current.attempt
         \/ /\ call'.pc \in {"deleting", "launching", "launched"}
            /\ call'.op = "submit" => call'.pc = "launched"
            /\ call'.attempt = NextAttempt'
  PROVE  KubernetesOK'
<1>1. Launched \subseteq RunIds
  BY DEF Launched
<1>2. \A r \in Launched' : Alive(r)' => r \in site'
  BY <1>1 DEF KubernetesOK, KubernetesInv, Reserved, Holds
<1>3. Reserved(site)'
  BY <1>2 DEF KubernetesOK, KubernetesInv, Reserved, Idle, NextAttempt, NoCall
<1> QED
  BY <1>3 DEF KubernetesOK, KubernetesInv, NoCall

(* An answer is saved for the known attempt: what status, cancel and resume  *)
(* have in common, with the Jobs of that attempt deleted or not.             *)
LEMMA KubernetesAnswered ==
  ASSUME KubernetesOK, UNCHANGED kind, Idle, Known,
         NEW s \in Statuses \ {"PLANNED"}, NEW r, r = [Current EXCEPT !.status = s],
         NEW h, h = memory.handle, Remember(r, TRUE, h),
         s = "SUCCEEDED" => Won(Current.attempt),
         \/ UNCHANGED <<runs, site>>
         \/ \E a : a = Current.attempt /\ K!Delete(a),
         \/ call' = call \/ call' = NoCall
         \/ call' = [op |-> "resume", pc |-> "deleting", run |-> NoRun,
                     attempt |-> Current.attempt + 1] /\ Current.attempt < MaxAttempt
  PROVE  KubernetesOK' /\ RunStep
<1>1. Current \in Rows /\ h \in Handles /\ call = NoCall
  BY CurrentFacts DEF KubernetesOK, Remote, ClientOK, CallShape
<1>2. /\ r \in Rows /\ r.status = s /\ r.attempt = Current.attempt /\ r.marks = Current.marks
  BY <1>1, StatusFacts
<1>3. /\ RunsStop /\ \A q \in RunIds : runs'[q].attempt = runs[q].attempt
      /\ site' \subseteq site /\ \A q \in RunIds : Holds(q, site, site')
  <2>1. CASE UNCHANGED <<runs, site>>
    BY <2>1, StillStops DEF KubernetesOK, Holds, Alive
  <2>2. CASE \E a : a = Current.attempt /\ K!Delete(a)
    BY <2>2, KubernetesDelete
  <2> QED  BY <2>1, <2>2
<1>4. call' \in Calls /\ call'.run = NoRun /\ (call' = NoCall \/ call'.pc # "idle")
  <2>1. Current.attempt < MaxAttempt => Current.attempt + 1 \in Attempts
    BY <1>1, ClientAssumption DEF Rows, Attempts
  <2>2. NoCall \in Calls /\ NoCall.run = NoRun
    BY AttemptFacts DEF Calls, NoCall, NoRun
  <2>3. ASSUME NEW a \in Attempts
        PROVE  LET x == [op |-> "resume", pc |-> "deleting", run |-> NoRun, attempt |-> a]
               IN x \in Calls /\ x.run = NoRun /\ x.pc # "idle"
    BY AttemptFacts DEF Calls, NoRun
  <2>4. CASE call' = NoCall \/ call' = call
    BY <1>1, <2>2, <2>4
  <2>5. CASE call' \notin {NoCall, call}
    <3>1. PICK a \in Attempts :
            call' = [op |-> "resume", pc |-> "deleting", run |-> NoRun, attempt |-> a]
      BY <2>1, <2>5
    <3> QED  BY <2>3, <3>1
  <2> QED  BY <2>4, <2>5
<1>5. ClientOK' /\ Remote' /\ Current' = r /\ Launched' = Launched /\ RunStep
  <2>1. s = "SUCCEEDED" => Won(r.attempt)
    BY <1>2 DEF Won
  <2> QED  BY <1>1, <1>2, <1>3, <1>4, <2>1, AnswerKeeps DEF KubernetesOK
<1>6. KubernetesOK'
  <2>1. KubernetesInv
    BY DEF KubernetesOK
  <2> QED
    BY <1>1, <1>2, <1>3, <1>5, <2>1, KubernetesReserved DEF KubernetesInv, NextAttempt
<1> QED  BY <1>5, <1>6

(* A call fails, or its Job has been applied: the new attempt is known.       *)
LEMMA KubernetesReturned ==
  ASSUME KubernetesOK, UNCHANGED kind, ~ Idle, call' = NoCall,
         RunsStop, \A q \in RunIds : runs'[q].attempt = runs[q].attempt,
         site' \subseteq site, \A q \in RunIds : Holds(q, site, site'),
         \/ UNCHANGED <<row, memory>>
         \/ \E h, a : \E s \in {"FAILED", "SUBMITTED"} :
              h = memory.handle /\ a = call.attempt /\ Remember(Result(s, a, NoRun), TRUE, h)
  PROVE  KubernetesOK' /\ RunStep
<1>1. Current \in Rows /\ memory.handle \in Handles /\ call.attempt \in Attempts
  BY CurrentFacts DEF KubernetesOK, Remote, ClientOK, Calls
<1>2. NoCall \in Calls /\ NoCall.run = NoRun /\ NoRun \in 0..MaxRuns
  BY AttemptFacts DEF Calls, NoCall, NoRun
<1>3. RunsKept /\ Launched' = Launched
  BY StopKeeps
<1>4. CASE UNCHANGED <<row, memory>>
  <2>1. ClientOK' /\ Remote' /\ Current' = Current
    BY <1>2, <1>3, <1>4, QuietKeeps DEF KubernetesOK
  <2>2. RunStep
    BY <1>4 DEF RunStep, SomeStop
  <2>3. KubernetesOK'
    BY <1>3, <2>1, KubernetesReserved DEF KubernetesOK, KubernetesInv
  <2> QED  BY <2>2, <2>3
<1>5. CASE \E h, a : \E s \in {"FAILED", "SUBMITTED"} :
             h = memory.handle /\ a = call.attempt /\ Remember(Result(s, a, NoRun), TRUE, h)
  <2>1. PICK h \in Handles, a \in Attempts, s \in {"FAILED", "SUBMITTED"} :
               h = memory.handle /\ a = call.attempt /\ Remember(Result(s, a, NoRun), TRUE, h)
    BY <1>1, <1>5
  <2>2. PICK r \in Rows : /\ r = Result(s, a, NoRun) /\ r.status = s /\ r.attempt = a
                          /\ r.marks = {} /\ s \in Statuses
    BY <1>2, ResultFacts DEF Statuses
  <2>3. ClientOK' /\ Remote' /\ Current' = r /\ Launched' = Launched /\ RunStep
    BY <1>2, <2>1, <2>2, AnswerKeeps DEF KubernetesOK
  <2>4. KubernetesOK'
    BY <2>1, <2>2, <2>3, KubernetesReserved
  <2> QED  BY <2>3, <2>4
<1> QED  BY <1>4, <1>5

(* kubectl apply: a Job that is there stays, or the attempt's first starts.   *)
LEMMA KubernetesApply ==
  ASSUME KubernetesOK, UNCHANGED kind, K!Apply
  PROVE  KubernetesOK' /\ RunStep
<1>1. /\ call.pc = "launching" /\ UNCHANGED <<row, memory>> /\ ~ Idle /\ row # NoRow
      /\ call \in Calls /\ runs \in RunTable /\ call.attempt = NextAttempt
  BY DEF K!Apply, KubernetesOK, Remote, CallShape, Idle, ClientOK, KubernetesInv, Reserved
<1>2. Current \in Rows /\ Current.attempt \in Nat /\ call.attempt \in Attempts
  BY CurrentFacts, AttemptFacts DEF KubernetesOK, Remote, Rows, ClientOK, Calls
<1>3. CASE K!JobsOf(call.attempt) # {}
  <2>1. /\ call' = [call EXCEPT !.pc = "launched"] /\ UNCHANGED <<runs, site>>
    BY <1>3 DEF K!Apply, K!Goto
  <2>2. /\ call' \in Calls /\ call'.pc = "launched" /\ call'.op = call.op
        /\ call'.attempt = call.attempt /\ call'.run = call.run
    BY <1>1, <2>1 DEF Calls
  <2>3. call.run = NoRun
    BY <1>1 DEF KubernetesOK, Remote, CallShape
  <2>4. /\ RunsStop /\ RunsKept /\ Launched' = Launched
        /\ \A q \in RunIds : Holds(q, site, site')
    BY <2>1, StillStops, StopKeeps DEF KubernetesOK, Holds, Alive
  <2>5. ClientOK' /\ Remote' /\ Current' = Current
    BY <1>1, <2>2, <2>3, <2>4, QuietKeeps DEF KubernetesOK
  <2>6. RunStep
    BY <1>1, <2>4 DEF RunStep, SomeStop
  <2>7. NextAttempt' = NextAttempt
    BY <2>2, <2>5 DEF NextAttempt
  <2>8. KubernetesOK'
    BY <1>1, <2>1, <2>2, <2>4, <2>5, <2>7, KubernetesReserved DEF KubernetesOK, KubernetesInv
  <2> QED  BY <2>6, <2>8
<1>4. CASE K!JobsOf(call.attempt) = {}
  <2>1. PICK f, a : /\ f = FreshRun /\ a = call.attempt /\ Launch(a, "running")
                    /\ site' = site \cup {f}
    BY <1>4, KubernetesNames DEF K!Apply, K!Launch, Launch
  <2>2. /\ f \in RunIds \ Launched /\ runs[f].state = "none" /\ runs' \in RunTable
        /\ runs'[f].attempt = a /\ runs'[f].state = "running"
        /\ \A r \in RunIds \ {f} : runs'[r] = runs[r]
        /\ Launched' = Launched \cup {f}
        /\ call' \in Calls /\ call'.pc = "launched" /\ call'.run = f
        /\ call'.op = call.op /\ call'.attempt = call.attempt
    BY <1>1, <1>2, <2>1, LaunchFacts
  <2>3. RunsKept
    BY <2>2 DEF RunsKept
  <2>4. ClientOK' /\ Remote' /\ Current' = Current
    BY <1>1, <2>1, <2>2, <2>3, QuietKeeps DEF KubernetesOK
  <2>5. LostBefore(f)
    <3>1. CASE call.op = "submit"
      BY <1>1, <3>1 DEF KubernetesOK, KubernetesInv, Reserved, LostBefore
    <3>2. CASE call.op # "submit"
      <4>1. row.attempt < a
        BY <1>1, <1>2, <2>1, <3>2, CurrentFacts DEF KubernetesOK, Remote, NextAttempt
      <4>2. \A q \in Launched : runs[q].attempt = a => ~ Alive(q)
        BY <1>4, <2>1 DEF KubernetesOK, KubernetesInv, Reserved, K!JobsOf
      <4> QED  BY <2>2, <4>1, <4>2 DEF KubernetesOK, LostBefore
    <3> QED  BY <3>1, <3>2
  <2>6. RunStep
    BY <1>1, <2>2, <2>5 DEF RunStep, OneStarts
  <2>7. NextAttempt' = NextAttempt
    BY <2>2, <2>4 DEF NextAttempt
  <2>8. KubernetesInv'
    <3>1. \A r \in Launched' : Alive(r)' => r \in site'
      BY <2>1, <2>2 DEF KubernetesOK, KubernetesInv, Reserved, Launched, Alive
    <3>2. Reserved(site)'
      BY <1>1, <2>2, <2>4, <2>7, <3>1 DEF Reserved, Idle
    <3> QED
      BY <2>1, <2>2, <2>4, <3>2 DEF KubernetesOK, KubernetesInv
  <2> QED
    BY <2>1, <2>2, <2>4, <2>6, <2>8 DEF KubernetesOK
<1> QED  BY <1>3, <1>4

(* A Job ends, or the cluster deletes one that has.                          *)
LEMMA KubernetesWorld ==
  ASSUME KubernetesOK, UNCHANGED kind, K!World
  PROVE  KubernetesOK' /\ RunStep
<1>1. call \in Calls /\ (call.run # NoRun => /\ call.pc \in {"launched", "watched"}
                                            /\ call.run \in RunIds /\ call.run \in Launched
                                            /\ runs[call.run].attempt = call.attempt)
  BY DEF KubernetesOK, ClientOK, Remote, CallShape, Launched
<1>2. PICK r \in RunIds : \/ \E s \in {"won", "lost"} : K!JobEnds(r, s)
                         \/ K!JobExpires(r)
  BY KubernetesNames DEF K!World
<1>3. CASE \E s \in {"won", "lost"} : K!JobEnds(r, s)
  <2>1. PICK s \in {"won", "lost"} :
          /\ runs[r].state = "running" /\ MoveRun(r, s) /\ UNCHANGED <<row, memory, call, site>>
    BY <1>3, KubernetesNames DEF K!JobEnds
  <2>2. /\ runs' \in RunTable /\ runs'[r].state = s /\ runs'[r].attempt = runs[r].attempt
        /\ \A q \in RunIds \ {r} : runs'[q] = runs[q]
        /\ \A q \in RunIds : runs'[q].attempt = runs[q].attempt
        /\ Launched' = Launched
    BY <2>1, MoveFacts DEF KubernetesOK, ClientOK, RunStates
  <2>3. RunsKept /\ \A q \in RunIds : Holds(q, site, site')
    BY <2>1, <2>2 DEF RunsKept, Holds, Alive
  <2>4. ClientOK' /\ Remote' /\ Current' = Current
    BY <1>1, <2>1, <2>2, <2>3, QuietKeeps DEF KubernetesOK
  <2>5. KubernetesOK'
    BY <2>1, <2>2, <2>3, <2>4, KubernetesReserved DEF KubernetesOK, KubernetesInv
  <2>6. SomeStop \/ OneWins
    <3>1. CASE s = "won"
      BY <2>1, <2>2, <3>1 DEF OneWins, Alive
    <3>2. CASE s = "lost"
      BY <2>1, <2>2, <3>2 DEF SomeStop, RunsStop, Alive
    <3> QED  BY <3>1, <3>2
  <2> QED  BY <2>5, <2>6 DEF RunStep
<1>4. CASE K!JobExpires(r)
  <2>1. UNCHANGED <<row, memory, call, runs>> /\ site' = site \ {r} /\ ~ Alive(r)
    BY <1>4, KubernetesNames DEF K!JobExpires
  <2>2. /\ RunsStop /\ RunsKept /\ Launched' = Launched
        /\ \A q \in RunIds : Holds(q, site, site')
    BY <2>1, StillStops, StopKeeps DEF KubernetesOK, Holds, Alive
  <2>3. ClientOK' /\ Remote' /\ Current' = Current
    BY <1>1, <2>1, <2>2, QuietKeeps DEF KubernetesOK
  <2>4. KubernetesOK'
    BY <2>1, <2>2, <2>3, KubernetesReserved DEF KubernetesOK, KubernetesInv
  <2> QED  BY <2>1, <2>2, <2>4 DEF RunStep, SomeStop
<1> QED  BY <1>2, <1>3, <1>4

(* Every step of the backend keeps its invariant and is one of the promise.   *)
LEMMA KubernetesStep ==
  ASSUME KubernetesOK, UNCHANGED kind, K!Next
  PROVE  KubernetesOK' /\ RunStep
<1>1. CASE K!BeginSubmit
  <2>1. BeginSubmit
    BY <1>1, KubernetesNames
  <2>2. /\ ClientOK' /\ Remote' /\ Current' = Intent(1) /\ Launched = {}
        /\ call' = [op |-> "submit", pc |-> "launching", run |-> NoRun, attempt |-> 1]
        /\ UNCHANGED <<runs, site>> /\ RunStep
    BY <2>1, BeginSubmitFacts DEF KubernetesOK
  <2>3. Intent(1).attempt = 1 /\ Intent(1).marks = {"intent"}
    BY AttemptFacts, IntentFacts
  <2>4. Launched' = {}
    BY <2>2 DEF Launched
  <2>5. KubernetesInv'
    BY <2>2, <2>3, <2>4
    DEF KubernetesOK, KubernetesInv, Reserved, NextAttempt, Idle
  <2> QED  BY <2>2, <2>5 DEF KubernetesOK
<1>2. CASE K!SubmitRefused \/ K!Reopen
  <2>1. CASE K!SubmitRefused
    <3>1. SubmitRefused
      BY <2>1, KubernetesNames
    <3>2. /\ ClientOK' /\ Remote' /\ Current' = Planned /\ Launched = {} /\ Launched' = {}
          /\ call' = NoCall /\ UNCHANGED <<runs, site>> /\ RunStep
      BY <3>1, SubmitRefusedFacts DEF KubernetesOK
    <3>3. KubernetesInv'
      BY <3>2, PlannedFacts DEF KubernetesOK, KubernetesInv, Reserved, NoCall, Idle
    <3> QED  BY <3>2, <3>3 DEF KubernetesOK
  <2>2. CASE K!Reopen
    <3>1. Reopen
      BY <2>2, KubernetesNames
    <3>2. /\ ClientOK' /\ Remote' /\ Current' = row /\ call' = NoCall
          /\ row = NoRow => Launched = {}
          /\ row # NoRow => Current = row
          /\ UNCHANGED <<runs, site>> /\ RunStep
      BY <3>1, ReopenFacts DEF KubernetesOK
    <3>3. Launched' = Launched /\ \A q \in RunIds : Holds(q, site, site')
      BY <3>2 DEF Launched, Holds, Alive
    <3>4. CASE row = NoRow
      BY <3>2, <3>3, <3>4, NoRowFacts
      DEF KubernetesOK, KubernetesInv, Reserved, NoCall, Idle
    <3>5. CASE row # NoRow
      <4>1. \A r \in RunIds : runs'[r].attempt = runs[r].attempt
        BY <3>2
      <4> QED
        BY <3>2, <3>3, <3>5, <4>1, KubernetesReserved DEF KubernetesOK, KubernetesInv
    <3> QED  BY <3>2, <3>4, <3>5
  <2> QED  BY <1>2, <2>1, <2>2
<1>3. CASE K!Status
  <2>1. Idle /\ Known /\ UNCHANGED <<call, runs, site>>
    BY <1>3, KubernetesNames DEF K!Status
  <2>2. PICK s \in K!Answers : \E r, h : /\ r = [Current EXCEPT !.status = s]
                                        /\ h = memory.handle /\ Remember(r, TRUE, h)
    BY <1>3, KubernetesNames DEF K!Status, K!Remember, Remember
  <2> QED  BY <2>1, <2>2, KubernetesAnswers, KubernetesAnswered
<1>4. CASE K!Cancel
  <2>1. Idle /\ Known /\ UNCHANGED call
    BY <1>4, KubernetesNames DEF K!Cancel
  <2>2. PICK effect, ok \in BOOLEAN :
          /\ IF effect THEN K!Delete(K!Current.attempt) ELSE UNCHANGED <<runs, site>>
          /\ K!Remember([K!Current EXCEPT !.status = IF ok THEN "CANCELLED" ELSE "FAILED"],
                        TRUE, memory.handle)
    BY <1>4 DEF K!Cancel
  <2>3. PICK s \in {"CANCELLED", "FAILED"} :
          \E r, h : /\ r = [Current EXCEPT !.status = s]
                    /\ h = memory.handle /\ Remember(r, TRUE, h)
    BY <2>2, KubernetesNames DEF K!Remember, Remember
  <2>4. \/ UNCHANGED <<runs, site>>
        \/ \E a : a = Current.attempt /\ K!Delete(a)
    BY <2>2, KubernetesNames DEF K!Delete, K!JobsOf
  <2>5. s \in Statuses \ {"PLANNED"} /\ s # "SUCCEEDED"
    BY DEF Statuses
  <2> QED  BY <2>1, <2>3, <2>4, <2>5, KubernetesAnswered
<1>5. CASE K!Resume
  <2>1. Idle /\ Known /\ UNCHANGED <<runs, site>>
    BY <1>5, KubernetesNames, CurrentFacts DEF K!Resume, Resumable, KubernetesOK, Remote
  <2>2. PICK s \in K!Answers : \E r, h :
          /\ r = [Current EXCEPT !.status = s]
          /\ h = memory.handle /\ Remember(r, TRUE, h)
          /\ \/ call' = NoCall
             \/ /\ call' = [op |-> "resume", pc |-> "deleting", run |-> NoRun,
                            attempt |-> r.attempt + 1]
                /\ r.attempt < MaxAttempt
    BY <1>5, KubernetesNames DEF K!Resume, K!Remember, Remember, K!Begin, K!Return
  <2>3. PICK r, h :
          /\ r = [Current EXCEPT !.status = s]
          /\ h = memory.handle /\ Remember(r, TRUE, h)
          /\ \/ call' = NoCall
             \/ /\ call' = [op |-> "resume", pc |-> "deleting", run |-> NoRun,
                            attempt |-> r.attempt + 1]
                /\ r.attempt < MaxAttempt
    BY <2>2
  <2>4. s \in Statuses \ {"PLANNED"} /\ (s = "SUCCEEDED" => Won(Current.attempt))
    BY KubernetesAnswers
  <2>5. r.attempt = Current.attempt
    BY <2>3, <2>4, CurrentFacts, StatusFacts DEF KubernetesOK, Remote
  <2> QED  BY <2>1, <2>3, <2>4, <2>5, KubernetesAnswered
<1>6. CASE K!DeletePrevious
  <2>1. /\ call.pc = "deleting" /\ UNCHANGED <<row, memory>> /\ call \in Calls
        /\ call' = [call EXCEPT !.pc = "launching"]
    BY <1>6 DEF K!DeletePrevious, K!Goto, KubernetesOK, ClientOK
  <2>2. /\ call' \in Calls /\ call'.pc = "launching" /\ call'.op = call.op
        /\ call'.attempt = call.attempt /\ call'.run = call.run
    BY <2>1 DEF Calls
  <2>3. \E a : a = Current.attempt /\ K!Delete(a)
    BY <1>6, KubernetesNames DEF K!DeletePrevious, K!Delete, K!JobsOf
  <2>4. /\ RunsStop /\ \A r \in RunIds : runs'[r].attempt = runs[r].attempt
        /\ site' \subseteq site /\ \A r \in RunIds : Holds(r, site, site')
    BY <2>3, KubernetesDelete
  <2>5. RunsKept /\ Launched' = Launched
    BY <2>4, StopKeeps
  <2>6. call.run = NoRun /\ ~ Idle
    BY <2>1 DEF KubernetesOK, Remote, CallShape, Idle
  <2>7. ClientOK' /\ Remote' /\ Current' = Current
    BY <2>1, <2>2, <2>5, <2>6, QuietKeeps DEF KubernetesOK
  <2>8. call.attempt = NextAttempt /\ NextAttempt' = NextAttempt /\ call.op # "submit"
    BY <2>1, <2>2, <2>6, <2>7 DEF KubernetesOK, KubernetesInv, Reserved, NextAttempt
  <2>9. KubernetesOK'
    BY <2>2, <2>4, <2>5, <2>7, <2>8, KubernetesReserved DEF KubernetesOK, KubernetesInv
  <2> QED  BY <2>1, <2>4, <2>9 DEF RunStep, SomeStop
<1>7. CASE K!DeleteFails \/ K!PolicyFails \/ K!ApplyFails \/ K!Applied
  <2>1. call.pc # "idle" /\ call' = NoCall /\ ~ Idle
    BY <1>7, KubernetesNames
    DEF K!DeleteFails, K!PolicyFails, K!ApplyFails, K!Applied, K!FailCall, K!Return, Idle
  <2>2. \/ UNCHANGED <<row, memory>>
        \/ \E h, a : \E s \in {"FAILED", "SUBMITTED"} :
             h = memory.handle /\ a = call.attempt /\ Remember(Result(s, a, NoRun), TRUE, h)
    BY <1>7, KubernetesNames
    DEF K!DeleteFails, K!PolicyFails, K!ApplyFails, K!Applied, K!FailCall, K!Remember, Remember
  <2>3. \/ UNCHANGED <<runs, site>>
        \/ \E a : a = Current.attempt /\ K!Delete(a)
    BY <1>7, KubernetesNames
    DEF K!DeleteFails, K!PolicyFails, K!ApplyFails, K!Applied, K!Delete, K!JobsOf
  <2>4. /\ RunsStop /\ \A q \in RunIds : runs'[q].attempt = runs[q].attempt
        /\ site' \subseteq site /\ \A q \in RunIds : Holds(q, site, site')
    <3>1. CASE UNCHANGED <<runs, site>>
      BY <3>1, StillStops DEF KubernetesOK, Holds, Alive
    <3>2. CASE \E a : a = Current.attempt /\ K!Delete(a)
      BY <3>2, KubernetesDelete
    <3> QED  BY <2>3, <3>1, <3>2
  <2> QED  BY <2>1, <2>2, <2>4, KubernetesReturned
<1>8. CASE K!Apply
  BY <1>8, KubernetesApply
<1>9. CASE K!World
  BY <1>9, KubernetesWorld
<1> QED
  BY <1>1, <1>2, <1>3, <1>4, <1>5, <1>6, <1>7, <1>8, <1>9 DEF K!Next, K!Controller

----------------------------------------------------------------------------
(* Slurm: while the intent of a submission names no job, nothing but that     *)
(* submission has been launched, and nothing is launched again.              *)
SlurmInv ==
  /\ call.pc \in {"idle", "launching", "launched"}
  /\ Current.marks \subseteq {"intent"}
  /\ "intent" \in Current.marks => memory.handle \in 0..MaxRuns
  /\ "intent" \in Current.marks /\ Current.run = NoRun =>
       /\ Current.status = "SUBMITTED" /\ memory.handle = 0
       /\ \A q, r \in Launched : q = r
       /\ call.pc = "launching" => Launched = {}

LEMMA SlurmNames ==
  /\ U!Current = Current /\ U!Idle = Idle /\ U!Known = Known /\ U!Resumable = Resumable
  /\ U!RunIds = RunIds /\ U!NoRun = NoRun /\ U!Launched = Launched /\ U!FreshRun = FreshRun
  /\ U!NoCall = NoCall /\ U!NoRow = NoRow /\ U!NoMemory = NoMemory /\ U!Return = Return
  /\ \A s, a, n : U!Result(s, a, n) = Result(s, a, n)
  /\ \A a : U!Intent(a) = Intent(a)
  /\ \A r : (U!Alive(r) <=> Alive(r)) /\ (U!Active(r) <=> Active(r)) /\ (U!Terminal(r) <=> Terminal(r))
  /\ \A r, b, h : U!Remember(r, b, h) <=> Remember(r, b, h)
  /\ \A o, p, a : U!Begin(o, p, a) <=> Begin(o, p, a)
  /\ \A a, s : U!Launch(a, s) <=> Launch(a, s)
  /\ \A r, s : U!MoveRun(r, s) <=> MoveRun(r, s)
  /\ U!BeginSubmit = BeginSubmit /\ U!SubmitRefused = SubmitRefused /\ U!Reopen = Reopen
<1>1. /\ U!Current = Current /\ U!NoRun = NoRun /\ U!RunIds = RunIds /\ U!NoCall = NoCall
      /\ U!NoRow = NoRow /\ U!NoMemory = NoMemory
  BY DEF U!Current, Current, U!NoRow, NoRow, U!NoRun, NoRun, U!RunIds, RunIds,
         U!NoCall, NoCall, U!NoMemory, NoMemory
<1>2. U!Idle = Idle /\ U!Known = Known /\ U!Resumable = Resumable
  BY <1>1 DEF U!Known, Known, U!Idle, Idle, U!Resumable, Resumable
<1>3. U!Launched = Launched
  BY <1>1 DEF U!Launched, Launched
<1>4. U!FreshRun = FreshRun
  BY <1>1, <1>3 DEF U!FreshRun, FreshRun
<1>5. \A s, a, n : U!Result(s, a, n) = Result(s, a, n)
  BY <1>1 DEF U!Result, Result
<1>6. \A a : U!Intent(a) = Intent(a)
  BY <1>1, <1>5 DEF U!Intent, Intent
<1>7. \A r : (U!Alive(r) <=> Alive(r)) /\ (U!Active(r) <=> Active(r)) /\ (U!Terminal(r) <=> Terminal(r))
  BY DEF U!Alive, Alive, U!Active, Active, U!Terminal, Terminal
<1>8. \A r, b, h : U!Remember(r, b, h) <=> Remember(r, b, h)
  BY <1>1 DEF U!Remember, Remember
<1>9. U!Return = Return /\ \A o, p, a : U!Begin(o, p, a) <=> Begin(o, p, a)
  BY <1>1 DEF U!Begin, Begin, U!Return, Return
<1>10. /\ \A a, s : U!Launch(a, s) <=> Launch(a, s)
       /\ \A r, s : U!MoveRun(r, s) <=> MoveRun(r, s)
  BY <1>1, <1>3, <1>4 DEF U!Launch, Launch, U!MoveRun, MoveRun
<1>11. U!BeginSubmit = BeginSubmit /\ U!SubmitRefused = SubmitRefused /\ U!Reopen = Reopen
  BY <1>1, <1>2, <1>5, <1>6
  DEF U!BeginSubmit, BeginSubmit, U!SubmitRefused, SubmitRefused, U!Reopen, Reopen,
      U!Remember, Remember, U!Begin, Begin, U!Planned, Planned, U!Return, Return
<1> QED  BY <1>1, <1>2, <1>3, <1>4, <1>5, <1>6, <1>7, <1>8, <1>9, <1>10, <1>11
SlurmOK == /\ kind = "slurm" /\ ClientOK /\ Remote /\ site = U!NoSite /\ SlurmInv

(* A new answer: an intent that names no job is the one that was known.       *)
LEMMA SlurmAnswered ==
  ASSUME SlurmOK, UNCHANGED <<kind, site>>, NEW r \in Rows, NEW h \in Handles,
         Remember(r, TRUE, h), r.status \in Statuses,
         r.status # "PLANNED" \/ (r = Planned /\ row = NoRow),
         RunsStop, call' \in Calls, call'.run = NoRun,
         call' = NoCall \/ (call'.pc = "launching" /\ r.status \notin {"PLANNED", "SUBMITTED"}),
         r.status = "SUCCEEDED" => Won(r.attempt),
         r.marks \subseteq {"intent"},
         "intent" \in r.marks => h \in 0..MaxRuns,
         "intent" \in r.marks /\ r.run = NoRun => r = Current /\ h = memory.handle
  PROVE  SlurmOK' /\ RunStep
<1>1. ClientOK' /\ Remote' /\ Current' = r /\ Launched' = Launched /\ RunStep
  BY AnswerKeeps DEF SlurmOK
<1>2. memory'.handle = h
  BY RememberFacts DEF SlurmOK, Remote
<1>3. call'.pc \in {"idle", "launching"}
  BY DEF NoCall
<1>4. SlurmInv'
  BY <1>1, <1>2, <1>3 DEF SlurmOK, SlurmInv, NoCall
<1> QED  BY <1>1, <1>4 DEF SlurmOK

(* The scheduler identifier a call uses, and the result it then holds.       *)
LEMMA SchedulerFacts ==
  ASSUME SlurmOK, NEW seen \in SUBSET Launched, NEW id, id = U!SchedulerId(seen)
  PROVE  /\ id \in Handles
         /\ id = U!Unresolved => /\ "intent" \in Current.marks /\ Current.run = NoRun
                                 /\ memory.handle = 0
         /\ id # U!Unresolved /\ "intent" \in Current.marks => id \in RunIds
<1>1. memory.handle \in Handles /\ Current \in Rows
  BY CurrentFacts DEF SlurmOK, Remote, ClientOK
<1>2. Current.run \in 0..MaxRuns
  BY <1>1 DEF Rows
<1>3. U!Reconciled(seen) \in {0} \cup RunIds
  <2>1. U!Cardinality({}) = 0
    BY DEF U!Cardinality
  <2>2. CASE U!Cardinality(seen) = 1
    <3>1. \E r : r \in seen
      BY <2>1, <2>2
    <3>2. (CHOOSE r \in seen : TRUE) \in seen
      BY <3>1, Zenon
    <3>3. U!Reconciled(seen) = CHOOSE r \in seen : TRUE
      BY <2>2 DEF U!Reconciled
    <3>4. U!Reconciled(seen) \in seen
      BY <3>2, <3>3, Zenon
    <3> QED  BY <3>4 DEF Launched
  <2>3. CASE U!Cardinality(seen) # 1
    BY <2>3 DEF U!Reconciled, U!Unresolved
  <2> QED  BY <2>2, <2>3
<1>4. MaxRuns \in Nat \ {0}
  BY ClientAssumption
<1>5. "intent" \in Current.marks => memory.handle \in 0..MaxRuns
  BY DEF SlurmOK, SlurmInv
<1>6. id = CASE memory.handle # 0 -> memory.handle
             [] memory.handle = 0 /\ Current.run # NoRun -> Current.run
             [] memory.handle = 0 /\ Current.run = NoRun /\ "intent" \in Current.marks
                  -> U!Reconciled(seen)
             [] OTHER -> U!Self
  BY SlurmNames DEF U!SchedulerId
<1> QED
  BY <1>1, <1>2, <1>3, <1>4, <1>5, <1>6 DEF Handles, RunIds, U!Self, U!Unresolved, NoRun

LEMMA IdentifiedFacts ==
  ASSUME SlurmOK, Known, NEW seen \in SUBSET Launched, NEW id, id = U!SchedulerId(seen),
         id # U!Unresolved, NEW x, x = U!Identified(id)
  PROVE  /\ x \in Rows /\ x.attempt = Current.attempt /\ x.marks \subseteq {"intent"}
         /\ "intent" \in x.marks => x.run # NoRun /\ id \in RunIds
<1>1. id \in Handles /\ ("intent" \in Current.marks => id \in RunIds)
  BY SchedulerFacts
<1>2. Current \in Rows /\ Current.marks \subseteq {"intent"}
      /\ ("intent" \in Current.marks /\ Current.run = NoRun => memory.handle = 0)
  BY CurrentFacts DEF SlurmOK, Remote, SlurmInv
<1>3. x = IF memory.handle = 0 /\ Current.run = NoRun /\ "intent" \in Current.marks
            THEN Result("SUBMITTED", Current.attempt, id) ELSE Current
  BY SlurmNames DEF U!Identified
<1>4. CASE memory.handle = 0 /\ Current.run = NoRun /\ "intent" \in Current.marks
  <2>1. PICK a \in Attempts, n \in RunIds : a = Current.attempt /\ n = id
    BY <1>1, <1>2, <1>4 DEF Rows
  <2>2. "SUBMITTED" \in Statuses /\ n \in 0..MaxRuns
    BY DEF Statuses, RunIds
  <2>3. x = Result("SUBMITTED", a, n)
    BY <1>3, <1>4, <2>1
  <2> QED  BY <2>1, <2>2, <2>3, ResultFacts
<1>5. CASE ~ (memory.handle = 0 /\ Current.run = NoRun /\ "intent" \in Current.marks)
  BY <1>1, <1>2, <1>3, <1>5
<1> QED  BY <1>4, <1>5

LEMMA SlurmStatus ==
  ASSUME SlurmOK, UNCHANGED kind, U!Status
  PROVE  SlurmOK' /\ RunStep
<1>1. Idle /\ Known /\ UNCHANGED <<call, runs, site>>
  BY SlurmNames DEF U!Status
<1>2. call = NoCall /\ NoCall \in Calls /\ NoCall.run = NoRun /\ RunsStop
  BY <1>1, StillStops, AttemptFacts DEF SlurmOK, Remote, CallShape, Calls, NoCall, NoRun
<1>3. PICK seen \in SUBSET Launched :
        LET id == U!SchedulerId(seen)
        IN IF id = U!Unresolved THEN Remember(Current, TRUE, memory.handle)
           ELSE \E status \in U!Answers(id) :
                  Remember([U!Identified(id) EXCEPT !.status = status], TRUE, id)
  BY SlurmNames DEF U!Status
<1>4. PICK id : id = U!SchedulerId(seen)
  OBVIOUS
<1>5. CASE id = U!Unresolved
  <2>1. PICK r, h : r = Current /\ h = memory.handle /\ Remember(r, TRUE, h)
    BY <1>3, <1>4, <1>5
  <2>2. /\ r \in Rows /\ h \in Handles /\ r.status \in Statuses /\ r.marks \subseteq {"intent"}
        /\ r.status # "PLANNED" \/ (r = Planned /\ row = NoRow)
        /\ "intent" \in r.marks => h \in 0..MaxRuns
    BY <1>1, <2>1, CurrentFacts DEF SlurmOK, Remote, Saved, Known, ClientOK, SlurmInv
  <2>3. r.status = "SUCCEEDED" => Won(r.attempt)
    BY <2>1 DEF SlurmOK, Remote, Justified, Won
  <2> QED  BY <1>1, <1>2, <2>1, <2>2, <2>3, SlurmAnswered
<1>6. CASE id # U!Unresolved
  <2>1. PICK s \in U!Answers(id) : \E x, r : /\ x = U!Identified(id)
                                            /\ r = [x EXCEPT !.status = s]
                                            /\ Remember(r, TRUE, id)
    BY <1>3, <1>4, <1>6
  <2>2. PICK x, r : x = U!Identified(id) /\ r = [x EXCEPT !.status = s] /\ Remember(r, TRUE, id)
    BY <2>1
  <2>3. /\ x \in Rows /\ x.attempt = Current.attempt /\ x.marks \subseteq {"intent"}
        /\ "intent" \in x.marks => x.run # NoRun /\ id \in RunIds
    BY <1>1, <1>4, <1>6, <2>2, IdentifiedFacts
  <2>4. s \in {"UNKNOWN", "RUNNING", "SUCCEEDED", "FAILED", "CANCELLED"}
    BY DEF U!Answers, U!SchedulerState
  <2>5. s \in Statuses /\ s # "PLANNED"
    BY <2>4 DEF Statuses
  <2>6. /\ r \in Rows /\ r.status = s /\ r.attempt = x.attempt /\ r.marks = x.marks
        /\ r.run = x.run
    BY <2>2, <2>3, <2>5, StatusFacts
  <2>7. s = "SUCCEEDED" => Won(r.attempt)
    <3>1. s = "SUCCEEDED" => id \in Launched /\ s = U!SchedulerState(id)
      BY SlurmNames DEF U!Answers
    <3>2. s = "SUCCEEDED" => id \in RunIds /\ runs[id].state = "won"
      BY <3>1 DEF U!SchedulerState, Launched
    <3> QED  BY <3>2 DEF Won, AttemptOf, SlurmOK
  <2>8. id \in Handles /\ ("intent" \in r.marks => id \in 0..MaxRuns)
    BY <1>4, <2>3, <2>6, SchedulerFacts DEF RunIds
  <2> QED  BY <1>1, <1>2, <2>2, <2>3, <2>5, <2>6, <2>7, <2>8, SlurmAnswered
<1> QED  BY <1>5, <1>6

LEMMA SlurmCancel ==
  ASSUME SlurmOK, UNCHANGED kind, U!Cancel
  PROVE  SlurmOK' /\ RunStep
<1>1. Idle /\ Known /\ UNCHANGED <<call, site>>
  BY SlurmNames DEF U!Cancel
<1>2. call = NoCall /\ NoCall \in Calls /\ NoCall.run = NoRun
  BY <1>1, AttemptFacts DEF SlurmOK, Remote, CallShape, Calls, NoCall, NoRun
<1>3. PICK seen \in SUBSET Launched, ok \in BOOLEAN :
        LET id == U!SchedulerId(seen)
            known == [Current EXCEPT
              !.run = IF id \in RunIds THEN id ELSE NoRun,
              !.status = IF ok /\ id \in RunIds THEN "CANCELLED" ELSE "FAILED"]
        IN IF id = U!Unresolved
           THEN Remember(Current, TRUE, memory.handle) /\ UNCHANGED runs
           ELSE /\ Remember(known, TRUE, id)
                /\ IF ok /\ id \in Launched /\ Alive(id)
                     THEN MoveRun(id, "stopped") ELSE UNCHANGED runs
  BY SlurmNames DEF U!Cancel
<1>4. PICK id : id = U!SchedulerId(seen)
  OBVIOUS
<1>5. CASE id = U!Unresolved
  <2>1. PICK r, h : r = Current /\ h = memory.handle /\ Remember(r, TRUE, h) /\ UNCHANGED runs
    BY <1>3, <1>4, <1>5
  <2>2. /\ r \in Rows /\ h \in Handles /\ r.status \in Statuses /\ r.marks \subseteq {"intent"}
        /\ r.status # "PLANNED" \/ (r = Planned /\ row = NoRow)
        /\ "intent" \in r.marks => h \in 0..MaxRuns
    BY <1>1, <2>1, CurrentFacts DEF SlurmOK, Remote, Saved, Known, ClientOK, SlurmInv
  <2>3. r.status = "SUCCEEDED" => Won(r.attempt)
    BY <2>1 DEF SlurmOK, Remote, Justified, Won
  <2>4. RunsStop
    BY <2>1, StillStops DEF SlurmOK
  <2> QED  BY <1>1, <1>2, <2>1, <2>2, <2>3, <2>4, SlurmAnswered
<1>6. CASE id # U!Unresolved
  <2>1. PICK n, s : /\ n = (IF id \in RunIds THEN id ELSE NoRun)
                    /\ s = (IF ok /\ id \in RunIds THEN "CANCELLED" ELSE "FAILED")
    OBVIOUS
  <2>2. PICK r : r = [Current EXCEPT !.run = n, !.status = s] /\ Remember(r, TRUE, id)
    BY <1>3, <1>4, <1>6, <2>1
  <2>3. Current \in Rows /\ Current.marks \subseteq {"intent"}
    BY CurrentFacts DEF SlurmOK, Remote, SlurmInv
  <2>4. n \in 0..MaxRuns /\ s \in Statuses /\ s # "PLANNED" /\ s # "SUCCEEDED"
    BY <2>1, AttemptFacts DEF Statuses, RunIds, NoRun
  <2>5. /\ r \in Rows /\ r.status = s /\ r.run = n /\ r.marks = Current.marks
    BY <2>2, <2>3, <2>4 DEF Rows
  <2>6. id \in Handles /\ ("intent" \in r.marks => id \in 0..MaxRuns /\ r.run # NoRun)
    BY <1>4, <1>6, <2>1, <2>5, SchedulerFacts DEF RunIds, NoRun
  <2>7. RunsStop
    <3>1. CASE ok /\ id \in Launched /\ Alive(id)
      <4>1. id \in RunIds /\ MoveRun(id, "stopped") /\ runs[id].state # "none"
        BY <1>3, <1>4, <1>6, <3>1 DEF Launched
      <4> QED  BY <3>1, <4>1, MoveFacts DEF RunsStop, SlurmOK, ClientOK, RunStates
    <3>2. CASE ~ (ok /\ id \in Launched /\ Alive(id))
      BY <1>3, <1>4, <1>6, <3>2, StillStops DEF SlurmOK
    <3> QED  BY <3>1, <3>2
  <2> QED  BY <1>1, <1>2, <2>2, <2>3, <2>4, <2>5, <2>6, <2>7, SlurmAnswered
<1> QED  BY <1>5, <1>6

LEMMA SlurmResume ==
  ASSUME SlurmOK, UNCHANGED kind, U!Resume
  PROVE  SlurmOK' /\ RunStep
<1>1. /\ Idle /\ row # NoRow /\ UNCHANGED <<runs, site>> /\ ~ Active(Current)
      /\ Current.attempt < MaxAttempt
      /\ call' = [op |-> "resume", pc |-> "launching", run |-> NoRun,
                  attempt |-> Current.attempt + 1]
  BY SlurmNames DEF U!Resume, Resumable, U!MayResume, Begin
<1>2. PICK r, h : r = Current /\ h = memory.handle /\ Remember(r, TRUE, h)
  BY SlurmNames DEF U!Resume
<1>3. /\ r \in Rows /\ h \in Handles /\ r.status \in Statuses /\ r.marks \subseteq {"intent"}
      /\ r.status # "PLANNED" /\ ("intent" \in r.marks => h \in 0..MaxRuns)
  BY <1>1, <1>2, CurrentFacts DEF SlurmOK, Remote, Saved, Known, ClientOK, SlurmInv
<1>4. r.status = "SUCCEEDED" => Won(r.attempt)
  BY <1>2 DEF SlurmOK, Remote, Justified, Won
<1>5. r.status # "SUBMITTED"
  BY <1>1, <1>2 DEF Active
<1>6. call' \in Calls /\ call'.run = NoRun /\ call'.pc = "launching"
  <2>1. Current.attempt \in Attempts
    BY <1>2, <1>3 DEF Rows
  <2>2. Current.attempt + 1 \in Attempts
    BY <1>1, <2>1, ClientAssumption DEF Attempts
  <2> QED  BY <1>1, <2>2, AttemptFacts DEF Calls, NoRun
<1>7. RunsStop
  BY <1>1, StillStops DEF SlurmOK
<1> QED  BY <1>1, <1>2, <1>3, <1>4, <1>5, <1>6, <1>7, SlurmAnswered

(* sbatch reached the scheduler or not; what the controller learns of it.     *)
LEMMA SlurmLaunch ==
  ASSUME SlurmOK, UNCHANGED kind, U!SbatchAccepted \/ U!SbatchRejected
  PROVE  SlurmOK' /\ RunStep
<1>1. /\ call.pc = "launching" /\ UNCHANGED <<row, memory, site>> /\ ~ Idle /\ row # NoRow
      /\ call \in Calls /\ runs \in RunTable /\ call.run = NoRun
  BY DEF U!SbatchAccepted, U!SbatchRejected, SlurmOK, Remote, CallShape, Idle, ClientOK
<1>2. Current' = Current
  BY <1>1 DEF Current
<1>3. CASE U!SbatchRejected
  <2>1. call' = [call EXCEPT !.pc = "launched"] /\ UNCHANGED runs
    BY <1>3 DEF U!SbatchRejected, U!Goto
  <2>2. call' \in Calls /\ call'.pc = "launched" /\ call'.run = NoRun
    BY <1>1, <2>1 DEF Calls
  <2>3. RunsStop /\ RunsKept /\ Launched' = Launched
    BY <2>1, StillStops, StopKeeps DEF SlurmOK
  <2>4. ClientOK' /\ Remote'
    BY <1>1, <2>2, <2>3, QuietKeeps DEF SlurmOK
  <2>5. SlurmInv'
    BY <1>1, <1>2, <2>2, <2>3 DEF SlurmOK, SlurmInv
  <2> QED  BY <1>1, <2>3, <2>4, <2>5 DEF SlurmOK, RunStep, SomeStop
<1>4. CASE U!SbatchAccepted
  <2>1. PICK a \in Attempts : a = call.attempt /\ Launch(a, "running")
    BY <1>1, <1>4, SlurmNames DEF U!SbatchAccepted, Calls
  <2>2. PICK f : f = FreshRun
    OBVIOUS
  <2>3. /\ f \in RunIds \ Launched /\ runs[f].state = "none" /\ runs' \in RunTable
        /\ runs'[f].attempt = a /\ runs'[f].state = "running"
        /\ \A r \in RunIds \ {f} : runs'[r] = runs[r]
        /\ Launched' = Launched \cup {f}
        /\ call' \in Calls /\ call'.pc = "launched" /\ call'.run = f
        /\ call'.attempt = call.attempt
    BY <1>1, <2>1, <2>2, LaunchFacts
  <2>4. RunsKept
    BY <2>3 DEF RunsKept
  <2>5. ClientOK' /\ Remote'
    BY <1>1, <2>1, <2>3, <2>4, QuietKeeps DEF SlurmOK
  <2>6. SlurmInv'
    BY <1>1, <1>2, <2>3 DEF SlurmOK, SlurmInv
  <2>7. RunStep
    BY <1>1, <2>3 DEF RunStep, OneStarts, LostBefore, SlurmOK
  <2> QED  BY <1>1, <2>5, <2>6, <2>7 DEF SlurmOK
<1> QED  BY <1>3, <1>4

LEMMA SlurmAnswer ==
  ASSUME SlurmOK, UNCHANGED kind, U!Answered \/ U!AnsweredFailure \/ U!Raised
  PROVE  SlurmOK' /\ RunStep
<1>1. /\ call.pc = "launched" /\ call' = NoCall /\ UNCHANGED <<runs, site>> /\ ~ Idle
      /\ memory.handle \in Handles /\ call.attempt \in Attempts /\ call.run \in 0..MaxRuns
  BY SlurmNames
  DEF U!Answered, U!AnsweredFailure, U!Raised, Return, Idle, SlurmOK, ClientOK, Calls
<1>2. NoCall \in Calls /\ NoCall.run = NoRun /\ NoRun \in 0..MaxRuns /\ NoCall.pc = "idle"
  BY AttemptFacts DEF Calls, NoCall, NoRun
<1>3. RunsStop /\ RunsKept /\ Launched' = Launched
  BY <1>1, StillStops, StopKeeps DEF SlurmOK
<1>4. CASE U!Raised
  <2>1. UNCHANGED <<row, memory>> /\ Current' = Current
    BY <1>4 DEF U!Raised, Current
  <2>2. ClientOK' /\ Remote'
    BY <1>1, <1>2, <1>3, <2>1, QuietKeeps DEF SlurmOK
  <2>3. SlurmInv'
    BY <1>1, <1>2, <1>3, <2>1 DEF SlurmOK, SlurmInv
  <2> QED  BY <1>1, <1>3, <2>1, <2>2, <2>3 DEF SlurmOK, RunStep, SomeStop
<1>5. CASE U!Answered \/ U!AnsweredFailure
  <2>1. PICK s \in {"SUBMITTED", "FAILED"}, a \in Attempts, n \in 0..MaxRuns, h \in Handles :
          Remember(Result(s, a, n), TRUE, h)
    <3>1. CASE U!Answered
      <4>1. Remember(Result("SUBMITTED", call.attempt, call.run), TRUE, call.run)
        BY <3>1, SlurmNames DEF U!Answered
      <4>2. call.run \in Handles
        BY <1>1, ClientAssumption DEF Handles
      <4> QED  BY <1>1, <4>1, <4>2
    <3>2. CASE U!AnsweredFailure
      <4>1. PICK h \in {U!Self, memory.handle} :
              Remember(Result("FAILED", call.attempt, NoRun), TRUE, h)
        BY <3>2, SlurmNames DEF U!AnsweredFailure
      <4>2. h \in Handles
        BY <1>1, ClientAssumption DEF Handles, U!Self
      <4> QED  BY <1>1, <1>2, <4>1, <4>2
    <3> QED  BY <1>5, <3>1, <3>2
  <2>2. PICK r \in Rows : /\ r = Result(s, a, n) /\ r.status = s /\ r.marks = {}
                          /\ s \in Statuses
    BY ResultFacts DEF Statuses
  <2> QED  BY <1>1, <1>2, <1>3, <2>1, <2>2, SlurmAnswered
<1> QED  BY <1>4, <1>5

LEMMA SlurmStep ==
  ASSUME SlurmOK, UNCHANGED kind, U!Next
  PROVE  SlurmOK' /\ RunStep
<1>1. CASE U!BeginSubmit
  <2>1. BeginSubmit
    BY <1>1, SlurmNames
  <2>2. /\ ClientOK' /\ Remote' /\ Current' = Intent(1) /\ Launched = {}
        /\ call'.pc = "launching" /\ memory'.handle = 0 /\ UNCHANGED <<runs, site>> /\ RunStep
    BY <2>1, BeginSubmitFacts DEF SlurmOK
  <2>3. /\ Intent(1).status = "SUBMITTED" /\ Intent(1).marks = {"intent"}
        /\ 0 \in 0..MaxRuns
    BY AttemptFacts, IntentFacts
  <2>4. Launched' = {}
    BY <2>2 DEF Launched
  <2>5. SlurmInv'
    BY <2>2, <2>3, <2>4 DEF SlurmInv
  <2> QED  BY <2>2, <2>5 DEF SlurmOK
<1>2. CASE U!SubmitRefused
  <2>1. SubmitRefused
    BY <1>2, SlurmNames
  <2>2. /\ ClientOK' /\ Remote' /\ Current' = Planned /\ call' = NoCall
        /\ UNCHANGED site /\ RunStep
    BY <2>1, SubmitRefusedFacts DEF SlurmOK
  <2>3. SlurmInv'
    BY <2>2, PlannedFacts DEF SlurmInv, NoCall
  <2> QED  BY <2>2, <2>3 DEF SlurmOK
<1>3. CASE U!Reopen
  <2>1. Reopen
    BY <1>3, SlurmNames
  <2>2. /\ ClientOK' /\ Remote' /\ Current' = row /\ call' = NoCall
        /\ row # NoRow => Current = row
        /\ UNCHANGED <<runs, site>> /\ memory' = NoMemory /\ RunStep
    BY <2>1, ReopenFacts DEF SlurmOK
  <2>3. Launched' = Launched /\ memory'.handle = 0 /\ 0 \in 0..MaxRuns
    BY <2>2, AttemptFacts DEF Launched, NoMemory
  <2>4. SlurmInv'
    <3>1. CASE row = NoRow
      BY <2>2, <2>3, <3>1, NoRowFacts DEF SlurmInv, NoCall
    <3>2. CASE row # NoRow
      BY <2>2, <2>3, <3>2 DEF SlurmOK, SlurmInv, NoCall
    <3> QED  BY <3>1, <3>2
  <2> QED  BY <2>2, <2>4 DEF SlurmOK
<1>4. CASE U!World
  <2>1. PICK r \in RunIds, s \in {"won", "lost", "stopped"} :
          /\ runs[r].state = "running" /\ MoveRun(r, s) /\ UNCHANGED <<row, memory, call, site>>
    BY <1>4, SlurmNames DEF U!World, U!JobEnds
  <2>2. /\ runs' \in RunTable /\ runs'[r].state = s /\ runs'[r].attempt = runs[r].attempt
        /\ \A q \in RunIds \ {r} : runs'[q] = runs[q]
        /\ \A q \in RunIds : runs'[q].attempt = runs[q].attempt
        /\ Launched' = Launched
    BY <2>1, MoveFacts DEF SlurmOK, ClientOK, RunStates
  <2>3. RunsKept
    BY <2>1, <2>2 DEF RunsKept
  <2>4. call \in Calls /\ (call.run # NoRun => /\ call.pc \in {"launched", "watched"}
                                              /\ call.run \in RunIds
                                              /\ call.run \in Launched
                                              /\ runs[call.run].attempt = call.attempt)
    BY DEF SlurmOK, ClientOK, Remote, CallShape, Launched
  <2>5. ClientOK' /\ Remote' /\ Current' = Current
    BY <2>1, <2>2, <2>3, <2>4, QuietKeeps DEF SlurmOK
  <2>6. SlurmInv'
    BY <2>1, <2>2, <2>5 DEF SlurmOK, SlurmInv
  <2>7. SomeStop \/ OneWins
    <3>1. CASE s = "won"
      BY <2>1, <2>2, <3>1 DEF OneWins, Alive
    <3>2. CASE s # "won"
      BY <2>1, <2>2, <3>2 DEF SomeStop, RunsStop, Alive
    <3> QED  BY <3>1, <3>2
  <2> QED  BY <2>1, <2>5, <2>6, <2>7 DEF RunStep, SlurmOK
<1> QED
  BY <1>1, <1>2, <1>3, <1>4, SlurmStatus, SlurmCancel, SlurmResume, SlurmLaunch, SlurmAnswer
  DEF U!Next, U!Controller

----------------------------------------------------------------------------
(* Docker: what the daemon and the watchdogs hold, and what the flags of a    *)
(* result say of it.                                                         *)
ContainerMarks(x, there, late, known) ==
  /\ x.run # NoRun => x.run \in known
  /\ "timeout_pending" \notin x.marks
  /\ "timed_out" \in x.marks => x.status = "FAILED" /\ x.run # NoRun /\ x.run \notin there
  /\ "cleanup_pending" \in x.marks => x.run # NoRun /\ x.run \in late /\ x.status # "SUCCEEDED"
Guards(there) ==
  /\ there["exists"] \subseteq Launched /\ there["guarded"] \subseteq Launched
  /\ there["late"] \subseteq there["guarded"] /\ there["firing"] \subseteq there["late"]
  /\ there["removing"] \subseteq there["firing"] \cap there["exists"]
  /\ there["verified"] \subseteq there["firing"] /\ there["marker"] \subseteq there["late"]
  /\ (there["verified"] \cup there["marker"]) \cap there["exists"] = {}
DockerInv ==
  /\ call.pc \in {"idle", "launching", "launched", "watched"}
  /\ call.pc = "watched" => call.run # NoRun
  /\ Reserved(site["exists"])
  /\ Guards(site)
  /\ ContainerMarks(Current, site["exists"], site["late"], Launched)
  /\ call.op = "submit" => Current.marks \subseteq {"intent"}

LEMMA DockerNames ==
  /\ D!Current = Current /\ D!Idle = Idle /\ D!Known = Known /\ D!Resumable = Resumable
  /\ D!RunIds = RunIds /\ D!NoRun = NoRun /\ D!Launched = Launched /\ D!FreshRun = FreshRun
  /\ D!NoCall = NoCall /\ D!NoRow = NoRow /\ D!NoMemory = NoMemory /\ D!Return = Return
  /\ \A s, a, n : D!Result(s, a, n) = Result(s, a, n)
  /\ \A a : D!Intent(a) = Intent(a)
  /\ \A r : (D!Alive(r) <=> Alive(r)) /\ (D!Active(r) <=> Active(r)) /\ (D!Terminal(r) <=> Terminal(r))
  /\ \A r, b, h : D!Remember(r, b, h) <=> Remember(r, b, h)
  /\ \A o, p, a : D!Begin(o, p, a) <=> Begin(o, p, a)
  /\ \A a, s : D!Launch(a, s) <=> Launch(a, s)
  /\ \A r, s : D!MoveRun(r, s) <=> MoveRun(r, s)
  /\ D!BeginSubmit = BeginSubmit /\ D!SubmitRefused = SubmitRefused /\ D!Reopen = Reopen
<1>1. /\ D!Current = Current /\ D!NoRun = NoRun /\ D!RunIds = RunIds /\ D!NoCall = NoCall
      /\ D!NoRow = NoRow /\ D!NoMemory = NoMemory
  BY DEF D!Current, Current, D!NoRow, NoRow, D!NoRun, NoRun, D!RunIds, RunIds,
         D!NoCall, NoCall, D!NoMemory, NoMemory
<1>2. D!Idle = Idle /\ D!Known = Known /\ D!Resumable = Resumable
  BY <1>1 DEF D!Known, Known, D!Idle, Idle, D!Resumable, Resumable
<1>3. D!Launched = Launched
  BY <1>1 DEF D!Launched, Launched
<1>4. D!FreshRun = FreshRun
  BY <1>1, <1>3 DEF D!FreshRun, FreshRun
<1>5. \A s, a, n : D!Result(s, a, n) = Result(s, a, n)
  BY <1>1 DEF D!Result, Result
<1>6. \A a : D!Intent(a) = Intent(a)
  BY <1>1, <1>5 DEF D!Intent, Intent
<1>7. \A r : (D!Alive(r) <=> Alive(r)) /\ (D!Active(r) <=> Active(r)) /\ (D!Terminal(r) <=> Terminal(r))
  BY DEF D!Alive, Alive, D!Active, Active, D!Terminal, Terminal
<1>8. \A r, b, h : D!Remember(r, b, h) <=> Remember(r, b, h)
  BY <1>1 DEF D!Remember, Remember
<1>9. D!Return = Return /\ \A o, p, a : D!Begin(o, p, a) <=> Begin(o, p, a)
  BY <1>1 DEF D!Begin, Begin, D!Return, Return
<1>10. /\ \A a, s : D!Launch(a, s) <=> Launch(a, s)
       /\ \A r, s : D!MoveRun(r, s) <=> MoveRun(r, s)
  BY <1>1, <1>3, <1>4 DEF D!Launch, Launch, D!MoveRun, MoveRun
<1>11. D!BeginSubmit = BeginSubmit /\ D!SubmitRefused = SubmitRefused /\ D!Reopen = Reopen
  BY <1>1, <1>2, <1>5, <1>6
  DEF D!BeginSubmit, BeginSubmit, D!SubmitRefused, SubmitRefused, D!Reopen, Reopen,
      D!Remember, Remember, D!Begin, Begin, D!Planned, Planned, D!Return, Return
<1> QED  BY <1>1, <1>2, <1>3, <1>4, <1>5, <1>6, <1>7, <1>8, <1>9, <1>10, <1>11
DockerOK == /\ kind = "docker" /\ ClientOK /\ Remote
            /\ site \in [D!Kinds -> SUBSET RunIds] /\ DockerInv

LEMMA DockerPut ==
  ASSUME site \in [D!Kinds -> SUBSET RunIds], NEW r \in RunIds, NEW k \in D!Kinds, D!Put(r, {k})
  PROVE  /\ site' \in [D!Kinds -> SUBSET RunIds]
         /\ site'[k] = site[k] \cup {r}
         /\ \A j \in D!Kinds \ {k} : site'[j] = site[j]
BY DEF D!Put

(* docker rm: the container is gone, and so is its process.                  *)
LEMMA DockerRemoved ==
  ASSUME DockerOK, NEW r \in RunIds, D!Removed(r, {})
  PROVE  /\ site' \in [D!Kinds -> SUBSET RunIds]
         /\ \A k \in {"exists", "removing"} : site'[k] = site[k] \ {r}
         /\ \A k \in D!Kinds \ {"exists", "removing"} : site'[k] = site[k]
         /\ RunsStop /\ \A q \in RunIds : runs'[q].attempt = runs[q].attempt
         /\ \A q \in RunIds : Holds(q, site["exists"], site'["exists"])
<1>1. /\ site' = [k \in D!Kinds |-> IF k \in {"exists", "removing"} THEN site[k] \ {r}
                                    ELSE IF k \in {} THEN site[k] \cup {r} ELSE site[k]]
      /\ IF Alive(r) THEN MoveRun(r, "stopped") ELSE UNCHANGED runs
  BY DockerNames DEF D!Removed
<1>2. {"exists", "removing"} \subseteq D!Kinds
  BY DEF D!Kinds
<1>3. /\ site' \in [D!Kinds -> SUBSET RunIds]
      /\ \A k \in {"exists", "removing"} : site'[k] = site[k] \ {r}
      /\ \A k \in D!Kinds \ {"exists", "removing"} : site'[k] = site[k]
  BY <1>1, <1>2 DEF DockerOK
<1>4. CASE Alive(r)
  <2>1. runs[r].state # "none"
    BY <1>4 DEF Alive
  <2>2. /\ runs' \in RunTable /\ runs'[r].state = "stopped"
        /\ \A q \in RunIds \ {r} : runs'[q] = runs[q]
        /\ \A q \in RunIds : runs'[q].attempt = runs[q].attempt
    BY <1>1, <1>4, <2>1, MoveFacts DEF DockerOK, ClientOK, RunStates
  <2>3. RunsStop
    BY <1>4, <2>2 DEF RunsStop
  <2> QED  BY <1>3, <1>4, <2>2, <2>3 DEF Holds, Alive
<1>5. CASE ~ Alive(r)
  BY <1>1, <1>3, <1>5, StillStops DEF DockerOK, Holds, Alive
<1> QED  BY <1>4, <1>5

(* What a step leaves true that launches no container.                       *)
LEMMA DockerKeeps ==
  ASSUME DockerOK, ClientOK', Remote', UNCHANGED kind, Launched' = Launched,
         \A r \in RunIds : runs'[r].attempt = runs[r].attempt,
         site' \in [D!Kinds -> SUBSET RunIds],
         \A r \in RunIds : Holds(r, site["exists"], site'["exists"]),
         Guards(site'),
         ContainerMarks(Current', site'["exists"], site'["late"], Launched),
         \/ call' = NoCall
         \/ /\ call'.pc \in {call.pc, "launched", "watched"} /\ ~ Idle
            /\ call'.op = call.op /\ call'.attempt = call.attempt
            /\ call'.pc = "watched" => call'.run # NoRun
            /\ Current' = Current
         \/ /\ call'.pc = "launching" /\ call'.op # "submit"
            /\ call'.attempt = Current'.attempt + 1
  PROVE  DockerOK'
<1>1. Launched \subseteq RunIds
  BY DEF Launched
<1>2. \A r \in Launched' : Alive(r)' => r \in site'["exists"]
  BY <1>1 DEF DockerOK, DockerInv, Reserved, Holds
<1>3. Reserved(site["exists"])'
  BY <1>2 DEF DockerOK, DockerInv, Reserved, Idle, NextAttempt, NoCall
<1>4. Guards(site)'
  BY DEF Guards
<1>5. /\ call'.pc \in {"idle", "launching", "launched", "watched"}
      /\ call'.pc = "watched" => call'.run # NoRun
  BY DEF DockerOK, DockerInv, NoCall
<1>6. call'.op = "submit" => Current'.marks \subseteq {"intent"}
  BY DEF DockerOK, DockerInv, NoCall
<1>7. DockerInv'
  BY <1>3, <1>4, <1>5, <1>6 DEF DockerInv, ContainerMarks
<1> QED  BY <1>7 DEF DockerOK

(* The results a query can end with.                                         *)
LEMMA DockerResults ==
  ASSUME DockerOK
  PROVE  /\ \A s \in Statuses :
              /\ D!As(s) \in Rows /\ D!As(s).status = s /\ D!As(s).run = Current.run
              /\ D!As(s).attempt = Current.attempt /\ D!As(s).marks = Current.marks
              /\ D!Pending(s) \in Rows /\ D!Pending(s).status = s
              /\ D!Pending(s).run = Current.run /\ D!Pending(s).attempt = Current.attempt
              /\ D!Pending(s).marks = (Current.marks \ {"timed_out"}) \cup {"cleanup_pending"}
         /\ D!TimedOut \in Rows /\ D!TimedOut.status = "FAILED"
         /\ D!TimedOut.run = Current.run /\ D!TimedOut.attempt = Current.attempt
         /\ D!TimedOut.marks = (Current.marks \ {"cleanup_pending"}) \cup {"timed_out"}
<1>1. Current \in Rows /\ "FAILED" \in Statuses
  BY CurrentFacts DEF DockerOK, Remote, Statuses
<1>2. \A s \in Statuses :
        /\ D!As(s) \in Rows /\ D!As(s).status = s /\ D!As(s).run = Current.run
        /\ D!As(s).attempt = Current.attempt /\ D!As(s).marks = Current.marks
  BY <1>1, DockerNames, StatusFacts DEF D!As
<1>3. ASSUME NEW x \in Rows, NEW m \in SUBSET Marks
      PROVE  LET y == [x EXCEPT !.marks = m]
             IN /\ y \in Rows /\ y.status = x.status /\ y.run = x.run
                /\ y.attempt = x.attempt /\ y.marks = m
  BY DEF Rows
<1>4. Current.marks \in SUBSET Marks /\ {"timed_out", "cleanup_pending"} \subseteq Marks
  BY <1>1 DEF Rows, Marks
<1>5. ASSUME NEW s \in Statuses
      PROVE  /\ D!Pending(s) \in Rows /\ D!Pending(s).status = s
             /\ D!Pending(s).run = Current.run /\ D!Pending(s).attempt = Current.attempt
             /\ D!Pending(s).marks = (Current.marks \ {"timed_out"}) \cup {"cleanup_pending"}
  <2>1. PICK x \in Rows : x = D!As(s)
    BY <1>2
  <2>2. PICK m \in SUBSET Marks : m = (Current.marks \ {"timed_out"}) \cup {"cleanup_pending"}
    BY <1>4
  <2>3. D!Pending(s) = [x EXCEPT !.marks = m]
    BY <1>2, <2>1, <2>2 DEF D!Pending
  <2> QED  BY <1>2, <1>3, <2>1, <2>2, <2>3
<1>6. /\ D!TimedOut \in Rows /\ D!TimedOut.status = "FAILED"
      /\ D!TimedOut.run = Current.run /\ D!TimedOut.attempt = Current.attempt
      /\ D!TimedOut.marks = (Current.marks \ {"cleanup_pending"}) \cup {"timed_out"}
  <2>1. PICK x \in Rows : x = D!As("FAILED")
    BY <1>1, <1>2
  <2>2. PICK m \in SUBSET Marks : m = (Current.marks \ {"cleanup_pending"}) \cup {"timed_out"}
    BY <1>4
  <2>3. D!TimedOut = [x EXCEPT !.marks = m]
    BY <1>1, <1>2, <2>1, <2>2 DEF D!TimedOut
  <2> QED  BY <1>1, <1>2, <1>3, <2>1, <2>2, <2>3
<1> QED  BY <1>2, <1>5, <1>6

(* A query keeps a deadline enforced and a cleanup pending, and removes at    *)
(* most the container the result names.                                      *)
LEMMA DockerInspects ==
  ASSUME DockerOK, NEW result, D!Inspect(result)
  PROVE  /\ result \in Rows /\ result.status \in Statuses \ {"PLANNED"}
         /\ result.attempt = Current.attempt
         /\ result.status = "SUCCEEDED" => Won(result.attempt)
         /\ RunsStop /\ \A q \in RunIds : runs'[q].attempt = runs[q].attempt
         /\ site' \in [D!Kinds -> SUBSET RunIds]
         /\ \A r \in RunIds : Holds(r, site["exists"], site'["exists"])
         /\ Guards(site')
         /\ ContainerMarks(result, site'["exists"], site'["late"], Launched)
         /\ "timed_out" \in Current.marks => result.status = "FAILED"
         /\ "cleanup_pending" \in Current.marks => result.status # "SUCCEEDED"
<1>1. /\ Guards(site) /\ ContainerMarks(Current, site["exists"], site["late"], Launched)
      /\ site \in [D!Kinds -> SUBSET RunIds] /\ Current \in Rows
      /\ D!Kinds = {"exists", "removing", "late", "guarded", "firing", "verified", "marker"}
      /\ {"RUNNING", "UNKNOWN", "FAILED", "SUCCEEDED", "CANCELLED"} \subseteq Statuses \ {"PLANNED"}
  BY CurrentFacts DEF DockerOK, DockerInv, Remote, D!Kinds, Statuses
<1> DEFINE Quiet == UNCHANGED <<runs, site>>
           Gone == \E r \in site["exists"] : /\ r = Current.run
                                             /\ runs[r].attempt = Current.attempt
                                             /\ D!Removed(r, {})
           Late == Current.run # NoRun /\ Current.run \in site["late"]
<1>2. \/ Quiet /\ result = D!TimedOut /\ Current.run # NoRun /\ Current.run \notin site["exists"]
      \/ /\ Quiet /\ Late /\ "timed_out" \notin Current.marks
         /\ result \in {D!Pending("RUNNING"), D!Pending("UNKNOWN")}
      \/ Gone /\ Late /\ result \in {D!TimedOut, D!Pending("RUNNING"), D!Pending("UNKNOWN")}
      \/ /\ Quiet /\ "timed_out" \notin Current.marks
         /\ \E s \in {"UNKNOWN", "RUNNING", "CANCELLED", "FAILED", "SUCCEEDED"} :
              /\ result = D!As(s) /\ (s = "SUCCEEDED" => Won(Current.attempt))
              /\ "cleanup_pending" \in Current.marks => s = "UNKNOWN"
  <2>1. CASE D!Enforced
    <3>1. Quiet /\ result = D!TimedOut
      BY <2>1 DEF D!Inspect
    <3>2. \/ "timed_out" \in Current.marks
          \/ Current.run # NoRun /\ Current.run \in site["marker"]
      BY <2>1, DockerNames DEF D!Enforced, D!Has
    <3> QED  BY <1>1, <3>1, <3>2 DEF Guards, ContainerMarks
  <2>2. CASE ~ D!Enforced /\ D!Unseen(result)
    <3>1. Quiet /\ "timed_out" \notin Current.marks
      BY <2>2, DockerNames DEF D!Enforced, D!Unseen
    <3>2. D!Elapsed <=> Late
      BY DockerNames DEF D!Elapsed, D!Has
    <3> QED  BY <1>1, <2>2, <3>1, <3>2 DEF D!Unseen, ContainerMarks
  <2>3. CASE ~ D!Enforced /\ \E r \in D!Named(D!Current.attempt) : D!Seen(r, result)
    <3>1. "timed_out" \notin Current.marks
      BY <2>3, DockerNames DEF D!Enforced
    <3>2. PICK r \in site["exists"] : runs[r].attempt = Current.attempt /\ D!Seen(r, result)
      BY <2>3, DockerNames DEF D!Named
    <3>3. PICK state, mine, tested, due :
            /\ state = D!ContainerState(r)
            /\ mine = (r = Current.run)
            /\ tested = (state \notin {"FAILED"} \/ "cleanup_pending" \in Current.marks)
            /\ due = (mine /\ D!Elapsed /\ tested)
      OBVIOUS
    <3>4. CASE Current.run # NoRun /\ r # Current.run
      <4>1. result = D!As("UNKNOWN") /\ Quiet
        BY <3>2, <3>4, DockerNames DEF D!Seen
      <4> QED  BY <3>1, <4>1
    <3>5. CASE ~ (Current.run # NoRun /\ r # Current.run)
      <4>1. /\ state \in {"RUNNING", "CANCELLED", "FAILED", "SUCCEEDED"}
            /\ state = "SUCCEEDED" => runs[r].state = "won"
        BY <3>3, DockerNames DEF D!ContainerState
      <4>2. state = "SUCCEEDED" => Won(Current.attempt)
        BY <1>1, <3>2, <4>1 DEF Won, Guards, Launched
      <4>3. "cleanup_pending" \in Current.marks => due
        BY <1>1, <3>3, <3>5, DockerNames DEF ContainerMarks, D!Elapsed, D!Has
      <4>4. due => r = Current.run /\ Late
        BY <3>3, DockerNames DEF D!Elapsed, D!Has
      <4>5. CASE due /\ D!Has(r, "removing")
        <5>1. result = D!Pending("RUNNING") /\ Quiet
          BY <3>2, <3>3, <3>5, <4>5, DockerNames DEF D!Seen
        <5> QED  BY <3>1, <4>4, <4>5, <5>1
      <4>6. CASE due /\ ~ D!Has(r, "removing") /\ (state = "RUNNING" \/ D!CleaningUp)
        <5>1. \/ D!Removed(r, {}) /\ result \in {D!TimedOut, D!Pending("RUNNING"), D!Pending("UNKNOWN")}
              \/ Quiet /\ result \in {D!Pending("RUNNING"), D!Pending("UNKNOWN")}
          BY <3>2, <3>3, <3>5, <4>6, DockerNames DEF D!Seen
        <5> QED  BY <3>1, <3>2, <4>4, <4>6, <5>1
      <4>7. CASE ~ due \/ (~ D!Has(r, "removing") /\ ~ (state = "RUNNING" \/ D!CleaningUp))
        <5>1. result = D!As(state) /\ Quiet
          BY <3>2, <3>3, <3>5, <4>7, DockerNames DEF D!Seen
        <5>2. "cleanup_pending" \notin Current.marks
          BY <3>3, <4>3, <4>7, DockerNames DEF D!CleaningUp
        <5> QED  BY <3>1, <4>1, <4>2, <5>1, <5>2
      <4> QED  BY <4>5, <4>6, <4>7
    <3> QED  BY <3>4, <3>5
  <2> QED  BY <2>1, <2>2, <2>3 DEF D!Inspect
<1>3. CASE ~ (Gone /\ Late /\ result \in {D!TimedOut, D!Pending("RUNNING"), D!Pending("UNKNOWN")})
  <2>1. /\ RunsStop /\ UNCHANGED <<runs, site>>
        /\ \A r \in RunIds : Holds(r, site["exists"], site'["exists"])
    BY <1>2, <1>3, StillStops DEF DockerOK, Holds, Alive
  <2>2. CASE result = D!TimedOut /\ Current.run # NoRun /\ Current.run \notin site["exists"]
    BY <1>1, <2>1, <2>2, DockerResults DEF ContainerMarks
  <2>3. CASE /\ Late /\ "timed_out" \notin Current.marks
             /\ result \in {D!Pending("RUNNING"), D!Pending("UNKNOWN")}
    BY <1>1, <2>1, <2>3, DockerResults DEF ContainerMarks
  <2>4. CASE /\ "timed_out" \notin Current.marks
             /\ \E s \in {"UNKNOWN", "RUNNING", "CANCELLED", "FAILED", "SUCCEEDED"} :
                  /\ result = D!As(s) /\ (s = "SUCCEEDED" => Won(Current.attempt))
                  /\ "cleanup_pending" \in Current.marks => s = "UNKNOWN"
    BY <1>1, <2>1, <2>4, DockerResults DEF ContainerMarks, Won
  <2> QED  BY <1>2, <1>3, <2>2, <2>3, <2>4
<1>4. CASE Gone /\ Late /\ result \in {D!TimedOut, D!Pending("RUNNING"), D!Pending("UNKNOWN")}
  <2>1. site["exists"] \subseteq RunIds
    BY <1>1
  <2>2. PICK r \in RunIds : /\ r = Current.run /\ r \in site["exists"] /\ r \in site["late"]
                            /\ runs[r].attempt = Current.attempt /\ r # NoRun
                            /\ D!Removed(r, {})
    BY <1>4, <2>1
  <2>3. /\ site' \in [D!Kinds -> SUBSET RunIds]
        /\ \A k \in {"exists", "removing"} : site'[k] = site[k] \ {r}
        /\ \A k \in D!Kinds \ {"exists", "removing"} : site'[k] = site[k]
        /\ RunsStop /\ \A q \in RunIds : runs'[q].attempt = runs[q].attempt
        /\ \A q \in RunIds : Holds(q, site["exists"], site'["exists"])
    BY <2>2, DockerRemoved
  <2>4. Guards(site')
    BY <1>1, <2>3 DEF Guards
  <2>5. site'["exists"] = site["exists"] \ {r} /\ site'["late"] = site["late"]
    BY <1>1, <2>3
  <2>6. /\ result \in Rows /\ result.status \in {"FAILED", "RUNNING", "UNKNOWN"}
        /\ result.attempt = Current.attempt /\ result.run = r
        /\ \/ result = D!TimedOut
           \/ "timed_out" \notin result.marks
        /\ result.marks \subseteq Current.marks \cup {"timed_out", "cleanup_pending"}
        /\ result = D!TimedOut => result.status = "FAILED" /\ "cleanup_pending" \notin result.marks
    BY <1>1, <1>4, <2>2, DockerResults
  <2>7. ContainerMarks(result, site'["exists"], site'["late"], Launched)
    BY <1>1, <2>2, <2>5, <2>6 DEF ContainerMarks, Guards
  <2>8. "timed_out" \notin Current.marks
    BY <1>1, <2>2 DEF ContainerMarks
  <2> QED  BY <1>1, <2>3, <2>4, <2>6, <2>7, <2>8
<1> QED  BY <1>2, <1>3, <1>4

(* Steps that leave the row, or save a result that respects its flags.       *)
LEMMA DockerSettled ==
  ASSUME DockerOK, UNCHANGED kind,
         \/ row' = row
         \/ /\ "timed_out" \in Current.marks /\ row'.attempt = Current.attempt
                 => row'.status = "FAILED"
            /\ "cleanup_pending" \in Current.marks /\ row'.attempt = Current.attempt
                 => row'.status # "SUCCEEDED"
  PROVE  DeadlineStep /\ CleanupStep
<1>1. row = NoRow => row.marks = {}
  BY NoRowFacts
<1>2. row # NoRow => Current = row
  BY CurrentFacts DEF DockerOK, Remote
<1>3. ContainerMarks(Current, site["exists"], site["late"], Launched)
  BY DEF DockerOK, DockerInv
<1>4. kind = "docker"
  BY DEF DockerOK
<1> QED  BY <1>1, <1>2, <1>3, <1>4 DEF DeadlineStep, CleanupStep, ContainerMarks

(* An answer about the known attempt is saved.                               *)
LEMMA DockerAnswered ==
  ASSUME DockerOK, UNCHANGED kind, Idle, Known, NEW r \in Rows, NEW h, h = memory.handle,
         Remember(r, TRUE, h), r.status \in Statuses,
         r.status # "PLANNED" \/ (r = Planned /\ row = NoRow),
         r.attempt = Current.attempt, r.status = "SUCCEEDED" => Won(r.attempt),
         RunsStop, \A q \in RunIds : runs'[q].attempt = runs[q].attempt,
         site' \in [D!Kinds -> SUBSET RunIds],
         \A q \in RunIds : Holds(q, site["exists"], site'["exists"]),
         Guards(site'), ContainerMarks(r, site'["exists"], site'["late"], Launched),
         "timed_out" \in Current.marks => r.status = "FAILED",
         "cleanup_pending" \in Current.marks => r.status # "SUCCEEDED",
         \/ call' = NoCall
         \/ /\ r.status # "PLANNED" /\ r.attempt < MaxAttempt
            /\ call' = [op |-> "resume", pc |-> "launching", run |-> NoRun,
                        attempt |-> r.attempt + 1]
  PROVE  DockerOK' /\ RunStep /\ DeadlineStep /\ CleanupStep
<1>1. h \in Handles /\ call = NoCall
  BY DEF DockerOK, ClientOK, Remote, CallShape
<1>2. /\ call' \in Calls /\ call'.run = NoRun
      /\ call' = NoCall \/ (call'.pc # "idle" /\ r.status # "PLANNED")
  <2>1. NoCall \in Calls /\ NoCall.run = NoRun
    BY AttemptFacts DEF Calls, NoCall, NoRun
  <2>2. CASE call' = NoCall
    BY <2>1, <2>2
  <2>3. CASE call' # NoCall
    <3>1. r.attempt + 1 \in Attempts
      BY <2>3, ClientAssumption DEF Rows, Attempts
    <3>2. PICK a \in Attempts : a = r.attempt + 1
      BY <3>1
    <3> QED  BY <2>3, <3>2, AttemptFacts DEF Calls, NoRun
  <2> QED  BY <2>2, <2>3
<1>3. /\ ClientOK' /\ Remote' /\ Current' = r /\ Launched' = Launched /\ RunStep
      /\ r.status # "PLANNED" => row' = r
  BY <1>1, <1>2, AnswerKeeps DEF DockerOK
<1>4. r.status = "PLANNED" => row' = row
  BY <1>1, RememberFacts DEF DockerOK, Remote
<1>5. \/ call' = NoCall
      \/ call'.pc = "launching" /\ call'.op # "submit" /\ call'.attempt = r.attempt + 1
  OBVIOUS
<1>6. DockerOK'
  BY <1>3, <1>5, DockerKeeps
<1>7. DeadlineStep /\ CleanupStep
  BY <1>3, <1>4, DockerSettled
<1> QED  BY <1>3, <1>6, <1>7

LEMMA DockerQueries ==
  ASSUME DockerOK, UNCHANGED kind, D!Status \/ D!Resume
  PROVE  DockerOK' /\ RunStep /\ DeadlineStep /\ CleanupStep
<1>1. Idle /\ Known
  BY DockerNames, CurrentFacts DEF D!Status, D!Resume, Resumable, DockerOK, Remote
<1>2. PICK result : /\ D!Inspect(result) /\ \E h : h = memory.handle /\ Remember(result, TRUE, h)
                    /\ \/ call' = call \/ call' = NoCall
                       \/ /\ Current.attempt < MaxAttempt
                          /\ call' = [op |-> "resume", pc |-> "launching", run |-> NoRun,
                                      attempt |-> Current.attempt + 1]
  BY DockerNames DEF D!Status, D!Resume, D!Keep, Return, Begin
<1>3. call = NoCall
  BY <1>1 DEF DockerOK, Remote, CallShape
<1>4. /\ result \in Rows /\ result.status \in Statuses \ {"PLANNED"}
      /\ result.attempt = Current.attempt
      /\ result.status = "SUCCEEDED" => Won(result.attempt)
      /\ RunsStop /\ \A q \in RunIds : runs'[q].attempt = runs[q].attempt
      /\ site' \in [D!Kinds -> SUBSET RunIds]
      /\ \A r \in RunIds : Holds(r, site["exists"], site'["exists"])
      /\ Guards(site')
      /\ ContainerMarks(result, site'["exists"], site'["late"], Launched)
      /\ "timed_out" \in Current.marks => result.status = "FAILED"
      /\ "cleanup_pending" \in Current.marks => result.status # "SUCCEEDED"
  BY <1>2, DockerInspects
<1> QED  BY <1>1, <1>2, <1>3, <1>4, DockerAnswered

(* docker stop, with or without an effect on the container.                  *)
LEMMA DockerCancel ==
  ASSUME DockerOK, UNCHANGED kind, D!Cancel
  PROVE  DockerOK' /\ RunStep /\ DeadlineStep /\ CleanupStep
<1>1. Idle /\ Known /\ UNCHANGED <<call, site>> /\ call = NoCall
  BY DockerNames DEF D!Cancel, DockerOK, Remote, CallShape
<1>2. PICK result : /\ \E h : h = memory.handle /\ Remember(result, TRUE, h)
                    /\ \/ result = Current /\ UNCHANGED runs
                       \/ /\ \E s \in {"CANCELLED", "FAILED"} : result = D!As(s)
                          /\ Current.run # NoRun /\ Current.run \in site["exists"]
                          /\ \/ UNCHANGED runs
                             \/ \E r \in site["exists"] : Alive(r) /\ MoveRun(r, "stopped")
  BY DockerNames DEF D!Cancel, D!Keep, D!Has
<1>3. /\ Guards(site) /\ ContainerMarks(Current, site["exists"], site["late"], Launched)
      /\ site \in [D!Kinds -> SUBSET RunIds] /\ Current \in Rows /\ Current.status \in Statuses
      /\ Current.status # "PLANNED" \/ (Current = Planned /\ row = NoRow)
      /\ Current.status = "SUCCEEDED" => Won(Current.attempt)
      /\ {"FAILED", "CANCELLED"} \subseteq Statuses \ {"PLANNED"}
  BY <1>1, CurrentFacts DEF DockerOK, DockerInv, Remote, Saved, Known, Justified, Statuses
<1>4. RunsStop /\ \A q \in RunIds : runs'[q].attempt = runs[q].attempt
  <2>1. CASE UNCHANGED runs
    BY <2>1, StillStops DEF DockerOK
  <2>2. CASE \E r \in site["exists"] : Alive(r) /\ MoveRun(r, "stopped")
    <3>1. PICK r \in RunIds : Alive(r) /\ MoveRun(r, "stopped")
      BY <1>3, <2>2 DEF Guards, Launched
    <3>2. /\ runs' \in RunTable /\ runs'[r].state = "stopped"
          /\ \A q \in RunIds \ {r} : runs'[q] = runs[q]
          /\ \A q \in RunIds : runs'[q].attempt = runs[q].attempt
      BY <3>1, MoveFacts DEF DockerOK, ClientOK, RunStates, Alive
    <3> QED  BY <3>1, <3>2 DEF RunsStop
  <2> QED  BY <1>2, <2>1, <2>2
<1>5. /\ result \in Rows /\ result.status \in Statuses /\ result.attempt = Current.attempt
      /\ result.status # "PLANNED" \/ (result = Planned /\ row = NoRow)
      /\ result.status = "SUCCEEDED" => Won(result.attempt)
      /\ ContainerMarks(result, site["exists"], site["late"], Launched)
      /\ "timed_out" \in Current.marks => result.status = "FAILED"
      /\ "cleanup_pending" \in Current.marks => result.status # "SUCCEEDED"
  <2>1. CASE result = Current
    BY <1>3, <2>1 DEF ContainerMarks, Won
  <2>2. CASE /\ \E s \in {"CANCELLED", "FAILED"} : result = D!As(s)
             /\ Current.run # NoRun /\ Current.run \in site["exists"]
    BY <1>3, <2>2, DockerResults DEF ContainerMarks
  <2> QED  BY <1>2, <2>1, <2>2
<1>6. \A r \in RunIds : Holds(r, site["exists"], site'["exists"])
  BY <1>1, <1>4 DEF RunsStop, Holds, Alive
<1> QED  BY <1>1, <1>2, <1>3, <1>4, <1>5, <1>6, DockerAnswered

(* Before a container there is nothing to guard.                             *)
LEMMA DockerNothing ==
  ASSUME DockerOK, ClientOK', Remote', UNCHANGED <<kind, runs, site>>, Launched = {},
         Current'.run = NoRun, Current'.marks \subseteq {"intent"},
         \/ call' = NoCall
         \/ /\ call'.pc = "launching" /\ call'.op = "submit"
            /\ call'.attempt = Current'.attempt
  PROVE  DockerOK'
<1>1. Launched' = {}
  BY DEF Launched
<1>2. \A k \in {"exists", "guarded", "late", "firing", "removing", "verified", "marker"} :
        site[k] = {}
  BY DEF DockerOK, DockerInv, Guards
<1>3. Guards(site)'
  BY <1>1, <1>2 DEF Guards
<1>4. Reserved(site["exists"])'
  BY <1>1 DEF Reserved, Idle, NextAttempt, NoCall
<1>5. DockerInv'
  BY <1>1, <1>2, <1>3, <1>4 DEF DockerInv, ContainerMarks, NoCall
<1> QED  BY <1>5 DEF DockerOK

LEMMA DockerBegins ==
  ASSUME DockerOK, UNCHANGED kind, BeginSubmit \/ SubmitRefused \/ Reopen
  PROVE  DockerOK' /\ RunStep /\ DeadlineStep /\ CleanupStep
<1>1. CASE BeginSubmit
  <2>1. /\ ClientOK' /\ Remote' /\ Current' = Intent(1) /\ row = NoRow /\ Launched = {}
        /\ call' = [op |-> "submit", pc |-> "launching", run |-> NoRun, attempt |-> 1]
        /\ UNCHANGED <<runs, site>> /\ RunStep
    BY <1>1, BeginSubmitFacts DEF DockerOK
  <2>2. Intent(1).attempt = 1 /\ Intent(1).marks = {"intent"} /\ Intent(1).run = NoRun
    BY AttemptFacts, IntentFacts
  <2>3. DockerOK'
    BY <2>1, <2>2, DockerNothing
  <2> QED  BY <2>1, <2>3, NoRowFacts DEF DeadlineStep, CleanupStep
<1>2. CASE SubmitRefused
  <2>1. /\ ClientOK' /\ Remote' /\ Current' = Planned /\ row = NoRow /\ Launched = {}
        /\ call' = NoCall /\ UNCHANGED <<runs, site>> /\ RunStep
    BY <1>2, SubmitRefusedFacts DEF DockerOK
  <2>2. DockerOK'
    BY <2>1, PlannedFacts, DockerNothing
  <2> QED  BY <2>1, <2>2, NoRowFacts DEF DeadlineStep, CleanupStep
<1>3. CASE Reopen
  <2>1. /\ ClientOK' /\ Remote' /\ Current' = row /\ call' = NoCall /\ row' = row
        /\ row = NoRow => Launched = {}
        /\ row # NoRow => Current = row
        /\ UNCHANGED <<runs, site>> /\ RunStep
    BY <1>3, ReopenFacts DEF DockerOK
  <2>2. DockerOK'
    <3>1. CASE row = NoRow
      BY <2>1, <3>1, NoRowFacts, DockerNothing
    <3>2. CASE row # NoRow
      <4>1. /\ Launched' = Launched /\ Guards(site')
            /\ ContainerMarks(Current, site["exists"], site["late"], Launched)
        BY <2>1 DEF Launched, DockerOK, DockerInv, Guards
      <4>2. /\ site' \in [D!Kinds -> SUBSET RunIds] /\ site'["exists"] = site["exists"]
            /\ ContainerMarks(Current', site'["exists"], site'["late"], Launched)
        BY <2>1, <3>2, <4>1 DEF DockerOK
      <4>3. \A r \in RunIds : /\ runs'[r].attempt = runs[r].attempt
                               /\ Holds(r, site["exists"], site'["exists"])
        BY <2>1 DEF Holds, Alive
      <4> QED  BY <2>1, <3>2, <4>1, <4>2, <4>3, DockerKeeps
    <3> QED  BY <3>1, <3>2
  <2> QED  BY <2>1, <2>2, DockerSettled
<1> QED  BY <1>1, <1>2, <1>3

(* The controller waits, or gives up without an answer, while the machine     *)
(* goes on: what is known stays, and no container is launched.               *)
LEMMA DockerQuiet ==
  ASSUME DockerOK, UNCHANGED <<row, memory, kind>>, RunsKept, Launched' = Launched,
         \A r \in RunIds : runs'[r].attempt = runs[r].attempt,
         site' \in [D!Kinds -> SUBSET RunIds], site'["exists"] \subseteq site["exists"],
         site["late"] \subseteq site'["late"],
         \A r \in RunIds : Holds(r, site["exists"], site'["exists"]),
         Guards(site'),
         \/ call' = call \/ call' = NoCall
         \/ ~ Idle /\ call' = [call EXCEPT !.pc = "launched"] /\ call.run = NoRun
         \/ ~ Idle /\ call' = [call EXCEPT !.pc = "watched"] /\ call.run # NoRun
  PROVE  DockerOK' /\ DeadlineStep /\ CleanupStep
<1>1. /\ call \in Calls /\ NoCall \in Calls /\ NoCall.run = NoRun
      /\ call.run # NoRun => /\ call.pc \in {"launched", "watched"} /\ call.run \in Launched
                             /\ call.run \in RunIds
                             /\ runs[call.run].attempt = call.attempt
      /\ call.pc = "watched" => call.run # NoRun
      /\ Idle => call = NoCall
  BY AttemptFacts
  DEF DockerOK, DockerInv, ClientOK, Remote, CallShape, Calls, NoCall, NoRun, Launched
<1>2. \/ call' = call \/ call' = NoCall
      \/ /\ ~ Idle /\ call'.pc \in {"launched", "watched"} /\ call'.run = call.run
         /\ call' \in Calls /\ (call'.pc = "watched" => call.run # NoRun)
         /\ call'.op = call.op /\ call'.attempt = call.attempt
  <2>1. CASE call' = [call EXCEPT !.pc = "launched"] /\ ~ Idle
    BY <1>1, <2>1 DEF Calls
  <2>2. CASE call' = [call EXCEPT !.pc = "watched"] /\ ~ Idle /\ call.run # NoRun
    BY <1>1, <2>2 DEF Calls
  <2> QED  BY <2>1, <2>2
<1>3. ClientOK' /\ Remote' /\ Current' = Current
  <2>1. call' \in Calls
    BY <1>1, <1>2
  <2>2. call' = NoCall \/ (call'.pc # "idle" /\ ~ Idle) \/ call' = call
    BY <1>2
  <2>3. call'.run # NoRun => /\ call'.pc \in {"launched", "watched"}
                             /\ call'.run \in Launched'
                             /\ runs'[call'.run].attempt = call'.attempt
    BY <1>1, <1>2
  <2> QED  BY <2>1, <2>2, <2>3, QuietKeeps DEF DockerOK
<1>4. ContainerMarks(Current', site'["exists"], site'["late"], Launched)
  BY <1>3 DEF DockerOK, DockerInv, ContainerMarks
<1>5. DockerOK'
  BY <1>1, <1>2, <1>3, <1>4, DockerKeeps
<1> QED  BY <1>5, DockerSettled

(* docker run refuses a name that is taken, so the attempt has no other.      *)
LEMMA DockerRun ==
  ASSUME DockerOK, UNCHANGED kind, D!RunContainer
  PROVE  DockerOK' /\ RunStep /\ DeadlineStep /\ CleanupStep
<1>1. /\ call.pc = "launching" /\ UNCHANGED <<row, memory>> /\ ~ Idle /\ row # NoRow
      /\ call \in Calls /\ runs \in RunTable /\ call.attempt = NextAttempt
      /\ \A r \in site["exists"] : runs[r].attempt # call.attempt
  BY DockerNames
  DEF D!RunContainer, DockerOK, Remote, CallShape, Idle, ClientOK, DockerInv, Reserved, D!Named
<1>2. Current \in Rows /\ Current.attempt \in Nat /\ call.attempt \in Attempts
  BY CurrentFacts, AttemptFacts DEF DockerOK, Remote, Rows, ClientOK, Calls
<1>3. PICK f, a : /\ f = FreshRun /\ a = call.attempt /\ Launch(a, "running")
                  /\ D!Put(f, {"exists"})
  BY DockerNames DEF D!RunContainer
<1>4. /\ f \in RunIds \ Launched /\ runs[f].state = "none" /\ runs' \in RunTable
      /\ runs'[f].attempt = a /\ runs'[f].state = "running"
      /\ \A r \in RunIds \ {f} : runs'[r] = runs[r]
      /\ Launched' = Launched \cup {f}
      /\ call' \in Calls /\ call'.pc = "launched" /\ call'.run = f
      /\ call'.op = call.op /\ call'.attempt = call.attempt
  BY <1>1, <1>2, <1>3, LaunchFacts
<1>5. /\ site' \in [D!Kinds -> SUBSET RunIds] /\ site'["exists"] = site["exists"] \cup {f}
      /\ \A k \in {"guarded", "late", "firing", "removing", "verified", "marker"} : site'[k] = site[k]
  <2>1. "exists" \in D!Kinds /\ {"guarded", "late", "firing", "removing", "verified", "marker"} \subseteq D!Kinds
    BY DEF D!Kinds
  <2>2. /\ site' \in [D!Kinds -> SUBSET RunIds] /\ site'["exists"] = site["exists"] \cup {f}
        /\ \A k \in D!Kinds \ {"exists"} : site'[k] = site[k]
    BY <1>3, <1>4, <2>1, DockerPut DEF DockerOK
  <2> QED  BY <2>1, <2>2
<1>6. RunsKept
  BY <1>4 DEF RunsKept
<1>7. ClientOK' /\ Remote' /\ Current' = Current
  BY <1>1, <1>3, <1>4, <1>6, QuietKeeps DEF DockerOK
<1>8. LostBefore(f)
  <2>1. CASE call.op = "submit"
    BY <1>1, <2>1 DEF DockerOK, DockerInv, Reserved, LostBefore
  <2>2. CASE call.op # "submit"
    <3>1. row.attempt < a
      BY <1>1, <1>2, <1>3, <2>2, CurrentFacts DEF DockerOK, Remote, NextAttempt
    <3>2. \A q \in Launched : runs[q].attempt = a => ~ Alive(q)
      BY <1>1, <1>3 DEF DockerOK, DockerInv, Reserved
    <3> QED  BY <1>4, <3>1, <3>2 DEF DockerOK, LostBefore
  <2> QED  BY <2>1, <2>2
<1>9. RunStep
  BY <1>1, <1>4, <1>8 DEF RunStep, OneStarts
<1>10. NextAttempt' = NextAttempt
  BY <1>4, <1>7 DEF NextAttempt
<1>11. \A r \in Launched' : Alive(r)' => r \in site'["exists"]
  BY <1>4, <1>5 DEF DockerOK, DockerInv, Reserved, Launched, Alive
<1>12. Reserved(site["exists"])'
  BY <1>1, <1>4, <1>7, <1>10, <1>11 DEF Reserved, Idle
<1>13. /\ Guards(site)'
       /\ ContainerMarks(Current, site'["exists"], site'["late"], Launched')
  BY <1>4, <1>5 DEF DockerOK, DockerInv, Guards, ContainerMarks, Launched
<1>14. DockerOK'
  BY <1>1, <1>4, <1>5, <1>7, <1>12, <1>13 DEF DockerOK, DockerInv
<1> QED  BY <1>1, <1>9, <1>14, DockerSettled

(* The record of a container that is guarded, and a refusal.                 *)
LEMMA DockerReturns ==
  ASSUME DockerOK, UNCHANGED kind, D!Answered \/ D!LaunchFailed
  PROVE  DockerOK' /\ RunStep /\ DeadlineStep /\ CleanupStep
<1>1. /\ call' = NoCall /\ UNCHANGED <<runs, site>> /\ ~ Idle
      /\ memory.handle \in Handles /\ call.attempt \in Attempts /\ call.run \in 0..MaxRuns
      /\ call.attempt = NextAttempt
  BY DockerNames
  DEF D!Answered, D!LaunchFailed, Return, Idle, DockerOK, ClientOK, Calls, DockerInv, Reserved
<1>2. NoCall \in Calls /\ NoCall.run = NoRun /\ NoRun \in 0..MaxRuns
  BY AttemptFacts DEF Calls, NoCall, NoRun
<1>3. PICK a, n, h, s :
        /\ a = call.attempt /\ n \in {call.run, NoRun} /\ h = memory.handle
        /\ s \in {"SUBMITTED", "FAILED"} /\ Remember(Result(s, a, n), TRUE, h)
  BY DockerNames DEF D!Answered, D!LaunchFailed, D!Keep
<1>4. PICK r \in Rows : /\ r = Result(s, a, n) /\ r.status = s /\ r.attempt = a /\ r.run = n
                        /\ r.marks = {} /\ s \in Statuses
  <2>1. s \in Statuses
    BY <1>3 DEF Statuses
  <2> QED  BY <1>1, <1>2, <1>3, <2>1, ResultFacts
<1>5. RunsStop /\ \A q \in RunIds : Holds(q, site["exists"], site'["exists"])
  BY <1>1, StillStops DEF DockerOK, Holds, Alive
<1>6. /\ ClientOK' /\ Remote' /\ Current' = r /\ Launched' = Launched /\ RunStep /\ row' = r
  BY <1>1, <1>2, <1>3, <1>4, <1>5, AnswerKeeps DEF DockerOK
<1>7. /\ Guards(site') /\ site' \in [D!Kinds -> SUBSET RunIds]
      /\ call.run # NoRun => call.run \in Launched
      /\ \A q \in RunIds : runs'[q].attempt = runs[q].attempt
  BY <1>1 DEF DockerOK, DockerInv, Remote, CallShape
<1>8. Current.attempt \in Nat /\ call.attempt \in Nat
  BY <1>1, CurrentFacts, AttemptFacts DEF DockerOK, Remote, Rows
<1>9. ContainerMarks(r, site'["exists"], site'["late"], Launched)
  BY <1>3, <1>4, <1>7 DEF ContainerMarks
<1>10. DockerOK'
  BY <1>1, <1>5, <1>6, <1>7, <1>9, DockerKeeps
<1>11. r.attempt = Current.attempt => Current.marks \subseteq {"intent"}
  BY <1>1, <1>3, <1>4, <1>8 DEF NextAttempt, DockerOK, DockerInv
<1> QED  BY <1>6, <1>10, <1>11, DockerSettled

(* The call is told nothing: no container, an answer that is lost, or a       *)
(* watchdog that does not start, which makes a submit remove the container.   *)
LEMMA DockerSilent ==
  ASSUME DockerOK, UNCHANGED kind,
         D!RunRefused \/ D!Raised \/ D!WatchdogFails \/ D!WatchdogStarts
  PROVE  DockerOK' /\ RunStep /\ DeadlineStep /\ CleanupStep
<1>1. /\ UNCHANGED <<row, memory>> /\ ~ Idle
      /\ \/ call' = NoCall
         \/ call' = [call EXCEPT !.pc = "launched"] /\ call.run = NoRun
         \/ call' = [call EXCEPT !.pc = "watched"] /\ call.run # NoRun
  BY DockerNames
  DEF D!RunRefused, D!Goto, D!Raised, D!WatchdogFails, D!WatchdogStarts, Return, Idle,
      DockerOK, Remote, CallShape
<1>2. /\ Guards(site) /\ site \in [D!Kinds -> SUBSET RunIds]
      /\ call.run # NoRun => call.run \in RunIds /\ call.run \in Launched
  BY <1>1 DEF DockerOK, DockerInv, Remote, CallShape, Launched
<1>3. CASE UNCHANGED <<runs, site>>
  <2>1. /\ RunsStop /\ RunsKept /\ Launched' = Launched
        /\ \A q \in RunIds : Holds(q, site["exists"], site'["exists"])
    BY <1>3, StillStops, StopKeeps DEF DockerOK, Holds, Alive
  <2>2. Guards(site')
    BY <1>2, <1>3
  <2>3. DockerOK' /\ DeadlineStep /\ CleanupStep
    BY <1>1, <1>2, <1>3, <2>1, <2>2, DockerQuiet
  <2> QED  BY <1>1, <2>1, <2>3 DEF RunStep, SomeStop
<1>4. CASE D!WatchdogStarts
  <2>1. PICK r \in RunIds : r \in Launched /\ D!Put(r, {"guarded"}) /\ UNCHANGED runs
    BY <1>2, <1>4, DockerNames DEF D!WatchdogStarts
  <2>2. "guarded" \in D!Kinds
    BY DEF D!Kinds
  <2>3. /\ site' \in [D!Kinds -> SUBSET RunIds] /\ site'["guarded"] = site["guarded"] \cup {r}
        /\ \A k \in D!Kinds \ {"guarded"} : site'[k] = site[k]
    BY <1>2, <2>1, <2>2, DockerPut
  <2>4. \A k \in {"exists", "late", "firing", "removing", "verified", "marker"} :
          site'[k] = site[k]
    BY <2>3 DEF D!Kinds
  <2>5. Guards(site')
    BY <1>2, <2>1, <2>3, <2>4 DEF Guards
  <2>6. /\ RunsStop /\ RunsKept /\ Launched' = Launched
        /\ \A q \in RunIds : Holds(q, site["exists"], site'["exists"])
    BY <2>1, <2>4, StillStops, StopKeeps DEF DockerOK, Holds, Alive
  <2>7. DockerOK' /\ DeadlineStep /\ CleanupStep
    BY <1>1, <2>1, <2>3, <2>4, <2>5, <2>6, DockerQuiet
  <2> QED  BY <1>1, <2>6, <2>7 DEF RunStep, SomeStop
<1>5. CASE ~ UNCHANGED <<runs, site>> /\ ~ D!WatchdogStarts
  <2>1. PICK r \in RunIds : D!Removed(r, {}) /\ call' = NoCall
    BY <1>2, <1>5, DockerNames DEF D!RunRefused, D!Raised, D!WatchdogFails, Return
  <2>2. /\ site' \in [D!Kinds -> SUBSET RunIds]
        /\ \A k \in {"exists", "removing"} : site'[k] = site[k] \ {r}
        /\ \A k \in D!Kinds \ {"exists", "removing"} : site'[k] = site[k]
        /\ RunsStop /\ \A q \in RunIds : runs'[q].attempt = runs[q].attempt
        /\ \A q \in RunIds : Holds(q, site["exists"], site'["exists"])
    BY <2>1, DockerRemoved
  <2>3. \A k \in {"late", "guarded", "firing", "verified", "marker"} : site'[k] = site[k]
    BY <2>2 DEF D!Kinds
  <2>4. Guards(site')
    BY <1>2, <2>2, <2>3 DEF Guards
  <2>5. RunsKept /\ Launched' = Launched
    BY <2>2, StopKeeps
  <2>6. DockerOK' /\ DeadlineStep /\ CleanupStep
    BY <1>1, <2>1, <2>2, <2>3, <2>4, <2>5, DockerQuiet
  <2> QED  BY <1>1, <2>2, <2>6 DEF RunStep, SomeStop
<1> QED  BY <1>3, <1>4, <1>5

(* The daemon and the watchdogs.                                             *)
LEMMA DockerWorld ==
  ASSUME DockerOK, UNCHANGED kind, D!World
  PROVE  DockerOK' /\ RunStep /\ DeadlineStep /\ CleanupStep
<1>1. UNCHANGED <<row, memory, call>>
  BY DEF D!World, D!DeadlinePasses, D!WatchdogFires, D!WatchdogRemoves, D!RemovalEnds,
         D!WatchdogChecks, D!WatchdogMarks, D!JobEnds
<1>2. /\ Guards(site) /\ site \in [D!Kinds -> SUBSET RunIds]
      /\ {"exists", "removing", "late", "guarded", "firing", "verified", "marker"} = D!Kinds
  BY DEF DockerOK, DockerInv, D!Kinds
<1>3. PICK r \in RunIds :
        \/ D!DeadlinePasses(r) \/ D!WatchdogFires(r) \/ D!WatchdogRemoves(r)
        \/ D!RemovalEnds(r) \/ D!WatchdogChecks(r) \/ D!WatchdogMarks(r)
        \/ \E s \in {"won", "lost"} : D!JobEnds(r, s)
  BY DockerNames DEF D!World
<1> DEFINE Steady == /\ UNCHANGED runs /\ site' \in [D!Kinds -> SUBSET RunIds]
                     /\ site'["exists"] = site["exists"] /\ site["late"] \subseteq site'["late"]
                     /\ Guards(site')
<1>4. ASSUME \/ D!DeadlinePasses(r) \/ D!WatchdogFires(r) \/ D!WatchdogRemoves(r)
             \/ D!WatchdogChecks(r)
      PROVE  Steady
  <2>1. PICK k \in {"late", "firing", "removing", "verified"} :
          /\ D!Put(r, {k}) /\ UNCHANGED runs
          /\ k = "late" => r \in site["guarded"]
          /\ k = "firing" => r \in site["late"]
          /\ k = "removing" => r \in site["firing"] /\ r \in site["exists"]
          /\ k = "verified" => r \in site["firing"] /\ r \notin site["exists"]
    <3>1. CASE D!DeadlinePasses(r)
      BY <3>1 DEF D!DeadlinePasses, D!Has
    <3>2. CASE D!WatchdogFires(r)
      BY <3>2 DEF D!WatchdogFires, D!Has
    <3>3. CASE D!WatchdogRemoves(r)
      BY <3>3 DEF D!WatchdogRemoves, D!Has
    <3>4. CASE D!WatchdogChecks(r)
      BY <3>4 DEF D!WatchdogChecks, D!Has, D!Named
    <3> QED  BY <1>4, <3>1, <3>2, <3>3, <3>4
  <2>2. /\ site' \in [D!Kinds -> SUBSET RunIds] /\ site'[k] = site[k] \cup {r}
        /\ \A j \in D!Kinds \ {k} : site'[j] = site[j]
    BY <1>2, <2>1, DockerPut
  <2>3. Guards(site')
    BY <1>2, <2>1, <2>2 DEF Guards
  <2>4. site'["exists"] = site["exists"] /\ site["late"] \subseteq site'["late"]
    BY <1>2, <2>1, <2>2
  <2> QED  BY <2>1, <2>2, <2>3, <2>4
<1>5. ASSUME D!WatchdogMarks(r)
      PROVE  Steady
  <2>1. /\ UNCHANGED runs /\ r \in site["verified"]
        /\ site' = [site EXCEPT !["firing"] = @ \ {r}, !["verified"] = @ \ {r},
                                !["marker"] = {q \in @ : runs[q].attempt # runs[r].attempt} \cup {r}]
    BY <1>5 DEF D!WatchdogMarks, D!Has
  <2>2. /\ site' \in [D!Kinds -> SUBSET RunIds]
        /\ \A k \in {"exists", "removing", "late", "guarded"} : site'[k] = site[k]
        /\ \A k \in {"firing", "verified"} : site'[k] = site[k] \ {r}
        /\ site'["marker"] \subseteq site["marker"] \cup {r}
    BY <1>2, <2>1
  <2>3. Guards(site')
    BY <1>2, <2>1, <2>2 DEF Guards
  <2> QED  BY <2>1, <2>2, <2>3
<1>6. ASSUME Steady
      PROVE  DockerOK' /\ RunStep /\ DeadlineStep /\ CleanupStep
  <2>1. /\ RunsStop /\ RunsKept /\ Launched' = Launched
        /\ \A q \in RunIds : Holds(q, site["exists"], site'["exists"])
    BY <1>6, StillStops, StopKeeps DEF DockerOK, Holds, Alive
  <2>2. DockerOK' /\ DeadlineStep /\ CleanupStep
    BY <1>1, <1>6, <2>1, DockerQuiet
  <2> QED  BY <1>1, <2>1, <2>2 DEF RunStep, SomeStop
<1>7. CASE D!RemovalEnds(r)
  <2>1. D!Removed(r, {})
    BY <1>7 DEF D!RemovalEnds
  <2>2. /\ site' \in [D!Kinds -> SUBSET RunIds]
        /\ \A k \in {"exists", "removing"} : site'[k] = site[k] \ {r}
        /\ \A k \in D!Kinds \ {"exists", "removing"} : site'[k] = site[k]
        /\ RunsStop /\ \A q \in RunIds : runs'[q].attempt = runs[q].attempt
        /\ \A q \in RunIds : Holds(q, site["exists"], site'["exists"])
    BY <2>1, DockerRemoved
  <2>3. \A k \in {"late", "guarded", "firing", "verified", "marker"} : site'[k] = site[k]
    BY <1>2, <2>2
  <2>4. Guards(site')
    BY <1>2, <2>2, <2>3 DEF Guards
  <2>5. RunsKept /\ Launched' = Launched
    BY <2>2, StopKeeps
  <2>6. DockerOK' /\ DeadlineStep /\ CleanupStep
    BY <1>1, <2>2, <2>3, <2>4, <2>5, DockerQuiet
  <2> QED  BY <1>1, <2>2, <2>6 DEF RunStep, SomeStop
<1>8. CASE \E s \in {"won", "lost"} : D!JobEnds(r, s)
  <2>1. PICK s \in {"won", "lost"} : Alive(r) /\ MoveRun(r, s) /\ UNCHANGED site
    BY <1>8, DockerNames DEF D!JobEnds
  <2>2. /\ runs' \in RunTable /\ runs'[r].state = s /\ runs'[r].attempt = runs[r].attempt
        /\ \A q \in RunIds \ {r} : runs'[q] = runs[q]
        /\ \A q \in RunIds : runs'[q].attempt = runs[q].attempt
        /\ Launched' = Launched
    BY <2>1, MoveFacts DEF DockerOK, ClientOK, RunStates, Alive
  <2>3. RunsKept /\ \A q \in RunIds : Holds(q, site["exists"], site'["exists"])
    BY <2>1, <2>2 DEF RunsKept, Holds, Alive
  <2>4. Guards(site')
    BY <1>2, <2>1
  <2>5. DockerOK' /\ DeadlineStep /\ CleanupStep
    BY <1>1, <1>2, <2>1, <2>2, <2>3, <2>4, DockerQuiet
  <2>6. SomeStop \/ OneWins
    <3>1. CASE s = "won"
      BY <1>1, <2>1, <2>2, <3>1 DEF OneWins
    <3>2. CASE s = "lost"
      BY <1>1, <2>1, <2>2, <3>2 DEF SomeStop, RunsStop
    <3> QED  BY <3>1, <3>2
  <2> QED  BY <2>5, <2>6 DEF RunStep
<1> QED  BY <1>3, <1>4, <1>5, <1>6, <1>7, <1>8

LEMMA DockerStep ==
  ASSUME DockerOK, UNCHANGED kind, D!Next
  PROVE  DockerOK' /\ RunStep /\ DeadlineStep /\ CleanupStep
<1>1. CASE D!BeginSubmit \/ D!SubmitRefused \/ D!Reopen
  <2>1. BeginSubmit \/ SubmitRefused \/ Reopen
    BY <1>1, DockerNames
  <2> QED  BY <2>1, DockerBegins
<1> QED
  BY <1>1, DockerQueries, DockerCancel, DockerRun, DockerReturns, DockerSilent, DockerWorld
  DEF D!Next, D!Controller

----------------------------------------------------------------------------
(* SSH: the launch script is started once an attempt is on record, and what   *)
(* the flags of a result say of the host.                                    *)
Once == \A q, r \in Launched : q # r => runs[q].attempt # runs[r].attempt
HostMarks(x, there) ==
  /\ x.run # NoRun => x.run \in Launched /\ runs[x.run].attempt = x.attempt
  /\ "timed_out" \in x.marks => /\ x.run # NoRun /\ x.run \in there["late"] \cap there["done"]
                                /\ x.status \in {"FAILED", "CANCELLED", "UNKNOWN"}
  /\ "timeout_pending" \in x.marks => /\ x.run # NoRun /\ x.run \in there["late"]
                                      /\ x.status # "SUCCEEDED"
  /\ "cleanup_pending" \in x.marks => x.run = NoRun /\ x.status # "SUCCEEDED"
SSHInv ==
  /\ call.pc \in {"idle", "launching", "launched"}
  /\ ~ Idle => row = Intent(call.attempt)
  /\ Once
  /\ \A r \in Launched : runs[r].attempt <= Current.attempt
  /\ call.pc = "launching" => \A r \in Launched : runs[r].attempt # call.attempt
  /\ HostMarks(Current, site)

LEMMA SSHNames ==
  /\ H!Current = Current /\ H!Idle = Idle /\ H!Known = Known /\ H!Resumable = Resumable
  /\ H!RunIds = RunIds /\ H!NoRun = NoRun /\ H!Launched = Launched /\ H!FreshRun = FreshRun
  /\ H!NoCall = NoCall /\ H!NoRow = NoRow /\ H!NoMemory = NoMemory /\ H!Return = Return
  /\ \A s, a, n : H!Result(s, a, n) = Result(s, a, n)
  /\ \A a : H!Intent(a) = Intent(a)
  /\ \A r : (H!Alive(r) <=> Alive(r)) /\ (H!Active(r) <=> Active(r)) /\ (H!Terminal(r) <=> Terminal(r))
  /\ \A r, b, h : H!Remember(r, b, h) <=> Remember(r, b, h)
  /\ \A o, p, a : H!Begin(o, p, a) <=> Begin(o, p, a)
  /\ \A a, s : H!Launch(a, s) <=> Launch(a, s)
  /\ \A r, s : H!MoveRun(r, s) <=> MoveRun(r, s)
  /\ H!BeginSubmit = BeginSubmit /\ H!SubmitRefused = SubmitRefused /\ H!Reopen = Reopen
<1>1. /\ H!Current = Current /\ H!NoRun = NoRun /\ H!RunIds = RunIds /\ H!NoCall = NoCall
      /\ H!NoRow = NoRow /\ H!NoMemory = NoMemory
  BY DEF H!Current, Current, H!NoRow, NoRow, H!NoRun, NoRun, H!RunIds, RunIds,
         H!NoCall, NoCall, H!NoMemory, NoMemory
<1>2. H!Idle = Idle /\ H!Known = Known /\ H!Resumable = Resumable
  BY <1>1 DEF H!Known, Known, H!Idle, Idle, H!Resumable, Resumable
<1>3. H!Launched = Launched
  BY <1>1 DEF H!Launched, Launched
<1>4. H!FreshRun = FreshRun
  BY <1>1, <1>3 DEF H!FreshRun, FreshRun
<1>5. \A s, a, n : H!Result(s, a, n) = Result(s, a, n)
  BY <1>1 DEF H!Result, Result
<1>6. \A a : H!Intent(a) = Intent(a)
  BY <1>1, <1>5 DEF H!Intent, Intent
<1>7. \A r : (H!Alive(r) <=> Alive(r)) /\ (H!Active(r) <=> Active(r)) /\ (H!Terminal(r) <=> Terminal(r))
  BY DEF H!Alive, Alive, H!Active, Active, H!Terminal, Terminal
<1>8. \A r, b, h : H!Remember(r, b, h) <=> Remember(r, b, h)
  BY <1>1 DEF H!Remember, Remember
<1>9. H!Return = Return /\ \A o, p, a : H!Begin(o, p, a) <=> Begin(o, p, a)
  BY <1>1 DEF H!Begin, Begin, H!Return, Return
<1>10. /\ \A a, s : H!Launch(a, s) <=> Launch(a, s)
       /\ \A r, s : H!MoveRun(r, s) <=> MoveRun(r, s)
  BY <1>1, <1>3, <1>4 DEF H!Launch, Launch, H!MoveRun, MoveRun
<1>11. H!BeginSubmit = BeginSubmit /\ H!SubmitRefused = SubmitRefused /\ H!Reopen = Reopen
  BY <1>1, <1>2, <1>5, <1>6
  DEF H!BeginSubmit, BeginSubmit, H!SubmitRefused, SubmitRefused, H!Reopen, Reopen,
      H!Remember, Remember, H!Begin, Begin, H!Planned, Planned, H!Return, Return
<1> QED  BY <1>1, <1>2, <1>3, <1>4, <1>5, <1>6, <1>7, <1>8, <1>9, <1>10, <1>11
SSHOK == /\ kind = "ssh" /\ ClientOK /\ Remote
         /\ site \in [H!Files -> SUBSET RunIds] /\ SSHInv

(* A launch that is resolved, and what a step may do to the host.            *)
PendingStep == (kind = "ssh" /\ "cleanup_pending" \in row.marks /\ row'.attempt > row.attempt)
                 => \A r \in Launched : runs[r].attempt = row.attempt
                                          => r \notin site'["shell"]
SSHSteps == RunStep /\ DeadlineStep /\ CleanupStep /\ PendingStep
HostGrows == /\ site' \in [H!Files -> SUBSET RunIds]
             /\ site["late"] \subseteq site'["late"] /\ site["done"] \subseteq site'["done"]
HostMoves == /\ HostGrows /\ RunsStop
             /\ \A q \in RunIds : runs'[q].attempt = runs[q].attempt

LEMMA SSHPut ==
  ASSUME SSHOK, NEW r \in RunIds, NEW fs \in SUBSET (H!Files \ {"shell"}),
         H!Put(r, fs) \/ H!EndShell(r, fs)
  PROVE  /\ HostGrows /\ \A f \in fs : r \in site'[f]
         /\ H!EndShell(r, fs) => r \notin site'["shell"]
<1>1. "late" \in H!Files /\ "done" \in H!Files /\ "shell" \in H!Files
  BY DEF H!Files
<1>2. site \in [H!Files -> SUBSET RunIds]
  BY DEF SSHOK
<1>3. CASE H!Put(r, fs)
  BY <1>1, <1>2, <1>3 DEF H!Put, HostGrows, H!EndShell
<1>4. CASE H!EndShell(r, fs)
  BY <1>1, <1>2, <1>4 DEF H!EndShell, HostGrows
<1> QED  BY <1>3, <1>4

LEMMA SSHMove ==
  ASSUME SSHOK, NEW r \in RunIds,
         UNCHANGED runs \/ (Alive(r) /\ \E s \in {"stopped", "running", "lost"} : MoveRun(r, s))
  PROVE  RunsStop /\ \A q \in RunIds : runs'[q].attempt = runs[q].attempt
<1>1. CASE UNCHANGED runs
  BY <1>1, StillStops DEF SSHOK
<1>2. CASE Alive(r) /\ \E s \in {"stopped", "running", "lost"} : MoveRun(r, s)
  <2>1. PICK s \in {"stopped", "running", "lost"} : MoveRun(r, s)
    BY <1>2
  <2>2. /\ runs' \in RunTable /\ runs'[r].state = s
        /\ \A q \in RunIds \ {r} : runs'[q] = runs[q]
        /\ \A q \in RunIds : runs'[q].attempt = runs[q].attempt
    BY <1>2, <2>1, MoveFacts DEF SSHOK, ClientOK, RunStates, Alive
  <2> QED  BY <1>2, <2>2 DEF RunsStop
<1> QED  BY <1>1, <1>2

LEMMA SSHStays ==
  ASSUME SSHOK, UNCHANGED <<runs, site>>
  PROVE  HostMoves
BY StillStops DEF SSHOK, HostMoves, HostGrows

(* The cleanup script kills the shell it says it has cleaned up.             *)
LEMMA SSHCleanup ==
  ASSUME SSHOK, NEW a, NEW o, H!Cleanup(a, o)
  PROVE  /\ HostMoves
         /\ o = "CLEANED" => \E r \in Launched : runs[r].attempt = a /\ r \notin site'["shell"]
<1>1. CASE UNCHANGED <<runs, site>> /\ o # "CLEANED"
  BY <1>1, SSHStays
<1>2. CASE \E r \in H!RunOf(a) : H!Cleanable(r) /\ H!CleanUp(r)
  <2>1. PICK r \in RunIds : r \in Launched /\ runs[r].attempt = a /\ H!CleanUp(r)
    BY <1>2, SSHNames DEF H!RunOf, Launched
  <2>2. /\ H!EndShell(r, {})
        /\ UNCHANGED runs \/ (Alive(r) /\ MoveRun(r, "stopped"))
    BY <2>1, SSHNames DEF H!CleanUp, H!HasContainer, Alive
  <2>3. HostGrows /\ r \notin site'["shell"]
    BY <2>2, SSHPut
  <2>4. RunsStop /\ \A q \in RunIds : runs'[q].attempt = runs[q].attempt
    BY <2>2, SSHMove
  <2> QED  BY <2>1, <2>3, <2>4 DEF HostMoves
<1> QED  BY <1>1, <1>2 DEF H!Cleanup

(* The result a cleanup ends with.                                           *)
LEMMA SSHCleanedUp ==
  ASSUME SSHOK, NEW a \in Attempts, NEW o, NEW r, r = H!CleanedUp(a, o)
  PROVE  /\ r \in Rows /\ r.attempt = a /\ r.run = NoRun /\ r.status \in {"FAILED", "UNKNOWN"}
         /\ r.marks \subseteq {"intent", "cleanup_pending"}
         /\ "cleanup_pending" \notin r.marks => o = "CLEANED"
         /\ r.status \in Statuses
<1>1. {"FAILED", "UNKNOWN"} \subseteq Statuses /\ NoRun \in 0..MaxRuns
  BY AttemptFacts DEF Statuses, NoRun
<1>2. CASE o = "CLEANED"
  <2>1. r = Result("FAILED", a, NoRun)
    BY <1>2, SSHNames DEF H!CleanedUp
  <2> QED  BY <1>1, <1>2, <2>1, ResultFacts
<1>3. CASE o # "CLEANED"
  <2>1. PICK x \in Rows : x = Result("UNKNOWN", a, NoRun) /\ x.status = "UNKNOWN"
                          /\ x.attempt = a /\ x.run = NoRun
    BY <1>1, ResultFacts
  <2>2. r = [x EXCEPT !.marks = {"intent", "cleanup_pending"}]
    BY <1>3, <2>1, SSHNames DEF H!CleanedUp
  <2>3. {"intent", "cleanup_pending"} \in SUBSET Marks
    BY DEF Marks
  <2> QED  BY <1>1, <2>1, <2>2, <2>3 DEF Rows
<1> QED  BY <1>2, <1>3

(* What a query of the named execution ends with.                            *)
LEMMA SSHResults ==
  ASSUME SSHOK, NEW x, x = Current
  PROVE  /\ x \in Rows
         /\ \A s \in Statuses :
              LET y == [x EXCEPT !.status = s]
              IN y \in Rows /\ y.status = s /\ y.run = x.run /\ y.attempt = x.attempt
                   /\ y.marks = x.marks
         /\ H!Lost = [x EXCEPT !.status = "UNKNOWN"]
         /\ H!TimedOut(x) \in Rows /\ H!TimedOut(x).status = "FAILED"
         /\ H!TimedOut(x).run = x.run /\ H!TimedOut(x).attempt = x.attempt
         /\ H!TimedOut(x).marks = (x.marks \ {"timeout_pending"}) \cup {"timed_out"}
         /\ H!StillTimingOut(x) \in Rows /\ H!StillTimingOut(x).status = "RUNNING"
         /\ H!StillTimingOut(x).run = x.run /\ H!StillTimingOut(x).attempt = x.attempt
         /\ H!StillTimingOut(x).marks = (x.marks \ {"timed_out"}) \cup {"timeout_pending"}
<1>1. x \in Rows
  BY CurrentFacts DEF SSHOK, Remote
<1>2. /\ "FAILED" \in Statuses /\ "RUNNING" \in Statuses
      /\ (x.marks \ {"timeout_pending"}) \cup {"timed_out"} \in SUBSET Marks
      /\ (x.marks \ {"timed_out"}) \cup {"timeout_pending"} \in SUBSET Marks
  BY <1>1 DEF Rows, Statuses, Marks
<1>4. PICK m \in SUBSET Marks : m = (x.marks \ {"timeout_pending"}) \cup {"timed_out"}
  BY <1>2
<1>5. PICK n \in SUBSET Marks : n = (x.marks \ {"timed_out"}) \cup {"timeout_pending"}
  BY <1>2
<1>6. /\ H!TimedOut(x) = [x EXCEPT !.status = "FAILED", !.marks = m]
      /\ H!StillTimingOut(x) = [x EXCEPT !.status = "RUNNING", !.marks = n]
  BY <1>1, <1>4, <1>5 DEF H!TimedOut, H!StillTimingOut, Rows
<1>7. H!Lost = [x EXCEPT !.status = "UNKNOWN"]
  BY SSHNames DEF H!Lost
<1>8. /\ H!TimedOut(x) \in Rows /\ H!TimedOut(x).status = "FAILED"
      /\ H!TimedOut(x).run = x.run /\ H!TimedOut(x).attempt = x.attempt
      /\ H!TimedOut(x).marks = (x.marks \ {"timeout_pending"}) \cup {"timed_out"}
  BY <1>1, <1>2, <1>4, <1>6 DEF Rows
<1>9. /\ H!StillTimingOut(x) \in Rows /\ H!StillTimingOut(x).status = "RUNNING"
      /\ H!StillTimingOut(x).run = x.run /\ H!StillTimingOut(x).attempt = x.attempt
      /\ H!StillTimingOut(x).marks = (x.marks \ {"timed_out"}) \cup {"timeout_pending"}
  BY <1>1, <1>2, <1>5, <1>6 DEF Rows
<1>10. \A s \in Statuses :
         LET y == [x EXCEPT !.status = s]
         IN y \in Rows /\ y.status = s /\ y.run = x.run /\ y.attempt = x.attempt
              /\ y.marks = x.marks
  BY <1>1, StatusFacts
<1> QED  BY <1>1, <1>7, <1>8, <1>9, <1>10

(* A query keeps an enforced deadline and a pending cleanup in its result, and *)
(* a launch that it resolves has left no shell.                              *)
LEMMA SSHInspects ==
  ASSUME SSHOK, NEW result, H!Inspect(result)
  PROVE  /\ HostMoves
         /\ ~ H!Unsaved => /\ result \in Rows /\ result.status \in Statuses \ {"PLANNED"}
                           /\ result.attempt = Current.attempt
                           /\ result.status = "SUCCEEDED" => Won(result.attempt)
                           /\ HostMarks(result, site')
         /\ "timed_out" \in Current.marks =>
              ~ H!Unsaved /\ result.status \in {"FAILED", "CANCELLED", "UNKNOWN"}
         /\ {"cleanup_pending", "timeout_pending"} \cap Current.marks # {} =>
              ~ H!Unsaved /\ result.status # "SUCCEEDED"
         /\ "cleanup_pending" \in Current.marks /\ ~ H!Blocked(result) =>
              \A r \in Launched : runs[r].attempt = Current.attempt => r \notin site'["shell"]
<1>1. /\ HostMarks(Current, site) /\ Once /\ site \in [H!Files -> SUBSET RunIds]
      /\ Current \in Rows /\ {"late", "done"} \subseteq H!Files
      /\ {"RUNNING", "UNKNOWN", "FAILED", "SUCCEEDED", "CANCELLED"} \subseteq Statuses \ {"PLANNED"}
  BY CurrentFacts DEF SSHOK, SSHInv, Remote, Statuses, H!Files
<1>2. H!Unsaved <=> "cleanup_pending" \notin Current.marks /\ Current.run = NoRun
  BY SSHNames DEF H!Unsaved
<1>3. CASE "cleanup_pending" \in Current.marks
  <2>1. PICK a, o : /\ a \in Attempts /\ a = Current.attempt
                    /\ result = H!CleanedUp(a, o) /\ H!Cleanup(a, o)
    BY <1>1, <1>3, SSHNames DEF H!Inspect, Rows
  <2>2. /\ HostMoves
        /\ o = "CLEANED" => \E r \in Launched : runs[r].attempt = a /\ r \notin site'["shell"]
    BY <2>1, SSHCleanup
  <2>3. /\ result \in Rows /\ result.attempt = a /\ result.run = NoRun
        /\ result.status \in {"FAILED", "UNKNOWN"}
        /\ result.marks \subseteq {"intent", "cleanup_pending"}
        /\ "cleanup_pending" \notin result.marks => o = "CLEANED"
    BY <2>1, SSHCleanedUp
  <2>4. ~ H!Blocked(result) => "cleanup_pending" \notin result.marks
    BY DEF H!Blocked
  <2>5. HostMarks(result, site')
    BY <2>3 DEF HostMarks
  <2>6. ~ H!Unsaved /\ "timed_out" \notin Current.marks
    BY <1>1, <1>2, <1>3 DEF HostMarks
  <2> QED  BY <1>1, <2>1, <2>2, <2>3, <2>4, <2>5, <2>6 DEF Once
<1>4. CASE "cleanup_pending" \notin Current.marks /\ Current.run = NoRun
  <2>1. UNCHANGED <<runs, site>>
    BY <1>4, SSHNames DEF H!Inspect
  <2> QED  BY <1>1, <1>2, <1>4, <2>1, SSHStays DEF HostMarks
<1>5. CASE "cleanup_pending" \notin Current.marks /\ Current.run # NoRun
  <2>1. PICK r, x : r = Current.run /\ x = Current /\ H!Query(r, result)
    BY <1>5, SSHNames DEF H!Inspect
  <2>2. /\ r \in RunIds /\ r \in Launched /\ runs[r].attempt = x.attempt
    BY <1>1, <1>5, <2>1 DEF HostMarks, Launched
  <2>3. \/ HostMoves /\ result = H!Lost
        \/ /\ HostMoves /\ r \notin site["late"]
           /\ \E s \in {"RUNNING", "UNKNOWN", "FAILED", "SUCCEEDED", "CANCELLED"} :
                /\ result = [x EXCEPT !.status = s]
                /\ s = "SUCCEEDED" => runs[r].state = "won"
        \/ /\ HostMoves /\ r \in site["late"] /\ r \in site'["done"]
           /\ result \in {H!TimedOut(x), H!Lost}
        \/ /\ HostMoves /\ r \in site["late"] /\ r \notin site["done"]
           /\ result = H!StillTimingOut(x)
    <3>1. CASE result = H!Lost /\ UNCHANGED <<runs, site>>
      BY <3>1, SSHStays
    <3>2. CASE /\ ~ H!Has(r, "late") /\ UNCHANGED <<runs, site>>
               /\ result = [H!Current EXCEPT !.status = H!Observed(r)]
      <4>1. PICK s : s = H!Observed(r)
        OBVIOUS
      <4>2. /\ s \in {"RUNNING", "UNKNOWN", "FAILED", "SUCCEEDED", "CANCELLED"}
            /\ s = "SUCCEEDED" => runs[r].state = "won"
        BY <4>1 DEF H!Observed
      <4>3. result = [x EXCEPT !.status = s]
        BY <2>1, <3>2, <4>1, SSHNames
      <4> QED  BY <3>2, <4>2, <4>3, SSHStays DEF H!Has
    <3>3. CASE /\ H!Has(r, "late") /\ H!Put(r, {"done"})
               /\ IF H!HasContainer(r) THEN H!MoveRun(r, "stopped") ELSE UNCHANGED runs
               /\ result \in {H!TimedOut(H!Current), H!Lost}
      <4>1. {"done"} \in SUBSET (H!Files \ {"shell"})
        BY DEF H!Files
      <4>2. HostGrows /\ r \in site'["done"]
        BY <2>2, <3>3, <4>1, SSHPut
      <4>3. UNCHANGED runs \/ (Alive(r) /\ MoveRun(r, "stopped"))
        BY <3>3, SSHNames DEF H!HasContainer, Alive
      <4>4. RunsStop /\ \A q \in RunIds : runs'[q].attempt = runs[q].attempt
        BY <2>2, <4>3, SSHMove
      <4>5. result \in {H!TimedOut(x), H!Lost}
        BY <2>1, <3>3, SSHNames
      <4> QED  BY <3>3, <4>2, <4>4, <4>5 DEF HostMoves, H!Has
    <3>4. CASE /\ H!Has(r, "late") /\ ~ H!Has(r, "done") /\ UNCHANGED <<runs, site>>
               /\ result = H!StillTimingOut(H!Current)
      <4>1. result = H!StillTimingOut(x)
        BY <2>1, <3>4, SSHNames
      <4> QED  BY <3>4, <4>1, SSHStays DEF H!Has
    <3> QED  BY <2>1, <3>1, <3>2, <3>3, <3>4 DEF H!Query
  <2>4. site["late"] \subseteq site'["late"] /\ site["done"] \subseteq site'["done"]
    BY <2>3 DEF HostMoves, HostGrows
  <2>5. "timed_out" \in x.marks => r \in site["late"] \cap site["done"]
    BY <1>1, <2>1 DEF HostMarks
  <2>6. "timeout_pending" \in x.marks => r \in site["late"]
    BY <1>1, <2>1 DEF HostMarks
  <2>7. /\ result \in Rows /\ result.attempt = x.attempt /\ result.run = r
        /\ result.status \in {"RUNNING", "UNKNOWN", "FAILED", "SUCCEEDED", "CANCELLED"}
        /\ result.status = "SUCCEEDED" => runs[r].state = "won" /\ r \notin site["late"]
                                          /\ result.marks = x.marks
        /\ "cleanup_pending" \notin result.marks
        /\ "timed_out" \in result.marks => /\ r \in site'["late"] \cap site'["done"]
                                            /\ result.status \in {"FAILED", "CANCELLED", "UNKNOWN"}
        /\ "timeout_pending" \in result.marks => r \in site'["late"]
        /\ "timed_out" \in x.marks => result.status \in {"FAILED", "CANCELLED", "UNKNOWN"}
    <3>1. /\ x \in Rows
          /\ \A s \in Statuses :
               LET y == [x EXCEPT !.status = s]
               IN y \in Rows /\ y.status = s /\ y.run = x.run /\ y.attempt = x.attempt
                    /\ y.marks = x.marks
          /\ H!Lost = [x EXCEPT !.status = "UNKNOWN"]
      BY <2>1, SSHResults
    <3>2. CASE \/ HostMoves /\ result = H!Lost
               \/ /\ HostMoves /\ r \notin site["late"]
                  /\ \E s \in {"RUNNING", "UNKNOWN", "FAILED", "SUCCEEDED", "CANCELLED"} :
                       /\ result = [x EXCEPT !.status = s]
                       /\ s = "SUCCEEDED" => runs[r].state = "won"
      <4>1. PICK s \in {"RUNNING", "UNKNOWN", "FAILED", "SUCCEEDED", "CANCELLED"} :
              /\ result = [x EXCEPT !.status = s]
              /\ s # "UNKNOWN" => r \notin site["late"]
              /\ s = "SUCCEEDED" => runs[r].state = "won"
        BY <3>1, <3>2
      <4>2. s \in Statuses
        BY <1>1
      <4>3. /\ result \in Rows /\ result.status = s /\ result.run = r
            /\ result.attempt = x.attempt /\ result.marks = x.marks
        BY <2>1, <3>1, <4>1, <4>2, StatusFacts
      <4> QED  BY <1>5, <2>1, <2>4, <2>5, <2>6, <4>1, <4>3
    <3>3. CASE result = H!TimedOut(x) /\ r \in site["late"] /\ r \in site'["done"]
      BY <1>5, <2>1, <2>4, <2>6, <3>3, SSHResults
    <3>4. CASE result = H!StillTimingOut(x) /\ r \in site["late"] /\ r \notin site["done"]
      BY <1>5, <2>1, <2>4, <2>5, <3>4, SSHResults
    <3> QED  BY <2>3, <3>2, <3>3, <3>4
  <2>8. HostMarks(result, site')
    BY <1>5, <2>1, <2>2, <2>6, <2>7 DEF HostMarks
  <2>9. result.status = "SUCCEEDED" => Won(result.attempt)
    BY <2>1, <2>2, <2>7 DEF Won
  <2> QED  BY <1>1, <1>2, <1>5, <2>1, <2>3, <2>6, <2>7, <2>8, <2>9
<1> QED  BY <1>3, <1>4, <1>5

LEMMA SSHKeeps ==
  ASSUME SSHOK, ClientOK', Remote', UNCHANGED kind, Launched' = Launched,
         \A r \in RunIds : runs'[r].attempt = runs[r].attempt, HostGrows,
         Current'.attempt >= Current.attempt, HostMarks(Current', site'),
         \/ call' = NoCall
         \/ /\ ~ Idle /\ row' = row /\ call'.pc \in {call.pc, "launched"}
            /\ call'.attempt = call.attempt
         \/ /\ call'.pc = "launching" /\ row' = Intent(call'.attempt)
            /\ call'.attempt > Current.attempt
  PROVE  SSHOK'
<1>1. Current.attempt \in Nat /\ Current'.attempt \in Nat /\ call'.attempt \in Nat
  BY CurrentFacts, AttemptFacts DEF SSHOK, Remote, Rows, ClientOK, Calls, Current
<1>2. /\ \A r \in RunIds : runs[r].attempt \in Nat
      /\ Launched \subseteq RunIds
  BY AttemptFacts DEF SSHOK, ClientOK, RunTable, Launched
<1>3. \A r \in Launched : runs[r].attempt <= Current.attempt
  BY DEF SSHOK, SSHInv
<1>4. Once' /\ \A r \in Launched' : runs'[r].attempt <= Current'.attempt
  BY <1>1, <1>2, <1>3 DEF SSHOK, SSHInv, Once
<1>5. call'.pc = "launching" => \A r \in Launched' : runs'[r].attempt # call'.attempt
  BY <1>1, <1>2, <1>3 DEF SSHOK, SSHInv, NoCall
<1>6. call'.pc \in {"idle", "launching", "launched"}
  BY DEF SSHOK, SSHInv, NoCall
<1>7. call'.pc # "idle" => row' = Intent(call'.attempt)
  BY DEF SSHOK, SSHInv, NoCall, Idle
<1>8. HostMarks(Current, site)'
  BY <1>2 DEF HostMarks
<1>9. SSHInv'
  BY <1>4, <1>5, <1>6, <1>7, <1>8 DEF SSHInv, Idle
<1> QED  BY <1>9 DEF SSHOK, HostGrows

(* Before a launch there is nothing on the host.                             *)
LEMMA SSHNothing ==
  ASSUME SSHOK, ClientOK', Remote', UNCHANGED <<kind, runs, site>>, Launched = {},
         Current'.run = NoRun, Current'.marks \subseteq {"intent"},
         call' = NoCall \/ (call'.pc = "launching" /\ row' = Intent(call'.attempt))
  PROVE  SSHOK'
<1>1. Launched' = {}
  BY DEF Launched
<1>2. SSHInv'
  BY <1>1 DEF SSHInv, HostMarks, Once, Idle, NoCall
<1> QED  BY <1>2 DEF SSHOK

LEMMA SSHSettled ==
  ASSUME SSHOK, UNCHANGED kind,
         \/ row' = row
         \/ /\ "timed_out" \in Current.marks /\ row'.attempt = Current.attempt
                 => row'.status \in {"FAILED", "CANCELLED", "UNKNOWN"}
            /\ {"cleanup_pending", "timeout_pending"} \cap Current.marks # {}
                 /\ row'.attempt = Current.attempt => row'.status # "SUCCEEDED"
            /\ "cleanup_pending" \in Current.marks /\ row'.attempt > Current.attempt
                 => \A r \in Launched : runs[r].attempt = Current.attempt
                                          => r \notin site'["shell"]
  PROVE  DeadlineStep /\ CleanupStep /\ PendingStep
<1>1. row = NoRow => row.marks = {}
  BY NoRowFacts
<1>2. row # NoRow => Current = row
  BY CurrentFacts DEF SSHOK, Remote
<1>3. HostMarks(Current, site) /\ row.attempt \in Nat
  BY AttemptFacts DEF SSHOK, SSHInv, ClientOK, Rows
<1>4. kind = "ssh"
  BY DEF SSHOK
<1> QED
  BY <1>1, <1>2, <1>3, <1>4 DEF DeadlineStep, CleanupStep, PendingStep, HostMarks

(* An answer about the known attempt is saved, and the call is over.          *)
LEMMA SSHAnswered ==
  ASSUME SSHOK, UNCHANGED kind, Known, call' = NoCall, NEW r \in Rows, NEW h, h = memory.handle,
         Remember(r, TRUE, h), r.status \in Statuses,
         r.status # "PLANNED" \/ (r = Planned /\ row = NoRow),
         r.attempt = Current.attempt, r.status = "SUCCEEDED" => Won(r.attempt),
         HostMoves, HostMarks(r, site'),
         "timed_out" \in Current.marks => r.status \in {"FAILED", "CANCELLED", "UNKNOWN"},
         {"cleanup_pending", "timeout_pending"} \cap Current.marks # {} => r.status # "SUCCEEDED"
  PROVE  SSHOK' /\ SSHSteps
<1>1. /\ h \in Handles /\ NoCall \in Calls /\ NoCall.run = NoRun
      /\ Current.attempt \in Nat
  BY CurrentFacts, AttemptFacts DEF SSHOK, ClientOK, Remote, Calls, NoCall, NoRun, Rows
<1>2. /\ ClientOK' /\ Remote' /\ Current' = r /\ Launched' = Launched /\ RunStep
      /\ r.status # "PLANNED" => row' = r
  BY <1>1, AnswerKeeps DEF SSHOK, HostMoves
<1>3. r.status = "PLANNED" => row' = row
  BY <1>1, RememberFacts DEF SSHOK, Remote
<1>4. SSHOK'
  BY <1>1, <1>2, SSHKeeps DEF HostMoves
<1>5. DeadlineStep /\ CleanupStep /\ PendingStep
  BY <1>1, <1>2, <1>3, SSHSettled
<1> QED  BY <1>2, <1>4, <1>5 DEF SSHSteps

(* What is known is saved again, or not at all.                              *)
LEMMA SSHKnown ==
  ASSUME SSHOK, Known, NEW x, x = Current, HostMoves
  PROVE  /\ x \in Rows /\ x.status \in Statuses
         /\ x.status # "PLANNED" \/ (x = Planned /\ row = NoRow)
         /\ x.attempt = Current.attempt /\ (x.status = "SUCCEEDED" => Won(x.attempt))
         /\ HostMarks(x, site')
         /\ "timed_out" \in Current.marks => x.status \in {"FAILED", "CANCELLED", "UNKNOWN"}
         /\ {"cleanup_pending", "timeout_pending"} \cap Current.marks # {}
              => x.status # "SUCCEEDED"
<1>1. HostMarks(x, site) /\ Justified(x)
  BY DEF SSHOK, SSHInv, HostMarks, Remote, Justified, Won
<1>2. HostMarks(x, site')
  BY <1>1 DEF HostMarks, HostMoves, HostGrows
<1>3. /\ x \in Rows /\ x.status \in Statuses
      /\ x.status # "PLANNED" \/ (x = Planned /\ row = NoRow)
  BY CurrentFacts DEF SSHOK, Remote, Saved, Known
<1> QED  BY <1>1, <1>2, <1>3 DEF Justified, HostMarks

LEMMA SSHStatus ==
  ASSUME SSHOK, UNCHANGED kind, H!Status
  PROVE  SSHOK' /\ SSHSteps
<1>1. Idle /\ Known /\ UNCHANGED call
  BY SSHNames DEF H!Status
<1>2. call' = NoCall
  BY <1>1 DEF SSHOK, Remote, CallShape
<1>3. PICK result : /\ H!Inspect(result)
                    /\ \E r, h : /\ r = (IF H!Unsaved THEN Current ELSE result)
                                 /\ h = memory.handle /\ Remember(r, TRUE, h)
  BY SSHNames DEF H!Status, H!Keep
<1>4. PICK r, h : /\ r = (IF H!Unsaved THEN Current ELSE result)
                  /\ h = memory.handle /\ Remember(r, TRUE, h)
  BY <1>3
<1>5. /\ HostMoves
      /\ ~ H!Unsaved => /\ result \in Rows /\ result.status \in Statuses \ {"PLANNED"}
                        /\ result.attempt = Current.attempt
                        /\ result.status = "SUCCEEDED" => Won(result.attempt)
                        /\ HostMarks(result, site')
      /\ "timed_out" \in Current.marks =>
           ~ H!Unsaved /\ result.status \in {"FAILED", "CANCELLED", "UNKNOWN"}
      /\ {"cleanup_pending", "timeout_pending"} \cap Current.marks # {} =>
           ~ H!Unsaved /\ result.status # "SUCCEEDED"
  BY <1>3, SSHInspects
<1>6. CASE H!Unsaved
  <2>1. r = Current
    BY <1>4, <1>6
  <2> QED  BY <1>1, <1>2, <1>4, <1>5, <2>1, SSHKnown, SSHAnswered
<1>7. CASE ~ H!Unsaved
  <2>1. h = memory.handle /\ Remember(result, TRUE, h)
    BY <1>4, <1>7
  <2>2. /\ result \in Rows /\ result.status \in Statuses /\ result.status # "PLANNED"
        /\ result.attempt = Current.attempt
        /\ HostMarks(result, site')
    BY <1>5, <1>7
  <2>3. result.status = "SUCCEEDED" => Won(result.attempt)
    BY <1>5, <1>7
  <2> QED  BY <1>1, <1>2, <1>5, <2>1, <2>2, <2>3, SSHAnswered
<1> QED  BY <1>6, <1>7

LEMMA SSHCancel ==
  ASSUME SSHOK, UNCHANGED kind, H!Cancel
  PROVE  SSHOK' /\ SSHSteps
<1>1. Idle /\ Known /\ UNCHANGED call
  BY SSHNames DEF H!Cancel
<1>2. call' = NoCall
  BY <1>1 DEF SSHOK, Remote, CallShape
<1>3. PICK n : n = Current.run
  OBVIOUS
<1>4. \/ /\ UNCHANGED <<runs, site>>
         /\ \E r, h : r = Current /\ h = memory.handle /\ Remember(r, TRUE, h)
      \/ /\ n # NoRun
         /\ \/ UNCHANGED <<runs, site>>
            \/ /\ Alive(n) /\ H!EndShell(n, {"cancelled"})
               /\ UNCHANGED runs \/ MoveRun(n, "stopped")
         /\ \E s \in {"CANCELLED", "UNKNOWN"} : \E r, h :
              r = [Current EXCEPT !.status = s] /\ h = memory.handle /\ Remember(r, TRUE, h)
  BY <1>3, SSHNames DEF H!Cancel, H!Keep, H!HasContainer, Alive
<1>5. CASE /\ UNCHANGED <<runs, site>>
           /\ \E r, h : r = Current /\ h = memory.handle /\ Remember(r, TRUE, h)
  <2>1. PICK r, h : r = Current /\ h = memory.handle /\ Remember(r, TRUE, h)
    BY <1>5
  <2>2. HostMoves
    BY <1>5, SSHStays
  <2> QED  BY <1>1, <1>2, <2>1, <2>2, SSHKnown, SSHAnswered
<1>6. CASE /\ n # NoRun
           /\ \/ UNCHANGED <<runs, site>>
              \/ /\ Alive(n) /\ H!EndShell(n, {"cancelled"})
                 /\ UNCHANGED runs \/ MoveRun(n, "stopped")
           /\ \E s \in {"CANCELLED", "UNKNOWN"} : \E r, h :
                r = [Current EXCEPT !.status = s] /\ h = memory.handle /\ Remember(r, TRUE, h)
  <2>1. PICK s \in {"CANCELLED", "UNKNOWN"} : \E r, h :
          r = [Current EXCEPT !.status = s] /\ h = memory.handle /\ Remember(r, TRUE, h)
    BY <1>6
  <2>2. PICK r, h : r = [Current EXCEPT !.status = s] /\ h = memory.handle /\ Remember(r, TRUE, h)
    BY <2>1
  <2>3. HostMoves
    <3>1. CASE UNCHANGED <<runs, site>>
      BY <3>1, SSHStays
    <3>2. CASE /\ Alive(n) /\ H!EndShell(n, {"cancelled"})
               /\ UNCHANGED runs \/ MoveRun(n, "stopped")
      <4>1. n \in RunIds
        BY <1>3, <1>6 DEF SSHOK, SSHInv, HostMarks, Launched
      <4>2. {"cancelled"} \in SUBSET (H!Files \ {"shell"})
        BY DEF H!Files
      <4>3. HostGrows
        BY <3>2, <4>1, <4>2, SSHPut
      <4>4. RunsStop /\ \A q \in RunIds : runs'[q].attempt = runs[q].attempt
        BY <3>2, <4>1, SSHMove
      <4> QED  BY <4>3, <4>4 DEF HostMoves
    <3> QED  BY <1>6, <3>1, <3>2
  <2>4. Current \in Rows /\ s \in Statuses /\ s # "PLANNED" /\ s # "SUCCEEDED"
    BY CurrentFacts DEF SSHOK, Remote, Statuses
  <2>5. /\ r \in Rows /\ r.status = s /\ r.attempt = Current.attempt /\ r.run = Current.run
        /\ r.marks = Current.marks
    BY <2>2, <2>4, StatusFacts
  <2>6. HostMarks(r, site')
    BY <2>3, <2>4, <2>5 DEF SSHOK, SSHInv, HostMarks, HostMoves, HostGrows
  <2> QED  BY <1>1, <1>2, <2>2, <2>3, <2>4, <2>5, <2>6, SSHAnswered
<1> QED  BY <1>4, <1>5, <1>6

(* A resume starts the next attempt only when nothing is unresolved.         *)
LEMMA SSHResume ==
  ASSUME SSHOK, UNCHANGED kind, H!Resume
  PROVE  SSHOK' /\ SSHSteps
<1>1. Idle /\ Known /\ row # NoRow /\ Current = row
  BY SSHNames, CurrentFacts DEF H!Resume, Resumable, SSHOK, Remote
<1>2. PICK result :
        /\ H!Inspect(result)
        /\ \/ call' = NoCall /\ \E r, h : /\ r = (IF H!Unsaved THEN Current ELSE result)
                                          /\ h = memory.handle /\ Remember(r, TRUE, h)
           \/ /\ ~ H!Blocked(result) /\ Current.attempt < MaxAttempt
              /\ \E a, h : /\ a = Current.attempt + 1 /\ h = memory.handle
                           /\ Remember(Intent(a), TRUE, h)
                           /\ call' = [op |-> "resume", pc |-> "launching", run |-> NoRun,
                                       attempt |-> a]
  BY SSHNames DEF H!Resume, H!Keep, Return, Begin
<1>3. /\ HostMoves
      /\ ~ H!Unsaved => /\ result \in Rows /\ result.status \in Statuses \ {"PLANNED"}
                        /\ result.attempt = Current.attempt
                        /\ result.status = "SUCCEEDED" => Won(result.attempt)
                        /\ HostMarks(result, site')
      /\ "timed_out" \in Current.marks =>
           ~ H!Unsaved /\ result.status \in {"FAILED", "CANCELLED", "UNKNOWN"}
      /\ {"cleanup_pending", "timeout_pending"} \cap Current.marks # {} =>
           ~ H!Unsaved /\ result.status # "SUCCEEDED"
      /\ "cleanup_pending" \in Current.marks /\ ~ H!Blocked(result) =>
           \A r \in Launched : runs[r].attempt = Current.attempt => r \notin site'["shell"]
  BY <1>2, SSHInspects
<1>4. CASE call' = NoCall /\ \E r, h : /\ r = (IF H!Unsaved THEN Current ELSE result)
                                       /\ h = memory.handle /\ Remember(r, TRUE, h)
  <2>1. PICK r, h : /\ r = (IF H!Unsaved THEN Current ELSE result)
                    /\ h = memory.handle /\ Remember(r, TRUE, h)
    BY <1>4
  <2>2. CASE H!Unsaved
    <3>1. r = Current
      BY <2>1, <2>2
    <3> QED  BY <1>1, <1>3, <1>4, <2>1, <3>1, SSHKnown, SSHAnswered
  <2>3. CASE ~ H!Unsaved
    <3>1. h = memory.handle /\ Remember(result, TRUE, h)
      BY <2>1, <2>3
    <3>2. /\ result \in Rows /\ result.status \in Statuses /\ result.status # "PLANNED"
          /\ result.attempt = Current.attempt
          /\ HostMarks(result, site')
      BY <1>3, <2>3
    <3>3. result.status = "SUCCEEDED" => Won(result.attempt)
      BY <1>3, <2>3
    <3> QED  BY <1>1, <1>3, <1>4, <3>1, <3>2, <3>3, SSHAnswered
  <2> QED  BY <2>2, <2>3
<1>5. CASE /\ ~ H!Blocked(result) /\ Current.attempt < MaxAttempt
           /\ \E a, h : /\ a = Current.attempt + 1 /\ h = memory.handle
                        /\ Remember(Intent(a), TRUE, h)
                        /\ call' = [op |-> "resume", pc |-> "launching", run |-> NoRun,
                                    attempt |-> a]
  <2>1. PICK a, h : /\ a = Current.attempt + 1 /\ h = memory.handle
                    /\ Remember(Intent(a), TRUE, h)
                    /\ call' = [op |-> "resume", pc |-> "launching", run |-> NoRun,
                                attempt |-> a]
    BY <1>5
  <2>2. Current.attempt \in Nat /\ a \in Attempts /\ a \in Nat
    BY <1>5, <2>1, CurrentFacts, ClientAssumption DEF SSHOK, Remote, Rows, Attempts
  <2>3. PICK r \in Rows : /\ r = Intent(a) /\ r.status = "SUBMITTED" /\ r.attempt = a
                          /\ r.run = NoRun /\ r.marks = {"intent"}
    BY <2>2, IntentFacts
  <2>4. /\ h \in Handles /\ "SUBMITTED" \in Statuses
        /\ call' \in Calls /\ call'.run = NoRun /\ call'.pc = "launching" /\ call'.attempt = a
    BY <2>1, <2>2, AttemptFacts DEF SSHOK, ClientOK, Statuses, Calls, NoRun
  <2>5. /\ ClientOK' /\ Remote' /\ Current' = r /\ Launched' = Launched /\ RunStep /\ row' = r
    BY <1>3, <2>1, <2>3, <2>4, AnswerKeeps DEF SSHOK, HostMoves
  <2>6. HostMarks(r, site')
    BY <2>3 DEF HostMarks
  <2>7. SSHOK'
    <3>1. row' = Intent(call'.attempt)
      BY <2>3, <2>4, <2>5
    <3> QED  BY <1>3, <2>1, <2>2, <2>3, <2>4, <2>5, <2>6, <3>1, SSHKeeps DEF HostMoves
  <2>8. DeadlineStep /\ CleanupStep /\ PendingStep
    BY <1>3, <1>5, <2>1, <2>2, <2>3, <2>5, SSHSettled
  <2> QED  BY <2>5, <2>7, <2>8 DEF SSHSteps
<1> QED  BY <1>2, <1>4, <1>5

(* The controller waits, or gives up without an answer, while the host goes   *)
(* on: what is known stays, and nothing is launched.                         *)
LEMMA SSHQuiet ==
  ASSUME SSHOK, UNCHANGED <<row, memory, kind>>, RunsKept, Launched' = Launched,
         \A r \in RunIds : runs'[r].attempt = runs[r].attempt, HostGrows,
         \/ call' = call
         \/ ~ Idle /\ call' = [call EXCEPT !.pc = "launched"] /\ call.run = NoRun
  PROVE  SSHOK' /\ DeadlineStep /\ CleanupStep /\ PendingStep
<1>1. /\ call \in Calls
      /\ call.run # NoRun => /\ call.pc \in {"launched", "watched"} /\ call.run \in Launched
                             /\ call.run \in RunIds
                             /\ runs[call.run].attempt = call.attempt
      /\ Idle => call = NoCall
  BY DEF SSHOK, ClientOK, Remote, CallShape, Launched
<1>2. \/ call' = call
      \/ /\ ~ Idle /\ call'.pc = "launched" /\ call'.run = NoRun /\ call' \in Calls
         /\ call'.attempt = call.attempt
  BY <1>1 DEF Calls
<1>3. ClientOK' /\ Remote' /\ Current' = Current
  <2>1. call' \in Calls /\ ((call'.pc # "idle" /\ ~ Idle) \/ call' = call)
    BY <1>1, <1>2
  <2>2. call'.run # NoRun => /\ call'.pc \in {"launched", "watched"} /\ call'.run \in Launched'
                             /\ runs'[call'.run].attempt = call'.attempt
    BY <1>1, <1>2
  <2> QED  BY <2>1, <2>2, QuietKeeps DEF SSHOK
<1>4. Current.attempt \in Nat
  BY CurrentFacts, AttemptFacts DEF SSHOK, Remote, Rows
<1>5. HostMarks(Current, site)
  BY DEF SSHOK, SSHInv
<1>6. HostMarks(Current', site')
  <2>1. PICK x : x = Current
    OBVIOUS
  <2>2. x.run # NoRun => x.run \in RunIds
    BY <1>5, <2>1 DEF HostMarks, Launched
  <2>3. HostMarks(x, site')
    BY <1>5, <2>1, <2>2 DEF HostMarks, HostGrows
  <2> QED  BY <1>3, <1>5, <2>1, <2>2, <2>3 DEF HostMarks
<1>7. SSHOK'
  BY <1>1, <1>2, <1>3, <1>4, <1>6, SSHKeeps
<1> QED  BY <1>7, SSHSettled

(* The launch script starts the one shell of the attempt.                    *)
LEMMA SSHLaunch ==
  ASSUME SSHOK, UNCHANGED kind, H!LaunchOnHost
  PROVE  SSHOK' /\ SSHSteps
<1>1. /\ call.pc = "launching" /\ UNCHANGED <<row, memory>> /\ ~ Idle /\ row # NoRow
      /\ call \in Calls /\ runs \in RunTable /\ row = Intent(call.attempt) /\ Current = row
      /\ \A r \in Launched : runs[r].attempt # call.attempt
  BY CurrentFacts
  DEF H!LaunchOnHost, SSHOK, Remote, CallShape, Idle, ClientOK, SSHInv
<1>2. PICK a \in Attempts : a = call.attempt
  BY <1>1 DEF Calls
<1>3. a \in Nat /\ Current.attempt = a /\ Current.run = NoRun /\ Current.marks = {"intent"}
  BY <1>1, <1>2, IntentFacts, AttemptFacts
<1>4. PICK f, fs : /\ f = FreshRun /\ Launch(a, "starting") /\ H!Put(f, fs)
  BY <1>2, SSHNames DEF H!LaunchOnHost
<1>5. /\ f \in RunIds \ Launched /\ runs[f].state = "none" /\ runs' \in RunTable
      /\ runs'[f].attempt = a /\ runs'[f].state = "starting"
      /\ \A r \in RunIds \ {f} : runs'[r] = runs[r]
      /\ Launched' = Launched \cup {f}
      /\ call' \in Calls /\ call'.pc = "launched" /\ call'.run = f
      /\ call'.attempt = call.attempt
  BY <1>1, <1>4, LaunchFacts
<1>6. site' \in [H!Files -> SUBSET RunIds]
  BY <1>4, <1>5 DEF SSHOK, H!Put
<1>7. RunsKept
  BY <1>5 DEF RunsKept
<1>8. ClientOK' /\ Remote' /\ Current' = Current
  BY <1>1, <1>2, <1>5, <1>7, QuietKeeps DEF SSHOK
<1>9. RunStep
  BY <1>1, <1>2, <1>5 DEF RunStep, OneStarts, LostBefore
<1>10. Once'
  BY <1>1, <1>2, <1>5 DEF SSHOK, SSHInv, Once, Launched
<1>11. \A r \in Launched' : runs'[r].attempt <= Current'.attempt
  BY <1>3, <1>5, <1>8 DEF SSHOK, SSHInv, Launched
<1>12. HostMarks(Current, site)'
  BY <1>3, <1>8 DEF HostMarks
<1>13. row' = Intent(call'.attempt)
  BY <1>1, <1>5
<1>14. SSHOK'
  BY <1>5, <1>6, <1>8, <1>10, <1>11, <1>12, <1>13 DEF SSHOK, SSHInv, Idle
<1>15. DeadlineStep /\ CleanupStep /\ PendingStep
  BY <1>1, SSHSettled
<1> QED  BY <1>9, <1>14, <1>15 DEF SSHSteps

(* The launch is answered, or it failed and the host is cleaned up.          *)
LEMMA SSHReturns ==
  ASSUME SSHOK, UNCHANGED kind, H!Answered \/ H!LaunchFailed
  PROVE  SSHOK' /\ SSHSteps
<1>1. /\ call.pc = "launched" /\ ~ Idle /\ row = Intent(call.attempt) /\ Current = row /\ Known
      /\ call \in Calls /\ call' = NoCall
      /\ call.run # NoRun => call.run \in Launched /\ runs[call.run].attempt = call.attempt
  BY SSHNames, CurrentFacts
  DEF H!Answered, H!LaunchFailed, Return, SSHOK, Remote, CallShape, Idle, ClientOK, SSHInv
<1>2. PICK a \in Attempts : a = call.attempt
  BY <1>1 DEF Calls
<1>3. Current.attempt = a /\ Current.run = NoRun /\ Current.marks = {"intent"}
  BY <1>1, <1>2, IntentFacts
<1>4. CASE H!Answered
  <2>1. PICK n, h : /\ n = call.run /\ n # NoRun /\ h = memory.handle
                    /\ Remember(Result("SUBMITTED", a, n), TRUE, h)
    BY <1>2, <1>4, SSHNames DEF H!Answered, H!Keep
  <2>2. UNCHANGED <<runs, site>>
    BY <1>4 DEF H!Answered
  <2>3. n \in 0..MaxRuns /\ "SUBMITTED" \in Statuses
    BY <1>1, <2>1 DEF Calls, Statuses
  <2>4. PICK r \in Rows : /\ r = Result("SUBMITTED", a, n) /\ r.status = "SUBMITTED"
                          /\ r.attempt = a /\ r.run = n /\ r.marks = {}
    BY <2>3, ResultFacts
  <2>5. HostMoves
    BY <2>2, SSHStays
  <2>6. HostMarks(r, site')
    BY <1>1, <1>2, <2>1, <2>4 DEF HostMarks
  <2> QED  BY <1>1, <1>3, <2>1, <2>3, <2>4, <2>5, <2>6, SSHAnswered
<1>5. CASE H!LaunchFailed
  <2>1. PICK o : H!Cleanup(a, o) /\ Remember(H!CleanedUp(a, o), TRUE, memory.handle)
    BY <1>2, <1>5, SSHNames DEF H!LaunchFailed, H!Keep
  <2>2. PICK r, h : r = H!CleanedUp(a, o) /\ h = memory.handle /\ Remember(r, TRUE, h)
    BY <2>1
  <2>3. /\ r \in Rows /\ r.attempt = a /\ r.run = NoRun /\ r.status \in {"FAILED", "UNKNOWN"}
        /\ r.marks \subseteq {"intent", "cleanup_pending"} /\ r.status \in Statuses
    BY <2>2, SSHCleanedUp
  <2>4. HostMoves
    BY <2>1, SSHCleanup
  <2>5. HostMarks(r, site')
    BY <2>3 DEF HostMarks
  <2> QED  BY <1>1, <1>3, <2>2, <2>3, <2>4, <2>5, SSHAnswered
<1> QED  BY <1>4, <1>5

(* A submit that begins or is refused, and a controller that starts again.   *)
LEMMA SSHBegins ==
  ASSUME SSHOK, UNCHANGED kind, BeginSubmit \/ SubmitRefused \/ Reopen
  PROVE  SSHOK' /\ SSHSteps
<1>1. ClientOK /\ Remote
  BY DEF SSHOK
<1>2. CASE BeginSubmit
  <2>1. /\ ClientOK' /\ Remote' /\ Current' = Intent(1) /\ row' = Intent(1)
        /\ Launched = {} /\ Current = NoRow /\ UNCHANGED <<runs, site>> /\ RunStep
        /\ call' = [op |-> "submit", pc |-> "launching", run |-> NoRun, attempt |-> 1]
    BY <1>1, <1>2, BeginSubmitFacts
  <2>2. Current'.run = NoRun /\ Current'.marks = {"intent"}
    BY <2>1, AttemptFacts, IntentFacts
  <2>3. call'.pc = "launching" /\ row' = Intent(call'.attempt)
    BY <2>1
  <2>4. SSHOK'
    BY <2>1, <2>2, <2>3, SSHNothing
  <2> QED  BY <2>1, <2>4, NoRowFacts, SSHSettled DEF SSHSteps
<1>3. CASE SubmitRefused
  <2>1. /\ ClientOK' /\ Remote' /\ Current' = Planned /\ row' = NoRow /\ row = NoRow
        /\ Launched = {} /\ call' = NoCall /\ UNCHANGED <<runs, site>> /\ RunStep
    BY <1>1, <1>3, SubmitRefusedFacts
  <2>2. Current'.run = NoRun /\ Current'.marks = {}
    BY <2>1, PlannedFacts
  <2>3. SSHOK'
    BY <2>1, <2>2, SSHNothing
  <2> QED  BY <2>1, <2>3, SSHSettled DEF SSHSteps
<1>4. CASE Reopen
  <2>1. /\ ClientOK' /\ Remote' /\ Current' = row /\ call' = NoCall /\ row' = row
        /\ row = NoRow => Launched = {}
        /\ row # NoRow => Current = row
        /\ UNCHANGED <<runs, site>> /\ RunStep
    BY <1>1, <1>4, ReopenFacts
  <2>2. CASE row = NoRow
    <3>1. Current'.run = NoRun /\ Current'.marks = {}
      BY <2>1, <2>2, NoRowFacts
    <3>2. SSHOK'
      BY <2>1, <2>2, <3>1, SSHNothing
    <3> QED  BY <2>1, <3>2, SSHSettled DEF SSHSteps
  <2>3. CASE row # NoRow
    <3>1. Current' = Current /\ Launched' = Launched /\ Current.attempt \in Nat
      BY <1>1, <2>1, <2>3, AttemptFacts DEF Launched, ClientOK, Rows
    <3>2. HostMoves
      BY <2>1, SSHStays
    <3>3. HostMarks(Current', site')
      BY <2>1, <3>1 DEF SSHOK, SSHInv, HostMarks
    <3>4. SSHOK'
      BY <2>1, <3>1, <3>2, <3>3, SSHKeeps DEF HostMoves
    <3> QED  BY <2>1, <3>4, SSHSettled DEF SSHSteps
  <2> QED  BY <2>2, <2>3
<1> QED  BY <1>2, <1>3, <1>4

(* A launch that never arrived.                                              *)
LEMMA SSHLost ==
  ASSUME SSHOK, UNCHANGED kind, H!LaunchLost
  PROVE  SSHOK' /\ SSHSteps
<1>1. /\ ~ Idle /\ call.run = NoRun /\ UNCHANGED <<row, memory, runs, site>>
      /\ call' = [call EXCEPT !.pc = "launched"]
  BY DEF H!LaunchLost, H!Goto, Idle, SSHOK, Remote, CallShape
<1>2. HostMoves /\ RunsStop
  BY <1>1, SSHStays DEF HostMoves
<1>3. RunsKept /\ Launched' = Launched
  BY <1>2, StopKeeps
<1>4. SSHOK' /\ DeadlineStep /\ CleanupStep /\ PendingStep
  BY <1>1, <1>2, <1>3, SSHQuiet DEF HostMoves
<1> QED  BY <1>1, <1>2, <1>4 DEF SSHSteps, RunStep, SomeStop

(* Containers start, watchers fire, and shells end.                          *)
LEMMA SSHWorld ==
  ASSUME SSHOK, UNCHANGED kind, H!World
  PROVE  SSHOK' /\ SSHSteps
<1>1. UNCHANGED <<row, memory, call>>
  BY DEF H!World, H!ContainerStarts, H!DeadlinePasses, H!DeadlineEnforced, H!JobEnds
<1>2. PICK r \in RunIds :
        \/ H!ContainerStarts(r) \/ H!DeadlinePasses(r) \/ H!DeadlineEnforced(r)
        \/ \E s \in {"won", "lost"} : H!JobEnds(r, s)
  BY SSHNames DEF H!World
<1>3. {"late", "done", "firing", "cid", "exit"} \subseteq H!Files \ {"shell"}
  BY DEF H!Files
<1>4. CASE H!ContainerStarts(r) \/ H!DeadlinePasses(r) \/ H!DeadlineEnforced(r)
  <2>1. \E fs \in SUBSET (H!Files \ {"shell"}) : H!Put(r, fs) \/ H!EndShell(r, fs)
    <3>1. {"late", "done"} \in SUBSET (H!Files \ {"shell"})
          /\ {"late"} \in SUBSET (H!Files \ {"shell"})
          /\ {"firing"} \in SUBSET (H!Files \ {"shell"})
          /\ {"cid"} \in SUBSET (H!Files \ {"shell"})
      BY <1>3
    <3> QED
      BY <1>4, <3>1 DEF H!ContainerStarts, H!DeadlinePasses, H!DeadlineEnforced
  <2>2. HostGrows
    BY <2>1, SSHPut
  <2>3. UNCHANGED runs \/ (Alive(r) /\ \E s \in {"stopped", "running", "lost"} : MoveRun(r, s))
    BY <1>4, SSHNames
    DEF H!ContainerStarts, H!DeadlinePasses, H!DeadlineEnforced, H!HasContainer, Alive
  <2>4. RunsStop /\ \A q \in RunIds : runs'[q].attempt = runs[q].attempt
    BY <2>3, SSHMove
  <2>5. RunsKept /\ Launched' = Launched
    BY <2>4, StopKeeps
  <2>6. SSHOK' /\ DeadlineStep /\ CleanupStep /\ PendingStep
    BY <1>1, <2>2, <2>4, <2>5, SSHQuiet
  <2> QED  BY <1>1, <2>4, <2>6 DEF SSHSteps, RunStep, SomeStop
<1>5. CASE \E s \in {"won", "lost"} : H!JobEnds(r, s)
  <2>1. PICK s \in {"won", "lost"}, fs \in {{"exit"}, {}} :
          Alive(r) /\ MoveRun(r, s) /\ H!EndShell(r, fs)
    BY <1>5, SSHNames DEF H!JobEnds
  <2>2. HostGrows
    <3>1. fs \in SUBSET (H!Files \ {"shell"})
      BY <1>3, <2>1
    <3> QED  BY <2>1, <3>1, SSHPut
  <2>3. /\ runs' \in RunTable /\ runs'[r].state = s /\ runs'[r].attempt = runs[r].attempt
        /\ \A q \in RunIds \ {r} : runs'[q] = runs[q]
        /\ \A q \in RunIds : runs'[q].attempt = runs[q].attempt
        /\ Launched' = Launched
    BY <2>1, MoveFacts DEF SSHOK, ClientOK, RunStates, Alive
  <2>4. RunsKept
    BY <2>1, <2>3 DEF RunsKept, Alive
  <2>5. SSHOK' /\ DeadlineStep /\ CleanupStep /\ PendingStep
    BY <1>1, <2>2, <2>3, <2>4, SSHQuiet
  <2>6. SomeStop \/ OneWins
    <3>1. CASE s = "won"
      BY <1>1, <2>1, <2>3, <3>1 DEF OneWins
    <3>2. CASE s = "lost"
      BY <1>1, <2>1, <2>3, <3>2 DEF SomeStop, RunsStop
    <3> QED  BY <2>1, <3>1, <3>2
  <2> QED  BY <2>5, <2>6 DEF SSHSteps, RunStep
<1> QED  BY <1>2, <1>4, <1>5

LEMMA SSHStep ==
  ASSUME SSHOK, UNCHANGED kind, H!Next
  PROVE  SSHOK' /\ SSHSteps
<1>1. CASE H!BeginSubmit \/ H!SubmitRefused \/ H!Reopen
  <2>1. BeginSubmit \/ SubmitRefused \/ Reopen
    BY <1>1, SSHNames
  <2> QED  BY <2>1, SSHBegins
<1> QED
  BY <1>1, SSHStatus, SSHResume, SSHCancel, SSHLaunch, SSHLost, SSHReturns, SSHWorld
  DEF H!Next, H!Controller

----------------------------------------------------------------------------
(* A local job: a nonce belongs to one attempt, whichever supervisor read it, *)
(* so a completion record with the nonce of a result is of its attempt.      *)
LocalResult(x) ==
  /\ x = NoRow \/ x.status \in Statuses
  /\ x.marks \subseteq {"intent"}
  /\ "intent" \in x.marks => x.run = NoRun /\ x.nonce = 0
  /\ x.nonce \in Launched \cup {0}
  /\ Justified(x)
Agrees(A, x) == x.nonce # 0 => x.attempt = A[x.nonce]
Agreed(A) ==
  /\ Agrees(A, row) /\ Agrees(A, memory.result) /\ Agrees(A, site.launch)
  /\ \A r \in RunIds : site.nonce[r] # 0 => runs[r].attempt = A[site.nonce[r]]
  /\ call.pc = "launched" => A[call.run] = call.attempt
OneAttemptPerNonce == \E A \in [RunIds -> Attempts] : Agreed(A)
Supervised ==
  /\ site.launch.nonce \in Launched \cup {0}
  /\ \A r \in RunIds : /\ site.nonce[r] \in Launched \cup {0}
                       /\ runs[r].state = "none" => site.nonce[r] = 0
  /\ site.completion.nonce # 0 => Terminal(site.completion)
  /\ site.completion.status = "SUCCEEDED" =>
       \E r \in RunIds : runs[r].state = "won" /\ site.nonce[r] = site.completion.nonce
Cached ==
  /\ Saved /\ Forgotten
  /\ LocalResult(row) /\ LocalResult(memory.result)
  /\ memory.handle # 0 => memory.result.run = memory.handle /\ memory.result.marks = {}
  /\ Terminal(row) /\ memory.result # NoRow => memory.result = row
LocalCall ==
  /\ call.pc \in {"idle", "launching", "launched", "cancelling"}
  /\ Idle => call = NoCall
  /\ call.pc \in {"launching", "launched"} =>
       row # NoRow /\ (Terminal(row) => row.attempt < call.attempt)
  /\ call.pc = "launched" => call.run \in Launched
  /\ call.pc = "cancelling" => /\ memory.result # NoRow /\ memory.result.run # NoRun
                               /\ memory.result.marks = {} /\ ~ Terminal(memory.result)
LocalInv == LocalCall /\ Cached /\ Supervised /\ OneAttemptPerNonce

(* What a step may do to a verdict that is saved.                            *)
FinalStep == (kind = "local" /\ Terminal(row) /\ row' # row)
               => "intent" \in row'.marks \/ row'.attempt > row.attempt
LocalSteps == RunStep /\ DeadlineStep /\ CleanupStep /\ FinalStep

LEMMA LocalNames ==
  /\ L!Current = Current /\ L!Idle = Idle /\ L!Known = Known /\ L!Resumable = Resumable
  /\ L!RunIds = RunIds /\ L!NoRun = NoRun /\ L!Launched = Launched /\ L!FreshRun = FreshRun
  /\ L!NoCall = NoCall /\ L!NoRow = NoRow /\ L!NoMemory = NoMemory /\ L!Return = Return
  /\ \A s, a, n : L!Result(s, a, n) = Result(s, a, n)
  /\ \A a : L!Intent(a) = Intent(a)
  /\ \A r : (L!Alive(r) <=> Alive(r)) /\ (L!Active(r) <=> Active(r)) /\ (L!Terminal(r) <=> Terminal(r))
  /\ \A r, b, h : L!Remember(r, b, h) <=> Remember(r, b, h)
  /\ \A o, p, a : L!Begin(o, p, a) <=> Begin(o, p, a)
  /\ \A a, s : L!Launch(a, s) <=> Launch(a, s)
  /\ \A r, s : L!MoveRun(r, s) <=> MoveRun(r, s)
  /\ L!BeginSubmit = BeginSubmit /\ L!SubmitRefused = SubmitRefused /\ L!Reopen = Reopen
<1>1. /\ L!Current = Current /\ L!NoRun = NoRun /\ L!RunIds = RunIds /\ L!NoCall = NoCall
      /\ L!NoRow = NoRow /\ L!NoMemory = NoMemory
  BY DEF L!Current, Current, L!NoRow, NoRow, L!NoRun, NoRun, L!RunIds, RunIds,
         L!NoCall, NoCall, L!NoMemory, NoMemory
<1>2. L!Idle = Idle /\ L!Known = Known /\ L!Resumable = Resumable
  BY <1>1 DEF L!Known, Known, L!Idle, Idle, L!Resumable, Resumable
<1>3. L!Launched = Launched
  BY <1>1 DEF L!Launched, Launched
<1>4. L!FreshRun = FreshRun
  BY <1>1, <1>3 DEF L!FreshRun, FreshRun
<1>5. \A s, a, n : L!Result(s, a, n) = Result(s, a, n)
  BY <1>1 DEF L!Result, Result
<1>6. \A a : L!Intent(a) = Intent(a)
  BY <1>1, <1>5 DEF L!Intent, Intent
<1>7. \A r : (L!Alive(r) <=> Alive(r)) /\ (L!Active(r) <=> Active(r)) /\ (L!Terminal(r) <=> Terminal(r))
  BY DEF L!Alive, Alive, L!Active, Active, L!Terminal, Terminal
<1>8. \A r, b, h : L!Remember(r, b, h) <=> Remember(r, b, h)
  BY <1>1 DEF L!Remember, Remember
<1>9. L!Return = Return /\ \A o, p, a : L!Begin(o, p, a) <=> Begin(o, p, a)
  BY <1>1 DEF L!Begin, Begin, L!Return, Return
<1>10. /\ \A a, s : L!Launch(a, s) <=> Launch(a, s)
       /\ \A r, s : L!MoveRun(r, s) <=> MoveRun(r, s)
  BY <1>1, <1>3, <1>4 DEF L!Launch, Launch, L!MoveRun, MoveRun
<1>11. L!BeginSubmit = BeginSubmit /\ L!SubmitRefused = SubmitRefused /\ L!Reopen = Reopen
  BY <1>1, <1>2, <1>5, <1>6
  DEF L!BeginSubmit, BeginSubmit, L!SubmitRefused, SubmitRefused, L!Reopen, Reopen,
      L!Remember, Remember, L!Begin, Begin, L!Planned, Planned, L!Return, Return
<1> QED  BY <1>1, <1>2, <1>3, <1>4, <1>5, <1>6, <1>7, <1>8, <1>9, <1>10, <1>11
LocalOK == kind = "local" /\ ClientOK /\ site \in L!Sites /\ LocalInv

LEMMA LocalSites ==
  L!Sites = [launch : [nonce : 0..MaxRuns, attempt : Attempts],
             identity : [pid : 0..MaxRuns, nonce : 0..MaxRuns],
             completion : [nonce : 0..MaxRuns, status : Statuses \cup {"NONE"}],
             nonce : [RunIds -> 0..MaxRuns],
             told : SUBSET RunIds]
BY DEF L!Sites, L!Attempts, Attempts, L!Statuses, Statuses, L!RunIds, RunIds

(* A result stays as good while executions are launched and end.             *)
LEMMA LocalStays ==
  ASSUME RunsKept, UNCHANGED kind, NEW x
  PROVE  LocalResult(x) => LocalResult(x)'
<1>1. Justified(x) => Justified(x)'
  BY WonStays DEF Justified
<1> QED  BY <1>1 DEF LocalResult, RunsKept

(* The result the verdict starts from.                                       *)
LEMMA LocalCurrent ==
  ASSUME LocalOK, Known, NEW x, x = Current
  PROVE  /\ x \in Rows /\ x.status \in Statuses /\ LocalResult(x)
         /\ \A A : Agreed(A) => Agrees(A, x)
         /\ Terminal(row) => x = row
         /\ memory.handle # 0 => x = memory.result /\ x.run = memory.handle /\ x.marks = {}
<1>1. x = IF memory.result # NoRow THEN memory.result ELSE row
  BY DEF Current
<1>2. x \in Rows /\ LocalResult(x) /\ x # NoRow
  BY <1>1 DEF LocalOK, ClientOK, LocalInv, Cached, Known
<1>3. \A A : Agreed(A) => Agrees(A, x)
  BY <1>1 DEF Agreed
<1>4. memory.handle # 0 => memory.result # NoRow
  BY DEF LocalOK, LocalInv, Cached, Forgotten, NoMemory
<1>5. Terminal(row) => x = row
  BY <1>1 DEF LocalOK, LocalInv, Cached
<1> QED  BY <1>1, <1>2, <1>3, <1>4, <1>5 DEF LocalResult, LocalOK, LocalInv, Cached

(* A launch whose answer was lost is taken up with its attempt and nonce.    *)
LEMMA LocalRecovered ==
  ASSUME LocalOK, Known, NEW x, x = Current, NEW q, q = L!Recovered(x)
  PROVE  /\ q \in Rows /\ q.status \in Statuses /\ LocalResult(q)
         /\ \A A : Agreed(A) => Agrees(A, q)
         /\ x.marks = {} => q = x
<1>1. /\ x \in Rows /\ x.status \in Statuses /\ LocalResult(x)
      /\ \A A : Agreed(A) => Agrees(A, x)
  BY LocalCurrent
<1>2. CASE q = x
  BY <1>1, <1>2
<1>3. CASE q # x
  <2>1. "intent" \in x.marks
    BY <1>3 DEF L!Recovered
  <2>2. PICK a, n, k : a = site.launch.attempt /\ n = site.identity.pid /\ k = site.launch.nonce
    OBVIOUS
  <2>3. a \in Attempts /\ n \in 0..MaxRuns /\ k \in 0..MaxRuns
    BY <2>2, LocalSites DEF LocalOK
  <2>4. "RUNNING" \in Statuses
    BY DEF Statuses
  <2>5. PICK z \in Rows : /\ z = Result("RUNNING", a, n) /\ z.status = "RUNNING"
                          /\ z.attempt = a /\ z.run = n /\ z.marks = {}
    BY <2>3, <2>4, ResultFacts
  <2>6. q = [z EXCEPT !.nonce = k]
    BY <1>3, <2>2, <2>5, LocalNames DEF L!Recovered
  <2>7. /\ q \in Rows /\ q.status = "RUNNING" /\ q.marks = {} /\ q.nonce = k /\ q.attempt = a
    BY <2>3, <2>5, <2>6 DEF Rows
  <2>8. k \in Launched \cup {0}
    BY <2>2 DEF LocalOK, LocalInv, Supervised
  <2>9. LocalResult(q)
    BY <2>4, <2>7, <2>8 DEF LocalResult, Justified
  <2>10. \A A : Agreed(A) => Agrees(A, q)
    BY <2>2, <2>7 DEF Agreed, Agrees
  <2> QED  BY <2>1, <2>4, <2>7, <2>9, <2>10
<1> QED  BY <1>2, <1>3

(* A success is believed only of the launch the result names.                *)
LEMMA LocalCompletion ==
  ASSUME LocalOK, Known, NEW x, x = Current, NEW q, q = L!Recovered(x),
         NEW y, y = L!CompletionResult(q), L!Completed(q)
  PROVE  /\ y \in Rows /\ Terminal(y) /\ y.status \in Statuses /\ LocalResult(y)
         /\ \A A : Agreed(A) => Agrees(A, y)
         /\ y.run = q.run /\ y.marks = q.marks
<1>1. /\ q \in Rows /\ q.status \in Statuses /\ LocalResult(q)
      /\ \A A : Agreed(A) => Agrees(A, q)
  BY LocalRecovered
<1>2. PICK s : s = IF q.run # NoRun /\ site.completion.nonce = q.nonce
                     THEN site.completion.status ELSE "FAILED"
  OBVIOUS
<1>3. y = [q EXCEPT !.status = s]
  BY <1>2, LocalNames DEF L!CompletionResult
<1>4. q.run # NoRun => site.completion.nonce # 0
  BY LocalNames DEF L!Completed
<1>5. s \in {"SUCCEEDED", "FAILED", "CANCELLED"}
  BY <1>2, <1>4 DEF LocalOK, LocalInv, Supervised, Terminal
<1>6. s \in Statuses
  BY <1>5 DEF Statuses
<1>7. /\ y \in Rows /\ y.status = s /\ y.run = q.run /\ y.attempt = q.attempt
      /\ y.marks = q.marks /\ y.nonce = q.nonce
  BY <1>1, <1>3, <1>6, StatusFacts
<1>8. s = "SUCCEEDED" => Won(y.attempt)
  <2> SUFFICES ASSUME s = "SUCCEEDED" PROVE Won(y.attempt)
    OBVIOUS
  <2>1. /\ q.run # NoRun /\ site.completion.nonce = q.nonce /\ q.nonce # 0
        /\ site.completion.status = "SUCCEEDED"
    BY <1>2, <1>4
  <2>2. PICK r \in RunIds : runs[r].state = "won" /\ site.nonce[r] = q.nonce
    BY <2>1 DEF LocalOK, LocalInv, Supervised
  <2>3. PICK A \in [RunIds -> Attempts] : Agreed(A)
    BY DEF LocalOK, LocalInv, OneAttemptPerNonce
  <2>4. q.attempt = A[q.nonce]
    BY <1>1, <2>1, <2>3 DEF Agrees
  <2>5. runs[r].attempt = A[q.nonce]
    BY <2>1, <2>2, <2>3 DEF Agreed
  <2> QED  BY <1>7, <2>2, <2>4, <2>5 DEF Won
<1>9. LocalResult(y)
  BY <1>1, <1>6, <1>7, <1>8 DEF LocalResult, Justified
<1>10. \A A : Agreed(A) => Agrees(A, y)
  BY <1>1, <1>7 DEF Agrees
<1> QED  BY <1>5, <1>6, <1>7, <1>9, <1>10 DEF Terminal

LEMMA LocalVerdict ==
  ASSUME LocalOK, Known, NEW x, x = Current, NEW y, y = L!Verdict(x)
  PROVE  /\ y \in Rows /\ y.status \in Statuses /\ LocalResult(y)
         /\ \A A : Agreed(A) => Agrees(A, y)
         /\ Terminal(x) => y = x
         /\ x.marks = {} => y.run = x.run /\ y.marks = {}
         /\ ~ Terminal(y) => y.run # NoRun /\ y.marks = {}
         /\ ~ Terminal(y) /\ x.marks = {} => Alive(x.run)
<1>1. PICK q : q = L!Recovered(x)
  OBVIOUS
<1>2. /\ q \in Rows /\ q.status \in Statuses /\ LocalResult(q)
      /\ \A A : Agreed(A) => Agrees(A, q)
      /\ x.marks = {} => q = x
  BY <1>1, LocalRecovered
<1>3. CASE Terminal(x)
  <2>1. y = x
    BY <1>3, LocalNames DEF L!Verdict
  <2> QED  BY <1>3, <2>1, LocalCurrent
<1>4. CASE ~ Terminal(x) /\ L!Completed(q)
  <2>1. y = L!CompletionResult(q)
    BY <1>1, <1>4, LocalNames DEF L!Verdict
  <2> QED  BY <1>1, <1>2, <1>4, <2>1, LocalCompletion
<1>5. CASE ~ Terminal(x) /\ ~ L!Completed(q) /\ L!SupervisorAlive(q)
  <2>1. y = q
    BY <1>1, <1>5, LocalNames DEF L!Verdict
  <2>2. q.run # NoRun
    BY <1>5, LocalNames DEF L!Completed
  <2>3. q.marks = {}
    BY <1>2, <2>2 DEF LocalResult
  <2>4. memory.handle # 0 => x.run = memory.handle
    BY LocalCurrent
  <2>5. x.marks = {} => Alive(x.run)
    BY <1>2, <1>5, <2>4, LocalNames DEF L!SupervisorAlive, NoRun
  <2> QED  BY <1>2, <1>5, <2>1, <2>2, <2>3, <2>5
<1>6. CASE ~ Terminal(x) /\ ~ L!Completed(q) /\ ~ L!SupervisorAlive(q)
  <2>1. y = [q EXCEPT !.status = "FAILED"]
    BY <1>1, <1>6, LocalNames DEF L!Verdict
  <2>2. "FAILED" \in Statuses
    BY DEF Statuses
  <2>3. /\ y \in Rows /\ y.status = "FAILED" /\ y.run = q.run /\ y.attempt = q.attempt
        /\ y.marks = q.marks /\ y.nonce = q.nonce
    BY <1>2, <2>1, <2>2, StatusFacts
  <2>4. LocalResult(y) /\ \A A : Agreed(A) => Agrees(A, y)
    BY <1>2, <2>2, <2>3 DEF LocalResult, Justified, Agrees
  <2>5. Terminal(y)
    BY <2>3 DEF Terminal
  <2> QED  BY <1>2, <1>6, <2>2, <2>3, <2>4, <2>5
<1> QED  BY <1>3, <1>4, <1>5, <1>6

LEMMA LocalKeeps ==
  ASSUME LocalOK, UNCHANGED kind, RunsKept, ClientOK', site' \in L!Sites, LocalCall',
         Saved', Forgotten', LocalResult(row'), LocalResult(memory'.result),
         memory'.handle # 0 => memory'.result.run = memory'.handle /\ memory'.result.marks = {},
         Terminal(row') /\ memory'.result # NoRow => memory'.result = row',
         Supervised', NEW A \in [RunIds -> Attempts], Agreed(A)'
  PROVE  LocalOK'
<1>1. LocalResult(row)'
  <2>1. PICK x : x = row'
    OBVIOUS
  <2>2. LocalResult(x)'
    BY <2>1, LocalStays
  <2> QED  BY <2>1, <2>2 DEF LocalResult, Justified
<1>2. LocalResult(memory.result)'
  <2>1. PICK x : x = memory'.result
    OBVIOUS
  <2>2. LocalResult(x)'
    BY <2>1, LocalStays
  <2> QED  BY <2>1, <2>2 DEF LocalResult, Justified
<1>3. Cached'
  BY <1>1, <1>2 DEF Cached, Terminal
<1>4. OneAttemptPerNonce'
  BY DEF OneAttemptPerNonce
<1>5. (site \in L!Sites)'
  BY DEF L!Sites, L!Attempts, L!Statuses, L!RunIds
<1> QED  BY <1>3, <1>4, <1>5 DEF LocalOK, LocalInv

(* What saving a result leaves in the row and in the memory.                 *)
LEMMA LocalSaves ==
  ASSUME LocalOK, NEW r \in Rows, NEW b \in BOOLEAN, NEW h \in Handles, Remember(r, b, h),
         r.status \in Statuses, LocalResult(r), h # 0 => r.run = h /\ r.marks = {},
         Terminal(row) => r = row \/ (b /\ r # Current /\ r.status # "PLANNED")
  PROVE  /\ row' \in {row, r} /\ row' \in Rows
         /\ memory' \in [result : Rows, spec : BOOLEAN, handle : Handles]
         /\ memory'.result = r /\ memory'.handle = h
         /\ Saved' /\ Forgotten' /\ LocalResult(row')
         /\ Terminal(row') => r = row'
         /\ row' # row => row' # NoRow
<1>1. r # NoRow
  BY NoRowFacts DEF Statuses
<1>2. /\ memory' = [result |-> r, spec |-> b, handle |-> h]
      /\ row' = IF b /\ r # Current /\ r.status # "PLANNED" THEN r ELSE row
  BY DEF Remember
<1>3. row \in Rows /\ LocalResult(row) /\ Saved
  BY DEF LocalOK, ClientOK, LocalInv, Cached
<1>4. Saved' /\ Forgotten'
  BY <1>1, <1>2, <1>3 DEF Saved, Forgotten
<1>5. Terminal(row') => r = row'
  BY <1>2 DEF Terminal
<1> QED  BY <1>1, <1>2, <1>3, <1>4, <1>5

(* A call saves a result; of the executions it may stop one, or tell one.    *)
LEMMA LocalSaved ==
  ASSUME LocalOK, UNCHANGED kind, NEW r \in Rows, NEW b \in BOOLEAN, NEW h, Remember(r, b, h),
         h = 0 \/ h = memory.handle,
         r.status \in Statuses, LocalResult(r), h # 0 => r.run = h /\ r.marks = {},
         \A A : Agreed(A) => Agrees(A, r),
         Terminal(row) => r = row \/ (/\ b /\ r # Current /\ r.status # "PLANNED"
                                      /\ "intent" \in r.marks),
         RunsStop, \A q \in RunIds : runs'[q].attempt = runs[q].attempt,
         site' \in L!Sites, site'.launch = site.launch, site'.nonce = site.nonce,
         site'.completion = site.completion, call' \in Calls,
         \/ call' = NoCall
         \/ /\ call'.pc = "launching" /\ row' # NoRow
            /\ Terminal(r) => r.attempt < call'.attempt
         \/ /\ call'.pc = "cancelling" /\ r.run # NoRun /\ r.marks = {} /\ ~ Terminal(r)
  PROVE  LocalOK' /\ LocalSteps
<1>0. h \in Handles
  BY ClientAssumption DEF LocalOK, ClientOK, Handles
<1>1. /\ row' \in {row, r} /\ row' \in Rows
      /\ memory' \in [result : Rows, spec : BOOLEAN, handle : Handles]
      /\ memory'.result = r /\ memory'.handle = h
      /\ Saved' /\ Forgotten' /\ LocalResult(row')
      /\ Terminal(row') => r = row'
      /\ row' # row => row' # NoRow
  BY <1>0, LocalSaves
<1>2. RunsKept /\ Launched' = Launched
  BY StopKeeps
<1>3. ClientOK'
  BY <1>1, <1>2 DEF ClientOK, RunsKept
<1>4. r # NoRow
  BY NoRowFacts DEF Statuses
<1>5. LocalCall'
  BY <1>1, <1>4 DEF LocalCall, Idle, NoCall, Terminal
<1>6. Supervised'
  <2>1. \A q \in RunIds : /\ runs'[q].state = "none" => runs[q].state = "none"
                          /\ runs[q].state = "won" => runs'[q].state = "won"
    BY DEF RunsStop, Alive
  <2> QED  BY <1>2, <2>1 DEF LocalOK, LocalInv, Supervised, Terminal
<1>7. PICK A \in [RunIds -> Attempts] : Agreed(A)
  BY DEF LocalOK, LocalInv, OneAttemptPerNonce
<1>8. Agreed(A)'
  <2>1. Agrees(A, row') /\ Agrees(A, memory'.result) /\ Agrees(A, site'.launch)
    BY <1>1, <1>7 DEF Agreed, Agrees
  <2>2. call'.pc # "launched"
    BY DEF NoCall
  <2>3. \A q \in RunIds : site'.nonce[q] # 0 => runs'[q].attempt = A[site'.nonce[q]]
    BY <1>7 DEF Agreed
  <2> QED  BY <2>1, <2>2, <2>3 DEF Agreed, Agrees
<1>9. LocalOK'
  BY <1>1, <1>2, <1>3, <1>5, <1>6, <1>8, LocalKeeps
<1>10. RunStep
  <2>1. row' = row \/ (row' # NoRow /\ (row'.status = "SUCCEEDED" => Won(row'.attempt)))
    BY <1>1 DEF LocalResult, Justified
  <2> QED  BY <2>1 DEF RunStep, SomeStop
<1>11. FinalStep
  BY <1>1 DEF FinalStep
<1>12. DeadlineStep /\ CleanupStep
  BY DEF DeadlineStep, CleanupStep, LocalOK, LocalInv, Cached, LocalResult
<1> QED  BY <1>9, <1>10, <1>11, <1>12 DEF LocalSteps

(* A step that saves nothing.                                                *)
LEMMA LocalQuiet ==
  ASSUME LocalOK, UNCHANGED <<row, memory, kind>>, RunsKept, call' = call \/ call' = NoCall,
         site' \in L!Sites, Supervised', NEW A \in [RunIds -> Attempts], Agreed(A),
         Agrees(A, site'.launch),
         \A q \in RunIds : site'.nonce[q] # 0 => runs'[q].attempt = A[site'.nonce[q]]
  PROVE  LocalOK' /\ DeadlineStep /\ CleanupStep /\ FinalStep
<1>1. call' \in Calls /\ ClientOK'
  <2>1. NoCall \in Calls
    BY AttemptFacts DEF Calls, NoCall, NoRun
  <2> QED  BY <2>1 DEF LocalOK, ClientOK, RunsKept
<1>2. LocalCall'
  BY DEF LocalOK, LocalInv, LocalCall, Idle, NoCall, Terminal, RunsKept
<1>3. Agreed(A)'
  <2>1. Agrees(A, row') /\ Agrees(A, memory'.result)
    BY DEF Agreed
  <2>2. call'.pc = "launched" => A[call'.run] = call'.attempt
    BY DEF Agreed, NoCall
  <2> QED  BY <2>1, <2>2 DEF Agreed, Agrees
<1>4. Saved' /\ Forgotten' /\ LocalResult(row') /\ LocalResult(memory'.result)
  BY DEF LocalOK, LocalInv, Cached, Saved, Forgotten
<1>5. LocalOK'
  BY <1>1, <1>2, <1>3, <1>4, LocalKeeps DEF LocalOK, LocalInv, Cached, Terminal
<1>6. DeadlineStep /\ CleanupStep /\ FinalStep
  BY DEF DeadlineStep, CleanupStep, FinalStep, LocalOK, LocalInv, Cached, LocalResult
<1> QED  BY <1>5, <1>6

(* The answers of status, resume, cancel and its acknowledgement.            *)
LEMMA LocalAnswers ==
  ASSUME LocalOK, UNCHANGED kind,
         L!Status \/ L!Resume \/ L!Cancel \/ L!CancelAcknowledged
  PROVE  LocalOK' /\ LocalSteps
<1>1. Known
  BY LocalNames DEF L!Status, L!Resume, L!Cancel, L!CancelAcknowledged, L!In, Resumable, Known,
     Current, NoRow, LocalOK, LocalInv, LocalCall
<1>2. PICK x, y : x = Current /\ y = L!Verdict(x)
  OBVIOUS
<1>3. /\ y \in Rows /\ y.status \in Statuses /\ LocalResult(y)
      /\ \A A : Agreed(A) => Agrees(A, y)
      /\ Terminal(x) => y = x
      /\ x.marks = {} => y.run = x.run /\ y.marks = {}
      /\ ~ Terminal(y) => y.run # NoRun /\ y.marks = {}
  BY <1>1, <1>2, LocalVerdict
<1>4. /\ Terminal(row) => y = row
      /\ memory.handle # 0 => y.run = memory.handle /\ y.marks = {}
  BY <1>1, <1>2, <1>3, LocalCurrent
<1>5. PICK b, h : b \in BOOLEAN /\ h = memory.handle /\ Remember(y, b, h)
  BY <1>2, LocalNames
  DEF L!Status, L!Resume, L!Cancel, L!CancelAcknowledged, LocalOK, ClientOK
<1>6. /\ site \in L!Sites /\ NoCall \in Calls
      /\ Idle => call = NoCall
  BY AttemptFacts DEF LocalOK, LocalInv, LocalCall, NoCall, Calls, NoRun
<1>7. CASE UNCHANGED <<runs, site>>
  <2>1. RunsStop
    BY <1>7, StillStops DEF LocalOK
  <2>2. \/ call' = NoCall
        \/ call'.pc = "launching" /\ row' # NoRow /\ call' \in Calls /\ call'.attempt > y.attempt
        \/ call'.pc = "cancelling" /\ ~ Terminal(y) /\ call' \in Calls
    <3>1. CASE L!Status
      BY <1>6, <3>1, LocalNames DEF L!Status
    <3>2. CASE L!Resume
      <4>1. \/ call' = NoCall
            \/ /\ y.attempt < MaxAttempt
               /\ call' = [op |-> "resume", pc |-> "launching", run |-> NoRun,
                           attempt |-> y.attempt + 1]
        BY <1>2, <3>2, LocalNames DEF L!Resume, Return, Begin
      <4>2. y.attempt < MaxAttempt => y.attempt + 1 \in Attempts /\ y.attempt + 1 > y.attempt
        BY <1>3, ClientAssumption DEF Rows, Attempts
      <4>3. y.attempt < MaxAttempt =>
              [op |-> "resume", pc |-> "launching", run |-> NoRun, attempt |-> y.attempt + 1]
                \in Calls
        BY <4>2, AttemptFacts DEF Calls, NoRun
      <4>4. row' # NoRow
        <5>1. row # NoRow
          BY <3>2, LocalNames DEF L!Resume, Resumable
        <5>2. y # NoRow
          BY <1>3, NoRowFacts DEF Statuses
        <5> QED  BY <1>5, <5>1, <5>2 DEF Remember
      <4> QED  BY <4>1, <4>2, <4>3, <4>4
    <3>3. CASE L!Cancel
      <4>1. \/ UNCHANGED call /\ Idle
            \/ /\ ~ Terminal(y)
               /\ call' = [op |-> "cancel", pc |-> "cancelling", run |-> NoRun,
                           attempt |-> y.attempt]
        BY <1>2, <3>3, LocalNames DEF L!Cancel, Begin
      <4>2. [op |-> "cancel", pc |-> "cancelling", run |-> NoRun, attempt |-> y.attempt] \in Calls
        BY <1>3, AttemptFacts DEF Calls, NoRun, Rows
      <4> QED  BY <1>6, <4>1, <4>2
    <3>4. CASE L!CancelAcknowledged
      BY <3>4, LocalNames DEF L!CancelAcknowledged, Return
    <3> QED  BY <3>1, <3>2, <3>3, <3>4
  <2>3. call' \in Calls
    BY <1>6, <2>2
  <2> QED  BY <1>3, <1>4, <1>5, <1>6, <1>7, <2>1, <2>2, <2>3, LocalSaved
<1>8. CASE L!Cancel /\ ~ UNCHANGED <<runs, site>>
  <2>1. PICK n : n = y.run
    OBVIOUS
  <2>2. /\ ~ Terminal(y)
        /\ call' = [op |-> "cancel", pc |-> "cancelling", run |-> NoRun, attempt |-> y.attempt]
        /\ \/ runs[n].state = "starting" /\ MoveRun(n, "stopped") /\ UNCHANGED site
           \/ site' = [site EXCEPT !.told = @ \cup {n}] /\ UNCHANGED runs
    BY <1>2, <1>8, <2>1, LocalNames DEF L!Cancel, Begin
  <2>3. call' \in Calls /\ call'.pc = "cancelling"
    BY <1>3, <2>2, AttemptFacts DEF Calls, NoRun, Rows
  <2>4. n \in RunIds
    BY <1>3, <2>1, <2>2 DEF Rows, RunIds, NoRun
  <2>5. CASE runs[n].state = "starting" /\ MoveRun(n, "stopped") /\ UNCHANGED site
    <3>1. /\ runs' \in RunTable /\ runs'[n].state = "stopped"
          /\ \A q \in RunIds \ {n} : runs'[q] = runs[q]
          /\ \A q \in RunIds : runs'[q].attempt = runs[q].attempt
      BY <2>4, <2>5, MoveFacts DEF LocalOK, ClientOK, RunStates
    <3>2. RunsStop
      BY <2>4, <2>5, <3>1 DEF RunsStop, Alive
    <3> QED  BY <1>3, <1>4, <1>5, <1>6, <2>2, <2>3, <2>5, <3>1, <3>2, LocalSaved
  <2>6. CASE site' = [site EXCEPT !.told = @ \cup {n}] /\ UNCHANGED runs
    <3>1. RunsStop
      BY <2>6, StillStops DEF LocalOK
    <3>2. /\ site' \in L!Sites /\ site'.launch = site.launch /\ site'.nonce = site.nonce
          /\ site'.completion = site.completion
      BY <1>6, <2>4, <2>6, LocalSites
    <3> QED  BY <1>3, <1>4, <1>5, <1>6, <2>2, <2>3, <2>6, <3>1, <3>2, LocalSaved
  <2> QED  BY <2>2, <2>5, <2>6
<1> QED  BY <1>7, <1>8 DEF L!Status, L!Resume, L!CancelAcknowledged

(* A supervisor that does not answer is alive until it is killed.            *)
LEMMA LocalForced ==
  ASSUME LocalOK, UNCHANGED kind, L!CancelForced
  PROVE  LocalOK' /\ LocalSteps
<1>1. /\ call.pc = "cancelling" /\ call' = NoCall /\ UNCHANGED site
      /\ memory.result # NoRow /\ Current = memory.result /\ Known
      /\ Current.run # NoRun /\ Current.marks = {} /\ ~ Terminal(Current)
  BY LocalNames
  DEF L!CancelForced, L!In, Return, LocalOK, LocalInv, LocalCall, Current, Known
<1>2. PICK x, y, n : x = Current /\ y = L!Verdict(x) /\ n = x.run
  OBVIOUS
<1>3. /\ x \in Rows /\ LocalResult(x) /\ \A A : Agreed(A) => Agrees(A, x)
      /\ Terminal(row) => x = row
      /\ memory.handle # 0 => x.run = memory.handle
  BY <1>1, <1>2, LocalCurrent
<1>4. ~ Terminal(y) /\ MoveRun(n, "stopped")
  BY <1>2, LocalNames DEF L!CancelForced
<1>5. Alive(n) /\ n \in RunIds
  BY <1>1, <1>2, <1>3, <1>4, LocalVerdict DEF Rows, RunIds, NoRun
<1>6. /\ runs' \in RunTable /\ runs'[n].state = "stopped"
      /\ \A q \in RunIds \ {n} : runs'[q] = runs[q]
      /\ \A q \in RunIds : runs'[q].attempt = runs[q].attempt
  BY <1>4, <1>5, MoveFacts DEF LocalOK, ClientOK, RunStates, Alive
<1>7. RunsStop
  BY <1>5, <1>6 DEF RunsStop
<1>8. PICK r, h : /\ r = [x EXCEPT !.status = "FAILED"] /\ h = memory.handle
                  /\ Remember(r, TRUE, h)
  BY <1>2, LocalNames DEF L!CancelForced
<1>9. "FAILED" \in Statuses
  BY DEF Statuses
<1>10. /\ r \in Rows /\ r.status = "FAILED" /\ r.run = x.run /\ r.attempt = x.attempt
       /\ r.marks = x.marks /\ r.nonce = x.nonce
  BY <1>3, <1>8, <1>9, StatusFacts
<1>11. LocalResult(r) /\ \A A : Agreed(A) => Agrees(A, r)
  BY <1>3, <1>9, <1>10 DEF LocalResult, Justified, Agrees
<1>12. site \in L!Sites /\ NoCall \in Calls /\ ~ Terminal(row)
  BY <1>1, <1>2, <1>3, AttemptFacts DEF LocalOK, NoCall, Calls, NoRun
<1> QED
  BY <1>1, <1>2, <1>3, <1>6, <1>7, <1>8, <1>9, <1>10, <1>11, <1>12, LocalSaved

(* A submit, the first or again: the intent is on record.                    *)
LEMMA LocalSubmits ==
  ASSUME LocalOK, UNCHANGED kind, BeginSubmit \/ L!SubmitAgain
  PROVE  LocalOK' /\ LocalSteps
<1>1. memory = NoMemory
  BY DEF BeginSubmit, L!SubmitAgain, L!NoMemory, NoMemory, L!NoRow, NoRow, L!NoRun, NoRun,
     LocalOK, LocalInv, Cached, Forgotten, Known, Current
<1>2. memory.handle = 0 /\ Current = row
  BY <1>1 DEF NoMemory, Current
<1>3. PICK r \in Rows : /\ r = Intent(1) /\ r.status = "SUBMITTED" /\ r.attempt = 1
                        /\ r.run = NoRun /\ r.nonce = 0 /\ r.marks = {"intent"}
  BY AttemptFacts, IntentFacts
<1>4. PICK h : h = 0 /\ Remember(r, TRUE, h)
  BY <1>2, <1>3, LocalNames DEF BeginSubmit, L!SubmitAgain, NoRun
<1>5. /\ call' = [op |-> "submit", pc |-> "launching", run |-> NoRun, attempt |-> 1]
      /\ UNCHANGED <<runs, site>>
  BY LocalNames DEF BeginSubmit, L!SubmitAgain, Begin
<1>6. call' \in Calls /\ site \in L!Sites
  BY <1>5, AttemptFacts DEF Calls, NoRun, LocalOK
<1>7. "SUBMITTED" \in Statuses
  BY DEF Statuses
<1>8. LocalResult(r) /\ \A A : Agreed(A) => Agrees(A, r)
  BY <1>3, <1>7 DEF LocalResult, Justified, Agrees
<1>9. ~ Terminal(r) /\ row' # NoRow
  <2>1. r # NoRow
    BY <1>3, NoRowFacts
  <2> QED  BY <1>2, <1>3, <1>4, <2>1 DEF Terminal, Remember
<1>10. RunsStop
  BY <1>5, StillStops DEF LocalOK
<1>11. Terminal(row) => r # Current
  BY <1>2, <1>9
<1> QED
  BY <1>2, <1>3, <1>4, <1>5, <1>6, <1>7, <1>8, <1>9, <1>10, <1>11, LocalSaved

LEMMA LocalRefused ==
  ASSUME LocalOK, UNCHANGED kind, SubmitRefused
  PROVE  LocalOK' /\ LocalSteps
<1>1. row = NoRow /\ memory = NoMemory /\ call = NoCall /\ call' = NoCall
  BY DEF SubmitRefused, LocalOK, LocalInv, LocalCall, Cached, Forgotten, Known, Current
<1>2. PICK r, h : r = Planned /\ h = memory.handle /\ Remember(r, TRUE, h)
  BY DEF SubmitRefused
<1>3. /\ r \in Rows /\ r.status = "PLANNED" /\ r.nonce = 0 /\ r.marks = {} /\ h = 0
  BY <1>1, <1>2, PlannedFacts DEF NoMemory
<1>4. r.status \in Statuses /\ ~ Terminal(row)
  BY <1>1, <1>3, NoRowFacts DEF Statuses, Terminal
<1>5. LocalResult(r) /\ \A A : Agreed(A) => Agrees(A, r)
  BY <1>3, <1>4 DEF LocalResult, Justified, Agrees
<1>6. /\ RunsStop /\ UNCHANGED <<runs, site>> /\ site \in L!Sites /\ call' \in Calls
  BY <1>1, StillStops DEF SubmitRefused, LocalOK, ClientOK
<1> QED  BY <1>1, <1>2, <1>3, <1>4, <1>5, <1>6, LocalSaved

LEMMA LocalReopens ==
  ASSUME LocalOK, UNCHANGED kind, Reopen
  PROVE  LocalOK' /\ LocalSteps
<1>1. /\ memory' = NoMemory /\ call' = NoCall /\ UNCHANGED <<row, runs, site>>
  BY DEF Reopen, Return
<1>2. /\ NoMemory \in [result : Rows, spec : BOOLEAN, handle : Handles]
      /\ NoMemory.result = NoRow /\ NoMemory.handle = 0 /\ NoCall \in Calls
  BY NoRowFacts, AttemptFacts, ClientAssumption DEF NoMemory, Handles, NoCall, Calls, NoRun
<1>3. RunsStop /\ RunsKept
  BY <1>1, StillStops, StopKeeps DEF LocalOK
<1>4. ClientOK'
  BY <1>1, <1>2 DEF LocalOK, ClientOK
<1>5. LocalCall'
  BY <1>1 DEF LocalCall, Idle, NoCall
<1>6. Saved' /\ Forgotten' /\ Supervised'
  BY <1>1 DEF LocalOK, LocalInv, Cached, Saved, Forgotten, Supervised, Launched, Terminal
<1>7. LocalResult(row') /\ LocalResult(memory'.result)
  BY <1>1, <1>2, NoRowFacts DEF LocalOK, LocalInv, Cached, LocalResult, Justified
<1>8. PICK A \in [RunIds -> Attempts] : Agreed(A)
  BY DEF LocalOK, LocalInv, OneAttemptPerNonce
<1>9. Agreed(A)'
  <2>1. Agrees(A, row') /\ Agrees(A, memory'.result) /\ Agrees(A, site'.launch)
    BY <1>1, <1>2, <1>8, NoRowFacts DEF Agreed, Agrees
  <2> QED  BY <1>1, <1>8, <2>1 DEF Agreed, Agrees, NoCall
<1>10. LocalOK'
  BY <1>1, <1>2, <1>3, <1>4, <1>5, <1>6, <1>7, <1>9, LocalKeeps DEF LocalOK
<1>11. DeadlineStep /\ CleanupStep /\ FinalStep
  BY <1>1 DEF DeadlineStep, CleanupStep, FinalStep, LocalOK, LocalInv, Cached, LocalResult
<1> QED  BY <1>1, <1>3, <1>10, <1>11 DEF LocalSteps, RunStep, SomeStop

(* The new supervisor's nonce is one that no result and no file holds.       *)
LEMMA LocalStarts ==
  ASSUME LocalOK, UNCHANGED kind, L!StartSupervisor
  PROVE  LocalOK' /\ LocalSteps
<1>1. /\ call.pc = "launching" /\ UNCHANGED <<row, memory>> /\ row # NoRow
      /\ Terminal(row) => row.attempt < call.attempt
      /\ call \in Calls /\ runs \in RunTable /\ site \in L!Sites
  BY DEF L!StartSupervisor, LocalOK, LocalInv, LocalCall, ClientOK
<1>2. PICK f, a : /\ f = FreshRun /\ a = call.attempt /\ Launch(a, "starting")
                  /\ site' = [site EXCEPT !.launch = [nonce |-> f, attempt |-> a],
                                          !.identity = L!NoIdentity,
                                          !.completion = L!NoCompletion]
  BY LocalNames DEF L!StartSupervisor
<1>3. a \in Attempts
  BY <1>1, <1>2 DEF Calls
<1>4. /\ f \in RunIds \ Launched /\ runs[f].state = "none" /\ runs' \in RunTable
      /\ runs'[f].attempt = a /\ runs'[f].state = "starting"
      /\ \A r \in RunIds \ {f} : runs'[r] = runs[r]
      /\ Launched' = Launched \cup {f}
      /\ call' \in Calls /\ call'.pc = "launched" /\ call'.run = f
      /\ call'.attempt = call.attempt
  BY <1>1, <1>2, <1>3, LaunchFacts
<1>5. /\ site' \in L!Sites /\ site'.launch = [nonce |-> f, attempt |-> a]
      /\ site'.nonce = site.nonce /\ site'.completion = [nonce |-> 0, status |-> "NONE"]
  <2>1. /\ L!NoIdentity \in [pid : 0..MaxRuns, nonce : 0..MaxRuns]
        /\ L!NoCompletion \in [nonce : 0..MaxRuns, status : Statuses \cup {"NONE"}]
        /\ L!NoCompletion = [nonce |-> 0, status |-> "NONE"]
        /\ f \in 0..MaxRuns /\ f # 0
    BY <1>4, AttemptFacts, LocalNames DEF L!NoIdentity, L!NoCompletion, NoRun, RunIds
  <2>2. PICK i, c : i = L!NoIdentity /\ c = L!NoCompletion
    OBVIOUS
  <2> QED  BY <1>1, <1>2, <1>3, <2>1, <2>2, LocalSites
<1>6. RunsKept
  BY <1>4 DEF RunsKept
<1>7. ClientOK'
  BY <1>1, <1>4 DEF LocalOK, ClientOK
<1>8. LocalCall'
  BY <1>1, <1>4 DEF LocalCall, Idle, Terminal
<1>9. Saved' /\ Forgotten' /\ LocalResult(row') /\ LocalResult(memory'.result)
  BY <1>1 DEF LocalOK, LocalInv, Cached, Saved, Forgotten
<1>10. Supervised'
  <2>1. /\ site'.launch.nonce = f /\ site'.completion.nonce = 0
        /\ site'.completion.status = "NONE"
    BY <1>5
  <2>2. \A r \in RunIds : /\ site'.nonce[r] \in Launched' \cup {0}
                          /\ runs'[r].state = "none" => site'.nonce[r] = 0
    BY <1>4, <1>5 DEF LocalOK, LocalInv, Supervised
  <2> QED  BY <1>4, <2>1, <2>2 DEF Supervised
<1>11. PICK A \in [RunIds -> Attempts] : Agreed(A)
  BY DEF LocalOK, LocalInv, OneAttemptPerNonce
<1>12. PICK B \in [RunIds -> Attempts] : B[f] = a /\ \A q \in RunIds \ {f} : B[q] = A[q]
  <2>1. [A EXCEPT ![f] = a] \in [RunIds -> Attempts]
    BY <1>3, <1>4
  <2> QED  BY <1>4, <2>1
<1>13. \A q \in Launched : q \in RunIds \ {f} /\ B[q] = A[q]
  BY <1>4, <1>12 DEF Launched
<1>14. Agreed(B)'
  <2>1. Agrees(B, row') /\ Agrees(B, memory'.result)
    BY <1>1, <1>11, <1>13 DEF Agreed, Agrees, LocalOK, LocalInv, Cached, LocalResult
  <2>2. Agrees(B, site'.launch)
    BY <1>5, <1>12 DEF Agrees
  <2>3. \A q \in RunIds : site'.nonce[q] # 0 => runs'[q].attempt = B[site'.nonce[q]]
    <3> TAKE q \in RunIds
    <3> HAVE site'.nonce[q] # 0
    <3>1. q # f /\ site.nonce[q] \in Launched
      BY <1>4, <1>5 DEF LocalOK, LocalInv, Supervised
    <3> QED  BY <1>4, <1>5, <1>11, <1>13, <3>1 DEF Agreed
  <2>4. B[call'.run] = call'.attempt
    BY <1>2, <1>4, <1>12
  <2> QED  BY <2>1, <2>2, <2>3, <2>4 DEF Agreed, Agrees
<1>15. LocalOK'
  BY <1>1, <1>5, <1>6, <1>7, <1>8, <1>9, <1>10, <1>14, LocalKeeps
     DEF LocalOK, LocalInv, Cached, Terminal
<1>16. RunStep
  BY <1>1, <1>4 DEF RunStep, OneStarts, LostBefore, LocalOK
<1>17. DeadlineStep /\ CleanupStep /\ FinalStep
  BY <1>1 DEF DeadlineStep, CleanupStep, FinalStep, LocalOK, LocalInv, Cached, LocalResult
<1> QED  BY <1>15, <1>16, <1>17 DEF LocalSteps

(* The identity of the new supervisor is saved with its nonce.               *)
LEMMA LocalStarted ==
  ASSUME LocalOK, UNCHANGED kind, L!Started
  PROVE  LocalOK' /\ LocalSteps
<1>1. /\ call.pc = "launched" /\ call' = NoCall /\ UNCHANGED <<runs, site>>
      /\ call.run \in Launched /\ call.run \in RunIds /\ call \in Calls /\ site \in L!Sites
      /\ Terminal(row) => row.attempt < call.attempt
  BY LocalNames
  DEF L!Started, Return, LocalOK, LocalInv, LocalCall, ClientOK, Launched
<1>2. RunsStop /\ RunsKept
  BY <1>1, StillStops, StopKeeps DEF LocalOK
<1>3. PICK A \in [RunIds -> Attempts] : Agreed(A)
  BY DEF LocalOK, LocalInv, OneAttemptPerNonce
<1>4. CASE UNCHANGED <<row, memory>>
  <2>1. Supervised'
    BY <1>1 DEF LocalOK, LocalInv, Supervised, Launched, Terminal
  <2>2. /\ Agrees(A, site'.launch)
        /\ \A q \in RunIds : site'.nonce[q] # 0 => runs'[q].attempt = A[site'.nonce[q]]
    BY <1>1, <1>3 DEF Agreed
  <2>3. LocalOK' /\ DeadlineStep /\ CleanupStep /\ FinalStep
    BY <1>1, <1>2, <1>3, <1>4, <2>1, <2>2, LocalQuiet
  <2> QED  BY <1>2, <1>4, <2>3 DEF LocalSteps, RunStep, SomeStop
<1>5. CASE ~ UNCHANGED <<row, memory>>
  <2>1. PICK a, n : a = call.attempt /\ n = call.run
    OBVIOUS
  <2>2. PICK r : /\ r = [Result("RUNNING", a, n) EXCEPT !.nonce = n]
                 /\ Remember(r, TRUE, n)
    BY <1>5, <2>1, LocalNames DEF L!Started
  <2>3. a \in Attempts /\ n \in 0..MaxRuns /\ n # 0 /\ "RUNNING" \in Statuses /\ n \in Launched
    BY <1>1, <2>1 DEF Calls, Statuses, RunIds
  <2>4. PICK z \in Rows : /\ z = Result("RUNNING", a, n) /\ z.status = "RUNNING"
                          /\ z.attempt = a /\ z.run = n /\ z.marks = {}
    BY <2>3, ResultFacts
  <2>5. r = [z EXCEPT !.nonce = n]
    BY <2>2, <2>4
  <2>6. /\ r \in Rows /\ r.status = "RUNNING" /\ r.attempt = a /\ r.run = n /\ r.marks = {}
        /\ r.nonce = n
    BY <2>3, <2>4, <2>5 DEF Rows
  <2>7. n \in Handles
    BY <2>3, ClientAssumption DEF Handles
  <2>8. LocalResult(r) /\ ~ Terminal(r)
    BY <2>3, <2>6 DEF LocalResult, Justified, Terminal
  <2>9. Terminal(row) => r # Current
    BY <2>8 DEF LocalOK, LocalInv, Cached, Current
  <2>10. /\ row' \in {row, r} /\ row' \in Rows
         /\ memory' \in [result : Rows, spec : BOOLEAN, handle : Handles]
         /\ memory'.result = r /\ memory'.handle = n
         /\ Saved' /\ Forgotten' /\ LocalResult(row')
         /\ Terminal(row') => r = row'
         /\ row' # row => row' # NoRow
    BY <2>2, <2>3, <2>6, <2>7, <2>8, <2>9, LocalSaves
  <2>11. ClientOK'
    BY <1>1, <2>10, AttemptFacts DEF LocalOK, ClientOK, NoCall, Calls, NoRun
  <2>12. LocalCall'
    BY <1>1 DEF LocalCall, Idle, NoCall
  <2>13. Supervised'
    BY <1>1 DEF LocalOK, LocalInv, Supervised, Launched, Terminal
  <2>14. Agreed(A)'
    <3>1. Agrees(A, r)
      BY <1>1, <1>3, <2>1, <2>6 DEF Agreed, Agrees
    <3>2. Agrees(A, row') /\ Agrees(A, memory'.result) /\ Agrees(A, site'.launch)
      BY <1>1, <1>3, <2>10, <3>1 DEF Agreed
    <3> QED  BY <1>1, <1>3, <3>2 DEF Agreed, Agrees, NoCall
  <2>15. LocalOK'
    BY <1>1, <1>2, <2>6, <2>8, <2>10, <2>11, <2>12, <2>13, <2>14, LocalKeeps
  <2>16. FinalStep
    <3>1. row.attempt \in Nat /\ a \in Nat
      BY <2>3, AttemptFacts DEF LocalOK, ClientOK, Rows
    <3> QED  BY <1>1, <2>1, <2>6, <2>10, <3>1 DEF FinalStep
  <2>17. RunStep
    BY <1>2, <2>6, <2>10 DEF RunStep, SomeStop
  <2>18. DeadlineStep /\ CleanupStep
    BY DEF DeadlineStep, CleanupStep, LocalOK, LocalInv, Cached, LocalResult
  <2> QED  BY <2>15, <2>16, <2>17, <2>18 DEF LocalSteps
<1> QED  BY <1>4, <1>5

(* Supervisors start, end and die.                                           *)
LEMMA LocalWorld ==
  ASSUME LocalOK, UNCHANGED kind, L!World
  PROVE  LocalOK' /\ LocalSteps
<1>1. UNCHANGED <<row, memory, call>> /\ site \in L!Sites /\ runs \in RunTable
  BY DEF L!World, L!SupervisorStarts, L!SupervisorDies, L!JobEnds, LocalOK, ClientOK
<1>2. PICK r \in RunIds :
        \/ L!SupervisorStarts(r) \/ L!SupervisorDies(r)
        \/ \E s \in {"won", "lost"} : L!JobEnds(r, s)
  BY LocalNames DEF L!World
<1>3. PICK A \in [RunIds -> Attempts] : Agreed(A)
  BY DEF LocalOK, LocalInv, OneAttemptPerNonce
<1>4. Supervised
  BY DEF LocalOK, LocalInv
<1>5. CASE L!SupervisorStarts(r)
  <2>1. PICK a, k : a = site.launch.attempt /\ k = site.launch.nonce
    OBVIOUS
  <2>2. /\ runs[r].state = "starting"
        /\ runs' = [runs EXCEPT ![r] = [attempt |-> a, state |-> "running"]]
        /\ site' = [site EXCEPT !.nonce[r] = k, !.identity = [pid |-> r, nonce |-> k]]
    BY <1>5, <2>1 DEF L!SupervisorStarts
  <2>3. a \in Attempts /\ k \in 0..MaxRuns /\ r \in 0..MaxRuns
    BY <1>1, <2>1, LocalSites DEF RunIds
  <2>4. /\ runs' \in RunTable /\ runs'[r].attempt = a /\ runs'[r].state = "running"
        /\ \A q \in RunIds \ {r} : runs'[q] = runs[q]
    <3>1. [attempt |-> a, state |-> "running"] \in [attempt : Attempts, state : RunStates]
      BY <2>3 DEF RunStates
    <3> QED  BY <1>1, <2>2, <3>1 DEF RunTable
  <2>5. /\ site' \in L!Sites /\ site'.launch = site.launch /\ site'.completion = site.completion
        /\ site'.nonce[r] = k /\ \A q \in RunIds \ {r} : site'.nonce[q] = site.nonce[q]
    <3>1. PICK i : i = [pid |-> r, nonce |-> k]
      OBVIOUS
    <3>2. i \in [pid : 0..MaxRuns, nonce : 0..MaxRuns]
      BY <2>3, <3>1
    <3>3. site' = [site EXCEPT !.nonce[r] = k, !.identity = i]
      BY <2>2, <3>1
    <3> QED  BY <1>1, <2>3, <3>2, <3>3, LocalSites
  <2>6. RunsStop
    BY <2>2, <2>4 DEF RunsStop, Alive
  <2>7. RunsKept /\ Launched' = Launched
    BY <2>6, StopKeeps
  <2>8. Supervised'
    <3>1. \A q \in RunIds : /\ site'.nonce[q] \in Launched' \cup {0}
                            /\ runs'[q].state = "none" => site'.nonce[q] = 0
      BY <1>4, <2>1, <2>4, <2>5, <2>7 DEF Supervised
    <3>2. site'.completion.status = "SUCCEEDED" =>
            \E q \in RunIds : runs'[q].state = "won" /\ site'.nonce[q] = site'.completion.nonce
      BY <1>4, <2>2, <2>4, <2>5 DEF Supervised
    <3> QED  BY <1>4, <2>5, <2>7, <3>1, <3>2 DEF Supervised, Terminal
  <2>9. /\ Agrees(A, site'.launch)
        /\ \A q \in RunIds : site'.nonce[q] # 0 => runs'[q].attempt = A[site'.nonce[q]]
    BY <1>3, <2>1, <2>4, <2>5 DEF Agreed, Agrees
  <2>10. LocalOK' /\ DeadlineStep /\ CleanupStep /\ FinalStep
    BY <1>1, <1>3, <2>5, <2>7, <2>8, <2>9, LocalQuiet
  <2> QED  BY <1>1, <2>6, <2>10 DEF LocalSteps, RunStep, SomeStop
<1>6. CASE L!SupervisorDies(r)
  <2>1. Alive(r) /\ MoveRun(r, "stopped") /\ UNCHANGED site
    BY <1>6, LocalNames DEF L!SupervisorDies
  <2>2. /\ runs' \in RunTable /\ runs'[r].state = "stopped"
        /\ \A q \in RunIds \ {r} : runs'[q] = runs[q]
        /\ \A q \in RunIds : runs'[q].attempt = runs[q].attempt
    BY <1>1, <2>1, MoveFacts DEF RunStates, Alive
  <2>3. RunsStop
    BY <2>1, <2>2 DEF RunsStop
  <2>4. RunsKept /\ Launched' = Launched
    BY <2>3, StopKeeps
  <2>5. Supervised'
    BY <1>4, <2>1, <2>2, <2>4 DEF Supervised, Terminal, Alive
  <2>6. /\ Agrees(A, site'.launch)
        /\ \A q \in RunIds : site'.nonce[q] # 0 => runs'[q].attempt = A[site'.nonce[q]]
    BY <1>3, <2>1, <2>2 DEF Agreed
  <2>7. LocalOK' /\ DeadlineStep /\ CleanupStep /\ FinalStep
    BY <1>1, <1>3, <2>1, <2>4, <2>5, <2>6, LocalQuiet
  <2> QED  BY <1>1, <2>3, <2>7 DEF LocalSteps, RunStep, SomeStop
<1>7. CASE \E s \in {"won", "lost"} : L!JobEnds(r, s)
  <2>1. PICK s \in {"won", "lost"} : L!JobEnds(r, s)
    BY <1>7
  <2>2. PICK t, c, k : /\ t = IF r \in site.told THEN "stopped" ELSE s
                       /\ c = L!CompletionStatus(r, s) /\ k = site.nonce[r]
    OBVIOUS
  <2>3. /\ runs[r].state = "running" /\ MoveRun(r, t)
        /\ site' = [site EXCEPT !.completion = [nonce |-> k, status |-> c]]
    BY <2>1, <2>2, LocalNames DEF L!JobEnds
  <2>4. /\ t \in {"won", "lost", "stopped"} /\ c \in {"CANCELLED", "SUCCEEDED", "FAILED"}
        /\ c = "SUCCEEDED" => t = "won"
    BY <2>2 DEF L!CompletionStatus
  <2>5. /\ runs' \in RunTable /\ runs'[r].state = t /\ runs'[r].attempt = runs[r].attempt
        /\ \A q \in RunIds \ {r} : runs'[q] = runs[q]
        /\ \A q \in RunIds : runs'[q].attempt = runs[q].attempt
        /\ Launched' = Launched
    BY <1>1, <2>3, <2>4, MoveFacts DEF RunStates
  <2>6. /\ site' \in L!Sites /\ site'.launch = site.launch /\ site'.nonce = site.nonce
        /\ site'.completion.nonce = k /\ site'.completion.status = c
    <3>1. PICK x : x = [nonce |-> k, status |-> c]
      OBVIOUS
    <3>2. k \in 0..MaxRuns /\ c \in Statuses
      BY <1>1, <2>2, <2>4, LocalSites DEF Statuses
    <3>3. /\ x \in [nonce : 0..MaxRuns, status : Statuses \cup {"NONE"}]
          /\ x.nonce = k /\ x.status = c
      BY <3>1, <3>2
    <3>4. site' = [site EXCEPT !.completion = x]
      BY <2>3, <3>1
    <3> QED  BY <1>1, <3>3, <3>4, LocalSites
  <2>7. RunsKept
    BY <2>3, <2>5 DEF RunsKept
  <2>8. Supervised'
    <3>1. \A q \in RunIds : /\ site'.nonce[q] \in Launched' \cup {0}
                            /\ runs'[q].state = "none" => site'.nonce[q] = 0
      BY <1>4, <2>3, <2>4, <2>5, <2>6 DEF Supervised
    <3>2. c = "SUCCEEDED" => \E q \in RunIds : runs'[q].state = "won" /\ site'.nonce[q] = k
      BY <2>2, <2>4, <2>5, <2>6
    <3> QED  BY <1>4, <2>4, <2>5, <2>6, <3>1, <3>2 DEF Supervised, Terminal
  <2>9. /\ Agrees(A, site'.launch)
        /\ \A q \in RunIds : site'.nonce[q] # 0 => runs'[q].attempt = A[site'.nonce[q]]
    BY <1>3, <2>5, <2>6 DEF Agreed
  <2>10. LocalOK' /\ DeadlineStep /\ CleanupStep /\ FinalStep
    BY <1>1, <1>3, <2>5, <2>6, <2>7, <2>8, <2>9, LocalQuiet
  <2>11. SomeStop \/ OneWins
    <3>1. CASE t = "won"
      BY <1>1, <2>3, <2>5, <3>1 DEF OneWins, Alive
    <3>2. CASE t # "won"
      BY <1>1, <2>3, <2>4, <2>5, <3>2 DEF SomeStop, RunsStop, Alive
    <3> QED  BY <3>1, <3>2
  <2> QED  BY <2>10, <2>11 DEF LocalSteps, RunStep
<1> QED  BY <1>2, <1>5, <1>6, <1>7

LEMMA LocalStep ==
  ASSUME LocalOK, UNCHANGED kind, L!Next
  PROVE  LocalOK' /\ LocalSteps
<1>1. CASE L!BeginSubmit \/ L!SubmitRefused \/ L!Reopen
  <2>1. BeginSubmit \/ SubmitRefused \/ Reopen
    BY <1>1, LocalNames
  <2> QED  BY <2>1, LocalSubmits, LocalRefused, LocalReopens
<1> QED
  BY <1>1, LocalAnswers, LocalForced, LocalSubmits, LocalStarts, LocalStarted, LocalWorld
  DEF L!Next, L!Controller

----------------------------------------------------------------------------
(* Every kind from its start to the end of any step.                         *)
CInv == kind \in Backends /\ (LocalOK \/ SlurmOK \/ SSHOK \/ DockerOK \/ KubernetesOK)

LEMMA ClientStarts ==
  ASSUME ClientInit
  PROVE  /\ ClientOK /\ Remote /\ Launched = {} /\ Current = NoRow /\ call = NoCall
         /\ row = NoRow /\ memory = NoMemory
<1>1. /\ NoMemory \in [result : Rows, spec : BOOLEAN, handle : Handles]
      /\ NoCall \in Calls /\ NoRow \in Rows
  BY NoRowFacts, AttemptFacts, ClientAssumption DEF NoMemory, Handles, NoCall, Calls, NoRun
<1>2. runs \in RunTable
  BY AttemptFacts DEF ClientInit, RunTable, RunStates
<1>3. Launched = {} /\ Current = NoRow
  BY DEF ClientInit, Launched, Current, NoMemory
<1> QED
  BY <1>1, <1>2, <1>3, NoRowFacts
  DEF ClientInit, ClientOK, Remote, Synced, Saved, Forgotten, CallShape, Idle, NoCall,
      NothingYet, Justified, NoMemory

LEMMA KindsStart == Init => CInv /\ ClientInit
<1> SUFFICES ASSUME Init PROVE CInv /\ ClientInit
  OBVIOUS
<1> DEFINE Blank == /\ ClientOK /\ Remote /\ Launched = {} /\ Current = NoRow /\ call = NoCall
                    /\ row = NoRow /\ memory = NoMemory
<1>1. NoRow.run = NoRun /\ NoRow.marks = {} /\ NoRow.nonce = 0 /\ NoCall.pc = "idle"
      /\ NoCall.run = NoRun /\ NoCall.op = "none" /\ NoRow.status = "NONE"
      /\ NoMemory.handle = 0 /\ NoMemory.result = NoRow
  BY NoRowFacts DEF NoCall, NoMemory
<1>2. CASE kind = "local" /\ L!Init
  <2>1. ClientInit
    BY <1>2, LocalNames DEF L!Init, L!ClientInit, ClientInit
  <2>2. Blank
    BY <2>1, ClientStarts
  <2>3. /\ site.launch = [nonce |-> 0, attempt |-> 0]
        /\ site.completion = [nonce |-> 0, status |-> "NONE"]
        /\ site.nonce = [r \in RunIds |-> 0] /\ site \in L!Sites
    BY <1>2, AttemptFacts, LocalNames, LocalSites
    DEF L!Init, L!SiteInit, L!NoIdentity, L!NoCompletion, NoRun
  <2>4. LocalCall
    BY <1>1, <2>2 DEF LocalCall, Idle
  <2>5. LocalResult(NoRow)
    BY <1>1 DEF LocalResult, Justified
  <2>6. Cached
    BY <1>1, <2>2, <2>5 DEF Cached, Remote
  <2>7. Supervised
    BY <2>3 DEF Supervised
  <2>8. OneAttemptPerNonce
    <3>1. [r \in RunIds |-> 0] \in [RunIds -> Attempts]
      BY AttemptFacts
    <3>2. Agreed([r \in RunIds |-> 0])
      BY <1>1, <2>2, <2>3 DEF Agreed, Agrees
    <3> QED  BY <3>1, <3>2 DEF OneAttemptPerNonce
  <2> QED
    BY <1>2, <2>1, <2>2, <2>3, <2>4, <2>6, <2>7, <2>8 DEF CInv, LocalOK, LocalInv, Init
<1>3. CASE kind = "slurm" /\ U!Init
  <2>1. ClientInit /\ site = U!NoSite
    BY <1>3, SlurmNames DEF U!Init, U!ClientInit, ClientInit, U!SiteInit
  <2>2. Blank
    BY <2>1, ClientStarts
  <2>3. SlurmInv
    BY <1>1, <2>2 DEF SlurmInv
  <2> QED  BY <1>3, <2>1, <2>2, <2>3 DEF CInv, SlurmOK, Init
<1>4. CASE kind = "ssh" /\ H!Init
  <2>1. ClientInit /\ site \in [H!Files -> SUBSET RunIds]
    BY <1>4, SSHNames DEF H!Init, H!ClientInit, ClientInit, H!SiteInit
  <2>2. Blank
    BY <2>1, ClientStarts
  <2>3. SSHInv
    BY <1>1, <2>2 DEF SSHInv, HostMarks, Once, Idle
  <2> QED  BY <1>4, <2>1, <2>2, <2>3 DEF CInv, SSHOK, Init
<1>5. CASE kind = "docker" /\ D!Init
  <2>1. ClientInit /\ site = [k \in D!Kinds |-> {}]
    BY <1>5, DockerNames DEF D!Init, D!ClientInit, ClientInit, D!SiteInit
  <2>2. Blank
    BY <2>1, ClientStarts
  <2>3. {"exists", "removing", "late", "guarded", "firing", "verified", "marker"} \subseteq D!Kinds
    BY DEF D!Kinds
  <2>4. Reserved(site["exists"]) /\ Guards(site)
    BY <1>1, <2>1, <2>2, <2>3 DEF Reserved, Idle, Guards
  <2>5. DockerInv
    BY <1>1, <2>1, <2>2, <2>3, <2>4 DEF DockerInv, ContainerMarks
  <2> QED  BY <1>5, <2>1, <2>2, <2>5 DEF CInv, DockerOK, Init
<1>6. CASE kind = "kubernetes" /\ K!Init
  <2>1. ClientInit /\ site = {}
    BY <1>6, KubernetesNames DEF K!Init, K!ClientInit, ClientInit, K!SiteInit
  <2>2. Blank
    BY <2>1, ClientStarts
  <2>3. KubernetesInv
    BY <1>1, <2>1, <2>2 DEF KubernetesInv, Reserved, Idle
  <2> QED  BY <1>6, <2>1, <2>2, <2>3 DEF CInv, KubernetesOK, Init
<1> QED  BY <1>2, <1>3, <1>4, <1>5, <1>6 DEF Init

(* What any step of any kind does to the executions and to the row.          *)
KindSteps == RunStep /\ DeadlineStep /\ CleanupStep /\ PendingStep /\ FinalStep

LEMMA KindsStep ==
  ASSUME CInv, Next
  PROVE  CInv' /\ KindSteps
<1>1. UNCHANGED kind /\ kind \in Backends
  BY DEF Next, CInv
<1>2. CASE kind = "local" /\ L!Next
  <2>1. LocalOK
    BY <1>2 DEF CInv, SlurmOK, SSHOK, DockerOK, KubernetesOK
  <2>2. LocalOK' /\ LocalSteps
    BY <1>1, <1>2, <2>1, LocalStep
  <2> QED  BY <1>1, <1>2, <2>2 DEF CInv, KindSteps, LocalSteps, PendingStep
<1>3. CASE kind = "slurm" /\ U!Next
  <2>1. SlurmOK
    BY <1>3 DEF CInv, LocalOK, SSHOK, DockerOK, KubernetesOK
  <2>2. SlurmOK' /\ RunStep
    BY <1>1, <1>3, <2>1, SlurmStep
  <2>3. row.marks \subseteq {"intent"}
    BY <2>1, NoRowFacts, CurrentFacts DEF SlurmOK, SlurmInv, Remote
  <2> QED
    BY <1>1, <1>3, <2>2, <2>3
    DEF CInv, KindSteps, DeadlineStep, CleanupStep, PendingStep, FinalStep
<1>4. CASE kind = "ssh" /\ H!Next
  <2>1. SSHOK
    BY <1>4 DEF CInv, LocalOK, SlurmOK, DockerOK, KubernetesOK
  <2>2. SSHOK' /\ SSHSteps
    BY <1>1, <1>4, <2>1, SSHStep
  <2> QED  BY <1>1, <1>4, <2>2 DEF CInv, KindSteps, SSHSteps, FinalStep
<1>5. CASE kind = "docker" /\ D!Next
  <2>1. DockerOK
    BY <1>5 DEF CInv, LocalOK, SlurmOK, SSHOK, KubernetesOK
  <2>2. DockerOK' /\ RunStep /\ DeadlineStep /\ CleanupStep
    BY <1>1, <1>5, <2>1, DockerStep
  <2> QED  BY <1>1, <1>5, <2>2 DEF CInv, KindSteps, PendingStep, FinalStep
<1>6. CASE kind = "kubernetes" /\ K!Next
  <2>1. KubernetesOK
    BY <1>6 DEF CInv, LocalOK, SlurmOK, SSHOK, DockerOK
  <2>2. KubernetesOK' /\ RunStep
    BY <1>1, <1>6, <2>1, KubernetesStep
  <2>3. row.marks \subseteq {"intent"}
    BY <2>1, NoRowFacts, CurrentFacts DEF KubernetesOK, KubernetesInv, Remote
  <2> QED
    BY <1>1, <1>6, <2>2, <2>3
    DEF CInv, KindSteps, DeadlineStep, CleanupStep, PendingStep, FinalStep
<1> QED  BY <1>2, <1>3, <1>4, <1>5, <1>6 DEF Next

LEMMA KindsStutter ==
  ASSUME CInv, UNCHANGED vars
  PROVE  CInv'
<1>1. UNCHANGED <<row, memory, call, runs, site, kind>>
  BY DEF vars, clientVars
<1>2. /\ Current' = Current /\ Launched' = Launched /\ (Idle' <=> Idle)
      /\ NextAttempt' = NextAttempt
  BY <1>1 DEF Current, Launched, Idle, NextAttempt
<1>3. \A a : Won(a)' <=> Won(a)
  BY <1>1 DEF Won, AttemptOf
<1>4. ClientOK => ClientOK'
  BY <1>1 DEF ClientOK
<1>5. Saved' <=> Saved
  BY <1>1 DEF Saved
<1>6. Forgotten' <=> Forgotten
  BY <1>1 DEF Forgotten
<1>7. Remote => Remote'
  BY <1>1, <1>2, <1>5, <1>6
  DEF Remote, Synced, CallShape, NothingYet, Justified, Won, AttemptOf
<1>8. \A r : /\ Alive(r)' <=> Alive(r)
            /\ Holds(r, site, site') /\ Holds(r, site["exists"], site'["exists"])
  BY <1>1 DEF Alive, Holds
<1>9. CASE LocalOK
  <2>1. PICK A \in [RunIds -> Attempts] : Agreed(A)
    BY <1>9 DEF LocalOK, LocalInv, OneAttemptPerNonce
  <2>2. RunsKept
    BY <1>1, <1>9, StillStops, StopKeeps DEF LocalOK
  <2>3. Supervised' /\ site' \in L!Sites
    BY <1>1, <1>2, <1>9 DEF LocalOK, LocalInv, Supervised, Terminal
  <2>4. /\ Agrees(A, site'.launch)
        /\ \A q \in RunIds : site'.nonce[q] # 0 => runs'[q].attempt = A[site'.nonce[q]]
    BY <1>1, <2>1 DEF Agreed
  <2>5. LocalOK'
    BY <1>1, <1>9, <2>1, <2>2, <2>3, <2>4, LocalQuiet
  <2> QED  BY <1>1, <2>5 DEF CInv
<1>10. CASE SlurmOK
  <2>1. SlurmOK'
    BY <1>1, <1>2, <1>4, <1>7, <1>10 DEF SlurmOK, SlurmInv
  <2> QED  BY <1>1, <2>1 DEF CInv
<1>11. CASE SSHOK
  <2>1. RunsKept /\ Launched' = Launched /\ HostGrows
    BY <1>1, <1>11, SSHStays, StopKeeps DEF HostMoves
  <2>2. SSHOK'
    BY <1>1, <1>11, <2>1, SSHQuiet
  <2> QED  BY <1>1, <2>2 DEF CInv
<1>12. CASE DockerOK
  <2>1. RunsKept
    BY <1>1, <1>12, StillStops, StopKeeps DEF DockerOK
  <2>2. Guards(site') /\ site' \in [D!Kinds -> SUBSET RunIds]
    BY <1>1, <1>12 DEF DockerOK, DockerInv
  <2>3. DockerOK'
    BY <1>1, <1>2, <1>8, <1>12, <2>1, <2>2, DockerQuiet
  <2> QED  BY <1>1, <2>3 DEF CInv
<1>13. CASE KubernetesOK
  <2>1. Reserved(site)'
    BY <1>1, <1>2, <1>8, <1>13 DEF KubernetesOK, KubernetesInv, Reserved
  <2>2. KubernetesOK'
    BY <1>1, <1>2, <1>4, <1>7, <1>13, <2>1 DEF KubernetesOK, KubernetesInv
  <2> QED  BY <1>1, <2>2 DEF CInv
<1> QED  BY <1>9, <1>10, <1>11, <1>12, <1>13 DEF CInv

LEMMA Inductive == Spec => []CInv
<1>1. CInv /\ [Next]_vars => CInv'
  BY KindsStep, KindsStutter
<1> QED  BY <1>1, KindsStart, PTL DEF Spec

LEMMA KindsTyped == CInv => ClientOK /\ TypeOK
<1> SUFFICES ASSUME CInv PROVE ClientOK /\ TypeOK
  OBVIOUS
<1>1. ClientOK /\ Saved
  BY DEF CInv, LocalOK, LocalInv, Cached, SlurmOK, SSHOK, DockerOK, KubernetesOK, Remote
<1>2. CASE LocalOK
  BY <1>1, <1>2, ClientTypes DEF LocalOK, TypeOK, L!SiteTypeOK, CInv
<1>3. CASE SlurmOK
  BY <1>1, <1>3, ClientTypes DEF SlurmOK, TypeOK, U!SiteTypeOK, CInv
<1>4. CASE SSHOK
  BY <1>1, <1>4, ClientTypes, SSHNames DEF SSHOK, TypeOK, H!SiteTypeOK, CInv
<1>5. CASE DockerOK
  BY <1>1, <1>5, ClientTypes, DockerNames DEF DockerOK, TypeOK, D!SiteTypeOK, CInv
<1>6. CASE KubernetesOK
  BY <1>1, <1>6, ClientTypes, KubernetesNames DEF KubernetesOK, TypeOK, K!SiteTypeOK, CInv
<1> QED  BY <1>2, <1>3, <1>4, <1>5, <1>6 DEF CInv

----------------------------------------------------------------------------
(* The state of every kind is what its definition says, also between the     *)
(* steps of a call and after a death of the controller.                      *)
THEOREM BackendsTyped == Spec => []TypeOK
BY Inductive, KindsTyped, PTL

(* Whichever call is cut short and however often it is made again, an attempt *)
(* is executed a second time only when no record ever named the first and    *)
(* that one is over; over SSH it is never.                                   *)
THEOREM RepeatsAreOfLostAttempts == Spec => OnlyLostAttemptsRepeat
<1> DEFINE RepeatStep == (kind \in {"ssh", "docker", "kubernetes"}) =>
             \A r \in Launched' \ Launched, q \in Launched :
               runs[q].attempt = runs'[r].attempt
                 => kind # "ssh" /\ ~ Alive(q) /\ row.attempt < runs[q].attempt
<1>1. CInv /\ Next => RepeatStep
  <2> SUFFICES ASSUME CInv, Next PROVE RepeatStep
    OBVIOUS
  <2>1. RunStep
    BY KindsStep DEF KindSteps
  <2>2. CASE SomeStop
    BY <2>2, StopKeeps DEF SomeStop
  <2>3. CASE OneWins
    BY <2>3 DEF OneWins, Launched, Alive
  <2>4. CASE OneStarts
    <3>1. PICK f \in RunIds : /\ \A q \in RunIds \ {f} : runs'[q] = runs[q]
                              /\ LostBefore(f)
      BY <2>4 DEF OneStarts
    <3>2. \A r \in Launched' \ Launched : r = f
      BY <3>1 DEF Launched
    <3> QED  BY <3>1, <3>2 DEF LostBefore
  <2> QED  BY <2>1, <2>2, <2>3, <2>4 DEF RunStep
<1>2. CInv /\ [Next]_vars => [RepeatStep]_vars
  BY <1>1
<1> QED  BY <1>2, Inductive, PTL DEF Spec, OnlyLostAttemptsRepeat

(* The scheduler lists at most one job under the name of a Slurm submission  *)
(* whose answer was lost, so the reconciliation takes up the right one.      *)
THEOREM IntentFindsOneJob == Spec => []IntentIsUnambiguous
<1>1. CInv => IntentIsUnambiguous
  <2> SUFFICES ASSUME CInv, kind = "slurm", "intent" \in row.marks, row.run = NoRun
               PROVE  Cardinality(Launched) <= 1
    BY DEF IntentIsUnambiguous
  <2>1. SlurmOK
    BY DEF CInv, LocalOK, SSHOK, DockerOK, KubernetesOK
  <2>2. Current = row
    BY <2>1, NoRowFacts, CurrentFacts DEF SlurmOK, Remote
  <2>3. \A q, r \in Launched : q = r
    BY <2>1, <2>2 DEF SlurmOK, SlurmInv
  <2>4. CASE Launched = {}
    BY <2>4, FS_EmptySet
  <2>5. CASE Launched # {}
    <3>1. PICK q : q \in Launched
      BY <2>5
    <3>2. Launched = {q}
      BY <2>3, <3>1
    <3>3. Cardinality({q}) = 1
      BY FS_Singleton
    <3> QED  BY <3>2, <3>3
  <2> QED  BY <2>4, <2>5
<1> QED  BY <1>1, Inductive, PTL

(* A saved verdict of a local job changes only when the job is started again, *)
(* also when a supervisor that was given up writes its record later.         *)
THEOREM LocalVerdictStands == Spec => LocalVerdictIsFinal
<1>1. CInv /\ [Next]_vars => [FinalStep]_vars
  BY KindsStep DEF KindSteps
<1> QED  BY <1>1, Inductive, PTL DEF Spec, LocalVerdictIsFinal, FinalStep

(* An attempt whose deadline a backend has enforced never succeeds later,     *)
(* although its container may still end and write an exit code.              *)
THEOREM DeadlineStands == Spec => DeadlineIsFinal
<1>1. CInv /\ [Next]_vars => [DeadlineStep]_vars
  BY KindsStep DEF KindSteps
<1> QED  BY <1>1, Inductive, PTL DEF Spec, DeadlineIsFinal, DeadlineStep

(* A cleanup that has begun never ends in a success of that attempt.         *)
THEOREM CleanupStands == Spec => CleanupNeverSucceeds
<1>1. CInv /\ [Next]_vars => [CleanupStep]_vars
  BY KindsStep DEF KindSteps
<1> QED  BY <1>1, Inductive, PTL DEF Spec, CleanupNeverSucceeds, CleanupStep

(* A resume over SSH starts no attempt next to the shell of an unresolved    *)
(* launch.                                                                   *)
THEOREM NoShellIsLeft == Spec => PendingLaunchIsResolved
<1>1. CInv /\ [Next]_vars => [PendingStep]_vars
  BY KindsStep DEF KindSteps
<1> QED  BY <1>1, Inductive, PTL DEF Spec, PendingLaunchIsResolved, PendingStep

(* Every kind implements the job of ComputeJob: nothing is launched before it *)
(* is on record, and no success is recorded that no execution had.           *)
THEOREM BackendsKeepPromise == Spec => KeepsPromise
<1>1. Init => Job!JobInit
  <2> SUFFICES ASSUME Init PROVE Job!JobInit
    OBVIOUS
  <2>1. ClientInit
    BY KindsStart
  <2>2. \A r \in RunIds : runs[r].state = "none"
    BY <2>1 DEF ClientInit
  <2>3. States = [r \in RunIds |-> "none"] /\ WonAttempts = {}
    BY <2>2 DEF States, WonAttempts
  <2>4. RecordOf(row) = Job!NoRecord
    BY <2>1, NoRowFacts, RecordFacts DEF ClientInit
  <2> QED  BY <2>3, <2>4 DEF Job!JobInit, States, WonAttempts, RecordOf
<1>2. CInv /\ CInv' /\ [Next]_vars => [Job!JobNext]_(Job!jobVars)
  <2> SUFFICES ASSUME CInv, CInv', [Next]_vars PROVE Job!JobNext \/ UNCHANGED Job!jobVars
    OBVIOUS
  <2>1. CASE Next
    <3>1. ClientOK /\ RunStep
      BY <2>1, KindsTyped, KindsStep DEF KindSteps
    <3>2. ClientOK'
      BY DEF CInv, LocalOK, SlurmOK, SSHOK, DockerOK, KubernetesOK
    <3> QED  BY <3>1, <3>2, JobStep DEF ClientOK
  <2>2. CASE UNCHANGED vars
    BY <2>2 DEF vars, clientVars, Job!jobVars, Alive, AttemptOf, Terminal
  <2> QED  BY <2>1, <2>2
<1> QED  BY <1>1, <1>2, Inductive, PTL DEF Spec, KeepsPromise, Job!JobSpec
=============================================================================
