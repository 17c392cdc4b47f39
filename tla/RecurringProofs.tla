-------------------------- MODULE RecurringProofs --------------------------
(***************************************************************************)
(* At most one draft per occurrence, no occurrence lost, and a schedule    *)
(* that stays ahead of its runs, for any templates, keys, workers and      *)
(* requests, and any schedules.                                            *)
(*                                                                         *)
(* One draft per occurrence needs only the types of the rows it is about,  *)
(* because each transaction looks again at the row it writes: execute()    *)
(* generates what is not settled, the failure is recorded where nothing    *)
(* was generated, a batch is prepared where no row exists.  What processes *)
(* remember is not trusted, so nothing about it is needed.                 *)
(*                                                                         *)
(* The schedule needs more: that nextRunAt is an occurrence of the         *)
(* schedule (TemplateKept), that a legacy request which is about to move   *)
(* it has a run for the occurrence it moves past (Known), and arithmetic:  *)
(* occurrences lie an interval apart, and a batch holds every occurrence   *)
(* up to its latest.  Division is proved by induction over sets of         *)
(* numbers, from the well-foundedness of < on Nat.                         *)
(***************************************************************************)
EXTENDS Recurring, WellFoundedInduction, SequenceTheorems, TLAPS

RowsTyped ==
    /\ run \in [Runs -> Run]
    /\ documents \in [Runs -> Nat]

\* The inductive invariant.
IInv == RowsTyped /\ DocumentsMatchRuns

\* The empty row is a run that is not there.
LEMMA NoRunTyped == NoRun \in Run /\ NoRun.status = "NONE"
<1>1. MaxAttempts \in Nat
  BY LimitsPositive
<1>2. QED
  BY <1>1 DEF NoRun, Run

\* Rows a process writes stay rows.
LEMMA RowUpdates ==
    ASSUME NEW row \in Run, NEW failure
    PROVE  /\ Failed(row, failure) \in Run
           /\ Failed(row, failure).status \in {"BLOCKED", "FAILED"}
           /\ Attempted(row.attempts) \in 0 .. MaxAttempts
<1>1. MaxAttempts \in Nat
  BY LimitsPositive
<1>2. Attempted(row.attempts) \in 0 .. MaxAttempts
  BY <1>1 DEF Attempted, Run
<1> DEFINE status == IF failure = "blocked" THEN "BLOCKED" ELSE "FAILED"
           attempts == Attempted(row.attempts)
           retry == failure = "retriable" /\ ~Exhausted(attempts)
<1>3. Failed(row, failure) =
        [row EXCEPT !.status = status, !.attempts = attempts,
                    !.retriable = retry, !.waiting = retry]
  BY DEF Failed
<1>4. status \in {"BLOCKED", "FAILED"} /\ retry \in BOOLEAN
  OBVIOUS
<1> HIDE DEF status, attempts, retry
<1>5. QED
  BY <1>2, <1>3, <1>4 DEF Run, attempts

\* The inductive invariant holds at the start.
LEMMA InitStep == Init => IInv
<1> SUFFICES ASSUME Init PROVE IInv
  OBVIOUS
<1>1. run \in [Runs -> Run] /\ documents \in [Runs -> Nat]
  BY NoRunTyped DEF Init
<1>2. \A r \in Runs : run[r].status = "NONE" /\ documents[r] = 0
  BY NoRunTyped DEF Init
<1>3. QED
  BY <1>1, <1>2 DEF IInv, RowsTyped, DocumentsMatchRuns

\* A draft is generated with the mark, and only for a run without one.
LEMMA GenerateStep ==
    ASSUME IInv, NEW r, ~Settled(r), Generate(r)
    PROVE  IInv'
<1>1. /\ run \in [Runs -> Run] /\ documents \in [Runs -> Nat]
      /\ \A x \in Runs : documents[x] = IF run[x].status = "GENERATED" THEN 1 ELSE 0
  BY DEF IInv, RowsTyped, DocumentsMatchRuns
<1>2. CASE r \in Runs
  <2> DEFINE row == [run[r] EXCEPT !.status = "GENERATED",
                       !.attempts = Attempted(@), !.retriable = FALSE, !.waiting = FALSE]
  <2>1. run' = [run EXCEPT ![r] = row]
    BY DEF Generate
  <2>2. documents' = [documents EXCEPT ![r] = documents[r] + 1]
    BY DEF Generate
  <2>3. run[r] \in Run /\ run[r].status # "GENERATED"
    BY <1>1, <1>2 DEF Settled
  <2>4. Attempted(run[r].attempts) \in 0 .. MaxAttempts
    BY <2>3, RowUpdates
  <2>5. row \in Run /\ row.status = "GENERATED"
    BY <2>3, <2>4 DEF Run
  <2> HIDE DEF row
  <2>6. documents[r] = 0
    BY <1>1, <1>2, <2>3
  <2>7. RowsTyped'
    BY <1>1, <1>2, <2>1, <2>2, <2>5, <2>6 DEF RowsTyped
  <2>8. ASSUME NEW x \in Runs
        PROVE  documents'[x] = IF run'[x].status = "GENERATED" THEN 1 ELSE 0
    BY <1>1, <1>2, <2>1, <2>2, <2>5, <2>6
  <2>9. QED
    BY <2>7, <2>8 DEF IInv, DocumentsMatchRuns
<1>3. CASE r \notin Runs
  <2>1. run' = run
    BY <1>1, <1>3 DEF Generate
  <2>2. documents' = documents
    BY <1>1, <1>3 DEF Generate
  <2>3. QED
    BY <2>1, <2>2 DEF IInv, RowsTyped, DocumentsMatchRuns
<1>4. QED
  BY <1>2, <1>3

\* Writing over a run that has no draft keeps the law, if the new row is not
\* marked.
LEMMA OverwriteStep ==
    ASSUME IInv, NEW f \in [Runs -> Run], run' = f, documents' = documents,
           \A r \in Runs : f[r] # run[r] =>
             run[r].status # "GENERATED" /\ f[r].status # "GENERATED"
    PROVE  IInv'
<1>1. RowsTyped'
  BY DEF IInv, RowsTyped
<1>2. ASSUME NEW r \in Runs
      PROVE  documents'[r] = IF run'[r].status = "GENERATED" THEN 1 ELSE 0
  BY DEF IInv, DocumentsMatchRuns
<1>3. QED
  BY <1>1, <1>2 DEF IInv, DocumentsMatchRuns

\* A step that changes no run and no document keeps it.
LEMMA UnchangedStep ==
    ASSUME IInv, UNCHANGED <<run, documents>>
    PROVE  IInv'
  BY DEF IInv, RowsTyped, DocumentsMatchRuns

-----------------------------------------------------------------------------

\* Executing a run keeps it.
LEMMA ExecuteStep ==
    ASSUME IInv, NEW p \in Processes, Execute(p)
    PROVE  IInv'
<1> DEFINE r == Head(process[p].todo)
<1>1. CASE UNCHANGED <<run, documents>>
  BY <1>1, UnchangedStep
<1>2. CASE Executable(r) /\ Generate(r)
  <2>1. ~Settled(r)
    BY <1>2 DEF Executable
  <2> HIDE DEF r
  <2>2. QED
    BY <1>2, <2>1, GenerateStep
<1>3. UNCHANGED <<run, documents>> \/ (Executable(r) /\ Generate(r))
  BY DEF Execute, ExecuteDone, ExecuteFails, ExecuteUnanswered
<1>4. QED
  BY <1>1, <1>2, <1>3

\* A failure is not recorded over a draft, whoever made it.
LEMMA RecordFailureStep ==
    ASSUME IInv, NEW p \in Processes, RecordFailure(p)
    PROVE  IInv'
<1> DEFINE r == Head(process[p].todo)
           row == Failed(run[r], process[p].failure)
<1>1. /\ run' = IF Recordable(r) THEN [run EXCEPT ![r] = row] ELSE run
      /\ documents' = documents
  BY DEF RecordFailure
<1>2. run \in [Runs -> Run]
  BY DEF IInv, RowsTyped
<1>3. CASE Recordable(r) /\ r \in Runs
  <2>1. run[r] \in Run /\ run[r].status # "GENERATED"
    BY <1>2, <1>3 DEF Recordable
  <2>2. row \in Run /\ row.status # "GENERATED"
    BY <2>1, RowUpdates
  <2> DEFINE f == [run EXCEPT ![r] = row]
  <2> HIDE DEF r, row
  <2>3. f \in [Runs -> Run]
    BY <1>2, <1>3, <2>2
  <2>4. \A x \in Runs : f[x] # run[x] =>
          run[x].status # "GENERATED" /\ f[x].status # "GENERATED"
    BY <1>2, <1>3, <2>1, <2>2
  <2>5. run' = f /\ documents' = documents
    BY <1>1, <1>3
  <2> HIDE DEF f
  <2>6. QED
    BY <2>3, <2>4, <2>5, OverwriteStep
<1>4. CASE ~Recordable(r) \/ r \notin Runs
  <2> HIDE DEF r, row
  <2>1. run' = run
    BY <1>1, <1>2, <1>4
  <2>2. QED
    BY <1>1, <2>1, UnchangedStep
<1>5. QED
  BY <1>3, <1>4

\* The end of a backoff keeps it.
LEMMA BackoffStep ==
    ASSUME IInv, NEW r \in Runs, BackoffElapses(r)
    PROVE  IInv'
<1> DEFINE row == [run[r] EXCEPT !.waiting = FALSE]
           f == [run EXCEPT ![r] = row]
<1>1. run' = f /\ documents' = documents
  BY DEF BackoffElapses
<1>2. run \in [Runs -> Run] /\ run[r] \in Run
  BY DEF IInv, RowsTyped
<1>3. row \in Run /\ row.status = run[r].status
  BY <1>2 DEF Run
<1> HIDE DEF row
<1>4. f \in [Runs -> Run]
  BY <1>2, <1>3
<1>5. \A x \in Runs : f[x].status = run[x].status
  BY <1>2, <1>3
<1> HIDE DEF f
<1>6. RowsTyped' /\ DocumentsMatchRuns'
  BY <1>1, <1>4, <1>5 DEF IInv, RowsTyped, DocumentsMatchRuns
<1>7. QED
  BY <1>6 DEF IInv

\* A batch is prepared only where no row exists.
LEMMA PreparedStep ==
    ASSUME IInv, NEW t, NEW batch, NEW pending, pending \subseteq batch,
           ~Collides(t, batch), Prepared(t, batch \ pending, pending),
           documents' = documents
    PROVE  IInv'
<1> DEFINE skipped == batch \ pending
           f == [r \in Runs |->
             CASE r[1] = t /\ r[2] \in skipped -> [NoRun EXCEPT !.status = "SKIPPED"]
               [] r[1] = t /\ r[2] \in pending -> [NoRun EXCEPT !.status = "PENDING"]
               [] OTHER -> run[r]]
<1>1. run' = f
  BY DEF Prepared
<1>2. run \in [Runs -> Run]
  BY DEF IInv, RowsTyped
<1>3. /\ [NoRun EXCEPT !.status = "SKIPPED"] \in Run
      /\ [NoRun EXCEPT !.status = "PENDING"] \in Run
      /\ [NoRun EXCEPT !.status = "SKIPPED"].status = "SKIPPED"
      /\ [NoRun EXCEPT !.status = "PENDING"].status = "PENDING"
  BY NoRunTyped DEF Run
<1>4. ASSUME NEW r \in Runs
      PROVE  /\ f[r] \in Run
             /\ f[r] # run[r] => run[r].status # "GENERATED" /\ f[r].status # "GENERATED"
  <2>1. CASE r[1] = t /\ r[2] \in batch
    <3>1. r = <<t, r[2]>>
      BY <2>1 DEF Runs
    <3>2. run[r].status = "NONE"
      BY <2>1, <3>1 DEF Collides
    <3>3. f[r] \in {[NoRun EXCEPT !.status = "SKIPPED"], [NoRun EXCEPT !.status = "PENDING"]}
      BY <2>1
    <3> HIDE DEF f
    <3>4. QED
      BY <1>3, <3>2, <3>3
  <2>2. CASE ~(r[1] = t /\ r[2] \in batch)
    <3>1. f[r] = run[r]
      BY <2>2
    <3> HIDE DEF f
    <3>2. QED
      BY <1>2, <3>1
  <2>3. QED
    BY <2>1, <2>2
<1>5. f \in [Runs -> Run]
  BY <1>4
<1> HIDE DEF f
<1>6. QED
  BY <1>1, <1>4, <1>5, OverwriteStep

\* What a batch generates is of that batch.
LEMMA GeneratedInBatch ==
    ASSUME NEW s, NEW first, NEW limit
    PROVE  Generated(s, first, limit) \subseteq Batch(s, first, limit)
<1> DEFINE batch == Batch(s, first, limit)
<1> HIDE DEF batch
<1>1. Generated(s, first, limit) \subseteq batch
  BY DEF Generated, batch
<1>2. QED
  BY <1>1 DEF batch

\* Preparing a scheduled run keeps it.
LEMMA PrepareStep ==
    ASSUME IInv, NEW w \in Workers, NEW t \in Templates, PrepareScheduled(w, t)
    PROVE  IInv'
<1> DEFINE row == template[t]
           left == process[w].remaining - Len(process[w].todo)
           batch == Batch(row.schedule, row.nextRunAt, left)
           pending == Generated(row.schedule, row.nextRunAt, left)
<1>1. \/ UNCHANGED <<run, documents>>
      \/ /\ ~Collides(t, batch)
         /\ Prepared(t, batch \ pending, pending)
         /\ documents' = documents
  BY DEF PrepareScheduled
<1>2. pending \subseteq batch
  BY GeneratedInBatch
<1> HIDE DEF batch, pending
<1>3. QED
  BY <1>1, <1>2, PreparedStep, UnchangedStep

\* A request creates a run where there is none.
LEMMA RunNowStep ==
    ASSUME IInv, NEW q, NEW t, NEW x, NEW phase, RunNow(q, t, x, phase)
    PROVE  IInv'
<1> DEFINE r == <<t, x>>
           row == [NoRun EXCEPT !.status = "PENDING", !.byKey = TRUE]
           f == [run EXCEPT ![r] = row]
<1>1. run \in [Runs -> Run]
  BY DEF IInv, RowsTyped
<1>2. documents' = documents /\ (run' = run \/ (run[r].status = "NONE" /\ run' = f))
  BY DEF RunNow
<1>3. row \in Run /\ row.status = "PENDING"
  BY NoRunTyped DEF Run
<1> HIDE DEF r, row
<1>4. f \in [Runs -> Run]
  BY <1>1, <1>3
<1>5. run[r].status = "NONE" => \A y \in Runs : f[y] # run[y] =>
        run[y].status # "GENERATED" /\ f[y].status # "GENERATED"
  BY <1>1, <1>3
<1> HIDE DEF f
<1>6. QED
  BY <1>2, <1>4, <1>5, OverwriteStep, UnchangedStep

-----------------------------------------------------------------------------
\* One step per action; those that write no run and no draft share the last.
LEMMA NextStep == IInv /\ [Next]_vars => IInv'
<1> SUFFICES ASSUME IInv, [Next]_vars PROVE IInv'
  OBVIOUS
<1>1. ASSUME NEW p \in Processes, Execute(p) PROVE IInv'
  BY <1>1, ExecuteStep
<1>2. ASSUME NEW p \in Processes, RecordFailure(p) PROVE IInv'
  BY <1>2, RecordFailureStep
<1>3. ASSUME NEW r \in Runs, BackoffElapses(r) PROVE IInv'
  BY <1>3, BackoffStep
<1>4. ASSUME NEW w \in Workers, WorkerNext(w) PROVE IInv'
  <2>1. ASSUME NEW t \in Templates, PrepareScheduled(w, t) PROVE IInv'
    BY <2>1, PrepareStep
  <2>2. CASE SelectRecoverable(w) \/ SelectDue(w) \/ ExecutePrepared(w)
    <3>1. UNCHANGED <<run, documents>>
      BY <2>2 DEF SelectRecoverable, SelectDue, ExecutePrepared
    <3>2. QED
      BY <3>1, UnchangedStep
  <2>3. QED
    BY <1>4, <2>1, <2>2 DEF WorkerNext
<1>5. ASSUME NEW q \in Requests, RequestNext(q) PROVE IInv'
  <2>1. ASSUME NEW t \in Templates, NEW k \in ManualKeys, RunManually(q, t, k)
        PROVE  IInv'
    <3>1. RunNow(q, t, k, "executing")
      BY <2>1 DEF RunManually
    <3>2. QED
      BY <3>1, RunNowStep
  <2>2. CASE GenerateNow(q)
    <3>1. CASE RunNow(q, process[q].template, process[q].occurrence, "legacy")
      BY <3>1, RunNowStep
    <3>2. CASE UNCHANGED <<run, documents>>
      BY <3>2, UnchangedStep
    <3>3. QED
      BY <2>2, <3>1, <3>2 DEF GenerateNow
  <2>3. CASE AdvanceAfterLegacyRun(q) \/ \E t \in Templates : GenerateNowRead(q, t)
    <3>1. UNCHANGED <<run, documents>>
      BY <2>3 DEF AdvanceAfterLegacyRun, GenerateNowRead
    <3>2. QED
      BY <3>1, UnchangedStep
  <2>4. QED
    BY <1>5, <2>1, <2>2, <2>3 DEF RequestNext
<1>6. CASE TemplateNext
  <2>1. UNCHANGED <<run, documents>>
    BY <1>6 DEF TemplateNext, CreateTemplate, UpdateTemplate, Activate, Pause,
                Resume, Archive, Transition
  <2>2. QED
    BY <2>1, UnchangedStep
<1>7. CASE DayPasses \/ (\E p \in Processes : Dies(p)) \/ UNCHANGED vars
  <2>1. UNCHANGED <<run, documents>>
    BY <1>7 DEF DayPasses, Dies, vars
  <2>2. QED
    BY <2>1, UnchangedStep
<1>8. QED
  BY <1>1, <1>2, <1>3, <1>4, <1>5, <1>6, <1>7 DEF Next

\* A run has one draft exactly when it is marked generated, whatever workers,
\* retries, lost answers, edits and requests meet on it: no occurrence is
\* drafted twice.
THEOREM OneDraftPerRun == Spec => []DocumentsMatchRuns
<1>1. Init => IInv
  BY InitStep
<1>2. IInv /\ [Next]_vars => IInv'
  BY NextStep
<1>3. IInv => DocumentsMatchRuns
  BY DEF IInv
<1>4. QED
  BY <1>1, <1>2, <1>3, PTL DEF Spec

-----------------------------------------------------------------------------
(* Sets of numbers, and the members selected from a sequence. *)

\* Induction over a set of natural numbers.
LEMMA SetInduction ==
    ASSUME NEW T, T \subseteq Nat, 0 \in T, \A n \in T : n + 1 \in T
    PROVE  T = Nat
<1> DEFINE R == OpToRel(<, Nat)
           C == Nat \ T
<1>1. IsWellFoundedOn(R, Nat)
  BY NatLessThanWellFounded
<1>2. CASE C # {}
  <2>1. PICK x \in C : \A y \in C : <<y, x>> \notin R
    <3> HIDE DEF R
    <3>1. C \subseteq Nat
      OBVIOUS
    <3> HIDE DEF C
    <3>2. QED
      BY <1>1, <1>2, <3>1, WFMin
  <2>2. \A y \in Nat : y < x => <<y, x>> \in R
    BY DEF OpToRel
  <2>3. \A y \in C : ~(y < x)
    BY <2>1, <2>2
  <2>4. QED
    BY <2>3
<1>3. QED
  BY <1>2

\* A selection from a sequence is a sequence of what was selected.
LEMMA SelectedType ==
    ASSUME NEW X, NEW s \in Seq(X), NEW S
    PROVE  Selected(s, S) \in Seq(X \cap S)
<1> DEFINE Y == Seq(X \cap S)
           Up(f, n) == IF n = 0 THEN <<>>
                       ELSE IF s[n] \in S THEN Append(f[n - 1], s[n]) ELSE f[n - 1]
           Good(m) == \E f \in [0 .. m -> Y] : \A n \in 0 .. m : f[n] = Up(f, n)
           T == {m \in Nat : m <= Len(s) => Good(m)}
<1>0. Len(s) \in Nat
  OBVIOUS
\* One step keeps the sequences typed.
<1>1. ASSUME NEW y \in Y, NEW n \in 1 .. Len(s)
      PROVE  /\ Append(y, s[n]) \in Y \/ s[n] \notin S
             /\ <<>> \in Y
  OBVIOUS
<1>2. <<>> \in Y
  OBVIOUS
<1> HIDE DEF Y
<1>3. 0 \in T
  <2> DEFINE f == [n \in 0 .. 0 |-> <<>>]
  <2>1. f \in [0 .. 0 -> Y] /\ \A n \in 0 .. 0 : f[n] = Up(f, n)
    BY <1>2
  <2> HIDE DEF f, Up
  <2>2. QED
    BY <2>1
<1>4. ASSUME NEW m \in T PROVE m + 1 \in T
  <2> SUFFICES ASSUME m + 1 <= Len(s) PROVE Good(m + 1)
    OBVIOUS
  <2>1. m \in Nat /\ Good(m)
    <3> HIDE DEF Good
    <3>1. QED
      BY <1>0
  <2>2. PICK f \in [0 .. m -> Y] : \A n \in 0 .. m : f[n] = Up(f, n)
    <3> HIDE DEF Up
    <3>1. QED
      BY <2>1
  <2> DEFINE v == IF s[m + 1] \in S THEN Append(f[m], s[m + 1]) ELSE f[m]
             g == [n \in 0 .. m + 1 |-> IF n <= m THEN f[n] ELSE v]
  <2>3. f[m] \in Y /\ m + 1 \in 1 .. Len(s) /\ m + 1 # 0 /\ (m + 1) - 1 = m
    BY <1>0, <2>1
  <2>4. v \in Y
    BY <1>1, <2>3
  <2>5. v = IF s[m + 1] \in S THEN Append(f[m], s[m + 1]) ELSE f[m]
    OBVIOUS
  <2> HIDE DEF v
  <2>6. g \in [0 .. m + 1 -> Y]
    BY <2>1, <2>4
  <2>7. (\A n \in 0 .. m : g[n] = f[n]) /\ g[m + 1] = v
    BY <2>1
  <2> HIDE DEF g
  <2>8. ASSUME NEW n \in 0 .. m + 1 PROVE g[n] = Up(g, n)
    <3>1. CASE n = m + 1
      <4>1. n - 1 = m /\ g[n - 1] = f[m]
        BY <2>1, <2>7, <3>1
      <4>2. QED
        BY <2>3, <2>5, <2>7, <3>1, <4>1
    <3>2. CASE n \in 0 .. m
      <4>1. n # 0 => g[n - 1] = f[n - 1]
        BY <2>1, <2>7, <3>2
      <4>2. g[n] = f[n] /\ f[n] = Up(f, n)
        BY <2>2, <2>7, <3>2
      <4>3. QED
        BY <4>1, <4>2
    <3>3. QED
      BY <2>1, <3>1, <3>2
  <2> HIDE DEF Up
  <2>9. QED
    BY <2>6, <2>8
<1>5. T = Nat
  <2> HIDE DEF T
  <2>1. T \subseteq Nat
    BY DEF T
  <2>2. QED
    BY <1>3, <1>4, <2>1, SetInduction
<1>6. Good(Len(s))
  <2> HIDE DEF Good
  <2>1. QED
    BY <1>0, <1>5
<1>7. PICK f \in [0 .. Len(s) -> Y] : \A n \in 0 .. Len(s) : f[n] = Up(f, n)
  <2> HIDE DEF Up
  <2>1. QED
    BY <1>6
<1> DEFINE IsUp(h) == h = [n \in 0 .. Len(s) |-> Up(h, n)]
           u == CHOOSE h : IsUp(h)
<1>8. IsUp(f)
  <2> HIDE DEF Up
  <2>1. QED
    BY <1>7
<1>9. Selected(s, S) = u[Len(s)]
  BY DEF Selected
<1>10. IsUp(u)
  <2> HIDE DEF IsUp
  <2>1. QED
    BY <1>8
<1> HIDE DEF u
<1> DEFINE V == {m \in Nat : m <= Len(s) => u[m] \in Y}
<1>11. \A n \in 0 .. Len(s) : u[n] = Up(u, n)
  <2> HIDE DEF Up
  <2>1. QED
    BY <1>10
<1>12. V = Nat
  <2>1. 0 \in V
    <3>1. u[0] = <<>>
      BY <1>0, <1>11
    <3>2. QED
      BY <1>2, <3>1
  <2>2. ASSUME NEW m \in V PROVE m + 1 \in V
    <3> SUFFICES ASSUME m + 1 <= Len(s) PROVE u[m + 1] \in Y
      OBVIOUS
    <3>1. m \in Nat /\ u[m] \in Y /\ m + 1 \in 1 .. Len(s)
      BY <1>0
    <3>2. u[m + 1] = IF s[m + 1] \in S THEN Append(u[m], s[m + 1]) ELSE u[m]
      <4>1. m + 1 \in 0 .. Len(s) /\ m + 1 # 0 /\ (m + 1) - 1 = m
        BY <1>0, <3>1
      <4>2. u[m + 1] = Up(u, m + 1)
        <5> HIDE DEF Up
        <5>1. QED
          BY <1>11, <4>1
      <4>3. QED
        BY <4>1, <4>2
    <3>3. QED
      BY <1>1, <3>1, <3>2
  <2> HIDE DEF V
  <2>3. V \subseteq Nat
    BY DEF V
  <2>4. QED
    BY <2>1, <2>2, <2>3, SetInduction
<1>13. u[Len(s)] \in Y
  BY <1>0, <1>12
<1>14. QED
  BY <1>9, <1>13 DEF Y

-----------------------------------------------------------------------------
(* Arithmetic of days: division with remainder. *)

\* Division with remainder.
LEMMA QuotientUnique ==
    ASSUME NEW n \in Nat \ {0}, NEW k \in Int, NEW r \in 0 .. n - 1
    PROVE  (n * k + r) % n = r /\ (n * k + r) \div n = k
  OBVIOUS

\* Division with a remainder.
LEMMA Division ==
    ASSUME NEW n \in Nat \ {0}, NEW a \in Nat
    PROVE  \E k \in Nat : \E r \in 0 .. n - 1 : a = n * k + r
<1> DEFINE Divides(m) == \E k \in Nat : \E r \in 0 .. n - 1 : m = n * k + r
           T == {m \in Nat : Divides(m)}
<1>0. ASSUME NEW k \in Nat, NEW r \in 0 .. n - 1 PROVE Divides(n * k + r)
  OBVIOUS
<1>1. 0 \in T
  <2>1. 0 \in 0 .. n - 1 /\ 0 = n * 0 + 0
    OBVIOUS
  <2>2. Divides(n * 0 + 0)
    BY <1>0, <2>1
  <2> HIDE DEF Divides
  <2>3. QED
    BY <2>1, <2>2
<1>2. ASSUME NEW m \in T PROVE m + 1 \in T
  <2>1. PICK k \in Nat : \E r \in 0 .. n - 1 : m = n * k + r
    OBVIOUS
  <2>2. PICK r \in 0 .. n - 1 : m = n * k + r
    BY <2>1
  <2>3. m \in Nat /\ n * k \in Nat
    OBVIOUS
  <2>4. Divides(m + 1)
    <3>1. CASE r + 1 < n
      <4>1. r + 1 \in 0 .. n - 1 /\ m + 1 = n * k + (r + 1)
        BY <2>2, <2>3, <3>1
      <4>2. Divides(n * k + (r + 1))
        BY <1>0, <4>1
      <4> HIDE DEF Divides
      <4>3. QED
        BY <4>1, <4>2
    <3>2. CASE r + 1 = n
      <4>1. k + 1 \in Nat /\ 0 \in 0 .. n - 1 /\ n * (k + 1) = n * k + n
        OBVIOUS
      <4>2. m + 1 = n * (k + 1) + 0
        BY <2>2, <2>3, <3>2, <4>1
      <4>3. Divides(n * (k + 1) + 0)
        BY <1>0, <4>1
      <4> HIDE DEF Divides
      <4>4. QED
        BY <4>2, <4>3
    <3>3. QED
      BY <2>2, <3>1, <3>2
  <2> HIDE DEF Divides
  <2>5. QED
    BY <2>3, <2>4
<1> HIDE DEF T
<1>3. T = Nat
  <2>1. T \subseteq Nat
    BY DEF T
  <2>2. QED
    BY <1>1, <1>2, <2>1, SetInduction
<1>4. Divides(a)
  <2> HIDE DEF Divides
  <2>1. QED
    BY <1>3 DEF T
<1>5. QED
  BY <1>4

\* Multiples of n.
LEMMA Multiple ==
    ASSUME NEW n \in Nat \ {0}, NEW a \in Nat
    PROVE  a % n = 0 <=> \E k \in Nat : a = n * k
<1>1. PICK k \in Nat : \E r \in 0 .. n - 1 : a = n * k + r
  BY Division
<1>2. PICK r \in 0 .. n - 1 : a = n * k + r
  BY <1>1
<1>3. a % n = r
  BY <1>2, QuotientUnique
<1>4. CASE r = 0
  <2>1. a = n * k
    BY <1>2, <1>4
  <2>2. QED
    BY <1>3, <1>4, <2>1
<1>5. CASE r # 0
  <2>1. ASSUME NEW m \in Nat, a = n * m PROVE FALSE
    <3>1. 0 \in 0 .. n - 1 /\ a = n * m + 0
      BY <2>1
    <3>2. a % n = 0
      BY <3>1, QuotientUnique
    <3>3. QED
      BY <1>3, <1>5, <3>2
  <2>2. QED
    BY <1>3, <1>5, <2>1
<1>6. QED
  BY <1>4, <1>5

\* One divisor beyond a multiple is the next multiple.
LEMMA NextMultiple ==
    ASSUME NEW n \in Nat \ {0}, NEW a \in Nat, a % n = 0
    PROVE  (a + n) % n = 0
<1>1. PICK k \in Nat : a = n * k
  BY Multiple
<1>2. k + 1 \in Nat /\ a + n = n * (k + 1)
  BY <1>1
<1>3. a + n \in Nat
  OBVIOUS
<1>4. QED
  BY <1>2, <1>3, Multiple

\* Multiples lie n apart.
LEMMA MultiplesApart ==
    ASSUME NEW n \in Nat \ {0}, NEW a \in Nat, NEW b \in Nat,
           a % n = 0, b % n = 0, a <= b
    PROVE  (b - a) % n = 0 /\ (a < b => a + n <= b)
<1>1. PICK k \in Nat : a = n * k
  BY Multiple
<1>2. PICK m \in Nat : b = n * m
  BY Multiple
<1>3. k <= m
  BY <1>1, <1>2
<1>4. m - k \in Nat /\ b - a = n * (m - k) /\ b - a \in Nat
  BY <1>1, <1>2, <1>3
<1>5. (b - a) % n = 0
  BY <1>4, Multiple
<1>6. ASSUME a < b PROVE a + n <= b
  <2>1. k < m
    BY <1>1, <1>2, <1>3, <1>6
  <2>2. n * k + n <= n * m
    BY <2>1
  <2>3. QED
    BY <1>1, <1>2, <2>2
<1>7. QED
  BY <1>5, <1>6

\* Quotients by the same divisor keep the order.
LEMMA QuotientsOrdered ==
    ASSUME NEW n \in Nat \ {0}, NEW a \in Nat, NEW b \in Nat, a <= b
    PROVE  a \div n <= b \div n
<1>1. PICK k \in Nat : \E r \in 0 .. n - 1 : a = n * k + r
  BY Division
<1>2. PICK r \in 0 .. n - 1 : a = n * k + r
  BY <1>1
<1>3. PICK m \in Nat : \E r2 \in 0 .. n - 1 : b = n * m + r2
  BY Division
<1>4. PICK s \in 0 .. n - 1 : b = n * m + s
  BY <1>3
<1>5. a \div n = k /\ b \div n = m
  BY <1>2, <1>4, QuotientUnique
<1>6. ASSUME m < k PROVE FALSE
  <2>1. n * m + n <= n * k
    BY <1>6
  <2>2. QED
    BY <1>2, <1>4, <2>1
<1>7. QED
  BY <1>5, <1>6

\* A bounded set of naturals has a greatest member.
LEMMA Greatest ==
    ASSUME NEW S, S \subseteq Nat, S # {}, NEW b \in Nat, \A x \in S : x <= b
    PROVE  \E m \in S : \A x \in S : x <= m
<1> SUFFICES ASSUME ~ \E m \in S : \A x \in S : x <= m PROVE FALSE
  OBVIOUS
<1> DEFINE T == {n \in Nat : \E x \in S : x >= n}
<1>1. 0 \in T
  <2>1. PICK x \in S : TRUE
    OBVIOUS
  <2>2. x >= 0
    BY <2>1
  <2>3. QED
    BY <2>2
<1>2. ASSUME NEW n \in T PROVE n + 1 \in T
  <2>1. PICK x \in S : x >= n
    OBVIOUS
  <2>2. PICK y \in S : ~(y <= x)
    OBVIOUS
  <2>3. y >= n + 1
    BY <2>1, <2>2
  <2>4. QED
    BY <2>3
<1>3. b + 1 \notin T
  OBVIOUS
<1> HIDE DEF T
<1>4. T \subseteq Nat
  BY DEF T
<1>5. T = Nat
  BY <1>1, <1>2, <1>4, SetInduction
<1>6. QED
  BY <1>3, <1>5

-----------------------------------------------------------------------------
(* The schedule: what the rows and the processes are known to satisfy. *)

\* A template that exists keeps an occurrence of its schedule as the next
\* one; a template that does not exist has no runs; what a request created
\* exists.
TemplateKept(t) ==
    /\ \A x \in Days \cup ManualKeys :
         run[<<t, x>>].byKey => run[<<t, x>>].status # "NONE"
    /\ IF template[t].status = "NONE"
       THEN \A x \in Days \cup ManualKeys : run[<<t, x>>].status = "NONE"
       ELSE /\ template[t].schedule \in Schedules
            /\ template[t].nextRunAt >= template[t].schedule.start
            /\ (template[t].nextRunAt - template[t].schedule.start)
                 % template[t].schedule.interval = 0

TemplatesKept == \A t \in Templates : TemplateKept(t)

\* What a process remembers exists: the runs it will execute, and the run of
\* the occurrence that a legacy request generates and moves past.
Known(q, rows, templates) ==
    /\ \A n \in 1 .. Len(q.todo) : rows[q.todo[n]].status # "NONE"
    /\ q.failure # "none" => q.todo # <<>>
    /\ q.phase \in {"legacy", "advancing"} =>
         /\ q.template \in Templates /\ templates[q.template].status # "NONE"
         /\ q.occurrence \in Days
         /\ q.todo \in {<<>>, << <<q.template, q.occurrence>> >>}
         /\ q.phase = "advancing" => rows[<<q.template, q.occurrence>>].status # "NONE"

ProcessesKnown == \A p \in Processes : Known(process[p], run, template)

\* The inductive invariant of the schedule.
ScheduleInv == TypeOK /\ TemplatesKept /\ ProcessesKnown /\ ScheduleAheadOfRuns

\* No row is deleted, and none becomes a run of the other kind.
RowsStay(before, after) ==
    \A r \in Runs : before[r].status # "NONE" =>
      after[r].status # "NONE" /\ after[r].byKey = before[r].byKey

TemplatesStay(before, after) ==
    \A t \in Templates : before[t].status # "NONE" => after[t].status # "NONE"

-----------------------------------------------------------------------------

\* What a process knows stays true while rows and templates stay.
LEMMA KnownStays ==
    ASSUME NEW q \in Process, NEW rows, NEW rows2, NEW templates, NEW templates2,
           Known(q, rows, templates), RowsStay(rows, rows2),
           TemplatesStay(templates, templates2)
    PROVE  Known(q, rows2, templates2)
<1>1. ASSUME NEW n \in 1 .. Len(q.todo) PROVE rows2[q.todo[n]].status # "NONE"
  <2>1. q.todo \in Seq(Runs)
    BY DEF Process
  <2>2. q.todo[n] \in Runs
    BY <2>1
  <2>3. QED
    BY <2>2 DEF Known, RowsStay
<1>2. q.failure # "none" => q.todo # <<>>
  BY DEF Known
<1>3. ASSUME q.phase \in {"legacy", "advancing"}
      PROVE  /\ q.template \in Templates /\ templates2[q.template].status # "NONE"
             /\ q.occurrence \in Days
             /\ q.todo \in {<<>>, << <<q.template, q.occurrence>> >>}
             /\ q.phase = "advancing" => rows2[<<q.template, q.occurrence>>].status # "NONE"
  <2>1. /\ q.template \in Templates /\ templates[q.template].status # "NONE"
        /\ q.occurrence \in Days
        /\ q.todo \in {<<>>, << <<q.template, q.occurrence>> >>}
        /\ q.phase = "advancing" => rows[<<q.template, q.occurrence>>].status # "NONE"
    BY <1>3 DEF Known
  <2>2. <<q.template, q.occurrence>> \in Runs
    BY <2>1 DEF Runs
  <2>3. QED
    BY <2>1, <2>2 DEF RowsStay, TemplatesStay
<1>4. QED
  BY <1>1, <1>2, <1>3 DEF Known

\* One process moves on, the others remember what they did.
LEMMA ProcessStep ==
    ASSUME TypeOK, ProcessesKnown, NEW p \in Processes, NEW q \in Process,
           process' = [process EXCEPT ![p] = q],
           Known(q, run', template'),
           RowsStay(run, run'), TemplatesStay(template, template')
    PROVE  process' \in [Processes -> Process] /\ ProcessesKnown'
<1>1. process \in [Processes -> Process]
  BY DEF TypeOK
<1>2. process' \in [Processes -> Process]
  BY <1>1
<1>3. ASSUME NEW o \in Processes PROVE Known(process'[o], run', template')
  <2>1. CASE o = p
    BY <1>1, <2>1
  <2>2. CASE o # p
    <3>1. process'[o] = process[o] /\ process[o] \in Process
      BY <1>1, <2>2
    <3>2. Known(process[o], run, template)
      BY DEF ProcessesKnown
    <3>3. QED
      BY <3>1, <3>2, KnownStays
  <2>3. QED
    BY <2>1, <2>2
<1>4. QED
  BY <1>2, <1>3 DEF ProcessesKnown

\* Rows stay when nothing changes.
LEMMA RowsStayRefl == ASSUME NEW a PROVE RowsStay(a, a)
  BY DEF RowsStay

\* Templates stay when nothing changes.
LEMMA TemplatesStayRefl == ASSUME NEW a PROVE TemplatesStay(a, a)
  BY DEF TemplatesStay

\* Rows that only change, none created.
LEMMA TemplatesKeptSame ==
    ASSUME TypeOK, TemplatesKept, ScheduleAheadOfRuns, template' = template,
           run' \in [Runs -> Run],
           \A r \in Runs : /\ run'[r].status = "NONE" <=> run[r].status = "NONE"
                           /\ run'[r].byKey = run[r].byKey
    PROVE  TemplatesKept' /\ ScheduleAheadOfRuns' /\ RowsStay(run, run')
<1>1. ASSUME NEW t \in Templates, NEW x \in Days \cup ManualKeys
      PROVE  <<t, x>> \in Runs
  BY DEF Runs
<1>2. \A t \in Templates : TemplateKept(t)'
  BY <1>1 DEF TemplatesKept, TemplateKept
<1>3. ScheduleAheadOfRuns'
  BY <1>1 DEF ScheduleAheadOfRuns
<1>4. QED
  BY <1>2, <1>3 DEF TemplatesKept, RowsStay

-----------------------------------------------------------------------------
(* Executing runs. *)

\* An idle process, and a dead one, know nothing that could become false.
LEMMA IdleKnown ==
    ASSUME NEW rows, NEW templates
    PROVE  /\ Idle \in Process /\ Known(Idle, rows, templates)
           /\ [Idle EXCEPT !.phase = "dead"] \in Process
           /\ Known([Idle EXCEPT !.phase = "dead"], rows, templates)
<1> DEFINE dead == [Idle EXCEPT !.phase = "dead"]
<1>0. <<>> \in Seq(Runs)
  OBVIOUS
<1>1. Idle \in Process
  BY <1>0 DEF Idle, Process
<1>5. dead \in Process
  BY <1>1 DEF Process
<1>2. ASSUME NEW q, q.todo = <<>>, q.failure = "none", q.phase \in {"idle", "dead"}
      PROVE  Known(q, rows, templates)
  BY <1>2 DEF Known
<1>3. /\ Idle.todo = <<>> /\ Idle.failure = "none" /\ Idle.phase = "idle"
      /\ [Idle EXCEPT !.phase = "dead"].todo = <<>>
      /\ [Idle EXCEPT !.phase = "dead"].failure = "none"
      /\ [Idle EXCEPT !.phase = "dead"].phase = "dead"
  BY DEF Idle
<1>4. QED
  BY <1>1, <1>2, <1>3, <1>5

\* The schedule invariant holds at the start.
LEMMA ScheduleInit == Init => ScheduleInv
<1> SUFFICES ASSUME Init PROVE ScheduleInv
  OBVIOUS
<1>1. today \in Days
  BY LimitsPositive DEF Init, Days
<1>2. /\ template \in [Templates -> Template]
      /\ \A t \in Templates : template[t].status = "NONE"
  BY DEF Init, Template
<1>3. /\ run \in [Runs -> Run] /\ documents \in [Runs -> Nat] /\ created \in Seq(Runs)
      /\ \A r \in Runs : run[r].status = "NONE" /\ ~run[r].byKey
  BY NoRunTyped DEF Init, NoRun
<1>4. process \in [Processes -> Process]
  BY IdleKnown DEF Init
<1>5. TypeOK
  BY <1>1, <1>2, <1>3, <1>4 DEF TypeOK
<1>6. TemplatesKept
  BY <1>2, <1>3 DEF TemplatesKept, TemplateKept, Runs
<1>7. ProcessesKnown
  BY IdleKnown DEF ProcessesKnown, Init
<1>8. ScheduleAheadOfRuns
  BY <1>2 DEF ScheduleAheadOfRuns
<1>9. QED
  BY <1>5, <1>6, <1>7, <1>8 DEF ScheduleInv

\* A step that only moves a process.
LEMMA ProcessOnly ==
    ASSUME ScheduleInv, NEW p \in Processes, NEW q \in Process,
           process' = [process EXCEPT ![p] = q],
           UNCHANGED <<today, template, run, created, documents>>,
           Known(q, run, template)
    PROVE  ScheduleInv'
<1>1. process' \in [Processes -> Process] /\ ProcessesKnown'
  BY ProcessStep, RowsStayRefl, TemplatesStayRefl DEF ScheduleInv
<1>2. TypeOK'
  BY <1>1 DEF ScheduleInv, TypeOK
<1>3. TemplatesKept' /\ ScheduleAheadOfRuns'
  BY DEF ScheduleInv, TemplatesKept, TemplateKept, ScheduleAheadOfRuns
<1>4. QED
  BY <1>1, <1>2, <1>3 DEF ScheduleInv

\* A step that rewrites the row of a run that exists.
LEMMA RowStep ==
    ASSUME ScheduleInv, NEW r \in Runs, NEW row \in Run,
           row.status # "NONE", run[r].status # "NONE", row.byKey = run[r].byKey,
           run' = [run EXCEPT ![r] = row],
           documents' \in [Runs -> Nat], UNCHANGED <<today, template, created>>,
           process' \in [Processes -> Process], ProcessesKnown'
    PROVE  ScheduleInv'
<1>1. run' \in [Runs -> Run]
  BY DEF ScheduleInv, TypeOK
<1>2. \A x \in Runs : /\ run'[x].status = "NONE" <=> run[x].status = "NONE"
                      /\ run'[x].byKey = run[x].byKey
  BY DEF ScheduleInv, TypeOK
<1>3. TemplatesKept' /\ ScheduleAheadOfRuns'
  BY <1>1, <1>2, TemplatesKeptSame DEF ScheduleInv
<1>4. TypeOK'
  BY <1>1 DEF ScheduleInv, TypeOK
<1>5. QED
  BY <1>3, <1>4 DEF ScheduleInv

\* The first run of a process that has one.
LEMMA HeadKnown ==
    ASSUME ScheduleInv, NEW p \in Processes, process[p].todo # <<>>
    PROVE  /\ process[p] \in Process
           /\ process[p].todo \in Seq(Runs)
           /\ Head(process[p].todo) \in Runs
           /\ run[Head(process[p].todo)] \in Run
           /\ run[Head(process[p].todo)].status # "NONE"
<1>1. process[p] \in Process /\ process[p].todo \in Seq(Runs)
  BY DEF ScheduleInv, TypeOK, Process
<1>2. Head(process[p].todo) = process[p].todo[1] /\ 1 \in 1 .. Len(process[p].todo)
  BY <1>1
<1>3. Head(process[p].todo) \in Runs
  BY <1>1, <1>2
<1>4. run[process[p].todo[1]].status # "NONE"
  BY <1>2 DEF ScheduleInv, ProcessesKnown, Known
<1>5. QED
  BY <1>1, <1>2, <1>3, <1>4 DEF ScheduleInv, TypeOK

\* Where a process goes after the first run.
LEMMA ContinueKnown ==
    ASSUME ScheduleInv, NEW p \in Processes, process[p].todo # <<>>,
           NEW rows, RowsStay(run, rows), NEW status
    PROVE  /\ Continue(p, status) \in Process
           /\ Known(Continue(p, status), rows, template)
<1> DEFINE s == process[p]
           rest == Tail(s.todo)
           moved == [s EXCEPT !.phase = "advancing", !.todo = rest, !.failure = "none"]
           next == [s EXCEPT !.todo = rest, !.failure = "none"]
<1>1. s \in Process /\ s.todo \in Seq(Runs) /\ s.todo # <<>>
  BY HeadKnown
<1>2. Known(s, rows, template)
  BY <1>1, KnownStays, TemplatesStayRefl DEF ScheduleInv, ProcessesKnown
<1> HIDE DEF s
<1>3. rest \in Seq(Runs)
  BY <1>1
<1>4. ASSUME NEW n \in 1 .. Len(rest) PROVE rows[rest[n]].status # "NONE"
  <2>1. Len(rest) = Len(s.todo) - 1 /\ Len(s.todo) \in Nat
    BY <1>1
  <2>2. n + 1 \in 1 .. Len(s.todo)
    BY <2>1
  <2>3. \A i \in 1 .. Len(rest) : rest[i] = s.todo[i + 1]
    BY <1>1, HeadTailProperties, Zenon
  <2>4. QED
    BY <1>2, <2>2, <2>3 DEF Known
<1>5. CASE s.phase = "legacy" /\ status = "GENERATED"
  <2>1. /\ s.template \in Templates /\ template[s.template].status # "NONE"
        /\ s.occurrence \in Days
        /\ s.todo = << <<s.template, s.occurrence>> >>
    BY <1>1, <1>2, <1>5 DEF Known
  <2>2. rest = <<>> /\ 1 \in 1 .. Len(s.todo) /\ s.todo[1] = <<s.template, s.occurrence>>
    BY <2>1
  <2>3. Continue(p, status) = moved
    BY <1>5, <2>2 DEF Continue, s
  <2>4. moved \in Process
    BY <1>1, <1>3 DEF Process
  <2>5. rows[<<s.template, s.occurrence>>].status # "NONE"
    BY <1>2, <2>2 DEF Known
  <2> HIDE DEF rest
  <2>6. /\ moved.todo = <<>> /\ moved.failure = "none" /\ moved.template = s.template
        /\ moved.occurrence = s.occurrence /\ moved.phase = "advancing"
    BY <1>1, <2>2 DEF Process
  <2> HIDE DEF moved
  <2>7. Known(moved, rows, template)
    BY <2>1, <2>5, <2>6 DEF Known
  <2>8. QED
    BY <2>3, <2>4, <2>7
<1>6. CASE ~(s.phase = "legacy" /\ status = "GENERATED")
           /\ (s.phase = "recovering" \/ rest # <<>>)
  <2>1. Continue(p, status) = next
    BY <1>6 DEF Continue, s
  <2>2. next \in Process
    BY <1>1, <1>3 DEF Process
  <2>3. /\ next.todo = rest /\ next.failure = "none" /\ next.phase = s.phase
        /\ next.template = s.template /\ next.occurrence = s.occurrence
    BY <1>1 DEF Process
  <2>4. s.phase \in {"legacy", "advancing"} => rest \in {<<>>, << <<s.template, s.occurrence>> >>}
    BY <1>2, <1>1 DEF Known
  <2> HIDE DEF rest, next
  <2>5. Known(next, rows, template)
    BY <1>2, <1>4, <2>3, <2>4 DEF Known
  <2>6. QED
    BY <2>1, <2>2, <2>5
<1>7. CASE ~(s.phase = "legacy" /\ status = "GENERATED")
           /\ ~(s.phase = "recovering" \/ rest # <<>>)
  <2>1. Continue(p, status) = Idle
    BY <1>7 DEF Continue, s
  <2>2. QED
    BY <2>1, IdleKnown
<1>8. QED
  BY <1>5, <1>6, <1>7

-----------------------------------------------------------------------------
\* The row of an executed run.
LEMMA GeneratedRow ==
    ASSUME NEW row \in Run
    PROVE  [row EXCEPT !.status = "GENERATED", !.attempts = Attempted(@),
                       !.retriable = FALSE, !.waiting = FALSE] \in Run
<1>1. Attempted(row.attempts) \in 0 .. MaxAttempts
  BY RowUpdates
<1>2. QED
  BY <1>1 DEF Run

\* Generating the first run of a process rewrites a row that exists.
LEMMA GenerateSchedule ==
    ASSUME ScheduleInv, NEW p \in Processes, process[p].todo # <<>>,
           Generate(Head(process[p].todo)), UNCHANGED <<today, template, created>>,
           NEW q \in Process, process' = [process EXCEPT ![p] = q],
           RowsStay(run, run') => Known(q, run', template)
    PROVE  ScheduleInv'
<1> DEFINE r == Head(process[p].todo)
           row == [run[r] EXCEPT !.status = "GENERATED", !.attempts = Attempted(@),
                                 !.retriable = FALSE, !.waiting = FALSE]
<1>1. r \in Runs /\ run[r] \in Run /\ run[r].status # "NONE"
  BY HeadKnown
<1>2. /\ run' = [run EXCEPT ![r] = row]
      /\ documents' = [documents EXCEPT ![r] = documents[r] + 1]
  BY DEF Generate
<1> HIDE DEF r
<1>3. row \in Run
  BY <1>1, GeneratedRow
<1>4. row.status = "GENERATED" /\ row.byKey = run[r].byKey
  BY <1>1 DEF Run
<1> HIDE DEF row
<1>5. RowsStay(run, run')
  BY <1>1, <1>2, <1>4 DEF RowsStay, ScheduleInv, TypeOK
<1>6. documents' \in [Runs -> Nat]
  <2>1. documents[r] + 1 \in Nat
    BY <1>1 DEF ScheduleInv, TypeOK
  <2>2. QED
    BY <1>2, <2>1 DEF ScheduleInv, TypeOK
<1>7. process' \in [Processes -> Process] /\ ProcessesKnown'
  BY <1>5, ProcessStep, TemplatesStayRefl DEF ScheduleInv
<1>8. QED
  BY <1>1, <1>2, <1>3, <1>4, <1>6, <1>7, RowStep

\* Executing a run keeps the schedule invariant.
LEMMA ExecuteSchedule ==
    ASSUME ScheduleInv, NEW p \in Processes, Execute(p)
    PROVE  ScheduleInv'
<1> DEFINE r == Head(process[p].todo)
<1>1. process[p].todo # <<>> /\ process[p].failure = "none"
  BY DEF Execute, Executes
<1>2. process[p] \in Process /\ Known(process[p], run, template)
  BY DEF ScheduleInv, TypeOK, ProcessesKnown
\* A failure is remembered with the run it happened to.
<1>3. ASSUME NEW failure \in {"retriable", "blocked", "permanent"}, NEW rows,
             RowsStay(run, rows)
      PROVE  /\ [process[p] EXCEPT !.failure = failure] \in Process
             /\ Known([process[p] EXCEPT !.failure = failure], rows, template)
  <2> DEFINE s == process[p]
             q == [s EXCEPT !.failure = failure]
  <2>1. s \in Process /\ s.todo # <<>> /\ Known(s, rows, template)
    BY <1>1, <1>2, <1>3, KnownStays, TemplatesStayRefl
  <2> HIDE DEF s
  <2>2. q \in Process
    BY <2>1 DEF Process
  <2>3. /\ q.todo = s.todo /\ q.phase = s.phase /\ q.template = s.template
        /\ q.occurrence = s.occurrence
    BY <2>1 DEF Process
  <2> HIDE DEF q
  <2>4. Known(q, rows, template)
    BY <2>1, <2>3 DEF Known
  <2>5. QED
    BY <2>2, <2>4 DEF s, q
<1>4. CASE ExecuteFails(p)
  <2>1. PICK failure \in {"retriable", "blocked", "permanent"} :
          process' = [process EXCEPT ![p].failure = failure]
    BY <1>4 DEF ExecuteFails
  <2> DEFINE q == [process[p] EXCEPT !.failure = failure]
  <2>2. q \in Process /\ Known(q, run, template)
    BY <1>3, RowsStayRefl
  <2>3. process' = [process EXCEPT ![p] = q]
    BY <2>1
  <2>4. UNCHANGED <<today, template, run, created, documents>>
    BY <1>4 DEF ExecuteFails
  <2> HIDE DEF q
  <2>5. QED
    BY <2>2, <2>3, <2>4, ProcessOnly
<1>5. CASE ExecuteUnanswered(p)
  <2> DEFINE q == [process[p] EXCEPT !.failure = "retriable"]
  <2>1. Generate(r) /\ UNCHANGED <<today, template, created>>
    BY <1>5 DEF ExecuteUnanswered
  <2>2. process' = [process EXCEPT ![p] = q]
    BY <1>5 DEF ExecuteUnanswered
  <2>3. q \in Process /\ (RowsStay(run, run') => Known(q, run', template))
    BY <1>3, RowsStayRefl
  <2> HIDE DEF q
  <2>4. QED
    BY <1>1, <2>1, <2>2, <2>3, GenerateSchedule
<1>6. CASE ExecuteDone(p)
  <2> DEFINE status == IF Executable(r) THEN "GENERATED" ELSE run[r].status
             q == Continue(p, status)
  <2>1. process' = [process EXCEPT ![p] = q]
    BY <1>6 DEF ExecuteDone
  <2>2. /\ UNCHANGED <<today, template, created>>
        /\ Generate(r) \/ UNCHANGED <<run, documents>>
    BY <1>6 DEF ExecuteDone
  <2> HIDE DEF status
  <2>3. q \in Process /\ Known(q, run, template)
    BY <1>1, ContinueKnown, RowsStayRefl
  <2>4. RowsStay(run, run') => Known(q, run', template)
    BY <1>1, ContinueKnown
  <2> HIDE DEF q
  <2>5. QED
    BY <1>1, <2>1, <2>2, <2>3, <2>4, GenerateSchedule, ProcessOnly
<1>7. QED
  BY <1>4, <1>5, <1>6 DEF Execute

\* Recording a failure keeps it.
LEMMA RecordFailureSchedule ==
    ASSUME ScheduleInv, NEW p \in Processes, RecordFailure(p)
    PROVE  ScheduleInv'
<1> DEFINE r == Head(process[p].todo)
           row == Failed(run[r], process[p].failure)
           status == run'[r].status
           q == Continue(p, status)
<1>1. process[p].todo # <<>>
  BY DEF RecordFailure, ScheduleInv, ProcessesKnown, Known
<1>2. r \in Runs /\ run[r] \in Run /\ run[r].status # "NONE"
  BY <1>1, HeadKnown
<1>3. /\ run' = IF Recordable(r) THEN [run EXCEPT ![r] = row] ELSE run
      /\ process' = [process EXCEPT ![p] = q]
      /\ UNCHANGED <<today, template, created, documents>>
  BY DEF RecordFailure
<1>4. row \in Run /\ row.status # "NONE"
  BY <1>2, RowUpdates
<1>5. row.byKey = run[r].byKey
  BY <1>2 DEF Failed, Run
<1> HIDE DEF row, r, status
<1>6. RowsStay(run, run')
  BY <1>2, <1>3, <1>4, <1>5 DEF RowsStay, ScheduleInv, TypeOK
<1>7. q \in Process /\ Known(q, run', template)
  BY <1>1, <1>6, ContinueKnown
<1> HIDE DEF q
<1>8. process' \in [Processes -> Process] /\ ProcessesKnown'
  BY <1>3, <1>6, <1>7, ProcessStep, TemplatesStayRefl DEF ScheduleInv
<1>9. CASE Recordable(r)
  <2>1. documents' \in [Runs -> Nat]
    BY <1>3 DEF ScheduleInv, TypeOK
  <2>2. QED
    BY <1>2, <1>3, <1>4, <1>5, <1>8, <1>9, <2>1, RowStep
<1>10. CASE ~Recordable(r)
  <2>1. run' = run
    BY <1>3, <1>10
  <2>2. Known(q, run, template)
    BY <1>7, <2>1
  <2>3. QED
    BY <1>3, <1>7, <2>1, <2>2, ProcessOnly
<1>11. QED
  BY <1>9, <1>10

\* The end of a backoff keeps it.
LEMMA BackoffSchedule ==
    ASSUME ScheduleInv, NEW r \in Runs, BackoffElapses(r)
    PROVE  ScheduleInv'
<1> DEFINE row == [run[r] EXCEPT !.waiting = FALSE]
           f == [run EXCEPT ![r] = row]
<1>1. run' = f /\ UNCHANGED <<today, template, created, documents, process>>
  BY DEF BackoffElapses
<1>2. run \in [Runs -> Run] /\ run[r] \in Run
  BY DEF ScheduleInv, TypeOK
<1>3. row \in Run /\ row.status = run[r].status /\ row.byKey = run[r].byKey
  BY <1>2 DEF Run
<1> HIDE DEF row
<1>4. f \in [Runs -> Run]
  BY <1>2, <1>3
<1>5. \A x \in Runs : f[x].status = run[x].status /\ f[x].byKey = run[x].byKey
  BY <1>2, <1>3
<1> HIDE DEF f
<1>6. TemplatesKept' /\ ScheduleAheadOfRuns' /\ RowsStay(run, run')
  BY <1>1, <1>4, <1>5, TemplatesKeptSame DEF ScheduleInv
<1>7. TypeOK'
  BY <1>1, <1>4 DEF ScheduleInv, TypeOK
<1>8. ProcessesKnown'
  <2>1. ASSUME NEW p \in Processes PROVE Known(process'[p], run', template')
    <3>1. process[p] \in Process /\ Known(process[p], run, template)
      BY DEF ScheduleInv, TypeOK, ProcessesKnown
    <3>2. Known(process[p], run', template)
      BY <1>6, <3>1, KnownStays, TemplatesStayRefl
    <3>3. QED
      BY <1>1, <3>2
  <2>2. QED
    BY <2>1 DEF ProcessesKnown
<1>9. QED
  BY <1>6, <1>7, <1>8 DEF ScheduleInv

-----------------------------------------------------------------------------
(* Templates. *)

InUse == {"DRAFT", "ACTIVE", "PAUSED"}

\* The typed schedule, field by field.
LEMMA ScheduleTypes ==
    ASSUME NEW s \in Schedules
    PROVE  /\ s.start \in Nat \ {0} /\ s.start \in Days
           /\ s.interval \in Nat \ {0}
           /\ s.end # None => s.end \in Nat
<1>1. s \in [start: Days, interval: Nat \ {0}, end: Days \cup {None},
             catchUp: {"SKIP_MISSED", "GENERATE_LATEST_ONLY", "GENERATE_ALL"}]
  BY SchedulesType
<1>2. Days \subseteq Nat \ {0}
  BY LimitsPositive DEF Days
<1>3. QED
  BY <1>1, <1>2

\* A template that exists.
LEMMA TemplateTypes ==
    ASSUME ScheduleInv, NEW t \in Templates
    PROVE  /\ template[t] \in Template /\ template[t].nextRunAt \in Nat
           /\ template[t].status # "NONE" =>
                /\ template[t].schedule \in Schedules
                /\ template[t].nextRunAt >= template[t].schedule.start
                /\ (template[t].nextRunAt - template[t].schedule.start)
                     % template[t].schedule.interval = 0
<1>1. template[t] \in Template /\ template[t].nextRunAt \in Nat
  BY DEF ScheduleInv, TypeOK, Template
<1>2. TemplateKept(t)
  BY DEF ScheduleInv, TemplatesKept
<1>3. QED
  BY <1>1, <1>2 DEF TemplateKept

\* A step that rewrites one template and no run.
LEMMA TemplateStep ==
    ASSUME ScheduleInv, NEW t \in Templates, NEW row \in Template,
           template' = [template EXCEPT ![t] = row],
           UNCHANGED <<today, run, created, documents>>,
           row.status # "NONE", row.schedule \in Schedules,
           row.nextRunAt >= row.schedule.start,
           (row.nextRunAt - row.schedule.start) % row.schedule.interval = 0,
           row.status \in InUse => template[t].status \in InUse \cup {"NONE"},
           template[t].status \in InUse => row.nextRunAt >= template[t].nextRunAt,
           process' \in [Processes -> Process],
           TemplatesStay(template, template') => ProcessesKnown'
    PROVE  ScheduleInv'
<1>1. template \in [Templates -> Template] /\ template' \in [Templates -> Template]
  BY DEF ScheduleInv, TypeOK
<1>2. template'[t] = row /\ \A u \in Templates \ {t} : template'[u] = template[u]
  BY <1>1
<1>3. TypeOK'
  BY <1>1 DEF ScheduleInv, TypeOK
<1>4. TemplatesKept'
  <2>1. ASSUME NEW u \in Templates PROVE TemplateKept(u)'
    <3>1. TemplateKept(u)
      BY DEF ScheduleInv, TemplatesKept
    <3>2. CASE u = t
      BY <1>2, <3>1, <3>2 DEF TemplateKept
    <3>3. CASE u # t
      BY <1>2, <3>1, <3>3 DEF TemplateKept
    <3>4. QED
      BY <3>2, <3>3
  <2>2. QED
    BY <2>1 DEF TemplatesKept
<1>5. TemplatesStay(template, template')
  BY <1>2 DEF TemplatesStay
<1>6. ScheduleAheadOfRuns'
  <2> SUFFICES ASSUME NEW u \in Templates, NEW d \in Days,
                      template'[u].status \in {"DRAFT", "ACTIVE", "PAUSED"},
                      run'[<<u, d>>].status # "NONE", ~run'[<<u, d>>].byKey
               PROVE  d < template'[u].nextRunAt
    BY DEF ScheduleAheadOfRuns
  <2>1. run[<<u, d>>].status # "NONE" /\ ~run[<<u, d>>].byKey
    OBVIOUS
  <2>2. template[u].status # "NONE"
    BY <2>1 DEF ScheduleInv, TemplatesKept, TemplateKept
  <2>3. template[u].status \in InUse /\ template'[u].nextRunAt >= template[u].nextRunAt
    <3>1. CASE u = t
      BY <1>2, <2>2, <3>1 DEF InUse
    <3>2. CASE u # t
      BY <1>2, <3>2, TemplateTypes DEF InUse
    <3>3. QED
      BY <3>1, <3>2
  <2>4. d < template[u].nextRunAt
    BY <2>1, <2>3 DEF ScheduleInv, ScheduleAheadOfRuns, InUse
  <2>5. d \in Nat /\ template[u].nextRunAt \in Nat /\ template'[u].nextRunAt \in Nat
    BY <1>1, LimitsPositive DEF Days, Template, ScheduleInv, TypeOK
  <2>6. QED
    BY <2>3, <2>4, <2>5
<1>7. QED
  BY <1>3, <1>4, <1>5, <1>6 DEF ScheduleInv

\* What processes know does not depend on how the rows of templates change.
LEMMA ProcessesKnownStay ==
    ASSUME ScheduleInv, UNCHANGED <<run, process>>, TemplatesStay(template, template')
    PROVE  ProcessesKnown'
<1>1. ASSUME NEW p \in Processes PROVE Known(process'[p], run', template')
  <2>1. process[p] \in Process /\ Known(process[p], run, template)
    BY DEF ScheduleInv, TypeOK, ProcessesKnown
  <2>2. Known(process[p], run, template')
    BY <2>1, KnownStays, RowsStayRefl
  <2>3. QED
    BY <2>2
<1>2. QED
  BY <1>1 DEF ProcessesKnown

-----------------------------------------------------------------------------

\* A change of a template's status keeps it.
LEMMA TransitionSchedule ==
    ASSUME ScheduleInv, NEW t \in Templates, NEW allowed, NEW status,
           Transition(t, allowed, status), "NONE" \notin allowed,
           status \in {"ACTIVE", "PAUSED", "ARCHIVED"},
           status \in InUse => allowed \subseteq InUse
    PROVE  ScheduleInv'
<1> DEFINE row == [template[t] EXCEPT !.status = status]
<1>1. /\ template[t].status \in allowed
      /\ template' = [template EXCEPT ![t] = row]
      /\ UNCHANGED <<today, run, created, documents, process>>
  BY DEF Transition
<1>2. template[t].status # "NONE"
  BY <1>1
<1>3. /\ row \in Template /\ row.status = status
      /\ row.schedule = template[t].schedule /\ row.nextRunAt = template[t].nextRunAt
  BY TemplateTypes DEF Template
<1> HIDE DEF row
<1>4. process' \in [Processes -> Process]
  BY <1>1 DEF ScheduleInv, TypeOK
<1>5. TemplatesStay(template, template') => ProcessesKnown'
  BY <1>1, ProcessesKnownStay
<1>6. row.nextRunAt >= template[t].nextRunAt
  BY <1>3, TemplateTypes
<1>7. row.status \in InUse => template[t].status \in InUse \cup {"NONE"}
  BY <1>1, <1>3
<1>8. /\ row.schedule \in Schedules /\ row.status # "NONE"
      /\ row.nextRunAt >= row.schedule.start
      /\ (row.nextRunAt - row.schedule.start) % row.schedule.interval = 0
  BY <1>2, <1>3, TemplateTypes
<1>9. QED
  BY <1>1, <1>3, <1>4, <1>5, <1>6, <1>7, <1>8, TemplateStep

\* Creating a template keeps it.
LEMMA CreateTemplateSchedule ==
    ASSUME ScheduleInv, NEW t \in Templates, NEW s \in Schedules, CreateTemplate(t, s)
    PROVE  ScheduleInv'
<1> DEFINE row == [status |-> "DRAFT", schedule |-> s, nextRunAt |-> s.start]
<1>1. /\ template[t].status = "NONE"
      /\ template' = [template EXCEPT ![t] = row]
      /\ UNCHANGED <<today, run, created, documents, process>>
  BY DEF CreateTemplate
<1>2. s.start \in Nat /\ s.interval \in Nat \ {0}
  BY ScheduleTypes
<1>3. /\ row \in Template /\ row.status = "DRAFT"
      /\ row.schedule = s /\ row.nextRunAt = s.start
  BY <1>2 DEF Template
<1> HIDE DEF row
<1>4. process' \in [Processes -> Process]
  BY <1>1 DEF ScheduleInv, TypeOK
<1>5. TemplatesStay(template, template') => ProcessesKnown'
  BY <1>1, ProcessesKnownStay
<1>6. 0 \in Int /\ s.start - s.start = 0
  BY <1>2
<1>7. 0 % s.interval = 0
  BY <1>2
<1>8. /\ row.nextRunAt >= row.schedule.start
      /\ (row.nextRunAt - row.schedule.start) % row.schedule.interval = 0
  BY <1>2, <1>3, <1>6, <1>7
<1>9. template[t].status \notin InUse
  BY <1>1 DEF InUse
<1>10. QED
  BY <1>1, <1>3, <1>4, <1>5, <1>8, <1>9, TemplateStep

\* Updating a template keeps it.
LEMMA UpdateTemplateSchedule ==
    ASSUME ScheduleInv, NEW t \in Templates, NEW s \in Schedules, UpdateTemplate(t, s)
    PROVE  ScheduleInv'
<1>1. PICK next \in NotBefore(s, template[t].nextRunAt) :
        template' = [template EXCEPT ![t].schedule = s, ![t].nextRunAt = next]
  BY DEF UpdateTemplate
<1> DEFINE row == [template[t] EXCEPT !.schedule = s, !.nextRunAt = next]
<1>2. /\ template[t].status \in InUse
      /\ template' = [template EXCEPT ![t] = row]
      /\ UNCHANGED <<today, run, created, documents, process>>
  BY <1>1, TemplateTypes DEF UpdateTemplate, InUse, ScheduleInv, TypeOK
<1>3. s.start \in Nat /\ s.interval \in Nat \ {0} /\ template[t].nextRunAt \in Nat
  BY ScheduleTypes, TemplateTypes
<1>4. /\ next \in Nat /\ next >= s.start /\ next >= template[t].nextRunAt
      /\ (next - s.start) % s.interval = 0
  BY <1>1, <1>3 DEF NotBefore, Occurs
<1>5. /\ row \in Template /\ row.status = template[t].status
      /\ row.schedule = s /\ row.nextRunAt = next
  BY <1>4, TemplateTypes DEF Template
<1> HIDE DEF row
<1>6. process' \in [Processes -> Process]
  BY <1>2 DEF ScheduleInv, TypeOK
<1>7. TemplatesStay(template, template') => ProcessesKnown'
  BY <1>2, ProcessesKnownStay
<1>8. row.status # "NONE"
  BY <1>2, <1>5 DEF InUse
<1>9. QED
  BY <1>2, <1>4, <1>5, <1>6, <1>7, <1>8, TemplateStep

\* Every operation on templates keeps it.
LEMMA TemplateNextSchedule ==
    ASSUME ScheduleInv, TemplateNext
    PROVE  ScheduleInv'
<1>1. ASSUME NEW t \in Templates, NEW s \in Schedules,
             CreateTemplate(t, s) \/ UpdateTemplate(t, s)
      PROVE  ScheduleInv'
  BY <1>1, CreateTemplateSchedule, UpdateTemplateSchedule
<1>2. ASSUME NEW t \in Templates, Activate(t) \/ Pause(t) \/ Resume(t) \/ Archive(t)
      PROVE  ScheduleInv'
  <2>1. CASE Activate(t)
    BY <2>1, TransitionSchedule DEF Activate, InUse
  <2>2. CASE Pause(t)
    BY <2>2, TransitionSchedule DEF Pause, InUse
  <2>3. CASE Resume(t)
    BY <2>3, TransitionSchedule DEF Resume, InUse
  <2>4. CASE Archive(t)
    BY <2>4, TransitionSchedule DEF Archive, InUse
  <2>5. QED
    BY <1>2, <2>1, <2>2, <2>3, <2>4
<1>3. QED
  BY <1>1, <1>2 DEF TemplateNext

-----------------------------------------------------------------------------
(* Moving the schedule, and running by hand. *)

\* Where the schedule goes: one interval on, or complete where it stands.
LEMMA ScheduledAfterTypes ==
    ASSUME NEW row \in Template, row.schedule \in Schedules, NEW d \in Nat
    PROVE  /\ ScheduledAfter(row, d) \in Template
           /\ ScheduledAfter(row, d).schedule = row.schedule
           /\ \/ /\ ScheduledAfter(row, d).status = "COMPLETED"
                 /\ ScheduledAfter(row, d).nextRunAt = row.nextRunAt
              \/ /\ ScheduledAfter(row, d).status = row.status
                 /\ ScheduledAfter(row, d).nextRunAt = d + row.schedule.interval
<1>1. d + row.schedule.interval \in Nat
  BY ScheduleTypes
<1> DEFINE next == NextOccurrence(row.schedule, d)
<1>2. next = None \/ (next = d + row.schedule.interval /\ next # None)
  BY <1>1, KeysAreNoDays DEF NextOccurrence
<1>3. ScheduledAfter(row, d) = IF next = None THEN [row EXCEPT !.status = "COMPLETED"]
                                              ELSE [row EXCEPT !.nextRunAt = next]
  BY DEF ScheduledAfter
<1> HIDE DEF next
<1>4. CASE next = None
  BY <1>3, <1>4 DEF Template
<1>5. CASE next # None
  BY <1>1, <1>2, <1>3, <1>5 DEF Template
<1>6. QED
  BY <1>4, <1>5

\* The row after the schedule moved past day d, from nextRunAt on.
LEMMA MovedRow ==
    ASSUME ScheduleInv, NEW t \in Templates, template[t].status # "NONE",
           NEW d \in Nat, d >= template[t].nextRunAt,
           (d - template[t].nextRunAt) % template[t].schedule.interval = 0,
           NEW row, row = ScheduledAfter(template[t], d)
    PROVE  /\ row \in Template /\ row.status # "NONE"
           /\ row.schedule = template[t].schedule /\ row.schedule \in Schedules
           /\ row.nextRunAt >= row.schedule.start
           /\ (row.nextRunAt - row.schedule.start) % row.schedule.interval = 0
           /\ row.status \in InUse => template[t].status \in InUse /\ row.nextRunAt > d
           /\ row.nextRunAt >= template[t].nextRunAt
           /\ row.nextRunAt <= d + row.schedule.interval
<1> DEFINE s == template[t].schedule
           next == template[t].nextRunAt
<1>1. /\ template[t] \in Template /\ s \in Schedules /\ next \in Nat
      /\ next >= s.start /\ (next - s.start) % s.interval = 0
  BY TemplateTypes
<1>2. s.start \in Nat /\ s.interval \in Nat \ {0}
  BY <1>1, ScheduleTypes
<1>3. /\ row \in Template /\ row.schedule = s
      /\ \/ row.status = "COMPLETED" /\ row.nextRunAt = next
         \/ row.status = template[t].status /\ row.nextRunAt = d + s.interval
  BY <1>1, ScheduledAfterTypes
<1>4. ((d + s.interval) - s.start) % s.interval = 0
  <2> DEFINE a == next - s.start
             b == d - next
             n == s.interval
  <2>1. a \in Nat /\ b \in Nat /\ n \in Nat \ {0} /\ a % n = 0 /\ b % n = 0
    BY <1>1, <1>2
  <2>2. (d + n) - s.start = (a + b) + n
    BY <1>1, <1>2
  <2> HIDE DEF a, b, n
  <2>3. PICK k \in Nat : a = n * k
    BY <2>1, Multiple
  <2>4. PICK m \in Nat : b = n * m
    BY <2>1, Multiple
  <2>5. k + m \in Nat /\ a + b = n * (k + m) /\ a + b \in Nat
    BY <2>1, <2>3, <2>4
  <2>6. (a + b) % n = 0
    BY <2>1, <2>5, Multiple
  <2>7. ((a + b) + n) % n = 0
    BY <2>1, <2>5, <2>6, NextMultiple
  <2>8. QED
    BY <2>2, <2>7 DEF n
<1> HIDE DEF s, next
<1>5. CASE row.status = "COMPLETED" /\ row.nextRunAt = next
  <2>1. row.nextRunAt <= d + s.interval
    BY <1>1, <1>2, <1>5 DEF next
  <2>2. row.status \notin InUse /\ row.status # "NONE"
    BY <1>5 DEF InUse
  <2>3. QED
    BY <1>1, <1>3, <1>5, <2>1, <2>2 DEF s, next
<1>6. CASE row.status = template[t].status /\ row.nextRunAt = d + s.interval
  <2>1. /\ row.nextRunAt >= next /\ row.nextRunAt > d /\ row.nextRunAt >= s.start
        /\ row.nextRunAt <= d + s.interval
    BY <1>1, <1>2, <1>6 DEF next
  <2>2. QED
    BY <1>1, <1>3, <1>4, <1>6, <2>1 DEF s, next
<1>7. QED
  BY <1>3, <1>5, <1>6

-----------------------------------------------------------------------------
\* A legacy request moves the schedule past the occurrence it generated.
LEMMA AdvanceSchedule ==
    ASSUME ScheduleInv, NEW q \in Requests, AdvanceAfterLegacyRun(q)
    PROVE  ScheduleInv'
<1> DEFINE s == process[q]
           t == s.template
           row == AdvanceFrom(template[t], s.occurrence)
<1>1. /\ s.phase = "advancing"
      /\ template' = [template EXCEPT ![t] = row]
      /\ process' = [process EXCEPT ![q] = Idle]
      /\ UNCHANGED <<today, run, created, documents>>
  BY DEF AdvanceAfterLegacyRun
<1>2. q \in Processes
  BY DEF Processes
<1>3. Known(s, run, template)
  BY <1>2 DEF ScheduleInv, ProcessesKnown
<1>4. t \in Templates /\ template[t].status # "NONE" /\ s.occurrence \in Days
  BY <1>1, <1>3 DEF Known
<1>5. s.occurrence \in Nat
  BY <1>4, LimitsPositive DEF Days
<1> HIDE DEF s, t
<1>6. /\ template[t] \in Template /\ template[t].nextRunAt \in Nat
      /\ template[t].schedule \in Schedules
      /\ template[t].nextRunAt >= template[t].schedule.start
      /\ (template[t].nextRunAt - template[t].schedule.start)
           % template[t].schedule.interval = 0
  BY <1>4, TemplateTypes
<1>7. /\ row \in Template /\ row.status # "NONE" /\ row.schedule \in Schedules
      /\ row.nextRunAt >= row.schedule.start
      /\ (row.nextRunAt - row.schedule.start) % row.schedule.interval = 0
      /\ row.status \in InUse => template[t].status \in InUse
      /\ row.nextRunAt >= template[t].nextRunAt
  <2>1. CASE template[t].nextRunAt = s.occurrence
    <3>1. row = ScheduledAfter(template[t], s.occurrence)
      BY <2>1 DEF AdvanceFrom
    <3>2. template[t].schedule.interval \in Nat \ {0}
      BY <1>6, ScheduleTypes
    <3>3. s.occurrence - template[t].nextRunAt = 0 /\ s.occurrence >= template[t].nextRunAt
      BY <1>5, <2>1
    <3>4. 0 % template[t].schedule.interval = 0
      BY <3>2
    <3>5. (s.occurrence - template[t].nextRunAt) % template[t].schedule.interval = 0
      BY <3>3, <3>4
    <3> HIDE DEF row
    <3>6. QED
      BY <1>4, <1>5, <3>1, <3>3, <3>5, MovedRow
  <2>2. CASE template[t].nextRunAt # s.occurrence
    <3>1. row = template[t]
      BY <2>2 DEF AdvanceFrom
    <3> HIDE DEF row
    <3>2. QED
      BY <1>4, <1>6, <3>1
  <2>3. QED
    BY <2>1, <2>2
<1> HIDE DEF row
<1>8. TemplatesStay(template, template')
  BY <1>1, <1>7 DEF TemplatesStay, ScheduleInv, TypeOK
<1>9. process' \in [Processes -> Process] /\ ProcessesKnown'
  <2>1. Idle \in Process /\ Known(Idle, run', template')
    BY IdleKnown
  <2>2. RowsStay(run, run')
    BY <1>1, RowsStayRefl
  <2>3. QED
    BY <1>1, <1>2, <1>8, <2>1, <2>2, ProcessStep DEF ScheduleInv
<1>10. QED
  BY <1>1, <1>4, <1>7, <1>9, TemplateStep

-----------------------------------------------------------------------------
\* A request creates a run of its own, or takes up the one of its key.
LEMMA RunNowSchedule ==
    ASSUME ScheduleInv, NEW q \in Requests, NEW t \in Templates,
           NEW x \in Days \cup ManualKeys, NEW phase \in {"executing", "legacy"},
           phase = "legacy" => x = process[q].occurrence /\ x \in Days,
           RunNow(q, t, x, phase)
    PROVE  ScheduleInv'
<1> DEFINE r == <<t, x>>
           new == [NoRun EXCEPT !.status = "PENDING", !.byKey = TRUE]
           s == [Idle EXCEPT !.phase = phase, !.todo = <<r>>, !.template = t,
                             !.occurrence = process[q].occurrence]
<1>1. q \in Processes /\ r \in Runs
  BY DEF Processes, Runs
<1>2. /\ template[t].status = "ACTIVE"
      /\ \/ /\ run[r].status = "NONE" /\ run' = [run EXCEPT ![r] = new]
            /\ created' = Append(created, r)
         \/ /\ run[r].byKey /\ ~Settled(r)
            /\ UNCHANGED <<run, created>>
      /\ process' = [process EXCEPT ![q] = s]
      /\ UNCHANGED <<today, template, documents>>
  BY DEF RunNow
<1>3. new \in Run /\ new.status = "PENDING" /\ new.byKey
  BY NoRunTyped DEF Run
<1>4. /\ s.phase = phase /\ s.todo = <<r>> /\ s.failure = "none" /\ s.template = t
      /\ s.occurrence = process[q].occurrence
  BY DEF Idle
<1>5. s \in Process
  <2>1. <<r>> \in Seq(Runs)
    BY <1>1
  <2>2. process[q].occurrence \in Nat
    BY <1>1 DEF ScheduleInv, TypeOK, Process
  <2> HIDE DEF r
  <2>3. QED
    <3>1. Idle \in Process
      BY IdleKnown
    <3>2. QED
      BY <2>1, <2>2, <3>1 DEF Process
<1> HIDE DEF new, s
<1>6. run \in [Runs -> Run] /\ created \in Seq(Runs)
  BY DEF ScheduleInv, TypeOK
\* Rows that exist by key are not of status NONE.
<1>7. CASE run[r].status = "NONE" /\ run' = [run EXCEPT ![r] = new]
           /\ created' = Append(created, r)
  <2>1. run' \in [Runs -> Run] /\ created' \in Seq(Runs)
    BY <1>1, <1>3, <1>6, <1>7
  <2>2. run'[r] = new /\ \A y \in Runs \ {r} : run'[y] = run[y]
    BY <1>1, <1>6, <1>7
  <2>3. RowsStay(run, run')
    BY <1>7, <2>2 DEF RowsStay
  <2>4. Known(s, run', template')
    <3>1. \A n \in 1 .. Len(s.todo) : run'[s.todo[n]].status # "NONE"
      BY <1>3, <1>4, <2>2
    <3>2. s.todo # <<>> /\ template'[t].status # "NONE"
      BY <1>2, <1>4
    <3>3. QED
      BY <1>4, <3>1, <3>2 DEF Known
  <2>5. process' \in [Processes -> Process] /\ ProcessesKnown'
    <3>1. TemplatesStay(template, template')
      BY <1>2, TemplatesStayRefl
    <3>2. QED
      BY <1>1, <1>2, <1>5, <2>3, <2>4, <3>1, ProcessStep DEF ScheduleInv
  <2>6. TypeOK'
    BY <1>2, <2>1, <2>5 DEF ScheduleInv, TypeOK
  <2>7. TemplatesKept'
    <3>1. ASSUME NEW u \in Templates PROVE TemplateKept(u)'
      <4>1. TemplateKept(u)
        BY DEF ScheduleInv, TemplatesKept
      <4>2. u = t => template[u].status # "NONE"
        BY <1>2
      <4>3. u # t => \A y \in Days \cup ManualKeys : run'[<<u, y>>] = run[<<u, y>>]
        BY <2>2 DEF Runs
      <4>4. \A y \in Days \cup ManualKeys :
              run'[<<u, y>>].byKey => run'[<<u, y>>].status # "NONE"
        <5> TAKE y \in Days \cup ManualKeys
        <5>1. <<u, y>> \in Runs
          BY DEF Runs
        <5>2. CASE <<u, y>> = r
          BY <1>3, <2>2, <5>2
        <5>3. CASE <<u, y>> # r
          BY <2>2, <4>1, <5>1, <5>3 DEF TemplateKept
        <5>4. QED
          BY <5>2, <5>3
      <4>5. QED
        BY <1>2, <4>1, <4>2, <4>3, <4>4 DEF TemplateKept
    <3>2. QED
      BY <3>1 DEF TemplatesKept
  <2>8. ScheduleAheadOfRuns'
    <3> SUFFICES ASSUME NEW u \in Templates, NEW d \in Days,
                        template'[u].status \in {"DRAFT", "ACTIVE", "PAUSED"},
                        run'[<<u, d>>].status # "NONE", ~run'[<<u, d>>].byKey
                 PROVE  d < template'[u].nextRunAt
      BY DEF ScheduleAheadOfRuns
    <3>1. <<u, d>> \in Runs /\ <<u, d>> # r
      BY <1>3, <2>2 DEF Runs
    <3>2. run'[<<u, d>>] = run[<<u, d>>]
      BY <2>2, <3>1
    <3>3. QED
      BY <1>2, <3>2 DEF ScheduleInv, ScheduleAheadOfRuns
  <2>9. QED
    BY <2>5, <2>6, <2>7, <2>8 DEF ScheduleInv
<1>8. CASE run[r].byKey /\ ~Settled(r) /\ UNCHANGED <<run, created>>
  <2>1. run[r].status # "NONE"
    BY <1>8 DEF ScheduleInv, TemplatesKept, TemplateKept
  <2>2. Known(s, run, template)
    <3>1. \A n \in 1 .. Len(s.todo) : run[s.todo[n]].status # "NONE"
      BY <1>4, <2>1
    <3>2. s.todo # <<>> /\ template[t].status # "NONE"
      BY <1>2, <1>4
    <3>3. QED
      BY <1>4, <3>1, <3>2 DEF Known
  <2>3. UNCHANGED <<today, template, run, created, documents>>
    BY <1>2, <1>8
  <2>4. QED
    BY <1>1, <1>2, <1>5, <2>2, <2>3, ProcessOnly
<1>9. QED
  BY <1>2, <1>7, <1>8

-----------------------------------------------------------------------------
(* Requests and the selects of the worker. *)

\* A manual request, and the legacy request that reads the next occurrence
\* and then generates it.
LEMMA RequestSchedule ==
    ASSUME ScheduleInv, NEW q \in Requests, RequestNext(q)
    PROVE  ScheduleInv'
<1>0. q \in Processes
  BY DEF Processes
<1>1. ASSUME NEW t \in Templates, NEW k \in ManualKeys, RunManually(q, t, k)
      PROVE  ScheduleInv'
  <2>1. RunNow(q, t, k, "executing")
    BY <1>1 DEF RunManually
  <2>2. QED
    BY <2>1, RunNowSchedule
<1>2. ASSUME NEW t \in Templates, GenerateNowRead(q, t)
      PROVE  ScheduleInv'
  <2> DEFINE s == [Idle EXCEPT !.phase = "legacy", !.template = t,
                               !.occurrence = template[t].nextRunAt]
  <2>1. /\ template[t].status # "NONE" /\ template[t].nextRunAt \in Days
        /\ process' = [process EXCEPT ![q] = s]
        /\ UNCHANGED <<today, template, run, created, documents>>
    BY <1>2 DEF GenerateNowRead
  <2>2. s \in Process
    BY IdleKnown, TemplateTypes DEF Process
  <2>3. /\ s.phase = "legacy" /\ s.todo = <<>> /\ s.failure = "none"
        /\ s.template = t /\ s.occurrence = template[t].nextRunAt
    BY DEF Idle
  <2> HIDE DEF s
  <2>4. Known(s, run, template)
    BY <2>1, <2>3 DEF Known
  <2>5. QED
    BY <1>0, <2>1, <2>2, <2>4, ProcessOnly
<1>3. CASE GenerateNow(q)
  <2> DEFINE s == process[q]
             r == <<s.template, s.occurrence>>
             moved == [s EXCEPT !.phase = "advancing"]
  <2>1. s \in Process /\ Known(s, run, template)
    BY <1>0 DEF ScheduleInv, TypeOK, ProcessesKnown
  <2>2. s.phase = "legacy" /\ s.todo = <<>>
    BY <1>3 DEF GenerateNow
  <2>3. s.template \in Templates /\ template[s.template].status # "NONE" /\ s.occurrence \in Days
    BY <2>1, <2>2 DEF Known
  <2>4. \/ /\ run[r].status = "GENERATED"
           /\ process' = [process EXCEPT ![q] = moved]
           /\ UNCHANGED <<today, template, run, created, documents>>
        \/ RunNow(q, s.template, s.occurrence, "legacy")
    BY <1>3 DEF GenerateNow
  <2>5. CASE RunNow(q, s.template, s.occurrence, "legacy")
    BY <2>3, <2>5, RunNowSchedule
  <2>6. CASE /\ run[r].status = "GENERATED"
             /\ process' = [process EXCEPT ![q] = moved]
             /\ UNCHANGED <<today, template, run, created, documents>>
    <3> HIDE DEF s
    <3>1. moved \in Process
      BY <2>1 DEF Process
    <3>2. /\ moved.phase = "advancing" /\ moved.todo = <<>> /\ moved.failure = s.failure
          /\ moved.template = s.template /\ moved.occurrence = s.occurrence
      BY <2>1, <2>2 DEF Process
    <3>3. s.failure = "none"
      BY <2>1, <2>2 DEF Known
    <3> HIDE DEF moved
    <3>4. Known(moved, run, template)
      BY <2>3, <2>6, <3>2, <3>3 DEF Known
    <3>5. QED
      BY <1>0, <2>6, <3>1, <3>4, ProcessOnly
  <2>7. QED
    BY <2>4, <2>5, <2>6
<1>4. CASE AdvanceAfterLegacyRun(q)
  BY <1>4, AdvanceSchedule
<1>5. QED
  BY <1>1, <1>2, <1>3, <1>4 DEF RequestNext

-----------------------------------------------------------------------------
(* Workers. *)

\* The first elements of a sequence are a sequence of its elements.
LEMMA FirstOfType ==
    ASSUME NEW X, NEW s \in Seq(X), NEW n \in Nat
    PROVE  FirstOf(s, n) \in Seq(X)
<1> DEFINE m == IF n < Len(s) THEN n ELSE Len(s)
<1>1. m \in 0 .. Len(s)
  OBVIOUS
<1>2. FirstOf(s, n) = SubSeq(s, 1, m)
  BY DEF FirstOf
<1> HIDE DEF m
<1>3. \A i \in 1 .. m : s[i] \in X
  BY <1>1
<1>4. QED
  BY <1>1, <1>2, <1>3, SubSeqProperties

\* The runs to recover exist.
LEMMA SelectRecoverableSchedule ==
    ASSUME ScheduleInv, NEW w \in Workers, SelectRecoverable(w)
    PROVE  ScheduleInv'
<1> DEFINE known == {r \in Runs : Recoverable(r)}
           found == FirstOf(Selected(created, known), Limit)
           s == [Idle EXCEPT !.phase = "recovering", !.todo = found,
                             !.remaining = Limit - Len(found)]
<1>1. /\ process' = [process EXCEPT ![w] = s]
      /\ UNCHANGED <<today, template, run, created, documents>>
  BY DEF SelectRecoverable
<1>2. \A r \in known : r \in Runs /\ run[r].status # "NONE"
  BY DEF Recoverable
<1> HIDE DEF known
<1>3. found \in Seq(Runs \cap known)
  <2>1. Selected(created, known) \in Seq(Runs \cap known)
    BY SelectedType DEF ScheduleInv, TypeOK
  <2>2. QED
    BY <2>1, LimitsPositive, FirstOfType
<1> HIDE DEF found
<1>4. found \in Seq(Runs) /\ Len(found) \in Nat
  BY <1>3
<1>5. \A n \in 1 .. Len(found) : run[found[n]].status # "NONE"
  BY <1>2, <1>3
<1>6. s \in Process
  <2>1. Idle \in Process
    BY IdleKnown
  <2>2. Limit - Len(found) \in Int
    BY <1>4, LimitsPositive
  <2>3. QED
    BY <1>4, <2>1, <2>2 DEF Process
<1>7. s.phase = "recovering" /\ s.todo = found /\ s.failure = "none"
  BY DEF Idle
<1> HIDE DEF s
<1>8. Known(s, run, template)
  BY <1>5, <1>7 DEF Known
<1>9. w \in Processes
  BY DEF Processes
<1>10. QED
  BY <1>1, <1>6, <1>8, <1>9, ProcessOnly

\* Selecting the due templates keeps it.
LEMMA SelectDueSchedule ==
    ASSUME ScheduleInv, NEW w \in Workers, SelectDue(w)
    PROVE  ScheduleInv'
<1>1. PICK due \in FirstDue(DueTemplates, process[w].remaining) :
        process' = [process EXCEPT ![w].phase = "preparing", ![w].due = due]
  BY DEF SelectDue
<1> DEFINE old == process[w]
           s == [old EXCEPT !.phase = "preparing", !.due = due]
<1>2. w \in Processes
  BY DEF Processes
<1>3. old \in Process /\ Known(old, run, template)
  BY <1>2 DEF ScheduleInv, TypeOK, ProcessesKnown
<1>4. process' = [process EXCEPT ![w] = s]
  BY <1>1, <1>2 DEF ScheduleInv, TypeOK
<1>5. due \subseteq Templates
  BY <1>1 DEF FirstDue, DueTemplates
<1>6. UNCHANGED <<today, template, run, created, documents>>
  BY DEF SelectDue
<1> HIDE DEF old
<1>7. s \in Process
  BY <1>3, <1>5 DEF Process
<1>8. s.phase = "preparing" /\ s.todo = old.todo /\ s.failure = old.failure
  BY <1>3 DEF Process
<1> HIDE DEF s
<1>9. Known(s, run, template)
  BY <1>3, <1>8 DEF Known
<1>10. QED
  BY <1>2, <1>4, <1>6, <1>7, <1>9, ProcessOnly

\* Executing a prepared run keeps it.
LEMMA ExecutePreparedSchedule ==
    ASSUME ScheduleInv, NEW w \in Workers, ExecutePrepared(w)
    PROVE  ScheduleInv'
<1> DEFINE old == process[w]
           s == [old EXCEPT !.phase = "executing", !.due = {}]
           q == IF old.todo = <<>> THEN Idle ELSE s
<1>1. /\ process' = [process EXCEPT ![w] = q]
      /\ UNCHANGED <<today, template, run, created, documents>>
  BY DEF ExecutePrepared
<1>2. w \in Processes
  BY DEF Processes
<1>3. old \in Process /\ Known(old, run, template)
  BY <1>2 DEF ScheduleInv, TypeOK, ProcessesKnown
<1> HIDE DEF old
<1>4. s \in Process
  BY <1>3 DEF Process
<1>5. s.phase = "executing" /\ s.todo = old.todo /\ s.failure = old.failure
  BY <1>3 DEF Process
<1> HIDE DEF s
<1>6. Known(s, run, template)
  BY <1>3, <1>5 DEF Known
<1>7. q \in Process /\ Known(q, run, template)
  BY <1>4, <1>6, IdleKnown
<1> HIDE DEF q
<1>8. QED
  BY <1>1, <1>2, <1>7, ProcessOnly

\* The death of a process keeps it.
LEMMA DiesSchedule ==
    ASSUME ScheduleInv, NEW p \in Processes, Dies(p)
    PROVE  ScheduleInv'
<1> DEFINE dead == [Idle EXCEPT !.phase = "dead"]
<1>1. /\ process' = [process EXCEPT ![p] = dead]
      /\ UNCHANGED <<today, template, run, created, documents>>
  BY DEF Dies
<1>2. dead \in Process /\ Known(dead, run, template)
  BY IdleKnown
<1> HIDE DEF dead
<1>3. QED
  BY <1>1, <1>2, ProcessOnly

\* A new day keeps it.
LEMMA DayPassesSchedule ==
    ASSUME ScheduleInv, DayPasses \/ UNCHANGED vars
    PROVE  ScheduleInv'
<1>1. UNCHANGED <<template, run, created, documents, process>>
  BY DEF DayPasses, vars
<1>2. today' \in Days
  BY LimitsPositive DEF DayPasses, vars, ScheduleInv, TypeOK, Days
<1>3. TypeOK'
  BY <1>1, <1>2 DEF ScheduleInv, TypeOK
<1>4. TemplatesKept' /\ ProcessesKnown' /\ ScheduleAheadOfRuns'
  BY <1>1 DEF ScheduleInv, TemplatesKept, TemplateKept, ProcessesKnown, Known,
              ScheduleAheadOfRuns
<1>5. QED
  BY <1>3, <1>4 DEF ScheduleInv

-----------------------------------------------------------------------------
(* Batches. *)

\* resolveDueOccurrences: a batch is not empty, its latest day is an
\* occurrence, and every occurrence up to that day is in it.
LEMMA BatchTypes ==
    ASSUME ScheduleInv, NEW s \in Schedules, NEW first \in Nat, first <= today,
           NEW limit \in Int, limit > 0,
           NEW latest, latest = Latest(s, first, limit)
    PROVE  /\ Batch(s, first, limit) \subseteq first .. latest
           /\ latest \in first .. today
           /\ (latest - first) % s.interval = 0
           /\ \A d \in first .. latest :
                ((d - first) % s.interval = 0 /\ (d = first \/ Within(s, d)))
                  => d \in Batch(s, first, limit)
<1> DEFINE batch == Batch(s, first, limit)
           n == s.interval
<1>1. today \in Nat /\ n \in Nat \ {0}
  BY ScheduleTypes, LimitsPositive DEF ScheduleInv, TypeOK, Days
<1>2. \A d : d \in batch <=>
        /\ d \in first .. today /\ (d - first) % n = 0 /\ (d = first \/ Within(s, d))
        /\ (d - first) \div n < limit
  BY DEF Batch, Due
<1> HIDE DEF batch, n
<1>3. first \in batch
  <2>1. first - first = 0 /\ 0 % n = 0 /\ 0 \div n = 0
    BY <1>1
  <2>2. QED
    BY <1>1, <1>2, <2>1
<1>4. batch \subseteq Nat /\ \A d \in batch : d <= today
  BY <1>1, <1>2
<1>5. \E d \in batch : \A e \in batch : e <= d
  BY <1>1, <1>3, <1>4, Greatest
<1>6. latest \in batch /\ \A e \in batch : e <= latest
  <2>1. latest = CHOOSE d \in batch : \A e \in batch : e <= d
    BY DEF Latest, batch
  <2>2. QED
    BY <1>5, <2>1
<1>7. latest \in first .. today /\ (latest - first) % n = 0
      /\ (latest - first) \div n < limit
  BY <1>2, <1>6
<1>8. batch \subseteq first .. latest
  BY <1>2, <1>6, <1>7
<1>9. ASSUME NEW d \in first .. latest, (d - first) % n = 0, d = first \/ Within(s, d)
      PROVE  d \in batch
  <2>1. d - first \in Nat /\ latest - first \in Nat /\ d - first <= latest - first
    BY <1>1, <1>7
  <2>2. (d - first) \div n <= (latest - first) \div n
    BY <1>1, <2>1, QuotientsOrdered
  <2>3. (d - first) \div n \in Int /\ (latest - first) \div n \in Int
    BY <1>1, <2>1
  <2>4. (d - first) \div n < limit
    BY <1>7, <2>2, <2>3
  <2>5. d \in first .. today
    BY <1>1, <1>7
  <2>6. QED
    BY <1>2, <1>9, <2>4, <2>5
<1>10. QED
  BY <1>7, <1>8, <1>9 DEF batch, n

\* The order in which the runs of a batch are created.
LEMMA InOrderType ==
    ASSUME NEW t \in Templates, NEW skipped, NEW pending
    PROVE  /\ InOrder(t, skipped, pending) \in Seq(Runs)
           /\ InOrder(t, skipped, pending) \in Seq({t} \X (skipped \cup pending))
<1> DEFINE all == [d \in Days |-> <<t, d>>]
           R == Runs \cap ({t} \X (skipped \cup pending))
<1>1. all \in Seq(Runs)
  <2>1. all = [d \in 1 .. MaxDay |-> <<t, d>>]
    BY DEF Days
  <2>2. \A d \in 1 .. MaxDay : <<t, d>> \in Runs
    BY DEF Runs, Days
  <2>3. QED
    BY <2>1, <2>2, LimitsPositive, IsASeq
<1> HIDE DEF all
<1>2. ASSUME NEW S \in SUBSET (skipped \cup pending) PROVE Selected(all, {t} \X S) \in Seq(R)
  <2>1. Selected(all, {t} \X S) \in Seq(Runs \cap ({t} \X S))
    BY <1>1, SelectedType
  <2>2. Runs \cap ({t} \X S) \subseteq R
    OBVIOUS
  <2> HIDE DEF R
  <2>3. QED
    BY <2>1, <2>2, SeqMonotonic
<1>3. InOrder(t, skipped, pending) = Selected(all, {t} \X skipped) \o Selected(all, {t} \X pending)
  BY DEF InOrder, all
<1>4. Selected(all, {t} \X skipped) \in Seq(R) /\ Selected(all, {t} \X pending) \in Seq(R)
  BY <1>2
<1>5. R \subseteq Runs /\ R \subseteq {t} \X (skipped \cup pending)
  OBVIOUS
<1> HIDE DEF R
<1>6. InOrder(t, skipped, pending) \in Seq(R)
  BY <1>3, <1>4, ConcatProperties
<1>7. QED
  BY <1>5, <1>6, SeqMonotonic

\* Rows of a batch that was prepared.
LEMMA PreparedRows ==
    ASSUME ScheduleInv, NEW t \in Templates, NEW batch, NEW pending, pending \subseteq batch,
           batch \subseteq Days,
           ~Collides(t, batch), Prepared(t, batch \ pending, pending)
    PROVE  /\ run' \in [Runs -> Run] /\ created' \in Seq(Runs)
           /\ \A d \in batch : run'[<<t, d>>].status # "NONE" /\ ~run'[<<t, d>>].byKey
           /\ \A r \in Runs : ~(r[1] = t /\ r[2] \in batch) => run'[r] = run[r]
           /\ RowsStay(run, run')
<1> DEFINE skipped == batch \ pending
<1>1. /\ run' = [r \in Runs |->
             CASE r[1] = t /\ r[2] \in skipped -> [NoRun EXCEPT !.status = "SKIPPED"]
               [] r[1] = t /\ r[2] \in pending -> [NoRun EXCEPT !.status = "PENDING"]
               [] OTHER -> run[r]]
      /\ created' = created \o InOrder(t, skipped, pending)
  BY DEF Prepared
<1>2. /\ [NoRun EXCEPT !.status = "SKIPPED"] \in Run
      /\ [NoRun EXCEPT !.status = "PENDING"] \in Run
      /\ [NoRun EXCEPT !.status = "SKIPPED"].status = "SKIPPED"
      /\ [NoRun EXCEPT !.status = "PENDING"].status = "PENDING"
      /\ ~[NoRun EXCEPT !.status = "SKIPPED"].byKey
      /\ ~[NoRun EXCEPT !.status = "PENDING"].byKey
  BY NoRunTyped DEF Run, NoRun
<1>3. \A r \in Runs : r[1] = t /\ r[2] \in batch =>
        run'[r] \in {[NoRun EXCEPT !.status = "SKIPPED"], [NoRun EXCEPT !.status = "PENDING"]}
  BY <1>1
<1>4. \A r \in Runs : ~(r[1] = t /\ r[2] \in batch) => run'[r] = run[r]
  BY <1>1
<1>5. run' = [r \in Runs |-> run'[r]]
  BY <1>1
<1>6. ASSUME NEW r \in Runs PROVE run'[r] \in Run
  BY <1>2, <1>3, <1>4 DEF ScheduleInv, TypeOK
<1>7. created' \in Seq(Runs)
  BY <1>1, InOrderType, ConcatProperties DEF ScheduleInv, TypeOK
<1>8. ASSUME NEW d \in batch PROVE run'[<<t, d>>].status # "NONE" /\ ~run'[<<t, d>>].byKey
  <2>1. <<t, d>> \in Runs /\ <<t, d>>[1] = t /\ <<t, d>>[2] = d
    BY DEF Runs
  <2>2. QED
    BY <1>2, <1>3, <2>1
<1>9. RowsStay(run, run')
  <2> SUFFICES ASSUME NEW r \in Runs, run[r].status # "NONE" PROVE run'[r] = run[r]
    BY DEF RowsStay
  <2>1. CASE r[1] = t /\ r[2] \in batch
    <3>1. r = <<t, r[2]>>
      BY <2>1 DEF Runs
    <3>2. QED
      BY <2>1, <3>1 DEF Collides
  <2>2. QED
    BY <1>4, <2>1
<1>10. QED
  BY <1>4, <1>5, <1>6, <1>7, <1>8, <1>9

-----------------------------------------------------------------------------
(* Preparing a batch. *)

\* What preparing template t does, when it is due and nothing collides.
PreparesBatch(w, t, batch, pending, latest) ==
    /\ process[w].phase = "preparing"
    /\ pending \subseteq batch /\ ~Collides(t, batch)
    /\ Prepared(t, batch \ pending, pending)
    /\ template' = [template EXCEPT ![t] = ScheduledAfter(template[t], latest)]
    /\ process' = [process EXCEPT ![w].due = @ \ {t},
                                  ![w].todo = @ \o InOrder(t, {}, pending)]
    /\ UNCHANGED <<today, documents>>

\* A step of PrepareScheduled leaves the template, or prepares the batch that
\* starts with its next occurrence.
LEMMA PrepareCases ==
    ASSUME ScheduleInv, NEW w \in Workers, NEW t \in Templates, PrepareScheduled(w, t)
    PROVE  \/ /\ process' = [process EXCEPT ![w].due = @ \ {t}]
              /\ UNCHANGED <<today, template, run, created, documents>>
           \/ /\ template[t].status = "ACTIVE"
              /\ \E batch, pending, latest :
                   /\ PreparesBatch(w, t, batch, pending, latest)
                   /\ batch \subseteq template[t].nextRunAt .. latest
                   /\ latest \in template[t].nextRunAt .. today
                   /\ (latest - template[t].nextRunAt) % template[t].schedule.interval = 0
                   /\ \A d \in template[t].nextRunAt .. latest :
                        ((d - template[t].nextRunAt) % template[t].schedule.interval = 0
                         /\ (d = template[t].nextRunAt \/ Within(template[t].schedule, d)))
                           => d \in batch
<1> DEFINE row == template[t]
           left == process[w].remaining - Len(process[w].todo)
           batch == Batch(row.schedule, row.nextRunAt, left)
           pending == Generated(row.schedule, row.nextRunAt, left)
           latest == Latest(row.schedule, row.nextRunAt, left)
           Leave == /\ process' = [process EXCEPT ![w].due = @ \ {t}]
                    /\ UNCHANGED <<template, run, created>>
<1>1. /\ process[w].phase = "preparing" /\ left > 0 /\ UNCHANGED <<today, documents>>
      /\ \/ Leave
         \/ /\ t \in DueTemplates /\ ~Collides(t, batch)
            /\ Prepared(t, batch \ pending, pending)
            /\ template' = [template EXCEPT ![t] = ScheduledAfter(row, latest)]
            /\ process' = [process EXCEPT ![w].due = @ \ {t},
                                          ![w].todo = @ \o InOrder(t, {}, pending)]
  BY DEF PrepareScheduled
<1>2. CASE Leave
  BY <1>1, <1>2
<1>3. CASE ~Leave
  <2>1. /\ t \in DueTemplates /\ ~Collides(t, batch)
        /\ Prepared(t, batch \ pending, pending)
        /\ template' = [template EXCEPT ![t] = ScheduledAfter(row, latest)]
        /\ process' = [process EXCEPT ![w].due = @ \ {t},
                                      ![w].todo = @ \o InOrder(t, {}, pending)]
    BY <1>1, <1>3
  <2>2. row.status = "ACTIVE" /\ row.nextRunAt <= today
    BY <2>1 DEF DueTemplates
  <2>3. row.schedule \in Schedules /\ row.nextRunAt \in Nat
    BY <2>2, TemplateTypes
  <2>4. left \in Int
    <3>1. process[w] \in Process
      BY DEF Processes, ScheduleInv, TypeOK
    <3>2. process[w].remaining \in Int /\ Len(process[w].todo) \in Nat
      BY <3>1 DEF Process
    <3>3. QED
      BY <3>2
  <2>5. pending \subseteq batch
    BY GeneratedInBatch
  <2>6. /\ batch \subseteq row.nextRunAt .. latest
        /\ latest \in row.nextRunAt .. today
        /\ (latest - row.nextRunAt) % row.schedule.interval = 0
        /\ \A d \in row.nextRunAt .. latest :
             ((d - row.nextRunAt) % row.schedule.interval = 0
               /\ (d = row.nextRunAt \/ Within(row.schedule, d))) => d \in batch
    <3> HIDE DEF left, row
    <3>1. QED
      BY <1>1, <2>2, <2>3, <2>4, BatchTypes
  <2> HIDE DEF batch, pending, latest
  <2>7. PreparesBatch(w, t, batch, pending, latest)
    BY <1>1, <2>1, <2>5 DEF PreparesBatch
  <2>8. QED
    BY <2>2, <2>6, <2>7
<1>4. QED
  BY <1>2, <1>3

\* The runs a worker prepared are its next ones to execute.
LEMMA PreparesProcess ==
    ASSUME ScheduleInv, NEW w \in Workers, NEW t \in Templates,
           NEW batch, NEW pending, NEW latest,
           PreparesBatch(w, t, batch, pending, latest), batch \subseteq Days,
           TemplatesStay(template, template')
    PROVE  process' \in [Processes -> Process] /\ ProcessesKnown'
<1> DEFINE old == process[w]
           more == InOrder(t, {}, pending)
           q == [old EXCEPT !.due = @ \ {t}, !.todo = @ \o more]
<1>1. w \in Processes
  BY DEF Processes
<1>2. old \in Process /\ Known(old, run, template)
  BY <1>1 DEF ScheduleInv, TypeOK, ProcessesKnown
<1>3. process' = [process EXCEPT ![w] = q]
  BY <1>1 DEF PreparesBatch, ScheduleInv, TypeOK
<1>4. RowsStay(run, run') /\ \A d \in batch : run'[<<t, d>>].status # "NONE"
  BY PreparedRows DEF PreparesBatch
<1>5. more \in Seq(Runs) /\ more \in Seq({t} \X pending)
  BY InOrderType
<1>6. pending \subseteq batch
  BY DEF PreparesBatch
<1> HIDE DEF old, more
<1>7. /\ q.phase = old.phase /\ q.todo = old.todo \o more /\ q.failure = old.failure
      /\ q.template = old.template /\ q.occurrence = old.occurrence
      /\ old.todo \in Seq(Runs)
  BY <1>2 DEF Process
<1>8. q \in Process
  <2>1. old.todo \o more \in Seq(Runs)
    BY <1>5, <1>7, ConcatProperties
  <2>2. old.due \ {t} \in SUBSET Templates
    BY <1>2 DEF Process
  <2>3. QED
    BY <1>2, <2>1, <2>2 DEF Process
<1> HIDE DEF q
<1>9. Known(old, run', template')
  BY <1>2, <1>4, KnownStays
<1>10. \A n \in 1 .. Len(q.todo) : run'[q.todo[n]].status # "NONE"
  <2> SUFFICES ASSUME NEW n \in 1 .. Len(q.todo) PROVE run'[q.todo[n]].status # "NONE"
    OBVIOUS
  <2>1. /\ Len(old.todo) \in Nat /\ Len(more) \in Nat
        /\ Len(q.todo) = Len(old.todo) + Len(more)
    BY <1>5, <1>7
  <2>2. CASE n <= Len(old.todo)
    <3>1. n \in 1 .. Len(old.todo) /\ q.todo[n] = old.todo[n]
      BY <1>5, <1>7, <2>1, <2>2
    <3>2. QED
      BY <1>9, <3>1 DEF Known
  <2>3. CASE n > Len(old.todo)
    <3>1. n - Len(old.todo) \in 1 .. Len(more)
      BY <2>1, <2>3
    <3>2. q.todo[n] = more[n - Len(old.todo)]
      BY <1>5, <1>7, <2>1, <2>3
    <3>3. more[n - Len(old.todo)] \in {t} \X pending
      BY <1>5, <3>1
    <3>4. QED
      BY <1>4, <1>6, <3>2, <3>3
  <2>4. QED
    BY <2>1, <2>2, <2>3
<1>11. Known(q, run', template')
  <2>1. old.phase \notin {"legacy", "advancing"}
    BY DEF PreparesBatch, old
  <2>2. QED
    BY <1>7, <1>9, <1>10, <2>1 DEF Known
<1>12. QED
  BY <1>1, <1>3, <1>4, <1>8, <1>11, ProcessStep DEF ScheduleInv

-----------------------------------------------------------------------------

\* Days a worker prepares lie on the calendar.
LEMMA BatchOnCalendar ==
    ASSUME ScheduleInv, NEW t \in Templates, template[t].status = "ACTIVE",
           NEW latest \in template[t].nextRunAt .. today
    PROVE  template[t].nextRunAt .. latest \subseteq Days /\ latest \in Nat
<1>1. /\ template[t].nextRunAt \in Nat /\ template[t].schedule \in Schedules
      /\ template[t].nextRunAt >= template[t].schedule.start
  BY TemplateTypes
<1>2. template[t].schedule.start \in Nat \ {0}
  BY <1>1, ScheduleTypes
<1>3. today \in 1 .. MaxDay /\ MaxDay \in Nat
  BY LimitsPositive DEF ScheduleInv, TypeOK, Days
<1>4. QED
  BY <1>1, <1>2, <1>3 DEF Days

\* Preparing a scheduled run keeps it.
LEMMA PrepareScheduledSchedule ==
    ASSUME ScheduleInv, NEW w \in Workers, NEW t \in Templates, PrepareScheduled(w, t)
    PROVE  ScheduleInv'
<1>1. CASE /\ process' = [process EXCEPT ![w].due = @ \ {t}]
           /\ UNCHANGED <<today, template, run, created, documents>>
  <2> DEFINE old == process[w]
             q == [old EXCEPT !.due = @ \ {t}]
  <2>1. w \in Processes
    BY DEF Processes
  <2>2. old \in Process /\ Known(old, run, template)
    BY <2>1 DEF ScheduleInv, TypeOK, ProcessesKnown
  <2>3. process' = [process EXCEPT ![w] = q]
    BY <1>1, <2>1 DEF ScheduleInv, TypeOK
  <2> HIDE DEF old
  <2>4. q \in Process
    BY <2>2 DEF Process
  <2>5. /\ q.phase = old.phase /\ q.todo = old.todo /\ q.failure = old.failure
        /\ q.template = old.template /\ q.occurrence = old.occurrence
    BY <2>2 DEF Process
  <2> HIDE DEF q
  <2>6. Known(q, run, template)
    BY <2>2, <2>5 DEF Known
  <2>7. QED
    BY <1>1, <2>1, <2>3, <2>4, <2>6, ProcessOnly
<1>2. ASSUME template[t].status = "ACTIVE", NEW batch, NEW pending, NEW latest,
             PreparesBatch(w, t, batch, pending, latest),
             batch \subseteq template[t].nextRunAt .. latest,
             latest \in template[t].nextRunAt .. today,
             (latest - template[t].nextRunAt) % template[t].schedule.interval = 0
      PROVE  ScheduleInv'
  <2> DEFINE row == ScheduledAfter(template[t], latest)
  <2>1. batch \subseteq Days /\ latest \in Nat /\ latest >= template[t].nextRunAt
    <3>1. template[t].nextRunAt \in Nat /\ today \in Nat
      BY TemplateTypes, LimitsPositive DEF ScheduleInv, TypeOK, Days
    <3>2. QED
      BY <1>2, <3>1, BatchOnCalendar
  <2>2. /\ pending \subseteq batch /\ ~Collides(t, batch)
        /\ Prepared(t, batch \ pending, pending)
        /\ template' = [template EXCEPT ![t] = row]
        /\ UNCHANGED <<today, documents>>
    BY <1>2 DEF PreparesBatch
  <2>3. /\ run' \in [Runs -> Run] /\ created' \in Seq(Runs)
        /\ \A d \in batch : run'[<<t, d>>].status # "NONE" /\ ~run'[<<t, d>>].byKey
        /\ \A r \in Runs : ~(r[1] = t /\ r[2] \in batch) => run'[r] = run[r]
        /\ RowsStay(run, run')
    BY <2>1, <2>2, PreparedRows
  <2>4. /\ row \in Template /\ row.status # "NONE"
        /\ row.schedule \in Schedules
        /\ row.nextRunAt >= row.schedule.start
        /\ (row.nextRunAt - row.schedule.start) % row.schedule.interval = 0
        /\ row.status \in InUse => row.nextRunAt > latest
        /\ row.nextRunAt >= template[t].nextRunAt
    BY <1>2, <2>1, MovedRow
  <2> HIDE DEF row
  <2>5. template \in [Templates -> Template]
    BY DEF ScheduleInv, TypeOK
  <2>6. /\ template' \in [Templates -> Template] /\ template'[t] = row
        /\ \A u \in Templates \ {t} : template'[u] = template[u]
    BY <2>2, <2>4, <2>5
  <2>7. TemplatesStay(template, template')
    BY <2>4, <2>6 DEF TemplatesStay
  <2>8. process' \in [Processes -> Process] /\ ProcessesKnown'
    BY <1>2, <2>1, <2>7, PreparesProcess
  <2>9. TypeOK'
    BY <2>2, <2>3, <2>6, <2>8 DEF ScheduleInv, TypeOK
  <2>10. TemplatesKept'
    <3>1. ASSUME NEW u \in Templates PROVE TemplateKept(u)'
      <4>1. TemplateKept(u)
        BY DEF ScheduleInv, TemplatesKept
      <4>2. CASE u = t
        <5>1. ASSUME NEW x \in Days \cup ManualKeys, run'[<<t, x>>].byKey
              PROVE  run'[<<t, x>>].status # "NONE"
          <6>1. <<t, x>> \in Runs /\ <<t, x>>[1] = t /\ <<t, x>>[2] = x
            BY DEF Runs
          <6>2. x \notin batch
            BY <2>3, <5>1
          <6>3. run'[<<t, x>>] = run[<<t, x>>]
            BY <2>3, <6>1, <6>2
          <6>4. QED
            BY <4>1, <4>2, <5>1, <6>3 DEF TemplateKept
        <5>2. QED
          BY <2>4, <2>6, <4>2, <5>1 DEF TemplateKept
      <4>3. CASE u # t
        <5>1. \A x \in Days \cup ManualKeys : run'[<<u, x>>] = run[<<u, x>>]
          <6> SUFFICES ASSUME NEW x \in Days \cup ManualKeys
                       PROVE  run'[<<u, x>>] = run[<<u, x>>]
            OBVIOUS
          <6>1. <<u, x>> \in Runs /\ <<u, x>>[1] = u
            BY DEF Runs
          <6>2. QED
            BY <2>3, <4>3, <6>1
        <5>2. QED
          BY <2>6, <4>1, <4>3, <5>1 DEF TemplateKept
      <4>4. QED
        BY <4>2, <4>3
    <3>2. QED
      BY <3>1 DEF TemplatesKept
  <2>11. ScheduleAheadOfRuns'
    <3> SUFFICES ASSUME NEW u \in Templates, NEW d \in Days,
                        template'[u].status \in {"DRAFT", "ACTIVE", "PAUSED"},
                        run'[<<u, d>>].status # "NONE", ~run'[<<u, d>>].byKey
                 PROVE  d < template'[u].nextRunAt
      BY DEF ScheduleAheadOfRuns
    <3>1. <<u, d>> \in Runs /\ <<u, d>>[1] = u /\ <<u, d>>[2] = d /\ d \in Nat
      BY LimitsPositive DEF Runs, Days
    <3>2. CASE u = t /\ d \in batch
      <4>1. d <= latest /\ latest < row.nextRunAt
        BY <1>2, <2>4, <2>6, <3>2, TemplateTypes DEF InUse
      <4>2. row.nextRunAt \in Nat
        BY <2>4 DEF Template
      <4>3. QED
        BY <2>1, <2>6, <3>1, <3>2, <4>1, <4>2
    <3>3. CASE ~(u = t /\ d \in batch)
      <4>1. run[<<u, d>>].status # "NONE" /\ ~run[<<u, d>>].byKey
        BY <2>3, <3>1, <3>3
      <4>2. template[u].status \in {"DRAFT", "ACTIVE", "PAUSED"}
        BY <1>2, <2>6
      <4>3. d < template[u].nextRunAt
        BY <4>1, <4>2 DEF ScheduleInv, ScheduleAheadOfRuns
      <4>4. template[u].nextRunAt \in Nat /\ template'[u].nextRunAt \in Nat
        BY <2>5, <2>6 DEF Template
      <4>5. template'[u].nextRunAt >= template[u].nextRunAt
        BY <2>4, <2>6, <4>4
      <4>6. QED
        BY <3>1, <4>3, <4>4, <4>5
    <3>4. QED
      BY <3>2, <3>3
  <2>12. QED
    BY <2>8, <2>9, <2>10, <2>11 DEF ScheduleInv
<1>3. QED
  BY <1>1, <1>2, PrepareCases

\* Every step keeps it.
LEMMA ScheduleStep == ScheduleInv /\ [Next]_vars => ScheduleInv'
<1> SUFFICES ASSUME ScheduleInv, [Next]_vars PROVE ScheduleInv'
  OBVIOUS
<1>1. CASE TemplateNext
  BY <1>1, TemplateNextSchedule
<1>2. ASSUME NEW w \in Workers, WorkerNext(w) PROVE ScheduleInv'
  BY <1>2, SelectRecoverableSchedule, SelectDueSchedule, PrepareScheduledSchedule,
     ExecutePreparedSchedule DEF WorkerNext
<1>3. ASSUME NEW q \in Requests, RequestNext(q) PROVE ScheduleInv'
  BY <1>3, RequestSchedule
<1>4. ASSUME NEW p \in Processes, Execute(p) \/ RecordFailure(p) \/ Dies(p)
      PROVE  ScheduleInv'
  BY <1>4, ExecuteSchedule, RecordFailureSchedule, DiesSchedule
<1>5. ASSUME NEW r \in Runs, BackoffElapses(r) PROVE ScheduleInv'
  BY <1>5, BackoffSchedule
<1>6. CASE DayPasses \/ UNCHANGED vars
  BY <1>6, DayPassesSchedule
<1>7. QED
  BY <1>1, <1>2, <1>3, <1>4, <1>5, <1>6 DEF Next

\* The inductive invariant of the schedule holds.
THEOREM ScheduleInvariance == Spec => []ScheduleInv
<1>1. Init => ScheduleInv
  BY ScheduleInit
<1>2. ScheduleInv /\ [Next]_vars => ScheduleInv'
  BY ScheduleStep
<1>3. QED
  BY <1>1, <1>2, PTL DEF Spec

\* Rows, lists of runs and what processes remember keep their types.
THEOREM TypeCorrectness == Spec => []TypeOK
<1>1. ScheduleInv => TypeOK
  BY DEF ScheduleInv
<1>2. QED
  BY <1>1, ScheduleInvariance, PTL

\* Whatever the edits, pauses, workers and requests do, a template in use has
\* no run of its schedule at or behind its next occurrence.
THEOREM ScheduleStaysAhead == Spec => []ScheduleAheadOfRuns
<1>1. ScheduleInv => ScheduleAheadOfRuns
  BY DEF ScheduleInv
<1>2. QED
  BY <1>1, ScheduleInvariance, PTL

-----------------------------------------------------------------------------
(* No occurrence is lost. *)

\* What NoOccurrenceLost says of one template.
OccurrencesKept(t) ==
    template[t].status # "NONE" =>
      /\ template'[t].nextRunAt >= template[t].nextRunAt
      /\ template'[t].schedule = template[t].schedule =>
           \A d \in template[t].nextRunAt .. (template'[t].nextRunAt - 1) :
             d \in Days /\ Occurs(template[t].schedule, d)
               => run'[<<t, d>>].status # "NONE"

\* A template whose next run stays loses no occurrence.
LEMMA KeptWhereItStands ==
    ASSUME ScheduleInv, NEW t \in Templates,
           template'[t].nextRunAt = template[t].nextRunAt
    PROVE  OccurrencesKept(t)
<1>1. template[t].nextRunAt \in Nat
  BY TemplateTypes
<1>2. QED
  BY <1>1 DEF OccurrencesKept

\* The occurrences from nextRunAt to the one the schedule moves to are no
\* later than the day it moved past, and in step with it.
LEMMA OccurrencesPassed ==
    ASSUME ScheduleInv, NEW t \in Templates, template[t].status # "NONE",
           NEW latest \in Nat, latest >= template[t].nextRunAt,
           (latest - template[t].nextRunAt) % template[t].schedule.interval = 0,
           NEW row, row = ScheduledAfter(template[t], latest),
           NEW d \in template[t].nextRunAt .. (row.nextRunAt - 1),
           Occurs(template[t].schedule, d)
    PROVE  /\ d \in template[t].nextRunAt .. latest
           /\ (d - template[t].nextRunAt) % template[t].schedule.interval = 0
           /\ Within(template[t].schedule, d)
<1> DEFINE s == template[t].schedule
           n == s.interval
           next == template[t].nextRunAt
<1>1. /\ next \in Nat /\ s \in Schedules /\ next >= s.start /\ (next - s.start) % n = 0
  BY TemplateTypes
<1>2. s.start \in Nat /\ n \in Nat \ {0}
  BY <1>1, ScheduleTypes
<1>3. row \in Template /\ row.nextRunAt <= latest + n
  BY MovedRow
<1>4. row.nextRunAt \in Nat
  BY <1>3 DEF Template
<1>5. d >= s.start /\ (d - s.start) % n = 0 /\ Within(s, d)
  BY DEF Occurs
<1>6. d \in Nat /\ next <= d /\ d < row.nextRunAt
  BY <1>1, <1>4
<1>7. (latest - next) % n = 0 /\ latest >= next
  OBVIOUS
<1> HIDE DEF s, n, next
<1>8. (d - next) % n = 0
  <2>1. next - s.start \in Nat /\ d - s.start \in Nat /\ next - s.start <= d - s.start
    BY <1>1, <1>2, <1>5, <1>6
  <2>2. ((d - s.start) - (next - s.start)) % n = 0
    BY <1>1, <1>2, <1>5, <2>1, MultiplesApart
  <2>3. (d - s.start) - (next - s.start) = d - next
    BY <1>1, <1>2, <1>6
  <2>4. QED
    BY <2>2, <2>3
<1>9. d <= latest
  <2> SUFFICES ASSUME d > latest PROVE FALSE
    BY <1>6
  <2>1. latest - next \in Nat /\ d - next \in Nat /\ latest - next < d - next
    BY <1>1, <1>6, <1>7
  <2>2. latest - next <= d - next
    BY <2>1
  <2>3. (latest - next) + n <= d - next
    BY <1>2, <1>7, <1>8, <2>1, <2>2, MultiplesApart
  <2>4. latest + n <= d
    BY <1>1, <1>2, <1>6, <2>3
  <2>5. QED
    BY <1>2, <1>3, <1>4, <1>6, <2>4
<1>10. d \in next .. latest
  BY <1>1, <1>6, <1>9
<1>11. QED
  BY <1>5, <1>8, <1>10 DEF s, n, next

\* Preparing a run loses no occurrence of any template.
LEMMA PrepareScheduledKeeps ==
    ASSUME ScheduleInv, NEW w \in Workers, NEW t \in Templates, PrepareScheduled(w, t),
           NEW u \in Templates
    PROVE  OccurrencesKept(u)
<1>1. CASE UNCHANGED template
  BY <1>1, KeptWhereItStands
<1>2. ASSUME template[t].status = "ACTIVE", NEW batch, NEW pending, NEW latest,
             PreparesBatch(w, t, batch, pending, latest),
             batch \subseteq template[t].nextRunAt .. latest,
             latest \in template[t].nextRunAt .. today,
             (latest - template[t].nextRunAt) % template[t].schedule.interval = 0,
             \A d \in template[t].nextRunAt .. latest :
               ((d - template[t].nextRunAt) % template[t].schedule.interval = 0
                /\ (d = template[t].nextRunAt \/ Within(template[t].schedule, d)))
                  => d \in batch
      PROVE  OccurrencesKept(u)
  <2> DEFINE row == ScheduledAfter(template[t], latest)
  <2>1. batch \subseteq Days /\ latest \in Nat /\ latest >= template[t].nextRunAt
    <3>1. template[t].nextRunAt \in Nat /\ today \in Nat
      BY TemplateTypes, LimitsPositive DEF ScheduleInv, TypeOK, Days
    <3>2. QED
      BY <1>2, <3>1, BatchOnCalendar
  <2>2. /\ pending \subseteq batch /\ ~Collides(t, batch)
        /\ Prepared(t, batch \ pending, pending)
        /\ template' = [template EXCEPT ![t] = row]
    BY <1>2 DEF PreparesBatch
  <2>3. \A d \in batch : run'[<<t, d>>].status # "NONE"
    BY <2>1, <2>2, PreparedRows
  <2>4. row.nextRunAt >= template[t].nextRunAt
    BY <1>2, <2>1, MovedRow
  <2>5. /\ template'[t] = row
        /\ \A v \in Templates \ {t} : template'[v] = template[v]
    BY <2>2 DEF ScheduleInv, TypeOK
  <2>6. CASE u # t
    BY <2>5, <2>6, KeptWhereItStands
  <2>7. CASE u = t
    <3>1. ASSUME NEW d \in template[t].nextRunAt .. (row.nextRunAt - 1),
                 Occurs(template[t].schedule, d)
          PROVE  run'[<<t, d>>].status # "NONE"
      <4>1. /\ d \in template[t].nextRunAt .. latest
            /\ (d - template[t].nextRunAt) % template[t].schedule.interval = 0
            /\ Within(template[t].schedule, d)
        BY <1>2, <2>1, <3>1, OccurrencesPassed
      <4>2. d \in batch
        BY <1>2, <4>1
      <4>3. QED
        BY <2>3, <4>2
    <3> HIDE DEF row
    <3>2. QED
      BY <2>4, <2>5, <2>7, <3>1 DEF OccurrencesKept
  <2>8. QED
    BY <2>6, <2>7
<1>3. QED
  BY <1>1, <1>2, PrepareCases

\* Nor does the advance after a legacy run.
LEMMA AdvanceKeeps ==
    ASSUME ScheduleInv, NEW q \in Requests, AdvanceAfterLegacyRun(q), NEW u \in Templates
    PROVE  OccurrencesKept(u)
<1> DEFINE s == process[q]
           t == s.template
           d == s.occurrence
           row == ScheduledAfter(template[t], d)
<1>1. /\ s.phase = "advancing"
      /\ template' = [template EXCEPT ![t] = AdvanceFrom(template[t], d)]
      /\ UNCHANGED run
  BY DEF AdvanceAfterLegacyRun
<1>2. Known(s, run, template)
  BY DEF Processes, ScheduleInv, ProcessesKnown
<1>3. /\ t \in Templates /\ template[t].status # "NONE" /\ d \in Days
      /\ run[<<t, d>>].status # "NONE"
  BY <1>1, <1>2 DEF Known
<1>4. d \in Nat
  BY <1>3, LimitsPositive DEF Days
<1>5. CASE u # t \/ template[t].nextRunAt # d
  <2>1. template'[u] = template[u]
    BY <1>1, <1>3, <1>5 DEF AdvanceFrom, ScheduleInv, TypeOK
  <2>2. QED
    BY <2>1, KeptWhereItStands
<1>6. CASE u = t /\ template[t].nextRunAt = d
  <2>1. template'[t] = row
    BY <1>1, <1>3, <1>6 DEF AdvanceFrom, ScheduleInv, TypeOK
  <2>2. template[t].schedule \in Schedules
    BY <1>3, TemplateTypes
  <2>3. template[t].schedule.interval \in Nat \ {0}
    BY <2>2, ScheduleTypes
  <2> HIDE DEF d, t
  <2>4. d - template[t].nextRunAt = 0 /\ 0 % template[t].schedule.interval = 0
    BY <1>4, <1>6, <2>3
  <2>5. (d - template[t].nextRunAt) % template[t].schedule.interval = 0
    BY <2>4
  <2>6. d >= template[t].nextRunAt
    BY <1>4, <1>6
  <2>7. row.nextRunAt >= template[t].nextRunAt
    BY <1>3, <1>4, <2>5, <2>6, MovedRow
  <2>8. ASSUME NEW e \in template[t].nextRunAt .. (row.nextRunAt - 1),
               Occurs(template[t].schedule, e)
        PROVE  run'[<<t, e>>].status # "NONE"
    <3>1. e \in template[t].nextRunAt .. d
      BY <1>3, <1>4, <2>5, <2>6, <2>8, OccurrencesPassed
    <3>2. e = d
      BY <1>4, <1>6, <3>1
    <3>3. QED
      BY <1>1, <1>3, <3>2
  <2> HIDE DEF row
  <2>9. QED
    BY <1>6, <2>1, <2>7, <2>8 DEF OccurrencesKept
<1>7. QED
  BY <1>5, <1>6

\* Nor does an update of a template.
LEMMA UpdateTemplateKeeps ==
    ASSUME ScheduleInv, NEW t \in Templates, NEW s \in Schedules, UpdateTemplate(t, s),
           NEW u \in Templates
    PROVE  OccurrencesKept(u)
<1>1. PICK next \in NotBefore(s, template[t].nextRunAt) :
        template' = [template EXCEPT ![t].schedule = s, ![t].nextRunAt = next]
  BY DEF UpdateTemplate
<1>2. next >= template[t].nextRunAt /\ s # template[t].schedule
  BY <1>1 DEF NotBefore, UpdateTemplate
<1>3. template \in [Templates -> Template]
  BY DEF ScheduleInv, TypeOK
<1>4. CASE u # t
  <2>1. template'[u] = template[u]
    BY <1>1, <1>3, <1>4
  <2>2. QED
    BY <2>1, KeptWhereItStands
<1>5. CASE u = t
  <2>1. template'[t].schedule = s /\ template'[t].nextRunAt = next
    BY <1>1, <1>3 DEF Template
  <2>2. QED
    BY <1>2, <1>5, <2>1 DEF OccurrencesKept
<1>6. QED
  BY <1>4, <1>5

\* Nor does any operation on templates.
LEMMA TemplateNextKeeps ==
    ASSUME ScheduleInv, TemplateNext, NEW u \in Templates
    PROVE  OccurrencesKept(u)
<1>1. template \in [Templates -> Template]
  BY DEF ScheduleInv, TypeOK
<1>2. ASSUME NEW t \in Templates, NEW s \in Schedules, CreateTemplate(t, s)
      PROVE  OccurrencesKept(u)
  <2>1. CASE u = t
    BY <1>2, <2>1 DEF CreateTemplate, OccurrencesKept
  <2>2. CASE u # t
    <3>1. template'[u] = template[u]
      BY <1>1, <1>2, <2>2 DEF CreateTemplate
    <3>2. QED
      BY <3>1, KeptWhereItStands
  <2>3. QED
    BY <2>1, <2>2
<1>3. ASSUME NEW t \in Templates, NEW s \in Schedules, UpdateTemplate(t, s)
      PROVE  OccurrencesKept(u)
  BY <1>3, UpdateTemplateKeeps
<1>4. ASSUME NEW t \in Templates, Activate(t) \/ Pause(t) \/ Resume(t) \/ Archive(t)
      PROVE  OccurrencesKept(u)
  <2>1. PICK status : template' = [template EXCEPT ![t].status = status]
    BY <1>4 DEF Activate, Pause, Resume, Archive, Transition
  <2>2. template'[u].nextRunAt = template[u].nextRunAt
    BY <1>1, <2>1 DEF Template
  <2>3. QED
    BY <2>2, KeptWhereItStands
<1>5. QED
  BY <1>2, <1>3, <1>4 DEF TemplateNext

\* Nor does any step.
LEMMA StepKeeps ==
    ASSUME ScheduleInv, [Next]_vars, NEW u \in Templates
    PROVE  OccurrencesKept(u)
<1>1. CASE UNCHANGED template
  BY <1>1, KeptWhereItStands
<1>2. CASE TemplateNext
  BY <1>2, TemplateNextKeeps
<1>3. ASSUME NEW w \in Workers, WorkerNext(w) PROVE OccurrencesKept(u)
  <2>1. ASSUME NEW t \in Templates, PrepareScheduled(w, t) PROVE OccurrencesKept(u)
    BY <2>1, PrepareScheduledKeeps
  <2>2. CASE SelectRecoverable(w) \/ SelectDue(w) \/ ExecutePrepared(w)
    BY <1>1, <2>2 DEF SelectRecoverable, SelectDue, ExecutePrepared
  <2>3. QED
    BY <1>3, <2>1, <2>2 DEF WorkerNext
<1>4. ASSUME NEW q \in Requests, RequestNext(q) PROVE OccurrencesKept(u)
  <2>1. CASE AdvanceAfterLegacyRun(q)
    BY <2>1, AdvanceKeeps
  <2>2. CASE ~AdvanceAfterLegacyRun(q)
    <3>1. UNCHANGED template
      BY <1>4, <2>2 DEF RequestNext, RunManually, GenerateNowRead, GenerateNow, RunNow
    <3>2. QED
      BY <1>1, <3>1
  <2>3. QED
    BY <2>1, <2>2
<1>5. ASSUME NEW p \in Processes, Execute(p) \/ RecordFailure(p) \/ Dies(p)
      PROVE  OccurrencesKept(u)
  BY <1>1, <1>5 DEF Execute, ExecuteDone, ExecuteFails, ExecuteUnanswered,
                    RecordFailure, Dies
<1>6. CASE DayPasses \/ (\E r \in Runs : BackoffElapses(r)) \/ UNCHANGED vars
  BY <1>1, <1>6 DEF DayPasses, BackoffElapses, vars
<1>7. QED
  BY <1>2, <1>3, <1>4, <1>5, <1>6 DEF Next

\* The schedule of a template moves past an occurrence only when that
\* occurrence has a run, and never moves back, however many occurrences a
\* batch takes in and whichever worker or request moves it.
THEOREM NothingLost == Spec => NoOccurrenceLost
<1>1. ScheduleInv /\ [Next]_vars =>
        [\A t \in Templates : template[t].status # "NONE" =>
           /\ template'[t].nextRunAt >= template[t].nextRunAt
           /\ template'[t].schedule = template[t].schedule =>
                \A d \in template[t].nextRunAt .. (template'[t].nextRunAt - 1) :
                  d \in Days /\ Occurs(template[t].schedule, d)
                    => run'[<<t, d>>].status # "NONE"]_vars
  BY StepKeeps DEF OccurrencesKept
<1>2. QED
  BY <1>1, ScheduleInvariance, PTL DEF Spec, NoOccurrenceLost
=============================================================================
