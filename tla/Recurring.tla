----------------------------- MODULE Recurring -----------------------------
(***************************************************************************)
(* Recurring transactions: templates with a schedule, the runs of their    *)
(* occurrences, the cron invocations ("workers") that prepare and execute  *)
(* due runs, and the requests that run a template by hand, through the     *)
(* generalized route or through the legacy recurring-invoice route.        *)
(*                                                                         *)
(* Every write below is one SERIALIZABLE transaction of the code, so it is *)
(* one action; serialization failures are retried, or become the           *)
(* "retriable" failure.  Between transactions a process keeps what it      *)
(* selected, which may be stale, and may die.                              *)
(*                                                                         *)
(* An occurrence is a day: the code maps a local date of the template's    *)
(* time zone to one instant.  Frequencies are a number of days.  A run is  *)
(* identified by its template and the instant it is scheduled for: a day,  *)
(* or the moment of a manual request, which is as unique as its key.       *)
(***************************************************************************)
EXTENDS Integers, Sequences, FiniteSets

CONSTANTS
    Templates,      \* ids of RecurringTransactionTemplate rows
    ManualKeys,     \* idempotency keys of POST :id/run
    Workers,        \* cron invocations alive at the same time
    Requests,       \* user requests alive at the same time
    Schedules,      \* the schedules a template may be given
    MaxDay,         \* bound on the clock
    Limit,          \* runs one invocation handles (25 in the controller)
    MaxAttempts,    \* MAX_RUN_ATTEMPTS
    None

Days == 1 .. MaxDay

ASSUME SchedulesType ==
    Schedules \subseteq
      [start: Days, interval: Nat \ {0}, end: Days \cup {None},
       catchUp: {"SKIP_MISSED", "GENERATE_LATEST_ONLY", "GENERATE_ALL"}]

ASSUME LimitsPositive ==
    Limit \in Nat \ {0} /\ MaxAttempts \in Nat \ {0} /\ MaxDay \in Nat \ {0}

ASSUME KeysAreNoDays ==
    (\A k \in ManualKeys : k \notin Nat) /\ None \notin Nat \cup Templates

VARIABLES
    today,      \* the local date
    template,   \* RecurringTransactionTemplate rows
    run,        \* RecurringTransactionRun rows
    created,    \* ids of the runs in the order of createdAt
    documents,  \* number of drafts generated for a run
    process     \* what each worker or request keeps between transactions

vars == <<today, template, run, created, documents, process>>

-----------------------------------------------------------------------------
Runs == Templates \X (Days \cup ManualKeys)

Processes == Workers \cup Requests

Template == [status: {"NONE", "DRAFT", "ACTIVE", "PAUSED", "COMPLETED", "ARCHIVED"},
             schedule: Schedules \cup {None}, nextRunAt: Nat]

\* byKey: created by a request, whose idempotency key finds it again.
\* waiting: nextAttemptAt is still ahead.  CLAIMED is never seen outside the
\* transaction that sets it.
Run == [status: {"NONE", "PENDING", "GENERATED", "BLOCKED", "SKIPPED", "FAILED"},
        byKey: BOOLEAN, attempts: 0 .. MaxAttempts, retriable: BOOLEAN,
        waiting: BOOLEAN]

NoRun == [status |-> "NONE", byKey |-> FALSE, attempts |-> 0,
          retriable |-> FALSE, waiting |-> FALSE]

\* todo: runs still to execute; due: templates still to prepare; remaining:
\* how many more runs the invocation may prepare; failure: how the execution
\* of the first run of todo failed; occurrence: the day a legacy request read.
Process ==
    [phase: {"idle", "dead", "recovering", "preparing", "executing", "legacy", "advancing"},
     todo: Seq(Runs), due: SUBSET Templates, remaining: Int,
     failure: {"none", "retriable", "blocked", "permanent"},
     template: Templates \cup {None}, occurrence: Nat]

Idle == [phase |-> "idle", todo |-> <<>>, due |-> {}, remaining |-> 0,
         failure |-> "none", template |-> None, occurrence |-> 0]

TypeOK ==
    /\ today \in Days
    /\ template \in [Templates -> Template]
    /\ run \in [Runs -> Run]
    /\ created \in Seq(Runs)
    /\ documents \in [Runs -> Nat]
    /\ process \in [Processes -> Process]

Init ==
    /\ today = 1
    /\ template = [t \in Templates |-> [status |-> "NONE", schedule |-> None, nextRunAt |-> 0]]
    /\ run = [r \in Runs |-> NoRun]
    /\ created = <<>>
    /\ documents = [r \in Runs |-> 0]
    /\ process = [p \in Processes |-> Idle]

-----------------------------------------------------------------------------
(* Schedules. *)

Within(s, d) == s.end # None => d <= s.end

Occurs(s, d) == d >= s.start /\ (d - s.start) % s.interval = 0 /\ Within(s, d)

\* nextOccurrence steps from the day it is given, None past the end date.
NextOccurrence(s, d) == IF Within(s, d + s.interval) THEN d + s.interval ELSE None

\* resolveDueOccurrences: the due days from first on are taken limit at a
\* time.  A batch with more due behind it is skipped, or generated by
\* GENERATE_ALL; in the last batch the latest may be generated.
Due(s, first) ==
    {d \in first .. today : (d - first) % s.interval = 0 /\ (d = first \/ Within(s, d))}

Batch(s, first, limit) ==
    {d \in Due(s, first) : (d - first) \div s.interval < limit}

Latest(s, first, limit) ==
    CHOOSE d \in Batch(s, first, limit) : \A e \in Batch(s, first, limit) : e <= d

Generated(s, first, limit) ==
    LET batch == Batch(s, first, limit)
        more == batch # Due(s, first)
        latest == {d \in batch : \A e \in batch : e <= d}
    IN  CASE s.catchUp = "GENERATE_ALL" -> batch
          [] more -> {}
          [] s.catchUp = "GENERATE_LATEST_ONLY" -> latest
          [] OTHER -> latest \cap {today}

-----------------------------------------------------------------------------
(* Templates. *)

CreateTemplate(t, s) ==
    /\ template[t].status = "NONE"
    /\ Within(s, s.start)
    /\ template' = [template EXCEPT ![t] =
         [status |-> "DRAFT", schedule |-> s, nextRunAt |-> s.start]]
    /\ UNCHANGED <<today, run, created, documents, process>>

\* Mutant of NotBefore: a changed schedule starts again at its first day.
FromStart(s, next) == IF Within(s, s.start) THEN {s.start} ELSE {}

\* firstOccurrenceNotBefore: the change is refused when there is none.
NotBefore(s, next) ==
    {d \in s.start .. (next + s.start + s.interval) :
       /\ Occurs(s, d) /\ d >= next
       /\ \A e \in s.start .. (d - 1) : Occurs(s, e) => e < next}

UpdateTemplate(t, s) ==
    /\ template[t].status \in {"DRAFT", "ACTIVE", "PAUSED"}
    /\ s # template[t].schedule
    /\ \E next \in NotBefore(s, template[t].nextRunAt) :
         template' = [template EXCEPT ![t].schedule = s, ![t].nextRunAt = next]
    /\ UNCHANGED <<today, run, created, documents, process>>

Transition(t, allowed, status) ==
    /\ template[t].status \in allowed
    /\ template' = [template EXCEPT ![t].status = status]
    /\ UNCHANGED <<today, run, created, documents, process>>

Activate(t) == Transition(t, {"DRAFT"}, "ACTIVE")
Pause(t) == Transition(t, {"ACTIVE"}, "PAUSED")
Resume(t) == Transition(t, {"PAUSED"}, "ACTIVE")
Archive(t) == Transition(t, {"DRAFT", "ACTIVE", "PAUSED", "COMPLETED"}, "ARCHIVED")

\* Mutant of ScheduledAfter: the next run is cleared when the schedule ends.
ClearedAfter(row, d) ==
    LET next == NextOccurrence(row.schedule, d)
    IN  [row EXCEPT !.nextRunAt = next,
                    !.status = IF next = None THEN "COMPLETED" ELSE @]

\* Where the schedule goes after day d: on, or complete with nextRunAt kept.
ScheduledAfter(row, d) ==
    LET next == NextOccurrence(row.schedule, d)
    IN  IF next = None THEN [row EXCEPT !.status = "COMPLETED"]
                       ELSE [row EXCEPT !.nextRunAt = next]

-----------------------------------------------------------------------------
(* Executing a run, in a worker or in a request. *)

\* After the first run of todo is done with.
Continue(p, status) ==
    LET s == process[p]
        rest == Tail(s.todo)
    IN  CASE s.phase = "legacy" /\ status = "GENERATED" ->
               [s EXCEPT !.phase = "advancing", !.todo = rest, !.failure = "none"]
          [] s.phase = "recovering" \/ rest # <<>> ->
               [s EXCEPT !.todo = rest, !.failure = "none"]
          [] OTHER -> Idle

Executes(p) ==
    /\ process[p].phase \in {"recovering", "executing", "legacy"}
    /\ process[p].todo # <<>>
    /\ process[p].failure = "none"

Attempted(n) == IF n < MaxAttempts THEN n + 1 ELSE n

\* Runs that execute() returns as they are.
Settled(r) ==
    \/ run[r].status \in {"GENERATED", "SKIPPED"}
    \/ run[r].status = "FAILED" /\ ~run[r].retriable

Executable(r) == ~Settled(r) /\ template[r[1]].status = "ACTIVE"

\* The draft and the mark that the run generated it commit together.
Generate(r) ==
    /\ run' = [run EXCEPT ![r].status = "GENERATED", ![r].attempts = Attempted(@),
                          ![r].retriable = FALSE, ![r].waiting = FALSE]
    /\ documents' = [documents EXCEPT ![r] = @ + 1]

\* The transaction rolled back: what it threw decides how it is recorded.
ExecuteFails(p) ==
    LET r == Head(process[p].todo)
    IN  /\ Executable(r)
        /\ \E failure \in {"retriable", "blocked", "permanent"} :
             process' = [process EXCEPT ![p].failure = failure]
        /\ UNCHANGED <<today, template, run, created, documents>>

\* The transaction committed and the answer was lost (P1017): the caller
\* takes it for a failure.
ExecuteUnanswered(p) ==
    LET r == Head(process[p].todo)
    IN  /\ Executable(r)
        /\ Generate(r)
        /\ process' = [process EXCEPT ![p].failure = "retriable"]
        /\ UNCHANGED <<today, template, created>>

ExecuteDone(p) ==
    LET r == Head(process[p].todo)
    IN  /\ IF Executable(r) THEN Generate(r) ELSE UNCHANGED <<run, documents>>
        /\ process' = [process EXCEPT ![p] =
             Continue(p, IF Executable(r) THEN "GENERATED" ELSE run[r].status)]
        /\ UNCHANGED <<today, template, created>>

Execute(p) ==
    Executes(p) /\ (ExecuteDone(p) \/ ExecuteFails(p) \/ ExecuteUnanswered(p))

\* Mutant of Recordable: the failure is recorded over whatever happened.
RecordableAlways(r) == TRUE

\* Somebody, or the unanswered transaction itself, may have generated it.
Recordable(r) == run[r].status \notin {"GENERATED", "SKIPPED"}

Exhausted(attempts) == attempts >= MaxAttempts

Failed(row, failure) ==
    LET attempts == Attempted(row.attempts)
        retry == failure = "retriable" /\ ~Exhausted(attempts)
    IN  [row EXCEPT !.status = IF failure = "blocked" THEN "BLOCKED" ELSE "FAILED",
                    !.attempts = attempts, !.retriable = retry, !.waiting = retry]

RecordFailure(p) ==
    LET r == Head(process[p].todo)
    IN  /\ process[p].failure # "none"
        /\ run' = IF Recordable(r)
                  THEN [run EXCEPT ![r] = Failed(@, process[p].failure)] ELSE run
        /\ process' = [process EXCEPT ![p] = Continue(p, run'[r].status)]
        /\ UNCHANGED <<today, template, created, documents>>

BackoffElapses(r) ==
    /\ run[r].waiting
    /\ run' = [run EXCEPT ![r].waiting = FALSE]
    /\ UNCHANGED <<today, template, created, documents, process>>

-----------------------------------------------------------------------------
(* The cron worker: recover runs, then prepare due templates, then execute  *)
(* what it prepared.  Its selects lock nothing past their own transaction.  *)

\* The members of S in s, in their order.
Selected(s, S) ==
    LET upTo[n \in 0 .. Len(s)] ==
          IF n = 0 THEN <<>>
          ELSE IF s[n] \in S THEN Append(upTo[n - 1], s[n]) ELSE upTo[n - 1]
    IN  upTo[Len(s)]

\* Mutant of Recoverable: only runs that failed are looked for.
RecoverableFailed(r) ==
    /\ template[r[1]].status = "ACTIVE"
    /\ run[r].status = "FAILED" /\ run[r].retriable /\ ~run[r].waiting
    /\ run[r].attempts < MaxAttempts

Recoverable(r) ==
    /\ template[r[1]].status = "ACTIVE"
    /\ \/ run[r].status = "PENDING"
       \/ /\ run[r].status = "FAILED" /\ run[r].retriable /\ ~run[r].waiting
          /\ run[r].attempts < MaxAttempts

FirstOf(s, n) == SubSeq(s, 1, IF n < Len(s) THEN n ELSE Len(s))

SelectRecoverable(w) ==
    LET found == FirstOf(Selected(created, {r \in Runs : Recoverable(r)}), Limit)
    IN  /\ process[w].phase \in {"idle", "dead"}
        /\ process' = [process EXCEPT ![w] =
             [Idle EXCEPT !.phase = "recovering", !.todo = found,
                          !.remaining = Limit - Len(found)]]
        /\ UNCHANGED <<today, template, run, created, documents>>

DueTemplates ==
    {t \in Templates : template[t].status = "ACTIVE" /\ template[t].nextRunAt <= today}

\* ORDER BY nextRunAt LIMIT remaining.
FirstDue(due, n) ==
    {first \in SUBSET due :
       /\ Cardinality(first) = (IF n < Cardinality(due) THEN n ELSE Cardinality(due))
       /\ \A t \in first, u \in due \ first : template[t].nextRunAt <= template[u].nextRunAt}

SelectDue(w) ==
    /\ process[w].phase = "recovering" /\ process[w].todo = <<>>
    /\ \E due \in FirstDue(DueTemplates, process[w].remaining) :
         process' = [process EXCEPT ![w].phase = "preparing", ![w].due = due]
    /\ UNCHANGED <<today, template, run, created, documents>>

\* The runs of a batch, in the order they are created: skipped ones first.
InOrder(t, skipped, pending) ==
    LET Ascending(S) == Selected([d \in Days |-> <<t, d>>], {t} \X S)
    IN  Ascending(skipped) \o Ascending(pending)

\* Mutant of Prepared: the schedule moves on without a row for what it skips.
PreparedSilently(t, skipped, pending) ==
    /\ run' = [r \in Runs |->
         IF r[1] = t /\ r[2] \in pending THEN [NoRun EXCEPT !.status = "PENDING"]
         ELSE run[r]]
    /\ created' = created \o InOrder(t, {}, pending)

Prepared(t, skipped, pending) ==
    /\ run' = [r \in Runs |->
         CASE r[1] = t /\ r[2] \in skipped -> [NoRun EXCEPT !.status = "SKIPPED"]
           [] r[1] = t /\ r[2] \in pending -> [NoRun EXCEPT !.status = "PENDING"]
           [] OTHER -> run[r]]
    /\ created' = created \o InOrder(t, skipped, pending)

\* Some row of the batch exists: the unique index fails the transaction.
Collides(t, days) == \E d \in days : run[<<t, d>>].status # "NONE"

PrepareScheduled(w, t) ==
    LET row == template[t]
        left == process[w].remaining - Len(process[w].todo)
        batch == Batch(row.schedule, row.nextRunAt, left)
        pending == Generated(row.schedule, row.nextRunAt, left)
        Leave == /\ process' = [process EXCEPT ![w].due = @ \ {t}]
                 /\ UNCHANGED <<template, run, created>>
    IN  /\ process[w].phase = "preparing" /\ t \in process[w].due
        /\ left > 0
        /\ IF t \notin DueTemplates THEN Leave
           ELSE IF Collides(t, batch) THEN Leave
           ELSE /\ Prepared(t, batch \ pending, pending)
                /\ template' = [template EXCEPT ![t] =
                     ScheduledAfter(@, Latest(row.schedule, row.nextRunAt, left))]
                /\ process' = [process EXCEPT ![w].due = @ \ {t},
                                              ![w].todo = @ \o InOrder(t, {}, pending)]
        /\ UNCHANGED <<today, documents>>

ExecutePrepared(w) ==
    /\ process[w].phase = "preparing"
    /\ process[w].due = {} \/ Len(process[w].todo) >= process[w].remaining
    /\ process' = [process EXCEPT ![w] =
         IF process[w].todo = <<>> THEN Idle
         ELSE [process[w] EXCEPT !.phase = "executing", !.due = {}]]
    /\ UNCHANGED <<today, template, run, created, documents>>

-----------------------------------------------------------------------------
(* Requests. *)

\* runNow with a key and an instant: a run of that key is executed again
\* unless it is settled; otherwise one is created, if the instant is free.
RunNow(q, t, x, phase) ==
    LET r == <<t, x>>
    IN  /\ template[t].status = "ACTIVE"
        /\ \/ /\ run[r].status = "NONE"
              /\ run' = [run EXCEPT ![r] = [NoRun EXCEPT !.status = "PENDING", !.byKey = TRUE]]
              /\ created' = Append(created, r)
           \/ /\ run[r].byKey /\ ~Settled(r)
              /\ UNCHANGED <<run, created>>
        /\ process' = [process EXCEPT ![q] =
             [Idle EXCEPT !.phase = phase, !.todo = <<r>>, !.template = t,
                          !.occurrence = process[q].occurrence]]
        /\ UNCHANGED <<today, template, documents>>

\* A key that another template used is refused.
RunManually(q, t, k) ==
    /\ process[q].phase \in {"idle", "dead"}
    /\ \A u \in Templates \ {t} : run[<<u, k>>].status = "NONE"
    /\ RunNow(q, t, k, "executing")

\* generateNow of the legacy route reads the next occurrence first ...
GenerateNowRead(q, t) ==
    /\ process[q].phase \in {"idle", "dead"}
    /\ template[t].status # "NONE"
    /\ template[t].nextRunAt \in Days
    /\ process' = [process EXCEPT ![q] =
         [Idle EXCEPT !.phase = "legacy", !.template = t,
                      !.occurrence = template[t].nextRunAt]]
    /\ UNCHANGED <<today, template, run, created, documents>>

\* ... then runs it; a run that is generated already only advances ...
GenerateNow(q) ==
    LET s == process[q]
        r == <<s.template, s.occurrence>>
    IN  /\ s.phase = "legacy" /\ s.todo = <<>>
        /\ IF run[r].byKey /\ run[r].status = "GENERATED"
           THEN /\ process' = [process EXCEPT ![q].phase = "advancing"]
                /\ UNCHANGED <<today, template, run, created, documents>>
           ELSE RunNow(q, s.template, s.occurrence, "legacy")

\* ... and moves the schedule on, if that is still the next occurrence.
AdvanceFrom(row, d) == IF row.nextRunAt = d THEN ScheduledAfter(row, d) ELSE row

AdvanceAfterLegacyRun(q) ==
    LET s == process[q]
    IN  /\ s.phase = "advancing"
        /\ template' = [template EXCEPT ![s.template] = AdvanceFrom(@, s.occurrence)]
        /\ process' = [process EXCEPT ![q] = Idle]
        /\ UNCHANGED <<today, run, created, documents>>

-----------------------------------------------------------------------------
\* A function host that times out, an exception outside execute's try, such
\* as a subscription that does not allow the mutation, or a refused request:
\* the process is gone, the rows stay.
Dies(p) ==
    /\ process[p].phase \notin {"idle", "dead"}
    /\ process' = [process EXCEPT ![p] = [Idle EXCEPT !.phase = "dead"]]
    /\ UNCHANGED <<today, template, run, created, documents>>

DayPasses ==
    /\ today < MaxDay
    /\ today' = today + 1
    /\ UNCHANGED <<template, run, created, documents, process>>

TemplateNext ==
    \E t \in Templates :
      \/ \E s \in Schedules : CreateTemplate(t, s) \/ UpdateTemplate(t, s)
      \/ Activate(t) \/ Pause(t) \/ Resume(t) \/ Archive(t)

WorkerNext(w) ==
    \/ SelectRecoverable(w)
    \/ SelectDue(w)
    \/ \E t \in Templates : PrepareScheduled(w, t)
    \/ ExecutePrepared(w)

RequestNext(q) ==
    \/ \E t \in Templates :
         \/ \E k \in ManualKeys : RunManually(q, t, k)
         \/ GenerateNowRead(q, t)
    \/ GenerateNow(q)
    \/ AdvanceAfterLegacyRun(q)

Next ==
    \/ TemplateNext
    \/ \E w \in Workers : WorkerNext(w)
    \/ \E q \in Requests : RequestNext(q)
    \/ \E p \in Processes : Execute(p) \/ RecordFailure(p) \/ Dies(p)
    \/ \E r \in Runs : BackoffElapses(r)
    \/ DayPasses

\* The scheduler calls the worker every five minutes, an invocation that is
\* not killed goes on, and time passes.  Requests owe nothing.
Fairness ==
    /\ \A w \in Workers :
         WF_vars(WorkerNext(w) \/ Execute(w) \/ RecordFailure(w))
    /\ \A r \in Runs : WF_vars(BackoffElapses(r))

Spec == Init /\ [][Next]_vars /\ Fairness

-----------------------------------------------------------------------------
(* Properties. *)

\* "One template occurrence can produce at most one successful target": a
\* run has one draft exactly when it is marked GENERATED, whatever workers,
\* retries, unanswered commits and requests meet on it.
DocumentsMatchRuns ==
    \A r \in Runs : documents[r] = IF run[r].status = "GENERATED" THEN 1 ELSE 0

\* While a template is in use no run of the schedule lies at or behind
\* nextRunAt: preparing it again cannot collide with its own runs for ever.
ScheduleAheadOfRuns ==
    \A t \in Templates, d \in Days :
      (template[t].status \in {"DRAFT", "ACTIVE", "PAUSED"}
        /\ run[<<t, d>>].status # "NONE" /\ ~run[<<t, d>>].byKey)
          => d < template[t].nextRunAt

\* The schedule moves past an occurrence only when that occurrence has a run,
\* generated, pending or skipped with evidence; an edit moves it by its own
\* rule, and never back.
NoOccurrenceLost ==
    [][\A t \in Templates : template[t].status # "NONE" =>
         /\ template'[t].nextRunAt >= template[t].nextRunAt
         /\ template'[t].schedule = template[t].schedule =>
              \A d \in template[t].nextRunAt .. (template'[t].nextRunAt - 1) :
                d \in Days /\ Occurs(template[t].schedule, d)
                  => run'[<<t, d>>].status # "NONE"]_vars

WorkersSurvive == <>[][~\E w \in Workers : Dies(w)]_vars

\* A pending run of an active template is executed in the end, and one whose
\* failure may be retried is retried until it ends, provided that invocations
\* do not keep dying.
RunsSettle ==
    WorkersSurvive =>
      \A r \in Runs :
        (run[r].status = "PENDING" \/ (run[r].status = "FAILED" /\ run[r].retriable))
          ~> \/ Settled(r) \/ run[r].status = "BLOCKED"
             \/ template[r[1]].status # "ACTIVE"

\* A due occurrence of an active template is taken up in the end, unless a
\* legacy request holds its identity.
DueOccurrencesPrepared ==
    WorkersSurvive =>
      \A t \in Templates, d \in Days :
        (template[t].status = "ACTIVE" /\ template[t].nextRunAt = d /\ d <= today)
          ~> \/ template[t].status # "ACTIVE" \/ template[t].nextRunAt # d
             \/ run[<<t, d>>].byKey

\* docs/accounting/RECURRING_SCHEDULE_AND_TIMEZONE_POLICY.md: "End dates
\* complete a schedule after its final occurrence": also when the schedule
\* completes, a pending run does not stay pending.
FinalOccurrenceGenerated ==
    WorkersSurvive =>
      \A r \in Runs :
        run[r].status = "PENDING"
          ~> run[r].status # "PENDING" \/ template[r[1]].status \in {"PAUSED", "ARCHIVED"}
=============================================================================
