---------------------------- MODULE EmailOutbox ----------------------------
(***************************************************************************)
(* The e-mail outbox: rows that requests queue or send at once, the retry  *)
(* worker that claims due rows with a lock that goes stale, the older      *)
(* retry processor that takes no claim, the provider and its events.       *)
(* Whether a recipient is suppressed or an attachment valid is any answer  *)
(* at the moment it is looked up.                                          *)
(*                                                                         *)
(* Time is relative.  A run compares everything with the moment it began,  *)
(* so the model keeps how old each run and each lock is and how far ahead  *)
(* a row's next attempt lies, and Tick moves them all.                     *)
(***************************************************************************)
EXTENDS Integers, FiniteSets

CONSTANTS
    Emails,         \* idempotency keys; a key is one row
    Workers,        \* runs of EmailRetryWorkerService.process
    Processors,     \* runs of EmailService.retryProcess
    MaxAttempts,    \* maxAttempts of every row
    Stale,          \* ticks after which a lock may be taken over
    Backoff,        \* ticks to the next attempt after a failure
    RunTicks,       \* bound: ticks a run may last
    None,
    Lost            \* a claim token whose run is gone

ASSUME BoundsType ==
    /\ MaxAttempts \in Nat \ {0} /\ Stale \in Nat
    /\ Backoff \in Nat /\ RunTicks \in Nat

\* A claim token names one run, a worker or a processor; null names none.  The
\* code makes a worker's of the actor, the row and the millisecond, so two claims
\* of one row by one actor within a millisecond are left out.
ASSUME TokensDistinct ==
    /\ Workers \cap Processors = {}
    /\ None \notin Workers \cup Processors
    /\ Lost \notin Workers \cup Processors \cup {None}

VARIABLES
    row,            \* EmailOutbox rows
    queuing,        \* keys some request found free
    process,        \* the runs
    accepted,       \* ghost: deliveries the provider accepted and stands by
    excuse          \* ghost: a reason why a row might be delivered twice

vars == <<row, queuing, process, accepted, excuse>>

-----------------------------------------------------------------------------
Runs == Workers \cup Processors

OldestLock == Stale + RunTicks + 1

\* nextAttemptAt: NULL is due for every run, as is a moment before its start.
AlwaysDue == -RunTicks

Row == [status: {"NONE", "QUEUED", "SENT", "FAILED"},
        attempts: 0 .. MaxAttempts, due: AlwaysDue .. Backoff,
        lockedBy: Runs \cup {None, Lost}, lockAge: 0 .. OldestLock,
        down: BOOLEAN]                      \* bouncedAt or complainedAt is set

NoRow == [status |-> "NONE", attempts |-> 0, due |-> AlwaysDue,
          lockedBy |-> None, lockAge |-> 0, down |-> FALSE]

Process == [phase: {"idle", "running", "claimed", "locked", "finishing"},
            age: 0 .. RunTicks,
            found: SUBSET [email: Emails, attempts: 0 .. MaxAttempts],
            email: Emails \cup {None}, attempts: 0 .. MaxAttempts,
            outcome: {"none", "SENT", "FAILED", "BLOCKED"}]

Idle == [phase |-> "idle", age |-> 0, found |-> {}, email |-> None,
         attempts |-> 0, outcome |-> "none"]

TypeOK ==
    /\ row \in [Emails -> Row]
    /\ queuing \subseteq Emails
    /\ process \in [Runs -> Process]
    /\ accepted \in [Emails -> 0 .. 2]
    /\ excuse \in [Emails -> {"none", "recovered", "unanswered", "claimless"}]

Init ==
    /\ row = [e \in Emails |-> NoRow]
    /\ queuing = {}
    /\ process = [p \in Runs |-> Idle]
    /\ accepted = [e \in Emails |-> 0]
    /\ excuse = [e \in Emails |-> "none"]

-----------------------------------------------------------------------------
(* Requests. *)

\* queue: the key is free, its recipient not suppressed ...
QueueLookup(e) ==
    /\ row[e].status = "NONE"
    /\ queuing' = queuing \cup {e}
    /\ UNCHANGED <<row, process, accepted, excuse>>

\* Mutant of Created: a second request with the key queues the row again.
CreatedAgain(old, new) == new

\* The unique key: a row that exists by now is answered, not replaced.
Created(old, new) == IF old.status = "NONE" THEN new ELSE old

\* ... and then creates the row, as does any other request with the key that
\* looked it up in time.
QueueCreate(e) ==
    /\ e \in queuing
    /\ row' = [row EXCEPT ![e] = Created(@, [NoRow EXCEPT !.status = "QUEUED"])]
    /\ UNCHANGED <<queuing, process, accepted, excuse>>

\* send: the provider is called first and the row records what it said; a
\* suppressed recipient leaves a failed row that is due.
SendNow(e) ==
    /\ row[e].status = "NONE"
    /\ \/ /\ row' = [row EXCEPT ![e].status = "FAILED"]
          /\ UNCHANGED accepted
       \/ /\ row' = [row EXCEPT ![e].status = "SENT", ![e].attempts = 1]
          /\ accepted' = [accepted EXCEPT ![e] = 1]
       \/ /\ row' = [row EXCEPT ![e].status = "FAILED", ![e].attempts = 1,
                                ![e].due = Backoff]
          /\ UNCHANGED accepted
    /\ UNCHANGED <<queuing, process, excuse>>

\* A bounce or a complaint.  A DELIVERED event changes nothing modelled.
ProviderBounce(e) ==
    /\ row[e].status # "NONE"
    /\ row' = [row EXCEPT ![e].status = "FAILED", ![e].due = AlwaysDue, ![e].down = TRUE]
    /\ UNCHANGED <<queuing, process, accepted, excuse>>

\* The provider gave up: what it accepted was not delivered.
ProviderFailure(e) ==
    /\ row[e].status # "NONE"
    /\ row' = [row EXCEPT ![e].status = "FAILED"]
    /\ accepted' = [accepted EXCEPT ![e] = 0]
    /\ UNCHANGED <<queuing, process, excuse>>

-----------------------------------------------------------------------------
(* The retry worker, and the processor where it differs. *)

\* Both look for rows to send that are due at their start.
Retryable(e, age) ==
    row[e].status \in {"QUEUED", "FAILED"} /\ ~row[e].down /\ row[e].due <= -age

\* retryLockedAt is null or older than the start of the run less the timeout.
Unlocked(e, age) == row[e].lockedBy = None \/ row[e].lockAge > Stale + age

Excuses(e, when, why) ==
    excuse' = [excuse EXCEPT ![e] =
      IF when /\ (why = "claimless" \/ @ = "none") THEN why ELSE @]

Candidates(S) == {[email |-> e, attempts |-> row[e].attempts] : e \in S}

Start(w) ==
    /\ w \in Workers /\ process[w].phase = "idle"
    /\ process' = [process EXCEPT ![w] = [Idle EXCEPT !.phase = "running",
         !.found = Candidates({e \in Emails : Retryable(e, 0) /\ Unlocked(e, 0)})]]
    /\ UNCHANGED <<row, queuing, accepted, excuse>>

StartProcessor(p) ==
    /\ p \in Processors /\ process[p].phase = "idle"
    /\ process' = [process EXCEPT ![p] = [Idle EXCEPT !.phase = "running",
         !.found = {c \in Candidates({e \in Emails : Retryable(e, 0)}) :
                      c.attempts < MaxAttempts}]]
    /\ UNCHANGED <<row, queuing, accepted, excuse>>

\* Mutant of Claimable: the claim trusts the list that was read.
ClaimableAsListed(c, age) ==
    c.attempts < MaxAttempts /\ Unlocked(c.email, age)

\* Mutant of Claimable: an exhausted row is claimed once more.
ClaimableExhausted(c, age) ==
    Retryable(c.email, age) /\ Unlocked(c.email, age)

\* Mutant of Claimable: the claim does not look at the lock.
ClaimableLocked(c, age) ==
    c.attempts < MaxAttempts /\ Retryable(c.email, age)

\* The conditional update that claims a candidate checks it again.
Claimable(c, age) ==
    /\ c.attempts < MaxAttempts
    /\ Retryable(c.email, age) /\ Unlocked(c.email, age)
    /\ row[c.email].attempts < MaxAttempts

\* The lock is dated to the start of the run.  The claim of a run that is
\* still alive may be among those taken over.
Claim(w) ==
    \E c \in process[w].found :
      /\ w \in Workers /\ process[w].phase = "running"
      /\ process' = [process EXCEPT ![w].found = @ \ {c},
           ![w].phase = IF Claimable(c, process[w].age) THEN "claimed" ELSE @,
           ![w].email = IF Claimable(c, process[w].age) THEN c.email ELSE None,
           ![w].attempts = c.attempts]
      /\ IF Claimable(c, process[w].age)
         THEN /\ row' = [row EXCEPT ![c.email].lockedBy = w,
                                    ![c.email].lockAge = process[w].age]
              /\ Excuses(c.email, row[c.email].lockAge > Stale, "recovered")
         ELSE UNCHANGED <<row, excuse>>
      /\ UNCHANGED <<queuing, accepted>>

\* The processor takes its next candidate as it is listed.
Take(p) ==
    \E c \in process[p].found :
      /\ p \in Processors /\ process[p].phase = "running"
      /\ process' = [process EXCEPT ![p].found = @ \ {c}, ![p].phase = "claimed",
                                    ![p].email = c.email, ![p].attempts = c.attempts]
      /\ Excuses(c.email, TRUE, "claimless")
      /\ UNCHANGED <<row, queuing, accepted>>

\* The recipient is suppressed, or the stored attachment is missing or not
\* the one that was queued.
Block(p) ==
    /\ process[p].phase = "claimed"
    /\ process' = [process EXCEPT ![p].phase = "finishing", ![p].outcome = "BLOCKED"]
    /\ UNCHANGED <<row, queuing, accepted, excuse>>

\* The processor marks the row without asking who holds it.
Mark(p) ==
    LET e == process[p].email
    IN  /\ p \in Processors /\ process[p].phase = "claimed"
        /\ row' = [row EXCEPT ![e].lockedBy = p, ![e].lockAge = 0]
        /\ process' = [process EXCEPT ![p].phase = "locked"]
        /\ UNCHANGED <<queuing, accepted, excuse>>

AcceptedAgain(n) == IF n < 2 THEN n + 1 ELSE n

\* provider.send accepts the message, refuses it, or accepts it and fails.
Send(p) ==
    LET e == process[p].email
    IN  /\ process[p].phase = (IF p \in Workers THEN "claimed" ELSE "locked")
        /\ \E outcome \in {"SENT", "FAILED"}, arrives \in BOOLEAN :
             /\ outcome = "SENT" => arrives
             /\ process' = [process EXCEPT ![p].phase = "finishing", ![p].outcome = outcome]
             /\ accepted' = [accepted EXCEPT ![e] = IF arrives THEN AcceptedAgain(@) ELSE @]
             /\ Excuses(e, arrives /\ outcome = "FAILED", "unanswered")
        /\ UNCHANGED <<row, queuing>>

\* Mutant of MayFinish: the result is written by id.
FinishesAny(p, e) == TRUE

\* finishClaim writes where the token is its own; the processor by id.
MayFinish(p, e) == p \in Workers => row[e].lockedBy = p

\* Mutant of Finished: a blocked row keeps its lock.
FinishedLocked(old, s, exhausts) ==
    IF s.outcome = "BLOCKED"
    THEN [old EXCEPT !.status = "FAILED", !.due = AlwaysDue,
                     !.attempts = IF exhausts THEN MaxAttempts ELSE @]
    ELSE [old EXCEPT !.status = s.outcome, !.attempts = s.attempts + 1,
            !.lockedBy = None, !.lockAge = 0,
            !.due = IF s.outcome = "FAILED" /\ s.attempts + 1 < MaxAttempts
                    THEN Backoff ELSE AlwaysDue]

\* A blocked row is exhausted by the worker and left due by the processor.
Finished(old, s, exhausts) ==
    IF s.outcome = "BLOCKED"
    THEN [old EXCEPT !.status = "FAILED", !.lockedBy = None, !.lockAge = 0,
                     !.due = AlwaysDue,
                     !.attempts = IF exhausts THEN MaxAttempts ELSE @]
    ELSE [old EXCEPT !.status = s.outcome, !.attempts = s.attempts + 1,
            !.lockedBy = None, !.lockAge = 0,
            !.due = IF s.outcome = "FAILED" /\ s.attempts + 1 < MaxAttempts
                    THEN Backoff ELSE AlwaysDue]

Finish(p) ==
    LET s == process[p]
    IN  /\ s.phase = "finishing"
        /\ row' = IF MayFinish(p, s.email)
                  THEN [row EXCEPT ![s.email] = Finished(@, s, p \in Workers)] ELSE row
        /\ process' = [process EXCEPT ![p] =
             [Idle EXCEPT !.phase = "running", !.age = s.age, !.found = s.found]]
        /\ UNCHANGED <<queuing, accepted, excuse>>

End(p) ==
    /\ process[p].phase = "running" /\ process[p].found = {}
    /\ process' = [process EXCEPT ![p] = Idle]
    /\ UNCHANGED <<row, queuing, accepted, excuse>>

\* The run is gone; tokens are never reused, so nobody holds its claim.
Dies(p) ==
    /\ process[p].phase # "idle"
    /\ process' = [process EXCEPT ![p] = Idle]
    /\ row' = [e \in Emails |->
         IF row[e].lockedBy = p THEN [row[e] EXCEPT !.lockedBy = Lost] ELSE row[e]]
    /\ UNCHANGED <<queuing, accepted, excuse>>

Tick ==
    /\ \A p \in Runs : process[p].age < RunTicks
    /\ process' = [p \in Runs |->
         IF process[p].phase = "idle" THEN process[p]
         ELSE [process[p] EXCEPT !.age = @ + 1]]
    /\ row' = [e \in Emails |->
         [row[e] EXCEPT !.due = IF @ > AlwaysDue THEN @ - 1 ELSE @,
            !.lockAge = IF row[e].lockedBy # None /\ @ < OldestLock THEN @ + 1 ELSE @]]
    /\ UNCHANGED <<queuing, accepted, excuse>>

-----------------------------------------------------------------------------
RequestNext(e) ==
    \/ QueueLookup(e) \/ QueueCreate(e) \/ SendNow(e)
    \/ ProviderBounce(e) \/ ProviderFailure(e)

RunNext(p) ==
    \/ Start(p) \/ Claim(p)
    \/ StartProcessor(p) \/ Take(p) \/ Mark(p)
    \/ Block(p) \/ Send(p) \/ Finish(p) \/ End(p) \/ Dies(p)

Next ==
    \/ \E e \in Emails : RequestNext(e)
    \/ \E p \in Runs : RunNext(p)
    \/ Tick

Spec == Init /\ [][Next]_vars

-----------------------------------------------------------------------------
(* Properties. *)

\* An e-mail that the provider accepted and stands by is not handed to it
\* again, however many workers and requests meet on its row, except after a
\* stale lock was recovered, after the provider failed to answer, or because
\* the processor that takes no claim touched it.
DeliveredOnce == \A e \in Emails : accepted[e] > 1 => excuse[e] # "none"

\* A lock is the lock of the run that works on the row now, or of one that
\* died: every way out of a claim releases it.
LocksReleased ==
    \A e \in Emails : row[e].lockedBy \in Runs => process[row[e].lockedBy].email = e

\* "A stale worker cannot overwrite a newer claim's result": while a worker
\* holds a row, only a step of that worker counts an attempt on it.
ResultsOfClaimHolder ==
    [][\A e \in Emails :
         row[e].lockedBy \in Workers /\ row'[e].attempts # row[e].attempts
           => process'[row[e].lockedBy] # process[row[e].lockedBy]
              \/ excuse[e] = "claimless"]_vars

\* A row that bounced is never claimed again, not even by a run that listed it
\* before the bounce.
BouncedNotRetried ==
    [][\A e \in Emails, w \in Workers :
         row[e].down /\ row'[e].lockedBy = w => row[e].lockedBy = w]_vars
=============================================================================
