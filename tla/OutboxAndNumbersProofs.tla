----------------------- MODULE OutboxAndNumbersProofs -----------------------
(***************************************************************************)
(* Rows that one run or request at a time may hold, and what is lost or    *)
(* done twice when another does not wait.                                  *)
(*                                                                         *)
(* EmailOutbox: an outbox row is held by the claim of a worker, which goes *)
(* stale.  The invariant (Laws) says who may hold the lock of a row and    *)
(* that without an excuse the holder alone works on it, so the result it   *)
(* writes is the result of the one delivery.                               *)
(*                                                                         *)
(* NumberSequences: a sequence row is held by the transaction that         *)
(* incremented it, so no number is lost to a rollback or to a setting.  A  *)
(* number has at most ten digits and is padded to at most ten, so the      *)
(* power of ten that shifts the digits of the prefix is one of ten.        *)
(***************************************************************************)
EXTENDS EmailOutbox, NumberSequences, FiniteSetTheorems, TLAPS

\* A run that has taken a candidate and not yet written its result.
Working(p) == process[p].phase \in {"claimed", "locked", "finishing"}

\* The phases in which a run may hold the lock of the row it works on.
Holds(p, e) ==
    /\ process[p].email = e
    /\ \/ process[p].phase = "finishing"
       \/ p \in Workers /\ process[p].phase = "claimed"
       \/ p \in Processors /\ process[p].phase = "locked"

\* What a run lists and works on was queued, and the processor leaves its mark
\* on everything it takes.
RunLaw(p) ==
    /\ \A c \in process[p].found :
         /\ row[c.email].status # "NONE"
         /\ p \in Processors => c.attempts < MaxAttempts
    /\ p \in Workers => process[p].phase # "locked"
    /\ Working(p) =>
         /\ process[p].email \in Emails /\ process[p].attempts < MaxAttempts
         /\ row[process[p].email].status # "NONE"
         /\ p \in Processors => excuse[process[p].email] = "claimless"
    /\ process[p].phase = "finishing" => process[p].outcome # "none"

RowLaw(e) ==
    /\ row[e].status = "NONE" => row[e] = NoRow
    /\ row[e].lockedBy = None => row[e].lockAge = 0
    /\ row[e].lockedBy \in Runs => Holds(row[e].lockedBy, e)

\* Without an excuse one worker at most works on a row, it holds the lock, and
\* a delivered row can only be claimed by taking that lock over.
DeliveryLaw(e) ==
    excuse[e] = "none" =>
      /\ accepted[e] \in {0, 1}
      /\ accepted[e] = 1 => \/ row[e].status = "SENT" \/ row[e].down
                            \/ row[e].lockedBy # None
      /\ \A w \in Workers : Working(w) /\ process[w].email = e =>
           /\ row[e].lockedBy = w
           /\ accepted[e] = 1 => process[w].phase = "finishing" /\ process[w].outcome = "SENT"

Laws ==
    /\ \A p \in Runs : RunLaw(p)
    /\ \A e \in Emails : RowLaw(e) /\ DeliveryLaw(e)

IInv == TypeOK /\ Laws

-----------------------------------------------------------------------------
(* What the rows and runs of a step keep. *)

\* No row is unqueued, and what the processor touched stays so.
KnownStays ==
    \A e \in Emails :
      /\ row[e].status # "NONE" => row'[e].status # "NONE"
      /\ excuse[e] = "claimless" => excuse'[e] = "claimless"

\* The typed values, row by row and run by run.
LEMMA ValueTypes ==
    ASSUME TypeOK
    PROVE  /\ \A e \in Emails :
                /\ row[e] \in Row /\ accepted[e] \in 0 .. 2
                /\ excuse[e] \in {"none", "recovered", "unanswered", "claimless"}
                /\ row[e].status \in {"NONE", "QUEUED", "SENT", "FAILED"}
                /\ row[e].attempts \in 0 .. MaxAttempts
                /\ row[e].lockedBy \in Runs \cup {None, Lost}
                /\ row[e].lockAge \in 0 .. OldestLock /\ row[e].down \in BOOLEAN
           /\ \A p \in Runs :
                /\ process[p] \in Process /\ process[p].age \in 0 .. RunTicks
                /\ process[p].found \subseteq [email: Emails, attempts: 0 .. MaxAttempts]
                /\ process[p].attempts \in 0 .. MaxAttempts
                /\ process[p].outcome \in {"none", "SENT", "FAILED", "BLOCKED"}
  BY DEF TypeOK, Row, Process

\* The law of a run that takes no step.
LEMMA RunLawStays ==
    ASSUME TypeOK, KnownStays, NEW p \in Runs, RunLaw(p), process'[p] = process[p]
    PROVE  RunLaw(p)'
<1>1. process[p].found \subseteq [email: Emails, attempts: 0 .. MaxAttempts]
  BY ValueTypes
<1>2. \A c \in process'[p].found :
        row'[c.email].status # "NONE" /\ (p \in Processors => c.attempts < MaxAttempts)
  BY <1>1 DEF RunLaw, KnownStays
<1>3. p \in Workers => process'[p].phase # "locked"
  BY DEF RunLaw
<1>4. Working(p)' =>
        /\ process'[p].email \in Emails /\ process'[p].attempts < MaxAttempts
        /\ row'[process'[p].email].status # "NONE"
        /\ p \in Processors => excuse'[process'[p].email] = "claimless"
  BY DEF RunLaw, KnownStays, Working
<1>5. process'[p].phase = "finishing" => process'[p].outcome # "none"
  BY DEF RunLaw
<1>6. QED
  BY <1>2, <1>3, <1>4, <1>5 DEF RunLaw

\* The laws of a row whose runs take no step.
LEMMA RowLawsStay ==
    ASSUME TypeOK, NEW e \in Emails, RowLaw(e), DeliveryLaw(e),
           row'[e] = row[e], accepted'[e] = accepted[e], excuse'[e] = excuse[e],
           NEW p \in Runs, \A q \in Runs \ {p} : process'[q] = process[q],
           ~Holds(p, e), ~(Working(p)' /\ process'[p].email = e)
    PROVE  RowLaw(e)' /\ DeliveryLaw(e)'
<1>1. row[e].lockedBy \in Runs =>
        row[e].lockedBy # p /\ process'[row[e].lockedBy] = process[row[e].lockedBy]
  BY DEF RowLaw
<1>2. RowLaw(e)'
  BY <1>1 DEF RowLaw, Holds
<1>3. \A w \in Workers : Working(w)' /\ process'[w].email = e =>
        process'[w] = process[w] /\ Working(w)
  BY DEF Runs, Working
<1>4. DeliveryLaw(e)'
  BY <1>3 DEF DeliveryLaw
<1>5. QED
  BY <1>2, <1>4

\* A request or an event changes one row and no run.
LEMMA RowChanges ==
    ASSUME IInv, TypeOK', NEW e \in Emails,
           \A f \in Emails \ {e} :
             row'[f] = row[f] /\ accepted'[f] = accepted[f] /\ excuse'[f] = excuse[f],
           process' = process, KnownStays, RowLaw(e)', DeliveryLaw(e)'
    PROVE  IInv'
<1>1. \A p \in Runs : RunLaw(p)'
  BY RunLawStays DEF IInv, Laws
<1>2. ASSUME NEW f \in Emails \ {e}
      PROVE  RowLaw(f)' /\ DeliveryLaw(f)'
  <2>1. RowLaw(f) /\ DeliveryLaw(f)
    BY DEF IInv, Laws
  <2>2. RowLaw(f)'
    BY <2>1 DEF RowLaw, Holds
  <2>3. DeliveryLaw(f)'
    BY <2>1 DEF DeliveryLaw, Working
  <2>4. QED
    BY <2>2, <2>3
<1>3. QED
  BY <1>1, <1>2 DEF IInv, Laws

\* A run that works on no row, and does not begin to, changes itself alone.
LEMMA RunChanges ==
    ASSUME IInv, TypeOK', NEW p \in Runs, UNCHANGED <<row, accepted, excuse>>,
           \A q \in Runs \ {p} : process'[q] = process[q],
           ~Working(p), ~Working(p)', RunLaw(p)'
    PROVE  IInv'
<1>1. KnownStays
  BY DEF KnownStays
<1>2. \A q \in Runs : RunLaw(q)'
  BY <1>1, RunLawStays DEF IInv, Laws
<1>3. ASSUME NEW e \in Emails
      PROVE  RowLaw(e)' /\ DeliveryLaw(e)'
  <2>1. ~Holds(p, e)
    BY DEF Holds, Working
  <2>2. QED
    BY <2>1, RowLawsStay DEF IInv, Laws
<1>4. QED
  BY <1>2, <1>3 DEF IInv, Laws

\* A run changes itself and the row it works on.
LEMMA BothChange ==
    ASSUME IInv, TypeOK', NEW p \in Runs, NEW e \in Emails,
           \A f \in Emails \ {e} :
             row'[f] = row[f] /\ accepted'[f] = accepted[f] /\ excuse'[f] = excuse[f],
           \A q \in Runs \ {p} : process'[q] = process[q],
           Working(p) => process[p].email = e, Working(p)' => process'[p].email = e,
           KnownStays, RunLaw(p)', RowLaw(e)', DeliveryLaw(e)'
    PROVE  IInv'
<1>1. \A q \in Runs : RunLaw(q)'
  BY RunLawStays DEF IInv, Laws
<1>2. ASSUME NEW f \in Emails \ {e}
      PROVE  RowLaw(f)' /\ DeliveryLaw(f)'
  <2>1. ~Holds(p, f) /\ ~(Working(p)' /\ process'[p].email = f)
    BY DEF Holds, Working
  <2>2. QED
    BY <2>1, RowLawsStay DEF IInv, Laws
<1>3. QED
  BY <1>1, <1>2 DEF IInv, Laws

\* A change of the fields of a row, of a request or of an event.
LEMMA RowTyped ==
    ASSUME TypeOK, NEW e \in Emails, NEW new \in Row, NEW n \in 0 .. 2,
           row' = [row EXCEPT ![e] = new], accepted' = [accepted EXCEPT ![e] = n],
           UNCHANGED <<process, excuse>>, queuing' \subseteq Emails
    PROVE  /\ TypeOK' /\ row'[e] = new /\ accepted'[e] = n
           /\ \A f \in Emails \ {e} : row'[f] = row[f] /\ accepted'[f] = accepted[f]
  BY DEF TypeOK

\* Nobody works on a row that is not there, and nothing of it was delivered.
LEMMA AbsentRow ==
    ASSUME IInv, NEW e \in Emails, row[e].status = "NONE"
    PROVE  /\ row[e] = NoRow
           /\ \A p \in Runs : ~(Working(p) /\ process[p].email = e)
           /\ excuse[e] = "none" => accepted[e] = 0
<1>1. row[e] = NoRow
  BY DEF IInv, Laws, RowLaw
<1>2. \A p \in Runs : ~(Working(p) /\ process[p].email = e)
  BY DEF IInv, Laws, RunLaw
<1>3. excuse[e] = "none" => accepted[e] = 0
  BY <1>1, TokensDistinct DEF IInv, Laws, DeliveryLaw, NoRow
<1>4. QED
  BY <1>1, <1>2, <1>3

\* The bounds of a row's fields.
LEMMA Bounds ==
    /\ AlwaysDue \in AlwaysDue .. Backoff /\ Backoff \in AlwaysDue .. Backoff
    /\ 0 \in 0 .. MaxAttempts /\ 1 \in 0 .. MaxAttempts /\ 0 \in 0 .. OldestLock
    /\ 0 \in 0 .. RunTicks /\ NoRow \in Row /\ Idle \in Process
    /\ MaxAttempts \in 0 .. MaxAttempts
<1>1. /\ AlwaysDue \in AlwaysDue .. Backoff /\ Backoff \in AlwaysDue .. Backoff
      /\ 0 \in 0 .. MaxAttempts /\ 1 \in 0 .. MaxAttempts /\ 0 \in 0 .. OldestLock
      /\ 0 \in 0 .. RunTicks /\ MaxAttempts \in 0 .. MaxAttempts
  BY BoundsType DEF AlwaysDue, OldestLock
<1>2. NoRow \in Row
  BY <1>1 DEF NoRow, Row
<1>3. Idle \in Process
  BY <1>1 DEF Idle, Process
<1>4. QED
  BY <1>1, <1>2, <1>3

\* The first state.
LEMMA InitInv == Init => IInv
<1> SUFFICES ASSUME Init PROVE IInv
  OBVIOUS
<1>1. TypeOK
  BY Bounds DEF Init, TypeOK
<1>2. \A p \in Runs : RunLaw(p)
  BY DEF Init, RunLaw, Working, Idle
<1>3. \A e \in Emails : RowLaw(e)
  BY TokensDistinct DEF Init, RowLaw, NoRow, Runs
<1>4. \A e \in Emails : DeliveryLaw(e)
  BY DEF Init, DeliveryLaw, Working, Idle, Runs
<1>5. QED
  BY <1>1, <1>2, <1>3, <1>4 DEF IInv, Laws

\* A lookup keeps a key in mind.
LEMMA QueueLookupStep ==
    ASSUME IInv, NEW e \in Emails, QueueLookup(e)
    PROVE  IInv'
<1>1. TypeOK'
  BY DEF QueueLookup, IInv, TypeOK
<1>2. UNCHANGED <<row, process, accepted, excuse>>
  BY DEF QueueLookup
<1>3. KnownStays /\ RowLaw(e)' /\ DeliveryLaw(e)'
  BY <1>2 DEF IInv, Laws, KnownStays, RowLaw, DeliveryLaw, Holds, Working
<1>4. QED
  BY <1>1, <1>2, <1>3, RowChanges

\* A request creates the row or finds it there.
LEMMA QueueCreateStep ==
    ASSUME IInv, NEW e \in Emails, QueueCreate(e)
    PROVE  IInv'
<1> DEFINE new == Created(row[e], [NoRow EXCEPT !.status = "QUEUED"])
<1>1. /\ row' = [row EXCEPT ![e] = new] /\ UNCHANGED <<queuing, process, accepted, excuse>>
  BY DEF QueueCreate
<1>2. /\ new \in Row /\ new.status # "NONE"
      /\ new.lockedBy = row[e].lockedBy /\ new.lockAge = row[e].lockAge
      /\ row[e].status = "SENT" => new.status = "SENT"
      /\ row[e].down => new.down
  <2>1. CASE row[e].status = "NONE"
    <3>1. row[e] = NoRow
      BY <2>1, AbsentRow
    <3>2. new = [NoRow EXCEPT !.status = "QUEUED"]
      BY <2>1 DEF Created
    <3>3. QED
      BY <2>1, <3>1, <3>2, Bounds DEF NoRow, Row
  <2>2. CASE row[e].status # "NONE"
    BY <2>2, ValueTypes DEF Created, IInv
  <2>3. QED
    BY <2>1, <2>2
<1> HIDE DEF new
<1>3. /\ TypeOK' /\ row'[e] = new
      /\ \A f \in Emails \ {e} : row'[f] = row[f]
  BY <1>1, <1>2 DEF IInv, TypeOK
<1>4. KnownStays
  BY <1>1, <1>2, <1>3 DEF KnownStays
<1>5. RowLaw(e) /\ DeliveryLaw(e)
  BY DEF IInv, Laws
<1>6. RowLaw(e)'
  BY <1>1, <1>2, <1>3, <1>5 DEF RowLaw, Holds
<1>7. DeliveryLaw(e)'
  BY <1>1, <1>2, <1>3, <1>5 DEF DeliveryLaw, Working
<1>8. QED
  BY <1>1, <1>3, <1>4, <1>6, <1>7, RowChanges

\* A request sends at once: the row records the provider's answer.
LEMMA SendNowStep ==
    ASSUME IInv, NEW e \in Emails, SendNow(e)
    PROVE  IInv'
<1>1. PICK new \in Row, n \in 0 .. 2 :
        /\ row' = [row EXCEPT ![e] = new] /\ accepted' = [accepted EXCEPT ![e] = n]
        /\ new.status # "NONE" /\ new.lockedBy = None /\ new.lockAge = 0
        /\ n = accepted[e] \/ (n = 1 /\ new.status = "SENT")
  <2>1. row[e] = NoRow /\ accepted[e] \in 0 .. 2
    BY AbsentRow, ValueTypes DEF SendNow, IInv
  <2>2. accepted = [accepted EXCEPT ![e] = accepted[e]]
    BY DEF IInv, TypeOK
  <2> DEFINE refused == [NoRow EXCEPT !.status = "FAILED"]
             sent == [NoRow EXCEPT !.status = "SENT", !.attempts = 1]
             failed == [NoRow EXCEPT !.status = "FAILED", !.attempts = 1, !.due = Backoff]
  <2>3. /\ refused \in Row /\ sent \in Row /\ failed \in Row
        /\ refused.status = "FAILED" /\ sent.status = "SENT" /\ failed.status = "FAILED"
        /\ refused.lockedBy = None /\ sent.lockedBy = None /\ failed.lockedBy = None
        /\ refused.lockAge = 0 /\ sent.lockAge = 0 /\ failed.lockAge = 0
    BY Bounds DEF NoRow, Row
  <2>4. \/ row' = [row EXCEPT ![e] = refused] /\ accepted' = accepted
        \/ row' = [row EXCEPT ![e] = sent] /\ accepted' = [accepted EXCEPT ![e] = 1]
        \/ row' = [row EXCEPT ![e] = failed] /\ accepted' = accepted
    BY <2>1 DEF SendNow, IInv, TypeOK
  <2> HIDE DEF refused, sent, failed
  <2>5. QED
    BY <2>1, <2>2, <2>3, <2>4
<1>2. row[e].status = "NONE" /\ UNCHANGED <<queuing, process, excuse>>
  BY DEF SendNow
<1>3. /\ \A p \in Runs : ~(Working(p) /\ process[p].email = e)
      /\ excuse[e] = "none" => accepted[e] = 0
  BY <1>2, AbsentRow
<1>4. /\ TypeOK' /\ row'[e] = new /\ accepted'[e] = n
      /\ \A f \in Emails \ {e} : row'[f] = row[f] /\ accepted'[f] = accepted[f]
  BY <1>1, <1>2, RowTyped DEF IInv, TypeOK
<1>5. KnownStays
  BY <1>1, <1>2, <1>4 DEF KnownStays
<1>6. RowLaw(e)'
  BY <1>1, <1>4, TokensDistinct DEF RowLaw, Runs
<1>7. DeliveryLaw(e)'
  BY <1>1, <1>2, <1>3, <1>4 DEF DeliveryLaw, Working, Runs
<1>8. QED
  BY <1>2, <1>4, <1>5, <1>6, <1>7, RowChanges

\* A bounce: the row is down for good.
LEMMA ProviderBounceStep ==
    ASSUME IInv, NEW e \in Emails, ProviderBounce(e)
    PROVE  IInv'
<1> DEFINE new == [row[e] EXCEPT !.status = "FAILED", !.due = AlwaysDue, !.down = TRUE]
<1>1. /\ row' = [row EXCEPT ![e] = new] /\ UNCHANGED <<queuing, process, accepted, excuse>>
  BY DEF ProviderBounce
<1>2. /\ new \in Row /\ new.status = "FAILED" /\ new.down
      /\ new.lockedBy = row[e].lockedBy /\ new.lockAge = row[e].lockAge
  BY ValueTypes, Bounds DEF Row, IInv
<1> HIDE DEF new
<1>3. /\ TypeOK' /\ row'[e] = new
      /\ \A f \in Emails \ {e} : row'[f] = row[f]
  BY <1>1, <1>2 DEF IInv, TypeOK
<1>4. KnownStays
  BY <1>1, <1>2, <1>3 DEF KnownStays
<1>5. RowLaw(e) /\ DeliveryLaw(e)
  BY DEF IInv, Laws
<1>6. RowLaw(e)'
  BY <1>1, <1>2, <1>3, <1>5 DEF RowLaw, Holds
<1>7. DeliveryLaw(e)'
  BY <1>1, <1>2, <1>3, <1>5 DEF DeliveryLaw, Working
<1>8. QED
  BY <1>1, <1>3, <1>4, <1>6, <1>7, RowChanges

\* A delivery that the provider gives up is none.
LEMMA ProviderFailureStep ==
    ASSUME IInv, NEW e \in Emails, ProviderFailure(e)
    PROVE  IInv'
<1> DEFINE new == [row[e] EXCEPT !.status = "FAILED"]
<1>1. /\ row' = [row EXCEPT ![e] = new] /\ accepted' = [accepted EXCEPT ![e] = 0]
      /\ UNCHANGED <<queuing, process, excuse>>
  BY DEF ProviderFailure
<1>2. /\ new \in Row /\ new.status = "FAILED"
      /\ new.lockedBy = row[e].lockedBy /\ new.lockAge = row[e].lockAge
  BY ValueTypes DEF Row, IInv
<1> HIDE DEF new
<1>3. /\ TypeOK' /\ row'[e] = new /\ accepted'[e] = 0
      /\ \A f \in Emails \ {e} : row'[f] = row[f] /\ accepted'[f] = accepted[f]
  BY <1>1, <1>2, RowTyped DEF IInv, TypeOK
<1>4. KnownStays
  BY <1>1, <1>2, <1>3 DEF KnownStays
<1>5. RowLaw(e) /\ DeliveryLaw(e)
  BY DEF IInv, Laws
<1>6. RowLaw(e)'
  BY <1>1, <1>2, <1>3, <1>5 DEF RowLaw, Holds
<1>7. DeliveryLaw(e)'
  BY <1>1, <1>2, <1>3, <1>5 DEF DeliveryLaw, Working
<1>8. QED
  BY <1>1, <1>3, <1>4, <1>6, <1>7, RowChanges

-----------------------------------------------------------------------------
(* The steps of the runs. *)

\* A run that changes itself.
LEMMA RunTyped ==
    ASSUME TypeOK, NEW p \in Runs, NEW s \in Process, process' = [process EXCEPT ![p] = s]
    PROVE  /\ process' \in [Runs -> Process] /\ process'[p] = s
           /\ \A q \in Runs \ {p} : process'[q] = process[q]
  BY DEF TypeOK

\* A run that writes one row.
LEMMA RowWritten ==
    ASSUME TypeOK, NEW e \in Emails, NEW new \in Row, row' = [row EXCEPT ![e] = new]
    PROVE  /\ row' \in [Emails -> Row] /\ row'[e] = new
           /\ \A f \in Emails \ {e} : row'[f] = row[f]
  BY DEF TypeOK

\* What a run finds at its start.
LEMMA CandidatesTyped ==
    ASSUME TypeOK, NEW S \in SUBSET Emails
    PROVE  /\ Candidates(S) \subseteq [email: Emails, attempts: 0 .. MaxAttempts]
           /\ \A c \in Candidates(S) : c.email \in S
  BY ValueTypes DEF Candidates

\* A run that begins finds rows that were queued.
LEMMA BeginStep ==
    ASSUME IInv, NEW p \in Runs, NEW found, process[p].phase = "idle",
           NEW S \in SUBSET Emails, found \subseteq Candidates(S),
           \A e \in S : row[e].status # "NONE",
           \A c \in found : p \in Processors => c.attempts < MaxAttempts,
           process' = [process EXCEPT ![p] = [Idle EXCEPT !.phase = "running", !.found = found]],
           UNCHANGED <<row, queuing, accepted, excuse>>
    PROVE  IInv'
<1> DEFINE s == [Idle EXCEPT !.phase = "running", !.found = found]
<1>1. /\ found \subseteq [email: Emails, attempts: 0 .. MaxAttempts]
      /\ \A c \in found : c.email \in S
  BY CandidatesTyped DEF IInv
<1>2. s \in Process /\ s.phase = "running" /\ s.found = found
  BY <1>1, Bounds DEF Process, Idle
<1> HIDE DEF s
<1>3. /\ process' \in [Runs -> Process] /\ process'[p] = s
      /\ \A q \in Runs \ {p} : process'[q] = process[q]
  BY <1>2, RunTyped DEF IInv, s
<1>4. TypeOK'
  BY <1>3 DEF IInv, TypeOK
<1>5. ~Working(p) /\ ~Working(p)'
  BY <1>2, <1>3 DEF Working
<1>6. RunLaw(p)'
  BY <1>1, <1>2, <1>3, <1>5 DEF RunLaw
<1>7. QED
  BY <1>3, <1>4, <1>5, <1>6, RunChanges

\* A worker lists the rows that are due and unlocked.
LEMMA StartStep ==
    ASSUME IInv, NEW w \in Runs, Start(w)
    PROVE  IInv'
<1> DEFINE S == {e \in Emails : Retryable(e, 0) /\ Unlocked(e, 0)}
<1>1. /\ S \in SUBSET Emails /\ \A e \in S : row[e].status # "NONE"
      /\ w \notin Processors
  BY TokensDistinct DEF Retryable, Start
<1>2. /\ process[w].phase = "idle"
      /\ process' = [process EXCEPT ![w] =
                       [Idle EXCEPT !.phase = "running", !.found = Candidates(S)]]
      /\ UNCHANGED <<row, queuing, accepted, excuse>>
  BY DEF Start
<1> HIDE DEF S
<1>3. QED
  BY <1>1, <1>2, BeginStep

\* The processor lists what is due, and nothing exhausted.
LEMMA StartProcessorStep ==
    ASSUME IInv, NEW p \in Runs, StartProcessor(p)
    PROVE  IInv'
<1> DEFINE S == {e \in Emails : Retryable(e, 0)}
           found == {c \in Candidates(S) : c.attempts < MaxAttempts}
<1>1. S \in SUBSET Emails /\ \A e \in S : row[e].status # "NONE"
  BY DEF Retryable
<1>2. /\ process[p].phase = "idle"
      /\ process' = [process EXCEPT ![p] = [Idle EXCEPT !.phase = "running", !.found = found]]
      /\ UNCHANGED <<row, queuing, accepted, excuse>>
  BY DEF StartProcessor
<1> HIDE DEF S
<1>3. found \subseteq Candidates(S) /\ \A c \in found : c.attempts < MaxAttempts
  OBVIOUS
<1> HIDE DEF found
<1>4. QED
  BY <1>1, <1>2, <1>3, BeginStep

\* A run that is done with its list.
LEMMA EndStep ==
    ASSUME IInv, NEW p \in Runs, End(p)
    PROVE  IInv'
<1>1. /\ process[p].phase = "running" /\ process' = [process EXCEPT ![p] = Idle]
      /\ UNCHANGED <<row, queuing, accepted, excuse>>
  BY DEF End
<1>2. /\ process' \in [Runs -> Process] /\ process'[p] = Idle
      /\ \A q \in Runs \ {p} : process'[q] = process[q]
  BY <1>1, Bounds, RunTyped DEF IInv
<1>3. TypeOK'
  BY <1>1, <1>2 DEF IInv, TypeOK
<1>4. ~Working(p) /\ ~Working(p)'
  BY <1>1, <1>2 DEF Working, Idle
<1>5. RunLaw(p)'
  BY <1>2, <1>4 DEF RunLaw, Idle
<1>6. QED
  BY <1>1, <1>2, <1>3, <1>4, <1>5, RunChanges

\* What an excuse changes.
LEMMA ExcuseTypes ==
    ASSUME TypeOK, NEW e \in Emails, NEW when,
           NEW why \in {"recovered", "unanswered", "claimless"}, Excuses(e, when, why)
    PROVE  /\ excuse' \in [Emails -> {"none", "recovered", "unanswered", "claimless"}]
           /\ \A f \in Emails \ {e} : excuse'[f] = excuse[f]
           /\ excuse[e] = "claimless" => excuse'[e] = "claimless"
           /\ excuse'[e] = "none" => excuse[e] = "none" /\ ~when
           /\ when /\ why = "claimless" => excuse'[e] = "claimless"
  BY DEF TypeOK, Excuses

\* A claim that finds its candidate taken, sent or down leaves the row alone.
LEMMA ClaimFails ==
    ASSUME IInv, NEW w \in Runs, NEW c \in process[w].found, w \in Workers,
           process[w].phase = "running",
           process' = [process EXCEPT ![w].found = @ \ {c}, ![w].email = None,
                                      ![w].attempts = c.attempts],
           UNCHANGED <<row, queuing, accepted, excuse>>
    PROVE  IInv'
<1> DEFINE s == [process[w] EXCEPT !.found = @ \ {c}, !.email = None, !.attempts = c.attempts]
<1>1. c \in [email: Emails, attempts: 0 .. MaxAttempts]
  BY ValueTypes DEF IInv
<1>2. /\ s \in Process /\ s.phase = "running" /\ s.found \subseteq process[w].found
  BY <1>1, ValueTypes DEF IInv, Process
<1>3. process' = [process EXCEPT ![w] = s]
  BY DEF IInv, TypeOK, Process
<1> HIDE DEF s
<1>4. /\ process' \in [Runs -> Process] /\ process'[w] = s
      /\ \A q \in Runs \ {w} : process'[q] = process[q]
  BY <1>2, <1>3, RunTyped DEF IInv
<1>5. TypeOK'
  BY <1>4 DEF IInv, TypeOK
<1>6. ~Working(w) /\ ~Working(w)'
  BY <1>2, <1>4 DEF Working
<1>7. RunLaw(w)'
  BY <1>2, <1>4, <1>6 DEF IInv, Laws, RunLaw
<1>8. QED
  BY <1>4, <1>5, <1>6, <1>7, RunChanges

\* The law of a row that one run works on and that was not delivered.
LEMMA NotDelivered ==
    ASSUME NEW e, NEW p, accepted'[e] = 0, row'[e].lockedBy = p,
           \A v \in Workers : Working(v)' /\ process'[v].email = e => v = p
    PROVE  DeliveryLaw(e)'
  BY DEF DeliveryLaw

\* The same once that run knows that it was delivered.
LEMMA Delivered ==
    ASSUME NEW e, NEW p, row'[e].lockedBy = p, p # None, NEW outcome,
           accepted'[e] = 0 \/ (accepted'[e] = 1 /\ outcome = "SENT"),
           process'[p].phase = "finishing", process'[p].outcome = outcome,
           \A v \in Workers : Working(v)' /\ process'[v].email = e => v = p
    PROVE  DeliveryLaw(e)'
  BY DEF DeliveryLaw

\* A claim that holds: the candidate is due and nobody's, unless a stale lock
\* is taken over.
LEMMA ClaimHolds ==
    ASSUME IInv, NEW p \in Runs, NEW c \in process[p].found, p \in Workers,
           process[p].phase = "running", Claimable(c, process[p].age),
           process' = [process EXCEPT ![p].found = @ \ {c}, ![p].phase = "claimed",
                         ![p].email = c.email, ![p].attempts = c.attempts],
           row' = [row EXCEPT ![c.email].lockedBy = p, ![c.email].lockAge = process[p].age],
           Excuses(c.email, row[c.email].lockAge > Stale, "recovered"),
           UNCHANGED <<queuing, accepted>>
    PROVE  IInv'
<1>1. PICK e \in Emails : e = c.email
  BY ValueTypes DEF IInv
<1>2. PICK age \in 0 .. RunTicks : age = process[p].age
  BY ValueTypes DEF IInv
<1> DEFINE s == [process[p] EXCEPT !.found = @ \ {c}, !.phase = "claimed",
                                   !.email = e, !.attempts = c.attempts]
           new == [row[e] EXCEPT !.lockedBy = p, !.lockAge = age]
<1>3. c \in [email: Emails, attempts: 0 .. MaxAttempts]
  BY ValueTypes DEF IInv
<1>4. /\ s \in Process /\ s.phase = "claimed" /\ s.found \subseteq process[p].found
      /\ s.email = e /\ s.attempts = c.attempts
  BY <1>1, <1>3, ValueTypes DEF IInv, Process
<1>5. process' = [process EXCEPT ![p] = s]
  BY <1>1 DEF IInv, TypeOK, Process
<1>6. /\ new \in Row /\ new.status = row[e].status
      /\ new.lockedBy = p
  <2>1. age \in 0 .. OldestLock
    BY BoundsType DEF OldestLock
  <2>2. QED
    BY <2>1, ValueTypes DEF IInv, Row
<1>7. row' = [row EXCEPT ![e] = new]
  BY <1>1, <1>2 DEF IInv, TypeOK, Row
<1> HIDE DEF s, new
<1>8. /\ process' \in [Runs -> Process] /\ process'[p] = s
      /\ \A q \in Runs \ {p} : process'[q] = process[q]
  BY <1>4, <1>5, RunTyped DEF IInv
<1>9. /\ row' \in [Emails -> Row] /\ row'[e] = new /\ \A f \in Emails \ {e} : row'[f] = row[f]
  BY <1>6, <1>7, RowWritten DEF IInv
<1>10. /\ excuse' \in [Emails -> {"none", "recovered", "unanswered", "claimless"}]
       /\ \A f \in Emails \ {e} : excuse'[f] = excuse[f]
       /\ excuse[e] = "claimless" => excuse'[e] = "claimless"
       /\ excuse'[e] = "none" => excuse[e] = "none" /\ ~(row[e].lockAge > Stale)
  <2>1. Excuses(e, row[e].lockAge > Stale, "recovered")
    BY <1>1
  <2>2. QED
    BY <2>1, ExcuseTypes DEF IInv
<1>11. TypeOK'
  BY <1>8, <1>9, <1>10 DEF IInv, TypeOK
<1>12. /\ row[e].status \in {"QUEUED", "FAILED"} /\ ~row[e].down
       /\ row[e].lockedBy = None \/ row[e].lockAge > Stale + age
       /\ c.attempts < MaxAttempts
  BY <1>1, <1>2 DEF Claimable, Retryable, Unlocked
<1>13. ~Working(p) /\ (Working(p)' => process'[p].email = e)
  BY <1>4, <1>8 DEF Working
<1>14. KnownStays
  BY <1>6, <1>9, <1>10 DEF KnownStays
<1>15. RunLaw(p)'
  <2>1. \A d \in process'[p].found : row'[d.email].status # "NONE"
    <3>1. ASSUME NEW d \in process'[p].found PROVE row'[d.email].status # "NONE"
      <4>1. d \in process[p].found /\ d.email \in Emails
        BY <1>4, <1>8, ValueTypes DEF IInv
      <4>2. row[d.email].status # "NONE"
        BY <4>1 DEF IInv, Laws, RunLaw
      <4>3. QED
        BY <1>14, <4>1, <4>2 DEF KnownStays
    <3>2. QED
      BY <3>1
  <2>2. p \notin Processors
    BY TokensDistinct
  <2>3. QED
    BY <1>4, <1>6, <1>8, <1>9, <1>12, <2>1, <2>2 DEF RunLaw, Working
<1>16. RowLaw(e)'
  <2>1. row'[e].status # "NONE" /\ row'[e].lockedBy = p /\ p # None
    BY <1>6, <1>9, <1>12, TokensDistinct
  <2>2. Holds(p, e)'
    BY <1>4, <1>8 DEF Holds
  <2>3. QED
    BY <2>1, <2>2 DEF RowLaw
<1>17. DeliveryLaw(e)'
  <2>1. CASE excuse'[e] # "none"
    BY <2>1 DEF DeliveryLaw
  <2>2. CASE excuse'[e] = "none"
    <3>1. excuse[e] = "none" /\ row[e].lockedBy = None
      <4>1. row[e].lockAge \in Int /\ age \in Nat /\ Stale \in Nat
        BY ValueTypes, BoundsType DEF IInv, OldestLock
      <4>2. QED
        BY <1>10, <1>12, <2>2, <4>1
    <3>2. DeliveryLaw(e)
      BY DEF IInv, Laws
    <3>3. accepted'[e] = 0
      <4>1. accepted[e] = 0
        BY <1>12, <3>1, <3>2 DEF DeliveryLaw
      <4>2. QED
        BY <4>1
    <3>4. \A v \in Workers : ~(Working(v) /\ process[v].email = e)
      BY <3>1, <3>2, TokensDistinct DEF DeliveryLaw
    <3>5. row'[e].lockedBy = p
      BY <1>6, <1>9
    <3>6. ASSUME NEW v \in Workers, Working(v)', process'[v].email = e
          PROVE  v = p
      <4>1. v \in Runs
        BY DEF Runs
      <4>2. v # p => process'[v] = process[v]
        BY <1>8, <4>1
      <4>3. v # p => Working(v) /\ process[v].email = e
        BY <3>6, <4>2 DEF Working
      <4>4. QED
        BY <3>4, <4>3
    <3>7. QED
      BY <3>3, <3>5, <3>6, NotDelivered
  <2>3. QED
    BY <2>1, <2>2
<1>18. QED
  BY <1>8, <1>9, <1>10, <1>11, <1>13, <1>14, <1>15, <1>16, <1>17, BothChange

\* A worker tries its next candidate: the conditional update holds or not.
LEMMA ClaimStep ==
    ASSUME IInv, NEW w \in Runs, Claim(w)
    PROVE  IInv'
<1>1. PICK c \in process[w].found :
        /\ w \in Workers /\ process[w].phase = "running"
        /\ process' = [process EXCEPT ![w].found = @ \ {c},
             ![w].phase = IF Claimable(c, process[w].age) THEN "claimed" ELSE @,
             ![w].email = IF Claimable(c, process[w].age) THEN c.email ELSE None,
             ![w].attempts = c.attempts]
        /\ IF Claimable(c, process[w].age)
           THEN /\ row' = [row EXCEPT ![c.email].lockedBy = w,
                                      ![c.email].lockAge = process[w].age]
                /\ Excuses(c.email, row[c.email].lockAge > Stale, "recovered")
           ELSE UNCHANGED <<row, excuse>>
        /\ UNCHANGED <<queuing, accepted>>
  BY DEF Claim
<1>2. CASE Claimable(c, process[w].age)
  <2>1. process' = [process EXCEPT ![w].found = @ \ {c}, ![w].phase = "claimed",
                      ![w].email = c.email, ![w].attempts = c.attempts]
    BY <1>1, <1>2
  <2>2. QED
    BY <1>1, <1>2, <2>1, ClaimHolds
<1>3. CASE ~Claimable(c, process[w].age)
  <2>1. process' = [process EXCEPT ![w].found = @ \ {c}, ![w].email = None,
                                   ![w].attempts = c.attempts]
    BY <1>1, <1>3 DEF IInv, TypeOK, Process
  <2>2. QED
    BY <1>1, <1>3, <2>1, ClaimFails
<1>4. QED
  BY <1>2, <1>3

\* What the laws say of a run that works.
LEMMA AtWork ==
    ASSUME IInv, NEW p \in Runs, Working(p)
    PROVE  /\ process[p].email \in Emails /\ process[p].attempts < MaxAttempts
           /\ row[process[p].email].status # "NONE"
           /\ p \in Processors => excuse[process[p].email] = "claimless"
           /\ p \in Workers => process[p].phase # "locked"
           /\ RowLaw(process[p].email) /\ DeliveryLaw(process[p].email)
           /\ \A c \in process[p].found :
                /\ c.email \in Emails /\ row[c.email].status # "NONE"
                /\ p \in Processors => c.attempts < MaxAttempts
<1>1. RunLaw(p)
  BY DEF IInv, Laws
<1>2. process[p].email \in Emails
  BY <1>1 DEF RunLaw
<1>3. RowLaw(process[p].email) /\ DeliveryLaw(process[p].email)
  BY <1>2 DEF IInv, Laws
<1>4. \A c \in process[p].found : c.email \in Emails
  BY ValueTypes DEF IInv
<1>5. QED
  BY <1>1, <1>2, <1>3, <1>4 DEF RunLaw

\* The processor takes a candidate without a claim, and leaves its mark.
LEMMA TakeStep ==
    ASSUME IInv, NEW p \in Runs, Take(p)
    PROVE  IInv'
<1>1. PICK c \in process[p].found :
        /\ p \in Processors /\ process[p].phase = "running"
        /\ process' = [process EXCEPT ![p].found = @ \ {c}, ![p].phase = "claimed",
                                      ![p].email = c.email, ![p].attempts = c.attempts]
        /\ Excuses(c.email, TRUE, "claimless")
        /\ UNCHANGED <<row, queuing, accepted>>
  BY DEF Take
<1>2. c \in [email: Emails, attempts: 0 .. MaxAttempts]
  BY ValueTypes DEF IInv
<1>3. PICK e \in Emails : e = c.email
  BY <1>2
<1> DEFINE s == [process[p] EXCEPT !.found = @ \ {c}, !.phase = "claimed",
                                   !.email = e, !.attempts = c.attempts]
<1>4. /\ s \in Process /\ s.phase = "claimed" /\ s.found \subseteq process[p].found
      /\ s.email = e /\ s.attempts = c.attempts
  BY <1>2, <1>3, ValueTypes DEF IInv, Process
<1>5. process' = [process EXCEPT ![p] = s]
  BY <1>1, <1>3 DEF IInv, TypeOK, Process
<1> HIDE DEF s
<1>6. /\ process' \in [Runs -> Process] /\ process'[p] = s
      /\ \A q \in Runs \ {p} : process'[q] = process[q]
  BY <1>4, <1>5, RunTyped DEF IInv
<1>7. /\ excuse' \in [Emails -> {"none", "recovered", "unanswered", "claimless"}]
      /\ \A f \in Emails \ {e} : excuse'[f] = excuse[f]
      /\ excuse'[e] = "claimless"
  BY <1>1, <1>3, ExcuseTypes DEF IInv
<1>8. TypeOK'
  BY <1>1, <1>6, <1>7 DEF IInv, TypeOK
<1>9. p \notin Workers
  BY <1>1, TokensDistinct
<1>10. KnownStays
  BY <1>1, <1>7 DEF KnownStays
<1>11. ~Working(p) /\ (Working(p)' => process'[p].email = e)
  BY <1>1, <1>4, <1>6 DEF Working
<1>12. RunLaw(p)
  BY DEF IInv, Laws
<1>13. RunLaw(p)'
  <2>1. \A d \in process'[p].found : row'[d.email].status # "NONE" /\ d.attempts < MaxAttempts
    BY <1>1, <1>4, <1>6, <1>12 DEF RunLaw
  <2>2. row'[e].status # "NONE" /\ process'[p].attempts < MaxAttempts
    BY <1>1, <1>3, <1>4, <1>6, <1>12 DEF RunLaw
  <2>3. process'[p].email = e /\ process'[p].phase = "claimed" /\ excuse'[e] = "claimless"
    BY <1>4, <1>6, <1>7
  <2>4. QED
    BY <1>9, <2>1, <2>2, <2>3 DEF RunLaw
<1>14. RowLaw(e)'
  <2>1. RowLaw(e) /\ ~Holds(p, e)
    BY <1>1 DEF IInv, Laws, Holds
  <2>2. row' = row
    BY <1>1
  <2>3. row[e].lockedBy \in Runs =>
          process'[row[e].lockedBy] = process[row[e].lockedBy]
    BY <1>6, <2>1 DEF RowLaw
  <2>4. QED
    BY <2>1, <2>2, <2>3 DEF RowLaw, Holds
<1>15. DeliveryLaw(e)'
  BY <1>7 DEF DeliveryLaw
<1>16. QED
  BY <1>1, <1>6, <1>7, <1>8, <1>10, <1>11, <1>13, <1>14, <1>15, BothChange

\* A run that goes on with the row it works on.
LEMMA WorkGoesOn ==
    ASSUME IInv, NEW p \in Runs, Working(p), NEW e \in Emails, e = process[p].email,
           NEW s \in Process, process' = [process EXCEPT ![p] = s],
           s.email = e, s.attempts = process[p].attempts, s.found = process[p].found,
           s.phase \in {"locked", "finishing"}, s.phase = "locked" => p \in Processors,
           s.phase = "finishing" => s.outcome # "none",
           KnownStays
    PROVE  /\ process' \in [Runs -> Process] /\ process'[p] = s
           /\ \A q \in Runs \ {p} : process'[q] = process[q]
           /\ Holds(p, e)' /\ RunLaw(p)'
<1>1. /\ process' \in [Runs -> Process] /\ process'[p] = s
      /\ \A q \in Runs \ {p} : process'[q] = process[q]
  BY RunTyped DEF IInv
<1>2. Holds(p, e)'
  BY <1>1 DEF Holds
<1>3. RunLaw(p)'
  <2>1. \A d \in process'[p].found :
          row'[d.email].status # "NONE" /\ (p \in Processors => d.attempts < MaxAttempts)
    BY <1>1, AtWork DEF KnownStays
  <2>2. /\ process'[p].email \in Emails /\ process'[p].attempts < MaxAttempts
        /\ row'[process'[p].email].status # "NONE"
        /\ p \in Processors => excuse'[process'[p].email] = "claimless"
    BY <1>1, AtWork DEF KnownStays
  <2>3. /\ p \in Workers => process'[p].phase # "locked"
        /\ process'[p].phase = "finishing" => process'[p].outcome # "none"
    BY <1>1, TokensDistinct
  <2>4. QED
    BY <2>1, <2>2, <2>3 DEF RunLaw
<1>4. QED
  BY <1>1, <1>2, <1>3

\* The law of a row while the lock stays where it is.
LEMMA LockStays ==
    ASSUME IInv, NEW p \in Runs, NEW e \in Emails, row'[e] = row[e],
           \A q \in Runs \ {p} : process'[q] = process[q], Holds(p, e)'
    PROVE  RowLaw(e)'
<1>1. RowLaw(e)
  BY DEF IInv, Laws
<1>2. row[e].lockedBy \in Runs => Holds(row[e].lockedBy, e)'
  BY <1>1 DEF RowLaw, Holds
<1>3. QED
  BY <1>1, <1>2 DEF RowLaw

\* The laws of a row under a run of the processor, which has an excuse.
LEMMA ProcessorExcused ==
    ASSUME NEW e, excuse'[e] = "claimless"
    PROVE  DeliveryLaw(e)'
  BY DEF DeliveryLaw

\* Only a worker with the lock works on a row without an excuse.
LEMMA WorkerAlone ==
    ASSUME IInv, NEW p \in Runs, Working(p), NEW e \in Emails, e = process[p].email,
           excuse[e] = "none"
    PROVE  /\ p \in Workers /\ row[e].lockedBy = p /\ accepted[e] \in {0, 1}
           /\ accepted[e] = 1 => process[p].phase = "finishing" /\ process[p].outcome = "SENT"
           /\ \A q \in Runs \ {p} : ~(Working(q) /\ process[q].email = e)
<1>1. \A q \in Runs : Working(q) /\ process[q].email = e => q \in Workers
  BY AtWork DEF Runs
<1>2. DeliveryLaw(e)
  BY DEF IInv, Laws
<1>3. QED
  BY <1>1, <1>2 DEF DeliveryLaw

\* The recipient is suppressed, or the attachment is not what was queued.
LEMMA BlockStep ==
    ASSUME IInv, NEW p \in Runs, Block(p)
    PROVE  IInv'
<1>1. Working(p) /\ process[p].phase = "claimed"
  BY DEF Block, Working
<1>2. PICK e \in Emails : e = process[p].email
  BY <1>1, AtWork
<1> DEFINE s == [process[p] EXCEPT !.phase = "finishing", !.outcome = "BLOCKED"]
<1>3. /\ s \in Process /\ s.phase = "finishing" /\ s.outcome = "BLOCKED" /\ s.email = e
      /\ s.attempts = process[p].attempts /\ s.found = process[p].found
  BY <1>2, ValueTypes DEF IInv, Process
<1>4. process' = [process EXCEPT ![p] = s] /\ UNCHANGED <<row, queuing, accepted, excuse>>
  BY DEF Block, IInv, TypeOK, Process
<1> HIDE DEF s
<1>5. KnownStays
  BY <1>4 DEF KnownStays
<1>6. /\ process' \in [Runs -> Process] /\ process'[p] = s
      /\ \A q \in Runs \ {p} : process'[q] = process[q]
      /\ Holds(p, e)' /\ RunLaw(p)'
  BY <1>1, <1>2, <1>3, <1>4, <1>5, WorkGoesOn
<1>7. TypeOK'
  BY <1>4, <1>6 DEF IInv, TypeOK
<1>8. RowLaw(e)'
  BY <1>4, <1>6, LockStays
<1>9. DeliveryLaw(e)'
  <2>1. CASE excuse[e] # "none"
    BY <1>4, <2>1 DEF DeliveryLaw
  <2>2. CASE excuse[e] = "none"
    <3>1. /\ row'[e].lockedBy = p /\ accepted'[e] = 0
          /\ \A q \in Runs \ {p} : ~(Working(q) /\ process[q].email = e)
      BY <1>1, <1>2, <1>4, <2>2, WorkerAlone
    <3>2. \A v \in Workers : Working(v)' /\ process'[v].email = e => v = p
      BY <1>6, <3>1 DEF Working, Runs
    <3>3. QED
      BY <3>1, <3>2, NotDelivered
  <2>3. QED
    BY <2>1, <2>2
<1>10. QED
  BY <1>2, <1>3, <1>4, <1>5, <1>6, <1>7, <1>8, <1>9, BothChange

\* The processor marks the row it took.
LEMMA MarkStep ==
    ASSUME IInv, NEW p \in Runs, Mark(p)
    PROVE  IInv'
<1>1. Working(p) /\ process[p].phase = "claimed" /\ p \in Processors
  BY DEF Mark, Working
<1>2. PICK e \in Emails : e = process[p].email
  BY <1>1, AtWork
<1> DEFINE s == [process[p] EXCEPT !.phase = "locked"]
           new == [row[e] EXCEPT !.lockedBy = p, !.lockAge = 0]
<1>3. /\ s \in Process /\ s.phase = "locked" /\ s.email = e
      /\ s.attempts = process[p].attempts /\ s.found = process[p].found
  BY <1>2, ValueTypes DEF IInv, Process
<1>4. new \in Row /\ new.status = row[e].status /\ new.lockedBy = p
  BY ValueTypes, Bounds DEF IInv, Row
<1>5. /\ process' = [process EXCEPT ![p] = s] /\ UNCHANGED <<queuing, accepted, excuse>>
      /\ row' = [row EXCEPT ![e] = new]
  BY <1>2 DEF Mark, IInv, TypeOK, Process, Row
<1> HIDE DEF s, new
<1>6. /\ row' \in [Emails -> Row] /\ row'[e] = new /\ \A f \in Emails \ {e} : row'[f] = row[f]
  BY <1>4, <1>5, RowWritten DEF IInv
<1>7. KnownStays
  BY <1>4, <1>5, <1>6 DEF KnownStays
<1>8. /\ process' \in [Runs -> Process] /\ process'[p] = s
      /\ \A q \in Runs \ {p} : process'[q] = process[q]
      /\ Holds(p, e)' /\ RunLaw(p)'
  BY <1>1, <1>2, <1>3, <1>5, <1>7, WorkGoesOn
<1>9. TypeOK'
  BY <1>5, <1>6, <1>8 DEF IInv, TypeOK
<1>10. RowLaw(e)'
  <2>1. row[e].status # "NONE"
    BY <1>1, <1>2, AtWork
  <2>2. row'[e].status # "NONE" /\ row'[e].lockedBy = p /\ p # None
    BY <1>4, <1>6, <2>1, TokensDistinct DEF Runs
  <2>3. QED
    BY <1>8, <2>2 DEF RowLaw
<1>11. DeliveryLaw(e)'
  BY <1>1, <1>2, <1>5, AtWork, ProcessorExcused
<1>12. QED
  BY <1>2, <1>3, <1>5, <1>6, <1>7, <1>8, <1>9, <1>10, <1>11, BothChange

\* The provider answers.
LEMMA SendStep ==
    ASSUME IInv, NEW p \in Runs, Send(p)
    PROVE  IInv'
<1>1. /\ Working(p) /\ process[p].phase # "finishing"
      /\ p \in Workers => process[p].phase = "claimed"
  BY DEF Send, Working
<1>2. PICK e \in Emails : e = process[p].email
  BY <1>1, AtWork
<1>3. PICK outcome \in {"SENT", "FAILED"}, arrives \in BOOLEAN :
        /\ outcome = "SENT" => arrives
        /\ process' = [process EXCEPT ![p].phase = "finishing", ![p].outcome = outcome]
        /\ accepted' = [accepted EXCEPT ![e] = IF arrives THEN AcceptedAgain(@) ELSE @]
        /\ Excuses(e, arrives /\ outcome = "FAILED", "unanswered")
        /\ UNCHANGED <<row, queuing>>
  BY <1>2 DEF Send
<1> DEFINE s == [process[p] EXCEPT !.phase = "finishing", !.outcome = outcome]
           n == IF arrives THEN AcceptedAgain(accepted[e]) ELSE accepted[e]
<1>4. /\ s \in Process /\ s.phase = "finishing" /\ s.outcome = outcome /\ s.email = e
      /\ s.attempts = process[p].attempts /\ s.found = process[p].found
  BY <1>2, ValueTypes DEF IInv, Process
<1>5. process' = [process EXCEPT ![p] = s]
  BY <1>3 DEF IInv, TypeOK, Process
<1>6. n \in 0 .. 2 /\ (accepted[e] = 0 => n = IF arrives THEN 1 ELSE 0)
  BY ValueTypes DEF IInv, AcceptedAgain
<1>7. accepted' = [accepted EXCEPT ![e] = n]
  BY <1>3 DEF IInv, TypeOK
<1> HIDE DEF s, n
<1>8. /\ accepted' \in [Emails -> 0 .. 2] /\ accepted'[e] = n
      /\ \A f \in Emails \ {e} : accepted'[f] = accepted[f]
  BY <1>6, <1>7 DEF IInv, TypeOK
<1>9. /\ excuse' \in [Emails -> {"none", "recovered", "unanswered", "claimless"}]
      /\ \A f \in Emails \ {e} : excuse'[f] = excuse[f]
      /\ excuse[e] = "claimless" => excuse'[e] = "claimless"
      /\ excuse'[e] = "none" => excuse[e] = "none" /\ ~(arrives /\ outcome = "FAILED")
  BY <1>3, ExcuseTypes DEF IInv
<1>10. KnownStays
  BY <1>3, <1>9 DEF KnownStays
<1>11. /\ process' \in [Runs -> Process] /\ process'[p] = s
       /\ \A q \in Runs \ {p} : process'[q] = process[q]
       /\ Holds(p, e)' /\ RunLaw(p)'
  BY <1>1, <1>2, <1>4, <1>5, <1>10, WorkGoesOn
<1>12. TypeOK'
  BY <1>3, <1>8, <1>9, <1>11 DEF IInv, TypeOK
<1>13. RowLaw(e)'
  BY <1>3, <1>11, LockStays
<1>14. DeliveryLaw(e)'
  <2>1. CASE excuse'[e] # "none"
    BY <2>1 DEF DeliveryLaw
  <2>2. CASE excuse'[e] = "none"
    <3>1. /\ row'[e].lockedBy = p /\ accepted[e] = 0 /\ p # None
          /\ \A q \in Runs \ {p} : ~(Working(q) /\ process[q].email = e)
      BY <1>1, <1>2, <1>3, <1>9, <2>2, WorkerAlone, TokensDistinct
    <3>2. \A v \in Workers : Working(v)' /\ process'[v].email = e => v = p
      BY <1>11, <3>1 DEF Working, Runs
    <3>3. accepted'[e] = 0 \/ (accepted'[e] = 1 /\ outcome = "SENT")
      BY <1>6, <1>8, <1>9, <2>2, <3>1
    <3>4. process'[p].phase = "finishing" /\ process'[p].outcome = outcome
      BY <1>4, <1>11
    <3>5. QED
      BY <3>1, <3>2, <3>3, <3>4, Delivered
  <2>3. QED
    BY <2>1, <2>2
<1>15. QED
  BY <1>2, <1>3, <1>4, <1>8, <1>9, <1>10, <1>11, <1>12, <1>13, <1>14, BothChange

\* What the result of a run leaves of its row.
LEMMA FinishedRow ==
    ASSUME TypeOK, NEW e \in Emails, NEW s \in Process, NEW exhausts \in BOOLEAN,
           s.attempts < MaxAttempts, s.outcome # "none"
    PROVE  LET new == Finished(row[e], s, exhausts)
           IN  /\ new \in Row /\ new.status \in {"SENT", "FAILED"}
               /\ new.lockedBy = None /\ new.lockAge = 0
               /\ s.outcome = "SENT" => new.status = "SENT"
<1>1. /\ row[e] \in Row /\ s.outcome \in {"SENT", "FAILED", "BLOCKED"}
      /\ s.attempts \in 0 .. MaxAttempts
  BY ValueTypes DEF Process
<1>2. s.attempts + 1 \in 0 .. MaxAttempts
  BY <1>1, BoundsType
<1>3. CASE s.outcome = "BLOCKED"
  BY <1>1, <1>3, Bounds DEF Finished, Row
<1>4. CASE s.outcome # "BLOCKED"
  <2> DEFINE due == IF s.outcome = "FAILED" /\ s.attempts + 1 < MaxAttempts
                    THEN Backoff ELSE AlwaysDue
  <2>1. due \in AlwaysDue .. Backoff
    BY Bounds
  <2>2. Finished(row[e], s, exhausts) =
          [row[e] EXCEPT !.status = s.outcome, !.attempts = s.attempts + 1,
             !.lockedBy = None, !.lockAge = 0, !.due = due]
    BY <1>4 DEF Finished
  <2> HIDE DEF due
  <2>3. /\ s.outcome \in {"SENT", "FAILED"} /\ s.outcome \in {"NONE", "QUEUED", "SENT", "FAILED"}
        /\ None \in Runs \cup {None, Lost}
    BY <1>1, <1>4
  <2> DEFINE new == Finished(row[e], s, exhausts)
  <2>4. new = [status |-> s.outcome, attempts |-> s.attempts + 1, due |-> due,
               lockedBy |-> None, lockAge |-> 0, down |-> row[e].down]
    BY <1>1, <2>2 DEF Row
  <2>5. row[e].down \in BOOLEAN
    BY <1>1 DEF Row
  <2> HIDE DEF new
  <2>6. new \in Row
    BY <1>2, <2>1, <2>3, <2>4, <2>5, Bounds DEF Row
  <2>7. new.status = s.outcome /\ new.lockedBy = None /\ new.lockAge = 0
    BY <2>4
  <2>8. QED
    BY <2>3, <2>6, <2>7 DEF new
<1>5. QED
  BY <1>3, <1>4

\* A run writes its result, if the claim is still its own, and goes on.
LEMMA FinishStep ==
    ASSUME IInv, NEW p \in Runs, Finish(p)
    PROVE  IInv'
<1>1. Working(p) /\ process[p].phase = "finishing"
  BY DEF Finish, Working
<1>2. PICK e \in Emails : e = process[p].email
  BY <1>1, AtWork
<1> DEFINE s == [Idle EXCEPT !.phase = "running", !.age = process[p].age,
                             !.found = process[p].found]
           new == IF MayFinish(p, e) THEN Finished(row[e], process[p], p \in Workers)
                  ELSE row[e]
<1>3. /\ s \in Process /\ s.phase = "running" /\ s.found = process[p].found
  BY ValueTypes, Bounds DEF IInv, Process, Idle
<1>4. /\ process' = [process EXCEPT ![p] = s] /\ UNCHANGED <<queuing, accepted, excuse>>
      /\ row' = [row EXCEPT ![e] = new]
  BY <1>2 DEF Finish, IInv, TypeOK
<1>5. /\ new \in Row /\ new.status # "NONE"
      /\ new = row[e] \/ (new.lockedBy = None /\ new.lockAge = 0)
      /\ MayFinish(p, e) =>
           /\ new.lockedBy = None
           /\ process[p].outcome = "SENT" => new.status = "SENT"
  <2>1. process[p].outcome # "none"
    BY <1>1 DEF IInv, Laws, RunLaw
  <2>2. process[p] \in Process /\ process[p].attempts < MaxAttempts /\ row[e].status # "NONE"
    BY <1>1, <1>2, ValueTypes, AtWork DEF IInv
  <2>3. CASE MayFinish(p, e)
    <3>1. new = Finished(row[e], process[p], p \in Workers)
      BY <2>3
    <3>2. (p \in Workers) \in BOOLEAN
      OBVIOUS
    <3> HIDE DEF new
    <3>3. QED
      BY <2>1, <2>2, <3>1, <3>2, FinishedRow DEF IInv
  <2>4. CASE ~MayFinish(p, e)
    BY <2>2, <2>4, ValueTypes DEF IInv
  <2>5. QED
    BY <2>3, <2>4
<1>6. new = row[e] => row[e].lockedBy # p \/ new.lockedBy = None
  BY <1>5 DEF MayFinish
<1> HIDE DEF s, new
<1>7. /\ row' \in [Emails -> Row] /\ row'[e] = new /\ \A f \in Emails \ {e} : row'[f] = row[f]
  BY <1>4, <1>5, RowWritten DEF IInv
<1>8. /\ process' \in [Runs -> Process] /\ process'[p] = s
      /\ \A q \in Runs \ {p} : process'[q] = process[q]
  BY <1>3, <1>4, RunTyped DEF IInv
<1>9. KnownStays
  BY <1>4, <1>5, <1>7 DEF KnownStays
<1>10. TypeOK'
  BY <1>4, <1>7, <1>8 DEF IInv, TypeOK
<1>11. ~Working(p)'
  BY <1>3, <1>8 DEF Working
<1>12. RunLaw(p)'
  <2>1. \A d \in process'[p].found :
          row'[d.email].status # "NONE" /\ (p \in Processors => d.attempts < MaxAttempts)
    BY <1>1, <1>3, <1>8, <1>9, AtWork DEF KnownStays
  <2>2. QED
    BY <1>3, <1>8, <1>11, <2>1 DEF RunLaw
<1>13. RowLaw(e)'
  <2>1. CASE new.lockedBy = None /\ new.lockAge = 0
    BY <1>5, <1>7, <2>1, TokensDistinct DEF RowLaw, Runs
  <2>2. CASE new = row[e] /\ row[e].lockedBy # p
    <3>1. row'[e] = row[e]
      BY <1>7, <2>2
    <3>2. RowLaw(e)
      BY DEF IInv, Laws
    <3>3. row[e].lockedBy \in Runs =>
            process'[row[e].lockedBy] = process[row[e].lockedBy]
      BY <1>8, <2>2
    <3>4. QED
      BY <3>1, <3>2, <3>3 DEF RowLaw, Holds
  <2>3. CASE new = row[e] /\ new.lockedBy = None
    <3>1. new.lockAge = 0
      BY <2>3 DEF IInv, Laws, RowLaw
    <3>2. QED
      BY <2>1, <2>3, <3>1
  <2>4. QED
    BY <1>5, <1>6, <2>1, <2>2, <2>3
<1>14. DeliveryLaw(e)'
  <2>1. CASE excuse[e] # "none"
    BY <1>4, <2>1 DEF DeliveryLaw
  <2>2. CASE excuse[e] = "none"
    <3>1. /\ row[e].lockedBy = p /\ accepted[e] \in {0, 1}
          /\ accepted[e] = 1 => process[p].outcome = "SENT"
          /\ \A q \in Runs \ {p} : ~(Working(q) /\ process[q].email = e)
      BY <1>1, <1>2, <2>2, WorkerAlone
    <3>2. accepted'[e] \in {0, 1} /\ (accepted'[e] = 1 => row'[e].status = "SENT")
      BY <1>4, <1>5, <1>7, <3>1 DEF MayFinish
    <3>3. \A v \in Workers : ~(Working(v)' /\ process'[v].email = e)
      BY <1>8, <1>11, <3>1 DEF Working, Runs
    <3>4. QED
      BY <3>2, <3>3 DEF DeliveryLaw
  <2>3. QED
    BY <2>1, <2>2
<1>15. QED
  BY <1>2, <1>4, <1>7, <1>8, <1>9, <1>10, <1>11, <1>12, <1>13, <1>14, BothChange

-----------------------------------------------------------------------------
(* A run that dies, and time. *)

\* What a step leaves of the rows and runs it only ages, or whose dead owner
\* it buries.
LEMMA OthersKept ==
    ASSUME IInv, TypeOK', UNCHANGED <<accepted, excuse>>,
           NEW gone \in SUBSET Runs,
           \A q \in Runs \ gone :
             /\ process'[q].phase = process[q].phase /\ process'[q].found = process[q].found
             /\ process'[q].email = process[q].email
             /\ process'[q].attempts = process[q].attempts
             /\ process'[q].outcome = process[q].outcome,
           \A q \in gone : process'[q] = Idle,
           \A e \in Emails :
             /\ row'[e].status = row[e].status /\ row'[e].down = row[e].down
             /\ row[e].status = "NONE" => row'[e] = row[e]
             /\ IF row[e].lockedBy \in gone THEN row'[e].lockedBy = Lost
                ELSE row'[e].lockedBy = row[e].lockedBy
             /\ row[e].lockedBy = None => row'[e].lockAge = row[e].lockAge
    PROVE  IInv'
<1>1. ASSUME NEW q \in Runs PROVE RunLaw(q)'
  <2>1. RunLaw(q) /\ process[q].found \subseteq [email: Emails, attempts: 0 .. MaxAttempts]
    BY ValueTypes DEF IInv, Laws
  <2>2. CASE q \in gone
    BY <2>2 DEF RunLaw, Working, Idle
  <2>3. CASE q \notin gone
    <3>1. \A d \in process'[q].found :
            row'[d.email].status # "NONE" /\ (q \in Processors => d.attempts < MaxAttempts)
      BY <2>1, <2>3 DEF RunLaw
    <3>2. Working(q)' =>
            /\ process'[q].email \in Emails /\ process'[q].attempts < MaxAttempts
            /\ row'[process'[q].email].status # "NONE"
            /\ q \in Processors => excuse'[process'[q].email] = "claimless"
      BY <2>1, <2>3 DEF RunLaw, Working
    <3>3. /\ q \in Workers => process'[q].phase # "locked"
          /\ process'[q].phase = "finishing" => process'[q].outcome # "none"
      BY <2>1, <2>3 DEF RunLaw
    <3>4. QED
      BY <3>1, <3>2, <3>3 DEF RunLaw
  <2>4. QED
    BY <2>2, <2>3
<1>2. ASSUME NEW e \in Emails PROVE RowLaw(e)' /\ DeliveryLaw(e)'
  <2>1. RowLaw(e) /\ DeliveryLaw(e)
    BY DEF IInv, Laws
  <2>2. Lost \notin Runs /\ Lost # None /\ None \notin Runs
    BY TokensDistinct DEF Runs
  <2>3. row'[e].lockedBy = None => row[e].lockedBy = None
    BY <2>2
  <2>4. row'[e].lockedBy \in Runs =>
          row'[e].lockedBy = row[e].lockedBy /\ row[e].lockedBy \in Runs \ gone
    BY <2>2
  <2>5. ASSUME NEW q \in Runs, row'[e].lockedBy = q PROVE Holds(q, e)'
    <3>1. row[e].lockedBy = q /\ q \in Runs \ gone
      BY <2>4, <2>5
    <3>2. Holds(q, e)
      BY <2>1, <3>1 DEF RowLaw
    <3>3. process'[q].email = process[q].email /\ process'[q].phase = process[q].phase
      BY <3>1
    <3>4. QED
      BY <3>2, <3>3 DEF Holds
  <2>6. row'[e].status = "NONE" => row'[e] = NoRow
    BY <2>1 DEF RowLaw
  <2>7. row'[e].lockedBy = None => row'[e].lockAge = 0
    BY <2>1, <2>3 DEF RowLaw
  <2>8. RowLaw(e)'
    BY <2>5, <2>6, <2>7 DEF RowLaw
  <2>9. \A w \in Workers : Working(w)' => w \in Runs \ gone
    BY DEF Working, Idle, Runs
  <2>10. \A w \in Workers : Working(w)' /\ process'[w].email = e =>
           /\ Working(w) /\ process[w].email = e /\ w \in Runs \ gone
           /\ process'[w].phase = process[w].phase /\ process'[w].outcome = process[w].outcome
    BY <2>9 DEF Working
  <2>11. DeliveryLaw(e)'
    BY <2>1, <2>3, <2>10 DEF DeliveryLaw
  <2>12. QED
    BY <2>8, <2>11
<1>3. QED
  BY <1>1, <1>2 DEF IInv, Laws

\* A run dies: its claim is nobody's.
LEMMA DiesStep ==
    ASSUME IInv, NEW p \in Runs, Dies(p)
    PROVE  IInv'
<1>1. /\ process' = [process EXCEPT ![p] = Idle] /\ UNCHANGED <<queuing, accepted, excuse>>
      /\ row' = [e \in Emails |->
           IF row[e].lockedBy = p THEN [row[e] EXCEPT !.lockedBy = Lost] ELSE row[e]]
  BY DEF Dies
<1>2. /\ process' \in [Runs -> Process] /\ process'[p] = Idle
      /\ \A q \in Runs \ {p} : process'[q] = process[q]
  BY <1>1, Bounds, RunTyped DEF IInv
<1>3. ASSUME NEW e \in Emails
      PROVE  /\ row'[e] \in Row
             /\ row'[e].status = row[e].status /\ row'[e].down = row[e].down
             /\ row[e].lockedBy # p => row'[e] = row[e]
             /\ row[e].lockedBy = p => row'[e].lockedBy = Lost
  <2>1. row[e] \in Row
    BY ValueTypes DEF IInv
  <2>2. QED
    BY <1>1, <2>1 DEF Row
<1>4. TypeOK'
  <2>1. row' \in [Emails -> Row]
    BY <1>1, <1>3
  <2>2. QED
    BY <1>1, <1>2, <2>1 DEF IInv, TypeOK
<1>5. \A e \in Emails : row[e].status = "NONE" => row[e].lockedBy # p
  BY AbsentRow, TokensDistinct DEF NoRow, Runs
<1> DEFINE gone == {p}
<1>6. \A e \in Emails :
        /\ row'[e].status = row[e].status /\ row'[e].down = row[e].down
        /\ row[e].status = "NONE" => row'[e] = row[e]
        /\ IF row[e].lockedBy \in gone THEN row'[e].lockedBy = Lost
           ELSE row'[e].lockedBy = row[e].lockedBy
        /\ row[e].lockedBy = None => row'[e].lockAge = row[e].lockAge
  BY <1>3, <1>5, TokensDistinct DEF Runs
<1>7. /\ \A q \in Runs \ gone :
           /\ process'[q].phase = process[q].phase /\ process'[q].found = process[q].found
           /\ process'[q].email = process[q].email
           /\ process'[q].attempts = process[q].attempts
           /\ process'[q].outcome = process[q].outcome
      /\ \A q \in gone : process'[q] = Idle
      /\ gone \in SUBSET Runs
  BY <1>2
<1> HIDE DEF gone
<1>8. QED
  BY <1>1, <1>4, <1>6, <1>7, OthersKept

\* Time passes: runs and locks age.
LEMMA TickStep ==
    ASSUME IInv, Tick
    PROVE  IInv'
<1>1. UNCHANGED <<queuing, accepted, excuse>>
  BY DEF Tick
<1>2. ASSUME NEW q \in Runs
      PROVE  /\ process'[q] \in Process
             /\ process'[q].phase = process[q].phase /\ process'[q].found = process[q].found
             /\ process'[q].email = process[q].email
             /\ process'[q].attempts = process[q].attempts
             /\ process'[q].outcome = process[q].outcome
  <2>1. process[q] \in Process /\ process[q].age \in 0 .. RunTicks /\ process[q].age < RunTicks
    BY ValueTypes DEF IInv, Tick
  <2>2. process[q].age + 1 \in 0 .. RunTicks
    BY <2>1, BoundsType
  <2>3. process'[q] = process[q] \/ process'[q] = [process[q] EXCEPT !.age = process[q].age + 1]
    BY DEF Tick
  <2>4. QED
    BY <2>1, <2>2, <2>3 DEF Process
<1>3. ASSUME NEW e \in Emails
      PROVE  /\ row'[e] \in Row
             /\ row'[e].status = row[e].status /\ row'[e].down = row[e].down
             /\ row'[e].lockedBy = row[e].lockedBy /\ row'[e].attempts = row[e].attempts
             /\ row[e].status = "NONE" => row'[e] = row[e]
             /\ row[e].lockedBy = None => row'[e].lockAge = row[e].lockAge
  <2> DEFINE due == IF row[e].due > AlwaysDue THEN row[e].due - 1 ELSE row[e].due
             age == IF row[e].lockedBy # None /\ row[e].lockAge < OldestLock
                    THEN row[e].lockAge + 1 ELSE row[e].lockAge
  <2>1. row[e] \in Row /\ row[e].due \in AlwaysDue .. Backoff
       /\ row[e].lockAge \in 0 .. OldestLock
    BY ValueTypes DEF IInv, Row
  <2>2. due \in AlwaysDue .. Backoff /\ age \in 0 .. OldestLock
    BY <2>1, BoundsType DEF AlwaysDue, OldestLock
  <2>3. row'[e] = [row[e] EXCEPT !.due = due, !.lockAge = age]
    BY DEF Tick
  <2>4. row[e].lockedBy = None => age = row[e].lockAge
    OBVIOUS
  <2>5. row[e].status = "NONE" => due = row[e].due /\ age = row[e].lockAge
    <3>1. row[e].status = "NONE" => row[e].due = AlwaysDue /\ row[e].lockedBy = None
      BY AbsentRow DEF NoRow
    <3>2. AlwaysDue \in Int
      BY BoundsType DEF AlwaysDue
    <3>3. QED
      BY <3>1, <3>2
  <2> HIDE DEF due, age
  <2>6. QED
    BY <2>1, <2>2, <2>3, <2>4, <2>5 DEF Row
<1>4. TypeOK'
  <2>1. row' \in [Emails -> Row]
    BY <1>3 DEF Tick
  <2>2. process' \in [Runs -> Process]
    BY <1>2 DEF Tick
  <2>3. QED
    BY <1>1, <2>1, <2>2 DEF IInv, TypeOK
<1> DEFINE gone == {}
<1>5. \A e \in Emails :
        /\ row'[e].status = row[e].status /\ row'[e].down = row[e].down
        /\ row[e].status = "NONE" => row'[e] = row[e]
        /\ IF row[e].lockedBy \in gone THEN row'[e].lockedBy = Lost
           ELSE row'[e].lockedBy = row[e].lockedBy
        /\ row[e].lockedBy = None => row'[e].lockAge = row[e].lockAge
  BY <1>3
<1>6. /\ \A q \in Runs \ gone :
           /\ process'[q].phase = process[q].phase /\ process'[q].found = process[q].found
           /\ process'[q].email = process[q].email
           /\ process'[q].attempts = process[q].attempts
           /\ process'[q].outcome = process[q].outcome
      /\ \A q \in gone : process'[q] = Idle
      /\ gone \in SUBSET Runs
  BY <1>2
<1> HIDE DEF gone
<1>7. QED
  BY <1>1, <1>4, <1>5, <1>6, OthersKept

-----------------------------------------------------------------------------
(* The invariant. *)

\* Requests and events keep it.
LEMMA RequestsKeep ==
    ASSUME IInv, NEW e \in Emails, RequestNext(e)
    PROVE  IInv'
  BY QueueLookupStep, QueueCreateStep, SendNowStep, ProviderBounceStep, ProviderFailureStep
  DEF RequestNext

\* The steps of the runs keep it.
LEMMA RunsKeep ==
    ASSUME IInv, NEW p \in Runs, RunNext(p)
    PROVE  IInv'
  BY StartStep, ClaimStep, StartProcessorStep, TakeStep, MarkStep, BlockStep, SendStep,
     FinishStep, EndStep, DiesStep
  DEF RunNext

\* Every step keeps it.
LEMMA StepInv == IInv /\ [Next]_vars => IInv'
<1> SUFFICES ASSUME IInv, [Next]_vars PROVE IInv'
  OBVIOUS
<1>1. CASE UNCHANGED vars
  <2>1. UNCHANGED <<row, queuing, process, accepted, excuse>>
    BY <1>1 DEF vars
  <2>2. TypeOK'
    BY <2>1 DEF IInv, TypeOK
  <2>3. \A p \in Runs : RunLaw(p)'
    BY <2>1 DEF IInv, Laws, RunLaw, Working
  <2>4. \A e \in Emails : RowLaw(e)' /\ DeliveryLaw(e)'
    BY <2>1 DEF IInv, Laws, RowLaw, DeliveryLaw, Holds, Working
  <2>5. QED
    BY <2>2, <2>3, <2>4 DEF IInv, Laws
<1>2. CASE Next
  BY <1>2, RequestsKeep, RunsKeep, TickStep DEF Next
<1>3. QED
  BY <1>1, <1>2

\* The laws hold in every state.
THEOREM OutboxLaws == Spec => []IInv
<1>1. QED
  BY InitInv, StepInv, PTL DEF Spec

\* The state keeps its type.
THEOREM OutboxTypes == Spec => []TypeOK
<1>1. IInv => TypeOK
  BY DEF IInv
<1>2. QED
  BY <1>1, OutboxLaws, PTL

\* However many requests and workers meet on a row, an e-mail the provider
\* accepted and stands by is handed to it again only after a stale lock was
\* taken over, an answer was lost, or the claimless processor touched it.
THEOREM DeliveredAtMostOnce == Spec => []DeliveredOnce
<1>1. IInv => DeliveredOnce
  BY DEF IInv, Laws, DeliveryLaw, DeliveredOnce
<1>2. QED
  BY <1>1, OutboxLaws, PTL

\* A row is locked by the run that works on it or by one that is gone: each
\* way out of a claim (sent, refused, blocked, dead) leaves no lock of a run
\* that went on to something else.
THEOREM NoLockIsForgotten == Spec => []LocksReleased
<1>1. IInv => LocksReleased
  BY DEF IInv, Laws, RowLaw, Holds, LocksReleased
<1>2. QED
  BY <1>1, OutboxLaws, PTL

-----------------------------------------------------------------------------
(* What a step may do to a row. *)

\* Attempts stay, and no worker takes the lock of a row that is down.
LeftAlone(e) ==
    /\ row'[e].attempts = row[e].attempts
    /\ row[e].down /\ row'[e].lockedBy \in Workers => row'[e].lockedBy = row[e].lockedBy

\* What the requests and events leave alone.
LEMMA RequestLeavesAlone ==
    ASSUME IInv, NEW e \in Emails, NEW f \in Emails, RequestNext(f)
    PROVE  LeftAlone(e) \/ row[e] = NoRow
<1>1. row \in [Emails -> Row] /\ row[e] \in Row
  BY ValueTypes DEF IInv, TypeOK
<1>2. CASE QueueLookup(f)
  BY <1>2 DEF QueueLookup, LeftAlone
<1>3. CASE QueueCreate(f)
  <2>1. row'[e] = row[e] \/ row[e].status = "NONE"
    BY <1>1, <1>3 DEF QueueCreate, Created
  <2>2. QED
    BY <2>1, AbsentRow DEF LeftAlone
<1>4. CASE SendNow(f)
  <2>1. row'[e] = row[e] \/ row[e].status = "NONE"
    BY <1>1, <1>4 DEF SendNow
  <2>2. QED
    BY <2>1, AbsentRow DEF LeftAlone
<1>5. CASE ProviderBounce(f)
  BY <1>1, <1>5 DEF ProviderBounce, LeftAlone, Row
<1>6. CASE ProviderFailure(f)
  BY <1>1, <1>6 DEF ProviderFailure, LeftAlone, Row
<1>7. QED
  BY <1>2, <1>3, <1>4, <1>5, <1>6 DEF RequestNext

\* What the runs leave alone until they write a result: a claim looks at the
\* row again, and neither the mark nor the death of a run is a worker's lock.
LEMMA RunLeavesAlone ==
    ASSUME IInv, NEW e \in Emails, NEW p \in Runs, RunNext(p)
    PROVE  LeftAlone(e) \/ Finish(p)
<1>1. row \in [Emails -> Row] /\ row[e] \in Row
  BY ValueTypes DEF IInv, TypeOK
<1>2. CASE Claim(p)
  <2>1. PICK c \in process[p].found :
          IF Claimable(c, process[p].age)
          THEN row' = [row EXCEPT ![c.email].lockedBy = p,
                                  ![c.email].lockAge = process[p].age]
          ELSE row' = row
    BY <1>2 DEF Claim
  <2>2. c.email \in Emails
    BY ValueTypes DEF IInv
  <2>3. row'[e].attempts = row[e].attempts
    BY <1>1, <2>1, <2>2 DEF Row
  <2>4. row[e].down => row'[e] = row[e]
    BY <1>1, <2>1, <2>2 DEF Claimable, Retryable
  <2>5. QED
    BY <2>3, <2>4 DEF LeftAlone
<1>3. CASE Mark(p)
  <2>1. /\ p \in Processors
        /\ row' = [row EXCEPT ![process[p].email].lockedBy = p, ![process[p].email].lockAge = 0]
    BY <1>3 DEF Mark
  <2>2. row'[e].attempts = row[e].attempts
    BY <1>1, <2>1 DEF Row
  <2>3. row'[e].lockedBy = row[e].lockedBy \/ row'[e].lockedBy = p
    BY <1>1, <2>1 DEF Row
  <2>4. p \notin Workers
    BY <2>1, TokensDistinct
  <2>5. QED
    BY <2>2, <2>3, <2>4 DEF LeftAlone
<1>4. CASE Dies(p)
  <2>1. row'[e] = IF row[e].lockedBy = p THEN [row[e] EXCEPT !.lockedBy = Lost] ELSE row[e]
    BY <1>4 DEF Dies
  <2>2. row'[e].attempts = row[e].attempts
    BY <1>1, <2>1 DEF Row
  <2>3. row'[e].lockedBy = row[e].lockedBy \/ row'[e].lockedBy = Lost
    BY <1>1, <2>1 DEF Row
  <2>4. Lost \notin Workers
    BY TokensDistinct
  <2>5. QED
    BY <2>2, <2>3, <2>4 DEF LeftAlone
<1>5. CASE row' = row
  BY <1>5 DEF LeftAlone
<1>6. RunNext(p) => row' = row \/ Claim(p) \/ Mark(p) \/ Dies(p) \/ Finish(p)
  BY DEF RunNext, Start, StartProcessor, Take, Block, Send, End
<1>7. QED
  BY <1>2, <1>3, <1>4, <1>5, <1>6

\* Time changes neither attempts nor locks.
LEMMA TickLeavesAlone ==
    ASSUME IInv, NEW e \in Emails, Tick
    PROVE  LeftAlone(e)
<1>1. row[e] \in Row
  BY ValueTypes DEF IInv
<1>2. row'[e].attempts = row[e].attempts /\ row'[e].lockedBy = row[e].lockedBy
  BY <1>1 DEF Tick, Row
<1>3. QED
  BY <1>2 DEF LeftAlone

\* Every step but the end of a run's work leaves an existing row alone.
LEMMA StepsLeaveAlone ==
    ASSUME IInv, [Next]_vars, NEW e \in Emails
    PROVE  LeftAlone(e) \/ row[e] = NoRow \/ \E p \in Runs : Finish(p)
<1>1. CASE UNCHANGED vars
  BY <1>1 DEF vars, LeftAlone
<1>2. CASE Next
  BY <1>2, RequestLeavesAlone, RunLeavesAlone, TickLeavesAlone DEF Next
<1>3. QED
  BY <1>1, <1>2

\* A run that writes a result counts on its own row, and frees it.
LEMMA FinishCounts ==
    ASSUME IInv, NEW p \in Runs, Finish(p), NEW e \in Emails
    PROVE  \/ row'[e] = row[e]
           \/ /\ e = process[p].email /\ MayFinish(p, e) /\ row'[e].lockedBy = None
<1>1. Working(p) /\ process[p].email \in Emails /\ process[p].outcome # "none"
  BY AtWork DEF Finish, Working, IInv, Laws, RunLaw
<1>2. process[p] \in Process /\ process[p].attempts < MaxAttempts
  BY <1>1, ValueTypes, AtWork DEF IInv
<1>3. CASE e = process[p].email /\ MayFinish(p, e)
  <2>1. row'[e] = Finished(row[e], process[p], p \in Workers)
    BY <1>3 DEF Finish, IInv, TypeOK
  <2>2. (p \in Workers) \in BOOLEAN
    OBVIOUS
  <2>3. Finished(row[e], process[p], p \in Workers).lockedBy = None
    BY <1>1, <1>2, <2>2, FinishedRow DEF IInv
  <2>4. QED
    BY <1>3, <2>1, <2>3
<1>4. CASE ~(e = process[p].email /\ MayFinish(p, e))
  BY <1>1, <1>4 DEF Finish, IInv, TypeOK
<1>5. QED
  BY <1>3, <1>4

\* A worker's result is written by the worker that holds the claim.
LEMMA HolderCounts ==
    ASSUME IInv, [Next]_vars, NEW e \in Emails, row[e].lockedBy \in Workers,
           row'[e].attempts # row[e].attempts
    PROVE  \/ process'[row[e].lockedBy] # process[row[e].lockedBy]
           \/ excuse[e] = "claimless"
<1>1. row[e] # NoRow
  BY TokensDistinct DEF NoRow
<1>2. PICK p \in Runs : Finish(p)
  BY <1>1, StepsLeaveAlone DEF LeftAlone
<1>3. e = process[p].email /\ MayFinish(p, e)
  BY <1>2, FinishCounts
<1>4. Working(p)
  BY <1>2 DEF Finish, Working
<1>5. CASE p \in Workers
  <2>1. row[e].lockedBy = p /\ process[p].phase = "finishing"
    BY <1>2, <1>3, <1>5 DEF MayFinish, Finish
  <2>2. process'[p].phase = "running"
    BY <1>2 DEF Finish, IInv, TypeOK, Idle
  <2>3. QED
    BY <2>1, <2>2
<1>6. CASE p \in Processors
  BY <1>3, <1>4, <1>6, AtWork
<1>7. QED
  BY <1>5, <1>6 DEF Runs

\* "A stale worker cannot overwrite a newer claim's result": while a worker
\* holds a row, an attempt is counted on it in a step of that worker alone.
THEOREM ClaimHoldersCount == Spec => ResultsOfClaimHolder
<1>1. IInv /\ [Next]_vars =>
        [\A e \in Emails :
           row[e].lockedBy \in Workers /\ row'[e].attempts # row[e].attempts
             => process'[row[e].lockedBy] # process[row[e].lockedBy]
                \/ excuse[e] = "claimless"]_vars
  BY HolderCounts
<1>2. QED
  BY <1>1, OutboxLaws, PTL DEF Spec, ResultsOfClaimHolder

\* A worker comes to hold a row that is down in no step.
LEMMA DownNotTaken ==
    ASSUME IInv, [Next]_vars, NEW e \in Emails, NEW w \in Workers,
           row[e].down, row'[e].lockedBy = w
    PROVE  row[e].lockedBy = w
<1>1. row[e] # NoRow
  BY DEF NoRow
<1>2. w # None
  BY TokensDistinct
<1>3. CASE \E p \in Runs : Finish(p)
  BY <1>2, <1>3, FinishCounts
<1>4. CASE LeftAlone(e)
  BY <1>4 DEF LeftAlone
<1>5. QED
  BY <1>1, <1>3, <1>4, StepsLeaveAlone

\* A row that bounced is claimed by no worker any more, not even by one that
\* listed it before the bounce.
THEOREM BouncedStay == Spec => BouncedNotRetried
<1>1. IInv /\ [Next]_vars =>
        [\A e \in Emails, w \in Workers :
           row[e].down /\ row'[e].lockedBy = w => row[e].lockedBy = w]_vars
  BY DownNotTaken
<1>2. QED
  BY <1>1, OutboxLaws, PTL DEF Spec, BouncedNotRetried

-----------------------------------------------------------------------------
(* The number sequence of one scope. *)

\* A setting is only read once the row exists: it jumps over positive numbers.
UpdatesHaveRow ==
    \A w \in Requests : Running(w, "update") => sequence.nextNumber # 0

NumbersTyped == NumbersTypeOK /\ UpdatesHaveRow

\* The transaction that holds the row will commit the number that everybody
\* else would be given next, and there is one such transaction.
OneIssuer ==
    /\ \A w \in Requests :
         Running(w, "create") => request[w].number = Upcoming
    /\ \A w, v \in Requests :
         Running(w, "create") /\ Running(v, "create") => w = v

NumbersInv == NumbersTyped /\ OneIssuer /\ NoGaps

-----------------------------------------------------------------------------
(* Types. *)

\* A number has one to ten digits.
LEMMA WidthType == ASSUME NEW n PROVE Width(n) \in 1 .. 10
<1> DEFINE powers == {k \in 1 .. 9 : 10^k <= n}
<1>1. IsFiniteSet(1 .. 9) /\ Cardinality(1 .. 9) = 9
  <2>1. \A b \in Nat : IsFiniteSet(1 .. b) /\ Cardinality(1 .. b) = b
    BY FS_Interval
  <2>2. QED
    BY <2>1
<1>2. powers \subseteq 1 .. 9
  OBVIOUS
<1> HIDE DEF powers
<1>3. IsFiniteSet(powers) /\ Cardinality(powers) <= 9
  BY <1>1, <1>2, FS_Subset
<1>4. Cardinality(powers) \in Nat
  BY <1>3, FS_CardinalityType
<1>5. QED
  BY <1>3, <1>4 DEF Width, powers

\* Each of those powers of ten is computed.
LEMMA PowerType == ASSUME NEW k \in 1 .. 10 PROVE 10^k \in Nat
<1>1. \/ k = 1 \/ k = 2 \/ k = 3 \/ k = 4 \/ k = 5
      \/ k = 6 \/ k = 7 \/ k = 8 \/ k = 9 \/ k = 10
  OBVIOUS
<1>2. /\ 10^1 \in Nat /\ 10^2 \in Nat /\ 10^3 \in Nat /\ 10^4 \in Nat /\ 10^5 \in Nat
      /\ 10^6 \in Nat /\ 10^7 \in Nat /\ 10^8 \in Nat /\ 10^9 \in Nat /\ 10^10 \in Nat
  BY SMT
<1>3. QED
  BY Zenon, <1>1, <1>2

\* The text of a number.
LEMMA FormatType ==
    ASSUME NEW prefix \in [length: Nat, digits: Nat],
           NEW n \in Nat, NEW padding \in 1 .. 10
    PROVE  Format(prefix, n, padding) \in Text
<1> DEFINE width == IF padding > Width(n) THEN padding ELSE Width(n)
<1>1. width \in 1 .. 10
  BY WidthType
<1>2. Format(prefix, n, padding) = [length |-> prefix.length + width,
                                    digits |-> prefix.digits * 10^width + n]
  BY DEF Format
<1> HIDE DEF width
<1>3. 10^width \in Nat
  BY <1>1, PowerType
<1>4. PICK power \in Nat : power = 10^width
  BY <1>3
<1>5. prefix.digits * power \in Nat
  OBVIOUS
<1>6. QED
  BY <1>1, <1>2, <1>4, <1>5 DEF Text

\* The typed request, by the operation it runs.
LEMMA SettingsTypes ==
    ASSUME NumbersTyped, NEW w \in Requests
    PROVE  /\ request[w] \in Request
           /\ Running(w, "create") => request[w].number \in Nat \ {0}
           /\ Running(w, "update") =>
                request[w] \in [op: {"update"}, prefix: Prefixes \cup {Unset},
                                padding: Paddings \cup {Unset},
                                nextNumber: NextNumbers \cup {Unset}]
  BY DEF NumbersTyped, NumbersTypeOK, Request, Running, NoRequest

\* The typed sequence row, field by field.
LEMMA SequenceTypes ==
    ASSUME NumbersTyped
    PROVE  /\ sequence.prefix \in Prefixes
           /\ sequence.nextNumber \in Nat
           /\ sequence.padding \in 3 .. 10
  BY DEF NumbersTyped, NumbersTypeOK, Sequence

\* The text of a number that was issued.
LEMMA TextType ==
    ASSUME NumbersTypeOK, NEW n \in Nat
    PROVE  TextOf(n) \in Text
<1>1. sequence.prefix \in [length: Nat, digits: Nat] /\ sequence.padding \in 1 .. 10
  BY PrefixesAreDigits DEF NumbersTypeOK, Sequence
<1>2. QED
  BY <1>1, FormatType DEF TextOf

\* No row, no number, no request: the start satisfies the invariant.
THEOREM NumbersStart == NumbersInit => NumbersInv
<1> SUFFICES ASSUME NumbersInit PROVE NumbersInv
  OBVIOUS
<1>1. sequence \in Sequence /\ sequence.nextNumber = 0
  BY PrefixesAreDigits, NumbersArePositive DEF NumbersInit, Sequence
<1>2. /\ request \in [Requests -> Request]
      /\ \A w \in Requests : ~Running(w, "create") /\ ~Running(w, "update")
  BY DEF NumbersInit, Request, NoRequest, Running
<1>3. document \in [Documents -> Document] /\ skipped = {}
  BY DEF NumbersInit, Document, Text, NoDigits
<1>4. NoGaps
  BY <1>1 DEF NoGaps
<1>5. QED
  BY <1>1, <1>2, <1>3, <1>4
     DEF NumbersInv, NumbersTyped, NumbersTypeOK, UpdatesHaveRow, OneIssuer

\* What a worker takes on or gives back does not concern the others.
LEMMA IssueStep ==
    ASSUME NumbersInv, NEW w \in Requests, Issue(w)
    PROVE  NumbersInv'
<1>1. PICK n \in Nat \ {0} : n = Upcoming
  BY SequenceTypes DEF NumbersInv, Upcoming
<1>2. /\ request' = [request EXCEPT ![w] = [op |-> "create", number |-> n]]
      /\ UNCHANGED <<sequence, document, skipped>>
      /\ \A v \in Requests : ~Running(v, "create")
  BY <1>1 DEF Issue, CommittedRow, RowUnlocked
<1>3. [op |-> "create", number |-> n] \in Request
  BY DEF Request
<1>4. NumbersTyped'
  BY <1>2, <1>3 DEF NumbersInv, NumbersTyped, NumbersTypeOK, UpdatesHaveRow, Running
<1>5. Upcoming' = n
  BY <1>1, <1>2 DEF Upcoming
<1>6. /\ request'[w].number = n
      /\ \A v \in Requests \ {w} : ~Running(v, "create")'
  BY <1>2 DEF NumbersInv, NumbersTyped, NumbersTypeOK, Running
<1>7. OneIssuer'
  BY <1>5, <1>6 DEF OneIssuer
<1>8. QED
  BY <1>2, <1>4, <1>7 DEF NumbersInv, NoGaps

\* A worker that is done holds nothing.
LEMMA DoneTypes ==
    ASSUME NumbersTyped, NEW w \in Requests, Done(w)
    PROVE  /\ request' \in [Requests -> Request]
           /\ ~Running(w, "create")' /\ ~Running(w, "update")'
           /\ \A v \in Requests \ {w} : request'[v] = request[v]
  BY DEF NumbersTyped, NumbersTypeOK, Done, Request, NoRequest, Running

\* The document takes the number that makes the next one grow.
LEMMA CreateStep ==
    ASSUME NumbersInv, NEW w \in Requests, NEW d \in Documents, CreateDocument(w, d)
    PROVE  NumbersInv'
<1>1. PICK n \in Nat \ {0} : n = request[w].number
  BY SettingsTypes DEF CreateDocument, NumbersInv
<1>2. /\ Running(w, "create") /\ document[d].number = 0
      /\ document' = [document EXCEPT ![d] = [number |-> n, text |-> TextOf(n)]]
      /\ sequence' = [sequence EXCEPT !.nextNumber = n + 1]
      /\ Done(w) /\ UNCHANGED skipped
  BY <1>1 DEF CreateDocument
<1>3. n = Upcoming
  BY <1>1, <1>2 DEF NumbersInv, OneIssuer
<1>4. sequence' \in Sequence /\ sequence'.nextNumber = n + 1
  BY <1>1, <1>2 DEF NumbersInv, NumbersTyped, NumbersTypeOK, Sequence
<1>5. /\ document' \in [Documents -> Document]
      /\ document'[d].number = n
      /\ \A e \in Documents \ {d} : document'[e] = document[e]
  <2>1. TextOf(n) \in Text
    BY <1>1, TextType DEF NumbersInv, NumbersTyped
  <2>2. [number |-> n, text |-> TextOf(n)] \in Document
    BY <1>1, <2>1 DEF Document
  <2>3. QED
    BY <1>2, <2>2 DEF NumbersInv, NumbersTyped, NumbersTypeOK
<1>6. NumbersTyped'
  <2>1. NumbersTypeOK'
    BY <1>2, <1>4, <1>5, DoneTypes DEF NumbersInv, NumbersTyped, NumbersTypeOK
  <2>2. \A v \in Requests : ~Running(v, "create")'
    BY <1>2, DoneTypes DEF NumbersInv, OneIssuer, Running
  <2>3. QED
    BY <1>1, <1>4, <2>1, <2>2 DEF NumbersTyped, UpdatesHaveRow
<1>7. OneIssuer'
  <2>1. \A v \in Requests : ~Running(v, "create")'
    BY <1>2, DoneTypes DEF NumbersInv, OneIssuer, Running
  <2>2. QED
    BY <2>1 DEF OneIssuer
<1>8. NoGaps'
  <2> SUFFICES ASSUME NEW m \in 1..(sequence'.nextNumber - 1)
               PROVE  m \in skipped' \/ \E e \in Documents : document'[e].number = m
    BY DEF NoGaps
  <2>1. CASE m = n
    BY <2>1, <1>5
  <2>2. CASE m # n
    <3>1. m \in 1..(sequence.nextNumber - 1)
      BY <2>2, <1>1, <1>3, <1>4, SequenceTypes DEF NumbersInv, Upcoming
    <3>2. m \in skipped \/ \E e \in Documents : document[e].number = m
      BY <3>1 DEF NumbersInv, NoGaps
    <3>3. \A e \in Documents : document[e].number = m => e # d
      BY <1>2, <3>1, SequenceTypes DEF NumbersInv
    <3>4. QED
      BY <1>2, <1>5, <3>2, <3>3
  <2>3. QED
    BY <2>1, <2>2
<1>9. QED
  BY <1>6, <1>7, <1>8 DEF NumbersInv

\* A setting names every number it jumps over.
LEMMA UpdateCommitStep ==
    ASSUME NumbersInv, NEW w \in Requests, UpdateCommit(w)
    PROVE  NumbersInv'
<1> DEFINE next == Given(request[w].nextNumber, sequence.nextNumber)
<1>1. /\ next \in Nat \ {0} /\ sequence.nextNumber \in Nat \ {0}
      /\ Given(request[w].prefix, sequence.prefix) \in Prefixes
      /\ Given(request[w].padding, sequence.padding) \in 3 .. 10
  BY SettingsTypes, SequenceTypes, NumbersArePositive
     DEF UpdateCommit, NumbersInv, NumbersTyped, UpdatesHaveRow, Given
<1>2. /\ sequence' = [prefix |-> Given(request[w].prefix, sequence.prefix),
                      nextNumber |-> next,
                      padding |-> Given(request[w].padding, sequence.padding)]
      /\ skipped' = skipped \cup sequence.nextNumber..(next - 1)
      /\ Done(w) /\ UNCHANGED document
      /\ \A v \in Requests : ~Running(v, "create")
  BY DEF UpdateCommit, RowUnlocked
<1> HIDE DEF next
<1>3. sequence' \in Sequence /\ sequence'.nextNumber = next
  BY <1>1, <1>2 DEF Sequence
<1>4. NumbersTyped'
  <2>1. skipped' \subseteq Nat \ {0}
    <3>1. sequence.nextNumber..(next - 1) \subseteq Nat \ {0}
      BY <1>1
    <3>2. skipped \subseteq Nat \ {0}
      BY DEF NumbersInv, NumbersTyped, NumbersTypeOK
    <3>3. QED
      BY <1>2, <3>1, <3>2
  <2>2. NumbersTypeOK'
    BY <1>2, <1>3, <2>1, DoneTypes DEF NumbersInv, NumbersTyped, NumbersTypeOK
  <2>3. \A v \in Requests : ~Running(v, "create")'
    BY <1>2, DoneTypes DEF NumbersInv, Running
  <2>4. QED
    BY <1>1, <1>3, <2>2, <2>3 DEF NumbersTyped, UpdatesHaveRow
<1>5. OneIssuer'
  <2>1. \A v \in Requests : ~Running(v, "create")'
    BY <1>2, DoneTypes DEF NumbersInv, Running
  <2>2. QED
    BY <2>1 DEF OneIssuer
<1>6. NoGaps'
  <2> SUFFICES ASSUME NEW m \in 1..(sequence'.nextNumber - 1)
               PROVE  m \in skipped' \/ \E e \in Documents : document'[e].number = m
    BY DEF NoGaps
  <2>1. m \in 1..(sequence.nextNumber - 1) \/ m \in sequence.nextNumber..(next - 1)
    BY <1>1, <1>3, SequenceTypes DEF NumbersInv
  <2>2. QED
    BY <1>2, <2>1 DEF NumbersInv, NoGaps
<1>7. QED
  BY <1>4, <1>5, <1>6 DEF NumbersInv

\* Reading a setting and giving up leave the rows as they are.
LEMMA UpdateReadStep ==
    ASSUME NumbersInv, NEW w \in Requests, NEW prefix \in Prefixes \cup {Unset},
           NEW padding \in Paddings \cup {Unset},
           NEW next \in NextNumbers \cup {Unset},
           UpdateRead(w, prefix, padding, next)
    PROVE  NumbersInv'
<1> DEFINE r == [op |-> "update", prefix |-> prefix, padding |-> padding,
                 nextNumber |-> next]
<1>1. /\ request' = [request EXCEPT ![w] = r] /\ sequence.nextNumber # 0
      /\ UNCHANGED <<sequence, document, skipped>>
  BY DEF UpdateRead
<1>2. r \in Request /\ r.op = "update"
  BY DEF Request
<1> HIDE DEF r
<1>3. NumbersTyped' /\ Upcoming' = Upcoming /\ NoGaps'
  BY <1>1, <1>2
     DEF NumbersInv, NumbersTyped, NumbersTypeOK, UpdatesHaveRow, Running, Upcoming, NoGaps
<1>4. /\ \A v \in Requests \ {w} : request'[v] = request[v]
      /\ ~Running(w, "create")'
  BY <1>1, <1>2 DEF NumbersInv, NumbersTyped, NumbersTypeOK, Running
<1>5. QED
  BY <1>3, <1>4 DEF NumbersInv, OneIssuer, Running

\* A rollback keeps the inductive invariant.
LEMMA AbortStep ==
    ASSUME NumbersInv, NEW w \in Requests, Abort(w)
    PROVE  NumbersInv'
<1>1. Done(w) /\ UNCHANGED <<sequence, document, skipped>>
  BY DEF Abort
<1>2. NumbersTyped' /\ Upcoming' = Upcoming /\ NoGaps'
  BY <1>1, DoneTypes
     DEF NumbersInv, NumbersTyped, NumbersTypeOK, UpdatesHaveRow, Running, Upcoming, NoGaps
<1>3. QED
  BY <1>1, <1>2, DoneTypes DEF NumbersInv, OneIssuer, Running

\* Every step of a document or a setting preserves the invariant.
THEOREM NumbersStep == NumbersInv /\ [NumbersNext]_numberVars => NumbersInv'
<1> SUFFICES ASSUME NumbersInv, [NumbersNext]_numberVars PROVE NumbersInv'
  OBVIOUS
<1>1. ASSUME NEW w \in Requests, Issue(w) PROVE NumbersInv'
  BY <1>1, IssueStep
<1>2. ASSUME NEW w \in Requests, NEW d \in Documents, CreateDocument(w, d)
      PROVE  NumbersInv'
  BY <1>2, CreateStep
<1>3. ASSUME NEW w \in Requests, NEW prefix \in Prefixes \cup {Unset},
             NEW padding \in Paddings \cup {Unset},
             NEW next \in NextNumbers \cup {Unset},
             UpdateRead(w, prefix, padding, next)
      PROVE  NumbersInv'
  BY <1>3, UpdateReadStep
<1>4. ASSUME NEW w \in Requests, UpdateCommit(w) PROVE NumbersInv'
  BY <1>4, UpdateCommitStep
<1>5. ASSUME NEW w \in Requests, Abort(w) PROVE NumbersInv'
  BY <1>5, AbortStep
<1>6. CASE UNCHANGED numberVars
  BY <1>6
     DEF NumbersInv, NumbersTyped, NumbersTypeOK, UpdatesHaveRow, OneIssuer, NoGaps, Running, Upcoming, numberVars
<1>7. QED
  BY <1>1, <1>2, <1>3, <1>4, <1>5, <1>6 DEF NumbersNext

\* The invariant holds in every reachable state.
THEOREM NumbersInvariance == NumbersSpec => []NumbersInv
  BY NumbersStart, NumbersStep, PTL DEF NumbersSpec

\* Numbers, settings and the texts made of them keep their types: the next
\* number is never lost to an unset column, and a text is a length and a value
\* (formatSequenceExample).
THEOREM NumberTypes == NumbersSpec => []NumbersTypeOK
<1>1. NumbersInv => NumbersTypeOK
  BY DEF NumbersInv, NumbersTyped
<1>2. QED
  BY <1>1, NumbersInvariance, PTL

\* Whatever transactions fail and however settings race them, every number
\* below the next one belongs to a document or was skipped by a setting
\* (NumberSequenceService.next counts in the transaction of the document).
THEOREM NumbersNotLost == NumbersSpec => []NoGaps
<1>1. NumbersInv => NoGaps
  BY DEF NumbersInv
<1>2. QED
  BY <1>1, NumbersInvariance, PTL
=============================================================================
