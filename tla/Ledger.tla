------------------------------- MODULE Ledger -------------------------------
(***************************************************************************)
(* The general ledger of one organization: journal entries, with the       *)
(* database triggers that freeze the lines of posted ones, and the fiscal  *)
(* periods whose status decides which dates may be posted to.              *)
(*                                                                         *)
(* A balanced set of lines is abstracted to the signed amount it moves     *)
(* between two accounts and the total of one of its sides.  A date is a    *)
(* day of Days.                                                            *)
(*                                                                         *)
(* A handler reads, checks, and writes in separate statements: what a      *)
(* worker keeps between them is request[w].  unseen[w] is what others      *)
(* wrote since over the reads that the write of w relies on, and raced are *)
(* the rows that were last written over something unseen.  close() and     *)
(* lock() claim the status they read in one statement and are one action   *)
(* of an idle worker.  A refusal, an aborted transaction and a failed FX   *)
(* readiness check end a request with the rows as they were.               *)
(***************************************************************************)
EXTENDS Integers

CONSTANTS
    Entries,    \* ids of JournalEntry rows
    Periods,    \* ids of FiscalPeriod rows; also their unique names
    Days,       \* calendar days
    Today,      \* the day reversals are dated
    Amounts,    \* what the lines of a request may move
    MaxSide,    \* bound: one side of lines that two updates leave together
    Workers,    \* requests the API serves at the same time
    None        \* a null reference

ASSUME DaysAreNumbers == Days \subseteq Int /\ Today \in Days

ASSUME AmountsNonZero == Amounts \subseteq Int \ {0}

ASSUME NoneIsNoEntry == None \notin Entries

\* Rows of different tables never share an id.
ASSUME IdsDistinct == Entries \cap Periods = {}

VARIABLES
    entry,      \* JournalEntry rows with their lines
    period,     \* FiscalPeriod rows
    request,    \* what each worker keeps from the reads of its handler
    unseen,     \* what others wrote since over what its write relies on
    raced       \* rows last written over something unseen

vars == <<entry, period, request, unseen, raced>>

-----------------------------------------------------------------------------
(* Rows. *)

\* Mutant of Magnitude: the net of the lines, not the sum of one side.
MagnitudeSigned(n) == n

Magnitude(n) == IF n < 0 THEN -n ELSE n

Lines == [net: Int, side: Nat]

LinesOf(n) == [net |-> n, side |-> Magnitude(n)]

NoLines == LinesOf(0)

\* createReversalLines swaps debits and credits.
Swapped(lines) == [net |-> -lines.net, side |-> lines.side]

Stacked(lines, more) ==
    [net |-> lines.net + more.net, side |-> lines.side + more.side]

Entry == [status: {"NONE", "DRAFT", "POSTED", "REVERSED"}, entryDate: Days,
          lines: Lines, total: Nat, reversalOf: Entries \cup {None}]

Period == [status: {"NONE", "OPEN", "CLOSED", "LOCKED"}, startsOn: Days,
           endsOn: Days]

Idle == [op |-> "idle"]

\* NoLines: the update does not name any.
Request ==
    {Idle}
    \cup [op: {"updateEntry"}, entry: Entries, entryDate: Days \cup {None},
          lines: Lines, total: Nat]
    \cup [op: {"post", "reverse"}, entry: Entries, entryDate: Days,
          lines: Lines, allowed: BOOLEAN]
    \cup [op: {"createPeriod", "updatePeriod"}, period: Periods,
          startsOn: Days, endsOn: Days]
    \cup [op: {"reopen"}, period: Periods]

Unseen == SUBSET {"lines", "date", "periods"}

TypeOK ==
    /\ entry \in [Entries -> Entry]
    /\ period \in [Periods -> Period]
    /\ request \in [Workers -> Request]
    /\ unseen \in [Workers -> Unseen]
    /\ raced \subseteq Entries \cup Periods

Init ==
    /\ entry = [e \in Entries |->
         [status |-> "NONE", entryDate |-> Today, lines |-> NoLines,
          total |-> 0, reversalOf |-> None]]
    /\ period = [p \in Periods |->
         [status |-> "NONE", startsOn |-> Today, endsOn |-> Today]]
    /\ request = [w \in Workers |-> Idle]
    /\ unseen = [w \in Workers |-> {}]
    /\ raced = {}

Begin(w, r) ==
    /\ request[w] = Idle
    /\ request' = [request EXCEPT ![w] = r]
    /\ UNCHANGED <<entry, period, unseen, raced>>

Running(w, op) == request[w].op = op

Finish(w) == request' = [request EXCEPT ![w] = Idle]

\* What the write of v relies on of what it read of e.
EntryReads(v, e) ==
    IF request[v].op \notin {"updateEntry", "post"} \/ request[v].entry # e THEN {}
    ELSE IF Running(v, "post") THEN {"lines", "date"} ELSE {"lines"}

\* New dates rely on the dates of the other periods, a posting whose date was
\* checked on their dates and their statuses.
ComparedDates == {v \in Workers : request[v].op \in {"createPeriod", "updatePeriod"}}

CheckedDates == {v \in Workers : request[v].op \in {"post", "reverse"}
                                    /\ request[v].allowed}

\* The request of w is over, and what it wrote is unseen by the others.
EntryWritten(w, e, what) ==
    unseen' = [v \in Workers |->
        IF v = w THEN {} ELSE unseen[v] \cup (what \cap EntryReads(v, e))]

PeriodsWritten(w, relying) ==
    unseen' = [v \in Workers |->
        IF v = w THEN {}
        ELSE IF v \in relying THEN unseen[v] \cup {"periods"} ELSE unseen[v]]

Written(row, blind) ==
    raced' = IF blind THEN raced \cup {row} ELSE raced \ {row}

Abort(w) ==
    /\ request[w] # Idle
    /\ Finish(w)
    /\ unseen' = [unseen EXCEPT ![w] = {}]
    /\ UNCHANGED <<entry, period, raced>>

Posted(e) == entry[e].status \in {"POSTED", "REVERSED"}

-----------------------------------------------------------------------------
(* Journal entries. *)

CreateEntry(w, e, amount, entryDate) ==
    /\ request[w] = Idle
    /\ entry[e].status = "NONE"
    /\ entry' = [entry EXCEPT ![e] =
         [status |-> "DRAFT", entryDate |-> entryDate, lines |-> LinesOf(amount),
          total |-> LinesOf(amount).side, reversalOf |-> None]]
    /\ UNCHANGED <<period, request, unseen, raced>>

\* Mutant of NextLines: the header keeps the totals of the old lines.
NextLinesOld(e, lines) == entry[e].lines

\* The lines whose totals the header will get: dto.lines ?? existing.lines.
NextLines(e, lines) == IF lines = NoLines THEN entry[e].lines ELSE lines

UpdateEntryRead(w, e, amount, entryDate) ==
    /\ entry[e].status = "DRAFT"
    /\ Begin(w, [op |-> "updateEntry", entry |-> e, entryDate |-> entryDate,
                 lines |-> LinesOf(amount),
                 total |-> NextLines(e, LinesOf(amount)).side])

\* Mutant of LinesReplaceable: the triggers are not installed.
LinesReplaceableAlways(e) == entry[e].status # "NONE"

\* freeze_posted_journal_line refuses to delete the lines of a posted entry
\* and to insert any outside the transaction that created it.
LinesReplaceable(e) == ~Posted(e)

\* deleteMany and then update, READ COMMITTED: the lines that another update
\* put there since the read are deleted too when it committed before the
\* deleteMany, and stay beside the new ones when it committed after it.  (Of
\* three updates at once, one may even lose its lines and leave another's.)
LinesAfter(w) ==
    LET r == request[w]
        old == entry[r.entry].lines
        both == Stacked(old, r.lines)
    IN  IF r.lines = NoLines THEN {old}
        ELSE IF "lines" \in unseen[w] /\ both.side <= MaxSide
             THEN {r.lines, both} ELSE {r.lines}

\* The status is not checked again: without new lines the header changes
\* whatever it has become.
UpdateEntryCommit(w) ==
    /\ Running(w, "updateEntry")
    /\ LET r == request[w]
           e == r.entry
       IN  /\ r.lines = NoLines \/ LinesReplaceable(e)
           /\ \E lines \in LinesAfter(w) :
                /\ entry' = [entry EXCEPT
                     ![e].entryDate = IF r.entryDate = None THEN @ ELSE r.entryDate,
                     ![e].lines = lines,
                     ![e].total = r.total]
                /\ Written(e, /\ "lines" \in unseen[w]
                              /\ r.lines = NoLines \/ lines # r.lines)
           /\ EntryWritten(w, e,
                (IF r.lines = NoLines THEN {} ELSE {"lines"})
                  \cup (IF r.entryDate = None THEN {} ELSE {"date"}))
    /\ Finish(w)
    /\ UNCHANGED period

PostRead(w, e) ==
    /\ entry[e].status = "DRAFT"
    /\ Begin(w, [op |-> "post", entry |-> e, entryDate |-> entry[e].entryDate,
                 lines |-> entry[e].lines, allowed |-> FALSE])

Reversed(e) == \E r \in Entries : entry[r].reversalOf = e

\* Mutant of Reversible: drafts can be reversed.
ReversibleDraft(e) ==
    /\ entry[e].status \in {"DRAFT", "POSTED"}
    /\ ~Reversed(e)

Reversible(e) ==
    /\ entry[e].status = "POSTED"
    /\ ~Reversed(e)

\* The read inside the transaction; the same check before it is weaker.
ReverseRead(w, e) ==
    /\ Reversible(e)
    /\ Begin(w, [op |-> "reverse", entry |-> e, entryDate |-> Today,
                 lines |-> Swapped(entry[e].lines), allowed |-> FALSE])

Covers(p, day) == period[p].startsOn <= day /\ day <= period[p].endsOn

\* Mutant of PostingDateAllowed: a locked period is not refused.
PostingDateNotClosed(day) ==
    LET existing == {p \in Periods : period[p].status # "NONE"}
        covering == {p \in existing : Covers(p, day)}
    IN  \/ existing = {}
        \/ \E p \in covering :
             /\ period[p].status # "CLOSED"
             /\ \A q \in covering : period[p].startsOn <= period[q].startsOn

\* No period at all, or the first covering one is open.
PostingDateAllowed(day) ==
    LET existing == {p \in Periods : period[p].status # "NONE"}
        covering == {p \in existing : Covers(p, day)}
    IN  \/ existing = {}
        \/ \E p \in covering :
             /\ period[p].status = "OPEN"
             /\ \A q \in covering : period[p].startsOn <= period[q].startsOn

CheckPostingDate(w) ==
    /\ request[w].op \in {"post", "reverse"}
    /\ ~request[w].allowed
    /\ PostingDateAllowed(request[w].entryDate)
    /\ request' = [request EXCEPT ![w].allowed = TRUE]
    /\ UNCHANGED <<entry, period, unseen, raced>>

\* update by id: neither the status nor the lines are read again.
PostCommit(w) ==
    /\ Running(w, "post") /\ request[w].allowed
    /\ entry' = [entry EXCEPT
         ![request[w].entry].status = "POSTED",
         ![request[w].entry].total = request[w].lines.side]
    /\ Written(request[w].entry, "lines" \in unseen[w])
    /\ EntryWritten(w, request[w].entry, {})
    /\ Finish(w)
    /\ UNCHANGED period

\* Mutant of ReversalUnique: reversalOfId is not unique.
ReversalNotUnique(e) == TRUE

\* The unique index on reversalOfId.
ReversalUnique(e) == ~Reversed(e)

MarkReversed(status) == "REVERSED"

ReverseCommit(w, r) ==
    /\ Running(w, "reverse") /\ request[w].allowed
    /\ entry[r].status = "NONE"
    /\ LET e == request[w].entry
           lines == request[w].lines
       IN  /\ ReversalUnique(e)
           /\ entry' = [entry EXCEPT
                ![r] = [status |-> "POSTED", entryDate |-> request[w].entryDate,
                        lines |-> lines, total |-> lines.side,
                        reversalOf |-> e],
                ![e].status = MarkReversed(@)]
           /\ EntryWritten(w, e, {})
    /\ Finish(w)
    /\ UNCHANGED <<period, raced>>

-----------------------------------------------------------------------------
(* Fiscal periods. *)

\* Mutant of NoOverlap: periods may share their last and first days.
NoOverlapStrict(p, startsOn, endsOn) ==
    \A q \in Periods \ {p} : period[q].status # "NONE" =>
        period[q].startsOn >= endsOn \/ period[q].endsOn <= startsOn

NoOverlap(p, startsOn, endsOn) ==
    \A q \in Periods \ {p} : period[q].status # "NONE" =>
        period[q].startsOn > endsOn \/ period[q].endsOn < startsOn

CreatePeriodRead(w, p, startsOn, endsOn) ==
    /\ period[p].status = "NONE"
    /\ startsOn <= endsOn
    /\ NoOverlap(p, startsOn, endsOn)
    /\ Begin(w, [op |-> "createPeriod", period |-> p, startsOn |-> startsOn,
                 endsOn |-> endsOn])

\* status "NONE" again: the unique (organizationId, name) index.
CreatePeriodCommit(w) ==
    /\ Running(w, "createPeriod")
    /\ period[request[w].period].status = "NONE"
    /\ period' = [period EXCEPT ![request[w].period] =
         [status |-> "OPEN", startsOn |-> request[w].startsOn,
          endsOn |-> request[w].endsOn]]
    /\ Written(request[w].period, "periods" \in unseen[w])
    /\ PeriodsWritten(w, ComparedDates \cup CheckedDates)
    /\ Finish(w)
    /\ UNCHANGED entry

UpdatePeriodRead(w, p, startsOn, endsOn) ==
    /\ period[p].status \in {"OPEN", "CLOSED"}
    /\ startsOn <= endsOn
    /\ NoOverlap(p, startsOn, endsOn)
    /\ Begin(w, [op |-> "updatePeriod", period |-> p, startsOn |-> startsOn,
                 endsOn |-> endsOn])

UpdatePeriodCommit(w) ==
    /\ Running(w, "updatePeriod")
    /\ period' = [period EXCEPT
         ![request[w].period].startsOn = request[w].startsOn,
         ![request[w].period].endsOn = request[w].endsOn]
    /\ Written(request[w].period, "periods" \in unseen[w])
    /\ PeriodsWritten(w, ComparedDates \cup CheckedDates)
    /\ Finish(w)
    /\ UNCHANGED entry

ClosePeriod(w, p) ==
    /\ request[w] = Idle
    /\ period[p].status = "OPEN"
    /\ period' = [period EXCEPT ![p].status = "CLOSED"]
    /\ PeriodsWritten(w, CheckedDates)
    /\ UNCHANGED <<entry, request, raced>>

LockPeriod(w, p) ==
    /\ request[w] = Idle
    /\ period[p].status \in {"OPEN", "CLOSED"}
    /\ period' = [period EXCEPT ![p].status = "LOCKED"]
    /\ PeriodsWritten(w, CheckedDates)
    /\ UNCHANGED <<entry, request, raced>>

Reopenable(p) == period[p].status = "CLOSED"

ReopenRead(w, p) ==
    /\ Reopenable(p)
    /\ Begin(w, [op |-> "reopen", period |-> p])

ReopenCommit(w) ==
    /\ Running(w, "reopen")
    /\ period' = [period EXCEPT ![request[w].period].status = "OPEN"]
    /\ PeriodsWritten(w, CheckedDates)
    /\ Finish(w)
    /\ UNCHANGED <<entry, raced>>

-----------------------------------------------------------------------------

EntryStep ==
    \/ \E w \in Workers, e \in Entries, amount \in Amounts, day \in Days :
         CreateEntry(w, e, amount, day)
    \/ \E w \in Workers, e \in Entries, amount \in Amounts \cup {0},
          day \in Days \cup {None} : UpdateEntryRead(w, e, amount, day)
    \/ \E w \in Workers, e \in Entries : PostRead(w, e) \/ ReverseRead(w, e)
    \/ \E w \in Workers :
         UpdateEntryCommit(w) \/ CheckPostingDate(w) \/ PostCommit(w)
    \/ \E w \in Workers, r \in Entries : ReverseCommit(w, r)

PeriodStep ==
    \/ \E w \in Workers, p \in Periods, from, to \in Days :
         CreatePeriodRead(w, p, from, to) \/ UpdatePeriodRead(w, p, from, to)
    \/ \E w \in Workers, p \in Periods :
         ReopenRead(w, p) \/ ClosePeriod(w, p) \/ LockPeriod(w, p)
    \/ \E w \in Workers :
         CreatePeriodCommit(w) \/ UpdatePeriodCommit(w) \/ ReopenCommit(w)

Next == EntryStep \/ PeriodStep \/ \E w \in Workers : Abort(w)

Spec == Init /\ [][Next]_vars

-----------------------------------------------------------------------------
(* Properties. *)

\* However an update races a posting or a reversal, the lines of an entry
\* that is posted never change (AccountingService.update, and the triggers
\* behind it).
PostedLinesFrozen ==
    [][\A e \in Entries : Posted(e) =>
         Posted(e)' /\ entry'[e].lines = entry[e].lines]_vars

\* A reversal undoes the entry it reverses exactly, and still does after any
\* edit (AccountingService.reverse negates the lines it read).
ReversalMirrors ==
    \A r, e \in Entries : entry[r].reversalOf = e =>
        Posted(e) /\ entry[r].lines = Swapped(entry[e].lines)

\* Two requests that reverse the same entry leave one reversal, and an entry
\* is not marked reversed without one (AccountingService.reverse).
ReversedOnce ==
    \A e \in Entries :
        /\ \A r, s \in Entries :
             entry[r].reversalOf = e /\ entry[s].reversalOf = e => r = s
        /\ entry[e].status = "REVERSED" => Reversed(e)

\* Periods do not share a day, unless one of them was last given its dates
\* over dates that were committed since it was compared with the others
\* (FiscalPeriodService.assertNoOverlap).
PeriodsDisjoint ==
    \A p, q \in Periods \ raced :
        (p # q /\ period[p].status # "NONE" /\ period[q].status # "NONE")
            => period[p].endsOn < period[q].startsOn
               \/ period[q].endsOn < period[p].startsOn

\* An entry that becomes posted is not dated in a closed or locked period,
\* unless its date or the periods changed between the check of the date and
\* the posting, or an open period that raced shares the day
\* (AccountingService.post and reverse, FiscalPeriodGuardService).
ClosedPeriodsBlockPostings ==
    [][\A e \in Entries, p \in Periods :
         /\ ~Posted(e) /\ Posted(e)'
         /\ Covers(p, entry'[e].entryDate)
         /\ period[p].status \in {"CLOSED", "LOCKED"}
         => \/ \E w \in Workers : /\ request'[w] # request[w]
                                  /\ unseen[w] \cap {"date", "periods"} # {}
            \/ \E q \in Periods : /\ period[q].status = "OPEN"
                                  /\ Covers(q, entry'[e].entryDate)
                                  /\ {p, q} \cap raced # {}]_vars

\* The header of an entry carries the totals of its lines, unless an update
\* or the posting wrote it over lines it had not seen
\* (AccountingService.update and post compute it from the lines they read).
TotalsMatchLines ==
    \A e \in Entries \ raced : entry[e].total = entry[e].lines.side
=============================================================================
