------------------------- MODULE BankReconciliation -------------------------
(***************************************************************************)
(* Bank statement rows, the deposit batches matched to them, and the       *)
(* reconciliations that close a period of the account and freeze its rows. *)
(*                                                                         *)
(* A handler reads what its checks need, outside any transaction or in a   *)
(* READ COMMITTED one that locks nothing, and writes later: two actions.   *)
(* Some writes are conditional claims of an UNMATCHED row; the others go   *)
(* by id, whatever happened since the read.  What is read once more inside *)
(* the transaction is read by the first action: the earlier read only      *)
(* refuses more.                                                           *)
(*                                                                         *)
(* One bank account, rows of one amount.  Comparisons with the ledger (the *)
(* difference that must be zero, the journal line a row is matched to) may *)
(* refuse a request at any time and change nothing, so they are left out,  *)
(* as is the status of an import, a summary of the status of its rows.     *)
(***************************************************************************)
EXTENDS Integers, FiniteSets

CONSTANTS
    Rows,               \* ids of BankStatementTransaction rows
    Imports,            \* ids of BankStatementImport rows
    Deposits,           \* ids of BankDepositBatch rows
    Reconciliations,    \* ids of BankReconciliation rows
    Users, Admins,      \* who submits and approves; admins approve their own
    Workers,            \* requests alive at the same time
    Days,
    MaxJournals,        \* bound on the entries posted for a row
    Tolerated,          \* bound: the races after which requests go on
    DateOf,             \* the transaction date of each row
    None

ASSUME DatesAreDays == Days \subseteq Int /\ DateOf \in [Rows -> Days]

ASSUME NullIsNoId == None \notin Rows \cup Imports \cup Days \cup Users

ASSUME MaxJournalsIsPositive == MaxJournals \in Nat \ {0}

ASSUME AdminsAreUsers == Admins \subseteq Users

VARIABLES
    statement,      \* BankStatementTransaction rows
    deposit,        \* BankDepositBatch rows
    reconciliation, \* BankReconciliation rows with their items
    request,        \* what each worker keeps from the reads of its handler
    raced           \* which kinds of writes came after what would refuse them

vars == <<statement, deposit, reconciliation, request, raced>>

-----------------------------------------------------------------------------
Settled == {"MATCHED", "CATEGORIZED", "IGNORED"}

\* journals counts the entries categorizing has posted for the row.
Statement == [status: {"NONE", "UNMATCHED", "VOIDED"} \cup Settled,
              import: Imports \cup {None}, journals: 0 .. MaxJournals]

Deposit == [status: {"DRAFT", "POSTED", "MATCHED", "VOIDED"},
            row: Rows \cup {None}]

\* items: statusAtClose of the rows the close recorded.
Reconciliation ==
    [status: {"NONE", "DRAFT", "PENDING_APPROVAL", "APPROVED", "CLOSED", "VOIDED"},
     start: Days \cup {None}, end: Days \cup {None},
     submittedBy: Users \cup {None},
     items: [Rows -> Settled \cup {None}]]

Idle == [op |-> "idle"]

\* What a request reads and what commits after that would refuse it.
Watched ==
    [import |-> {"close"}, voidImport |-> {"row", "close"},
     match |-> {"close"}, categorize |-> {"close"}, ignore |-> {"row", "close"},
     postDeposit |-> {"row"}, matchDeposit |-> {"row", "close"},
     unmatchDeposit |-> {"row", "close"}, voidDeposit |-> {"row", "close"},
     submit |-> {"close"}, approve |-> {"close"}, reopen |-> {"close"}, void |-> {},
     close |-> {"row", "close"}]

\* since: the kinds of watched changes committed after the request has read.
Request ==
    {Idle} \cup
    [op: {"import"}, import: Imports, rows: SUBSET Rows, since: SUBSET {"close"}] \cup
    [op: {"voidImport"}, import: Imports, since: SUBSET {"row", "close"}] \cup
    [op: {"match", "categorize", "ignore"}, row: Rows, since: SUBSET {"row", "close"}] \cup
    [op: {"matchDeposit"}, deposit: Deposits, row: Rows, since: SUBSET {"row", "close"}] \cup
    [op: {"unmatchDeposit", "voidDeposit"}, deposit: Deposits, row: Rows \cup {None},
     since: SUBSET {"row", "close"}] \cup
    [op: {"postDeposit"}, deposit: Deposits, since: SUBSET {"row"}] \cup
    [op: {"submit"}, reconciliation: Reconciliations, user: Users,
     since: SUBSET {"close"}] \cup
    [op: {"approve", "reopen", "void"}, reconciliation: Reconciliations,
     since: SUBSET {"close"}] \cup
    [op: {"close"}, reconciliation: Reconciliations,
     items: [Rows -> Settled \cup {None}], since: SUBSET {"row", "close"}]

TypeOK ==
    /\ statement \in [Rows -> Statement]
    /\ deposit \in [Deposits -> Deposit]
    /\ reconciliation \in [Reconciliations -> Reconciliation]
    /\ request \in [Workers -> Request]
    /\ raced \subseteq {"closes", "freeze", "rows"}

Init ==
    /\ statement = [x \in Rows |-> [status |-> "NONE", import |-> None, journals |-> 0]]
    /\ deposit = [b \in Deposits |-> [status |-> "DRAFT", row |-> None]]
    /\ reconciliation = [c \in Reconciliations |->
         [status |-> "NONE", start |-> None, end |-> None, submittedBy |-> None,
          items |-> [x \in Rows |-> None]]]
    /\ request = [w \in Workers |-> Idle]
    /\ raced = {}

-----------------------------------------------------------------------------
(* Requests. *)

Begin(w, r) ==
    /\ request[w] = Idle
    /\ request' = [request EXCEPT ![w] = r]
    /\ UNCHANGED <<statement, deposit, reconciliation, raced>>

\* w has written and is done; whoever else is under way has read before that.
End(w, kinds) ==
    request' = [v \in Workers |->
      IF v = w THEN Idle
      ELSE IF request[v] = Idle THEN Idle
      ELSE [request[v] EXCEPT !.since = @ \cup (kinds \cap Watched[request[v].op])]]

\* The write of w comes after one its checks have not seen.
Races(w, kind, class) == IF kind \in request[w].since THEN {class} ELSE {}

\* An error, a lost connection or a failed claim: nothing is written.
Abort(w) ==
    /\ request[w] # Idle
    /\ request' = [request EXCEPT ![w] = Idle]
    /\ UNCHANGED <<statement, deposit, reconciliation, raced>>

\* Mutant of InClosed: the last day of a closed period stays open.
InClosedBefore(x) ==
    \E c \in Reconciliations :
      /\ reconciliation[c].status = "CLOSED"
      /\ reconciliation[c].start <= DateOf[x] /\ DateOf[x] < reconciliation[c].end

\* findClosedReconciliationForDate
InClosed(x) ==
    \E c \in Reconciliations :
      /\ reconciliation[c].status = "CLOSED"
      /\ reconciliation[c].start <= DateOf[x] /\ DateOf[x] <= reconciliation[c].end

\* A change of a row that its closing does not expect.
RowChanged(w, classes) ==
    /\ raced' = raced \cup Races(w, "close", "freeze") \cup classes
    /\ End(w, {"row"})
    /\ UNCHANGED reconciliation

-----------------------------------------------------------------------------
(* BankStatementService *)

RowsOf(m) == {x \in Rows : statement[x].import = m}

\* With allowPartial rows of closed periods are skipped, without it they
\* refuse the import: the rows that are left have open dates.
ImportRead(w, m, rows) ==
    /\ rows # {} /\ RowsOf(m) = {}
    /\ \A x \in rows : statement[x].status = "NONE" /\ ~InClosed(x)
    /\ Begin(w, [op |-> "import", import |-> m, rows |-> rows, since |-> {}])

ImportCommit(w) ==
    LET r == request[w]
    IN  /\ r.op = "import"
        /\ RowsOf(r.import) = {} /\ \A x \in r.rows : statement[x].status = "NONE"
        /\ statement' = [x \in Rows |->
             IF x \in r.rows
             THEN [status |-> "UNMATCHED", import |-> r.import, journals |-> 0]
             ELSE statement[x]]
        /\ RowChanged(w, {})
        /\ UNCHANGED deposit

\* Mutant of Blocks: only a journal blocks.
BlocksCategorized(x) == statement[x].status = "CATEGORIZED"

Blocks(x) == statement[x].status \in {"MATCHED", "CATEGORIZED"}

VoidImportRead(w, m) ==
    /\ \E x \in RowsOf(m) : statement[x].status # "VOIDED"
    /\ \A x \in RowsOf(m) : statement[x].status # "VOIDED" => ~InClosed(x) /\ ~Blocks(x)
    /\ Begin(w, [op |-> "voidImport", import |-> m, since |-> {}])

\* updateMany by import: rows settled since the count are voided too.
VoidImportCommit(w) ==
    LET r == request[w]
    IN  /\ r.op = "voidImport"
        /\ statement' = [x \in Rows |->
             IF x \in RowsOf(r.import) THEN [statement[x] EXCEPT !.status = "VOIDED"]
             ELSE statement[x]]
        /\ RowChanged(w, Races(w, "row", "rows"))
        /\ UNCHANGED deposit

\* Match, categorize and ignore read the same.
RowRead(w, op, x) ==
    /\ statement[x].status = "UNMATCHED" /\ ~InClosed(x)
    /\ Begin(w, [op |-> op, row |-> x, since |-> {}])

\* Mutant of RowClaim: the row is written by id.
RowClaimById(x) == TRUE

RowClaim(x) == statement[x].status = "UNMATCHED"

MatchCommit(w) ==
    LET r == request[w]
    IN  /\ r.op = "match"
        /\ RowClaim(r.row)
        /\ statement' = [statement EXCEPT ![r.row].status = "MATCHED"]
        /\ RowChanged(w, {})
        /\ UNCHANGED deposit

\* The journal is posted in the transaction of the claim.
CategorizeCommit(w) ==
    LET r == request[w]
    IN  /\ r.op = "categorize"
        /\ RowClaim(r.row) /\ statement[r.row].journals < MaxJournals
        /\ statement' = [statement EXCEPT ![r.row].status = "CATEGORIZED",
                                          ![r.row].journals = @ + 1]
        /\ RowChanged(w, {})
        /\ UNCHANGED deposit

\* By id.
IgnoreCommit(w) ==
    LET r == request[w]
    IN  /\ r.op = "ignore"
        /\ statement' = [statement EXCEPT ![r.row].status = "IGNORED"]
        /\ RowChanged(w, Races(w, "row", "rows"))
        /\ UNCHANGED deposit

-----------------------------------------------------------------------------
(* BankDepositService; cheques and card settlements repeat its protocol. *)

PostDepositRead(w, b) ==
    /\ deposit[b].status = "DRAFT"
    /\ Begin(w, [op |-> "postDeposit", deposit |-> b, since |-> {}])

PostDepositCommit(w) ==
    LET r == request[w]
    IN  /\ r.op = "postDeposit"
        /\ deposit' = [deposit EXCEPT ![r.deposit].status = "POSTED"]
        /\ RowChanged(w, Races(w, "row", "rows"))
        /\ UNCHANGED statement

MatchDepositRead(w, b, x) ==
    /\ deposit[b].status = "POSTED"
    /\ statement[x].status = "UNMATCHED" /\ ~InClosed(x)
    /\ Begin(w, [op |-> "matchDeposit", deposit |-> b, row |-> x, since |-> {}])

\* The row is claimed, the deposit written by id; a row has one deposit.
MatchDepositCommit(w) ==
    LET r == request[w]
    IN  /\ r.op = "matchDeposit"
        /\ RowClaim(r.row)
        /\ \A b \in Deposits \ {r.deposit} : deposit[b].row # r.row
        /\ statement' = [statement EXCEPT ![r.row].status = "MATCHED"]
        /\ deposit' = [deposit EXCEPT ![r.deposit] = [status |-> "MATCHED", row |-> r.row]]
        /\ RowChanged(w, Races(w, "row", "rows"))

UnmatchDepositRead(w, b) ==
    /\ deposit[b].status = "MATCHED" /\ deposit[b].row # None
    /\ ~InClosed(deposit[b].row)
    /\ Begin(w, [op |-> "unmatchDeposit", deposit |-> b, row |-> deposit[b].row,
                 since |-> {}])

VoidDepositRead(w, b) ==
    /\ deposit[b].status # "VOIDED"
    /\ deposit[b].status = "MATCHED" => deposit[b].row # None /\ ~InClosed(deposit[b].row)
    /\ Begin(w, [op |-> "voidDeposit", deposit |-> b, row |-> deposit[b].row,
                 since |-> {}])

\* Both by id: the row that was read is free again, whatever it is now.
ReleaseDeposit(w, status) ==
    LET r == request[w]
    IN  /\ statement' = IF r.row = None THEN statement
                        ELSE [statement EXCEPT ![r.row].status = "UNMATCHED"]
        /\ deposit' = [deposit EXCEPT ![r.deposit] = [status |-> status, row |-> None]]
        /\ RowChanged(w, Races(w, "row", "rows"))

UnmatchDepositCommit(w) ==
    request[w].op = "unmatchDeposit" /\ ReleaseDeposit(w, "POSTED")

VoidDepositCommit(w) ==
    request[w].op = "voidDeposit" /\ ReleaseDeposit(w, "VOIDED")

-----------------------------------------------------------------------------
(* BankReconciliationService *)

\* Mutant of Overlap: a period may begin on the last day of another.
OverlapStrict(c, start, end) ==
    reconciliation[c].start < end /\ start < reconciliation[c].end

Overlap(c, start, end) ==
    reconciliation[c].start <= end /\ start <= reconciliation[c].end

NoClosedOverlap(excluded, start, end) ==
    \A c \in Reconciliations \ excluded :
      reconciliation[c].status = "CLOSED" => ~Overlap(c, start, end)

\* One step: a draft that overlaps a period closed since is what a close
\* leaves of another draft too, and closing checks again.
CreateReconciliation(c, start, end) ==
    /\ reconciliation[c].status = "NONE"
    /\ start <= end
    /\ NoClosedOverlap({}, start, end)
    /\ reconciliation' = [reconciliation EXCEPT
         ![c].status = "DRAFT", ![c].start = start, ![c].end = end]
    /\ UNCHANGED <<statement, deposit, request, raced>>

InPeriod(c) ==
    {x \in Rows : reconciliation[c].start <= DateOf[x] /\ DateOf[x] <= reconciliation[c].end}

\* assertReadyForReview, which close repeats.
Ready(c) ==
    /\ NoClosedOverlap({c}, reconciliation[c].start, reconciliation[c].end)
    /\ \A x \in InPeriod(c) : statement[x].status # "UNMATCHED"

Change(w, op, c) ==
    Begin(w, [op |-> op, reconciliation |-> c, since |-> {}])

SubmitRead(w, c, u) ==
    /\ reconciliation[c].status = "DRAFT"
    /\ Ready(c)
    /\ Begin(w, [op |-> "submit", reconciliation |-> c, user |-> u, since |-> {}])

\* Nobody approves what they submitted, except admins.
ApproveRead(w, c, u) ==
    /\ reconciliation[c].status = "PENDING_APPROVAL"
    /\ reconciliation[c].submittedBy \notin {u} \ Admins
    /\ Change(w, "approve", c)

ReopenRead(w, c) ==
    /\ reconciliation[c].status \in {"PENDING_APPROVAL", "APPROVED"}
    /\ Change(w, "reopen", c)

VoidRead(w, c) ==
    /\ reconciliation[c].status \notin {"NONE", "VOIDED"}
    /\ Change(w, "void", c)

\* By id: a reconciliation closed since the read leaves that state unseen.
StatusCommit(w, op, status, submittedBy) ==
    LET r == request[w]
        c == r.reconciliation
    IN  /\ r.op = op
        /\ reconciliation' = [reconciliation EXCEPT
             ![c].status = status, ![c].submittedBy = submittedBy]
        /\ raced' = raced \cup (IF status = "VOIDED" THEN {} ELSE Races(w, "close", "freeze"))
        /\ End(w, {})
        /\ UNCHANGED <<statement, deposit>>

SubmitCommit(w) ==
    /\ request[w].op = "submit"
    /\ StatusCommit(w, "submit", "PENDING_APPROVAL", request[w].user)

ApproveCommit(w) ==
    /\ request[w].op = "approve"
    /\ StatusCommit(w, "approve", "APPROVED",
                    reconciliation[request[w].reconciliation].submittedBy)

ReopenCommit(w) == StatusCommit(w, "reopen", "DRAFT", None)

VoidCommit(w) ==
    /\ request[w].op = "void"
    /\ StatusCommit(w, "void", "VOIDED",
                    reconciliation[request[w].reconciliation].submittedBy)

\* Mutant of Snapshot: every row of the period is recorded.
SnapshotAll(c) ==
    [x \in Rows |-> IF x \in InPeriod(c) THEN statement[x].status ELSE None]

Snapshot(c) ==
    [x \in Rows |->
       IF x \in InPeriod(c) /\ statement[x].status \in Settled
       THEN statement[x].status ELSE None]

CloseRead(w, c) ==
    /\ reconciliation[c].status = "APPROVED"
    /\ Ready(c)
    /\ Begin(w, [op |-> "close", reconciliation |-> c, items |-> Snapshot(c), since |-> {}])

\* skipDuplicates: a row recorded before keeps what was recorded then.
CloseCommit(w) ==
    LET r == request[w]
        c == r.reconciliation
        recorded == reconciliation[c].items
    IN  /\ r.op = "close"
        /\ reconciliation' = [reconciliation EXCEPT
             ![c].status = "CLOSED",
             ![c].items = [x \in Rows |-> IF recorded[x] = None THEN r.items[x] ELSE recorded[x]]]
        /\ raced' = raced \cup Races(w, "close", "closes") \cup Races(w, "row", "freeze")
        /\ End(w, {"close"})
        /\ UNCHANGED <<statement, deposit>>

-----------------------------------------------------------------------------
StatementNext(w) ==
    \/ \E m \in Imports :
         (\E rows \in SUBSET Rows : ImportRead(w, m, rows)) \/ VoidImportRead(w, m)
    \/ \E op \in {"match", "categorize", "ignore"}, x \in Rows : RowRead(w, op, x)
    \/ ImportCommit(w)
    \/ VoidImportCommit(w)
    \/ MatchCommit(w)
    \/ CategorizeCommit(w)
    \/ IgnoreCommit(w)

DepositNext(w) ==
    \/ \E b \in Deposits :
         \/ PostDepositRead(w, b)
         \/ \E x \in Rows : MatchDepositRead(w, b, x)
         \/ UnmatchDepositRead(w, b)
         \/ VoidDepositRead(w, b)
    \/ PostDepositCommit(w)
    \/ MatchDepositCommit(w)
    \/ UnmatchDepositCommit(w)
    \/ VoidDepositCommit(w)

ReconciliationNext(w) ==
    \/ \E c \in Reconciliations :
         \/ \E u \in Users : SubmitRead(w, c, u) \/ ApproveRead(w, c, u)
         \/ ReopenRead(w, c)
         \/ VoidRead(w, c)
         \/ CloseRead(w, c)
    \/ SubmitCommit(w)
    \/ ApproveCommit(w)
    \/ ReopenCommit(w)
    \/ VoidCommit(w)
    \/ CloseCommit(w)

Next ==
  /\ raced \subseteq Tolerated
  /\ \/ \E w \in Workers :
          StatementNext(w) \/ DepositNext(w) \/ ReconciliationNext(w) \/ Abort(w)
     \/ \E c \in Reconciliations, start, end \in Days : CreateReconciliation(c, start, end)

Spec == Init /\ [][Next]_vars

-----------------------------------------------------------------------------
(* Properties. *)

\* A row has a journal exactly when it is categorized, and one: whatever
\* requests race for the row, unless one that ignores, voids or releases a row
\* by id had not seen what became of it.
CategorizedOnce ==
    "rows" \notin raced =>
      \A x \in Rows :
        statement[x].journals = IF statement[x].status = "CATEGORIZED" THEN 1 ELSE 0

\* A matched deposit has a row that is matched, and no other deposit has it.
DepositsMatchRows ==
    "rows" \notin raced =>
      \A b \in Deposits :
        /\ deposit[b].status = "MATCHED" <=> deposit[b].row # None
        /\ deposit[b].row # None =>
             /\ statement[deposit[b].row].status = "MATCHED"
             /\ \A d \in Deposits \ {b} : deposit[d].row # deposit[b].row

\* Closed reconciliations of the account do not overlap, unless two of them
\* were being closed at the same time.
ClosedPeriodsDisjoint ==
    "closes" \notin raced =>
      \A c, d \in Reconciliations :
        c # d /\ reconciliation[c].status = "CLOSED" /\ reconciliation[d].status = "CLOSED"
          => \/ reconciliation[c].end < reconciliation[d].start
             \/ reconciliation[d].end < reconciliation[c].start

\* The items of a closed reconciliation are the settled rows of its period as
\* they are now, and no row of the period is unmatched: the period is frozen,
\* unless a change of a row and a close did not see each other, or a deposit
\* posted again over its match let its void skip the check of the period.
ClosedRowsRecorded ==
    raced \cap {"freeze", "rows"} = {} =>
      \A c \in Reconciliations : reconciliation[c].status = "CLOSED" =>
        \A x \in InPeriod(c) :
          /\ statement[x].status # "UNMATCHED"
          /\ reconciliation[c].items[x] =
               IF statement[x].status \in Settled THEN statement[x].status ELSE None
=============================================================================
