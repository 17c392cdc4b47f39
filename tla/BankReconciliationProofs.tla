---------------------- MODULE BankReconciliationProofs ----------------------
(***************************************************************************)
(* The laws of the bank statement, for any rows, deposits, reconciliations *)
(* and workers, and whatever races the instance tolerates.                 *)
(*                                                                         *)
(* A law holds as long as no write has raced with what it depends on.  So  *)
(* the inductive invariant says, of a request that nothing has overtaken,  *)
(* that what its reads found is still so: Knows for the row or the deposit *)
(* it writes by id, Cleared for the periods it may not overlap, Expects    *)
(* for the closed periods it may not touch.                                *)
(***************************************************************************)
EXTENDS BankReconciliation, TLAPS

-----------------------------------------------------------------------------
(* Requests. *)

\* What a request of each kind carries.
LEMMA RequestFields ==
    ASSUME NEW r \in Request
    PROVE  /\ r.op = "import" => r.import \in Imports /\ r.rows \subseteq Rows
           /\ r.op = "voidImport" => r.import \in Imports
           /\ r.op \in {"match", "categorize", "ignore"} => r.row \in Rows
           /\ r.op = "postDeposit" => r.deposit \in Deposits
           /\ r.op = "matchDeposit" => r.deposit \in Deposits /\ r.row \in Rows
           /\ r.op \in {"unmatchDeposit", "voidDeposit"} =>
                r.deposit \in Deposits /\ r.row \in Rows \cup {None}
           /\ r.op \in {"submit", "approve", "reopen", "void", "close"} =>
                r.reconciliation \in Reconciliations
           /\ r.op = "submit" => r.user \in Users
           /\ r.op = "close" => r.items \in [Rows -> Settled \cup {None}]
  BY DEF Request, Idle

\* s is r after changes of some kinds: only since differs.
Later(r, s, kinds) ==
    /\ s # Idle /\ s.op = r.op
    /\ s.since = r.since \cup (kinds \cap Watched[r.op])
    /\ r.op \in {"import", "voidImport"} => s.import = r.import
    /\ r.op = "import" => s.rows = r.rows
    /\ r.op \in {"match", "categorize", "ignore", "matchDeposit",
                 "unmatchDeposit", "voidDeposit"} => s.row = r.row
    /\ r.op \in {"postDeposit", "matchDeposit", "unmatchDeposit", "voidDeposit"} =>
         s.deposit = r.deposit
    /\ r.op \in {"submit", "approve", "reopen", "void", "close"} =>
         s.reconciliation = r.reconciliation
    /\ r.op = "close" => s.items = r.items

\* What overtakes a request only adds to what it was overtaken by.
LEMMA Overtaken ==
    ASSUME NEW r \in Request, r # Idle, NEW kinds \in SUBSET {"row", "close"},
           NEW s, s = [r EXCEPT !.since = @ \cup (kinds \cap Watched[r.op])]
    PROVE  s \in Request /\ Later(r, s, kinds)
<1> USE DEF Later, Request, Idle, Watched
<1>1. CASE r.op = "import"
  BY <1>1
<1>2. CASE r.op = "voidImport"
  BY <1>2
<1>3. CASE r.op \in {"match", "categorize", "ignore"}
  BY <1>3
<1>4. CASE r.op = "matchDeposit"
  BY <1>4
<1>5. CASE r.op \in {"unmatchDeposit", "voidDeposit"}
  BY <1>5
<1>6. CASE r.op = "postDeposit"
  BY <1>6
<1>7. CASE r.op = "submit"
  BY <1>7
<1>8. CASE r.op \in {"approve", "reopen", "void"}
  BY <1>8
<1>9. CASE r.op = "close"
  BY <1>9
<1>10. QED
  BY <1>1, <1>2, <1>3, <1>4, <1>5, <1>6, <1>7, <1>8, <1>9

\* The end of a request: its worker is idle, the others have been overtaken.
LEMMA AfterEnd ==
    ASSUME request \in [Workers -> Request], NEW w \in Workers,
           NEW kinds \in SUBSET {"row", "close"}, End(w, kinds)
    PROVE  /\ request' \in [Workers -> Request]
           /\ request'[w] = Idle
           /\ \A v \in Workers :
                request'[v] # Idle =>
                  v # w /\ request[v] # Idle /\ Later(request[v], request'[v], kinds)
<1>1. Idle \in Request
  BY DEF Request
<1>2. request'[w] = Idle
  BY DEF End
<1>3. ASSUME NEW v \in Workers, v # w, request[v] # Idle
      PROVE  request'[v] \in Request /\ Later(request[v], request'[v], kinds)
  <2> DEFINE s == [request[v] EXCEPT !.since = @ \cup (kinds \cap Watched[request[v].op])]
  <2>1. request'[v] = s
    BY <1>3 DEF End
  <2> HIDE DEF s
  <2>2. s \in Request /\ Later(request[v], s, kinds)
    BY <1>3, Overtaken DEF s
  <2>3. QED
    BY <2>1, <2>2
<1>4. ASSUME NEW v \in Workers, v # w, request[v] = Idle
      PROVE  request'[v] = Idle
  BY <1>4 DEF End
<1>5. request' = [v \in Workers |-> request'[v]]
  BY DEF End
<1>6. \A v \in Workers : request'[v] \in Request
  BY <1>1, <1>2, <1>3, <1>4
<1>7. request' \in [Workers -> Request]
  BY <1>5, <1>6
<1>8. QED
  BY <1>2, <1>3, <1>4, <1>7

-----------------------------------------------------------------------------
(* Types. *)

\* The start is typed.
LEMMA InitTyped == Init => TypeOK
<1>1. Idle \in Request
  BY DEF Request
<1>2. MaxJournals \in Nat
  BY MaxJournalsIsPositive
<1>3. QED
  BY <1>1, <1>2 DEF Init, TypeOK, Statement, Deposit, Reconciliation

\* Each race a step may record is of the class the step names.
LEMMA RacesType ==
    ASSUME TypeOK, NEW w \in Workers
    PROVE  /\ Races(w, "row", "rows") \subseteq {"rows"}
           /\ Races(w, "close", "freeze") \subseteq {"freeze"}
           /\ Races(w, "row", "freeze") \subseteq {"freeze"}
           /\ Races(w, "close", "closes") \subseteq {"closes"}
  BY DEF Races

\* A change of the rows keeps the reconciliations and types the requests.
LEMMA RowChangedTyped ==
    ASSUME TypeOK, NEW w \in Workers,
           NEW classes \in SUBSET {"rows"}, RowChanged(w, classes)
    PROVE  /\ reconciliation' = reconciliation
           /\ request' \in [Workers -> Request]
           /\ raced' \subseteq {"closes", "freeze", "rows"}
<1>1. End(w, {"row"})
  BY DEF RowChanged
<1>2. request' \in [Workers -> Request]
  BY <1>1, AfterEnd DEF TypeOK
<1>3. QED
  BY <1>2, RacesType DEF RowChanged, TypeOK

RowLaw ==
    \A x \in Rows :
      statement[x].journals = IF statement[x].status = "CATEGORIZED" THEN 1 ELSE 0

DepositLaw ==
    \A b \in Deposits :
      /\ deposit[b].status = "MATCHED" <=> deposit[b].row # None
      /\ deposit[b].row # None =>
           /\ statement[deposit[b].row].status = "MATCHED"
           /\ \A d \in Deposits \ {b} : deposit[d].row # deposit[b].row

\* What closing a reconciliation records of a row.
Recorded(c, x) ==
    IF x \in InPeriod(c) /\ statement[x].status \in Settled THEN statement[x].status ELSE None

NoItems(c) == \A x \in Rows : reconciliation[c].items[x] = None

FreshItems ==
    \A c \in Reconciliations :
      reconciliation[c].status \in {"NONE", "DRAFT", "PENDING_APPROVAL", "APPROVED"} => NoItems(c)

\* The rows a void of the import changes are in no closed period.
Voidable(m) ==
    \A x \in RowsOf(m) : statement[x].status # "VOIDED" => ~InClosed(x)

\* Nothing of the period is left to settle, and no other item was recorded.
Reviewed(c) ==
    \A x \in Rows :
      /\ x \in InPeriod(c) => statement[x].status # "UNMATCHED"
      /\ reconciliation[c].items[x] \in {None, Recorded(c, x)}

\* The rows a request has named when it read.
Touches(r, x) ==
    \/ r.op = "import" /\ x \in r.rows
    \/ r.op \in {"match", "categorize", "ignore", "matchDeposit",
                 "unmatchDeposit", "voidDeposit"} /\ x = r.row

\* What a request still expects of the closed periods.
Expects(r) ==
    r # Idle =>
      /\ "close" \notin r.since =>
           /\ \A x \in Rows : Touches(r, x) => ~InClosed(x)
           /\ "row" \notin r.since =>
                \A m \in Imports : r.op = "voidImport" /\ r.import = m => Voidable(m)
           /\ \A c \in Reconciliations :
                r.op \in {"submit", "approve", "reopen"} /\ r.reconciliation = c => NoItems(c)
      /\ "row" \notin r.since =>
           \A c \in Reconciliations :
             r.op = "close" /\ r.reconciliation = c =>
               Reviewed(c) /\ \A x \in Rows : r.items[x] = Recorded(c, x)

\* What a request that no change of a row has overtaken still knows.
Knows(r) ==
    r # Idle /\ "row" \notin r.since =>
      /\ r.op = "ignore" => statement[r.row].status = "UNMATCHED"
      /\ r.op = "voidImport" => \A x \in RowsOf(r.import) : ~Blocks(x)
      /\ r.op = "postDeposit" => deposit[r.deposit].status = "DRAFT"
      /\ r.op \in {"unmatchDeposit", "voidDeposit"} => deposit[r.deposit].row = r.row

\* A request to close that no other close has overtaken found no closed period
\* over its own.
Cleared(r) ==
    r.op = "close" /\ "close" \notin r.since =>
      NoClosedOverlap({r.reconciliation}, reconciliation[r.reconciliation].start,
                      reconciliation[r.reconciliation].end)

\* A reconciliation that a request changes has been created.
Created(r) ==
    r.op \in {"submit", "approve", "reopen", "void", "close"} =>
      reconciliation[r.reconciliation].status # "NONE"

\* A request begins with what its reads found.
Begins(w) ==
    \E r \in Request :
      /\ Begin(w, r) /\ r # Idle /\ r.since = {}
      /\ Knows(r) /\ Cleared(r) /\ Created(r)
      /\ DepositLaw /\ FreshItems => Expects(r)

\* Every first read of a request does no more than begin it.
LEMMA ReadsBegin ==
    ASSUME TypeOK, NEW w \in Workers
    PROVE  /\ \A m \in Imports, rows \in SUBSET Rows : ImportRead(w, m, rows) => Begins(w)
           /\ \A m \in Imports : VoidImportRead(w, m) => Begins(w)
           /\ \A op \in {"match", "categorize", "ignore"}, x \in Rows :
                RowRead(w, op, x) => Begins(w)
           /\ \A b \in Deposits :
                /\ PostDepositRead(w, b) => Begins(w)
                /\ \A x \in Rows : MatchDepositRead(w, b, x) => Begins(w)
                /\ UnmatchDepositRead(w, b) => Begins(w)
                /\ VoidDepositRead(w, b) => Begins(w)
           /\ \A c \in Reconciliations :
                /\ \A u \in Users : SubmitRead(w, c, u) => Begins(w)
                /\ \A u \in Users : ApproveRead(w, c, u) => Begins(w)
                /\ ReopenRead(w, c) => Begins(w)
                /\ VoidRead(w, c) => Begins(w)
                /\ CloseRead(w, c) => Begins(w)
<1>i. ASSUME NEW r \in Request, r.op # "idle", Begin(w, r), r.since = {},
             Knows(r), Cleared(r), Created(r), DepositLaw /\ FreshItems => Expects(r)
      PROVE  Begins(w)
  BY <1>i DEF Begins, Idle
<1>r. \A b \in Deposits : deposit[b].row \in Rows \cup {None}
  BY DEF TypeOK, Deposit
<1>1. ASSUME NEW m \in Imports, NEW rows \in SUBSET Rows, ImportRead(w, m, rows)
      PROVE  Begins(w)
  <2> DEFINE r == [op |-> "import", import |-> m, rows |-> rows, since |-> {}]
  <2>1. r \in Request /\ r.op = "import" /\ r.rows = rows /\ r.since = {}
    BY DEF Request
  <2>2. Begin(w, r) /\ \A x \in rows : ~InClosed(x)
    BY <1>1 DEF ImportRead
  <2> HIDE DEF r
  <2>3. QED
    BY <1>i, <2>1, <2>2 DEF Knows, Cleared, Created, Expects, Touches
<1>2. ASSUME NEW m \in Imports, VoidImportRead(w, m) PROVE Begins(w)
  <2> DEFINE r == [op |-> "voidImport", import |-> m, since |-> {}]
  <2>1. r \in Request /\ r.op = "voidImport" /\ r.import = m /\ r.since = {}
    BY DEF Request
  <2>2. Begin(w, r) /\ Voidable(m) /\ \A x \in RowsOf(m) : ~Blocks(x)
    BY <1>2 DEF VoidImportRead, Voidable, Blocks
  <2> HIDE DEF r
  <2>3. QED
    BY <1>i, <2>1, <2>2 DEF Knows, Cleared, Created, Expects, Touches
<1>3. ASSUME NEW op \in {"match", "categorize", "ignore"}, NEW x \in Rows, RowRead(w, op, x)
      PROVE  Begins(w)
  <2> DEFINE r == [op |-> op, row |-> x, since |-> {}]
  <2>1. r \in Request /\ r.op = op /\ r.row = x /\ r.since = {}
    BY DEF Request
  <2>2. Begin(w, r) /\ statement[x].status = "UNMATCHED" /\ ~InClosed(x)
    BY <1>3 DEF RowRead
  <2> HIDE DEF r
  <2>3. QED
    BY <1>i, <2>1, <2>2 DEF Knows, Cleared, Created, Expects, Touches
<1>4. ASSUME NEW b \in Deposits, PostDepositRead(w, b) PROVE Begins(w)
  <2> DEFINE r == [op |-> "postDeposit", deposit |-> b, since |-> {}]
  <2>1. r \in Request /\ r.op = "postDeposit" /\ r.deposit = b /\ r.since = {}
    BY DEF Request
  <2>2. Begin(w, r) /\ deposit[b].status = "DRAFT"
    BY <1>4 DEF PostDepositRead
  <2> HIDE DEF r
  <2>3. QED
    BY <1>i, <2>1, <2>2 DEF Knows, Cleared, Created, Expects, Touches
<1>5. ASSUME NEW b \in Deposits, NEW x \in Rows, MatchDepositRead(w, b, x) PROVE Begins(w)
  <2> DEFINE r == [op |-> "matchDeposit", deposit |-> b, row |-> x, since |-> {}]
  <2>1. r \in Request /\ r.op = "matchDeposit" /\ r.row = x /\ r.since = {}
    BY DEF Request
  <2>2. Begin(w, r) /\ ~InClosed(x)
    BY <1>5 DEF MatchDepositRead
  <2> HIDE DEF r
  <2>3. QED
    BY <1>i, <2>1, <2>2 DEF Knows, Cleared, Created, Expects, Touches
<1>6. ASSUME NEW b \in Deposits, UnmatchDepositRead(w, b) \/ VoidDepositRead(w, b)
      PROVE  Begins(w)
  <2>1. PICK op \in {"unmatchDeposit", "voidDeposit"} :
          Begin(w, [op |-> op, deposit |-> b, row |-> deposit[b].row, since |-> {}])
    BY <1>6 DEF UnmatchDepositRead, VoidDepositRead
  <2>2. deposit[b].status = "MATCHED" => ~InClosed(deposit[b].row)
    BY <1>6 DEF UnmatchDepositRead, VoidDepositRead
  <2> DEFINE r == [op |-> op, deposit |-> b, row |-> deposit[b].row, since |-> {}]
  <2>3. r \in Request /\ r.op = op /\ r.deposit = b /\ r.row = deposit[b].row /\ r.since = {}
    BY <1>r DEF Request
  <2>4. Begin(w, r)
    BY <2>1
  <2> HIDE DEF r
  <2>5. DepositLaw => \A x \in Rows : x = r.row => ~InClosed(x)
    BY <2>2, <2>3, NullIsNoId DEF DepositLaw
  <2>6. QED
    BY <1>i, <2>3, <2>4, <2>5 DEF Knows, Cleared, Created, Expects, Touches
<1>7. ASSUME NEW c \in Reconciliations, NEW r \in Request, NEW op \in {"submit", "approve", "reopen"},
             Begin(w, r), r.op = op, r.reconciliation = c, r.since = {},
             reconciliation[c].status \in {"DRAFT", "PENDING_APPROVAL", "APPROVED"}
      PROVE  Begins(w)
  BY <1>i, <1>7 DEF Knows, Cleared, Created, Expects, Touches, FreshItems
<1>8. ASSUME NEW c \in Reconciliations, NEW u \in Users, SubmitRead(w, c, u) PROVE Begins(w)
  <2> DEFINE r == [op |-> "submit", reconciliation |-> c, user |-> u, since |-> {}]
  <2>1. r \in Request /\ r.op = "submit" /\ r.reconciliation = c /\ r.since = {}
    BY DEF Request
  <2>2. Begin(w, r) /\ reconciliation[c].status = "DRAFT"
    BY <1>8 DEF SubmitRead
  <2> HIDE DEF r
  <2>3. QED
    BY <1>7, <2>1, <2>2
<1>9. ASSUME NEW c \in Reconciliations, NEW op \in {"approve", "reopen", "void"}, Change(w, op, c),
             reconciliation[c].status # "NONE",
             op # "void" => reconciliation[c].status \in {"PENDING_APPROVAL", "APPROVED"}
      PROVE  Begins(w)
  <2> DEFINE r == [op |-> op, reconciliation |-> c, since |-> {}]
  <2>1. r \in Request /\ r.op = op /\ r.reconciliation = c /\ r.since = {}
    BY DEF Request
  <2>2. Begin(w, r)
    BY <1>9 DEF Change
  <2> HIDE DEF r
  <2>3. CASE op = "void"
    BY <1>i, <1>9, <2>1, <2>2, <2>3 DEF Knows, Cleared, Created, Expects, Touches
  <2>4. CASE op # "void"
    BY <1>7, <1>9, <2>1, <2>2, <2>4
  <2>5. QED
    BY <2>3, <2>4
<1>10. ASSUME NEW c \in Reconciliations, CloseRead(w, c) PROVE Begins(w)
  <2> DEFINE r == [op |-> "close", reconciliation |-> c, items |-> Snapshot(c), since |-> {}]
  <2>1. Snapshot(c) \in [Rows -> Settled \cup {None}]
          /\ \A x \in Rows : Snapshot(c)[x] = Recorded(c, x)
    BY DEF Snapshot, Recorded
  <2>2. /\ reconciliation[c].status = "APPROVED"
        /\ NoClosedOverlap({c}, reconciliation[c].start, reconciliation[c].end)
        /\ \A x \in InPeriod(c) : statement[x].status # "UNMATCHED"
    BY <1>10 DEF CloseRead, Ready
  <2>3. r \in Request /\ r.op = "close" /\ r.reconciliation = c /\ r.since = {}
          /\ r.items = Snapshot(c)
    BY <2>1 DEF Request
  <2>4. Begin(w, r)
    BY <1>10 DEF CloseRead
  <2> HIDE DEF r
  <2>5. FreshItems => Reviewed(c)
    BY <2>2 DEF FreshItems, NoItems, Reviewed
  <2>6. QED
    BY <1>i, <2>1, <2>2, <2>3, <2>4, <2>5 DEF Knows, Cleared, Created, Expects, Touches
<1>11. ASSUME NEW c \in Reconciliations
       PROVE  /\ \A u \in Users : ApproveRead(w, c, u) => Begins(w)
              /\ ReopenRead(w, c) => Begins(w)
              /\ VoidRead(w, c) => Begins(w)
  BY <1>9 DEF ApproveRead, ReopenRead, VoidRead
<1>12. QED
  BY <1>1, <1>2, <1>3, <1>4, <1>5, <1>6, <1>8, <1>10, <1>11

\* A write of statement rows or of a deposit, and a write of a reconciliation.
RowWrites(w) ==
    \/ ImportCommit(w) \/ VoidImportCommit(w) \/ MatchCommit(w)
    \/ CategorizeCommit(w) \/ IgnoreCommit(w)
    \/ PostDepositCommit(w) \/ MatchDepositCommit(w)
    \/ UnmatchDepositCommit(w) \/ VoidDepositCommit(w)

StatusWrites(w) ==
    SubmitCommit(w) \/ ApproveCommit(w) \/ ReopenCommit(w) \/ VoidCommit(w)

\* The kinds of steps the proofs tell apart.
LEMMA NextCases ==
    ASSUME TypeOK, Next
    PROVE  \/ \E w \in Workers : Begins(w)
           \/ \E w \in Workers : RowWrites(w)
           \/ \E w \in Workers : StatusWrites(w)
           \/ \E w \in Workers : CloseCommit(w)
           \/ \E w \in Workers : Abort(w)
           \/ \E c \in Reconciliations, start, end \in Days : CreateReconciliation(c, start, end)
<1>1. ASSUME NEW w \in Workers, StatementNext(w) PROVE Begins(w) \/ RowWrites(w)
  BY <1>1, ReadsBegin DEF StatementNext, RowWrites
<1>2. ASSUME NEW w \in Workers, DepositNext(w) PROVE Begins(w) \/ RowWrites(w)
  BY <1>2, ReadsBegin DEF DepositNext, RowWrites
<1>3. ASSUME NEW w \in Workers, ReconciliationNext(w)
      PROVE  Begins(w) \/ StatusWrites(w) \/ CloseCommit(w)
  BY <1>3, ReadsBegin DEF ReconciliationNext, StatusWrites
<1>4. QED
  BY <1>1, <1>2, <1>3 DEF Next

\* A write of statement rows keeps the types.
LEMMA RowWritesTyped ==
    ASSUME TypeOK, NEW w \in Workers, RowWrites(w)
    PROVE  TypeOK'
<1> DEFINE r == request[w]
<1> USE RequestFields
<1>s. "MATCHED" \in Settled /\ "CATEGORIZED" \in Settled /\ "IGNORED" \in Settled
  BY DEF Settled
<1>t. r \in Request /\ MaxJournals \in Nat /\ statement \in [Rows -> Statement]
        /\ deposit \in [Deposits -> Deposit] /\ reconciliation \in [Reconciliations -> Reconciliation]
  BY MaxJournalsIsPositive DEF TypeOK
<1>n. {} \in SUBSET {"rows"} /\ Races(w, "row", "rows") \in SUBSET {"rows"}
  BY RacesType
<1>1. CASE ImportCommit(w)
  <2>1. r.import \in Imports
    BY <1>1, <1>t DEF ImportCommit
  <2>2. [status |-> "UNMATCHED", import |-> r.import, journals |-> 0] \in Statement
    BY <2>1, <1>t DEF Statement
  <2>3. statement' \in [Rows -> Statement] /\ deposit' = deposit /\ RowChanged(w, {})
    BY <1>1, <1>t, <2>2 DEF ImportCommit
  <2>4. QED
    BY <2>3, <1>n, <1>t, RowChangedTyped DEF TypeOK
<1>2. CASE VoidImportCommit(w)
  <2>1. \A x \in Rows : [statement[x] EXCEPT !.status = "VOIDED"] \in Statement
    BY <1>t DEF Statement
  <2>2. statement' \in [Rows -> Statement] /\ deposit' = deposit
          /\ RowChanged(w, Races(w, "row", "rows"))
    BY <1>2, <1>t, <2>1 DEF VoidImportCommit
  <2>3. QED
    BY <2>2, <1>n, <1>t, RowChangedTyped DEF TypeOK
<1>3. CASE MatchCommit(w)
  <2>1. statement' = [statement EXCEPT ![r.row].status = "MATCHED"] /\ r.row \in Rows
          /\ deposit' = deposit /\ RowChanged(w, {})
    BY <1>3, <1>t DEF MatchCommit
  <2>2. statement' \in [Rows -> Statement]
    BY <2>1, <1>s, <1>t DEF Statement
  <2>3. QED
    BY <2>1, <2>2, <1>n, <1>t, RowChangedTyped DEF TypeOK
<1>4. CASE CategorizeCommit(w)
  <2>1. r.row \in Rows /\ statement[r.row].journals < MaxJournals
          /\ deposit' = deposit /\ RowChanged(w, {})
    BY <1>4, <1>t DEF CategorizeCommit
  <2>2. statement' = [statement EXCEPT ![r.row].status = "CATEGORIZED",
                                       ![r.row].journals = @ + 1]
    BY <1>4 DEF CategorizeCommit
  <2>3. statement' \in [Rows -> Statement]
    BY <2>1, <2>2, <1>s, <1>t DEF Statement
  <2>4. QED
    BY <2>1, <2>3, <1>n, <1>t, RowChangedTyped DEF TypeOK
<1>5. CASE IgnoreCommit(w)
  <2>1. statement' = [statement EXCEPT ![r.row].status = "IGNORED"] /\ r.row \in Rows
          /\ deposit' = deposit /\ RowChanged(w, Races(w, "row", "rows"))
    BY <1>5, <1>t DEF IgnoreCommit
  <2>2. statement' \in [Rows -> Statement]
    BY <2>1, <1>s, <1>t DEF Statement
  <2>3. QED
    BY <2>1, <2>2, <1>n, <1>t, RowChangedTyped DEF TypeOK
<1>6. CASE PostDepositCommit(w)
  <2>1. deposit' = [deposit EXCEPT ![r.deposit].status = "POSTED"] /\ r.deposit \in Deposits
          /\ statement' = statement /\ RowChanged(w, Races(w, "row", "rows"))
    BY <1>6, <1>t DEF PostDepositCommit
  <2>2. deposit' \in [Deposits -> Deposit]
    BY <2>1, <1>t DEF Deposit
  <2>3. QED
    BY <2>1, <2>2, <1>n, <1>t, RowChangedTyped DEF TypeOK
<1>7. CASE MatchDepositCommit(w)
  <2>1. r.row \in Rows /\ r.deposit \in Deposits /\ RowChanged(w, Races(w, "row", "rows"))
    BY <1>7, <1>t DEF MatchDepositCommit
  <2>2. statement' = [statement EXCEPT ![r.row].status = "MATCHED"]
    BY <1>7 DEF MatchDepositCommit
  <2>3. deposit' = [deposit EXCEPT ![r.deposit] = [status |-> "MATCHED", row |-> r.row]]
    BY <1>7 DEF MatchDepositCommit
  <2>4. statement' \in [Rows -> Statement]
    BY <2>1, <2>2, <1>s, <1>t DEF Statement
  <2>5. deposit' \in [Deposits -> Deposit]
    BY <2>1, <2>3, <1>t DEF Deposit
  <2>6. QED
    BY <2>1, <2>4, <2>5, <1>n, <1>t, RowChangedTyped DEF TypeOK
<1>8. CASE UnmatchDepositCommit(w) \/ VoidDepositCommit(w)
  <2>1. PICK status \in {"POSTED", "VOIDED"} : ReleaseDeposit(w, status)
    BY <1>8 DEF UnmatchDepositCommit, VoidDepositCommit
  <2>2. r.row \in Rows \cup {None} /\ r.deposit \in Deposits
          /\ RowChanged(w, Races(w, "row", "rows"))
    BY <1>8, <1>t, <2>1 DEF UnmatchDepositCommit, VoidDepositCommit, ReleaseDeposit
  <2>3. deposit' = [deposit EXCEPT ![r.deposit] = [status |-> status, row |-> None]]
    BY <2>1 DEF ReleaseDeposit
  <2>4. deposit' \in [Deposits -> Deposit]
    BY <2>2, <2>3, <1>t DEF Deposit
  <2>5. CASE r.row = None
    <3>1. statement' = statement
      BY <2>1, <2>5 DEF ReleaseDeposit
    <3>2. QED
      BY <3>1, <2>2, <2>4, <1>n, <1>t, RowChangedTyped DEF TypeOK
  <2>6. CASE r.row # None
    <3>1. statement' = [statement EXCEPT ![r.row].status = "UNMATCHED"] /\ r.row \in Rows
      BY <2>1, <2>2, <2>6 DEF ReleaseDeposit
    <3>2. statement' \in [Rows -> Statement]
      BY <3>1, <1>t DEF Statement
    <3>3. QED
      BY <3>2, <2>2, <2>4, <1>n, <1>t, RowChangedTyped DEF TypeOK
  <2>7. QED
    BY <2>5, <2>6
<1>9. QED
  BY <1>1, <1>2, <1>3, <1>4, <1>5, <1>6, <1>7, <1>8 DEF RowWrites

\* What a write of a status changes of a reconciliation.
StatusWritten(w, c, status) ==
    /\ c \in Reconciliations /\ c = request[w].reconciliation
    /\ reconciliation' \in [Reconciliations -> Reconciliation]
    /\ reconciliation'[c].status = status
    /\ \A d \in Reconciliations :
         /\ d # c => reconciliation'[d] = reconciliation[d]
         /\ reconciliation'[d].start = reconciliation[d].start
         /\ reconciliation'[d].end = reconciliation[d].end
         /\ reconciliation'[d].items = reconciliation[d].items
    /\ UNCHANGED <<statement, deposit>>
    /\ End(w, {})

\* What a commit of a new status writes.
LEMMA StatusCommitEffect ==
    ASSUME TypeOK, NEW w \in Workers,
           NEW op \in {"submit", "approve", "reopen", "void"},
           NEW status \in {"DRAFT", "PENDING_APPROVAL", "APPROVED", "VOIDED"},
           NEW by \in Users \cup {None}, StatusCommit(w, op, status, by)
    PROVE  /\ request[w].op = op
           /\ StatusWritten(w, request[w].reconciliation, status)
           /\ raced \subseteq raced'
           /\ raced' \subseteq raced \cup {"freeze"}
           /\ status # "VOIDED" /\ "close" \in request[w].since => "freeze" \in raced'
<1> DEFINE c == request[w].reconciliation
<1>1. request[w] \in Request /\ request[w].op = op
  BY DEF TypeOK, StatusCommit
<1>2. c \in Reconciliations
  BY <1>1, RequestFields
<1>3. reconciliation' = [reconciliation EXCEPT ![c].status = status, ![c].submittedBy = by]
  BY DEF StatusCommit
<1>4. reconciliation \in [Reconciliations -> Reconciliation]
  BY DEF TypeOK
<1>5. StatusWritten(w, c, status)
  BY <1>2, <1>3, <1>4 DEF StatusCommit, StatusWritten, Reconciliation
<1>6. raced' = raced \cup (IF status = "VOIDED" THEN {} ELSE Races(w, "close", "freeze"))
  BY DEF StatusCommit
<1>7. QED
  BY <1>1, <1>5, <1>6 DEF Races

\* Writes of a status, one for each.
LEMMA StatusWritesEffect ==
    ASSUME TypeOK, NEW w \in Workers, StatusWrites(w)
    PROVE  \E status \in {"DRAFT", "PENDING_APPROVAL", "APPROVED", "VOIDED"} :
             /\ StatusWritten(w, request[w].reconciliation, status)
             /\ raced \subseteq raced'
             /\ raced' \subseteq raced \cup {"freeze"}
             /\ status # "VOIDED" =>
                  /\ request[w].op \in {"submit", "approve", "reopen"}
                  /\ "close" \in request[w].since => "freeze" \in raced'
<1>0. request[w] \in Request /\ reconciliation \in [Reconciliations -> Reconciliation]
  BY DEF TypeOK
<1>1. CASE SubmitCommit(w)
  <2>1. request[w].user \in Users
    BY <1>0, <1>1, RequestFields DEF SubmitCommit
  <2>2. StatusCommit(w, "submit", "PENDING_APPROVAL", request[w].user)
    BY <1>1 DEF SubmitCommit
  <2>3. QED
    BY <2>1, <2>2, StatusCommitEffect
<1>2. CASE ApproveCommit(w)
  <2> DEFINE by == reconciliation[request[w].reconciliation].submittedBy
  <2>1. by \in Users \cup {None}
    BY <1>0, <1>2, RequestFields DEF ApproveCommit, Reconciliation
  <2>2. StatusCommit(w, "approve", "APPROVED", by)
    BY <1>2 DEF ApproveCommit
  <2>3. QED
    BY <2>1, <2>2, StatusCommitEffect
<1>3. CASE ReopenCommit(w)
  BY <1>3, StatusCommitEffect DEF ReopenCommit
<1>4. CASE VoidCommit(w)
  <2> DEFINE by == reconciliation[request[w].reconciliation].submittedBy
  <2>1. by \in Users \cup {None}
    BY <1>0, <1>4, RequestFields DEF VoidCommit, Reconciliation
  <2>2. StatusCommit(w, "void", "VOIDED", by)
    BY <1>4 DEF VoidCommit
  <2>3. QED
    BY <2>1, <2>2, StatusCommitEffect
<1>5. QED
  BY <1>1, <1>2, <1>3, <1>4 DEF StatusWrites

\* What a closing and a creation change.
LEMMA CloseEffect ==
    ASSUME TypeOK, NEW w \in Workers, CloseCommit(w),
           NEW c, c = request[w].reconciliation
    PROVE  /\ request[w].op = "close" /\ c \in Reconciliations
           /\ reconciliation' \in [Reconciliations -> Reconciliation]
           /\ reconciliation'[c].status = "CLOSED"
           /\ \A x \in Rows :
                reconciliation'[c].items[x] =
                  IF reconciliation[c].items[x] = None THEN request[w].items[x]
                  ELSE reconciliation[c].items[x]
           /\ reconciliation'[c].start = reconciliation[c].start
           /\ reconciliation'[c].end = reconciliation[c].end
           /\ \A d \in Reconciliations \ {c} : reconciliation'[d] = reconciliation[d]
           /\ UNCHANGED <<statement, deposit>>
           /\ End(w, {"close"})
           /\ raced' = raced \cup Races(w, "close", "closes") \cup Races(w, "row", "freeze")
<1> DEFINE items == [x \in Rows |-> IF reconciliation[c].items[x] = None
                                    THEN request[w].items[x] ELSE reconciliation[c].items[x]]
           row == [reconciliation[c] EXCEPT !.status = "CLOSED", !.items = items]
<1>1. request[w] \in Request /\ request[w].op = "close"
  BY DEF CloseCommit, TypeOK
<1>2. c \in Reconciliations /\ request[w].items \in [Rows -> Settled \cup {None}]
  BY <1>1, RequestFields
<1>3. reconciliation \in [Reconciliations -> Reconciliation]
  BY DEF TypeOK
<1>4. items \in [Rows -> Settled \cup {None}]
  BY <1>2, <1>3 DEF Reconciliation
<1>5. reconciliation' = [reconciliation EXCEPT ![c].status = "CLOSED", ![c].items = items]
  BY DEF CloseCommit
<1>6. reconciliation' = [reconciliation EXCEPT ![c] = row]
  BY ONLY <1>2, <1>3, <1>5
<1>7. \A x \in Rows :
        items[x] = IF reconciliation[c].items[x] = None THEN request[w].items[x]
                   ELSE reconciliation[c].items[x]
  OBVIOUS
<1>8. reconciliation[c] \in Reconciliation
  BY <1>2, <1>3
<1> HIDE DEF items
<1>9. row \in Reconciliation /\ row.status = "CLOSED" /\ row.items = items
        /\ row.start = reconciliation[c].start /\ row.end = reconciliation[c].end
  BY <1>4, <1>8 DEF Reconciliation
<1> HIDE DEF row
<1>10. reconciliation' \in [Reconciliations -> Reconciliation] /\ reconciliation'[c] = row
         /\ \A d \in Reconciliations \ {c} : reconciliation'[d] = reconciliation[d]
  BY <1>2, <1>3, <1>6, <1>9
<1>11. QED
  BY <1>1, <1>2, <1>7, <1>9, <1>10 DEF CloseCommit

\* What creating a reconciliation writes.
LEMMA CreateEffect ==
    ASSUME TypeOK, NEW c \in Reconciliations, NEW start \in Days, NEW end \in Days,
           CreateReconciliation(c, start, end)
    PROVE  /\ reconciliation' \in [Reconciliations -> Reconciliation]
           /\ reconciliation[c].status = "NONE" /\ reconciliation'[c].status = "DRAFT"
           /\ reconciliation'[c].start = start /\ reconciliation'[c].end = end
           /\ reconciliation'[c].items = reconciliation[c].items
           /\ \A d \in Reconciliations \ {c} : reconciliation'[d] = reconciliation[d]
           /\ UNCHANGED <<statement, deposit, request, raced>>
<1> DEFINE row == [reconciliation[c] EXCEPT !.status = "DRAFT", !.start = start, !.end = end]
<1>1. reconciliation \in [Reconciliations -> Reconciliation]
  BY DEF TypeOK
<1>2. reconciliation' = [reconciliation EXCEPT
        ![c].status = "DRAFT", ![c].start = start, ![c].end = end]
  BY DEF CreateReconciliation
<1>3. reconciliation' = [reconciliation EXCEPT ![c] = row]
  BY ONLY <1>1, <1>2
<1>4. row \in Reconciliation /\ row.status = "DRAFT" /\ row.start = start /\ row.end = end
        /\ row.items = reconciliation[c].items
  BY <1>1 DEF Reconciliation
<1> HIDE DEF row
<1>5. reconciliation' \in [Reconciliations -> Reconciliation] /\ reconciliation'[c] = row
        /\ \A d \in Reconciliations \ {c} : reconciliation'[d] = reconciliation[d]
  BY ONLY <1>1, <1>3, <1>4
<1>6. reconciliation[c].status = "NONE" /\ UNCHANGED <<statement, deposit, request, raced>>
  BY DEF CreateReconciliation
<1>7. QED
  BY <1>4, <1>5, <1>6

\* Every step keeps the types.
LEMMA NextTyped ==
    ASSUME TypeOK, Next
    PROVE  TypeOK'
<1>1. ASSUME NEW w \in Workers, Begins(w) PROVE TypeOK'
  BY <1>1 DEF Begins, Begin, TypeOK
<1>2. ASSUME NEW w \in Workers, StatusWrites(w) PROVE TypeOK'
  <2>1. PICK status : /\ StatusWritten(w, request[w].reconciliation, status)
                      /\ raced' \subseteq raced \cup {"freeze"}
    BY <1>2, StatusWritesEffect
  <2>2. request' \in [Workers -> Request]
    BY <2>1, AfterEnd DEF StatusWritten, TypeOK
  <2>3. QED
    BY <2>1, <2>2 DEF StatusWritten, TypeOK
<1>3. ASSUME NEW w \in Workers, CloseCommit(w) PROVE TypeOK'
  <2>1. request' \in [Workers -> Request]
    BY <1>3, AfterEnd DEF CloseCommit, TypeOK
  <2>2. raced' \subseteq {"closes", "freeze", "rows"}
    BY <1>3, RacesType DEF CloseCommit, TypeOK
  <2>3. QED
    BY <1>3, <2>1, <2>2, CloseEffect DEF TypeOK
<1>4. ASSUME NEW w \in Workers, Abort(w) PROVE TypeOK'
  BY <1>4 DEF Abort, TypeOK, Request
<1>5. ASSUME NEW c \in Reconciliations, NEW start \in Days, NEW end \in Days,
             CreateReconciliation(c, start, end)
      PROVE  TypeOK'
  BY <1>5, CreateEffect DEF TypeOK
<1>6. QED
  BY NextCases, RowWritesTyped, <1>1, <1>2, <1>3, <1>4, <1>5

-----------------------------------------------------------------------------
(* Rows and deposits. *)

SettlingInv ==
    "rows" \notin raced => RowLaw /\ DepositLaw /\ \A w \in Workers : Knows(request[w])

\* Whoever is overtaken by a change of a row knows it.
LEMMA KnowsAfterRow ==
    ASSUME TypeOK, NEW w \in Workers, End(w, {"row"})
    PROVE  \A v \in Workers : Knows(request[v])'
<1> SUFFICES ASSUME NEW v \in Workers, request'[v] # Idle, "row" \notin request'[v].since
             PROVE  request'[v].op \notin {"ignore", "voidImport", "postDeposit",
                                           "unmatchDeposit", "voidDeposit"}
  BY DEF Knows
<1>1. request[v] \in Request /\ request[v] # Idle
        /\ request'[v].op = request[v].op
        /\ "row" \notin Watched[request[v].op]
  BY AfterEnd DEF TypeOK, Later
<1>2. QED
  BY <1>1 DEF Watched

\* Other ends leave alone what is known.
LEMMA KnowsAfterOther ==
    ASSUME TypeOK, NEW w \in Workers, NEW kinds \in SUBSET {"row", "close"}, End(w, kinds),
           UNCHANGED <<statement, deposit>>, \A v \in Workers : Knows(request[v])
    PROVE  \A v \in Workers : Knows(request[v])'
<1> SUFFICES ASSUME NEW v \in Workers, request'[v] # Idle PROVE Knows(request[v])'
  BY DEF Knows
<1>1. request[v] # Idle /\ Later(request[v], request'[v], kinds)
  BY AfterEnd DEF TypeOK
<1>2. Knows(request[v])
  OBVIOUS
<1>3. QED
  BY <1>1, <1>2 DEF Knows, Later, RowsOf, Blocks

\* The settling invariant holds at the start.
LEMMA SettlingInit == Init => SettlingInv
  BY DEF Init, SettlingInv, RowLaw, DepositLaw, Knows

\* One row gets another status, and as many journals.
RowSet(x, status, journals) ==
    /\ x \in Rows
    /\ statement'[x].status = status /\ statement'[x].journals = journals
    /\ statement'[x].import = statement[x].import
    /\ \A y \in Rows \ {x} : statement'[y] = statement[y]

DepositSet(b, status, row) ==
    /\ b \in Deposits
    /\ deposit'[b].status = status /\ deposit'[b].row = row
    /\ \A d \in Deposits \ {b} : deposit'[d] = deposit[d]

\* What each write of a row does, and which change it may have passed over.
LEMMA RowWriteEffect ==
    ASSUME TypeOK, NEW w \in Workers, RowWrites(w), NEW r, r = request[w]
    PROVE  /\ r \in Request /\ r # Idle
           /\ End(w, {"row"}) /\ reconciliation' = reconciliation
           /\ raced \subseteq raced'
           /\ "close" \in r.since => "freeze" \in raced'
           /\ \/ /\ r.op = "import" /\ deposit' = deposit
                 /\ \A x \in Rows :
                      \/ statement'[x] = statement[x]
                      \/ /\ x \in r.rows /\ statement[x].status = "NONE"
                         /\ statement'[x].status = "UNMATCHED" /\ statement'[x].journals = 0
              \/ /\ r.op = "voidImport" /\ deposit' = deposit
                 /\ "row" \in r.since => "rows" \in raced'
                 /\ \A x \in Rows :
                      \/ x \notin RowsOf(r.import) /\ statement'[x] = statement[x]
                      \/ /\ x \in RowsOf(r.import)
                         /\ statement'[x].status = "VOIDED"
                         /\ statement'[x].journals = statement[x].journals
              \/ /\ r.op = "match" /\ deposit' = deposit
                 /\ statement[r.row].status = "UNMATCHED"
                 /\ RowSet(r.row, "MATCHED", statement[r.row].journals)
              \/ /\ r.op = "categorize" /\ deposit' = deposit
                 /\ statement[r.row].status = "UNMATCHED"
                 /\ RowSet(r.row, "CATEGORIZED", statement[r.row].journals + 1)
              \/ /\ r.op = "ignore" /\ deposit' = deposit
                 /\ "row" \in r.since => "rows" \in raced'
                 /\ RowSet(r.row, "IGNORED", statement[r.row].journals)
              \/ /\ r.op = "postDeposit" /\ statement' = statement
                 /\ "row" \in r.since => "rows" \in raced'
                 /\ DepositSet(r.deposit, "POSTED", deposit[r.deposit].row)
              \/ /\ r.op = "matchDeposit"
                 /\ statement[r.row].status = "UNMATCHED"
                 /\ \A b \in Deposits \ {r.deposit} : deposit[b].row # r.row
                 /\ RowSet(r.row, "MATCHED", statement[r.row].journals)
                 /\ DepositSet(r.deposit, "MATCHED", r.row)
              \/ /\ r.op \in {"unmatchDeposit", "voidDeposit"}
                 /\ "row" \in r.since => "rows" \in raced'
                 /\ \E status \in {"POSTED", "VOIDED"} : DepositSet(r.deposit, status, None)
                 /\ \/ r.row = None /\ statement' = statement
                    \/ r.row # None /\ RowSet(r.row, "UNMATCHED", statement[r.row].journals)
<1>t. r \in Request /\ statement \in [Rows -> Statement] /\ deposit \in [Deposits -> Deposit]
  BY DEF TypeOK
<1>i. \A op : r.op = op /\ op # "idle" => r # Idle
  BY DEF Idle
<1>c. ASSUME NEW classes, RowChanged(w, classes)
      PROVE  /\ End(w, {"row"}) /\ reconciliation' = reconciliation
             /\ raced \subseteq raced'
             /\ "close" \in r.since => "freeze" \in raced'
             /\ classes = Races(w, "row", "rows") /\ "row" \in r.since => "rows" \in raced'
  BY <1>c DEF RowChanged, Races
<1>1. CASE ImportCommit(w)
  <2> DEFINE row == [status |-> "UNMATCHED", import |-> r.import, journals |-> 0]
  <2>1. r.op = "import" /\ deposit' = deposit /\ RowChanged(w, {})
    BY <1>1 DEF ImportCommit
  <2>a. \A x \in r.rows : statement[x].status = "NONE"
    BY <1>1 DEF ImportCommit
  <2>b. statement' = [x \in Rows |-> IF x \in r.rows THEN row ELSE statement[x]]
    BY <1>1 DEF ImportCommit
  <2>c. row.status = "UNMATCHED" /\ row.journals = 0
    OBVIOUS
  <2> HIDE DEF row
  <2>2. \A x \in Rows :
          \/ statement'[x] = statement[x]
          \/ /\ x \in r.rows /\ statement[x].status = "NONE"
             /\ statement'[x].status = "UNMATCHED" /\ statement'[x].journals = 0
    BY <2>a, <2>b, <2>c
  <2>3. RowChanged(w, {})
    BY <2>1
  <2>4. QED
    BY <2>1, <2>2, <2>3, <1>c, <1>i, <1>t
<1>2. CASE VoidImportCommit(w)
  <2>1. r.op = "voidImport" /\ deposit' = deposit /\ RowChanged(w, Races(w, "row", "rows"))
          /\ statement' = [x \in Rows |-> IF x \in RowsOf(r.import)
               THEN [statement[x] EXCEPT !.status = "VOIDED"] ELSE statement[x]]
    BY <1>2 DEF VoidImportCommit
  <2>2. \A x \in Rows : [statement[x] EXCEPT !.status = "VOIDED"].status = "VOIDED"
          /\ [statement[x] EXCEPT !.status = "VOIDED"].journals = statement[x].journals
    BY <1>t DEF Statement
  <2>3. QED
    BY <2>1, <2>2, <1>c, <1>i, <1>t
<1>3. CASE MatchCommit(w)
  <2>1. r.op = "match" /\ r.row \in Rows /\ deposit' = deposit /\ RowChanged(w, {})
          /\ statement[r.row].status = "UNMATCHED"
          /\ statement' = [statement EXCEPT ![r.row].status = "MATCHED"]
    BY <1>3, <1>t, RequestFields DEF MatchCommit, RowClaim
  <2>2. RowSet(r.row, "MATCHED", statement[r.row].journals)
    BY <2>1, <1>t DEF Statement, RowSet
  <2>3. QED
    BY <2>1, <2>2, <1>c, <1>i, <1>t
<1>4. CASE CategorizeCommit(w)
  <2>1. r.op = "categorize" /\ r.row \in Rows /\ deposit' = deposit /\ RowChanged(w, {})
          /\ statement[r.row].status = "UNMATCHED"
          /\ statement' = [statement EXCEPT ![r.row].status = "CATEGORIZED",
                                            ![r.row].journals = @ + 1]
    BY <1>4, <1>t, RequestFields DEF CategorizeCommit, RowClaim
  <2>2. RowSet(r.row, "CATEGORIZED", statement[r.row].journals + 1)
    BY <2>1, <1>t DEF Statement, RowSet
  <2>3. QED
    BY <2>1, <2>2, <1>c, <1>i, <1>t
<1>5. CASE IgnoreCommit(w)
  <2>1. r.op = "ignore" /\ r.row \in Rows /\ deposit' = deposit
          /\ RowChanged(w, Races(w, "row", "rows"))
          /\ statement' = [statement EXCEPT ![r.row].status = "IGNORED"]
    BY <1>5, <1>t, RequestFields DEF IgnoreCommit
  <2>2. RowSet(r.row, "IGNORED", statement[r.row].journals)
    BY <2>1, <1>t DEF Statement, RowSet
  <2>3. QED
    BY <2>1, <2>2, <1>c, <1>i, <1>t
<1>6. CASE PostDepositCommit(w)
  <2>1. r.op = "postDeposit" /\ r.deposit \in Deposits /\ statement' = statement
          /\ RowChanged(w, Races(w, "row", "rows"))
          /\ deposit' = [deposit EXCEPT ![r.deposit].status = "POSTED"]
    BY <1>6, <1>t, RequestFields DEF PostDepositCommit
  <2>2. DepositSet(r.deposit, "POSTED", deposit[r.deposit].row)
    BY <2>1, <1>t DEF Deposit, DepositSet
  <2>3. QED
    BY <2>1, <2>2, <1>c, <1>i, <1>t
<1>7. CASE MatchDepositCommit(w)
  <2>1. r.op = "matchDeposit" /\ r.deposit \in Deposits /\ r.row \in Rows
          /\ RowChanged(w, Races(w, "row", "rows"))
    BY <1>7, <1>t, RequestFields DEF MatchDepositCommit
  <2>2. statement[r.row].status = "UNMATCHED"
          /\ \A b \in Deposits \ {r.deposit} : deposit[b].row # r.row
    BY <1>7 DEF MatchDepositCommit, RowClaim
  <2>3. statement' = [statement EXCEPT ![r.row].status = "MATCHED"]
    BY <1>7 DEF MatchDepositCommit
  <2>4. deposit' = [deposit EXCEPT ![r.deposit] = [status |-> "MATCHED", row |-> r.row]]
    BY <1>7 DEF MatchDepositCommit
  <2>5. RowSet(r.row, "MATCHED", statement[r.row].journals)
    BY <2>1, <2>3, <1>t DEF Statement, RowSet
  <2>6. DepositSet(r.deposit, "MATCHED", r.row)
    BY <2>1, <2>4, <1>t DEF DepositSet
  <2>7. QED
    BY <2>1, <2>2, <2>5, <2>6, <1>c, <1>i, <1>t
<1>8. CASE UnmatchDepositCommit(w) \/ VoidDepositCommit(w)
  <2>1. PICK status \in {"POSTED", "VOIDED"} : ReleaseDeposit(w, status)
    BY <1>8 DEF UnmatchDepositCommit, VoidDepositCommit
  <2>2. r.op \in {"unmatchDeposit", "voidDeposit"}
          /\ r.deposit \in Deposits /\ r.row \in Rows \cup {None}
    BY <1>8, <1>t, RequestFields DEF UnmatchDepositCommit, VoidDepositCommit
  <2>3. deposit' = [deposit EXCEPT ![r.deposit] = [status |-> status, row |-> None]]
          /\ RowChanged(w, Races(w, "row", "rows"))
          /\ statement' = IF r.row = None THEN statement
                          ELSE [statement EXCEPT ![r.row].status = "UNMATCHED"]
    BY <2>1 DEF ReleaseDeposit
  <2>4. DepositSet(r.deposit, status, None)
    BY <2>2, <2>3, <1>t DEF DepositSet
  <2>5. r.row # None => RowSet(r.row, "UNMATCHED", statement[r.row].journals)
    BY <2>2, <2>3, <1>t DEF Statement, RowSet
  <2>6. r.row = None => statement' = statement
    BY <2>3
  <2>7. QED
    BY <2>2, <2>3, <2>4, <2>5, <2>6, <1>c, <1>i, <1>t
<1>9. QED
  BY <1>1, <1>2, <1>3, <1>4, <1>5, <1>6, <1>7, <1>8 DEF RowWrites

\* The unraced part of RowWriteEffect, with what the writer still knows.
LEMMA SettlingRow ==
    ASSUME TypeOK, SettlingInv, NEW w \in Workers, RowWrites(w)
    PROVE  SettlingInv'
<1> DEFINE r == request[w]
<1> SUFFICES ASSUME "rows" \notin raced'
             PROVE  RowLaw' /\ DepositLaw' /\ \A v \in Workers : Knows(request[v])'
  BY DEF SettlingInv
<1>1. r \in Request /\ r # Idle /\ End(w, {"row"}) /\ "rows" \notin raced
  BY RowWriteEffect
<1>2. RowLaw /\ DepositLaw /\ Knows(r)
  BY <1>1 DEF SettlingInv
<1>3. \A v \in Workers : Knows(request[v])'
  BY <1>1, KnowsAfterRow
<1>t. /\ statement \in [Rows -> Statement]
      /\ \A b \in Deposits : deposit[b].row \in Rows \cup {None}
      /\ None \notin Rows
  BY NullIsNoId DEF TypeOK, Deposit
<1>4. CASE r.op = "import"
  <2>1. deposit' = deposit
          /\ \A x \in Rows :
               \/ statement'[x] = statement[x]
               \/ statement[x].status = "NONE" /\ statement'[x].status = "UNMATCHED"
                  /\ statement'[x].journals = 0
    BY <1>4, RowWriteEffect
  <2>2. RowLaw'
    BY <2>1, <1>2 DEF RowLaw
  <2>3. DepositLaw'
    BY <2>1, <1>2, <1>t DEF DepositLaw
  <2>4. QED
    BY <2>2, <2>3, <1>3
<1>5. CASE r.op = "voidImport"
  <2>1. deposit' = deposit /\ "row" \notin r.since
          /\ \A x \in Rows :
               \/ x \notin RowsOf(r.import) /\ statement'[x] = statement[x]
               \/ /\ x \in RowsOf(r.import) /\ statement'[x].status = "VOIDED"
                  /\ statement'[x].journals = statement[x].journals
    BY <1>5, RowWriteEffect
  <2>2. \A x \in RowsOf(r.import) : statement[x].status \notin {"MATCHED", "CATEGORIZED"}
    BY <1>1, <1>2, <1>5, <2>1 DEF Knows, Blocks
  <2>3. RowLaw'
    BY <2>1, <2>2, <1>2 DEF RowLaw
  <2>4. DepositLaw'
    BY <2>1, <2>2, <1>2, <1>t DEF DepositLaw
  <2>5. QED
    BY <2>3, <2>4, <1>3
<1>6. CASE r.op \in {"match", "categorize", "ignore"}
  <2>1. PICK status \in {"MATCHED", "CATEGORIZED", "IGNORED"} :
          /\ deposit' = deposit /\ statement[r.row].status = "UNMATCHED"
          /\ RowSet(r.row, status, IF status = "CATEGORIZED" THEN statement[r.row].journals + 1
                                   ELSE statement[r.row].journals)
    <3>1. CASE r.op = "match"
      BY <3>1, RowWriteEffect
    <3>2. CASE r.op = "categorize"
      BY <3>2, RowWriteEffect
    <3>3. CASE r.op = "ignore"
      <4>1. "row" \notin r.since /\ deposit' = deposit
              /\ RowSet(r.row, "IGNORED", statement[r.row].journals)
        BY <3>3, RowWriteEffect
      <4>2. statement[r.row].status = "UNMATCHED"
        BY <3>3, <4>1, <1>1, <1>2 DEF Knows
      <4>3. QED
        BY <4>1, <4>2
    <3>4. QED
      BY <1>6, <3>1, <3>2, <3>3
  <2>2. r.row \in Rows
    BY <2>1 DEF RowSet
  <2>3. statement[r.row].journals = 0
    BY <2>1, <2>2, <1>2 DEF RowLaw
  <2>4. RowLaw'
    BY <2>1, <2>2, <2>3, <1>2 DEF RowLaw, RowSet
  <2>5. DepositLaw'
    BY <2>1, <1>2, <1>t DEF DepositLaw, RowSet
  <2>6. QED
    BY <2>4, <2>5, <1>3
<1>7. CASE r.op = "postDeposit"
  <2>1. statement' = statement /\ "row" \notin r.since
          /\ DepositSet(r.deposit, "POSTED", deposit[r.deposit].row)
    BY <1>7, RowWriteEffect
  <2>2. deposit[r.deposit].status = "DRAFT"
    BY <1>1, <1>2, <1>7, <2>1 DEF Knows
  <2>3. deposit[r.deposit].row = None
    BY <2>1, <2>2, <1>2 DEF DepositLaw, DepositSet
  <2>4. DepositLaw'
    BY <2>1, <2>3, <1>2 DEF DepositLaw, DepositSet
  <2>5. QED
    BY <2>1, <2>4, <1>2, <1>3 DEF RowLaw
<1>8. CASE r.op = "matchDeposit"
  <2>1. /\ statement[r.row].status = "UNMATCHED"
        /\ \A b \in Deposits \ {r.deposit} : deposit[b].row # r.row
        /\ RowSet(r.row, "MATCHED", statement[r.row].journals)
        /\ DepositSet(r.deposit, "MATCHED", r.row)
    BY <1>8, RowWriteEffect
  <2>2. RowLaw'
    BY <2>1, <1>2 DEF RowLaw, RowSet
  <2>3. r.row \in Rows /\ r.deposit \in Deposits
    BY <2>1 DEF RowSet, DepositSet
  <2>4. ASSUME NEW b \in Deposits
        PROVE  /\ deposit'[b].status = "MATCHED" <=> deposit'[b].row # None
               /\ deposit'[b].row # None => statement'[deposit'[b].row].status = "MATCHED"
    BY <2>1, <2>3, <1>2, <1>t DEF DepositLaw, RowSet, DepositSet
  <2>5. ASSUME NEW b \in Deposits, NEW d \in Deposits \ {b}, deposit'[b].row # None
        PROVE  deposit'[d].row # deposit'[b].row
    BY <2>1, <2>3, <2>5, <1>2 DEF DepositLaw, DepositSet
  <2>6. DepositLaw'
    BY <2>4, <2>5 DEF DepositLaw
  <2>7. QED
    BY <2>2, <2>6, <1>3
<1>9. CASE r.op \in {"unmatchDeposit", "voidDeposit"}
  <2>1. PICK status \in {"POSTED", "VOIDED"} :
          /\ "row" \notin r.since /\ DepositSet(r.deposit, status, None)
          /\ \/ r.row = None /\ statement' = statement
             \/ r.row # None /\ RowSet(r.row, "UNMATCHED", statement[r.row].journals)
    BY <1>9, RowWriteEffect
  <2>2. deposit[r.deposit].row = r.row /\ r.deposit \in Deposits
    BY <1>1, <1>2, <1>9, <2>1 DEF Knows, DepositSet
  <2>3. r.row # None => statement[r.row].status = "MATCHED"
    BY <2>2, <1>2 DEF DepositLaw
  <2>4. RowLaw'
    BY <2>1, <2>3, <1>2 DEF RowLaw, RowSet
  <2>5. ASSUME NEW b \in Deposits
        PROVE  /\ deposit'[b].status = "MATCHED" <=> deposit'[b].row # None
               /\ deposit'[b].row # None => statement'[deposit'[b].row].status = "MATCHED"
    BY <2>1, <2>2, <1>2, <1>t DEF DepositLaw, RowSet, DepositSet
  <2>6. ASSUME NEW b \in Deposits, NEW d \in Deposits \ {b}, deposit'[b].row # None
        PROVE  deposit'[d].row # deposit'[b].row
    BY <2>1, <2>2, <2>6, <1>2 DEF DepositLaw, DepositSet
  <2>7. DepositLaw'
    BY <2>5, <2>6 DEF DepositLaw
  <2>8. QED
    BY <2>4, <2>7, <1>3
<1>10. r.op \in {"import", "voidImport", "match", "categorize", "ignore", "postDeposit",
                 "matchDeposit", "unmatchDeposit", "voidDeposit"}
  BY RowWriteEffect
<1>11. QED
  BY <1>4, <1>5, <1>6, <1>7, <1>8, <1>9, <1>10

\* Every step keeps the settling invariant.
LEMMA SettlingStep ==
    ASSUME TypeOK, SettlingInv, Next
    PROVE  SettlingInv'
<1>1. ASSUME NEW w \in Workers, Begins(w) PROVE SettlingInv'
  <2>1. PICK r \in Request : Begin(w, r) /\ Knows(r)
    BY <1>1 DEF Begins
  <2>2. UNCHANGED <<statement, deposit, raced>>
          /\ request' = [request EXCEPT ![w] = r]
    BY <2>1 DEF Begin
  <2>3. \A v \in Workers : request'[v] = r \/ request'[v] = request[v]
    BY <2>2 DEF TypeOK
  <2>4. QED
    BY <2>1, <2>2, <2>3 DEF SettlingInv, RowLaw, DepositLaw, Knows, RowsOf, Blocks
<1>2. ASSUME NEW w \in Workers, StatusWrites(w) PROVE SettlingInv'
  <2>1. End(w, {}) /\ UNCHANGED <<statement, deposit>> /\ raced \subseteq raced'
    BY <1>2, StatusWritesEffect DEF StatusWritten
  <2>2. "rows" \notin raced' => \A v \in Workers : Knows(request[v])'
    BY <2>1, KnowsAfterOther DEF SettlingInv
  <2>3. QED
    BY <2>1, <2>2 DEF SettlingInv, RowLaw, DepositLaw
<1>3. ASSUME NEW w \in Workers, CloseCommit(w) PROVE SettlingInv'
  <2>1. End(w, {"close"}) /\ UNCHANGED <<statement, deposit>> /\ raced \subseteq raced'
    BY <1>3 DEF CloseCommit
  <2>2. "rows" \notin raced' => \A v \in Workers : Knows(request[v])'
    BY <2>1, KnowsAfterOther DEF SettlingInv
  <2>3. QED
    BY <2>1, <2>2 DEF SettlingInv, RowLaw, DepositLaw
<1>4. ASSUME NEW w \in Workers, Abort(w) PROVE SettlingInv'
  <2>1. UNCHANGED <<statement, deposit, raced>> /\ request' = [request EXCEPT ![w] = Idle]
    BY <1>4 DEF Abort
  <2>2. \A v \in Workers : request'[v] = Idle \/ request'[v] = request[v]
    BY <2>1 DEF TypeOK
  <2>3. QED
    BY <2>1, <2>2 DEF SettlingInv, RowLaw, DepositLaw, Knows, RowsOf, Blocks
<1>5. ASSUME NEW c \in Reconciliations, NEW start \in Days, NEW end \in Days,
             CreateReconciliation(c, start, end)
      PROVE  SettlingInv'
  BY <1>5 DEF CreateReconciliation, SettlingInv, RowLaw, DepositLaw, Knows, RowsOf, Blocks
<1>6. QED
  BY NextCases, SettlingRow, <1>1, <1>2, <1>3, <1>4, <1>5

-----------------------------------------------------------------------------
(* Closed periods. *)

Dated ==
    \A c \in Reconciliations :
      reconciliation[c].status # "NONE" =>
        reconciliation[c].start \in Int /\ reconciliation[c].end \in Int

PeriodLaw ==
    \A c, d \in Reconciliations :
      c # d /\ reconciliation[c].status = "CLOSED" /\ reconciliation[d].status = "CLOSED"
        => \/ reconciliation[c].end < reconciliation[d].start
           \/ reconciliation[d].end < reconciliation[c].start

ClosingInv ==
    /\ Dated
    /\ \A w \in Workers : Created(request[w])
    /\ "closes" \notin raced => PeriodLaw /\ \A w \in Workers : Cleared(request[w])

\* The closing invariant holds at the start.
LEMMA ClosingInit == Init => ClosingInv
  BY DEF Init, ClosingInv, Dated, PeriodLaw, Created, Cleared, Idle

\* Requests stay created, and cleared, when others end and no period is closed.
LEMMA ClosingAfterEnd ==
    ASSUME TypeOK, ClosingInv, NEW w \in Workers, NEW kinds \in SUBSET {"row", "close"},
           End(w, kinds), raced \subseteq raced',
           \A c \in Reconciliations :
             /\ reconciliation'[c].start = reconciliation[c].start
             /\ reconciliation'[c].end = reconciliation[c].end
             /\ reconciliation'[c].status = "CLOSED" => reconciliation[c].status = "CLOSED"
             /\ reconciliation'[c].status # "NONE" <=> reconciliation[c].status # "NONE"
    PROVE  ClosingInv'
<1>1. Dated'
  BY DEF ClosingInv, Dated
<1>2. ASSUME NEW v \in Workers, request'[v] # Idle
      PROVE  /\ request[v] \in Request /\ request[v] # Idle
             /\ Later(request[v], request'[v], kinds)
  BY <1>2, AfterEnd DEF TypeOK
<1>3. ASSUME NEW v \in Workers PROVE Created(request[v])'
  <2>1. CASE request'[v] = Idle
    BY <2>1 DEF Created, Idle
  <2>2. CASE request'[v] # Idle
    BY <2>2, <1>2, RequestFields DEF ClosingInv, Created, Later
  <2>3. QED
    BY <2>1, <2>2
<1>4. ASSUME "closes" \notin raced' PROVE PeriodLaw'
  <2>1. PeriodLaw
    BY <1>4 DEF ClosingInv
  <2>2. QED
    BY <2>1 DEF PeriodLaw
<1>5. ASSUME "closes" \notin raced', NEW v \in Workers PROVE Cleared(request[v])'
  <2>1. CASE request'[v] = Idle
    BY <2>1 DEF Cleared, Idle
  <2>2. CASE request'[v] # Idle
    <3>1. Cleared(request[v])
      BY <1>5 DEF ClosingInv
    <3>2. request[v] \in Request /\ Later(request[v], request'[v], kinds)
      BY <2>2, <1>2
    <3>3. CASE request'[v].op = "close" /\ "close" \notin request'[v].since
      <4>1. PICK d \in Reconciliations :
              d = request[v].reconciliation /\ d = request'[v].reconciliation
        BY <3>2, <3>3, RequestFields DEF Later
      <4>2. NoClosedOverlap({d}, reconciliation[d].start, reconciliation[d].end)
        BY <3>1, <3>2, <3>3, <4>1 DEF Cleared, Later
      <4>3. NoClosedOverlap({d}, reconciliation[d].start, reconciliation[d].end)'
        BY <4>2 DEF NoClosedOverlap, Overlap
      <4>4. QED
        BY <4>1, <4>3 DEF Cleared, NoClosedOverlap, Overlap
    <3>4. QED
      BY <3>3 DEF Cleared
  <2>3. QED
    BY <2>1, <2>2
<1>6. QED
  BY <1>1, <1>3, <1>4, <1>5 DEF ClosingInv

\* A period that is closed in time overlaps no other.
LEMMA ClosingClose ==
    ASSUME TypeOK, ClosingInv, NEW w \in Workers, CloseCommit(w)
    PROVE  ClosingInv'
<1> DEFINE c == request[w].reconciliation
<1>1. /\ request[w].op = "close" /\ c \in Reconciliations
      /\ reconciliation'[c].status = "CLOSED"
      /\ reconciliation'[c].start = reconciliation[c].start
      /\ reconciliation'[c].end = reconciliation[c].end
      /\ \A d \in Reconciliations \ {c} : reconciliation'[d] = reconciliation[d]
      /\ End(w, {"close"})
      /\ raced' = raced \cup Races(w, "close", "closes") \cup Races(w, "row", "freeze")
  BY CloseEffect
<1>2. reconciliation[c].status # "NONE"
  BY <1>1 DEF ClosingInv, Created
<1>3. Dated'
  BY <1>1, <1>2 DEF ClosingInv, Dated
<1>4. ASSUME NEW v \in Workers, request'[v] # Idle
      PROVE  /\ request[v] \in Request /\ request[v] # Idle
             /\ Later(request[v], request'[v], {"close"})
  BY <1>1, <1>4, AfterEnd DEF TypeOK
<1>5. ASSUME NEW v \in Workers PROVE Created(request[v])'
  <2>1. CASE request'[v] = Idle
    BY <2>1 DEF Created, Idle
  <2>2. CASE request'[v] # Idle
    BY <2>2, <1>1, <1>4, RequestFields DEF ClosingInv, Created, Later
  <2>3. QED
    BY <2>1, <2>2
<1>6. ASSUME NEW v \in Workers PROVE Cleared(request[v])'
  <2>1. CASE request'[v] = Idle
    BY <2>1 DEF Cleared, Idle
  <2>2. CASE request'[v] # Idle
    BY <2>2, <1>4 DEF Cleared, Later, Watched
  <2>3. QED
    BY <2>1, <2>2
<1>7. ASSUME "closes" \notin raced' PROVE PeriodLaw'
  <2>1. "closes" \notin raced /\ "close" \notin request[w].since
    BY <1>1, <1>7 DEF Races
  <2>2. PeriodLaw /\ NoClosedOverlap({c}, reconciliation[c].start, reconciliation[c].end)
    BY <1>1, <2>1 DEF ClosingInv, Cleared
  <2>3. ASSUME NEW d \in Reconciliations \ {c}, reconciliation'[d].status = "CLOSED"
        PROVE  \/ reconciliation'[c].end < reconciliation'[d].start
               \/ reconciliation'[d].end < reconciliation'[c].start
    <3>1. reconciliation[d].status = "CLOSED" /\ reconciliation'[d] = reconciliation[d]
      BY <1>1, <2>3
    <3>2. /\ reconciliation[c].start \in Int /\ reconciliation[c].end \in Int
          /\ reconciliation[d].start \in Int /\ reconciliation[d].end \in Int
      BY <1>1, <1>2, <3>1 DEF ClosingInv, Dated
    <3>3. ~ (reconciliation[d].start <= reconciliation[c].end
               /\ reconciliation[c].start <= reconciliation[d].end)
      BY <2>2, <3>1 DEF NoClosedOverlap, Overlap
    <3>4. QED
      BY <1>1, <3>1, <3>2, <3>3
  <2>4. QED
    BY <1>1, <2>2, <2>3 DEF PeriodLaw
<1>8. QED
  BY <1>3, <1>5, <1>6, <1>7 DEF ClosingInv

\* A draft closes nothing, and no request is under way for it.
LEMMA ClosingCreate ==
    ASSUME TypeOK, ClosingInv, NEW c \in Reconciliations, NEW start \in Days, NEW end \in Days,
           CreateReconciliation(c, start, end)
    PROVE  ClosingInv'
<1>1. /\ reconciliation[c].status = "NONE" /\ reconciliation'[c].status = "DRAFT"
      /\ reconciliation'[c].start = start /\ reconciliation'[c].end = end
      /\ \A d \in Reconciliations \ {c} : reconciliation'[d] = reconciliation[d]
      /\ UNCHANGED <<statement, deposit, request, raced>>
  BY CreateEffect
<1>2. Dated'
  BY <1>1, DatesAreDays DEF ClosingInv, Dated
<1>3. \A v \in Workers : Created(request[v]) /\ request[v] \in Request
  BY DEF ClosingInv, TypeOK
<1>4. \A v \in Workers : Created(request[v])'
  BY <1>1, <1>3, RequestFields DEF Created
<1>5. ASSUME "closes" \notin raced' PROVE PeriodLaw' /\ \A v \in Workers : Cleared(request[v])'
  <2>1. PeriodLaw /\ \A v \in Workers : Cleared(request[v])
    BY <1>1, <1>5 DEF ClosingInv
  <2>2. PeriodLaw'
    BY <1>1, <2>1 DEF PeriodLaw
  <2>3. ASSUME NEW v \in Workers, request[v].op = "close", "close" \notin request[v].since
        PROVE  NoClosedOverlap({request[v].reconciliation},
                 reconciliation[request[v].reconciliation].start,
                 reconciliation[request[v].reconciliation].end)'
    <3>1. request[v].reconciliation \in Reconciliations \ {c}
      BY <1>1, <1>3, <2>3, RequestFields DEF Created
    <3>2. NoClosedOverlap({request[v].reconciliation},
            reconciliation[request[v].reconciliation].start,
            reconciliation[request[v].reconciliation].end)
      BY <2>1, <2>3 DEF Cleared
    <3>3. QED
      BY <1>1, <3>1, <3>2 DEF NoClosedOverlap, Overlap
  <2>4. QED
    BY <1>1, <2>2, <2>3 DEF Cleared
<1>6. QED
  BY <1>2, <1>4, <1>5 DEF ClosingInv

\* Every step keeps the closing invariant.
LEMMA ClosingStep ==
    ASSUME TypeOK, ClosingInv, Next
    PROVE  ClosingInv'
<1>1. ASSUME NEW w \in Workers, Begins(w) PROVE ClosingInv'
  <2>1. PICK r \in Request : Begin(w, r) /\ Cleared(r) /\ Created(r)
    BY <1>1 DEF Begins
  <2>2. UNCHANGED <<reconciliation, raced>> /\ request' = [request EXCEPT ![w] = r]
    BY <2>1 DEF Begin
  <2>3. \A v \in Workers : request'[v] = r \/ request'[v] = request[v]
    BY <2>2 DEF TypeOK
  <2>4. QED
    BY <2>1, <2>2, <2>3
       DEF ClosingInv, Dated, PeriodLaw, Cleared, Created, NoClosedOverlap, Overlap
<1>2. ASSUME NEW w \in Workers, RowWrites(w) PROVE ClosingInv'
  <2>1. End(w, {"row"}) /\ reconciliation' = reconciliation /\ raced \subseteq raced'
    BY <1>2, RowWriteEffect
  <2>2. QED
    BY <2>1, ClosingAfterEnd
<1>3. ASSUME NEW w \in Workers, StatusWrites(w) PROVE ClosingInv'
  <2>1. PICK status \in {"DRAFT", "PENDING_APPROVAL", "APPROVED", "VOIDED"} :
          StatusWritten(w, request[w].reconciliation, status) /\ raced \subseteq raced'
    BY <1>3, StatusWritesEffect
  <2>2. request[w].op \in {"submit", "approve", "reopen", "void"}
    BY <1>3 DEF StatusWrites, SubmitCommit, ApproveCommit, ReopenCommit, VoidCommit, StatusCommit
  <2>3. reconciliation[request[w].reconciliation].status # "NONE"
    BY <2>2 DEF ClosingInv, Created
  <2>4. QED
    BY <2>1, <2>3, ClosingAfterEnd DEF StatusWritten
<1>4. ASSUME NEW w \in Workers, Abort(w) PROVE ClosingInv'
  <2>1. UNCHANGED <<reconciliation, raced>> /\ request' = [request EXCEPT ![w] = Idle]
    BY <1>4 DEF Abort
  <2>2. \A v \in Workers : request'[v] = Idle \/ request'[v] = request[v]
    BY <2>1 DEF TypeOK
  <2>3. QED
    BY <2>1, <2>2
       DEF ClosingInv, Dated, PeriodLaw, Cleared, Created, NoClosedOverlap, Overlap, Idle
<1>5. QED
  BY NextCases, ClosingClose, ClosingCreate, <1>1, <1>2, <1>3, <1>4

-----------------------------------------------------------------------------
(* Frozen periods. *)

FrozenLaw ==
    \A c \in Reconciliations : reconciliation[c].status = "CLOSED" =>
      \A x \in InPeriod(c) :
        /\ statement[x].status # "UNMATCHED"
        /\ reconciliation[c].items[x] = Recorded(c, x)

FrozenInv ==
    raced \cap {"freeze", "rows"} = {} =>
      FrozenLaw /\ FreshItems /\ \A w \in Workers : Expects(request[w])

\* The invariant of frozen rows holds at the start.
LEMMA FrozenInit == Init => FrozenInv
  BY DEF Init, FrozenInv, FrozenLaw, FreshItems, NoItems, Expects

\* What is expected before a write is expected after it, unless the write is
\* one that overtakes the request.
LEMMA ExpectsLater ==
    ASSUME NEW r \in Request, r # Idle, Expects(r),
           NEW kinds \in SUBSET {"row", "close"}, NEW s, Later(r, s, kinds),
           "close" \notin kinds =>
             /\ \A x \in Rows : ~InClosed(x) => ~InClosed(x)'
             /\ \A c \in Reconciliations : NoItems(c) => NoItems(c)'
             /\ "row" \notin kinds => \A m \in Imports : Voidable(m) => Voidable(m)',
           "row" \notin kinds =>
             \A c \in Reconciliations :
               /\ Reviewed(c) => Reviewed(c)'
               /\ \A x \in Rows : Recorded(c, x)' = Recorded(c, x)
    PROVE  Expects(s)'
<1>1. s # Idle /\ s.op = r.op /\ (\A x : Touches(s, x) <=> Touches(r, x))
  BY DEF Later, Touches
<1>2. ASSUME "close" \notin s.since, NEW x \in Rows, Touches(s, x) PROVE ~InClosed(x)'
  <2>1. Touches(r, x) /\ "close" \in Watched[r.op]
    BY <1>1, <1>2 DEF Touches, Watched
  <2>2. "close" \notin kinds /\ "close" \notin r.since
    BY <1>2, <2>1 DEF Later
  <2>3. QED
    BY <2>1, <2>2 DEF Expects
<1>3. ASSUME "close" \notin s.since, "row" \notin s.since, NEW m \in Imports,
             s.op = "voidImport", s.import = m
      PROVE  Voidable(m)'
  <2>1. kinds \cap {"row", "close"} = {} /\ "close" \notin r.since /\ "row" \notin r.since
          /\ r.import = m
    BY <1>1, <1>3 DEF Later, Watched
  <2>2. QED
    BY <1>1, <1>3, <2>1 DEF Expects
<1>4. ASSUME "close" \notin s.since, NEW c \in Reconciliations,
             s.op \in {"submit", "approve", "reopen"}, s.reconciliation = c
      PROVE  NoItems(c)'
  <2>1. "close" \notin kinds /\ "close" \notin r.since /\ r.reconciliation = c
    BY <1>1, <1>4 DEF Later, Watched
  <2>2. QED
    BY <1>1, <1>4, <2>1 DEF Expects
<1>5. ASSUME "row" \notin s.since, NEW c \in Reconciliations,
             s.op = "close", s.reconciliation = c
      PROVE  Reviewed(c)' /\ \A x \in Rows : s.items[x] = Recorded(c, x)'
  <2>1. "row" \notin kinds /\ "row" \notin r.since /\ r.reconciliation = c /\ s.items = r.items
    BY <1>1, <1>5 DEF Later, Watched
  <2>2. QED
    BY <1>1, <1>5, <2>1 DEF Expects
<1>6. QED
  BY <1>1, <1>2, <1>3, <1>4, <1>5 DEF Expects

\* Every request after the end of one.
LEMMA ExpectsAfterEnd ==
    ASSUME TypeOK, \A v \in Workers : Expects(request[v]),
           NEW w \in Workers, NEW kinds \in SUBSET {"row", "close"}, End(w, kinds),
           "close" \notin kinds =>
             /\ \A x \in Rows : ~InClosed(x) => ~InClosed(x)'
             /\ \A c \in Reconciliations : NoItems(c) => NoItems(c)'
             /\ "row" \notin kinds => \A m \in Imports : Voidable(m) => Voidable(m)',
           "row" \notin kinds =>
             \A c \in Reconciliations :
               /\ Reviewed(c) => Reviewed(c)'
               /\ \A x \in Rows : Recorded(c, x)' = Recorded(c, x)
    PROVE  \A v \in Workers : Expects(request[v])'
<1>1. ASSUME NEW v \in Workers, request'[v] = Idle PROVE Expects(request[v])'
  BY <1>1 DEF Expects
<1>2. ASSUME NEW v \in Workers, request'[v] # Idle PROVE Expects(request[v])'
  <2>1. request[v] \in Request /\ request[v] # Idle /\ Expects(request[v])
          /\ Later(request[v], request'[v], kinds)
    BY <1>2, AfterEnd DEF TypeOK
  <2>2. PICK s : s = request'[v]
    OBVIOUS
  <2>3. Expects(s)'
    BY <2>1, <2>2, ExpectsLater
  <2>4. QED
    BY <2>2, <2>3 DEF Expects, Touches
<1>3. QED
  BY <1>1, <1>2

\* A row whose status changes is in no closed period.
LEMMA FrozenRows ==
    ASSUME TypeOK, NEW w \in Workers, RowWrites(w), Expects(request[w]),
           raced' \cap {"freeze", "rows"} = {},
           NEW x \in Rows, statement'[x].status # statement[x].status
    PROVE  ~InClosed(x)
<1> DEFINE r == request[w]
<1>1. r \in Request /\ r # Idle /\ "close" \notin r.since
  BY RowWriteEffect
<1>2. \A y \in Rows : Touches(r, y) => ~InClosed(y)
  BY <1>1 DEF Expects
<1>3. CASE r.op = "import"
  <2>1. x \in r.rows
    BY <1>3, RowWriteEffect
  <2>2. QED
    BY <1>2, <1>3, <2>1 DEF Touches
<1>4. CASE r.op = "voidImport"
  <2>1. "row" \notin r.since /\ x \in RowsOf(r.import) /\ statement'[x].status = "VOIDED"
    BY <1>4, RowWriteEffect
  <2>2. r.import \in Imports
    BY <1>1, <1>4, RequestFields
  <2>3. Voidable(r.import)
    BY <1>1, <1>4, <2>1, <2>2 DEF Expects
  <2>4. QED
    BY <2>1, <2>3 DEF Voidable
<1>5. CASE r.op \in {"match", "categorize", "ignore", "matchDeposit",
                     "unmatchDeposit", "voidDeposit"}
  <2>1. statement' = statement \/ \E status, n : RowSet(r.row, status, n)
    BY <1>5, RowWriteEffect
  <2>2. x = r.row
    BY <2>1 DEF RowSet
  <2>3. QED
    BY <1>2, <1>5, <2>2 DEF Touches
<1>6. CASE r.op = "postDeposit"
  BY <1>6, RowWriteEffect
<1>7. QED
  BY <1>3, <1>4, <1>5, <1>6, RowWriteEffect

\* A write of statement rows keeps it.
LEMMA FrozenRow ==
    ASSUME TypeOK, FrozenInv, NEW w \in Workers, RowWrites(w)
    PROVE  FrozenInv'
<1> SUFFICES ASSUME raced' \cap {"freeze", "rows"} = {}
             PROVE  FrozenLaw' /\ FreshItems' /\ \A v \in Workers : Expects(request[v])'
  BY DEF FrozenInv
<1>1. End(w, {"row"}) /\ reconciliation' = reconciliation /\ raced \subseteq raced'
  BY RowWriteEffect
<1>2. FrozenLaw /\ FreshItems /\ \A v \in Workers : Expects(request[v])
  BY <1>1 DEF FrozenInv
<1>3. FrozenLaw'
  <2> SUFFICES ASSUME NEW c \in Reconciliations, reconciliation[c].status = "CLOSED",
                      NEW x \in InPeriod(c)
               PROVE  /\ statement'[x].status # "UNMATCHED"
                      /\ reconciliation[c].items[x] = Recorded(c, x)'
    BY <1>1 DEF FrozenLaw, InPeriod
  <2>1. x \in Rows /\ InClosed(x)
    BY DEF InPeriod, InClosed
  <2>2. statement'[x].status = statement[x].status
    BY <1>2, <2>1, FrozenRows
  <2>3. Recorded(c, x)' = Recorded(c, x)
    BY <1>1, <2>2 DEF Recorded, InPeriod
  <2>4. QED
    BY <1>2, <2>2, <2>3 DEF FrozenLaw
<1>4. FreshItems'
  BY <1>1, <1>2 DEF FreshItems, NoItems
<1>5. /\ \A x \in Rows : ~InClosed(x) => ~InClosed(x)'
      /\ \A c \in Reconciliations : NoItems(c) => NoItems(c)'
  BY <1>1 DEF InClosed, NoItems
<1>6. \A v \in Workers : Expects(request[v])'
  BY <1>1, <1>2, <1>5, ExpectsAfterEnd
<1>7. QED
  BY <1>3, <1>4, <1>6

\* A reconciliation that leaves the closed state unfreezes its period; one that
\* comes to an earlier state had recorded nothing.
LEMMA FrozenStatus ==
    ASSUME TypeOK, FrozenInv, NEW w \in Workers, StatusWrites(w)
    PROVE  FrozenInv'
<1> DEFINE c == request[w].reconciliation
<1> SUFFICES ASSUME raced' \cap {"freeze", "rows"} = {}
             PROVE  FrozenLaw' /\ FreshItems' /\ \A v \in Workers : Expects(request[v])'
  BY DEF FrozenInv
<1>1. PICK status \in {"DRAFT", "PENDING_APPROVAL", "APPROVED", "VOIDED"} :
        /\ StatusWritten(w, c, status)
        /\ raced \subseteq raced'
        /\ status # "VOIDED" =>
             request[w].op \in {"submit", "approve", "reopen"} /\ "close" \notin request[w].since
  BY StatusWritesEffect
<1>2. FrozenLaw /\ FreshItems /\ \A v \in Workers : Expects(request[v])
  BY <1>1 DEF FrozenInv
<1>3. /\ c \in Reconciliations /\ reconciliation'[c].status = status
      /\ UNCHANGED <<statement, deposit>> /\ End(w, {})
      /\ \A d \in Reconciliations :
           /\ d # c => reconciliation'[d] = reconciliation[d]
           /\ reconciliation'[d].start = reconciliation[d].start
           /\ reconciliation'[d].end = reconciliation[d].end
           /\ reconciliation'[d].items = reconciliation[d].items
  BY <1>1 DEF StatusWritten
<1>4. /\ \A x \in Rows : ~InClosed(x) => ~InClosed(x)'
      /\ \A d \in Reconciliations :
           /\ InPeriod(d)' = InPeriod(d)
           /\ NoItems(d)' <=> NoItems(d)
           /\ reconciliation'[d].status = "CLOSED" => reconciliation[d].status = "CLOSED"
  BY <1>3 DEF InClosed, NoItems, InPeriod
<1>5. \A d \in Reconciliations :
        /\ \A x \in Rows : Recorded(d, x)' = Recorded(d, x)
        /\ Reviewed(d) => Reviewed(d)'
  BY <1>3, <1>4 DEF Recorded, Reviewed
<1>6. \A m \in Imports : Voidable(m) => Voidable(m)'
  BY <1>3, <1>4 DEF Voidable, RowsOf
<1>7. FrozenLaw'
  <2> SUFFICES ASSUME NEW d \in Reconciliations, reconciliation'[d].status = "CLOSED",
                      NEW x \in InPeriod(d)
               PROVE  /\ statement[x].status # "UNMATCHED"
                      /\ reconciliation[d].items[x] = Recorded(d, x)
    BY <1>3, <1>4, <1>5 DEF FrozenLaw, InPeriod
  <2>1. QED
    BY <1>2, <1>4 DEF FrozenLaw
<1>8. FreshItems'
  <2>1. ASSUME status # "VOIDED" PROVE NoItems(c)
    <3>1. request[w] # Idle
      BY <1>1, <2>1 DEF Idle
    <3>2. Expects(request[w])
      BY <1>2
    <3>3. QED
      BY <1>1, <1>3, <2>1, <3>1, <3>2 DEF Expects
  <2>2. QED
    BY <1>2, <1>3, <1>4, <2>1 DEF FreshItems
<1>9. \A v \in Workers : Expects(request[v])'
  BY <1>2, <1>3, <1>4, <1>5, <1>6, ExpectsAfterEnd
<1>10. QED
  BY <1>7, <1>8, <1>9

\* The rows a close records are the settled rows of its period, also when
\* another close of it has recorded them before.
LEMMA FrozenClose ==
    ASSUME TypeOK, FrozenInv, NEW w \in Workers, CloseCommit(w)
    PROVE  FrozenInv'
<1> DEFINE c == request[w].reconciliation
<1> SUFFICES ASSUME raced' \cap {"freeze", "rows"} = {}
             PROVE  FrozenLaw' /\ FreshItems' /\ \A v \in Workers : Expects(request[v])'
  BY DEF FrozenInv
<1>1. /\ request[w].op = "close" /\ c \in Reconciliations
      /\ reconciliation'[c].status = "CLOSED"
      /\ \A x \in Rows :
           reconciliation'[c].items[x] =
             IF reconciliation[c].items[x] = None THEN request[w].items[x]
             ELSE reconciliation[c].items[x]
      /\ reconciliation'[c].start = reconciliation[c].start
      /\ reconciliation'[c].end = reconciliation[c].end
      /\ \A d \in Reconciliations \ {c} : reconciliation'[d] = reconciliation[d]
      /\ UNCHANGED <<statement, deposit>>
      /\ End(w, {"close"})
      /\ raced' = raced \cup Races(w, "close", "closes") \cup Races(w, "row", "freeze")
  BY CloseEffect
<1>2. FrozenLaw /\ FreshItems /\ \A v \in Workers : Expects(request[v])
  BY <1>1 DEF FrozenInv
<1>3. request[w] # Idle /\ "row" \notin request[w].since
  BY <1>1 DEF Idle, Races
<1>4. Reviewed(c) /\ \A x \in Rows : request[w].items[x] = Recorded(c, x)
  BY <1>1, <1>2, <1>3 DEF Expects
<1>5. \A d \in Reconciliations :
        InPeriod(d)' = InPeriod(d) /\ \A x \in Rows : Recorded(d, x)' = Recorded(d, x)
  <2>1. \A d \in Reconciliations : InPeriod(d)' = InPeriod(d)
    BY <1>1 DEF InPeriod
  <2>2. QED
    BY <1>1, <2>1 DEF Recorded
<1>6. \A x \in Rows : reconciliation'[c].items[x] = Recorded(c, x)
  BY <1>1, <1>4 DEF Reviewed
<1>7. FrozenLaw'
  <2> SUFFICES ASSUME NEW d \in Reconciliations, reconciliation'[d].status = "CLOSED",
                      NEW x \in InPeriod(d)
               PROVE  /\ statement[x].status # "UNMATCHED"
                      /\ reconciliation'[d].items[x] = Recorded(d, x)
    BY <1>1, <1>5 DEF FrozenLaw, InPeriod
  <2>1. x \in Rows
    BY DEF InPeriod
  <2>2. CASE d = c
    BY <1>4, <1>6, <2>1, <2>2 DEF Reviewed
  <2>3. CASE d # c
    BY <1>1, <1>2, <2>3 DEF FrozenLaw
  <2>4. QED
    BY <2>2, <2>3
<1>8. FreshItems'
  BY <1>1, <1>2 DEF FreshItems, NoItems
<1>9. ASSUME NEW d \in Reconciliations, Reviewed(d) PROVE Reviewed(d)'
  BY <1>1, <1>5, <1>6, <1>9 DEF Reviewed
<1>10. \A v \in Workers : Expects(request[v])'
  BY <1>1, <1>2, <1>5, <1>9, ExpectsAfterEnd
<1>11. QED
  BY <1>7, <1>8, <1>10

\* Creating a reconciliation keeps it.
LEMMA FrozenCreate ==
    ASSUME TypeOK, ClosingInv, FrozenInv, NEW c \in Reconciliations,
           NEW start \in Days, NEW end \in Days, CreateReconciliation(c, start, end)
    PROVE  FrozenInv'
<1>1. /\ reconciliation[c].status = "NONE" /\ reconciliation'[c].status = "DRAFT"
      /\ reconciliation'[c].items = reconciliation[c].items
      /\ \A d \in Reconciliations \ {c} : reconciliation'[d] = reconciliation[d]
      /\ UNCHANGED <<statement, deposit, request, raced>>
  BY CreateEffect
<1> SUFFICES ASSUME raced \cap {"freeze", "rows"} = {}
             PROVE  FrozenLaw' /\ FreshItems' /\ \A v \in Workers : Expects(request[v])'
  BY <1>1 DEF FrozenInv
<1>2. FrozenLaw /\ FreshItems /\ \A v \in Workers : Expects(request[v])
  BY DEF FrozenInv
<1>3. \A d \in Reconciliations \ {c} :
        InPeriod(d)' = InPeriod(d) /\ \A x \in Rows : Recorded(d, x)' = Recorded(d, x)
  <2>1. \A d \in Reconciliations \ {c} : InPeriod(d)' = InPeriod(d)
    BY <1>1 DEF InPeriod
  <2>2. QED
    BY <1>1, <2>1 DEF Recorded
<1>4. FrozenLaw'
  <2> SUFFICES ASSUME NEW d \in Reconciliations \ {c}, reconciliation[d].status = "CLOSED",
                      NEW x \in InPeriod(d)
               PROVE  /\ statement[x].status # "UNMATCHED"
                      /\ reconciliation[d].items[x] = Recorded(d, x)
    BY <1>1, <1>3 DEF FrozenLaw, InPeriod
  <2>1. QED
    BY <1>2 DEF FrozenLaw
<1>5. /\ \A d \in Reconciliations : NoItems(d)' <=> NoItems(d)
      /\ \A x \in Rows : InClosed(x)' <=> InClosed(x)
      /\ \A d \in Reconciliations \ {c} : Reviewed(d) => Reviewed(d)'
  <2>1. \A d \in Reconciliations : NoItems(d)' <=> NoItems(d)
    BY <1>1 DEF NoItems
  <2>2. \A x \in Rows : InClosed(x)' <=> InClosed(x)
    BY <1>1 DEF InClosed
  <2>3. \A d \in Reconciliations \ {c} : Reviewed(d) => Reviewed(d)'
    BY <1>1, <1>3 DEF Reviewed
  <2>4. QED
    BY <2>1, <2>2, <2>3
<1>6. FreshItems'
  BY <1>1, <1>2, <1>5 DEF FreshItems
<1>7. \A m \in Imports : Voidable(m) => Voidable(m)'
  BY <1>1, <1>5 DEF Voidable, RowsOf
<1>8. ASSUME NEW v \in Workers PROVE Expects(request[v])'
  <2>1. PICK r \in Request : r = request[v]
    BY DEF TypeOK
  <2>2. Created(r) /\ Expects(r)
    BY <1>2, <2>1 DEF ClosingInv
  <2>3. r.op = "close" => r.reconciliation # c
    BY <1>1, <2>2 DEF Created
  <2>4. Expects(r)'
    BY <1>3, <1>5, <1>7, <2>2, <2>3 DEF Expects, Touches
  <2>5. QED
    BY <1>1, <2>1, <2>4 DEF Expects, Touches
<1>9. QED
  BY <1>4, <1>6, <1>8

\* Every step keeps it.
LEMMA FrozenStep ==
    ASSUME TypeOK, SettlingInv, ClosingInv, FrozenInv, Next
    PROVE  FrozenInv'
<1>1. ASSUME NEW w \in Workers, Begins(w) PROVE FrozenInv'
  <2> SUFFICES ASSUME raced' \cap {"freeze", "rows"} = {}
               PROVE  FrozenLaw' /\ FreshItems' /\ \A v \in Workers : Expects(request[v])'
    BY DEF FrozenInv
  <2>1. PICK r \in Request : Begin(w, r) /\ (DepositLaw /\ FreshItems => Expects(r))
    BY <1>1 DEF Begins
  <2>2. UNCHANGED <<statement, reconciliation, raced>> /\ request' = [request EXCEPT ![w] = r]
    BY <2>1 DEF Begin
  <2>3. FrozenLaw /\ FreshItems /\ DepositLaw /\ \A v \in Workers : Expects(request[v])
    BY <2>2 DEF FrozenInv, SettlingInv
  <2>4. FrozenLaw' /\ FreshItems'
    BY <2>2, <2>3 DEF FrozenLaw, FreshItems, NoItems, Recorded, InPeriod
  <2>5. ASSUME NEW s, Expects(s) PROVE Expects(s)'
    BY <2>2, <2>5 DEF Expects, Touches, InClosed, Voidable, RowsOf, NoItems, Reviewed,
                      Recorded, InPeriod
  <2>6. ASSUME NEW v \in Workers PROVE Expects(request[v])'
    <3>1. PICK s : s = request'[v] /\ Expects(s)
      BY <2>1, <2>2, <2>3 DEF TypeOK
    <3>2. Expects(s)'
      BY <3>1, <2>5
    <3>3. QED
      BY <3>1, <3>2 DEF Expects, Touches
  <2>7. QED
    BY <2>4, <2>6
<1>2. ASSUME NEW w \in Workers, Abort(w) PROVE FrozenInv'
  <2> SUFFICES ASSUME raced' \cap {"freeze", "rows"} = {}
               PROVE  FrozenLaw' /\ FreshItems' /\ \A v \in Workers : Expects(request[v])'
    BY DEF FrozenInv
  <2>1. UNCHANGED <<statement, reconciliation, raced>>
          /\ request' = [request EXCEPT ![w] = Idle]
    BY <1>2 DEF Abort
  <2>2. FrozenLaw /\ FreshItems /\ \A v \in Workers : Expects(request[v])
    BY <2>1 DEF FrozenInv
  <2>3. FrozenLaw' /\ FreshItems'
    BY <2>1, <2>2 DEF FrozenLaw, FreshItems, NoItems, Recorded, InPeriod
  <2>4. ASSUME NEW s, Expects(s) PROVE Expects(s)'
    BY <2>1, <2>4 DEF Expects, Touches, InClosed, Voidable, RowsOf, NoItems, Reviewed,
                      Recorded, InPeriod
  <2>5. ASSUME NEW v \in Workers PROVE Expects(request[v])'
    <3>1. PICK s : s = request'[v] /\ Expects(s)
      BY <2>1, <2>2 DEF TypeOK, Expects
    <3>2. Expects(s)'
      BY <3>1, <2>4
    <3>3. QED
      BY <3>1, <3>2 DEF Expects, Touches
  <2>6. QED
    BY <2>3, <2>5
<1>3. QED
  BY NextCases, FrozenRow, FrozenStatus, FrozenClose, FrozenCreate, <1>1, <1>2

-----------------------------------------------------------------------------
(* The theorems. *)

Inv == TypeOK /\ SettlingInv /\ ClosingInv /\ FrozenInv

\* The inductive invariant holds in every reachable state.
LEMMA Invariance == Spec => []Inv
<1>1. Init => Inv
  BY InitTyped, SettlingInit, ClosingInit, FrozenInit DEF Inv
<1>2. Inv /\ [Next]_vars => Inv'
  <2>1. CASE Next
    BY <2>1, NextTyped, SettlingStep, ClosingStep, FrozenStep DEF Inv
  <2>2. ASSUME Inv, UNCHANGED vars PROVE Inv'
    BY <2>2 DEF vars, Inv, TypeOK, SettlingInv, RowLaw, DepositLaw, Knows, RowsOf, Blocks,
         ClosingInv, Dated, PeriodLaw, Created, Cleared, NoClosedOverlap, Overlap,
         FrozenInv, FrozenLaw, FreshItems, Expects, Touches, InClosed, Voidable, NoItems,
         Reviewed, Recorded, InPeriod
  <2>3. QED
    BY <2>1, <2>2
<1>3. QED
  BY <1>1, <1>2, PTL DEF Spec

\* Every state of the statement, deposits, reconciliations and requests is one
\* its tables and handlers allow.
THEOREM TypeCorrect == Spec => []TypeOK
  BY Invariance, PTL DEF Inv

\* Whoever races for a row, it is categorized with one journal, and no other
\* row has one.
THEOREM RowsCategorizedOnce == Spec => []CategorizedOnce
<1>1. Inv => CategorizedOnce
  BY DEF Inv, SettlingInv, RowLaw, CategorizedOnce
<1>2. QED
  BY <1>1, Invariance, PTL

\* A deposit that is matched has a matched row of its own.
THEOREM DepositsHaveTheirRows == Spec => []DepositsMatchRows
<1>1. Inv => DepositsMatchRows
  BY DEF Inv, SettlingInv, DepositLaw, DepositsMatchRows
<1>2. QED
  BY <1>1, Invariance, PTL

\* Periods closed one after the other never overlap, however requests race.
THEOREM ClosedPeriodsApart == Spec => []ClosedPeriodsDisjoint
<1>1. Inv => ClosedPeriodsDisjoint
  BY DEF Inv, ClosingInv, PeriodLaw, ClosedPeriodsDisjoint
<1>2. QED
  BY <1>1, Invariance, PTL

\* A closed period stays as it was recorded: no later change of a row reaches
\* it unless the change and the close did not see each other.
THEOREM ClosedPeriodsFrozen == Spec => []ClosedRowsRecorded
<1>1. Inv => ClosedRowsRecorded
  BY DEF Inv, FrozenInv, FrozenLaw, Recorded, ClosedRowsRecorded
<1>2. QED
  BY <1>1, Invariance, PTL
=============================================================================
