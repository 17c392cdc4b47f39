---------------------------- MODULE LedgerProofs ----------------------------
(***************************************************************************)
(* Proofs about Ledger: its type invariant, and that reversals undo the    *)
(* entries they reverse, once, whatever requests race each other.          *)
(*                                                                         *)
(* ReversalMirrors is not inductive: a reversal request writes the         *)
(* negation of lines it read earlier.  IInv adds that the entry of such a  *)
(* request is posted, that its lines are still the ones read, and that     *)
(* reversals are posted themselves.                                        *)
(*                                                                         *)
(* The other laws are about what a handler read and checked before it      *)
(* writes.  SeenInv carries them: what a request read still holds as long  *)
(* as nobody wrote over it unseen, whatever else the others do, and then   *)
(* the checks of the handlers are enough.                                  *)
(***************************************************************************)
EXTENDS Ledger, TLAPS

\* A request that reverses keeps the negated lines of a posted entry.
RequestMirrors ==
    \A w \in Workers : Running(w, "reverse") =>
        /\ Posted(request[w].entry)
        /\ request[w].lines = Swapped(entry[request[w].entry].lines)

\* Only posted entries reverse others.
ReversalsPosted ==
    \A r \in Entries : entry[r].reversalOf # None => Posted(r)

IInv ==
    /\ TypeOK
    /\ RequestMirrors
    /\ ReversalsPosted
    /\ ReversalMirrors
    /\ ReversedOnce

-----------------------------------------------------------------------------
(* Types. *)

\* Header totals are natural numbers.
LEMMA MagnitudeType == ASSUME NEW n \in Int PROVE Magnitude(n) \in Nat
  BY DEF Magnitude

\* The lines that requests and updates make are lines.
LEMMA LinesTypes ==
  /\ \A n \in Int : LinesOf(n) \in Lines
  /\ NoLines \in Lines
  /\ \A lines \in Lines : lines.side \in Nat /\ Swapped(lines) \in Lines
  /\ \A lines, more \in Lines : Stacked(lines, more) \in Lines
<1>1. \A n \in Int : LinesOf(n) \in Lines
  BY MagnitudeType DEF LinesOf, Lines
<1>2. NoLines \in Lines
  BY <1>1 DEF NoLines
<1>3. \A lines \in Lines : lines.side \in Nat /\ Swapped(lines) \in Lines
  BY DEF Lines, Swapped
<1>4. \A lines, more \in Lines : Stacked(lines, more) \in Lines
  BY DEF Lines, Stacked
<1> QED
  BY <1>1, <1>2, <1>3, <1>4

\* What a worker keeps is a record of its operation.
LEMMA RequestTypes ==
  ASSUME NEW w \in Workers, TypeOK
  PROVE  /\ request[w] \in Request
         /\ Running(w, "updateEntry") =>
              /\ request[w].entry \in Entries
              /\ request[w].entryDate \in Days \cup {None}
              /\ request[w].lines \in Lines
              /\ request[w].total \in Nat
         /\ (Running(w, "post") \/ Running(w, "reverse")) =>
              /\ request[w].entry \in Entries
              /\ request[w].entryDate \in Days
              /\ request[w].lines \in Lines
              /\ request[w].allowed \in BOOLEAN
              /\ [request[w] EXCEPT !.allowed = TRUE] \in Request
         /\ (Running(w, "createPeriod") \/ Running(w, "updatePeriod")) =>
              /\ request[w].period \in Periods
              /\ request[w].startsOn \in Days
              /\ request[w].endsOn \in Days
         /\ Running(w, "reopen") => request[w].period \in Periods
<1>1. request[w] \in Request
  BY DEF TypeOK
<1>2. CASE request[w] = Idle
  BY <1>1, <1>2 DEF Running, Idle
<1>3. CASE request[w] \in
             [op: {"updateEntry"}, entry: Entries,
              entryDate: Days \cup {None}, lines: Lines, total: Nat]
  BY <1>1, <1>3 DEF Running
<1>4. CASE request[w] \in
             [op: {"post", "reverse"}, entry: Entries, entryDate: Days,
              lines: Lines, allowed: BOOLEAN]
  <2>1. [request[w] EXCEPT !.allowed = TRUE] \in
             [op: {"post", "reverse"}, entry: Entries, entryDate: Days,
              lines: Lines, allowed: BOOLEAN]
    BY <1>4
  <2>2. [request[w] EXCEPT !.allowed = TRUE] \in Request
    BY <2>1 DEF Request
  <2> QED
    BY <1>1, <1>4, <2>2 DEF Running
<1>5. CASE request[w] \in
             [op: {"createPeriod", "updatePeriod"}, period: Periods,
              startsOn: Days, endsOn: Days]
  BY <1>1, <1>5 DEF Running
<1>6. CASE request[w] \in [op: {"reopen"}, period: Periods]
  BY <1>1, <1>6 DEF Running
<1> QED
  BY <1>1, <1>2, <1>3, <1>4, <1>5, <1>6 DEF Request

\* Beginning with a well-typed request, and finishing, keep the types.
LEMMA BeginType ==
  ASSUME TypeOK, NEW w \in Workers, NEW r \in Request, Begin(w, r)
  PROVE  TypeOK'
  BY DEF TypeOK, Begin

\* A request that ends is typed.
LEMMA FinishType ==
  ASSUME TypeOK, NEW w \in Workers, Finish(w)
  PROVE  request' \in [Workers -> Request]
<1>1. Idle \in Request
  BY DEF Request
<1> QED
  BY <1>1 DEF TypeOK, Finish

\* So is what is written unseen.
LEMMA UnseenTypes ==
  ASSUME TypeOK, NEW w \in Workers, NEW e, NEW what \in Unseen, NEW relying,
         EntryWritten(w, e, what) \/ PeriodsWritten(w, relying)
  PROVE  unseen' \in [Workers -> Unseen]
<1>1. \A v \in Workers : unseen[v] \in Unseen
  BY DEF TypeOK
<1>2. CASE EntryWritten(w, e, what)
  BY <1>1, <1>2 DEF EntryWritten, Unseen
<1>3. CASE PeriodsWritten(w, relying)
  BY <1>1, <1>3 DEF PeriodsWritten, Unseen
<1> QED
  BY <1>2, <1>3

\* And the rows that raced.
LEMMA WrittenType ==
  ASSUME TypeOK, NEW row \in Entries \cup Periods, NEW blind, Written(row, blind)
  PROVE  raced' \subseteq Entries \cup Periods
  BY DEF TypeOK, Written

-----------------------------------------------------------------------------
(* What a step does to the rows: each action either leaves the entries      *)
(* alone, or edits them without touching a reversal, or adds a reversal.    *)

\* The lines of posted entries stay, and so do the entries.
KeepsPosted ==
    \A e \in Entries : Posted(e) =>
        Posted(e)' /\ entry'[e].lines = entry[e].lines

\* No reversal is added and no entry becomes reversed.
KeepsReversals ==
    \A e \in Entries :
        /\ entry'[e].reversalOf = entry[e].reversalOf
        /\ entry'[e].status = "REVERSED" => entry[e].status = "REVERSED"

\* No request starts to reverse.
KeepsRequests ==
    \A w \in Workers : Running(w, "reverse")' =>
        /\ Running(w, "reverse")
        /\ request'[w].entry = request[w].entry
        /\ request'[w].lines = request[w].lines

\* Requests that reverse stay right while posted entries do.
LEMMA RequestsStay ==
  ASSUME TypeOK, RequestMirrors, KeepsPosted, KeepsRequests
  PROVE  RequestMirrors'
<1> SUFFICES ASSUME NEW w \in Workers, Running(w, "reverse")'
             PROVE  /\ Posted(request[w].entry)'
                    /\ request'[w].lines = Swapped(entry'[request'[w].entry].lines)
  BY DEF RequestMirrors
<1>1. /\ Running(w, "reverse")
      /\ request'[w].entry = request[w].entry
      /\ request'[w].lines = request[w].lines
  BY DEF KeepsRequests
<1>2. PICK e \in Entries : e = request[w].entry
  BY <1>1, RequestTypes
<1>3. Posted(e) /\ request[w].lines = Swapped(entry[e].lines)
  BY <1>1, <1>2 DEF RequestMirrors
<1>4. Posted(e)' /\ entry'[e].lines = entry[e].lines
  BY <1>3 DEF KeepsPosted
<1>5. Posted(request[w].entry)'
  BY <1>1, <1>2, <1>4 DEF Posted
<1> QED
  BY <1>1, <1>2, <1>3, <1>4, <1>5

\* Reversals stay right while they and the posted entries do.
LEMMA ReversalsStay ==
  ASSUME ReversalsPosted, ReversalMirrors, ReversedOnce, KeepsPosted,
         KeepsReversals
  PROVE  ReversalsPosted' /\ ReversalMirrors' /\ ReversedOnce'
<1>1. ReversalsPosted'
  <2> SUFFICES ASSUME NEW r \in Entries, entry'[r].reversalOf # None
               PROVE  Posted(r)'
    BY DEF ReversalsPosted
  <2> QED
    BY DEF ReversalsPosted, KeepsPosted, KeepsReversals
<1>2. ReversalMirrors'
  <2> SUFFICES ASSUME NEW r \in Entries, NEW e \in Entries,
                      entry'[r].reversalOf = e
               PROVE  Posted(e)' /\ entry'[r].lines = Swapped(entry'[e].lines)
    BY DEF ReversalMirrors
  <2>1. entry[r].reversalOf = e
    BY DEF KeepsReversals
  <2>2. Posted(r)
    BY <2>1, NoneIsNoEntry DEF ReversalsPosted
  <2>3. Posted(e) /\ entry[r].lines = Swapped(entry[e].lines)
    BY <2>1 DEF ReversalMirrors
  <2> QED
    BY <2>2, <2>3 DEF KeepsPosted
<1>3. ReversedOnce'
  <2> SUFFICES ASSUME NEW e \in Entries
               PROVE  /\ \A r, s \in Entries :
                           entry'[r].reversalOf = e /\ entry'[s].reversalOf = e
                             => r = s
                      /\ entry'[e].status = "REVERSED" =>
                           \E r \in Entries : entry'[r].reversalOf = e
    BY DEF ReversedOnce, Reversed
  <2>1. \A r \in Entries : entry'[r].reversalOf = entry[r].reversalOf
    BY DEF KeepsReversals
  <2>2. entry'[e].status = "REVERSED" => entry[e].status = "REVERSED"
    BY DEF KeepsReversals
  <2> QED
    BY <2>1, <2>2 DEF ReversedOnce, Reversed
<1> QED
  BY <1>1, <1>2, <1>3

\* A step with both keeps the invariant, its types aside.
LEMMA Stays ==
  ASSUME IInv, KeepsPosted, KeepsReversals, KeepsRequests, TypeOK'
  PROVE  IInv' /\ KeepsPosted
  BY RequestsStay, ReversalsStay DEF IInv

\* An action that leaves the entries alone does keep them.
LEMMA EntriesSame ==
  ASSUME entry' = entry
  PROVE  KeepsPosted /\ KeepsReversals
  BY DEF KeepsPosted, KeepsReversals, Posted

\* Finishing a request starts none.
LEMMA FinishKeeps ==
  ASSUME TypeOK, NEW w \in Workers, Finish(w)
  PROVE  KeepsRequests
<1> SUFFICES ASSUME NEW v \in Workers, Running(v, "reverse")'
             PROVE  request'[v] = request[v]
  BY DEF KeepsRequests, Running
<1> QED
  BY DEF TypeOK, Finish, Running, Idle

\* Neither does beginning any other request.
LEMMA BeginKeeps ==
  ASSUME TypeOK, NEW w \in Workers, NEW r, r.op # "reverse", Begin(w, r)
  PROVE  KeepsRequests
<1> SUFFICES ASSUME NEW v \in Workers, Running(v, "reverse")'
             PROVE  request'[v] = request[v]
  BY DEF KeepsRequests, Running
<1> QED
  BY DEF TypeOK, Begin, Running

\* Requests that begin without reversing keep the invariant.
LEMMA BeginStep ==
  ASSUME IInv, NEW w \in Workers, NEW r \in Request, r.op # "reverse",
         Begin(w, r)
  PROVE  IInv' /\ KeepsPosted
<1>1. TypeOK /\ entry' = entry
  BY DEF IInv, Begin
<1> QED
  BY <1>1, BeginType, BeginKeeps, EntriesSame, Stays

-----------------------------------------------------------------------------
(* Journal entries. *)

\* Creating a draft keeps the invariant: an unused id is in no reversal.
LEMMA CreateEntryStep ==
  ASSUME IInv, NEW w \in Workers, NEW e \in Entries, NEW amount \in Amounts,
         NEW entryDate \in Days, CreateEntry(w, e, amount, entryDate)
  PROVE  IInv' /\ KeepsPosted
<1> DEFINE row == [status |-> "DRAFT", entryDate |-> entryDate,
                   lines |-> LinesOf(amount), total |-> LinesOf(amount).side,
                   reversalOf |-> None]
<1>1. /\ entry[e].status = "NONE"
      /\ entry' = [entry EXCEPT ![e] = row]
      /\ UNCHANGED <<period, request, unseen, raced>>
  BY DEF CreateEntry
<1>2. TypeOK
  BY DEF IInv
<1>3. LinesOf(amount) \in Lines /\ LinesOf(amount).side \in Nat
  BY AmountsNonZero, LinesTypes
<1>4. row \in Entry
  BY <1>3 DEF Entry
<1>5. entry[e].reversalOf = None
  BY <1>1 DEF IInv, ReversalsPosted, Posted
<1>6. \A f \in Entries : entry'[f] = IF f = e THEN row ELSE entry[f]
  BY <1>1, <1>2 DEF TypeOK
<1>7. row.status = "DRAFT" /\ row.reversalOf = None
  OBVIOUS
<1>8. TypeOK'
  BY <1>1, <1>2, <1>4 DEF TypeOK
<1> HIDE DEF row
<1>9. KeepsPosted
  BY <1>1, <1>6 DEF KeepsPosted, Posted
<1>10. KeepsReversals
  BY <1>5, <1>6, <1>7 DEF KeepsReversals
<1>11. KeepsRequests
  BY <1>1 DEF KeepsRequests, Running
<1> QED
  BY <1>8, <1>9, <1>10, <1>11, Stays

\* Reading for an update keeps the invariant.
LEMMA UpdateEntryReadStep ==
  ASSUME IInv, NEW w \in Workers, NEW e \in Entries,
         NEW amount \in Amounts \cup {0}, NEW entryDate \in Days \cup {None},
         UpdateEntryRead(w, e, amount, entryDate)
  PROVE  IInv' /\ KeepsPosted
<1> DEFINE r == [op |-> "updateEntry", entry |-> e, entryDate |-> entryDate,
                 lines |-> LinesOf(amount),
                 total |-> NextLines(e, LinesOf(amount)).side]
<1>1. LinesOf(amount) \in Lines
  BY AmountsNonZero, LinesTypes
<1>2. NextLines(e, LinesOf(amount)).side \in Nat
  BY <1>1, LinesTypes DEF NextLines, IInv, TypeOK, Entry
<1>3. r \in Request
  BY <1>1, <1>2 DEF Request
<1>4. Begin(w, r)
  BY DEF UpdateEntryRead
<1>5. r.op # "reverse"
  OBVIOUS
<1> QED
  BY <1>3, <1>4, <1>5, BeginStep

\* What an update leaves are lines: those of the entry when it names none,
\* else its own, alone when the update saw the lines of the entry.
LEMMA LinesAfterTypes ==
  ASSUME TypeOK, NEW w \in Workers, Running(w, "updateEntry")
  PROVE  /\ LinesAfter(w) \subseteq Lines
         /\ request[w].lines = NoLines =>
              LinesAfter(w) = {entry[request[w].entry].lines}
         /\ request[w].lines # NoLines /\ "lines" \notin unseen[w] =>
              LinesAfter(w) = {request[w].lines}
<1>1. request[w].entry \in Entries /\ request[w].lines \in Lines
  BY RequestTypes
<1>2. entry[request[w].entry].lines \in Lines
  BY <1>1 DEF TypeOK, Entry
<1>3. Stacked(entry[request[w].entry].lines, request[w].lines) \in Lines
  BY <1>1, <1>2, LinesTypes
<1> QED
  BY <1>1, <1>2, <1>3 DEF LinesAfter

\* What an update of w changes: its entry e, whose lines stay when it is
\* posted.
Updates(w, e, lines, day, total) ==
    /\ e = request[w].entry /\ total = request[w].total
    /\ request[w].entryDate = None => day = entry[e].entryDate
    /\ request[w].lines = NoLines \/ ~Posted(e)
    /\ entry' = [entry EXCEPT ![e] = [entry[e] EXCEPT
                   !.entryDate = day, !.lines = lines, !.total = total]]
    /\ Written(e, /\ "lines" \in unseen[w]
                  /\ request[w].lines = NoLines \/ lines # request[w].lines)
    /\ EntryWritten(w, e,
         (IF request[w].lines = NoLines THEN {} ELSE {"lines"})
           \cup (IF request[w].entryDate = None THEN {} ELSE {"date"}))

\* That is what it changes.
LEMMA UpdateEntryWrites ==
  ASSUME TypeOK, NEW w \in Workers, UpdateEntryCommit(w)
  PROVE  \E e \in Entries, lines \in LinesAfter(w), day \in Days, total \in Nat :
           Updates(w, e, lines, day, total)
<1>1. Running(w, "updateEntry")
  BY DEF UpdateEntryCommit
<1>2. PICK e \in Entries : e = request[w].entry
  BY <1>1, RequestTypes
<1>3. PICK total \in Nat : total = request[w].total
  BY <1>1, RequestTypes
<1>4. PICK day \in Days :
        day = IF request[w].entryDate = None THEN entry[e].entryDate
                                             ELSE request[w].entryDate
  <2>1. request[w].entryDate \in Days \cup {None}
    BY <1>1, RequestTypes
  <2>2. entry[e].entryDate \in Days
    BY DEF TypeOK, Entry
  <2> QED
    BY <2>1, <2>2
<1>5. PICK lines \in LinesAfter(w) :
        /\ entry' = [entry EXCEPT
             ![e].entryDate = IF request[w].entryDate = None THEN @
                              ELSE request[w].entryDate,
             ![e].lines = lines,
             ![e].total = request[w].total]
        /\ Written(e, /\ "lines" \in unseen[w]
                      /\ request[w].lines = NoLines \/ lines # request[w].lines)
  BY <1>2 DEF UpdateEntryCommit
<1>6. entry' = [entry EXCEPT ![e] = [entry[e] EXCEPT
                  !.entryDate = day, !.lines = lines, !.total = total]]
  BY <1>3, <1>4, <1>5 DEF TypeOK
<1>7. /\ request[w].lines = NoLines \/ ~Posted(e)
      /\ EntryWritten(w, e,
           (IF request[w].lines = NoLines THEN {} ELSE {"lines"})
             \cup (IF request[w].entryDate = None THEN {} ELSE {"date"}))
  BY <1>2 DEF UpdateEntryCommit, LinesReplaceable
<1>8. Updates(w, e, lines, day, total)
  BY <1>2, <1>3, <1>4, <1>5, <1>6, <1>7 DEF Updates
<1> QED
  BY <1>8

\* Writing an update keeps it: the triggers refuse new lines of a posted
\* entry.
LEMMA UpdateEntryCommitStep ==
  ASSUME IInv, NEW w \in Workers, UpdateEntryCommit(w)
  PROVE  IInv' /\ KeepsPosted
<1>1. TypeOK
  BY DEF IInv
<1>2. Running(w, "updateEntry") /\ Finish(w) /\ UNCHANGED period
  BY DEF UpdateEntryCommit
<1>3. PICK e \in Entries, lines \in LinesAfter(w), day \in Days, total \in Nat :
        Updates(w, e, lines, day, total)
  BY <1>1, UpdateEntryWrites
<1>4. lines \in Lines /\ (Posted(e) => lines = entry[e].lines)
  BY <1>1, <1>2, <1>3, LinesAfterTypes DEF Updates
<1> DEFINE row == [entry[e] EXCEPT !.entryDate = day, !.lines = lines,
                                   !.total = total]
<1>5. entry[e] \in Entry
  BY <1>1 DEF TypeOK
<1>6. /\ row \in Entry
      /\ row.status = entry[e].status
      /\ row.reversalOf = entry[e].reversalOf
      /\ row.lines = lines
  BY <1>4, <1>5 DEF Entry
<1>7. entry' = [entry EXCEPT ![e] = row]
  BY <1>3 DEF Updates
<1> HIDE DEF row
<1>8. entry' \in [Entries -> Entry]
  BY <1>1, <1>6, <1>7 DEF TypeOK
<1>9. \A f \in Entries :
        /\ entry'[f].status = entry[f].status
        /\ entry'[f].reversalOf = entry[f].reversalOf
        /\ Posted(f) => entry'[f].lines = entry[f].lines
  BY <1>1, <1>4, <1>6, <1>7 DEF TypeOK
<1>10. unseen' \in [Workers -> Unseen]
  <2>1. ((IF request[w].lines = NoLines THEN {} ELSE {"lines"})
          \cup (IF request[w].entryDate = None THEN {} ELSE {"date"})) \in Unseen
    BY DEF Unseen
  <2> QED
    BY <1>1, <1>3, <2>1, UnseenTypes DEF Updates
<1>11. TypeOK'
  <2>1. request' \in [Workers -> Request] /\ raced' \subseteq Entries \cup Periods
    BY <1>1, <1>2, <1>3, FinishType, WrittenType DEF Updates
  <2> QED
    BY <1>1, <1>2, <1>8, <1>10, <2>1 DEF TypeOK
<1>12. KeepsPosted
  BY <1>9 DEF KeepsPosted, Posted
<1>13. KeepsReversals
  BY <1>9 DEF KeepsReversals
<1>14. KeepsRequests
  BY <1>1, <1>2, FinishKeeps
<1> QED
  BY <1>11, <1>12, <1>13, <1>14, Stays

\* Reading for a posting keeps the invariant.
LEMMA PostReadStep ==
  ASSUME IInv, NEW w \in Workers, NEW e \in Entries, PostRead(w, e)
  PROVE  IInv' /\ KeepsPosted
<1> DEFINE r == [op |-> "post", entry |-> e, entryDate |-> entry[e].entryDate,
                 lines |-> entry[e].lines, allowed |-> FALSE]
<1>1. entry[e] \in Entry
  BY DEF IInv, TypeOK
<1>2. r \in Request
  BY <1>1 DEF Request, Entry
<1>3. Begin(w, r)
  BY DEF PostRead
<1>4. r.op # "reverse"
  OBVIOUS
<1> QED
  BY <1>2, <1>3, <1>4, BeginStep

\* Checking the posting date changes no entry and no kept lines.
LEMMA CheckPostingDateStep ==
  ASSUME IInv, NEW w \in Workers, CheckPostingDate(w)
  PROVE  IInv' /\ KeepsPosted
<1> DEFINE r == [request[w] EXCEPT !.allowed = TRUE]
<1>1. TypeOK
  BY DEF IInv
<1>2. /\ Running(w, "post") \/ Running(w, "reverse")
      /\ request' = [request EXCEPT ![w].allowed = TRUE]
      /\ UNCHANGED <<entry, period, unseen, raced>>
  BY DEF CheckPostingDate, Running
<1>3. r \in Request
  BY <1>1, <1>2, RequestTypes
<1>4. request' = [request EXCEPT ![w] = r]
  BY <1>2
<1>5. /\ r.op = request[w].op
      /\ r.entry = request[w].entry
      /\ r.lines = request[w].lines
  OBVIOUS
<1> HIDE DEF r
<1>6. TypeOK'
  BY <1>1, <1>2, <1>3, <1>4 DEF TypeOK
<1>7. \A v \in Workers : request'[v] = IF v = w THEN r ELSE request[v]
  BY <1>1, <1>4 DEF TypeOK
<1>8. KeepsRequests
  BY <1>5, <1>7 DEF KeepsRequests, Running
<1> QED
  BY <1>2, <1>6, <1>8, EntriesSame, Stays

\* Posting keeps the invariant, even when the entry was posted or reversed
\* since it was read.
LEMMA PostCommitStep ==
  ASSUME IInv, NEW w \in Workers, PostCommit(w)
  PROVE  IInv' /\ KeepsPosted
<1>1. TypeOK
  BY DEF IInv
<1>2. Running(w, "post") /\ Finish(w) /\ UNCHANGED period
  BY DEF PostCommit
<1>3. PICK e \in Entries : e = request[w].entry
  BY <1>1, <1>2, RequestTypes
<1>4. PICK total \in Nat : total = request[w].lines.side
  BY <1>1, <1>2, RequestTypes, LinesTypes
<1>5. entry' = [entry EXCEPT ![e].status = "POSTED", ![e].total = total]
  BY <1>3, <1>4 DEF PostCommit
<1> DEFINE row == [entry[e] EXCEPT !.status = "POSTED", !.total = total]
<1>6. entry \in [Entries -> Entry] /\ entry[e] \in Entry
  BY <1>1 DEF TypeOK
<1>7. row \in Entry /\ row.status = "POSTED"
      /\ row.reversalOf = entry[e].reversalOf /\ row.lines = entry[e].lines
  BY <1>6, Zenon DEF Entry
<1>8. entry' = [entry EXCEPT ![e] = row]
  BY <1>5, <1>6, Zenon
<1> HIDE DEF row
<1>9. \A f \in Entries :
        /\ entry'[f].status = IF f = e THEN "POSTED" ELSE entry[f].status
        /\ entry'[f].reversalOf = entry[f].reversalOf
        /\ entry'[f].lines = entry[f].lines
  BY <1>6, <1>7, <1>8
<1>10. entry' \in [Entries -> Entry]
  BY <1>6, <1>7, <1>8
<1>11. TypeOK'
  <2>1. request' \in [Workers -> Request]
    BY <1>1, <1>2, FinishType
  <2>2. unseen' \in [Workers -> Unseen]
    <3>1. EntryWritten(w, e, {}) /\ {} \in Unseen
      BY <1>3 DEF PostCommit, Unseen
    <3> QED
      BY <1>1, <3>1, UnseenTypes
  <2>3. raced' \subseteq Entries \cup Periods
    <3>1. Written(e, "lines" \in unseen[w])
      BY <1>3 DEF PostCommit
    <3> QED
      BY <1>1, <3>1, WrittenType
  <2> QED
    BY <1>1, <1>2, <1>10, <2>1, <2>2, <2>3 DEF TypeOK
<1>12. KeepsPosted
  BY <1>9 DEF KeepsPosted, Posted
<1>13. KeepsReversals
  BY <1>9 DEF KeepsReversals
<1>14. KeepsRequests
  BY <1>1, <1>2, FinishKeeps
<1> QED
  BY <1>11, <1>12, <1>13, <1>14, Stays

\* Reading for a reversal keeps the negated lines of a posted entry.
LEMMA ReverseReadStep ==
  ASSUME IInv, NEW w \in Workers, NEW e \in Entries, ReverseRead(w, e)
  PROVE  IInv' /\ KeepsPosted
<1> DEFINE r == [op |-> "reverse", entry |-> e, entryDate |-> Today,
                 lines |-> Swapped(entry[e].lines), allowed |-> FALSE]
<1>1. TypeOK /\ entry[e] \in Entry
  BY DEF IInv, TypeOK
<1>2. r \in Request
  BY <1>1, DaysAreNumbers, LinesTypes DEF Request, Entry
<1>3. Begin(w, r) /\ Posted(e)
  BY DEF ReverseRead, Reversible, Posted
<1>4. TypeOK'
  BY <1>1, <1>2, <1>3, BeginType
<1>5. entry' = entry /\ request' = [request EXCEPT ![w] = r]
  BY <1>3 DEF Begin
<1>6. /\ r.entry = e
      /\ r.lines = Swapped(entry[e].lines)
  OBVIOUS
<1> HIDE DEF r
<1>7. \A v \in Workers : request'[v] = IF v = w THEN r ELSE request[v]
  BY <1>1, <1>5 DEF TypeOK
<1>8. RequestMirrors'
  BY <1>3, <1>5, <1>6, <1>7 DEF RequestMirrors, IInv, Running, Posted
<1>9. KeepsPosted /\ ReversalsPosted' /\ ReversalMirrors' /\ ReversedOnce'
  BY <1>5, EntriesSame, ReversalsStay DEF IInv
<1> QED
  BY <1>4, <1>8, <1>9 DEF IInv

\* Reversing adds one reversal to an entry that had none, and keeps the rest.
LEMMA ReverseCommitStep ==
  ASSUME IInv, NEW w \in Workers, NEW r \in Entries, ReverseCommit(w, r)
  PROVE  IInv' /\ KeepsPosted
<1>1. TypeOK
  BY DEF IInv
<1>2. /\ Running(w, "reverse") /\ Finish(w) /\ UNCHANGED <<period, raced>>
      /\ entry[r].status = "NONE"
  BY DEF ReverseCommit
<1>3. PICK e \in Entries : e = request[w].entry
  BY <1>1, <1>2, RequestTypes
<1>4. PICK lines \in Lines : lines = request[w].lines
  BY <1>1, <1>2, RequestTypes
<1>5. PICK day \in Days : day = request[w].entryDate
  BY <1>1, <1>2, RequestTypes
<1>6. PICK total \in Nat : total = lines.side
  BY LinesTypes
<1>7. Posted(e) /\ lines = Swapped(entry[e].lines)
  BY <1>2, <1>3, <1>4 DEF IInv, RequestMirrors
<1>8. ~Reversed(e)
  BY <1>3 DEF ReverseCommit, ReversalUnique
<1>9. r # e /\ ~Posted(r) /\ entry[r].reversalOf = None
  BY <1>2, <1>7 DEF IInv, ReversalsPosted, Posted
<1> DEFINE row == [status |-> "POSTED", entryDate |-> day, lines |-> lines,
                   total |-> total, reversalOf |-> e]
<1>10. entry' = [entry EXCEPT ![r] = row, ![e].status = "REVERSED"]
  BY <1>3, <1>4, <1>5, <1>6 DEF ReverseCommit, MarkReversed
<1>11. row \in Entry
  BY DEF Entry
<1>12. /\ row.status = "POSTED" /\ row.lines = lines
       /\ row.reversalOf = e
  OBVIOUS
<1> HIDE DEF row
<1>13. entry' \in [Entries -> Entry]
  <2>1. [entry[e] EXCEPT !.status = "REVERSED"] \in Entry
    BY <1>1 DEF TypeOK, Entry
  <2>2. entry' = [entry EXCEPT ![r] = row,
                    ![e] = [entry[e] EXCEPT !.status = "REVERSED"]]
    BY <1>1, <1>9, <1>10 DEF TypeOK
  <2> QED
    BY <1>1, <1>11, <2>1, <2>2 DEF TypeOK
<1>14. \A f \in Entries \ {r} :
         /\ entry'[f].status = IF f = e THEN "REVERSED" ELSE entry[f].status
         /\ entry'[f].reversalOf = entry[f].reversalOf
         /\ entry'[f].lines = entry[f].lines
  BY <1>1, <1>9, <1>10 DEF TypeOK, Entry
<1>15. entry'[r] = row
  BY <1>1, <1>9, <1>10 DEF TypeOK
<1>16. TypeOK'
  <2>1. request' \in [Workers -> Request]
    BY <1>1, <1>2, FinishType
  <2>2. EntryWritten(w, e, {}) /\ {} \in Unseen
    BY <1>3 DEF ReverseCommit, Unseen
  <2>3. unseen' \in [Workers -> Unseen]
    BY <1>1, <2>2, UnseenTypes
  <2> QED
    BY <1>1, <1>2, <1>13, <2>1, <2>3 DEF TypeOK
<1>17. KeepsPosted
  BY <1>9, <1>14 DEF KeepsPosted, Posted
<1>18. RequestMirrors'
  <2>1. KeepsRequests
    BY <1>1, <1>2, FinishKeeps
  <2> QED
    BY <1>1, <1>17, <2>1, RequestsStay DEF IInv
<1>19. ReversalsPosted'
  <2> SUFFICES ASSUME NEW f \in Entries, entry'[f].reversalOf # None
               PROVE  entry'[f].status \in {"POSTED", "REVERSED"}
    BY DEF ReversalsPosted, Posted
  <2>1. CASE f = r
    BY <1>12, <1>15, <2>1
  <2>2. CASE f # r
    BY <1>14, <2>2 DEF IInv, ReversalsPosted, Posted
  <2> QED
    BY <2>1, <2>2
<1>20. ReversalMirrors'
  <2> SUFFICES ASSUME NEW f \in Entries, NEW g \in Entries,
                      entry'[f].reversalOf = g
               PROVE  Posted(g)' /\ entry'[f].lines = Swapped(entry'[g].lines)
    BY DEF ReversalMirrors
  <2>1. CASE f = r
    <3>1. g = e /\ entry'[f].lines = Swapped(entry[e].lines)
      BY <1>7, <1>12, <1>15, <2>1
    <3>2. Posted(e)' /\ entry'[e].lines = entry[e].lines
      BY <1>7, <1>17 DEF KeepsPosted
    <3> QED
      BY <3>1, <3>2
  <2>2. CASE f # r
    <3>1. entry[f].reversalOf = g
      BY <1>14, <2>2
    <3>2. Posted(g) /\ entry[f].lines = Swapped(entry[g].lines)
      BY <3>1 DEF IInv, ReversalMirrors
    <3>3. Posted(g)' /\ entry'[g].lines = entry[g].lines
      BY <1>17, <3>2 DEF KeepsPosted
    <3> QED
      BY <1>14, <2>2, <3>2, <3>3
  <2> QED
    BY <2>1, <2>2
<1>21. ReversedOnce'
  <2>1. ASSUME NEW f \in Entries, NEW s \in Entries, NEW t \in Entries,
               entry'[s].reversalOf = f, entry'[t].reversalOf = f
        PROVE  s = t
    <3>1. CASE f = e
      <4>1. \A x \in Entries \ {r} : entry'[x].reversalOf # e
        BY <1>8, <1>14 DEF Reversed
      <4> QED
        BY <2>1, <3>1, <4>1
    <3>2. CASE f # e
      <4>1. s # r /\ t # r
        BY <1>12, <1>15, <2>1, <3>2
      <4>2. entry[s].reversalOf = f /\ entry[t].reversalOf = f
        BY <1>14, <2>1, <4>1
      <4> QED
        BY <4>2 DEF IInv, ReversedOnce
    <3> QED
      BY <3>1, <3>2
  <2>2. ASSUME NEW f \in Entries, entry'[f].status = "REVERSED"
        PROVE  \E s \in Entries : entry'[s].reversalOf = f
    <3>1. CASE f = e
      BY <1>12, <1>15, <3>1
    <3>2. CASE f # e
      <4>1. f # r
        BY <1>12, <1>15, <2>2
      <4>2. entry[f].status = "REVERSED"
        BY <1>14, <2>2, <3>2, <4>1
      <4>3. PICK s \in Entries : entry[s].reversalOf = f
        BY <4>2 DEF IInv, ReversedOnce, Reversed
      <4>4. s # r
        BY <1>9, <4>3, NoneIsNoEntry
      <4> QED
        BY <1>14, <4>3, <4>4
    <3> QED
      BY <3>1, <3>2
  <2> QED
    BY <2>1, <2>2 DEF ReversedOnce, Reversed
<1> QED
  BY <1>16, <1>17, <1>18, <1>19, <1>20, <1>21 DEF IInv

-----------------------------------------------------------------------------
(* Fiscal periods leave the entries alone. *)

\* Reading for a new period keeps the invariant.
LEMMA CreatePeriodReadStep ==
  ASSUME IInv, NEW w \in Workers, NEW p \in Periods, NEW startsOn \in Days,
         NEW endsOn \in Days, CreatePeriodRead(w, p, startsOn, endsOn)
  PROVE  IInv' /\ KeepsPosted
<1> DEFINE r == [op |-> "createPeriod", period |-> p, startsOn |-> startsOn,
                 endsOn |-> endsOn]
<1>1. r \in Request /\ r.op # "reverse"
  BY DEF Request
<1>2. Begin(w, r)
  BY DEF CreatePeriodRead
<1> QED
  BY <1>1, <1>2, BeginStep

\* So does reading for a change of dates.
LEMMA UpdatePeriodReadStep ==
  ASSUME IInv, NEW w \in Workers, NEW p \in Periods, NEW startsOn \in Days,
         NEW endsOn \in Days, UpdatePeriodRead(w, p, startsOn, endsOn)
  PROVE  IInv' /\ KeepsPosted
<1> DEFINE r == [op |-> "updatePeriod", period |-> p, startsOn |-> startsOn,
                 endsOn |-> endsOn]
<1>1. r \in Request /\ r.op # "reverse"
  BY DEF Request
<1>2. Begin(w, r)
  BY DEF UpdatePeriodRead
<1> QED
  BY <1>1, <1>2, BeginStep

\* And reading for a reopening.
LEMMA ReopenReadStep ==
  ASSUME IInv, NEW w \in Workers, NEW p \in Periods, ReopenRead(w, p)
  PROVE  IInv' /\ KeepsPosted
<1> DEFINE r == [op |-> "reopen", period |-> p]
<1>1. r \in Request /\ r.op # "reverse"
  BY DEF Request
<1>2. Begin(w, r)
  BY DEF ReopenRead
<1> QED
  BY <1>1, <1>2, BeginStep

\* Writes to a period that a worker finishes with keep the invariant.
LEMMA PeriodWriteStep ==
  ASSUME IInv, NEW w \in Workers, Finish(w), UNCHANGED entry,
         period' \in [Periods -> Period], unseen' \in [Workers -> Unseen],
         raced' \subseteq Entries \cup Periods
  PROVE  IInv' /\ KeepsPosted
<1>1. TypeOK
  BY DEF IInv
<1>2. TypeOK'
  BY <1>1, FinishType DEF TypeOK
<1> QED
  BY <1>1, <1>2, EntriesSame, FinishKeeps, Stays

\* Creating, moving and reopening a period are such writes.
LEMMA PeriodCommitStep ==
  ASSUME IInv, NEW w \in Workers,
         CreatePeriodCommit(w) \/ UpdatePeriodCommit(w) \/ ReopenCommit(w)
  PROVE  IInv' /\ KeepsPosted
<1>1. TypeOK
  BY DEF IInv
<1>2. Finish(w) /\ UNCHANGED entry
  BY DEF CreatePeriodCommit, UpdatePeriodCommit, ReopenCommit
<1>3. period' \in [Periods -> Period]
  <2>1. CASE CreatePeriodCommit(w)
    <3>1. /\ request[w].period \in Periods
          /\ request[w].startsOn \in Days
          /\ request[w].endsOn \in Days
      BY <1>1, <2>1, RequestTypes DEF CreatePeriodCommit
    <3> QED
      BY <1>1, <2>1, <3>1 DEF CreatePeriodCommit, TypeOK, Period
  <2>2. CASE UpdatePeriodCommit(w)
    <3>1. /\ request[w].period \in Periods
          /\ request[w].startsOn \in Days
          /\ request[w].endsOn \in Days
      BY <1>1, <2>2, RequestTypes DEF UpdatePeriodCommit
    <3>2. PICK p \in Periods : p = request[w].period
      BY <3>1
    <3>3. PICK from \in Days : from = request[w].startsOn
      BY <3>1
    <3>4. PICK to \in Days : to = request[w].endsOn
      BY <3>1
    <3>5. period' = [period EXCEPT ![p] =
            [period[p] EXCEPT !.startsOn = from, !.endsOn = to]]
      BY <1>1, <2>2, <3>2, <3>3, <3>4 DEF UpdatePeriodCommit, TypeOK
    <3>6. [period[p] EXCEPT !.startsOn = from, !.endsOn = to] \in Period
      BY <1>1 DEF TypeOK, Period
    <3> QED
      BY <1>1, <3>5, <3>6 DEF TypeOK
  <2>3. CASE ReopenCommit(w)
    <3>1. PICK p \in Periods : p = request[w].period
      BY <1>1, <2>3, RequestTypes DEF ReopenCommit
    <3>2. period' = [period EXCEPT ![p].status = "OPEN"]
      BY <2>3, <3>1 DEF ReopenCommit
    <3> QED
      BY <1>1, <3>2 DEF TypeOK, Period
  <2> QED
    BY <2>1, <2>2, <2>3
<1>4. unseen' \in [Workers -> Unseen]
  <2>1. \E relying : PeriodsWritten(w, relying)
    BY DEF CreatePeriodCommit, UpdatePeriodCommit, ReopenCommit
  <2>2. {} \in Unseen
    BY DEF Unseen
  <2> QED
    BY <1>1, <2>1, <2>2, UnseenTypes
<1>5. raced' \subseteq Entries \cup Periods
  <2>1. CASE CreatePeriodCommit(w) \/ UpdatePeriodCommit(w)
    <3>1. /\ request[w].period \in Periods
          /\ Written(request[w].period, "periods" \in unseen[w])
      BY <1>1, <2>1, RequestTypes DEF CreatePeriodCommit, UpdatePeriodCommit
    <3> QED
      BY <1>1, <3>1, WrittenType
  <2>2. CASE ReopenCommit(w)
    BY <1>1, <2>2 DEF ReopenCommit, TypeOK
  <2> QED
    BY <2>1, <2>2
<1> QED
  BY <1>2, <1>3, <1>4, <1>5, PeriodWriteStep

\* Closing and locking change one status.
LEMMA PeriodCloseStep ==
  ASSUME IInv, NEW w \in Workers, NEW p \in Periods,
         ClosePeriod(w, p) \/ LockPeriod(w, p)
  PROVE  IInv' /\ KeepsPosted
<1>1. TypeOK
  BY DEF IInv
<1>2. UNCHANGED <<entry, request, raced>> /\ PeriodsWritten(w, CheckedDates)
  BY DEF ClosePeriod, LockPeriod
<1>3. period' \in [Periods -> Period]
  BY <1>1 DEF ClosePeriod, LockPeriod, TypeOK, Period
<1>4. TypeOK'
  <2>1. {} \in Unseen
    BY DEF Unseen
  <2>2. unseen' \in [Workers -> Unseen]
    BY <1>1, <1>2, <2>1, UnseenTypes
  <2> QED
    BY <1>1, <1>2, <1>3, <2>2 DEF TypeOK
<1>5. KeepsRequests
  BY <1>2 DEF KeepsRequests, Running
<1> QED
  BY <1>2, <1>4, <1>5, EntriesSame, Stays

\* A request that aborts changes no row.
LEMMA AbortStep ==
  ASSUME IInv, NEW w \in Workers, Abort(w)
  PROVE  IInv' /\ KeepsPosted
<1>1. Finish(w) /\ UNCHANGED <<entry, period, raced>>
  BY DEF Abort
<1>2. unseen' \in [Workers -> Unseen]
  BY DEF Abort, IInv, TypeOK, Unseen
<1> QED
  BY <1>1, <1>2, PeriodWriteStep DEF IInv, TypeOK

-----------------------------------------------------------------------------
(* The theorems. *)

\* The inductive invariant holds at first.
LEMMA InitInv == ASSUME Init PROVE IInv
<1>1. \A e \in Entries :
        /\ entry[e] = [status |-> "NONE", entryDate |-> Today, lines |-> NoLines,
                       total |-> 0, reversalOf |-> None]
        /\ entry[e].status = "NONE" /\ entry[e].reversalOf = None
  BY DEF Init
<1>2. \A w \in Workers : request[w] = Idle /\ ~Running(w, "reverse")
  BY DEF Init, Idle, Running
<1>3. TypeOK
  <2>1. entry \in [Entries -> Entry]
    BY <1>1, DaysAreNumbers, LinesTypes DEF Init, Entry
  <2>2. period \in [Periods -> Period]
    BY DaysAreNumbers DEF Init, Period
  <2>3. request \in [Workers -> Request]
    BY <1>2 DEF Init, Request
  <2>4. unseen \in [Workers -> Unseen] /\ raced \subseteq Entries \cup Periods
    BY DEF Init, Unseen
  <2> QED
    BY <2>1, <2>2, <2>3, <2>4 DEF TypeOK
<1>4. RequestMirrors
  BY <1>2 DEF RequestMirrors
<1>5. ReversalsPosted /\ ReversalMirrors /\ ReversedOnce
  BY <1>1, NoneIsNoEntry
     DEF ReversalsPosted, ReversalMirrors, ReversedOnce, Reversed
<1> QED
  BY <1>3, <1>4, <1>5 DEF IInv

\* Every step keeps it, and the lines of posted entries.
LEMMA StepInv == ASSUME IInv, [Next]_vars PROVE IInv' /\ KeepsPosted
<1>1. ASSUME NEW w \in Workers, NEW e \in Entries, NEW amount \in Amounts,
             NEW day \in Days, CreateEntry(w, e, amount, day)
      PROVE  IInv' /\ KeepsPosted
  BY <1>1, CreateEntryStep
<1>2. ASSUME NEW w \in Workers, NEW e \in Entries,
             NEW amount \in Amounts \cup {0}, NEW day \in Days \cup {None},
             UpdateEntryRead(w, e, amount, day)
      PROVE  IInv' /\ KeepsPosted
  BY <1>2, UpdateEntryReadStep
<1>3. ASSUME NEW w \in Workers, NEW e \in Entries,
             PostRead(w, e) \/ ReverseRead(w, e)
      PROVE  IInv' /\ KeepsPosted
  BY <1>3, PostReadStep, ReverseReadStep
<1>4. ASSUME NEW w \in Workers,
             UpdateEntryCommit(w) \/ CheckPostingDate(w) \/ PostCommit(w)
      PROVE  IInv' /\ KeepsPosted
  BY <1>4, UpdateEntryCommitStep, CheckPostingDateStep, PostCommitStep
<1>5. ASSUME NEW w \in Workers, NEW r \in Entries, ReverseCommit(w, r)
      PROVE  IInv' /\ KeepsPosted
  BY <1>5, ReverseCommitStep
<1>6. ASSUME PeriodStep PROVE IInv' /\ KeepsPosted
  <2>1. ASSUME NEW w \in Workers, NEW p \in Periods, NEW from \in Days,
               NEW to \in Days,
               \/ CreatePeriodRead(w, p, from, to)
               \/ UpdatePeriodRead(w, p, from, to)
        PROVE  IInv' /\ KeepsPosted
    BY <2>1, CreatePeriodReadStep, UpdatePeriodReadStep
  <2>2. ASSUME NEW w \in Workers, NEW p \in Periods,
               ReopenRead(w, p) \/ ClosePeriod(w, p) \/ LockPeriod(w, p)
        PROVE  IInv' /\ KeepsPosted
    BY <2>2, ReopenReadStep, PeriodCloseStep
  <2>3. ASSUME NEW w \in Workers,
               \/ CreatePeriodCommit(w) \/ UpdatePeriodCommit(w)
               \/ ReopenCommit(w)
        PROVE  IInv' /\ KeepsPosted
    BY <2>3, PeriodCommitStep
  <2> QED
    BY <1>6, <2>1, <2>2, <2>3 DEF PeriodStep
<1>7. ASSUME NEW w \in Workers, Abort(w) PROVE IInv' /\ KeepsPosted
  BY <1>7, AbortStep
<1>8. ASSUME UNCHANGED vars PROVE IInv' /\ KeepsPosted
  <2>1. TypeOK'
    BY <1>8 DEF IInv, TypeOK, vars
  <2>2. KeepsRequests /\ entry' = entry
    BY <1>8 DEF KeepsRequests, Running, vars
  <2> QED
    BY <2>1, <2>2, EntriesSame, Stays
<1> QED
  BY <1>1, <1>2, <1>3, <1>4, <1>5, <1>6, <1>7, <1>8 DEF Next, EntryStep

\* Whatever requests interleave, the inductive invariant holds.
THEOREM Invariance == Spec => []IInv
<1>1. IInv /\ [Next]_vars => IInv'
  BY StepInv
<1> QED
  BY InitInv, <1>1, PTL DEF Spec

\* Rows and requests keep their types.
THEOREM TypeCorrect == Spec => []TypeOK
<1>1. IInv => TypeOK
  BY DEF IInv
<1> QED
  BY <1>1, Invariance, PTL

\* A reversal always undoes the entry it reverses exactly
\* (AccountingService.reverse).
THEOREM ReversalsMirror == Spec => []ReversalMirrors
<1>1. IInv => ReversalMirrors
  BY DEF IInv
<1> QED
  BY <1>1, Invariance, PTL

\* No entry is ever reversed twice (AccountingService.reverse).
THEOREM ReversedAtMostOnce == Spec => []ReversedOnce
<1>1. IInv => ReversedOnce
  BY DEF IInv
<1> QED
  BY <1>1, Invariance, PTL

\* The lines of a posted entry never change (AccountingService.update, with
\* the triggers behind it).
THEOREM LinesFrozen == Spec => PostedLinesFrozen
<1>1. IInv /\ [Next]_vars => [\A e \in Entries : Posted(e) =>
          Posted(e)' /\ entry'[e].lines = entry[e].lines]_vars
  BY StepInv DEF KeepsPosted
<1> QED
  BY Invariance, <1>1, PTL DEF Spec, PostedLinesFrozen

-----------------------------------------------------------------------------
(* What was read and checked.  It holds as long as nobody wrote over it     *)
(* unseen, and then the checks of the handlers are enough.                  *)

\* What worker w read of an entry.
EntryHolds(w) ==
    LET r == request[w]
    IN  /\ r.op \in {"updateEntry", "post"} => entry[r.entry].status # "NONE"
        /\ r.op = "updateEntry" =>
             IF r.lines # NoLines THEN r.total = r.lines.side
             ELSE "lines" \in unseen[w] \/ r.total = entry[r.entry].lines.side
        /\ r.op = "post" =>
             /\ "lines" \in unseen[w] \/ r.lines = entry[r.entry].lines
             /\ "date" \in unseen[w] \/ r.entryDate = entry[r.entry].entryDate

\* What it read of the periods.
PeriodsHold(w) ==
    LET r == request[w]
    IN  /\ r.op = "reopen" => period[r.period].status # "NONE"
        /\ "periods" \notin unseen[w] =>
             /\ w \in ComparedDates => NoOverlap(r.period, r.startsOn, r.endsOn)
             /\ w \in CheckedDates => PostingDateAllowed(r.entryDate)

SeenInv ==
    /\ PeriodsDisjoint
    /\ TotalsMatchLines
    /\ \A w \in Workers : EntryHolds(w) /\ PeriodsHold(w)

\* An entry that this step posts is not dated in a closed or locked period,
\* but for what ClosedPeriodsBlockPostings names.
PostsAreOpen ==
    \A e \in Entries, p \in Periods :
      /\ ~Posted(e) /\ Posted(e)'
      /\ Covers(p, entry'[e].entryDate)
      /\ period[p].status \in {"CLOSED", "LOCKED"}
      => \/ \E w \in Workers : /\ request'[w] # request[w]
                               /\ unseen[w] \cap {"date", "periods"} # {}
         \/ \E q \in Periods : /\ period[q].status = "OPEN"
                               /\ Covers(q, entry'[e].entryDate)
                               /\ {p, q} \cap raced # {}

\* What v read of an entry stays, or v has not seen it change.
LEMMA EntryHoldsStays ==
  ASSUME TypeOK, NEW v \in Workers, EntryHolds(v), request'[v] = request[v],
         unseen[v] \subseteq unseen'[v],
         \A e \in Entries : entry[e].status # "NONE" =>
           /\ entry'[e].status # "NONE"
           /\ \/ entry'[e].lines = entry[e].lines
              \/ "lines" \in EntryReads(v, e) => "lines" \in unseen'[v]
           /\ \/ entry'[e].entryDate = entry[e].entryDate
              \/ "date" \in EntryReads(v, e) => "date" \in unseen'[v]
  PROVE  EntryHolds(v)'
<1>1. CASE request[v].op \notin {"updateEntry", "post"}
  BY <1>1 DEF EntryHolds
<1>2. CASE request[v].op = "updateEntry"
  <2>1. PICK e \in Entries : e = request[v].entry
    BY <1>2, RequestTypes DEF Running
  <2>2. entry[e].status # "NONE" /\ "lines" \in EntryReads(v, e)
    BY <1>2, <2>1 DEF EntryHolds, EntryReads, Running
  <2> QED
    BY <1>2, <2>1, <2>2 DEF EntryHolds
<1>3. CASE request[v].op = "post"
  <2>1. PICK e \in Entries : e = request[v].entry
    BY <1>3, RequestTypes DEF Running
  <2>2. entry[e].status # "NONE" /\ {"lines", "date"} \subseteq EntryReads(v, e)
    BY <1>3, <2>1 DEF EntryHolds, EntryReads, Running
  <2> QED
    BY <1>3, <2>1, <2>2 DEF EntryHolds
<1> QED
  BY <1>1, <1>2, <1>3

\* The dates of the periods, and which exist, stay.
SameDates ==
    \A p \in Periods :
        /\ period'[p].startsOn = period[p].startsOn
        /\ period'[p].endsOn = period[p].endsOn
        /\ period'[p].status = "NONE" <=> period[p].status = "NONE"

\* What v read of the periods stays, or v has not seen it change.
LEMMA PeriodsHoldStay ==
  ASSUME TypeOK, NEW v \in Workers, PeriodsHold(v), request'[v] = request[v],
         unseen[v] \subseteq unseen'[v],
         \A p \in Periods : period[p].status # "NONE" => period'[p].status # "NONE",
         \/ period' = period
         \/ "periods" \in unseen'[v]
         \/ v \notin ComparedDates /\ v \notin CheckedDates
         \/ v \notin CheckedDates /\ SameDates
  PROVE  PeriodsHold(v)'
<1>1. request[v].op = "reopen" => period'[request[v].period].status # "NONE"
  BY RequestTypes DEF PeriodsHold, Running
<1>2. /\ v \in ComparedDates' <=> v \in ComparedDates
      /\ v \in CheckedDates' <=> v \in CheckedDates
  BY DEF ComparedDates, CheckedDates
<1>3. ASSUME "periods" \notin unseen'[v], v \in ComparedDates
      PROVE  NoOverlap(request[v].period, request[v].startsOn, request[v].endsOn)'
  <2>1. NoOverlap(request[v].period, request[v].startsOn, request[v].endsOn)
    BY <1>3 DEF PeriodsHold
  <2>2. period' = period \/ SameDates
    BY <1>3
  <2> QED
    BY <2>1, <2>2 DEF NoOverlap, SameDates
<1>4. ASSUME "periods" \notin unseen'[v], v \in CheckedDates
      PROVE  PostingDateAllowed(request[v].entryDate)'
  <2>1. PostingDateAllowed(request[v].entryDate) /\ period' = period
    BY <1>4 DEF PeriodsHold
  <2> QED
    BY <2>1 DEF PostingDateAllowed, Covers
<1> QED
  BY <1>1, <1>2, <1>3, <1>4 DEF PeriodsHold

\* Nothing is to hold for an idle worker.
LEMMA IdleHolds ==
  ASSUME NEW w \in Workers, request'[w].op = "idle"
  PROVE  EntryHolds(w)' /\ PeriodsHold(w)'
  BY DEF EntryHolds, PeriodsHold, ComparedDates, CheckedDates

\* Finishing leaves the worker idle, and the others with their requests.
LEMMA FinishIdle ==
  ASSUME TypeOK, NEW w \in Workers, Finish(w)
  PROVE  /\ request'[w].op = "idle"
         /\ \A v \in Workers \ {w} : request'[v] = request[v]
  BY DEF TypeOK, Finish, Idle

\* Beginning leaves it with the request.
LEMMA BeginRequest ==
  ASSUME TypeOK, NEW w \in Workers, NEW r, Begin(w, r)
  PROVE  /\ request'[w] = r
         /\ \A v \in Workers \ {w} : request'[v] = request[v]
         /\ UNCHANGED <<entry, period, unseen, raced>>
  BY DEF TypeOK, Begin

\* What becomes unseen by the other workers.
LEMMA UnseenByOthers ==
  ASSUME TypeOK, NEW w \in Workers, NEW v \in Workers \ {w}
  PROVE  /\ \A e, what : EntryWritten(w, e, what) =>
              unseen'[v] = unseen[v] \cup (what \cap EntryReads(v, e))
         /\ \A relying : PeriodsWritten(w, relying) =>
              /\ unseen[v] \subseteq unseen'[v]
              /\ v \in relying => "periods" \in unseen'[v]
  BY DEF EntryWritten, PeriodsWritten

\* Rows of one table that are written over something unseen are none of the
\* other table.
LEMMA OtherRowsRaced ==
  ASSUME NEW row, NEW blind, Written(row, blind)
  PROVE  /\ \A x : x # row => (x \in raced' <=> x \in raced)
         /\ row \in raced' <=> blind
         /\ row \in Entries => \A p \in Periods : p \in raced' <=> p \in raced
         /\ row \in Periods => \A e \in Entries : e \in raced' <=> e \in raced
  BY IdsDistinct DEF Written

\* Periods stay apart while they and their races stay.
LEMMA DisjointSame ==
  ASSUME PeriodsDisjoint, period' = period \/ SameDates,
         \A p \in Periods : p \in raced' <=> p \in raced
  PROVE  PeriodsDisjoint'
  BY DEF PeriodsDisjoint, SameDates

\* Totals stay right while the entries and their races stay.
LEMMA TotalsSame ==
  ASSUME TotalsMatchLines, entry' = entry,
         \A e \in Entries : e \in raced' <=> e \in raced
  PROVE  TotalsMatchLines'
  BY DEF TotalsMatchLines

\* A step that posts nothing posts nothing into a closed period.
LEMMA NothingPosted ==
  ASSUME \A e \in Entries : Posted(e)' => Posted(e)
  PROVE  PostsAreOpen
  BY DEF PostsAreOpen

\* A step of w that changes no row.
LEMMA SeenRead ==
  ASSUME IInv, SeenInv, NEW w \in Workers, UNCHANGED <<entry, period, raced>>,
         \A v \in Workers \ {w} : /\ request'[v] = request[v]
                                  /\ unseen[v] \subseteq unseen'[v],
         EntryHolds(w)', PeriodsHold(w)'
  PROVE  SeenInv' /\ PostsAreOpen
<1>1. TypeOK /\ PeriodsDisjoint' /\ TotalsMatchLines'
  BY DisjointSame, TotalsSame DEF IInv, SeenInv
<1>2. ASSUME NEW v \in Workers \ {w}
      PROVE  EntryHolds(v)' /\ PeriodsHold(v)'
  BY <1>1, EntryHoldsStays, PeriodsHoldStay DEF SeenInv
<1>3. PostsAreOpen
  BY NothingPosted DEF Posted
<1> QED
  BY <1>1, <1>2, <1>3 DEF SeenInv

\* A step that writes entries: the periods are the same.
LEMMA SeenEntries ==
  ASSUME IInv, SeenInv, NEW w \in Workers, period' = period,
         \A p \in Periods : p \in raced' <=> p \in raced,
         request'[w].op = "idle", TotalsMatchLines',
         \A v \in Workers \ {w} : /\ request'[v] = request[v]
                                  /\ unseen[v] \subseteq unseen'[v],
         \A v \in Workers \ {w}, e \in Entries : entry[e].status # "NONE" =>
           /\ entry'[e].status # "NONE"
           /\ \/ entry'[e].lines = entry[e].lines
              \/ "lines" \in EntryReads(v, e) => "lines" \in unseen'[v]
           /\ \/ entry'[e].entryDate = entry[e].entryDate
              \/ "date" \in EntryReads(v, e) => "date" \in unseen'[v]
  PROVE  SeenInv'
<1>1. TypeOK /\ PeriodsDisjoint'
  BY DisjointSame DEF IInv, SeenInv
<1>2. ASSUME NEW v \in Workers \ {w}
      PROVE  EntryHolds(v)' /\ PeriodsHold(v)'
  BY <1>1, EntryHoldsStays, PeriodsHoldStay DEF SeenInv
<1>3. EntryHolds(w)' /\ PeriodsHold(w)'
  BY IdleHolds
<1> QED
  BY <1>1, <1>2, <1>3 DEF SeenInv

\* A step that writes periods: the entries are the same.
LEMMA SeenPeriods ==
  ASSUME IInv, SeenInv, NEW w \in Workers, entry' = entry,
         \A e \in Entries : e \in raced' <=> e \in raced,
         request'[w].op = "idle", PeriodsDisjoint',
         \A p \in Periods : period[p].status # "NONE" => period'[p].status # "NONE",
         \A v \in Workers \ {w} :
           /\ request'[v] = request[v]
           /\ unseen[v] \subseteq unseen'[v]
           /\ v \in CheckedDates => "periods" \in unseen'[v]
           /\ (v \in ComparedDates => "periods" \in unseen'[v]) \/ SameDates
  PROVE  SeenInv' /\ PostsAreOpen
<1>1. TypeOK /\ TotalsMatchLines'
  BY TotalsSame DEF IInv, SeenInv
<1>2. ASSUME NEW v \in Workers \ {w}
      PROVE  EntryHolds(v)' /\ PeriodsHold(v)'
  <2>1. EntryHolds(v)'
    BY <1>1, EntryHoldsStays DEF SeenInv
  <2>2. PeriodsHold(v)'
    BY <1>1, PeriodsHoldStay DEF SeenInv
  <2> QED
    BY <2>1, <2>2
<1>3. EntryHolds(w)' /\ PeriodsHold(w)'
  BY IdleHolds
<1>4. PostsAreOpen
  BY NothingPosted DEF Posted
<1> QED
  BY <1>1, <1>2, <1>3, <1>4 DEF SeenInv

-----------------------------------------------------------------------------
(* Journal entries, with what was read. *)

\* A new draft carries its own totals.
LEMMA CreateEntrySeen ==
  ASSUME IInv, SeenInv, NEW w \in Workers, NEW e \in Entries,
         NEW amount \in Amounts, NEW entryDate \in Days,
         CreateEntry(w, e, amount, entryDate)
  PROVE  SeenInv' /\ PostsAreOpen
<1>1. entry \in [Entries -> Entry] /\ entry[e].status = "NONE"
      /\ UNCHANGED <<period, request, unseen, raced>> /\ request[w] = Idle
  BY DEF IInv, TypeOK, CreateEntry
<1>2. \A f \in Entries \ {e} : entry'[f] = entry[f]
  BY <1>1 DEF CreateEntry
<1>3. /\ entry'[e].status = "DRAFT"
      /\ entry'[e].total = entry'[e].lines.side
  BY <1>1 DEF CreateEntry
<1>4. TotalsMatchLines'
  BY <1>1, <1>2, <1>3 DEF SeenInv, TotalsMatchLines
<1>5. request'[w].op = "idle"
  BY <1>1 DEF Idle
<1>6. SeenInv'
  BY <1>1, <1>2, <1>4, <1>5, SeenEntries
<1>7. PostsAreOpen
  BY <1>2, <1>3, NothingPosted DEF Posted
<1> QED
  BY <1>6, <1>7

\* Reading an entry: nothing is unseen yet.
LEMMA EntryReadSeen ==
  ASSUME IInv, SeenInv, NEW w \in Workers, NEW e \in Entries,
         \/ \E amount \in Amounts \cup {0}, day \in Days \cup {None} :
              UpdateEntryRead(w, e, amount, day)
         \/ PostRead(w, e)
         \/ ReverseRead(w, e)
  PROVE  SeenInv' /\ PostsAreOpen
<1>1. TypeOK
  BY DEF IInv
<1>2. ASSUME NEW amount \in Amounts \cup {0}, NEW day \in Days \cup {None},
             UpdateEntryRead(w, e, amount, day)
      PROVE  SeenInv' /\ PostsAreOpen
  <2> DEFINE r == [op |-> "updateEntry", entry |-> e, entryDate |-> day,
                   lines |-> LinesOf(amount),
                   total |-> NextLines(e, LinesOf(amount)).side]
  <2>1. /\ request'[w] = r /\ UNCHANGED <<entry, period, unseen, raced>>
        /\ \A v \in Workers \ {w} : request'[v] = request[v]
    BY <1>1, <1>2, BeginRequest DEF UpdateEntryRead
  <2>2. entry[e].status = "DRAFT"
    BY <1>2 DEF UpdateEntryRead
  <2>3. EntryHolds(w)'
    BY <2>1, <2>2 DEF EntryHolds, NextLines
  <2>4. PeriodsHold(w)'
    BY <2>1 DEF PeriodsHold, ComparedDates, CheckedDates
  <2> QED
    BY <2>1, <2>3, <2>4, SeenRead
<1>3. CASE PostRead(w, e)
  <2> DEFINE r == [op |-> "post", entry |-> e, entryDate |-> entry[e].entryDate,
                   lines |-> entry[e].lines, allowed |-> FALSE]
  <2>1. /\ request'[w] = r /\ UNCHANGED <<entry, period, unseen, raced>>
        /\ \A v \in Workers \ {w} : request'[v] = request[v]
    BY <1>1, <1>3, BeginRequest DEF PostRead
  <2>2. entry[e].status = "DRAFT"
    BY <1>3 DEF PostRead
  <2>3. EntryHolds(w)'
    BY <2>1, <2>2 DEF EntryHolds
  <2>4. PeriodsHold(w)'
    BY <2>1 DEF PeriodsHold, ComparedDates, CheckedDates
  <2> QED
    BY <2>1, <2>3, <2>4, SeenRead
<1>4. CASE ReverseRead(w, e)
  <2> DEFINE r == [op |-> "reverse", entry |-> e, entryDate |-> Today,
                   lines |-> Swapped(entry[e].lines), allowed |-> FALSE]
  <2>1. /\ request'[w] = r /\ UNCHANGED <<entry, period, unseen, raced>>
        /\ \A v \in Workers \ {w} : request'[v] = request[v]
    BY <1>1, <1>4, BeginRequest DEF ReverseRead
  <2>2. EntryHolds(w)'
    BY <2>1 DEF EntryHolds
  <2>3. PeriodsHold(w)'
    BY <2>1 DEF PeriodsHold, ComparedDates, CheckedDates
  <2> QED
    BY <2>1, <2>2, <2>3, SeenRead
<1> QED
  BY <1>2, <1>3, <1>4

\* An update leaves the totals of its lines, or has raced.
LEMMA UpdateEntryCommitSeen ==
  ASSUME IInv, SeenInv, NEW w \in Workers, UpdateEntryCommit(w)
  PROVE  SeenInv' /\ PostsAreOpen
<1>1. TypeOK
  BY DEF IInv
<1>2. Running(w, "updateEntry") /\ Finish(w) /\ UNCHANGED period
  BY DEF UpdateEntryCommit
<1>3. PICK e \in Entries, lines \in LinesAfter(w), day \in Days, total \in Nat :
        Updates(w, e, lines, day, total)
  BY <1>1, UpdateEntryWrites
<1>4. \A f \in Entries \ {e} : entry'[f] = entry[f]
  BY <1>1, <1>3 DEF Updates, TypeOK
<1>5. /\ entry'[e].status = entry[e].status
      /\ entry'[e].lines = lines /\ entry'[e].total = total
      /\ entry'[e].entryDate = day
  <2>1. entry[e] \in Entry /\ entry \in [Entries -> Entry]
    BY <1>1 DEF TypeOK
  <2>2. entry'[e] = [entry[e] EXCEPT !.entryDate = day, !.lines = lines, !.total = total]
    BY <1>3, <2>1 DEF Updates
  <2> QED
    BY <2>1, <2>2 DEF Entry
<1>6. Written(e, /\ "lines" \in unseen[w]
                 /\ request[w].lines = NoLines \/ lines # request[w].lines)
  BY <1>3 DEF Updates
<1>7. TotalsMatchLines'
  <2>1. ASSUME e \notin raced'
        PROVE  total = lines.side
    <3>1. ~("lines" \in unseen[w]
            /\ (request[w].lines = NoLines \/ lines # request[w].lines))
      BY <1>6, <2>1, OtherRowsRaced
    <3>2. EntryHolds(w) /\ e = request[w].entry /\ total = request[w].total
      BY <1>3 DEF SeenInv, Updates
    <3>3. CASE request[w].lines = NoLines
      <4>1. lines = entry[e].lines
        BY <1>1, <1>2, <3>2, <3>3, LinesAfterTypes
      <4> QED
        BY <1>2, <3>1, <3>2, <3>3, <4>1 DEF EntryHolds, Running
    <3>4. CASE request[w].lines # NoLines
      <4>1. lines = request[w].lines
        BY <1>1, <1>2, <3>1, <3>4, LinesAfterTypes
      <4> QED
        BY <1>2, <3>2, <3>4, <4>1 DEF EntryHolds, Running
    <3> QED
      BY <3>3, <3>4
  <2>2. \A f \in Entries \ {e} : f \in raced' <=> f \in raced
    BY <1>6, OtherRowsRaced
  <2> QED
    BY <1>4, <1>5, <2>1, <2>2 DEF SeenInv, TotalsMatchLines
<1>8. \A p \in Periods : p \in raced' <=> p \in raced
  BY <1>6, OtherRowsRaced
<1>9. ASSUME NEW v \in Workers \ {w}
      PROVE  /\ unseen[v] \subseteq unseen'[v]
             /\ lines # entry[e].lines =>
                  ("lines" \in EntryReads(v, e) => "lines" \in unseen'[v])
             /\ day # entry[e].entryDate =>
                  ("date" \in EntryReads(v, e) => "date" \in unseen'[v])
  <2>1. unseen'[v] = unseen[v] \cup
          (((IF request[w].lines = NoLines THEN {} ELSE {"lines"})
             \cup (IF request[w].entryDate = None THEN {} ELSE {"date"}))
           \cap EntryReads(v, e))
    BY <1>1, <1>3, UnseenByOthers DEF Updates
  <2>2. lines # entry[e].lines => request[w].lines # NoLines
    BY <1>1, <1>2, <1>3, LinesAfterTypes DEF Updates
  <2>3. day # entry[e].entryDate => request[w].entryDate # None
    BY <1>3 DEF Updates
  <2> QED
    BY <2>1, <2>2, <2>3
<1>10. /\ request'[w].op = "idle"
       /\ \A v \in Workers \ {w} : request'[v] = request[v]
  BY <1>1, <1>2, FinishIdle
<1>11. SeenInv'
  <2>1. \A v \in Workers \ {w}, f \in Entries : entry[f].status # "NONE" =>
           /\ entry'[f].status # "NONE"
           /\ \/ entry'[f].lines = entry[f].lines
              \/ "lines" \in EntryReads(v, f) => "lines" \in unseen'[v]
           /\ \/ entry'[f].entryDate = entry[f].entryDate
              \/ "date" \in EntryReads(v, f) => "date" \in unseen'[v]
    BY <1>4, <1>5, <1>9
  <2> QED
    BY <1>2, <1>7, <1>8, <1>9, <1>10, <2>1, SeenEntries
<1>12. PostsAreOpen
  BY <1>4, <1>5, NothingPosted DEF Posted
<1> QED
  BY <1>11, <1>12

\* A checked date is allowed until the periods change unseen.
LEMMA CheckPostingDateSeen ==
  ASSUME IInv, SeenInv, NEW w \in Workers, CheckPostingDate(w)
  PROVE  SeenInv' /\ PostsAreOpen
<1> DEFINE r == [request[w] EXCEPT !.allowed = TRUE]
<1>1. TypeOK /\ EntryHolds(w)
  BY DEF IInv, SeenInv
<1>2. /\ request[w].op \in {"post", "reverse"}
      /\ PostingDateAllowed(request[w].entryDate)
      /\ UNCHANGED <<entry, period, unseen, raced>>
  BY DEF CheckPostingDate
<1>3. /\ request'[w] = r
      /\ \A v \in Workers \ {w} : request'[v] = request[v]
  BY <1>1 DEF CheckPostingDate, TypeOK
<1>4. /\ r.op = request[w].op /\ r.entry = request[w].entry
      /\ r.lines = request[w].lines /\ r.entryDate = request[w].entryDate
  OBVIOUS
<1> HIDE DEF r
<1>5. EntryHolds(w)'
  BY <1>1, <1>2, <1>3, <1>4 DEF EntryHolds
<1>6. PeriodsHold(w)'
  <2>1. PostingDateAllowed(request[w].entryDate)'
    <3>1. request'[w].entryDate = request[w].entryDate
      BY <1>3, <1>4
    <3> QED
      BY <1>2, <3>1 DEF PostingDateAllowed, Covers
  <2> QED
    BY <1>2, <1>3, <1>4, <2>1 DEF PeriodsHold, ComparedDates
<1> QED
  BY <1>2, <1>3, <1>5, <1>6, SeenRead

\* Of a day that may be posted to and that a closed period covers, an open
\* one that raced with it covers the day as well.
LEMMA OpenShares ==
  ASSUME TypeOK, PeriodsDisjoint, NEW day \in Days, PostingDateAllowed(day),
         NEW p \in Periods, Covers(p, day), period[p].status \in {"CLOSED", "LOCKED"}
  PROVE  \E q \in Periods : /\ period[q].status = "OPEN"
                            /\ Covers(q, day)
                            /\ {p, q} \cap raced # {}
<1>1. \A q \in Periods : period[q].startsOn \in Int /\ period[q].endsOn \in Int
  BY DaysAreNumbers DEF TypeOK, Period
<1>2. PICK q \in Periods : period[q].status = "OPEN" /\ Covers(q, day)
  BY DEF PostingDateAllowed
<1>3. /\ period[p].startsOn <= day /\ day <= period[p].endsOn
      /\ period[q].startsOn <= day /\ day <= period[q].endsOn
  BY <1>2 DEF Covers
<1>4. ~(period[p].endsOn < period[q].startsOn)
      /\ ~(period[q].endsOn < period[p].startsOn)
  BY <1>1, <1>3, DaysAreNumbers
<1>5. p \in raced \/ q \in raced
  BY <1>2, <1>4 DEF PeriodsDisjoint
<1> QED
  BY <1>2, <1>5

\* A worker that posts e at the date it checked.
LEMMA PostedOpen ==
  ASSUME TypeOK, SeenInv, NEW w \in Workers, w \in CheckedDates,
         request'[w].op = "idle", NEW e \in Entries,
         \A f \in Entries \ {e} : Posted(f)' => Posted(f),
         "date" \notin unseen[w] => entry'[e].entryDate = request[w].entryDate
  PROVE  PostsAreOpen
<1> SUFFICES ASSUME NEW p \in Periods, Covers(p, entry'[e].entryDate),
                    period[p].status \in {"CLOSED", "LOCKED"},
                    "date" \notin unseen[w], "periods" \notin unseen[w]
             PROVE  \E q \in Periods : /\ period[q].status = "OPEN"
                                       /\ Covers(q, entry'[e].entryDate)
                                       /\ {p, q} \cap raced # {}
  <2>1. request'[w] # request[w]
    BY DEF CheckedDates
  <2> QED
    BY <2>1 DEF PostsAreOpen
<1>1. PICK day \in Days : day = request[w].entryDate
  BY RequestTypes DEF CheckedDates, Running
<1>2. entry'[e].entryDate = day
  BY <1>1
<1>3. PostingDateAllowed(day)
  BY <1>1 DEF SeenInv, PeriodsHold
<1> QED
  BY <1>2, <1>3, OpenShares DEF SeenInv

\* A posting leaves the totals of the lines, or has raced.
LEMMA PostCommitSeen ==
  ASSUME IInv, SeenInv, NEW w \in Workers, PostCommit(w)
  PROVE  SeenInv' /\ PostsAreOpen
<1>1. TypeOK /\ entry \in [Entries -> Entry]
  BY DEF IInv, TypeOK
<1>2. Running(w, "post") /\ request[w].allowed /\ Finish(w) /\ UNCHANGED period
  BY DEF PostCommit
<1>3. PICK e \in Entries : e = request[w].entry
  BY <1>1, <1>2, RequestTypes
<1>4. EntryHolds(w)
  BY DEF SeenInv
<1>5. \A f \in Entries \ {e} : entry'[f] = entry[f]
  BY <1>1, <1>3 DEF PostCommit
<1>6. /\ entry'[e].entryDate = entry[e].entryDate
      /\ entry'[e].total = request[w].lines.side
      /\ entry'[e].lines = entry[e].lines
      /\ entry'[e].status = "POSTED"
  BY <1>1, <1>3 DEF PostCommit, Entry
<1>7. Written(e, "lines" \in unseen[w]) /\ EntryWritten(w, e, {})
  BY <1>3 DEF PostCommit
<1>8. TotalsMatchLines'
  <2>1. e \notin raced' => request[w].lines = entry[e].lines
    BY <1>2, <1>3, <1>4, <1>7, OtherRowsRaced DEF EntryHolds, Running
  <2>2. \A f \in Entries \ {e} : f \in raced' <=> f \in raced
    BY <1>7, OtherRowsRaced
  <2> QED
    BY <1>5, <1>6, <2>1, <2>2 DEF SeenInv, TotalsMatchLines
<1>9. \A p \in Periods : p \in raced' <=> p \in raced
  BY <1>7, OtherRowsRaced
<1>10. \A v \in Workers \ {w} : unseen[v] \subseteq unseen'[v]
  BY <1>1, <1>7, UnseenByOthers
<1>11. /\ request'[w].op = "idle"
       /\ \A v \in Workers \ {w} : request'[v] = request[v]
  BY <1>1, <1>2, FinishIdle
<1>12. SeenInv'
  BY <1>2, <1>5, <1>6, <1>8, <1>9, <1>10, <1>11, SeenEntries
<1>13. PostsAreOpen
  <2>1. w \in CheckedDates
    BY <1>2 DEF CheckedDates, Running
  <2>2. "date" \notin unseen[w] => entry'[e].entryDate = request[w].entryDate
    BY <1>2, <1>3, <1>4, <1>6 DEF EntryHolds, Running
  <2>3. \A f \in Entries \ {e} : Posted(f)' => Posted(f)
    BY <1>5 DEF Posted
  <2> QED
    BY <1>1, <1>11, <2>1, <2>2, <2>3, PostedOpen
<1> QED
  BY <1>12, <1>13

\* A reversal carries its own totals.
LEMMA ReverseCommitSeen ==
  ASSUME IInv, SeenInv, NEW w \in Workers, NEW r \in Entries, ReverseCommit(w, r)
  PROVE  SeenInv' /\ PostsAreOpen
<1>1. TypeOK /\ entry \in [Entries -> Entry]
  BY DEF IInv, TypeOK
<1>2. /\ Running(w, "reverse") /\ request[w].allowed /\ Finish(w)
      /\ UNCHANGED <<period, raced>> /\ entry[r].status = "NONE"
  BY DEF ReverseCommit
<1>3. PICK e \in Entries : e = request[w].entry
  BY <1>1, <1>2, RequestTypes
<1>4. Posted(e) /\ r # e
  BY <1>2, <1>3 DEF IInv, RequestMirrors, Posted
<1>5. EntryWritten(w, e, {})
  BY <1>3 DEF ReverseCommit
<1>6. \A f \in Entries \ {r, e} : entry'[f] = entry[f]
  BY <1>1, <1>3 DEF ReverseCommit
<1>7. /\ entry'[e].total = entry[e].total /\ entry'[e].lines = entry[e].lines
      /\ entry'[e].entryDate = entry[e].entryDate
      /\ entry'[e].status = "REVERSED"
  BY <1>1, <1>3, <1>4 DEF ReverseCommit, MarkReversed, Entry
<1>8. /\ entry'[r].entryDate = request[w].entryDate
      /\ entry'[r].total = entry'[r].lines.side
  BY <1>1, <1>3, <1>4 DEF ReverseCommit
<1>9. TotalsMatchLines'
  BY <1>2, <1>6, <1>7, <1>8 DEF SeenInv, TotalsMatchLines
<1>10. \A v \in Workers \ {w} : unseen[v] \subseteq unseen'[v]
  BY <1>1, <1>5, UnseenByOthers
<1>11. /\ request'[w].op = "idle"
       /\ \A v \in Workers \ {w} : request'[v] = request[v]
  BY <1>1, <1>2, FinishIdle
<1>12. SeenInv'
  BY <1>2, <1>6, <1>7, <1>9, <1>10, <1>11, SeenEntries
<1>13. PostsAreOpen
  <2>1. w \in CheckedDates
    BY <1>2 DEF CheckedDates, Running
  <2>2. \A f \in Entries \ {r} : Posted(f)' => Posted(f)
    BY <1>4, <1>6 DEF Posted
  <2> QED
    BY <1>1, <1>8, <1>11, <2>1, <2>2, PostedOpen
<1> QED
  BY <1>12, <1>13

-----------------------------------------------------------------------------
(* Fiscal periods, with what was read. *)

\* Reading the periods: nothing is unseen yet.
LEMMA PeriodReadSeen ==
  ASSUME IInv, SeenInv, NEW w \in Workers, NEW p \in Periods,
         \/ \E from, to \in Days : \/ CreatePeriodRead(w, p, from, to)
                                   \/ UpdatePeriodRead(w, p, from, to)
         \/ ReopenRead(w, p)
  PROVE  SeenInv' /\ PostsAreOpen
<1>1. TypeOK
  BY DEF IInv
<1>2. ASSUME NEW from \in Days, NEW to \in Days,
             CreatePeriodRead(w, p, from, to) \/ UpdatePeriodRead(w, p, from, to)
      PROVE  SeenInv' /\ PostsAreOpen
  <2>1. PICK op \in {"createPeriod", "updatePeriod"} :
          Begin(w, [op |-> op, period |-> p, startsOn |-> from, endsOn |-> to])
    BY <1>2 DEF CreatePeriodRead, UpdatePeriodRead
  <2> DEFINE r == [op |-> op, period |-> p, startsOn |-> from, endsOn |-> to]
  <2>2. /\ request'[w] = r /\ UNCHANGED <<entry, period, unseen, raced>>
        /\ \A v \in Workers \ {w} : request'[v] = request[v]
    BY <1>1, <2>1, BeginRequest
  <2>3. NoOverlap(p, from, to)
    BY <1>2 DEF CreatePeriodRead, UpdatePeriodRead
  <2>4. EntryHolds(w)'
    BY <2>2 DEF EntryHolds
  <2>5. PeriodsHold(w)'
    <3>1. request'[w].op # "reopen" /\ w \notin CheckedDates'
      BY <2>2 DEF CheckedDates
    <3>2. /\ request'[w].period = p /\ request'[w].startsOn = from
          /\ request'[w].endsOn = to
      BY <2>2
    <3>3. NoOverlap(request[w].period, request[w].startsOn, request[w].endsOn)'
      BY <2>2, <2>3, <3>2 DEF NoOverlap
    <3> QED
      BY <3>1, <3>3 DEF PeriodsHold
  <2> QED
    BY <2>2, <2>4, <2>5, SeenRead
<1>3. CASE ReopenRead(w, p)
  <2> DEFINE r == [op |-> "reopen", period |-> p]
  <2>1. /\ request'[w] = r /\ UNCHANGED <<entry, period, unseen, raced>>
        /\ \A v \in Workers \ {w} : request'[v] = request[v]
    BY <1>1, <1>3, BeginRequest DEF ReopenRead
  <2>2. EntryHolds(w)'
    BY <2>1 DEF EntryHolds
  <2>3. PeriodsHold(w)'
    BY <1>3, <2>1 DEF PeriodsHold, ComparedDates, CheckedDates, ReopenRead, Reopenable
  <2> QED
    BY <2>1, <2>2, <2>3, SeenRead
<1> QED
  BY <1>2, <1>3

\* A period that gets dates apart from all others stays apart from them, or
\* has raced.
LEMMA DisjointStays ==
  ASSUME PeriodsDisjoint, NEW p \in Periods, NEW from \in Days, NEW to \in Days,
         p \notin raced' => NoOverlap(p, from, to),
         \A q \in Periods \ {p} : /\ period'[q] = period[q]
                                  /\ q \in raced' <=> q \in raced,
         period'[p].startsOn = from, period'[p].endsOn = to
  PROVE  PeriodsDisjoint'
<1> SUFFICES ASSUME NEW q \in Periods \ raced', NEW s \in Periods \ raced', q # s,
                    period'[q].status # "NONE", period'[s].status # "NONE"
             PROVE  \/ period'[q].endsOn < period'[s].startsOn
                    \/ period'[s].endsOn < period'[q].startsOn
  BY DEF PeriodsDisjoint
<1>1. CASE q # p /\ s # p
  BY <1>1 DEF PeriodsDisjoint
<1>2. CASE q = p
  BY <1>2 DEF NoOverlap
<1>3. CASE s = p
  BY <1>3 DEF NoOverlap
<1> QED
  BY <1>1, <1>2, <1>3

\* A period is given dates apart from the others, or has raced.
LEMMA PeriodDatesSeen ==
  ASSUME IInv, SeenInv, NEW w \in Workers,
         CreatePeriodCommit(w) \/ UpdatePeriodCommit(w)
  PROVE  SeenInv' /\ PostsAreOpen
<1>1. TypeOK /\ PeriodsDisjoint /\ PeriodsHold(w)
  BY DEF IInv, SeenInv
<1>2. Finish(w) /\ UNCHANGED entry
  BY DEF CreatePeriodCommit, UpdatePeriodCommit
<1>3. Running(w, "createPeriod") \/ Running(w, "updatePeriod")
  BY DEF CreatePeriodCommit, UpdatePeriodCommit
<1>4. PICK p \in Periods, from \in Days, to \in Days :
        /\ p = request[w].period
        /\ from = request[w].startsOn /\ to = request[w].endsOn
  BY <1>1, <1>3, RequestTypes
<1>5. /\ Written(p, "periods" \in unseen[w])
      /\ PeriodsWritten(w, ComparedDates \cup CheckedDates)
  BY <1>4 DEF CreatePeriodCommit, UpdatePeriodCommit
<1>6. "periods" \notin unseen[w] => NoOverlap(p, from, to)
  BY <1>1, <1>3, <1>4 DEF PeriodsHold, ComparedDates, Running
<1>7. /\ \A q \in Periods \ {p} : period'[q] = period[q]
      /\ period'[p].startsOn = from /\ period'[p].endsOn = to
      /\ period[p].status # "NONE" => period'[p].status # "NONE"
  <2>1. CASE CreatePeriodCommit(w)
    BY <1>1, <1>4, <2>1 DEF CreatePeriodCommit, TypeOK
  <2>2. CASE UpdatePeriodCommit(w)
    BY <1>1, <1>4, <2>2 DEF UpdatePeriodCommit, TypeOK, Period
  <2> QED
    BY <2>1, <2>2
<1>8. PeriodsDisjoint'
  <2>1. p \notin raced' => NoOverlap(p, from, to)
    BY <1>5, <1>6, OtherRowsRaced
  <2>2. \A q \in Periods \ {p} : q \in raced' <=> q \in raced
    BY <1>5, OtherRowsRaced
  <2> QED
    BY <1>1, <1>7, <2>1, <2>2, DisjointStays
<1>9. \A e \in Entries : e \in raced' <=> e \in raced
  BY <1>5, OtherRowsRaced
<1>10. /\ request'[w].op = "idle"
       /\ \A v \in Workers \ {w} : request'[v] = request[v]
  BY <1>1, <1>2, FinishIdle
<1>11. \A v \in Workers \ {w} :
         /\ unseen[v] \subseteq unseen'[v]
         /\ v \in CheckedDates => "periods" \in unseen'[v]
         /\ v \in ComparedDates => "periods" \in unseen'[v]
  BY <1>1, <1>5, UnseenByOthers
<1> QED
  BY <1>2, <1>7, <1>8, <1>9, <1>10, <1>11, SeenPeriods

\* A status changes: the dates and the periods there are stay.
LEMMA PeriodStatusSeen ==
  ASSUME IInv, SeenInv, NEW w \in Workers, NEW p \in Periods,
         NEW status \in {"OPEN", "CLOSED", "LOCKED"}, period[p].status # "NONE",
         period' = [period EXCEPT ![p].status = status],
         UNCHANGED <<entry, raced>>, PeriodsWritten(w, CheckedDates),
         request'[w].op = "idle",
         \A v \in Workers \ {w} : request'[v] = request[v]
  PROVE  SeenInv' /\ PostsAreOpen
<1>1. TypeOK /\ PeriodsDisjoint
  BY DEF IInv, SeenInv
<1>2. SameDates
  BY <1>1 DEF SameDates, TypeOK, Period
<1>3. PeriodsDisjoint'
  BY <1>1, <1>2, DisjointSame
<1>4. \A v \in Workers \ {w} : /\ unseen[v] \subseteq unseen'[v]
                               /\ v \in CheckedDates => "periods" \in unseen'[v]
  BY <1>1, UnseenByOthers
<1>5. \A q \in Periods : period[q].status # "NONE" => period'[q].status # "NONE"
  BY <1>2 DEF SameDates
<1> QED
  BY <1>2, <1>3, <1>4, <1>5, SeenPeriods

\* Closing, locking and reopening are such changes.
LEMMA PeriodCloseSeen ==
  ASSUME IInv, SeenInv, NEW w \in Workers,
         \/ \E p \in Periods : ClosePeriod(w, p) \/ LockPeriod(w, p)
         \/ ReopenCommit(w)
  PROVE  SeenInv' /\ PostsAreOpen
<1>1. TypeOK
  BY DEF IInv
<1>2. ASSUME NEW p \in Periods, ClosePeriod(w, p) \/ LockPeriod(w, p)
      PROVE  SeenInv' /\ PostsAreOpen
  <2>1. /\ UNCHANGED <<entry, request, raced>> /\ PeriodsWritten(w, CheckedDates)
        /\ period[p].status # "NONE" /\ request[w] = Idle
    BY <1>2 DEF ClosePeriod, LockPeriod
  <2>2. PICK status \in {"OPEN", "CLOSED", "LOCKED"} :
          period' = [period EXCEPT ![p].status = status]
    BY <1>2 DEF ClosePeriod, LockPeriod
  <2>3. request'[w].op = "idle"
    BY <2>1 DEF Idle
  <2> QED
    BY <2>1, <2>2, <2>3, PeriodStatusSeen
<1>3. CASE ReopenCommit(w)
  <2>1. PICK p \in Periods : p = request[w].period
    BY <1>1, <1>3, RequestTypes DEF ReopenCommit
  <2>2. period[p].status # "NONE"
    BY <1>3, <2>1 DEF SeenInv, PeriodsHold, ReopenCommit, Running
  <2>3. /\ period' = [period EXCEPT ![p].status = "OPEN"]
        /\ UNCHANGED <<entry, raced>> /\ PeriodsWritten(w, CheckedDates)
        /\ Finish(w)
    BY <1>3, <2>1 DEF ReopenCommit
  <2>4. /\ request'[w].op = "idle"
        /\ \A v \in Workers \ {w} : request'[v] = request[v]
    BY <1>1, <2>3, FinishIdle
  <2> QED
    BY <2>2, <2>3, <2>4, PeriodStatusSeen
<1> QED
  BY <1>2, <1>3

\* A request that aborts changes no row.
LEMMA AbortSeen ==
  ASSUME IInv, SeenInv, NEW w \in Workers, Abort(w)
  PROVE  SeenInv' /\ PostsAreOpen
<1>1. TypeOK /\ Finish(w) /\ UNCHANGED <<entry, period, raced>>
  BY DEF Abort, IInv
<1>2. /\ request'[w].op = "idle"
      /\ \A v \in Workers \ {w} : request'[v] = request[v]
  BY <1>1, FinishIdle
<1>3. \A v \in Workers \ {w} : unseen[v] \subseteq unseen'[v]
  BY DEF Abort, IInv, TypeOK
<1>4. EntryHolds(w)' /\ PeriodsHold(w)'
  BY <1>2, IdleHolds
<1> QED
  BY <1>1, <1>2, <1>3, <1>4, SeenRead

-----------------------------------------------------------------------------
\* No row and no request is there to begin with.
LEMMA SeenInit == ASSUME Init PROVE SeenInv
<1>1. PeriodsDisjoint
  BY DEF Init, PeriodsDisjoint
<1>2. TotalsMatchLines
  <2>1. \A e \in Entries : entry[e].total = 0 /\ entry[e].lines = NoLines
    BY DEF Init
  <2>2. NoLines.side = 0
    BY DEF NoLines, LinesOf, Magnitude
  <2> QED
    BY <2>1, <2>2 DEF TotalsMatchLines
<1>3. \A w \in Workers : EntryHolds(w) /\ PeriodsHold(w)
  <2>1. \A w \in Workers : request[w].op = "idle"
    BY DEF Init, Idle
  <2> QED
    BY <2>1 DEF EntryHolds, PeriodsHold, ComparedDates, CheckedDates
<1> QED
  BY <1>1, <1>2, <1>3 DEF SeenInv

\* Each step keeps what was read and not written over unseen.
LEMMA SeenStep ==
  ASSUME IInv, SeenInv, [Next]_vars
  PROVE  SeenInv' /\ PostsAreOpen
<1>1. CASE EntryStep
  <2>1. ASSUME NEW w \in Workers, NEW e \in Entries, NEW amount \in Amounts,
               NEW day \in Days, CreateEntry(w, e, amount, day)
        PROVE  SeenInv' /\ PostsAreOpen
    BY <2>1, CreateEntrySeen
  <2>2. ASSUME NEW w \in Workers, NEW e \in Entries,
               \/ \E amount \in Amounts \cup {0}, day \in Days \cup {None} :
                    UpdateEntryRead(w, e, amount, day)
               \/ PostRead(w, e)
               \/ ReverseRead(w, e)
        PROVE  SeenInv' /\ PostsAreOpen
    BY <2>2, EntryReadSeen
  <2>3. ASSUME NEW w \in Workers,
               UpdateEntryCommit(w) \/ CheckPostingDate(w) \/ PostCommit(w)
        PROVE  SeenInv' /\ PostsAreOpen
    BY <2>3, UpdateEntryCommitSeen, CheckPostingDateSeen, PostCommitSeen
  <2>4. ASSUME NEW w \in Workers, NEW r \in Entries, ReverseCommit(w, r)
        PROVE  SeenInv' /\ PostsAreOpen
    BY <2>4, ReverseCommitSeen
  <2> QED
    BY <1>1, <2>1, <2>2, <2>3, <2>4 DEF EntryStep
<1>2. CASE PeriodStep
  <2>1. ASSUME NEW w \in Workers, NEW p \in Periods,
               \/ \E from, to \in Days : \/ CreatePeriodRead(w, p, from, to)
                                         \/ UpdatePeriodRead(w, p, from, to)
               \/ ReopenRead(w, p)
        PROVE  SeenInv' /\ PostsAreOpen
    BY <2>1, PeriodReadSeen
  <2>2. ASSUME NEW w \in Workers,
               \/ \E p \in Periods : ClosePeriod(w, p) \/ LockPeriod(w, p)
               \/ ReopenCommit(w)
        PROVE  SeenInv' /\ PostsAreOpen
    BY <2>2, PeriodCloseSeen
  <2>3. ASSUME NEW w \in Workers, CreatePeriodCommit(w) \/ UpdatePeriodCommit(w)
        PROVE  SeenInv' /\ PostsAreOpen
    BY <2>3, PeriodDatesSeen
  <2> QED
    BY <1>2, <2>1, <2>2, <2>3 DEF PeriodStep
<1>3. ASSUME NEW w \in Workers, Abort(w)
      PROVE  SeenInv' /\ PostsAreOpen
  BY <1>3, AbortSeen
<1>4. CASE UNCHANGED vars
  <2>1. UNCHANGED <<entry, period, request, unseen, raced>> /\ TypeOK
    BY <1>4 DEF vars, IInv
  <2>2. PeriodsDisjoint' /\ TotalsMatchLines'
    BY <2>1, DisjointSame, TotalsSame DEF SeenInv
  <2>3. ASSUME NEW w \in Workers
        PROVE  EntryHolds(w)' /\ PeriodsHold(w)'
    BY <2>1, EntryHoldsStays, PeriodsHoldStay DEF SeenInv
  <2>4. PostsAreOpen
    BY <2>1, NothingPosted DEF Posted
  <2> QED
    BY <2>2, <2>3, <2>4 DEF SeenInv
<1> QED
  BY <1>1, <1>2, <1>3, <1>4 DEF Next

\* Whatever requests interleave, what was read holds until it is written over
\* unseen.
THEOREM SeenInvariance == Spec => []SeenInv
<1>1. IInv /\ SeenInv /\ [Next]_vars => SeenInv'
  BY SeenStep
<1> QED
  BY <1>1, SeenInit, Invariance, PTL DEF Spec

\* Periods that did not race never share a day
\* (FiscalPeriodService.assertNoOverlap).
THEOREM PeriodsStayDisjoint == Spec => []PeriodsDisjoint
<1>1. SeenInv => PeriodsDisjoint
  BY DEF SeenInv
<1> QED
  BY <1>1, SeenInvariance, PTL

\* The header of an entry that did not race carries the totals of its lines
\* (AccountingService.update and post).
THEOREM TotalsStayRight == Spec => []TotalsMatchLines
<1>1. SeenInv => TotalsMatchLines
  BY DEF SeenInv
<1> QED
  BY <1>1, SeenInvariance, PTL

\* Nothing is posted into a closed or locked period but over a date or periods
\* that changed since they were checked, or where periods that raced share the
\* day (FiscalPeriodGuardService).
THEOREM ClosedPeriodsBlock == Spec => ClosedPeriodsBlockPostings
<1>1. IInv /\ SeenInv /\ [Next]_vars =>
        [\A e \in Entries, p \in Periods :
           /\ ~Posted(e) /\ Posted(e)'
           /\ Covers(p, entry'[e].entryDate)
           /\ period[p].status \in {"CLOSED", "LOCKED"}
           => \/ \E w \in Workers : /\ request'[w] # request[w]
                                    /\ unseen[w] \cap {"date", "periods"} # {}
              \/ \E q \in Periods : /\ period[q].status = "OPEN"
                                    /\ Covers(q, entry'[e].entryDate)
                                    /\ {p, q} \cap raced # {}]_vars
  BY SeenStep DEF PostsAreOpen
<1> QED
  BY <1>1, SeenInvariance, Invariance, PTL DEF Spec, ClosedPeriodsBlockPostings
=============================================================================
