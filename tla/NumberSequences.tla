-------------------------- MODULE NumberSequences --------------------------
(***************************************************************************)
(* The number sequence of one scope, the documents numbered from it, and   *)
(* the settings request that edits it.                                     *)
(*                                                                         *)
(* next() increments the row inside the transaction that creates the       *)
(* document: the row stays locked until that transaction commits or rolls  *)
(* back, and nobody else sees the increment before.  update() reads the    *)
(* row, checks its input against what it read, and writes without reading  *)
(* again.                                                                  *)
(*                                                                         *)
(* Every prefix is a common stem and some digits.  A run of digits is its  *)
(* length and its value, so the text of a document number is too.          *)
(*                                                                         *)
(* The specification's own names start with Numbers, so that a module may  *)
(* extend it together with another component's.                            *)
(***************************************************************************)
EXTENDS Integers, FiniteSets

CONSTANTS
    Documents,      \* ids of the rows that carry a number of this scope
    Prefixes,       \* digits the settings may end the prefix with
    Paddings,       \* paddings the settings may name
    NextNumbers,    \* next numbers the settings may name
    DefaultPadding, \* DEFAULT_SEQUENCE_SETTINGS: 6
    MaxNumber,      \* bound: the last number the sequence issues
    Requests,       \* requests the API serves at the same time
    Unset           \* a settings field that is not among the inputs

NoDigits == [length |-> 0, digits |-> 0]

ASSUME PrefixesAreDigits ==
    /\ Prefixes \subseteq [length: Nat, digits: Nat]
    /\ NoDigits \in Prefixes

ASSUME UnsetIsNoInput ==
    Unset \notin Prefixes /\ Unset \notin Paddings /\ Unset \notin NextNumbers

\* Paddings are within cleanPadding's bounds.
ASSUME NumbersArePositive ==
    /\ NextNumbers \subseteq Nat \ {0}
    /\ Paddings \subseteq 3 .. 10 /\ DefaultPadding \in 3 .. 10
    /\ MaxNumber \in Nat

VARIABLES
    sequence,       \* the committed row; nextNumber 0 until next() creates it
    document,       \* the documents and their numbers; number 0: not created
    skipped,        \* history: numbers that settings jumped over
    request         \* what each worker keeps from its reads

numberVars == <<sequence, document, skipped, request>>

Sequence == [prefix: Prefixes, nextNumber: Nat, padding: 3 .. 10]

Text == [length: Nat, digits: Nat]

Document == [number: Nat, text: Text]

NoRequest == [op |-> "idle"]

Request ==
    {NoRequest}
    \cup [op: {"create"}, number: Nat \ {0}]
    \cup [op: {"update"}, prefix: Prefixes \cup {Unset},
          padding: Paddings \cup {Unset}, nextNumber: NextNumbers \cup {Unset}]

NumbersTypeOK ==
    /\ sequence \in Sequence
    /\ document \in [Documents -> Document]
    /\ skipped \subseteq Nat \ {0}
    /\ request \in [Requests -> Request]

NumbersInit ==
    /\ sequence = [prefix |-> NoDigits, nextNumber |-> 0,
                   padding |-> DefaultPadding]
    /\ document = [d \in Documents |-> [number |-> 0, text |-> NoDigits]]
    /\ skipped = {}
    /\ request = [w \in Requests |-> NoRequest]

-----------------------------------------------------------------------------
(* formatSequenceExample. *)

\* The length of String(n): nextNumber is a 32-bit column, ten digits at most.
Width(n) == 1 + Cardinality({k \in 1 .. 9 : 10^k <= n})

Format(prefix, n, padding) ==
    LET width == IF padding > Width(n) THEN padding ELSE Width(n)
    IN  [length |-> prefix.length + width,
         digits |-> prefix.digits * 10^width + n]

TextOf(n) == Format(sequence.prefix, n, sequence.padding)

\* Mutant of Upcoming: a row that does not exist counts from zero.
UpcomingNoDefault == sequence.nextNumber

\* The number next() issues; 1 when there is no row.
Upcoming == IF sequence.nextNumber = 0 THEN 1 ELSE sequence.nextNumber

-----------------------------------------------------------------------------

Running(w, op) == request[w].op = op

Done(w) == request' = [request EXCEPT ![w] = NoRequest]

\* No open transaction has incremented the row.
RowUnlocked == \A w \in Requests : ~Running(w, "create")

\* Mutant of CommittedRow: next() runs outside the document's transaction.
CommittedRowIncremented(n) == [sequence EXCEPT !.nextNumber = n + 1]

\* What others see of the row once next() has issued n.
CommittedRow(n) == sequence

Issue(w) ==
    /\ request[w] = NoRequest
    /\ RowUnlocked
    /\ Upcoming <= MaxNumber
    /\ request' = [request EXCEPT ![w] =
         [op |-> "create", number |-> Upcoming]]
    /\ sequence' = CommittedRow(Upcoming)
    /\ UNCHANGED <<document, skipped>>

\* The increment commits with the document; the unique index on the number
\* makes a duplicate abort.
CreateDocument(w, d) ==
    /\ Running(w, "create")
    /\ document[d].number = 0
    /\ LET n == request[w].number
       IN  /\ \A other \in Documents : document[other].text # TextOf(n)
           /\ document' = [document EXCEPT ![d] =
                [number |-> n, text |-> TextOf(n)]]
           /\ sequence' = [sequence EXCEPT !.nextNumber = n + 1]
    /\ Done(w)
    /\ UNCHANGED skipped

\* cleanNextNumber.
NotLowered(next) == next >= sequence.nextNumber

UpdateRead(w, prefix, padding, next) ==
    /\ request[w] = NoRequest
    /\ sequence.nextNumber # 0
    /\ next # Unset => NotLowered(next)
    /\ request' = [request EXCEPT ![w] =
         [op |-> "update", prefix |-> prefix, padding |-> padding,
          nextNumber |-> next]]
    /\ UNCHANGED <<sequence, document, skipped>>

Given(input, current) == IF input = Unset THEN current ELSE input

UpdateCommit(w) ==
    /\ Running(w, "update")
    /\ RowUnlocked
    /\ LET r == request[w]
           next == Given(r.nextNumber, sequence.nextNumber)
       IN  /\ sequence' = [prefix |-> Given(r.prefix, sequence.prefix),
                           nextNumber |-> next,
                           padding |-> Given(r.padding, sequence.padding)]
           /\ skipped' = skipped \cup sequence.nextNumber..(next - 1)
    /\ Done(w)
    /\ UNCHANGED document

\* A transaction that fails after next() rolls the increment back.
Abort(w) ==
    /\ request[w] # NoRequest
    /\ Done(w)
    /\ UNCHANGED <<sequence, document, skipped>>

NumbersNext ==
    \E w \in Requests :
        \/ Issue(w)
        \/ \E d \in Documents : CreateDocument(w, d)
        \/ \E prefix \in Prefixes \cup {Unset},
              padding \in Paddings \cup {Unset},
              next \in NextNumbers \cup {Unset} :
             UpdateRead(w, prefix, padding, next)
        \/ UpdateCommit(w)
        \/ Abort(w)

NumbersSpec == NumbersInit /\ [][NumbersNext]_numberVars

-----------------------------------------------------------------------------
(* Properties. *)

\* Whatever transactions fail and however settings race them, every number
\* below the next one was given to a document or skipped by a setting
\* (NumberSequenceService.next runs in the caller's transaction).
NoGaps ==
    \A n \in 1..(sequence.nextNumber - 1) :
        n \in skipped \/ \E d \in Documents : document[d].number = n
=============================================================================
