--------------------------- MODULE PayablesProofs ---------------------------
(***************************************************************************)
(* The laws of the payables subledger, for any bills, payments, debit      *)
(* notes, revaluations, rates and requests.                                *)
(*                                                                         *)
(* First what the splits of a request are: the plan of a payment is        *)
(* followed allocation by allocation.  Then that every handler makes one   *)
(* RowChange or none; no later proof looks at a handler again.  The laws   *)
(* of bills, payments and carrying layers are then sums over the splits    *)
(* in force, which a change joins or leaves one split for each bill.       *)
(***************************************************************************)
EXTENDS Payables, TotalsProofs, SequenceTheorems

-----------------------------------------------------------------------------
(* The splits of a request. *)

\* Rounded amounts are natural numbers.
LEMMA RoundType ==
    ASSUME NEW n \in Nat, NEW d \in Nat \ {0}
    PROVE  Round(n, d) \in Nat
<1>1. 2 * n + d \in Nat /\ 2 * d \in Nat \ {0}
  OBVIOUS
<1>2. ASSUME NEW a \in Nat, NEW m \in Nat \ {0} PROVE a \div m \in Nat
  OBVIOUS
<1>3. QED
  BY <1>1, <1>2 DEF Round

\* The conversion of a natural amount is a natural number.
LEMMA ToBaseType ==
    ASSUME NEW amount \in Nat, NEW rate \in Nat
    PROVE  ToBase(amount, rate) \in Nat
<1>1. amount * rate \in Nat
  OBVIOUS
<1>2. QED
  BY <1>1, RoundType, Positive DEF ToBase

-----------------------------------------------------------------------------
(* Splits. *)

\* What a split settles and from which layer; a settlement of all that is due
\* takes the whole of both base residuals.
Settling(b, amount, seen, split) ==
    /\ split \in Split
    /\ split.transaction = amount
    /\ split.line = layer[b].line
    /\ split.line = None => split.document = split.source
    /\ amount = seen.transactionBalanceDue =>
         split.document = Basis(b, seen).carrying /\ split.source = seen.balanceDue

\* A carrying layer is empty or has all its fields.
LEMMA LayerTypes ==
    ASSUME NEW b \in Bills, layer[b] \in Layer
    PROVE  /\ layer[b] = NoLayer <=> layer[b].line = None
           /\ layer[b] # NoLayer =>
                /\ layer[b] \in [line: Runs, open: Nat, source: Nat, carrying: Nat, rate: Nat]
                /\ layer[b].line \in Runs /\ layer[b].line # None
           /\ layer[b].line \in Runs \cup {None}
<1>1. NoLayer.line = None
  BY DEF NoLayer
<1>2. None \notin Runs
  BY NoneIsNoRow
<1>3. QED
  BY <1>1, <1>2 DEF Layer

\* The carrying basis of a bill: its layer's amount, or its balance when it has none.
LEMMA BasisTypes ==
    ASSUME NEW b \in Bills, layer[b] \in Layer, NEW seen \in Bill
    PROVE  /\ Basis(b, seen).line = layer[b].line /\ Basis(b, seen).carrying \in Nat
           /\ layer[b] = NoLayer => Basis(b, seen).carrying = seen.balanceDue
           /\ layer[b] # NoLayer => Basis(b, seen).carrying = layer[b].carrying
<1>1. CASE layer[b] = NoLayer
  BY <1>1, LayerTypes DEF Basis, Bill
<1>2. CASE layer[b] # NoLayer
  BY <1>2, LayerTypes DEF Basis
<1>3. QED
  BY <1>1, <1>2

\* A split of an amount within the balance seen is typed and settles that amount.
LEMMA SplitTypes ==
    ASSUME NEW b \in Bills, layer[b] \in Layer, NEW seen \in Bill, NEW rate \in Nat,
           NEW amount \in Nat, amount > 0, amount <= seen.transactionBalanceDue,
           NEW transactionOpen \in Int, NEW baseOpen \in Nat,
           NEW split, split = SplitOf(b, amount, seen, rate, transactionOpen, baseOpen)
    PROVE  /\ Settling(b, amount, seen, split)
           /\ split.settlement <= baseOpen
           /\ amount = transactionOpen => split.settlement = baseOpen
<1> DEFINE basis == Basis(b, seen)
           document == BaseShare(amount, basis.carrying, basis, seen)
           source == BaseShare(amount, seen.balanceDue, basis, seen)
           settlement == SettlementShare(amount, rate, transactionOpen, baseOpen)
<1>1. /\ seen.balanceDue \in Nat /\ seen.transactionBalanceDue \in Nat \ {0}
      /\ seen.rate \in Nat /\ basis.carrying \in Nat /\ basis.line = layer[b].line
      /\ layer[b].line \in Runs \cup {None}
  BY BasisTypes, LayerTypes DEF Bill
<1>2. ASSUME NEW residual \in Nat PROVE BaseShare(amount, residual, basis, seen) \in Nat
  <2>1. amount * residual \in Nat
    OBVIOUS
  <2> HIDE DEF basis
  <2>2. QED
    BY <1>1, <2>1, RoundType, ToBaseType DEF BaseShare
<1>3. split = [transaction |-> amount, document |-> document, source |-> source,
               settlement |-> settlement, line |-> basis.line]
  BY DEF SplitOf
<1>4. /\ settlement \in Nat /\ settlement <= baseOpen
      /\ amount = transactionOpen => settlement = baseOpen
  <2>1. ToBase(amount, rate) \in Nat
    BY ToBaseType
  <2>2. QED
    BY <2>1 DEF SettlementShare
<1>5. document \in Nat /\ source \in Nat
  BY <1>1, <1>2
<1>6. amount = seen.transactionBalanceDue => document = basis.carrying /\ source = seen.balanceDue
  BY DEF BaseShare
<1>7. basis.line = None => document = source
  BY LayerTypes, BasisTypes DEF BaseShare
<1>8. split \in Split
  <2> HIDE DEF document, source, settlement, basis
  <2>1. QED
    BY <1>1, <1>3, <1>4, <1>5 DEF Split
<1> HIDE DEF document, source, settlement
<1>9. QED
  BY <1>1, <1>3, <1>4, <1>6, <1>7, <1>8 DEF Settling

-----------------------------------------------------------------------------
(* Plans. *)

TransactionsOf(splits) == [b \in Bills |-> splits[b].transaction]
SettlementsOf(splits) == [b \in Bills |-> splits[b].settlement]
DocumentsOf(splits) == [b \in Bills |-> splits[b].document]

Left == [transaction: Int, base: Nat, splits: [Bills -> Split]]

\* A request to pay: what the read of create() refuses otherwise.
Payable(amountPaid, rate, list, seen) ==
    /\ amountPaid \in Nat \ {0} /\ rate \in Nat /\ seen \in [Bills -> Bill]
    /\ list \in Seq([bill: Bills, amount: Nat])
    /\ SumOf(list) <= amountPaid
    /\ \A i, j \in 1 .. Len(list) : list[i].bill = list[j].bill => i = j
    /\ \A i \in 1 .. Len(list) :
         /\ list[i].amount > 0
         /\ list[i].amount <= seen[list[i].bill].transactionBalanceDue

\* The parts of a list of allocations.
LEMMA Listing ==
    ASSUME NEW amountPaid, NEW rate, NEW list, NEW seen, Payable(amountPaid, rate, list, seen)
    PROVE  /\ Len(list) \in Nat /\ DOMAIN list = 1 .. Len(list)
           /\ \A i \in 1 .. Len(list) :
                /\ list[i].bill \in Bills /\ list[i].amount \in Nat /\ list[i].amount > 0
                /\ seen[list[i].bill] \in Bill
                /\ list[i].amount <= seen[list[i].bill].transactionBalanceDue
           /\ \A n \in 0 .. Len(list) :
                /\ IsFiniteSet(1 .. n)
                /\ [i \in 1 .. n |-> list[i].amount] \in [1 .. n -> Nat]
                /\ Total(1 .. n, [i \in 1 .. n |-> list[i].amount]) \in Nat
           /\ SumOf(list) = Total(1 .. Len(list), [i \in 1 .. Len(list) |-> list[i].amount])
<1>1. /\ Len(list) \in Nat /\ DOMAIN list = 1 .. Len(list)
      /\ \A i \in 1 .. Len(list) : list[i] \in [bill: Bills, amount: Nat]
  <2> DEFINE Listable == [bill: Bills, amount: Nat]
  <2>1. list \in Seq(Listable)
    BY DEF Payable
  <2> HIDE DEF Listable
  <2>2. /\ Len(list) \in Nat /\ DOMAIN list = 1 .. Len(list)
        /\ \A i \in 1 .. Len(list) : list[i] \in Listable
    BY <2>1
  <2>3. QED
    BY <2>2 DEF Listable
<1>2. ASSUME NEW i \in 1 .. Len(list)
      PROVE  /\ list[i].bill \in Bills /\ list[i].amount \in Nat /\ list[i].amount > 0
             /\ seen[list[i].bill] \in Bill
             /\ list[i].amount <= seen[list[i].bill].transactionBalanceDue
  <2>1. list[i].bill \in Bills /\ list[i].amount \in Nat
    BY <1>1
  <2>2. QED
    BY <2>1 DEF Payable
<1>3. ASSUME NEW n \in 0 .. Len(list)
      PROVE  /\ IsFiniteSet(1 .. n)
             /\ [i \in 1 .. n |-> list[i].amount] \in [1 .. n -> Nat]
             /\ Total(1 .. n, [i \in 1 .. n |-> list[i].amount]) \in Nat
  <2>1. \A i \in 1 .. n : list[i].amount \in Nat
    <3>1. \A i \in 1 .. n : i \in 1 .. Len(list)
      BY <1>1
    <3>2. QED
      BY <1>2, <3>1
  <2>2. IsFiniteSet(1 .. n)
    BY FS_Interval
  <2>3. [i \in 1 .. n |-> list[i].amount] \in [1 .. n -> Nat]
    BY <2>1
  <2>4. QED
    BY <2>2, <2>3, TotalType
<1>4. SumOf(list) = Total(1 .. Len(list), [i \in 1 .. Len(list) |-> list[i].amount])
  BY <1>1 DEF SumOf
<1>5. QED
  BY <1>1, <1>2, <1>3, <1>4

\* What is left after the first n allocations.
Planned(n, left, amountPaid, rate, list, seen) ==
    /\ left \in Left
    /\ amountPaid = left.transaction + Total(Bills, TransactionsOf(left.splits))
    /\ ToBase(amountPaid, rate) = left.base + Total(Bills, SettlementsOf(left.splits))
    /\ amountPaid = left.transaction + Total(1 .. n, [i \in 1 .. n |-> list[i].amount])
    /\ left.transaction = 0 => left.base = 0
    /\ \A b \in Bills : (\A i \in 1 .. n : list[i].bill # b) => left.splits[b] = NoSplit
    /\ \A i \in 1 .. n :
         Settling(list[i].bill, list[i].amount, seen[list[i].bill],
                  left.splits[list[i].bill])

\* The empty split is a split.
LEMMA NoSplitType == NoSplit \in Split
  BY DEF NoSplit, Split

\* The sums of a payment's splits are natural numbers.
LEMMA SplitSums ==
    ASSUME NEW splits \in [Bills -> Split]
    PROVE  /\ TransactionsOf(splits) \in [Bills -> Nat]
           /\ SettlementsOf(splits) \in [Bills -> Nat]
           /\ DocumentsOf(splits) \in [Bills -> Nat]
           /\ Total(Bills, TransactionsOf(splits)) \in Nat
           /\ Total(Bills, SettlementsOf(splits)) \in Nat
           /\ Total(Bills, DocumentsOf(splits)) \in Nat
<1>1. /\ TransactionsOf(splits) \in [Bills -> Nat]
      /\ SettlementsOf(splits) \in [Bills -> Nat]
      /\ DocumentsOf(splits) \in [Bills -> Nat]
  BY DEF TransactionsOf, SettlementsOf, DocumentsOf, Split
<1>2. QED
  BY <1>1, TotalType, FiniteRows

\* The plan starts with nothing allocated.
LEMMA PlannedFirst ==
    ASSUME NEW amountPaid, NEW rate, NEW list, NEW seen, Payable(amountPaid, rate, list, seen),
           NEW left, left = [transaction |-> amountPaid, base |-> ToBase(amountPaid, rate),
                             splits |-> [b \in Bills |-> NoSplit]]
    PROVE  Planned(0, left, amountPaid, rate, list, seen)
<1> DEFINE none == [b \in Bills |-> NoSplit]
<1>1. amountPaid \in Nat \ {0} /\ ToBase(amountPaid, rate) \in Nat
  BY ToBaseType DEF Payable
<1>2. none \in [Bills -> Split]
  BY NoSplitType
<1>3. /\ \A b \in Bills : TransactionsOf(none)[b] = 0
      /\ \A b \in Bills : SettlementsOf(none)[b] = 0
  BY DEF TransactionsOf, SettlementsOf, NoSplit
<1>4. Total(Bills, TransactionsOf(none)) = 0 /\ Total(Bills, SettlementsOf(none)) = 0
  <2> HIDE DEF none
  <2>1. QED
    BY <1>2, <1>3, SplitSums, TotalZero
<1>5. Total(1 .. 0, [i \in 1 .. 0 |-> list[i].amount]) = 0
  <2>1. [i \in 1 .. 0 |-> list[i].amount] \in [1 .. 0 -> Nat]
    OBVIOUS
  <2>2. \A i \in 1 .. 0 : [k \in 1 .. 0 |-> list[k].amount][i] = 0
    OBVIOUS
  <2>3. QED
    BY <2>1, <2>2, TotalZero
<1>6. left.transaction = amountPaid /\ left.base = ToBase(amountPaid, rate) /\ left.splits = none
  OBVIOUS
<1>7. left \in Left
  BY <1>1, <1>2 DEF Left
<1>8. \A b \in Bills : none[b] = NoSplit
  OBVIOUS
<1> HIDE DEF none
<1>9. \A i \in 1 .. 0 : FALSE
  OBVIOUS
<1>10. /\ amountPaid = left.transaction + Total(Bills, TransactionsOf(left.splits))
       /\ ToBase(amountPaid, rate) = left.base + Total(Bills, SettlementsOf(left.splits))
       /\ amountPaid = left.transaction + Total(1 .. 0, [i \in 1 .. 0 |-> list[i].amount])
  BY <1>1, <1>4, <1>5, <1>6
<1>11. left.transaction # 0
  BY <1>1, <1>6
<1>12. QED
  BY <1>6, <1>7, <1>8, <1>9, <1>10, <1>11 DEF Planned

\* One more allocation keeps the plan's account of what is left.
LEMMA PlannedNext ==
    ASSUME NEW amountPaid, NEW rate, NEW list, NEW seen, Payable(amountPaid, rate, list, seen),
           layer \in [Bills -> Layer],
           NEW n \in Nat, n + 1 <= Len(list), NEW left,
           Planned(n, left, amountPaid, rate, list, seen),
           NEW next, next = PlanOne(left, list[n + 1], seen, rate)
    PROVE  Planned(n + 1, next, amountPaid, rate, list, seen)
<1> DEFINE a == list[n + 1]
           c == a.bill
           split == SplitOf(c, a.amount, seen[c], rate, left.transaction, left.base)
           splits == [left.splits EXCEPT ![c] = split]
<1>1. /\ n + 1 \in 1 .. Len(list)
      /\ a.amount \in Nat /\ c \in Bills /\ a.amount > 0
      /\ a.amount <= seen[c].transactionBalanceDue /\ rate \in Nat /\ seen[c] \in Bill
      /\ \A i \in 1 .. n : i \in 1 .. Len(list)
  <2>1. n + 1 \in 1 .. Len(list) /\ \A i \in 1 .. n : i \in 1 .. Len(list)
    BY Listing
  <2>2. rate \in Nat
    BY DEF Payable
  <2>3. QED
    BY <2>1, <2>2, Listing
<1>2. left.transaction \in Int /\ left.base \in Nat /\ left.splits \in [Bills -> Split]
  BY DEF Planned, Left
<1>3. /\ next.transaction = left.transaction - split.transaction
      /\ next.base = left.base - split.settlement
      /\ next.splits = splits
      /\ next = [transaction |-> next.transaction, base |-> next.base, splits |-> next.splits]
  BY DEF PlanOne
<1> HIDE DEF a, c
<1>4. /\ Settling(c, a.amount, seen[c], split) /\ split.settlement <= left.base
      /\ a.amount = left.transaction => split.settlement = left.base
  BY <1>1, <1>2, SplitTypes
<1> HIDE DEF split
<1>5. split \in Split /\ split.transaction = a.amount /\ split.settlement \in Nat
  BY <1>4 DEF Settling, Split
<1>6. /\ splits \in [Bills -> Split] /\ splits[c] = split
      /\ \A b \in Bills \ {c} : splits[b] = left.splits[b]
  BY <1>1, <1>2, <1>5
<1>7. left.splits[c] = NoSplit
  <2>1. \A i \in 1 .. n : list[i].bill # c
    <3> SUFFICES ASSUME NEW i \in 1 .. n, list[i].bill = c PROVE FALSE
      OBVIOUS
    <3>1. i \in 1 .. Len(list) /\ i # n + 1
      BY <1>1
    <3>2. QED
      BY <1>1, <3>1 DEF Payable, a, c
  <2>2. QED
    BY <1>1, <2>1 DEF Planned
<1> HIDE DEF splits
<1>8. Total(Bills, TransactionsOf(splits)) = Total(Bills, TransactionsOf(left.splits)) + a.amount
  <2>1. \A b \in Bills \ {c} : TransactionsOf(splits)[b] = TransactionsOf(left.splits)[b]
    BY <1>6 DEF TransactionsOf
  <2>2. TransactionsOf(left.splits)[c] = 0 /\ TransactionsOf(splits)[c] = a.amount
    BY <1>1, <1>5, <1>6, <1>7 DEF TransactionsOf, NoSplit
  <2>3. /\ TransactionsOf(splits) \in [Bills -> Nat] /\ TransactionsOf(left.splits) \in [Bills -> Nat]
        /\ Total(Bills, TransactionsOf(left.splits)) \in Nat
    BY <1>2, <1>6, SplitSums
  <2>4. Total(Bills, TransactionsOf(splits)) = Total(Bills, TransactionsOf(left.splits))
          - TransactionsOf(left.splits)[c] + TransactionsOf(splits)[c]
    <3>1. PICK f \in [Bills -> Nat] : f = TransactionsOf(left.splits)
      BY <2>3
    <3>2. PICK g \in [Bills -> Nat] : g = TransactionsOf(splits)
      BY <2>3
    <3>3. c \in Bills /\ \A b \in Bills \ {c} : f[b] = g[b]
      BY <1>1, <2>1, <3>1, <3>2
    <3>4. Total(Bills, g) = Total(Bills, f) - f[c] + g[c]
      BY <3>3, TotalUpdate, FiniteRows
    <3>5. QED
      BY <3>1, <3>2, <3>4
  <2>5. QED
    BY <1>1, <2>2, <2>3, <2>4
<1>9. Total(Bills, SettlementsOf(splits)) = Total(Bills, SettlementsOf(left.splits)) + split.settlement
  <2>1. \A b \in Bills \ {c} : SettlementsOf(splits)[b] = SettlementsOf(left.splits)[b]
    BY <1>6 DEF SettlementsOf
  <2>2. SettlementsOf(left.splits)[c] = 0 /\ SettlementsOf(splits)[c] = split.settlement
    BY <1>1, <1>5, <1>6, <1>7 DEF SettlementsOf, NoSplit
  <2>3. /\ SettlementsOf(splits) \in [Bills -> Nat] /\ SettlementsOf(left.splits) \in [Bills -> Nat]
        /\ Total(Bills, SettlementsOf(left.splits)) \in Nat
    BY <1>2, <1>6, SplitSums
  <2>4. Total(Bills, SettlementsOf(splits)) = Total(Bills, SettlementsOf(left.splits))
          - SettlementsOf(left.splits)[c] + SettlementsOf(splits)[c]
    <3>1. PICK f \in [Bills -> Nat] : f = SettlementsOf(left.splits)
      BY <2>3
    <3>2. PICK g \in [Bills -> Nat] : g = SettlementsOf(splits)
      BY <2>3
    <3>3. c \in Bills /\ \A b \in Bills \ {c} : f[b] = g[b]
      BY <1>1, <2>1, <3>1, <3>2
    <3>4. Total(Bills, g) = Total(Bills, f) - f[c] + g[c]
      BY <3>3, TotalUpdate, FiniteRows
    <3>5. QED
      BY <3>1, <3>2, <3>4
  <2>5. QED
    BY <1>5, <2>2, <2>3, <2>4
<1>10. Total(1 .. (n + 1), [i \in 1 .. (n + 1) |-> list[i].amount])
         = Total(1 .. n, [i \in 1 .. n |-> list[i].amount]) + a.amount
  <2> DEFINE f == [i \in 1 .. (n + 1) |-> list[i].amount]
             g == [i \in 1 .. n |-> list[i].amount]
             R == (1 .. (n + 1)) \ {n + 1}
             h == [i \in R |-> f[i]]
  <2>1. n + 1 \in 0 .. Len(list)
    BY <1>1
  <2>2. f \in [1 .. (n + 1) -> Nat] /\ IsFiniteSet(1 .. (n + 1))
    BY <2>1, Listing
  <2>3. n + 1 \in 1 .. (n + 1) /\ f[n + 1] = a.amount
    BY DEF a
  <2>4. R = 1 .. n
    OBVIOUS
  <2>5. h = g
    BY <2>4
  <2> HIDE DEF f, g
  <2>6. Total(1 .. (n + 1), f) = Total(R, h) + f[n + 1]
    BY <2>2, <2>3, TotalSplit
  <2> HIDE DEF R, h
  <2>7. Total(1 .. (n + 1), f) = Total(1 .. n, g) + a.amount
    BY <2>3, <2>4, <2>5, <2>6, Zenon
  <2>8. QED
    BY <2>7 DEF f, g
<1>11. next \in Left
  <2>1. next.transaction \in Int /\ next.base \in Nat
    BY <1>1, <1>2, <1>3, <1>4, <1>5
  <2>2. next.splits \in [Bills -> Split]
    BY <1>3, <1>6
  <2>3. QED
    BY <1>3, <2>1, <2>2 DEF Left
<1>12. /\ amountPaid = next.transaction + Total(Bills, TransactionsOf(next.splits))
       /\ ToBase(amountPaid, rate) = next.base + Total(Bills, SettlementsOf(next.splits))
       /\ amountPaid = next.transaction
            + Total(1 .. (n + 1), [i \in 1 .. (n + 1) |-> list[i].amount])
  <2>1. /\ Total(Bills, TransactionsOf(left.splits)) \in Nat
        /\ Total(Bills, SettlementsOf(left.splits)) \in Nat
    BY <1>2, SplitSums
  <2>2. n \in 0 .. Len(list)
    BY <1>1
  <2>3. Total(1 .. n, [i \in 1 .. n |-> list[i].amount]) \in Nat
    BY <2>2, Listing
  <2>4. /\ amountPaid = left.transaction + Total(Bills, TransactionsOf(left.splits))
        /\ ToBase(amountPaid, rate) = left.base + Total(Bills, SettlementsOf(left.splits))
        /\ amountPaid = left.transaction + Total(1 .. n, [i \in 1 .. n |-> list[i].amount])
    BY DEF Planned
  <2>5. amountPaid = next.transaction + Total(Bills, TransactionsOf(next.splits))
    BY <1>1, <1>2, <1>3, <1>5, <1>8, <2>1, <2>4
  <2>6. ToBase(amountPaid, rate) = next.base + Total(Bills, SettlementsOf(next.splits))
    BY <1>1, <1>2, <1>3, <1>5, <1>9, <2>1, <2>4
  <2>7. amountPaid = next.transaction
          + Total(1 .. (n + 1), [i \in 1 .. (n + 1) |-> list[i].amount])
    BY <1>1, <1>2, <1>3, <1>5, <1>10, <2>3, <2>4
  <2>8. QED
    BY <2>5, <2>6, <2>7
<1>13. next.transaction = 0 => next.base = 0
  BY <1>1, <1>2, <1>3, <1>4, <1>5
<1>14. ASSUME NEW b \in Bills, \A i \in 1 .. (n + 1) : list[i].bill # b
       PROVE  next.splits[b] = NoSplit
  <2>1. b # c
    BY <1>14 DEF a, c
  <2>2. \A i \in 1 .. n : list[i].bill # b
    BY <1>14
  <2>3. QED
    BY <1>3, <1>6, <2>1, <2>2 DEF Planned
<1>15. ASSUME NEW i \in 1 .. (n + 1)
       PROVE  Settling(list[i].bill, list[i].amount, seen[list[i].bill],
                       next.splits[list[i].bill])
  <2>1. CASE i = n + 1
    BY <1>3, <1>4, <1>6, <2>1 DEF a, c
  <2>2. CASE i # n + 1
    <3>1. i \in 1 .. n /\ i \in 1 .. Len(list)
      BY <1>1, <2>2
    <3>2. list[i].bill # c /\ list[i].bill \in Bills
      <4>1. list[i].bill = list[n + 1].bill => i = n + 1
        BY <1>1, <3>1 DEF Payable
      <4>2. QED
        BY <2>2, <3>1, <4>1, Listing DEF a, c
    <3>3. next.splits[list[i].bill] = left.splits[list[i].bill]
      BY <1>3, <1>6, <3>2
    <3>4. QED
      BY <3>1, <3>3 DEF Planned
  <2>3. QED
    BY <2>1, <2>2
<1>16. QED
  BY <1>11, <1>12, <1>13, <1>14, <1>15 DEF Planned

\* The plan of a request takes each of its allocations in turn.
LEMMA PlanLaws ==
    ASSUME NEW amountPaid, NEW rate, NEW list, NEW seen, Payable(amountPaid, rate, list, seen),
           layer \in [Bills -> Layer],
           NEW plan, plan = Plan(amountPaid, rate, list, seen)
    PROVE  Planned(Len(list), plan, amountPaid, rate, list, seen)
<1> DEFINE start == [transaction |-> amountPaid, base |-> ToBase(amountPaid, rate),
                     splits |-> [b \in Bills |-> NoSplit]]
           step == [n \in 1 .. Len(list) |-> [y \in Left |-> PlanOne(y, list[n], seen, rate)]]
           Up(f, n) == IF n = 0 THEN start ELSE PlanOne(f[n - 1], list[n], seen, rate)
           IsUp(f) == f = [n \in 0 .. Len(list) |-> Up(f, n)]
           u == CHOOSE f : IsUp(f)
           T == {n \in Nat : n <= Len(list) => Planned(n, u[n], amountPaid, rate, list, seen)}
<1>1. /\ Len(list) \in Nat
      /\ \A n \in 1 .. Len(list) :
           /\ list[n].bill \in Bills /\ list[n].amount \in Nat /\ list[n].amount > 0
           /\ seen[list[n].bill] \in Bill
           /\ list[n].amount <= seen[list[n].bill].transactionBalanceDue
      /\ rate \in Nat
  BY Listing DEF Payable
<1>2. Planned(0, start, amountPaid, rate, list, seen)
  BY PlannedFirst
<1>3. start \in Left
  <2> HIDE DEF start
  <2>1. QED
    BY <1>2 DEF Planned
<1>4. ASSUME NEW n \in 1 .. Len(list), NEW y \in Left
      PROVE  PlanOne(y, list[n], seen, rate) \in Left
  <2> DEFINE c == list[n].bill
             amount == list[n].amount
             split == SplitOf(c, amount, seen[c], rate, y.transaction, y.base)
  <2>1. y.transaction \in Int /\ y.base \in Nat /\ y.splits \in [Bills -> Split]
    BY DEF Left
  <2>2. Settling(c, amount, seen[c], split) /\ split.settlement <= y.base
    BY <1>1, <2>1, SplitTypes
  <2>3. PlanOne(y, list[n], seen, rate)
          = [transaction |-> y.transaction - split.transaction,
             base |-> y.base - split.settlement,
             splits |-> [y.splits EXCEPT ![c] = split]]
    BY DEF PlanOne
  <2> HIDE DEF split
  <2>4. split \in Split /\ split.transaction \in Nat /\ split.settlement \in Nat
    BY <2>2 DEF Settling, Split
  <2>5. y.transaction - split.transaction \in Int /\ y.base - split.settlement \in Nat
    BY <2>1, <2>2, <2>4
  <2>6. [y.splits EXCEPT ![c] = split] \in [Bills -> Split]
    BY <2>1, <2>4
  <2>7. QED
    BY <2>3, <2>5, <2>6 DEF Left
<1>5. \A n \in 1 .. Len(list) : \A y \in Left :
        step[n][y] \in Left /\ step[n][y] = PlanOne(y, list[n], seen, rate)
  BY <1>4
<1> HIDE DEF start, step
<1>6. PICK f \in [0 .. Len(list) -> Left] :
        f[0] = start /\ \A n \in 1 .. Len(list) : f[n] = step[n][f[n - 1]]
  <2>1. Len(list) \in Nat
    BY <1>1
  <2>2. \A n \in 1 .. Len(list) : \A y \in Left : step[n][y] \in Left
    BY <1>5
  <2>3. Recursive(Left, start, Len(list), step)
    BY <1>3, <2>1, <2>2, Recursion
  <2>4. QED
    BY <2>3, Zenon DEF Recursive
<1>7. IsUp(f)
  <2>1. f[0] = Up(f, 0)
    BY <1>6
  <2>2. ASSUME NEW n \in 1 .. Len(list) PROVE f[n] = Up(f, n)
    <3>1. n # 0 /\ n - 1 \in 0 .. Len(list)
      BY <1>1
    <3>2. f[n - 1] \in Left
      BY <3>1
    <3>3. f[n] = PlanOne(f[n - 1], list[n], seen, rate)
      BY <1>5, <1>6, <3>2
    <3>4. QED
      BY <3>1, <3>3
  <2> HIDE DEF Up
  <2>3. \A n \in 0 .. Len(list) : f[n] = Up(f, n)
    BY <1>1, <2>1, <2>2
  <2>4. QED
    BY <2>3
<1>8. plan = u[Len(list)]
  BY DEF Plan, start
<1>9. IsUp(u)
  <2> HIDE DEF IsUp
  <2>1. QED
    BY <1>7
<1> HIDE DEF u
<1>10. \A n \in 0 .. Len(list) : u[n] = Up(u, n)
  <2> HIDE DEF Up
  <2>1. QED
    BY <1>9
<1>11. 0 \in T
  <2>1. u[0] = start
    BY <1>1, <1>10
  <2>2. QED
    BY <1>2, <2>1
<1>12. ASSUME NEW n \in T PROVE n + 1 \in T
  <2> SUFFICES ASSUME n + 1 <= Len(list)
               PROVE  Planned(n + 1, u[n + 1], amountPaid, rate, list, seen)
    OBVIOUS
  <2>1. n \in Nat /\ Planned(n, u[n], amountPaid, rate, list, seen)
    BY <1>1
  <2>2. n + 1 \in 0 .. Len(list) /\ n + 1 # 0 /\ (n + 1) - 1 = n
    BY <1>1, <2>1
  <2>3. u[n + 1] = Up(u, n + 1)
    <3> HIDE DEF Up
    <3>1. QED
      BY <1>10, <2>2
  <2>4. u[n + 1] = PlanOne(u[n], list[n + 1], seen, rate)
    BY <2>2, <2>3
  <2>5. QED
    BY <2>1, <2>4, PlannedNext
<1>13. T = Nat
  <2> HIDE DEF T
  <2>1. T \subseteq Nat
    BY DEF T
  <2>2. QED
    BY <1>11, <1>12, <2>1, SetInduction
<1>14. QED
  BY <1>1, <1>8, <1>13

\* What the plan of a request settles.
Settled(amountPaid, rate, seen, paid, plan) ==
    /\ plan.transaction \in Nat /\ plan.base \in Nat /\ plan.splits \in [Bills -> Split]
    /\ amountPaid = plan.transaction + Total(Bills, TransactionsOf(plan.splits))
    /\ ToBase(amountPaid, rate) = plan.base + Total(Bills, SettlementsOf(plan.splits))
    /\ plan.transaction = 0 => plan.base = 0
    /\ paid \subseteq Bills
    /\ \A b \in Bills \ paid : plan.splits[b] = NoSplit
    /\ \A b \in paid : /\ plan.splits[b].transaction > 0
                       /\ Settling(b, plan.splits[b].transaction, seen[b], plan.splits[b])

\* The finished plan settles exactly the listed bills and parts the amount paid.
LEMMA PlanParts ==
    ASSUME NEW amountPaid, NEW rate, NEW list, NEW seen, Payable(amountPaid, rate, list, seen),
           layer \in [Bills -> Layer]
    PROVE  Settled(amountPaid, rate, seen, {a.bill : a \in Listed(list)},
                   Plan(amountPaid, rate, list, seen))
<1> DEFINE plan == Plan(amountPaid, rate, list, seen)
           paid == {a.bill : a \in Listed(list)}
<1>0. plan = Plan(amountPaid, rate, list, seen) /\ paid = {a.bill : a \in Listed(list)}
  OBVIOUS
<1> HIDE DEF plan, paid
<1>1. Planned(Len(list), plan, amountPaid, rate, list, seen)
  BY <1>0, PlanLaws
<1>2. /\ Len(list) \in Nat /\ DOMAIN list = 1 .. Len(list)
      /\ \A i \in 1 .. Len(list) : list[i].bill \in Bills /\ list[i].amount > 0
      /\ SumOf(list) = Total(1 .. Len(list), [i \in 1 .. Len(list) |-> list[i].amount])
      /\ Total(1 .. Len(list), [i \in 1 .. Len(list) |-> list[i].amount]) \in Nat
  BY Listing
<1>3. \A b : b \in paid <=> \E i \in 1 .. Len(list) : list[i].bill = b
  BY <1>0, <1>2 DEF Listed, ToSet
<1>4. plan.transaction \in Int /\ plan.base \in Nat /\ plan.splits \in [Bills -> Split]
  BY <1>1 DEF Planned, Left
<1>5. plan.transaction \in Nat
  <2>1. amountPaid \in Nat /\ SumOf(list) <= amountPaid
    BY DEF Payable
  <2>2. amountPaid = plan.transaction
          + Total(1 .. Len(list), [i \in 1 .. Len(list) |-> list[i].amount])
    BY <1>1 DEF Planned
  <2>3. QED
    BY <1>2, <1>4, <2>1, <2>2
<1>6. /\ amountPaid = plan.transaction + Total(Bills, TransactionsOf(plan.splits))
      /\ ToBase(amountPaid, rate) = plan.base + Total(Bills, SettlementsOf(plan.splits))
      /\ plan.transaction = 0 => plan.base = 0
  BY <1>1 DEF Planned
<1>7. ASSUME NEW b \in Bills \ paid PROVE plan.splits[b] = NoSplit
  <2>1. \A i \in 1 .. Len(list) : list[i].bill # b
    BY <1>3
  <2>2. QED
    BY <1>1, <2>1 DEF Planned
<1>8. ASSUME NEW b \in paid
      PROVE  /\ plan.splits[b].transaction > 0
             /\ Settling(b, plan.splits[b].transaction, seen[b], plan.splits[b])
  <2>1. PICK i \in 1 .. Len(list) : list[i].bill = b
    BY <1>3
  <2>2. Settling(b, list[i].amount, seen[b], plan.splits[b])
    BY <1>1, <2>1 DEF Planned
  <2>3. QED
    BY <1>2, <2>1, <2>2 DEF Settling
<1>9. paid \subseteq Bills
  BY <1>2, <1>3
<1>10. Settled(amountPaid, rate, seen, paid, plan)
  BY <1>4, <1>5, <1>6, <1>7, <1>8, <1>9 DEF Settled
<1>11. QED
  BY <1>0, <1>10

-----------------------------------------------------------------------------
(* The types, and what rows and requests have established.                   *)

\* A split in use settles something; without a layer, at the rate of the bill.
Shaped(split) ==
    split = NoSplit \/ (split.transaction > 0
                        /\ (split.line = None => split.document = split.source))

\* What the guards of a Read action leave true until its Commit action.
WellFormed(r) ==
    /\ r.op = "createPayment" => Payable(r.amountPaid, r.rate, r.allocations, r.seen)
    /\ r.op = "applyUnapplied" =>
         r.amount > 0 /\ r.amount <= r.seenBill.transactionBalanceDue

Requests == \A w \in Workers : WellFormed(request[w])

\* Rows in use reference rows, and their splits settle something.
References ==
    /\ \A p \in Payments, b \in Bills : Shaped(payment[p].splits[b])
    /\ \A u \in Allocations : allocation[u].status # "NONE" =>
         /\ allocation[u].payment \in Payments /\ allocation[u].bill \in Bills
         /\ Shaped(allocation[u].split) /\ allocation[u].split # NoSplit
    /\ \A k \in DebitAllocations : debitAllocation[k].status # "NONE" =>
         debitAllocation[k].debitNote \in DebitNotes /\ debitAllocation[k].bill \in Bills

\* A line revalues a bill that is open, the first one from its own base.
LineShaped(line) ==
    line # NoLine =>
      /\ line \in [open: Nat, source: Nat, carrying: Nat, revalued: Nat,
                   prior: Runs \cup {None}]
      /\ line.open > 0
      /\ line.prior = None => line.carrying = line.source

LinesShaped == \A r \in Runs, b \in Bills : LineShaped(run[r].lines[b])

TypeInv == TypeOK /\ Requests /\ References /\ LinesShaped

-----------------------------------------------------------------------------
(* What a settlement does to a bill and its layer.                           *)

\* What a handler has checked when it takes split from bill b.
Claims(b, split) ==
    split = NoSplit
      \/ /\ split.transaction > 0
         /\ split.line = layer[b].line
         /\ split.line = None => split.document = split.source
         /\ Claimable(b, split)
         /\ layer[b] # NoLayer /\ split.transaction = layer[b].open =>
              split.document = layer[b].carrying /\ split.source = layer[b].source

\* What it has checked when it gives split back.
Restores(b, split) == split = NoSplit \/ (Shaped(split) /\ Restorable(b, split))

\* The typed rows, field by field.
LEMMA RowTypes ==
    ASSUME TypeOK
    PROVE  /\ \A b \in Bills :
                /\ bill[b] \in Bill /\ layer[b] \in Layer
                /\ bill[b].status \in {"NONE", "FINALIZED", "VOIDED"}
                /\ bill[b].transactionTotal \in Nat /\ bill[b].total \in Nat
                /\ bill[b].transactionBalanceDue \in Nat /\ bill[b].balanceDue \in Nat
                /\ bill[b].rate \in Nat
           /\ \A p \in Payments :
                /\ payment[p] \in Payment
                /\ payment[p].splits \in [Bills -> Split]
                /\ payment[p].amountPaid \in Nat /\ payment[p].unappliedAmount \in Nat
                /\ payment[p].transactionAmountPaid \in Nat
                /\ payment[p].transactionUnappliedAmount \in Nat
                /\ payment[p].posted \in Nat /\ payment[p].rate \in Nat
           /\ \A u \in Allocations : allocation[u] \in Allocation /\ allocation[u].split \in Split
           /\ \A d \in DebitNotes :
                /\ debitNote[d] \in DebitNote
                /\ debitNote[d].total \in Nat /\ debitNote[d].unappliedAmount \in Nat
           /\ \A k \in DebitAllocations :
                debitAllocation[k] \in DebitAllocation /\ debitAllocation[k].amount \in Nat
           /\ \A r \in Runs :
                /\ run[r] \in Run /\ run[r].lines \in [Bills -> Line]
                /\ run[r].rate \in Nat
           /\ payable \in Int
<1>1. \A b \in Bills :
        /\ bill[b] \in Bill /\ layer[b] \in Layer
        /\ bill[b].status \in {"NONE", "FINALIZED", "VOIDED"}
        /\ bill[b].transactionTotal \in Nat /\ bill[b].total \in Nat
        /\ bill[b].transactionBalanceDue \in Nat /\ bill[b].balanceDue \in Nat
        /\ bill[b].rate \in Nat
  BY DEF TypeOK, Bill
<1>2. \A p \in Payments :
        /\ payment[p] \in Payment
        /\ payment[p].splits \in [Bills -> Split]
        /\ payment[p].amountPaid \in Nat /\ payment[p].unappliedAmount \in Nat
        /\ payment[p].transactionAmountPaid \in Nat
        /\ payment[p].transactionUnappliedAmount \in Nat
        /\ payment[p].posted \in Nat /\ payment[p].rate \in Nat
  BY DEF TypeOK, Payment
<1>3. \A u \in Allocations : allocation[u] \in Allocation /\ allocation[u].split \in Split
  BY DEF TypeOK, Allocation
<1>4. /\ \A d \in DebitNotes :
           /\ debitNote[d] \in DebitNote
           /\ debitNote[d].total \in Nat /\ debitNote[d].unappliedAmount \in Nat
      /\ \A k \in DebitAllocations :
           debitAllocation[k] \in DebitAllocation /\ debitAllocation[k].amount \in Nat
  BY DEF TypeOK, DebitNote, DebitAllocation
<1>5. \A r \in Runs : run[r] \in Run /\ run[r].lines \in [Bills -> Line] /\ run[r].rate \in Nat
  BY DEF TypeOK, Run
<1>6. QED
  BY <1>1, <1>2, <1>3, <1>4, <1>5 DEF TypeOK

\* Changing the amounts of a row.
BillWith(row, due, transactionDue) ==
    [row EXCEPT !.balanceDue = due, !.transactionBalanceDue = transactionDue]

\* What a change of the two balances leaves of a bill.
LEMMA BillRow ==
    ASSUME NEW row \in Bill, NEW due \in Int, NEW transactionDue \in Int, NEW next,
           next = BillWith(row, due, transactionDue)
    PROVE  /\ next.status = row.status /\ next.rate = row.rate /\ next.total = row.total
           /\ next.transactionTotal = row.transactionTotal
           /\ next.balanceDue = due /\ next.transactionBalanceDue = transactionDue
           /\ due >= 0 /\ transactionDue >= 0 => next \in Bill
           /\ due = row.balanceDue /\ transactionDue = row.transactionBalanceDue => next = row
<1> USE DEF BillWith
<1>1. row \in [status: {"NONE", "FINALIZED", "VOIDED"}, date: Nat, rate: Nat,
               transactionTotal: Nat, total: Nat, transactionBalanceDue: Nat,
               balanceDue: Nat]
  BY DEF Bill
<1>2. /\ next.status = row.status /\ next.rate = row.rate /\ next.total = row.total
      /\ next.transactionTotal = row.transactionTotal
      /\ next.balanceDue = due /\ next.transactionBalanceDue = transactionDue
  BY <1>1
<1>3. due >= 0 /\ transactionDue >= 0 => next \in Bill
  <2>1. due >= 0 /\ transactionDue >= 0 => due \in Nat /\ transactionDue \in Nat
    OBVIOUS
  <2>2. QED
    BY <1>1, <2>1 DEF Bill
<1>4. due = row.balanceDue /\ transactionDue = row.transactionBalanceDue => next = row
  BY <1>1
<1>5. QED
  BY <1>2, <1>3, <1>4

LayerRows == [line: Runs, open: Nat, source: Nat, carrying: Nat, rate: Nat]

LayerWith(row, open, source, carrying) ==
    [row EXCEPT !.open = open, !.source = source, !.carrying = carrying]

\* What a change of the three amounts leaves of a layer.
LEMMA LayerRow ==
    ASSUME NEW row \in LayerRows, NEW open \in Nat, NEW source \in Nat, NEW carrying \in Nat,
           NEW next,
           next = LayerWith(row, open, source, carrying)
    PROVE  /\ next \in LayerRows /\ next \in Layer /\ next # NoLayer
           /\ next.line = row.line
           /\ next.open = open /\ next.source = source /\ next.carrying = carrying
<1>1. /\ next \in LayerRows /\ next.line = row.line
      /\ next.open = open /\ next.source = source /\ next.carrying = carrying
  BY DEF LayerRows, LayerWith
<1>2. next # NoLayer
  BY <1>1, NoneIsNoRow DEF NoLayer, LayerRows
<1>3. QED
  BY <1>1, <1>2 DEF Layer, LayerRows

\* Taking and giving back, field by field.
LEMMA TakeFields ==
    ASSUME NEW row \in Bill, NEW split \in Split
    PROVE  /\ Take(row, split).status = row.status /\ Take(row, split).rate = row.rate
           /\ Take(row, split).total = row.total
           /\ Take(row, split).transactionTotal = row.transactionTotal
           /\ Take(row, split).balanceDue = row.balanceDue - split.source
           /\ Take(row, split).transactionBalanceDue = row.transactionBalanceDue - split.transaction
           /\ split.source <= row.balanceDue /\ split.transaction <= row.transactionBalanceDue
                => Take(row, split) \in Bill
           /\ split = NoSplit => Take(row, split) = row
<1>1. /\ row.balanceDue \in Nat /\ row.transactionBalanceDue \in Nat
      /\ split.source \in Nat /\ split.transaction \in Nat
  BY DEF Bill, Split
<1>2. split = NoSplit => split.source = 0 /\ split.transaction = 0
  BY DEF NoSplit
<1>3. Take(row, split) = [row EXCEPT !.balanceDue = row.balanceDue - split.source,
                  !.transactionBalanceDue = row.transactionBalanceDue - split.transaction]
  BY DEF Take
<1> DEFINE due == row.balanceDue - split.source
           transactionDue == row.transactionBalanceDue - split.transaction
<1>4. /\ due \in Int /\ transactionDue \in Int
      /\ split.source <= row.balanceDue /\ split.transaction <= row.transactionBalanceDue
           => due >= 0 /\ transactionDue >= 0
      /\ split = NoSplit => due = row.balanceDue /\ transactionDue = row.transactionBalanceDue
  BY <1>1, <1>2
<1>5. Take(row, split) = BillWith(row, due, transactionDue)
  BY <1>3 DEF BillWith
<1> HIDE DEF due, transactionDue
<1>6. /\ Take(row, split).status = row.status /\ Take(row, split).rate = row.rate
      /\ Take(row, split).total = row.total
      /\ Take(row, split).transactionTotal = row.transactionTotal
      /\ Take(row, split).balanceDue = due
      /\ Take(row, split).transactionBalanceDue = transactionDue
      /\ due >= 0 /\ transactionDue >= 0 => Take(row, split) \in Bill
      /\ due = row.balanceDue /\ transactionDue = row.transactionBalanceDue
           => Take(row, split) = row
  BY <1>4, <1>5, BillRow
<1>7. QED
  BY <1>4, <1>6 DEF due, transactionDue

\* What giving a split back does to a bill.
LEMMA GiveBackFields ==
    ASSUME NEW row \in Bill, NEW split \in Split
    PROVE  /\ GiveBack(row, split) \in Bill
           /\ GiveBack(row, split).status = row.status /\ GiveBack(row, split).rate = row.rate
           /\ GiveBack(row, split).total = row.total
           /\ GiveBack(row, split).transactionTotal = row.transactionTotal
           /\ GiveBack(row, split).balanceDue = row.balanceDue + split.source
           /\ GiveBack(row, split).transactionBalanceDue
                = row.transactionBalanceDue + split.transaction
           /\ split = NoSplit => GiveBack(row, split) = row
<1>1. /\ row.balanceDue \in Nat /\ row.transactionBalanceDue \in Nat
      /\ split.source \in Nat /\ split.transaction \in Nat
  BY DEF Bill, Split
<1>2. split = NoSplit => split.source = 0 /\ split.transaction = 0
  BY DEF NoSplit
<1>3. GiveBack(row, split) = [row EXCEPT !.balanceDue = row.balanceDue + split.source,
                  !.transactionBalanceDue = row.transactionBalanceDue + split.transaction]
  BY DEF GiveBack
<1> DEFINE due == row.balanceDue + split.source
           transactionDue == row.transactionBalanceDue + split.transaction
<1>4. /\ due \in Int /\ transactionDue \in Int /\ due >= 0 /\ transactionDue >= 0
      /\ split = NoSplit => due = row.balanceDue /\ transactionDue = row.transactionBalanceDue
  BY <1>1, <1>2
<1>5. GiveBack(row, split) = BillWith(row, due, transactionDue)
  BY <1>3 DEF BillWith
<1> HIDE DEF due, transactionDue
<1>6. /\ GiveBack(row, split).status = row.status /\ GiveBack(row, split).rate = row.rate
      /\ GiveBack(row, split).total = row.total
      /\ GiveBack(row, split).transactionTotal = row.transactionTotal
      /\ GiveBack(row, split).balanceDue = due
      /\ GiveBack(row, split).transactionBalanceDue = transactionDue
      /\ due >= 0 /\ transactionDue >= 0 => GiveBack(row, split) \in Bill
      /\ due = row.balanceDue /\ transactionDue = row.transactionBalanceDue
           => GiveBack(row, split) = row
  BY <1>4, <1>5, BillRow
<1>7. QED
  BY <1>4, <1>6 DEF due, transactionDue

\* A settlement keeps the layer of its bill typed.
LEMMA LayerTaken ==
    ASSUME TypeOK, NEW b \in Bills, NEW split \in Split, Claims(b, split)
    PROVE  /\ TakeLayer(layer[b], split) \in Layer
           /\ TakeLayer(layer[b], split).line = layer[b].line
           /\ layer[b] = NoLayer <=> TakeLayer(layer[b], split) = NoLayer
           /\ split = NoSplit => TakeLayer(layer[b], split) = layer[b]
           /\ layer[b] # NoLayer =>
                /\ TakeLayer(layer[b], split).open = layer[b].open - split.transaction
                /\ TakeLayer(layer[b], split).source = layer[b].source - split.source
                /\ TakeLayer(layer[b], split).carrying = layer[b].carrying - split.document
<1>1. layer[b] \in Layer /\ split.line \in Runs \cup {None}
  BY RowTypes DEF Split
<1>2. CASE split = NoSplit
  <2>1. TakeLayer(layer[b], split) = layer[b]
    BY <1>2 DEF TakeLayer, NoSplit
  <2>2. split.transaction = 0 /\ split.source = 0 /\ split.document = 0
    BY <1>2 DEF NoSplit
  <2>3. layer[b] # NoLayer => layer[b].open \in Nat /\ layer[b].source \in Nat /\ layer[b].carrying \in Nat
    BY <1>1, LayerTypes
  <2>4. QED
    BY <1>1, <2>1, <2>2, <2>3
<1>3. CASE split # NoSplit /\ layer[b] = NoLayer
  <2>1. split.line = None
    BY <1>1, <1>3, LayerTypes DEF Claims
  <2>2. QED
    BY <1>1, <1>3, <2>1 DEF TakeLayer
<1>4. CASE split # NoSplit /\ layer[b] # NoLayer
  <2>1. /\ layer[b] \in [line: Runs, open: Nat, source: Nat, carrying: Nat, rate: Nat]
        /\ split.line # None /\ layer[b].line # None
    BY <1>1, <1>4, LayerTypes DEF Claims
  <2>2. /\ layer[b].open >= split.transaction /\ layer[b].source >= split.source
        /\ layer[b].carrying >= split.document
    BY <1>4, <2>1 DEF Claims, Claimable
  <2>3. split.transaction \in Nat /\ split.source \in Nat /\ split.document \in Nat
    BY DEF Split
  <2> DEFINE open == layer[b].open - split.transaction
             source == layer[b].source - split.source
             carrying == layer[b].carrying - split.document
  <2>4. open \in Nat /\ source \in Nat /\ carrying \in Nat
    <3>1. layer[b].open \in Nat /\ layer[b].source \in Nat /\ layer[b].carrying \in Nat
      BY <2>1
    <3>2. QED
      BY <3>1, <2>2, <2>3
  <2>5. TakeLayer(layer[b], split) = LayerWith(layer[b], open, source, carrying)
    BY <2>1 DEF TakeLayer, LayerWith
  <2> HIDE DEF open, source, carrying
  <2>6. /\ TakeLayer(layer[b], split) \in Layer /\ TakeLayer(layer[b], split) # NoLayer
        /\ TakeLayer(layer[b], split).line = layer[b].line
        /\ TakeLayer(layer[b], split).open = open
        /\ TakeLayer(layer[b], split).source = source
        /\ TakeLayer(layer[b], split).carrying = carrying
    BY <2>1, <2>4, <2>5, LayerRow DEF LayerRows
  <2>7. QED
    BY <1>4, <2>6 DEF open, source, carrying
<1>5. QED
  BY <1>2, <1>3, <1>4

\* Giving a split back keeps the layer of its bill typed.
LEMMA LayerGivenBack ==
    ASSUME TypeOK, NEW b \in Bills, NEW split \in Split, Restores(b, split)
    PROVE  /\ GiveBackLayer(layer[b], split) \in Layer
           /\ GiveBackLayer(layer[b], split).line = layer[b].line
           /\ layer[b] = NoLayer <=> GiveBackLayer(layer[b], split) = NoLayer
           /\ split = NoSplit => GiveBackLayer(layer[b], split) = layer[b]
           /\ layer[b] # NoLayer =>
                /\ GiveBackLayer(layer[b], split).open = layer[b].open + split.transaction
                /\ GiveBackLayer(layer[b], split).source = layer[b].source + split.source
                /\ GiveBackLayer(layer[b], split).carrying = layer[b].carrying + split.document
<1>1. layer[b] \in Layer /\ split.line \in Runs \cup {None}
  BY RowTypes DEF Split
<1>2. CASE split = NoSplit
  <2>1. GiveBackLayer(layer[b], split) = layer[b]
    BY <1>2 DEF GiveBackLayer, NoSplit
  <2>2. split.transaction = 0 /\ split.source = 0 /\ split.document = 0
    BY <1>2 DEF NoSplit
  <2>3. layer[b] # NoLayer => layer[b].open \in Nat /\ layer[b].source \in Nat /\ layer[b].carrying \in Nat
    BY <1>1, LayerTypes
  <2>4. QED
    BY <1>1, <2>1, <2>2, <2>3
<1>3. CASE split # NoSplit /\ layer[b] = NoLayer
  <2>1. split.line = None
    BY <1>1, <1>3, LayerTypes DEF Restores, Restorable
  <2>2. QED
    BY <1>1, <1>3, <2>1 DEF GiveBackLayer
<1>4. CASE split # NoSplit /\ layer[b] # NoLayer
  <2>1. /\ layer[b] \in [line: Runs, open: Nat, source: Nat, carrying: Nat, rate: Nat]
        /\ split.line # None /\ layer[b].line # None
    BY <1>1, <1>4, LayerTypes DEF Restores, Restorable
  <2>2. split.transaction \in Nat /\ split.source \in Nat /\ split.document \in Nat
    BY DEF Split
  <2> DEFINE open == layer[b].open + split.transaction
             source == layer[b].source + split.source
             carrying == layer[b].carrying + split.document
  <2>3. open \in Nat /\ source \in Nat /\ carrying \in Nat
    <3>1. layer[b].open \in Nat /\ layer[b].source \in Nat /\ layer[b].carrying \in Nat
      BY <2>1
    <3>2. QED
      BY <3>1, <2>2
  <2>4. GiveBackLayer(layer[b], split) = LayerWith(layer[b], open, source, carrying)
    BY <2>1 DEF GiveBackLayer, LayerWith
  <2> HIDE DEF open, source, carrying
  <2>5. /\ GiveBackLayer(layer[b], split) \in Layer /\ GiveBackLayer(layer[b], split) # NoLayer
        /\ GiveBackLayer(layer[b], split).line = layer[b].line
        /\ GiveBackLayer(layer[b], split).open = open
        /\ GiveBackLayer(layer[b], split).source = source
        /\ GiveBackLayer(layer[b], split).carrying = carrying
    BY <2>1, <2>3, <2>4, LayerRow DEF LayerRows
  <2>6. QED
    BY <1>4, <2>5 DEF open, source, carrying
<1>5. QED
  BY <1>2, <1>3, <1>4

-----------------------------------------------------------------------------
(* What a step does to the rows, whichever handler takes it.                 *)

\* Bills are settled by splits, one for each bill.
Settlement(splits) ==
    /\ splits \in [Bills -> Split]
    /\ \A b \in Bills : Claims(b, splits[b])
    /\ bill' = [b \in Bills |-> Take(bill[b], splits[b])]
    /\ layer' = [b \in Bills |-> TakeLayer(layer[b], splits[b])]

\* Bills get back what splits took.
Restoration(splits) ==
    /\ splits \in [Bills -> Split]
    /\ \A b \in Bills : Restores(b, splits[b])
    /\ bill' = [b \in Bills |-> GiveBack(bill[b], splits[b])]
    /\ layer' = [b \in Bills |-> GiveBackLayer(layer[b], splits[b])]

OneSplit(b, split) == [c \in Bills |-> IF c = b THEN split ELSE NoSplit]

\* A settlement lowers each bill by its split and keeps the rest typed.
LEMMA SettlementTypes ==
    ASSUME TypeOK, NEW splits, Settlement(splits)
    PROVE  /\ bill' \in [Bills -> Bill] /\ layer' \in [Bills -> Layer]
           /\ \A b \in Bills :
                /\ bill'[b].status = bill[b].status /\ bill'[b].rate = bill[b].rate
                /\ bill'[b].total = bill[b].total
                /\ bill'[b].transactionTotal = bill[b].transactionTotal
                /\ bill'[b].balanceDue = bill[b].balanceDue - splits[b].source
                /\ bill'[b].transactionBalanceDue
                     = bill[b].transactionBalanceDue - splits[b].transaction
                /\ layer'[b].line = layer[b].line
                /\ layer'[b] = NoLayer <=> layer[b] = NoLayer
                /\ layer[b] # NoLayer =>
                     /\ layer'[b].open = layer[b].open - splits[b].transaction
                     /\ layer'[b].source = layer[b].source - splits[b].source
                     /\ layer'[b].carrying = layer[b].carrying - splits[b].document
                /\ splits[b] = NoSplit => bill'[b] = bill[b] /\ layer'[b] = layer[b]
<1>1. ASSUME NEW b \in Bills
      PROVE  /\ bill'[b] = Take(bill[b], splits[b])
             /\ layer'[b] = TakeLayer(layer[b], splits[b])
             /\ splits[b] \in Split /\ Claims(b, splits[b])
  BY DEF Settlement
<1>2. ASSUME NEW b \in Bills
      PROVE  /\ bill'[b] \in Bill
             /\ bill'[b].status = bill[b].status /\ bill'[b].rate = bill[b].rate
             /\ bill'[b].total = bill[b].total
             /\ bill'[b].transactionTotal = bill[b].transactionTotal
             /\ bill'[b].balanceDue = bill[b].balanceDue - splits[b].source
             /\ bill'[b].transactionBalanceDue
                  = bill[b].transactionBalanceDue - splits[b].transaction
             /\ splits[b] = NoSplit => bill'[b] = bill[b]
  <2>1. bill[b] \in Bill /\ bill[b].balanceDue \in Nat /\ bill[b].transactionBalanceDue \in Nat
    BY RowTypes
  <2>2. splits[b].source <= bill[b].balanceDue
          /\ splits[b].transaction <= bill[b].transactionBalanceDue
    <3>1. splits[b].source \in Nat /\ splits[b].transaction \in Nat
      BY <1>1 DEF Split
    <3>2. CASE splits[b] = NoSplit
      BY <2>1, <3>2 DEF NoSplit
    <3>3. CASE splits[b] # NoSplit
      BY <1>1, <2>1, <3>1, <3>3 DEF Claims, Claimable
    <3>4. QED
      BY <3>2, <3>3
  <2>3. QED
    BY <1>1, <2>1, <2>2, TakeFields
<1>3. ASSUME NEW b \in Bills
      PROVE  /\ layer'[b] \in Layer
             /\ layer'[b].line = layer[b].line
             /\ layer'[b] = NoLayer <=> layer[b] = NoLayer
             /\ layer[b] # NoLayer =>
                  /\ layer'[b].open = layer[b].open - splits[b].transaction
                  /\ layer'[b].source = layer[b].source - splits[b].source
                  /\ layer'[b].carrying = layer[b].carrying - splits[b].document
             /\ splits[b] = NoSplit => layer'[b] = layer[b]
  BY <1>1, LayerTaken
<1>4. bill' \in [Bills -> Bill] /\ layer' \in [Bills -> Layer]
  BY <1>2, <1>3 DEF Settlement
<1>5. QED
  BY <1>2, <1>3, <1>4

\* A restoration raises each bill by its split and keeps the rest typed.
LEMMA RestorationTypes ==
    ASSUME TypeOK, NEW splits, Restoration(splits)
    PROVE  /\ bill' \in [Bills -> Bill] /\ layer' \in [Bills -> Layer]
           /\ \A b \in Bills :
                /\ bill'[b].status = bill[b].status /\ bill'[b].rate = bill[b].rate
                /\ bill'[b].total = bill[b].total
                /\ bill'[b].transactionTotal = bill[b].transactionTotal
                /\ bill'[b].balanceDue = bill[b].balanceDue + splits[b].source
                /\ bill'[b].transactionBalanceDue
                     = bill[b].transactionBalanceDue + splits[b].transaction
                /\ layer'[b].line = layer[b].line
                /\ layer'[b] = NoLayer <=> layer[b] = NoLayer
                /\ layer[b] # NoLayer =>
                     /\ layer'[b].open = layer[b].open + splits[b].transaction
                     /\ layer'[b].source = layer[b].source + splits[b].source
                     /\ layer'[b].carrying = layer[b].carrying + splits[b].document
                /\ splits[b] = NoSplit => bill'[b] = bill[b] /\ layer'[b] = layer[b]
<1>1. ASSUME NEW b \in Bills
      PROVE  /\ bill'[b] = GiveBack(bill[b], splits[b])
             /\ layer'[b] = GiveBackLayer(layer[b], splits[b])
             /\ splits[b] \in Split /\ Restores(b, splits[b])
  BY DEF Restoration
<1>2. ASSUME NEW b \in Bills
      PROVE  /\ bill'[b] \in Bill
             /\ bill'[b].status = bill[b].status /\ bill'[b].rate = bill[b].rate
             /\ bill'[b].total = bill[b].total
             /\ bill'[b].transactionTotal = bill[b].transactionTotal
             /\ bill'[b].balanceDue = bill[b].balanceDue + splits[b].source
             /\ bill'[b].transactionBalanceDue
                  = bill[b].transactionBalanceDue + splits[b].transaction
             /\ splits[b] = NoSplit => bill'[b] = bill[b]
  <2>1. bill[b] \in Bill
    BY RowTypes
  <2>2. QED
    BY <1>1, <2>1, GiveBackFields
<1>3. ASSUME NEW b \in Bills
      PROVE  /\ layer'[b] \in Layer
             /\ layer'[b].line = layer[b].line
             /\ layer'[b] = NoLayer <=> layer[b] = NoLayer
             /\ layer[b] # NoLayer =>
                  /\ layer'[b].open = layer[b].open + splits[b].transaction
                  /\ layer'[b].source = layer[b].source + splits[b].source
                  /\ layer'[b].carrying = layer[b].carrying + splits[b].document
             /\ splits[b] = NoSplit => layer'[b] = layer[b]
  BY <1>1, LayerGivenBack
<1>4. bill' \in [Bills -> Bill] /\ layer' \in [Bills -> Layer]
  BY <1>2, <1>3 DEF Restoration
<1>5. QED
  BY <1>2, <1>3, <1>4

BillFinalized(b, row) ==
    /\ bill[b].status = "NONE"
    /\ row \in Bill /\ row.status = "FINALIZED" /\ row.total > 0
    /\ row.transactionBalanceDue = row.transactionTotal /\ row.balanceDue = row.total
    /\ bill' = [bill EXCEPT ![b] = row]
    /\ payable' = payable + row.total
    /\ UNCHANGED <<payment, allocation, debitNote, debitAllocation, layer, run>>

BillVoided(b, row) ==
    /\ MutationAllowed(b)
    /\ ~HasActiveApplications(b)
    /\ row \in Bill /\ row.status = "VOIDED"
    /\ bill' = [bill EXCEPT ![b] = row]
    /\ payable' = payable - bill[b].total
    /\ UNCHANGED <<payment, allocation, debitNote, debitAllocation, layer, run>>

PaymentCreated(p, row) ==
    /\ payment[p].status = "NONE"
    /\ row \in Payment /\ row.status = "POSTED"
    /\ row.transactionAmountPaid
         = row.transactionUnappliedAmount + Total(Bills, TransactionsOf(row.splits))
    /\ row.amountPaid = row.unappliedAmount + Total(Bills, SettlementsOf(row.splits))
    /\ row.posted = row.unappliedAmount + Total(Bills, DocumentsOf(row.splits))
    /\ payment' = [payment EXCEPT ![p] = row]
    /\ Settlement(row.splits)
    /\ payable' = payable - row.posted
    /\ UNCHANGED <<allocation, debitNote, debitAllocation, run>>

PaymentVoided(p, row) ==
    /\ payment[p].status = "POSTED"
    /\ row \in Payment /\ row = [payment[p] EXCEPT !.status = "VOIDED"]
    /\ payment' = [payment EXCEPT ![p] = row]
    /\ Restoration(payment[p].splits)
    /\ payable' = payable + payment[p].posted
    /\ UNCHANGED <<allocation, debitNote, debitAllocation, run>>

\* The unapplied amounts of a payment change.
Unapplied(row, unapplied, transactionUnapplied) ==
    [row EXCEPT !.unappliedAmount = unapplied,
                !.transactionUnappliedAmount = transactionUnapplied]

AllocationApplied(u, row, p, paid) ==
    /\ allocation[u].status = "NONE"
    /\ row \in Allocation /\ row.status = "ACTIVE"
    /\ row.payment = p /\ p \in Payments /\ row.bill \in Bills /\ row.split # NoSplit
    /\ PaymentClaim(p, row.split)
    /\ paid \in Payment
    /\ paid = Unapplied(payment[p], payment[p].unappliedAmount - row.split.settlement,
                        payment[p].transactionUnappliedAmount - row.split.transaction)
    /\ payment' = [payment EXCEPT ![p] = paid]
    /\ allocation' = [allocation EXCEPT ![u] = row]
    /\ Settlement(OneSplit(row.bill, row.split))
    /\ payable' = payable + row.split.settlement - row.split.document
    /\ UNCHANGED <<debitNote, debitAllocation, run>>

AllocationReversed(u, row, p, paid) ==
    /\ allocation[u].status = "ACTIVE" /\ allocation[u].payment = p /\ p \in Payments
    /\ payment[p].status = "POSTED"
    /\ row \in Allocation /\ row = [allocation[u] EXCEPT !.status = "REVERSED"]
    /\ paid \in Payment
    /\ paid = Unapplied(payment[p], payment[p].unappliedAmount + row.split.settlement,
                        payment[p].transactionUnappliedAmount + row.split.transaction)
    /\ payment' = [payment EXCEPT ![p] = paid]
    /\ allocation' = [allocation EXCEPT ![u] = row]
    /\ Restoration(OneSplit(row.bill, row.split))
    /\ payable' = payable - (row.split.settlement - row.split.document)
    /\ UNCHANGED <<debitNote, debitAllocation, run>>

DebitNoteVoided(d) ==
    /\ debitNote[d].status = "FINALIZED"
    /\ debitNote' = [debitNote EXCEPT ![d].status = "VOIDED"]
    /\ payable' = payable + debitNote[d].total
    /\ UNCHANGED <<bill, payment, allocation, debitAllocation, layer, run>>

BillChange ==
    \E b \in Bills, row \in Bill : BillFinalized(b, row) \/ BillVoided(b, row)

PaymentChange ==
    \E p \in Payments, row \in Payment : PaymentCreated(p, row) \/ PaymentVoided(p, row)

AllocationChange ==
    \E u \in Allocations, row \in Allocation, p \in Payments, paid \in Payment :
      AllocationApplied(u, row, p, paid) \/ AllocationReversed(u, row, p, paid)

DebitChange ==
    \/ \E d \in DebitNotes :
         \/ \E total \in DebitTotals : FinalizeDebitNote(d, total)
         \/ \E k \in DebitAllocations, b \in Bills, amount \in DebitTotals :
              ApplyDebitNote(k, d, b, amount)
         \/ DebitNoteVoided(d)
    \/ \E k \in DebitAllocations : ReverseDebitAllocation(k)

RowChange ==
    \/ BillChange
    \/ PaymentChange
    \/ AllocationChange
    \/ DebitChange
    \/ RevaluationNext
    \/ UNCHANGED rows

-----------------------------------------------------------------------------
(* The handlers: each step changes the rows so and keeps the types.          *)

\* What a running handler kept from its read.
LEMMA RequestTypes ==
    ASSUME TypeInv, NEW w \in Workers
    PROVE  /\ Running(w, "createPayment") =>
                /\ request[w].payment \in Payments
                /\ Payable(request[w].amountPaid, request[w].rate, request[w].allocations,
                           request[w].seen)
           /\ Running(w, "applyUnapplied") =>
                /\ request[w].allocation \in Allocations /\ request[w].payment \in Payments
                /\ request[w].bill \in Bills /\ request[w].amount \in Nat
                /\ request[w].seenBill \in Bill /\ request[w].seenPayment \in Payment
                /\ request[w].amount > 0
                /\ request[w].amount <= request[w].seenBill.transactionBalanceDue
           /\ Running(w, "voidPayment") => request[w].payment \in Payments
           /\ Running(w, "voidDebitNote") => request[w].debitNote \in DebitNotes
<1>1. request[w] \in Request /\ WellFormed(request[w])
  BY DEF TypeInv, TypeOK, Requests
<1>2. Running(w, "createPayment") => request[w].payment \in Payments
  BY <1>1 DEF Request, Idle, Running
<1>3. Running(w, "applyUnapplied") =>
        /\ request[w].allocation \in Allocations /\ request[w].payment \in Payments
        /\ request[w].bill \in Bills /\ request[w].amount \in Nat
        /\ request[w].seenBill \in Bill /\ request[w].seenPayment \in Payment
  BY <1>1 DEF Request, Idle, Running
<1>4. Running(w, "voidPayment") => request[w].payment \in Payments
  BY <1>1 DEF Request, Idle, Running
<1>5. Running(w, "voidDebitNote") => request[w].debitNote \in DebitNotes
  BY <1>1 DEF Request, Idle, Running
<1>6. QED
  BY <1>1, <1>2, <1>3, <1>4, <1>5 DEF WellFormed, Running

\* A Read action keeps the types when the request it begins is well formed.
LEMMA BeginType ==
    ASSUME TypeInv, NEW w \in Workers, NEW r \in Request, WellFormed(r), Begin(w, r)
    PROVE  TypeInv' /\ RowChange
<1>1. UNCHANGED rows /\ request' = [request EXCEPT ![w] = r]
  BY DEF Begin
<1>2. request' \in [Workers -> Request]
  BY <1>1 DEF TypeInv, TypeOK
<1>3. Requests'
  BY <1>1 DEF TypeInv, TypeOK, Requests
<1>4. References' /\ LinesShaped'
  BY <1>1 DEF rows, TypeInv, References, LinesShaped
<1>5. TypeOK'
  BY <1>1, <1>2 DEF rows, TypeInv, TypeOK
<1>6. QED
  BY <1>1, <1>3, <1>4, <1>5 DEF TypeInv, RowChange

\* An action that ends a request keeps the requests well formed.
LEMMA FinishType ==
    ASSUME TypeInv, NEW w \in Workers, Finish(w)
    PROVE  request' \in [Workers -> Request] /\ Requests'
<1>1. Idle \in Request /\ WellFormed(Idle)
  BY DEF Idle, Request, WellFormed
<1>2. request' = [request EXCEPT ![w] = Idle]
  BY DEF Finish
<1>3. QED
  BY <1>1, <1>2 DEF TypeInv, TypeOK, Requests

\* So do the actions outside of any request.
LEMMA RequestsKept ==
    ASSUME TypeInv, UNCHANGED request
    PROVE  request' \in [Workers -> Request] /\ Requests'
  BY DEF TypeInv, TypeOK, Requests

\* Finalizing a bill is a change of bills.
LEMMA FinalizeBillChange ==
    ASSUME TypeInv, NEW b \in Bills, NEW date \in BillDates, NEW total \in BillTotals,
           NEW rate \in BillRates, FinalizeBill(b, date, total, rate)
    PROVE  TypeInv' /\ BillChange
<1> DEFINE row == [status |-> "FINALIZED", date |-> date, rate |-> rate,
                   transactionTotal |-> total, total |-> ToBase(total, rate),
                   transactionBalanceDue |-> total, balanceDue |-> ToBase(total, rate)]
<1>1. date \in Nat /\ total \in Nat /\ rate \in Nat /\ ToBase(total, rate) \in Nat
  BY Positive, ToBaseType
<1>2. /\ bill[b].status = "NONE" /\ ToBase(total, rate) > 0
      /\ bill' = [bill EXCEPT ![b] = row]
      /\ payable' = payable + ToBase(total, rate)
      /\ UNCHANGED <<payment, allocation, debitNote, debitAllocation, layer, run, request>>
  BY DEF FinalizeBill
<1>3. /\ row \in Bill /\ row.status = "FINALIZED" /\ row.total = ToBase(total, rate)
      /\ row.transactionBalanceDue = row.transactionTotal /\ row.balanceDue = row.total
  BY <1>1 DEF Bill
<1> HIDE DEF row
<1>4. BillFinalized(b, row)
  BY <1>2, <1>3 DEF BillFinalized
<1>5. TypeOK'
  BY <1>1, <1>2, <1>3, RequestsKept DEF TypeInv, TypeOK
<1>6. QED
  BY <1>2, <1>3, <1>4, <1>5, RequestsKept DEF TypeInv, References, LinesShaped, BillChange

\* Voiding a bill is a change of bills.
LEMMA VoidBillChange ==
    ASSUME TypeInv, NEW b \in Bills, VoidBill(b)
    PROVE  TypeInv' /\ BillChange
<1> DEFINE row == [bill[b] EXCEPT !.status = "VOIDED", !.balanceDue = 0,
                                  !.transactionBalanceDue = 0]
<1>1. bill \in [Bills -> Bill] /\ bill[b] \in Bill /\ payable \in Int /\ bill[b].total \in Nat
  BY RowTypes DEF TypeInv, TypeOK
<1>2. /\ MutationAllowed(b) /\ ~HasActiveApplications(b)
      /\ bill' = [bill EXCEPT ![b].status = "VOIDED", ![b].balanceDue = 0,
                              ![b].transactionBalanceDue = 0]
      /\ payable' = payable - bill[b].total
      /\ UNCHANGED <<payment, allocation, debitNote, debitAllocation, layer, run, request>>
  BY DEF VoidBill
<1>3. bill' = [bill EXCEPT ![b] = row]
  BY <1>1, <1>2, Zenon
<1>4. row \in Bill /\ row.status = "VOIDED"
  BY <1>1 DEF Bill
<1> HIDE DEF row
<1>5. BillVoided(b, row)
  BY <1>2, <1>3, <1>4 DEF BillVoided
<1>6. TypeOK'
  <2>1. bill' \in [Bills -> Bill]
    BY <1>1, <1>3, <1>4
  <2>2. payable' \in Int
    BY <1>1, <1>2
  <2>3. QED
    BY <1>2, <2>1, <2>2, RequestsKept DEF TypeInv, TypeOK
<1>7. QED
  BY <1>2, <1>4, <1>5, <1>6, RequestsKept DEF TypeInv, References, LinesShaped, BillChange

\* The empty split has no layer and no amounts.
LEMMA NoSplitShaped == Shaped(NoSplit) /\ NoSplit.transaction = 0 /\ NoSplit.line = None
  BY DEF Shaped, NoSplit

\* What the commit of create() checks makes its splits claims.
LEMMA SettlesClaims ==
    ASSUME TypeOK, NEW b \in Bills, NEW seen \in Bill, NEW split,
           split.transaction > 0, Settling(b, split.transaction, seen, split),
           Settles(b, split.transaction, seen, split), Claimable(b, split)
    PROVE  Claims(b, split) /\ Shaped(split) /\ split # NoSplit
<1>1. /\ split \in Split /\ split.line = layer[b].line
      /\ split.line = None => split.document = split.source
      /\ split.transaction = seen.transactionBalanceDue =>
           split.document = Basis(b, seen).carrying /\ split.source = seen.balanceDue
      /\ split.transaction \in Nat
  BY DEF Settling, Split
<1>2. layer[b] \in Layer
  BY RowTypes
<1>3. layer[b] # NoLayer /\ split.transaction = layer[b].open =>
        split.document = layer[b].carrying /\ split.source = layer[b].source
  <2> SUFFICES ASSUME layer[b] # NoLayer, split.transaction = layer[b].open
               PROVE  split.document = layer[b].carrying /\ split.source = layer[b].source
    OBVIOUS
  <2>1. layer[b].open = seen.transactionBalanceDue /\ layer[b].source = seen.balanceDue
    BY DEF Settles, BasisMatches
  <2>2. Basis(b, seen).carrying = layer[b].carrying
    BY <1>2, BasisTypes
  <2>3. QED
    BY <1>1, <2>1, <2>2
<1>4. Claims(b, split)
  BY <1>1, <1>3 DEF Claims
<1>5. split # NoSplit
  BY NoSplitShaped
<1>6. QED
  BY <1>1, <1>4, <1>5 DEF Shaped

\* Creating a payment is a change of payments.
LEMMA CreatePaymentChange ==
    ASSUME TypeInv, NEW w \in Workers, CreatePaymentCommit(w)
    PROVE  TypeInv' /\ PaymentChange
<1> DEFINE p == request[w].payment
           amountPaid == request[w].amountPaid
           rate == request[w].rate
           list == request[w].allocations
           seen == request[w].seen
           plan == Plan(amountPaid, rate, list, seen)
           paid == {a.bill : a \in Listed(list)}
           unapplied == IF plan.transaction > 0 THEN plan.base ELSE 0
           posted == Total(paid, [b \in paid |-> plan.splits[b].document]) + unapplied
           row == [status |-> "POSTED", rate |-> rate,
                   transactionAmountPaid |-> amountPaid,
                   amountPaid |-> ToBase(amountPaid, rate),
                   transactionUnappliedAmount |-> plan.transaction,
                   unappliedAmount |-> plan.base,
                   splits |-> plan.splits, posted |-> posted]
<1>1. p \in Payments /\ Payable(amountPaid, rate, list, seen)
  BY RequestTypes DEF CreatePaymentCommit
<1>2. /\ payment[p].status = "NONE"
      /\ \A b \in paid : /\ Settles(b, plan.splits[b].transaction, seen[b], plan.splits[b])
                         /\ Claimable(b, plan.splits[b])
      /\ bill' = [b \in Bills |-> Take(bill[b], plan.splits[b])]
      /\ layer' = [b \in Bills |-> TakeLayer(layer[b], plan.splits[b])]
      /\ payment' = [payment EXCEPT ![p] = row]
      /\ payable' = payable - posted
      /\ Finish(w)
      /\ UNCHANGED <<allocation, debitNote, debitAllocation, run>>
  BY DEF CreatePaymentCommit
<1> HIDE DEF p, amountPaid, rate, list, seen, plan, paid
<1>3. amountPaid \in Nat /\ rate \in Nat /\ seen \in [Bills -> Bill] /\ ToBase(amountPaid, rate) \in Nat
  <2>1. amountPaid \in Nat /\ rate \in Nat /\ seen \in [Bills -> Bill]
    BY <1>1 DEF Payable
  <2>2. QED
    BY <2>1, ToBaseType
<1>4. layer \in [Bills -> Layer] /\ TypeOK
  BY DEF TypeInv, TypeOK
<1>5. /\ plan.transaction \in Nat /\ plan.base \in Nat /\ plan.splits \in [Bills -> Split]
      /\ amountPaid = plan.transaction + Total(Bills, TransactionsOf(plan.splits))
      /\ ToBase(amountPaid, rate) = plan.base + Total(Bills, SettlementsOf(plan.splits))
      /\ plan.transaction = 0 => plan.base = 0
      /\ paid \subseteq Bills
      /\ \A b \in Bills \ paid : plan.splits[b] = NoSplit
      /\ \A b \in paid : /\ plan.splits[b].transaction > 0
                         /\ Settling(b, plan.splits[b].transaction, seen[b], plan.splits[b])
  <2>1. Settled(amountPaid, rate, seen, paid, plan)
    BY <1>1, <1>4, PlanParts DEF plan, paid
  <2>2. QED
    BY <2>1 DEF Settled
<1>6. ASSUME NEW b \in Bills
      PROVE  Claims(b, plan.splits[b]) /\ Shaped(plan.splits[b])
  <2>1. CASE b \in paid
    <3>1. seen[b] \in Bill
      BY <1>3
    <3>2. QED
      BY <1>2, <1>4, <1>5, <2>1, <3>1, SettlesClaims
  <2>2. CASE b \notin paid
    BY <1>5, <2>2, NoSplitShaped DEF Claims
  <2>3. QED
    BY <2>1, <2>2
<1>7. Settlement(plan.splits)
  BY <1>2, <1>5, <1>6 DEF Settlement
<1>8. posted = plan.base + Total(Bills, DocumentsOf(plan.splits)) /\ posted \in Nat
  <2> DEFINE f == DocumentsOf(plan.splits)
             g == [b \in paid |-> plan.splits[b].document]
  <2>1. f \in [Bills -> Nat] /\ Total(Bills, f) \in Nat
    BY <1>5, SplitSums
  <2>2. \A b \in paid : f[b] = g[b]
    BY <1>5 DEF DocumentsOf
  <2>3. \A b \in Bills \ paid : f[b] = 0
    BY <1>5 DEF DocumentsOf, NoSplit
  <2>4. g \in [paid -> Nat]
    BY <1>5 DEF Split
  <2> HIDE DEF f, g
  <2>5. Total(Bills, f) = Total(paid, g)
    BY <1>5, <2>1, <2>2, <2>3, <2>4, TotalPart
  <2>6. unapplied = plan.base
    BY <1>5
  <2>7. QED
    BY <1>5, <2>1, <2>5, <2>6 DEF f, g
<1> HIDE DEF posted
<1>9. /\ row \in Payment /\ row.status = "POSTED"
      /\ row.transactionAmountPaid = amountPaid /\ row.amountPaid = ToBase(amountPaid, rate)
      /\ row.transactionUnappliedAmount = plan.transaction /\ row.unappliedAmount = plan.base
      /\ row.splits = plan.splits /\ row.posted = posted
  BY <1>3, <1>5, <1>8 DEF Payment
<1> HIDE DEF row
<1>10. PaymentCreated(p, row)
  BY <1>2, <1>5, <1>7, <1>8, <1>9 DEF PaymentCreated
<1>11. bill' \in [Bills -> Bill] /\ layer' \in [Bills -> Layer]
  BY <1>4, <1>7, SettlementTypes
<1>12. payment' \in [Payments -> Payment] /\ payable' \in Int
  BY <1>1, <1>2, <1>8, <1>9 DEF TypeInv, TypeOK
<1>13. References'
  <2>1. \A q \in Payments, b \in Bills : Shaped(payment'[q].splits[b])
    BY <1>1, <1>2, <1>6, <1>9 DEF TypeInv, TypeOK, References
  <2>2. QED
    BY <1>2, <2>1 DEF TypeInv, References
<1>14. TypeOK'
  BY <1>2, <1>11, <1>12, FinishType DEF TypeInv, TypeOK
<1>15. LinesShaped' /\ Requests'
  BY <1>2, FinishType DEF TypeInv, LinesShaped
<1>16. QED
  BY <1>1, <1>9, <1>10, <1>13, <1>14, <1>15 DEF TypeInv, PaymentChange

\* Voiding a payment is a change of payments.
LEMMA VoidPaymentChange ==
    ASSUME TypeInv, NEW w \in Workers, VoidPaymentCommit(w)
    PROVE  TypeInv' /\ PaymentChange
<1> DEFINE p == request[w].payment
           row == [payment[p] EXCEPT !.status = "VOIDED"]
<1>1. p \in Payments
  BY RequestTypes DEF VoidPaymentCommit
<1>2. /\ payment[p].status = "POSTED"
      /\ \A b \in Bills : payment[p].splits[b].transaction > 0
                            => Restorable(b, payment[p].splits[b])
      /\ payment' = [payment EXCEPT ![p].status = "VOIDED"]
      /\ bill' = [b \in Bills |-> GiveBack(bill[b], payment[p].splits[b])]
      /\ layer' = [b \in Bills |-> GiveBackLayer(layer[b], payment[p].splits[b])]
      /\ payable' = payable + payment[p].posted
      /\ Finish(w)
      /\ UNCHANGED <<allocation, debitNote, debitAllocation, run>>
  BY DEF VoidPaymentCommit
<1> HIDE DEF p
<1>3. /\ TypeOK /\ payment \in [Payments -> Payment] /\ payment[p] \in Payment
      /\ payment[p].splits \in [Bills -> Split] /\ payment[p].posted \in Nat /\ payable \in Int
  BY <1>1, RowTypes DEF TypeInv, TypeOK
<1>4. /\ row \in Payment /\ row.splits = payment[p].splits
      /\ payment' = [payment EXCEPT ![p] = row]
  BY <1>1, <1>2, <1>3 DEF Payment
<1>5. \A b \in Bills : Shaped(payment[p].splits[b])
  BY <1>1 DEF TypeInv, References
<1>6. Restoration(payment[p].splits)
  BY <1>2, <1>3, <1>5 DEF Restoration, Restores, Shaped
<1>7. row = [payment[p] EXCEPT !.status = "VOIDED"]
  OBVIOUS
<1> HIDE DEF row
<1>8. PaymentVoided(p, row)
  BY <1>2, <1>4, <1>6, <1>7 DEF PaymentVoided
<1>9. bill' \in [Bills -> Bill] /\ layer' \in [Bills -> Layer]
  BY <1>3, <1>6, RestorationTypes
<1>10. payment' \in [Payments -> Payment] /\ payable' \in Int
  BY <1>1, <1>2, <1>3, <1>4
<1>11. References'
  <2>1. \A q \in Payments, b \in Bills : Shaped(payment'[q].splits[b])
    BY <1>1, <1>3, <1>4, <1>5 DEF TypeInv, References
  <2>2. QED
    BY <1>2, <2>1 DEF TypeInv, References
<1>12. TypeOK'
  BY <1>2, <1>9, <1>10, FinishType DEF TypeInv, TypeOK
<1>13. LinesShaped' /\ Requests'
  BY <1>2, FinishType DEF TypeInv, LinesShaped
<1>14. QED
  BY <1>1, <1>4, <1>8, <1>11, <1>12, <1>13 DEF TypeInv, PaymentChange

\* The unapplied amounts of a payment change alone.
LEMMA PaymentRow ==
    ASSUME NEW row \in Payment, NEW unapplied \in Nat, NEW transactionUnapplied \in Nat
    PROVE  /\ Unapplied(row, unapplied, transactionUnapplied) \in Payment
           /\ Unapplied(row, unapplied, transactionUnapplied).splits = row.splits
  BY DEF Unapplied, Payment

\* One split settles its bill alone.
LEMMA OneSplitClaims ==
    ASSUME NEW b \in Bills, NEW split \in Split, Claims(b, split),
           bill' = [bill EXCEPT ![b] = Take(@, split)],
           layer' = [layer EXCEPT ![b] = TakeLayer(@, split)], TypeOK
    PROVE  Settlement(OneSplit(b, split))
<1> DEFINE splits == OneSplit(b, split)
<1>1. /\ splits \in [Bills -> Split] /\ splits[b] = split
      /\ \A c \in Bills \ {b} : splits[c] = NoSplit
  BY NoSplitType DEF OneSplit
<1> HIDE DEF splits
<1>2. bill \in [Bills -> Bill] /\ layer \in [Bills -> Layer]
  BY DEF TypeOK
<1>3. ASSUME NEW c \in Bills
      PROVE  /\ Claims(c, splits[c])
             /\ bill'[c] = Take(bill[c], splits[c])
             /\ layer'[c] = TakeLayer(layer[c], splits[c])
  <2>1. CASE c = b
    BY <1>1, <1>2, <2>1
  <2>2. CASE c # b
    <3>1. splits[c] = NoSplit /\ Claims(c, splits[c])
      BY <1>1, <2>2 DEF Claims
    <3>2. Take(bill[c], splits[c]) = bill[c] /\ TakeLayer(layer[c], splits[c]) = layer[c]
      BY <1>2, <3>1, NoSplitType, TakeFields, LayerTaken
    <3>3. QED
      BY <1>2, <2>2, <3>1, <3>2
  <2>3. QED
    BY <2>1, <2>2
<1>4. bill' = [c \in Bills |-> Take(bill[c], splits[c])]
  BY <1>2, <1>3
<1>5. layer' = [c \in Bills |-> TakeLayer(layer[c], splits[c])]
  BY <1>2, <1>3
<1>6. Settlement(splits)
  BY <1>1, <1>3, <1>4, <1>5 DEF Settlement
<1>7. QED
  BY <1>6 DEF splits

\* One split gives back to its bill alone.
LEMMA OneSplitRestores ==
    ASSUME NEW b \in Bills, NEW split \in Split, Restores(b, split),
           bill' = [bill EXCEPT ![b] = GiveBack(@, split)],
           layer' = [layer EXCEPT ![b] = GiveBackLayer(@, split)], TypeOK
    PROVE  Restoration(OneSplit(b, split))
<1> DEFINE splits == OneSplit(b, split)
<1>1. /\ splits \in [Bills -> Split] /\ splits[b] = split
      /\ \A c \in Bills \ {b} : splits[c] = NoSplit
  BY NoSplitType DEF OneSplit
<1> HIDE DEF splits
<1>2. bill \in [Bills -> Bill] /\ layer \in [Bills -> Layer]
  BY DEF TypeOK
<1>3. ASSUME NEW c \in Bills
      PROVE  /\ Restores(c, splits[c])
             /\ bill'[c] = GiveBack(bill[c], splits[c])
             /\ layer'[c] = GiveBackLayer(layer[c], splits[c])
  <2>1. CASE c = b
    BY <1>1, <1>2, <2>1
  <2>2. CASE c # b
    <3>1. splits[c] = NoSplit /\ Restores(c, splits[c])
      BY <1>1, <2>2 DEF Restores
    <3>2. GiveBack(bill[c], splits[c]) = bill[c] /\ GiveBackLayer(layer[c], splits[c]) = layer[c]
      BY <1>2, <3>1, NoSplitType, GiveBackFields, LayerGivenBack
    <3>3. QED
      BY <1>2, <2>2, <3>1, <3>2
  <2>3. QED
    BY <2>1, <2>2
<1>4. bill' = [c \in Bills |-> GiveBack(bill[c], splits[c])]
  BY <1>2, <1>3
<1>5. layer' = [c \in Bills |-> GiveBackLayer(layer[c], splits[c])]
  BY <1>2, <1>3
<1>6. Restoration(splits)
  BY <1>1, <1>3, <1>4, <1>5 DEF Restoration
<1>7. QED
  BY <1>6 DEF splits

\* Applying an unapplied amount is a change of allocations.
LEMMA ApplyUnappliedChange ==
    ASSUME TypeInv, NEW w \in Workers, ApplyUnappliedCommit(w)
    PROVE  TypeInv' /\ AllocationChange
<1> DEFINE u == request[w].allocation
           p == request[w].payment
           b == request[w].bill
           amount == request[w].amount
           seenBill == request[w].seenBill
           seen == request[w].seenPayment
           split == SplitOf(b, amount, seenBill, seen.rate,
                            seen.transactionUnappliedAmount, seen.unappliedAmount)
           row == [status |-> "ACTIVE", payment |-> p, bill |-> b, split |-> split]
           unapplied == payment[p].unappliedAmount - split.settlement
           transactionUnapplied == payment[p].transactionUnappliedAmount - split.transaction
           paid == Unapplied(payment[p], unapplied, transactionUnapplied)
<1>1. /\ u \in Allocations /\ p \in Payments /\ b \in Bills /\ amount \in Nat
      /\ seenBill \in Bill /\ seen \in Payment /\ amount > 0
      /\ amount <= seenBill.transactionBalanceDue
  BY RequestTypes DEF ApplyUnappliedCommit
<1>2. /\ allocation[u].status = "NONE"
      /\ Settles(b, split.transaction, seenBill, split)
      /\ PaymentClaim(p, split)
      /\ Claimable(b, split)
      /\ payment' = [payment EXCEPT
           ![p].unappliedAmount = @ - split.settlement,
           ![p].transactionUnappliedAmount = @ - split.transaction]
      /\ bill' = [bill EXCEPT ![b] = Take(@, split)]
      /\ layer' = [layer EXCEPT ![b] = TakeLayer(@, split)]
      /\ allocation' = [allocation EXCEPT ![u] = row]
      /\ payable' = payable + split.settlement - split.document
      /\ Finish(w)
      /\ UNCHANGED <<debitNote, debitAllocation, run>>
  BY DEF ApplyUnappliedCommit
<1> HIDE DEF u, p, b, amount, seenBill, seen
<1>3. /\ TypeOK /\ payment \in [Payments -> Payment] /\ payment[p] \in Payment
      /\ payment[p].unappliedAmount \in Nat /\ payment[p].transactionUnappliedAmount \in Nat
      /\ layer[b] \in Layer /\ payable \in Int
  BY <1>1, RowTypes DEF TypeInv, TypeOK
<1>4. Settling(b, amount, seenBill, split)
  <2>1. seen.rate \in Nat /\ seen.transactionUnappliedAmount \in Int /\ seen.unappliedAmount \in Nat
    BY <1>1 DEF Payment
  <2>2. QED
    BY <1>1, <1>3, <2>1, SplitTypes
<1> HIDE DEF split
<1>5. /\ split \in Split /\ split.transaction = amount /\ split.settlement \in Nat
      /\ split.document \in Nat /\ split.transaction \in Nat
  BY <1>1, <1>4 DEF Settling, Split
<1>6. Claims(b, split) /\ Shaped(split) /\ split # NoSplit
  BY <1>1, <1>2, <1>3, <1>4, <1>5, SettlesClaims
<1>7. Settlement(OneSplit(b, split))
  BY <1>1, <1>2, <1>3, <1>5, <1>6, OneSplitClaims
<1>8. unapplied \in Nat /\ transactionUnapplied \in Nat
  BY <1>2, <1>3, <1>5 DEF PaymentClaim
<1>9. payment' = [payment EXCEPT ![p] = paid]
  BY <1>1, <1>2, <1>3, Zenon DEF Unapplied
<1>10. paid \in Payment /\ paid.splits = payment[p].splits
  <2>1. paid = Unapplied(payment[p], unapplied, transactionUnapplied)
    OBVIOUS
  <2> HIDE DEF paid, unapplied, transactionUnapplied
  <2>2. payment[p] \in Payment
    BY <1>3
  <2>3. unapplied \in Nat
    BY <1>8
  <2>4. transactionUnapplied \in Nat
    BY <1>8
  <2>5. QED
    BY <2>1, <2>2, <2>3, <2>4, PaymentRow
<1>11. paid = Unapplied(payment[p], payment[p].unappliedAmount - split.settlement,
                        payment[p].transactionUnappliedAmount - split.transaction)
  OBVIOUS
<1> HIDE DEF paid
<1>12. /\ row \in Allocation /\ row.status = "ACTIVE" /\ row.payment = p /\ row.bill = b
       /\ row.split = split
  BY <1>1, <1>5 DEF Allocation
<1> HIDE DEF row
<1>13. AllocationApplied(u, row, p, paid)
  BY <1>1, <1>2, <1>6, <1>7, <1>9, <1>10, <1>11, <1>12 DEF AllocationApplied
<1>14. bill' \in [Bills -> Bill] /\ layer' \in [Bills -> Layer]
  BY <1>3, <1>7, SettlementTypes
<1>15. payment' \in [Payments -> Payment] /\ allocation' \in [Allocations -> Allocation]
  <2>1. allocation \in [Allocations -> Allocation]
    BY <1>3 DEF TypeOK
  <2>2. payment' \in [Payments -> Payment]
    BY <1>1, <1>3, <1>9, <1>10
  <2>3. allocation' \in [Allocations -> Allocation]
    BY <1>1, <1>2, <1>12, <2>1
  <2>4. QED
    BY <2>2, <2>3
<1>16. payable' \in Int
  BY <1>2, <1>3, <1>5
<1>17. References'
  <2>1. \A q \in Payments, c \in Bills : Shaped(payment'[q].splits[c])
    BY <1>1, <1>3, <1>9, <1>10 DEF TypeInv, References
  <2>2. \A v \in Allocations : allocation'[v].status # "NONE" =>
          /\ allocation'[v].payment \in Payments /\ allocation'[v].bill \in Bills
          /\ Shaped(allocation'[v].split) /\ allocation'[v].split # NoSplit
    BY <1>1, <1>2, <1>6, <1>12 DEF TypeInv, TypeOK, References
  <2>3. QED
    BY <1>2, <2>1, <2>2 DEF TypeInv, References
<1>18. TypeOK'
  BY <1>2, <1>14, <1>15, <1>16, FinishType DEF TypeInv, TypeOK
<1>19. LinesShaped' /\ Requests'
  BY <1>2, FinishType DEF TypeInv, LinesShaped
<1>20. AllocationChange
  BY <1>1, <1>10, <1>12, <1>13, Zenon DEF AllocationChange
<1>21. QED
  BY <1>17, <1>18, <1>19, <1>20 DEF TypeInv

\* Reversing a later allocation is a change of allocations.
LEMMA ReverseUnappliedChange ==
    ASSUME TypeInv, NEW u \in Allocations, ReverseUnappliedAllocation(u)
    PROVE  TypeInv' /\ AllocationChange
<1> DEFINE p == allocation[u].payment
           b == allocation[u].bill
           split == allocation[u].split
           row == [allocation[u] EXCEPT !.status = "REVERSED"]
           unapplied == payment[p].unappliedAmount + split.settlement
           transactionUnapplied == payment[p].transactionUnappliedAmount + split.transaction
           paid == Unapplied(payment[p], unapplied, transactionUnapplied)
<1>1. /\ allocation[u].status = "ACTIVE"
      /\ payment[p].status = "POSTED"
      /\ Restorable(b, split)
      /\ allocation' = [allocation EXCEPT ![u].status = "REVERSED"]
      /\ payment' = [payment EXCEPT ![p] = Unapply(@, split)]
      /\ bill' = [bill EXCEPT ![b] = GiveBack(@, split)]
      /\ layer' = [layer EXCEPT ![b] = GiveBackLayer(@, split)]
      /\ payable' = payable - (split.settlement - split.document)
      /\ UNCHANGED <<debitNote, debitAllocation, run, request>>
  BY DEF ReverseUnappliedAllocation
<1>2. /\ p \in Payments /\ b \in Bills /\ Shaped(split) /\ split # NoSplit
      /\ allocation[u].status # "NONE"
  BY <1>1 DEF TypeInv, References
<1>3. /\ TypeOK /\ payment \in [Payments -> Payment] /\ payment[p] \in Payment
      /\ payment[p].unappliedAmount \in Nat /\ payment[p].transactionUnappliedAmount \in Nat
      /\ payable \in Int /\ allocation \in [Allocations -> Allocation]
      /\ allocation[u] \in Allocation /\ split \in Split
  BY <1>2, RowTypes DEF TypeInv, TypeOK
<1>4. /\ row \in Allocation /\ row.status = "REVERSED" /\ row.payment = p /\ row.bill = b
      /\ row.split = split /\ allocation' = [allocation EXCEPT ![u] = row]
      /\ row = [allocation[u] EXCEPT !.status = "REVERSED"]
  BY <1>1, <1>3 DEF Allocation
<1> HIDE DEF p, b, split, row
<1>5. split.settlement \in Nat /\ split.document \in Nat /\ split.transaction \in Nat
  BY <1>3 DEF Split
<1>6. Restoration(OneSplit(b, split))
  BY <1>1, <1>2, <1>3, OneSplitRestores DEF Restores
<1>7. unapplied \in Nat /\ transactionUnapplied \in Nat
  BY <1>3, <1>5
<1>8. payment' = [payment EXCEPT ![p] = paid]
  BY <1>1, <1>2, <1>3, Zenon DEF Unapplied, Unapply
<1>9. paid \in Payment /\ paid.splits = payment[p].splits
  <2>1. paid = Unapplied(payment[p], unapplied, transactionUnapplied)
    OBVIOUS
  <2> HIDE DEF paid, unapplied, transactionUnapplied
  <2>2. payment[p] \in Payment
    BY <1>3
  <2>3. unapplied \in Nat
    BY <1>7
  <2>4. transactionUnapplied \in Nat
    BY <1>7
  <2>5. QED
    BY <2>1, <2>2, <2>3, <2>4, PaymentRow
<1>10. paid = Unapplied(payment[p], payment[p].unappliedAmount + split.settlement,
                        payment[p].transactionUnappliedAmount + split.transaction)
  OBVIOUS
<1> HIDE DEF paid
<1>11. AllocationReversed(u, row, p, paid)
  <2>1. allocation[u].payment = p
    BY DEF p
  <2>2. QED
    BY <1>1, <1>2, <1>4, <1>6, <1>8, <1>9, <1>10, <2>1 DEF AllocationReversed
<1>12. bill' \in [Bills -> Bill] /\ layer' \in [Bills -> Layer]
  BY <1>3, <1>6, RestorationTypes
<1>13. payment' \in [Payments -> Payment] /\ allocation' \in [Allocations -> Allocation]
  BY <1>2, <1>3, <1>4, <1>8, <1>9
<1>14. payable' \in Int
  BY <1>1, <1>3, <1>5
<1>15. References'
  <2>1. \A q \in Payments, c \in Bills : Shaped(payment'[q].splits[c])
    BY <1>2, <1>3, <1>8, <1>9 DEF TypeInv, References
  <2>2. \A v \in Allocations : allocation'[v].status # "NONE" =>
          /\ allocation'[v].payment \in Payments /\ allocation'[v].bill \in Bills
          /\ Shaped(allocation'[v].split) /\ allocation'[v].split # NoSplit
    BY <1>2, <1>3, <1>4 DEF TypeInv, References
  <2>3. QED
    BY <1>1, <2>1, <2>2 DEF TypeInv, References
<1>16. TypeOK'
  BY <1>1, <1>12, <1>13, <1>14, RequestsKept DEF TypeInv, TypeOK
<1>17. LinesShaped' /\ Requests'
  BY <1>1, RequestsKept DEF TypeInv, LinesShaped
<1>18. AllocationChange
  BY <1>2, <1>4, <1>9, <1>11, Zenon DEF AllocationChange
<1>19. QED
  BY <1>15, <1>16, <1>17, <1>18 DEF TypeInv

\* The debit notes: nothing but their rows and base balances.
LEMMA FinalizeDebitNoteChange ==
    ASSUME TypeInv, NEW d \in DebitNotes, NEW total \in DebitTotals, FinalizeDebitNote(d, total)
    PROVE  TypeInv' /\ DebitChange
<1>1. total \in Nat
  BY Positive
<1>2. /\ debitNote' = [debitNote EXCEPT ![d] =
           [status |-> "FINALIZED", total |-> total, unappliedAmount |-> total]]
      /\ payable' = payable - total
      /\ UNCHANGED <<bill, payment, allocation, debitAllocation, layer, run, request>>
  BY DEF FinalizeDebitNote
<1>3. debitNote' \in [DebitNotes -> DebitNote]
  BY <1>1, <1>2 DEF TypeInv, TypeOK, DebitNote
<1>4. payable' \in Int
  BY <1>1, <1>2 DEF TypeInv, TypeOK
<1>5. TypeOK'
  BY <1>2, <1>3, <1>4, RequestsKept DEF TypeInv, TypeOK
<1>6. QED
  BY <1>2, <1>5, RequestsKept DEF TypeInv, References, LinesShaped, DebitChange

\* Applying a debit note is a change of debit notes.
LEMMA ApplyDebitNoteChange ==
    ASSUME TypeInv, NEW k \in DebitAllocations, NEW d \in DebitNotes, NEW b \in Bills,
           NEW amount \in DebitTotals, ApplyDebitNote(k, d, b, amount)
    PROVE  TypeInv' /\ DebitChange
<1>1. amount \in Nat
  BY Positive
<1>2. /\ amount <= debitNote[d].unappliedAmount /\ amount <= bill[b].balanceDue
      /\ debitNote' = [debitNote EXCEPT ![d].unappliedAmount = @ - amount]
      /\ bill' = [bill EXCEPT ![b].balanceDue = @ - amount]
      /\ debitAllocation' = [debitAllocation EXCEPT ![k] =
           [status |-> "ACTIVE", debitNote |-> d, bill |-> b, amount |-> amount]]
      /\ UNCHANGED <<payment, allocation, layer, run, payable, request>>
  BY DEF ApplyDebitNote
<1>3. debitNote' \in [DebitNotes -> DebitNote]
  <2>1. debitNote[d].unappliedAmount - amount \in Nat
    BY <1>1, <1>2, RowTypes DEF TypeInv
  <2>2. QED
    BY <1>2, <2>1 DEF TypeInv, TypeOK, DebitNote
<1>4. bill' \in [Bills -> Bill]
  <2>1. bill[b].balanceDue - amount \in Nat
    BY <1>1, <1>2, RowTypes DEF TypeInv
  <2>2. QED
    BY <1>2, <2>1 DEF TypeInv, TypeOK, Bill
<1>5. debitAllocation' \in [DebitAllocations -> DebitAllocation]
  BY <1>1, <1>2 DEF TypeInv, TypeOK, DebitAllocation
<1>6. References'
  <2>1. \A j \in DebitAllocations : debitAllocation'[j].status # "NONE" =>
          debitAllocation'[j].debitNote \in DebitNotes /\ debitAllocation'[j].bill \in Bills
    BY <1>2 DEF TypeInv, TypeOK, References
  <2>2. QED
    BY <1>2, <2>1 DEF TypeInv, References
<1>7. TypeOK'
  BY <1>2, <1>3, <1>4, <1>5, RequestsKept DEF TypeInv, TypeOK
<1>8. QED
  BY <1>2, <1>6, <1>7, RequestsKept DEF TypeInv, LinesShaped, DebitChange

\* Reversing a debit allocation is a change of debit notes.
LEMMA ReverseDebitChange ==
    ASSUME TypeInv, NEW k \in DebitAllocations, ReverseDebitAllocation(k)
    PROVE  TypeInv' /\ DebitChange
<1> DEFINE d == debitAllocation[k].debitNote
           b == debitAllocation[k].bill
           amount == debitAllocation[k].amount
<1>1. /\ debitAllocation[k].status = "ACTIVE"
      /\ debitAllocation' = [debitAllocation EXCEPT ![k].status = "REVERSED"]
      /\ debitNote' = [debitNote EXCEPT ![d].unappliedAmount = @ + amount]
      /\ bill' = [bill EXCEPT ![b].balanceDue = @ + amount]
      /\ UNCHANGED <<payment, allocation, layer, run, payable, request>>
  BY DEF ReverseDebitAllocation
<1>2. d \in DebitNotes /\ b \in Bills /\ amount \in Nat
  <2>1. d \in DebitNotes /\ b \in Bills
    BY <1>1 DEF TypeInv, References
  <2>2. QED
    BY <2>1, RowTypes DEF TypeInv
<1>3. debitAllocation' \in [DebitAllocations -> DebitAllocation] /\ References'
  <2>1. debitAllocation' \in [DebitAllocations -> DebitAllocation]
    BY <1>1 DEF TypeInv, TypeOK, DebitAllocation
  <2>2. \A j \in DebitAllocations : debitAllocation'[j].status # "NONE" =>
          debitAllocation'[j].debitNote \in DebitNotes /\ debitAllocation'[j].bill \in Bills
    BY <1>1 DEF TypeInv, TypeOK, References, DebitAllocation
  <2>3. QED
    BY <1>1, <2>1, <2>2 DEF TypeInv, References
<1> HIDE DEF d, b, amount
<1>4. debitNote' \in [DebitNotes -> DebitNote]
  <2>1. debitNote[d].unappliedAmount + amount \in Nat
    BY <1>2, RowTypes DEF TypeInv
  <2>2. QED
    BY <1>1, <1>2, <2>1 DEF TypeInv, TypeOK, DebitNote
<1>5. bill' \in [Bills -> Bill]
  <2>1. bill[b].balanceDue + amount \in Nat
    BY <1>2, RowTypes DEF TypeInv
  <2>2. QED
    BY <1>1, <1>2, <2>1 DEF TypeInv, TypeOK, Bill
<1>6. TypeOK'
  BY <1>1, <1>3, <1>4, <1>5, RequestsKept DEF TypeInv, TypeOK
<1>7. QED
  BY <1>1, <1>3, <1>6, RequestsKept DEF TypeInv, LinesShaped, DebitChange

\* Voiding a debit note is a change of debit notes.
LEMMA VoidDebitNoteChange ==
    ASSUME TypeInv, NEW w \in Workers, VoidDebitNoteCommit(w)
    PROVE  TypeInv' /\ DebitChange
<1> DEFINE d == request[w].debitNote
<1>1. d \in DebitNotes
  BY RequestTypes DEF VoidDebitNoteCommit
<1>2. DebitNoteVoided(d) /\ Finish(w)
  BY DEF VoidDebitNoteCommit, DebitNoteVoided
<1> HIDE DEF d
<1>3. /\ debitNote' = [debitNote EXCEPT ![d].status = "VOIDED"]
      /\ payable' = payable + debitNote[d].total
      /\ UNCHANGED <<bill, payment, allocation, debitAllocation, layer, run>>
  BY <1>2 DEF DebitNoteVoided
<1>4. debitNote' \in [DebitNotes -> DebitNote]
  BY <1>1, <1>3 DEF TypeInv, TypeOK, DebitNote
<1>5. payable' \in Int
  BY <1>1, <1>3, RowTypes DEF TypeInv
<1>6. TypeOK'
  BY <1>2, <1>3, <1>4, <1>5, FinishType DEF TypeInv, TypeOK
<1>7. QED
  BY <1>1, <1>2, <1>3, <1>6, FinishType DEF TypeInv, References, LinesShaped, DebitChange

-----------------------------------------------------------------------------
(* Revaluations.                                                             *)

LineRows ==
    [open: Nat, source: Nat, carrying: Nat, revalued: Nat, prior: Runs \cup {None}]

\* A line of a run has all its fields, with an open amount above zero.
LEMMA LineTypes ==
    ASSUME TypeInv, NEW r \in Runs, NEW b \in Bills
    PROVE  b \in Lines(r) =>
             /\ run[r].lines[b] \in LineRows /\ run[r].lines[b] # NoLine
             /\ run[r].lines[b].open \in Nat /\ run[r].lines[b].open > 0
             /\ run[r].lines[b].source \in Nat /\ run[r].lines[b].carrying \in Nat
             /\ run[r].lines[b].revalued \in Nat
             /\ run[r].lines[b].prior \in Runs \cup {None}
             /\ run[r].lines[b].prior = None
                  => run[r].lines[b].carrying = run[r].lines[b].source
<1> SUFFICES ASSUME b \in Lines(r)
             PROVE  /\ run[r].lines[b] \in LineRows /\ run[r].lines[b] # NoLine
                    /\ run[r].lines[b].open \in Nat /\ run[r].lines[b].open > 0
                    /\ run[r].lines[b].source \in Nat /\ run[r].lines[b].carrying \in Nat
                    /\ run[r].lines[b].revalued \in Nat
                    /\ run[r].lines[b].prior \in Runs \cup {None}
                    /\ run[r].lines[b].prior = None
                         => run[r].lines[b].carrying = run[r].lines[b].source
  OBVIOUS
<1>1. LineShaped(run[r].lines[b]) /\ run[r].lines[b] # NoLine
  BY DEF TypeInv, LinesShaped, Lines
<1>2. run[r].lines[b] \in LineRows
  BY <1>1 DEF LineShaped, LineRows
<1>3. QED
  BY <1>1, <1>2 DEF LineShaped, LineRows

\* The line of an open bill.
LEMMA RevalueType ==
    ASSUME TypeInv, NEW date, NEW b \in Eligible(date), NEW rate \in Nat
    PROVE  /\ Revalue(b, rate) \in LineRows /\ Revalue(b, rate) \in Line
           /\ LineShaped(Revalue(b, rate)) /\ Revalue(b, rate) # NoLine
<1>1. b \in Bills /\ bill[b].transactionBalanceDue > 0
  BY DEF Eligible
<1>2. /\ TypeOK /\ bill[b] \in Bill /\ layer[b] \in Layer
      /\ bill[b].transactionBalanceDue \in Nat /\ bill[b].balanceDue \in Nat
  BY <1>1, RowTypes DEF TypeInv
<1>3. /\ Basis(b, bill[b]).carrying \in Nat /\ layer[b].line \in Runs \cup {None}
      /\ layer[b].line = None => Basis(b, bill[b]).carrying = bill[b].balanceDue
  BY <1>1, <1>2, BasisTypes, LayerTypes
<1>4. ToBase(bill[b].transactionBalanceDue, rate) \in Nat
  BY <1>2, ToBaseType
<1> DEFINE line == Revalue(b, rate)
<1>5. /\ line \in LineRows /\ line.open = bill[b].transactionBalanceDue
      /\ line.source = bill[b].balanceDue /\ line.carrying = Basis(b, bill[b]).carrying
      /\ line.prior = layer[b].line
  BY <1>2, <1>3, <1>4 DEF Revalue, LineRows
<1> HIDE DEF line
<1>6. line # NoLine
  BY <1>1, <1>5, <1>2 DEF NoLine
<1>7. LineShaped(line) /\ line \in Line
  BY <1>1, <1>2, <1>3, <1>5 DEF LineShaped, Line, LineRows
<1>8. QED
  BY <1>5, <1>6, <1>7 DEF line

\* What a step of a revaluation leaves alone.
LEMMA RunFrame ==
    ASSUME TypeInv, UNCHANGED <<bill, payment, allocation, debitNote, debitAllocation, request>>,
           run' \in [Runs -> Run], layer' \in [Bills -> Layer], payable' \in Int, LinesShaped'
    PROVE  TypeInv'
<1>1. TypeOK'
  BY RequestsKept DEF TypeInv, TypeOK
<1>2. QED
  BY <1>1, RequestsKept DEF TypeInv, References

\* Previewing a revaluation keeps the rows typed.
LEMMA PreviewTypes ==
    ASSUME TypeInv, NEW r \in Runs, NEW date \in Dates, NEW rate \in ClosingRates,
           PreviewRevaluation(r, date, rate)
    PROVE  TypeInv'
<1> DEFINE lines == [b \in Bills |-> IF b \in Eligible(date) THEN Revalue(b, rate)
                                 ELSE NoLine]
           row == [status |-> "DRAFT", date |-> date, rate |-> rate, lines |-> lines]
<1>1. /\ run' = [s \in Runs |->
           IF s = r THEN row
           ELSE IF s \in ActiveAt(date) THEN [run[s] EXCEPT !.status = "FAILED"]
           ELSE run[s]]
      /\ UNCHANGED <<bill, payment, allocation, debitNote, debitAllocation, layer,
                     payable, request>>
  BY DEF PreviewRevaluation
<1>2. rate \in Nat
  BY Positive
<1>3. \A b \in Bills : lines[b] \in Line /\ LineShaped(lines[b])
  <2> TAKE b \in Bills
  <2>1. CASE b \in Eligible(date)
    BY <1>2, <2>1, RevalueType
  <2>2. CASE b \notin Eligible(date)
    BY <2>2 DEF LineShaped, Line
  <2>3. QED
    BY <2>1, <2>2
<1>4. lines \in [Bills -> Line]
  BY <1>3
<1> HIDE DEF lines
<1>5. row \in Run /\ row.lines = lines
  BY <1>2, <1>4 DEF Run
<1> HIDE DEF row
<1>6. ASSUME NEW s \in Runs
      PROVE  run'[s] \in Run /\ \A b \in Bills : LineShaped(run'[s].lines[b])
  <2>1. run[s] \in Run /\ \A b \in Bills : LineShaped(run[s].lines[b])
    BY RowTypes DEF TypeInv, LinesShaped
  <2>2. CASE s = r
    BY <1>1, <1>3, <1>5, <2>2
  <2>3. CASE s # r /\ s \in ActiveAt(date)
    <3>1. run'[s] = [run[s] EXCEPT !.status = "FAILED"]
      BY <1>1, <2>3
    <3>2. run'[s] \in Run /\ run'[s].lines = run[s].lines
      BY <2>1, <3>1 DEF Run
    <3>3. QED
      BY <2>1, <3>2
  <2>4. CASE s # r /\ s \notin ActiveAt(date)
    BY <1>1, <2>1, <2>4
  <2>5. QED
    BY <2>2, <2>3, <2>4
<1>7. run' \in [Runs -> Run] /\ LinesShaped'
  BY <1>1, <1>6 DEF LinesShaped
<1>8. layer' \in [Bills -> Layer] /\ payable' \in Int
  BY <1>1 DEF TypeInv, TypeOK
<1>9. QED
  BY <1>1, <1>7, <1>8, RunFrame

\* A run changes its status and keeps its lines.
LEMMA RunStatus ==
    ASSUME TypeInv, NEW r \in Runs, NEW status \in {"REVIEWED", "POSTED", "REVERSED"},
           run' = [run EXCEPT ![r].status = status]
    PROVE  /\ run' \in [Runs -> Run] /\ LinesShaped'
           /\ run'[r].status = status
           /\ \A s \in Runs : /\ run'[s].lines = run[s].lines /\ run'[s].date = run[s].date
                              /\ run'[s].rate = run[s].rate
                              /\ s # r => run'[s] = run[s]
<1>1. run \in [Runs -> Run] /\ run[r] \in Run
  BY DEF TypeInv, TypeOK
<1> DEFINE row == [run[r] EXCEPT !.status = status]
<1>2. run' = [run EXCEPT ![r] = row]
  BY <1>1
<1>3. /\ row \in Run /\ row.status = status /\ row.lines = run[r].lines
      /\ row.date = run[r].date /\ row.rate = run[r].rate
  BY <1>1 DEF Run
<1> HIDE DEF row
<1>4. /\ run' \in [Runs -> Run] /\ run'[r].status = status
      /\ \A s \in Runs : /\ run'[s].lines = run[s].lines /\ run'[s].date = run[s].date
                         /\ run'[s].rate = run[s].rate
                         /\ s # r => run'[s] = run[s]
  BY <1>1, <1>2, <1>3
<1>5. LinesShaped'
  BY <1>4 DEF TypeInv, LinesShaped
<1>6. QED
  BY <1>4, <1>5

\* The two totals of a run are natural numbers.
LEMMA RevaluedTypes ==
    ASSUME TypeInv, NEW r \in Runs
    PROVE  RevaluedBy(r) \in Nat /\ CarriedBy(r) \in Nat
<1>1. Lines(r) \subseteq Bills /\ IsFiniteSet(Lines(r))
  BY FiniteRows, FS_Subset DEF Lines
<1>2. /\ [b \in Lines(r) |-> run[r].lines[b].revalued] \in [Lines(r) -> Nat]
      /\ [b \in Lines(r) |-> run[r].lines[b].carrying] \in [Lines(r) -> Nat]
  BY <1>1, LineTypes
<1>3. QED
  BY <1>1, <1>2, TotalType DEF RevaluedBy, CarriedBy

\* Posting a revaluation keeps the rows typed.
LEMMA PostTypes ==
    ASSUME TypeInv, NEW r \in Runs, PostRevaluation(r)
    PROVE  TypeInv'
<1>1. /\ layer' = [b \in Bills |->
           IF b \in Lines(r)
           THEN [line |-> r, open |-> run[r].lines[b].open,
                 source |-> run[r].lines[b].source,
                 carrying |-> run[r].lines[b].revalued, rate |-> run[r].rate]
           ELSE layer[b]]
      /\ payable' = payable + RevaluedBy(r) - CarriedBy(r)
      /\ run' = [run EXCEPT ![r].status = "POSTED"]
      /\ UNCHANGED <<bill, payment, allocation, debitNote, debitAllocation, request>>
  BY DEF PostRevaluation
<1>2. layer' \in [Bills -> Layer]
  <2>1. ASSUME NEW b \in Bills PROVE layer'[b] \in Layer
    <3>1. CASE b \in Lines(r)
      <4>1. run[r].rate \in Nat
        BY RowTypes DEF TypeInv
      <4>2. /\ run[r].lines[b].open \in Nat /\ run[r].lines[b].source \in Nat
            /\ run[r].lines[b].revalued \in Nat
        BY <3>1, LineTypes
      <4>3. layer'[b] = [line |-> r, open |-> run[r].lines[b].open,
                         source |-> run[r].lines[b].source,
                         carrying |-> run[r].lines[b].revalued, rate |-> run[r].rate]
        BY <1>1, <3>1
      <4>4. QED
        BY <4>1, <4>2, <4>3 DEF Layer
    <3>2. CASE b \notin Lines(r)
      BY <1>1, <3>2, RowTypes DEF TypeInv
    <3>3. QED
      BY <3>1, <3>2
  <2>2. QED
    BY <1>1, <2>1
<1>3. payable' \in Int
  BY <1>1, RevaluedTypes, RowTypes DEF TypeInv
<1>4. QED
  BY <1>1, <1>2, <1>3, RunStatus, RunFrame

\* Reversing a revaluation keeps the rows typed.
LEMMA ReverseTypes ==
    ASSUME TypeInv, NEW r \in Runs, ReverseRevaluation(r)
    PROVE  TypeInv'
<1>1. /\ \A b \in Lines(r) : LineUntouched(r, b)
      /\ layer' = [b \in Bills |->
           IF b \notin Lines(r) THEN layer[b]
           ELSE LET line == run[r].lines[b]
                IN  IF line.prior = None THEN NoLayer
                    ELSE [layer[b] EXCEPT !.carrying = line.carrying,
                                          !.rate = run[line.prior].rate,
                                          !.line = line.prior]]
      /\ payable' = payable - (RevaluedBy(r) - CarriedBy(r))
      /\ run' = [run EXCEPT ![r].status = "REVERSED"]
      /\ UNCHANGED <<bill, payment, allocation, debitNote, debitAllocation, request>>
  BY DEF ReverseRevaluation
<1>2. layer' \in [Bills -> Layer]
  <2>1. ASSUME NEW b \in Bills PROVE layer'[b] \in Layer
    <3>0. layer[b] \in Layer
      BY RowTypes DEF TypeInv
    <3>1. CASE b \notin Lines(r)
      BY <1>1, <3>0, <3>1
    <3>2. CASE b \in Lines(r) /\ run[r].lines[b].prior = None
      BY <1>1, <3>2 DEF Layer
    <3>3. CASE b \in Lines(r) /\ run[r].lines[b].prior # None
      <4> DEFINE s == run[r].lines[b].prior
                 carrying == run[r].lines[b].carrying
                 rate == run[s].rate
      <4>1. s \in Runs /\ carrying \in Nat
        BY <3>3, LineTypes
      <4>2. rate \in Nat
        BY <4>1, RowTypes DEF TypeInv
      <4>3. layer'[b] = [layer[b] EXCEPT !.carrying = carrying, !.rate = rate, !.line = s]
        BY <1>1, <3>3
      <4>4. layer[b] \in [line: Runs, open: Nat, source: Nat, carrying: Nat, rate: Nat]
        <5>1. layer[b].line = r /\ r # None
          BY <1>1, <3>3, NoneIsNoRow DEF LineUntouched
        <5>2. QED
          BY <3>0, <5>1, LayerTypes
      <4> HIDE DEF s, carrying, rate
      <4>5. layer'[b] \in [line: Runs, open: Nat, source: Nat, carrying: Nat, rate: Nat]
        BY <4>1, <4>2, <4>3, <4>4
      <4>6. QED
        BY <4>5 DEF Layer
    <3>4. QED
      BY <3>1, <3>2, <3>3
  <2>2. QED
    BY <1>1, <2>1
<1>3. payable' \in Int
  <2>1. payable \in Int /\ RevaluedBy(r) \in Nat /\ CarriedBy(r) \in Nat
    BY RevaluedTypes, RowTypes DEF TypeInv
  <2>2. payable' = payable - (RevaluedBy(r) - CarriedBy(r))
    BY <1>1
  <2>3. QED
    BY <2>1, <2>2
<1>4. QED
  BY <1>1, <1>2, <1>3, RunStatus, RunFrame

\* Every step of a revaluation keeps the rows typed.
LEMMA RevaluationTypes ==
    ASSUME TypeInv, RevaluationNext
    PROVE  TypeInv'
<1>1. ASSUME NEW r \in Runs, ReviewRevaluation(r) PROVE TypeInv'
  <2>1. /\ run' = [run EXCEPT ![r].status = "REVIEWED"]
        /\ UNCHANGED <<bill, payment, allocation, debitNote, debitAllocation, layer,
                       payable, request>>
    BY <1>1 DEF ReviewRevaluation
  <2>2. layer' \in [Bills -> Layer] /\ payable' \in Int
    BY <2>1 DEF TypeInv, TypeOK
  <2>3. QED
    BY <2>1, <2>2, RunStatus, RunFrame
<1>2. QED
  BY <1>1, PreviewTypes, PostTypes, ReverseTypes DEF RevaluationNext

-----------------------------------------------------------------------------
(* The Read actions.                                                         *)

\* create() has checked its allocations against the bills it read.
LEMMA CreatePaymentReadTypes ==
    ASSUME TypeInv, NEW w \in Workers, NEW p \in Payments, NEW amount \in Amounts,
           NEW rate \in PaymentRates, NEW list \in AllocationLists,
           CreatePaymentRead(w, p, amount, rate, list)
    PROVE  TypeInv' /\ RowChange
<1> DEFINE seen == [b \in Bills |->
                      IF \E a \in Listed(list) : a.bill = b THEN bill[b] ELSE NoBill]
           r == [op |-> "createPayment", payment |-> p, amountPaid |-> amount,
                 rate |-> rate, allocations |-> list, seen |-> seen]
           Listable == [bill: Bills, amount: Nat]
<1>1. /\ SumOf(list) <= amount
      /\ \A a \in Listed(list) : a.amount <= bill[a.bill].transactionBalanceDue
      /\ Begin(w, r)
  BY DEF CreatePaymentRead
<1>2. amount \in Nat \ {0} /\ rate \in Nat /\ seen \in [Bills -> Bill]
  <2>1. bill \in [Bills -> Bill] /\ NoBill \in Bill
    BY DEF TypeInv, TypeOK, NoBill, Bill
  <2>2. QED
    BY <2>1, Positive
<1>3. PICK n \in 0 .. Cardinality(Bills) :
        /\ list \in [1 .. n -> [bill: Bills, amount: Amounts]]
        /\ \A i, j \in 1 .. n : list[i].bill = list[j].bill => i = j
  BY DEF AllocationLists
<1>4. n \in Nat
  BY FiniteRows, FS_CardinalityType
<1>5. \A i \in 1 .. n : list[i] \in Listable /\ list[i].amount > 0
  <2> TAKE i \in 1 .. n
  <2>1. list[i] \in [bill: Bills, amount: Amounts]
    BY <1>3
  <2>2. QED
    BY <2>1, Positive
<1>6. list \in [1 .. n -> Listable]
  <2> HIDE DEF Listable
  <2>1. QED
    BY <1>3, <1>5
<1>7. list \in Seq(Listable) /\ Len(list) = n /\ DOMAIN list = 1 .. n
  <2> HIDE DEF Listable
  <2>1. QED
    BY <1>4, <1>6
<1>8. \A i \in 1 .. n : list[i].amount <= seen[list[i].bill].transactionBalanceDue
  <2> TAKE i \in 1 .. n
  <2>1. list[i] \in Listed(list) /\ list[i].bill \in Bills
    BY <1>3, <1>7 DEF Listed, ToSet
  <2>2. QED
    BY <1>1, <2>1
<1> HIDE DEF seen
<1>9. Payable(amount, rate, list, seen)
  BY <1>1, <1>2, <1>3, <1>5, <1>7, <1>8 DEF Payable
<1>10. r \in Request
  BY <1>2, <1>7 DEF Request
<1>11. WellFormed(r)
  BY <1>9 DEF WellFormed
<1> HIDE DEF r
<1>12. QED
  BY <1>1, <1>10, <1>11, BeginType

\* Reading for a later allocation changes no row.
LEMMA ApplyUnappliedReadTypes ==
    ASSUME TypeInv, NEW w \in Workers, NEW u \in Allocations, NEW p \in Payments,
           NEW b \in Bills, NEW amount \in Amounts, ApplyUnappliedRead(w, u, p, b, amount)
    PROVE  TypeInv' /\ RowChange
<1> DEFINE r == [op |-> "applyUnapplied", allocation |-> u, payment |-> p,
                 bill |-> b, amount |-> amount, seenBill |-> bill[b],
                 seenPayment |-> payment[p]]
<1>1. amount <= bill[b].transactionBalanceDue /\ Begin(w, r)
  BY DEF ApplyUnappliedRead
<1>2. amount \in Nat /\ amount > 0 /\ bill[b] \in Bill /\ payment[p] \in Payment
  BY Positive, RowTypes DEF TypeInv
<1>3. r \in Request
  BY <1>2 DEF Request
<1>4. WellFormed(r)
  BY <1>1, <1>2 DEF WellFormed
<1> HIDE DEF r
<1>5. QED
  BY <1>1, <1>3, <1>4, BeginType

\* Reading a payment to void changes no row.
LEMMA VoidPaymentReadTypes ==
    ASSUME TypeInv, NEW w \in Workers, NEW p \in Payments, VoidPaymentRead(w, p)
    PROVE  TypeInv' /\ RowChange
<1> DEFINE r == [op |-> "voidPayment", payment |-> p]
<1>1. Begin(w, r)
  BY DEF VoidPaymentRead
<1>2. r \in Request /\ WellFormed(r)
  BY DEF Request, WellFormed
<1> HIDE DEF r
<1>3. QED
  BY <1>1, <1>2, BeginType

\* Reading a debit note to void changes no row.
LEMMA VoidDebitNoteReadTypes ==
    ASSUME TypeInv, NEW w \in Workers, NEW d \in DebitNotes, VoidDebitNoteRead(w, d)
    PROVE  TypeInv' /\ RowChange
<1> DEFINE r == [op |-> "voidDebitNote", debitNote |-> d]
<1>1. Begin(w, r)
  BY DEF VoidDebitNoteRead
<1>2. r \in Request /\ WellFormed(r)
  BY DEF Request, WellFormed
<1> HIDE DEF r
<1>3. QED
  BY <1>1, <1>2, BeginType

\* A request that gives up changes no row.
LEMMA AbortTypes ==
    ASSUME TypeInv, NEW w \in Workers, Abort(w)
    PROVE  TypeInv' /\ RowChange
<1>1. UNCHANGED rows /\ Finish(w)
  BY DEF Abort
<1>2. TypeOK'
  BY <1>1, FinishType DEF TypeInv, TypeOK, rows
<1>3. QED
  BY <1>1, <1>2, FinishType DEF TypeInv, References, LinesShaped, rows, RowChange

-----------------------------------------------------------------------------
(* The types are an invariant, and every step changes the rows so.           *)

\* The empty subledger is typed.
LEMMA InitTypes == Init => TypeInv
<1> SUFFICES ASSUME Init
             PROVE  TypeInv
  OBVIOUS
<1>1. NoSplit \in Split
  BY NoSplitType
<1>2. /\ bill \in [Bills -> Bill] /\ debitNote \in [DebitNotes -> DebitNote]
      /\ debitAllocation \in [DebitAllocations -> DebitAllocation]
      /\ layer \in [Bills -> Layer] /\ payable \in Int
  BY DEF Init, NoBill, Bill, DebitNote, DebitAllocation, Layer
<1>3. payment \in [Payments -> Payment] /\ allocation \in [Allocations -> Allocation]
  BY <1>1 DEF Init, Payment, Allocation
<1>4. run \in [Runs -> Run]
  BY DEF Init, Run, Line
<1>5. request \in [Workers -> Request]
  BY DEF Init, Request
<1>6. Requests
  BY DEF Init, Requests, WellFormed, Idle
<1>7. References
  <2>1. Shaped(NoSplit)
    BY NoSplitShaped
  <2>2. QED
    BY <2>1 DEF Init, References
<1>8. LinesShaped
  BY DEF Init, LinesShaped, LineShaped
<1>9. QED
  BY <1>2, <1>3, <1>4, <1>5, <1>6, <1>7, <1>8 DEF TypeInv, TypeOK

\* Every step keeps the rows typed and is one RowChange.
LEMMA StepTypes ==
    ASSUME TypeInv, [Next]_vars
    PROVE  TypeInv' /\ RowChange
<1>1. CASE BillNext
  BY <1>1, FinalizeBillChange, VoidBillChange DEF BillNext, RowChange
<1>2. ASSUME NEW w \in Workers, NEW p \in Payments, NEW amount \in Amounts,
             NEW rate \in PaymentRates, NEW list \in AllocationLists,
             CreatePaymentRead(w, p, amount, rate, list)
      PROVE  TypeInv' /\ RowChange
  BY <1>2, CreatePaymentReadTypes
<1>3. ASSUME NEW w \in Workers, NEW p \in Payments, NEW u \in Allocations, NEW b \in Bills,
             NEW amount \in Amounts, ApplyUnappliedRead(w, u, p, b, amount)
      PROVE  TypeInv' /\ RowChange
  BY <1>3, ApplyUnappliedReadTypes
<1>4. ASSUME NEW w \in Workers,
             \/ \E p \in Payments : VoidPaymentRead(w, p)
             \/ CreatePaymentCommit(w)
             \/ ApplyUnappliedCommit(w)
             \/ VoidPaymentCommit(w)
      PROVE  TypeInv' /\ RowChange
  BY <1>4, VoidPaymentReadTypes, CreatePaymentChange, ApplyUnappliedChange, VoidPaymentChange
     DEF RowChange
<1>5. ASSUME NEW u \in Allocations, ReverseUnappliedAllocation(u)
      PROVE  TypeInv' /\ RowChange
  BY <1>5, ReverseUnappliedChange DEF RowChange
<1>6. CASE PaymentNext
  BY <1>2, <1>3, <1>4, <1>5, <1>6, Zenon DEF PaymentNext
<1>7. CASE DebitNoteNext
  <2>1. ASSUME NEW d \in DebitNotes, NEW total \in DebitTotals, FinalizeDebitNote(d, total)
        PROVE  TypeInv' /\ RowChange
    BY <2>1, FinalizeDebitNoteChange DEF RowChange
  <2>2. ASSUME NEW d \in DebitNotes, NEW k \in DebitAllocations, NEW b \in Bills,
               NEW amount \in DebitTotals, ApplyDebitNote(k, d, b, amount)
        PROVE  TypeInv' /\ RowChange
    BY <2>2, ApplyDebitNoteChange DEF RowChange
  <2>3. ASSUME NEW d \in DebitNotes, NEW w \in Workers, VoidDebitNoteRead(w, d)
        PROVE  TypeInv' /\ RowChange
    BY <2>3, VoidDebitNoteReadTypes
  <2>4. ASSUME NEW k \in DebitAllocations, ReverseDebitAllocation(k)
        PROVE  TypeInv' /\ RowChange
    BY <2>4, ReverseDebitChange DEF RowChange
  <2>5. ASSUME NEW w \in Workers, VoidDebitNoteCommit(w)
        PROVE  TypeInv' /\ RowChange
    BY <2>5, VoidDebitNoteChange DEF RowChange
  <2>6. QED
    BY <1>7, <2>1, <2>2, <2>3, <2>4, <2>5, Zenon DEF DebitNoteNext
<1>8. CASE RevaluationNext
  BY <1>8, RevaluationTypes DEF RowChange
<1>9. ASSUME NEW w \in Workers, Abort(w)
      PROVE  TypeInv' /\ RowChange
  BY <1>9, AbortTypes
<1>10. CASE UNCHANGED vars
  <2>1. UNCHANGED rows /\ UNCHANGED request
    BY <1>10 DEF vars, rows
  <2>2. TypeOK'
    BY <2>1, RequestsKept DEF TypeInv, TypeOK, rows
  <2>3. QED
    BY <2>1, <2>2, RequestsKept DEF TypeInv, References, LinesShaped, rows, RowChange
<1>11. QED
  BY <1>1, <1>6, <1>7, <1>8, <1>9, <1>10 DEF Next

-----------------------------------------------------------------------------
(* What the splits in force take, by any measure of a split.                 *)

Measure == {m \in [Split -> Nat] : m[NoSplit] = 0}

Directs == [Payments -> Split]
Laters == [Allocations -> Split]

Measured(m, direct, later) ==
    Total(Payments, [p \in Payments |-> m[direct[p]]])
      + Total(Allocations, [u \in Allocations |-> m[later[u]]])

Both(direct, later) ==
    {direct[p] : p \in Payments} \cup {later[u] : u \in Allocations}

\* Afterwards one more split is in force.
Joined(direct, later, directAfter, laterAfter, split) ==
    \/ \E p \in Payments : /\ direct[p] = NoSplit
                           /\ directAfter = [direct EXCEPT ![p] = split]
                           /\ laterAfter = later
    \/ \E u \in Allocations : /\ later[u] = NoSplit
                              /\ laterAfter = [later EXCEPT ![u] = split]
                              /\ directAfter = direct

\* A measure of the splits in force is a natural number, no less than that of any split.
LEMMA MeasuredTypes ==
    ASSUME NEW m \in Measure, NEW direct \in Directs, NEW later \in Laters
    PROVE  /\ [p \in Payments |-> m[direct[p]]] \in [Payments -> Nat]
           /\ [u \in Allocations |-> m[later[u]]] \in [Allocations -> Nat]
           /\ Measured(m, direct, later) \in Nat
           /\ \A s \in Both(direct, later) : s \in Split /\ m[s] <= Measured(m, direct, later)
<1> DEFINE f == [p \in Payments |-> m[direct[p]]]
           g == [u \in Allocations |-> m[later[u]]]
<1>1. f \in [Payments -> Nat] /\ g \in [Allocations -> Nat]
  BY DEF Measure, Directs, Laters
<1>2. /\ \A p \in Payments : f[p] = m[direct[p]] /\ direct[p] \in Split
      /\ \A u \in Allocations : g[u] = m[later[u]] /\ later[u] \in Split
  BY DEF Directs, Laters
<1>3. Measured(m, direct, later) = Total(Payments, f) + Total(Allocations, g)
  BY DEF Measured
<1>7. /\ [p \in Payments |-> m[direct[p]]] = f
      /\ [u \in Allocations |-> m[later[u]]] = g
  OBVIOUS
<1> HIDE DEF f, g
<1>4. Total(Payments, f) \in Nat /\ Total(Allocations, g) \in Nat
  BY <1>1, TotalType, FiniteRows
<1>5. /\ \A p \in Payments : f[p] <= Total(Payments, f) /\ f[p] \in Nat
      /\ \A u \in Allocations : g[u] <= Total(Allocations, g) /\ g[u] \in Nat
  BY <1>1, TotalBounds, FiniteRows
<1>6. ASSUME NEW s \in Both(direct, later)
      PROVE  s \in Split /\ m[s] <= Measured(m, direct, later)
  <2>1. CASE \E p \in Payments : s = direct[p]
    BY <1>2, <1>3, <1>4, <1>5, <2>1
  <2>2. CASE \E u \in Allocations : s = later[u]
    BY <1>2, <1>3, <1>4, <1>5, <2>2
  <2>3. QED
    BY <2>1, <2>2 DEF Both
<1>8. QED
  BY <1>1, <1>3, <1>4, <1>6, <1>7

\* No splits, nothing taken.
LEMMA MeasuredNone ==
    ASSUME NEW m \in Measure, NEW direct \in Directs, NEW later \in Laters,
           \A s \in Both(direct, later) : m[s] = 0
    PROVE  Measured(m, direct, later) = 0
<1>1. /\ \A p \in Payments : m[direct[p]] = 0
      /\ \A u \in Allocations : m[later[u]] = 0
  BY DEF Both
<1>2. Total(Payments, [p \in Payments |-> m[direct[p]]]) = 0
  BY <1>1, MeasuredTypes, TotalZero
<1>3. Total(Allocations, [u \in Allocations |-> m[later[u]]]) = 0
  BY <1>1, MeasuredTypes, TotalZero
<1>4. QED
  BY <1>2, <1>3 DEF Measured

\* Two measures that agree on the splits in force.
LEMMA MeasuredSame ==
    ASSUME NEW m \in Measure, NEW n \in Measure, NEW direct \in Directs, NEW later \in Laters,
           \A s \in Both(direct, later) : m[s] = n[s]
    PROVE  Measured(m, direct, later) = Measured(n, direct, later)
<1>1. /\ \A p \in Payments : m[direct[p]] = n[direct[p]]
      /\ \A u \in Allocations : m[later[u]] = n[later[u]]
  BY DEF Both
<1>2. /\ [p \in Payments |-> m[direct[p]]] = [p \in Payments |-> n[direct[p]]]
      /\ [u \in Allocations |-> m[later[u]]] = [u \in Allocations |-> n[later[u]]]
  BY <1>1
<1>3. QED
  BY <1>2 DEF Measured

\* A split that joins adds its measure.
LEMMA JoinedMeasure ==
    ASSUME NEW m \in Measure, NEW direct \in Directs, NEW later \in Laters,
           NEW directAfter, NEW laterAfter, NEW split \in Split,
           Joined(direct, later, directAfter, laterAfter, split)
    PROVE  /\ directAfter \in Directs /\ laterAfter \in Laters
           /\ Measured(m, directAfter, laterAfter) = Measured(m, direct, later) + m[split]
<1>0. m[split] \in Nat /\ m[NoSplit] = 0
  BY DEF Measure
<1> DEFINE f == [p \in Payments |-> m[direct[p]]]
           g == [u \in Allocations |-> m[later[u]]]
           h == [p \in Payments |-> m[directAfter[p]]]
           k == [u \in Allocations |-> m[laterAfter[u]]]
<1>1. /\ Measured(m, direct, later) = Total(Payments, f) + Total(Allocations, g)
      /\ Measured(m, directAfter, laterAfter) = Total(Payments, h) + Total(Allocations, k)
  BY DEF Measured
<1>2. f \in [Payments -> Nat] /\ g \in [Allocations -> Nat]
  BY MeasuredTypes
<1>3. directAfter \in Directs /\ laterAfter \in Laters
  BY DEF Joined, Directs, Laters
<1>4. h \in [Payments -> Nat] /\ k \in [Allocations -> Nat]
  BY <1>3, MeasuredTypes
<1>5. /\ Total(Payments, f) \in Nat /\ Total(Allocations, g) \in Nat
      /\ Total(Payments, h) \in Nat /\ Total(Allocations, k) \in Nat
  <2> HIDE DEF f, g, h, k
  <2>1. QED
    BY <1>2, <1>4, TotalType, FiniteRows
<1>6. ASSUME NEW p \in Payments, direct[p] = NoSplit,
             directAfter = [direct EXCEPT ![p] = split], laterAfter = later
      PROVE  Measured(m, directAfter, laterAfter) = Measured(m, direct, later) + m[split]
  <2>1. f[p] = 0 /\ h[p] = m[split] /\ \A q \in Payments \ {p} : f[q] = h[q]
    BY <1>0, <1>6 DEF Directs
  <2>2. k = g
    BY <1>6
  <2> HIDE DEF f, g, h, k
  <2>3. Total(Payments, h) = Total(Payments, f) - f[p] + h[p]
    BY <1>2, <1>4, <2>1, TotalUpdate, FiniteRows
  <2>4. QED
    BY <1>0, <1>1, <1>5, <2>1, <2>2, <2>3
<1>7. ASSUME NEW u \in Allocations, later[u] = NoSplit,
             laterAfter = [later EXCEPT ![u] = split], directAfter = direct
      PROVE  Measured(m, directAfter, laterAfter) = Measured(m, direct, later) + m[split]
  <2>1. g[u] = 0 /\ k[u] = m[split] /\ \A q \in Allocations \ {u} : g[q] = k[q]
    BY <1>0, <1>7 DEF Laters
  <2>2. h = f
    BY <1>7
  <2> HIDE DEF f, g, h, k
  <2>3. Total(Allocations, k) = Total(Allocations, g) - g[u] + k[u]
    BY <1>2, <1>4, <2>1, TotalUpdate, FiniteRows
  <2>4. QED
    BY <1>0, <1>1, <1>5, <2>1, <2>2, <2>3
<1>8. QED
  BY <1>3, <1>6, <1>7 DEF Joined

\* A split that joins is the only new one in force.
LEMMA JoinedSplits ==
    ASSUME NEW direct \in Directs, NEW later \in Laters,
           NEW directAfter, NEW laterAfter, NEW split \in Split,
           Joined(direct, later, directAfter, laterAfter, split)
    PROVE  /\ Both(directAfter, laterAfter) \subseteq Both(direct, later) \cup {split}
           /\ Both(direct, later) \subseteq Both(directAfter, laterAfter) \cup {NoSplit}
<1>1. ASSUME NEW p \in Payments, direct[p] = NoSplit,
             directAfter = [direct EXCEPT ![p] = split], laterAfter = later
      PROVE  /\ Both(directAfter, laterAfter) \subseteq Both(direct, later) \cup {split}
             /\ Both(direct, later) \subseteq Both(directAfter, laterAfter) \cup {NoSplit}
  <2>1. \A q \in Payments : IF q = p THEN directAfter[q] = split ELSE directAfter[q] = direct[q]
    BY <1>1 DEF Directs
  <2>2. QED
    BY <1>1, <2>1 DEF Both
<1>2. ASSUME NEW u \in Allocations, later[u] = NoSplit,
             laterAfter = [later EXCEPT ![u] = split], directAfter = direct
      PROVE  /\ Both(directAfter, laterAfter) \subseteq Both(direct, later) \cup {split}
             /\ Both(direct, later) \subseteq Both(directAfter, laterAfter) \cup {NoSplit}
  <2>1. \A q \in Allocations : IF q = u THEN laterAfter[q] = split ELSE laterAfter[q] = later[q]
    BY <1>2 DEF Laters
  <2>2. QED
    BY <1>2, <2>1 DEF Both
<1>3. QED
  BY <1>1, <1>2 DEF Joined

-----------------------------------------------------------------------------
(* What is in force against a bill.                                          *)

Taken(m, b) == Measured(m, DirectOf(b), LaterOf(b))
InForce(b) == Both(DirectOf(b), LaterOf(b))

SplitsTyped == \A b \in Bills : DirectOf(b) \in Directs /\ LaterOf(b) \in Laters

\* The splits in force are typed.
LEMMA InForceTypes == TypeOK => SplitsTyped
<1> SUFFICES ASSUME TypeOK, NEW b \in Bills
             PROVE  DirectOf(b) \in Directs /\ LaterOf(b) \in Laters
  BY DEF SplitsTyped
<1>1. NoSplit \in Split
  BY NoSplitType
<1>2. \A p \in Payments : payment[p].splits[b] \in Split
  BY RowTypes
<1>3. \A u \in Allocations : allocation[u].split \in Split
  BY RowTypes
<1>4. QED
  BY <1>1, <1>2, <1>3 DEF DirectOf, LaterOf, Directs, Laters

\* They are typed after a step.
LEMMA InForceTypesNext == TypeOK' => SplitsTyped'
  BY InForceTypes, PTL

\* The splits of a settlement or of a restoration.
SettledBy(splits) ==
    /\ Settlement(splits)
    /\ \A b \in Bills :
         Joined(DirectOf(b), LaterOf(b), DirectOf(b)', LaterOf(b)', splits[b])

RestoredBy(splits) ==
    /\ Restoration(splits)
    /\ \A b \in Bills :
         Joined(DirectOf(b)', LaterOf(b)', DirectOf(b), LaterOf(b), splits[b])

\* Creating a payment brings its splits into force and settles them.
LEMMA CreatedSettles ==
    ASSUME TypeOK, NEW p \in Payments, NEW row \in Payment, PaymentCreated(p, row)
    PROVE  SettledBy(row.splits)
<1>1. /\ payment[p].status = "NONE" /\ row.status = "POSTED"
      /\ payment' = [payment EXCEPT ![p] = row] /\ allocation' = allocation
      /\ Settlement(row.splits)
  BY DEF PaymentCreated
<1>2. payment \in [Payments -> Payment]
  BY DEF TypeOK
<1>3. ASSUME NEW b \in Bills
      PROVE  Joined(DirectOf(b), LaterOf(b), DirectOf(b)', LaterOf(b)', row.splits[b])
  <2>1. DirectOf(b)[p] = NoSplit
    BY <1>1 DEF DirectOf
  <2>2. DirectOf(b)' = [DirectOf(b) EXCEPT ![p] = row.splits[b]]
    BY <1>1, <1>2 DEF DirectOf
  <2>3. LaterOf(b)' = LaterOf(b)
    BY <1>1 DEF LaterOf
  <2>4. QED
    BY <2>1, <2>2, <2>3 DEF Joined
<1>4. QED
  BY <1>1, <1>3 DEF SettledBy

\* Voiding a payment ends its splits and restores them.
LEMMA VoidedRestores ==
    ASSUME TypeOK, TypeOK', NEW p \in Payments, NEW row \in Payment, PaymentVoided(p, row)
    PROVE  RestoredBy(payment[p].splits)
<1>1. /\ payment[p].status = "POSTED" /\ row = [payment[p] EXCEPT !.status = "VOIDED"]
      /\ payment' = [payment EXCEPT ![p] = row] /\ allocation' = allocation
      /\ Restoration(payment[p].splits)
  BY DEF PaymentVoided
<1>2. payment \in [Payments -> Payment] /\ row.status = "VOIDED"
  BY <1>1 DEF TypeOK, Payment
<1>3. ASSUME NEW b \in Bills
      PROVE  Joined(DirectOf(b)', LaterOf(b)', DirectOf(b), LaterOf(b), payment[p].splits[b])
  <2>1. DirectOf(b)'[p] = NoSplit
    BY <1>1, <1>2 DEF DirectOf
  <2>2. DirectOf(b) = [DirectOf(b)' EXCEPT ![p] = payment[p].splits[b]]
    <3> DEFINE before == DirectOf(b)
               after == DirectOf(b)'
    <3>1. before[p] = payment[p].splits[b] /\ \A q \in Payments \ {p} : before[q] = after[q]
      BY <1>1, <1>2 DEF DirectOf
    <3>2. before \in Directs /\ after \in Directs
      BY InForceTypes, InForceTypesNext DEF SplitsTyped
    <3> HIDE DEF before, after
    <3>3. before = [after EXCEPT ![p] = payment[p].splits[b]]
      BY <3>1, <3>2 DEF Directs
    <3>4. QED
      BY <3>3 DEF before, after
  <2>3. LaterOf(b)' = LaterOf(b)
    BY <1>1 DEF LaterOf
  <2>4. QED
    BY <2>1, <2>2, <2>3 DEF Joined
<1>4. QED
  BY <1>1, <1>3 DEF RestoredBy

\* A later allocation brings one split into force and settles it.
LEMMA AppliedSettles ==
    ASSUME TypeOK, TypeOK', NEW u \in Allocations, NEW row \in Allocation, NEW p \in Payments,
           NEW paid \in Payment, AllocationApplied(u, row, p, paid)
    PROVE  SettledBy(OneSplit(row.bill, row.split))
<1>1. /\ allocation[u].status = "NONE" /\ row.status = "ACTIVE"
      /\ allocation' = [allocation EXCEPT ![u] = row]
      /\ payment' = [payment EXCEPT ![p] = paid]
      /\ paid = Unapplied(payment[p], payment[p].unappliedAmount - row.split.settlement,
                          payment[p].transactionUnappliedAmount - row.split.transaction)
      /\ Settlement(OneSplit(row.bill, row.split))
  BY DEF AllocationApplied
<1>2. payment \in [Payments -> Payment] /\ allocation \in [Allocations -> Allocation]
  BY DEF TypeOK
<1>3. paid.status = payment[p].status /\ paid.splits = payment[p].splits
  BY <1>1, <1>2 DEF Unapplied, Payment
<1>4. ASSUME NEW b \in Bills
      PROVE  Joined(DirectOf(b), LaterOf(b), DirectOf(b)', LaterOf(b)',
                    OneSplit(row.bill, row.split)[b])
  <2>1. LaterOf(b)[u] = NoSplit
    BY <1>1 DEF LaterOf
  <2>2. LaterOf(b)' = [LaterOf(b) EXCEPT ![u] = OneSplit(row.bill, row.split)[b]]
    BY <1>1, <1>2 DEF LaterOf, OneSplit
  <2>3. DirectOf(b)' = DirectOf(b)
    <3>1. \A q \in Payments : payment'[q].status = payment[q].status
                             /\ payment'[q].splits = payment[q].splits
      BY <1>1, <1>2, <1>3
    <3>2. QED
      BY <3>1 DEF DirectOf
  <2>4. QED
    BY <2>1, <2>2, <2>3 DEF Joined
<1>5. QED
  BY <1>1, <1>4 DEF SettledBy

\* Its reversal ends that split and restores it.
LEMMA ReversedRestores ==
    ASSUME TypeOK, TypeOK', NEW u \in Allocations, NEW row \in Allocation, NEW p \in Payments,
           NEW paid \in Payment, AllocationReversed(u, row, p, paid)
    PROVE  RestoredBy(OneSplit(row.bill, row.split))
<1>1. /\ allocation[u].status = "ACTIVE"
      /\ row = [allocation[u] EXCEPT !.status = "REVERSED"]
      /\ allocation' = [allocation EXCEPT ![u] = row]
      /\ payment' = [payment EXCEPT ![p] = paid]
      /\ paid = Unapplied(payment[p], payment[p].unappliedAmount + row.split.settlement,
                          payment[p].transactionUnappliedAmount + row.split.transaction)
      /\ Restoration(OneSplit(row.bill, row.split))
  BY DEF AllocationReversed
<1>2. payment \in [Payments -> Payment] /\ allocation \in [Allocations -> Allocation]
  BY DEF TypeOK
<1>3. paid.status = payment[p].status /\ paid.splits = payment[p].splits
  BY <1>1, <1>2 DEF Unapplied, Payment
<1>4. row.status = "REVERSED" /\ row.bill = allocation[u].bill /\ row.split = allocation[u].split
  BY <1>1, <1>2 DEF Allocation
<1>5. ASSUME NEW b \in Bills
      PROVE  Joined(DirectOf(b)', LaterOf(b)', DirectOf(b), LaterOf(b),
                    OneSplit(row.bill, row.split)[b])
  <2>1. LaterOf(b)'[u] = NoSplit
    BY <1>1, <1>2, <1>4 DEF LaterOf
  <2>2. LaterOf(b) = [LaterOf(b)' EXCEPT ![u] = OneSplit(row.bill, row.split)[b]]
    <3> DEFINE before == LaterOf(b)
               after == LaterOf(b)'
               split == OneSplit(row.bill, row.split)[b]
    <3>1. before[u] = split /\ \A q \in Allocations \ {u} : before[q] = after[q]
      BY <1>1, <1>2, <1>4 DEF LaterOf, OneSplit
    <3>2. before \in Laters /\ after \in Laters
      BY InForceTypes, InForceTypesNext DEF SplitsTyped
    <3> HIDE DEF before, after, split
    <3>3. before = [after EXCEPT ![u] = split]
      BY <3>1, <3>2 DEF Laters
    <3>4. QED
      BY <3>3 DEF before, after, split
  <2>3. DirectOf(b)' = DirectOf(b)
    <3>1. \A q \in Payments : payment'[q].status = payment[q].status
                             /\ payment'[q].splits = payment[q].splits
      BY <1>1, <1>2, <1>3
    <3>2. QED
      BY <3>1 DEF DirectOf
  <2>4. QED
    BY <2>1, <2>2, <2>3 DEF Joined
<1>6. QED
  BY <1>1, <1>5 DEF RestoredBy

\* The payments and allocations settle bills or give back what they took; the
\* other steps leave what is in force alone.
SplitsMoved ==
    /\ \E splits \in [Bills -> Split] : SettledBy(splits) \/ RestoredBy(splits)
    /\ UNCHANGED <<debitNote, debitAllocation, run>>

SplitsKept ==
    /\ UNCHANGED <<payment, allocation>>
    /\ \A b \in Bills : UNCHANGED <<DirectOf(b), LaterOf(b)>>

\* A change of payments or allocations settles or restores the splits it moves.
LEMMA PaymentsMove ==
    ASSUME TypeOK, TypeOK', PaymentChange \/ AllocationChange
    PROVE  SplitsMoved
<1>1. ASSUME NEW p \in Payments, NEW row \in Payment, PaymentCreated(p, row)
      PROVE  SplitsMoved
  BY <1>1, CreatedSettles DEF SplitsMoved, PaymentCreated, Settlement
<1>2. ASSUME NEW p \in Payments, NEW row \in Payment, PaymentVoided(p, row)
      PROVE  SplitsMoved
  BY <1>2, VoidedRestores DEF SplitsMoved, PaymentVoided, Restoration
<1>3. ASSUME NEW u \in Allocations, NEW row \in Allocation, NEW p \in Payments,
             NEW paid \in Payment, AllocationApplied(u, row, p, paid)
      PROVE  SplitsMoved
  <2>1. SettledBy(OneSplit(row.bill, row.split))
    BY <1>3, AppliedSettles
  <2>2. OneSplit(row.bill, row.split) \in [Bills -> Split]
    BY <2>1 DEF SettledBy, Settlement
  <2>3. UNCHANGED <<debitNote, debitAllocation, run>>
    BY <1>3 DEF AllocationApplied
  <2>4. QED
    BY <2>1, <2>2, <2>3 DEF SplitsMoved
<1>4. ASSUME NEW u \in Allocations, NEW row \in Allocation, NEW p \in Payments,
             NEW paid \in Payment, AllocationReversed(u, row, p, paid)
      PROVE  SplitsMoved
  <2>1. RestoredBy(OneSplit(row.bill, row.split))
    BY <1>4, ReversedRestores
  <2>2. OneSplit(row.bill, row.split) \in [Bills -> Split]
    BY <2>1 DEF RestoredBy, Restoration
  <2>3. UNCHANGED <<debitNote, debitAllocation, run>>
    BY <1>4 DEF AllocationReversed
  <2>4. QED
    BY <2>1, <2>2, <2>3 DEF SplitsMoved
<1>5. QED
  BY <1>1, <1>2, <1>3, <1>4 DEF PaymentChange, AllocationChange

\* No other change moves a split.
LEMMA OthersKeep ==
    ASSUME UNCHANGED <<payment, allocation>>
    PROVE  SplitsKept
  BY DEF SplitsKept, DirectOf, LaterOf

\* A settlement or a restoration changes what is taken by what its splits
\* measure.
LEMMA SettledTaken ==
    ASSUME TypeOK, NEW splits \in [Bills -> Split], SettledBy(splits), NEW b \in Bills
    PROVE  /\ \A m \in Measure : /\ Taken(m, b) \in Nat
                                 /\ Taken(m, b)' = Taken(m, b) + m[splits[b]]
           /\ InForce(b)' \subseteq InForce(b) \cup {splits[b]}
  BY InForceTypes, JoinedMeasure, JoinedSplits, MeasuredTypes
     DEF SplitsTyped, SettledBy, Taken, InForce

\* A restored split leaves every measure of its bill.
LEMMA RestoredTaken ==
    ASSUME TypeOK, TypeOK', NEW splits \in [Bills -> Split], RestoredBy(splits), NEW b \in Bills
    PROVE  /\ \A m \in Measure : /\ Taken(m, b)' \in Nat
                                 /\ Taken(m, b) = Taken(m, b)' + m[splits[b]]
           /\ InForce(b)' \subseteq InForce(b) \cup {NoSplit}
  BY InForceTypesNext, JoinedMeasure, JoinedSplits, MeasuredTypes
     DEF SplitsTyped, RestoredBy, Taken, InForce

Transactions == [s \in Split |-> s.transaction]
Sources == [s \in Split |-> s.source]
Documents == [s \in Split |-> s.document]
TransactionsUnder(r) == [s \in Split |-> IF s.line = r THEN s.transaction ELSE 0]
DocumentsUnder(r) == [s \in Split |-> IF s.line = r THEN s.document ELSE 0]

\* The amounts the laws of bills and layers add up are measures.
LEMMA Measures ==
    /\ Transactions \in Measure /\ Sources \in Measure /\ Documents \in Measure
    /\ \A r : TransactionsUnder(r) \in Measure /\ DocumentsUnder(r) \in Measure
    /\ \A s \in Split : /\ Transactions[s] = s.transaction /\ Sources[s] = s.source
                        /\ Documents[s] = s.document
<1>1. NoSplit \in Split /\ NoSplit.transaction = 0 /\ NoSplit.source = 0 /\ NoSplit.document = 0
  BY NoSplitType DEF NoSplit
<1>2. \A s \in Split : s.transaction \in Nat /\ s.source \in Nat /\ s.document \in Nat
  BY DEF Split
<1>3. Transactions \in Measure /\ Sources \in Measure /\ Documents \in Measure
  BY <1>1, <1>2 DEF Measure, Transactions, Sources, Documents
<1>4. \A r : TransactionsUnder(r) \in Measure /\ DocumentsUnder(r) \in Measure
  BY <1>1, <1>2 DEF Measure, TransactionsUnder, DocumentsUnder
<1>5. QED
  BY <1>3, <1>4 DEF Transactions, Sources, Documents

-----------------------------------------------------------------------------
(* Bills are conserved.                                                      *)

Debited(b) == Total(DebitAllocations, DebitedTo(b))

BillLaw(b) ==
    /\ bill[b].status = "FINALIZED" =>
         /\ bill[b].transactionTotal
              = bill[b].transactionBalanceDue + Taken(Transactions, b)
         /\ bill[b].total = bill[b].balanceDue + Taken(Sources, b) + Debited(b)
    /\ bill[b].status = "NONE" =>
         /\ InForce(b) \subseteq {NoSplit}
         /\ \A k \in DebitAllocations : DebitedTo(b)[k] = 0

BillLaws == \A b \in Bills : BillLaw(b)

\* What is taken by each measure, in the terms of the properties.
LEMMA TakenFields ==
    ASSUME TypeOK, NEW b \in Bills
    PROVE  /\ Taken(Transactions, b)
                = Total(Payments, [p \in Payments |-> DirectOf(b)[p].transaction])
                  + Total(Allocations, [u \in Allocations |-> LaterOf(b)[u].transaction])
           /\ Taken(Sources, b)
                = Total(Payments, [p \in Payments |-> DirectOf(b)[p].source])
                  + Total(Allocations, [u \in Allocations |-> LaterOf(b)[u].source])
           /\ Total(Payments, [p \in Payments |-> DirectOf(b)[p].transaction]) \in Nat
           /\ Total(Allocations, [u \in Allocations |-> LaterOf(b)[u].transaction]) \in Nat
           /\ Total(Payments, [p \in Payments |-> DirectOf(b)[p].source]) \in Nat
           /\ Total(Allocations, [u \in Allocations |-> LaterOf(b)[u].source]) \in Nat
<1>1. DirectOf(b) \in Directs /\ LaterOf(b) \in Laters
  BY InForceTypes DEF SplitsTyped
<1>2. /\ \A p \in Payments : DirectOf(b)[p] \in Split
      /\ \A u \in Allocations : LaterOf(b)[u] \in Split
  BY <1>1 DEF Directs, Laters
<1>3. /\ [p \in Payments |-> Transactions[DirectOf(b)[p]]]
           = [p \in Payments |-> DirectOf(b)[p].transaction]
      /\ [u \in Allocations |-> Transactions[LaterOf(b)[u]]]
           = [u \in Allocations |-> LaterOf(b)[u].transaction]
      /\ [p \in Payments |-> Sources[DirectOf(b)[p]]]
           = [p \in Payments |-> DirectOf(b)[p].source]
      /\ [u \in Allocations |-> Sources[LaterOf(b)[u]]]
           = [u \in Allocations |-> LaterOf(b)[u].source]
  BY <1>2, Measures
<1>4. /\ [p \in Payments |-> DirectOf(b)[p].transaction] \in [Payments -> Nat]
      /\ [u \in Allocations |-> LaterOf(b)[u].transaction] \in [Allocations -> Nat]
      /\ [p \in Payments |-> DirectOf(b)[p].source] \in [Payments -> Nat]
      /\ [u \in Allocations |-> LaterOf(b)[u].source] \in [Allocations -> Nat]
  BY <1>2 DEF Split
<1>5. QED
  BY <1>3, <1>4, TotalType, FiniteRows DEF Taken, Measured

\* What debit notes took from a bill is a natural number.
LEMMA DebitedTypes ==
    ASSUME TypeOK, NEW b \in Bills
    PROVE  DebitedTo(b) \in [DebitAllocations -> Nat] /\ Debited(b) \in Nat
<1>1. \A k \in DebitAllocations : debitAllocation[k].amount \in Nat
  BY RowTypes
<1>2. DebitedTo(b) \in [DebitAllocations -> Nat]
  BY <1>1 DEF DebitedTo
<1>3. QED
  BY <1>2, TotalType, FiniteRows DEF Debited

\* What a debit note takes from a bill is added to what it was debited.
LEMMA DebitApplied ==
    ASSUME TypeOK, NEW k \in DebitAllocations, NEW d \in DebitNotes, NEW b \in Bills,
           NEW amount \in Nat, debitAllocation[k].status = "NONE",
           debitAllocation' = [debitAllocation EXCEPT ![k] =
             [status |-> "ACTIVE", debitNote |-> d, bill |-> b, amount |-> amount]]
    PROVE  /\ Debited(b)' = Debited(b) + amount
           /\ \A c \in Bills \ {b} : DebitedTo(c)' = DebitedTo(c)
<1>1. debitAllocation \in [DebitAllocations -> DebitAllocation]
  BY DEF TypeOK
<1>2. /\ debitAllocation'[k] = [status |-> "ACTIVE", debitNote |-> d, bill |-> b,
                                amount |-> amount]
      /\ \A j \in DebitAllocations \ {k} : debitAllocation'[j] = debitAllocation[j]
  BY <1>1
<1> DEFINE f == DebitedTo(b)
           g == DebitedTo(b)'
<1>3. /\ f[k] = 0 /\ g[k] = amount
      /\ \A j \in DebitAllocations \ {k} : f[j] = g[j]
      /\ g = [j \in DebitAllocations |-> g[j]]
  BY <1>2 DEF DebitedTo
<1>4. f \in [DebitAllocations -> Nat] /\ Total(DebitAllocations, f) \in Nat
  BY DebitedTypes DEF Debited
<1>5. Debited(b) = Total(DebitAllocations, f) /\ Debited(b)' = Total(DebitAllocations, g)
  BY DEF Debited
<1>6. ASSUME NEW c \in Bills \ {b} PROVE DebitedTo(c)' = DebitedTo(c)
  BY <1>2 DEF DebitedTo
<1> HIDE DEF f, g
<1>7. g \in [DebitAllocations -> Nat]
  BY <1>3, <1>4
<1>8. Total(DebitAllocations, g) = Total(DebitAllocations, f) - f[k] + g[k]
  BY <1>3, <1>4, <1>7, TotalUpdate, FiniteRows
<1>9. QED
  BY <1>3, <1>4, <1>5, <1>6, <1>8

\* Reversing a debit allocation lowers what was debited to its bill alone.
LEMMA DebitGivenBack ==
    ASSUME TypeOK, NEW k \in DebitAllocations, NEW b \in Bills,
           debitAllocation[k].status = "ACTIVE", debitAllocation[k].bill = b,
           debitAllocation' = [debitAllocation EXCEPT ![k].status = "REVERSED"]
    PROVE  /\ Debited(b) = Debited(b)' + debitAllocation[k].amount
           /\ Debited(b)' \in Nat
           /\ \A c \in Bills \ {b} : DebitedTo(c)' = DebitedTo(c)
<1>1. debitAllocation \in [DebitAllocations -> DebitAllocation] /\ debitAllocation[k].amount \in Nat
  BY RowTypes DEF TypeOK
<1> DEFINE amount == debitAllocation[k].amount
<1>2. /\ debitAllocation'[k].status = "REVERSED"
      /\ \A j \in DebitAllocations \ {k} : debitAllocation'[j] = debitAllocation[j]
  BY <1>1 DEF DebitAllocation
<1> DEFINE f == DebitedTo(b)
           g == DebitedTo(b)'
<1>3. /\ f[k] = amount /\ g[k] = 0
      /\ \A j \in DebitAllocations \ {k} : f[j] = g[j]
      /\ g = [j \in DebitAllocations |-> g[j]]
  BY <1>2 DEF DebitedTo
<1>4. f \in [DebitAllocations -> Nat] /\ Total(DebitAllocations, f) \in Nat
  BY DebitedTypes DEF Debited
<1>5. Debited(b) = Total(DebitAllocations, f) /\ Debited(b)' = Total(DebitAllocations, g)
  BY DEF Debited
<1>6. ASSUME NEW c \in Bills \ {b} PROVE DebitedTo(c)' = DebitedTo(c)
  BY <1>2 DEF DebitedTo
<1> HIDE DEF f, g
<1>7. g \in [DebitAllocations -> Nat]
  BY <1>3, <1>4
<1>8. /\ Total(DebitAllocations, g) = Total(DebitAllocations, f) - f[k] + g[k]
      /\ Total(DebitAllocations, g) \in Nat
  BY <1>3, <1>4, <1>7, TotalUpdate, TotalType, FiniteRows
<1>9. QED
  BY <1>1, <1>3, <1>4, <1>5, <1>6, <1>8

-----------------------------------------------------------------------------

\* Finalizing a bill keeps the law of every bill.
LEMMA BillsFinalized ==
    ASSUME TypeInv, TypeInv', BillLaws, NEW c \in Bills, NEW row \in Bill, BillFinalized(c, row),
           NEW b \in Bills
    PROVE  BillLaw(b)'
<1>1. /\ bill[c].status = "NONE" /\ row.status = "FINALIZED"
      /\ row.transactionBalanceDue = row.transactionTotal /\ row.balanceDue = row.total
      /\ bill' = [bill EXCEPT ![c] = row]
      /\ UNCHANGED <<payment, allocation, debitNote, debitAllocation, layer, run>>
  BY DEF BillFinalized
<1>2. bill \in [Bills -> Bill] /\ TypeOK
  BY DEF TypeInv, TypeOK
<1>3. DirectOf(b)' = DirectOf(b) /\ LaterOf(b)' = LaterOf(b) /\ DebitedTo(b)' = DebitedTo(b)
  BY <1>1 DEF DirectOf, LaterOf, DebitedTo
<1>4. /\ \A m : Taken(m, b)' = Taken(m, b)
      /\ InForce(b)' = InForce(b) /\ Debited(b)' = Debited(b)
  BY <1>3 DEF Taken, InForce, Debited
<1>5. CASE b = c
  <2>1. InForce(b) \subseteq {NoSplit} /\ \A k \in DebitAllocations : DebitedTo(b)[k] = 0
    BY <1>1, <1>5 DEF BillLaws, BillLaw
  <2>2. Taken(Transactions, b) = 0 /\ Taken(Sources, b) = 0
    <3>1. \A m \in Measure : \A s \in InForce(b) : m[s] = 0
      BY <2>1 DEF Measure
    <3>2. DirectOf(b) \in Directs /\ LaterOf(b) \in Laters
      BY <1>2, InForceTypes DEF SplitsTyped
    <3>3. \A m \in Measure : Measured(m, DirectOf(b), LaterOf(b)) = 0
      BY <3>1, <3>2, MeasuredNone DEF InForce
    <3>4. QED
      BY <3>3, Measures DEF Taken
  <2>3. Debited(b) = 0
    BY <1>2, <2>1, DebitedTypes, TotalZero DEF Debited
  <2>4. bill'[b] = row /\ row.total \in Nat /\ row.transactionTotal \in Nat
    BY <1>1, <1>2, <1>5 DEF Bill
  <2>5. Taken(Transactions, b)' = 0 /\ Taken(Sources, b)' = 0 /\ Debited(b)' = 0
    BY <1>4, <2>2, <2>3
  <2>6. QED
    BY <1>1, <2>4, <2>5 DEF BillLaw
<1>6. CASE b # c
  <2>1. bill'[b] = bill[b]
    BY <1>1, <1>2, <1>6
  <2>2. BillLaw(b)
    BY DEF BillLaws
  <2>3. QED
    BY <1>3, <1>4, <2>1, <2>2 DEF BillLaw
<1>7. QED
  BY <1>5, <1>6

\* Voiding a bill keeps the law of every bill.
LEMMA BillsVoided ==
    ASSUME TypeInv, TypeInv', BillLaws, NEW c \in Bills, NEW row \in Bill, BillVoided(c, row),
           NEW b \in Bills
    PROVE  BillLaw(b)'
<1>1. /\ row.status = "VOIDED"
      /\ bill' = [bill EXCEPT ![c] = row]
      /\ UNCHANGED <<payment, allocation, debitNote, debitAllocation, layer, run>>
  BY DEF BillVoided
<1>2. bill \in [Bills -> Bill]
  BY DEF TypeInv, TypeOK
<1>3. DirectOf(b)' = DirectOf(b) /\ LaterOf(b)' = LaterOf(b) /\ DebitedTo(b)' = DebitedTo(b)
  BY <1>1 DEF DirectOf, LaterOf, DebitedTo
<1>4. /\ \A m : Taken(m, b)' = Taken(m, b)
      /\ InForce(b)' = InForce(b) /\ Debited(b)' = Debited(b)
  BY <1>3 DEF Taken, InForce, Debited
<1>5. CASE b = c
  BY <1>1, <1>2, <1>5 DEF BillLaw
<1>6. CASE b # c
  <2>1. bill'[b] = bill[b]
    BY <1>1, <1>2, <1>6
  <2>2. BillLaw(b)
    BY DEF BillLaws
  <2>3. QED
    BY <1>3, <1>4, <2>1, <2>2 DEF BillLaw
<1>7. QED
  BY <1>5, <1>6

\* A settlement keeps the law of every bill.
LEMMA BillsSettled ==
    ASSUME TypeInv, TypeInv', BillLaws, NEW splits \in [Bills -> Split], SettledBy(splits),
           UNCHANGED debitAllocation, NEW b \in Bills
    PROVE  BillLaw(b)'
<1>1. TypeOK /\ BillLaw(b) /\ splits[b] \in Split /\ Claims(b, splits[b])
  BY DEF TypeInv, BillLaws, SettledBy, Settlement
<1>2. /\ bill'[b].status = bill[b].status /\ bill'[b].total = bill[b].total
      /\ bill'[b].transactionTotal = bill[b].transactionTotal
      /\ bill'[b].balanceDue = bill[b].balanceDue - splits[b].source
      /\ bill'[b].transactionBalanceDue = bill[b].transactionBalanceDue - splits[b].transaction
  BY <1>1, SettlementTypes DEF SettledBy
<1>3. /\ Taken(Transactions, b) \in Nat /\ Taken(Sources, b) \in Nat
      /\ Taken(Transactions, b)' = Taken(Transactions, b) + splits[b].transaction
      /\ Taken(Sources, b)' = Taken(Sources, b) + splits[b].source
      /\ InForce(b)' \subseteq InForce(b) \cup {splits[b]}
  <2>1. /\ \A m \in Measure : /\ Taken(m, b) \in Nat
                              /\ Taken(m, b)' = Taken(m, b) + m[splits[b]]
        /\ InForce(b)' \subseteq InForce(b) \cup {splits[b]}
    BY <1>1, SettledTaken
  <2>2. Transactions[splits[b]] = splits[b].transaction /\ Sources[splits[b]] = splits[b].source
    BY <1>1, Measures
  <2>3. Transactions \in Measure /\ Sources \in Measure
    BY Measures
  <2>4. Taken(Transactions, b)' = Taken(Transactions, b) + Transactions[splits[b]]
    BY <2>1, <2>3
  <2>5. Taken(Sources, b)' = Taken(Sources, b) + Sources[splits[b]]
    BY <2>1, <2>3
  <2>6. QED
    BY <2>1, <2>2, <2>3, <2>4, <2>5
<1>4. DebitedTo(b)' = DebitedTo(b) /\ Debited(b)' = Debited(b) /\ Debited(b) \in Nat
  BY <1>1, DebitedTypes DEF DebitedTo, Debited
<1>5. CASE bill[b].status = "FINALIZED"
  <2>1. /\ bill[b].transactionBalanceDue \in Nat /\ bill[b].balanceDue \in Nat
        /\ splits[b].transaction \in Nat /\ splits[b].source \in Nat
    BY <1>1, RowTypes DEF Split
  <2>2. /\ bill[b].transactionTotal = bill[b].transactionBalanceDue + Taken(Transactions, b)
        /\ bill[b].total = bill[b].balanceDue + Taken(Sources, b) + Debited(b)
    BY <1>1, <1>5 DEF BillLaw
  <2>3. /\ bill'[b].transactionTotal = bill'[b].transactionBalanceDue + Taken(Transactions, b)'
        /\ bill'[b].total = bill'[b].balanceDue + Taken(Sources, b)' + Debited(b)'
    BY <1>2, <1>3, <1>4, <2>1, <2>2
  <2>4. QED
    BY <1>2, <1>5, <2>3 DEF BillLaw
<1>6. CASE bill[b].status # "FINALIZED"
  <2>1. splits[b] = NoSplit
    BY <1>1, <1>6 DEF Claims, Claimable
  <2>2. QED
    BY <1>1, <1>2, <1>3, <1>4, <1>6, <2>1 DEF BillLaw
<1>7. QED
  BY <1>5, <1>6

\* A restoration keeps the law of every bill.
LEMMA BillsRestored ==
    ASSUME TypeInv, TypeInv', BillLaws, NEW splits \in [Bills -> Split], RestoredBy(splits),
           UNCHANGED debitAllocation, NEW b \in Bills
    PROVE  BillLaw(b)'
<1>1. TypeOK /\ TypeOK' /\ BillLaw(b) /\ splits[b] \in Split
  BY DEF TypeInv, BillLaws
<1>2. /\ bill'[b].status = bill[b].status /\ bill'[b].total = bill[b].total
      /\ bill'[b].transactionTotal = bill[b].transactionTotal
      /\ bill'[b].balanceDue = bill[b].balanceDue + splits[b].source
      /\ bill'[b].transactionBalanceDue = bill[b].transactionBalanceDue + splits[b].transaction
  BY <1>1, RestorationTypes DEF RestoredBy
<1>3. /\ Taken(Transactions, b)' \in Nat /\ Taken(Sources, b)' \in Nat
      /\ Taken(Transactions, b) = Taken(Transactions, b)' + splits[b].transaction
      /\ Taken(Sources, b) = Taken(Sources, b)' + splits[b].source
      /\ InForce(b)' \subseteq InForce(b) \cup {NoSplit}
  <2>1. /\ \A m \in Measure : /\ Taken(m, b)' \in Nat
                              /\ Taken(m, b) = Taken(m, b)' + m[splits[b]]
        /\ InForce(b)' \subseteq InForce(b) \cup {NoSplit}
    BY <1>1, RestoredTaken
  <2>2. Transactions[splits[b]] = splits[b].transaction /\ Sources[splits[b]] = splits[b].source
    BY <1>1, Measures
  <2>3. Transactions \in Measure /\ Sources \in Measure
    BY Measures
  <2>4. Taken(Transactions, b) = Taken(Transactions, b)' + Transactions[splits[b]]
    BY <2>1, <2>3
  <2>5. Taken(Sources, b) = Taken(Sources, b)' + Sources[splits[b]]
    BY <2>1, <2>3
  <2>6. QED
    BY <2>1, <2>2, <2>3, <2>4, <2>5
<1>4. DebitedTo(b)' = DebitedTo(b) /\ Debited(b)' = Debited(b) /\ Debited(b) \in Nat
  BY <1>1, DebitedTypes DEF DebitedTo, Debited
<1>5. CASE bill[b].status = "FINALIZED"
  <2>1. /\ bill[b].transactionBalanceDue \in Nat /\ bill[b].balanceDue \in Nat
        /\ splits[b].transaction \in Nat /\ splits[b].source \in Nat
    BY <1>1, RowTypes DEF Split
  <2>2. /\ bill[b].transactionTotal = bill[b].transactionBalanceDue + Taken(Transactions, b)
        /\ bill[b].total = bill[b].balanceDue + Taken(Sources, b) + Debited(b)
    BY <1>1, <1>5 DEF BillLaw
  <2>3. /\ bill'[b].transactionTotal = bill'[b].transactionBalanceDue + Taken(Transactions, b)'
        /\ bill'[b].total = bill'[b].balanceDue + Taken(Sources, b)' + Debited(b)'
    BY <1>2, <1>3, <1>4, <2>1, <2>2
  <2>4. QED
    BY <1>2, <1>5, <2>3 DEF BillLaw
<1>6. CASE bill[b].status # "FINALIZED"
  BY <1>1, <1>2, <1>3, <1>4, <1>6 DEF BillLaw
<1>7. QED
  BY <1>5, <1>6

\* A change of the base balance of one bill alone.
LEMMA BillsDebited ==
    ASSUME TypeInv, BillLaws, NEW c \in Bills, NEW due \in Nat,
           bill' = [bill EXCEPT ![c].balanceDue = due],
           UNCHANGED <<payment, allocation>>,
           bill[c].status = "FINALIZED",
           bill[c].balanceDue + Debited(c) = due + Debited(c)',
           Debited(c)' \in Nat,
           \A b \in Bills \ {c} : DebitedTo(b)' = DebitedTo(b),
           NEW b \in Bills
    PROVE  BillLaw(b)'
<1>1. /\ bill \in [Bills -> Bill] /\ TypeOK /\ BillLaw(b) /\ bill[b].balanceDue \in Nat
  BY RowTypes DEF TypeInv, TypeOK, BillLaws
<1>2. DirectOf(b)' = DirectOf(b) /\ LaterOf(b)' = LaterOf(b)
  BY DEF DirectOf, LaterOf
<1>3. (\A m : Taken(m, b)' = Taken(m, b)) /\ InForce(b)' = InForce(b)
  BY <1>2 DEF Taken, InForce
<1>4. CASE b = c
  <2>1. /\ bill'[b].status = "FINALIZED" /\ bill'[b].balanceDue = due
        /\ bill'[b].total = bill[b].total
        /\ bill'[b].transactionTotal = bill[b].transactionTotal
        /\ bill'[b].transactionBalanceDue = bill[b].transactionBalanceDue
    BY <1>1, <1>4 DEF Bill
  <2>2. /\ bill[b].transactionTotal = bill[b].transactionBalanceDue + Taken(Transactions, b)
        /\ bill[b].total = bill[b].balanceDue + Taken(Sources, b) + Debited(b)
    BY <1>1, <1>4 DEF BillLaw
  <2>3. Taken(Sources, b) \in Nat /\ Debited(b) \in Nat
    <3>1. DirectOf(b) \in Directs /\ LaterOf(b) \in Laters
      BY <1>1, InForceTypes DEF SplitsTyped
    <3>2. QED
      BY <1>1, <3>1, MeasuredTypes, Measures, DebitedTypes DEF Taken
  <2>4. bill[b].total = due + Taken(Sources, b) + Debited(b)'
    <3>1. bill[b].balanceDue + Debited(b) = due + Debited(b)' /\ Debited(b)' \in Nat
      BY <1>4
    <3>2. QED
      BY <1>1, <2>2, <2>3, <3>1
  <2>5. QED
    BY <1>3, <2>1, <2>2, <2>4 DEF BillLaw
<1>5. CASE b # c
  <2>1. bill'[b] = bill[b] /\ DebitedTo(b)' = DebitedTo(b)
    BY <1>1, <1>5
  <2>2. Debited(b)' = Debited(b)
    BY <2>1 DEF Debited
  <2>3. QED
    BY <1>1, <1>3, <2>1, <2>2 DEF BillLaw
<1>6. QED
  BY <1>4, <1>5

\* The law of bills depends on the rows alone.
LEMMA BillsKept ==
    ASSUME BillLaws, UNCHANGED <<bill, payment, allocation, debitAllocation>>
    PROVE  BillLaws'
<1>1. ASSUME NEW b \in Bills PROVE BillLaw(b)'
  <2>1. DirectOf(b)' = DirectOf(b) /\ LaterOf(b)' = LaterOf(b) /\ DebitedTo(b)' = DebitedTo(b)
    BY DEF DirectOf, LaterOf, DebitedTo
  <2>2. /\ \A m : Taken(m, b)' = Taken(m, b)
        /\ InForce(b)' = InForce(b) /\ Debited(b)' = Debited(b)
    BY <2>1 DEF Taken, InForce, Debited
  <2>3. BillLaw(b)
    BY DEF BillLaws
  <2>4. QED
    BY <2>1, <2>2, <2>3 DEF BillLaw
<1>2. QED
  BY <1>1 DEF BillLaws

\* Debit notes keep the law of every bill.
LEMMA DebitsKeepBills ==
    ASSUME TypeInv, TypeInv', BillLaws, DebitChange
    PROVE  BillLaws'
<1>1. ASSUME NEW d \in DebitNotes, NEW total \in DebitTotals, FinalizeDebitNote(d, total)
      PROVE  BillLaws'
  BY <1>1, BillsKept DEF FinalizeDebitNote
<1>2. ASSUME NEW d \in DebitNotes, NEW k \in DebitAllocations, NEW b \in Bills,
             NEW amount \in DebitTotals, ApplyDebitNote(k, d, b, amount)
      PROVE  BillLaws'
  <2>1. /\ amount \in Nat /\ amount <= bill[b].balanceDue /\ bill[b].balanceDue \in Nat
        /\ bill[b].status = "FINALIZED" /\ debitAllocation[k].status = "NONE"
        /\ bill' = [bill EXCEPT ![b].balanceDue = @ - amount]
        /\ debitAllocation' = [debitAllocation EXCEPT ![k] =
             [status |-> "ACTIVE", debitNote |-> d, bill |-> b, amount |-> amount]]
        /\ UNCHANGED <<payment, allocation>>
    BY <1>2, Positive, RowTypes DEF ApplyDebitNote, MutationAllowed, TypeInv
  <2> DEFINE due == bill[b].balanceDue - amount
  <2>2. due \in Nat /\ bill' = [bill EXCEPT ![b].balanceDue = due]
    BY <2>1
  <2>3. /\ Debited(b)' = Debited(b) + amount /\ Debited(b) \in Nat
        /\ \A c \in Bills \ {b} : DebitedTo(c)' = DebitedTo(c)
    BY <2>1, DebitApplied, DebitedTypes DEF TypeInv
  <2>4. bill[b].balanceDue + Debited(b) = due + Debited(b)' /\ Debited(b)' \in Nat
    BY <2>1, <2>3
  <2> HIDE DEF due
  <2>5. \A c \in Bills : BillLaw(c)'
    BY <2>1, <2>2, <2>3, <2>4, BillsDebited
  <2>6. QED
    BY <2>5 DEF BillLaws
<1>3. ASSUME NEW d \in DebitNotes, DebitNoteVoided(d)
      PROVE  BillLaws'
  BY <1>3, BillsKept DEF DebitNoteVoided
<1>4. ASSUME NEW k \in DebitAllocations, ReverseDebitAllocation(k)
      PROVE  BillLaws'
  <2>1. debitAllocation[k].status = "ACTIVE"
    BY <1>4 DEF ReverseDebitAllocation
  <2>2. PICK b \in Bills : debitAllocation[k].bill = b
    BY <2>1 DEF TypeInv, References
  <2> DEFINE amount == debitAllocation[k].amount
             due == bill[b].balanceDue + amount
  <2>3. /\ amount \in Nat /\ bill[b].balanceDue \in Nat
        /\ bill[b].status = "FINALIZED"
        /\ bill' = [bill EXCEPT ![b].balanceDue = due]
        /\ debitAllocation' = [debitAllocation EXCEPT ![k].status = "REVERSED"]
        /\ UNCHANGED <<payment, allocation>>
    BY <1>4, <2>2, RowTypes DEF ReverseDebitAllocation, MutationAllowed, TypeInv
  <2>4. /\ Debited(b) = Debited(b)' + amount /\ Debited(b)' \in Nat
        /\ \A c \in Bills \ {b} : DebitedTo(c)' = DebitedTo(c)
    BY <2>1, <2>2, <2>3, DebitGivenBack DEF TypeInv
  <2>5. bill[b].balanceDue + Debited(b) = due + Debited(b)' /\ due \in Nat
    BY <2>3, <2>4
  <2> HIDE DEF due
  <2>6. \A c \in Bills : BillLaw(c)'
    BY <2>3, <2>4, <2>5, BillsDebited
  <2>7. QED
    BY <2>6 DEF BillLaws
<1>5. QED
  BY <1>1, <1>2, <1>3, <1>4 DEF DebitChange

\* Every change of the rows keeps the law of every bill.
LEMMA RowsKeepBills ==
    ASSUME TypeInv, TypeInv', BillLaws, RowChange
    PROVE  BillLaws'
<1>1. CASE BillChange
  BY <1>1, BillsFinalized, BillsVoided DEF BillChange, BillLaws
<1>2. CASE PaymentChange \/ AllocationChange
  <2>1. SplitsMoved
    BY <1>2, PaymentsMove DEF TypeInv
  <2>2. PICK splits \in [Bills -> Split] : SettledBy(splits) \/ RestoredBy(splits)
    BY <2>1 DEF SplitsMoved
  <2>3. QED
    BY <2>1, <2>2, BillsSettled, BillsRestored DEF SplitsMoved, BillLaws
<1>3. CASE DebitChange
  BY <1>3, DebitsKeepBills
<1>4. CASE RevaluationNext
  <2>1. UNCHANGED <<bill, payment, allocation, debitAllocation>>
    BY <1>4 DEF RevaluationNext, PreviewRevaluation, ReviewRevaluation, PostRevaluation,
                ReverseRevaluation
  <2>2. QED
    BY <2>1, BillsKept
<1>5. CASE UNCHANGED rows
  BY <1>5, BillsKept DEF rows
<1>6. QED
  BY <1>1, <1>2, <1>3, <1>4, <1>5 DEF RowChange

\* No split and no debit is in force at the start.
LEMMA NothingInForce ==
    ASSUME Init
    PROVE  /\ \A b \in Bills : InForce(b) \subseteq {NoSplit}
           /\ \A b \in Bills, k \in DebitAllocations : DebitedTo(b)[k] = 0
  BY DEF Init, InForce, Both, DirectOf, LaterOf, DebitedTo

\* The law of bills holds at the start.
LEMMA InitBills == Init => BillLaws
  BY NothingInForce DEF Init, NoBill, BillLaws, BillLaw

\* Rows and requests keep their types whatever requests interleave: no balance,
\* layer or amount of a plan ever goes below zero.
THEOREM TypeCorrectness == Spec => []TypeOK
<1>1. TypeInv /\ [Next]_vars => TypeInv'
  BY StepTypes
<1>2. TypeInv => TypeOK
  BY DEF TypeInv
<1>3. QED
  BY <1>1, <1>2, InitTypes, PTL DEF Spec

BillInv == TypeInv /\ BillLaws

\* A finalized bill is open for its total less what is in force against it, in
\* both currencies, whatever was settled, reversed, voided or debited meanwhile.
THEOREM BillsAreConserved == Spec => []BillConserved
<1>1. Init => BillInv
  BY InitTypes, InitBills DEF BillInv
<1>2. BillInv /\ [Next]_vars => BillInv'
  BY StepTypes, RowsKeepBills DEF BillInv
<1>3. BillInv => BillConserved
  <2> SUFFICES ASSUME BillInv
               PROVE  BillConserved
    OBVIOUS
  <2>1. TypeOK
    BY DEF BillInv, TypeInv
  <2>2. ASSUME NEW b \in Bills, bill[b].status = "FINALIZED"
        PROVE  /\ bill[b].transactionTotal
                    = bill[b].transactionBalanceDue + Taken(Transactions, b)
               /\ bill[b].total = bill[b].balanceDue + Taken(Sources, b) + Debited(b)
    BY <2>2 DEF BillInv, BillLaws, BillLaw
  <2>3. ASSUME NEW b \in Bills, bill[b].status = "FINALIZED"
        PROVE  /\ bill[b].transactionTotal = bill[b].transactionBalanceDue
                    + Total(Payments, [p \in Payments |-> DirectOf(b)[p].transaction])
                    + Total(Allocations, [u \in Allocations |-> LaterOf(b)[u].transaction])
               /\ bill[b].total = bill[b].balanceDue
                    + Total(Payments, [p \in Payments |-> DirectOf(b)[p].source])
                    + Total(Allocations, [u \in Allocations |-> LaterOf(b)[u].source])
                    + Total(DebitAllocations, DebitedTo(b))
    <3>1. /\ bill[b].transactionBalanceDue \in Nat /\ bill[b].balanceDue \in Nat
          /\ Debited(b) \in Nat
      BY <2>1, RowTypes, DebitedTypes
    <3> DEFINE t == Total(Payments, [p \in Payments |-> DirectOf(b)[p].transaction])
               u == Total(Allocations, [v \in Allocations |-> LaterOf(b)[v].transaction])
               x == Total(Payments, [p \in Payments |-> DirectOf(b)[p].source])
               y == Total(Allocations, [v \in Allocations |-> LaterOf(b)[v].source])
    <3>2. /\ Taken(Transactions, b) = t + u /\ Taken(Sources, b) = x + y
          /\ t \in Nat /\ u \in Nat /\ x \in Nat /\ y \in Nat
      BY <2>1, TakenFields
    <3>3. Debited(b) = Total(DebitAllocations, DebitedTo(b))
      BY DEF Debited
    <3> HIDE DEF t, u, x, y
    <3>4. /\ bill[b].transactionTotal = bill[b].transactionBalanceDue + t + u
          /\ bill[b].total = bill[b].balanceDue + x + y + Debited(b)
      BY <2>2, <2>3, <3>1, <3>2
    <3>5. QED
      BY <3>3, <3>4 DEF t, u, x, y
  <2>4. QED
    BY <2>3 DEF BillConserved
<1>4. QED
  BY <1>1, <1>2, <1>3, PTL DEF Spec

-----------------------------------------------------------------------------
(* Payments are conserved.                                                   *)

Settlements == [s \in Split |-> s.settlement]

LaterTaken(m, later) == Total(Allocations, [u \in Allocations |-> m[later[u]]])

PaymentLaw(p) ==
    /\ payment[p].status = "POSTED" =>
         /\ payment[p].transactionAmountPaid
              = payment[p].transactionUnappliedAmount
                + Total(Bills, TransactionsOf(payment[p].splits))
                + LaterTaken(Transactions, TakenFrom(p))
         /\ payment[p].amountPaid = payment[p].unappliedAmount
              + Total(Bills, SettlementsOf(payment[p].splits))
              + LaterTaken(Settlements, TakenFrom(p))
         /\ payment[p].posted = payment[p].unappliedAmount
              + Total(Bills, DocumentsOf(payment[p].splits))
              + LaterTaken(Settlements, TakenFrom(p))
    /\ payment[p].status = "NONE" => \A u \in Allocations : TakenFrom(p)[u] = NoSplit

PaymentLaws == \A p \in Payments : PaymentLaw(p)

\* The amounts the law of payments adds up are measures.
LEMMA SettlementsMeasure ==
    /\ Settlements \in Measure /\ Transactions \in Measure
    /\ \A s \in Split : Settlements[s] = s.settlement /\ Transactions[s] = s.transaction
<1>1. NoSplit \in Split /\ NoSplit.settlement = 0
  BY NoSplitType DEF NoSplit
<1>2. \A s \in Split : s.settlement \in Nat
  BY DEF Split
<1>3. Settlements \in Measure
  BY <1>1, <1>2 DEF Measure, Settlements
<1>4. \A s \in Split : Settlements[s] = s.settlement
  BY DEF Settlements
<1>5. QED
  BY <1>3, <1>4, Measures

\* What later allocations took is a natural number.
LEMMA LaterTypes ==
    ASSUME NEW m \in Measure, NEW later \in Laters
    PROVE  /\ LaterTaken(m, later) \in Nat
           /\ (\A u \in Allocations : later[u] = NoSplit) => LaterTaken(m, later) = 0
<1> DEFINE g == [u \in Allocations |-> m[later[u]]]
<1>1. g \in [Allocations -> Nat]
  BY DEF Measure, Laters
<1>2. LaterTaken(m, later) = Total(Allocations, g)
  BY DEF LaterTaken
<1>3. (\A u \in Allocations : later[u] = NoSplit) => \A u \in Allocations : g[u] = 0
  BY DEF Measure
<1> HIDE DEF g
<1>4. QED
  BY <1>1, <1>2, <1>3, TotalType, TotalZero, FiniteRows

\* A later allocation that joins adds its measure, whatever the rest.
LEMMA LaterParted ==
    ASSUME NEW m \in Measure, NEW before \in Laters, NEW after \in Laters, NEW u \in Allocations,
           NEW split \in Split, before[u] = NoSplit, after[u] = split,
           \A v \in Allocations \ {u} : before[v] = after[v]
    PROVE  LaterTaken(m, after) = LaterTaken(m, before) + m[split]
<1> DEFINE g == [v \in Allocations |-> m[before[v]]]
           k == [v \in Allocations |-> m[after[v]]]
<1>1. m[split] \in Nat /\ m[NoSplit] = 0
  BY DEF Measure
<1>2. g \in [Allocations -> Nat] /\ k \in [Allocations -> Nat]
  BY DEF Measure, Laters
<1>3. LaterTaken(m, before) = Total(Allocations, g) /\ LaterTaken(m, after) = Total(Allocations, k)
  BY DEF LaterTaken
<1>4. g[u] = 0 /\ k[u] = m[split] /\ \A v \in Allocations \ {u} : g[v] = k[v]
  BY <1>1
<1> HIDE DEF g, k
<1>5. Total(Allocations, k) = Total(Allocations, g) - g[u] + k[u] /\ Total(Allocations, g) \in Nat
  BY <1>2, <1>4, TotalUpdate, TotalType, FiniteRows
<1>6. QED
  BY <1>1, <1>3, <1>4, <1>5

\* The same for an allocation written over an empty one.
LEMMA LaterJoined ==
    ASSUME NEW m \in Measure, NEW later \in Laters, NEW u \in Allocations, NEW split \in Split,
           later[u] = NoSplit, NEW after, after = [later EXCEPT ![u] = split]
    PROVE  after \in Laters /\ LaterTaken(m, after) = LaterTaken(m, later) + m[split]
<1>1. /\ after \in Laters /\ after[u] = split
      /\ \A v \in Allocations \ {u} : later[v] = after[v]
  BY DEF Laters
<1> HIDE DEF Laters
<1>2. QED
  BY <1>1, LaterParted

TakenFromTyped == \A p \in Payments : TakenFrom(p) \in Laters

\* What was taken from each payment is typed.
LEMMA TakenFromTypes == TypeOK => TakenFromTyped
<1> SUFFICES ASSUME TypeOK, NEW p \in Payments
             PROVE  TakenFrom(p) \in Laters
  BY DEF TakenFromTyped
<1>1. NoSplit \in Split /\ \A u \in Allocations : allocation[u].split \in Split
  BY NoSplitType, RowTypes
<1>2. QED
  BY <1>1 DEF TakenFrom, Laters

\* It is typed after a step.
LEMMA TakenFromTypesNext == TypeOK' => TakenFromTyped'
  BY TakenFromTypes, PTL

\* The totals of the direct splits of a payment.
LEMMA DirectTotals ==
    ASSUME NEW splits \in [Bills -> Split]
    PROVE  /\ Total(Bills, TransactionsOf(splits)) \in Nat
           /\ Total(Bills, SettlementsOf(splits)) \in Nat
           /\ Total(Bills, DocumentsOf(splits)) \in Nat
<1>1. /\ TransactionsOf(splits) \in [Bills -> Nat]
      /\ SettlementsOf(splits) \in [Bills -> Nat]
      /\ DocumentsOf(splits) \in [Bills -> Nat]
  BY DEF Split, TransactionsOf, SettlementsOf, DocumentsOf
<1>2. QED
  BY <1>1, TotalType, FiniteRows

\* What a change of the unapplied amounts leaves of a payment.
LEMMA UnappliedRow ==
    ASSUME NEW row \in Payment, NEW due \in Int, NEW transactionDue \in Int, NEW next,
           next = Unapplied(row, due, transactionDue)
    PROVE  /\ next.status = row.status /\ next.splits = row.splits /\ next.posted = row.posted
           /\ next.amountPaid = row.amountPaid
           /\ next.transactionAmountPaid = row.transactionAmountPaid
           /\ next.unappliedAmount = due /\ next.transactionUnappliedAmount = transactionDue
  BY DEF Payment, Unapplied

\* Creating a payment keeps the law of every payment.
LEMMA PaymentsCreated ==
    ASSUME TypeOK, PaymentLaws, NEW q \in Payments, NEW row \in Payment, PaymentCreated(q, row),
           NEW p \in Payments
    PROVE  PaymentLaw(p)'
<1>1. /\ payment[q].status = "NONE" /\ row.status = "POSTED"
      /\ row.transactionAmountPaid
           = row.transactionUnappliedAmount + Total(Bills, TransactionsOf(row.splits))
      /\ row.amountPaid = row.unappliedAmount + Total(Bills, SettlementsOf(row.splits))
      /\ row.posted = row.unappliedAmount + Total(Bills, DocumentsOf(row.splits))
      /\ payment' = [payment EXCEPT ![q] = row] /\ allocation' = allocation
  BY DEF PaymentCreated
<1>2. payment \in [Payments -> Payment] /\ TakenFrom(p)' = TakenFrom(p) /\ PaymentLaw(p)
  BY <1>1 DEF TypeOK, TakenFrom, PaymentLaws
<1>3. CASE p = q
  <2>1. payment'[p] = row /\ row.splits \in [Bills -> Split]
          /\ row.transactionUnappliedAmount \in Nat /\ row.unappliedAmount \in Nat
    BY <1>1, <1>2, <1>3 DEF Payment
  <2>2. LaterTaken(Transactions, TakenFrom(p)) = 0 /\ LaterTaken(Settlements, TakenFrom(p)) = 0
    <3>1. \A u \in Allocations : TakenFrom(p)[u] = NoSplit
      BY <1>1, <1>2, <1>3 DEF PaymentLaw
    <3>2. TakenFrom(p) \in Laters
      BY TakenFromTypes DEF TakenFromTyped
    <3>3. QED
      BY <3>1, <3>2, LaterTypes, SettlementsMeasure
  <2>3. LaterTaken(Transactions, TakenFrom(p))' = 0 /\ LaterTaken(Settlements, TakenFrom(p))' = 0
    BY <1>2, <2>2 DEF LaterTaken
  <2>4. /\ Total(Bills, TransactionsOf(row.splits)) \in Nat
        /\ Total(Bills, SettlementsOf(row.splits)) \in Nat
        /\ Total(Bills, DocumentsOf(row.splits)) \in Nat
    BY <2>1, DirectTotals
  <2>5. /\ row.transactionAmountPaid = row.transactionUnappliedAmount
              + Total(Bills, TransactionsOf(row.splits)) + 0
        /\ row.amountPaid = row.unappliedAmount + Total(Bills, SettlementsOf(row.splits)) + 0
        /\ row.posted = row.unappliedAmount + Total(Bills, DocumentsOf(row.splits)) + 0
    BY <1>1, <2>1, <2>4
  <2>6. QED
    BY <1>1, <2>1, <2>3, <2>5 DEF PaymentLaw
<1>4. CASE p # q
  <2>1. payment'[p] = payment[p]
    BY <1>1, <1>2, <1>4
  <2>2. LaterTaken(Transactions, TakenFrom(p))' = LaterTaken(Transactions, TakenFrom(p))
          /\ LaterTaken(Settlements, TakenFrom(p))' = LaterTaken(Settlements, TakenFrom(p))
    BY <1>2 DEF LaterTaken, Transactions, Settlements
  <2>3. QED
    BY <1>2, <2>1, <2>2 DEF PaymentLaw
<1>5. QED
  BY <1>3, <1>4

\* Voiding a payment keeps the law of every payment.
LEMMA PaymentsVoided ==
    ASSUME TypeOK, PaymentLaws, NEW q \in Payments, NEW row \in Payment, PaymentVoided(q, row),
           NEW p \in Payments
    PROVE  PaymentLaw(p)'
<1>1. /\ row = [payment[q] EXCEPT !.status = "VOIDED"]
      /\ payment' = [payment EXCEPT ![q] = row] /\ allocation' = allocation
  BY DEF PaymentVoided
<1>2. payment \in [Payments -> Payment] /\ TakenFrom(p)' = TakenFrom(p) /\ PaymentLaw(p)
  BY <1>1 DEF TypeOK, TakenFrom, PaymentLaws
<1>3. CASE p = q
  <2>1. payment'[p].status = "VOIDED"
    BY <1>1, <1>2, <1>3 DEF Payment
  <2>2. QED
    BY <2>1 DEF PaymentLaw
<1>4. CASE p # q
  <2>1. payment'[p] = payment[p]
    BY <1>1, <1>2, <1>4
  <2>2. LaterTaken(Transactions, TakenFrom(p))' = LaterTaken(Transactions, TakenFrom(p))
          /\ LaterTaken(Settlements, TakenFrom(p))' = LaterTaken(Settlements, TakenFrom(p))
    BY <1>2 DEF LaterTaken, Transactions, Settlements
  <2>3. QED
    BY <1>2, <2>1, <2>2 DEF PaymentLaw
<1>5. QED
  BY <1>3, <1>4

\* A later allocation keeps the law of every payment.
LEMMA PaymentsApplied ==
    ASSUME TypeOK, PaymentLaws, NEW u \in Allocations, NEW row \in Allocation, NEW q \in Payments,
           NEW paid \in Payment, AllocationApplied(u, row, q, paid), NEW p \in Payments
    PROVE  PaymentLaw(p)'
<1>1. /\ allocation[u].status = "NONE" /\ row.status = "ACTIVE" /\ row.payment = q
      /\ paid = Unapplied(payment[q], payment[q].unappliedAmount - row.split.settlement,
                          payment[q].transactionUnappliedAmount - row.split.transaction)
      /\ payment[q].status = "POSTED"
      /\ payment' = [payment EXCEPT ![q] = paid] /\ allocation' = [allocation EXCEPT ![u] = row]
  BY DEF AllocationApplied, PaymentClaim
<1>2. /\ payment \in [Payments -> Payment] /\ allocation \in [Allocations -> Allocation]
      /\ PaymentLaw(p) /\ TakenFrom(p) \in Laters
  BY TakenFromTypes DEF TypeOK, PaymentLaws, TakenFromTyped
<1>3. CASE p = q
  <2> DEFINE due == payment[p].unappliedAmount - row.split.settlement
             transactionDue == payment[p].transactionUnappliedAmount - row.split.transaction
  <2>1. /\ payment[p] \in Payment /\ row.split \in Split
        /\ payment[p].unappliedAmount \in Nat /\ payment[p].transactionUnappliedAmount \in Nat
        /\ row.split.settlement \in Nat /\ row.split.transaction \in Nat
        /\ payment[p].splits \in [Bills -> Split]
    BY RowTypes DEF Allocation, Split
  <2>2. payment'[p] = Unapplied(payment[p], due, transactionDue)
    BY <1>1, <1>2, <1>3
  <2>3. due \in Int /\ transactionDue \in Int
    BY <2>1
  <2>4. /\ payment[p].unappliedAmount = due + row.split.settlement
        /\ payment[p].transactionUnappliedAmount = transactionDue + row.split.transaction
    BY <2>1
  <2> HIDE DEF due, transactionDue
  <2>5. /\ payment'[p].status = "POSTED" /\ payment'[p].splits = payment[p].splits
        /\ payment'[p].posted = payment[p].posted
        /\ payment'[p].amountPaid = payment[p].amountPaid
        /\ payment'[p].transactionAmountPaid = payment[p].transactionAmountPaid
        /\ payment'[p].unappliedAmount = due
        /\ payment'[p].transactionUnappliedAmount = transactionDue
    BY <1>1, <1>3, <2>1, <2>2, <2>3, UnappliedRow
  <2>6. TakenFrom(p)[u] = NoSplit
    BY <1>1 DEF TakenFrom
  <2>7. TakenFrom(p)' = [TakenFrom(p) EXCEPT ![u] = row.split]
    BY <1>1, <1>2, <1>3 DEF TakenFrom
  <2> DEFINE t == LaterTaken(Transactions, TakenFrom(p))
             s == LaterTaken(Settlements, TakenFrom(p))
             x == Total(Bills, TransactionsOf(payment[p].splits))
             y == Total(Bills, SettlementsOf(payment[p].splits))
             z == Total(Bills, DocumentsOf(payment[p].splits))
  <2>8. /\ t \in Nat /\ s \in Nat /\ x \in Nat /\ y \in Nat /\ z \in Nat
    BY <1>2, <2>1, LaterTypes, SettlementsMeasure, DirectTotals
  <2>9. /\ LaterTaken(Transactions, TakenFrom(p)') = t + row.split.transaction
        /\ LaterTaken(Settlements, TakenFrom(p)') = s + row.split.settlement
    <3> DEFINE before == TakenFrom(p)
               after == TakenFrom(p)'
    <3>1. /\ before \in Laters /\ before[u] = NoSplit /\ row.split \in Split
          /\ after = [before EXCEPT ![u] = row.split]
      BY <1>2, <2>1, <2>6, <2>7
    <3>2. /\ t = LaterTaken(Transactions, before) /\ s = LaterTaken(Settlements, before)
          /\ TakenFrom(p)' = after
      OBVIOUS
    <3> HIDE DEF before, after, t, s
    <3>3. LaterTaken(Transactions, after)
            = LaterTaken(Transactions, before) + Transactions[row.split]
      BY <3>1, LaterJoined, SettlementsMeasure
    <3>4. LaterTaken(Settlements, after)
            = LaterTaken(Settlements, before) + Settlements[row.split]
      BY <3>1, LaterJoined, SettlementsMeasure
    <3>5. QED
      BY <3>1, <3>2, <3>3, <3>4, SettlementsMeasure
  <2>10. /\ LaterTaken(Transactions, TakenFrom(p))' = t + row.split.transaction
         /\ LaterTaken(Settlements, TakenFrom(p))' = s + row.split.settlement
    BY <2>9 DEF LaterTaken, Transactions, Settlements
  <2>11. /\ payment[p].transactionAmountPaid = payment[p].transactionUnappliedAmount + x + t
         /\ payment[p].amountPaid = payment[p].unappliedAmount + y + s
         /\ payment[p].posted = payment[p].unappliedAmount + z + s
    BY <1>1, <1>2, <1>3 DEF PaymentLaw
  <2>12. /\ x = Total(Bills, TransactionsOf(payment[p].splits))
         /\ y = Total(Bills, SettlementsOf(payment[p].splits))
         /\ z = Total(Bills, DocumentsOf(payment[p].splits))
    OBVIOUS
  <2> HIDE DEF t, s, x, y, z
  <2>13. /\ payment[p].transactionAmountPaid = transactionDue + x + (t + row.split.transaction)
         /\ payment[p].amountPaid = due + y + (s + row.split.settlement)
         /\ payment[p].posted = due + z + (s + row.split.settlement)
    BY <2>1, <2>3, <2>4, <2>8, <2>11
  <2>14. QED
    BY <2>5, <2>10, <2>12, <2>13 DEF PaymentLaw
<1>4. CASE p # q
  <2>1. payment'[p] = payment[p]
    BY <1>1, <1>2, <1>4
  <2>2. TakenFrom(p)' = TakenFrom(p)
    BY <1>1, <1>2, <1>4 DEF TakenFrom
  <2>3. LaterTaken(Transactions, TakenFrom(p))' = LaterTaken(Transactions, TakenFrom(p))
          /\ LaterTaken(Settlements, TakenFrom(p))' = LaterTaken(Settlements, TakenFrom(p))
    BY <2>2 DEF LaterTaken, Transactions, Settlements
  <2>4. QED
    BY <1>2, <2>1, <2>2, <2>3 DEF PaymentLaw
<1>5. QED
  BY <1>3, <1>4

\* Its reversal keeps the law of every payment.
LEMMA PaymentsReversed ==
    ASSUME TypeOK, TypeOK', PaymentLaws, NEW u \in Allocations, NEW row \in Allocation,
           NEW q \in Payments, NEW paid \in Payment, AllocationReversed(u, row, q, paid),
           NEW p \in Payments
    PROVE  PaymentLaw(p)'
<1>1. /\ allocation[u].status = "ACTIVE" /\ allocation[u].payment = q
      /\ row = [allocation[u] EXCEPT !.status = "REVERSED"]
      /\ paid = Unapplied(payment[q], payment[q].unappliedAmount + row.split.settlement,
                          payment[q].transactionUnappliedAmount + row.split.transaction)
      /\ payment[q].status = "POSTED"
      /\ payment' = [payment EXCEPT ![q] = paid] /\ allocation' = [allocation EXCEPT ![u] = row]
  BY DEF AllocationReversed
<1>2. /\ payment \in [Payments -> Payment] /\ allocation \in [Allocations -> Allocation]
      /\ PaymentLaw(p) /\ TakenFrom(p) \in Laters /\ TakenFrom(p)' \in Laters
  BY TakenFromTypes, TakenFromTypesNext DEF TypeOK, PaymentLaws, TakenFromTyped
<1>3. row.status = "REVERSED" /\ row.split = allocation[u].split /\ row.payment = q
  BY <1>1, <1>2 DEF Allocation
<1>4. CASE p = q
  <2> DEFINE due == payment[p].unappliedAmount + row.split.settlement
             transactionDue == payment[p].transactionUnappliedAmount + row.split.transaction
  <2>1. /\ payment[p] \in Payment /\ row.split \in Split
        /\ payment[p].unappliedAmount \in Nat /\ payment[p].transactionUnappliedAmount \in Nat
        /\ row.split.settlement \in Nat /\ row.split.transaction \in Nat
        /\ payment[p].splits \in [Bills -> Split]
    BY RowTypes DEF Allocation, Split
  <2>2. payment'[p] = Unapplied(payment[p], due, transactionDue)
    BY <1>1, <1>2, <1>4
  <2>3. due \in Int /\ transactionDue \in Int
    BY <2>1
  <2>4. /\ due = payment[p].unappliedAmount + row.split.settlement
        /\ transactionDue = payment[p].transactionUnappliedAmount + row.split.transaction
    OBVIOUS
  <2> HIDE DEF due, transactionDue
  <2>5. /\ payment'[p].status = "POSTED" /\ payment'[p].splits = payment[p].splits
        /\ payment'[p].posted = payment[p].posted
        /\ payment'[p].amountPaid = payment[p].amountPaid
        /\ payment'[p].transactionAmountPaid = payment[p].transactionAmountPaid
        /\ payment'[p].unappliedAmount = due
        /\ payment'[p].transactionUnappliedAmount = transactionDue
    BY <1>1, <1>4, <2>1, <2>2, <2>3, UnappliedRow
  <2> DEFINE before == TakenFrom(p)
             after == TakenFrom(p)'
  <2>6. /\ after[u] = NoSplit /\ before[u] = row.split
        /\ \A v \in Allocations \ {u} : before[v] = after[v]
    BY <1>1, <1>2, <1>3, <1>4 DEF TakenFrom
  <2> DEFINE t == LaterTaken(Transactions, TakenFrom(p)')
             s == LaterTaken(Settlements, TakenFrom(p)')
             x == Total(Bills, TransactionsOf(payment[p].splits))
             y == Total(Bills, SettlementsOf(payment[p].splits))
             z == Total(Bills, DocumentsOf(payment[p].splits))
  <2>7. /\ t \in Nat /\ s \in Nat /\ x \in Nat /\ y \in Nat /\ z \in Nat
    BY <1>2, <2>1, LaterTypes, SettlementsMeasure, DirectTotals
  <2>8. /\ LaterTaken(Transactions, TakenFrom(p)) = t + row.split.transaction
        /\ LaterTaken(Settlements, TakenFrom(p)) = s + row.split.settlement
    <3>1. before \in Laters /\ after \in Laters
      BY <1>2
    <3>2. /\ TakenFrom(p) = before /\ t = LaterTaken(Transactions, after)
          /\ s = LaterTaken(Settlements, after)
      OBVIOUS
    <3> HIDE DEF before, after, t, s
    <3>3. row.split \in Split
      BY <2>1
    <3>4. LaterTaken(Transactions, before)
            = LaterTaken(Transactions, after) + Transactions[row.split]
      BY <2>6, <3>1, <3>3, LaterParted, SettlementsMeasure
    <3>5. LaterTaken(Settlements, before)
            = LaterTaken(Settlements, after) + Settlements[row.split]
      BY <2>6, <3>1, <3>3, LaterParted, SettlementsMeasure
    <3>6. QED
      BY <3>2, <3>3, <3>4, <3>5, SettlementsMeasure
  <2>9. /\ LaterTaken(Transactions, TakenFrom(p))' = t
        /\ LaterTaken(Settlements, TakenFrom(p))' = s
    BY DEF LaterTaken, Transactions, Settlements
  <2>10. /\ payment[p].transactionAmountPaid
              = payment[p].transactionUnappliedAmount + x + (t + row.split.transaction)
         /\ payment[p].amountPaid = payment[p].unappliedAmount + y + (s + row.split.settlement)
         /\ payment[p].posted = payment[p].unappliedAmount + z + (s + row.split.settlement)
    BY <1>1, <1>2, <1>4, <2>8 DEF PaymentLaw
  <2>11. /\ x = Total(Bills, TransactionsOf(payment[p].splits))
         /\ y = Total(Bills, SettlementsOf(payment[p].splits))
         /\ z = Total(Bills, DocumentsOf(payment[p].splits))
    OBVIOUS
  <2> HIDE DEF t, s, x, y, z
  <2>12. /\ payment[p].transactionAmountPaid = transactionDue + x + t
         /\ payment[p].amountPaid = due + y + s
         /\ payment[p].posted = due + z + s
    BY <2>1, <2>4, <2>7, <2>10
  <2>13. QED
    BY <2>5, <2>9, <2>11, <2>12 DEF PaymentLaw
<1>5. CASE p # q
  <2>1. payment'[p] = payment[p]
    BY <1>1, <1>2, <1>5
  <2>2. TakenFrom(p)' = TakenFrom(p)
    BY <1>1, <1>2, <1>3, <1>5 DEF TakenFrom
  <2>3. LaterTaken(Transactions, TakenFrom(p))' = LaterTaken(Transactions, TakenFrom(p))
          /\ LaterTaken(Settlements, TakenFrom(p))' = LaterTaken(Settlements, TakenFrom(p))
    BY <2>2 DEF LaterTaken, Transactions, Settlements
  <2>4. QED
    BY <1>2, <2>1, <2>2, <2>3 DEF PaymentLaw
<1>6. QED
  BY <1>4, <1>5

\* Every change of the rows keeps the law of every payment.
LEMMA RowsKeepPayments ==
    ASSUME TypeInv, TypeInv', PaymentLaws, RowChange
    PROVE  PaymentLaws'
<1>0. TypeOK /\ TypeOK'
  BY DEF TypeInv
<1>1. CASE PaymentChange
  BY <1>0, <1>1, PaymentsCreated, PaymentsVoided DEF PaymentChange, PaymentLaws
<1>2. CASE AllocationChange
  BY <1>0, <1>2, PaymentsApplied, PaymentsReversed DEF AllocationChange, PaymentLaws
<1>3. CASE BillChange \/ DebitChange \/ RevaluationNext \/ UNCHANGED rows
  <2>1. UNCHANGED <<payment, allocation>>
    <3>1. BillChange => UNCHANGED <<payment, allocation>>
      BY DEF BillChange, BillFinalized, BillVoided
    <3>2. DebitChange => UNCHANGED <<payment, allocation>>
      BY DEF DebitChange, FinalizeDebitNote, ApplyDebitNote, DebitNoteVoided,
             ReverseDebitAllocation
    <3>3. RevaluationNext => UNCHANGED <<payment, allocation>>
      BY DEF RevaluationNext, PreviewRevaluation, ReviewRevaluation, PostRevaluation,
             ReverseRevaluation
    <3>4. QED
      BY <1>3, <3>1, <3>2, <3>3 DEF rows
  <2>2. ASSUME NEW p \in Payments PROVE PaymentLaw(p)'
    <3>1. TakenFrom(p)' = TakenFrom(p)
      BY <2>1 DEF TakenFrom
    <3>2. LaterTaken(Transactions, TakenFrom(p))' = LaterTaken(Transactions, TakenFrom(p))
            /\ LaterTaken(Settlements, TakenFrom(p))' = LaterTaken(Settlements, TakenFrom(p))
      BY <3>1 DEF LaterTaken, Transactions, Settlements
    <3>3. PaymentLaw(p)
      BY DEF PaymentLaws
    <3>4. QED
      BY <2>1, <3>1, <3>2, <3>3 DEF PaymentLaw
  <2>3. QED
    BY <2>2 DEF PaymentLaws
<1>4. QED
  BY <1>1, <1>2, <1>3 DEF RowChange

\* The law of payments holds at the start.
LEMMA InitPayments == Init => PaymentLaws
  BY DEF Init, PaymentLaws, PaymentLaw, TakenFrom

PaymentInv == TypeInv /\ PaymentLaws

\* A posted payment is what its allocations took and what is unapplied, in both
\* currencies: rounding and final settlements lose and create nothing.
THEOREM PaymentsAreConserved == Spec => []PaymentConserved
<1>1. Init => PaymentInv
  BY InitTypes, InitPayments DEF PaymentInv
<1>2. PaymentInv /\ [Next]_vars => PaymentInv'
  BY StepTypes, RowsKeepPayments DEF PaymentInv
<1>3. PaymentInv => PaymentConserved
  <2> SUFFICES ASSUME PaymentInv
               PROVE  PaymentConserved
    OBVIOUS
  <2>1. ASSUME NEW p \in Payments, payment[p].status = "POSTED"
        PROVE  /\ payment[p].unappliedAmount >= 0
               /\ payment[p].transactionAmountPaid
                    = payment[p].transactionUnappliedAmount
                    + Total(Bills, [b \in Bills |-> payment[p].splits[b].transaction])
                    + Total(Allocations, [u \in Allocations |-> TakenFrom(p)[u].transaction])
               /\ payment[p].amountPaid = payment[p].unappliedAmount
                    + Total(Bills, [b \in Bills |-> payment[p].splits[b].settlement])
                    + Total(Allocations, [u \in Allocations |-> TakenFrom(p)[u].settlement])
    <3>1. TakenFrom(p) \in Laters /\ PaymentLaw(p)
      BY TakenFromTypes DEF PaymentInv, TypeInv, TakenFromTyped, PaymentLaws
    <3>2. /\ [u \in Allocations |-> Transactions[TakenFrom(p)[u]]]
               = [u \in Allocations |-> TakenFrom(p)[u].transaction]
          /\ [u \in Allocations |-> Settlements[TakenFrom(p)[u]]]
               = [u \in Allocations |-> TakenFrom(p)[u].settlement]
      BY <3>1, SettlementsMeasure DEF Laters
    <3>3. payment[p].unappliedAmount \in Nat
      BY RowTypes DEF PaymentInv, TypeInv, Payment
    <3>4. QED
      BY <2>1, <3>1, <3>2, <3>3 DEF PaymentLaw, LaterTaken, TransactionsOf, SettlementsOf
  <2>2. QED
    BY <2>1 DEF PaymentConserved
<1>4. QED
  BY <1>1, <1>2, <1>3, PTL DEF Spec

-----------------------------------------------------------------------------
(* Carrying layers, and the chain of posted revaluations under them.         *)

PostedLine(r, b) == run[r].status = "POSTED" /\ b \in Lines(r)

Revalued(b, r) == run[r].lines[b].revalued
Opened(b, r) == run[r].lines[b].open
Prior(b, r) == run[r].lines[b].prior

\* The layer of a bill is what the last posted line revalued less what was
\* settled under it, and no posted line was built on that one.
LayerStands(b, r) ==
    /\ bill[b].status = "FINALIZED"
    /\ layer[b].open = bill[b].transactionBalanceDue
    /\ layer[b].source = bill[b].balanceDue
    /\ PostedLine(r, b)
    /\ Revalued(b, r) = layer[b].carrying + Taken(DocumentsUnder(r), b)
    /\ Opened(b, r) = layer[b].open + Taken(TransactionsUnder(r), b)
    /\ layer[b].open = 0 => layer[b].carrying = 0 /\ layer[b].source = 0
    /\ \A q \in Runs : PostedLine(q, b) => Prior(b, q) # r

LayerLaw(b) == layer[b] # NoLayer => LayerStands(b, layer[b].line)

\* A posted line built on another: it took over what had not been settled
\* under that one, and it alone was built on it.
LineStands(b, r, s) ==
    /\ PostedLine(s, b)
    /\ Revalued(b, s) = run[r].lines[b].carrying + Taken(DocumentsUnder(s), b)
    /\ Opened(b, s) = run[r].lines[b].open + Taken(TransactionsUnder(s), b)
    /\ \A q \in Runs : PostedLine(q, b) /\ Prior(b, q) = s => q = r

ChainLaw(b) ==
    \A r \in Runs : PostedLine(r, b) /\ Prior(b, r) # None => LineStands(b, r, Prior(b, r))

\* Splits in force were taken under posted lines.
SplitLaw(b) == \A s \in InForce(b) : s.line # None => PostedLine(s.line, b)

CarryLaw(b) == LayerLaw(b) /\ ChainLaw(b) /\ SplitLaw(b)

CarryLaws == \A b \in Bills : CarryLaw(b)

\* Steps that post or reverse nothing, and touch no bill with a layer.
LEMMA CarryKept ==
    ASSUME CarryLaws, UNCHANGED <<payment, allocation, layer>>,
           \A b \in Bills : layer[b] # NoLayer => bill'[b] = bill[b],
           \A r \in Runs : run[r].status = "POSTED" <=> run'[r].status = "POSTED",
           \A r \in Runs : run[r].status = "POSTED" => run'[r] = run[r],
           TypeOK, TypeOK', NEW b \in Bills
    PROVE  CarryLaw(b)'
<1>1. LayerLaw(b) /\ ChainLaw(b) /\ SplitLaw(b)
  BY DEF CarryLaws, CarryLaw
<1>2. DirectOf(b)' = DirectOf(b) /\ LaterOf(b)' = LaterOf(b)
  BY DEF DirectOf, LaterOf
<1>3. (\A m : Taken(m, b)' = Taken(m, b)) /\ InForce(b)' = InForce(b)
  BY <1>2 DEF Taken, InForce
<1>4. \A r : /\ Taken(DocumentsUnder(r), b)' = Taken(DocumentsUnder(r), b)
             /\ Taken(TransactionsUnder(r), b)' = Taken(TransactionsUnder(r), b)
  BY <1>2 DEF Taken, DocumentsUnder, TransactionsUnder
<1>5. \A r \in Runs : /\ PostedLine(r, b)' <=> PostedLine(r, b)
                      /\ PostedLine(r, b) => run'[r].lines = run[r].lines
  BY DEF PostedLine, Lines
<1>6. LayerLaw(b)'
  <2>1. CASE layer[b] = NoLayer
    BY <2>1 DEF LayerLaw
  <2>2. CASE layer[b] # NoLayer
    <3>1. PICK r \in Runs : r = layer[b].line
      BY <2>2, LayerTypes, RowTypes
    <3>2. LayerStands(b, r)
      BY <1>1, <2>2, <3>1 DEF LayerLaw
    <3>3. LayerStands(b, r)'
      BY <1>4, <1>5, <2>2, <3>2 DEF LayerStands, Revalued, Opened, Prior
    <3>4. layer'[b].line = r
      BY <3>1
    <3>5. QED
      BY <3>3, <3>4 DEF LayerLaw
  <2>3. QED
    BY <2>1, <2>2
<1>7. ChainLaw(b)'
  <2>1. ASSUME NEW r \in Runs, PostedLine(r, b)', Prior(b, r)' # None
        PROVE  LineStands(b, r, Prior(b, r))'
    <3>1. PostedLine(r, b) /\ run'[r].lines = run[r].lines
      BY <1>5, <2>1
    <3>2. PICK s : s = Prior(b, r)
      OBVIOUS
    <3>3. Prior(b, r)' = s /\ s # None
      BY <2>1, <3>1, <3>2 DEF Prior
    <3>4. LineStands(b, r, s)
      BY <1>1, <3>1, <3>2, <3>3 DEF ChainLaw
    <3>5. s \in Runs
      BY <3>2, <3>3, <3>1, RowTypes DEF Prior, PostedLine, Lines, Line
    <3>6. LineStands(b, r, s)'
      BY <1>4, <1>5, <3>1, <3>4, <3>5 DEF LineStands, Revalued, Opened, Prior
    <3>7. QED
      BY <3>3, <3>6
  <2>2. QED
    BY <2>1 DEF ChainLaw
<1>8. SplitLaw(b)'
  <2>1. ASSUME NEW s \in InForce(b)', s.line # None PROVE PostedLine(s.line, b)'
    <3>1. PostedLine(s.line, b)
      BY <1>1, <1>3, <2>1 DEF SplitLaw
    <3>2. s.line \in Runs
      BY <1>3, <2>1, InForceTypes, MeasuredTypes, Measures DEF SplitsTyped, InForce, Split
    <3>3. QED
      BY <1>5, <3>1, <3>2
  <2>2. QED
    BY <2>1 DEF SplitLaw
<1>9. QED
  BY <1>6, <1>7, <1>8 DEF CarryLaw

\* The run of a posted line, its prior and the lines in force are runs.
LEMMA LineRuns ==
    ASSUME TypeInv, NEW b \in Bills
    PROVE  /\ \A r \in Runs : PostedLine(r, b) => Prior(b, r) \in Runs \cup {None}
           /\ \A s \in InForce(b) : s \in Split /\ s.line \in Runs \cup {None} /\ Shaped(s)
           /\ DirectOf(b) \in Directs /\ LaterOf(b) \in Laters
<1>1. ASSUME NEW r \in Runs, PostedLine(r, b) PROVE Prior(b, r) \in Runs \cup {None}
  BY <1>1, LineTypes DEF PostedLine, Prior
<1>2. DirectOf(b) \in Directs /\ LaterOf(b) \in Laters
  BY InForceTypes DEF SplitsTyped, TypeInv
<1>3. \A s \in InForce(b) : s \in Split /\ s.line \in Runs \cup {None}
  BY <1>2, MeasuredTypes, Measures DEF InForce, Split
<1>4. \A s \in InForce(b) : Shaped(s)
  <2>1. Shaped(NoSplit)
    BY NoSplitShaped
  <2>2. \A p \in Payments : Shaped(DirectOf(b)[p])
    BY <2>1 DEF DirectOf, TypeInv, References
  <2>3. \A u \in Allocations : Shaped(LaterOf(b)[u])
    BY <2>1 DEF LaterOf, TypeInv, References
  <2>4. QED
    BY <2>2, <2>3 DEF InForce, Both
<1>5. QED
  BY <1>1, <1>2, <1>3, <1>4

\* What a split takes under a run.
LEMMA UnderRun ==
    ASSUME NEW s \in Split, NEW r
    PROVE  /\ DocumentsUnder(r)[s] = (IF s.line = r THEN s.document ELSE 0)
           /\ TransactionsUnder(r)[s] = (IF s.line = r THEN s.transaction ELSE 0)
  BY DEF DocumentsUnder, TransactionsUnder

\* A settlement keeps the law of every layer.
LEMMA CarrySettled ==
    ASSUME TypeInv, TypeInv', CarryLaws, NEW splits \in [Bills -> Split], SettledBy(splits),
           UNCHANGED run, NEW b \in Bills
    PROVE  CarryLaw(b)'
<1> DEFINE split == splits[b]
<1>1. /\ TypeOK /\ LayerLaw(b) /\ ChainLaw(b) /\ SplitLaw(b)
      /\ split \in Split /\ Claims(b, split)
  BY DEF TypeInv, CarryLaws, CarryLaw, SettledBy, Settlement
<1>2. /\ bill'[b].status = bill[b].status
      /\ bill'[b].balanceDue = bill[b].balanceDue - split.source
      /\ bill'[b].transactionBalanceDue = bill[b].transactionBalanceDue - split.transaction
      /\ layer'[b].line = layer[b].line /\ (layer'[b] = NoLayer <=> layer[b] = NoLayer)
      /\ layer[b] # NoLayer =>
           /\ layer'[b].open = layer[b].open - split.transaction
           /\ layer'[b].source = layer[b].source - split.source
           /\ layer'[b].carrying = layer[b].carrying - split.document
      /\ split = NoSplit => bill'[b] = bill[b] /\ layer'[b] = layer[b]
  BY <1>1, SettlementTypes DEF SettledBy
<1>3. InForce(b)' \subseteq InForce(b) \cup {split}
  BY <1>1, SettledTaken
<1>4. ASSUME NEW r
      PROVE  /\ Taken(DocumentsUnder(r), b)' = Taken(DocumentsUnder(r), b)
                   + (IF split.line = r THEN split.document ELSE 0)
             /\ Taken(TransactionsUnder(r), b)' = Taken(TransactionsUnder(r), b)
                   + (IF split.line = r THEN split.transaction ELSE 0)
             /\ Taken(DocumentsUnder(r), b) \in Nat /\ Taken(TransactionsUnder(r), b) \in Nat
  <2>1. DocumentsUnder(r) \in Measure /\ TransactionsUnder(r) \in Measure
    BY Measures
  <2>2. \A m \in Measure : Taken(m, b) \in Nat /\ Taken(m, b)' = Taken(m, b) + m[splits[b]]
    BY <1>1, SettledTaken
  <2>3. /\ Taken(DocumentsUnder(r), b)' = Taken(DocumentsUnder(r), b) + DocumentsUnder(r)[split]
        /\ Taken(TransactionsUnder(r), b)'
             = Taken(TransactionsUnder(r), b) + TransactionsUnder(r)[split]
    BY <2>1, <2>2
  <2>4. QED
    BY <1>1, <2>1, <2>2, <2>3, UnderRun
<1>5. \A r \in Runs : PostedLine(r, b)' <=> PostedLine(r, b)
  BY DEF PostedLine, Lines
<1>6. split # NoSplit => split.line = layer[b].line
  BY <1>1 DEF Claims
<1>7. NoSplit.line = None /\ NoSplit.document = 0 /\ NoSplit.transaction = 0
  BY DEF NoSplit
<1>8. /\ layer[b] = NoLayer <=> layer[b].line = None
      /\ layer[b] # NoLayer => /\ layer[b].line \in Runs /\ layer[b].line # None
                              /\ layer[b].open \in Nat /\ layer[b].carrying \in Nat
                              /\ layer[b].source \in Nat
      /\ layer[b].line \in Runs \cup {None}
  BY <1>1, LayerTypes, RowTypes
<1>9. split.document \in Nat /\ split.transaction \in Nat /\ split.source \in Nat
  BY <1>1 DEF Split
<1>10. /\ split # NoSplit => split.transaction > 0
       /\ split # NoSplit /\ layer[b] # NoLayer /\ split.transaction = layer[b].open =>
            split.document = layer[b].carrying /\ split.source = layer[b].source
  BY <1>1 DEF Claims
<1> HIDE DEF split
<1>11. LayerLaw(b)'
  <2>1. CASE layer[b] = NoLayer
    BY <1>2, <2>1 DEF LayerLaw
  <2>2. CASE layer[b] # NoLayer
    <3>1. PICK r \in Runs : r = layer[b].line
      BY <1>8, <2>2
    <3>2. LayerStands(b, r)
      BY <1>1, <2>2, <3>1 DEF LayerLaw
    <3>3. /\ Taken(DocumentsUnder(r), b)' = Taken(DocumentsUnder(r), b) + split.document
          /\ Taken(TransactionsUnder(r), b)' = Taken(TransactionsUnder(r), b) + split.transaction
      BY <1>4, <1>6, <1>7, <1>9, <3>1
    <3>4. /\ Revalued(b, r)' = Revalued(b, r) /\ Opened(b, r)' = Opened(b, r)
          /\ \A q \in Runs : Prior(b, q)' = Prior(b, q)
      BY DEF Revalued, Opened, Prior
    <3>5. /\ Revalued(b, r) = layer[b].carrying + Taken(DocumentsUnder(r), b)
          /\ Opened(b, r) = layer[b].open + Taken(TransactionsUnder(r), b)
      BY <3>2 DEF LayerStands
    <3>6. /\ Revalued(b, r) = layer'[b].carrying + Taken(DocumentsUnder(r), b)'
          /\ Opened(b, r) = layer'[b].open + Taken(TransactionsUnder(r), b)'
      BY <1>2, <1>4, <1>8, <1>9, <2>2, <3>3, <3>5
    <3>7. layer'[b].open = 0 => layer'[b].carrying = 0 /\ layer'[b].source = 0
      <4>1. CASE split = NoSplit
        BY <1>2, <3>2, <4>1 DEF LayerStands
      <4>2. CASE split # NoSplit
        BY <1>2, <1>8, <1>9, <1>10, <2>2, <4>2
      <4>3. QED
        BY <4>1, <4>2
    <3>8. /\ layer'[b].open = bill'[b].transactionBalanceDue
          /\ layer'[b].source = bill'[b].balanceDue
          /\ bill'[b].status = "FINALIZED"
      BY <1>2, <2>2, <3>2 DEF LayerStands
    <3>9. /\ PostedLine(r, b)' /\ \A q \in Runs : PostedLine(q, b)' => Prior(b, q)' # r
      BY <1>5, <3>2, <3>4 DEF LayerStands
    <3>10. LayerStands(b, r)'
      BY <3>4, <3>6, <3>7, <3>8, <3>9 DEF LayerStands
    <3>11. layer'[b].line = r
      BY <1>2, <3>1
    <3>12. QED
      BY <3>10, <3>11 DEF LayerLaw
  <2>3. QED
    BY <2>1, <2>2
<1>12. ChainLaw(b)'
  <2>1. ASSUME NEW r \in Runs, PostedLine(r, b)', Prior(b, r)' # None
        PROVE  LineStands(b, r, Prior(b, r))'
    <3>1. PostedLine(r, b)
      BY <1>5, <2>1
    <3>2. PICK s \in Runs : s = Prior(b, r) /\ s = Prior(b, r)' /\ s # None
      <4>1. Prior(b, r)' = Prior(b, r) /\ Prior(b, r) \in Runs \cup {None}
        BY <3>1, LineRuns DEF Prior
      <4>2. QED
        BY <2>1, <4>1
    <3>3. LineStands(b, r, s)
      BY <1>1, <3>1, <3>2 DEF ChainLaw
    <3>4. split.line # s
      <4>1. CASE split = NoSplit
        BY <1>7, <3>2, <4>1
      <4>2. CASE split # NoSplit /\ layer[b] = NoLayer
        BY <1>6, <1>8, <3>2, <4>2
      <4>3. CASE split # NoSplit /\ layer[b] # NoLayer
        <5>1. LayerStands(b, layer[b].line)
          BY <1>1, <4>3 DEF LayerLaw
        <5>2. Prior(b, r) # layer[b].line
          BY <3>1, <5>1 DEF LayerStands
        <5>3. QED
          BY <1>6, <3>2, <4>3, <5>2
      <4>4. QED
        BY <4>1, <4>2, <4>3
    <3>5. /\ Taken(DocumentsUnder(s), b)' = Taken(DocumentsUnder(s), b)
          /\ Taken(TransactionsUnder(s), b)' = Taken(TransactionsUnder(s), b)
      BY <1>4, <3>4
    <3>6. LineStands(b, r, s)'
      BY <1>5, <3>3, <3>5 DEF LineStands, Revalued, Opened, Prior
    <3>7. QED
      BY <3>2, <3>6
  <2>2. QED
    BY <2>1 DEF ChainLaw
<1>13. SplitLaw(b)'
  <2>1. ASSUME NEW s \in InForce(b)', s.line # None PROVE PostedLine(s.line, b)'
    <3>1. PostedLine(s.line, b) /\ s.line \in Runs
      <4>1. CASE s \in InForce(b)
        BY <1>1, <2>1, <4>1, LineRuns DEF SplitLaw
      <4>2. CASE s = split
        <5>1. layer[b] # NoLayer /\ s.line = layer[b].line
          BY <1>6, <1>7, <1>8, <2>1, <4>2
        <5>2. QED
          BY <1>1, <1>8, <5>1 DEF LayerLaw, LayerStands
      <4>3. QED
        BY <1>3, <4>1, <4>2
    <3>2. QED
      BY <1>5, <3>1
  <2>2. QED
    BY <2>1 DEF SplitLaw
<1>14. QED
  BY <1>11, <1>12, <1>13 DEF CarryLaw

\* A restoration keeps the law of every layer.
LEMMA CarryRestored ==
    ASSUME TypeInv, TypeInv', CarryLaws, NEW splits \in [Bills -> Split], RestoredBy(splits),
           UNCHANGED run, NEW b \in Bills
    PROVE  CarryLaw(b)'
<1> DEFINE split == splits[b]
<1>1. /\ TypeOK /\ LayerLaw(b) /\ ChainLaw(b) /\ SplitLaw(b)
      /\ TypeOK' /\ split \in Split /\ Restores(b, split)
  BY DEF TypeInv, CarryLaws, CarryLaw, RestoredBy, Restoration
<1>2. /\ bill'[b].status = bill[b].status
      /\ bill'[b].balanceDue = bill[b].balanceDue + split.source
      /\ bill'[b].transactionBalanceDue = bill[b].transactionBalanceDue + split.transaction
      /\ layer'[b].line = layer[b].line /\ (layer'[b] = NoLayer <=> layer[b] = NoLayer)
      /\ layer[b] # NoLayer =>
           /\ layer'[b].open = layer[b].open + split.transaction
           /\ layer'[b].source = layer[b].source + split.source
           /\ layer'[b].carrying = layer[b].carrying + split.document
      /\ split = NoSplit => bill'[b] = bill[b] /\ layer'[b] = layer[b]
  BY <1>1, RestorationTypes DEF RestoredBy
<1>3. InForce(b)' \subseteq InForce(b) \cup {NoSplit}
  BY <1>1, RestoredTaken
<1>4. ASSUME NEW r
      PROVE  /\ Taken(DocumentsUnder(r), b) = Taken(DocumentsUnder(r), b)'
                   + (IF split.line = r THEN split.document ELSE 0)
             /\ Taken(TransactionsUnder(r), b) = Taken(TransactionsUnder(r), b)'
                   + (IF split.line = r THEN split.transaction ELSE 0)
             /\ Taken(DocumentsUnder(r), b)' \in Nat /\ Taken(TransactionsUnder(r), b)' \in Nat
  <2>1. DocumentsUnder(r) \in Measure /\ TransactionsUnder(r) \in Measure
    BY Measures
  <2>2. ASSUME NEW m \in Measure
        PROVE  Taken(m, b)' \in Nat /\ Taken(m, b) = Taken(m, b)' + m[splits[b]]
    BY <1>1, RestoredTaken
  <2>3. /\ Taken(DocumentsUnder(r), b) = Taken(DocumentsUnder(r), b)' + DocumentsUnder(r)[split]
        /\ Taken(DocumentsUnder(r), b)' \in Nat
    BY <2>1, <2>2
  <2>4. /\ Taken(TransactionsUnder(r), b)
             = Taken(TransactionsUnder(r), b)' + TransactionsUnder(r)[split]
        /\ Taken(TransactionsUnder(r), b)' \in Nat
    BY <2>1, <2>2
  <2>5. QED
    BY <1>1, <2>3, <2>4, UnderRun
<1>5. \A r \in Runs : PostedLine(r, b)' <=> PostedLine(r, b)
  BY DEF PostedLine, Lines
<1>6. split # NoSplit => split.line = layer[b].line
  BY <1>1 DEF Restores, Restorable
<1>7. NoSplit.line = None /\ NoSplit.document = 0 /\ NoSplit.transaction = 0
  BY DEF NoSplit
<1>8. /\ layer[b] = NoLayer <=> layer[b].line = None
      /\ layer[b] # NoLayer => /\ layer[b].line \in Runs /\ layer[b].line # None
                              /\ layer[b].open \in Nat /\ layer[b].carrying \in Nat
                              /\ layer[b].source \in Nat
      /\ layer[b].line \in Runs \cup {None}
  BY <1>1, LayerTypes, RowTypes
<1>9. split.document \in Nat /\ split.transaction \in Nat /\ split.source \in Nat
  BY <1>1 DEF Split
<1>10. split # NoSplit => split.transaction > 0
  BY <1>1 DEF Restores, Shaped
<1> HIDE DEF split
<1>11. LayerLaw(b)'
  <2>1. CASE layer[b] = NoLayer
    BY <1>2, <2>1 DEF LayerLaw
  <2>2. CASE layer[b] # NoLayer
    <3>1. PICK r \in Runs : r = layer[b].line
      BY <1>8, <2>2
    <3>2. LayerStands(b, r)
      BY <1>1, <2>2, <3>1 DEF LayerLaw
    <3>3. /\ Taken(DocumentsUnder(r), b) = Taken(DocumentsUnder(r), b)' + split.document
          /\ Taken(TransactionsUnder(r), b)
               = Taken(TransactionsUnder(r), b)' + split.transaction
      BY <1>4, <1>6, <1>7, <1>9, <3>1
    <3>4. /\ Revalued(b, r)' = Revalued(b, r) /\ Opened(b, r)' = Opened(b, r)
          /\ \A q \in Runs : Prior(b, q)' = Prior(b, q)
      BY DEF Revalued, Opened, Prior
    <3>5. /\ Revalued(b, r) = layer[b].carrying + Taken(DocumentsUnder(r), b)
          /\ Opened(b, r) = layer[b].open + Taken(TransactionsUnder(r), b)
      BY <3>2 DEF LayerStands
    <3>6. /\ Revalued(b, r) = layer'[b].carrying + Taken(DocumentsUnder(r), b)'
          /\ Opened(b, r) = layer'[b].open + Taken(TransactionsUnder(r), b)'
      BY <1>2, <1>4, <1>8, <1>9, <2>2, <3>3, <3>5
    <3>7. layer'[b].open = 0 => layer'[b].carrying = 0 /\ layer'[b].source = 0
      <4>1. CASE split = NoSplit
        BY <1>2, <3>2, <4>1 DEF LayerStands
      <4>2. CASE split # NoSplit
        BY <1>2, <1>8, <1>9, <1>10, <2>2, <4>2
      <4>3. QED
        BY <4>1, <4>2
    <3>8. /\ layer'[b].open = bill'[b].transactionBalanceDue
          /\ layer'[b].source = bill'[b].balanceDue
          /\ bill'[b].status = "FINALIZED"
      BY <1>2, <2>2, <3>2 DEF LayerStands
    <3>9. /\ PostedLine(r, b)' /\ \A q \in Runs : PostedLine(q, b)' => Prior(b, q)' # r
      BY <1>5, <3>2, <3>4 DEF LayerStands
    <3>10. LayerStands(b, r)'
      BY <3>4, <3>6, <3>7, <3>8, <3>9 DEF LayerStands
    <3>11. layer'[b].line = r
      BY <1>2, <3>1
    <3>12. QED
      BY <3>10, <3>11 DEF LayerLaw
  <2>3. QED
    BY <2>1, <2>2
<1>12. ChainLaw(b)'
  <2>1. ASSUME NEW r \in Runs, PostedLine(r, b)', Prior(b, r)' # None
        PROVE  LineStands(b, r, Prior(b, r))'
    <3>1. PostedLine(r, b)
      BY <1>5, <2>1
    <3>2. PICK s \in Runs : s = Prior(b, r) /\ s = Prior(b, r)' /\ s # None
      <4>1. Prior(b, r)' = Prior(b, r) /\ Prior(b, r) \in Runs \cup {None}
        BY <3>1, LineRuns DEF Prior
      <4>2. QED
        BY <2>1, <4>1
    <3>3. LineStands(b, r, s)
      BY <1>1, <3>1, <3>2 DEF ChainLaw
    <3>4. split.line # s
      <4>1. CASE split = NoSplit
        BY <1>7, <3>2, <4>1
      <4>2. CASE split # NoSplit /\ layer[b] = NoLayer
        BY <1>6, <1>8, <3>2, <4>2
      <4>3. CASE split # NoSplit /\ layer[b] # NoLayer
        <5>1. LayerStands(b, layer[b].line)
          BY <1>1, <4>3 DEF LayerLaw
        <5>2. Prior(b, r) # layer[b].line
          BY <3>1, <5>1 DEF LayerStands
        <5>3. QED
          BY <1>6, <3>2, <4>3, <5>2
      <4>4. QED
        BY <4>1, <4>2, <4>3
    <3>5. /\ Taken(DocumentsUnder(s), b)' = Taken(DocumentsUnder(s), b)
          /\ Taken(TransactionsUnder(s), b)' = Taken(TransactionsUnder(s), b)
      BY <1>4, <3>4
    <3>6. LineStands(b, r, s)'
      BY <1>5, <3>3, <3>5 DEF LineStands, Revalued, Opened, Prior
    <3>7. QED
      BY <3>2, <3>6
  <2>2. QED
    BY <2>1 DEF ChainLaw
<1>13. SplitLaw(b)'
  <2>1. ASSUME NEW s \in InForce(b)', s.line # None PROVE PostedLine(s.line, b)'
    <3>1. s \in InForce(b)
      BY <1>3, <1>7, <2>1
    <3>2. PostedLine(s.line, b) /\ s.line \in Runs
      BY <1>1, <2>1, <3>1, LineRuns DEF SplitLaw
    <3>3. QED
      BY <1>5, <3>2
  <2>2. QED
    BY <2>1 DEF SplitLaw
<1>14. QED
  BY <1>11, <1>12, <1>13 DEF CarryLaw

\* Nothing is in force under a run that is not posted.
LEMMA NothingUnder ==
    ASSUME TypeInv, NEW b \in Bills, SplitLaw(b), NEW r \in Runs, ~PostedLine(r, b)
    PROVE  Taken(DocumentsUnder(r), b) = 0 /\ Taken(TransactionsUnder(r), b) = 0
<1>1. \A s \in InForce(b) : s \in Split /\ s.line # r
  BY LineRuns, NoneIsNoRow DEF SplitLaw
<1>2. \A s \in InForce(b) : DocumentsUnder(r)[s] = 0 /\ TransactionsUnder(r)[s] = 0
  BY <1>1, UnderRun
<1>3. DirectOf(b) \in Directs /\ LaterOf(b) \in Laters
  BY LineRuns
<1>4. DocumentsUnder(r) \in Measure /\ TransactionsUnder(r) \in Measure
  BY Measures
<1>5. QED
  BY <1>2, <1>3, <1>4, MeasuredNone DEF Taken, InForce

\* When nothing is taken under a run, no split in force is of that run.
LEMMA NothingOf ==
    ASSUME TypeInv, NEW b \in Bills, NEW r \in Runs, Taken(TransactionsUnder(r), b) = 0,
           NEW s \in InForce(b)
    PROVE  s.line # r
<1>1. s \in Split /\ Shaped(s) /\ DirectOf(b) \in Directs /\ LaterOf(b) \in Laters
  BY LineRuns
<1>2. TransactionsUnder(r) \in Measure
  BY Measures
<1>3. TransactionsUnder(r)[s] <= 0
  BY <1>1, <1>2, MeasuredTypes DEF Taken, InForce
<1>4. CASE s = NoSplit
  BY <1>4, NoneIsNoRow DEF NoSplit
<1>5. CASE s # NoSplit
  BY <1>1, <1>3, <1>5, UnderRun DEF Shaped, Split
<1>6. QED
  BY <1>4, <1>5

\* Posting a revaluation keeps the law of every layer.
LEMMA CarryPosted ==
    ASSUME TypeInv, TypeInv', CarryLaws, NEW r \in Runs, PostRevaluation(r), NEW b \in Bills
    PROVE  CarryLaw(b)'
<1>1. /\ run[r].status = "REVIEWED" /\ Lines(r) = Eligible(run[r].date)
      /\ \A c \in Lines(r) : LineCurrent(r, c)
      /\ layer' = [c \in Bills |->
           IF c \in Lines(r)
           THEN [line |-> r, open |-> run[r].lines[c].open,
                 source |-> run[r].lines[c].source,
                 carrying |-> run[r].lines[c].revalued, rate |-> run[r].rate]
           ELSE layer[c]]
      /\ run' = [run EXCEPT ![r].status = "POSTED"]
      /\ UNCHANGED <<bill, payment, allocation, debitNote, debitAllocation, request>>
  BY DEF PostRevaluation
<1>2. /\ run'[r].status = "POSTED"
      /\ \A q \in Runs : run'[q].lines = run[q].lines /\ (q # r => run'[q] = run[q])
  BY <1>1, RunStatus
<1>3. LayerLaw(b) /\ ChainLaw(b) /\ SplitLaw(b)
  BY DEF CarryLaws, CarryLaw
<1>4. DirectOf(b)' = DirectOf(b) /\ LaterOf(b)' = LaterOf(b)
  BY <1>1 DEF DirectOf, LaterOf
<1>5. InForce(b)' = InForce(b)
  BY <1>4 DEF InForce
<1>6. \A q : /\ Taken(DocumentsUnder(q), b)' = Taken(DocumentsUnder(q), b)
             /\ Taken(TransactionsUnder(q), b)' = Taken(TransactionsUnder(q), b)
  BY <1>4 DEF Taken, DocumentsUnder, TransactionsUnder
<1>7. /\ \A q \in Runs : PostedLine(q, b)' <=> PostedLine(q, b) \/ (q = r /\ b \in Lines(r))
      /\ ~PostedLine(r, b)
  BY <1>1, <1>2 DEF PostedLine, Lines
<1>8. \A q \in Runs : /\ Prior(b, q)' = Prior(b, q) /\ Revalued(b, q)' = Revalued(b, q)
                      /\ Opened(b, q)' = Opened(b, q)
                      /\ run'[q].lines[b].carrying = run[q].lines[b].carrying
                      /\ run'[q].lines[b].open = run[q].lines[b].open
  BY <1>2 DEF Prior, Revalued, Opened
<1>9. /\ layer[b] = NoLayer <=> layer[b].line = None
      /\ layer[b] # NoLayer => layer[b].line \in Runs /\ layer[b].line # None
  BY LayerTypes, RowTypes DEF TypeInv
\* What the new line was built on.
<1>10. ASSUME b \in Lines(r), Prior(b, r) # None
       PROVE  /\ Prior(b, r) = layer[b].line /\ layer[b] # NoLayer
              /\ LayerStands(b, Prior(b, r))
              /\ run[r].lines[b].carrying = layer[b].carrying
              /\ run[r].lines[b].open = layer[b].open
  <2>1. LineCurrent(r, b)
    BY <1>1, <1>10
  <2>2. layer[b].line = Prior(b, r)
    BY <2>1 DEF LineCurrent, Prior
  <2>3. layer[b] # NoLayer
    BY <1>9, <1>10, <2>2
  <2>4. QED
    BY <1>3, <2>1, <2>2, <2>3 DEF LineCurrent, LayerLaw
\* No posted line was built on a run that was not posted.
<1>11. \A q \in Runs : PostedLine(q, b) => Prior(b, q) # r
  BY <1>3, <1>7, NoneIsNoRow DEF ChainLaw, LineStands
<1>12. LayerLaw(b)'
  <2>1. CASE b \in Lines(r)
    <3>1. /\ layer'[b] = [line |-> r, open |-> run[r].lines[b].open,
                         source |-> run[r].lines[b].source,
                         carrying |-> run[r].lines[b].revalued, rate |-> run[r].rate]
          /\ LineCurrent(r, b) /\ bill[b].status = "FINALIZED"
      BY <1>1, <2>1 DEF Eligible
    <3>2. /\ layer'[b].line = r /\ layer'[b].open = Opened(b, r)
          /\ layer'[b].carrying = Revalued(b, r) /\ layer'[b].source = run[r].lines[b].source
      BY <3>1 DEF Opened, Revalued
    <3>3. /\ layer'[b].open = bill'[b].transactionBalanceDue
          /\ layer'[b].source = bill'[b].balanceDue /\ bill'[b].status = "FINALIZED"
      BY <1>1, <3>1, <3>2 DEF LineCurrent, Opened
    <3>4. Opened(b, r) \in Nat /\ Revalued(b, r) \in Nat /\ Opened(b, r) > 0
      BY <2>1, LineTypes DEF Opened, Revalued
    <3>5. Taken(DocumentsUnder(r), b) = 0 /\ Taken(TransactionsUnder(r), b) = 0
      BY <1>3, <1>7, NothingUnder
    <3>6. /\ Revalued(b, r)' = layer'[b].carrying + Taken(DocumentsUnder(r), b)'
          /\ Opened(b, r)' = layer'[b].open + Taken(TransactionsUnder(r), b)'
      BY <1>6, <1>8, <3>2, <3>4, <3>5
    <3>7. \A q \in Runs : PostedLine(q, b)' => Prior(b, q)' # r
      <4>1. Prior(b, r) # r
        <5>1. CASE Prior(b, r) = None
          BY <5>1, NoneIsNoRow
        <5>2. CASE Prior(b, r) # None
          BY <1>7, <1>10, <2>1, <5>2 DEF LayerStands
        <5>3. QED
          BY <5>1, <5>2
      <4>2. QED
        BY <1>7, <1>8, <1>11, <4>1
    <3>8. PostedLine(r, b)'
      BY <1>7, <2>1
    <3>9. layer'[b].open # 0
      BY <3>2, <3>4
    <3>10. LayerStands(b, r)'
      BY <3>3, <3>6, <3>7, <3>8, <3>9 DEF LayerStands
    <3>11. QED
      BY <3>2, <3>10 DEF LayerLaw
  <2>2. CASE b \notin Lines(r) /\ layer[b] # NoLayer
    <3>1. PICK s \in Runs : s = layer[b].line
      BY <1>9, <2>2
    <3>2. layer'[b] = layer[b] /\ bill'[b] = bill[b]
      BY <1>1, <2>2
    <3>3. LayerStands(b, s)
      BY <1>3, <2>2, <3>1 DEF LayerLaw
    <3>4. \A q \in Runs : PostedLine(q, b)' <=> PostedLine(q, b)
      BY <1>7, <2>2
    <3>5. LayerStands(b, s)'
      BY <1>6, <1>8, <3>2, <3>3, <3>4 DEF LayerStands
    <3>6. QED
      BY <3>1, <3>2, <3>5 DEF LayerLaw
  <2>3. CASE b \notin Lines(r) /\ layer[b] = NoLayer
    <3>1. layer'[b] = NoLayer
      BY <1>1, <2>3
    <3>2. QED
      BY <3>1 DEF LayerLaw
  <2>4. QED
    BY <2>1, <2>2, <2>3
<1>13. ChainLaw(b)'
  <2>1. ASSUME NEW q \in Runs, PostedLine(q, b)', Prior(b, q)' # None
        PROVE  LineStands(b, q, Prior(b, q))'
    <3>1. PICK s \in Runs : s = Prior(b, q) /\ s = Prior(b, q)' /\ s # None
      <4>1. b \in Lines(q)
        BY <1>7, <2>1 DEF PostedLine
      <4>2. Prior(b, q) \in Runs \cup {None}
        BY <4>1, LineTypes DEF Prior
      <4>3. QED
        BY <1>8, <2>1, <4>2
    <3>2. CASE q = r
      <4>1. b \in Lines(r) /\ LayerStands(b, s)
        BY <1>7, <1>10, <2>1, <3>1, <3>2
      <4>2. /\ PostedLine(s, b)
            /\ Revalued(b, s) = run[r].lines[b].carrying + Taken(DocumentsUnder(s), b)
            /\ Opened(b, s) = run[r].lines[b].open + Taken(TransactionsUnder(s), b)
            /\ \A t \in Runs : PostedLine(t, b) => Prior(b, t) # s
        BY <1>10, <3>1, <3>2, <4>1 DEF LayerStands
      <4>3. \A t \in Runs : PostedLine(t, b)' /\ Prior(b, t)' = s => t = r
        BY <1>7, <1>8, <4>2
      <4>4. LineStands(b, r, s)'
        BY <1>6, <1>7, <1>8, <4>2, <4>3 DEF LineStands
      <4>5. QED
        BY <3>1, <3>2, <4>4
    <3>3. CASE q # r
      <4>1. PostedLine(q, b) /\ LineStands(b, q, s)
        BY <1>3, <1>7, <2>1, <3>1, <3>3 DEF ChainLaw
      <4>2. b \in Lines(r) => Prior(b, r) # s
        <5>1. SUFFICES ASSUME b \in Lines(r), Prior(b, r) = s
                       PROVE  FALSE
          OBVIOUS
        <5>2. LayerStands(b, s)
          BY <1>10, <3>1, <5>1
        <5>3. QED
          BY <3>1, <4>1, <5>2 DEF LayerStands
      <4>3. \A t \in Runs : PostedLine(t, b)' /\ Prior(b, t)' = s => t = q
        BY <1>7, <1>8, <4>1, <4>2 DEF LineStands
      <4>4. LineStands(b, q, s)'
        BY <1>6, <1>7, <1>8, <4>1, <4>3 DEF LineStands
      <4>5. QED
        BY <3>1, <4>4
    <3>4. QED
      BY <3>2, <3>3
  <2>2. QED
    BY <2>1 DEF ChainLaw
<1>14. SplitLaw(b)'
  <2>1. ASSUME NEW s \in InForce(b), s.line # None PROVE PostedLine(s.line, b)'
    BY <1>3, <1>7, <2>1, LineRuns DEF SplitLaw
  <2>2. QED
    BY <1>5, <2>1 DEF SplitLaw
<1>15. QED
  BY <1>12, <1>13, <1>14 DEF CarryLaw

\* Reversing a revaluation keeps the law of every layer.
LEMMA CarryReversed ==
    ASSUME TypeInv, TypeInv', CarryLaws, NEW r \in Runs, ReverseRevaluation(r), NEW b \in Bills
    PROVE  CarryLaw(b)'
<1>1. /\ run[r].status = "POSTED" /\ \A c \in Lines(r) : LineUntouched(r, c)
      /\ layer' = [c \in Bills |->
           IF c \notin Lines(r) THEN layer[c]
           ELSE LET line == run[r].lines[c]
                IN  IF line.prior = None THEN NoLayer
                    ELSE [layer[c] EXCEPT !.carrying = line.carrying,
                                          !.rate = run[line.prior].rate,
                                          !.line = line.prior]]
      /\ run' = [run EXCEPT ![r].status = "REVERSED"]
      /\ UNCHANGED <<bill, payment, allocation, debitNote, debitAllocation, request>>
  BY DEF ReverseRevaluation
<1>2. /\ run'[r].status = "REVERSED"
      /\ \A q \in Runs : run'[q].lines = run[q].lines /\ (q # r => run'[q] = run[q])
  BY <1>1, RunStatus
<1>3. LayerLaw(b) /\ ChainLaw(b) /\ SplitLaw(b)
  BY DEF CarryLaws, CarryLaw
<1>4. DirectOf(b)' = DirectOf(b) /\ LaterOf(b)' = LaterOf(b)
  BY <1>1 DEF DirectOf, LaterOf
<1>5. InForce(b)' = InForce(b)
  BY <1>4 DEF InForce
<1>6. \A q : /\ Taken(DocumentsUnder(q), b)' = Taken(DocumentsUnder(q), b)
             /\ Taken(TransactionsUnder(q), b)' = Taken(TransactionsUnder(q), b)
  BY <1>4 DEF Taken, DocumentsUnder, TransactionsUnder
<1>7. /\ \A q \in Runs : PostedLine(q, b)' <=> PostedLine(q, b) /\ q # r
      /\ PostedLine(r, b) <=> b \in Lines(r)
  BY <1>1, <1>2 DEF PostedLine, Lines
<1>8. \A q \in Runs : /\ Prior(b, q)' = Prior(b, q) /\ Revalued(b, q)' = Revalued(b, q)
                      /\ Opened(b, q)' = Opened(b, q)
                      /\ run'[q].lines[b].carrying = run[q].lines[b].carrying
                      /\ run'[q].lines[b].open = run[q].lines[b].open
  BY <1>2 DEF Prior, Revalued, Opened
<1>9. /\ layer[b] = NoLayer <=> layer[b].line = None
      /\ layer[b] # NoLayer =>
           /\ layer[b].line \in Runs /\ layer[b].line # None
           /\ layer[b] \in [line: Runs, open: Nat, source: Nat, carrying: Nat, rate: Nat]
  BY LayerTypes, RowTypes DEF TypeInv
\* A line that is reversed is the last one and nothing was settled under it.
<1>10. ASSUME b \in Lines(r)
       PROVE  /\ layer[b] # NoLayer /\ layer[b].line = r /\ LayerStands(b, r)
              /\ layer[b].open = Opened(b, r)
              /\ Taken(TransactionsUnder(r), b) = 0
              /\ \A q \in Runs : PostedLine(q, b) => Prior(b, q) # r
              /\ Opened(b, r) \in Nat /\ Opened(b, r) > 0
  <2>1. /\ layer[b].line = r /\ layer[b].open = Opened(b, r)
    BY <1>1, <1>10 DEF LineUntouched, Opened
  <2>2. layer[b] # NoLayer
    BY <1>9, <2>1, NoneIsNoRow
  <2>3. LayerStands(b, r)
    BY <1>3, <2>1, <2>2 DEF LayerLaw
  <2>4. Opened(b, r) \in Nat /\ Opened(b, r) > 0
    BY <1>10, LineTypes DEF Opened
  <2>5. Taken(TransactionsUnder(r), b) \in Nat
    BY LineRuns, Measures, MeasuredTypes DEF Taken
  <2>6. Opened(b, r) = layer[b].open + Taken(TransactionsUnder(r), b)
    BY <2>3 DEF LayerStands
  <2>7. Taken(TransactionsUnder(r), b) = 0
    BY <2>1, <2>4, <2>5, <2>6
  <2>8. \A q \in Runs : PostedLine(q, b) => Prior(b, q) # r
    BY <2>3 DEF LayerStands
  <2>9. QED
    BY <2>1, <2>2, <2>3, <2>4, <2>7, <2>8
<1>11. LayerLaw(b)'
  <2>1. CASE b \in Lines(r) /\ Prior(b, r) = None
    <3>1. layer'[b] = NoLayer
      BY <1>1, <2>1 DEF Prior
    <3>2. QED
      BY <3>1 DEF LayerLaw
  <2>2. CASE b \in Lines(r) /\ Prior(b, r) # None
    <3>1. PICK s \in Runs : s = Prior(b, r)
      BY <2>2, LineTypes DEF Prior
    <3>2. LineStands(b, r, s)
      BY <1>3, <1>7, <2>2, <3>1 DEF ChainLaw
    <3>3. s # r
      BY <1>7, <1>10, <2>2, <3>1
    <3>4. /\ layer'[b].line = s /\ layer'[b].carrying = run[r].lines[b].carrying
          /\ layer'[b].open = layer[b].open /\ layer'[b].source = layer[b].source
      <4> DEFINE carrying == run[r].lines[b].carrying
                 rate == run[s].rate
      <4>1. layer'[b] = [layer[b] EXCEPT !.carrying = carrying, !.rate = rate, !.line = s]
        BY <1>1, <2>2, <3>1 DEF Prior
      <4> HIDE DEF carrying, rate
      <4>2. /\ layer'[b].line = s /\ layer'[b].carrying = carrying
            /\ layer'[b].open = layer[b].open /\ layer'[b].source = layer[b].source
        BY <1>9, <1>10, <2>2, <4>1
      <4>3. QED
        BY <4>2 DEF carrying
    <3>5. /\ layer'[b].open = bill'[b].transactionBalanceDue
          /\ layer'[b].source = bill'[b].balanceDue /\ bill'[b].status = "FINALIZED"
      BY <1>1, <1>10, <2>2, <3>4 DEF LayerStands
    <3>6. /\ Revalued(b, s) = run[r].lines[b].carrying + Taken(DocumentsUnder(s), b)
          /\ Opened(b, s) = run[r].lines[b].open + Taken(TransactionsUnder(s), b)
      BY <3>2 DEF LineStands
    <3>7. /\ Revalued(b, s)' = layer'[b].carrying + Taken(DocumentsUnder(s), b)'
          /\ Opened(b, s)' = layer'[b].open + Taken(TransactionsUnder(s), b)'
      <4>1. layer'[b].open = run[r].lines[b].open
        BY <1>10, <2>2, <3>4 DEF Opened
      <4>2. QED
        BY <1>6, <1>8, <3>4, <3>6, <4>1
    <3>8. \A q \in Runs : PostedLine(q, b)' => Prior(b, q)' # s
      <4>1. \A q \in Runs : PostedLine(q, b) /\ Prior(b, q) = s => q = r
        BY <3>2 DEF LineStands
      <4>2. QED
        BY <1>7, <1>8, <4>1
    <3>9. PostedLine(s, b)'
      BY <1>7, <3>2, <3>3 DEF LineStands
    <3>10. layer'[b].open # 0
      BY <1>10, <2>2, <3>4
    <3>11. LayerStands(b, s)'
      BY <3>5, <3>7, <3>8, <3>9, <3>10 DEF LayerStands
    <3>12. QED
      BY <3>4, <3>11 DEF LayerLaw
  <2>3. CASE b \notin Lines(r) /\ layer[b] # NoLayer
    <3>1. PICK s \in Runs : s = layer[b].line
      BY <1>9, <2>3
    <3>2. layer'[b] = layer[b] /\ bill'[b] = bill[b]
      BY <1>1, <2>3
    <3>3. LayerStands(b, s)
      BY <1>3, <2>3, <3>1 DEF LayerLaw
    <3>4. \A q \in Runs : PostedLine(q, b)' <=> PostedLine(q, b)
      BY <1>7, <2>3
    <3>5. LayerStands(b, s)'
      BY <1>6, <1>8, <3>2, <3>3, <3>4 DEF LayerStands
    <3>6. QED
      BY <3>1, <3>2, <3>5 DEF LayerLaw
  <2>4. CASE b \notin Lines(r) /\ layer[b] = NoLayer
    <3>1. layer'[b] = NoLayer
      BY <1>1, <2>4
    <3>2. QED
      BY <3>1 DEF LayerLaw
  <2>5. QED
    BY <2>1, <2>2, <2>3, <2>4
<1>12. ChainLaw(b)'
  <2>1. ASSUME NEW q \in Runs, PostedLine(q, b)', Prior(b, q)' # None
        PROVE  LineStands(b, q, Prior(b, q))'
    <3>1. PostedLine(q, b) /\ q # r
      BY <1>7, <2>1
    <3>2. PICK s \in Runs : s = Prior(b, q) /\ s = Prior(b, q)' /\ s # None
      BY <1>8, <2>1, <3>1, LineRuns
    <3>3. LineStands(b, q, s)
      BY <1>3, <3>1, <3>2 DEF ChainLaw
    <3>4. s # r
      <4>1. CASE b \in Lines(r)
        BY <1>10, <3>1, <3>2, <4>1
      <4>2. CASE b \notin Lines(r)
        BY <1>7, <3>3, <4>2 DEF LineStands
      <4>3. QED
        BY <4>1, <4>2
    <3>5. \A t \in Runs : PostedLine(t, b)' /\ Prior(b, t)' = s => t = q
      BY <1>7, <1>8, <3>3 DEF LineStands
    <3>6. LineStands(b, q, s)'
      BY <1>6, <1>7, <1>8, <3>3, <3>4, <3>5 DEF LineStands
    <3>7. QED
      BY <3>2, <3>6
  <2>2. QED
    BY <2>1 DEF ChainLaw
<1>13. SplitLaw(b)'
  <2>1. ASSUME NEW s \in InForce(b), s.line # None PROVE PostedLine(s.line, b)'
    <3>1. PostedLine(s.line, b) /\ s.line \in Runs
      BY <1>3, <2>1, LineRuns DEF SplitLaw
    <3>2. s.line # r
      <4>1. CASE b \in Lines(r)
        BY <1>10, <2>1, <4>1, NothingOf
      <4>2. CASE b \notin Lines(r)
        BY <1>7, <3>1, <4>2
      <4>3. QED
        BY <4>1, <4>2
    <3>3. QED
      BY <1>7, <3>1, <3>2
  <2>2. QED
    BY <1>5, <2>1 DEF SplitLaw
<1>14. QED
  BY <1>11, <1>12, <1>13 DEF CarryLaw

\* A preview or a review neither posts nor reverses.
LEMMA CarryPrepared ==
    ASSUME TypeInv, TypeInv', CarryLaws, NEW r \in Runs,
           \/ \E date \in Dates, rate \in ClosingRates : PreviewRevaluation(r, date, rate)
           \/ ReviewRevaluation(r)
    PROVE  CarryLaws'
<1>1. CASE ReviewRevaluation(r)
  <2>1. /\ run[r].status = "DRAFT" /\ run' = [run EXCEPT ![r].status = "REVIEWED"]
        /\ UNCHANGED <<bill, payment, allocation, layer>>
    BY <1>1 DEF ReviewRevaluation
  <2>2. run'[r].status = "REVIEWED" /\ \A q \in Runs : q # r => run'[q] = run[q]
    BY <2>1, RunStatus
  <2>3. /\ \A q \in Runs : run[q].status = "POSTED" <=> run'[q].status = "POSTED"
        /\ \A q \in Runs : run[q].status = "POSTED" => run'[q] = run[q]
    BY <2>1, <2>2
  <2>4. \A b \in Bills : CarryLaw(b)'
    BY <2>1, <2>3, CarryKept DEF TypeInv
  <2>5. QED
    BY <2>4 DEF CarryLaws
<1>2. ASSUME NEW date \in Dates, NEW rate \in ClosingRates, PreviewRevaluation(r, date, rate)
      PROVE  CarryLaws'
  <2> DEFINE row == [status |-> "DRAFT", date |-> date, rate |-> rate,
                     lines |-> [b \in Bills |-> IF b \in Eligible(date) THEN Revalue(b, rate)
                                                ELSE NoLine]]
  <2>1. /\ run[r].status = "NONE"
        /\ \A s \in ActiveAt(date) : run[s].status # "POSTED"
        /\ run' = [s \in Runs |->
             IF s = r THEN row
             ELSE IF s \in ActiveAt(date) THEN [run[s] EXCEPT !.status = "FAILED"]
             ELSE run[s]]
        /\ UNCHANGED <<bill, payment, allocation, layer>>
    BY <1>2 DEF PreviewRevaluation
  <2>2. row.status = "DRAFT"
    OBVIOUS
  <2> HIDE DEF row
  <2>3. ASSUME NEW q \in Runs
        PROVE  /\ run[q].status = "POSTED" <=> run'[q].status = "POSTED"
               /\ run[q].status = "POSTED" => run'[q] = run[q]
    <3>1. run[q] \in Run
      BY RowTypes DEF TypeInv
    <3>2. CASE q = r
      BY <2>1, <2>2, <3>2
    <3>3. CASE q # r /\ q \in ActiveAt(date)
      <4>1. run'[q] = [run[q] EXCEPT !.status = "FAILED"]
        BY <2>1, <3>3
      <4>2. run'[q].status = "FAILED"
        BY <3>1, <4>1 DEF Run
      <4>3. QED
        BY <2>1, <3>3, <4>2
    <3>4. CASE q # r /\ q \notin ActiveAt(date)
      BY <2>1, <3>4
    <3>5. QED
      BY <3>2, <3>3, <3>4
  <2>4. \A b \in Bills : CarryLaw(b)'
    BY <2>1, <2>3, CarryKept DEF TypeInv
  <2>5. QED
    BY <2>4 DEF CarryLaws
<1>3. QED
  BY <1>1, <1>2

\* The steps that settle nothing and revalue nothing touch no bill that has a
\* layer.
LEMMA LayersSpared ==
    ASSUME TypeInv, CarryLaws, BillChange \/ DebitChange \/ UNCHANGED rows
    PROVE  /\ UNCHANGED <<payment, allocation, layer, run>>
           /\ \A b \in Bills : layer[b] # NoLayer => bill'[b] = bill[b]
<1>0. /\ bill \in [Bills -> Bill]
      /\ \A b \in Bills : layer[b] # NoLayer => bill[b].status = "FINALIZED"
  BY DEF TypeInv, TypeOK, CarryLaws, CarryLaw, LayerLaw, LayerStands
<1>1. CASE BillChange
  <2>1. PICK c \in Bills, row \in Bill : BillFinalized(c, row) \/ BillVoided(c, row)
    BY <1>1 DEF BillChange
  <2>2. /\ layer[c] = NoLayer /\ bill' = [bill EXCEPT ![c] = row]
        /\ UNCHANGED <<payment, allocation, layer, run>>
    BY <1>0, <2>1 DEF BillFinalized, BillVoided, MutationAllowed
  <2>3. QED
    BY <1>0, <2>2
<1>2. CASE DebitChange
  <2>1. ASSUME NEW d \in DebitNotes, NEW k \in DebitAllocations, NEW c \in Bills,
               NEW amount \in DebitTotals, ApplyDebitNote(k, d, c, amount)
        PROVE  /\ UNCHANGED <<payment, allocation, layer, run>>
               /\ \A b \in Bills : layer[b] # NoLayer => bill'[b] = bill[b]
    BY <1>0, <2>1 DEF ApplyDebitNote, MutationAllowed
  <2>2. ASSUME NEW k \in DebitAllocations, ReverseDebitAllocation(k)
        PROVE  /\ UNCHANGED <<payment, allocation, layer, run>>
               /\ \A b \in Bills : layer[b] # NoLayer => bill'[b] = bill[b]
    BY <1>0, <2>2 DEF ReverseDebitAllocation, MutationAllowed
  <2>3. ASSUME NEW d \in DebitNotes,
               DebitNoteVoided(d) \/ \E total \in DebitTotals : FinalizeDebitNote(d, total)
        PROVE  UNCHANGED <<bill, payment, allocation, layer, run>>
    BY <2>3 DEF DebitNoteVoided, FinalizeDebitNote
  <2>4. QED
    BY <1>2, <2>1, <2>2, <2>3 DEF DebitChange
<1>3. CASE UNCHANGED rows
  BY <1>3 DEF rows
<1>4. QED
  BY <1>1, <1>2, <1>3

\* Every change of the rows keeps the law of every layer.
LEMMA RowsKeepCarry ==
    ASSUME TypeInv, TypeInv', CarryLaws, RowChange
    PROVE  CarryLaws'
<1>1. CASE BillChange \/ DebitChange \/ UNCHANGED rows
  <2>1. /\ UNCHANGED <<payment, allocation, layer, run>>
        /\ \A b \in Bills : layer[b] # NoLayer => bill'[b] = bill[b]
    BY <1>1, LayersSpared
  <2>2. \A b \in Bills : CarryLaw(b)'
    BY <2>1, CarryKept DEF TypeInv
  <2>3. QED
    BY <2>2 DEF CarryLaws
<1>2. CASE PaymentChange \/ AllocationChange
  <2>1. SplitsMoved
    BY <1>2, PaymentsMove DEF TypeInv
  <2>2. PICK splits \in [Bills -> Split] : SettledBy(splits) \/ RestoredBy(splits)
    BY <2>1 DEF SplitsMoved
  <2>3. QED
    BY <2>1, <2>2, CarrySettled, CarryRestored DEF SplitsMoved, CarryLaws
<1>3. CASE RevaluationNext
  <2>1. PICK r \in Runs :
          \/ \E date \in Dates, rate \in ClosingRates : PreviewRevaluation(r, date, rate)
          \/ ReviewRevaluation(r)
          \/ PostRevaluation(r)
          \/ ReverseRevaluation(r)
    BY <1>3 DEF RevaluationNext
  <2>2. QED
    BY <2>1, CarryPrepared, CarryPosted, CarryReversed DEF CarryLaws
<1>4. QED
  BY <1>1, <1>2, <1>3 DEF RowChange

\* The law of layers holds at the start.
LEMMA InitCarry == Init => CarryLaws
<1> SUFFICES ASSUME Init, NEW b \in Bills
             PROVE  CarryLaw(b)
  BY DEF CarryLaws
<1>1. \A r \in Runs : ~PostedLine(r, b)
  BY DEF Init, PostedLine
<1>2. layer[b] = NoLayer
  BY DEF Init
<1>3. \A s \in InForce(b) : s.line = None
  BY NothingInForce DEF NoSplit
<1>4. QED
  BY <1>1, <1>2, <1>3 DEF CarryLaw, LayerLaw, ChainLaw, SplitLaw

CarryInv == TypeInv /\ CarryLaws

\* The law of layers holds in every reachable state.
LEMMA CarryInvariant == Spec => []CarryInv
<1>1. Init => CarryInv
  BY InitTypes, InitCarry DEF CarryInv
<1>2. CarryInv /\ [Next]_vars => CarryInv'
  BY StepTypes, RowsKeepCarry DEF CarryInv
<1>3. QED
  BY <1>1, <1>2, PTL DEF Spec

\* Layers, later revaluations and settlements in force rest on posted runs:
\* reverse() takes back no run that something was built on.
THEOREM RevaluationsStay == Spec => []RevaluationsStand
<1>1. CarryInv => RevaluationsStand
  <2> SUFFICES ASSUME CarryInv, NEW b \in Bills
               PROVE  /\ layer[b] # NoLayer => run[layer[b].line].status = "POSTED"
                      /\ \A r \in Runs : run[r].status = "POSTED" =>
                           /\ run[r].lines[b] # NoLine /\ run[r].lines[b].prior # None
                                => run[run[r].lines[b].prior].status = "POSTED"
                      /\ \A p \in Payments : DirectOf(b)[p].line # None =>
                           run[DirectOf(b)[p].line].status = "POSTED"
                      /\ \A u \in Allocations : LaterOf(b)[u].line # None =>
                           run[LaterOf(b)[u].line].status = "POSTED"
    BY DEF RevaluationsStand
  <2>1. LayerLaw(b) /\ ChainLaw(b) /\ SplitLaw(b)
    BY DEF CarryInv, CarryLaws, CarryLaw
  <2>2. layer[b] # NoLayer => run[layer[b].line].status = "POSTED"
    BY <2>1 DEF LayerLaw, LayerStands, PostedLine
  <2>3. ASSUME NEW r \in Runs, run[r].status = "POSTED", run[r].lines[b] # NoLine,
               run[r].lines[b].prior # None
        PROVE  run[run[r].lines[b].prior].status = "POSTED"
    BY <2>1, <2>3 DEF ChainLaw, LineStands, PostedLine, Prior, Lines
  <2>4. /\ \A p \in Payments : DirectOf(b)[p] \in InForce(b)
        /\ \A u \in Allocations : LaterOf(b)[u] \in InForce(b)
    BY DEF InForce, Both
  <2>5. \A s \in InForce(b) : s.line # None => run[s.line].status = "POSTED"
    BY <2>1 DEF SplitLaw, PostedLine
  <2>6. QED
    BY <2>2, <2>3, <2>4, <2>5
<1>2. QED
  BY <1>1, CarryInvariant, PTL

\* The carrying layer of a bill follows its balances through every settlement,
\* reversal and revaluation, and is the revalued amount less what it settled.
THEOREM LayersAreConserved == Spec => []LayerConserved
<1>1. CarryInv => LayerConserved
  <2> SUFFICES ASSUME CarryInv
               PROVE  LayerConserved
    OBVIOUS
  <2>1. ASSUME NEW b \in Bills, layer[b] # NoLayer, NEW r, r = layer[b].line
        PROVE  /\ bill[b].status = "FINALIZED"
               /\ layer[b].open = bill[b].transactionBalanceDue
               /\ layer[b].source = bill[b].balanceDue
               /\ run[r].lines[b].revalued = layer[b].carrying
                    + Total(Payments, [p \in Payments |->
                        IF DirectOf(b)[p].line = r THEN DirectOf(b)[p].document ELSE 0])
                    + Total(Allocations, [u \in Allocations |->
                        IF LaterOf(b)[u].line = r THEN LaterOf(b)[u].document ELSE 0])
               /\ layer[b].open = 0 => layer[b].carrying = 0 /\ layer[b].source = 0
    <3>1. LayerStands(b, r) /\ TypeInv
      BY <2>1 DEF CarryInv, CarryLaws, CarryLaw, LayerLaw
    <3>2. DirectOf(b) \in Directs /\ LaterOf(b) \in Laters
      BY <3>1, LineRuns
    <3> DEFINE f == [p \in Payments |->
                       IF DirectOf(b)[p].line = r THEN DirectOf(b)[p].document ELSE 0]
               g == [u \in Allocations |->
                       IF LaterOf(b)[u].line = r THEN LaterOf(b)[u].document ELSE 0]
    <3>3. /\ [p \in Payments |-> DocumentsUnder(r)[DirectOf(b)[p]]] = f
          /\ [u \in Allocations |-> DocumentsUnder(r)[LaterOf(b)[u]]] = g
      BY <3>2, UnderRun DEF Directs, Laters
    <3>4. /\ Taken(DocumentsUnder(r), b) = Total(Payments, f) + Total(Allocations, g)
          /\ f \in [Payments -> Nat] /\ g \in [Allocations -> Nat]
      BY <3>2, <3>3, Measures, MeasuredTypes DEF Taken, Measured
    <3> HIDE DEF f, g
    <3>5. Total(Payments, f) \in Nat /\ Total(Allocations, g) \in Nat
      BY <3>4, TotalType, FiniteRows
    <3>6. layer[b].carrying \in Nat
      BY <2>1, <3>1, LayerTypes, RowTypes DEF TypeInv
    <3>7. run[r].lines[b].revalued = layer[b].carrying + Total(Payments, f) + Total(Allocations, g)
      <4>1. run[r].lines[b].revalued = layer[b].carrying + Taken(DocumentsUnder(r), b)
        BY <3>1 DEF LayerStands, Revalued
      <4>2. QED
        BY <3>4, <3>5, <3>6, <4>1
    <3>8. QED
      BY <3>1, <3>7 DEF LayerStands, f, g
  <2>2. QED
    BY <2>1 DEF LayerConserved
<1>2. QED
  BY <1>1, CarryInvariant, PTL

-----------------------------------------------------------------------------
(* Debit notes are conserved.                                                *)

DebitsOf(d) ==
    [k \in DebitAllocations |->
       IF debitAllocation[k].status = "ACTIVE" /\ debitAllocation[k].debitNote = d
       THEN debitAllocation[k].amount ELSE 0]

DebitLaw(d) ==
    /\ debitNote[d].status = "FINALIZED" =>
         debitNote[d].total = debitNote[d].unappliedAmount + Total(DebitAllocations, DebitsOf(d))
    /\ debitNote[d].status = "NONE" => \A k \in DebitAllocations : DebitsOf(d)[k] = 0

DebitLaws == \A d \in DebitNotes : DebitLaw(d)

DebitsTyped ==
    \A d \in DebitNotes : /\ DebitsOf(d) \in [DebitAllocations -> Nat]
                          /\ Total(DebitAllocations, DebitsOf(d)) \in Nat

\* The debits of a note are typed.
LEMMA DebitsTypes == TypeOK => DebitsTyped
<1> SUFFICES ASSUME TypeOK, NEW d \in DebitNotes
             PROVE  /\ DebitsOf(d) \in [DebitAllocations -> Nat]
                    /\ Total(DebitAllocations, DebitsOf(d)) \in Nat
  BY DEF DebitsTyped
<1>1. \A k \in DebitAllocations : debitAllocation[k].amount \in Nat
  BY RowTypes
<1>2. DebitsOf(d) \in [DebitAllocations -> Nat]
  BY <1>1 DEF DebitsOf
<1>3. QED
  BY <1>2, TotalType, FiniteRows

\* They are typed after a step.
LEMMA DebitsTypesNext == TypeOK' => DebitsTyped'
  BY DebitsTypes, PTL

\* The allocations of one note change by the amount of one row.
LEMMA DebitsUpdate ==
    ASSUME TypeOK, TypeOK', NEW k \in DebitAllocations, NEW d \in DebitNotes,
           \A j \in DebitAllocations \ {k} : debitAllocation'[j] = debitAllocation[j]
    PROVE  Total(DebitAllocations, DebitsOf(d))'
             = Total(DebitAllocations, DebitsOf(d)) - DebitsOf(d)[k] + DebitsOf(d)'[k]
<1> DEFINE f == DebitsOf(d)
           g == DebitsOf(d)'
<1>1. f \in [DebitAllocations -> Nat] /\ g \in [DebitAllocations -> Nat]
  BY DebitsTypes, DebitsTypesNext DEF DebitsTyped
<1>2. \A j \in DebitAllocations \ {k} : f[j] = g[j]
  BY DEF DebitsOf
<1>3. Total(DebitAllocations, DebitsOf(d))' = Total(DebitAllocations, g)
  OBVIOUS
<1>4. Total(DebitAllocations, DebitsOf(d)) = Total(DebitAllocations, f)
  OBVIOUS
<1> HIDE DEF f, g
<1>5. Total(DebitAllocations, g) = Total(DebitAllocations, f) - f[k] + g[k]
  BY <1>1, <1>2, TotalUpdate, FiniteRows
<1>6. QED
  BY <1>3, <1>4, <1>5 DEF f, g

\* The law of a note depends on the note and its debits alone.
LEMMA DebitLawKept ==
    ASSUME DebitLaws, NEW d \in DebitNotes, DebitsOf(d)' = DebitsOf(d),
           debitNote'[d] = debitNote[d]
    PROVE  DebitLaw(d)'
  BY DEF DebitLaws, DebitLaw

\* Every change of the rows keeps the law of every debit note.
LEMMA RowsKeepDebits ==
    ASSUME TypeInv, TypeInv', DebitLaws, RowChange
    PROVE  DebitLaws'
<1>0. /\ TypeOK /\ TypeOK' /\ debitNote \in [DebitNotes -> DebitNote]
      /\ debitAllocation \in [DebitAllocations -> DebitAllocation]
      /\ \A d \in DebitNotes : /\ debitNote[d].total \in Nat
                               /\ debitNote[d].unappliedAmount \in Nat
      /\ \A k \in DebitAllocations : debitAllocation[k].amount \in Nat
  BY RowTypes DEF TypeInv, TypeOK
<1>1. CASE UNCHANGED <<debitNote, debitAllocation>>
  <2>1. \A d \in DebitNotes : DebitsOf(d)' = DebitsOf(d)
    BY <1>1 DEF DebitsOf
  <2>2. QED
    BY <1>1, <2>1, DebitLawKept DEF DebitLaws
<1>2. ASSUME NEW c \in DebitNotes, NEW total \in DebitTotals, FinalizeDebitNote(c, total)
      PROVE  DebitLaws'
  <2>1. /\ debitNote[c].status = "NONE" /\ debitAllocation' = debitAllocation /\ total \in Nat
        /\ debitNote' = [debitNote EXCEPT ![c] =
             [status |-> "FINALIZED", total |-> total, unappliedAmount |-> total]]
    BY <1>2, Positive DEF FinalizeDebitNote
  <2>2. ASSUME NEW d \in DebitNotes PROVE DebitLaw(d)'
    <3>1. DebitsOf(d)' = DebitsOf(d)
      BY <2>1 DEF DebitsOf
    <3>2. CASE d # c
      BY <1>0, <2>1, <3>1, <3>2, DebitLawKept
    <3>3. CASE d = c
      <4>1. Total(DebitAllocations, DebitsOf(d)) = 0
        <5>1. \A k \in DebitAllocations : DebitsOf(d)[k] = 0
          BY <2>1, <3>3 DEF DebitLaws, DebitLaw
        <5>2. QED
          BY <1>0, <5>1, DebitsTypes, TotalZero DEF DebitsTyped
      <4>2. debitNote'[d].status = "FINALIZED" /\ debitNote'[d].total = total
              /\ debitNote'[d].unappliedAmount = total
        BY <1>0, <2>1, <3>3
      <4>3. QED
        BY <2>1, <3>1, <4>1, <4>2 DEF DebitLaw
    <3>4. QED
      BY <3>2, <3>3
  <2>3. QED
    BY <2>2 DEF DebitLaws
<1>3. ASSUME NEW c \in DebitNotes, DebitNoteVoided(c)
      PROVE  DebitLaws'
  <2>1. /\ debitNote[c].status = "FINALIZED" /\ debitAllocation' = debitAllocation
        /\ debitNote' = [debitNote EXCEPT ![c].status = "VOIDED"]
    BY <1>3 DEF DebitNoteVoided
  <2>2. ASSUME NEW d \in DebitNotes PROVE DebitLaw(d)'
    <3>1. DebitsOf(d)' = DebitsOf(d)
      BY <2>1 DEF DebitsOf
    <3>2. CASE d # c
      BY <1>0, <2>1, <3>1, <3>2, DebitLawKept
    <3>3. CASE d = c
      <4>1. debitNote'[d].status = "VOIDED"
        BY <1>0, <2>1, <3>3 DEF DebitNote
      <4>2. QED
        BY <4>1 DEF DebitLaw
    <3>4. QED
      BY <3>2, <3>3
  <2>3. QED
    BY <2>2 DEF DebitLaws
<1>4. ASSUME NEW k \in DebitAllocations, NEW c \in DebitNotes, NEW unapplied \in Nat,
             debitNote[c].status = "FINALIZED",
             debitNote' = [debitNote EXCEPT ![c].unappliedAmount = unapplied],
             \A j \in DebitAllocations \ {k} : debitAllocation'[j] = debitAllocation[j],
             \A d \in DebitNotes \ {c} : DebitsOf(d)[k] = 0 /\ DebitsOf(d)'[k] = 0,
             debitNote[c].unappliedAmount + DebitsOf(c)[k] = unapplied + DebitsOf(c)'[k]
      PROVE  DebitLaws'
  <2>1. ASSUME NEW d \in DebitNotes PROVE DebitLaw(d)'
    <3>1. CASE d # c
      <4>1. DebitsOf(d)' = DebitsOf(d)
        BY <1>4, <3>1 DEF DebitsOf
      <4>2. debitNote'[d] = debitNote[d]
        BY <1>0, <1>4, <3>1
      <4>3. QED
        BY <4>1, <4>2, DebitLawKept
    <3>2. CASE d = c
      <4> DEFINE t == Total(DebitAllocations, DebitsOf(d))
                 x == DebitsOf(d)[k]
                 y == DebitsOf(d)'[k]
      <4>1. Total(DebitAllocations, DebitsOf(d))' = t - x + y
        BY <1>0, <1>4, DebitsUpdate
      <4>2. t \in Nat /\ x \in Nat /\ y \in Nat
        <5>1. /\ DebitsOf(d) \in [DebitAllocations -> Nat] /\ t \in Nat
              /\ DebitsOf(d)' \in [DebitAllocations -> Nat]
          BY <1>0, DebitsTypes, DebitsTypesNext DEF DebitsTyped
        <5>2. QED
          BY <5>1
      <4>3. debitNote[d].total = debitNote[d].unappliedAmount + t
        BY <1>4, <3>2 DEF DebitLaws, DebitLaw
      <4>4. debitNote[d].unappliedAmount + x = unapplied + y
        BY <1>4, <3>2
      <4>5. debitNote'[d].status = "FINALIZED" /\ debitNote'[d].total = debitNote[d].total
              /\ debitNote'[d].unappliedAmount = unapplied
        BY <1>0, <1>4, <3>2 DEF DebitNote
      <4> HIDE DEF t, x, y
      <4>6. debitNote'[d].total
              = debitNote'[d].unappliedAmount + Total(DebitAllocations, DebitsOf(d))'
        BY <1>0, <4>1, <4>2, <4>3, <4>4, <4>5
      <4>7. QED
        BY <4>5, <4>6 DEF DebitLaw
    <3>3. QED
      BY <3>1, <3>2
  <2>2. QED
    BY <2>1 DEF DebitLaws
<1>5. ASSUME NEW d \in DebitNotes, NEW k \in DebitAllocations, NEW b \in Bills,
             NEW amount \in DebitTotals, ApplyDebitNote(k, d, b, amount)
      PROVE  DebitLaws'
  <2>1. /\ debitAllocation[k].status = "NONE" /\ debitNote[d].status = "FINALIZED"
        /\ amount \in Nat /\ amount <= debitNote[d].unappliedAmount
        /\ debitNote' = [debitNote EXCEPT ![d].unappliedAmount = @ - amount]
        /\ debitAllocation' = [debitAllocation EXCEPT ![k] =
             [status |-> "ACTIVE", debitNote |-> d, bill |-> b, amount |-> amount]]
    BY <1>5, Positive DEF ApplyDebitNote
  <2> DEFINE unapplied == debitNote[d].unappliedAmount - amount
  <2>2. unapplied \in Nat /\ debitNote[d].unappliedAmount = unapplied + amount
    BY <1>0, <2>1
  <2>3. debitNote' = [debitNote EXCEPT ![d].unappliedAmount = unapplied]
    BY <2>1
  <2> HIDE DEF unapplied
  <2>4. \A j \in DebitAllocations \ {k} : debitAllocation'[j] = debitAllocation[j]
    BY <1>0, <2>1
  <2>5. \A c \in DebitNotes : /\ DebitsOf(c)[k] = 0
                              /\ DebitsOf(c)'[k] = (IF c = d THEN amount ELSE 0)
    BY <1>0, <2>1 DEF DebitsOf
  <2>6. \A c \in DebitNotes \ {d} : DebitsOf(c)[k] = 0 /\ DebitsOf(c)'[k] = 0
    BY <2>5
  <2>7. debitNote[d].unappliedAmount + DebitsOf(d)[k] = unapplied + DebitsOf(d)'[k]
    <3>1. DebitsOf(d)[k] = 0 /\ DebitsOf(d)'[k] = amount
      BY <2>5
    <3>2. debitNote[d].unappliedAmount + 0 = debitNote[d].unappliedAmount
      BY <1>0
    <3>3. QED
      BY <2>2, <3>1, <3>2
  <2>8. debitNote[d].status = "FINALIZED"
    BY <2>1
  <2>9. QED
    BY <1>4, <2>2, <2>3, <2>4, <2>6, <2>7, <2>8
<1>6. ASSUME NEW k \in DebitAllocations, ReverseDebitAllocation(k)
      PROVE  DebitLaws'
  <2>1. debitAllocation[k].status = "ACTIVE"
    BY <1>6 DEF ReverseDebitAllocation
  <2>2. PICK d \in DebitNotes : d = debitAllocation[k].debitNote
    BY <2>1 DEF TypeInv, References
  <2> DEFINE amount == debitAllocation[k].amount
             unapplied == debitNote[d].unappliedAmount + amount
  <2>3. /\ debitNote[d].status = "FINALIZED"
        /\ debitNote' = [debitNote EXCEPT ![d].unappliedAmount = unapplied]
        /\ debitAllocation' = [debitAllocation EXCEPT ![k].status = "REVERSED"]
    BY <1>6, <2>2 DEF ReverseDebitAllocation
  <2>4. unapplied \in Nat /\ unapplied = debitNote[d].unappliedAmount + amount
    BY <1>0
  <2> HIDE DEF unapplied
  <2>5. \A j \in DebitAllocations \ {k} : debitAllocation'[j] = debitAllocation[j]
    BY <1>0, <2>3
  <2>6. debitAllocation'[k].status = "REVERSED"
    BY <1>0, <2>3 DEF DebitAllocation
  <2>7. \A c \in DebitNotes : /\ DebitsOf(c)'[k] = 0
                              /\ DebitsOf(c)[k] = (IF c = d THEN amount ELSE 0)
    BY <2>1, <2>2, <2>6 DEF DebitsOf
  <2> HIDE DEF amount
  <2>8. unapplied + 0 = unapplied
    BY <2>4
  <2>9. QED
    BY <1>4, <2>3, <2>4, <2>5, <2>7, <2>8
<1>7. CASE DebitChange
  BY <1>2, <1>3, <1>5, <1>6, <1>7 DEF DebitChange
<1>8. CASE BillChange \/ PaymentChange \/ AllocationChange \/ RevaluationNext \/ UNCHANGED rows
  <2>1. BillChange => UNCHANGED <<debitNote, debitAllocation>>
    BY DEF BillChange, BillFinalized, BillVoided
  <2>2. PaymentChange => UNCHANGED <<debitNote, debitAllocation>>
    BY DEF PaymentChange, PaymentCreated, PaymentVoided
  <2>3. AllocationChange => UNCHANGED <<debitNote, debitAllocation>>
    BY DEF AllocationChange, AllocationApplied, AllocationReversed
  <2>4. RevaluationNext => UNCHANGED <<debitNote, debitAllocation>>
    BY DEF RevaluationNext, PreviewRevaluation, ReviewRevaluation, PostRevaluation,
           ReverseRevaluation
  <2>5. UNCHANGED rows => UNCHANGED <<debitNote, debitAllocation>>
    BY DEF rows
  <2>6. QED
    BY <1>1, <1>8, <2>1, <2>2, <2>3, <2>4, <2>5
<1>9. QED
  BY <1>7, <1>8 DEF RowChange

\* The law of debit notes holds at the start.
LEMMA InitDebits == Init => DebitLaws
  BY DEF Init, DebitLaws, DebitLaw, DebitsOf

-----------------------------------------------------------------------------
(* The control account.                                                      *)

Carryings == [b \in Bills |-> CarryingOf(b)]
Unapplieds ==
    [p \in Payments |-> IF payment[p].status = "POSTED"
                        THEN payment[p].unappliedAmount ELSE 0]
OpenDebits ==
    [d \in DebitNotes |-> IF debitNote[d].status = "FINALIZED"
                          THEN debitNote[d].unappliedAmount ELSE 0]
VoidedBills == [b \in Bills |-> OfVoidedBill(b)]

\* The six sums of the subledger.
Carried == Total(Bills, Carryings)
Unspent == Total(Payments, Unapplieds)
Undebited == Total(DebitNotes, OpenDebits)
LeftByPayments == Total(Allocations, LeftBehind)
LeftByDebits == Total(DebitAllocations, DebitLeftBehind)
LeftByBills == Total(Bills, VoidedBills)

AccountLaw ==
    payable = Carried - Unspent - Undebited + LeftByPayments + LeftByDebits - LeftByBills

SumsTyped ==
    /\ Carryings \in [Bills -> Nat] /\ Carried \in Nat
    /\ Unapplieds \in [Payments -> Nat] /\ Unspent \in Nat
    /\ OpenDebits \in [DebitNotes -> Nat] /\ Undebited \in Nat
    /\ LeftBehind \in [Allocations -> Nat] /\ LeftByPayments \in Nat
    /\ DebitLeftBehind \in [DebitAllocations -> Nat] /\ LeftByDebits \in Nat
    /\ VoidedBills \in [Bills -> Nat] /\ LeftByBills \in Nat

\* The sums of the control account are typed.
LEMMA SumsTypes == TypeOK => SumsTyped
<1> SUFFICES ASSUME TypeOK
             PROVE  SumsTyped
  OBVIOUS
<1>1. Carryings \in [Bills -> Nat]
  <2>1. ASSUME NEW b \in Bills PROVE CarryingOf(b) \in Nat
    <3>1. bill[b].balanceDue \in Nat /\ layer[b] \in Layer
      BY RowTypes
    <3>2. layer[b] # NoLayer => layer[b].carrying \in Nat
      BY <3>1, LayerTypes
    <3>3. QED
      BY <3>1, <3>2 DEF CarryingOf
  <2>2. QED
    BY <2>1 DEF Carryings
<1>2. Unapplieds \in [Payments -> Nat]
  BY RowTypes DEF Unapplieds
<1>3. OpenDebits \in [DebitNotes -> Nat]
  BY RowTypes DEF OpenDebits
<1>4. LeftBehind \in [Allocations -> Nat]
  <2>1. \A u \in Allocations : allocation[u].split \in Split
    BY RowTypes
  <2>2. \A s \in Split : s.settlement \in Nat
    BY DEF Split
  <2>3. QED
    BY <2>1, <2>2 DEF LeftBehind
<1>5. DebitLeftBehind \in [DebitAllocations -> Nat]
  BY RowTypes DEF DebitLeftBehind
<1>6. VoidedBills \in [Bills -> Nat]
  <2>1. ASSUME NEW b \in Bills PROVE OfVoidedBill(b) \in Nat
    <3>1. Total(Allocations, [u \in Allocations |-> LaterOf(b)[u].source]) \in Nat
      BY TakenFields
    <3>2. Total(DebitAllocations, DebitedTo(b)) \in Nat
      BY DebitedTypes DEF Debited
    <3>3. QED
      BY <3>1, <3>2 DEF OfVoidedBill
  <2>2. QED
    BY <2>1 DEF VoidedBills
<1>7. Carried \in Nat /\ LeftByBills \in Nat
  BY <1>1, <1>6, TotalType, FiniteRows DEF Carried, LeftByBills
<1>8. Unspent \in Nat /\ Undebited \in Nat
  BY <1>2, <1>3, TotalType, FiniteRows DEF Unspent, Undebited
<1>9. LeftByPayments \in Nat /\ LeftByDebits \in Nat
  BY <1>4, <1>5, TotalType, FiniteRows DEF LeftByPayments, LeftByDebits
<1>10. QED
  BY <1>1, <1>2, <1>3, <1>4, <1>5, <1>6, <1>7, <1>8, <1>9 DEF SumsTyped

\* They are typed after a step.
LEMMA SumsTypesNext == TypeOK' => SumsTyped'
  BY SumsTypes, PTL

-----------------------------------------------------------------------------
\* The carrying value of the bills after a settlement.
LEMMA CarriedSettled ==
    ASSUME TypeOK, TypeOK', NEW splits \in [Bills -> Split], Settlement(splits)
    PROVE  Carried = Carried' + Total(Bills, DocumentsOf(splits))
<1>1. ASSUME NEW b \in Bills
      PROVE  CarryingOf(b) = CarryingOf(b)' + DocumentsOf(splits)[b]
  <2>1. /\ Claims(b, splits[b]) /\ splits[b] \in Split
        /\ splits[b].document \in Nat /\ DocumentsOf(splits)[b] = splits[b].document
    BY DEF Settlement, Split, DocumentsOf
  <2>2. /\ bill'[b].status = bill[b].status
        /\ bill'[b].balanceDue = bill[b].balanceDue - splits[b].source
        /\ layer'[b] = NoLayer <=> layer[b] = NoLayer
        /\ layer[b] # NoLayer => layer'[b].carrying = layer[b].carrying - splits[b].document
    BY SettlementTypes
  <2>3. bill[b].balanceDue \in Nat /\ (layer[b] # NoLayer => layer[b].carrying \in Nat)
    <3>1. layer[b] \in Layer /\ bill[b].balanceDue \in Nat
      BY RowTypes
    <3>2. QED
      BY <3>1, LayerTypes
  <2>4. CASE bill[b].status # "FINALIZED"
    <3>1. splits[b] = NoSplit
      BY <2>1, <2>4 DEF Claims, Claimable
    <3>2. splits[b].document = 0
      BY <3>1 DEF NoSplit
    <3>3. QED
      BY <2>1, <2>2, <2>4, <3>2 DEF CarryingOf
  <2>5. CASE bill[b].status = "FINALIZED" /\ layer[b] = NoLayer
    <3>1. splits[b].document = splits[b].source
      <4>1. layer[b].line = None
        BY <2>5 DEF NoLayer
      <4>2. CASE splits[b] = NoSplit
        BY <4>2 DEF NoSplit
      <4>3. CASE splits[b] # NoSplit
        BY <2>1, <4>1, <4>3 DEF Claims
      <4>4. QED
        BY <4>2, <4>3
    <3>2. CarryingOf(b) = bill[b].balanceDue /\ CarryingOf(b)' = bill'[b].balanceDue
      BY <2>2, <2>5 DEF CarryingOf
    <3>3. QED
      BY <2>1, <2>2, <2>3, <3>1, <3>2
  <2>6. CASE bill[b].status = "FINALIZED" /\ layer[b] # NoLayer
    <3>1. CarryingOf(b) = layer[b].carrying /\ CarryingOf(b)' = layer'[b].carrying
      BY <2>2, <2>6 DEF CarryingOf
    <3>2. QED
      BY <2>1, <2>2, <2>3, <2>6, <3>1
  <2>7. QED
    BY <2>4, <2>5, <2>6
<1> DEFINE f == Carryings'
           g == DocumentsOf(splits)
           h == Carryings
<1>2. \A b \in Bills : h[b] = f[b] + g[b]
  BY <1>1 DEF Carryings
<1>3. f \in [Bills -> Nat] /\ g \in [Bills -> Nat] /\ h \in [Bills -> Nat]
  BY SumsTypes, SumsTypesNext, SplitSums DEF SumsTyped
<1>4. Carried = Total(Bills, h) /\ Carried' = Total(Bills, f)
  BY DEF Carried
<1> HIDE DEF f, g, h
<1>5. Total(Bills, h) = Total(Bills, f) + Total(Bills, g)
  BY <1>2, <1>3, TotalPlus, FiniteRows
<1>6. QED
  BY <1>4, <1>5 DEF g

\* And after a restoration.
LEMMA CarriedRestored ==
    ASSUME TypeOK, TypeOK', NEW splits \in [Bills -> Split], Restoration(splits)
    PROVE  Carried' = Carried + Total(Bills, DocumentsOf(splits))
<1>1. ASSUME NEW b \in Bills
      PROVE  CarryingOf(b)' = CarryingOf(b) + DocumentsOf(splits)[b]
  <2>1. /\ Restores(b, splits[b]) /\ splits[b] \in Split
        /\ splits[b].document \in Nat /\ DocumentsOf(splits)[b] = splits[b].document
    BY DEF Restoration, Split, DocumentsOf
  <2>2. /\ bill'[b].status = bill[b].status
        /\ bill'[b].balanceDue = bill[b].balanceDue + splits[b].source
        /\ layer'[b] = NoLayer <=> layer[b] = NoLayer
        /\ layer[b] # NoLayer => layer'[b].carrying = layer[b].carrying + splits[b].document
    BY RestorationTypes
  <2>3. bill[b].balanceDue \in Nat /\ (layer[b] # NoLayer => layer[b].carrying \in Nat)
    <3>1. layer[b] \in Layer /\ bill[b].balanceDue \in Nat
      BY RowTypes
    <3>2. QED
      BY <3>1, LayerTypes
  <2>4. CASE bill[b].status # "FINALIZED"
    <3>1. splits[b] = NoSplit
      BY <2>1, <2>4 DEF Restores, Restorable
    <3>2. splits[b].document = 0
      BY <3>1 DEF NoSplit
    <3>3. QED
      BY <2>1, <2>2, <2>4, <3>2 DEF CarryingOf
  <2>5. CASE bill[b].status = "FINALIZED" /\ layer[b] = NoLayer
    <3>1. splits[b].document = splits[b].source
      <4>1. layer[b].line = None
        BY <2>5 DEF NoLayer
      <4>2. CASE splits[b] = NoSplit
        BY <4>2 DEF NoSplit
      <4>3. CASE splits[b] # NoSplit
        BY <2>1, <4>1, <4>3 DEF Restores, Restorable, Shaped
      <4>4. QED
        BY <4>2, <4>3
    <3>2. CarryingOf(b) = bill[b].balanceDue /\ CarryingOf(b)' = bill'[b].balanceDue
      BY <2>2, <2>5 DEF CarryingOf
    <3>3. QED
      BY <2>1, <2>2, <2>3, <3>1, <3>2
  <2>6. CASE bill[b].status = "FINALIZED" /\ layer[b] # NoLayer
    <3>1. CarryingOf(b) = layer[b].carrying /\ CarryingOf(b)' = layer'[b].carrying
      BY <2>2, <2>6 DEF CarryingOf
    <3>2. QED
      BY <2>1, <2>2, <2>3, <2>6, <3>1
  <2>7. QED
    BY <2>4, <2>5, <2>6
<1> DEFINE f == Carryings
           g == DocumentsOf(splits)
           h == Carryings'
<1>2. \A b \in Bills : h[b] = f[b] + g[b]
  BY <1>1 DEF Carryings
<1>3. f \in [Bills -> Nat] /\ g \in [Bills -> Nat] /\ h \in [Bills -> Nat]
  BY SumsTypes, SumsTypesNext, SplitSums DEF SumsTyped
<1>4. Carried' = Total(Bills, h) /\ Carried = Total(Bills, f)
  BY DEF Carried
<1> HIDE DEF f, g, h
<1>5. Total(Bills, h) = Total(Bills, f) + Total(Bills, g)
  BY <1>2, <1>3, TotalPlus, FiniteRows
<1>6. QED
  BY <1>4, <1>5 DEF g

\* One split alone adds up to its own document amount.
LEMMA OneDocument ==
    ASSUME NEW b \in Bills, NEW split \in Split
    PROVE  Total(Bills, DocumentsOf(OneSplit(b, split))) = split.document
<1> DEFINE splits == OneSplit(b, split)
           f == [c \in Bills |-> 0]
           g == DocumentsOf(splits)
<1>1. splits \in [Bills -> Split]
  BY NoSplitType DEF OneSplit
<1>2. /\ g \in [Bills -> Nat] /\ f \in [Bills -> Nat]
      /\ \A c \in Bills : f[c] = 0
  BY <1>1, SplitSums
<1>3. g[b] = split.document /\ \A c \in Bills \ {b} : f[c] = g[c]
  BY DEF DocumentsOf, OneSplit, NoSplit
<1>4. split.document \in Nat
  BY DEF Split
<1> HIDE DEF f, g
<1>5. Total(Bills, f) = 0
  BY <1>2, TotalZero
<1>6. Total(Bills, g) = Total(Bills, f) - f[b] + g[b]
  BY <1>2, <1>3, TotalUpdate, FiniteRows
<1>7. Total(Bills, g) = split.document
  BY <1>2, <1>3, <1>4, <1>5, <1>6
<1>8. QED
  BY <1>7 DEF g

\* One bill changes its carrying value.
LEMMA CarriedChanged ==
    ASSUME TypeOK, TypeOK', NEW b \in Bills,
           \A c \in Bills \ {b} : CarryingOf(c)' = CarryingOf(c)
    PROVE  Carried' = Carried - CarryingOf(b) + CarryingOf(b)'
<1> DEFINE f == Carryings
           g == Carryings'
<1>1. f \in [Bills -> Nat] /\ g \in [Bills -> Nat]
  BY SumsTypes, SumsTypesNext DEF SumsTyped
<1>2. f[b] = CarryingOf(b) /\ g[b] = CarryingOf(b)' /\ \A c \in Bills \ {b} : f[c] = g[c]
  BY DEF Carryings
<1>3. Carried = Total(Bills, f) /\ Carried' = Total(Bills, g)
  BY DEF Carried
<1> HIDE DEF f, g
<1>4. Total(Bills, g) = Total(Bills, f) - f[b] + g[b]
  BY <1>1, <1>2, TotalUpdate, FiniteRows
<1>5. QED
  BY <1>2, <1>3, <1>4

\* One payment changes what is unapplied of it.
LEMMA UnspentChanged ==
    ASSUME TypeOK, TypeOK', NEW p \in Payments,
           \A q \in Payments \ {p} : payment'[q] = payment[q]
    PROVE  Unspent' = Unspent - Unapplieds[p] + Unapplieds'[p]
<1> DEFINE f == Unapplieds
           g == Unapplieds'
<1>1. f \in [Payments -> Nat] /\ g \in [Payments -> Nat]
  BY SumsTypes, SumsTypesNext DEF SumsTyped
<1>2. \A q \in Payments \ {p} : f[q] = g[q]
  BY DEF Unapplieds
<1>3. Unspent = Total(Payments, f) /\ Unspent' = Total(Payments, g)
  BY DEF Unspent
<1>4. f[p] = Unapplieds[p] /\ g[p] = Unapplieds'[p]
  OBVIOUS
<1> HIDE DEF f, g
<1>5. Total(Payments, g) = Total(Payments, f) - f[p] + g[p]
  BY <1>1, <1>2, TotalUpdate, FiniteRows
<1>6. QED
  BY <1>3, <1>4, <1>5

\* A change of one debit note changes what is undebited by that note's.
LEMMA UndebitedChanged ==
    ASSUME TypeOK, TypeOK', NEW d \in DebitNotes,
           \A c \in DebitNotes \ {d} : debitNote'[c] = debitNote[c]
    PROVE  Undebited' = Undebited - OpenDebits[d] + OpenDebits'[d]
<1> DEFINE f == OpenDebits
           g == OpenDebits'
<1>1. f \in [DebitNotes -> Nat] /\ g \in [DebitNotes -> Nat]
  BY SumsTypes, SumsTypesNext DEF SumsTyped
<1>2. \A c \in DebitNotes \ {d} : f[c] = g[c]
  BY DEF OpenDebits
<1>3. Undebited = Total(DebitNotes, f) /\ Undebited' = Total(DebitNotes, g)
  BY DEF Undebited
<1>4. f[d] = OpenDebits[d] /\ g[d] = OpenDebits'[d]
  OBVIOUS
<1> HIDE DEF f, g
<1>5. Total(DebitNotes, g) = Total(DebitNotes, f) - f[d] + g[d]
  BY <1>1, <1>2, TotalUpdate, FiniteRows
<1>6. QED
  BY <1>3, <1>4, <1>5

\* Bills that are voided, and what is later taken from them, stay the same.
LEMMA VoidedBillsKept ==
    ASSUME \A b \in Bills : bill'[b].status = "VOIDED" <=> bill[b].status = "VOIDED",
           \A b \in Bills : bill[b].status = "VOIDED" =>
             LaterOf(b)' = LaterOf(b) /\ DebitedTo(b)' = DebitedTo(b)
    PROVE  LeftByBills' = LeftByBills
<1>1. ASSUME NEW b \in Bills PROVE OfVoidedBill(b)' = OfVoidedBill(b)
  BY DEF OfVoidedBill
<1>2. VoidedBills' = VoidedBills
  BY <1>1 DEF VoidedBills
<1>3. QED
  BY <1>2 DEF LeftByBills

\* Later allocations keep what they are left with if the payments they name are
\* voided or not as before.
LEMMA LeftByPaymentsKept ==
    ASSUME UNCHANGED allocation, References,
           \A p \in Payments : payment'[p].status = "VOIDED" <=> payment[p].status = "VOIDED"
    PROVE  LeftByPayments' = LeftByPayments
<1>1. \A u \in Allocations : allocation[u].status = "ACTIVE" => allocation[u].payment \in Payments
  BY DEF References
<1>2. LeftBehind' = LeftBehind
  BY <1>1 DEF LeftBehind
<1>3. QED
  BY <1>2 DEF LeftByPayments

\* The sums over debit notes depend on the notes and their allocations alone.
LEMMA LeftByDebitsKept ==
    ASSUME UNCHANGED <<debitNote, debitAllocation>>
    PROVE  LeftByDebits' = LeftByDebits /\ Undebited' = Undebited
<1>1. DebitLeftBehind' = DebitLeftBehind /\ OpenDebits' = OpenDebits
  BY DEF DebitLeftBehind, OpenDebits
<1>2. QED
  BY <1>1 DEF LeftByDebits, Undebited

\* The sums over payments depend on payments and allocations alone.
LEMMA PaymentSumsKept ==
    ASSUME UNCHANGED <<payment, allocation>>
    PROVE  LeftByPayments' = LeftByPayments /\ Unspent' = Unspent
<1>1. LeftBehind' = LeftBehind /\ Unapplieds' = Unapplieds
  BY DEF LeftBehind, Unapplieds
<1>2. QED
  BY <1>1 DEF LeftByPayments, Unspent

\* What is carried depends on bills and layers alone.
LEMMA CarriedKept ==
    ASSUME UNCHANGED <<bill, layer>>
    PROVE  Carried' = Carried
<1>1. Carryings' = Carryings
  BY DEF Carryings, CarryingOf
<1>2. QED
  BY <1>1 DEF Carried

-----------------------------------------------------------------------------

\* Finalizing a bill keeps the control account.
LEMMA AccountFinalized ==
    ASSUME TypeInv, TypeInv', CarryLaws, AccountLaw, NEW b \in Bills, NEW row \in Bill,
           BillFinalized(b, row)
    PROVE  AccountLaw'
<1>1. /\ bill[b].status = "NONE" /\ row.status = "FINALIZED" /\ row.balanceDue = row.total
      /\ bill' = [bill EXCEPT ![b] = row] /\ payable' = payable + row.total
      /\ UNCHANGED <<payment, allocation, debitNote, debitAllocation, layer, run>>
  BY DEF BillFinalized
<1>2. /\ TypeOK /\ TypeOK' /\ bill \in [Bills -> Bill] /\ payable \in Int /\ row.total \in Nat
  BY DEF TypeInv, TypeOK, Bill
<1>3. layer[b] = NoLayer
  BY <1>1 DEF CarryLaws, CarryLaw, LayerLaw, LayerStands
<1>4. bill'[b] = row /\ layer' = layer /\ \A c \in Bills \ {b} : bill'[c] = bill[c]
  BY <1>1, <1>2
<1>5. CarryingOf(b) = 0 /\ CarryingOf(b)' = row.total
  BY <1>1, <1>3, <1>4 DEF CarryingOf
<1>6. \A c \in Bills \ {b} : CarryingOf(c)' = CarryingOf(c)
  BY <1>4 DEF CarryingOf
<1>7. Carried' = Carried - CarryingOf(b) + CarryingOf(b)'
  BY <1>2, <1>6, CarriedChanged
<1>8. LeftByBills' = LeftByBills
  <2>1. \A c \in Bills : bill'[c].status = "VOIDED" <=> bill[c].status = "VOIDED"
    BY <1>1, <1>4
  <2>2. \A c \in Bills : LaterOf(c)' = LaterOf(c) /\ DebitedTo(c)' = DebitedTo(c)
    BY <1>1 DEF LaterOf, DebitedTo
  <2>3. QED
    BY <2>1, <2>2, VoidedBillsKept
<1>9. /\ LeftByPayments' = LeftByPayments /\ Unspent' = Unspent
      /\ LeftByDebits' = LeftByDebits /\ Undebited' = Undebited
  BY <1>1, LeftByDebitsKept, PaymentSumsKept
<1>10. SumsTyped
  BY <1>2, SumsTypes
<1>11. QED
  BY <1>1, <1>2, <1>5, <1>7, <1>8, <1>9, <1>10 DEF AccountLaw, SumsTyped

\* A voided bill had nothing but later allocations and debit notes that its
\* void looked past in force against it.
LEMMA NothingDirect ==
    ASSUME TypeInv, NEW b \in Bills, ~HasActiveApplications(b)
    PROVE  Total(Payments, [p \in Payments |-> DirectOf(b)[p].source]) = 0
<1> DEFINE f == [p \in Payments |-> DirectOf(b)[p].source]
<1>1. \A p \in Payments : DirectOf(b)[p] = NoSplit
  <2> TAKE p \in Payments
  <2>1. CASE payment[p].status = "POSTED"
    <3>1. ~(payment[p].splits[b].transaction > 0)
      BY <2>1 DEF HasActiveApplications
    <3>2. Shaped(payment[p].splits[b])
      BY DEF TypeInv, References
    <3>3. QED
      BY <2>1, <3>1, <3>2 DEF Shaped, DirectOf
  <2>2. CASE payment[p].status # "POSTED"
    BY <2>2 DEF DirectOf
  <2>3. QED
    BY <2>1, <2>2
<1>2. \A p \in Payments : f[p] = 0
  BY <1>1 DEF NoSplit
<1>3. f \in [Payments -> Nat]
  BY <1>2
<1> HIDE DEF f
<1>4. Total(Payments, f) = 0
  BY <1>2, <1>3, TotalZero
<1>5. QED
  BY <1>4 DEF f

\* Voiding a bill keeps the control account.
LEMMA AccountBillVoided ==
    ASSUME TypeInv, TypeInv', BillLaws, AccountLaw, NEW b \in Bills, NEW row \in Bill,
           BillVoided(b, row)
    PROVE  AccountLaw'
<1>1. /\ bill[b].status = "FINALIZED" /\ layer[b] = NoLayer /\ row.status = "VOIDED"
      /\ ~HasActiveApplications(b)
      /\ bill' = [bill EXCEPT ![b] = row] /\ payable' = payable - bill[b].total
      /\ UNCHANGED <<payment, allocation, debitNote, debitAllocation, layer, run>>
  BY DEF BillVoided, MutationAllowed
<1>2. /\ TypeOK /\ TypeOK' /\ bill \in [Bills -> Bill] /\ payable \in Int
      /\ bill[b].total \in Nat /\ bill[b].balanceDue \in Nat
  BY RowTypes DEF TypeInv, TypeOK
<1>3. bill'[b] = row /\ layer' = layer /\ \A c \in Bills \ {b} : bill'[c] = bill[c]
  BY <1>1, <1>2
<1>4. CarryingOf(b) = bill[b].balanceDue /\ CarryingOf(b)' = 0
  BY <1>1, <1>3 DEF CarryingOf
<1>5. \A c \in Bills \ {b} : CarryingOf(c)' = CarryingOf(c)
  BY <1>3 DEF CarryingOf
<1>6. Carried' = Carried - CarryingOf(b) + CarryingOf(b)'
  BY <1>2, <1>5, CarriedChanged
<1> DEFINE later == Total(Allocations, [u \in Allocations |-> LaterOf(b)[u].source])
           debited == Total(DebitAllocations, DebitedTo(b))
<1>7. bill[b].total = bill[b].balanceDue + later + debited
  <2>1. bill[b].total = bill[b].balanceDue + Taken(Sources, b) + Debited(b)
    BY <1>1 DEF BillLaws, BillLaw
  <2>2. Taken(Sources, b) = Total(Payments, [p \in Payments |-> DirectOf(b)[p].source]) + later
    BY <1>2, TakenFields
  <2>3. Total(Payments, [p \in Payments |-> DirectOf(b)[p].source]) = 0
    BY <1>1, NothingDirect
  <2>4. later \in Nat
    BY <1>2, TakenFields
  <2>5. Debited(b) = debited
    BY DEF Debited
  <2> HIDE DEF later, debited
  <2>6. Taken(Sources, b) = later
    BY <2>2, <2>3, <2>4
  <2>7. QED
    BY <2>1, <2>5, <2>6
<1>8. later \in Nat /\ debited \in Nat
  BY <1>2, TakenFields, DebitedTypes DEF Debited
<1>9. OfVoidedBill(b) = 0 /\ OfVoidedBill(b)' = later + debited
  <2>1. LaterOf(b)' = LaterOf(b) /\ DebitedTo(b)' = DebitedTo(b)
    BY <1>1 DEF LaterOf, DebitedTo
  <2>2. QED
    BY <1>1, <1>3, <2>1 DEF OfVoidedBill
<1> HIDE DEF later, debited
<1>10. LeftByBills' = LeftByBills + later + debited
  <2> DEFINE f == VoidedBills
             g == VoidedBills'
  <2>1. f \in [Bills -> Nat] /\ g \in [Bills -> Nat] /\ LeftByBills \in Nat
    BY <1>2, SumsTypes, SumsTypesNext DEF SumsTyped
  <2>2. \A c \in Bills \ {b} : f[c] = g[c]
    <3> TAKE c \in Bills \ {b}
    <3>1. LaterOf(c)' = LaterOf(c) /\ DebitedTo(c)' = DebitedTo(c) /\ bill'[c] = bill[c]
      BY <1>1, <1>3 DEF LaterOf, DebitedTo
    <3>2. OfVoidedBill(c)' = OfVoidedBill(c)
      BY <3>1 DEF OfVoidedBill
    <3>3. QED
      BY <3>2 DEF VoidedBills
  <2>3. f[b] = 0 /\ g[b] = later + debited
    BY <1>9 DEF VoidedBills
  <2>4. LeftByBills = Total(Bills, f) /\ LeftByBills' = Total(Bills, g)
    BY DEF LeftByBills
  <2> HIDE DEF f, g
  <2>5. Total(Bills, g) = Total(Bills, f) - f[b] + g[b]
    BY <2>1, <2>2, TotalUpdate, FiniteRows
  <2>6. QED
    BY <1>8, <2>1, <2>3, <2>4, <2>5
<1>11. /\ LeftByPayments' = LeftByPayments /\ Unspent' = Unspent
       /\ LeftByDebits' = LeftByDebits /\ Undebited' = Undebited
  BY <1>1, LeftByDebitsKept, PaymentSumsKept
<1>12. SumsTyped
  BY <1>2, SumsTypes
<1>13. payable' = payable - bill[b].balanceDue - later - debited
  BY <1>1, <1>2, <1>7, <1>8
<1>14. Carried' = Carried - bill[b].balanceDue
  BY <1>2, <1>4, <1>6, <1>12 DEF SumsTyped
<1>15. QED
  BY <1>2, <1>8, <1>10, <1>11, <1>12, <1>13, <1>14 DEF AccountLaw, SumsTyped

-----------------------------------------------------------------------------

\* Creating a payment keeps the control account.
LEMMA AccountCreated ==
    ASSUME TypeInv, TypeInv', AccountLaw, NEW p \in Payments, NEW row \in Payment,
           PaymentCreated(p, row)
    PROVE  AccountLaw'
<1>1. /\ payment[p].status = "NONE" /\ row.status = "POSTED"
      /\ row.posted = row.unappliedAmount + Total(Bills, DocumentsOf(row.splits))
      /\ payment' = [payment EXCEPT ![p] = row] /\ payable' = payable - row.posted
      /\ Settlement(row.splits)
      /\ UNCHANGED <<allocation, debitNote, debitAllocation, run>>
  BY DEF PaymentCreated
<1>2. /\ TypeOK /\ TypeOK' /\ References /\ payment \in [Payments -> Payment]
      /\ payable \in Int /\ row.unappliedAmount \in Nat /\ row.splits \in [Bills -> Split]
  BY DEF TypeInv, TypeOK, Payment
<1> DEFINE paid == Total(Bills, DocumentsOf(row.splits))
<1>3. paid \in Nat /\ Carried = Carried' + paid
  BY <1>1, <1>2, CarriedSettled, SplitSums
<1>4. payment'[p] = row /\ \A q \in Payments \ {p} : payment'[q] = payment[q]
  BY <1>1, <1>2
<1>5. Unapplieds[p] = 0 /\ Unapplieds'[p] = row.unappliedAmount
  BY <1>1, <1>4 DEF Unapplieds
<1>6. Unspent' = Unspent - Unapplieds[p] + Unapplieds'[p]
  BY <1>2, <1>4, UnspentChanged
<1>7. LeftByPayments' = LeftByPayments
  <2>1. \A q \in Payments : payment'[q].status = "VOIDED" <=> payment[q].status = "VOIDED"
    BY <1>1, <1>4
  <2>2. QED
    BY <1>1, <1>2, <2>1, LeftByPaymentsKept
<1>8. LeftByDebits' = LeftByDebits /\ Undebited' = Undebited
  BY <1>1, LeftByDebitsKept
<1>9. LeftByBills' = LeftByBills
  <2>1. \A c \in Bills : bill'[c].status = bill[c].status
    BY <1>1, <1>2, SettlementTypes
  <2>2. \A c \in Bills : LaterOf(c)' = LaterOf(c) /\ DebitedTo(c)' = DebitedTo(c)
    BY <1>1 DEF LaterOf, DebitedTo
  <2>3. QED
    BY <2>1, <2>2, VoidedBillsKept
<1>10. SumsTyped /\ SumsTyped'
  BY <1>2, SumsTypes, SumsTypesNext
<1>11. row.posted = row.unappliedAmount + paid
  BY <1>1
<1> HIDE DEF paid
<1>12. QED
  BY <1>1, <1>2, <1>3, <1>5, <1>6, <1>7, <1>8, <1>9, <1>10, <1>11 DEF AccountLaw, SumsTyped

\* Voiding a payment keeps the control account.
LEMMA AccountPaymentVoided ==
    ASSUME TypeInv, TypeInv', PaymentLaws, AccountLaw, NEW p \in Payments, NEW row \in Payment,
           PaymentVoided(p, row)
    PROVE  AccountLaw'
<1>1. /\ payment[p].status = "POSTED" /\ row = [payment[p] EXCEPT !.status = "VOIDED"]
      /\ payment' = [payment EXCEPT ![p] = row] /\ payable' = payable + payment[p].posted
      /\ Restoration(payment[p].splits)
      /\ UNCHANGED <<allocation, debitNote, debitAllocation, run>>
  BY DEF PaymentVoided
<1>2. /\ TypeOK /\ TypeOK' /\ References /\ payment \in [Payments -> Payment]
      /\ payable \in Int /\ payment[p].unappliedAmount \in Nat
      /\ payment[p].splits \in [Bills -> Split]
  BY RowTypes DEF TypeInv, TypeOK
<1> DEFINE paid == Total(Bills, DocumentsOf(payment[p].splits))
           later == LaterTaken(Settlements, TakenFrom(p))
<1>3. paid \in Nat /\ Carried' = Carried + paid
  BY <1>1, <1>2, CarriedRestored, SplitSums
<1>4. row.status = "VOIDED"
  BY <1>1, <1>2 DEF Payment
<1>5. payment'[p] = row /\ \A q \in Payments \ {p} : payment'[q] = payment[q]
  BY <1>1, <1>2
<1>6. Unapplieds[p] = payment[p].unappliedAmount /\ Unapplieds'[p] = 0
  BY <1>1, <1>4, <1>5 DEF Unapplieds
<1>7. Unspent' = Unspent - Unapplieds[p] + Unapplieds'[p]
  BY <1>2, <1>5, UnspentChanged
<1>8. later \in Nat /\ payment[p].posted = payment[p].unappliedAmount + paid + later
  <2>1. TakenFrom(p) \in Laters /\ Settlements \in Measure
    BY <1>2, TakenFromTypes, SettlementsMeasure DEF TakenFromTyped
  <2>2. later \in Nat
    BY <2>1, LaterTypes
  <2>3. QED
    BY <1>1, <2>2 DEF PaymentLaws, PaymentLaw
<1>9. LeftByPayments' = LeftByPayments + later
  <2> DEFINE f == LeftBehind
             g == [u \in Allocations |-> Settlements[TakenFrom(p)[u]]]
             h == LeftBehind'
  <2>1. f \in [Allocations -> Nat] /\ h \in [Allocations -> Nat]
    BY <1>2, SumsTypes, SumsTypesNext DEF SumsTyped
  <2>2. TakenFrom(p) \in Laters /\ Settlements \in Measure
    BY <1>2, TakenFromTypes, SettlementsMeasure DEF TakenFromTyped
  <2>3. g \in [Allocations -> Nat]
    BY <2>2 DEF Laters, Measure
  <2>4. \A u \in Allocations : h[u] = f[u] + g[u]
    <3> TAKE u \in Allocations
    <3>1. /\ Settlements[allocation[u].split] = allocation[u].split.settlement
          /\ Settlements[NoSplit] = 0 /\ allocation[u].split.settlement \in Nat
      BY <1>2, <2>2, RowTypes, SettlementsMeasure DEF Measure, Split
    <3>2. allocation'[u] = allocation[u]
      BY <1>1
    <3>3. CASE allocation[u].status # "ACTIVE"
      BY <3>1, <3>2, <3>3 DEF LeftBehind, TakenFrom
    <3>4. CASE allocation[u].status = "ACTIVE" /\ allocation[u].payment = p
      <4>1. f[u] = 0 /\ h[u] = allocation[u].split.settlement
        BY <1>1, <1>4, <1>5, <3>2, <3>4 DEF LeftBehind
      <4>2. g[u] = allocation[u].split.settlement
        BY <3>1, <3>4 DEF TakenFrom
      <4>3. QED
        BY <3>1, <4>1, <4>2
    <3>5. CASE allocation[u].status = "ACTIVE" /\ allocation[u].payment # p
      <4>1. allocation[u].payment \in Payments \ {p}
        BY <1>2, <3>5 DEF References
      <4>2. h[u] = f[u] /\ f[u] \in Nat
        BY <1>5, <2>1, <3>2, <4>1 DEF LeftBehind
      <4>3. g[u] = 0
        BY <3>1, <3>5 DEF TakenFrom
      <4>4. QED
        BY <4>2, <4>3
    <3>6. QED
      BY <3>3, <3>4, <3>5
  <2>5. later = Total(Allocations, g)
    BY DEF LaterTaken
  <2>6. LeftByPayments = Total(Allocations, f) /\ LeftByPayments' = Total(Allocations, h)
    BY DEF LeftByPayments
  <2> HIDE DEF f, g, h, later
  <2>7. Total(Allocations, h) = Total(Allocations, f) + Total(Allocations, g)
    BY <2>1, <2>3, <2>4, TotalPlus, FiniteRows
  <2>8. QED
    BY <2>5, <2>6, <2>7
<1>10. LeftByDebits' = LeftByDebits /\ Undebited' = Undebited
  BY <1>1, LeftByDebitsKept
<1>11. LeftByBills' = LeftByBills
  <2>1. \A c \in Bills : bill'[c].status = bill[c].status
    BY <1>1, <1>2, RestorationTypes
  <2>2. \A c \in Bills : LaterOf(c)' = LaterOf(c) /\ DebitedTo(c)' = DebitedTo(c)
    BY <1>1 DEF LaterOf, DebitedTo
  <2>3. QED
    BY <2>1, <2>2, VoidedBillsKept
<1>12. SumsTyped
  BY <1>2, SumsTypes
<1>13. payable' = payable + payment[p].posted
  BY <1>1
<1> HIDE DEF paid, later
<1>14. QED
  BY <1>2, <1>3, <1>6, <1>7, <1>8, <1>9, <1>10, <1>11, <1>12, <1>13 DEF AccountLaw, SumsTyped

\* What is left behind when the row of one later allocation changes under a
\* payment that is posted before and after.
LEMMA LeftByPaymentsMoved ==
    ASSUME References, NEW u \in Allocations, NEW p \in Payments,
           allocation[u].status # "NONE" => allocation[u].payment = p,
           allocation'[u].status # "NONE" => allocation'[u].payment = p,
           payment[p].status = "POSTED", payment'[p].status = "POSTED",
           \A v \in Allocations \ {u} : allocation'[v] = allocation[v],
           \A q \in Payments \ {p} : payment'[q] = payment[q]
    PROVE  LeftByPayments' = LeftByPayments
<1>1. ASSUME NEW v \in Allocations PROVE LeftBehind'[v] = LeftBehind[v]
  <2>1. CASE v = u
    BY <2>1 DEF LeftBehind
  <2>2. CASE v # u /\ allocation[v].status = "ACTIVE"
    <3>1. allocation'[v] = allocation[v] /\ allocation[v].payment \in Payments
      BY <2>2 DEF References
    <3>2. payment'[allocation[v].payment].status = payment[allocation[v].payment].status
      BY <3>1
    <3>3. QED
      BY <3>1, <3>2 DEF LeftBehind
  <2>3. CASE v # u /\ allocation[v].status # "ACTIVE"
    BY <2>3 DEF LeftBehind
  <2>4. QED
    BY <2>1, <2>2, <2>3
<1>2. LeftBehind' = LeftBehind
  <2>1. LeftBehind' = [v \in Allocations |-> LeftBehind'[v]]
    BY DEF LeftBehind
  <2>2. LeftBehind = [v \in Allocations |-> LeftBehind[v]]
    BY DEF LeftBehind
  <2>3. QED
    BY <1>1, <2>1, <2>2
<1>3. QED
  BY <1>2 DEF LeftByPayments

\* A later allocation keeps the control account.
LEMMA AccountApplied ==
    ASSUME TypeInv, TypeInv', AccountLaw, NEW u \in Allocations, NEW row \in Allocation,
           NEW p \in Payments, NEW paid \in Payment, AllocationApplied(u, row, p, paid)
    PROVE  AccountLaw'
<1>1. /\ allocation[u].status = "NONE" /\ row.status = "ACTIVE" /\ row.payment = p
      /\ row.bill \in Bills /\ row.split # NoSplit
      /\ payment[p].status = "POSTED" /\ payment[p].unappliedAmount >= row.split.settlement
      /\ paid = Unapplied(payment[p], payment[p].unappliedAmount - row.split.settlement,
                          payment[p].transactionUnappliedAmount - row.split.transaction)
      /\ payment' = [payment EXCEPT ![p] = paid]
      /\ allocation' = [allocation EXCEPT ![u] = row]
      /\ Settlement(OneSplit(row.bill, row.split))
      /\ payable' = payable + row.split.settlement - row.split.document
      /\ UNCHANGED <<debitNote, debitAllocation, run>>
  BY DEF AllocationApplied, PaymentClaim
<1>2. /\ TypeOK /\ TypeOK' /\ References /\ payment \in [Payments -> Payment]
      /\ allocation \in [Allocations -> Allocation] /\ payable \in Int
      /\ payment[p].unappliedAmount \in Nat /\ payment[p].transactionUnappliedAmount \in Nat
  BY RowTypes DEF TypeInv, TypeOK
<1>3. row.split \in Split
  BY DEF Allocation
<1>4. row.split.settlement \in Nat /\ row.split.document \in Nat /\ row.split.transaction \in Nat
  BY <1>3 DEF Split
<1>5. Carried = Carried' + row.split.document
  <2>1. Total(Bills, DocumentsOf(OneSplit(row.bill, row.split))) = row.split.document
    BY <1>1, <1>3, OneDocument
  <2>2. OneSplit(row.bill, row.split) \in [Bills -> Split]
    BY <1>1 DEF Settlement
  <2>3. QED
    BY <1>1, <1>2, <2>1, <2>2, CarriedSettled
<1>6. payment'[p] = paid /\ \A q \in Payments \ {p} : payment'[q] = payment[q]
  BY <1>1, <1>2
<1>7. paid.status = "POSTED"
        /\ paid.unappliedAmount = payment[p].unappliedAmount - row.split.settlement
  <2> DEFINE due == payment[p].unappliedAmount - row.split.settlement
             transactionDue == payment[p].transactionUnappliedAmount - row.split.transaction
  <2>1. payment[p] \in Payment /\ due \in Int /\ transactionDue \in Int
    BY <1>2, <1>4
  <2>2. paid = Unapplied(payment[p], due, transactionDue)
    BY <1>1
  <2> HIDE DEF due, transactionDue
  <2>3. paid.status = payment[p].status /\ paid.unappliedAmount = due
    BY <2>1, <2>2 DEF Unapplied, Payment
  <2>4. QED
    BY <1>1, <2>3 DEF due
<1>8. /\ Unapplieds[p] = payment[p].unappliedAmount
      /\ Unapplieds'[p] = payment[p].unappliedAmount - row.split.settlement
  BY <1>1, <1>6, <1>7 DEF Unapplieds
<1>9. Unspent' = Unspent - Unapplieds[p] + Unapplieds'[p]
  BY <1>2, <1>6, UnspentChanged
<1>10. LeftByPayments' = LeftByPayments
  <2>1. allocation'[u] = row /\ \A v \in Allocations \ {u} : allocation'[v] = allocation[v]
    BY <1>1, <1>2
  <2>2. allocation[u].status # "NONE" => allocation[u].payment = p
    BY <1>1
  <2>3. allocation'[u].status # "NONE" => allocation'[u].payment = p
    BY <1>1, <2>1
  <2>4. payment'[p].status = "POSTED"
    BY <1>6, <1>7
  <2>5. QED
    BY <1>1, <1>2, <1>6, <2>1, <2>2, <2>3, <2>4, LeftByPaymentsMoved
<1>11. LeftByDebits' = LeftByDebits /\ Undebited' = Undebited
  BY <1>1, LeftByDebitsKept
<1>12. LeftByBills' = LeftByBills
  <2>1. \A c \in Bills : bill'[c].status = bill[c].status
    BY <1>1, <1>2, SettlementTypes
  <2>2. bill[row.bill].status = "FINALIZED"
    <3>1. Claims(row.bill, OneSplit(row.bill, row.split)[row.bill])
      BY <1>1 DEF Settlement
    <3>2. OneSplit(row.bill, row.split)[row.bill] = row.split
      BY <1>1 DEF OneSplit
    <3>3. QED
      BY <1>1, <3>1, <3>2 DEF Claims, Claimable
  <2>3. ASSUME NEW c \in Bills, bill[c].status = "VOIDED"
        PROVE  LaterOf(c)' = LaterOf(c) /\ DebitedTo(c)' = DebitedTo(c)
    <3>1. c # row.bill
      BY <2>2, <2>3
    <3>2. allocation'[u] = row /\ \A v \in Allocations \ {u} : allocation'[v] = allocation[v]
      BY <1>1, <1>2
    <3>3. LaterOf(c)' = LaterOf(c)
      BY <1>1, <3>1, <3>2 DEF LaterOf
    <3>4. QED
      BY <1>1, <3>3 DEF DebitedTo
  <2>4. QED
    BY <2>1, <2>3, VoidedBillsKept
<1>13. SumsTyped /\ SumsTyped'
  BY <1>2, SumsTypes, SumsTypesNext
<1>14. payable' = payable + row.split.settlement - row.split.document
  BY <1>1
<1>15. QED
  BY <1>2, <1>4, <1>5, <1>8, <1>9, <1>10, <1>11, <1>12, <1>13, <1>14 DEF AccountLaw, SumsTyped

\* Its reversal keeps the control account.
LEMMA AccountReversed ==
    ASSUME TypeInv, TypeInv', AccountLaw, NEW u \in Allocations, NEW row \in Allocation,
           NEW p \in Payments, NEW paid \in Payment, AllocationReversed(u, row, p, paid)
    PROVE  AccountLaw'
<1>1. /\ allocation[u].status = "ACTIVE" /\ allocation[u].payment = p
      /\ payment[p].status = "POSTED"
      /\ row = [allocation[u] EXCEPT !.status = "REVERSED"]
      /\ paid = Unapplied(payment[p], payment[p].unappliedAmount + row.split.settlement,
                          payment[p].transactionUnappliedAmount + row.split.transaction)
      /\ payment' = [payment EXCEPT ![p] = paid]
      /\ allocation' = [allocation EXCEPT ![u] = row]
      /\ Restoration(OneSplit(row.bill, row.split))
      /\ payable' = payable - (row.split.settlement - row.split.document)
      /\ UNCHANGED <<debitNote, debitAllocation, run>>
  BY DEF AllocationReversed
<1>2. /\ TypeOK /\ TypeOK' /\ References /\ payment \in [Payments -> Payment]
      /\ allocation \in [Allocations -> Allocation] /\ payable \in Int
      /\ payment[p].unappliedAmount \in Nat /\ payment[p].transactionUnappliedAmount \in Nat
  BY RowTypes DEF TypeInv, TypeOK
<1>3. /\ row.split \in Split /\ row.status = "REVERSED" /\ row.payment = p
      /\ row.bill = allocation[u].bill /\ row.split = allocation[u].split
  BY <1>1, <1>2 DEF Allocation
<1>4. row.split.settlement \in Nat /\ row.split.document \in Nat /\ row.split.transaction \in Nat
  BY <1>3 DEF Split
<1>5. row.bill \in Bills /\ row.split # NoSplit
  BY <1>1, <1>2, <1>3 DEF References
<1>6. Carried' = Carried + row.split.document
  <2>1. Total(Bills, DocumentsOf(OneSplit(row.bill, row.split))) = row.split.document
    BY <1>3, <1>5, OneDocument
  <2>2. OneSplit(row.bill, row.split) \in [Bills -> Split]
    BY <1>1 DEF Restoration
  <2>3. QED
    BY <1>1, <1>2, <2>1, <2>2, CarriedRestored
<1>7. payment'[p] = paid /\ \A q \in Payments \ {p} : payment'[q] = payment[q]
  BY <1>1, <1>2
<1>8. paid.status = "POSTED"
        /\ paid.unappliedAmount = payment[p].unappliedAmount + row.split.settlement
  <2> DEFINE due == payment[p].unappliedAmount + row.split.settlement
             transactionDue == payment[p].transactionUnappliedAmount + row.split.transaction
  <2>1. payment[p] \in Payment /\ due \in Int /\ transactionDue \in Int
    BY <1>2, <1>4
  <2>2. paid = Unapplied(payment[p], due, transactionDue)
    BY <1>1
  <2> HIDE DEF due, transactionDue
  <2>3. paid.status = payment[p].status /\ paid.unappliedAmount = due
    BY <2>1, <2>2 DEF Unapplied, Payment
  <2>4. QED
    BY <1>1, <2>3 DEF due
<1>9. /\ Unapplieds[p] = payment[p].unappliedAmount
      /\ Unapplieds'[p] = payment[p].unappliedAmount + row.split.settlement
  BY <1>1, <1>7, <1>8 DEF Unapplieds
<1>10. Unspent' = Unspent - Unapplieds[p] + Unapplieds'[p]
  BY <1>2, <1>7, UnspentChanged
<1>11. allocation'[u] = row /\ \A v \in Allocations \ {u} : allocation'[v] = allocation[v]
  BY <1>1, <1>2
<1>12. LeftByPayments' = LeftByPayments
  <2>1. allocation'[u].status # "NONE" => allocation'[u].payment = p
    BY <1>3, <1>11
  <2>2. payment'[p].status = "POSTED"
    BY <1>7, <1>8
  <2>3. allocation[u].status # "NONE" => allocation[u].payment = p
    BY <1>1
  <2>4. QED
    BY <1>1, <1>2, <1>7, <1>11, <2>1, <2>2, <2>3, LeftByPaymentsMoved
<1>13. LeftByDebits' = LeftByDebits /\ Undebited' = Undebited
  BY <1>1, LeftByDebitsKept
<1>14. LeftByBills' = LeftByBills
  <2>1. \A c \in Bills : bill'[c].status = bill[c].status
    BY <1>1, <1>2, RestorationTypes
  <2>2. bill[row.bill].status = "FINALIZED"
    <3>1. Restores(row.bill, OneSplit(row.bill, row.split)[row.bill])
      BY <1>1, <1>5 DEF Restoration
    <3>2. OneSplit(row.bill, row.split)[row.bill] = row.split
      BY <1>5 DEF OneSplit
    <3>3. QED
      BY <1>5, <3>1, <3>2 DEF Restores, Restorable
  <2>3. ASSUME NEW c \in Bills, bill[c].status = "VOIDED"
        PROVE  LaterOf(c)' = LaterOf(c) /\ DebitedTo(c)' = DebitedTo(c)
    <3>1. c # row.bill
      BY <2>2, <2>3
    <3>2. LaterOf(c)' = LaterOf(c)
      BY <1>3, <1>11, <3>1 DEF LaterOf
    <3>3. QED
      BY <1>1, <3>2 DEF DebitedTo
  <2>4. QED
    BY <2>1, <2>3, VoidedBillsKept
<1>15. SumsTyped /\ SumsTyped'
  BY <1>2, SumsTypes, SumsTypesNext
<1>16. payable' = payable - (row.split.settlement - row.split.document)
  BY <1>1
<1>17. QED
  BY <1>2, <1>4, <1>6, <1>9, <1>10, <1>12, <1>13, <1>14, <1>15, <1>16 DEF AccountLaw, SumsTyped

-----------------------------------------------------------------------------

\* Finalizing a debit note keeps the control account.
LEMMA AccountDebitFinalized ==
    ASSUME TypeInv, TypeInv', AccountLaw, NEW d \in DebitNotes, NEW total \in DebitTotals,
           FinalizeDebitNote(d, total)
    PROVE  AccountLaw'
<1>1. /\ debitNote[d].status = "NONE" /\ total \in Nat /\ payable' = payable - total
      /\ debitNote' = [debitNote EXCEPT ![d] =
           [status |-> "FINALIZED", total |-> total, unappliedAmount |-> total]]
      /\ UNCHANGED <<bill, payment, allocation, debitAllocation, layer, run>>
  BY Positive DEF FinalizeDebitNote
<1>2. /\ TypeOK /\ TypeOK' /\ References /\ debitNote \in [DebitNotes -> DebitNote]
      /\ payable \in Int
  BY DEF TypeInv, TypeOK
<1>3. /\ debitNote'[d].status = "FINALIZED" /\ debitNote'[d].unappliedAmount = total
      /\ \A c \in DebitNotes \ {d} : debitNote'[c] = debitNote[c]
  BY <1>1, <1>2
<1>4. OpenDebits[d] = 0 /\ OpenDebits'[d] = total
  BY <1>1, <1>3 DEF OpenDebits
<1>5. Undebited' = Undebited - OpenDebits[d] + OpenDebits'[d]
  BY <1>2, <1>3, UndebitedChanged
<1>6. LeftByDebits' = LeftByDebits
  <2>1. \A k \in DebitAllocations : debitAllocation[k].status = "ACTIVE" =>
          debitAllocation[k].debitNote \in DebitNotes
    BY <1>2 DEF References
  <2>2. \A c \in DebitNotes : debitNote'[c].status = "VOIDED" <=> debitNote[c].status = "VOIDED"
    BY <1>1, <1>3
  <2>3. DebitLeftBehind' = DebitLeftBehind
    BY <1>1, <2>1, <2>2 DEF DebitLeftBehind
  <2>4. QED
    BY <2>3 DEF LeftByDebits
<1>7. LeftByPayments' = LeftByPayments /\ Unspent' = Unspent /\ Carried' = Carried
  BY <1>1, PaymentSumsKept, CarriedKept
<1>8. LeftByBills' = LeftByBills
  <2>1. \A c \in Bills : LaterOf(c)' = LaterOf(c) /\ DebitedTo(c)' = DebitedTo(c)
    BY <1>1 DEF LaterOf, DebitedTo
  <2>2. QED
    BY <1>1, <2>1, VoidedBillsKept
<1>9. SumsTyped
  BY <1>2, SumsTypes
<1>10. QED
  BY <1>1, <1>2, <1>4, <1>5, <1>6, <1>7, <1>8, <1>9 DEF AccountLaw, SumsTyped

\* Voiding a debit note keeps the control account.
LEMMA AccountDebitVoided ==
    ASSUME TypeInv, TypeInv', DebitLaws, AccountLaw, NEW d \in DebitNotes, DebitNoteVoided(d)
    PROVE  AccountLaw'
<1>1. /\ debitNote[d].status = "FINALIZED" /\ payable' = payable + debitNote[d].total
      /\ debitNote' = [debitNote EXCEPT ![d].status = "VOIDED"]
      /\ UNCHANGED <<bill, payment, allocation, debitAllocation, layer, run>>
  BY DEF DebitNoteVoided
<1>2. /\ TypeOK /\ TypeOK' /\ References /\ debitNote \in [DebitNotes -> DebitNote]
      /\ payable \in Int /\ debitNote[d].unappliedAmount \in Nat
  BY RowTypes DEF TypeInv, TypeOK
<1>3. /\ debitNote'[d].status = "VOIDED"
      /\ \A c \in DebitNotes \ {d} : debitNote'[c] = debitNote[c]
  BY <1>1, <1>2 DEF DebitNote
<1>4. OpenDebits[d] = debitNote[d].unappliedAmount /\ OpenDebits'[d] = 0
  BY <1>1, <1>3 DEF OpenDebits
<1>5. Undebited' = Undebited - OpenDebits[d] + OpenDebits'[d]
  BY <1>2, <1>3, UndebitedChanged
<1> DEFINE debits == Total(DebitAllocations, DebitsOf(d))
<1>6. debits \in Nat /\ debitNote[d].total = debitNote[d].unappliedAmount + debits
  BY <1>1, <1>2, DebitsTypes DEF DebitLaws, DebitLaw, DebitsTyped
<1>7. LeftByDebits' = LeftByDebits + debits
  <2> DEFINE f == DebitLeftBehind
             g == DebitsOf(d)
             h == DebitLeftBehind'
  <2>1. f \in [DebitAllocations -> Nat] /\ g \in [DebitAllocations -> Nat]
          /\ h \in [DebitAllocations -> Nat]
    BY <1>2, SumsTypes, SumsTypesNext, DebitsTypes DEF SumsTyped, DebitsTyped
  <2>2. \A k \in DebitAllocations : h[k] = f[k] + g[k]
    <3> TAKE k \in DebitAllocations
    <3>1. debitAllocation'[k] = debitAllocation[k] /\ debitAllocation[k].amount \in Nat
      BY <1>1, <1>2, RowTypes
    <3>2. CASE debitAllocation[k].status # "ACTIVE"
      BY <3>1, <3>2 DEF DebitLeftBehind, DebitsOf
    <3>3. CASE debitAllocation[k].status = "ACTIVE" /\ debitAllocation[k].debitNote = d
      <4>1. f[k] = 0 /\ h[k] = debitAllocation[k].amount
        BY <1>1, <1>3, <3>1, <3>3 DEF DebitLeftBehind
      <4>2. g[k] = debitAllocation[k].amount
        BY <3>3 DEF DebitsOf
      <4>3. QED
        BY <3>1, <4>1, <4>2
    <3>4. CASE debitAllocation[k].status = "ACTIVE" /\ debitAllocation[k].debitNote # d
      <4>1. debitAllocation[k].debitNote \in DebitNotes \ {d}
        BY <1>2, <3>4 DEF References
      <4>2. h[k] = f[k] /\ f[k] \in Nat
        BY <1>3, <2>1, <3>1, <4>1 DEF DebitLeftBehind
      <4>3. g[k] = 0
        BY <3>4 DEF DebitsOf
      <4>4. QED
        BY <4>2, <4>3
    <3>5. QED
      BY <3>2, <3>3, <3>4
  <2>3. debits = Total(DebitAllocations, g)
    OBVIOUS
  <2>4. LeftByDebits = Total(DebitAllocations, f) /\ LeftByDebits' = Total(DebitAllocations, h)
    BY DEF LeftByDebits
  <2> HIDE DEF f, g, h, debits
  <2>5. Total(DebitAllocations, h) = Total(DebitAllocations, f) + Total(DebitAllocations, g)
    BY <2>1, <2>2, TotalPlus, FiniteRows
  <2>6. QED
    BY <2>3, <2>4, <2>5
<1>8. LeftByPayments' = LeftByPayments /\ Unspent' = Unspent /\ Carried' = Carried
  BY <1>1, PaymentSumsKept, CarriedKept
<1>9. LeftByBills' = LeftByBills
  <2>1. \A c \in Bills : LaterOf(c)' = LaterOf(c) /\ DebitedTo(c)' = DebitedTo(c)
    BY <1>1 DEF LaterOf, DebitedTo
  <2>2. QED
    BY <1>1, <2>1, VoidedBillsKept
<1>10. SumsTyped
  BY <1>2, SumsTypes
<1> HIDE DEF debits
<1>11. QED
  BY <1>1, <1>2, <1>4, <1>5, <1>6, <1>7, <1>8, <1>9, <1>10 DEF AccountLaw, SumsTyped

\* A debit note and a bill without a layer change by the same amount.
LEMMA AccountDebited ==
    ASSUME TypeInv, TypeInv', AccountLaw,
           NEW k \in DebitAllocations, NEW d \in DebitNotes, NEW b \in Bills,
           NEW due \in Nat, NEW unapplied \in Nat,
           bill[b].status = "FINALIZED", layer[b] = NoLayer, debitNote[d].status = "FINALIZED",
           bill' = [bill EXCEPT ![b].balanceDue = due],
           debitNote' = [debitNote EXCEPT ![d].unappliedAmount = unapplied],
           bill[b].balanceDue - debitNote[d].unappliedAmount = due - unapplied,
           debitAllocation[k].status # "NONE" =>
             debitAllocation[k].debitNote = d /\ debitAllocation[k].bill = b,
           debitAllocation'[k].status # "NONE" =>
             debitAllocation'[k].debitNote = d /\ debitAllocation'[k].bill = b,
           \A j \in DebitAllocations \ {k} : debitAllocation'[j] = debitAllocation[j],
           UNCHANGED <<payment, allocation, layer, payable>>
    PROVE  AccountLaw'
<1>1. /\ TypeOK /\ TypeOK' /\ References /\ bill \in [Bills -> Bill]
      /\ debitNote \in [DebitNotes -> DebitNote] /\ payable \in Int
      /\ bill[b].balanceDue \in Nat /\ debitNote[d].unappliedAmount \in Nat
  BY RowTypes DEF TypeInv, TypeOK
<1>2. /\ bill'[b].status = "FINALIZED" /\ bill'[b].balanceDue = due
      /\ \A c \in Bills \ {b} : bill'[c] = bill[c]
  BY <1>1 DEF Bill
<1>3. /\ debitNote'[d].status = "FINALIZED" /\ debitNote'[d].unappliedAmount = unapplied
      /\ \A c \in DebitNotes \ {d} : debitNote'[c] = debitNote[c]
  BY <1>1 DEF DebitNote
<1>4. CarryingOf(b) = bill[b].balanceDue /\ CarryingOf(b)' = due
  BY <1>2 DEF CarryingOf
<1>5. \A c \in Bills \ {b} : CarryingOf(c)' = CarryingOf(c)
  BY <1>2 DEF CarryingOf
<1>6. Carried' = Carried - CarryingOf(b) + CarryingOf(b)'
  BY <1>1, <1>5, CarriedChanged
<1>7. OpenDebits[d] = debitNote[d].unappliedAmount /\ OpenDebits'[d] = unapplied
  BY <1>3 DEF OpenDebits
<1>8. Undebited' = Undebited - OpenDebits[d] + OpenDebits'[d]
  BY <1>1, <1>3, UndebitedChanged
<1>9. LeftByDebits' = LeftByDebits
  <2>1. ASSUME NEW j \in DebitAllocations PROVE DebitLeftBehind'[j] = DebitLeftBehind[j]
    <3>1. CASE j = k
      BY <1>3, <3>1 DEF DebitLeftBehind
    <3>2. CASE j # k /\ debitAllocation[j].status = "ACTIVE"
      <4>1. debitAllocation'[j] = debitAllocation[j] /\ debitAllocation[j].debitNote \in DebitNotes
        BY <1>1, <3>2 DEF References
      <4>2. debitNote'[debitAllocation[j].debitNote].status
              = debitNote[debitAllocation[j].debitNote].status
        BY <1>3, <4>1
      <4>3. QED
        BY <4>1, <4>2 DEF DebitLeftBehind
    <3>3. CASE j # k /\ debitAllocation[j].status # "ACTIVE"
      BY <3>3 DEF DebitLeftBehind
    <3>4. QED
      BY <3>1, <3>2, <3>3
  <2>2. DebitLeftBehind' = [j \in DebitAllocations |-> DebitLeftBehind'[j]]
    BY DEF DebitLeftBehind
  <2>3. DebitLeftBehind = [j \in DebitAllocations |-> DebitLeftBehind[j]]
    BY DEF DebitLeftBehind
  <2>4. DebitLeftBehind' = DebitLeftBehind
    BY <2>1, <2>2, <2>3
  <2>5. QED
    BY <2>4 DEF LeftByDebits
<1>10. LeftByBills' = LeftByBills
  <2>1. \A c \in Bills : bill'[c].status = "VOIDED" <=> bill[c].status = "VOIDED"
    BY <1>2
  <2>2. ASSUME NEW c \in Bills, bill[c].status = "VOIDED"
        PROVE  LaterOf(c)' = LaterOf(c) /\ DebitedTo(c)' = DebitedTo(c)
    <3>1. c # b
      BY <2>2
    <3>2. DebitedTo(c)' = DebitedTo(c)
      BY <3>1 DEF DebitedTo
    <3>3. QED
      BY <3>2 DEF LaterOf
  <2>3. QED
    BY <2>1, <2>2, VoidedBillsKept
<1>11. LeftByPayments' = LeftByPayments /\ Unspent' = Unspent
  BY PaymentSumsKept
<1>12. SumsTyped
  BY <1>1, SumsTypes
<1>13. payable' = payable /\ bill[b].balanceDue - debitNote[d].unappliedAmount = due - unapplied
  OBVIOUS
<1>14. QED
  BY <1>1, <1>4, <1>6, <1>7, <1>8, <1>9, <1>10, <1>11, <1>12, <1>13 DEF AccountLaw, SumsTyped

\* Applying a debit note keeps the control account.
LEMMA AccountDebitApplied ==
    ASSUME TypeInv, TypeInv', AccountLaw, NEW d \in DebitNotes, NEW k \in DebitAllocations,
           NEW b \in Bills, NEW amount \in DebitTotals, ApplyDebitNote(k, d, b, amount)
    PROVE  AccountLaw'
<1>1. /\ debitAllocation[k].status = "NONE" /\ debitNote[d].status = "FINALIZED"
      /\ amount \in Nat /\ amount <= debitNote[d].unappliedAmount
      /\ bill[b].status = "FINALIZED" /\ layer[b] = NoLayer /\ amount <= bill[b].balanceDue
      /\ debitNote' = [debitNote EXCEPT ![d].unappliedAmount = @ - amount]
      /\ bill' = [bill EXCEPT ![b].balanceDue = @ - amount]
      /\ debitAllocation' = [debitAllocation EXCEPT ![k] =
           [status |-> "ACTIVE", debitNote |-> d, bill |-> b, amount |-> amount]]
      /\ UNCHANGED <<payment, allocation, layer, payable>>
  BY Positive DEF ApplyDebitNote, MutationAllowed
<1>2. /\ bill[b].balanceDue \in Nat /\ debitNote[d].unappliedAmount \in Nat
      /\ debitAllocation \in [DebitAllocations -> DebitAllocation]
  BY RowTypes DEF TypeInv, TypeOK
<1> DEFINE due == bill[b].balanceDue - amount
           unapplied == debitNote[d].unappliedAmount - amount
<1>3. /\ due \in Nat /\ unapplied \in Nat
      /\ bill[b].balanceDue - debitNote[d].unappliedAmount = due - unapplied
  BY <1>1, <1>2
<1>4. /\ debitNote' = [debitNote EXCEPT ![d].unappliedAmount = unapplied]
      /\ bill' = [bill EXCEPT ![b].balanceDue = due]
  BY <1>1
<1> HIDE DEF due, unapplied
<1>5. /\ debitAllocation'[k].debitNote = d /\ debitAllocation'[k].bill = b
      /\ \A j \in DebitAllocations \ {k} : debitAllocation'[j] = debitAllocation[j]
  BY <1>1, <1>2
<1>6. debitAllocation[k].status # "NONE" =>
        debitAllocation[k].debitNote = d /\ debitAllocation[k].bill = b
  BY <1>1
<1>7. debitAllocation'[k].status # "NONE" =>
        debitAllocation'[k].debitNote = d /\ debitAllocation'[k].bill = b
  BY <1>5
<1>8. \A j \in DebitAllocations \ {k} : debitAllocation'[j] = debitAllocation[j]
  BY <1>5
<1>9. bill[b].status = "FINALIZED" /\ layer[b] = NoLayer /\ debitNote[d].status = "FINALIZED"
  BY <1>1
<1>10. UNCHANGED <<payment, allocation, layer, payable>>
  BY <1>1
<1>11. QED
  BY <1>3, <1>4, <1>6, <1>7, <1>8, <1>9, <1>10, AccountDebited

\* Reversing a debit allocation keeps the control account.
LEMMA AccountDebitReversed ==
    ASSUME TypeInv, TypeInv', AccountLaw, NEW k \in DebitAllocations, ReverseDebitAllocation(k)
    PROVE  AccountLaw'
<1>1. debitAllocation[k].status = "ACTIVE"
  BY DEF ReverseDebitAllocation
<1>2. /\ debitAllocation[k].debitNote \in DebitNotes /\ debitAllocation[k].bill \in Bills
      /\ debitAllocation \in [DebitAllocations -> DebitAllocation]
      /\ debitAllocation[k].amount \in Nat
  BY <1>1, RowTypes DEF TypeInv, TypeOK, References
<1>3. PICK d \in DebitNotes : d = debitAllocation[k].debitNote
  BY <1>2
<1>4. PICK b \in Bills : b = debitAllocation[k].bill
  BY <1>2
<1>5. PICK amount \in Nat : amount = debitAllocation[k].amount
  BY <1>2
<1>6. /\ debitNote[d].status = "FINALIZED"
      /\ bill[b].status = "FINALIZED" /\ layer[b] = NoLayer
      /\ debitNote' = [debitNote EXCEPT ![d].unappliedAmount = @ + amount]
      /\ bill' = [bill EXCEPT ![b].balanceDue = @ + amount]
      /\ debitAllocation' = [debitAllocation EXCEPT ![k].status = "REVERSED"]
      /\ UNCHANGED <<payment, allocation, layer, payable>>
  BY <1>3, <1>4, <1>5 DEF ReverseDebitAllocation, MutationAllowed
<1>7. bill[b].balanceDue \in Nat /\ debitNote[d].unappliedAmount \in Nat
  BY RowTypes DEF TypeInv
<1> DEFINE due == bill[b].balanceDue + amount
           unapplied == debitNote[d].unappliedAmount + amount
<1>8. /\ due \in Nat /\ unapplied \in Nat
      /\ bill[b].balanceDue - debitNote[d].unappliedAmount = due - unapplied
  BY <1>7
<1>9. /\ debitNote' = [debitNote EXCEPT ![d].unappliedAmount = unapplied]
      /\ bill' = [bill EXCEPT ![b].balanceDue = due]
  BY <1>6
<1> HIDE DEF due, unapplied
<1>10. /\ debitAllocation'[k].debitNote = d /\ debitAllocation'[k].bill = b
       /\ \A j \in DebitAllocations \ {k} : debitAllocation'[j] = debitAllocation[j]
  BY <1>2, <1>3, <1>4, <1>6 DEF DebitAllocation
<1>11. debitAllocation[k].status # "NONE" =>
         debitAllocation[k].debitNote = d /\ debitAllocation[k].bill = b
  BY <1>3, <1>4
<1>12. debitAllocation'[k].status # "NONE" =>
         debitAllocation'[k].debitNote = d /\ debitAllocation'[k].bill = b
  BY <1>10
<1>13. \A j \in DebitAllocations \ {k} : debitAllocation'[j] = debitAllocation[j]
  BY <1>10
<1>14. bill[b].status = "FINALIZED" /\ layer[b] = NoLayer /\ debitNote[d].status = "FINALIZED"
  BY <1>6
<1>15. UNCHANGED <<payment, allocation, layer, payable>>
  BY <1>6
<1>16. QED
  BY <1>8, <1>9, <1>11, <1>12, <1>13, <1>14, <1>15, AccountDebited

-----------------------------------------------------------------------------
\* The bills on a run have one value before it and another after, which are the
\* two sums of its journal; the other bills keep theirs.
LEMMA CarriedRevalued ==
    ASSUME TypeInv, TypeInv', NEW r \in Runs,
           NEW before \in [Lines(r) -> Nat], NEW after \in [Lines(r) -> Nat],
           \A b \in Lines(r) : CarryingOf(b) = before[b] /\ CarryingOf(b)' = after[b],
           \A b \in Bills \ Lines(r) : CarryingOf(b)' = CarryingOf(b)
    PROVE  Carried' + Total(Lines(r), before) = Carried + Total(Lines(r), after)
<1> DEFINE L == Lines(r)
           f == [b \in Bills |-> IF b \in L THEN before[b] ELSE 0]
           g == [b \in Bills |-> IF b \in L THEN after[b] ELSE 0]
           rest == [b \in Bills |-> IF b \in L THEN 0 ELSE CarryingOf(b)]
           x == Carryings
           y == Carryings'
<1>1. x \in [Bills -> Nat] /\ y \in [Bills -> Nat]
  BY SumsTypes, SumsTypesNext DEF SumsTyped, TypeInv
<1>2. f \in [Bills -> Nat] /\ g \in [Bills -> Nat]
  OBVIOUS
<1>3. rest \in [Bills -> Nat]
  <2>1. \A b \in Bills : CarryingOf(b) \in Nat
    BY <1>1 DEF Carryings
  <2>2. QED
    BY <2>1
<1>4. \A b \in Bills : CarryingOf(b) \in Nat /\ x[b] = CarryingOf(b) /\ y[b] = CarryingOf(b)'
  BY <1>1 DEF Carryings
<1>5. \A b \in Bills : x[b] = rest[b] + f[b] /\ y[b] = rest[b] + g[b]
  <2> TAKE b \in Bills
  <2>1. CASE b \in L
    BY <1>4, <2>1
  <2>2. CASE b \notin L
    BY <1>4, <2>2
  <2>3. QED
    BY <2>1, <2>2
<1>6. L \subseteq Bills
  BY DEF Lines
<1>7. /\ \A b \in L : f[b] = before[b] /\ g[b] = after[b]
      /\ \A b \in Bills \ L : f[b] = 0 /\ g[b] = 0
  BY <1>6
<1>8. Carried = Total(Bills, x) /\ Carried' = Total(Bills, y)
  BY DEF Carried
<1>9. before \in [L -> Nat] /\ after \in [L -> Nat]
  OBVIOUS
<1> HIDE DEF L, f, g, rest, x, y
<1>10. Total(Bills, x) = Total(Bills, rest) + Total(Bills, f)
  BY <1>1, <1>2, <1>3, <1>5, TotalPlus, FiniteRows
<1>11. Total(Bills, y) = Total(Bills, rest) + Total(Bills, g)
  BY <1>1, <1>2, <1>3, <1>5, TotalPlus, FiniteRows
<1>12. Total(Bills, f) = Total(L, before)
  BY <1>2, <1>6, <1>7, <1>9, TotalPart
<1>13. Total(Bills, g) = Total(L, after)
  BY <1>2, <1>6, <1>7, <1>9, TotalPart
<1>14. Total(Bills, rest) \in Nat /\ Total(Bills, f) \in Nat /\ Total(Bills, g) \in Nat
  BY <1>2, <1>3, TotalType, FiniteRows
<1>15. Carried' + Total(L, before) = Carried + Total(L, after)
  BY <1>8, <1>10, <1>11, <1>12, <1>13, <1>14
<1>16. QED
  BY <1>15 DEF L

\* What a line carries before and what it is revalued to.
CarriedOn(r) == [b \in Lines(r) |-> run[r].lines[b].carrying]
RevaluedOn(r) == [b \in Lines(r) |-> run[r].lines[b].revalued]

\* The two totals of a run are sums over its lines.
LEMMA LineSums ==
    ASSUME TypeInv, NEW r \in Runs
    PROVE  /\ CarriedOn(r) \in [Lines(r) -> Nat] /\ RevaluedOn(r) \in [Lines(r) -> Nat]
           /\ CarriedBy(r) = Total(Lines(r), CarriedOn(r))
           /\ RevaluedBy(r) = Total(Lines(r), RevaluedOn(r))
           /\ CarriedBy(r) \in Nat /\ RevaluedBy(r) \in Nat
<1>1. \A b \in Lines(r) :
        run[r].lines[b].carrying \in Nat /\ run[r].lines[b].revalued \in Nat
  BY LineTypes DEF Lines
<1>2. CarriedOn(r) \in [Lines(r) -> Nat] /\ RevaluedOn(r) \in [Lines(r) -> Nat]
  BY <1>1 DEF CarriedOn, RevaluedOn
<1>3. QED
  BY <1>2, RevaluedTypes DEF CarriedBy, RevaluedBy, CarriedOn, RevaluedOn

\* A revaluation moves the account by what it moves the carrying values.
LEMMA AccountRevalued ==
    ASSUME TypeInv, TypeInv', AccountLaw, UNCHANGED <<bill, payment, allocation, debitNote,
           debitAllocation>>, payable' - payable = Carried' - Carried
    PROVE  AccountLaw'
<1>1. /\ LeftByPayments' = LeftByPayments /\ Unspent' = Unspent
      /\ LeftByDebits' = LeftByDebits /\ Undebited' = Undebited
  BY LeftByDebitsKept, PaymentSumsKept
<1>2. LeftByBills' = LeftByBills
  <2>1. \A c \in Bills : LaterOf(c)' = LaterOf(c) /\ DebitedTo(c)' = DebitedTo(c)
    BY DEF LaterOf, DebitedTo
  <2>2. QED
    BY <2>1, VoidedBillsKept
<1>3. SumsTyped /\ SumsTyped' /\ payable \in Int /\ payable' \in Int
  BY SumsTypes, SumsTypesNext DEF TypeInv, TypeOK
<1> DEFINE owed == payable
           owes == payable'
           carried == Carried
           carries == Carried'
           rest == LeftByPayments + LeftByDebits - LeftByBills - Unspent - Undebited
<1>4. rest \in Int
  BY <1>3 DEF SumsTyped
<1>5. owed = carried + rest
  BY <1>3 DEF AccountLaw, SumsTyped
<1>6. /\ owes - owed = carries - carried
      /\ owed \in Int /\ owes \in Int /\ carried \in Nat /\ carries \in Nat
  BY <1>3 DEF SumsTyped
<1>7. rest' = rest
  BY <1>1, <1>2
<1> HIDE DEF owed, owes, carried, carries, rest
<1>8. owes = carries + rest
  BY <1>4, <1>5, <1>6
<1>9. payable' = Carried' + rest'
  BY <1>7, <1>8 DEF owes, carries
<1>10. QED
  BY <1>3, <1>9 DEF AccountLaw, SumsTyped, rest

\* Posting a run gives its bills the values they are revalued to.
LEMMA AccountPosted ==
    ASSUME TypeInv, TypeInv', AccountLaw, NEW r \in Runs, PostRevaluation(r)
    PROVE  AccountLaw'
<1>1. /\ Lines(r) = Eligible(run[r].date) /\ \A b \in Lines(r) : LineCurrent(r, b)
      /\ layer' = [b \in Bills |->
           IF b \in Lines(r)
           THEN [line |-> r, open |-> run[r].lines[b].open,
                 source |-> run[r].lines[b].source,
                 carrying |-> run[r].lines[b].revalued, rate |-> run[r].rate]
           ELSE layer[b]]
      /\ payable' = payable + RevaluedBy(r) - CarriedBy(r)
      /\ UNCHANGED <<bill, payment, allocation, debitNote, debitAllocation>>
  BY DEF PostRevaluation
<1>2. ASSUME NEW b \in Lines(r)
      PROVE  CarryingOf(b) = CarriedOn(r)[b] /\ CarryingOf(b)' = RevaluedOn(r)[b]
  <2>1. b \in Bills /\ bill[b].status = "FINALIZED" /\ bill'[b] = bill[b]
    BY <1>1 DEF Eligible
  <2>2. /\ bill[b].balanceDue = run[r].lines[b].source
        /\ layer[b].line = run[r].lines[b].prior
        /\ layer[b] # NoLayer => layer[b].carrying = run[r].lines[b].carrying
    BY <1>1 DEF LineCurrent
  <2>3. layer[b] = NoLayer <=> layer[b].line = None
    BY <2>1, LayerTypes, RowTypes DEF TypeInv
  <2>4. run[r].lines[b].prior = None => run[r].lines[b].carrying = run[r].lines[b].source
    BY <2>1, LineTypes
  <2>5. CarryingOf(b) = run[r].lines[b].carrying
    BY <2>1, <2>2, <2>3, <2>4 DEF CarryingOf
  <2>6. layer'[b].line = r /\ layer'[b].carrying = run[r].lines[b].revalued
    BY <1>1, <2>1
  <2>7. layer'[b] # NoLayer
    BY <2>6, NoneIsNoRow DEF NoLayer
  <2>8. CarryingOf(b)' = run[r].lines[b].revalued
    BY <2>1, <2>6, <2>7 DEF CarryingOf
  <2>9. QED
    BY <2>5, <2>8 DEF CarriedOn, RevaluedOn
<1>3. \A b \in Bills \ Lines(r) : CarryingOf(b)' = CarryingOf(b)
  BY <1>1 DEF CarryingOf
<1>4. PICK x \in [Lines(r) -> Nat] : x = CarriedOn(r)
  BY LineSums
<1>5. PICK y \in [Lines(r) -> Nat] : y = RevaluedOn(r)
  BY LineSums
<1>6. \A b \in Lines(r) : CarryingOf(b) = x[b] /\ CarryingOf(b)' = y[b]
  BY <1>2, <1>4, <1>5
<1>7. Carried' + Total(Lines(r), x) = Carried + Total(Lines(r), y)
  BY <1>3, <1>6, CarriedRevalued
<1>8. /\ Total(Lines(r), x) = CarriedBy(r) /\ CarriedBy(r) \in Nat
      /\ Total(Lines(r), y) = RevaluedBy(r) /\ RevaluedBy(r) \in Nat
  BY <1>4, <1>5, LineSums
<1> DEFINE owed == payable
           owes == payable'
           carried == Carried
           carries == Carried'
           loss == CarriedBy(r)
           gain == RevaluedBy(r)
<1>9. owes = owed + gain - loss /\ carries + loss = carried + gain
  BY <1>1, <1>7, <1>8
<1>10. /\ owed \in Int /\ owes \in Int /\ carried \in Nat /\ carries \in Nat
       /\ loss \in Nat /\ gain \in Nat
  BY <1>8, SumsTypes, SumsTypesNext DEF SumsTyped, TypeInv, TypeOK
<1> HIDE DEF owed, owes, carried, carries, loss, gain
<1>11. owes - owed = carries - carried
  BY <1>9, <1>10
<1>12. payable' - payable = Carried' - Carried
  BY <1>11 DEF owed, owes, carried, carries
<1>13. UNCHANGED <<bill, payment, allocation, debitNote, debitAllocation>>
  BY <1>1
<1>14. QED
  BY <1>12, <1>13, AccountRevalued

\* Reversing it gives them back what they were carried at.
LEMMA AccountRunReversed ==
    ASSUME TypeInv, TypeInv', CarryLaws, AccountLaw, NEW r \in Runs, ReverseRevaluation(r)
    PROVE  AccountLaw'
<1>1. /\ \A b \in Lines(r) : LineUntouched(r, b)
      /\ layer' = [b \in Bills |->
           IF b \notin Lines(r) THEN layer[b]
           ELSE LET line == run[r].lines[b]
                IN  IF line.prior = None THEN NoLayer
                    ELSE [layer[b] EXCEPT !.carrying = line.carrying,
                                          !.rate = run[line.prior].rate,
                                          !.line = line.prior]]
      /\ payable' = payable - (RevaluedBy(r) - CarriedBy(r))
      /\ UNCHANGED <<bill, payment, allocation, debitNote, debitAllocation>>
  BY DEF ReverseRevaluation
<1>2. ASSUME NEW b \in Lines(r)
      PROVE  CarryingOf(b) = RevaluedOn(r)[b] /\ CarryingOf(b)' = CarriedOn(r)[b]
  <2>1. b \in Bills /\ bill'[b] = bill[b]
    BY <1>1 DEF Lines
  <2>2. /\ layer[b].line = r /\ layer[b].source = run[r].lines[b].source
        /\ layer[b].carrying = run[r].lines[b].revalued
    BY <1>1 DEF LineUntouched
  <2>3. /\ layer[b] # NoLayer
        /\ layer[b] \in [line: Runs, open: Nat, source: Nat, carrying: Nat, rate: Nat]
    BY <2>1, <2>2, LayerTypes, RowTypes, NoneIsNoRow DEF TypeInv
  <2>4. bill[b].status = "FINALIZED" /\ layer[b].source = bill[b].balanceDue
    BY <2>1, <2>2, <2>3 DEF CarryLaws, CarryLaw, LayerLaw, LayerStands
  <2>5. CarryingOf(b) = run[r].lines[b].revalued
    BY <2>2, <2>3, <2>4 DEF CarryingOf
  <2>6. /\ run[r].lines[b].prior \in Runs \cup {None}
        /\ run[r].lines[b].prior = None => run[r].lines[b].carrying = run[r].lines[b].source
    BY <2>1, LineTypes
  <2>7. CarryingOf(b)' = run[r].lines[b].carrying
    <3>1. CASE run[r].lines[b].prior = None
      <4>1. layer'[b] = NoLayer
        BY <1>1, <2>1, <3>1
      <4>2. QED
        BY <2>1, <2>2, <2>4, <2>6, <3>1, <4>1 DEF CarryingOf
    <3>2. CASE run[r].lines[b].prior # None
      <4> DEFINE carrying == run[r].lines[b].carrying
                 prior == run[r].lines[b].prior
                 rate == run[prior].rate
      <4>1. layer'[b] = [layer[b] EXCEPT !.carrying = carrying, !.rate = rate, !.line = prior]
        BY <1>1, <2>1, <3>2
      <4>2. prior \in Runs /\ prior # None
        BY <2>6, <3>2
      <4> HIDE DEF carrying, prior, rate
      <4>3. layer'[b].line = prior /\ layer'[b].carrying = carrying
        BY <2>3, <4>1
      <4>4. layer'[b] # NoLayer
        BY <4>2, <4>3 DEF NoLayer
      <4>5. QED
        BY <2>1, <2>4, <4>3, <4>4 DEF CarryingOf, carrying
    <3>3. QED
      BY <3>1, <3>2
  <2>8. QED
    BY <2>5, <2>7 DEF CarriedOn, RevaluedOn
<1>3. \A b \in Bills \ Lines(r) : CarryingOf(b)' = CarryingOf(b)
  BY <1>1 DEF CarryingOf
<1>4. PICK x \in [Lines(r) -> Nat] : x = RevaluedOn(r)
  BY LineSums
<1>5. PICK y \in [Lines(r) -> Nat] : y = CarriedOn(r)
  BY LineSums
<1>6. \A b \in Lines(r) : CarryingOf(b) = x[b] /\ CarryingOf(b)' = y[b]
  BY <1>2, <1>4, <1>5
<1>7. Carried' + Total(Lines(r), x) = Carried + Total(Lines(r), y)
  BY <1>3, <1>6, CarriedRevalued
<1>8. /\ Total(Lines(r), x) = RevaluedBy(r) /\ RevaluedBy(r) \in Nat
      /\ Total(Lines(r), y) = CarriedBy(r) /\ CarriedBy(r) \in Nat
  BY <1>4, <1>5, LineSums
<1> DEFINE owed == payable
           owes == payable'
           carried == Carried
           carries == Carried'
           loss == RevaluedBy(r)
           gain == CarriedBy(r)
<1>9. owes = owed - (loss - gain) /\ carries + loss = carried + gain
  BY <1>1, <1>7, <1>8
<1>10. /\ owed \in Int /\ owes \in Int /\ carried \in Nat /\ carries \in Nat
       /\ loss \in Nat /\ gain \in Nat
  BY <1>8, SumsTypes, SumsTypesNext DEF SumsTyped, TypeInv, TypeOK
<1> HIDE DEF owed, owes, carried, carries, loss, gain
<1>11. owes - owed = carries - carried
  BY <1>9, <1>10
<1>12. payable' - payable = Carried' - Carried
  BY <1>11 DEF owed, owes, carried, carries
<1>13. UNCHANGED <<bill, payment, allocation, debitNote, debitAllocation>>
  BY <1>1
<1>14. QED
  BY <1>12, <1>13, AccountRevalued

\* Steps that change neither the documents nor the account.
LEMMA AccountKept ==
    ASSUME AccountLaw, UNCHANGED <<bill, payment, allocation, debitNote, debitAllocation,
                                   layer, payable>>
    PROVE  AccountLaw'
<1>1. \A c \in Bills : LaterOf(c)' = LaterOf(c) /\ DebitedTo(c)' = DebitedTo(c)
  BY DEF LaterOf, DebitedTo
<1>2. LeftByBills' = LeftByBills
  BY <1>1, VoidedBillsKept
<1>3. QED
  BY <1>2, PaymentSumsKept, LeftByDebitsKept, CarriedKept DEF AccountLaw

-----------------------------------------------------------------------------

\* Every change of the rows keeps the control account.
LEMMA RowsKeepAccount ==
    ASSUME TypeInv, TypeInv', BillLaws, PaymentLaws, CarryLaws, DebitLaws, AccountLaw,
           RowChange
    PROVE  AccountLaw'
<1>1. CASE BillChange
  BY <1>1, AccountFinalized, AccountBillVoided DEF BillChange
<1>2. CASE PaymentChange
  BY <1>2, AccountCreated, AccountPaymentVoided DEF PaymentChange
<1>3. CASE AllocationChange
  BY <1>3, AccountApplied, AccountReversed DEF AllocationChange
<1>4. CASE DebitChange
  BY <1>4, AccountDebitFinalized, AccountDebitApplied, AccountDebitVoided,
     AccountDebitReversed DEF DebitChange
<1>5. CASE RevaluationNext
  <2>1. PICK r \in Runs :
          \/ \E date \in Dates, rate \in ClosingRates : PreviewRevaluation(r, date, rate)
          \/ ReviewRevaluation(r)
          \/ PostRevaluation(r)
          \/ ReverseRevaluation(r)
    BY <1>5 DEF RevaluationNext
  <2>2. ASSUME NEW date \in Dates, NEW rate \in ClosingRates, PreviewRevaluation(r, date, rate)
        PROVE  AccountLaw'
    BY <2>2, AccountKept DEF PreviewRevaluation
  <2>3. CASE ReviewRevaluation(r)
    BY <2>3, AccountKept DEF ReviewRevaluation
  <2>4. QED
    BY <2>1, <2>2, <2>3, AccountPosted, AccountRunReversed
<1>6. CASE UNCHANGED rows
  BY <1>6, AccountKept DEF rows
<1>7. QED
  BY <1>1, <1>2, <1>3, <1>4, <1>5, <1>6 DEF RowChange

\* The control account is zero at the start, as is the subledger.
LEMMA InitAccount == Init => AccountLaw
<1> SUFFICES ASSUME Init
             PROVE  AccountLaw
  OBVIOUS
<1>1. SumsTyped
  BY InitTypes, SumsTypes DEF TypeInv
<1>2. /\ \A b \in Bills : Carryings[b] = 0 /\ VoidedBills[b] = 0
      /\ \A p \in Payments : Unapplieds[p] = 0
      /\ \A d \in DebitNotes : OpenDebits[d] = 0
      /\ \A u \in Allocations : LeftBehind[u] = 0
      /\ \A k \in DebitAllocations : DebitLeftBehind[k] = 0
  BY DEF Init, NoBill, Carryings, CarryingOf, VoidedBills, OfVoidedBill, Unapplieds, OpenDebits,
         LeftBehind, DebitLeftBehind
<1>3. Carried = 0 /\ LeftByBills = 0
  BY <1>1, <1>2, TotalZero DEF SumsTyped, Carried, LeftByBills
<1>4. Unspent = 0 /\ Undebited = 0
  BY <1>1, <1>2, TotalZero DEF SumsTyped, Unspent, Undebited
<1>5. LeftByPayments = 0 /\ LeftByDebits = 0
  BY <1>1, <1>2, TotalZero DEF SumsTyped, LeftByPayments, LeftByDebits
<1>6. QED
  BY <1>3, <1>4, <1>5 DEF Init, AccountLaw

AccountInv ==
    TypeInv /\ BillLaws /\ PaymentLaws /\ CarryLaws /\ DebitLaws /\ AccountLaw

\* The control account is the carrying value of the open bills less unapplied
\* payments and debit notes, but for what voids that raced an application
\* leave behind: no settlement, revaluation or reversal posts a stray unit.
THEOREM ControlAccountTies == Spec => []ControlAccountTiesOut
<1>1. Init => AccountInv
  BY InitTypes, InitBills, InitPayments, InitCarry, InitDebits, InitAccount DEF AccountInv
<1>2. AccountInv /\ [Next]_vars => AccountInv'
  BY StepTypes, RowsKeepBills, RowsKeepPayments, RowsKeepCarry, RowsKeepDebits,
     RowsKeepAccount DEF AccountInv
<1>3. AccountInv => ControlAccountTiesOut
  BY DEF AccountInv, AccountLaw, ControlAccountTiesOut, Carried, Unspent, Undebited,
         LeftByPayments, LeftByDebits, LeftByBills, Carryings, Unapplieds, OpenDebits,
         VoidedBills
<1>4. QED
  BY <1>1, <1>2, <1>3, PTL DEF Spec

-----------------------------------------------------------------------------
(* The refinement.  Each change of the rows is one action on items.          *)

Abstract == INSTANCE OpenItemsProofs WITH
    state <- ItemState, amount <- ItemAmount,
    remaining <- ItemRemaining, taken <- ItemsTaken

\* The steps that OpenItemsProofs speaks of are those of the property.
LEMMA AbstractSteps ==
    /\ Abstract!Next => Subledger!Next
    /\ [Abstract!Next]_(Abstract!vars) => [Subledger!Next]_(Subledger!vars)
    /\ (UNCHANGED Abstract!vars) => UNCHANGED Subledger!vars
<1>1. Abstract!Next => Subledger!Next
  BY DEF Abstract!Next, Subledger!Next, Abstract!Open, Subledger!Open, Abstract!Close,
         Subledger!Close, Abstract!Take, Subledger!Take, Abstract!GiveBack,
         Subledger!GiveBack, Abstract!OpenTaking, Subledger!OpenTaking,
         Abstract!CloseGivingBack, Subledger!CloseGivingBack, Abstract!InForce,
         Subledger!InForce, Abstract!Nothing, Subledger!Nothing
<1>2. (UNCHANGED Abstract!vars) => UNCHANGED Subledger!vars
  BY DEF Abstract!vars, Subledger!vars
<1>3. QED
  BY <1>1, <1>2

\* The values of the mapping, row by row.
ValuesOfItems ==
    /\ \A b \in Bills :
         /\ b \in Items
         /\ ItemState[b] = StateOf(bill[b].status)
         /\ ItemAmount[b] =
              IF bill[b].status = "FINALIZED" THEN bill[b].transactionTotal ELSE 0
         /\ ItemRemaining[b] =
              IF bill[b].status = "FINALIZED" THEN bill[b].transactionBalanceDue ELSE 0
    /\ \A p \in Payments :
         /\ p \in Items
         /\ ItemState[p] = StateOf(payment[p].status)
         /\ ItemAmount[p] =
              IF payment[p].status = "POSTED" THEN payment[p].transactionAmountPaid ELSE 0
         /\ ItemRemaining[p] =
              IF payment[p].status = "POSTED"
              THEN payment[p].transactionUnappliedAmount ELSE 0

\* The items have these values in every typed state.
LEMMA ItemValues == TypeOK => ValuesOfItems
<1> SUFFICES ASSUME TypeOK
             PROVE  ValuesOfItems
  OBVIOUS
<1>1. \A p \in Payments : p \notin Bills
  BY IdsDistinct
<1>2. /\ \A b \in Bills : bill[b].status \in {"NONE", "FINALIZED", "VOIDED"}
      /\ \A p \in Payments : payment[p].status \in {"NONE", "POSTED", "VOIDED"}
  BY RowTypes DEF Payment
<1>3. /\ StateOf("NONE") = "NONE" /\ StateOf("VOIDED") = "CLOSED"
      /\ StateOf("FINALIZED") = "OPEN" /\ StateOf("POSTED") = "OPEN"
  BY DEF StateOf
<1>4. /\ \A b \in Bills : b \in Items /\ ItemState[b] = StateOf(bill[b].status)
      /\ \A p \in Payments : p \in Items /\ ItemState[p] = StateOf(payment[p].status)
  BY <1>1 DEF Items, ItemState
<1>5. \A b \in Bills :
        /\ ItemAmount[b] = IF ItemState[b] # "OPEN" THEN 0 ELSE bill[b].transactionTotal
        /\ ItemRemaining[b] =
             IF ItemState[b] # "OPEN" THEN 0 ELSE bill[b].transactionBalanceDue
  BY <1>4 DEF ItemAmount, ItemRemaining
<1>6. \A p \in Payments :
        /\ ItemAmount[p] = IF ItemState[p] # "OPEN" THEN 0 ELSE payment[p].transactionAmountPaid
        /\ ItemRemaining[p] =
             IF ItemState[p] # "OPEN" THEN 0 ELSE payment[p].transactionUnappliedAmount
  BY <1>1, <1>4 DEF ItemAmount, ItemRemaining
<1>7. \A b \in Bills : ItemState[b] = "OPEN" <=> bill[b].status = "FINALIZED"
  BY <1>2, <1>3, <1>4
<1>8. \A p \in Payments : ItemState[p] = "OPEN" <=> payment[p].status = "POSTED"
  BY <1>2, <1>3, <1>4
<1>9. QED
  BY <1>4, <1>5, <1>6, <1>7, <1>8 DEF ValuesOfItems

\* They have them after a step.
LEMMA ItemValuesNext == TypeOK' => ValuesOfItems'
  BY ItemValues, PTL

ValuesOfUses ==
    /\ \A p \in Payments : p \in Uses
    /\ \A u \in Allocations : u \in Uses
    /\ \A x \in Items :
         /\ \A p \in Payments : ItemsTaken[p][x] = TakenByPayment(p, x)
         /\ \A u \in Allocations : ItemsTaken[u][x] = TakenByAllocation(u, x)

\* The uses have these values.
LEMMA UseValues == ValuesOfUses
<1>1. \A u \in Allocations : u \notin Payments
  BY IdsDistinct
<1>2. QED
  BY <1>1 DEF ValuesOfUses, ItemsTaken, Uses

\* They have them after a step.
LEMMA UseValuesNext == ValuesOfUses'
  BY UseValues, PTL

\* What a payment takes, from itself and from the bills.
LEMMA PaymentTakes ==
    ASSUME NEW p \in Payments, NEW x \in Items
    PROVE  /\ TakenByPayment(p, x) =
                IF payment[p].status # "POSTED" THEN 0
                ELSE IF x = p THEN Total(Bills, TransactionsOf(payment[p].splits))
                ELSE IF x \in Bills THEN payment[p].splits[x].transaction ELSE 0
  BY DEF TakenByPayment, TransactionsOf

\* The rows of every state are a state of the open items.
LEMMA AbstractTypes == TypeOK => Abstract!TypeOK
<1> SUFFICES ASSUME TypeOK
             PROVE  Abstract!TypeOK
  OBVIOUS
<1>1. ItemState \in [Items -> {"NONE", "OPEN", "CLOSED"}]
  <2>1. \A status : StateOf(status) \in {"NONE", "OPEN", "CLOSED"}
    BY DEF StateOf
  <2>2. QED
    BY <2>1 DEF ItemState
<1>2. \A x \in Items : ItemAmount[x] \in Nat /\ ItemRemaining[x] \in Nat
  BY ItemValues, RowTypes DEF ValuesOfItems, Items
<1>3. ItemAmount \in [Items -> Nat] /\ ItemRemaining \in [Items -> Nat]
  <2>1. ItemAmount = [x \in Items |-> ItemAmount[x]]
    BY DEF ItemAmount
  <2>2. ItemRemaining = [x \in Items |-> ItemRemaining[x]]
    BY DEF ItemRemaining
  <2>3. QED
    BY <1>2, <2>1, <2>2
<1>4. ASSUME NEW u \in Uses, NEW x \in Items
      PROVE  ItemsTaken[u][x] \in Nat
  <2>1. CASE u \in Payments
    <3>1. payment[u].splits \in [Bills -> Split]
      BY <2>1, RowTypes
    <3>2. Total(Bills, TransactionsOf(payment[u].splits)) \in Nat
      BY <3>1, SplitSums
    <3>3. \A b \in Bills : payment[u].splits[b].transaction \in Nat
      BY <3>1 DEF Split
    <3>4. QED
      BY <2>1, <3>2, <3>3, UseValues, PaymentTakes DEF ValuesOfUses
  <2>2. CASE u \in Allocations
    <3>1. allocation[u].split.transaction \in Nat
      BY <2>2, RowTypes DEF Split
    <3>2. QED
      BY <2>2, <3>1, UseValues DEF ValuesOfUses, TakenByAllocation
  <2>3. QED
    BY <2>1, <2>2 DEF Uses
<1>5. ItemsTaken \in [Uses -> [Items -> Nat]]
  <2>1. ItemsTaken = [u \in Uses |-> ItemsTaken[u]]
    BY DEF ItemsTaken
  <2>2. \A u \in Uses : ItemsTaken[u] = [x \in Items |-> ItemsTaken[u][x]]
    BY DEF ItemsTaken
  <2>3. \A u \in Uses : ItemsTaken[u] \in [Items -> Nat]
    BY <1>4, <2>2
  <2>4. QED
    BY <2>1, <2>3
<1>6. QED
  BY <1>1, <1>3, <1>5 DEF Abstract!TypeOK

\* The mapped items are typed after a step.
LEMMA AbstractTypesNext == TypeOK' => Abstract!TypeOK'
  BY AbstractTypes, PTL

\* Rows that keep what the mapping reads of them.
LEMMA KeptItems ==
    ASSUME TypeOK, TypeOK'
    PROVE  /\ \A b \in Bills :
                /\ bill'[b].status = bill[b].status
                /\ bill'[b].transactionTotal = bill[b].transactionTotal
                /\ bill'[b].transactionBalanceDue = bill[b].transactionBalanceDue
                => Abstract!SameItem(b)
           /\ \A p \in Payments :
                /\ payment'[p].status = payment[p].status
                /\ payment'[p].transactionAmountPaid = payment[p].transactionAmountPaid
                /\ payment'[p].transactionUnappliedAmount
                     = payment[p].transactionUnappliedAmount
                => Abstract!SameItem(p)
<1>1. ValuesOfItems /\ ValuesOfItems'
  BY ItemValues, ItemValuesNext
<1>2. QED
  BY <1>1 DEF ValuesOfItems, Abstract!SameItem

\* A payment or an allocation that keeps its split keeps its use.
LEMMA KeptUses ==
    /\ \A p \in Payments : /\ payment'[p].status = payment[p].status
                           /\ payment'[p].splits = payment[p].splits
         => Abstract!SameUse(p)
    /\ \A u \in Allocations : allocation'[u] = allocation[u] => Abstract!SameUse(u)
<1>1. ValuesOfUses /\ ValuesOfUses'
  BY UseValues, UseValuesNext
<1>2. ASSUME NEW p \in Payments, payment'[p].status = payment[p].status,
             payment'[p].splits = payment[p].splits
      PROVE  Abstract!SameUse(p)
  <2>1. \A x \in Items : TakenByPayment(p, x)' = TakenByPayment(p, x)
    BY <1>2 DEF TakenByPayment
  <2>2. QED
    BY <1>1, <2>1 DEF ValuesOfUses, Abstract!SameUse
<1>3. ASSUME NEW u \in Allocations, allocation'[u] = allocation[u]
      PROVE  Abstract!SameUse(u)
  BY <1>1, <1>3 DEF ValuesOfUses, TakenByAllocation, Abstract!SameUse
<1>4. QED
  BY <1>2, <1>3

-----------------------------------------------------------------------------
\* Bills open and close; debit notes and revaluations leave their transaction
\* amounts alone.
LEMMA UnseenMapped ==
    ASSUME TypeOK, TypeOK', UNCHANGED <<payment, allocation>>,
           \A b \in Bills : /\ bill'[b].status = bill[b].status
                            /\ bill'[b].transactionTotal = bill[b].transactionTotal
                            /\ bill'[b].transactionBalanceDue = bill[b].transactionBalanceDue
    PROVE  UNCHANGED Subledger!vars
<1>1. \A x \in Items : Abstract!SameItem(x)
  BY KeptItems DEF Items
<1>2. \A u \in Uses : Abstract!SameUse(u)
  BY KeptUses DEF Uses
<1>3. QED
  BY <1>1, <1>2, AbstractTypes, AbstractTypesNext, Abstract!Stutters, AbstractSteps

\* Finalizing opens an item, voiding closes it.
LEMMA BillMapped ==
    ASSUME TypeOK, TypeOK', NEW b \in Bills, NEW row \in Bill,
           BillFinalized(b, row) \/ BillVoided(b, row)
    PROVE  Subledger!Next
<1>1. /\ UNCHANGED <<payment, allocation>> /\ bill \in [Bills -> Bill]
      /\ bill' = [bill EXCEPT ![b] = row]
  BY DEF BillFinalized, BillVoided, TypeOK
<1>2. \A y \in Items \ {b} : Abstract!SameItem(y)
  BY <1>1, KeptItems DEF Items
<1>3. \A u \in Uses : Abstract!SameUse(u)
  BY <1>1, KeptUses DEF Uses
<1>4. Abstract!TypeOK /\ Abstract!TypeOK' /\ b \in Items
  BY AbstractTypes, AbstractTypesNext DEF Items
<1>5. ValuesOfItems /\ ValuesOfItems' /\ bill'[b] = row
  BY <1>1, ItemValues, ItemValuesNext
<1>6. CASE BillFinalized(b, row)
  <2>1. /\ bill[b].status = "NONE" /\ bill'[b].status = "FINALIZED"
        /\ bill'[b].transactionBalanceDue = bill'[b].transactionTotal
    BY <1>5, <1>6 DEF BillFinalized
  <2>2. /\ ItemState[b] = "NONE" /\ ItemState'[b] = "OPEN"
        /\ ItemRemaining'[b] = ItemAmount'[b]
    BY <1>5, <2>1 DEF ValuesOfItems, StateOf
  <2>3. QED
    BY <1>2, <1>3, <1>4, <2>2, Abstract!Opens, AbstractSteps
<1>7. CASE BillVoided(b, row)
  <2>1. bill[b].status = "FINALIZED" /\ bill'[b].status = "VOIDED"
    BY <1>5, <1>7 DEF BillVoided, MutationAllowed
  <2>2. /\ ItemState[b] # "CLOSED" /\ ItemState'[b] = "CLOSED"
        /\ ItemAmount'[b] = 0 /\ ItemRemaining'[b] = 0
    BY <1>5, <2>1 DEF ValuesOfItems, StateOf
  <2>3. QED
    BY <1>2, <1>3, <1>4, <2>2, Abstract!Closes, AbstractSteps
<1>8. QED
  BY <1>6, <1>7

\* What splits take from the items that are bills.
LEMMA SettledItems ==
    ASSUME TypeOK, TypeOK', NEW splits, Settlement(splits), NEW b \in Bills
    PROVE  /\ ItemState'[b] = ItemState[b] /\ ItemAmount'[b] = ItemAmount[b]
           /\ splits[b].transaction > 0 => ItemState[b] = "OPEN"
           /\ ItemRemaining'[b] = ItemRemaining[b] - splits[b].transaction
<1>1. /\ bill'[b].status = bill[b].status
      /\ bill'[b].transactionTotal = bill[b].transactionTotal
      /\ bill'[b].transactionBalanceDue = bill[b].transactionBalanceDue - splits[b].transaction
  BY SettlementTypes
<1>2. ValuesOfItems /\ ValuesOfItems' /\ bill[b].transactionBalanceDue \in Nat
  BY ItemValues, ItemValuesNext, RowTypes
<1>3. splits[b] = NoSplit \/ bill[b].status = "FINALIZED"
  BY DEF Settlement, Claims, Claimable
<1>4. splits[b] = NoSplit => splits[b].transaction = 0
  BY DEF NoSplit
<1>5. QED
  BY <1>1, <1>2, <1>3, <1>4 DEF ValuesOfItems, StateOf

\* A restoration gives each bill's item back what its split took.
LEMMA RestoredItems ==
    ASSUME TypeOK, TypeOK', NEW splits, Restoration(splits), NEW b \in Bills
    PROVE  /\ ItemState'[b] = ItemState[b] /\ ItemAmount'[b] = ItemAmount[b]
           /\ splits[b].transaction > 0 => ItemState[b] = "OPEN"
           /\ ItemRemaining'[b] = ItemRemaining[b] + splits[b].transaction
<1>1. /\ bill'[b].status = bill[b].status
      /\ bill'[b].transactionTotal = bill[b].transactionTotal
      /\ bill'[b].transactionBalanceDue = bill[b].transactionBalanceDue + splits[b].transaction
  BY RestorationTypes
<1>2. ValuesOfItems /\ ValuesOfItems' /\ bill[b].transactionBalanceDue \in Nat
  BY ItemValues, ItemValuesNext, RowTypes
<1>3. splits[b] = NoSplit \/ bill[b].status = "FINALIZED"
  BY DEF Restoration, Restores, Restorable
<1>4. splits[b] = NoSplit => splits[b].transaction = 0
  BY DEF NoSplit
<1>5. QED
  BY <1>1, <1>2, <1>3, <1>4 DEF ValuesOfItems, StateOf

\* A payment opens with the use of its direct allocations.
LEMMA CreatedMapped ==
    ASSUME TypeOK, TypeOK', NEW p \in Payments, NEW row \in Payment, PaymentCreated(p, row)
    PROVE  Subledger!Next
<1>1. /\ payment[p].status = "NONE" /\ row.status = "POSTED"
      /\ row.transactionAmountPaid
           = row.transactionUnappliedAmount + Total(Bills, TransactionsOf(row.splits))
      /\ payment' = [payment EXCEPT ![p] = row] /\ UNCHANGED allocation
      /\ Settlement(row.splits)
  BY DEF PaymentCreated
<1>2. /\ payment'[p] = row /\ \A q \in Payments \ {p} : payment'[q] = payment[q]
      /\ p \in Items \cap Uses /\ p \notin Bills
  BY <1>1, IdsDistinct DEF TypeOK, Items, Uses
<1>3. PICK splits \in [Bills -> Split] : splits = row.splits
  BY <1>1 DEF Settlement
<1>4. PICK sum \in Nat : sum = Total(Bills, TransactionsOf(splits))
  BY SplitSums
<1>5. \A b \in Bills : splits[b].transaction \in Nat
  BY DEF Split
<1>6. \A x \in Items :
        /\ ItemsTaken[p][x] = 0
        /\ ItemsTaken'[p][x] = IF x = p THEN sum
                               ELSE IF x \in Bills THEN splits[x].transaction ELSE 0
  <2>1. \A x \in Items : TakenByPayment(p, x) = 0
    BY <1>1 DEF TakenByPayment
  <2>2. \A x \in Items :
          TakenByPayment(p, x)' = IF x = p THEN sum
                                  ELSE IF x \in Bills THEN splits[x].transaction ELSE 0
    BY <1>1, <1>2, <1>3, <1>4 DEF TakenByPayment, TransactionsOf
  <2>3. QED
    BY <2>1, <2>2, UseValues, UseValuesNext DEF ValuesOfUses
<1>7. /\ ItemState[p] = "NONE" /\ ItemState'[p] = "OPEN"
      /\ ItemAmount'[p] = row.transactionAmountPaid
      /\ ItemRemaining'[p] = row.transactionUnappliedAmount
  BY <1>1, <1>2, ItemValues, ItemValuesNext DEF ValuesOfItems, StateOf
<1>8. ItemRemaining'[p] = ItemAmount'[p] - ItemsTaken'[p][p]
  <2>1. row.transactionAmountPaid \in Nat /\ row.transactionUnappliedAmount \in Nat
    BY DEF Payment
  <2>2. row.transactionAmountPaid = row.transactionUnappliedAmount + sum
    BY <1>1, <1>3, <1>4
  <2>3. ItemsTaken'[p][p] = sum
    BY <1>2, <1>6
  <2>4. QED
    BY <1>7, <2>1, <2>2, <2>3
<1>9. \A v \in Uses \ {p} : Abstract!SameUse(v)
  BY <1>1, <1>2, KeptUses DEF Uses
<1>10. ASSUME NEW x \in Items \ {p}
       PROVE  /\ ItemState'[x] = ItemState[x] /\ ItemAmount'[x] = ItemAmount[x]
              /\ ItemsTaken'[p][x] > 0 => ItemState[x] = "OPEN"
              /\ ItemRemaining'[x] = ItemRemaining[x] - ItemsTaken'[p][x]
  <2>1. CASE x \in Bills
    BY <1>1, <1>3, <1>6, <2>1, SettledItems
  <2>2. CASE x \notin Bills
    <3>1. Abstract!SameItem(x) /\ ItemsTaken'[p][x] = 0
      BY <1>2, <1>6, <2>2, KeptItems DEF Items
    <3>2. ItemRemaining[x] \in Nat
      BY AbstractTypes DEF Abstract!TypeOK
    <3>3. QED
      BY <3>1, <3>2 DEF Abstract!SameItem
  <2>3. QED
    BY <2>1, <2>2
<1>11. Abstract!TypeOK /\ Abstract!TypeOK'
  BY AbstractTypes, AbstractTypesNext
<1>12. \A x \in Items : ItemsTaken[p][x] = 0
  BY <1>6
<1>13. Abstract!Next
  BY <1>2, <1>7, <1>8, <1>9, <1>10, <1>11, <1>12, Abstract!OpensTaking
<1>14. QED
  BY <1>13, AbstractSteps

\* Voiding it gives that use back.
LEMMA VoidedMapped ==
    ASSUME TypeOK, TypeOK', NEW p \in Payments, NEW row \in Payment, PaymentVoided(p, row)
    PROVE  Subledger!Next
<1>1. /\ payment[p].status = "POSTED" /\ row = [payment[p] EXCEPT !.status = "VOIDED"]
      /\ payment' = [payment EXCEPT ![p] = row] /\ UNCHANGED allocation
      /\ Restoration(payment[p].splits)
  BY DEF PaymentVoided
<1>2. /\ payment'[p] = row /\ \A q \in Payments \ {p} : payment'[q] = payment[q]
      /\ p \in Items \cap Uses /\ p \notin Bills
  BY <1>1, IdsDistinct DEF TypeOK, Items, Uses
<1>3. PICK splits \in [Bills -> Split] : splits = payment[p].splits
  BY <1>1 DEF Restoration
<1>4. row.status = "VOIDED"
  <2>1. payment[p] \in Payment
    BY RowTypes
  <2>2. QED
    BY <1>1, <2>1 DEF Payment
<1>5. PICK sum \in Nat : sum = Total(Bills, TransactionsOf(splits))
  BY SplitSums
<1>6. \A x \in Items :
        /\ ItemsTaken'[p][x] = 0
        /\ ItemsTaken[p][x] = IF x = p THEN sum
                              ELSE IF x \in Bills THEN splits[x].transaction ELSE 0
  <2>1. \A x \in Items : TakenByPayment(p, x)' = 0
    BY <1>2, <1>4 DEF TakenByPayment
  <2>2. \A x \in Items :
          TakenByPayment(p, x) = IF x = p THEN sum
                                 ELSE IF x \in Bills THEN splits[x].transaction ELSE 0
    BY <1>1, <1>3, <1>5 DEF TakenByPayment, TransactionsOf
  <2>3. QED
    BY <2>1, <2>2, UseValues, UseValuesNext DEF ValuesOfUses
<1>7. /\ ItemState[p] = "OPEN" /\ ItemState'[p] = "CLOSED"
      /\ ItemAmount'[p] = 0 /\ ItemRemaining'[p] = 0
  <2>1. ValuesOfItems /\ ValuesOfItems'
    BY ItemValues, ItemValuesNext
  <2>2. payment'[p].status = "VOIDED"
    BY <1>2, <1>4
  <2>3. payment[p].status = "POSTED"
    BY <1>1
  <2>4. ItemState[p] = "OPEN"
    BY <1>2, <2>1, <2>3 DEF ValuesOfItems, StateOf
  <2>5. ItemState'[p] = "CLOSED" /\ ItemAmount'[p] = 0 /\ ItemRemaining'[p] = 0
    BY <1>2, <2>1, <2>2 DEF ValuesOfItems, StateOf
  <2>6. QED
    BY <2>4, <2>5
<1>8. \A v \in Uses \ {p} : Abstract!SameUse(v)
  BY <1>1, <1>2, KeptUses DEF Uses
<1>9. ASSUME NEW x \in Items \ {p}
      PROVE  /\ ItemState'[x] = ItemState[x] /\ ItemAmount'[x] = ItemAmount[x]
             /\ ItemsTaken[p][x] > 0 => ItemState[x] = "OPEN"
             /\ ItemRemaining'[x] = ItemRemaining[x] + ItemsTaken[p][x]
  <2>1. CASE x \in Bills
    BY <1>1, <1>3, <1>6, <2>1, RestoredItems
  <2>2. CASE x \notin Bills
    <3>1. Abstract!SameItem(x) /\ ItemsTaken[p][x] = 0
      BY <1>2, <1>6, <2>2, KeptItems DEF Items
    <3>2. ItemRemaining[x] \in Nat
      BY AbstractTypes DEF Abstract!TypeOK
    <3>3. QED
      BY <3>1, <3>2 DEF Abstract!SameItem
  <2>3. QED
    BY <2>1, <2>2
<1>10. \A x \in Items : /\ ItemsTaken'[p][x] = 0
                        /\ ItemsTaken[p][x] > 0 => ItemState[x] = "OPEN"
  BY <1>6, <1>7, <1>9
<1>11. Abstract!TypeOK /\ Abstract!TypeOK'
  BY AbstractTypes, AbstractTypesNext
<1>12. Abstract!Next
  BY <1>2, <1>7, <1>8, <1>9, <1>10, <1>11, Abstract!ClosesGivingBack
<1>13. QED
  BY <1>12, AbstractSteps

\* What a change of unapplied amounts leaves of a payment.
LEMMA UnappliedKeeps ==
    ASSUME NEW row \in Payment, NEW x \in Int, NEW y \in Int,
           NEW paid, paid = Unapplied(row, x, y)
    PROVE  /\ paid.status = row.status /\ paid.splits = row.splits
           /\ paid.transactionAmountPaid = row.transactionAmountPaid
           /\ paid.transactionUnappliedAmount = y
<1>2. paid = [row EXCEPT !.unappliedAmount = x, !.transactionUnappliedAmount = y]
  BY DEF Unapplied
<1>3. paid.status = row.status
  BY <1>2 DEF Payment
<1>4. paid.splits = row.splits
  BY <1>2 DEF Payment
<1>5. paid.transactionAmountPaid = row.transactionAmountPaid
  BY <1>2 DEF Payment
<1>6. paid.transactionUnappliedAmount = y
  BY <1>2 DEF Payment
<1>7. QED
  BY <1>3, <1>4, <1>5, <1>6

\* The mapping of a later allocation: one bill and one payment change by what
\* it takes.
LEMMA PaymentItems ==
    ASSUME TypeOK, TypeOK', NEW p \in Payments, payment[p].status = "POSTED",
           payment'[p].status = "POSTED",
           payment'[p].transactionAmountPaid = payment[p].transactionAmountPaid
    PROVE  /\ ItemState[p] = "OPEN" /\ ItemState'[p] = "OPEN" /\ ItemAmount'[p] = ItemAmount[p]
           /\ ItemRemaining[p] = payment[p].transactionUnappliedAmount
           /\ ItemRemaining'[p] = payment'[p].transactionUnappliedAmount
  BY ItemValues, ItemValuesNext DEF ValuesOfItems, StateOf

\* A later allocation is one use taking from its bill and its payment.
LEMMA AppliedMapped ==
    ASSUME TypeOK, TypeOK', NEW u \in Allocations, NEW row \in Allocation,
           NEW p \in Payments, NEW paid \in Payment, AllocationApplied(u, row, p, paid)
    PROVE  [Subledger!Next]_(Subledger!vars)
<1>1. /\ allocation[u].status = "NONE" /\ row.status = "ACTIVE" /\ row.payment = p
      /\ row.bill \in Bills /\ payment[p].status = "POSTED"
      /\ paid = Unapplied(payment[p], payment[p].unappliedAmount - row.split.settlement,
                          payment[p].transactionUnappliedAmount - row.split.transaction)
      /\ payment' = [payment EXCEPT ![p] = paid]
      /\ allocation' = [allocation EXCEPT ![u] = row]
      /\ Settlement(OneSplit(row.bill, row.split))
  BY DEF AllocationApplied, PaymentClaim
<1>2. /\ payment'[p] = paid /\ \A q \in Payments \ {p} : payment'[q] = payment[q]
      /\ allocation'[u] = row /\ \A v \in Allocations \ {u} : allocation'[v] = allocation[v]
      /\ u \in Uses /\ p \in Items /\ p \notin Bills
  BY <1>1, IdsDistinct DEF TypeOK, Items, Uses
<1>3. PICK b \in Bills : b = row.bill
  BY <1>1
<1>4. PICK n \in Nat : n = row.split.transaction
  BY DEF Allocation, Split
<1>5. payment[p] \in Payment /\ payment[p].transactionUnappliedAmount \in Nat
        /\ payment[p].unappliedAmount \in Nat /\ row.split.settlement \in Nat
  BY RowTypes DEF Allocation, Split
<1>6. /\ paid.status = "POSTED" /\ paid.splits = payment[p].splits
      /\ paid.transactionAmountPaid = payment[p].transactionAmountPaid
      /\ paid.transactionUnappliedAmount = payment[p].transactionUnappliedAmount - n
  <2> DEFINE unapplied == payment[p].unappliedAmount - row.split.settlement
             transactionUnapplied == payment[p].transactionUnappliedAmount - row.split.transaction
  <2>1. unapplied \in Int /\ transactionUnapplied \in Int
    BY <1>4, <1>5
  <2>2. paid = Unapplied(payment[p], unapplied, transactionUnapplied)
    BY <1>1
  <2> HIDE DEF unapplied, transactionUnapplied
  <2>3. /\ paid.status = payment[p].status /\ paid.splits = payment[p].splits
        /\ paid.transactionAmountPaid = payment[p].transactionAmountPaid
        /\ paid.transactionUnappliedAmount = transactionUnapplied
    BY <1>5, <2>1, <2>2, UnappliedKeeps
  <2>4. QED
    BY <1>1, <1>4, <2>3 DEF transactionUnapplied
<1>7. \A x \in Items :
        /\ ItemsTaken[u][x] = 0
        /\ ItemsTaken'[u][x] = IF x = p \/ x = b THEN n ELSE 0
  <2>1. \A x \in Items : TakenByAllocation(u, x) = 0
    BY <1>1 DEF TakenByAllocation
  <2>2. \A x \in Items : TakenByAllocation(u, x)' = IF x = p \/ x = b THEN n ELSE 0
    BY <1>1, <1>2, <1>3, <1>4 DEF TakenByAllocation
  <2>3. QED
    BY <2>1, <2>2, UseValues, UseValuesNext DEF ValuesOfUses
<1>8. /\ ItemState[p] = "OPEN" /\ ItemState'[p] = "OPEN" /\ ItemAmount'[p] = ItemAmount[p]
      /\ ItemRemaining'[p] = ItemRemaining[p] - n
  BY <1>1, <1>2, <1>6, PaymentItems
<1>9. \A v \in Uses \ {u} : Abstract!SameUse(v)
  <2>1. \A q \in Payments : /\ payment'[q].status = payment[q].status
                            /\ payment'[q].splits = payment[q].splits
    BY <1>1, <1>2, <1>6
  <2>2. QED
    BY <1>2, <2>1, KeptUses DEF Uses
<1>10. ASSUME NEW x \in Items
       PROVE  /\ ItemState'[x] = ItemState[x] /\ ItemAmount'[x] = ItemAmount[x]
              /\ ItemsTaken'[u][x] > 0 => ItemState[x] = "OPEN"
              /\ ItemRemaining'[x] = ItemRemaining[x] - ItemsTaken'[u][x]
  <2>1. CASE x \in Bills
    <3>1. x # p
      BY <1>2, <2>1
    <3>2. OneSplit(row.bill, row.split)[x].transaction = IF x = b THEN n ELSE 0
      BY <1>3, <1>4, <2>1 DEF OneSplit, NoSplit
    <3>3. ItemsTaken'[u][x] = OneSplit(row.bill, row.split)[x].transaction
      BY <1>7, <3>1, <3>2
    <3>4. QED
      BY <1>1, <2>1, <3>3, SettledItems
  <2>2. CASE x = p
    BY <1>7, <1>8, <2>2
  <2>3. CASE x \notin Bills /\ x # p
    <3>1. Abstract!SameItem(x)
      BY <1>2, <2>3, KeptItems DEF Items
    <3>2. ItemsTaken'[u][x] = 0
      BY <1>7, <2>3
    <3>3. ItemRemaining[x] \in Nat
      BY AbstractTypes DEF Abstract!TypeOK
    <3>4. QED
      BY <3>1, <3>2, <3>3 DEF Abstract!SameItem
  <2>4. QED
    BY <2>1, <2>2, <2>3
<1>11. Abstract!TypeOK /\ Abstract!TypeOK'
  BY AbstractTypes, AbstractTypesNext
<1>12. [Abstract!Next]_(Abstract!vars)
  BY <1>2, <1>7, <1>9, <1>10, <1>11, Abstract!Takes
<1>13. QED
  BY <1>12, AbstractSteps

\* Its reversal gives both back.
LEMMA ReversedMapped ==
    ASSUME TypeOK, TypeOK', References, NEW u \in Allocations, NEW row \in Allocation,
           NEW p \in Payments, NEW paid \in Payment, AllocationReversed(u, row, p, paid)
    PROVE  [Subledger!Next]_(Subledger!vars)
<1>1. /\ allocation[u].status = "ACTIVE" /\ allocation[u].payment = p
      /\ payment[p].status = "POSTED" /\ row = [allocation[u] EXCEPT !.status = "REVERSED"]
      /\ paid = Unapplied(payment[p], payment[p].unappliedAmount + row.split.settlement,
                          payment[p].transactionUnappliedAmount + row.split.transaction)
      /\ payment' = [payment EXCEPT ![p] = paid]
      /\ allocation' = [allocation EXCEPT ![u] = row]
      /\ Restoration(OneSplit(row.bill, row.split))
  BY DEF AllocationReversed
<1>2. /\ payment'[p] = paid /\ \A q \in Payments \ {p} : payment'[q] = payment[q]
      /\ allocation'[u] = row /\ \A v \in Allocations \ {u} : allocation'[v] = allocation[v]
      /\ u \in Uses /\ p \in Items /\ p \notin Bills
  BY <1>1, IdsDistinct DEF TypeOK, Items, Uses
<1>3. /\ row.status = "REVERSED" /\ row.bill = allocation[u].bill
      /\ row.split = allocation[u].split
  <2>1. allocation[u] \in Allocation
    BY RowTypes
  <2>2. QED
    BY <1>1, <2>1 DEF Allocation
<1>4. PICK b \in Bills : b = row.bill
  BY <1>1, <1>3 DEF References
<1>5. PICK n \in Nat : n = row.split.transaction
  BY DEF Allocation, Split
<1>6. payment[p] \in Payment /\ payment[p].transactionUnappliedAmount \in Nat
        /\ payment[p].unappliedAmount \in Nat /\ row.split.settlement \in Nat
  BY RowTypes DEF Allocation, Split
<1>7. /\ paid.status = "POSTED" /\ paid.splits = payment[p].splits
      /\ paid.transactionAmountPaid = payment[p].transactionAmountPaid
      /\ paid.transactionUnappliedAmount = payment[p].transactionUnappliedAmount + n
  <2> DEFINE unapplied == payment[p].unappliedAmount + row.split.settlement
             transactionUnapplied == payment[p].transactionUnappliedAmount + row.split.transaction
  <2>1. unapplied \in Int /\ transactionUnapplied \in Int
    BY <1>5, <1>6
  <2>2. paid = Unapplied(payment[p], unapplied, transactionUnapplied)
    BY <1>1
  <2> HIDE DEF unapplied, transactionUnapplied
  <2>3. /\ paid.status = payment[p].status /\ paid.splits = payment[p].splits
        /\ paid.transactionAmountPaid = payment[p].transactionAmountPaid
        /\ paid.transactionUnappliedAmount = transactionUnapplied
    BY <1>6, <2>1, <2>2, UnappliedKeeps
  <2>4. QED
    BY <1>1, <1>5, <2>3 DEF transactionUnapplied
<1>8. \A x \in Items :
        /\ ItemsTaken'[u][x] = 0
        /\ ItemsTaken[u][x] = IF x = p \/ x = b THEN n ELSE 0
  <2>1. \A x \in Items : TakenByAllocation(u, x)' = 0
    BY <1>2, <1>3 DEF TakenByAllocation
  <2>2. \A x \in Items : TakenByAllocation(u, x) = IF x = p \/ x = b THEN n ELSE 0
    BY <1>1, <1>3, <1>4, <1>5 DEF TakenByAllocation
  <2>3. QED
    BY <2>1, <2>2, UseValues, UseValuesNext DEF ValuesOfUses
<1>9. /\ ItemState[p] = "OPEN" /\ ItemState'[p] = "OPEN" /\ ItemAmount'[p] = ItemAmount[p]
      /\ ItemRemaining'[p] = ItemRemaining[p] + n
  <2>1. payment[p].status = "POSTED" /\ payment'[p].status = "POSTED"
    BY <1>1, <1>2, <1>7
  <2>2. payment'[p].transactionAmountPaid = payment[p].transactionAmountPaid
    BY <1>2, <1>7
  <2>3. payment'[p].transactionUnappliedAmount = payment[p].transactionUnappliedAmount + n
    BY <1>2, <1>7
  <2>4. QED
    BY <2>1, <2>2, <2>3, PaymentItems
<1>10. \A v \in Uses \ {u} : Abstract!SameUse(v)
  <2>1. \A q \in Payments : /\ payment'[q].status = payment[q].status
                            /\ payment'[q].splits = payment[q].splits
    BY <1>1, <1>2, <1>7
  <2>2. QED
    BY <1>2, <2>1, KeptUses DEF Uses
<1>11. ASSUME NEW x \in Items
       PROVE  /\ ItemState'[x] = ItemState[x] /\ ItemAmount'[x] = ItemAmount[x]
              /\ ItemsTaken[u][x] > 0 => ItemState[x] = "OPEN"
              /\ ItemRemaining'[x] = ItemRemaining[x] + ItemsTaken[u][x]
  <2>1. CASE x \in Bills
    <3>1. x # p
      BY <1>2, <2>1
    <3>2. OneSplit(row.bill, row.split)[x].transaction = IF x = b THEN n ELSE 0
      BY <1>4, <1>5, <2>1 DEF OneSplit, NoSplit
    <3>3. ItemsTaken[u][x] = OneSplit(row.bill, row.split)[x].transaction
      BY <1>8, <3>1, <3>2
    <3>4. QED
      BY <1>1, <2>1, <3>3, RestoredItems
  <2>2. CASE x = p
    BY <1>8, <1>9, <2>2
  <2>3. CASE x \notin Bills /\ x # p
    <3>1. Abstract!SameItem(x)
      BY <1>2, <2>3, KeptItems DEF Items
    <3>2. ItemsTaken[u][x] = 0
      BY <1>8, <2>3
    <3>3. ItemRemaining[x] \in Nat
      BY AbstractTypes DEF Abstract!TypeOK
    <3>4. QED
      BY <3>1, <3>2, <3>3 DEF Abstract!SameItem
  <2>4. QED
    BY <2>1, <2>2, <2>3
<1>12. Abstract!TypeOK /\ Abstract!TypeOK'
  BY AbstractTypes, AbstractTypesNext
<1>13. [Abstract!Next]_(Abstract!vars)
  BY <1>2, <1>8, <1>10, <1>11, <1>12, Abstract!GivesBack
<1>14. QED
  BY <1>13, AbstractSteps

-----------------------------------------------------------------------------
\* The initial rows map to no items and no uses.
LEMMA InitMapped == Init => Subledger!Init
<1> SUFFICES ASSUME Init
             PROVE  Subledger!Init
  OBVIOUS
<1>1. TypeOK
  BY InitTypes DEF TypeInv
<1>2. /\ \A b \in Bills : bill[b].status = "NONE"
      /\ \A p \in Payments : payment[p].status = "NONE"
      /\ \A u \in Allocations : allocation[u].status = "NONE"
  BY DEF Init, NoBill
<1>3. \A x \in Items : ItemState[x] = "NONE" /\ ItemAmount[x] = 0 /\ ItemRemaining[x] = 0
  BY <1>1, <1>2, ItemValues DEF ValuesOfItems, StateOf, Items
<1>4. \A u \in Uses, x \in Items : ItemsTaken[u][x] = 0
  BY <1>2, UseValues DEF ValuesOfUses, Uses, TakenByPayment, TakenByAllocation
<1>5. Abstract!TypeOK
  BY <1>1, AbstractTypes
<1>6. ItemState = [x \in Items |-> "NONE"]
  BY <1>3, <1>5 DEF Abstract!TypeOK
<1>7. ItemAmount = [x \in Items |-> 0] /\ ItemRemaining = [x \in Items |-> 0]
  BY <1>3, <1>5 DEF Abstract!TypeOK
<1>8. ItemsTaken = [u \in Uses |-> [x \in Items |-> 0]]
  <2>1. \A u \in Uses : ItemsTaken[u] = [x \in Items |-> 0]
    BY <1>4, <1>5 DEF Abstract!TypeOK
  <2>2. QED
    BY <1>5, <2>1 DEF Abstract!TypeOK
<1>9. QED
  BY <1>6, <1>7, <1>8 DEF Subledger!Init, Subledger!Nothing

\* Debit notes and revaluations are not seen in the transaction currency.
LEMMA DebitMapped ==
    ASSUME TypeOK, TypeOK', DebitChange \/ RevaluationNext \/ UNCHANGED rows
    PROVE  UNCHANGED Subledger!vars
<1>1. UNCHANGED <<payment, allocation>>
  BY DEF DebitChange, FinalizeDebitNote, ApplyDebitNote, DebitNoteVoided,
         ReverseDebitAllocation, RevaluationNext, PreviewRevaluation, ReviewRevaluation,
         PostRevaluation, ReverseRevaluation, rows
<1>2. bill' = bill \/ \E b, due : bill' = [bill EXCEPT ![b].balanceDue = due]
  <2>1. ASSUME NEW k \in DebitAllocations, NEW d, NEW b, NEW amount,
               ApplyDebitNote(k, d, b, amount)
        PROVE  bill' = [bill EXCEPT ![b].balanceDue = bill[b].balanceDue - amount]
    BY <2>1 DEF ApplyDebitNote
  <2>2. ASSUME NEW k \in DebitAllocations, ReverseDebitAllocation(k)
        PROVE  bill' = [bill EXCEPT ![debitAllocation[k].bill].balanceDue
                          = bill[debitAllocation[k].bill].balanceDue + debitAllocation[k].amount]
    BY <2>2 DEF ReverseDebitAllocation
  <2>3. RevaluationNext \/ UNCHANGED rows => bill' = bill
    BY DEF RevaluationNext, PreviewRevaluation, ReviewRevaluation, PostRevaluation,
           ReverseRevaluation, rows
  <2>4. ASSUME NEW d \in DebitNotes, DebitNoteVoided(d)
               \/ \E total \in DebitTotals : FinalizeDebitNote(d, total)
        PROVE  bill' = bill
    BY <2>4 DEF DebitNoteVoided, FinalizeDebitNote
  <2>5. QED
    BY <2>1, <2>2, <2>3, <2>4 DEF DebitChange
<1>3. \A b \in Bills : /\ bill'[b].status = bill[b].status
                       /\ bill'[b].transactionTotal = bill[b].transactionTotal
                       /\ bill'[b].transactionBalanceDue = bill[b].transactionBalanceDue
  <2>1. ASSUME NEW c, NEW due, bill' = [bill EXCEPT ![c].balanceDue = due], NEW b \in Bills
        PROVE  /\ bill'[b].status = bill[b].status
               /\ bill'[b].transactionTotal = bill[b].transactionTotal
               /\ bill'[b].transactionBalanceDue = bill[b].transactionBalanceDue
    <3>1. bill[b] \in Bill /\ bill \in [Bills -> Bill]
      BY RowTypes DEF TypeOK
    <3>2. bill'[b] = bill[b] \/ bill'[b] = [bill[b] EXCEPT !.balanceDue = due]
      BY <2>1, <3>1
    <3>3. QED
      BY <3>1, <3>2 DEF Bill
  <2>2. QED
    BY <1>2, <2>1
<1>4. QED
  BY <1>1, <1>3, UnseenMapped

\* Every change of the rows is a step of the items or leaves them.
LEMMA RowsMapped ==
    ASSUME TypeInv, TypeInv', RowChange
    PROVE  [Subledger!Next]_(Subledger!vars)
<1>1. TypeOK /\ TypeOK' /\ References
  BY DEF TypeInv
<1>2. CASE BillChange
  BY <1>1, <1>2, BillMapped DEF BillChange
<1>3. CASE PaymentChange
  BY <1>1, <1>3, CreatedMapped, VoidedMapped DEF PaymentChange
<1>4. CASE AllocationChange
  BY <1>1, <1>4, AppliedMapped, ReversedMapped DEF AllocationChange
<1>5. CASE DebitChange \/ RevaluationNext \/ UNCHANGED rows
  BY <1>1, <1>5, DebitMapped
<1>6. QED
  BY <1>2, <1>3, <1>4, <1>5 DEF RowChange

\* In the transaction currency every handler is one exact step of the open
\* items, for any rates, revaluations, debit notes and stale reads.
THEOREM OpenItemsImplemented == Spec => ImplementsOpenItems
<1>1. Init => TypeInv /\ Subledger!Init
  BY InitTypes, InitMapped
<1>2. TypeInv /\ [Next]_vars => TypeInv' /\ [Subledger!Next]_(Subledger!vars)
  BY StepTypes, RowsMapped
<1>3. QED
  BY <1>1, <1>2, PTL DEF Spec, ImplementsOpenItems, Subledger!Spec

==============================================================================
