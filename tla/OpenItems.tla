----------------------------- MODULE OpenItems -----------------------------
(***************************************************************************)
(* What a subledger of open items promises.  An item (an invoice, a        *)
(* payment, a credit note) opens with an amount and closes once.  A use (an*)
(* allocation, a refund) takes an amount from each of some open items, at  *)
(* once and never more than remains of them, and is given back once, in    *)
(* full, while they are open.  A payment is both: it opens with the use of *)
(* its direct allocations, and closing it gives that use back.             *)
(*                                                                         *)
(* Nothing here is read before it is acted on.  Receivables and Payables   *)
(* implement this specification with handlers that decide on stale reads   *)
(* and re-check in conditional updates.  The amounts of an action are free *)
(* choices; Next takes them from the values it leads to.                   *)
(***************************************************************************)
EXTENDS Integers, Totals

CONSTANTS
    Items,
    Uses

VARIABLES
    state,      \* where an item is in its life
    amount,     \* what an open item opened with
    remaining,  \* what is left of it
    taken       \* what each use in force takes from each item

vars == <<state, amount, remaining, taken>>

Nothing == [x \in Items |-> 0]

TypeOK ==
    /\ state \in [Items -> {"NONE", "OPEN", "CLOSED"}]
    /\ amount \in [Items -> Nat]
    /\ remaining \in [Items -> Nat]
    /\ taken \in [Uses -> [Items -> Nat]]

Init ==
    /\ state = [x \in Items |-> "NONE"]
    /\ amount = Nothing
    /\ remaining = Nothing
    /\ taken = [u \in Uses |-> Nothing]

-----------------------------------------------------------------------------
Open(x, n) ==
    /\ state[x] = "NONE"
    /\ state' = [state EXCEPT ![x] = "OPEN"]
    /\ n \in Nat
    /\ amount' = [amount EXCEPT ![x] = n]
    /\ remaining' = [remaining EXCEPT ![x] = n]
    /\ UNCHANGED taken

\* Uses of a closed item stay in force for the other items they take from.
Close(x) ==
    /\ state[x] # "CLOSED"
    /\ state' = [state EXCEPT ![x] = "CLOSED"]
    /\ amount' = [amount EXCEPT ![x] = 0]
    /\ remaining' = [remaining EXCEPT ![x] = 0]
    /\ UNCHANGED taken

InForce(u) == \E x \in Items : taken[u][x] > 0

Take(u, take) ==
    /\ ~InForce(u)
    /\ \E x \in Items : take[x] > 0
    /\ take \in [Items -> Nat]
    /\ \A x \in Items : take[x] > 0 =>
         state[x] = "OPEN" /\ take[x] <= remaining[x]
    /\ remaining' = [x \in Items |-> remaining[x] - take[x]]
    /\ taken' = [taken EXCEPT ![u] = take]
    /\ UNCHANGED <<state, amount>>

GiveBack(u) ==
    /\ InForce(u)
    /\ \A x \in Items : taken[u][x] > 0 => state[x] = "OPEN"
    /\ remaining' = [x \in Items |-> remaining[x] + taken[u][x]]
    /\ taken' = [taken EXCEPT ![u] = Nothing]
    /\ UNCHANGED <<state, amount>>

\* x opens with a use of its own, also of itself.
OpenTaking(x, n, take) ==
    /\ state[x] = "NONE"
    /\ state' = [state EXCEPT ![x] = "OPEN"]
    /\ n \in Nat
    /\ ~InForce(x)
    /\ take \in [Items -> Nat]
    /\ take[x] <= n
    /\ \A y \in Items \ {x} : take[y] > 0 =>
         state[y] = "OPEN" /\ take[y] <= remaining[y]
    /\ amount' = [amount EXCEPT ![x] = n]
    /\ remaining' = [y \in Items |->
         IF y = x THEN n - take[x] ELSE remaining[y] - take[y]]
    /\ taken' = [taken EXCEPT ![x] = take]

CloseGivingBack(x) ==
    /\ state[x] = "OPEN"
    /\ state' = [state EXCEPT ![x] = "CLOSED"]
    /\ \A y \in Items : taken[x][y] > 0 => state[y] = "OPEN"
    /\ amount' = [amount EXCEPT ![x] = 0]
    /\ remaining' = [y \in Items |->
         IF y = x THEN 0 ELSE remaining[y] + taken[x][y]]
    /\ taken' = [taken EXCEPT ![x] = Nothing]

Next ==
    \/ \E x \in Items : Open(x, amount'[x]) \/ Close(x)
    \/ \E u \in Uses : Take(u, taken'[u]) \/ GiveBack(u)
    \/ \E x \in Items \cap Uses :
         OpenTaking(x, amount'[x], taken'[x]) \/ CloseGivingBack(x)

Spec == Init /\ [][Next]_vars

-----------------------------------------------------------------------------
\* What uses take from an open item and what remains of it make up its amount;
\* no use takes from an item before it opens.
Conserved ==
    \A x \in Items :
      /\ state[x] = "OPEN" =>
           remaining[x] + Total(Uses, [u \in Uses |-> taken[u][x]]) = amount[x]
      /\ state[x] = "NONE" => \A u \in Uses : taken[u][x] = 0
=============================================================================
