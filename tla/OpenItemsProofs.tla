-------------------------- MODULE OpenItemsProofs --------------------------
(***************************************************************************)
(* The abstract subledger conserves, for any items and finitely many uses. *)
(* A specification that implements it inherits the law through its         *)
(* refinement mapping.                                                     *)
(*                                                                         *)
(* The law is inductive together with the types: a use that is in force    *)
(* takes nothing from an item that has not opened, so an item opens with   *)
(* an empty sum, and a use in force is given back before it takes again,   *)
(* so a sum grows by what is taken and by nothing else.                    *)
(***************************************************************************)
EXTENDS OpenItems, TotalsProofs

\* What each use takes from x.
From(t, x) == [u \in Uses |-> t[u][x]]

\* The law of one item.
Law(x) ==
    /\ state[x] = "OPEN" =>
         remaining[x] + Total(Uses, From(taken, x)) = amount[x]
    /\ state[x] = "NONE" => \A u \in Uses : taken[u][x] = 0

\* The conjuncts of Conserved, item by item.
LEMMA ConservedByItem == Conserved <=> \A x \in Items : Law(x)
  BY DEF Conserved, Law, From

\* What uses take from an item is a family of naturals.
LEMMA FromType ==
    ASSUME NEW t \in [Uses -> [Items -> Nat]], NEW x \in Items
    PROVE  From(t, x) \in [Uses -> Nat]
  BY DEF From

\* A use that begins, or ends, changes the sum of an item by what it takes.
LEMMA FromUpdate ==
    ASSUME IsFiniteSet(Uses), NEW t \in [Uses -> [Items -> Nat]],
           NEW u \in Uses, NEW take \in [Items -> Nat], NEW x \in Items,
           NEW after, after = [t EXCEPT ![u] = take]
    PROVE  /\ Total(Uses, From(after, x))
                = Total(Uses, From(t, x)) - t[u][x] + take[x]
           /\ Total(Uses, From(t, x)) \in Nat
<1> DEFINE f == From(t, x)
           g == From(after, x)
<1>1. after \in [Uses -> [Items -> Nat]]
  OBVIOUS
<1>2. f \in [Uses -> Nat] /\ g \in [Uses -> Nat]
  BY <1>1, FromType
<1>3. f[u] = t[u][x] /\ g[u] = take[x]
  BY DEF From
<1>4. \A y \in Uses \ {u} : f[y] = g[y]
  BY DEF From
<1> HIDE DEF f, g
<1>5. Total(Uses, g) = Total(Uses, f) - f[u] + g[u]
  <2>1. IsFiniteSet(Uses) /\ u \in Uses
    OBVIOUS
  <2>2. QED
    BY ONLY <1>2, <1>4, <2>1, TotalUpdate
<1>6. Total(Uses, f) \in Nat
  BY <1>2, TotalType
<1>7. QED
  BY <1>3, <1>5, <1>6 DEF f, g

-----------------------------------------------------------------------------

\* The start is typed.
LEMMA InitTypes == Init => TypeOK
  BY DEF Init, TypeOK, Nothing

\* Opening and closing touch one item and no use.
LEMMA OpenStep ==
    ASSUME IsFiniteSet(Uses), TypeOK, \A x \in Items : Law(x),
           NEW x \in Items, NEW n, Open(x, n)
    PROVE  TypeOK' /\ \A y \in Items : Law(y)'
<1>1. TypeOK'
  BY DEF Open, TypeOK
<1>2. ASSUME NEW y \in Items
      PROVE  Law(y)'
  <2>1. CASE y = x
    <3>1. /\ state[x] = "NONE" /\ state'[x] = "OPEN" /\ n \in Nat
          /\ remaining'[x] = n /\ amount'[x] = n /\ taken' = taken
      BY DEF Open, TypeOK
    <3>2. From(taken, x) \in [Uses -> Nat]
      BY FromType DEF TypeOK
    <3>3. \A u \in Uses : From(taken, x)[u] = 0
      BY <3>1 DEF Law, From
    <3>4. Total(Uses, From(taken, x)) = 0
      BY <3>2, <3>3, TotalZero
    <3>5. QED
      BY <2>1, <3>1, <3>4 DEF Law
  <2>2. CASE y # x
    <3>1. /\ state'[y] = state[y] /\ remaining'[y] = remaining[y]
          /\ amount'[y] = amount[y] /\ taken' = taken
      BY <2>2 DEF Open, TypeOK
    <3>2. QED
      BY <3>1 DEF Law
  <2>3. QED
    BY <2>1, <2>2
<1>3. QED
  BY <1>1, <1>2

\* Closing an item keeps the law of every item.
LEMMA CloseStep ==
    ASSUME TypeOK, \A x \in Items : Law(x), NEW x \in Items, Close(x)
    PROVE  TypeOK' /\ \A y \in Items : Law(y)'
<1>1. TypeOK'
  BY DEF Close, TypeOK
<1>2. ASSUME NEW y \in Items
      PROVE  Law(y)'
  <2>1. CASE y = x
    <3>1. state'[y] = "CLOSED"
      BY <2>1 DEF Close, TypeOK
    <3>2. QED
      BY <3>1 DEF Law
  <2>2. CASE y # x
    <3>1. /\ state'[y] = state[y] /\ remaining'[y] = remaining[y]
          /\ amount'[y] = amount[y] /\ taken' = taken
      BY <2>2 DEF Close, TypeOK
    <3>2. QED
      BY <3>1 DEF Law
  <2>3. QED
    BY <2>1, <2>2
<1>3. QED
  BY <1>1, <1>2

\* A use that takes from open items lowers each by what its sum gains.
LEMMA TakeStep ==
    ASSUME IsFiniteSet(Uses), TypeOK, \A x \in Items : Law(x),
           NEW u \in Uses, NEW take, Take(u, take)
    PROVE  TypeOK' /\ \A y \in Items : Law(y)'
<1>1. /\ take \in [Items -> Nat] /\ ~InForce(u)
      /\ \A x \in Items : take[x] > 0 => state[x] = "OPEN" /\ take[x] <= remaining[x]
      /\ remaining' = [x \in Items |-> remaining[x] - take[x]]
      /\ taken' = [taken EXCEPT ![u] = take]
      /\ state' = state /\ amount' = amount
  BY DEF Take
<1>2. taken \in [Uses -> [Items -> Nat]] /\ remaining \in [Items -> Nat]
  BY DEF TypeOK
<1>3. \A x \in Items : taken[u][x] = 0
  BY <1>1, <1>2 DEF InForce
<1>4. taken' \in [Uses -> [Items -> Nat]]
  BY <1>1, <1>2
<1>5. remaining' \in [Items -> Nat]
  BY <1>1, <1>2
<1>6. TypeOK'
  BY <1>1, <1>4, <1>5 DEF TypeOK
<1>7. ASSUME NEW y \in Items
      PROVE  Law(y)'
  <2>1. /\ Total(Uses, From(taken', y))
             = Total(Uses, From(taken, y)) - taken[u][y] + take[y]
        /\ Total(Uses, From(taken, y)) \in Nat
    <3>1. taken' = [taken EXCEPT ![u] = take] /\ u \in Uses
      BY <1>1
    <3>2. taken \in [Uses -> [Items -> Nat]] /\ take \in [Items -> Nat]
      BY <1>2, <1>1
    <3>3. QED
      BY <3>1, <3>2, FromUpdate
  <2>2. ASSUME state[y] = "OPEN"
        PROVE  remaining'[y] + Total(Uses, From(taken', y)) = amount[y]
    BY <1>1, <1>2, <1>3, <2>1, <2>2 DEF Law
  <2>3. ASSUME state[y] = "NONE", NEW v \in Uses
        PROVE  taken'[v][y] = 0
    BY <1>1, <1>2, <2>3 DEF Law
  <2>4. QED
    BY <1>1, <2>2, <2>3 DEF Law
<1>8. QED
  BY <1>6, <1>7

\* Giving a use back keeps the law of every item.
LEMMA GiveBackStep ==
    ASSUME IsFiniteSet(Uses), TypeOK, \A x \in Items : Law(x),
           NEW u \in Uses, GiveBack(u)
    PROVE  TypeOK' /\ \A y \in Items : Law(y)'
<1>1. /\ \A x \in Items : taken[u][x] > 0 => state[x] = "OPEN"
      /\ remaining' = [x \in Items |-> remaining[x] + taken[u][x]]
      /\ taken' = [taken EXCEPT ![u] = Nothing]
      /\ state' = state /\ amount' = amount
  BY DEF GiveBack
<1>2. taken \in [Uses -> [Items -> Nat]] /\ remaining \in [Items -> Nat]
  BY DEF TypeOK
<1>3. Nothing \in [Items -> Nat] /\ \A x \in Items : Nothing[x] = 0
  BY DEF Nothing
<1>4. taken' \in [Uses -> [Items -> Nat]]
  BY <1>1, <1>2, <1>3
<1>5. remaining' \in [Items -> Nat]
  BY <1>1, <1>2
<1>6. TypeOK'
  BY <1>1, <1>4, <1>5 DEF TypeOK
<1>7. ASSUME NEW y \in Items
      PROVE  Law(y)'
  <2>1. /\ Total(Uses, From(taken', y))
             = Total(Uses, From(taken, y)) - taken[u][y] + Nothing[y]
        /\ Total(Uses, From(taken, y)) \in Nat
    <3>1. taken' = [taken EXCEPT ![u] = Nothing] /\ u \in Uses
      BY <1>1
    <3>2. taken \in [Uses -> [Items -> Nat]] /\ Nothing \in [Items -> Nat]
      BY <1>2, <1>3
    <3>3. QED
      BY <3>1, <3>2, FromUpdate
  <2>2. ASSUME state[y] = "OPEN"
        PROVE  remaining'[y] + Total(Uses, From(taken', y)) = amount[y]
    BY <1>1, <1>2, <1>3, <2>1, <2>2 DEF Law
  <2>3. ASSUME state[y] = "NONE", NEW v \in Uses
        PROVE  taken'[v][y] = 0
    BY <1>1, <1>2, <1>3, <2>3 DEF Law
  <2>4. QED
    BY <1>1, <2>2, <2>3 DEF Law
<1>8. QED
  BY <1>6, <1>7

-----------------------------------------------------------------------------
\* An item that opens with a use of its own starts with that use alone.
LEMMA OpenTakingStep ==
    ASSUME IsFiniteSet(Uses), TypeOK, \A x \in Items : Law(x),
           NEW x \in Items \cap Uses, NEW n, NEW take, OpenTaking(x, n, take)
    PROVE  TypeOK' /\ \A y \in Items : Law(y)'
<1>1. /\ state[x] = "NONE" /\ state' = [state EXCEPT ![x] = "OPEN"]
      /\ n \in Nat /\ ~InForce(x) /\ take \in [Items -> Nat] /\ take[x] <= n
      /\ \A y \in Items \ {x} : take[y] > 0 => state[y] = "OPEN" /\ take[y] <= remaining[y]
      /\ amount' = [amount EXCEPT ![x] = n]
      /\ remaining' = [y \in Items |->
           IF y = x THEN n - take[x] ELSE remaining[y] - take[y]]
      /\ taken' = [taken EXCEPT ![x] = take]
  BY DEF OpenTaking
<1>2. /\ taken \in [Uses -> [Items -> Nat]] /\ remaining \in [Items -> Nat]
      /\ amount \in [Items -> Nat] /\ state \in [Items -> {"NONE", "OPEN", "CLOSED"}]
  BY DEF TypeOK
<1>3. \A y \in Items : taken[x][y] = 0
  BY <1>1, <1>2 DEF InForce
<1>4. taken' \in [Uses -> [Items -> Nat]]
  BY <1>1, <1>2
<1>5. remaining' \in [Items -> Nat]
  BY <1>1, <1>2
<1>6. TypeOK'
  BY <1>1, <1>2, <1>4, <1>5 DEF TypeOK
<1>7. ASSUME NEW y \in Items
      PROVE  Law(y)'
  <2>1. /\ Total(Uses, From(taken', y))
             = Total(Uses, From(taken, y)) - taken[x][y] + take[y]
        /\ Total(Uses, From(taken, y)) \in Nat
    <3>1. taken' = [taken EXCEPT ![x] = take] /\ x \in Uses
      BY <1>1
    <3>2. taken \in [Uses -> [Items -> Nat]] /\ take \in [Items -> Nat]
      BY <1>2, <1>1
    <3>3. QED
      BY <3>1, <3>2, FromUpdate
  <2>2. CASE y = x
    <3>1. From(taken, x) \in [Uses -> Nat] /\ \A v \in Uses : From(taken, x)[v] = 0
      BY <1>1, <1>2, FromType DEF Law, From
    <3>2. Total(Uses, From(taken, x)) = 0
      BY <3>1, TotalZero
    <3>3. state'[x] = "OPEN" /\ remaining'[x] = n - take[x] /\ amount'[x] = n
      BY <1>1, <1>2
    <3>4. take[x] \in Nat
      BY <1>1
    <3>5. QED
      BY <1>1, <1>3, <2>1, <2>2, <3>2, <3>3, <3>4 DEF Law
  <2>3. CASE y # x
    <3>1. /\ state'[y] = state[y] /\ amount'[y] = amount[y]
          /\ remaining'[y] = remaining[y] - take[y]
      BY <1>1, <1>2, <2>3
    <3>2. ASSUME state[y] = "OPEN"
          PROVE  remaining'[y] + Total(Uses, From(taken', y)) = amount[y]
      BY <1>1, <1>2, <1>3, <2>1, <3>1, <3>2 DEF Law
    <3>3. ASSUME state[y] = "NONE", NEW v \in Uses
          PROVE  taken'[v][y] = 0
      BY <1>1, <1>2, <2>3, <3>3 DEF Law
    <3>4. QED
      BY <3>1, <3>2, <3>3 DEF Law
  <2>4. QED
    BY <2>2, <2>3
<1>8. QED
  BY <1>6, <1>7

\* Closing an item that is a use keeps the law of every item.
LEMMA CloseGivingBackStep ==
    ASSUME IsFiniteSet(Uses), TypeOK, \A x \in Items : Law(x),
           NEW x \in Items \cap Uses, CloseGivingBack(x)
    PROVE  TypeOK' /\ \A y \in Items : Law(y)'
<1>1. /\ state' = [state EXCEPT ![x] = "CLOSED"]
      /\ \A y \in Items : taken[x][y] > 0 => state[y] = "OPEN"
      /\ amount' = [amount EXCEPT ![x] = 0]
      /\ remaining' = [y \in Items |->
           IF y = x THEN 0 ELSE remaining[y] + taken[x][y]]
      /\ taken' = [taken EXCEPT ![x] = Nothing]
  BY DEF CloseGivingBack
<1>2. /\ taken \in [Uses -> [Items -> Nat]] /\ remaining \in [Items -> Nat]
      /\ amount \in [Items -> Nat] /\ state \in [Items -> {"NONE", "OPEN", "CLOSED"}]
  BY DEF TypeOK
<1>3. Nothing \in [Items -> Nat] /\ \A y \in Items : Nothing[y] = 0
  BY DEF Nothing
<1>4. taken' \in [Uses -> [Items -> Nat]]
  BY <1>1, <1>2, <1>3
<1>5. remaining' \in [Items -> Nat]
  BY <1>1, <1>2
<1>6. TypeOK'
  BY <1>1, <1>2, <1>4, <1>5 DEF TypeOK
<1>7. ASSUME NEW y \in Items
      PROVE  Law(y)'
  <2>1. CASE y = x
    <3>1. state'[y] = "CLOSED"
      BY <1>1, <1>2, <2>1
    <3>2. QED
      BY <3>1 DEF Law
  <2>2. CASE y # x
    <3>1. /\ Total(Uses, From(taken', y))
               = Total(Uses, From(taken, y)) - taken[x][y] + Nothing[y]
          /\ Total(Uses, From(taken, y)) \in Nat
      <4>1. taken' = [taken EXCEPT ![x] = Nothing] /\ x \in Uses
        BY <1>1
      <4>2. taken \in [Uses -> [Items -> Nat]] /\ Nothing \in [Items -> Nat]
        BY <1>2, <1>3
      <4>3. QED
        BY <4>1, <4>2, FromUpdate
    <3>2. /\ state'[y] = state[y] /\ amount'[y] = amount[y]
          /\ remaining'[y] = remaining[y] + taken[x][y]
      BY <1>1, <1>2, <2>2
    <3>3. ASSUME state[y] = "OPEN"
          PROVE  remaining'[y] + Total(Uses, From(taken', y)) = amount[y]
      BY <1>2, <1>3, <3>1, <3>2, <3>3 DEF Law
    <3>4. ASSUME state[y] = "NONE", NEW v \in Uses
          PROVE  taken'[v][y] = 0
      BY <1>1, <1>2, <1>3, <3>4 DEF Law
    <3>5. QED
      BY <3>2, <3>3, <3>4 DEF Law
  <2>3. QED
    BY <2>1, <2>2
<1>8. QED
  BY <1>6, <1>7

-----------------------------------------------------------------------------

\* Every item obeys its law at the start.
LEMMA InitLaws == ASSUME Init, NEW x \in Items PROVE Law(x)
  BY DEF Init, Law, Nothing

\* A stutter keeps the law of every item.
LEMMA StutterStep ==
    ASSUME TypeOK, \A x \in Items : Law(x), UNCHANGED vars
    PROVE  TypeOK' /\ \A y \in Items : Law(y)'
  BY DEF vars, TypeOK, Law, From

\* One step per action of the abstract subledger.
LEMMA NextStep ==
    ASSUME IsFiniteSet(Uses), TypeOK, \A x \in Items : Law(x), [Next]_vars
    PROVE  TypeOK' /\ \A y \in Items : Law(y)'
<1>1. ASSUME NEW x \in Items, Open(x, amount'[x])
      PROVE  TypeOK' /\ \A y \in Items : Law(y)'
  BY <1>1, OpenStep
<1>2. ASSUME NEW x \in Items, Close(x)
      PROVE  TypeOK' /\ \A y \in Items : Law(y)'
  BY <1>2, CloseStep
<1>3. ASSUME NEW u \in Uses, Take(u, taken'[u])
      PROVE  TypeOK' /\ \A y \in Items : Law(y)'
  BY <1>3, TakeStep
<1>4. ASSUME NEW u \in Uses, GiveBack(u)
      PROVE  TypeOK' /\ \A y \in Items : Law(y)'
  BY <1>4, GiveBackStep
<1>5. ASSUME NEW x \in Items \cap Uses, OpenTaking(x, amount'[x], taken'[x])
      PROVE  TypeOK' /\ \A y \in Items : Law(y)'
  BY <1>5, OpenTakingStep
<1>6. ASSUME NEW x \in Items \cap Uses, CloseGivingBack(x)
      PROVE  TypeOK' /\ \A y \in Items : Law(y)'
  BY <1>6, CloseGivingBackStep
<1>7. CASE UNCHANGED vars
  BY <1>7, StutterStep
<1>8. QED
  BY <1>1, <1>2, <1>3, <1>4, <1>5, <1>6, <1>7 DEF Next

\* The invariant of the proof: the types and every item's law.
IInv == TypeOK /\ \A x \in Items : Law(x)

\* The laws hold in every reachable state.
LEMMA IInvHolds == ASSUME IsFiniteSet(Uses) PROVE Spec => []IInv
<1>1. Init => IInv
  BY InitTypes, InitLaws DEF IInv
<1>2. IInv /\ [Next]_vars => IInv'
  BY NextStep DEF IInv
<1>3. QED
  BY <1>1, <1>2, PTL DEF Spec

\* What remains of an item is never negative, and uses take naturals.
THEOREM TypeCorrect == ASSUME IsFiniteSet(Uses) PROVE Spec => []TypeOK
<1>1. IInv => TypeOK
  BY DEF IInv
<1>2. QED
  BY <1>1, IInvHolds, PTL

\* What uses take from an open item and what remains of it are its amount.
THEOREM ItemsConserve == ASSUME IsFiniteSet(Uses) PROVE Spec => []Conserved
<1>1. IInv => Conserved
  BY ConservedByItem DEF IInv
<1>2. QED
  BY <1>1, IInvHolds, PTL

-----------------------------------------------------------------------------
(* The actions, item by item: what a specification that implements this one *)
(* shows of its steps.                                                      *)

SameItem(x) ==
    /\ state'[x] = state[x]
    /\ amount'[x] = amount[x]
    /\ remaining'[x] = remaining[x]

SameUse(u) == \A x \in Items : taken'[u][x] = taken[u][x]

\* A function that differs from f in one place.
LEMMA UpdatedFunction ==
    ASSUME NEW S, NEW T, NEW f \in [S -> T], NEW g \in [S -> T],
           NEW x \in S, \A y \in S \ {x} : g[y] = f[y]
    PROVE  g = [f EXCEPT ![x] = g[x]]
  OBVIOUS

\* Uses that take the same are the same.
LEMMA SameTaken ==
    ASSUME TypeOK, TypeOK', NEW U \in SUBSET Uses, \A u \in U : SameUse(u)
    PROVE  \A u \in U : taken'[u] = taken[u]
<1> SUFFICES ASSUME NEW u \in U
             PROVE  taken'[u] = taken[u]
  OBVIOUS
<1>1. taken[u] \in [Items -> Nat] /\ taken'[u] \in [Items -> Nat]
  BY DEF TypeOK
<1>2. \A x \in Items : taken'[u][x] = taken[u][x]
  BY DEF SameUse
<1>3. QED
  BY <1>1, <1>2

\* Nothing changes.
LEMMA Stutters ==
    TypeOK /\ TypeOK' /\ (\A x \in Items : SameItem(x)) /\ (\A u \in Uses : SameUse(u))
      => UNCHANGED vars
<1> SUFFICES ASSUME TypeOK, TypeOK', \A x \in Items : SameItem(x), \A u \in Uses : SameUse(u)
             PROVE  UNCHANGED vars
  OBVIOUS
<1>1. state' = state /\ amount' = amount /\ remaining' = remaining
  BY DEF TypeOK, SameItem
<1>2. taken' = taken
  BY SameTaken DEF TypeOK
<1>3. QED
  BY <1>1, <1>2 DEF vars

\* An item opens.
LEMMA Opens ==
    TypeOK /\ TypeOK' =>
      \A x \in Items :
        /\ state[x] = "NONE" /\ state'[x] = "OPEN" /\ remaining'[x] = amount'[x]
        /\ \A y \in Items \ {x} : SameItem(y)
        /\ \A u \in Uses : SameUse(u)
        => Next
<1> SUFFICES ASSUME TypeOK, TypeOK', NEW x \in Items, state[x] = "NONE", state'[x] = "OPEN",
                    remaining'[x] = amount'[x], \A y \in Items \ {x} : SameItem(y),
                    \A u \in Uses : SameUse(u)
             PROVE  Next
  OBVIOUS
<1>1. state' = [state EXCEPT ![x] = "OPEN"]
  BY DEF TypeOK, SameItem
<1>2. /\ amount' = [amount EXCEPT ![x] = amount'[x]]
      /\ remaining' = [remaining EXCEPT ![x] = amount'[x]]
  BY UpdatedFunction DEF TypeOK, SameItem
<1>3. taken' = taken /\ amount'[x] \in Nat
  BY SameTaken DEF TypeOK
<1>4. Open(x, amount'[x])
  BY <1>1, <1>2, <1>3 DEF Open
<1>5. QED
  BY <1>4 DEF Next

\* An item closes.
LEMMA Closes ==
    TypeOK /\ TypeOK' =>
      \A x \in Items :
        /\ state[x] # "CLOSED" /\ state'[x] = "CLOSED"
        /\ amount'[x] = 0 /\ remaining'[x] = 0
        /\ \A y \in Items \ {x} : SameItem(y)
        /\ \A u \in Uses : SameUse(u)
        => Next
<1> SUFFICES ASSUME TypeOK, TypeOK', NEW x \in Items, state[x] # "CLOSED",
                    state'[x] = "CLOSED", amount'[x] = 0, remaining'[x] = 0,
                    \A y \in Items \ {x} : SameItem(y), \A u \in Uses : SameUse(u)
             PROVE  Next
  OBVIOUS
<1>1. state' = [state EXCEPT ![x] = "CLOSED"]
  BY DEF TypeOK, SameItem
<1>2. amount' = [amount EXCEPT ![x] = 0] /\ remaining' = [remaining EXCEPT ![x] = 0]
  BY DEF TypeOK, SameItem
<1>3. taken' = taken
  BY SameTaken DEF TypeOK
<1>4. Close(x)
  BY <1>1, <1>2, <1>3 DEF Close
<1>5. QED
  BY <1>4 DEF Next

\* A use takes its amounts; one of no amounts goes unnoticed.
LEMMA Takes ==
    TypeOK /\ TypeOK' =>
      \A u \in Uses :
        /\ \A v \in Uses \ {u} : SameUse(v)
        /\ \A x \in Items :
             /\ state'[x] = state[x] /\ amount'[x] = amount[x]
             /\ taken[u][x] = 0
             /\ taken'[u][x] > 0 => state[x] = "OPEN"
             /\ remaining'[x] = remaining[x] - taken'[u][x]
        => [Next]_vars
<1> SUFFICES ASSUME TypeOK, TypeOK', NEW u \in Uses, \A v \in Uses \ {u} : SameUse(v),
                    \A x \in Items :
                      /\ state'[x] = state[x] /\ amount'[x] = amount[x]
                      /\ taken[u][x] = 0
                      /\ taken'[u][x] > 0 => state[x] = "OPEN"
                      /\ remaining'[x] = remaining[x] - taken'[u][x]
             PROVE  [Next]_vars
  OBVIOUS
<1>1. /\ taken \in [Uses -> [Items -> Nat]] /\ taken' \in [Uses -> [Items -> Nat]]
      /\ remaining \in [Items -> Nat] /\ remaining' \in [Items -> Nat]
      /\ state' = state /\ amount' = amount
  BY DEF TypeOK
<1>2. PICK take \in [Items -> Nat] : take = taken'[u]
  BY <1>1
<1>3. CASE \A x \in Items : take[x] = 0
  <2>1. \A x \in Items : SameItem(x)
    BY <1>1, <1>2, <1>3 DEF SameItem
  <2>2. SameUse(u)
    BY <1>2, <1>3 DEF SameUse
  <2>3. \A v \in Uses : SameUse(v)
    BY <2>2
  <2>4. QED
    BY <2>1, <2>3, Stutters
<1>4. CASE \E x \in Items : take[x] > 0
  <2>1. \A x \in Items : take[x] > 0 => state[x] = "OPEN" /\ take[x] <= remaining[x]
    BY <1>1, <1>2
  <2>2. remaining' = [x \in Items |-> remaining[x] - take[x]]
    BY <1>1, <1>2
  <2>3. taken' = [taken EXCEPT ![u] = take]
    <3>1. \A v \in Uses \ {u} : taken'[v] = taken[v]
      BY SameTaken
    <3>2. QED
      BY <1>1, <1>2, <3>1, UpdatedFunction
  <2>4. ~InForce(u)
    BY DEF InForce
  <2>5. Take(u, take)
    BY <1>1, <1>4, <2>1, <2>2, <2>3, <2>4 DEF Take
  <2>6. QED
    BY <1>2, <2>5 DEF Next
<1>5. QED
  BY <1>3, <1>4

\* A use is given back.
LEMMA GivesBack ==
    TypeOK /\ TypeOK' =>
      \A u \in Uses :
        /\ \A v \in Uses \ {u} : SameUse(v)
        /\ \A x \in Items :
             /\ state'[x] = state[x] /\ amount'[x] = amount[x]
             /\ taken'[u][x] = 0
             /\ taken[u][x] > 0 => state[x] = "OPEN"
             /\ remaining'[x] = remaining[x] + taken[u][x]
        => [Next]_vars
<1> SUFFICES ASSUME TypeOK, TypeOK', NEW u \in Uses, \A v \in Uses \ {u} : SameUse(v),
                    \A x \in Items :
                      /\ state'[x] = state[x] /\ amount'[x] = amount[x]
                      /\ taken'[u][x] = 0
                      /\ taken[u][x] > 0 => state[x] = "OPEN"
                      /\ remaining'[x] = remaining[x] + taken[u][x]
             PROVE  [Next]_vars
  OBVIOUS
<1>1. /\ taken \in [Uses -> [Items -> Nat]] /\ taken' \in [Uses -> [Items -> Nat]]
      /\ remaining \in [Items -> Nat] /\ remaining' \in [Items -> Nat]
      /\ state' = state /\ amount' = amount
  BY DEF TypeOK
<1>2. CASE \A x \in Items : taken[u][x] = 0
  <2>1. \A x \in Items : SameItem(x)
    BY <1>1, <1>2 DEF SameItem
  <2>2. SameUse(u)
    BY <1>2 DEF SameUse
  <2>3. \A v \in Uses : SameUse(v)
    BY <2>2
  <2>4. QED
    BY <2>1, <2>3, Stutters
<1>3. CASE \E x \in Items : taken[u][x] > 0
  <2>1. remaining' = [x \in Items |-> remaining[x] + taken[u][x]]
    BY <1>1
  <2>2. taken' = [taken EXCEPT ![u] = Nothing]
    <3>1. \A v \in Uses \ {u} : taken'[v] = taken[v]
      BY SameTaken
    <3>2. taken'[u] = Nothing
      BY <1>1 DEF Nothing
    <3>3. QED
      BY <1>1, <3>1, <3>2, UpdatedFunction
  <2>3. GiveBack(u)
    BY <1>1, <1>3, <2>1, <2>2 DEF GiveBack, InForce
  <2>4. QED
    BY <2>3 DEF Next
<1>4. QED
  BY <1>1, <1>2, <1>3

\* An item opens with a use of its own.
LEMMA OpensTaking ==
    TypeOK /\ TypeOK' =>
      \A p \in Items \cap Uses :
        /\ state[p] = "NONE" /\ state'[p] = "OPEN"
        /\ remaining'[p] = amount'[p] - taken'[p][p]
        /\ \A v \in Uses \ {p} : SameUse(v)
        /\ \A x \in Items : taken[p][x] = 0
        /\ \A x \in Items \ {p} :
             /\ state'[x] = state[x] /\ amount'[x] = amount[x]
             /\ taken'[p][x] > 0 => state[x] = "OPEN"
             /\ remaining'[x] = remaining[x] - taken'[p][x]
        => Next
<1> SUFFICES ASSUME TypeOK, TypeOK', NEW p \in Items \cap Uses,
                    state[p] = "NONE", state'[p] = "OPEN",
                    remaining'[p] = amount'[p] - taken'[p][p],
                    \A v \in Uses \ {p} : SameUse(v),
                    \A x \in Items : taken[p][x] = 0,
                    \A x \in Items \ {p} :
                      /\ state'[x] = state[x] /\ amount'[x] = amount[x]
                      /\ taken'[p][x] > 0 => state[x] = "OPEN"
                      /\ remaining'[x] = remaining[x] - taken'[p][x]
             PROVE  Next
  OBVIOUS
<1>1. /\ taken \in [Uses -> [Items -> Nat]] /\ taken' \in [Uses -> [Items -> Nat]]
      /\ remaining \in [Items -> Nat] /\ remaining' \in [Items -> Nat]
      /\ state \in [Items -> {"NONE", "OPEN", "CLOSED"}]
      /\ state' \in [Items -> {"NONE", "OPEN", "CLOSED"}]
      /\ amount \in [Items -> Nat] /\ amount' \in [Items -> Nat]
  BY DEF TypeOK
<1>2. PICK take \in [Items -> Nat] : take = taken'[p]
  BY <1>1
<1>3. PICK n \in Nat : n = amount'[p]
  BY <1>1
<1>4. take[p] <= n
  BY <1>1, <1>2, <1>3
<1>5. \A x \in Items \ {p} : take[x] > 0 => state[x] = "OPEN" /\ take[x] <= remaining[x]
  BY <1>1, <1>2
<1>6. state' = [state EXCEPT ![p] = "OPEN"]
  BY <1>1
<1>7. amount' = [amount EXCEPT ![p] = n]
  BY <1>1, <1>3
<1>8. remaining' = [x \in Items |-> IF x = p THEN n - take[p] ELSE remaining[x] - take[x]]
  BY <1>1, <1>2, <1>3
<1>9. taken' = [taken EXCEPT ![p] = take]
  <2>1. \A v \in Uses \ {p} : taken'[v] = taken[v]
    BY SameTaken
  <2>2. QED
    BY <1>1, <1>2, <2>1, UpdatedFunction
<1>10. ~InForce(p)
  BY DEF InForce
<1>11. OpenTaking(p, n, take)
  BY <1>4, <1>5, <1>6, <1>7, <1>8, <1>9, <1>10 DEF OpenTaking
<1>12. QED
  BY <1>2, <1>3, <1>11 DEF Next

\* It closes and gives that use back.
LEMMA ClosesGivingBack ==
    TypeOK /\ TypeOK' =>
      \A p \in Items \cap Uses :
        /\ state[p] = "OPEN" /\ state'[p] = "CLOSED"
        /\ amount'[p] = 0 /\ remaining'[p] = 0
        /\ \A v \in Uses \ {p} : SameUse(v)
        /\ \A x \in Items : /\ taken'[p][x] = 0
                            /\ taken[p][x] > 0 => state[x] = "OPEN"
        /\ \A x \in Items \ {p} :
             /\ state'[x] = state[x] /\ amount'[x] = amount[x]
             /\ remaining'[x] = remaining[x] + taken[p][x]
        => Next
<1> SUFFICES ASSUME TypeOK, TypeOK', NEW p \in Items \cap Uses,
                    state[p] = "OPEN", state'[p] = "CLOSED",
                    amount'[p] = 0, remaining'[p] = 0,
                    \A v \in Uses \ {p} : SameUse(v),
                    \A x \in Items : /\ taken'[p][x] = 0
                                     /\ taken[p][x] > 0 => state[x] = "OPEN",
                    \A x \in Items \ {p} :
                      /\ state'[x] = state[x] /\ amount'[x] = amount[x]
                      /\ remaining'[x] = remaining[x] + taken[p][x]
             PROVE  Next
  OBVIOUS
<1>1. /\ taken \in [Uses -> [Items -> Nat]] /\ taken' \in [Uses -> [Items -> Nat]]
      /\ remaining \in [Items -> Nat] /\ remaining' \in [Items -> Nat]
      /\ state \in [Items -> {"NONE", "OPEN", "CLOSED"}]
      /\ state' \in [Items -> {"NONE", "OPEN", "CLOSED"}]
      /\ amount \in [Items -> Nat] /\ amount' \in [Items -> Nat]
  BY DEF TypeOK
<1>2. state' = [state EXCEPT ![p] = "CLOSED"]
  BY <1>1
<1>3. amount' = [amount EXCEPT ![p] = 0]
  BY <1>1
<1>4. remaining' = [x \in Items |-> IF x = p THEN 0 ELSE remaining[x] + taken[p][x]]
  BY <1>1
<1>5. taken' = [taken EXCEPT ![p] = Nothing]
  <2>1. \A v \in Uses \ {p} : taken'[v] = taken[v]
    BY SameTaken
  <2>2. taken'[p] = Nothing
    BY <1>1 DEF Nothing
  <2>3. QED
    BY <1>1, <2>1, <2>2, UpdatedFunction
<1>6. \A y \in Items : taken[p][y] > 0 => state[y] = "OPEN"
  OBVIOUS
<1>7. CloseGivingBack(p)
  BY <1>2, <1>3, <1>4, <1>5, <1>6 DEF CloseGivingBack
<1>8. QED
  BY <1>7 DEF Next
=============================================================================
