------------------------- MODULE OrderLedgerProofs -------------------------
(***************************************************************************)
(* The session ledger is well typed, reconciles and releases reservations  *)
(* with their orders; a client that follows the events knows the rows, an  *)
(* OCO pair has at most one winner, and shares come from fills only: for   *)
(* every set of orders, prices, fees and quotes.                           *)
(***************************************************************************)
EXTENDS OrderLedger, FiniteSetTheorems, TLAPS

(***************************************************************************)
(* What the proofs use of Sums!Total.                                      *)
(***************************************************************************)
\* The units of one entry.
LEMMA EntryUnits ==
    ASSUME NEW r, NEW n \in Nat
    PROVE  /\ IsFiniteSet({r} \X (1 .. n))
           /\ Cardinality({r} \X (1 .. n)) = n
<1>1. IsFiniteSet({r}) /\ Cardinality({r}) = 1
  BY FS_Singleton
<1>2. IsFiniteSet(1 .. n) /\ Cardinality(1 .. n) = n
  BY FS_Interval
<1>3. /\ IsFiniteSet({r} \X (1 .. n))
      /\ Cardinality({r} \X (1 .. n)) = Cardinality({r}) * Cardinality(1 .. n)
  BY <1>1, <1>2, FS_Product, Zenon
<1>4. Cardinality({r} \X (1 .. n)) = 1 * n
  BY <1>1, <1>2, <1>3, Zenon
<1> QED
  BY <1>3, <1>4

\* A finite function of naturals has finitely many units.
LEMMA UnitsFinite ==
    ASSUME NEW D, IsFiniteSet(D), NEW f \in [D -> Nat]
    PROVE  IsFiniteSet(Units(f))
<1> DEFINE Entry(r) == {r} \X (1 .. f[r])
           E == {Entry(r) : r \in D}
           e == [r \in D |-> Entry(r)]
<1>1. e \in Surjection(D, E)
  BY DEF Surjection
<1>2. IsFiniteSet(E)
  BY <1>1, FS_Surjection
<1>3. \A T \in E : IsFiniteSet(T)
  <2> SUFFICES ASSUME NEW r \in D PROVE IsFiniteSet(Entry(r))
    OBVIOUS
  <2>1. f[r] \in Nat
    OBVIOUS
  <2> QED
    BY <2>1, EntryUnits, Zenon
<1>4. IsFiniteSet(UNION E)
  BY <1>2, <1>3, FS_UNION
<1> QED
  BY <1>4 DEF Units

\* The sum of a finite function of naturals is a natural number.
LEMMA TotalType ==
    ASSUME NEW D, IsFiniteSet(D), NEW f \in [D -> Nat]
    PROVE  Total(f) \in Nat
BY UnitsFinite, FS_CardinalityType DEF Total

\* The units of the other entries.
Rest(D, f, r) == Units([x \in D \ {r} |-> f[x]])

\* One entry apart from the rest: the units that are not r's number as many as
\* the whole less f[r].
LEMMA TotalSplit ==
    ASSUME NEW D, IsFiniteSet(D), NEW f \in [D -> Nat], NEW r \in D
    PROVE  /\ Cardinality(Rest(D, f, r)) \in Nat
           /\ Total(f) = Cardinality(Rest(D, f, r)) + f[r]
<1> DEFINE g == [x \in D \ {r} |-> f[x]]
           rest == Units(g)
           mine == {r} \X (1 .. f[r])
<1>1. IsFiniteSet(D \ {r})
  BY FS_Subset
<1>2. g \in [D \ {r} -> Nat]
  OBVIOUS
<1>3. IsFiniteSet(rest)
  BY <1>1, <1>2, UnitsFinite
<1>4. IsFiniteSet(mine) /\ Cardinality(mine) = f[r]
  BY EntryUnits
<1>5. Units(f) = rest \cup mine
  BY DEF Units
<1>6. rest \cap mine = {}
  BY DEF Units
<1>7. Cardinality(rest \cap mine) = 0
  BY <1>6, FS_EmptySet
<1>8. Cardinality(rest) \in Nat
  BY <1>3, FS_CardinalityType
<1>9. Total(f) = Cardinality(rest) + f[r]
  <2> HIDE DEF rest, mine
  <2>1. Cardinality(rest \cup mine)
          = Cardinality(rest) + Cardinality(mine) - Cardinality(rest \cap mine)
    BY <1>3, <1>4, FS_Union, Zenon
  <2>2. Cardinality(rest \cup mine) = Cardinality(rest) + f[r] - 0
    BY <2>1, <1>4, <1>7, Zenon
  <2> QED
    BY <2>2, <1>5, <1>8 DEF Total
<1> QED
  BY <1>8, <1>9 DEF Rest

\* An entry is at most the sum.
LEMMA EntryBound ==
    ASSUME NEW D, IsFiniteSet(D), NEW f \in [D -> Nat], NEW r \in D
    PROVE  f[r] <= Total(f)
<1>1. /\ Cardinality(Rest(D, f, r)) \in Nat
      /\ Total(f) = Cardinality(Rest(D, f, r)) + f[r]
  BY TotalSplit, Zenon
<1> QED
  BY <1>1

\* Two functions that differ at most in one entry have sums that differ by
\* what that entry changed.
LEMMA TotalChange ==
    ASSUME NEW D, IsFiniteSet(D), NEW f \in [D -> Nat], NEW g \in [D -> Nat],
           NEW r \in D, \A x \in D \ {r} : g[x] = f[x]
    PROVE  Total(g) = Total(f) - f[r] + g[r]
<1>1. [x \in D \ {r} |-> g[x]] = [x \in D \ {r} |-> f[x]]
  OBVIOUS
<1>2. Rest(D, g, r) = Rest(D, f, r)
  BY <1>1 DEF Rest
<1>3. /\ Cardinality(Rest(D, f, r)) \in Nat
      /\ Total(f) = Cardinality(Rest(D, f, r)) + f[r]
  BY TotalSplit, Zenon
<1>4. Total(g) = Cardinality(Rest(D, f, r)) + g[r]
  BY TotalSplit, <1>2, Zenon
<1> QED
  BY <1>3, <1>4

\* Nothing anywhere sums to zero.
LEMMA TotalZero ==
    ASSUME NEW f, \A r \in DOMAIN f : f[r] = 0
    PROVE  Total(f) = 0
<1>1. Units(f) = {}
  BY DEF Units
<1> QED
  BY <1>1, FS_EmptySet DEF Total

(***************************************************************************)
(* The ledger.                                                             *)
(***************************************************************************)

\* An order has terms from its placement on, and a group has legs only once
\* it exists.
PlacedOrdersHaveTerms ==
    /\ \A o \in Orders : status[o] = "NONE" <=> terms[o] = None
    /\ \A o \in Orders : terms[o] # None /\ terms[o].group # None
                           => groups[terms[o].group] # "NONE"

\* An order draws on a reservation of the asset it spends.
ReservationAssets ==
    /\ \A o \in Orders : terms[o] # None /\ ~ reservations[OwnerOf(o)].released
                           => reservations[OwnerOf(o)].asset = SpentAsset(terms[o])
    /\ \A r \in Owners : ~ reservations[r].released
                           => reservations[r].asset \in Assets

\* The inductive invariant.
LedgerInv ==
    /\ TypeOK
    /\ LedgerReconciles
    /\ ReservationsFollowOrders
    /\ PlacedOrdersHaveTerms
    /\ ReservationAssets

(***************************************************************************)
(* Amounts.                                                                *)
(***************************************************************************)
\* A fee is a natural number, also for no quantity.
LEMMA FeeType ==
    ASSUME NEW side \in Sides, NEW p \in Prices, NEW q \in 0 .. MaxQuantity
    PROVE  FeeOf(side, p, q) \in Nat
<1>1. q # 0 => q \in Quantities
  BY ConstantsAssumption DEF Quantities
<1> QED
  BY <1>1, ConstantsAssumption DEF FeeOf

\* Notionals are natural numbers, with and without the 1.05 multiplier.
LEMMA NotionalType ==
    ASSUME NEW p \in Prices, NEW q \in Nat
    PROVE  Notional(p, q) \in Nat /\ 21 * p * q \in Nat
<1>1. p \in Nat
  BY ConstantsAssumption
<1>2. p * q \in Nat
  BY <1>1
<1>3. 20 * p * q = 20 * (p * q) /\ 21 * p * q = 21 * (p * q)
  BY <1>1
<1> QED
  BY <1>2, <1>3 DEF Notional

\* What a placement reserves is a natural number.
LEMMA PlannedTypes ==
    ASSUME NEW side \in Sides, NEW p \in Prices, NEW q \in Quantities,
           NEW type
    PROVE  /\ PlannedBuyCash(type, p, q) \in Nat
           /\ PlannedAmount(side, type, p, q) \in Nat
<1>1. q \in Nat /\ q \in 0 .. MaxQuantity
  BY ConstantsAssumption DEF Quantities
<1>2. PlannedBuyCash(type, p, q) \in Nat
  BY <1>1, NotionalType DEF PlannedBuyCash
<1>3. FeeOf("BUY", p, q) \in Nat
  BY <1>1, FeeType DEF Sides
<1> QED
  BY <1>1, <1>2, <1>3 DEF PlannedAmount

\* An order spends one asset and brings in another.
LEMMA AssetTypes ==
    ASSUME NEW t, t.side \in Sides, t.symbol \in Symbols
    PROVE  /\ SpentAsset(t) \in Assets /\ BoughtAsset(t) \in Assets
           /\ SpentAsset(t) # BoughtAsset(t)
BY ConstantsAssumption DEF SpentAsset, BoughtAsset, Assets

Balance == [total : Nat, available : Nat, reserved : Nat]

\* Finitely many reservations exist, so their sum is defined.
LEMMA OwnersFinite == IsFiniteSet(Owners)
BY ConstantsAssumption, FS_Union DEF Owners

\* The amounts held against an asset are natural numbers.
LEMMA HeldType ==
    ASSUME TypeOK, NEW a
    PROVE  Held(a) \in [Owners -> Nat]
BY DEF Held, TypeOK

\* planSettlement keeps a balance composed, moves the reserved part by exactly
\* what it takes off the reservation, and never overdraws what it checked.
LEMMA SettlementPlan ==
    ASSUME NEW b \in Balance,
           b.total = b.available + b.reserved,
           NEW remaining \in Nat, remaining <= b.reserved,
           NEW consumed \in Nat, NEW terminal \in BOOLEAN, NEW desired \in Nat,
           b.available >=
             PlanSettlement(b, remaining, consumed, terminal, desired).shortfall
    PROVE  LET plan == PlanSettlement(b, remaining, consumed, terminal, desired)
           IN  /\ plan.total \in Nat /\ plan.available \in Nat
               /\ plan.reserved \in Nat /\ plan.left \in Nat
               /\ plan.total = plan.available + plan.reserved
               /\ plan.reserved = b.reserved - remaining + plan.left
               /\ plan.left <= remaining
               /\ terminal => plan.left = 0
BY DEF PlanSettlement, Balance

(***************************************************************************)
(* The sum of the unreleased reservations moves with the one that changes. *)
(***************************************************************************)
ReservationRows == [Owners -> [asset : Assets \cup {None}, amount : Nat,
                               released : BOOLEAN]]

\* When one reservation row changes, the sum held against any asset changes by
\* what that row held before and after.
LEMMA HeldChange ==
    ASSUME TypeOK, reservations' \in ReservationRows, NEW w \in Owners,
           \A r \in Owners \ {w} : reservations'[r] = reservations[r],
           NEW a
    PROVE  /\ Total(Held(a)) \in Nat /\ Held(a)[w] <= Total(Held(a))
           /\ Held(a)[w] \in Nat /\ Held(a)'[w] \in Nat
           /\ Total(Held(a)') = Total(Held(a)) - Held(a)[w] + Held(a)'[w]
<1>1. Held(a) \in [Owners -> Nat]
  BY HeldType
<1>2. Held(a)' \in [Owners -> Nat]
  BY DEF Held, ReservationRows
<1>3. \A r \in Owners \ {w} : Held(a)'[r] = Held(a)[r]
  BY DEF Held
<1> DEFINE f == Held(a)
           g == Held(a)'
<1> HIDE DEF f, g
<1>4. f \in [Owners -> Nat] /\ g \in [Owners -> Nat]
  BY <1>1, <1>2 DEF f, g
<1>5. \A r \in Owners \ {w} : g[r] = f[r]
  BY <1>3 DEF f, g
<1>6. Total(f) \in Nat /\ f[w] <= Total(f)
  BY <1>4, OwnersFinite, TotalType, EntryBound, Zenon
<1>7. Total(g) = Total(f) - f[w] + g[w]
  BY <1>4, <1>5, OwnersFinite, TotalChange
<1>8. f[w] \in Nat /\ g[w] \in Nat
  BY <1>4
<1> QED
  BY <1>6, <1>7, <1>8 DEF f, g

\* settleFill reconciles: the spent asset's reserved part and the reservation
\* that backs it move together.
LEMMA SettleStep ==
    ASSUME LedgerInv, NEW o \in Orders, terms[o] # None,
           NEW p \in Prices, NEW q \in 0 .. MaxQuantity,
           NEW n \in 0 .. terms[o].quantity, NEW terminal \in BOOLEAN,
           Settle(o, p, q, n, terminal)
    PROVE  /\ balance' \in [Assets -> Balance]
           /\ reservations' \in ReservationRows
           /\ LedgerReconciles'
           /\ \A w \in Owners \ {OwnerOf(o)} : reservations'[w] = reservations[w]
           /\ reservations'[OwnerOf(o)].asset = reservations[OwnerOf(o)].asset
           /\ reservations'[OwnerOf(o)].released
                = (reservations[OwnerOf(o)].released \/ terminal)
<1> DEFINE t == terms[o]
           w == OwnerOf(o)
           r == reservations[w]
           S == SpentAsset(t)
           B == BoughtAsset(t)
           remaining == IF r.released THEN 0 ELSE r.amount
           consumed == IF t.side = "BUY" THEN Notional(p, q) + FeeOf("BUY", p, q)
                                         ELSE q
           gained == IF t.side = "BUY" THEN q
                                       ELSE Notional(p, q) - FeeOf("SELL", p, q)
           desired == RemainingExposure(t, n)
           plan == PlanSettlement(balance[S], remaining, consumed, terminal,
                                  desired)
<1>1. t \in Terms /\ w \in Owners /\ r \in [asset : Assets \cup {None},
                                            amount : Nat, released : BOOLEAN]
  BY DEF Balance, LedgerInv, TypeOK, OwnerOf, Owners, Terms
<1>2. S \in Assets /\ B \in Assets /\ S # B
  BY <1>1, AssetTypes DEF Terms
<1>3. q \in Nat /\ consumed \in Nat
  BY NotionalType, FeeType DEF Sides
<1>4. desired \in Nat
  <2>1. t.quantity \in 1 .. MaxQuantity /\ t.price \in Prices
    BY <1>1 DEF Terms, Quantities
  <2>2. t.quantity - n \in Nat /\ t.quantity - n \in 0 .. MaxQuantity
    BY <2>1, ConstantsAssumption
  <2>3. /\ Notional(t.price, t.quantity - n) \in Nat
        /\ FeeOf("BUY", t.price, t.quantity - n) \in Nat
    BY <2>1, <2>2, NotionalType, FeeType DEF Sides
  <2> QED
    BY <2>2, <2>3 DEF RemainingExposure
<1>5. balance[S] \in Balance
  BY <1>2 DEF Balance, LedgerInv, TypeOK
<1>6. /\ balance[S].total = balance[S].available + balance[S].reserved
      /\ balance[S].reserved = Total(Held(S))
  BY <1>2 DEF LedgerInv, LedgerReconciles
<1>7. ~ r.released => r.asset = S
  BY DEF LedgerInv, ReservationAssets
<1>8. Held(S)[w] = remaining
  BY <1>1, <1>7 DEF Held
<1>9. Held(S) \in [Owners -> Nat]
  BY HeldType DEF LedgerInv
<1>10. remaining \in Nat /\ remaining <= balance[S].reserved
  BY <1>1, <1>6, <1>8, <1>9, OwnersFinite, EntryBound
<1>11. /\ balance[S].available >= plan.shortfall
       /\ plan.reserved >= 0 /\ plan.total >= 0
       /\ gained >= 0
       /\ balance' = [balance EXCEPT
             ![S] = [total |-> plan.total, available |-> plan.available,
                     reserved |-> plan.reserved],
             ![B] = Credited(@, gained)]
       /\ reservations' =
             IF r.released THEN reservations
             ELSE [reservations EXCEPT ![w] =
                     [asset |-> r.asset, amount |-> plan.left,
                      released |-> terminal]]
  BY Zenon DEF Settle
<1> HIDE DEF consumed, gained, desired, remaining
<1>12. /\ plan.total \in Nat /\ plan.available \in Nat
       /\ plan.reserved \in Nat /\ plan.left \in Nat
       /\ plan.total = plan.available + plan.reserved
       /\ plan.reserved = balance[S].reserved - remaining + plan.left
       /\ plan.left <= remaining
       /\ terminal => plan.left = 0
  BY <1>3, <1>4, <1>5, <1>6, <1>10, <1>11, SettlementPlan
<1> HIDE DEF plan
<1>13. gained \in Nat
  <2>1. Notional(p, q) \in Nat /\ FeeOf("SELL", p, q) \in Nat
    BY <1>3, NotionalType, FeeType DEF Sides
  <2> QED
    BY <2>1, <1>3, <1>11 DEF gained
<1>14. balance' \in [Assets -> Balance]
  <2>1. balance[B] \in Balance
    BY <1>2 DEF Balance, LedgerInv, TypeOK
  <2>2. Credited(balance[B], gained) \in Balance
    BY <2>1, <1>13 DEF Balance, Credited
  <2>3. [total |-> plan.total, available |-> plan.available,
         reserved |-> plan.reserved] \in Balance
    BY <1>12 DEF Balance
  <2>4. balance' = [balance EXCEPT
             ![S] = [total |-> plan.total, available |-> plan.available,
                     reserved |-> plan.reserved],
             ![B] = Credited(balance[B], gained)]
    BY <1>2, <1>11 DEF Balance, LedgerInv, TypeOK
  <2> QED
    BY <2>2, <2>3, <2>4, <1>2 DEF Balance, LedgerInv, TypeOK
<1>15. reservations' \in ReservationRows
  BY <1>1, <1>11, <1>12 DEF Balance, LedgerInv, TypeOK, ReservationRows
<1>16. /\ \A x \in Owners \ {w} : reservations'[x] = reservations[x]
       /\ reservations'[w].asset = r.asset
       /\ reservations'[w].released = (r.released \/ terminal)
  BY <1>1, <1>11 DEF Balance, LedgerInv, TypeOK
<1>17. ASSUME NEW a, a = S
       PROVE  Held(a)'[w] = plan.left
  <2>1. CASE r.released
    <3>1. reservations'[w] = r
      BY <2>1, <1>11
    <3> QED
      BY <3>1, <2>1, <1>1, <1>12 DEF Held, remaining
  <2>2. CASE ~ r.released
    <3>1. reservations'[w] = [asset |-> r.asset, amount |-> plan.left,
                              released |-> terminal]
      BY <2>2, <1>1, <1>11 DEF Balance, LedgerInv, TypeOK
    <3> QED
      BY <3>1, <2>2, <1>1, <1>7, <1>12, <1>17 DEF Held
  <2> QED
    BY <2>1, <2>2
<1>18. ASSUME NEW a \in Assets
       PROVE  /\ balance'[a].total = balance'[a].available + balance'[a].reserved
              /\ balance'[a].reserved = Total(Held(a)')
  <2>0. /\ Total(Held(a)) \in Nat
        /\ Total(Held(a)') = Total(Held(a)) - Held(a)[w] + Held(a)'[w]
        /\ Held(a)[w] \in Nat /\ Held(a)'[w] \in Nat
    BY <1>1, <1>15, <1>16, HeldChange DEF LedgerInv
  <2>1. CASE a = S
    <3>1. balance'[S] = [total |-> plan.total, available |-> plan.available,
                         reserved |-> plan.reserved]
      BY <1>2, <1>11 DEF Balance, LedgerInv, TypeOK
    <3>2. Held(a)'[w] = plan.left /\ Held(a)[w] = remaining
      BY <2>1, <1>8, <1>17
    <3>3. plan.reserved = Total(Held(a)) - remaining + plan.left
      BY <2>1, <1>6, <1>12
    <3> QED
      BY <3>1, <3>2, <3>3, <2>0, <2>1, <1>12
  <2>2. CASE a # S
    <3>1. Held(a)[w] = 0 /\ Held(a)'[w] = 0
      BY <2>2, <1>1, <1>7, <1>16 DEF Held
    <3>2. Total(Held(a)') = Total(Held(a))
      BY <3>1, <2>0
    <3>3. /\ balance[a].total = balance[a].available + balance[a].reserved
          /\ balance[a].reserved = Total(Held(a))
          /\ balance[a] \in Balance
      BY DEF Balance, LedgerInv, LedgerReconciles, TypeOK
    <3>4. balance'[a] = IF a = B THEN Credited(balance[a], gained)
                                 ELSE balance[a]
      BY <2>2, <1>2, <1>11 DEF Balance, LedgerInv, TypeOK
    <3> QED
      BY <3>2, <3>3, <3>4, <1>13 DEF Balance, Credited
  <2> QED
    BY <2>1, <2>2
<1> QED
  BY <1>14, <1>15, <1>16, <1>18 DEF LedgerReconciles

(***************************************************************************)
(* One step per action.                                                    *)
(***************************************************************************)
\* A placement moves the balance's reserved part and its new reservation row
\* together.
LEMMA ReserveStep ==
    ASSUME LedgerInv, NEW k \in Keys, NEW w \in Owners, NEW a \in Assets,
           NEW amount \in Nat, reservations[w].released,
           ClaimAndReserve(k, w, a, amount)
    PROVE  /\ balance' \in [Assets -> Balance]
           /\ reservations' \in ReservationRows
           /\ claims' \subseteq Keys \cup Quotes /\ sequence' \in Nat
           /\ LedgerReconciles'
           /\ \A x \in Owners \ {w} : reservations'[x] = reservations[x]
           /\ reservations'[w] = [asset |-> a, amount |-> amount,
                                  released |-> FALSE]
<1>1. /\ balance[a].available >= amount
      /\ balance' = [balance EXCEPT ![a] = Reserved(@, amount)]
      /\ reservations' = [reservations EXCEPT ![w] =
                            [asset |-> a, amount |-> amount, released |-> FALSE]]
      /\ claims' = claims \cup {k} /\ sequence' = sequence + 1
  BY DEF ClaimAndReserve
<1>2. balance \in [Assets -> Balance] /\ reservations \in ReservationRows
  BY DEF LedgerInv, TypeOK, Balance, ReservationRows
<1>3. balance' \in [Assets -> Balance]
  <2>1. Reserved(balance[a], amount) \in Balance
    BY <1>1, <1>2 DEF Balance, Reserved
  <2> QED
    BY <2>1, <1>1, <1>2
<1>4. reservations' \in ReservationRows
  BY <1>1, <1>2 DEF ReservationRows
<1>5. /\ \A x \in Owners \ {w} : reservations'[x] = reservations[x]
      /\ reservations'[w] = [asset |-> a, amount |-> amount, released |-> FALSE]
  BY <1>1, <1>2 DEF ReservationRows
<1>6. ASSUME NEW x \in Assets
      PROVE  /\ balance'[x].total = balance'[x].available + balance'[x].reserved
             /\ balance'[x].reserved = Total(Held(x)')
  <2>1. /\ Total(Held(x)) \in Nat
        /\ Total(Held(x)') = Total(Held(x)) - Held(x)[w] + Held(x)'[w]
    BY <1>4, <1>5, HeldChange DEF LedgerInv
  <2>2. Held(x)[w] = 0 /\ Held(x)'[w] = IF x = a THEN amount ELSE 0
    BY <1>5 DEF Held
  <2>3. /\ balance[x].total = balance[x].available + balance[x].reserved
        /\ balance[x].reserved = Total(Held(x)) /\ balance[x] \in Balance
    BY <1>2 DEF LedgerInv, LedgerReconciles
  <2>4. balance'[x] = IF x = a THEN Reserved(balance[x], amount) ELSE balance[x]
    BY <1>1, <1>2
  <2> QED
    BY <2>1, <2>2, <2>3, <2>4 DEF Balance, Reserved
<1>7. claims' \subseteq Keys \cup Quotes /\ sequence' \in Nat
  BY <1>1 DEF LedgerInv, TypeOK
<1> QED
  BY <1>3, <1>4, <1>5, <1>6, <1>7 DEF LedgerReconciles

\* Placing a single order preserves the invariant.
LEMMA PlaceSingleStep ==
    ASSUME LedgerInv, NEW o \in Orders, NEW k \in Keys, NEW side \in Sides,
           NEW type \in Immediate \cup Conditional, NEW s \in Symbols,
           NEW p \in Prices, NEW q \in Quantities,
           PlaceSingle(o, k, side, type, s, p, q)
    PROVE  LedgerInv'
<1> DEFINE t == [side |-> side, type |-> type, symbol |-> s, quantity |-> q,
                 price |-> p, group |-> None, key |-> k]
           st == IF type \in Conditional THEN "PENDING_TRIGGER" ELSE "OPEN"
<1>1. /\ status[o] = "NONE"
      /\ ClaimAndReserve(k, o, SpentAsset(t), PlannedAmount(side, type, p, q))
      /\ terms' = [terms EXCEPT ![o] = t]
      /\ status' = [status EXCEPT ![o] = st]
      /\ event' = [event EXCEPT ![o] = Say("ORDER_PLACED")]
      /\ UNCHANGED <<filled, fills, winner, groups, fence>>
  BY DEF PlaceSingle
<1>2. t \in Terms /\ st \in Live
  BY DEF Terms, Live
<1>3. o \in Owners /\ SpentAsset(t) \in Assets
      /\ PlannedAmount(side, type, p, q) \in Nat
  BY AssetTypes, PlannedTypes DEF Owners
<1>4. reservations[o].released
  BY <1>1 DEF LedgerInv, ReservationsFollowOrders, Live
<1> HIDE DEF t, st
<1>5. /\ balance' \in [Assets -> Balance]
      /\ reservations' \in ReservationRows
      /\ claims' \subseteq Keys \cup Quotes /\ sequence' \in Nat
      /\ LedgerReconciles'
      /\ \A x \in Owners \ {o} : reservations'[x] = reservations[x]
      /\ reservations'[o].asset = SpentAsset(t) /\ ~ reservations'[o].released
  <2> DEFINE a == SpentAsset(t)
             amount == PlannedAmount(side, type, p, q)
  <2> HIDE DEF a, amount
  <2>1. a \in Assets /\ amount \in Nat /\ ClaimAndReserve(k, o, a, amount)
    BY <1>1, <1>3 DEF a, amount
  <2> QED
    <3>1. /\ balance' \in [Assets -> Balance]
          /\ reservations' \in ReservationRows
          /\ claims' \subseteq Keys \cup Quotes /\ sequence' \in Nat
          /\ LedgerReconciles'
          /\ \A x \in Owners \ {o} : reservations'[x] = reservations[x]
          /\ reservations'[o] = [asset |-> a, amount |-> amount,
                                 released |-> FALSE]
      BY <2>1, <1>3, <1>4, ReserveStep, Zenon
    <3> QED
      BY <3>1 DEF a
<1>6. /\ terms \in [Orders -> Terms \cup {None}]
      /\ status \in [Orders -> Terminal \cup Live \cup {"NONE"}]
      /\ event \in [Orders -> Event]
  BY DEF LedgerInv, TypeOK
<1>7. Say("ORDER_PLACED") \in Event
  BY DEF Say, Event
<1>8. TypeOK'
  BY <1>1, <1>2, <1>5, <1>6, <1>7
     DEF LedgerInv, TypeOK, Balance, ReservationRows
<1>9. \A x \in Orders \ {o} : terms'[x] = terms[x] /\ status'[x] = status[x]
  BY <1>1, <1>6
<1>10. terms'[o] = t /\ status'[o] = st /\ t.group = None /\ t # None
  <2>1. terms'[o] = t /\ status'[o] = st
    BY <1>1, <1>6
  <2>2. t.group = None
    BY DEF t
  <2>3. t # None
    BY <1>2, ConstantsAssumption
  <2> QED
    BY <2>1, <2>2, <2>3
<1>11. ReservationsFollowOrders'
  BY <1>1, <1>2, <1>5, <1>9, <1>10, ConstantsAssumption
     DEF LedgerInv, ReservationsFollowOrders, Owners, Live
<1>12. PlacedOrdersHaveTerms'
  BY <1>1, <1>2, <1>9, <1>10 DEF LedgerInv, PlacedOrdersHaveTerms, Live
<1>13. ReservationAssets'
  <2>1. ASSUME NEW x \in Orders, terms'[x] # None,
               ~ reservations'[OwnerOf(x)'].released
        PROVE  reservations'[OwnerOf(x)'].asset = SpentAsset(terms'[x])
    <3>1. CASE x = o
      BY <3>1, <1>5, <1>10 DEF OwnerOf
    <3>2. CASE x # o
      <4>1. OwnerOf(x)' = OwnerOf(x) /\ terms'[x] = terms[x]
        BY <3>2, <1>9 DEF OwnerOf
      <4>2. OwnerOf(x) \in Owners \ {o}
        BY <2>1, <3>2, <4>1, <1>6, ConstantsAssumption DEF OwnerOf, Owners, Terms
      <4> QED
        BY <2>1, <4>1, <4>2, <1>5 DEF LedgerInv, ReservationAssets
    <3> QED
      BY <3>1, <3>2
  <2>2. \A r \in Owners : ~ reservations'[r].released
                             => reservations'[r].asset \in Assets
    BY <1>3, <1>5 DEF LedgerInv, ReservationAssets
  <2> QED
    BY <2>1, <2>2 DEF ReservationAssets, SpentAsset
<1> QED
  BY <1>5, <1>8, <1>11, <1>12, <1>13 DEF LedgerInv

\* Placing an OCO pair with its shared reservation preserves the invariant.
LEMMA PlaceOcoStep ==
    ASSUME LedgerInv, NEW o1 \in Orders, NEW o2 \in Orders, NEW g \in Groups,
           NEW k \in Keys, NEW side \in Sides, NEW s \in Symbols,
           NEW q \in Quantities,
           NEW first \in [type : LegTypes, price : Prices],
           NEW second \in [type : LegTypes, price : Prices],
           PlaceOco(o1, o2, g, k, side, s, q, first, second)
    PROVE  LedgerInv'
<1> DEFINE t(leg) == [side |-> side, type |-> leg.type, symbol |-> s,
                      quantity |-> q, price |-> leg.price, group |-> g,
                      key |-> k]
           t1 == t(first)
           t2 == t(second)
           a == SpentAsset(t1)
           amount == PlannedOcoAmount(side, first, second, q)
<1>1. /\ o1 # o2 /\ status[o1] = "NONE" /\ status[o2] = "NONE"
      /\ groups[g] = "NONE"
      /\ ClaimAndReserve(k, g, a, amount)
      /\ terms' = [terms EXCEPT ![o1] = t1, ![o2] = t2]
      /\ status' = [status EXCEPT ![o1] = "PENDING_TRIGGER",
                                  ![o2] = "PENDING_TRIGGER"]
      /\ groups' = [groups EXCEPT ![g] = "ACTIVE"]
      /\ event' = [event EXCEPT ![o1] = Say("ORDER_PLACED")]
      /\ UNCHANGED <<filled, fills, winner, fence>>
  BY DEF PlaceOco
<1>2. t1 \in Terms /\ t2 \in Terms
  BY DEF Terms, LegTypes, Immediate, Conditional
<1>3. g \in Owners /\ a \in Assets /\ a = SpentAsset(t2)
  BY AssetTypes DEF Owners, SpentAsset
<1>4. amount \in Nat
  <2>1. first.price \in Prices /\ second.price \in Prices /\ q \in Nat
    BY DEF Quantities
  <2>2. /\ PlannedBuyCash(first.type, first.price, q) \in Nat
        /\ PlannedBuyCash(second.type, second.price, q) \in Nat
    BY <2>1, PlannedTypes
  <2> QED
    BY <2>1, <2>2 DEF PlannedOcoAmount, LargerOf
<1>5. reservations[g].released
  BY <1>1 DEF LedgerInv, ReservationsFollowOrders
<1>6. t1.group = g /\ t2.group = g /\ t1 # None /\ t2 # None /\ g # None
  <2>1. t1.group = g /\ t2.group = g
    OBVIOUS
  <2>2. t1 # None /\ t2 # None /\ g # None
    BY <1>2, ConstantsAssumption
  <2> QED
    BY <2>1, <2>2
<1> HIDE DEF t1, t2, a, amount
<1>7. /\ balance' \in [Assets -> Balance]
      /\ reservations' \in ReservationRows
      /\ claims' \subseteq Keys \cup Quotes /\ sequence' \in Nat
      /\ LedgerReconciles'
      /\ \A x \in Owners \ {g} : reservations'[x] = reservations[x]
      /\ reservations'[g] = [asset |-> a, amount |-> amount, released |-> FALSE]
  <2>1. ClaimAndReserve(k, g, a, amount)
    BY <1>1
  <2> QED
    BY <2>1, <1>3, <1>4, <1>5, ReserveStep
<1>8. reservations'[g].asset = a /\ ~ reservations'[g].released
  BY <1>7
<1>9. /\ terms \in [Orders -> Terms \cup {None}]
      /\ status \in [Orders -> Terminal \cup Live \cup {"NONE"}]
      /\ groups \in [Groups -> {"NONE", "ACTIVE", "RESOLVED"}]
      /\ event \in [Orders -> Event]
  BY DEF LedgerInv, TypeOK
<1>10. Say("ORDER_PLACED") \in Event
  BY DEF Say, Event
<1>11. TypeOK'
  BY <1>1, <1>2, <1>7, <1>9, <1>10
     DEF LedgerInv, TypeOK, Balance, ReservationRows, Live
<1>12. /\ \A x \in Orders \ {o1, o2} : /\ terms'[x] = terms[x]
                                        /\ status'[x] = status[x]
       /\ terms'[o1] = t1 /\ terms'[o2] = t2
       /\ status'[o1] = "PENDING_TRIGGER" /\ status'[o2] = "PENDING_TRIGGER"
       /\ groups'[g] = "ACTIVE" /\ \A x \in Groups \ {g} : groups'[x] = groups[x]
  BY <1>1, <1>9
<1>13. ReservationsFollowOrders'
  <2>1. ASSUME NEW x \in Orders
        PROVE  ~ reservations'[x].released
                  <=> status'[x] \in Live /\ terms'[x].group = None
    <3>1. reservations'[x] = reservations[x]
      BY <1>7, ConstantsAssumption DEF Owners
    <3>2. ~ reservations[x].released
             <=> status[x] \in Live /\ terms[x].group = None
      BY DEF LedgerInv, ReservationsFollowOrders
    <3>3. CASE x \in {o1, o2}
      <4>1. status[x] \notin Live /\ terms'[x].group # None
        BY <3>3, <1>1, <1>6, <1>12 DEF Live
      <4> QED
        BY <4>1, <3>1, <3>2
    <3>4. CASE x \notin {o1, o2}
      BY <3>1, <3>2, <3>4, <1>12
    <3> QED
      BY <3>3, <3>4
  <2>2. ASSUME NEW x \in Groups
        PROVE  ~ reservations'[x].released <=> groups'[x] = "ACTIVE"
    BY <1>7, <1>8, <1>12 DEF LedgerInv, ReservationsFollowOrders, Owners
  <2> QED
    BY <2>1, <2>2 DEF ReservationsFollowOrders
<1>14. PlacedOrdersHaveTerms'
  <2>1. ASSUME NEW x \in Orders
        PROVE  status'[x] = "NONE" <=> terms'[x] = None
    BY <1>6, <1>12 DEF LedgerInv, PlacedOrdersHaveTerms
  <2>2. ASSUME NEW x \in Orders, terms'[x] # None, terms'[x].group # None
        PROVE  groups'[terms'[x].group] # "NONE"
    <3>1. CASE x \in {o1, o2}
      BY <3>1, <1>6, <1>12
    <3>2. CASE x \notin {o1, o2}
      <4>1. /\ terms[x].group \in Groups
            /\ groups[terms[x].group] # "NONE"
        BY <2>2, <3>2, <1>9, <1>12 DEF LedgerInv, PlacedOrdersHaveTerms, Terms
      <4> QED
        BY <4>1, <3>2, <1>12
    <3> QED
      BY <3>1, <3>2
  <2> QED
    BY <2>1, <2>2 DEF PlacedOrdersHaveTerms
<1>15. ReservationAssets'
  <2>1. ASSUME NEW x \in Orders, terms'[x] # None,
               ~ reservations'[OwnerOf(x)'].released
        PROVE  reservations'[OwnerOf(x)'].asset = SpentAsset(terms'[x])
    <3>1. CASE x \in {o1, o2}
      BY <3>1, <1>3, <1>6, <1>8, <1>12 DEF OwnerOf, a
    <3>2. CASE x \notin {o1, o2}
      <4>1. OwnerOf(x)' = OwnerOf(x) /\ terms'[x] = terms[x]
        BY <3>2, <1>12 DEF OwnerOf
      <4>2. OwnerOf(x) \in Owners
        BY <2>1, <4>1, <1>9 DEF OwnerOf, Owners, Terms
      <4>3. OwnerOf(x) # g
        BY <2>1, <4>1, <1>1, <1>9, ConstantsAssumption
           DEF OwnerOf, LedgerInv, PlacedOrdersHaveTerms
      <4> QED
        BY <2>1, <4>1, <4>2, <4>3, <1>7 DEF LedgerInv, ReservationAssets
    <3> QED
      BY <3>1, <3>2
  <2>2. \A r \in Owners : ~ reservations'[r].released
                             => reservations'[r].asset \in Assets
    BY <1>3, <1>7, <1>8 DEF LedgerInv, ReservationAssets
  <2> QED
    BY <2>1, <2>2 DEF ReservationAssets, SpentAsset
<1> QED
  BY <1>7, <1>11, <1>13, <1>14, <1>15 DEF LedgerInv

\* A fill, partial or terminal, whatever the engine believed was filled,
\* preserves the invariant.
LEMMA PersistFillStep ==
    ASSUME LedgerInv, NEW o \in Orders, NEW token, NEW e \in 0 .. MaxQuantity,
           NEW q \in 0 .. MaxQuantity, NEW p \in Prices,
           PersistFill(o, token, e, q, p)
    PROVE  LedgerInv'
<1> DEFINE n == e + q
           next == NextStatus(terms[o], n, q)
           terminal == next \in Terminal
<1>1. /\ terms[o] # None /\ terms[o].group = None /\ status[o] \notin Terminal
      /\ n <= terms[o].quantity
      /\ filled' = [filled EXCEPT ![o] = n]
      /\ status' = [status EXCEPT ![o] = next]
      /\ fills' = [fills EXCEPT ![o] = @ + q]
      /\ Settle(o, p, q, n, terminal)
      /\ event' = [event EXCEPT ![o] = SayFilled(next, n)]
      /\ sequence' = sequence + 1
      /\ UNCHANGED <<terms, winner, groups, claims, fence>>
  BY DEF PersistFill, Resting
<1>2. /\ terms[o] \in Terms
      /\ status \in [Orders -> Terminal \cup Live \cup {"NONE"}]
      /\ filled \in [Orders -> 0 .. MaxQuantity]
      /\ fills \in [Orders -> Nat] /\ event \in [Orders -> Event]
      /\ sequence \in Nat
  BY <1>1 DEF LedgerInv, TypeOK
<1>3. n \in 0 .. terms[o].quantity /\ n \in 0 .. MaxQuantity /\ n \in Nat
  BY <1>1, <1>2, ConstantsAssumption DEF Terms, Quantities
<1>4. next \in Terminal \cup Live /\ next # "NONE" /\ (next \in Live <=> ~ terminal)
  BY DEF NextStatus, Terminal, Live
<1>5. status[o] \in Live
  BY <1>1, <1>2 DEF LedgerInv, PlacedOrdersHaveTerms
<1>6. OwnerOf(o) = o /\ o \in Owners
  BY <1>1 DEF OwnerOf, Owners
<1>7. terminal \in BOOLEAN
  OBVIOUS
<1> HIDE DEF n, next, terminal
<1>8. /\ balance' \in [Assets -> Balance]
      /\ reservations' \in ReservationRows
      /\ LedgerReconciles'
      /\ \A w \in Owners \ {OwnerOf(o)} : reservations'[w] = reservations[w]
      /\ reservations'[OwnerOf(o)].asset = reservations[OwnerOf(o)].asset
      /\ reservations'[OwnerOf(o)].released
           = (reservations[OwnerOf(o)].released \/ terminal)
  BY <1>1, <1>3, <1>7, SettleStep, Zenon
<1>9. SayFilled(next, n) \in Event
  BY <1>3, <1>4 DEF SayFilled, Event
<1>10. TypeOK'
  <2>1. q \in Nat /\ fills' \in [Orders -> Nat]
    BY <1>1, <1>2
  <2> QED
    BY <2>1, <1>1, <1>2, <1>3, <1>4, <1>8, <1>9
       DEF LedgerInv, TypeOK, Balance, ReservationRows
<1>11. status'[o] = next /\ \A x \in Orders \ {o} : status'[x] = status[x]
  BY <1>1, <1>2
<1>12. ReservationsFollowOrders'
  <2>1. ASSUME NEW x \in Orders
        PROVE  ~ reservations'[x].released
                  <=> status'[x] \in Live /\ terms'[x].group = None
    <3>1. CASE x = o
      BY <3>1, <1>1, <1>4, <1>5, <1>6, <1>8, <1>11
         DEF LedgerInv, ReservationsFollowOrders
    <3>2. CASE x # o
      BY <3>2, <1>1, <1>6, <1>8, <1>11
         DEF LedgerInv, ReservationsFollowOrders, Owners
    <3> QED
      BY <3>1, <3>2
  <2>2. ASSUME NEW x \in Groups
        PROVE  ~ reservations'[x].released <=> groups'[x] = "ACTIVE"
    BY <1>1, <1>6, <1>8, ConstantsAssumption
       DEF LedgerInv, ReservationsFollowOrders, Owners
  <2> QED
    BY <2>1, <2>2 DEF ReservationsFollowOrders
<1>13. PlacedOrdersHaveTerms'
  BY <1>1, <1>4, <1>11 DEF LedgerInv, PlacedOrdersHaveTerms
<1>14. ReservationAssets'
  <2>1. \A x \in Orders : OwnerOf(x)' = OwnerOf(x)
    BY <1>1 DEF OwnerOf
  <2>2. \A x \in Orders : terms[x] # None => OwnerOf(x) \in Owners
    BY DEF LedgerInv, TypeOK, OwnerOf, Owners, Terms
  <2> QED
    BY <2>1, <2>2, <1>1, <1>6, <1>8
       DEF LedgerInv, ReservationAssets, SpentAsset
<1> QED
  BY <1>8, <1>10, <1>12, <1>13, <1>14 DEF LedgerInv

\* A trigger, with the cancellation of its sibling leg, preserves the
\* invariant.
LEMMA PersistTriggerStep ==
    ASSUME LedgerInv, NEW o \in Orders, NEW token, NEW p \in Prices,
           PersistTrigger(o, token, p)
    PROVE  LedgerInv'
<1> DEFINE t == terms[o]
           n == t.quantity
           siblings == {x \in Covered(o) \ {o} : status[x] \notin Terminal}
<1>1. /\ t # None /\ status[o] \notin Terminal
      /\ filled' = [filled EXCEPT ![o] = n]
      /\ fills' = [fills EXCEPT ![o] = @ + n]
      /\ winner' = [winner EXCEPT ![o] = t.group # None]
      /\ status' = [x \in Orders |-> IF x = o THEN "FILLED"
                                     ELSE IF x \in siblings THEN "CANCELLED"
                                     ELSE status[x]]
      /\ groups' = [g \in Groups |-> IF g = t.group /\ groups[g] = "ACTIVE"
                                     THEN "RESOLVED" ELSE groups[g]]
      /\ Settle(o, p, n, n, TRUE)
      /\ event' = [x \in Orders |->
                     IF x = o THEN SayFilled("FILLED", n)
                     ELSE IF x \in siblings THEN Say("ORDER_CANCELLED")
                     ELSE event[x]]
      /\ sequence' = sequence + 1 + Cardinality(siblings)
                       + (IF t.group = None THEN 0 ELSE 1)
      /\ UNCHANGED <<terms, claims, fence>>
  BY DEF PersistTrigger, Watched
<1>2. /\ t \in Terms
      /\ status \in [Orders -> Terminal \cup Live \cup {"NONE"}]
      /\ filled \in [Orders -> 0 .. MaxQuantity]
      /\ groups \in [Groups -> {"NONE", "ACTIVE", "RESOLVED"}]
      /\ winner \in [Orders -> BOOLEAN]
      /\ fills \in [Orders -> Nat] /\ event \in [Orders -> Event]
      /\ sequence \in Nat
  BY <1>1 DEF LedgerInv, TypeOK
<1>3. n \in 0 .. terms[o].quantity /\ n \in 0 .. MaxQuantity /\ n \in Nat
  BY <1>2, ConstantsAssumption DEF Terms, Quantities
<1>4. status[o] \in Live
  BY <1>1, <1>2 DEF LedgerInv, PlacedOrdersHaveTerms
<1>5. /\ siblings \in SUBSET Orders
      /\ \A x \in siblings : terms[x] # None /\ terms[x].group # None
      /\ Cardinality(siblings) \in Nat
  <2>1. siblings \in SUBSET Orders
    BY DEF Covered, Legs
  <2>2. \A x \in siblings : terms[x] # None /\ terms[x].group # None
    BY DEF Covered, Legs
  <2>3. IsFiniteSet(siblings)
    BY <2>1, ConstantsAssumption, FS_Subset, Zenon
  <2> QED
    BY <2>1, <2>2, <2>3, FS_CardinalityType
<1> HIDE DEF siblings, n
<1>6. /\ balance' \in [Assets -> Balance]
      /\ reservations' \in ReservationRows
      /\ LedgerReconciles'
      /\ \A w \in Owners \ {OwnerOf(o)} : reservations'[w] = reservations[w]
      /\ reservations'[OwnerOf(o)].asset = reservations[OwnerOf(o)].asset
      /\ reservations'[OwnerOf(o)].released = TRUE
  <2>1. reservations'[OwnerOf(o)].released
          = (reservations[OwnerOf(o)].released \/ TRUE)
    BY <1>1, <1>3, SettleStep, Zenon
  <2> QED
    BY <2>1, <1>1, <1>3, SettleStep, Zenon
<1>7. /\ SayFilled("FILLED", n) \in Event /\ Say("ORDER_CANCELLED") \in Event
      /\ "FILLED" \in Terminal /\ "CANCELLED" \in Terminal
  BY <1>3 DEF SayFilled, Say, Event, Terminal
<1>8. TypeOK'
  <2>1. fills' \in [Orders -> Nat] /\ filled' \in [Orders -> 0 .. MaxQuantity]
    BY <1>1, <1>2, <1>3
  <2>2. /\ status' \in [Orders -> Terminal \cup Live \cup {"NONE"}]
        /\ event' \in [Orders -> Event]
        /\ groups' \in [Groups -> {"NONE", "ACTIVE", "RESOLVED"}]
        /\ winner' \in [Orders -> BOOLEAN]
    BY <1>1, <1>2, <1>7
  <2>3. sequence' \in Nat
    BY <1>1, <1>2, <1>5
  <2> QED
    BY <2>1, <2>2, <2>3, <1>1, <1>6
       DEF LedgerInv, TypeOK, Balance, ReservationRows
<1>9. ReservationsFollowOrders'
  <2>1. ASSUME NEW x \in Orders
        PROVE  ~ reservations'[x].released
                  <=> status'[x] \in Live /\ terms'[x].group = None
    <3>1. CASE x = o
      <4>1. status'[x] \notin Live
        BY <3>1, <1>1 DEF Live
      <4>2. CASE t.group = None
        BY <3>1, <4>1, <4>2, <1>6 DEF OwnerOf
      <4>3. CASE t.group # None
        <5>1. reservations'[x] = reservations[x]
          BY <3>1, <4>3, <1>2, <1>6, ConstantsAssumption
             DEF OwnerOf, Owners, Terms
        <5> QED
          BY <5>1, <4>1, <4>3, <3>1 DEF LedgerInv, ReservationsFollowOrders
      <4> QED
        BY <4>2, <4>3
    <3>2. CASE x # o
      <4>1. reservations'[x] = reservations[x]
        BY <3>2, <1>2, <1>6, ConstantsAssumption DEF OwnerOf, Owners, Terms
      <4>2. ~ reservations[x].released
               <=> status[x] \in Live /\ terms[x].group = None
        BY DEF LedgerInv, ReservationsFollowOrders
      <4>3. status'[x] # status[x] => terms[x].group # None
        BY <3>2, <1>1, <1>5
      <4> QED
        BY <4>1, <4>2, <4>3, <1>1
    <3> QED
      BY <3>1, <3>2
  <2>2. ASSUME NEW x \in Groups
        PROVE  ~ reservations'[x].released <=> groups'[x] = "ACTIVE"
    <3>1. CASE x = t.group
      <4>1. OwnerOf(o) = x
        BY <3>1, ConstantsAssumption DEF OwnerOf
      <4>2. groups'[x] # "ACTIVE"
        BY <3>1, <1>1
      <4> QED
        BY <4>1, <4>2, <1>6
    <3>2. CASE x # t.group
      <4>1. x \in Owners \ {OwnerOf(o)} /\ groups'[x] = groups[x]
        BY <3>2, <1>1, ConstantsAssumption DEF OwnerOf, Owners
      <4> QED
        BY <4>1, <1>6 DEF LedgerInv, ReservationsFollowOrders
    <3> QED
      BY <3>1, <3>2
  <2> QED
    BY <2>1, <2>2 DEF ReservationsFollowOrders
<1>10. PlacedOrdersHaveTerms'
  <2>1. ASSUME NEW x \in Orders
        PROVE  status'[x] = "NONE" <=> terms'[x] = None
    BY <1>1, <1>5 DEF LedgerInv, PlacedOrdersHaveTerms
  <2>2. ASSUME NEW x \in Orders, terms[x] # None, terms[x].group # None
        PROVE  groups'[terms[x].group] # "NONE"
    <3>1. terms[x].group \in Groups /\ groups[terms[x].group] # "NONE"
      BY <2>2 DEF LedgerInv, TypeOK, PlacedOrdersHaveTerms, Terms
    <3> QED
      BY <3>1, <1>1
  <2> QED
    BY <2>1, <2>2, <1>1 DEF PlacedOrdersHaveTerms
<1>11. ReservationAssets'
  <2>1. \A x \in Orders : OwnerOf(x)' = OwnerOf(x)
    BY <1>1 DEF OwnerOf
  <2>2. \A x \in Orders : terms[x] # None => OwnerOf(x) \in Owners
    BY DEF LedgerInv, TypeOK, OwnerOf, Owners, Terms
  <2> QED
    BY <2>1, <2>2, <1>1, <1>6 DEF LedgerInv, ReservationAssets, SpentAsset
<1> QED
  BY <1>6, <1>8, <1>9, <1>10, <1>11 DEF LedgerInv

\* A cancellation of an order or of a whole OCO group preserves the invariant.
LEMMA CancelStep ==
    ASSUME LedgerInv, NEW o \in Orders, Cancel(o)
    PROVE  LedgerInv'
<1> DEFINE w == OwnerOf(o)
           r == reservations[w]
           cancelled == {x \in Covered(o) : status[x] \notin Terminal}
<1>1. /\ status[o] \in Live
      /\ r.released \/ balance[r.asset].reserved >= r.amount
      /\ status' = [x \in Orders |-> IF x \in cancelled THEN "CANCELLED"
                                                        ELSE status[x]]
      /\ groups' = [g \in Groups |->
                      IF g = terms[o].group /\ groups[g] = "ACTIVE"
                      THEN "RESOLVED" ELSE groups[g]]
      /\ balance' = IF r.released THEN balance
                    ELSE [balance EXCEPT ![r.asset] = Released(@, r.amount)]
      /\ reservations' = [reservations EXCEPT ![w].released = TRUE]
      /\ event' = [x \in Orders |-> IF x \in cancelled
                                    THEN Say("ORDER_CANCELLED") ELSE event[x]]
      /\ sequence' = sequence + Cardinality(cancelled)
      /\ UNCHANGED <<terms, filled, fills, winner, claims, fence>>
  BY DEF Cancel
<1>2. /\ terms[o] \in Terms /\ terms[o] # None
      /\ status \in [Orders -> Terminal \cup Live \cup {"NONE"}]
      /\ groups \in [Groups -> {"NONE", "ACTIVE", "RESOLVED"}]
      /\ balance \in [Assets -> Balance] /\ reservations \in ReservationRows
      /\ event \in [Orders -> Event] /\ sequence \in Nat
  BY <1>1 DEF LedgerInv, TypeOK, PlacedOrdersHaveTerms, Live, Balance,
              ReservationRows
<1>3. w \in Owners /\ r.amount \in Nat
  BY <1>2 DEF OwnerOf, Owners, Terms, ReservationRows
<1>4. /\ cancelled \in SUBSET Orders /\ o \in cancelled
      /\ \A x \in cancelled \ {o} : terms[x] # None /\ terms[x].group # None
      /\ Cardinality(cancelled) \in Nat
  <2>1. cancelled \in SUBSET Orders
    BY DEF Covered, Legs
  <2>2. o \in cancelled
    BY <1>1, <1>2 DEF Covered, Legs, Live, Terminal
  <2>3. \A x \in cancelled \ {o} : terms[x] # None /\ terms[x].group # None
    BY DEF Covered, Legs
  <2>4. IsFiniteSet(cancelled)
    BY <2>1, ConstantsAssumption, FS_Subset, Zenon
  <2> QED
    BY <2>1, <2>2, <2>3, <2>4, FS_CardinalityType
<1> HIDE DEF cancelled
<1>5. ~ r.released => r.asset \in Assets
  BY <1>3 DEF LedgerInv, ReservationAssets
<1>6. balance' \in [Assets -> Balance]
  <2>1. CASE r.released
    BY <2>1, <1>1, <1>2
  <2>2. CASE ~ r.released
    <3>1. Released(balance[r.asset], r.amount) \in Balance
      BY <2>2, <1>1, <1>2, <1>3, <1>5 DEF Balance, Released
    <3> QED
      BY <3>1, <2>2, <1>1, <1>2, <1>5
  <2> QED
    BY <2>1, <2>2
<1>7. /\ reservations' \in ReservationRows
      /\ \A x \in Owners \ {w} : reservations'[x] = reservations[x]
      /\ reservations'[w].asset = r.asset /\ reservations'[w].released
  BY <1>1, <1>2, <1>3 DEF ReservationRows
<1>8. LedgerReconciles'
  <2> SUFFICES ASSUME NEW a \in Assets
               PROVE  /\ balance'[a].total
                            = balance'[a].available + balance'[a].reserved
                      /\ balance'[a].reserved = Total(Held(a)')
    BY DEF LedgerReconciles
  <2>1. /\ Total(Held(a)) \in Nat /\ Held(a)[w] \in Nat
        /\ Total(Held(a)') = Total(Held(a)) - Held(a)[w] + Held(a)'[w]
    BY <1>3, <1>7, HeldChange DEF LedgerInv
  <2>2. /\ balance[a].total = balance[a].available + balance[a].reserved
        /\ balance[a].reserved = Total(Held(a)) /\ balance[a] \in Balance
    BY <1>2 DEF LedgerInv, LedgerReconciles
  <2>3. /\ Held(a)'[w] = 0
        /\ Held(a)[w] = IF r.released \/ r.asset # a THEN 0 ELSE r.amount
    BY <1>3, <1>7 DEF Held
  <2>4. balance'[a] = IF r.released \/ r.asset # a THEN balance[a]
                      ELSE Released(balance[a], r.amount)
    BY <1>1, <1>2, <1>5
  <2> QED
    BY <2>1, <2>2, <2>3, <2>4, <1>3 DEF Balance, Released
<1>9. Say("ORDER_CANCELLED") \in Event /\ "CANCELLED" \in Terminal
  BY DEF Say, Event, Terminal
<1>10. TypeOK'
  <2>1. /\ status' \in [Orders -> Terminal \cup Live \cup {"NONE"}]
        /\ event' \in [Orders -> Event]
        /\ groups' \in [Groups -> {"NONE", "ACTIVE", "RESOLVED"}]
    BY <1>1, <1>2, <1>9
  <2>2. sequence' \in Nat
    BY <1>1, <1>2, <1>4
  <2> QED
    BY <2>1, <2>2, <1>1, <1>6, <1>7
       DEF LedgerInv, TypeOK, Balance, ReservationRows
<1>11. ReservationsFollowOrders'
  <2>1. ASSUME NEW x \in Orders
        PROVE  ~ reservations'[x].released
                  <=> status'[x] \in Live /\ terms'[x].group = None
    <3>1. CASE x = o
      <4>1. status'[x] \notin Live
        BY <3>1, <1>1, <1>4 DEF Live
      <4>2. CASE terms[o].group = None
        BY <3>1, <4>1, <4>2, <1>7 DEF OwnerOf
      <4>3. CASE terms[o].group # None
        <5>1. reservations'[x] = reservations[x]
          BY <3>1, <4>3, <1>2, <1>7, ConstantsAssumption
             DEF OwnerOf, Owners, Terms
        <5> QED
          BY <5>1, <4>1, <4>3, <3>1 DEF LedgerInv, ReservationsFollowOrders
      <4> QED
        BY <4>2, <4>3
    <3>2. CASE x # o
      <4>1. reservations'[x] = reservations[x]
        BY <3>2, <1>2, <1>7, ConstantsAssumption DEF OwnerOf, Owners, Terms
      <4>2. ~ reservations[x].released
               <=> status[x] \in Live /\ terms[x].group = None
        BY DEF LedgerInv, ReservationsFollowOrders
      <4>3. status'[x] # status[x] => terms[x].group # None
        BY <3>2, <1>1, <1>4
      <4> QED
        BY <4>1, <4>2, <4>3, <1>1
    <3> QED
      BY <3>1, <3>2
  <2>2. ASSUME NEW x \in Groups
        PROVE  ~ reservations'[x].released <=> groups'[x] = "ACTIVE"
    <3>1. CASE x = terms[o].group
      <4>1. w = x
        BY <3>1, ConstantsAssumption DEF OwnerOf
      <4>2. groups'[x] # "ACTIVE"
        BY <3>1, <1>1
      <4> QED
        BY <4>1, <4>2, <1>7
    <3>2. CASE x # terms[o].group
      <4>1. x \in Owners \ {w} /\ groups'[x] = groups[x]
        BY <3>2, <1>1, ConstantsAssumption DEF OwnerOf, Owners
      <4> QED
        BY <4>1, <1>7 DEF LedgerInv, ReservationsFollowOrders
    <3> QED
      BY <3>1, <3>2
  <2> QED
    BY <2>1, <2>2 DEF ReservationsFollowOrders
<1>12. PlacedOrdersHaveTerms'
  <2>1. ASSUME NEW x \in Orders
        PROVE  status'[x] = "NONE" <=> terms'[x] = None
    BY <1>1, <1>2, <1>4 DEF LedgerInv, PlacedOrdersHaveTerms
  <2>2. ASSUME NEW x \in Orders, terms[x] # None, terms[x].group # None
        PROVE  groups'[terms[x].group] # "NONE"
    <3>1. terms[x].group \in Groups /\ groups[terms[x].group] # "NONE"
      BY <2>2 DEF LedgerInv, TypeOK, PlacedOrdersHaveTerms, Terms
    <3> QED
      BY <3>1, <1>1
  <2> QED
    BY <2>1, <2>2, <1>1 DEF PlacedOrdersHaveTerms
<1>13. ReservationAssets'
  <2>1. \A x \in Orders : OwnerOf(x)' = OwnerOf(x)
    BY <1>1 DEF OwnerOf
  <2>2. \A x \in Orders : terms[x] # None => OwnerOf(x) \in Owners
    BY DEF LedgerInv, TypeOK, OwnerOf, Owners, Terms
  <2> QED
    BY <2>1, <2>2, <1>1, <1>7 DEF LedgerInv, ReservationAssets, SpentAsset
<1> QED
  BY <1>8, <1>10, <1>11, <1>12, <1>13 DEF LedgerInv

\* A conversion touches available cash only and preserves the invariant.
LEMMA FxConvertStep ==
    ASSUME LedgerInv, NEW x \in Quotes, FxConvert(x)
    PROVE  LedgerInv'
<1> DEFINE c == QuoteTerms[x]
<1>1. /\ balance[c.from].available >= c.source
      /\ claims' = claims \cup {x}
      /\ balance' = [balance EXCEPT ![c.from] = Debited(@, c.source),
                                    ![c.to] = Credited(@, c.target)]
      /\ sequence' = sequence + 1
      /\ UNCHANGED <<terms, status, filled, fills, winner, groups,
                     reservations, event, fence>>
  BY DEF FxConvert
<1>2. /\ c.from \in Assets /\ c.to \in Assets /\ c.from # c.to
      /\ c.source \in Nat /\ c.target \in Nat
  BY ConstantsAssumption DEF Assets
<1>3. balance \in [Assets -> Balance]
  BY DEF LedgerInv, TypeOK, Balance
<1> HIDE DEF c
<1>4. ASSUME NEW a \in Assets
      PROVE  /\ balance'[a] \in Balance
             /\ balance'[a].total = balance'[a].available + balance'[a].reserved
             /\ balance'[a].reserved = balance[a].reserved
  <2>1. /\ balance[a].total = balance[a].available + balance[a].reserved
        /\ balance[a] \in Balance
    BY <1>3 DEF LedgerInv, LedgerReconciles
  <2>2. balance'[a] = IF a = c.to THEN Credited(balance[a], c.target)
                      ELSE IF a = c.from THEN Debited(balance[a], c.source)
                      ELSE balance[a]
    BY <1>1, <1>2, <1>3
  <2> QED
    BY <2>1, <2>2, <1>1, <1>2 DEF Balance, Credited, Debited
<1>5. balance' \in [Assets -> Balance]
  BY <1>1, <1>3, <1>4
<1>6. TypeOK'
  BY <1>1, <1>5 DEF LedgerInv, TypeOK, Balance
<1>7. LedgerReconciles'
  <2>1. \A a \in Assets : Held(a)' = Held(a)
    BY <1>1 DEF Held
  <2> QED
    BY <2>1, <1>4 DEF LedgerInv, LedgerReconciles
<1> QED
  BY <1>1, <1>6, <1>7
     DEF LedgerInv, ReservationsFollowOrders, PlacedOrdersHaveTerms,
         ReservationAssets, OwnerOf, SpentAsset

\* A change of leader writes no ledger row.
LEMMA BumpFenceStep ==
    ASSUME LedgerInv, NEW m \in Markets, BumpFence(m)
    PROVE  LedgerInv'
<1>1. TypeOK'
  BY ConstantsAssumption DEF LedgerInv, TypeOK, BumpFence, rows
<1> QED
  BY <1>1 DEF LedgerInv, BumpFence, rows, LedgerReconciles, Held,
      ReservationsFollowOrders, PlacedOrdersHaveTerms, ReservationAssets,
      OwnerOf, SpentAsset

\* A fresh session satisfies the invariant.
LEMMA LedgerInit == Init => LedgerInv
<1> SUFFICES ASSUME Init PROVE LedgerInv
  OBVIOUS
<1>1. TypeOK
  <2>1. Say("NONE") \in Event
    BY DEF Say, Event
  <2>2. 0 \in 0 .. MaxQuantity /\ 0 \in 0 .. MaxToken
    BY ConstantsAssumption
  <2> QED
    BY <2>1, <2>2, ConstantsAssumption DEF Init, TypeOK
<1>2. LedgerReconciles
  <2> SUFFICES ASSUME NEW a \in Assets
               PROVE  /\ balance[a].total
                            = balance[a].available + balance[a].reserved
                      /\ balance[a].reserved = Total(Held(a))
    BY DEF LedgerReconciles
  <2>1. \A w \in DOMAIN Held(a) : Held(a)[w] = 0
    BY DEF Held, Init
  <2>2. Total(Held(a)) = 0
    BY <2>1, TotalZero
  <2> QED
    BY <2>2, ConstantsAssumption DEF Init
<1>3. ReservationsFollowOrders
  BY DEF Init, ReservationsFollowOrders, Owners, Live
<1>4. PlacedOrdersHaveTerms
  BY DEF Init, PlacedOrdersHaveTerms
<1>5. ReservationAssets
  BY DEF Init, ReservationAssets
<1> QED
  BY <1>1, <1>2, <1>3, <1>4, <1>5 DEF LedgerInv

\* Every step preserves the invariant, by the lemma of its action.
LEMMA LedgerNext == LedgerInv /\ [Next]_vars => LedgerInv'
<1> SUFFICES ASSUME LedgerInv, [Next]_vars PROVE LedgerInv'
  OBVIOUS
<1>1. CASE PlaceSomeOrder
  BY <1>1, PlaceSingleStep DEF PlaceSomeOrder
<1>2. CASE PlaceSomeOco
  BY <1>2, PlaceOcoStep DEF PlaceSomeOco
<1>3. CASE PersistSomeFill
  BY <1>3, PersistFillStep DEF PersistSomeFill
<1>4. CASE PersistSomeTrigger
  BY <1>4, PersistTriggerStep DEF PersistSomeTrigger
<1>5. CASE \E o \in Orders : Cancel(o)
  BY <1>5, CancelStep
<1>6. CASE \E x \in Quotes : FxConvert(x)
  BY <1>6, FxConvertStep
<1>7. CASE \E m \in Markets : BumpFence(m)
  BY <1>7, BumpFenceStep
<1>8. CASE UNCHANGED vars
  BY <1>8 DEF vars, rows, LedgerInv, TypeOK, LedgerReconciles, Held,
      ReservationsFollowOrders, PlacedOrdersHaveTerms, ReservationAssets,
      OwnerOf, SpentAsset
<1> QED
  BY <1>1, <1>2, <1>3, <1>4, <1>5, <1>6, <1>7, <1>8 DEF Next

\* In every state of every session the inductive invariant holds.
THEOREM LedgerInvariant == Spec => []LedgerInv
BY LedgerInit, LedgerNext, PTL DEF Spec

\* No balance, quantity or reservation is ever negative or ill typed.
THEOREM LedgerTypes == Spec => []TypeOK
<1>1. LedgerInv => TypeOK
  BY DEF LedgerInv
<1> QED
  BY <1>1, LedgerInvariant, PTL

\* What startup verifies about wallets, positions and reservations holds in
\* every reachable state: no mutation can make the check fail.
THEOREM LedgerAlwaysReconciles == Spec => []LedgerReconciles
<1>1. LedgerInv => LedgerReconciles
  BY DEF LedgerInv
<1> QED
  BY <1>1, LedgerInvariant, PTL

\* Reservations are released exactly when their order or group ends.
THEOREM ReservationsAlwaysFollow == Spec => []ReservationsFollowOrders
<1>1. LedgerInv => ReservationsFollowOrders
  BY DEF LedgerInv
<1> QED
  BY <1>1, LedgerInvariant, PTL

\* A terminal order is never written again.
THEOREM TerminalOrdersAreFinal == Spec => TerminalIsFinal
<1> DEFINE Final == \A o \in Orders : status[o] \in Terminal =>
                       /\ status'[o] = status[o]
                       /\ filled'[o] = filled[o]
                       /\ fills'[o] = fills[o]
<1>1. ASSUME LedgerInv, Next PROVE Final
  <2>0. /\ status \in [Orders -> Terminal \cup Live \cup {"NONE"}]
        /\ filled \in [Orders -> 0 .. MaxQuantity] /\ fills \in [Orders -> Nat]
        /\ "NONE" \notin Terminal
    BY <1>1 DEF LedgerInv, TypeOK, Terminal
  <2>1. CASE PlaceSomeOrder
    BY <2>0, <2>1 DEF PlaceSomeOrder, PlaceSingle
  <2>2. CASE PlaceSomeOco
    BY <2>0, <2>2 DEF PlaceSomeOco, PlaceOco
  <2>3. CASE PersistSomeFill
    BY <2>0, <2>3 DEF PersistSomeFill, PersistFill, Resting
  <2>4. CASE PersistSomeTrigger
    BY <2>0, <2>4 DEF PersistSomeTrigger, PersistTrigger, Watched
  <2>5. CASE \E o \in Orders : Cancel(o)
    BY <2>0, <2>5 DEF Cancel
  <2>6. CASE (\E x \in Quotes : FxConvert(x)) \/ (\E m \in Markets : BumpFence(m))
    BY <2>6 DEF FxConvert, BumpFence, rows
  <2> QED
    BY <1>1, <2>1, <2>2, <2>3, <2>4, <2>5, <2>6 DEF Next
<1>2. LedgerInv /\ [Next]_vars => [Final]_vars
  BY <1>1
<1> QED
  BY <1>2, LedgerInvariant, PTL DEF Spec, TerminalIsFinal

(***************************************************************************)
(* What becomes of an order.                                               *)
(***************************************************************************)
\* An order that was never placed has no fill, no win and no event.
UnplacedOrdersAreFresh ==
    \A o \in Orders : status[o] = "NONE" =>
        /\ filled[o] = 0 /\ fills[o] = 0
        /\ event[o].type = "NONE"

\* Only a fill makes a winner.
WinnersAreFilled == \A o \in Orders : winner[o] => status[o] = "FILLED"

\* The event of one order tells its row.
Tells(o) ==
    /\ event[o].type = "NONE" =>
         \/ status[o] = "NONE"
         \/ status[o] = "PENDING_TRIGGER" /\ terms[o].group # None
    /\ event[o].type = "ORDER_PLACED" =>
         status[o] \in {"OPEN", "PENDING_TRIGGER"} /\ filled[o] = 0
    /\ event[o].type = "ORDER_FILLED" =>
         status[o] = event[o].status /\ filled[o] = event[o].filled
    /\ event[o].type = "ORDER_CANCELLED" => status[o] = "CANCELLED"

\* The inductive invariant, next to LedgerInv.
OutcomeInv ==
    /\ UnplacedOrdersAreFresh
    /\ WinnersAreFilled
    /\ \A o \in Orders : Tells(o)
    /\ OcoResolution
    /\ SharesConserved

(***************************************************************************)
(* Events.                                                                 *)
(***************************************************************************)
LEMMA TellsOne ==
    ASSUME NEW o \in Orders,
           event[o].type \in {"NONE", "ORDER_PLACED", "ORDER_FILLED",
                              "ORDER_CANCELLED"}
    PROVE  (CASE event[o].type = "NONE" ->
                   \/ status[o] = "NONE"
                   \/ status[o] = "PENDING_TRIGGER" /\ terms[o].group # None
              [] event[o].type = "ORDER_PLACED" ->
                   status[o] \in {"OPEN", "PENDING_TRIGGER"} /\ filled[o] = 0
              [] event[o].type = "ORDER_FILLED" ->
                   status[o] = event[o].status /\ filled[o] = event[o].filled
              [] event[o].type = "ORDER_CANCELLED" -> status[o] = "CANCELLED")
           <=> Tells(o)
BY DEF Tells

\* EventsTellRows, order by order.
LEMMA EventsOneByOne ==
    ASSUME TypeOK
    PROVE  EventsTellRows <=> \A o \in Orders : Tells(o)
<1>1. \A o \in Orders : event[o].type \in {"NONE", "ORDER_PLACED",
                                           "ORDER_FILLED", "ORDER_CANCELLED"}
  BY DEF TypeOK, Event
<1> QED
  BY <1>1, TellsOne DEF EventsTellRows

\* Columns and the events written to them.
LEMMA ColumnTypes ==
    ASSUME LedgerInv
    PROVE  /\ DOMAIN status = Orders /\ DOMAIN filled = Orders
           /\ DOMAIN fills = Orders /\ DOMAIN winner = Orders
           /\ DOMAIN event = Orders /\ DOMAIN terms = Orders
           /\ DOMAIN groups = Groups /\ DOMAIN balance = Assets
           /\ \A o \in Orders : status[o] = "NONE" <=> terms[o] = None
           /\ \A o \in Orders : terms[o] # None => terms[o] \in Terms
BY DEF LedgerInv, TypeOK, PlacedOrdersHaveTerms

\* Every event tells the row its transaction has written, and orders without a
\* row have none.
LEMMA EventsStep ==
    ASSUME LedgerInv, UnplacedOrdersAreFresh, \A o \in Orders : Tells(o),
           [Next]_vars
    PROVE  UnplacedOrdersAreFresh' /\ \A o \in Orders : Tells(o)'
<1> USE DEF UnplacedOrdersAreFresh, Tells, Say, SayFilled
<1>0. /\ DOMAIN status = Orders /\ DOMAIN filled = Orders
      /\ DOMAIN fills = Orders /\ DOMAIN event = Orders /\ DOMAIN terms = Orders
      /\ \A o \in Orders : status[o] = "NONE" <=> terms[o] = None
  BY ColumnTypes
<1>1. ASSUME NEW o \in Orders, NEW k \in Keys, NEW side \in Sides,
             NEW s \in Symbols, NEW p \in Prices, NEW q \in Quantities,
             NEW type \in Immediate \cup Conditional,
             PlaceSingle(o, k, side, type, s, p, q)
      PROVE  UnplacedOrdersAreFresh' /\ \A x \in Orders : Tells(x)'
  <2>1. /\ status[o] = "NONE" /\ UNCHANGED <<filled, fills>>
        /\ \E st \in {"PENDING_TRIGGER", "OPEN"} : status' = [status EXCEPT ![o] = st]
        /\ \E t : terms' = [terms EXCEPT ![o] = t]
        /\ event' = [event EXCEPT ![o] = Say("ORDER_PLACED")]
    BY <1>1 DEF PlaceSingle
  <2> QED
    BY <1>0, <2>1
<1>2. ASSUME NEW o1 \in Orders, NEW o2 \in Orders, NEW g \in Groups,
             NEW k \in Keys, NEW side \in Sides, NEW s \in Symbols,
             NEW q \in Quantities,
             NEW first \in [type : LegTypes, price : Prices],
             NEW second \in [type : LegTypes, price : Prices],
             PlaceOco(o1, o2, g, k, side, s, q, first, second)
      PROVE  UnplacedOrdersAreFresh' /\ \A x \in Orders : Tells(x)'
  <2> DEFINE t(leg) == [side |-> side, type |-> leg.type, symbol |-> s,
                        quantity |-> q, price |-> leg.price, group |-> g,
                        key |-> k]
  <2>1. /\ o1 # o2 /\ status[o1] = "NONE" /\ status[o2] = "NONE"
        /\ UNCHANGED <<filled, fills>>
        /\ terms' = [terms EXCEPT ![o1] = t(first), ![o2] = t(second)]
        /\ status' = [status EXCEPT ![o1] = "PENDING_TRIGGER",
                                    ![o2] = "PENDING_TRIGGER"]
        /\ event' = [event EXCEPT ![o1] = Say("ORDER_PLACED")]
    BY <1>2 DEF PlaceOco
  <2>2. g # None /\ t(second).group = g
    BY ConstantsAssumption
  <2> HIDE DEF t
  <2>3. /\ terms'[o2] = t(second)
        /\ \A x \in Orders \ {o1, o2} : /\ terms'[x] = terms[x]
                                        /\ status'[x] = status[x]
                                        /\ event'[x] = event[x]
        /\ status'[o1] = "PENDING_TRIGGER" /\ status'[o2] = "PENDING_TRIGGER"
        /\ event'[o1] = Say("ORDER_PLACED") /\ event'[o2] = event[o2]
    BY <1>0, <2>1
  <2> QED
    BY <1>0, <2>1, <2>2, <2>3
<1>3. ASSUME NEW o \in Orders, NEW token, NEW e, NEW q, NEW p,
             PersistFill(o, token, e, q, p)
      PROVE  UnplacedOrdersAreFresh' /\ \A x \in Orders : Tells(x)'
  <2> DEFINE next == NextStatus(terms[o], e + q, q)
  <2>1. /\ filled' = [filled EXCEPT ![o] = e + q]
        /\ status' = [status EXCEPT ![o] = next]
        /\ event' = [event EXCEPT ![o] = SayFilled(next, e + q)]
        /\ \A x \in Orders \ {o} : fills'[x] = fills[x]
        /\ UNCHANGED terms
    BY <1>0, <1>3 DEF PersistFill
  <2>2. next # "NONE"
    BY DEF NextStatus
  <2> HIDE DEF next
  <2> QED
    BY <1>0, <2>1, <2>2
<1>4. ASSUME NEW o \in Orders, NEW token, NEW p, PersistTrigger(o, token, p)
      PROVE  UnplacedOrdersAreFresh' /\ \A x \in Orders : Tells(x)'
  <2> DEFINE siblings == {x \in Covered(o) \ {o} : status[x] \notin Terminal}
             n == terms[o].quantity
  <2>1. /\ filled' = [filled EXCEPT ![o] = n]
        /\ \A x \in Orders \ {o} : fills'[x] = fills[x]
        /\ status' = [x \in Orders |-> IF x = o THEN "FILLED"
                                       ELSE IF x \in siblings THEN "CANCELLED"
                                       ELSE status[x]]
        /\ event' = [x \in Orders |->
                       IF x = o THEN SayFilled("FILLED", n)
                       ELSE IF x \in siblings THEN Say("ORDER_CANCELLED")
                       ELSE event[x]]
        /\ UNCHANGED terms
    BY <1>0, <1>4 DEF PersistTrigger
  <2> HIDE DEF siblings, n
  <2> QED
    BY <1>0, <2>1
<1>5. ASSUME NEW o \in Orders, Cancel(o)
      PROVE  UnplacedOrdersAreFresh' /\ \A x \in Orders : Tells(x)'
  <2> DEFINE cancelled == {x \in Covered(o) : status[x] \notin Terminal}
  <2>1. /\ status' = [x \in Orders |-> IF x \in cancelled THEN "CANCELLED"
                                                          ELSE status[x]]
        /\ event' = [x \in Orders |-> IF x \in cancelled
                                      THEN Say("ORDER_CANCELLED") ELSE event[x]]
        /\ UNCHANGED <<filled, fills, terms>>
    BY <1>5 DEF Cancel
  <2> HIDE DEF cancelled
  <2> QED
    BY <1>0, <2>1
<1>6. CASE UNCHANGED <<terms, status, filled, fills, event>>
  BY <1>6
<1>7. ASSUME \/ \E x \in Quotes : FxConvert(x)
             \/ \E m \in Markets : BumpFence(m)
             \/ UNCHANGED vars
      PROVE  UNCHANGED <<terms, status, filled, fills, event>>
  BY <1>7 DEF FxConvert, BumpFence, rows, vars
<1> QED
  BY <1>1, <1>2, <1>3, <1>4, <1>5, <1>6, <1>7
     DEF Next, PlaceSomeOrder, PlaceSomeOco, PersistSomeFill, PersistSomeTrigger

(***************************************************************************)
(* One cancels the other.                                                  *)
(***************************************************************************)
\* What OcoResolution says of one group.
Resolves(g) ==
    /\ groups[g] = "ACTIVE" =>
          /\ Cardinality(Legs(g)) = 2
          /\ \A o \in Legs(g) : status[o] = "PENDING_TRIGGER"
    /\ groups[g] = "RESOLVED" =>
          /\ \A o \in Legs(g) : status[o] \in Terminal
          /\ \A o \in Legs(g) : winner[o] <=> status[o] = "FILLED"
          /\ \A o, x \in Legs(g) : winner[o] /\ winner[x] => o = x

\* A group whose legs nobody writes stays as it is.
LEMMA UntouchedGroup ==
    ASSUME NEW g \in Groups, Resolves(g), Legs(g)' = Legs(g),
           groups'[g] = groups[g],
           \A x \in Legs(g) : status'[x] = status[x] /\ winner'[x] = winner[x]
    PROVE  Resolves(g)'
BY DEF Resolves

\* A watched or live leg belongs to a group whose legs are all pending.
LEMMA PendingPair ==
    ASSUME LedgerInv, OcoResolution, NEW o \in Orders, terms[o] # None,
           terms[o].group # None, status[o] \notin Terminal
    PROVE  /\ terms[o].group \in Groups /\ groups[terms[o].group] = "ACTIVE"
           /\ o \in Legs(terms[o].group)
           /\ \A x \in Legs(terms[o].group) : status[x] = "PENDING_TRIGGER"
<1> DEFINE g == terms[o].group
<1>1. g \in Groups /\ o \in Legs(g)
  BY DEF LedgerInv, TypeOK, Terms, Legs
<1>2. groups[g] \in {"ACTIVE", "RESOLVED"}
  BY <1>1 DEF LedgerInv, TypeOK, PlacedOrdersHaveTerms
<1>3. groups[g] # "RESOLVED"
  BY <1>1 DEF OcoResolution
<1> QED
  BY <1>1, <1>2, <1>3 DEF OcoResolution

\* A pair is placed whole, triggers or is cancelled as a whole, and the leg
\* that triggered is its only winner.
LEMMA OcoStep ==
    ASSUME LedgerInv, WinnersAreFilled, OcoResolution, [Next]_vars
    PROVE  WinnersAreFilled' /\ OcoResolution'
<1>0. /\ DOMAIN status = Orders /\ DOMAIN winner = Orders
      /\ DOMAIN terms = Orders /\ DOMAIN groups = Groups
      /\ \A o \in Orders : status[o] = "NONE" <=> terms[o] = None
      /\ None \notin Groups
      /\ winner \in [Orders -> BOOLEAN]
      /\ groups \in [Groups -> {"NONE", "ACTIVE", "RESOLVED"}]
      /\ \A g \in Groups : Resolves(g)
  BY ColumnTypes, ConstantsAssumption DEF LedgerInv, TypeOK, OcoResolution, Resolves
<1> SUFFICES WinnersAreFilled' /\ \A g \in Groups : Resolves(g)'
  BY DEF OcoResolution, Resolves
<1>1. ASSUME NEW o \in Orders, NEW k \in Keys, NEW side \in Sides,
             NEW s \in Symbols, NEW p \in Prices, NEW q \in Quantities,
             NEW type \in Immediate \cup Conditional,
             PlaceSingle(o, k, side, type, s, p, q)
      PROVE  WinnersAreFilled' /\ \A g \in Groups : Resolves(g)'
  <2> DEFINE t == [side |-> side, type |-> type, symbol |-> s, quantity |-> q,
                   price |-> p, group |-> None, key |-> k]
  <2>1. /\ status[o] = "NONE" /\ UNCHANGED <<winner, groups>>
        /\ terms' = [terms EXCEPT ![o] = t] /\ t.group = None
        /\ \A x \in Orders \ {o} : status'[x] = status[x]
    BY <1>0, <1>1 DEF PlaceSingle
  <2> HIDE DEF t
  <2>2. WinnersAreFilled'
    <3>1. ~ winner[o]
      BY <2>1 DEF WinnersAreFilled
    <3> QED
      BY <2>1, <3>1 DEF WinnersAreFilled
  <2>3. ASSUME NEW g \in Groups
        PROVE  Resolves(g)'
    <3>1. o \notin Legs(g) /\ Legs(g)' = Legs(g)
      BY <1>0, <2>1 DEF Legs
    <3>2. \A x \in Legs(g) : status'[x] = status[x] /\ winner'[x] = winner[x]
      BY <2>1, <3>1 DEF Legs
    <3> QED
      BY <1>0, <2>1, <3>1, <3>2, UntouchedGroup
  <2> QED
    BY <2>2, <2>3
<1>2. ASSUME NEW o1 \in Orders, NEW o2 \in Orders, NEW g \in Groups,
             NEW k \in Keys, NEW side \in Sides, NEW s \in Symbols,
             NEW q \in Quantities,
             NEW first \in [type : LegTypes, price : Prices],
             NEW second \in [type : LegTypes, price : Prices],
             PlaceOco(o1, o2, g, k, side, s, q, first, second)
      PROVE  WinnersAreFilled' /\ \A h \in Groups : Resolves(h)'
  <2> DEFINE t(leg) == [side |-> side, type |-> leg.type, symbol |-> s,
                        quantity |-> q, price |-> leg.price, group |-> g,
                        key |-> k]
  <2>1. /\ o1 # o2 /\ status[o1] = "NONE" /\ status[o2] = "NONE"
        /\ groups[g] = "NONE" /\ UNCHANGED winner
        /\ terms' = [terms EXCEPT ![o1] = t(first), ![o2] = t(second)]
        /\ status' = [status EXCEPT ![o1] = "PENDING_TRIGGER",
                                    ![o2] = "PENDING_TRIGGER"]
        /\ groups' = [groups EXCEPT ![g] = "ACTIVE"]
    BY <1>2 DEF PlaceOco
  <2>2. /\ t(first).group = g /\ t(second).group = g
        /\ t(first) # None /\ t(second) # None
    <3>1. t(first) \in Terms /\ t(second) \in Terms
      BY DEF Terms, LegTypes, Immediate, Conditional
    <3> QED
      BY <3>1, ConstantsAssumption
  <2>3. Legs(g) = {}
    BY <2>1, ConstantsAssumption DEF LedgerInv, PlacedOrdersHaveTerms, Legs
  <2> HIDE DEF t
  <2>4. /\ terms'[o1] = t(first) /\ terms'[o2] = t(second)
        /\ \A x \in Orders \ {o1, o2} : /\ terms'[x] = terms[x]
                                        /\ status'[x] = status[x]
        /\ status'[o1] = "PENDING_TRIGGER" /\ status'[o2] = "PENDING_TRIGGER"
        /\ groups'[g] = "ACTIVE"
        /\ \A h \in Groups \ {g} : groups'[h] = groups[h]
    BY <1>0, <2>1
  <2>5. WinnersAreFilled'
    BY <2>1, <2>4 DEF WinnersAreFilled
  <2>6. Legs(g)' = {o1, o2}
    BY <2>2, <2>3, <2>4 DEF Legs
  <2>7. Cardinality({o1, o2}) = 2
    <3>1. IsFiniteSet({o1}) /\ Cardinality({o1}) = 1
      BY FS_Singleton
    <3>2. Cardinality({o1} \cup {o2}) = Cardinality({o1}) + 1
      BY <2>1, <3>1, FS_AddElement
    <3>3. {o1} \cup {o2} = {o1, o2}
      OBVIOUS
    <3> QED
      BY <3>1, <3>2, <3>3
  <2>8. Resolves(g)'
    BY <2>4, <2>6, <2>7 DEF Resolves
  <2>9. ASSUME NEW h \in Groups \ {g}
        PROVE  Resolves(h)'
    <3>1. o1 \notin Legs(h) /\ o2 \notin Legs(h) /\ Legs(h)' = Legs(h)
      BY <1>0, <2>1, <2>2, <2>4 DEF Legs
    <3>2. \A x \in Legs(h) : status'[x] = status[x] /\ winner'[x] = winner[x]
      BY <2>1, <2>4, <3>1 DEF Legs
    <3> QED
      BY <1>0, <2>4, <3>1, <3>2, UntouchedGroup
  <2> QED
    BY <2>5, <2>8, <2>9
<1>3. ASSUME NEW o \in Orders, terms[o] # None, terms[o].group = None,
             status[o] \notin Terminal, UNCHANGED <<terms, groups>>,
             \A x \in Orders \ {o} : /\ status'[x] = status[x]
                                     /\ winner'[x] = winner[x],
             ~ winner'[o]
      PROVE  WinnersAreFilled' /\ \A g \in Groups : Resolves(g)'
  <2>1. ASSUME NEW g \in Groups
        PROVE  Resolves(g)'
    <3>1. o \notin Legs(g) /\ Legs(g)' = Legs(g)
      BY <1>0, <1>3 DEF Legs
    <3>2. \A x \in Legs(g) : status'[x] = status[x] /\ winner'[x] = winner[x]
      BY <1>3, <3>1 DEF Legs
    <3> QED
      BY <1>0, <1>3, <3>1, <3>2, UntouchedGroup
  <2> QED
    BY <1>3, <2>1 DEF WinnersAreFilled
<1>4. ASSUME NEW o \in Orders, NEW token, NEW e, NEW q, NEW p,
             PersistFill(o, token, e, q, p)
      PROVE  WinnersAreFilled' /\ \A g \in Groups : Resolves(g)'
  <2>1. ~ winner[o]
    BY <1>4 DEF PersistFill, Resting, WinnersAreFilled, Terminal
  <2> QED
    BY <1>0, <1>3, <1>4, <2>1 DEF PersistFill, Resting
<1>5. ASSUME NEW o \in Orders, NEW g \in Groups, terms[o] # None,
             terms[o].group = g, status[o] \notin Terminal,
             NEW won \in BOOLEAN,
             winner' = [winner EXCEPT ![o] = won],
             won => status'[o] = "FILLED", ~ won => status'[o] = "CANCELLED",
             \A x \in Orders \ {o} :
                status'[x] = IF x \in Legs(g) THEN "CANCELLED" ELSE status[x],
             groups'[g] = "RESOLVED",
             \A h \in Groups \ {g} : groups'[h] = groups[h],
             UNCHANGED terms
      PROVE  WinnersAreFilled' /\ \A h \in Groups : Resolves(h)'
  <2>1. /\ groups[g] = "ACTIVE" /\ o \in Legs(g)
        /\ \A x \in Legs(g) : status[x] = "PENDING_TRIGGER"
    BY <1>0, <1>5, PendingPair
  <2>2. \A x \in Legs(g) : ~ winner[x]
    BY <2>1 DEF WinnersAreFilled, Legs
  <2>3. /\ winner'[o] = won
        /\ \A x \in Orders \ {o} : winner'[x] = winner[x]
    BY <1>0, <1>5
  <2>4. \A h \in Groups : Legs(h)' = Legs(h)
    BY <1>5 DEF Legs
  <2>5. WinnersAreFilled'
    BY <1>5, <2>2, <2>3 DEF WinnersAreFilled
  <2>6. Resolves(g)'
    <3>1. \A x \in Legs(g) \ {o} : status'[x] = "CANCELLED" /\ ~ winner'[x]
      BY <1>5, <2>2, <2>3 DEF Legs
    <3>2. \A x \in Legs(g) : status'[x] \in Terminal
      BY <1>5, <3>1 DEF Terminal
    <3>3. winner'[o] <=> status'[o] = "FILLED"
      BY <1>5, <2>3
    <3>4. \A x \in Legs(g) : winner'[x] <=> status'[x] = "FILLED"
      BY <3>1, <3>3
    <3>5. \A x, y \in Legs(g) : winner'[x] /\ winner'[y] => x = y
      BY <3>1
    <3> QED
      BY <1>5, <2>4, <3>2, <3>4, <3>5 DEF Resolves
  <2>7. ASSUME NEW h \in Groups \ {g}
        PROVE  Resolves(h)'
    <3>1. \A x \in Legs(h) : x \in Orders /\ x # o /\ x \notin Legs(g)
      BY <1>5 DEF Legs
    <3>2. \A x \in Legs(h) : status'[x] = status[x] /\ winner'[x] = winner[x]
      BY <1>5, <2>3, <3>1
    <3> QED
      BY <1>0, <1>5, <2>4, <3>2, UntouchedGroup
  <2> QED
    BY <2>5, <2>6, <2>7
<1>6. ASSUME NEW o \in Orders, NEW token, NEW p, PersistTrigger(o, token, p)
      PROVE  WinnersAreFilled' /\ \A g \in Groups : Resolves(g)'
  <2> DEFINE siblings == {x \in Covered(o) \ {o} : status[x] \notin Terminal}
  <2>1. /\ terms[o] # None /\ status[o] \notin Terminal /\ UNCHANGED terms
        /\ winner' = [winner EXCEPT ![o] = terms[o].group # None]
        /\ status' = [x \in Orders |-> IF x = o THEN "FILLED"
                                       ELSE IF x \in siblings THEN "CANCELLED"
                                       ELSE status[x]]
        /\ groups' = [g \in Groups |-> IF g = terms[o].group /\ groups[g] = "ACTIVE"
                                       THEN "RESOLVED" ELSE groups[g]]
    BY <1>6 DEF PersistTrigger, Watched
  <2>2. CASE terms[o].group = None
    <3>1. siblings = {}
      BY <2>2 DEF Covered
    <3>2. ~ winner'[o] /\ \A x \in Orders \ {o} : winner'[x] = winner[x]
      BY <1>0, <2>1, <2>2
    <3>3. UNCHANGED groups
      BY <1>0, <2>1, <2>2
    <3>4. \A x \in Orders \ {o} : status'[x] = status[x]
      BY <2>1, <3>1
    <3> QED
      BY <1>3, <2>1, <2>2, <3>2, <3>3, <3>4
  <2>3. CASE terms[o].group # None
    <3> DEFINE g == terms[o].group
    <3>1. /\ g \in Groups /\ groups[g] = "ACTIVE"
          /\ \A x \in Legs(g) : status[x] = "PENDING_TRIGGER"
      BY <2>1, <2>3, PendingPair
    <3>2. siblings = Legs(g) \ {o}
      BY <2>3, <3>1 DEF Covered, Terminal
    <3>3. winner' = [winner EXCEPT ![o] = TRUE]
      BY <2>1, <2>3
    <3>4. /\ groups'[g] = "RESOLVED"
          /\ \A h \in Groups \ {g} : groups'[h] = groups[h]
      BY <2>1, <3>1
    <3>5. /\ status'[o] = "FILLED"
          /\ \A x \in Orders \ {o} : status'[x] = IF x \in Legs(g) THEN "CANCELLED"
                                                                   ELSE status[x]
      <4> HIDE DEF siblings
      <4> QED
        BY <2>1, <3>2
    <3> QED
      BY <1>5, <2>1, <2>3, <3>1, <3>3, <3>4, <3>5
  <2> QED
    BY <2>2, <2>3
<1>7. ASSUME NEW o \in Orders, Cancel(o)
      PROVE  WinnersAreFilled' /\ \A g \in Groups : Resolves(g)'
  <2> DEFINE cancelled == {x \in Covered(o) : status[x] \notin Terminal}
  <2>1. /\ status[o] \in Live /\ UNCHANGED <<terms, winner>>
        /\ status' = [x \in Orders |-> IF x \in cancelled THEN "CANCELLED"
                                                          ELSE status[x]]
        /\ groups' = [g \in Groups |->
                        IF g = terms[o].group /\ groups[g] = "ACTIVE"
                        THEN "RESOLVED" ELSE groups[g]]
    BY <1>7 DEF Cancel
  <2>2. terms[o] # None /\ status[o] \notin Terminal /\ ~ winner[o]
    BY <1>0, <2>1 DEF Live, Terminal, WinnersAreFilled
  <2>3. CASE terms[o].group = None
    <3>1. cancelled = {o}
      BY <2>2, <2>3 DEF Covered
    <3>2. UNCHANGED groups
      BY <1>0, <2>1, <2>3
    <3>3. \A x \in Orders \ {o} : status'[x] = status[x]
      BY <2>1, <3>1
    <3> QED
      BY <1>3, <2>1, <2>2, <2>3, <3>2, <3>3
  <2>4. CASE terms[o].group # None
    <3> DEFINE g == terms[o].group
    <3>1. /\ g \in Groups /\ groups[g] = "ACTIVE" /\ o \in Legs(g)
          /\ \A x \in Legs(g) : status[x] = "PENDING_TRIGGER"
      BY <2>2, <2>4, PendingPair
    <3>2. cancelled = Legs(g)
      BY <2>4, <3>1 DEF Covered, Terminal
    <3>3. winner' = [winner EXCEPT ![o] = FALSE]
      BY <1>0, <2>1, <2>2
    <3>4. /\ groups'[g] = "RESOLVED"
          /\ \A h \in Groups \ {g} : groups'[h] = groups[h]
      BY <2>1, <3>1
    <3>5. /\ status'[o] = "CANCELLED"
          /\ \A x \in Orders \ {o} : status'[x] = IF x \in Legs(g) THEN "CANCELLED"
                                                                   ELSE status[x]
      <4> HIDE DEF cancelled
      <4> QED
        BY <2>1, <3>1, <3>2
    <3> QED
      BY <1>5, <2>1, <2>2, <2>4, <3>1, <3>3, <3>4, <3>5
  <2> QED
    BY <2>3, <2>4
<1>8. CASE UNCHANGED <<terms, status, winner, groups>>
  <2>1. ASSUME NEW g \in Groups
        PROVE  Resolves(g)'
    <3>1. Legs(g)' = Legs(g)
      BY <1>8 DEF Legs
    <3> QED
      BY <1>0, <1>8, <3>1, UntouchedGroup
  <2> QED
    BY <1>8, <2>1 DEF WinnersAreFilled
<1>9. ASSUME \/ \E x \in Quotes : FxConvert(x)
             \/ \E m \in Markets : BumpFence(m)
             \/ UNCHANGED vars
      PROVE  UNCHANGED <<terms, status, winner, groups>>
  BY <1>9 DEF FxConvert, BumpFence, rows, vars
<1> QED
  BY <1>1, <1>2, <1>4, <1>6, <1>7, <1>8, <1>9
     DEF Next, PlaceSomeOrder, PlaceSomeOco, PersistSomeFill, PersistSomeTrigger

(***************************************************************************)
(* Shares.                                                                 *)
(***************************************************************************)
\* A step that fills nothing and moves no shares.
LEMMA NoTrade ==
    ASSUME SharesConserved, UnplacedOrdersAreFresh,
           \A o \in Orders : status[o] = "NONE" <=> terms[o] = None,
           UNCHANGED fills,
           \A o \in Orders : terms[o] # None => terms'[o] = terms[o],
           \A s \in Symbols : balance'[s].total = balance[s].total
    PROVE  SharesConserved'
<1>1. ASSUME NEW side, NEW s
      PROVE  Filled(side, s)' = Filled(side, s)
  BY DEF Filled, UnplacedOrdersAreFresh
<1> QED
  BY <1>1 DEF SharesConserved

\* A fill moves the position it trades by exactly the units it records.
LEMMA TradeStep ==
    ASSUME LedgerInv, SharesConserved, NEW o \in Orders, terms[o] # None,
           NEW p, NEW q \in Nat, NEW n, NEW terminal, Settle(o, p, q, n, terminal),
           fills' = [fills EXCEPT ![o] = @ + q], UNCHANGED terms
    PROVE  SharesConserved'
<1> DEFINE t == terms[o]
           S == SpentAsset(t)
           B == BoughtAsset(t)
<1>1. /\ t \in Terms /\ t.side \in Sides /\ t.symbol \in Symbols
      /\ fills \in [Orders -> Nat]
      /\ balance \in [Assets -> Balance]
      /\ Symbols \subseteq Assets /\ S \in Assets /\ B \in Assets /\ S # B
      /\ MarketOf[t.symbol] \in Markets /\ Markets \cap Symbols = {}
  <2>1. t \in Terms
    BY DEF LedgerInv, TypeOK
  <2>2. t.side \in Sides /\ t.symbol \in Symbols
    BY <2>1 DEF Terms
  <2> QED
    BY <2>1, <2>2, AssetTypes, ConstantsAssumption
       DEF LedgerInv, TypeOK, Balance, Assets
<1>2. fills'[o] = fills[o] + q /\ \A x \in Orders \ {o} : fills'[x] = fills[x]
  BY <1>1
<1>3. ASSUME NEW side, NEW s
      PROVE  LET f == Filled(side, s) IN
             /\ Total(f) \in Nat
             /\ Total(f') = Total(f) + (IF t.side = side /\ t.symbol = s
                                        THEN q ELSE 0)
  <2> DEFINE f == Filled(side, s)
             g == Filled(side, s)'
  <2>1. f \in [Orders -> Nat] /\ g \in [Orders -> Nat]
    BY <1>1, <1>2 DEF Filled
  <2>2. \A x \in Orders \ {o} : g[x] = f[x]
    BY <1>2 DEF Filled
  <2>3. g[o] - f[o] = IF t.side = side /\ t.symbol = s THEN q ELSE 0
    BY <1>1, <1>2 DEF Filled
  <2>4. f[o] \in Nat /\ g[o] \in Nat
    BY <2>1
  <2> HIDE DEF f, g
  <2>5. Total(f) \in Nat
    BY <2>1, TotalType, ConstantsAssumption
  <2>6. Total(g) = Total(f) - f[o] + g[o]
    BY <2>1, <2>2, TotalChange, ConstantsAssumption
  <2>7. Total(g) = Total(f) + (IF t.side = side /\ t.symbol = s THEN q ELSE 0)
    BY <2>3, <2>4, <2>5, <2>6
  <2> QED
    BY <2>5, <2>7 DEF f, g
<1>4. ASSUME NEW s \in Symbols
      PROVE  balance'[s].total =
               IF t.symbol # s THEN balance[s].total
               ELSE IF t.side = "BUY" THEN balance[s].total + q
                                      ELSE balance[s].total - q
  <2> DEFINE r == reservations[OwnerOf(o)]
             remaining == IF r.released THEN 0 ELSE r.amount
             consumed == IF t.side = "BUY"
                         THEN Notional(p, q) + FeeOf("BUY", p, q) ELSE q
             gained == IF t.side = "BUY" THEN q
                       ELSE Notional(p, q) - FeeOf("SELL", p, q)
             plan == PlanSettlement(balance[S], remaining, consumed, terminal,
                                    RemainingExposure(t, n))
             spent == [total |-> plan.total, available |-> plan.available,
                       reserved |-> plan.reserved]
  <2>1. balance' = [balance EXCEPT ![S] = spent, ![B] = Credited(@, gained)]
    BY Zenon DEF Settle
  <2>2. plan.total = balance[S].total - consumed
    BY DEF PlanSettlement
  <2>3. spent.total = plan.total
    OBVIOUS
  <2>4. Credited(balance[B], gained).total = balance[B].total + gained
    BY DEF Credited
  <2>5. (t.side = "BUY" => gained = q) /\ (t.side # "BUY" => consumed = q)
    OBVIOUS
  <2>6. /\ t.side = "BUY" => B = t.symbol /\ S \in Markets
        /\ t.side # "BUY" => S = t.symbol /\ B \in Markets
    BY <1>1 DEF SpentAsset, BoughtAsset
  <2> HIDE DEF spent, gained, plan, consumed, S, B
  <2>7. balance' = [balance EXCEPT ![S] = spent,
                                   ![B] = Credited(balance[B], gained)]
    BY <1>1, <2>1
  <2>8. /\ balance'[S] = spent /\ balance'[B] = Credited(balance[B], gained)
        /\ \A a \in Assets \ {S, B} : balance'[a] = balance[a]
    BY <1>1, <2>7
  <2>9. CASE t.symbol # s
    <3>1. s \notin {S, B} /\ s \in Assets
      BY <1>1, <2>6, <2>9
    <3> QED
      BY <2>8, <2>9, <3>1
  <2>10. CASE t.symbol = s /\ t.side = "BUY"
    BY <2>4, <2>5, <2>6, <2>8, <2>10
  <2>11. CASE t.symbol = s /\ t.side # "BUY"
    BY <2>2, <2>3, <2>5, <2>6, <2>8, <2>11
  <2> QED
    BY <2>9, <2>10, <2>11
<1>5. ASSUME NEW s \in Symbols
      PROVE  balance'[s].total + Total(Filled("SELL", s)')
                = Opening[s] + Total(Filled("BUY", s)')
  <2> DEFINE sold == Total(Filled("SELL", s))
             bought == Total(Filled("BUY", s))
  <2>1. /\ sold \in Nat /\ bought \in Nat
        /\ balance[s].total \in Nat /\ Opening[s] \in Nat
        /\ balance[s].total + sold = Opening[s] + bought
    <3>1. sold \in Nat /\ bought \in Nat
      BY <1>3
    <3> QED
      BY <1>1, <3>1, ConstantsAssumption DEF SharesConserved, Balance
  <2>2. /\ Total(Filled("SELL", s)')
              = sold + (IF t.side = "SELL" /\ t.symbol = s THEN q ELSE 0)
        /\ Total(Filled("BUY", s)')
              = bought + (IF t.side = "BUY" /\ t.symbol = s THEN q ELSE 0)
    BY <1>3
  <2> HIDE DEF sold, bought
  <2> QED
    BY <1>1, <1>4, <2>1, <2>2 DEF Sides
<1> QED
  BY <1>5 DEF SharesConserved

\* Shares change hands in fills and triggers only.
LEMMA SharesStep ==
    ASSUME LedgerInv, UnplacedOrdersAreFresh, SharesConserved, [Next]_vars
    PROVE  SharesConserved'
<1>0. /\ DOMAIN terms = Orders /\ DOMAIN fills = Orders
      /\ balance \in [Assets -> Balance] /\ Symbols \subseteq Assets
      /\ \A o \in Orders : status[o] = "NONE" <=> terms[o] = None
      /\ \A o \in Orders : terms[o] # None => terms[o] \in Terms
  BY ColumnTypes DEF LedgerInv, TypeOK, Balance, Assets
<1>a. ASSUME NEW k, NEW owner, NEW a, NEW amount,
             ClaimAndReserve(k, owner, a, amount)
      PROVE  \A s \in Symbols : balance'[s].total = balance[s].total
  <2>1. balance' = [balance EXCEPT ![a] = Reserved(@, amount)]
    BY <1>a DEF ClaimAndReserve
  <2> QED
    BY <1>0, <2>1 DEF Reserved
<1>1. ASSUME NEW o \in Orders, NEW k \in Keys, NEW side \in Sides,
             NEW s \in Symbols, NEW p \in Prices, NEW q \in Quantities,
             NEW type \in Immediate \cup Conditional,
             PlaceSingle(o, k, side, type, s, p, q)
      PROVE  SharesConserved'
  <2>1. \A x \in Symbols : balance'[x].total = balance[x].total
    BY <1>1, <1>a DEF PlaceSingle
  <2>2. \A x \in Orders : terms[x] # None => terms'[x] = terms[x]
    BY <1>0, <1>1 DEF PlaceSingle
  <2>3. UNCHANGED fills
    BY <1>1 DEF PlaceSingle
  <2> QED
    BY <1>0, <2>1, <2>2, <2>3, NoTrade
<1>2. ASSUME NEW o1 \in Orders, NEW o2 \in Orders, NEW g \in Groups,
             NEW k \in Keys, NEW side \in Sides, NEW s \in Symbols,
             NEW q \in Quantities,
             NEW first \in [type : LegTypes, price : Prices],
             NEW second \in [type : LegTypes, price : Prices],
             PlaceOco(o1, o2, g, k, side, s, q, first, second)
      PROVE  SharesConserved'
  <2>1. \A x \in Symbols : balance'[x].total = balance[x].total
    BY <1>2, <1>a DEF PlaceOco
  <2>2. \A x \in Orders : terms[x] # None => terms'[x] = terms[x]
    BY <1>0, <1>2 DEF PlaceOco
  <2>3. UNCHANGED fills
    BY <1>2 DEF PlaceOco
  <2> QED
    BY <1>0, <2>1, <2>2, <2>3, NoTrade
<1>3. ASSUME NEW o \in Orders, NEW token, NEW e, NEW q \in 0 .. MaxQuantity,
             NEW p, PersistFill(o, token, e, q, p)
      PROVE  SharesConserved'
  <2>1. /\ terms[o] # None /\ UNCHANGED terms
        /\ fills' = [fills EXCEPT ![o] = @ + q]
    BY <1>3 DEF PersistFill, Resting
  <2>2. \E n, terminal : Settle(o, p, q, n, terminal)
    BY <1>3 DEF PersistFill
  <2>3. q \in Nat
    OBVIOUS
  <2> QED
    BY <2>1, <2>2, <2>3, TradeStep
<1>4. ASSUME NEW o \in Orders, NEW token, NEW p, PersistTrigger(o, token, p)
      PROVE  SharesConserved'
  <2> DEFINE q == terms[o].quantity
  <2>1. /\ terms[o] # None /\ UNCHANGED terms
        /\ fills' = [fills EXCEPT ![o] = @ + q]
        /\ Settle(o, p, q, q, TRUE)
    BY <1>4 DEF PersistTrigger, Watched
  <2>2. q \in Nat
    BY <1>0, <2>1 DEF Terms, Quantities
  <2> HIDE DEF q
  <2> QED
    BY <2>1, <2>2, TradeStep
<1>5. ASSUME NEW o \in Orders, Cancel(o)
      PROVE  SharesConserved'
  <2>1. /\ UNCHANGED <<terms, fills>>
        /\ \/ balance' = balance
           \/ \E a, x : balance' = [balance EXCEPT ![a] = Released(@, x)]
    BY <1>5 DEF Cancel
  <2>2. \A s \in Symbols : balance'[s].total = balance[s].total
    BY <1>0, <2>1 DEF Released
  <2> QED
    BY <1>0, <2>1, <2>2, NoTrade
<1>6. ASSUME NEW x \in Quotes, FxConvert(x)
      PROVE  SharesConserved'
  <2> DEFINE c == QuoteTerms[x]
  <2>1. c.from \notin Symbols /\ c.to \notin Symbols
    BY ConstantsAssumption
  <2>2. /\ balance' = [balance EXCEPT ![c.from] = Debited(@, c.source),
                                      ![c.to] = Credited(@, c.target)]
        /\ UNCHANGED <<terms, fills>>
    BY <1>6 DEF FxConvert
  <2> HIDE DEF c
  <2>3. \A s \in Symbols : balance'[s].total = balance[s].total
    BY <1>0, <2>1, <2>2
  <2> QED
    BY <1>0, <2>2, <2>3, NoTrade
<1>7. ASSUME (\E m \in Markets : BumpFence(m)) \/ UNCHANGED vars
      PROVE  SharesConserved'
  <2>1. UNCHANGED <<terms, fills, balance>>
    BY <1>7 DEF BumpFence, rows, vars
  <2> QED
    BY <1>0, <2>1, NoTrade
<1> QED
  BY <1>1, <1>2, <1>3, <1>4, <1>5, <1>6, <1>7
     DEF Next, PlaceSomeOrder, PlaceSomeOco, PersistSomeFill, PersistSomeTrigger

(***************************************************************************)
(* The theorems.                                                           *)
(***************************************************************************)
LEMMA OutcomeInit == Init => OutcomeInv
<1> SUFFICES ASSUME Init PROVE OutcomeInv
  OBVIOUS
<1>1. /\ UnplacedOrdersAreFresh /\ WinnersAreFilled
      /\ \A o \in Orders : Tells(o)
  BY DEF Init, UnplacedOrdersAreFresh, WinnersAreFilled, Tells, Say
<1>2. OcoResolution
  BY DEF Init, OcoResolution
<1>3. ASSUME NEW side, NEW s
      PROVE  Total(Filled(side, s)) = 0
  <2>1. \A o \in DOMAIN Filled(side, s) : Filled(side, s)[o] = 0
    BY DEF Init, Filled
  <2> QED
    BY <2>1, TotalZero
<1>4. ASSUME NEW s \in Symbols
      PROVE  balance[s].total = Opening[s] /\ Opening[s] \in Nat
  BY ConstantsAssumption DEF Init, Assets
<1>5. SharesConserved
  BY <1>3, <1>4 DEF SharesConserved
<1> QED
  BY <1>1, <1>2, <1>5 DEF OutcomeInv

LEMMA OutcomeNext == LedgerInv /\ OutcomeInv /\ [Next]_vars => OutcomeInv'
BY EventsStep, OcoStep, SharesStep DEF OutcomeInv

\* Every reachable state of every session satisfies the second invariant too.
THEOREM OutcomeInvariant == Spec => []OutcomeInv
BY OutcomeInit, OutcomeNext, LedgerInvariant, PTL DEF Spec

\* A client that keeps the last event of every order in the outbox knows the
\* status and the filled quantity of its row.
THEOREM EventsAlwaysTellRows == Spec => []EventsTellRows
<1>1. LedgerInv /\ OutcomeInv => EventsTellRows
  BY EventsOneByOne DEF LedgerInv, OutcomeInv
<1> QED
  BY <1>1, LedgerInvariant, OutcomeInvariant, PTL

\* An OCO pair is pending as a whole or resolved as a whole, with at most one
\* winner, which is the leg that filled: whatever triggers, cancellations and
\* fenced-off leaders do meanwhile.
THEOREM OcoAlwaysResolves == Spec => []OcoResolution
<1>1. OutcomeInv => OcoResolution
  BY DEF OutcomeInv
<1> QED
  BY <1>1, OutcomeInvariant, PTL

\* No placement, cancellation, conversion or change of leader creates or loses
\* a share.
THEOREM SharesAreConserved == Spec => []SharesConserved
<1>1. OutcomeInv => SharesConserved
  BY DEF OutcomeInv
<1> QED
  BY <1>1, OutcomeInvariant, PTL
=============================================================================
