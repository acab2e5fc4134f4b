----------------------------- MODULE MarketProofs ------------------------------
(***************************************************************************)
(* Theorems about the market cases, for any trades, holders, claims,       *)
(* statements and events that the assumptions of Markets allow.  Each case *)
(* has its invariant; the cases share nothing, so it holds whichever of    *)
(* them is at work.                                                        *)
(*                                                                         *)
(* The operators that a case takes from the community modules are, seen    *)
(* from here, operators of its own (Tokens!SumFunctionOnSet): a lemma for  *)
(* each says that they are the ones the laws of Sums are about.            *)
(***************************************************************************)
EXTENDS Markets, OrderBookProofs

------------------------------------------------------------------------------
(* Clearing *)

Amount == [t \in ClearedTrades |-> t.cash]
Titles == [t \in ClearedTrades |-> t.units]
Buyer == [t \in ClearedTrades |-> t.buyer]
Seller == [t \in ClearedTrades |-> t.seller]

\* What the trades of a set come to for one participant, on one side.
Of(amount, side, T, p) == SumFunctionOnSet(amount, Class(T, side, p))

\* What one trade adds to that.
Part(amount, side, t, p) == IF side[t] = p THEN amount[t] ELSE 0

Done == {t \in ClearedTrades : t.id \in settled}

ClearingInv ==
    /\ cash \in [Clearing!Participants -> Nat]
    /\ units \in [Clearing!Participants -> Nat]
    /\ settled \subseteq {t.id : t \in ClearedTrades}
    /\ \A p \in Clearing!Participants :
        /\ cash[p] = OpeningCash[p] + (Of(Amount, Seller, Done, p) - Of(Amount, Buyer, Done, p))
        /\ units[p] = OpeningUnits[p] + (Of(Titles, Buyer, Done, p) - Of(Titles, Seller, Done, p))

LEMMA ClearingSum ==
    ASSUME NEW f
    PROVE  /\ \A S : Clearing!SumFunctionOnSet(f, S) = SumFunctionOnSet(f, S)
           /\ Clearing!SumFunction(f) = SumFunctionOnSet(f, DOMAIN f)
BY DEF SumFunctionOnSet, FoldFunctionOnSet, MapThenFoldSet,
       Clearing!SumFunction, Clearing!SumFunctionOnSet, Clearing!FoldFunctionOnSet, Clearing!MapThenFoldSet

LEMMA TradesAreTyped ==
    /\ Amount \in [ClearedTrades -> Nat]
    /\ Titles \in [ClearedTrades -> Nat]
    /\ Buyer \in [ClearedTrades -> Clearing!Participants]
    /\ Seller \in [ClearedTrades -> Clearing!Participants]
BY ClearingAssumption DEF Amount, Titles, Buyer, Seller, Clearing!Participants

LEMMA OfType ==
    ASSUME NEW amount \in [ClearedTrades -> Nat], NEW side, NEW T \in SUBSET ClearedTrades, NEW p
    PROVE  Of(amount, side, T, p) \in Int
<1>1. IsFiniteSet(Class(T, side, p)) /\ \A t \in Class(T, side, p) : amount[t] \in Int
    BY ClearingAssumption, FS_Subset DEF Class
<1>2. QED BY <1>1, SumType DEF Of

LEMMA OfOneMore ==
    ASSUME NEW amount \in [ClearedTrades -> Nat], NEW side, NEW T \in SUBSET ClearedTrades, NEW p,
           NEW t \in ClearedTrades, t \notin T
    PROVE  Of(amount, side, T \cup {t}, p) = Of(amount, side, T, p) + Part(amount, side, t, p)
<1> DEFINE A == Class(T, side, p)
<1>1. IsFiniteSet(A) /\ (\A x \in A : amount[x] \in Int) /\ t \notin A /\ amount[t] \in Int
    BY ClearingAssumption, FS_Subset DEF Class
<1>2. Of(amount, side, T, p) = SumFunctionOnSet(amount, A) /\ Of(amount, side, T, p) \in Int
    BY OfType DEF Of
<1> USE DEF Part, Class
<1>3. CASE side[t] = p
    <2>1. Class(T \cup {t}, side, p) = A \cup {t}
        BY <1>3
    <2>2. SumFunctionOnSet(amount, A \cup {t}) = amount[t] + SumFunctionOnSet(amount, A)
        <3> HIDE DEF A
        <3>1. QED BY <1>1, SumAdd
    <2>3. Of(amount, side, T \cup {t}, p) = SumFunctionOnSet(amount, A \cup {t})
        BY <2>1 DEF Of
    <2> HIDE DEF A
    <2>4. QED BY <1>1, <1>2, <1>3, <2>2, <2>3
<1>4. CASE side[t] # p
    <2>1. Class(T \cup {t}, side, p) = A
        BY <1>4
    <2>2. QED BY <1>2, <1>4, <2>1 DEF Of
<1>5. QED BY <1>3, <1>4

LEMMA OfNone ==
    ASSUME NEW amount, NEW side, NEW p
    PROVE  Of(amount, side, {}, p) = 0
<1>1. Class({}, side, p) = {}
    BY DEF Class
<1>2. QED BY <1>1, SumEmpty DEF Of

LEMMA LegMoves ==
    ASSUME NEW P, NEW book \in [P -> Nat], NEW from \in P, NEW to \in P, NEW n \in Nat, n <= book[from]
    PROVE  /\ Clearing!Leg(book, from, to, n) \in [P -> Nat]
           /\ \A p \in P : Clearing!Leg(book, from, to, n)[p] =
                            (book[p] - (IF p = from THEN n ELSE 0)) + (IF p = to THEN n ELSE 0)
<1>1. PICK g : g = [book EXCEPT ![from] = @ - n]
    OBVIOUS
<1>2. g \in [P -> Nat] /\ \A p \in P : g[p] = book[p] - (IF p = from THEN n ELSE 0)
    <2>1. ASSUME NEW p \in P
          PROVE  g[p] \in Nat /\ g[p] = book[p] - (IF p = from THEN n ELSE 0)
        <3>1. CASE p = from
            BY <1>1, <3>1
        <3>2. CASE p # from
            BY <1>1, <3>2
        <3>3. QED BY <3>1, <3>2
    <2>2. QED BY <1>1, <2>1
<1>3. PICK h : h = [g EXCEPT ![to] = @ + n]
    OBVIOUS
<1>4. h \in [P -> Nat] /\ \A p \in P : h[p] = g[p] + (IF p = to THEN n ELSE 0)
    <2>1. ASSUME NEW p \in P
          PROVE  h[p] \in Nat /\ h[p] = g[p] + (IF p = to THEN n ELSE 0)
        <3>1. CASE p = to
            BY <1>2, <1>3, <3>1
        <3>2. CASE p # to
            BY <1>2, <1>3, <3>2
        <3>3. QED BY <3>1, <3>2
    <2>2. QED BY <1>2, <1>3, <2>1
<1>5. h = Clearing!Leg(book, from, to, n)
    BY <1>1, <1>3 DEF Clearing!Leg
<1>6. QED BY <1>2, <1>4, <1>5

LEMMA ClearingInit ==
    ASSUME Clearing!Init
    PROVE  ClearingInv
<1>1. settled = {} /\ Done = {}
    BY DEF Clearing!Init, Done
<1>2. cash = OpeningCash /\ units = OpeningUnits /\ cash \in [Clearing!Participants -> Nat]
      /\ units \in [Clearing!Participants -> Nat]
    BY ClearingAssumption DEF Clearing!Init, Clearing!Participants
<1>3. \A p : /\ Of(Amount, Seller, Done, p) = 0 /\ Of(Amount, Buyer, Done, p) = 0
             /\ Of(Titles, Seller, Done, p) = 0 /\ Of(Titles, Buyer, Done, p) = 0
    BY <1>1, OfNone
<1>4. QED BY <1>1, <1>2, <1>3 DEF ClearingInv

LEMMA SettleKeeps ==
    ASSUME ClearingInv, NEW t \in ClearedTrades, Clearing!SettleBoth(t)
    PROVE  ClearingInv'
<1> DEFINE P == Clearing!Participants
<1>1. /\ t.buyer \in P /\ t.seller \in P /\ t.units \in Nat /\ t.cash \in Nat
      /\ \A u \in ClearedTrades : u.id = t.id => u = t
    BY ClearingAssumption DEF Clearing!Participants
<1>2. cash \in [P -> Nat] /\ units \in [P -> Nat]
    BY DEF ClearingInv
<1>3. t.id \notin settled /\ t.cash <= cash[t.buyer] /\ t.units <= units[t.seller]
    BY <1>1, <1>2 DEF Clearing!SettleBoth, Clearing!Settlement
<1>4. Done' = Done \cup {t} /\ t \notin Done /\ Done \in SUBSET ClearedTrades
    BY <1>1, <1>3 DEF Done, Clearing!SettleBoth
<1>5. /\ cash' \in [P -> Nat]
      /\ \A p \in P : cash'[p] = (cash[p] - (IF p = t.buyer THEN t.cash ELSE 0))
                                    + (IF p = t.seller THEN t.cash ELSE 0)
    <2>1. cash' = Clearing!Leg(cash, t.buyer, t.seller, t.cash)
        BY DEF Clearing!SettleBoth
    <2> HIDE DEF P
    <2>2. QED BY <1>1, <1>2, <1>3, <2>1, LegMoves
<1>6. /\ units' \in [P -> Nat]
      /\ \A p \in P : units'[p] = (units[p] - (IF p = t.seller THEN t.units ELSE 0))
                                    + (IF p = t.buyer THEN t.units ELSE 0)
    <2>1. units' = Clearing!Leg(units, t.seller, t.buyer, t.units)
        BY DEF Clearing!SettleBoth
    <2> HIDE DEF P
    <2>2. QED BY <1>1, <1>2, <1>3, <2>1, LegMoves
<1>7. Buyer[t] = t.buyer /\ Seller[t] = t.seller /\ Amount[t] = t.cash /\ Titles[t] = t.units
    BY DEF Buyer, Seller, Amount, Titles
<1>8. ASSUME NEW p \in P
      PROVE  /\ cash'[p] = OpeningCash[p] + (Of(Amount, Seller, Done', p) - Of(Amount, Buyer, Done', p))
             /\ units'[p] = OpeningUnits[p] + (Of(Titles, Buyer, Done', p) - Of(Titles, Seller, Done', p))
    <2>1. /\ Of(Amount, Seller, Done', p) = Of(Amount, Seller, Done, p) + Part(Amount, Seller, t, p)
          /\ Of(Amount, Buyer, Done', p) = Of(Amount, Buyer, Done, p) + Part(Amount, Buyer, t, p)
          /\ Of(Titles, Seller, Done', p) = Of(Titles, Seller, Done, p) + Part(Titles, Seller, t, p)
          /\ Of(Titles, Buyer, Done', p) = Of(Titles, Buyer, Done, p) + Part(Titles, Buyer, t, p)
        <3> HIDE DEF P
        <3>1. QED BY <1>4, OfOneMore, TradesAreTyped
    <2>2. PICK as, ab, ts, tb \in Int :
            /\ as = Of(Amount, Seller, Done, p) /\ ab = Of(Amount, Buyer, Done, p)
            /\ ts = Of(Titles, Seller, Done, p) /\ tb = Of(Titles, Buyer, Done, p)
        BY <1>4, OfType, TradesAreTyped
    <2>3. PICK c, u, oc, ou \in Int : c = cash[p] /\ u = units[p] /\ oc = OpeningCash[p] /\ ou = OpeningUnits[p]
        BY <1>2, ClearingAssumption DEF Clearing!Participants
    <2>4. c = oc + (as - ab) /\ u = ou + (tb - ts)
        BY <2>2, <2>3 DEF ClearingInv
    <2> DEFINE b == IF p = t.buyer THEN t.cash ELSE 0
               s == IF p = t.seller THEN t.cash ELSE 0
               tob == IF p = t.buyer THEN t.units ELSE 0
               tos == IF p = t.seller THEN t.units ELSE 0
    <2>5. b \in Int /\ s \in Int /\ tob \in Int /\ tos \in Int
        BY <1>1
    <2>6. /\ cash'[p] = (c - b) + s /\ units'[p] = (u - tos) + tob
          /\ Of(Amount, Seller, Done', p) = as + s /\ Of(Amount, Buyer, Done', p) = ab + b
          /\ Of(Titles, Seller, Done', p) = ts + tos /\ Of(Titles, Buyer, Done', p) = tb + tob
        <3>1. /\ Part(Amount, Seller, t, p) = s /\ Part(Amount, Buyer, t, p) = b
              /\ Part(Titles, Seller, t, p) = tos /\ Part(Titles, Buyer, t, p) = tob
            BY <1>7 DEF Part
        <3>2. QED BY <1>5, <1>6, <2>1, <2>2, <2>3, <3>1
    <2> HIDE DEF b, s, tob, tos
    <2>7. /\ (c - b) + s = oc + ((as + s) - (ab + b))
          /\ (u - tos) + tob = ou + ((tb + tob) - (ts + tos))
        <3>1. (c - b) + s = oc + ((as + s) - (ab + b))
            <4>1. PICK d \in Int : d = as - ab
                BY <2>2
            <4>2. c = oc + d
                BY <2>4, <4>1
            <4>3. (as + s) - (ab + b) = (d + s) - b
                BY <2>5, <4>1
            <4>4. (c - b) + s = oc + ((d + s) - b)
                BY <2>3, <2>5, <4>2
            <4>5. QED BY <4>3, <4>4
        <3>2. (u - tos) + tob = ou + ((tb + tob) - (ts + tos))
            <4>1. PICK d \in Int : d = tb - ts
                BY <2>2
            <4>2. u = ou + d
                BY <2>4, <4>1
            <4>3. (tb + tob) - (ts + tos) = (d + tob) - tos
                BY <2>5, <4>1
            <4>4. (u - tos) + tob = ou + ((d + tob) - tos)
                BY <2>3, <2>5, <4>2
            <4>5. QED BY <4>3, <4>4
        <3>3. QED BY <3>1, <3>2
    <2>8. QED BY <2>3, <2>6, <2>7
<1>9. settled' \subseteq {u.id : u \in ClearedTrades}
    BY DEF ClearingInv, Clearing!SettleBoth
<1>10. QED BY <1>5, <1>6, <1>8, <1>9 DEF ClearingInv, Amount, Titles, Buyer, Seller

LEMMA ClearingNext ==
    ASSUME ClearingInv, [Clearing!Next]_(Clearing!clearingVars)
    PROVE  ClearingInv'
<1>1. ASSUME UNCHANGED Clearing!clearingVars
      PROVE  ClearingInv'
    BY <1>1 DEF ClearingInv, Clearing!clearingVars, Done, Of, Amount, Titles, Buyer, Seller
<1>2. QED BY <1>1, SettleKeeps DEF Clearing!Next, Clearing!SettleNothing

\* Over everybody who trades, either side comes to all that is traded.
LEMMA SidesAgree ==
    ASSUME NEW amount \in [ClearedTrades -> Nat], NEW T \in SUBSET ClearedTrades,
           NEW K, IsFiniteSet(K), \A t \in T : Buyer[t] \in K /\ Seller[t] \in K,
           NEW net, \/ \A p \in K : net[p] = Of(amount, Seller, T, p) - Of(amount, Buyer, T, p)
                    \/ \A p \in K : net[p] = Of(amount, Buyer, T, p) - Of(amount, Seller, T, p)
    PROVE  SumFunctionOnSet(net, K) = 0
<1>1. IsFiniteSet(T) /\ \A t \in T : amount[t] \in Int
    BY ClearingAssumption, FS_Subset
<1>2. PICK sold, bought : /\ sold = [p \in K |-> Of(amount, Seller, T, p)]
                          /\ bought = [p \in K |-> Of(amount, Buyer, T, p)]
    OBVIOUS
<1>3. /\ \A p \in K : sold[p] = SumFunctionOnSet(amount, Class(T, Seller, p))
      /\ \A p \in K : bought[p] = SumFunctionOnSet(amount, Class(T, Buyer, p))
    BY <1>2 DEF Of
<1>4. SumFunctionOnSet(sold, K) = SumFunctionOnSet(amount, T)
    <2>1. \A t \in T : Seller[t] \in K
        OBVIOUS
    <2>2. QED BY <1>1, <1>3, <2>1, SumByKey
<1>5. SumFunctionOnSet(bought, K) = SumFunctionOnSet(amount, T)
    <2>1. \A t \in T : Buyer[t] \in K
        OBVIOUS
    <2>2. QED BY <1>1, <1>3, <2>1, SumByKey
<1>6. (\A p \in K : sold[p] \in Int) /\ (\A p \in K : bought[p] \in Int)
    BY <1>2, OfType
<1>7. (\A p \in K : net[p] \in Int) /\ SumFunctionOnSet(amount, T) \in Int
    BY <1>1, <1>2, <1>6, SumType
<1>8. SumFunctionOnSet(net, K) \in Int
    BY <1>7, SumType
<1>9. CASE \A p \in K : net[p] = Of(amount, Seller, T, p) - Of(amount, Buyer, T, p)
    <2>1. \A p \in K : sold[p] = net[p] + bought[p]
        BY <1>2, <1>6, <1>7, <1>9
    <2>2. SumFunctionOnSet(sold, K) = SumFunctionOnSet(net, K) + SumFunctionOnSet(bought, K)
        BY <1>6, <1>7, <2>1, SumPlus
    <2>3. QED BY <1>4, <1>5, <1>7, <1>8, <2>2
<1>10. CASE \A p \in K : net[p] = Of(amount, Buyer, T, p) - Of(amount, Seller, T, p)
    <2>1. \A p \in K : bought[p] = net[p] + sold[p]
        BY <1>2, <1>6, <1>7, <1>10
    <2>2. SumFunctionOnSet(bought, K) = SumFunctionOnSet(net, K) + SumFunctionOnSet(sold, K)
        BY <1>6, <1>7, <2>1, SumPlus
    <2>3. QED BY <1>4, <1>5, <1>7, <1>8, <2>2
<1>11. QED BY <1>9, <1>10

\* The obligation of the code's netting, in terms of Of.
LEMMA ObligationIs ==
    ASSUME NEW T \in SUBSET ClearedTrades, NEW p
    PROVE  /\ Clearing!Obligation(T, p).cash = Of(Amount, Seller, T, p) - Of(Amount, Buyer, T, p)
           /\ Clearing!Obligation(T, p).units = Of(Titles, Buyer, T, p) - Of(Titles, Seller, T, p)
<1> DEFINE money == [t \in T |-> t.cash]
           titles == [t \in T |-> t.units]
           buyer == [t \in T |-> t.buyer]
           seller == [t \in T |-> t.seller]
           sells == {t \in T : seller[t] = p}
           buys == {t \in T : buyer[t] = p}
<1>1. sells = {t \in T : Seller[t] = p} /\ buys = {t \in T : Buyer[t] = p}
    BY DEF Seller, Buyer
<1>2. /\ Clearing!Obligation(T, p).cash = SumFunctionOnSet(money, sells) - SumFunctionOnSet(money, buys)
      /\ Clearing!Obligation(T, p).units = SumFunctionOnSet(titles, buys) - SumFunctionOnSet(titles, sells)
    BY ClearingSum DEF Clearing!Obligation
<1>3. /\ IsFiniteSet(sells) /\ IsFiniteSet(buys)
      /\ \A t \in T : /\ money[t] = Amount[t] /\ titles[t] = Titles[t]
                      /\ Amount[t] \in Int /\ Titles[t] \in Int
    <2>1. IsFiniteSet(sells) /\ IsFiniteSet(buys)
        BY ClearingAssumption, FS_Subset
    <2>2. QED BY <2>1, TradesAreTyped DEF Amount, Titles
<1>4. /\ \A t \in sells : money[t] = Amount[t] /\ titles[t] = Titles[t]
      /\ \A t \in buys : money[t] = Amount[t] /\ titles[t] = Titles[t]
      /\ \A t \in sells : Amount[t] \in Int /\ Titles[t] \in Int
      /\ \A t \in buys : Amount[t] \in Int /\ Titles[t] \in Int
    BY <1>3
<1>5. /\ SumFunctionOnSet(money, sells) = SumFunctionOnSet(Amount, sells)
      /\ SumFunctionOnSet(money, buys) = SumFunctionOnSet(Amount, buys)
      /\ SumFunctionOnSet(titles, sells) = SumFunctionOnSet(Titles, sells)
      /\ SumFunctionOnSet(titles, buys) = SumFunctionOnSet(Titles, buys)
    <2> HIDE DEF money, titles, sells, buys
    <2>1. QED BY <1>3, <1>4, SumSame
<1>6. QED BY <1>1, <1>2, <1>5 DEF Of, Class

LEMMA NettingIsZero ==
    ASSUME NEW T \in SUBSET ClearedTrades
    PROVE  Clearing!NetsToZero(T)
<1> DEFINE K == Clearing!Traders(T)
<1>1. IsFiniteSet(T)
    BY ClearingAssumption, FS_Subset
<1>2. IsFiniteSet(K)
    <2>1. IsFiniteSet({Buyer[t] : t \in T}) /\ IsFiniteSet({Seller[t] : t \in T})
        BY <1>1, ImageFinite
    <2>2. K = {Buyer[t] : t \in T} \cup {Seller[t] : t \in T}
        BY DEF Clearing!Traders, Buyer, Seller
    <2>3. QED BY <2>1, <2>2, FS_Union
<1>3. \A t \in T : Buyer[t] \in K /\ Seller[t] \in K
    BY DEF Clearing!Traders, Buyer, Seller
<1>4. PICK money, titles : /\ money = [p \in K |-> Clearing!Obligation(T, p).cash]
                           /\ titles = [p \in K |-> Clearing!Obligation(T, p).units]
    OBVIOUS
<1>5. /\ DOMAIN money = K /\ \A p \in K : money[p] = Of(Amount, Seller, T, p) - Of(Amount, Buyer, T, p)
      /\ DOMAIN titles = K /\ \A p \in K : titles[p] = Of(Titles, Buyer, T, p) - Of(Titles, Seller, T, p)
    BY <1>4, ObligationIs
<1>6. SumFunctionOnSet(money, K) = 0 /\ SumFunctionOnSet(titles, K) = 0
    <2> HIDE DEF K
    <2>1. QED BY <1>2, <1>3, <1>5, SidesAgree, TradesAreTyped
<1>7. Clearing!SumFunction(money) = 0 /\ Clearing!SumFunction(titles) = 0
    BY <1>5, <1>6, ClearingSum
<1>8. QED BY <1>4, <1>7 DEF Clearing!NetsToZero

LEMMA ClearingIsSound ==
    ASSUME ClearingInv
    PROVE  Clearing!TypeOK /\ Clearing!BalancesAreNetted /\ Clearing!NobodyIsOverdrawn
<1>1. cash \in [Clearing!Participants -> Int] /\ units \in [Clearing!Participants -> Int]
    BY DEF ClearingInv
<1>2. Done \in SUBSET ClearedTrades
    BY DEF Done
<1>3. \A p \in Clearing!Participants :
        /\ cash[p] = OpeningCash[p] + Clearing!Obligation(Done, p).cash
        /\ units[p] = OpeningUnits[p] + Clearing!Obligation(Done, p).units
    BY <1>2, ObligationIs DEF ClearingInv
<1>4. Clearing!NetsToZero(Done)
    BY <1>2, NettingIsZero
<1>5. Clearing!BalancesAreNetted
    BY <1>3, <1>4 DEF Clearing!BalancesAreNetted, Done
<1>6. Clearing!NobodyIsOverdrawn
    BY DEF ClearingInv, Clearing!NobodyIsOverdrawn
<1>7. QED BY <1>1, <1>5, <1>6 DEF ClearingInv, Clearing!TypeOK

------------------------------------------------------------------------------
(* Tokens *)

LEMMA TokensSum ==
    ASSUME NEW f
    PROVE  Tokens!SumFunction(f) = SumFunctionOnSet(f, DOMAIN f)
BY DEF SumFunctionOnSet, FoldFunctionOnSet, MapThenFoldSet,
       Tokens!SumFunction, Tokens!SumFunctionOnSet, Tokens!FoldFunctionOnSet, Tokens!MapThenFoldSet

TokensInv ==
    /\ balances \in [Holders -> Nat]
    /\ issued \in Int
    /\ frozen \subseteq Holders
    /\ SumFunctionOnSet(balances, Holders) = issued
    /\ issued <= Tokens!MaxUnits(Backing, UnitValue)

LEMMA MostUnits == Tokens!MaxUnits(Backing, UnitValue) \in Nat
<1>1. CASE UnitValue <= 0
    BY <1>1 DEF Tokens!MaxUnits
<1>2. CASE ~ (UnitValue <= 0)
    <2>1. PICK b \in Nat, v \in Int : b = Backing /\ v = UnitValue /\ v > 0
        BY <1>2, TokensAssumption
    <2>2. b \div v \in Int /\ b = v * (b \div v) + (b % v) /\ b % v \in 0 .. v - 1
        BY <2>1
    <2>3. b \div v >= 0
        BY <2>1, <2>2
    <2>4. QED BY <1>2, <2>1, <2>2, <2>3 DEF Tokens!MaxUnits
<1>3. QED BY <1>1, <1>2

\* What a function that differs in two places adds up to; the places may be the same.
Moved(f, x, y, n) == [[f EXCEPT ![x] = @ - n] EXCEPT ![y] = @ + n]

LEMMA SumMoved ==
    ASSUME NEW S, IsFiniteSet(S), NEW f \in [S -> Int], NEW x \in S, NEW y \in S, NEW n \in Int
    PROVE  /\ Moved(f, x, y, n) \in [S -> Int]
           /\ SumFunctionOnSet(Moved(f, x, y, n), S) = SumFunctionOnSet(f, S)
<1>1. PICK g : g = [f EXCEPT ![x] = @ - n]
    OBVIOUS
<1>2. PICK h : h = [g EXCEPT ![y] = @ + n]
    OBVIOUS
<1>3. g \in [S -> Int] /\ g[x] = f[x] - n /\ \A z \in S \ {x} : g[z] = f[z]
    BY <1>1
<1>4. h \in [S -> Int] /\ h[y] = g[y] + n /\ \A z \in S \ {y} : h[z] = g[z]
    BY <1>2, <1>3
<1>5. (\A z \in S : f[z] \in Int) /\ (\A z \in S : g[z] \in Int) /\ g[x] \in Int /\ h[y] \in Int
    BY <1>3, <1>4
<1>6. SumFunctionOnSet(g, S) = SumFunctionOnSet(f, S) - f[x] + g[x]
    BY <1>3, <1>5, SumReplace
<1>7. SumFunctionOnSet(h, S) = SumFunctionOnSet(g, S) - g[y] + h[y]
    BY <1>4, <1>5, SumReplace
<1>8. SumFunctionOnSet(f, S) \in Int /\ f[x] \in Int /\ g[y] \in Int
    BY <1>5, SumType
<1>9. SumFunctionOnSet(g, S) = SumFunctionOnSet(f, S) - n
    BY <1>3, <1>6, <1>8
<1>10. SumFunctionOnSet(h, S) = SumFunctionOnSet(f, S)
    BY <1>4, <1>7, <1>8, <1>9
<1>11. QED BY <1>1, <1>2, <1>4, <1>10 DEF Moved

LEMMA TokensInit ==
    ASSUME Tokens!Init
    PROVE  TokensInv
<1>1. balances \in [Holders -> Nat] /\ \A h \in Holders : balances[h] = 0
    BY DEF Tokens!Init
<1>2. SumFunctionOnSet(balances, Holders) = 0
    BY <1>1, SumZero, TokensAssumption
<1>3. QED BY <1>1, <1>2, MostUnits DEF Tokens!Init, TokensInv

LEMMA IssueKeeps ==
    ASSUME TokensInv, NEW to \in Holders, NEW n \in Lots, Tokens!Issue(to, n)
    PROVE  TokensInv'
<1>1. n \in Nat
    BY TokensAssumption
<1>2. /\ balances' \in [Holders -> Nat]
      /\ balances'[to] = balances[to] + n
      /\ \A h \in Holders \ {to} : balances'[h] = balances[h]
    BY <1>1 DEF TokensInv, Tokens!Issue
<1>3. (\A h \in Holders : balances[h] \in Int) /\ balances'[to] \in Int
    BY <1>2 DEF TokensInv
<1>4. SumFunctionOnSet(balances', Holders) = SumFunctionOnSet(balances, Holders) - balances[to] + balances'[to]
    BY <1>2, <1>3, SumReplace, TokensAssumption
<1>5. SumFunctionOnSet(balances, Holders) = issued /\ issued \in Int
    BY DEF TokensInv
<1>6. SumFunctionOnSet(balances', Holders) = issued + n
    BY <1>1, <1>2, <1>3, <1>4, <1>5
<1>7. SumFunctionOnSet(balances', Holders) = issued'
    BY <1>6 DEF Tokens!Issue
<1>8. issued' \in Int /\ issued' <= Tokens!MaxUnits(Backing, UnitValue)
    BY <1>1, <1>5, MostUnits DEF Tokens!Issue, Tokens!Exceeds, Tokens!OverIssues
<1>9. QED BY <1>2, <1>7, <1>8 DEF TokensInv, Tokens!Issue

LEMMA TransferKeeps ==
    ASSUME TokensInv, NEW from \in Holders, NEW to \in Holders, NEW n \in Lots, Tokens!Transfer(from, to, n)
    PROVE  TokensInv'
<1>1. n \in Nat /\ balances \in [Holders -> Int] /\ IsFiniteSet(Holders)
    BY TokensAssumption DEF TokensInv
<1>2. SumFunctionOnSet(balances', Holders) = SumFunctionOnSet(balances, Holders)
    <2>1. balances' = Moved(balances, from, to, n)
        BY DEF Tokens!Transfer, Moved
    <2>2. n \in Int
        BY <1>1
    <2>3. QED BY <1>1, <2>1, <2>2, SumMoved
<1>3. balances[from] >= n
    BY <1>1 DEF TokensInv, Tokens!Transfer, Tokens!Stops, Tokens!TransferRestricted
<1>4. balances' \in [Holders -> Nat]
    BY <1>1, <1>3 DEF TokensInv, Tokens!Transfer
<1>5. SumFunctionOnSet(balances', Holders) = issued
    BY <1>2 DEF TokensInv
<1>6. QED BY <1>4, <1>5 DEF TokensInv, Tokens!Transfer

LEMMA TokensNext ==
    ASSUME TokensInv, [Tokens!Next]_(Tokens!tokenVars)
    PROVE  TokensInv'
<1>1. ASSUME Tokens!Refuse \/ UNCHANGED Tokens!tokenVars
      PROVE  TokensInv'
    BY <1>1 DEF TokensInv, Tokens!Refuse, Tokens!tokenVars
<1>2. ASSUME NEW h \in Holders, Tokens!Freeze(h)
      PROVE  TokensInv'
    <2>1. Tokens!SymDiff(frozen, {h}) \subseteq Holders
        BY DEF TokensInv, Tokens!SymDiff
    <2>2. QED BY <1>2, <2>1 DEF TokensInv, Tokens!Freeze
<1>3. QED BY <1>1, <1>2, IssueKeeps, TransferKeeps DEF Tokens!Next

LEMMA TokensAreBacked ==
    ASSUME TokensInv
    PROVE  Tokens!TypeOK /\ Tokens!UnitsAreBacked
<1>1. balances \in [Holders -> Int] /\ \A h \in Holders : balances[h] >= 0
    BY DEF TokensInv
<1>2. Tokens!SumFunction(balances) = issued
    BY <1>1, TokensSum DEF TokensInv
<1>3. QED BY <1>1, <1>2 DEF TokensInv, Tokens!TypeOK, Tokens!UnitsAreBacked

LEMMA UnitsMoveAsAllowed ==
    ASSUME TokensInv, [Tokens!Next]_(Tokens!tokenVars)
    PROVE  \A h \in Holders :
              /\ h \in frozen => balances'[h] >= balances[h]
              /\ Restricted /\ h \notin Qualified /\ issued' = issued => balances'[h] <= balances[h]
<1> SUFFICES ASSUME NEW h \in Holders
             PROVE  /\ h \in frozen => balances'[h] >= balances[h]
                    /\ Restricted /\ h \notin Qualified /\ issued' = issued => balances'[h] <= balances[h]
    OBVIOUS
<1>1. balances[h] \in Nat /\ issued \in Int
    BY DEF TokensInv
<1>2. ASSUME NEW to \in Holders, NEW n \in Lots, Tokens!Issue(to, n)
      PROVE  balances'[h] = IF h = to THEN balances[h] + n ELSE balances[h]
    BY <1>2 DEF TokensInv, Tokens!Issue
<1>3. CASE \E to \in Holders, n \in Lots : Tokens!Issue(to, n)
    <2>1. PICK to \in Holders, n \in Nat : n \in Lots /\ Tokens!Issue(to, n)
        BY <1>3, TokensAssumption
    <2>2. issued' = issued + n
        BY <2>1 DEF Tokens!Issue
    <2>3. CASE h = to
        BY <1>1, <1>2, <2>1, <2>2, <2>3
    <2>4. CASE h # to
        BY <1>1, <1>2, <2>1, <2>4
    <2>5. QED BY <2>3, <2>4
<1>4. CASE \E from, to \in Holders, n \in Lots : Tokens!Transfer(from, to, n)
    <2>1. PICK from \in Holders, to \in Holders, n \in Nat : n \in Lots /\ Tokens!Transfer(from, to, n)
        BY <1>4, TokensAssumption
    <2>2. from \notin frozen /\ (Restricted => to \in Qualified)
        BY <2>1, TokensAssumption DEF Tokens!Transfer, Tokens!Stops, Tokens!TransferRestricted
    <2>3. PICK g : g = [balances EXCEPT ![from] = @ - n]
        OBVIOUS
    <2>4. balances' = [g EXCEPT ![to] = @ + n]
        BY <2>1, <2>3 DEF Tokens!Transfer
    <2>5. g[h] \in Int /\ DOMAIN g = Holders
        BY <2>1, <2>3 DEF TokensInv
    <2>6. h \in frozen => h # from /\ g[h] = balances[h]
        BY <2>2, <2>3 DEF TokensInv
    <2>7. g[h] <= balances[h]
        BY <1>1, <2>1, <2>3 DEF TokensInv
    <2>8. CASE h = to
        BY <1>1, <2>1, <2>2, <2>4, <2>5, <2>6, <2>8
    <2>9. CASE h # to
        BY <1>1, <2>1, <2>2, <2>4, <2>5, <2>6, <2>7, <2>9
    <2>10. QED BY <2>8, <2>9
<1>5. CASE UNCHANGED balances
    BY <1>1, <1>5
<1>6. QED BY <1>3, <1>4, <1>5 DEF Tokens!Next, Tokens!Refuse, Tokens!Freeze, Tokens!tokenVars

------------------------------------------------------------------------------
(* Corporate actions *)

Histories == UNION {[D -> Nat] : D \in SUBSET Nat}

\* When the record day has ended, what counts is what the histories say of it; what
\* comes after it is written under later days.
CorporateInv ==
    /\ day \in 0 .. PaymentDay
    /\ unitsByDay \in [Shareholders -> Histories]
    /\ onRecord \in [Shareholders -> Nat]
    /\ day > RecordDay => \A h \in Shareholders : onRecord[h] = Corporate!UnitsOn(unitsByDay[h], RecordDay)
    /\ \/ applied = Corporate!NotYet
       \/ /\ day = PaymentDay
          /\ \E e \in Events :
                /\ ~ Corporate!Impossible(e)
                /\ applied = [done |-> TRUE, event |-> e,
                              answer |-> Corporate!Applied(e, onRecord, PriceBefore)]

LEMMA CorporateSum ==
    ASSUME NEW f
    PROVE  /\ \A S : Corporate!SumFunctionOnSet(f, S) = SumFunctionOnSet(f, S)
           /\ Corporate!SumFunction(f) = SumFunctionOnSet(f, DOMAIN f)
BY DEF SumFunctionOnSet, FoldFunctionOnSet, MapThenFoldSet,
       Corporate!SumFunction, Corporate!SumFunctionOnSet, Corporate!FoldFunctionOnSet, Corporate!MapThenFoldSet

LEMMA CorporateCardinality ==
    ASSUME NEW S
    PROVE  Corporate!Cardinality(S) = Cardinality(S)
BY DEF Cardinality, Corporate!Cardinality

LEMMA LastKnown ==
    ASSUME NEW history \in Histories, NEW d \in Nat,
           NEW soFar, soFar = {k \in DOMAIN history : k <= d}, soFar # {}
    PROVE  Corporate!Max(soFar) \in soFar
<1>1. soFar \subseteq 0 .. d
    <2>1. PICK D \in SUBSET Nat : history \in [D -> Nat]
        BY DEF Histories
    <2>2. ASSUME NEW k \in soFar
          PROVE  k \in 0 .. d
        BY <2>1
    <2>3. QED BY <2>2
<1>2. \E m \in soFar : \A k \in soFar : m >= k
    BY <1>1, Greatest
<1>3. QED BY <1>2 DEF Corporate!Max

LEMMA UnitsOnType ==
    ASSUME NEW history \in Histories, NEW d \in Nat
    PROVE  Corporate!UnitsOn(history, d) \in Nat
<1>1. PICK soFar : soFar = {k \in DOMAIN history : k <= d}
    OBVIOUS
<1>2. CASE soFar = {}
    BY <1>1, <1>2 DEF Corporate!UnitsOn
<1>3. CASE soFar # {}
    <2>1. Corporate!Max(soFar) \in DOMAIN history
        BY <1>1, <1>3, LastKnown
    <2>2. history[Corporate!Max(soFar)] \in Nat
        BY <2>1 DEF Histories
    <2>3. QED BY <1>1, <1>3, <2>2 DEF Corporate!UnitsOn
<1>4. QED BY <1>2, <1>3

\* A day that is written does not change what an earlier one says.
LEMMA EarlierStays ==
    ASSUME NEW history \in Histories, NEW today_ \in Nat, NEW n \in Nat
    PROVE  /\ Corporate!WithDay(history, today_, n) \in Histories
           /\ \A d \in Nat : d < today_ =>
                Corporate!UnitsOn(Corporate!WithDay(history, today_, n), d) = Corporate!UnitsOn(history, d)
<1>1. PICK D \in SUBSET Nat : history \in [D -> Nat]
    BY DEF Histories
<1>2. PICK next : next = Corporate!WithDay(history, today_, n)
    OBVIOUS
<1>3. next \in [D \cup {today_} -> Nat] /\ \A k \in D : k # today_ => next[k] = history[k]
    BY <1>1, <1>2 DEF Corporate!WithDay
<1>4. D \cup {today_} \in SUBSET Nat
    OBVIOUS
<1>5. next \in Histories
    BY <1>3, <1>4 DEF Histories
<1>6. ASSUME NEW d \in Nat, d < today_
      PROVE  Corporate!UnitsOn(next, d) = Corporate!UnitsOn(history, d)
    <2>1. PICK soFar : soFar = {k \in DOMAIN history : k <= d}
        OBVIOUS
    <2>2. soFar = {k \in DOMAIN next : k <= d}
        BY <1>1, <1>3, <1>6, <2>1
    <2>3. CASE soFar = {}
        BY <2>1, <2>2, <2>3 DEF Corporate!UnitsOn
    <2>4. CASE soFar # {}
        <3>1. Corporate!Max(soFar) \in soFar
            BY <2>1, <2>4, LastKnown
        <3>2. PICK m : m = Corporate!Max(soFar)
            OBVIOUS
        <3>3. m \in D /\ m \in Nat /\ m <= d
            BY <1>1, <2>1, <3>1, <3>2
        <3>4. m # today_
            BY <1>6, <3>3
        <3>5. next[m] = history[m]
            BY <1>3, <3>3, <3>4
        <3>6. QED BY <2>1, <2>2, <2>4, <3>2, <3>5 DEF Corporate!UnitsOn
    <2>5. QED BY <2>3, <2>4
<1>7. QED BY <1>2, <1>5, <1>6

LEMMA CorporateInit ==
    ASSUME Corporate!Init
    PROVE  CorporateInv
<1> USE CorporateAssumption
<1>1. ASSUME NEW h \in Shareholders
      PROVE  [d \in {0} |-> OpeningPositions[h]] \in Histories
    <2>1. [d \in {0} |-> OpeningPositions[h]] \in [{0} -> Nat] /\ {0} \in SUBSET Nat
        OBVIOUS
    <2>2. QED BY <2>1 DEF Histories
<1>2. unitsByDay \in [Shareholders -> Histories]
    BY <1>1 DEF Corporate!Init
<1>3. QED BY <1>2 DEF Corporate!Init, CorporateInv

LEMMA TradeKeeps ==
    ASSUME CorporateInv, NEW seller \in Shareholders, NEW buyer \in Shareholders, Corporate!Trade(seller, buyer)
    PROVE  CorporateInv'
<1> USE CorporateAssumption
<1>1. day \in Nat /\ unitsByDay \in [Shareholders -> Histories] /\ seller # buyer
    BY DEF CorporateInv, Corporate!Trade
<1>2. PICK s, b \in Nat : s = Corporate!Today(seller) - 1 /\ b = Corporate!Today(buyer) + 1
    <2>1. Corporate!Today(seller) \in Nat /\ Corporate!Today(buyer) \in Nat
        BY <1>1, UnitsOnType DEF Corporate!Today
    <2>2. Corporate!Today(seller) > 0
        BY DEF Corporate!Trade
    <2>3. QED BY <2>1, <2>2
<1>3. PICK ns, nb : ns = Corporate!WithDay(unitsByDay[seller], day, s) /\ nb = Corporate!WithDay(unitsByDay[buyer], day, b)
    OBVIOUS
<1>4. unitsByDay' = [unitsByDay EXCEPT ![seller] = ns, ![buyer] = nb]
    BY <1>1, <1>2, <1>3 DEF Corporate!Trade
<1>5. /\ ns \in Histories /\ nb \in Histories
      /\ \A d \in Nat : d < day => /\ Corporate!UnitsOn(ns, d) = Corporate!UnitsOn(unitsByDay[seller], d)
                                  /\ Corporate!UnitsOn(nb, d) = Corporate!UnitsOn(unitsByDay[buyer], d)
    <2>1. PICK hs, hb : hs = unitsByDay[seller] /\ hb = unitsByDay[buyer]
        OBVIOUS
    <2>2. day \in Nat /\ s \in Nat /\ b \in Nat /\ hs \in Histories /\ hb \in Histories
        BY <1>1, <1>2, <2>1
    <2>3. /\ Corporate!WithDay(hs, day, s) \in Histories
          /\ \A d \in Nat : d < day => Corporate!UnitsOn(Corporate!WithDay(hs, day, s), d) = Corporate!UnitsOn(hs, d)
        BY <2>2, EarlierStays
    <2>4. /\ Corporate!WithDay(hb, day, b) \in Histories
          /\ \A d \in Nat : d < day => Corporate!UnitsOn(Corporate!WithDay(hb, day, b), d) = Corporate!UnitsOn(hb, d)
        BY <2>2, EarlierStays
    <2>5. QED BY <1>3, <2>1, <2>3, <2>4
<1>6. unitsByDay' \in [Shareholders -> Histories]
    BY <1>1, <1>4, <1>5
<1>7. ASSUME day > RecordDay, NEW h \in Shareholders
      PROVE  Corporate!UnitsOn(unitsByDay'[h], RecordDay) = Corporate!UnitsOn(unitsByDay[h], RecordDay)
    <2>1. RecordDay \in Nat /\ RecordDay < day
        BY <1>1, <1>7
    <2>2. /\ Corporate!UnitsOn(ns, RecordDay) = Corporate!UnitsOn(unitsByDay[seller], RecordDay)
          /\ Corporate!UnitsOn(nb, RecordDay) = Corporate!UnitsOn(unitsByDay[buyer], RecordDay)
        BY <1>5, <2>1
    <2>3. CASE h = seller
        BY <1>1, <1>4, <2>2, <2>3
    <2>4. CASE h = buyer
        BY <1>1, <1>4, <2>2, <2>4
    <2>5. CASE h # seller /\ h # buyer
        BY <1>1, <1>4, <2>5
    <2>6. QED BY <2>3, <2>4, <2>5
<1>8. UNCHANGED <<day, applied, onRecord>>
    BY DEF Corporate!Trade
<1>9. QED BY <1>6, <1>7, <1>8 DEF CorporateInv

LEMMA NextDayKeeps ==
    ASSUME CorporateInv, Corporate!NextDay
    PROVE  CorporateInv'
<1> USE CorporateAssumption
<1>1. day \in Nat /\ day < PaymentDay /\ day' = day + 1 /\ UNCHANGED <<unitsByDay, applied>>
    BY DEF CorporateInv, Corporate!NextDay
<1>2. applied = Corporate!NotYet
    BY <1>1 DEF CorporateInv
<1>3. CASE day = RecordDay
    <2>1. onRecord' = [h \in Shareholders |-> Corporate!UnitsOn(unitsByDay[h], RecordDay)]
        BY <1>3 DEF Corporate!NextDay, Corporate!Today
    <2>2. \A h \in Shareholders : Corporate!UnitsOn(unitsByDay[h], RecordDay) \in Nat
        BY UnitsOnType DEF CorporateInv
    <2>3. onRecord' \in [Shareholders -> Nat]
          /\ \A h \in Shareholders : onRecord'[h] = Corporate!UnitsOn(unitsByDay[h], RecordDay)
        BY <2>1, <2>2
    <2>4. QED BY <1>1, <1>2, <2>3 DEF CorporateInv
<1>4. CASE day # RecordDay
    <2>1. onRecord' = onRecord /\ (day' > RecordDay => day > RecordDay)
        BY <1>1, <1>4 DEF Corporate!NextDay
    <2>2. QED BY <1>1, <1>2, <2>1 DEF CorporateInv
<1>5. QED BY <1>3, <1>4

LEMMA PayKeeps ==
    ASSUME CorporateInv, NEW e \in Events, Corporate!Pay(e)
    PROVE  CorporateInv'
<1>1. day = PaymentDay /\ ~ Corporate!Impossible(e) /\ UNCHANGED <<day, unitsByDay, onRecord>>
    BY DEF Corporate!Pay
<1>2. onRecord = [h \in Shareholders |-> Corporate!UnitsOn(unitsByDay[h], RecordDay)]
    BY <1>1, CorporateAssumption DEF CorporateInv
<1>3. applied' = [done |-> TRUE, event |-> e, answer |-> Corporate!Applied(e, onRecord, PriceBefore)]
    BY <1>2 DEF Corporate!Pay
<1>4. QED BY <1>1, <1>3 DEF CorporateInv

LEMMA CorporateNext ==
    ASSUME CorporateInv, [Corporate!Next]_(Corporate!actionVars)
    PROVE  CorporateInv'
<1>1. CASE UNCHANGED Corporate!actionVars
    BY <1>1 DEF CorporateInv, Corporate!actionVars
<1>2. QED BY <1>1, TradeKeeps, NextDayKeeps, PayKeeps DEF Corporate!Next, Corporate!Paid

\* What one holder has is worth what is kept at the new price and what is paid for the
\* fraction, but for a rounding that its units bound.
LEMMA HolderLosesRounding ==
    ASSUME NEW a \in Nat, NEW f \in Int, f > 0, NEW t \in Int, t > 0, NEW p \in Nat,
           NEW h, h = (p * f) \div t, NEW w, w = (a * t) \div f, NEW l, l = (((a * t) % f) * h) \div f
    PROVE  /\ h \in Nat /\ w \in Nat /\ l \in Nat
           /\ w * h + l <= a * p
           /\ a * p - (w * h + l) <= w + 1
<1>1. PICK at, pf \in Nat : at = a * t /\ pf = p * f
    <2>1. 0 <= a * t /\ a * t \in Int
        BY TimesMonotone, TimesReorders
    <2>2. 0 <= p * f /\ p * f \in Int
        BY TimesMonotone, TimesReorders
    <2>3. QED BY <2>1, <2>2
<1>2. PICK r \in Int : h \in Nat /\ pf = t * h + r /\ 0 <= r /\ r <= t - 1
    <2>1. pf \div t \in Int /\ pf % t \in Int /\ pf = t * (pf \div t) + (pf % t) /\ 0 <= pf % t /\ pf % t <= t - 1
          /\ pf \div t >= 0
        BY Division
    <2>2. h = pf \div t
        BY <1>1
    <2>3. QED BY <2>1, <2>2
<1>3. PICK s \in Int : s = at % f /\ w \in Nat /\ at = f * w + s /\ 0 <= s /\ s <= f - 1
    <2>1. at \div f \in Int /\ at % f \in Int /\ at = f * (at \div f) + (at % f) /\ 0 <= at % f /\ at % f <= f - 1
          /\ at \div f >= 0
        BY Division
    <2>2. w = at \div f
        BY <1>1
    <2>3. QED BY <2>1, <2>2
<1>4. PICK q \in Int : l \in Nat /\ s * h = f * l + q /\ 0 <= q /\ q <= f - 1
    <2>1. PICK sh \in Int : sh = s * h /\ sh >= 0
        <3>1. s * h \in Int /\ s * 0 <= s * h /\ s * 0 = 0
            BY <1>2, <1>3, TimesMonotone
        <3>2. QED BY <3>1
    <2>2. sh \div f \in Int /\ sh % f \in Int /\ sh = f * (sh \div f) + (sh % f) /\ 0 <= sh % f /\ sh % f <= f - 1
          /\ sh \div f >= 0
        BY <2>1, Division
    <2>3. l = sh \div f
        BY <1>1, <1>3, <2>1
    <2>4. QED BY <2>1, <2>2, <2>3
<1>5. PICK ap, wh, ar \in Int : ap = a * p /\ wh = w * h /\ ar = a * r
    BY <1>2, <1>3
\* The deficit, f times.
<1>6. f * (ap - (wh + l)) = ar + q
    <2>1. f * ap = a * pf
        BY <1>1, <1>5
    <2>2. a * pf = a * (t * h) + ar
        BY <1>2, <1>5
    <2>3. a * (t * h) = at * h
        BY <1>1, <1>2
    <2>4. at * h = f * wh + s * h
        <3>1. (f * w + s) * h = (f * w) * h + s * h
            BY <1>2, <1>3
        <3>2. (f * w) * h = f * (w * h)
            BY <1>2, <1>3
        <3>3. QED BY <1>3, <1>5, <3>1, <3>2
    <2>5. f * (ap - (wh + l)) = f * ap - (f * wh + f * l)
        <3>1. f * (ap - (wh + l)) = f * ap - f * (wh + l)
            BY <1>4, TimesReorders
        <3>2. f * (wh + l) = f * wh + f * l
            BY <1>4, TimesReorders
        <3>3. QED BY <3>1, <3>2
    <2>6. PICK fap, fwh, fl, sh, x \in Int : fap = f * ap /\ fwh = f * wh /\ fl = f * l /\ sh = s * h /\ x = a * (t * h)
        BY <1>2, <1>3, <1>4
    <2>7. fap = x + ar /\ x = fwh + sh /\ sh = fl + q /\ f * (ap - (wh + l)) = fap - (fwh + fl)
        BY <1>4, <2>1, <2>2, <2>3, <2>4, <2>5, <2>6
    <2>8. QED BY <2>6, <2>7
<1>7. 0 <= ar /\ ar <= at - a
    <2>1. a * 0 <= a * r /\ a * r <= a * (t - 1) /\ a * 0 = 0 /\ a * (t - 1) = a * t - a
        BY <1>2, TimesMonotone
    <2>2. QED BY <1>1, <1>5, <2>1
<1>8. wh + l <= ap
    <2>1. f * 0 <= f * (ap - (wh + l)) /\ ap - (wh + l) \in Int
        BY <1>4, <1>6, <1>7
    <2>2. 0 <= ap - (wh + l)
        BY <2>1, TimesCancels
    <2>3. QED BY <1>4, <2>2
<1>9. ap - (wh + l) <= w + 1
    <2>1. PICK fw \in Int : fw = f * w
        BY <1>3
    <2>2. f * (w + 2) = fw + (f + f)
        BY <1>3, <2>1
    <2>3. f * (ap - (wh + l)) <= fw + (f + f) - 1
        BY <1>3, <1>4, <1>6, <1>7, <2>1
    <2>4. SUFFICES ASSUME w + 2 <= ap - (wh + l) PROVE FALSE
        BY <1>3, <1>4
    <2>5. f * (w + 2) <= f * (ap - (wh + l))
        BY <1>3, <1>4, <2>4, TimesMonotone
    <2>6. PICK y \in Int : y = f * (ap - (wh + l))
        BY <1>4
    <2>7. QED BY <2>1, <2>2, <2>3, <2>5, <2>6
<1>10. QED BY <1>2, <1>3, <1>4, <1>5, <1>8, <1>9

\* One who has nothing is given nothing.
LEMMA WholeOfNothing ==
    ASSUME NEW e \in Events, ~ Corporate!Impossible(e)
    PROVE  /\ \A n \in Nat : Corporate!Whole(e, n) \in Int
           /\ Corporate!Whole(e, 0) = 0
<1>1. PICK f, t \in Int : f = e.from /\ t = e.to /\ f > 0 /\ t > 0
    BY CorporateAssumption DEF Corporate!Impossible
<1>2. ASSUME NEW n \in Nat
      PROVE  Corporate!Whole(e, n) \in Int
    <2>1. PICK nt \in Int : nt = n * t
        OBVIOUS
    <2>2. nt \div f \in Int
        BY <1>1, Division
    <2>3. QED BY <1>1, <2>1, <2>2 DEF Corporate!Whole
<1>3. Corporate!Whole(e, 0) = 0
    <2>1. 0 * t = 0 /\ 0 \div f = 0
        BY <1>1
    <2>2. QED BY <1>1, <2>1 DEF Corporate!Whole
<1>4. QED BY <1>2, <1>3

LEMMA CorporateIsSound ==
    ASSUME CorporateInv
    PROVE  /\ Corporate!TypeOK
           /\ Corporate!RecordDayDecides
           /\ Corporate!SplitCreatesNoValue
<1> USE CorporateAssumption
<1>1. Corporate!TypeOK
    <2>1. applied.done \in BOOLEAN
        <3>1. CASE applied = Corporate!NotYet
            BY <3>1 DEF Corporate!NotYet
        <3>2. CASE applied # Corporate!NotYet
            <4>1. PICK e : applied = [done |-> TRUE, event |-> e,
                                      answer |-> Corporate!Applied(e, onRecord, PriceBefore)]
                BY <3>2 DEF CorporateInv
            <4>2. QED BY <4>1
        <3>3. QED BY <3>1, <3>2
    <2>2. QED BY <2>1 DEF CorporateInv, Corporate!TypeOK
<1>2. CASE ~ applied.done
    BY <1>1, <1>2 DEF Corporate!RecordDayDecides, Corporate!SplitCreatesNoValue
<1>3. CASE applied.done
    <2>1. PICK e \in Events : /\ ~ Corporate!Impossible(e)
                              /\ applied = [done |-> TRUE, event |-> e,
                                            answer |-> Corporate!Applied(e, onRecord, PriceBefore)]
        BY <1>3 DEF CorporateInv, Corporate!NotYet
    <2>2. PICK S, R : S = Shareholders /\ R = onRecord
        OBVIOUS
    <2>3. IsFiniteSet(S) /\ R \in [S -> Nat] /\ DOMAIN R = S
        BY <2>2 DEF CorporateInv
    <2>4. PICK T : T = {h \in DOMAIN R : R[h] # 0}
        OBVIOUS
    <2>5. IsFiniteSet(T) /\ T \subseteq S /\ (\A h \in S \ T : R[h] = 0) /\ \A h \in T : R[h] \in Nat /\ R[h] > 0
        BY <2>3, <2>4, FS_Subset
    <2>6. PICK answer_ : answer_ = Corporate!Applied(e, R, PriceBefore)
        OBVIOUS
    <2>7. applied.event = e /\ applied.answer = answer_
        BY <2>1, <2>2, <2>6
    <2>8. PICK W, C, L : /\ W = [h \in T |-> Corporate!Whole(e, R[h])]
                         /\ C = [h \in T |-> IF e.kind = "split" THEN 0 ELSE R[h] * e.cash]
                         /\ L = [h \in T |-> Corporate!InLieu(e, R[h], PriceBefore)]
        OBVIOUS
    <2>9. /\ answer_.affected = Cardinality(T)
          /\ answer_.unitsBefore = SumFunctionOnSet(R, T)
          /\ answer_.unitsAfter = SumFunctionOnSet(W, T)
          /\ answer_.cashPaid = SumFunctionOnSet(C, T)
          /\ answer_.cashInLieu = SumFunctionOnSet(L, T)
        <3>1. answer_ = [affected |-> Corporate!Cardinality(T),
                         unitsBefore |-> Corporate!SumFunctionOnSet(R, T),
                         unitsAfter |-> Corporate!SumFunctionOnSet(W, T),
                         cashPaid |-> Corporate!SumFunctionOnSet(C, T),
                         cashInLieu |-> Corporate!SumFunctionOnSet(L, T)]
            BY <2>4, <2>6, <2>8 DEF Corporate!Applied
        <3>2. Corporate!Cardinality(T) = Cardinality(T)
            BY CorporateCardinality
        <3>3. QED BY <3>1, <3>2, CorporateSum
    <2>10. PICK u \in Int : u = SumFunctionOnSet(R, T)
        <3>1. \A h \in T : R[h] \in Int
            BY <2>5
        <3>2. QED BY <2>5, <3>1, SumType
    <2>11. Corporate!SumFunction(onRecord) = u
        <3>1. (\A h \in T : R[h] \in Int) /\ (\A h \in T : R[h] = R[h])
            BY <2>5
        <3>2. SumFunctionOnSet(R, S) = SumFunctionOnSet(R, T)
            BY <2>3, <2>5, <3>1, SumSupport
        <3>3. QED BY <2>2, <2>3, <2>10, <3>2, CorporateSum
    <2>12. answer_.affected = Corporate!Cardinality({h \in Shareholders : onRecord[h] > 0})
        <3>1. {h \in Shareholders : onRecord[h] > 0} = T
            BY <2>2, <2>3, <2>4
        <3>2. QED BY <2>9, <3>1, CorporateCardinality
    <2>13. answer_.cashPaid = IF e.kind = "dividend" THEN e.cash * u ELSE 0
        <3>1. CASE e.kind = "dividend"
            <4>1. (\A h \in T : R[h] \in Int) /\ e.cash \in Int
                BY <2>5
            <4>2. \A h \in T : C[h] = e.cash * R[h]
                BY <2>8, <3>1, <4>1
            <4>3. SumFunctionOnSet(C, T) = e.cash * SumFunctionOnSet(R, T)
                BY <2>5, <4>1, <4>2, SumScale
            <4>4. QED BY <2>9, <2>10, <3>1, <4>3
        <3>2. CASE e.kind = "split"
            <4>1. \A h \in T : C[h] = 0
                BY <2>8, <3>2
            <4>2. QED BY <2>5, <2>9, <3>2, <4>1, SumZero
        <3>3. QED BY <3>1, <3>2
    <2>14. answer_.unitsAfter = Corporate!SumFunction([h \in Shareholders |-> Corporate!Whole(e, onRecord[h])])
        <3>1. PICK A : A = [h \in Shareholders |-> Corporate!Whole(e, onRecord[h])]
            OBVIOUS
        <3>2. \A h \in T : W[h] \in Int /\ A[h] = W[h]
            BY <2>1, <2>2, <2>5, <2>8, <3>1, WholeOfNothing
        <3>3. \A h \in S \ T : A[h] = 0
            BY <2>1, <2>2, <2>5, <3>1, WholeOfNothing
        <3>4. (\A h \in T : W[h] \in Int) /\ (\A h \in T : A[h] = W[h])
            BY <3>2
        <3>5. SumFunctionOnSet(A, S) = SumFunctionOnSet(W, T)
            BY <2>3, <2>5, <3>3, <3>4, SumSupport
        <3>6. DOMAIN A = S
            BY <2>2, <3>1
        <3>7. QED BY <2>9, <3>1, <3>5, <3>6, CorporateSum
    <2>15. Corporate!RecordDayDecides
        BY <2>7, <2>9, <2>10, <2>11, <2>12, <2>13, <2>14 DEF Corporate!RecordDayDecides
    <2>16. ASSUME e.kind = "split"
           PROVE  Corporate!SplitCreatesNoValue
        <3>1. PICK f, t \in Int : f = e.from /\ t = e.to /\ f > 0 /\ t > 0
            BY <2>1 DEF Corporate!Impossible
        <3>2. PICK p \in Nat : p = PriceBefore
            OBVIOUS
        <3>3. PICK x : x = (p * f) \div t
            OBVIOUS
        <3>4. x = Corporate!PriceAfter(e, PriceBefore)
            BY <2>16, <3>1, <3>2, <3>3 DEF Corporate!PriceAfter
        <3>5. ASSUME NEW h \in T
              PROVE  /\ x \in Nat /\ W[h] \in Nat /\ L[h] \in Nat
                     /\ W[h] * x + L[h] <= R[h] * p
                     /\ R[h] * p - (W[h] * x + L[h]) <= W[h] + 1
            <4>1. PICK a \in Nat : a = R[h]
                BY <2>5
            <4>2. PICK w, l : w = (a * t) \div f /\ l = (((a * t) % f) * x) \div f
                OBVIOUS
            <4>3. /\ x \in Nat /\ w \in Nat /\ l \in Nat
                  /\ w * x + l <= a * p
                  /\ a * p - (w * x + l) <= w + 1
                BY <3>1, <3>2, <3>3, <4>1, <4>2, HolderLosesRounding
            <4>4. W[h] = w
                BY <2>8, <2>16, <3>1, <4>1, <4>2 DEF Corporate!Whole
            <4>5. L[h] = l
                <5>1. L[h] = Corporate!InLieu(e, a, PriceBefore)
                    BY <2>8, <4>1
                <5>2. Corporate!InLieu(e, a, PriceBefore) = (((a * t) % f) * x) \div f
                    BY <2>16, <3>1, <3>4 DEF Corporate!InLieu
                <5>3. QED BY <4>2, <5>1, <5>2
            <4>6. QED BY <4>1, <4>3, <4>4, <4>5
        <3>6. CASE T = {}
            <4>1. SumFunctionOnSet(R, T) = 0 /\ SumFunctionOnSet(W, T) = 0 /\ SumFunctionOnSet(L, T) = 0
                BY <3>6, SumEmpty
            <4>2. Cardinality(T) = 0
                BY <3>6, FS_EmptySet
            <4>3. x \in Int
                <5>1. PICK pf \in Int : pf = p * f
                    BY <3>1, <3>2
                <5>2. pf \div t \in Int
                    BY <3>1, Division
                <5>3. QED BY <3>3, <5>1, <5>2
            <4>4. 0 * x = 0 /\ 0 * p = 0
                BY <3>2, <4>3
            <4>5. QED BY <2>7, <2>9, <3>2, <3>4, <4>1, <4>2, <4>4 DEF Corporate!SplitCreatesNoValue
        <3>7. CASE T # {}
            <4>1. x \in Nat
                BY <3>5, <3>7
            <4>2. PICK V, X, Y, Z, N : /\ V = [h \in T |-> p * R[h]]
                                       /\ X = [h \in T |-> x * W[h]]
                                       /\ Y = [h \in T |-> X[h] + L[h]]
                                       /\ N = [h \in T |-> 1]
                                       /\ Z = [h \in T |-> W[h] + N[h]]
                <5>1. PICK V, X, N : V = [h \in T |-> p * R[h]] /\ X = [h \in T |-> x * W[h]] /\ N = [h \in T |-> 1]
                    OBVIOUS
                <5>2. PICK Y, Z : Y = [h \in T |-> X[h] + L[h]] /\ Z = [h \in T |-> W[h] + N[h]]
                    OBVIOUS
                <5>3. QED BY <5>1, <5>2
            <4>3. ASSUME NEW h \in T
                  PROVE  /\ R[h] \in Int /\ W[h] \in Int /\ L[h] \in Int /\ N[h] \in Int
                         /\ V[h] = p * R[h] /\ V[h] \in Int
                         /\ X[h] = x * W[h] /\ X[h] \in Int
                         /\ Y[h] = X[h] + L[h] /\ Y[h] \in Int
                         /\ N[h] = 1 /\ Z[h] = W[h] + N[h] /\ Z[h] \in Int
                         /\ Y[h] <= V[h] /\ V[h] <= Y[h] + Z[h]
                <5>1. PICK a, w, l \in Int : a = R[h] /\ w = W[h] /\ l = L[h]
                    BY <2>5, <3>5
                <5>2. p * a \in Int /\ p * a = a * p /\ x * w \in Int /\ x * w = w * x
                    BY <3>2, <4>1, TimesReorders
                <5>3. PICK ap, wx \in Int : ap = a * p /\ wx = w * x
                    BY <5>2
                <5>4. wx + l <= ap /\ ap - (wx + l) <= w + 1
                    BY <3>5, <5>1, <5>3
                <5>5. V[h] = ap /\ X[h] = wx /\ Y[h] = wx + l /\ N[h] = 1 /\ Z[h] = w + 1
                    BY <4>2, <5>1, <5>2, <5>3
                <5>6. V[h] = p * R[h] /\ X[h] = x * W[h] /\ Y[h] = X[h] + L[h] /\ Z[h] = W[h] + N[h]
                    BY <4>2
                <5>7. QED BY <5>1, <5>4, <5>5, <5>6
            <4>4. PICK v, k, z, s, c \in Int :
                    /\ v = SumFunctionOnSet(V, T) /\ k = SumFunctionOnSet(X, T)
                    /\ z = SumFunctionOnSet(W, T) /\ s = SumFunctionOnSet(L, T)
                    /\ c = Cardinality(T)
                <5>1. (\A h \in T : V[h] \in Int) /\ (\A h \in T : X[h] \in Int)
                      /\ (\A h \in T : W[h] \in Int) /\ (\A h \in T : L[h] \in Int)
                    BY <4>3
                <5>2. SumFunctionOnSet(V, T) \in Int /\ SumFunctionOnSet(X, T) \in Int
                    BY <2>5, <5>1, SumType
                <5>3. SumFunctionOnSet(W, T) \in Int /\ SumFunctionOnSet(L, T) \in Int
                    BY <2>5, <5>1, SumType
                <5>4. Cardinality(T) \in Nat
                    BY <2>5, FS_CardinalityType
                <5>5. QED BY <5>2, <5>3, <5>4
            <4>5. v = p * u
                <5>1. (\A h \in T : R[h] \in Int) /\ (\A h \in T : V[h] = p * R[h]) /\ p \in Int
                    BY <3>2, <4>3
                <5>2. SumFunctionOnSet(V, T) = p * SumFunctionOnSet(R, T)
                    BY <2>5, <5>1, SumScale
                <5>3. QED BY <2>10, <4>4, <5>2
            <4>6. k = x * z
                <5>1. (\A h \in T : W[h] \in Int) /\ (\A h \in T : X[h] = x * W[h]) /\ x \in Int
                    BY <4>1, <4>3
                <5>2. SumFunctionOnSet(X, T) = x * SumFunctionOnSet(W, T)
                    BY <2>5, <5>1, SumScale
                <5>3. QED BY <4>4, <5>2
            <4>7. SumFunctionOnSet(Y, T) = k + s
                <5>1. (\A h \in T : X[h] \in Int) /\ (\A h \in T : L[h] \in Int) /\ (\A h \in T : Y[h] = X[h] + L[h])
                    BY <4>3
                <5>2. QED BY <2>5, <4>4, <5>1, SumPlus
            <4>8. SumFunctionOnSet(Z, T) = z + c
                <5>1. (\A h \in T : W[h] \in Int) /\ (\A h \in T : N[h] \in Int) /\ (\A h \in T : Z[h] = W[h] + N[h])
                      /\ (\A h \in T : N[h] = 1)
                    BY <4>3
                <5>2. SumFunctionOnSet(Z, T) = SumFunctionOnSet(W, T) + SumFunctionOnSet(N, T)
                    BY <2>5, <5>1, SumPlus
                <5>3. SumFunctionOnSet(N, T) = 1 * Cardinality(T)
                    BY <2>5, <5>1, SumConstant
                <5>4. QED BY <4>4, <5>2, <5>3
            <4>9. k + s <= v
                <5>1. (\A h \in T : Y[h] \in Int) /\ (\A h \in T : V[h] \in Int) /\ (\A h \in T : Y[h] <= V[h])
                    BY <4>3
                <5>2. SumFunctionOnSet(Y, T) <= SumFunctionOnSet(V, T)
                    BY <2>5, <5>1, SumMonotone
                <5>3. QED BY <4>4, <4>7, <5>2
            <4>10. v <= (k + s) + (z + c)
                <5>1. PICK B : B = [h \in T |-> Y[h] + Z[h]]
                    OBVIOUS
                <5>2. \A h \in T : B[h] = Y[h] + Z[h] /\ B[h] \in Int /\ V[h] <= B[h]
                    BY <4>3, <5>1
                <5>3. (\A h \in T : B[h] = Y[h] + Z[h]) /\ (\A h \in T : B[h] \in Int) /\ (\A h \in T : V[h] <= B[h])
                      /\ (\A h \in T : V[h] \in Int) /\ (\A h \in T : Y[h] \in Int) /\ (\A h \in T : Z[h] \in Int)
                    BY <4>3, <5>2
                <5>4. SumFunctionOnSet(V, T) <= SumFunctionOnSet(B, T)
                    BY <2>5, <5>3, SumMonotone
                <5>5. SumFunctionOnSet(B, T) = SumFunctionOnSet(Y, T) + SumFunctionOnSet(Z, T)
                    BY <2>5, <5>3, SumPlus
                <5>6. QED BY <4>4, <4>7, <4>8, <5>4, <5>5
            <4>11. p * u = u * p /\ x * z = z * x
                BY <3>2, <4>1, TimesReorders
            <4>12. /\ answer_.unitsBefore * PriceBefore = v
                   /\ answer_.unitsAfter * Corporate!PriceAfter(e, PriceBefore) + answer_.cashInLieu = k + s
                   /\ answer_.unitsAfter = z /\ answer_.affected = c
                BY <2>9, <2>10, <3>2, <3>4, <4>4, <4>5, <4>6, <4>11
            <4>13. k + s <= v /\ v - (k + s) <= z + c
                BY <4>9, <4>10
            <4>14. QED BY <2>7, <4>12, <4>13 DEF Corporate!SplitCreatesNoValue
        <3>8. QED BY <3>6, <3>7
    <2>17. ASSUME e.kind # "split"
           PROVE  Corporate!SplitCreatesNoValue
        BY <2>7, <2>17 DEF Corporate!SplitCreatesNoValue
    <2>18. QED BY <1>1, <2>15, <2>16, <2>17
<1>4. QED BY <1>2, <1>3

------------------------------------------------------------------------------
(* Consents *)

Permission == [scopes : SUBSET Scopes, expires : Int, revoked : Int]

PermissionsInv ==
    /\ today \in 0 .. LastDay
    /\ consents \in [Consents -> Permission]
    /\ withdrawn \subseteq Consents
    /\ \A c \in withdrawn : consents[c].revoked <= today

LEMMA PermissionsInit ==
    ASSUME Permissions!Init
    PROVE  PermissionsInv
<1>1. Permissions!NotGranted \in Permission
    BY ConsentAssumption DEF Permissions!NotGranted, Permissions!Never, Permission
<1>2. QED BY <1>1, ConsentAssumption DEF Permissions!Init, PermissionsInv

LEMMA PermissionsNext ==
    ASSUME PermissionsInv, [Permissions!Next]_(Permissions!consentVars)
    PROVE  PermissionsInv'
<1> USE ConsentAssumption
<1>1. ASSUME NEW c \in Consents, NEW s \in SUBSET Scopes, Permissions!Grant(c, s)
      PROVE  PermissionsInv'
    <2>1. c \notin withdrawn
        <3>1. SUFFICES ASSUME c \in withdrawn PROVE Permissions!Granted(c)
            BY <1>1 DEF Permissions!Grant
        <3>2. consents[c].revoked <= today /\ today <= LastDay
            BY <3>1 DEF PermissionsInv
        <3>3. consents[c].revoked # LastDay + 1
            BY <3>2, <1>1 DEF PermissionsInv, Permission
        <3>4. QED BY <3>3 DEF Permissions!Granted, Permissions!NotGranted, Permissions!Never
    <2>2. PICK p \in Permission : consents' = [consents EXCEPT ![c] = p]
        <3>1. today + Validity \in Int /\ LastDay + 1 \in Int
            BY DEF PermissionsInv
        <3>2. QED BY <1>1, <3>1 DEF Permissions!Grant, Permissions!Never, Permission
    <2>3. QED BY <1>1, <2>1, <2>2 DEF PermissionsInv, Permissions!Grant
<1>2. ASSUME NEW c \in Consents, Permissions!Revoke(c)
      PROVE  PermissionsInv'
    <2>1. PICK p : p = [consents[c] EXCEPT !.revoked = today]
        OBVIOUS
    <2>2. p \in Permission /\ p.revoked = today
        BY <2>1 DEF PermissionsInv, Permission
    <2>3. consents' = [consents EXCEPT ![c] = p]
        BY <1>2, <2>1 DEF Permissions!Revoke
    <2>4. QED BY <1>2, <2>2, <2>3 DEF PermissionsInv, Permissions!Revoke
<1>3. ASSUME Permissions!Tick
      PROVE  PermissionsInv'
    <2>1. \A c \in withdrawn : consents[c].revoked \in Int
        BY DEF PermissionsInv, Permission
    <2>2. QED BY <1>3, <2>1 DEF PermissionsInv, Permissions!Tick
<1>4. ASSUME Permissions!ProviderChanges
      PROVE  PermissionsInv'
    BY <1>4 DEF PermissionsInv, Permissions!ProviderChanges
<1>5. ASSUME NEW id, NEW s, Permissions!Serve(id, s)
      PROVE  PermissionsInv'
    BY <1>5 DEF PermissionsInv, Permissions!Serve
<1>6. ASSUME UNCHANGED Permissions!consentVars
      PROVE  PermissionsInv'
    BY <1>6 DEF PermissionsInv, Permissions!consentVars
<1>7. QED BY <1>1, <1>2, <1>3, <1>4, <1>5, <1>6 DEF Permissions!Next

\* What one step may answer.
LEMMA ServesWhatIsStanding ==
    ASSUME PermissionsInv, [Permissions!Next]_(Permissions!consentVars), answer' # answer,
           answer'.kind = "served"
    PROVE  /\ answer'.consent \notin withdrawn
           /\ answer'.scope \in consents[answer'.consent].scopes
           /\ today < consents[answer'.consent].expires
<1>1. PICK id, s : Permissions!Serve(id, s)
    BY DEF Permissions!Next, Permissions!Grant, Permissions!Revoke, Permissions!Tick,
           Permissions!ProviderChanges, Permissions!consentVars
<1>2. answer'.consent = id /\ answer'.scope = s
      /\ Permissions!Outcome(consents, id, s, today, providerUp) = "served"
    BY <1>1 DEF Permissions!Serve
<1>3. /\ id \in DOMAIN consents
      /\ consents[id] # Permissions!NotGranted
      /\ Permissions!Status(consents[id], today) = "valid"
      /\ s \in consents[id].scopes
    BY <1>2 DEF Permissions!Outcome, Permissions!Status
<1>4. id \in Consents /\ consents[id] \in Permission
    BY <1>3 DEF PermissionsInv
<1>5. ~ (today >= consents[id].revoked) /\ ~ (today >= consents[id].expires)
    BY <1>3 DEF Permissions!Status
<1>6. today \in Int /\ consents[id].revoked \in Int /\ consents[id].expires \in Int
    BY <1>4, ConsentAssumption DEF PermissionsInv, Permission
<1>7. QED BY <1>2, <1>3, <1>4, <1>5, <1>6 DEF PermissionsInv

------------------------------------------------------------------------------
(* Exit *)

LEMMA ExitSum ==
    ASSUME NEW f
    PROVE  Exit!SumFunction(f) = SumFunctionOnSet(f, DOMAIN f)
BY DEF SumFunctionOnSet, FoldFunctionOnSet, MapThenFoldSet,
       Exit!SumFunction, Exit!SumFunctionOnSet, Exit!FoldFunctionOnSet, Exit!MapThenFoldSet

LEMMA ExitCardinality ==
    ASSUME NEW S
    PROVE  Exit!Cardinality(S) = Cardinality(S)
BY DEF Cardinality, Exit!Cardinality

ExitInv ==
    /\ executed \in Seq(Steps)
    /\ exported \in BOOLEAN
    /\ available \in AvailableCash \cup {0}

LEMMA ExitInit ==
    ASSUME Exit!Init
    PROVE  ExitInv
<1>1. <<>> \in Seq(Steps)
    OBVIOUS
<1>2. QED BY <1>1 DEF Exit!Init, ExitInv

LEMMA ExitNext ==
    ASSUME ExitInv, [Exit!Next]_(Exit!exitVars)
    PROVE  ExitInv'
<1>1. ASSUME NEW s \in Steps, Exit!Execute(s)
      PROVE  ExitInv'
    BY <1>1 DEF Exit!Execute, ExitInv
<1>2. CASE Exit!Export \/ (\E a \in AvailableCash : Exit!Recover(a)) \/ Exit!Finished \/ UNCHANGED Exit!exitVars
    BY <1>2 DEF Exit!Export, Exit!Recover, Exit!Finished, Exit!exitVars, ExitInv
<1>3. QED BY <1>1, <1>2 DEF Exit!Next

\* One client's share of what is short: the quotient and what the rounding takes off.
LEMMA PartIs ==
    ASSUME NEW c \in DOMAIN Owed, NEW money \in Nat, NEW total \in Nat,
           total = Exit!TotalOwed(Owed), money < total
    PROVE  /\ Exit!Part(Owed, c, money) \in Nat
           /\ \E rest \in 0 .. (total - 1) : Owed[c] * money = total * Exit!Part(Owed, c, money) + rest
<1>1. total > 0 /\ Exit!Falls(Owed, money)
    BY DEF Exit!Falls
<1>2. Exit!Part(Owed, c, money) = (Owed[c] * money) \div total
    BY <1>1 DEF Exit!Part
<1>3. PICK o \in Nat : o = Owed[c]
    BY ExitAssumption
<1>4. PICK a \in Int : a = o * money /\ a >= 0
    <2>1. o * money \in Int /\ money * 0 <= money * o /\ money * 0 = 0 /\ money * o = o * money
        BY TimesMonotone, TimesReorders
    <2>2. QED BY <2>1
<1>5. /\ a \div total \in Int /\ a % total \in Int /\ a = total * (a \div total) + (a % total)
      /\ 0 <= a % total /\ a % total <= total - 1 /\ a \div total >= 0
    BY <1>1, <1>4, Division
<1>6. a % total \in 0 .. (total - 1) /\ a \div total \in Nat
    BY <1>5
<1>7. Exit!Part(Owed, c, money) = a \div total
    BY <1>2, <1>3, <1>4
<1>8. QED BY <1>3, <1>4, <1>5, <1>6, <1>7

LEMMA TotalIs ==
    /\ Exit!TotalOwed(Owed) = SumFunctionOnSet(Owed, DOMAIN Owed)
    /\ Exit!TotalOwed(Owed) \in Nat
<1>1. Exit!TotalOwed(Owed) = SumFunctionOnSet(Owed, DOMAIN Owed)
    BY ExitSum DEF Exit!TotalOwed
<1>2. \A c \in DOMAIN Owed : Owed[c] \in Int /\ 0 <= Owed[c]
    BY ExitAssumption
<1>3. PICK zero : zero = [c \in DOMAIN Owed |-> 0]
    OBVIOUS
<1>4. \A c \in DOMAIN Owed : zero[c] = 0 /\ zero[c] \in Int /\ zero[c] <= Owed[c]
    BY <1>2, <1>3
<1>5. SumFunctionOnSet(zero, DOMAIN Owed) = 0
    BY <1>4, ExitAssumption, SumZero
<1>6. SumFunctionOnSet(zero, DOMAIN Owed) <= SumFunctionOnSet(Owed, DOMAIN Owed)
    BY <1>2, <1>4, ExitAssumption, SumMonotone
<1>7. SumFunctionOnSet(Owed, DOMAIN Owed) \in Int
    BY <1>2, ExitAssumption, SumType
<1>8. QED BY <1>1, <1>5, <1>6, <1>7

\* What is short is shared out but for less than one unit per client.
LEMMA SharedOut ==
    ASSUME NEW money \in Nat, NEW total \in Nat, total = Exit!TotalOwed(Owed), money < total
    PROVE  /\ Exit!Distributed(Owed, money) \in Int
           /\ Exit!Distributed(Owed, money) <= money
           /\ money - Exit!Distributed(Owed, money) < Cardinality(DOMAIN Owed)
<1> DEFINE D == DOMAIN Owed
<1>1. IsFiniteSet(D) /\ (\A c \in D : Owed[c] \in Int) /\ Cardinality(D) \in Nat
    <2>1. IsFiniteSet(D) /\ (\A c \in D : Owed[c] \in Int)
        BY ExitAssumption
    <2>2. QED BY <2>1, FS_CardinalityType
<1>2. PICK part, due, whole, rest, most :
        /\ part = [c \in D |-> Exit!Part(Owed, c, money)]
        /\ due = [c \in D |-> money * Owed[c]]
        /\ whole = [c \in D |-> total * Exit!Part(Owed, c, money)]
        /\ rest = [c \in D |-> money * Owed[c] - total * Exit!Part(Owed, c, money)]
        /\ most = [c \in D |-> total - 1]
    OBVIOUS
<1>3. ASSUME NEW c \in D
      PROVE  /\ part[c] \in Int /\ due[c] \in Int /\ whole[c] \in Int /\ rest[c] \in Int /\ most[c] \in Int
             /\ 0 <= rest[c] /\ rest[c] <= most[c] /\ most[c] = total - 1
             /\ due[c] = whole[c] + rest[c] /\ due[c] = money * Owed[c] /\ whole[c] = total * part[c]
    <2>1. PICK p \in Nat, r \in 0 .. (total - 1) :
            p = Exit!Part(Owed, c, money) /\ Owed[c] * money = total * p + r
        BY PartIs
    <2>2. PICK a, b \in Int : a = money * Owed[c] /\ b = total * p /\ a = b + r
        <3>1. Owed[c] \in Int
            BY <1>1
        <3>2. money * Owed[c] = Owed[c] * money /\ money * Owed[c] \in Int /\ total * p \in Int
            BY <3>1, TimesReorders
        <3>3. QED BY <2>1, <3>2
    <2>3. part[c] = p /\ due[c] = a /\ whole[c] = b /\ rest[c] = a - b /\ most[c] = total - 1
        BY <1>2, <2>1, <2>2
    <2>4. r \in Int /\ 0 <= r /\ r <= total - 1 /\ a - b = r
        BY <2>1, <2>2
    <2>5. part[c] \in Int /\ due[c] \in Int /\ whole[c] \in Int /\ rest[c] \in Int /\ most[c] \in Int
        <3>1. p \in Int /\ a \in Int /\ b \in Int /\ a - b \in Int
            OBVIOUS
        <3>2. total - 1 \in Int
            BY <1>1
        <3>3. QED BY <2>3, <3>1, <3>2
    <2>6. 0 <= rest[c] /\ rest[c] <= most[c] /\ most[c] = total - 1
        BY <2>3, <2>4
    <2>7. due[c] = whole[c] + rest[c]
        BY <2>2, <2>3, <2>4
    <2>8. due[c] = money * Owed[c] /\ whole[c] = total * part[c]
        BY <2>2, <2>3
    <2>9. QED BY <2>5, <2>6, <2>7, <2>8
<1>4. Exit!Distributed(Owed, money) = SumFunctionOnSet(part, D)
    BY <1>2, ExitSum DEF Exit!Distributed
<1> HIDE DEF D
<1>5. PICK given, r \in Int : given = SumFunctionOnSet(part, D) /\ r = SumFunctionOnSet(rest, D)
    <2>1. SumFunctionOnSet(part, D) \in Int
        BY <1>1, <1>3, SumType
    <2>2. SumFunctionOnSet(rest, D) \in Int
        BY <1>1, <1>3, SumType
    <2>3. QED BY <2>1, <2>2
<1>6. SumFunctionOnSet(due, D) = money * total
    <2>1. SumFunctionOnSet(due, D) = money * SumFunctionOnSet(Owed, D)
        BY <1>1, <1>3, SumScale
    <2>2. QED BY <2>1, TotalIs DEF D
<1>7. SumFunctionOnSet(whole, D) = total * given
    <2>1. SumFunctionOnSet(whole, D) = total * SumFunctionOnSet(part, D)
        BY <1>1, <1>3, SumScale
    <2>2. QED BY <1>5, <2>1
<1>8. money * total = total * given + r
    <2>1. SumFunctionOnSet(due, D) = SumFunctionOnSet(whole, D) + SumFunctionOnSet(rest, D)
        BY <1>1, <1>3, SumPlus
    <2>2. QED BY <1>5, <1>6, <1>7, <2>1
<1>9. 0 <= r
    <2>1. PICK zero : zero = [c \in D |-> 0]
        OBVIOUS
    <2>2. \A c \in D : zero[c] = 0 /\ zero[c] \in Int /\ zero[c] <= rest[c]
        BY <1>3, <2>1
    <2>3. SumFunctionOnSet(zero, D) = 0
        BY <1>1, <2>2, SumZero
    <2>4. SumFunctionOnSet(zero, D) <= SumFunctionOnSet(rest, D)
        BY <1>1, <1>3, <2>2, SumMonotone
    <2>5. QED BY <1>5, <2>3, <2>4
<1>10. r <= (total - 1) * Cardinality(D)
    <2>1. SumFunctionOnSet(rest, D) <= SumFunctionOnSet(most, D)
        BY <1>1, <1>3, SumMonotone
    <2>2. SumFunctionOnSet(most, D) = (total - 1) * Cardinality(D)
        <3>1. PICK n \in Int : n = total - 1
            OBVIOUS
        <3>2. \A c \in D : most[c] = n
            BY <1>3, <3>1
        <3>3. SumFunctionOnSet(most, D) = n * Cardinality(D)
            BY <1>1, <3>2, SumConstant
        <3>4. QED BY <3>1, <3>3
    <2>3. QED BY <1>5, <2>1, <2>2
<1>11. D # {}
    <2>1. SUFFICES ASSUME D = {} PROVE FALSE
        OBVIOUS
    <2>2. total = 0
        BY <2>1, TotalIs, SumEmpty DEF D
    <2>3. QED BY <2>2
<1>12. PICK n \in Nat : n = Cardinality(D) /\ n >= 1
    <2>1. Cardinality(D) # 0
        BY <1>1, <1>11, FS_EmptySet
    <2>2. QED BY <1>1, <2>1
<1>13. total * (money - given) = r
    <2>1. total * (money - given) = total * money - total * given /\ total * money = money * total
          /\ total * money \in Int /\ total * given \in Int
        BY TimesReorders
    <2>2. QED BY <1>8, <2>1
<1>14. given <= money
    <2>1. total * 0 = 0 /\ 0 <= r
        BY <1>9
    <2>2. total * 0 <= total * (money - given) /\ 0 < total /\ money - given \in Int
        BY <1>13, <2>1
    <2>3. 0 <= money - given
        BY <2>2, TimesCancels
    <2>4. QED BY <2>3
<1>15. money - given <= n - 1
    <2>1. (total - 1) * n = total * n - n
        BY TimesReorders
    <2>2. total * (money - given) <= total * n - n
        BY <1>10, <1>12, <1>13, <2>1
    <2>3. SUFFICES ASSUME n <= money - given PROVE FALSE
        OBVIOUS
    <2>4. total * n <= total * (money - given)
        BY <2>3, TimesMonotone
    <2>5. PICK x, y \in Int : x = total * n /\ y = total * (money - given)
        OBVIOUS
    <2>6. QED BY <1>12, <2>2, <2>4, <2>5
<1>16. QED BY <1>4, <1>5, <1>12, <1>14, <1>15 DEF D

\* What one client gets, in proportion, is at most one unit more than what another gets.
LEMMA EvenParts ==
    ASSUME NEW money \in Nat, NEW total \in Nat, total = Exit!TotalOwed(Owed), money < total,
           NEW c \in DOMAIN Owed, NEW d \in DOMAIN Owed
    PROVE  Exit!Part(Owed, c, money) * Owed[d] <= (Exit!Part(Owed, d, money) + 1) * Owed[c]
<1>1. PICK p \in Nat, r \in 0 .. (total - 1) : p = Exit!Part(Owed, c, money) /\ Owed[c] * money = total * p + r
    BY PartIs
<1>2. PICK q \in Nat, s \in 0 .. (total - 1) : q = Exit!Part(Owed, d, money) /\ Owed[d] * money = total * q + s
    BY PartIs
<1>3. PICK a, b \in Nat : a = Owed[c] /\ b = Owed[d]
    BY ExitAssumption
<1>4. total * p <= a * money
    <2>1. total * p \in Int /\ a * money \in Int /\ r >= 0 /\ r \in Int
        OBVIOUS
    <2>2. QED BY <1>1, <1>3, <2>1
<1>5. b * money <= total * (q + 1)
    <2>1. total * (q + 1) = total * q + total /\ total * q \in Int /\ s <= total - 1 /\ s \in Int
        OBVIOUS
    <2>2. QED BY <1>2, <1>3, <2>1
<1>6. b * (total * p) <= b * (a * money)
    <2>1. total * p \in Int /\ a * money \in Int
        OBVIOUS
    <2>2. QED BY <1>4, <2>1, TimesMonotone
<1>7. a * (b * money) <= a * (total * (q + 1))
    <2>1. b * money \in Int /\ total * (q + 1) \in Int
        OBVIOUS
    <2>2. QED BY <1>5, <2>1, TimesMonotone
<1>8. /\ b * (total * p) = total * (p * b)
      /\ b * (a * money) = a * (b * money)
      /\ a * (total * (q + 1)) = total * ((q + 1) * a)
    OBVIOUS
<1>9. total * (p * b) <= total * ((q + 1) * a)
    BY <1>6, <1>7, <1>8
<1>10. p * b \in Int /\ (q + 1) * a \in Int /\ total > 0
    OBVIOUS
<1>11. p * b <= (q + 1) * a
    BY <1>9, <1>10, TimesCancels
<1>12. QED BY <1>1, <1>2, <1>3, <1>11

\* When there is enough, everybody gets what is owed.
LEMMA PaidInFull ==
    ASSUME NEW money, ~ Exit!Falls(Owed, money)
    PROVE  Exit!Distributed(Owed, money) = Exit!TotalOwed(Owed)
<1>1. \A c \in DOMAIN Owed : Exit!Part(Owed, c, money) = Owed[c]
    BY DEF Exit!Part
<1>2. PICK part : part = [c \in DOMAIN Owed |-> Exit!Part(Owed, c, money)]
    OBVIOUS
<1>3. \A c \in DOMAIN Owed : Owed[c] \in Int /\ part[c] = Owed[c]
    BY <1>1, <1>2, ExitAssumption
<1>4. SumFunctionOnSet(part, DOMAIN Owed) = SumFunctionOnSet(Owed, DOMAIN Owed)
    BY <1>3, ExitAssumption, SumSame
<1>5. QED BY <1>2, <1>4, TotalIs, ExitSum DEF Exit!Distributed

LEMMA ExitIsFair ==
    ASSUME ExitInv
    PROVE  Exit!DistributionIsProportional
<1>1. PICK total, money \in Nat : total = Exit!TotalOwed(Owed) /\ money = available
    BY TotalIs, ExitAssumption DEF ExitInv
<1>2. CASE money < total
    <2>1. Exit!Falls(Owed, money)
        BY <1>1, <1>2 DEF Exit!Falls
    <2>2. PICK given \in Int : /\ given = Exit!Distributed(Owed, money) /\ given <= money
                               /\ money - given < Cardinality(DOMAIN Owed)
        BY <1>1, <1>2, SharedOut
    <2>3. given <= total
        BY <1>2, <2>2
    <2>4. \A c, d \in DOMAIN Owed :
            Exit!Part(Owed, c, money) * Owed[d] <= (Exit!Part(Owed, d, money) + 1) * Owed[c]
        BY <1>1, <1>2, EvenParts
    <2>5. QED BY <1>1, <2>1, <2>2, <2>3, <2>4, ExitCardinality DEF Exit!DistributionIsProportional
<1>3. CASE ~ (money < total)
    <2>1. ~ Exit!Falls(Owed, money)
        BY <1>1, <1>3 DEF Exit!Falls
    <2>2. Exit!Distributed(Owed, money) = total /\ total <= money
        BY <1>1, <1>3, <2>1, PaidInFull
    <2>3. QED BY <1>1, <2>1, <2>2 DEF Exit!DistributionIsProportional
<1>4. QED BY <1>2, <1>3

LEMMA ExitIsComplete ==
    ASSUME ExitInv
    PROVE  Exit!TypeOK /\ Exit!CompleteMeansComplete
<1>1. ASSUME Exit!Complete(executed, Owed, available, exported)
      PROVE  /\ \A i \in 1 .. (Len(executed) - 1) : executed[i] <= executed[i + 1]
             /\ exported
             /\ Exit!Distributed(Owed, available) = Exit!TotalOwed(Owed)
    <2>1. Exit!Findings(executed, Owed, available, exported) = {}
        BY <1>1 DEF Exit!Complete
    <2>2. "out-of-order" \notin Exit!Findings(executed, Owed, available, exported)
          /\ "shortfall" \notin Exit!Findings(executed, Owed, available, exported)
          /\ "histories-not-exported" \notin Exit!Findings(executed, Owed, available, exported)
        BY <2>1
    <2>3. Exit!OutOfOrder(executed) = {} /\ ~ Exit!Falls(Owed, available) /\ exported
        BY <2>2 DEF Exit!Findings
    <2>4. ASSUME NEW i \in 1 .. (Len(executed) - 1)
          PROVE  executed[i] <= executed[i + 1]
        <3>1. /\ i \in DOMAIN executed /\ i + 1 \in DOMAIN executed /\ i < i + 1
              /\ executed[i] \in Int /\ executed[i + 1] \in Int
            BY ExitAssumption DEF ExitInv
        <3>2. <<i, i + 1>> \notin Exit!OutOfOrder(executed)
            BY <2>3
        <3>3. ~ (executed[i + 1] < executed[i])
            BY <3>1, <3>2 DEF Exit!OutOfOrder
        <3>4. QED BY <3>1, <3>3
    <2>5. QED BY <2>3, <2>4, PaidInFull
<1>2. QED BY <1>1 DEF ExitInv, Exit!TypeOK, Exit!CompleteMeansComplete

------------------------------------------------------------------------------
(* Custody *)

Holding == [owner : Clients \cup {House}, instrument : Instruments, units : Int]
Movement == [instrument : Instruments, units : Int, reason : BOOLEAN]
Statement == UNION {[D -> Int] : D \in SUBSET Instruments}

CustodyInv ==
    /\ positions \in Seq(Holding) /\ Len(positions) <= MaxPositions
    /\ pending \in Seq(Movement) /\ Len(pending) <= MaxPending
    /\ statement \in Statement

LEMMA CustodySum ==
    ASSUME NEW f
    PROVE  /\ \A S : Custody!SumFunctionOnSet(f, S) = SumFunctionOnSet(f, S)
           /\ Custody!SumFunction(f) = SumFunctionOnSet(f, DOMAIN f)
BY DEF SumFunctionOnSet, FoldFunctionOnSet, MapThenFoldSet,
       Custody!SumFunction, Custody!SumFunctionOnSet, Custody!FoldFunctionOnSet, Custody!MapThenFoldSet

LEMMA CustodyInit ==
    ASSUME Custody!Init
    PROVE  CustodyInv
<1>1. [i \in Instruments |-> 0] \in Statement
    <2>1. [i \in Instruments |-> 0] \in [Instruments -> Int]
        OBVIOUS
    <2>2. QED BY <2>1 DEF Statement
<1>2. positions = <<>> /\ pending = <<>> /\ statement = [i \in Instruments |-> 0]
    BY DEF Custody!Init
<1>3. positions \in Seq(Holding) /\ pending \in Seq(Movement) /\ Len(positions) = 0 /\ Len(pending) = 0
    BY <1>2
<1>4. QED BY <1>1, <1>2, <1>3, CustodyAssumption DEF CustodyInv

LEMMA CustodyNext ==
    ASSUME CustodyInv, [Custody!Next]_(Custody!custodyVars)
    PROVE  CustodyInv'
<1>1. ASSUME NEW o \in Clients \cup {House}, NEW i \in Instruments, NEW u \in Units, Custody!Record(o, i, u)
      PROVE  CustodyInv'
    <2>1. PICK p : p = [owner |-> o, instrument |-> i, units |-> u]
        OBVIOUS
    <2>2. p \in Holding
        BY <2>1, CustodyAssumption DEF Holding
    <2>3. positions' = Append(positions, p) /\ Len(positions) < MaxPositions /\ UNCHANGED <<pending, statement>>
        BY <1>1, <2>1 DEF Custody!Record
    <2>4. positions' \in Seq(Holding) /\ Len(positions') <= MaxPositions
        BY <2>2, <2>3, CustodyAssumption DEF CustodyInv
    <2>5. QED BY <2>3, <2>4 DEF CustodyInv
<1>2. ASSUME NEW i \in Instruments, NEW u \in Units, NEW r \in BOOLEAN, Custody!ExpectPending(i, u, r)
      PROVE  CustodyInv'
    <2>1. PICK m : m = [instrument |-> i, units |-> u, reason |-> r]
        OBVIOUS
    <2>2. m \in Movement
        BY <2>1, CustodyAssumption DEF Movement
    <2>3. pending' = Append(pending, m) /\ Len(pending) < MaxPending /\ UNCHANGED <<positions, statement>>
        BY <1>2, <2>1 DEF Custody!ExpectPending
    <2>4. pending' \in Seq(Movement) /\ Len(pending') <= MaxPending
        BY <2>2, <2>3, CustodyAssumption DEF CustodyInv
    <2>5. QED BY <2>3, <2>4 DEF CustodyInv
<1>3. ASSUME NEW s \in Statements, Custody!States(s)
      PROVE  CustodyInv'
    <2>1. s \in Statement
        BY CustodyAssumption DEF Statement
    <2>2. QED BY <1>3, <2>1 DEF CustodyInv, Custody!States
<1>4. ASSUME UNCHANGED Custody!custodyVars
      PROVE  CustodyInv'
    BY <1>4 DEF CustodyInv, Custody!custodyVars
<1>5. QED BY <1>1, <1>2, <1>3, <1>4 DEF Custody!Next

\* What the code adds up, entry by entry, is what the clients have of an instrument.
LEMMA RegisteredIs ==
    ASSUME CustodyInv, NEW i
    PROVE  Custody!Registered(positions, i) = Custody!ClientUnits(i) /\ Custody!Registered(positions, i) \in Int
<1> DEFINE S == DOMAIN positions
           T == {k \in S : positions[k].owner # House /\ positions[k].instrument = i}
<1>1. PICK f, h : /\ f = [k \in S |-> positions[k].units]
                  /\ h = [k \in S |-> IF positions[k].owner \in Clients /\ positions[k].instrument = i
                                      THEN positions[k].units ELSE 0]
    OBVIOUS
<1>2. \A k \in S : positions[k] \in Holding
    BY DEF CustodyInv
<1>3. \A k \in S : /\ positions[k].units \in Int
                   /\ positions[k].owner \in Clients <=> positions[k].owner # House
    BY <1>2, CustodyAssumption DEF Holding
<1>4. /\ T \subseteq S /\ \A k \in T : f[k] \in Int /\ h[k] = f[k]
      /\ \A k \in S \ T : h[k] = 0
    BY <1>1, <1>3
<1>5. IsFiniteSet(S) /\ IsFiniteSet(T)
    <2>1. S = 1 .. Len(positions) /\ Len(positions) \in Nat
        BY DEF CustodyInv
    <2>2. IsFiniteSet(S)
        BY <2>1, FS_Interval
    <2>3. QED BY <2>2, FS_Subset
<1>6. Custody!Registered(positions, i) = SumFunctionOnSet(f, T)
    BY <1>1, CustodySum DEF Custody!Registered, Custody!TotalOf, Custody!IsClients
<1>7. Custody!ClientUnits(i) = SumFunctionOnSet(h, S)
    BY <1>1, CustodySum DEF Custody!ClientUnits
<1> HIDE DEF S, T
<1>8. (\A k \in T : f[k] \in Int) /\ (\A k \in T : h[k] = f[k])
    BY <1>4
<1>9. SumFunctionOnSet(h, S) = SumFunctionOnSet(f, T)
    BY <1>4, <1>5, <1>8, SumSupport
<1>10. SumFunctionOnSet(f, T) \in Int
    BY <1>5, <1>8, SumType
<1>11. QED BY <1>6, <1>7, <1>9, <1>10

LEMMA ExplainedIs ==
    ASSUME CustodyInv, NEW i
    PROVE  Custody!Explained(pending, i) = Custody!InTransit(i) /\ Custody!Explained(pending, i) \in Int
<1> DEFINE S == DOMAIN pending
           T == {k \in S : pending[k].reason /\ pending[k].instrument = i}
<1>1. PICK f, h : /\ f = [k \in S |-> pending[k].units]
                  /\ h = [k \in S |-> IF pending[k].instrument = i /\ pending[k].reason
                                      THEN pending[k].units ELSE 0]
    OBVIOUS
<1>2. \A k \in S : pending[k] \in Movement
    BY DEF CustodyInv
<1>3. \A k \in S : pending[k].units \in Int
    BY <1>2 DEF Movement
<1>4. /\ T \subseteq S /\ \A k \in T : f[k] \in Int /\ h[k] = f[k]
      /\ \A k \in S \ T : h[k] = 0
    BY <1>1, <1>3
<1>5. IsFiniteSet(S) /\ IsFiniteSet(T)
    <2>1. S = 1 .. Len(pending) /\ Len(pending) \in Nat
        BY DEF CustodyInv
    <2>2. IsFiniteSet(S)
        BY <2>1, FS_Interval
    <2>3. QED BY <2>2, FS_Subset
<1>6. Custody!Explained(pending, i) = SumFunctionOnSet(f, T)
    BY <1>1, CustodySum DEF Custody!Explained, Custody!TotalOf, Custody!HasReason
<1>7. Custody!InTransit(i) = SumFunctionOnSet(h, S)
    BY <1>1, CustodySum DEF Custody!InTransit
<1> HIDE DEF S, T
<1>8. (\A k \in T : f[k] \in Int) /\ (\A k \in T : h[k] = f[k])
    BY <1>4
<1>9. SumFunctionOnSet(h, S) = SumFunctionOnSet(f, T)
    BY <1>4, <1>5, <1>8, SumSupport
<1>10. SumFunctionOnSet(f, T) \in Int
    BY <1>5, <1>8, SumType
<1>11. QED BY <1>6, <1>7, <1>9, <1>10

\* An instrument the code does not look at has nothing on either side.
LEMMA NotAppearing ==
    ASSUME CustodyInv, NEW i, i \notin Custody!Appearing(positions, pending, statement)
    PROVE  Custody!Difference(positions, pending, statement, i) = 0
<1>1. i \notin DOMAIN statement
    BY DEF Custody!Appearing
<1>2. {k \in DOMAIN positions : positions[k].owner # House /\ positions[k].instrument = i} = {}
    <2>1. ASSUME NEW k \in DOMAIN positions, positions[k].owner # House, positions[k].instrument = i
          PROVE  FALSE
        <3>1. positions[k] \in Custody!ToSet(positions)
            BY DEF Custody!ToSet
        <3>2. QED BY <2>1, <3>1 DEF Custody!Appearing, Custody!IsClients
    <2>2. QED BY <2>1
<1>3. {k \in DOMAIN pending : pending[k].reason /\ pending[k].instrument = i} = {}
    <2>1. ASSUME NEW k \in DOMAIN pending, pending[k].reason, pending[k].instrument = i
          PROVE  FALSE
        <3>1. pending[k] \in Custody!ToSet(pending)
            BY DEF Custody!ToSet
        <3>2. QED BY <2>1, <3>1 DEF Custody!Appearing, Custody!HasReason
    <2>2. QED BY <2>1
<1>4. Custody!Registered(positions, i) = 0
    BY <1>2, SumEmpty, CustodySum DEF Custody!Registered, Custody!TotalOf, Custody!IsClients
<1>5. Custody!Explained(pending, i) = 0
    BY <1>3, SumEmpty, CustodySum DEF Custody!Explained, Custody!TotalOf, Custody!HasReason
<1>6. QED BY <1>1, <1>4, <1>5 DEF Custody!Difference, Custody!Stated

LEMMA CustodyIsCovered ==
    ASSUME CustodyInv
    PROVE  Custody!TypeOK /\ Custody!ReconciledMeansCovered
<1>1. ASSUME Custody!Reconcile(positions, pending, statement) = {}, NEW i \in Instruments
      PROVE  Custody!ClientUnits(i) = Custody!Stated(statement, i) + Custody!InTransit(i)
    <2>1. PICK r, e \in Int :
            /\ r = Custody!Registered(positions, i) /\ r = Custody!ClientUnits(i)
            /\ e = Custody!Explained(pending, i) /\ e = Custody!InTransit(i)
        BY RegisteredIs, ExplainedIs
    <2>2. PICK s \in Int : s = Custody!Stated(statement, i)
        <3>1. PICK D \in SUBSET Instruments : statement \in [D -> Int]
            BY DEF CustodyInv, Statement
        <3>2. QED BY <3>1 DEF Custody!Stated
    <2>3. Custody!Difference(positions, pending, statement, i) = r - (s + e)
        BY <2>1, <2>2 DEF Custody!Difference
    <2>4. Custody!Difference(positions, pending, statement, i) = 0
        <3>1. CASE i \in Custody!Appearing(positions, pending, statement)
            <4>1. ~ (Custody!Difference(positions, pending, statement, i) > 0)
                  /\ ~ (Custody!Difference(positions, pending, statement, i) < 0)
                BY <1>1, <3>1 DEF Custody!Reconcile
            <4>2. r - (s + e) \in Int
                OBVIOUS
            <4>3. QED BY <2>3, <4>1, <4>2
        <3>2. QED BY <3>1, NotAppearing
    <2>5. QED BY <2>1, <2>2, <2>3, <2>4
<1>2. ASSUME Custody!Reconcile(positions, pending, statement) = {}, NEW k \in DOMAIN positions,
             positions[k].owner \in Clients
      PROVE  positions[k].units >= 0
    <2>1. positions[k] \in Custody!ToSet(positions) /\ positions[k] \in Holding
        BY DEF CustodyInv, Custody!ToSet
    <2>2. positions[k].owner # House /\ positions[k].units \in Int
        BY <1>2, <2>1, CustodyAssumption DEF Holding
    <2>3. ~ (positions[k].units < 0)
        BY <1>2, <2>1, <2>2 DEF Custody!Reconcile, Custody!IsClients
    <2>4. QED BY <2>2, <2>3
<1>3. ASSUME Custody!Reconcile(positions, pending, statement) = {}, NEW k \in DOMAIN pending
      PROVE  pending[k].reason
    <2>1. pending[k] \in Custody!ToSet(pending)
        BY DEF Custody!ToSet
    <2>2. QED BY <1>3, <2>1 DEF Custody!Reconcile, Custody!HasReason
<1>4. Custody!ReconciledMeansCovered
    BY <1>1, <1>2, <1>3 DEF Custody!ReconciledMeansCovered
<1>5. Custody!TypeOK
    <2>1. ASSUME NEW p \in Custody!ToSet(positions)
          PROVE  p.owner \in Clients \cup {House}
        <3>1. PICK k \in DOMAIN positions : p = positions[k]
            BY <2>1 DEF Custody!ToSet
        <3>2. p \in Holding
            BY <3>1 DEF CustodyInv
        <3>3. QED BY <3>2 DEF Holding
    <2>2. QED BY <2>1 DEF CustodyInv, Custody!TypeOK
<1>6. QED BY <1>4, <1>5

------------------------------------------------------------------------------
(* Reports *)

Contents == UNION {[D -> Int] : D \in SUBSET (DOMAIN FirstSections \cup NewSections)}

Report ==
    [version : Nat, schema : Int, previous : Nat, previousDigest : {<<>>} \cup Nat \X Contents,
     sections : Contents, declared : Int, operations : Seq(Operations)]

\* A version carries the number and the digest of the version before it as that one
\* was then; whatever is altered later, these stay.
ReportsInv ==
    /\ versions \in Seq(Report)
    /\ known \in Seq(Report)
    /\ Len(versions) = Len(known) + 1
    /\ \A k \in 1 .. Len(versions) : versions[k].version = k
    /\ \A k \in 1 .. Len(known) :
          versions[k + 1].previous = k /\ versions[k + 1].previousDigest = <<k, known[k].sections>>

LEMMA ReportsSum ==
    ASSUME NEW f
    PROVE  Reports!SumFunction(f) = SumFunctionOnSet(f, DOMAIN f)
BY DEF SumFunctionOnSet, FoldFunctionOnSet, MapThenFoldSet,
       Reports!SumFunction, Reports!SumFunctionOnSet, Reports!FoldFunctionOnSet, Reports!MapThenFoldSet

LEMMA ReportsInit ==
    ASSUME Reports!Init
    PROVE  ReportsInv
<1>1. FirstSections \in Contents
    BY ReportsAssumption DEF Contents
<1>2. Reports!SumFunction(FirstSections) \in Int
    <2>1. \A s \in DOMAIN FirstSections : FirstSections[s] \in Int
        BY ReportsAssumption
    <2>2. QED BY <2>1, ReportsAssumption, ReportsSum, SumType
<1>3. PICK r \in Report : r.version = 1 /\ versions = <<r>>
    <2>1. PICK total \in Int : total = Reports!SumFunction(FirstSections)
        BY <1>2
    <2>2. PICK r : r = [version |-> 1, schema |-> 2, previous |-> 0, previousDigest |-> <<>>,
                        sections |-> FirstSections, declared |-> total, operations |-> <<>>]
        OBVIOUS
    <2>3. versions = <<r>>
        BY <2>1, <2>2 DEF Reports!Init, Reports!CurrentSchema, Reports!NoDigest
    <2>4. r \in Report /\ r.version = 1
        BY <1>1, <2>2 DEF Report
    <2>5. QED BY <2>3, <2>4
<1>4. QED BY <1>3 DEF ReportsInv, Reports!Init

LEMMA CorrectKeeps ==
    ASSUME ReportsInv, NEW section \in NewSections, NEW figure \in Figures, Reports!Correct(section, figure)
    PROVE  ReportsInv'
<1> DEFINE n == Len(versions)
           last == versions[n]
<1>1. n \in Nat /\ n >= 1 /\ Len(known) = n - 1 /\ last \in Report /\ last.version = n
    BY DEF ReportsInv
<1>2. Reports!Last(versions) = last
    BY DEF Reports!Last
<1>3. last.sections \in Contents /\ last.declared \in Int /\ figure \in Int
    BY <1>1, ReportsAssumption DEF Report
<1>4. PICK content \in Contents :
        content = [s \in DOMAIN last.sections \cup {section} |-> IF s = section THEN figure ELSE last.sections[s]]
    <2>1. PICK D \in SUBSET (DOMAIN FirstSections \cup NewSections) : last.sections \in [D -> Int]
        BY <1>3 DEF Contents
    <2>2. DOMAIN last.sections \cup {section} \in SUBSET (DOMAIN FirstSections \cup NewSections)
        BY <2>1
    <2>3. [s \in DOMAIN last.sections \cup {section} |-> IF s = section THEN figure ELSE last.sections[s]]
            \in [DOMAIN last.sections \cup {section} -> Int]
        BY <1>3, <2>1
    <2>4. QED BY <2>2, <2>3 DEF Contents
<1>5. PICK r : r = Reports!CorrectionOf(last, section, figure)
    OBVIOUS
<1>6. r = [last EXCEPT !.version = n + 1, !.previous = n, !.previousDigest = <<n, last.sections>>,
                       !.sections = content, !.declared = last.declared + figure]
    BY <1>1, <1>4, <1>5 DEF Reports!CorrectionOf, Reports!Digest, Report
<1>7. r \in Report /\ r.version = n + 1 /\ r.previous = n /\ r.previousDigest = <<n, last.sections>>
    <2>1. r = [version |-> n + 1, schema |-> last.schema, previous |-> n,
               previousDigest |-> <<n, last.sections>>, sections |-> content,
               declared |-> last.declared + figure, operations |-> last.operations]
        BY <1>1, <1>6 DEF Report
    <2>2. /\ n + 1 \in Nat /\ last.schema \in Int /\ <<n, last.sections>> \in Nat \X Contents
          /\ last.declared + figure \in Int /\ last.operations \in Seq(Operations)
        BY <1>1, <1>3 DEF Report
    <2>3. QED BY <1>1, <2>1, <2>2 DEF Report
<1>8. versions' = Append(versions, r) /\ known' = Append(known, last)
    BY <1>2, <1>5 DEF Reports!Correct
<1>9. versions' \in Seq(Report) /\ known' \in Seq(Report) /\ Len(versions') = n + 1 /\ Len(known') = n
    BY <1>1, <1>3, <1>7, <1>8 DEF ReportsInv
<1>10. /\ \A k \in 1 .. n : versions'[k] = versions[k]
       /\ versions'[n + 1] = r
       /\ \A k \in 1 .. n - 1 : known'[k] = known[k]
       /\ known'[n] = last
    BY <1>1, <1>8 DEF ReportsInv
<1>11. \A k \in 1 .. n + 1 : versions'[k].version = k
    BY <1>1, <1>7, <1>10 DEF ReportsInv
<1>12. ASSUME NEW k \in 1 .. n
       PROVE  versions'[k + 1].previous = k /\ versions'[k + 1].previousDigest = <<k, known'[k].sections>>
    <2>1. CASE k = n
        BY <1>7, <1>10, <2>1
    <2>2. CASE k # n
        <3>1. k \in 1 .. n - 1 /\ k + 1 \in 1 .. n
            BY <1>1, <2>2
        <3>2. QED BY <1>1, <1>10, <3>1 DEF ReportsInv
    <2>3. QED BY <2>1, <2>2
<1>13. QED BY <1>9, <1>11, <1>12 DEF ReportsInv

\* Somebody who writes over sections or operations touches no link.
LEMMA AlterKeeps ==
    ASSUME ReportsInv, NEW k \in 1 .. Len(versions), NEW r \in Report,
           r.version = versions[k].version, r.previous = versions[k].previous,
           r.previousDigest = versions[k].previousDigest,
           versions' = [versions EXCEPT ![k] = r], UNCHANGED known
    PROVE  ReportsInv'
<1>1. versions' \in Seq(Report) /\ Len(versions') = Len(versions)
    BY DEF ReportsInv
<1>2. \A j \in 1 .. Len(versions) : /\ versions'[j].version = versions[j].version
                                    /\ versions'[j].previous = versions[j].previous
                                    /\ versions'[j].previousDigest = versions[j].previousDigest
    BY DEF ReportsInv
<1>3. \A j \in 1 .. Len(known) : j + 1 \in 1 .. Len(versions)
    BY DEF ReportsInv
<1>4. \A j \in 1 .. Len(versions) : versions'[j].version = j
    BY <1>2 DEF ReportsInv
<1>5. ASSUME NEW j \in 1 .. Len(known)
      PROVE  versions'[j + 1].previous = j /\ versions'[j + 1].previousDigest = <<j, known[j].sections>>
    <2>1. versions[j + 1].previous = j /\ versions[j + 1].previousDigest = <<j, known[j].sections>>
        BY DEF ReportsInv
    <2>2. QED BY <1>2, <1>3, <2>1
<1>6. known' = known /\ known \in Seq(Report) /\ Len(versions) = Len(known) + 1
    BY DEF ReportsInv
<1>7. /\ Len(versions') = Len(known') + 1
      /\ \A j \in 1 .. Len(versions') : versions'[j].version = j
      /\ \A j \in 1 .. Len(known') :
            versions'[j + 1].previous = j /\ versions'[j + 1].previousDigest = <<j, known'[j].sections>>
    BY <1>1, <1>4, <1>5, <1>6
<1>8. QED BY <1>1, <1>6, <1>7 DEF ReportsInv

LEMMA ReportsNext ==
    ASSUME ReportsInv, [Reports!Next]_(Reports!reportVars)
    PROVE  ReportsInv'
<1>1. ASSUME NEW k \in DOMAIN versions, NEW s \in DOMAIN FirstSections, NEW f \in Figures,
             Reports!AlterSection(k, s, f)
      PROVE  ReportsInv'
    <2>1. k \in 1 .. Len(versions) /\ versions[k] \in Report /\ f \in Int
        BY ReportsAssumption DEF ReportsInv
    <2>2. PICK content : content = [versions[k].sections EXCEPT ![s] = f]
        OBVIOUS
    <2>3. content \in Contents
        <3>1. versions[k].sections \in Contents
            BY <2>1 DEF Report
        <3>2. PICK D \in SUBSET (DOMAIN FirstSections \cup NewSections) : versions[k].sections \in [D -> Int]
            BY <3>1 DEF Contents
        <3>3. content \in [D -> Int]
            BY <2>1, <2>2, <3>2
        <3>4. QED BY <3>3 DEF Contents
    <2>4. PICK r : r = [versions[k] EXCEPT !.sections = content]
        OBVIOUS
    <2>5. /\ r \in Report /\ r.version = versions[k].version /\ r.previous = versions[k].previous
          /\ r.previousDigest = versions[k].previousDigest
        BY <2>1, <2>3, <2>4 DEF Report
    <2>6. versions' = [versions EXCEPT ![k] = r] /\ UNCHANGED known
        BY <1>1, <2>2, <2>4 DEF Reports!AlterSection
    <2>7. QED BY <2>1, <2>5, <2>6, AlterKeeps
<1>2. ASSUME NEW k \in DOMAIN versions, NEW o \in Operations, Reports!AlterOperations(k, o)
      PROVE  ReportsInv'
    <2>1. k \in 1 .. Len(versions) /\ versions[k] \in Report
        BY DEF ReportsInv
    <2>2. PICK r : r = [versions[k] EXCEPT !.operations = <<o>>]
        OBVIOUS
    <2>3. /\ r \in Report /\ r.version = versions[k].version /\ r.previous = versions[k].previous
          /\ r.previousDigest = versions[k].previousDigest
        <3>1. <<o>> \in Seq(Operations)
            OBVIOUS
        <3>2. QED BY <2>1, <2>2, <3>1 DEF Report
    <2>4. versions' = [versions EXCEPT ![k] = r] /\ UNCHANGED known
        BY <1>2, <2>2 DEF Reports!AlterOperations
    <2>5. QED BY <2>1, <2>3, <2>4, AlterKeeps
<1>3. ASSUME UNCHANGED Reports!reportVars
      PROVE  ReportsInv'
    BY <1>3 DEF ReportsInv, Reports!reportVars
<1>4. QED BY <1>1, <1>2, <1>3, CorrectKeeps DEF Reports!Next

LEMMA ReportsShow ==
    ASSUME ReportsInv
    PROVE  Reports!TypeOK /\ Reports!SectionAlterationsShow
<1>1. DOMAIN versions = 1 .. Len(versions) /\ DOMAIN known = 1 .. Len(known)
      /\ Len(known) \in Nat /\ Len(versions) = Len(known) + 1
    BY DEF ReportsInv
<1>2. ASSUME NEW k \in 1 .. Len(known)
      PROVE  /\ Reports!Linked(versions[k], versions[k + 1])
             /\ Reports!Matches(versions[k], versions[k + 1]) <=> versions[k].sections = known[k].sections
    <2>1. k \in 1 .. Len(versions) /\ versions[k].version = k
        BY <1>1 DEF ReportsInv
    <2>2. versions[k + 1].previous = k /\ versions[k + 1].previousDigest = <<k, known[k].sections>>
        BY DEF ReportsInv
    <2>3. <<k, known[k].sections>> # <<>>
        OBVIOUS
    <2>4. QED BY <2>1, <2>2, <2>3 DEF Reports!Linked, Reports!Matches, Reports!Digest, Reports!NoDigest
<1>3. Len(versions) - 1 = Len(known)
    BY <1>1
<1>4. {j \in 1 .. (Len(versions) - 1) : ~ Reports!Linked(versions[j], versions[j + 1])
                                        \/ ~ Reports!Matches(versions[j], versions[j + 1])}
      = {j \in DOMAIN known : versions[j].sections # known[j].sections}
    BY <1>1, <1>2, <1>3
<1>5. Reports!VerifyChain(versions) =
        {<<"history-altered", k>> : k \in {j \in DOMAIN known : versions[j].sections # known[j].sections}}
    BY <1>1, <1>2, <1>4 DEF Reports!VerifyChain
<1>6. QED BY <1>1, <1>5 DEF ReportsInv, Reports!TypeOK, Reports!SectionAlterationsShow

------------------------------------------------------------------------------
(* The campaign *)

Pledge == [amount : Amounts, foreign : BOOLEAN, sequence : 1 .. MaxCommitments]
Rules == {"pro-rata", "first-come-first-served"}

CampaignInv ==
    /\ commitments \in Seq(Pledge)
    /\ \A i, j \in DOMAIN commitments : commitments[i].sequence = commitments[j].sequence => i = j
    /\ rule \in Rules
    /\ \/ outcome = Campaign!Open
       \/ outcome = Campaign!Outcome(commitments, rule)

LEMMA CampaignSum ==
    ASSUME NEW f
    PROVE  /\ \A S : Campaign!SumFunctionOnSet(f, S) = SumFunctionOnSet(f, S)
           /\ Campaign!Sum(f) = SumFunctionOnSet(f, DOMAIN f)
BY DEF SumFunctionOnSet, FoldFunctionOnSet, MapThenFoldSet, Campaign!Sum,
       Campaign!SumFunction, Campaign!SumFunctionOnSet, Campaign!FoldFunctionOnSet, Campaign!MapThenFoldSet

LEMMA CampaignCardinality ==
    ASSUME NEW S
    PROVE  Campaign!Cardinality(S) = Cardinality(S)
BY DEF Cardinality, Campaign!Cardinality

LEMMA CampaignInit ==
    ASSUME Campaign!Init
    PROVE  CampaignInv
<1>1. commitments = <<>> /\ rule = "pro-rata" /\ outcome = Campaign!Open
    BY DEF Campaign!Init
<1>2. commitments \in Seq(Pledge) /\ DOMAIN commitments = {}
    BY <1>1
<1>3. QED BY <1>1, <1>2 DEF CampaignInv, Rules

LEMMA CampaignNext ==
    ASSUME CampaignInv, [Campaign!Next]_(Campaign!campaignVars)
    PROVE  CampaignInv'
<1>1. ASSUME NEW r \in Rules, Campaign!Publish(r)
      PROVE  CampaignInv'
    BY <1>1 DEF Campaign!Publish, CampaignInv
<1>2. ASSUME Campaign!Commit
      PROVE  CampaignInv'
    <2>1. PICK a \in Amounts, f \in BOOLEAN, n \in 1 .. MaxCommitments :
            /\ \A i \in DOMAIN commitments : commitments[i].sequence # n
            /\ commitments' = Append(commitments, [amount |-> a, foreign |-> f, sequence |-> n])
        BY <1>2 DEF Campaign!Commit
    <2>2. PICK p : p = [amount |-> a, foreign |-> f, sequence |-> n]
        OBVIOUS
    <2>3. p \in Pledge /\ p.sequence = n
        BY <2>2 DEF Pledge
    <2>4. PICK L, next : L = commitments /\ next = commitments'
        OBVIOUS
    <2>5. /\ L \in Seq(Pledge) /\ next = Append(L, p)
          /\ \A i \in DOMAIN L : L[i].sequence # n
          /\ \A i, j \in DOMAIN L : L[i].sequence = L[j].sequence => i = j
        BY <2>1, <2>2, <2>4 DEF CampaignInv
    <2>6. /\ next \in Seq(Pledge) /\ DOMAIN next = 1 .. Len(L) + 1 /\ Len(L) \in Nat /\ DOMAIN L = 1 .. Len(L)
          /\ next[Len(L) + 1] = p /\ \A i \in 1 .. Len(L) : next[i] = L[i]
        BY <2>3, <2>5
    <2>7. ASSUME NEW i \in DOMAIN next, NEW j \in DOMAIN next, next[i].sequence = next[j].sequence
          PROVE  i = j
        <3>1. (i \in DOMAIN L \/ i = Len(L) + 1) /\ (j \in DOMAIN L \/ j = Len(L) + 1)
            BY <2>6
        <3>2. CASE i \in DOMAIN L /\ j \in DOMAIN L
            BY <2>5, <2>6, <2>7, <3>2
        <3>3. CASE i = Len(L) + 1 /\ j \in DOMAIN L
            BY <2>3, <2>5, <2>6, <2>7, <3>3
        <3>4. CASE i \in DOMAIN L /\ j = Len(L) + 1
            BY <2>3, <2>5, <2>6, <2>7, <3>4
        <3>5. QED BY <3>1, <3>2, <3>3, <3>4
    <2>8. outcome' = Campaign!Open /\ rule' = rule
        BY <1>2 DEF Campaign!Commit
    <2>9. QED BY <2>4, <2>6, <2>7, <2>8 DEF CampaignInv
<1>3. ASSUME Campaign!Close
      PROVE  CampaignInv'
    BY <1>3 DEF Campaign!Close, CampaignInv
<1>4. CASE Campaign!Done \/ UNCHANGED Campaign!campaignVars
    BY <1>4 DEF Campaign!Done, Campaign!campaignVars, CampaignInv
<1>5. QED BY <1>1, <1>2, <1>3, <1>4 DEF Campaign!Next, Rules

\* Who is accepted comes in order of arrival.
LEMMA AcceptedIs ==
    ASSUME CampaignInv
    PROVE  \E n \in Nat : /\ Campaign!Accepted(commitments) \in [1 .. n -> Pledge]
                          /\ \A i, j \in 1 .. n :
                                i < j => Campaign!Accepted(commitments)[i].sequence < Campaign!Accepted(commitments)[j].sequence
<1>1. PICK S : S = {c \in Campaign!Range(commitments) : Campaign!Fits(c)}
    OBVIOUS
<1>2. Campaign!Range(commitments) = {commitments[i] : i \in DOMAIN commitments}
    BY DEF Campaign!Range
<1>3. S \subseteq Pledge /\ \A a, b \in S : a.sequence = b.sequence => a = b
    <2>1. \A i \in DOMAIN commitments : commitments[i] \in Pledge
        BY DEF CampaignInv
    <2>2. \A c \in S : \E i \in DOMAIN commitments : c = commitments[i]
        BY <1>1, <1>2
    <2>3. QED BY <2>1, <2>2 DEF CampaignInv
<1>4. IsFiniteSet(S)
    <2>1. DOMAIN commitments = 1 .. Len(commitments) /\ Len(commitments) \in Nat
        BY DEF CampaignInv
    <2>2. IsFiniteSet(DOMAIN commitments)
        BY <2>1, FS_Interval
    <2>3. IsFiniteSet({commitments[i] : i \in DOMAIN commitments})
        BY <2>2, ImageFinite
    <2>4. S \in SUBSET {commitments[i] : i \in DOMAIN commitments}
        BY <1>1, <1>2
    <2>5. QED BY <2>3, <2>4, FS_Subset
<1>5. PICK R : R = {p \in S \X S : p[1].sequence < p[2].sequence}
    OBVIOUS
<1>6. \A a, b \in S : <<a, b>> \in R <=> a.sequence < b.sequence
    BY <1>5
<1>7. IsOrder(R, S)
    <2>1. \A a \in S : a.sequence \in Nat
        BY <1>3 DEF Pledge
    <2>2. \A a, b, c \in S : <<a, b>> \in R /\ <<b, c>> \in R => <<a, c>> \in R
        BY <1>6, <2>1
    <2>3. \A a \in S : <<a, a>> \notin R
        BY <1>6, <2>1
    <2>4. \A a, b \in S : a # b => <<a, b>> \in R \/ <<b, a>> \in R
        BY <1>3, <1>6, <2>1
    <2>5. QED BY <2>2, <2>3, <2>4 DEF IsOrder
<1>8. PICK n \in Nat : n = Cardinality(S)
    BY <1>4, FS_CardinalityType
<1>9. PICK l : Lists(l, R, S, n)
    BY <1>4, <1>7, <1>8, ListExists
<1>10. l \in [1 .. n -> S] /\ \A i, j \in DOMAIN l : i < j => Campaign!Earlier(l[i], l[j])
    BY <1>6, <1>9 DEF Lists, Campaign!Earlier
<1>11. PICK kept : kept = Campaign!Accepted(commitments)
    OBVIOUS
<1>12. kept = CHOOSE k \in [1 .. n -> S] : \A i, j \in DOMAIN k : i < j => Campaign!Earlier(k[i], k[j])
    BY <1>1, <1>8, <1>11, CampaignCardinality DEF Campaign!Accepted
<1>13. kept \in [1 .. n -> S] /\ \A i, j \in DOMAIN kept : i < j => Campaign!Earlier(kept[i], kept[j])
    BY <1>10, <1>12
<1>14. kept \in [1 .. n -> Pledge] /\ \A i, j \in 1 .. n : i < j => kept[i].sequence < kept[j].sequence
    BY <1>3, <1>13 DEF Campaign!Earlier
<1>15. QED BY <1>11, <1>14

\* s is the share a * cap / total, rounded down.
IsShare(s, a, cap, total) ==
    /\ s \in Nat /\ s <= a
    /\ total * s <= a * cap
    /\ a * cap <= total * s + (total - 1)
    /\ s = a => a * cap <= total * s

\* A proportional share, rounded down.
LEMMA ShareIs ==
    ASSUME NEW a \in Nat, NEW cap \in Nat, NEW total \in Nat, total > cap,
           NEW s, s = (a * cap) \div total
    PROVE  IsShare(s, a, cap, total)
<1>1. PICK ac \in Nat : ac = a * cap /\ ac <= total * a
    <2>1. a * 0 <= a * cap /\ a * cap <= a * total /\ a * 0 = 0
        BY TimesMonotone
    <2>2. a * cap \in Int /\ a * total = total * a
        BY TimesReorders
    <2>3. QED BY <2>1, <2>2
<1>2. PICK r \in Nat : s \in Nat /\ ac = total * s + r /\ r <= total - 1
    <2>1. total > 0
        OBVIOUS
    <2>2. /\ ac \div total \in Int /\ ac % total \in Int
          /\ ac = total * (ac \div total) + (ac % total)
          /\ 0 <= ac % total /\ ac % total <= total - 1
          /\ ac \div total >= 0
        BY <2>1, Division
    <2>3. s = ac \div total
        BY <1>1
    <2>4. QED BY <2>2, <2>3
<1>3. PICK ts, ta \in Int : ts = total * s /\ ta = total * a
    BY <1>2
<1>4. ts <= ac /\ ac <= ts + (total - 1) /\ ac <= ta
    BY <1>1, <1>2, <1>3
<1>5. s <= a
    <2>1. ts <= ta
        BY <1>4
    <2>2. QED BY <1>2, <1>3, <2>1, TimesCancels
<1>6. s = a => ac <= ts
    BY <1>3, <1>4
<1>7. QED BY <1>1, <1>2, <1>3, <1>4, <1>5, <1>6 DEF IsShare

\* Pro rata, the ceiling is shared out to the last unit, nobody gives more than was
\* committed and everybody is within one unit of the exact share.
LEMMA ProRataIs ==
    ASSUME NEW n \in Nat, NEW A \in [1 .. n -> Nat], NEW total \in Nat,
           total = SumFunctionOnSet(A, 1 .. n), total > MaxTarget,
           NEW G, G = Campaign!ProRata(A)
    PROVE  /\ G \in [1 .. n -> Nat]
           /\ SumFunctionOnSet(G, 1 .. n) = MaxTarget
           /\ \A i \in 1 .. n : /\ G[i] <= A[i]
                                /\ (G[i] - 1) * total <= A[i] * MaxTarget
                                /\ (G[i] + 1) * total >= A[i] * MaxTarget
<1> DEFINE D == 1 .. n
<1>1. PICK cap \in Nat : cap = MaxTarget
    BY CampaignAssumption
<1>2. IsFiniteSet(D) /\ DOMAIN A = D
    BY FS_Interval
<1>3. PICK share, rest :
        /\ share = [i \in D |-> (A[i] * cap) \div total]
        /\ rest = [i \in D |-> A[i] * cap - total * ((A[i] * cap) \div total)]
    OBVIOUS
<1>4. ASSUME NEW i \in D
      PROVE  /\ share[i] \in Nat /\ rest[i] \in Nat /\ A[i] \in Nat
             /\ A[i] * cap = total * share[i] + rest[i] /\ A[i] * cap \in Int /\ total * share[i] \in Int
             /\ rest[i] <= total - 1 /\ share[i] <= A[i] /\ (share[i] = A[i] => rest[i] = 0)
    <2>1. PICK a \in Nat : a = A[i]
        OBVIOUS
    <2>2. PICK s : s = (a * cap) \div total
        OBVIOUS
    <2>3. share[i] = s /\ rest[i] = a * cap - total * s
        BY <1>3, <2>1, <2>2
    <2>4. total > cap
        BY <1>1
    <2>5. /\ s \in Nat /\ s <= a
          /\ total * s <= a * cap
          /\ a * cap <= total * s + (total - 1)
          /\ s = a => a * cap <= total * s
        <3>1. IsShare(s, a, cap, total)
            BY <1>1, <2>1, <2>2, <2>4, ShareIs
        <3>2. QED BY <3>1 DEF IsShare
    <2>6. PICK ac, ts \in Int : ac = a * cap /\ ts = total * s
        BY <2>5, TimesReorders
    <2>7. /\ ts \in Int /\ ac \in Int
          /\ ts <= ac /\ ac <= ts + (total - 1) /\ (s = a => ac <= ts) /\ rest[i] = ac - ts
        BY <2>3, <2>5, <2>6
    <2>8. rest[i] \in Nat /\ rest[i] <= total - 1 /\ (s = a => rest[i] = 0) /\ ac = ts + rest[i]
        <3>1. PICK d \in Int : d = ac - ts
            BY <2>7
        <3>2. d \in Nat /\ d <= total - 1 /\ (s = a => d = 0) /\ ac = ts + d
            BY <2>7, <3>1
        <3>3. QED BY <2>7, <3>1, <3>2
    <2>9. QED BY <2>1, <2>3, <2>5, <2>6, <2>8
<1>5. PICK S : S = {i \in D : share[i] < A[i]}
    OBVIOUS
<1>6. /\ S \subseteq D /\ IsFiniteSet(S) /\ Cardinality(S) \in Nat
      /\ \A i \in D \ S : rest[i] = 0
    <2>1. S \subseteq D
        BY <1>5
    <2>2. IsFiniteSet(S)
        BY <1>2, <2>1, FS_Subset
    <2>3. ASSUME NEW i \in D \ S
          PROVE  rest[i] = 0
        <3>1. share[i] \in Nat /\ A[i] \in Nat /\ share[i] <= A[i] /\ ~ (share[i] < A[i])
            BY <1>4, <1>5
        <3>2. share[i] = A[i]
            BY <3>1
        <3>3. QED BY <1>4, <3>2
    <2>4. QED BY <2>1, <2>2, <2>3, FS_CardinalityType
<1> HIDE DEF D
<1>7. PICK given \in Int : given = SumFunctionOnSet(share, D)
    <2>1. \A i \in D : share[i] \in Int
        BY <1>4
    <2>2. QED BY <1>2, <2>1, SumType
<1>8. PICK k \in Int : k = cap - given
    OBVIOUS
<1>9. SumFunctionOnSet(rest, D) = total * k /\ total * k \in Int
    <2>1. PICK due, whole : due = [i \in D |-> cap * A[i]] /\ whole = [i \in D |-> total * share[i]]
        OBVIOUS
    <2>2. ASSUME NEW i \in D
          PROVE  /\ due[i] = cap * A[i] /\ whole[i] = total * share[i]
                 /\ due[i] = whole[i] + rest[i]
                 /\ A[i] \in Int /\ share[i] \in Int /\ whole[i] \in Int /\ rest[i] \in Int
        <3>1. cap * A[i] = A[i] * cap
            BY <1>4, TimesReorders
        <3>2. QED BY <1>4, <2>1, <3>1
    <2>3. (\A i \in D : A[i] \in Int) /\ (\A i \in D : due[i] = cap * A[i]) /\ cap \in Int
          /\ (\A i \in D : share[i] \in Int) /\ (\A i \in D : whole[i] = total * share[i]) /\ total \in Int
          /\ (\A i \in D : whole[i] \in Int) /\ (\A i \in D : rest[i] \in Int)
          /\ (\A i \in D : due[i] = whole[i] + rest[i])
        BY <2>2
    <2>4. SumFunctionOnSet(due, D) = cap * SumFunctionOnSet(A, D)
        <3>1. IsFiniteSet(D) /\ (\A i \in D : A[i] \in Int) /\ cap \in Int /\ (\A i \in D : due[i] = cap * A[i])
            BY <1>2, <2>3
        <3>2. QED BY <3>1, SumScale
    <2>5. SumFunctionOnSet(whole, D) = total * SumFunctionOnSet(share, D)
        <3>1. IsFiniteSet(D) /\ (\A i \in D : share[i] \in Int) /\ total \in Int
              /\ (\A i \in D : whole[i] = total * share[i])
            BY <1>2, <2>3
        <3>2. QED BY <3>1, SumScale
    <2>6. SumFunctionOnSet(due, D) = SumFunctionOnSet(whole, D) + SumFunctionOnSet(rest, D)
        BY <1>2, <2>3, SumPlus
    <2>7. SumFunctionOnSet(rest, D) \in Int
        BY <1>2, <2>3, SumType
    <2>8. SumFunctionOnSet(A, D) = total
        BY DEF D
    <2>9. PICK tc, tg, z \in Int : tc = total * cap /\ tg = total * given /\ z = total * k
        OBVIOUS
    <2>10. z = tc - tg
        <3>1. total * k = total * (cap - given)
            BY <1>8
        <3>2. total * (cap - given) = total * cap - total * given
            BY TimesReorders
        <3>3. QED BY <2>9, <3>1, <3>2
    <2>11. tc = tg + SumFunctionOnSet(rest, D)
        <3>1. cap * total = total * cap
            BY TimesReorders
        <3>2. SumFunctionOnSet(due, D) = tc
            BY <2>4, <2>8, <2>9, <3>1
        <3>3. SumFunctionOnSet(whole, D) = tg
            BY <1>7, <2>5, <2>9
        <3>4. QED BY <2>6, <3>2, <3>3
    <2>12. SumFunctionOnSet(rest, D) = z
        BY <2>7, <2>10, <2>11
    <2>13. QED BY <2>9, <2>12
<1>10. 0 <= k
    <2>1. PICK zero : zero = [i \in D |-> 0]
        OBVIOUS
    <2>2. (\A i \in D : zero[i] = 0) /\ (\A i \in D : zero[i] \in Int)
          /\ (\A i \in D : rest[i] \in Int) /\ (\A i \in D : zero[i] <= rest[i])
        BY <1>4, <2>1
    <2>3. SumFunctionOnSet(zero, D) = 0
        BY <1>2, <2>2, SumZero
    <2>4. SumFunctionOnSet(zero, D) <= SumFunctionOnSet(rest, D)
        BY <1>2, <2>2, SumMonotone
    <2>5. total * 0 = 0 /\ total * 0 <= total * k
        BY <1>9, <2>3, <2>4
    <2>6. QED BY <1>1, <2>5, TimesCancels
<1>11. k <= Cardinality(S)
    <2>1. PICK most, full : most = [i \in D |-> IF i \in S THEN total ELSE 0] /\ full = [i \in S |-> total]
        OBVIOUS
    <2>2. ASSUME NEW i \in D
          PROVE  most[i] \in Int /\ rest[i] \in Int /\ rest[i] <= most[i]
        BY <1>4, <1>6, <2>1
    <2>3. (\A i \in D : most[i] \in Int) /\ (\A i \in D : rest[i] \in Int) /\ (\A i \in D : rest[i] <= most[i])
        BY <2>2
    <2>4. SumFunctionOnSet(rest, D) <= SumFunctionOnSet(most, D)
        BY <1>2, <2>3, SumMonotone
    <2>5. (\A i \in S : full[i] \in Int) /\ (\A i \in S : most[i] = full[i]) /\ (\A i \in D \ S : most[i] = 0)
          /\ (\A i \in S : full[i] = total)
        BY <1>6, <2>1
    <2>6. SumFunctionOnSet(most, D) = SumFunctionOnSet(full, S)
        BY <1>2, <1>6, <2>5, SumSupport
    <2>7. SumFunctionOnSet(full, S) = total * Cardinality(S)
        BY <1>6, <2>5, SumConstant
    <2>8. total * k <= total * Cardinality(S)
        BY <1>9, <2>4, <2>6, <2>7
    <2>9. PICK c \in Nat : c = Cardinality(S)
        BY <1>6
    <2>10. k \in Int /\ c \in Int /\ total \in Int /\ 0 < total /\ total * k <= total * c
        BY <1>1, <2>8, <2>9
    <2>11. k <= c
        BY <2>10, TimesCancels
    <2>12. QED BY <2>9, <2>11
<1>12. PICK F : F = {i \in S : Cardinality({j \in S : j < i}) < k}
    OBVIOUS
<1>13. F \subseteq S /\ IsFiniteSet(F) /\ Cardinality(F) = k
    <2>1. F \subseteq S
        BY <1>12
    <2>2. IsFiniteSet(F)
        BY <1>6, <2>1, FS_Subset
    <2>3. S \subseteq 1 .. n /\ k \in Nat
        BY <1>6, <1>8, <1>10 DEF D
    <2>4. Cardinality({i \in S : Cardinality({j \in S : j < i}) < k}) = k
        BY <1>11, <2>3, FirstOnes
    <2>5. QED BY <1>12, <2>1, <2>2, <2>4
<1>14. G = [i \in D |-> IF i \in F THEN share[i] + 1 ELSE share[i]]
    <2>1. share = [i \in DOMAIN A |-> Campaign!Share(A, i)]
        <3>1. Campaign!Sum(A) = total
            BY <1>2, CampaignSum DEF D
        <3>2. QED BY <1>1, <1>2, <1>3, <3>1 DEF Campaign!Share
    <2>2. k = MaxTarget - Campaign!Sum(share)
        <3>1. DOMAIN share = D
            BY <1>3
        <3>2. QED BY <1>1, <1>7, <1>8, <3>1, CampaignSum
    <2>3. S = {i \in DOMAIN A : share[i] < A[i]}
        BY <1>2, <1>5
    <2>4. G = [i \in D |-> IF i \in S /\ Campaign!Cardinality({j \in S : j < i}) < k
                           THEN share[i] + 1 ELSE share[i]]
        BY <1>2, <2>1, <2>2, <2>3 DEF Campaign!ProRata
    <2>5. \A i \in D : (i \in S /\ Campaign!Cardinality({j \in S : j < i}) < k) <=> i \in F
        BY <1>12, CampaignCardinality
    <2>6. QED BY <2>4, <2>5
<1>15. PICK bump, ones : bump = [i \in D |-> IF i \in F THEN 1 ELSE 0] /\ ones = [i \in F |-> 1]
    OBVIOUS
<1>16. ASSUME NEW i \in D
       PROVE  /\ G[i] = share[i] + bump[i] /\ bump[i] \in {0, 1} /\ share[i] \in Int /\ A[i] \in Nat
              /\ bump[i] = 1 => share[i] < A[i]
    <2>1. i \in F => i \in S
        BY <1>13
    <2>2. i \in S => share[i] < A[i]
        BY <1>5
    <2>3. CASE i \in F
        BY <1>4, <1>14, <1>15, <2>1, <2>2, <2>3
    <2>4. CASE i \notin F
        BY <1>4, <1>14, <1>15, <2>4
    <2>5. QED BY <2>3, <2>4
<1>17. SumFunctionOnSet(G, D) = cap
    <2>1. (\A i \in D : share[i] \in Int) /\ (\A i \in D : bump[i] \in Int) /\ (\A i \in D : G[i] = share[i] + bump[i])
        BY <1>16
    <2>2. SumFunctionOnSet(G, D) = SumFunctionOnSet(share, D) + SumFunctionOnSet(bump, D)
        BY <1>2, <2>1, SumPlus
    <2>3. (\A i \in F : ones[i] \in Int) /\ (\A i \in F : bump[i] = ones[i]) /\ (\A i \in D \ F : bump[i] = 0)
          /\ (\A i \in F : ones[i] = 1) /\ F \subseteq D
        BY <1>6, <1>13, <1>15
    <2>4. SumFunctionOnSet(bump, D) = SumFunctionOnSet(ones, F)
        BY <1>2, <2>3, SumSupport
    <2>5. SumFunctionOnSet(ones, F) = 1 * Cardinality(F)
        BY <1>13, <2>3, SumConstant
    <2>6. QED BY <1>7, <1>8, <1>13, <2>2, <2>4, <2>5
<1>18. ASSUME NEW i \in D
       PROVE  /\ G[i] \in Nat /\ G[i] <= A[i]
              /\ (G[i] - 1) * total <= A[i] * cap /\ (G[i] + 1) * total >= A[i] * cap
    <2>1. PICK s, r, a, g \in Int :
            /\ s = share[i] /\ r = rest[i] /\ a = A[i] /\ g = G[i]
            /\ s >= 0 /\ r >= 0 /\ r <= total - 1 /\ s <= a
            /\ g = s \/ (g = s + 1 /\ s < a)
        <3>1. /\ share[i] \in Nat /\ rest[i] \in Nat /\ A[i] \in Nat
              /\ rest[i] <= total - 1 /\ share[i] <= A[i]
            BY <1>4
        <3>2. G[i] = share[i] \/ (G[i] = share[i] + 1 /\ share[i] < A[i])
            <4>1. CASE i \in F
                <5>1. G[i] = share[i] + 1
                    BY <1>14, <4>1
                <5>2. share[i] < A[i]
                    BY <1>5, <1>13, <4>1
                <5>3. QED BY <5>1, <5>2
            <4>2. CASE i \notin F
                BY <1>14, <4>2
            <4>3. QED BY <4>1, <4>2
        <3>3. PICK s, r, a \in Int : s = share[i] /\ r = rest[i] /\ a = A[i] /\ s >= 0 /\ r >= 0
            BY <3>1
        <3>4. PICK g \in Int : g = G[i]
            BY <3>1, <3>2
        <3>5. QED BY <3>1, <3>2, <3>3, <3>4
    <2>2. PICK ac, ts \in Int : ac = a * cap /\ ts = total * s /\ ac = ts + r
        BY <1>4, <2>1
    <2>3. g \in Nat /\ g <= a
        <3>1. CASE g = s
            BY <2>1, <3>1
        <3>2. CASE g = s + 1 /\ s < a
            BY <2>1, <3>2
        <3>3. QED BY <2>1, <3>1, <3>2
    <2>4. IsRounded(g, s, r, ac, total)
        <3>1. ac = total * s + r
            BY <2>2
        <3>2. g = s \/ g = s + 1
            BY <2>1
        <3>3. total \in Int /\ 0 <= r /\ r <= total - 1
            BY <2>1
        <3>4. QED BY <3>1, <3>2, <3>3 DEF IsRounded
    <2>5. IsWithinOne(g, ac, total)
        BY <2>4, WithinOne
    <2>6. G[i] = g /\ A[i] * cap = ac
        BY <2>1, <2>2
    <2>7. (G[i] - 1) * total <= A[i] * cap /\ (G[i] + 1) * total >= A[i] * cap
        <3>1. (g - 1) * total <= ac /\ (g + 1) * total >= ac
            BY <2>5 DEF IsWithinOne
        <3>2. QED BY <2>6, <3>1
    <2>8. QED BY <2>1, <2>3, <2>7
<1>19. G \in [D -> Nat]
    BY <1>14, <1>18
<1>20. QED BY <1>1, <1>17, <1>18, <1>19 DEF D

\* In order of arrival, the ceiling is used up and who comes after one that was left
\* short gets nothing.
LEMMA FirstComeIs ==
    ASSUME NEW n \in Nat, NEW A \in [1 .. n -> Nat], SumFunctionOnSet(A, 1 .. n) > MaxTarget,
           NEW G, G = Campaign!FirstCome(A)
    PROVE  /\ G \in [1 .. n -> Nat]
           /\ SumFunctionOnSet(G, 1 .. n) = MaxTarget
           /\ \A i \in 1 .. n : G[i] <= A[i]
           /\ \A i, j \in 1 .. n : i < j /\ G[i] < A[i] => G[j] = 0
<1>1. PICK cap \in Nat : cap = MaxTarget
    BY CampaignAssumption
<1>2. PICK C : C = SoFar(A, n)
    OBVIOUS
<1>3. /\ \A k \in 0 .. n : C[k] \in Int
      /\ C[0] = 0
      /\ \A k \in 0 .. n : k + 1 \in 1 .. n => C[k + 1] = C[k] + A[k + 1]
    <2>1. \A i \in 1 .. n : A[i] \in Int
        OBVIOUS
    <2>2. AddsUp(SoFar(A, n), A, n)
        BY <2>1, SumsSoFar
    <2>3. QED BY <1>2, <2>2 DEF AddsUp
<1>4. DOMAIN A = 1 .. n
    OBVIOUS
<1>5. ASSUME NEW i \in 1 .. n
      PROVE  /\ i - 1 \in 0 .. n /\ i \in 0 .. n /\ C[i] = C[i - 1] + A[i]
             /\ C[i - 1] \in Int /\ C[i] \in Int /\ A[i] \in Nat
             /\ G[i] = IF C[i - 1] >= cap THEN 0 ELSE IF A[i] < cap - C[i - 1] THEN A[i] ELSE cap - C[i - 1]
    <2>1. i - 1 \in 0 .. n /\ i \in 0 .. n /\ (i - 1) + 1 = i
        OBVIOUS
    <2>2. C[i] = C[i - 1] + A[i]
        BY <1>3, <2>1
    <2>3. C[i - 1] = Campaign!SumFunctionOnSet(A, 1 .. (i - 1))
        BY <1>2, <2>1, CampaignSum DEF SoFar
    <2>4. G[i] = IF C[i - 1] >= cap THEN 0 ELSE IF A[i] < cap - C[i - 1] THEN A[i] ELSE cap - C[i - 1]
        BY <1>1, <1>4, <2>3 DEF Campaign!FirstCome, Campaign!Least
    <2>5. QED BY <1>3, <2>1, <2>2, <2>4
<1>6. \A k \in 0 .. n : k + 1 \in 1 .. n => C[k] <= C[k + 1]
    <2>1. ASSUME NEW k \in 0 .. n, k + 1 \in 1 .. n
          PROVE  C[k] <= C[k + 1]
        <3>1. C[k + 1] = C[k] + A[k + 1] /\ C[k] \in Int /\ A[k + 1] \in Nat
            BY <1>3, <2>1
        <3>2. QED BY <3>1
    <2>2. QED BY <2>1
<1>7. ASSUME NEW i \in 1 .. n
      PROVE  /\ G[i] \in Nat /\ G[i] <= A[i]
             /\ C[i - 1] >= cap => G[i] = 0
             /\ G[i] < A[i] => C[i] >= cap
    <2>1. PICK c, d \in Int, a \in Nat : c = C[i - 1] /\ d = C[i] /\ a = A[i] /\ d = c + a
        BY <1>5
    <2>2. CASE c >= cap
        <3>1. G[i] = 0
            BY <1>5, <2>1, <2>2
        <3>2. QED BY <2>1, <2>2, <3>1
    <2>3. CASE ~ (c >= cap) /\ a < cap - c
        <3>1. G[i] = a
            BY <1>5, <2>1, <2>3
        <3>2. QED BY <2>1, <2>3, <3>1
    <2>4. CASE ~ (c >= cap) /\ ~ (a < cap - c)
        <3>1. G[i] = cap - c
            BY <1>5, <2>1, <2>4
        <3>2. cap - c \in Nat /\ cap - c <= a /\ d >= cap
            BY <2>1, <2>4
        <3>3. QED BY <2>1, <2>4, <3>1, <3>2
    <2>5. QED BY <2>2, <2>3, <2>4
<1>8. G \in [1 .. n -> Nat]
    <2>1. G = [i \in 1 .. n |-> G[i]]
        BY <1>4 DEF Campaign!FirstCome
    <2>2. QED BY <1>7, <2>1
<1>9. ASSUME NEW i \in 1 .. n, NEW j \in 1 .. n, i < j, G[i] < A[i]
      PROVE  G[j] = 0
    <2>1. i \in 0 .. n /\ j - 1 \in 0 .. n /\ i <= j - 1
        BY <1>9
    <2>2. C[i] <= C[j - 1]
        BY <1>3, <1>6, <2>1, SumsGrow
    <2>3. C[i] >= cap /\ C[i] \in Int /\ C[j - 1] \in Int
        BY <1>3, <1>7, <1>9, <2>1
    <2>4. C[j - 1] >= cap
        BY <2>2, <2>3
    <2>5. QED BY <1>7, <2>4
<1>10. PICK H : H = SoFar(G, n)
    OBVIOUS
<1>11. /\ \A k \in 0 .. n : H[k] \in Int
       /\ H[0] = 0
       /\ \A k \in 0 .. n : k + 1 \in 1 .. n => H[k + 1] = H[k] + G[k + 1]
    <2>1. \A i \in 1 .. n : G[i] \in Int
        BY <1>8
    <2>2. AddsUp(SoFar(G, n), G, n)
        BY <2>1, SumsSoFar
    <2>3. QED BY <1>10, <2>2 DEF AddsUp
<1> DEFINE N == {k \in Nat : k <= n => H[k] = IF C[k] < cap THEN C[k] ELSE cap}
<1>12. 0 \in N
    <2>1. H[0] = 0 /\ C[0] = 0
        BY <1>3, <1>11
    <2>2. 0 < cap \/ cap = 0
        OBVIOUS
    <2>3. QED BY <2>1, <2>2
<1>13. ASSUME NEW k \in Nat, k \in N
       PROVE  k + 1 \in N
    <2>1. SUFFICES ASSUME k + 1 <= n PROVE H[k + 1] = IF C[k + 1] < cap THEN C[k + 1] ELSE cap
        OBVIOUS
    <2>2. PICK i \in 1 .. n : i = k + 1 /\ i - 1 = k /\ k \in 0 .. n /\ k <= n
        BY <2>1
    <2>3. H[i] = H[k] + G[i] /\ H[k] = IF C[k] < cap THEN C[k] ELSE cap
        BY <1>11, <1>13, <2>2
    <2>4. PICK c, d \in Int, a \in Nat : c = C[k] /\ d = C[i] /\ a = A[i] /\ d = c + a
        BY <1>5, <2>2
    <2>5. CASE c >= cap
        <3>1. G[i] = 0 /\ H[k] = cap
            BY <1>7, <2>2, <2>3, <2>4, <2>5
        <3>2. ~ (d < cap)
            BY <2>4, <2>5
        <3>3. QED BY <2>2, <2>3, <2>4, <3>1, <3>2
    <2>6. CASE ~ (c >= cap) /\ a < cap - c
        <3>1. G[i] = a /\ H[k] = c
            BY <1>5, <2>2, <2>3, <2>4, <2>6
        <3>2. d < cap
            BY <2>4, <2>6
        <3>3. QED BY <2>2, <2>3, <2>4, <3>1, <3>2
    <2>7. CASE ~ (c >= cap) /\ ~ (a < cap - c)
        <3>1. G[i] = cap - c /\ H[k] = c
            BY <1>5, <2>2, <2>3, <2>4, <2>7
        <3>2. ~ (d < cap) /\ c + (cap - c) = cap
            BY <2>4, <2>7
        <3>3. QED BY <2>2, <2>3, <2>4, <3>1, <3>2
    <2>8. QED BY <2>5, <2>6, <2>7
<1>14. Nat \subseteq N
    <2> HIDE DEF N
    <2>1. QED BY <1>12, <1>13, EveryNumber
<1>15. SumFunctionOnSet(G, 1 .. n) = cap
    <2>1. n \in N /\ n \in 0 .. n
        BY <1>14
    <2>2. C[n] = SumFunctionOnSet(A, 1 .. n) /\ H[n] = SumFunctionOnSet(G, 1 .. n)
        BY <1>2, <1>10, <2>1 DEF SoFar
    <2>3. C[n] \in Int /\ C[n] > cap
        BY <1>1, <1>3, <2>1, <2>2
    <2>4. QED BY <2>1, <2>2, <2>3
<1>16. QED BY <1>1, <1>7, <1>8, <1>9, <1>15

\* What close answers for a list of commitments: who is accepted, in order of arrival,
\* and with how much.
IsOutcome(o, n, kept, A) ==
    /\ n \in Nat
    /\ kept \in [1 .. n -> Pledge]
    /\ A \in [1 .. n -> Nat]
    /\ \A i \in 1 .. n : A[i] = kept[i].amount
    /\ \A i, j \in 1 .. n : i < j <=> kept[i].sequence < kept[j].sequence
    /\ o.accepted = kept
    /\ o.raised = SumFunctionOnSet(A, 1 .. n)
    /\ o.settlement = IF o.raised >= MinTarget THEN "funded" ELSE "refunded"
    /\ o.allocated = IF o.raised >= MinTarget THEN Campaign!Allocated(A, rule) ELSE [i \in 1 .. n |-> 0]

LEMMA OutcomeIs ==
    ASSUME CampaignInv, NEW o, o = Campaign!Outcome(commitments, rule)
    PROVE  \E n, kept, A : IsOutcome(o, n, kept, A)
<1>1. PICK n \in Nat : /\ Campaign!Accepted(commitments) \in [1 .. n -> Pledge]
                       /\ \A i, j \in 1 .. n :
                             i < j => Campaign!Accepted(commitments)[i].sequence < Campaign!Accepted(commitments)[j].sequence
    BY AcceptedIs
<1>2. PICK kept \in [1 .. n -> Pledge] : kept = Campaign!Accepted(commitments)
    BY <1>1
<1>3. PICK A : A = [i \in 1 .. n |-> kept[i].amount]
    OBVIOUS
<1>4. A \in [1 .. n -> Nat] /\ \A i \in 1 .. n : A[i] = kept[i].amount
    BY <1>2, <1>3, CampaignAssumption DEF Pledge
<1>5. \A i, j \in 1 .. n : i < j <=> kept[i].sequence < kept[j].sequence
    <2>1. \A i \in 1 .. n : kept[i].sequence \in Nat
        BY <1>2 DEF Pledge
    <2>2. \A i, j \in 1 .. n : i < j => kept[i].sequence < kept[j].sequence
        BY <1>1, <1>2
    <2>3. ASSUME NEW i \in 1 .. n, NEW j \in 1 .. n, kept[i].sequence < kept[j].sequence
          PROVE  i < j
        <3>1. j < i => kept[j].sequence < kept[i].sequence
            BY <2>2
        <3>2. i # j
            BY <2>1, <2>3
        <3>3. ~ (j < i)
            BY <2>1, <2>3, <3>1
        <3>4. QED BY <3>2, <3>3
    <2>4. QED BY <2>2, <2>3
<1>6. DOMAIN kept = 1 .. n /\ DOMAIN A = 1 .. n
    BY <1>2, <1>4
<1>7. PICK raised : raised = Campaign!Sum(A)
    OBVIOUS
<1>8. raised = SumFunctionOnSet(A, 1 .. n)
    BY <1>6, <1>7, CampaignSum
<1>9. o = [settlement |-> IF raised >= MinTarget THEN "funded" ELSE "refunded",
           raised |-> raised,
           accepted |-> kept,
           allocated |-> IF raised >= MinTarget THEN Campaign!Allocated(A, rule) ELSE [i \in 1 .. n |-> 0]]
    BY <1>2, <1>3, <1>6, <1>7 DEF Campaign!Outcome
<1>10. /\ o.accepted = kept /\ o.raised = raised
       /\ o.settlement = IF o.raised >= MinTarget THEN "funded" ELSE "refunded"
       /\ o.allocated = IF o.raised >= MinTarget THEN Campaign!Allocated(A, rule) ELSE [i \in 1 .. n |-> 0]
    BY <1>9
<1>11. n \in Nat
    BY <1>1
<1>12. IsOutcome(o, n, kept, A)
    BY <1>2, <1>4, <1>5, <1>8, <1>10, <1>11 DEF IsOutcome
<1>13. QED BY <1>12

\* What is shared out, whatever the rule, when the campaign is funded.
IsShared(n, A, total, by, G, placed) ==
    /\ total \in Nat /\ placed \in Nat
    /\ G \in [1 .. n -> Nat]
    /\ SumFunctionOnSet(G, 1 .. n) = placed
    /\ \A i \in 1 .. n : G[i] <= A[i]
    /\ by = "first-come-first-served" => \A i, j \in 1 .. n : i < j /\ G[i] < A[i] => G[j] = 0
    /\ by = "pro-rata" => \A i \in 1 .. n : /\ (G[i] - 1) * total <= A[i] * placed
                                            /\ (G[i] + 1) * total >= A[i] * placed

LEMMA AllocatedIs ==
    ASSUME NEW n \in Nat, NEW A \in [1 .. n -> Nat], NEW total, total = SumFunctionOnSet(A, 1 .. n),
           NEW by \in Rules, NEW G, G = Campaign!Allocated(A, by),
           NEW placed, placed = IF total < MaxTarget THEN total ELSE MaxTarget
    PROVE  IsShared(n, A, total, by, G, placed)
<1>1. total \in Nat
    <2>1. IsFiniteSet(1 .. n) /\ \A i \in 1 .. n : A[i] \in Int /\ 0 <= A[i]
        <3>1. IsFiniteSet(1 .. n)
            BY FS_Interval
        <3>2. QED BY <3>1
    <2>2. PICK Z : Z = [i \in 1 .. n |-> 0]
        OBVIOUS
    <2>3. \A i \in 1 .. n : Z[i] = 0 /\ Z[i] \in Int /\ Z[i] <= A[i]
        BY <2>1, <2>2
    <2>4. SumFunctionOnSet(Z, 1 .. n) = 0
        BY <2>1, <2>3, SumZero
    <2>5. SumFunctionOnSet(Z, 1 .. n) <= SumFunctionOnSet(A, 1 .. n)
        BY <2>1, <2>3, SumMonotone
    <2>6. total \in Int
        BY <2>1, SumType
    <2>7. QED BY <2>4, <2>5, <2>6
<1>2. PICK cap \in Nat : cap = MaxTarget
    BY CampaignAssumption
<1>3. placed \in Nat /\ (total <= cap => placed = total) /\ (total > cap => placed = cap)
    BY <1>1, <1>2
<1>4. Campaign!Sum(A) = total
    <2>1. DOMAIN A = 1 .. n
        OBVIOUS
    <2>2. QED BY <2>1, CampaignSum
<1>5. CASE total <= cap
    <2>1. G = A /\ placed = total
        BY <1>2, <1>3, <1>4, <1>5 DEF Campaign!Allocated
    <2>2. \A i \in 1 .. n : ~ (G[i] < A[i]) /\ G[i] <= A[i]
        BY <2>1
    <2>3. ASSUME NEW i \in 1 .. n
          PROVE  (G[i] - 1) * total <= A[i] * placed /\ (G[i] + 1) * total >= A[i] * placed
        <3>1. PICK a \in Nat : a = A[i] /\ a = G[i]
            BY <2>1
        <3>2. PICK x : x = a * total
            OBVIOUS
        <3>3. a \in Int /\ total \in Int /\ 0 <= total
            BY <1>1, <3>1
        <3>4. IsWithinOne(a, x, total)
            BY <3>2, <3>3, ExactIsWithinOne
        <3>5. (a - 1) * total <= x /\ (a + 1) * total >= x
            BY <3>4 DEF IsWithinOne
        <3>6. A[i] * placed = x
            BY <2>1, <3>1, <3>2
        <3>7. QED BY <2>1, <3>1, <3>5, <3>6
    <2>4. QED BY <1>1, <1>3, <2>1, <2>2, <2>3 DEF IsShared
<1>6. CASE total > cap /\ by = "pro-rata"
    <2>1. G = Campaign!ProRata(A) /\ placed = cap /\ total > MaxTarget
        BY <1>1, <1>2, <1>3, <1>4, <1>6 DEF Campaign!Allocated
    <2>2. /\ G \in [1 .. n -> Nat]
          /\ SumFunctionOnSet(G, 1 .. n) = MaxTarget
          /\ \A i \in 1 .. n : /\ G[i] <= A[i]
                               /\ (G[i] - 1) * total <= A[i] * MaxTarget
                               /\ (G[i] + 1) * total >= A[i] * MaxTarget
        BY <1>1, <2>1, ProRataIs
    <2>3. by # "first-come-first-served"
        BY <1>6
    <2>4. QED BY <1>1, <1>2, <1>3, <2>1, <2>2, <2>3 DEF IsShared
<1>7. CASE total > cap /\ by = "first-come-first-served"
    <2>1. G = Campaign!FirstCome(A) /\ placed = cap /\ total > MaxTarget
        BY <1>1, <1>2, <1>3, <1>4, <1>7 DEF Campaign!Allocated
    <2>2. /\ G \in [1 .. n -> Nat]
          /\ SumFunctionOnSet(G, 1 .. n) = MaxTarget
          /\ \A i \in 1 .. n : G[i] <= A[i]
          /\ \A i, j \in 1 .. n : i < j /\ G[i] < A[i] => G[j] = 0
        BY <2>1, FirstComeIs
    <2>3. by # "pro-rata"
        BY <1>7
    <2>4. QED BY <1>1, <1>2, <1>3, <2>1, <2>2, <2>3 DEF IsShared
<1>8. QED BY <1>1, <1>2, <1>5, <1>6, <1>7 DEF Rules

LEMMA CampaignIsFair ==
    ASSUME CampaignInv
    PROVE  Campaign!TypeOK /\ Campaign!EveryUnitIsPlacedOrReturned
<1>1. commitments \in Seq([amount: Nat, foreign: BOOLEAN, sequence: 1 .. MaxCommitments])
    <2>1. Pledge \subseteq [amount: Nat, foreign: BOOLEAN, sequence: 1 .. MaxCommitments]
        BY CampaignAssumption DEF Pledge
    <2>2. Len(commitments) \in Nat /\ commitments = [i \in 1 .. Len(commitments) |-> commitments[i]]
        BY DEF CampaignInv
    <2>3. \A i \in 1 .. Len(commitments) :
            commitments[i] \in [amount: Nat, foreign: BOOLEAN, sequence: 1 .. MaxCommitments]
        BY <2>1 DEF CampaignInv
    <2>4. PICK T : T = [amount: Nat, foreign: BOOLEAN, sequence: 1 .. MaxCommitments]
        OBVIOUS
    <2>5. commitments \in [1 .. Len(commitments) -> T]
        BY <2>2, <2>3, <2>4
    <2>6. commitments \in Seq(T)
        BY <2>2, <2>5
    <2>7. QED BY <2>4, <2>6
<1>2. CASE outcome = Campaign!Open
    <2>1. outcome.settlement = "open" /\ outcome.allocated = <<>>
        BY <1>2 DEF Campaign!Open
    <2>2. DOMAIN outcome.allocated = {} /\ outcome.allocated \in Seq(Int)
        BY <2>1
    <2>3. QED BY <1>1, <2>1, <2>2 DEF Campaign!TypeOK, Campaign!EveryUnitIsPlacedOrReturned
<1>3. CASE outcome = Campaign!Outcome(commitments, rule)
    <2>0. PICK n, kept, A : IsOutcome(outcome, n, kept, A)
        BY <1>3, OutcomeIs
    <2>1. /\ n \in Nat
          /\ kept \in [1 .. n -> Pledge]
          /\ A \in [1 .. n -> Nat]
          /\ \A i \in 1 .. n : A[i] = kept[i].amount
          /\ \A i, j \in 1 .. n : i < j <=> kept[i].sequence < kept[j].sequence
          /\ outcome.accepted = kept
          /\ outcome.raised = SumFunctionOnSet(A, 1 .. n)
          /\ outcome.settlement = IF outcome.raised >= MinTarget THEN "funded" ELSE "refunded"
          /\ outcome.allocated = IF outcome.raised >= MinTarget
                                 THEN Campaign!Allocated(A, rule) ELSE [i \in 1 .. n |-> 0]
        BY <2>0 DEF IsOutcome
    <2>2. PICK total, G, placed, H : /\ total = SumFunctionOnSet(A, 1 .. n)
                                    /\ G = outcome.allocated
                                    /\ placed = (IF total < MaxTarget THEN total ELSE MaxTarget)
                                    /\ H = Campaign!Allocated(A, rule)
        OBVIOUS
    <2>3. rule \in Rules
        BY DEF CampaignInv
    <2>4. /\ total \in Nat /\ placed \in Nat
          /\ H \in [1 .. n -> Nat]
          /\ SumFunctionOnSet(H, 1 .. n) = placed
          /\ \A i \in 1 .. n : H[i] <= A[i]
          /\ rule = "first-come-first-served" => \A i, j \in 1 .. n : i < j /\ H[i] < A[i] => H[j] = 0
          /\ rule = "pro-rata" => \A i \in 1 .. n : /\ (H[i] - 1) * total <= A[i] * placed
                                                    /\ (H[i] + 1) * total >= A[i] * placed
        <3>1. n \in Nat /\ A \in [1 .. n -> Nat]
            BY <2>1
        <3>2. total = SumFunctionOnSet(A, 1 .. n)
            BY <2>2
        <3>3. H = Campaign!Allocated(A, rule)
            BY <2>2
        <3>4. placed = IF total < MaxTarget THEN total ELSE MaxTarget
            BY <2>2
        <3>5. IsShared(n, A, total, rule, H, placed)
            BY <2>3, <3>1, <3>2, <3>3, <3>4, AllocatedIs
        <3>6. QED BY <3>5 DEF IsShared
    <2>5. Campaign!Least(outcome.raised, MaxTarget) = placed
        BY <2>1, <2>2 DEF Campaign!Least
    <2>6. CASE total >= MinTarget
        <3>1. outcome.settlement = "funded" /\ G = H
            BY <2>1, <2>2, <2>6
        <3>2. DOMAIN G = 1 .. n /\ G \in Seq(Int)
            BY <2>1, <2>4, <3>1
        <3>3. Campaign!Sum(G) = placed
            BY <2>4, <3>1, <3>2, CampaignSum
        <3>4. /\ Campaign!TypeOK
              /\ \A i \in DOMAIN G : 0 <= G[i] /\ G[i] <= outcome.accepted[i].amount
            BY <1>1, <2>1, <2>2, <2>4, <3>1, <3>2 DEF Campaign!TypeOK
        <3>5. rule = "first-come-first-served" =>
                \A i, j \in DOMAIN G :
                    outcome.accepted[i].sequence < outcome.accepted[j].sequence
                        /\ G[i] < outcome.accepted[i].amount => G[j] = 0
            BY <2>1, <2>4, <3>1, <3>2
        <3>6. rule = "pro-rata" =>
                \A i \in DOMAIN G :
                    /\ (G[i] - 1) * outcome.raised <= outcome.accepted[i].amount * placed
                    /\ (G[i] + 1) * outcome.raised >= outcome.accepted[i].amount * placed
            BY <2>1, <2>2, <2>4, <3>1, <3>2
        <3>7. outcome.settlement # "refunded"
            BY <3>1
        <3>8. QED BY <2>2, <2>5, <3>3, <3>4, <3>5, <3>6, <3>7 DEF Campaign!EveryUnitIsPlacedOrReturned
    <2>7. CASE ~ (total >= MinTarget)
        <3>1. outcome.settlement = "refunded" /\ G = [i \in 1 .. n |-> 0]
            BY <2>1, <2>2, <2>7
        <3>2. DOMAIN G = 1 .. n /\ G \in Seq(Int) /\ \A i \in 1 .. n : G[i] = 0
            BY <2>1, <3>1
        <3>3. Campaign!Sum(G) = 0
            <4>1. IsFiniteSet(1 .. n)
                BY <2>1, FS_Interval
            <4>2. SumFunctionOnSet(G, 1 .. n) = 0
                BY <3>2, <4>1, SumZero
            <4>3. QED BY <3>2, <4>2, CampaignSum
        <3>4. /\ Campaign!TypeOK
              /\ \A i \in DOMAIN G : 0 <= G[i] /\ G[i] <= outcome.accepted[i].amount
            BY <1>1, <2>1, <2>2, <3>1, <3>2 DEF Campaign!TypeOK
        <3>5. outcome.settlement # "funded" /\ outcome.raised < MinTarget
            BY <2>1, <2>2, <2>4, <2>7, <3>1, CampaignAssumption
        <3>6. QED BY <2>2, <3>3, <3>4, <3>5 DEF Campaign!EveryUnitIsPlacedOrReturned
    <2>8. QED BY <2>6, <2>7
<1>4. QED BY <1>2, <1>3 DEF CampaignInv

------------------------------------------------------------------------------
(* Routing *)

RoutesInv ==
    /\ quotes \in Seq(Venues)
    /\ \/ decision = Routes!NoDecision
       \/ \E q \in RoutedQuantities : decision = Routes!Decision(quotes, q)

LEMMA RoutesSum ==
    ASSUME NEW f
    PROVE  Routes!SumFunction(f) = SumFunctionOnSet(f, DOMAIN f)
BY DEF SumFunctionOnSet, FoldFunctionOnSet, MapThenFoldSet,
       Routes!SumFunction, Routes!SumFunctionOnSet, Routes!FoldFunctionOnSet, Routes!MapThenFoldSet

LEMMA RoutesCardinality ==
    ASSUME NEW S
    PROVE  Routes!Cardinality(S) = Cardinality(S)
BY DEF Cardinality, Routes!Cardinality

LEMMA RoutesMin ==
    ASSUME NEW a \in Int, NEW b \in Int
    PROVE  Routes!Min({a, b}) = IF a < b THEN a ELSE b
<1>1. PICK m : m = IF a < b THEN a ELSE b
    OBVIOUS
<1>2. m \in {a, b} /\ \A y \in {a, b} : m <= y
    BY <1>1
<1>3. PICK x : x = Routes!Min({a, b})
    OBVIOUS
<1>4. x = CHOOSE z \in {a, b} : \A y \in {a, b} : z <= y
    BY <1>3 DEF Routes!Min
<1>5. x \in {a, b} /\ \A y \in {a, b} : x <= y
    BY <1>2, <1>4
<1>6. x \in Int /\ m \in Int /\ x <= m /\ m <= x
    BY <1>2, <1>5
<1>7. QED BY <1>1, <1>3, <1>6

LEMMA RoutesInit ==
    ASSUME Routes!Init
    PROVE  RoutesInv
<1>1. quotes = <<>> /\ decision = Routes!NoDecision
    BY DEF Routes!Init
<1>2. quotes \in Seq(Venues)
    BY <1>1
<1>3. QED BY <1>1, <1>2 DEF RoutesInv

LEMMA RoutesNext ==
    ASSUME RoutesInv, [Routes!Next]_(Routes!routingVars)
    PROVE  RoutesInv'
<1>1. ASSUME NEW v \in Venues, Routes!Quote(v)
      PROVE  RoutesInv'
    <2>1. quotes' = Append(quotes, v) /\ decision' = Routes!NoDecision
        BY <1>1 DEF Routes!Quote
    <2>2. quotes' \in Seq(Venues)
        BY <2>1 DEF RoutesInv
    <2>3. (decision = Routes!NoDecision)'
        BY <2>1 DEF Routes!NoDecision
    <2>4. QED BY <2>2, <2>3 DEF RoutesInv
<1>2. ASSUME NEW q \in RoutedQuantities, Routes!Route(q)
      PROVE  RoutesInv'
    <2>1. decision' = Routes!Decision(quotes, q) /\ quotes' = quotes
        BY <1>2 DEF Routes!Route
    <2>2. (decision = Routes!Decision(quotes, q))'
        BY <2>1
    <2>3. QED BY <2>1, <2>2 DEF RoutesInv
<1>3. ASSUME UNCHANGED Routes!routingVars
      PROVE  RoutesInv'
    <2>1. decision' = decision /\ quotes' = quotes
        BY <1>3 DEF Routes!routingVars
    <2>2. QED BY <2>1 DEF RoutesInv, Routes!NoDecision
<1>4. QED BY <1>1, <1>2, <1>3 DEF Routes!Next

\* A list of venues as it may be quoted.
Quoted(l, n) == n \in Nat /\ l \in [1 .. n -> Venues] /\ Len(l) = n

LEMMA VenueIs ==
    ASSUME NEW v \in Venues
    PROVE  /\ v.price \in Nat /\ v.fee \in Nat /\ v.size \in Nat /\ v.probability \in Nat
           /\ \A q \in Nat : Routes!EffectiveCost(v, q) \in Int
<1>1. v.price \in Nat /\ v.fee \in Nat /\ v.size \in Nat /\ v.probability \in Nat
    BY RoutesAssumption
<1>2. ASSUME NEW q \in Nat
      PROVE  Routes!EffectiveCost(v, q) \in Int
    <2>1. PICK p : p = Routes!Clamped(v.probability)
        OBVIOUS
    <2>2. p \in Nat /\ p > 0
        BY <1>1, <2>1 DEF Routes!Clamped
    <2>3. PICK a \in Int : a = (v.price * q + v.fee) * 100
        <3>1. PICK b \in Int : b = v.price * q
            BY <1>1
        <3>2. QED BY <1>1, <3>1
    <2>4. a \div p \in Int
        BY <2>2, Division
    <2>5. QED BY <2>1, <2>3, <2>4 DEF Routes!EffectiveCost
<1>3. QED BY <1>1, <1>2

\* The cheaper comes first, and of two that cost the same the one that was quoted first.
LEMMA BeforeOrders ==
    ASSUME NEW l, NEW n, Quoted(l, n), NEW q \in Nat,
           NEW R, R = {p \in (1 .. n) \X (1 .. n) : Routes!Before(l, p[1], p[2], q)}
    PROVE  /\ \A i, j \in 1 .. n : <<i, j>> \in R <=> Routes!Before(l, i, j, q)
           /\ \A S \in SUBSET (1 .. n) : IsOrder(R, S)
<1>1. PICK c : c = [i \in 1 .. n |-> Routes!EffectiveCost(l[i], q)]
    OBVIOUS
<1>2. \A i \in 1 .. n : c[i] \in Int /\ c[i] = Routes!EffectiveCost(l[i], q)
    BY <1>1, VenueIs DEF Quoted
<1>3. \A i, j \in 1 .. n : <<i, j>> \in R <=> Routes!Before(l, i, j, q)
    OBVIOUS
<1>4. \A i, j \in 1 .. n : <<i, j>> \in R <=> (c[i] < c[j] \/ (c[i] = c[j] /\ i < j))
    <2>1. ASSUME NEW i \in 1 .. n, NEW j \in 1 .. n
          PROVE  <<i, j>> \in R <=> (c[i] < c[j] \/ (c[i] = c[j] /\ i < j))
        <3>1. c[i] = Routes!EffectiveCost(l[i], q) /\ c[j] = Routes!EffectiveCost(l[j], q)
            BY <1>2
        <3>2. Routes!Before(l, i, j, q) <=> (c[i] < c[j] \/ (c[i] = c[j] /\ i < j))
            BY <3>1 DEF Routes!Before
        <3>3. QED BY <1>3, <3>2
    <2>2. QED BY <2>1
<1>5. ASSUME NEW S \in SUBSET (1 .. n)
      PROVE  IsOrder(R, S)
    <2>1. \A i \in S : i \in 1 .. n /\ i \in Int /\ c[i] \in Int
        BY <1>2
    <2>2. \A x \in S : <<x, x>> \notin R
        BY <1>4, <2>1
    <2>3. \A x, y \in S : x # y => <<x, y>> \in R \/ <<y, x>> \in R
        BY <1>4, <2>1
    <2>4. \A x, y, z \in S : <<x, y>> \in R /\ <<y, z>> \in R => <<x, z>> \in R
        <3>1. SUFFICES ASSUME NEW x \in S, NEW y \in S, NEW z \in S, <<x, y>> \in R, <<y, z>> \in R
                       PROVE  <<x, z>> \in R
            OBVIOUS
        <3>2. x \in Int /\ y \in Int /\ z \in Int /\ c[x] \in Int /\ c[y] \in Int /\ c[z] \in Int
            BY <2>1
        <3>3. (c[x] < c[y] \/ (c[x] = c[y] /\ x < y)) /\ (c[y] < c[z] \/ (c[y] = c[z] /\ y < z))
            BY <1>4, <2>1, <3>1
        <3>4. c[x] < c[z] \/ (c[x] = c[z] /\ x < z)
            BY <3>2, <3>3
        <3>5. QED BY <1>4, <2>1, <3>4
    <2>5. QED BY <2>2, <2>3, <2>4 DEF IsOrder
<1>6. QED BY <1>3, <1>5

LEMMA BestIs ==
    ASSUME NEW l, NEW n, Quoted(l, n), NEW q \in Nat, NEW i0 \in 1 .. n, l[i0].size >= q,
           NEW b, b = Routes!Best(l, q)
    PROVE  /\ b \in 1 .. n /\ l[b].size >= q
           /\ \A i \in 1 .. n : l[i].size >= q => ~ (Routes!EffectiveCost(l[i], q) < Routes!EffectiveCost(l[b], q))
<1>1. PICK R : R = {p \in (1 .. n) \X (1 .. n) : Routes!Before(l, p[1], p[2], q)}
    OBVIOUS
<1>2. PICK W : W = {i \in 1 .. n : l[i].size >= q}
    OBVIOUS
<1>3. W \in SUBSET (1 .. n) /\ W # {} /\ n \in Nat
    BY <1>2 DEF Quoted
<1>4. IsFiniteSet(W)
    <2>1. IsFiniteSet(1 .. n)
        BY <1>3, FS_Interval
    <2>2. QED BY <1>3, <2>1, FS_Subset
<1>5. IsOrder(R, W) /\ \A i, j \in 1 .. n : <<i, j>> \in R <=> Routes!Before(l, i, j, q)
    BY <1>1, <1>3, BeforeOrders
<1>6. PICK m \in W : \A x \in W \ {m} : <<m, x>> \in R
    BY <1>3, <1>4, <1>5, Foremost
<1>7. DOMAIN l = 1 .. n
    BY DEF Quoted
<1>8. \A i \in 1 .. n : Routes!Covers(l[i], q) <=> i \in W
    BY <1>2 DEF Routes!Covers
<1>9. b = CHOOSE i \in 1 .. n : /\ Routes!Covers(l[i], q)
                               /\ \A j \in (1 .. n) \ {i} : Routes!Covers(l[j], q) => Routes!Before(l, i, j, q)
    BY <1>7 DEF Routes!Best
<1>10. /\ m \in 1 .. n /\ Routes!Covers(l[m], q)
       /\ \A j \in (1 .. n) \ {m} : Routes!Covers(l[j], q) => Routes!Before(l, m, j, q)
    BY <1>3, <1>5, <1>6, <1>8
<1>11. /\ b \in 1 .. n /\ Routes!Covers(l[b], q)
       /\ \A j \in (1 .. n) \ {b} : Routes!Covers(l[j], q) => Routes!Before(l, b, j, q)
    BY <1>9, <1>10
<1>12. ASSUME NEW i \in 1 .. n, l[i].size >= q
       PROVE  ~ (Routes!EffectiveCost(l[i], q) < Routes!EffectiveCost(l[b], q))
    <2>1. Routes!EffectiveCost(l[i], q) \in Int /\ Routes!EffectiveCost(l[b], q) \in Int
        BY <1>11, VenueIs DEF Quoted
    <2>2. CASE i = b
        BY <2>1, <2>2
    <2>3. CASE i # b
        <3>1. Routes!Before(l, b, i, q)
            BY <1>11, <1>12, <2>3 DEF Routes!Covers
        <3>2. QED BY <2>1, <3>1 DEF Routes!Before
    <2>4. QED BY <2>2, <2>3
<1>13. QED BY <1>2, <1>8, <1>11, <1>12

\* The list by unit cost has every venue once, the cheaper ones first.
IsByUnitCost(l, n, u) ==
    /\ u \in [1 .. n -> 1 .. n]
    /\ \A i, j \in 1 .. n : u[i] = u[j] => i = j
    /\ \A x \in 1 .. n : \E i \in 1 .. n : u[i] = x
    /\ \A i, j \in 1 .. n : Routes!EffectiveCost(l[u[i]], 1) < Routes!EffectiveCost(l[u[j]], 1) => i < j

LEMMA ByUnitCostIs ==
    ASSUME NEW l, NEW n, Quoted(l, n), NEW u, u = Routes!ByUnitCost(l)
    PROVE  IsByUnitCost(l, n, u)
<1>1. PICK R : R = {p \in (1 .. n) \X (1 .. n) : Routes!Before(l, p[1], p[2], 1)}
    OBVIOUS
<1>2. n \in Nat /\ DOMAIN l = 1 .. n
    BY DEF Quoted
<1>3. PICK S : S = 1 .. n
    OBVIOUS
<1>4. IsFiniteSet(S) /\ Cardinality(S) = n
    BY <1>2, <1>3, FS_Interval
<1>5. IsOrder(R, S) /\ \A i, j \in 1 .. n : <<i, j>> \in R <=> Routes!Before(l, i, j, 1)
    <2>1. 1 \in Nat /\ S \in SUBSET (1 .. n)
        BY <1>3
    <2>2. QED BY <1>1, <2>1, BeforeOrders
<1>6. PICK g : Lists(g, R, S, n)
    BY <1>4, <1>5, ListExists
<1>7. u = CHOOSE o \in [1 .. n -> 1 .. n] : \A i, j \in 1 .. n : i < j => Routes!Before(l, o[i], o[j], 1)
    BY <1>2 DEF Routes!ByUnitCost
<1>8. g \in [1 .. n -> 1 .. n] /\ \A i, j \in 1 .. n : i < j => Routes!Before(l, g[i], g[j], 1)
    BY <1>3, <1>5, <1>6 DEF Lists
<1>9. u \in [1 .. n -> 1 .. n] /\ \A i, j \in 1 .. n : i < j => Routes!Before(l, u[i], u[j], 1)
    BY <1>7, <1>8
<1>10. Lists(u, R, S, n)
    BY <1>3, <1>5, <1>9 DEF Lists
<1>11. /\ \A i, j \in 1 .. n : u[i] = u[j] => i = j
       /\ \A x \in S : \E i \in 1 .. n : u[i] = x
       /\ \A i, j \in 1 .. n : <<u[i], u[j]>> \in R => i < j
    BY <1>4, <1>5, <1>10, ListIsComplete
<1>12. \A i, j \in 1 .. n : Routes!EffectiveCost(l[u[i]], 1) < Routes!EffectiveCost(l[u[j]], 1) => <<u[i], u[j]>> \in R
    BY <1>5, <1>9 DEF Routes!Before
<1>13. QED BY <1>3, <1>9, <1>11, <1>12 DEF IsByUnitCost

Following(l, q, u, g, k) == IF k = 0 THEN <<>> ELSE Routes!Take(l, q, g[k - 1], u[k])

IsServed(l, q, u, n, g) == g = [k \in 0 .. n |-> Following(l, q, u, g, k)]

LEMMA FragmentsAreServed ==
    ASSUME NEW l, NEW n, Quoted(l, n), NEW q, NEW u, u = Routes!ByUnitCost(l)
    PROVE  Routes!Fragments(l, q) = (CHOOSE g : IsServed(l, q, u, n, g))[n]
<1>1. Len(l) = n
    BY DEF Quoted
<1>2. QED BY <1>1 DEF Routes!Fragments, IsServed, Following

LEMMA ServedExists ==
    ASSUME NEW l, NEW q, NEW u, NEW n \in Nat
    PROVE  \E g : IsServed(l, q, u, n, g)
<1> DEFINE N == {m \in Nat : \E g : IsServed(l, q, u, m, g)}
<1>1. 0 \in N
    <2>1. PICK g : g = [k \in 0 .. 0 |-> <<>>]
        OBVIOUS
    <2>2. \A k \in 0 .. 0 : Following(l, q, u, g, k) = <<>>
        BY DEF Following
    <2>3. g = [k \in 0 .. 0 |-> Following(l, q, u, g, k)]
        BY <2>1, <2>2
    <2>4. QED BY <2>3 DEF IsServed
<1>2. ASSUME NEW m \in Nat, m \in N
      PROVE  m + 1 \in N
    <2>1. PICK g : IsServed(l, q, u, m, g)
        BY <1>2
    <2>2. PICK h : h = [k \in 0 .. (m + 1) |-> IF k = m + 1 THEN Following(l, q, u, g, m + 1) ELSE g[k]]
        OBVIOUS
    <2>3. ASSUME NEW k \in 0 .. (m + 1)
          PROVE  h[k] = Following(l, q, u, h, k)
        <3>1. k # 0 => k - 1 \in 0 .. m /\ k - 1 \in 0 .. (m + 1) /\ k - 1 # m + 1
            OBVIOUS
        <3>2. k # 0 => h[k - 1] = g[k - 1]
            BY <2>2, <3>1
        <3>3. Following(l, q, u, h, k) = Following(l, q, u, g, k)
            BY <3>2 DEF Following
        <3>4. CASE k = m + 1
            BY <2>2, <3>3, <3>4
        <3>5. CASE k # m + 1
            <4>1. k \in 0 .. m
                BY <3>5
            <4>2. g[k] = Following(l, q, u, g, k)
                BY <2>1, <4>1 DEF IsServed
            <4>3. QED BY <2>2, <3>3, <3>5, <4>2
        <3>6. QED BY <3>4, <3>5
    <2>4. h = [k \in 0 .. (m + 1) |-> Following(l, q, u, h, k)]
        <3>1. h = [k \in 0 .. (m + 1) |-> h[k]]
            BY <2>2
        <3>2. QED BY <2>3, <3>1
    <2>5. QED BY <2>4 DEF IsServed
<1>3. Nat \subseteq N
    <2> HIDE DEF N
    <2>1. QED BY <1>1, <1>2, EveryNumber
<1>4. n \in N
    BY <1>3
<1>5. QED BY <1>4

SlicesOf(n) == [venue : 1 .. n, quantity : Nat, cost : Int]

LEMMA QuantityIs ==
    ASSUME NEW n \in Nat, NEW s \in Seq(SlicesOf(n))
    PROVE  /\ Routes!Quantity(s) \in Int
           /\ s = <<>> => Routes!Quantity(s) = 0
           /\ \A x \in SlicesOf(n) : Routes!Quantity(Append(s, x)) = Routes!Quantity(s) + x.quantity
<1>1. PICK f : f = [k \in DOMAIN s |-> s[k].quantity]
    OBVIOUS
<1>2. DOMAIN s = 1 .. Len(s) /\ Len(s) \in Nat
    OBVIOUS
<1>3. IsFiniteSet(1 .. Len(s))
    BY <1>2, FS_Interval
<1>4. \A k \in 1 .. Len(s) : f[k] \in Int /\ f[k] = s[k].quantity
    <2>1. ASSUME NEW k \in 1 .. Len(s)
          PROVE  f[k] \in Int /\ f[k] = s[k].quantity
        <3>1. s[k] \in SlicesOf(n) /\ k \in DOMAIN s
            BY <1>2
        <3>2. s[k].quantity \in Nat
            BY <3>1 DEF SlicesOf
        <3>3. QED BY <1>1, <3>1, <3>2
    <2>2. QED BY <2>1
<1>5. Routes!Quantity(s) = SumFunctionOnSet(f, 1 .. Len(s))
    <2>1. DOMAIN f = 1 .. Len(s)
        BY <1>1, <1>2
    <2>2. Routes!Quantity(s) = Routes!SumFunction(f)
        BY <1>1 DEF Routes!Quantity
    <2>3. QED BY <2>1, <2>2, RoutesSum
<1>6. Routes!Quantity(s) \in Int
    BY <1>3, <1>4, <1>5, SumType
<1>7. s = <<>> => Routes!Quantity(s) = 0
    <2>1. s = <<>> => 1 .. Len(s) = {}
        OBVIOUS
    <2>2. QED BY <1>5, <2>1, SumEmpty
<1>8. ASSUME NEW x \in SlicesOf(n)
      PROVE  Routes!Quantity(Append(s, x)) = Routes!Quantity(s) + x.quantity
    <2>1. PICK t : t = Append(s, x)
        OBVIOUS
    <2>2. PICK m \in Nat : m = Len(s)
        OBVIOUS
    <2>3. /\ DOMAIN t = (1 .. m) \cup {m + 1} /\ t[m + 1] = x
          /\ \A k \in 1 .. m : t[k] = s[k]
        BY <2>1, <2>2
    <2>4. PICK g : g = [k \in DOMAIN t |-> t[k].quantity]
        OBVIOUS
    <2>5. /\ g[m + 1] = x.quantity /\ g[m + 1] \in Int
          /\ \A k \in 1 .. m : g[k] = f[k] /\ g[k] \in Int
        <3>1. x.quantity \in Int
            BY DEF SlicesOf
        <3>2. g[m + 1] = x.quantity
            BY <2>3, <2>4
        <3>3. ASSUME NEW k \in 1 .. m PROVE g[k] = f[k] /\ g[k] \in Int
            <4>1. k \in DOMAIN t /\ t[k] = s[k]
                BY <2>3
            <4>2. g[k] = s[k].quantity
                BY <2>4, <4>1
            <4>3. QED BY <1>4, <2>2, <4>2
        <3>4. QED BY <3>1, <3>2, <3>3
    <2>6. Routes!Quantity(t) = SumFunctionOnSet(g, (1 .. m) \cup {m + 1})
        <3>1. DOMAIN g = (1 .. m) \cup {m + 1}
            BY <2>3, <2>4
        <3>2. Routes!Quantity(t) = Routes!SumFunction(g)
            BY <2>4 DEF Routes!Quantity
        <3>3. QED BY <3>1, <3>2, RoutesSum
    <2>7. IsFiniteSet(1 .. m) /\ m + 1 \notin 1 .. m
        <3>1. IsFiniteSet(1 .. m)
            BY <1>3, <2>2
        <3>2. QED BY <3>1
    <2>8. SumFunctionOnSet(g, (1 .. m) \cup {m + 1}) = g[m + 1] + SumFunctionOnSet(g, 1 .. m)
        <3>1. \A k \in 1 .. m : g[k] \in Int
            BY <2>5
        <3>2. g[m + 1] \in Int
            BY <2>5
        <3>3. QED BY <2>7, <3>1, <3>2, SumAdd
    <2>9. SumFunctionOnSet(g, 1 .. m) = SumFunctionOnSet(f, 1 .. m)
        <3>1. \A k \in 1 .. m : f[k] \in Int
            BY <1>4, <2>2
        <3>2. \A k \in 1 .. m : g[k] = f[k]
            BY <2>5
        <3>3. QED BY <2>7, <3>1, <3>2, SumSame
    <2>10. PICK a, b \in Int : a = Routes!Quantity(s) /\ b = x.quantity
        BY <1>6 DEF SlicesOf
    <2>11. Routes!Quantity(t) = b + a
        BY <1>5, <2>2, <2>5, <2>6, <2>8, <2>9, <2>10
    <2>12. QED BY <2>1, <2>10, <2>11
<1>9. QED BY <1>6, <1>7, <1>8

Exhausted(l, s, i) ==
    l[i].size = 0 \/ \E m \in 1 .. Len(s) : s[m].venue = i /\ s[m].quantity = l[i].size

\* What the first k venues are sent, C[k] units being shown there.
Sent(l, n, q, u, C, s, k) ==
    /\ s \in Seq(SlicesOf(n))
    /\ Routes!Quantity(s) = IF C[k] < q THEN C[k] ELSE q
    /\ \A m \in 1 .. Len(s) : /\ 0 < s[m].quantity /\ s[m].quantity <= l[s[m].venue].size
                              /\ \E i \in 1 .. k : s[m].venue = u[i]
    /\ \A m, p \in 1 .. Len(s) : s[m].venue = s[p].venue => m = p
    /\ C[k] <= q => \A i \in 1 .. k : Exhausted(l, s, u[i])
    /\ \A m \in 1 .. Len(s), i, j \in 1 .. k : s[m].venue = u[j] /\ i < j => Exhausted(l, s, u[i])

LEMMA SentNext ==
    ASSUME NEW l, NEW n, Quoted(l, n), NEW q \in Nat, q > 0,
           NEW u \in [1 .. n -> 1 .. n], \A i, j \in 1 .. n : u[i] = u[j] => i = j,
           NEW C, NEW k \in 0 .. n, k + 1 \in 1 .. n,
           C[k] \in Int, C[k + 1] = C[k] + l[u[k + 1]].size,
           NEW s, Sent(l, n, q, u, C, s, k),
           NEW t, t = Routes!Take(l, q, s, u[k + 1])
    PROVE  Sent(l, n, q, u, C, t, k + 1)
<1>1. PICK v : v = u[k + 1]
    OBVIOUS
<1>2. n \in Nat /\ v \in 1 .. n /\ l[v] \in Venues
    BY <1>1 DEF Quoted
<1>3. PICK z \in Nat : z = l[v].size
    BY <1>2, VenueIs
<1>4. PICK c \in Int : c = C[k] /\ C[k + 1] = c + z
    BY <1>1, <1>3
<1>5. s \in Seq(SlicesOf(n)) /\ Len(s) \in Nat
    BY DEF Sent
<1>6. PICK T \in Int : T = Routes!Quantity(s) /\ T = IF c < q THEN c ELSE q
    BY <1>2, <1>4, <1>5, QuantityIs DEF Sent
<1>7. PICK taken \in Int : taken = (IF z < q - T THEN z ELSE q - T) /\ taken = Routes!Min({z, q - T})
    <2>1. q - T \in Int /\ z \in Int
        OBVIOUS
    <2>2. PICK d \in Int : d = q - T
        BY <2>1
    <2>3. Routes!Min({z, d}) = IF z < d THEN z ELSE d
        BY <2>1, <2>2, RoutesMin
    <2>4. QED BY <2>1, <2>2, <2>3
<1>8. t = IF taken <= 0 THEN s ELSE Append(s, Routes!Slice(l, v, taken))
    BY <1>1, <1>3, <1>6, <1>7 DEF Routes!Take
<1>9. 0 <= q - T /\ \A i \in 1 .. k + 1 : i \in 1 .. k \/ i = k + 1
    BY <1>6
<1>10. \A i \in 1 .. k : i \in 1 .. n /\ u[i] # v
    <2>1. ASSUME NEW i \in 1 .. k
          PROVE  i \in 1 .. n /\ u[i] # u[k + 1]
        <3>1. i \in 1 .. n /\ i # k + 1
            BY <1>2
        <3>2. QED BY <3>1
    <2>2. QED BY <1>1, <2>1
<1>11. CASE taken <= 0
    <2>1. t = s
        BY <1>8, <1>11
    <2>2. z = 0 \/ q <= c
        BY <1>6, <1>7, <1>9, <1>11
    <2>3. Routes!Quantity(s) = IF C[k + 1] < q THEN C[k + 1] ELSE q
        BY <1>4, <1>6, <2>2
    <2>4. \A m \in 1 .. Len(s) : \E i \in 1 .. k : s[m].venue = u[i]
        BY DEF Sent
    <2>5. \A m \in 1 .. Len(s) : s[m].venue # u[k + 1]
        BY <1>1, <1>10, <2>4
    <2>6. C[k + 1] <= q => \A i \in 1 .. k + 1 : Exhausted(l, s, u[i])
        <3>1. SUFFICES ASSUME C[k + 1] <= q, NEW i \in 1 .. k + 1 PROVE Exhausted(l, s, u[i])
            OBVIOUS
        <3>2. C[k] <= q
            BY <1>4, <3>1
        <3>3. CASE i \in 1 .. k
            BY <3>2, <3>3 DEF Sent
        <3>4. CASE i = k + 1
            <4>1. z = 0
                BY <1>4, <2>2, <3>1
            <4>2. QED BY <1>1, <1>3, <3>4, <4>1 DEF Exhausted
        <3>5. QED BY <1>9, <3>3, <3>4
    <2>7. ASSUME NEW m \in 1 .. Len(s), NEW i \in 1 .. k + 1, NEW j \in 1 .. k + 1, s[m].venue = u[j], i < j
          PROVE  Exhausted(l, s, u[i])
        <3>1. j \in 1 .. k
            BY <1>9, <2>5, <2>7
        <3>2. i \in 1 .. k
            BY <2>7, <3>1
        <3>3. QED BY <2>7, <3>1, <3>2 DEF Sent
    <2>8. ASSUME NEW m \in 1 .. Len(s)
          PROVE  /\ 0 < s[m].quantity /\ s[m].quantity <= l[s[m].venue].size
                 /\ \E i \in 1 .. k + 1 : s[m].venue = u[i]
        <3>1. PICK i \in 1 .. k : s[m].venue = u[i]
            BY <2>4
        <3>2. i \in 1 .. k + 1
            OBVIOUS
        <3>3. QED BY <3>1, <3>2 DEF Sent
    <2>9. \A m, p \in 1 .. Len(s) : s[m].venue = s[p].venue => m = p
        BY DEF Sent
    <2>10. Sent(l, n, q, u, C, s, k + 1)
        BY <1>5, <2>3, <2>6, <2>7, <2>8, <2>9 DEF Sent
    <2>11. QED BY <2>1, <2>10
<1>12. CASE ~ (taken <= 0)
    <2>1. taken \in Nat /\ 0 < taken /\ taken <= z /\ c < q /\ T = c /\ taken <= q - T
        BY <1>6, <1>7, <1>12
    <2>2. PICK x : x = Routes!Slice(l, v, taken)
        OBVIOUS
    <2>3. x \in SlicesOf(n) /\ x.venue = v /\ x.quantity = taken
        <3>1. l[v].price \in Nat /\ l[v].fee \in Nat
            BY <1>2, VenueIs
        <3>2. PICK e \in Int : e = l[v].price * taken + l[v].fee
            <4>1. PICK d \in Int : d = l[v].price * taken
                BY <3>1
            <4>2. QED BY <3>1, <4>1
        <3>3. x = [venue |-> v, quantity |-> taken, cost |-> e]
            BY <2>2, <3>2 DEF Routes!Slice
        <3>4. QED BY <1>2, <2>1, <3>3 DEF SlicesOf
    <2>4. PICK p \in Nat : p = Len(s)
        BY <1>5
    <2>5. /\ t \in Seq(SlicesOf(n)) /\ Len(t) = p + 1 /\ t[p + 1] = x
          /\ \A m \in 1 .. p : t[m] = s[m]
        BY <1>5, <1>8, <1>12, <2>2, <2>3, <2>4
    <2>6. \A m \in 1 .. p + 1 : m \in 1 .. p \/ m = p + 1
        OBVIOUS
    <2>7. Routes!Quantity(t) = IF C[k + 1] < q THEN C[k + 1] ELSE q
        <3>1. t = Append(s, x)
            BY <1>8, <1>12, <2>2
        <3>2. Routes!Quantity(t) = T + taken
            <4>1. \A y \in SlicesOf(n) : Routes!Quantity(Append(s, y)) = Routes!Quantity(s) + y.quantity
                BY <1>2, <1>5, QuantityIs
            <4>2. QED BY <1>6, <2>3, <3>1, <4>1
        <3>3. CASE z < q - T
            <4>1. taken = z
                BY <1>7, <3>3
            <4>2. c + z < q
                BY <2>1, <3>3
            <4>3. QED BY <1>4, <2>1, <3>2, <4>1, <4>2
        <3>4. CASE ~ (z < q - T)
            <4>1. taken = q - T
                BY <1>7, <3>4
            <4>2. ~ (c + z < q) /\ T + (q - T) = q
                BY <2>1, <3>4
            <4>3. QED BY <1>4, <2>1, <3>2, <4>1, <4>2
        <3>5. QED BY <3>3, <3>4
    <2>8. \A i \in 1 .. k : Exhausted(l, t, u[i])
        <3>1. SUFFICES ASSUME NEW i \in 1 .. k PROVE Exhausted(l, t, u[i])
            OBVIOUS
        <3>2. Exhausted(l, s, u[i])
            BY <1>4, <2>1 DEF Sent
        <3>3. CASE l[u[i]].size = 0
            BY <3>3 DEF Exhausted
        <3>4. CASE \E m \in 1 .. Len(s) : s[m].venue = u[i] /\ s[m].quantity = l[u[i]].size
            <4>1. PICK m \in 1 .. p : s[m].venue = u[i] /\ s[m].quantity = l[u[i]].size
                BY <2>4, <3>4
            <4>2. m \in 1 .. Len(t) /\ t[m] = s[m]
                BY <2>5
            <4>3. QED BY <4>1, <4>2 DEF Exhausted
        <3>5. QED BY <3>2, <3>3, <3>4 DEF Exhausted
    <2>9. C[k + 1] <= q => Exhausted(l, t, v)
        <3>1. SUFFICES ASSUME C[k + 1] <= q PROVE Exhausted(l, t, v)
            OBVIOUS
        <3>2. z <= q - c
            BY <1>4, <3>1
        <3>3. z <= q - T
            BY <2>1, <3>2
        <3>4. taken = z
            BY <1>7, <2>1, <3>3
        <3>5. p + 1 \in 1 .. Len(t)
            BY <2>5
        <3>6. QED BY <1>3, <2>3, <2>5, <3>4, <3>5 DEF Exhausted
    <2>10. C[k + 1] <= q => \A i \in 1 .. k + 1 : Exhausted(l, t, u[i])
        BY <1>1, <1>9, <2>8, <2>9
    <2>11. ASSUME NEW m \in 1 .. Len(t), NEW i \in 1 .. k + 1, NEW j \in 1 .. k + 1, t[m].venue = u[j], i < j
           PROVE  Exhausted(l, t, u[i])
        <3>1. i \in 1 .. k
            BY <2>11
        <3>2. QED BY <2>8, <3>1
    <2>12. ASSUME NEW m \in 1 .. p
           PROVE  /\ m \in 1 .. Len(s) /\ 0 < t[m].quantity /\ t[m].quantity <= l[t[m].venue].size
                  /\ t[m].venue # v
                  /\ \E i \in 1 .. k + 1 : t[m].venue = u[i]
        <3>1. m \in 1 .. Len(s) /\ t[m] = s[m]
            BY <2>4, <2>5
        <3>2. PICK i \in 1 .. k : s[m].venue = u[i]
            BY <3>1 DEF Sent
        <3>3. i \in 1 .. k + 1 /\ u[i] # v
            BY <1>10
        <3>4. 0 < s[m].quantity /\ s[m].quantity <= l[s[m].venue].size
            BY <3>1 DEF Sent
        <3>5. QED BY <3>1, <3>2, <3>3, <3>4
    <2>13. ASSUME NEW m \in 1 .. Len(t)
           PROVE  /\ 0 < t[m].quantity /\ t[m].quantity <= l[t[m].venue].size
                  /\ \E i \in 1 .. k + 1 : t[m].venue = u[i]
        <3>1. CASE m \in 1 .. p
            BY <2>12, <3>1
        <3>2. CASE m = p + 1
            <4>1. k + 1 \in 1 .. k + 1 /\ t[m].venue = u[k + 1]
                BY <1>1, <2>3, <2>5, <3>2
            <4>2. 0 < t[m].quantity /\ t[m].quantity <= l[t[m].venue].size
                BY <1>3, <2>1, <2>3, <2>5, <3>2
            <4>3. QED BY <4>1, <4>2
        <3>3. QED BY <2>5, <2>6, <3>1, <3>2
    <2>14. ASSUME NEW m \in 1 .. Len(t), NEW r \in 1 .. Len(t), t[m].venue = t[r].venue
           PROVE  m = r
        <3>1. CASE m \in 1 .. p /\ r \in 1 .. p
            <4>1. m \in 1 .. Len(s) /\ r \in 1 .. Len(s) /\ s[m].venue = s[r].venue
                BY <2>4, <2>5, <2>14, <3>1
            <4>2. QED BY <4>1 DEF Sent
        <3>2. CASE m = p + 1 \/ r = p + 1
            <4>1. t[m].venue = v /\ t[r].venue = v
                BY <2>3, <2>5, <2>14, <3>2
            <4>2. m \notin 1 .. p /\ r \notin 1 .. p
                BY <2>12, <4>1
            <4>3. QED BY <2>5, <2>6, <4>2
        <3>3. QED BY <2>5, <2>6, <3>1, <3>2
    <2>15. QED BY <2>5, <2>7, <2>10, <2>11, <2>13, <2>14 DEF Sent
<1>13. QED BY <1>11, <1>12

\* What is shown, counted by venue and in the order of the unit costs.
LEMMA ShownIs ==
    ASSUME NEW l, NEW n, Quoted(l, n),
           NEW u, IsByUnitCost(l, n, u), NEW A, \A i \in 1 .. n : A[i] = l[u[i]].size
    PROVE  /\ Routes!SumFunction([i \in DOMAIN l |-> l[i].size]) = SumFunctionOnSet(A, 1 .. n)
           /\ SumFunctionOnSet(A, 1 .. n) \in Int
           /\ \A i \in 1 .. n : l[i].size <= SumFunctionOnSet(A, 1 .. n)
<1>1. PICK h : h = [i \in 1 .. n |-> l[i].size]
    OBVIOUS
<1>2. n \in Nat /\ DOMAIN l = 1 .. n /\ \A i \in 1 .. n : l[i] \in Venues
    BY DEF Quoted
<1>3. \A i \in 1 .. n : h[i] \in Nat /\ h[i] \in Int /\ h[i] = l[i].size
    BY <1>1, <1>2, VenueIs
<1>4. IsFiniteSet(1 .. n)
    <2>1. n \in Int
        BY <1>2
    <2>2. QED BY <2>1, FS_Interval
<1>5. \A i \in 1 .. n : A[i] \in Int /\ h[u[i]] = A[i]
    <2>1. ASSUME NEW i \in 1 .. n
          PROVE  A[i] \in Int /\ h[u[i]] = A[i]
        <3>1. u[i] \in 1 .. n
            BY DEF IsByUnitCost
        <3>2. h[u[i]] \in Int /\ h[u[i]] = l[u[i]].size
            BY <1>3, <3>1
        <3>3. QED BY <3>2
    <2>2. QED BY <2>1
<1>6. Routes!SumFunction([i \in DOMAIN l |-> l[i].size]) = SumFunctionOnSet(h, 1 .. n)
    <2>1. h = [i \in DOMAIN l |-> l[i].size] /\ DOMAIN h = 1 .. n
        BY <1>1, <1>2
    <2>2. QED BY <2>1, RoutesSum
<1>7. {u[x] : x \in 1 .. n} = 1 .. n
    <2>1. \A x \in 1 .. n : u[x] \in 1 .. n
        BY DEF IsByUnitCost
    <2>2. \A x \in 1 .. n : \E i \in 1 .. n : u[i] = x
        BY DEF IsByUnitCost
    <2>3. QED BY <2>1, <2>2
<1>8. SumFunctionOnSet(h, 1 .. n) = SumFunctionOnSet(A, 1 .. n)
    <2>1. PICK I : I = 1 .. n
        OBVIOUS
    <2>2. IsFiniteSet(I) /\ (\A x \in I : A[x] \in Int) /\ \A x \in I : h[u[x]] = A[x]
        BY <1>4, <1>5, <2>1
    <2>3. \A x, y \in I : u[x] = u[y] => x = y
        BY <2>1 DEF IsByUnitCost
    <2>4. SumFunctionOnSet(h, {u[x] : x \in I}) = SumFunctionOnSet(A, I)
        BY <2>2, <2>3, SumImage
    <2>5. QED BY <1>7, <2>1, <2>4
<1>9. SumFunctionOnSet(h, 1 .. n) \in Int
    <2>1. \A i \in 1 .. n : h[i] \in Int
        BY <1>3
    <2>2. QED BY <1>4, <2>1, SumType
<1>10. ASSUME NEW i \in 1 .. n
       PROVE  h[i] <= SumFunctionOnSet(h, 1 .. n)
    <2>1. PICK S : S = (1 .. n) \ {i}
        OBVIOUS
    <2>2. PICK z : z = [x \in S |-> 0]
        OBVIOUS
    <2>3. IsFiniteSet(S)
        BY <1>4, <2>1, FS_RemoveElement
    <2>4. \A x \in S : h[x] \in Int /\ z[x] \in Int /\ z[x] = 0 /\ z[x] <= h[x]
        BY <1>3, <2>1, <2>2
    <2>5. SumFunctionOnSet(z, S) = 0
        BY <2>3, <2>4, SumZero
    <2>6. SumFunctionOnSet(z, S) <= SumFunctionOnSet(h, S)
        BY <2>3, <2>4, SumMonotone
    <2>7. SumFunctionOnSet(h, 1 .. n) = h[i] + SumFunctionOnSet(h, S)
        <3>1. \A x \in 1 .. n : h[x] \in Int
            BY <1>3
        <3>2. SumFunctionOnSet(h, 1 .. n) = h[i] + SumFunctionOnSet(h, (1 .. n) \ {i})
            BY <1>4, <3>1, SumRemove
        <3>3. QED BY <2>1, <3>2
    <2>8. SumFunctionOnSet(h, S) \in Int
        <3>1. \A x \in S : h[x] \in Int
            BY <2>4
        <3>2. QED BY <2>3, <3>1, SumType
    <2>9. h[i] \in Int
        BY <1>3
    <2>10. QED BY <2>5, <2>6, <2>7, <2>8, <2>9
<1>11. QED BY <1>3, <1>6, <1>8, <1>9, <1>10

\* Everything there is to an order in fragments: the slices s for q units.
AreBestFragments(l, n, q, s) ==
    /\ s \in Seq(SlicesOf(n))
    /\ Routes!Quantity(s) = Routes!Min({q, Routes!SumFunction([i \in DOMAIN l |-> l[i].size])})
    /\ \A m \in 1 .. Len(s) : 0 < s[m].quantity /\ s[m].quantity <= l[s[m].venue].size
    /\ \A m, p \in 1 .. Len(s) : s[m].venue = s[p].venue => m = p
    /\ \A m \in 1 .. Len(s), i \in 1 .. n :
            Routes!EffectiveCost(l[i], 1) < Routes!EffectiveCost(l[s[m].venue], 1) => Exhausted(l, s, i)

LEMMA FragmentsAre ==
    ASSUME NEW l, NEW n, Quoted(l, n), NEW q \in Nat, q > 0, NEW s, s = Routes!Fragments(l, q)
    PROVE  AreBestFragments(l, n, q, s)
<1>1. n \in Nat /\ \A i \in 1 .. n : l[i] \in Venues
    BY DEF Quoted
<1>2. PICK u : u = Routes!ByUnitCost(l)
    OBVIOUS
<1>3. /\ u \in [1 .. n -> 1 .. n]
      /\ \A i, j \in 1 .. n : u[i] = u[j] => i = j
      /\ \A x \in 1 .. n : \E i \in 1 .. n : u[i] = x
      /\ \A i, j \in 1 .. n : Routes!EffectiveCost(l[u[i]], 1) < Routes!EffectiveCost(l[u[j]], 1) => i < j
      /\ IsByUnitCost(l, n, u)
    <2>1. IsByUnitCost(l, n, u)
        BY <1>2, ByUnitCostIs
    <2>2. QED BY <2>1 DEF IsByUnitCost
<1>4. PICK A : A = [i \in 1 .. n |-> l[u[i]].size]
    OBVIOUS
<1>5. \A i \in 1 .. n : A[i] \in Int /\ A[i] = l[u[i]].size
    <2>1. ASSUME NEW i \in 1 .. n
          PROVE  A[i] \in Int /\ A[i] = l[u[i]].size
        <3>1. u[i] \in 1 .. n
            BY <1>3
        <3>2. l[u[i]].size \in Nat
            BY <1>1, <3>1, VenueIs
        <3>3. QED BY <1>4, <3>2
    <2>2. QED BY <2>1
<1>6. PICK C : C = SoFar(A, n)
    OBVIOUS
<1>7. /\ \A k \in 0 .. n : C[k] \in Int
      /\ C[0] = 0
      /\ \A k \in 0 .. n : k + 1 \in 1 .. n => C[k + 1] = C[k] + A[k + 1]
    <2>1. \A i \in 1 .. n : A[i] \in Int
        BY <1>5
    <2>2. AddsUp(SoFar(A, n), A, n)
        BY <1>1, <2>1, SumsSoFar
    <2>3. QED BY <1>6, <2>2 DEF AddsUp
<1>8. PICK g : g = CHOOSE f : IsServed(l, q, u, n, f)
    OBVIOUS
<1>9. g = [k \in 0 .. n |-> Following(l, q, u, g, k)] /\ s = g[n]
    <2>1. IsServed(l, q, u, n, g)
        BY <1>1, <1>8, ServedExists
    <2>2. s = g[n]
        BY <1>2, <1>8, FragmentsAreServed
    <2>3. QED BY <2>1, <2>2 DEF IsServed
<1> DEFINE N == {k \in Nat : k <= n => Sent(l, n, q, u, C, g[k], k)}
<1>10. 0 \in N
    <2>1. 0 \in 0 .. n
        BY <1>1
    <2>2. g[0] = <<>>
        BY <1>9, <2>1 DEF Following
    <2>3. PICK e : e = g[0]
        OBVIOUS
    <2>4. e \in Seq(SlicesOf(n)) /\ e = <<>> /\ 1 .. Len(e) = {} /\ 1 .. 0 = {}
        BY <2>2, <2>3
    <2>5. Routes!Quantity(e) = 0
        BY <1>1, <2>4, QuantityIs
    <2>6. Sent(l, n, q, u, C, e, 0)
        BY <1>7, <2>4, <2>5 DEF Sent
    <2>7. QED BY <2>3, <2>6
<1>11. ASSUME NEW k \in Nat, k \in N
       PROVE  k + 1 \in N
    <2>1. SUFFICES ASSUME k + 1 <= n PROVE Sent(l, n, q, u, C, g[k + 1], k + 1)
        OBVIOUS
    <2>2. k \in 0 .. n /\ k + 1 \in 1 .. n /\ k + 1 \in 0 .. n /\ (k + 1) - 1 = k /\ k + 1 # 0 /\ k <= n
        BY <1>1, <2>1
    <2>3. Sent(l, n, q, u, C, g[k], k)
        BY <1>11, <2>2
    <2>4. g[k + 1] = Routes!Take(l, q, g[k], u[k + 1])
        <3>1. g[k + 1] = Following(l, q, u, g, k + 1)
            BY <1>9, <2>2
        <3>2. QED BY <2>2, <3>1 DEF Following
    <2>5. C[k] \in Int /\ C[k + 1] = C[k] + l[u[k + 1]].size
        BY <1>5, <1>7, <2>2
    <2>6. PICK a, b : a = g[k] /\ b = g[k + 1]
        OBVIOUS
    <2>7. Sent(l, n, q, u, C, a, k) /\ b = Routes!Take(l, q, a, u[k + 1])
        BY <2>3, <2>4, <2>6
    <2>8. Sent(l, n, q, u, C, b, k + 1)
        BY <1>3, <2>2, <2>5, <2>7, SentNext
    <2>9. QED BY <2>6, <2>8
<1>12. Nat \subseteq N
    <2> HIDE DEF N
    <2>1. QED BY <1>10, <1>11, EveryNumber
<1>13. Sent(l, n, q, u, C, s, n)
    <2>1. n \in N
        BY <1>1, <1>12
    <2>2. QED BY <1>1, <1>9, <2>1
<1>14. PICK shown : shown = Routes!SumFunction([i \in DOMAIN l |-> l[i].size])
    OBVIOUS
<1>15. shown = C[n] /\ shown \in Int
    <2>1. IsByUnitCost(l, n, u) /\ \A i \in 1 .. n : A[i] = l[u[i]].size
        BY <1>3, <1>5
    <2>2. /\ Routes!SumFunction([i \in DOMAIN l |-> l[i].size]) = SumFunctionOnSet(A, 1 .. n)
          /\ SumFunctionOnSet(A, 1 .. n) \in Int
        BY <2>1, ShownIs
    <2>3. C[n] = SumFunctionOnSet(A, 1 .. n)
        BY <1>1, <1>6 DEF SoFar
    <2>4. QED BY <1>14, <2>2, <2>3
<1>16. Routes!Quantity(s) = Routes!Min({q, shown})
    <2>1. Routes!Min({q, shown}) = IF q < shown THEN q ELSE shown
        BY <1>15, RoutesMin
    <2>2. Routes!Quantity(s) = IF shown < q THEN shown ELSE q
        BY <1>13, <1>15 DEF Sent
    <2>3. QED BY <1>15, <2>1, <2>2
<1>17. ASSUME NEW m \in 1 .. Len(s), NEW i \in 1 .. n,
              Routes!EffectiveCost(l[i], 1) < Routes!EffectiveCost(l[s[m].venue], 1)
       PROVE  Exhausted(l, s, i)
    <2>1. PICK j \in 1 .. n : s[m].venue = u[j]
        BY <1>13 DEF Sent
    <2>2. PICK k \in 1 .. n : u[k] = i
        BY <1>3
    <2>3. k < j
        BY <1>3, <1>17, <2>1, <2>2
    <2>4. Exhausted(l, s, u[k])
        BY <1>13, <2>1, <2>3 DEF Sent
    <2>5. QED BY <2>2, <2>4
<1>18. s \in Seq(SlicesOf(n))
    BY <1>13 DEF Sent
<1>19. \A m \in 1 .. Len(s) : 0 < s[m].quantity /\ s[m].quantity <= l[s[m].venue].size
    BY <1>13 DEF Sent
<1>20. \A m, p \in 1 .. Len(s) : s[m].venue = s[p].venue => m = p
    BY <1>13 DEF Sent
<1>21. QED BY <1>14, <1>16, <1>17, <1>18, <1>19, <1>20 DEF AreBestFragments

\* The venues of slices that all differ in theirs are as many as the slices.
NamesOf(name, m) == {name[i] : i \in 1 .. m}

LEMMA VenuesAreCounted ==
    ASSUME NEW m \in Nat, NEW name, \A i, j \in 1 .. m : name[i] = name[j] => i = j
    PROVE  Cardinality(NamesOf(name, m)) = m
<1>1. PICK I : I = 1 .. m
    OBVIOUS
<1>2. IsFiniteSet(I) /\ Cardinality(I) = m
    BY <1>1, FS_Interval
<1>3. PICK V : V = NamesOf(name, m) /\ V = {name[i] : i \in I}
    BY <1>1 DEF NamesOf
<1>4. IsFiniteSet(V)
    BY <1>2, <1>3, ImageFinite
<1>5. PICK f, h : f = [i \in I |-> 1] /\ h = [v \in V |-> 1]
    OBVIOUS
<1>6. /\ \A i \in I : f[i] = 1 /\ f[i] \in Int
      /\ \A i \in I : h[name[i]] = f[i]
      /\ \A v \in V : h[v] = 1
    BY <1>3, <1>5
<1>7. SumFunctionOnSet(h, {name[i] : i \in I}) = SumFunctionOnSet(f, I)
    <2>1. \A i, j \in I : name[i] = name[j] => i = j
        BY <1>1
    <2>2. (\A i \in I : f[i] \in Int) /\ \A i \in I : h[name[i]] = f[i]
        BY <1>6
    <2>3. QED BY <1>2, <2>1, <2>2, SumImage
<1>8. SumFunctionOnSet(f, I) = 1 * Cardinality(I)
    <2>1. 1 \in Int /\ \A i \in I : f[i] = 1
        BY <1>6
    <2>2. QED BY <1>2, <2>1, SumConstant
<1>9. SumFunctionOnSet(h, V) = 1 * Cardinality(V)
    <2>1. 1 \in Int /\ \A v \in V : h[v] = 1
        BY <1>6
    <2>2. QED BY <1>4, <2>1, SumConstant
<1>10. Cardinality(V) \in Nat
    BY <1>4, FS_CardinalityType
<1>11. QED BY <1>1, <1>2, <1>3, <1>7, <1>8, <1>9, <1>10

\* An order that one venue covers.
IsBestWhole(l, n, q, b, s) ==
    /\ s \in Seq(SlicesOf(n)) /\ Len(s) = 1 /\ s[1].venue = b /\ s[1].quantity = q
    /\ Routes!Quantity(s) = Routes!Min({q, Routes!SumFunction([i \in DOMAIN l |-> l[i].size])})
    /\ b \in 1 .. n /\ l[b].size >= q
    /\ \A i \in 1 .. n : l[i].size >= q => ~ (Routes!EffectiveCost(l[i], q) < Routes!EffectiveCost(l[b], q))

LEMMA WholeIsBest ==
    ASSUME NEW l, NEW n, Quoted(l, n), NEW q \in Nat, q > 0, NEW i0 \in 1 .. n, l[i0].size >= q,
           NEW b, b = Routes!Best(l, q), NEW s, s = <<Routes!Slice(l, b, q)>>
    PROVE  IsBestWhole(l, n, q, b, s)
<1>1. /\ b \in 1 .. n /\ l[b].size >= q
      /\ \A i \in 1 .. n : l[i].size >= q => ~ (Routes!EffectiveCost(l[i], q) < Routes!EffectiveCost(l[b], q))
    BY BestIs
<1>2. n \in Nat /\ l[b] \in Venues
    BY <1>1 DEF Quoted
<1>3. PICK x : x = Routes!Slice(l, b, q)
    OBVIOUS
<1>4. x \in SlicesOf(n) /\ x.venue = b /\ x.quantity = q
    <2>1. l[b].price \in Nat /\ l[b].fee \in Nat
        BY <1>2, VenueIs
    <2>2. PICK e \in Int : e = l[b].price * q + l[b].fee
        <3>1. PICK d \in Int : d = l[b].price * q
            BY <2>1
        <3>2. QED BY <2>1, <3>1
    <2>3. x = [venue |-> b, quantity |-> q, cost |-> e]
        BY <1>3, <2>2 DEF Routes!Slice
    <2>4. QED BY <1>1, <2>3 DEF SlicesOf
<1>5. s \in Seq(SlicesOf(n)) /\ Len(s) = 1 /\ s[1] = x
    BY <1>3, <1>4
<1>6. Routes!Quantity(s) = q
    <2>1. PICK e : e = <<>>
        OBVIOUS
    <2>2. e \in Seq(SlicesOf(n)) /\ s = Append(e, x)
        BY <1>3, <2>1
    <2>3. Routes!Quantity(e) = 0
        BY <1>2, <2>1, <2>2, QuantityIs
    <2>4. \A y \in SlicesOf(n) : Routes!Quantity(Append(e, y)) = Routes!Quantity(e) + y.quantity
        BY <1>2, <2>2, QuantityIs
    <2>5. Routes!Quantity(Append(e, x)) = Routes!Quantity(e) + x.quantity
        BY <1>4, <2>4
    <2>6. Routes!Quantity(s) = 0 + q
        BY <1>4, <2>2, <2>3, <2>5
    <2>7. QED BY <2>6
<1>7. PICK shown : shown = Routes!SumFunction([i \in DOMAIN l |-> l[i].size])
    OBVIOUS
<1>8. shown \in Int /\ l[b].size <= shown
    <2>1. PICK u : u = Routes!ByUnitCost(l)
        OBVIOUS
    <2>2. IsByUnitCost(l, n, u)
        BY <2>1, ByUnitCostIs
    <2>3. PICK A : A = [i \in 1 .. n |-> l[u[i]].size]
        OBVIOUS
    <2>4. \A i \in 1 .. n : A[i] = l[u[i]].size
        BY <2>3
    <2>5. /\ Routes!SumFunction([i \in DOMAIN l |-> l[i].size]) = SumFunctionOnSet(A, 1 .. n)
          /\ SumFunctionOnSet(A, 1 .. n) \in Int
          /\ \A i \in 1 .. n : l[i].size <= SumFunctionOnSet(A, 1 .. n)
        BY <2>2, <2>4, ShownIs
    <2>6. QED BY <1>1, <1>7, <2>5
<1>9. Routes!Min({q, shown}) = q
    <2>1. Routes!Min({q, shown}) = IF q < shown THEN q ELSE shown
        BY <1>8, RoutesMin
    <2>2. l[b].size \in Nat
        BY <1>2, VenueIs
    <2>3. q <= shown
        BY <1>1, <1>8, <2>2
    <2>4. QED BY <1>8, <2>1, <2>3
<1>10. QED BY <1>1, <1>4, <1>5, <1>6, <1>7, <1>9 DEF IsBestWhole

LEMMA RouteIsBest ==
    ASSUME RoutesInv
    PROVE  Routes!TypeOK /\ Routes!ExecutionIsBest
<1>1. PICK n \in Nat : n = Len(quotes) /\ Quoted(quotes, n) /\ DOMAIN quotes = 1 .. n
    BY DEF RoutesInv, Quoted
<1>2. quotes \in Seq(Venues)
    BY DEF RoutesInv
<1>3. CASE decision = Routes!NoDecision
    <2>1. decision.slices = <<>>
        BY <1>3 DEF Routes!NoDecision
    <2>2. DOMAIN decision.slices = {}
        BY <2>1
    <2>3. QED BY <1>2, <1>3, <2>2 DEF Routes!TypeOK, Routes!ExecutionIsBest
<1>4. ASSUME NEW q \in RoutedQuantities, decision = Routes!Decision(quotes, q)
      PROVE  Routes!TypeOK /\ Routes!ExecutionIsBest
    <2>1. q \in Nat /\ q > 0
        BY RoutesAssumption
    <2>2. PICK s, size : s = decision.slices /\ size = (IF decision.fragmented THEN 1 ELSE decision.quantity)
        OBVIOUS
    <2>3. PICK whole \in BOOLEAN : whole = \E i \in DOMAIN quotes : Routes!Covers(quotes[i], q)
        OBVIOUS
    <2>4. whole <=> \E i \in 1 .. n : quotes[i].size >= q
        BY <1>1, <2>3 DEF Routes!Covers
    <2>5. /\ decision.quantity = q /\ decision.fragmented = ~ whole
          /\ s = IF whole THEN <<Routes!Slice(quotes, Routes!Best(quotes, q), q)>> ELSE Routes!Fragments(quotes, q)
        BY <1>4, <2>2, <2>3 DEF Routes!Decision
    <2> DEFINE Shown == Routes!SumFunction([i \in DOMAIN quotes |-> quotes[i].size])
               Names == {s[k].venue : k \in DOMAIN s}
    <2>6. SUFFICES /\ s \in Seq(SlicesOf(n))
                   /\ Routes!Quantity(s) = Routes!Min({q, Shown})
                   /\ \A m, p \in 1 .. Len(s) : s[m].venue = s[p].venue => m = p
                   /\ \A m \in 1 .. Len(s) : 0 < s[m].quantity /\ s[m].quantity <= quotes[s[m].venue].size
                   /\ \A m \in 1 .. Len(s), i \in 1 .. n :
                        Routes!EffectiveCost(quotes[i], size) < Routes!EffectiveCost(quotes[s[m].venue], size) =>
                            IF decision.fragmented THEN Exhausted(quotes, s, i) ELSE quotes[i].size < q
        <3>1. s \in Seq(SlicesOf(n)) /\ DOMAIN s = 1 .. Len(s) /\ Len(s) \in Nat
            BY <2>6
        <3>2. \A k \in DOMAIN s : s[k].venue \in DOMAIN quotes
            <4>1. ASSUME NEW k \in DOMAIN s
                  PROVE  s[k].venue \in 1 .. n
                <5>1. s[k] \in SlicesOf(n)
                    BY <3>1
                <5>2. QED BY <5>1 DEF SlicesOf
            <4>2. QED BY <1>1, <4>1
        <3>3. Routes!TypeOK
            BY <1>2, <2>2, <3>2 DEF Routes!TypeOK
        <3>4. Routes!Cardinality(Names) = Len(s)
            <4>1. PICK m \in Nat : m = Len(s)
                BY <3>1
            <4>2. PICK name : name = [k \in 1 .. m |-> s[k].venue]
                OBVIOUS
            <4>3. \A k, p \in 1 .. m : name[k] = name[p] => k = p
                BY <2>6, <4>1, <4>2
            <4>4. Cardinality(NamesOf(name, m)) = m
                BY <4>3, VenuesAreCounted
            <4>5. Names = NamesOf(name, m)
                BY <3>1, <4>1, <4>2 DEF NamesOf
            <4> HIDE DEF Names
            <4>6. QED BY <4>1, <4>4, <4>5, RoutesCardinality
        <3>5. \A k \in DOMAIN s, i \in DOMAIN quotes :
                Routes!EffectiveCost(quotes[i], size) < Routes!EffectiveCost(quotes[s[k].venue], size) =>
                    IF decision.fragmented
                    THEN quotes[i].size = 0 \/ \E m \in DOMAIN s : s[m].venue = i /\ s[m].quantity = quotes[i].size
                    ELSE quotes[i].size < decision.quantity
            BY <1>1, <2>5, <2>6, <3>1 DEF Exhausted
        <3>6. Routes!Quantity(s) = Routes!Min({decision.quantity, Shown})
            BY <2>5, <2>6
        <3>7. \A k \in DOMAIN s : 0 < s[k].quantity /\ s[k].quantity <= quotes[s[k].venue].size
            BY <2>6, <3>1
        <3>8. Routes!ExecutionIsBest
            BY <2>2, <3>4, <3>5, <3>6, <3>7 DEF Routes!ExecutionIsBest
        <3>9. QED BY <3>3, <3>8
    <2>7. CASE ~ whole
        <3>1. s = Routes!Fragments(quotes, q) /\ decision.fragmented = TRUE /\ size = 1
            BY <2>2, <2>5, <2>7
        <3>2. AreBestFragments(quotes, n, q, s)
            BY <1>1, <2>1, <3>1, FragmentsAre
        <3>3. QED BY <3>1, <3>2 DEF AreBestFragments
    <2>8. CASE whole
        <3>1. PICK i \in 1 .. n : quotes[i].size >= q
            BY <2>4, <2>8
        <3>2. PICK b : b = Routes!Best(quotes, q)
            OBVIOUS
        <3>3. s = <<Routes!Slice(quotes, b, q)>> /\ decision.fragmented = FALSE /\ size = q
            BY <2>2, <2>5, <2>8, <3>2
        <3>4. /\ s \in Seq(SlicesOf(n)) /\ Len(s) = 1 /\ s[1].venue = b /\ s[1].quantity = q
              /\ Routes!Quantity(s) = Routes!Min({q, Routes!SumFunction([k \in DOMAIN quotes |-> quotes[k].size])})
              /\ b \in 1 .. n /\ quotes[b].size >= q
              /\ \A k \in 1 .. n : quotes[k].size >= q =>
                    ~ (Routes!EffectiveCost(quotes[k], q) < Routes!EffectiveCost(quotes[b], q))
            <4>1. IsBestWhole(quotes, n, q, b, s)
                BY <1>1, <2>1, <3>1, <3>2, <3>3, WholeIsBest
            <4>2. QED BY <4>1 DEF IsBestWhole
        <3>5. \A m \in 1 .. Len(s) : m = 1
            BY <3>4
        <3>6. ASSUME NEW m \in 1 .. Len(s), NEW k \in 1 .. n,
                     Routes!EffectiveCost(quotes[k], size) < Routes!EffectiveCost(quotes[s[m].venue], size)
              PROVE  quotes[k].size < q
            <4>1. ~ (quotes[k].size >= q)
                BY <3>3, <3>4, <3>5, <3>6
            <4>2. quotes[k].size \in Nat
                BY <1>1, VenueIs DEF Quoted
            <4>3. QED BY <2>1, <4>1, <4>2
        <3>7. QED BY <2>1, <3>3, <3>4, <3>5, <3>6
    <2>9. QED BY <2>7, <2>8
<1>5. QED BY <1>3, <1>4 DEF RoutesInv

------------------------------------------------------------------------------
(* All of them *)

CasesInv ==
    /\ Inv
    /\ ClearingInv
    /\ TokensInv
    /\ CampaignInv
    /\ CorporateInv
    /\ PermissionsInv
    /\ ExitInv
    /\ CustodyInv
    /\ ReportsInv
    /\ RoutesInv

\* Whatever is at work, each case makes a step of its own or none.
LEMMA EveryDesk ==
    ASSUME [MarketsNext]_marketVars
    PROVE  /\ [Next]_vars
           /\ [Clearing!Next]_(Clearing!clearingVars)
           /\ [Tokens!Next]_(Tokens!tokenVars)
           /\ [Campaign!Next]_(Campaign!campaignVars)
           /\ [Corporate!Next]_(Corporate!actionVars)
           /\ [Permissions!Next]_(Permissions!consentVars)
           /\ [Exit!Next]_(Exit!exitVars)
           /\ [Custody!Next]_(Custody!custodyVars)
           /\ [Reports!Next]_(Reports!reportVars)
           /\ [Routes!Next]_(Routes!routingVars)
<1>1. CASE UNCHANGED marketVars
    BY <1>1 DEF marketVars, vars, Clearing!clearingVars, Tokens!tokenVars, Campaign!campaignVars,
                Corporate!actionVars, Permissions!consentVars, Exit!exitVars, Custody!custodyVars,
                Reports!reportVars, Routes!routingVars
<1>2. CASE MarketsNext
    <2>1. [Clearing!Next]_(Clearing!clearingVars)
        BY <1>2 DEF MarketsNext, Others, Clearing!clearingVars
    <2>2. [Tokens!Next]_(Tokens!tokenVars)
        BY <1>2 DEF MarketsNext, Others, Tokens!tokenVars
    <2>3. [Corporate!Next]_(Corporate!actionVars)
        BY <1>2 DEF MarketsNext, Others, Corporate!actionVars
    <2>4. [Permissions!Next]_(Permissions!consentVars)
        BY <1>2 DEF MarketsNext, Others, Permissions!consentVars
    <2>5. [Exit!Next]_(Exit!exitVars)
        BY <1>2 DEF MarketsNext, Others, Exit!exitVars
    <2>6. [Custody!Next]_(Custody!custodyVars)
        BY <1>2 DEF MarketsNext, Others, Custody!custodyVars
    <2>7. [Reports!Next]_(Reports!reportVars)
        BY <1>2 DEF MarketsNext, Others, Reports!reportVars
    <2>8. [Next]_vars
        BY <1>2 DEF MarketsNext, Others, vars
    <2>9. [Campaign!Next]_(Campaign!campaignVars)
        BY <1>2 DEF MarketsNext, Others, Campaign!campaignVars
    <2>10. [Routes!Next]_(Routes!routingVars)
        BY <1>2 DEF MarketsNext, Others, Routes!routingVars
    <2>11. QED BY <2>1, <2>2, <2>3, <2>4, <2>5, <2>6, <2>7, <2>8, <2>9, <2>10
<1>3. QED BY <1>1, <1>2

LEMMA CasesInvariant == MarketsSpec => []CasesInv
<1>1. MarketsInit => CasesInv
    BY InitInv, ClearingInit, TokensInit, CampaignInit, CorporateInit, PermissionsInit, ExitInit,
       CustodyInit, ReportsInit, RoutesInit
    DEF MarketsInit, CasesInv
<1>2. CasesInv /\ [MarketsNext]_marketVars => CasesInv'
    BY EveryDesk, NextInv, ClearingNext, TokensNext, CampaignNext, CorporateNext, PermissionsNext, ExitNext,
       CustodyNext, ReportsNext, RoutesNext
    DEF CasesInv
<1>3. QED BY <1>1, <1>2, PTL DEF MarketsSpec

\* The state of every case keeps its types, whatever is called (Markets).
THEOREM CasesKeepTheirTypes == MarketsSpec => []CasesTypeOK
<1>1. CasesInv => CasesTypeOK
    <2>1. PermissionsInv => Permissions!TypeOK
        BY DEF PermissionsInv, Permission, Permissions!TypeOK
    <2>2. QED
        BY <2>1, InvImplies, ClearingIsSound, TokensAreBacked, CampaignIsFair, CorporateIsSound, ExitIsComplete,
           CustodyIsCovered, ReportsShow, RouteIsBest
        DEF CasesInv, CasesTypeOK, AtWork
<1>2. QED BY <1>1, CasesInvariant, PTL

\* Settling is what netting says and overdraws nobody, the units in circulation are
\* backed, a split makes nobody richer (settle, issue and transfer, apply).
THEOREM NothingComesFromNothing == MarketsSpec => []NothingFromNothing
<1>1. CasesInv => NothingFromNothing
    BY ClearingIsSound, TokensAreBacked, CorporateIsSound DEF CasesInv, NothingFromNothing, AtWork
<1>2. QED BY <1>1, CasesInvariant, PTL

\* A revoked or expired consent serves nothing, and frozen or restricted units do not
\* move to where they may not be (serve; transfer).
THEOREM RightsStayKept == MarketsSpec => RightsAreKept
<1>1. CasesInv /\ [MarketsNext]_marketVars =>
        [answer'.kind = "served" =>
            /\ answer'.consent \notin withdrawn
            /\ answer'.scope \in consents[answer'.consent].scopes
            /\ today < consents[answer'.consent].expires]_answer
    BY EveryDesk, ServesWhatIsStanding DEF CasesInv
<1>2. CasesInv /\ [MarketsNext]_marketVars =>
        [\A h \in Holders :
            /\ h \in frozen => balances'[h] >= balances[h]
            /\ Restricted /\ h \notin Qualified /\ issued' = issued => balances'[h] <= balances[h]]_balances
    BY EveryDesk, UnitsMoveAsAllowed DEF CasesInv
<1>3. QED
    BY <1>1, <1>2, CasesInvariant, PTL
    DEF MarketsSpec, RightsAreKept, Permissions!RevocationIsFinal, Tokens!TransfersRespectRestrictions

\* What has to be shared out is shared out whole: a campaign in proportion or in order of
\* arrival, as published, and the cash of a platform that closes (close, wind_down).
THEOREM EveryShareIsFair == MarketsSpec => []SharesAreFair
<1>1. CasesInv => SharesAreFair
    BY CampaignIsFair, ExitIsFair DEF CasesInv, SharesAreFair, AtWork
<1>2. QED BY <1>1, CasesInvariant, PTL

\* What a case answers is what its books say: reconciled, complete, entitled on the record day,
\* executed where it was best (reconcile, wind_down, apply, route).  verify_chain tells the
\* versions of a report whose sections were changed, all of them and no other; operations,
\* totals and links are not in the digest, and their changes are not told.
THEOREM EveryVerdictIsRight == MarketsSpec => []VerdictsAreRight
<1>1. CasesInv => VerdictsAreRight
    BY CustodyIsCovered, ExitIsComplete, ReportsShow, CorporateIsSound, RouteIsBest
    DEF CasesInv, VerdictsAreRight, AtWork
<1>2. QED BY <1>1, CasesInvariant, PTL

\* The net obligations of any set of trades cancel out, in cash and in units (net).
THEOREM NettingLosesNothing == \A T \in SUBSET ClearedTrades : Clearing!NetsToZero(T)
BY NettingIsZero
================================================================================
