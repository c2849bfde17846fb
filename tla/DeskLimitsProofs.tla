----------------------------- MODULE DeskLimitsProofs -----------------------------
(***************************************************************************)
(* The proofs of what bounds a loss: the reviews, the floors, the gate of  *)
(* the news and the identity of the account. As in DeskProofs, each        *)
(* section proves a component from its specification, for every value of   *)
(* its constants, and the last one the theorem of the desk.                *)
(***************************************************************************)
EXTENDS Desk, Sequences, FiniteSetTheorems, WellFoundedInduction, TLAPS

-----------------------------------------------------------------------------
(* What the Risk Engine lets an account lose (services/risk.py).           *)

(* The account as its limits are stated: no gain above the initial capital, and no review while an *)
(* approved trade is not yet seen.                                                                 *)
WithinCapital == Ceiling = Capital /\ FloatUp = 0 /\ ~Overlap
RiskAssumptions == K!CapitalAssumption /\ K!LimitsAssumption /\ K!CeilingsAssumption /\ K!GridAssumption /\ WithinCapital

-----------------------------------------------------------------------------
(* A quotient, times its divisor, is at most what was divided.                *)
LEMMA QuotientFits ==
    ASSUME NEW n \in Nat, NEW d \in Nat \ {0}
    PROVE  n \div d \in Nat /\ (n \div d) * d <= n /\ n < (n \div d + 1) * d
OBVIOUS

(* A product grows with each of its factors.                                 *)
LEMMA ProductsGrow ==
    ASSUME NEW n \in Nat, NEW x \in Nat, NEW y \in Nat, x <= y
    PROVE  n * x <= n * y
OBVIOUS

(* Min of a set of naturals is one of them, and at most each.                 *)
LEMMA MinIsLeast ==
    ASSUME NEW S \in SUBSET Nat, S # {}
    PROVE  K!Min(S) \in S /\ \A n \in S : K!Min(S) <= n
<1> DEFINE Smaller == {p \in Nat \X Nat : p[1] < p[2]}
<1>1. IsWellFoundedOn(Smaller, Nat)
  BY NatLessThanWellFounded DEF OpToRel
<1>2. \E m \in S : \A n \in S : <<n, m>> \notin Smaller
  BY <1>1, WFMin
<1>3. PICK m \in S : \A n \in S : <<n, m>> \notin Smaller
  BY <1>2
<1>4. ASSUME NEW n \in S PROVE m <= n
  <2>1. <<n, m>> \in Nat \X Nat /\ ~(n < m)
    BY <1>3, Zenon
  <2> QED  BY <2>1
<1> QED  BY <1>3, <1>4 DEF K!Min

-----------------------------------------------------------------------------
(* Sizing never risks more units than it was given, of an account that is not above its capital. *)
LEMMA SizedFits ==
    ASSUME RiskAssumptions, K!RiskTypeOK, K!Equity > 0, NEW units \in Nat
    PROVE  K!Sized(units) \in Nat /\ K!Sized(units) <= units
<1> DEFINE m == K!Least(balance, K!Equity)
           q == (units * m) \div Capital
<1>1. m \in Nat /\ m <= Capital
  BY DEF RiskAssumptions, WithinCapital, K!CapitalAssumption, K!RiskTypeOK, K!Equity, K!Least
<1>2. Capital \in Nat \ {0} /\ Step \in Nat \ {0}
  BY DEF RiskAssumptions, K!CapitalAssumption
<1> HIDE DEF m
<1>3. units * m <= units * Capital /\ units * m \in Nat
  BY <1>1, <1>2, ProductsGrow
<1>4. q \in Nat /\ q * Capital <= units * m
  BY <1>2, <1>3, QuotientFits
<1>5. q <= units
  BY <1>2, <1>3, <1>4
<1> HIDE DEF q
<1>6. (q \div Step) * Step \in Nat /\ (q \div Step) * Step <= q
  BY <1>2, <1>4, QuotientFits
<1> QED  BY <1>5, <1>6, <1>4 DEF K!Sized, m, q

(* What is open, as a percentage of a balance that is not above the capital, is not less than it is. *)
LEMMA OpenCountsInFull ==
    ASSUME RiskAssumptions, K!RiskTypeOK, balance > 0
    PROVE  K!OpenPercent \in Nat /\ risked <= K!OpenPercent
<1> DEFINE n == 2 * risked * Capital + balance
           d == 2 * balance
<1>1. Capital \in Nat \ {0} /\ balance \in Nat /\ balance <= Capital /\ risked \in Nat
  BY DEF RiskAssumptions, WithinCapital, K!CapitalAssumption, K!RiskTypeOK
<1>2. 2 * risked \in Nat /\ (2 * risked) * balance <= (2 * risked) * Capital /\ (2 * risked) * Capital \in Nat
  BY <1>1, ProductsGrow
<1>3. n \in Nat /\ d \in Nat \ {0} /\ risked * d <= n
  BY <1>1, <1>2
<1> HIDE DEF n, d
<1>4. n \div d \in Nat /\ n < (n \div d + 1) * d
  BY <1>3, QuotientFits
<1>5. risked <= n \div d
  BY <1>1, <1>3, <1>4
<1> QED  BY <1>4, <1>5 DEF K!OpenPercent, n, d

(* No equity, no trade.                                                      *)
LEMMA NothingSized ==
    ASSUME RiskAssumptions, K!RiskTypeOK
    PROVE  K!Sized(0) = 0
<1>1. K!Least(balance, K!Equity) \in Int /\ Capital \in Nat \ {0} /\ Step \in Nat \ {0}
  BY DEF RiskAssumptions, K!CapitalAssumption, K!RiskTypeOK, K!Equity, K!Least
<1>2. 0 * K!Least(balance, K!Equity) = 0 /\ 0 \div Capital = 0 /\ 0 \div Step = 0
  BY <1>1
<1> QED  BY <1>1, <1>2 DEF K!Sized

(* Every cap of a trade is a number of units.                                *)
LEMMA CapsAreUnits ==
    ASSUME RiskAssumptions, K!RiskTypeOK, balance > 0, NEW facts
    PROVE  K!Caps(facts) \subseteq Nat
<1>1. K!OpenPercent \in Nat
  BY OpenCountsInFull
<1>2. \A limit \in Nat, used \in Int : K!Left(limit, used) \in Nat
  BY <1>1 DEF K!Left, K!AtLeastZero
<1>3. \A start \in Int : K!LossSince(start, facts) \in Nat
  BY DEF K!LossSince, K!AtLeastZero, K!Equity, K!RiskTypeOK
<1>4. K!AtLeastZero(Capital - K!Equity) \in Nat
  BY DEF K!AtLeastZero, K!Equity, K!RiskTypeOK, RiskAssumptions, K!CapitalAssumption
<1>5. K!PersonalBudgets(facts) \subseteq Nat
  <2>1. dayStart \in Int /\ weekStart \in Int /\ {Daily, Weekly, Total} \subseteq Nat
    BY DEF K!RiskTypeOK, RiskAssumptions, K!LimitsAssumption
  <2>2. K!LossSince(dayStart, facts) \in Int /\ K!LossSince(weekStart, facts) \in Int /\ K!AtLeastZero(Capital - K!Equity) \in Int
    BY <1>3, <1>4, <2>1
  <2> QED  BY <1>2, <2>1, <2>2 DEF K!PersonalBudgets
<1>6. K!ProviderBudgets \subseteq Nat
  <2>1. midnight - K!Equity \in Int /\ K!MaxReference - K!Equity \in Int
    BY DEF K!MaxReference, K!Equity, K!RiskTypeOK, RiskAssumptions, K!CapitalAssumption
  <2> QED  BY <1>2, <2>1 DEF K!ProviderBudgets, RiskAssumptions, K!LimitsAssumption
<1>7. K!Level \in Lowest..Highest
  <2>1. K!Percent(K!Equity - Capital) \in Int
    <3>1. K!Equity - Capital \in Int /\ Capital \in Nat \ {0}
      BY DEF K!Equity, K!RiskTypeOK, RiskAssumptions, K!CapitalAssumption
    <3> QED  BY <3>1 DEF K!Percent
  <2> QED  BY <2>1 DEF K!Level, K!Least, RiskAssumptions, K!GridAssumption
<1>8. Grid[K!Level] \in Nat
  BY <1>7 DEF RiskAssumptions, K!GridAssumption
<1>9. K!TriggerCaps \subseteq Nat /\ K!N8Caps(facts) \subseteq Nat /\ PerTrade \in Nat
  BY DEF K!TriggerCaps, K!N8Caps, RiskAssumptions, K!LimitsAssumption
<1> QED  BY <1>5, <1>6, <1>8, <1>9 DEF K!Caps

(* What may be risked, with what is open, fits in what each limit leaves.     *)
Fits(units, limit, used) == units + risked <= limit - used
LEMMA AllowanceFits ==
    ASSUME RiskAssumptions, K!RiskTypeOK, NEW facts, facts \cap K!Unread = {}, K!Equity > 0, K!Allowance(facts) # 0
    PROVE  /\ K!Allowance(facts) \in Nat
           /\ Fits(K!Allowance(facts), Daily, dayStart - K!Equity) /\ Fits(K!Allowance(facts), Daily, 0)
           /\ Fits(K!Allowance(facts), Weekly, weekStart - K!Equity) /\ Fits(K!Allowance(facts), Weekly, 0)
           /\ Fits(K!Allowance(facts), Total, Capital - K!Equity) /\ Fits(K!Allowance(facts), Total, 0)
           /\ Fits(K!Allowance(facts), ProviderDaily, midnight - K!Equity)
           /\ Fits(K!Allowance(facts), ProviderMax, K!MaxReference - K!Equity)
<1> DEFINE units == K!Allowance(facts)
<1>1. balance > 0 /\ balance \in Int /\ K!Equity \in Int /\ risked \in Nat
  BY DEF K!RiskTypeOK, K!Equity, RiskAssumptions, WithinCapital
<1>2. K!Caps(facts) \subseteq Nat /\ PerTrade \in K!Caps(facts)
  BY <1>1, CapsAreUnits DEF K!Caps
<1>3. units = K!Min(K!Caps(facts))
  BY DEF K!Allowance
<1>4. units \in Nat /\ \A cap \in K!Caps(facts) : units <= cap
  BY <1>2, <1>3, MinIsLeast
<1>5. K!OpenPercent \in Nat /\ risked <= K!OpenPercent
  BY <1>1, OpenCountsInFull
<1> HIDE DEF units
<1>6. ASSUME NEW limit \in Nat, NEW used \in Int, K!Left(limit, used) \in K!Caps(facts) PROVE Fits(units, limit, used)
  <2>1. units # 0
    BY DEF units
  <2>2. units <= K!AtLeastZero(limit - used - K!OpenPercent)
    BY <1>4, <1>6 DEF K!Left
  <2> QED  BY <1>1, <1>4, <1>5, <2>1, <2>2 DEF K!AtLeastZero, Fits
<1>7. \A start \in Int : K!LossSince(start, facts) \in Nat /\ K!LossSince(start, facts) >= start - K!Equity
  BY <1>1 DEF K!LossSince, K!AtLeastZero
<1>8. K!AtLeastZero(Capital - K!Equity) \in Nat /\ K!AtLeastZero(Capital - K!Equity) >= Capital - K!Equity
  BY <1>1 DEF K!AtLeastZero, RiskAssumptions, K!CapitalAssumption
<1>9. /\ Fits(units, Daily, K!LossSince(dayStart, facts)) /\ Fits(units, Weekly, K!LossSince(weekStart, facts))
      /\ Fits(units, Total, K!AtLeastZero(Capital - K!Equity))
  <2>1. K!PersonalBudgets(facts) \subseteq K!Caps(facts)
    BY DEF K!Caps
  <2> QED  BY <1>6, <1>7, <1>8, <2>1 DEF K!PersonalBudgets, RiskAssumptions, K!LimitsAssumption, K!RiskTypeOK
<1>10. Fits(units, ProviderDaily, midnight - K!Equity) /\ Fits(units, ProviderMax, K!MaxReference - K!Equity)
  <2>1. K!ProviderBudgets \subseteq K!Caps(facts)
    BY DEF K!Caps
  <2>2. midnight - K!Equity \in Int /\ K!MaxReference - K!Equity \in Int
    BY <1>1 DEF K!MaxReference, K!RiskTypeOK, RiskAssumptions, K!CapitalAssumption
  <2> QED  BY <1>6, <2>1, <2>2 DEF K!ProviderBudgets, RiskAssumptions, K!LimitsAssumption
<1>11. /\ Fits(units, Daily, dayStart - K!Equity) /\ Fits(units, Daily, 0)
       /\ Fits(units, Weekly, weekStart - K!Equity) /\ Fits(units, Weekly, 0)
       /\ Fits(units, Total, Capital - K!Equity) /\ Fits(units, Total, 0)
  <2>1. dayStart \in Int /\ weekStart \in Int /\ Capital \in Int /\ Daily \in Nat /\ Weekly \in Nat /\ Total \in Nat
    BY DEF K!RiskTypeOK, RiskAssumptions, K!CapitalAssumption, K!LimitsAssumption
  <2> QED  BY <1>1, <1>4, <1>7, <1>8, <1>9, <2>1 DEF Fits
<1> QED  BY <1>4, <1>10, <1>11 DEF units

-----------------------------------------------------------------------------
(* The inductive invariant: what is committed is within each limit by itself too, since a new day, *)
(* or a new week, measures from where the account then stands.                                     *)
Committed == risked + unseen
RiskInv ==
    /\ K!RiskTypeOK
    /\ K!LimitsHold
    /\ Committed <= Daily /\ Committed <= Weekly /\ Committed <= Total
(* The constants, as the numbers the steps reason with.                       *)
LEMMA Amounts ==
    ASSUME RiskAssumptions
    PROVE  /\ Capital \in Nat /\ Daily \in Nat /\ Weekly \in Nat /\ Total \in Nat
           /\ ProviderDaily \in Nat /\ ProviderMax \in Nat
           /\ Daily <= ProviderDaily /\ Total <= ProviderMax
           /\ Ceiling = Capital /\ FloatUp = 0
BY DEF RiskAssumptions, K!CapitalAssumption, K!LimitsAssumption, K!CeilingsAssumption, WithinCapital

(* Nothing is open at first, and the limits are not negative.                *)
LEMMA InitialRisk ==
    ASSUME RiskAssumptions, K!Init
    PROVE  RiskInv
<1>1. K!RiskTypeOK
  <2>1. -risked <= floating
    BY DEF K!Init
  <2>2. lastLost \in BOOLEAN
    BY DEF K!Init
  <2> QED  BY <2>1, <2>2, Amounts DEF K!Init, K!RiskTypeOK
<1>2. K!LimitsHold
  <2>1. K!MaxReference = Capital /\ K!Worst = Capital
    BY Amounts DEF K!Init, K!MaxReference, K!Worst
  <2> QED  BY <2>1, Amounts DEF K!Init, K!LimitsHold
<1> QED  BY <1>1, <1>2, Amounts DEF K!Init, RiskInv, Committed

(* A refusal for what could not be read comes before any sizing.              *)
LEMMA ApprovedOnWhatWasRead ==
    ASSUME NEW facts, K!Refusals(facts) = {}
    PROVE  facts \cap K!Unread = {}
BY DEF K!Refusals, K!Problems, K!Unread

(* An approval commits at most what its smallest cap leaves: of the day, the week and the account. *)
LEMMA ApprovesKeeps ==
    ASSUME RiskAssumptions, RiskInv, NEW facts, K!Approves(facts)
    PROVE  RiskInv'
<1> DEFINE units == K!Allowance(facts)
           risk == K!Sized(units)
<1>1. facts \cap K!Unread = {} /\ risk > 0 /\ unseen = 0 /\ unseen' = unseen + risk
      /\ UNCHANGED <<balance, floating, risked, dayStart, weekStart, midnight, highest, lastLost>>
  <2>1. K!Refusals(facts) = {} /\ unseen = 0
    BY DEF K!Approves, RiskAssumptions, WithinCapital
  <2> QED  BY <2>1, ApprovedOnWhatWasRead DEF K!Approves, K!anchors
<1>2. K!RiskTypeOK
  BY DEF RiskInv
<1>3. units # 0
  BY <1>1, <1>2, NothingSized
<1>4. K!Equity > 0
  BY <1>3 DEF K!Allowance
<1>5. /\ units \in Nat
      /\ Fits(units, Daily, dayStart - K!Equity) /\ Fits(units, Daily, 0)
      /\ Fits(units, Weekly, weekStart - K!Equity) /\ Fits(units, Weekly, 0)
      /\ Fits(units, Total, Capital - K!Equity) /\ Fits(units, Total, 0)
      /\ Fits(units, ProviderDaily, midnight - K!Equity) /\ Fits(units, ProviderMax, K!MaxReference - K!Equity)
  BY <1>1, <1>2, <1>3, <1>4, AllowanceFits
<1>6. risk \in Nat /\ risk <= units
  BY <1>2, <1>4, <1>5, SizedFits
<1> HIDE DEF units, risk
<1>7. K!RiskTypeOK'
  BY <1>1, <1>2, <1>6 DEF K!RiskTypeOK
<1>8. K!MaxReference' = K!MaxReference /\ K!MaxReference \in Int
  BY <1>1, <1>2 DEF K!MaxReference, K!RiskTypeOK, RiskAssumptions, K!CapitalAssumption
<1>9. /\ balance \in Int /\ floating \in Int /\ risked \in Nat /\ floating <= 0
      /\ dayStart \in Int /\ weekStart \in Int /\ midnight \in Int
  BY <1>2, Amounts DEF K!RiskTypeOK
<1>10. K!LimitsHold'
  BY <1>1, <1>5, <1>6, <1>8, <1>9, Amounts DEF K!LimitsHold, K!Worst, Fits, K!Equity
<1>11. (Committed <= Daily /\ Committed <= Weekly /\ Committed <= Total)'
  BY <1>1, <1>5, <1>6, <1>9, Amounts DEF Committed, Fits
<1> QED  BY <1>7, <1>10, <1>11 DEF RiskInv

(* The other steps commit nothing more.                                       *)
LEMMA FillsKeep ==
    ASSUME RiskAssumptions, RiskInv, K!Fills \/ K!NeverFills \/ K!PricesMove
    PROVE  RiskInv'
<1>1. K!RiskTypeOK
  BY DEF RiskInv
<1>2. /\ risked' \in Nat /\ unseen' \in Nat
      /\ UNCHANGED <<balance, dayStart, weekStart, midnight, highest>>
  BY <1>1 DEF K!Fills, K!NeverFills, K!PricesMove, K!RiskTypeOK, K!anchors
<1>3. floating' \in Int /\ -risked' <= floating' /\ floating' <= FloatUp
  BY <1>1, Amounts DEF K!Fills, K!NeverFills, K!PricesMove, K!RiskTypeOK
<1>4. K!RiskTypeOK'
  <2>1. UNCHANGED lastLost
    BY DEF K!Fills, K!NeverFills, K!PricesMove
  <2> QED  BY <1>1, <1>2, <1>3, <2>1 DEF K!RiskTypeOK
<1>5. K!MaxReference' = K!MaxReference /\ K!MaxReference \in Int
  BY <1>1, <1>2, Amounts DEF K!MaxReference, K!RiskTypeOK
<1>6. /\ K!Worst' \in Int /\ K!Worst \in Int /\ K!Worst' >= K!Worst
      /\ Committed' \in Int /\ Committed \in Int /\ Committed' <= Committed
  <2>1. risked \in Nat /\ unseen \in Nat /\ balance \in Int
    BY <1>1 DEF K!RiskTypeOK
  <2>2. CASE K!Fills
    BY <2>1, <2>2 DEF K!Fills, K!Worst, Committed
  <2>3. CASE K!NeverFills
    BY <2>1, <2>3 DEF K!NeverFills, K!Worst, Committed
  <2>4. CASE K!PricesMove
    BY <2>1, <2>4 DEF K!PricesMove, K!Worst, Committed
  <2> QED  BY <2>2, <2>3, <2>4
<1>7. K!LimitsHold'
  BY <1>1, <1>2, <1>5, <1>6, Amounts DEF RiskInv, K!RiskTypeOK, K!LimitsHold
<1>8. (Committed <= Daily /\ Committed <= Weekly /\ Committed <= Total)'
  BY <1>6, Amounts DEF RiskInv
<1> QED  BY <1>4, <1>7, <1>8 DEF RiskInv

(* A loss moves from what is open to what is lost; the sum does not grow.     *)
LEMMA ClosesKeeps ==
    ASSUME RiskAssumptions, RiskInv, NEW risk \in 1..risked, NEW result \in (-risk)..(Ceiling - balance), K!Closes(risk, result)
    PROVE  RiskInv'
<1>1. K!RiskTypeOK
  BY DEF RiskInv
<1>2. risk \in Int /\ result \in Int /\ 1 <= risk /\ risk <= risked /\ -risk <= result
  BY <1>1, Amounts DEF K!RiskTypeOK
<1>3. /\ risked' = risked - risk /\ risked' \in Nat /\ unseen' = unseen
      /\ balance' = balance + result /\ balance' \in Int /\ balance' <= Ceiling
      /\ UNCHANGED <<dayStart, weekStart, midnight, highest>>
  BY <1>1, <1>2 DEF K!Closes, K!RiskTypeOK, K!anchors
<1>4. floating' \in Int /\ -risked' <= floating' /\ floating' <= FloatUp
  BY <1>1, <1>2, Amounts DEF K!Closes, K!RiskTypeOK
<1>5. lastLost' \in BOOLEAN
  <2>1. lastLost' \in {lastLost, result < 0}
    BY DEF K!Closes
  <2>2. (result < 0) \in BOOLEAN
    OBVIOUS
  <2> QED  BY <1>1, <2>1, <2>2, Zenon DEF K!RiskTypeOK
<1>6. K!RiskTypeOK'
  BY <1>1, <1>3, <1>4, <1>5 DEF K!RiskTypeOK
<1>7. K!MaxReference' = K!MaxReference /\ K!MaxReference \in Int
  BY <1>1, <1>3, Amounts DEF K!MaxReference, K!RiskTypeOK
<1>8. K!Worst' \in Int /\ K!Worst \in Int /\ K!Worst' >= K!Worst
  BY <1>1, <1>2, <1>3 DEF K!Worst, K!RiskTypeOK
<1>9. K!LimitsHold'
  BY <1>1, <1>3, <1>7, <1>8, Amounts DEF RiskInv, K!RiskTypeOK, K!LimitsHold
<1>10. (Committed <= Daily /\ Committed <= Weekly /\ Committed <= Total)'
  <2>1. Committed \in Int /\ Committed' \in Int /\ Committed' <= Committed
    BY <1>1, <1>2, <1>3 DEF Committed, K!RiskTypeOK
  <2> QED  BY <2>1, Amounts DEF RiskInv
<1> QED  BY <1>6, <1>9, <1>10 DEF RiskInv

(* A new day measures from where the account stands: what is committed must itself fit a day's limit. *)
LEMMA DaysKeep ==
    ASSUME RiskAssumptions, RiskInv, K!DayBegins \/ K!WeekBegins
    PROVE  RiskInv'
<1>1. /\ UNCHANGED <<balance, floating, risked, unseen, lastLost>>
      /\ dayStart' \in {dayStart, K!Equity} /\ weekStart' \in {weekStart, K!Equity}
      /\ midnight' \in {midnight, balance} /\ highest' \in {highest, balance}
  BY DEF K!DayBegins, K!WeekBegins
<1>2. K!Equity \in Int /\ K!Equity <= balance
  BY DEF K!Equity, RiskInv, K!RiskTypeOK, RiskAssumptions, WithinCapital
<1>3. K!RiskTypeOK'
  BY <1>1, <1>2 DEF RiskInv, K!RiskTypeOK
<1>4. K!MaxReference' \in {K!MaxReference, balance}
  BY <1>1 DEF K!MaxReference
<1>5. K!MaxReference \in Int
  BY DEF K!MaxReference, RiskInv, K!RiskTypeOK, RiskAssumptions, K!CapitalAssumption
<1>6. K!LimitsHold'
  BY <1>1, <1>2, <1>4, <1>5, Amounts DEF RiskInv, K!RiskTypeOK, K!LimitsHold, K!Worst, Committed
<1>7. (Committed <= Daily /\ Committed <= Weekly /\ Committed <= Total)'
  BY <1>1 DEF RiskInv, Committed
<1> QED  BY <1>3, <1>6, <1>7 DEF RiskInv

(* Every step, by the lemma of its action.                                    *)
LEMMA RiskStep ==
    ASSUME RiskAssumptions, RiskInv, [K!Next]_(K!vars)
    PROVE  RiskInv'
<1>1. ASSUME NEW facts \in SUBSET Facts, K!Approves(facts) PROVE RiskInv'
  BY <1>1, ApprovesKeeps
<1>2. CASE K!Fills \/ K!NeverFills \/ K!PricesMove
  BY <1>2, FillsKeep
<1>3. ASSUME NEW risk \in 1..risked, NEW result \in (-risk)..(Ceiling - balance), K!Closes(risk, result) PROVE RiskInv'
  BY <1>3, ClosesKeeps
<1>4. CASE K!DayBegins \/ K!WeekBegins
  BY <1>4, DaysKeep
<1>5. CASE UNCHANGED K!vars
  BY <1>5 DEF K!vars, K!anchors, RiskInv, K!RiskTypeOK, K!LimitsHold, K!Worst, K!MaxReference, Committed
<1> QED  BY <1>1, <1>2, <1>3, <1>4, <1>5 DEF K!Next

(* Hitting every stop leaves the day, the week, the account and the provider's floors within their *)
(* limits, after any sequence of approvals, losses, midnights and unreadable facts (risk_allowance, *)
LEMMA RiskIsSafe ==
    ASSUME RiskAssumptions
    PROVE  K!Spec => [](K!RiskTypeOK /\ K!LimitsHold)
<1>1. K!Init => RiskInv
  BY InitialRisk
<1>2. RiskInv /\ [K!Next]_(K!vars) => RiskInv'
  BY RiskStep
<1>3. RiskInv => K!RiskTypeOK /\ K!LimitsHold
  BY DEF RiskInv
<1> QED  BY <1>1, <1>2, <1>3, PTL DEF K!Spec

-----------------------------------------------------------------------------
(* The provider's floors (services/providers.py, loss_floors.py).          *)

(* The provider's floors (services/providers.py, loss_floors.py).                                   *)
(* No deal is made within two minutes of a midnight, and a snapshot shows every deal made before it. *)
DealsAreSeen == ~F!Fault("quick") /\ ~F!Fault("lag")

Tables == UNION {[D -> Int] : D \in SUBSET F!Days}
ReaderRecords ==
    [pc : {"idle", "today", "past", "answered"}, now : F!Days \cup {F!NoDay}, early : BOOLEAN, seen : 0..MaxDeals,
     references : Tables, first : F!Days \cup {F!NoDay}, complete : BOOLEAN]
CacheRecords == [day : F!Days \cup {F!NoDay}, references : Tables, complete : BOOLEAN, first : F!Days \cup {F!NoDay}]

(* What a table says of a day that has begun is that day's midnight.                                *)
TrueTable(table) == DOMAIN table \subseteq 0..day /\ \A d \in DOMAIN table : table[d] = F!MidnightBalance(d)
WholeUntil(table, d) == 0..d \subseteq DOMAIN table

FloorsTyped ==
    /\ deals \in 0..MaxDeals /\ day \in F!Days /\ early \in BOOLEAN /\ snapshot = deals
    /\ cut \in [0..day -> 0..deals]
    /\ stored \in Tables /\ cache \in CacheRecords /\ reader \in [Readers -> ReaderRecords]
(* The midnights, in their order: the account began before its first deal.                           *)
MidnightsInOrder ==
    /\ cut[0] = 0
    /\ \A d, e \in 0..day : d <= e => cut[d] <= cut[e]
    /\ early => deals = cut[day]
CacheIsTrue ==
    /\ TrueTable(cache.references)
    /\ cache.day # F!NoDay => cache.day \in 0..day /\ (cache.complete => WholeUntil(cache.references, cache.day))
(* A reader's balance was read after the midnight it looks for; at once after it, when the day was early. *)
ReaderIsTrue(t) ==
    /\ TrueTable(reader[t].references)
    /\ reader[t].pc \in {"today", "past"} =>
          /\ reader[t].now \in 0..day /\ cut[reader[t].now] <= reader[t].seen /\ reader[t].seen <= deals
          /\ reader[t].early => reader[t].seen = cut[reader[t].now]
    /\ reader[t].pc = "answered" =>
          reader[t].now \in 0..day /\ (reader[t].complete => WholeUntil(reader[t].references, reader[t].now))
FloorsInv ==
    /\ FloorsTyped /\ MidnightsInOrder /\ TrueTable(stored) /\ CacheIsTrue
    /\ \A t \in Readers : ReaderIsTrue(t)

-----------------------------------------------------------------------------
(* A table is a function on some days.                                       *)
LEMMA TableOfDays ==
    ASSUME NEW table \in Tables
    PROVE  DOMAIN table \subseteq F!Days /\ table \in [DOMAIN table -> Int] /\ \A d \in DOMAIN table : table[d] \in Int
BY DEF Tables

LEMMA TableIs ==
    ASSUME NEW D \in SUBSET F!Days, NEW table \in [D -> Int]
    PROVE  table \in Tables
BY DEF Tables

LEMMA EmptyTable == F!NoReferences \in Tables /\ DOMAIN F!NoReferences = {}
<1>1. F!NoReferences \in [{} -> Int] /\ DOMAIN F!NoReferences = {}
  BY DEF F!NoReferences
<1> QED  BY <1>1, TableIs DEF F!Days

(* The midnights never move: what was true of them before a step is true after it.                  *)
Steady == day <= day' /\ \A d \in 0..day : d \in 0..day' /\ cut'[d] = cut[d]
LEMMA TableStaysTrue ==
    ASSUME F!BalanceAssumption, FloorsTyped, Steady, NEW table, TrueTable(table)
    PROVE  TrueTable(table)'
BY DEF TrueTable, F!MidnightBalance, Steady, FloorsTyped

(* With no deal and no midnight, nothing that is true of a table or of a reader changes.             *)
LEMMA WorldStays ==
    ASSUME F!BalanceAssumption, FloorsInv, UNCHANGED F!world
    PROVE  /\ Steady
           /\ (deals \in 0..MaxDeals /\ day \in F!Days /\ early \in BOOLEAN /\ snapshot = deals)'
           /\ (cut \in [0..day -> 0..deals])' /\ MidnightsInOrder'
           /\ \A table : TrueTable(table)' <=> TrueTable(table)
BY DEF F!world, FloorsInv, FloorsTyped, MidnightsInOrder, Steady, TrueTable, F!MidnightBalance, F!Days

(* A step that keeps the world and every reader but one.                     *)
LEMMA OneReaderMoves ==
    ASSUME F!BalanceAssumption, FloorsInv, UNCHANGED F!world, NEW t \in Readers,
           reader'[t] \in ReaderRecords, reader' = [reader EXCEPT ![t] = reader'[t]], ReaderIsTrue(t)',
           stored' \in Tables, TrueTable(stored'), cache' \in CacheRecords, CacheIsTrue'
    PROVE  FloorsInv'
<1>1. Steady /\ \A table : TrueTable(table)' <=> TrueTable(table)
  BY WorldStays
<1>2. FloorsTyped'
  BY WorldStays DEF FloorsInv, FloorsTyped
<1>3. ASSUME NEW u \in Readers PROVE ReaderIsTrue(u)'
  <2>1. CASE u = t
    BY <2>1
  <2>2. CASE u # t
    <3>1. reader'[u] = reader[u] /\ ReaderIsTrue(u)
      BY <2>2 DEF FloorsInv, FloorsTyped
    <3>2. TrueTable(reader[u].references)'
      BY <3>1, <1>1 DEF ReaderIsTrue
    <3> QED  BY <3>1, <1>1, <3>2 DEF ReaderIsTrue, F!world, WholeUntil, TrueTable, F!MidnightBalance
  <2> QED  BY <2>1, <2>2
<1>4. TrueTable(stored)'
  BY <1>1 DEF TrueTable, F!MidnightBalance, F!world
<1> QED  BY <1>2, <1>3, <1>4, WorldStays DEF FloorsInv

(* A table with one more day.                                                *)
LEMMA PutIsATable ==
    ASSUME NEW table \in Tables, NEW d \in F!Days, NEW b \in Int
    PROVE  /\ F!Put(table, d, b) \in Tables
           /\ DOMAIN F!Put(table, d, b) = DOMAIN table \cup {d} /\ F!Put(table, d, b)[d] = b
           /\ \A e \in DOMAIN table : e # d => F!Put(table, d, b)[e] = table[e]
<1>1. F!Put(table, d, b) \in [DOMAIN table \cup {d} -> Int] /\ DOMAIN table \cup {d} \in SUBSET F!Days
  BY TableOfDays DEF F!Put
<1>2. F!Put(table, d, b) \in Tables
  BY <1>1, TableIs
<1> QED  BY <1>2 DEF F!Put

(* balance_at: what is left of a balance that was read after a midnight is that midnight's.         *)
LEMMA BalanceAtIsTheMidnight ==
    ASSUME F!BalanceAssumption, FloorsTyped, NEW d \in 0..day, NEW seen \in 0..deals, cut[d] <= seen
    PROVE  F!BalanceAt(d, seen) = F!MidnightBalance(d) /\ F!MidnightBalance(d) \in Int
BY SMTT(20) DEF F!BalanceAssumption, FloorsTyped, F!BalanceAt, F!Flows, F!MidnightBalance, F!Days

(* A record of a day that has begun, written with its midnight, keeps a table true.                 *)
LEMMA PutIsTrue ==
    ASSUME F!BalanceAssumption, FloorsTyped, NEW table \in Tables, TrueTable(table),
           NEW d \in 0..day, NEW b \in Int, b = F!MidnightBalance(d)
    PROVE  TrueTable(F!Put(table, d, b)) /\ TrueTable(F!Recorded(table, d, b)) /\ F!Recorded(table, d, b) \in Tables
           /\ d \in DOMAIN F!Recorded(table, d, b)
<1>1. d \in F!Days
  BY DEF FloorsTyped, F!Days, F!BalanceAssumption
<1>2. ASSUME NEW e \in DOMAIN table \cup {d} PROVE e \in 0..day /\ F!Put(table, d, b)[e] = F!MidnightBalance(e)
  <2>1. CASE e = d
    BY <1>1, <2>1, PutIsATable
  <2>2. CASE e # d
    BY <1>1, <2>2, PutIsATable DEF TrueTable
  <2> QED  BY <2>1, <2>2
<1>3. TrueTable(F!Put(table, d, b)) /\ F!Put(table, d, b) \in Tables /\ d \in DOMAIN F!Put(table, d, b)
  <2>1. DOMAIN F!Put(table, d, b) = DOMAIN table \cup {d} /\ F!Put(table, d, b) \in Tables
    BY <1>1, PutIsATable
  <2> QED  BY <1>2, <2>1 DEF TrueTable
<1> QED  BY <1>3 DEF F!Recorded

-----------------------------------------------------------------------------
LEMMA InitialFloors ==
    ASSUME F!BalanceAssumption, F!Init
    PROVE  FloorsInv
<1>1. F!Resting \in ReaderRecords /\ F!NoCache \in CacheRecords
  BY EmptyTable DEF F!Resting, F!NoCache, ReaderRecords, CacheRecords, F!BalanceAssumption, F!Days
<1>2. FloorsTyped
  BY <1>1, EmptyTable DEF F!Init, FloorsTyped, F!BalanceAssumption, F!Days
<1>3. MidnightsInOrder
  BY DEF F!Init, MidnightsInOrder
<1>4. TrueTable(F!NoReferences)
  BY EmptyTable DEF TrueTable
<1>5. TrueTable(stored) /\ CacheIsTrue
  BY <1>4 DEF F!Init, CacheIsTrue, F!NoCache
<1>6. \A t \in Readers : ReaderIsTrue(t)
  BY <1>4 DEF F!Init, ReaderIsTrue, F!Resting
<1> QED  BY <1>2, <1>3, <1>5, <1>6 DEF FloorsInv

(* The world moves: tables and readers keep what they read.                  *)
LEMMA WorldMoves ==
    ASSUME F!BalanceAssumption, DealsAreSeen, FloorsInv, F!Deals \/ F!MidnightPasses \/ F!MinutesPass \/ F!Polls
    PROVE  FloorsInv'
<1>1. /\ Steady /\ deals <= deals'
      /\ (deals \in 0..MaxDeals /\ day \in F!Days /\ early \in BOOLEAN /\ snapshot = deals)'
      /\ (cut \in [0..day -> 0..deals])' /\ MidnightsInOrder'
  <2>1. CASE F!Deals
    BY <2>1 DEF F!Deals, DealsAreSeen, FloorsInv, FloorsTyped, MidnightsInOrder, Steady, F!Days, F!BalanceAssumption
  <2>2. CASE F!MidnightPasses
    <3>1. day' = day + 1 /\ early' = TRUE /\ UNCHANGED <<deals, snapshot>> /\ day \in Nat /\ day' \in F!Days
      BY <2>2 DEF F!MidnightPasses, FloorsInv, FloorsTyped, F!Days, F!BalanceAssumption
    <3>2. DOMAIN cut' = 0..day' /\ cut'[day'] = deals /\ \A d \in 0..day : cut'[d] = cut[d]
      BY <2>2, <3>1 DEF F!MidnightPasses, FloorsInv, FloorsTyped, F!Put, F!Days
    <3>3. cut' \in [0..day' -> 0..deals']
      BY <2>2, <3>1, <3>2 DEF F!MidnightPasses, FloorsInv, FloorsTyped, F!Put, F!Days
    <3>4. MidnightsInOrder'
      BY <3>1, <3>2 DEF FloorsInv, FloorsTyped, MidnightsInOrder
    <3> QED  BY <3>1, <3>2, <3>3, <3>4 DEF FloorsInv, FloorsTyped, Steady
  <2>3. CASE F!MinutesPass
    <3>1. ~early' /\ early' \in BOOLEAN /\ UNCHANGED <<deals, day, cut, snapshot>>
      BY <2>3 DEF F!MinutesPass
    <3>2. Steady /\ deals <= deals' /\ MidnightsInOrder'
      BY <3>1 DEF FloorsInv, FloorsTyped, MidnightsInOrder, Steady, F!Days, F!BalanceAssumption
    <3> QED  BY <3>1, <3>2 DEF FloorsInv, FloorsTyped
  <2>4. CASE F!Polls
    BY <2>4 DEF F!Polls, FloorsInv, FloorsTyped, MidnightsInOrder, Steady, F!Days, F!BalanceAssumption
  <2> QED  BY <2>1, <2>2, <2>3, <2>4
<1>2. UNCHANGED <<stored, cache, reader>>
  BY DEF F!Deals, F!MidnightPasses, F!MinutesPass, F!Polls
<1>3. FloorsTyped'
  BY <1>1, <1>2 DEF FloorsInv, FloorsTyped
<1>4. \A table : TrueTable(table) => TrueTable(table)'
  BY <1>1, TableStaysTrue DEF FloorsInv
<1>5. TrueTable(stored)' /\ CacheIsTrue'
  BY <1>1, <1>2, <1>4 DEF FloorsInv, CacheIsTrue, Steady, WholeUntil
<1>6. ASSUME NEW t \in Readers PROVE ReaderIsTrue(t)'
  <2>1. ReaderIsTrue(t) /\ reader'[t] = reader[t] /\ reader[t] \in ReaderRecords
    BY <1>2 DEF FloorsInv, FloorsTyped
  <2>2. TrueTable(reader[t].references)'
    BY <1>4, <2>1, <1>2 DEF ReaderIsTrue
  <2>3. reader[t].now \in 0..day => reader[t].now \in 0..day' /\ cut'[reader[t].now] = cut[reader[t].now]
    BY <1>1 DEF Steady
  <2>4. reader[t].seen <= deals => reader[t].seen <= deals'
    BY <2>1, <1>1 DEF ReaderRecords, FloorsInv, FloorsTyped
  <2> QED  BY <2>1, <2>2, <2>3, <2>4 DEF ReaderIsTrue, WholeUntil
<1> QED  BY <1>1, <1>3, <1>5, <1>6 DEF FloorsInv

-----------------------------------------------------------------------------
(* What a reader ends with.                                                  *)
Answer(d, table, whole) == [F!Resting EXCEPT !.pc = "answered", !.now = d, !.references = table, !.complete = whole]
NoAnswer(d) == [F!Resting EXCEPT !.pc = "answered", !.now = d]

LEMMA AnswersAre ==
    ASSUME F!BalanceAssumption, NEW d \in F!Days, NEW table \in Tables, NEW whole \in BOOLEAN
    PROVE  /\ Answer(d, table, whole) \in ReaderRecords /\ Answer(d, table, whole).pc = "answered"
           /\ Answer(d, table, whole).now = d /\ Answer(d, table, whole).references = table
           /\ Answer(d, table, whole).complete = whole
           /\ NoAnswer(d) \in ReaderRecords /\ NoAnswer(d).pc = "answered" /\ NoAnswer(d).now = d
           /\ NoAnswer(d).references = F!NoReferences /\ ~NoAnswer(d).complete
<1>1. 0 \in 0..MaxDeals /\ F!NoReferences \in Tables
  BY EmptyTable DEF F!BalanceAssumption
<1> QED  BY <1>1 DEF Answer, NoAnswer, F!Resting, ReaderRecords

LEMMA AnswerIsTrue ==
    ASSUME F!BalanceAssumption, FloorsInv, UNCHANGED F!world, NEW t \in Readers,
           NEW a \in ReaderRecords, a.pc = "answered", a.now \in 0..day, TrueTable(a.references),
           a.complete => WholeUntil(a.references, a.now), reader' = [reader EXCEPT ![t] = a]
    PROVE  /\ reader'[t] \in ReaderRecords /\ reader' = [reader EXCEPT ![t] = reader'[t]] /\ ReaderIsTrue(t)'
<1>1. reader'[t] = a
  BY DEF FloorsInv, FloorsTyped
<1>2. a.now \in 0..day'
  BY DEF F!world
<1>3. TrueTable(a.references)'
  BY WorldStays
<1>4. ReaderIsTrue(t)'
  BY <1>1, <1>2, <1>3 DEF ReaderIsTrue, WholeUntil
<1> QED  BY <1>1, <1>4

(* What it leaves in the cache.                                              *)
LEMMA CacheOf ==
    ASSUME F!BalanceAssumption, FloorsInv, UNCHANGED F!world, NEW d \in 0..day, NEW table \in Tables, TrueTable(table),
           NEW whole \in BOOLEAN, whole => WholeUntil(table, d), NEW first \in F!Days \cup {F!NoDay},
           cache' = [day |-> d, references |-> table, complete |-> whole, first |-> first]
    PROVE  cache' \in CacheRecords /\ CacheIsTrue'
<1>1. d \in F!Days /\ d \in 0..day'
  BY DEF FloorsInv, FloorsTyped, F!Days, F!BalanceAssumption, F!world
<1>2. cache' \in CacheRecords
  BY <1>1 DEF CacheRecords
<1>3. TrueTable(table)'
  BY WorldStays
<1> QED  BY <1>1, <1>2, <1>3 DEF CacheIsTrue, WholeUntil

LEMMA RestingIsTrue ==
    ASSUME F!BalanceAssumption, NEW t \in Readers, reader'[t] = F!Resting
    PROVE  F!Resting \in ReaderRecords /\ ReaderIsTrue(t)'
<1>1. F!Resting \in ReaderRecords
  BY EmptyTable DEF F!Resting, ReaderRecords, F!BalanceAssumption, F!Days
<1> QED  BY <1>1, EmptyTable DEF F!Resting, ReaderIsTrue, TrueTable

LEMMA ReadsCacheStaysTrue ==
    ASSUME F!BalanceAssumption, FloorsInv, NEW t \in Readers, F!ReadsCache(t)
    PROVE  FloorsInv'
<1>1. UNCHANGED F!world /\ UNCHANGED <<stored, cache>>
  BY DEF F!ReadsCache
<1>2. day \in 0..day /\ cache.references \in Tables /\ TrueTable(cache.references)
      /\ WholeUntil(cache.references, day)
  BY SMTT(20) DEF F!ReadsCache, FloorsInv, FloorsTyped, CacheIsTrue, CacheRecords, F!NoDay, F!Days, F!BalanceAssumption
<1> DEFINE a == Answer(day, cache.references, TRUE)
<1>3. reader' = [reader EXCEPT ![t] = a] /\ day \in F!Days
  BY DEF F!ReadsCache, Answer, FloorsInv, FloorsTyped
<1>4a. a \in ReaderRecords /\ a.pc = "answered" /\ a.now = day /\ a.references = cache.references
  BY <1>2, <1>3, AnswersAre, ZenonT(40)
<1>4. reader'[t] \in ReaderRecords /\ reader' = [reader EXCEPT ![t] = reader'[t]] /\ ReaderIsTrue(t)'
  <2> HIDE DEF a
  <2> QED  BY <1>1, <1>2, <1>3, <1>4a, AnswerIsTrue
<1>5. stored' \in Tables /\ TrueTable(stored') /\ cache' \in CacheRecords /\ CacheIsTrue'
  BY <1>1, WorldStays DEF FloorsInv, FloorsTyped, CacheIsTrue, F!world
<1> QED  BY <1>1, <1>4, <1>5, OneReaderMoves

LEMMA ReadsStoreStaysTrue ==
    ASSUME F!BalanceAssumption, FloorsInv, NEW t \in Readers, F!ReadsStore(t)
    PROVE  FloorsInv'
<1>1. UNCHANGED F!world /\ UNCHANGED <<stored, cache>>
  BY DEF F!ReadsStore
<1> DEFINE read == [pc |-> "today", now |-> day, early |-> early, seen |-> snapshot,
                    references |-> stored, first |-> cache.first, complete |-> FALSE]
<1>2. reader' = [reader EXCEPT ![t] = read] /\ reader'[t] = read
  BY DEF F!ReadsStore, FloorsInv, FloorsTyped
<1>3. read \in ReaderRecords
  BY DEF FloorsInv, FloorsTyped, ReaderRecords, CacheRecords, F!BalanceAssumption
<1>4. TrueTable(stored)'
  BY <1>1, WorldStays DEF FloorsInv
<1>5. day \in 0..day' /\ cut'[day] <= deals' /\ snapshot = deals' /\ (early => snapshot = cut'[day])
  BY <1>1 DEF FloorsInv, FloorsTyped, MidnightsInOrder, F!world, F!Days, F!BalanceAssumption
<1>6. ReaderIsTrue(t)'
  BY <1>1, <1>2, <1>4, <1>5 DEF ReaderIsTrue, FloorsInv, FloorsTyped
<1>7. stored' \in Tables /\ TrueTable(stored') /\ cache' \in CacheRecords /\ CacheIsTrue'
  BY <1>1, WorldStays DEF FloorsInv, FloorsTyped, CacheIsTrue, F!world
<1> QED  BY <1>1, <1>2, <1>3, <1>6, <1>7, OneReaderMoves

LEMMA StoreFailsStaysTrue ==
    ASSUME F!BalanceAssumption, FloorsInv, NEW t \in Readers, F!StoreFails(t)
    PROVE  FloorsInv'
<1>1. UNCHANGED F!world /\ UNCHANGED <<stored, cache>>
  BY DEF F!StoreFails
<1>2. reader[t].now \in 0..day
  BY DEF F!StoreFails, FloorsInv, ReaderIsTrue
<1> DEFINE a == NoAnswer(reader[t].now)
<1>3. reader' = [reader EXCEPT ![t] = a]
  BY DEF F!StoreFails, NoAnswer
<1>4. TrueTable(F!NoReferences) /\ F!NoReferences \in Tables
  BY EmptyTable DEF TrueTable
<1>4a. a \in ReaderRecords /\ a.pc = "answered" /\ a.now = reader[t].now /\ a.references = F!NoReferences /\ ~a.complete
  <2>1. reader[t].now \in F!Days
    BY <1>2 DEF FloorsInv, FloorsTyped, F!Days, F!BalanceAssumption
  <2> QED  BY <2>1, <1>4, AnswersAre
<1>5. reader'[t] \in ReaderRecords /\ reader' = [reader EXCEPT ![t] = reader'[t]] /\ ReaderIsTrue(t)'
  <2> HIDE DEF a
  <2> QED  BY <1>1, <1>2, <1>3, <1>4, <1>4a, AnswerIsTrue
<1>6. stored' \in Tables /\ TrueTable(stored') /\ cache' \in CacheRecords /\ CacheIsTrue'
  BY <1>1, WorldStays DEF FloorsInv, FloorsTyped, CacheIsTrue, F!world
<1> QED  BY <1>1, <1>5, <1>6, OneReaderMoves

(* Today's reference is the balance at this day's 00:00, read early or rebuilt.                     *)
LEMMA FindsTodayStaysTrue ==
    ASSUME F!BalanceAssumption, FloorsInv, NEW t \in Readers, F!FindsToday(t)
    PROVE  FloorsInv'
<1> DEFINE today == reader[t].now
           found == IF reader[t].early THEN Balance[reader[t].seen] ELSE F!BalanceAt(today, reader[t].seen)
           table == reader[t].references
           next == [reader[t] EXCEPT !.pc = "past", !.references = IF today \in DOMAIN table THEN table
                                                                 ELSE F!Put(table, today, stored'[today])]
<1>1. UNCHANGED F!world /\ UNCHANGED cache
  BY DEF F!FindsToday
<1>2. /\ today \in 0..day /\ today \in F!Days /\ cut[today] <= reader[t].seen /\ reader[t].seen \in 0..deals
      /\ reader[t].early => reader[t].seen = cut[today]
      /\ table \in Tables /\ TrueTable(table) /\ reader[t] \in ReaderRecords
  BY DEF F!FindsToday, FloorsInv, FloorsTyped, ReaderIsTrue, ReaderRecords, F!Days, F!BalanceAssumption
<1>3. FloorsTyped /\ stored \in Tables /\ TrueTable(stored) /\ reader \in [Readers -> ReaderRecords]
  BY DEF FloorsInv, FloorsTyped
<1>4. found = F!MidnightBalance(today) /\ found \in Int
  BY <1>2, <1>3, BalanceAtIsTheMidnight DEF F!MidnightBalance
<1>5. stored' = IF today \in DOMAIN table THEN stored ELSE F!Recorded(stored, today, found)
  BY DEF F!FindsToday
<1>6. stored' \in Tables /\ TrueTable(stored') /\ (today \notin DOMAIN table => today \in DOMAIN stored')
  BY <1>2, <1>3, <1>4, <1>5, PutIsTrue
<1>7. today \notin DOMAIN table => stored'[today] = F!MidnightBalance(today) /\ stored'[today] \in Int
  BY <1>4, <1>6 DEF TrueTable
<1>8. next.references \in Tables /\ TrueTable(next.references)
  <2>1. CASE today \in DOMAIN table
    BY <2>1, <1>2 DEF ReaderRecords
  <2>2. CASE today \notin DOMAIN table
    <3>1. next.references = F!Put(table, today, stored'[today])
      BY <2>2, <1>2 DEF ReaderRecords
    <3>2. F!Put(table, today, stored'[today]) \in Tables
      BY <2>2, <1>2, <1>7, PutIsATable
    <3>3. TrueTable(F!Put(table, today, stored'[today]))
      BY <2>2, <1>2, <1>3, <1>7, PutIsTrue
    <3> QED  BY <3>1, <3>2, <3>3
  <2> QED  BY <2>1, <2>2
<1>9. reader' = [reader EXCEPT ![t] = next] /\ reader'[t] = next
  BY <1>3 DEF F!FindsToday
<1>10. next \in ReaderRecords /\ next.pc = "past" /\ next.now = today /\ next.seen = reader[t].seen
       /\ next.early = reader[t].early
  BY <1>2, <1>8 DEF ReaderRecords
<1>11. TrueTable(reader[t].references)'
  BY <1>1, <1>8, <1>9, WorldStays
<1>12. ReaderIsTrue(t)'
  <2>1. /\ reader'[t].pc = "past" /\ reader'[t].now = today /\ reader'[t].seen = reader[t].seen
        /\ reader'[t].early = reader[t].early
    BY <1>9, <1>10
  <2>2. UNCHANGED <<day, cut, deals>> /\ reader[t].seen <= deals
    BY <1>1, <1>2, <1>3 DEF F!world, FloorsTyped
  <2> HIDE DEF next, found, table
  <2> QED  BY <2>1, <2>2, <1>2, <1>11 DEF ReaderIsTrue
<1>13. cache' \in CacheRecords /\ CacheIsTrue'
  BY <1>1, WorldStays DEF FloorsInv, FloorsTyped, CacheIsTrue, F!world
<1> QED  BY <1>1, <1>6, <1>9, <1>10, <1>12, <1>13, OneReaderMoves

LEMMA HistoryFailsStaysTrue ==
    ASSUME F!BalanceAssumption, FloorsInv, NEW t \in Readers, F!HistoryFails(t)
    PROVE  FloorsInv'
<1>1. UNCHANGED F!world /\ UNCHANGED <<stored, cache>>
  BY DEF F!HistoryFails
<1> DEFINE next == [reader[t] EXCEPT !.pc = "past"]
<1>2. reader[t] \in ReaderRecords /\ reader' = [reader EXCEPT ![t] = next] /\ reader'[t] = next
  BY DEF F!HistoryFails, FloorsInv, FloorsTyped
<1>3. next \in ReaderRecords /\ next.pc = "past" /\ next.now = reader[t].now /\ next.seen = reader[t].seen
      /\ next.early = reader[t].early /\ next.references = reader[t].references
  BY <1>2 DEF ReaderRecords
<1>4. TrueTable(reader[t].references)'
  BY <1>1, <1>2, <1>3, WorldStays DEF FloorsInv, ReaderIsTrue
<1>5. ReaderIsTrue(t) /\ reader[t].pc = "today"
  BY DEF FloorsInv, F!HistoryFails
<1>6. ReaderIsTrue(t)'
  BY <1>1, <1>2, <1>3, <1>4, <1>5 DEF ReaderIsTrue, F!world
<1>7. stored' \in Tables /\ TrueTable(stored') /\ cache' \in CacheRecords /\ CacheIsTrue'
  BY <1>1, WorldStays DEF FloorsInv, FloorsTyped, CacheIsTrue, F!world
<1> QED  BY <1>1, <1>2, <1>3, <1>6, <1>7, OneReaderMoves

(* Every missing midnight is one that has passed: what the reader rebuilds is true.                 *)
LEMMA FillsGapsStaysTrue ==
    ASSUME F!BalanceAssumption, FloorsInv, NEW t \in Readers, F!FillsGaps(t)
    PROVE  FloorsInv'
<1> DEFINE gaps == F!Gaps(reader[t].references, 0, reader[t].now)
           table == [d \in DOMAIN stored \cup gaps |->
                       IF d \in DOMAIN stored THEN stored[d] ELSE F!BalanceAt(d, reader[t].seen)]
           found == IF gaps = {} THEN reader[t].references ELSE table
           whole == IF gaps = {} THEN TRUE ELSE F!Gaps(table, 0, reader[t].now) = {}
<1>1. UNCHANGED F!world
  BY DEF F!FillsGaps
<1>2. /\ reader[t].now \in 0..day /\ reader[t].now \in F!Days
      /\ cut[reader[t].now] <= reader[t].seen /\ reader[t].seen \in 0..deals
      /\ reader[t].references \in Tables /\ TrueTable(reader[t].references) /\ reader[t] \in ReaderRecords
  BY DEF F!FillsGaps, FloorsInv, FloorsTyped, ReaderIsTrue, ReaderRecords, F!Days, F!BalanceAssumption
<1>3. /\ FloorsTyped /\ stored \in Tables /\ TrueTable(stored) /\ reader \in [Readers -> ReaderRecords]
      /\ cut \in [0..day -> 0..deals] /\ (\A d, e \in 0..day : d <= e => cut[d] <= cut[e])
      /\ day \in F!Days /\ 0..day \subseteq F!Days
  BY DEF FloorsInv, FloorsTyped, MidnightsInOrder, F!Days, F!BalanceAssumption
<1>4. ASSUME NEW d \in gaps
      PROVE  d \in 0..day /\ cut[d] <= reader[t].seen /\ F!BalanceAt(d, reader[t].seen) = F!MidnightBalance(d) /\ F!MidnightBalance(d) \in Int
  <2>1. d \in 0..reader[t].now /\ d \in 0..day
    BY <1>2, <1>3 DEF F!Gaps, F!Days, F!BalanceAssumption
  <2>2. cut[d] <= cut[reader[t].now] /\ cut[d] \in Int /\ cut[reader[t].now] \in Int /\ reader[t].seen \in Int
    BY <2>1, <1>2, <1>3
  <2>3. cut[d] <= reader[t].seen
    BY <2>2, <1>2
  <2> HIDE DEF gaps, table, found, whole
  <2> QED  BY <2>1, <2>3, <1>2, <1>3, BalanceAtIsTheMidnight
<1>5. table \in Tables /\ TrueTable(table)
  <2>1. \A d \in DOMAIN stored : d \in 0..day /\ stored[d] = F!MidnightBalance(d) /\ stored[d] \in Int
    BY <1>3, TableOfDays DEF TrueTable
  <2>2. DOMAIN table = DOMAIN stored \cup gaps /\ \A d \in DOMAIN table : table[d] = F!MidnightBalance(d) /\ table[d] \in Int
    BY <2>1, <1>4
  <2>3. DOMAIN table \subseteq 0..day
    BY <2>1, <2>2, <1>4
  <2>4. table \in [DOMAIN table -> Int]
    BY <2>2
  <2> HIDE DEF table, gaps
  <2>5. TrueTable(table)
    BY <2>2, <2>3 DEF TrueTable
  <2>6. DOMAIN table \in SUBSET F!Days
    BY <2>3, <1>3
  <2> QED  BY <2>4, <2>5, <2>6, TableIs
<1>6. found \in Tables /\ TrueTable(found) /\ whole \in BOOLEAN
  BY <1>2, <1>5
<1>7. whole => WholeUntil(found, reader[t].now)
  BY DEF WholeUntil, F!Gaps
<1> DEFINE a == Answer(reader[t].now, found, whole)
<1>8. /\ reader' = [reader EXCEPT ![t] = a]
      /\ cache' = [day |-> reader[t].now, references |-> found, complete |-> whole, first |-> 0]
      /\ stored' = IF gaps = {} THEN stored ELSE table
  BY DEF F!FillsGaps, F!Ends, Answer
<1> HIDE DEF gaps, table, found, whole
<1>9. /\ a \in ReaderRecords /\ a.pc = "answered" /\ a.now = reader[t].now /\ a.references = found
      /\ (a.complete <=> whole)
  BY <1>2, <1>6, AnswersAre
<1> HIDE DEF a
<1>10. reader'[t] \in ReaderRecords /\ reader' = [reader EXCEPT ![t] = reader'[t]] /\ ReaderIsTrue(t)'
  BY <1>1, <1>2, <1>6, <1>7, <1>8, <1>9, AnswerIsTrue
<1>11. stored' \in Tables /\ TrueTable(stored')
  BY <1>3, <1>5, <1>8
<1>12. cache' \in CacheRecords /\ CacheIsTrue'
  <2>1. 0 \in F!Days \cup {F!NoDay}
    BY DEF F!Days, F!BalanceAssumption
  <2> QED  BY <2>1, <1>1, <1>2, <1>6, <1>7, <1>8, CacheOf
<1> QED  BY <1>1, <1>10, <1>11, <1>12, OneReaderMoves

LEMMA GapsStayTrue ==
    ASSUME F!BalanceAssumption, FloorsInv, NEW t \in Readers, F!GapsStay(t)
    PROVE  FloorsInv'
<1>1. UNCHANGED F!world /\ UNCHANGED stored
  BY DEF F!GapsStay
<1>2. /\ reader[t].now \in 0..day /\ reader[t].now \in F!Days /\ reader[t].first \in F!Days \cup {F!NoDay}
      /\ reader[t].references \in Tables /\ TrueTable(reader[t].references) /\ reader[t] \in ReaderRecords
  BY DEF F!GapsStay, FloorsInv, FloorsTyped, ReaderIsTrue, ReaderRecords, F!Days, F!BalanceAssumption
<1> DEFINE whole == FALSE
           a == Answer(reader[t].now, reader[t].references, whole)
<1>3. /\ reader' = [reader EXCEPT ![t] = a] /\ whole \in BOOLEAN /\ ~whole
      /\ cache' = [day |-> reader[t].now, references |-> reader[t].references, complete |-> whole, first |-> reader[t].first]
  BY DEF F!GapsStay, F!Ends, Answer
<1> HIDE DEF whole
<1>4. /\ a \in ReaderRecords /\ a.pc = "answered" /\ a.now = reader[t].now /\ a.references = reader[t].references
      /\ (a.complete <=> whole)
  BY <1>2, <1>3, AnswersAre
<1> HIDE DEF a
<1>5. reader'[t] \in ReaderRecords /\ reader' = [reader EXCEPT ![t] = reader'[t]] /\ ReaderIsTrue(t)'
  BY <1>1, <1>2, <1>3, <1>4, AnswerIsTrue
<1>6. stored' \in Tables /\ TrueTable(stored')
  BY <1>1 DEF FloorsInv, FloorsTyped
<1>7. cache' \in CacheRecords /\ CacheIsTrue'
  BY <1>1, <1>2, <1>3, CacheOf
<1> QED  BY <1>1, <1>5, <1>6, <1>7, OneReaderMoves

LEMMA OthersStayTrue ==
    ASSUME F!BalanceAssumption, FloorsInv, F!Forgets \/ F!Restarts \/ \E t \in Readers : F!Leaves(t)
    PROVE  FloorsInv'
<1>1. UNCHANGED F!world /\ UNCHANGED stored
  BY DEF F!Forgets, F!Restarts, F!Leaves
<1>2. F!Resting \in ReaderRecords /\ F!NoCache \in CacheRecords
  BY EmptyTable DEF F!Resting, F!NoCache, ReaderRecords, CacheRecords, F!BalanceAssumption, F!Days
<1>3. /\ reader' \in [Readers -> ReaderRecords] /\ \A t \in Readers : reader'[t] = reader[t] \/ reader'[t] = F!Resting
      /\ cache' \in CacheRecords /\ (cache' = cache \/ cache' = F!NoCache)
  BY <1>2 DEF FloorsInv, FloorsTyped, F!Forgets, F!Restarts, F!Leaves
<1>4. TrueTable(F!NoReferences)'
  BY EmptyTable DEF TrueTable, F!NoReferences
<1>5. ASSUME NEW t \in Readers PROVE ReaderIsTrue(t)'
  <2>1. CASE reader'[t] = F!Resting
    BY <2>1, RestingIsTrue
  <2>2. CASE reader'[t] = reader[t]
    <3>1. TrueTable(reader[t].references)'
      BY <2>2, <1>1, WorldStays DEF FloorsInv, ReaderIsTrue
    <3> QED  BY <3>1, <2>2, <1>1 DEF FloorsInv, ReaderIsTrue, WholeUntil, F!world
  <2> QED  BY <2>1, <2>2, <1>3
<1>6. CacheIsTrue'
  <2>1. CASE cache' = cache
    BY <2>1, <1>1, WorldStays DEF FloorsInv, CacheIsTrue, F!world
  <2>2. CASE cache' = F!NoCache
    BY <2>2, <1>4 DEF CacheIsTrue, F!NoCache
  <2> QED  BY <2>1, <2>2, <1>3
<1>7. FloorsTyped' /\ MidnightsInOrder' /\ TrueTable(stored)'
  BY <1>1, <1>3, WorldStays DEF FloorsInv, FloorsTyped
<1> QED  BY <1>5, <1>6, <1>7 DEF FloorsInv

-----------------------------------------------------------------------------
(* Of some balances, one is the highest: by the least number of deals after which there would be none. *)
LEMMA HighestExists ==
    ASSUME F!BalanceAssumption, NEW S \in SUBSET F!Balances, S # {}
    PROVE  F!HighestOf(S) \in S /\ \A c \in S : c <= F!HighestOf(S)
<1> DEFINE Early(m) == {Balance[n] : n \in 0..m} \cap S
           Topped(m) == \E b \in Early(m) : \A c \in Early(m) : c <= b
           Bad == {m \in 0..MaxDeals : Early(m) # {} /\ ~Topped(m)}
           Smaller == {p \in Nat \X Nat : p[1] < p[2]}
<1>1. MaxDeals \in Nat /\ \A n \in 0..MaxDeals : Balance[n] \in Int
  BY DEF F!BalanceAssumption
<1>2. ASSUME NEW m \in Bad PROVE \E n \in Bad : n < m
  <2>1. m \in 0..MaxDeals /\ Early(m) # {} /\ ~Topped(m)
    OBVIOUS
  <2>2. CASE m = 0
    <3>1. Early(m) = {Balance[0]}
      BY <2>1, <2>2
    <3> QED  BY <3>1, <2>1, <1>1
  <2>3. CASE m # 0
    <3>1. m - 1 \in 0..MaxDeals /\ m - 1 < m
      BY <2>1, <2>3, <1>1
    <3>2. Early(m) = Early(m - 1) \cup ({Balance[m]} \cap S)
      <4>1. 0..m = (0..(m - 1)) \cup {m}
        BY <2>1, <2>3, <1>1
      <4> QED  BY <4>1
    <3>3. \A c \in Early(m) : c \in Int
      BY <2>1, <1>1
    <3>4. CASE Early(m - 1) = {}
      BY <3>2, <3>3, <3>4, <2>1
    <3>5. CASE Early(m - 1) # {} /\ Topped(m - 1)
      <4>1. PICK b \in Early(m - 1) : \A c \in Early(m - 1) : c <= b
        BY <3>5
      <4> HIDE DEF Early
      <4>2. CASE Balance[m] \notin S
        BY <4>1, <4>2, <3>2, <2>1
      <4>3. CASE Balance[m] \in S /\ Balance[m] <= b
        BY <4>1, <4>3, <3>2, <2>1
      <4>4. CASE Balance[m] \in S /\ ~(Balance[m] <= b)
        <5>1. Balance[m] \in Early(m) /\ \A c \in Early(m) : c <= Balance[m]
          BY <4>1, <4>4, <3>2, <3>3
        <5> QED  BY <5>1, <2>1
      <4> QED  BY <4>2, <4>3, <4>4
    <3> QED  BY <3>1, <3>4, <3>5
  <2> QED  BY <2>2, <2>3
<1>3. Bad = {}
  <2> SUFFICES ASSUME Bad # {} PROVE FALSE
    OBVIOUS
  <2>1. Bad \in SUBSET Nat
    BY <1>1
  <2> HIDE DEF Bad
  <2>2. IsWellFoundedOn(Smaller, Nat)
    BY NatLessThanWellFounded DEF OpToRel
  <2>3. \E m \in Bad : \A n \in Bad : <<n, m>> \notin Smaller
    BY <2>1, <2>2, WFMin
  <2>4. PICK m \in Bad : \A n \in Bad : <<n, m>> \notin Smaller
    BY <2>3
  <2>5. PICK n \in Bad : n < m
    BY <1>2
  <2>6. <<n, m>> \in Nat \X Nat
    BY <2>1
  <2> QED  BY <2>4, <2>5, <2>6
<1>4. Early(MaxDeals) = S
  BY DEF F!Balances
<1>5. Topped(MaxDeals)
  <2>1. MaxDeals \in 0..MaxDeals
    BY <1>1
  <2> HIDE DEF Early, Topped
  <2>2. Early(MaxDeals) # {}
    BY <1>4
  <2>3. MaxDeals \notin Bad
    <3> HIDE DEF Bad
    <3> QED  BY <1>3
  <2> QED  BY <2>1, <2>2, <2>3
<1>6. \E b \in S : \A c \in S : c <= b
  BY <1>4, <1>5
<1> QED  BY <1>6 DEF F!HighestOf

(* A whole table of true midnights makes the trailing reference the highest midnight so far.       *)
LEMMA InvImpliesFloors ==
    ASSUME F!BalanceAssumption, FloorsInv
    PROVE  F!FloorsTypeOK /\ F!FloorsAreMidnights
<1>1. F!FloorsTypeOK
  <2>2. /\ deals \in 0..MaxDeals /\ day \in F!Days /\ early \in BOOLEAN /\ snapshot \in 0..deals
        /\ DOMAIN cut = 0..day /\ \A d \in 0..day : cut[d] \in 0..deals
    BY DEF FloorsInv, FloorsTyped
  <2>3. cache.day \in F!Days \cup {F!NoDay} /\ \A t \in Readers : reader[t].pc \in {"idle", "today", "past", "answered"}
    BY DEF FloorsInv, FloorsTyped, CacheRecords, ReaderRecords
  <2>1. F!IsTable(stored) /\ F!IsTable(cache.references) /\ \A t \in Readers : F!IsTable(reader[t].references)
    BY TableOfDays DEF FloorsInv, FloorsTyped, CacheRecords, ReaderRecords, F!IsTable
  <2> QED  BY <2>1, <2>2, <2>3, Zenon DEF F!FloorsTypeOK
<1>2. ASSUME NEW t \in Readers, reader[t].pc = "answered"
      PROVE  /\ F!DailyKnown(reader[t]) => F!DailyReference(reader[t]) = F!MidnightBalance(reader[t].now)
             /\ F!MaxKnown(reader[t]) =>
                   /\ \E d \in 0..day : F!MaxReference(reader[t]) = F!MidnightBalance(d)
                   /\ \A d \in 0..reader[t].now : F!MaxReference(reader[t]) >= F!MidnightBalance(d)
  <2>1. TrueTable(reader[t].references) /\ reader[t].now \in 0..day /\ reader[t].references \in Tables
        /\ (reader[t].complete => WholeUntil(reader[t].references, reader[t].now))
    BY <1>2 DEF FloorsInv, ReaderIsTrue, FloorsTyped, ReaderRecords
  <2>2. F!DailyKnown(reader[t]) => F!DailyReference(reader[t]) = F!MidnightBalance(reader[t].now)
    BY <2>1 DEF TrueTable, F!DailyKnown, F!DailyReference
  <2>3. ASSUME F!MaxKnown(reader[t])
        PROVE  /\ \E d \in 0..day : F!MaxReference(reader[t]) = F!MidnightBalance(d)
               /\ \A d \in 0..reader[t].now : F!MaxReference(reader[t]) >= F!MidnightBalance(d)
    <3> DEFINE table == reader[t].references
               S == {Balance[0]} \cup {table[d] : d \in DOMAIN table}
    <3>1. /\ DOMAIN table \subseteq 0..day /\ 0..reader[t].now \subseteq DOMAIN table
          /\ \A d \in DOMAIN table : table[d] = F!MidnightBalance(d)
      BY <2>1, <2>3 DEF TrueTable, WholeUntil, F!MaxKnown
    <3>2. 0 \in 0..day /\ F!MidnightBalance(0) = Balance[0] /\ \A d \in 0..day : F!MidnightBalance(d) \in F!Balances
          /\ F!Balances \subseteq Int
      BY DEF FloorsInv, FloorsTyped, MidnightsInOrder, F!MidnightBalance, F!Balances, F!Days, F!BalanceAssumption
    <3>3. S \in SUBSET F!Balances /\ S # {} /\ \A b \in S : \E d \in 0..day : b = F!MidnightBalance(d)
      BY <3>1, <3>2
    <3>4. F!HighestOf(S) \in S /\ \A c \in S : c <= F!HighestOf(S)
      <4> HIDE DEF S
      <4> QED  BY <3>3, HighestExists
    <3>5. F!MaxReference(reader[t]) = F!HighestOf(S)
      BY DEF F!MaxReference
    <3>6. ASSUME NEW d \in 0..reader[t].now PROVE F!HighestOf(S) >= F!MidnightBalance(d)
      <4>1. F!MidnightBalance(d) \in S
        BY <3>1
      <4> QED  BY <4>1, <3>2, <3>3, <3>4
    <3> HIDE DEF S
    <3> QED  BY <3>3, <3>4, <3>5, <3>6
  <2> QED  BY <2>2, <2>3
<1> QED  BY <1>1, <1>2 DEF F!FloorsAreMidnights

LEMMA FloorsInvIsInductive ==
    ASSUME F!BalanceAssumption, DealsAreSeen, FloorsInv, [F!Next]_(F!vars)
    PROVE  FloorsInv'
<1>1. CASE F!Deals \/ F!MidnightPasses \/ F!MinutesPass \/ F!Polls
  BY <1>1, WorldMoves
<1>2. CASE F!Forgets \/ F!Restarts \/ \E t \in Readers : F!Leaves(t)
  BY <1>2, OthersStayTrue
<1>3. ASSUME NEW t \in Readers,
             F!ReadsCache(t) \/ F!ReadsStore(t) \/ F!StoreFails(t) \/ F!FindsToday(t) \/ F!HistoryFails(t) \/ F!FillsGaps(t)
                \/ F!GapsStay(t)
      PROVE  FloorsInv'
  BY <1>3, ReadsCacheStaysTrue, ReadsStoreStaysTrue, StoreFailsStaysTrue, FindsTodayStaysTrue,
     HistoryFailsStaysTrue, FillsGapsStaysTrue, GapsStayTrue
<1>4. CASE UNCHANGED F!vars
  <2>1. UNCHANGED F!world /\ UNCHANGED <<deals, day, early, cut, snapshot, stored, cache, reader>>
    BY <1>4 DEF F!vars, F!world
  <2>2. FloorsTyped' /\ MidnightsInOrder'
    BY <2>1, WorldStays DEF FloorsInv, FloorsTyped
  <2>3. TrueTable(stored)' /\ CacheIsTrue'
    BY <2>1, WorldStays DEF FloorsInv, CacheIsTrue
  <2>4. ASSUME NEW t \in Readers PROVE ReaderIsTrue(t)'
    <3>1. TrueTable(reader[t].references)'
      BY <2>1, WorldStays DEF FloorsInv, ReaderIsTrue
    <3> QED  BY <2>1, <3>1 DEF FloorsInv, ReaderIsTrue, WholeUntil
  <2> QED  BY <2>2, <2>3, <2>4 DEF FloorsInv
<1> QED  BY <1>1, <1>2, <1>3, <1>4 DEF F!Next

(* A floor stands on the midnight it is named for, whoever asks first and however the history     *)
(* comes (ProviderService).                                                                       *)
LEMMA FloorsAreSafe ==
    ASSUME F!BalanceAssumption, DealsAreSeen PROVE F!Spec => [](F!FloorsTypeOK /\ F!FloorsAreMidnights)
<1>1. F!Init => FloorsInv
  BY InitialFloors
<1>2. FloorsInv /\ [F!Next]_(F!vars) => FloorsInv'
  BY FloorsInvIsInductive
<1>3. FloorsInv => F!FloorsTypeOK /\ F!FloorsAreMidnights
  BY InvImpliesFloors
<1> QED  BY <1>1, <1>2, <1>3, PTL DEF F!Spec

-----------------------------------------------------------------------------
(* The calendar and its gate (services/news.py).                           *)

(* The calendar (services/news.py) and its gate.                             *)
Asked == [at : N!Times, said : SUBSET N!Times]
Refreshes == [pc : {"idle", "fetch", "replace", "mark", "load"}, at : N!Times, next : 1 .. Len(Whitelist),
              answer : SUBSET N!Times, failed : BOOLEAN]

NewsTyped ==
    /\ time \in N!Times /\ upstream \in [N!Releases -> SUBSET N!Times] /\ releases \in [N!Releases -> SUBSET N!Times]
    /\ synced \in N!Times \cup {N!Never} /\ memory \in N!Calendars /\ refresh \in Refreshes
    /\ heard \in [N!Releases -> Seq(Asked)] /\ loaded \in [N!Releases -> Nat]
    /\ \A r \in N!Releases : loaded[r] <= Len(heard[r]) /\ upstream[r] \subseteq Dates[r]
(* Answers arrive in the order they were asked for, each of what was to come then.                  *)
HeardInOrder(r) ==
    /\ \A i \in 1 .. Len(heard[r]) :
          /\ heard[r][i].at <= time /\ (refresh.pc # "idle" => heard[r][i].at <= refresh.at)
          /\ heard[r][i].said \subseteq Dates[r] /\ \A t \in heard[r][i].said : heard[r][i].at <= t
    /\ \A i, j \in 1 .. Len(heard[r]) : i <= j => heard[r][i].at <= heard[r][j].at
RefreshIsTrue ==
    /\ refresh.pc # "idle" => refresh.at <= time
    /\ refresh.pc = "replace" =>
          refresh.answer \subseteq Dates[Whitelist[refresh.next]] /\ \A t \in refresh.answer : refresh.at <= t
(* Every release was asked for since an instant.                             *)
HeardSince(r, at) == Len(heard[r]) > 0 /\ heard[r][Len(heard[r])].at >= at
SyncsAreWhole ==
    /\ refresh.pc \in {"fetch", "replace"} /\ ~refresh.failed =>
          \A i \in 1 .. (refresh.next - 1) : HeardSince(Whitelist[i], refresh.at)
    /\ refresh.pc = "mark" => \A r \in N!Releases : HeardSince(r, refresh.at)
    /\ synced # N!Never => \A r \in N!Releases : HeardSince(r, synced)
    /\ memory.synced # N!Never => \A r \in N!Releases : loaded[r] > 0 /\ heard[r][loaded[r]].at >= memory.synced
(* The i-th answer says t, none of the first k moves it.                     *)
StillSaid(r, i, k, t) ==
    /\ i \in 1 .. k /\ t \in heard[r][i].said /\ t <= heard[r][i].at + MaxAge + Blackout
    /\ \A j \in (i + 1) .. k : heard[r][j].at > t
RowsHold(r) == \A i \in Nat, t \in N!Times : StillSaid(r, i, Len(heard[r]), t) => t \in releases[r]
MemoryHolds(r) ==
    \A i \in Nat, t \in N!Times : StillSaid(r, i, loaded[r], t) /\ t > time - Retain => t \in memory.releases[r]
NewsInv ==
    /\ NewsTyped /\ RefreshIsTrue /\ SyncsAreWhole
    /\ \A r \in N!Releases : HeardInOrder(r) /\ RowsHold(r) /\ MemoryHolds(r)

-----------------------------------------------------------------------------
LEMMA NewsNumbers ==
    ASSUME N!NewsAssumption
    PROVE  /\ LastInstant \in Nat /\ MaxAge \in Nat /\ Blackout \in Nat /\ Retain \in Nat /\ Keep \in Nat
           /\ Blackout < Retain /\ N!Times \subseteq Nat /\ N!Never \notin N!Times /\ 0 \in N!Times
           /\ Len(Whitelist) \in Nat /\ Len(Whitelist) >= 1
           /\ \A i \in 1 .. Len(Whitelist) : Whitelist[i] \in N!Releases
           /\ \A r \in N!Releases : \E i \in 1 .. Len(Whitelist) : Whitelist[i] = r
           /\ \A r \in N!Releases : Dates[r] \subseteq N!Times
<1>1. /\ LastInstant \in Nat /\ MaxAge \in Nat /\ Blackout \in Nat /\ Retain \in Nat /\ Keep \in Nat
      /\ Blackout < Retain /\ \A r \in N!Releases : Dates[r] \subseteq N!Times
  BY DEF N!NewsAssumption
<1>2. N!Times \subseteq Nat /\ N!Never \notin N!Times /\ 0 \in N!Times
  BY <1>1 DEF N!Times, N!Never
<1>3. Whitelist \in Seq(N!Releases) /\ Whitelist # <<>>
  BY DEF N!NewsAssumption
<1>4. Len(Whitelist) \in Nat /\ Len(Whitelist) >= 1 /\ DOMAIN Whitelist = 1 .. Len(Whitelist)
  BY <1>3
<1>5. \A i \in 1 .. Len(Whitelist) : Whitelist[i] \in N!Releases
  BY <1>3
<1>6. \A r \in N!Releases : \E i \in 1 .. Len(Whitelist) : Whitelist[i] = r
  BY <1>4 DEF N!Releases, N!ToSet
<1> QED  BY <1>1, <1>2, <1>4, <1>5, <1>6

(* Cardinality, in that module and in this one. *)
LEMMA NewsCount == \A S : N!Cardinality(S) = Cardinality(S)
BY DEF N!Cardinality, Cardinality

(* What is near enough to count is kept: a release has at most Keep instants in that time.          *)
LEMMA NearestKeeps ==
    ASSUME N!NewsAssumption, NEW r \in N!Releases, NEW said \in SUBSET Dates[r], NEW at \in N!Times,
           \A d \in said : at <= d, NEW t \in said, t <= at + MaxAge + Blackout
    PROVE  t \in N!Nearest(said)
<1> DEFINE soon == {d \in Dates[r] : at <= d /\ d <= at + MaxAge + Blackout}
           before == {e \in said : e < t}
<1>1. /\ Dates[r] \subseteq N!Times /\ N!Times \subseteq Nat /\ Keep \in Nat
      /\ Cardinality(soon) <= Keep /\ MaxAge \in Nat /\ Blackout \in Nat /\ LastInstant \in Nat
  BY NewsNumbers, NewsCount DEF N!NewsAssumption
<1>2. IsFiniteSet(soon)
  <2>1. soon \subseteq 0 .. LastInstant /\ IsFiniteSet(0 .. LastInstant)
    BY <1>1, FS_Interval DEF N!Times
  <2> QED  BY <2>1, FS_Subset
<1>3. before \subseteq soon /\ t \in soon /\ t \notin before
  <2>1. \A e \in said : e \in Dates[r] /\ e \in Nat /\ at <= e
    BY <1>1
  <2>2. at \in Nat /\ t \in Nat
    BY <1>1, <2>1
  <2>3. t \in soon /\ t \notin before
    BY <2>1, <2>2
  <2>4. ASSUME NEW e \in before PROVE e \in soon
    <3>1. e \in said /\ e < t /\ e \in Nat /\ at <= e /\ e \in Dates[r]
      BY <2>1
    <3>2. e <= at + MaxAge + Blackout
      BY <3>1, <2>2, <1>1
    <3> QED  BY <3>1, <3>2
  <2> QED  BY <2>3, <2>4
<1>4. IsFiniteSet(before) /\ Cardinality(before) \in Nat /\ Cardinality(soon) \in Nat
      /\ Cardinality(before) <= Cardinality(soon) /\ (Cardinality(before) = Cardinality(soon) => before = soon)
  <2> HIDE DEF soon, before
  <2> QED  BY <1>2, <1>3, FS_Subset, FS_CardinalityType
<1>5. Cardinality(before) < Keep
  <2> HIDE DEF soon, before
  <2> QED  BY <1>1, <1>3, <1>4
<1> QED  BY <1>5, NewsCount DEF N!Nearest

-----------------------------------------------------------------------------
LEMMA InitialNews ==
    ASSUME N!NewsAssumption, N!Init
    PROVE  NewsInv
<1>1. N!NoRefresh \in Refreshes /\ N!NoRefresh.pc = "idle" /\ N!Blank \in N!Calendars /\ N!Blank.synced = N!Never
  BY NewsNumbers DEF N!NoRefresh, Refreshes, N!Blank, N!Calendars
<1>2. /\ heard \in [N!Releases -> Seq(Asked)] /\ loaded \in [N!Releases -> Nat]
      /\ \A r \in N!Releases : Len(heard[r]) = 0 /\ loaded[r] = 0
  BY DEF N!Init
<1>3. NewsTyped
  BY <1>1, <1>2, NewsNumbers DEF N!Init, NewsTyped
<1>4. RefreshIsTrue /\ SyncsAreWhole
  BY <1>1 DEF N!Init, RefreshIsTrue, SyncsAreWhole
<1>5. \A r \in N!Releases : HeardInOrder(r) /\ RowsHold(r) /\ MemoryHolds(r)
  BY <1>2 DEF HeardInOrder, RowsHold, MemoryHolds, StillSaid
<1> QED  BY <1>3, <1>4, <1>5 DEF NewsInv

(* Steps of the refresh that learn nothing: the order of what was heard is that of the refreshes.   *)
LEMMA OnlyTheRefreshMoves ==
    ASSUME N!NewsAssumption, NewsInv, UNCHANGED <<time, upstream, releases, synced, memory, heard, loaded>>,
           refresh' \in Refreshes, RefreshIsTrue', SyncsAreWhole',
           refresh'.pc = "idle" \/ refresh'.at = time \/ (refresh.pc # "idle" /\ refresh'.at = refresh.at)
    PROVE  NewsInv'
<1>1. NewsTyped'
  BY DEF NewsInv, NewsTyped
<1>2. ASSUME NEW r \in N!Releases PROVE HeardInOrder(r)' /\ RowsHold(r)' /\ MemoryHolds(r)'
  <2>1. HeardInOrder(r) /\ RowsHold(r) /\ MemoryHolds(r)
    BY DEF NewsInv
  <2>2. HeardInOrder(r)'
    BY <2>1 DEF HeardInOrder
  <2>3. RowsHold(r)' /\ MemoryHolds(r)'
    BY <2>1 DEF RowsHold, MemoryHolds, StillSaid
  <2> QED  BY <2>2, <2>3
<1> QED  BY <1>1, <1>2 DEF NewsInv

Later(pc, next, missed) == [refresh EXCEPT !.pc = pc, !.next = next, !.answer = {}, !.failed = missed]
Ended(pc, missed) == [refresh EXCEPT !.pc = pc, !.answer = {}, !.failed = missed]
LEMMA EndedIs ==
    ASSUME refresh \in Refreshes, NEW missed \in BOOLEAN, NEW p \in {"load", "mark"}
    PROVE  /\ Ended(p, missed) \in Refreshes /\ Ended(p, missed).pc = p /\ Ended(p, missed).next = refresh.next
           /\ Ended(p, missed).at = refresh.at /\ (Ended(p, missed).failed <=> missed)
BY DEF Refreshes, Ended
LEMMA LaterIs ==
    ASSUME refresh \in Refreshes, NEW missed \in BOOLEAN, NEW n \in 1 .. Len(Whitelist), NEW p \in {"fetch", "load", "mark"}
    PROVE  /\ Later(p, n, missed) \in Refreshes /\ Later(p, n, missed).pc = p /\ Later(p, n, missed).next = n
           /\ Later(p, n, missed).at = refresh.at /\ (Later(p, n, missed).failed <=> missed)
BY DEF Refreshes, Later

LEMMA GoesOnIs ==
    ASSUME N!NewsAssumption, refresh \in Refreshes, NEW missed \in BOOLEAN
    PROVE  /\ N!GoesOn(missed) \in Refreshes /\ N!GoesOn(missed).at = refresh.at /\ (N!GoesOn(missed).failed <=> missed)
           /\ refresh.next < Len(Whitelist) => N!GoesOn(missed).pc = "fetch" /\ N!GoesOn(missed).next = refresh.next + 1
           /\ ~(refresh.next < Len(Whitelist)) =>
                 /\ refresh.next = Len(Whitelist) /\ N!GoesOn(missed).next = refresh.next
                 /\ missed => N!GoesOn(missed).pc = "load"
                 /\ ~missed => N!GoesOn(missed).pc = "mark"
<1>1. Len(Whitelist) \in Nat /\ refresh.next \in 1 .. Len(Whitelist)
  BY NewsNumbers DEF Refreshes
<1>2. CASE refresh.next < Len(Whitelist)
  <2>1. N!GoesOn(missed) = Later("fetch", refresh.next + 1, missed) /\ refresh.next + 1 \in 1 .. Len(Whitelist)
    BY <1>1, <1>2 DEF N!GoesOn, Later
  <2> QED  BY <2>1, <1>2, LaterIs
<1>3. CASE ~(refresh.next < Len(Whitelist)) /\ missed
  <2>1. N!GoesOn(missed) = Ended("load", missed) /\ refresh.next = Len(Whitelist)
    BY <1>1, <1>3 DEF N!GoesOn, Ended
  <2> QED  BY <2>1, <1>1, <1>3, EndedIs
<1>4. CASE ~(refresh.next < Len(Whitelist)) /\ ~missed
  <2>1. N!GoesOn(missed) = Ended("mark", missed) /\ refresh.next = Len(Whitelist)
    BY <1>1, <1>4 DEF N!GoesOn, Ended
  <2> QED  BY <2>1, <1>1, <1>4, EndedIs
<1> QED  BY <1>2, <1>3, <1>4

LEMMA BeginsIsTrue ==
    ASSUME N!NewsAssumption, NewsInv, N!Begins
    PROVE  NewsInv'
<1>1. /\ refresh' \in Refreshes /\ refresh'.pc = "fetch" /\ refresh'.at = time /\ refresh'.next = 1
      /\ UNCHANGED <<time, upstream, releases, synced, memory, heard, loaded>>
  <2>1. time \in N!Times /\ 1 \in 1 .. Len(Whitelist)
    BY NewsNumbers DEF NewsInv, NewsTyped
  <2> QED  BY <2>1 DEF N!Begins, N!NoRefresh, Refreshes
<1>2. time \in Nat
  BY NewsNumbers DEF NewsInv, NewsTyped
<1>3. RefreshIsTrue'
  BY <1>1, <1>2 DEF RefreshIsTrue
<1>4. SyncsAreWhole'
  BY <1>1 DEF SyncsAreWhole, HeardSince, NewsInv
<1> QED  BY <1>1, <1>3, <1>4, OnlyTheRefreshMoves

LEMMA FetchesIsTrue ==
    ASSUME N!NewsAssumption, NewsInv, N!Fetches
    PROVE  NewsInv'
<1> DEFINE fetched == {d \in upstream[Whitelist[refresh.next]] : d >= refresh.at}
<1>1. /\ refresh \in Refreshes /\ refresh.pc = "fetch" /\ refresh' = [refresh EXCEPT !.pc = "replace", !.answer = fetched]
      /\ UNCHANGED <<time, upstream, releases, synced, memory, heard, loaded>>
  BY DEF N!Fetches, NewsInv, NewsTyped
<1>2. Whitelist[refresh.next] \in N!Releases
  BY <1>1, NewsNumbers DEF Refreshes
<1>3. fetched \in SUBSET N!Times /\ fetched \subseteq Dates[Whitelist[refresh.next]]
  BY <1>2 DEF NewsInv, NewsTyped
<1>4. \A d \in fetched : refresh.at <= d
  BY <1>1, <1>3, NewsNumbers DEF Refreshes
<1> HIDE DEF fetched
<1>5. /\ refresh' \in Refreshes /\ refresh'.pc = "replace" /\ refresh'.at = refresh.at
      /\ refresh'.next = refresh.next /\ refresh'.failed = refresh.failed /\ refresh'.answer = fetched
  BY <1>1, <1>3 DEF Refreshes
<1>6. RefreshIsTrue'
  BY <1>1, <1>3, <1>4, <1>5 DEF RefreshIsTrue, NewsInv
<1>7. SyncsAreWhole'
  BY <1>1, <1>5 DEF SyncsAreWhole, HeardSince, NewsInv
<1> QED  BY <1>1, <1>5, <1>6, <1>7, OnlyTheRefreshMoves

LEMMA FailsIsTrue ==
    ASSUME N!NewsAssumption, NewsInv, N!Fails
    PROVE  NewsInv'
<1>1. /\ refresh \in Refreshes /\ refresh.pc \in {"fetch", "replace"} /\ refresh' = N!GoesOn(TRUE)
      /\ UNCHANGED <<time, upstream, releases, synced, memory, heard, loaded>>
  BY DEF N!Fails, NewsInv, NewsTyped
<1>2. /\ refresh' \in Refreshes /\ refresh'.at = refresh.at /\ refresh'.failed
      /\ refresh'.pc \in {"fetch", "load"}
  BY <1>1, GoesOnIs
<1>3. RefreshIsTrue'
  BY <1>1, <1>2 DEF RefreshIsTrue, NewsInv
<1>4. SyncsAreWhole'
  BY <1>1, <1>2 DEF SyncsAreWhole, HeardSince, NewsInv
<1> QED  BY <1>1, <1>2, <1>3, <1>4, OnlyTheRefreshMoves

LEMMA IsCutIsTrue ==
    ASSUME N!NewsAssumption, NewsInv, N!IsCut
    PROVE  NewsInv'
<1>1. /\ refresh' \in Refreshes /\ refresh'.pc = "idle"
      /\ UNCHANGED <<time, upstream, releases, synced, memory, heard, loaded>>
  BY NewsNumbers DEF N!IsCut, N!NoRefresh, Refreshes
<1>2. RefreshIsTrue'
  BY <1>1 DEF RefreshIsTrue
<1>3. SyncsAreWhole'
  BY <1>1 DEF SyncsAreWhole, HeardSince, NewsInv
<1> QED  BY <1>1, <1>2, <1>3, OnlyTheRefreshMoves

(* Only a refresh that asked for every release is marked.                   *)
LEMMA MarksIsTrue ==
    ASSUME N!NewsAssumption, NewsInv, N!Marks
    PROVE  NewsInv'
<1>1. /\ refresh \in Refreshes /\ refresh.pc = "mark" /\ synced' \in {synced, refresh.at}
      /\ refresh' = [refresh EXCEPT !.pc = "load"] /\ UNCHANGED <<time, upstream, releases, memory, heard, loaded>>
  BY DEF N!Marks, NewsInv, NewsTyped
<1>2. refresh' \in Refreshes /\ refresh'.pc = "load" /\ refresh'.at = refresh.at
  BY <1>1 DEF Refreshes
<1>3. NewsTyped'
  BY <1>1, <1>2 DEF NewsInv, NewsTyped, Refreshes
<1>4. RefreshIsTrue' /\ SyncsAreWhole'
  BY <1>1, <1>2 DEF RefreshIsTrue, SyncsAreWhole, HeardSince, NewsInv
<1>5. ASSUME NEW r \in N!Releases PROVE HeardInOrder(r)' /\ RowsHold(r)' /\ MemoryHolds(r)'
  <2>1. HeardInOrder(r) /\ RowsHold(r) /\ MemoryHolds(r)
    BY DEF NewsInv
  <2>2. HeardInOrder(r)'
    BY <1>1, <1>2, <2>1 DEF HeardInOrder
  <2>3. RowsHold(r)' /\ MemoryHolds(r)'
    BY <1>1, <2>1 DEF RowsHold, MemoryHolds, StillSaid
  <2> QED  BY <2>2, <2>3
<1> QED  BY <1>3, <1>4, <1>5 DEF NewsInv

(* What memory is loaded with is what the database holds; a blank memory trusts nothing.           *)
LEMMA LoadsIsTrue ==
    ASSUME N!NewsAssumption, NewsInv, UNCHANGED <<time, upstream, releases, synced, heard>>, refresh' = N!NoRefresh,
           \/ memory' = N!Loaded /\ loaded' = [r \in N!Releases |-> Len(heard[r])]
           \/ memory' = N!Blank /\ loaded' = [r \in N!Releases |-> 0]
           \/ UNCHANGED <<memory, loaded>>
    PROVE  NewsInv'
<1>1. refresh' \in Refreshes /\ refresh'.pc = "idle"
  BY NewsNumbers DEF N!NoRefresh, Refreshes
<1>2. /\ heard \in [N!Releases -> Seq(Asked)] /\ (\A r \in N!Releases : Len(heard[r]) \in Nat)
      /\ releases \in [N!Releases -> SUBSET N!Times] /\ synced \in N!Times \cup {N!Never} /\ time \in Nat
      /\ memory \in N!Calendars /\ loaded \in [N!Releases -> Nat] /\ N!Times \subseteq Nat
  BY NewsNumbers DEF NewsInv, NewsTyped
<1>3. N!Loaded \in N!Calendars /\ N!Loaded.synced = synced /\ N!Blank \in N!Calendars /\ N!Blank.synced = N!Never
      /\ \A r \in N!Releases : N!Loaded.releases[r] = {d \in releases[r] : d > time - Retain}
  BY <1>2 DEF N!Loaded, N!Blank, N!Calendars
<1>4. memory' \in N!Calendars /\ loaded' \in [N!Releases -> Nat] /\ \A r \in N!Releases : loaded'[r] <= Len(heard[r])
  BY <1>2, <1>3 DEF NewsInv, NewsTyped
<1>5. NewsTyped'
  BY <1>1, <1>4 DEF NewsInv, NewsTyped
<1>6. RefreshIsTrue'
  BY <1>1 DEF RefreshIsTrue
<1>7. SyncsAreWhole'
  <2>1. synced # N!Never => \A r \in N!Releases : HeardSince(r, synced)
    BY DEF NewsInv, SyncsAreWhole
  <2>2. memory'.synced # N!Never => \A r \in N!Releases : loaded'[r] > 0 /\ heard[r][loaded'[r]].at >= memory'.synced
    <3>1. CASE memory' = N!Loaded /\ loaded' = [r \in N!Releases |-> Len(heard[r])]
      BY <3>1, <2>1, <1>3 DEF HeardSince
    <3>2. CASE memory' = N!Blank
      BY <3>2, <1>3
    <3>3. CASE UNCHANGED <<memory, loaded>>
      BY <3>3 DEF NewsInv, SyncsAreWhole
    <3> QED  BY <3>1, <3>2, <3>3
  <2> QED  BY <2>1, <2>2, <1>1 DEF SyncsAreWhole, HeardSince
<1>8. ASSUME NEW r \in N!Releases PROVE HeardInOrder(r)' /\ RowsHold(r)' /\ MemoryHolds(r)'
  <2>1. HeardInOrder(r) /\ RowsHold(r) /\ MemoryHolds(r)
    BY DEF NewsInv
  <2>2. HeardInOrder(r)'
    BY <1>1, <2>1 DEF HeardInOrder
  <2>3. RowsHold(r)'
    BY <2>1 DEF RowsHold, StillSaid
  <2>4. MemoryHolds(r)'
    <3>1. CASE memory' = N!Loaded /\ loaded' = [q \in N!Releases |-> Len(heard[q])]
      BY <3>1, <1>3, <2>1 DEF MemoryHolds, RowsHold, StillSaid
    <3>2. CASE memory' = N!Blank /\ loaded' = [q \in N!Releases |-> 0]
      BY <3>2 DEF MemoryHolds, StillSaid
    <3>3. CASE UNCHANGED <<memory, loaded>>
      BY <3>3, <2>1 DEF MemoryHolds, StillSaid
    <3> QED  BY <3>1, <3>2, <3>3
  <2> QED  BY <2>2, <2>3, <2>4
<1> QED  BY <1>5, <1>6, <1>7, <1>8 DEF NewsInv

LEMMA StaysRetained ==
    ASSUME NEW t \in Nat, NEW before \in Nat, NEW after \in Nat, NEW retained \in Nat,
           before <= after, t > after - retained
    PROVE  t > before - retained
OBVIOUS

LEMMA TheWorldMoves ==
    ASSUME N!NewsAssumption, NewsInv, N!Ticks \/ \E r \in N!Releases : N!Moves(r)
    PROVE  NewsInv'
<1>1. /\ time' \in N!Times /\ time <= time' /\ upstream' \in [N!Releases -> SUBSET N!Times]
      /\ \A r \in N!Releases : upstream'[r] \subseteq Dates[r]
      /\ UNCHANGED <<releases, synced, memory, refresh, heard, loaded>>
  <2>1. CASE N!Ticks
    BY <2>1, NewsNumbers DEF N!Ticks, NewsInv, NewsTyped, N!Times
  <2>2. ASSUME NEW r \in N!Releases, N!Moves(r) 
        PROVE  /\ time' \in N!Times /\ time <= time' /\ upstream' \in [N!Releases -> SUBSET N!Times]
               /\ \A q \in N!Releases : upstream'[q] \subseteq Dates[q]
               /\ UNCHANGED <<releases, synced, memory, refresh, heard, loaded>>
    BY <2>2, NewsNumbers DEF N!Moves, NewsInv, NewsTyped, N!Times
  <2> QED  BY <2>1, <2>2
<1>2. NewsTyped'
  BY <1>1 DEF NewsInv, NewsTyped
<1>3. time \in Nat /\ time' \in Nat /\ refresh \in Refreshes /\ Retain \in Nat /\ N!Times \subseteq Nat
  BY <1>1, NewsNumbers DEF NewsInv, NewsTyped
<1>4. RefreshIsTrue' /\ SyncsAreWhole'
  <2>1. refresh.pc # "idle" => refresh.at <= time'
    <3>1. refresh.at \in N!Times
      BY <1>3 DEF Refreshes
    <3>2. refresh.at \in Nat
      BY <3>1, <1>3
    <3>3. refresh.pc # "idle" => refresh.at <= time
      BY DEF NewsInv, RefreshIsTrue
    <3> QED  BY <3>2, <3>3, <1>1, <1>3
  <2>2. RefreshIsTrue'
    BY <1>1, <2>1 DEF RefreshIsTrue, NewsInv
  <2> QED  BY <1>1, <2>2 DEF SyncsAreWhole, HeardSince, NewsInv
<1>5. ASSUME NEW r \in N!Releases PROVE HeardInOrder(r)' /\ RowsHold(r)' /\ MemoryHolds(r)'
  <2>1. HeardInOrder(r) /\ RowsHold(r) /\ MemoryHolds(r)
    BY DEF NewsInv
  <2>2. \A i \in 1 .. Len(heard[r]) : heard[r][i].at \in Nat
    <3>1. heard[r] \in Seq(Asked)
      BY DEF NewsInv, NewsTyped
    <3>2. \A i \in 1 .. Len(heard[r]) : heard[r][i] \in Asked
      BY <3>1
    <3> QED  BY <3>2, <1>3 DEF Asked
  <2>3. HeardInOrder(r)'
    BY <1>1, <1>3, <2>1, <2>2 DEF HeardInOrder
  <2>4. RowsHold(r)'
    BY <1>1, <2>1 DEF RowsHold, StillSaid
  <2>5. ASSUME NEW t \in N!Times, t > time' - Retain PROVE t > time - Retain
    <3>1. t \in Nat /\ time \in Nat /\ time' \in Nat /\ Retain \in Nat /\ time <= time'
      BY <1>1, <1>3
    <3> QED  BY <2>5, <3>1, StaysRetained
  <2>6. MemoryHolds(r)'
    BY <1>1, <2>1, <2>5 DEF MemoryHolds, StillSaid
  <2> QED  BY <2>3, <2>4, <2>6
<1> QED  BY <1>2, <1>4, <1>5 DEF NewsInv

(* The new answer is the latest of its release: what an older one says before it is asked for is kept, what   *)
(* it says itself is kept where it is near enough, and no other release is touched.                         *)
LEMMA ReplacesIsTrue ==
    ASSUME N!NewsAssumption, NewsInv, N!Replaces
    PROVE  NewsInv'
<1>a. /\ refresh \in Refreshes /\ Whitelist[refresh.next] \in N!Releases /\ refresh.at \in N!Times
      /\ refresh.answer \in SUBSET N!Times
  <2>1. refresh \in Refreshes
    BY DEF NewsInv, NewsTyped
  <2> QED  BY <2>1, NewsNumbers DEF Refreshes
<1>b. PICK r0 \in N!Releases : r0 = Whitelist[refresh.next]
  BY <1>a
<1>c. PICK at \in N!Times : at = refresh.at
  BY <1>a
<1>d. PICK a \in Asked : a = [at |-> refresh.at, said |-> refresh.answer]
  BY <1>a DEF Asked
<1>e. PICK n \in Nat : n = Len(heard[r0])
  BY DEF NewsInv, NewsTyped
<1>1. PICK missed \in BOOLEAN :
         /\ refresh.pc = "replace" /\ releases' = [releases EXCEPT ![r0] = N!Replaced(r0)]
         /\ heard' = [heard EXCEPT ![r0] = Append(@, a)] /\ refresh' = N!GoesOn(missed)
         /\ ~missed => ~refresh.failed
         /\ UNCHANGED <<time, upstream, synced, memory, loaded>>
  <2>1. PICK knows \in BOOLEAN : refresh' = N!GoesOn(refresh.failed \/ ~knows)
    BY DEF N!Replaces
  <2>2. (refresh.failed \/ ~knows) \in BOOLEAN
    OBVIOUS
  <2> QED  BY <2>1, <2>2, <1>b, <1>d DEF N!Replaces
<1>2. /\ refresh \in Refreshes /\ r0 \in N!Releases /\ refresh.at \in N!Times /\ refresh.answer \in SUBSET N!Times
      /\ refresh.answer \subseteq Dates[r0] /\ (\A t \in refresh.answer : refresh.at <= t)
      /\ refresh.at <= time /\ refresh.at \in Nat /\ N!Times \subseteq Nat /\ time \in Nat
  <2>1. time \in N!Times /\ RefreshIsTrue
    BY DEF NewsInv, NewsTyped
  <2> QED  BY <1>1, <1>a, <1>b, <2>1, NewsNumbers DEF RefreshIsTrue
<1>3. /\ heard \in [N!Releases -> Seq(Asked)] /\ a.at = at /\ a.said = refresh.answer /\ at \in Nat /\ releases \in [N!Releases -> SUBSET N!Times]
      /\ \A r \in N!Releases : heard[r] \in Seq(Asked) /\ Len(heard[r]) \in Nat
  BY <1>2, <1>c, <1>d DEF NewsInv, NewsTyped
<1>4. /\ heard' \in [N!Releases -> Seq(Asked)] /\ heard'[r0] = Append(heard[r0], a)
      /\ \A r \in N!Releases \ {r0} : heard'[r] = heard[r] /\ releases'[r] = releases[r]
      /\ releases'[r0] = N!Replaced(r0)
  BY <1>1, <1>2, <1>3
<1>5. /\ Len(heard'[r0]) = n + 1 /\ heard'[r0][n + 1] = a
      /\ \A i \in 1 .. n : heard'[r0][i] = heard[r0][i]
  BY <1>3, <1>4, <1>e
<1>6. /\ refresh' \in Refreshes /\ refresh'.at = refresh.at /\ (refresh'.failed <=> missed)
      /\ refresh.next < Len(Whitelist) => refresh'.pc = "fetch" /\ refresh'.next = refresh.next + 1
      /\ ~(refresh.next < Len(Whitelist)) =>
            /\ refresh.next = Len(Whitelist) /\ refresh'.next = refresh.next
            /\ refresh'.pc \in {"load", "mark"} /\ (refresh'.pc = "mark" => ~missed)
  BY <1>1, <1>2, GoesOnIs
<1>7. NewsTyped'
  <2>1. N!Replaced(r0) \in SUBSET N!Times
    BY <1>2, <1>3 DEF N!Replaced, N!Nearest
  <2>2. releases' \in [N!Releases -> SUBSET N!Times]
    BY <2>1, <1>1, <1>2, <1>3
  <2>3. ASSUME NEW r \in N!Releases PROVE loaded[r] <= Len(heard'[r])
    <3>1. loaded[r] <= Len(heard[r]) /\ loaded[r] \in Nat
      BY DEF NewsInv, NewsTyped
    <3>2. Len(heard[r]) <= Len(heard'[r]) /\ Len(heard[r]) \in Nat /\ Len(heard'[r]) \in Nat
      <4>1. CASE r = r0
        BY <4>1, <1>3, <1>5, <1>e
      <4>2. CASE r # r0
        BY <4>2, <1>3, <1>4
      <4> QED  BY <4>1, <4>2
    <3> QED  BY <3>1, <3>2
  <2> QED  BY <1>1, <1>4, <1>6, <2>2, <2>3 DEF NewsInv, NewsTyped
<1>8. RefreshIsTrue'
  BY <1>1, <1>2, <1>6 DEF RefreshIsTrue
<1>9. ASSUME NEW r \in N!Releases, NEW since \in N!Times, HeardSince(r, since), since <= at
      PROVE  HeardSince(r, since)'
  <2>1. CASE r = r0
    BY <2>1, <1>2, <1>3, <1>5, <1>9 DEF HeardSince
  <2>2. CASE r # r0
    BY <2>2, <1>4, <1>9 DEF HeardSince
  <2> QED  BY <2>1, <2>2
<1>10. HeardSince(r0, at)'
  BY <1>3, <1>5 DEF HeardSince
<1>11. ASSUME NEW r \in N!Releases, synced # N!Never PROVE HeardSince(r, synced)'
  <2>0. PICK since \in N!Times : since = synced
    BY <1>11 DEF NewsInv, NewsTyped
  <2>1. synced \in N!Times /\ HeardSince(r, synced)
    BY <1>11 DEF NewsInv, NewsTyped, SyncsAreWhole
  <2>2. Len(heard[r]) > 0 /\ heard[r][Len(heard[r])].at >= synced /\ heard[r][Len(heard[r])].at <= refresh.at
    BY <2>1, <1>1, <1>3 DEF NewsInv, HeardInOrder, HeardSince
  <2>3. heard[r][Len(heard[r])].at \in Nat
    <3>1. heard[r][Len(heard[r])] \in Asked
      BY <2>2, <1>3
    <3> QED  BY <3>1, <1>2 DEF Asked
  <2>4. since <= at
    BY <2>0, <2>1, <2>2, <2>3, <1>2, <1>c
  <2>5. HeardSince(r, since)'
    BY <2>0, <2>1, <2>4, <1>9
  <2> QED  BY <2>0, <2>5, <1>1 DEF HeardSince
<1>12. SyncsAreWhole'
  <2>1. ASSUME refresh'.pc \in {"fetch", "replace"}, ~refresh'.failed, NEW i \in 1 .. (refresh'.next - 1)
        PROVE  HeardSince(Whitelist[i], at)'
    <3>1. refresh.next < Len(Whitelist) /\ refresh'.next = refresh.next + 1 /\ ~refresh.failed /\ i \in 1 .. refresh.next
      BY <2>1, <1>1, <1>2, <1>6, NewsNumbers DEF Refreshes
    <3>2. Whitelist[i] \in N!Releases
      BY <3>1, <1>2, NewsNumbers DEF Refreshes
    <3>3. CASE i = refresh.next
      BY <3>3, <1>b, <1>10
    <3>4. CASE i # refresh.next
      <4>1. i \in 1 .. (refresh.next - 1)
        BY <3>1, <3>4, <1>2 DEF Refreshes
      <4>2. HeardSince(Whitelist[i], at)
        BY <3>1, <4>1, <1>1, <1>c DEF NewsInv, SyncsAreWhole
      <4> QED  BY <3>2, <4>2, <1>3, <1>9
    <3> QED  BY <3>3, <3>4
  <2>2. ASSUME refresh'.pc = "mark", NEW r \in N!Releases PROVE HeardSince(r, at)'
    <3>1. refresh.next = Len(Whitelist) /\ ~refresh.failed
      BY <2>2, <1>1, <1>6
    <3>2. PICK i \in 1 .. Len(Whitelist) : Whitelist[i] = r
      BY NewsNumbers
    <3>3. CASE i = refresh.next
      BY <3>2, <3>3, <1>b, <1>10
    <3>4. CASE i # refresh.next
      <4>1. i \in 1 .. (refresh.next - 1)
        BY <3>1, <3>2, <3>4, <1>2, NewsNumbers
      <4>2. HeardSince(r, at)
        BY <3>1, <3>2, <4>1, <1>1, <1>c DEF NewsInv, SyncsAreWhole
      <4> QED  BY <4>2, <1>3, <1>9
    <3> QED  BY <3>3, <3>4
  <2>3. ASSUME memory.synced # N!Never, NEW r \in N!Releases
        PROVE  loaded[r] > 0 /\ heard'[r][loaded[r]].at >= memory.synced
    <3>1. loaded[r] > 0 /\ heard[r][loaded[r]].at >= memory.synced /\ loaded[r] \in Nat /\ loaded[r] <= Len(heard[r])
      BY <2>3 DEF NewsInv, NewsTyped, SyncsAreWhole
    <3>2. heard'[r][loaded[r]] = heard[r][loaded[r]]
      <4>1. CASE r = r0
        BY <4>1, <3>1, <1>5, <1>e
      <4>2. CASE r # r0
        BY <4>2, <1>4
      <4> QED  BY <4>1, <4>2
    <3> QED  BY <3>1, <3>2
  <2> QED  BY <2>1, <2>2, <2>3, <1>1, <1>6, <1>11, <1>c DEF SyncsAreWhole, HeardSince
<1>13. ASSUME NEW r \in N!Releases \ {r0} PROVE HeardInOrder(r)' /\ RowsHold(r)' /\ MemoryHolds(r)'
  <2>1. HeardInOrder(r) /\ RowsHold(r) /\ MemoryHolds(r)
    BY DEF NewsInv
  <2>2. heard'[r] = heard[r] /\ releases'[r] = releases[r]
    BY <1>4
  <2>3. HeardInOrder(r)'
    BY <2>1, <2>2, <1>1, <1>6 DEF HeardInOrder
  <2>4. RowsHold(r)' /\ MemoryHolds(r)'
    BY <2>1, <2>2, <1>1 DEF RowsHold, MemoryHolds, StillSaid
  <2> QED  BY <2>3, <2>4
<1>14. HeardInOrder(r0)'
  <2>1. HeardInOrder(r0)
    BY <1>2 DEF NewsInv
  <2>2. ASSUME NEW i \in 1 .. (n + 1)
        PROVE  /\ heard'[r0][i].at <= time /\ heard'[r0][i].at <= at
               /\ heard'[r0][i].said \subseteq Dates[r0] /\ \A t \in heard'[r0][i].said : heard'[r0][i].at <= t
    <3>1. CASE i = n + 1
      BY <3>1, <1>2, <1>3, <1>5, <1>c
    <3>2. CASE i # n + 1
      <4>1. i \in 1 .. n /\ heard'[r0][i] = heard[r0][i]
        BY <3>2, <1>3, <1>5
      <4> QED  BY <4>1, <2>1, <1>1, <1>c, <1>e DEF HeardInOrder
    <3> QED  BY <3>1, <3>2
  <2>3. ASSUME NEW i \in 1 .. (n + 1), NEW j \in 1 .. (n + 1), i <= j
        PROVE  heard'[r0][i].at <= heard'[r0][j].at
    <3>1. CASE j = n + 1
      BY <3>1, <2>2, <1>3, <1>5
    <3>2. CASE j # n + 1
      <4>1. i \in 1 .. n /\ j \in 1 .. n
        BY <2>3, <3>2, <1>3
      <4>2. heard'[r0][i] = heard[r0][i] /\ heard'[r0][j] = heard[r0][j]
        BY <4>1, <1>5
      <4> QED  BY <4>1, <4>2, <2>1, <2>3, <1>e DEF HeardInOrder
    <3> QED  BY <3>1, <3>2
  <2> QED  BY <2>2, <2>3, <1>1, <1>5, <1>6, <1>c DEF HeardInOrder
(* An older answer that still stands does so from before the new one was asked for.                 *)
<1>15. ASSUME NEW k \in Nat, k <= n, NEW i \in Nat, NEW t \in N!Times
       PROVE  StillSaid(r0, i, k, t)' => StillSaid(r0, i, k, t)
  <2>1. \A j \in 1 .. k : heard'[r0][j] = heard[r0][j]
    BY <1>5, <1>15
  <2> QED  BY <2>1 DEF StillSaid
<1>16. RowsHold(r0)'
  <2> SUFFICES ASSUME NEW i \in Nat, NEW t \in N!Times, StillSaid(r0, i, n + 1, t)' PROVE t \in releases'[r0]
    BY <1>5 DEF RowsHold, StillSaid
  <2>1. i \in 1 .. (n + 1) /\ t \in heard'[r0][i].said /\ t <= heard'[r0][i].at + MaxAge + Blackout
        /\ \A j \in (i + 1) .. (n + 1) : heard'[r0][j].at > t
    BY DEF StillSaid
  <2>2. CASE i = n + 1
    <3>1. t \in refresh.answer /\ t <= refresh.at + MaxAge + Blackout
      BY <2>1, <2>2, <1>3, <1>5, <1>c
    <3>2. t \in N!Nearest(refresh.answer)
      BY <3>1, <1>2, NearestKeeps
    <3> QED  BY <3>2, <1>4 DEF N!Replaced
  <2>3. CASE i # n + 1
    <3>1. i \in 1 .. n /\ n + 1 \in (i + 1) .. (n + 1)
      BY <2>1, <2>3
    <3>2. at > t
      BY <2>1, <3>1, <1>3, <1>5
    <3>3. StillSaid(r0, i, n, t)'
      BY <2>1, <3>1 DEF StillSaid
    <3>4. StillSaid(r0, i, Len(heard[r0]), t)
      BY <3>3, <1>15, <1>e
    <3>5. t \in releases[r0]
      BY <3>4 DEF NewsInv, RowsHold
    <3> QED  BY <3>2, <3>5, <1>2, <1>3, <1>4, <1>c DEF N!Replaced
  <2> QED  BY <2>2, <2>3
<1>17. MemoryHolds(r0)'
  <2> SUFFICES ASSUME NEW i \in Nat, NEW t \in N!Times, StillSaid(r0, i, loaded[r0], t)', t > time - Retain
               PROVE  t \in memory.releases[r0]
    BY <1>1 DEF MemoryHolds
  <2>1. PICK k \in Nat : k = loaded[r0] /\ k <= n
    BY <1>e DEF NewsInv, NewsTyped
  <2>2. StillSaid(r0, i, k, t)'
    BY <2>1, <1>1 DEF StillSaid
  <2>3. StillSaid(r0, i, loaded[r0], t)
    BY <2>1, <2>2, <1>15
  <2> QED  BY <2>3 DEF NewsInv, MemoryHolds
<1> QED  BY <1>7, <1>8, <1>12, <1>13, <1>14, <1>16, <1>17 DEF NewsInv

-----------------------------------------------------------------------------
(* A gate that opens does so on answers that are recent, and on what they say.                      *)
LEMMA InvImpliesNews ==
    ASSUME N!NewsAssumption, NewsInv
    PROVE  N!NewsTypeOK /\ N!GateOpensOnWhatWasSaid
<1>1. N!NewsTypeOK
  <2>1. /\ time \in N!Times /\ upstream \in [N!Releases -> SUBSET N!Times] /\ releases \in [N!Releases -> SUBSET N!Times]
        /\ synced \in N!Times \cup {N!Never} /\ memory \in N!Calendars /\ refresh \in Refreshes
    BY DEF NewsInv, NewsTyped
  <2>2. \A r \in N!Releases : loaded[r] \in 0 .. Len(heard[r])
    BY DEF NewsInv, NewsTyped
  <2>3. /\ refresh.pc \in {"idle", "fetch", "replace", "mark", "load"} /\ refresh.at \in N!Times
        /\ refresh.next \in 1 .. Len(Whitelist) /\ refresh.answer \subseteq N!Times
    BY <2>1 DEF Refreshes
  <2> QED  BY <2>1, <2>2, <2>3 DEF N!NewsTypeOK
<1>2. ASSUME N!GateIsOpen, NEW r \in N!Releases
      PROVE  /\ N!Answers(r) # <<>> /\ time - N!Last(N!Answers(r)).at <= MaxAge
             /\ \A t \in N!Times : N!Near(t) => ~N!IsSaid(r, t)
  <2>1. /\ heard[r] \in Seq(Asked) /\ loaded[r] \in Nat /\ loaded[r] <= Len(heard[r])
        /\ memory.synced # N!Never /\ time - memory.synced <= MaxAge /\ time \in Nat
        /\ memory.synced \in N!Times /\ memory.synced \in Nat /\ MaxAge \in Nat
    BY <1>2, NewsNumbers DEF NewsInv, NewsTyped, N!GateIsOpen, N!Usable, N!Calendars
  <2>2. loaded[r] > 0 /\ heard[r][loaded[r]].at >= memory.synced
    BY <2>1 DEF NewsInv, SyncsAreWhole
  <2>3. heard[r][loaded[r]].at \in Nat
    <3>1. heard[r][loaded[r]] \in Asked
      BY <2>1, <2>2
    <3> QED  BY <3>1, NewsNumbers DEF Asked
  <2>4. N!Answers(r) # <<>> /\ N!Last(N!Answers(r)) = heard[r][loaded[r]]
    <3>1. N!Answers(r) = SubSeq(heard[r], 1, loaded[r]) /\ Len(N!Answers(r)) = loaded[r]
      BY <2>1, <2>2 DEF N!Answers
    <3>2. N!Answers(r)[loaded[r]] = heard[r][loaded[r]]
      BY <2>1, <2>2 DEF N!Answers
    <3> QED  BY <3>1, <3>2, <2>1, <2>2 DEF N!Last
  <2>5. time - N!Last(N!Answers(r)).at <= MaxAge
    BY <2>1, <2>2, <2>3, <2>4
  <2>6. ASSUME NEW t \in N!Times, N!Near(t), N!IsSaid(r, t) PROVE FALSE
    <3>1. PICK i \in 1 .. loaded[r] :
             /\ t - heard[r][i].at \in 0 .. MaxAge + Blackout /\ t \in heard[r][i].said
             /\ \A j \in (i + 1) .. loaded[r] : heard[r][j].at > t
      BY <2>6 DEF N!IsSaid
    <3>2. heard[r][i] \in Asked
      BY <2>1
    <3>3. heard[r][i].at \in Nat /\ t \in Nat /\ MaxAge \in Nat /\ Blackout \in Nat /\ Retain \in Nat
          /\ Blackout < Retain
      BY <3>2, NewsNumbers DEF Asked
    <3>4. StillSaid(r, i, loaded[r], t)
      BY <3>1, <3>3 DEF StillSaid
    <3>5. t > time - Retain
      BY <2>1, <2>6, <3>3 DEF N!Near
    <3>6. i \in Nat
      OBVIOUS
    <3>7. t \in memory.releases[r]
      BY <3>4, <3>5, <3>6 DEF NewsInv, MemoryHolds
    <3> QED  BY <1>2, <2>6, <3>5, <3>7 DEF N!GateIsOpen, N!Remembered
  <2> QED  BY <2>4, <2>5, <2>6
<1> QED  BY <1>1, <1>2 DEF N!GateOpensOnWhatWasSaid

(* The gate opens only on a calendar that is recent and says that nothing is near (NewsService,   *)
(* evaluate_news_restriction).                                                                    *)
LEMMA NewsIsSafe ==
    ASSUME N!NewsAssumption PROVE N!Spec => [](N!NewsTypeOK /\ N!GateOpensOnWhatWasSaid)
<1>1. N!Init => NewsInv
  BY InitialNews
<1>2. NewsInv /\ [N!Next]_(N!newsVars) => NewsInv'
  <2> SUFFICES ASSUME NewsInv, [N!Next]_(N!newsVars) PROVE NewsInv'
    OBVIOUS
  <2>1. CASE N!Begins \/ N!Fetches \/ N!Fails \/ N!Marks \/ N!IsCut \/ N!Replaces
    BY <2>1, BeginsIsTrue, FetchesIsTrue, FailsIsTrue, MarksIsTrue, IsCutIsTrue, ReplacesIsTrue
  <2>2. CASE N!Loads \/ N!Restarts
    BY <2>2, LoadsIsTrue DEF N!Loads, N!Restarts
  <2>3. CASE N!Ticks \/ \E r \in N!Releases : N!Moves(r)
    BY <2>3, TheWorldMoves
  <2>4. CASE UNCHANGED N!newsVars
    <3>1. UNCHANGED <<time, upstream, releases, synced, memory, heard, loaded, refresh>>
      BY <2>4 DEF N!newsVars
    <3>2. refresh' \in Refreshes /\ RefreshIsTrue' /\ SyncsAreWhole'
      BY <3>1 DEF NewsInv, NewsTyped, RefreshIsTrue, SyncsAreWhole, HeardSince
    <3> QED  BY <3>1, <3>2, OnlyTheRefreshMoves
  <2> QED  BY <2>1, <2>2, <2>3, <2>4 DEF N!Next
<1>3. NewsInv => N!NewsTypeOK /\ N!GateOpensOnWhatWasSaid
  BY InvImpliesNews
<1> QED  BY <1>1, <1>2, <1>3, PTL DEF N!Spec

-----------------------------------------------------------------------------
(* The account's provider (services/providers.py, domain/providers/identity.py).*)

(* What is remembered, or being answered, was the account's contract when it was read.              *)
Recent(c, at) == c = contract \/ at <= until[c]
IdentityInv ==
    /\ I!IdentityTypeOK
    /\ \A c \in I!Contracts : until[c] <= minute
    /\ remembered.known => remembered.at <= minute /\ Recent(remembered.contract, remembered.at)
    /\ \A a \in Readers : asking[a].step # "idle" => Recent(asking[a].contract, minute)
    /\ answer.behind < Lifetime

LEMMA UnreadIsTyped == I!Unread \in I!TerminalFacts /\ \A t \in Terminals : I!IdentityAssumption => t \in I!TerminalFacts
BY DEF I!Unread, I!TerminalFacts, I!Absent, I!IdentityAssumption

(* An answer about a contract that was the account's at most a lifetime ago.                        *)
LEMMA AnswerIsRecent ==
    ASSUME I!IdentityAssumption, IdentityInv, NEW a \in Readers, NEW f \in I!TerminalFacts, NEW c \in I!Contracts, NEW at \in Nat,
           Recent(c, at), at <= minute, minute - at < Lifetime, I!Answers(a, f, c)
    PROVE  /\ answer' \in [facts : I!TerminalFacts, contract : I!Contracts, behind : Nat] /\ answer'.behind < Lifetime
           /\ asking' \in [Readers -> [step : {"idle", "asked", "reading"}, contract : I!Contracts]]
           /\ \A b \in Readers : asking'[b] = IF b = a THEN I!Idle ELSE asking[b]
<1>1. minute \in Nat /\ until[c] \in Nat /\ until[c] <= minute /\ Lifetime \in Nat \ {0}
  BY DEF IdentityInv, I!IdentityTypeOK, I!IdentityAssumption
<1>2. asking \in [Readers -> [step : {"idle", "asked", "reading"}, contract : I!Contracts]]
  BY DEF IdentityInv, I!IdentityTypeOK
<1>3. I!Idle \in [step : {"idle", "asked", "reading"}, contract : I!Contracts]
  BY DEF I!Idle, I!Contracts
<1> DEFINE behind == IF c = contract THEN 0 ELSE minute - until[c]
<1>4. behind \in Nat /\ behind < Lifetime
  BY <1>1 DEF Recent
<1> HIDE DEF behind
<1>5. answer' = [facts |-> f, contract |-> c, behind |-> behind]
  BY DEF I!Answers, behind
<1> QED  BY <1>2, <1>3, <1>4, <1>5 DEF I!Answers

LEMMA IdentityIsRecent ==
    ASSUME I!IdentityAssumption, IdentityInv, [I!Next]_(I!identityVars)
    PROVE  IdentityInv'
<1>0. /\ shown \in I!TerminalFacts /\ declared \in I!Declared /\ contract \in I!Contracts /\ linked \in BOOLEAN
      /\ until \in [I!Contracts -> Nat] /\ minute \in Nat
      /\ asking \in [Readers -> [step : {"idle", "asked", "reading"}, contract : I!Contracts]]
      /\ remembered \in [known : BOOLEAN, at : Nat, facts : I!TerminalFacts, contract : I!Contracts]
      /\ answer \in [facts : I!TerminalFacts, contract : I!Contracts, behind : Nat]
      /\ \A c \in I!Contracts : until[c] <= minute
      /\ remembered.known => remembered.at <= minute /\ Recent(remembered.contract, remembered.at)
      /\ \A a \in Readers : asking[a].step # "idle" => Recent(asking[a].contract, minute)
      /\ answer.behind < Lifetime /\ Lifetime \in Nat \ {0} /\ LastMinute \in Nat
  BY DEF IdentityInv, I!IdentityTypeOK, I!IdentityAssumption
<1>u. I!Unread \in I!TerminalFacts
  BY UnreadIsTyped
<1>1. ASSUME NEW a \in Readers, I!Asks(a) PROVE IdentityInv'
  <2>1. I!Unanswered \in [facts : I!TerminalFacts, contract : I!Contracts, behind : Nat] /\ I!Unanswered.behind = 0
    BY <1>u DEF I!Unanswered, I!Contracts
  <2>2. [step |-> "asked", contract |-> contract] \in [step : {"idle", "asked", "reading"}, contract : I!Contracts]
    BY <1>0
  <2> QED  BY <1>0, <1>1, <2>1, <2>2 DEF I!Asks, IdentityInv, I!IdentityTypeOK, Recent
<1>2. ASSUME NEW a \in Readers, I!Recalls(a) PROVE IdentityInv'
  <2>1. /\ answer' \in [facts : I!TerminalFacts, contract : I!Contracts, behind : Nat] /\ answer'.behind < Lifetime
        /\ asking' \in [Readers -> [step : {"idle", "asked", "reading"}, contract : I!Contracts]]
        /\ \A b \in Readers : asking'[b] = IF b = a THEN I!Idle ELSE asking[b]
    BY <1>0, <1>2, AnswerIsRecent DEF I!Recalls, I!Recalled
  <2> QED  BY <1>0, <1>2, <2>1 DEF I!Recalls, IdentityInv, I!IdentityTypeOK, Recent, I!Idle
<1>3. ASSUME NEW a \in Readers, I!AnswersUnlinked(a) \/ I!Fails(a) PROVE IdentityInv'
  <2>1. Recent(asking[a].contract, minute) /\ I!Answers(a, I!Unread, asking[a].contract)
    BY <1>0, <1>3 DEF I!AnswersUnlinked, I!Fails
  <2>2. /\ answer' \in [facts : I!TerminalFacts, contract : I!Contracts, behind : Nat] /\ answer'.behind < Lifetime
        /\ asking' \in [Readers -> [step : {"idle", "asked", "reading"}, contract : I!Contracts]]
        /\ \A b \in Readers : asking'[b] = IF b = a THEN I!Idle ELSE asking[b]
    BY <1>0, <1>u, <2>1, AnswerIsRecent
  <2> QED  BY <1>0, <1>3, <2>2 DEF I!AnswersUnlinked, I!Fails, IdentityInv, I!IdentityTypeOK, Recent, I!Idle
<1>4. ASSUME NEW a \in Readers, I!Begins(a) PROVE IdentityInv'
  <2>1. asking' \in [Readers -> [step : {"idle", "asked", "reading"}, contract : I!Contracts]]
    BY <1>0, <1>4 DEF I!Begins
  <2>2. \A b \in Readers : asking'[b].contract = asking[b].contract /\ (asking'[b].step # "idle" => asking[b].step # "idle")
    BY <1>0, <1>4 DEF I!Begins
  <2> QED  BY <1>0, <1>4, <2>1, <2>2 DEF I!Begins, IdentityInv, I!IdentityTypeOK, Recent
<1>5. ASSUME NEW a \in Readers, I!Reads(a) PROVE IdentityInv'
  <2>1. Recent(asking[a].contract, minute) /\ I!Answers(a, shown, asking[a].contract)
    BY <1>0, <1>5 DEF I!Reads
  <2>2. /\ answer' \in [facts : I!TerminalFacts, contract : I!Contracts, behind : Nat] /\ answer'.behind < Lifetime
        /\ asking' \in [Readers -> [step : {"idle", "asked", "reading"}, contract : I!Contracts]]
        /\ \A b \in Readers : asking'[b] = IF b = a THEN I!Idle ELSE asking[b]
    BY <1>0, <2>1, AnswerIsRecent
  <2>3. /\ remembered' \in [known : BOOLEAN, at : Nat, facts : I!TerminalFacts, contract : I!Contracts]
        /\ \/ remembered' = remembered
           \/ remembered'.at = minute /\ remembered'.contract = asking[a].contract
    BY <1>0, <1>5 DEF I!Reads
  <2> QED  BY <1>0, <1>5, <2>1, <2>2, <2>3, SMTT(20) DEF I!Reads, IdentityInv, I!IdentityTypeOK, Recent, I!Idle
<1>6. CASE I!Attaches \/ I!Forgets \/ I!DropIsCut
  <2>1. I!Forgotten \in [known : BOOLEAN, at : Nat, facts : I!TerminalFacts, contract : I!Contracts] /\ ~I!Forgotten.known
    BY <1>u DEF I!Forgotten, I!Contracts
  <2>2. CASE I!Attaches
    BY <1>0, <2>1, <2>2 DEF I!Attaches, IdentityInv, I!IdentityTypeOK, Recent
  <2>3. CASE I!Forgets
    BY <1>0, <2>1, <2>3 DEF I!Forgets, IdentityInv, I!IdentityTypeOK, Recent
  <2>4. CASE I!DropIsCut
    BY <1>0, <2>4 DEF I!DropIsCut, IdentityInv, I!IdentityTypeOK, Recent
  <2> QED  BY <1>6, <2>2, <2>3, <2>4
<1>7. CASE I!Declares
  <2>1. /\ contract' \in I!Contracts /\ until' \in [I!Contracts -> Nat]
        /\ \A c \in I!Contracts : until'[c] = IF c = contract THEN minute ELSE until[c]
    BY <1>0, <1>7 DEF I!Declares
  <2>2. /\ remembered.known => Recent(remembered.contract, remembered.at)'
        /\ \A a \in Readers : asking[a].step # "idle" => Recent(asking[a].contract, minute)'
    BY <1>0, <1>7, <2>1 DEF I!Declares, Recent
  <2> QED  BY <1>0, <1>7, <2>1, <2>2 DEF I!Declares, IdentityInv, I!IdentityTypeOK
<1>8. CASE I!Passes
  BY <1>0, <1>8 DEF I!Passes, IdentityInv, I!IdentityTypeOK, Recent
<1>9. CASE UNCHANGED I!identityVars
  BY <1>9 DEF I!identityVars, IdentityInv, I!IdentityTypeOK, Recent
<1> QED  BY <1>1, <1>2, <1>3, <1>4, <1>5, <1>6, <1>7, <1>8, <1>9 DEF I!Next, I!Identifies

(* Cardinality, in that module and in this one. *)
LEMMA IdentityCount == \A S : I!Cardinality(S) = Cardinality(S)
BY DEF I!Cardinality, Cardinality

(* Two names that point to nobody leave one: it cannot outnumber them.                              *)
LEMMA OneNameOfThree ==
    ASSUME NEW f, NEW p, NEW one \in I!Names, NEW two \in I!Names, one # two, f[one] = {}, f[two] = {}
    PROVE  I!Support(f, p) < I!Unmatched(f)
<1> DEFINE Pointing == {name \in I!Names : p \in f[name]}
           Blank == {name \in I!Names : f[name] = {}}
<1>1. PICK three \in I!Names : I!Names = {one, two, three}
  BY DEF I!Names
<1>2. Pointing \subseteq {three} /\ {one, two} \subseteq Blank /\ Blank \subseteq {one, two, three}
  BY <1>1
<1>3. IsFiniteSet({three}) /\ Cardinality({three}) = 1
  BY FS_Singleton
<1>4. IsFiniteSet({one, two}) /\ Cardinality({one, two}) = 2
  <2>1. IsFiniteSet({one}) /\ Cardinality({one}) = 1
    BY FS_Singleton
  <2>2. {one, two} = {one} \cup {two} /\ two \notin {one}
    OBVIOUS
  <2>3. IsFiniteSet({one} \cup {two}) /\ Cardinality({one} \cup {two}) = Cardinality({one}) + 1
    BY <2>1, <2>2, FS_AddElement
  <2> QED  BY <2>1, <2>2, <2>3
<1>5. IsFiniteSet({one, two, three})
  <2>1. {one, two, three} = {one, two} \cup {three}
    OBVIOUS
  <2> QED  BY <1>4, <2>1, FS_AddElement
<1>6. Cardinality(Pointing) <= 1 /\ Cardinality(Pointing) \in Nat
  BY <1>2, <1>3, FS_Subset, FS_CardinalityType
<1>7. Cardinality(Blank) >= 2 /\ Cardinality(Blank) \in Nat
  BY <1>2, <1>4, <1>5, FS_Subset, FS_CardinalityType
<1> QED  BY <1>6, <1>7, IdentityCount DEF I!Support, I!Unmatched

LEMMA SupportIsANumber == \A f, p : I!Support(f, p) \in Nat /\ I!Unmatched(f) \in Nat
<1> SUFFICES ASSUME NEW f, NEW p PROVE I!Support(f, p) \in Nat /\ I!Unmatched(f) \in Nat
  OBVIOUS
<1>1. IsFiniteSet({"server", "company"} \cup {"terminal"})
  <2>1. IsFiniteSet({"server"}) /\ {"server", "company"} = {"server"} \cup {"company"}
    BY FS_Singleton
  <2> QED  BY <2>1, FS_AddElement
<1>2. IsFiniteSet(I!Names)
  <2>1. I!Names = {"server", "company"} \cup {"terminal"}
    BY DEF I!Names
  <2> QED  BY <1>1, <2>1
<1> QED  BY <1>2, IdentityCount, FS_Subset, FS_CardinalityType DEF I!Support, I!Unmatched

LEMMA ExecutableIsTrustworthy ==
    ASSUME NEW f \in I!TerminalFacts, NEW d \in I!Declared, NEW c \in I!Contracts, I!Executable(f, d, c)
    PROVE  I!Trustworthy(f, d, c)
<1> DEFINE p == d.provider
<1>1. /\ p \in I!Providers /\ I!IsOf(f, p) /\ I!Support(f, p) >= I!Unmatched(f)
      /\ f.server # I!Absent /\ f.company # I!Absent
  BY DEF I!Executable, I!NotIdentified, I!Confirmed, I!FactsMissing, I!Declared
<1>2. \A name \in I!Names : f[name] \in {I!Absent} \cup SUBSET I!Providers
  BY DEF I!Names, I!TerminalFacts
<1>3. \A name \in I!Names : f[name] \in {I!Absent, {p}, {}}
  <2> SUFFICES ASSUME NEW name \in I!Names, f[name] # I!Absent PROVE f[name] \in {{p}, {}}
    OBVIOUS
  <2>1. \A q \in f[name] : q \in I!Named(f)
    BY <1>2 DEF I!Named
  <2> QED  BY <1>1, <2>1 DEF I!IsOf
<1>4. ASSUME NEW one \in I!Names, NEW two \in I!Names, f[one] = {}, f[two] = {} PROVE one = two
  BY <1>1, <1>4, OneNameOfThree, SupportIsANumber
<1>5. \E name \in I!Names : f[name] = {p}
  <2>1. p \in I!Named(f)
    BY <1>1 DEF I!IsOf
  <2>2. PICK name \in I!Names : p \in f[name]
    BY <2>1 DEF I!Named
  <2> QED  BY <1>1, <1>3, <2>2 DEF I!Absent, I!Providers
<1>6. ASSUME p = "exness", f.mode = "real" PROVE d.environment = "live" /\ c = "unknown"
  <2>1. I!IsReal(f, p)
    BY <1>6 DEF I!IsReal, I!Simulated
  <2>2. d.environment = "live"
    BY <1>1, <2>1 DEF I!Executable, I!WrongEnvironment
  <2>3. ~I!Rehearses(c, p)
    BY <1>1, <2>1 DEF I!Executable, I!RehearsedOnReal
  <2> QED  BY <1>6, <2>2, <2>3 DEF I!Rehearses, I!ProviderOf, I!Contracts
<1>7. ASSUME p = "ftmo" PROVE c = "challenge"
  <2>1. I!RulesOf(f, c) = c
    <3>1. ASSUME NEW q \in I!Providers, I!IsOf(f, q) PROVE q = p
      BY <1>1, <3>1 DEF I!IsOf
    <3>2. (CHOOSE q \in I!Providers : I!IsOf(f, q)) = p
      BY <1>1, <3>1
    <3> QED  BY <1>7, <3>2 DEF I!RulesOf, I!Carried
  <2> QED  BY <2>1 DEF I!Executable, I!ProductUnknown, I!Unsourced, I!Sourced, I!Contracts
<1> QED  BY <1>3, <1>4, <1>5, <1>6, <1>7 DEF I!Trustworthy

(* Nothing trades on an account its terminal does not name, however the cache, the link and the   *)
(* declarations move (identify, _identification).                                                 *)
LEMMA IdentityIsSafe == I!IdentityAssumption => (I!Spec => [](I!IdentityTypeOK /\ I!TradesAsIdentified))
<1> SUFFICES ASSUME I!IdentityAssumption PROVE I!Spec => [](I!IdentityTypeOK /\ I!TradesAsIdentified)
  OBVIOUS
<1>1. I!Init => IdentityInv
  <2>1. I!Unread \in I!TerminalFacts
    BY UnreadIsTyped
  <2> SUFFICES ASSUME I!Init PROVE IdentityInv
    OBVIOUS
  <2>2. "unknown" \in I!Contracts
    BY DEF I!Contracts
  <2>3. I!Forgotten \in [known : BOOLEAN, at : Nat, facts : I!TerminalFacts, contract : I!Contracts] /\ ~I!Forgotten.known
    BY <2>1, <2>2 DEF I!Forgotten
  <2>4. I!Unanswered \in [facts : I!TerminalFacts, contract : I!Contracts, behind : Nat] /\ I!Unanswered.behind = 0
    BY <2>1, <2>2 DEF I!Unanswered
  <2>5. I!Idle \in [step : {"idle", "asked", "reading"}, contract : I!Contracts] /\ I!Idle.step = "idle"
    BY <2>2 DEF I!Idle
  <2>6. /\ shown \in I!TerminalFacts /\ declared \in I!Declared /\ contract \in I!Contracts /\ linked \in BOOLEAN
        /\ minute = 0 /\ until = [c \in I!Contracts |-> 0] /\ Lifetime \in Nat \ {0}
    BY <2>2 DEF I!Init, I!IdentityAssumption
  <2>7. asking = [a \in Readers |-> I!Idle] /\ remembered = I!Forgotten /\ answer = I!Unanswered
    BY DEF I!Init
  <2>8. I!IdentityTypeOK
    BY <2>3, <2>4, <2>5, <2>6, <2>7 DEF I!IdentityTypeOK
  <2> QED  BY <2>3, <2>4, <2>5, <2>6, <2>7, <2>8 DEF IdentityInv
<1>2. IdentityInv /\ [I!Next]_(I!identityVars) => IdentityInv'
  BY IdentityIsRecent
<1>3. IdentityInv => I!IdentityTypeOK /\ I!TradesAsIdentified
  BY ExecutableIsTrustworthy DEF IdentityInv, I!IdentityTypeOK, I!TradesAsIdentified
<1> QED  BY <1>1, <1>2, <1>3, PTL DEF I!Spec

-----------------------------------------------------------------------------
(* Every step of the desk is one of a component or leaves it alone: the desk implements each of them. *)
LEMMA RiskLimitsRuns == Spec => K!Spec
<1>1. Init => K!Init
  BY DEF Init
<1>2. [Next]_deskVars => [K!Next]_(K!vars)
  BY DEF Next, Connects, ClosesAll, Reconciles, Tracks, Sizes, Anchors,
         Rules, Schedules, Evaluates, Streams, Identifies, deskVars, accounts, closeAll, reconciliation, positions, exposure,
         floors, rules, calendar, strategy, stream, identity, K!vars
<1> QED  BY <1>1, <1>2, PTL DEF Spec, K!Spec

LEMMA LossFloorsRuns == Spec => F!Spec
<1>1. Init => F!Init
  BY DEF Init
<1>2. [Next]_deskVars => [F!Next]_(F!vars)
  BY DEF Next, Connects, ClosesAll, Reconciles, Tracks, Sizes, Anchors,
         Rules, Schedules, Evaluates, Streams, Identifies, deskVars, accounts, closeAll, reconciliation, positions, exposure,
         floors, rules, calendar, strategy, stream, identity, F!vars
<1> QED  BY <1>1, <1>2, PTL DEF Spec, F!Spec

LEMMA NewsCalendarRuns == Spec => N!Spec
<1>1. Init => N!Init
  BY DEF Init
<1>2. [Next]_deskVars => [N!Next]_(N!newsVars)
  BY DEF Next, Connects, ClosesAll, Reconciles, Tracks, Sizes, Anchors,
         Rules, Schedules, Evaluates, Streams, Identifies, deskVars, accounts, closeAll, reconciliation, positions, exposure,
         floors, rules, calendar, strategy, stream, identity, N!newsVars
<1> QED  BY <1>1, <1>2, PTL DEF Spec, N!Spec

LEMMA IdentificationRuns == Spec => I!Spec
<1>1. Init => I!Init
  BY DEF Init
<1>2. [Next]_deskVars => [I!Next]_(I!identityVars)
  BY DEF Next, Connects, ClosesAll, Reconciles, Tracks, Sizes, Anchors,
         Rules, Schedules, Evaluates, Streams, Identifies, deskVars, accounts, closeAll, reconciliation, positions, exposure,
         floors, rules, calendar, strategy, stream, identity, I!identityVars
<1> QED  BY <1>1, <1>2, PTL DEF Spec, I!Spec

-----------------------------------------------------------------------------
(* Hitting every stop leaves the day, the week, the account and the provider's floors within their   *)
(* limits, for every capital, grid and limit (risk_allowance, size_position); the floors stand on the *)
(* midnights they are named for, for any deals, days and readers (ProviderService); the gate opens on *)
(* what the calendar last said, for any releases and dates (NewsService); and nothing trades on an    *)
(* account its terminal does not name, for any terminals, declarations and lifetime (identify).       *)
(* Assumed: the account as its limits are stated, and a history that is settled around midnights; TLC *)
(* finds the limits passed, or a floor missed, without any part of the two.                          *)
THEOREM LossesStayWithinLimits ==
    ASSUME WithinCapital, DealsAreSeen
    PROVE  Spec => []LimitsHold
<1>1. K!Spec => [](K!RiskTypeOK /\ K!LimitsHold)
  <2>1. RiskAssumptions
    BY DeskAssumption DEF DeskAssumption, RiskAssumptions
  <2> QED  BY <2>1, RiskIsSafe
<1>2. F!Spec => [](F!FloorsTypeOK /\ F!FloorsAreMidnights)
  BY FloorsAreSafe, DeskAssumption DEF DeskAssumption
<1>3. N!Spec => [](N!NewsTypeOK /\ N!GateOpensOnWhatWasSaid)
  BY NewsIsSafe, DeskAssumption DEF DeskAssumption
<1>4. I!Spec => [](I!IdentityTypeOK /\ I!TradesAsIdentified)
  BY IdentityIsSafe, DeskAssumption DEF DeskAssumption
<1>5. /\ K!RiskTypeOK /\ K!LimitsHold
      /\ F!FloorsTypeOK /\ F!FloorsAreMidnights
      /\ N!NewsTypeOK /\ N!GateOpensOnWhatWasSaid
      /\ I!IdentityTypeOK /\ I!TradesAsIdentified
      => LimitsHold
  BY DEF LimitsHold
<1> QED
  BY <1>1, <1>2, <1>3, <1>4, <1>5, RiskLimitsRuns, LossFloorsRuns, NewsCalendarRuns, IdentificationRuns, PTL
=============================================================================
