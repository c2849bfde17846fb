----------------------------- MODULE RiskLimits -----------------------------
(* What the Risk Engine lets an account lose (services/risk.py, domain/risk): reviews approve     *)
(* trades one after another, positions lose up to their stops, days and weeks begin, and each     *)
(* review measures what is left from what it can read.                                           *)
(*                                                                                                *)
(* Money is counted in whole units; a percentage of the code is a number of units too, Capital    *)
(* units being the 100 % of the initial capital.  The open positions are summed: open is what     *)
(* they lose if every stop is hit, floating what they show now.  The checks that only refuse      *)
(* (session, news, health...) are facts a review may meet: what each makes of it is Refusals.     *)
EXTENDS Integers, FiniteSets, FiniteSetsExt

CONSTANTS
    Capital,        \* the initial capital (reference_balance)
    Ceiling,        \* bound: no close brings the balance above it
    FloatUp,        \* bound: what the open positions may show above their entries
    Lowest, Highest,        \* the levels of the performance grid, in percent
    Grid,           \* the grid: level |-> units, 0 at the lowest level only
    PerTrade,       \* max_risk_per_trade_percent
    Trigger,        \* absolute_loss_trigger_amount
    TriggerCap,     \* absolute_loss_risk_cap_percent
    N8Minimum,      \* N8's smallest unit; 0: N8 is off, or not configured
    OpenMax,        \* max_open_risk_percent
    Daily, Weekly, Total,           \* the personal loss limits
    ProviderDaily, ProviderMax,     \* the provider's amounts
    Trailing,       \* BOOLEAN: the maximum floor follows the highest midnight balance
    Step,           \* what one volume step loses at the stop
    Overlap,        \* BOOLEAN: a review may run while an approved trade is not yet a position
    Facts           \* the non-numeric facts a review may meet

CapitalAssumption ==
    /\ Capital \in Nat \ {0} /\ Ceiling \in Nat /\ Ceiling >= Capital /\ FloatUp \in Nat
    /\ Step \in Nat \ {0} /\ Trailing \in BOOLEAN /\ Overlap \in BOOLEAN
LimitsAssumption ==
    /\ {PerTrade, Trigger, TriggerCap, N8Minimum, OpenMax, Daily, Weekly, Total, ProviderDaily, ProviderMax} \subseteq Nat
    /\ Total < Capital /\ ProviderMax < Capital
\* apply_provider_ceilings: the personal limits are brought under the provider's.
CeilingsAssumption == Daily <= ProviderDaily /\ Total <= ProviderMax
\* Levels are whole percents, one row each; only the lowest is a stop (_grid_is_safe).
GridAssumption ==
    /\ Lowest \in Int /\ Highest \in Nat /\ Lowest < 0
    /\ Grid \in [Lowest..Highest -> Nat]
    /\ \A level \in Lowest..Highest : Grid[level] = 0 <=> level = Lowest

VARIABLES
    balance, floating, open,
    unseen,         \* the risk of an approved trade that is not a position yet; 0: none
    dayStart, weekStart,        \* the equity the day and the week began with
    midnight, highest,          \* the provider's references: the balance at 00:00, and the highest
    lastLost        \* the last decisive trade lost

vars == <<balance, floating, open, unseen, dayStart, weekStart, midnight, highest, lastLost>>
anchors == <<dayStart, weekStart, midnight, highest>>

Equity == balance + floating
Least(a, b) == IF a <= b THEN a ELSE b
AtLeastZero(n) == IF n >= 0 THEN n ELSE 0

RiskTypeOK ==
    /\ balance \in Int /\ floating \in Int /\ open \in Nat /\ unseen \in Nat
    /\ dayStart \in Int /\ weekStart \in Int /\ midnight \in Int /\ highest \in Int
    /\ lastLost \in BOOLEAN
    /\ -open <= floating /\ floating <= FloatUp /\ balance <= Ceiling

Init ==
    /\ balance = Capital /\ floating = 0 /\ open = 0 /\ unseen = 0
    /\ dayStart = Capital /\ weekStart = Capital /\ midnight = Capital /\ highest = Capital
    /\ lastLost = FALSE

-----------------------------------------------------------------------------
(* What a review meets that is not a number: each fact is at least one refusal. *)
Problems ==     \* _build: the account is unhealthy, and _with_problems says system_degraded
    {"not connected", "snapshot old", "trading not allowed in the terminal", "database down",
     "broker clock unmeasured", "day start unknown", "week start unknown", "feed stale", "SAFE"}
Unread ==       \* what leaves the start of the day, or of the week, unread
    {"database down", "broker clock unmeasured", "day start unknown", "week start unknown"}
Gated ==        \* the gates, and the flags of the account's plumbing
    {"agent absent", "agent not ready", "trading disabled", "autonomy", "kill switch", "lockout",
     "calendar unknown", "blackout", "outside the windows", "no tick", "spread too wide",
     "position without a stop", "position unmeasured", "correlated", "position limit",
     "trades of the day", "loss streak", "symbol not allowed"}
Intended ==     \* _intent_failures, and what sizing raises
    {"specification missing", "specification incomplete", "stop on the wrong side",
     "target on the wrong side", "cost too high", "symbol not tradable", "stop too close"}
ByProvider ==   \* provider_checks
    {"account not identified", "provider reference unknown", "provider news",
     "provider break", "provider requests"}

\* Mutant: the plumbing's problems are not added to the reasons.
RefusalsWithoutProblems(facts) == facts \cap (Gated \cup Intended \cup ByProvider)
Refusals(facts) == facts \cap (Problems \cup Gated \cup Intended \cup ByProvider)

-----------------------------------------------------------------------------
(* The allowance of one trade: the least of its caps. *)
\* loss_percent: the loss since a start, which reads as none while the start is unread.
LossSince(start, facts) == IF facts \cap Unread # {} THEN 0 ELSE AtLeastZero(start - Equity)
\* open_risk: of the balance, rounded to the nearest.
OpenPercent == IF balance > 0 THEN (2 * open * Capital + balance) \div (2 * balance) ELSE 0
\* Mutant: what is open is not yet lost.
LeftAfterLosses(limit, used) == AtLeastZero(limit - used)
\* Open risk counts in full against every limit.
Left(limit, used) == AtLeastZero(limit - used - OpenPercent)

PersonalBudgets(facts) ==
    {Left(Daily, LossSince(dayStart, facts)), Left(Weekly, LossSince(weekStart, facts)),
     Left(Total, AtLeastZero(Capital - Equity))}
MaxReference == IF Trailing THEN highest ELSE Capital
ProviderBudgets == {Left(ProviderDaily, midnight - Equity), Left(ProviderMax, MaxReference - Equity)}

\* The whole percent the performance has reached, truncated toward zero and kept on the grid.
Percent(n) == IF n >= 0 THEN (n * 100) \div Capital ELSE -((-n * 100) \div Capital)
Level == LET reached == Percent(Equity - Capital) IN
         IF reached < Lowest THEN Lowest ELSE Least(reached, Highest)

TriggerCaps == IF Capital - Equity >= Trigger THEN {TriggerCap} ELSE {}
\* evaluate_n8: after a loss, after its cycle of wins, under the initial capital, or not knowing.
N8Caps(facts) ==
    IF N8Minimum > 0 /\ (lastLost \/ Equity < Capital \/ facts \cap {"cycle of wins", "database down"} # {})
    THEN {N8Minimum} ELSE {}
\* resolve_risk_allowance: 0 is a refusal, the stop row or an exhausted budget.
Caps(facts) ==
    {Grid[Level], PerTrade} \cup TriggerCaps \cup N8Caps(facts) \cup PersonalBudgets(facts) \cup ProviderBudgets
Allowance(facts) == IF Equity > 0 THEN Min(Caps(facts)) ELSE 0

\* size_position: on the lower of the two measures, floored to the volume step.
Sized(units) == (((units * Least(balance, Equity)) \div Capital) \div Step) * Step
\* decide: the open risk after the trade, in percent of the balance.
FitsOpenRisk(risk) == (open + risk) * Capital <= OpenMax * balance

\* The hard gates: a limit that is reached, and the provider's floor.
GatesBlock(facts) ==
    \/ LossSince(dayStart, facts) >= Daily \/ LossSince(weekStart, facts) >= Weekly
    \/ AtLeastZero(Capital - Equity) >= Total
    \/ Equity <= midnight - ProviderDaily \/ Equity <= MaxReference - ProviderMax
    \/ open * Capital > OpenMax * balance

-----------------------------------------------------------------------------
\* review, to an approval: a refusal changes nothing here.  The picture it reads shows the
\* positions, not the approved trades and the resting orders that are none yet.
Approves(facts) ==
    LET risk == Sized(Allowance(facts)) IN
    /\ Overlap \/ unseen = 0
    /\ Refusals(facts) = {} /\ ~GatesBlock(facts)
    /\ risk > 0 /\ FitsOpenRisk(risk)
    /\ unseen' = unseen + risk
    /\ UNCHANGED <<balance, floating, open, anchors, lastLost>>

\* What was approved fills, or never does.
Fills ==
    /\ unseen > 0
    /\ open' = open + unseen /\ unseen' = 0
    /\ UNCHANGED <<balance, floating, anchors, lastLost>>
NeverFills ==
    /\ unseen > 0 /\ unseen' = 0
    /\ UNCHANGED <<balance, floating, open, anchors, lastLost>>

\* Prices move, between the stops and FloatUp.
PricesMove ==
    /\ open > 0 /\ floating' \in (-open)..FloatUp
    /\ UNCHANGED <<balance, open, unseen, anchors, lastLost>>

\* A position that risked some of it closes, at its stop at worst.
Closes(risk, result) ==
    /\ risk <= open /\ -risk <= result /\ balance + result <= Ceiling
    /\ open' = open - risk /\ balance' = balance + result
    /\ floating' \in (-(open - risk))..FloatUp
    /\ lastLost' = IF result = 0 THEN lastLost ELSE result < 0
    /\ UNCHANGED <<unseen, anchors>>

\* _today, _estimate_day_start: the equity seen when the day begins; the provider's reference is
\* the balance at its own midnight.
DayBegins ==
    /\ dayStart' = Equity /\ midnight' = balance
    /\ highest' = IF balance > highest THEN balance ELSE highest
    /\ UNCHANGED <<balance, floating, open, unseen, weekStart, lastLost>>
WeekBegins ==
    /\ weekStart' = Equity
    /\ UNCHANGED <<balance, floating, open, unseen, dayStart, midnight, highest, lastLost>>

Next ==
    \/ \E facts \in SUBSET Facts : Approves(facts)
    \/ Fills \/ NeverFills \/ PricesMove \/ DayBegins \/ WeekBegins
    \/ \E risk \in 1..open : \E result \in (-risk)..(Ceiling - balance) : Closes(risk, result)
Spec == Init /\ [][Next]_vars

-----------------------------------------------------------------------------
\* What the account is left with if every stop is hit.
Worst == balance - open - unseen

\* "The budgets use the unrounded usage: a rounded 4.96 % must not buy 0.04 % more than there is"
\* (risk_allowance): whatever was approved, lost, carried over a midnight or unreadable, hitting every
\* stop leaves the day, the week, the account and the provider's floors within their limits.
LimitsHold ==
    /\ Worst >= dayStart - Daily /\ Worst >= weekStart - Weekly /\ Worst >= Capital - Total
    /\ Worst >= midnight - ProviderDaily /\ Worst >= MaxReference - ProviderMax
=============================================================================
