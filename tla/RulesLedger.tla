------------------------------ MODULE RulesLedger ------------------------------
(***************************************************************************)
(* The rules of the accounts (domain/accounts/rules_ledger.py): append-only *)
(* versions, and the anti-tilt rule (anti_tilt.py) that decides whether a    *)
(* change applies at once or from the next trading day. services/accounts.py *)
(* and the tables account_rule_versions, trading_day_anchors, position_opens.*)
(*                                                                         *)
(* The clock ticks twice a day. Accounts need not share their midnight.     *)
(***************************************************************************)
EXTENDS Integers, FiniteSets

CONSTANTS
    Accounts,
    Midnight,      \* the parity of the tick at which each account's day starts
    MaxTime,       \* bound: the last tick
    Versions       \* the changes that may be requested

VARIABLES
    now,
    anchors,       \* trading_day_anchors: the recorded day starts of each account
    opens,         \* position_opens: when each account opened
    holding,       \* the account connected, and whether it holds an open position; or nobody
    versions,      \* account_rule_versions
    request,       \* request_rules, between its guard and its append
    withdrawal     \* cancel_rules, between its read and its UPDATE

rulesVars == <<now, anchors, opens, holding, versions, request, withdrawal>>

Nobody == "nobody"
NoRequest == [on |-> Nobody, id |-> Nobody, at |-> 0, deferred |-> FALSE]
Times == 0 .. MaxTime

RulesAssumption ==
    /\ MaxTime \in Nat /\ Midnight \in [Accounts -> {0, 1}]
    /\ Nobody \notin Accounts \cup Versions

RulesTypeOK ==
    /\ now \in Times
    /\ anchors \in [Accounts -> SUBSET Times] /\ opens \in [Accounts -> SUBSET Times]
    /\ holding \in [account : Accounts \cup {Nobody}, open : BOOLEAN]
    /\ \A id \in DOMAIN versions :
        versions[id] \in [on : Accounts, at : Times, deferred : BOOLEAN, cancelled : BOOLEAN]
    /\ DOMAIN versions \subseteq Versions
    /\ withdrawal \in Versions \cup {Nobody}

Init ==
    /\ now = 0
    /\ anchors = [a \in Accounts |-> {}] /\ opens = [a \in Accounts |-> {}]
    /\ holding = [account |-> Nobody, open |-> FALSE]
    /\ versions = <<>>
    /\ request = NoRequest /\ withdrawal = Nobody

MaxOf(s) == CHOOSE t \in s : \A u \in s : u <= t

-----------------------------------------------------------------------------
(* What applies.                                                           *)

\* The anchor that risk.today reads: the last one recorded.
Anchored(a, t) == anchors[a] # {} /\ MaxOf(anchors[a]) > t

\* is_in_effect: applied at once, or requested before the start of the current day.
InEffect(id) ==
    LET v == versions[id] IN ~v.cancelled /\ (v.deferred => Anchored(v.on, v.at))

\* resolve_rules: the newest that is in effect.
Source(a) ==
    LET mine == {id \in DOMAIN versions : versions[id].on = a /\ InEffect(id)} IN
    IF mine = {} THEN Nobody ELSE CHOOSE id \in mine : \A other \in mine : versions[other].at <= versions[id].at

-----------------------------------------------------------------------------
(* The anti-tilt rule.                                                     *)

\* session_facts: the latest anchor is under 25 hours old, and what opened since.
TradesToday(a) ==
    /\ anchors[a] # {} /\ MaxOf(anchors[a]) + 2 >= now
    /\ \E t \in opens[a] : t >= MaxOf(anchors[a])

\* Mutant: only the account that is connected is looked at.
GuardDefersConnected ==
    \/ holding.account = Nobody \/ holding.open
    \/ TradesToday(holding.account)
\* decide: no live account, a position open on it, or a trade today on any account.
GuardDefers ==
    \/ holding.account = Nobody \/ holding.open
    \/ \E a \in Accounts : TradesToday(a)

\* request_rules: the time, then the guard ...
Guards(id, a) ==
    /\ request = NoRequest /\ id \notin DOMAIN versions
    /\ request' = [on |-> a, id |-> id, at |-> now, deferred |-> GuardDefers]
    /\ UNCHANGED <<now, anchors, opens, holding, versions, withdrawal>>

\* ... then the append.
Appends ==
    /\ request # NoRequest
    /\ versions' = [id \in DOMAIN versions \cup {request.id} |->
                      IF id = request.id
                        THEN [on |-> request.on, at |-> request.at, deferred |-> request.deferred, cancelled |-> FALSE]
                        ELSE versions[id]]
    /\ request' = NoRequest
    /\ UNCHANGED <<now, anchors, opens, holding, withdrawal>>

\* A day that has started since, on any account: the change may have governed it.
DayStartedSince(id) == \E a \in Accounts : Anchored(a, versions[id].at)
Withdrawable(id) == versions[id].deferred /\ ~versions[id].cancelled /\ ~DayStartedSince(id)

\* try_cancel: cancel_outcome of what was read ...
Reads(id) ==
    /\ withdrawal = Nobody /\ id \in DOMAIN versions /\ Withdrawable(id)
    /\ withdrawal' = id
    /\ UNCHANGED <<now, anchors, opens, holding, versions, request>>

\* Mutant: the UPDATE trusts what was read.
StillWithdrawableAsRead(id) == versions[id].deferred /\ ~versions[id].cancelled
\* ... and the same conditions in the UPDATE.
StillWithdrawable(id) == Withdrawable(id)

Withdraws ==
    /\ withdrawal # Nobody
    /\ versions' = IF StillWithdrawable(withdrawal)
                     THEN [versions EXCEPT ![withdrawal].cancelled = TRUE] ELSE versions
    /\ withdrawal' = Nobody
    /\ UNCHANGED <<now, anchors, opens, holding, request>>

-----------------------------------------------------------------------------
(* The rest of the system.                                                 *)

Ticks ==
    /\ now < MaxTime /\ now' = now + 1
    /\ UNCHANGED <<anchors, opens, holding, versions, request, withdrawal>>

\* The start of the day an instant is in.
DayOf(a, t) == IF t % 2 = Midnight[a] THEN t ELSE t - 1

\* record_anchor: the start of the current day of the connected account, when a risk cycle reaches it.
RecordsAnchor ==
    /\ holding.account # Nobody
    /\ LET a == holding.account IN
        /\ DayOf(a, now) \in Times \ anchors[a]
        /\ anchors' = [anchors EXCEPT ![a] = @ \cup {DayOf(a, now)}]
    /\ UNCHANGED <<now, opens, holding, versions, request, withdrawal>>

\* record_open, as the poll sees it. A trade is judged by the risk engine, which has anchored the day.
Opens ==
    /\ holding.account # Nobody /\ ~holding.open
    /\ DayOf(holding.account, now) \in anchors[holding.account]
    /\ opens' = [opens EXCEPT ![holding.account] = @ \cup {now}]
    /\ holding' = [holding EXCEPT !.open = TRUE]
    /\ UNCHANGED <<now, anchors, versions, request, withdrawal>>

\* A position is closed; an account is connected or, without a position, left (the guards refuse it otherwise).
Moves ==
    /\ \/ holding.open /\ holding' = [holding EXCEPT !.open = FALSE]
       \/ ~holding.open /\ \E a \in Accounts \cup {Nobody} : holding' = [account |-> a, open |-> FALSE]
    /\ holding' # holding
    /\ UNCHANGED <<now, anchors, opens, versions, request, withdrawal>>

-----------------------------------------------------------------------------
Next ==
    \/ Ticks \/ RecordsAnchor \/ Opens \/ Moves \/ Appends \/ Withdraws
    \/ \E id \in Versions : Reads(id) \/ \E a \in Accounts : Guards(id, a)

Spec == Init /\ [][Next]_rulesVars
-----------------------------------------------------------------------------
(* What the ledger promises.                                               *)

\* A change that governs is never withdrawn: whatever day starts between the read of the change and the
\* UPDATE that withdraws it, on whichever account, the rules an account is under do not fall back.
GoverningRulesStay ==
    [][\A id \in DOMAIN versions : InEffect(id) => ~versions'[id].cancelled]_rulesVars

\* No change of rules reaches a day that was being traded when it was asked for: a version that applies at
\* once was requested when no account, connected or not, had opened a trade in the day it was in.
ChangesWaitForTheDay ==
    \A id \in DOMAIN versions : ~versions[id].deferred =>
        \A a \in Accounts : \A t \in opens[a] :
            t < versions[id].at => DayOf(a, t) < DayOf(a, versions[id].at)
=============================================================================
