---------------------------------- MODULE Desk ----------------------------------
(***************************************************************************)
(* The records of the desk: the accounts and their one terminal, the         *)
(* close-all batch, the reconciliation, the positions, the limits and       *)
(* floors of the risk, the rules, the news, the strategy's setups and the   *)
(* cockpit's stream. A behaviour is one of them (part); what the others do  *)
(* to it are actions of its environment.                                    *)
(***************************************************************************)
EXTENDS Integers

CONSTANTS
    AccountIds, Users, Reviver, AccountFaults,
    Targets, Foreign, Callers, CloseAllFaults,
    Commands, ByHand, Records,
    Positions, MaxCloseAttempts, TrackingFaults,
    Capital, Ceiling, FloatUp, Lowest, Highest, Grid, PerTrade, Trigger, TriggerCap, N8Minimum, OpenMax,
    Daily, Weekly, Total, ProviderDaily, ProviderMax, Trailing, Step, Overlap, Facts,
    Balance, MaxDeals, MaxDays, Readers, FloorFaults,
    Midnight, LastTick, Versions,
    Whitelist, Dates, LastInstant, MaxRefreshes, MaxAge, Blackout, Retain, Keep,
    Setups, Acts, MaxCandles, StrategyFaults,
    Clients, Shown, Capacity, MaxFacts, MaxSnapshots, StreamFaults,
    Terminals, Declarations, Lifetime, LastMinute, IdentityFaults

VARIABLES
    part,
    accRow, sessions, connecting, failed, orphans, active, lock, accTask, wanted, warm,
    open, picture, confirmed, plan, recorded, rows, verified, batch,
    limits, real, listed, bare, hand, recRow, ripe, recRun, report,
    life, complete, old, baselined, known, waiting, attempts, opens, closes, news, poll, troubled,
    balance, floating, risked, unseen, dayStart, weekStart, midnight, highest, lastLost,
    deals, day, early, cut, snapshot, stored, cache, reader,
    now, anchors, openings, holding, versions, request, withdrawal,
    time, upstream, releases, synced, memory, refresh, refreshes, heard, loaded,
    market, mode, pending, lastCandle, failing, pass, intents, decision, sent,
    fact, told, link, view, owed, got,
    shown, linked, declared, contract, until, minute, asking, remembered, answer

A == INSTANCE Accounts WITH row <- accRow, task <- accTask
C == INSTANCE CloseAll WITH run <- batch
R == INSTANCE Reconciliation WITH row <- recRow, run <- recRun
P == INSTANCE PositionTracking WITH told <- complete
K == INSTANCE RiskLimits WITH open <- risked
F == INSTANCE LossFloors WITH task <- reader
G == INSTANCE RulesLedger WITH Accounts <- AccountIds, MaxTime <- LastTick, opens <- openings
N == INSTANCE NewsCalendar WITH MaxTime <- LastInstant, now <- time, rows <- releases, known <- loaded
Q == INSTANCE Strategy
W == INSTANCE Stream WITH Accounts <- Shown
I == INSTANCE Identification WITH Askers <- Readers

ASSUME DeskAssumption ==
    /\ A!AccountsAssumption /\ C!CloseAllAssumption /\ R!ReconciliationAssumption
    /\ K!CapitalAssumption /\ K!LimitsAssumption /\ K!CeilingsAssumption /\ K!GridAssumption
    /\ F!BalanceAssumption /\ N!NewsAssumption /\ I!IdentityAssumption
    /\ P!TrackingAssumption /\ G!RulesAssumption /\ Q!StrategyAssumption /\ W!StreamAssumption

accounts == <<accRow, sessions, connecting, failed, orphans, active, lock, accTask, wanted, warm>>
closeAll == <<open, picture, confirmed, plan, recorded, rows, verified, batch>>
reconciliation == <<limits, real, listed, bare, hand, recRow, ripe, recRun, report>>
positions == <<life, complete, old, baselined, known, waiting, attempts, opens, closes, news, poll, troubled>>
exposure == <<balance, floating, risked, unseen, dayStart, weekStart, midnight, highest, lastLost>>
floors == <<deals, day, early, cut, snapshot, stored, cache, reader>>
rules == <<now, anchors, openings, holding, versions, request, withdrawal>>
calendar == <<time, upstream, releases, synced, memory, refresh, refreshes, heard, loaded>>
strategy == <<market, mode, pending, lastCandle, failing, pass, intents, decision, sent>>
stream == <<fact, told, link, view, owed, got>>
identity == <<shown, linked, declared, contract, until, minute, asking, remembered, answer>>
deskVars ==
    <<part, accounts, closeAll, reconciliation, positions, exposure, floors, rules, calendar, strategy, stream, identity>>

\* The parts that do not run have one initial state.
Init ==
    /\ part \in {"accounts", "close all", "reconciliation", "positions", "risk", "floors", "rules", "news",
                "strategy", "stream", "identity"}
    /\ A!Init /\ C!Init /\ R!Init /\ P!Init /\ K!Init /\ F!Init /\ G!Init /\ N!Init /\ Q!Init /\ W!Init /\ I!Init
    /\ part # "close all" => confirmed = Targets
    /\ part # "reconciliation" => limits = {}
    /\ part # "news" => upstream = [r \in N!Releases |-> {}]
    /\ part # "identity" =>
          /\ shown = CHOOSE f \in Terminals : TRUE
          /\ declared = CHOOSE d \in Declarations : TRUE
          /\ contract = "unknown"

Connects == part = "accounts" /\ A!Next
    /\ UNCHANGED <<part, closeAll, reconciliation, positions, exposure, floors, rules, calendar, strategy, stream, identity>>
ClosesAll == part = "close all" /\ C!Next
    /\ UNCHANGED <<part, accounts, reconciliation, positions, exposure, floors, rules, calendar, strategy, stream, identity>>
Reconciles == part = "reconciliation" /\ R!Next
    /\ UNCHANGED <<part, accounts, closeAll, positions, exposure, floors, rules, calendar, strategy, stream, identity>>
Tracks == part = "positions" /\ P!Next
    /\ UNCHANGED <<part, accounts, closeAll, reconciliation, exposure, floors, rules, calendar, strategy, stream, identity>>
Sizes == part = "risk" /\ K!Next
    /\ UNCHANGED <<part, accounts, closeAll, reconciliation, positions, floors, rules, calendar, strategy, stream, identity>>
Anchors == part = "floors" /\ F!Next
    /\ UNCHANGED <<part, accounts, closeAll, reconciliation, positions, exposure, rules, calendar, strategy, stream, identity>>
Rules == part = "rules" /\ G!Next
    /\ UNCHANGED <<part, accounts, closeAll, reconciliation, positions, exposure, floors, calendar, strategy, stream, identity>>
Schedules == part = "news" /\ N!Next
    /\ UNCHANGED <<part, accounts, closeAll, reconciliation, positions, exposure, floors, rules, strategy, stream, identity>>
Evaluates == part = "strategy" /\ Q!Next
    /\ UNCHANGED <<part, accounts, closeAll, reconciliation, positions, exposure, floors, rules, calendar, stream, identity>>
Streams == part = "stream" /\ W!Next
    /\ UNCHANGED <<part, accounts, closeAll, reconciliation, positions, exposure, floors, rules, calendar, strategy, identity>>
Identifies == part = "identity" /\ I!Next
    /\ UNCHANGED <<part, accounts, closeAll, reconciliation, positions, exposure, floors, rules, calendar, strategy, stream>>

Next ==
    \/ Connects \/ ClosesAll \/ Reconciles \/ Tracks \/ Sizes \/ Anchors \/ Rules \/ Schedules
    \/ Evaluates \/ Streams \/ Identifies

Spec == Init /\ [][Next]_deskVars
-----------------------------------------------------------------------------
(* What is asked of the parts, which are well typed too (each property is   *)
(* explained in its own module).                                           *)

\* One terminal at a time (ADR 0021), whatever gestures cross at their awaits and however they fail: an attempt is
\* its lock holder's, nothing else is attached to it, and no gesture keeps the lock once it is over (AccountService).
OneTerminal == A!AccountsTypeOK /\ A!OneTerminal

\* A COMPLETE report of a close-all is true of the broker, whatever was retried, lost, refused or restarted
\* (CloseAllService.report); a reconciliation raises no false alarm, and closes as reconciled only a command
\* whose position was there (ReconciliationService.run).
ReportsAreTrue ==
    /\ C!CloseAllTypeOK /\ C!CompleteIsTrue
    /\ R!ReconciliationTypeOK /\ R!FindingsAreTrue /\ R!ReconciledWasThere

\* A position that has shut is recorded or still to be found by the next poll, and a trade is announced and counted
\* once, through histories that lag, writes that fail and restarts (PositionService.poll).
TradesAreBooked == P!TrackingTypeOK /\ P!NothingForgotten /\ P!CountsOnce

\* Whatever was approved, lost, or carried over a midnight, hitting every stop leaves the day, the week, the account
\* and the provider's floors within their limits (risk_allowance); and a floor stands on the midnight it is
\* named for, or is unknown, whoever computes it after what (ProviderService). The gate of the news opens only on a
\* calendar that is recent and says that no release is near, whatever could not be fetched (NewsService, news_gate).
\* Nothing trades on an account whose terminal does not name it, nor on rules replaced longer ago than an answer lives
\* (identify_account, ProviderService.identify).
LimitsHold ==
    /\ K!RiskTypeOK /\ K!LimitsHold
    /\ F!FloorsTypeOK /\ F!FloorsAreMidnights
    /\ N!NewsTypeOK /\ N!GateOpensOnWhatWasSaid
    /\ I!IdentityTypeOK /\ I!TradesAsIdentified

\* A change of rules never reaches a day that was being traded when it was asked for, and one that governs is never
\* withdrawn, whatever day starts between a read and the write it leads to (request_rules, cancel_rules).
RulesAreSteady == []G!RulesTypeOK /\ []G!ChangesWaitForTheDay /\ G!GoverningRulesStay

\* A setup gets its intent, its verdict and its order at most once, re-detections, faults and restarts included
\* (StrategyService._hand_over).
SetupsAreHandledOnce == []Q!StrategyTypeOK /\ Q!SetupsAreHandledOnce

\* The facts a client was sent are the first ones it was owed, and the rest are on their way unless it is being sent
\* back, however slow it is and however often it asks for a snapshot (CockpitStream).
NoHole == W!StreamTypeOK /\ W!NoHole
=============================================================================
