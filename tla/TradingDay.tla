------------------------------- MODULE TradingDay -------------------------------
(***************************************************************************)
(* A trading day's own loops: the sequence that starts it, the guardian and *)
(* the position manager over one position, and the market data of one       *)
(* account. A behaviour is one of the three (part); the mode, the account,  *)
(* the link and the broker move under each as they please.                  *)
(***************************************************************************)
EXTENDS Integers

CONSTANTS
    Clicks, Accounts, Live, MaxMode, StartupFaults,
    Prices, Entry, FirstStop, MaxAttempts, Options, Lots, World,
    MaxBars, MaxLinks, Window, Shift, FeedFaults

VARIABLES
    part,
    startMode, db, green, selected, attached, run, click, climbs,
    broker, picture, claimed, market, mode, ask, cycle,
    newest, link, feed, quote, ticker, candler, announced, covered

U == INSTANCE Startup WITH mode <- startMode
P == INSTANCE Protection
F == INSTANCE MarketFeed

ASSUME TradingAssumption == U!StartupAssumption /\ P!ProtectionAssumption /\ F!FeedAssumption

startup == <<startMode, db, green, selected, attached, run, click, climbs>>
protection == <<broker, picture, claimed, market, mode, ask, cycle>>
market_data == <<newest, link, feed, quote, ticker, candler, announced, covered>>
tradingVars == <<part, startup, protection, market_data>>

\* The parts that do not run have one initial state.
Init ==
    /\ part \in {"startup", "protection", "feed"}
    /\ U!Init /\ P!Init /\ F!Init
    /\ part # "startup" => startMode = "OFF" /\ db /\ green /\ selected = U!NoAccount
    /\ part # "protection" => claimed

Starts == part = "startup" /\ U!Next /\ UNCHANGED <<part, protection, market_data>>
Protects == part = "protection" /\ P!Next /\ UNCHANGED <<part, startup, market_data>>
Feeds == part = "feed" /\ F!Next /\ UNCHANGED <<part, startup, protection>>

Next == Starts \/ Protects \/ Feeds

\* The fairness each module states, for the part that runs.
StartupFairness == \A c \in Clicks : WF_startup(part = "startup" /\ U!SequenceSteps(c))
\* Of two steps that are never possible together, fairness to either is fairness to each; and the requests that
\* are made are those the options and the world lead to.
AskedHere ==
    (Options \cap P!Managing)
    \cup (IF "breached" \in World THEN {"limit"} ELSE {})
    \cup (IF "unstopped" \in World THEN {"protect", "nostop"} ELSE {})
    \cup (IF "order" \in World THEN {"stale", "withdraw"} ELSE {})
ProtectionFairness ==
    /\ \A s \in P!Services : WF_protection(part = "protection" /\ (P!CycleBegins(s) \/ P!CycleSteps(s)))
    /\ \A k \in AskedHere : WF_protection(part = "protection" /\ (P!Settles(k) \/ P!Rests(k)))
    /\ WF_protection(part = "protection" /\ P!Polls) /\ WF_protection(part = "protection" /\ P!IsClaimed)
    /\ WF_protection(part = "protection" /\ P!GraceEnds)
FeedFairness ==
    /\ WF_market_data(part = "feed" /\ F!TicksBegin) /\ WF_market_data(part = "feed" /\ F!TicksStep)
    /\ WF_market_data(part = "feed" /\ F!CandlesBegin) /\ WF_market_data(part = "feed" /\ F!CandlesStep)
    /\ SF_market_data(part = "feed" /\ F!ReadsCandles) /\ SF_market_data(part = "feed" /\ F!Announces)

SafetySpec == Init /\ [][Next]_tradingVars
Spec == SafetySpec /\ StartupFairness /\ ProtectionFairness /\ FeedFairness
-----------------------------------------------------------------------------
(* What is asked of the parts (each is explained in its own module).       *)

\* What the day is decided on is true or absent, whatever link is lost, whatever job is cut and however the mode and the
\* account move: the cockpit is offered automatic trading only when authorising it would be granted (status); quotes
\* do not outlive the link they were read on, and no bar that closes while one stands is passed over but for the
\* history a strategy starts with (MarketDataService). The three parts are well typed.
ShownIsTrue ==
    /\ U!StartupTypeOK /\ P!ProtectionTypeOK /\ F!FeedTypeOK
    /\ U!PictureIsTrue /\ F!QuotesAreOfTheLink /\ F!NoBarIsSkipped

\* Whichever of the two services asked, however late its command arrives and whatever the core saw when it asked, no
\* command loosens the stop the position has by then (ADR 0023).
StopNeverLoosens == P!StopNeverLoosens

\* "A bug must never leave a run RUNNING for ever": every start sequence is finished, whatever an engine raises and
\* however the mode, the account and the database move under it (StartupService.begin); and every bar that closes
\* while a link stands is announced, or was in the history a strategy starts with (poll_candles).
LoopsGoOn == U!RunsEnd /\ F!BarsAreAnnounced

\* While the core may act, a position of the core does not stay for ever beyond a loss limit or without a stop: it is
\* closed, or protected, or the guardian halts and calls a human (GuardianService).
DangerEnds == P!DangerEnds
=============================================================================
