------------------------------ MODULE MarketFeed ------------------------------
(***************************************************************************)
(* The market data of one account (services/market_data.py): the feed its   *)
(* two jobs share, the one that prepares it and reads quotes and the one    *)
(* that announces the bars that closed, under a link that is lost and       *)
(* attached again (services/accounts.py) and forgotten (runtime/engine.py). *)
(* One symbol, one timeframe: a bar is its number.                          *)
(***************************************************************************)
EXTENDS Integers, FiniteSets

CONSTANTS
    MaxBars,       \* bound: the bars that close
    MaxLinks,      \* bound: the connections
    Window,        \* the closed bars a poll reads (candles: 5, the newest is forming)
    Shift,         \* how far a bar is misdated while the broker's clock is not known
    FeedFaults     \* "read", "cut", "clock": not measured, "unforgotten": a drop cut short

VARIABLES
    newest,        \* the last bar that closed, at the terminal
    link,          \* the account's session and its client
    feed,          \* _feeds
    quote,         \* _ticks: the link the cached quote was read on
    ticker,        \* the job "ticks"
    candler,       \* the job "candles"
    announced,     \* history: the bars announced
    covered        \* history: the bars a backfill stored while they were not announced

FeedAssumption == MaxBars \in Nat /\ MaxLinks \in Nat /\ Window \in Nat /\ Shift \in Nat
feedVars == <<newest, link, feed, quote, ticker, candler, announced, covered>>

Fault(f) == f \in FeedFaults
None == -1
Bars == 1 .. MaxBars
Labels == 1 .. MaxBars + Shift
NoFeed == [of |-> None, last |-> None, prepared |-> FALSE]
Idle == [pc |-> "idle", on |-> 0, of |-> None, read |-> {}, off |-> 0]

FeedTypeOK ==
    /\ newest \in 0 .. MaxBars
    /\ link \in [n : 0 .. MaxLinks, state : {"up", "closing", "closed", "down"}, clock : BOOLEAN, since : 0 .. MaxBars]
    /\ feed \in [of : {None} \cup 1 .. MaxLinks, last : {None} \cup Labels, prepared : BOOLEAN]
    /\ quote \in {None} \cup 1 .. MaxLinks
    /\ ticker.pc \in {"idle", "clock", "history", "storing", "quote"}
    /\ candler.pc \in {"idle", "reading", "storing"}
    /\ ticker.read \subseteq Bars /\ candler.read \subseteq Bars /\ {ticker.off, candler.off} \subseteq {0, Shift}
    /\ announced \subseteq Bars /\ covered \subseteq Bars

Init ==
    /\ newest = 0 /\ link = [n |-> 0, state |-> "down", clock |-> FALSE, since |-> 0]
    /\ feed = NoFeed /\ quote = None /\ ticker = Idle /\ candler = Idle
    /\ announced = {} /\ covered = {}

-----------------------------------------------------------------------------
(* The link.                                                               *)

Attaches ==
    /\ link.state = "down" /\ link.n < MaxLinks
    /\ link' = [n |-> link.n + 1, state |-> "up", clock |-> FALSE, since |-> newest]
    /\ UNCHANGED <<newest, feed, quote, ticker, candler, announced, covered>>

\* _drop: the session is out of the way, its client is being closed behind the call in progress ...
DropBegins ==
    /\ link.state = "up" /\ link' = [link EXCEPT !.state = "closing"]
    /\ UNCHANGED <<newest, feed, quote, ticker, candler, announced, covered>>

\* ... is closed, and the end of the link is put on record ...
Closes ==
    /\ link.state = "closing" /\ link' = [link EXCEPT !.state = "closed"]
    /\ UNCHANGED <<newest, feed, quote, ticker, candler, announced, covered>>

\* Mutant: the quotes stay.
ForgottenFeed == [feed |-> NoFeed, quote |-> quote]
\* MarketDataService.forget
Forgotten == [feed |-> NoFeed, quote |-> None]

\* ... and every cache is told. A drop that the supervisor's timeout cuts tells nobody.
Forgets ==
    /\ link.state = "closed" /\ link' = [link EXCEPT !.state = "down"]
    /\ feed' = Forgotten.feed /\ quote' = Forgotten.quote
    /\ UNCHANGED <<newest, ticker, candler, announced, covered>>

IsNotForgotten ==
    /\ Fault("unforgotten") /\ link.state \in {"closing", "closed"}
    /\ link' = [link EXCEPT !.state = "down"]
    /\ UNCHANGED <<newest, feed, quote, ticker, candler, announced, covered>>

\* The client of a task's session answers, and to_utc dates what it says.
Answers(task) == link.n = task.on /\ link.state \in {"up", "closing"}
Offset == IF link.clock THEN 0 ELSE Shift

\* The bars of this link that nobody was told of.
Untold == {b \in Bars : link.since < b /\ b <= newest} \ (announced \cup covered)

\* A bar takes longer than the window allows polls to be late.
BarCloses ==
    /\ newest < MaxBars /\ (link.state = "up" => Cardinality(Untold) < Window)
    /\ newest' = newest + 1
    /\ UNCHANGED <<link, feed, quote, ticker, candler, announced, covered>>

-----------------------------------------------------------------------------
(* poll_ticks.                                                             *)

\* setdefault, under the session that was looked up.
FeedOf == IF feed = NoFeed THEN [NoFeed EXCEPT !.of = link.n] ELSE feed

TicksBegin ==
    /\ ticker = Idle /\ link.state = "up"
    /\ feed' = FeedOf
    /\ ticker' = [Idle EXCEPT !.pc = IF FeedOf.prepared THEN "quote" ELSE "clock", !.on = link.n, !.of = FeedOf.of]
    /\ UNCHANGED <<newest, link, quote, candler, announced, covered>>

\* prepare: the offset on record or a fresh tick, if either can be read.
LearnsClock ==
    /\ ticker.pc = "clock"
    /\ \E told \in (IF Answers(ticker) THEN {TRUE} ELSE {FALSE}) \cup (IF Fault("clock") THEN {FALSE} ELSE {}) :
          link' = [link EXCEPT !.clock = @ \/ told]
    /\ ticker' = [ticker EXCEPT !.pc = "history"]
    /\ UNCHANGED <<newest, feed, quote, candler, announced, covered>>

\* The end of prepare: the feed it was called for, which may have been forgotten.
Prepared == [feed EXCEPT !.prepared = @ \/ feed.of = ticker.of]

\* _backfill: under the session there is by then. What cannot be read is left, and so is an empty history.
ReadsHistory ==
    /\ ticker.pc = "history"
    /\ IF link.state = "up" /\ newest > 0
         THEN /\ ticker' = [ticker EXCEPT !.pc = "storing", !.read = 1 .. newest, !.off = Offset]
              /\ covered' = covered \cup ((1 .. newest) \ announced)
              /\ feed' = feed
         ELSE /\ ticker' = [ticker EXCEPT !.pc = "quote"]
              /\ feed' = Prepared /\ covered' = covered
    /\ UNCHANGED <<newest, link, quote, candler, announced>>

HistoryFails ==
    /\ Fault("read") /\ ticker.pc = "history"
    /\ ticker' = [ticker EXCEPT !.pc = "quote"] /\ feed' = Prepared
    /\ UNCHANGED <<newest, link, quote, candler, announced, covered>>

MaxOf(s) == CHOOSE b \in s : \A c \in s : c <= b

\* The bars are stored, or the database is down; the account may be without a feed by now (KeyError).
StoresHistory ==
    /\ ticker.pc = "storing"
    /\ IF feed = NoFeed
         THEN feed' = feed /\ ticker' = Idle
         ELSE /\ feed' = [Prepared EXCEPT !.last = MaxOf(ticker.read) + ticker.off]
              /\ ticker' = [ticker EXCEPT !.pc = "quote", !.read = {}, !.off = 0]
    /\ UNCHANGED <<newest, link, quote, candler, announced, covered>>

ReadsQuote ==
    /\ ticker.pc = "quote"
    /\ quote' = IF Answers(ticker) THEN ticker.on ELSE quote
    /\ ticker' = Idle
    /\ UNCHANGED <<newest, link, feed, candler, announced, covered>>

\* The job's timeout, at whatever await.
TicksCut ==
    /\ Fault("cut") /\ ticker # Idle /\ ticker' = Idle
    /\ UNCHANGED <<newest, link, feed, quote, candler, announced, covered>>

-----------------------------------------------------------------------------
(* poll_candles.                                                           *)

CandlesBegin ==
    /\ candler = Idle /\ link.state = "up"
    /\ feed' = FeedOf
    /\ candler' = [Idle EXCEPT !.pc = "reading", !.on = link.n, !.of = FeedOf.of]
    /\ UNCHANGED <<newest, link, quote, ticker, announced, covered>>

\* The last bars, and what they are compared with: the feed the poll began with.
LastBars == {b \in Bars : newest - Window < b /\ b <= newest}
LastSeen(task) == IF feed.of = task.of THEN feed.last ELSE None

\* Mutant: what is about to be announced is remembered first.
RemembersFirst(new) == IF feed.of = candler.of THEN [feed EXCEPT !.last = MaxOf(new) + Offset] ELSE feed
RemembersNothing(new) == feed

ReadsCandles ==
    /\ candler.pc = "reading" /\ Answers(candler)
    /\ LET new == {b \in LastBars : LastSeen(candler) = None \/ b + Offset > LastSeen(candler)} IN
        IF new = {}
          THEN candler' = Idle /\ feed' = feed
          ELSE candler' = [candler EXCEPT !.pc = "storing", !.read = new, !.off = Offset] /\ feed' = RemembersNothing(new)
    /\ UNCHANGED <<newest, link, quote, ticker, announced, covered>>

CandlesFail ==
    /\ candler.pc = "reading" /\ (Fault("read") \/ ~Answers(candler))
    /\ candler' = Idle
    /\ UNCHANGED <<newest, link, feed, quote, ticker, announced, covered>>

\* Stored or not, the bars are announced, oldest first, and the last is remembered: no await in between.
Announces ==
    /\ candler.pc = "storing"
    /\ announced' = announced \cup candler.read
    /\ feed' = IF feed.of = candler.of THEN [feed EXCEPT !.last = MaxOf(candler.read) + candler.off] ELSE feed
    /\ candler' = Idle
    /\ UNCHANGED <<newest, link, quote, ticker, covered>>

CandlesCut ==
    /\ Fault("cut") /\ candler # Idle /\ candler' = Idle
    /\ UNCHANGED <<newest, link, feed, quote, ticker, announced, covered>>

-----------------------------------------------------------------------------
Next ==
    \/ Attaches \/ DropBegins \/ Closes \/ Forgets \/ IsNotForgotten \/ BarCloses
    \/ TicksBegin \/ LearnsClock \/ ReadsHistory \/ HistoryFails \/ StoresHistory \/ ReadsQuote \/ TicksCut
    \/ CandlesBegin \/ ReadsCandles \/ CandlesFail \/ Announces \/ CandlesCut

TicksStep == LearnsClock \/ ReadsHistory \/ HistoryFails \/ StoresHistory \/ ReadsQuote \/ TicksCut
CandlesStep == ReadsCandles \/ CandlesFail \/ Announces \/ CandlesCut

\* The jobs come round (every 1 s and 5 s) and each of their awaits ends; neither its reads nor its timeout fail the
\* poll of the candles every time.
Fairness ==
    /\ WF_feedVars(TicksBegin) /\ WF_feedVars(TicksStep)
    /\ WF_feedVars(CandlesBegin) /\ WF_feedVars(CandlesStep)
    /\ SF_feedVars(ReadsCandles) /\ SF_feedVars(Announces)

Spec == Init /\ [][Next]_feedVars /\ Fairness
-----------------------------------------------------------------------------
(* What the feed promises.                                                 *)

\* "Stale quotes must not outlive the link": what is cached was read on the link there is.
QuotesAreOfTheLink == quote # None => quote = link.n /\ link.state # "down"

\* The memory of what was announced never runs ahead of it: whatever job is cut, and whatever the backfill of the one
\* does to the memory of the other, a bar that the next poll will not announce was announced, or was in the
\* history a strategy reads when it starts (poll_candles, _backfill).
NoBarIsSkipped ==
    link.state = "up" => \A b \in Untold : feed.last = None \/ b + Offset > feed.last

\* "Announce each newly closed bar": while the link stands, every bar that closes is announced, or in that history.
BarsAreAnnounced == \A b \in Bars : []<>(b \notin Untold \/ link.state # "up")
=============================================================================
