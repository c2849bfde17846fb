-------------------------------- MODULE Strategy --------------------------------
(***************************************************************************)
(* StrategyService (services/strategy.py): each closed candle of the symbol *)
(* is evaluated once, and a setup it proposes becomes an intent, the intent *)
(* a risk decision, and an approved decision a command - each persisted     *)
(* before the next. A rolling evaluation detects one setup on candle after  *)
(* candle; the setup's own identity is what keeps it to one order.          *)
(***************************************************************************)
EXTENDS Naturals

CONSTANTS
    Setups,
    Acts,             \* StrategyDefinition.acts; FALSE measures only
    MaxCandles,       \* bound: the candles that close
    StrategyFaults    \* "feed": the inputs cannot be read; "store": the database is unavailable; "cut": the job's
                      \* deadline passes; "restart": the core restarts

StrategyAssumption == MaxCandles \in Nat

VARIABLES
    market,       \* the last closed candle, the setup the candles show, and the setups that are recent (act_within)
    mode,         \* AutonomyService.mode
    pending,      \* StrategyService._pending
    lastCandle,   \* StrategyService._last_candle; 0: none
    failing,      \* StrategyService.last_error is set
    pass,         \* the evaluation that is going on
    intents,      \* trade_intents
    decision,     \* risk_decisions
    sent          \* history: how often each setup was submitted to the execution engine

strategyVars == <<market, mode, pending, lastCandle, failing, pass, intents, decision, sent>>
memory == <<pending, lastCandle, failing>>
tables == <<intents, decision>>

NoSetup == "none"
StrategyFault(kind) == kind \in StrategyFaults
Resting == [pc |-> "idle", candle |-> 0, setup |-> NoSetup]
StrategyModes == {"OFF", "OBSERVE", "PAPER"}    \* CONFIRM and above hand over as PAPER does

StrategyTypeOK ==
    /\ market.candle \in 0 .. MaxCandles /\ market.shows \in Setups \cup {NoSetup} /\ market.recent \subseteq Setups
    /\ mode \in StrategyModes /\ pending \in BOOLEAN /\ lastCandle \in 0 .. MaxCandles /\ failing \in BOOLEAN
    /\ pass.pc \in {"idle", "decides", "hands over", "intends", "reviews", "submits"}
    /\ intents \subseteq Setups /\ decision \in [Setups -> {"none", "refused", "approved"}]

Init ==
    /\ market = [candle |-> 0, shows |-> NoSetup, recent |-> Setups]
    /\ mode = "OFF"
    /\ pending = FALSE /\ lastCandle = 0 /\ failing = FALSE
    /\ pass = Resting
    /\ intents = {} /\ decision = [s \in Setups |-> "none"]
    /\ sent = [s \in Setups |-> 0]

Goes(pc) == pass' = [pass EXCEPT !.pc = pc]

-----------------------------------------------------------------------------
(* The market and the mode.                                                *)

\* The same setup may still show on the next candle, or show again.
CandleCloses ==
    /\ market.candle < MaxCandles
    /\ \E s \in Setups \cup {NoSetup} : market' = [market EXCEPT !.candle = @ + 1, !.shows = s]
    /\ pending' = TRUE
    /\ UNCHANGED <<mode, lastCandle, failing, pass, tables, sent>>

SetupGrowsOld(s) ==
    /\ s \in market.recent
    /\ market' = [market EXCEPT !.recent = @ \ {s}]
    /\ UNCHANGED <<mode, memory, pass, tables, sent>>

ModeMoves ==
    /\ mode' \in StrategyModes \ {mode}
    /\ UNCHANGED <<market, memory, pass, tables, sent>>

-----------------------------------------------------------------------------
(* run_pending and evaluate.                                               *)

\* OFF and HALTED evaluate nothing; what was due is due no more.
Begins ==
    /\ pass.pc = "idle" /\ pending
    /\ pending' = FALSE
    /\ pass' = IF mode = "OFF" THEN pass ELSE [Resting EXCEPT !.pc = "decides"]
    /\ UNCHANGED <<market, mode, lastCandle, failing, tables, sent>>

\* _decide, and the evaluation recorded (or not: that the store fails there is only logged): a precondition or a stage
\* that is not met, or a proposal.
Decides ==
    /\ pass.pc = "decides" /\ lastCandle # market.candle
    /\ lastCandle' = market.candle /\ failing' = FALSE
    /\ \E s \in {NoSetup, market.shows} :
        pass' = IF s # NoSetup /\ Acts THEN [pc |-> "hands over", candle |-> market.candle, setup |-> s] ELSE Resting
    /\ UNCHANGED <<market, mode, pending, tables, sent>>

\* The candle was evaluated already, or a spread, a timeframe or the feed is missing: nothing is recorded.
Skips ==
    /\ pass.pc = "decides"
    /\ \/ failing' = failing
       \/ StrategyFault("feed") /\ failing' = TRUE
    /\ pass' = Resting
    /\ UNCHANGED <<market, mode, pending, lastCandle, tables, sent>>

\* What Unavailable does in _hand_over: it leaves evaluate, and run_pending keeps it for the readiness check.
StoreFails ==
    /\ StrategyFault("store") /\ pass.pc \notin {"idle", "decides"}
    /\ failing' = TRUE /\ pass' = Resting
    /\ UNCHANGED <<market, mode, pending, lastCandle, tables, sent>>

\* The deadline of the job passes at one of its awaits.
IsCut ==
    /\ StrategyFault("cut") /\ pass.pc # "idle"
    /\ pass' = Resting
    /\ UNCHANGED <<market, mode, memory, tables, sent>>

-----------------------------------------------------------------------------
(* _hand_over: Strategy, Risk, Execution.                                  *)

\* Mutant: a setup that was refused may be taken up again.
HandledOnlyIfApproved(s) == s \in intents /\ decision[s] # "refused"
\* get_intent: whatever became of it.
Handled(s) == s \in intents

HandsOver ==
    /\ pass.pc = "hands over"
    /\ pass' = IF pass.setup \in market.recent /\ ~Handled(pass.setup) THEN [pass EXCEPT !.pc = "intends"] ELSE Resting
    /\ UNCHANGED <<market, mode, memory, tables, sent>>

\* record_intent, before anyone acts on it.
Intends ==
    /\ pass.pc = "intends" /\ Goes("reviews")
    /\ intents' = intents \cup {pass.setup}
    /\ UNCHANGED <<market, mode, memory, decision, sent>>

\* RiskService.review, which persists what it returns; below PAPER it refuses.
Reviews ==
    /\ pass.pc = "reviews"
    /\ \E verdict \in {"refused"} \cup (IF mode = "PAPER" THEN {"approved"} ELSE {}) :
        /\ decision' = [decision EXCEPT ![pass.setup] = verdict]
        /\ pass' = IF verdict = "approved" THEN [pass EXCEPT !.pc = "submits"] ELSE Resting
    /\ UNCHANGED <<market, mode, memory, intents, sent>>

Submits ==
    /\ pass.pc = "submits"
    /\ sent' = [sent EXCEPT ![pass.setup] = @ + 1]
    /\ pass' = Resting
    /\ UNCHANGED <<market, mode, memory, tables>>

\* The core restarts in OFF; the candles are read again, the tables are still there.
Restarts ==
    /\ StrategyFault("restart")
    /\ mode' = "OFF" /\ pending' = FALSE /\ lastCandle' = 0 /\ failing' = FALSE /\ pass' = Resting
    /\ UNCHANGED <<market, tables, sent>>

-----------------------------------------------------------------------------
Next ==
    \/ CandleCloses \/ ModeMoves \/ (\E s \in Setups : SetupGrowsOld(s))
    \/ Begins \/ Decides \/ Skips \/ StoreFails \/ IsCut
    \/ HandsOver \/ Intends \/ Reviews \/ Submits \/ Restarts

Spec == Init /\ [][Next]_strategyVars
-----------------------------------------------------------------------------
(* What the strategy promises.                                             *)

\* "A setup is handled once", and "a later candle that re-detects it - or a mode raised afterwards - never resurrects a
\* stale setup": the verdict on a setup is given once, one whose turn was lost to a fault gets none later, and
\* what reaches the execution engine does so once, on an intent and an approved decision that were persisted.
SetupsAreHandledOnce ==
    [][\A s \in Setups :
        /\ decision[s] # "none" => decision'[s] = decision[s]
        /\ s \in intents /\ pass.setup # s => UNCHANGED <<decision[s], sent[s]>>
        /\ sent'[s] # sent[s] => sent[s] = 0 /\ s \in intents /\ decision[s] = "approved"]_strategyVars
=============================================================================
