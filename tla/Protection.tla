----------------------------- MODULE Protection -----------------------------
(***************************************************************************)
(* The two services that reduce exposure by themselves, from cycles that    *)
(* interleave: the account guardian (services/guardian.py, domain/guardian) *)
(* and the position manager (services/position_manager.py,                  *)
(* domain/positions/manager.py), with the attempts they share               *)
(* (services/attempts.py) and the barriers a management command meets       *)
(* (domain/execution/validation.py, and the agent's own).                   *)
(*                                                                         *)
(* One position and one resting order of the core.  Prices are counted in   *)
(* the position's favour, in units of the risk taken at the opening, so a   *)
(* long and a short read alike.                                             *)
(***************************************************************************)
EXTENDS Naturals, FiniteSets

CONSTANTS
    Prices,        \* what an exit would get
    Entry, FirstStop,
    MaxAttempts,
    Options,       \* of the exit plan and the guardian's: what the user switched on
    Lots,          \* the volume opened, in steps; one lot is the smallest position
    World          \* what moves by itself: "price", "window", "breached", "wide", "aged",
                   \* "order" (one rests), "unstopped" (a person removes the stop), "mode"

\* An exit may get more than the opening stop gives, and the stop of the opening is behind the entry.
ProtectionAssumption ==
    /\ Prices \subseteq Nat
    /\ \E top \in Prices : FirstStop < top /\ \A p \in Prices : p <= top
    /\ Entry \in Nat /\ FirstStop \in 1..(Entry - 1)
    /\ MaxAttempts \in Nat \ {0} /\ Lots \in Nat \ {0}
    /\ Options \subseteq {"breakeven", "trail", "partial", "flat", "spread"}

VARIABLES
    broker,     \* the position and the order as they are: open, stop, lots, resting
    picture,    \* the same, as last read by the core
    claimed,    \* the core knows which command opened the position
    market,     \* the price, and the facts that come with time
    mode,       \* the effective mode
    ask,        \* per prefix of command ids: attempts made, and the state of the last one
    cycle       \* what each service's running cycle still has to ask for

vars == <<broker, picture, claimed, market, mode, ask, cycle>>

NoStop == 0
ActingModes == {"ARMED"}    \* CONFIRM, ARMED and AUTONOMOUS act alike here
Managing == {"flat", "protect", "breakeven", "trail", "partial", "stale"}   \* pm-<code>
Guarding == {"limit", "nostop", "withdraw"}                                 \* gd-<kind>-<code>
Prefixes == Managing \cup Guarding
Services == {"manager", "guardian"}
Stops == {NoStop} \cup 1..(CHOOSE top \in Prices : \A p \in Prices : p <= top)

View == [open : BOOLEAN, stop : Stops, lots : 0..Lots, resting : BOOLEAN]
Facts == [price : Prices, window : BOOLEAN, breached : BOOLEAN, wide : BOOLEAN, late : BOOLEAN,
          aged : BOOLEAN]
Command == [prefix : Prefixes, kind : {"CLOSE", "PARTIAL_CLOSE", "MODIFY", "CANCEL"}, to : Stops]
NoAsk == [n |-> 0, st |-> "none", kind |-> "CLOSE", to |-> NoStop, effect |-> FALSE]

ProtectionTypeOK ==
    /\ broker \in View /\ picture \in View
    /\ claimed \in BOOLEAN /\ market \in Facts
    /\ mode \in {"OBSERVE", "ARMED", "HALTED"}
    /\ ask \in [Prefixes -> [n : 0..MaxAttempts,
                             st : {"none", "flight", "done", "recent", "rested"},
                             kind : {"CLOSE", "PARTIAL_CLOSE", "MODIFY", "CANCEL"}, to : Stops,
                             effect : BOOLEAN]]
    /\ \A s \in Services : cycle[s].on \in BOOLEAN /\ cycle[s].todo \subseteq Command

Moves(fact) == fact \in World
Fresh == [open |-> TRUE, stop |-> FirstStop, lots |-> Lots, resting |-> Moves("order")]
Init ==
    /\ broker = Fresh /\ picture = Fresh
    /\ claimed \in BOOLEAN
    /\ market = [price |-> CHOOSE p \in Prices : p > FirstStop, window |-> TRUE, breached |-> FALSE, wide |-> FALSE,
                 late |-> FALSE, aged |-> FALSE]
    /\ mode = "ARMED"
    /\ ask = [k \in Prefixes |-> NoAsk]
    /\ cycle = [s \in Services |-> [on |-> FALSE, todo |-> {}]]

-----------------------------------------------------------------------------
(* What the manager wants (plan_position, plan_pending_order).             *)

Wants(prefix, kind, to) == [prefix |-> prefix, kind |-> kind, to |-> to]
On(option) == option \in Options
InR(n) == market.price >= Entry + n * (Entry - FirstStop)     \* +n R reached

\* A stop worth asking for: tighter than the one shown, and behind the price.
Improves(stop) == picture.stop < stop /\ stop < market.price

StopMoves ==
    LET even == IF On("breakeven") /\ InR(1) /\ Improves(Entry) THEN {Entry} ELSE {}
        trailed == market.price - (Entry - FirstStop)
        trail == IF /\ On("trail") /\ (On("breakeven") => InR(1))
                    /\ trailed >= Entry /\ Improves(trailed) /\ \A e \in even : trailed > e
                 THEN {trailed} ELSE {}
    IN  IF trail # {} THEN {Wants("trail", "MODIFY", t) : t \in trail}
        ELSE {Wants("breakeven", "MODIFY", e) : e \in even}

\* Half of the opening volume, once, when both halves are positions of their own.
Partial ==
    IF /\ On("partial") /\ InR(2)
       /\ picture.lots = Lots /\ Lots \div 2 >= 1
    THEN {Wants("partial", "PARTIAL_CLOSE", NoStop)} ELSE {}

\* No stop: the opening one is put back, or the position closed when the price is past it.
Protect ==
    IF FirstStop < market.price THEN {Wants("protect", "MODIFY", FirstStop)}
    ELSE {Wants("protect", "CLOSE", NoStop)}

PlanPosition ==
    IF ~picture.open \/ ~claimed THEN {}
    ELSE IF On("flat") /\ ~market.window THEN {Wants("flat", "CLOSE", NoStop)}
    ELSE IF picture.stop = NoStop THEN Protect
    ELSE StopMoves \cup Partial

\* A resting order whose objective was reached, whose window ends, or that waited too long.
PlanOrder ==
    IF picture.resting /\ (~market.window \/ market.aged)
    THEN {Wants("stale", "CANCEL", NoStop)} ELSE {}

(* What the guardian wants (judge, _wanted): a limit reached empties the    *)
(* account of the core's exposure, and only of the core's.                  *)

Judged ==
    LET held == picture.open /\ claimed
    IN  {Wants("limit", "CLOSE", NoStop) : x \in IF market.breached /\ held THEN {1} ELSE {}}
        \cup {Wants("nostop", "CLOSE", NoStop) :
                 x \in IF ~market.breached /\ held /\ picture.stop = NoStop /\ market.late
                       THEN {1} ELSE {}}
        \cup {Wants("withdraw", "CANCEL", NoStop) :
                 x \in IF picture.resting /\ (market.breached \/ (On("spread") /\ market.wide))
                       THEN {1} ELSE {}}

Wanted(s) == IF s = "manager" THEN PlanPosition \cup PlanOrder ELSE Judged

-----------------------------------------------------------------------------
(* A cycle: the plan, then one request after the other.                    *)

\* In the modes that only show, and in those that do nothing, no command is created.
CycleBegins(s) ==
    /\ ~cycle[s].on /\ mode \in ActingModes
    /\ Wanted(s) # {}
    /\ cycle' = [cycle EXCEPT ![s] = [on |-> TRUE, todo |-> Wanted(s)]]
    /\ UNCHANGED <<broker, picture, claimed, market, mode, ask>>

\* Mutant: a request that keeps being refused is asked again for ever.
NextAttemptEndless(k) == IF ask[k].st \in {"none", "rested"} THEN "new" ELSE "not yet"
\* next_attempt.
NextAttempt(k) ==
    IF ask[k].st = "none" THEN "new"
    ELSE IF ask[k].st # "rested" THEN "not yet"      \* in_flight, or waiting
    ELSE IF ask[k].n < MaxAttempts THEN "new" ELSE "gave_up"

Asked(s, command) == cycle' = [cycle EXCEPT ![s].todo = @ \ {command}]

\* The core's own barriers, on what it sees: a target that is gone, a stop that loosens or is
\* not behind the price, a halt, are refused, and the refusal is on record.
Refused(command) ==
    \/ mode = "HALTED"
    \/ command.kind = "CANCEL" /\ ~picture.resting
    \/ command.kind # "CANCEL" /\ ~picture.open
    \/ command.kind = "MODIFY" /\ (command.to < picture.stop \/ command.to >= market.price)

Asks(s, command) ==
    LET k == command.prefix
    IN  /\ command \in cycle[s].todo
        /\ NextAttempt(k) = "new"
        /\ ask' = [ask EXCEPT ![k].n = IF @ = MaxAttempts THEN @ ELSE @ + 1,
                              ![k].st = IF Refused(command) THEN "recent" ELSE "flight",
                              ![k].kind = command.kind, ![k].to = command.to]
        /\ Asked(s, command)
        /\ UNCHANGED <<broker, picture, claimed, market, mode>>

Waits(s, command) ==
    /\ command \in cycle[s].todo
    /\ NextAttempt(command.prefix) = "not yet"
    /\ Asked(s, command)
    /\ UNCHANGED <<broker, picture, claimed, market, mode, ask>>

\* Refused for good: the guardian's last resort is a halt; the manager's, a readiness fact.
GivesUp(s, command) ==
    /\ command \in cycle[s].todo
    /\ NextAttempt(command.prefix) = "gave_up"
    /\ mode' = IF s = "guardian" THEN "HALTED" ELSE mode
    /\ Asked(s, command)
    /\ UNCHANGED <<broker, picture, claimed, market, ask>>

CycleEnds(s) ==
    /\ cycle[s].on /\ cycle[s].todo = {}
    /\ cycle' = [cycle EXCEPT ![s].on = FALSE]
    /\ UNCHANGED <<broker, picture, claimed, market, mode, ask>>

-----------------------------------------------------------------------------
(* A command on its way.                                                   *)

Moved(k, st) == ask' = [ask EXCEPT ![k].st = st]

\* Mutant: the agent takes any stop.
LooserNever(stop) == FALSE
\* The agent compares with the stop the position has, not with the one the core saw.
Looser(stop) == broker.stop # NoStop /\ stop < broker.stop

Effect(k) ==
    CASE ask[k].kind = "CLOSE" -> [broker EXCEPT !.open = FALSE, !.lots = 0]
      [] ask[k].kind = "PARTIAL_CLOSE" -> [broker EXCEPT !.lots = @ - Lots \div 2]
      [] ask[k].kind = "MODIFY" -> [broker EXCEPT !.stop = ask[k].to]
      [] OTHER -> [broker EXCEPT !.resting = FALSE]

Executes(k) ==
    /\ ask[k].st = "flight"
    /\ IF ask[k].kind = "CANCEL" THEN broker.resting ELSE broker.open
    /\ ask[k].kind = "PARTIAL_CLOSE" => broker.lots > Lots \div 2
    /\ ask[k].kind = "MODIFY" => ~Looser(ask[k].to) /\ ask[k].to < market.price
    /\ broker' = Effect(k)
    /\ ask' = [ask EXCEPT ![k].st = "done", ![k].effect = TRUE]
    /\ UNCHANGED <<picture, claimed, market, mode, cycle>>

\* Refused, unsent, not confirmed in time, simulated: it ended without effect.
Fails(k) ==
    /\ ask[k].st = "flight"
    /\ Moved(k, "recent")
    /\ UNCHANGED <<broker, picture, claimed, market, mode, cycle>>

\* What was done is known at once, or by a reconciliation.
Reports(k) ==
    /\ ask[k].st = "done"
    /\ Moved(k, "recent")
    /\ UNCHANGED <<broker, picture, claimed, market, mode, cycle>>

\* RETRY_AFTER.
Rests(k) ==
    /\ ask[k].st = "recent"
    /\ Moved(k, "rested")
    /\ UNCHANGED <<broker, picture, claimed, market, mode, cycle>>

-----------------------------------------------------------------------------
(* The world.                                                              *)

\* _track_stops restarts the grace of a position that has a stop.
Polls ==
    /\ picture # broker
    /\ picture' = broker
    /\ market' = [market EXCEPT !.late = @ /\ broker.open /\ broker.stop = NoStop]
    /\ UNCHANGED <<broker, claimed, mode, ask, cycle>>

\* The fill report, or a reconciliation, names the position.
IsClaimed ==
    /\ ~claimed /\ claimed' = TRUE
    /\ UNCHANGED <<broker, picture, market, mode, ask, cycle>>

MarketMoves ==
    /\ \/ Moves("price") /\ \E p \in Prices : market' = [market EXCEPT !.price = p]
       \/ Moves("window") /\ market' = [market EXCEPT !.window = ~@]
       \/ Moves("breached") /\ market' = [market EXCEPT !.breached = ~@]
       \/ Moves("wide") /\ market' = [market EXCEPT !.wide = ~@]
       \/ Moves("aged") /\ picture.resting /\ market' = [market EXCEPT !.aged = TRUE]
    /\ UNCHANGED <<broker, picture, claimed, mode, ask, cycle>>

GraceEnds ==
    /\ ~market.late /\ picture.open /\ claimed /\ picture.stop = NoStop
    /\ market' = [market EXCEPT !.late = TRUE]
    /\ UNCHANGED <<broker, picture, claimed, mode, ask, cycle>>

\* The stop is hit; the order fills or is withdrawn; a person removes the stop in MT5.
BrokerMoves ==
    /\ \/ /\ broker.open /\ market.price <= broker.stop
          /\ broker' = [broker EXCEPT !.open = FALSE, !.lots = 0]
       \/ broker.resting /\ broker' = [broker EXCEPT !.resting = FALSE]
       \/ /\ Moves("unstopped") /\ broker.open /\ broker.stop # NoStop
          /\ broker' = [broker EXCEPT !.stop = NoStop]
    /\ UNCHANGED <<picture, claimed, market, mode, ask, cycle>>

ModeMoves ==
    /\ mode' \in {"OBSERVE", "ARMED", "HALTED"} \ {mode}
    /\ mode = "HALTED" => mode' = "OBSERVE"
    /\ Moves("mode") \/ mode = "HALTED" \/ mode' \in ActingModes
    /\ UNCHANGED <<broker, picture, claimed, market, ask, cycle>>

CycleSteps(s) ==
    CycleEnds(s) \/ \E command \in cycle[s].todo :
                        Asks(s, command) \/ Waits(s, command) \/ GivesUp(s, command)
Settles(k) == Executes(k) \/ Fails(k) \/ Reports(k)

Next ==
    \/ \E s \in Services : CycleBegins(s) \/ CycleSteps(s)
    \/ \E k \in Prefixes : Settles(k) \/ Rests(k)
    \/ Polls \/ IsClaimed \/ MarketMoves \/ GraceEnds \/ BrokerMoves \/ ModeMoves

Spec == Init /\ [][Next]_vars

\* The scheduler runs both jobs and the polls; a command ends, is expired or is reconciled;
\* the fill report or the reconciliation names the position; the clock runs.
Fairness ==
    /\ \A s \in Services : WF_vars(CycleBegins(s)) /\ WF_vars(CycleSteps(s))
    /\ \A k \in Prefixes : WF_vars(Settles(k)) /\ WF_vars(Rests(k))
    /\ WF_vars(Polls) /\ WF_vars(IsClaimed) /\ WF_vars(GraceEnds)
FairSpec == Spec /\ Fairness

-----------------------------------------------------------------------------
(* Properties.                                                             *)

\* "A stop only ever tightens" (ADR 0023): whichever of the two services asked, however late
\* its command arrives and whatever the core saw when it asked, no command loosens the stop
\* the position has by then.
StopNeverLoosens ==
    [][\A k \in Prefixes : Executes(k) /\ broker'.open => broker'.stop >= broker.stop]_vars

\* While the core may act, a position of the core does not stay for ever beyond a loss limit
\* or without a stop: it is closed, or protected, or the guardian halts and calls a human.
DangerEnds ==
    ~<>[](/\ broker.open /\ mode \in ActingModes
          /\ market.breached \/ broker.stop = NoStop)

\* "MAX_ATTEMPTS ended without effect: stop asking" (attempts.py): an action that is given up
\* was never carried out.
GaveUpMeansRefused ==
    \A k \in Prefixes : NextAttempt(k) = "gave_up" => ~ask[k].effect
=============================================================================
