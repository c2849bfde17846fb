-------------------------------- MODULE Startup --------------------------------
(***************************************************************************)
(* "Start the system" (services/startup.py): the sequence that verifies the *)
(* database, the account, the terminal and the engines and then climbs the  *)
(* ladder rung by rung, CONFIRM at most; the separate gesture that          *)
(* authorises automatic trading; and the picture the cockpit is given.      *)
(*                                                                         *)
(* The rest of the system is the world: it may change at every await.       *)
(***************************************************************************)
EXTENDS AutonomyLadder, FiniteSets

CONSTANTS
    Clicks,          \* the requests to start that are made
    Accounts,        \* the accounts registered
    Live,            \* those that hold real money
    MaxMode,         \* min(TRADING_MODE, max_mode) of each account
    StartupFaults    \* "race": a request overtakes another; "bug": an engine raises what nobody expects;
                     \* "switch": another account is selected

VARIABLES
    mode,       \* AutonomyService._state.mode
    db,         \* whether the database answers
    green,      \* whether the conditions the world decides hold: the readiness, a fresh feed, no doubt, ...
    selected,   \* the active account
    attached,   \* the account whose session is open
    run,        \* StartupService._run
    click,      \* each request, and the sequence it started
    climbs      \* history: the climbs the sequences made on real money that nobody acknowledged

startupVars == <<mode, db, green, selected, attached, run, click, climbs>>
surroundings == <<mode, db, green, selected, attached>>

StartTargets == {"OBSERVE", "PAPER", "CONFIRM"}
NoAccount == "none"
StartupAssumption == NoAccount \notin Accounts /\ Live \subseteq Accounts /\ MaxMode \in [Accounts -> Rungs]
StartupFault(kind) == kind \in StartupFaults
Waiting == [pc |-> "idle", target |-> "OFF", ack |-> FALSE, account |-> NoAccount, reached |-> "OFF"]
NoRun == [state |-> "none", by |-> NoAccount, target |-> "OFF", reached |-> "none"]

\* Without an active account OBSERVE is the ceiling (AutonomyService.ceiling).
CeilingOf(a) == IF a = NoAccount THEN "OBSERVE" ELSE MaxMode[a]

StartupTypeOK ==
    /\ mode \in Modes /\ db \in BOOLEAN /\ green \in BOOLEAN
    /\ selected \in Accounts \cup {NoAccount} /\ attached \in Accounts \cup {NoAccount}
    /\ run.state \in {"none", "RUNNING", "DONE", "PARTIAL", "BLOCKED"}
    /\ \A c \in Clicks :
        /\ click[c].pc \in {"idle", "begins", "database", "account", "connects", "terminal", "engines",
                            "climbs", "checked"}
        /\ click[c].reached \in Modes
    /\ climbs \subseteq StartTargets

Init ==
    /\ mode \in {"OFF", "HALTED"}
    /\ db \in BOOLEAN /\ green \in BOOLEAN
    /\ selected \in Accounts \cup {NoAccount} /\ attached = NoAccount
    /\ run = NoRun
    /\ click = [c \in Clicks |-> Waiting]
    /\ climbs = {}

-----------------------------------------------------------------------------
(* The conditions, and what the cockpit is told (status).                  *)

\* _entry_checks: the conditions that do not hold, for the selected account.
RedChecks(a) ==
    (IF green /\ db THEN {} ELSE {"world"})
    \cup (IF a = NoAccount THEN {"account"} ELSE {})
    \cup (IF a # NoAccount /\ attached # a THEN {"correct_account"} ELSE {})
    \cup (IF mode = "HALTED" THEN {"no_safety_block"} ELSE {})
    \cup (IF Rank(CeilingOf(a)) < Rank("CONFIRM") THEN {"mode_authorized"} ELSE {})

EffectiveMode(a) == IF a = NoAccount THEN mode ELSE Lowest(mode, CeilingOf(a))
NextAutomatic(m) == CASE m = "CONFIRM" -> "ARMED" [] m = "ARMED" -> "AUTONOMOUS" [] OTHER -> "none"
SendsOrders(m) == m = "CONFIRM" \/ m \in Automatic

EntriesAuthorized == SendsOrders(EffectiveMode(selected)) /\ RedChecks(selected) = {} /\ mode # "HALTED"

\* _stages: the last one, what the cockpit shows of the right to trade.
TradingStage ==
    LET m == EffectiveMode(selected) IN
    CASE mode = "HALTED" -> "HALTED"
      [] m = "OFF" -> "STOPPED"
      [] ~SendsOrders(m) -> "READY"
      [] RedChecks(selected) # {} -> "DEGRADED"
      [] OTHER -> "RUNNING"

\* Mutant: the ceiling is not among what blocks.
CanAuthorizeUnderAnyCeiling ==
    NextAutomatic(EffectiveMode(selected)) # "none" /\ RedChecks(selected) = {}
CanAuthorize ==
    LET next == NextAutomatic(EffectiveMode(selected)) IN
    /\ next # "none"
    /\ RedChecks(selected) = {} /\ Rank(next) <= Rank(CeilingOf(selected)) /\ mode # "HALTED"

-----------------------------------------------------------------------------
(* Starting.                                                               *)

\* begin: a run that is going on is returned. Otherwise the account is awaited ...
Begins(c, target, ack) ==
    /\ click[c].pc = "idle"
    /\ StartupFault("race") \/ \A d \in Clicks : click[d].pc # "begins"
    /\ run.state # "RUNNING"
    /\ click' = [click EXCEPT ![c] = [Waiting EXCEPT !.pc = "begins", !.target = target, !.ack = ack]]
    /\ UNCHANGED <<surroundings, run, climbs>>

\* ... a climb to CONFIRM on real money wants its confirmation, and the run is recorded and started.
Starts(c) ==
    /\ click[c].pc = "begins"
    /\ IF selected \in Live /\ click[c].target = "CONFIRM" /\ ~click[c].ack
         THEN click' = [click EXCEPT ![c] = Waiting] /\ UNCHANGED run
         ELSE /\ click' = [click EXCEPT ![c].pc = "database"]
              /\ run' = [state |-> "RUNNING", by |-> c, target |-> click[c].target, reached |-> "none"]
    /\ UNCHANGED <<surroundings, climbs>>

\* _finish: writes on the run that is there.
Finishes(c, outcome, reached) ==
    /\ click' = [click EXCEPT ![c] = Waiting]
    /\ run' = [run EXCEPT !.state = outcome, !.reached = reached]
Blocks(c) == Finishes(c, "BLOCKED", "none")
Continues(c, pc) == click' = [click EXCEPT ![c].pc = pc] /\ UNCHANGED run

\* The database, then the halt that is there.
ChecksDatabase(c) ==
    /\ click[c].pc = "database"
    /\ IF db /\ mode # "HALTED" THEN Continues(c, "account") ELSE Blocks(c)
    /\ UNCHANGED <<surroundings, climbs>>

\* The account is read again.
ChecksAccount(c) ==
    /\ click[c].pc = "account"
    /\ IF selected = NoAccount THEN Blocks(c)
       ELSE /\ click' = [click EXCEPT ![c].account = selected,
                                      ![c].pc = IF attached = selected THEN "terminal" ELSE "connects"]
            /\ UNCHANGED run
    /\ UNCHANGED <<surroundings, climbs>>

\* connect, without a password: another account that is connected, or the terminal, may refuse.
Connects(c) ==
    /\ click[c].pc = "connects"
    /\ \/ attached \in {NoAccount, click[c].account}
          /\ attached' = click[c].account /\ selected' = click[c].account
          /\ Continues(c, "terminal")
       \/ Blocks(c) /\ UNCHANGED <<attached, selected>>
    /\ UNCHANGED <<mode, db, green, climbs>>

\* A fresh read of the terminal, on this account.
ReadsTerminal(c) ==
    /\ click[c].pc = "terminal"
    /\ IF attached = click[c].account THEN Continues(c, "engines") \/ Blocks(c) ELSE Blocks(c)
    /\ UNCHANGED <<surroundings, climbs>>

\* The agent, the reconciliation, the feed, the guardian, the risk: waited for or run, red or not.
RunsEngines(c) ==
    /\ click[c].pc = "engines"
    /\ click' = [click EXCEPT ![c].pc = "climbs", ![c].reached = mode]
    /\ UNCHANGED <<surroundings, run, climbs>>

\* Mutant: only the errors the system knows end the run.
FailsUnfinished(c) == click' = [click EXCEPT ![c] = Waiting] /\ UNCHANGED run
\* _execute: whatever it is, the run ends.
Fails(c) == Blocks(c)

\* An engine raises what no handler of the sequence expects.
EngineRaises(c) ==
    /\ StartupFault("bug") /\ click[c].pc \in {"connects", "terminal", "engines"}
    /\ Fails(c)
    /\ UNCHANGED <<surroundings, climbs>>

\* The next rung of the climb; "none" when the target is reached.
NextRung(c) ==
    LET left == {r \in StartTargets : Rank(r) <= Rank(click[c].target) /\ Rank(r) > Rank(click[c].reached)}
    IN  IF left = {} THEN "none" ELSE CHOOSE r \in left : \A s \in left : Rank(r) <= Rank(s)

\* A rung that is refused ends the climb.
Stops(c) ==
    Finishes(c, IF click[c].reached = "OFF" THEN "BLOCKED" ELSE "PARTIAL", click[c].reached)

\* Before CONFIRM every condition is read afresh.
ChecksConditions(c) ==
    /\ click[c].pc = "climbs" /\ NextRung(c) = "CONFIRM"
    /\ IF RedChecks(click[c].account) = {} THEN Continues(c, "checked")
       ELSE Finishes(c, "PARTIAL", click[c].reached)
    /\ UNCHANGED <<surroundings, climbs>>

\* arm(rung), which reads the mode and the ceiling for itself and may be refused by the store.
Climbs(c) ==
    /\ \/ click[c].pc = "climbs" /\ NextRung(c) \in {"OBSERVE", "PAPER"}
       \/ click[c].pc = "checked"
    /\ LET rung == NextRung(c) IN
        \/ /\ MayArm(mode, rung, CeilingOf(selected), TRUE)
           /\ mode' = rung
           /\ click' = [click EXCEPT ![c].pc = "climbs", ![c].reached = rung]
           /\ climbs' = IF rung = "CONFIRM" /\ selected \in Live /\ ~click[c].ack
                          THEN climbs \cup {rung} ELSE climbs
           /\ UNCHANGED run
        \/ Stops(c) /\ UNCHANGED <<mode, climbs>>
    /\ UNCHANGED <<db, green, selected, attached>>

Reaches(c) ==
    /\ click[c].pc = "climbs" /\ NextRung(c) = "none"
    /\ Finishes(c, "DONE", click[c].reached)
    /\ UNCHANGED <<surroundings, climbs>>

-----------------------------------------------------------------------------
(* The separate gesture, and the world.                                    *)

\* authorize_automatic: what it asks before it arms; arm asks the rest.
MayAuthorize(ack) ==
    LET next == NextAutomatic(EffectiveMode(selected)) IN
    /\ selected # NoAccount
    /\ next # "none"
    /\ selected \in Live => ack
    /\ RedChecks(selected) = {}
    /\ MayArm(mode, next, CeilingOf(selected), green)

Authorizes ==
    /\ \E ack \in BOOLEAN : MayAuthorize(ack)
    /\ mode' = NextAutomatic(EffectiveMode(selected))
    /\ UNCHANGED <<db, green, selected, attached, run, click, climbs>>

\* The user, the supervisor and the tick move the mode: a rung up, anything down, a halt and its end.
ModeMoves ==
    /\ \/ \E m \in Rungs : Rank(m) < Rank(mode) /\ mode' = m
       \/ mode # "HALTED" /\ mode' = "HALTED"
       \/ mode = "HALTED" /\ mode' = "OFF"
       \/ \E m \in StartTargets : MayArm(mode, m, CeilingOf(selected), TRUE) /\ mode' = m
    /\ UNCHANGED <<db, green, selected, attached, run, click, climbs>>

WorldMoves ==
    /\ \/ db' = ~db /\ UNCHANGED <<green, selected, attached>>
       \/ green' = ~green /\ UNCHANGED <<db, selected, attached>>
       \/ attached # NoAccount /\ attached' = NoAccount /\ UNCHANGED <<db, green, selected>>
       \/ /\ StartupFault("switch") /\ \E a \in Accounts : selected' = a /\ attached' \in {NoAccount, a}
          /\ UNCHANGED <<db, green>>
    /\ UNCHANGED <<mode, run, click, climbs>>

-----------------------------------------------------------------------------
SequenceSteps(c) ==
    \/ Starts(c) \/ ChecksDatabase(c) \/ ChecksAccount(c) \/ Connects(c) \/ ReadsTerminal(c)
    \/ RunsEngines(c) \/ ChecksConditions(c) \/ Climbs(c) \/ Reaches(c)

Next ==
    \/ \E c \in Clicks :
        \/ \E target \in StartTargets, ack \in BOOLEAN : Begins(c, target, ack)
        \/ SequenceSteps(c) \/ EngineRaises(c)
    \/ Authorizes \/ ModeMoves \/ WorldMoves

Spec == Init /\ [][Next]_startupVars

\* Every await of the sequence returns.
FairSpec == Spec /\ \A c \in Clicks : WF_startupVars(SequenceSteps(c))
-----------------------------------------------------------------------------
(* What starting promises.                                                 *)

\* "A bug must never leave a run RUNNING for ever": every run is finished, whatever an engine raises and
\* however the mode, the account and the database move during the sequence.
RunsEnd == []<>(run.state # "RUNNING")

\* The picture the cockpit is given agrees with what the gestures do: automatic trading is offered only when
\* authorising it would be granted, and entries are shown as authorised in exactly the states the last stage
\* shows as running.
PictureIsTrue ==
    /\ CanAuthorize => MayAuthorize(TRUE)
    /\ EntriesAuthorized <=> TradingStage = "RUNNING"

\* "A double click starts nothing twice" (begin): one sequence climbs at a time, and none once its run is over.
NothingTwice ==
    \A c \in Clicks : click[c].pc \notin {"idle", "begins"} => run.state = "RUNNING" /\ run.by = c

\* "Real account: starting up to CONFIRM needs the explicit confirmation of the trader" (begin), which is
\* asked for the account selected at the click: no climb of the sequence was made without it.
RealMoneyIsConfirmed == climbs = {}
=============================================================================
