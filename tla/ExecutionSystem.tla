--------------------------- MODULE ExecutionSystem ---------------------------
(***************************************************************************)
(* The core and the execution agent over their link: from a submitted order *)
(* to (at most) one order at the broker and a record that says so.          *)
(***************************************************************************)
EXTENDS ExecutionAgent, ExecutionService

\* A core that dies takes the connection with it.
ASSUME SystemAssumption == "crash" \in CoreFaults => "linkLoss" \in AgentFaults

agentSide == <<alive, halted, journal, agent, broker, execs>>
coreSide == <<record, content, outcome, callers, slots, core>>
systemVars == <<wire, agentSide, coreSide>>

SystemInit == AgentInit /\ ServiceInit

\* The agent can only connect to, and be pinged by, a core that runs.
AgentMoves == /\ AgentSteps
              /\ (connected' /\ ~connected) \/ (alive' /\ ~alive) => Up
              /\ UNCHANGED coreSide

CoreMoves == ServiceSteps /\ UNCHANGED agentSide

\* resolve_command over what the terminal shows: the same evidence the agent looks for.
SearchesBroker(c) == /\ \E found \in Evidence(c) : CoreSearches(c, found)
                     /\ UNCHANGED agentSide

\* The position is in the terminal's list.
SeesPosition(c) == /\ broker[c] = "placed"
                   /\ ConfirmsPosition(c)
                   /\ UNCHANGED agentSide

SystemNext == \/ AgentMoves \/ CoreMoves
              \/ \E c \in Commands : SearchesBroker(c) \/ SeesPosition(c)

SystemSpec == SystemInit /\ [][SystemNext]_systemVars

-----------------------------------------------------------------------------
(* Properties.                                                             *)

\* The core is one of the environments the agent was proved against: everything
\* ExecutionAgent promises holds in the composed system.
CoreIsAnEnvironment == AgentSpec

\* EXECUTED, and a reconciliation that says executed, only of an order that is at the broker.
ExecutedIsTrue == \A c \in Commands : outcome[c] = "executed" => broker[c] = "placed"

\* Once a command was recorded as sent, a terminal state that says nothing was placed
\* is true: a report, an acknowledgement or the sweep never hides an order that is, or
\* may become, live.
RefusalAfterSendIsTrue ==
    [][\A c \in Commands :
          record[c] \in {"SENT", "ACKNOWLEDGED"} /\ record'[c] \in NoPositionStates
             => broker[c] \in {"none", "refused"}]_systemVars

\* What in doubt means comes to an end: a command whose order is live and whose record
\* does not know is found, by the report or by one of the two searches.
LiveOrderIsFound ==
    \A c \in Commands :
        (broker[c] = "placed" /\ record[c] \in InDoubtStates) ~> (record[c] \in {"EXECUTED", "RECONCILED"})

-----------------------------------------------------------------------------
(* Fairness, beside the agent's: the scheduler runs the sweep every 2 s and *)
(* the reconciliation every 15 s, the connection's task handles what it     *)
(* reads, the process is started again.  A crash or a database failure does *)
(* not interrupt every settling (strong fairness).                          *)

SystemFairness ==
    /\ WF_systemVars(AgentMoves /\ HandlerGoesOn)
    /\ WF_systemVars(CoreMoves /\ (OnReportMoves \/ CoreStarts \/ Recovered))
    /\ \A c \in Commands :
          /\ WF_systemVars(AgentMoves /\ BrokerSettles(c))
          /\ WF_systemVars(CoreMoves /\ RecoverOne(c))
          /\ SF_systemVars(CoreMoves /\ SweepDoubts(c))
          /\ SF_systemVars(SearchesBroker(c))
    /\ SF_systemVars(CoreMoves /\ StartsReconciling("search"))
    /\ SF_systemVars(CoreMoves /\ Concludes("search"))

SystemFairSpec == SystemSpec /\ SystemFairness

-----------------------------------------------------------------------------
(* What comments of the code say of the whole, and what it does not do.     *)

\* state.py, NO_POSITION_STATES (CANCELLED is one): "States that say nothing was placed
\* at the broker".
CancelledIsNothing ==
    \A c \in Commands : record[c] = "CANCELLED" => broker[c] # "placed"

\* engine.py: "an order that might have reached the broker becomes UNKNOWN and is never
\* replayed" by the recovery at startup.
RecoveryDoubts ==
    [][\A c \in Commands :
          core = "recovering" /\ record[c] # record'[c] /\ broker[c] = "placed"
             => record'[c] = "UNKNOWN"]_systemVars

\* commands.py, RECONCILED: "truth established from MT5 (terminal)".
ReconciledIsTrue ==
    \A c \in Commands : outcome[c] = "nothing" => broker[c] \in {"none", "refused"}
=============================================================================
