--------------------------- MODULE ExecutionAgent ---------------------------
(***************************************************************************)
(* The MetaTrader 5 execution agent: tools/mt5-execution-agent,             *)
(* TradingOsAgent.mq5 and Include/CommandStore.mqh, with the broker it      *)
(* calls.  MQL5 runs one event handler at a time, so a handler is a         *)
(* sequence of actions that only a crash, the link, the clock, the broker   *)
(* or a human dropping a halt file can interrupt (`pc').                    *)
(*                                                                         *)
(* The command lines arrive from an environment that may send the same     *)
(* commandId any number of times: what this module promises holds whatever  *)
(* the core does.  ExecutionSystem puts the core in that place.             *)
(***************************************************************************)
EXTENDS ExecutionLink

CONSTANTS
    Exits,        \* the commandIds that only close or cancel (TradeCommandReducesRiskOnly)
    AgentModes,   \* the builds of the agent: "OBSERVE", "CONFIRM"
    AgentFaults   \* what may happen to it: "crash", "linkLoss", "storeWrite", "storeRead", "history", "halt"

ASSUME AgentAssumption ==
    /\ Exits \subseteq Commands
    /\ AgentModes \subseteq {"OBSERVE", "CONFIRM"}

VARIABLES
    alive,      \* a control.ping came on this connection within the dead-man delay
    halted,     \* a halt file exists (it survives a restart)
    journal,    \* the command store's last line of each commandId (on disk)
    agent,      \* the handler in progress, and the mode compiled into the agent
    broker,     \* what the broker did with the command's request
    execs       \* how many requests of the command took effect at the broker

agentVars == <<lines, late, connected, toCore, alive, halted, journal, agent, broker, execs>>

\* "AMBIGUOUS" is a FAILED line whose retcode does not say whether an order is live.
JournalStates == {"none", "UNKNOWN", "FILLED", "SIMULATED", "FAILED", "AMBIGUOUS", "REJECTED", "EXPIRED"}

\* CommandStoreIsFinalStatus: EXPIRED is recorded, but has no report to give again.
FinalStatuses == ReportStatuses

\* What the journal says when nothing of the command is, or will be, at the broker.
NothingPlaced == {"SIMULATED", "FAILED", "REJECTED", "EXPIRED"}

PCs == {"down", "idle", "connecting", "reconciling", "admitted", "journaled", "waiting"}

AgentTypeOK ==
    /\ LinkTypeOK
    /\ alive \in BOOLEAN
    /\ halted \in BOOLEAN
    /\ journal \in [Commands -> JournalStates]
    /\ agent \in [pc : PCs, cmd : Commands \cup {NoCommand}, todo : SUBSET Commands, mode : AgentModes]
    /\ broker \in [Commands -> {"none", "limbo", "placed", "refused"}]
    /\ execs \in [Commands -> Nat]

AgentInit ==
    /\ LinkInit
    /\ alive = FALSE
    /\ halted = FALSE
    /\ journal = [c \in Commands |-> "none"]
    /\ agent \in [pc : {"idle"}, cmd : {NoCommand}, todo : {{}}, mode : AgentModes]
    /\ broker = [c \in Commands |-> "none"]
    /\ execs = [c \in Commands |-> 0]

-----------------------------------------------------------------------------
(* Helpers.                                                                *)

At(pc) == agent.pc = pc
Go(pc, c) == agent' = [agent EXCEPT !.pc = pc, !.cmd = c]
Idle == Go("idle", NoCommand)
GoEmpty(pc) == agent' = [agent EXCEPT !.pc = pc, !.cmd = NoCommand, !.todo = {}]
Confirms == agent.mode = "CONFIRM"

\* SendRawLine: what is sent on a closed socket is gone, nobody is told.
\* The bound on the queue stands for the socket's back-pressure.
Send(ms) == IF connected
            THEN /\ Len(toCore) + Len(ms) <= MaxQueue
                 /\ toCore' = toCore \o ms
            ELSE toCore' = toCore

\* CommandStoreRecord appends a line; it may fail, and says so.
Writes == IF "storeWrite" \in AgentFaults THEN BOOLEAN ELSE {TRUE}
Record(c, status, ok) == journal' = IF ok THEN [journal EXCEPT ![c] = status] ELSE journal

\* Mutant: a line that is not a result yet, or has no report to give, counts as new.
UnseenUnlessFinal(c) == journal[c] \notin FinalStatuses
UnseenUnlessReported(c) == journal[c] \in {"none", "EXPIRED"}

\* CommandStoreLookup: a file that cannot be opened reads as "never seen".
Unseen(c) == journal[c] = "none" \/ "storeRead" \in AgentFaults
Seen(c) == journal[c] # "none"

HaltedFor(c) == halted /\ c \notin Exits

-----------------------------------------------------------------------------
(* The command path: AdmitCommand, ValidateTradeCommand, ExecuteOrder.      *)

Take(c) == /\ At("idle")
           /\ lines[c] > 0
           /\ lines' = [lines EXCEPT ![c] = @ - 1]

\* A commandId already in the journal: its result is given again, nothing else happens.
AnswerDuplicate(c) ==
    /\ Take(c)
    /\ Seen(c)
    /\ Send(<<Ack(c, "DUPLICATE")>> \o
            IF journal[c] \in FinalStatuses THEN <<Report(c, journal[c])>> ELSE <<>>)
    /\ UNCHANGED <<late, connected, alive, halted, journal, agent, broker, execs>>

\* Refused before the acknowledgement: the halt, the identity, the account (all
\* looked at before the expiry), the dead-man switch or a local barrier, which
\* look at data this model leaves out.  The journal line may fail to be written.
Refuse(c) ==
    /\ Take(c)
    /\ Unseen(c)
    /\ \E ok \in Writes : Record(c, "REJECTED", ok)
    /\ Send(<<Ack(c, "REJECTED"), Report(c, "REJECTED")>>)
    /\ UNCHANGED <<late, connected, alive, halted, agent, broker, execs>>

\* Received after its expiresAt: recorded and acknowledged, never reported.
ExpireAtAgent(c) ==
    /\ Take(c)
    /\ Unseen(c)
    /\ ~HaltedFor(c)
    /\ c \in late
    /\ \E ok \in Writes : Record(c, "EXPIRED", ok)
    /\ Send(<<Ack(c, "EXPIRED")>>)
    /\ UNCHANGED <<late, connected, alive, halted, agent, broker, execs>>

\* Every check passed: acknowledged.
Accept(c) ==
    /\ Take(c)
    /\ Unseen(c)
    /\ ~HaltedFor(c)
    /\ c \notin late
    /\ alive
    /\ Send(<<Ack(c, "ACCEPTED")>>)
    /\ Go("admitted", c)
    /\ UNCHANGED <<late, connected, alive, halted, journal, broker, execs>>

\* The end of a handler that reports: the line is written (or not), the report leaves.
Finish(status, ok) ==
    /\ Record(agent.cmd, status, ok)
    /\ Send(<<Report(agent.cmd, status)>>)
    /\ Idle
    /\ UNCHANGED <<lines, late, connected, alive, halted, broker, execs>>

\* The OBSERVE build: acknowledged, reported SIMULATED, the broker is never asked.
Simulate == /\ At("admitted")
            /\ ~Confirms
            /\ \E ok \in Writes : Finish("SIMULATED", ok)

\* Refused after the acknowledgement: the login's lists, the checks run again, the request.
RefuseAccepted == /\ At("admitted")
                  /\ Confirms
                  /\ \E ok \in Writes : Finish("REJECTED", ok)

\* OrderCheck said no; its retcode may be one the core reads as ambiguous.
CheckRefused == /\ At("admitted")
                /\ Confirms
                /\ \E ok \in Writes, status \in {"FAILED", "AMBIGUOUS"} : Finish(status, ok)

\* Mutant: the broker is called without the UNKNOWN line.
WriteBehind ==
    /\ At("admitted")
    /\ Confirms
    /\ alive
    /\ ~HaltedFor(agent.cmd)
    /\ Go("journaled", agent.cmd)
    /\ UNCHANGED <<lines, late, connected, toCore, alive, halted, journal, broker, execs>>

\* Mutant: the halt is not looked at again before the broker.
WriteAheadUnchecked ==
    /\ At("admitted")
    /\ Confirms
    /\ alive
    /\ journal' = [journal EXCEPT ![agent.cmd] = "UNKNOWN"]
    /\ Go("journaled", agent.cmd)
    /\ UNCHANGED <<lines, late, connected, toCore, alive, halted, broker, execs>>

\* Mutant: ExecuteOrder trusts the mode fork of its caller.
WriteAheadAnyMode ==
    /\ At("admitted")
    /\ alive
    /\ ~HaltedFor(agent.cmd)
    /\ journal' = [journal EXCEPT ![agent.cmd] = "UNKNOWN"]
    /\ Go("journaled", agent.cmd)
    /\ UNCHANGED <<lines, late, connected, toCore, alive, halted, broker, execs>>

\* The UNKNOWN line is written before the broker is called.
WriteAhead ==
    /\ At("admitted")
    /\ Confirms
    /\ alive
    /\ ~HaltedFor(agent.cmd)
    /\ journal' = [journal EXCEPT ![agent.cmd] = "UNKNOWN"]
    /\ Go("journaled", agent.cmd)
    /\ UNCHANGED <<lines, late, connected, toCore, alive, halted, broker, execs>>

\* It could not be written: "order NOT sent", whether or not the FAILED line is written.
Unwritable == /\ At("admitted")
              /\ Confirms
              /\ "storeWrite" \in AgentFaults
              /\ alive
              /\ ~HaltedFor(agent.cmd)
              /\ \E ok \in Writes : Finish("FAILED", ok)

\* The one OrderSend: the request leaves for the broker.
OrderSend ==
    /\ At("journaled")
    /\ broker' = [broker EXCEPT ![agent.cmd] = "limbo"]
    /\ Go("waiting", agent.cmd)
    /\ UNCHANGED <<lines, late, connected, toCore, alive, halted, journal, execs>>

\* Mutant: a timeout is taken for a refusal.
AnswersGuessed == IF broker[agent.cmd] = "placed" THEN {"FILLED"} ELSE {"FAILED"}

\* The answer: a fill, a refusal, or a return code that tells nothing.
Answers == (IF broker[agent.cmd] = "placed" THEN {"FILLED"} ELSE {})
      \cup (IF broker[agent.cmd] = "refused" THEN {"FAILED"} ELSE {})
      \cup {"AMBIGUOUS"}

OrderReturns == /\ At("waiting")
                /\ \E ok \in Writes, status \in Answers : Finish(status, ok)

AgentHandles == \/ \E c \in Commands : AnswerDuplicate(c) \/ Refuse(c) \/ ExpireAtAgent(c) \/ Accept(c)
                \/ Simulate \/ RefuseAccepted \/ CheckRefused \/ WriteAhead \/ Unwritable
                \/ OrderSend \/ OrderReturns

-----------------------------------------------------------------------------
(* Connection: hello, the recent reports again, then the UNKNOWN commands.  *)

\* Lines the previous connection had not delivered are gone with it.  Only the
\* reports of the last InpReportReplayMinutes are given again.
Connect ==
    /\ At("idle")
    /\ ~connected
    /\ connected' = TRUE
    /\ alive' = FALSE
    /\ lines' = [c \in Commands |-> 0]
    /\ \E recent \in SUBSET {c \in Commands : journal[c] \in FinalStatuses} :
          agent' = [agent EXCEPT !.pc = "connecting", !.todo = recent]
    /\ UNCHANGED <<late, toCore, halted, journal, broker, execs>>

ReplayReport(c) ==
    /\ At("connecting")
    /\ c \in agent.todo
    /\ Send(<<Report(c, journal[c])>>)
    /\ agent' = [agent EXCEPT !.todo = @ \ {c}]
    /\ UNCHANGED <<lines, late, connected, alive, halted, journal, broker, execs>>

\* Mutant: the round after a connection forgets to look for them.
StartReconcilingNothing == agent' = [agent EXCEPT !.pc = "reconciling", !.todo = {}]

\* CommandStoreFindUnknown: the commands whose last line is exactly UNKNOWN.
StartReconciling == agent' = [agent EXCEPT !.pc = "reconciling",
                                           !.todo = {c \in Commands : journal[c] = "UNKNOWN"}]

\* Connecting goes on to the reconciliation in the same handler, whatever became of the link.
ReplayDone ==
    /\ At("connecting")
    /\ agent.todo = {}
    /\ StartReconciling
    /\ UNCHANGED <<lines, late, connected, toCore, alive, halted, journal, broker, execs>>

\* The heartbeat has the same duty.
Heartbeat ==
    /\ At("idle")
    /\ connected
    /\ StartReconciling
    /\ UNCHANGED <<lines, late, connected, toCore, alive, halted, journal, broker, execs>>

\* Mutants: an order that is still on its way is read as filled, or as refused.
EvidenceHasty(c) == IF broker[c] \in {"limbo", "placed"} THEN {"executed"} ELSE {"not_found"}
EvidenceNegative(c) == IF broker[c] = "placed" THEN {"executed"} ELSE {"rejected"}

\* ResolveUnknownCommand looks at the terminal: a live or filled order is found;
\* a refused one may have left a history order, or nothing.
Evidence(c) == CASE broker[c] = "placed" -> {"executed"}
                 [] broker[c] = "refused" -> {"rejected", "not_found"}
                 [] OTHER -> {"not_found"}

\* One UNKNOWN command: never sends an order, only looks.
ReconcileUnknown(c) ==
    /\ At("reconciling")
    /\ c \in agent.todo
    /\ \E found \in Evidence(c), ok \in Writes :
          /\ CASE found = "executed" -> Record(c, "FILLED", ok)
               [] found = "rejected" -> Record(c, "FAILED", ok)
               [] OTHER -> UNCHANGED journal
          /\ Send(<<Reconciled(c, found)>>)
    /\ agent' = [agent EXCEPT !.todo = @ \ {c}]
    /\ UNCHANGED <<lines, late, connected, alive, halted, broker, execs>>

\* The end of the round; HistorySelect may fail and end it early.
ReconcileDone ==
    /\ At("reconciling")
    /\ agent.todo = {} \/ "history" \in AgentFaults
    /\ GoEmpty("idle")
    /\ UNCHANGED <<lines, late, connected, toCore, alive, halted, journal, broker, execs>>

-----------------------------------------------------------------------------
(* Control lines, the human at the chart, the clock, the broker, failures.  *)

\* control.ping feeds the dead-man clock.
Ping == /\ At("idle")
        /\ connected
        /\ alive' = TRUE
        /\ UNCHANGED <<lines, late, connected, toCore, halted, journal, agent, broker, execs>>

\* No ping for DeadManSeconds.
Silence == /\ alive
           /\ alive' = FALSE
           /\ UNCHANGED <<lines, late, connected, toCore, halted, journal, agent, broker, execs>>

\* control.halt, the chart button, or the file dropped by hand at any moment.
SetHalt == /\ "halt" \in AgentFaults
           /\ ~halted
           /\ halted' = TRUE
           /\ UNCHANGED <<lines, late, connected, toCore, alive, journal, agent, broker, execs>>

\* Lifted by a human on the chart only: an event handler of the agent.
ClearHalt == /\ At("idle")
             /\ halted
             /\ halted' = FALSE
             /\ UNCHANGED <<lines, late, connected, toCore, alive, journal, agent, broker, execs>>

BecomesLate(c) ==
    /\ c \notin late
    /\ late' = late \cup {c}
    /\ UNCHANGED <<lines, connected, toCore, alive, halted, journal, agent, broker, execs>>

BrokerSettles(c) ==
    /\ broker[c] = "limbo"
    /\ \/ /\ broker' = [broker EXCEPT ![c] = "placed"]
          /\ execs' = [execs EXCEPT ![c] = @ + 1]
       \/ /\ broker' = [broker EXCEPT ![c] = "refused"]
          /\ UNCHANGED execs
    /\ UNCHANGED <<lines, late, connected, toCore, alive, halted, journal, agent>>

LinkLost ==
    /\ "linkLoss" \in AgentFaults
    /\ LinkDrops
    /\ UNCHANGED <<late, alive, halted, journal, agent, broker, execs>>

\* The terminal dies; a request already handed to the broker lives on.
AgentCrash ==
    /\ "crash" \in AgentFaults
    /\ ~At("down")
    /\ connected' = FALSE
    /\ lines' = [c \in Commands |-> 0]
    /\ \E k \in 0..Len(toCore) : toCore' = SubSeq(toCore, 1, k)
    /\ alive' = FALSE
    /\ GoEmpty("down")
    /\ UNCHANGED <<late, halted, journal, broker, execs>>

AgentRestart ==
    /\ At("down")
    /\ Idle
    /\ UNCHANGED <<lines, late, connected, toCore, alive, halted, journal, broker, execs>>

AgentSteps == \/ AgentHandles
              \/ Connect \/ ReplayDone \/ Heartbeat \/ ReconcileDone
              \/ \E c \in Commands : ReplayReport(c) \/ ReconcileUnknown(c)
              \/ Ping \/ Silence \/ SetHalt \/ ClearHalt
              \/ LinkLost \/ AgentCrash \/ AgentRestart
              \/ \E c \in Commands : BecomesLate(c) \/ BrokerSettles(c)

-----------------------------------------------------------------------------
(* The environment of this module: a core that may send any line at any     *)
(* time, and reads the agent's messages in order.                           *)

LineArrives(c) ==
    /\ connected
    /\ lines[c] < MaxLines
    /\ lines' = [lines EXCEPT ![c] = @ + 1]
    /\ UNCHANGED <<late, connected, toCore, alive, halted, journal, agent, broker, execs>>

CoreReads ==
    /\ toCore # <<>>
    /\ toCore' = Tail(toCore)
    /\ UNCHANGED <<lines, late, connected, alive, halted, journal, agent, broker, execs>>

AgentNext == AgentSteps \/ CoreReads \/ \E c \in Commands : LineArrives(c)

AgentSpec == AgentInit /\ [][AgentNext]_agentVars

-----------------------------------------------------------------------------
(* Fairness.  OnTimer fires every second, so a handler that has begun goes  *)
(* on, and the heartbeat comes round; the core reads its socket; the broker *)
(* answers.  The duties that a crash or a lost link interrupts are fair in  *)
(* the strong sense: they are not interrupted every single time.            *)

HandlerGoesOn == Simulate \/ RefuseAccepted \/ CheckRefused \/ WriteAhead \/ Unwritable
                 \/ OrderSend \/ OrderReturns \/ AgentRestart

AgentFairness ==
    /\ WF_agentVars(HandlerGoesOn)
    /\ WF_agentVars(CoreReads)
    /\ SF_agentVars(Connect)
    /\ SF_agentVars(ReplayDone)
    /\ SF_agentVars(Heartbeat)
    /\ SF_agentVars(ReconcileDone)
    /\ \A c \in Commands : /\ WF_agentVars(BrokerSettles(c))
                          /\ SF_agentVars(ReplayReport(c))
                          /\ SF_agentVars(ReconcileUnknown(c))

AgentFairSpec == AgentSpec /\ AgentFairness

-----------------------------------------------------------------------------
(* Properties.                                                             *)

\* One commandId is one execution at most at the broker, however many times its
\* line is delivered and wherever the terminal dies (ADR 0010, "jamais deux positions").
AtMostOnce == \A c \in Commands : execs[c] <= 1

\* Nothing is ever at the broker that the journal on disk does not know of, so a
\* restarted agent cannot take a command it already sent for a new one.
JournalAhead == \A c \in Commands : broker[c] # "none" => journal[c] # "none"

\* A final line tells the truth: FILLED only of a placed order, a refusal only when
\* nothing is, or can still become, live at the broker.
JournalTruthful ==
    \A c \in Commands :
        /\ journal[c] = "FILLED" => broker[c] = "placed"
        /\ journal[c] \in NothingPlaced => broker[c] \in {"none", "refused"}

\* The inductive strengthening of the three above: what a handler in progress knows of
\* its command, and how many executions a command stands for.
HandlerOK ==
    /\ agent.pc \in {"admitted", "journaled", "waiting"} => agent.cmd \in Commands
    /\ At("admitted") => journal[agent.cmd] = "none"
    /\ At("journaled") => journal[agent.cmd] = "UNKNOWN" /\ broker[agent.cmd] = "none"
    /\ At("waiting") => journal[agent.cmd] = "UNKNOWN" /\ broker[agent.cmd] # "none"
    /\ At("connecting") => \A c \in agent.todo : journal[c] \in FinalStatuses
    /\ At("reconciling") => \A c \in agent.todo : journal[c] = "UNKNOWN"
ExecutionsCounted == \A c \in Commands : execs[c] = IF broker[c] = "placed" THEN 1 ELSE 0
AgentInv == AgentTypeOK /\ HandlerOK /\ ExecutionsCounted /\ JournalAhead /\ JournalTruthful

\* What a message on the wire says of the broker is true when the core reads it,
\* however long it travelled and whatever else the agent did meanwhile.
PositiveMessages == {m \in Messages : \/ m.kind = "report" /\ m.status = "FILLED"
                                      \/ m.kind = "reconciled" /\ m.status = "executed"}
NegativeMessages == {m \in Messages : \/ m.kind = "report" /\ m.status \in NothingPlaced
                                      \/ m.kind = "ack" /\ m.status \in {"REJECTED", "EXPIRED"}
                                      \/ m.kind = "reconciled" /\ m.status = "rejected"}
MessagesTruthful ==
    \A i \in 1..Len(toCore) :
        LET m == toCore[i]
        IN  /\ m \in PositiveMessages => broker[m.cmd] = "placed"
            /\ m \in NegativeMessages => broker[m.cmd] \in {"none", "refused"}

\* While the halt is set, restarts and all, no command that adds risk starts its way
\* to the broker; one that closes or cancels still may (ADR 0033).
HaltStopsNewRisk ==
    [][\A c \in Commands \ Exits :
          halted => ~(journal[c] = "none" /\ journal'[c] = "UNKNOWN")]_agentVars

\* An agent compiled OBSERVE never has anything at the broker, nor an open outcome,
\* whatever reaches it: the mode is a physical barrier, not a switch (ADR 0010).
ObserveNeverTrades ==
    agent.mode = "OBSERVE" => \A c \in Commands : broker[c] = "none" /\ journal[c] # "UNKNOWN"

\* A final line is never rewritten: the result a replay gives is the original one.
FinalIsFinal ==
    [][\A c \in Commands :
          journal[c] \in FinalStatuses \cup {"EXPIRED"} => journal'[c] = journal[c]]_agentVars

\* A command left UNKNOWN by a crash whose order is live is told apart from one that
\* is not: the agent finds the order and settles the line.
UnknownIsResolved ==
    \A c \in Commands :
        (journal[c] = "UNKNOWN" /\ broker[c] = "placed") ~> (journal[c] # "UNKNOWN")

\* The agent implements the promise of OrderPromise.
FateFor(b) == CASE b = "none" -> "untried"
                [] b = "limbo" -> "inflight"
                [] OTHER -> b
VerdictFor(j) == CASE j = "none" -> "none"
                   [] j \in {"UNKNOWN", "AMBIGUOUS"} -> "open"
                   [] j = "FILLED" -> "done"
                   [] OTHER -> "nothing"
fateOf == [c \in Commands |-> FateFor(broker[c])]
verdictOf == [c \in Commands |-> VerdictFor(journal[c])]
Promise == INSTANCE OrderPromise WITH fate <- fateOf, verdict <- verdictOf
KeepsPromise == Promise!Spec
=============================================================================
