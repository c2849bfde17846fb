------------------------ MODULE ExecutionAgentProofs ------------------------
(* Theorems about ExecutionAgent, for every set of commands and every bound. *)
EXTENDS ExecutionAgent, SequenceTheorems, TLAPS

(* What the agent sends is a message of the protocol.                        *)
LEMMA SendType ==
    ASSUME AgentTypeOK, NEW ms \in Seq(Messages), Send(ms)
    PROVE  toCore' \in Seq(Messages)
<1>1. toCore \in Seq(Messages)
  BY DEF AgentTypeOK, LinkTypeOK
<1>2. toCore \o ms \in Seq(Messages)
  BY <1>1, ConcatProperties
<1> QED  BY <1>1, <1>2 DEF Send

(* What is left of the queue when a connection ends.                         *)
LEMMA PrefixType ==
    ASSUME AgentTypeOK, NEW k \in 0..Len(toCore)
    PROVE  SubSeq(toCore, 1, k) \in Seq(Messages)
<1>1. toCore \in Seq(Messages) /\ k \in 0..Len(toCore)
  BY DEF AgentTypeOK, LinkTypeOK
<1>2. Len(toCore) \in Nat
  BY <1>1, LenProperties
<1>3. \A i \in 1..k : toCore[i] \in Messages
  BY <1>1, <1>2, ElementOfSeq
<1> QED  BY <1>1, <1>2, <1>3, SubSeqProperties

LEMMA MessageTypes ==
    ASSUME NEW c \in Commands
    PROVE  /\ \A s \in {"ACCEPTED", "REJECTED", "EXPIRED", "DUPLICATE"} : Ack(c, s) \in Messages
           /\ \A s \in FinalStatuses : Report(c, s) \in Messages
           /\ \A s \in {"executed", "rejected", "not_found"} : Reconciled(c, s) \in Messages
BY DEF Messages, Ack, Report, Reconciled, FinalStatuses, AckStatuses, Findings

(* A recorded line keeps the journal well typed, written or not.             *)
LEMMA RecordType ==
    ASSUME AgentTypeOK, NEW c \in Commands, NEW s \in JournalStates, NEW ok, Record(c, s, ok)
    PROVE  journal' \in [Commands -> JournalStates]
BY DEF AgentTypeOK, LinkTypeOK, Record

LEMMA FinalAreStates == FinalStatuses \subseteq JournalStates
BY DEF FinalStatuses, ReportStatuses, JournalStates

(* The end of a handler: its command's line becomes a final one that tells the truth. *)
LEMMA FinishInv ==
    ASSUME AgentInv, agent.cmd \in Commands, NEW s \in FinalStatuses, NEW ok, Finish(s, ok),
           s = "FILLED" => broker[agent.cmd] = "placed",
           s \in NothingPlaced => broker[agent.cmd] \in {"none", "refused"}
    PROVE  AgentInv'
<1>1. journal' \in [Commands -> JournalStates]
  BY RecordType, FinalAreStates DEF Finish, AgentInv
<1>2. toCore' \in Seq(Messages)
  <2>1. <<Report(agent.cmd, s)>> \in Seq(Messages)
    BY MessageTypes
  <2> QED  BY <2>1, SendType DEF Finish, AgentInv
<1>3. agent' \in [pc : PCs, cmd : Commands \cup {NoCommand}, todo : SUBSET Commands, mode : AgentModes]
  BY DEF AgentInv, AgentTypeOK, LinkTypeOK, Finish, Idle, Go, PCs
<1>4. AgentTypeOK'
  BY <1>1, <1>2, <1>3 DEF AgentInv, AgentTypeOK, LinkTypeOK, Finish
<1>5. HandlerOK'
  BY DEF AgentInv, AgentTypeOK, LinkTypeOK, Finish, Idle, Go, HandlerOK, At
<1>6. ExecutionsCounted'
  BY DEF AgentInv, ExecutionsCounted, Finish
<1>7. JournalAhead' /\ JournalTruthful'
  BY DEF AgentInv, AgentTypeOK, LinkTypeOK, JournalAhead, JournalTruthful, Finish, Record, FinalStatuses,
         ReportStatuses, NothingPlaced
<1> QED  BY <1>4, <1>5, <1>6, <1>7 DEF AgentInv

LEMMA AgentInvInit == AgentInit => AgentInv
<1> SUFFICES ASSUME AgentInit PROVE AgentInv
  OBVIOUS
<1>1. AgentTypeOK
  <2>1. toCore \in Seq(Messages)
    BY EmptySeq DEF AgentInit, LinkInit
  <2>2. agent \in [pc : PCs, cmd : Commands \cup {NoCommand}, todo : SUBSET Commands, mode : AgentModes]
    BY DEF AgentInit, PCs
  <2>3. /\ lines \in [Commands -> 0..MaxLines]
        /\ journal \in [Commands -> JournalStates]
        /\ broker \in [Commands -> {"none", "limbo", "placed", "refused"}]
        /\ execs \in [Commands -> Nat]
    BY LinkAssumption DEF AgentInit, LinkInit, JournalStates
  <2> QED  BY <2>1, <2>2, <2>3 DEF AgentInit, LinkInit, AgentTypeOK, LinkTypeOK
<1>2. HandlerOK /\ ExecutionsCounted /\ JournalAhead /\ JournalTruthful
  BY DEF AgentInit, LinkInit, HandlerOK, At, ExecutionsCounted, JournalAhead, JournalTruthful, NothingPlaced
<1> QED  BY <1>1, <1>2 DEF AgentInv

(* An action that leaves the handler, the journal and the broker alone.      *)
LEMMA AgentInvLocal ==
    ASSUME AgentInv, AgentTypeOK', UNCHANGED <<journal, agent, broker, execs>>
    PROVE  AgentInv'
BY DEF AgentInv, HandlerOK, At, ExecutionsCounted, JournalAhead, JournalTruthful

LEMMA TakeType ==
    ASSUME AgentTypeOK, NEW c \in Commands, Take(c)
    PROVE  lines' \in [Commands -> 0..MaxLines]
BY LinkAssumption DEF AgentTypeOK, LinkTypeOK, Take

(* Every step keeps the invariant, provided the command store can be read.   *)
LEMMA AgentInvStep ==
    ASSUME "storeRead" \notin AgentFaults, AgentInv, [AgentNext]_agentVars
    PROVE  AgentInv'
<1> USE DEF AgentInv
<1>1. ASSUME NEW c \in Commands, AnswerDuplicate(c) PROVE AgentInv'
  <2> DEFINE again == IF journal[c] \in FinalStatuses THEN <<Report(c, journal[c])>> ELSE <<>>
  <2>1. <<Ack(c, "DUPLICATE")>> \in Seq(Messages) /\ again \in Seq(Messages)
    BY MessageTypes, EmptySeq
  <2>2. toCore' \in Seq(Messages)
    <3>1. <<Ack(c, "DUPLICATE")>> \o again \in Seq(Messages)
      BY <2>1, ConcatProperties
    <3>2. Send(<<Ack(c, "DUPLICATE")>> \o again)
      BY <1>1 DEF AnswerDuplicate
    <3> HIDE DEF again
    <3> QED  BY <3>1, <3>2, SendType
  <2>3. lines' \in [Commands -> 0..MaxLines]
    BY <1>1, TakeType DEF AnswerDuplicate
  <2>4. AgentTypeOK'
    BY <1>1, <2>2, <2>3 DEF AnswerDuplicate, AgentTypeOK, LinkTypeOK
  <2> QED  BY <1>1, <2>4, AgentInvLocal DEF AnswerDuplicate
<1>2. ASSUME NEW c \in Commands, Refuse(c) PROVE AgentInv'
  <2>1. PICK ok \in Writes : Record(c, "REJECTED", ok)
    BY <1>2 DEF Refuse
  <2>2. journal[c] = "none" /\ At("idle")
    BY <1>2 DEF Refuse, Unseen, Take
  <2>3. AgentTypeOK'
    <3>1. <<Ack(c, "REJECTED"), Report(c, "REJECTED")>> \in Seq(Messages)
      BY MessageTypes DEF FinalStatuses, ReportStatuses
    <3>2. toCore' \in Seq(Messages)
      BY <1>2, <3>1, SendType DEF Refuse
    <3>3. journal' \in [Commands -> JournalStates]
      BY <2>1, RecordType DEF JournalStates
    <3> QED  BY <1>2, <3>2, <3>3, TakeType DEF Refuse, AgentTypeOK, LinkTypeOK
  <2>4. HandlerOK'
    BY <1>2, <2>2 DEF Refuse, HandlerOK, At
  <2> QED  BY <1>2, <2>1, <2>2, <2>3, <2>4
           DEF Refuse, Record, AgentTypeOK, LinkTypeOK, ExecutionsCounted, JournalAhead, JournalTruthful,
               NothingPlaced
<1>3. ASSUME NEW c \in Commands, ExpireAtAgent(c) PROVE AgentInv'
  <2>1. PICK ok \in Writes : Record(c, "EXPIRED", ok)
    BY <1>3 DEF ExpireAtAgent
  <2>2. journal[c] = "none" /\ At("idle")
    BY <1>3 DEF ExpireAtAgent, Unseen, Take
  <2>3. AgentTypeOK'
    <3>1. <<Ack(c, "EXPIRED")>> \in Seq(Messages)
      BY MessageTypes
    <3>2. toCore' \in Seq(Messages)
      BY <1>3, <3>1, SendType DEF ExpireAtAgent
    <3>3. journal' \in [Commands -> JournalStates]
      BY <2>1, RecordType DEF JournalStates
    <3> QED  BY <1>3, <3>2, <3>3, TakeType DEF ExpireAtAgent, AgentTypeOK, LinkTypeOK
  <2>4. HandlerOK'
    BY <1>3, <2>2 DEF ExpireAtAgent, HandlerOK, At
  <2> QED  BY <1>3, <2>1, <2>2, <2>3, <2>4
           DEF ExpireAtAgent, Record, AgentTypeOK, LinkTypeOK, ExecutionsCounted, JournalAhead, JournalTruthful,
               NothingPlaced
<1>4. ASSUME NEW c \in Commands, Accept(c) PROVE AgentInv'
  <2>1. journal[c] = "none" /\ At("idle")
    BY <1>4 DEF Accept, Unseen, Take
  <2>2. AgentTypeOK'
    <3>1. <<Ack(c, "ACCEPTED")>> \in Seq(Messages)
      BY MessageTypes
    <3>2. toCore' \in Seq(Messages)
      BY <1>4, <3>1, SendType DEF Accept
    <3>3. agent' \in [pc : PCs, cmd : Commands \cup {NoCommand}, todo : SUBSET Commands, mode : AgentModes]
      BY <1>4 DEF Accept, Go, AgentTypeOK, LinkTypeOK, PCs
    <3> QED  BY <1>4, <3>2, <3>3, TakeType DEF Accept, AgentTypeOK, LinkTypeOK
  <2>3. HandlerOK'
    BY <1>4, <2>1 DEF Accept, Go, HandlerOK, At, AgentTypeOK, LinkTypeOK
  <2> QED  BY <1>4, <2>2, <2>3 DEF Accept, ExecutionsCounted, JournalAhead, JournalTruthful
<1>5. CASE Simulate \/ RefuseAccepted \/ CheckRefused \/ Unwritable
  <2>1. agent.cmd \in Commands /\ broker[agent.cmd] = "none"
    BY <1>5 DEF Simulate, RefuseAccepted, CheckRefused, Unwritable, HandlerOK, At, JournalAhead
  <2>2. \E s \in {"SIMULATED", "REJECTED", "FAILED", "AMBIGUOUS"}, ok \in Writes : Finish(s, ok)
    BY <1>5 DEF Simulate, RefuseAccepted, CheckRefused, Unwritable
  <2>3. PICK s \in {"SIMULATED", "REJECTED", "FAILED", "AMBIGUOUS"}, ok \in Writes : Finish(s, ok)
    BY <2>2
  <2>4. s \in FinalStatuses /\ s # "FILLED"
    BY DEF FinalStatuses, ReportStatuses
  <2> QED  BY <2>1, <2>3, <2>4, FinishInv
<1>6. CASE WriteAhead
  <2>1. agent.cmd \in Commands /\ journal[agent.cmd] = "none" /\ broker[agent.cmd] = "none"
    BY <1>6 DEF WriteAhead, HandlerOK, At, JournalAhead
  <2>2. AgentTypeOK'
    BY <1>6, <2>1 DEF WriteAhead, Go, AgentTypeOK, LinkTypeOK, PCs, JournalStates
  <2>3. HandlerOK'
    BY <1>6, <2>1 DEF WriteAhead, Go, HandlerOK, At, AgentTypeOK, LinkTypeOK
  <2> QED  BY <1>6, <2>1, <2>2, <2>3
           DEF WriteAhead, AgentTypeOK, LinkTypeOK, ExecutionsCounted, JournalAhead, JournalTruthful, NothingPlaced
<1>7. CASE OrderSend
  <2>1. agent.cmd \in Commands /\ journal[agent.cmd] = "UNKNOWN" /\ broker[agent.cmd] = "none"
    BY <1>7 DEF OrderSend, HandlerOK, At
  <2>2. AgentTypeOK'
    BY <1>7, <2>1 DEF OrderSend, Go, AgentTypeOK, LinkTypeOK, PCs
  <2>3. HandlerOK'
    BY <1>7, <2>1 DEF OrderSend, Go, HandlerOK, At, AgentTypeOK, LinkTypeOK
  <2> QED  BY <1>7, <2>1, <2>2, <2>3
           DEF OrderSend, AgentTypeOK, LinkTypeOK, ExecutionsCounted, JournalAhead, JournalTruthful, NothingPlaced
<1>8. CASE OrderReturns
  <2>1. agent.cmd \in Commands
    BY <1>8 DEF OrderReturns, HandlerOK, At
  <2>2. PICK ok \in Writes, s \in Answers : Finish(s, ok)
    BY <1>8 DEF OrderReturns
  <2>3. /\ s \in FinalStatuses
        /\ s = "FILLED" => broker[agent.cmd] = "placed"
        /\ s \in NothingPlaced => broker[agent.cmd] \in {"none", "refused"}
    BY <2>2 DEF Answers, FinalStatuses, ReportStatuses, NothingPlaced
  <2> QED  BY <2>1, <2>2, <2>3, FinishInv
<1>9. CASE Connect
  <2>1. PICK recent \in SUBSET {c \in Commands : journal[c] \in FinalStatuses} :
           agent' = [agent EXCEPT !.pc = "connecting", !.todo = recent]
    BY <1>9 DEF Connect
  <2>2. AgentTypeOK'
    <3>1. agent' \in [pc : PCs, cmd : Commands \cup {NoCommand}, todo : SUBSET Commands, mode : AgentModes]
      BY <2>1 DEF AgentTypeOK, LinkTypeOK, PCs
    <3>2. lines' \in [Commands -> 0..MaxLines]
      BY <1>9, LinkAssumption DEF Connect
    <3> QED  BY <1>9, <3>1, <3>2 DEF Connect, AgentTypeOK, LinkTypeOK
  <2>3. HandlerOK'
    BY <1>9, <2>1 DEF Connect, AgentTypeOK, LinkTypeOK, HandlerOK, At
  <2> QED  BY <1>9, <2>2, <2>3 DEF Connect, ExecutionsCounted, JournalAhead, JournalTruthful
<1>10. ASSUME NEW c \in Commands, ReplayReport(c) PROVE AgentInv'
  <2>1. <<Report(c, journal[c])>> \in Seq(Messages)
    BY <1>10, MessageTypes DEF ReplayReport, HandlerOK, At
  <2>2. toCore' \in Seq(Messages)
    BY <1>10, <2>1, SendType DEF ReplayReport
  <2>3. AgentTypeOK'
    BY <1>10, <2>2 DEF ReplayReport, AgentTypeOK, LinkTypeOK
  <2>4. HandlerOK'
    BY <1>10 DEF ReplayReport, HandlerOK, At, AgentTypeOK, LinkTypeOK
  <2> QED  BY <1>10, <2>3, <2>4 DEF ReplayReport, ExecutionsCounted, JournalAhead, JournalTruthful
<1>11. CASE ReplayDone \/ Heartbeat
  <2>1. AgentTypeOK'
    BY <1>11 DEF ReplayDone, Heartbeat, StartReconciling, AgentTypeOK, LinkTypeOK, PCs
  <2>2. HandlerOK'
    <3>1. /\ agent'.pc = "reconciling"
          /\ agent'.todo = {c \in Commands : journal[c] = "UNKNOWN"}
          /\ journal' = journal
      BY <1>11 DEF ReplayDone, Heartbeat, StartReconciling, AgentTypeOK, LinkTypeOK
    <3> QED  BY <3>1 DEF HandlerOK, At
  <2> QED  BY <1>11, <2>1, <2>2
           DEF ReplayDone, Heartbeat, ExecutionsCounted, JournalAhead, JournalTruthful
<1>12. ASSUME NEW c \in Commands, ReconcileUnknown(c) PROVE AgentInv'
  <2>1. PICK found \in Evidence(c), ok \in Writes :
           /\ CASE found = "executed" -> Record(c, "FILLED", ok)
                [] found = "rejected" -> Record(c, "FAILED", ok)
                [] OTHER -> UNCHANGED journal
           /\ Send(<<Reconciled(c, found)>>)
    BY <1>12 DEF ReconcileUnknown
  <2>2. /\ found \in {"executed", "rejected", "not_found"}
        /\ found = "executed" => broker[c] = "placed"
        /\ found = "rejected" => broker[c] = "refused"
    BY DEF Evidence
  <2>3. journal[c] = "UNKNOWN" /\ At("reconciling") /\ c \in agent.todo
    BY <1>12 DEF ReconcileUnknown, HandlerOK, At
  <2>4. \/ journal' = journal
        \/ found = "executed" /\ journal' = [journal EXCEPT ![c] = "FILLED"]
        \/ found = "rejected" /\ journal' = [journal EXCEPT ![c] = "FAILED"]
    BY <2>1, <2>2 DEF Record
  <2>5. AgentTypeOK'
    <3>1. <<Reconciled(c, found)>> \in Seq(Messages)
      BY <2>2, MessageTypes
    <3>2. toCore' \in Seq(Messages)
      BY <2>1, <3>1, SendType
    <3>3. journal' \in [Commands -> JournalStates]
      BY <2>4 DEF AgentTypeOK, LinkTypeOK, JournalStates
    <3> QED  BY <1>12, <3>2, <3>3 DEF ReconcileUnknown, AgentTypeOK, LinkTypeOK
  <2>6. HandlerOK'
    BY <1>12, <2>3, <2>4 DEF ReconcileUnknown, HandlerOK, At, AgentTypeOK, LinkTypeOK
  <2> QED  BY <1>12, <2>2, <2>3, <2>4, <2>5, <2>6
           DEF ReconcileUnknown, AgentTypeOK, LinkTypeOK, ExecutionsCounted, JournalAhead, JournalTruthful,
               NothingPlaced
<1>13. CASE ReconcileDone \/ AgentCrash \/ AgentRestart
  <2>1. agent' \in [pc : PCs, cmd : Commands \cup {NoCommand}, todo : SUBSET Commands, mode : AgentModes]
    <3>1. CASE ReconcileDone
      BY <3>1 DEF ReconcileDone, GoEmpty, PCs, AgentTypeOK
    <3>2. CASE AgentCrash
      BY <3>2 DEF AgentCrash, GoEmpty, PCs, AgentTypeOK
    <3>3. CASE AgentRestart
      BY <3>3 DEF AgentRestart, Idle, Go, AgentTypeOK, LinkTypeOK, PCs
    <3> QED  BY <1>13, <3>1, <3>2, <3>3
  <2>2. agent'.pc \in {"idle", "down"}
    <3>1. CASE AgentRestart
      BY <3>1 DEF AgentRestart, Idle, Go, AgentTypeOK, LinkTypeOK
    <3> QED  BY <1>13, <3>1 DEF ReconcileDone, AgentCrash, GoEmpty, AgentTypeOK
  <2>3. toCore' \in Seq(Messages) /\ lines' \in [Commands -> 0..MaxLines]
    <3>1. CASE ReconcileDone \/ AgentRestart
      BY <3>1 DEF ReconcileDone, AgentRestart, AgentTypeOK, LinkTypeOK
    <3>2. CASE AgentCrash
      BY <1>13, <3>2, PrefixType, LinkAssumption DEF AgentCrash
    <3> QED  BY <1>13, <3>1, <3>2
  <2>4. AgentTypeOK'
    BY <1>13, <2>1, <2>3 DEF ReconcileDone, AgentCrash, AgentRestart, AgentTypeOK, LinkTypeOK
  <2>5. HandlerOK'
    BY <2>2 DEF HandlerOK, At
  <2> QED  BY <1>13, <2>4, <2>5
           DEF ReconcileDone, AgentCrash, AgentRestart, ExecutionsCounted, JournalAhead, JournalTruthful
<1>14. CASE Ping \/ Silence \/ SetHalt \/ ClearHalt
  <2>1. AgentTypeOK'
    BY <1>14 DEF Ping, Silence, SetHalt, ClearHalt, AgentTypeOK, LinkTypeOK
  <2> QED  BY <1>14, <2>1, AgentInvLocal DEF Ping, Silence, SetHalt, ClearHalt
<1>15. CASE LinkLost
  <2>1. toCore' \in Seq(Messages)
    BY <1>15, PrefixType DEF LinkLost, LinkDrops
  <2>2. AgentTypeOK'
    BY <1>15, <2>1 DEF LinkLost, LinkDrops, AgentTypeOK, LinkTypeOK
  <2> QED  BY <1>15, <2>2, AgentInvLocal DEF LinkLost
<1>16. ASSUME NEW c \in Commands, BecomesLate(c) PROVE AgentInv'
  <2>1. AgentTypeOK'
    BY <1>16 DEF BecomesLate, AgentTypeOK, LinkTypeOK
  <2> QED  BY <1>16, <2>1, AgentInvLocal DEF BecomesLate
<1>17. ASSUME NEW c \in Commands, BrokerSettles(c) PROVE AgentInv'
  <2>1. AgentTypeOK'
    <3>1. broker' \in [Commands -> {"none", "limbo", "placed", "refused"}]
      BY <1>17 DEF BrokerSettles, AgentTypeOK, LinkTypeOK
    <3>2. execs' \in [Commands -> Nat]
      BY <1>17 DEF BrokerSettles, AgentTypeOK, LinkTypeOK
    <3> QED  BY <1>17, <3>1, <3>2 DEF BrokerSettles, AgentTypeOK, LinkTypeOK
  <2>2. HandlerOK'
    BY <1>17 DEF BrokerSettles, AgentTypeOK, LinkTypeOK, HandlerOK, At
  <2>3. ExecutionsCounted'
    <3>1. CASE broker' = [broker EXCEPT ![c] = "placed"] /\ execs' = [execs EXCEPT ![c] = @ + 1]
      <4>1. execs[c] = 0
        BY <1>17 DEF BrokerSettles, ExecutionsCounted
      <4> QED  BY <3>1, <4>1 DEF ExecutionsCounted, AgentTypeOK, LinkTypeOK
    <3>2. CASE broker' = [broker EXCEPT ![c] = "refused"] /\ execs' = execs
      BY <1>17, <3>2 DEF BrokerSettles, ExecutionsCounted, AgentTypeOK, LinkTypeOK
    <3> QED  BY <1>17, <3>1, <3>2 DEF BrokerSettles
  <2>4. JournalAhead' /\ JournalTruthful'
    BY <1>17 DEF BrokerSettles, AgentTypeOK, LinkTypeOK, JournalAhead, JournalTruthful
  <2> QED  BY <2>1, <2>2, <2>3, <2>4
<1>18. ASSUME NEW c \in Commands, LineArrives(c) PROVE AgentInv'
  <2>1. AgentTypeOK'
    BY <1>18, LinkAssumption DEF LineArrives, AgentTypeOK, LinkTypeOK
  <2> QED  BY <1>18, <2>1, AgentInvLocal DEF LineArrives
<1>19. CASE CoreReads
  <2>1. Tail(toCore) \in Seq(Messages)
    BY <1>19, HeadTailProperties DEF CoreReads, AgentTypeOK, LinkTypeOK
  <2>2. AgentTypeOK'
    BY <1>19, <2>1 DEF CoreReads, AgentTypeOK, LinkTypeOK
  <2> QED  BY <1>19, <2>2, AgentInvLocal DEF CoreReads
<1>20. CASE UNCHANGED agentVars
  BY <1>20 DEF agentVars, AgentTypeOK, LinkTypeOK, HandlerOK, At, ExecutionsCounted, JournalAhead, JournalTruthful
<1> QED  BY <1>1, <1>2, <1>3, <1>4, <1>5, <1>6, <1>7, <1>8, <1>9, <1>10, <1>11, <1>12, <1>13, <1>14,
            <1>15, <1>16, <1>17, <1>18, <1>19, <1>20 DEF AgentNext, AgentSteps, AgentHandles

(* AgentInv holds in every reachable state of the agent.                     *)
THEOREM AgentInvariance ==
    ASSUME "storeRead" \notin AgentFaults
    PROVE  AgentSpec => []AgentInv
<1>1. AgentInv /\ [AgentNext]_agentVars => AgentInv'
  BY AgentInvStep
<1> QED  BY <1>1, AgentInvInit, PTL DEF AgentSpec

(* One commandId is at most one execution at the broker: jamais deux         *)
(* positions, whatever the core sends, however often the terminal dies.      *)
THEOREM AtMostOneExecution ==
    ASSUME "storeRead" \notin AgentFaults
    PROVE  AgentSpec => []AtMostOnce
<1>1. AgentInv => AtMostOnce
  <2> SUFFICES ASSUME AgentInv, NEW c \in Commands PROVE execs[c] <= 1
    BY DEF AtMostOnce
  <2>1. execs[c] = 0 \/ execs[c] = 1
    BY DEF AgentInv, ExecutionsCounted
  <2> QED  BY <2>1
<1> QED  BY <1>1, AgentInvariance, PTL

(* A final line of the journal is the truth about the broker.                *)
THEOREM JournalIsTruthful ==
    ASSUME "storeRead" \notin AgentFaults
    PROVE  AgentSpec => []JournalTruthful
<1>1. AgentInv => JournalTruthful
  BY DEF AgentInv
<1> QED  BY <1>1, AgentInvariance, PTL

-----------------------------------------------------------------------------
(* The agent implements OrderPromise.                                        *)

(* A journal line written for c moves c's verdict alone; so does the broker for c's fate. *)
LEMMA VerdictMoves ==
    ASSUME AgentTypeOK, NEW c \in Commands, NEW s, journal' = [journal EXCEPT ![c] = s], broker' = broker
    PROVE  fateOf' = fateOf /\ verdictOf' = [verdictOf EXCEPT ![c] = VerdictFor(s)]
BY DEF AgentTypeOK, LinkTypeOK, fateOf, verdictOf

LEMMA FateMoves ==
    ASSUME AgentTypeOK, NEW c \in Commands, NEW b, broker' = [broker EXCEPT ![c] = b], journal' = journal
    PROVE  verdictOf' = verdictOf /\ fateOf' = [fateOf EXCEPT ![c] = FateFor(b)]
BY DEF AgentTypeOK, LinkTypeOK, fateOf, verdictOf

(* A command's line goes from "none" to a refusal: OrderPromise's Conclude, or nothing if unwritten. *)
LEMMA RecordConcludes ==
    ASSUME AgentTypeOK, NEW c \in Commands, NEW s \in JournalStates, NEW ok, Record(c, s, ok), broker' = broker,
           \/ /\ journal[c] = "none"
              /\ s \notin {"none", "FILLED"}
           \/ /\ journal[c] = "UNKNOWN"
              /\ s = "FILLED" => broker[c] = "placed"
              /\ s \in NothingPlaced => broker[c] = "refused"
              /\ s # "none"
    PROVE  [Promise!Next]_(Promise!vars)
<1>1. CASE journal' = journal
  BY <1>1 DEF Promise!vars, fateOf, verdictOf
<1>2. CASE journal' = [journal EXCEPT ![c] = s]
  <2>1. fateOf' = fateOf /\ verdictOf' = [verdictOf EXCEPT ![c] = VerdictFor(s)]
    BY <1>2, VerdictMoves
  <2>2. verdictOf[c] = VerdictFor(journal[c]) /\ fateOf[c] = FateFor(broker[c])
    BY DEF verdictOf, fateOf
  <2>3. CASE s \in {"UNKNOWN", "AMBIGUOUS"}
    <3>1. VerdictFor(s) = "open"
      BY <2>3 DEF VerdictFor
    <3>2. CASE journal[c] = "none"
      <4>1. Promise!Claim(c)
        BY <2>1, <2>2, <3>1, <3>2 DEF Promise!Claim, VerdictFor
      <4> QED  BY <4>1 DEF Promise!Next
    <3>3. CASE journal[c] = "UNKNOWN"
      <4>1. verdictOf[c] = "open"
        BY <2>2, <3>3 DEF VerdictFor
      <4>2. verdictOf' = verdictOf
        BY <2>1, <3>1, <4>1 DEF verdictOf
      <4> QED  BY <2>1, <4>2 DEF Promise!vars
    <3> QED  BY <3>2, <3>3
  <2>4. CASE s = "FILLED"
    <3>1. VerdictFor(s) = "done" /\ verdictOf[c] = "open" /\ fateOf[c] = "placed"
      BY <2>2, <2>4 DEF VerdictFor, FateFor
    <3>2. Promise!Conclude(c)
      BY <2>1, <3>1 DEF Promise!Conclude
    <3> QED  BY <3>2 DEF Promise!Next
  <2>5. CASE s \in NothingPlaced
    <3>1. VerdictFor(s) = "nothing"
      BY <2>5 DEF VerdictFor, NothingPlaced
    <3>2. \/ verdictOf[c] = "none"
          \/ verdictOf[c] = "open" /\ fateOf[c] = "refused"
      BY <2>2, <2>5 DEF VerdictFor, FateFor, NothingPlaced
    <3>3. Promise!Conclude(c)
      BY <2>1, <3>1, <3>2 DEF Promise!Conclude
    <3> QED  BY <3>3 DEF Promise!Next
  <2> QED  BY <2>3, <2>4, <2>5 DEF JournalStates, NothingPlaced
<1> QED  BY <1>1, <1>2 DEF Record

LEMMA FinishKeepsPromise ==
    ASSUME AgentInv, agent.cmd \in Commands, NEW s \in FinalStatuses, NEW ok, Finish(s, ok),
           \/ journal[agent.cmd] = "none" /\ s # "FILLED"
           \/ /\ journal[agent.cmd] = "UNKNOWN"
              /\ s = "FILLED" => broker[agent.cmd] = "placed"
              /\ s \in NothingPlaced => broker[agent.cmd] = "refused"
    PROVE  [Promise!Next]_(Promise!vars)
<1>1. s \in JournalStates /\ s # "none"
  BY DEF FinalStatuses, ReportStatuses, JournalStates
<1>2. AgentTypeOK /\ Record(agent.cmd, s, ok) /\ broker' = broker
  BY DEF Finish, AgentInv
<1> QED  BY <1>1, <1>2, RecordConcludes

LEMMA PromiseStep ==
    ASSUME "storeRead" \notin AgentFaults, AgentInv, [AgentNext]_agentVars
    PROVE  [Promise!Next]_(Promise!vars)
<1>0. AgentTypeOK
  BY DEF AgentInv
<1>1. CASE UNCHANGED <<journal, broker>>
  BY <1>1 DEF Promise!vars, fateOf, verdictOf
<1>2. ASSUME NEW c \in Commands, Refuse(c) \/ ExpireAtAgent(c) PROVE [Promise!Next]_(Promise!vars)
  <2>1. journal[c] = "none" /\ broker' = broker
    BY <1>2 DEF Refuse, ExpireAtAgent, Unseen
  <2>2. \E ok \in Writes : Record(c, "REJECTED", ok) \/ Record(c, "EXPIRED", ok)
    BY <1>2 DEF Refuse, ExpireAtAgent
  <2>3. PICK ok \in Writes : Record(c, "REJECTED", ok) \/ Record(c, "EXPIRED", ok)
    BY <2>2
  <2>4. {"REJECTED", "EXPIRED"} \subseteq JournalStates
    BY DEF JournalStates
  <2> QED  BY <1>0, <2>1, <2>3, <2>4, RecordConcludes
<1>3. CASE Simulate \/ RefuseAccepted \/ CheckRefused \/ Unwritable
  <2>1. agent.cmd \in Commands /\ journal[agent.cmd] = "none"
    BY <1>3 DEF Simulate, RefuseAccepted, CheckRefused, Unwritable, AgentInv, HandlerOK, At
  <2>2. \E s \in {"SIMULATED", "REJECTED", "FAILED", "AMBIGUOUS"}, ok \in Writes : Finish(s, ok)
    BY <1>3 DEF Simulate, RefuseAccepted, CheckRefused, Unwritable
  <2>3. PICK s \in {"SIMULATED", "REJECTED", "FAILED", "AMBIGUOUS"}, ok \in Writes : Finish(s, ok)
    BY <2>2
  <2>4. s \in FinalStatuses /\ s # "FILLED"
    BY DEF FinalStatuses, ReportStatuses
  <2> QED  BY <2>1, <2>3, <2>4, FinishKeepsPromise
<1>4. CASE WriteAhead
  <2>1. agent.cmd \in Commands /\ journal[agent.cmd] = "none"
    BY <1>4 DEF WriteAhead, AgentInv, HandlerOK, At
  <2>2. fateOf' = fateOf /\ verdictOf' = [verdictOf EXCEPT ![agent.cmd] = VerdictFor("UNKNOWN")]
    BY <1>0, <1>4, <2>1, VerdictMoves DEF WriteAhead
  <2>3. Promise!Claim(agent.cmd)
    BY <2>1, <2>2 DEF Promise!Claim, verdictOf, VerdictFor
  <2> QED  BY <2>1, <2>3 DEF Promise!Next
<1>5. CASE OrderSend
  <2>1. agent.cmd \in Commands /\ journal[agent.cmd] = "UNKNOWN" /\ broker[agent.cmd] = "none"
    BY <1>5 DEF OrderSend, AgentInv, HandlerOK, At
  <2>2. verdictOf' = verdictOf /\ fateOf' = [fateOf EXCEPT ![agent.cmd] = FateFor("limbo")]
    BY <1>0, <1>5, <2>1, FateMoves DEF OrderSend
  <2>3. Promise!Attempt(agent.cmd)
    BY <2>1, <2>2 DEF Promise!Attempt, verdictOf, fateOf, VerdictFor, FateFor
  <2> QED  BY <2>1, <2>3 DEF Promise!Next
<1>6. CASE OrderReturns
  <2>1. agent.cmd \in Commands /\ journal[agent.cmd] = "UNKNOWN"
    BY <1>6 DEF OrderReturns, AgentInv, HandlerOK, At
  <2>2. PICK ok \in Writes, s \in Answers : Finish(s, ok)
    BY <1>6 DEF OrderReturns
  <2>3. /\ s \in FinalStatuses
        /\ s = "FILLED" => broker[agent.cmd] = "placed"
        /\ s \in NothingPlaced => broker[agent.cmd] = "refused"
    BY <2>2 DEF Answers, FinalStatuses, ReportStatuses, NothingPlaced
  <2> QED  BY <2>1, <2>2, <2>3, FinishKeepsPromise
<1>7. ASSUME NEW c \in Commands, ReconcileUnknown(c) PROVE [Promise!Next]_(Promise!vars)
  <2>1. journal[c] = "UNKNOWN" /\ broker' = broker
    BY <1>7 DEF ReconcileUnknown, AgentInv, HandlerOK, At
  <2>2. PICK found \in Evidence(c), ok \in Writes :
           CASE found = "executed" -> Record(c, "FILLED", ok)
             [] found = "rejected" -> Record(c, "FAILED", ok)
             [] OTHER -> UNCHANGED journal
    BY <1>7 DEF ReconcileUnknown
  <2>3. /\ found = "executed" => broker[c] = "placed"
        /\ found = "rejected" => broker[c] = "refused"
    BY DEF Evidence
  <2>4. CASE found = "executed" /\ Record(c, "FILLED", ok)
    BY <1>0, <2>1, <2>3, <2>4, RecordConcludes DEF JournalStates, NothingPlaced
  <2>5. CASE found = "rejected" /\ Record(c, "FAILED", ok)
    BY <1>0, <2>1, <2>3, <2>5, RecordConcludes DEF JournalStates, NothingPlaced
  <2>6. CASE journal' = journal
    BY <1>1, <2>1, <2>6
  <2> QED  BY <2>2, <2>4, <2>5, <2>6
<1>8. ASSUME NEW c \in Commands, BrokerSettles(c) PROVE [Promise!Next]_(Promise!vars)
  <2>1. PICK end \in {"placed", "refused"} : broker' = [broker EXCEPT ![c] = end]
    BY <1>8 DEF BrokerSettles
  <2>2. verdictOf' = verdictOf /\ fateOf' = [fateOf EXCEPT ![c] = FateFor(end)]
    BY <1>0, <1>8, <2>1, FateMoves DEF BrokerSettles
  <2>3. FateFor(end) = end /\ fateOf[c] = "inflight"
    BY <1>8 DEF BrokerSettles, FateFor, fateOf
  <2>4. Promise!Settle(c)
    BY <2>2, <2>3 DEF Promise!Settle
  <2> QED  BY <2>4 DEF Promise!Next
<1>9. CASE ReplayDone \/ Heartbeat \/ ReconcileDone \/ Connect \/ AgentCrash \/ AgentRestart \/ LinkLost
  BY <1>1, <1>9 DEF ReplayDone, Heartbeat, ReconcileDone, Connect, AgentCrash, AgentRestart, LinkLost
<1>10. CASE Ping \/ Silence \/ SetHalt \/ ClearHalt \/ CoreReads \/ UNCHANGED agentVars
  BY <1>1, <1>10 DEF Ping, Silence, SetHalt, ClearHalt, CoreReads, agentVars
<1>11. ASSUME NEW c \in Commands,
              AnswerDuplicate(c) \/ Accept(c) \/ ReplayReport(c) \/ BecomesLate(c) \/ LineArrives(c)
       PROVE  [Promise!Next]_(Promise!vars)
  BY <1>1, <1>11 DEF AnswerDuplicate, Accept, ReplayReport, BecomesLate, LineArrives
<1> QED  BY <1>2, <1>3, <1>4, <1>5, <1>6, <1>7, <1>8, <1>9, <1>10, <1>11
         DEF AgentNext, AgentSteps, AgentHandles

(* The agent keeps the promise of OrderPromise to whoever sends it commands.  *)
THEOREM AgentKeepsPromise ==
    ASSUME "storeRead" \notin AgentFaults
    PROVE  AgentSpec => KeepsPromise
<1>1. AgentInit => Promise!Init
  BY DEF AgentInit, LinkInit, Promise!Init, fateOf, verdictOf, FateFor, VerdictFor
<1>2. AgentInv /\ [AgentNext]_agentVars => [Promise!Next]_(Promise!vars)
  BY PromiseStep
<1> QED  BY <1>1, <1>2, AgentInvariance, PTL DEF AgentSpec, KeepsPromise, Promise!Spec

-----------------------------------------------------------------------------
(* What a step may do to the journal, and to the mode.                       *)

(* A line is written over none or over an open one; an open line is the work of
   WriteAhead, after the halt was looked at.                                 *)
JournalStep ==
    \/ journal' = journal
    \/ \E c \in Commands, s \in JournalStates :
          /\ journal[c] \in {"none", "UNKNOWN"}
          /\ journal' = [journal EXCEPT ![c] = s]
          /\ s = "UNKNOWN" => Confirms /\ ~HaltedFor(c)

LEMMA RecordJournalStep ==
    ASSUME NEW c \in Commands, journal[c] \in {"none", "UNKNOWN"}, NEW s \in JournalStates, s # "UNKNOWN",
           NEW ok, Record(c, s, ok)
    PROVE  JournalStep
BY DEF Record, JournalStep

LEMMA FinishJournalStep ==
    ASSUME agent.cmd \in Commands, journal[agent.cmd] \in {"none", "UNKNOWN"},
           NEW s \in FinalStatuses, NEW ok, Finish(s, ok)
    PROVE  JournalStep
<1>1. s \in JournalStates /\ s # "UNKNOWN"
  BY DEF FinalStatuses, ReportStatuses, JournalStates
<1> QED  BY <1>1, RecordJournalStep DEF Finish

LEMMA StepIsJournalStep ==
    ASSUME "storeRead" \notin AgentFaults, AgentInv, [AgentNext]_agentVars
    PROVE  JournalStep
<1>1. CASE UNCHANGED journal
  BY <1>1 DEF JournalStep
<1>2. ASSUME NEW c \in Commands, Refuse(c) \/ ExpireAtAgent(c) PROVE JournalStep
  <2>1. journal[c] = "none"
    BY <1>2 DEF Refuse, ExpireAtAgent, Unseen
  <2>2. PICK ok \in Writes : Record(c, "REJECTED", ok) \/ Record(c, "EXPIRED", ok)
    <3>1. \E ok \in Writes : Record(c, "REJECTED", ok) \/ Record(c, "EXPIRED", ok)
      BY <1>2 DEF Refuse, ExpireAtAgent
    <3> QED  BY <3>1
  <2>3. {"REJECTED", "EXPIRED"} \subseteq JournalStates
    BY DEF JournalStates
  <2> QED  BY <2>1, <2>2, <2>3, RecordJournalStep
<1>3. CASE Simulate \/ RefuseAccepted \/ CheckRefused \/ Unwritable
  <2>1. agent.cmd \in Commands /\ journal[agent.cmd] = "none"
    BY <1>3 DEF Simulate, RefuseAccepted, CheckRefused, Unwritable, AgentInv, HandlerOK, At
  <2>2. PICK s \in {"SIMULATED", "REJECTED", "FAILED", "AMBIGUOUS"}, ok \in Writes : Finish(s, ok)
    <3>1. \E s \in {"SIMULATED", "REJECTED", "FAILED", "AMBIGUOUS"}, ok \in Writes : Finish(s, ok)
      BY <1>3 DEF Simulate, RefuseAccepted, CheckRefused, Unwritable
    <3> QED  BY <3>1
  <2>3. s \in FinalStatuses
    BY DEF FinalStatuses, ReportStatuses
  <2> QED  BY <2>1, <2>2, <2>3, FinishJournalStep
<1>4. CASE WriteAhead
  <2>1. agent.cmd \in Commands /\ journal[agent.cmd] = "none"
    BY <1>4 DEF WriteAhead, AgentInv, HandlerOK, At
  <2> QED  BY <1>4, <2>1 DEF WriteAhead, JournalStep, JournalStates
<1>5. CASE OrderReturns
  <2>1. agent.cmd \in Commands /\ journal[agent.cmd] = "UNKNOWN"
    BY <1>5 DEF OrderReturns, AgentInv, HandlerOK, At
  <2>2. PICK ok \in Writes, s \in Answers : Finish(s, ok)
    BY <1>5 DEF OrderReturns
  <2>3. s \in FinalStatuses
    BY DEF Answers, FinalStatuses, ReportStatuses
  <2> QED  BY <2>1, <2>2, <2>3, FinishJournalStep
<1>6. ASSUME NEW c \in Commands, ReconcileUnknown(c) PROVE JournalStep
  <2>1. journal[c] = "UNKNOWN"
    BY <1>6 DEF ReconcileUnknown, AgentInv, HandlerOK, At
  <2>2. PICK found \in Evidence(c), ok \in Writes :
           CASE found = "executed" -> Record(c, "FILLED", ok)
             [] found = "rejected" -> Record(c, "FAILED", ok)
             [] OTHER -> UNCHANGED journal
    BY <1>6 DEF ReconcileUnknown
  <2>3. Record(c, "FILLED", ok) \/ Record(c, "FAILED", ok) \/ UNCHANGED journal
    BY <2>2
  <2> QED  BY <1>1, <2>1, <2>3, RecordJournalStep DEF JournalStates
<1>7. CASE OrderSend \/ ReplayDone \/ Heartbeat \/ ReconcileDone \/ Connect \/ AgentCrash \/ AgentRestart \/ LinkLost
  BY <1>1, <1>7 DEF OrderSend, ReplayDone, Heartbeat, ReconcileDone, Connect, AgentCrash, AgentRestart, LinkLost
<1>8. CASE Ping \/ Silence \/ SetHalt \/ ClearHalt \/ CoreReads \/ UNCHANGED agentVars
  BY <1>1, <1>8 DEF Ping, Silence, SetHalt, ClearHalt, CoreReads, agentVars
<1>9. ASSUME NEW c \in Commands,
             AnswerDuplicate(c) \/ Accept(c) \/ ReplayReport(c) \/ BecomesLate(c) \/ LineArrives(c) \/ BrokerSettles(c)
      PROVE  JournalStep
  BY <1>1, <1>9 DEF AnswerDuplicate, Accept, ReplayReport, BecomesLate, LineArrives, BrokerSettles
<1> QED  BY <1>2, <1>3, <1>4, <1>5, <1>6, <1>7, <1>8, <1>9 DEF AgentNext, AgentSteps, AgentHandles

(* A final line is never rewritten: a replay gives the original result.      *)
THEOREM FinalLinesStay ==
    ASSUME "storeRead" \notin AgentFaults
    PROVE  AgentSpec => FinalIsFinal
<1>1. AgentInv /\ [AgentNext]_agentVars =>
        [\A c \in Commands :
            journal[c] \in FinalStatuses \cup {"EXPIRED"} => journal'[c] = journal[c]]_agentVars
  <2> SUFFICES ASSUME AgentInv, JournalStep, NEW c \in Commands, journal[c] \in FinalStatuses \cup {"EXPIRED"}
               PROVE  journal'[c] = journal[c]
    BY StepIsJournalStep
  <2>1. journal[c] \notin {"none", "UNKNOWN"}
    BY DEF FinalStatuses, ReportStatuses
  <2>2. journal \in [Commands -> JournalStates]
    BY DEF AgentInv, AgentTypeOK
  <2> QED  BY <2>1, <2>2 DEF JournalStep
<1> QED  BY <1>1, AgentInvariance, PTL DEF AgentSpec, FinalIsFinal

(* Under a halt nothing that adds risk starts its way to the broker.         *)
THEOREM HaltHolds ==
    ASSUME "storeRead" \notin AgentFaults
    PROVE  AgentSpec => HaltStopsNewRisk
<1>1. AgentInv /\ [AgentNext]_agentVars =>
        [\A c \in Commands \ Exits :
            halted => ~(journal[c] = "none" /\ journal'[c] = "UNKNOWN")]_agentVars
  <2> SUFFICES ASSUME AgentInv, JournalStep, NEW c \in Commands \ Exits, halted,
                      journal[c] = "none", journal'[c] = "UNKNOWN"
               PROVE  FALSE
    BY StepIsJournalStep
  <2>1. journal \in [Commands -> JournalStates]
    BY DEF AgentInv, AgentTypeOK
  <2>2. PICK d \in Commands, s \in JournalStates :
           /\ journal' = [journal EXCEPT ![d] = s]
           /\ s = "UNKNOWN" => ~HaltedFor(d)
    BY DEF JournalStep
  <2>3. d = c /\ s = "UNKNOWN"
    BY <2>1, <2>2
  <2> QED  BY <2>2, <2>3 DEF HaltedFor
<1> QED  BY <1>1, AgentInvariance, PTL DEF AgentSpec, HaltStopsNewRisk

LEMMA ModeIsCompiledIn ==
    ASSUME AgentInv, [AgentNext]_agentVars
    PROVE  agent'.mode = agent.mode
BY DEF AgentInv, AgentTypeOK, AgentNext, AgentSteps, AgentHandles, agentVars, AnswerDuplicate, Refuse,
       ExpireAtAgent,
       Accept, Simulate, RefuseAccepted, CheckRefused, WriteAhead, Unwritable, OrderSend, OrderReturns, Finish,
       Connect, ReplayDone, Heartbeat, StartReconciling, ReconcileDone, ReplayReport, ReconcileUnknown, Ping, Silence,
       SetHalt, ClearHalt, LinkLost, AgentCrash, AgentRestart, BecomesLate, BrokerSettles, LineArrives, CoreReads,
       Go, GoEmpty, Idle

(* The broker changes for a request that the journal holds open.             *)
LEMMA BrokerStep ==
    ASSUME AgentInv, [AgentNext]_agentVars, NEW c \in Commands, broker[c] = "none", broker'[c] # "none"
    PROVE  journal[c] = "UNKNOWN"
<1>1. CASE OrderSend
  <2>1. agent.cmd \in Commands /\ journal[agent.cmd] = "UNKNOWN"
    BY <1>1 DEF OrderSend, AgentInv, HandlerOK, At
  <2>2. c = agent.cmd
    BY <1>1 DEF OrderSend, AgentInv, AgentTypeOK
  <2> QED  BY <2>1, <2>2
<1>2. ASSUME NEW d \in Commands, BrokerSettles(d) PROVE FALSE
  BY <1>2 DEF BrokerSettles, AgentInv, AgentTypeOK
<1>3. CASE broker' = broker
  BY <1>3
<1> QED
  BY <1>1, <1>2, <1>3 DEF AgentNext, AgentSteps, AgentHandles, agentVars, AnswerDuplicate, Refuse, ExpireAtAgent,
     Accept, Simulate, RefuseAccepted, CheckRefused, WriteAhead, Unwritable, OrderReturns, Finish, Connect, ReplayDone,
     Heartbeat, ReconcileDone, ReplayReport, ReconcileUnknown, Ping, Silence, SetHalt, ClearHalt, LinkLost, AgentCrash,
     AgentRestart, BecomesLate, LineArrives, CoreReads

(* An agent compiled for OBSERVE never has anything at the broker.           *)
THEOREM ObserveIsABarrier ==
    ASSUME "storeRead" \notin AgentFaults
    PROVE  AgentSpec => []ObserveNeverTrades
<1>1. AgentInit => ObserveNeverTrades
  BY DEF AgentInit, ObserveNeverTrades
<1>2. AgentInv /\ ObserveNeverTrades /\ [AgentNext]_agentVars => ObserveNeverTrades'
  <2> SUFFICES ASSUME AgentInv, ObserveNeverTrades, [AgentNext]_agentVars, agent'.mode = "OBSERVE", NEW c \in Commands
               PROVE  broker'[c] = "none" /\ journal'[c] # "UNKNOWN"
    BY DEF ObserveNeverTrades
  <2>1. agent.mode = "OBSERVE" /\ broker[c] = "none" /\ journal[c] # "UNKNOWN"
    BY ModeIsCompiledIn DEF ObserveNeverTrades
  <2>2. broker'[c] = "none"
    BY <2>1, BrokerStep
  <2>3. journal'[c] # "UNKNOWN"
    <3>1. journal \in [Commands -> JournalStates]
      BY DEF AgentInv, AgentTypeOK
    <3>2. JournalStep
      BY StepIsJournalStep
    <3> QED  BY <2>1, <3>1, <3>2 DEF JournalStep, Confirms
  <2> QED  BY <2>2, <2>3
<1> QED  BY <1>1, <1>2, AgentInvariance, PTL DEF AgentSpec

-----------------------------------------------------------------------------
(* MessagesTruthful.  A message that says something was placed, or that      *)
(* nothing was, is backed by what never changes: an order the broker settled, *)
(* or a final line of the journal.                                            *)

(* Nothing is, or can still become, live at the broker.                       *)
Nothing(c) == broker[c] = "refused" \/ journal[c] \in NothingPlaced

Honest == {m \in Messages : /\ m \in PositiveMessages => broker[m.cmd] = "placed"
                            /\ m \in NegativeMessages => Nothing(m.cmd)}
WireHonest == toCore \in Seq(Honest)

(* What the broker settled stays settled.                                     *)
LEMMA SettledIsStable ==
    ASSUME AgentInv, [AgentNext]_agentVars, NEW c \in Commands, broker[c] \in {"placed", "refused"}
    PROVE  broker'[c] = broker[c]
<1>1. CASE UNCHANGED broker
  BY <1>1
<1>2. CASE OrderSend
  BY <1>2 DEF OrderSend, AgentInv, AgentTypeOK, HandlerOK, At
<1>3. ASSUME NEW d \in Commands, BrokerSettles(d) PROVE broker'[c] = broker[c]
  BY <1>3 DEF BrokerSettles, AgentInv, AgentTypeOK
<1>4. CASE AgentHandles /\ ~OrderSend
  BY <1>1, <1>4 DEF AgentHandles, AnswerDuplicate, Refuse, ExpireAtAgent, Accept, Simulate, RefuseAccepted,
                    CheckRefused, WriteAhead, Unwritable, OrderReturns, Finish
<1>5. CASE Connect \/ ReplayDone \/ Heartbeat \/ ReconcileDone
  BY <1>1, <1>5 DEF Connect, ReplayDone, Heartbeat, ReconcileDone
<1>6. CASE Ping \/ Silence \/ SetHalt \/ ClearHalt \/ LinkLost \/ AgentCrash \/ AgentRestart \/ CoreReads
  BY <1>1, <1>6 DEF Ping, Silence, SetHalt, ClearHalt, LinkLost, AgentCrash, AgentRestart, CoreReads
<1>7. ASSUME NEW d \in Commands, ReplayReport(d) \/ ReconcileUnknown(d) \/ BecomesLate(d) \/ LineArrives(d)
      PROVE  broker'[c] = broker[c]
  BY <1>1, <1>7 DEF ReplayReport, ReconcileUnknown, BecomesLate, LineArrives
<1> QED  BY <1>1, <1>2, <1>3, <1>4, <1>5, <1>6, <1>7 DEF AgentNext, AgentSteps, agentVars

LEMMA NothingStays ==
    ASSUME "storeRead" \notin AgentFaults, AgentInv, [AgentNext]_agentVars, NEW c \in Commands, Nothing(c)
    PROVE  Nothing(c)'
<1>1. CASE broker[c] = "refused"
  BY <1>1, SettledIsStable DEF Nothing
<1>2. CASE journal[c] \in NothingPlaced
  <2>1. JournalStep
    BY StepIsJournalStep
  <2>2. journal \in [Commands -> JournalStates]
    BY DEF AgentInv, AgentTypeOK
  <2>3. {"none", "UNKNOWN"} \cap NothingPlaced = {}
    BY DEF NothingPlaced
  <2> QED  BY <1>2, <2>1, <2>2, <2>3 DEF JournalStep, Nothing
<1> QED  BY <1>1, <1>2 DEF Nothing

(* What a message rests on does not go away.                                  *)
LEMMA HonestStays ==
    ASSUME "storeRead" \notin AgentFaults, AgentInv, [AgentNext]_agentVars
    PROVE  Honest \subseteq Honest'
<1> SUFFICES ASSUME NEW m \in Honest PROVE m \in Honest'
  OBVIOUS
<1>1. m \in Messages /\ m.cmd \in Commands
  BY DEF Honest, Messages
<1>2. broker[m.cmd] = "placed" => broker'[m.cmd] = "placed"
  BY <1>1, SettledIsStable
<1>3. Nothing(m.cmd) => Nothing(m.cmd)'
  BY <1>1, NothingStays
<1> QED  BY <1>1, <1>2, <1>3 DEF Honest, PositiveMessages, NegativeMessages

(* The messages, by what must hold when they are sent.                        *)
LEMMA HonestReport ==
    ASSUME NEW c \in Commands, NEW s \in ReportStatuses,
           s = "FILLED" => broker'[c] = "placed",
           s \in NothingPlaced => journal'[c] \in NothingPlaced
    PROVE  Report(c, s) \in Honest'
BY DEF Honest, Nothing, PositiveMessages, NegativeMessages, Messages, Report

LEMMA HonestAck ==
    ASSUME NEW c \in Commands, NEW s \in AckStatuses,
           s \in {"REJECTED", "EXPIRED"} => journal'[c] \in NothingPlaced
    PROVE  Ack(c, s) \in Honest'
BY DEF Honest, Nothing, PositiveMessages, NegativeMessages, Messages, Ack

LEMMA HonestReconciled ==
    ASSUME NEW c \in Commands, NEW s \in Findings,
           s = "executed" => broker'[c] = "placed",
           s = "rejected" => broker'[c] = "refused"
    PROVE  Reconciled(c, s) \in Honest'
BY DEF Honest, Nothing, PositiveMessages, NegativeMessages, Messages, Reconciled

(* The queue: what is added is honest, what is left was there.                *)
LEMMA SendHonest ==
    ASSUME toCore \in Seq(Honest'), NEW ms \in Seq(Honest'), Send(ms)
    PROVE  WireHonest'
<1>1. toCore \o ms \in Seq(Honest')
  BY ConcatProperties
<1> QED  BY <1>1 DEF Send, WireHonest

LEMMA PrefixHonest ==
    ASSUME toCore \in Seq(Honest'), NEW k \in 0..Len(toCore), toCore' = SubSeq(toCore, 1, k)
    PROVE  WireHonest'
<1>1. Len(toCore) \in Nat
  BY LenProperties
<1>2. \A i \in 1..k : toCore[i] \in Honest'
  BY <1>1, ElementOfSeq
<1> QED  BY <1>1, <1>2, SubSeqProperties DEF WireHonest

LEMMA FinishHonest ==
    ASSUME AgentInv, toCore \in Seq(Honest'), agent.cmd \in Commands, NEW s \in ReportStatuses, Finish(s, TRUE),
           s = "FILLED" => broker[agent.cmd] = "placed"
    PROVE  WireHonest'
<1>1. journal'[agent.cmd] = s /\ broker' = broker
  BY DEF Finish, Record, AgentInv, AgentTypeOK
<1>2. Report(agent.cmd, s) \in Honest'
  BY <1>1, HonestReport
<1>3. <<Report(agent.cmd, s)>> \in Seq(Honest')
  BY <1>2
<1> QED  BY <1>3, SendHonest DEF Finish

(* Every step of the agent and of its environment.                            *)
LEMMA WireHonestStep ==
    ASSUME {"storeRead", "storeWrite"} \cap AgentFaults = {}, AgentInv, WireHonest, [AgentNext]_agentVars
    PROVE  WireHonest'
<1> USE DEF AgentInv
<1>1. toCore \in Seq(Honest')
  BY HonestStays DEF WireHonest
<1>2. Writes = {TRUE}
  BY DEF Writes
<1>3. CASE UNCHANGED toCore
  BY <1>1, <1>3 DEF WireHonest
<1>4. ASSUME NEW c \in Commands, AnswerDuplicate(c) PROVE WireHonest'
  <2> DEFINE again == IF journal[c] \in FinalStatuses THEN <<Report(c, journal[c])>> ELSE <<>>
  <2>1. Ack(c, "DUPLICATE") \in Honest'
    BY HonestAck DEF AckStatuses
  <2>2. again \in Seq(Honest')
    <3>1. CASE journal[c] \in FinalStatuses
      <4>1. Report(c, journal[c]) \in Honest'
        BY <1>4, <3>1, HonestReport DEF AnswerDuplicate, JournalTruthful, FinalStatuses
      <4> QED  BY <3>1, <4>1
    <3>2. CASE journal[c] \notin FinalStatuses
      BY <3>2, EmptySeq
    <3> QED  BY <3>1, <3>2
  <2>3. Send(<<Ack(c, "DUPLICATE")>> \o again)
    BY <1>4 DEF AnswerDuplicate
  <2> HIDE DEF again
  <2>4. <<Ack(c, "DUPLICATE")>> \in Seq(Honest')
    BY <2>1
  <2>5. <<Ack(c, "DUPLICATE")>> \o again \in Seq(Honest')
    BY <2>2, <2>4, ConcatProperties
  <2> QED  BY <1>1, <2>3, <2>5, SendHonest
<1>5. ASSUME NEW c \in Commands, Refuse(c) \/ ExpireAtAgent(c) PROVE WireHonest'
  <2>1. journal'[c] \in {"REJECTED", "EXPIRED"}
    BY <1>2, <1>5 DEF Refuse, ExpireAtAgent, Record, AgentTypeOK
  <2>2. Ack(c, "REJECTED") \in Honest' /\ Ack(c, "EXPIRED") \in Honest' /\ Report(c, "REJECTED") \in Honest'
    BY <2>1, HonestAck, HonestReport DEF AckStatuses, ReportStatuses, NothingPlaced
  <2>3. <<Ack(c, "REJECTED"), Report(c, "REJECTED")>> \in Seq(Honest') /\ <<Ack(c, "EXPIRED")>> \in Seq(Honest')
    BY <2>2
  <2> QED  BY <1>1, <1>5, <2>3, SendHonest DEF Refuse, ExpireAtAgent
<1>6. ASSUME NEW c \in Commands, Accept(c) PROVE WireHonest'
  <2>1. Ack(c, "ACCEPTED") \in Honest'
    BY HonestAck DEF AckStatuses
  <2>2. <<Ack(c, "ACCEPTED")>> \in Seq(Honest')
    BY <2>1
  <2> QED  BY <1>1, <1>6, <2>2, SendHonest DEF Accept
<1>7. CASE Simulate \/ RefuseAccepted \/ CheckRefused \/ Unwritable \/ OrderReturns
  <2>1. agent.cmd \in Commands
    BY <1>7 DEF Simulate, RefuseAccepted, CheckRefused, Unwritable, OrderReturns, HandlerOK, At
  <2>2. \E s \in ReportStatuses : Finish(s, TRUE) /\ (s = "FILLED" => broker[agent.cmd] = "placed")
    BY <1>2, <1>7 DEF Simulate, RefuseAccepted, CheckRefused, Unwritable, OrderReturns, Answers, ReportStatuses
  <2> QED  BY <1>1, <2>1, <2>2, FinishHonest
<1>8. ASSUME NEW c \in Commands, ReplayReport(c) PROVE WireHonest'
  <2>1. journal[c] \in ReportStatuses
    BY <1>8 DEF ReplayReport, HandlerOK, At, FinalStatuses
  <2>2. Report(c, journal[c]) \in Honest'
    BY <1>8, <2>1, HonestReport DEF ReplayReport, JournalTruthful
  <2>3. <<Report(c, journal[c])>> \in Seq(Honest')
    BY <2>2
  <2> QED  BY <1>1, <1>8, <2>3, SendHonest DEF ReplayReport
<1>9. ASSUME NEW c \in Commands, ReconcileUnknown(c) PROVE WireHonest'
  <2>1. PICK found \in Evidence(c) : Send(<<Reconciled(c, found)>>)
    BY <1>9 DEF ReconcileUnknown
  <2>2. Reconciled(c, found) \in Honest'
    <3>1. broker' = broker
      BY <1>9 DEF ReconcileUnknown
    <3> QED  BY <3>1, HonestReconciled DEF Evidence, Findings
  <2>3. <<Reconciled(c, found)>> \in Seq(Honest')
    BY <2>2
  <2> QED  BY <1>1, <2>1, <2>3, SendHonest
<1>10. CASE CoreReads
  BY <1>1, <1>10, HeadTailProperties DEF CoreReads, WireHonest
<1>11. CASE LinkLost \/ AgentCrash
  BY <1>1, <1>11, PrefixHonest DEF LinkLost, LinkDrops, AgentCrash
<1>12. CASE WriteAhead \/ OrderSend \/ Connect \/ ReplayDone \/ Heartbeat \/ ReconcileDone
  BY <1>3, <1>12 DEF WriteAhead, OrderSend, Connect, ReplayDone, Heartbeat, ReconcileDone
<1>13. CASE Ping \/ Silence \/ SetHalt \/ ClearHalt \/ AgentRestart \/ UNCHANGED agentVars
  BY <1>3, <1>13 DEF Ping, Silence, SetHalt, ClearHalt, AgentRestart, agentVars
<1>14. ASSUME NEW c \in Commands, BecomesLate(c) \/ BrokerSettles(c) \/ LineArrives(c) PROVE WireHonest'
  BY <1>3, <1>14 DEF BecomesLate, BrokerSettles, LineArrives
<1> QED  BY <1>4, <1>5, <1>6, <1>7, <1>8, <1>9, <1>10, <1>11, <1>12, <1>13, <1>14
         DEF AgentNext, AgentSteps, AgentHandles

(* What a message says of the broker is true when the core reads it, however   *)
(* long it travelled, provided the journal can be read and written.            *)
THEOREM MessagesAreTruthful ==
    ASSUME {"storeRead", "storeWrite"} \cap AgentFaults = {}
    PROVE  AgentSpec => []MessagesTruthful
<1>1. AgentInit => WireHonest
  BY EmptySeq DEF AgentInit, LinkInit, WireHonest
<1>2. AgentInv /\ WireHonest /\ [AgentNext]_agentVars => WireHonest'
  BY WireHonestStep
<1>3. AgentInv /\ WireHonest => MessagesTruthful
  <2> SUFFICES ASSUME AgentInv, WireHonest, NEW i \in 1..Len(toCore)
               PROVE  /\ toCore[i] \in PositiveMessages => broker[toCore[i].cmd] = "placed"
                      /\ toCore[i] \in NegativeMessages => broker[toCore[i].cmd] \in {"none", "refused"}
    BY DEF MessagesTruthful
  <2>1. toCore[i] \in Honest
    BY ElementOfSeq DEF WireHonest
  <2>2. toCore[i].cmd \in Commands
    BY <2>1 DEF Honest, Messages
  <2> QED  BY <2>1, <2>2 DEF Honest, Nothing, AgentInv, JournalTruthful
<1>4. AgentSpec => []AgentInv
  BY AgentInvariance
<1> QED  BY <1>1, <1>2, <1>3, <1>4, PTL DEF AgentSpec
=============================================================================
