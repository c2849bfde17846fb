------------------------ MODULE ExecutionSystemProofs ------------------------
(* Theorems about the core and the agent together, for every set of commands, *)
(* of tasks and of orders, provided the agent's command store can be read.    *)
EXTENDS ExecutionSystem, ExecutionAgentProofs, ExecutionServiceProofs

SystemTypes == ServiceTypeOK /\ AgentInv

(* A step of the core is a step of the environment the agent was proved against: *)
(* a line that leaves, a message that is read, a connection that ends.           *)
LEMMA CoreStepIsEnvironmentStep ==
    ASSUME ServiceTypeOK, CoreMoves
    PROVE  [AgentNext]_agentVars
<1>1. UNCHANGED <<alive, halted, journal, agent, broker, execs>> /\ ServiceSteps
  BY DEF CoreMoves, agentSide
<1>2. CASE UNCHANGED wire
  BY <1>1, <1>2 DEF agentVars, wire
<1>3. ASSUME NEW t \in Callers, SendsLine(t) \/ DrainTimesOut(t) PROVE [AgentNext]_agentVars
  <2>1. callers[t].cmd \in Commands
    BY <1>3 DEF SendsLine, DrainTimesOut, CallerAt, ServiceTypeOK, CallersTypeOK
  <2>2. LineArrives(callers[t].cmd)
    BY <1>1, <1>3 DEF SendsLine, DrainTimesOut, LineArrives
  <2> QED  BY <2>1, <2>2 DEF AgentNext
<1>4. CASE OnAck \/ OnReportReads \/ OnReconciled \/ MessageDropped
  <2>1. CoreReads
    BY <1>1, <1>4 DEF OnAck, OnReportReads, OnReconciled, MessageDropped, Reads, CoreReads
  <2> QED  BY <2>1 DEF AgentNext
<1>5. CASE CoreCrash
  <2>1. CASE LinkDrops
    <3>1. LinkLost
      BY <1>1, <1>5, <2>1, SystemAssumption DEF CoreCrash, LinkLost
    <3> QED  BY <3>1 DEF AgentNext, AgentSteps
  <2>2. CASE UNCHANGED <<lines, connected, toCore>>
    BY <1>2, <1>5, <2>2 DEF CoreCrash, wire
  <2> QED  BY <1>5, <2>1, <2>2 DEF CoreCrash
<1>6. ASSUME NEW t \in Callers, CallerSteps(t) PROVE [AgentNext]_agentVars
  <2>1. SendsLine(t) \/ DrainTimesOut(t) \/ UNCHANGED wire
    BY <1>6 DEF CallerSteps, SubmitReads, SubmitRefuses, SubmitInserts, SubmitLosesRace, Forgets,
                ConfirmReads, CancelReads, Withdraws, DispatchesLocally, SendsIntoTheVoid, CannotSend,
                AfterSend, CallerFails
  <2> QED  BY <1>2, <1>3, <2>1
<1>7. CASE OnReportMoves \/ SettlingSteps
  BY <1>2, <1>7 DEF OnReportMoves, SettlingSteps, StartsReconciling, Concludes, SlotFails
<1>8. CASE HousekeepingSteps
  BY <1>2, <1>5, <1>8 DEF HousekeepingSteps, SweepExpires, SweepDoubts, RecoverOne, CoreStarts, Recovered
<1> QED  BY <1>1, <1>4, <1>6, <1>7, <1>8 DEF ServiceSteps, AgentMessageSteps

LEMMA SystemStepIsAgentStep ==
    ASSUME ServiceTypeOK, [SystemNext]_systemVars
    PROVE  [AgentNext]_agentVars
<1>1. CASE AgentMoves
  BY <1>1 DEF AgentMoves, AgentNext
<1>2. CASE CoreMoves
  BY <1>2, CoreStepIsEnvironmentStep
<1>3. CASE \E c \in Commands : SearchesBroker(c) \/ SeesPosition(c)
  BY <1>3 DEF SearchesBroker, SeesPosition, CoreSearches, ConfirmsPosition, agentSide, agentVars, wire
<1>4. CASE UNCHANGED systemVars
  BY <1>4 DEF systemVars, agentSide, agentVars, wire
<1> QED  BY <1>1, <1>2, <1>3, <1>4 DEF SystemNext

LEMMA EvidenceIsFinding == ASSUME NEW c \in Commands PROVE Evidence(c) \subseteq Findings
BY DEF Evidence, Findings

LEMMA SystemTypesStep ==
    ASSUME "storeRead" \notin AgentFaults, SystemTypes, [SystemNext]_systemVars
    PROVE  SystemTypes'
<1> USE DEF SystemTypes
<1>1. AgentInv'
  BY SystemStepIsAgentStep, AgentInvStep
<1>2. LinkTypeOK'
  BY <1>1 DEF AgentInv, AgentTypeOK
<1>3. CASE UNCHANGED coreSide
  <2>1. RowsTypeOK' /\ CallersTypeOK' /\ SlotsTypeOK' /\ core' = core
    BY <1>3, RowsKept, CallersKept, SlotsKept DEF coreSide, ServiceTypeOK
  <2> QED  BY <1>1, <1>2, <2>1 DEF ServiceTypeOK
<1>4. CASE CoreMoves
  BY <1>1, <1>4, ServiceStep DEF CoreMoves, ServiceNext, Kept
<1>5. ASSUME NEW c \in Commands, SearchesBroker(c) \/ SeesPosition(c) PROVE SystemTypes'
  <2>1. AnyAgent
    BY <1>5, EvidenceIsFinding DEF SearchesBroker, SeesPosition, AnyAgent
  <2> QED  BY <1>1, <2>1, ServiceStep DEF ServiceNext, Kept
<1> QED  BY <1>3, <1>4, <1>5 DEF SystemNext, AgentMoves, systemVars

LEMMA SystemTypesInit == SystemInit => SystemTypes
BY AgentInvInit, ServiceTypedInit DEF SystemInit, SystemTypes

THEOREM SystemTyped ==
    ASSUME "storeRead" \notin AgentFaults
    PROVE  SystemSpec => []SystemTypes
<1>1. SystemTypes /\ [SystemNext]_systemVars => SystemTypes'
  BY SystemTypesStep
<1> QED  BY <1>1, SystemTypesInit, PTL DEF SystemSpec

(* The composed system implements the agent's specification: whatever the agent *)
(* promises to any environment, it keeps with this core.                        *)
THEOREM CoreKeepsToTheProtocol ==
    ASSUME "storeRead" \notin AgentFaults
    PROVE  SystemSpec => CoreIsAnEnvironment
<1>1. SystemInit => AgentInit
  BY DEF SystemInit
<1>2. SystemTypes /\ [SystemNext]_systemVars => [AgentNext]_agentVars
  BY SystemStepIsAgentStep DEF SystemTypes
<1> QED  BY <1>1, <1>2, SystemTyped, PTL DEF SystemSpec, CoreIsAnEnvironment, AgentSpec

(* One commandId, one execution at most, whatever the core's tasks do: two      *)
(* confirmations, a retry, a cancel, a crash between the send and the record.    *)
THEOREM AtMostOneExecutionInTheSystem ==
    ASSUME "storeRead" \notin AgentFaults
    PROVE  SystemSpec => []AtMostOnce
BY CoreKeepsToTheProtocol, AtMostOneExecution, PTL DEF CoreIsAnEnvironment

-----------------------------------------------------------------------------
(* ExecutedIsTrue.  Its strengthening follows the evidence from the broker to *)
(* the row: on the wire, in the slot of the task that settles it, in the row.  *)

Sound == {m \in Messages : m \in PositiveMessages => broker[m.cmd] = "placed"}
WireSound == toCore \in Seq(Sound)
SlotsSound == \A s \in Searchers :
                 slots[s].verdict \in {"FILLED", "executed"}
                    => slots[s].cmd \in Commands /\ broker[slots[s].cmd] = "placed"
EvidenceInv == WireSound /\ SlotsSound /\ ExecutedIsTrue

(* What is at the broker stays there.                                         *)
LEMMA PlacedIsStable ==
    ASSUME AgentInv, [AgentNext]_agentVars, NEW c \in Commands, broker[c] = "placed"
    PROVE  broker'[c] = "placed"
BY SettledIsStable

(* The queue stays sound: what is added is sound, what is left was there.     *)
LEMMA SentSound ==
    ASSUME WireSound, NEW ms \in Seq(Sound), Send(ms)
    PROVE  toCore' \in Seq(Sound)
<1>1. toCore \o ms \in Seq(Sound)
  BY ConcatProperties DEF WireSound
<1> QED  BY <1>1 DEF Send, WireSound

LEMMA PrefixSound ==
    ASSUME WireSound, NEW k \in 0..Len(toCore)
    PROVE  SubSeq(toCore, 1, k) \in Seq(Sound)
<1>1. toCore \in Seq(Sound) /\ Len(toCore) \in Nat
  BY LenProperties DEF WireSound
<1>2. \A i \in 1..k : toCore[i] \in Sound
  BY <1>1, ElementOfSeq
<1> QED  BY <1>1, <1>2, SubSeqProperties

LEMMA TailSound ==
    ASSUME WireSound, toCore # <<>>
    PROVE  Head(toCore) \in Sound /\ Tail(toCore) \in Seq(Sound)
BY HeadTailProperties DEF WireSound

LEMMA SoundMessages ==
    ASSUME NEW c \in Commands
    PROVE  /\ \A s \in AckStatuses : Ack(c, s) \in Sound
           /\ \A s \in ReportStatuses : (s = "FILLED" => broker[c] = "placed") => Report(c, s) \in Sound
           /\ \A s \in Findings : (s = "executed" => broker[c] = "placed") => Reconciled(c, s) \in Sound
BY DEF Sound, PositiveMessages, Messages, Ack, Report, Reconciled

(* The messages the agent adds are sound when it adds them.                   *)
LEMMA AgentAddsSound ==
    ASSUME "storeRead" \notin AgentFaults, AgentInv, WireSound, AgentNext
    PROVE  toCore' \in Seq(Sound)
<1> USE DEF AgentInv
<1>1. CASE UNCHANGED toCore
  BY <1>1 DEF WireSound
<1>2. ASSUME NEW c \in Commands, AnswerDuplicate(c) PROVE toCore' \in Seq(Sound)
  <2> DEFINE again == IF journal[c] \in FinalStatuses THEN <<Report(c, journal[c])>> ELSE <<>>
  <2>1. <<Ack(c, "DUPLICATE")>> \in Seq(Sound)
    BY SoundMessages DEF AckStatuses
  <2>2. again \in Seq(Sound)
    <3>1. CASE journal[c] \in FinalStatuses
      <4>1. Report(c, journal[c]) \in Sound
        BY <3>1, SoundMessages DEF JournalTruthful, FinalStatuses
      <4> QED  BY <3>1, <4>1
    <3>2. CASE journal[c] \notin FinalStatuses
      BY <3>2, EmptySeq
    <3> QED  BY <3>1, <3>2
  <2>3. Send(<<Ack(c, "DUPLICATE")>> \o again)
    BY <1>2 DEF AnswerDuplicate
  <2> HIDE DEF again
  <2>4. <<Ack(c, "DUPLICATE")>> \o again \in Seq(Sound)
    BY <2>1, <2>2, ConcatProperties
  <2> QED  BY <2>3, <2>4, SentSound
<1>3. ASSUME NEW c \in Commands, Refuse(c) \/ ExpireAtAgent(c) \/ Accept(c) PROVE toCore' \in Seq(Sound)
  <2>1. /\ Ack(c, "REJECTED") \in Sound /\ Ack(c, "EXPIRED") \in Sound /\ Ack(c, "ACCEPTED") \in Sound
        /\ Report(c, "REJECTED") \in Sound
    BY SoundMessages DEF AckStatuses, ReportStatuses
  <2>2. <<Ack(c, "REJECTED"), Report(c, "REJECTED")>> \in Seq(Sound)
    BY <2>1
  <2>3. <<Ack(c, "EXPIRED")>> \in Seq(Sound) /\ <<Ack(c, "ACCEPTED")>> \in Seq(Sound)
    BY <2>1
  <2> QED  BY <1>3, <2>2, <2>3, SentSound DEF Refuse, ExpireAtAgent, Accept
<1>4. ASSUME NEW s \in ReportStatuses, NEW ok, Finish(s, ok), agent.cmd \in Commands,
             s = "FILLED" => broker[agent.cmd] = "placed"
      PROVE  toCore' \in Seq(Sound)
  <2>1. Report(agent.cmd, s) \in Sound
    BY <1>4, SoundMessages
  <2>2. <<Report(agent.cmd, s)>> \in Seq(Sound)
    BY <2>1
  <2> QED  BY <1>4, <2>2, SentSound DEF Finish
<1>5. CASE Simulate \/ RefuseAccepted \/ CheckRefused \/ Unwritable \/ OrderReturns
  <2>1. agent.cmd \in Commands
    BY <1>5 DEF Simulate, RefuseAccepted, CheckRefused, Unwritable, OrderReturns, HandlerOK, At
  <2>2. \E s \in ReportStatuses, ok \in Writes :
           Finish(s, ok) /\ (s = "FILLED" => broker[agent.cmd] = "placed")
    BY <1>5 DEF Simulate, RefuseAccepted, CheckRefused, Unwritable, OrderReturns, Answers, ReportStatuses
  <2> QED  BY <1>4, <2>1, <2>2
<1>6. ASSUME NEW c \in Commands, ReplayReport(c) PROVE toCore' \in Seq(Sound)
  <2>1. journal[c] \in ReportStatuses
    BY <1>6 DEF ReplayReport, HandlerOK, At, FinalStatuses
  <2>2. Report(c, journal[c]) \in Sound
    BY <2>1, SoundMessages DEF JournalTruthful
  <2>3. <<Report(c, journal[c])>> \in Seq(Sound)
    BY <2>2
  <2> QED  BY <1>6, <2>3, SentSound DEF ReplayReport
<1>7. ASSUME NEW c \in Commands, ReconcileUnknown(c) PROVE toCore' \in Seq(Sound)
  <2>1. PICK found \in Evidence(c) : Send(<<Reconciled(c, found)>>)
    BY <1>7 DEF ReconcileUnknown
  <2>2. Reconciled(c, found) \in Sound
    BY SoundMessages DEF Evidence, Findings
  <2>3. <<Reconciled(c, found)>> \in Seq(Sound)
    BY <2>2
  <2> QED  BY <2>1, <2>3, SentSound
<1>8. CASE CoreReads
  BY <1>8, TailSound DEF CoreReads
<1>9. CASE LinkLost \/ AgentCrash
  BY <1>9, PrefixSound DEF LinkLost, LinkDrops, AgentCrash
<1>10. CASE WriteAhead \/ OrderSend \/ Connect \/ ReplayDone \/ Heartbeat \/ ReconcileDone
  BY <1>1, <1>10 DEF WriteAhead, OrderSend, Connect, ReplayDone, Heartbeat, ReconcileDone
<1>11. CASE Ping \/ Silence \/ SetHalt \/ ClearHalt \/ AgentRestart
  BY <1>1, <1>11 DEF Ping, Silence, SetHalt, ClearHalt, AgentRestart
<1>12. ASSUME NEW c \in Commands, BecomesLate(c) \/ BrokerSettles(c) \/ LineArrives(c)
       PROVE  toCore' \in Seq(Sound)
  BY <1>1, <1>12 DEF BecomesLate, BrokerSettles, LineArrives
<1> QED  BY <1>2, <1>3, <1>5, <1>6, <1>7, <1>8, <1>9, <1>10, <1>11, <1>12
         DEF AgentNext, AgentSteps, AgentHandles

LEMMA WireSoundStep ==
    ASSUME "storeRead" \notin AgentFaults, AgentInv, WireSound, [AgentNext]_agentVars
    PROVE  WireSound'
<1>1. toCore' \in Seq(Sound)
  <2>1. CASE UNCHANGED agentVars
    BY <2>1 DEF WireSound, agentVars
  <2> QED  BY <2>1, AgentAddsSound
<1>2. Sound \subseteq Sound'
  BY PlacedIsStable, MessageFields DEF Sound, PositiveMessages
<1> QED  BY <1>1, <1>2 DEF WireSound

(* A slot that takes sound evidence, one that ends, a row that moves on it.    *)
LEMMA SlotTakesSound ==
    ASSUME SlotsTypeOK, SlotsSound, broker' = broker, NEW s \in Searchers, NEW pc, NEW c \in Commands,
           NEW v, v \in {"FILLED", "executed"} => broker[c] = "placed", SlotTakes(s, pc, c, v)
    PROVE  SlotsSound'
BY DEF SlotsTypeOK, SlotsSound, SlotTakes

LEMMA EvidenceTakenSound ==
    ASSUME SlotsTypeOK, SlotsSound, broker' = broker, NEW s \in Searchers, NEW c \in Commands,
           NEW v, v \in {"FILLED", "executed"} => broker[c] = "placed", InDoubt(c), TakesEvidence(s, c, v)
    PROVE  SlotsSound'
<1>1. SlotTakes(s, "starting", c, v) \/ SlotTakes(s, "concluding", c, v)
  BY DEF TakesEvidence, InDoubt
<1> QED  BY <1>1, SlotTakesSound

LEMMA SlotEndsSound ==
    ASSUME SlotsTypeOK, SlotsSound, broker' = broker, NEW s \in Searchers, SlotEnds(s)
    PROVE  SlotsSound'
BY DEF SlotsTypeOK, SlotsSound, SlotEnds, FreeSlot

LEMMA SlotsKeptSound ==
    ASSUME SlotsSound, UNCHANGED <<slots, broker>>
    PROVE  SlotsSound'
BY DEF SlotsSound

LEMMA RowsKeptSound ==
    ASSUME ExecutedIsTrue, UNCHANGED <<outcome, broker>>
    PROVE  ExecutedIsTrue'
BY DEF ExecutedIsTrue

LEMMA MoveSound ==
    ASSUME RowsTypeOK, ExecutedIsTrue, broker' = broker, NEW c \in Commands, NEW event, NEW said,
           said = "executed" => broker[c] = "placed", Move(c, event, said)
    PROVE  ExecutedIsTrue'
BY DEF RowsTypeOK, ExecutedIsTrue, Move

(* The core's steps keep what it holds sound.                                 *)
LEMMA CoreKeepsSound ==
    ASSUME ServiceTypeOK, EvidenceInv, ServiceSteps, broker' = broker
    PROVE  SlotsSound' /\ ExecutedIsTrue'
<1> USE DEF ServiceTypeOK, EvidenceInv
<1>1. CASE UNCHANGED <<slots, outcome>>
  BY <1>1, SlotsKeptSound, RowsKeptSound
<1>2. ASSUME NEW t \in Callers, CallerSteps(t) PROVE SlotsSound' /\ ExecutedIsTrue'
  <2>1. CASE Withdraws(t) \/ AfterSend(t)
    <3>1. callers[t].cmd \in Commands
      BY <2>1 DEF Withdraws, AfterSend, CallerAt, CallersTypeOK
    <3>2. \E event : Move(callers[t].cmd, event, "open")
      BY <2>1 DEF Withdraws, AfterSend
    <3> QED  BY <2>1, <3>1, <3>2, MoveSound, SlotsKeptSound DEF Withdraws, AfterSend
  <2>2. CASE ~(Withdraws(t) \/ AfterSend(t))
    <3>1. UNCHANGED <<slots, outcome>>
      BY <1>2, <2>2 DEF CallerSteps, SubmitReads, SubmitRefuses, SubmitInserts, SubmitLosesRace, Forgets,
                ConfirmReads, CancelReads, DispatchesLocally, SendsLine, SendsIntoTheVoid, CannotSend,
                DrainTimesOut, CallerFails
    <3> QED  BY <1>1, <3>1
  <2> QED  BY <2>1, <2>2
<1>3. CASE OnAck
  <2> DEFINE m == Head(toCore)
  <2>1. m \in Messages
    BY <1>3, ReadsType DEF OnAck
  <2>2. m.cmd \in Commands
    BY <2>1, MessageFields
  <2>3. UNCHANGED outcome \/ Move(m.cmd, AckEvents[m.status], "open")
    BY <1>3 DEF OnAck
  <2> QED  BY <1>3, <2>2, <2>3, MoveSound, RowsKeptSound, SlotsKeptSound DEF OnAck
<1>4. CASE OnReportReads
  <2> DEFINE m == Head(toCore)
  <2>1. m \in Sound /\ m \in Messages /\ m.kind = "report"
    BY <1>4, TailSound DEF OnReportReads, Reads, Sound
  <2>2. m.cmd \in Commands /\ (m.status = "FILLED" => broker[m.cmd] = "placed")
    BY <2>1, MessageFields DEF Sound, PositiveMessages
  <2>3. SlotsSound'
    <3>1. CASE InDoubt(m.cmd)
      <4>1. TakesEvidence("agent", m.cmd, IF m.status = "FILLED" THEN "executed" ELSE "rejected")
        BY <1>4, <3>1 DEF OnReportReads, InDoubt, Absent
      <4> QED  BY <2>2, <3>1, <4>1, EvidenceTakenSound DEF Searchers
    <3>2. CASE ~InDoubt(m.cmd)
      <4>1. UNCHANGED slots \/ SlotTakes("agent", "reporting", m.cmd, m.status)
        BY <1>4, <3>2 DEF OnReportReads
      <4>2. m.status # "executed"
        BY <2>1, MessageFields DEF ReportStatuses
      <4> QED  BY <2>2, <4>1, <4>2, SlotTakesSound, SlotsKeptSound DEF Searchers
    <3> QED  BY <3>1, <3>2
  <2> QED  BY <1>4, <2>3, RowsKeptSound DEF OnReportReads
<1>5. CASE OnReportMoves
  <2> DEFINE r == slots["agent"]
  <2>1. r.cmd \in Commands
    BY <1>5 DEF OnReportMoves, SlotAt, SlotsTypeOK, Searchers
  <2>2. Move(r.cmd, ReportEvent(r.verdict)[1], ReportEvent(r.verdict)[2])
    BY <1>5 DEF OnReportMoves
  <2>3. ReportEvent(r.verdict)[2] = "executed" => broker[r.cmd] = "placed"
    BY DEF ReportEvent, SlotsSound, Searchers
  <2>4. ExecutedIsTrue'
    BY <2>1, <2>2, <2>3, MoveSound
  <2> QED  BY <1>5, <2>4, SlotEndsSound DEF OnReportMoves, Searchers
<1>6. CASE OnReconciled
  <2> DEFINE m == Head(toCore)
  <2>1. m \in Sound /\ m \in Messages /\ m.kind = "reconciled"
    BY <1>6, TailSound DEF OnReconciled, Reads, Sound
  <2>2. m.cmd \in Commands /\ (m.status \in {"FILLED", "executed"} => broker[m.cmd] = "placed")
    BY <2>1, MessageFields DEF Sound, PositiveMessages, Findings
  <2>3. SlotsSound'
    BY <1>6, <2>2, EvidenceTakenSound, SlotsKeptSound DEF OnReconciled, Searchers
  <2> QED  BY <1>6, <2>3, RowsKeptSound DEF OnReconciled
<1>7. ASSUME NEW s \in Searchers, StartsReconciling(s) PROVE SlotsSound' /\ ExecutedIsTrue'
  <2>1. slots[s].cmd \in Commands
    BY <1>7 DEF StartsReconciling, SlotAt, SlotsTypeOK
  <2>2. ExecutedIsTrue'
    BY <1>7, <2>1, MoveSound DEF StartsReconciling
  <2>3. SlotsSound'
    BY <1>7 DEF StartsReconciling, SlotsTypeOK, SlotsSound
  <2> QED  BY <2>2, <2>3
<1>8. ASSUME NEW s \in Searchers, Concludes(s) PROVE SlotsSound' /\ ExecutedIsTrue'
  <2>1. slots[s].cmd \in Commands
    BY <1>8 DEF Concludes, SlotAt, SlotsTypeOK
  <2>2. \E event : \E said \in {"open", "executed", "nothing"} :
           Move(slots[s].cmd, event, said) /\ (said = "executed" => slots[s].verdict = "executed")
    <3>1. CASE slots[s].verdict = "not_found"
      BY <1>8, <3>1 DEF Concludes
    <3>2. CASE slots[s].verdict = "executed"
      BY <1>8, <3>2 DEF Concludes
    <3>3. CASE slots[s].verdict \notin {"not_found", "executed"}
      BY <1>8, <3>3 DEF Concludes
    <3> QED  BY <3>1, <3>2, <3>3
  <2>3. ExecutedIsTrue'
    BY <2>1, <2>2, MoveSound DEF SlotsSound
  <2> QED  BY <1>8, <2>3, SlotEndsSound DEF Concludes
<1>9. CASE MessageDropped \/ \E s \in Searchers : SlotFails(s)
  BY <1>1, <1>9, SlotEndsSound, RowsKeptSound DEF MessageDropped, SlotFails
<1>10. ASSUME NEW c \in Commands, SweepExpires(c) \/ SweepDoubts(c) \/ RecoverOne(c)
       PROVE  SlotsSound' /\ ExecutedIsTrue'
  <2>1. (\E event : Move(c, event, "open")) /\ slots' = slots
    BY <1>10 DEF SweepExpires, SweepDoubts, RecoverOne
  <2> QED  BY <2>1, MoveSound, SlotsKeptSound
<1>11. CASE CoreCrash \/ CoreStarts \/ Recovered
  <2>1. ExecutedIsTrue'
    BY <1>11, RowsKeptSound DEF CoreCrash, CoreStarts, Recovered
  <2>2. SlotsSound'
    <3>1. CASE CoreCrash
      BY <3>1 DEF CoreCrash, SlotsSound, FreeSlot
    <3>2. CASE CoreStarts \/ Recovered
      BY <3>2, SlotsKeptSound DEF CoreStarts, Recovered
    <3> QED  BY <1>11, <3>1, <3>2
  <2> QED  BY <2>1, <2>2
<1> QED  BY <1>2, <1>3, <1>4, <1>5, <1>6, <1>7, <1>8, <1>9, <1>10, <1>11
         DEF ServiceSteps, AgentMessageSteps, SettlingSteps, HousekeepingSteps

LEMMA EvidenceStep ==
    ASSUME "storeRead" \notin AgentFaults, SystemTypes, EvidenceInv, [SystemNext]_systemVars
    PROVE  EvidenceInv'
<1> USE DEF SystemTypes, EvidenceInv
<1>1. [AgentNext]_agentVars
  BY SystemStepIsAgentStep
<1>2. WireSound'
  BY <1>1, WireSoundStep
<1>3. CASE UNCHANGED coreSide
  <2>1. SlotsSound'
    BY <1>1, <1>3, PlacedIsStable DEF coreSide, SlotsSound
  <2>2. ExecutedIsTrue'
    BY <1>1, <1>3, PlacedIsStable DEF coreSide, ExecutedIsTrue
  <2> QED  BY <1>2, <2>1, <2>2
<1>4. CASE CoreMoves
  BY <1>2, <1>4, CoreKeepsSound DEF CoreMoves, agentSide
<1>5. ASSUME NEW c \in Commands, SearchesBroker(c) PROVE EvidenceInv'
  <2>1. PICK found \in Evidence(c) : CoreSearches(c, found)
    BY <1>5 DEF SearchesBroker
  <2>2. found \in {"FILLED", "executed"} => broker[c] = "placed"
    BY DEF Evidence
  <2>3. broker' = broker
    BY <1>5 DEF SearchesBroker, agentSide
  <2>4. SlotsSound'
    BY <2>1, <2>2, <2>3, EvidenceTakenSound DEF CoreSearches, Searchers, ServiceTypeOK
  <2> QED  BY <1>2, <2>1, <2>3, <2>4, RowsKeptSound DEF CoreSearches
<1>6. ASSUME NEW c \in Commands, SeesPosition(c) PROVE EvidenceInv'
  <2>1. Move(c, "POSITION_CONFIRMED", "open") /\ UNCHANGED <<slots, broker>>
    BY <1>6 DEF SeesPosition, ConfirmsPosition, agentSide
  <2> QED  BY <1>2, <2>1, MoveSound, SlotsKeptSound DEF ServiceTypeOK
<1> QED  BY <1>3, <1>4, <1>5, <1>6 DEF SystemNext, AgentMoves, systemVars

LEMMA EvidenceInit == SystemInit => EvidenceInv
<1> SUFFICES ASSUME SystemInit PROVE EvidenceInv
  OBVIOUS
<1>1. WireSound
  BY EmptySeq DEF SystemInit, AgentInit, LinkInit, WireSound
<1>2. SlotsSound /\ ExecutedIsTrue
  BY DEF SystemInit, ServiceInit, SlotsSound, FreeSlot, ExecutedIsTrue
<1> QED  BY <1>1, <1>2 DEF EvidenceInv

(* The core never believes in an execution that did not happen: a row that says *)
(* executed, by report or by reconciliation, stands for an order at the broker, *)
(* through crashes, lost links, failed journal writes and late messages.        *)
THEOREM ExecutedIsTrueInTheSystem ==
    ASSUME "storeRead" \notin AgentFaults
    PROVE  SystemSpec => []ExecutedIsTrue
<1>1. SystemTypes /\ EvidenceInv /\ [SystemNext]_systemVars => EvidenceInv'
  BY EvidenceStep
<1>2. EvidenceInv => ExecutedIsTrue
  BY DEF EvidenceInv
<1> QED  BY <1>1, <1>2, EvidenceInit, SystemTyped, PTL DEF SystemSpec

-----------------------------------------------------------------------------
(* RefusalAfterSendIsTrue.  The evidence of a refusal, from the wire to the    *)
(* report being handled: what it says is still true when the row is moved.      *)

ReportHonest ==
    (slots["agent"].pc = "reporting" /\ slots["agent"].verdict \in {"FAILED", "SIMULATED"})
       => Nothing(slots["agent"].cmd)
RefusalInv == WireHonest /\ ReportHonest

(* The head of an honest queue.                                               *)
LEMMA HeadHonest ==
    ASSUME WireHonest, toCore # <<>>
    PROVE  Head(toCore) \in Honest /\ Head(toCore).cmd \in Commands
<1>1. Head(toCore) \in Honest
  BY HeadTailProperties DEF WireHonest
<1> QED  BY <1>1 DEF Honest, Messages

(* A slot that takes evidence starts a search with it.                         *)
LEMMA TakingIsNotReporting ==
    ASSUME SlotsTypeOK, NEW c, NEW v, InDoubt(c), TakesEvidence("agent", c, v)
    PROVE  slots'["agent"].pc # "reporting"
<1>1. SlotTakes("agent", "starting", c, v) \/ SlotTakes("agent", "concluding", c, v)
  BY DEF TakesEvidence, InDoubt
<1> QED  BY <1>1 DEF SlotTakes, SlotsTypeOK, Searchers

(* A report is handled as it was read, or the slot is busy with something else. *)
LEMMA ReportKept ==
    ASSUME SlotsTypeOK, ServiceSteps, ~OnReportReads
    PROVE  slots'["agent"] = slots["agent"] \/ slots'["agent"].pc # "reporting"
<1>1. CASE UNCHANGED slots
  BY <1>1
<1>2. ASSUME NEW t \in Callers, CallerSteps(t) PROVE UNCHANGED slots
  BY <1>2 DEF CallerSteps, SubmitReads, SubmitRefuses, SubmitInserts, SubmitLosesRace, Forgets, ConfirmReads,
              CancelReads,
              Withdraws, DispatchesLocally, SendsLine, SendsIntoTheVoid, CannotSend, DrainTimesOut, AfterSend, CallerFails
<1>3. CASE OnAck \/ MessageDropped
  BY <1>1, <1>3 DEF OnAck, MessageDropped
<1>4. CASE OnReportMoves
  BY <1>4 DEF OnReportMoves, SlotEnds, FreeSlot, SlotsTypeOK, Searchers
<1>5. CASE OnReconciled
  <2>1. \/ UNCHANGED slots
        \/ /\ InDoubt(Head(toCore).cmd)
           /\ TakesEvidence("agent", Head(toCore).cmd, Head(toCore).status)
    BY <1>5 DEF OnReconciled
  <2> QED  BY <2>1, TakingIsNotReporting
<1>6. ASSUME NEW s \in Searchers, StartsReconciling(s) \/ Concludes(s) \/ SlotFails(s)
      PROVE  slots'["agent"] = slots["agent"] \/ slots'["agent"].pc # "reporting"
  BY <1>6 DEF StartsReconciling, Concludes, SlotFails, SlotEnds, FreeSlot, SlotsTypeOK, Searchers
<1>7. CASE HousekeepingSteps
  BY <1>7 DEF HousekeepingSteps, SweepExpires, SweepDoubts, RecoverOne, CoreCrash, CoreStarts, Recovered, FreeSlot,
              Searchers
<1> QED  BY <1>2, <1>3, <1>4, <1>5, <1>6, <1>7 DEF ServiceSteps, AgentMessageSteps, SettlingSteps

LEMMA ReportHonestStep ==
    ASSUME "storeRead" \notin AgentFaults, SystemTypes, RefusalInv, [SystemNext]_systemVars
    PROVE  ReportHonest'
<1> USE DEF SystemTypes, RefusalInv, ServiceTypeOK
<1>1. [AgentNext]_agentVars
  BY SystemStepIsAgentStep
<1>2. CASE slots'["agent"] = slots["agent"]
  <2> SUFFICES ASSUME slots["agent"].pc = "reporting", slots["agent"].verdict \in {"FAILED", "SIMULATED"}
               PROVE  Nothing(slots["agent"].cmd)'
    BY <1>2 DEF ReportHonest
  <2>1. slots["agent"].cmd \in Commands /\ Nothing(slots["agent"].cmd)
    BY DEF SlotsTypeOK, ReportHonest, Searchers
  <2> DEFINE c == slots["agent"].cmd
  <2>2. c \in Commands /\ Nothing(c)
    BY <2>1
  <2>3. c' = c
    BY <1>2
  <2> HIDE DEF c
  <2>4. \A d \in Commands : Nothing(d) => broker'[d] = "refused" \/ journal'[d] \in NothingPlaced
    BY <1>1, NothingStays DEF Nothing
  <2> QED  BY <1>2, <2>1, <2>4 DEF Nothing
<1>3. CASE slots'["agent"].pc # "reporting"
  BY <1>3 DEF ReportHonest
<1>4. CASE OnReportReads /\ UNCHANGED agentSide
  <2> DEFINE m == Head(toCore)
  <2>1. m \in Honest /\ m \in Messages /\ m.cmd \in Commands /\ m.kind = "report"
    BY <1>4, HeadHonest DEF OnReportReads, Reads, Honest
  <2>2. m.status \in {"FAILED", "SIMULATED"} => Nothing(m.cmd)
    BY <2>1 DEF Honest, NegativeMessages, NothingPlaced
  <2>3. CASE InDoubt(m.cmd)
    <3>1. \E v : TakesEvidence("agent", m.cmd, v)
      BY <1>4, <2>3 DEF OnReportReads, InDoubt, Absent
    <3>2. slots'["agent"].pc # "reporting"
      BY <2>3, <3>1, TakingIsNotReporting
    <3> QED  BY <1>3, <3>2
  <2>4. CASE ~InDoubt(m.cmd)
    <3>1. UNCHANGED slots \/ SlotTakes("agent", "reporting", m.cmd, m.status)
      BY <1>4, <2>4 DEF OnReportReads
    <3>2. CASE SlotTakes("agent", "reporting", m.cmd, m.status)
      <4>1. slots'["agent"].cmd = m.cmd /\ slots'["agent"].verdict = m.status
        BY <3>2 DEF SlotTakes, SlotsTypeOK, Searchers
      <4>2. UNCHANGED <<broker, journal>>
        BY <1>4 DEF agentSide
      <4> QED  BY <2>2, <4>1, <4>2 DEF ReportHonest, Nothing
    <3> QED  BY <1>2, <3>1, <3>2
  <2> QED  BY <2>3, <2>4
<1>5. CASE UNCHANGED coreSide
  BY <1>2, <1>5 DEF coreSide
<1>6. CASE CoreMoves
  BY <1>2, <1>3, <1>4, <1>6, ReportKept DEF CoreMoves
<1>7. ASSUME NEW c \in Commands, SearchesBroker(c) \/ SeesPosition(c) PROVE ReportHonest'
  <2>1. slots'["agent"] = slots["agent"]
    BY <1>7 DEF SearchesBroker, CoreSearches, SeesPosition, ConfirmsPosition, InDoubt, TakesEvidence, SlotTakes,
                SlotsTypeOK, Searchers
  <2> QED  BY <1>2, <2>1
<1> QED  BY <1>5, <1>6, <1>7 DEF SystemNext, AgentMoves, systemVars

(* The events that take a command that was sent to a state without a position.  *)
RefusalEvents == {"ACK_REJECTED", "ACK_EXPIRED", "REPORT_SIMULATED", "REPORT_FAILED"}
Refuses(c) == record[c] \in {"SENT", "ACKNOWLEDGED"} /\ record'[c] \in NoPositionStates

LEMMA MoveRefuses ==
    ASSUME ServiceTypeOK, NEW c \in Commands, Refuses(c), NEW d, NEW event, NEW said, Move(d, event, said)
    PROVE  d = c /\ event \in RefusalEvents
<1>1. record' = [record EXCEPT ![d] = MoveTo(record[d], event)] /\ record \in [Commands -> States \cup {Absent}]
  BY DEF Move, ServiceTypeOK, RowsTypeOK
<1>2. record'[c] # record[c]
  BY DEF Refuses, NoPositionStates
<1>3. d = c /\ MoveTo(record[c], event) # record[c]
  BY <1>1, <1>2
<1>4. PICK edge \in Table : edge[1] = record[c] /\ edge[2] = event /\ edge[3] = record'[c]
  <2>1. MoveTo(record[c], event) \in NextStates(record[c], event)
    BY <1>3 DEF MoveTo
  <2> QED  BY <1>1, <1>3, <2>1 DEF NextStates
<1>5. edge \notin SendEdges /\ edge \notin ReconciliationEdges
  BY <1>4 DEF SendEdges, ReconciliationEdges, Refuses
<1> QED  BY <1>3, <1>4, <1>5 DEF Table, AgentEdges, Refuses, NoPositionStates, RefusalEvents

LEMMA RefusalStep ==
    ASSUME SystemTypes, RefusalInv, SystemNext, NEW c \in Commands, Refuses(c)
    PROVE  Nothing(c)
<1> USE DEF SystemTypes, RefusalInv
<1>1. record' # record
  BY DEF Refuses, NoPositionStates
<1>2. CASE OnAck
  <2> DEFINE m == Head(toCore)
  <2>1. m \in Honest /\ m \in Messages /\ m.kind = "ack"
    BY <1>2, HeadHonest DEF OnAck, Reads, Honest
  <2>2. m.status \in AckStatuses
    BY <2>1, MessageFields
  <2>3. m.status # "DUPLICATE" /\ Move(m.cmd, AckEvents[m.status], "open")
    BY <1>1, <1>2 DEF OnAck
  <2>4. m.cmd = c /\ AckEvents[m.status] \in RefusalEvents
    BY <2>3, MoveRefuses
  <2>5. m.status \in {"REJECTED", "EXPIRED"}
    BY <2>2, <2>3, <2>4 DEF AckStatuses, AckEvents, RefusalEvents
  <2> QED  BY <2>1, <2>4, <2>5 DEF Honest, NegativeMessages
<1>3. CASE OnReportMoves
  <2> DEFINE r == slots["agent"]
  <2>1. r.cmd = c /\ ReportEvent(r.verdict)[1] \in RefusalEvents
    BY <1>3, MoveRefuses DEF OnReportMoves
  <2>2. r.verdict \in {"FAILED", "SIMULATED"}
    BY <2>1 DEF ReportEvent, RefusalEvents
  <2> QED  BY <1>3, <2>1, <2>2 DEF OnReportMoves, SlotAt, ReportHonest
<1>4. ASSUME NEW t \in Callers, CallerSteps(t) PROVE FALSE
  <2>1. CASE Withdraws(t) \/ AfterSend(t)
    <3>1. \E event \in {"CANCEL_REQUESTED", "EXPIRED", "SENT", "SEND_FAILED", "SIMULATED_LOCALLY"} :
             Move(callers[t].cmd, event, "open")
      BY <2>1 DEF Withdraws, AfterSend
    <3> QED  BY <3>1, MoveRefuses DEF RefusalEvents
  <2>2. CASE SubmitRefuses(t) \/ SubmitInserts(t)
    <3>1. PICK d, s, k : Insert(d, s, k)
      BY <2>2 DEF SubmitRefuses, SubmitInserts
    <3>2. record[d] = Absent /\ record' = [record EXCEPT ![d] = s]
      BY <1>1, <3>1 DEF Insert
    <3> QED  BY <3>2 DEF Refuses, NoPositionStates, Absent, ServiceTypeOK, RowsTypeOK
  <2> QED  BY <1>1, <1>4, <2>1, <2>2
           DEF CallerSteps, SubmitReads, SubmitLosesRace, Forgets, ConfirmReads, CancelReads, DispatchesLocally,
               SendsLine, SendsIntoTheVoid, CannotSend, DrainTimesOut, CallerFails
<1>5. CASE OnReportReads \/ OnReconciled \/ MessageDropped
  BY <1>1, <1>5 DEF OnReportReads, OnReconciled, MessageDropped
<1>6. CASE SettlingSteps
  <2>1. \E d, said : \E event \in {"RECONCILIATION_STARTED", "RECONCILIATION_PENDING", "RECONCILED"} : Move(d, event, said)
    BY <1>1, <1>6 DEF SettlingSteps, StartsReconciling, Concludes, SlotFails
  <2> QED  BY <2>1, MoveRefuses DEF RefusalEvents
<1>7. CASE HousekeepingSteps
  <2>1. \E d, said : \E event \in {"EXPIRED", "LINK_LOST"} : Move(d, event, said)
    BY <1>1, <1>7 DEF HousekeepingSteps, SweepExpires, SweepDoubts, RecoverOne, CoreCrash, CoreStarts, Recovered
  <2> QED  BY <2>1, MoveRefuses DEF RefusalEvents
<1>8. ASSUME NEW d \in Commands, SearchesBroker(d) \/ SeesPosition(d) PROVE FALSE
  <2>1. Move(d, "POSITION_CONFIRMED", "open")
    BY <1>1, <1>8 DEF SearchesBroker, CoreSearches, SeesPosition, ConfirmsPosition
  <2> QED  BY <2>1, MoveRefuses DEF RefusalEvents
<1>9. CASE AgentMoves
  BY <1>1, <1>9 DEF AgentMoves, coreSide
<1> QED  BY <1>2, <1>3, <1>4, <1>5, <1>6, <1>7, <1>8, <1>9
         DEF SystemNext, CoreMoves, ServiceSteps, AgentMessageSteps

(* Once a command was recorded as sent, a row that says nothing was placed is    *)
(* true, whatever was lost, repeated or late, provided the journal can be read   *)
(* and written.                                                                  *)
THEOREM RefusalsAreTrue ==
    ASSUME {"storeRead", "storeWrite"} \cap AgentFaults = {}
    PROVE  SystemSpec => RefusalAfterSendIsTrue
<1>1. SystemInit => RefusalInv
  <2>1. SystemInit => WireHonest
    BY EmptySeq DEF SystemInit, AgentInit, LinkInit, WireHonest
  <2> QED  BY <2>1 DEF SystemInit, ServiceInit, RefusalInv, ReportHonest, FreeSlot, Searchers
<1>2. SystemTypes /\ RefusalInv /\ [SystemNext]_systemVars => RefusalInv'
  BY SystemStepIsAgentStep, WireHonestStep, ReportHonestStep DEF SystemTypes, RefusalInv
<1>3. SystemTypes /\ RefusalInv /\ [SystemNext]_systemVars =>
        [\A c \in Commands :
            record[c] \in {"SENT", "ACKNOWLEDGED"} /\ record'[c] \in NoPositionStates
               => broker[c] \in {"none", "refused"}]_systemVars
  <2> SUFFICES ASSUME SystemTypes, RefusalInv, SystemNext, NEW c \in Commands, Refuses(c)
               PROVE  broker[c] \in {"none", "refused"}
    BY DEF Refuses
  <2> QED  BY RefusalStep DEF Nothing, SystemTypes, AgentInv, JournalTruthful
<1>4. SystemSpec => []SystemTypes
  BY SystemTyped
<1> QED  BY <1>1, <1>2, <1>3, <1>4, PTL DEF SystemSpec, RefusalAfterSendIsTrue
=============================================================================
