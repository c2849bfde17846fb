----------------------- MODULE ExecutionServiceProofs -----------------------
(* Theorems about ExecutionService, for every set of commands, of tasks and *)
(* of orders, and for whatever the agent says.                              *)
EXTENDS ExecutionService, SequenceTheorems, TLAPS

-----------------------------------------------------------------------------
(* The transition table of a command.                                     *)

(* Every edge is between states.                                             *)
LEMMA TableTyped ==
    \A edge \in Table : edge[1] \in States /\ edge[3] \in States
<1>1. \A edge \in SendEdges : edge[1] \in States /\ edge[3] \in States
  BY DEF SendEdges, States
<1>2. \A edge \in AgentEdges : edge[1] \in States /\ edge[3] \in States
  BY DEF AgentEdges, States
<1>3. \A edge \in ReconciliationEdges : edge[1] \in States /\ edge[3] \in States
  BY DEF ReconciliationEdges, States
<1> QED  BY <1>1, <1>2, <1>3 DEF Table

(* No edge leaves a terminal state, and those that leave doubt go to the reconciliation. *)
LEMMA TableShape ==
    \A edge \in Table :
        /\ edge[1] \notin TerminalStates
        /\ edge[1] \in {"UNKNOWN", "RECONCILING"} => edge[3] \in {"RECONCILING", "RECONCILED"}
<1>1. \A edge \in SendEdges : edge[1] = "PENDING"
  BY DEF SendEdges
<1>2. \A edge \in AgentEdges : edge[1] \in {"SENT", "ACKNOWLEDGED"}
  BY DEF AgentEdges
<1>3. \A edge \in ReconciliationEdges :
          /\ edge[1] \in {"EXECUTED", "UNKNOWN", "RECONCILING"}
          /\ edge[3] \in {"RECONCILING", "RECONCILED"}
  BY DEF ReconciliationEdges
<1> QED  BY <1>1, <1>2, <1>3 DEF Table, TerminalStates

LEMMA AbsentIsNoState == Absent \notin States
BY DEF Absent, States

(* The table is the one CommandLifecycle follows.                            *)
LEMMA SameTable ==
    /\ Lifecycle!Table = Table
    /\ Lifecycle!Absent = Absent
    /\ Lifecycle!States = States
BY DEF Table, SendEdges, AgentEdges, ReconciliationEdges, Lifecycle!Table, Lifecycle!SendEdges,
       Lifecycle!AgentEdges, Lifecycle!ReconciliationEdges, Absent, Lifecycle!Absent, States, Lifecycle!States

-----------------------------------------------------------------------------
(* The lifecycle of a row, which the service is shown to implement below. *)

(* The stored state is a state of the table, or absent.                      *)
THEOREM LifecycleTyped == Lifecycle!LifecycleSpec => []Lifecycle!LifecycleTypeOK
<1>1. Lifecycle!LifecycleInit => Lifecycle!LifecycleTypeOK
  BY DEF Lifecycle!LifecycleInit, Lifecycle!LifecycleTypeOK
<1>2. Lifecycle!LifecycleTypeOK /\ [Lifecycle!LifecycleNext]_record => Lifecycle!LifecycleTypeOK'
  <2> SUFFICES ASSUME Lifecycle!LifecycleTypeOK, [Lifecycle!LifecycleNext]_record PROVE Lifecycle!LifecycleTypeOK'
    OBVIOUS
  <2>1. ASSUME NEW c \in Commands, Lifecycle!Create(c) PROVE Lifecycle!LifecycleTypeOK'
    BY <2>1, SameTable DEF Lifecycle!Create, Lifecycle!LifecycleTypeOK, States
  <2>2. ASSUME NEW c \in Commands, Lifecycle!Follow(c) PROVE Lifecycle!LifecycleTypeOK'
    BY <2>2, SameTable, TableTyped DEF Lifecycle!Follow, Lifecycle!LifecycleTypeOK
  <2>3. CASE UNCHANGED record
    BY <2>3 DEF Lifecycle!LifecycleTypeOK
  <2> QED  BY <2>1, <2>2, <2>3 DEF Lifecycle!LifecycleNext
<1> QED  BY <1>1, <1>2, PTL DEF Lifecycle!LifecycleSpec

(* Where a row may go in one step of the lifecycle.                          *)
LEMMA LifecycleMoves ==
    ASSUME Lifecycle!LifecycleTypeOK, Lifecycle!LifecycleNext, NEW c \in Commands
    PROVE  /\ record[c] \in {"UNKNOWN", "RECONCILING"} => record'[c] \in {"UNKNOWN", "RECONCILING", "RECONCILED"}
           /\ record[c] \in TerminalStates => record'[c] = record[c]
           /\ record[c] # Absent => record'[c] # Absent
<1>1. PICK d \in Commands : Lifecycle!Create(d) \/ Lifecycle!Follow(d)
  BY DEF Lifecycle!LifecycleNext
<1>2. record \in [Commands -> States \cup {Absent}]
  BY SameTable DEF Lifecycle!LifecycleTypeOK
<1>3. CASE Lifecycle!Create(d)
  <2>1. record[d] = Absent
    BY <1>3, SameTable DEF Lifecycle!Create
  <2>2. record'[c] # Absent \/ d # c
    BY <1>2, <1>3 DEF Lifecycle!Create, Absent
  <2>3. d # c => record'[c] = record[c]
    BY <1>2, <1>3 DEF Lifecycle!Create
  <2> QED  BY <2>1, <2>2, <2>3 DEF Absent, TerminalStates
<1>4. CASE Lifecycle!Follow(d)
  <2>1. PICK edge \in Table : record[d] = edge[1] /\ record' = [record EXCEPT ![d] = edge[3]]
    BY <1>4, SameTable DEF Lifecycle!Follow
  <2>2. d # c => record'[c] = record[c]
    BY <1>2, <2>1
  <2>3. d = c => record[c] = edge[1] /\ record'[c] = edge[3]
    BY <1>2, <2>1
  <2>4. edge[3] # Absent
    BY TableTyped, AbsentIsNoState
  <2> QED  BY <2>2, <2>3, <2>4, TableShape
<1> QED  BY <1>1, <1>3, <1>4

(* The only way out of UNKNOWN and RECONCILING is the reconciliation.        *)
THEOREM DoubtEndsInReconciliation == Lifecycle!LifecycleSpec => Lifecycle!OnlyReconciliationEndsDoubt
<1>1. Lifecycle!LifecycleTypeOK /\ [Lifecycle!LifecycleNext]_record =>
        [\A c \in Commands :
            record[c] \in {"UNKNOWN", "RECONCILING"}
               => record'[c] \in {"UNKNOWN", "RECONCILING", "RECONCILED"}]_record
  BY LifecycleMoves
<1> QED  BY <1>1, LifecycleTyped, PTL DEF Lifecycle!LifecycleSpec, Lifecycle!OnlyReconciliationEndsDoubt

(* A terminal state is never left, and a row never disappears.               *)
THEOREM TerminalStaysTerminal == Lifecycle!LifecycleSpec => Lifecycle!TerminalIsTerminal
<1>1. Lifecycle!TerminalStates = TerminalStates
  BY DEF TerminalStates, Lifecycle!TerminalStates
<1>2. Lifecycle!LifecycleTypeOK /\ [Lifecycle!LifecycleNext]_record =>
        [\A c \in Commands : /\ record[c] \in Lifecycle!TerminalStates => record'[c] = record[c]
                             /\ record[c] # Lifecycle!Absent => record'[c] # Lifecycle!Absent]_record
  BY <1>1, LifecycleMoves, SameTable
<1> QED  BY <1>2, LifecycleTyped, PTL DEF Lifecycle!LifecycleSpec, Lifecycle!TerminalIsTerminal

-----------------------------------------------------------------------------
(* The service.                                                           *)

(* `_move' stays where it is or follows one edge of the table.               *)
LEMMA MoveToEdge ==
    ASSUME NEW s, NEW event
    PROVE  MoveTo(s, event) = s \/ \E edge \in Table : edge[1] = s /\ edge[3] = MoveTo(s, event)
<1>1. CASE NextStates(s, event) = {}
  BY <1>1 DEF MoveTo
<1>2. CASE NextStates(s, event) # {}
  <2>1. MoveTo(s, event) \in NextStates(s, event)
    <3>1. \E next : next \in NextStates(s, event)
      BY <1>2
    <3>2. (CHOOSE next \in NextStates(s, event) : TRUE) \in NextStates(s, event)
      BY <3>1
    <3> QED  BY <1>2, <3>2 DEF MoveTo
  <2> QED  BY <2>1 DEF NextStates
<1> QED  BY <1>1, <1>2

LEMMA MoveRows ==
    ASSUME RowsTypeOK, NEW c \in Commands, NEW event, NEW said \in {"open", "executed", "nothing"},
           Move(c, event, said), content' = content
    PROVE  /\ RowsTypeOK'
           /\ record' = record \/ Lifecycle!Follow(c)
<1>1. record' = [record EXCEPT ![c] = MoveTo(record[c], event)]
  BY DEF Move
<1>2. CASE MoveTo(record[c], event) = record[c]
  <2>1. record' = record
    BY <1>1, <1>2 DEF RowsTypeOK
  <2> QED  BY <2>1 DEF RowsTypeOK, Move
<1>3. CASE \E edge \in Table : edge[1] = record[c] /\ edge[3] = MoveTo(record[c], event)
  <2>1. Lifecycle!Follow(c)
    BY <1>1, <1>3, SameTable DEF Lifecycle!Follow
  <2>2. record[c] \in States /\ MoveTo(record[c], event) \in States
    BY <1>3, TableTyped
  <2>3. Absent \notin States
    BY DEF Absent, States
  <2>4. RowsTypeOK'
    BY <1>1, <2>2, <2>3 DEF RowsTypeOK, Move
  <2> QED  BY <2>1, <2>4
<1> QED  BY <1>2, <1>3, MoveToEdge

LEMMA InsertRows ==
    ASSUME RowsTypeOK, NEW c \in Commands, NEW s \in {"PENDING", "REJECTED"}, NEW k \in Contents,
           Insert(c, s, k), outcome' = outcome
    PROVE  /\ RowsTypeOK'
           /\ record' = record \/ Lifecycle!Create(c)
<1>1. s \in States /\ Absent \notin States /\ NoContent \notin Contents
  BY ServiceAssumption DEF States, Absent
<1> QED  BY <1>1, SameTable DEF RowsTypeOK, Insert, Lifecycle!Create

LEMMA RowsKept ==
    ASSUME RowsTypeOK, UNCHANGED <<record, content, outcome>>
    PROVE  RowsTypeOK'
BY DEF RowsTypeOK

LEMMA CallersKept ==
    ASSUME CallersTypeOK, UNCHANGED callers
    PROVE  CallersTypeOK'
BY DEF CallersTypeOK

LEMMA SlotsKept ==
    ASSUME SlotsTypeOK, UNCHANGED slots
    PROVE  SlotsTypeOK'
BY DEF SlotsTypeOK

LEMMA LinkKept ==
    ASSUME LinkTypeOK, UNCHANGED wire
    PROVE  LinkTypeOK'
BY DEF LinkTypeOK, wire

(* A task goes on with its command, or is given a new one, or returns.       *)
LEMMA CallerTakes ==
    ASSUME CallersTypeOK, NEW t \in Callers,
           NEW new \in [pc : CallerPCs, cmd : Commands, content : Contents \cup {NoContent}, told : Told],
           new.pc = "validating" => new.content \in Contents,
           callers' = [callers EXCEPT ![t] = new]
    PROVE  CallersTypeOK'
BY DEF CallersTypeOK

LEMMA CallerMoves ==
    ASSUME CallersTypeOK, NEW t \in Callers, callers[t].pc # "idle",
           NEW pc \in CallerPCs \ {"validating"}, CallerGoes(t, pc)
    PROVE  CallersTypeOK'
<1> DEFINE new == [callers[t] EXCEPT !.pc = pc]
<1>1. /\ new \in [pc : CallerPCs, cmd : Commands, content : Contents \cup {NoContent}, told : Told]
      /\ new.pc # "validating"
  BY DEF CallersTypeOK
<1>2. callers' = [callers EXCEPT ![t] = new]
  BY DEF CallerGoes
<1> HIDE DEF new
<1> QED  BY <1>1, <1>2, CallerTakes

LEMMA CallerAnswered ==
    ASSUME CallersTypeOK, NEW t \in Callers, callers[t].pc # "idle", NEW told \in Told, Answer(t, told)
    PROVE  CallersTypeOK'
<1> DEFINE new == [callers[t] EXCEPT !.pc = "answered", !.told = told]
<1>1. /\ new \in [pc : CallerPCs, cmd : Commands, content : Contents \cup {NoContent}, told : Told]
      /\ new.pc # "validating"
  BY DEF CallersTypeOK, CallerPCs
<1>2. callers' = [callers EXCEPT ![t] = new]
  BY DEF Answer, CallersTypeOK
<1> HIDE DEF new
<1> QED  BY <1>1, <1>2, CallerTakes

LEMMA CallerReturns ==
    ASSUME CallersTypeOK, NEW t \in Callers, Returns(t)
    PROVE  CallersTypeOK'
BY DEF CallersTypeOK, Returns, Free, Task, CallerPCs, Told

LEMMA SlotTaken ==
    ASSUME SlotsTypeOK, NEW s \in Searchers, NEW pc \in {"reporting", "starting", "concluding"},
           NEW c \in Commands, NEW v \in ReportStatuses \cup Findings, SlotTakes(s, pc, c, v)
    PROVE  SlotsTypeOK'
BY DEF SlotsTypeOK, SlotTakes

LEMMA SlotEnded ==
    ASSUME SlotsTypeOK, NEW s \in Searchers, SlotEnds(s)
    PROVE  SlotsTypeOK'
BY DEF SlotsTypeOK, SlotEnds, FreeSlot

LEMMA EvidenceTaken ==
    ASSUME SlotsTypeOK, NEW s \in Searchers, NEW c \in Commands, InDoubt(c),
           NEW v \in ReportStatuses \cup Findings, TakesEvidence(s, c, v)
    PROVE  SlotsTypeOK'
<1>1. SlotTakes(s, "starting", c, v) \/ SlotTakes(s, "concluding", c, v)
  BY DEF TakesEvidence, InDoubt
<1> QED  BY <1>1, SlotTaken

(* The head of the queue is a message of the protocol, and its rest a queue.  *)
LEMMA ReadsType ==
    ASSUME LinkTypeOK, NEW kind, Reads(kind), UNCHANGED <<lines, late, connected>>
    PROVE  LinkTypeOK' /\ Head(toCore) \in Messages
<1>1. toCore \in Seq(Messages) /\ toCore # <<>>
  BY DEF LinkTypeOK, Reads
<1>2. Head(toCore) \in Messages /\ Tail(toCore) \in Seq(Messages)
  BY <1>1, HeadTailProperties
<1> QED  BY <1>2 DEF LinkTypeOK, Reads

LEMMA DropsType ==
    ASSUME LinkTypeOK, LinkDrops, late' = late
    PROVE  LinkTypeOK'
<1>1. PICK k \in 0..Len(toCore) : toCore' = SubSeq(toCore, 1, k)
  BY DEF LinkDrops
<1>2. toCore \in Seq(Messages) /\ Len(toCore) \in Nat
  BY LenProperties DEF LinkTypeOK
<1>3. \A i \in 1..k : toCore[i] \in Messages
  BY <1>1, <1>2, ElementOfSeq
<1>4. toCore' \in Seq(Messages)
  BY <1>1, <1>2, <1>3, SubSeqProperties
<1> QED  BY <1>4 DEF LinkTypeOK, LinkDrops

(* A message by its kind.                                                    *)
LEMMA MessageFields ==
    ASSUME NEW m \in Messages
    PROVE  /\ m.cmd \in Commands
           /\ m.kind = "ack" => m.status \in AckStatuses
           /\ m.kind = "report" => m.status \in ReportStatuses
           /\ m.kind = "reconciled" => m.status \in Findings
BY DEF Messages

Kept == ServiceTypeOK' /\ [Lifecycle!LifecycleNext]_record

(* A task's step.                                                            *)
LEMMA CallerStep ==
    ASSUME ServiceTypeOK, NEW t \in Callers, CallerSteps(t)
    PROVE  Kept
<1> USE DEF ServiceTypeOK
<1>1. ASSUME NEW c \in Commands, NEW k \in Contents, SubmitReads(t, c, k) PROVE Kept
  <2>1. CallersTypeOK'
    <3>1. \E pc \in {"validating", "answered"}, told \in Told :
             callers' = [callers EXCEPT ![t] = [pc |-> pc, cmd |-> c, content |-> k, told |-> told]]
      BY <1>1 DEF SubmitReads, Told
    <3>2. PICK pc \in {"validating", "answered"}, told \in Told :
             callers' = [callers EXCEPT ![t] = [pc |-> pc, cmd |-> c, content |-> k, told |-> told]]
      BY <3>1
    <3>3. [pc |-> pc, cmd |-> c, content |-> k, told |-> told]
             \in [pc : CallerPCs, cmd : Commands, content : Contents \cup {NoContent}, told : Told]
      BY DEF CallerPCs
    <3> QED  BY <3>2, <3>3, CallerTakes
  <2> QED  BY <1>1, <2>1, RowsKept, SlotsKept, LinkKept DEF SubmitReads, Kept
<1>2. CASE SubmitRefuses(t)
  <2>1. callers[t].cmd \in Commands /\ callers[t].content \in Contents /\ callers[t].pc # "idle"
    BY <1>2 DEF SubmitRefuses, CallerAt, CallersTypeOK
  <2>2. RowsTypeOK' /\ (record' = record \/ Lifecycle!Create(callers[t].cmd))
    BY <1>2, <2>1, InsertRows DEF SubmitRefuses
  <2>3. CallersTypeOK'
    BY <1>2, <2>1, CallerAnswered DEF SubmitRefuses, Told
  <2> QED  BY <1>2, <2>1, <2>2, <2>3, SlotsKept, LinkKept DEF SubmitRefuses, Kept, Lifecycle!LifecycleNext
<1>3. CASE SubmitInserts(t)
  <2>1. callers[t].cmd \in Commands /\ callers[t].content \in Contents /\ callers[t].pc # "idle"
    BY <1>3 DEF SubmitInserts, CallerAt, CallersTypeOK
  <2>2. RowsTypeOK' /\ (record' = record \/ Lifecycle!Create(callers[t].cmd))
    BY <1>3, <2>1, InsertRows DEF SubmitInserts
  <2>3. CallersTypeOK'
    BY <1>3, <2>1, CallerMoves, CallerReturns DEF SubmitInserts, CallerPCs
  <2> QED  BY <1>3, <2>1, <2>2, <2>3, SlotsKept, LinkKept DEF SubmitInserts, Kept, Lifecycle!LifecycleNext
<1>4. CASE SubmitLosesRace(t) \/ Forgets(t) \/ CallerFails(t)
  <2>1. CallersTypeOK'
    BY <1>4, CallerAnswered, CallerReturns DEF SubmitLosesRace, Forgets, CallerFails, CallerAt, Told
  <2> QED  BY <1>4, <2>1, RowsKept, SlotsKept, LinkKept DEF SubmitLosesRace, Forgets, CallerFails, Kept
<1>5. ASSUME NEW c \in Commands, ConfirmReads(t, c) \/ CancelReads(t, c) PROVE Kept
  <2>1. CallersTypeOK'
    <3>1. \E pc \in {"expiring", "dispatching", "withdrawing"} :
             callers' = [callers EXCEPT ![t] = Task(pc, c)]
      BY <1>5 DEF ConfirmReads, CancelReads
    <3>2. PICK pc \in {"expiring", "dispatching", "withdrawing"} :
             callers' = [callers EXCEPT ![t] = Task(pc, c)]
      BY <3>1
    <3>3. /\ Task(pc, c) \in [pc : CallerPCs, cmd : Commands, content : Contents \cup {NoContent}, told : Told]
          /\ Task(pc, c).pc # "validating"
      BY DEF Task, CallerPCs, Told
    <3> QED  BY <3>2, <3>3, CallerTakes
  <2> QED  BY <1>5, <2>1, RowsKept, SlotsKept, LinkKept DEF ConfirmReads, CancelReads, Kept
<1>6. CASE Withdraws(t) \/ AfterSend(t)
  <2>1. callers[t].cmd \in Commands
    BY <1>6 DEF Withdraws, AfterSend, CallerAt, CallersTypeOK
  <2>2. \E event : Move(callers[t].cmd, event, "open")
    BY <1>6 DEF Withdraws, AfterSend
  <2>3. RowsTypeOK' /\ (record' = record \/ Lifecycle!Follow(callers[t].cmd))
    BY <1>6, <2>1, <2>2, MoveRows DEF Withdraws, AfterSend
  <2>4. CallersTypeOK'
    BY <1>6, CallerReturns DEF Withdraws, AfterSend
  <2> QED  BY <1>6, <2>1, <2>3, <2>4, SlotsKept, LinkKept DEF Withdraws, AfterSend, Kept, Lifecycle!LifecycleNext
<1>7. CASE DispatchesLocally(t) \/ SendsIntoTheVoid(t) \/ CannotSend(t)
  <2>1. CallersTypeOK'
    BY <1>7, CallerMoves DEF DispatchesLocally, SendsIntoTheVoid, CannotSend, CallerAt, CallerPCs
  <2> QED  BY <1>7, <2>1, RowsKept, SlotsKept, LinkKept DEF DispatchesLocally, SendsIntoTheVoid, CannotSend, Kept
<1>8. CASE SendsLine(t) \/ DrainTimesOut(t)
  <2>1. CallersTypeOK'
    BY <1>8, CallerMoves DEF SendsLine, DrainTimesOut, CallerAt, CallerPCs
  <2>2. LinkTypeOK'
    BY <1>8, LinkAssumption DEF SendsLine, DrainTimesOut, LinkTypeOK
  <2> QED  BY <1>8, <2>1, <2>2, RowsKept, SlotsKept DEF SendsLine, DrainTimesOut, Kept
<1> QED  BY <1>1, <1>2, <1>3, <1>4, <1>5, <1>6, <1>7, <1>8 DEF CallerSteps

(* The agent's messages and the settling of doubt.                           *)
LEMMA MessageStep ==
    ASSUME ServiceTypeOK, AgentMessageSteps \/ SettlingSteps
    PROVE  Kept
<1> USE DEF ServiceTypeOK
<1>1. CASE OnAck
  <2> DEFINE m == Head(toCore)
  <2>1. LinkTypeOK' /\ m \in Messages /\ m.kind = "ack"
    BY <1>1, ReadsType DEF OnAck, Reads
  <2>2. m.cmd \in Commands /\ m.status \in AckStatuses
    BY <2>1, MessageFields
  <2>3. \/ UNCHANGED <<record, outcome>>
        \/ Move(m.cmd, AckEvents[m.status], "open")
    BY <1>1 DEF OnAck
  <2>4. RowsTypeOK' /\ (record' = record \/ Lifecycle!Follow(m.cmd))
    BY <1>1, <2>2, <2>3, MoveRows, RowsKept DEF OnAck
  <2> QED  BY <1>1, <2>1, <2>2, <2>4, CallersKept, SlotsKept DEF OnAck, Kept, Lifecycle!LifecycleNext
<1>2. CASE OnReportReads
  <2> DEFINE m == Head(toCore)
  <2>1. LinkTypeOK' /\ m \in Messages /\ m.kind = "report"
    BY <1>2, ReadsType DEF OnReportReads, Reads
  <2>2. m.cmd \in Commands /\ m.status \in ReportStatuses
    BY <2>1, MessageFields
  <2>3. SlotsTypeOK'
    <3>1. CASE InDoubt(m.cmd)
      <4>1. \E v \in {"executed", "rejected"} : TakesEvidence("agent", m.cmd, v)
        BY <1>2, <3>1 DEF OnReportReads, InDoubt, Absent
      <4> QED  BY <2>2, <3>1, <4>1, EvidenceTaken DEF Searchers, Findings
    <3>2. CASE ~InDoubt(m.cmd)
      <4>1. UNCHANGED slots \/ SlotTakes("agent", "reporting", m.cmd, m.status)
        BY <1>2, <3>2 DEF OnReportReads
      <4> QED  BY <2>2, <4>1, SlotTaken, SlotsKept DEF Searchers
    <3> QED  BY <3>1, <3>2
  <2> QED  BY <1>2, <2>1, <2>3, RowsKept, CallersKept DEF OnReportReads, Kept
<1>3. CASE OnReportMoves
  <2>1. slots["agent"].cmd \in Commands
    BY <1>3 DEF OnReportMoves, SlotAt, SlotsTypeOK, Searchers
  <2>2. \E event : \E said \in {"open", "executed", "nothing"} : Move(slots["agent"].cmd, event, said)
    <3>1. ReportEvent(slots["agent"].verdict)[2] \in {"open", "executed", "nothing"}
      BY DEF ReportEvent
    <3> QED  BY <1>3, <3>1 DEF OnReportMoves
  <2>3. RowsTypeOK' /\ (record' = record \/ Lifecycle!Follow(slots["agent"].cmd))
    BY <1>3, <2>1, <2>2, MoveRows DEF OnReportMoves
  <2>4. SlotsTypeOK'
    BY <1>3, SlotEnded DEF OnReportMoves, Searchers
  <2> QED  BY <1>3, <2>1, <2>3, <2>4, CallersKept, LinkKept DEF OnReportMoves, Kept, Lifecycle!LifecycleNext
<1>4. CASE OnReconciled
  <2> DEFINE m == Head(toCore)
  <2>1. LinkTypeOK' /\ m \in Messages /\ m.kind = "reconciled"
    BY <1>4, ReadsType DEF OnReconciled, Reads
  <2>2. m.cmd \in Commands /\ m.status \in Findings
    BY <2>1, MessageFields
  <2>3. SlotsTypeOK'
    BY <1>4, <2>2, EvidenceTaken, SlotsKept DEF OnReconciled, Searchers
  <2> QED  BY <1>4, <2>1, <2>3, RowsKept, CallersKept DEF OnReconciled, Kept
<1>5. CASE MessageDropped
  <2>1. LinkTypeOK'
    BY <1>5, ReadsType DEF MessageDropped
  <2> QED  BY <1>5, <2>1, RowsKept, CallersKept, SlotsKept DEF MessageDropped, Kept
<1>6. ASSUME NEW s \in Searchers, StartsReconciling(s) PROVE Kept
  <2>1. slots[s].cmd \in Commands
    BY <1>6 DEF StartsReconciling, SlotAt, SlotsTypeOK
  <2>2. RowsTypeOK' /\ (record' = record \/ Lifecycle!Follow(slots[s].cmd))
    BY <1>6, <2>1, MoveRows DEF StartsReconciling
  <2>3. SlotsTypeOK'
    BY <1>6, <2>1 DEF StartsReconciling, SlotsTypeOK
  <2> QED  BY <1>6, <2>1, <2>2, <2>3, CallersKept, LinkKept DEF StartsReconciling, Kept, Lifecycle!LifecycleNext
<1>7. ASSUME NEW s \in Searchers, Concludes(s) PROVE Kept
  <2>1. slots[s].cmd \in Commands
    BY <1>7 DEF Concludes, SlotAt, SlotsTypeOK
  <2>2. \E event : \E said \in {"open", "executed", "nothing"} : Move(slots[s].cmd, event, said)
    <3>1. CASE slots[s].verdict = "not_found"
      BY <1>7, <3>1 DEF Concludes
    <3>2. CASE slots[s].verdict = "executed"
      BY <1>7, <3>2 DEF Concludes
    <3>3. CASE slots[s].verdict \notin {"not_found", "executed"}
      BY <1>7, <3>3 DEF Concludes
    <3> QED  BY <3>1, <3>2, <3>3
  <2>3. RowsTypeOK' /\ (record' = record \/ Lifecycle!Follow(slots[s].cmd))
    BY <1>7, <2>1, <2>2, MoveRows DEF Concludes
  <2> QED  BY <1>7, <2>1, <2>3, SlotEnded, CallersKept, LinkKept DEF Concludes, Kept, Lifecycle!LifecycleNext
<1>8. ASSUME NEW s \in Searchers, SlotFails(s) PROVE Kept
  BY <1>8, SlotEnded, RowsKept, CallersKept, LinkKept DEF SlotFails, Kept
<1> QED  BY <1>1, <1>2, <1>3, <1>4, <1>5, <1>6, <1>7, <1>8 DEF AgentMessageSteps, SettlingSteps

(* The sweep, the crash, the recovery.                                       *)
LEMMA HousekeepingStep ==
    ASSUME ServiceTypeOK, HousekeepingSteps
    PROVE  Kept
<1> USE DEF ServiceTypeOK
<1>1. ASSUME NEW c \in Commands, SweepExpires(c) \/ SweepDoubts(c) \/ RecoverOne(c) PROVE Kept
  <2>1. \E event : Move(c, event, "open")
    BY <1>1 DEF SweepExpires, SweepDoubts, RecoverOne
  <2>2. UNCHANGED <<wire, content, callers, slots, core>>
    BY <1>1 DEF SweepExpires, SweepDoubts, RecoverOne
  <2>3. RowsTypeOK' /\ (record' = record \/ Lifecycle!Follow(c))
    BY <2>1, <2>2, MoveRows
  <2> QED  BY <2>2, <2>3, CallersKept, SlotsKept, LinkKept DEF Kept, Lifecycle!LifecycleNext
<1>2. CASE CoreCrash
  <2>1. LinkTypeOK'
    BY <1>2, DropsType DEF CoreCrash, LinkTypeOK
  <2>2. CallersTypeOK' /\ SlotsTypeOK'
    BY <1>2 DEF CoreCrash, CallersTypeOK, SlotsTypeOK, Free, Task, FreeSlot, CallerPCs, Told
  <2> QED  BY <1>2, <2>1, <2>2, RowsKept DEF CoreCrash, Kept
<1>3. CASE CoreStarts \/ Recovered
  BY <1>3, RowsKept, CallersKept, SlotsKept, LinkKept DEF CoreStarts, Recovered, Kept
<1> QED  BY <1>1, <1>2, <1>3 DEF HousekeepingSteps

(* The environment, and what the core sees of the broker.                    *)
LEMMA EnvironmentStep ==
    ASSUME ServiceTypeOK, AnyAgent
    PROVE  Kept
<1> USE DEF ServiceTypeOK
<1>1. ASSUME NEW m \in Messages, AgentSays(m) PROVE Kept
  <2>1. LinkTypeOK'
    BY <1>1, AppendProperties DEF AgentSays, LinkTypeOK
  <2> QED  BY <1>1, <2>1, RowsKept, CallersKept, SlotsKept DEF AgentSays, Kept
<1>2. ASSUME NEW c \in Commands, AgentTakes(c) \/ TimePasses(c) PROVE Kept
  <2>1. LinkTypeOK'
    BY <1>2, LinkAssumption DEF AgentTakes, TimePasses, LinkTypeOK
  <2> QED  BY <1>2, <2>1, RowsKept, CallersKept, SlotsKept DEF AgentTakes, TimePasses, Kept
<1>3. ASSUME NEW c \in Commands, ConfirmsPosition(c) PROVE Kept
  <2>1. RowsTypeOK' /\ (record' = record \/ Lifecycle!Follow(c))
    BY <1>3, MoveRows DEF ConfirmsPosition
  <2> QED  BY <1>3, <2>1, CallersKept, SlotsKept, LinkKept DEF ConfirmsPosition, Kept, Lifecycle!LifecycleNext
<1>4. ASSUME NEW c \in Commands, NEW found \in Findings, CoreSearches(c, found) PROVE Kept
  <2>1. SlotsTypeOK'
    BY <1>4, EvidenceTaken DEF CoreSearches, Searchers
  <2> QED  BY <1>4, <2>1, RowsKept, CallersKept, LinkKept DEF CoreSearches, Kept
<1>5. CASE LinkComesAndGoes
  <2>1. LinkTypeOK'
    BY <1>5, DropsType DEF LinkComesAndGoes, LinkTypeOK
  <2> QED  BY <1>5, <2>1, RowsKept, CallersKept, SlotsKept DEF LinkComesAndGoes, Kept
<1> QED  BY <1>1, <1>2, <1>3, <1>4, <1>5 DEF AnyAgent

LEMMA ServiceTypedInit == ServiceInit => ServiceTypeOK
<1> SUFFICES ASSUME ServiceInit PROVE ServiceTypeOK
  OBVIOUS
<1>1. LinkTypeOK
  <2>1. <<>> \in Seq(Messages)
    BY EmptySeq
  <2>2. 0 \in 0..MaxLines
    BY LinkAssumption
  <2> QED  BY <2>1, <2>2 DEF ServiceInit, LinkInit, LinkTypeOK
<1>2. RowsTypeOK
  BY DEF ServiceInit, RowsTypeOK
<1>3. CallersTypeOK
  BY DEF ServiceInit, CallersTypeOK, Free, Task, CallerPCs, Told
<1>4. SlotsTypeOK
  BY DEF ServiceInit, SlotsTypeOK, FreeSlot
<1> QED  BY <1>1, <1>2, <1>3, <1>4 DEF ServiceTypeOK, ServiceInit

LEMMA ServiceStep == ServiceTypeOK /\ [ServiceNext]_serviceVars => Kept
<1> SUFFICES ASSUME ServiceTypeOK, [ServiceNext]_serviceVars PROVE Kept
  OBVIOUS
<1>1. CASE UNCHANGED serviceVars
  BY <1>1 DEF serviceVars, wire, Kept, ServiceTypeOK, LinkTypeOK, RowsTypeOK, CallersTypeOK, SlotsTypeOK
<1> QED  BY <1>1, CallerStep, MessageStep, HousekeepingStep, EnvironmentStep DEF ServiceNext, ServiceSteps

(* The types of the core's state, under any agent and any interleaving.      *)
THEOREM ServiceTyped == ServiceSpec => []ServiceTypeOK
<1>1. ServiceTypeOK /\ [ServiceNext]_serviceVars => ServiceTypeOK'
  BY ServiceStep DEF Kept
<1> QED  BY <1>1, ServiceTypedInit, PTL DEF ServiceSpec

(* The stored row of a command follows the lifecycle, one edge at a time,    *)
(* whatever the agent says, however the tasks interleave, wherever it dies.  *)
THEOREM ServiceFollowsLifecycle == ServiceSpec => FollowsLifecycle
<1>1. ServiceInit => Lifecycle!LifecycleInit
  BY SameTable DEF ServiceInit, Lifecycle!LifecycleInit
<1>2. ServiceTypeOK /\ [ServiceNext]_serviceVars => [Lifecycle!LifecycleNext]_record
  BY ServiceStep DEF Kept
<1> QED  BY <1>1, <1>2, ServiceTyped, PTL DEF ServiceSpec, FollowsLifecycle, Lifecycle!LifecycleSpec

(* What the core lost sight of is closed by evidence only: no event of the   *)
(* agent, no timeout and no restart takes a row out of doubt another way.    *)
THEOREM DoubtIsClosedByEvidence == ServiceSpec => DoubtWaitsForEvidence
BY ServiceFollowsLifecycle, DoubtEndsInReconciliation DEF FollowsLifecycle, DoubtWaitsForEvidence

(* What ended stays ended, and no row disappears.                            *)
THEOREM EndedRowsStay == ServiceSpec => EndedStaysEnded
BY ServiceFollowsLifecycle, TerminalStaysTerminal DEF FollowsLifecycle, EndedStaysEnded

(* Only an insertion where there is no row writes an order.                  *)
LEMMA OrdersStep ==
    ASSUME ServiceTypeOK, ServiceNext, NEW c \in Commands, content[c] # NoContent
    PROVE  content'[c] = content[c]
<1>1. ASSUME NEW t \in Callers, SubmitRefuses(t) \/ SubmitInserts(t) PROVE content'[c] = content[c]
  <2>1. PICK d, s, k : Insert(d, s, k)
    BY <1>1 DEF SubmitRefuses, SubmitInserts
  <2>2. content \in [Commands -> Contents \cup {NoContent}] /\ (content[c] # NoContent => record[c] # Absent)
    BY DEF ServiceTypeOK, RowsTypeOK
  <2>3. CASE record[d] = Absent
    <3>1. content' = [content EXCEPT ![d] = k] /\ d # c
      BY <2>1, <2>2, <2>3 DEF Insert
    <3> QED  BY <2>2, <3>1
  <2>4. CASE record[d] # Absent
    BY <2>1, <2>4 DEF Insert
  <2> QED  BY <2>3, <2>4
<1>2. ASSUME NEW t \in Callers, CallerSteps(t) PROVE content'[c] = content[c]
  BY <1>1, <1>2 DEF CallerSteps, SubmitReads, SubmitLosesRace, Forgets, ConfirmReads, CancelReads, Withdraws,
                    DispatchesLocally, SendsLine, SendsIntoTheVoid, CannotSend, DrainTimesOut, AfterSend, CallerFails
<1>3. CASE AgentMessageSteps \/ SettlingSteps
  BY <1>3 DEF AgentMessageSteps, SettlingSteps, OnAck, OnReportReads, OnReportMoves, OnReconciled, MessageDropped,
              StartsReconciling, Concludes, SlotFails
<1>4. CASE HousekeepingSteps
  BY <1>4 DEF HousekeepingSteps, SweepExpires, SweepDoubts, RecoverOne, CoreCrash, CoreStarts, Recovered
<1>5. CASE AnyAgent
  BY <1>5 DEF AnyAgent, AgentSays, AgentTakes, TimePasses, ConfirmsPosition, CoreSearches, LinkComesAndGoes
<1> QED  BY <1>2, <1>3, <1>4, <1>5 DEF ServiceNext, ServiceSteps

(* The order a row stands for never changes, whichever task of several that  *)
(* used its commandId created it, and a row has one.                         *)
THEOREM OneOrderStands == ServiceSpec => OneOrderPerId
<1>1. ServiceTypeOK /\ [ServiceNext]_serviceVars =>
        [\A c \in Commands :
            /\ content[c] # NoContent => content'[c] = content[c]
            /\ record'[c] # Absent => content'[c] # NoContent]_serviceVars
  <2> SUFFICES ASSUME ServiceTypeOK, ServiceNext, NEW c \in Commands
               PROVE  /\ content[c] # NoContent => content'[c] = content[c]
                      /\ record'[c] # Absent => content'[c] # NoContent
    OBVIOUS
  <2>1. RowsTypeOK'
    BY ServiceStep DEF Kept, ServiceTypeOK
  <2> QED  BY <2>1, OrdersStep DEF RowsTypeOK
<1> QED  BY <1>1, ServiceTyped, PTL DEF ServiceSpec, OneOrderPerId

(* What `_move' makes of a state: the states it can make, by event.          *)
LEMMA MoveMakes ==
    ASSUME NEW s, NEW event, MoveTo(s, event) # s
    PROVE  /\ MoveTo(s, event) = "EXECUTED" => event = "REPORT_EXECUTED"
           /\ event = "REPORT_EXECUTED" => MoveTo(s, event) = "EXECUTED"
           /\ MoveTo(s, event) = "RECONCILED" <=> event \in {"RECONCILED", "POSITION_CONFIRMED"}
           /\ event = "POSITION_CONFIRMED" => s = "EXECUTED"
           /\ event = "RECONCILED" => s = "RECONCILING"
           /\ MoveTo(s, event) = "RECONCILING" => event = "RECONCILIATION_STARTED"
           /\ event = "RECONCILIATION_STARTED" => s \in {"EXECUTED", "UNKNOWN"} /\ MoveTo(s, event) = "RECONCILING"
           /\ MoveTo(s, event) \in {"SENT", "ACKNOWLEDGED", "UNKNOWN"} => s \in {"PENDING", "SENT", "ACKNOWLEDGED"}
           /\ MoveTo(s, event) \notin {"PENDING", Absent}
<1>1. NextStates(s, event) # {}
  BY DEF MoveTo
<1>2. MoveTo(s, event) \in NextStates(s, event)
  BY <1>1 DEF MoveTo
<1>3. PICK edge \in Table : edge[1] = s /\ edge[2] = event /\ edge[3] = MoveTo(s, event)
  BY <1>2 DEF NextStates
<1>4. CASE edge \in SendEdges
  BY <1>3, <1>4 DEF SendEdges, Absent
<1>5. CASE edge \in AgentEdges
  BY <1>3, <1>5 DEF AgentEdges, Absent
<1>6. CASE edge \in ReconciliationEdges
  BY <1>3, <1>6 DEF ReconciliationEdges, Absent
<1> QED  BY <1>3, <1>4, <1>5, <1>6 DEF Table

(* The one event that leaves a state where it is.                            *)
LEMMA MoveStays ==
    ASSUME NEW s, NEW event, MoveTo(s, event) = s, NextStates(s, event) # {}
    PROVE  event = "RECONCILIATION_PENDING"
<1>1. MoveTo(s, event) \in NextStates(s, event)
  BY DEF MoveTo
<1>2. PICK edge \in Table : edge[1] = s /\ edge[2] = event /\ edge[3] = s
  BY <1>1 DEF NextStates
<1>3. edge \notin SendEdges
  BY <1>2 DEF SendEdges
<1>4. edge \notin AgentEdges
  BY <1>2 DEF AgentEdges
<1> QED  BY <1>2, <1>3, <1>4 DEF Table, ReconciliationEdges

(* The strengthening of SaysHowItEnded: a row that was not sent says nothing  *)
(* either, and a search under way is of a row in doubt, or that left it.       *)
Unsaid == \A c \in Commands : record[c] \in {Absent, "PENDING"} => outcome[c] = "open"
SearchesDoubt ==
    \A s \in Searchers :
        /\ slots[s].pc = "starting" => record[slots[s].cmd] \in {"UNKNOWN", "RECONCILING", "RECONCILED"}
        /\ slots[s].pc = "concluding" => record[slots[s].cmd] \in {"RECONCILING", "RECONCILED"}
EndsInv == ServiceTypeOK /\ SaysHowItEnded /\ Unsaid /\ SearchesDoubt

(* What a row says, given the event that moves it.                           *)
Says(event, said) ==
    /\ event = "REPORT_EXECUTED" => said = "executed"
    /\ event = "RECONCILED" => said \in {"executed", "nothing"}
    /\ event \notin {"REPORT_EXECUTED", "RECONCILED"} => said = "open"

LEMMA MoveSays ==
    ASSUME ServiceTypeOK, SaysHowItEnded, Unsaid, NEW c \in Commands, NEW event, NEW said,
           Move(c, event, said), Says(event, said),
           event = "RECONCILIATION_STARTED" => record[c] # "EXECUTED"
    PROVE  SaysHowItEnded' /\ Unsaid'
<1> DEFINE next == MoveTo(record[c], event)
<1>1. /\ record \in [Commands -> States \cup {Absent}] /\ DOMAIN outcome = Commands
      /\ record' = [record EXCEPT ![c] = next]
  BY DEF ServiceTypeOK, RowsTypeOK, Move
<1>2. \A d \in Commands \ {c} : record'[d] = record[d] /\ outcome'[d] = outcome[d]
  BY <1>1 DEF Move
<1>3. record'[c] = next
  BY <1>1
<1>4. CASE next = record[c]
  <2>1. outcome' = outcome
    BY <1>4, MoveStays DEF Move, Says
  <2>2. record' = record
    BY <1>1, <1>4
  <2> QED  BY <2>1, <2>2 DEF SaysHowItEnded, Unsaid
<1>5. CASE next # record[c]
  <2>1. outcome'[c] = IF said # "open" THEN said ELSE outcome[c]
    BY <1>1, <1>5 DEF Move, MoveTo
  <2>2. next = "EXECUTED" => outcome'[c] = "executed"
    BY <1>5, <2>1, MoveMakes DEF Says
  <2>3. next = "RECONCILED" => outcome'[c] # "open"
    <3>1. CASE event = "RECONCILED"
      BY <2>1, <3>1 DEF Says
    <3>2. CASE event = "POSITION_CONFIRMED"
      <4>1. record[c] = "EXECUTED" /\ said = "open"
        BY <1>5, <3>2, MoveMakes DEF Says
      <4> QED  BY <2>1, <4>1 DEF SaysHowItEnded
    <3> QED  BY <1>5, <3>1, <3>2, MoveMakes
  <2>4. next \in InDoubtStates => outcome'[c] = "open"
    <3>1. CASE next = "RECONCILING"
      <4>1. event = "RECONCILIATION_STARTED" /\ record[c] = "UNKNOWN"
        BY <1>5, <3>1, MoveMakes
      <4> QED  BY <2>1, <4>1 DEF Says, SaysHowItEnded, InDoubtStates
    <3>2. CASE next \in {"SENT", "ACKNOWLEDGED", "UNKNOWN"}
      <4>1. record[c] \in {"PENDING", "SENT", "ACKNOWLEDGED"} /\ event \notin {"REPORT_EXECUTED", "RECONCILED"}
        BY <1>5, <3>2, MoveMakes
      <4> QED  BY <2>1, <4>1 DEF Says, SaysHowItEnded, Unsaid, InDoubtStates
    <3> QED  BY <3>1, <3>2 DEF InDoubtStates
  <2>5. next \notin {"PENDING", Absent}
    BY <1>5, MoveMakes
  <2> QED  BY <1>2, <1>3, <2>2, <2>3, <2>4, <2>5 DEF SaysHowItEnded, Unsaid
<1> QED  BY <1>4, <1>5

LEMMA RowsSay ==
    ASSUME SaysHowItEnded, Unsaid, UNCHANGED <<record, outcome>>
    PROVE  SaysHowItEnded' /\ Unsaid'
BY DEF SaysHowItEnded, Unsaid

LEMMA InsertSays ==
    ASSUME ServiceTypeOK, SaysHowItEnded, Unsaid, NEW c \in Commands, NEW s \in {"PENDING", "REJECTED"}, NEW k,
           Insert(c, s, k), UNCHANGED outcome
    PROVE  SaysHowItEnded' /\ Unsaid'
<1>1. record \in [Commands -> States \cup {Absent}]
  BY DEF ServiceTypeOK, RowsTypeOK
<1>2. CASE record[c] = Absent
  BY <1>1, <1>2 DEF Insert, SaysHowItEnded, Unsaid, InDoubtStates, Absent
<1>3. CASE record[c] # Absent
  BY <1>3, RowsSay DEF Insert
<1> QED  BY <1>2, <1>3

(* Every step leaves what the rows say true.                                 *)
LEMMA EndsSaid ==
    ASSUME EndsInv, ServiceNext
    PROVE  SaysHowItEnded' /\ Unsaid'
<1> USE DEF EndsInv
<1>1. ASSUME NEW t \in Callers, CallerSteps(t) PROVE SaysHowItEnded' /\ Unsaid'
  <2>1. CASE SubmitRefuses(t) \/ SubmitInserts(t)
    <3>1. callers[t].cmd \in Commands
      BY <2>1 DEF SubmitRefuses, SubmitInserts, CallerAt, ServiceTypeOK, CallersTypeOK
    <3> QED  BY <2>1, <3>1, InsertSays DEF SubmitRefuses, SubmitInserts
  <2>2. CASE Withdraws(t) \/ AfterSend(t)
    <3>1. callers[t].cmd \in Commands
      BY <2>2 DEF Withdraws, AfterSend, CallerAt, ServiceTypeOK, CallersTypeOK
    <3>2. \E event \in {"CANCEL_REQUESTED", "EXPIRED", "SENT", "SEND_FAILED", "SIMULATED_LOCALLY"} :
             Move(callers[t].cmd, event, "open")
      BY <2>2 DEF Withdraws, AfterSend
    <3> QED  BY <3>1, <3>2, MoveSays DEF Says
  <2> QED  BY <1>1, <2>1, <2>2, RowsSay
           DEF CallerSteps, SubmitReads, SubmitLosesRace, Forgets, ConfirmReads, CancelReads, DispatchesLocally,
               SendsLine, SendsIntoTheVoid, CannotSend, DrainTimesOut, CallerFails
<1>2. CASE OnAck
  <2> DEFINE m == Head(toCore)
  <2>1. m \in Messages /\ m.kind = "ack"
    BY <1>2, ReadsType DEF OnAck, Reads, ServiceTypeOK
  <2>2. m.cmd \in Commands /\ m.status \in AckStatuses
    BY <2>1, MessageFields
  <2>3. \/ UNCHANGED <<record, outcome>>
        \/ m.status # "DUPLICATE" /\ Move(m.cmd, AckEvents[m.status], "open")
    BY <1>2 DEF OnAck
  <2>4. m.status # "DUPLICATE" => AckEvents[m.status] \in {"ACK_ACCEPTED", "ACK_REJECTED", "ACK_EXPIRED"}
    BY <2>2 DEF AckEvents, AckStatuses
  <2> QED  BY <2>2, <2>3, <2>4, MoveSays, RowsSay DEF Says
<1>3. CASE OnReportMoves
  <2> DEFINE event == ReportEvent(slots["agent"].verdict)
  <2>1. slots["agent"].cmd \in Commands
    BY <1>3 DEF OnReportMoves, SlotAt, ServiceTypeOK, SlotsTypeOK, Searchers
  <2>2. Says(event[1], event[2]) /\ event[1] # "RECONCILIATION_STARTED"
    BY DEF ReportEvent, Says
  <2> QED  BY <1>3, <2>1, <2>2, MoveSays DEF OnReportMoves
<1>4. ASSUME NEW s \in Searchers, StartsReconciling(s) PROVE SaysHowItEnded' /\ Unsaid'
  <2>1. slots[s].cmd \in Commands
    BY <1>4 DEF StartsReconciling, SlotAt, ServiceTypeOK, SlotsTypeOK
  <2>2. record[slots[s].cmd] # "EXECUTED"
    BY <1>4 DEF StartsReconciling, SlotAt, SearchesDoubt
  <2> QED  BY <1>4, <2>1, <2>2, MoveSays DEF StartsReconciling, Says
<1>5. ASSUME NEW s \in Searchers, Concludes(s) PROVE SaysHowItEnded' /\ Unsaid'
  <2>1. slots[s].cmd \in Commands
    BY <1>5 DEF Concludes, SlotAt, ServiceTypeOK, SlotsTypeOK
  <2>2. \/ Move(slots[s].cmd, "RECONCILIATION_PENDING", "open")
        \/ Move(slots[s].cmd, "RECONCILED", "executed")
        \/ Move(slots[s].cmd, "RECONCILED", "nothing")
    BY <1>5 DEF Concludes
  <2> QED  BY <2>1, <2>2, MoveSays DEF Says
<1>6. CASE OnReportReads \/ OnReconciled \/ MessageDropped \/ \E s \in Searchers : SlotFails(s)
  BY <1>6, RowsSay DEF OnReportReads, OnReconciled, MessageDropped, SlotFails
<1>7. CASE HousekeepingSteps
  <2>1. ASSUME NEW c \in Commands, SweepExpires(c) \/ SweepDoubts(c) \/ RecoverOne(c)
        PROVE  SaysHowItEnded' /\ Unsaid'
    <3>1. Move(c, "EXPIRED", "open") \/ Move(c, "LINK_LOST", "open")
      BY <2>1 DEF SweepExpires, SweepDoubts, RecoverOne
    <3> QED  BY <3>1, MoveSays DEF Says
  <2> QED  BY <1>7, <2>1, RowsSay DEF HousekeepingSteps, CoreCrash, CoreStarts, Recovered
<1>8. CASE AnyAgent
  <2>1. ASSUME NEW c \in Commands, ConfirmsPosition(c) PROVE SaysHowItEnded' /\ Unsaid'
    BY <2>1, MoveSays DEF ConfirmsPosition, Says
  <2> QED  BY <1>8, <2>1, RowsSay
           DEF AnyAgent, AgentSays, AgentTakes, TimePasses, CoreSearches, LinkComesAndGoes
<1> QED  BY <1>1, <1>2, <1>3, <1>4, <1>5, <1>6, <1>7, <1>8 DEF ServiceNext, ServiceSteps, AgentMessageSteps,
                                                               SettlingSteps

(* A row in doubt stays so, or is reconciled; one being reconciled does not go back. *)
LEMMA DoubtLasts ==
    ASSUME ServiceTypeOK, ServiceNext, NEW c \in Commands
    PROVE  /\ record[c] \in {"UNKNOWN", "RECONCILING", "RECONCILED"}
                  => record'[c] \in {"UNKNOWN", "RECONCILING", "RECONCILED"}
           /\ record[c] \in {"RECONCILING", "RECONCILED"} => record'[c] \in {"RECONCILING", "RECONCILED"}
<1>1. RowsTypeOK /\ [Lifecycle!LifecycleNext]_record
  BY ServiceStep DEF Kept, ServiceTypeOK
<1>2. CASE UNCHANGED record
  BY <1>2
<1>3. ASSUME NEW d \in Commands, Lifecycle!Create(d) PROVE record'[c] = record[c] \/ record[c] = Absent
  BY <1>1, <1>3, SameTable DEF Lifecycle!Create, RowsTypeOK
<1>4. ASSUME NEW d \in Commands, Lifecycle!Follow(d)
      PROVE  record'[c] = record[c] \/ \E edge \in Table : record[c] = edge[1] /\ record'[c] = edge[3]
  BY <1>1, <1>4, SameTable DEF Lifecycle!Follow, RowsTypeOK
<1>5. "RECONCILED" \in TerminalStates
  BY DEF TerminalStates
<1> QED  BY <1>1, <1>2, <1>3, <1>4, <1>5, TableShape DEF Lifecycle!LifecycleNext, Absent

LEMMA SearchesKept ==
    ASSUME EndsInv, ServiceNext, UNCHANGED slots
    PROVE  SearchesDoubt'
BY DoubtLasts DEF EndsInv, SearchesDoubt, ServiceTypeOK, SlotsTypeOK

LEMMA SearchesTaken ==
    ASSUME EndsInv, NEW s \in Searchers, NEW pc, NEW c \in Commands, NEW v, SlotTakes(s, pc, c, v), UNCHANGED record,
           pc = "starting" => record[c] \in {"UNKNOWN", "RECONCILING", "RECONCILED"},
           pc = "concluding" => record[c] \in {"RECONCILING", "RECONCILED"}
    PROVE  SearchesDoubt'
BY DEF EndsInv, SearchesDoubt, ServiceTypeOK, SlotsTypeOK, SlotTakes

LEMMA SearchesEnded ==
    ASSUME EndsInv, ServiceNext, NEW s \in Searchers, SlotEnds(s)
    PROVE  SearchesDoubt'
BY DoubtLasts DEF EndsInv, SearchesDoubt, ServiceTypeOK, SlotsTypeOK, SlotEnds, FreeSlot

LEMMA EvidenceDoubts ==
    ASSUME EndsInv, NEW s \in Searchers, NEW c \in Commands, InDoubt(c), NEW v, TakesEvidence(s, c, v), UNCHANGED record
    PROVE  SearchesDoubt'
<1>1. \/ record[c] = "UNKNOWN" /\ SlotTakes(s, "starting", c, v)
      \/ record[c] = "RECONCILING" /\ SlotTakes(s, "concluding", c, v)
  BY DEF TakesEvidence, InDoubt
<1> QED  BY <1>1, SearchesTaken

(* Every step leaves the searches on rows in doubt, or that left it.          *)
LEMMA SearchesStep ==
    ASSUME EndsInv, ServiceNext
    PROVE  SearchesDoubt'
<1>1. CASE OnReportReads
  <2> DEFINE m == Head(toCore)
  <2>1. m.cmd \in Commands
    BY <1>1, ReadsType, MessageFields DEF OnReportReads, Reads, EndsInv, ServiceTypeOK
  <2>2. CASE InDoubt(m.cmd)
    <3>1. \E v \in {"executed", "rejected"} : TakesEvidence("agent", m.cmd, v)
      BY <1>1, <2>2 DEF OnReportReads, InDoubt, Absent
    <3> QED  BY <1>1, <2>1, <2>2, <3>1, EvidenceDoubts DEF OnReportReads, Searchers
  <2>3. CASE ~InDoubt(m.cmd)
    <3>1. UNCHANGED slots \/ SlotTakes("agent", "reporting", m.cmd, m.status)
      BY <1>1, <2>3 DEF OnReportReads
    <3> QED  BY <1>1, <2>1, <3>1, SearchesKept, SearchesTaken DEF OnReportReads, Searchers
  <2> QED  BY <2>2, <2>3
<1>2. CASE OnReconciled
  <2> DEFINE m == Head(toCore)
  <2>1. m.cmd \in Commands
    BY <1>2, ReadsType, MessageFields DEF OnReconciled, Reads, EndsInv, ServiceTypeOK
  <2>2. UNCHANGED slots \/ (InDoubt(m.cmd) /\ TakesEvidence("agent", m.cmd, m.status))
    BY <1>2 DEF OnReconciled
  <2> QED  BY <1>2, <2>1, <2>2, EvidenceDoubts, SearchesKept DEF OnReconciled, Searchers
<1>3. ASSUME NEW c \in Commands, NEW found, CoreSearches(c, found) PROVE SearchesDoubt'
  BY <1>3, EvidenceDoubts DEF CoreSearches, Searchers
<1>4. ASSUME NEW s \in Searchers, StartsReconciling(s) PROVE SearchesDoubt'
  <2>1. slots[s].cmd \in Commands /\ record[slots[s].cmd] \in {"UNKNOWN", "RECONCILING", "RECONCILED"}
    BY <1>4 DEF StartsReconciling, SlotAt, EndsInv, ServiceTypeOK, SlotsTypeOK, SearchesDoubt
  <2>2. record'[slots[s].cmd] = MoveTo(record[slots[s].cmd], "RECONCILIATION_STARTED")
    BY <1>4, <2>1 DEF StartsReconciling, Move, EndsInv, ServiceTypeOK, RowsTypeOK
  <2>3. record'[slots[s].cmd] \in {"RECONCILING", "RECONCILED"}
    <3>1. CASE record[slots[s].cmd] = "UNKNOWN"
      <4>1. <<"UNKNOWN", "RECONCILIATION_STARTED", "RECONCILING">> \in Table
        BY DEF Table, ReconciliationEdges
      <4>2. NextStates("UNKNOWN", "RECONCILIATION_STARTED") # {}
        BY <4>1 DEF NextStates
      <4>3. MoveTo("UNKNOWN", "RECONCILIATION_STARTED") # "UNKNOWN"
        BY <4>2, MoveStays
      <4> QED  BY <2>2, <3>1, <4>3, MoveMakes
    <3>2. CASE record[slots[s].cmd] \in {"RECONCILING", "RECONCILED"}
      BY <2>1, <3>2, DoubtLasts DEF EndsInv
    <3> QED  BY <2>1, <3>1, <3>2
  <2>4. slots' = [slots EXCEPT ![s].pc = "concluding"]
    BY <1>4 DEF StartsReconciling
  <2> QED  BY <2>3, <2>4, DoubtLasts DEF EndsInv, ServiceTypeOK, SlotsTypeOK, SearchesDoubt
<1>5. ASSUME NEW s \in Searchers, Concludes(s) \/ SlotFails(s) PROVE SearchesDoubt'
  BY <1>5, SearchesEnded DEF Concludes, SlotFails
<1>6. CASE OnReportMoves
  BY <1>6, SearchesEnded DEF OnReportMoves, Searchers
<1>7. CASE HousekeepingSteps
  <2>1. CASE CoreCrash
    BY <2>1 DEF CoreCrash, SearchesDoubt, FreeSlot
  <2> QED  BY <1>7, <2>1, SearchesKept
           DEF HousekeepingSteps, SweepExpires, SweepDoubts, RecoverOne, CoreStarts, Recovered
<1>8. ASSUME NEW t \in Callers, CallerSteps(t) PROVE SearchesDoubt'
  BY <1>8, SearchesKept
     DEF CallerSteps, SubmitReads, SubmitRefuses, SubmitInserts, SubmitLosesRace, Forgets, ConfirmReads,
         CancelReads,
         Withdraws, DispatchesLocally, SendsLine, SendsIntoTheVoid, CannotSend, DrainTimesOut, AfterSend, CallerFails
<1>9. CASE OnAck \/ MessageDropped
  BY <1>9, SearchesKept DEF OnAck, MessageDropped
<1>10. CASE AnyAgent
  BY <1>3, <1>10, SearchesKept DEF AnyAgent, AgentSays, AgentTakes, TimePasses, ConfirmsPosition, LinkComesAndGoes
<1> QED  BY <1>1, <1>2, <1>4, <1>5, <1>6, <1>7, <1>8, <1>9, <1>10
         DEF ServiceNext, ServiceSteps, AgentMessageSteps, SettlingSteps

(* What a row says of the broker goes with its state: whatever the agent says  *)
(* and however the two searches of a command in doubt interleave.             *)
THEOREM RowsSayHowTheyEnded == ServiceSpec => []SaysHowItEnded
<1>1. ServiceInit => EndsInv
  BY ServiceTypedInit DEF ServiceInit, EndsInv, SaysHowItEnded, Unsaid, SearchesDoubt, FreeSlot, Absent,
                          InDoubtStates
<1>2. EndsInv /\ [ServiceNext]_serviceVars => EndsInv'
  <2> SUFFICES ASSUME EndsInv, [ServiceNext]_serviceVars PROVE EndsInv'
    OBVIOUS
  <2>1. ServiceTypeOK'
    BY ServiceStep DEF EndsInv, Kept
  <2>2. CASE ServiceNext
    BY <2>1, <2>2, EndsSaid, SearchesStep DEF EndsInv
  <2>3. CASE UNCHANGED serviceVars
    BY <2>1, <2>3 DEF serviceVars, EndsInv, SaysHowItEnded, Unsaid, SearchesDoubt
  <2> QED  BY <2>2, <2>3
<1>3. EndsInv => SaysHowItEnded
  BY DEF EndsInv
<1> QED  BY <1>1, <1>2, <1>3, PTL DEF ServiceSpec
=============================================================================
