-------------------------- MODULE ExecutionService --------------------------
(***************************************************************************)
(* The core's execution engine: services/execution.py over the repository   *)
(* of execution_commands and the agent sender.  Everything runs on one      *)
(* asyncio loop: an action is what happens between two awaits that another  *)
(* task could use, and `_move' (read, table, compare-and-set under the      *)
(* command's lock) is one step.                                             *)
(*                                                                         *)
(* The tasks: callers (an API request or a strategy, submitting, confirming *)
(* or cancelling), the agent's connection (one message at a time, `slots'), *)
(* the core's own search of the broker (ReconciliationService, the other    *)
(* slot), the sweep every two seconds and the recovery at startup.          *)
(***************************************************************************)
EXTENDS ExecutionLink, CommandTable

CONSTANTS
    Callers,    \* the tasks that submit, confirm or cancel
    Contents,   \* the orders a commandId may be used for (their fingerprints)
    Routes,     \* where a command may be routed: "agent", "local" (OFF, OBSERVE, PAPER)
    CoreFaults  \* what may go wrong: "crash", "db", "drain"

NoContent == "no content"

ASSUME ServiceAssumption == Routes \subseteq {"agent", "local"} /\ NoContent \notin Contents

VARIABLES
    record,   \* the stored state of each command (the database)
    content,  \* the stored order of each command (the fingerprint column)
    outcome,  \* the fill of the stored command, once executed or reconciled
    callers,  \* the tasks in progress
    slots,    \* the agent's message, and the core's search, being handled
    core      \* the process: up, recovering, down

serviceVars == <<lines, late, connected, toCore, record, content, outcome, callers, slots, core>>

CallerPCs == {"idle", "validating", "dispatching", "sent", "unsent", "simulated",
              "withdrawing", "expiring", "answered"}
Told == {"none", "replayed", "conflict", "refused"}

Task(pc, c) == [pc |-> pc, cmd |-> c, content |-> NoContent, told |-> "none"]
Free == Task("idle", NoCommand)
FreeSlot == [pc |-> "free", cmd |-> NoCommand, verdict |-> "none"]

Searchers == {"agent", "search"}

\* A row has its order; a task in progress has its command.
RowsTypeOK ==
    /\ record \in [Commands -> States \cup {Absent}]
    /\ content \in [Commands -> Contents \cup {NoContent}]
    /\ outcome \in [Commands -> {"open", "executed", "nothing"}]
    /\ \A c \in Commands : record[c] = Absent <=> content[c] = NoContent
CallersTypeOK ==
    /\ callers \in [Callers -> [pc : CallerPCs, cmd : Commands \cup {NoCommand},
                                content : Contents \cup {NoContent}, told : Told]]
    /\ \A t \in Callers : callers[t].pc # "idle" => callers[t].cmd \in Commands
    /\ \A t \in Callers : callers[t].pc = "validating" => callers[t].content \in Contents
SlotsTypeOK ==
    /\ slots \in [Searchers -> [pc : {"free", "reporting", "starting", "concluding"},
                                cmd : Commands \cup {NoCommand},
                                verdict : ReportStatuses \cup Findings \cup {"none"}]]
    /\ \A s \in Searchers : slots[s].pc # "free" => slots[s].cmd \in Commands
ServiceTypeOK ==
    /\ LinkTypeOK
    /\ RowsTypeOK
    /\ CallersTypeOK
    /\ SlotsTypeOK
    /\ core \in {"up", "recovering", "down"}

ServiceInit ==
    /\ LinkInit
    /\ record = [c \in Commands |-> Absent]
    /\ content = [c \in Commands |-> NoContent]
    /\ outcome = [c \in Commands |-> "open"]
    /\ callers = [t \in Callers |-> Free]
    /\ slots = [s \in Searchers |-> FreeSlot]
    /\ core = "up"

-----------------------------------------------------------------------------
(* Helpers.                                                                *)

Up == core = "up"
CallerAt(t, pc) == Up /\ callers[t].pc = pc
CallerGoes(t, pc) == callers' = [callers EXCEPT ![t].pc = pc]
Answer(t, told) == callers' = [callers EXCEPT ![t].pc = "answered", ![t].told = told]
Returns(t) == callers' = [callers EXCEPT ![t] = Free]

\* `_move', with what the event makes the command say of the broker.
Move(c, event, said) ==
    /\ record' = [record EXCEPT ![c] = MoveTo(record[c], event)]
    /\ outcome' = IF NextStates(record[c], event) # {} /\ said # "open"
                  THEN [outcome EXCEPT ![c] = said]
                  ELSE outcome

\* Mutant: a second insert writes over the first.
InsertOverwrites(c, state, k) ==
    /\ record' = [record EXCEPT ![c] = IF @ = Absent THEN state ELSE @]
    /\ content' = [content EXCEPT ![c] = k]

\* insert ... ON CONFLICT DO NOTHING: the row is created if there is none.
Insert(c, state, k) ==
    IF record[c] = Absent
    THEN /\ record' = [record EXCEPT ![c] = state]
         /\ content' = [content EXCEPT ![c] = k]
    ELSE UNCHANGED <<record, content>>

-----------------------------------------------------------------------------
(* submit.                                                                 *)

\* The replay check: the recorded command, a conflict, or a new one to validate.
SubmitReads(t, c, k) ==
    /\ CallerAt(t, "idle")
    /\ LET answer(pc, told) == callers' = [callers EXCEPT ![t] = [pc |-> pc, cmd |-> c, content |-> k, told |-> told]]
       IN  CASE record[c] = Absent -> answer("validating", "none")
             [] content[c] = k     -> answer("answered", "replayed")
             [] OTHER              -> answer("answered", "conflict")
    /\ UNCHANGED <<wire, record, content, outcome, slots, core>>

\* The validation found problems: the row is inserted REJECTED, unless there is one by now.
SubmitRefuses(t) ==
    /\ CallerAt(t, "validating")
    /\ Insert(callers[t].cmd, "REJECTED", callers[t].content)
    /\ Answer(t, "refused")
    /\ UNCHANGED <<wire, outcome, slots, core>>

\* No problem: PENDING is persisted before anything is sent, and the command goes on,
\* or waits for a human (an automatic one in CONFIRM).
SubmitInserts(t) ==
    /\ CallerAt(t, "validating")
    /\ record[callers[t].cmd] = Absent
    /\ Insert(callers[t].cmd, "PENDING", callers[t].content)
    /\ CallerGoes(t, "dispatching") \/ Returns(t)
    /\ UNCHANGED <<wire, outcome, slots, core>>

\* Another writer created it first: "it is the truth".
SubmitLosesRace(t) ==
    /\ CallerAt(t, "validating")
    /\ record[callers[t].cmd] # Absent
    /\ Answer(t, "replayed")
    /\ UNCHANGED <<wire, record, content, outcome, slots, core>>

Forgets(t) ==
    /\ CallerAt(t, "answered")
    /\ Returns(t)
    /\ UNCHANGED <<wire, record, content, outcome, slots, core>>

-----------------------------------------------------------------------------
(* confirm and cancel.                                                     *)

\* The state and the clock are read before the validation's awaits.
ConfirmReads(t, c) ==
    /\ CallerAt(t, "idle")
    /\ record[c] = "PENDING"
    /\ \E pc \in IF c \in late THEN {"expiring"} ELSE {"dispatching", "withdrawing"} :
          callers' = [callers EXCEPT ![t] = Task(pc, c)]
    /\ UNCHANGED <<wire, record, content, outcome, slots, core>>

CancelReads(t, c) ==
    /\ CallerAt(t, "idle")
    /\ record[c] = "PENDING"
    /\ callers' = [callers EXCEPT ![t] = Task("withdrawing", c)]
    /\ UNCHANGED <<wire, record, content, outcome, slots, core>>

Withdraws(t) ==
    /\ \/ /\ CallerAt(t, "withdrawing")
          /\ Move(callers[t].cmd, "CANCEL_REQUESTED", "open")
       \/ /\ CallerAt(t, "expiring")
          /\ Move(callers[t].cmd, "EXPIRED", "open")
    /\ Returns(t)
    /\ UNCHANGED <<wire, content, slots, core>>

-----------------------------------------------------------------------------
(* _dispatch: the sender, then the move.  Nothing is claimed before the send. *)

\* OFF, OBSERVE, PAPER: nothing leaves the process (the paper broker may have no quote).
DispatchesLocally(t) ==
    /\ "local" \in Routes
    /\ CallerAt(t, "dispatching")
    /\ \E pc \in {"simulated", "unsent"} : CallerGoes(t, pc)
    /\ UNCHANGED <<wire, record, content, outcome, slots, core>>

\* The line is written and drained.
SendsLine(t) ==
    /\ "agent" \in Routes
    /\ CallerAt(t, "dispatching")
    /\ connected
    /\ lines[callers[t].cmd] < MaxLines
    /\ lines' = [lines EXCEPT ![callers[t].cmd] = @ + 1]
    /\ CallerGoes(t, "sent")
    /\ UNCHANGED <<late, connected, toCore, record, content, outcome, slots, core>>

\* The same on a connection that is dead and not known to be: drained, and lost.
SendsIntoTheVoid(t) ==
    /\ "agent" \in Routes
    /\ CallerAt(t, "dispatching")
    /\ ~connected
    /\ CallerGoes(t, "sent")
    /\ UNCHANGED <<wire, record, content, outcome, slots, core>>

\* No agent is registered, or the write raised: nothing left.
CannotSend(t) ==
    /\ "agent" \in Routes
    /\ CallerAt(t, "dispatching")
    /\ CallerGoes(t, "unsent")
    /\ UNCHANGED <<wire, record, content, outcome, slots, core>>

\* The drain timed out: the caller is told "not sent" while the closing transport
\* still flushes what was written.
DrainTimesOut(t) ==
    /\ "drain" \in CoreFaults
    /\ "agent" \in Routes
    /\ CallerAt(t, "dispatching")
    /\ connected
    /\ lines[callers[t].cmd] < MaxLines
    /\ lines' = [lines EXCEPT ![callers[t].cmd] = @ + 1]
    /\ CallerGoes(t, "unsent")
    /\ UNCHANGED <<late, connected, toCore, record, content, outcome, slots, core>>

AfterSend(t) ==
    /\ \/ CallerAt(t, "sent") /\ Move(callers[t].cmd, "SENT", "open")
       \/ CallerAt(t, "unsent") /\ Move(callers[t].cmd, "SEND_FAILED", "open")
       \/ CallerAt(t, "simulated") /\ Move(callers[t].cmd, "SIMULATED_LOCALLY", "open")
    /\ Returns(t)
    /\ UNCHANGED <<wire, content, slots, core>>

\* The database does not answer: Unavailable ends the request where it stands.
CallerFails(t) ==
    /\ "db" \in CoreFaults
    /\ Up
    /\ callers[t].pc \notin {"idle", "answered", "dispatching"}
    /\ Returns(t)
    /\ UNCHANGED <<wire, record, content, outcome, slots, core>>

CallerSteps(t) == \/ \E c \in Commands, k \in Contents : SubmitReads(t, c, k)
                  \/ \E c \in Commands : ConfirmReads(t, c) \/ CancelReads(t, c)
                  \/ SubmitRefuses(t) \/ SubmitInserts(t) \/ SubmitLosesRace(t) \/ Forgets(t)
                  \/ Withdraws(t) \/ DispatchesLocally(t) \/ SendsLine(t) \/ SendsIntoTheVoid(t)
                  \/ CannotSend(t) \/ DrainTimesOut(t) \/ AfterSend(t) \/ CallerFails(t)

-----------------------------------------------------------------------------
(* The agent talks back: one connection, one message at a time.             *)

SlotAt(s, pc) == Up /\ slots[s].pc = pc
SlotTakes(s, pc, c, v) == slots' = [slots EXCEPT ![s] = [pc |-> pc, cmd |-> c, verdict |-> v]]
SlotEnds(s) == slots' = [slots EXCEPT ![s] = FreeSlot]

\* Mutant: the newest message first.
ReadsNewest(kind) == /\ SlotAt("agent", "free")
                     /\ toCore # <<>>
                     /\ Head(toCore).kind = kind
                     /\ toCore' = SubSeq(toCore, 1, Len(toCore) - 1)

Reads(kind) == /\ SlotAt("agent", "free")
               /\ toCore # <<>>
               /\ Head(toCore).kind = kind
               /\ toCore' = Tail(toCore)

\* on_ack: DUPLICATE moves nothing.
AckEvents == [ACCEPTED |-> "ACK_ACCEPTED", REJECTED |-> "ACK_REJECTED", EXPIRED |-> "ACK_EXPIRED"]
OnAck ==
    /\ Reads("ack")
    /\ LET m == Head(toCore)
       IN  IF m.status = "DUPLICATE" \/ record[m.cmd] = Absent
           THEN UNCHANGED <<record, outcome>>
           ELSE Move(m.cmd, AckEvents[m.status], "open")
    /\ UNCHANGED <<lines, late, connected, content, callers, slots, core>>

\* Mutant: a search that found nothing is not done again.
TakesEvidenceOnce(s, c, verdict) ==
    IF record[c] = "UNKNOWN" THEN SlotTakes(s, "starting", c, verdict) ELSE UNCHANGED slots

\* What a command in doubt goes through, whatever brings the evidence.
TakesEvidence(s, c, verdict) ==
    CASE record[c] = "UNKNOWN"     -> SlotTakes(s, "starting", c, verdict)
      [] record[c] = "RECONCILING" -> SlotTakes(s, "concluding", c, verdict)

InDoubt(c) == record[c] \in {"UNKNOWN", "RECONCILING"}

\* on_report reads the state: evidence if the command is in doubt, an event otherwise.
OnReportReads ==
    /\ Reads("report")
    /\ LET m == Head(toCore)
       IN  CASE record[m.cmd] = Absent -> UNCHANGED slots
             [] InDoubt(m.cmd) -> TakesEvidence("agent", m.cmd, IF m.status = "FILLED" THEN "executed" ELSE "rejected")
             [] OTHER -> SlotTakes("agent", "reporting", m.cmd, m.status)
    /\ UNCHANGED <<lines, late, connected, record, content, outcome, callers, core>>

\* Mutants: an ambiguous return code is a failure (audit F03), or a success.
ReportEventFailed(status) == CASE status = "FILLED"    -> <<"REPORT_EXECUTED", "executed">>
                               [] status = "SIMULATED" -> <<"REPORT_SIMULATED", "open">>
                               [] OTHER                -> <<"REPORT_FAILED", "open">>
ReportEventFilled(status) == CASE status \in {"FILLED", "AMBIGUOUS"} -> <<"REPORT_EXECUTED", "executed">>
                               [] status = "SIMULATED" -> <<"REPORT_SIMULATED", "open">>
                               [] status = "FAILED"    -> <<"REPORT_FAILED", "open">>
                               [] OTHER                -> <<"LINK_LOST", "open">>

\* A REJECTED report carries no retcode: like the ambiguous ones it is LINK_LOST, never REPORT_FAILED.
ReportEvent(status) == CASE status = "FILLED"    -> <<"REPORT_EXECUTED", "executed">>
                         [] status = "SIMULATED" -> <<"REPORT_SIMULATED", "open">>
                         [] status = "FAILED"    -> <<"REPORT_FAILED", "open">>
                         [] OTHER                -> <<"LINK_LOST", "open">>

\* ... and moves, from whatever the state is by then.
OnReportMoves ==
    /\ SlotAt("agent", "reporting")
    /\ LET event == ReportEvent(slots["agent"].verdict)
       IN  Move(slots["agent"].cmd, event[1], event[2])
    /\ SlotEnds("agent")
    /\ UNCHANGED <<wire, content, callers, core>>

\* on_reconciled -> settle: only a command in doubt is looked at.
OnReconciled ==
    /\ Reads("reconciled")
    /\ LET m == Head(toCore)
       IN  IF InDoubt(m.cmd) THEN TakesEvidence("agent", m.cmd, m.status) ELSE UNCHANGED slots
    /\ UNCHANGED <<lines, late, connected, record, content, outcome, callers, core>>

\* ReconciliationService's own search, with what it found at the broker before it read the record.
CoreSearches(c, found) ==
    /\ SlotAt("search", "free")
    /\ InDoubt(c)
    /\ TakesEvidence("search", c, found)
    /\ UNCHANGED <<wire, record, content, outcome, callers, core>>

StartsReconciling(s) ==
    /\ SlotAt(s, "starting")
    /\ Move(slots[s].cmd, "RECONCILIATION_STARTED", "open")
    /\ slots' = [slots EXCEPT ![s].pc = "concluding"]
    /\ UNCHANGED <<wire, content, callers, core>>

\* Mutant: the evidence is not stored with the state.
ConcludesSilently(s) ==
    /\ SlotAt(s, "concluding")
    /\ Move(slots[s].cmd, IF slots[s].verdict = "not_found" THEN "RECONCILIATION_PENDING" ELSE "RECONCILED", "open")
    /\ SlotEnds(s)
    /\ UNCHANGED <<wire, content, callers, core>>

\* Evidence closes the doubt; not finding anything closes nothing.
Concludes(s) ==
    /\ SlotAt(s, "concluding")
    /\ CASE slots[s].verdict = "not_found" -> Move(slots[s].cmd, "RECONCILIATION_PENDING", "open")
         [] slots[s].verdict = "executed"  -> Move(slots[s].cmd, "RECONCILED", "executed")
         [] OTHER                          -> Move(slots[s].cmd, "RECONCILED", "nothing")
    /\ SlotEnds(s)
    /\ UNCHANGED <<wire, content, callers, core>>

\* The database does not answer: the message, or the search, is dropped (_safely).
SlotFails(s) ==
    /\ "db" \in CoreFaults
    /\ Up
    /\ slots[s].pc # "free"
    /\ SlotEnds(s)
    /\ UNCHANGED <<wire, record, content, outcome, callers, core>>
MessageDropped ==
    /\ "db" \in CoreFaults
    /\ \E kind \in {"ack", "report", "reconciled"} : Reads(kind)
    /\ UNCHANGED <<lines, late, connected, record, content, outcome, callers, slots, core>>

\* confirm_position: the position the fill named is at the broker.
ConfirmsPosition(c) ==
    /\ Up
    /\ record[c] = "EXECUTED"
    /\ Move(c, "POSITION_CONFIRMED", "open")
    /\ UNCHANGED <<wire, content, callers, slots, core>>

AgentMessageSteps == OnAck \/ OnReportReads \/ OnReportMoves \/ OnReconciled \/ MessageDropped
SettlingSteps == \E s \in Searchers : StartsReconciling(s) \/ Concludes(s) \/ SlotFails(s)

-----------------------------------------------------------------------------
(* sweep, and the process's end and beginning.                              *)

\* Nobody confirmed it in time.
SweepExpires(c) ==
    /\ Up
    /\ record[c] = "PENDING"
    /\ c \in late
    /\ Move(c, "EXPIRED", "open")
    /\ UNCHANGED <<wire, content, callers, slots, core>>

\* No acknowledgement, or no report, for too long: never FAILED.
SweepDoubts(c) ==
    /\ Up
    /\ record[c] \in {"SENT", "ACKNOWLEDGED"}
    /\ Move(c, "LINK_LOST", "open")
    /\ UNCHANGED <<wire, content, callers, slots, core>>

\* The process dies: its tasks and its connection with it.
CoreCrash ==
    /\ "crash" \in CoreFaults
    /\ core # "down"
    /\ core' = "down"
    /\ callers' = [t \in Callers |-> Free]
    /\ slots' = [s \in Searchers |-> FreeSlot]
    /\ \/ LinkDrops
       \/ ~connected /\ UNCHANGED <<lines, connected, toCore>>
    /\ UNCHANGED <<late, record, content, outcome>>

CoreStarts ==
    /\ core = "down"
    /\ core' = "recovering"
    /\ UNCHANGED <<wire, record, content, outcome, callers, slots>>

\* recover, one command at a time, before the agent's socket opens.
RecoverOne(c) ==
    /\ core = "recovering"
    /\ \/ record[c] = "PENDING" /\ Move(c, "EXPIRED", "open")
       \/ record[c] \in {"SENT", "ACKNOWLEDGED"} /\ Move(c, "LINK_LOST", "open")
    /\ UNCHANGED <<wire, content, callers, slots, core>>
Recovered ==
    /\ core = "recovering"
    /\ \A c \in Commands : record[c] \notin {"PENDING", "SENT", "ACKNOWLEDGED"}
    /\ core' = "up"
    /\ UNCHANGED <<wire, record, content, outcome, callers, slots>>

HousekeepingSteps == \/ \E c \in Commands : SweepExpires(c) \/ SweepDoubts(c) \/ RecoverOne(c)
                     \/ CoreCrash \/ CoreStarts \/ Recovered

\* Every step of the core but those that look at the broker.
ServiceSteps == \/ \E t \in Callers : CallerSteps(t)
                \/ AgentMessageSteps \/ SettlingSteps \/ HousekeepingSteps

-----------------------------------------------------------------------------
(* The environment of this module: any agent, any broker, any link.         *)

AgentSays(m) ==
    /\ connected
    /\ Len(toCore) < MaxQueue
    /\ toCore' = Append(toCore, m)
    /\ UNCHANGED <<lines, late, connected, record, content, outcome, callers, slots, core>>

AgentTakes(c) ==
    /\ lines[c] > 0
    /\ lines' = [lines EXCEPT ![c] = @ - 1]
    /\ UNCHANGED <<late, connected, toCore, record, content, outcome, callers, slots, core>>

LinkComesAndGoes ==
    /\ \/ ~connected /\ connected' = TRUE /\ UNCHANGED <<lines, toCore>>
       \/ LinkDrops
    /\ UNCHANGED <<late, record, content, outcome, callers, slots, core>>

TimePasses(c) ==
    /\ c \notin late
    /\ late' = late \cup {c}
    /\ UNCHANGED <<lines, connected, toCore, record, content, outcome, callers, slots, core>>

AnyAgent == \/ \E m \in Messages : AgentSays(m)
            \/ \E c \in Commands : AgentTakes(c) \/ TimePasses(c) \/ ConfirmsPosition(c)
            \/ \E c \in Commands, found \in Findings : CoreSearches(c, found)
            \/ LinkComesAndGoes

ServiceNext == ServiceSteps \/ AnyAgent

ServiceSpec == ServiceInit /\ [][ServiceNext]_serviceVars

-----------------------------------------------------------------------------
(* Properties.                                                             *)

\* Whatever the agent says and however the tasks interleave, the stored row follows
\* the lifecycle of CommandLifecycle, one edge at a time.
Lifecycle == INSTANCE CommandLifecycle
FollowsLifecycle == Lifecycle!LifecycleSpec

\* Two promises of the table, on the stored row, against any interleaving: what the core
\* lost sight of is closed by evidence only, and what ended stays ended.
DoubtWaitsForEvidence == Lifecycle!OnlyReconciliationEndsDoubt
EndedStaysEnded == Lifecycle!TerminalIsTerminal

\* The order a row stands for never changes, and a row in any state has one:
\* "an id is a promise about one specific order" (idempotency.py).
OneOrderPerId ==
    [][\A c \in Commands :
          /\ content[c] # NoContent => content'[c] = content[c]
          /\ record'[c] # Absent => content'[c] # NoContent]_serviceVars

\* A caller told that its command was replayed is told of its own order, not of
\* another one under the same id ("same id with different content is refused").
ReplaysTheSameOrder ==
    \A t \in Callers : callers[t].told = "replayed" => content[callers[t].cmd] = callers[t].content

\* What the row says of the broker goes with its state: executed says so, in doubt
\* says nothing, and one that reconciliation closed says how it ended.
SaysHowItEnded ==
    \A c \in Commands :
        /\ record[c] = "EXECUTED" => outcome[c] = "executed"
        /\ record[c] = "RECONCILED" => outcome[c] # "open"
        /\ record[c] \in InDoubtStates => outcome[c] = "open"
=============================================================================
