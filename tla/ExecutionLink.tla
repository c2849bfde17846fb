---------------------------- MODULE ExecutionLink ----------------------------
(***************************************************************************)
(* The wire between the core and the execution agent: newline-delimited     *)
(* JSON over one TCP connection (infrastructure/mt5/wire.py, ea_link.py and *)
(* the socket of TradingOsAgent.mq5).  A command line is identified by its  *)
(* commandId; what the agent sends back is an acknowledgement, a report or  *)
(* a reconciliation.  ExecutionAgent holds the agent's end, ExecutionService *)
(* the core's.                                                              *)
(***************************************************************************)
EXTENDS Naturals, Sequences

CONSTANTS
    Commands,  \* the commandIds
    MaxLines,  \* bound: lines of one commandId travelling at once
    MaxQueue   \* bound: messages of the agent the core has not read yet

ASSUME LinkAssumption == MaxLines \in Nat /\ MaxQueue \in Nat

VARIABLES
    lines,      \* command lines on their way to the agent, per commandId
    late,       \* the commandIds whose expiresAt has passed
    connected,  \* the agent's socket is open
    toCore      \* what the agent sent and the core has not read

wire == <<lines, late, connected, toCore>>

NoCommand == "no command"

\* The final status of a report.  "AMBIGUOUS" is a FAILED report whose retcode does
\* not say whether an order is live (domain/execution/retcodes.py).
ReportStatuses == {"FILLED", "SIMULATED", "FAILED", "AMBIGUOUS", "REJECTED"}
AckStatuses == {"ACCEPTED", "REJECTED", "EXPIRED", "DUPLICATE"}
Findings == {"executed", "rejected", "not_found"}

Messages == [kind : {"ack"}, cmd : Commands, status : AckStatuses]
       \cup [kind : {"report"}, cmd : Commands, status : ReportStatuses]
       \cup [kind : {"reconciled"}, cmd : Commands, status : Findings]

Ack(c, s) == [kind |-> "ack", cmd |-> c, status |-> s]
Report(c, s) == [kind |-> "report", cmd |-> c, status |-> s]
Reconciled(c, s) == [kind |-> "reconciled", cmd |-> c, status |-> s]

LinkTypeOK == /\ lines \in [Commands -> 0..MaxLines]
              /\ late \subseteq Commands
              /\ connected \in BOOLEAN
              /\ toCore \in Seq(Messages)

LinkInit == /\ lines = [c \in Commands |-> 0]
            /\ late = {}
            /\ connected = FALSE
            /\ toCore = <<>>

\* The connection ends.  Lines the agent already read into its buffer may still be
\* handled, messages the core's socket already holds may still be read; the rest is gone.
LinkDrops ==
    /\ connected
    /\ connected' = FALSE
    /\ lines' \in [Commands -> 0..MaxLines]
    /\ \A c \in Commands : lines'[c] <= lines[c]
    /\ \E k \in 0..Len(toCore) : toCore' = SubSeq(toCore, 1, k)
=============================================================================
