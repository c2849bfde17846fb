---------------------------- MODULE CommandTable ----------------------------
(***************************************************************************)
(* The transition table of a command: domain/execution/state.py.            *)
(***************************************************************************)

\* The stored state of a command; "absent" when no row has its commandId.
States == {"PENDING", "SENT", "ACKNOWLEDGED", "EXECUTED", "FAILED", "UNKNOWN", "RECONCILING",
           "RECONCILED", "REJECTED", "EXPIRED", "CANCELLED", "SIMULATED"}
Absent == "absent"

\* Before the send, and the send itself.
SendEdges == {
    <<"PENDING", "SENT", "SENT">>,
    <<"PENDING", "SEND_FAILED", "FAILED">>,
    <<"PENDING", "EXPIRED", "EXPIRED">>,
    <<"PENDING", "CANCEL_REQUESTED", "CANCELLED">>,
    <<"PENDING", "SIMULATED_LOCALLY", "SIMULATED">>}

\* What the agent says of a command that was sent, and its silence.
AgentEdges == {
    <<"SENT", "ACK_ACCEPTED", "ACKNOWLEDGED">>,
    <<"SENT", "ACK_REJECTED", "REJECTED">>,
    <<"SENT", "ACK_EXPIRED", "EXPIRED">>,
    <<"SENT", "LINK_LOST", "UNKNOWN">>,
    <<"SENT", "REPORT_EXECUTED", "EXECUTED">>,
    <<"SENT", "REPORT_SIMULATED", "SIMULATED">>,
    <<"SENT", "REPORT_FAILED", "FAILED">>,
    <<"ACKNOWLEDGED", "REPORT_EXECUTED", "EXECUTED">>,
    <<"ACKNOWLEDGED", "REPORT_SIMULATED", "SIMULATED">>,
    <<"ACKNOWLEDGED", "REPORT_FAILED", "FAILED">>,
    <<"ACKNOWLEDGED", "LINK_LOST", "UNKNOWN">>}

\* Mutant: a fill report takes a command out of doubt without the reconciliation.
ReconciliationEdgesShortcut == {
    <<"UNKNOWN", "REPORT_EXECUTED", "EXECUTED">>,
    <<"UNKNOWN", "RECONCILIATION_STARTED", "RECONCILING">>,
    <<"RECONCILING", "RECONCILED", "RECONCILED">>}
\* Mutant: what was reconciled is reconciled again.
ReconciliationEdgesReopen == {
    <<"RECONCILED", "RECONCILIATION_STARTED", "RECONCILING">>,
    <<"UNKNOWN", "RECONCILIATION_STARTED", "RECONCILING">>,
    <<"RECONCILING", "RECONCILED", "RECONCILED">>}
\* The broker's side compared with the record.
ReconciliationEdges == {
    <<"EXECUTED", "POSITION_CONFIRMED", "RECONCILED">>,
    <<"EXECUTED", "RECONCILIATION_STARTED", "RECONCILING">>,
    <<"UNKNOWN", "RECONCILIATION_STARTED", "RECONCILING">>,
    <<"RECONCILING", "RECONCILIATION_PENDING", "RECONCILING">>,
    <<"RECONCILING", "RECONCILED", "RECONCILED">>}

Table == SendEdges \cup AgentEdges \cup ReconciliationEdges

TerminalStates == {"RECONCILED", "FAILED", "REJECTED", "EXPIRED", "CANCELLED", "SIMULATED"}
InDoubtStates == {"SENT", "ACKNOWLEDGED", "UNKNOWN", "RECONCILING"}
NoPositionStates == {"PENDING", "FAILED", "REJECTED", "EXPIRED", "CANCELLED", "SIMULATED"}

\* next_state: the states an event leads to; none when the table has no such edge.
NextStates(s, event) == {edge[3] : edge \in {e \in Table : e[1] = s /\ e[2] = event}}

\* Mutant: silence makes a command UNKNOWN whatever its state.
MoveToForced(s, event) == IF event = "LINK_LOST" THEN "UNKNOWN"
                          ELSE IF NextStates(s, event) = {} THEN s
                          ELSE CHOOSE next \in NextStates(s, event) : TRUE

\* ExecutionService._move: the event is applied if the table has the edge, ignored otherwise.
MoveTo(s, event) == IF NextStates(s, event) = {} THEN s ELSE CHOOSE next \in NextStates(s, event) : TRUE
=============================================================================
