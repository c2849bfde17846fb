-------------------------- MODULE CommandLifecycle --------------------------
(***************************************************************************)
(* What the core's record of a command may do, whoever moves it: the row of *)
(* execution_commands is created once and then follows the table.           *)
(* ExecutionService is shown to implement this specification.               *)
(***************************************************************************)
EXTENDS CommandTable

CONSTANT Commands

VARIABLE record   \* the stored state of each command

LifecycleTypeOK == record \in [Commands -> States \cup {Absent}]

LifecycleInit == record = [c \in Commands |-> Absent]

\* The row is inserted: waiting to be sent, or refused by the validation.
Create(c) == /\ record[c] = Absent
             /\ \E s \in {"PENDING", "REJECTED"} : record' = [record EXCEPT ![c] = s]

Follow(c) == \E edge \in Table : /\ record[c] = edge[1]
                                 /\ record' = [record EXCEPT ![c] = edge[3]]

LifecycleNext == \E c \in Commands : Create(c) \/ Follow(c)

LifecycleSpec == LifecycleInit /\ [][LifecycleNext]_record

-----------------------------------------------------------------------------

\* UNKNOWN never re-enters the happy path: its only way out is reconciliation.
\* (state.py: "UNKNOWN never replays and never re-enters the happy path".)
OnlyReconciliationEndsDoubt ==
    [][\A c \in Commands :
          record[c] \in {"UNKNOWN", "RECONCILING"}
             => record'[c] \in {"UNKNOWN", "RECONCILING", "RECONCILED"}]_record

\* A terminal state is never left, and a row never disappears.
TerminalIsTerminal ==
    [][\A c \in Commands : /\ record[c] \in TerminalStates => record'[c] = record[c]
                           /\ record[c] # Absent => record'[c] # Absent]_record
=============================================================================
