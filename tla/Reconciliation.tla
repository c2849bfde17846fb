--------------------------- MODULE Reconciliation ---------------------------
(***************************************************************************)
(* The reconciliation of one connected account (services/reconciliation.py, *)
(* domain/positions/reconciliation.py, domain/execution/resolution.py):     *)
(* the broker is read first, then the rows, then what is in doubt is        *)
(* searched, the two are compared, and what is verifiably there confirmed.  *)
(*                                                                         *)
(* Every command opens one position, which carries its trace, so a command  *)
(* and its position have one name. GRACE is not counted: `ripe' holds the   *)
(* executed commands older than it, and nothing ripens before the broker    *)
(* lists it. While the run awaits, rows and broker move.                    *)
(***************************************************************************)
EXTENDS FiniteSets

CONSTANTS
    Commands,
    ByHand,       \* positions the user opens at the terminal
    Records       \* what may be wrong with the record: "phantom" (executed, but nothing was placed),
                  \* "contradicted" (refused, but placed), "unread" (a read of the run fails)

ReconciliationAssumption == Commands \cap ByHand = {}

VARIABLES
    limits,   \* the commands that are LIMIT orders
    real,     \* each command's order at the broker
    listed,   \* those the lists and the history already show
    bare,     \* the positions whose stop the user removed: the critical difference of _compare
    hand,     \* the user's own positions that are open
    row,      \* the command's row
    ripe,     \* the executed commands whose grace is over
    run,      \* the run: where it is, its picture of the broker, the rows it read
    report    \* the findings of the last readable report

vars == <<limits, real, listed, bare, hand, row, ripe, run, report>>

May(kind) == kind \in Records
Placed == {"resting", "open", "shut"}
NoPosition == {"pending", "refused"}                     \* NO_POSITION_STATES
InDoubt == {"sent", "unknown"}                           \* IN_DOUBT_STATES
HasFilled == {"executed", "reconciled"}                  \* _has_filled
RowStates == {"none", "reconciled empty"} \cup NoPosition \cup InDoubt \cup HasFilled
Findings == [kind : {"missing", "contradiction", "orphan", "order", "unresolved", "stop removed"},
             of : Commands \cup ByHand]
NoRun == [pc |-> "idle", live |-> {}, resting |-> {}, bare |-> {}, ripe |-> {},
          rows |-> [c \in {} |-> "none"], closed |-> {}]

ReconciliationTypeOK ==
    /\ real \in [Commands -> {"none", "denied"} \cup Placed]
    /\ limits \subseteq Commands /\ listed \subseteq Commands /\ ripe \subseteq Commands
    /\ bare \subseteq Commands
    /\ hand \subseteq ByHand
    /\ row \in [Commands -> RowStates]
    /\ run.pc \in {"idle", "broker", "settle", "expect", "confirm"}
    /\ report \subseteq Findings

Init ==
    /\ limits \in SUBSET Commands
    /\ real = [c \in Commands |-> "none"]
    /\ listed = {} /\ bare = {} /\ hand = {} /\ ripe = {}
    /\ row = [c \in Commands |-> "none"]
    /\ run = NoRun
    /\ report = {}

-----------------------------------------------------------------------------
(* The execution service and the broker.                                   *)

\* The row is written before anything is sent.
Writes(c) ==
    /\ \/ row[c] = "none" /\ row' = [row EXCEPT ![c] = "pending"]
       \/ row[c] = "pending" /\ row' = [row EXCEPT ![c] = "sent"]
       \/ row[c] = "sent" /\ row' = [row EXCEPT ![c] = "unknown"]
       \/ row[c] \in {"pending", "sent"} /\ real[c] = "none" /\ row' = [row EXCEPT ![c] = "refused"]
       \/ row[c] = "sent" /\ (real[c] \in Placed \/ May("phantom")) /\ row' = [row EXCEPT ![c] = "executed"]
    /\ UNCHANGED <<limits, real, listed, bare, hand, ripe, run, report>>

Receives(c) ==
    /\ real[c] = "none"
    /\ row[c] \in InDoubt \cup (IF May("contradicted") THEN {"refused"} ELSE {})
    /\ real' = [real EXCEPT ![c] = IF c \in limits THEN "resting" ELSE "open"]
    /\ UNCHANGED <<limits, listed, bare, hand, row, ripe, run, report>>

Denies(c) ==
    /\ real[c] = "none" /\ row[c] = "unknown"
    /\ real' = [real EXCEPT ![c] = "denied"]
    /\ UNCHANGED <<limits, listed, bare, hand, row, ripe, run, report>>

Moves(c) ==
    /\ \/ real[c] = "resting" /\ real' = [real EXCEPT ![c] = "open"] /\ UNCHANGED bare
       \/ real[c] = "open" /\ real' = [real EXCEPT ![c] = "shut"] /\ UNCHANGED bare
       \/ real[c] = "open" /\ bare' = bare \cup {c} /\ UNCHANGED real
    /\ UNCHANGED <<limits, listed, hand, row, ripe, run, report>>

Lists(c) ==
    /\ real[c] # "none" /\ c \notin listed
    /\ listed' = listed \cup {c}
    /\ UNCHANGED <<limits, real, bare, hand, row, ripe, run, report>>

Ripens(c) ==
    /\ row[c] \in HasFilled /\ c \notin ripe
    /\ real[c] \in Placed => c \in listed
    /\ ripe' = ripe \cup {c}
    /\ UNCHANGED <<limits, real, listed, bare, hand, row, run, report>>

UserTrades ==
    /\ \E h \in ByHand : hand' = IF h \in hand THEN hand \ {h} ELSE hand \cup {h}
    /\ UNCHANGED <<limits, real, listed, bare, row, ripe, run, report>>

-----------------------------------------------------------------------------
(* The run.                                                                *)

ShownAs(state) == {c \in listed : real[c] = state}

\* 1. The broker: its lists, and the time they were read at.
ReadsBroker ==
    /\ run.pc = "idle"
    /\ run' = [NoRun EXCEPT !.pc = "broker", !.live = ShownAs("open") \cup hand,
                            !.resting = ShownAs("resting"), !.bare = bare \cap ShownAs("open"), !.ripe = ripe]
    /\ UNCHANGED <<limits, real, listed, bare, hand, row, ripe, report>>

\* 2. created_since, after the broker was read.
ReadsRows ==
    /\ run.pc = "broker"
    /\ run' = [run EXCEPT !.pc = "settle", !.rows = row]
    /\ UNCHANGED <<limits, real, listed, bare, hand, row, ripe, report>>

\* resolve_command: in the picture, in the deals, among the orders that never filled, or nowhere.
Resolution(c) ==
    IF c \in run.live \/ (c \in listed /\ real[c] \in {"open", "shut"}) THEN "reconciled"
    ELSE IF c \in run.resting THEN "reconciled empty"
    ELSE IF c \in listed /\ real[c] = "denied" THEN "reconciled empty"
    ELSE "not found"

\* _settle_in_doubt, for those whose back-off is over: settle moves only what is still in doubt,
\* and what was not found stays so. The rows are read again when something moved.
SettlesDoubt ==
    /\ run.pc = "settle"
    /\ \E due \in SUBSET {c \in Commands : run.rows[c] = "unknown"} :
        LET moved == {c \in due : Resolution(c) # "not found" /\ row[c] = "unknown"}
        IN /\ row' = [c \in Commands |-> IF c \in moved THEN Resolution(c) ELSE row[c]]
           /\ run' = [run EXCEPT !.pc = "expect", !.rows = IF moved = {} THEN @ ELSE row']
    /\ UNCHANGED <<limits, real, listed, bare, hand, ripe, report>>

\* _expected: an accepted LIMIT order that shows no position yet is not a missing one.
Expected == {c \in Commands : run.rows[c] \in HasFilled /\ (c \in limits => c \in run.live)}

\* Mutant: the grace is counted when the two are compared.
RipeAtTheEnd == ripe
\* The grace is counted at the time of the picture.
RipeAtThePicture == run.ripe

\* _look_in_history: of what should be there and is not, whether the history shows its exit.
LooksInHistory ==
    /\ run.pc = "expect"
    /\ run' = [run EXCEPT !.pc = "confirm", !.ripe = RipeAtThePicture,
                          !.closed = {c \in (Expected \ run.live) \cap RipeAtThePicture : c \in ShownAs("shut")}]
    /\ UNCHANGED <<limits, real, listed, bare, hand, row, ripe, report>>

Found(kind, S) == [kind : {kind}, of : S]
Missing == ((Expected \ run.live) \ run.closed) \cap run.ripe

\* 3. reconcile: the findings of the comparison.
Comparison ==
    LET unmatched == run.live \ Expected
    IN Found("missing", Missing)
       \cup Found("contradiction", {c \in unmatched \cap Commands : run.rows[c] \in NoPosition})
       \cup Found("orphan", (unmatched \cap ByHand) \cup {c \in unmatched \cap Commands : run.rows[c] = "none"})
       \cup Found("order", {c \in run.resting : run.rows[c] \in NoPosition \cup {"none"}})
       \cup Found("unresolved", {c \in Commands : run.rows[c] = "unknown"})
       \cup Found("stop removed", Expected \cap run.bare)

Critical(f) == f.kind \in {"missing", "contradiction", "order", "stop removed"}

\* Mutant: what nothing contradicts is confirmed.
ConfirmableUnseen(c) == ~\E f \in Comparison : f.of = c /\ Critical(f)
\* 4. _confirm: what is there, or has verifiably been, with no critical finding about it.
Confirmable(c) ==
    /\ c \in run.live \cup run.closed
    /\ ~\E f \in Comparison : f.of = c /\ Critical(f)

\* Confirms, and publishes: confirm_position moves only a row that is still executed.
Concludes ==
    /\ run.pc = "confirm"
    /\ row' = [c \in Commands |->
                  IF c \in Expected /\ run.rows[c] = "executed" /\ row[c] = "executed" /\ Confirmable(c)
                  THEN "reconciled" ELSE row[c]]
    /\ report' = Comparison
    /\ run' = NoRun
    /\ UNCHANGED <<limits, real, listed, bare, hand, ripe>>

\* The terminal or the store could not be read: the last readable report stands.
CannotRead ==
    /\ run.pc # "idle" /\ May("unread")
    /\ run' = NoRun
    /\ UNCHANGED <<limits, real, listed, bare, hand, row, ripe, report>>

-----------------------------------------------------------------------------
RunSteps ==
    \/ ReadsBroker \/ ReadsRows \/ SettlesDoubt \/ LooksInHistory \/ Concludes \/ CannotRead
WorldSteps ==
    \/ UserTrades
    \/ \E c \in Commands :
        Writes(c) \/ Receives(c) \/ Denies(c) \/ Moves(c) \/ Lists(c) \/ Ripens(c)

Next == RunSteps \/ WorldSteps
Spec == Init /\ [][Next]_vars

-----------------------------------------------------------------------------
(* What a report is worth.                                                 *)

\* No false alarm, however the reads interleave with fills, closes and rows: what is reported missing
\* was never placed, what is reported to contradict a refusal was placed, and only the user's own
\* positions are reported to have no command behind them.
FindingsAreTrue ==
    \A f \in report :
        /\ f.kind = "missing" => real[f.of] \in {"none", "denied"}
        /\ f.kind \in {"contradiction", "order"} => real[f.of] \in Placed
        /\ f.kind = "orphan" => f.of \in ByHand

\* A command closed as reconciled really left a position at the broker: neither the search of a command
\* in doubt nor the confirmation of an executed one takes the record's word for it.
ReconciledWasThere ==
    \A c \in Commands : row[c] = "reconciled" => real[c] \in {"open", "shut"}
=============================================================================
