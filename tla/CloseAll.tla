------------------------------ MODULE CloseAll ------------------------------
(***************************************************************************)
(* "Close all positions" (services/close_all.py and                         *)
(* domain/execution/close_all.py): one batch of one account, run and        *)
(* retried by several callers, its commands settled by the execution        *)
(* service (ExecutionService.tla) and its outcome read from the rows and    *)
(* the broker's last picture.                                               *)
(*                                                                         *)
(* A target is an open position or a pending order the trader confirmed.    *)
(* The states of a command are those classify tells apart; what a command   *)
(* does at the broker, a stop or a person may do as well, so the broker     *)
(* closes what it wants whenever it wants.                                  *)
(***************************************************************************)
EXTENDS FiniteSets

CONSTANTS
    Targets,       \* positions and pending orders at the broker when the story begins
    Foreign,       \* those another magic number placed
    Callers,       \* requests to run the batch: a double click, a retry
    CloseAllFaults \* "store": one access fails, before or after it landed; "terminal"; "restart"

CloseAllAssumption == Foreign \subseteq Targets /\ IsFiniteSet(Targets)

VARIABLES
    open,        \* what the broker really has
    picture,     \* the last picture: the targets it shows, whether it is baselined, and fresh
    confirmed,   \* what the trader confirmed in the preview
    plan,        \* _plans, in memory
    recorded,    \* the CloseAllRequested event
    rows,        \* the batch's commands, by target
    verified,    \* a reconciliation succeeded since the last settlement, with nothing critical
    run          \* each caller: what it does, and the items it still has to look at

vars == <<open, picture, confirmed, plan, recorded, rows, verified, run>>

Fault(kind) == kind \in CloseAllFaults
NoPlan == [t \in {} |-> "SENT"]
Dispositions == {"SENT", "NOT_CLOSABLE", "ALREADY_CLOSED", "REFUSED"}
Moving == "moving"          \* PENDING, SENT, ACKNOWLEDGED
Doubt == "doubt"            \* UNKNOWN, RECONCILING
Done == "done"              \* EXECUTED, RECONCILED
Settled == {Done, "simulated", "rejected", "not found"}
RowStates == {"none", Moving, Doubt} \cup Settled

Plans == UNION {[S -> Dispositions] : S \in SUBSET Targets}

CloseAllTypeOK ==
    /\ open \subseteq Targets /\ confirmed \subseteq Targets
    /\ picture \in [shows : SUBSET Targets, baselined : BOOLEAN, fresh : BOOLEAN]
    /\ plan \in Plans /\ recorded \in Plans
    /\ rows \in [Targets -> RowStates]
    /\ verified \in BOOLEAN
    /\ run \in [Callers -> [pc : {"idle", "asking", "sending"}, left : SUBSET Targets]]

Blank == [shows |-> {}, baselined |-> FALSE, fresh |-> FALSE]
Resting == [pc |-> "idle", left |-> {}]

Init ==
    /\ open = Targets
    /\ picture = Blank
    /\ confirmed \in (SUBSET Targets) \ {{}}
    /\ plan = NoPlan /\ recorded = NoPlan
    /\ rows = [t \in Targets |-> "none"]
    /\ verified = FALSE
    /\ run = [c \in Callers |-> Resting]

-----------------------------------------------------------------------------
(* The picture of the broker (PositionService.poll).                       *)

\* With the store down the terminal is read all the same, but the first picture is no baseline.
Pictures == {[shows |-> open, baselined |-> b, fresh |-> TRUE] :
                b \in {TRUE} \cup (IF Fault("store") THEN {picture.baselined} ELSE {})}

Polls ==
    /\ picture' \in Pictures
    /\ UNCHANGED <<open, confirmed, plan, recorded, rows, verified, run>>

\* The picture ages, or the account is detached and its state forgotten.
Ages ==
    /\ picture' \in {[picture EXCEPT !.fresh = FALSE], Blank}
    /\ UNCHANGED <<open, confirmed, plan, recorded, rows, verified, run>>

-----------------------------------------------------------------------------
(* The run.                                                                *)

Free == \A c \in Callers : run[c].pc # "sending"    \* the account's lock

Asks(c) ==
    /\ run[c].pc = "idle"
    /\ run' = [run EXCEPT ![c].pc = "asking"]
    /\ UNCHANGED <<open, picture, confirmed, plan, recorded, rows, verified>>

\* _plan_of: a record that cannot be read is taken for none.
KnownPlans ==
    IF plan # NoPlan THEN {plan}
    ELSE {recorded} \cup (IF Fault("store") THEN {NoPlan} ELSE {})

\* A batch that is known is not decided again.
Resumes(c) ==
    /\ run[c].pc = "asking" /\ Free
    /\ \E p \in KnownPlans \ {NoPlan} : plan' = p
    /\ run' = [run EXCEPT ![c] = [pc |-> "sending", left |-> DOMAIN plan']]
    /\ UNCHANGED <<open, picture, confirmed, recorded, rows, verified>>

\* Mutant: what the picture does not show is taken for closed.
GoneTrusting(refreshed, seen) == "ALREADY_CLOSED"
\* _gone: only a terminal that was just read can say that a target is closed.
Gone(refreshed, seen) ==
    IF refreshed /\ seen.baselined THEN "ALREADY_CLOSED" ELSE "NOT_CLOSABLE"

Decision(refreshed, seen) ==
    [t \in confirmed |->
        IF t \notin seen.shows THEN Gone(refreshed, seen)
        ELSE IF t \in Foreign THEN "NOT_CLOSABLE"
        ELSE "SENT"]

\* The terminal is read, the plan made, kept and recorded; an event that cannot be stored is
\* dropped (the dispatcher swallows it), and the run goes on.
Decides(c) ==
    /\ run[c].pc = "asking" /\ Free
    /\ NoPlan \in KnownPlans
    /\ \/ picture' \in Pictures /\ plan' = Decision(TRUE, picture')
       \/ Fault("terminal") /\ UNCHANGED picture /\ plan' = Decision(FALSE, picture)
    /\ recorded' \in {plan'} \cup (IF Fault("store") THEN {recorded} ELSE {})
    /\ run' = [run EXCEPT ![c] = [pc |-> "sending", left |-> confirmed]]
    /\ verified' = FALSE
    /\ UNCHANGED <<open, confirmed, rows>>

Looked(c, t) == run' = [run EXCEPT ![c].left = @ \ {t}]

\* Submitted unless its id has a row; the row may at once be refused, simulated or unsent.
Submits(c, t) ==
    /\ run[c].pc = "sending" /\ t \in run[c].left
    /\ plan[t] = "SENT" /\ rows[t] = "none"
    /\ rows' \in {[rows EXCEPT ![t] = s] : s \in {Moving, "simulated", "rejected"}}
    /\ verified' = FALSE
    /\ Looked(c, t)
    /\ UNCHANGED <<open, picture, confirmed, plan, recorded>>

Skips(c, t) ==
    /\ run[c].pc = "sending" /\ t \in run[c].left
    /\ plan[t] # "SENT" \/ rows[t] # "none"
    /\ Looked(c, t)
    /\ UNCHANGED <<open, picture, confirmed, plan, recorded, rows, verified>>

\* The store fails while the row is looked for, written, or moved after the send: the item
\* is refused in memory, whatever became of the command.
IsRefused(c, t) ==
    /\ Fault("store")
    /\ run[c].pc = "sending" /\ t \in run[c].left
    /\ plan[t] = "SENT"
    /\ plan' = [plan EXCEPT ![t] = "REFUSED"]
    /\ rows' \in {rows} \cup (IF rows[t] = "none" THEN {[rows EXCEPT ![t] = Moving]} ELSE {})
    /\ verified' = (verified /\ rows' = rows)
    /\ Looked(c, t)
    /\ UNCHANGED <<open, picture, confirmed, recorded>>

Returns(c) ==
    /\ run[c].pc = "sending" /\ run[c].left = {}
    /\ run' = [run EXCEPT ![c] = Resting]
    /\ UNCHANGED <<open, picture, confirmed, plan, recorded, rows, verified>>

-----------------------------------------------------------------------------
(* Around the run.                                                         *)

BrokerCloses(t) ==
    /\ t \in open
    /\ open' = open \ {t}
    /\ UNCHANGED <<picture, confirmed, plan, recorded, rows, verified, run>>

\* The execution service reports, loses or settles a command.
CommandMoves(t) ==
    /\ rows[t] \in {Moving, Doubt}
    /\ rows' \in {[rows EXCEPT ![t] = s] : s \in {Doubt} \cup Settled}
    /\ "not found" = rows'[t] => t \notin open
    /\ verified' = FALSE
    /\ UNCHANGED <<open, picture, confirmed, plan, recorded, run>>

\* verify, or the reconciliation's own job: it found a critical divergence, or none.
Reconciles ==
    /\ verified' \in BOOLEAN
    /\ UNCHANGED <<open, picture, confirmed, plan, recorded, rows, run>>

Restarts ==
    /\ Fault("restart")
    /\ plan' = NoPlan /\ picture' = Blank /\ verified' = FALSE
    /\ run' = [c \in Callers |-> Resting]
    /\ UNCHANGED <<open, confirmed, recorded, rows>>

Next ==
    \/ Polls \/ Ages \/ Reconciles \/ Restarts
    \/ \E t \in Targets : BrokerCloses(t) \/ CommandMoves(t)
    \/ \E c \in Callers :
          \/ Asks(c) \/ Resumes(c) \/ Decides(c) \/ Returns(c)
          \/ \E t \in Targets : Submits(c, t) \/ Skips(c, t) \/ IsRefused(c, t)

Spec == Init /\ [][Next]_vars

-----------------------------------------------------------------------------
(* The report.                                                             *)

\* A batch whose record is gone is rebuilt from its commands.
ItemsFromRows == [t \in {u \in Targets : rows[u] # "none"} |-> "SENT"]
Readings == {IF p = NoPlan THEN ItemsFromRows ELSE p : p \in KnownPlans}

\* A broker that cannot be seen confirms nothing.
StillOpen(t) == ~picture.baselined \/ t \in picture.shows
RowOf(items, t) == IF items[t] = "SENT" THEN rows[t] ELSE "none"

WithoutRow(disposition, still) ==
    CASE disposition = "REFUSED" -> "REJECTED"
      [] disposition = "NOT_CLOSABLE" -> IF still THEN "NOT_CLOSABLE" ELSE "ALREADY_CLOSED"
      [] disposition = "SENT" /\ still -> "UNKNOWN"
      [] OTHER -> "ALREADY_CLOSED"

\* A command done while the picture still shows its target: a mismatch, after a grace.
Classify(disposition, row, still) ==
    CASE row = "none" -> WithoutRow(disposition, still)
      [] row = Moving -> "IN_PROGRESS"
      [] row = Doubt -> "UNKNOWN"
      [] row = Done -> IF still THEN "VERIFYING or MISMATCH" ELSE "CONFIRMED"
      [] row = "simulated" -> IF still THEN "SIMULATED" ELSE "ALREADY_CLOSED"
      [] row = "not found" -> IF still THEN "REJECTED" ELSE "ALREADY_CLOSED"
      [] OTHER -> "REJECTED"

Statuses(items) ==
    {Classify(items[t], RowOf(items, t), StillOpen(t)) : t \in DOMAIN items}

\* assess: nothing moving, no problem, and a reconciliation since.
AllDone(items) == Statuses(items) \subseteq {"CONFIRMED", "ALREADY_CLOSED"}
\* Mutant: a command that is done is taken at its word.
IsCompleteByReport(items) ==
    /\ items # NoPlan
    /\ \A t \in DOMAIN items : RowOf(items, t) = Done \/ items[t] = "ALREADY_CLOSED"
    /\ verified /\ picture.fresh
IsComplete(items) == items # NoPlan /\ AllDone(items) /\ verified /\ picture.fresh

-----------------------------------------------------------------------------
(* Properties.                                                             *)

\* "Nothing is called a success until the broker's own picture agrees": whatever was retried,
\* lost, refused or restarted, a COMPLETE report is true of the broker, for every target it
\* lists, and for every target the trader confirmed when the plan is known.
CompleteIsTrue ==
    \A items \in Readings :
        IsComplete(items) =>
            /\ DOMAIN items \cap open = {}
            /\ plan # NoPlan => confirmed \cap open = {}

\* "REFUSED: the engine raised before a command existed: nothing was sent".
RefusedIsNothing == \A t \in DOMAIN plan : plan[t] = "REFUSED" => rows[t] = "none"
=============================================================================
