----------------------------- MODULE RiskLedger -----------------------------
(* The lockout ledger of one account (services/risk.py, domain/risk/lockout.py, risk_lockouts):   *)
(* the risk cycle opens and expires lockouts, a person presses the kill switch or acknowledges.   *)
(* No lock orders them: each reads the ledger, awaits, and writes.                                *)
EXTENDS Naturals, FiniteSets

CONSTANTS
    Rows,           \* lockout ids
    Cycles,         \* risk cycles that may be running at once: the job's, and those gestures end with
    Gestures,       \* gestures of a person that may be running at once
    MaxLosses,      \* bound: losing trades in the story
    Limit           \* max_consecutive_losses

LedgerAssumption == MaxLosses \in Nat

Kinds == {"kill switch", "breach", "pause"}
Pcs == {"idle", "built", "kill", "acked"}

VARIABLES
    ledger,         \* row -> its kind, the loss it is timed from, whether it was cleared and how
    losses,         \* losing trades so far: the last one names the loss
    streak,         \* of them, the trailing run
    breached,       \* BOOLEAN: a hard limit is reached as the gates compute it now
    over,           \* the losses whose pause is over
    status,         \* the read model the last cycle published: "open" or "locked"
    op              \* operation -> where it is and what it read

vars == <<ledger, losses, streak, breached, over, status, op>>

Operations == Cycles \cup Gestures
NoRow == "no lockout"
Free == [kind |-> "none", loss |-> 0, cleared |-> FALSE, seen |-> FALSE]
Resting == [pc |-> "idle", active |-> NoRow, streak |-> 0, loss |-> 0, breached |-> FALSE]

LedgerTypeOK ==
    /\ ledger \in [Rows -> [kind : Kinds \cup {"none"}, loss : 0..MaxLosses, cleared : BOOLEAN, seen : BOOLEAN]]
    /\ losses \in 0..MaxLosses /\ streak \in 0..losses /\ breached \in BOOLEAN /\ over \subseteq 1..MaxLosses
    /\ status \in {"open", "locked"}
    /\ op \in [Operations -> [pc : Pcs, active : Rows \cup {NoRow}, streak : 0..MaxLosses,
                              loss : 0..MaxLosses, breached : BOOLEAN]]

Init ==
    /\ ledger = [r \in Rows |-> Free] /\ losses = 0 /\ streak = 0 /\ breached = FALSE /\ over = {} /\ status = "open"
    /\ op = [o \in Operations |-> Resting]

Expired(r) == ledger[r].kind = "pause" /\ ledger[r].loss \in over
Open(r) == ledger[r].kind # "none" /\ ~ledger[r].cleared
\* active_lockout: an expired pause does not read back as active; the newest row otherwise.
Active == {r \in Rows : Open(r) /\ ~Expired(r)}
ActiveRows == IF Active = {} THEN {NoRow} ELSE Active

\* Mutant: a streak that was paid for locks again.
StreakForGateUnserved == streak
\* _streak_for_gate: the pause that ends last was served, and the last loss is no later.
StreakForGate ==
    IF \E r \in Rows : ledger[r].kind = "pause" /\ ledger[r].loss = losses /\ losses \in over THEN 0 ELSE streak

-----------------------------------------------------------------------------
\* _build: the lockout on record, the streak and the limits, as one evaluation read them.
Builds(o) ==
    /\ op[o].pc = "idle"
    /\ \E r \in ActiveRows :
         op' = [op EXCEPT ![o] = [pc |-> "built", active |-> r, streak |-> StreakForGate,
                                   loss |-> losses, breached |-> breached]]
    /\ UNCHANGED <<ledger, losses, streak, breached, over, status>>

\* Bound: what a person or the market does leaves a row for each cycle, and for a kill switch on its way.
Room ==
    Cardinality({r \in Rows : ledger[r].kind = "none"}) > Cardinality(Cycles \cup {o \in Gestures : op[o].pc = "kill"})
Opened(kind, loss) ==
    \E r \in Rows : /\ ledger[r].kind = "none"
                    /\ ledger' = [ledger EXCEPT ![r] = [Free EXCEPT !.kind = kind, !.loss = loss]]
\* expire_pauses.
Stamped == [r \in Rows |-> IF Open(r) /\ Expired(r) THEN [ledger[r] EXCEPT !.cleared = TRUE] ELSE ledger[r]]

\* detect_consecutive_loss_pause and detect_new_lockout: edge-triggered, on the ledger as it was read.
NewKind(o) ==
    IF op[o].active # NoRow THEN "none"
    ELSE IF op[o].breached THEN "breach" ELSE IF op[o].streak >= Limit THEN "pause" ELSE "none"

Gates(o) == op[o].breached \/ op[o].streak >= Limit
\* apply_active_lockout: an expired pause passes through.
Held(o) == op[o].active # NoRow /\ ~Expired(op[o].active)
\* _run_lockouts: pauses whose clock ran out are stamped, then what is new is opened.
RunsLockouts(o) ==
    /\ op[o].pc = "built"
    /\ \/ NewKind(o) = "none" /\ ledger' = Stamped
       \/ /\ NewKind(o) # "none"
          /\ \E r \in Rows :
               /\ ledger[r].kind = "none"
               /\ ledger' = [Stamped EXCEPT ![r] = [Free EXCEPT !.kind = NewKind(o), !.loss = op[o].loss]]
    /\ status' = IF Gates(o) \/ Held(o) THEN "locked" ELSE "open"
    /\ op' = [op EXCEPT ![o] = Resting]
    /\ UNCHANGED <<losses, streak, breached, over>>
\* The database refuses: the cycle keeps the last status.
CycleFails(o) ==
    /\ op[o].pc = "built" /\ op' = [op EXCEPT ![o] = Resting]
    /\ UNCHANGED <<ledger, losses, streak, breached, over, status>>

\* engage_kill_switch: nothing to do when it is the active lockout; else its row is opened.
PressesKill(o) ==
    /\ op[o].pc = "idle" /\ Room /\ (Active = {} \/ \E r \in Active : ledger[r].kind # "kill switch")
    /\ op' = [op EXCEPT ![o].pc = "kill"]
    /\ UNCHANGED <<ledger, losses, streak, breached, over, status>>
Kills(o) ==
    /\ op[o].pc = "kill" /\ Opened("kill switch", 0)
    /\ op' = [op EXCEPT ![o] = Resting]
    /\ UNCHANGED <<losses, streak, breached, over, status>>

\* acknowledge: the active lockout, which must be untimed, is stamped seen ...
Acknowledges(o) ==
    /\ op[o].pc = "idle" /\ Room
    /\ \E r \in Active : /\ ledger[r].kind # "pause"
                         /\ ledger' = [ledger EXCEPT ![r].seen = TRUE]
                         /\ op' = [op EXCEPT ![o] = [Resting EXCEPT !.pc = "acked", !.active = r]]
    /\ UNCHANGED <<losses, streak, breached, over, status>>
\* ... then every lockout that is not cleared is.
Clears(o) ==
    /\ op[o].pc = "acked"
    /\ ledger' = [r \in Rows |-> IF Open(r) THEN [ledger[r] EXCEPT !.cleared = TRUE] ELSE ledger[r]]
    /\ op' = [op EXCEPT ![o] = Resting]
    /\ UNCHANGED <<losses, streak, breached, over, status>>

\* A trade closes; limits are reached and, a day or a deposit later, no longer; the clock runs.
Loses ==
    /\ losses < MaxLosses /\ losses' = losses + 1 /\ streak' = streak + 1
    /\ UNCHANGED <<ledger, breached, over, status, op>>
Wins == streak > 0 /\ streak' = 0 /\ UNCHANGED <<ledger, losses, breached, over, status, op>>
LimitMoves == Room /\ breached' = ~breached /\ UNCHANGED <<ledger, losses, streak, over, status, op>>
PauseEnds ==
    /\ losses \notin over /\ losses > 0 /\ over' = over \cup 1..losses
    /\ UNCHANGED <<ledger, losses, streak, breached, status, op>>

Next ==
    \/ \E o \in Cycles : Builds(o) \/ RunsLockouts(o) \/ CycleFails(o)
    \/ \E o \in Gestures : PressesKill(o) \/ Kills(o) \/ Acknowledges(o) \/ Clears(o)
    \/ Loses \/ Wins \/ LimitMoves \/ PauseEnds
Spec == Init /\ [][Next]_vars

-----------------------------------------------------------------------------
\* The scheduler runs the risk cycle; the database does not refuse every cycle; a gesture goes on.
Fairness ==
    /\ \A o \in Cycles : WF_vars(Builds(o)) /\ SF_vars(RunsLockouts(o))
    /\ \A o \in Gestures : WF_vars(Kills(o)) /\ WF_vars(Clears(o))
FairSpec == Spec /\ Fairness

Untimed == {r \in Rows : Open(r) /\ ledger[r].kind # "pause"}
Quiet == ~breached /\ Untimed = {} /\ losses \in over \cup {0} /\ \A o \in Operations : op[o].pc \in {"idle", "built"}

\* "A streak whose last loss is no later than the end of a pause already served has been paid for: it
\* must not lock the account a second time" (_streak_for_gate): a streak that still stands keeps the account
\* locked for its pause, and not for ever after, whatever rows the cycles and the gestures left.
PauseIsServed == <>[]Quiet => <>[](status = "open")

\* "Every untimed lockout needs an explicit acknowledgement to clear" (cleared_by_for_ack).
EachIsAcknowledged ==
    \A r \in Rows : ledger[r].cleared /\ ledger[r].kind \in {"kill switch", "breach"} => ledger[r].seen
=============================================================================
