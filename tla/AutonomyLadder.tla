--------------------------- MODULE AutonomyLadder ---------------------------
(***************************************************************************)
(* The rules of the autonomy ladder (domain/autonomy/state.py), as pure     *)
(* operators over the modes: which move each gesture makes, and when it is  *)
(* refused.  A refusal leaves the mode as it is.                            *)
(***************************************************************************)
EXTENDS Integers

\* LADDER, by position; HALTED ranks below OFF: it permits nothing.
RankOf == [HALTED |-> -1, OFF |-> 0, OBSERVE |-> 1, PAPER |-> 2,
           CONFIRM |-> 3, ARMED |-> 4, AUTONOMOUS |-> 5]
Rank(m) == RankOf[m]

Modes == DOMAIN RankOf
Rungs == Modes \ {"HALTED"}

\* The modes that send orders without a human gesture per order.
Automatic == {"ARMED", "AUTONOMOUS"}

Lowest(a, b) == IF Rank(b) < Rank(a) THEN b ELSE a

\* Mutant: any rung above may be armed.
MayArmAnyRung(mode, target, ceiling, ready) ==
    /\ mode # "HALTED"
    /\ Rank(mode) < Rank(target) /\ Rank(target) <= Rank(ceiling)
    /\ target \in Automatic => ready

\* arm: exactly one rung, under the ceiling, with a green readiness for an automatic one.
MayArm(mode, target, ceiling, ready) ==
    /\ mode # "HALTED"
    /\ Rank(target) = Rank(mode) + 1
    /\ Rank(target) <= Rank(ceiling)
    /\ target \in Automatic => ready

\* disarm: a step down, never up; from HALTED only an acknowledgement, landing on OFF.
Disarmed(mode, target, acknowledge) ==
    IF mode # "HALTED" THEN Lowest(mode, target)
    ELSE IF acknowledge THEN "OFF" ELSE mode

\* Mutant: a lowered ceiling stops the next climb and nothing else.
ClampedNever(mode, ceiling) == mode

\* clamp_to_ceiling: a ceiling lowered under a running mode brings it down.
Clamped(mode, ceiling) == Lowest(mode, ceiling)

\* The window of a mode just entered by a climb: ARMED has one.
WindowOf(target) == IF target = "ARMED" THEN "open" ELSE "none"
=============================================================================
