----------------------------- MODULE MCAutonomy -----------------------------
(* Autonomy for TLC.                                                        *)
EXTENDS Autonomy, TLC

CONSTANTS p1, p2, duty, supervisor

PersonAndSupervisor == {p1, supervisor}
TwoPersons == {p1, p2}
TheSupervisor == {supervisor}
LowAndHighCeilings == {"OBSERVE", "AUTONOMOUS"}
AllAutonomyFaults == {"restart", "store", "timeout"}
PersonSymmetry == Permutations(TwoPersons)
=============================================================================
