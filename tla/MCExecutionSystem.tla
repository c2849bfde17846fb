-------------------------- MODULE MCExecutionSystem --------------------------
(* Values for the constants of ExecutionSystem: one command, an opening. *)
EXTENDS ExecutionSystem, TLC

CONSTANTS c1, t1, t2, buy

OneCommand == {c1}
NoExit == {}
OneCaller == {t1}
TwoCallers == {t1, t2}
OneContent == {buy}
AgentOnly == {"agent"}
ConfirmOnly == {"CONFIRM"}
NoFaults == {}
LinkLoss == {"linkLoss"}
LinkAndCrash == {"crash", "linkLoss"}
CoreCrashes == {"crash"}
CallerSymmetry == Permutations(TwoCallers)
=============================================================================
