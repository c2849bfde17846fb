------------------------- MODULE MCExecutionService -------------------------
(* Values for the constants of ExecutionService: one commandId, two tasks, two *)
(* orders that could claim it.                                              *)
EXTENDS ExecutionService, TLC

CONSTANTS c1, t1, t2, buy, sell

OneCommand == {c1}
TwoCallers == {t1, t2}
TwoContents == {buy, sell}
OneContent == {buy}
Everywhere == {"agent", "local"}
AllFaults == {"crash", "db", "drain"}
NoFaults == {}
TaskAndOrderSymmetry == Permutations(TwoCallers) \cup Permutations(TwoContents)
=============================================================================
