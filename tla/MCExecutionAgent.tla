-------------------------- MODULE MCExecutionAgent --------------------------
(* Values for the constants of ExecutionAgent: one opening, one closing. *)
EXTENDS ExecutionAgent, TLC

CONSTANTS open1, close1

OneCommand == {open1}
OneExit == {close1}
NoExit == {}
BothModes == {"OBSERVE", "CONFIRM"}
ConfirmOnly == {"CONFIRM"}
HaltLinkAndCrash == {"crash", "linkLoss", "halt"}
StoreFaults == {"crash", "linkLoss", "storeWrite", "history", "halt"}
=============================================================================
