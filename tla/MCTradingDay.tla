------------------------------ MODULE MCTradingDay ------------------------------
(* The values of the trading day's constants for TLC that a configuration cannot write. *)
EXTENDS TradingDay, TLC

\* A demo account under any ceiling, a real one under CONFIRM.
MaxModeHere == ("demo" :> "AUTONOMOUS") @@ ("real" :> "CONFIRM")
=============================================================================
