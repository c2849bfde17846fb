--------------------------------- MODULE MCDesk ---------------------------------
(* The values of the desk's constants for TLC that a configuration cannot write. *)
EXTENDS Desk, TLC

\* The grid of the risk: one row above the initial capital, one below, and the stop.
GridHere == [level \in -2..1 |-> IF level = 1 THEN 3 ELSE IF level = -2 THEN 0 ELSE 2]
LowestHere == -2
\* A gain, and a loss.
BalanceHere == (0 :> 10) @@ (1 :> 13) @@ (2 :> 8)
\* Two accounts whose days start at different times.
MidnightHere == ("a1" :> 0) @@ ("a2" :> 1)
\* A release that is scheduled twice, after one that never is and must be asked for all the same.
WhitelistHere == <<"cpi", "fomc">>
DatesHere == ("cpi" :> {}) @@ ("fomc" :> {1, 4})
\* An Exness demo, an Exness real account and FTMO's.
Shows(server, company, terminal, money, leverage, suffix) ==
    [server |-> server, company |-> company, terminal |-> terminal, mode |-> money,
     currency |-> TRUE, leverage |-> leverage, suffixes |-> {suffix}]
TerminalsHere == {
    Shows({"exness"}, {"exness"}, {"absent"}, "demo", 200, "m"),
    Shows({"exness"}, {"exness"}, {}, "real", 200, "m"),
    Shows({"ftmo"}, {"ftmo"}, {}, "real", 100, "")}
DeclarationsHere == {[provider |-> p, environment |-> "demo"] : p \in {"exness", "ftmo"}}
=============================================================================
