---------------------------- MODULE AgentRegistry ----------------------------
(***************************************************************************)
(* The server side of the agent link (infrastructure/mt5/ea_link.py): which *)
(* connection speaks for which login, who may take a login over, and the    *)
(* last heartbeats the execution service keeps beside it.  Composed with    *)
(* the halt: the supervisor tells the agents that do not report one         *)
(* (runtime/supervisor.py, _enforce_halt).                                  *)
(***************************************************************************)
EXTENDS FiniteSets

CONSTANTS
    Connections,   \* sockets, reused once they are over
    Logins,
    Capable        \* the connections of agents that know the halt message

RegistryAssumption == Capable \subseteq Connections

NoLogin == "no login"
NoConnection == "no connection"
NamesAssumption == NoLogin \notin Logins /\ NoConnection \notin Connections

VARIABLES
    conn,       \* each connection, with the agent behind it
    byLogin,    \* _by_login
    beats,      \* the logins of _last_beat (services/execution.py)
    halted      \* autonomy is HALTED

vars == <<conn, byLogin, beats, halted>>

\* really: the agent's own kill switch; shown: as last reported; told: a halt in the socket;
\* owed: the login whose registration is still to be announced.
Unused == [st |-> "unused", login |-> NoLogin, silent |-> FALSE, really |-> FALSE,
           shown |-> FALSE, told |-> FALSE, owed |-> NoLogin]

RegistryTypeOK ==
    /\ conn \in [Connections -> [st : {"unused", "open", "closed"}, login : Logins \cup {NoLogin},
                                 silent : BOOLEAN, really : BOOLEAN, shown : BOOLEAN,
                                 told : BOOLEAN, owed : Logins \cup {NoLogin}]]
    /\ byLogin \in [Logins -> Connections \cup {NoConnection}]
    /\ beats \subseteq Logins
    /\ halted \in BOOLEAN

Init ==
    /\ conn = [c \in Connections |-> Unused]
    /\ byLogin = [l \in Logins |-> NoConnection]
    /\ beats = {}
    /\ halted = FALSE

Registered(c) == conn[c].login # NoLogin /\ byLogin[conn[c].login] = c
Reading(c) == conn[c].st = "open" /\ conn[c].owed = NoLogin
Closed(c) == conn' = [conn EXCEPT ![c].st = "closed"]

-----------------------------------------------------------------------------
(* A connection.                                                           *)

Accepts(c) ==
    /\ conn[c].st = "unused"
    /\ \E really \in BOOLEAN :
          conn' = [conn EXCEPT ![c] = [Unused EXCEPT !.st = "open", !.really = really]]
    /\ UNCHANGED <<byLogin, beats, halted>>

\* A hello without the token, or with the wrong one.
IsRefused(c) ==
    /\ Reading(c)
    /\ Closed(c)
    /\ UNCHANGED <<byLogin, beats, halted>>

\* A connection that announces another login gives up the one it had.
GaveUp(c, l) == IF Registered(c) /\ conn[c].login # l THEN conn[c].login ELSE NoLogin
Without(table, l) == IF l = NoLogin THEN table ELSE [table EXCEPT ![l] = NoConnection]
Forgotten(l) == beats \ {l}

\* Somebody else speaks for the login, and was heard recently.
Taken(c, l) == byLogin[l] \notin {c, NoConnection} /\ ~conn[byLogin[l]].silent

DuplicateIsRefused(c, l) ==
    /\ Reading(c) /\ Taken(c, l)
    /\ Closed(c)
    /\ byLogin' = Without(byLogin, GaveUp(c, l))
    /\ beats' = Forgotten(GaveUp(c, l))
    /\ UNCHANGED halted

\* The newcomer registers, and takes over from a silent one, which is closed.  A login given
\* up is announced first, and that is awaited.
Registers(c, l) ==
    /\ Reading(c) /\ ~Taken(c, l)
    /\ byLogin' = [Without(byLogin, GaveUp(c, l)) EXCEPT ![l] = c]
    /\ conn' = [d \in Connections |->
          IF d = c THEN [conn[c] EXCEPT !.login = l, !.silent = FALSE, !.shown = conn[c].really,
                                        !.owed = IF GaveUp(c, l) = NoLogin THEN NoLogin ELSE l]
          ELSE IF d = byLogin[l] THEN [conn[d] EXCEPT !.st = "closed"]
          ELSE conn[d]]
    /\ beats' = IF GaveUp(c, l) = NoLogin THEN beats \cup {l} ELSE Forgotten(GaveUp(c, l))
    /\ UNCHANGED halted

\* The second announcement, after the first one's await.
Announces(c) ==
    /\ conn[c].owed # NoLogin
    /\ beats' = beats \cup {conn[c].owed}
    /\ conn' = [conn EXCEPT ![c].owed = NoLogin]
    /\ UNCHANGED <<byLogin, halted>>

\* Nothing counts before a registered hello.
Beats(c) ==
    /\ Reading(c)
    /\ conn' = [conn EXCEPT ![c].silent = FALSE,
                            ![c].shown = IF Registered(c) THEN conn[c].really ELSE @]
    /\ beats' = IF Registered(c) THEN beats \cup {conn[c].login} ELSE beats
    /\ UNCHANGED <<byLogin, halted>>

FallsSilent(c) ==
    /\ conn[c].st = "open" /\ ~conn[c].silent
    /\ conn' = [conn EXCEPT ![c].silent = TRUE]
    /\ UNCHANGED <<byLogin, beats, halted>>

\* The watchdog closes a silent connection; the agent, or the network, any one.
Drops(c) ==
    /\ conn[c].st = "open"
    /\ Closed(c)
    /\ UNCHANGED <<byLogin, beats, halted>>

\* Mutant: whoever ends takes the login's registration with it.
EndsTakingTheLogin(c) ==
    LET l == conn[c].login
    IN  /\ conn[c].st = "closed" /\ conn[c].owed = NoLogin
        /\ byLogin' = Without(byLogin, l) /\ beats' = Forgotten(l)
        /\ conn' = [conn EXCEPT ![c] = Unused]
        /\ UNCHANGED halted

\* _serve, finally: a connection that was taken over removes nothing.
Ends(c) ==
    LET l == IF Registered(c) THEN conn[c].login ELSE NoLogin
    IN  /\ conn[c].st = "closed" /\ conn[c].owed = NoLogin
        /\ byLogin' = Without(byLogin, l) /\ beats' = Forgotten(l)
        /\ conn' = [conn EXCEPT ![c] = Unused]
        /\ UNCHANGED halted

-----------------------------------------------------------------------------
(* The halt.                                                               *)

\* send_halt: to a connection that knows the message; a write that fails closes it.
CanBeTold == {c \in Connections : Registered(c) /\ conn[c].st = "open" /\ c \in Capable}
HaltsAgents ==
    \E failing \in SUBSET CanBeTold :
        conn' = [c \in Connections |->
            IF c \in failing THEN [conn[c] EXCEPT !.st = "closed"]
            ELSE IF c \in CanBeTold THEN [conn[c] EXCEPT !.told = TRUE]
            ELSE conn[c]]

\* Mutant: only a connection that reports it is free is told, the first one found.
EnforcesOnTheFirst ==
    /\ halted
    /\ LET free == {c \in Connections : Registered(c) /\ ~conn[c].shown}
       IN  /\ free # {}
           /\ LET first == CHOOSE c \in free : TRUE
              IN  conn' = IF first \in CanBeTold THEN [conn EXCEPT ![first].told = TRUE] ELSE conn
    /\ UNCHANGED <<byLogin, beats, halted>>

\* One agent that does not report the halt is enough for all of them to be told again.
Enforces ==
    /\ halted
    /\ \E c \in Connections : Registered(c) /\ ~conn[c].shown
    /\ HaltsAgents
    /\ UNCHANGED <<byLogin, beats, halted>>

\* AutonomyService.halt tells the agents once it is made.
Halts ==
    /\ halted' = TRUE
    /\ HaltsAgents
    /\ UNCHANGED <<byLogin, beats>>

Acknowledges ==
    /\ halted /\ halted' = FALSE
    /\ UNCHANGED <<conn, byLogin, beats>>

\* The agent reads the message; a person frees it on the chart.
Obeys(c) ==
    /\ conn[c].told /\ conn[c].st = "open"
    /\ conn' = [conn EXCEPT ![c].told = FALSE, ![c].really = TRUE]
    /\ UNCHANGED <<byLogin, beats, halted>>
IsFreed(c) ==
    /\ conn[c].st = "open" /\ conn[c].really
    /\ conn' = [conn EXCEPT ![c].really = FALSE]
    /\ UNCHANGED <<byLogin, beats, halted>>

Next ==
    \/ \E c \in Connections :
          \/ Accepts(c) \/ IsRefused(c) \/ Announces(c) \/ Beats(c) \/ FallsSilent(c) \/ Drops(c)
          \/ Ends(c) \/ Obeys(c) \/ IsFreed(c)
          \/ \E l \in Logins : DuplicateIsRefused(c, l) \/ Registers(c, l)
    \/ Enforces \/ Halts \/ Acknowledges

Spec == Init /\ [][Next]_vars

\* The supervisor ticks, an agent that is connected beats and reads what it is sent, and a
\* socket that was closed is cleaned up.
Fairness ==
    /\ WF_vars(Enforces)
    /\ \A c \in Connections :
          /\ WF_vars(Beats(c)) /\ WF_vars(Obeys(c)) /\ WF_vars(Announces(c)) /\ WF_vars(Ends(c))
FairSpec == Spec /\ Fairness

-----------------------------------------------------------------------------
(* Properties.                                                             *)

\* A registration ends by its own connection's end, by that connection giving it up, or
\* because it was silent: never by another connection's end.
OnlySilentIsTakenOver ==
    [][\A l \in Logins : LET c == byLogin[l] IN
          c # NoConnection /\ byLogin'[l] # c =>
              \/ conn[c].silent
              \/ conn'[c].st # "open"
              \/ conn'[c].login # l]_vars

\* "A halt is only worth anything if every agent is halted": while a halt stands, every agent
\* that stays connected and knows the message gets it, whatever its neighbours know.
HaltReachesEveryAgent ==
    \A c \in Capable :
        <>[](halted /\ Registered(c) /\ conn[c].st = "open") => []<>(conn[c].really)
=============================================================================
