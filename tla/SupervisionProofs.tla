--------------------------- MODULE SupervisionProofs ---------------------------
(***************************************************************************)
(* The proofs of the safety of what watches the core. Each section proves  *)
(* a part for every value of its constants, from its specification as      *)
(* Supervision instantiates it (S!Spec, R!Spec, T!Spec, L!Spec); the last  *)
(* one shows that Supervision implements each of them, and draws the       *)
(* theorem.                                                                *)
(***************************************************************************)
EXTENDS Supervision, FiniteSetTheorems, SequenceTheorems, TLAPS

-----------------------------------------------------------------------------
(* The supervisor (runtime/supervisor.py, domain/system/supervision.py).   *)

(* The ladder: each mode and its rank, and a disarm comes down. *)
LEMMA RanksAreKnown ==
    /\ S!Modes = {"HALTED", "OFF", "OBSERVE", "PAPER", "CONFIRM", "ARMED", "AUTONOMOUS"}
    /\ S!Rungs = {"OFF", "OBSERVE", "PAPER", "CONFIRM", "ARMED", "AUTONOMOUS"}
    /\ S!Rank("HALTED") = -1 /\ S!Rank("OFF") = 0 /\ S!Rank("OBSERVE") = 1 /\ S!Rank("PAPER") = 2
    /\ S!Rank("CONFIRM") = 3 /\ S!Rank("ARMED") = 4 /\ S!Rank("AUTONOMOUS") = 5
BY DEF S!Modes, S!Rungs, S!Rank, S!RankOf

LEMMA DisarmingLowers ==
    ASSUME NEW m \in S!Modes, NEW rung \in S!Rungs
    PROVE  /\ S!Disarmed(m, rung, FALSE) \in S!Modes
           /\ S!Rank(S!Disarmed(m, rung, FALSE)) <= S!Rank(m)
           /\ S!Disarmed(m, rung, TRUE) \in S!Modes
BY RanksAreKnown DEF S!Disarmed, S!Lowest

LEMMA HaltIsLowest == \A m \in S!Modes : S!Rank("HALTED") <= S!Rank(m)
BY RanksAreKnown

(* What is found is in the policy, or goes by its severity. *)
LEMMA FindingsAreCodes == \A w, m : S!Findings(w, m) \subseteq S!Codes
<1>1. {"stale_market_data", "mt5_disconnected", "agent_heartbeat_stale", "database_unavailable", "execution_failure",
       "unknown_command", "reconciliation_failed", "unexpected_position", "critical_error"} \subseteq DOMAIN S!Policy
  BY DEF S!Policy
<1> QED  BY <1>1 DEF S!Findings, S!CoreFindings, S!AccountFindings, S!ReconciliationFindings, S!Codes

Ticks == [pc : {"idle", "attaching", "acting", "recording"}, found : SUBSET S!Codes, automatic : BOOLEAN]

LEMMA IdleIsATick == S!Idle \in Ticks
BY DEF S!Idle, Ticks

LEMMA BackingOff ==
    ASSUME S!SupervisorAssumption, NEW b \in [attempts : 0..ShortDelays, wait : {"due", "short", "long", "seen"}]
    PROVE  S!BackoffAfter(b) \in [attempts : 0..ShortDelays, wait : {"due", "short", "long", "seen"}]
BY DEF S!SupervisorAssumption, S!BackoffAfter

LEMMA InitialSupervisor == S!SupervisorAssumption /\ S!Init => S!SupervisorTypeOK
<1> SUFFICES ASSUME S!SupervisorAssumption, S!Init PROVE S!SupervisorTypeOK
  OBVIOUS
<1>1. S!Fresh \in [attempts : 0..ShortDelays, wait : {"due", "short", "long", "seen"}]
  BY DEF S!SupervisorAssumption, S!Fresh
<1> QED  BY <1>1, IdleIsATick, RanksAreKnown DEF S!Init, S!SupervisorTypeOK, Ticks

LEMMA TickKeepsTypes ==
    ASSUME S!SupervisorAssumption, S!SupervisorTypeOK, S!TickBegins \/ S!TickSteps
    PROVE  S!SupervisorTypeOK' /\ S!Rank(mode') <= S!Rank(mode)
<1>0. tick \in Ticks /\ mode \in S!Modes /\ S!Rank(mode) <= S!Rank(mode)
  BY RanksAreKnown DEF S!SupervisorTypeOK, Ticks
<1>1. CASE S!TickBegins
  <2>1. tick' \in Ticks /\ mode' = mode /\ blocked' \in BOOLEAN
    BY <1>1, FindingsAreCodes DEF S!TickBegins, Ticks, S!SafeMode
  <2>2. since' \in [S!Escalating -> {"no", "recent", "long"}]
    BY <1>1 DEF S!TickBegins, S!SupervisorTypeOK
  <2>3. backoff' \in [attempts : 0..ShortDelays, wait : {"due", "short", "long", "seen"}]
    BY <1>1 DEF S!TickBegins, S!SupervisorTypeOK, S!Fresh, S!SupervisorAssumption
  <2> QED  BY <1>0, <1>1, <2>1, <2>2, <2>3 DEF S!TickBegins, S!SupervisorTypeOK, Ticks
<1>2. CASE S!Attaches \/ S!AttachIsCut
  <2>1. backoff' \in [attempts : 0..ShortDelays, wait : {"due", "short", "long", "seen"}]
    BY <1>2, BackingOff DEF S!Attaches, S!AttachIsCut, S!SupervisorTypeOK
  <2>2. tick' \in Ticks
    BY <1>0, <1>2, IdleIsATick DEF S!Attaches, S!AttachIsCut, S!Goes, Ticks
  <2> QED  BY <1>0, <1>2, <2>1, <2>2 DEF S!Attaches, S!AttachIsCut, S!SupervisorTypeOK, Ticks
<1>3. CASE S!Acts
  <2>1. mode' \in S!Modes /\ S!Rank(mode') <= S!Rank(mode)
    <3>1. mode' = "HALTED" \/ mode' = S!Disarmed(mode, "OBSERVE", FALSE) \/ mode' = mode
      BY <1>3 DEF S!Acts, S!Lowers
    <3> QED  BY <1>0, <3>1, RanksAreKnown, DisarmingLowers, HaltIsLowest
  <2>2. tick' \in Ticks
    BY <1>0, <1>3, IdleIsATick DEF S!Acts, S!Lowers, S!Goes, Ticks
  <2> QED  BY <1>3, <2>1, <2>2 DEF S!Acts, S!memory, S!SupervisorTypeOK, Ticks
<1>4. CASE S!Records
  <2>1. known' \subseteq S!Codes /\ opened' \subseteq S!Codes
    BY <1>0, <1>4 DEF S!Records, S!Settled, S!Serious, S!SupervisorTypeOK, Ticks
  <2> QED  BY <1>0, <1>4, <2>1, IdleIsATick DEF S!Records, S!SupervisorTypeOK, Ticks
<1> QED  BY <1>1, <1>2, <1>3, <1>4 DEF S!TickSteps

LEMMA SupervisorStep ==
    ASSUME S!SupervisorAssumption, S!SupervisorTypeOK, [S!Next]_(S!vars) PROVE S!SupervisorTypeOK'
<1>1. CASE S!TickBegins \/ S!TickSteps
  BY <1>1, TickKeepsTypes
<1>2. CASE S!WorldMoves \/ S!Persists
  BY <1>2 DEF S!WorldMoves, S!Persists, S!SupervisorTypeOK
<1>3. CASE S!BackoffEnds
  BY <1>3 DEF S!BackoffEnds, S!SupervisorTypeOK
<1>4. CASE S!PersonMoves
  <2>1. mode \in S!Modes
    BY DEF S!SupervisorTypeOK
  <2>2. mode' \in S!Rungs \/ \E rung \in S!Rungs : mode' = S!Disarmed(mode, rung, TRUE)
    BY <1>4, RanksAreKnown DEF S!PersonMoves
  <2>3. \A rung \in S!Rungs : S!Disarmed(mode, rung, TRUE) \in S!Modes
    BY <2>1, DisarmingLowers
  <2>4. mode' \in S!Modes
    BY <2>2, <2>3, RanksAreKnown
  <2> QED  BY <1>4, <2>4 DEF S!PersonMoves, S!SupervisorTypeOK
<1>5. CASE S!Restarts
  <2>1. S!Fresh \in [attempts : 0..ShortDelays, wait : {"due", "short", "long", "seen"}]
    BY DEF S!SupervisorAssumption, S!Fresh
  <2>2. mode' \in S!Modes /\ known' \subseteq S!Codes /\ opened' \subseteq S!Codes
    BY <1>5, RanksAreKnown DEF S!Restarts, S!SupervisorTypeOK
  <2> QED  BY <1>5, <2>1, <2>2, IdleIsATick DEF S!Restarts, S!SupervisorTypeOK, Ticks
<1>6. CASE UNCHANGED S!vars
  BY <1>6 DEF S!vars, S!SupervisorTypeOK
<1> QED  BY <1>1, <1>2, <1>3, <1>4, <1>5, <1>6 DEF S!Next

(* A tick never raises the mode, whatever it became while the tick was suspended (Supervisor._act). *)
LEMMA TicksLower == S!SupervisorAssumption => (S!Spec => []S!SupervisorTypeOK /\ S!TickOnlyLowers)
<1> SUFFICES ASSUME S!SupervisorAssumption PROVE S!Spec => []S!SupervisorTypeOK /\ S!TickOnlyLowers
  OBVIOUS
<1>1. S!Init => S!SupervisorTypeOK
  BY InitialSupervisor
<1>2. S!SupervisorTypeOK /\ [S!Next]_(S!vars) => S!SupervisorTypeOK'
  BY SupervisorStep
<1>3. S!SupervisorTypeOK /\ [S!Next]_(S!vars) => [(S!TickBegins \/ S!TickSteps) => S!Rank(mode') <= S!Rank(mode)]_(S!vars)
  BY TickKeepsTypes
<1> QED  BY <1>1, <1>2, <1>3, PTL DEF S!Spec, S!TickOnlyLowers

-----------------------------------------------------------------------------
(* The registry of agents (infrastructure/mt5/ea_link.py).                 *)

Socket == [st : {"unused", "open", "closed"}, login : Logins \cup {R!NoLogin}, silent : BOOLEAN, really : BOOLEAN,
           shown : BOOLEAN, told : BOOLEAN, owed : Logins \cup {R!NoLogin}]

LEMMA RegistryTyped == R!RegistryTypeOK <=>
    /\ conn \in [Connections -> Socket]
    /\ byLogin \in [Logins -> Connections \cup {R!NoConnection}]
    /\ beats \subseteq Logins /\ halted \in BOOLEAN
BY DEF R!RegistryTypeOK, Socket

(* A socket after one of its fields has changed. *)
LEMMA SocketChanges ==
    ASSUME NEW s \in Socket, NEW b \in BOOLEAN, NEW l \in Logins \cup {R!NoLogin}
    PROVE  /\ [s EXCEPT !.silent = b] \in Socket
           /\ [s EXCEPT !.told = b] \in Socket
           /\ [s EXCEPT !.owed = l] \in Socket
           /\ [s EXCEPT !.really = b] \in Socket
           /\ [s EXCEPT !.told = FALSE, !.really = TRUE] \in Socket
           /\ [s EXCEPT !.silent = FALSE, !.shown = b] \in Socket
BY DEF Socket

LEMMA ClosedIsASocket == \A s \in Socket : [s EXCEPT !.st = "closed"] \in Socket
BY DEF Socket

LEMMA UnusedIsASocket == R!Unused \in Socket
BY DEF R!Unused, Socket

LEMMA InitialRegistry == R!Init => R!RegistryTypeOK
BY UnusedIsASocket, RegistryTyped DEF R!Init

LEMMA GivingUp ==
    ASSUME R!RegistryTypeOK, NEW c \in Connections, NEW l \in Logins
    PROVE  /\ R!GaveUp(c, l) \in Logins \cup {R!NoLogin}
           /\ R!Without(byLogin, R!GaveUp(c, l)) \in [Logins -> Connections \cup {R!NoConnection}]
           /\ R!Forgotten(R!GaveUp(c, l)) \subseteq Logins
           /\ R!GaveUp(c, l) # R!NoLogin => byLogin[R!GaveUp(c, l)] = c /\ R!GaveUp(c, l) = conn[c].login /\ R!GaveUp(c, l) # l
<1>1. R!GaveUp(c, l) \in Logins \cup {R!NoLogin}
  BY RegistryTyped DEF R!GaveUp, R!Registered, Socket
<1>2. R!GaveUp(c, l) # R!NoLogin => byLogin[R!GaveUp(c, l)] = c /\ R!GaveUp(c, l) = conn[c].login /\ R!GaveUp(c, l) # l
  BY DEF R!GaveUp, R!Registered
<1> HIDE DEF R!GaveUp
<1> QED  BY <1>1, <1>2, RegistryTyped DEF R!Without, R!Forgotten

LEMMA HaltsKeepSockets ==
    ASSUME R!RegistryTypeOK, R!HaltsAgents
    PROVE  /\ conn' \in [Connections -> Socket]
           /\ \A c \in Connections : conn'[c].login = conn[c].login
<1>1. PICK failing \in SUBSET R!CanBeTold :
        conn' = [c \in Connections |->
            IF c \in failing THEN [conn[c] EXCEPT !.st = "closed"]
            ELSE IF c \in R!CanBeTold THEN [conn[c] EXCEPT !.told = TRUE]
            ELSE conn[c]]
  BY DEF R!HaltsAgents
<1>2. \A c \in Connections : conn'[c] \in Socket
  BY <1>1, RegistryTyped, SocketChanges, ClosedIsASocket
<1>3. \A c \in Connections : conn'[c].login = conn[c].login
  BY <1>1, RegistryTyped DEF Socket
<1> QED  BY <1>1, <1>2, <1>3

LEMMA RegistryStep ==
    ASSUME R!RegistryAssumption, R!NamesAssumption, R!RegistryTypeOK, [R!Next]_(R!vars)
    PROVE  /\ R!RegistryTypeOK'
           /\ \A l \in Logins : LET c == byLogin[l] IN
                  c # R!NoConnection /\ byLogin'[l] # c =>
                      \/ conn[c].silent
                      \/ conn'[c].st # "open"
                      \/ conn'[c].login # l
<1> DEFINE Ended(l) == \/ conn[byLogin[l]].silent
                       \/ conn'[byLogin[l]].st # "open"
                       \/ conn'[byLogin[l]].login # l
<1> SUFFICES /\ R!RegistryTypeOK'
             /\ \A l \in Logins : byLogin[l] # R!NoConnection /\ byLogin'[l] # byLogin[l] => Ended(l)
  OBVIOUS
<1>0. /\ conn \in [Connections -> Socket] /\ byLogin \in [Logins -> Connections \cup {R!NoConnection}]
      /\ beats \subseteq Logins /\ halted \in BOOLEAN /\ R!NoLogin \notin Logins /\ R!NoConnection \notin Connections
  BY RegistryTyped DEF R!NamesAssumption
<1>1. ASSUME NEW c \in Connections,
             R!Accepts(c) \/ R!IsRefused(c) \/ R!FallsSilent(c) \/ R!Drops(c) \/ R!Obeys(c) \/ R!IsFreed(c)
      PROVE  conn' \in [Connections -> Socket] /\ byLogin' = byLogin /\ beats' = beats /\ halted' = halted
  <2>1. CASE R!Accepts(c)
    <3>1. \A really \in BOOLEAN : [R!Unused EXCEPT !.st = "open", !.really = really] \in Socket
      BY DEF R!Unused, Socket
    <3> QED  BY <1>0, <2>1, <3>1 DEF R!Accepts
  <2>2. CASE R!IsRefused(c) \/ R!Drops(c)
    BY <1>0, <2>2, ClosedIsASocket DEF R!IsRefused, R!Drops, R!Closed
  <2>3. CASE R!FallsSilent(c)
    BY <1>0, <2>3, SocketChanges DEF R!FallsSilent
  <2>4. CASE R!Obeys(c)
    BY <1>0, <2>4, SocketChanges DEF R!Obeys
  <2>5. CASE R!IsFreed(c)
    BY <1>0, <2>5, SocketChanges DEF R!IsFreed
  <2> QED  BY <1>1, <2>1, <2>2, <2>3, <2>4, <2>5
<1>2. ASSUME NEW c \in Connections, R!Announces(c) \/ R!Beats(c)
      PROVE  conn' \in [Connections -> Socket] /\ byLogin' = byLogin /\ beats' \subseteq Logins /\ halted' = halted
  <2>1. conn' \in [Connections -> Socket]
    <3>1. CASE R!Announces(c)
      BY <1>0, <3>1, SocketChanges DEF R!Announces
    <3>2. CASE R!Beats(c)
      <4>1. PICK shown \in BOOLEAN : conn' = [conn EXCEPT ![c] = [conn[c] EXCEPT !.silent = FALSE, !.shown = shown]]
        BY <1>0, <3>2 DEF R!Beats, Socket
      <4> QED  BY <1>0, <4>1, SocketChanges
    <3> QED  BY <1>2, <3>1, <3>2
  <2>2. beats' \subseteq Logins
    BY <1>0, <1>2 DEF R!Announces, R!Beats, Socket, R!Registered
  <2> QED  BY <1>2, <2>1, <2>2 DEF R!Announces, R!Beats
<1>3. ASSUME NEW c \in Connections, R!Ends(c)
      PROVE  R!RegistryTypeOK' /\ \A l \in Logins : byLogin[l] # R!NoConnection /\ byLogin'[l] # byLogin[l] => Ended(l)
  <2> DEFINE gone == IF R!Registered(c) THEN conn[c].login ELSE R!NoLogin
  <2>1. gone \in Logins \cup {R!NoLogin} /\ (gone # R!NoLogin => byLogin[gone] = c)
    BY <1>0 DEF R!Registered, Socket
  <2>2. /\ byLogin' = R!Without(byLogin, gone) /\ beats' = R!Forgotten(gone)
        /\ conn' = [conn EXCEPT ![c] = R!Unused] /\ halted' = halted
    BY <1>3 DEF R!Ends
  <2> HIDE DEF gone
  <2>3. byLogin' \in [Logins -> Connections \cup {R!NoConnection}] /\ beats' \subseteq Logins
    BY <1>0, <2>1, <2>2 DEF R!Without, R!Forgotten
  <2>4. conn' \in [Connections -> Socket]
    BY <1>0, <2>2, UnusedIsASocket
  <2>5. \A l \in Logins : byLogin'[l] # byLogin[l] => l = gone
    BY <1>0, <2>1, <2>2 DEF R!Without
  <2>6. conn'[c].st # "open"
    BY <1>0, <2>2 DEF R!Unused
  <2>7. R!RegistryTypeOK'
    BY <1>0, <2>2, <2>3, <2>4 DEF R!RegistryTypeOK, Socket
  <2> QED  BY <1>0, <2>1, <2>5, <2>6, <2>7
<1>4. ASSUME NEW c \in Connections, NEW l \in Logins, R!DuplicateIsRefused(c, l)
      PROVE  R!RegistryTypeOK' /\ \A k \in Logins : byLogin[k] # R!NoConnection /\ byLogin'[k] # byLogin[k] => Ended(k)
  <2>1. conn' \in [Connections -> Socket] /\ conn'[c].st = "closed"
    BY <1>0, <1>4 DEF R!DuplicateIsRefused, R!Closed, Socket
  <2>2. /\ byLogin' \in [Logins -> Connections \cup {R!NoConnection}] /\ beats' \subseteq Logins
        /\ byLogin' = R!Without(byLogin, R!GaveUp(c, l)) /\ halted' = halted
    BY <1>4, GivingUp DEF R!DuplicateIsRefused
  <2>3. \A k \in Logins : byLogin'[k] # byLogin[k] => byLogin[k] = c
    BY <1>0, <2>2, GivingUp DEF R!Without
  <2>4. R!RegistryTypeOK'
    BY <1>0, <2>1, <2>2 DEF R!RegistryTypeOK, Socket
  <2> QED  BY <2>1, <2>3, <2>4
<1>5. ASSUME NEW c \in Connections, NEW l \in Logins, R!Registers(c, l)
      PROVE  R!RegistryTypeOK' /\ \A k \in Logins : byLogin[k] # R!NoConnection /\ byLogin'[k] # byLogin[k] => Ended(k)
  <2> DEFINE given == R!GaveUp(c, l)
  <2>1. /\ byLogin' = [R!Without(byLogin, given) EXCEPT ![l] = c]
        /\ conn' = [d \in Connections |->
              IF d = c THEN [conn[c] EXCEPT !.login = l, !.silent = FALSE, !.shown = conn[c].really,
                                            !.owed = IF given = R!NoLogin THEN R!NoLogin ELSE l]
              ELSE IF d = byLogin[l] THEN [conn[d] EXCEPT !.st = "closed"]
              ELSE conn[d]]
        /\ beats' = (IF given = R!NoLogin THEN beats \cup {l} ELSE R!Forgotten(given))
        /\ halted' = halted
    BY <1>5 DEF R!Registers
  <2>2. /\ given \in Logins \cup {R!NoLogin} /\ R!Forgotten(given) \subseteq Logins
        /\ R!Without(byLogin, given) \in [Logins -> Connections \cup {R!NoConnection}]
        /\ given # R!NoLogin => byLogin[given] = c /\ given = conn[c].login /\ given # l
    BY GivingUp
  <2> HIDE DEF given
  <2>3. conn' \in [Connections -> Socket] /\ conn'[c].login = l
    <3> DEFINE newcomer == [conn[c] EXCEPT !.login = l, !.silent = FALSE, !.shown = conn[c].really,
                                           !.owed = IF given = R!NoLogin THEN R!NoLogin ELSE l]
    <3>1. newcomer \in Socket /\ newcomer.login = l
      BY <1>0 DEF Socket
    <3>2. conn' = [d \in Connections |->
              IF d = c THEN newcomer ELSE IF d = byLogin[l] THEN [conn[d] EXCEPT !.st = "closed"] ELSE conn[d]]
      BY <2>1
    <3> HIDE DEF newcomer
    <3>3. \A d \in Connections : conn'[d] \in Socket
      BY <1>0, <3>1, <3>2, ClosedIsASocket
    <3> QED  BY <3>1, <3>2, <3>3
  <2>4. byLogin' \in [Logins -> Connections \cup {R!NoConnection}] /\ beats' \subseteq Logins
    BY <1>0, <2>1, <2>2
  <2>5. R!RegistryTypeOK'
    BY <1>0, <2>1, <2>3, <2>4 DEF R!RegistryTypeOK, Socket
  <2>6. ASSUME NEW k \in Logins, byLogin[k] # R!NoConnection, byLogin'[k] # byLogin[k] PROVE Ended(k)
    <3>1. CASE k = l
      <4>1. byLogin'[l] = c
        BY <2>1, <2>2
      <4>2. byLogin[l] \in Connections /\ byLogin[l] # c
        BY <1>0, <2>6, <3>1, <4>1
      <4>3. conn'[byLogin[l]].st = "closed"
        BY <1>0, <2>1, <4>2 DEF Socket
      <4> QED  BY <3>1, <4>3
    <3>2. CASE k # l
      <4>1. byLogin[k] = c
        BY <1>0, <2>1, <2>2, <2>6, <3>2 DEF R!Without
      <4> QED  BY <2>3, <3>2, <4>1
    <3> QED  BY <3>1, <3>2
  <2> QED  BY <2>5, <2>6
<1>6. CASE R!Enforces \/ R!Halts \/ R!Acknowledges
  <2>1. conn' \in [Connections -> Socket] /\ byLogin' = byLogin /\ beats' = beats /\ halted' \in BOOLEAN
    BY <1>0, <1>6, HaltsKeepSockets DEF R!Enforces, R!Halts, R!Acknowledges
  <2> QED  BY <1>0, <2>1 DEF R!RegistryTypeOK, Socket
<1>7. CASE UNCHANGED R!vars
  BY <1>7 DEF R!vars, R!RegistryTypeOK
<1>8. ASSUME NEW c \in Connections,
             R!Accepts(c) \/ R!IsRefused(c) \/ R!FallsSilent(c) \/ R!Drops(c) \/ R!Obeys(c) \/ R!IsFreed(c) \/ R!Announces(c) \/ R!Beats(c)
      PROVE  R!RegistryTypeOK' /\ byLogin' = byLogin
  BY <1>0, <1>1, <1>2, <1>8 DEF R!RegistryTypeOK, Socket
<1> HIDE DEF Ended
<1> QED  BY <1>3, <1>4, <1>5, <1>6, <1>7, <1>8 DEF R!Next, R!vars

(* A registration is never ended by another connection's end (AgentLinkServer._serve). *)
LEMMA SilentOnesAreTakenOver ==
    R!RegistryAssumption /\ R!NamesAssumption => (R!Spec => []R!RegistryTypeOK /\ R!OnlySilentIsTakenOver)
<1> SUFFICES ASSUME R!RegistryAssumption, R!NamesAssumption PROVE R!Spec => []R!RegistryTypeOK /\ R!OnlySilentIsTakenOver
  OBVIOUS
<1> DEFINE Held ==
      \A l \in Logins : LET c == byLogin[l] IN
          c # R!NoConnection /\ byLogin'[l] # c =>
              \/ conn[c].silent
              \/ conn'[c].st # "open"
              \/ conn'[c].login # l
<1>1. R!Init => R!RegistryTypeOK
  BY InitialRegistry
<1>2. R!RegistryTypeOK /\ [R!Next]_(R!vars) => R!RegistryTypeOK' /\ [Held]_(R!vars)
  BY RegistryStep
<1> HIDE DEF Held
<1>3. R!Spec => []R!RegistryTypeOK /\ [][Held]_(R!vars)
  BY <1>1, <1>2, PTL DEF R!Spec
<1> USE DEF Held
<1> QED  BY <1>3 DEF R!OnlySilentIsTakenOver

-----------------------------------------------------------------------------
(* The transport and its workers (infrastructure/mt5/transport.py).        *)

Calls == {"initialize", "account_info", "positions_get", "symbol_info_tick", "shutdown", "close"}
Doing == [job : DOMAIN T!Script \cup {"idle"}, left : Seq(Calls), at : {"rest", "asks", "waits", "kills", "cut"},
          saw : {"nothing", "list", "empty"}]
Tasks == {k \in Doing : k.at # "rest" => k.left # <<>>}
Process == [life : {"unborn", "up", "hung", "gone"}, attached : BOOLEAN]

(* Cardinality, in that module and in this one. *)
LEMMA WorkersCount == \A s : T!Cardinality(s) = Cardinality(s)
BY DEF T!Cardinality, Cardinality

(* Workers are started in order, one that is spoken of was started, and what the ledger has counted has ended, once. *)
Started(w) == worker[w].life # "unborn"
WorkersOK ==
    /\ worker \in [T!Workers -> Process] /\ process \in 0..MaxWorkers
    /\ reaping \subseteq T!Workers /\ once \subseteq T!Workers /\ ended \in Nat
    /\ \E n \in 0..MaxWorkers : \A w \in T!Workers : Started(w) <=> w <= n
    /\ process # 0 => Started(process)
    /\ \A w \in reaping : Started(w)
    /\ \A w \in once : worker[w].life = "gone"
    /\ ended = Cardinality(once)
TasksOK == caller \in [Callers -> Tasks]
TerminalInv ==
    /\ WorkersOK /\ TasksOK
    /\ lock \in Callers \cup {T!NoTask} /\ client \in {"new", "held", "apart"}

-----------------------------------------------------------------------------
(* Jobs. *)
LEMMA ScriptsAreCalls ==
    /\ DOMAIN T!Script = {"connect", "poll", "tick", "detach"}
    /\ \A job \in DOMAIN T!Script : T!Script[job] \in Seq(Calls) /\ T!Script[job] # <<>>
    /\ T!Script.detach \in Seq(Calls) /\ T!Script.detach # <<>>
    /\ <<"shutdown", "shutdown", "close">> \in Seq(Calls)
<1>1. \A a, b \in Calls : <<a>> \in Seq(Calls) /\ <<a>> # <<>> /\ <<a, b>> \in Seq(Calls) /\ <<a, b>> # <<>>
  OBVIOUS
<1>2. <<"shutdown", "shutdown", "close">> \in Seq(Calls)
  BY DEF Calls
<1>3. /\ T!Script.connect = <<"initialize", "account_info">> /\ T!Script.poll = <<"account_info", "positions_get">>
      /\ T!Script.tick = <<"symbol_info_tick">> /\ T!Script.detach = <<"shutdown", "close">>
      /\ DOMAIN T!Script = {"connect", "poll", "tick", "detach"}
  BY DEF T!Script
<1>4. \A job \in DOMAIN T!Script : T!Script[job] \in Seq(Calls) /\ T!Script[job] # <<>>
  BY <1>1, <1>3 DEF Calls
<1> QED  BY <1>2, <1>3, <1>4

LEMMA RestingIsATask == T!Resting \in Tasks
BY DEF T!Resting, Tasks, Doing

LEMMA MoreCalls ==
    ASSUME NEW s \in Seq(Calls), s # <<>>
    PROVE  Tail(s) \in Seq(Calls) /\ (Len(s) > 1 => Tail(s) # <<>>)
<1>1. Tail(s) \in Seq(Calls) /\ Len(Tail(s)) = Len(s) - 1 /\ Len(s) \in Nat
  BY HeadTailProperties, LenProperties
<1> DEFINE rest == Tail(s)
<1> HIDE DEF rest
<1>2. rest \in Seq(Calls) /\ Len(rest) = Len(s) - 1 /\ Len(s) \in Nat
  BY <1>1 DEF rest
<1>3. Len(s) > 1 => rest # <<>>
  BY <1>2, EmptySeq
<1> QED  BY <1>1, <1>3 DEF rest

LEMMA NextCalls ==
    ASSUME TasksOK, NEW t \in Callers, caller[t].at # "rest"
    PROVE  /\ T!AfterAnswer(t) \in Tasks
           /\ \A raised \in BOOLEAN : T!AfterFailure(t, raised) \in Tasks
           /\ T!AfterCut(t) \in Tasks
           /\ [T!Resting EXCEPT !.saw = "list"] \in Tasks /\ [T!Resting EXCEPT !.saw = "empty"] \in Tasks
<1>0. caller[t] \in Doing /\ caller[t].left \in Seq(Calls) /\ caller[t].left # <<>>
  BY DEF TasksOK, Tasks, Doing
<1>1. Tail(caller[t].left) \in Seq(Calls) /\ (Len(caller[t].left) > 1 => Tail(caller[t].left) # <<>>)
  BY <1>0, MoreCalls
<1>2. T!AfterAnswer(t) \in Tasks
  BY <1>0, <1>1, RestingIsATask DEF T!AfterAnswer, Tasks, Doing
<1>3. ASSUME NEW raised \in BOOLEAN PROVE T!AfterFailure(t, raised) \in Tasks
  <2>1. [caller[t] EXCEPT !.job = "detach", !.left = <<"shutdown", "shutdown", "close">>, !.at = "asks"] \in Tasks
    BY <1>0, ScriptsAreCalls DEF Tasks, Doing
  <2>2. Len(caller[t].left) > 1 => [caller[t] EXCEPT !.left = Tail(@), !.at = "asks"] \in Tasks
    BY <1>0, <1>1 DEF Tasks, Doing
  <2> QED  BY <2>1, <2>2, RestingIsATask DEF T!AfterFailure
<1>4. T!AfterCut(t) \in Tasks
  BY <1>0, RestingIsATask, ScriptsAreCalls DEF T!AfterCut, Tasks, Doing
<1>5. [T!Resting EXCEPT !.saw = "list"] \in Tasks /\ [T!Resting EXCEPT !.saw = "empty"] \in Tasks
  <2>1. \A saw \in {"list", "empty"} :
            /\ [T!Resting EXCEPT !.saw = saw] \in Doing
            /\ [T!Resting EXCEPT !.saw = saw].at = "rest"
    BY RestingIsATask DEF T!Resting, Tasks, Doing
  <2> QED  BY <2>1 DEF Tasks
<1> QED  BY <1>2, <1>3, <1>4, <1>5

LEMMA ReturningKeeps ==
    ASSUME TasksOK, NEW t \in Callers, NEW next \in Tasks, T!Returns(t, next)
    PROVE  TasksOK' /\ lock' \in Callers \cup {T!NoTask}
BY DEF TasksOK, T!Returns

LEMMA StandingElsewhere ==
    ASSUME TasksOK, NEW t \in Callers, caller[t].at # "rest", NEW at \in {"asks", "waits", "kills", "cut"},
           caller' = [caller EXCEPT ![t].at = at]
    PROVE  TasksOK'
<1>1. caller[t] \in Tasks
  BY DEF TasksOK
<1>2. [caller[t] EXCEPT !.at = at] \in Tasks
  BY <1>1 DEF Tasks, Doing
<1>3. caller' = [caller EXCEPT ![t] = [caller[t] EXCEPT !.at = at]]
  BY DEF TasksOK
<1> HIDE DEF Tasks
<1> QED  BY <1>2, <1>3 DEF TasksOK

LEMMA TasksGoOn ==
    ASSUME TerminalInv, [T!Next]_(T!terminalVars)
    PROVE  TasksOK' /\ lock' \in Callers \cup {T!NoTask} /\ client' \in {"new", "held", "apart"}
<1>0. TasksOK /\ lock \in Callers \cup {T!NoTask} /\ client \in {"new", "held", "apart"}
  BY DEF TerminalInv
<1>1. ASSUME NEW t \in Callers, NEW job \in DOMAIN T!Script, T!Begins(t, job)
      PROVE  TasksOK' /\ lock' = lock /\ client' \in {"new", "held", "apart"}
  <2>1. [T!Resting EXCEPT !.job = job, !.left = T!Script[job], !.at = "asks"] \in Tasks
    BY ScriptsAreCalls DEF T!Resting, Tasks, Doing
  <2> QED  BY <1>0, <1>1, <2>1 DEF T!Begins, TasksOK
<1>2. ASSUME NEW t \in Callers, caller[t].at # "rest",
             T!NothingToClose(t) \/ T!CannotStart(t) \/ T!Initialises(t) \/ T!ReadsTick(t) \/ T!ShutsDown(t) \/ T!Raises(t)
      PROVE  TasksOK' /\ lock' \in Callers \cup {T!NoTask} /\ client' = client
  <2>1. /\ client' = client
        /\ \E next \in {T!AfterAnswer(t), T!AfterFailure(t, TRUE), T!AfterFailure(t, FALSE)} : T!Returns(t, next)
    BY <1>2 DEF T!NothingToClose, T!CannotStart, T!Initialises, T!ReadsTick, T!ShutsDown, T!Raises
  <2> QED  BY <1>0, <1>2, <2>1, NextCalls, ReturningKeeps
<1>3. ASSUME NEW t \in Callers, caller[t].at # "rest", T!ReadsAccount(t)
      PROVE  TasksOK' /\ lock' \in Callers \cup {T!NoTask} /\ client' \in {"new", "held", "apart"}
  <2>1. \E next \in {T!AfterAnswer(t), T!AfterFailure(t, FALSE)} : T!Returns(t, next)
    BY <1>3 DEF T!ReadsAccount
  <2>2. client' \in {"new", "held", "apart"}
    BY <1>0, <1>3 DEF T!ReadsAccount
  <2> QED  BY <1>0, <1>3, <2>1, <2>2, NextCalls, ReturningKeeps
<1>4. ASSUME NEW t \in Callers, caller[t].at # "rest", T!ReadsPositions(t)
      PROVE  TasksOK' /\ lock' \in Callers \cup {T!NoTask} /\ client' = client
  <2>1. \E saw \in {"list", "empty"} : T!Returns(t, [T!Resting EXCEPT !.saw = saw])
    BY <1>4 DEF T!ReadsPositions
  <2> QED  BY <1>0, <1>4, <2>1, NextCalls, ReturningKeeps DEF T!ReadsPositions
<1>5. ASSUME NEW t \in Callers, caller[t].at # "rest", T!Sends(t) \/ T!Starts(t)
      PROVE  TasksOK' /\ lock' \in Callers \cup {T!NoTask} /\ client' = client
  BY <1>0, <1>5, StandingElsewhere DEF T!Sends, T!Starts
<1>6. ASSUME NEW t \in Callers, caller[t].at # "rest", T!GivesUp(t) \/ T!CutInCall(t)
      PROVE  TasksOK' /\ lock' = lock /\ client' = client
  BY <1>0, <1>6, StandingElsewhere DEF T!GivesUp, T!CutInCall, T!Kills
<1>7. ASSUME NEW t \in Callers, caller[t].at # "rest", T!GoesOn(t)
      PROVE  TasksOK' /\ lock' \in Callers \cup {T!NoTask} /\ client' = client
  <2>1. \E next \in {T!AfterCut(t), T!AfterAnswer(t), T!AfterFailure(t, FALSE)} : T!Returns(t, next)
    BY <1>7 DEF T!GoesOn
  <2> QED  BY <1>0, <1>7, <2>1, NextCalls, ReturningKeeps DEF T!GoesOn
<1>8. ASSUME NEW t \in Callers, caller[t].at # "rest", T!CutElsewhere(t)
      PROVE  TasksOK' /\ lock' \in Callers \cup {T!NoTask} /\ client' = client
  BY <1>0, <1>8, NextCalls DEF T!CutElsewhere, TasksOK
<1>9. ASSUME NEW w \in T!Workers, T!Reaps(w) \/ T!CannotReap(w) \/ T!Dies(w)
      PROVE  TasksOK' /\ lock' = lock /\ client' = client
  BY <1>0, <1>9 DEF T!Reaps, T!CannotReap, T!Dies, TasksOK
<1>10. CASE T!Hangs
  BY <1>0, <1>10 DEF T!Hangs, TasksOK
<1>11. CASE UNCHANGED T!terminalVars
  BY <1>0, <1>11 DEF T!terminalVars, TasksOK
<1>12. ASSUME NEW t \in Callers, T!Steps(t) \/ T!CannotStart(t) \/ T!Raises(t) \/ T!CutInCall(t) \/ T!CutElsewhere(t)
       PROVE  caller[t].at # "rest"
  BY <1>12 DEF T!Steps, T!NothingToClose, T!Sends, T!Starts, T!Initialises, T!ReadsAccount, T!ReadsPositions, T!ReadsTick, T!ShutsDown,
               T!GivesUp, T!GoesOn, T!CannotStart, T!Raises, T!CutInCall, T!CutElsewhere, T!Asks, T!Waits
<1>13. ASSUME NEW t \in Callers, T!Steps(t) \/ T!CannotStart(t) \/ T!Raises(t) \/ T!CutInCall(t) \/ T!CutElsewhere(t)
       PROVE  TasksOK' /\ lock' \in Callers \cup {T!NoTask} /\ client' \in {"new", "held", "apart"}
  BY <1>0, <1>2, <1>3, <1>4, <1>5, <1>6, <1>7, <1>8, <1>12, <1>13 DEF T!Steps
<1> QED  BY <1>0, <1>1, <1>9, <1>10, <1>11, <1>13 DEF T!Next

-----------------------------------------------------------------------------
(* Workers. *)
LEMMA EndingOnce ==
    ASSUME T!TerminalAssumption, WorkersOK, NEW w \in T!Workers, T!End(w)
    PROVE  once' = once \cup {w} /\ once' \subseteq T!Workers /\ ended' \in Nat /\ ended' = Cardinality(once')
<1>1. IsFiniteSet(T!Workers)
  BY FS_Interval DEF T!Workers, T!TerminalAssumption
<1>2. IsFiniteSet(once)
  BY <1>1, FS_Subset DEF WorkersOK
<1>3. w \notin once => Cardinality(once \cup {w}) = Cardinality(once) + 1
  BY <1>2, FS_AddElement
<1>4. CASE w \in once
  <2>1. once' = once /\ ended' = ended
    BY <1>4 DEF T!End
  <2> QED  BY <1>4, <2>1 DEF WorkersOK
<1>5. CASE w \notin once
  <2>1. once' = once \cup {w} /\ ended' = ended + 1
    BY <1>5 DEF T!End
  <2> QED  BY <1>3, <1>5, <2>1 DEF WorkersOK
<1> QED  BY <1>4, <1>5

(* A step that starts no worker: it may end one, let go of one, and count one that has ended. *)
LEMMA NoneIsStarted ==
    ASSUME T!TerminalAssumption, WorkersOK, worker' \in [T!Workers -> Process],
           \A w \in T!Workers : worker'[w].life = "unborn" <=> worker[w].life = "unborn",
           \A w \in T!Workers : worker[w].life = "gone" => worker'[w].life = "gone",
           process' \in {process, 0}, reaping' \subseteq reaping \cup ({process} \ {0}),
           \/ once' = once /\ ended' = ended
           \/ \E w \in T!Workers : T!End(w) /\ worker'[w].life = "gone"
    PROVE  WorkersOK'
<1>1. once' \subseteq T!Workers /\ ended' \in Nat /\ ended' = Cardinality(once')
  BY EndingOnce DEF WorkersOK
<1>2. \A w \in once' : worker'[w].life = "gone"
  BY EndingOnce DEF WorkersOK
<1>3. process \in 0..MaxWorkers /\ (process # 0 => process \in T!Workers)
  BY DEF WorkersOK, T!Workers, T!TerminalAssumption
<1>4. process' \in 0..MaxWorkers /\ reaping' \subseteq T!Workers
  BY <1>3 DEF WorkersOK, T!TerminalAssumption
<1>5. \E n \in 0..MaxWorkers : \A w \in T!Workers : Started(w)' <=> w <= n
  BY DEF WorkersOK, Started
<1>6. (process' # 0 => Started(process)') /\ \A w \in reaping' : Started(w)'
  BY <1>3, <1>4 DEF WorkersOK, Started
<1> QED  BY <1>1, <1>2, <1>4, <1>5, <1>6 DEF WorkersOK

LEMMA SpawnedIsTheLast ==
    ASSUME T!TerminalAssumption, WorkersOK
    PROVE  /\ T!Spawned \in 0..MaxWorkers
           /\ \A w \in T!Workers : Started(w) <=> w <= T!Spawned
<1>1. PICK n \in 0..MaxWorkers : \A w \in T!Workers : Started(w) <=> w <= n
  BY DEF WorkersOK
<1>2. {w \in T!Workers : worker[w].life # "unborn"} = 1..n
  BY <1>1 DEF Started, T!Workers, T!TerminalAssumption
<1>3. Cardinality(1..n) = n
  BY <1>1, FS_Interval DEF T!TerminalAssumption
<1>4. T!Spawned = n
  BY <1>2, <1>3, WorkersCount DEF T!Spawned
<1> HIDE DEF T!Spawned
<1> QED  BY <1>1, <1>4

LEMMA WorkersGoOn ==
    ASSUME T!TerminalAssumption, TerminalInv, [T!Next]_(T!terminalVars)
    PROVE  WorkersOK'
<1>0. /\ WorkersOK /\ worker \in [T!Workers -> Process] /\ process \in 0..MaxWorkers
      /\ (process # 0 => process \in T!Workers /\ worker[process].life # "unborn")
      /\ reaping \subseteq T!Workers
  <2>1. WorkersOK
    BY DEF TerminalInv
  <2>2. process # 0 => process \in T!Workers
    BY <2>1 DEF WorkersOK, T!Workers, T!TerminalAssumption
  <2> QED  BY <2>1, <2>2 DEF WorkersOK, Started
<1>1. T!Up(process) => process # 0
  BY DEF T!Up, T!Workers
<1>2. process # 0 /\ ~T!Up(process) => worker[process].life = "gone"
  BY <1>0 DEF T!Up, Process
<1> DEFINE Alone == UNCHANGED <<worker, process, reaping, once, ended>>
<1>3. ASSUME NEW t \in Callers, T!NothingToClose(t) \/ T!CannotStart(t) PROVE WorkersOK'
  <2>1. worker' = worker /\ reaping' = reaping /\ process' \in {process, 0}
    BY <1>3 DEF T!NothingToClose, T!CannotStart
  <2>2. \/ once' = once /\ ended' = ended
        \/ process # 0 /\ ~T!Up(process) /\ T!End(process)
    BY <1>3 DEF T!NothingToClose, T!CannotStart
  <2> QED  BY <1>0, <1>2, <2>1, <2>2, NoneIsStarted
<1>4. ASSUME NEW t \in Callers, T!Starts(t) PROVE WorkersOK'
  <2> DEFINE w == T!Spawned + 1
  <2>1. w \in T!Workers /\ worker[w].life = "unborn" /\ \A v \in T!Workers : v <= w <=> v = w \/ Started(v)
    BY <1>4, SpawnedIsTheLast, <1>0 DEF T!Starts, T!Workers, Started, T!TerminalAssumption
  <2>2. /\ worker' = [worker EXCEPT ![w] = [life |-> "up", attached |-> FALSE]] /\ process' = w /\ reaping' = reaping
        /\ \/ once' = once /\ ended' = ended
           \/ process # 0 /\ ~T!Up(process) /\ T!End(process)
    BY <1>4 DEF T!Starts
  <2> HIDE DEF w
  <2>3. once' \subseteq T!Workers /\ ended' \in Nat /\ ended' = Cardinality(once')
    BY <1>0, <2>2, EndingOnce DEF WorkersOK
  <2>4. \A v \in once' : worker[v].life = "gone"
    BY <1>0, <1>2, <2>2, EndingOnce DEF WorkersOK
  <2>5. worker' \in [T!Workers -> Process] /\ \A v \in T!Workers : worker'[v] = IF v = w THEN worker'[w] ELSE worker[v]
    BY <1>0, <2>1, <2>2 DEF Process
  <2>6. worker'[w].life = "up"
    BY <1>0, <2>1, <2>2
  <2>7. \A v \in once' : worker'[v].life = "gone"
    BY <2>1, <2>3, <2>4, <2>5
  <2>8. w \in 0..MaxWorkers /\ \A v \in T!Workers : Started(v)' <=> v <= w
    BY <2>1, <2>5, <2>6 DEF Started, T!Workers, T!TerminalAssumption
  <2>9. Started(process)' /\ \A v \in reaping' : Started(v)'
    BY <1>0, <2>2, <2>5, <2>6 DEF Started, WorkersOK
  <2> QED  BY <1>0, <2>2, <2>3, <2>5, <2>7, <2>8, <2>9 DEF WorkersOK
<1>5. ASSUME NEW t \in Callers, T!Sends(t) \/ T!ReadsAccount(t) \/ T!ReadsPositions(t) \/ T!ReadsTick(t) \/ T!Raises(t) \/ T!GoesOn(t)
                                \/ T!CutElsewhere(t) \/ \E job \in DOMAIN T!Script : T!Begins(t, job)
      PROVE  Alone
  BY <1>5 DEF T!Sends, T!ReadsAccount, T!ReadsPositions, T!ReadsTick, T!Raises, T!GoesOn, T!CutElsewhere, T!Begins
<1>6. ASSUME NEW t \in Callers, T!Initialises(t) PROVE WorkersOK'
  <2>1. process \in T!Workers /\ UNCHANGED <<process, reaping, once, ended>>
        /\ (worker' = worker \/ worker' = [worker EXCEPT ![process].attached = TRUE])
    BY <1>0, <1>1, <1>6 DEF T!Initialises, T!Answering
  <2>2. [worker[process] EXCEPT !.attached = TRUE] \in Process
        /\ [worker[process] EXCEPT !.attached = TRUE].life = worker[process].life
    BY <1>0, <2>1 DEF Process
  <2>3. worker' = worker \/ worker' = [worker EXCEPT ![process] = [worker[process] EXCEPT !.attached = TRUE]]
    BY <1>0, <2>1
  <2>4. worker' \in [T!Workers -> Process] /\ \A w \in T!Workers : worker'[w].life = worker[w].life
    BY <1>0, <2>1, <2>2, <2>3
  <2> QED  BY <1>0, <2>1, <2>4, NoneIsStarted
<1>7. ASSUME NEW w \in T!Workers, Started(w), worker' = [worker EXCEPT ![w] = [life |-> "gone", attached |-> FALSE]],
             process' = process, reaping' \subseteq reaping, (once' = once /\ ended' = ended) \/ T!End(w)
      PROVE  WorkersOK'
  <2>1. worker' \in [T!Workers -> Process] /\ worker'[w].life = "gone" /\ \A v \in T!Workers \ {w} : worker'[v] = worker[v]
    BY <1>0, <1>7 DEF Process
  <2> QED  BY <1>0, <1>7, <2>1, NoneIsStarted DEF Started
<1>8. ASSUME NEW t \in Callers, T!ShutsDown(t) PROVE WorkersOK'
  BY <1>0, <1>1, <1>7, <1>8 DEF T!ShutsDown, T!Answering, Started
<1>9. ASSUME NEW t \in Callers, T!GivesUp(t) \/ T!CutInCall(t) PROVE WorkersOK'
  BY <1>0, <1>9, NoneIsStarted DEF T!GivesUp, T!CutInCall, T!Kills
<1>10. ASSUME NEW w \in T!Workers, T!Reaps(w) PROVE WorkersOK'
  BY <1>0, <1>7, <1>10 DEF T!Reaps, WorkersOK
<1>11. ASSUME NEW w \in T!Workers, T!CannotReap(w) PROVE WorkersOK'
  BY <1>0, <1>11, NoneIsStarted DEF T!CannotReap
<1>12. ASSUME NEW w \in T!Workers, T!Dies(w) PROVE WorkersOK'
  BY <1>7, <1>12 DEF T!Dies, T!Up, Started
<1>13. CASE T!Hangs
  <2>1. process \in T!Workers /\ worker[process].life = "up" /\ UNCHANGED <<process, reaping, once, ended>>
        /\ worker' = [worker EXCEPT ![process].life = "hung"]
    BY <1>0, <1>1, <1>13 DEF T!Hangs, T!Answering
  <2>2. worker' \in [T!Workers -> Process] /\ worker'[process].life = "hung"
        /\ \A w \in T!Workers \ {process} : worker'[w] = worker[w]
    BY <1>0, <2>1 DEF Process
  <2> QED  BY <1>0, <2>1, <2>2, NoneIsStarted
<1>14. ASSUME Alone PROVE WorkersOK'
  BY <1>0, <1>14 DEF WorkersOK, Started
<1>15. CASE UNCHANGED T!terminalVars
  BY <1>14, <1>15 DEF T!terminalVars
<1> HIDE DEF Alone
<1> QED  BY <1>3, <1>4, <1>5, <1>6, <1>8, <1>9, <1>10, <1>11, <1>12, <1>13, <1>14, <1>15 DEF T!Next, T!Steps

LEMMA InitialTerminal == T!TerminalAssumption /\ T!Init => TerminalInv
<1> SUFFICES ASSUME T!TerminalAssumption, T!Init PROVE TerminalInv
  OBVIOUS
<1>1. worker \in [T!Workers -> Process] /\ \A w \in T!Workers : ~Started(w)
  BY DEF T!Init, Process, Started
<1>2. \A w \in T!Workers : Started(w) <=> w <= 0
  BY <1>1 DEF T!Workers, T!TerminalAssumption
<1>3. Cardinality(once) = 0
  BY FS_EmptySet DEF T!Init
<1>4. WorkersOK
  BY <1>1, <1>2, <1>3 DEF T!Init, WorkersOK, T!TerminalAssumption
<1> QED  BY <1>4, RestingIsATask DEF T!Init, TerminalInv, TasksOK

(* What the ledger counts as alive is at least what runs. *)
LEMMA LedgerFollows == ASSUME T!TerminalAssumption, TerminalInv PROVE T!TerminalTypeOK /\ T!LedgerIsTrue
<1> DEFINE born == {w \in T!Workers : worker[w].life # "unborn"}
           up == {w \in T!Workers : T!Up(w)}
<1>0. WorkersOK
  BY DEF TerminalInv
<1>1. IsFiniteSet(born) /\ IsFiniteSet(once) /\ IsFiniteSet(up)
  <2>1. IsFiniteSet(T!Workers)
    BY FS_Interval DEF T!Workers, T!TerminalAssumption
  <2> QED  BY <1>0, <2>1, FS_Subset DEF WorkersOK
<1>2. once \subseteq born /\ up \subseteq born \ once
  BY <1>0 DEF WorkersOK, T!Up
<1>3. Cardinality(up) <= Cardinality(born \ once) /\ Cardinality(born \ once) = Cardinality(born) - Cardinality(once)
  <2>1. IsFiniteSet(born \ once) /\ born \cap once = once
    BY <1>1, <1>2, FS_Difference
  <2>2. Cardinality(born \ once) = Cardinality(born) - Cardinality(born \cap once)
    BY <1>1, FS_Difference
  <2> QED  BY <1>2, <2>1, <2>2, FS_Subset
<1>4. T!LedgerIsTrue
  BY <1>0, <1>3, WorkersCount DEF T!LedgerIsTrue, WorkersOK, T!Spawned
<1>5. \A t \in Callers : caller[t] \in Doing
  BY DEF TerminalInv, TasksOK, Tasks
<1> QED  BY <1>0, <1>4, <1>5 DEF T!TerminalTypeOK, TerminalInv, WorkersOK, Process, Doing

(* The ledger never hides a worker that runs (WorkerLedger.end, SubprocessTransport). *)
LEMMA WorkersAreCounted == T!TerminalAssumption => (T!Spec => [](T!TerminalTypeOK /\ T!LedgerIsTrue))
<1> SUFFICES ASSUME T!TerminalAssumption PROVE T!Spec => [](T!TerminalTypeOK /\ T!LedgerIsTrue)
  OBVIOUS
<1>1. TerminalInv /\ [T!Next]_(T!terminalVars) => TerminalInv'
  BY TasksGoOn, WorkersGoOn DEF TerminalInv
<1>2. TerminalInv => T!TerminalTypeOK /\ T!LedgerIsTrue
  BY LedgerFollows
<1> QED  BY InitialTerminal, <1>1, <1>2, PTL DEF T!Spec

-----------------------------------------------------------------------------
(* The lockouts (services/risk.py).                                        *)

LockoutRow == [kind : L!Kinds \cup {"none"}, loss : 0..MaxLosses, cleared : BOOLEAN, seen : BOOLEAN]
OperationState == [pc : L!Pcs, active : Rows \cup {L!NoRow}, streak : 0..MaxLosses, loss : 0..MaxLosses, breached : BOOLEAN]

LEMMA OpensARow ==
    ASSUME L!LedgerAssumption, NEW kind \in L!Kinds, NEW loss \in 0..MaxLosses
    PROVE  [L!Free EXCEPT !.kind = kind, !.loss = loss] \in LockoutRow
BY DEF L!Free, LockoutRow, L!LedgerAssumption

LEMMA StampedRows == L!LedgerTypeOK => L!Stamped \in [Rows -> LockoutRow]
BY DEF L!LedgerTypeOK, L!Stamped, LockoutRow

LEMMA RestingOperation == L!LedgerAssumption => L!Resting \in OperationState
BY DEF L!LedgerAssumption, L!Resting, OperationState, L!Pcs

LEMMA FreeRow == L!LedgerAssumption => L!Free \in LockoutRow
BY DEF L!LedgerAssumption, L!Free, LockoutRow

LEMMA InitialLedger == L!LedgerAssumption /\ L!Init => L!LedgerTypeOK
<1> SUFFICES ASSUME L!LedgerAssumption, L!Init PROVE L!LedgerTypeOK
  OBVIOUS
<1>1. ledger \in [Rows -> LockoutRow] /\ op \in [L!Operations -> OperationState]
  BY FreeRow, RestingOperation DEF L!Init
<1>2. losses \in 0..MaxLosses /\ streak \in 0..losses
  BY DEF L!Init, L!LedgerAssumption
<1>3. breached \in BOOLEAN /\ over \subseteq 1..MaxLosses
  BY Zenon DEF L!Init
<1> QED  BY <1>1, <1>2, <1>3 DEF L!Init, L!LedgerTypeOK, LockoutRow, OperationState

LEMMA LedgerStep ==
    ASSUME L!LedgerAssumption, L!LedgerTypeOK, [L!Next]_(L!vars) PROVE L!LedgerTypeOK'
<1>0. /\ ledger \in [Rows -> LockoutRow] /\ op \in [L!Operations -> OperationState]
      /\ losses \in 0..MaxLosses /\ losses \in Nat /\ streak \in 0..losses /\ streak \in 0..MaxLosses
      /\ breached \in BOOLEAN /\ over \subseteq 1..MaxLosses /\ MaxLosses \in Nat
  BY DEF L!LedgerTypeOK, LockoutRow, OperationState, L!LedgerAssumption
<1>1. ASSUME NEW o \in Cycles, L!Builds(o) PROVE L!LedgerTypeOK'
  <2>1. PICK r \in L!ActiveRows : op' = [op EXCEPT ![o] = [pc |-> "built", active |-> r, streak |-> L!StreakForGate,
                                                       loss |-> losses, breached |-> breached]]
    BY <1>1 DEF L!Builds
  <2>2. r \in Rows \cup {L!NoRow} /\ L!StreakForGate \in 0..MaxLosses
    BY <1>0, <2>1 DEF L!ActiveRows, L!Active, L!StreakForGate
  <2>3. op' \in [L!Operations -> OperationState]
    BY <1>0, <2>1, <2>2 DEF OperationState, L!Pcs
  <2> QED  BY <1>0, <1>1, <2>3 DEF L!Builds, L!LedgerTypeOK, OperationState
<1>2. ASSUME NEW o \in Cycles, L!RunsLockouts(o) PROVE L!LedgerTypeOK'
  <2>1. op[o].loss \in 0..MaxLosses /\ L!NewKind(o) \in L!Kinds \cup {"none"}
    BY <1>0 DEF OperationState, L!Operations, L!NewKind, L!Kinds
  <2>2. ledger' \in [Rows -> LockoutRow]
    <3>1. CASE ledger' = L!Stamped
      BY <3>1, StampedRows
    <3>2. CASE L!NewKind(o) # "none" /\ \E r \in Rows :
                 ledger' = [L!Stamped EXCEPT ![r] = [L!Free EXCEPT !.kind = L!NewKind(o), !.loss = op[o].loss]]
      <4>1. L!NewKind(o) \in L!Kinds /\ [L!Free EXCEPT !.kind = L!NewKind(o), !.loss = op[o].loss] \in LockoutRow
        BY <2>1, <3>2, OpensARow
      <4>2. L!Stamped \in [Rows -> LockoutRow]
        BY StampedRows
      <4> QED  BY <3>2, <4>1, <4>2
    <3> QED  BY <1>2, <3>1, <3>2 DEF L!RunsLockouts
  <2>3. op' \in [L!Operations -> OperationState] /\ status' \in {"open", "locked"}
    BY <1>0, <1>2, RestingOperation DEF L!RunsLockouts
  <2> QED  BY <1>0, <1>2, <2>2, <2>3 DEF L!RunsLockouts, L!LedgerTypeOK, LockoutRow, OperationState
<1>3. ASSUME NEW o \in Cycles, L!CycleFails(o) PROVE L!LedgerTypeOK'
  <2>1. op' \in [L!Operations -> OperationState]
    BY <1>0, <1>3, RestingOperation DEF L!CycleFails
  <2> QED  BY <1>3, <2>1 DEF L!CycleFails, L!LedgerTypeOK, OperationState
<1>4. ASSUME NEW o \in Gestures, L!PressesKill(o) PROVE L!LedgerTypeOK'
  <2>1. op' \in [L!Operations -> OperationState]
    BY <1>0, <1>4 DEF L!PressesKill, OperationState, L!Pcs, L!Operations
  <2> QED  BY <1>4, <2>1 DEF L!PressesKill, L!LedgerTypeOK, OperationState
<1>5. ASSUME NEW o \in Gestures, L!Kills(o) PROVE L!LedgerTypeOK'
  <2>1. op' \in [L!Operations -> OperationState]
    BY <1>0, <1>5, RestingOperation DEF L!Kills
  <2>2. PICK r \in Rows : ledger' = [ledger EXCEPT ![r] = [L!Free EXCEPT !.kind = "kill switch", !.loss = 0]]
    BY <1>5 DEF L!Kills, L!Opened
  <2>3. [L!Free EXCEPT !.kind = "kill switch", !.loss = 0] \in LockoutRow
    <3>1. "kill switch" \in L!Kinds /\ 0 \in 0..MaxLosses
      BY <1>0 DEF L!Kinds
    <3> QED  BY <3>1, OpensARow
  <2>4. ledger' \in [Rows -> LockoutRow]
    BY <1>0, <2>2, <2>3
  <2> QED  BY <1>5, <2>1, <2>4 DEF L!Kills, L!LedgerTypeOK, LockoutRow, OperationState
<1>6. ASSUME NEW o \in Gestures, L!Acknowledges(o) PROVE L!LedgerTypeOK'
  <2>1. PICK r \in L!Active :
            /\ ledger' = [ledger EXCEPT ![r].seen = TRUE]
            /\ op' = [op EXCEPT ![o] = [L!Resting EXCEPT !.pc = "acked", !.active = r]]
    BY <1>6 DEF L!Acknowledges
  <2>2. ledger' \in [Rows -> LockoutRow]
    BY <1>0, <2>1 DEF LockoutRow, L!Active
  <2>3. [L!Resting EXCEPT !.pc = "acked", !.active = r] \in OperationState
    <3>1. r \in Rows /\ "acked" \in L!Pcs
      BY <2>1 DEF L!Active, L!Pcs
    <3> QED  BY <3>1, RestingOperation DEF OperationState
  <2>4. op' \in [L!Operations -> OperationState]
    BY <1>0, <2>1, <2>3
  <2> QED  BY <1>6, <2>2, <2>4 DEF L!Acknowledges, L!LedgerTypeOK, LockoutRow, OperationState
<1>7. ASSUME NEW o \in Gestures, L!Clears(o) PROVE L!LedgerTypeOK'
  <2>1. op' \in [L!Operations -> OperationState]
    BY <1>0, <1>7, RestingOperation DEF L!Clears
  <2>2. ledger' \in [Rows -> LockoutRow]
    BY <1>0, <1>7 DEF L!Clears, LockoutRow
  <2> QED  BY <1>7, <2>1, <2>2 DEF L!Clears, L!LedgerTypeOK, LockoutRow, OperationState
<1>8. CASE L!Loses \/ L!Wins
  <2>1. losses' \in 0..MaxLosses /\ streak' \in 0..losses'
    BY <1>0, <1>8 DEF L!Loses, L!Wins
  <2> QED  BY <1>8, <2>1 DEF L!Loses, L!Wins, L!LedgerTypeOK
<1>9. CASE L!LimitMoves \/ L!PauseEnds
  <2>1. breached' \in BOOLEAN
    BY <1>0, <1>9 DEF L!LimitMoves, L!PauseEnds
  <2>2. over' \subseteq 1..MaxLosses
    <3>1. 1..losses \subseteq 1..MaxLosses
      BY <1>0
    <3> QED  BY <1>0, <1>9, <3>1 DEF L!LimitMoves, L!PauseEnds
  <2> QED  BY <1>9, <2>1, <2>2 DEF L!LimitMoves, L!PauseEnds, L!LedgerTypeOK
<1>10. CASE UNCHANGED L!vars
  BY <1>10 DEF L!vars, L!LedgerTypeOK
<1> QED  BY <1>1, <1>2, <1>3, <1>4, <1>5, <1>6, <1>7, <1>8, <1>9, <1>10 DEF L!Next

(* The types of the lockout ledger, the cycles and the gestures (services/risk.py). *)
LEMMA LedgerIsTyped == L!LedgerAssumption => (L!Spec => []L!LedgerTypeOK)
<1> SUFFICES ASSUME L!LedgerAssumption PROVE L!Spec => []L!LedgerTypeOK
  OBVIOUS
<1> QED  BY InitialLedger, LedgerStep, PTL DEF L!Spec

-----------------------------------------------------------------------------
(* Every step is one of a part or leaves it alone: what watches the core implements each of them. *)
LEMMA SupervisorRuns == SafetySpec => S!Spec
<1>1. Init => S!Init
  BY DEF Init
<1>2. [Next]_supervisionVars => [S!Next]_(S!vars)
  BY DEF Next, Supervises, Serves, Reads, Locks, supervisionVars, supervisor, registry, terminal, lockouts, S!vars
<1> QED  BY <1>1, <1>2, PTL DEF SafetySpec, S!Spec

LEMMA AgentRegistryRuns == SafetySpec => R!Spec
<1>1. Init => R!Init
  BY DEF Init
<1>2. [Next]_supervisionVars => [R!Next]_(R!vars)
  BY DEF Next, Supervises, Serves, Reads, Locks, supervisionVars, supervisor, registry, terminal, lockouts, R!vars
<1> QED  BY <1>1, <1>2, PTL DEF SafetySpec, R!Spec

LEMMA TerminalRuns == SafetySpec => T!Spec
<1>1. Init => T!Init
  BY DEF Init
<1>2. [Next]_supervisionVars => [T!Next]_(T!terminalVars)
  BY DEF Next, Supervises, Serves, Reads, Locks, supervisionVars, supervisor, registry, terminal, lockouts, T!terminalVars
<1> QED  BY <1>1, <1>2, PTL DEF SafetySpec, T!Spec

LEMMA RiskLedgerRuns == SafetySpec => L!Spec
<1>1. Init => L!Init
  BY DEF Init
<1>2. [Next]_supervisionVars => [L!Next]_(L!vars)
  BY DEF Next, Supervises, Serves, Reads, Locks, supervisionVars, supervisor, registry, terminal, lockouts, L!vars
<1> QED  BY <1>1, <1>2, PTL DEF SafetySpec, L!Spec

-----------------------------------------------------------------------------
(* A tick never raises the mode, for any ceiling and any symptoms; a registration ends by its own connection or by a   *)
(* silence, for any connections and logins; the ledger of the workers hides none, for any number of tasks and workers; *)
(* under every fault of the parts (Supervisor._act, AgentLinkServer._serve, WorkerLedger.end).                       *)
THEOREM SupervisionStaysSafe == Spec => SupervisionIsSafe
<1>1. S!Spec => []S!SupervisorTypeOK /\ S!TickOnlyLowers
  BY TicksLower, SupervisionAssumption DEF SupervisionAssumption
<1>2. R!Spec => []R!RegistryTypeOK /\ R!OnlySilentIsTakenOver
  BY SilentOnesAreTakenOver, SupervisionAssumption DEF SupervisionAssumption
<1>3. T!Spec => [](T!TerminalTypeOK /\ T!LedgerIsTrue)
  BY WorkersAreCounted, SupervisionAssumption DEF SupervisionAssumption
<1>4. L!Spec => []L!LedgerTypeOK
  BY LedgerIsTyped, SupervisionAssumption DEF SupervisionAssumption
<1>5. Spec => SafetySpec
  BY DEF Spec
<1> QED  BY <1>1, <1>2, <1>3, <1>4, <1>5, SupervisorRuns, AgentRegistryRuns, TerminalRuns, RiskLedgerRuns, PTL
            DEF SupervisionIsSafe
=============================================================================
