--------------------------- MODULE TradingDayProofs ---------------------------
(***************************************************************************)
(* The proofs of the safety of a trading day's own loops. The first three   *)
(* sections prove a part for every value of its constants, from its own     *)
(* initial states and steps as TradingDay instantiates them; the last one   *)
(* shows that TradingDay implements each of them, and draws the theorems.   *)
(***************************************************************************)
EXTENDS TradingDay, FiniteSetTheorems, WellFoundedInduction, TLAPS

-----------------------------------------------------------------------------
(* Starting the system (services/startup.py).                              *)

LEMMA RanksOfTheStart ==
    /\ U!Modes = {"HALTED", "OFF", "OBSERVE", "PAPER", "CONFIRM", "ARMED", "AUTONOMOUS"}
    /\ U!Rungs = {"OFF", "OBSERVE", "PAPER", "CONFIRM", "ARMED", "AUTONOMOUS"}
    /\ U!Rank("HALTED") = -1 /\ U!Rank("OFF") = 0 /\ U!Rank("OBSERVE") = 1 /\ U!Rank("PAPER") = 2
    /\ U!Rank("CONFIRM") = 3 /\ U!Rank("ARMED") = 4 /\ U!Rank("AUTONOMOUS") = 5
BY DEF U!Modes, U!Rungs, U!Rank, U!RankOf

Requests == [pc : {"idle", "begins", "database", "account", "connects", "terminal", "engines", "climbs", "checked"},
             target : U!StartTargets \cup {"OFF"}, ack : BOOLEAN, account : Accounts \cup {U!NoAccount},
             reached : U!Modes]
StartRuns == [state : {"none", "RUNNING", "DONE", "PARTIAL", "BLOCKED"}, by : Clicks \cup {U!NoAccount},
              target : U!StartTargets \cup {"OFF"}, reached : U!Modes \cup {"none"}]
StartTyped ==
    /\ startMode \in U!Modes /\ db \in BOOLEAN /\ green \in BOOLEAN
    /\ selected \in Accounts \cup {U!NoAccount} /\ attached \in Accounts \cup {U!NoAccount}
    /\ run \in StartRuns
    /\ click \in [Clicks -> Requests]
    /\ climbs \subseteq U!StartTargets
(* The conditions are read afresh for one rung only, the one that sends orders. *)
CheckedForConfirm == \A c \in Clicks : click[c].pc = "checked" => U!NextRung(c) = "CONFIRM"
StartInv == StartTyped /\ CheckedForConfirm

LEMMA TargetsAreModes == U!StartTargets \subseteq U!Modes /\ U!Rungs \subseteq U!Modes
BY RanksOfTheStart DEF U!StartTargets

LEMMA WaitingIsARequest == U!Waiting \in Requests /\ U!Waiting.pc = "idle"
BY RanksOfTheStart DEF U!Waiting, Requests

LEMMA InitialStart == U!Init => StartInv
<1> SUFFICES ASSUME U!Init PROVE StartInv
  OBVIOUS
<1>1. U!NoRun \in StartRuns
  BY DEF U!NoRun, StartRuns
<1> QED  BY <1>1, RanksOfTheStart, WaitingIsARequest DEF U!Init, StartInv, StartTyped, CheckedForConfirm

(* A step of one request that leaves the mode alone: what it has to keep. *)
LEMMA RequestKeeps ==
    ASSUME StartInv, NEW c \in Clicks, NEW r \in Requests, click' = [click EXCEPT ![c] = r],
           r.pc = "checked" => /\ r.target = click[c].target /\ r.reached = click[c].reached
                               /\ U!NextRung(c) = "CONFIRM",
           startMode' \in U!Modes, db' \in BOOLEAN, green' \in BOOLEAN,
           selected' \in Accounts \cup {U!NoAccount}, attached' \in Accounts \cup {U!NoAccount},
           run' \in StartRuns, climbs' \subseteq U!StartTargets
    PROVE  StartInv'
<1>1. StartTyped'
  BY DEF StartInv, StartTyped
<1>2. ASSUME NEW d \in Clicks, click'[d].pc = "checked" PROVE U!NextRung(d)' = "CONFIRM"
  <2>1. click'[d].target = click[d].target /\ click'[d].reached = click[d].reached /\ U!NextRung(d) = "CONFIRM"
    BY <1>2 DEF StartInv, StartTyped, CheckedForConfirm
  <2> QED  BY <2>1 DEF U!NextRung
<1> QED  BY <1>1, <1>2 DEF StartInv, CheckedForConfirm

(* A step of the world. *)
LEMMA WorldKeepsStart ==
    ASSUME StartInv, UNCHANGED <<run, click, climbs>>,
           startMode' \in U!Modes, db' \in BOOLEAN, green' \in BOOLEAN,
           selected' \in Accounts \cup {U!NoAccount}, attached' \in Accounts \cup {U!NoAccount}
    PROVE  StartInv'
<1>1. \A c \in Clicks : U!NextRung(c)' = U!NextRung(c)
  BY DEF U!NextRung
<1> QED  BY <1>1 DEF StartInv, StartTyped, CheckedForConfirm

LEMMA FinishingKeeps ==
    ASSUME StartInv, NEW c \in Clicks,
           NEW outcome \in {"DONE", "PARTIAL", "BLOCKED"}, NEW reached \in U!Modes \cup {"none"},
           U!Finishes(c, outcome, reached), UNCHANGED <<startMode, db, green, selected, attached, climbs>>
    PROVE  StartInv'
<1>1. run' \in StartRuns
  BY DEF U!Finishes, StartInv, StartTyped, StartRuns
<1> QED  BY <1>1, WaitingIsARequest, RequestKeeps DEF U!Finishes, StartInv, StartTyped

LEMMA BlockingKeeps ==
    ASSUME StartInv, NEW c \in Clicks, U!Blocks(c), UNCHANGED <<startMode, db, green, selected, attached, climbs>>
    PROVE  StartInv'
BY FinishingKeeps DEF U!Blocks

LEMMA ContinuingKeeps ==
    ASSUME StartInv, NEW c \in Clicks, NEW pc \in {"account", "connects", "terminal", "engines", "climbs", "checked"},
           U!Continues(c, pc), pc = "checked" => U!NextRung(c) = "CONFIRM",
           UNCHANGED <<startMode, db, green, climbs>>,
           selected' \in Accounts \cup {U!NoAccount}, attached' \in Accounts \cup {U!NoAccount}
    PROVE  StartInv'
<1> DEFINE r == [click[c] EXCEPT !.pc = pc]
<1>1. r \in Requests /\ r.pc = pc /\ r.target = click[c].target /\ r.reached = click[c].reached
  BY DEF StartInv, StartTyped, Requests
<1>2. click' = [click EXCEPT ![c] = r] /\ UNCHANGED run
  BY DEF U!Continues
<1> HIDE DEF r
<1> QED  BY <1>1, <1>2, RequestKeeps DEF StartInv, StartTyped

LEMMA BeginningKeeps ==
    ASSUME StartInv, NEW c \in Clicks, NEW target \in U!StartTargets, NEW ack \in BOOLEAN, U!Begins(c, target, ack)
    PROVE  StartInv'
<1> DEFINE r == [U!Waiting EXCEPT !.pc = "begins", !.target = target, !.ack = ack]
<1>1. r \in Requests /\ r.pc = "begins"
  BY RanksOfTheStart DEF U!Waiting, Requests
<1>2. click' = [click EXCEPT ![c] = r] /\ UNCHANGED <<startMode, db, green, selected, attached, run, climbs>>
  BY DEF U!Begins, U!surroundings
<1> HIDE DEF r
<1> QED  BY <1>1, <1>2, RequestKeeps DEF StartInv, StartTyped

LEMMA StartingKeeps == ASSUME StartInv, NEW c \in Clicks, U!Starts(c) PROVE StartInv'
<1> DEFINE r == [click[c] EXCEPT !.pc = "database"]
           now == [state |-> "RUNNING", by |-> c, target |-> click[c].target, reached |-> "none"]
<1>1. r \in Requests /\ r.pc = "database" /\ now \in StartRuns
  BY DEF StartInv, StartTyped, Requests, StartRuns
<1>2. \/ click' = [click EXCEPT ![c] = U!Waiting] /\ UNCHANGED run
      \/ click' = [click EXCEPT ![c] = r] /\ run' = now
  BY DEF U!Starts
<1>3. UNCHANGED <<startMode, db, green, selected, attached, climbs>>
  BY DEF U!Starts, U!surroundings
<1> HIDE DEF r, now
<1> QED  BY <1>1, <1>2, <1>3, WaitingIsARequest, RequestKeeps DEF StartInv, StartTyped

LEMMA VerifyingKeeps ==
    ASSUME StartInv, NEW c \in Clicks,
           U!ChecksDatabase(c) \/ U!ReadsTerminal(c) \/ U!ChecksConditions(c) \/ U!Reaches(c) \/ U!EngineRaises(c)
    PROVE  StartInv'
<1>0. click[c].reached \in U!Modes /\ UNCHANGED <<startMode, db, green, selected, attached, climbs>>
  BY DEF StartInv, StartTyped, Requests, U!ChecksDatabase, U!ReadsTerminal, U!ChecksConditions, U!Reaches,
         U!EngineRaises, U!surroundings
<1>1. \/ U!Blocks(c) \/ U!Finishes(c, "PARTIAL", click[c].reached) \/ U!Finishes(c, "DONE", click[c].reached)
      \/ U!Continues(c, "account") \/ U!Continues(c, "engines")
      \/ U!Continues(c, "checked") /\ U!NextRung(c) = "CONFIRM"
  BY DEF U!ChecksDatabase, U!ReadsTerminal, U!ChecksConditions, U!Reaches, U!EngineRaises, U!Fails
<1>2. CASE U!Blocks(c)
  BY <1>0, <1>2, BlockingKeeps
<1>3. CASE U!Finishes(c, "PARTIAL", click[c].reached) \/ U!Finishes(c, "DONE", click[c].reached)
  BY <1>0, <1>3, FinishingKeeps
<1>4. CASE U!Continues(c, "account") \/ U!Continues(c, "engines")
  BY <1>0, <1>4, ContinuingKeeps DEF StartInv, StartTyped
<1>5. CASE U!Continues(c, "checked") /\ U!NextRung(c) = "CONFIRM"
  BY <1>0, <1>5, ContinuingKeeps DEF StartInv, StartTyped
<1> QED  BY <1>1, <1>2, <1>3, <1>4, <1>5

LEMMA ChoosingTheAccountKeeps == ASSUME StartInv, NEW c \in Clicks, U!ChecksAccount(c) PROVE StartInv'
<1> DEFINE pc == IF attached = selected THEN "terminal" ELSE "connects"
           r == [click[c] EXCEPT !.account = selected, !.pc = pc]
<1>0. UNCHANGED <<startMode, db, green, selected, attached, climbs>>
  BY DEF U!ChecksAccount, U!surroundings
<1>1. r \in Requests /\ r.pc # "checked"
  BY DEF StartInv, StartTyped, Requests
<1>2. U!Blocks(c) \/ (click' = [click EXCEPT ![c] = r] /\ UNCHANGED run)
  BY DEF U!ChecksAccount
<1> HIDE DEF r
<1>3. CASE U!Blocks(c)
  BY <1>0, <1>3, BlockingKeeps
<1>4. CASE click' = [click EXCEPT ![c] = r] /\ UNCHANGED run
  BY <1>0, <1>1, <1>4, RequestKeeps DEF StartInv, StartTyped
<1> QED  BY <1>2, <1>3, <1>4

LEMMA ConnectingKeeps == ASSUME StartInv, NEW c \in Clicks, U!Connects(c) PROVE StartInv'
<1>1. CASE U!Blocks(c) /\ UNCHANGED <<attached, selected>>
  BY <1>1, BlockingKeeps DEF U!Connects
<1>2. CASE attached' = click[c].account /\ selected' = click[c].account /\ U!Continues(c, "terminal")
  <2>1. click[c].account \in Accounts \cup {U!NoAccount}
    BY DEF StartInv, StartTyped, Requests
  <2> QED  BY <1>2, <2>1, ContinuingKeeps DEF U!Connects
<1> QED  BY <1>1, <1>2 DEF U!Connects

LEMMA EnginesKeep == ASSUME StartInv, NEW c \in Clicks, U!RunsEngines(c) PROVE StartInv'
<1> DEFINE r == [click[c] EXCEPT !.pc = "climbs", !.reached = startMode]
<1>1. r \in Requests /\ r.pc = "climbs"
  BY DEF StartInv, StartTyped, Requests
<1>2. click' = [click EXCEPT ![c] = r] /\ UNCHANGED <<startMode, db, green, selected, attached, run, climbs>>
  BY DEF U!RunsEngines, U!surroundings
<1> HIDE DEF r
<1> QED  BY <1>1, <1>2, RequestKeeps DEF StartInv, StartTyped

LEMMA ClimbingKeeps == ASSUME StartInv, NEW c \in Clicks, U!Climbs(c) PROVE StartInv'
<1> DEFINE rung == U!NextRung(c)
           r == [click[c] EXCEPT !.pc = "climbs", !.reached = rung]
<1>0. click[c].reached \in U!Modes
  BY DEF StartInv, StartTyped, Requests
<1>1. rung \in U!StartTargets
  BY DEF StartInv, CheckedForConfirm, U!Climbs, U!StartTargets
<1>2. r \in Requests /\ r.pc = "climbs"
  BY <1>1, TargetsAreModes DEF StartInv, StartTyped, Requests
<1>3. UNCHANGED <<db, green, selected, attached>>
  BY DEF U!Climbs
<1>4. \/ /\ startMode' = rung /\ click' = [click EXCEPT ![c] = r] /\ UNCHANGED run
         /\ climbs' = climbs \/ climbs' = climbs \cup {rung}
      \/ U!Stops(c) /\ UNCHANGED <<startMode, climbs>>
  BY DEF U!Climbs
<1> HIDE DEF r, rung
<1>5. CASE U!Stops(c) /\ UNCHANGED <<startMode, climbs>>
  <2>1. U!Finishes(c, "BLOCKED", click[c].reached) \/ U!Finishes(c, "PARTIAL", click[c].reached)
    BY <1>5 DEF U!Stops
  <2> QED  BY <1>0, <1>3, <1>5, <2>1, FinishingKeeps
<1>6. CASE /\ startMode' = rung /\ click' = [click EXCEPT ![c] = r] /\ UNCHANGED run
           /\ climbs' = climbs \/ climbs' = climbs \cup {rung}
  BY <1>1, <1>2, <1>3, <1>6, TargetsAreModes, RequestKeeps DEF StartInv, StartTyped
<1> QED  BY <1>4, <1>5, <1>6

LEMMA AuthorizingKeeps == ASSUME StartInv, U!Authorizes PROVE StartInv'
<1>1. U!NextAutomatic(U!EffectiveMode(selected)) \in U!Modes
  BY RanksOfTheStart DEF U!Authorizes, U!MayAuthorize, U!NextAutomatic
<1> QED  BY <1>1, WorldKeepsStart DEF U!Authorizes, StartInv, StartTyped

LEMMA ModeMovesKeep == ASSUME StartInv, U!ModeMoves PROVE StartInv'
<1>1. startMode' \in U!Modes
  BY RanksOfTheStart, TargetsAreModes DEF U!ModeMoves
<1> QED  BY <1>1, WorldKeepsStart DEF U!ModeMoves, StartInv, StartTyped

LEMMA WorldMovesKeep == ASSUME StartInv, U!WorldMoves PROVE StartInv'
<1>1. /\ db' \in BOOLEAN /\ green' \in BOOLEAN
      /\ selected' \in Accounts \cup {U!NoAccount} /\ attached' \in Accounts \cup {U!NoAccount}
      /\ UNCHANGED <<startMode, run, click, climbs>>
  BY DEF U!WorldMoves, StartInv, StartTyped
<1> QED  BY <1>1, WorldKeepsStart DEF StartInv, StartTyped

LEMMA StartSteps == ASSUME StartInv, [U!Next]_(U!startupVars) PROVE StartInv'
<1>1. CASE U!Next
  BY <1>1, BeginningKeeps, StartingKeeps, VerifyingKeeps, ChoosingTheAccountKeeps, ConnectingKeeps, EnginesKeep,
     ClimbingKeeps, AuthorizingKeeps, ModeMovesKeep, WorldMovesKeep DEF U!Next, U!SequenceSteps
<1>2. CASE UNCHANGED U!startupVars
  BY <1>2, WorldKeepsStart DEF U!startupVars, StartInv, StartTyped
<1> QED  BY <1>1, <1>2

(* What is offered is granted: with every condition green the account is under no ceiling below the mode, or the *)
(* next rung would be above it. *)
LEMMA PictureFollows == ASSUME U!StartupAssumption, StartInv PROVE U!PictureIsTrue
<1>1. U!CanAuthorize => U!MayAuthorize(TRUE)
  <2> SUFFICES ASSUME U!CanAuthorize PROVE U!MayAuthorize(TRUE)
    OBVIOUS
  <2> DEFINE next == U!NextAutomatic(U!EffectiveMode(selected))
             ceiling == U!CeilingOf(selected)
  <2>1. U!RedChecks(selected) = {} /\ next # "none" /\ U!Rank(next) <= U!Rank(ceiling) /\ startMode # "HALTED"
    BY DEF U!CanAuthorize
  <2>2. selected # U!NoAccount /\ green
    BY <2>1 DEF U!RedChecks
  <2>3. startMode \in U!Modes /\ ceiling \in U!Modes
    BY <2>2, TargetsAreModes DEF StartInv, StartTyped, U!CeilingOf, U!StartupAssumption
  <2>4. U!EffectiveMode(selected) = U!Lowest(startMode, ceiling)
    BY <2>2 DEF U!EffectiveMode
  <2>5. U!Rank(next) = U!Rank(U!Lowest(startMode, ceiling)) + 1
    BY <2>1, <2>4, RanksOfTheStart DEF U!NextAutomatic
  <2>6. U!Lowest(startMode, ceiling) = startMode
    BY <2>1, <2>3, <2>5, RanksOfTheStart DEF U!Lowest
  <2>7. U!MayArm(startMode, next, ceiling, green)
    BY <2>1, <2>2, <2>5, <2>6 DEF U!MayArm
  <2> QED  BY <2>1, <2>2, <2>7 DEF U!MayAuthorize
<1>2. U!EntriesAuthorized <=> U!TradingStage = "RUNNING"
  BY DEF U!EntriesAuthorized, U!TradingStage, U!SendsOrders, U!Automatic
<1> QED  BY <1>1, <1>2 DEF U!PictureIsTrue

(* The sequence is well typed and the picture is true, for any accounts and clicks, however the world moves at *)
(* each await of the sequence (StartupService). *)
LEMMA StartIsTrue ==
    U!StartupAssumption => (U!Spec => [](U!StartupTypeOK /\ U!PictureIsTrue))
<1> SUFFICES ASSUME U!StartupAssumption PROVE U!Spec => [](U!StartupTypeOK /\ U!PictureIsTrue)
  OBVIOUS
<1>1. U!Init => StartInv
  BY InitialStart
<1>2. StartInv /\ [U!Next]_(U!startupVars) => StartInv'
  BY StartSteps
<1>3. StartInv => U!StartupTypeOK /\ U!PictureIsTrue
  <2>1. StartInv => U!StartupTypeOK
    BY DEF StartInv, StartTyped, StartRuns, Requests, U!StartupTypeOK
  <2> QED  BY <2>1, PictureFollows
<1> QED  BY <1>1, <1>2, <1>3, PTL DEF U!Spec

-----------------------------------------------------------------------------
(* The guardian and the position manager (services/guardian.py, position_manager.py). *)

Kinds == {"CLOSE", "PARTIAL_CLOSE", "MODIFY", "CANCEL"}
Asking == [n : 0..MaxAttempts, st : {"none", "flight", "done", "recent", "rested"}, kind : Kinds, to : P!Stops,
           effect : BOOLEAN]
Cycle == [on : BOOLEAN, todo : SUBSET P!Command]
ProtectionTyped ==
    /\ broker \in P!View /\ picture \in P!View
    /\ claimed \in BOOLEAN /\ market \in P!Facts
    /\ mode \in {"OBSERVE", "ARMED", "HALTED"}
    /\ ask \in [P!Prefixes -> Asking]
    /\ cycle \in [P!Services -> Cycle]

(* The stops there are: none, or up to the highest price. *)
LEMMA StopsAreKnown ==
    ASSUME P!ProtectionAssumption
    PROVE  \E top \in Prices : /\ P!Stops = 0 .. top /\ FirstStop < top /\ top \in Nat
                               /\ \A p \in Prices : p <= top
<1>1. PICK top \in Prices : FirstStop < top /\ \A p \in Prices : p <= top
  BY DEF P!ProtectionAssumption
<1> DEFINE highest == CHOOSE t \in Prices : \A p \in Prices : p <= t
<1>2. highest \in Prices /\ \A p \in Prices : p <= highest
  BY <1>1
<1>0. Prices \subseteq Nat
  BY DEF P!ProtectionAssumption
<1>4. P!Stops = {0} \cup 1 .. highest
  BY DEF P!Stops, P!NoStop
<1> HIDE DEF highest
<1>3. top \in Nat /\ highest \in Nat /\ highest <= top /\ top <= highest
  BY <1>0, <1>1, <1>2
<1>5. highest = top
  BY <1>3
<1>6. FirstStop \in Nat /\ FirstStop < top
  BY <1>1 DEF P!ProtectionAssumption
<1>7. P!Stops = 0 .. top
  BY <1>3, <1>4, <1>5, <1>6
<1> QED  BY <1>1, <1>3, <1>7

LEMMA NumbersOfTheDay ==
    ASSUME P!ProtectionAssumption
    PROVE  /\ Prices \subseteq Nat /\ Entry \in Nat /\ FirstStop \in Nat /\ 1 <= FirstStop /\ FirstStop < Entry
           /\ MaxAttempts \in Nat /\ Lots \in Nat /\ 1 <= Lots /\ 1 <= MaxAttempts
           /\ FirstStop \in P!Stops /\ P!NoStop \in P!Stops /\ P!Stops \subseteq Nat
           /\ \A p \in Prices : \A stop \in Nat : stop < p => stop \in P!Stops
           /\ \E p \in Prices : p > FirstStop
BY StopsAreKnown DEF P!ProtectionAssumption, P!NoStop

LEMMA InitialProtection == ASSUME P!ProtectionAssumption, P!Init PROVE ProtectionTyped
<1>1. P!Fresh \in P!View
  BY NumbersOfTheDay DEF P!Fresh, P!View, P!Moves
<1>2. (CHOOSE p \in Prices : p > FirstStop) \in Prices
  BY NumbersOfTheDay
<1>3. market \in P!Facts
  BY <1>2 DEF P!Init, P!Facts
<1>4. P!NoAsk \in Asking
  BY NumbersOfTheDay DEF P!NoAsk, Asking, Kinds
<1>5. [on |-> FALSE, todo |-> {}] \in Cycle
  BY DEF Cycle
<1> QED  BY <1>1, <1>3, <1>4, <1>5 DEF P!Init, ProtectionTyped

(* What is wanted of a position, a stop among others, is a command. *)
LEMMA WantsAreCommands ==
    ASSUME P!ProtectionAssumption, ProtectionTyped, NEW s \in P!Services
    PROVE  P!Wanted(s) \subseteq P!Command
<1>1. P!Prefixes = {"flat", "protect", "breakeven", "trail", "partial", "stale", "limit", "nostop", "withdraw"}
  BY DEF P!Prefixes, P!Managing, P!Guarding
<1>2. \A k \in P!Prefixes, kind \in Kinds, stop \in P!Stops : P!Wants(k, kind, stop) \in P!Command
  BY DEF P!Wants, P!Command, Kinds
<1>3. market.price \in Prices
  BY DEF ProtectionTyped, P!Facts
<1>4. \A stop \in Nat : P!Improves(stop) => stop \in P!Stops
  BY <1>3, NumbersOfTheDay DEF P!Improves
<1>5. P!StopMoves \subseteq P!Command
  <2> DEFINE trailed == market.price - (Entry - FirstStop)
  <2>1. ASSUME NEW c \in P!StopMoves
        PROVE  \/ c = P!Wants("breakeven", "MODIFY", Entry) /\ P!Improves(Entry)
               \/ c = P!Wants("trail", "MODIFY", trailed) /\ trailed >= Entry /\ P!Improves(trailed)
    BY DEF P!StopMoves
  <2>2. trailed >= Entry => trailed \in Nat
    BY <1>3, NumbersOfTheDay
  <2> HIDE DEF trailed
  <2>3. ASSUME NEW c \in P!StopMoves PROVE c \in P!Command
    <3>1. CASE c = P!Wants("breakeven", "MODIFY", Entry) /\ P!Improves(Entry)
      <4>1. Entry \in P!Stops
        BY <1>4, <3>1, NumbersOfTheDay
      <4> QED  BY <1>1, <1>2, <3>1, <4>1 DEF Kinds
    <3>2. CASE c = P!Wants("trail", "MODIFY", trailed) /\ trailed >= Entry /\ P!Improves(trailed)
      <4>1. trailed \in P!Stops
        BY <1>4, <2>2, <3>2
      <4> QED  BY <1>1, <1>2, <3>2, <4>1 DEF Kinds
    <3> QED  BY <2>1, <3>1, <3>2
  <2> QED  BY <2>3
<1>6. P!Partial \subseteq P!Command /\ P!Protect \subseteq P!Command /\ P!PlanOrder \subseteq P!Command
  BY <1>1, <1>2, NumbersOfTheDay DEF P!Partial, P!Protect, P!PlanOrder, Kinds
<1>7. P!PlanPosition \subseteq P!Command
  BY <1>1, <1>2, <1>5, <1>6, NumbersOfTheDay DEF P!PlanPosition, Kinds
<1>8. P!Judged \subseteq P!Command
  BY <1>1, <1>2, NumbersOfTheDay DEF P!Judged, Kinds
<1> QED  BY <1>6, <1>7, <1>8 DEF P!Wanted

LEMMA AskingOff ==
    ASSUME ProtectionTyped, NEW s \in P!Services, NEW command, P!Asked(s, command)
    PROVE  cycle' \in [P!Services -> Cycle]
BY DEF ProtectionTyped, Cycle, P!Asked

LEMMA CyclesKeep ==
    ASSUME P!ProtectionAssumption, ProtectionTyped, NEW s \in P!Services, P!CycleBegins(s) \/ P!CycleSteps(s)
    PROVE  ProtectionTyped'
<1>1. CASE P!CycleBegins(s)
  <2>1. [on |-> TRUE, todo |-> P!Wanted(s)] \in Cycle
    BY WantsAreCommands DEF Cycle
  <2> QED  BY <1>1, <2>1 DEF P!CycleBegins, ProtectionTyped
<1>2. CASE P!CycleEnds(s)
  BY <1>2 DEF P!CycleEnds, ProtectionTyped, Cycle
<1>3. ASSUME NEW command \in cycle[s].todo, P!Asks(s, command) PROVE ProtectionTyped'
  <2> DEFINE k == command.prefix
             n == IF ask[k].n = MaxAttempts THEN ask[k].n ELSE ask[k].n + 1
             st == IF P!Refused(command) THEN "recent" ELSE "flight"
             a == [ask[k] EXCEPT !.n = n, !.st = st, !.kind = command.kind, !.to = command.to]
  <2>1. k \in P!Prefixes /\ command.kind \in Kinds /\ command.to \in P!Stops
    BY DEF ProtectionTyped, Cycle, P!Command, Kinds
  <2>2. ask[k] \in Asking /\ n \in 0..MaxAttempts
    BY <2>1, NumbersOfTheDay DEF ProtectionTyped, Asking
  <2>3. ask' = [ask EXCEPT ![k] = a]
    BY <1>3, <2>1 DEF P!Asks, ProtectionTyped, Asking
  <2>4. st \in {"none", "flight", "done", "recent", "rested"}
    OBVIOUS
  <2> HIDE DEF n, st
  <2>5. a \in Asking
    BY <2>1, <2>2, <2>4 DEF Asking
  <2> HIDE DEF a, k
  <2>6. ask' \in [P!Prefixes -> Asking]
    BY <2>1, <2>3, <2>5 DEF ProtectionTyped
  <2>7. cycle' \in [P!Services -> Cycle]
    BY <1>3, AskingOff DEF P!Asks
  <2> QED  BY <1>3, <2>6, <2>7 DEF P!Asks, ProtectionTyped
<1>4. ASSUME NEW command \in cycle[s].todo, P!Waits(s, command) \/ P!GivesUp(s, command) PROVE ProtectionTyped'
  BY <1>4, AskingOff DEF P!Waits, P!GivesUp, ProtectionTyped
<1> QED  BY <1>1, <1>2, <1>3, <1>4 DEF P!CycleSteps

LEMMA MovingOn ==
    ASSUME ProtectionTyped, NEW k \in P!Prefixes, NEW st \in {"none", "flight", "done", "recent", "rested"}, P!Moved(k, st)
    PROVE  ask' \in [P!Prefixes -> Asking]
BY DEF ProtectionTyped, Asking, P!Moved

(* A command that takes effect leaves a position, and, when it is still open, a stop that is no looser. *)
LEMMA EffectsAreViews ==
    ASSUME P!ProtectionAssumption, ProtectionTyped, NEW k \in P!Prefixes, P!Executes(k)
    PROVE  broker' \in P!View /\ (broker'.open => broker'.stop >= broker.stop)
<1>1. /\ broker.open \in BOOLEAN /\ broker.stop \in P!Stops /\ broker.lots \in 0..Lots /\ broker.resting \in BOOLEAN
      /\ broker = [open |-> broker.open, stop |-> broker.stop, lots |-> broker.lots, resting |-> broker.resting]
      /\ ask[k].kind \in Kinds /\ ask[k].to \in P!Stops
  BY DEF ProtectionTyped, P!View, Asking
<1>2. broker' = P!Effect(k)
  BY DEF P!Executes
<1>3. CASE ask[k].kind = "CLOSE"
  <2>1. broker' = [broker EXCEPT !.open = FALSE, !.lots = 0]
    BY <1>2, <1>3 DEF P!Effect
  <2>2. broker' = [open |-> FALSE, stop |-> broker.stop, lots |-> 0, resting |-> broker.resting]
    BY <1>1, <2>1
  <2>3. broker' \in P!View
    BY <1>1, <2>2, NumbersOfTheDay DEF P!View
  <2>4. broker'.open = FALSE
    BY <2>2
  <2> QED  BY <2>3, <2>4
<1>4. CASE ask[k].kind = "PARTIAL_CLOSE"
  <2>1. broker' = [broker EXCEPT !.lots = broker.lots - Lots \div 2] /\ broker.lots > Lots \div 2
    BY <1>2, <1>4 DEF P!Effect, P!Executes
  <2>2. broker.lots - Lots \div 2 \in 0..Lots
    BY <1>1, <2>1, NumbersOfTheDay
  <2> QED  BY <1>1, <2>1, <2>2, NumbersOfTheDay DEF P!View
<1>5. CASE ask[k].kind = "MODIFY"
  <2>1. broker' = [broker EXCEPT !.stop = ask[k].to] /\ ~P!Looser(ask[k].to)
    BY <1>2, <1>5 DEF P!Effect, P!Executes
  <2>2. ask[k].to >= broker.stop
    BY <1>1, <2>1, NumbersOfTheDay DEF P!Looser, P!NoStop
  <2> QED  BY <1>1, <2>1, <2>2 DEF P!View
<1>6. CASE ask[k].kind = "CANCEL"
  <2>1. broker' = [broker EXCEPT !.resting = FALSE]
    BY <1>2, <1>6 DEF P!Effect
  <2>2. broker' = [open |-> broker.open, stop |-> broker.stop, lots |-> broker.lots, resting |-> FALSE]
    BY <1>1, <2>1
  <2>3. broker' \in P!View
    BY <1>1, <2>2 DEF P!View
  <2>4. broker'.stop >= broker.stop
    BY <1>1, <2>2, NumbersOfTheDay
  <2> QED  BY <2>3, <2>4
<1> QED  BY <1>1, <1>3, <1>4, <1>5, <1>6 DEF Kinds

LEMMA CommandsKeep ==
    ASSUME P!ProtectionAssumption, ProtectionTyped, NEW k \in P!Prefixes, P!Settles(k) \/ P!Rests(k)
    PROVE  ProtectionTyped'
<1>1. CASE P!Executes(k)
  <2> DEFINE a == [ask[k] EXCEPT !.st = "done", !.effect = TRUE]
  <2>2. a \in Asking
    BY DEF ProtectionTyped, Asking
  <2>3. ask' = [ask EXCEPT ![k] = a]
    BY <1>1 DEF P!Executes, ProtectionTyped, Asking
  <2> HIDE DEF a
  <2>1. ask' \in [P!Prefixes -> Asking]
    BY <2>2, <2>3 DEF ProtectionTyped
  <2> QED  BY <1>1, <2>1, EffectsAreViews DEF P!Executes, ProtectionTyped
<1>2. CASE P!Fails(k) \/ P!Reports(k) \/ P!Rests(k)
  BY <1>2, MovingOn DEF P!Fails, P!Reports, P!Rests, ProtectionTyped
<1> QED  BY <1>1, <1>2 DEF P!Settles

LEMMA PollingKeeps == ASSUME ProtectionTyped, P!Polls \/ P!IsClaimed \/ P!GraceEnds PROVE ProtectionTyped'
<1>1. market' \in P!Facts
  BY DEF P!Polls, P!IsClaimed, P!GraceEnds, ProtectionTyped, P!Facts, P!View
<1> QED  BY <1>1 DEF P!Polls, P!IsClaimed, P!GraceEnds, ProtectionTyped

LEMMA MarketKeeps == ASSUME ProtectionTyped, P!MarketMoves PROVE ProtectionTyped'
<1>1. market' \in P!Facts
  BY DEF P!MarketMoves, ProtectionTyped, P!Facts
<1> QED  BY <1>1 DEF P!MarketMoves, ProtectionTyped

LEMMA BrokerKeeps == ASSUME P!ProtectionAssumption, ProtectionTyped, P!BrokerMoves \/ P!ModeMoves PROVE ProtectionTyped'
<1>0. /\ broker.open \in BOOLEAN /\ broker.stop \in P!Stops /\ broker.lots \in 0..Lots /\ broker.resting \in BOOLEAN
      /\ broker = [open |-> broker.open, stop |-> broker.stop, lots |-> broker.lots, resting |-> broker.resting]
  BY DEF ProtectionTyped, P!View
<1>1. \/ broker' = broker
      \/ broker' = [open |-> FALSE, stop |-> broker.stop, lots |-> 0, resting |-> broker.resting]
      \/ broker' = [open |-> broker.open, stop |-> broker.stop, lots |-> broker.lots, resting |-> FALSE]
      \/ broker' = [open |-> broker.open, stop |-> P!NoStop, lots |-> broker.lots, resting |-> broker.resting]
  BY <1>0 DEF P!BrokerMoves, P!ModeMoves
<1>2. \A o, r \in BOOLEAN, stop \in P!Stops, l \in 0..Lots : [open |-> o, stop |-> stop, lots |-> l, resting |-> r] \in P!View
  BY DEF P!View
<1>3. 0 \in 0..Lots /\ P!NoStop \in P!Stops /\ FALSE \in BOOLEAN
  BY NumbersOfTheDay
<1>4. broker' \in P!View
  <2>1. CASE broker' = broker
    BY <2>1 DEF ProtectionTyped
  <2>2. CASE broker' = [open |-> FALSE, stop |-> broker.stop, lots |-> 0, resting |-> broker.resting]
    BY <1>0, <1>2, <1>3, <2>2
  <2>3. CASE broker' = [open |-> broker.open, stop |-> broker.stop, lots |-> broker.lots, resting |-> FALSE]
    BY <1>0, <1>2, <1>3, <2>3
  <2>4. CASE broker' = [open |-> broker.open, stop |-> P!NoStop, lots |-> broker.lots, resting |-> broker.resting]
    BY <1>0, <1>2, <1>3, <2>4
  <2> QED  BY <1>1, <2>1, <2>2, <2>3, <2>4
<1> QED  BY <1>4 DEF P!BrokerMoves, P!ModeMoves, ProtectionTyped

LEMMA ProtectionSteps ==
    ASSUME P!ProtectionAssumption, ProtectionTyped, [P!Next]_(P!vars)
    PROVE  ProtectionTyped'
<1>1. CASE P!Next
  BY <1>1, CyclesKeep, CommandsKeep, PollingKeeps, MarketKeeps, BrokerKeeps DEF P!Next
<1>2. CASE UNCHANGED P!vars
  BY <1>2 DEF P!vars, ProtectionTyped
<1> QED  BY <1>1, <1>2

(* Whatever is wanted, asked, refused and carried out late, no command loosens a stop, for any prices, plan and *)
(* limits (GuardianService, PositionManagerService, ADR 0023). *)
LEMMA ProtectionIsSafe ==
    P!ProtectionAssumption => (P!Spec => []P!ProtectionTypeOK /\ P!StopNeverLoosens)
<1> SUFFICES ASSUME P!ProtectionAssumption PROVE P!Spec => []P!ProtectionTypeOK /\ P!StopNeverLoosens
  OBVIOUS
<1>1. P!Init => ProtectionTyped
  BY InitialProtection
<1>2. ProtectionTyped /\ [P!Next]_(P!vars) => ProtectionTyped'
  BY ProtectionSteps
<1>3. ProtectionTyped => P!ProtectionTypeOK
  BY DEF ProtectionTyped, P!ProtectionTypeOK, Asking, Kinds, Cycle
<1>4. ProtectionTyped /\ [P!Next]_(P!vars) =>
         [\A k \in P!Prefixes : P!Executes(k) /\ broker'.open => broker'.stop >= broker.stop]_(P!vars)
  BY EffectsAreViews
<1> QED  BY <1>1, <1>2, <1>3, <1>4, PTL DEF P!Spec, P!StopNeverLoosens

-----------------------------------------------------------------------------
(* The market data (services/market_data.py).                              *)

(* The clock of the broker is known, and a drop tells who remembers the link. *)
FeedAssumptions == F!FeedAssumption /\ Shift = 0 /\ "unforgotten" \notin FeedFaults

Jobs == [pc : {"idle", "clock", "history", "storing", "quote", "reading"}, on : 0 .. MaxLinks,
         of : {F!None} \cup 1 .. MaxLinks, read : SUBSET F!Bars, off : {0, Shift}]
Feed == [of : {F!None} \cup 1 .. MaxLinks, last : {F!None} \cup F!Labels, prepared : BOOLEAN]
LinkState == [n : 0 .. MaxLinks, state : {"up", "closing", "closed", "down"}, clock : BOOLEAN, since : 0 .. MaxBars]
FeedTyped ==
    /\ newest \in 0 .. MaxBars /\ link \in LinkState /\ feed \in Feed
    /\ quote \in {F!None} \cup 1 .. MaxLinks
    /\ ticker \in Jobs /\ ticker.pc # "reading"
    /\ candler \in Jobs /\ candler.pc \in {"idle", "reading", "storing"}
    /\ announced \subseteq F!Bars /\ covered \subseteq F!Bars
    /\ link.state # "down" => link.n # 0

(* What was told of a bar: it was announced, or is in the history.           *)
Told == announced \cup covered
(* Nothing is told, read or remembered of a bar before it closes.            *)
NothingAhead ==
    /\ announced \subseteq 1 .. newest /\ covered \subseteq 1 .. newest
    /\ candler.read \subseteq 1 .. newest
    /\ link.since <= newest
    /\ feed.last # F!None => feed.last <= newest
(* A history that is being stored starts with the first bar, and is told.     *)
HistoryIsWhole ==
    ticker.pc = "storing" => \E m \in 1 .. newest : ticker.read = 1 .. m /\ 1 .. m \subseteq Told
(* While the link stands: the memory is not ahead of what was told, what is told of a bar is told of those *)
(* before it, the bars being announced leave no gap, and all of those not told yet can be read at once. *)
NoGap ==
    link.state = "up" =>
        /\ feed.last # F!None => \A b \in F!Bars : link.since < b /\ b <= feed.last => b \in Told
        /\ \A b, c \in F!Bars : link.since < b /\ b <= c /\ c \in Told => b \in Told
        /\ candler.pc = "storing" =>
              \A c \in candler.read, b \in F!Bars : link.since < b /\ b <= c => b \in Told \cup candler.read
        /\ Cardinality(F!Untold) <= Window
CandlesAreRead == candler.pc = "storing" => candler.read # {}
FeedInv ==
    /\ FeedTyped /\ F!QuotesAreOfTheLink
    /\ NothingAhead /\ HistoryIsWhole /\ CandlesAreRead /\ NoGap

-----------------------------------------------------------------------------
(* Cardinality, in that module and in this one. *)
LEMMA UntoldCounts == \A s : F!Cardinality(s) = Cardinality(s)
BY DEF F!Cardinality, Cardinality

LEMMA NumbersOfTheFeed ==
    ASSUME FeedAssumptions
    PROVE  /\ MaxBars \in Nat /\ MaxLinks \in Nat /\ Window \in Nat /\ Shift = 0
           /\ F!Bars = 1 .. MaxBars /\ F!Labels = 1 .. MaxBars /\ F!None = -1
           /\ F!Offset = 0 /\ ~F!Fault("unforgotten")
BY DEF FeedAssumptions, F!FeedAssumption, F!Bars, F!Labels, F!None, F!Offset, F!Fault

(* Some bars have a last one, when there are any.                            *)
LEMMA LastBarExists ==
    ASSUME NEW n \in Nat, NEW s \in SUBSET (1 .. n), s # {}
    PROVE  F!MaxOf(s) \in s /\ \A c \in s : c <= F!MaxOf(s)
<1> DEFINE After == {n - c : c \in s}
           Before == {p \in Nat \X Nat : p[1] < p[2]}
<1>1. After \in SUBSET Nat /\ After # {}
  OBVIOUS
<1>2. IsWellFoundedOn(Before, Nat)
  BY NatLessThanWellFounded DEF OpToRel
<1> HIDE DEF After, Before
<1>3. PICK m \in After : \A k \in After : <<k, m>> \notin Before
  BY <1>1, <1>2, WFMin
<1>4. PICK c \in s : m = n - c
  BY <1>3 DEF After
<1>5. ASSUME NEW b \in s PROVE b <= c
  <2>1. n - b \in After /\ n - b \in Nat /\ m \in Nat
    BY <1>1, <1>3 DEF After
  <2>2. ~(n - b < m)
    BY <1>3, <2>1 DEF Before
  <2> QED  BY <1>4, <2>2
<1> QED  BY <1>4, <1>5 DEF F!MaxOf

LEMMA UntoldIsFinite == FeedAssumptions => IsFiniteSet(F!Untold) /\ Cardinality(F!Untold) \in Nat
<1>1. FeedAssumptions => IsFiniteSet(1 .. MaxBars) /\ F!Untold \subseteq 1 .. MaxBars
  BY NumbersOfTheFeed, FS_Interval DEF F!Untold
<1> QED  BY <1>1, FS_Subset, FS_CardinalityType

LEMMA InitialFeed == ASSUME FeedAssumptions, F!Init PROVE FeedInv
<1>1. FeedTyped
  BY NumbersOfTheFeed DEF F!Init, FeedTyped, Feed, LinkState, Jobs, F!NoFeed, F!Idle
<1>2. F!Untold = {}
  BY NumbersOfTheFeed DEF F!Init, F!Untold
<1>3. Cardinality(F!Untold) <= Window
  BY <1>2, FS_EmptySet, NumbersOfTheFeed
<1>4. F!QuotesAreOfTheLink /\ NothingAhead /\ HistoryIsWhole /\ CandlesAreRead /\ NoGap
  BY DEF F!Init, F!QuotesAreOfTheLink, NothingAhead, HistoryIsWhole, CandlesAreRead, NoGap, F!NoFeed, F!Idle
<1> QED  BY <1>1, <1>4 DEF FeedInv

-----------------------------------------------------------------------------
(* The bars and what was told of them stay; a job that was not at work on them does not begin to be. *)
LEMMA BarsStand ==
    ASSUME FeedInv, FeedTyped', F!QuotesAreOfTheLink', UNCHANGED <<newest, announced, covered>>,
           link'.since = link.since, link'.state = "up" => link.state = "up",
           feed'.last = feed.last \/ feed'.last = F!None,
           candler' = candler \/ (candler'.pc # "storing" /\ candler'.read = {}),
           ticker' = ticker \/ ticker'.pc # "storing"
    PROVE  FeedInv'
<1>1. F!Untold' = F!Untold /\ Told' = Told
  BY DEF F!Untold, Told
<1>2. NothingAhead' /\ HistoryIsWhole' /\ CandlesAreRead'
  BY <1>1 DEF FeedInv, NothingAhead, HistoryIsWhole, CandlesAreRead
<1>3. NoGap'
  BY <1>1 DEF FeedInv, NoGap
<1> QED  BY <1>2, <1>3 DEF FeedInv

LEMMA LinkKeeps ==
    ASSUME FeedAssumptions, FeedInv, F!DropBegins \/ F!Closes \/ F!Forgets \/ F!IsNotForgotten
    PROVE  FeedInv'
<1>1. ~F!IsNotForgotten
  BY NumbersOfTheFeed DEF F!IsNotForgotten
<1>2. FeedTyped' /\ F!QuotesAreOfTheLink'
  <2>1. ASSUME NEW st \in {"closing", "closed"}, link.state # "down", link' = [link EXCEPT !.state = st],
               UNCHANGED <<newest, feed, quote, ticker, candler, announced, covered>>
        PROVE  FeedTyped' /\ F!QuotesAreOfTheLink'
    <3>1. link' \in LinkState /\ link'.n = link.n /\ link'.state # "down"
      BY <2>1 DEF FeedInv, FeedTyped, LinkState
    <3> QED  BY <2>1, <3>1 DEF FeedInv, FeedTyped, F!QuotesAreOfTheLink
  <2>2. CASE F!Forgets
    <3>1. link' \in LinkState /\ link'.state = "down"
      BY <2>2 DEF FeedInv, FeedTyped, LinkState, F!Forgets
    <3>2. feed' \in Feed /\ quote' = F!None
      BY <2>2, NumbersOfTheFeed DEF F!Forgets, F!Forgotten, F!NoFeed, Feed
    <3> QED  BY <2>2, <3>1, <3>2 DEF FeedInv, FeedTyped, F!QuotesAreOfTheLink, F!Forgets
  <2> QED  BY <1>1, <2>1, <2>2 DEF F!DropBegins, F!Closes
<1>3. /\ UNCHANGED <<newest, announced, covered, candler, ticker>> /\ link'.since = link.since /\ link'.state # "up"
      /\ feed'.last = feed.last \/ feed'.last = F!None
  BY <1>1 DEF FeedInv, FeedTyped, LinkState, F!DropBegins, F!Closes, F!Forgets, F!Forgotten, F!NoFeed
<1> QED  BY <1>2, <1>3, BarsStand

(* A link begins with all of its bars told: they are before it.              *)
LEMMA AttachingKeeps == ASSUME FeedAssumptions, FeedInv, F!Attaches PROVE FeedInv'
<1>1. FeedTyped' /\ F!QuotesAreOfTheLink'
  BY NumbersOfTheFeed DEF FeedInv, FeedTyped, LinkState, F!QuotesAreOfTheLink, F!Attaches
<1>2. NothingAhead' /\ HistoryIsWhole' /\ CandlesAreRead'
  BY NumbersOfTheFeed DEF FeedInv, FeedTyped, NothingAhead, HistoryIsWhole, CandlesAreRead, Told, F!Attaches
<1>3. F!Untold' = {}
  BY NumbersOfTheFeed DEF FeedInv, FeedTyped, F!Untold, F!Attaches
<1>4. Cardinality(F!Untold') <= Window
  BY <1>3, FS_EmptySet, NumbersOfTheFeed
<1>5. NoGap'
  BY <1>4, NumbersOfTheFeed DEF FeedInv, FeedTyped, Feed, NothingAhead, NoGap, Told, F!Attaches
<1> QED  BY <1>1, <1>2, <1>5 DEF FeedInv

(* A bar that closes is not told yet, and there is room for it in the next poll. *)
LEMMA ClosingKeeps == ASSUME FeedAssumptions, FeedInv, F!BarCloses PROVE FeedInv'
<1>1. FeedTyped' /\ F!QuotesAreOfTheLink'
  BY NumbersOfTheFeed DEF FeedInv, FeedTyped, F!QuotesAreOfTheLink, F!BarCloses
<1>2. NothingAhead' /\ HistoryIsWhole' /\ CandlesAreRead'
  BY NumbersOfTheFeed DEF FeedInv, FeedTyped, Feed, LinkState, NothingAhead, HistoryIsWhole, CandlesAreRead, Told, F!BarCloses
<1>3. ASSUME link.state = "up" PROVE Cardinality(F!Untold') <= Window
  <2>1. F!Untold' = F!Untold \cup {newest + 1}
    BY NumbersOfTheFeed DEF FeedInv, FeedTyped, LinkState, NothingAhead, F!Untold, F!BarCloses
  <2>2. IsFiniteSet(F!Untold)
    BY UntoldIsFinite
  <2>3. Cardinality(F!Untold) \in Nat /\ Cardinality(F!Untold) < Window
    BY <1>3, UntoldIsFinite, UntoldCounts DEF F!BarCloses
  <2>4. newest + 1 \notin F!Untold
    BY NumbersOfTheFeed DEF FeedInv, FeedTyped, F!Untold
  <2>5. Cardinality(F!Untold \cup {newest + 1}) = Cardinality(F!Untold) + 1
    BY <2>2, <2>4, FS_AddElement
  <2>6. Cardinality(F!Untold') = Cardinality(F!Untold) + 1
    BY <2>1, <2>5
  <2> QED  BY <2>3, <2>6, NumbersOfTheFeed
<1>4. NoGap'
  BY <1>3, NumbersOfTheFeed DEF FeedInv, FeedTyped, NothingAhead, NoGap, Told, F!BarCloses
<1> QED  BY <1>1, <1>2, <1>4 DEF FeedInv

-----------------------------------------------------------------------------
(* A job finds the feed there is, or makes one that remembers nothing.       *)
LEMMA AFeedIsMade ==
    ASSUME FeedAssumptions, FeedInv, link.state = "up"
    PROVE  F!FeedOf \in Feed /\ F!FeedOf.last \in {feed.last, F!None}
<1>1. link.n \in 1 .. MaxLinks /\ feed \in Feed
  BY NumbersOfTheFeed DEF FeedInv, FeedTyped, LinkState
<1>2. F!NoFeed \in Feed /\ F!NoFeed.last = F!None
  BY NumbersOfTheFeed DEF F!NoFeed, Feed
<1> DEFINE made == [F!NoFeed EXCEPT !.of = link.n]
<1>3. made \in Feed /\ made.last = F!None
  BY <1>1, <1>2 DEF Feed
<1> QED  BY <1>1, <1>3 DEF F!FeedOf

(* The job of the quotes.                                                  *)
LEMMA TicksKeep ==
    ASSUME FeedAssumptions, FeedInv,
           F!TicksBegin \/ F!LearnsClock \/ F!HistoryFails \/ F!ReadsQuote \/ F!TicksCut
    PROVE  FeedInv'
<1>1. CASE F!TicksBegin
  <2>1. F!FeedOf \in Feed /\ F!FeedOf.last \in {feed.last, F!None}
    BY <1>1, AFeedIsMade DEF F!TicksBegin
  <2>2. UNCHANGED quote /\ feed' = F!FeedOf /\ UNCHANGED <<newest, link, candler, announced, covered>>
    BY <1>1 DEF F!TicksBegin
  <2>3. ticker' \in Jobs /\ ticker'.pc \notin {"reading", "storing"}
    <3>1. F!Idle \in Jobs /\ link.n \in 0 .. MaxLinks /\ F!FeedOf.of \in {F!None} \cup 1 .. MaxLinks
      BY <2>1, NumbersOfTheFeed DEF FeedInv, FeedTyped, LinkState, Jobs, Feed, F!Idle
    <3>2. PICK pc \in {"quote", "clock"} : ticker' = [F!Idle EXCEPT !.pc = pc, !.on = link.n, !.of = F!FeedOf.of]
      BY <1>1 DEF F!TicksBegin
    <3> QED  BY <3>1, <3>2 DEF Jobs
  <2>4. FeedTyped'
    BY <2>1, <2>2, <2>3 DEF FeedInv, FeedTyped
  <2>5. F!QuotesAreOfTheLink'
    BY <1>1, <2>2 DEF FeedInv, F!QuotesAreOfTheLink, F!TicksBegin
  <2> QED  BY <1>1, <2>1, <2>4, <2>5, BarsStand DEF F!TicksBegin, F!Idle
<1>2. CASE F!LearnsClock
  <2>1. FeedTyped' /\ F!QuotesAreOfTheLink'
    <3>1. PICK told \in BOOLEAN : link' = [link EXCEPT !.clock = @ \/ told]
      BY <1>2 DEF F!LearnsClock
    <3>2. link \in LinkState /\ (link.clock \/ told) \in BOOLEAN
      BY DEF FeedInv, FeedTyped, LinkState
    <3>3. link' \in LinkState /\ link'.n = link.n /\ link'.state = link.state
      BY <3>1, <3>2 DEF LinkState
    <3>4. ticker' \in Jobs /\ ticker'.pc # "reading"
      BY <1>2 DEF FeedInv, FeedTyped, Jobs, F!LearnsClock
    <3> QED  BY <1>2, <3>3, <3>4 DEF FeedInv, FeedTyped, F!QuotesAreOfTheLink, F!LearnsClock
  <2>2. link'.since = link.since /\ link'.state = link.state /\ ticker'.pc # "storing"
    BY <1>2 DEF FeedInv, FeedTyped, LinkState, Jobs, F!LearnsClock
  <2> QED  BY <1>2, <2>1, <2>2, BarsStand DEF F!LearnsClock
<1>3. CASE F!HistoryFails
  <2>1. FeedTyped' /\ F!QuotesAreOfTheLink' /\ feed'.last = feed.last
    BY <1>3, NumbersOfTheFeed DEF FeedInv, FeedTyped, Feed, Jobs, F!QuotesAreOfTheLink, F!HistoryFails, F!Prepared
  <2>2. ticker'.pc # "storing"
    BY <1>3 DEF FeedInv, FeedTyped, Jobs, F!HistoryFails
  <2> QED  BY <1>3, <2>1, <2>2, BarsStand DEF F!HistoryFails
<1>4. CASE F!ReadsQuote
  <2>1. F!Idle \in Jobs /\ F!Idle.pc = "idle"
    BY NumbersOfTheFeed DEF Jobs, F!Idle
  <2>2. ticker' = F!Idle /\ UNCHANGED <<newest, link, feed, candler, announced, covered>>
    BY <1>4 DEF F!ReadsQuote
  <2>3. quote' = quote \/ (quote' = link.n /\ link.state # "down" /\ link.n \in 1 .. MaxLinks)
    <3>1. CASE F!Answers(ticker)
      <4>1. quote' = ticker.on /\ link.n = ticker.on /\ link.state \in {"up", "closing"}
        BY <1>4, <3>1 DEF F!ReadsQuote, F!Answers
      <4>2. link.n # 0
        BY <1>4, <4>1 DEF FeedInv, FeedTyped, F!ReadsQuote
      <4> QED  BY <4>1, <4>2, NumbersOfTheFeed DEF FeedInv, FeedTyped, LinkState
    <3>2. CASE ~F!Answers(ticker)
      BY <1>4, <3>2 DEF F!ReadsQuote
    <3> QED  BY <3>1, <3>2
  <2>4. FeedTyped' /\ F!QuotesAreOfTheLink'
    BY <2>1, <2>2, <2>3 DEF FeedInv, FeedTyped, F!QuotesAreOfTheLink
  <2> QED  BY <2>1, <2>2, <2>4, BarsStand
<1>5. CASE F!TicksCut
  <2>1. FeedTyped' /\ F!QuotesAreOfTheLink' /\ ticker'.pc # "storing"
    BY <1>5, NumbersOfTheFeed DEF FeedInv, FeedTyped, Jobs, F!Idle, F!QuotesAreOfTheLink, F!TicksCut
  <2> QED  BY <1>5, <2>1, BarsStand DEF F!TicksCut
<1> QED  BY <1>1, <1>2, <1>3, <1>4, <1>5

(* A history that is read is all there is, and puts every bar of it among those that are told. *)
LEMMA HistoryKeeps == ASSUME FeedAssumptions, FeedInv, F!ReadsHistory PROVE FeedInv'
<1>1. CASE link.state = "up" /\ newest > 0
  <2>1. /\ ticker' = [ticker EXCEPT !.pc = "storing", !.read = 1 .. newest, !.off = F!Offset]
        /\ covered' = covered \cup ((1 .. newest) \ announced)
        /\ UNCHANGED <<newest, link, feed, quote, candler, announced>>
    BY <1>1 DEF F!ReadsHistory
  <2>2. newest \in 1 .. MaxBars /\ 1 .. newest \subseteq F!Bars
    BY <1>1, NumbersOfTheFeed DEF FeedInv, FeedTyped
  <2>3. FeedTyped' /\ F!QuotesAreOfTheLink'
    BY <2>1, <2>2, NumbersOfTheFeed DEF FeedInv, FeedTyped, Jobs, F!QuotesAreOfTheLink
  <2>4. Told' = 1 .. newest
    BY <2>1 DEF FeedInv, NothingAhead, Told
  <2>5. NothingAhead' /\ CandlesAreRead'
    BY <2>1 DEF FeedInv, NothingAhead, CandlesAreRead
  <2>6. HistoryIsWhole'
    <3>1. ticker'.read = 1 .. newest /\ newest' = newest
      BY <2>1 DEF FeedInv, FeedTyped, Jobs
    <3> QED  BY <2>2, <2>4, <3>1 DEF HistoryIsWhole
  <2>7. F!Untold' = {}
    BY <2>1, <2>4, NumbersOfTheFeed DEF FeedInv, FeedTyped, F!Untold, Told
  <2>8. Cardinality(F!Untold') <= Window
    BY <2>7, FS_EmptySet, NumbersOfTheFeed
  <2>9. NoGap'
    BY <2>1, <2>2, <2>4, <2>8, NumbersOfTheFeed DEF FeedInv, FeedTyped, Feed, NothingAhead, NoGap
  <2> QED  BY <2>3, <2>5, <2>6, <2>9 DEF FeedInv
<1>2. CASE ~(link.state = "up" /\ newest > 0)
  <2>1. /\ ticker' = [ticker EXCEPT !.pc = "quote"] /\ feed' = F!Prepared
        /\ UNCHANGED <<newest, link, quote, candler, announced, covered>>
    BY <1>2 DEF F!ReadsHistory
  <2>2. FeedTyped' /\ F!QuotesAreOfTheLink' /\ feed'.last = feed.last /\ ticker'.pc # "storing"
    BY <2>1, NumbersOfTheFeed DEF FeedInv, FeedTyped, Feed, Jobs, F!QuotesAreOfTheLink, F!Prepared
  <2> QED  BY <2>1, <2>2, BarsStand
<1> QED  BY <1>1, <1>2

(* What a stored history puts in the memory was told, whichever feed it is by then. *)
LEMMA StoringKeeps == ASSUME FeedAssumptions, FeedInv, F!StoresHistory PROVE FeedInv'
<1>1. CASE feed = F!NoFeed
  <2>1. FeedTyped' /\ F!QuotesAreOfTheLink' /\ ticker'.pc # "storing"
    BY <1>1, NumbersOfTheFeed DEF FeedInv, FeedTyped, Jobs, F!Idle, F!QuotesAreOfTheLink, F!StoresHistory
  <2> QED  BY <1>1, <2>1, BarsStand DEF F!StoresHistory
<1>2. CASE feed # F!NoFeed
  <2>1. PICK m \in 1 .. newest : ticker.read = 1 .. m /\ 1 .. m \subseteq Told
    BY DEF FeedInv, HistoryIsWhole, F!StoresHistory
  <2>2. newest \in Nat /\ newest <= MaxBars /\ m \in Nat /\ m <= newest /\ m >= 1
    BY <2>1, NumbersOfTheFeed DEF FeedInv, FeedTyped
  <2>3. ticker.off = 0 /\ F!MaxOf(ticker.read) \in 1 .. m
    <3>1. 1 .. m # {} /\ 1 .. m \in SUBSET (1 .. m)
      BY <2>2
    <3>2. F!MaxOf(1 .. m) \in 1 .. m
      BY <2>2, <3>1, LastBarExists
    <3> QED  BY <2>1, <3>2, NumbersOfTheFeed DEF FeedInv, FeedTyped, Jobs
  <2> DEFINE last == F!MaxOf(ticker.read)
  <2>4. /\ feed' = [F!Prepared EXCEPT !.last = last + ticker.off]
        /\ ticker' = [ticker EXCEPT !.pc = "quote", !.read = {}, !.off = 0]
        /\ UNCHANGED <<newest, link, quote, candler, announced, covered>>
    BY <1>2 DEF F!StoresHistory
  <2>5. last + ticker.off = last /\ last \in 1 .. m /\ last \in F!Labels
    BY <2>2, <2>3, NumbersOfTheFeed
  <2> HIDE DEF last
  <2>6. feed' \in Feed /\ feed'.last = last
    BY <2>4, <2>5 DEF FeedInv, FeedTyped, Feed, F!Prepared
  <2>7. FeedTyped' /\ F!QuotesAreOfTheLink'
    BY <2>4, <2>6, NumbersOfTheFeed DEF FeedInv, FeedTyped, Jobs, F!QuotesAreOfTheLink
  <2>8. NothingAhead' /\ CandlesAreRead'
    BY <2>2, <2>4, <2>5, <2>6 DEF FeedInv, NothingAhead, CandlesAreRead
  <2>9. HistoryIsWhole'
    BY <2>4 DEF FeedInv, FeedTyped, Jobs, HistoryIsWhole
  <2>10. Told' = Told /\ F!Untold' = F!Untold
    BY <2>4 DEF Told, F!Untold
  <2>11. \A b \in F!Bars : b <= feed'.last => b \in Told
    BY <2>1, <2>2, <2>5, <2>6, NumbersOfTheFeed
  <2>12. NoGap'
    BY <2>4, <2>10, <2>11 DEF FeedInv, NoGap
  <2> QED  BY <2>7, <2>8, <2>9, <2>12 DEF FeedInv
<1> QED  BY <1>1, <1>2

-----------------------------------------------------------------------------
(* The job of the bars.                                                    *)
LEMMA CandlesKeep ==
    ASSUME FeedAssumptions, FeedInv, F!CandlesBegin \/ F!CandlesFail \/ F!CandlesCut
    PROVE  FeedInv'
<1>1. CASE F!CandlesBegin
  <2>1. F!FeedOf \in Feed /\ F!FeedOf.last \in {feed.last, F!None}
    BY <1>1, AFeedIsMade DEF F!CandlesBegin
  <2>2. FeedTyped' /\ F!QuotesAreOfTheLink'
    BY <1>1, <2>1, NumbersOfTheFeed DEF FeedInv, FeedTyped, Feed, LinkState, Jobs, F!Idle, F!QuotesAreOfTheLink, F!CandlesBegin
  <2> QED  BY <1>1, <2>1, <2>2, BarsStand DEF F!CandlesBegin, F!Idle
<1>2. CASE F!CandlesFail \/ F!CandlesCut
  <2>1. FeedTyped' /\ F!QuotesAreOfTheLink' /\ candler'.pc # "storing" /\ candler'.read = {}
    BY <1>2, NumbersOfTheFeed DEF FeedInv, FeedTyped, Jobs, F!Idle, F!QuotesAreOfTheLink, F!CandlesFail, F!CandlesCut
  <2> QED  BY <1>2, <2>1, BarsStand DEF F!CandlesFail, F!CandlesCut
<1> QED  BY <1>1, <1>2

(* Those a poll does not read were told: they are before the window, which holds all that were not. *)
LEMMA WindowIsWideEnough ==
    ASSUME FeedAssumptions, FeedInv, link.state = "up", NEW b \in F!Bars, link.since < b, b <= newest - Window
    PROVE  b \in Told
<1> SUFFICES ASSUME b \notin Told PROVE FALSE
  OBVIOUS
<1>1. newest \in Nat /\ Window \in Nat /\ b \in Nat /\ newest <= MaxBars /\ b >= 1
  BY NumbersOfTheFeed DEF FeedInv, FeedTyped
<1>2. b .. newest \subseteq F!Untold
  <2>1. ASSUME NEW c \in b .. newest PROVE c \in F!Bars /\ c \notin Told /\ link.since < c /\ c <= newest
    <3>1. c \in F!Bars /\ b <= c /\ c <= newest
      BY <1>1, NumbersOfTheFeed
    <3>2. c \notin Told
      BY <3>1 DEF FeedInv, NoGap
    <3> QED  BY <1>1, <3>1, <3>2 DEF FeedInv, FeedTyped, LinkState
  <2> QED  BY <2>1 DEF F!Untold, Told
<1>3. IsFiniteSet(F!Untold) /\ Cardinality(F!Untold) <= Window
  BY UntoldIsFinite DEF FeedInv, NoGap
<1>4. Cardinality(b .. newest) = newest - b + 1 /\ Cardinality(b .. newest) <= Cardinality(F!Untold)
  BY <1>1, <1>2, <1>3, FS_Interval, FS_Subset
<1>5. Cardinality(F!Untold) \in Nat
  BY <1>3, FS_CardinalityType
<1> QED  BY <1>1, <1>3, <1>4, <1>5

LEMMA ReadingKeeps == ASSUME FeedAssumptions, FeedInv, F!ReadsCandles PROVE FeedInv'
<1> DEFINE new == {b \in F!LastBars : F!LastSeen(candler) = F!None \/ b + F!Offset > F!LastSeen(candler)}
<1>1. CASE new = {}
  <2>1. candler' = F!Idle /\ UNCHANGED <<newest, link, feed, quote, ticker, announced, covered>>
    BY <1>1 DEF F!ReadsCandles
  <2>2. FeedTyped' /\ F!QuotesAreOfTheLink' /\ candler'.pc # "storing" /\ candler'.read = {}
    BY <2>1, NumbersOfTheFeed DEF FeedInv, FeedTyped, Jobs, F!Idle, F!QuotesAreOfTheLink
  <2> QED  BY <2>1, <2>2, BarsStand
<1>2. CASE new # {}
  <2>1. /\ candler' = [candler EXCEPT !.pc = "storing", !.read = new, !.off = F!Offset]
        /\ UNCHANGED <<newest, link, feed, quote, ticker, announced, covered>>
    BY <1>2 DEF F!ReadsCandles, F!RemembersNothing
  <2>2. new \subseteq F!Bars /\ new \subseteq 1 .. newest
    BY NumbersOfTheFeed DEF FeedInv, FeedTyped, F!LastBars
  <2>3. ASSUME link.state = "up", NEW b \in F!Bars, link.since < b, b <= newest, b \notin new PROVE b \in Told
    <3>1. newest \in Int /\ Window \in Int /\ b \in Int
      BY NumbersOfTheFeed DEF FeedInv, FeedTyped
    <3>2. CASE b \notin F!LastBars
      BY <2>3, <3>1, <3>2, WindowIsWideEnough DEF F!LastBars
    <3>3. CASE b \in F!LastBars
      <4>1. F!LastSeen(candler) # F!None /\ ~(b > F!LastSeen(candler))
        BY <2>3, <3>1, <3>3, NumbersOfTheFeed
      <4>2. feed.last # F!None /\ feed.last \in Int /\ b <= feed.last
        BY <3>1, <4>1, NumbersOfTheFeed DEF F!LastSeen, FeedInv, FeedTyped, Feed
      <4> QED  BY <2>3, <4>2 DEF FeedInv, NoGap
    <3> QED  BY <3>2, <3>3
  <2> HIDE DEF new
  <2>4. candler' \in Jobs /\ candler'.pc = "storing" /\ candler'.read = new
    BY <2>1, <2>2, NumbersOfTheFeed DEF FeedInv, FeedTyped, Jobs
  <2>5. FeedTyped' /\ F!QuotesAreOfTheLink'
    BY <2>1, <2>4 DEF FeedInv, FeedTyped, F!QuotesAreOfTheLink
  <2>6. NothingAhead' /\ CandlesAreRead' /\ HistoryIsWhole'
    BY <1>2, <2>1, <2>2, <2>4 DEF FeedInv, NothingAhead, CandlesAreRead, HistoryIsWhole, Told
  <2>7. Told' = Told /\ F!Untold' = F!Untold
    BY <2>1 DEF Told, F!Untold
  <2>8. ASSUME link.state = "up", NEW c \in new, NEW b \in F!Bars, link.since < b, b <= c PROVE b \in Told \cup new
    <3>1. b <= newest
      BY <2>2, <2>8, NumbersOfTheFeed DEF FeedInv, FeedTyped
    <3> QED  BY <2>3, <2>8, <3>1
  <2>9. NoGap'
    BY <2>1, <2>4, <2>7, <2>8 DEF FeedInv, NoGap
  <2> QED  BY <2>5, <2>6, <2>9 DEF FeedInv
<1> QED  BY <1>1, <1>2

(* What is announced is told by then, and leaves no gap: so the memory may say so. *)
LEMMA AnnouncingKeeps == ASSUME FeedAssumptions, FeedInv, F!Announces PROVE FeedInv'
<1> DEFINE last == F!MaxOf(candler.read)
<1>1. newest \in Nat /\ newest <= MaxBars /\ candler.read \subseteq 1 .. newest /\ candler.read # {} /\ candler.off = 0
  BY NumbersOfTheFeed DEF FeedInv, FeedTyped, Jobs, NothingAhead, CandlesAreRead, F!Announces
<1>2. last \in candler.read /\ \A c \in candler.read : c <= last
  BY <1>1, LastBarExists
<1>3. last \in F!Labels /\ last \in F!Bars /\ last \in 1 .. newest /\ last + candler.off = last
  BY <1>1, <1>2, NumbersOfTheFeed
<1> HIDE DEF last
<1>4. F!Idle \in Jobs /\ F!Idle.pc = "idle" /\ F!Idle.read = {}
  BY NumbersOfTheFeed DEF F!Idle, Jobs
<1>5. /\ announced' = announced \cup candler.read /\ candler' = F!Idle
      /\ feed' = feed \/ feed' = [feed EXCEPT !.last = last]
      /\ UNCHANGED <<newest, link, quote, ticker, covered>>
  BY <1>3 DEF F!Announces, last
<1>6. feed' \in Feed /\ (feed'.last = feed.last \/ feed'.last = last)
  BY <1>3, <1>5 DEF FeedInv, FeedTyped, Feed
<1>7. FeedTyped' /\ F!QuotesAreOfTheLink'
  BY <1>4, <1>5, <1>6, <1>1, NumbersOfTheFeed DEF FeedInv, FeedTyped, F!QuotesAreOfTheLink
<1>8. Told' = Told \cup candler.read
  BY <1>5 DEF Told
<1>9. NothingAhead' /\ CandlesAreRead' /\ HistoryIsWhole'
  BY <1>1, <1>3, <1>4, <1>5, <1>6, <1>8 DEF FeedInv, NothingAhead, CandlesAreRead, HistoryIsWhole
<1>10. ASSUME link.state = "up" PROVE Cardinality(F!Untold') <= Window
  <2>1. IsFiniteSet(F!Untold) /\ F!Untold' \subseteq F!Untold
    BY <1>5, UntoldIsFinite DEF F!Untold
  <2>2. Cardinality(F!Untold') <= Cardinality(F!Untold) /\ Cardinality(F!Untold) \in Nat /\ Cardinality(F!Untold') \in Nat
    BY <2>1, FS_Subset, FS_CardinalityType
  <2> QED  BY <1>10, <2>2, NumbersOfTheFeed DEF FeedInv, NoGap
<1>11. ASSUME link.state = "up", NEW c \in candler.read, NEW b \in F!Bars, link.since < b, b <= c PROVE b \in Told'
  BY <1>8, <1>11 DEF FeedInv, NoGap, F!Announces
<1>12. NoGap'
  BY <1>2, <1>4, <1>5, <1>6, <1>8, <1>10, <1>11 DEF FeedInv, NoGap
<1> QED  BY <1>7, <1>9, <1>12 DEF FeedInv

-----------------------------------------------------------------------------
LEMMA FeedSteps == ASSUME FeedAssumptions, FeedInv, [F!Next]_(F!feedVars) PROVE FeedInv'
<1>1. CASE F!Next
  BY <1>1, LinkKeeps, AttachingKeeps, ClosingKeeps, TicksKeep, HistoryKeeps, StoringKeeps, CandlesKeep, ReadingKeeps,
     AnnouncingKeeps DEF F!Next
<1>2. CASE UNCHANGED F!feedVars
  <2>1. FeedTyped' /\ F!QuotesAreOfTheLink'
    BY <1>2 DEF FeedInv, FeedTyped, F!QuotesAreOfTheLink, F!feedVars
  <2> QED  BY <1>2, <2>1, BarsStand DEF F!feedVars
<1> QED  BY <1>1, <1>2

LEMMA InvMeansSeen == ASSUME FeedAssumptions, FeedInv PROVE F!FeedTypeOK /\ F!QuotesAreOfTheLink /\ F!NoBarIsSkipped
<1>1. F!FeedTypeOK
  BY NumbersOfTheFeed DEF FeedInv, FeedTyped, Feed, LinkState, Jobs, F!FeedTypeOK
<1>2. F!NoBarIsSkipped
  BY NumbersOfTheFeed DEF FeedInv, FeedTyped, Feed, NoGap, F!NoBarIsSkipped, F!Untold, Told
<1> QED  BY <1>1, <1>2 DEF FeedInv

(* Quotes do not outlive their link and no bar is skipped, for any bars and links, whatever is cut, lost and *)
(* read late (MarketDataService).                                                                     *)
LEMMA MarketIsSafe ==
    FeedAssumptions => (F!Init /\ [][F!Next]_(F!feedVars) => [](F!FeedTypeOK /\ F!QuotesAreOfTheLink /\ F!NoBarIsSkipped))
<1> SUFFICES ASSUME FeedAssumptions PROVE F!Init /\ [][F!Next]_(F!feedVars) => [](F!FeedTypeOK /\ F!QuotesAreOfTheLink /\ F!NoBarIsSkipped)
  OBVIOUS
<1>1. F!Init => FeedInv
  BY InitialFeed
<1>2. FeedInv /\ [F!Next]_(F!feedVars) => FeedInv'
  BY FeedSteps
<1>3. FeedInv => F!FeedTypeOK /\ F!QuotesAreOfTheLink /\ F!NoBarIsSkipped
  BY InvMeansSeen
<1> QED  BY <1>1, <1>2, <1>3, PTL

-----------------------------------------------------------------------------
(* The trading day implements each of its parts.                           *)

LEMMA StartupRuns == SafetySpec => U!Spec
<1>1. Init => U!Init
  BY DEF Init
<1>2. [Next]_tradingVars => [U!Next]_(U!startupVars)
  BY DEF Next, Starts, Protects, Feeds, tradingVars, startup, protection, market_data, U!startupVars
<1> QED  BY <1>1, <1>2, PTL DEF SafetySpec, U!Spec

LEMMA ProtectionRuns == SafetySpec => P!Spec
<1>1. Init => P!Init
  BY DEF Init
<1>2. [Next]_tradingVars => [P!Next]_(P!vars)
  BY DEF Next, Starts, Protects, Feeds, tradingVars, startup, protection, market_data, P!vars
<1> QED  BY <1>1, <1>2, PTL DEF SafetySpec, P!Spec

LEMMA FeedRuns == SafetySpec => F!Init /\ [][F!Next]_(F!feedVars)
<1>1. Init => F!Init
  BY DEF Init
<1>2. [Next]_tradingVars => [F!Next]_(F!feedVars)
  BY DEF Next, Starts, Protects, Feeds, tradingVars, startup, protection, market_data, F!feedVars
<1> QED  BY <1>1, <1>2, PTL DEF SafetySpec

-----------------------------------------------------------------------------
(* No command of the guardian or of the position manager loosens the stop a position has by the time it is carried out, *)
(* for any prices, plan, number of attempts and world (ADR 0023). *)
THEOREM StopsOnlyTighten == Spec => StopNeverLoosens
<1>1. P!Spec => P!StopNeverLoosens
  BY ProtectionIsSafe, TradingAssumption
<1> QED  BY <1>1, ProtectionRuns, PTL DEF Spec, StopNeverLoosens

(* What the cockpit is told of starting and of the right to trade agrees with what its gestures do, for any accounts, *)
(* ceilings and number of clicks, whatever an engine raises and however the world moves at each await (StartupService.status). *)
THEOREM PictureStaysTrue == Spec => [](U!StartupTypeOK /\ U!PictureIsTrue)
<1>1. U!Spec => [](U!StartupTypeOK /\ U!PictureIsTrue)
  BY StartIsTrue, TradingAssumption
<1> QED  BY <1>1, StartupRuns, PTL DEF Spec

(* And what the strategies see of the market is true or absent, for any number of bars and links and any window, with *)
(* reads that fail and jobs that are cut, as long as the broker's clock is known when its bars are read and every job *)
(* is told of the link that was forgotten (MarketDataService). *)
THEOREM ShownStaysTrue == Shift = 0 /\ "unforgotten" \notin FeedFaults => (Spec => []ShownIsTrue)
<1> SUFFICES ASSUME Shift = 0 /\ "unforgotten" \notin FeedFaults PROVE Spec => []ShownIsTrue
  OBVIOUS
<1>1. U!Spec => [](U!StartupTypeOK /\ U!PictureIsTrue)
  BY StartIsTrue, TradingAssumption
<1>2. P!Spec => []P!ProtectionTypeOK
  <2>1. P!Spec => []P!ProtectionTypeOK /\ P!StopNeverLoosens
    BY ProtectionIsSafe, TradingAssumption
  <2> QED  BY <2>1, PTL
<1>3. F!Init /\ [][F!Next]_(F!feedVars) => [](F!FeedTypeOK /\ F!QuotesAreOfTheLink /\ F!NoBarIsSkipped)
  BY MarketIsSafe, TradingAssumption DEF FeedAssumptions
<1> QED  BY <1>1, <1>2, <1>3, StartupRuns, ProtectionRuns, FeedRuns, PTL DEF Spec, ShownIsTrue
=============================================================================
