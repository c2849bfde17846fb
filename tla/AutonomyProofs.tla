--------------------------- MODULE AutonomyProofs ---------------------------
(***************************************************************************)
(* Proofs about the autonomy service, for every set of tasks and ceilings   *)
(* and every combination of faults: what is recorded before a climb, the    *)
(* climb by one rung, and the halt that only an acknowledgement leaves.     *)
(***************************************************************************)
EXTENDS Autonomy, TLAPS

-----------------------------------------------------------------------------
(* The ladder.                                                             *)

\* Each mode and its rank.
LEMMA RankValues ==
    /\ Modes = {"HALTED", "OFF", "OBSERVE", "PAPER", "CONFIRM", "ARMED", "AUTONOMOUS"}
    /\ Rungs = {"OFF", "OBSERVE", "PAPER", "CONFIRM", "ARMED", "AUTONOMOUS"}
    /\ Rank("HALTED") = -1 /\ Rank("OFF") = 0 /\ Rank("OBSERVE") = 1 /\ Rank("PAPER") = 2
    /\ Rank("CONFIRM") = 3 /\ Rank("ARMED") = 4 /\ Rank("AUTONOMOUS") = 5
BY DEF Modes, Rungs, Rank, RankOf

\* A rank is an integer, above that of a halt for every rung.
LEMMA RankTyped ==
    /\ \A m \in Modes : Rank(m) \in -1..5
    /\ \A m \in Rungs : m \in Modes /\ m # "HALTED" /\ Rank(m) \in 0..5
BY RankValues

\* Coming down never climbs, stays on the ladder, and leaves a halt where it is.
LEMMA LowestFalls ==
    ASSUME NEW a \in Modes, NEW b \in Rungs
    PROVE  /\ Lowest(a, b) \in Modes
           /\ Rank(Lowest(a, b)) <= Rank(a)
           /\ a = "HALTED" => Lowest(a, b) = a
           /\ a # "HALTED" => Lowest(a, b) \in Rungs
BY RankTyped, RankValues DEF Lowest, Rungs

\* A disarm comes down, or leaves a halt for OFF.
LEMMA DisarmFalls ==
    ASSUME NEW a \in Modes, NEW b \in Rungs, NEW acknowledge \in BOOLEAN
    PROVE  /\ Disarmed(a, b, acknowledge) \in Modes
           /\ a = "HALTED" => Disarmed(a, b, acknowledge) \in {"HALTED", "OFF"}
           /\ a # "HALTED" => /\ Disarmed(a, b, acknowledge) \in Rungs
                              /\ Rank(Disarmed(a, b, acknowledge)) <= Rank(a)
<1>1. CASE a = "HALTED"
  BY <1>1, RankValues DEF Disarmed
<1>2. CASE a # "HALTED"
  <2>1. Disarmed(a, b, acknowledge) = Lowest(a, b)
    BY <1>2 DEF Disarmed
  <2>2. QED
    BY <2>1, <1>2, LowestFalls
<1>3. QED
  BY <1>1, <1>2

-----------------------------------------------------------------------------
(* The inductive invariant.                                                *)

\* The lock is held in a running core only, by a task whose gesture is under way, and for
\* ARMED if that is a renewal; while a climb is being recorded the mode is
\* the one it was decided from, at most one rung below its target; once it is recorded
\* the record says so.
SectionSound ==
    /\ core # "up" => section = Closed
    /\ section # Closed => /\ tasks[section.by] \in {"arm", "renew", "disarm", "halt", "tick"}
                           /\ tasks[section.by] = "renew" => section.target = "ARMED"
    /\ section.pc \in {"recording", "climbing"} =>
          /\ mode # "HALTED"
          /\ Rank(mode) <= Rank(section.target)
          /\ Rank(section.target) <= Rank(mode) + 1
    /\ section.pc = "climbing" => stored = section.target

\* The duty ticks, and a core that starts is at OFF or halted.
DutyTicks == tasks[Duty] \in {"idle", "cut", "tick"}
StartsLow == core = "starting" => mode \in {"OFF", "HALTED"}

IInv == AutonomyTypeOK /\ SectionSound /\ DutyTicks /\ StartsLow /\ ClimbsAreOnRecord

\* The system is built OFF, with a free lock.
LEMMA InitIInv == Init => IInv
<1> SUFFICES ASSUME Init PROVE IInv
  OBVIOUS
<1> USE AutonomyAssumption
<1>1. AutonomyTypeOK
  BY RankValues DEF Init, AutonomyTypeOK
<1>2. SectionSound /\ DutyTicks /\ StartsLow /\ ClimbsAreOnRecord
  BY DEF Init, SectionSound, DutyTicks, StartsLow, ClimbsAreOnRecord, Tasks, Closed, Up
<1>3. QED
  BY <1>1, <1>2 DEF IInv
-----------------------------------------------------------------------------
(* Every step keeps it.                                                    *)

\* What a task inside the lock is.
SectionTypeOK == section \in [by : Tasks, pc : Stages, target : Rungs, ready : BOOLEAN] \cup {Closed}
MemoryTypeOK ==
    /\ mode \in Modes
    /\ lease \in {"none", "open", "lapsed"} /\ (lease # "none" => mode = "ARMED")
    /\ red \in {"no", "short", "long"}
TasksTypeOK == tasks \in [Tasks -> {"idle", "cut", "telling", "arm", "renew", "disarm", "halt", "tick"}]

\* A section entered is typed.
LEMMA InsideTyped ==
    ASSUME NEW t \in Tasks, NEW pc \in Stages, NEW target \in Rungs, NEW ready \in BOOLEAN
    PROVE  Inside(t, pc, target, ready) \in [by : Tasks, pc : Stages, target : Rungs, ready : BOOLEAN]
BY DEF Inside

\* Asking, and being cut, change what a task waits for.
LEMMA AsksKeeps ==
    ASSUME IInv, NEW t \in Tasks, NEW gesture \in Gestures(t), Asks(t, gesture)
    PROVE  IInv'
BY AutonomyAssumption
   DEF Asks, Turns, Gestures, IInv, AutonomyTypeOK, SectionSound, DutyTicks, StartsLow, ClimbsAreOnRecord,
       memory, world

\* Taking the lock to arm decides nothing yet.
LEMMA ArmBeginsKeeps ==
    ASSUME IInv, NEW t \in Tasks, ArmBegins(t)
    PROVE  IInv'
BY AutonomyAssumption, RankTyped, RankValues
   DEF ArmBegins, Waits, Inside, Stages, IInv, AutonomyTypeOK, SectionSound, DutyTicks, StartsLow,
       ClimbsAreOnRecord, Up, memory, world

\* Nor does taking it to renew.
LEMMA RenewBeginsKeeps ==
    ASSUME IInv, NEW t \in Tasks, RenewBegins(t)
    PROVE  IInv'
BY AutonomyAssumption, RankTyped, RankValues
   DEF RenewBegins, Waits, Inside, Stages, IInv, AutonomyTypeOK, SectionSound, DutyTicks, StartsLow,
       ClimbsAreOnRecord, Up, memory, world

\* A step that changes the section and neither the mode nor the record.
LEMMA InvFrom ==
    ASSUME MemoryTypeOK', TasksTypeOK', SectionTypeOK',
           (stored \in Modes \cup {"nothing"})', (facts \in BOOLEAN)', (ceiling \in Ceilings)',
           (core \in {"up", "starting", "down"})',
           SectionSound', DutyTicks', StartsLow', ClimbsAreOnRecord'
    PROVE  IInv'
BY DEF IInv, AutonomyTypeOK, MemoryTypeOK, TasksTypeOK, SectionTypeOK

\* A step from a free lock that comes down to m, and goes on to save it.
LEMMA FallsKeeps ==
    ASSUME IInv, Up, section = Closed, NEW t \in Tasks, tasks[t] \in {"disarm", "halt", "tick"},
           NEW m \in Modes, NEW target \in Rungs,
           NEW pc \in {"saving", "lapsing", "clamping"},
           Rank(m) <= Rank(mode) \/ m \in {"HALTED", "OFF"},
           Falls(m), section' = Inside(t, pc, target, FALSE), UNCHANGED <<red, tasks, stored, world, core>>
    PROVE  IInv'
<1>1. SectionTypeOK'
  <2>1. pc \in Stages /\ FALSE \in BOOLEAN
    BY DEF Stages
  <2>2. QED
    BY <2>1, InsideTyped DEF SectionTypeOK
<1>2. MemoryTypeOK' /\ TasksTypeOK'
  BY DEF IInv, AutonomyTypeOK, MemoryTypeOK, TasksTypeOK, Falls
<1>3. SectionSound'
  BY DEF SectionSound, Inside, Up, Closed
<1>4. DutyTicks' /\ StartsLow'
  BY DEF IInv, DutyTicks, StartsLow, Up
<1>5. ClimbsAreOnRecord'
  BY RankValues, RankTyped DEF IInv, AutonomyTypeOK, ClimbsAreOnRecord, Falls, Up
<1>6. QED
  BY <1>1, <1>2, <1>3, <1>4, <1>5, InvFrom DEF IInv, AutonomyTypeOK, world

\* A step that only turns a task to something that is no tick of the duty's.
LEMMA TurnsKeeps ==
    ASSUME IInv, section = Closed, NEW t \in Tasks, NEW next \in {"idle", "telling"}, t = Duty => next = "idle",
           Turns(t, next), UNCHANGED <<memory, stored, world, core>>
    PROVE  IInv'
BY DEF Turns, IInv, AutonomyTypeOK, SectionSound, DutyTicks, StartsLow, ClimbsAreOnRecord, Up, memory, world

\* The readiness read is kept for the decision.
LEMMA ReadsReadinessKeeps ==
    ASSUME IInv, NEW t \in Tasks, ReadsReadiness(t)
    PROVE  IInv'
<1>1. section \in [by : Tasks, pc : Stages, target : Rungs, ready : BOOLEAN]
  BY DEF ReadsReadiness, At, IInv, AutonomyTypeOK, Closed
<1>2. section' \in [by : Tasks, pc : Stages, target : Rungs, ready : BOOLEAN]
  <2>1. "deciding" \in Stages /\ facts \in BOOLEAN
    BY DEF Stages, IInv, AutonomyTypeOK
  <2>2. section' = [section EXCEPT !.pc = "deciding", !.ready = facts]
    BY DEF ReadsReadiness
  <2>3. QED
    BY <1>1, <2>1, <2>2
<1>3. section'.pc = "deciding" /\ section'.by = section.by /\ section'.target = section.target
  BY <1>1 DEF ReadsReadiness
<1>4. SectionSound'
  BY <1>1, <1>3 DEF ReadsReadiness, At, IInv, SectionSound, Closed
<1>5. QED
  BY <1>2, <1>4 DEF ReadsReadiness, Up, memory, world, IInv, AutonomyTypeOK, DutyTicks, StartsLow,
                    ClimbsAreOnRecord

\* The decision puts the target at most one rung above the mode (MayArm), or on it.
LEMMA DecidesKeeps ==
    ASSUME IInv, NEW t \in Tasks, Decides(t)
    PROVE  IInv'
<1>1. section \in [by : Tasks, pc : Stages, target : Rungs, ready : BOOLEAN] /\ Up
  BY DEF Decides, At, IInv, AutonomyTypeOK, Closed
<1>2. UNCHANGED <<memory, stored, world, core>>
  BY DEF Decides
<1>3. CASE Allowed(t)
  <2>1. section' = [section EXCEPT !.pc = "recording"] /\ UNCHANGED tasks
    BY <1>3 DEF Decides, Goes
  <2>2. "recording" \in Stages
    BY DEF Stages
  <2>3. section' \in [by : Tasks, pc : Stages, target : Rungs, ready : BOOLEAN]
    BY <1>1, <2>1, <2>2
  <2>4. section'.pc = "recording" /\ section'.by = section.by /\ section'.target = section.target
    BY <1>1, <2>1
  <2>5. /\ mode # "HALTED"
        /\ Rank(mode) <= Rank(section.target)
        /\ Rank(section.target) <= Rank(mode) + 1
    <3>1. CASE tasks[t] = "renew"
      <4>1. mode = "ARMED"
        BY <1>3, <3>1 DEF Allowed
      <4>2. section.target = "ARMED"
        BY <1>1, <3>1 DEF Decides, At, Closed, IInv, SectionSound
      <4>3. QED
        BY <4>1, <4>2, RankValues
    <3>2. CASE tasks[t] # "renew"
      BY <1>1, <1>3, <3>2, RankTyped DEF Allowed, MayArm, IInv, AutonomyTypeOK
    <3>3. QED
      BY <3>1, <3>2
  <2>6. SectionSound'
    BY <1>1, <1>2, <2>1, <2>4, <2>5 DEF Decides, At, IInv, SectionSound, Closed, memory
  <2>7. QED
    BY <1>1, <1>2, <2>1, <2>3, <2>6
       DEF IInv, AutonomyTypeOK, DutyTicks, StartsLow, ClimbsAreOnRecord, memory, world
<1>4. CASE ~Allowed(t)
  <2>1. tasks' = [tasks EXCEPT ![t] = "idle"] /\ section' = Closed
    BY <1>4 DEF Decides, Leaves
  <2>2. QED
    BY <1>1, <1>2, <2>1
     DEF Closed, memory, world, IInv, AutonomyTypeOK, SectionSound, DutyTicks, StartsLow, ClimbsAreOnRecord
<1>5. QED
  BY <1>3, <1>4

\* The record is the target: not below the mode, which it was decided from.
LEMMA StoreCommitsKeeps ==
    ASSUME IInv, NEW t \in Tasks, StoreCommits(t)
    PROVE  IInv'
BY AutonomyAssumption, RankTyped, RankValues
   DEF StoreCommits, At, Goes, Stages, IInv, AutonomyTypeOK, SectionSound, DutyTicks, StartsLow,
       ClimbsAreOnRecord, Up, Closed, vars, memory, world, Tasks

\* A refused write may have landed, above the mode: the record only overstates.
LEMMA StoreRefusesKeeps ==
    ASSUME IInv, NEW t \in Tasks, StoreRefuses(t)
    PROVE  IInv'
BY AutonomyAssumption, RankTyped, RankValues
   DEF StoreRefuses, At, Leaves, Stages, IInv, AutonomyTypeOK, SectionSound, DutyTicks, StartsLow,
       ClimbsAreOnRecord, Up, Closed, vars, memory, world, Tasks

\* The climb is on record.
LEMMA ClimbsKeeps ==
    ASSUME IInv, NEW t \in Tasks, Climbs(t)
    PROVE  IInv'
BY AutonomyAssumption, RankTyped, RankValues
   DEF Climbs, WindowOf, At, Leaves, Stages, IInv, AutonomyTypeOK, SectionSound, DutyTicks, StartsLow,
       ClimbsAreOnRecord, Up, Closed, vars, memory, world, Tasks

\* A disarm comes down, or leaves a halt for OFF.
LEMMA DisarmKeeps ==
    ASSUME IInv, NEW t \in Tasks, DisarmBegins(t)
    PROVE  IInv'
<1>1. PICK target \in Rungs, acknowledge \in BOOLEAN :
         IF Disarmed(mode, target, acknowledge) = mode
         THEN Turns(t, "idle") /\ UNCHANGED memory
         ELSE /\ Falls(Disarmed(mode, target, acknowledge))
              /\ section' = Inside(t, "saving", target, FALSE)
              /\ UNCHANGED <<red, tasks>>
  BY DEF DisarmBegins
<1>2. Up /\ section = Closed /\ UNCHANGED <<stored, world, core>> /\ mode \in Modes
  BY DEF DisarmBegins, Waits, IInv, AutonomyTypeOK
<1> tasks[t] = "disarm"
  BY DEF DisarmBegins, Waits
<1>3. CASE Disarmed(mode, target, acknowledge) = mode
  BY <1>1, <1>2, <1>3, TurnsKeeps
<1>4. CASE Disarmed(mode, target, acknowledge) # mode
  BY <1>1, <1>2, <1>4, DisarmFalls, FallsKeeps
<1>5. QED
  BY <1>3, <1>4

\* A halt takes the lock: no climb is being recorded.
LEMMA HaltKeeps ==
    ASSUME IInv, NEW t \in Tasks, HaltBegins(t)
    PROVE  IInv'
<1>1. Up /\ section = Closed /\ tasks[t] = "halt" /\ UNCHANGED <<stored, world, core>>
  BY DEF HaltBegins, Waits
<1>2. CASE mode = "HALTED"
  <2>1. t # Duty
    BY <1>1 DEF IInv, DutyTicks
  <2>2. QED
    BY <1>1, <1>2, <2>1, TurnsKeeps DEF HaltBegins
<1>3. CASE mode # "HALTED"
  <2>1. "HALTED" \in Modes /\ "OFF" \in Rungs
    BY RankValues
  <2>2. QED
    BY <1>1, <1>3, <2>1, FallsKeeps DEF HaltBegins
<1>4. QED
  BY <1>2, <1>3

\* Telling the agents changes nothing here.
LEMMA TellsKeeps ==
    ASSUME IInv, NEW t \in Tasks, Tells(t)
    PROVE  IInv'
BY AutonomyAssumption, RankTyped, RankValues
   DEF Tells, Turns, IInv, AutonomyTypeOK, SectionSound, DutyTicks, StartsLow, ClimbsAreOnRecord, Up, Closed,
       vars, memory, world, Tasks

\* What is saved is the mode.
LEMMA SavesKeeps ==
    ASSUME IInv, NEW t \in Tasks, Saves(t)
    PROVE  IInv'
BY AutonomyAssumption, RankTyped, RankValues
   DEF Saves, Saved, At, Leaves, Stages, IInv, AutonomyTypeOK, SectionSound, DutyTicks, StartsLow,
       ClimbsAreOnRecord, Up, Closed, vars, memory, world, Tasks

\* A lapsed window comes down.
LEMMA TickBeginsKeeps ==
    ASSUME IInv, TickBegins
    PROVE  IInv'
<1>1. Up /\ section = Closed /\ Duty \in Tasks /\ tasks[Duty] = "tick" /\ UNCHANGED <<red, tasks, stored, world, core>>
  BY DEF TickBegins, Waits, Tasks
<1>2. "CONFIRM" \in Modes /\ "OFF" \in Rungs /\ Rank("CONFIRM") <= Rank("ARMED")
  BY RankValues
<1>3. CASE mode = "ARMED" /\ lease = "lapsed"
  BY <1>1, <1>2, <1>3, FallsKeeps DEF TickBegins
<1>4. CASE ~(mode = "ARMED" /\ lease = "lapsed")
  <2>1. section' = Inside(Duty, "clamping", "OFF", FALSE) /\ UNCHANGED <<mode, lease>>
    BY <1>4 DEF TickBegins
  <2>2. SectionTypeOK'
    <3>1. "clamping" \in Stages /\ FALSE \in BOOLEAN
      BY DEF Stages
    <3>2. QED
      BY <1>1, <1>2, <2>1, <3>1, InsideTyped DEF SectionTypeOK
  <2>3. SectionSound'
    BY <1>1, <2>1 DEF SectionSound, Inside, Up, Closed
  <2>4. QED
    BY <1>1, <2>1, <2>2, <2>3
       DEF SectionTypeOK, IInv, AutonomyTypeOK, DutyTicks, StartsLow, ClimbsAreOnRecord, Up, world
<1>5. QED
  BY <1>3, <1>4

\* What the duty saves is the mode.
LEMMA TickSavesKeeps ==
    ASSUME IInv, TickSaves
    PROVE  IInv'
BY AutonomyAssumption, RankTyped, RankValues
   DEF TickSaves, TickSaved, Saved, At, Goes, Stages, IInv, AutonomyTypeOK, SectionSound, DutyTicks,
       StartsLow, ClimbsAreOnRecord, Up, Closed, vars, memory, world, Tasks

\* A clamp comes down.
LEMMA TickClampsKeeps ==
    ASSUME IInv, TickClamps
    PROVE  IInv'
BY AutonomyAssumption, RankTyped, RankValues, LowestFalls
   DEF TickClamps, Clamped, At, Falls, Goes, Stages, IInv, AutonomyTypeOK, SectionSound, DutyTicks, StartsLow,
       ClimbsAreOnRecord, Up, Closed, vars, memory, world, Tasks

\* A readiness lost comes down.
LEMMA TickMeasuresKeeps ==
    ASSUME IInv, TickMeasures
    PROVE  IInv'
BY AutonomyAssumption, RankTyped, RankValues
   DEF TickMeasures, Automatic, At, Falls, Goes, Leaves, Stages, IInv, AutonomyTypeOK, SectionSound,
       DutyTicks, StartsLow, ClimbsAreOnRecord, Up, Closed, vars, memory, world, Tasks

\* A job cut leaves the mode, and perhaps its write.
LEMMA TimesOutKeeps ==
    ASSUME IInv, NEW t \in Tasks, TimesOut(t)
    PROVE  IInv'
BY AutonomyAssumption, RankTyped, RankValues
   DEF TimesOut, CutOff, Writing, Leaves, Turns, Stages, IInv, AutonomyTypeOK, SectionSound, DutyTicks,
       StartsLow, ClimbsAreOnRecord, Up, Closed, vars, memory, world, Tasks

\* A process that dies leaves the record above the mode or at what it was writing.
LEMMA DiesKeeps ==
    ASSUME IInv, Dies
    PROVE  IInv'
BY AutonomyAssumption, RankTyped, RankValues
   DEF Dies, Writing, Stages, IInv, AutonomyTypeOK, SectionSound, DutyTicks, StartsLow, ClimbsAreOnRecord, Up,
       Closed, vars, memory, world, Tasks

\* A start is OFF or halted.
LEMMA StartsKeeps ==
    ASSUME IInv, Starts
    PROVE  IInv'
BY AutonomyAssumption, RankTyped, RankValues
   DEF Starts, Falls, IInv, AutonomyTypeOK, SectionSound, DutyTicks, StartsLow, ClimbsAreOnRecord, Up, Closed,
       vars, memory, world, Tasks

\* The mode a start records is not above OFF.
LEMMA StartSavesKeeps ==
    ASSUME IInv, StartSaves
    PROVE  IInv'
BY AutonomyAssumption, RankTyped, RankValues
   DEF StartSaves, IInv, AutonomyTypeOK, SectionSound, DutyTicks, StartsLow, ClimbsAreOnRecord, Up, Closed,
       vars, memory, world, Tasks

\* Time and the outside do not touch the state.
LEMMA WorldKeeps ==
    ASSUME IInv, WindowEnds \/ RedLasts \/ ReadinessMoves \/ CeilingMoves
    PROVE  IInv'
<1> USE AutonomyAssumption, RankTyped, RankValues DEF IInv
<1>1. AutonomyTypeOK'
  <2>1. CASE WindowEnds
    BY <2>1 DEF WindowEnds, AutonomyTypeOK, Closed, world, Tasks
  <2>2. CASE RedLasts
    BY <2>2 DEF RedLasts, AutonomyTypeOK, Closed, world, Tasks
  <2>3. CASE ReadinessMoves
    BY <2>3 DEF ReadinessMoves, AutonomyTypeOK, Closed, memory, Tasks
  <2>4. CASE CeilingMoves
    BY <2>4 DEF CeilingMoves, AutonomyTypeOK, Closed, memory, Tasks
  <2> QED  BY <2>1, <2>2, <2>3, <2>4
<1>2. SectionSound'
  BY DEF WindowEnds, RedLasts, ReadinessMoves, CeilingMoves, AutonomyTypeOK, SectionSound, Closed, Up, memory,
         world, Tasks
<1>3. (DutyTicks /\ StartsLow /\ ClimbsAreOnRecord)'
  BY DEF WindowEnds, RedLasts, ReadinessMoves, CeilingMoves, AutonomyTypeOK, DutyTicks, StartsLow,
         ClimbsAreOnRecord, SectionSound, Up, memory, world, Tasks
<1>4. QED
  BY <1>1, <1>2, <1>3

\* Every step keeps the invariant.
LEMMA StepIInv == IInv /\ [Next]_vars => IInv'
<1> SUFFICES ASSUME IInv, [Next]_vars PROVE IInv'
  OBVIOUS
<1>1. CASE UNCHANGED vars
  BY <1>1 DEF IInv, AutonomyTypeOK, SectionSound, DutyTicks, StartsLow, ClimbsAreOnRecord, Up, Closed, vars,
              memory, world, Tasks
<1>2. ASSUME NEW t \in Tasks, Begins(t) PROVE IInv'
  BY <1>2, ArmBeginsKeeps, RenewBeginsKeeps, DisarmKeeps, HaltKeeps DEF Begins
<1>3. ASSUME NEW t \in Tasks, InSection(t) PROVE IInv'
  BY <1>3, ReadsReadinessKeeps, DecidesKeeps, StoreCommitsKeeps, StoreRefusesKeeps, ClimbsKeeps, SavesKeeps
     DEF InSection
<1>4. CASE Tick
  BY <1>4, TickBeginsKeeps, TickSavesKeeps, TickClampsKeeps, TickMeasuresKeeps DEF Tick
<1>5. QED
  BY <1>1, <1>2, <1>3, <1>4, AsksKeeps, TellsKeeps, TimesOutKeeps, DiesKeeps, StartsKeeps, StartSavesKeeps,
     WorldKeeps DEF Next

-----------------------------------------------------------------------------
(* What follows.                                                           *)

\* The invariant holds in every reachable state: what the theorems below rest on.
THEOREM Invariance == Spec => []IInv
<1>1. Init => IInv
  BY InitIInv
<1>2. IInv /\ [Next]_vars => IInv'
  BY StepIInv
<1>3. QED
  BY <1>1, <1>2, PTL DEF Spec

\* Every variable keeps its type, and only ARMED has a window.
THEOREM AutonomyTypeCorrect == Spec => []AutonomyTypeOK
BY Invariance, PTL DEF IInv

\* Whatever fails, a rung above OFF was recorded before it was true (_transition).
THEOREM ClimbsRecorded == Spec => []ClimbsAreOnRecord
BY Invariance, PTL DEF IInv

\* The steps that come down, or leave the mode as it is.
LEMMA OnlyClimbsClimb ==
    ASSUME IInv, Next, Rank(mode') > Rank(mode)
    PROVE  \/ \E t \in Tasks : Climbs(t)
           \/ \E t \in Tasks : DisarmBegins(t) /\ mode = "HALTED" /\ mode' = "OFF"
           \/ core = "down" /\ mode' = "OFF" /\ mode = "HALTED"
<1> USE RankTyped, RankValues
<1>1. mode \in Modes
  BY DEF IInv, AutonomyTypeOK
<1>2. ~UNCHANGED mode
  BY <1>1
<1>3. ASSUME NEW t \in Tasks, DisarmBegins(t) PROVE mode = "HALTED" /\ mode' = "OFF"
  <2>1. PICK target \in Rungs, acknowledge \in BOOLEAN : mode' = mode \/ mode' = Disarmed(mode, target, acknowledge)
    BY <1>3 DEF DisarmBegins, Falls, memory
  <2>2. QED
    BY <1>1, <1>2, <2>1, DisarmFalls
<1>4. ASSUME NEW t \in Tasks, HaltBegins(t) PROVE FALSE
  <2>1. mode' = mode \/ mode' = "HALTED"
    BY <1>4 DEF HaltBegins, Falls, memory
  <2>2. QED
    BY <1>1, <1>2, <2>1
<1>5. CASE TickBegins
  <2>1. mode' = mode \/ (mode = "ARMED" /\ mode' = "CONFIRM")
    BY <1>5 DEF TickBegins, Falls
  <2>2. QED
    BY <1>2, <2>1
<1>6. CASE TickClamps
  <2>1. mode' = mode \/ mode' = Lowest(mode, ceiling)
    BY <1>6 DEF TickClamps, Clamped, Falls
  <2>2. ceiling \in Rungs
    BY AutonomyAssumption DEF IInv, AutonomyTypeOK
  <2>3. QED
    BY <1>1, <2>1, <2>2, LowestFalls
<1>7. CASE TickMeasures
  BY <1>2, <1>7 DEF TickMeasures, Automatic, Falls
<1>8. CASE Starts
  BY <1>1, <1>2, <1>8 DEF Starts, Falls
<1>9. ASSUME NEW t \in Tasks, ArmBegins(t) \/ RenewBegins(t) \/ Tells(t) \/ TimesOut(t)
               \/ ReadsReadiness(t) \/ Decides(t) \/ StoreCommits(t) \/ StoreRefuses(t) \/ Saves(t)
      PROVE  FALSE
  BY <1>2, <1>9
     DEF ArmBegins, RenewBegins, Tells, TimesOut, ReadsReadiness, Decides, StoreCommits, StoreRefuses, Saves,
         memory
<1>10. ASSUME NEW t \in Tasks, NEW gesture \in Gestures(t), Asks(t, gesture) PROVE FALSE
  BY <1>2, <1>10 DEF Asks, memory
<1>11. TickSaves \/ Dies \/ StartSaves \/ WindowEnds \/ RedLasts \/ ReadinessMoves \/ CeilingMoves => FALSE
  BY <1>2 DEF TickSaves, TickSaved, Dies, StartSaves, WindowEnds, RedLasts, ReadinessMoves, CeilingMoves,
              memory
<1>12. QED
  BY <1>3, <1>4, <1>5, <1>6, <1>7, <1>8, <1>9, <1>10, <1>11 DEF Next, Begins, InSection, Tick

\* A climb starts from the mode it was decided from.
LEMMA ClimbIsOneRung ==
    ASSUME IInv, NEW t \in Tasks, Climbs(t)
    PROVE  /\ mode # "HALTED" /\ mode' \in Rungs
           /\ Rank(mode') <= Rank(mode) + 1
<1>1. section.pc = "climbing" /\ mode' = section.target
  BY DEF Climbs, At
<1>2. QED
  BY <1>1 DEF IInv, AutonomyTypeOK, SectionSound, Closed

\* One rung at a time, whatever happened while the climb was being recorded.
THEOREM ClimbsByOneRung == Spec => OneRungAtATime
<1>1. IInv /\ [Next]_vars =>
         [Rank(mode') > Rank(mode) => Rank(mode') = Rank(mode) + 1 /\ mode' # "HALTED"]_vars
  <2> SUFFICES ASSUME IInv, Next, Rank(mode') > Rank(mode)
               PROVE  Rank(mode') = Rank(mode) + 1 /\ mode' # "HALTED"
    BY DEF vars
  <2>1. mode \in Modes
    BY DEF IInv, AutonomyTypeOK
  <2>2. CASE \E t \in Tasks : Climbs(t)
    BY <2>1, <2>2, ClimbIsOneRung, RankTyped
  <2>3. CASE mode' = "OFF" /\ mode = "HALTED"
    BY <2>3, RankValues
  <2>4. QED
    BY <2>2, <2>3, OnlyClimbsClimb
<1>2. QED
  BY <1>1, Invariance, PTL DEF Spec, OneRungAtATime

\* While the core lives nothing but a person's acknowledgement leaves a halt, and for OFF:
\* the lock orders the halt after the climb under way, or the climb's decision after it.
THEOREM HaltHoldsUntilAcknowledged == Spec => HaltIsLeftByAcknowledgement
<1>1. IInv /\ [Next]_vars =>
         [Up /\ mode = "HALTED" /\ mode' # "HALTED" =>
             /\ mode' = "OFF"
             /\ \E t \in Callers : tasks[t] = "disarm" /\ section'.by = t]_vars
  <2> SUFFICES ASSUME IInv, Next, Up, mode = "HALTED", mode' # "HALTED"
               PROVE  mode' = "OFF" /\ \E t \in Callers : tasks[t] = "disarm" /\ section'.by = t
    BY DEF vars
  <2>1. mode' \in Modes
    BY StepIInv DEF IInv, AutonomyTypeOK
  <2>2. Rank(mode') > Rank(mode)
    BY <2>1, RankValues
  <2>3. ~(\E t \in Tasks : Climbs(t))
    BY ClimbIsOneRung
  <2>4. PICK t \in Tasks : DisarmBegins(t) /\ mode' = "OFF"
    BY <2>2, <2>3, OnlyClimbsClimb DEF Up
  <2>5. tasks[t] = "disarm" /\ section'.by = t
    BY <2>4 DEF DisarmBegins, Waits, Inside, memory
  <2>6. t \in Callers
    BY <2>5 DEF IInv, DutyTicks, Tasks
  <2>7. QED
    BY <2>4, <2>5, <2>6
<1>2. QED
  BY <1>1, Invariance, PTL DEF Spec, HaltIsLeftByAcknowledgement
=============================================================================
