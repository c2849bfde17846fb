------------------------------ MODULE Autonomy ------------------------------
(***************************************************************************)
(* The autonomy service (services/autonomy.py): the one state the ladder    *)
(* acts on, the lock every gesture takes, what is recorded and when, the    *)
(* ARMED window, the readiness required continuously, and restarts.         *)
(*                                                                         *)
(* One asyncio loop: an action is what happens between two awaits.  A task  *)
(* asks for a gesture and waits for the lock; `section' is the coroutine    *)
(* inside it, and the step it is suspended before.                          *)
(***************************************************************************)
EXTENDS AutonomyLadder

CONSTANTS
    Callers,         \* tasks that make gestures: API requests, startup, supervisor
    Scheduled,       \* the callers a scheduler job runs: they only bring down, and time out
    Duty,            \* the scheduler's job that ticks
    Ceilings,        \* the ceilings accounts and TRADING_MODE set
    AutonomyFaults   \* what may go wrong: "restart", "store", "timeout"

Nobody == "nobody"

ASSUME AutonomyAssumption ==
    /\ Scheduled \subseteq Callers
    /\ Ceilings \subseteq Rungs
    /\ Duty \notin Callers
    /\ Nobody \notin Callers \cup {Duty}

VARIABLES
    mode,      \* _state.mode
    lease,     \* _state.lease_until: none, in the future, past
    red,       \* _blocked_since: none, recent, older than the tolerance
    tasks,     \* what each task asked for
    section,   \* who holds _lock, and where it is
    stored,    \* the state recorded in the database
    facts,     \* whether the readiness is green when it is gathered
    ceiling,   \* min(TRADING_MODE, the active account's max_mode)
    core       \* the process: up, starting, down

vars == <<mode, lease, red, tasks, section, stored, facts, ceiling, core>>
memory == <<mode, lease, red>>
world == <<facts, ceiling>>

Tasks == Callers \cup {Duty}
Gestures(t) ==
    IF t = Duty THEN {"tick"}
    ELSE {"disarm", "halt"} \cup (IF t \in Scheduled THEN {} ELSE {"arm", "renew"})

Stages == {"reading", "deciding", "recording", "climbing", "saving",
           "lapsing", "clamping", "lowering", "measuring"}
Writing == {"saving", "lapsing", "lowering"}   \* best-effort
Closed == [by |-> Nobody, pc |-> "free", target |-> "OFF", ready |-> FALSE]
Inside(t, pc, target, ready) == [by |-> t, pc |-> pc, target |-> target, ready |-> ready]

AutonomyTypeOK ==
    /\ mode \in Modes
    /\ lease \in {"none", "open", "lapsed"}
    /\ lease # "none" => mode = "ARMED"
    /\ red \in {"no", "short", "long"}
    /\ tasks \in [Tasks -> {"idle", "cut", "telling", "arm", "renew", "disarm", "halt", "tick"}]
    /\ section \in [by : Tasks, pc : Stages, target : Rungs, ready : BOOLEAN] \cup {Closed}
    /\ stored \in Modes \cup {"nothing"}
    /\ facts \in BOOLEAN
    /\ ceiling \in Ceilings
    /\ core \in {"up", "starting", "down"}

Init ==
    /\ mode = "OFF" /\ lease = "none" /\ red = "no"
    /\ tasks = [t \in Tasks |-> "idle"]
    /\ section = Closed
    /\ stored = "nothing"
    /\ facts \in BOOLEAN /\ ceiling \in Ceilings
    /\ core = "down"

-----------------------------------------------------------------------------
(* The lock.                                                               *)

Up == core = "up"
Fault(kind) == kind \in AutonomyFaults
Waits(t, gesture) == Up /\ tasks[t] = gesture /\ section = Closed
At(t, pc) == Up /\ section.by = t /\ section.pc = pc
Goes(pc) == section' = [section EXCEPT !.pc = pc]
Leaves(t, next) == tasks' = [tasks EXCEPT ![t] = next] /\ section' = Closed
Turns(t, next) == tasks' = [tasks EXCEPT ![t] = next] /\ UNCHANGED section
\* _moved, downwards: no window is left.
Falls(m) == mode' = m /\ lease' = "none"

Asks(t, gesture) ==
    /\ Up
    /\ tasks[t] \in {"idle", "cut"}
    /\ gesture \in Gestures(t)
    /\ Turns(t, gesture)
    /\ UNCHANGED <<memory, stored, world, core>>

-----------------------------------------------------------------------------
(* Climbing: arm and renew.                                                *)

\* An automatic rung, and a renewal, need a readiness evaluated for this call.
ArmBegins(t) ==
    /\ Waits(t, "arm")
    /\ \E target \in Rungs :
          section' = Inside(t, IF target \in Automatic THEN "reading" ELSE "deciding", target, FALSE)
    /\ UNCHANGED <<memory, tasks, stored, world, core>>

RenewBegins(t) ==
    /\ Waits(t, "renew")
    /\ section' = Inside(t, "reading", "ARMED", FALSE)
    /\ UNCHANGED <<memory, tasks, stored, world, core>>

ReadsReadiness(t) ==
    /\ At(t, "reading")
    /\ section' = [section EXCEPT !.pc = "deciding", !.ready = facts]
    /\ UNCHANGED <<memory, tasks, stored, world, core>>

\* The ceiling is awaited last: reading it and deciding are one step.
Allowed(t) ==
    IF tasks[t] = "renew"
    THEN section.ready /\ mode = "ARMED"
    ELSE MayArm(mode, section.target, ceiling, section.ready)
Decides(t) ==
    /\ At(t, "deciding")
    /\ IF Allowed(t)
       THEN Goes("recording") /\ UNCHANGED tasks
       ELSE Leaves(t, "idle")
    /\ UNCHANGED <<memory, stored, world, core>>

\* "Climbing is written before it is true"; a failed write is refused, and may have landed.
StoreCommits(t) ==
    /\ At(t, "recording")
    /\ stored' = section.target
    /\ Goes("climbing")
    /\ UNCHANGED <<memory, tasks, world, core>>
\* Mutant: the climb does not require the record.
StoreRefusesAnyway(t) ==
    /\ At(t, "recording")
    /\ Fault("store")
    /\ stored' \in {stored, section.target}
    /\ Goes("climbing")
    /\ UNCHANGED <<memory, tasks, world, core>>
StoreRefuses(t) ==
    /\ At(t, "recording")
    /\ Fault("store")
    /\ stored' \in {stored, section.target}
    /\ Leaves(t, "idle")
    /\ UNCHANGED <<memory, world, core>>

\* The climb and, for a renewal, the new window.
Climbs(t) ==
    /\ At(t, "climbing")
    /\ mode' = section.target
    /\ lease' = WindowOf(section.target)
    /\ Leaves(t, "idle")
    /\ UNCHANGED <<red, stored, world, core>>

-----------------------------------------------------------------------------
(* Coming down: disarm and halt apply at once, and are saved best-effort.  *)

DisarmBegins(t) ==
    /\ Waits(t, "disarm")
    /\ \E target \in Rungs, acknowledge \in BOOLEAN :
          LET m == Disarmed(mode, target, acknowledge)
          IN  IF m = mode
              THEN Turns(t, "idle") /\ UNCHANGED memory
              ELSE /\ Falls(m)
                   /\ section' = Inside(t, "saving", target, FALSE)
                   /\ UNCHANGED <<red, tasks>>
    /\ UNCHANGED <<stored, world, core>>

\* Mutants: a halt does not wait for the lock; a halt needs a mode that trades.
HaltAtOnce(t) ==
    /\ Up /\ tasks[t] = "halt"
    /\ Falls("HALTED")
    /\ Turns(t, "telling")
    /\ UNCHANGED <<red, stored, world, core>>
HaltIfAutomatic(t) ==
    /\ Waits(t, "halt")
    /\ IF mode \in Automatic
       THEN /\ Falls("HALTED")
            /\ section' = Inside(t, "saving", "OFF", FALSE)
            /\ UNCHANGED <<red, tasks>>
       ELSE Turns(t, "telling") /\ UNCHANGED memory
    /\ UNCHANGED <<stored, world, core>>
\* Already halted: the agents are told again, nothing else.
HaltBegins(t) ==
    /\ Waits(t, "halt")
    /\ IF mode = "HALTED"
       THEN Turns(t, "telling") /\ UNCHANGED memory
       ELSE /\ Falls("HALTED")
            /\ section' = Inside(t, "saving", "OFF", FALSE)
            /\ UNCHANGED <<red, tasks>>
    /\ UNCHANGED <<stored, world, core>>

Tells(t) ==
    /\ Up
    /\ tasks[t] = "telling"
    /\ Turns(t, "idle")
    /\ UNCHANGED <<memory, stored, world, core>>

\* The end of a best-effort transition: whatever the store answers, the gesture is done.
Saved(t) == stored' = mode \/ (Fault("store") /\ stored' = stored)
Saves(t) ==
    /\ At(t, "saving")
    /\ Saved(t)
    /\ Leaves(t, IF tasks[t] = "halt" THEN "telling" ELSE "idle")
    /\ UNCHANGED <<memory, world, core>>

-----------------------------------------------------------------------------
(* The periodic duty: the window, the ceiling, the readiness, in that order.*)

\* Mutant: the window is not looked at.
TickSkipsTheWindow ==
    /\ Waits(Duty, "tick")
    /\ section' = Inside(Duty, "clamping", "OFF", FALSE)
    /\ UNCHANGED <<memory, tasks, stored, world, core>>
TickBegins ==
    /\ Waits(Duty, "tick")
    /\ IF mode = "ARMED" /\ lease = "lapsed"
       THEN Falls("CONFIRM") /\ section' = Inside(Duty, "lapsing", "OFF", FALSE)
       ELSE section' = Inside(Duty, "clamping", "OFF", FALSE) /\ UNCHANGED <<mode, lease>>
    /\ UNCHANGED <<red, tasks, stored, world, core>>

TickSaved(from, to) ==
    /\ At(Duty, from)
    /\ Saved(Duty)
    /\ Goes(to)
    /\ UNCHANGED <<memory, tasks, world, core>>

TickClamps ==
    /\ At(Duty, "clamping")
    /\ LET m == Clamped(mode, ceiling)
       IN  IF m = mode
           THEN Goes("measuring") /\ UNCHANGED <<mode, lease>>
           ELSE Goes("lowering") /\ Falls(m)
    /\ UNCHANGED <<red, tasks, stored, world, core>>

\* Mutant: every red tick starts the tolerance again.
TickForgetsSince ==
    /\ At(Duty, "measuring")
    /\ red' = IF mode \notin Automatic \/ facts THEN "no" ELSE "short"
    /\ Leaves(Duty, "idle")
    /\ UNCHANGED <<mode, lease, stored, world, core>>
\* A readiness red beyond the tolerance brings an automatic rung down.
TickMeasures ==
    /\ At(Duty, "measuring")
    /\ LET lost == mode \in Automatic /\ ~facts
       IN  IF lost /\ red = "long"
           THEN Falls("CONFIRM") /\ red' = "no" /\ Goes("saving") /\ UNCHANGED tasks
           ELSE /\ red' = IF ~lost THEN "no" ELSE "short"
                /\ Leaves(Duty, "idle")
                /\ UNCHANGED <<mode, lease>>
    /\ UNCHANGED <<stored, world, core>>

CutOff(t) == IF t = Duty THEN "cut" ELSE "idle"
\* The scheduler cancels a job after its timeout, at whatever await it is.
TimesOut(t) ==
    /\ Up /\ Fault("timeout")
    /\ t \in Scheduled \cup {Duty}
    /\ tasks[t] \notin {"idle", "cut"}
    /\ IF section.by = t
       THEN Leaves(t, CutOff(t)) /\ (stored' = stored \/ (section.pc \in Writing /\ stored' = mode))
       ELSE Turns(t, CutOff(t)) /\ UNCHANGED stored
    /\ UNCHANGED <<memory, world, core>>

-----------------------------------------------------------------------------
(* Restarts.                                                               *)

\* The process dies; a write in flight lands or not.
Dies ==
    /\ Fault("restart")
    /\ core # "down"
    /\ core' = "down"
    /\ stored' \in {stored}
          \cup (IF section.pc = "recording" THEN {section.target} ELSE {})
          \cup (IF section.pc \in Writing \/ core = "starting" THEN {mode} ELSE {})
    /\ tasks' = [t \in Tasks |-> "idle"]
    /\ section' = Closed
    /\ UNCHANGED <<memory, world>>

\* start(): OFF, or the halt on record if it can be read.
Starts ==
    /\ core = "down"
    /\ core' = "starting"
    /\ \/ Falls(IF stored = "HALTED" THEN "HALTED" ELSE "OFF")
       \/ Fault("store") /\ Falls("OFF")
    /\ red' = "no"
    /\ UNCHANGED <<tasks, section, stored, world>>

StartSaves ==
    /\ core = "starting"
    /\ core' = "up"
    /\ stored' = mode \/ (Fault("store") /\ stored' = stored)
    /\ UNCHANGED <<memory, tasks, section, world>>

-----------------------------------------------------------------------------
(* Time and the outside.                                                   *)

WindowEnds == Up /\ lease = "open" /\ lease' = "lapsed" /\ UNCHANGED <<mode, red, tasks, section, stored, world, core>>

\* Older than the tolerance, for the ticks that begin from now on.
RedLasts ==
    /\ Up /\ red = "short" /\ section.by # Duty
    /\ red' = "long"
    /\ UNCHANGED <<mode, lease, tasks, section, stored, world, core>>

ReadinessMoves == facts' = ~facts /\ UNCHANGED <<memory, tasks, section, stored, ceiling, core>>
CeilingMoves == ceiling' \in Ceilings \ {ceiling} /\ UNCHANGED <<memory, tasks, section, stored, facts, core>>

InSection(t) ==
    \/ ReadsReadiness(t) \/ Decides(t) \/ StoreCommits(t) \/ StoreRefuses(t) \/ Climbs(t) \/ Saves(t)
Begins(t) == ArmBegins(t) \/ RenewBegins(t) \/ DisarmBegins(t) \/ HaltBegins(t)
TickSaves == TickSaved("lapsing", "clamping") \/ TickSaved("lowering", "measuring")
Tick == TickBegins \/ TickSaves \/ TickClamps \/ TickMeasures

Next ==
    \/ \E t \in Tasks : \/ \E gesture \in Gestures(t) : Asks(t, gesture)
                        \/ Begins(t) \/ InSection(t) \/ Tells(t) \/ TimesOut(t)
    \/ Tick
    \/ Dies \/ Starts \/ StartSaves
    \/ WindowEnds \/ RedLasts \/ ReadinessMoves \/ CeilingMoves

Spec == Init /\ [][Next]_vars

\* asyncio.Lock is first come, first served; every await ends; the scheduler runs the
\* duty again, and does not cut it for ever; time passes.
Fairness ==
    /\ \A t \in Callers \ Scheduled : SF_vars(HaltBegins(t))
    /\ WF_vars(\E t \in Tasks : InSection(t))
    /\ WF_vars(Asks(Duty, "tick"))
    /\ SF_vars(TickBegins) /\ WF_vars(TickSaves \/ TickClamps \/ TickMeasures)
    /\ SF_vars(RedLasts)
    /\ <>[](tasks[Duty] # "cut")
FairSpec == Spec /\ Fairness

-----------------------------------------------------------------------------
(* Properties.                                                             *)

\* A rung above OFF is on record, or a higher one is: a restart always learns that the
\* system was trading (start compares what it reads with AUTOMATIC_MODES).
ClimbsAreOnRecord ==
    Up /\ Rank(mode) > 0 => stored \in Rungs /\ Rank(mode) <= Rank(stored)

\* A climb is one rung from the mode the system is in when it takes effect, and to no mode
\* while a halt stands, whatever was asked or happened while the record was written.
OneRungAtATime ==
    [][Rank(mode') > Rank(mode) => Rank(mode') = Rank(mode) + 1 /\ mode' # "HALTED"]_vars

\* While the core lives, a halt is left for OFF only, by a person's disarm: no climb, no
\* tick and no supervisor's step under way when the halt came undoes it.
HaltIsLeftByAcknowledgement ==
    [][Up /\ mode = "HALTED" /\ mode' # "HALTED" =>
          /\ mode' = "OFF"
          /\ \E t \in Callers : tasks[t] = "disarm" /\ section'.by = t]_vars

\* A halt that was asked for takes effect, whatever holds the lock, or the core dies.
HaltTakesEffect ==
    \A t \in Callers \ Scheduled : (Up /\ tasks[t] = "halt") ~> (~Up \/ mode = "HALTED")

\* A window that lapsed is renewed or brings the system down to a human in the loop.
LapsedWindowIsEnforced ==
    (Up /\ lease = "lapsed") ~> (~Up \/ lease # "lapsed")

\* An automatic rung does not go on under a readiness that stays red.
RedIsActedOn == []<>(~Up \/ facts \/ mode \notin Automatic)

\* What no longer permits an automatic rung brings it down: a window that lapsed, a readiness that stays red, however the
\* duty is cut and whatever holds the lock when it is due (AutonomyService.tick).
AutomaticRungsEnd == LapsedWindowIsEnforced /\ RedIsActedOn

\* The system does not stay above its ceiling.
CeilingIsRespected == []<>(~Up \/ Rank(mode) <= Rank(ceiling))

\* "a core that restarts after a critical error stays halted until a human acknowledges it"
HaltSurvivesRestart == [][core = "down" /\ mode = "HALTED" => mode' = "HALTED"]_vars

\* "ARMED is a time-boxed window the human renews"
ArmedHasAWindow == Up /\ mode = "ARMED" => lease # "none"
=============================================================================
