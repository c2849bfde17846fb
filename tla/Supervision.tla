------------------------------ MODULE Supervision ------------------------------
(***************************************************************************)
(* What watches the core by itself: the supervisor, the registry of agents, *)
(* the MT5 worker processes and the risk cycle's lockouts. A behaviour is   *)
(* one of the four (part): the others reach it through the actions of its   *)
(* environment (WorldMoves, PersonMoves, Halts, Dies, LimitMoves, ...), so  *)
(* each is checked in a wider environment than the other three would give   *)
(* it.                                                                      *)
(***************************************************************************)
EXTENDS Naturals

CONSTANTS
    Symptoms, TopRung, ShortDelays, SupervisorFaults,
    Connections, Logins, Capable,
    Callers, MaxWorkers, TerminalFaults,
    Rows, Cycles, Gestures, MaxLosses, Limit

VARIABLES
    part,
    world, mode, since, tick, backoff, blocked, known, opened,
    conn, byLogin, beats, halted,
    worker, process, lock, client, reaping, once, ended, caller,
    ledger, losses, streak, breached, over, status, op

S == INSTANCE Supervisor
R == INSTANCE AgentRegistry
T == INSTANCE Terminal
L == INSTANCE RiskLedger

ASSUME SupervisionAssumption ==
    /\ S!SupervisorAssumption /\ R!RegistryAssumption /\ R!NamesAssumption
    /\ T!TerminalAssumption /\ L!LedgerAssumption

supervisor == <<world, mode, since, tick, backoff, blocked, known, opened>>
registry == <<conn, byLogin, beats, halted>>
terminal == <<worker, process, lock, client, reaping, once, ended, caller>>
lockouts == <<ledger, losses, streak, breached, over, status, op>>
supervisionVars == <<part, supervisor, registry, terminal, lockouts>>

Init ==
    /\ part \in {"supervisor", "registry", "terminal", "lockouts"}
    /\ S!Init /\ R!Init /\ T!Init /\ L!Init

Supervises == part = "supervisor" /\ S!Next /\ UNCHANGED <<part, registry, terminal, lockouts>>
Serves == part = "registry" /\ R!Next /\ UNCHANGED <<part, supervisor, terminal, lockouts>>
Reads == part = "terminal" /\ T!Next /\ UNCHANGED <<part, supervisor, registry, lockouts>>
Locks == part = "lockouts" /\ L!Next /\ UNCHANGED <<part, supervisor, registry, terminal>>

Next == Supervises \/ Serves \/ Reads \/ Locks

\* The fairness each module states, for the part that runs.
SupervisorFairness ==
    /\ WF_supervisor(part = "supervisor" /\ S!TickBegins) /\ WF_supervisor(part = "supervisor" /\ S!TickSteps)
    /\ WF_supervisor(part = "supervisor" /\ S!Persists) /\ WF_supervisor(part = "supervisor" /\ S!BackoffEnds)
RegistryFairness ==
    /\ WF_registry(part = "registry" /\ R!Enforces)
    /\ \A c \in Connections :
          /\ WF_registry(part = "registry" /\ R!Beats(c)) /\ WF_registry(part = "registry" /\ R!Obeys(c))
          /\ WF_registry(part = "registry" /\ R!Announces(c)) /\ WF_registry(part = "registry" /\ R!Ends(c))
TerminalFairness ==
    /\ \A t \in Callers : SF_terminal(part = "terminal" /\ T!Steps(t))
    /\ \A w \in 1..MaxWorkers : WF_terminal(part = "terminal" /\ T!Reaps(w))
LockoutFairness ==
    /\ \A o \in Cycles :
          WF_lockouts(part = "lockouts" /\ L!Builds(o)) /\ SF_lockouts(part = "lockouts" /\ L!RunsLockouts(o))
    /\ \A o \in Gestures :
          WF_lockouts(part = "lockouts" /\ L!Kills(o)) /\ WF_lockouts(part = "lockouts" /\ L!Clears(o))

SafetySpec == Init /\ [][Next]_supervisionVars
Spec ==
    /\ SafetySpec
    /\ SupervisorFairness /\ RegistryFairness /\ TerminalFairness /\ LockoutFairness
-----------------------------------------------------------------------------
(* What is asked of the parts (each is explained in its own module).       *)

\* A critical fault that lasts ends in a halt, however often the terminal hangs under the supervisor and whatever
\* mode a person keeps climbing to (Supervisor._act); and no incident stays open for ever after its fault is gone.
CriticalEndsInHalt == S!CriticalEndsInHalt /\ S!IncidentsAreResolved

\* While a halt stands, every agent that stays connected and knows the message gets it, whatever its neighbours
\* know and however the connections are taken over (Supervisor._enforce_halt, AgentRegistry.broadcast).
HaltReachesEveryAgent == R!HaltReachesEveryAgent

\* A worker stuck in a native call is ended, whatever the tasks that share it do, unless its kill fails (SubprocessTransport).
StuckEnds == T!StuckEnds

\* A streak that still stands keeps the account locked for its pause, and not for ever after, whatever rows the
\* cycles and the gestures left (RiskService._streak_for_gate).
PauseIsServed == L!PauseIsServed

\* The supervisor never gives autonomy back, whatever became of the mode while its tick was suspended; a
\* registration is never ended by another connection's end; and the ledger never hides a worker that runs
\* (and the four parts are well typed).
SupervisionIsSafe ==
    /\ S!TickOnlyLowers
    /\ R!OnlySilentIsTakenOver
    /\ [](S!SupervisorTypeOK /\ R!RegistryTypeOK /\ T!TerminalTypeOK /\ L!LedgerTypeOK /\ T!LedgerIsTrue)
=============================================================================
