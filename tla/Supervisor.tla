----------------------------- MODULE Supervisor -----------------------------
(***************************************************************************)
(* The supervisor (runtime/supervisor.py) and its policy table              *)
(* (domain/system/supervision.py): what it sees becomes findings, findings  *)
(* become remedies, faults become incidents.                                *)
(*                                                                         *)
(* One tick is one run of a scheduler job that is cut after its timeout.    *)
(* It suspends while it re-attaches the terminal, while it acts on the      *)
(* autonomy and while it writes the incidents; the findings and the mode it *)
(* acts on are those of its beginning.  One account is connected at a time  *)
(* (services/accounts.py), so a finding is known by its code.  What a halt  *)
(* does to the agents is in AgentRegistry.                                  *)
(***************************************************************************)
EXTENDS AutonomyLadder, FiniteSets

CONSTANTS
    Symptoms,        \* what may be wrong with the core or the connected account
    TopRung,         \* the ceiling of the process
    ShortDelays,     \* the delays of RECONNECT_BACKOFF shorter than a tick may last
    SupervisorFaults \* "cut": the terminal hangs; "restart"; "unreadable": at the start

VARIABLES
    world,      \* the symptoms there are now
    mode,       \* the autonomy service's mode
    since,      \* _state.since, of the codes that escalate: recent, or PERSIST_AFTER ago
    tick,       \* the running tick: where it is, its findings, the mode it captured
    backoff,    \* _state.backoff of the account: attempts, and whether the next is due
    blocked,    \* _state.safe is not empty: degraded_for refuses entries
    known,      \* _state.incidents
    opened      \* the incidents open in the database

vars == <<world, mode, since, tick, backoff, blocked, known, opened>>
memory == <<since, backoff, blocked, known>>

-----------------------------------------------------------------------------
(* The policy table.                                                       *)

Policy ==
    [stale_market_data     |-> <<{"SAFE"}, {}>>,
     mt5_disconnected      |-> <<{"RECONNECT", "SAFE"}, {}>>,
     agent_heartbeat_stale |-> <<{"SAFE"}, {"DISARM"}>>,
     database_unavailable  |-> <<{"SAFE"}, {"HALT"}>>,
     execution_failure     |-> <<{"SAFE", "RECONCILE"}, {}>>,
     unknown_command       |-> <<{"SAFE", "RECONCILE"}, {}>>,
     reconciliation_failed |-> <<{"RECONCILE"}, {}>>,
     unexpected_position   |-> <<{"HALT"}, {}>>,
     critical_error        |-> <<{"HALT"}, {}>>]

Codes == DOMAIN Policy \cup
    {"scheduler_stalled", "risk_engine_error", "risk_engine_stale",
     "account_mismatch", "reconciliation_mismatch"}

SeverityOf(code) ==
    CASE code \in {"critical_error", "unexpected_position"} -> "critical"
      [] code \in {"stale_market_data", "risk_engine_stale"} -> "medium"
      [] OTHER -> "high"

\* The codes whose age matters to the policy.
Escalating == {"mt5_disconnected", "reconciliation_failed"}

\* _generic: a code the table does not name goes by its severity.
Generic(severity) ==
    CASE severity = "critical" -> <<{"HALT"}, {}>>
      [] severity = "high" -> <<{"SAFE"}, {"DISARM"}>>
      [] OTHER -> <<{"SAFE"}, {}>>

\* Mutant: a fault that lasts is not escalated, and a critical one waits for an automatic mode.
ActionsForTimid(code, persisting, automatic) ==
    LET row == IF code \in DOMAIN Policy THEN Policy[code] ELSE Generic(SeverityOf(code))
    IN  (row[1] \ {"HALT"}) \cup (IF automatic THEN row[2] \cup row[1] ELSE {})

ActionsFor(code, persisting, automatic) ==
    LET row == IF code \in DOMAIN Policy THEN Policy[code] ELSE Generic(SeverityOf(code))
    IN  row[1]
        \cup (IF automatic THEN row[2] ELSE {})
        \cup (IF persisting /\ automatic /\ code = "mt5_disconnected" THEN {"DISARM"} ELSE {})
        \cup (IF persisting /\ code = "reconciliation_failed" THEN {"HALT"} ELSE {})
        \cup (IF SeverityOf(code) = "critical" THEN {"HALT"} ELSE {})

-----------------------------------------------------------------------------
(* What each reader of the core looks like to the supervisor: a symptom is  *)
(* the condition one of its tests is about.  A young connection is excused  *)
(* for what it has not had the time to produce.                             *)

AllSymptoms ==
    {"young", "job overdue", "critical job crashing", "database down",
     "reads fail", "poll old", "never read", "trade server lost",
     "feed stale", "feed not started", "risk error", "risk cycle old",
     "execution error", "command in doubt", "agent absent", "agent silent",
     "reconciliation failing", "reconciliation old",
     "stray position", "wrong account", "diverged"}

SupervisorAssumption == Symptoms \subseteq AllSymptoms /\ TopRung \in Rungs /\ ShortDelays \in Nat

CoreFindings(w) ==
    {c \in {"scheduler_stalled", "critical_error", "database_unavailable"} :
        \/ c = "scheduler_stalled" /\ "job overdue" \in w
        \/ c = "critical_error" /\ "critical job crashing" \in w
        \/ c = "database_unavailable" /\ "database down" \in w}

TerminalLost(w) ==
    \/ {"reads fail", "poll old", "trade server lost"} \cap w # {}
    \/ "never read" \in w /\ "young" \notin w

FeedStale(w) ==
    \/ "feed stale" \in w
    \/ "feed not started" \in w /\ "young" \notin w

\* _agent: its absence is a fault in the modes that send through it only.
AgentMissing(w, m) ==
    /\ m \in Automatic \cup {"CONFIRM"}
    /\ "agent silent" \in w \/ ("agent absent" \in w /\ "young" \notin w)

\* The commands in doubt are read from the database: unreadable, its own finding says so.
InDoubt(w) == "command in doubt" \in w /\ "database down" \notin w

ReconciliationFindings(w) ==
    {c \in {"reconciliation_failed", "unexpected_position", "account_mismatch",
            "reconciliation_mismatch"} :
        \/ /\ c = "reconciliation_failed"
           /\ "reconciliation failing" \in w \/ ("reconciliation old" \in w /\ "young" \notin w)
        \/ c = "unexpected_position" /\ "stray position" \in w
        \/ c = "account_mismatch" /\ "wrong account" \in w
        \/ c = "reconciliation_mismatch" /\ "diverged" \in w}

AccountFindings(w, m) ==
    ReconciliationFindings(w) \cup
    {c \in {"mt5_disconnected", "stale_market_data", "risk_engine_error", "risk_engine_stale",
            "execution_failure", "unknown_command", "agent_heartbeat_stale"} :
        \/ c = "mt5_disconnected" /\ TerminalLost(w)
        \/ c = "stale_market_data" /\ FeedStale(w)
        \/ c = "risk_engine_error" /\ "risk error" \in w
        \/ /\ c = "risk_engine_stale"
           /\ "risk cycle old" \in w /\ {"risk error", "young"} \cap w = {}
        \/ c = "execution_failure" /\ "execution error" \in w
        \/ c = "unknown_command" /\ InDoubt(w)
        \/ c = "agent_heartbeat_stale" /\ AgentMissing(w, m)}

Findings(w, m) == CoreFindings(w) \cup AccountFindings(w, m)
Serious(codes) == {c \in codes : SeverityOf(c) # "medium"}

-----------------------------------------------------------------------------
Idle == [pc |-> "idle", found |-> {}, automatic |-> FALSE]
Remedies(t) ==
    UNION {ActionsFor(c, c \in Escalating /\ since[c] = "long", t.automatic) : c \in t.found}
At(pc) == tick.pc = pc
Goes(pc) == tick' = [tick EXCEPT !.pc = pc]
Fault(kind) == kind \in SupervisorFaults
Readable == "database down" \notin world

SupervisorTypeOK ==
    /\ world \subseteq Symptoms
    /\ mode \in Modes
    /\ since \in [Escalating -> {"no", "recent", "long"}]
    /\ tick \in [pc : {"idle", "attaching", "acting", "recording"},
                 found : SUBSET Codes, automatic : BOOLEAN]
    /\ backoff \in [attempts : 0..ShortDelays, wait : {"due", "short", "long", "seen"}]
    /\ blocked \in BOOLEAN
    /\ known \subseteq Codes /\ opened \subseteq Codes

Fresh == [attempts |-> 0, wait |-> "due"]

Init ==
    /\ world = {} /\ mode = "OFF"
    /\ since = [c \in Escalating |-> "no"]
    /\ tick = Idle /\ backoff = Fresh /\ blocked = FALSE
    /\ known = {} /\ opened = {}

-----------------------------------------------------------------------------
(* The tick.                                                               *)

\* _act replaces the reasons entries are blocked for.
SafeMode(found, automatic) ==
    \E c \in found : "SAFE" \in ActionsFor(c, FALSE, automatic)

\* tick up to its first remedy: what is gone is forgotten, what is new is dated,
\* the mode is captured and entries are blocked.
TickBegins ==
    /\ At("idle")
    /\ LET found == Findings(world, mode)
           automatic == mode \in Automatic
       IN  /\ since' = [c \in Escalating |->
                  IF c \notin found THEN "no" ELSE IF since[c] = "no" THEN "recent" ELSE since[c]]
           /\ tick' = [pc |-> "attaching", found |-> found, automatic |-> automatic]
           /\ blocked' = SafeMode(found, automatic)
           /\ backoff' = IF "mt5_disconnected" \in found THEN backoff ELSE Fresh
    /\ UNCHANGED <<world, mode, known, opened>>

\* Mutant: every delay is shorter than a tick may last.
BackoffAfterShort(b) == [attempts |-> ShortDelays, wait |-> "short"]
\* The delays grow until one outlasts the job's timeout (5, 10, 20, then 40 and 60 s; 30 s).
BackoffAfter(b) ==
    IF b.attempts < ShortDelays
    THEN [attempts |-> b.attempts + 1, wait |-> "short"]
    ELSE [b EXCEPT !.wait = "long"]

Attempts == "RECONNECT" \in Remedies(tick) /\ backoff.wait = "due"

\* _reconnect, and the reconciliations asked for: an attempt fails or not, a delay is waited.
Attaches ==
    /\ At("attaching")
    /\ backoff' = IF Attempts THEN BackoffAfter(backoff)
                  ELSE IF backoff.wait = "long" THEN [backoff EXCEPT !.wait = "seen"] ELSE backoff
    /\ Goes("acting")
    /\ UNCHANGED <<world, mode, since, blocked, known, opened>>

\* The terminal hangs: the job's timeout ends the tick where it is.
AttachIsCut ==
    /\ Fault("cut") /\ At("attaching") /\ Attempts
    /\ backoff' = BackoffAfter(backoff)
    /\ tick' = Idle
    /\ UNCHANGED <<world, mode, since, blocked, known, opened>>

\* Mutant: the disarm writes the rung whatever the mode became since it was captured.
LowersBlindly == mode' = "OBSERVE" /\ Goes("recording")
\* The disarm: a mode halted meanwhile refuses it, and the error ends the tick.
Lowers ==
    /\ mode' = Disarmed(mode, "OBSERVE", FALSE)
    /\ IF mode = "HALTED" THEN tick' = Idle ELSE Goes("recording")

Acts ==
    /\ At("acting")
    /\ IF "HALT" \in Remedies(tick)
       THEN mode' = "HALTED" /\ Goes("recording")
       ELSE IF "DISARM" \in Remedies(tick) /\ tick.automatic
       THEN Lowers
       ELSE Goes("recording") /\ UNCHANGED mode
    /\ UNCHANGED <<world, memory, opened>>

\* Mutant: an incident is forgotten before its resolution is written.
SettledForgetting(faults) ==
    /\ opened' = IF Readable THEN (opened \ (known \ faults)) \cup (faults \ known) ELSE opened
    /\ known' = faults
\* _track_incidents: what cannot be written is tried again by the next tick.
Settled(faults) ==
    IF Readable
    THEN opened' = (opened \ (known \ faults)) \cup (faults \ known) /\ known' = faults
    ELSE UNCHANGED <<known, opened>>

Records ==
    /\ At("recording")
    /\ Settled(Serious(tick.found))
    /\ tick' = Idle
    /\ UNCHANGED <<world, mode, since, backoff, blocked>>

-----------------------------------------------------------------------------
(* Around the tick.                                                        *)

\* A fault appears or clears.
WorldMoves ==
    /\ \E s \in Symptoms : world' = (world \ {s}) \cup ({s} \ world)
    /\ UNCHANGED <<mode, since, tick, backoff, blocked, known, opened>>

\* A minute: a fault that is still there is now persisting.
Persists ==
    /\ \E c \in Escalating : since[c] = "recent" /\ since' = [since EXCEPT ![c] = "long"]
    /\ UNCHANGED <<world, mode, tick, backoff, blocked, known, opened>>

BackoffEnds ==
    /\ backoff.wait \in {"short", "seen"}
    /\ backoff' = [backoff EXCEPT !.wait = "due"]
    /\ UNCHANGED <<world, mode, since, tick, blocked, known, opened>>

\* A person climbs, comes down or acknowledges a halt.
PersonMoves ==
    /\ \/ \E target \in Rungs :
             MayArm(mode, target, TopRung, TRUE) /\ mode' = target
       \/ \E target \in {"OFF", "OBSERVE"} :
             mode' = Disarmed(mode, target, TRUE) /\ mode' # mode
    /\ UNCHANGED <<world, since, tick, backoff, blocked, known, opened>>

\* The core restarts: a halt was recorded; the open incidents are picked up if they can be read.
Restarts ==
    /\ Fault("restart")
    /\ Fault("unreadable") \/ Readable
    /\ mode' = IF mode = "HALTED" THEN "HALTED" ELSE "OFF"
    /\ since' = [c \in Escalating |-> "no"]
    /\ tick' = Idle /\ backoff' = Fresh /\ blocked' = FALSE
    /\ known' = IF Readable THEN opened ELSE {}
    /\ UNCHANGED <<world, opened>>

TickSteps == Attaches \/ AttachIsCut \/ Acts \/ Records

Next ==
    \/ TickBegins \/ TickSteps
    \/ WorldMoves \/ Persists \/ BackoffEnds
    \/ PersonMoves \/ Restarts

Spec == Init /\ [][Next]_vars

\* The scheduler runs the job again and again, and the event loop resumes it; the clock runs.
Fairness ==
    /\ WF_vars(TickBegins) /\ WF_vars(TickSteps)
    /\ WF_vars(Persists) /\ WF_vars(BackoffEnds)
FairSpec == Spec /\ Fairness

\* The core is not restarted for ever.
StaysUp == <>[][~Restarts]_vars

-----------------------------------------------------------------------------
(* Properties.                                                             *)

\* A critical fault that lasts ends in a halt, however often the terminal hangs under the
\* supervisor, and whatever mode a person keeps climbing to (mission 26, _act).
CriticalEndsInHalt ==
    StaysUp => []<>(mode = "HALTED") \/ []<>("stray position" \notin world)

\* The supervisor never gives autonomy back: whatever became of the mode while a tick was
\* suspended, the tick leaves a halt alone and otherwise only brings the mode down.
TickOnlyLowers ==
    [][(TickBegins \/ TickSteps) => Rank(mode') <= Rank(mode)]_vars

\* No incident stays open for ever after its fault: over restarts, outages and cut ticks,
\* what was opened is resolved once the fault is gone and the database answers.
IncidentsAreResolved == StaysUp /\ <>[](world = {}) => <>[](opened = {})
=============================================================================
