------------------------------- MODULE Terminal -------------------------------
(***************************************************************************)
(* The way to one terminal: the client (infrastructure/mt5/client.py), its  *)
(* transport (transport.py), which runs one call at a time against a worker *)
(* process, and the worker (worker.py, protocol.py). Several tasks share a   *)
(* client: the poll of the positions, the market feed, the account service. *)
(* A call that does not answer, or is cut, ends its worker; the next call   *)
(* starts a fresh one, which is attached to no terminal.                    *)
(*                                                                         *)
(* The account holds an open position throughout: a true list is not empty. *)
(***************************************************************************)
EXTENDS Naturals, Sequences, FiniteSets

CONSTANTS
    Callers,         \* the tasks
    MaxWorkers,      \* bound: how many workers are started
    TerminalFaults   \* "hang": a native call blocks; "crash": a worker dies; "cut": a task is cancelled ("cut-close": in
                     \* close); "raise": the package raises; "refuse": initialize or login fails; "spawn": no process can be started;
                     \* "undying": a worker outlives its kill

TerminalAssumption == MaxWorkers \in Nat

VARIABLES
    worker,     \* each worker: its process, and whether it has initialised the package
    process,    \* SubprocessTransport._process; 0: None
    lock,       \* the task that is inside a call
    client,     \* "new", "held" by a session, or "apart": attaching, refused or detached
    reaping,    \* the workers a thread is ending
    once,       \* WorkerLedger._ended_once
    ended,      \* WorkerLedger.ended
    caller      \* what each task does

terminalVars == <<worker, process, lock, client, reaping, once, ended, caller>>

Workers == 1 .. MaxWorkers
NoTask == "none"
TerminalFault(kind) == kind \in TerminalFaults
Up(w) == w \in Workers /\ worker[w].life \in {"up", "hung"}
Spawned == Cardinality({w \in Workers : worker[w].life # "unborn"})

\* The calls of each job, in order. Every other reader does as "tick" or "poll".
Script ==
    [connect |-> <<"initialize", "account_info">>,
     poll    |-> <<"account_info", "positions_get">>,
     tick    |-> <<"symbol_info_tick">>,
     detach  |-> <<"shutdown", "close">>]
Resting == [job |-> "idle", left |-> <<>>, at |-> "rest", saw |-> "nothing"]

TerminalTypeOK ==
    /\ worker \in [Workers -> [life : {"unborn", "up", "hung", "gone"}, attached : BOOLEAN]]
    /\ process \in 0 .. MaxWorkers /\ lock \in Callers \cup {NoTask}
    /\ client \in {"new", "held", "apart"}
    /\ reaping \subseteq Workers /\ once \subseteq Workers /\ ended \in Nat
    /\ \A t \in Callers :
        /\ caller[t].job \in DOMAIN Script \cup {"idle"}
        /\ caller[t].at \in {"rest", "asks", "waits", "kills", "cut"}
        /\ caller[t].saw \in {"nothing", "list", "empty"}

Init ==
    /\ worker = [w \in Workers |-> [life |-> "unborn", attached |-> FALSE]]
    /\ process = 0 /\ lock = NoTask /\ client = "new"
    /\ reaping = {} /\ once = {} /\ ended = 0
    /\ caller = [t \in Callers |-> Resting]

-----------------------------------------------------------------------------
(* The ledger of the workers.                                              *)

\* Mutant: every path that reaches an ended worker counts it.
EndTwice(w) == ended' = ended + 1 /\ once' = once \cup {w}
\* WorkerLedger.end: a worker is ended once, however many paths reach it.
End(w) ==
    /\ ended' = IF w \in once THEN ended ELSE ended + 1
    /\ once' = once \cup {w}

-----------------------------------------------------------------------------
(* The jobs.                                                               *)

Begins(t, job) ==
    /\ caller[t].job = "idle"
    /\ client = (IF job = "connect" THEN "new" ELSE "held")
    \* _drop forgets the session before it closes the client.
    /\ client' = IF job \in {"connect", "detach"} THEN "apart" ELSE client
    /\ caller' = [caller EXCEPT ![t] = [Resting EXCEPT !.job = job, !.left = Script[job], !.at = "asks"]]
    /\ UNCHANGED <<worker, process, lock, reaping, once, ended>>

\* What a task makes of a call that failed. A failed attempt is shut down and closed (connect of the client, then of the
\* service); a raised call escapes both but for initialize. A reader gives up, a shutdown goes on.
AfterFailure(t, raised) ==
    LET job == caller[t].job
        fn  == Head(caller[t].left)
    IN  CASE job = "connect" /\ (~raised \/ fn = "initialize") ->
                [caller[t] EXCEPT !.job = "detach", !.left = <<"shutdown", "shutdown", "close">>, !.at = "asks"]
          [] job = "detach" /\ Len(caller[t].left) > 1 ->
                [caller[t] EXCEPT !.left = Tail(@), !.at = "asks"]
          [] OTHER -> Resting

\* What a task makes of an answer.
AfterAnswer(t) ==
    LET left == Tail(caller[t].left)
    IN  IF left = <<>> THEN Resting ELSE [caller[t] EXCEPT !.left = left, !.at = "asks"]

Returns(t, next) == caller' = [caller EXCEPT ![t] = next] /\ lock' = NoTask

-----------------------------------------------------------------------------
(* SubprocessTransport.call and close.                                     *)

Asks(t) == caller[t].at = "asks" /\ lock = NoTask

\* A worker is never started only to be closed; close ends what is left of a dead one.
NothingToClose(t) ==
    /\ Asks(t) /\ Head(caller[t].left) \in {"shutdown", "close"} /\ ~Up(process)
    /\ IF Head(caller[t].left) = "close" /\ process # 0
         THEN End(process) /\ process' = 0
         ELSE UNCHANGED <<once, ended, process>>
    /\ Returns(t, AfterAnswer(t))
    /\ UNCHANGED <<worker, client, reaping>>

\* The worker that runs is asked ...
Sends(t) ==
    /\ Asks(t) /\ Up(process)
    /\ lock' = t /\ caller' = [caller EXCEPT ![t].at = "waits"]
    /\ UNCHANGED <<worker, process, client, reaping, once, ended>>

\* ... a dead one is reaped and replaced (_ensure) ...
Starts(t) ==
    /\ Asks(t) /\ Head(caller[t].left) \notin {"shutdown", "close"} /\ ~Up(process)
    /\ Spawned < MaxWorkers
    /\ IF process # 0 THEN End(process) ELSE UNCHANGED <<once, ended>>
    /\ LET w == Spawned + 1 IN
        /\ worker' = [worker EXCEPT ![w] = [life |-> "up", attached |-> FALSE]]
        /\ process' = w
    /\ lock' = t /\ caller' = [caller EXCEPT ![t].at = "waits"]
    /\ UNCHANGED <<client, reaping>>

\* ... or cannot be: the dead one stays, and will be reaped again.
CannotStart(t) ==
    /\ TerminalFault("spawn")
    /\ Asks(t) /\ Head(caller[t].left) \notin {"shutdown", "close"} /\ ~Up(process)
    /\ IF process # 0 THEN End(process) ELSE UNCHANGED <<once, ended>>
    /\ Returns(t, AfterFailure(t, FALSE))
    /\ UNCHANGED <<worker, process, client, reaping>>

Waits(t, fn) == caller[t].at = "waits" /\ Head(caller[t].left) = fn
Answering == Up(process) /\ worker[process].life = "up"

\* connect: initialize, and login where the terminal is on another account.
Initialises(t) ==
    /\ Waits(t, "initialize") /\ Answering
    /\ \/ worker' = [worker EXCEPT ![process].attached = TRUE] /\ Returns(t, AfterAnswer(t))
       \/ TerminalFault("refuse") /\ Returns(t, AfterFailure(t, FALSE)) /\ UNCHANGED worker
    /\ UNCHANGED <<process, client, reaping, once, ended>>

\* account_info: an unattached worker answers None, which is refused. It verifies a connection.
ReadsAccount(t) ==
    /\ Waits(t, "account_info") /\ Answering
    /\ \E ok \in {worker[process].attached} \cup (IF TerminalFault("refuse") THEN {FALSE} ELSE {}) :
        /\ Returns(t, IF ok THEN AfterAnswer(t) ELSE AfterFailure(t, FALSE))
        /\ client' = IF ok /\ caller[t].job = "connect" THEN "held" ELSE client
    /\ UNCHANGED <<worker, process, reaping, once, ended>>

\* positions: an unattached worker answers None, which is read as the empty list.
ReadsPositions(t) ==
    /\ Waits(t, "positions_get") /\ Answering
    /\ Returns(t, [Resting EXCEPT !.saw = IF worker[process].attached THEN "list" ELSE "empty"])
    /\ UNCHANGED <<worker, process, client, reaping, once, ended>>

ReadsTick(t) ==
    /\ Waits(t, "symbol_info_tick") /\ Answering
    /\ Returns(t, AfterAnswer(t))
    /\ UNCHANGED <<worker, process, client, reaping, once, ended>>

\* The worker's serve ends with a shutdown it has answered; dispatch has detached it.
ShutsDown(t) ==
    /\ Waits(t, "shutdown") /\ Answering
    /\ worker' = [worker EXCEPT ![process] = [life |-> "gone", attached |-> FALSE]]
    /\ Returns(t, AfterAnswer(t))
    /\ UNCHANGED <<process, client, reaping, once, ended>>

\* dispatch: the package raised, WorkerError.
Raises(t) ==
    /\ TerminalFault("raise")
    /\ caller[t].at = "waits" /\ Answering /\ Head(caller[t].left) # "close"
    /\ Returns(t, AfterFailure(t, TRUE))
    /\ UNCHANGED <<worker, process, client, reaping, once, ended>>

\* Mutant: a call that timed out leaves its worker where it is.
KillsLater(t, at) ==
    /\ caller' = [caller EXCEPT ![t].at = at]
    /\ UNCHANGED <<process, reaping>>
\* _kill: the transport lets go of the worker, and a thread ends it.
Kills(t, at) ==
    /\ caller' = [caller EXCEPT ![t].at = at]
    /\ process' = 0
    /\ reaping' = reaping \cup ({process} \ {0})

\* The answer did not come in time, or the worker closed its output; close waits two seconds at most.
GivesUp(t) ==
    /\ caller[t].at = "waits" /\ (~Answering \/ Head(caller[t].left) = "close")
    /\ Kills(t, "kills")
    /\ UNCHANGED <<worker, lock, client, once, ended>>

\* An attempt that is cut is closed by the account service; another job that is cut is over.
AfterCut(t) ==
    IF caller[t].job = "connect" THEN [caller[t] EXCEPT !.job = "detach", !.left = Script.detach, !.at = "asks"]
    ELSE Resting

\* The kill is over, or takes longer than its patience.
GoesOn(t) ==
    /\ caller[t].at \in {"kills", "cut"}
    /\ Returns(t, IF caller[t].at = "cut" THEN AfterCut(t)
                  ELSE IF Head(caller[t].left) = "close" THEN AfterAnswer(t)
                  ELSE AfterFailure(t, FALSE))
    /\ UNCHANGED <<worker, process, client, reaping, once, ended>>

\* The task is cancelled inside a call: its worker ends with it ...
CutInCall(t) ==
    /\ TerminalFault("cut") /\ caller[t].at = "waits" /\ Head(caller[t].left) # "close"
    /\ Kills(t, "cut")
    /\ UNCHANGED <<worker, lock, client, once, ended>>

\* ... or while it waits for the lock or for the end of a worker, or in close, whose kill it then does not reach.
CutElsewhere(t) ==
    /\ \/ TerminalFault("cut") /\ caller[t].at \in {"asks", "kills", "cut"}
       \/ TerminalFault("cut-close") /\ caller[t].at = "waits" /\ Head(caller[t].left) = "close"
    /\ caller' = [caller EXCEPT ![t] = AfterCut(t)]
    /\ lock' = IF lock = t THEN NoTask ELSE lock
    /\ UNCHANGED <<worker, process, client, reaping, once, ended>>

\* _reap, in its thread.
Reaps(w) ==
    /\ w \in reaping
    /\ worker' = [worker EXCEPT ![w] = [life |-> "gone", attached |-> FALSE]]
    /\ reaping' = reaping \ {w}
    /\ End(w)
    /\ UNCHANGED <<process, lock, client, caller>>

\* A worker that could not be ended is not counted as ended: the ledger keeps showing it.
CannotReap(w) ==
    /\ TerminalFault("undying") /\ w \in reaping /\ Up(w)
    /\ reaping' = reaping \ {w}
    /\ UNCHANGED <<worker, process, lock, client, once, ended, caller>>

-----------------------------------------------------------------------------
(* The worker, outside the core.                                           *)

Hangs ==
    /\ TerminalFault("hang") /\ lock # NoTask /\ Answering
    /\ worker' = [worker EXCEPT ![process].life = "hung"]
    /\ UNCHANGED <<process, lock, client, reaping, once, ended, caller>>

Dies(w) ==
    /\ TerminalFault("crash") /\ Up(w)
    /\ worker' = [worker EXCEPT ![w] = [life |-> "gone", attached |-> FALSE]]
    /\ UNCHANGED <<process, lock, client, reaping, once, ended, caller>>

-----------------------------------------------------------------------------
Steps(t) ==
    \/ NothingToClose(t) \/ Sends(t) \/ Starts(t) \/ Initialises(t) \/ ReadsAccount(t) \/ ReadsPositions(t)
    \/ ReadsTick(t) \/ ShutsDown(t) \/ GivesUp(t) \/ GoesOn(t)

Next ==
    \/ \E t \in Callers :
        \/ \E job \in DOMAIN Script : Begins(t, job)
        \/ Steps(t) \/ CannotStart(t) \/ Raises(t) \/ CutInCall(t) \/ CutElsewhere(t)
    \/ \E w \in Workers : Reaps(w) \/ CannotReap(w) \/ Dies(w)
    \/ Hangs

Spec == Init /\ [][Next]_terminalVars

\* A call has a deadline and the lock is first come, first served: every task gets on with its call, and the thread of a
\* kill runs.
FairSpec ==
    /\ Spec
    /\ \A t \in Callers : SF_terminalVars(Steps(t))
    /\ \A w \in Workers : WF_terminalVars(Reaps(w))
-----------------------------------------------------------------------------
(* What the transport promises.                                            *)

\* The ledger never hides a worker: what it counts as alive is at least what runs, each worker was ended once, and the
\* difference is the workers nobody has ended yet - through crashes, timeouts, failed starts and kills that overlap.
LedgerIsTrue ==
    /\ ended = Cardinality(once)
    /\ \A w \in once : worker[w].life = "gone"
    /\ Spawned - ended >= Cardinality({w \in Workers : Up(w)})

\* A kill was tried and failed; the ledger still counts the worker as alive.
Undead(w) == Up(w) /\ process # w /\ w \notin reaping \cup once

\* A worker that is stuck in a native call is ended, whatever the tasks that share it do, unless its kill fails.
StuckEnds == \A w \in Workers : worker[w].life = "hung" ~> worker[w].life = "gone" \/ Undead(w)

\* "False when the terminal could not be read" (PositionService.poll): a poll that succeeded read the
\* terminal's own list. Between its calls another task's timeout replaces the worker.
PollsWhatIsThere == \A t \in Callers : caller[t].saw # "empty"
=============================================================================
