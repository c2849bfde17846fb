------------------------------ MODULE Accounts ------------------------------
(***************************************************************************)
(* The account service (services/accounts.py): one terminal connection at a *)
(* time, the lock its gestures hold across their awaits, and what they tell *)
(* the rest of the core, which keeps per-account caches (engine.py) and the *)
(* accounts to bring back (supervisor.py).                                  *)
(*                                                                         *)
(* An action is what a task does between two awaits.  Some of a gesture     *)
(* runs after the lock is released: see Announces.                          *)
(***************************************************************************)
EXTENDS FiniteSets, Naturals

CONSTANTS
    AccountIds,
    Users,          \* tasks of API requests
    Reviver,        \* the supervisor's job, which re-attaches
    AccountFaults   \* "terminal", "cut" while attaching, "cut closing", "cut erring", "worker"

Nobody == "nobody"
NoAccount == "no account"

AccountsAssumption ==
    Reviver \notin Users /\ Nobody \notin Users \cup {Reviver} /\ NoAccount \notin AccountIds

VARIABLES
    row,         \* what the table says of each account: absent, listed, archived
    sessions,    \* _sessions
    connecting,  \* _connecting
    failed,      \* _errors
    active,      \* active_account_id
    lock,        \* who holds _lock
    task,        \* what each task does, and to which account
    orphans,     \* clients (and their workers) that nobody will close
    wanted,      \* the supervisor's _state.wanted
    warm         \* accounts with cached positions, quotes, risk status

links == <<sessions, connecting, failed, orphans>>
vars == <<row, links, active, lock, task, wanted, warm>>

Tasks == Users \cup {Reviver}
Fault(kind) == kind \in AccountFaults
Pcs == {"connect", "attaching", "erring", "announcing", "disconnect", "guarded", "closing",
        "reconnect", "reclosing", "activate", "switching", "archiving", "withdrawing",
        "discover", "probing"}

AccountsTypeOK ==
    /\ sessions \subseteq AccountIds /\ connecting \subseteq AccountIds
    /\ failed \subseteq AccountIds /\ orphans \subseteq AccountIds
    /\ row \in [AccountIds -> {"absent", "listed", "archived"}]
    /\ wanted \subseteq AccountIds /\ warm \subseteq AccountIds
    /\ active \in AccountIds \cup {NoAccount}
    /\ lock \in Tasks \cup {Nobody}
    /\ task \in [Tasks -> [pc : Pcs, id : AccountIds] \cup {[pc |-> "idle", id |-> NoAccount]}]

Resting == [pc |-> "idle", id |-> NoAccount]
Init ==
    /\ row = [a \in AccountIds |-> "absent"]
    /\ sessions = {} /\ connecting = {} /\ failed = {} /\ orphans = {}
    /\ active = NoAccount /\ lock = Nobody
    /\ task = [t \in Tasks |-> Resting]
    /\ wanted = {} /\ warm = {}

At(t, pc) == task[t].pc = pc
Goes(t, pc) == task' = [task EXCEPT ![t].pc = pc]
Ends(t) == task' = [task EXCEPT ![t] = Resting]
Takes(t) == lock = Nobody /\ lock' = t
Frees(t) == lock = t /\ lock' = Nobody
Through == lock = Nobody /\ UNCHANGED lock    \* taken and released with no await between

-----------------------------------------------------------------------------
(* The registry.                                                           *)

Creates(a) ==
    /\ row[a] = "absent"
    /\ row' = [row EXCEPT ![a] = "listed"]
    /\ UNCHANGED <<links, active, lock, task, wanted, warm>>

\* archive takes no lock: the check, then the write, then the active account.
ArchiveChecks(t) ==
    /\ At(t, "archiving")
    /\ IF task[t].id \in sessions THEN Ends(t) ELSE Goes(t, "withdrawing")
    /\ UNCHANGED <<row, links, active, lock, wanted, warm>>

Archives(t) ==
    LET a == task[t].id
    IN  /\ At(t, "withdrawing")
        /\ IF row[a] = "listed"
           THEN /\ row' = [row EXCEPT ![a] = "archived"]
                /\ active' = IF active = a THEN NoAccount ELSE active
           ELSE UNCHANGED <<row, active>>
        /\ Ends(t)
        /\ UNCHANGED <<links, lock, wanted, warm>>

-----------------------------------------------------------------------------
(* Connecting.                                                             *)

Gestures == {"connect", "disconnect", "reconnect", "activate", "archiving", "discover"}
Asks(t, gesture, a) ==
    /\ At(t, "idle")
    /\ t = Reviver => gesture \in {"connect", "reconnect"}
    /\ t = Reviver => /\ a \in wanted
                      /\ (gesture = "reconnect") <=> (a \in sessions)
    /\ task' = [task EXCEPT ![t] = [pc |-> gesture, id |-> a]]
    /\ UNCHANGED <<row, links, active, lock, wanted, warm>>

NoneConnectedBut(a) == sessions \subseteq {a}

\* Mutant: the other accounts are not looked at.
MayAttachAnyway(a) == row[a] = "listed" /\ a \notin sessions
MayAttach(a) == row[a] = "listed" /\ a \notin sessions /\ NoneConnectedBut(a)

\* Refused, or already connected: nothing happens.
ConnectIsRefused(t) ==
    /\ At(t, "connect") /\ ~MayAttach(task[t].id)
    /\ Through /\ Ends(t)
    /\ UNCHANGED <<row, links, active, wanted, warm>>

ConnectBegins(t) ==
    /\ At(t, "connect") /\ MayAttach(task[t].id)
    /\ Takes(t) /\ Goes(t, "attaching")
    /\ connecting' = connecting \cup {task[t].id}
    /\ UNCHANGED <<row, sessions, failed, orphans, active, wanted, warm>>

Attaches(t) ==
    LET a == task[t].id
    IN  /\ At(t, "attaching")
        /\ Frees(t) /\ Goes(t, "announcing")
        /\ connecting' = connecting \ {a} /\ failed' = failed \ {a}
        /\ sessions' = sessions \cup {a}
        /\ UNCHANGED <<row, orphans, active, wanted, warm>>

\* After the lock: the event, which makes the account wanted, then the active account.
Announces(t) ==
    LET a == task[t].id
    IN  /\ At(t, "announcing")
        /\ wanted' = wanted \cup {a}
        /\ active' = a
        /\ Ends(t)
        /\ UNCHANGED <<row, links, lock, warm>>

\* The terminal refuses: the error is published, then the client is closed.
AttachFails(t) ==
    LET a == task[t].id
    IN  /\ Fault("terminal") /\ At(t, "attaching")
        /\ Goes(t, "erring")
        /\ connecting' = connecting \ {a} /\ failed' = failed \cup {a}
        /\ UNCHANGED <<row, sessions, orphans, active, lock, wanted, warm>>

Errs(t) ==
    /\ At(t, "erring")
    /\ Frees(t) /\ Ends(t)
    /\ UNCHANGED <<row, links, active, wanted, warm>>

\* The job's deadline: "an attempt that is abandoned leaves nothing behind".
AttachIsCut(t) ==
    /\ Fault("cut") /\ t = Reviver /\ At(t, "attaching")
    /\ Frees(t) /\ Ends(t)
    /\ connecting' = connecting \ {task[t].id}
    /\ UNCHANGED <<row, sessions, failed, orphans, active, wanted, warm>>

\* The worker's own error is not one of those the attempt handles.
AttachBreaks(t) ==
    /\ Fault("worker") /\ At(t, "attaching")
    /\ Frees(t) /\ Ends(t)
    /\ orphans' = orphans \cup {task[t].id}
    /\ UNCHANGED <<row, sessions, connecting, failed, active, wanted, warm>>

\* The deadline falls while the error is being published: the client is not closed.
ErringIsCut(t) ==
    /\ Fault("cut erring") /\ t = Reviver /\ At(t, "erring")
    /\ Frees(t) /\ Ends(t)
    /\ orphans' = orphans \cup {task[t].id}
    /\ UNCHANGED <<row, sessions, connecting, failed, active, wanted, warm>>

-----------------------------------------------------------------------------
(* Disconnecting.                                                          *)

Closable(a) == a \in sessions /\ row[a] = "listed"

\* Nothing to close: the account is returned as it is, or refused because it is archived.
DisconnectFindsNothing(t) ==
    /\ At(t, "disconnect") /\ ~Closable(task[t].id)
    /\ Through /\ Ends(t)
    /\ UNCHANGED <<row, links, active, wanted, warm>>

\* The guards read positions, orders and commands in doubt; force skips them.
DisconnectBegins(t) ==
    /\ At(t, "disconnect") /\ Closable(task[t].id)
    /\ Takes(t)
    /\ \/ Goes(t, "guarded") /\ UNCHANGED sessions
       \/ Goes(t, "closing") /\ sessions' = sessions \ {task[t].id}
    /\ UNCHANGED <<row, connecting, failed, orphans, active, wanted, warm>>

\* Refused while the account has exposure or a command in doubt.
GuardsAnswer(t) ==
    /\ At(t, "guarded")
    /\ \/ Frees(t) /\ Ends(t) /\ UNCHANGED sessions
       \/ /\ Goes(t, "closing") /\ UNCHANGED lock
          /\ sessions' = sessions \ {task[t].id}
    /\ UNCHANGED <<row, connecting, failed, orphans, active, wanted, warm>>

\* _forget_account, on the event.
Forgets(a) == warm' = warm \ {a}

\* The client is closed, then the event: the caches go, and a user's account is not wanted.
Closes(t) ==
    LET a == task[t].id
    IN  /\ At(t, "closing")
        /\ Forgets(a) /\ wanted' = wanted \ {a}
        /\ Frees(t) /\ Ends(t)
        /\ UNCHANGED <<row, links, active>>

ReconnectBegins(t) ==
    /\ At(t, "reconnect")
    /\ CASE Closable(task[t].id) ->
              /\ Takes(t) /\ Goes(t, "reclosing")
              /\ sessions' = sessions \ {task[t].id}
         [] task[t].id \notin sessions -> Goes(t, "connect") /\ UNCHANGED <<lock, sessions>>
         [] OTHER -> Through /\ Ends(t) /\ UNCHANGED sessions
    /\ UNCHANGED <<row, connecting, failed, orphans, active, wanted, warm>>

\* The lock is free between the two halves of a reconnection.
Recloses(t) ==
    /\ At(t, "reclosing")
    /\ Forgets(task[t].id)
    /\ Frees(t) /\ Goes(t, "connect")
    /\ UNCHANGED <<row, links, active, wanted>>

\* The deadline falls while the client is being closed: the event is never published.
ReclosingIsCut(t) ==
    /\ Fault("cut closing") /\ t = Reviver /\ At(t, "reclosing")
    /\ Frees(t) /\ Ends(t)
    /\ UNCHANGED <<row, links, active, wanted, warm>>

-----------------------------------------------------------------------------
(* The active account, and discovery.                                      *)

ActivateBegins(t) ==
    /\ At(t, "activate")
    /\ IF task[t].id \in sessions
       THEN Takes(t) /\ Goes(t, "switching")
       ELSE Through /\ Ends(t)
    /\ UNCHANGED <<row, links, active, wanted, warm>>

\* The guards of the account switched away from may refuse.
Switches(t) ==
    /\ At(t, "switching")
    /\ active' \in {active, task[t].id}
    /\ Frees(t) /\ Ends(t)
    /\ UNCHANGED <<row, links, wanted, warm>>

DiscoverBegins(t) ==
    /\ At(t, "discover")
    /\ IF sessions = {} THEN Takes(t) /\ Goes(t, "probing") ELSE Through /\ Ends(t)
    /\ UNCHANGED <<row, links, active, wanted, warm>>

\* Whatever the reading of the terminal ended in, the probe's client is closed.
Probes(t) ==
    /\ At(t, "probing")
    /\ Frees(t) /\ Ends(t)
    /\ UNCHANGED <<row, links, active, wanted, warm>>

\* A scheduler job reads a connected account.
Polls(a) ==
    /\ a \in sessions /\ a \notin warm
    /\ warm' = warm \cup {a}
    /\ UNCHANGED <<row, links, active, lock, task, wanted>>

Next ==
    \/ \E a \in AccountIds : Creates(a) \/ Polls(a)
    \/ \E t \in Tasks :
          \/ \E a \in AccountIds :
                \E gesture \in Gestures : Asks(t, gesture, a)
          \/ ConnectIsRefused(t) \/ ConnectBegins(t) \/ Attaches(t) \/ Announces(t)
          \/ AttachFails(t) \/ Errs(t) \/ AttachIsCut(t) \/ AttachBreaks(t) \/ ErringIsCut(t)
          \/ DisconnectFindsNothing(t) \/ DisconnectBegins(t) \/ GuardsAnswer(t) \/ Closes(t)
          \/ ReconnectBegins(t) \/ Recloses(t) \/ ReclosingIsCut(t)
          \/ ActivateBegins(t) \/ Switches(t) \/ DiscoverBegins(t) \/ Probes(t)
          \/ ArchiveChecks(t) \/ Archives(t)

Spec == Init /\ [][Next]_vars

-----------------------------------------------------------------------------
(* Properties.                                                             *)

\* One terminal at a time (ADR 0021), whatever gestures cross at their awaits, and however
\* they fail: an attempt being made is its lock holder's, nothing else is attached to the
\* terminal, and no gesture keeps the lock once it is over.
OneTerminal ==
    /\ Cardinality(sessions) <= 1
    /\ \A t \in Tasks : task[t].pc \in {"attaching", "probing"} => sessions = {} /\ lock = t
    /\ lock # Nobody => task[lock].pc # "idle"

\* "An attempt that is abandoned leaves nothing behind" (ADR 0037, accounts.py): no account
\* stuck connecting, no client that nobody closes, no cache that outlives its connection.
NothingLeftBehind ==
    /\ \A a \in connecting : lock # Nobody /\ task[lock] = [pc |-> "attaching", id |-> a]
    /\ orphans = {}
    /\ \A a \in warm : a \in sessions
          \/ \E t \in Tasks : lock = t /\ task[t].id = a /\ task[t].pc \in {"closing", "reclosing"}

\* "The accounts the user connected are wanted until the user disconnects them": when a
\* user's disconnection returns, the supervisor no longer brings the account back.
DisconnectedIsNotWanted ==
    [][\A t \in Users :
          (DisconnectFindsNothing(t) \/ Closes(t)) => task[t].id \notin wanted']_vars
=============================================================================
