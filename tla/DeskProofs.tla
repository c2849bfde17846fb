----------------------------- MODULE DeskProofs -----------------------------
(***************************************************************************)
(* The proofs of what the desk promises of its accounts, its setups and    *)
(* its stream, and of what it writes down: the trades, the rules, the      *)
(* reports of the reconciliation and of a close-all. Each section proves a *)
(* component for every value of its constants, from its specification as   *)
(* the desk instantiates it (A!Spec, Q!Spec, W!Spec, P!Spec, G!Spec,       *)
(* R!Spec, C!Spec): an invariant that is inductive, what it implies, and   *)
(* the lemma XIsSafe. The last section shows that every step of the desk   *)
(* is one of the component or leaves it alone, and draws the theorems.     *)
(***************************************************************************)
EXTENDS Desk, Sequences, FiniteSetTheorems, WellFoundedInduction, TLAPS

-----------------------------------------------------------------------------
(* The accounts (services/accounts.py).                                    *)

(* The inductive invariant. A task holds the lock exactly while it stands at one of these awaits:   *)
(* that is why nothing else can connect while an attempt is being made.                            *)
Locked == {"attaching", "erring", "guarded", "closing", "reclosing", "switching", "probing"}
LockIsHeld ==
    /\ \A t \in A!Tasks : accTask[t].pc \in Locked => lock = t
    /\ lock # A!Nobody => accTask[lock].pc \in Locked
AttemptsAreAlone == \A t \in A!Tasks : accTask[t].pc \in {"attaching", "probing"} => sessions = {}
OneSession == sessions = {} \/ \E a \in AccountIds : sessions = {a}

AccountsInv ==
    /\ A!AccountsTypeOK
    /\ LockIsHeld /\ AttemptsAreAlone /\ OneSession

(* A task is at rest, or at an await of a gesture on an account.              *)
TaskRecords == [pc : A!Pcs, id : AccountIds] \cup {A!Resting}

(* A task that is not at rest has an account.                                 *)
LEMMA TasksTyped ==
    ASSUME AccountsInv, NEW t \in A!Tasks, accTask[t].pc # "idle"
    PROVE  accTask[t].pc \in A!Pcs /\ accTask[t].id \in AccountIds /\ accTask[t] \in [pc : A!Pcs, id : AccountIds]
BY DEF AccountsInv, A!AccountsTypeOK, A!Resting

LEMMA NobodyIsNoTask ==
    ASSUME A!AccountsAssumption
    PROVE  A!Nobody \notin A!Tasks
BY DEF A!AccountsAssumption, A!Tasks

(* Cardinality, in that module and in this one. *)
LEMMA AccountsCount == \A S : A!Cardinality(S) = Cardinality(S)
BY DEF A!Cardinality, Cardinality

(* One session, in the words of the count.                                     *)
LEMMA InvImpliesPromise ==
    ASSUME A!AccountsAssumption, AccountsInv
    PROVE  A!OneTerminal
<1>1. Cardinality(sessions) <= 1
  <2>1. CASE sessions = {}
    BY <2>1, FS_EmptySet
  <2>2. ASSUME NEW a \in AccountIds, sessions = {a} PROVE Cardinality(sessions) <= 1
    BY <2>2, FS_Singleton
  <2> QED  BY <2>1, <2>2 DEF AccountsInv, OneSession
<1>2. \A t \in A!Tasks : accTask[t].pc \in {"attaching", "probing"} => sessions = {} /\ lock = t
  BY DEF AccountsInv, AttemptsAreAlone, LockIsHeld, Locked
<1>3. lock # A!Nobody => accTask[lock].pc # "idle"
  BY DEF AccountsInv, LockIsHeld, Locked
<1> QED  BY <1>1, <1>2, <1>3, AccountsCount DEF A!OneTerminal

(* No session, no task, no lock.                                              *)
LEMMA InitialAccounts ==
    ASSUME A!AccountsAssumption, A!Init
    PROVE  AccountsInv
<1>1. A!AccountsTypeOK
  BY DEF A!Init, A!AccountsTypeOK, A!Resting
<1>2. LockIsHeld /\ AttemptsAreAlone /\ OneSession
  BY DEF A!Init, LockIsHeld, AttemptsAreAlone, OneSession, Locked, A!Resting
<1> QED  BY <1>1, <1>2 DEF AccountsInv

-----------------------------------------------------------------------------
(* How a step may move the task that takes it: the three ways the lock meets a gesture. *)

(* The other tasks stay where they are.                                       *)
Moves(t, r) == accTask' = [accTask EXCEPT ![t] = r]

LEMMA MovesTyped ==
    ASSUME AccountsInv, NEW t \in A!Tasks, NEW r \in TaskRecords, Moves(t, r)
    PROVE  /\ accTask' \in [A!Tasks -> TaskRecords]
           /\ accTask'[t] = r /\ \A u \in A!Tasks \ {t} : accTask'[u] = accTask[u]
BY DEF AccountsInv, A!AccountsTypeOK, Moves, TaskRecords, A!Resting

(* The two ways the module writes such a move.                                *)
LEMMA GoesMoves ==
    ASSUME AccountsInv, NEW t \in A!Tasks, NEW pc \in A!Pcs, accTask[t].pc # "idle", A!Goes(t, pc)
    PROVE  Moves(t, [pc |-> pc, id |-> accTask[t].id]) /\ [pc |-> pc, id |-> accTask[t].id] \in TaskRecords
<1>1. accTask[t] \in [pc : A!Pcs, id : AccountIds]
  BY TasksTyped
<1>2. [accTask[t] EXCEPT !.pc = pc] = [pc |-> pc, id |-> accTask[t].id]
  BY <1>1
<1> QED  BY <1>1, <1>2 DEF A!Goes, Moves, TaskRecords

LEMMA EndsMoves ==
    ASSUME NEW t \in A!Tasks, A!Ends(t)
    PROVE  Moves(t, A!Resting) /\ A!Resting \in TaskRecords
BY DEF A!Ends, Moves, TaskRecords

(* A task that takes the lock, keeps it, or gives it back, with the sessions it leaves. *)
LEMMA TakingKeeps ==
    ASSUME A!AccountsAssumption, AccountsInv, NEW t \in A!Tasks, NEW r \in TaskRecords, Moves(t, r),
           A!Takes(t), r.pc \in Locked, sessions' \subseteq sessions,
           r.pc \in {"attaching", "probing"} => sessions' = {}
    PROVE  (LockIsHeld /\ AttemptsAreAlone /\ OneSession)'
<1>1. accTask'[t] = r /\ \A u \in A!Tasks \ {t} : accTask'[u] = accTask[u]
  BY MovesTyped
<1>2. lock = A!Nobody /\ lock' = t /\ \A u \in A!Tasks : accTask[u].pc \notin Locked
  BY NobodyIsNoTask DEF A!Takes, AccountsInv, LockIsHeld
<1>3. LockIsHeld'
  BY <1>1, <1>2, NobodyIsNoTask DEF LockIsHeld
<1>4. AttemptsAreAlone'
  BY <1>1, <1>2 DEF AttemptsAreAlone, Locked
<1>5. OneSession'
  BY DEF AccountsInv, OneSession
<1> QED  BY <1>3, <1>4, <1>5

LEMMA KeepingKeeps ==
    ASSUME A!AccountsAssumption, AccountsInv, NEW t \in A!Tasks, NEW r \in TaskRecords, Moves(t, r),
           UNCHANGED lock, accTask[t].pc \in Locked, r.pc \in Locked \ {"attaching", "probing"},
           sessions' \subseteq sessions
    PROVE  (LockIsHeld /\ AttemptsAreAlone /\ OneSession)'
<1>1. accTask'[t] = r /\ \A u \in A!Tasks \ {t} : accTask'[u] = accTask[u]
  BY MovesTyped
<1>2. lock = t /\ lock' = t
  BY DEF AccountsInv, LockIsHeld
<1>3. LockIsHeld'
  BY <1>1, <1>2 DEF AccountsInv, LockIsHeld
<1>4. AttemptsAreAlone'
  BY <1>1 DEF AccountsInv, AttemptsAreAlone
<1>5. OneSession'
  BY DEF AccountsInv, OneSession
<1> QED  BY <1>3, <1>4, <1>5

LEMMA FreeingKeeps ==
    ASSUME A!AccountsAssumption, AccountsInv, NEW t \in A!Tasks, NEW r \in TaskRecords, Moves(t, r),
           A!Frees(t), r.pc \notin Locked, OneSession'
    PROVE  (LockIsHeld /\ AttemptsAreAlone /\ OneSession)'
<1>1. accTask'[t] = r /\ \A u \in A!Tasks \ {t} : accTask'[u] = accTask[u]
  BY MovesTyped
<1>2. lock = t /\ lock' = A!Nobody
  BY DEF A!Frees
<1>3. \A u \in A!Tasks : accTask'[u].pc \notin Locked
  BY <1>1, <1>2 DEF AccountsInv, LockIsHeld
<1>4. LockIsHeld'
  BY <1>2, <1>3 DEF LockIsHeld
<1>5. AttemptsAreAlone'
  BY <1>3 DEF AttemptsAreAlone, Locked
<1> QED  BY <1>4, <1>5

LEMMA OutsideKeeps ==
    ASSUME A!AccountsAssumption, AccountsInv, NEW t \in A!Tasks, NEW r \in TaskRecords, Moves(t, r),
           UNCHANGED <<lock, sessions>>, accTask[t].pc \notin Locked, r.pc \notin Locked
    PROVE  (LockIsHeld /\ AttemptsAreAlone /\ OneSession)'
<1>1. accTask'[t] = r /\ \A u \in A!Tasks \ {t} : accTask'[u] = accTask[u]
  BY MovesTyped
<1>2. LockIsHeld'
  <2>1. lock \in A!Tasks \cup {A!Nobody} /\ lock # t
    BY DEF AccountsInv, A!AccountsTypeOK, LockIsHeld, A!AccountsAssumption, A!Tasks
  <2> QED  BY <1>1, <2>1 DEF AccountsInv, LockIsHeld
<1>3. AttemptsAreAlone'
  BY <1>1 DEF AccountsInv, AttemptsAreAlone, Locked
<1>4. OneSession'
  BY DEF AccountsInv, OneSession
<1> QED  BY <1>2, <1>3, <1>4

(* The types of everything but the tasks.                                     *)
RegistryTyped ==
    /\ sessions \subseteq AccountIds /\ connecting \subseteq AccountIds
    /\ failed \subseteq AccountIds /\ orphans \subseteq AccountIds
    /\ accRow \in [AccountIds -> {"absent", "listed", "archived"}]
    /\ wanted \subseteq AccountIds /\ warm \subseteq AccountIds
    /\ active \in AccountIds \cup {A!NoAccount}
    /\ lock \in A!Tasks \cup {A!Nobody}

(* A step is sound when it keeps the types and the three parts.               *)
LEMMA Together ==
    ASSUME A!AccountsAssumption, AccountsInv, NEW t \in A!Tasks, NEW r \in TaskRecords, Moves(t, r), RegistryTyped',
           (LockIsHeld /\ AttemptsAreAlone /\ OneSession)'
    PROVE  AccountsInv'
<1>1. accTask' \in [A!Tasks -> TaskRecords]
  BY MovesTyped
<1>2. A!AccountsTypeOK'
  BY <1>1 DEF A!AccountsTypeOK, RegistryTyped, TaskRecords, A!Resting
<1> QED  BY <1>2 DEF AccountsInv

-----------------------------------------------------------------------------
(* Each gesture, in the order of the module.                                  *)

(* Archiving takes no lock and touches no session.                            *)
LEMMA ArchivingKeeps ==
    ASSUME A!AccountsAssumption, AccountsInv, NEW t \in A!Tasks, A!ArchiveChecks(t) \/ A!Archives(t)
    PROVE  AccountsInv'
<1> DEFINE withdrawing == [pc |-> "withdrawing", id |-> accTask[t].id]
<1>1. PICK r \in {withdrawing, A!Resting} : Moves(t, r) /\ r \in TaskRecords
  <2>1. CASE A!ArchiveChecks(t)
    BY <2>1, GoesMoves, EndsMoves DEF A!ArchiveChecks, A!At, A!Pcs
  <2>2. CASE A!Archives(t)
    BY <2>2, EndsMoves DEF A!Archives
  <2> QED  BY <2>1, <2>2
<1>2. r.pc \notin Locked /\ accTask[t].pc \notin Locked
  BY <1>1 DEF A!ArchiveChecks, A!Archives, A!At, Locked, A!Resting
<1>3. UNCHANGED <<lock, sessions>>
  BY DEF A!ArchiveChecks, A!Archives, A!links
<1>4. RegistryTyped'
  BY DEF A!ArchiveChecks, A!Archives, A!links, AccountsInv, A!AccountsTypeOK, RegistryTyped
<1> QED  BY <1>1, <1>2, <1>3, <1>4, OutsideKeeps, Together

(* Asking only starts a gesture: the lock is taken later.                      *)
LEMMA AskingKeeps ==
    ASSUME A!AccountsAssumption, AccountsInv, NEW t \in A!Tasks, NEW a \in AccountIds, NEW gesture \in A!Gestures,
           A!Asks(t, gesture, a)
    PROVE  AccountsInv'
<1> DEFINE r == [pc |-> gesture, id |-> a]
<1>1. Moves(t, r) /\ r \in TaskRecords /\ r.pc \notin Locked
  BY DEF A!Asks, Moves, TaskRecords, A!Gestures, A!Pcs, Locked
<1>2. accTask[t].pc \notin Locked /\ UNCHANGED <<lock, sessions>>
  BY DEF A!Asks, A!At, Locked, A!links
<1>3. RegistryTyped'
  BY DEF A!Asks, A!links, AccountsInv, A!AccountsTypeOK, RegistryTyped
<1> HIDE DEF r
<1> QED  BY <1>1, <1>2, <1>3, OutsideKeeps, Together

(* What is refused, found already done, or announced after the lock: the session stays. *)
OutsideTheLock(t) ==
    A!ConnectIsRefused(t) \/ A!DisconnectFindsNothing(t) \/ A!Announces(t)
LEMMA OutsideTheLockKeeps ==
    ASSUME A!AccountsAssumption, AccountsInv, NEW t \in A!Tasks, OutsideTheLock(t)
    PROVE  AccountsInv'
<1>1. Moves(t, A!Resting) /\ A!Resting \in TaskRecords /\ A!Resting.pc \notin Locked
  BY EndsMoves DEF OutsideTheLock, A!ConnectIsRefused, A!DisconnectFindsNothing, A!Announces, A!Resting, Locked
<1>2. accTask[t].pc \in {"connect", "disconnect", "announcing"} /\ UNCHANGED <<lock, sessions>>
  BY DEF OutsideTheLock, A!ConnectIsRefused, A!DisconnectFindsNothing, A!Announces, A!At, A!Through, A!links
<1>3. accTask[t].id \in AccountIds
  BY <1>2, TasksTyped
<1>4. RegistryTyped'
  BY <1>2, <1>3 DEF OutsideTheLock, A!ConnectIsRefused, A!DisconnectFindsNothing, A!Announces, A!links, AccountsInv, A!AccountsTypeOK,
                    RegistryTyped
<1> QED  BY <1>1, <1>2, <1>4, OutsideKeeps, Together DEF Locked

(* An attempt begins only when nothing is attached: MayAttach, read and acted on with no await between. *)
LEMMA ConnectBeginsKeeps ==
    ASSUME A!AccountsAssumption, AccountsInv, NEW t \in A!Tasks, A!ConnectBegins(t)
    PROVE  AccountsInv'
<1> DEFINE r == [pc |-> "attaching", id |-> accTask[t].id]
<1>1. Moves(t, r) /\ r \in TaskRecords
  BY GoesMoves DEF A!ConnectBegins, A!At, A!Pcs
<1>2. sessions = {} /\ sessions' = {}
  BY DEF A!ConnectBegins, A!MayAttach, A!NoneConnectedBut
<1>3. A!Takes(t) /\ r.pc \in Locked
  BY DEF A!ConnectBegins, Locked
<1>4. accTask[t].id \in AccountIds
  BY TasksTyped DEF A!ConnectBegins, A!At
<1>5. RegistryTyped'
  BY <1>4 DEF A!ConnectBegins, A!Takes, AccountsInv, A!AccountsTypeOK, RegistryTyped
<1> HIDE DEF r
<1> QED  BY <1>1, <1>2, <1>3, <1>5, TakingKeeps, Together

(* The attempt succeeds: the first session, since an attempt is alone.        *)
LEMMA AttachesKeeps ==
    ASSUME A!AccountsAssumption, AccountsInv, NEW t \in A!Tasks, A!Attaches(t)
    PROVE  AccountsInv'
<1> DEFINE r == [pc |-> "announcing", id |-> accTask[t].id]
<1>1. Moves(t, r) /\ r \in TaskRecords
  BY GoesMoves DEF A!Attaches, A!At, A!Pcs
<1>2. accTask[t].id \in AccountIds
  BY TasksTyped DEF A!Attaches, A!At
<1>3. sessions = {}
  BY DEF A!Attaches, A!At, AccountsInv, AttemptsAreAlone
<1>4. OneSession'
  BY <1>2, <1>3 DEF A!Attaches, OneSession
<1>5. A!Frees(t) /\ r.pc \notin Locked
  BY DEF A!Attaches, Locked
<1>6. RegistryTyped'
  BY <1>2 DEF A!Attaches, A!Frees, AccountsInv, A!AccountsTypeOK, RegistryTyped
<1> HIDE DEF r
<1> QED  BY <1>1, <1>4, <1>5, <1>6, FreeingKeeps, Together

(* It fails, is cut or breaks, or a gesture ends: the lock is freed and no session is added. *)
EndsUnderTheLock(t) ==
    \/ A!Errs(t) \/ A!AttachIsCut(t) \/ A!AttachBreaks(t) \/ A!ErringIsCut(t)
    \/ A!Closes(t) \/ A!ReclosingIsCut(t) \/ A!Switches(t) \/ A!Probes(t)
LEMMA EndsUnderTheLockKeeps ==
    ASSUME A!AccountsAssumption, AccountsInv, NEW t \in A!Tasks, EndsUnderTheLock(t)
    PROVE  AccountsInv'
<1>1. /\ Moves(t, A!Resting) /\ A!Resting \in TaskRecords /\ A!Resting.pc \notin Locked
      /\ A!Frees(t) /\ sessions' = sessions
  BY EndsMoves DEF EndsUnderTheLock, A!Errs, A!AttachIsCut, A!AttachBreaks, A!ErringIsCut, A!Closes, A!ReclosingIsCut, A!Switches,
                   A!Probes, A!Resting, Locked, A!links
<1>2. accTask[t].pc # "idle"
  BY DEF EndsUnderTheLock, A!Errs, A!AttachIsCut, A!AttachBreaks, A!ErringIsCut, A!Closes, A!ReclosingIsCut, A!Switches, A!Probes, A!At
<1>3. accTask[t].id \in AccountIds
  BY <1>2, TasksTyped
<1>4. OneSession'
  BY <1>1 DEF AccountsInv, OneSession
<1>5. RegistryTyped'
  BY <1>1, <1>3 DEF EndsUnderTheLock, A!Errs, A!AttachIsCut, A!AttachBreaks, A!ErringIsCut, A!Closes, A!ReclosingIsCut, A!Switches,
                    A!Probes, A!Frees, A!Forgets, A!links, AccountsInv, A!AccountsTypeOK, RegistryTyped
<1> QED  BY <1>1, <1>4, <1>5, FreeingKeeps, Together

(* A refusal keeps the lock while the error is published.                     *)
LEMMA AttachFailsKeeps ==
    ASSUME A!AccountsAssumption, AccountsInv, NEW t \in A!Tasks, A!AttachFails(t)
    PROVE  AccountsInv'
<1> DEFINE r == [pc |-> "erring", id |-> accTask[t].id]
<1>1. Moves(t, r) /\ r \in TaskRecords
  BY GoesMoves DEF A!AttachFails, A!At, A!Pcs
<1>2. accTask[t].id \in AccountIds
  BY TasksTyped DEF A!AttachFails, A!At
<1>3. UNCHANGED lock /\ sessions' = sessions /\ accTask[t].pc \in Locked /\ r.pc \in Locked \ {"attaching", "probing"}
  BY DEF A!AttachFails, A!At, Locked
<1>4. RegistryTyped'
  BY <1>2 DEF A!AttachFails, AccountsInv, A!AccountsTypeOK, RegistryTyped
<1> HIDE DEF r
<1> QED  BY <1>1, <1>3, <1>4, KeepingKeeps, Together

(* A gesture that begins under the lock: it reads what it needs before any await, then waits there. *)
BeginsWith(t, pc) == A!Takes(t) /\ A!Goes(t, pc) /\ sessions' \subseteq sessions
LEMMA BeginningKeeps ==
    ASSUME A!AccountsAssumption, AccountsInv, NEW t \in A!Tasks, NEW pc \in Locked \ {"attaching"},
           accTask[t].pc # "idle", BeginsWith(t, pc), pc = "probing" => sessions = {},
           UNCHANGED <<accRow, connecting, failed, orphans, active, wanted, warm>>
    PROVE  AccountsInv'
<1> DEFINE r == [pc |-> pc, id |-> accTask[t].id]
<1>1. Moves(t, r) /\ r \in TaskRecords
  BY GoesMoves DEF BeginsWith, Locked, A!Pcs
<1>2. A!Takes(t) /\ r.pc \in Locked /\ sessions' \subseteq sessions
  BY DEF BeginsWith
<1>3. r.pc \in {"attaching", "probing"} => sessions' = {}
  BY <1>2
<1>4. RegistryTyped'
  BY <1>2 DEF A!Takes, AccountsInv, A!AccountsTypeOK, RegistryTyped
<1> HIDE DEF r
<1> QED  BY <1>1, <1>2, <1>3, <1>4, TakingKeeps, Together

(* Or that ends at once, the lock being free.                                 *)
LEMMA EndingAtOnceKeeps ==
    ASSUME A!AccountsAssumption, AccountsInv, NEW t \in A!Tasks, A!Through, A!Ends(t),
           UNCHANGED <<sessions, accRow, connecting, failed, orphans, active, wanted, warm>>
    PROVE  AccountsInv'
<1>1. Moves(t, A!Resting) /\ A!Resting \in TaskRecords /\ A!Resting.pc \notin Locked
  BY EndsMoves DEF A!Resting, Locked
<1>2. accTask[t].pc \notin Locked
  <2>1. A!Nobody \notin A!Tasks /\ lock = A!Nobody
    BY NobodyIsNoTask DEF A!Through
  <2> QED  BY <2>1 DEF AccountsInv, LockIsHeld
<1>3. RegistryTyped'
  BY DEF A!Through, AccountsInv, A!AccountsTypeOK, RegistryTyped
<1> QED  BY <1>1, <1>2, <1>3, OutsideKeeps, Together DEF A!Through

(* Disconnecting: the guards first, or the client at once when it is forced.   *)
LEMMA DisconnectBeginsKeeps ==
    ASSUME A!AccountsAssumption, AccountsInv, NEW t \in A!Tasks, A!DisconnectBegins(t)
    PROVE  AccountsInv'
<1>1. PICK pc \in {"guarded", "closing"} : BeginsWith(t, pc)
  BY DEF A!DisconnectBegins, BeginsWith
<1>2. accTask[t].pc # "idle" /\ UNCHANGED <<accRow, connecting, failed, orphans, active, wanted, warm>>
  BY DEF A!DisconnectBegins, A!At
<1>3. pc \in Locked \ {"attaching"} /\ pc # "probing"
  BY <1>1 DEF Locked
<1> QED  BY <1>1, <1>2, <1>3, BeginningKeeps

(* The guards refuse, and free the lock, or let the client be closed under it. *)
LEMMA GuardsAnswerKeeps ==
    ASSUME A!AccountsAssumption, AccountsInv, NEW t \in A!Tasks, A!GuardsAnswer(t)
    PROVE  AccountsInv'
<1> DEFINE r == [pc |-> "closing", id |-> accTask[t].id]
<1>1. CASE A!Frees(t) /\ A!Ends(t) /\ UNCHANGED sessions
  <2>1. Moves(t, A!Resting) /\ A!Resting \in TaskRecords /\ A!Resting.pc \notin Locked
    BY <1>1, EndsMoves DEF A!Resting, Locked
  <2>2. OneSession'
    BY <1>1 DEF AccountsInv, OneSession
  <2>3. RegistryTyped'
    BY <1>1 DEF A!GuardsAnswer, A!Frees, AccountsInv, A!AccountsTypeOK, RegistryTyped
  <2> QED  BY <1>1, <2>1, <2>2, <2>3, FreeingKeeps, Together
<1>2. CASE A!Goes(t, "closing") /\ UNCHANGED lock /\ sessions' = sessions \ {accTask[t].id}
  <2>1. Moves(t, r) /\ r \in TaskRecords
    BY <1>2, GoesMoves DEF A!GuardsAnswer, A!At, A!Pcs
  <2>2. accTask[t].pc \in Locked /\ r.pc \in Locked \ {"attaching", "probing"}
    BY DEF A!GuardsAnswer, A!At, Locked
  <2>3. RegistryTyped'
    BY <1>2 DEF A!GuardsAnswer, AccountsInv, A!AccountsTypeOK, RegistryTyped
  <2>4. sessions' \subseteq sessions
    BY <1>2
  <2> HIDE DEF r
  <2> QED  BY <1>2, <2>1, <2>2, <2>3, <2>4, KeepingKeeps, Together
<1> QED  BY <1>1, <1>2 DEF A!GuardsAnswer

(* Reconnecting: the lock is taken to close, and free before the connection that follows. *)
LEMMA ReconnectBeginsKeeps ==
    ASSUME A!AccountsAssumption, AccountsInv, NEW t \in A!Tasks, A!ReconnectBegins(t)
    PROVE  AccountsInv'
<1> DEFINE r == [pc |-> "connect", id |-> accTask[t].id]
<1>1. /\ accTask[t].pc = "reconnect"
      /\ UNCHANGED <<accRow, connecting, failed, orphans, active, wanted, warm>>
  BY DEF A!ReconnectBegins, A!At
<1>2. CASE BeginsWith(t, "reclosing")
  BY <1>1, <1>2, BeginningKeeps DEF Locked
<1>3. CASE A!Goes(t, "connect") /\ UNCHANGED <<lock, sessions>>
  <2>1. Moves(t, r) /\ r \in TaskRecords
    BY <1>1, <1>3, GoesMoves DEF A!Pcs
  <2>2. accTask[t].pc \notin Locked /\ r.pc \notin Locked
    BY <1>1 DEF Locked
  <2>3. RegistryTyped'
    BY <1>1, <1>3 DEF AccountsInv, A!AccountsTypeOK, RegistryTyped
  <2> HIDE DEF r
  <2> QED  BY <1>3, <2>1, <2>2, <2>3, OutsideKeeps, Together
<1>4. CASE A!Through /\ A!Ends(t) /\ UNCHANGED sessions
  BY <1>1, <1>4, EndingAtOnceKeeps
<1>5. BeginsWith(t, "reclosing") \/ (A!Goes(t, "connect") /\ UNCHANGED <<lock, sessions>>)
      \/ (A!Through /\ A!Ends(t) /\ UNCHANGED sessions)
  BY DEF A!ReconnectBegins, BeginsWith
<1> QED  BY <1>2, <1>3, <1>4, <1>5

(* The lock is freed when the client is closed, and the connection starts over. *)
LEMMA ReclosesKeeps ==
    ASSUME A!AccountsAssumption, AccountsInv, NEW t \in A!Tasks, A!Recloses(t)
    PROVE  AccountsInv'
<1> DEFINE r == [pc |-> "connect", id |-> accTask[t].id]
<1>1. Moves(t, r) /\ r \in TaskRecords
  BY GoesMoves DEF A!Recloses, A!At, A!Pcs
<1>2. A!Frees(t) /\ r.pc \notin Locked /\ sessions' = sessions
  BY DEF A!Recloses, Locked, A!links
<1>3. OneSession'
  BY <1>2 DEF AccountsInv, OneSession
<1>4. RegistryTyped'
  BY DEF A!Recloses, A!Frees, A!Forgets, A!links, AccountsInv, A!AccountsTypeOK, RegistryTyped
<1> HIDE DEF r
<1> QED  BY <1>1, <1>2, <1>3, <1>4, FreeingKeeps, Together

(* Activating waits on the guards of the account it leaves; discovery probes only with nothing attached. *)
LEMMA ActivateOrDiscoverBeginsKeeps ==
    ASSUME A!AccountsAssumption, AccountsInv, NEW t \in A!Tasks, A!ActivateBegins(t) \/ A!DiscoverBegins(t)
    PROVE  AccountsInv'
<1>1. /\ accTask[t].pc # "idle"
      /\ UNCHANGED <<sessions, accRow, connecting, failed, orphans, active, wanted, warm>>
  BY DEF A!ActivateBegins, A!DiscoverBegins, A!At, A!links
<1>2. CASE BeginsWith(t, "switching")
  BY <1>1, <1>2, BeginningKeeps DEF Locked
<1>3. CASE BeginsWith(t, "probing") /\ sessions = {}
  BY <1>1, <1>3, BeginningKeeps DEF Locked
<1>4. CASE A!Through /\ A!Ends(t)
  BY <1>1, <1>4, EndingAtOnceKeeps
<1>5. BeginsWith(t, "switching") \/ (BeginsWith(t, "probing") /\ sessions = {}) \/ (A!Through /\ A!Ends(t))
  BY DEF A!ActivateBegins, A!DiscoverBegins, BeginsWith, A!links
<1> QED  BY <1>2, <1>3, <1>4, <1>5

(* The registry and the jobs that read a connected account: no task moves.     *)
LEMMA NoTaskMovesKeeps ==
    ASSUME AccountsInv, (\E a \in AccountIds : A!Creates(a) \/ A!Polls(a)) \/ UNCHANGED A!vars
    PROVE  AccountsInv'
<1>1. UNCHANGED <<A!links, lock, accTask, active, wanted>>
  BY DEF A!Creates, A!Polls, A!vars
<1>2. accRow' \in [AccountIds -> {"absent", "listed", "archived"}] /\ warm' \subseteq AccountIds
  BY DEF A!Creates, A!Polls, A!vars, AccountsInv, A!AccountsTypeOK
<1>3. A!AccountsTypeOK'
  BY <1>1, <1>2 DEF AccountsInv, A!AccountsTypeOK, A!links
<1>4. (LockIsHeld /\ AttemptsAreAlone /\ OneSession)'
  BY <1>1 DEF AccountsInv, LockIsHeld, AttemptsAreAlone, OneSession, A!links
<1> QED  BY <1>3, <1>4 DEF AccountsInv

(* Every step, by the lemma of its action.                                     *)
LEMMA AccountsStep ==
    ASSUME A!AccountsAssumption, AccountsInv, [A!Next]_(A!vars)
    PROVE  AccountsInv'
<1>1. CASE (\E a \in AccountIds : A!Creates(a) \/ A!Polls(a)) \/ UNCHANGED A!vars
  BY <1>1, NoTaskMovesKeeps
<1>2. ASSUME NEW t \in A!Tasks, NEW a \in AccountIds, NEW gesture \in A!Gestures, A!Asks(t, gesture, a)
      PROVE  AccountsInv'
  BY <1>2, AskingKeeps
<1>3. ASSUME NEW t \in A!Tasks, A!ConnectBegins(t) \/ A!Attaches(t) \/ A!AttachFails(t) \/ OutsideTheLock(t) \/ EndsUnderTheLock(t)
      PROVE  AccountsInv'
  BY <1>3, ConnectBeginsKeeps, AttachesKeeps, AttachFailsKeeps, OutsideTheLockKeeps, EndsUnderTheLockKeeps
<1>4. ASSUME NEW t \in A!Tasks, A!DisconnectBegins(t) \/ A!GuardsAnswer(t) \/ A!ReconnectBegins(t) \/ A!Recloses(t)
      PROVE  AccountsInv'
  BY <1>4, DisconnectBeginsKeeps, GuardsAnswerKeeps, ReconnectBeginsKeeps, ReclosesKeeps
<1>5. ASSUME NEW t \in A!Tasks, A!ActivateBegins(t) \/ A!DiscoverBegins(t) \/ A!ArchiveChecks(t) \/ A!Archives(t)
      PROVE  AccountsInv'
  BY <1>5, ActivateOrDiscoverBeginsKeeps, ArchivingKeeps
<1> QED  BY <1>1, <1>2, <1>3, <1>4, <1>5 DEF A!Next, OutsideTheLock, EndsUnderTheLock

(* One session at a time and a lock that its holder stands at, for any accounts and tasks, under  *)
(* every failure and cut of a gesture (AccountService).                                           *)
LEMMA AccountsAreSafe ==
    ASSUME A!AccountsAssumption
    PROVE  A!Spec => [](A!AccountsTypeOK /\ A!OneTerminal)
<1>1. A!Init => AccountsInv
  BY InitialAccounts
<1>2. AccountsInv /\ [A!Next]_(A!vars) => AccountsInv'
  BY AccountsStep
<1>3. AccountsInv => A!AccountsTypeOK /\ A!OneTerminal
  BY InvImpliesPromise DEF AccountsInv
<1> QED  BY <1>1, <1>2, <1>3, PTL DEF A!Spec

-----------------------------------------------------------------------------
(* The cockpit's stream (api/websocket/stream.py).                         *)

Pictures == UNION {[S -> Nat] : S \in SUBSET Shown}
Frames == [kind : {"none", "fact", "quote", "snapshot"}, says : Pictures]
Links == [on : BOOLEAN, wants : SUBSET Shown, queue : Seq(Frames), sending : Frames, reader : {"reads", "builds"},
          picture : Pictures, overflowed : BOOLEAN, closed : BOOLEAN]

(* The snapshots in a queue are its first n frames: push_first puts them there.                      *)
SnapshotsFirst(queue, n) ==
    n <= Len(queue) /\ \A i \in 1 .. Len(queue) : queue[i].kind = "snapshot" <=> i <= n
(* A queue is no longer than its capacity and its snapshots.                                       *)
QueueFits(k) ==
    \E n \in 0 .. MaxSnapshots :
        /\ SnapshotsFirst(k.queue, n) /\ Len(k.queue) <= Capacity + n
        /\ k.reader = "builds" => n < MaxSnapshots
(* The facts sent are the first that were owed, the next is the one being sent, and the rest are on their way. *)
FactsInOrder(k, offered, done) ==
    /\ \A i \in 1 .. Len(offered) : offered[i].kind = "fact"
    /\ Len(done) <= Len(offered) /\ \A i \in 1 .. Len(done) : done[i] = offered[i]
    /\ k.sending.kind = "fact" => Len(done) < Len(offered) /\ offered[Len(done) + 1] = k.sending
    /\ ~k.overflowed /\ ~k.closed => W!OnItsWay(k, offered, done)
ClientIsServed(k, offered, done) ==
    /\ QueueFits(k) /\ FactsInOrder(k, offered, done)
    /\ k.closed => k.sending = W!NoFrame
    /\ ~k.on => k = W!Gone /\ offered = <<>> /\ done = <<>>
StreamTyped ==
    /\ fact \in [Shown -> 0 .. MaxFacts] /\ told \in [Shown -> 0 .. MaxFacts]
    /\ link \in [Clients -> Links] /\ view \in [Clients -> Pictures]
    /\ owed \in [Clients -> Seq(Frames)] /\ got \in [Clients -> Seq(Frames)]
StreamInv == StreamTyped /\ \A c \in Clients : ClientIsServed(link[c], owed[c], got[c])

(* Pictures and frames.                                                                            *)
LEMMA BlankIsAPicture == W!Blank \in Pictures
<1>1. W!Blank \in [{} -> Nat]
  BY DEF W!Blank
<1> QED  BY <1>1 DEF Pictures

LEMMA PicturesShowAccounts == \A v \in Pictures : DOMAIN v \subseteq Shown
BY DEF Pictures

LEMMA SeenIsAPicture ==
    ASSUME W!StreamAssumption, StreamTyped, NEW v \in Pictures, NEW a \in Shown PROVE W!Seen(v, a) \in Pictures
<1>1. PICK S \in SUBSET Shown : v \in [S -> Nat]
  BY DEF Pictures
<1>2. fact[a] \in Nat
  BY DEF StreamTyped, W!StreamAssumption
<1>3. W!Seen(v, a) \in [S \cup {a} -> Nat]
  BY <1>1, <1>2 DEF W!Seen
<1>4. S \cup {a} \in SUBSET Shown
  OBVIOUS
<1> QED  BY <1>3, <1>4 DEF Pictures

LEMMA FramesAreTyped ==
    ASSUME W!StreamAssumption, StreamTyped
    PROVE  /\ W!NoFrame \in Frames /\ W!NoFrame.kind = "none" /\ W!Quote \in Frames /\ W!Quote.kind = "quote"
           /\ \A a \in Shown : W!Fact(a) \in Frames /\ W!Fact(a).kind = "fact"
           /\ \A v \in Pictures : W!Snapshot(v) \in Frames /\ W!Snapshot(v).kind = "snapshot" /\ W!Snapshot(v).says = v
<1>1. \A a \in Shown : W!Seen(W!Blank, a) \in Pictures
  BY BlankIsAPicture, SeenIsAPicture
<1> QED  BY <1>1, BlankIsAPicture DEF W!NoFrame, W!Quote, W!Fact, W!Snapshot, Frames

LEMMA ThisWay ==
    ASSUME NEW l, NEW offered, NEW done, NEW E, W!Unsent(offered, done) = E, NEW way \in [E -> 0 .. Len(l.queue)],
           \A i, j \in E : i < j => way[i] < way[j],
           \A i \in E : W!Frame(l, way[i]) = offered[i],
           \A n \in 0 .. Len(l.queue) : W!Frame(l, n).kind = "fact" => \E i \in E : way[i] = n
    PROVE  W!OnItsWay(l, offered, done)
BY DEF W!OnItsWay

(* The facts on their way, when the frames of k move to the places m gives them in l.               *)
MovesTo(m, k, l) ==
    /\ m \in [0 .. Len(k.queue) -> 0 .. Len(l.queue)]
    /\ \A n \in 0 .. Len(k.queue) : W!Frame(k, n).kind = "fact" => W!Frame(l, m[n]) = W!Frame(k, n)
    /\ \A n, p \in 0 .. Len(k.queue) :
           n < p /\ W!Frame(k, n).kind = "fact" /\ W!Frame(k, p).kind = "fact" => m[n] < m[p]
    /\ \A n \in 0 .. Len(l.queue) : W!Frame(l, n).kind = "fact" =>
           \E p \in 0 .. Len(k.queue) : W!Frame(k, p).kind = "fact" /\ m[p] = n

LEMMA FramesMove ==
    ASSUME NEW k, NEW l, NEW offered \in Seq(Frames), NEW done \in Seq(Frames), NEW m, MovesTo(m, k, l),
           Len(k.queue) \in Nat, Len(l.queue) \in Nat, W!OnItsWay(k, offered, done),
           \A i \in 1 .. Len(offered) : offered[i].kind = "fact"
    PROVE  W!OnItsWay(l, offered, done)
<1> USE DEF MovesTo
<1> DEFINE D == Len(done) + 1 .. Len(offered)
<1>1. PICK at \in [D -> 0 .. Len(k.queue)] :
        /\ \A i, j \in D : i < j => at[i] < at[j]
        /\ \A i \in D : W!Frame(k, at[i]) = offered[i]
        /\ \A n \in 0 .. Len(k.queue) : W!Frame(k, n).kind = "fact" => \E i \in D : at[i] = n
  BY DEF W!OnItsWay, W!Unsent
<1>2. Len(done) \in Nat /\ Len(offered) \in Nat
  OBVIOUS
<1>3. \A i \in D : i \in 1 .. Len(offered)
  BY <1>2
<1>4. \A i \in D : at[i] \in 0 .. Len(k.queue) /\ W!Frame(k, at[i]).kind = "fact"
  BY <1>1, <1>3
<1> DEFINE put == [i \in D |-> m[at[i]]]
<1>5. put \in [D -> 0 .. Len(l.queue)] /\ DOMAIN put = D
  BY <1>4
<1>6. \A i, j \in D : i < j => put[i] < put[j]
  BY <1>1, <1>4
<1>7. \A i \in D : W!Frame(l, put[i]) = offered[i]
  BY <1>1, <1>4
<1>8. \A n \in 0 .. Len(l.queue) : W!Frame(l, n).kind = "fact" => \E i \in D : put[i] = n
  BY <1>1, <1>4
<1> HIDE DEF put
<1> QED  BY <1>5, <1>6, <1>7, <1>8 DEF W!OnItsWay, W!Unsent

(* One more fact, at the end of the queue.                                                         *)
LEMMA OneMoreFact ==
    ASSUME NEW k, NEW l, NEW offered \in Seq(Frames), NEW done \in Seq(Frames), NEW f \in Frames, f.kind = "fact",
           NEW more, more = Append(offered, f),
           k.queue \in Seq(Frames), l.queue = Append(k.queue, f), l.sending = k.sending,
           Len(done) <= Len(offered), W!OnItsWay(k, offered, done)
    PROVE  W!OnItsWay(l, more, done)
<1> DEFINE D == Len(done) + 1 .. Len(offered)
           E == Len(done) + 1 .. Len(offered) + 1
<1>1. PICK at \in [D -> 0 .. Len(k.queue)] :
        /\ \A i, j \in D : i < j => at[i] < at[j]
        /\ \A i \in D : W!Frame(k, at[i]) = offered[i]
        /\ \A n \in 0 .. Len(k.queue) : W!Frame(k, n).kind = "fact" => \E i \in D : at[i] = n
  BY DEF W!OnItsWay, W!Unsent
<1>2. /\ Len(done) \in Nat /\ Len(offered) \in Nat /\ Len(k.queue) \in Nat
      /\ Len(more) = Len(offered) + 1 /\ Len(l.queue) = Len(k.queue) + 1
      /\ \A i \in D : more[i] = offered[i]
      /\ more[Len(offered) + 1] = f
  OBVIOUS
<1>3. /\ \A n \in 0 .. Len(k.queue) : W!Frame(l, n) = W!Frame(k, n)
      /\ W!Frame(l, Len(k.queue) + 1) = f
  BY <1>2 DEF W!Frame
<1> DEFINE last == Len(offered) + 1
           put == [i \in E |-> IF i = last THEN Len(k.queue) + 1 ELSE at[i]]
<1>4. \A i \in E : i = last \/ i \in D
  BY <1>2
<1>5. last \in E /\ \A i \in D : i \in E /\ i < last
  BY <1>2
<1>6. \A i \in D : at[i] \in 0 .. Len(k.queue) /\ put[i] = at[i]
  BY <1>1, <1>5, <1>2
<1>7. put[last] = Len(k.queue) + 1
  BY <1>5
<1>8. put \in [E -> 0 .. Len(l.queue)] /\ DOMAIN put = E
  BY <1>2, <1>4, <1>6
<1> HIDE DEF put
<1>9. \A i, j \in E : i < j => put[i] < put[j]
  <2> SUFFICES ASSUME NEW i \in E, NEW j \in E, i < j PROVE put[i] < put[j]
    OBVIOUS
  <2>1. i \in D
    BY <1>2, <1>4
  <2>2. CASE j = last
    BY <1>2, <1>6, <1>7, <2>1, <2>2
  <2>3. CASE j \in D
    BY <1>1, <1>6, <2>1, <2>3
  <2> QED  BY <1>4, <2>2, <2>3
<1>10. \A i \in E : W!Frame(l, put[i]) = more[i]
  BY <1>1, <1>2, <1>3, <1>4, <1>6, <1>7
<1>11. \A n \in 0 .. Len(l.queue) : W!Frame(l, n).kind = "fact" => \E i \in E : put[i] = n
  <2> SUFFICES ASSUME NEW n \in 0 .. Len(l.queue), W!Frame(l, n).kind = "fact" PROVE \E i \in E : put[i] = n
    OBVIOUS
  <2>1. CASE n = Len(k.queue) + 1
    BY <1>5, <1>7, <2>1
  <2>2. CASE n \in 0 .. Len(k.queue)
    BY <1>1, <1>3, <1>5, <1>6, <2>2
  <2> QED  BY <1>2, <2>1, <2>2
<1>12. W!Unsent(more, done) = E
  BY <1>2 DEF W!Unsent
<1> HIDE DEF E
<1> QED  BY ONLY <1>8, <1>9, <1>10, <1>11, <1>12, ThisWay

(* The fact being sent is the next one owed; once it is sent the others are still on their way.        *)
LEMMA OneFactSent ==
    ASSUME NEW k, NEW l, NEW offered \in Seq(Frames), NEW done \in Seq(Frames), k.sending \in Frames,
           k.queue \in Seq(Frames), l.queue = k.queue, l.sending.kind # "fact",
           k.sending.kind = "fact", W!OnItsWay(k, offered, done)
    PROVE  /\ Len(done) < Len(offered) /\ offered[Len(done) + 1] = k.sending
           /\ W!OnItsWay(l, offered, Append(done, k.sending))
<1> DEFINE first == Len(done) + 1
           D == first .. Len(offered)
           E == first + 1 .. Len(offered)
<1>1. PICK at \in [D -> 0 .. Len(k.queue)] :
        /\ \A i, j \in D : i < j => at[i] < at[j]
        /\ \A i \in D : W!Frame(k, at[i]) = offered[i]
        /\ \A n \in 0 .. Len(k.queue) : W!Frame(k, n).kind = "fact" => \E i \in D : at[i] = n
  BY DEF W!OnItsWay, W!Unsent
<1>2. /\ Len(done) \in Nat /\ Len(offered) \in Nat /\ Len(k.queue) \in Nat
      /\ Len(Append(done, k.sending)) = first
  OBVIOUS
<1>3. 0 \in 0 .. Len(k.queue) /\ W!Frame(k, 0) = k.sending
  BY <1>2 DEF W!Frame
<1>4. PICK z \in D : at[z] = 0
  BY <1>1, <1>3
<1>5. first \in D /\ z = first
  <2>1. first \in D /\ z \in Int /\ z >= first
    BY <1>2, <1>4
  <2>2. at[first] \in 0 .. Len(k.queue)
    BY <1>1, <2>1
  <2> QED  BY <1>1, <1>2, <1>4, <2>1, <2>2
<1>6. Len(done) < Len(offered) /\ offered[first] = k.sending
  BY <1>1, <1>2, <1>3, <1>4, <1>5
<1> DEFINE put == [i \in E |-> at[i]]
<1>7. \A i \in E : i \in D /\ at[i] \in 0 .. Len(k.queue) /\ at[i] > 0
  BY <1>1, <1>2, <1>4, <1>5
<1>8. put \in [E -> 0 .. Len(l.queue)] /\ DOMAIN put = E /\ \A i \in E : put[i] = at[i]
  BY <1>7
<1> HIDE DEF put
<1>9. \A i, j \in E : i < j => put[i] < put[j]
  BY <1>1, <1>7, <1>8
<1>10. \A i \in E : W!Frame(l, put[i]) = offered[i]
  BY <1>1, <1>7, <1>8 DEF W!Frame
<1>11. \A n \in 0 .. Len(l.queue) : W!Frame(l, n).kind = "fact" => \E i \in E : put[i] = n
  <2> SUFFICES ASSUME NEW n \in 0 .. Len(l.queue), W!Frame(l, n).kind = "fact" PROVE \E i \in E : put[i] = n
    OBVIOUS
  <2>1. n # 0 /\ W!Frame(l, n) = W!Frame(k, n)
    BY DEF W!Frame
  <2>2. PICK i \in D : at[i] = n
    BY <1>1, <2>1
  <2>3. i \in E
    BY <1>2, <1>4, <1>5, <2>1, <2>2
  <2> QED  BY <1>8, <2>2, <2>3
<1>12. W!Unsent(offered, Append(done, k.sending)) = E
  BY <1>2 DEF W!Unsent
<1> HIDE DEF E
<1>13. W!OnItsWay(l, offered, Append(done, k.sending))
  BY ONLY <1>8, <1>9, <1>10, <1>11, <1>12, ThisWay
<1> QED  BY <1>6, <1>13

-----------------------------------------------------------------------------
(* The queue of a client.                                                                          *)
LEMMA Joined ==
    ASSUME NEW f \in Seq(Frames), NEW b \in Seq(Frames), NEW r, r = f \o b
    PROVE  /\ r \in Seq(Frames) /\ Len(r) = Len(f) + Len(b)
           /\ \A n \in 1 .. Len(f) : r[n] = f[n]
           /\ \A n \in Len(f) + 1 .. Len(f) + Len(b) : r[n] = b[n - Len(f)]
OBVIOUS

LEMMA OneIsRemoved ==
    ASSUME NEW queue \in Seq(Frames), NEW i \in 1 .. Len(queue), NEW r, r = W!RemoveAt(queue, i)
    PROVE  /\ r \in Seq(Frames) /\ Len(r) = Len(queue) - 1
           /\ \A n \in 1 .. i - 1 : r[n] = queue[n]
           /\ \A n \in i .. Len(queue) - 1 : r[n] = queue[n + 1]
<1> DEFINE front == SubSeq(queue, 1, i - 1)
           back == SubSeq(queue, i + 1, Len(queue))
<1>0. r = front \o back
  BY DEF W!RemoveAt
<1>1. front \in Seq(Frames) /\ Len(front) = i - 1 /\ \A n \in 1 .. i - 1 : front[n] = queue[n]
  OBVIOUS
<1>2. /\ back \in Seq(Frames) /\ Len(back) = Len(queue) - i
      /\ \A n \in 1 .. Len(queue) - i : back[n] = queue[i + n]
  OBVIOUS
<1> HIDE DEF front, back
<1>3. /\ r \in Seq(Frames) /\ Len(r) = Len(queue) - 1
      /\ \A n \in 1 .. i - 1 : r[n] = front[n]
      /\ \A n \in i .. Len(queue) - 1 : r[n] = back[n - (i - 1)]
  <2>1. Len(queue) \in Nat /\ i \in 1 .. Len(queue)
    OBVIOUS
  <2>2. /\ r \in Seq(Frames) /\ Len(r) = Len(front) + Len(back)
        /\ \A n \in 1 .. Len(front) : r[n] = front[n]
        /\ \A n \in Len(front) + 1 .. Len(front) + Len(back) : r[n] = back[n - Len(front)]
    <3>1. front \in Seq(Frames) /\ back \in Seq(Frames)
      BY ONLY <1>1, <1>2
    <3> QED  BY ONLY <1>0, <3>1, Joined
  <2> QED  BY ONLY <1>1, <1>2, <2>1, <2>2
<1>4. ASSUME NEW n \in i .. Len(queue) - 1 PROVE r[n] = queue[n + 1]
  <2>1. n - (i - 1) \in 1 .. Len(queue) - i /\ i + (n - (i - 1)) = n + 1
    OBVIOUS
  <2> QED  BY <1>2, <1>3, <2>1
<1> QED  BY <1>1, <1>3, <1>4

LEMMA FirstOf ==
    ASSUME NEW S \in SUBSET Nat, S # {}
    PROVE  W!Min(S) \in S
<1> DEFINE Smaller == {p \in Nat \X Nat : p[1] < p[2]}
<1>1. IsWellFoundedOn(Smaller, Nat)
  BY NatLessThanWellFounded DEF OpToRel
<1>2. \E m \in S : \A n \in S : <<n, m>> \notin Smaller
  BY <1>1, WFMin
<1>3. PICK m \in S : \A n \in S : <<n, m>> \notin Smaller
  BY <1>2
<1>4. ASSUME NEW n \in S PROVE m <= n
  <2>1. <<n, m>> \in Nat \X Nat /\ ~(n < m)
    BY <1>3, Zenon
  <2>2. m \in Nat /\ n \in Nat
    OBVIOUS
  <2> HIDE DEF Smaller
  <2> QED  BY <2>1, <2>2
<1> QED  BY <1>4 DEF W!Min

(* Room is made, if at all, by taking out a quote.                                                  *)
LEMMA RoomIsMade ==
    ASSUME NEW k \in Links
    PROVE  \/ W!Room(k) = k.queue
           \/ \E i \in 1 .. Len(k.queue) : k.queue[i].kind = "quote" /\ W!Room(k) = W!RemoveAt(k.queue, i)
<1> DEFINE Telemetry == {i \in 1 .. Len(k.queue) : W!Droppable(k.queue[i])}
<1>1. Telemetry \in SUBSET Nat
  OBVIOUS
<1>2. W!SelectInSeq(k.queue, W!Droppable) = IF Telemetry # {} THEN W!Min(Telemetry) ELSE 0
  BY DEF W!SelectInSeq
<1>3. CASE Telemetry # {}
  <2>1. W!Min(Telemetry) \in Telemetry
    BY <1>1, <1>3, FirstOf
  <2>2. W!Min(Telemetry) \in 1 .. Len(k.queue) /\ k.queue[W!Min(Telemetry)].kind = "quote"
    BY <2>1 DEF W!Droppable
  <2> QED  BY <1>2, <1>3, <2>2 DEF W!Room
<1>4. CASE Telemetry = {}
  BY <1>2, <1>4 DEF W!Room
<1> QED  BY <1>3, <1>4

(* Without the quote at i, the snapshots are still in front and the facts on their way.                *)
LEMMA QuoteIsDropped ==
    ASSUME NEW k, NEW l, NEW queue \in Seq(Frames), NEW r, k.queue = queue, l.queue = r, l.sending = k.sending,
           NEW i \in 1 .. Len(queue), queue[i].kind = "quote", r = W!RemoveAt(queue, i),
           NEW offered \in Seq(Frames), NEW done \in Seq(Frames),
           \A j \in 1 .. Len(offered) : offered[j].kind = "fact"
    PROVE  /\ r \in Seq(Frames) /\ Len(r) = Len(queue) - 1
           /\ \A n \in Nat : SnapshotsFirst(queue, n) => SnapshotsFirst(r, n)
           /\ W!OnItsWay(k, offered, done) => W!OnItsWay(l, offered, done)
<1>0. Len(queue) \in Nat
  OBVIOUS
<1>1. queue[i].kind = "quote" /\ i \in 1 .. Len(queue)
  OBVIOUS
<1>2. /\ r \in Seq(Frames) /\ Len(r) = Len(queue) - 1
      /\ \A n \in 1 .. Len(queue) : (n < i => r[n] = queue[n]) /\ (n > i => r[n - 1] = queue[n])
      /\ \A n \in 1 .. Len(r) : r[n] = IF n < i THEN queue[n] ELSE queue[n + 1]
  <2>1. /\ r \in Seq(Frames) /\ Len(r) = Len(queue) - 1
        /\ \A n \in 1 .. i - 1 : r[n] = queue[n]
        /\ \A n \in i .. Len(queue) - 1 : r[n] = queue[n + 1]
    BY OneIsRemoved, ZenonT(40)
  <2> QED  BY <1>0, <2>1
<1>3. ASSUME NEW n \in Nat, SnapshotsFirst(queue, n) PROVE SnapshotsFirst(r, n)
  <2>1. i > n /\ n <= Len(queue) /\ \A j \in 1 .. Len(queue) : queue[j].kind = "snapshot" <=> j <= n
    BY <1>1, <1>3 DEF SnapshotsFirst
  <2>2. n <= Len(r)
    BY <1>0, <1>2, <2>1
  <2>3. ASSUME NEW j \in 1 .. Len(r) PROVE r[j].kind = "snapshot" <=> j <= n
    <3>1. CASE j < i
      BY <1>0, <1>2, <2>1, <3>1
    <3>2. CASE j >= i
      <4>1. j + 1 \in 1 .. Len(queue) /\ ~(j + 1 <= n) /\ ~(j <= n) /\ r[j] = queue[j + 1]
        BY <1>0, <1>2, <2>1, <3>2
      <4> QED  BY <2>1, <4>1
    <3> QED  BY <3>1, <3>2
  <2> QED  BY <2>2, <2>3 DEF SnapshotsFirst
<1>4. ASSUME W!OnItsWay(k, offered, done) PROVE W!OnItsWay(l, offered, done)
  <2> DEFINE m == [n \in 0 .. Len(queue) |-> IF n < i THEN n ELSE IF n = i THEN 0 ELSE n - 1]
  <2>1. m \in [0 .. Len(queue) -> 0 .. Len(r)]
    BY <1>0, <1>1, <1>2
  <2>2. W!Frame(k, 0) = W!Frame(l, 0) /\ \A n \in 1 .. Len(queue) : W!Frame(k, n) = queue[n]
    BY <1>0 DEF W!Frame
  <2>3. \A n \in 1 .. Len(r) : W!Frame(l, n) = r[n]
    BY <1>0, <1>2 DEF W!Frame
  <2>4. \A n \in 0 .. Len(queue) : W!Frame(k, n).kind = "fact" => n # i /\ W!Frame(l, m[n]) = W!Frame(k, n)
    <3> SUFFICES ASSUME NEW n \in 0 .. Len(queue), W!Frame(k, n).kind = "fact"
                 PROVE  n # i /\ W!Frame(l, m[n]) = W!Frame(k, n)
      OBVIOUS
    <3>1. n # i
      BY <1>1, <2>2
    <3>2. CASE n = 0
      BY <2>2, <3>2
    <3>3. CASE n \in 1 .. Len(queue) /\ n < i
      <4>1. m[n] = n /\ n \in 1 .. Len(r)
        BY <1>0, <1>1, <1>2, <3>3
      <4> QED  BY <1>2, <2>2, <2>3, <3>3, <4>1
    <3>4. CASE n \in 1 .. Len(queue) /\ n > i
      <4>1. m[n] = n - 1 /\ n - 1 \in 1 .. Len(r)
        BY <1>0, <1>1, <1>2, <3>4
      <4> QED  BY <1>2, <2>2, <2>3, <3>4, <4>1, SMTT(20)
    <3> QED  BY <1>0, <3>1, <3>2, <3>3, <3>4
  <2>5. \A n, p \in 0 .. Len(queue) :
          n < p /\ W!Frame(k, n).kind = "fact" /\ W!Frame(k, p).kind = "fact" => m[n] < m[p]
    <3> SUFFICES ASSUME NEW n \in 0 .. Len(queue), NEW p \in 0 .. Len(queue), n < p, n # i, p # i PROVE m[n] < m[p]
      BY <2>4
    <3> QED  BY <1>0, <1>1
  <2>6. \A n \in 0 .. Len(r) : W!Frame(l, n).kind = "fact" =>
          \E p \in 0 .. Len(queue) : W!Frame(k, p).kind = "fact" /\ m[p] = n
    <3> SUFFICES ASSUME NEW n \in 0 .. Len(r), W!Frame(l, n).kind = "fact"
                 PROVE  \E p \in 0 .. Len(queue) : W!Frame(k, p).kind = "fact" /\ m[p] = n
      OBVIOUS
    <3>1. CASE n = 0
      BY <1>0, <1>1, <2>2, <3>1
    <3>2. CASE n > 0 /\ n < i
      <4>1. n \in 1 .. Len(queue) /\ m[n] = n /\ r[n] = queue[n] /\ n \in 1 .. Len(r)
        BY <1>0, <1>1, <1>2, <3>2
      <4> QED  BY <2>2, <2>3, <4>1
    <3>3. CASE n >= i
      <4>1. n + 1 \in 1 .. Len(queue) /\ m[n + 1] = n /\ r[n] = queue[n + 1] /\ n \in 1 .. Len(r)
        BY <1>0, <1>1, <1>2, <3>3
      <4> QED  BY <2>2, <2>3, <4>1
    <3> QED  BY <1>0, <1>1, <1>2, <3>1, <3>2, <3>3
  <2> HIDE DEF m
  <2>7. Len(k.queue) \in Nat /\ Len(l.queue) \in Nat
    BY <1>0, <1>2
  <2>8. offered \in Seq(Frames) /\ done \in Seq(Frames) /\ \A j \in 1 .. Len(offered) : offered[j].kind = "fact"
    OBVIOUS
  <2>9. MovesTo(m, k, l)
    BY <2>1, <2>4, <2>5, <2>6 DEF MovesTo
  <2> QED  BY ONLY <1>4, <2>7, <2>8, <2>9, FramesMove
<1> QED  BY <1>2, <1>3, <1>4

(* Room keeps the snapshots in front and the facts on their way.                                     *)
LEMMA RoomKeepsFacts ==
    ASSUME NEW k \in Links, NEW l, NEW offered \in Seq(Frames), NEW done \in Seq(Frames), l.queue = W!Room(k),
           l.sending = k.sending, \A i \in 1 .. Len(offered) : offered[i].kind = "fact"
    PROVE  /\ l.queue \in Seq(Frames) /\ Len(l.queue) <= Len(k.queue)
           /\ \A n \in Nat : SnapshotsFirst(k.queue, n) => SnapshotsFirst(l.queue, n)
           /\ W!OnItsWay(k, offered, done) => W!OnItsWay(l, offered, done)
<1>0. k.queue \in Seq(Frames) /\ Len(k.queue) \in Nat
  BY DEF Links
<1>1. CASE l.queue = k.queue
  BY <1>0, <1>1 DEF W!OnItsWay, W!Frame
<1>2. CASE \E i \in 1 .. Len(k.queue) : k.queue[i].kind = "quote" /\ l.queue = W!RemoveAt(k.queue, i)
  BY <1>0, <1>2, QuoteIsDropped
<1> QED  BY <1>1, <1>2, RoomIsMade

(* A frame that is no fact, at the end of the queue, leaves the facts where they are.                  *)
LEMMA OneMoreQuote ==
    ASSUME NEW k, NEW l, NEW offered \in Seq(Frames), NEW done \in Seq(Frames), NEW f \in Frames, f.kind # "fact",
           NEW queue \in Seq(Frames), k.queue = queue, NEW longer, longer = Append(queue, f), l.queue = longer,
           l.sending = k.sending,
           \A i \in 1 .. Len(offered) : offered[i].kind = "fact", W!OnItsWay(k, offered, done)
    PROVE  W!OnItsWay(l, offered, done)
<1>1. /\ Len(queue) \in Nat /\ Len(longer) = Len(queue) + 1
      /\ \A n \in 1 .. Len(queue) : longer[n] = queue[n]
      /\ longer[Len(queue) + 1] = f
  OBVIOUS
<1>2. /\ \A n \in 0 .. Len(queue) : W!Frame(l, n) = W!Frame(k, n)
      /\ W!Frame(l, Len(queue) + 1).kind # "fact"
  BY <1>1 DEF W!Frame
<1> DEFINE m == [n \in 0 .. Len(queue) |-> n]
<1>3. m \in [0 .. Len(queue) -> 0 .. Len(longer)] /\ \A n \in 0 .. Len(queue) : m[n] = n
  BY <1>1
<1> HIDE DEF m
<1>4. \A n \in 0 .. Len(longer) : n \in 0 .. Len(queue) \/ n = Len(queue) + 1
  BY <1>1
<1>5. MovesTo(m, k, l)
  <2>1. \A n \in 0 .. Len(queue) : W!Frame(l, m[n]) = W!Frame(k, n)
    BY <1>2, <1>3
  <2>2. \A n, p \in 0 .. Len(queue) : n < p => m[n] < m[p]
    BY <1>3
  <2>3. \A n \in 0 .. Len(longer) : W!Frame(l, n).kind = "fact" => n \in 0 .. Len(queue) /\ W!Frame(k, n).kind = "fact"
    BY <1>2, <1>4
  <2> QED  BY <1>3, <2>1, <2>2, <2>3 DEF MovesTo
<1>6. Len(k.queue) \in Nat /\ Len(l.queue) \in Nat
  BY <1>1
<1>7. /\ offered \in Seq(Frames) /\ done \in Seq(Frames) /\ W!OnItsWay(k, offered, done)
      /\ \A i \in 1 .. Len(offered) : offered[i].kind = "fact"
  OBVIOUS
<1> QED  BY ONLY <1>5, <1>6, <1>7, FramesMove

(* A frame at the end of a queue is no snapshot.                                                   *)
LEMMA SnapshotsStayFirst ==
    ASSUME NEW queue \in Seq(Frames), NEW f \in Frames, f.kind # "snapshot", NEW n \in Nat, SnapshotsFirst(queue, n),
           NEW longer, longer = Append(queue, f)
    PROVE  SnapshotsFirst(longer, n)
<1>1. /\ Len(queue) \in Nat /\ Len(longer) = Len(queue) + 1
      /\ \A i \in 1 .. Len(queue) : longer[i] = queue[i]
      /\ longer[Len(queue) + 1] = f
  OBVIOUS
<1> QED  BY <1>1 DEF SnapshotsFirst

(* One more fact is owed.                                                                          *)
LEMMA OneMoreIsOwed ==
    ASSUME NEW k, NEW l, NEW offered \in Seq(Frames), NEW done \in Seq(Frames), NEW f \in Frames, f.kind = "fact",
           NEW more, more = Append(offered, f), FactsInOrder(k, offered, done), l.sending = k.sending,
           ~l.overflowed /\ ~l.closed => W!OnItsWay(l, more, done)
    PROVE  FactsInOrder(l, more, done)
<1>1. /\ Len(done) \in Nat /\ Len(offered) \in Nat /\ Len(more) = Len(offered) + 1
      /\ \A i \in 1 .. Len(offered) : more[i] = offered[i]
      /\ more[Len(offered) + 1] = f
  OBVIOUS
<1>2. \A i \in 1 .. Len(more) : more[i].kind = "fact"
  <2> SUFFICES ASSUME NEW i \in 1 .. Len(more) PROVE more[i].kind = "fact"
    OBVIOUS
  <2>1. CASE i \in 1 .. Len(offered)
    BY <1>1, <2>1 DEF FactsInOrder
  <2> QED  BY <1>1, <2>1
<1>3. Len(done) <= Len(more) /\ \A i \in 1 .. Len(done) : done[i] = more[i]
  BY <1>1 DEF FactsInOrder
<1>4. l.sending.kind = "fact" => Len(done) < Len(more) /\ more[Len(done) + 1] = l.sending
  BY <1>1 DEF FactsInOrder
<1> QED  BY <1>2, <1>3, <1>4 DEF FactsInOrder

LEMMA OfferServes ==
    ASSUME W!StreamAssumption, NEW k \in Links, NEW l, NEW frame \in Frames, frame.kind \in {"fact", "quote"},
           NEW offered \in Seq(Frames), NEW done \in Seq(Frames), ClientIsServed(k, offered, done), k.on,
           l = W!Offered(k, frame), NEW more,
           more = IF frame.kind = "fact" /\ ~k.closed /\ ~k.overflowed THEN Append(offered, frame) ELSE offered
    PROVE  l \in Links /\ more \in Seq(Frames) /\ ClientIsServed(l, more, done)
<1>0. /\ k.queue \in Seq(Frames) /\ Len(k.queue) \in Nat /\ FactsInOrder(k, offered, done)
      /\ k.closed \in BOOLEAN /\ k.overflowed \in BOOLEAN
      /\ more \in Seq(Frames) /\ \A i \in 1 .. Len(offered) : offered[i].kind = "fact"
  BY DEF Links, ClientIsServed, FactsInOrder
<1>1. PICK n \in 0 .. MaxSnapshots : /\ SnapshotsFirst(k.queue, n) /\ Len(k.queue) <= Capacity + n
                                     /\ k.reader = "builds" => n < MaxSnapshots
  BY DEF ClientIsServed, QueueFits
<1>2. CASE k.closed \/ k.overflowed
  <2>1. l = k /\ more = offered
    BY <1>2 DEF W!Offered
  <2> QED  BY <2>1
<1>3. CASE ~k.closed /\ ~k.overflowed /\ Len(W!Room(k)) < Capacity
  <2> DEFINE roomy == [k EXCEPT !.queue = W!Room(k)]
  <2>1. roomy.queue = W!Room(k) /\ roomy.sending = k.sending
    BY DEF Links
  <2> HIDE DEF roomy
  <2>2. /\ W!Room(k) \in Seq(Frames) /\ SnapshotsFirst(W!Room(k), n)
        /\ W!OnItsWay(roomy, offered, done)
    <3>1. /\ roomy.queue \in Seq(Frames)
          /\ \A p \in Nat : SnapshotsFirst(k.queue, p) => SnapshotsFirst(roomy.queue, p)
          /\ W!OnItsWay(k, offered, done) => W!OnItsWay(roomy, offered, done)
      BY <1>0, <2>1, RoomKeepsFacts
    <3> QED  BY <1>0, <1>1, <1>3, <2>1, <3>1 DEF FactsInOrder
  <2>3. l = [k EXCEPT !.queue = Append(W!Room(k), frame)]
    BY <1>3 DEF W!Offered
  <2>4. PICK longer : longer = Append(W!Room(k), frame)
    OBVIOUS
  <2>5. longer \in Seq(Frames) /\ Len(longer) <= Capacity
    BY <1>3, <2>2, <2>4 DEF W!StreamAssumption
  <2>6. /\ l \in Links /\ l.queue = longer /\ l.sending = k.sending /\ l.reader = k.reader /\ l.closed = k.closed
        /\ l.overflowed = k.overflowed /\ l.on = k.on
    BY <2>3, <2>4, <2>5 DEF Links
  <2>7. SnapshotsFirst(longer, n)
    <3>1. n \in Nat /\ frame.kind # "snapshot"
      BY <1>1 DEF W!StreamAssumption
    <3> QED  BY <2>2, <2>4, <3>1, SnapshotsStayFirst
  <2>8. QueueFits(l)
    BY <1>1, <2>5, <2>6, <2>7 DEF QueueFits, W!StreamAssumption
  <2>9. FactsInOrder(l, more, done)
    <3>1. CASE frame.kind = "fact"
      <4>1. more = Append(offered, frame) /\ l.queue = Append(roomy.queue, frame) /\ l.sending = roomy.sending
        BY <1>3, <2>1, <2>4, <2>6, <3>1
      <4>2. roomy.queue \in Seq(Frames) /\ Len(done) <= Len(offered)
        BY <1>0, <2>1, <2>2 DEF FactsInOrder
      <4>3. W!OnItsWay(l, more, done)
        BY <2>2, <3>1, <4>1, <4>2, OneMoreFact
      <4>4. FactsInOrder(k, offered, done) /\ l.sending = k.sending /\ (~l.overflowed /\ ~l.closed => W!OnItsWay(l, more, done))
        BY <1>0, <2>6, <4>3
      <4>5. more = Append(offered, frame)
        BY <4>1
      <4> QED  BY <3>1, <4>4, <4>5, OneMoreIsOwed
    <3>2. CASE frame.kind = "quote"
      <4>1. W!OnItsWay(l, offered, done)
        BY <1>0, <2>1, <2>2, <2>4, <2>6, <3>2, OneMoreQuote, ZenonT(40)
      <4> QED  BY <1>0, <2>6, <3>2, <4>1 DEF FactsInOrder
    <3> QED  BY <3>1, <3>2
  <2> QED  BY <1>0, <1>3, <2>6, <2>8, <2>9 DEF ClientIsServed
<1>4. CASE ~k.closed /\ ~k.overflowed /\ ~(Len(W!Room(k)) < Capacity)
  <2>1. l = [k EXCEPT !.overflowed = ~W!Droppable(frame)]
    BY <1>4 DEF W!Offered
  <2>2. /\ l \in Links /\ l.queue = k.queue /\ l.sending = k.sending /\ l.reader = k.reader /\ l.closed = k.closed
        /\ (l.overflowed <=> ~W!Droppable(frame)) /\ l.on = k.on
    BY <2>1 DEF Links, W!Droppable
  <2>3. QueueFits(l)
    BY <2>2 DEF ClientIsServed, QueueFits
  <2>4. FactsInOrder(l, more, done)
    <3>1. CASE frame.kind = "fact"
      <4>1. l.overflowed /\ more = Append(offered, frame)
        BY <1>4, <2>2, <3>1 DEF W!Droppable
      <4> QED  BY <1>0, <2>2, <3>1, <4>1, OneMoreIsOwed
    <3>2. CASE frame.kind = "quote"
      <4>1. W!OnItsWay(l, offered, done)
        BY <1>0, <1>4, <2>2, SMTT(20) DEF FactsInOrder, W!OnItsWay, W!Frame
      <4> QED  BY <1>0, <2>2, <3>2, <4>1 DEF FactsInOrder
    <3> QED  BY <3>1, <3>2
  <2> QED  BY <1>0, <1>4, <2>2, <2>3, <2>4 DEF ClientIsServed
<1> QED  BY <1>0, <1>2, <1>3, <1>4

-----------------------------------------------------------------------------
(* The operations on one client.                                                                   *)
LEMMA GoneIsServed ==
    ASSUME W!StreamAssumption
    PROVE  /\ W!Gone \in Links /\ W!Gone.queue = <<>> /\ W!Gone.sending = W!NoFrame /\ ~W!Gone.on
           /\ \A k : k.queue = <<>> /\ k.sending = W!NoFrame /\ (~k.on => k = W!Gone) => ClientIsServed(k, <<>>, <<>>)
<1>1. W!NoFrame \in Frames /\ W!NoFrame.kind = "none" /\ W!Blank \in Pictures
  BY BlankIsAPicture DEF W!NoFrame, Frames
<1>2. W!Gone \in Links /\ W!Gone.queue = <<>> /\ W!Gone.sending = W!NoFrame /\ ~W!Gone.on
  <2>1. <<>> \in Seq(Frames)
    OBVIOUS
  <2> QED  BY <1>1, <2>1 DEF W!Gone, Links
<1>3. ASSUME NEW k, k.queue = <<>>, k.sending = W!NoFrame, ~k.on => k = W!Gone PROVE ClientIsServed(k, <<>>, <<>>)
  <2>1. SnapshotsFirst(k.queue, 0) /\ Len(k.queue) = 0 /\ 0 \in 0 .. MaxSnapshots /\ 0 < MaxSnapshots
    BY <1>3 DEF SnapshotsFirst, W!StreamAssumption
  <2>2. QueueFits(k)
    BY <2>1 DEF QueueFits, W!StreamAssumption
  <2> DEFINE way == [i \in {} |-> 0]
  <2>3. W!Unsent(<<>>, <<>>) = {} /\ way \in [{} -> 0 .. Len(k.queue)]
    BY <2>1 DEF W!Unsent
  <2>4. \A n \in 0 .. Len(k.queue) : W!Frame(k, n).kind # "fact"
    BY <1>1, <1>3, <2>1 DEF W!Frame
  <2> HIDE DEF way
  <2>5. W!OnItsWay(k, <<>>, <<>>)
    BY <2>3, <2>4 DEF W!OnItsWay
  <2>6. FactsInOrder(k, <<>>, <<>>)
    BY <1>1, <1>3, <2>5 DEF FactsInOrder
  <2> QED  BY <1>3, <2>2, <2>6 DEF ClientIsServed
<1> QED  BY <1>2, <1>3

(* An operation that leaves a client's queue and what is being sent alone.                           *)
LEMMA SameFrames ==
    ASSUME NEW k, NEW l, NEW offered, NEW done, l.queue = k.queue, l.sending = k.sending,
           W!OnItsWay(k, offered, done)
    PROVE  W!OnItsWay(l, offered, done)
BY DEF W!OnItsWay, W!Frame

(* Cardinality, in that module and in this one. *)
LEMMA StreamCount == \A S : W!Cardinality(S) = Cardinality(S)
BY DEF W!Cardinality, Cardinality

(* A subscribe finds fewer snapshots than the bound in the queue.                                    *)
LEMMA FewAreWaiting ==
    ASSUME W!StreamAssumption, NEW k \in Links, NEW n \in 0 .. MaxSnapshots, SnapshotsFirst(k.queue, n),
           W!Waiting(k) < MaxSnapshots
    PROVE  n < MaxSnapshots
<1>1. k.queue \in Seq(Frames) /\ Len(k.queue) \in Nat /\ n \in Nat /\ n <= Len(k.queue)
  BY DEF Links, W!StreamAssumption, SnapshotsFirst
<1>2. {i \in DOMAIN k.queue : k.queue[i].kind = "snapshot"} = 1 .. n
  <2>1. DOMAIN k.queue = 1 .. Len(k.queue)
    BY <1>1
  <2>2. \A i \in 1 .. Len(k.queue) : k.queue[i].kind = "snapshot" <=> i <= n
    BY DEF SnapshotsFirst
  <2>3. \A i \in 1 .. n : i \in 1 .. Len(k.queue)
    BY <1>1
  <2>4. \A i \in 1 .. Len(k.queue) : i <= n => i \in 1 .. n
    BY <1>1
  <2> QED  BY <2>1, <2>2, <2>3, <2>4
<1>3. Cardinality(1 .. n) = n
  BY <1>1, FS_Interval
<1> QED  BY <1>2, <1>3, StreamCount DEF W!Waiting

(* push_first: the snapshot goes in front, and every frame of the queue moves one place back.           *)
LEMMA SnapshotInFront ==
    ASSUME NEW k, NEW l, NEW queue \in Seq(Frames), k.queue = queue, NEW s \in Frames, s.kind = "snapshot",
           NEW longer, longer = <<s>> \o queue, l.queue = longer, l.sending = k.sending,
           NEW offered \in Seq(Frames), NEW done \in Seq(Frames),
           \A i \in 1 .. Len(offered) : offered[i].kind = "fact"
    PROVE  /\ longer \in Seq(Frames) /\ Len(longer) = Len(queue) + 1
           /\ \A n \in Nat : SnapshotsFirst(queue, n) => SnapshotsFirst(longer, n + 1)
           /\ W!OnItsWay(k, offered, done) => W!OnItsWay(l, offered, done)
<1>1. Len(queue) \in Nat /\ s \in Frames /\ s.kind = "snapshot"
  OBVIOUS
<1>2. /\ longer \in Seq(Frames) /\ Len(longer) = Len(queue) + 1 /\ longer[1] = s
      /\ \A n \in 1 .. Len(queue) : longer[n + 1] = queue[n]
  <2>1. <<s>> \in Seq(Frames) /\ Len(<<s>>) = 1 /\ <<s>>[1] = s
    OBVIOUS
  <2>2. PICK b : b = <<s>>
    OBVIOUS
  <2>3. b \in Seq(Frames) /\ Len(b) = 1 /\ b[1] = s /\ longer = b \o queue /\ queue \in Seq(Frames)
    BY <2>1, <2>2
  <2>4. /\ longer \in Seq(Frames) /\ Len(longer) = Len(b) + Len(queue)
        /\ \A n \in 1 .. Len(b) : longer[n] = b[n]
        /\ \A n \in Len(b) + 1 .. Len(b) + Len(queue) : longer[n] = queue[n - Len(b)]
    <3>1. b \in Seq(Frames) /\ queue \in Seq(Frames) /\ longer = b \o queue
      BY ONLY <2>3
    <3> QED  BY ONLY <3>1, Joined
  <2>5. ASSUME NEW n \in 1 .. Len(queue) PROVE longer[n + 1] = queue[n]
    <3>1. n + 1 \in 2 .. 1 + Len(queue) /\ (n + 1) - 1 = n
      BY ONLY <1>1, <2>5
    <3> QED  BY ONLY <2>3, <2>4, <3>1
  <2>6. longer \in Seq(Frames) /\ Len(longer) = Len(queue) + 1 /\ longer[1] = s
    BY ONLY <1>1, <2>3, <2>4
  <2> QED  BY <2>5, <2>6
<1>3. \A n \in 1 .. Len(longer) : n = 1 \/ (n - 1 \in 1 .. Len(queue) /\ longer[n] = queue[n - 1])
  <2> SUFFICES ASSUME NEW n \in 1 .. Len(longer), n # 1 PROVE n - 1 \in 1 .. Len(queue) /\ longer[n] = queue[n - 1]
    OBVIOUS
  <2>1. n - 1 \in 1 .. Len(queue) /\ (n - 1) + 1 = n
    BY <1>1, <1>2
  <2> QED  BY <1>2, <2>1
<1>4. ASSUME NEW n \in Nat, SnapshotsFirst(queue, n) PROVE SnapshotsFirst(longer, n + 1)
  <2>1. n <= Len(queue) /\ \A i \in 1 .. Len(queue) : queue[i].kind = "snapshot" <=> i <= n
    BY <1>4 DEF SnapshotsFirst
  <2>2. \A i \in 1 .. Len(longer) : longer[i].kind = "snapshot" <=> i <= n + 1
    BY <1>1, <1>2, <1>3, <2>1
  <2> QED  BY <1>1, <1>2, <2>1, <2>2 DEF SnapshotsFirst
<1>5. ASSUME W!OnItsWay(k, offered, done) PROVE W!OnItsWay(l, offered, done)
  <2> DEFINE m == [n \in 0 .. Len(queue) |-> IF n = 0 THEN 0 ELSE n + 1]
  <2>1. m \in [0 .. Len(queue) -> 0 .. Len(longer)]
    BY <1>1, <1>2
  <2>2. m[0] = 0 /\ \A n \in 1 .. Len(queue) : m[n] = n + 1
    <3>1. 0 \in 0 .. Len(queue) /\ \A n \in 1 .. Len(queue) : n \in 0 .. Len(queue) /\ n # 0
      BY <1>1
    <3> QED  BY <3>1
  <2>3. /\ W!Frame(k, 0) = W!Frame(l, 0) /\ \A n \in 1 .. Len(queue) : W!Frame(k, n) = queue[n]
        /\ \A n \in 1 .. Len(longer) : W!Frame(l, n) = longer[n]
    BY <1>1, <1>2 DEF W!Frame
  <2> HIDE DEF m
  <2>4. \A n \in 0 .. Len(queue) : n = 0 \/ n \in 1 .. Len(queue)
    BY <1>1
  <2>5. \A n \in 0 .. Len(queue) : W!Frame(l, m[n]) = W!Frame(k, n)
    <3>1. \A n \in 1 .. Len(queue) : n + 1 \in 1 .. Len(longer)
      BY <1>1, <1>2
    <3>2. \A n \in 1 .. Len(queue) : W!Frame(l, m[n]) = queue[n]
      BY ONLY <1>2, <2>2, <2>3, <3>1
    <3>3. W!Frame(l, m[0]) = W!Frame(k, 0)
      BY ONLY <2>2, <2>3
    <3> QED  BY ONLY <2>3, <2>4, <3>2, <3>3
  <2>6. \A n, p \in 0 .. Len(queue) : n < p => m[n] < m[p]
    BY <1>1, <2>2, <2>4, SMTT(20)
  <2>7. \A n \in 0 .. Len(longer) : W!Frame(l, n).kind = "fact" =>
          \E p \in 0 .. Len(queue) : W!Frame(k, p).kind = "fact" /\ m[p] = n
    <3> SUFFICES ASSUME NEW n \in 0 .. Len(longer), W!Frame(l, n).kind = "fact"
                 PROVE  \E p \in 0 .. Len(queue) : W!Frame(k, p).kind = "fact" /\ m[p] = n
      OBVIOUS
    <3>1. CASE n = 0
      BY <1>1, <2>2, <2>3, <3>1
    <3>2. CASE n \in 1 .. Len(longer)
      <4>1. n # 1
        BY <1>1, <1>2, <2>3, <3>2
      <4>2. n - 1 \in 1 .. Len(queue) /\ W!Frame(k, n - 1) = W!Frame(l, n) /\ m[n - 1] = n /\ n - 1 \in 0 .. Len(queue)
        <5>1. n - 1 \in 1 .. Len(queue) /\ longer[n] = queue[n - 1]
          BY <1>3, <3>2, <4>1
        <5>2. (n - 1) + 1 = n /\ n - 1 \in 0 .. Len(queue)
          BY <1>1, <3>2, <5>1
        <5> QED  BY <2>2, <2>3, <3>2, <5>1, <5>2
      <4> QED  BY <4>2
    <3> QED  BY <1>1, <1>2, <3>1, <3>2
  <2>8. MovesTo(m, k, l)
    BY <2>1, <2>5, <2>6, <2>7 DEF MovesTo
  <2>9. Len(k.queue) \in Nat /\ Len(l.queue) \in Nat
    BY <1>1, <1>2
  <2>10. offered \in Seq(Frames) /\ done \in Seq(Frames) /\ \A i \in 1 .. Len(offered) : offered[i].kind = "fact"
    OBVIOUS
  <2> QED  BY ONLY <1>5, <2>8, <2>9, <2>10, FramesMove
<1> QED  BY <1>2, <1>4, <1>5

(* The writer takes the first frame, and the others move one place forward.                            *)
FirstTaken(k, l) ==
    /\ k.queue \in Seq(Frames) /\ k.queue # <<>> /\ k.sending.kind # "fact"
    /\ l.queue = Tail(k.queue) /\ l.sending = Head(k.queue)

LEMMA FirstIsTaken ==
    ASSUME NEW k, NEW l, FirstTaken(k, l), NEW offered \in Seq(Frames), NEW done \in Seq(Frames),
           \A i \in 1 .. Len(offered) : offered[i].kind = "fact"
    PROVE  /\ l.queue \in Seq(Frames) /\ Len(l.queue) = Len(k.queue) - 1
           /\ \A n \in Nat : SnapshotsFirst(k.queue, n) => SnapshotsFirst(l.queue, IF n = 0 THEN 0 ELSE n - 1)
           /\ W!OnItsWay(k, offered, done) => W!OnItsWay(l, offered, done)
<1> SUFFICES ASSUME NEW queue \in Seq(Frames), k.queue = queue, queue # <<>>, k.sending.kind # "fact",
                    NEW shorter, shorter = Tail(queue), l.queue = shorter, l.sending = Head(queue)
             PROVE  /\ shorter \in Seq(Frames) /\ Len(shorter) = Len(queue) - 1
                    /\ \A n \in Nat : SnapshotsFirst(queue, n) => SnapshotsFirst(shorter, IF n = 0 THEN 0 ELSE n - 1)
                    /\ W!OnItsWay(k, offered, done) => W!OnItsWay(l, offered, done)
  BY DEF FirstTaken
<1>1. Len(queue) \in Nat /\ Len(queue) > 0
  OBVIOUS
<1>2. /\ shorter \in Seq(Frames) /\ Len(shorter) = Len(queue) - 1 /\ Head(queue) = queue[1]
      /\ \A n \in 1 .. Len(shorter) : shorter[n] = queue[n + 1]
  OBVIOUS
<1>3. ASSUME NEW n \in Nat, SnapshotsFirst(queue, n) PROVE SnapshotsFirst(shorter, IF n = 0 THEN 0 ELSE n - 1)
  <2>1. n <= Len(queue) /\ \A i \in 1 .. Len(queue) : queue[i].kind = "snapshot" <=> i <= n
    BY <1>3 DEF SnapshotsFirst
  <2>2. \A i \in 1 .. Len(shorter) : i + 1 \in 1 .. Len(queue)
    BY <1>1, <1>2
  <2>3. \A i \in 1 .. Len(shorter) : shorter[i].kind = "snapshot" <=> i + 1 <= n
    BY <1>2, <2>1, <2>2
  <2> QED  BY <1>1, <1>2, <2>1, <2>3 DEF SnapshotsFirst
<1>4. ASSUME W!OnItsWay(k, offered, done) PROVE W!OnItsWay(l, offered, done)
  <2> DEFINE m == [n \in 0 .. Len(queue) |-> IF n = 0 THEN 0 ELSE n - 1]
  <2>1. m \in [0 .. Len(queue) -> 0 .. Len(shorter)]
    BY <1>1, <1>2
  <2>2. \A n \in 1 .. Len(queue) : m[n] = n - 1
    BY <1>1
  <2> HIDE DEF m
  <2>3. /\ W!Frame(k, 0).kind # "fact" /\ \A n \in 1 .. Len(queue) : W!Frame(k, n) = queue[n]
        /\ W!Frame(l, 0) = queue[1] /\ \A n \in 1 .. Len(shorter) : W!Frame(l, n) = queue[n + 1]
    BY <1>1, <1>2 DEF W!Frame
  <2>4. \A n \in 0 .. Len(queue) : W!Frame(k, n).kind = "fact" => n \in 1 .. Len(queue)
    BY <1>1, <2>3
  <2>5. \A n \in 1 .. Len(queue) : W!Frame(l, m[n]) = W!Frame(k, n)
    <3> SUFFICES ASSUME NEW n \in 1 .. Len(queue) PROVE W!Frame(l, n - 1) = queue[n]
      BY <2>2, <2>3
    <3>1. CASE n = 1
      BY <2>3, <3>1
    <3>2. CASE n # 1
      <4>1. n - 1 \in 1 .. Len(shorter) /\ (n - 1) + 1 = n
        BY <1>1, <1>2, <3>2
      <4> QED  BY <2>3, <4>1
    <3> QED  BY <3>1, <3>2
  <2>6. \A n, p \in 1 .. Len(queue) : n < p => m[n] < m[p]
    BY <1>1, <2>2
  <2>7. \A n \in 0 .. Len(shorter) : n + 1 \in 1 .. Len(queue) /\ m[n + 1] = n /\ n + 1 \in 0 .. Len(queue)
    BY <1>1, <1>2, <2>2
  <2>8. MovesTo(m, k, l)
    <3>1. \A n \in 0 .. Len(shorter) : W!Frame(l, n).kind = "fact" =>
            \E p \in 0 .. Len(queue) : W!Frame(k, p).kind = "fact" /\ m[p] = n
      BY <2>5, <2>7
    <3>2. \A n \in 0 .. Len(queue) : W!Frame(k, n).kind = "fact" => W!Frame(l, m[n]) = W!Frame(k, n)
      BY <2>4, <2>5
    <3>3. \A n, p \in 0 .. Len(queue) :
            n < p /\ W!Frame(k, n).kind = "fact" /\ W!Frame(k, p).kind = "fact" => m[n] < m[p]
      BY <2>4, <2>6
    <3> QED  BY <2>1, <3>1, <3>2, <3>3 DEF MovesTo
  <2>9. Len(k.queue) \in Nat /\ Len(l.queue) \in Nat
    BY <1>1, <1>2
  <2>10. offered \in Seq(Frames) /\ done \in Seq(Frames) /\ \A i \in 1 .. Len(offered) : offered[i].kind = "fact"
    OBVIOUS
  <2> QED  BY ONLY <1>4, <2>8, <2>9, <2>10, FramesMove
<1> QED  BY <1>2, <1>3, <1>4

-----------------------------------------------------------------------------
(* Every step keeps the invariant.                                                                 *)

(* A frame that is no fact is sent, and all that is owed is still on its way.                         *)
LEMMA NothingOwedWasSent ==
    ASSUME NEW k, NEW l, NEW offered \in Seq(Frames), NEW done \in Seq(Frames), k.queue \in Seq(Frames),
           l.queue = k.queue, k.sending.kind # "fact", l.sending.kind # "fact",
           \A i \in 1 .. Len(offered) : offered[i].kind = "fact", W!OnItsWay(k, offered, done)
    PROVE  W!OnItsWay(l, offered, done)
<1> DEFINE m == [n \in 0 .. Len(k.queue) |-> n]
<1>1. Len(k.queue) \in Nat /\ Len(l.queue) \in Nat /\ Len(l.queue) = Len(k.queue)
  OBVIOUS
<1>2. m \in [0 .. Len(k.queue) -> 0 .. Len(l.queue)] /\ \A n \in 0 .. Len(k.queue) : m[n] = n
  BY <1>1
<1> HIDE DEF m
<1>3. /\ W!Frame(k, 0).kind # "fact" /\ W!Frame(l, 0).kind # "fact"
      /\ \A n \in 0 .. Len(k.queue) : n # 0 => W!Frame(l, n) = W!Frame(k, n)
  BY DEF W!Frame
<1>4. MovesTo(m, k, l)
  BY <1>1, <1>2, <1>3 DEF MovesTo
<1>5. /\ offered \in Seq(Frames) /\ done \in Seq(Frames) /\ W!OnItsWay(k, offered, done)
      /\ \A i \in 1 .. Len(offered) : offered[i].kind = "fact"
  OBVIOUS
<1> QED  BY ONLY <1>1, <1>4, <1>5, FramesMove

(* Every client is served in the next state.                                                       *)
LEMMA AllAreServed ==
    ASSUME \A c \in Clients : ClientIsServed(link'[c], owed'[c], got'[c])
    PROVE  (\A c \in Clients : ClientIsServed(link[c], owed[c], got[c]))'
BY DEF ClientIsServed, QueueFits, FactsInOrder, SnapshotsFirst, W!OnItsWay, W!Unsent, W!Frame

LEMMA NothingIsServed ==
    ASSUME StreamInv, fact' \in [Shown -> 0 .. MaxFacts], UNCHANGED <<told, link, view, owed, got>> PROVE StreamInv'
<1>1. StreamTyped'
  BY DEF StreamInv, StreamTyped
<1>2. \A c \in Clients : ClientIsServed(link'[c], owed'[c], got'[c])
  BY DEF StreamInv
<1> QED  BY <1>1, <1>2, AllAreServed DEF StreamInv

(* A step of one client.                                                                           *)
LEMMA OneClientChanges ==
    ASSUME StreamInv, NEW c \in Clients, NEW k \in Links, link' = [link EXCEPT ![c] = k], UNCHANGED <<fact, told>>,
           NEW v \in Pictures, view' = [view EXCEPT ![c] = v],
           NEW o \in Seq(Frames), owed' = [owed EXCEPT ![c] = o],
           NEW g \in Seq(Frames), got' = [got EXCEPT ![c] = g], ClientIsServed(k, o, g)
    PROVE  StreamInv'
<1>1. /\ StreamTyped
      /\ \A d \in Clients : ClientIsServed(link[d], owed[d], got[d])
  BY DEF StreamInv
<1>2. StreamTyped'
  BY <1>1 DEF StreamTyped
<1>3. ASSUME NEW d \in Clients PROVE ClientIsServed(link'[d], owed'[d], got'[d])
  <2>1. CASE d = c
    <3>1. link'[d] = k /\ owed'[d] = o /\ got'[d] = g
      BY <1>1, <2>1 DEF StreamTyped
    <3> QED  BY <3>1
  <2>2. CASE d # c
    <3>1. link'[d] = link[d] /\ owed'[d] = owed[d] /\ got'[d] = got[d]
      BY <1>1, <2>2 DEF StreamTyped
    <3> QED  BY <1>1, <3>1
  <2> QED  BY <2>1, <2>2
<1>4. \A d \in Clients : ClientIsServed(link[d], owed[d], got[d])'
  BY <1>3, AllAreServed
<1> QED  BY <1>2, <1>4 DEF StreamInv

(* The core offers a frame to those who hear it.                                                    *)
LEMMA OffersServe ==
    ASSUME W!StreamAssumption, StreamInv, NEW frame \in Frames, frame.kind \in {"fact", "quote"}, NEW a \in Shown,
           fact' = fact, told' \in [Shown -> 0 .. MaxFacts], view' = view, got' = got,
           link' = [c \in Clients |-> IF W!Hears(c, a) THEN W!Offered(link[c], frame) ELSE link[c]],
           owed' = [c \in Clients |-> IF W!Hears(c, a) /\ frame.kind = "fact" /\ ~link[c].closed /\ ~link[c].overflowed
                                        THEN Append(owed[c], frame) ELSE owed[c]]
    PROVE  StreamInv'
<1>1. /\ StreamTyped
      /\ \A c \in Clients : ClientIsServed(link[c], owed[c], got[c])
  BY DEF StreamInv
<1>2. ASSUME NEW c \in Clients
      PROVE  link'[c] \in Links /\ owed'[c] \in Seq(Frames) /\ ClientIsServed(link'[c], owed'[c], got'[c])
  <2>1. link[c] \in Links /\ owed[c] \in Seq(Frames) /\ got[c] \in Seq(Frames)
    BY <1>1 DEF StreamTyped
  <2>2. CASE W!Hears(c, a)
    <3>1. /\ link'[c] = W!Offered(link[c], frame) /\ got'[c] = got[c] /\ link[c].on
          /\ owed'[c] = IF frame.kind = "fact" /\ ~link[c].closed /\ ~link[c].overflowed
                          THEN Append(owed[c], frame) ELSE owed[c]
      BY <2>2 DEF W!Hears
    <3> QED  BY <1>1, <2>1, <3>1, OfferServes
  <2>3. CASE ~W!Hears(c, a)
    <3>1. link'[c] = link[c] /\ owed'[c] = owed[c] /\ got'[c] = got[c]
      BY <2>3
    <3> QED  BY <1>1, <2>1, <3>1
  <2> QED  BY <2>2, <2>3
<1>3. StreamTyped'
  BY <1>1, <1>2 DEF StreamTyped
<1>4. (\A c \in Clients : ClientIsServed(link[c], owed[c], got[c]))'
  BY <1>2, AllAreServed
<1> QED  BY <1>3, <1>4 DEF StreamInv

LEMMA StepServes == ASSUME W!StreamAssumption, StreamInv, W!Next PROVE StreamInv'
<1>1. /\ StreamTyped
      /\ \A c \in Clients : ClientIsServed(link[c], owed[c], got[c])
      /\ \A c \in Clients : /\ link[c] \in Links /\ view[c] \in Pictures
                            /\ owed[c] \in Seq(Frames) /\ got[c] \in Seq(Frames)
  BY DEF StreamInv, StreamTyped
<1>2. W!NoFrame \in Frames /\ W!NoFrame.kind = "none"
  BY <1>1, FramesAreTyped
<1>3. ASSUME NEW a \in Shown, W!Changes(a) PROVE StreamInv'
  <2>1. fact[a] \in 0 .. MaxFacts /\ fact' = [fact EXCEPT ![a] = fact[a] + 1] /\ fact[a] < MaxFacts
    BY <1>1, <1>3 DEF W!Changes, StreamTyped
  <2>2. fact' \in [Shown -> 0 .. MaxFacts]
    BY <1>1, <2>1 DEF StreamTyped, W!StreamAssumption
  <2>3. UNCHANGED <<told, link, view, owed, got>>
    BY <1>3 DEF W!Changes
  <2> QED  BY <2>2, <2>3, NothingIsServed
<1>4. ASSUME NEW a \in Shown, W!Publishes(a) PROVE StreamInv'
  <2>1. W!Fact(a) \in Frames /\ W!Fact(a).kind = "fact"
    BY <1>1, FramesAreTyped
  <2>2. PICK frame : frame = W!Fact(a)
    OBVIOUS
  <2>3. told' \in [Shown -> 0 .. MaxFacts]
    BY <1>1, <1>4 DEF W!Publishes, StreamTyped
  <2>4. /\ link' = [c \in Clients |-> IF W!Hears(c, a) THEN W!Offered(link[c], frame) ELSE link[c]]
        /\ owed' = [c \in Clients |-> IF W!Hears(c, a) /\ ~link[c].closed /\ ~link[c].overflowed
                                        THEN Append(owed[c], frame) ELSE owed[c]]
        /\ UNCHANGED <<fact, view, got>>
    BY <1>4, <2>2 DEF W!Publishes
  <2>5. owed' = [c \in Clients |-> IF W!Hears(c, a) /\ frame.kind = "fact" /\ ~link[c].closed /\ ~link[c].overflowed
                                     THEN Append(owed[c], frame) ELSE owed[c]]
    BY <2>1, <2>2, <2>4
  <2>6. frame \in Frames /\ frame.kind \in {"fact", "quote"}
    BY <2>1, <2>2
  <2> QED  BY <2>3, <2>4, <2>5, <2>6, OffersServe
<1>5. ASSUME NEW a \in Shown, W!Quotes(a) PROVE StreamInv'
  <2>1. W!Quote \in Frames /\ W!Quote.kind = "quote"
    BY <1>1, FramesAreTyped
  <2>2. PICK frame : frame = W!Quote
    OBVIOUS
  <2>3. /\ link' = [c \in Clients |-> IF W!Hears(c, a) THEN W!Offered(link[c], frame) ELSE link[c]]
        /\ UNCHANGED <<fact, told, view, owed, got>>
    BY <1>5, <2>2 DEF W!Quotes
  <2>4. frame \in Frames /\ frame.kind \in {"fact", "quote"} /\ told' \in [Shown -> 0 .. MaxFacts]
    BY <1>1, <2>1, <2>2, <2>3 DEF StreamTyped
  <2>5. owed' = [c \in Clients |-> IF W!Hears(c, a) /\ frame.kind = "fact" /\ ~link[c].closed /\ ~link[c].overflowed
                                     THEN Append(owed[c], frame) ELSE owed[c]]
    BY <1>1, <2>1, <2>2, <2>3 DEF StreamTyped
  <2> QED  BY <2>3, <2>4, <2>5, OffersServe
<1> DEFINE Same(c) == /\ view' = [view EXCEPT ![c] = view[c]] /\ owed' = [owed EXCEPT ![c] = owed[c]]
                      /\ got' = [got EXCEPT ![c] = got[c]]
<1>6. ASSUME NEW c \in Clients, UNCHANGED <<view, owed, got>> PROVE Same(c)
  BY <1>1, <1>6 DEF StreamTyped
<1>7. ASSUME NEW c \in Clients, NEW k \in Links, link' = [link EXCEPT ![c] = k], UNCHANGED <<fact, told>>,
             UNCHANGED <<view, owed, got>>, ClientIsServed(k, owed[c], got[c])
      PROVE  StreamInv'
  BY <1>1, <1>6, <1>7, OneClientChanges
<1>8. ASSUME NEW c \in Clients, W!Connects(c) PROVE StreamInv'
  <2> DEFINE k == [W!Gone EXCEPT !.on = TRUE, !.reader = "builds"]
  <2>1. link' = [link EXCEPT ![c] = k] /\ UNCHANGED <<fact, told>> /\ UNCHANGED <<view, owed, got>> /\ ~link[c].on
    BY <1>8 DEF W!Connects, W!Becomes
  <2>2. k \in Links /\ k.queue = <<>> /\ k.sending = W!NoFrame /\ k.on
    BY GoneIsServed DEF Links
  <2>3. owed[c] = <<>> /\ got[c] = <<>>
    BY <1>1, <2>1 DEF ClientIsServed
  <2> HIDE DEF k
  <2>4. ClientIsServed(k, owed[c], got[c])
    BY <2>2, <2>3, GoneIsServed
  <2> QED  BY <1>7, <2>1, <2>2, <2>4
<1>9. ASSUME NEW c \in Clients, NEW asked \in SUBSET Shown, W!Asks(c, asked) PROVE StreamInv'
  <2> DEFINE k == [link[c] EXCEPT !.wants = asked, !.reader = "builds", !.picture = W!Blank]
  <2>1. /\ link' = [link EXCEPT ![c] = k] /\ UNCHANGED <<fact, told>> /\ UNCHANGED <<view, owed, got>> /\ link[c].on
        /\ W!Waiting(link[c]) < MaxSnapshots
    BY <1>9 DEF W!Asks, W!Becomes
  <2>2. /\ k \in Links /\ k.queue = link[c].queue /\ k.sending = link[c].sending /\ k.on = link[c].on
        /\ k.closed = link[c].closed /\ k.overflowed = link[c].overflowed
    BY <1>1, BlankIsAPicture DEF Links
  <2> HIDE DEF k
  <2>3. QueueFits(k)
    <3>1. PICK n \in 0 .. MaxSnapshots : SnapshotsFirst(link[c].queue, n) /\ Len(link[c].queue) <= Capacity + n
      BY <1>1 DEF ClientIsServed, QueueFits
    <3>2. n < MaxSnapshots
      BY <1>1, <2>1, <3>1, FewAreWaiting
    <3> QED  BY <2>2, <3>1, <3>2 DEF QueueFits
  <2>4. FactsInOrder(k, owed[c], got[c])
    BY <1>1, <2>2, SameFrames DEF ClientIsServed, FactsInOrder
  <2>5. ClientIsServed(k, owed[c], got[c])
    BY <1>1, <2>1, <2>2, <2>3, <2>4 DEF ClientIsServed
  <2> QED  BY <1>7, <2>1, <2>2, <2>5
<1>10. ASSUME NEW c \in Clients, NEW a \in Shown, W!BuildsOn(c, a) PROVE StreamInv'
  <2> DEFINE k == [link[c] EXCEPT !.picture = W!Seen(@, a)]
  <2>1. /\ link' = [link EXCEPT ![c] = k] /\ UNCHANGED <<fact, told>> /\ UNCHANGED <<view, owed, got>>
        /\ link[c].reader = "builds"
    BY <1>10 DEF W!BuildsOn, W!Becomes
  <2>2. W!Seen(link[c].picture, a) \in Pictures
    BY <1>1, SeenIsAPicture DEF Links
  <2>3. /\ k \in Links /\ k.queue = link[c].queue /\ k.sending = link[c].sending /\ k.on = link[c].on
        /\ k.closed = link[c].closed /\ k.overflowed = link[c].overflowed /\ k.reader = link[c].reader
    BY <1>1, <2>2 DEF Links
  <2> HIDE DEF k
  <2>4. link[c].on
    BY <1>1, <2>1 DEF ClientIsServed, W!Gone
  <2>5. QueueFits(k)
    BY <1>1, <2>3 DEF ClientIsServed, QueueFits
  <2>6. FactsInOrder(k, owed[c], got[c])
    BY <1>1, <2>3, SameFrames DEF ClientIsServed, FactsInOrder
  <2>7. ClientIsServed(k, owed[c], got[c])
    BY <1>1, <2>3, <2>4, <2>5, <2>6 DEF ClientIsServed
  <2> QED  BY <1>7, <2>1, <2>3, <2>7
<1>11. ASSUME NEW c \in Clients, W!Pushes(c) PROVE StreamInv'
  <2> DEFINE Longer == IF link[c].closed \/ link[c].overflowed THEN link[c].queue
                       ELSE <<W!Snapshot(link[c].picture)>> \o link[c].queue
             k == [link[c] EXCEPT !.reader = "reads", !.picture = W!Blank, !.queue = Longer]
  <2>1. /\ link' = [link EXCEPT ![c] = k] /\ UNCHANGED <<fact, told>> /\ UNCHANGED <<view, owed, got>>
        /\ link[c].reader = "builds"
    BY <1>11 DEF W!Pushes, W!Becomes
  <2>2. link[c].on /\ link[c].queue \in Seq(Frames) /\ link[c].picture \in Pictures
    BY <1>1, <2>1 DEF ClientIsServed, W!Gone, Links
  <2>3. PICK s : s = W!Snapshot(link[c].picture)
    OBVIOUS
  <2>4. s \in Frames /\ s.kind = "snapshot"
    BY <1>1, <2>2, <2>3, FramesAreTyped
  <2>5. PICK n \in 0 .. MaxSnapshots :
          SnapshotsFirst(link[c].queue, n) /\ Len(link[c].queue) <= Capacity + n /\ n < MaxSnapshots
    BY <1>1, <2>1 DEF ClientIsServed, QueueFits
  <2>6. PICK longer : longer = <<s>> \o link[c].queue
    OBVIOUS
  <2>7. \A i \in 1 .. Len(owed[c]) : owed[c][i].kind = "fact"
    BY <1>1 DEF ClientIsServed, FactsInOrder
  <2>8. CASE link[c].closed \/ link[c].overflowed
    <3>1. /\ k \in Links /\ k.queue = link[c].queue /\ k.sending = link[c].sending /\ k.on = link[c].on
          /\ k.closed = link[c].closed /\ k.overflowed = link[c].overflowed /\ k.reader = "reads"
      BY <1>1, <2>8, BlankIsAPicture DEF Links
    <3> HIDE DEF k
    <3>2. QueueFits(k)
      BY <2>5, <3>1 DEF QueueFits
    <3>3. FactsInOrder(k, owed[c], got[c])
      BY <1>1, <3>1, SameFrames DEF ClientIsServed, FactsInOrder
    <3>4. ClientIsServed(k, owed[c], got[c])
      BY <1>1, <2>2, <3>1, <3>2, <3>3 DEF ClientIsServed
    <3> QED  BY <1>7, <2>1, <3>1, <3>4
  <2>9. CASE ~link[c].closed /\ ~link[c].overflowed
    <3>1. k = [link[c] EXCEPT !.reader = "reads", !.picture = W!Blank, !.queue = longer]
      BY <2>3, <2>6, <2>9
    <3> HIDE DEF k
    <3>2. k.queue = longer /\ k.sending = link[c].sending
      BY <1>1, <3>1 DEF Links
    <3>3. /\ longer \in Seq(Frames) /\ Len(longer) = Len(link[c].queue) + 1
          /\ \A p \in Nat : SnapshotsFirst(link[c].queue, p) => SnapshotsFirst(longer, p + 1)
          /\ W!OnItsWay(link[c], owed[c], got[c]) => W!OnItsWay(k, owed[c], got[c])
      BY <1>1, <2>2, <2>4, <2>6, <2>7, <3>2, SnapshotInFront
    <3>4. /\ k \in Links /\ k.on = link[c].on /\ k.closed = link[c].closed /\ k.overflowed = link[c].overflowed
          /\ k.reader = "reads"
      BY <1>1, <3>1, <3>3, BlankIsAPicture DEF Links
    <3>5. QueueFits(k)
      <4>1. n \in Nat /\ n + 1 \in 0 .. MaxSnapshots /\ Len(longer) <= Capacity + (n + 1)
        BY <2>2, <2>5, <3>3 DEF W!StreamAssumption
      <4>2. SnapshotsFirst(longer, n + 1)
        BY <2>5, <3>3, <4>1
      <4> QED  BY <3>2, <3>4, <4>1, <4>2 DEF QueueFits
    <3>6. FactsInOrder(k, owed[c], got[c])
      BY <1>1, <2>9, <3>2, <3>3 DEF ClientIsServed, FactsInOrder
    <3>7. ClientIsServed(k, owed[c], got[c])
      BY <1>1, <2>2, <3>2, <3>4, <3>5, <3>6 DEF ClientIsServed
    <3> HIDE DEF Longer
    <3>8. link' = [link EXCEPT ![c] = k]
      BY <2>1
    <3> QED  BY <1>7, <2>1, <3>4, <3>7, <3>8
  <2> QED  BY <2>8, <2>9
<1>12. ASSUME NEW c \in Clients, W!Leaves(c) PROVE StreamInv'
  <2>1. /\ link' = [link EXCEPT ![c] = W!Gone] /\ UNCHANGED <<fact, told>> /\ UNCHANGED view
        /\ owed' = [owed EXCEPT ![c] = <<>>] /\ got' = [got EXCEPT ![c] = <<>>]
    BY <1>12 DEF W!Leaves, W!Becomes
  <2>2. W!Gone \in Links /\ ClientIsServed(W!Gone, <<>>, <<>>) /\ <<>> \in Seq(Frames)
    BY GoneIsServed
  <2>3. view' = [view EXCEPT ![c] = view[c]]
    BY <1>1, <2>1 DEF StreamTyped
  <2> QED  BY <1>1, <2>1, <2>2, <2>3, OneClientChanges
<1>13. ASSUME NEW c \in Clients, W!Takes(c) PROVE StreamInv'
  <2> DEFINE k == [link[c] EXCEPT !.sending = Head(link[c].queue), !.queue = Tail(link[c].queue)]
  <2>1. /\ link' = [link EXCEPT ![c] = k] /\ UNCHANGED <<fact, told>> /\ UNCHANGED <<view, owed, got>>
        /\ link[c].on /\ ~link[c].closed /\ link[c].sending = W!NoFrame /\ ~link[c].overflowed /\ link[c].queue # <<>>
    BY <1>13 DEF W!Takes, W!Becomes, W!Idle
  <2>2. link[c].queue \in Seq(Frames) /\ Len(link[c].queue) \in Nat /\ link[c].sending.kind # "fact"
    BY <1>1, <1>2, <2>1 DEF Links
  <2>3. PICK shorter : shorter = Tail(link[c].queue)
    OBVIOUS
  <2>4. shorter \in Seq(Frames) /\ Head(link[c].queue) \in Frames
    BY <2>1, <2>2, <2>3
  <2>5. k = [link[c] EXCEPT !.sending = Head(link[c].queue), !.queue = shorter]
    BY <2>3
  <2> HIDE DEF k
  <2>6. /\ k \in Links /\ k.queue = shorter /\ k.sending = Head(link[c].queue) /\ k.on = link[c].on
        /\ k.closed = link[c].closed /\ k.overflowed = link[c].overflowed /\ k.reader = link[c].reader
    BY <1>1, <2>4, <2>5 DEF Links
  <2>7. \A i \in 1 .. Len(owed[c]) : owed[c][i].kind = "fact"
    BY <1>1 DEF ClientIsServed, FactsInOrder
  <2>8. /\ shorter \in Seq(Frames) /\ Len(shorter) = Len(link[c].queue) - 1
        /\ \A n \in Nat : SnapshotsFirst(link[c].queue, n) => SnapshotsFirst(shorter, IF n = 0 THEN 0 ELSE n - 1)
        /\ W!OnItsWay(link[c], owed[c], got[c]) => W!OnItsWay(k, owed[c], got[c])
    <3>1. FirstTaken(link[c], k)
      BY <2>1, <2>2, <2>3, <2>6 DEF FirstTaken
    <3>2. owed[c] \in Seq(Frames) /\ got[c] \in Seq(Frames)
      BY <1>1
    <3>3. /\ k.queue \in Seq(Frames) /\ Len(k.queue) = Len(link[c].queue) - 1
          /\ \A n \in Nat : SnapshotsFirst(link[c].queue, n) => SnapshotsFirst(k.queue, IF n = 0 THEN 0 ELSE n - 1)
          /\ W!OnItsWay(link[c], owed[c], got[c]) => W!OnItsWay(k, owed[c], got[c])
      BY ONLY <2>7, <3>1, <3>2, FirstIsTaken
    <3> QED  BY ONLY <2>6, <3>3
  <2>9. QueueFits(k)
    <3>1. PICK n \in 0 .. MaxSnapshots : /\ SnapshotsFirst(link[c].queue, n) /\ Len(link[c].queue) <= Capacity + n
                                         /\ link[c].reader = "builds" => n < MaxSnapshots
      BY <1>1 DEF ClientIsServed, QueueFits
    <3> DEFINE p == IF n = 0 THEN 0 ELSE n - 1
    <3>2. p \in 0 .. MaxSnapshots /\ p <= n /\ n <= p + 1 /\ n \in Nat /\ Capacity \in Nat /\ MaxSnapshots \in Nat
      BY <3>1 DEF W!StreamAssumption
    <3>3. SnapshotsFirst(shorter, p)
      BY <2>8, <3>1, <3>2
    <3> HIDE DEF p
    <3>4. Len(shorter) <= Capacity + p /\ (link[c].reader = "builds" => p < MaxSnapshots)
      BY <2>2, <2>8, <3>1, <3>2
    <3> QED  BY <2>6, <3>2, <3>3, <3>4 DEF QueueFits
  <2>10. FactsInOrder(k, owed[c], got[c])
    <3>1. W!OnItsWay(k, owed[c], got[c])
      BY <1>1, <2>1, <2>8 DEF ClientIsServed, FactsInOrder
    <3>2. k.sending.kind = "fact" => Len(got[c]) < Len(owed[c]) /\ owed[c][Len(got[c]) + 1] = k.sending
      <4> DEFINE rest == [k EXCEPT !.sending = W!NoFrame]
      <4>1. rest.queue = k.queue /\ rest.sending = W!NoFrame /\ k.queue \in Seq(Frames) /\ k.sending \in Frames
        BY <2>4, <2>6 DEF Links
      <4> HIDE DEF rest
      <4> QED  BY <1>1, <1>2, <3>1, <4>1, OneFactSent
    <3> QED  BY <1>1, <2>6, <3>1, <3>2 DEF ClientIsServed, FactsInOrder
  <2>11. ClientIsServed(k, owed[c], got[c])
    BY <2>1, <2>6, <2>9, <2>10 DEF ClientIsServed
  <2> QED  BY <1>7, <2>1, <2>6, <2>11
<1>14. ASSUME NEW c \in Clients, W!Sends(c) PROVE StreamInv'
  <2> DEFINE k == [link[c] EXCEPT !.sending = W!NoFrame]
             v == W!ShownAfter(view[c], link[c].sending)
             g == IF link[c].sending.kind = "fact" THEN Append(got[c], link[c].sending) ELSE got[c]
  <2>1. /\ link' = [link EXCEPT ![c] = k] /\ UNCHANGED <<fact, told>> /\ UNCHANGED owed
        /\ view' = [view EXCEPT ![c] = v] /\ got' = [got EXCEPT ![c] = g] /\ link[c].sending # W!NoFrame
    BY <1>14 DEF W!Sends, W!Becomes
  <2>2. /\ link[c].queue \in Seq(Frames) /\ link[c].sending \in Frames /\ link[c].sending.says \in Pictures
    BY <1>1 DEF Links, Frames
  <2>3. /\ k \in Links /\ k.queue = link[c].queue /\ k.sending = W!NoFrame /\ k.on = link[c].on
        /\ k.closed = link[c].closed /\ k.overflowed = link[c].overflowed /\ k.reader = link[c].reader
    BY <1>1, <1>2 DEF Links
  <2>4. v \in Pictures
    <3>1. CASE link[c].sending.kind = "snapshot"
      BY <2>2, <3>1 DEF W!ShownAfter
    <3>2. CASE link[c].sending.kind # "snapshot"
      <4>1. PICK S \in SUBSET Shown : view[c] \in [S -> Nat]
        BY <1>1 DEF Pictures
      <4>2. PICK T \in SUBSET Shown : link[c].sending.says \in [T -> Nat]
        BY <2>2 DEF Pictures
      <4>3. v \in [S -> Nat]
        BY <3>2, <4>1, <4>2 DEF W!ShownAfter
      <4> QED  BY <4>3 DEF Pictures
    <3> QED  BY <3>1, <3>2
  <2>5. g \in Seq(Frames)
    BY <1>1, <2>2
  <2>6. link[c].on /\ ~link[c].closed
    BY <1>1, <2>1, GoneIsServed DEF ClientIsServed
  <2> HIDE DEF k, v
  <2>7. QueueFits(k)
    BY <1>1, <2>3 DEF ClientIsServed, QueueFits
  <2>8. FactsInOrder(link[c], owed[c], got[c])
    BY <1>1 DEF ClientIsServed
  <2>9. FactsInOrder(k, owed[c], g)
    <3>1. CASE link[c].sending.kind = "fact"
      <4>1. g = Append(got[c], link[c].sending)
        BY <3>1
      <4>2. /\ Len(got[c]) \in Nat /\ Len(g) = Len(got[c]) + 1 /\ g[Len(got[c]) + 1] = link[c].sending
            /\ \A i \in 1 .. Len(got[c]) : g[i] = got[c][i]
        BY <1>1, <2>2, <4>1
      <4>3. ~k.overflowed /\ ~k.closed => W!OnItsWay(k, owed[c], g)
        BY <1>1, <1>2, <2>2, <2>3, <2>8, <3>1, <4>1, OneFactSent DEF FactsInOrder
      <4>4. Len(g) <= Len(owed[c]) /\ \A i \in 1 .. Len(g) : g[i] = owed[c][i]
        <5>1. Len(got[c]) < Len(owed[c]) /\ owed[c][Len(got[c]) + 1] = link[c].sending
          BY <2>8, <3>1 DEF FactsInOrder
        <5>2. Len(owed[c]) \in Nat
          BY <1>1
        <5>3. \A i \in 1 .. Len(got[c]) : got[c][i] = owed[c][i]
          BY <2>8 DEF FactsInOrder
        <5> HIDE DEF g
        <5> QED  BY <4>2, <5>1, <5>2, <5>3
      <4> QED  BY <1>2, <2>3, <2>8, <4>3, <4>4 DEF FactsInOrder
    <3>2. CASE link[c].sending.kind # "fact"
      <4>1. g = got[c]
        BY <3>2
      <4>2. W!OnItsWay(link[c], owed[c], got[c]) => W!OnItsWay(k, owed[c], got[c])
        <5>1. W!Frame(link[c], 0).kind # "fact" /\ W!Frame(k, 0).kind # "fact"
          BY <1>2, <2>3, <3>2 DEF W!Frame
        <5> QED  BY <1>1, <1>2, <2>2, <2>3, <2>8, <3>2, NothingOwedWasSent DEF FactsInOrder
      <4> QED  BY <1>2, <2>3, <2>8, <4>1, <4>2 DEF FactsInOrder
    <3> QED  BY <3>1, <3>2
  <2>10. ClientIsServed(k, owed[c], g)
    BY <2>3, <2>6, <2>7, <2>9 DEF ClientIsServed
  <2>11. owed' = [owed EXCEPT ![c] = owed[c]]
    BY <1>1, <2>1 DEF StreamTyped
  <2> HIDE DEF g
  <2> QED  BY <1>1, <2>1, <2>3, <2>4, <2>5, <2>10, <2>11, OneClientChanges
<1>15. ASSUME NEW c \in Clients, W!SendFails(c) PROVE StreamInv'
  <2> DEFINE k == [link[c] EXCEPT !.sending = W!NoFrame, !.closed = TRUE]
  <2>1. /\ link' = [link EXCEPT ![c] = k] /\ UNCHANGED <<fact, told>> /\ UNCHANGED <<view, owed, got>>
        /\ link[c].sending # W!NoFrame
    BY <1>15 DEF W!SendFails, W!Becomes
  <2>2. k \in Links /\ k.queue = link[c].queue /\ k.sending = W!NoFrame /\ k.on = link[c].on /\ k.closed /\ k.reader = link[c].reader
    BY <1>1, <1>2 DEF Links
  <2>3. link[c].on
    BY <1>1, <2>1, GoneIsServed DEF ClientIsServed
  <2> HIDE DEF k
  <2>4. QueueFits(k) /\ FactsInOrder(k, owed[c], got[c])
    BY <1>1, <1>2, <2>2 DEF ClientIsServed, QueueFits, FactsInOrder
  <2>5. ClientIsServed(k, owed[c], got[c])
    BY <2>2, <2>3, <2>4 DEF ClientIsServed
  <2> QED  BY <1>7, <2>1, <2>2, <2>5
<1>16. ASSUME NEW c \in Clients, W!SendsBack(c) PROVE StreamInv'
  <2> DEFINE k == [link[c] EXCEPT !.closed = TRUE]
  <2>1. /\ link' = [link EXCEPT ![c] = k] /\ UNCHANGED <<fact, told>> /\ UNCHANGED <<view, owed, got>>
        /\ link[c].sending = W!NoFrame /\ link[c].on
    BY <1>16 DEF W!SendsBack, W!Becomes, W!Idle
  <2>2. k \in Links /\ k.queue = link[c].queue /\ k.sending = link[c].sending /\ k.on = link[c].on /\ k.closed /\ k.reader = link[c].reader
    BY <1>1 DEF Links
  <2> HIDE DEF k
  <2>3. QueueFits(k) /\ FactsInOrder(k, owed[c], got[c])
    BY <1>1, <2>2 DEF ClientIsServed, QueueFits, FactsInOrder
  <2>4. ClientIsServed(k, owed[c], got[c])
    BY <2>1, <2>2, <2>3 DEF ClientIsServed
  <2> QED  BY <1>7, <2>1, <2>2, <2>4
<1> QED
  BY <1>3, <1>4, <1>5, <1>8, <1>9, <1>10, <1>11, <1>12, <1>13, <1>14, <1>15, <1>16 DEF W!Next

(* What a client was sent is the beginning of what it was owed, and the rest is on its way or the *)
(* client is sent back (CockpitStream, Client.offer, Client.push_first).                          *)
LEMMA StreamIsSafe == W!StreamAssumption => (W!Spec => [](W!StreamTypeOK /\ W!NoHole))
<1> SUFFICES ASSUME W!StreamAssumption PROVE W!Spec => [](W!StreamTypeOK /\ W!NoHole)
  OBVIOUS
<1>1. W!Init => StreamInv
  <2> SUFFICES ASSUME W!Init PROVE StreamInv
    OBVIOUS
  <2>1. /\ fact = [a \in Shown |-> 0] /\ told = fact /\ link = [c \in Clients |-> W!Gone]
        /\ view = [c \in Clients |-> W!Blank] /\ owed = [c \in Clients |-> <<>>] /\ got = [c \in Clients |-> <<>>]
    BY DEF W!Init
  <2>2. W!Gone \in Links /\ W!Blank \in Pictures /\ <<>> \in Seq(Frames) /\ 0 \in 0 .. MaxFacts
    BY GoneIsServed, BlankIsAPicture DEF W!StreamAssumption
  <2>3. StreamTyped
    BY <2>1, <2>2 DEF StreamTyped
  <2>4. \A c \in Clients : link[c] = W!Gone /\ owed[c] = <<>> /\ got[c] = <<>>
    BY <2>1
  <2>5. ClientIsServed(W!Gone, <<>>, <<>>)
    BY GoneIsServed
  <2> QED  BY <2>3, <2>4, <2>5 DEF StreamInv
<1>2. StreamInv /\ [W!Next]_(W!streamVars) => StreamInv'
  <2>1. ASSUME StreamInv, UNCHANGED W!streamVars PROVE StreamInv'
    <3>1. fact' \in [Shown -> 0 .. MaxFacts] /\ UNCHANGED <<told, link, view, owed, got>>
      BY <2>1 DEF W!streamVars, StreamInv, StreamTyped
    <3> QED  BY <2>1, <3>1, NothingIsServed
  <2> QED  BY <2>1, StepServes
<1>3. StreamInv => W!StreamTypeOK /\ W!NoHole
  <2> SUFFICES ASSUME StreamInv PROVE W!StreamTypeOK /\ W!NoHole
    OBVIOUS
  <2>1. StreamTyped /\ \A c \in Clients : ClientIsServed(link[c], owed[c], got[c])
    BY DEF StreamInv
  <2>2. W!StreamTypeOK
    <3>1. ASSUME NEW c \in Clients PROVE Len(link[c].queue) <= Capacity + MaxSnapshots
      <4>1. PICK n \in 0 .. MaxSnapshots : Len(link[c].queue) <= Capacity + n
        BY <2>1 DEF ClientIsServed, QueueFits
      <4>2. Len(link[c].queue) \in Nat
        BY <2>1 DEF StreamTyped, Links
      <4> QED  BY <4>1, <4>2 DEF W!StreamAssumption
    <3> QED  BY <2>1, <3>1, PicturesShowAccounts DEF W!StreamTypeOK, StreamTyped, Links
  <2>3. ASSUME NEW c \in Clients PROVE W!IsPrefix(got[c], owed[c])
    <3>1. /\ got[c] \in Seq(Frames) /\ owed[c] \in Seq(Frames) /\ Len(got[c]) <= Len(owed[c])
          /\ \A i \in 1 .. Len(got[c]) : got[c][i] = owed[c][i]
      BY <2>1 DEF StreamTyped, ClientIsServed, FactsInOrder
    <3>2. got[c] = SubSeq(owed[c], 1, Len(got[c]))
      BY <3>1
    <3> QED  BY <3>1, <3>2 DEF W!IsPrefix
  <2> QED  BY <2>1, <2>2, <2>3 DEF W!NoHole, ClientIsServed, FactsInOrder
<1> QED  BY <1>1, <1>2, <1>3, PTL DEF W!Spec

-----------------------------------------------------------------------------
(* The strategy's setups (services/strategy.py).                           *)

Passes == [pc : {"idle", "decides", "hands over", "intends", "reviews", "submits"}, candle : 0 .. MaxCandles,
           setup : Setups \cup {Q!NoSetup}]
StrategyTyped ==
    /\ market \in [candle : 0 .. MaxCandles, shows : Setups \cup {Q!NoSetup}, recent : SUBSET Setups]
    /\ mode \in Q!StrategyModes /\ pending \in BOOLEAN /\ lastCandle \in 0 .. MaxCandles /\ failing \in BOOLEAN
    /\ pass \in Passes
    /\ intents \subseteq Setups /\ decision \in [Setups -> {"none", "refused", "approved"}] /\ sent \in [Setups -> Nat]
(* An order follows an approved decision, and a decision an intent; the setup in hand is where its    *)
(* pass is, and has had none of what the pass has still to do.                                      *)
HandedInOrder ==
    /\ \A s \in Setups : decision[s] # "none" => s \in intents
    /\ \A s \in Setups : sent[s] # 0 => decision[s] = "approved"
    /\ pass.pc \notin {"idle", "decides"} => pass.setup \in Setups
    /\ pass.pc = "intends" => pass.setup \notin intents
    /\ pass.pc = "reviews" => pass.setup \in intents /\ decision[pass.setup] = "none"
    /\ pass.pc = "submits" => pass.setup \in intents /\ decision[pass.setup] = "approved" /\ sent[pass.setup] = 0

LEMMA RestingIsAPass == Q!StrategyAssumption => Q!Resting \in Passes /\ Q!Resting.pc = "idle"
BY DEF Q!Resting, Passes, Q!StrategyAssumption, Q!NoSetup

(* One step of a pass, with what it may do to the tables.                                           *)
LEMMA StrategyStep ==
    ASSUME Q!StrategyAssumption, StrategyTyped, HandedInOrder, [Q!Next]_(Q!strategyVars)
    PROVE  /\ StrategyTyped' /\ HandedInOrder'
           /\ \A s \in Setups :
                /\ decision[s] # "none" => decision'[s] = decision[s]
                /\ s \in intents /\ pass.setup # s => UNCHANGED <<decision[s], sent[s]>>
                /\ sent'[s] # sent[s] => sent[s] = 0 /\ s \in intents /\ decision[s] = "approved"
<1> DEFINE Goal == /\ StrategyTyped' /\ HandedInOrder'
                   /\ \A s \in Setups :
                        /\ decision[s] # "none" => decision'[s] = decision[s]
                        /\ s \in intents /\ pass.setup # s => UNCHANGED <<decision[s], sent[s]>>
                        /\ sent'[s] # sent[s] => sent[s] = 0 /\ s \in intents /\ decision[s] = "approved"
<1>r. Q!Resting \in Passes /\ Q!Resting.pc = "idle"
  BY RestingIsAPass
<1>1. CASE Q!CandleCloses
  <2>1. market' \in [candle : 0 .. MaxCandles, shows : Setups \cup {Q!NoSetup}, recent : SUBSET Setups]
    <3>1. PICK s \in Setups \cup {Q!NoSetup} : market' = [market EXCEPT !.candle = @ + 1, !.shows = s]
      BY <1>1 DEF Q!CandleCloses
    <3>2. market.candle + 1 \in 0 .. MaxCandles
      BY <1>1 DEF Q!CandleCloses, StrategyTyped, Q!StrategyAssumption
    <3> QED  BY <3>1, <3>2 DEF StrategyTyped
  <2> QED  BY <1>1, <2>1 DEF Q!CandleCloses, Q!tables, StrategyTyped, HandedInOrder
<1>2. ASSUME NEW s \in Setups, Q!SetupGrowsOld(s) PROVE Goal
  <2>1. market' \in [candle : 0 .. MaxCandles, shows : Setups \cup {Q!NoSetup}, recent : SUBSET Setups]
    BY <1>2 DEF Q!SetupGrowsOld, StrategyTyped
  <2> QED  BY <1>2, <2>1 DEF Q!SetupGrowsOld, Q!memory, Q!tables, StrategyTyped, HandedInOrder
<1>3. CASE Q!ModeMoves
  BY <1>3 DEF Q!ModeMoves, Q!memory, Q!tables, StrategyTyped, HandedInOrder
<1>4. CASE Q!Begins
  <2>1. pass' \in Passes /\ pass'.pc \in {"idle", "decides"}
    <3>1. CASE mode = "OFF"
      BY <1>4, <3>1 DEF Q!Begins, StrategyTyped
    <3>2. CASE mode # "OFF"
      BY <1>4, <3>2, <1>r DEF Q!Begins, Passes
    <3> QED  BY <3>1, <3>2
  <2> QED  BY <1>4, <2>1 DEF Q!Begins, Q!tables, StrategyTyped, HandedInOrder
<1>5. CASE Q!Decides
  <2>1. PICK s \in {Q!NoSetup, market.shows} :
          pass' = IF s # Q!NoSetup /\ Acts THEN [pc |-> "hands over", candle |-> market.candle, setup |-> s] ELSE Q!Resting
    BY <1>5 DEF Q!Decides
  <2>2. /\ pass' \in Passes /\ pass'.pc \in {"idle", "hands over"}
        /\ pass'.pc = "hands over" => pass'.setup \in Setups
    <3>1. CASE s # Q!NoSetup /\ Acts
      <4>1. s \in Setups /\ market.candle \in 0 .. MaxCandles
        BY <3>1 DEF StrategyTyped
      <4> QED  BY <2>1, <3>1, <4>1 DEF Passes
    <3>2. CASE ~(s # Q!NoSetup /\ Acts)
      BY <2>1, <3>2, <1>r
    <3> QED  BY <3>1, <3>2
  <2> QED  BY <1>5, <2>2 DEF Q!Decides, Q!tables, StrategyTyped, HandedInOrder
<1>6. CASE Q!Skips \/ Q!StoreFails \/ Q!IsCut \/ Q!Restarts
  <2>1. /\ pass' = Q!Resting /\ UNCHANGED <<market, intents, decision, sent>>
    BY <1>6 DEF Q!Skips, Q!StoreFails, Q!IsCut, Q!Restarts, Q!tables
  <2>2. mode' \in Q!StrategyModes /\ pending' \in BOOLEAN /\ lastCandle' \in 0 .. MaxCandles /\ failing' \in BOOLEAN
    <3>1. 0 \in 0 .. MaxCandles
      BY DEF Q!StrategyAssumption
    <3>2. CASE Q!Skips
      BY <1>6, <3>2 DEF Q!Skips, StrategyTyped
    <3>3. CASE Q!StoreFails \/ Q!IsCut
      BY <3>3 DEF Q!StoreFails, Q!IsCut, Q!memory, StrategyTyped
    <3>4. CASE Q!Restarts
      BY <3>1, <3>4 DEF Q!Restarts, StrategyTyped, Q!StrategyModes
    <3> QED  BY <1>6, <3>2, <3>3, <3>4
  <2> QED  BY <1>r, <2>1, <2>2 DEF StrategyTyped, HandedInOrder
<1>7. CASE Q!HandsOver
  <2>1. /\ pass' \in Passes /\ pass'.pc \in {"idle", "intends"}
        /\ pass'.pc = "intends" => pass'.setup \in Setups /\ pass'.setup \notin intents
    BY <1>7, <1>r DEF Q!HandsOver, Q!Handled, Passes, StrategyTyped, HandedInOrder
  <2> QED  BY <1>7, <2>1 DEF Q!HandsOver, Q!memory, Q!tables, StrategyTyped, HandedInOrder
<1>8. CASE Q!Intends
  <2>1. pass' \in Passes /\ pass'.pc = "reviews" /\ pass'.setup = pass.setup
    BY <1>8 DEF Q!Intends, Q!Goes, Passes, StrategyTyped
  <2> QED  BY <1>8, <2>1 DEF Q!Intends, Q!memory, StrategyTyped, HandedInOrder
<1>9. CASE Q!Reviews
  <2>1. PICK verdict \in {"refused", "approved"} :
          /\ decision' = [decision EXCEPT ![pass.setup] = verdict]
          /\ pass' = IF verdict = "approved" THEN [pass EXCEPT !.pc = "submits"] ELSE Q!Resting
    BY <1>9 DEF Q!Reviews
  <2>2. pass' \in Passes /\ pass'.pc = (IF verdict = "approved" THEN "submits" ELSE "idle")
        /\ (verdict = "approved" => pass'.setup = pass.setup)
    BY <2>1, <1>r DEF Passes, StrategyTyped
  <2>3. /\ pass.setup \in Setups /\ pass.setup \in intents /\ decision[pass.setup] = "none" /\ sent[pass.setup] = 0
    BY <1>9 DEF Q!Reviews, HandedInOrder
  <2>4. /\ decision' \in [Setups -> {"none", "refused", "approved"}]
        /\ \A s \in Setups : decision'[s] = IF s = pass.setup THEN verdict ELSE decision[s]
    BY <2>1, <2>3 DEF StrategyTyped
  <2> QED  BY <1>9, <2>2, <2>3, <2>4 DEF Q!Reviews, Q!memory, StrategyTyped, HandedInOrder
<1>10. CASE Q!Submits
  <2>1. /\ pass.setup \in Setups /\ pass.setup \in intents /\ decision[pass.setup] = "approved" /\ sent[pass.setup] = 0
    BY <1>10 DEF Q!Submits, HandedInOrder
  <2>2. sent' \in [Setups -> Nat] /\ \A s \in Setups : sent'[s] = IF s = pass.setup THEN sent[s] + 1 ELSE sent[s]
    BY <1>10, <2>1 DEF Q!Submits, StrategyTyped
  <2> QED  BY <1>10, <1>r, <2>1, <2>2 DEF Q!Submits, Q!memory, Q!tables, StrategyTyped, HandedInOrder
<1>11. CASE UNCHANGED Q!strategyVars
  BY <1>11 DEF Q!strategyVars, Q!memory, Q!tables, StrategyTyped, HandedInOrder
<1> QED  BY <1>1, <1>2, <1>3, <1>4, <1>5, <1>6, <1>7, <1>8, <1>9, <1>10, <1>11 DEF Q!Next

(* A setup is handed over at most once: the stored intent is what a re-detection or a restart     *)
(* meets (StrategyService._hand_over).                                                            *)
LEMMA StrategyIsSafe == Q!StrategyAssumption => (Q!Spec => []Q!StrategyTypeOK /\ Q!SetupsAreHandledOnce)
<1> SUFFICES ASSUME Q!StrategyAssumption PROVE Q!Spec => []Q!StrategyTypeOK /\ Q!SetupsAreHandledOnce
  OBVIOUS
<1>1. Q!Init => StrategyTyped /\ HandedInOrder
  <2> SUFFICES ASSUME Q!Init PROVE StrategyTyped /\ HandedInOrder
    OBVIOUS
  <2>1. 0 \in 0 .. MaxCandles
    BY DEF Q!StrategyAssumption
  <2>2. market \in [candle : 0 .. MaxCandles, shows : Setups \cup {Q!NoSetup}, recent : SUBSET Setups]
    BY <2>1 DEF Q!Init
  <2>3. pass \in Passes /\ pass.pc = "idle"
    BY RestingIsAPass DEF Q!Init
  <2> QED  BY <2>1, <2>2, <2>3 DEF Q!Init, StrategyTyped, HandedInOrder, Q!StrategyModes
<1>2. StrategyTyped /\ HandedInOrder /\ [Q!Next]_(Q!strategyVars) => StrategyTyped' /\ HandedInOrder'
  BY StrategyStep
<1>3. StrategyTyped /\ HandedInOrder /\ [Q!Next]_(Q!strategyVars) =>
        [\A s \in Setups :
            /\ decision[s] # "none" => decision'[s] = decision[s]
            /\ s \in intents /\ pass.setup # s => UNCHANGED <<decision[s], sent[s]>>
            /\ sent'[s] # sent[s] => sent[s] = 0 /\ s \in intents /\ decision[s] = "approved"]_(Q!strategyVars)
  BY StrategyStep
<1>4. StrategyTyped => Q!StrategyTypeOK
  BY DEF StrategyTyped, Q!StrategyTypeOK, Passes
<1> QED  BY <1>1, <1>2, <1>3, <1>4, PTL DEF Q!Spec, Q!SetupsAreHandledOnce

-----------------------------------------------------------------------------
(* The positions (services/positions.py).                                  *)

(* Where a close is not lost: recorded, still in the last list, or waiting for its history.          *)
Held == closes \cup known \cup waiting

(* What is dated before the scan window, and what the running poll left out of its scan, is held.   *)
WindowIsCovered ==
    (~troubled /\ baselined) =>
        /\ old \subseteq Held
        /\ poll.pc = "opening" => poll.before = known
        /\ poll.pc \in {"settling", "missing"} => poll.before \subseteq Held /\ poll.current = known

(* An event is published with the row it announces, and only what has shut has a whole history.     *)
EventsHaveRows ==
    \A p \in Positions :
        /\ news[p].opened <= 1 /\ (p \notin opens => news[p].opened = 0)
        /\ news[p].closed <= 1 /\ (p \notin closes => news[p].closed = 0)
        /\ p \in closes \cup complete => life[p] = "shut"

TrackingInv == P!TrackingTypeOK /\ EventsHaveRows /\ WindowIsCovered

Polls == [pc : {"idle", "read", "opening", "settling", "missing"}, current : SUBSET Positions,
          cut : SUBSET Positions, before : SUBSET Positions, todo : SUBSET Positions]

LEMMA IdleIsAPoll == P!Idle \in Polls /\ P!Idle.pc = "idle"
BY DEF P!Idle, Polls

(* One more row, and its event if the row is new.                                                   *)
LEMMA RecordingOpens ==
    ASSUME P!TrackingTypeOK, EventsHaveRows, NEW p \in Positions, P!RecordsOpen(p)
    PROVE  /\ opens' \subseteq Positions /\ news' \in [Positions -> [opened : 0 .. 2, closed : 0 .. 2]]
           /\ \A q \in Positions :
                /\ news'[q].opened <= 1 /\ (q \notin opens' => news'[q].opened = 0)
                /\ news'[q].closed = news[q].closed
<1>1. CASE p \in opens
  BY <1>1 DEF P!RecordsOpen, P!Inserted, P!TrackingTypeOK, EventsHaveRows
<1>2. CASE p \notin opens
  <2>1. news[p].opened = 0 /\ news[p] \in [opened : 0 .. 2, closed : 0 .. 2]
    BY <1>2 DEF EventsHaveRows, P!TrackingTypeOK
  <2>2. news' = [news EXCEPT ![p] = [news[p] EXCEPT !.opened = 1]]
    BY <1>2, <2>1 DEF P!RecordsOpen, P!Inserted, P!AtMostTwo
  <2> DEFINE counted == [news[p] EXCEPT !.opened = 1]
  <2>3. counted \in [opened : 0 .. 2, closed : 0 .. 2] /\ counted.opened = 1 /\ counted.closed = news[p].closed
    BY <2>1
  <2> HIDE DEF counted
  <2>4. news' = [news EXCEPT ![p] = counted]
    BY <2>2 DEF counted
  <2> QED  BY <2>3, <2>4 DEF P!RecordsOpen, P!TrackingTypeOK, EventsHaveRows
<1> QED  BY <1>1, <1>2

LEMMA RecordingCloses ==
    ASSUME P!TrackingTypeOK, EventsHaveRows, NEW p \in Positions, P!RecordsClosed(p)
    PROVE  /\ closes' \subseteq Positions /\ news' \in [Positions -> [opened : 0 .. 2, closed : 0 .. 2]]
           /\ \A q \in Positions :
                /\ news'[q].closed <= 1 /\ (q \notin closes' => news'[q].closed = 0)
                /\ news'[q].opened = news[q].opened
<1>1. CASE p \in closes
  BY <1>1 DEF P!RecordsClosed, P!Inserted, P!TrackingTypeOK, EventsHaveRows
<1>2. CASE p \notin closes
  <2>1. news[p].closed = 0 /\ news[p] \in [opened : 0 .. 2, closed : 0 .. 2]
    BY <1>2 DEF EventsHaveRows, P!TrackingTypeOK
  <2>2. news' = [news EXCEPT ![p] = [news[p] EXCEPT !.closed = 1]]
    BY <1>2, <2>1 DEF P!RecordsClosed, P!Inserted, P!AtMostTwo
  <2> DEFINE counted == [news[p] EXCEPT !.closed = 1]
  <2>3. counted \in [opened : 0 .. 2, closed : 0 .. 2] /\ counted.closed = 1 /\ counted.opened = news[p].opened
    BY <2>1
  <2> HIDE DEF counted
  <2>4. news' = [news EXCEPT ![p] = counted]
    BY <2>2 DEF counted
  <2> QED  BY <2>3, <2>4 DEF P!RecordsClosed, P!TrackingTypeOK, EventsHaveRows
<1> QED  BY <1>1, <1>2

(* A write that fails loses what is being tracked, and says so.                                     *)
LEMMA FailingKeeps ==
    ASSUME TrackingInv, NEW p \in Positions, NEW closing \in BOOLEAN, P!WriteFails(p, closing),
           closing => life[p] = "shut", UNCHANGED <<life, complete, old, baselined, known>>,
           waiting' \subseteq Positions, attempts' \in [Positions -> 0 .. MaxCloseAttempts]
    PROVE  TrackingInv'
<1>1. P!TrackingTypeOK'
  BY IdleIsAPoll DEF P!WriteFails, TrackingInv, P!TrackingTypeOK, Polls
<1>2. EventsHaveRows'
  BY DEF P!WriteFails, TrackingInv, EventsHaveRows
<1>3. WindowIsCovered'
  BY DEF P!WriteFails, WindowIsCovered
<1> QED  BY <1>1, <1>2, <1>3 DEF TrackingInv

(* A poll that goes on over the same tables.                                                        *)
LEMMA TablesStand ==
    ASSUME EventsHaveRows, UNCHANGED <<life, complete, opens, closes, news>>
    PROVE  EventsHaveRows'
BY DEF EventsHaveRows

LEMMA InitialTracking == ASSUME P!TrackingAssumption, P!Init PROVE TrackingInv
<1>1. 0 \in 0 .. MaxCloseAttempts
  BY DEF P!TrackingAssumption
<1>2. [p \in Positions |-> [opened |-> 0, closed |-> 0]] \in [Positions -> [opened : 0 .. 2, closed : 0 .. 2]]
  OBVIOUS
<1>3. P!TrackingTypeOK
  BY <1>1, <1>2, IdleIsAPoll DEF P!Init, P!TrackingTypeOK, Polls
<1>4. EventsHaveRows
  <2>1. \A p \in Positions : news[p].opened = 0 /\ news[p].closed = 0
    BY DEF P!Init
  <2>2. closes = {} /\ complete = {}
    BY DEF P!Init
  <2> SUFFICES ASSUME NEW p \in Positions
               PROVE  /\ news[p].opened <= 1 /\ news[p].opened = 0 /\ news[p].closed <= 1 /\ news[p].closed = 0
                      /\ p \notin closes \cup complete
    BY <2>2 DEF EventsHaveRows
  <2>3. news[p].opened = 0 /\ news[p].closed = 0
    BY <2>1
  <2> QED  BY <2>2, <2>3
<1> QED  BY <1>3, <1>4 DEF P!Init, TrackingInv, WindowIsCovered

LEMMA BrokerKeeps ==
    ASSUME TrackingInv, NEW p \in Positions, P!Opens(p) \/ P!Shuts(p) \/ P!HistoryCompletes
    PROVE  TrackingInv'
<1>1. P!TrackingTypeOK'
  BY DEF P!Opens, P!Shuts, P!HistoryCompletes, P!Shut, TrackingInv, P!TrackingTypeOK
<1>2. EventsHaveRows'
  BY DEF P!Opens, P!Shuts, P!HistoryCompletes, P!Shut, TrackingInv, P!TrackingTypeOK, EventsHaveRows
<1>3. WindowIsCovered'
  BY DEF P!Opens, P!Shuts, P!HistoryCompletes, TrackingInv, WindowIsCovered, Held
<1> QED  BY <1>1, <1>2, <1>3 DEF TrackingInv

LEMMA ReadingKeeps == ASSUME TrackingInv, P!Reads \/ P!Stamps PROVE TrackingInv'
<1>1. poll' \in Polls /\ UNCHANGED <<life, complete, old, baselined, known, waiting, attempts, opens, closes, news, troubled>>
      /\ poll'.pc \in {"read", "opening"} /\ (poll'.pc = "opening" => poll'.before = known)
  <2>1. P!Open \subseteq Positions /\ P!Shut \subseteq Positions
    BY DEF P!Open, P!Shut
  <2>2. poll \in Polls /\ known \subseteq Positions
    BY DEF TrackingInv, P!TrackingTypeOK, Polls
  <2>3. CASE P!Reads
    BY <2>1, <2>3, IdleIsAPoll DEF P!Reads, Polls
  <2>4. CASE P!Stamps
    <3> DEFINE next == [poll EXCEPT !.pc = "opening", !.cut = P!Shut, !.before = known, !.todo = poll.current \ known]
    <3>1. next \in Polls /\ next.pc = "opening" /\ next.before = known
      BY <2>1, <2>2 DEF Polls
    <3> HIDE DEF next
    <3>2. poll' = next
      BY <2>4 DEF P!Stamps, next
    <3> QED  BY <2>4, <3>1, <3>2 DEF P!Stamps
  <2> QED  BY <2>3, <2>4
<1>2. P!TrackingTypeOK' /\ EventsHaveRows'
  BY <1>1, TablesStand DEF TrackingInv, P!TrackingTypeOK, Polls
<1>3. WindowIsCovered'
  BY <1>1 DEF TrackingInv, WindowIsCovered, Held
<1> QED  BY <1>2, <1>3 DEF TrackingInv

LEMMA OpeningKeeps ==
    ASSUME TrackingInv, NEW p \in Positions, P!RecordsOpening(p)
    PROVE  TrackingInv'
<1>1. CASE P!WriteFails(p, FALSE)
  BY <1>1, FailingKeeps DEF P!RecordsOpening, TrackingInv, P!TrackingTypeOK
<1>2. CASE P!RecordsOpen(p) /\ poll' = [poll EXCEPT !.todo = @ \ {p}] /\ UNCHANGED <<closes, troubled>>
  <2>1. poll' \in Polls /\ poll'.pc = poll.pc /\ poll'.before = poll.before /\ poll'.current = poll.current
    BY <1>2 DEF TrackingInv, P!TrackingTypeOK, Polls
  <2>2. UNCHANGED <<life, complete, old, baselined, known, waiting, attempts, closes, troubled>>
    BY <1>2 DEF P!RecordsOpening
  <2>3. P!TrackingTypeOK' /\ EventsHaveRows'
    BY <1>2, <2>1, <2>2, RecordingOpens DEF TrackingInv, P!TrackingTypeOK, EventsHaveRows, Polls
  <2>4. WindowIsCovered'
    BY <2>1, <2>2 DEF TrackingInv, WindowIsCovered, Held
  <2> QED  BY <2>3, <2>4 DEF TrackingInv
<1> QED  BY <1>1, <1>2 DEF P!RecordsOpening

LEMMA ComparingKeeps == ASSUME TrackingInv, P!Baselines \/ P!Compares \/ P!EndsSettling PROVE TrackingInv'
<1>1. poll' \in Polls /\ UNCHANGED <<life, complete, attempts, opens, closes, news, troubled>>
  <2>0. poll \in Polls /\ known \subseteq Positions /\ waiting \subseteq Positions
    BY DEF TrackingInv, P!TrackingTypeOK, Polls
  <2>1. CASE P!Baselines
    <3>1. poll' = [poll EXCEPT !.pc = "missing", !.before = {}]
      BY <2>1 DEF P!Baselines
    <3> QED  BY <2>0, <2>1, <3>1 DEF P!Baselines, Polls
  <2>2. CASE P!Compares
    <3>1. poll' = [poll EXCEPT !.pc = "settling", !.todo = waiting'] /\ waiting' \subseteq Positions
      BY <2>0, <2>2 DEF P!Compares, Polls
    <3> QED  BY <2>0, <2>2, <3>1 DEF P!Compares, Polls
  <2>3. CASE P!EndsSettling
    BY <2>0, <2>3, SMTT(20) DEF P!EndsSettling, Polls
  <2> QED  BY <2>1, <2>2, <2>3
<1>2. P!TrackingTypeOK' /\ EventsHaveRows'
  BY <1>1, TablesStand DEF P!Baselines, P!Compares, P!EndsSettling, TrackingInv, P!TrackingTypeOK, Polls
<1>3. CASE P!Baselines
  <2>1. poll'.pc = "missing" /\ poll'.before = {} /\ poll'.current = known' /\ old' = {}
    BY <1>3 DEF P!Baselines, TrackingInv, P!TrackingTypeOK
  <2> QED  BY <1>2, <2>1 DEF TrackingInv, WindowIsCovered
<1>4. CASE P!Compares
  <2>1. poll'.pc = "settling" /\ poll'.before = poll.before /\ poll'.current = known' /\ Held \subseteq Held'
        /\ UNCHANGED <<old, baselined, troubled>> /\ poll.pc = "opening"
    BY <1>4 DEF P!Compares, TrackingInv, P!TrackingTypeOK, Held
  <2>2. known \subseteq Held
    BY DEF Held
  <2> QED  BY <1>2, <2>1, <2>2 DEF TrackingInv, WindowIsCovered
<1>5. CASE P!EndsSettling
  <2>1. poll'.pc = "missing" /\ poll'.before = poll.before /\ poll'.current = poll.current /\ poll.pc = "settling"
        /\ UNCHANGED <<old, baselined, troubled, known, waiting, closes>>
    BY <1>5 DEF P!EndsSettling, TrackingInv, P!TrackingTypeOK
  <2> QED  BY <1>2, <2>1 DEF TrackingInv, WindowIsCovered, Held
<1> QED  BY <1>3, <1>4, <1>5

LEMMA SettlingKeeps ==
    ASSUME P!TrackingAssumption, TrackingInv, NEW p \in Positions, P!SettleSkips(p) \/ P!SettleWaits(p) \/ P!Settles(p)
    PROVE  TrackingInv'
<1>1. CASE P!SettleSkips(p)
  <2>1. poll' \in Polls /\ poll'.pc = poll.pc /\ poll'.before = poll.before /\ poll'.current = poll.current
        /\ UNCHANGED <<life, complete, old, baselined, known, waiting, attempts, opens, closes, news, troubled>>
    BY <1>1 DEF P!SettleSkips, TrackingInv, P!TrackingTypeOK, Polls
  <2>2. P!TrackingTypeOK' /\ EventsHaveRows'
    BY <2>1, TablesStand DEF TrackingInv, P!TrackingTypeOK, Polls
  <2> QED  BY <2>1, <2>2 DEF TrackingInv, WindowIsCovered, Held
<1>2. CASE P!SettleWaits(p)
  <2> DEFINE gaveUp == attempts[p] + 1 >= MaxCloseAttempts
  <2>1. poll' \in Polls /\ poll'.pc = poll.pc /\ poll'.before = poll.before /\ poll'.current = poll.current
        /\ UNCHANGED <<life, complete, old, baselined, known, opens, closes, news>>
    BY <1>2 DEF P!SettleWaits, TrackingInv, P!TrackingTypeOK, Polls
  <2>2. /\ attempts' = [attempts EXCEPT ![p] = IF gaveUp THEN 0 ELSE attempts[p] + 1]
        /\ waiting' = (IF gaveUp THEN waiting \ {p} ELSE waiting)
        /\ troubled' = (troubled \/ gaveUp)
    BY <1>2 DEF P!SettleWaits
  <2>3. attempts[p] \in 0 .. MaxCloseAttempts /\ attempts \in [Positions -> 0 .. MaxCloseAttempts]
        /\ MaxCloseAttempts \in Nat
    BY DEF TrackingInv, P!TrackingTypeOK, P!TrackingAssumption
  <2>4. (IF gaveUp THEN 0 ELSE attempts[p] + 1) \in 0 .. MaxCloseAttempts
    BY <2>3
  <2>5. attempts' \in [Positions -> 0 .. MaxCloseAttempts]
    BY <2>2, <2>3, <2>4
  <2>6. waiting' \subseteq waiting /\ (~troubled' => ~troubled /\ waiting' = waiting) /\ troubled' \in BOOLEAN
    BY <2>2 DEF TrackingInv, P!TrackingTypeOK
  <2> HIDE DEF gaveUp
  <2>7. P!TrackingTypeOK' /\ EventsHaveRows'
    BY <2>1, <2>5, <2>6, TablesStand DEF TrackingInv, P!TrackingTypeOK, Polls
  <2> QED  BY <2>1, <2>6, <2>7 DEF TrackingInv, WindowIsCovered, Held
<1>3. CASE P!Settles(p)
  <2>1. p \in complete /\ life[p] = "shut" /\ waiting' = waiting \ {p}
        /\ UNCHANGED <<life, complete, old, baselined, known>>
    BY <1>3 DEF P!Settles, TrackingInv, EventsHaveRows
  <2>2. waiting' \subseteq Positions /\ attempts' \in [Positions -> 0 .. MaxCloseAttempts]
    BY <1>3 DEF P!Settles, TrackingInv, P!TrackingTypeOK, P!TrackingAssumption
  <2>3. CASE P!WriteFails(p, TRUE)
    BY <2>1, <2>2, <2>3, FailingKeeps
  <2>4. CASE P!RecordsClosed(p) /\ poll' = [poll EXCEPT !.todo = @ \ {p}] /\ UNCHANGED <<opens, troubled>>
    <3>1. poll' \in Polls /\ poll'.pc = poll.pc /\ poll'.before = poll.before /\ poll'.current = poll.current
      BY <2>4 DEF TrackingInv, P!TrackingTypeOK, Polls
    <3>2. closes' = closes \cup {p}
      BY <2>4 DEF P!RecordsClosed
    <3>3. P!TrackingTypeOK' /\ EventsHaveRows'
      BY <2>1, <2>2, <2>4, <3>1, <3>2, RecordingCloses DEF TrackingInv, P!TrackingTypeOK, EventsHaveRows, Polls
    <3>4. Held \subseteq Held'
      BY <2>1, <3>2 DEF Held
    <3>5. WindowIsCovered'
      BY <2>1, <2>4, <3>1, <3>4 DEF TrackingInv, WindowIsCovered
    <3> QED  BY <3>3, <3>5 DEF TrackingInv
  <2> QED  BY <1>3, <2>3, <2>4 DEF P!Settles
<1> QED  BY <1>1, <1>2, <1>3

LEMMA RebuildingKeeps ==
    ASSUME TrackingInv, NEW p \in Positions, P!Rebuilds(p)
    PROVE  TrackingInv'
<1>1. life[p] = "shut" /\ UNCHANGED <<life, complete, old, baselined, known, waiting, attempts>>
  BY DEF P!Rebuilds, P!Missed, TrackingInv, EventsHaveRows
<1>2. waiting' \subseteq Positions /\ attempts' \in [Positions -> 0 .. MaxCloseAttempts]
  BY <1>1 DEF TrackingInv, P!TrackingTypeOK
<1>3. CASE P!WriteFails(p, FALSE) \/ P!WriteFails(p, TRUE)
  BY <1>1, <1>2, <1>3, FailingKeeps
<1>4. CASE P!RecordsOpen(p) /\ UNCHANGED <<closes, poll, troubled>>
  <2>1. P!TrackingTypeOK' /\ EventsHaveRows'
    BY <1>1, <1>4, RecordingOpens DEF TrackingInv, P!TrackingTypeOK, EventsHaveRows
  <2> QED  BY <1>1, <1>4, <2>1 DEF TrackingInv, WindowIsCovered, Held
<1>5. CASE P!RecordsClosed(p) /\ UNCHANGED <<opens, poll, troubled>>
  <2>1. closes' = closes \cup {p}
    BY <1>5 DEF P!RecordsClosed
  <2>2. P!TrackingTypeOK' /\ EventsHaveRows'
    BY <1>1, <1>5, <2>1, RecordingCloses DEF TrackingInv, P!TrackingTypeOK, EventsHaveRows
  <2>3. Held \subseteq Held'
    BY <1>1, <2>1 DEF Held
  <2> QED  BY <1>1, <1>5, <2>2, <2>3 DEF TrackingInv, WindowIsCovered
<1>6. CASE poll' = P!Idle /\ UNCHANGED <<opens, closes, news, troubled>>
  <2>1. P!TrackingTypeOK' /\ EventsHaveRows'
    BY <1>1, <1>6, IdleIsAPoll, TablesStand DEF TrackingInv, P!TrackingTypeOK, Polls
  <2> QED  BY <1>1, <1>6, <2>1, IdleIsAPoll DEF TrackingInv, WindowIsCovered, Held
<1> QED  BY <1>3, <1>4, <1>5, <1>6 DEF P!Rebuilds

(* The next scan starts where this one looked: everything before is held, or the scan was troubled.  *)
LEMMA EndingKeeps == ASSUME P!TrackingAssumption, TrackingInv, P!EndsPoll \/ P!ScanFails \/ P!Forgets PROVE TrackingInv'
<1>1. poll' = P!Idle /\ UNCHANGED <<life, complete, opens, closes, news>> /\ troubled' \in BOOLEAN
  BY DEF P!EndsPoll, P!ScanFails, P!Forgets, TrackingInv, P!TrackingTypeOK
<1>2. P!TrackingTypeOK' /\ EventsHaveRows'
  <2>1. attempts' \in [Positions -> 0 .. MaxCloseAttempts]
    BY DEF P!EndsPoll, P!ScanFails, P!Forgets, P!TrackingAssumption, TrackingInv, P!TrackingTypeOK
  <2>2. /\ old' \subseteq Positions /\ known' \subseteq Positions /\ waiting' \subseteq Positions
        /\ baselined' \in BOOLEAN
    BY DEF P!EndsPoll, P!ScanFails, P!Forgets, P!NextScan, TrackingInv, P!TrackingTypeOK
  <2>3. poll' \in Polls
    BY <1>1, IdleIsAPoll
  <2>4. P!TrackingTypeOK'
    BY <1>1, <2>1, <2>2, <2>3 DEF TrackingInv, P!TrackingTypeOK, Polls
  <2> QED  BY <1>1, <2>4, TablesStand DEF TrackingInv
<1>3. CASE P!EndsPoll
  <2> SUFFICES ASSUME ~troubled', baselined', NEW p \in old' PROVE p \in Held'
    BY <1>1, <1>2, IdleIsAPoll DEF TrackingInv, WindowIsCovered
  <2>1. /\ ~troubled /\ baselined /\ poll.cut \subseteq complete /\ p \in poll.cut /\ poll.pc = "missing"
        /\ Held' = Held /\ P!Missed \subseteq closes
    BY <1>3 DEF P!EndsPoll, P!NextScan, Held
  <2>2. old \subseteq Held /\ poll.before \subseteq Held /\ poll.current = known
    BY <2>1 DEF TrackingInv, WindowIsCovered
  <2> QED  BY <2>1, <2>2 DEF P!Missed, Held
<1>4. CASE P!ScanFails
  BY <1>2, <1>4 DEF P!ScanFails, TrackingInv, WindowIsCovered
<1>5. CASE P!Forgets
  BY <1>2, <1>5 DEF P!Forgets, TrackingInv, WindowIsCovered
<1> QED  BY <1>3, <1>4, <1>5

LEMMA TrackingSteps ==
    ASSUME P!TrackingAssumption, TrackingInv, [P!Next]_(P!vars)
    PROVE  TrackingInv'
<1>1. CASE UNCHANGED P!vars
  BY <1>1 DEF P!vars, TrackingInv, P!TrackingTypeOK, EventsHaveRows, WindowIsCovered, Held
<1>2. CASE \E p \in Positions : P!Opens(p) \/ P!Shuts(p) \/ P!SettleSkips(p)
  BY <1>2, BrokerKeeps, SettlingKeeps
<1>3. CASE P!PollSteps
  BY <1>3, ReadingKeeps, ComparingKeeps, EndingKeeps, OpeningKeeps, SettlingKeeps, RebuildingKeeps DEF P!PollSteps
<1>4. CASE P!HistoryCompletes
  <2>1. P!TrackingTypeOK' /\ EventsHaveRows'
    BY <1>4 DEF P!HistoryCompletes, P!Shut, TrackingInv, P!TrackingTypeOK, EventsHaveRows
  <2> QED  BY <1>4, <2>1 DEF P!HistoryCompletes, TrackingInv, WindowIsCovered, Held
<1>5. CASE P!ScanFails \/ P!Forgets
  BY <1>5, EndingKeeps
<1> QED  BY <1>1, <1>2, <1>3, <1>4, <1>5 DEF P!Next

(* A trade is booked once, and a close that nobody recorded is still to be found, unless a write, a *)
(* scan or a history failed in this process (PositionService.poll).                                 *)
LEMMA TrackingIsSafe ==
    P!TrackingAssumption => (P!Spec => [](P!TrackingTypeOK /\ P!NothingForgotten /\ P!CountsOnce))
<1> SUFFICES ASSUME P!TrackingAssumption PROVE P!Spec => [](P!TrackingTypeOK /\ P!NothingForgotten /\ P!CountsOnce)
  OBVIOUS
<1>1. P!Init => TrackingInv
  BY InitialTracking
<1>2. TrackingInv /\ [P!Next]_(P!vars) => TrackingInv'
  BY TrackingSteps
<1>3. TrackingInv => P!TrackingTypeOK /\ P!NothingForgotten /\ P!CountsOnce
  BY DEF TrackingInv, WindowIsCovered, Held, P!NothingForgotten, P!Forgotten, P!CountsOnce, EventsHaveRows
<1> QED  BY <1>1, <1>2, <1>3, PTL DEF P!Spec

-----------------------------------------------------------------------------
(* The rules (services/risk.py, request_rules and cancel_rules).           *)

(* What asks for nothing yet, or stands between its guard and its append.                           *)
RequestTyped ==
    /\ request \in [on : AccountIds \cup {G!Nobody}, id : Versions \cup {G!Nobody}, at : G!Times, deferred : BOOLEAN]
    /\ request = G!NoRequest \/ (request.on \in AccountIds /\ request.id \in Versions)

(* An anchor is a day start that has come, and a trade is judged on a day that is anchored.          *)
AnchorsAreDays == \A a \in AccountIds : \A t \in anchors[a] : t % 2 = Midnight[a] /\ t <= now
TradesAreAnchored == \A a \in AccountIds : \A t \in openings[a] : t <= now /\ G!DayOf(a, t) \in anchors[a]

(* The times before which nothing had been traded in the day they are in, on any account.           *)
Calm ==
    {at \in G!Times : at <= now /\ \A a \in AccountIds : \A t \in openings[a] : t < at => G!DayOf(a, t) < G!DayOf(a, at)}

LedgerInv ==
    /\ G!RulesTypeOK /\ RequestTyped
    /\ AnchorsAreDays /\ TradesAreAnchored
    /\ (request # G!NoRequest /\ ~request.deferred) => request.at \in Calm
    /\ \A id \in DOMAIN versions : ~versions[id].deferred => versions[id].at \in Calm

VersionRecords == [on : AccountIds, at : G!Times, deferred : BOOLEAN, cancelled : BOOLEAN]

-----------------------------------------------------------------------------
(* Of some times, one is the latest: the least that none of them is after.                          *)
LEMMA LatestExists ==
    ASSUME G!RulesAssumption, NEW S \in SUBSET G!Times, S # {}
    PROVE  G!MaxOf(S) \in S /\ \A u \in S : u <= G!MaxOf(S)
<1> DEFINE Bounds == {n \in Nat : \A t \in S : t <= n}
           Before == {p \in Nat \X Nat : p[1] < p[2]}
<1>1. LastTick \in Bounds /\ S \subseteq Nat
  BY DEF G!RulesAssumption, G!Times
<1>2. \E m \in Bounds : \A n \in Bounds : <<n, m>> \notin Before
  <2>1. IsWellFoundedOn(Before, Nat)
    BY NatLessThanWellFounded DEF OpToRel
  <2> HIDE DEF Before
  <2>2. Bounds \in SUBSET Nat /\ Bounds # {}
    BY <1>1
  <2> HIDE DEF Bounds
  <2> QED  BY <2>1, <2>2, WFMin
<1>3. PICK m \in Bounds : \A n \in Bounds : <<n, m>> \notin Before
  BY <1>2
<1>4. m \in Nat /\ (\A t \in S : t <= m) /\ \A n \in Nat : n < m => \E t \in S : ~(t <= n)
  BY <1>3
<1>5. m \in S
  <2>1. CASE m = 0
    <3>1. PICK t \in S : TRUE
      OBVIOUS
    <3>2. t \in Nat /\ t <= 0
      BY <1>1, <1>4, <2>1, <3>1
    <3> QED  BY <2>1, <3>1, <3>2
  <2>2. CASE m # 0
    <3>1. m - 1 \in Nat /\ m - 1 < m
      BY <1>4, <2>2
    <3>2. PICK t \in S : ~(t <= m - 1)
      BY <1>4, <3>1
    <3> QED  BY <1>1, <1>4, <3>2
  <2> QED  BY <2>1, <2>2
<1>6. \E t \in S : \A u \in S : u <= t
  BY <1>4, <1>5
<1> QED  BY <1>6 DEF G!MaxOf

(* The day an instant is in starts at the account's midnight, at most a tick before.                *)
LEMMA DayStarts ==
    ASSUME G!RulesAssumption, NEW a \in AccountIds, NEW t \in Nat
    PROVE  G!DayOf(a, t) \in {t - 1, t} /\ G!DayOf(a, t) % 2 = Midnight[a]
<1>1. Midnight[a] \in {0, 1}
  BY DEF G!RulesAssumption
<1>2. t % 2 \in {0, 1} /\ (t % 2 = 0 => (t - 1) % 2 = 1) /\ (t % 2 = 1 => (t - 1) % 2 = 0)
  OBVIOUS
<1> QED  BY <1>1, <1>2 DEF G!DayOf

LEMMA NoDayInBetween ==
    ASSUME G!RulesAssumption, NEW a \in AccountIds, NEW t \in Nat, NEW d \in Nat, d % 2 = Midnight[a], d <= t
    PROVE  d <= G!DayOf(a, t)
BY DEF G!DayOf

(* A change that applies at once was asked for when no account had traded in its day.               *)
LEMMA GuardLooksAtAll ==
    ASSUME G!RulesAssumption, LedgerInv, ~G!GuardDefers
    PROVE  now \in Calm
<1>0. now \in Nat /\ now \in G!Times
  BY DEF LedgerInv, G!RulesTypeOK, G!Times, G!RulesAssumption
<1> SUFFICES ASSUME NEW a \in AccountIds, NEW t \in openings[a], t < now PROVE G!DayOf(a, t) < G!DayOf(a, now)
  BY <1>0 DEF Calm
<1> DEFINE last == G!MaxOf(anchors[a])
<1>1. anchors[a] \in SUBSET G!Times /\ t \in Nat /\ G!DayOf(a, t) \in anchors[a]
  BY DEF LedgerInv, G!RulesTypeOK, TradesAreAnchored, G!Times, G!RulesAssumption
<1>2. last \in anchors[a] /\ G!DayOf(a, t) <= last
  BY <1>1, LatestExists
<1>3. last \in Nat /\ last % 2 = Midnight[a] /\ last <= now
  BY <1>1, <1>2 DEF LedgerInv, AnchorsAreDays, G!Times, G!RulesAssumption
<1>4. last + 2 < now \/ t < last
  BY <1>0, <1>1, <1>3 DEF G!GuardDefers, G!TradesToday
<1> HIDE DEF last
<1>5. last <= G!DayOf(a, now) /\ G!DayOf(a, now) \in {now - 1, now} /\ G!DayOf(a, t) \in {t - 1, t}
  BY <1>0, <1>1, <1>3, DayStarts, NoDayInBetween
<1> QED  BY <1>0, <1>1, <1>2, <1>3, <1>4, <1>5

(* What was undisturbed stays so: later trades are later.                                           *)
LEMMA CalmStays ==
    ASSUME LedgerInv, NEW at \in Calm, now' \in Int, now <= now',
           \A a \in AccountIds : openings'[a] \subseteq openings[a] \cup {now}
    PROVE  at \in Calm'
<1>1. now \in Int /\ at \in Int
  BY DEF LedgerInv, G!RulesTypeOK, G!Times, Calm
<1>2. at <= now'
  BY <1>1 DEF Calm
<1>3. ASSUME NEW a \in AccountIds, NEW t \in openings'[a], t < at PROVE G!DayOf(a, t) < G!DayOf(a, at)
  <2>1. t # now
    BY <1>1, <1>3 DEF Calm
  <2> QED  BY <1>3, <2>1 DEF Calm
<1> QED  BY <1>2, <1>3 DEF Calm, G!DayOf

LEMMA InitialLedger == ASSUME G!RulesAssumption, G!Init PROVE LedgerInv
<1>1. 0 \in G!Times /\ DOMAIN versions = {} /\ now = 0
  BY DEF G!RulesAssumption, G!Times, G!Init
<1>2. RequestTyped /\ request = G!NoRequest
  BY <1>1 DEF G!Init, RequestTyped, G!NoRequest
<1>3. anchors \in [AccountIds -> SUBSET G!Times] /\ openings \in [AccountIds -> SUBSET G!Times]
      /\ \A a \in AccountIds : anchors[a] = {} /\ openings[a] = {}
  BY DEF G!Init
<1>4. holding \in [account : AccountIds \cup {G!Nobody}, open : BOOLEAN] /\ withdrawal \in Versions \cup {G!Nobody}
  BY DEF G!Init
<1>5. G!RulesTypeOK
  BY <1>1, <1>3, <1>4 DEF G!RulesTypeOK
<1> QED  BY <1>1, <1>2, <1>3, <1>5 DEF LedgerInv, AnchorsAreDays, TradesAreAnchored

(* The versions and the request stay, or are changed by their own steps only.                       *)
LEMMA TheWorldMoves ==
    ASSUME G!RulesAssumption, LedgerInv, G!Ticks \/ G!RecordsAnchor \/ G!Opens \/ G!Moves
    PROVE  LedgerInv'
<1>0. /\ now \in G!Times /\ now \in Nat /\ LastTick \in Nat
      /\ anchors \in [AccountIds -> SUBSET G!Times] /\ openings \in [AccountIds -> SUBSET G!Times]
      /\ holding \in [account : AccountIds \cup {G!Nobody}, open : BOOLEAN]
  BY DEF LedgerInv, G!RulesTypeOK, G!Times, G!RulesAssumption
<1>1. UNCHANGED <<versions, request, withdrawal>>
  BY DEF G!Ticks, G!RecordsAnchor, G!Opens, G!Moves
<1>2. /\ now' \in G!Times /\ now' \in Nat /\ now <= now'
      /\ anchors' \in [AccountIds -> SUBSET G!Times] /\ openings' \in [AccountIds -> SUBSET G!Times]
      /\ holding' \in [account : AccountIds \cup {G!Nobody}, open : BOOLEAN]
      /\ \A a \in AccountIds : anchors[a] \subseteq anchors'[a]
      /\ \A a \in AccountIds : openings'[a] \subseteq openings[a] \cup {now}
  <2>1. CASE G!Ticks
    BY <1>0, <2>1 DEF G!Ticks, G!Times
  <2>2. CASE G!RecordsAnchor
    BY <1>0, <2>2 DEF G!RecordsAnchor
  <2>3. CASE G!Opens
    <3>1. holding' \in [account : AccountIds \cup {G!Nobody}, open : BOOLEAN]
      BY <1>0, <2>3 DEF G!Opens
    <3> QED  BY <1>0, <2>3, <3>1 DEF G!Opens
  <2>4. CASE G!Moves
    <3>1. holding' \in [account : AccountIds \cup {G!Nobody}, open : BOOLEAN]
      <4>1. CASE holding' = [holding EXCEPT !.open = FALSE]
        BY <1>0, <4>1
      <4>2. CASE \E a \in AccountIds \cup {G!Nobody} : holding' = [account |-> a, open |-> FALSE]
        BY <4>2
      <4> QED  BY <2>4, <4>1, <4>2 DEF G!Moves
    <3> QED  BY <1>0, <2>4, <3>1 DEF G!Moves
  <2> QED  BY <2>1, <2>2, <2>3, <2>4
<1>3. G!RulesTypeOK' /\ RequestTyped'
  BY <1>1, <1>2 DEF LedgerInv, G!RulesTypeOK, RequestTyped
<1>4. AnchorsAreDays'
  <2>1. CASE G!RecordsAnchor
    <3>1. PICK b \in AccountIds : anchors' = [anchors EXCEPT ![b] = @ \cup {G!DayOf(b, now)}] /\ now' = now
      BY <1>0, <2>1 DEF G!RecordsAnchor
    <3>2. G!DayOf(b, now) % 2 = Midnight[b] /\ G!DayOf(b, now) <= now
      BY <1>0, DayStarts
    <3>3. ASSUME NEW a \in AccountIds, NEW t \in anchors'[a] PROVE t % 2 = Midnight[a] /\ t <= now
      <4>1. t \in anchors[a] \/ (a = b /\ t = G!DayOf(b, now))
        BY <1>0, <3>1, <3>3
      <4> QED  BY <3>2, <4>1 DEF LedgerInv, AnchorsAreDays
    <3> QED  BY <3>1, <3>3 DEF AnchorsAreDays
  <2>2. CASE UNCHANGED anchors
    <3>1. \A a \in AccountIds : \A t \in anchors[a] : t \in Int /\ t % 2 = Midnight[a] /\ t <= now
      BY <1>0 DEF LedgerInv, AnchorsAreDays, G!Times
    <3> QED  BY <1>0, <1>2, <2>2, <3>1 DEF AnchorsAreDays
  <2> QED  BY <2>1, <2>2 DEF G!Ticks, G!Opens, G!Moves
<1>5. TradesAreAnchored'
  <2> SUFFICES ASSUME NEW a \in AccountIds, NEW t \in openings'[a] PROVE t <= now' /\ G!DayOf(a, t) \in anchors'[a]
    BY DEF TradesAreAnchored, G!DayOf
  <2>1. CASE t \in openings[a]
    <3>1. t \in Int /\ t <= now /\ G!DayOf(a, t) \in anchors[a]
      BY <1>0, <2>1 DEF LedgerInv, TradesAreAnchored, G!Times
    <3> QED  BY <1>0, <1>2, <3>1
  <2>2. CASE t \notin openings[a]
    <3>1. G!Opens /\ t = now
      BY <1>0, <1>2, <2>2 DEF G!Ticks, G!RecordsAnchor, G!Moves
    <3>2. a = holding.account /\ UNCHANGED <<now, anchors>>
      BY <1>0, <2>2, <3>1 DEF G!Opens
    <3> QED  BY <1>0, <3>1, <3>2 DEF G!Opens
  <2> QED  BY <2>1, <2>2
<1>6. Calm \subseteq Calm'
  BY <1>2, CalmStays
<1>7. /\ (request' # G!NoRequest /\ ~request'.deferred) => request'.at \in Calm'
      /\ \A id \in DOMAIN versions' : ~versions'[id].deferred => versions'[id].at \in Calm'
  BY <1>1, <1>6 DEF LedgerInv
<1> QED  BY <1>3, <1>4, <1>5, <1>7 DEF LedgerInv

(* A change is asked for, appended, read and withdrawn: the accounts stay.                          *)
LEMMA AccountsStand ==
    ASSUME LedgerInv, UNCHANGED <<now, anchors, openings, holding>>
    PROVE  AnchorsAreDays' /\ TradesAreAnchored' /\ Calm \subseteq Calm'
BY DEF LedgerInv, AnchorsAreDays, TradesAreAnchored, Calm, G!DayOf

LEMMA GuardingKeeps ==
    ASSUME G!RulesAssumption, LedgerInv, NEW id \in Versions, NEW a \in AccountIds, G!Guards(id, a)
    PROVE  LedgerInv'
<1>0. now \in G!Times
  BY DEF LedgerInv, G!RulesTypeOK
<1> DEFINE asked == [on |-> a, id |-> id, at |-> now, deferred |-> G!GuardDefers]
<1>1. request' = asked /\ UNCHANGED <<now, anchors, openings, holding, versions, withdrawal>>
  BY DEF G!Guards
<1>2. asked \in [on : AccountIds \cup {G!Nobody}, id : Versions \cup {G!Nobody}, at : G!Times, deferred : BOOLEAN]
      /\ asked.on = a /\ asked.id = id /\ asked.at = now /\ (asked.deferred <=> G!GuardDefers)
  BY <1>0 DEF G!GuardDefers, G!TradesToday
<1> HIDE DEF asked
<1>3. G!RulesTypeOK' /\ RequestTyped'
  BY <1>1, <1>2 DEF LedgerInv, G!RulesTypeOK, RequestTyped
<1>4. ~request'.deferred => now \in Calm
  BY <1>1, <1>2, GuardLooksAtAll
<1>6. \A v \in DOMAIN versions' : ~versions'[v].deferred => versions'[v].at \in Calm'
  BY <1>1, AccountsStand DEF LedgerInv
<1>8. ~request'.deferred => request'.at \in Calm'
  BY <1>1, <1>2, <1>4, AccountsStand
<1> QED  BY <1>1, <1>3, <1>6, <1>8, AccountsStand DEF LedgerInv

LEMMA AppendingKeeps == ASSUME G!RulesAssumption, LedgerInv, G!Appends PROVE LedgerInv'
<1>0. request.on \in AccountIds /\ request.id \in Versions /\ request.at \in G!Times /\ request.deferred \in BOOLEAN
      /\ request # G!NoRequest
  BY DEF G!Appends, LedgerInv, RequestTyped
<1> DEFINE added == [on |-> request.on, at |-> request.at, deferred |-> request.deferred, cancelled |-> FALSE]
<1>1. added \in VersionRecords /\ added.at = request.at /\ (added.deferred <=> request.deferred)
  BY <1>0 DEF VersionRecords
<1>2. /\ versions' = [v \in DOMAIN versions \cup {request.id} |-> IF v = request.id THEN added ELSE versions[v]]
      /\ request' = G!NoRequest /\ UNCHANGED <<now, anchors, openings, holding, withdrawal>>
  BY DEF G!Appends
<1> HIDE DEF added
<1>3. DOMAIN versions' = DOMAIN versions \cup {request.id}
      /\ \A v \in DOMAIN versions' : versions'[v] = added \/ (v \in DOMAIN versions /\ versions'[v] = versions[v])
  BY <1>2
<1>4. G!RulesTypeOK'
  <2>1. \A v \in DOMAIN versions' : versions'[v] \in VersionRecords
    BY <1>1, <1>3 DEF LedgerInv, G!RulesTypeOK, VersionRecords
  <2> QED  BY <1>0, <1>2, <1>3, <2>1 DEF LedgerInv, G!RulesTypeOK, VersionRecords
<1>5. RequestTyped'
  <2>1. 0 \in G!Times
    BY DEF G!RulesAssumption, G!Times
  <2> QED  BY <1>2, <2>1 DEF RequestTyped, G!NoRequest
<1>6. Calm \subseteq Calm'
  BY <1>2, AccountsStand
<1>7. ASSUME NEW v \in DOMAIN versions', ~versions'[v].deferred PROVE versions'[v].at \in Calm'
  <2>1. CASE versions'[v] = added
    BY <1>0, <1>1, <1>6, <1>7, <2>1 DEF LedgerInv
  <2>2. CASE v \in DOMAIN versions /\ versions'[v] = versions[v]
    BY <1>6, <1>7, <2>2 DEF LedgerInv
  <2> QED  BY <1>3, <2>1, <2>2
<1> QED  BY <1>2, <1>4, <1>5, <1>7, AccountsStand DEF LedgerInv

LEMMA WithdrawingKeeps ==
    ASSUME G!RulesAssumption, LedgerInv, G!Withdraws \/ \E id \in Versions : G!Reads(id)
    PROVE  LedgerInv'
<1>1. UNCHANGED <<now, anchors, openings, holding, request>> /\ withdrawal' \in Versions \cup {G!Nobody}
  BY DEF G!Withdraws, G!Reads
<1>2. DOMAIN versions' = DOMAIN versions
      /\ \A v \in DOMAIN versions : /\ versions'[v] \in VersionRecords
                                    /\ versions'[v].at = versions[v].at
                                    /\ (versions'[v].deferred <=> versions[v].deferred)
  <2>1. \A v \in DOMAIN versions : versions[v] \in VersionRecords
    BY DEF LedgerInv, G!RulesTypeOK, VersionRecords
  <2>2. CASE UNCHANGED versions
    BY <2>1, <2>2
  <2>3. CASE versions' = [versions EXCEPT ![withdrawal].cancelled = TRUE]
    <3> SUFFICES ASSUME NEW v \in DOMAIN versions
                 PROVE  /\ versions'[v] \in VersionRecords /\ versions'[v].at = versions[v].at
                        /\ (versions'[v].deferred <=> versions[v].deferred)
      BY <2>3
    <3> DEFINE w == [versions[v] EXCEPT !.cancelled = TRUE]
    <3>1. w \in VersionRecords /\ w.at = versions[v].at /\ (w.deferred <=> versions[v].deferred)
      BY <2>1 DEF VersionRecords
    <3>2. versions'[v] = w \/ versions'[v] = versions[v]
      BY <2>3
    <3> HIDE DEF w
    <3> QED  BY <2>1, <3>1, <3>2
  <2> QED  BY <2>2, <2>3 DEF G!Withdraws, G!Reads
<1>3. G!RulesTypeOK' /\ RequestTyped'
  BY <1>1, <1>2 DEF LedgerInv, G!RulesTypeOK, RequestTyped, VersionRecords
<1>4. Calm \subseteq Calm'
  BY <1>1, AccountsStand
<1>5. ASSUME NEW v \in DOMAIN versions', ~versions'[v].deferred PROVE versions'[v].at \in Calm'
  BY <1>2, <1>4, <1>5 DEF LedgerInv
<1>6. (request' # G!NoRequest /\ ~request'.deferred) => request'.at \in Calm'
  BY <1>1, AccountsStand DEF LedgerInv
<1> QED  BY <1>1, <1>3, <1>5, <1>6, AccountsStand DEF LedgerInv

LEMMA LedgerSteps == ASSUME G!RulesAssumption, LedgerInv, [G!Next]_(G!rulesVars) PROVE LedgerInv'
<1>1. CASE UNCHANGED G!rulesVars
  BY <1>1 DEF G!rulesVars, LedgerInv, G!RulesTypeOK, RequestTyped, AnchorsAreDays, TradesAreAnchored, Calm, G!DayOf
<1>2. CASE G!Next
  BY <1>2, TheWorldMoves, AppendingKeeps, WithdrawingKeeps, GuardingKeeps DEF G!Next
<1> QED  BY <1>1, <1>2

(* A change that is in effect is not the one the UPDATE withdraws.                                  *)
LEMMA GoverningStays ==
    ASSUME G!RulesAssumption, LedgerInv, [G!Next]_(G!rulesVars), NEW id \in DOMAIN versions, G!InEffect(id)
    PROVE  ~versions'[id].cancelled
<1>1. ~versions[id].cancelled /\ versions[id].on \in AccountIds
      /\ (versions[id].deferred => G!Anchored(versions[id].on, versions[id].at))
  BY DEF G!InEffect, LedgerInv, G!RulesTypeOK
<1>2. CASE UNCHANGED versions
  BY <1>1, <1>2
<1>3. CASE G!Appends
  <2>1. versions'[id] = versions[id] \/ ~versions'[id].cancelled
    BY <1>3 DEF G!Appends
  <2> QED  BY <1>1, <2>1
<1>4. CASE G!Withdraws
  <2>1. CASE versions' = versions
    BY <1>1, <2>1
  <2>2. CASE G!StillWithdrawable(withdrawal) /\ versions' = [versions EXCEPT ![withdrawal].cancelled = TRUE]
    <3>1. id # withdrawal
      BY <1>1, <2>2 DEF G!StillWithdrawable, G!Withdrawable, G!DayStartedSince
    <3>2. versions'[id] = versions[id]
      BY <2>2, <3>1
    <3> QED  BY <1>1, <3>2
  <2> QED  BY <1>4, <2>1, <2>2 DEF G!Withdraws
<1> QED
  BY <1>2, <1>3, <1>4 DEF G!Next, G!rulesVars, G!Ticks, G!RecordsAnchor, G!Opens, G!Moves, G!Reads, G!Guards

(* Rules that govern are not withdrawn, and a change reaches no day that was being traded when it   *)
(* was asked for, on any of the accounts (request_rules, try_cancel).                               *)
LEMMA RulesAreSafe ==
    G!RulesAssumption => (G!Spec => []G!RulesTypeOK /\ []G!ChangesWaitForTheDay /\ G!GoverningRulesStay)
<1> SUFFICES ASSUME G!RulesAssumption
             PROVE  G!Spec => []G!RulesTypeOK /\ []G!ChangesWaitForTheDay /\ G!GoverningRulesStay
  OBVIOUS
<1>1. G!Init => LedgerInv
  BY InitialLedger
<1>2. LedgerInv /\ [G!Next]_(G!rulesVars) => LedgerInv'
  BY LedgerSteps
<1>3. LedgerInv => G!RulesTypeOK /\ G!ChangesWaitForTheDay
  BY DEF LedgerInv, G!ChangesWaitForTheDay, Calm
<1>4. LedgerInv /\ [G!Next]_(G!rulesVars)
        => [\A id \in DOMAIN versions : G!InEffect(id) => ~versions'[id].cancelled]_(G!rulesVars)
  BY GoverningStays
<1> QED  BY <1>1, <1>2, <1>3, <1>4, PTL DEF G!Spec, G!GoverningRulesStay

-----------------------------------------------------------------------------
(* Close all (services/close_all.py).                                      *)

(* A baselined picture shows at least what is open: nothing opens, it only ages.                     *)
PictureIsWide == picture.baselined => open \subseteq picture.shows

(* A plan is of what the trader confirmed, and what it says was closed already is.                   *)
IsOfTheBatch(p) ==
    /\ p \in C!Plans
    /\ DOMAIN p = {} \/ DOMAIN p = confirmed
    /\ \A t \in DOMAIN p : p[t] = "ALREADY_CLOSED" => t \notin open

CloseAllInv ==
    /\ C!CloseAllTypeOK
    /\ PictureIsWide
    /\ IsOfTheBatch(plan) /\ IsOfTheBatch(recorded)

PictureRecords == [shows : SUBSET Targets, baselined : BOOLEAN, fresh : BOOLEAN]
RunRecords == [pc : {"idle", "asking", "sending"}, left : SUBSET Targets]

LEMMA PlansAreFunctions ==
    /\ \A p \in C!Plans : DOMAIN p \subseteq Targets /\ \A t \in DOMAIN p : p[t] \in C!Dispositions
    /\ \A S \in SUBSET Targets : [S -> C!Dispositions] \subseteq C!Plans
    /\ \A p \in C!Plans : p = [t \in DOMAIN p |-> p[t]]
BY DEF C!Plans

LEMMA NoPlanIsEmpty == C!NoPlan \in C!Plans /\ DOMAIN C!NoPlan = {} /\ \A p \in C!Plans : DOMAIN p = {} => p = C!NoPlan
<1>1. C!NoPlan \in [{} -> C!Dispositions] /\ DOMAIN C!NoPlan = {}
  BY DEF C!NoPlan
<1>2. ASSUME NEW p \in C!Plans, DOMAIN p = {} PROVE p = C!NoPlan
  BY <1>2, PlansAreFunctions DEF C!NoPlan
<1> QED  BY <1>1, <1>2, PlansAreFunctions

LEMMA BlankIsTyped == C!Blank \in PictureRecords /\ ~C!Blank.baselined /\ C!Resting \in RunRecords
BY DEF C!Blank, C!Resting, PictureRecords, RunRecords

(* A plan stays one of the batch while things close, and when one of its items is refused.            *)
LEMMA BatchStays ==
    ASSUME NEW p, IsOfTheBatch(p), open' \subseteq open, UNCHANGED confirmed
    PROVE  /\ p \in C!Plans
           /\ DOMAIN p = {} \/ DOMAIN p = confirmed'
           /\ \A t \in DOMAIN p : p[t] = "ALREADY_CLOSED" => t \notin open'
BY DEF IsOfTheBatch

LEMMA RefusedInTheBatch ==
    ASSUME NEW p, IsOfTheBatch(p), NEW t \in Targets
    PROVE  IsOfTheBatch([p EXCEPT ![t] = "REFUSED"])
<1> DEFINE q == [p EXCEPT ![t] = "REFUSED"]
<1>1. p \in [DOMAIN p -> C!Dispositions] /\ DOMAIN p \subseteq Targets
  BY PlansAreFunctions DEF IsOfTheBatch
<1>2. q \in [DOMAIN p -> C!Dispositions] /\ DOMAIN q = DOMAIN p
  BY <1>1 DEF C!Dispositions
<1>3. \A u \in DOMAIN p : q[u] = p[u] \/ q[u] = "REFUSED"
  BY <1>1
<1>4. q \in C!Plans
  BY <1>1, <1>2, PlansAreFunctions
<1> HIDE DEF q
<1>5. IsOfTheBatch(q)
  BY <1>2, <1>3, <1>4 DEF IsOfTheBatch
<1> QED  BY <1>5 DEF q

(* Only a terminal that was just read says that a target is closed, and it is.                      *)
LEMMA DecisionsAreOfTheBatch ==
    ASSUME confirmed \subseteq Targets, NEW refreshed \in BOOLEAN, NEW seen,
           (refreshed /\ seen.baselined) => open \subseteq seen.shows
    PROVE  IsOfTheBatch(C!Decision(refreshed, seen))
<1> DEFINE p == C!Decision(refreshed, seen)
<1>1. DOMAIN p = confirmed /\ p \in [confirmed -> C!Dispositions]
      /\ \A t \in confirmed : p[t] = "ALREADY_CLOSED" => t \notin seen.shows /\ refreshed /\ seen.baselined
  BY DEF C!Decision, C!Gone, C!Dispositions
<1>2. p \in C!Plans
  BY <1>1, PlansAreFunctions
<1> HIDE DEF p
<1>3. IsOfTheBatch(p)
  BY <1>1, <1>2 DEF IsOfTheBatch
<1> QED  BY <1>3 DEF p

LEMMA PicturesAreTyped ==
    ASSUME CloseAllInv, NEW seen \in C!Pictures
    PROVE  seen \in PictureRecords /\ seen.shows = open
<1>1. picture.baselined \in BOOLEAN /\ open \subseteq Targets
  BY DEF CloseAllInv, C!CloseAllTypeOK
<1>2. PICK b \in BOOLEAN : seen = [shows |-> open, baselined |-> b, fresh |-> TRUE]
  BY <1>1 DEF C!Pictures
<1> QED  BY <1>1, <1>2 DEF PictureRecords

(* What a step may do: open less, see as much, keep to the batch.                                   *)
LEMMA KeepingToTheBatch ==
    ASSUME CloseAllInv, open' \subseteq open, UNCHANGED confirmed,
           picture' \in PictureRecords, picture'.baselined => open' \subseteq picture'.shows,
           IsOfTheBatch(plan'), IsOfTheBatch(recorded'),
           rows' \in [Targets -> C!RowStates], verified' \in BOOLEAN, batch' \in [Callers -> RunRecords]
    PROVE  CloseAllInv'
<1>1. plan' \in C!Plans /\ recorded' \in C!Plans
  BY DEF IsOfTheBatch
<1>2. C!CloseAllTypeOK'
  BY <1>1 DEF CloseAllInv, C!CloseAllTypeOK, PictureRecords, RunRecords, C!Plans, C!Dispositions, C!RowStates, C!Settled, C!Moving, C!Doubt, C!Done
<1>3. PictureIsWide'
  BY DEF PictureIsWide
<1>4. IsOfTheBatch(plan)' /\ IsOfTheBatch(recorded)'
  BY BatchStays DEF IsOfTheBatch, C!Plans, C!Dispositions
<1> QED  BY <1>2, <1>3, <1>4 DEF CloseAllInv

LEMMA InitialBatch == ASSUME C!CloseAllAssumption, C!Init PROVE CloseAllInv
<1>1. IsOfTheBatch(C!NoPlan)
  BY NoPlanIsEmpty DEF IsOfTheBatch
<1>2. rows \in [Targets -> C!RowStates]
  BY DEF C!Init, C!RowStates
<1>3. batch \in [Callers -> RunRecords] /\ picture \in PictureRecords /\ ~picture.baselined
  BY BlankIsTyped DEF C!Init
<1>4. C!CloseAllTypeOK
  BY <1>2, <1>3, NoPlanIsEmpty DEF C!Init, C!CloseAllTypeOK, PictureRecords, RunRecords
<1> QED  BY <1>1, <1>3, <1>4 DEF C!Init, CloseAllInv, PictureIsWide

-----------------------------------------------------------------------------
LEMMA WorldKeeps ==
    ASSUME CloseAllInv, C!Polls \/ C!Ages \/ C!Reconciles \/ C!Restarts \/ \E t \in Targets : C!BrokerCloses(t) \/ C!CommandMoves(t)
    PROVE  CloseAllInv'
<1>0. /\ picture \in PictureRecords /\ rows \in [Targets -> C!RowStates] /\ verified \in BOOLEAN
      /\ batch \in [Callers -> RunRecords] /\ PictureIsWide /\ IsOfTheBatch(plan) /\ IsOfTheBatch(recorded)
  BY DEF CloseAllInv, C!CloseAllTypeOK, PictureRecords, RunRecords
<1>1. open' \subseteq open /\ UNCHANGED <<confirmed, recorded>> /\ plan' \in {plan, C!NoPlan}
  BY DEF C!Polls, C!Ages, C!Reconciles, C!Restarts, C!BrokerCloses, C!CommandMoves
<1>2. picture' \in PictureRecords /\ (picture'.baselined => open' \subseteq picture'.shows)
  <2>1. CASE UNCHANGED picture
    BY <1>0, <1>1, <2>1 DEF PictureIsWide
  <2>2. CASE C!Polls
    BY <2>2, PicturesAreTyped DEF C!Polls
  <2>3. CASE picture' = C!Blank
    BY <2>3, BlankIsTyped
  <2>4. CASE picture' = [picture EXCEPT !.fresh = FALSE]
    BY <1>0, <1>1, <2>4 DEF PictureRecords, PictureIsWide
  <2> QED  BY <2>1, <2>2, <2>3, <2>4 DEF C!Ages, C!Reconciles, C!Restarts, C!BrokerCloses, C!CommandMoves
<1>3. rows' \in [Targets -> C!RowStates]
  BY <1>0 DEF C!Polls, C!Ages, C!Reconciles, C!Restarts, C!BrokerCloses, C!CommandMoves, C!RowStates
<1>4. verified' \in BOOLEAN /\ batch' \in [Callers -> RunRecords]
  BY <1>0, BlankIsTyped DEF C!Polls, C!Ages, C!Reconciles, C!Restarts, C!BrokerCloses, C!CommandMoves
<1>5. IsOfTheBatch(plan') /\ IsOfTheBatch(recorded')
  BY <1>0, <1>1, NoPlanIsEmpty DEF IsOfTheBatch
<1> QED  BY <1>1, <1>2, <1>3, <1>4, <1>5, KeepingToTheBatch

LEMMA RunKeeps ==
    ASSUME CloseAllInv, NEW c \in Callers, C!Asks(c) \/ C!Resumes(c) \/ C!Returns(c) \/ \E t \in Targets : C!Skips(c, t) \/ C!Submits(c, t)
    PROVE  CloseAllInv'
<1>0. /\ picture \in PictureRecords /\ rows \in [Targets -> C!RowStates] /\ verified \in BOOLEAN
      /\ batch \in [Callers -> RunRecords] /\ PictureIsWide /\ IsOfTheBatch(plan) /\ IsOfTheBatch(recorded)
  BY DEF CloseAllInv, C!CloseAllTypeOK, PictureRecords, RunRecords
<1>1. UNCHANGED <<open, confirmed, recorded, picture>>
  BY DEF C!Asks, C!Resumes, C!Returns, C!Skips, C!Submits
<1>2. plan' \in {plan, recorded}
  <2>1. CASE C!Resumes(c)
    <3>1. plan' \in C!KnownPlans \ {C!NoPlan}
      BY <2>1 DEF C!Resumes
    <3>2. C!KnownPlans \ {C!NoPlan} \subseteq {plan, recorded}
      BY DEF C!KnownPlans
    <3> QED  BY <3>1, <3>2
  <2> QED  BY <2>1 DEF C!Asks, C!Returns, C!Skips, C!Submits
<1>3. rows' \in [Targets -> C!RowStates] /\ verified' \in BOOLEAN
  BY <1>0 DEF C!Asks, C!Resumes, C!Returns, C!Skips, C!Submits, C!RowStates, C!Settled
<1>4. batch' \in [Callers -> RunRecords]
  <2>1. CASE C!Asks(c)
    <3>1. batch[c] \in RunRecords /\ batch' = [batch EXCEPT ![c] = [batch[c] EXCEPT !.pc = "asking"]]
      BY <1>0, <2>1 DEF C!Asks
    <3>2. [batch[c] EXCEPT !.pc = "asking"] \in RunRecords
      BY <3>1 DEF RunRecords
    <3> QED  BY <1>0, <3>1, <3>2
  <2>2. CASE C!Resumes(c)
    <3>1. DOMAIN plan' \subseteq Targets
      BY <1>0, <1>2, PlansAreFunctions DEF IsOfTheBatch
    <3>2. [pc |-> "sending", left |-> DOMAIN plan'] \in RunRecords
      BY <3>1 DEF RunRecords
    <3> QED  BY <1>0, <2>2, <3>2 DEF C!Resumes
  <2>3. CASE C!Returns(c)
    BY <1>0, <2>3, BlankIsTyped DEF C!Returns
  <2>4. ASSUME NEW t \in Targets, C!Looked(c, t) PROVE batch' \in [Callers -> RunRecords]
    <3>1. batch[c] \in RunRecords /\ batch' = [batch EXCEPT ![c] = [batch[c] EXCEPT !.left = @ \ {t}]]
      BY <1>0, <2>4 DEF C!Looked
    <3>2. [batch[c] EXCEPT !.left = @ \ {t}] \in RunRecords
      BY <3>1 DEF RunRecords
    <3> QED  BY <1>0, <3>1, <3>2
  <2> QED  BY <2>1, <2>2, <2>3, <2>4 DEF C!Skips, C!Submits
<1>5. IsOfTheBatch(plan') /\ IsOfTheBatch(recorded')
  BY <1>0, <1>1, <1>2
<1> QED  BY <1>0, <1>1, <1>3, <1>4, <1>5, KeepingToTheBatch DEF PictureIsWide

LEMMA DecidingKeeps == ASSUME CloseAllInv, NEW c \in Callers, C!Decides(c) PROVE CloseAllInv'
<1>0. /\ picture \in PictureRecords /\ rows \in [Targets -> C!RowStates] /\ confirmed \subseteq Targets
      /\ batch \in [Callers -> RunRecords] /\ PictureIsWide /\ IsOfTheBatch(recorded)
  BY DEF CloseAllInv, C!CloseAllTypeOK, PictureRecords, RunRecords
<1>1. UNCHANGED <<open, confirmed, rows>> /\ verified' \in BOOLEAN /\ recorded' \in {plan', recorded}
  BY DEF C!Decides
<1>2. picture' \in PictureRecords /\ (picture'.baselined => open' \subseteq picture'.shows) /\ IsOfTheBatch(plan')
  <2>1. CASE picture' \in C!Pictures /\ plan' = C!Decision(TRUE, picture')
    BY <1>0, <1>1, <2>1, PicturesAreTyped, DecisionsAreOfTheBatch
  <2>2. CASE UNCHANGED picture /\ plan' = C!Decision(FALSE, picture)
    BY <1>0, <1>1, <2>2, DecisionsAreOfTheBatch DEF PictureIsWide
  <2> QED  BY <2>1, <2>2 DEF C!Decides
<1>3. batch' \in [Callers -> RunRecords]
  <2>1. [pc |-> "sending", left |-> confirmed] \in RunRecords
    BY <1>0 DEF RunRecords
  <2> QED  BY <1>0, <2>1 DEF C!Decides
<1> QED  BY <1>0, <1>1, <1>2, <1>3, KeepingToTheBatch

LEMMA RefusingKeeps == ASSUME CloseAllInv, NEW c \in Callers, NEW t \in Targets, C!IsRefused(c, t) PROVE CloseAllInv'
<1>0. /\ picture \in PictureRecords /\ rows \in [Targets -> C!RowStates] /\ verified \in BOOLEAN
      /\ batch \in [Callers -> RunRecords] /\ PictureIsWide /\ IsOfTheBatch(plan) /\ IsOfTheBatch(recorded)
  BY DEF CloseAllInv, C!CloseAllTypeOK, PictureRecords, RunRecords
<1>1. UNCHANGED <<open, picture, confirmed, recorded>> /\ plan' = [plan EXCEPT ![t] = "REFUSED"]
  BY DEF C!IsRefused
<1>2. IsOfTheBatch(plan')
  BY <1>0, <1>1, RefusedInTheBatch
<1>3. rows' \in [Targets -> C!RowStates] /\ verified' \in BOOLEAN
  <2>1. rows' = rows \/ rows' = [rows EXCEPT ![t] = C!Moving]
    BY DEF C!IsRefused
  <2>2. verified' \in BOOLEAN
    BY DEF C!IsRefused
  <2> QED  BY <1>0, <2>1, <2>2 DEF C!RowStates
<1>4. batch' \in [Callers -> RunRecords]
  <2>1. batch[c] \in RunRecords /\ batch' = [batch EXCEPT ![c] = [batch[c] EXCEPT !.left = @ \ {t}]]
    BY <1>0 DEF C!IsRefused, C!Looked
  <2>2. [batch[c] EXCEPT !.left = @ \ {t}] \in RunRecords
    BY <2>1 DEF RunRecords
  <2> QED  BY <1>0, <2>1, <2>2
<1> QED  BY <1>0, <1>1, <1>2, <1>3, <1>4, KeepingToTheBatch DEF PictureIsWide

LEMMA BatchSteps == ASSUME CloseAllInv, [C!Next]_(C!vars) PROVE CloseAllInv'
<1>1. CASE UNCHANGED C!vars
  BY <1>1 DEF C!vars, CloseAllInv, C!CloseAllTypeOK, PictureIsWide, IsOfTheBatch
<1>2. CASE C!Next
  BY <1>2, WorldKeeps, RunKeeps, DecidingKeeps, RefusingKeeps DEF C!Next
<1> QED  BY <1>1, <1>2

(* An item that is done is one the picture does not show, or that a terminal just read said was closed. *)
LEMMA DoneIsGone ==
    ASSUME PictureIsWide, NEW items, IsOfTheBatch(items), C!AllDone(items), NEW t \in DOMAIN items
    PROVE  t \notin open
<1> DEFINE row == C!RowOf(items, t)
           still == C!StillOpen(t)
<1>1. C!Classify(items[t], row, still) \in {"CONFIRMED", "ALREADY_CLOSED"}
  BY DEF C!AllDone, C!Statuses
<1>2. items[t] # "SENT" => row = "none"
  BY DEF C!RowOf
<1>3. ~still => t \notin open
  BY DEF C!StillOpen, PictureIsWide
<1>4. items[t] \in C!Dispositions
  BY PlansAreFunctions DEF IsOfTheBatch
<1> HIDE DEF row, still
<1>5. still => items[t] = "ALREADY_CLOSED"
  BY <1>1, <1>2, <1>4 DEF C!Classify, C!WithoutRow, C!Dispositions, C!Moving, C!Doubt, C!Done
<1> QED  BY <1>3, <1>5 DEF IsOfTheBatch

LEMMA InvMeansComplete == ASSUME CloseAllInv PROVE C!CompleteIsTrue
<1> SUFFICES ASSUME NEW items \in C!Readings, C!IsComplete(items)
             PROVE  DOMAIN items \cap open = {} /\ (plan # C!NoPlan => confirmed \cap open = {})
  BY DEF C!CompleteIsTrue
<1>1. IsOfTheBatch(plan) /\ IsOfTheBatch(recorded) /\ PictureIsWide /\ C!AllDone(items)
  BY DEF CloseAllInv, C!IsComplete
<1>2. items \in {plan, recorded, C!ItemsFromRows} /\ (plan # C!NoPlan => items = plan)
  BY DEF C!Readings, C!KnownPlans
<1>3. ASSUME NEW t \in DOMAIN items PROVE t \notin open
  <2>1. CASE items \in {plan, recorded}
    BY <1>1, <2>1, DoneIsGone
  <2>2. CASE items = C!ItemsFromRows
    <3>1. items[t] = "SENT"
      BY <1>3, <2>2 DEF C!ItemsFromRows
    <3>2. C!Classify(items[t], C!RowOf(items, t), C!StillOpen(t)) \in {"CONFIRMED", "ALREADY_CLOSED"}
      BY <1>1 DEF C!AllDone, C!Statuses
    <3> DEFINE row == C!RowOf(items, t)
    <3> HIDE DEF row
    <3>3. C!Classify(items[t], row, C!StillOpen(t)) \in {"CONFIRMED", "ALREADY_CLOSED"}
      BY <3>2 DEF row
    <3>4. ~C!StillOpen(t)
      <4> DEFINE still == C!StillOpen(t)
      <4> HIDE DEF still
      <4>1. C!Classify(items[t], row, still) \in {"CONFIRMED", "ALREADY_CLOSED"}
        BY <3>3 DEF still
      <4>2. ~still
        BY <3>1, <4>1 DEF C!Classify, C!WithoutRow, C!Moving, C!Doubt, C!Done
      <4> QED  BY <4>2 DEF still
    <3> QED  BY <1>1, <3>4 DEF C!StillOpen, PictureIsWide
  <2> QED  BY <1>2, <2>1, <2>2
<1>4. plan # C!NoPlan => DOMAIN items = confirmed
  BY <1>1, <1>2, NoPlanIsEmpty DEF IsOfTheBatch
<1> QED  BY <1>3, <1>4

(* A COMPLETE report is true of the broker, whatever was retried, lost, refused or restarted, for any *)
(* targets and callers (CloseAllService, assess).                                                   *)
LEMMA BatchIsSafe == C!CloseAllAssumption => (C!Spec => [](C!CloseAllTypeOK /\ C!CompleteIsTrue))
<1> SUFFICES ASSUME C!CloseAllAssumption PROVE C!Spec => [](C!CloseAllTypeOK /\ C!CompleteIsTrue)
  OBVIOUS
<1>1. C!Init => CloseAllInv
  BY InitialBatch
<1>2. CloseAllInv /\ [C!Next]_(C!vars) => CloseAllInv'
  BY BatchSteps
<1>3. CloseAllInv => C!CloseAllTypeOK /\ C!CompleteIsTrue
  BY InvMeansComplete DEF CloseAllInv
<1> QED  BY <1>1, <1>2, <1>3, PTL DEF C!Spec

-----------------------------------------------------------------------------
(* The reconciliation (services/reconciliation.py).                        *)

(* The run holds sets of the account's orders, and rows once it has read them. *)
WithRows == {"settle", "expect", "confirm"}
RunRead ==
    /\ recRun \in [pc : {"idle", "broker"} \cup WithRows, live : SUBSET (Commands \cup ByHand), resting : SUBSET Commands,
                bare : SUBSET Commands, ripe : SUBSET Commands,
                rows : [Commands -> R!RowStates] \cup {R!NoRun.rows}, closed : SUBSET Commands]
    /\ recRun.pc \in WithRows => recRun.rows \in [Commands -> R!RowStates]

(* The broker holds nothing without a row, and what is ripe is executed and, if placed, listed. *)
RecordStands(c) ==
    /\ real[c] # "none" => recRow[c] # "none"
    /\ real[c] = "resting" => c \in limits
    /\ recRow[c] = "reconciled" => real[c] \in {"open", "shut"}
    /\ c \in ripe => recRow[c] \in R!HasFilled /\ (real[c] \in R!Placed => c \in listed)

(* A picture does not expire: what it shows was placed, and a ripe order that it does not show is shut, a *)
(* LIMIT order, or was never placed.                                                                  *)
PictureStands(c) ==
    /\ c \in recRun.live => real[c] \in {"open", "shut"}
    /\ c \in recRun.resting => real[c] \in R!Placed
    /\ c \in recRun.closed => real[c] = "shut"
    /\ c \in recRun.ripe => c \in ripe
    /\ c \in recRun.ripe /\ real[c] \in R!Placed => c \in recRun.live \/ c \in limits \/ real[c] = "shut"

(* The rows were read after the picture, so every position of the picture has its row among them. *)
RowsStand(c) ==
    recRun.pc \in WithRows =>
        /\ recRun.rows[c] \in R!HasFilled => recRow[c] \in R!HasFilled
        /\ c \in recRun.live => recRun.rows[c] # "none"

(* Once the history is read, what is missing was never placed. *)
HistoryStands(c) == recRun.pc = "confirm" /\ c \in R!Missing => real[c] \notin R!Placed

(* A finding stays true after its report: nothing executed is received later. *)
FindingStands(f) ==
    /\ f.kind = "missing" => f.of \in Commands /\ recRow[f.of] \in R!HasFilled /\ real[f.of] \notin R!Placed
    /\ f.kind \in {"contradiction", "order"} => f.of \in Commands /\ real[f.of] \in R!Placed
    /\ f.kind = "orphan" => f.of \in ByHand

Reconciled ==
    /\ R!ReconciliationTypeOK
    /\ RunRead
    /\ \A c \in Commands : RecordStands(c) /\ PictureStands(c) /\ RowsStand(c) /\ HistoryStands(c)
    /\ \A f \in report : FindingStands(f)

-----------------------------------------------------------------------------
(* What holds whatever the broker and the execution service do: they move no row out of HasFilled, lose *)
(* no placed order and place none that is executed, and leave the run alone.                          *)
WorldMoves ==
    /\ R!ReconciliationTypeOK'
    /\ UNCHANGED <<limits, recRun, report>>
    /\ ripe \subseteq ripe'
    /\ \A c \in Commands :
        /\ recRow[c] \in R!HasFilled => recRow'[c] \in R!HasFilled /\ (real'[c] \in R!Placed => real[c] \in R!Placed)
        /\ real[c] \in R!Placed => real'[c] \in R!Placed
        /\ real[c] \in {"open", "shut"} => real'[c] \in {"open", "shut"}
        /\ real[c] = "shut" => real'[c] = "shut"

LEMMA InitialReconciliation == R!Init => Reconciled
<1> SUFFICES ASSUME R!Init PROVE Reconciled
  OBVIOUS
<1>1. recRun = R!NoRun /\ report = {}
  BY DEF R!Init
<1>2. RunRead
  BY <1>1, SMTT(20) DEF R!NoRun, RunRead, WithRows
<1>3. R!ReconciliationTypeOK
  BY DEF R!Init, R!ReconciliationTypeOK, R!NoRun, R!RowStates, R!Placed
<1>4. ASSUME NEW c \in Commands
      PROVE  RecordStands(c) /\ PictureStands(c) /\ RowsStand(c) /\ HistoryStands(c)
  BY DEF R!Init, R!NoRun, RecordStands, PictureStands, RowsStand, HistoryStands, WithRows
<1> QED  BY <1>1, <1>2, <1>3, <1>4 DEF Reconciled

LEMMA WorldKeepsTheRun ==
    ASSUME Reconciled, WorldMoves, \A c \in Commands : RecordStands(c)'
    PROVE  Reconciled'
<1>0. R!ReconciliationTypeOK /\ RunRead /\ recRun' = recRun /\ report' = report /\ limits' = limits /\ ripe \subseteq ripe'
  BY DEF Reconciled, WorldMoves
<1>1. RunRead'
  BY <1>0 DEF RunRead
<1>2. ASSUME NEW c \in Commands
      PROVE  /\ recRow[c] \in R!HasFilled => recRow'[c] \in R!HasFilled /\ (real'[c] \in R!Placed => real[c] \in R!Placed)
             /\ real[c] \in R!Placed => real'[c] \in R!Placed
             /\ real[c] \in {"open", "shut"} => real'[c] \in {"open", "shut"}
             /\ real[c] = "shut" => real'[c] = "shut"
  BY DEF WorldMoves
<1>3. ASSUME NEW c \in Commands
      PROVE  PictureStands(c)' /\ RowsStand(c)' /\ HistoryStands(c)'
  <2>1. RecordStands(c) /\ PictureStands(c) /\ RowsStand(c) /\ HistoryStands(c)
    BY DEF Reconciled
  <2>2. R!Missing' = R!Missing
    BY <1>0 DEF R!Missing, R!Expected
  <2>3. c \in R!Missing /\ recRun.pc = "confirm" => recRow[c] \in R!HasFilled
    BY <2>1 DEF RowsStand, R!Missing, R!Expected, WithRows
  <2>4. PictureStands(c)'
    BY <1>0, <1>2, <2>1 DEF PictureStands, RecordStands
  <2>5. RowsStand(c)'
    BY <1>0, <1>2, <2>1 DEF RowsStand
  <2>6. HistoryStands(c)'
    BY <1>0, <1>2, <2>1, <2>2, <2>3 DEF HistoryStands
  <2> QED  BY <2>4, <2>5, <2>6
<1>4. ASSUME NEW f \in report' PROVE FindingStands(f)'
  <2>1. FindingStands(f)
    BY <1>0 DEF Reconciled
  <2> QED  BY <1>0, <1>2, <2>1 DEF FindingStands
<1>5. R!ReconciliationTypeOK'
  BY DEF WorldMoves
<1> QED  BY <1>1, <1>3, <1>4, <1>5 DEF Reconciled

LEMMA WorldKeepsReconciled ==
    ASSUME Reconciled, R!WorldSteps PROVE Reconciled'
<1>0. R!ReconciliationTypeOK /\ \A c \in Commands : RecordStands(c)
  BY DEF Reconciled
<1>1. CASE R!UserTrades
  <2>1. WorldMoves
    BY <1>0, <1>1 DEF R!UserTrades, WorldMoves, R!ReconciliationTypeOK
  <2>2. \A c \in Commands : RecordStands(c)'
    BY <1>0, <1>1 DEF R!UserTrades, RecordStands
  <2> QED  BY <2>1, <2>2, WorldKeepsTheRun
<1>2. ASSUME NEW c \in Commands, R!Writes(c) PROVE Reconciled'
  <2>0. /\ UNCHANGED <<limits, real, listed, bare, hand, ripe, recRun, report>>
        /\ recRow[c] \notin R!HasFilled
        /\ \E s \in R!RowStates \ {"none", "reconciled"} : recRow' = [recRow EXCEPT ![c] = s]
    BY <1>2 DEF R!Writes, R!RowStates, R!NoPosition, R!InDoubt, R!HasFilled
  <2>1. WorldMoves
    BY <1>0, <2>0 DEF WorldMoves, R!ReconciliationTypeOK
  <2>2. \A d \in Commands : RecordStands(d)'
    BY <1>0, <2>0 DEF RecordStands, R!ReconciliationTypeOK
  <2> QED  BY <2>1, <2>2, WorldKeepsTheRun
<1>3. ASSUME NEW c \in Commands, R!Receives(c) PROVE Reconciled'
  <2>0. recRow[c] \in {"sent", "unknown", "refused"} /\ real[c] = "none"
    BY <1>3 DEF R!Receives, R!InDoubt, R!May
  <2>1. WorldMoves
    BY <1>0, <1>3, <2>0, SMTT(20) DEF R!Receives, WorldMoves, R!ReconciliationTypeOK, R!HasFilled, R!Placed
  <2>2. \A d \in Commands : RecordStands(d)'
    BY <1>0, <1>3, <2>0, SMTT(20) DEF R!Receives, RecordStands, R!ReconciliationTypeOK, R!HasFilled, R!Placed
  <2> QED  BY <2>1, <2>2, WorldKeepsTheRun
<1>4. ASSUME NEW c \in Commands, R!Denies(c) PROVE Reconciled'
  <2>1. WorldMoves
    BY <1>0, <1>4, SMTT(20) DEF R!Denies, WorldMoves, R!ReconciliationTypeOK, R!HasFilled, R!Placed
  <2>2. \A d \in Commands : RecordStands(d)'
    BY <1>0, <1>4, SMTT(20) DEF R!Denies, RecordStands, R!ReconciliationTypeOK, R!HasFilled, R!Placed
  <2> QED  BY <2>1, <2>2, WorldKeepsTheRun
<1>5. ASSUME NEW c \in Commands, R!Moves(c) PROVE Reconciled'
  <2>1. WorldMoves
    BY <1>0, <1>5, SMTT(20) DEF R!Moves, WorldMoves, R!ReconciliationTypeOK, R!HasFilled, R!Placed
  <2>2. \A d \in Commands : RecordStands(d)'
    BY <1>0, <1>5, SMTT(20) DEF R!Moves, RecordStands, R!ReconciliationTypeOK, R!HasFilled, R!Placed
  <2> QED  BY <2>1, <2>2, WorldKeepsTheRun
<1>6. ASSUME NEW c \in Commands, R!Lists(c) PROVE Reconciled'
  <2>1. WorldMoves
    BY <1>0, <1>6 DEF R!Lists, WorldMoves, R!ReconciliationTypeOK
  <2>2. \A d \in Commands : RecordStands(d)'
    BY <1>0, <1>6 DEF R!Lists, RecordStands, R!ReconciliationTypeOK
  <2> QED  BY <2>1, <2>2, WorldKeepsTheRun
<1>7. ASSUME NEW c \in Commands, R!Ripens(c) PROVE Reconciled'
  <2>1. WorldMoves
    BY <1>0, <1>7 DEF R!Ripens, WorldMoves, R!ReconciliationTypeOK
  <2>2. \A d \in Commands : RecordStands(d)'
    BY <1>0, <1>7 DEF R!Ripens, RecordStands, R!ReconciliationTypeOK
  <2> QED  BY <2>1, <2>2, WorldKeepsTheRun
<1> QED  BY <1>1, <1>2, <1>3, <1>4, <1>5, <1>6, <1>7 DEF R!WorldSteps

-----------------------------------------------------------------------------
(* The steps of the run.                                                   *)

LEMMA ReadsBrokerKeepsReconciled == ASSUME R!ReconciliationAssumption, Reconciled, R!ReadsBroker PROVE Reconciled'
<1>0. /\ R!ReconciliationTypeOK
      /\ \A c \in Commands : RecordStands(c)
      /\ \A f \in report : FindingStands(f)
      /\ UNCHANGED <<limits, real, listed, bare, hand, recRow, ripe, report>>
  BY DEF Reconciled, R!ReadsBroker
<1>1. /\ recRun'.pc = "broker" /\ recRun'.live = R!ShownAs("open") \cup hand /\ recRun'.resting = R!ShownAs("resting")
      /\ recRun'.ripe = ripe /\ recRun'.closed = {} /\ recRun'.rows = R!NoRun.rows
      /\ recRun' \in [pc : {"idle", "broker"} \cup WithRows, live : SUBSET (Commands \cup ByHand), resting : SUBSET Commands,
                   bare : SUBSET Commands, ripe : SUBSET Commands,
                   rows : [Commands -> R!RowStates] \cup {R!NoRun.rows}, closed : SUBSET Commands]
  <2> DEFINE none == R!NoRun.rows
             read == [pc |-> "broker", live |-> R!ShownAs("open") \cup hand, resting |-> R!ShownAs("resting"),
                      bare |-> bare \cap R!ShownAs("open"), ripe |-> ripe, rows |-> none, closed |-> {}]
  <2>1. recRun' = read
    BY DEF R!ReadsBroker, R!NoRun
  <2>2. R!ShownAs("open") \subseteq Commands /\ R!ShownAs("resting") \subseteq Commands
    BY <1>0 DEF R!ShownAs, R!ReconciliationTypeOK
  <2> HIDE DEF none
  <2>3. none = R!NoRun.rows
    BY DEF none
  <2> QED  BY <1>0, <2>1, <2>2, <2>3 DEF R!ReconciliationTypeOK
<1>2. RunRead'
  BY <1>1 DEF RunRead, WithRows
<1>3. R!ReconciliationTypeOK'
  BY <1>0, <1>1 DEF R!ReconciliationTypeOK
<1>4. ASSUME NEW c \in Commands
      PROVE  RecordStands(c)' /\ PictureStands(c)' /\ RowsStand(c)' /\ HistoryStands(c)'
  <2>1. RecordStands(c) /\ c \notin hand
    BY <1>0, R!ReconciliationAssumption DEF R!ReconciliationTypeOK, R!ReconciliationAssumption
  <2> QED
    BY <1>0, <1>1, <2>1, SMTT(20)
    DEF RecordStands, PictureStands, RowsStand, HistoryStands, WithRows, R!ShownAs, R!Placed
<1>5. \A f \in report' : FindingStands(f)'
  BY <1>0 DEF FindingStands
<1> QED  BY <1>2, <1>3, <1>4, <1>5 DEF Reconciled

LEMMA ReadsRowsKeepsReconciled == ASSUME Reconciled, R!ReadsRows PROVE Reconciled'
<1>0. /\ R!ReconciliationTypeOK /\ RunRead
      /\ \A c \in Commands : RecordStands(c) /\ PictureStands(c)
      /\ \A f \in report : FindingStands(f)
      /\ UNCHANGED <<limits, real, listed, bare, hand, recRow, ripe, report>>
  BY DEF Reconciled, R!ReadsRows
<1>1. recRun' = [recRun EXCEPT !.pc = "settle", !.rows = recRow]
  BY DEF R!ReadsRows
<1>2. RunRead' /\ R!ReconciliationTypeOK'
  BY <1>0, <1>1 DEF RunRead, R!ReconciliationTypeOK, WithRows
<1>3. /\ recRun'.pc = "settle" /\ recRun'.rows = recRow /\ recRun'.live = recRun.live /\ recRun'.resting = recRun.resting
      /\ recRun'.ripe = recRun.ripe /\ recRun'.closed = recRun.closed
  BY <1>0, <1>1 DEF RunRead
<1>4. ASSUME NEW c \in Commands
      PROVE  RecordStands(c)' /\ PictureStands(c)' /\ RowsStand(c)' /\ HistoryStands(c)'
  <2>1. RecordStands(c) /\ PictureStands(c)
    BY <1>0
  <2> QED
    BY <1>0, <1>3, <2>1, SMTT(20) DEF RecordStands, PictureStands, RowsStand, HistoryStands
<1>5. \A f \in report' : FindingStands(f)'
  BY <1>0 DEF FindingStands
<1> QED  BY <1>2, <1>4, <1>5 DEF Reconciled

(* What the search of a command in doubt concludes is so. *)
LEMMA SettlesDoubtKeepsReconciled == ASSUME Reconciled, R!SettlesDoubt PROVE Reconciled'
<1>0. /\ R!ReconciliationTypeOK /\ RunRead /\ recRun.pc = "settle"
      /\ \A c \in Commands : RecordStands(c) /\ PictureStands(c) /\ RowsStand(c)
      /\ \A f \in report : FindingStands(f)
      /\ UNCHANGED <<limits, real, listed, bare, hand, ripe, report>>
  BY DEF Reconciled, R!SettlesDoubt
<1>1. PICK due \in SUBSET {c \in Commands : recRun.rows[c] = "unknown"} :
        LET moved == {c \in due : R!Resolution(c) # "not found" /\ recRow[c] = "unknown"}
        IN /\ recRow' = [c \in Commands |-> IF c \in moved THEN R!Resolution(c) ELSE recRow[c]]
           /\ recRun' = [recRun EXCEPT !.pc = "expect", !.rows = IF moved = {} THEN @ ELSE recRow']
  BY DEF R!SettlesDoubt
<1>2. ASSUME NEW c \in Commands
      PROVE  \/ recRow'[c] = recRow[c]
             \/ recRow[c] = "unknown" /\ recRow'[c] = R!Resolution(c) /\ recRow'[c] # "not found"
  BY <1>1
<1>3. ASSUME NEW c \in Commands
      PROVE  /\ R!Resolution(c) \in {"reconciled", "reconciled empty", "not found"}
             /\ R!Resolution(c) = "reconciled" => real[c] \in {"open", "shut"}
  BY <1>0 DEF R!Resolution, PictureStands
<1>4. recRow' \in [Commands -> R!RowStates]
  BY <1>0, <1>1, <1>2, <1>3 DEF R!ReconciliationTypeOK, R!RowStates, R!HasFilled
<1>5. /\ recRun' \in [pc : {"expect"}, live : SUBSET (Commands \cup ByHand), resting : SUBSET Commands,
                   bare : SUBSET Commands, ripe : SUBSET Commands, rows : [Commands -> R!RowStates], closed : SUBSET Commands]
      /\ recRun'.rows \in {recRun.rows, recRow'}
      /\ recRun'.live = recRun.live /\ recRun'.resting = recRun.resting /\ recRun'.ripe = recRun.ripe /\ recRun'.closed = recRun.closed
  <2>1. PICK said \in {recRun.rows, recRow'} : recRun' = [recRun EXCEPT !.pc = "expect", !.rows = said]
    BY <1>1
  <2>2. said \in [Commands -> R!RowStates]
    BY <1>0, <1>4, <2>1 DEF RunRead, WithRows
  <2> QED  BY <1>0, <2>1, <2>2 DEF RunRead, WithRows
<1>6. RunRead' /\ R!ReconciliationTypeOK'
  BY <1>0, <1>4, <1>5 DEF RunRead, R!ReconciliationTypeOK, WithRows
<1>7. ASSUME NEW c \in Commands
      PROVE  RecordStands(c)' /\ PictureStands(c)' /\ RowsStand(c)' /\ HistoryStands(c)'
  <2>1. RecordStands(c) /\ PictureStands(c) /\ RowsStand(c)
    BY <1>0
  <2>2. recRow[c] \in R!HasFilled => recRow'[c] \in R!HasFilled
    BY <1>2 DEF R!HasFilled
  <2>3. recRow'[c] = "none" => recRow[c] = "none"
    BY <1>2, <1>3
  <2>4. RecordStands(c)'
    BY <1>0, <1>2, <1>3, <2>1, <2>2, <2>3 DEF RecordStands
  <2>5. PictureStands(c)'
    BY <1>0, <1>5, <2>1 DEF PictureStands
  <2>6. RowsStand(c)'
    <3>1. c \in recRun.live => recRow[c] # "none"
      BY <2>1 DEF RecordStands, PictureStands
    <3> QED  BY <1>0, <1>5, <2>1, <2>2, <2>3, <3>1 DEF RowsStand, WithRows
  <2>7. HistoryStands(c)'
    BY <1>5 DEF HistoryStands
  <2> QED  BY <2>4, <2>5, <2>6, <2>7
<1>8. ASSUME NEW f \in report' PROVE FindingStands(f)'
  <2>1. f.of \in Commands => (recRow[f.of] \in R!HasFilled => recRow'[f.of] \in R!HasFilled)
    BY <1>2 DEF R!HasFilled
  <2> QED  BY <1>0, <2>1 DEF FindingStands
<1> QED  BY <1>6, <1>7, <1>8 DEF Reconciled

(* What is ripe, expected, not in the picture and not in the history was never placed. *)
LEMMA LooksInHistoryKeepsReconciled == ASSUME Reconciled, R!LooksInHistory PROVE Reconciled'
<1>0. /\ R!ReconciliationTypeOK /\ RunRead /\ recRun.pc = "expect"
      /\ \A c \in Commands : RecordStands(c) /\ PictureStands(c) /\ RowsStand(c)
      /\ \A f \in report : FindingStands(f)
      /\ UNCHANGED <<limits, real, listed, bare, hand, recRow, ripe, report>>
  BY DEF Reconciled, R!LooksInHistory
<1> DEFINE gone == {c \in (R!Expected \ recRun.live) \cap recRun.ripe : c \in R!ShownAs("shut")}
<1>1. recRun' = [recRun EXCEPT !.pc = "confirm", !.ripe = recRun.ripe, !.closed = gone]
  BY DEF R!LooksInHistory, R!RipeAtThePicture
<1>2. gone \subseteq Commands /\ \A c \in gone : real[c] = "shut"
  BY DEF R!Expected, R!ShownAs
<1>3. /\ recRun' \in [pc : {"confirm"}, live : SUBSET (Commands \cup ByHand), resting : SUBSET Commands,
                   bare : SUBSET Commands, ripe : SUBSET Commands, rows : [Commands -> R!RowStates], closed : SUBSET Commands]
      /\ recRun'.rows = recRun.rows /\ recRun'.live = recRun.live /\ recRun'.resting = recRun.resting /\ recRun'.ripe = recRun.ripe
      /\ recRun'.closed = gone
  <2> HIDE DEF gone
  <2> QED  BY <1>0, <1>1, <1>2 DEF RunRead, WithRows
<1>4. RunRead' /\ R!ReconciliationTypeOK'
  BY <1>0, <1>3 DEF RunRead, R!ReconciliationTypeOK, WithRows
<1>5. R!Missing' = ((R!Expected \ recRun.live) \ gone) \cap recRun.ripe
  BY <1>0, <1>3 DEF R!Missing, R!Expected
<1>6. ASSUME NEW c \in Commands
      PROVE  RecordStands(c)' /\ PictureStands(c)' /\ RowsStand(c)' /\ HistoryStands(c)'
  <2>1. RecordStands(c) /\ PictureStands(c) /\ RowsStand(c)
    BY <1>0
  <2>2. RecordStands(c)' /\ RowsStand(c)'
    BY <1>0, <1>3, <2>1 DEF RecordStands, RowsStand, WithRows
  <2>3. PictureStands(c)'
    BY <1>0, <1>2, <1>3, <2>1 DEF PictureStands
  <2>4. ASSUME c \in R!Missing' PROVE real[c] \notin R!Placed
    <3>1. c \in R!Expected /\ c \notin recRun.live /\ c \in recRun.ripe /\ c \notin gone
      BY <1>5, <2>4
    <3>2. c \notin limits /\ ~(c \in listed /\ real[c] = "shut")
      BY <3>1 DEF R!Expected, R!ShownAs
    <3> QED  BY <2>1, <3>1, <3>2 DEF PictureStands, RecordStands
  <2> QED  BY <1>0, <2>2, <2>3, <2>4 DEF HistoryStands
<1>7. \A f \in report' : FindingStands(f)'
  BY <1>0 DEF FindingStands
<1> QED  BY <1>4, <1>6, <1>7 DEF Reconciled

LEMMA NothingIsRead ==
    ASSUME R!ReconciliationTypeOK', recRun' = R!NoRun, \A c \in Commands : RecordStands(c)', \A f \in report' : FindingStands(f)'
    PROVE  Reconciled'
<1>1. RunRead'
  BY SMTT(20) DEF R!NoRun, RunRead, WithRows
<1>2. ASSUME NEW c \in Commands PROVE PictureStands(c)' /\ RowsStand(c)' /\ HistoryStands(c)'
  BY DEF R!NoRun, PictureStands, RowsStand, HistoryStands, WithRows
<1> QED  BY <1>1, <1>2 DEF Reconciled

(* What the comparison finds is so, and what is confirmed is or was there. *)
LEMMA ConcludesKeepsReconciled == ASSUME R!ReconciliationAssumption, Reconciled, R!Concludes PROVE Reconciled'
<1>0. /\ R!ReconciliationTypeOK /\ RunRead /\ recRun.pc = "confirm" /\ recRun' = R!NoRun /\ report' = R!Comparison
      /\ \A c \in Commands : RecordStands(c) /\ PictureStands(c) /\ RowsStand(c) /\ HistoryStands(c)
      /\ UNCHANGED <<limits, real, listed, bare, hand, ripe>>
  BY DEF Reconciled, R!Concludes
<1>1. ASSUME NEW c \in Commands
      PROVE  recRow'[c] = recRow[c] \/ (recRow[c] = "executed" /\ recRow'[c] = "reconciled" /\ c \in recRun.live \cup recRun.closed)
  BY DEF R!Concludes, R!Confirmable
<1>2. ASSUME NEW c \in Commands PROVE recRow[c] \in R!HasFilled => recRow'[c] \in R!HasFilled
  BY <1>1 DEF R!HasFilled
<1>3. ASSUME NEW c \in Commands PROVE RecordStands(c)'
  BY <1>0, <1>1, <1>2 DEF RecordStands, PictureStands
<1>4. recRow' \in [Commands -> R!RowStates]
  <2>1. recRow' = [c \in Commands |-> recRow'[c]]
    BY DEF R!Concludes
  <2>2. \A c \in Commands : recRow'[c] \in R!RowStates
    BY <1>0, <1>1 DEF R!ReconciliationTypeOK, R!RowStates, R!HasFilled
  <2> QED  BY <2>1, <2>2
<1>5. /\ R!Expected \subseteq Commands /\ R!Missing \subseteq R!Expected
      /\ recRun.live \subseteq Commands \cup ByHand /\ recRun.resting \subseteq Commands
  BY <1>0 DEF R!Expected, R!Missing, RunRead
<1>6. ASSUME NEW f \in R!Comparison PROVE f \in R!Findings /\ FindingStands(f)'
  <2> DEFINE Of(kind, S) == f.kind = kind /\ f.of \in S /\ f = [kind |-> kind, of |-> f.of]
             unmatched == recRun.live \ R!Expected
  <2>1. \/ Of("missing", R!Missing)
        \/ Of("contradiction", {c \in unmatched \cap Commands : recRun.rows[c] \in R!NoPosition})
        \/ Of("orphan", (unmatched \cap ByHand) \cup {c \in unmatched \cap Commands : recRun.rows[c] = "none"})
        \/ Of("order", {c \in recRun.resting : recRun.rows[c] \in R!NoPosition \cup {"none"}})
        \/ Of("unresolved", {c \in Commands : recRun.rows[c] = "unknown"})
        \/ Of("stop removed", R!Expected \cap recRun.bare)
    BY <1>6 DEF R!Comparison, R!Found
  <2>2. CASE Of("missing", R!Missing)
    <3>1. f.of \in Commands /\ recRun.rows[f.of] \in R!HasFilled
      BY <1>5, <2>2 DEF R!Missing, R!Expected
    <3>2. recRow'[f.of] \in R!HasFilled /\ real'[f.of] \notin R!Placed
      BY <1>0, <1>2, <2>2, <3>1 DEF RowsStand, HistoryStands, WithRows
    <3> QED  BY <2>2, <3>1, <3>2 DEF R!Findings, FindingStands
  <2>3. CASE Of("contradiction", {c \in unmatched \cap Commands : recRun.rows[c] \in R!NoPosition})
    <3>1. f.of \in Commands /\ real'[f.of] \in R!Placed
      BY <1>0, <2>3 DEF PictureStands, R!Placed
    <3> QED  BY <2>3, <3>1 DEF R!Findings, FindingStands
  <2>4. CASE Of("orphan", (unmatched \cap ByHand) \cup {c \in unmatched \cap Commands : recRun.rows[c] = "none"})
    <3>1. f.of \in ByHand
      BY <1>0, <2>4 DEF RowsStand, WithRows
    <3> QED  BY <2>4, <3>1 DEF R!Findings, FindingStands
  <2>5. CASE Of("order", {c \in recRun.resting : recRun.rows[c] \in R!NoPosition \cup {"none"}})
    <3>1. f.of \in Commands /\ real'[f.of] \in R!Placed
      BY <1>0, <1>5, <2>5 DEF PictureStands
    <3> QED  BY <2>5, <3>1 DEF R!Findings, FindingStands
  <2>6. CASE Of("unresolved", {c \in Commands : recRun.rows[c] = "unknown"})
    BY <2>6 DEF R!Findings, FindingStands
  <2>7. CASE Of("stop removed", R!Expected \cap recRun.bare)
    BY <1>5, <2>7 DEF R!Findings, FindingStands
  <2> QED  BY <2>1, <2>2, <2>3, <2>4, <2>5, <2>6, <2>7
<1>7. R!ReconciliationTypeOK'
  BY <1>0, <1>4, <1>6 DEF R!ReconciliationTypeOK, R!NoRun
<1>8. \A f \in report' : FindingStands(f)'
  BY <1>0, <1>6
<1> QED  BY <1>0, <1>3, <1>7, <1>8, NothingIsRead

LEMMA NextKeepsReconciled == ASSUME R!ReconciliationAssumption, Reconciled, [R!Next]_(R!vars) PROVE Reconciled'
<1>1. CASE R!CannotRead
  <2>1. R!ReconciliationTypeOK' /\ recRun' = R!NoRun
    BY <1>1 DEF R!CannotRead, Reconciled, R!ReconciliationTypeOK, R!NoRun
  <2>2. \A c \in Commands : RecordStands(c)'
    BY <1>1 DEF R!CannotRead, Reconciled, RecordStands
  <2>3. \A f \in report' : FindingStands(f)'
    BY <1>1 DEF R!CannotRead, Reconciled, FindingStands
  <2> QED  BY <2>1, <2>2, <2>3, NothingIsRead
<1>2. CASE UNCHANGED R!vars
  <2>1. WorldMoves
    BY <1>2 DEF R!vars, WorldMoves, Reconciled, R!ReconciliationTypeOK
  <2>2. \A c \in Commands : RecordStands(c)'
    BY <1>2 DEF R!vars, Reconciled, RecordStands
  <2> QED  BY <2>1, <2>2, WorldKeepsTheRun
<1> QED
  BY <1>1, <1>2, ReadsBrokerKeepsReconciled, ReadsRowsKeepsReconciled, SettlesDoubtKeepsReconciled,
     LooksInHistoryKeepsReconciled, ConcludesKeepsReconciled, WorldKeepsReconciled
  DEF R!Next, R!RunSteps

(* No finding is a false alarm, and what is closed as reconciled left a position, for any commands, *)
(* positions of the user's and orders of the reads (ReconciliationService.run).                     *)
LEMMA ReportIsSafe ==
    R!ReconciliationAssumption => (R!Spec => [](R!ReconciliationTypeOK /\ R!FindingsAreTrue /\ R!ReconciledWasThere))
<1> SUFFICES ASSUME R!ReconciliationAssumption
             PROVE  R!Spec => [](R!ReconciliationTypeOK /\ R!FindingsAreTrue /\ R!ReconciledWasThere)
  OBVIOUS
<1>1. Reconciled /\ [R!Next]_(R!vars) => Reconciled'
  BY NextKeepsReconciled
<1>2. Reconciled => R!ReconciliationTypeOK /\ R!FindingsAreTrue /\ R!ReconciledWasThere
  <2> SUFFICES ASSUME Reconciled PROVE R!ReconciliationTypeOK /\ R!FindingsAreTrue /\ R!ReconciledWasThere
    OBVIOUS
  <2>1. ASSUME NEW f \in report
        PROVE  /\ f.kind = "missing" => real[f.of] \in {"none", "denied"}
               /\ f.kind \in {"contradiction", "order"} => real[f.of] \in R!Placed
               /\ f.kind = "orphan" => f.of \in ByHand
    BY DEF Reconciled, FindingStands, R!ReconciliationTypeOK
  <2> QED  BY <2>1 DEF Reconciled, RecordStands, R!FindingsAreTrue, R!ReconciledWasThere
<1> QED  BY <1>1, <1>2, InitialReconciliation, PTL DEF R!Spec

-----------------------------------------------------------------------------
(* Every step of the desk is one of a component or leaves it alone: the desk implements each of them. *)
LEMMA AccountsRuns == Spec => A!Spec
<1>1. Init => A!Init
  BY DEF Init
<1>2. [Next]_deskVars => [A!Next]_(A!vars)
  BY DEF Next, Connects, ClosesAll, Reconciles, Tracks, Sizes, Anchors,
         Rules, Schedules, Evaluates, Streams, Identifies, deskVars, accounts, closeAll, reconciliation, positions, exposure,
         floors, rules, calendar, strategy, stream, identity, A!vars, A!links
<1> QED  BY <1>1, <1>2, PTL DEF Spec, A!Spec

LEMMA StrategyRuns == Spec => Q!Spec
<1>1. Init => Q!Init
  BY DEF Init
<1>2. [Next]_deskVars => [Q!Next]_(Q!strategyVars)
  BY DEF Next, Connects, ClosesAll, Reconciles, Tracks, Sizes, Anchors,
         Rules, Schedules, Evaluates, Streams, Identifies, deskVars, accounts, closeAll, reconciliation, positions, exposure,
         floors, rules, calendar, strategy, stream, identity, Q!strategyVars
<1> QED  BY <1>1, <1>2, PTL DEF Spec, Q!Spec

LEMMA StreamRuns == Spec => W!Spec
<1>1. Init => W!Init
  BY DEF Init
<1>2. [Next]_deskVars => [W!Next]_(W!streamVars)
  BY DEF Next, Connects, ClosesAll, Reconciles, Tracks, Sizes, Anchors,
         Rules, Schedules, Evaluates, Streams, Identifies, deskVars, accounts, closeAll, reconciliation, positions, exposure,
         floors, rules, calendar, strategy, stream, identity, W!streamVars
<1> QED  BY <1>1, <1>2, PTL DEF Spec, W!Spec

LEMMA PositionTrackingRuns == Spec => P!Spec
<1>1. Init => P!Init
  BY DEF Init
<1>2. [Next]_deskVars => [P!Next]_(P!vars)
  BY DEF Next, Connects, ClosesAll, Reconciles, Tracks, Sizes, Anchors,
         Rules, Schedules, Evaluates, Streams, Identifies, deskVars, accounts, closeAll, reconciliation, positions, exposure,
         floors, rules, calendar, strategy, stream, identity, P!vars
<1> QED  BY <1>1, <1>2, PTL DEF Spec, P!Spec

LEMMA RulesLedgerRuns == Spec => G!Spec
<1>1. Init => G!Init
  BY DEF Init
<1>2. [Next]_deskVars => [G!Next]_(G!rulesVars)
  BY DEF Next, Connects, ClosesAll, Reconciles, Tracks, Sizes, Anchors,
         Rules, Schedules, Evaluates, Streams, Identifies, deskVars, accounts, closeAll, reconciliation, positions, exposure,
         floors, rules, calendar, strategy, stream, identity, G!rulesVars
<1> QED  BY <1>1, <1>2, PTL DEF Spec, G!Spec

LEMMA ReconciliationRuns == Spec => R!Spec
<1>1. Init => R!Init
  BY DEF Init
<1>2. [Next]_deskVars => [R!Next]_(R!vars)
  BY DEF Next, Connects, ClosesAll, Reconciles, Tracks, Sizes, Anchors,
         Rules, Schedules, Evaluates, Streams, Identifies, deskVars, accounts, closeAll, reconciliation, positions, exposure,
         floors, rules, calendar, strategy, stream, identity, R!vars
<1> QED  BY <1>1, <1>2, PTL DEF Spec, R!Spec

LEMMA CloseAllRuns == Spec => C!Spec
<1>1. Init => C!Init
  BY DEF Init
<1>2. [Next]_deskVars => [C!Next]_(C!vars)
  BY DEF Next, Connects, ClosesAll, Reconciles, Tracks, Sizes, Anchors,
         Rules, Schedules, Evaluates, Streams, Identifies, deskVars, accounts, closeAll, reconciliation, positions, exposure,
         floors, rules, calendar, strategy, stream, identity, C!vars
<1> QED  BY <1>1, <1>2, PTL DEF Spec, C!Spec

-----------------------------------------------------------------------------
(* "One terminal" (ADR 0021), for any accounts and API tasks beside the supervisor's job, under every *)
(* failure and cut of a gesture (AccountService).                                                  *)
THEOREM OneTerminalHolds == Spec => []OneTerminal
<1>1. A!Spec => [](A!AccountsTypeOK /\ A!OneTerminal)
  BY AccountsAreSafe, DeskAssumption DEF DeskAssumption
<1>2. A!AccountsTypeOK /\ A!OneTerminal => OneTerminal
  BY DEF OneTerminal
<1> QED  BY <1>1, <1>2, AccountsRuns, PTL

(* A setup gets its intent, its verdict and its order at most once, for any setups and any number of   *)
(* candles, re-detections, faults and restarts included (StrategyService._hand_over).               *)
THEOREM SetupsAreHandedOverOnce == Spec => SetupsAreHandledOnce
<1>1. Q!Spec => []Q!StrategyTypeOK /\ Q!SetupsAreHandledOnce
  BY StrategyIsSafe, DeskAssumption DEF DeskAssumption
<1> QED  BY <1>1, StrategyRuns DEF SetupsAreHandledOnce

(* "Never a lifecycle event" is dropped: for any clients and accounts, every capacity and every number *)
(* of changes, what a client was sent is the beginning of what it was owed, and the rest is on its way *)
(* (CockpitStream, Client.offer, Client.push_first).                                               *)
THEOREM NoFactIsDropped == Spec => []NoHole
<1>1. W!Spec => [](W!StreamTypeOK /\ W!NoHole)
  BY StreamIsSafe, DeskAssumption DEF DeskAssumption
<1>2. W!StreamTypeOK /\ W!NoHole => NoHole
  BY DEF NoHole
<1> QED  BY <1>1, <1>2, StreamRuns, PTL

(* No trade is forgotten or counted twice, for any positions and any number of polls, whatever history *)
(* lags, writes fail and restarts come between (PositionService.poll).                              *)
THEOREM TradesAreBookedOnce == Spec => []TradesAreBooked
<1>1. P!Spec => [](P!TrackingTypeOK /\ P!NothingForgotten /\ P!CountsOnce)
  BY TrackingIsSafe, DeskAssumption DEF DeskAssumption
<1>2. P!TrackingTypeOK /\ P!NothingForgotten /\ P!CountsOnce => TradesAreBooked
  BY DEF TradesAreBooked
<1> QED  BY <1>1, <1>2, PositionTrackingRuns, PTL

(* A change of rules waits for a day that was not being traded, and rules that govern stay, for any    *)
(* accounts, midnights and versions (request_rules, cancel_rules).                                   *)
THEOREM RulesStaySteady == Spec => RulesAreSteady
<1>1. G!Spec => []G!RulesTypeOK /\ []G!ChangesWaitForTheDay /\ G!GoverningRulesStay
  BY RulesAreSafe, DeskAssumption DEF DeskAssumption
<1> QED  BY <1>1, RulesLedgerRuns DEF RulesAreSteady

(* A report of a reconciliation or of a close-all says what the broker holds, for any commands, targets *)
(* and callers (ReconciliationService.run, CloseAllService.report).                                   *)
THEOREM ReportsStayTrue == Spec => []ReportsAreTrue
<1>1. R!Spec => [](R!ReconciliationTypeOK /\ R!FindingsAreTrue /\ R!ReconciledWasThere)
  BY ReportIsSafe, DeskAssumption DEF DeskAssumption
<1>2. C!Spec => [](C!CloseAllTypeOK /\ C!CompleteIsTrue)
  BY BatchIsSafe, DeskAssumption DEF DeskAssumption
<1>3. /\ R!ReconciliationTypeOK /\ R!FindingsAreTrue /\ R!ReconciledWasThere
      /\ C!CloseAllTypeOK /\ C!CompleteIsTrue
      => ReportsAreTrue
  BY DEF ReportsAreTrue
<1> QED  BY <1>1, <1>2, <1>3, ReconciliationRuns, CloseAllRuns, PTL
=============================================================================
