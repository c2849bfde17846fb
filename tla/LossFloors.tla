----------------------------- MODULE LossFloors -----------------------------
(* The provider's loss references of one account (services/providers.py, loss_floors.py): the     *)
(* balance at each 00:00 of the provider's clock, written once, and rebuilt from the deals when   *)
(* the core was not there.  The risk cycle and the reviews compute them at the same time.         *)
(*                                                                                                *)
(* Deals are numbered; Balance[n] is the balance after the n-th.  A reading of the terminal is    *)
(* the number of deals it has seen.                                                               *)
EXTENDS Integers, FiniteSets

CONSTANTS
    Balance,        \* 0..MaxDeals -> the balance: Balance[0] is the initial capital
    MaxDeals,       \* bound: deals in the story
    MaxDays,        \* bound: days in the story; the account begins on day 0
    Readers,        \* the risk cycle and the reviews
    FloorFaults     \* "history", "store": unreadable; "restart"; "quick": a deal just after 00:00;
                    \* "lag": the account's snapshot misses the last deals

BalanceAssumption ==
    MaxDeals \in Nat /\ MaxDays \in Nat /\ Balance \in [0..MaxDeals -> Int]

VARIABLES
    deals,          \* the deals made so far
    day, early,     \* the provider's day; whether it began less than two minutes ago
    cut,            \* day -> the deals made before it began
    snapshot,       \* the deals the last account snapshot has seen
    stored,         \* provider_loss_references: day -> balance
    cache,          \* _days
    task            \* reader -> where it is, what it read, and what it answered

vars == <<deals, day, early, cut, snapshot, stored, cache, task>>
world == <<deals, day, early, cut, snapshot>>

Fault(kind) == kind \in FloorFaults
Days == 0..MaxDays
NoDay == -1
Balances == {Balance[n] : n \in 0..MaxDeals}
NoReferences == [d \in {} |-> 0]
NoCache == [day |-> NoDay, references |-> NoReferences, complete |-> FALSE, first |-> NoDay]
\* now, early and seen are read before the first await.
Resting == [pc |-> "idle", now |-> NoDay, early |-> FALSE, seen |-> 0, references |-> NoReferences,
            first |-> NoDay, complete |-> FALSE]
IsTable(f) == DOMAIN f \subseteq Days /\ \A d \in DOMAIN f : f[d] \in Int

FloorsTypeOK ==
    /\ deals \in 0..MaxDeals /\ day \in Days /\ early \in BOOLEAN /\ snapshot \in 0..deals
    /\ DOMAIN cut = 0..day /\ \A d \in 0..day : cut[d] \in 0..deals
    /\ IsTable(stored)
    /\ cache.day \in Days \cup {NoDay} /\ IsTable(cache.references)
    /\ \A t \in Readers : task[t].pc \in {"idle", "today", "past", "answered"} /\ IsTable(task[t].references)

Init ==
    /\ deals = 0 /\ day = 0 /\ early = TRUE /\ cut = [d \in {0} |-> 0] /\ snapshot = 0
    /\ stored = NoReferences /\ cache = NoCache
    /\ task = [t \in Readers |-> Resting]

Put(table, d, balance) == [x \in DOMAIN table \cup {d} |-> IF x = d THEN balance ELSE table[x]]
\* record: the first one written for a day stays.
Recorded(table, d, balance) == IF d \in DOMAIN table THEN table ELSE Put(table, d, balance)

Flows(n, m) == IF n < m THEN Balance[m] - Balance[n] ELSE 0
\* Mutant: the flows are all those of the history, later than the balance they are taken from.
BalanceAtUnbounded(d, seen) == Balance[seen] - Flows(cut[d], deals)
\* balance_at: the balance of the snapshot, less the deals from 00:00 to the snapshot.
BalanceAt(d, seen) == Balance[seen] - Flows(cut[d], seen)

\* missing_days.
Gaps(references, first, now) == (first..now) \ DOMAIN references
Ends(t, references, complete, first) ==
    /\ cache' = [day |-> task[t].now, references |-> references, complete |-> complete, first |-> first]
    /\ task' = [task EXCEPT ![t] = [Resting EXCEPT !.pc = "answered", !.now = task[t].now,
                                                   !.references = references, !.complete = complete]]

-----------------------------------------------------------------------------
Deals ==
    /\ deals < MaxDeals /\ (early => Fault("quick"))
    /\ deals' = deals + 1
    /\ snapshot' \in IF Fault("lag") THEN {snapshot, deals'} ELSE {deals'}
    /\ UNCHANGED <<day, early, cut, stored, cache, task>>
MidnightPasses ==
    /\ day < MaxDays /\ day' = day + 1 /\ early' = TRUE /\ cut' = Put(cut, day', deals)
    /\ UNCHANGED <<deals, snapshot, stored, cache, task>>
MinutesPass == early /\ early' = FALSE /\ UNCHANGED <<deals, day, cut, snapshot, stored, cache, task>>
Polls == snapshot # deals /\ snapshot' = deals /\ UNCHANGED <<deals, day, early, cut, stored, cache, task>>

\* _references: the day's cache, when it is whole.
ReadsCache(t) ==
    /\ task[t].pc = "idle" /\ cache.day = day /\ day \in DOMAIN cache.references /\ cache.complete
    /\ task' = [task EXCEPT ![t] = [Resting EXCEPT !.pc = "answered", !.now = day,
                                                   !.references = cache.references, !.complete = TRUE]]
    /\ UNCHANGED <<world, stored, cache>>
\* _compute_references: the references on record.
ReadsStore(t) ==
    /\ task[t].pc = "idle" /\ ~(cache.day = day /\ day \in DOMAIN cache.references /\ cache.complete)
    /\ task' = [task EXCEPT ![t] = [pc |-> "today", now |-> day, early |-> early, seen |-> snapshot,
                                    references |-> stored, first |-> cache.first, complete |-> FALSE]]
    /\ UNCHANGED <<world, stored, cache>>
\* The database cannot be read or written: the state is unknown.
StoreFails(t) ==
    /\ Fault("store") /\ task[t].pc \in {"today", "past"}
    /\ task' = [task EXCEPT ![t] = [Resting EXCEPT !.pc = "answered", !.now = task[t].now]]
    /\ UNCHANGED <<world, stored, cache>>

\* Today's reference: the one on record; else the balance, when the day has just begun; else
\* rebuilt from the deals since; and read back once it is recorded.
FindsToday(t) ==
    LET now == task[t].now
        found == IF task[t].early THEN Balance[task[t].seen] ELSE BalanceAt(now, task[t].seen)
    IN  /\ task[t].pc = "today"
        /\ stored' = IF now \in DOMAIN task[t].references THEN stored ELSE Recorded(stored, now, found)
        /\ task' = [task EXCEPT ![t].pc = "past",
                                ![t].references = IF now \in DOMAIN @ THEN @ ELSE Put(@, now, stored'[now])]
        /\ UNCHANGED <<world, cache>>
\* The history cannot be read: today's reference stays missing.
HistoryFails(t) ==
    /\ Fault("history") /\ task[t].pc = "today" /\ ~task[t].early
    /\ task[t].now \notin DOMAIN task[t].references
    /\ task' = [task EXCEPT ![t].pc = "past"]
    /\ UNCHANGED <<world, stored, cache>>

\* The trailing maximum needs every 00:00 since the account began: the missing ones are rebuilt
\* from the whole history, recorded, and read back.
FillsGaps(t) ==
    LET gaps == Gaps(task[t].references, 0, task[t].now)
        table == [d \in DOMAIN stored \cup gaps |->
                    IF d \in DOMAIN stored THEN stored[d] ELSE BalanceAt(d, task[t].seen)]
    IN  /\ task[t].pc = "past"
        /\ IF gaps = {} THEN UNCHANGED stored /\ Ends(t, task[t].references, TRUE, 0)
           ELSE /\ stored' = table
                /\ Ends(t, table, Gaps(table, 0, task[t].now) = {}, 0)
        /\ UNCHANGED world
\* The history cannot be read: the references on record, complete only if the first day was known.
GapsStay(t) ==
    /\ Fault("history") /\ task[t].pc = "past"
    /\ task[t].first = NoDay \/ Gaps(task[t].references, 0, task[t].now) # {}
    /\ Ends(t, task[t].references, FALSE, task[t].first)
    /\ UNCHANGED <<world, stored>>

Leaves(t) ==
    /\ task[t].pc = "answered" /\ task' = [task EXCEPT ![t] = Resting]
    /\ UNCHANGED <<world, stored, cache>>
\* forget: the account disconnected, its readers go on.
Forgets == cache # NoCache /\ cache' = NoCache /\ UNCHANGED <<world, stored, task>>
Restarts ==
    /\ Fault("restart") /\ cache' = NoCache /\ task' = [t \in Readers |-> Resting]
    /\ UNCHANGED <<world, stored>>

Next ==
    \/ Deals \/ MidnightPasses \/ MinutesPass \/ Polls \/ Forgets \/ Restarts
    \/ \E t \in Readers : \/ ReadsCache(t) \/ ReadsStore(t) \/ StoreFails(t) \/ FindsToday(t)
                          \/ HistoryFails(t) \/ FillsGaps(t) \/ GapsStay(t) \/ Leaves(t)
Spec == Init /\ [][Next]_vars

-----------------------------------------------------------------------------
(* evaluate_loss_state: what an answer gives the Risk Engine; what it cannot give is unknown. *)
DailyKnown(a) == a.now \in DOMAIN a.references
DailyReference(a) == a.references[a.now]
\* Mutant: the references there are do.
MaxKnownAnyway(a) == DailyKnown(a)
MaxKnown(a) == a.complete /\ DailyKnown(a)
\* TRAILING_EOD_BALANCE: the highest of them, or the initial capital.
HighestOf(values) == CHOOSE b \in values : \A c \in values : c <= b
MaxReference(a) == HighestOf({Balance[0]} \cup {a.references[d] : d \in DOMAIN a.references})

MidnightBalance(d) == Balance[cut[d]]
\* "A reference that could be rewritten would let a restart, a reconnection or a change of settings reset a
\* limit" (ProviderRepository): whoever computes the floors, when and after what, the daily floor
\* stands on the balance at that day's 00:00 and the trailing one on the highest 00:00 so far
\* (one begun since may count), or they are unknown.
FloorsAreMidnights ==
    \A t \in Readers : task[t].pc = "answered" =>
        /\ DailyKnown(task[t]) => DailyReference(task[t]) = MidnightBalance(task[t].now)
        /\ MaxKnown(task[t]) => /\ \E d \in 0..day : MaxReference(task[t]) = MidnightBalance(d)
                                /\ \A d \in 0..task[t].now : MaxReference(task[t]) >= MidnightBalance(d)
=============================================================================
