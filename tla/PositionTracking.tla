-------------------------- MODULE PositionTracking --------------------------
(***************************************************************************)
(* The tracking of the positions of one account (services/positions.py):   *)
(* what the poll makes of the live list and of the deal history, and what   *)
(* it writes down (infrastructure/database/repositories/positions.py).      *)
(*                                                                         *)
(* One trading week. Deals carry the broker's time: the part of the history *)
(* before last_deal_scan is the set `old' of the positions whose exit deal  *)
(* is older than it. The terminal and the trader move between any two       *)
(* awaits of the poll.                                                      *)
(***************************************************************************)
EXTENDS Naturals

CONSTANTS
    Positions,
    MaxCloseAttempts,  \* MAX_CLOSE_ATTEMPTS
    TrackingFaults     \* "store": a write fails, before or after it landed; "deals": deals_of_position;
                       \* "scan": deals_between; "late": a history completes late; "restart"

VARIABLES
    life,       \* each position at the broker: not yet, open, shut
    told,       \* the positions whose deal history is complete
    old,        \* the shut positions whose exit deal is before last_deal_scan
    baselined, known,
    waiting,    \* pending_close: the positions that left the list
    attempts,   \* and how often their history was incomplete
    opens,      \* the table position_opens
    closes,     \* the table closed_trades
    news,       \* how many PositionOpened and PositionClosed were published of each
    poll,       \* the poll that is running: where it is, its list, its `now', what it has left
    troubled    \* history: a write, the scan or a history failed the tracking in this process

TrackingAssumption == MaxCloseAttempts \in Nat

vars == <<life, told, old, baselined, known, waiting, attempts, opens, closes, news, poll, troubled>>

Fault(kind) == kind \in TrackingFaults
Open == {p \in Positions : life[p] = "open"}
Shut == {p \in Positions : life[p] = "shut"}
Idle == [pc |-> "idle", current |-> {}, cut |-> {}, before |-> {}, todo |-> {}]
AtMostTwo(n) == IF n < 2 THEN n + 1 ELSE n

TrackingTypeOK ==
    /\ life \in [Positions -> {"none", "open", "shut"}]
    /\ told \subseteq Positions /\ old \subseteq Positions
    /\ baselined \in BOOLEAN /\ troubled \in BOOLEAN
    /\ known \subseteq Positions /\ waiting \subseteq Positions
    /\ attempts \in [Positions -> 0 .. MaxCloseAttempts]
    /\ opens \subseteq Positions /\ closes \subseteq Positions
    /\ news \in [Positions -> [opened : 0 .. 2, closed : 0 .. 2]]
    /\ poll \in [pc : {"idle", "read", "opening", "settling", "missing"},
                 current : SUBSET Positions, cut : SUBSET Positions,
                 before : SUBSET Positions, todo : SUBSET Positions]

Init ==
    /\ life = [p \in Positions |-> "none"]
    /\ told = {} /\ old = {}
    /\ baselined = FALSE /\ known = {} /\ waiting = {}
    /\ attempts = [p \in Positions |-> 0]
    /\ opens = {} /\ closes = {}
    /\ news = [p \in Positions |-> [opened |-> 0, closed |-> 0]]
    /\ poll = Idle
    /\ troubled = FALSE

-----------------------------------------------------------------------------
(* The broker.                                                             *)

Opens(p) ==
    /\ life[p] = "none"
    /\ life' = [life EXCEPT ![p] = "open"]
    /\ UNCHANGED <<told, old, baselined, known, waiting, attempts, opens, closes, news, poll, troubled>>

Shuts(p) ==
    /\ life[p] = "open"
    /\ life' = [life EXCEPT ![p] = "shut"]
    /\ told' \in {told \cup {p}} \cup (IF Fault("late") THEN {told} ELSE {})
    /\ UNCHANGED <<old, baselined, known, waiting, attempts, opens, closes, news, poll, troubled>>

HistoryCompletes ==
    /\ told # Shut /\ told' = Shut
    /\ UNCHANGED <<life, old, baselined, known, waiting, attempts, opens, closes, news, poll, troubled>>

-----------------------------------------------------------------------------
(* The writes. INSERT ... ON CONFLICT DO NOTHING, and the event when a row  *)
(* was inserted: a write that fails raises before the event, whether or     *)
(* not it landed.                                                           *)

\* Mutant: the event does not ask whether the row was new.
InsertedAlways(table, p) == TRUE
Inserted(table, p) == p \notin table

RecordsOpen(p) ==
    /\ opens' = opens \cup {p}
    /\ news' = IF Inserted(opens, p) THEN [news EXCEPT ![p].opened = AtMostTwo(@)] ELSE news

RecordsClosed(p) ==
    /\ closes' = closes \cup {p}
    /\ news' = IF Inserted(closes, p) THEN [news EXCEPT ![p].closed = AtMostTwo(@)] ELSE news

\* The exception leaves the poll; what it had done of the state stays.
WriteFails(p, closing) ==
    /\ Fault("store")
    /\ poll' = Idle /\ troubled' = TRUE
    /\ opens' \in {opens, IF closing THEN opens ELSE opens \cup {p}}
    /\ closes' \in {closes, IF closing THEN closes \cup {p} ELSE closes}
    /\ UNCHANGED news

-----------------------------------------------------------------------------
(* The poll.                                                               *)

\* poll: the live list first ...
Reads ==
    /\ poll.pc = "idle"
    /\ poll' = [Idle EXCEPT !.pc = "read", !.current = Open]
    /\ UNCHANGED <<life, told, old, baselined, known, waiting, attempts, opens, closes, news, troubled>>

\* ... then the time, which the end of the scan is bounded by.
Stamps ==
    /\ poll.pc = "read"
    /\ poll' = [poll EXCEPT !.pc = "opening", !.cut = Shut, !.before = known,
                            !.todo = poll.current \ known]
    /\ UNCHANGED <<life, told, old, baselined, known, waiting, attempts, opens, closes, news, troubled>>

\* _opened, for each position that was not in the last list (at the baseline: for each one).
RecordsOpening(p) ==
    /\ poll.pc = "opening" /\ p \in poll.todo
    /\ \/ RecordsOpen(p) /\ poll' = [poll EXCEPT !.todo = @ \ {p}] /\ UNCHANGED <<closes, troubled>>
       \/ WriteFails(p, FALSE)
    /\ UNCHANGED <<life, told, old, baselined, known, waiting, attempts>>

\* The first list is what was open when the account was attached; the scan goes back to the week's start.
Baselines ==
    /\ poll.pc = "opening" /\ poll.todo = {} /\ ~baselined
    /\ known' = poll.current /\ baselined' = TRUE
    /\ old' = {}
    /\ poll' = [poll EXCEPT !.pc = "missing", !.before = {}]
    /\ UNCHANGED <<life, told, waiting, attempts, opens, closes, news, troubled>>

\* Compares the list with the last one.
Compares ==
    /\ poll.pc = "opening" /\ poll.todo = {} /\ baselined
    /\ waiting' = waiting \cup (known \ poll.current)
    /\ known' = poll.current
    /\ poll' = [poll EXCEPT !.pc = "settling", !.todo = waiting']
    /\ UNCHANGED <<life, told, old, baselined, attempts, opens, closes, news, troubled>>

\* _settle_closes: an unreadable history is tried again at the next poll ...
SettleSkips(p) ==
    /\ poll.pc = "settling" /\ p \in poll.todo /\ Fault("deals")
    /\ poll' = [poll EXCEPT !.todo = @ \ {p}]
    /\ UNCHANGED <<life, told, old, baselined, known, waiting, attempts, opens, closes, news, troubled>>

\* ... an incomplete one MaxCloseAttempts times ...
SettleWaits(p) ==
    /\ poll.pc = "settling" /\ p \in poll.todo /\ p \notin told
    /\ LET gaveUp == attempts[p] + 1 >= MaxCloseAttempts IN
        /\ attempts' = [attempts EXCEPT ![p] = IF gaveUp THEN 0 ELSE @ + 1]
        /\ waiting' = IF gaveUp THEN waiting \ {p} ELSE waiting
        /\ troubled' = (troubled \/ gaveUp)
    /\ poll' = [poll EXCEPT !.todo = @ \ {p}]
    /\ UNCHANGED <<life, told, old, baselined, known, opens, closes, news>>

\* ... and a complete one is recorded, after it left pending_close.
Settles(p) ==
    /\ poll.pc = "settling" /\ p \in poll.todo /\ p \in told
    /\ waiting' = waiting \ {p} /\ attempts' = [attempts EXCEPT ![p] = 0]
    /\ \/ RecordsClosed(p) /\ poll' = [poll EXCEPT !.todo = @ \ {p}] /\ UNCHANGED <<opens, troubled>>
       \/ WriteFails(p, TRUE)
    /\ UNCHANGED <<life, told, old, baselined, known>>

EndsSettling ==
    /\ poll.pc = "settling" /\ poll.todo = {}
    /\ poll' = [poll EXCEPT !.pc = "missing"]
    /\ UNCHANGED <<life, told, old, baselined, known, waiting, attempts, opens, closes, news, troubled>>

\* missed_round_trip_ids in the scan window, less those that are pending.
Missed == ((poll.cut \cap told) \ old) \ (poll.before \cup poll.current \cup waiting)

\* Mutant: the scan is dated when it ended.
NextScanAtTheEnd == Shut
\* last_deal_scan = now, read before the history.
NextScan == poll.cut

\* _missed_round_trips, one position at a time; those that are in the tables change nothing.
Rebuilds(p) ==
    /\ poll.pc = "missing" /\ p \in Missed \ closes
    /\ \/ p \notin opens /\ RecordsOpen(p) /\ UNCHANGED <<closes, poll, troubled>>
       \/ p \notin opens /\ WriteFails(p, FALSE)
       \/ p \in opens /\ RecordsClosed(p) /\ UNCHANGED <<opens, poll, troubled>>
       \/ p \in opens /\ WriteFails(p, TRUE)
       \/ Fault("deals") /\ poll' = Idle /\ UNCHANGED <<opens, closes, news, troubled>>
    /\ UNCHANGED <<life, told, old, baselined, known, waiting, attempts>>

EndsPoll ==
    /\ poll.pc = "missing" /\ Missed \subseteq closes
    /\ old' = NextScan /\ poll' = Idle
    /\ troubled' = (troubled \/ ~(poll.cut \subseteq told))
    /\ UNCHANGED <<life, told, baselined, known, waiting, attempts, opens, closes, news>>

\* The scan could not be read: the poll ends as if it had found nothing.
ScanFails ==
    /\ poll.pc = "missing" /\ Fault("scan")
    /\ old' = NextScan /\ poll' = Idle /\ troubled' = TRUE
    /\ UNCHANGED <<life, told, baselined, known, waiting, attempts, opens, closes, news>>

\* The core restarts, or the account is detached and forgotten: only the tables stay.
Forgets ==
    /\ Fault("restart")
    /\ old' = {} /\ baselined' = FALSE /\ known' = {} /\ waiting' = {}
    /\ attempts' = [p \in Positions |-> 0]
    /\ poll' = Idle /\ troubled' = FALSE
    /\ UNCHANGED <<life, told, opens, closes, news>>

-----------------------------------------------------------------------------
PollSteps ==
    \/ Reads \/ Stamps \/ Baselines \/ Compares \/ EndsSettling \/ EndsPoll
    \/ \E p \in Positions : RecordsOpening(p) \/ Settles(p) \/ SettleWaits(p) \/ Rebuilds(p)

Next ==
    \/ \E p \in Positions : Opens(p) \/ Shuts(p) \/ SettleSkips(p)
    \/ PollSteps \/ HistoryCompletes \/ ScanFails \/ Forgets

Spec == Init /\ [][Next]_vars
-----------------------------------------------------------------------------
(* What the tracking promises.                                             *)

Forgotten(p) ==
    /\ life[p] = "shut" /\ baselined
    /\ p \notin closes \cup known \cup waiting
    /\ p \in old

\* Between two polls every position that has shut is recorded, or the next poll still finds it: in
\* its last list, among the closes to settle or in the scan window - however the reads of the poll
\* interleave with the broker. Only a write, a scan or a history that failed can lose one.
NothingForgotten == (poll.pc = "idle" /\ ~troubled) => \A p \in Positions : ~Forgotten(p)

\* The trade counts once: a position is announced opened and closed at most once, through lists,
\* pending closes, rebuilt round trips, failed writes and restarts, and recorded closed only when it is.
CountsOnce ==
    \A p \in Positions :
        /\ news[p].opened <= 1 /\ news[p].closed <= 1
        /\ p \in closes => life[p] = "shut"

\* "The terminal was read; persistence catches up on the next cycle" (PositionService.poll): a close
\* whose write failed is still to be recorded. Settles takes it off pending_close before it is.
PersistenceCatchesUp == poll.pc = "idle" => \A p \in Positions : ~Forgotten(p)
=============================================================================
