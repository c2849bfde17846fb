----------------------------- MODULE NewsCalendar -----------------------------
(***************************************************************************)
(* The news calendar (services/news.py, infrastructure/news/fred.py,        *)
(* NewsRepository) and the gate it opens (domain/market/calendar.py,        *)
(* domain/risk/gates.py). FRED publishes dates and moves them; the service  *)
(* asks for one release after the other and keeps the nearest of each in    *)
(* the database; the gate reads what memory holds of them.                  *)
(***************************************************************************)
EXTENDS Integers, FiniteSets, Sequences, SequencesExt

CONSTANTS
    Whitelist,     \* the releases, in the order they are asked for
    Dates,         \* the instants at which each may be scheduled
    MaxTime,       \* bound: the last instant
    MaxRefreshes,  \* bound: the refreshes of a behaviour
    MaxAge,        \* calendar_max_age_hours
    Blackout,      \* blackout_minutes
    Retain,        \* RETAIN
    Keep           \* KEEP_PER_RELEASE

VARIABLES
    now,
    upstream,      \* what FRED has scheduled
    rows,          \* news_releases
    synced,        \* news.synced_at
    memory,        \* _releases and _synced_at
    refresh,       \* the refresh that holds the lock
    refreshes,     \* how many began
    heard,         \* history: every answer that reached the database
    known          \* history: how many of them memory was loaded with

newsVars == <<now, upstream, rows, synced, memory, refresh, refreshes, heard, known>>

Times == 0 .. MaxTime
Releases == ToSet(Whitelist)
Never == -1
Blank == [known |-> FALSE, releases |-> [r \in Releases |-> {}], synced |-> Never]
NoRefresh == [pc |-> "idle", at |-> 0, next |-> 1, answer |-> {}, failed |-> FALSE]

\* A release is not scheduled more often than what is kept of it, while a calendar is trusted; and what has just
\* passed is retained for as long as it counts.
NewsAssumption ==
    /\ {MaxTime, MaxAge, Blackout, Retain, Keep} \subseteq Nat /\ Blackout < Retain
    /\ Whitelist \in Seq(Releases) /\ Whitelist # <<>>
    /\ \A r \in Releases : /\ Dates[r] \subseteq Times
                           /\ \A t \in Times :
                                 Cardinality({d \in Dates[r] : t <= d /\ d <= t + MaxAge + Blackout}) <= Keep

Calendars == [known : BOOLEAN, releases : [Releases -> SUBSET Times], synced : Times \cup {Never}]

NewsTypeOK ==
    /\ now \in Times /\ upstream \in [Releases -> SUBSET Times] /\ rows \in [Releases -> SUBSET Times]
    /\ synced \in Times \cup {Never} /\ memory \in Calendars
    /\ refresh.pc \in {"idle", "fetch", "replace", "mark", "load"} /\ refresh.at \in Times
    /\ refresh.next \in 1 .. Len(Whitelist) /\ refresh.answer \subseteq Times
    /\ \A r \in Releases : known[r] \in 0 .. Len(heard[r])

Init ==
    /\ now = 0 /\ upstream \in [Releases -> SUBSET Times] /\ \A r \in Releases : upstream[r] \subseteq Dates[r]
    /\ rows = [r \in Releases |-> {}] /\ synced = Never /\ memory = Blank
    /\ refresh = NoRefresh /\ refreshes = 0
    /\ heard = [r \in Releases |-> <<>>] /\ known = [r \in Releases |-> 0]

-----------------------------------------------------------------------------
(* The gate.                                                               *)

\* snapshot: what memory holds, without what passed long ago.
Remembered(r) == {d \in memory.releases[r] : d > now - Retain}

\* CalendarSnapshot.usable
Usable == memory.known /\ memory.synced # Never /\ now - memory.synced <= MaxAge

\* is_news_blackout: symmetric.
Near(d) == d - now \in -Blackout .. Blackout

\* news_gate
GateIsOpen == Usable /\ \A r \in Releases : \A d \in Remembered(r) : ~Near(d)

-----------------------------------------------------------------------------
(* The refresh.                                                            *)

Begins ==
    /\ refresh.pc = "idle" /\ refreshes < MaxRefreshes
    /\ refresh' = [NoRefresh EXCEPT !.pc = "fetch", !.at = now] /\ refreshes' = refreshes + 1
    /\ UNCHANGED <<now, upstream, rows, synced, memory, heard, known>>

\* fetch_upcoming: every instant at or after the time the refresh began at.
Fetches ==
    /\ refresh.pc = "fetch"
    /\ refresh' = [refresh EXCEPT !.pc = "replace",
                     !.answer = {d \in upstream[Whitelist[refresh.next]] : d >= refresh.at}]
    /\ UNCHANGED <<now, upstream, rows, synced, memory, refreshes, heard, known>>

\* The next release, or the end of the loop: only a complete refresh is marked.
\* Mutant: a refresh that failed for one release is marked too.
GoesOnAnyway(failed) ==
    IF refresh.next < Len(Whitelist)
      THEN [refresh EXCEPT !.pc = "fetch", !.next = @ + 1, !.answer = {}, !.failed = failed]
      ELSE [refresh EXCEPT !.pc = "mark", !.answer = {}, !.failed = failed]
GoesOn(failed) ==
    IF refresh.next < Len(Whitelist)
      THEN [refresh EXCEPT !.pc = "fetch", !.next = @ + 1, !.answer = {}, !.failed = failed]
      ELSE [refresh EXCEPT !.pc = IF failed THEN "load" ELSE "mark", !.answer = {}, !.failed = failed]

Nearest(dates) == {d \in dates : Cardinality({e \in dates : e < d}) < Keep}

\* Mutant: the past of the release goes with its future.
ReplacedWhole(r) == Nearest(refresh.answer)
\* replace_upcoming: from the time the refresh began at.
Replaced(r) == {d \in rows[r] : d < refresh.at} \cup Nearest(refresh.answer)

\* The transaction is committed, and the service may be told that it was not.
Replaces ==
    /\ refresh.pc = "replace"
    /\ LET r == Whitelist[refresh.next] IN
        /\ rows' = [rows EXCEPT ![r] = Replaced(r)]
        /\ heard' = [heard EXCEPT ![r] = Append(@, [at |-> refresh.at, said |-> refresh.answer])]
    /\ \E told \in BOOLEAN : refresh' = GoesOn(refresh.failed \/ ~told)
    /\ UNCHANGED <<now, upstream, synced, memory, refreshes, known>>

\* FRED or the database is down for this release: the others are asked for.
Fails ==
    /\ refresh.pc \in {"fetch", "replace"}
    /\ refresh' = GoesOn(TRUE)
    /\ UNCHANGED <<now, upstream, rows, synced, memory, refreshes, heard, known>>

\* _mark_synced: best effort.
Marks ==
    /\ refresh.pc = "mark"
    /\ synced' \in {synced, refresh.at}
    /\ refresh' = [refresh EXCEPT !.pc = "load"]
    /\ UNCHANGED <<now, upstream, rows, memory, refreshes, heard, known>>

\* around: no row at all is a calendar that was never synced.
Loaded == [known |-> \E r \in Releases : rows[r] # {},
           releases |-> [r \in Releases |-> {d \in rows[r] : d > now - Retain}], synced |-> synced]

\* _load: what cannot be read leaves memory as it is.
Loads ==
    /\ refresh.pc = "load"
    /\ \/ memory' = Loaded /\ known' = [r \in Releases |-> Len(heard[r])]
       \/ UNCHANGED <<memory, known>>
    /\ refresh' = NoRefresh
    /\ UNCHANGED <<now, upstream, rows, synced, refreshes, heard>>

\* The job's timeout, at whatever await; nothing is loaded.
IsCut ==
    /\ refresh.pc # "idle"
    /\ refresh' = NoRefresh
    /\ UNCHANGED <<now, upstream, rows, synced, memory, refreshes, heard, known>>

\* start: the cache is read before any request, if it can be.
Restarts ==
    /\ \/ memory' = Loaded /\ known' = [r \in Releases |-> Len(heard[r])]
       \/ memory' = Blank /\ known' = [r \in Releases |-> 0]
    /\ refresh' = NoRefresh
    /\ UNCHANGED <<now, upstream, rows, synced, refreshes, heard>>

-----------------------------------------------------------------------------
(* The world.                                                              *)

Ticks ==
    /\ now < MaxTime /\ now' = now + 1
    /\ UNCHANGED <<upstream, rows, synced, memory, refresh, refreshes, heard, known>>

\* FRED moves, adds or removes a date that is to come.
Moves(r) ==
    /\ \E d \in Dates[r] : d > now
        /\ upstream' = [upstream EXCEPT ![r] = IF d \in @ THEN @ \ {d} ELSE @ \cup {d}]
    /\ UNCHANGED <<now, rows, synced, memory, refresh, refreshes, heard, known>>

Next ==
    \/ Begins \/ Fetches \/ Replaces \/ Fails \/ Marks \/ Loads \/ IsCut \/ Restarts
    \/ Ticks \/ \E r \in Releases : Moves(r)

Spec == Init /\ [][Next]_newsVars
-----------------------------------------------------------------------------
(* What the calendar promises.                                             *)

\* The answers about a release that memory was loaded with.
Answers(r) == SubSeq(heard[r], 1, known[r])

\* The last of them that was asked for before an instant, not too long before, says that the release is then.
IsSaid(r, t) ==
    \E i \in 1 .. known[r] :
        /\ t - heard[r][i].at \in 0 .. MaxAge + Blackout /\ t \in heard[r][i].said
        /\ \A j \in (i + 1) .. known[r] : heard[r][j].at > t

\* "Fail closed": whatever release could not be asked for, whatever was cut, lost or restarted in between, the gate opens
\* only when every release was asked for within the age a calendar is trusted for, and none was last said to be
\* near, on either side (NewsService, news_gate).
GateOpensOnWhatWasSaid ==
    GateIsOpen => \A r \in Releases :
        /\ Answers(r) # <<>> /\ now - Last(Answers(r)).at <= MaxAge
        /\ \A t \in Times : Near(t) => ~IsSaid(r, t)
=============================================================================
