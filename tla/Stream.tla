--------------------------------- MODULE Stream ---------------------------------
(***************************************************************************)
(* The cockpit's live stream (api/websocket/stream.py): a snapshot, then    *)
(* one frame per event, through a bounded queue per client whose writer     *)
(* sends at the client's own pace. The snapshot (snapshot.py) is read       *)
(* account by account, with awaits in between; the cockpit's store          *)
(* (lib/realtime/store.ts) shows what the frames tell it and nothing else.  *)
(***************************************************************************)
EXTENDS Naturals, SequencesExt

CONSTANTS
    Clients, Accounts,
    Capacity,        \* CLIENT_QUEUE
    MaxFacts,        \* bound: how often what an account shows changes
    MaxSnapshots,    \* bound: the snapshots waiting in a queue, which push_first exempts from its capacity
    StreamFaults     \* "gone": a socket fails; "broken": a snapshot cannot be built

StreamAssumption == Capacity \in Nat /\ MaxFacts \in Nat /\ MaxSnapshots \in Nat \ {0}

VARIABLES
    fact,     \* what the core knows of each account, by its version
    told,     \* the version that was last published
    link,     \* each client: its Client, and what its read loop does
    view,     \* what its cockpit shows; an account it was never told of is not in it
    owed,     \* history: the facts offered to the client since it connected
    got       \* history: those that were sent

streamVars == <<fact, told, link, view, owed, got>>

StreamFault(kind) == kind \in StreamFaults
Blank == [a \in {} |-> 0]
Seen(picture, a) == [b \in DOMAIN picture \cup {a} |-> IF b = a THEN fact[a] ELSE picture[b]]
NoFrame == [kind |-> "none", says |-> Blank]
Fact(a) == [kind |-> "fact", says |-> Seen(Blank, a)]
Quote == [kind |-> "quote", says |-> Blank]
Snapshot(picture) == [kind |-> "snapshot", says |-> picture]
\* is_droppable: telemetry that the next frame supersedes.
Droppable(frame) == frame.kind = "quote"

Gone == [on |-> FALSE, wants |-> Accounts, queue |-> <<>>, sending |-> NoFrame, reader |-> "reads",
         picture |-> Blank, overflowed |-> FALSE, closed |-> FALSE]
Waiting(k) == Cardinality({i \in DOMAIN k.queue : k.queue[i].kind = "snapshot"})

StreamTypeOK ==
    /\ fact \in [Accounts -> 0 .. MaxFacts] /\ told \in [Accounts -> 0 .. MaxFacts]
    /\ \A c \in Clients :
        /\ link[c].on \in BOOLEAN /\ link[c].wants \subseteq Accounts /\ link[c].reader \in {"reads", "builds"}
        /\ Len(link[c].queue) <= Capacity + MaxSnapshots
        /\ DOMAIN link[c].picture \subseteq Accounts /\ DOMAIN view[c] \subseteq Accounts

Init ==
    /\ fact = [a \in Accounts |-> 0] /\ told = fact
    /\ link = [c \in Clients |-> Gone]
    /\ view = [c \in Clients |-> Blank]
    /\ owed = [c \in Clients |-> <<>>] /\ got = [c \in Clients |-> <<>>]

-----------------------------------------------------------------------------
(* Offering a frame: never blocks.                                         *)

\* Mutant: under pressure the oldest frame goes, whatever it is.
RoomAtAnyPrice(k) == IF Len(k.queue) < Capacity THEN k.queue ELSE Tail(k.queue)
\* _drop_oldest_telemetry, where the queue is full; it stays full when it holds none.
Room(k) ==
    LET quote == SelectInSeq(k.queue, Droppable) IN
    IF Len(k.queue) < Capacity \/ quote = 0 THEN k.queue ELSE RemoveAt(k.queue, quote)

\* offer: a lifecycle event that cannot be queued closes the client.
Offered(k, frame) ==
    IF k.closed \/ k.overflowed THEN k
    ELSE IF Len(Room(k)) < Capacity THEN [k EXCEPT !.queue = Append(Room(k), frame)]
    ELSE [k EXCEPT !.overflowed = ~Droppable(frame)]

Hears(c, a) == link[c].on /\ a \in link[c].wants

-----------------------------------------------------------------------------
(* The core.                                                               *)

\* A service keeps what it has read ...
Changes(a) ==
    /\ told[a] = fact[a] /\ fact[a] < MaxFacts
    /\ fact' = [fact EXCEPT ![a] = @ + 1]
    /\ UNCHANGED <<told, link, view, owed, got>>

\* ... and publishes it (on_event).
Publishes(a) ==
    /\ told[a] # fact[a]
    /\ told' = [told EXCEPT ![a] = fact[a]]
    /\ link' = [c \in Clients |-> IF Hears(c, a) THEN Offered(link[c], Fact(a)) ELSE link[c]]
    /\ owed' = [c \in Clients |-> IF Hears(c, a) /\ ~link[c].closed /\ ~link[c].overflowed
                                    THEN Append(owed[c], Fact(a)) ELSE owed[c]]
    /\ UNCHANGED <<fact, view, got>>

Quotes(a) ==
    /\ link' = [c \in Clients |-> IF Hears(c, a) THEN Offered(link[c], Quote) ELSE link[c]]
    /\ link' # link
    /\ UNCHANGED <<fact, told, view, owed, got>>

-----------------------------------------------------------------------------
(* serve: one connection, and its read loop.                               *)

Becomes(c, k) == link' = [link EXCEPT ![c] = k] /\ UNCHANGED <<fact, told>>

\* Registered first; its writer runs from now on, and the snapshot is awaited.
Connects(c) ==
    /\ ~link[c].on
    /\ Becomes(c, [Gone EXCEPT !.on = TRUE, !.reader = "builds"])
    /\ UNCHANGED <<view, owed, got>>

\* A subscribe or a resync.
Asks(c, accounts) ==
    /\ link[c].on /\ ~link[c].closed /\ link[c].reader = "reads" /\ Waiting(link[c]) < MaxSnapshots
    /\ Becomes(c, [link[c] EXCEPT !.wants = accounts, !.reader = "builds", !.picture = Blank])
    /\ UNCHANGED <<view, owed, got>>

\* build_snapshot: one account after the other.
BuildsOn(c, a) ==
    /\ link[c].reader = "builds" /\ a \in link[c].wants \ DOMAIN link[c].picture
    /\ Becomes(c, [link[c] EXCEPT !.picture = Seen(@, a)])
    /\ UNCHANGED <<view, owed, got>>

\* push_first: ahead of what is queued.
Pushes(c) ==
    /\ link[c].reader = "builds" /\ DOMAIN link[c].picture = link[c].wants
    /\ Becomes(c, [link[c] EXCEPT !.reader = "reads", !.picture = Blank,
                     !.queue = IF link[c].closed \/ link[c].overflowed THEN @
                               ELSE <<Snapshot(link[c].picture)>> \o @])
    /\ UNCHANGED <<view, owed, got>>

\* The socket is gone, or the snapshot failed (closed with 1011): the client is retired, its writer cancelled.
Leaves(c) ==
    /\ link[c].on /\ (link[c].reader = "reads" \/ StreamFault("broken"))
    /\ Becomes(c, Gone)
    /\ owed' = [owed EXCEPT ![c] = <<>>] /\ got' = [got EXCEPT ![c] = <<>>]
    /\ UNCHANGED view

-----------------------------------------------------------------------------
(* Client.run: the writer.                                                 *)

Idle(c) == link[c].on /\ ~link[c].closed /\ link[c].sending = NoFrame

Takes(c) ==
    /\ Idle(c) /\ ~link[c].overflowed /\ link[c].queue # <<>>
    /\ Becomes(c, [link[c] EXCEPT !.sending = Head(link[c].queue), !.queue = Tail(@)])
    /\ UNCHANGED <<view, owed, got>>

\* What the store makes of a frame: a snapshot replaces the accounts, a fact patches one it knows.
ShownAfter(shown, frame) ==
    IF frame.kind = "snapshot" THEN frame.says
    ELSE [a \in DOMAIN shown |-> IF a \in DOMAIN frame.says THEN frame.says[a] ELSE shown[a]]

Sends(c) ==
    /\ link[c].sending # NoFrame
    /\ LET frame == link[c].sending IN
        /\ view' = [view EXCEPT ![c] = ShownAfter(@, frame)]
        /\ got' = [got EXCEPT ![c] = IF frame.kind = "fact" THEN Append(@, frame) ELSE @]
    /\ Becomes(c, [link[c] EXCEPT !.sending = NoFrame])
    /\ UNCHANGED owed

SendFails(c) ==
    /\ StreamFault("gone") /\ link[c].sending # NoFrame
    /\ Becomes(c, [link[c] EXCEPT !.sending = NoFrame, !.closed = TRUE])
    /\ UNCHANGED <<view, owed, got>>

\* Too slow for its lifecycle events: 1013.
SendsBack(c) ==
    /\ Idle(c) /\ link[c].overflowed
    /\ Becomes(c, [link[c] EXCEPT !.closed = TRUE])
    /\ UNCHANGED <<view, owed, got>>

-----------------------------------------------------------------------------
Next ==
    \/ \E a \in Accounts : Changes(a) \/ Publishes(a) \/ Quotes(a)
    \/ \E c \in Clients :
        \/ Connects(c) \/ Pushes(c) \/ Leaves(c)
        \/ Takes(c) \/ Sends(c) \/ SendFails(c) \/ SendsBack(c)
        \/ \E accounts \in SUBSET Accounts : Asks(c, accounts)
        \/ \E a \in Accounts : BuildsOn(c, a)

Spec == Init /\ [][Next]_streamVars
-----------------------------------------------------------------------------
(* What the stream promises.                                               *)

\* The facts that were not sent are, in their order, the facts among what is being sent and what is queued.
Frame(k, n) == IF n = 0 THEN k.sending ELSE k.queue[n]
Unsent(offered, sent) == Len(sent) + 1 .. Len(offered)
OnItsWay(k, offered, sent) ==
    \E at \in [Unsent(offered, sent) -> 0 .. Len(k.queue)] :
        /\ \A i, j \in Unsent(offered, sent) : i < j => at[i] < at[j]
        /\ \A i \in Unsent(offered, sent) : Frame(k, at[i]) = offered[i]
        /\ \A n \in 0 .. Len(k.queue) : Frame(k, n).kind = "fact" => \E i \in Unsent(offered, sent) : at[i] = n

\* "Never a lifecycle event" is dropped: whatever pressure a slow client is under and however often it asks for a
\* snapshot, the facts it was sent are the first ones it was owed, in their order, and those it is still owed
\* are all on their way unless it is being sent back.
NoHole ==
    \A c \in Clients : link[c].on =>
        /\ IsPrefix(got[c], owed[c])
        /\ ~link[c].overflowed /\ ~link[c].closed => OnItsWay(link[c], owed[c], got[c])

\* "A client that connects (or reconnects) never has to guess": a cockpit that has been sent everything shows what the
\* core knows of the accounts it asked for.
SeesWhatIs ==
    \A c \in Clients :
        /\ Idle(c) /\ link[c].queue = <<>> /\ link[c].reader = "reads" /\ ~link[c].overflowed
        /\ told = fact
        => \A a \in link[c].wants : a \in DOMAIN view[c] /\ view[c][a] = fact[a]
=============================================================================
