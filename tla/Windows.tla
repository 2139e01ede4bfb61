------------------------------- MODULE Windows -------------------------------
(***************************************************************************)
(* The messages of one thread (src/adapter/sync.go emitWindow and what it  *)
(* calls, handleMessage; src/adapter/messages.go mapMessage).              *)
(*                                                                         *)
(* Full windows after a sync or a repair, plain ones after Open, and pages *)
(* of history are all fetched, mapped message by message, and emitted in   *)
(* chunks, by several goroutines at once, while the event loop emits live  *)
(* messages and removals.  A download may take minutes, so a login, logout *)
(* or close can come between any two messages.                             *)
(*                                                                         *)
(* The daemon's side is external: messages are merged, except that a full  *)
(* window that has closed replaces what the daemon has from the window's   *)
(* oldest message on.  It pages with the cursor of the last page, or with  *)
(* the id of its oldest message.                                           *)
(***************************************************************************)
EXTENDS Naturals, Sequences, FiniteSets

CONSTANTS
    Workers,     \* goroutines that emit windows
    M,           \* messages that ever come
    Start,       \* those on the phone at first
    Blank,       \* those that have nothing to show
    Tombstones,  \* those of them that are events of the thread, not messages
    Window,      \* messageWindow, and the limit of a history page
    CachePer,    \* cachePerConv
    MaxFetches, MaxDeletes, MaxRetires  \* bounds on the events of a behaviour

\* Messages are named in the order of their timestamps, 1 the oldest.
Messages == 1 .. M

ASSUME WindowsAssumption ==
    /\ M \in Nat /\ Start \in 0 .. M /\ Blank \subseteq 1 .. M
    /\ Tombstones \subseteq Blank
    /\ Window \in Nat \ {0} /\ CachePer \in Nat \ {0}
    /\ MaxFetches \in Nat /\ MaxDeletes \in Nat /\ MaxRetires \in Nat

VARIABLES
    lifecycle, client, closed,  \* Session: lifecycle, client # nil, closed
    cache,                      \* Session: cache of this thread
    arrived, deleted,           \* the phone: messages so far, those deleted
    queue, mapping,             \* event loop: s.events, the message it maps, 0 if none
    pc, work,                   \* each worker: its place, its locals
    fetches,
    has, reached                \* the daemon: its messages, how far back it has paged

session == << lifecycle, client, closed >>
phone == << arrived, deleted >>
loop == << queue, mapping >>
daemon == << has, reached >>
vars == << session, cache, phone, loop, pc, work, fetches, daemon >>

\* No message, no cursor.
None == 0

\* "seen" is what a property speaks of: the messages there were at the fetch.
Work == [kind : {"full", "open", "history"}, lc : Nat, before : Messages \cup {None},
         seen : Messages \cup {None}, gone : SUBSET Messages, cursor : Messages \cup {None},
         left : SUBSET Messages, held : Messages \cup {None}, out : SUBSET Messages]
NoWork == [kind |-> "open", lc |-> 0, before |-> None, seen |-> None, gone |-> {},
           cursor |-> None, left |-> {}, held |-> None, out |-> {}]

Event == [message : Messages, lifecycle : Nat, removal : BOOLEAN]

TypeOK ==
    /\ lifecycle \in Nat /\ client \in BOOLEAN /\ closed \in BOOLEAN
    /\ cache \in Seq(Messages) /\ Len(cache) <= CachePer
    /\ arrived \in 0 .. M /\ deleted \subseteq 1 .. arrived
    /\ queue \in Seq(Event)
    /\ mapping \in [message : Messages \cup {None}, lifecycle : Nat]
    /\ pc \in [Workers -> {"idle", "fetch", "map", "emit"}]
    /\ work \in [Workers -> Work]
    /\ fetches \in Nat
    /\ has \subseteq 1 .. arrived /\ reached \in Messages \cup {None}

-----------------------------------------------------------------------------
Goto(p, here, there) == pc[p] = here /\ pc' = [pc EXCEPT ![p] = there]

\* The worker returns.
Rests(p) ==
    /\ pc' = [pc EXCEPT ![p] = "idle"]
    /\ work' = [work EXCEPT ![p] = NoWork]

Current(lc) == lc = lifecycle

\* ownsClient: a login, logout or close since the window was begun.
Owns(lc) == Current(lc) /\ client

Known(m) == \E i \in DOMAIN cache : cache[i] = m

\* Faulty variant: the limit of the cache is looked at before the entry.
RememberLate(m) ==
    cache' = IF Known(m) THEN cache
             ELSE IF Len(cache) > CachePer THEN Append(Tail(cache), m) ELSE Append(cache, m)

\* rememberMessage: an entry that is there stays where it is.
Remember(m) ==
    cache' = IF Known(m) THEN cache
             ELSE IF Len(cache) >= CachePer THEN Append(Tail(cache), m) ELSE Append(cache, m)

Oldest(messages) == {m \in messages : \A n \in messages : m <= n}

-----------------------------------------------------------------------------
(* emitWindow (sync.go:447-523).                                           *)

\* A full window of a sync or a repair, or the one Open shows.
WindowBegin(p) ==
    /\ fetches < MaxFetches /\ fetches' = fetches + 1
    /\ client /\ Goto(p, "idle", "fetch")
    /\ \E kind \in {"full", "open"} :
         work' = [work EXCEPT ![p] = [NoWork EXCEPT !.kind = kind, !.lc = lifecycle]]
    /\ UNCHANGED << session, cache, phone, loop, daemon >>

\* FetchHistory, by the cursor of the last page, or by the id of the oldest
\* message, which is known if the cache still has it.
HistoryBegin(p) ==
    /\ fetches < MaxFetches /\ fetches' = fetches + 1
    /\ client /\ reached # None /\ Goto(p, "idle", "fetch")
    /\ \E before \in {reached} \cup {m \in Oldest({n \in has : n >= reached}) : Known(m)} :
         work' = [work EXCEPT ![p] = [NoWork EXCEPT !.kind = "history", !.lc = lifecycle,
                                                    !.before = before]]
    /\ UNCHANGED << session, cache, phone, loop, daemon >>

\* No client, a cursor that is not known, or a relay call that fails: an
\* error event at most.
WindowFails(p) ==
    /\ pc[p] = "fetch" /\ Rests(p)
    /\ UNCHANGED << session, cache, phone, loop, fetches, daemon >>

\* What is before a cursor, and the most recent part of it.
Before(cursor) == {m \in 1 .. arrived : cursor = None \/ m < cursor}
Page(cursor) == {m \in Before(cursor) :
                    Cardinality({n \in Before(cursor) : n > m}) < Window}

\* The relay may name the cursor, which the daemon uses of a page of history.
Cursors(w, page) == {None} \cup IF w.kind = "history" THEN Oldest(page) ELSE {}

\* The relay's answer, if the session still owns the client: messages that
\* were deleted are listed as such.
WindowFetch(p) ==
    LET page == Page(work[p].before) IN
    /\ Goto(p, "fetch", "map") /\ Owns(work[p].lc)
    /\ \E cursor \in Cursors(work[p], page) :
         work' = [work EXCEPT ![p].seen = arrived, ![p].gone = deleted \cap page,
                              ![p].cursor = cursor, ![p].left = page]
    /\ UNCHANGED << session, cache, phone, loop, fetches, daemon >>

\* Faulty variant: what a retired mapping made of a message is emitted.
MappedAnyway(p) == work[p].left = {}

\* Every message was mapped under the lifecycle of the window.
Mapped(p) == work[p].left = {} /\ Current(work[p].lc)

\* mapMessage takes a message in two steps, with a look at the lifecycle in
\* each, for a download may come between them.  The oldest that is left: a
\* deleted one is a removal, a tombstone nothing, any other is remembered, and
\* a retired worker maps nothing.
WindowMap(p) ==
    /\ pc[p] = "map" /\ work[p].held = None
    /\ \E m \in Oldest(work[p].left) :
         LET removed == Current(work[p].lc) /\ m \in work[p].gone
             remembered == Current(work[p].lc) /\ m \notin work[p].gone \cup Tombstones IN
         /\ work' = [work EXCEPT ![p] = IF remembered THEN [work[p] EXCEPT !.held = m]
                                        ELSE [work[p] EXCEPT !.left = @ \ {m}]]
         /\ has' = IF removed /\ ~closed THEN has \ {m} ELSE has
         /\ IF remembered THEN Remember(m) ELSE UNCHANGED cache
    /\ UNCHANGED << session, phone, loop, pc, fetches, reached >>

\* Then its content, if there is any.
WindowKeep(p) ==
    LET m == work[p].held
        kept == IF Current(work[p].lc) /\ m \notin Blank THEN {m} ELSE {} IN
    /\ pc[p] = "map" /\ m # None
    /\ work' = [work EXCEPT ![p].held = None, ![p].left = @ \ {m}, ![p].out = @ \cup kept]
    /\ UNCHANGED << session, cache, phone, loop, pc, fetches, daemon >>

\* A window that was retired while it was mapped is dropped.
WindowDrop(p) ==
    /\ pc[p] = "map" /\ ~Current(work[p].lc) /\ Rests(p)
    /\ UNCHANGED << session, cache, phone, loop, fetches, daemon >>

\* The cursor to go on with: the relay's, or of a page that is full.  A page
\* with nothing to show has none.
CursorNext(w) ==
    IF w.out = {} THEN {None}
    ELSE IF w.cursor # None THEN {w.cursor}
    ELSE IF Cardinality(w.out) = Window THEN Oldest(w.out) ELSE {None}

WindowMapped(p) ==
    /\ Goto(p, "map", "emit") /\ Mapped(p)
    /\ \E cursor \in CursorNext(work[p]) :
         work' = [work EXCEPT ![p].left = work[p].out, ![p].cursor = cursor]
    /\ UNCHANGED << session, cache, phone, loop, fetches, daemon >>

\* Faulty variant: every chunk of a full window has the authority flag.
ClosingEach(w, chunk) == TRUE

Closing(w, chunk) == chunk = w.left

\* The next chunk, without a look at the lifecycle; the last one closes a
\* full window and carries the cursor.
WindowEmit(p) ==
    LET w == work[p] IN
    /\ pc[p] = "emit"
    /\ \E chunk \in SUBSET w.left :
         LET sent == (w.out \ w.left) \cup chunk
             older == {m \in has : \A n \in sent : m < n} IN
         /\ w.left # {} => chunk # {}
         /\ \A m \in chunk, n \in w.left \ chunk : m < n
         /\ IF chunk = w.left THEN Rests(p)
            ELSE work' = [work EXCEPT ![p].left = @ \ chunk] /\ UNCHANGED pc
         /\ IF closed THEN UNCHANGED daemon
            ELSE /\ has' = IF w.kind = "full" /\ Closing(w, chunk) THEN older \cup sent
                           ELSE has \cup chunk
                 /\ reached' = IF w.kind = "history" /\ chunk = w.left /\ w.cursor < reached
                                 THEN w.cursor ELSE reached
    /\ UNCHANGED << session, cache, phone, loop, fetches >>

-----------------------------------------------------------------------------
(* The event loop: live messages and removals (handleMessage).             *)

NotMapping == [message |-> None, lifecycle |-> 0]

\* The next event.  One of an earlier login and a tombstone are dropped, a
\* removal is told at once, and a message is mapped, which may take a download.
EventTake ==
    /\ queue # << >> /\ mapping = NotMapping /\ ~closed
    /\ queue' = Tail(queue)
    /\ LET event == Head(queue)
           current == Current(event.lifecycle) IN
       /\ has' = IF current /\ event.removal THEN has \ {event.message} ELSE has
       /\ IF current /\ ~event.removal /\ event.message \notin Tombstones
            THEN /\ mapping' = [message |-> event.message, lifecycle |-> event.lifecycle]
                 /\ Remember(event.message)
            ELSE UNCHANGED << mapping, cache >>
    /\ UNCHANGED << session, phone, pc, work, fetches, reached >>

\* The message is shown, unless a login, logout or close came meanwhile.
EventShow ==
    /\ mapping # NotMapping /\ mapping' = NotMapping
    /\ has' = IF Current(mapping.lifecycle) /\ mapping.message \notin Blank
                THEN has \cup {mapping.message} ELSE has
    /\ UNCHANGED << session, cache, phone, queue, pc, work, fetches, reached >>

-----------------------------------------------------------------------------
(* The phone, and what retires a login.                                    *)

\* A connected client hears of it.
Hears(message, removal) ==
    queue' = IF client /\ ~closed
               THEN Append(queue, [message |-> message, lifecycle |-> lifecycle,
                                   removal |-> removal])
               ELSE queue

Arrive ==
    /\ arrived < M /\ arrived' = arrived + 1
    /\ Hears(arrived + 1, FALSE)
    /\ UNCHANGED << session, cache, deleted, mapping, pc, work, fetches, daemon >>

Delete(m) ==
    /\ Cardinality(deleted) < MaxDeletes /\ m \in 1 .. arrived \ deleted
    /\ deleted' = deleted \cup {m}
    /\ Hears(m, TRUE)
    /\ UNCHANGED << session, cache, arrived, mapping, pc, work, fetches, daemon >>

\* A login, which brings a client, a logout, or a close.
Retire ==
    /\ lifecycle < MaxRetires /\ ~closed
    /\ lifecycle' = lifecycle + 1
    /\ \/ client' \in BOOLEAN /\ UNCHANGED closed
       \/ closed' = TRUE /\ UNCHANGED client
    /\ UNCHANGED << cache, phone, loop, pc, work, fetches, daemon >>

-----------------------------------------------------------------------------
\* A connected session; the daemon has the window of a sync.
Init ==
    /\ lifecycle = 0 /\ client = TRUE /\ closed = FALSE
    /\ arrived = Start /\ deleted = {}
    /\ has = Page(None) \ Blank
    /\ reached \in Oldest(Page(None))
    /\ cache = << >>
    /\ queue = << >> /\ mapping = NotMapping
    /\ pc = [p \in Workers |-> "idle"] /\ work = [p \in Workers |-> NoWork]
    /\ fetches = 0

Next ==
    \/ \E p \in Workers : \/ WindowBegin(p) \/ HistoryBegin(p) \/ WindowFails(p)
                          \/ WindowFetch(p) \/ WindowMap(p) \/ WindowKeep(p)
                          \/ WindowDrop(p) \/ WindowMapped(p) \/ WindowEmit(p)
    \/ EventTake \/ EventShow \/ Arrive \/ Retire
    \/ \E m \in Messages : Delete(m)

Spec == Init /\ [][Next]_vars

-----------------------------------------------------------------------------
(* Properties.                                                             *)

\* What the phone has to show.
Showable == 1 .. arrived \ (deleted \cup Blank)

\* As far back as the daemon has paged it has every message there was at the
\* start, though pages are dropped, windows replace what it has, and a login
\* may come between any two messages of a page.
NoGaps == reached # None =>
    \A m \in Showable : reached <= m /\ m <= Start => m \in has

\* A full window costs the daemon only what was deleted, or what has come
\* since the window was fetched: it is never closed with a part of itself.
DropsOnlyGone ==
    [][\A m \in has \ has' : m \in deleted \/ \E p \in Workers :
          pc[p] = "emit" /\ work[p].kind = "full" /\ work[p].seen < m]_vars
==============================================================================
