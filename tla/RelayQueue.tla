----------------------------- MODULE RelayQueue -----------------------------
(***************************************************************************)
(* The bounded queue of relay events of one Session and the repair of what *)
(* it loses (src/adapter/session.go, buildClient's event handler to        *)
(* refreshDirty).                                                          *)
(*                                                                         *)
(* The goroutines that poll the relay put events into the queue and never  *)
(* wait: when it is full they drop its oldest event, mark a thread dirty   *)
(* and ask for a repair.  One goroutine handles the events.  A repair is a *)
(* full sync, then a fetch of every thread that was marked.                *)
(***************************************************************************)
EXTENDS Naturals, Sequences, FiniteSets

CONSTANTS
    Pollers,     \* goroutines that run the event handler
    Threads,     \* conversation ids
    NoThread,    \* the conversation of an event that has none
    QueueSize,   \* eventQueue
    MaxDirty,    \* maxDirtyConvs
    Recent,      \* recentWindowRefresh
    MaxEvents,   \* bound on the events of each poller
    MaxRetires   \* bound on logins and logouts of a behaviour

ASSUME ThreadsAssumption == NoThread \notin Threads /\ IsFiniteSet(Threads)
ASSUME SizeAssumption ==
    /\ QueueSize \in Nat \ {0} /\ MaxDirty \in Nat \ {0}
    /\ Recent \in Nat /\ MaxEvents \in Nat /\ MaxRetires \in Nat

Event == [thread : Threads \cup {NoThread}, from : Pollers, number : Nat, lifecycle : Nat]

VARIABLES
    lifecycle, closed,   \* Session: lifecycle, closed
    queue,               \* s.events
    pc, held,            \* each poller: where it is, the event in its hands
    received,            \* each poller's events so far
    handled,             \* number of the last event of each poller handled
    dirtyConvs, dirtyOrder,   \* the marks, and their order
    resyncing,           \* s.resyncing
    repair, todo,        \* the goroutine each poller started, its fetches
    era                  \* the lifecycle its fetches belong to

session == << lifecycle, closed >>
polling == << pc, held, received >>
marks == << dirtyConvs, dirtyOrder >>
repairing == << repair, todo, era >>
vars == << session, queue, polling, handled, marks, resyncing, repairing >>

TypeOK ==
    /\ lifecycle \in Nat /\ closed \in BOOLEAN
    /\ queue \in Seq(Event) /\ Len(queue) <= QueueSize
    /\ pc \in [Pollers -> {"idle", "push", "evict", "again", "mark", "request"}]
    /\ held \in [Pollers -> Event \cup {NoThread}]
    /\ received \in [Pollers -> Nat] /\ handled \in [Pollers -> Nat]
    /\ dirtyConvs \subseteq Threads /\ dirtyOrder \in Seq(Threads)
    /\ resyncing \in BOOLEAN
    /\ repair \in [Pollers -> {"off", "sync", "heal", "take", "refresh", "clear"}]
    /\ todo \in [Pollers -> SUBSET Threads] /\ era \in [Pollers -> Nat]

-----------------------------------------------------------------------------
Goto(p, here, there) == pc[p] = here /\ pc' = [pc EXCEPT ![p] = there]
Turn(p, here, there) == repair[p] = here /\ repair' = [repair EXCEPT ![p] = there]

-----------------------------------------------------------------------------
(* The event handler (session.go:236-267).                                 *)

\* The event is stamped with the lifecycle under s.mu; the push is later.
Receive(p) ==
    /\ received[p] < MaxEvents /\ Goto(p, "idle", "push")
    /\ received' = [received EXCEPT ![p] = @ + 1]
    /\ \E thread \in Threads \cup {NoThread} :
         held' = [held EXCEPT ![p] = [thread |-> thread, from |-> p,
                                      number |-> received[p] + 1, lifecycle |-> lifecycle]]
    /\ UNCHANGED << session, queue, handled, marks, resyncing, repairing >>

\* Faulty variant: the queue takes one event too many.
PushPast(p) ==
    /\ IF Len(queue) <= QueueSize
         THEN /\ Goto(p, "push", "idle")
              /\ queue' = Append(queue, held[p])
              /\ held' = [held EXCEPT ![p] = NoThread]
         ELSE Goto(p, "push", "evict") /\ UNCHANGED << queue, held >>
    /\ UNCHANGED << session, received, handled, marks, resyncing, repairing >>

\* Into the queue if there is room at once.
Push(p) ==
    /\ IF Len(queue) < QueueSize
         THEN /\ Goto(p, "push", "idle")
              /\ queue' = Append(queue, held[p])
              /\ held' = [held EXCEPT ![p] = NoThread]
         ELSE Goto(p, "push", "evict") /\ UNCHANGED << queue, held >>
    /\ UNCHANGED << session, received, handled, marks, resyncing, repairing >>

\* The oldest event goes, if the event loop did not empty the queue first.
Evict(p) ==
    /\ Goto(p, "evict", "again")
    /\ queue' = IF queue = << >> THEN queue ELSE Tail(queue)
    /\ UNCHANGED << session, held, received, handled, marks, resyncing, repairing >>

\* Faulty variant: the event goes where the evicted one was.
PushAgainFirst(p) ==
    /\ Goto(p, "again", "mark")
    /\ queue' = IF Len(queue) < QueueSize THEN << held[p] >> \o queue ELSE queue
    /\ UNCHANGED << session, held, received, handled, marks, resyncing, repairing >>

\* Another poller may have taken the room: then this event is dropped too.
PushAgain(p) ==
    /\ Goto(p, "again", "mark")
    /\ queue' = IF Len(queue) < QueueSize THEN Append(queue, held[p]) ELSE queue
    /\ UNCHANGED << session, held, received, handled, marks, resyncing, repairing >>

\* Faulty variant: the oldest mark is forgotten by its order only.
MarkDirtyStale(p) ==
    LET thread == held[p].thread IN
    /\ Goto(p, "mark", "request") /\ held' = [held EXCEPT ![p] = NoThread]
    /\ IF thread = NoThread \/ thread \in dirtyConvs THEN UNCHANGED marks
       ELSE /\ dirtyConvs' = dirtyConvs \cup {thread}
            /\ dirtyOrder' = Append(IF Len(dirtyOrder) < MaxDirty THEN dirtyOrder
                                    ELSE Tail(dirtyOrder), thread)
    /\ UNCHANGED << session, queue, received, handled, resyncing, repairing >>

\* markDirty, of the thread of the event that came, not of the one dropped;
\* at the limit the oldest mark makes room.
MarkDirty(p) ==
    LET thread == held[p].thread
        full == Len(dirtyOrder) >= MaxDirty IN
    /\ Goto(p, "mark", "request") /\ held' = [held EXCEPT ![p] = NoThread]
    /\ IF thread = NoThread \/ thread \in dirtyConvs THEN UNCHANGED marks
       ELSE /\ dirtyConvs' = {thread} \cup
                  (IF full THEN dirtyConvs \ {Head(dirtyOrder)} ELSE dirtyConvs)
            /\ dirtyOrder' = Append(IF full THEN Tail(dirtyOrder) ELSE dirtyOrder, thread)
    /\ UNCHANGED << session, queue, received, handled, resyncing, repairing >>

\* Faulty variant: the flag is set without a look at it.
RequestResyncBlind(p) ==
    /\ Goto(p, "request", "idle")
    /\ resyncing' = TRUE /\ repair' = [repair EXCEPT ![p] = "sync"]
    /\ UNCHANGED << session, queue, held, received, handled, marks, todo, era >>

\* requestResync: compare-and-swap, and the goroutine starts.
RequestResync(p) ==
    /\ Goto(p, "request", "idle")
    /\ IF resyncing THEN UNCHANGED << resyncing, repair >>
       ELSE resyncing' = TRUE /\ Turn(p, "off", "sync")
    /\ UNCHANGED << session, queue, held, received, handled, marks, todo, era >>

-----------------------------------------------------------------------------
(* The event loop (session.go:594-611), for this queue.                    *)

\* An event of an earlier login is dropped.
Handle ==
    /\ ~closed /\ queue # << >>
    /\ queue' = Tail(queue)
    /\ LET event == Head(queue) IN
       handled' = IF event.lifecycle = lifecycle
                    THEN [handled EXCEPT ![event.from] = event.number] ELSE handled
    /\ UNCHANGED << session, polling, marks, resyncing, repairing >>

-----------------------------------------------------------------------------
(* The repair goroutine (session.go:272-331, with fullSync and emitWindow  *)
(* of sync.go).                                                            *)

\* fullSync lists the threads, or fails; it then fetches the windows of the
\* most recent ones, whichever these are.
RepairLists(p) ==
    /\ Turn(p, "sync", "heal")
    /\ era' = [era EXCEPT ![p] = lifecycle]
    /\ \E recent \in SUBSET Threads :
         /\ Cardinality(recent) <= Recent /\ (closed => recent = {})
         /\ todo' = [todo EXCEPT ![p] = recent]
    /\ UNCHANGED << session, queue, polling, handled, marks, resyncing >>

\* One window, refetched or not: a window that cannot be fetched or mapped,
\* or belongs to a retired login, is not tried again.
RepairFetches(p) ==
    /\ repair[p] \in {"heal", "refresh"}
    /\ \E thread \in todo[p] : todo' = [todo EXCEPT ![p] = @ \ {thread}]
    /\ UNCHANGED << session, queue, polling, handled, marks, resyncing, repair, era >>

\* A retired sync stops; what it did does not matter to the repair.
RepairSynced(p) ==
    /\ Turn(p, "heal", "take")
    /\ todo[p] = {} \/ era[p] # lifecycle
    /\ todo' = [todo EXCEPT ![p] = {}] /\ era' = [era EXCEPT ![p] = 0]
    /\ UNCHANGED << session, queue, polling, handled, marks, resyncing >>

\* Faulty variant: the marks are dropped, and nothing is fetched for them.
TakeDirtyLost(p) ==
    /\ Turn(p, "take", "refresh")
    /\ dirtyConvs' = {} /\ dirtyOrder' = << >>
    /\ UNCHANGED << session, queue, polling, handled, resyncing, todo, era >>

\* takeDirty: one critical section.
TakeDirty(p) ==
    /\ Turn(p, "take", "refresh")
    /\ todo' = [todo EXCEPT ![p] = dirtyConvs]
    /\ dirtyConvs' = {} /\ dirtyOrder' = << >>
    /\ UNCHANGED << session, queue, polling, handled, resyncing, era >>

\* Faulty variant: a closed session leaves the flag set.
RepairRefreshedOnly(p) ==
    /\ repair[p] = "refresh" /\ (todo[p] = {} \/ closed)
    /\ repair' = [repair EXCEPT ![p] = IF closed THEN "off" ELSE "clear"]
    /\ todo' = [todo EXCEPT ![p] = {}]
    /\ UNCHANGED << session, queue, polling, handled, marks, resyncing, era >>

\* refreshDirty is done, or gives up when the session is closed.
RepairRefreshed(p) ==
    /\ Turn(p, "refresh", "clear")
    /\ todo[p] = {} \/ closed
    /\ todo' = [todo EXCEPT ![p] = {}]
    /\ UNCHANGED << session, queue, polling, handled, marks, resyncing, era >>

\* The deferred release of the flag.
RepairClears(p) ==
    /\ Turn(p, "clear", "off")
    /\ resyncing' = FALSE
    /\ UNCHANGED << session, queue, polling, handled, marks, todo, era >>

-----------------------------------------------------------------------------
\* A login or a logout retires the lifecycle, and so does Close.
Retire ==
    /\ lifecycle < MaxRetires /\ ~closed
    /\ lifecycle' = lifecycle + 1
    /\ closed' \in BOOLEAN
    /\ UNCHANGED << queue, polling, handled, marks, resyncing, repairing >>

Init ==
    /\ lifecycle = 0 /\ closed = FALSE
    /\ queue = << >>
    /\ pc = [p \in Pollers |-> "idle"] /\ held = [p \in Pollers |-> NoThread]
    /\ received = [p \in Pollers |-> 0] /\ handled = [p \in Pollers |-> 0]
    /\ dirtyConvs = {} /\ dirtyOrder = << >>
    /\ resyncing = FALSE
    /\ repair = [p \in Pollers |-> "off"]
    /\ todo = [p \in Pollers |-> {}] /\ era = [p \in Pollers |-> 0]

HandlerStep(p) == \/ Push(p) \/ Evict(p) \/ PushAgain(p) \/ MarkDirty(p)
                  \/ RequestResync(p)
RepairStep(p) == \/ RepairLists(p) \/ RepairFetches(p) \/ RepairSynced(p) \/ TakeDirty(p)
                 \/ RepairRefreshed(p) \/ RepairClears(p)

Next ==
    \/ \E p \in Pollers : Receive(p) \/ HandlerStep(p) \/ RepairStep(p)
    \/ Handle \/ Retire

Spec == Init /\ [][Next]_vars

\* Every goroutine runs; a fetch ends by its deadline.
Fairness ==
    /\ \A p \in Pollers : WF_vars(HandlerStep(p)) /\ WF_vars(RepairStep(p))
    /\ WF_vars(Handle)

FairSpec == Spec /\ Fairness

-----------------------------------------------------------------------------
(* Properties.                                                             *)

\* The marks and their order are two records of one set, without repetition
\* and within the limit, whatever markDirty and takeDirty do in turn.
MarksAgree ==
    /\ dirtyConvs = {dirtyOrder[i] : i \in DOMAIN dirtyOrder}
    /\ Len(dirtyOrder) = Cardinality(dirtyConvs)
    /\ Len(dirtyOrder) <= MaxDirty

\* Overflows that come at once share one repair, and the flag is up exactly
\* while it runs (session.go:271).
OneRepair ==
    LET running == {p \in Pollers : repair[p] # "off"} IN
    /\ Cardinality(running) <= 1
    /\ resyncing <=> running # {}

\* What one poller received is handled in the order it came, with gaps where
\* the queue overflowed, though several pollers evict and push at once.
HandledInOrder == [][ \A p \in Pollers : handled'[p] >= handled[p] ]_vars

\* A repair ends and makes room for the next, also when the session is
\* closed or another login retires what it was doing.
RepairsEnd == resyncing ~> ~resyncing

\* A thread marked before the running repair takes the marks has its window
\* fetched anew by that repair, unless the session is closed or newer marks
\* push it out at the limit.  A mark set later, before the flag comes down,
\* starts no repair and lingers until the next one.
BeforeTake == \E p \in Pollers : repair[p] \in {"sync", "heal", "take"}
MarksAreRefetched ==
    \A thread \in Threads :
        thread \in dirtyConvs /\ BeforeTake ~>
            \/ \E p \in Pollers : repair[p] = "refresh" /\ thread \in todo[p]
            \/ closed
            \/ BeforeTake /\ thread \notin dirtyConvs /\ Cardinality(dirtyConvs) = MaxDirty
=============================================================================
