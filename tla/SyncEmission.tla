---------------------------- MODULE SyncEmission ----------------------------
(***************************************************************************)
(* Full syncs of one Session (src/adapter/sync.go fullSync and what it     *)
(* calls, src/adapter/session.go connectOnce's catch-up) and the list of   *)
(* threads the daemon ends up with.                                        *)
(*                                                                         *)
(* A sync lists the inbox page by page, maps the rows, and emits them in   *)
(* chunks, all under s.syncMu.  The last chunk of a complete list makes    *)
(* the daemon drop every thread that was not in it.  Meanwhile threads     *)
(* come and go on the phone, live events add threads, and a login, logout  *)
(* or close retires the lifecycle the sync began with.                     *)
(***************************************************************************)
EXTENDS Naturals, FiniteSets

CONSTANTS
    Syncers,     \* goroutines that call fullSync
    Catchups,    \* those of them a connect may start
    NoSync,      \* nobody holds s.syncMu
    N,           \* threads
    Gone,        \* those the daemon knows from before and the phone has no more
    PageSize,    \* conversationPage
    MaxPages,    \* maxSyncPages
    Attempts,    \* delays of the catch-up
    MaxChanges,  \* bound on the changes of the inbox
    MaxRetires   \* bound on logins and logouts of a behaviour

\* A thread is named by its place in the inbox at the start, 1 the oldest.
Threads == 1 .. N

ASSUME SyncersAssumption == Catchups \subseteq Syncers /\ NoSync \notin Syncers
ASSUME SizeAssumption ==
    /\ N \in Nat /\ PageSize \in Nat \ {0} /\ MaxPages \in Nat \ {0}
    /\ Attempts \in Nat \ {0} /\ Gone \subseteq 1 .. N
    /\ MaxChanges \in Nat /\ MaxRetires \in Nat

VARIABLES
    lifecycle, client, closed,  \* Session: lifecycle, client # nil, closed
    syncActive, syncMu,         \* Session: syncActive, holder of syncMu
    syncGen,                    \* Session: syncGen
    activity, changes,          \* the phone: last activity of each thread, 0 if gone
    present,                    \* history: threads that have been in the inbox all along
    pc, role,                   \* each goroutine: its place, and who started it
    era, attempt,               \* a catch-up's lifecycle and tries
    work,                       \* the sync each goroutine is in
    live,                       \* conversation events: queued, then checked
    mirror, gathered,           \* the daemon: its threads, the generation it gathers
    reconciledBy,               \* history: lifecycle of the newest authoritative list
    served                      \* history: goroutines whose list was emitted

session == << lifecycle, client, closed >>
phone == << activity, changes, present >>
daemon == << mirror, gathered, reconciledBy >>
vars == << session, syncActive, syncMu, syncGen, phone, pc, role, era, attempt,
           work, live, daemon, served >>

Inbox == {t \in Threads : activity[t] > 0}

\* Locals of fullSyncLocked; "stayed" is what a property speaks of: threads
\* that have been in the inbox ever since the listing began, and did not move
\* to its front before a page had them.
Work == [lc : Nat, after : Nat, pages : 0 .. MaxPages, listed : SUBSET Threads,
         stayed : SUBSET Threads, left : SUBSET Threads, gen : Nat, complete : BOOLEAN]
NoWork == [lc |-> 0, after |-> 0, pages |-> 0, listed |-> {}, stayed |-> {},
           left |-> {}, gen |-> 0, complete |-> FALSE]

Roles == {"none", "command", "catchup", "refresh"}

TypeOK ==
    /\ lifecycle \in Nat /\ client \in BOOLEAN /\ closed \in BOOLEAN
    /\ syncActive \in BOOLEAN /\ syncMu \in Syncers \cup {NoSync} /\ syncGen \in Nat
    /\ activity \in [Threads -> Nat] /\ changes \in Nat /\ present \subseteq Threads
    /\ pc \in [Syncers -> {"idle", "wait", "lock", "page", "map", "emit",
                           "after", "done"}]
    /\ role \in [Syncers -> Roles]
    /\ era \in [Syncers -> Nat] /\ attempt \in [Syncers -> 0 .. Attempts]
    /\ work \in [Syncers -> Work]
    /\ live \in SUBSET [thread : Threads, lifecycle : Nat, checked : BOOLEAN]
    /\ mirror \subseteq Threads
    /\ gathered \in [gen : Nat, threads : SUBSET Threads]
    /\ reconciledBy \in Nat /\ served \subseteq Syncers

-----------------------------------------------------------------------------
Goto(p, here, there) == pc[p] = here /\ pc' = [pc EXCEPT ![p] = there]

\* current, for the lifecycle this sync captured.
Current(p) == work[p].lc = lifecycle

\* How the daemon takes a conversations event: threads are added; chunks of
\* one generation are gathered, and the full one replaces what there was.
Deliver(chunk, full, gen, lc) ==
    LET together == IF gen # 0 /\ gathered.gen = gen
                      THEN gathered.threads \cup chunk ELSE chunk IN
    IF closed THEN UNCHANGED daemon
    ELSE /\ mirror' = IF full THEN together ELSE mirror \cup chunk
         /\ gathered' = IF gen = 0 THEN gathered
                        ELSE IF full THEN [gen |-> 0, threads |-> {}]
                        ELSE [gen |-> gen, threads |-> together]
         /\ reconciledBy' = IF full THEN lc ELSE reconciledBy

-----------------------------------------------------------------------------
(* Who calls fullSync.                                                     *)

\* Sync for a command: while one runs, another is dropped.
SyncCommand(p) ==
    /\ role' = [role EXCEPT ![p] = "command"]
    /\ IF syncActive THEN Goto(p, "idle", "done") /\ UNCHANGED syncActive
       ELSE Goto(p, "idle", "lock") /\ syncActive' = TRUE
    /\ UNCHANGED << session, syncMu, syncGen, phone, era, attempt, work, live, daemon, served >>

\* A connect starts its catch-up under the lifecycle it connected.
CatchupStart(p) ==
    /\ p \in Catchups /\ client /\ ~closed /\ role' = [role EXCEPT ![p] = "catchup"]
    /\ Goto(p, "idle", "wait")
    /\ era' = [era EXCEPT ![p] = lifecycle]
    /\ UNCHANGED << session, syncActive, syncMu, syncGen, phone, attempt, work, live,
                    daemon, served >>

\* The delay before an attempt is over, or the session was closed during it.
CatchupTimer(p) ==
    /\ \/ /\ Goto(p, "wait", IF era[p] = lifecycle THEN "lock" ELSE "done")
          /\ attempt' = [attempt EXCEPT ![p] = @ + 1]
       \/ closed /\ Goto(p, "wait", "done") /\ UNCHANGED attempt
    /\ UNCHANGED << session, syncActive, syncMu, syncGen, phone, role, era, work, live,
                    daemon, served >>

\* refreshAfterResume for a connected session, or requestResync's goroutine.
RefreshStart(p) ==
    /\ client /\ role' = [role EXCEPT ![p] = "refresh"]
    /\ Goto(p, "idle", "lock")
    /\ UNCHANGED << session, syncActive, syncMu, syncGen, phone, era, attempt, work, live,
                    daemon, served >>

\* Faulty variant: a failed attempt is the last.
ReturnsFirst(p, ok) ==
    /\ pc' = [pc EXCEPT ![p] = "done"]
    /\ syncActive' = IF role[p] = "command" THEN FALSE ELSE syncActive

\* What the caller does with fullSync's answer.
Returns(p, ok) ==
    /\ pc' = [pc EXCEPT ![p] = IF role[p] = "catchup" /\ ~ok /\ attempt[p] < Attempts
                                 THEN "wait" ELSE "done"]
    /\ syncActive' = IF role[p] = "command" THEN FALSE ELSE syncActive

-----------------------------------------------------------------------------
(* fullSyncLocked (sync.go:222-329).                                       *)

\* Faulty variant: a sync that fails keeps syncMu.
FailsHeld(p) ==
    /\ Returns(p, FALSE)
    /\ work' = [work EXCEPT ![p] = NoWork]
    /\ UNCHANGED syncMu

\* A sync that has nothing to emit lets go of syncMu and returns false.
Fails(p) ==
    /\ Returns(p, FALSE)
    /\ work' = [work EXCEPT ![p] = NoWork]
    /\ syncMu' = NoSync

\* Faulty variant: syncs are not serialized.
FreeAlways == TRUE

Free == syncMu = NoSync

\* Take syncMu and capture the lifecycle; a closed session or one without a
\* client has nothing to list.
SyncBegin(p) ==
    /\ pc[p] = "lock" /\ Free
    /\ IF closed \/ ~client THEN Fails(p)
       ELSE /\ Goto(p, "lock", "page")
            /\ syncMu' = p
            /\ work' = [work EXCEPT ![p].lc = lifecycle, ![p].stayed = Inbox]
            /\ UNCHANGED syncActive
    /\ UNCHANGED << session, syncGen, phone, role, era, attempt, live, daemon, served >>

\* The threads after a cursor; without one, all of them.
Behind(after) == {t \in Inbox : after = 0 \/ activity[t] < after}

\* A page is the most recent part of what is left, and full unless it is all.
Pages(after) ==
    {page \in SUBSET Behind(after) :
        /\ \A t \in page, u \in Behind(after) \ page : activity[t] > activity[u]
        /\ IF page = Behind(after) THEN Cardinality(page) <= PageSize
           ELSE Cardinality(page) = PageSize}

\* The cursor of a page: the activity of its oldest thread.
Cursors(page) == IF page = {} THEN {0}
                 ELSE {activity[t] :
                          t \in {u \in page : \A v \in page : activity[u] <= activity[v]}}

\* The relay fails a page (the first one twice), or the session is retired.
SyncListFails(p) ==
    /\ pc[p] = "page" /\ Fails(p)
    /\ UNCHANGED << session, syncGen, phone, role, era, attempt, live, daemon, served >>

\* Faulty variant: the limit is looked at a page late.
CappedLate(p) == work[p].pages = MaxPages

\* The page about to be taken is the last the limit allows.
Capped(p) == work[p].pages + 1 = MaxPages

\* One page; a short one, or one without a cursor, is the last.  A list that
\* ends at the page limit is not complete.
SyncPage(p) ==
    /\ pc[p] = "page" /\ Current(p)
    /\ \E page \in Pages(work[p].after), more \in BOOLEAN : \E cursor \in Cursors(page) :
         LET last == ~more \/ Cardinality(page) < PageSize
             capped == ~last /\ Capped(p) IN
         /\ page # Behind(work[p].after) => more
         /\ work' = [work EXCEPT ![p].listed = @ \cup page,
                                 ![p].pages = @ + 1,
                                 ![p].complete = ~capped,
                                 ![p].after = cursor]
         /\ pc' = [pc EXCEPT ![p] = IF last \/ capped THEN "map" ELSE "page"]
    /\ UNCHANGED << session, syncActive, syncMu, syncGen, phone, role, era, attempt, live,
                    daemon, served >>

\* Faulty variant: a skipped thread does not matter.
WholeAnyway(p, mapped) == work[p].complete

\* Nothing was cut off by the page limit, nothing skipped.
Whole(p, mapped) == work[p].complete /\ mapped = work[p].listed

\* The workers map the rows and skip those they cannot; a sync retired by
\* now drops everything.  Chunks of a complete list that needs several get
\* one generation.
SyncMap(p) ==
    /\ pc[p] = "map"
    /\ IF ~Current(p) THEN Fails(p) /\ UNCHANGED syncGen
       ELSE \E mapped \in SUBSET work[p].listed, many \in BOOLEAN :
            /\ many => Cardinality(mapped) > 1
            /\ syncGen' = syncGen + 1
            /\ work' = [work EXCEPT ![p].listed = mapped, ![p].left = mapped,
                                    ![p].after = 0, ![p].pages = 0,
                                    ![p].complete = Whole(p, mapped),
                                    ![p].gen = IF Whole(p, mapped) /\ many THEN syncGen + 1 ELSE 0]
            /\ Goto(p, "map", "emit")
            /\ UNCHANGED << syncActive, syncMu >>
    /\ UNCHANGED << session, phone, role, era, attempt, live, daemon, served >>

\* One chunk of the list, without a look at the lifecycle.  The last chunk
\* of a complete list is full, and syncMu is released after it.
SyncEmit(p) ==
    LET w == work[p] IN
    /\ pc[p] = "emit"
    /\ \E chunk \in SUBSET w.left :
         LET last == chunk = w.left IN
         /\ w.left # {} => chunk # {}
         /\ w.complete => IF w.gen = 0 THEN last ELSE w.left = w.listed => ~last
         /\ Deliver(chunk, w.complete /\ last, w.gen, w.lc)
         /\ work' = [work EXCEPT ![p].left = @ \ chunk, ![p].stayed = IF last THEN {} ELSE @]
         /\ IF last THEN /\ Goto(p, "emit", "after")
                         /\ syncMu' = NoSync /\ served' = served \cup {p}
            ELSE UNCHANGED << pc, syncMu, served >>
    /\ UNCHANGED << session, syncActive, syncGen, phone, role, era, attempt, live >>

\* The unlocked half: windows, read flags and a save, given up when retired.
SyncAfter(p) ==
    /\ pc[p] = "after"
    /\ Returns(p, Current(p) /\ (work[p].complete \/ work[p].listed # {}))
    /\ work' = [work EXCEPT ![p] = NoWork]
    /\ UNCHANGED << session, syncMu, syncGen, phone, role, era, attempt, live, daemon, served >>

-----------------------------------------------------------------------------
(* The event loop: a live conversation event (session.go:615-637).         *)

\* The record is fetched and the lifecycle checked; the fetch may fail.
EventCheck ==
    /\ \E event \in live, fetched \in {{TRUE}, {}} :
         /\ ~event.checked
         /\ live' = (live \ {event}) \cup
                [checked : fetched, thread : {event.thread},
                 lifecycle : {event.lifecycle} \cap {lifecycle}]
    /\ UNCHANGED << session, syncActive, syncMu, syncGen, phone, pc, role, era, attempt, work,
                    daemon, served >>

\* What was checked is emitted, whatever happened since.
EventEmit ==
    /\ \E event \in live : event.checked /\ live' = live \ {event}
                           /\ Deliver({event.thread}, FALSE, 0, event.lifecycle)
    /\ UNCHANGED << session, syncActive, syncMu, syncGen, phone, pc, role, era, attempt, work,
                    served >>

-----------------------------------------------------------------------------
(* The phone, and what retires a login.                                    *)

\* A message arrives, a connected client gets the event, and its thread comes
\* to the front of the inbox: a listing that has not reached it may miss it.
ThreadActive(t) ==
    /\ changes < MaxChanges
    /\ activity' = [activity EXCEPT ![t] = N + changes + 1]
    /\ changes' = changes + 1
    /\ live' = IF client /\ ~closed
                 THEN live \cup {[thread |-> t, lifecycle |-> lifecycle, checked |-> FALSE]}
                 ELSE live
    /\ work' = [p \in Syncers |-> [work[p] EXCEPT !.stayed = @ \ ({t} \ work[p].listed)]]
    /\ UNCHANGED << session, syncActive, syncMu, syncGen, present, pc, role, era, attempt,
                    daemon, served >>

ThreadGone(t) ==
    /\ changes < MaxChanges /\ t \in Inbox
    /\ activity' = [activity EXCEPT ![t] = 0]
    /\ changes' = changes + 1
    /\ present' = present \ {t}
    /\ work' = [p \in Syncers |-> [work[p] EXCEPT !.stayed = @ \ {t}]]
    /\ UNCHANGED << session, syncActive, syncMu, syncGen, pc, role, era, attempt, live,
                    daemon, served >>

\* A login, which brings a client, a logout, or a close.
Retire ==
    /\ lifecycle < MaxRetires /\ ~closed
    /\ lifecycle' = lifecycle + 1
    /\ \/ client' \in BOOLEAN /\ UNCHANGED closed
       \/ closed' = TRUE /\ UNCHANGED client
    /\ UNCHANGED << syncActive, syncMu, syncGen, phone, pc, role, era, attempt, work, live,
                    daemon, served >>

-----------------------------------------------------------------------------
\* A connected session; the daemon knows all threads from before.
Init ==
    /\ lifecycle = 0 /\ client = TRUE /\ closed = FALSE
    /\ syncActive = FALSE /\ syncMu = NoSync /\ syncGen = 0
    /\ activity = [t \in Threads |-> IF t \in Gone THEN 0 ELSE t]
    /\ changes = 0 /\ present = Threads \ Gone
    /\ pc = [p \in Syncers |-> "idle"] /\ role = [p \in Syncers |-> "none"]
    /\ era = [p \in Syncers |-> 0] /\ attempt = [p \in Syncers |-> 0]
    /\ work = [p \in Syncers |-> NoWork]
    /\ live = {}
    /\ mirror = Threads /\ gathered = [gen |-> 0, threads |-> {}]
    /\ reconciledBy = 0 /\ served = {}

SyncStep(p) == \/ CatchupTimer(p) \/ SyncBegin(p) \/ SyncListFails(p) \/ SyncPage(p)
               \/ SyncMap(p) \/ SyncEmit(p) \/ SyncAfter(p)

Next ==
    \/ \E p \in Syncers : SyncCommand(p) \/ CatchupStart(p) \/ RefreshStart(p) \/ SyncStep(p)
    \/ \E t \in Threads : ThreadActive(t) \/ ThreadGone(t)
    \/ EventCheck \/ EventEmit \/ Retire

Spec == Init /\ [][Next]_vars

\* Every relay call has a deadline, so as long as there is a goroutine that
\* can run, one does: no more is asked of the scheduler or of syncMu.
Fairness == WF_vars(\E p \in Syncers : SyncStep(p))

FairSpec == Spec /\ Fairness

-----------------------------------------------------------------------------
(* Properties.                                                             *)

\* The listing under syncMu, as Mirror sees it.
Listing == IF syncMu # NoSync /\ pc[syncMu] \in {"page", "map", "emit"}
             THEN {work[syncMu].stayed} ELSE {}

DaemonMirror == INSTANCE Mirror WITH inbox <- Inbox, asked <- Listing

\* Pages, skipped rows, chunks and generations come to this: a list takes
\* effect whole or not at all (contract.go:60), and drops no thread that was
\* in the inbox throughout and did not move to its front while the list was
\* still to reach it (sync.go:309).
ImplementsMirror == DaemonMirror!Spec

\* Refuted.  sync.go:309-312 lets only a demonstrably complete listing replace
\* what the daemon has, "instead of deleting live state the daemon still
\* holds".  A thread that gets a message between two pages moves ahead of the
\* cursor, is in neither page, and the list still counts as complete.
KeepsLiveThreads == [][\A t \in mirror \ mirror' : t \notin present]_vars

\* A retired sync may still emit, but never after the list of a newer login:
\* lists that replace what the daemon has go forward in lifecycles, because
\* syncMu covers the capture of the lifecycle and the emission.
ReconcilesInOrder == [][reconciledBy' >= reconciledBy]_vars

\* A catch-up gives up only when it has emitted a list, was retired, or has
\* used all its attempts: one failed listing does not leave the daemon
\* without its threads after a connect.
CatchupDelivers ==
    \A p \in Syncers : role[p] = "catchup" /\ pc[p] = "done" =>
        p \in served \/ era[p] # lifecycle \/ attempt[p] = Attempts

\* Every sync that was begun comes to its end, whatever the others do, and
\* a dropped Sync is never dropped for ever: syncActive comes down.
Running == {p \in Syncers : pc[p] \notin {"idle", "done"}}
SyncsEnd == Running # {} ~> Running = {} /\ ~syncActive
=============================================================================
