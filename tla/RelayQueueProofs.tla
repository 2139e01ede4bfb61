------------------------- MODULE RelayQueueProofs -------------------------
(***************************************************************************)
(* Theorems about RelayQueue, for any number of pollers, threads and       *)
(* events and any sizes of the queue and of the set of marks.              *)
(***************************************************************************)
EXTENDS RelayQueue, FiniteSetTheorems, TLAPS

Full == {"push", "evict", "again", "mark"}
PcStates == {"idle", "push", "evict", "again", "mark", "request"}
RepairStates == {"off", "sync", "heal", "take", "refresh", "clear"}

\* A poller between the receipt of an event and its mark holds the last event
\* it received.
HandsFull ==
    \A p \in Pollers : pc[p] \in Full => /\ held[p] \in Event
                                         /\ held[p].from = p /\ held[p].number = received[p]

Typed == TypeOK /\ HandsFull

-----------------------------------------------------------------------------
(* The helpers keep their types.                                           *)

LEMMA GotoTyped ==
    ASSUME TypeOK, NEW p \in Pollers, NEW here, NEW there \in PcStates, Goto(p, here, there)
    PROVE  /\ pc' \in [Pollers -> PcStates]
           /\ pc[p] = here /\ pc'[p] = there
           /\ \A q \in Pollers \ {p} : pc'[q] = pc[q]
  BY DEF TypeOK, Goto, PcStates

LEMMA TurnTyped ==
    ASSUME TypeOK, NEW p \in Pollers, NEW here, NEW there \in RepairStates,
           Turn(p, here, there)
    PROVE  /\ repair' \in [Pollers -> RepairStates]
           /\ repair[p] = here /\ repair'[p] = there
           /\ \A q \in Pollers \ {p} : repair'[q] = repair[q]
  BY DEF TypeOK, Turn, RepairStates

\* What a queue that is not full becomes when an event is put into it.
LEMMA AppendTyped ==
    ASSUME TypeOK, NEW event \in Event, Len(queue) < QueueSize
    PROVE  /\ Append(queue, event) \in Seq(Event)
           /\ Len(Append(queue, event)) <= QueueSize
           /\ Len(Append(queue, event)) = Len(queue) + 1
           /\ \A i \in 1 .. Len(queue) : Append(queue, event)[i] = queue[i]
           /\ Append(queue, event)[Len(queue) + 1] = event
  BY SizeAssumption DEF TypeOK

\* What a queue becomes when its oldest event is taken.
LEMMA TailTyped ==
    ASSUME TypeOK, queue # << >>
    PROVE  /\ Head(queue) \in Event /\ Head(queue) = queue[1] /\ Len(queue) > 0
           /\ Tail(queue) \in Seq(Event)
           /\ Len(Tail(queue)) <= QueueSize
           /\ Len(Tail(queue)) = Len(queue) - 1
           /\ \A i \in 1 .. Len(Tail(queue)) : Tail(queue)[i] = queue[i + 1]
  BY SizeAssumption DEF TypeOK

-----------------------------------------------------------------------------
(* Every step keeps the types.                                             *)

LEMMA ReceiveTyped ==
    ASSUME Typed, NEW p \in Pollers, Receive(p)
    PROVE  Typed'
  <1>1. PICK thread \in Threads \cup {NoThread} :
          held' = [held EXCEPT ![p] = [thread |-> thread, from |-> p,
                                       number |-> received[p] + 1, lifecycle |-> lifecycle]]
    BY DEF Receive
  <1> DEFINE event == [thread |-> thread, from |-> p,
                       number |-> received[p] + 1, lifecycle |-> lifecycle]
  <1>2. event \in Event /\ event.from = p /\ event.number = received[p] + 1
    BY DEF Typed, TypeOK, Event
  <1>3. received' = [received EXCEPT ![p] = @ + 1] /\ Goto(p, "idle", "push")
    BY DEF Receive
  <1>4. pc' \in [Pollers -> PcStates] /\ \A q \in Pollers \ {p} : pc'[q] = pc[q]
    BY <1>3, GotoTyped DEF PcStates, Typed
  <1>held. held' = [held EXCEPT ![p] = event]
    BY <1>1
  <1> HIDE DEF event
  <1>5. /\ held' \in [Pollers -> Event \cup {NoThread}] /\ held'[p] = event
        /\ received' \in [Pollers -> Nat]
        /\ received'[p] = received[p] + 1
        /\ \A q \in Pollers \ {p} : held'[q] = held[q] /\ received'[q] = received[q]
    <2>1. held \in [Pollers -> Event \cup {NoThread}] /\ received \in [Pollers -> Nat]
      BY DEF Typed, TypeOK
    <2> QED
      BY <1>held, <1>2, <1>3, <2>1
  <1>6. TypeOK'
    BY <1>4, <1>5 DEF Receive, Typed, TypeOK, PcStates, session, marks, repairing
  <1>7. HandsFull'
    BY <1>2, <1>4, <1>5 DEF Typed, HandsFull
  <1> QED
    BY <1>6, <1>7 DEF Typed

LEMMA PushTyped ==
    ASSUME Typed, NEW p \in Pollers, Push(p)
    PROVE  Typed'
  <1>1. CASE Len(queue) < QueueSize
    <2>1. Goto(p, "push", "idle") /\ queue' = Append(queue, held[p])
          /\ held' = [held EXCEPT ![p] = NoThread]
      BY <1>1 DEF Push
    <2>2. /\ pc' \in [Pollers -> PcStates] /\ pc[p] = "push" /\ pc'[p] = "idle"
          /\ \A q \in Pollers \ {p} : pc'[q] = pc[q]
      BY <2>1, GotoTyped DEF PcStates, Typed
    <2>3. held[p] \in Event
      BY <2>2 DEF Typed, HandsFull, Full
    <2>4. queue' \in Seq(Event) /\ Len(queue') <= QueueSize
      BY <1>1, <2>1, <2>3, AppendTyped DEF Typed
    <2>5. TypeOK'
      BY <2>1, <2>2, <2>4 DEF Push, Typed, TypeOK, PcStates, session, marks, repairing
    <2>6. HandsFull'
      BY <2>1, <2>2 DEF Push, Typed, TypeOK, HandsFull, Full
    <2> QED
      BY <2>5, <2>6 DEF Typed
  <1>2. CASE ~(Len(queue) < QueueSize)
    <2>1. Goto(p, "push", "evict") /\ UNCHANGED << queue, held >>
      BY <1>2 DEF Push
    <2>2. /\ pc' \in [Pollers -> PcStates] /\ pc[p] = "push"
          /\ \A q \in Pollers \ {p} : pc'[q] = pc[q]
      BY <2>1, GotoTyped DEF PcStates, Typed
    <2>3. TypeOK'
      BY <2>1, <2>2 DEF Push, Typed, TypeOK, PcStates, session, marks, repairing
    <2>4. HandsFull'
      BY <2>1, <2>2 DEF Push, Typed, TypeOK, HandsFull, Full
    <2> QED
      BY <2>3, <2>4 DEF Typed
  <1> QED
    BY <1>1, <1>2

LEMMA EvictTyped ==
    ASSUME Typed, NEW p \in Pollers, Evict(p)
    PROVE  Typed'
  <1>1. /\ pc' \in [Pollers -> PcStates] /\ pc[p] = "evict"
        /\ \A q \in Pollers \ {p} : pc'[q] = pc[q]
    BY GotoTyped DEF Evict, PcStates, Typed
  <1>2. /\ queue' \in Seq(Event) /\ Len(queue') <= QueueSize
    <2>1. CASE queue = << >>
      BY <2>1 DEF Evict, Typed, TypeOK
    <2>2. CASE queue # << >>
      BY <2>2, TailTyped DEF Evict, Typed
    <2> QED
      BY <2>1, <2>2
  <1>3. TypeOK'
    BY <1>1, <1>2 DEF Evict, Typed, TypeOK, PcStates, session, marks, repairing
  <1>4. HandsFull'
    BY <1>1 DEF Evict, Typed, HandsFull, Full
  <1> QED
    BY <1>3, <1>4 DEF Typed

LEMMA PushAgainTyped ==
    ASSUME Typed, NEW p \in Pollers, PushAgain(p)
    PROVE  Typed'
  <1>1. /\ pc' \in [Pollers -> PcStates] /\ pc[p] = "again"
        /\ \A q \in Pollers \ {p} : pc'[q] = pc[q]
    BY GotoTyped DEF PushAgain, PcStates, Typed
  <1>2. held[p] \in Event
    BY <1>1 DEF Typed, HandsFull, Full
  <1>3. /\ queue' \in Seq(Event) /\ Len(queue') <= QueueSize
    <2>1. CASE Len(queue) < QueueSize
      BY <1>2, <2>1, AppendTyped DEF PushAgain, Typed, TypeOK
    <2>2. CASE ~(Len(queue) < QueueSize)
      BY <2>2 DEF PushAgain, Typed, TypeOK
    <2> QED
      BY <2>1, <2>2
  <1>4. TypeOK'
    BY <1>1, <1>3 DEF PushAgain, Typed, TypeOK, PcStates, session, marks, repairing
  <1>5. HandsFull'
    BY <1>1 DEF PushAgain, Typed, HandsFull, Full
  <1> QED
    BY <1>4, <1>5 DEF Typed

\* A poller's mark and its request for a repair need no event.
LEMMA MarkDirtyTyped ==
    ASSUME Typed, NEW p \in Pollers, MarkDirty(p)
    PROVE  Typed'
  <1>1. /\ pc' \in [Pollers -> PcStates] /\ pc[p] = "mark" /\ pc'[p] = "request"
        /\ \A q \in Pollers \ {p} : pc'[q] = pc[q]
    BY GotoTyped DEF MarkDirty, PcStates, Typed
  <1>2. held[p].thread \in Threads \cup {NoThread}
    BY <1>1 DEF Typed, HandsFull, Full, Event
  <1>3. dirtyConvs' \subseteq Threads /\ dirtyOrder' \in Seq(Threads)
    <2>1. CASE held[p].thread = NoThread \/ held[p].thread \in dirtyConvs
      BY <2>1 DEF MarkDirty, marks, Typed, TypeOK
    <2>2. CASE ~(held[p].thread = NoThread \/ held[p].thread \in dirtyConvs)
      <3>1. held[p].thread \in Threads
        BY <1>2, <2>2
      <3>2. dirtyOrder \in Seq(Threads)
        BY DEF Typed, TypeOK
      <3>3. Append(dirtyOrder, held[p].thread) \in Seq(Threads)
        BY <3>1, <3>2
      <3>4. CASE Len(dirtyOrder) >= MaxDirty
        <4>1. Len(dirtyOrder) > 0
          BY <3>2, <3>4, SizeAssumption
        <4>2. Append(Tail(dirtyOrder), held[p].thread) \in Seq(Threads)
          BY <3>1, <3>2, <4>1
        <4> QED
          BY <2>2, <3>1, <3>4, <4>2 DEF MarkDirty, Typed, TypeOK
      <3>5. CASE ~(Len(dirtyOrder) >= MaxDirty)
        BY <2>2, <3>1, <3>3, <3>5 DEF MarkDirty, Typed, TypeOK
      <3> QED
        BY <3>4, <3>5
    <2> QED
      BY <2>1, <2>2
  <1>4. TypeOK'
    BY <1>1, <1>3 DEF MarkDirty, Typed, TypeOK, PcStates, session, repairing
  <1>5. HandsFull'
    BY <1>1 DEF MarkDirty, Typed, TypeOK, HandsFull, Full
  <1> QED
    BY <1>4, <1>5 DEF Typed

LEMMA RequestResyncTyped ==
    ASSUME Typed, NEW p \in Pollers, RequestResync(p)
    PROVE  Typed'
  <1>1. /\ pc' \in [Pollers -> PcStates] /\ pc[p] = "request" /\ pc'[p] = "idle"
        /\ \A q \in Pollers \ {p} : pc'[q] = pc[q]
    BY GotoTyped DEF RequestResync, PcStates, Typed
  <1>2. resyncing' \in BOOLEAN /\ repair' \in [Pollers -> RepairStates]
    <2>1. CASE resyncing
      BY <2>1 DEF RequestResync, Typed, TypeOK, RepairStates
    <2>2. CASE ~resyncing
      BY <2>2, TurnTyped DEF RequestResync, Typed, RepairStates
    <2> QED
      BY <2>1, <2>2
  <1>3. TypeOK'
    BY <1>1, <1>2 DEF RequestResync, Typed, TypeOK, PcStates, RepairStates, session, marks
  <1>4. HandsFull'
    BY <1>1 DEF RequestResync, Typed, HandsFull, Full
  <1> QED
    BY <1>3, <1>4 DEF Typed

LEMMA HandleTyped ==
    ASSUME Typed, Handle
    PROVE  Typed'
  <1>1. queue' = Tail(queue) /\ queue # << >>
    BY DEF Handle
  <1>2. queue' \in Seq(Event) /\ Len(queue') <= QueueSize /\ Head(queue) \in Event
    BY <1>1, TailTyped DEF Typed
  <1>3. handled' \in [Pollers -> Nat]
    BY <1>2 DEF Handle, Typed, TypeOK, Event
  <1>4. TypeOK'
    BY <1>2, <1>3 DEF Handle, Typed, TypeOK, session, polling, marks, repairing
  <1>5. HandsFull'
    BY DEF Handle, polling, Typed, HandsFull
  <1> QED
    BY <1>4, <1>5 DEF Typed

\* The repair goroutine touches no poller.
LEMMA RepairStepTyped ==
    ASSUME Typed, NEW p \in Pollers, RepairStep(p)
    PROVE  Typed'
  <1>1. HandsFull'
    BY DEF RepairStep, RepairLists, RepairFetches, RepairSynced, TakeDirty, RepairRefreshed,
           RepairClears, polling, Typed, HandsFull
  <1>2. CASE RepairLists(p)
    <2>1. repair' \in [Pollers -> RepairStates]
      BY <1>2, TurnTyped DEF RepairLists, Typed, RepairStates
    <2>2. todo' \in [Pollers -> SUBSET Threads] /\ era' \in [Pollers -> Nat]
      BY <1>2 DEF RepairLists, Typed, TypeOK
    <2> QED
      BY <1>1, <1>2, <2>1, <2>2
         DEF RepairLists, Typed, TypeOK, RepairStates, session, polling, marks
  <1>3. CASE RepairFetches(p)
    BY <1>1, <1>3 DEF RepairFetches, Typed, TypeOK, session, polling, marks
  <1>4. CASE RepairSynced(p)
    <2>1. repair' \in [Pollers -> RepairStates]
      BY <1>4, TurnTyped DEF RepairSynced, Typed, RepairStates
    <2> QED
      BY <1>1, <1>4, <2>1 DEF RepairSynced, Typed, TypeOK, RepairStates, session, polling, marks
  <1>5. CASE TakeDirty(p)
    <2>1. repair' \in [Pollers -> RepairStates]
      BY <1>5, TurnTyped DEF TakeDirty, Typed, RepairStates
    <2>2. dirtyConvs' \subseteq Threads /\ dirtyOrder' \in Seq(Threads)
          /\ todo' \in [Pollers -> SUBSET Threads]
      BY <1>5 DEF TakeDirty, Typed, TypeOK
    <2> QED
      BY <1>1, <1>5, <2>1, <2>2
         DEF TakeDirty, Typed, TypeOK, RepairStates, session, polling
  <1>6. CASE RepairRefreshed(p)
    <2>1. repair' \in [Pollers -> RepairStates]
      BY <1>6, TurnTyped DEF RepairRefreshed, Typed, RepairStates
    <2> QED
      BY <1>1, <1>6, <2>1
         DEF RepairRefreshed, Typed, TypeOK, RepairStates, session, polling, marks
  <1>7. CASE RepairClears(p)
    <2>1. repair' \in [Pollers -> RepairStates]
      BY <1>7, TurnTyped DEF RepairClears, Typed, RepairStates
    <2> QED
      BY <1>1, <1>7, <2>1 DEF RepairClears, Typed, TypeOK, RepairStates, session, polling, marks
  <1> QED
    BY <1>2, <1>3, <1>4, <1>5, <1>6, <1>7 DEF RepairStep

LEMMA TypedInit == Init => Typed
  <1> SUFFICES ASSUME Init PROVE Typed
    OBVIOUS
  <1>1. queue \in Seq(Event) /\ Len(queue) <= QueueSize /\ dirtyOrder \in Seq(Threads)
    BY SizeAssumption DEF Init
  <1>2. TypeOK
    BY <1>1 DEF Init, TypeOK
  <1>3. HandsFull
    BY DEF Init, HandsFull, Full
  <1> QED
    BY <1>2, <1>3 DEF Typed

LEMMA TypedStep == Typed /\ [Next]_vars => Typed'
  <1> SUFFICES ASSUME Typed, [Next]_vars PROVE Typed'
    OBVIOUS
  <1>1. ASSUME NEW p \in Pollers, Receive(p) \/ HandlerStep(p) PROVE Typed'
    BY <1>1, ReceiveTyped, PushTyped, EvictTyped, PushAgainTyped, MarkDirtyTyped,
       RequestResyncTyped DEF HandlerStep
  <1>2. ASSUME NEW p \in Pollers, RepairStep(p) PROVE Typed'
    BY <1>2, RepairStepTyped
  <1>3. CASE Handle
    BY <1>3, HandleTyped
  <1>4. CASE Retire
    BY <1>4 DEF Retire, Typed, TypeOK, HandsFull, polling, marks, repairing
  <1>5. CASE UNCHANGED vars
    BY <1>5 DEF vars, Typed, TypeOK, HandsFull, session, polling, marks, repairing
  <1> QED
    BY <1>1, <1>2, <1>3, <1>4, <1>5 DEF Next

LEMMA TypedAlways == Spec => []Typed
  BY TypedInit, TypedStep, PTL DEF Spec

\* Every state of RelayQueue is well typed; the queue never holds more than
\* QueueSize events, though pollers push without a lock (session.go:236-267).
THEOREM TypeCorrect == Spec => []TypeOK
  <1>1. Typed => TypeOK
    BY DEF Typed
  <1> QED
    BY <1>1, TypedAlways, PTL

-----------------------------------------------------------------------------
(* One repair at a time.                                                   *)

Single ==
    /\ \A p, q \in Pollers : repair[p] # "off" /\ repair[q] # "off" => p = q
    /\ resyncing <=> \E p \in Pollers : repair[p] # "off"

\* The compare-and-swap lets a goroutine start only when none runs.
LEMMA RequestSingle ==
    ASSUME Typed, Single, NEW p \in Pollers, RequestResync(p)
    PROVE  Single'
  <1>1. CASE resyncing
    BY <1>1 DEF RequestResync, Single
  <1>2. CASE ~resyncing
    <2>1. /\ repair[p] = "off" /\ repair'[p] = "sync" /\ resyncing' = TRUE
          /\ \A q \in Pollers \ {p} : repair'[q] = repair[q]
      BY <1>2, TurnTyped DEF RequestResync, Typed, RepairStates
    <2>2. \A q \in Pollers : repair[q] = "off"
      BY <1>2 DEF Single
    <2> QED
      BY <2>1, <2>2 DEF Single
  <1> QED
    BY <1>1, <1>2

\* A repair that goes on stays the one that runs; the one that ends clears
\* the flag in the same step.
LEMMA RepairSingle ==
    ASSUME Typed, Single, NEW p \in Pollers, RepairStep(p)
    PROVE  Single'
  <1>1. CASE \E here \in RepairStates \ {"off"}, there \in RepairStates \ {"off"} :
               Turn(p, here, there) /\ UNCHANGED resyncing
    <2>1. /\ repair[p] # "off" /\ repair'[p] # "off" /\ UNCHANGED resyncing
          /\ \A q \in Pollers \ {p} : repair'[q] = repair[q]
      BY <1>1, TurnTyped DEF Typed
    <2> QED
      BY <2>1 DEF Single
  <1>2. CASE RepairFetches(p)
    BY <1>2 DEF RepairFetches, Single
  <1>3. CASE RepairClears(p)
    <2>1. /\ repair[p] = "clear" /\ repair'[p] = "off" /\ resyncing' = FALSE
          /\ \A q \in Pollers \ {p} : repair'[q] = repair[q]
      BY <1>3, TurnTyped DEF RepairClears, Typed, RepairStates
    <2> QED
      BY <2>1 DEF Single
  <1>4. RepairLists(p) \/ RepairSynced(p) \/ TakeDirty(p) \/ RepairRefreshed(p) =>
          \E here \in RepairStates \ {"off"}, there \in RepairStates \ {"off"} :
            Turn(p, here, there) /\ UNCHANGED resyncing
    BY DEF RepairLists, RepairSynced, TakeDirty, RepairRefreshed, RepairStates
  <1> QED
    BY <1>1, <1>2, <1>3, <1>4 DEF RepairStep

LEMMA SingleStep == Typed /\ Single /\ [Next]_vars => Single'
  <1> SUFFICES ASSUME Typed, Single, [Next]_vars PROVE Single'
    OBVIOUS
  <1>1. ASSUME NEW p \in Pollers, RequestResync(p) \/ RepairStep(p) PROVE Single'
    BY <1>1, RequestSingle, RepairSingle
  <1>2. CASE UNCHANGED << repair, resyncing >>
    BY <1>2 DEF Single
  <1>3. ASSUME NEW p \in Pollers,
               Receive(p) \/ Push(p) \/ Evict(p) \/ PushAgain(p) \/ MarkDirty(p)
        PROVE  UNCHANGED << repair, resyncing >>
    BY <1>3 DEF Receive, Push, Evict, PushAgain, MarkDirty, repairing
  <1>4. Handle \/ Retire \/ UNCHANGED vars => UNCHANGED << repair, resyncing >>
    BY DEF Handle, Retire, vars, repairing
  <1> QED
    BY <1>1, <1>2, <1>3, <1>4 DEF Next, HandlerStep

LEMMA SingleIsOne == Single => OneRepair
  <1> SUFFICES ASSUME Single PROVE OneRepair
    OBVIOUS
  <1> DEFINE running == {p \in Pollers : repair[p] # "off"}
  <1>1. resyncing <=> running # {}
    BY DEF Single
  <1>2. Cardinality(running) <= 1
    <2>1. CASE running = {}
      BY <2>1, FS_EmptySet
    <2>2. CASE running # {}
      <3>1. PICK p \in Pollers : running = {p}
        BY <2>2 DEF Single
      <3> HIDE DEF running
      <3>2. Cardinality(running) = 1
        BY <3>1, FS_Singleton
      <3> QED
        BY <3>2
    <2> QED
      BY <2>1, <2>2
  <1> QED
    BY <1>1, <1>2 DEF OneRepair

\* Overflows that come at once never start a second repair, however many
\* pollers see them, and the flag is up exactly while one runs.
THEOREM OneRepairOnly == Spec => []OneRepair
  <1>1. Init => Single
    BY DEF Init, Single
  <1>2. Spec => []Single
    BY <1>1, SingleStep, TypedAlways, PTL DEF Spec
  <1> QED
    BY <1>2, SingleIsOne, PTL

-----------------------------------------------------------------------------
(* The marks and their order.                                              *)

Marks ==
    /\ dirtyConvs = {dirtyOrder[i] : i \in 1 .. Len(dirtyOrder)}
    /\ \A i, j \in 1 .. Len(dirtyOrder) : dirtyOrder[i] = dirtyOrder[j] => i = j
    /\ Len(dirtyOrder) <= MaxDirty

\* A thread that comes to a sequence that does not have it.
LEMMA AppendMark ==
    ASSUME NEW seq \in Seq(Threads), NEW thread \in Threads,
           \A i, j \in 1 .. Len(seq) : seq[i] = seq[j] => i = j,
           thread \notin {seq[i] : i \in 1 .. Len(seq)}
    PROVE  LET longer == Append(seq, thread) IN
           /\ {longer[i] : i \in 1 .. Len(longer)} = {thread} \cup {seq[i] : i \in 1 .. Len(seq)}
           /\ \A i, j \in 1 .. Len(longer) : longer[i] = longer[j] => i = j
           /\ Len(longer) = Len(seq) + 1
  <1> DEFINE longer == Append(seq, thread)
  <1>1. /\ Len(longer) = Len(seq) + 1 /\ longer[Len(seq) + 1] = thread
        /\ \A i \in 1 .. Len(seq) : longer[i] = seq[i]
        /\ Len(seq) \in Nat
    OBVIOUS
  <1> HIDE DEF longer
  <1>2. {longer[i] : i \in 1 .. Len(longer)} = {thread} \cup {seq[i] : i \in 1 .. Len(seq)}
    <2>1. \A i \in 1 .. Len(longer) : i \in 1 .. Len(seq) \/ i = Len(seq) + 1
      BY <1>1
    <2>2. \A i \in 1 .. Len(seq) : i \in 1 .. Len(longer)
      BY <1>1
    <2>3. Len(seq) + 1 \in 1 .. Len(longer)
      BY <1>1
    <2> QED
      BY <1>1, <2>1, <2>2, <2>3
  <1>3. \A i, j \in 1 .. Len(longer) : longer[i] = longer[j] => i = j
    <2> SUFFICES ASSUME NEW i \in 1 .. Len(longer), NEW j \in 1 .. Len(longer),
                        longer[i] = longer[j]
                 PROVE  i = j
      OBVIOUS
    <2>1. CASE i \in 1 .. Len(seq) /\ j \in 1 .. Len(seq)
      BY <1>1, <2>1
    <2>2. CASE i = Len(seq) + 1 \/ j = Len(seq) + 1
      BY <1>1, <2>2
    <2> QED
      BY <1>1, <2>1, <2>2
  <1> QED
    BY <1>1, <1>2, <1>3 DEF longer

\* The oldest mark that goes takes its thread with it, and no other.
LEMMA TailMark ==
    ASSUME NEW seq \in Seq(Threads), Len(seq) > 0,
           \A i, j \in 1 .. Len(seq) : seq[i] = seq[j] => i = j
    PROVE  /\ Tail(seq) \in Seq(Threads) /\ Len(Tail(seq)) = Len(seq) - 1
           /\ {Tail(seq)[i] : i \in 1 .. Len(Tail(seq))} =
                {seq[i] : i \in 1 .. Len(seq)} \ {Head(seq)}
           /\ \A i, j \in 1 .. Len(Tail(seq)) : Tail(seq)[i] = Tail(seq)[j] => i = j
  <1> DEFINE shorter == Tail(seq)
  <1>1. /\ shorter \in Seq(Threads) /\ Len(shorter) = Len(seq) - 1 /\ Head(seq) = seq[1]
        /\ \A i \in 1 .. Len(shorter) : shorter[i] = seq[i + 1] /\ i + 1 \in 1 .. Len(seq)
        /\ Len(seq) \in Nat
    OBVIOUS
  <1> HIDE DEF shorter
  <1>2. {shorter[i] : i \in 1 .. Len(shorter)} = {seq[i] : i \in 1 .. Len(seq)} \ {Head(seq)}
    <2>1. ASSUME NEW i \in 1 .. Len(shorter) PROVE shorter[i] # Head(seq)
      BY <1>1
    <2>2. ASSUME NEW i \in 1 .. Len(seq), seq[i] # Head(seq)
          PROVE  \E j \in 1 .. Len(shorter) : shorter[j] = seq[i]
      <3>1. i - 1 \in 1 .. Len(shorter)
        BY <1>1, <2>2
      <3>2. shorter[i - 1] = seq[(i - 1) + 1] /\ (i - 1) + 1 = i
        BY <1>1, <3>1
      <3> QED
        BY <3>1, <3>2
    <2>3. ASSUME NEW i \in 1 .. Len(shorter)
          PROVE  \E j \in 1 .. Len(seq) : seq[j] = shorter[i]
      BY <1>1
    <2> QED
      BY <2>1, <2>2, <2>3
  <1>3. \A i, j \in 1 .. Len(shorter) : shorter[i] = shorter[j] => i = j
    BY <1>1
  <1> QED
    BY <1>1, <1>2, <1>3 DEF shorter

LEMMA MarkDirtyMarks ==
    ASSUME Typed, Marks, NEW p \in Pollers, MarkDirty(p)
    PROVE  Marks'
  <1> DEFINE thread == held[p].thread
  <1>1. dirtyOrder \in Seq(Threads) /\ MaxDirty \in Nat \ {0} /\ Len(dirtyOrder) \in Nat
    BY SizeAssumption DEF Typed, TypeOK
  <1>2. thread \in Threads \cup {NoThread}
    <2>1. pc[p] = "mark"
      BY DEF MarkDirty, Goto
    <2> QED
      BY <2>1 DEF Typed, HandsFull, Full, Event
  <1>3. CASE thread = NoThread \/ thread \in dirtyConvs
    BY <1>3 DEF MarkDirty, marks, Marks
  <1>4. CASE ~(thread = NoThread \/ thread \in dirtyConvs) /\ Len(dirtyOrder) >= MaxDirty
    <2> DEFINE rest == Tail(dirtyOrder)
    <2>1. /\ dirtyConvs' = {thread} \cup (dirtyConvs \ {Head(dirtyOrder)})
          /\ dirtyOrder' = Append(rest, thread)
      BY <1>4 DEF MarkDirty
    <2>2. Len(dirtyOrder) > 0
      BY <1>1, <1>4
    <2>3. /\ rest \in Seq(Threads)
          /\ Len(rest) = Len(dirtyOrder) - 1
          /\ {rest[i] : i \in 1 .. Len(rest)} = dirtyConvs \ {Head(dirtyOrder)}
          /\ \A i, j \in 1 .. Len(rest) : rest[i] = rest[j] => i = j
      BY <1>1, <2>2, TailMark DEF Marks
    <2> HIDE DEF rest
    <2>4. thread \in Threads /\ thread \notin {rest[i] : i \in 1 .. Len(rest)}
      BY <1>2, <1>4, <2>3
    <2> HIDE DEF thread
    <2>5. /\ {dirtyOrder'[i] : i \in 1 .. Len(dirtyOrder')} =
               {thread} \cup {rest[i] : i \in 1 .. Len(rest)}
          /\ \A i, j \in 1 .. Len(dirtyOrder') : dirtyOrder'[i] = dirtyOrder'[j] => i = j
          /\ Len(dirtyOrder') = Len(rest) + 1
      <3>1. \A i, j \in 1 .. Len(rest) : rest[i] = rest[j] => i = j
        BY <2>3
      <3>2. rest \in Seq(Threads)
        BY <2>3
      <3>3. LET longer == Append(rest, thread) IN
            /\ {longer[i] : i \in 1 .. Len(longer)} =
                 {thread} \cup {rest[i] : i \in 1 .. Len(rest)}
            /\ \A i, j \in 1 .. Len(longer) : longer[i] = longer[j] => i = j
            /\ Len(longer) = Len(rest) + 1
        BY <2>4, <3>1, <3>2, AppendMark
      <3> QED
        BY <2>1, <3>3
    <2>6. Len(dirtyOrder') <= MaxDirty
      BY <1>1, <2>3, <2>5 DEF Marks
    <2>7. dirtyConvs' = {dirtyOrder'[i] : i \in 1 .. Len(dirtyOrder')}
      BY <2>1, <2>3, <2>5
    <2> QED
      BY <2>5, <2>6, <2>7 DEF Marks
  <1>5. CASE ~(thread = NoThread \/ thread \in dirtyConvs) /\ ~(Len(dirtyOrder) >= MaxDirty)
    <2>1. /\ dirtyConvs' = {thread} \cup dirtyConvs
          /\ dirtyOrder' = Append(dirtyOrder, thread)
      BY <1>5 DEF MarkDirty
    <2>2. thread \in Threads /\ thread \notin {dirtyOrder[i] : i \in 1 .. Len(dirtyOrder)}
      BY <1>2, <1>5 DEF Marks
    <2> HIDE DEF thread
    <2>3. /\ {dirtyOrder'[i] : i \in 1 .. Len(dirtyOrder')} =
               {thread} \cup {dirtyOrder[i] : i \in 1 .. Len(dirtyOrder)}
          /\ \A i, j \in 1 .. Len(dirtyOrder') : dirtyOrder'[i] = dirtyOrder'[j] => i = j
          /\ Len(dirtyOrder') = Len(dirtyOrder) + 1
      BY <1>1, <2>1, <2>2, AppendMark DEF Marks
    <2> QED
      BY <1>1, <1>5, <2>1, <2>3 DEF Marks
  <1> QED
    BY <1>3, <1>4, <1>5

LEMMA MarksStep == Typed /\ Marks /\ [Next]_vars => Marks'
  <1> SUFFICES ASSUME Typed, Marks, [Next]_vars PROVE Marks'
    OBVIOUS
  <1>1. ASSUME NEW p \in Pollers, MarkDirty(p) PROVE Marks'
    BY <1>1, MarkDirtyMarks
  <1>2. ASSUME NEW p \in Pollers, TakeDirty(p) PROVE Marks'
    BY <1>2, SizeAssumption DEF TakeDirty, Marks
  <1>3. CASE UNCHANGED marks
    BY <1>3 DEF Marks, marks
  <1>4. ASSUME NEW p \in Pollers,
               \/ Receive(p) \/ Push(p) \/ Evict(p) \/ PushAgain(p) \/ RequestResync(p)
               \/ RepairLists(p) \/ RepairFetches(p) \/ RepairSynced(p)
               \/ RepairRefreshed(p) \/ RepairClears(p)
        PROVE  UNCHANGED marks
    BY <1>4 DEF Receive, Push, Evict, PushAgain, RequestResync, RepairLists, RepairFetches,
                RepairSynced, RepairRefreshed, RepairClears
  <1>5. Handle \/ Retire \/ UNCHANGED vars => UNCHANGED marks
    BY DEF Handle, Retire, vars
  <1> QED
    BY <1>1, <1>2, <1>3, <1>4, <1>5 DEF Next, HandlerStep, RepairStep

LEMMA MarksAreCounted == Typed /\ Marks => MarksAgree
  <1> SUFFICES ASSUME Typed, Marks PROVE MarksAgree
    OBVIOUS
  <1>1. dirtyOrder \in Seq(Threads) /\ Len(dirtyOrder) \in Nat
        /\ DOMAIN dirtyOrder = 1 .. Len(dirtyOrder)
    BY DEF Typed, TypeOK
  <1>2. dirtyOrder \in Bijection(1 .. Len(dirtyOrder), dirtyConvs)
    <2>1. dirtyOrder \in [1 .. Len(dirtyOrder) -> dirtyConvs]
      BY <1>1 DEF Marks
    <2> QED
      BY <1>1, <2>1 DEF Marks, Bijection, Injection, Surjection, IsInjective
  <1>3. Cardinality(dirtyConvs) = Len(dirtyOrder)
    BY <1>1, <1>2, FS_CountingElements DEF ExistsBijection
  <1> QED
    BY <1>1, <1>3 DEF Marks, MarksAgree

\* The set of the marks and their order never come apart, and stay within
\* the limit (session.go markDirty, takeDirty).
THEOREM MarksAgreeAlways == Spec => []MarksAgree
  <1>1. Init => Marks
    BY SizeAssumption DEF Init, Marks
  <1>2. Spec => []Marks
    BY <1>1, MarksStep, TypedAlways, PTL DEF Spec
  <1> QED
    BY <1>2, TypedAlways, MarksAreCounted, PTL

-----------------------------------------------------------------------------
(* The order of what is handled.                                           *)

Waiting == {"push", "evict", "again"}

\* The event at i, against what its poller received and what was handled.
Fresh(i) ==
    LET p == queue[i].from IN
    /\ handled[p] < queue[i].number /\ queue[i].number <= received[p]
    /\ pc[p] \in Waiting => queue[i].number < received[p]

\* A poller that waits to push has received more than was handled of it.
Behind(p) ==
    /\ handled[p] <= received[p]
    /\ pc[p] \in Waiting => handled[p] < received[p]

\* Two events of one poller stand in the order they came.
Ordered(i, j) == i < j /\ queue[i].from = queue[j].from => queue[i].number < queue[j].number

InOrder ==
    /\ \A p \in Pollers : Behind(p)
    /\ \A i \in 1 .. Len(queue) : Fresh(i)
    /\ \A i, j \in 1 .. Len(queue) : Ordered(i, j)

\* What the steps below need of the types, without sequences.
LEMMA QueueFields ==
    ASSUME Typed
    PROVE  /\ Len(queue) \in Nat
           /\ \A i \in 1 .. Len(queue) : /\ queue[i] \in Event
                                          /\ queue[i].from \in Pollers
                                          /\ queue[i].number \in Nat
           /\ \A p \in Pollers : received[p] \in Nat /\ handled[p] \in Nat
  <1>1. queue \in Seq(Event) /\ \A p \in Pollers : received[p] \in Nat /\ handled[p] \in Nat
    BY DEF Typed, TypeOK
  <1>2. Len(queue) \in Nat /\ \A i \in 1 .. Len(queue) : queue[i] \in Event
    BY <1>1
  <1> QED
    BY <1>1, <1>2 DEF Event

\* An event goes into the queue when its poller waits, and the poller then
\* waits no more.
LEMMA AppendInOrder ==
    ASSUME Typed, InOrder, NEW p \in Pollers, pc[p] \in Waiting, pc'[p] \notin Waiting,
           \A q \in Pollers \ {p} : pc'[q] = pc[q],
           Len(queue) < QueueSize, queue' = Append(queue, held[p]),
           UNCHANGED << received, handled >>
    PROVE  InOrder'
  <1>1. held[p] \in Event /\ held[p].from = p /\ held[p].number = received[p]
    BY DEF Typed, HandsFull, Full, Waiting
  <1>2. /\ Len(queue') = Len(queue) + 1
        /\ \A i \in 1 .. Len(queue) : queue'[i] = queue[i]
        /\ queue'[Len(queue) + 1] = held[p]
    BY <1>1, AppendTyped DEF Typed
  <1>3. \A i \in 1 .. Len(queue') : i \in 1 .. Len(queue) \/ i = Len(queue) + 1
    BY <1>2, QueueFields
  <1>4. ASSUME NEW q \in Pollers PROVE Behind(q)'
    <2>1. CASE q = p
      BY <2>1 DEF InOrder, Behind
    <2>2. CASE q # p
      BY <2>2 DEF InOrder, Behind
    <2> QED
      BY <2>1, <2>2
  <1>5. ASSUME NEW i \in 1 .. Len(queue') PROVE Fresh(i)'
    <2>1. CASE i \in 1 .. Len(queue)
      <3>1. Fresh(i) /\ queue'[i] = queue[i] /\ queue[i].from \in Pollers
        BY <1>2, <2>1, QueueFields DEF InOrder
      <3> QED
        BY <3>1 DEF Fresh
    <2>2. CASE i = Len(queue) + 1
      <3>1. handled[p] < received[p] /\ received[p] \in Nat
        BY QueueFields DEF InOrder, Behind
      <3> QED
        BY <1>1, <1>2, <2>2, <3>1 DEF Fresh
    <2> QED
      BY <1>3, <2>1, <2>2
  <1>6. ASSUME NEW i \in 1 .. Len(queue'), NEW j \in 1 .. Len(queue') PROVE Ordered(i, j)'
    <2>1. CASE i \in 1 .. Len(queue) /\ j \in 1 .. Len(queue)
      <3>1. Ordered(i, j) /\ queue'[i] = queue[i] /\ queue'[j] = queue[j]
        BY <1>2, <2>1 DEF InOrder
      <3> QED
        BY <3>1 DEF Ordered
    <2>2. CASE i \in 1 .. Len(queue) /\ j = Len(queue) + 1
      <3>1. Fresh(i) /\ queue'[i] = queue[i]
        BY <1>2, <2>2 DEF InOrder
      <3> QED
        BY <1>1, <1>2, <2>2, <3>1 DEF Ordered, Fresh
    <2>3. CASE i = Len(queue) + 1
      <3>1. ~(i < j)
        BY <1>2, <2>3, QueueFields
      <3> QED
        BY <3>1 DEF Ordered
    <2> QED
      BY <1>3, <2>1, <2>2, <2>3
  <1> QED
    BY <1>4, <1>5, <1>6 DEF InOrder

\* The oldest event goes; only its own poller's count may follow it.
LEMMA TailInOrder ==
    ASSUME Typed, InOrder, queue # << >>, queue' = Tail(queue),
           \A q \in Pollers : pc'[q] \in Waiting => pc[q] \in Waiting,
           UNCHANGED received,
           \/ UNCHANGED handled
           \/ handled' = [handled EXCEPT ![Head(queue).from] = Head(queue).number]
    PROVE  InOrder'
  <1>1. /\ Len(queue) > 0 /\ Head(queue) = queue[1]
        /\ Len(queue') = Len(queue) - 1
        /\ \A i \in 1 .. Len(queue') : queue'[i] = queue[i + 1]
    BY TailTyped DEF Typed
  <1>2. \A i \in 1 .. Len(queue') : i + 1 \in 1 .. Len(queue) /\ 1 < i + 1
    BY <1>1, QueueFields
  <1>3. 1 \in 1 .. Len(queue) /\ Fresh(1)
    BY <1>1, QueueFields DEF InOrder
  <1> DEFINE first == queue[1]
  <1>4. first.from \in Pollers /\ first.number \in Nat
    BY <1>3, QueueFields
  <1>5. \A q \in Pollers : \/ handled'[q] = handled[q]
                           \/ q = first.from /\ handled'[q] = first.number
    BY <1>1, <1>4 DEF Typed, TypeOK
  <1> HIDE DEF first
  <1>6. ASSUME NEW q \in Pollers PROVE Behind(q)'
    <2>1. Behind(q) /\ (q = first.from => /\ first.number <= received[q]
                                          /\ pc[q] \in Waiting => first.number < received[q])
      BY <1>3 DEF InOrder, Fresh, first
    <2> QED
      BY <1>5, <2>1 DEF Behind
  <1>7. ASSUME NEW i \in 1 .. Len(queue') PROVE Fresh(i)'
    <2>1. Fresh(i + 1) /\ queue'[i] = queue[i + 1] /\ queue[i + 1].from \in Pollers
      BY <1>1, <1>2, QueueFields DEF InOrder
    <2>2. queue[i + 1].from = first.from => first.number < queue[i + 1].number
      BY <1>2, <1>3 DEF InOrder, Ordered, first
    <2> QED
      BY <1>5, <2>1, <2>2 DEF Fresh
  <1>8. ASSUME NEW i \in 1 .. Len(queue'), NEW j \in 1 .. Len(queue') PROVE Ordered(i, j)'
    <2>1. Ordered(i + 1, j + 1) /\ queue'[i] = queue[i + 1] /\ queue'[j] = queue[j + 1]
      BY <1>1, <1>2 DEF InOrder
    <2>2. i < j => i + 1 < j + 1
      BY <1>1, QueueFields
    <2> QED
      BY <2>1, <2>2 DEF Ordered
  <1> QED
    BY <1>6, <1>7, <1>8 DEF InOrder

\* A poller that receives the next event waits to push it.
LEMMA ReceiveInOrder ==
    ASSUME Typed, InOrder, NEW p \in Pollers, Receive(p)
    PROVE  InOrder'
  <1>1. UNCHANGED << queue, handled >>
    BY DEF Receive
  <1>2. /\ \A q \in Pollers \ {p} : received'[q] = received[q] /\ pc'[q] = pc[q]
        /\ received'[p] = received[p] + 1
    BY DEF Receive, Goto, Typed, TypeOK
  <1>3. ASSUME NEW q \in Pollers PROVE Behind(q)'
    <2>1. Behind(q) /\ received[q] \in Nat /\ handled[q] \in Nat
      BY QueueFields DEF InOrder
    <2>2. CASE q = p
      BY <1>1, <1>2, <2>1, <2>2 DEF Behind
    <2>3. CASE q # p
      BY <1>1, <1>2, <2>1, <2>3 DEF Behind
    <2> QED
      BY <2>2, <2>3
  <1>4. ASSUME NEW i \in 1 .. Len(queue') PROVE Fresh(i)'
    <2>1. /\ Fresh(i) /\ queue[i].from \in Pollers /\ queue[i].number \in Nat
          /\ received[queue[i].from] \in Nat
      BY <1>1, QueueFields DEF InOrder
    <2>2. CASE queue[i].from = p
      BY <1>1, <1>2, <2>1, <2>2 DEF Fresh
    <2>3. CASE queue[i].from # p
      BY <1>1, <1>2, <2>1, <2>3 DEF Fresh
    <2> QED
      BY <2>2, <2>3
  <1>5. ASSUME NEW i \in 1 .. Len(queue'), NEW j \in 1 .. Len(queue') PROVE Ordered(i, j)'
    BY <1>1 DEF InOrder, Ordered
  <1> QED
    BY <1>3, <1>4, <1>5 DEF InOrder

\* A step that touches neither the queue nor a count, and makes no poller
\* wait.
LEMMA QuietInOrder ==
    ASSUME Typed, InOrder, UNCHANGED << queue, received, handled >>,
           \A q \in Pollers : pc'[q] \in Waiting => pc[q] \in Waiting
    PROVE  InOrder'
  <1>1. \A q \in Pollers : Behind(q)'
    BY DEF InOrder, Behind
  <1>2. ASSUME NEW i \in 1 .. Len(queue') PROVE Fresh(i)'
    <2>1. Fresh(i) /\ queue[i].from \in Pollers
      BY QueueFields DEF InOrder
    <2> QED
      BY <2>1 DEF Fresh
  <1>3. \A i, j \in 1 .. Len(queue') : Ordered(i, j)'
    BY DEF InOrder, Ordered
  <1> QED
    BY <1>1, <1>2, <1>3 DEF InOrder

LEMMA HandlerInOrder ==
    ASSUME Typed, InOrder, NEW p \in Pollers, HandlerStep(p)
    PROVE  InOrder'
  <1>1. CASE Push(p) \/ PushAgain(p)
    <2>1. /\ pc[p] \in Waiting /\ UNCHANGED << received, handled >>
          /\ \A q \in Pollers \ {p} : pc'[q] = pc[q]
      BY <1>1 DEF Push, PushAgain, Goto, Waiting, Typed, TypeOK
    <2>2. CASE Len(queue) < QueueSize
      <3>1. pc'[p] \notin Waiting /\ queue' = Append(queue, held[p])
        BY <1>1, <2>2 DEF Push, PushAgain, Goto, Waiting, Typed, TypeOK
      <3> QED
        BY <2>1, <2>2, <3>1, AppendInOrder
    <2>3. CASE ~(Len(queue) < QueueSize)
      <3>1. UNCHANGED queue
        BY <1>1, <2>3 DEF Push, PushAgain
      <3>2. \A q \in Pollers : pc'[q] \in Waiting => pc[q] \in Waiting
        BY <2>1
      <3> QED
        BY <2>1, <3>1, <3>2, QuietInOrder
    <2> QED
      BY <2>2, <2>3
  <1>2. CASE Evict(p)
    <2>1. /\ UNCHANGED << received, handled >>
          /\ \A q \in Pollers : pc'[q] \in Waiting => pc[q] \in Waiting
      BY <1>2 DEF Evict, Goto, Waiting, Typed, TypeOK
    <2>2. CASE queue = << >>
      BY <1>2, <2>1, <2>2, QuietInOrder DEF Evict
    <2>3. CASE queue # << >>
      BY <1>2, <2>1, <2>3, TailInOrder DEF Evict
    <2> QED
      BY <2>2, <2>3
  <1>3. CASE MarkDirty(p) \/ RequestResync(p)
    <2>1. /\ UNCHANGED << queue, received, handled >>
          /\ \A q \in Pollers : pc'[q] \in Waiting => pc[q] \in Waiting
      BY <1>3 DEF MarkDirty, RequestResync, Goto, Waiting, Typed, TypeOK
    <2> QED
      BY <2>1, QuietInOrder
  <1> QED
    BY <1>1, <1>2, <1>3 DEF HandlerStep

LEMMA HandleInOrder ==
    ASSUME Typed, InOrder, Handle
    PROVE  InOrder' /\ \A p \in Pollers : handled'[p] >= handled[p]
  <1>1. /\ queue # << >> /\ queue' = Tail(queue) /\ UNCHANGED << received, pc >>
        /\ \/ UNCHANGED handled
           \/ handled' = [handled EXCEPT ![Head(queue).from] = Head(queue).number]
    BY DEF Handle, polling
  <1>2. InOrder'
    BY <1>1, TailInOrder
  <1>3. Len(queue) > 0 /\ Head(queue) = queue[1] /\ Len(queue) \in Nat
    BY <1>1, TailTyped, QueueFields DEF Typed
  <1>4. handled[Head(queue).from] < Head(queue).number /\ Head(queue).from \in Pollers
    BY <1>3, QueueFields DEF InOrder, Fresh
  <1>5. \A p \in Pollers : handled'[p] >= handled[p]
    <2>1. \A p \in Pollers :
            handled'[p] = handled[p] \/ (p = Head(queue).from /\ handled'[p] = Head(queue).number)
      BY <1>1, <1>4 DEF Typed, TypeOK
    <2>2. Head(queue).number \in Nat
      BY <1>3, QueueFields
    <2> QED
      BY <1>4, <2>1, <2>2, QueueFields
  <1> QED
    BY <1>2, <1>5

LEMMA InOrderStep ==
    ASSUME Typed, InOrder, [Next]_vars
    PROVE  InOrder' /\ \A p \in Pollers : handled'[p] >= handled[p]
  <1>1. CASE Handle
    BY <1>1, HandleInOrder
  <1>2. CASE UNCHANGED handled /\ InOrder'
    BY <1>2, QueueFields
  <1>3. ASSUME NEW p \in Pollers, Receive(p) PROVE UNCHANGED handled /\ InOrder'
    BY <1>3, ReceiveInOrder DEF Receive
  <1>4. ASSUME NEW p \in Pollers, HandlerStep(p) PROVE UNCHANGED handled /\ InOrder'
    BY <1>4, HandlerInOrder
       DEF HandlerStep, Push, Evict, PushAgain, MarkDirty, RequestResync
  <1>5. ASSUME UNCHANGED << queue, polling, handled >> PROVE UNCHANGED handled /\ InOrder'
    BY <1>5, QuietInOrder DEF polling
  <1>6. ASSUME NEW p \in Pollers, RepairStep(p) PROVE UNCHANGED << queue, polling, handled >>
    BY <1>6 DEF RepairStep, RepairLists, RepairFetches, RepairSynced, TakeDirty,
                RepairRefreshed, RepairClears
  <1>7. Retire \/ UNCHANGED vars => UNCHANGED << queue, polling, handled >>
    BY DEF Retire, vars, polling
  <1> QED
    BY <1>1, <1>2, <1>3, <1>4, <1>5, <1>6, <1>7 DEF Next

\* What one poller received is never handled out of order, though pollers
\* push and evict at once and the loop takes from the other end.
THEOREM InOrderHandling == Spec => HandledInOrder
  <1>1. Init => InOrder
    BY DEF Init, InOrder, Behind, Waiting
  <1>2. Spec => []InOrder
    BY <1>1, InOrderStep, TypedAlways, PTL DEF Spec
  <1>3. Typed /\ InOrder /\ [Next]_vars => [\A p \in Pollers : handled'[p] >= handled[p]]_vars
    BY InOrderStep
  <1> QED
    BY <1>2, <1>3, TypedAlways, PTL DEF Spec, HandledInOrder
=============================================================================
