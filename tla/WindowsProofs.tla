--------------------------- MODULE WindowsProofs ---------------------------
(***************************************************************************)
(* Proofs about the messages of a thread: what a full window costs the     *)
(* daemon, and that pages of history leave no gaps, for any number of      *)
(* goroutines, messages and logins.                                        *)
(***************************************************************************)
EXTENDS Windows, TLAPS, FiniteSetTheorems, SequenceTheorems

\* What the event loop holds has come, and its removals are of deleted messages.
LoopReal ==
    /\ \A i \in DOMAIN queue : queue[i].message \in 1 .. arrived
    /\ \A i \in DOMAIN queue : queue[i].removal => queue[i].message \in deleted
    /\ mapping # NotMapping => mapping.message \in 1 .. arrived

Shown == Start <= arrived /\ has \cap Blank = {}

Real(w) ==
    /\ w.lc <= lifecycle
    /\ w.left \subseteq 1 .. arrived /\ w.out \subseteq 1 .. arrived \ Blank
    /\ w.gone \subseteq deleted
    /\ w.kind = "full" => w.before = None

Staged(w, at) ==
    /\ at = "idle" => w = NoWork
    /\ at = "fetch" => w.out = {} /\ w.left = {} /\ w.cursor = None
    /\ at \in {"map", "emit"} => Start <= w.seen
    /\ at = "emit" => w.left \subseteq w.out
    /\ w.held # None => at = "map" /\ w.held \in w.left

Spans(w, m) == m <= w.seen /\ (w.before = None \/ m < w.before)

Whole(w) == \A m \in Messages, n \in (w.out \cup w.left \cup {w.cursor}) \ {None} :
    Spans(w, m) /\ n <= m => m \in w.out \cup w.left \cup w.gone \cup Blank

Pages(w, at) ==
    /\ at = "map" /\ Current(w.lc) => Whole(w)
    /\ at = "emit" => Whole(w)

Placed(w, at) == Real(w) /\ Staged(w, at) /\ Pages(w, at)

\* What typing and the first theorem rest on.
Inv1 == TypeOK /\ LoopReal /\ Shown /\ \A p \in Workers : Placed(work[p], pc[p])

-----------------------------------------------------------------------------
(* Operators.                                                              *)

LEMMA WorkFields ==
    ASSUME NEW w \in Work
    PROVE  /\ w.kind \in {"full", "open", "history"} /\ w.lc \in Nat
           /\ w.before \in 0 .. M /\ w.seen \in 0 .. M /\ w.cursor \in 0 .. M
           /\ w.gone \subseteq 1 .. M /\ w.left \subseteq 1 .. M /\ w.out \subseteq 1 .. M
           /\ w.held \in Messages \cup {None}
  BY WindowsAssumption DEF Work, Messages, None

LEMMA NoWorkTyped == NoWork \in Work
  BY DEF NoWork, Work, None

\* The edits of the steps by name.
Begun(kind, lc, before) == [NoWork EXCEPT !.kind = kind, !.lc = lc, !.before = before]
Shows(kind, lc) == [NoWork EXCEPT !.kind = kind, !.lc = lc]
Fetched(w, seen, gone, cursor, left) ==
    [w EXCEPT !.seen = seen, !.gone = gone, !.cursor = cursor, !.left = left]
Taken(w, left) == [w EXCEPT !.left = left]
Holds(w, m) == [w EXCEPT !.held = m]
Keeps(w, left, out) == [w EXCEPT !.held = None, !.left = left, !.out = out]
Paged(w, left, cursor) == [w EXCEPT !.left = left, !.cursor = cursor]

Kinds == {"full", "open", "history"}
MaybeNone == Messages \cup {None}

LEMMA MessagesOrNone == MaybeNone = 0 .. M
  BY WindowsAssumption DEF MaybeNone, Messages, None

LEMMA BegunTyped ==
    ASSUME NEW kind \in Kinds, NEW lc \in Nat, NEW before \in MaybeNone
    PROVE  LET new == Begun(kind, lc, before) IN
           /\ new \in Work /\ new.kind = kind /\ new.lc = lc /\ new.before = before
           /\ new.cursor = None /\ new.gone = {} /\ new.left = {} /\ new.held = None
           /\ new.out = {}
  BY DEF Begun, Work, NoWork, Kinds, MaybeNone

LEMMA ShowsTyped ==
    ASSUME NEW kind \in Kinds, NEW lc \in Nat
    PROVE  LET new == Shows(kind, lc) IN
           /\ new \in Work /\ new.kind = kind /\ new.lc = lc /\ new.before = None
           /\ new.cursor = None /\ new.gone = {} /\ new.left = {} /\ new.held = None
           /\ new.out = {}
  BY DEF Shows, Work, NoWork, Kinds

LEMMA FetchedTyped ==
    ASSUME NEW w \in Work, NEW seen \in MaybeNone, NEW cursor \in MaybeNone,
           NEW gone \in SUBSET Messages, NEW left \in SUBSET Messages
    PROVE  LET new == Fetched(w, seen, gone, cursor, left) IN
           /\ new \in Work /\ new.kind = w.kind /\ new.lc = w.lc /\ new.before = w.before
           /\ new.seen = seen /\ new.cursor = cursor /\ new.gone = gone
           /\ new.left = left /\ new.held = w.held /\ new.out = w.out
  BY DEF Fetched, Work, MaybeNone

LEMMA TakenTyped ==
    ASSUME NEW w \in Work, NEW left \in SUBSET Messages
    PROVE  LET new == Taken(w, left) IN
           /\ new \in Work /\ new.kind = w.kind /\ new.lc = w.lc /\ new.before = w.before
           /\ new.seen = w.seen /\ new.cursor = w.cursor /\ new.gone = w.gone
           /\ new.left = left /\ new.held = w.held /\ new.out = w.out
  BY DEF Taken, Work

LEMMA HoldsTyped ==
    ASSUME NEW w \in Work, NEW m \in Messages
    PROVE  LET new == Holds(w, m) IN
           /\ new \in Work /\ new.kind = w.kind /\ new.lc = w.lc /\ new.before = w.before
           /\ new.seen = w.seen /\ new.cursor = w.cursor /\ new.gone = w.gone
           /\ new.left = w.left /\ new.held = m /\ new.out = w.out
  BY DEF Holds, Work

LEMMA KeepsTyped ==
    ASSUME NEW w \in Work, NEW left \in SUBSET Messages, NEW out \in SUBSET Messages
    PROVE  LET new == Keeps(w, left, out) IN
           /\ new \in Work /\ new.kind = w.kind /\ new.lc = w.lc /\ new.before = w.before
           /\ new.seen = w.seen /\ new.cursor = w.cursor /\ new.gone = w.gone
           /\ new.left = left /\ new.held = None /\ new.out = out
  BY DEF Keeps, Work

LEMMA PagedTyped ==
    ASSUME NEW w \in Work, NEW left \in SUBSET Messages, NEW cursor \in MaybeNone
    PROVE  LET new == Paged(w, left, cursor) IN
           /\ new \in Work /\ new.kind = w.kind /\ new.lc = w.lc /\ new.before = w.before
           /\ new.seen = w.seen /\ new.cursor = cursor /\ new.gone = w.gone
           /\ new.left = left /\ new.held = w.held /\ new.out = w.out
  BY DEF Paged, Work, MaybeNone

\* A page holds every message between its oldest and the cursor.
LEMMA PageWhole ==
    ASSUME arrived \in 0 .. M, NEW cursor \in 0 .. M,
           NEW n \in Page(cursor), NEW m \in Before(cursor),
           n <= m
    PROVE  m \in Page(cursor)
  <1> DEFINE Newer(k) == {o \in Before(cursor) : o > k}
  <1>1. n \in Before(cursor) /\ Cardinality(Newer(n)) < Window
    BY DEF Page
  <1>2. Before(cursor) \subseteq 1 .. arrived
    BY DEF Before
  <1>3. IsFiniteSet(1 .. arrived)
    BY FS_Interval, WindowsAssumption
  <1>4. IsFiniteSet(Newer(n)) /\ IsFiniteSet(Newer(m))
    BY <1>2, <1>3, FS_Subset
  <1>5. Newer(m) \subseteq Newer(n)
    BY <1>1, <1>2, WindowsAssumption
  <1>6. Cardinality(Newer(m)) <= Cardinality(Newer(n))
    BY <1>4, <1>5, FS_Subset
  <1>7. Cardinality(Newer(m)) < Window
    BY <1>1, <1>4, <1>6, FS_CardinalityType, WindowsAssumption
  <1> QED
    BY <1>7 DEF Page

LEMMA PageReal ==
    ASSUME NEW cursor \in 0 .. M
    PROVE  Page(cursor) \subseteq 1 .. arrived
  BY DEF Page, Before

\* The oldest of a set of messages, if it has any.
LEMMA OldestIn ==
    ASSUME NEW messages, NEW m \in Oldest(messages)
    PROVE  m \in messages /\ \A n \in messages : m <= n
  BY DEF Oldest

LEMMA RememberTyped ==
    ASSUME cache \in Seq(Messages), Len(cache) <= CachePer, NEW m \in Messages, Remember(m)
    PROVE  cache' \in Seq(Messages) /\ Len(cache') <= CachePer
  <1>1. CASE Known(m)
    BY <1>1 DEF Remember
  <1>2. CASE ~Known(m) /\ Len(cache) < CachePer
    BY <1>2, WindowsAssumption DEF Remember
  <1>3. CASE ~Known(m) /\ Len(cache) >= CachePer
    <2>1. cache' = Append(Tail(cache), m) /\ Len(cache) = CachePer /\ cache # << >>
      BY <1>3, WindowsAssumption DEF Remember
    <2>2. Tail(cache) \in Seq(Messages) /\ Len(Tail(cache)) = Len(cache) - 1
      BY <2>1
    <2> QED
      BY <2>1, <2>2, WindowsAssumption
  <1> QED
    BY <1>1, <1>2, <1>3, WindowsAssumption

-----------------------------------------------------------------------------
(* Steps.                                                                  *)

PcStates == {"idle", "fetch", "map", "emit"}

\* What no step takes back.
Grows ==
    /\ lifecycle <= lifecycle' /\ arrived <= arrived' /\ deleted \subseteq deleted'
    /\ closed => closed'

\* A step of one worker.
Moves(p, to, new) ==
    pc' = [pc EXCEPT ![p] = to] /\ work' = [work EXCEPT ![p] = new]

LEMMA PlacedKept ==
    ASSUME TypeOK, lifecycle' \in Nat, arrived' \in 0 .. M, Grows,
           NEW w \in Work, NEW at, Placed(w, at)
    PROVE  Placed(w, at)'
  <1>1. Real(w)'
    BY WorkFields, WindowsAssumption DEF Placed, Real, Grows, TypeOK
  <1>2. Current(w.lc)' => Current(w.lc)
    BY WorkFields DEF Placed, Real, Grows, TypeOK, Current
  <1> QED
    BY <1>1, <1>2 DEF Placed, Staged, Pages, Whole, Spans

LEMMA WorkersKept ==
    ASSUME Inv1, lifecycle' \in Nat, arrived' \in 0 .. M, Grows,
           NEW p \in Workers, NEW to \in PcStates, NEW new \in Work,
           Moves(p, to, new), Placed(new, to)'
    PROVE  /\ pc' \in [Workers -> PcStates] /\ work' \in [Workers -> Work]
           /\ \A q \in Workers : Placed(work[q], pc[q])'
  <1>1. pc \in [Workers -> PcStates] /\ work \in [Workers -> Work]
    BY DEF Inv1, TypeOK, PcStates
  <1>2. pc' \in [Workers -> PcStates] /\ work' \in [Workers -> Work]
    BY <1>1 DEF Moves
  <1>3. ASSUME NEW q \in Workers PROVE Placed(work[q], pc[q])'
    <2>1. CASE q = p
      <3>1. work'[q] = new /\ pc'[q] = to
        BY <1>1, <2>1 DEF Moves
      <3> QED
        BY <3>1 DEF Placed, Real, Staged, Pages, Whole, Spans
    <2>2. CASE q # p
      <3>1. work'[q] = work[q] /\ pc'[q] = pc[q]
        BY <1>1, <2>2 DEF Moves
      <3>2. work[q] \in Work /\ Placed(work[q], pc[q])
        BY <1>1 DEF Inv1
      <3>3. Real(work[q])'
        BY <3>1, <3>2, WorkFields, WindowsAssumption DEF Placed, Real, Grows, TypeOK, Inv1
      <3>4. lifecycle = work'[q].lc \/ lifecycle' # work'[q].lc
        BY <3>1, <3>2, WorkFields DEF Placed, Real, Grows, TypeOK, Inv1
      <3> QED
        BY <3>1, <3>2, <3>3, <3>4 DEF Placed, Staged, Pages, Whole, Spans, Current
    <2> QED
      BY <2>1, <2>2
  <1> QED
    BY <1>2, <1>3

LEMMA WorkerStep ==
    ASSUME Inv1, NEW p \in Workers, NEW to \in PcStates, NEW new \in Work,
           Moves(p, to, new), Placed(new, to)', UNCHANGED << session, phone, loop >>,
           cache' \in Seq(Messages), Len(cache') <= CachePer, fetches' \in Nat,
           has' \subseteq 1 .. arrived \ Blank, reached' \in Messages \cup {None}
    PROVE  Inv1'
  <1>1. Grows /\ lifecycle' \in Nat /\ arrived' \in 0 .. M
    BY WindowsAssumption DEF Grows, session, phone, Inv1, TypeOK
  <1>2. /\ pc' \in [Workers -> PcStates] /\ work' \in [Workers -> Work]
        /\ \A q \in Workers : Placed(work[q], pc[q])'
    BY <1>1, WorkersKept
  <1>3. TypeOK'
    BY <1>2 DEF Inv1, TypeOK, session, phone, loop, PcStates
  <1>4. LoopReal'
    BY DEF Inv1, LoopReal, phone, loop
  <1>5. Shown'
    BY DEF Inv1, Shown, phone
  <1> QED
    BY <1>2, <1>3, <1>4, <1>5 DEF Inv1

LEMMA BeginStep ==
    ASSUME Inv1, NEW p \in Workers, WindowBegin(p) \/ HistoryBegin(p)
    PROVE  Inv1'
  <1>1. lifecycle \in Nat /\ reached \in MaybeNone /\ has \subseteq Messages
    BY WindowsAssumption DEF Inv1, TypeOK, MaybeNone, Messages
  <1>2. PICK new \in Work :
          /\ Moves(p, "fetch", new) /\ new.lc = lifecycle
          /\ new.kind = "full" => new.before = None
          /\ new.cursor = None /\ new.gone = {} /\ new.left = {} /\ new.held = None
          /\ new.out = {}
    <2>1. CASE WindowBegin(p)
      <3>1. PICK kind \in {"full", "open"} : Moves(p, "fetch", Shows(kind, lifecycle))
        BY <2>1 DEF WindowBegin, Goto, Moves, Shows
      <3> QED
        BY <1>1, <3>1, ShowsTyped DEF Kinds
    <2>2. CASE HistoryBegin(p)
      <3>1. PICK before \in MaybeNone : Moves(p, "fetch", Begun("history", lifecycle, before))
        BY <1>1, <2>2 DEF HistoryBegin, Goto, Oldest, MaybeNone, Moves, Begun
      <3> QED
        BY <1>1, <3>1, BegunTyped DEF Kinds
    <2> QED
      BY <2>1, <2>2
  <1>3. UNCHANGED << session, cache, phone, loop, daemon >>
    BY DEF WindowBegin, HistoryBegin
  <1>4. fetches' \in Nat
    <2>1. fetches' = fetches + 1
      BY DEF WindowBegin, HistoryBegin
    <2> QED
      BY <2>1 DEF Inv1, TypeOK
  <1>5. Placed(new, "fetch")'
    BY <1>1, <1>2, <1>3 DEF Placed, Real, Staged, Pages, session
  <1>6. /\ cache' \in Seq(Messages) /\ Len(cache') <= CachePer
        /\ has' \subseteq 1 .. arrived \ Blank /\ reached' \in Messages \cup {None}
    BY <1>3 DEF Inv1, TypeOK, Shown, daemon
  <1> QED
    BY <1>2, <1>3, <1>4, <1>5, <1>6, WorkerStep DEF PcStates

LEMMA RestStep ==
    ASSUME Inv1, NEW p \in Workers, WindowFails(p) \/ WindowDrop(p)
    PROVE  Inv1'
  <1>1. Moves(p, "idle", NoWork)
    BY DEF WindowFails, WindowDrop, Rests, Moves
  <1>2. Placed(NoWork, "idle")'
    BY DEF Inv1, TypeOK, Placed, Real, Staged, Pages, NoWork, WindowFails, WindowDrop, session
  <1>3. UNCHANGED << session, cache, phone, loop, fetches, daemon >>
    BY DEF WindowFails, WindowDrop
  <1> QED
    BY <1>1, <1>2, <1>3, NoWorkTyped, WorkerStep DEF Inv1, TypeOK, Shown, daemon, PcStates

LEMMA FetchStep ==
    ASSUME Inv1, NEW p \in Workers, WindowFetch(p)
    PROVE  Inv1'
  <1> DEFINE page == Page(work[p].before)
  <1>1. work[p] \in Work /\ Placed(work[p], "fetch") /\ arrived \in 0 .. M
    BY DEF WindowFetch, Goto, Inv1, TypeOK
  <1>2. PICK cursor \in {None} \cup Oldest(page) :
          Moves(p, "map", Fetched(work[p], arrived, deleted \cap page, cursor, page))
    BY DEF WindowFetch, Cursors, Goto, Moves, Fetched, Inv1, TypeOK
  <1>3. page \subseteq 1 .. arrived
    BY <1>1, PageReal, WorkFields
  <1>4. /\ page \subseteq Messages /\ cursor \in MaybeNone /\ arrived \in MaybeNone
        /\ deleted \cap page \subseteq Messages
    BY <1>1, <1>3, MessagesOrNone, WindowsAssumption DEF Messages, MaybeNone, Oldest
  <1>5. PICK new \in Work :
        /\ Moves(p, "map", new) /\ new.kind = work[p].kind /\ new.lc = work[p].lc
        /\ new.before = work[p].before /\ new.seen = arrived /\ new.cursor = cursor
        /\ new.gone = deleted \cap page /\ new.left = page /\ new.out = work[p].out
        /\ new.held = work[p].held
    BY <1>1, <1>2, <1>4, FetchedTyped
  <1>6. UNCHANGED << session, cache, phone, loop, fetches, daemon >>
    BY DEF WindowFetch
  <1>7. Real(new)
    BY <1>1, <1>3, <1>5 DEF Placed, Real, Staged
  <1>8. Staged(new, "map")
    BY <1>1, <1>5 DEF Placed, Staged, Inv1, Shown
  <1>9. Whole(new)
    <2> SUFFICES ASSUME NEW m \in Messages, NEW n \in page, Spans(new, m), n <= m
                 PROVE  m \in page
      BY <1>1, <1>5 DEF Whole, Placed, Staged, Oldest
    <2>1. m \in Before(work[p].before)
      BY <1>5 DEF Spans, Before, Messages
    <2> QED
      BY <1>1, <2>1, PageWhole, WorkFields
  <1>10. Placed(new, "map")'
    BY <1>6, <1>7, <1>8, <1>9
    DEF Placed, Real, Pages, Staged, Whole, Spans, session, phone
  <1> QED
    BY <1>5, <1>6, <1>10, WorkerStep DEF Inv1, TypeOK, Shown, daemon, PcStates

LEMMA MapStep ==
    ASSUME Inv1, NEW p \in Workers, WindowMap(p)
    PROVE  Inv1'
  <1>1. /\ work[p] \in Work /\ Placed(work[p], "map") /\ arrived \in 0 .. M
        /\ pc[p] = "map" /\ cache \in Seq(Messages) /\ Len(cache) <= CachePer
        /\ has \subseteq 1 .. arrived \ Blank /\ reached \in Messages \cup {None}
        /\ work[p].held = None
    BY DEF WindowMap, Inv1, TypeOK, Shown
  <1>2. PICK m \in Oldest(work[p].left) :
          LET removed == Current(work[p].lc) /\ m \in work[p].gone
              remembered == Current(work[p].lc) /\ m \notin work[p].gone \cup Tombstones IN
          /\ work' = [work EXCEPT ![p] = IF remembered THEN [work[p] EXCEPT !.held = m]
                                         ELSE [work[p] EXCEPT !.left = @ \ {m}]]
          /\ has' = IF removed /\ ~closed THEN has \ {m} ELSE has
          /\ IF remembered THEN Remember(m) ELSE UNCHANGED cache
    BY DEF WindowMap
  <1>3. m \in work[p].left /\ m \in Messages /\ m \in 1 .. arrived
    BY <1>1, <1>2, OldestIn, WorkFields DEF Placed, Real, Messages
  <1>4. work[p].left \ {m} \subseteq Messages
    BY <1>1 DEF Work
  <1>5. pc' = [pc EXCEPT ![p] = "map"]
    BY <1>1 DEF WindowMap, Inv1, TypeOK
  <1>6. UNCHANGED << session, phone, loop, fetches, reached >>
    BY DEF WindowMap, loop
  <1>7. \E new \in Work : Moves(p, "map", new) /\ Real(new) /\ Staged(new, "map")
                          /\ Pages(new, "map")
    <2>1. CASE Current(work[p].lc) /\ m \notin work[p].gone \cup Tombstones
      <3>1. work' = [work EXCEPT ![p] = Holds(work[p], m)]
        BY <1>2, <2>1 DEF Holds, Inv1, TypeOK
      <3>2. PICK new \in Work :
              /\ Moves(p, "map", new) /\ new.kind = work[p].kind /\ new.lc = work[p].lc
              /\ new.before = work[p].before /\ new.seen = work[p].seen
              /\ new.cursor = work[p].cursor /\ new.gone = work[p].gone
              /\ new.left = work[p].left /\ new.held = m /\ new.out = work[p].out
        BY <1>1, <1>3, <1>5, <3>1, HoldsTyped DEF Moves
      <3>3. Real(new)
        BY <1>1, <3>2 DEF Placed, Real
      <3>4. Staged(new, "map")
        BY <1>1, <1>3, <3>2 DEF Placed, Staged
      <3>5. Pages(new, "map")
        BY <1>1, <3>2 DEF Placed, Pages, Whole, Spans
      <3> QED
        BY <3>2, <3>3, <3>4, <3>5
    <2>2. CASE ~(Current(work[p].lc) /\ m \notin work[p].gone \cup Tombstones)
      <3>1. work' = [work EXCEPT ![p] = Taken(work[p], work[p].left \ {m})]
        <4>1. work' = [work EXCEPT ![p] = [work[p] EXCEPT !.left = @ \ {m}]]
          BY <1>2, <2>2 DEF Inv1, TypeOK
        <4>2. [work[p] EXCEPT !.left = @ \ {m}] = Taken(work[p], work[p].left \ {m})
          BY <1>1 DEF Taken, Work
        <4> QED
          BY <4>1, <4>2
      <3>2. PICK new \in Work :
              /\ Moves(p, "map", new) /\ new.kind = work[p].kind /\ new.lc = work[p].lc
              /\ new.before = work[p].before /\ new.seen = work[p].seen
              /\ new.cursor = work[p].cursor /\ new.gone = work[p].gone
              /\ new.left = work[p].left \ {m} /\ new.held = work[p].held
              /\ new.out = work[p].out
        BY <1>1, <1>4, <1>5, <3>1, TakenTyped DEF Moves
      <3>3. Real(new)
        BY <1>1, <3>2 DEF Placed, Real
      <3>4. Staged(new, "map")
        BY <1>1, <3>2 DEF Placed, Staged
      <3>5. Current(work[p].lc) => m \in work[p].gone \cup Blank
        BY <2>2, WindowsAssumption
      <3>6. Pages(new, "map")
        BY <1>1, <3>2, <3>5 DEF Placed, Pages, Whole, Spans
      <3> QED
        BY <3>2, <3>3, <3>4, <3>6
    <2> QED
      BY <2>1, <2>2
  <1>8. PICK new \in Work :
          Moves(p, "map", new) /\ Real(new) /\ Staged(new, "map") /\ Pages(new, "map")
    BY <1>7
  <1>9. Placed(new, "map")'
    BY <1>6, <1>8
    DEF Placed, Real, Pages, Staged, Whole, Spans, Current, session, phone
  <1>10. cache' \in Seq(Messages) /\ Len(cache') <= CachePer
    BY <1>1, <1>2, <1>3, RememberTyped
  <1>11. has' \subseteq has
    BY <1>2
  <1> QED
    BY <1>1, <1>6, <1>8, <1>9, <1>10, <1>11, WorkerStep DEF PcStates, Inv1, TypeOK

LEMMA KeepStep ==
    ASSUME Inv1, NEW p \in Workers, WindowKeep(p)
    PROVE  Inv1'
  <1>1. /\ work[p] \in Work /\ Placed(work[p], "map") /\ pc[p] = "map"
    BY DEF WindowKeep, Inv1, TypeOK
  <1>2. PICK m \in work[p].left : m = work[p].held
    BY <1>1 DEF WindowKeep, Placed, Staged
  <1>3. m \in Messages /\ m \in 1 .. arrived
    BY <1>1, <1>2, WorkFields DEF Placed, Real, Messages
  <1> DEFINE left == work[p].left \ {m}
             kept == IF Current(work[p].lc) /\ m \notin Blank THEN {m} ELSE {}
             out == work[p].out \cup kept
  <1>4. work' = [work EXCEPT ![p] = Keeps(work[p], left, out)]
    <2>1. work' = [work EXCEPT ![p] = [work[p] EXCEPT !.held = None, !.left = @ \ {m},
                                                      !.out = @ \cup kept]]
      BY <1>2 DEF WindowKeep, Inv1, TypeOK
    <2>2. [work[p] EXCEPT !.held = None, !.left = @ \ {m}, !.out = @ \cup kept]
            = Keeps(work[p], left, out)
      BY <1>1 DEF Keeps, Work
    <2> QED
      BY <2>1, <2>2
  <1>5. left \subseteq Messages /\ out \subseteq Messages
    BY <1>1, <1>3 DEF Work
  <1>6. pc' = [pc EXCEPT ![p] = "map"]
    BY <1>1 DEF WindowKeep, Inv1, TypeOK
  <1> HIDE DEF left, out
  <1>7. PICK new \in Work :
          /\ Moves(p, "map", new) /\ new.kind = work[p].kind /\ new.lc = work[p].lc
          /\ new.before = work[p].before /\ new.seen = work[p].seen
          /\ new.cursor = work[p].cursor /\ new.gone = work[p].gone
          /\ new.left = left /\ new.held = None /\ new.out = out
    <2> DEFINE new == Keeps(work[p], left, out)
    <2>1. /\ new \in Work /\ new.kind = work[p].kind /\ new.lc = work[p].lc
          /\ new.before = work[p].before /\ new.seen = work[p].seen
          /\ new.cursor = work[p].cursor /\ new.gone = work[p].gone
          /\ new.left = left /\ new.held = None /\ new.out = out
      BY <1>1, <1>5, KeepsTyped
    <2>2. Moves(p, "map", new)
      BY <1>4, <1>6 DEF Moves
    <2> HIDE DEF new
    <2> QED
      BY <2>1, <2>2
  <1>8. UNCHANGED << session, cache, phone, loop, fetches, daemon >>
    BY DEF WindowKeep
  <1>9. Real(new)
    BY <1>1, <1>3, <1>7 DEF Placed, Real, left, out
  <1>10. Staged(new, "map")
    BY <1>1, <1>7 DEF Placed, Staged
  <1>11. Pages(new, "map")
    <2>1. Current(work[p].lc) =>
            /\ out \cup left \subseteq work[p].out \cup work[p].left
            /\ work[p].out \cup work[p].left \cup work[p].gone \cup Blank
               = out \cup left \cup work[p].gone \cup Blank
      BY <1>2 DEF left, out
    <2> QED
      BY <1>1, <1>7, <2>1 DEF Placed, Pages, Whole, Spans
  <1>12. Placed(new, "map")'
    BY <1>8, <1>9, <1>10, <1>11
    DEF Placed, Real, Pages, Staged, Whole, Spans, Current, session, phone
  <1> QED
    BY <1>7, <1>8, <1>12, WorkerStep DEF Inv1, TypeOK, Shown, daemon, PcStates

LEMMA MappedStep ==
    ASSUME Inv1, NEW p \in Workers, WindowMapped(p)
    PROVE  Inv1'
  <1>1. /\ work[p] \in Work /\ Placed(work[p], "map") /\ work[p].left = {}
        /\ Current(work[p].lc)
    BY DEF WindowMapped, Mapped, Goto, Inv1, TypeOK
  <1>2. PICK cursor \in CursorNext(work[p]) :
          Moves(p, "emit", Paged(work[p], work[p].out, cursor))
    BY DEF WindowMapped, Goto, Moves, Paged, Inv1, TypeOK
  <1>3. cursor \in {None, work[p].cursor} \cup work[p].out
    BY <1>2 DEF CursorNext, Oldest
  <1>4. work[p].out \subseteq Messages /\ cursor \in MaybeNone
    BY <1>1, <1>3, WorkFields, MessagesOrNone DEF Messages, MaybeNone, None
  <1>5. PICK new \in Work :
          /\ Moves(p, "emit", new) /\ new.kind = work[p].kind /\ new.lc = work[p].lc
          /\ new.before = work[p].before /\ new.seen = work[p].seen /\ new.cursor = cursor
          /\ new.gone = work[p].gone /\ new.left = work[p].out /\ new.out = work[p].out
          /\ new.held = work[p].held
    BY <1>1, <1>2, <1>4, PagedTyped
  <1>6. UNCHANGED << session, cache, phone, loop, fetches, daemon >>
    BY DEF WindowMapped
  <1>7. Real(new) /\ Staged(new, "emit")
    BY <1>1, <1>5 DEF Placed, Real, Staged
  <1>8. Whole(new)
    BY <1>1, <1>3, <1>5 DEF Placed, Pages, Whole, Spans
  <1>9. Placed(new, "emit")'
    BY <1>6, <1>7, <1>8 DEF Placed, Real, Pages, Staged, Whole, Spans, session, phone
  <1> QED
    BY <1>5, <1>6, <1>9, WorkerStep DEF Inv1, TypeOK, Shown, daemon, PcStates

\* What a chunk changes.
LEMMA EmitParts ==
    ASSUME Inv1, NEW p \in Workers, WindowEmit(p)
    PROVE  /\ pc[p] = "emit" /\ work[p] \in Work /\ Placed(work[p], "emit")
           /\ UNCHANGED << session, cache, phone, loop, fetches >>
           /\ has' \subseteq has \cup work[p].out
           /\ reached' \in {reached, work[p].cursor}
           /\ reached' # reached =>
                work[p].kind = "history" /\ ~closed /\ work[p].left \subseteq has'
           /\ \A m \in has \ has' : /\ work[p].kind = "full" /\ m \notin work[p].out
                                   /\ \E n \in work[p].out : n <= m
           /\ \E chunk \in SUBSET work[p].left :
                /\ IF chunk = work[p].left THEN Rests(p)
                   ELSE work' = [work EXCEPT ![p].left = @ \ chunk] /\ UNCHANGED pc
                /\ closed \/ chunk \subseteq has'
  <1>1. pc[p] = "emit" /\ work[p] \in Work /\ Placed(work[p], "emit")
    BY DEF WindowEmit, Inv1, TypeOK
  <1>2. UNCHANGED << session, cache, phone, loop, fetches >>
    BY DEF WindowEmit
  <1>3. work[p].left \subseteq work[p].out
    BY <1>1 DEF Placed, Staged
  <1> DEFINE w == work[p]
             sent(chunk) == (w.out \ w.left) \cup chunk
             older(chunk) == {m \in has : \A n \in sent(chunk) : m < n}
  <1>4. PICK chunk \in SUBSET w.left :
          /\ IF chunk = w.left THEN Rests(p)
             ELSE work' = [work EXCEPT ![p].left = @ \ chunk] /\ UNCHANGED pc
          /\ IF closed THEN UNCHANGED daemon
             ELSE /\ has' = IF w.kind = "full" /\ Closing(w, chunk)
                              THEN older(chunk) \cup sent(chunk) ELSE has \cup chunk
                  /\ reached' = IF w.kind = "history" /\ chunk = w.left /\ w.cursor < reached
                                  THEN w.cursor ELSE reached
    BY DEF WindowEmit
  <1>5. has' \subseteq has \cup w.out /\ reached' \in {reached, w.cursor}
    BY <1>3, <1>4 DEF daemon
  <1>6. closed \/ chunk \subseteq has'
    BY <1>4
  <1>7. reached' # reached => w.kind = "history" /\ ~closed /\ w.left \subseteq has'
    BY <1>4, <1>6 DEF daemon
  <1>8. ASSUME NEW m \in has \ has'
        PROVE  w.kind = "full" /\ m \notin w.out /\ \E n \in w.out : n <= m
    <2>1. /\ w.kind = "full" /\ chunk = w.left
          /\ has' = older(chunk) \cup sent(chunk)
      BY <1>4, <1>8 DEF daemon, Closing
    <2>2. sent(chunk) = w.out
      BY <1>3, <2>1
    <2>3. m \in Nat /\ w.out \subseteq Nat
      BY <1>1, <1>8, WorkFields, WindowsAssumption DEF Inv1, TypeOK
    <2> QED
      BY <1>8, <2>1, <2>2, <2>3
  <1> QED
    BY <1>1, <1>2, <1>4, <1>5, <1>6, <1>7, <1>8

LEMMA EmitStep ==
    ASSUME Inv1, NEW p \in Workers, WindowEmit(p)
    PROVE  Inv1'
  <1>1. /\ pc[p] = "emit" /\ work[p] \in Work /\ Placed(work[p], "emit")
        /\ UNCHANGED << session, cache, phone, loop, fetches >>
        /\ has' \subseteq has \cup work[p].out /\ reached' \in {reached, work[p].cursor}
    BY EmitParts
  <1>2. PICK chunk \in SUBSET work[p].left :
          IF chunk = work[p].left THEN Rests(p)
          ELSE work' = [work EXCEPT ![p].left = @ \ chunk] /\ UNCHANGED pc
    BY EmitParts
  <1>3. \E to \in PcStates, new \in Work : Moves(p, to, new) /\ Placed(new, to)'
    <2>1. CASE chunk = work[p].left
      <3>1. Moves(p, "idle", NoWork)
        BY <1>2, <2>1 DEF Rests, Moves
      <3>2. Placed(NoWork, "idle")'
        BY <1>1 DEF Inv1, TypeOK, Placed, Real, Staged, Pages, NoWork, session
      <3> QED
        BY <3>1, <3>2, NoWorkTyped DEF PcStates
    <2>2. CASE chunk # work[p].left
      <3> DEFINE left == work[p].left \ chunk
      <3>1. left \subseteq Messages /\ work[p].cursor \in MaybeNone
        BY <1>1 DEF Work, MaybeNone
      <3>2. [[work[p] EXCEPT !.left = left] EXCEPT !.cursor = work[p].cursor]
              = [work[p] EXCEPT !.left = left]
        BY <1>1 DEF Work
      <3>3. Moves(p, "emit", Paged(work[p], left, work[p].cursor))
        BY <1>1, <1>2, <2>2, <3>2 DEF Moves, Paged, Inv1, TypeOK
      <3> HIDE DEF left
      <3>4. PICK new \in Work :
              /\ new = Paged(work[p], left, work[p].cursor)
              /\ new.kind = work[p].kind /\ new.lc = work[p].lc
              /\ new.before = work[p].before /\ new.seen = work[p].seen
              /\ new.cursor = work[p].cursor /\ new.gone = work[p].gone
              /\ new.left = left /\ new.out = work[p].out /\ new.held = work[p].held
        BY <1>1, <3>1, PagedTyped
      <3>5. Real(new) /\ Staged(new, "emit")
        BY <1>1, <3>4 DEF Placed, Real, Staged, left
      <3>6. Whole(new)
        BY <1>1, <3>4 DEF Placed, Staged, Pages, Whole, Spans, left
      <3>7. Placed(new, "emit")'
        BY <1>1, <3>5, <3>6 DEF Placed, Real, Pages, Staged, Whole, Spans, session, phone
      <3> QED
        BY <3>3, <3>4, <3>7 DEF PcStates
    <2> QED
      BY <2>1, <2>2
  <1>4. has' \subseteq 1 .. arrived \ Blank
    BY <1>1 DEF Placed, Real, Inv1, TypeOK, Shown
  <1>5. reached' \in Messages \cup {None}
    BY <1>1 DEF Inv1, TypeOK, Work
  <1>6. cache' \in Seq(Messages) /\ Len(cache') <= CachePer /\ fetches' \in Nat
    BY <1>1 DEF Inv1, TypeOK
  <1> QED
    BY <1>1, <1>3, <1>4, <1>5, <1>6, WorkerStep

-----------------------------------------------------------------------------
(* The event loop, the phone and logins.                                   *)

LEMMA WorkersStay ==
    ASSUME Inv1, lifecycle' \in Nat, arrived' \in 0 .. M, Grows, UNCHANGED << pc, work >>
    PROVE  \A q \in Workers : Placed(work[q], pc[q])'
  <1> SUFFICES ASSUME NEW q \in Workers PROVE Placed(work[q], pc[q])'
    OBVIOUS
  <1>1. work[q] \in Work /\ Placed(work[q], pc[q])
    BY DEF Inv1, TypeOK
  <1>2. Real(work[q])'
    BY <1>1, WorkFields, WindowsAssumption DEF Placed, Real, Grows, TypeOK, Inv1
  <1>3. lifecycle = work[q].lc \/ lifecycle' # work[q].lc
    BY <1>1, WorkFields DEF Placed, Real, Grows, TypeOK, Inv1
  <1> QED
    BY <1>1, <1>2, <1>3 DEF Placed, Staged, Pages, Whole, Spans, Current

LEMMA TakeStep ==
    ASSUME Inv1, EventTake
    PROVE  Inv1'
  <1> DEFINE event == Head(queue)
  <1>1. /\ queue \in Seq(Event) /\ queue # << >> /\ queue' = Tail(queue)
        /\ cache \in Seq(Messages) /\ Len(cache) <= CachePer
    BY DEF EventTake, Inv1, TypeOK
  <1>2. /\ event \in Event /\ event = queue[1] /\ Len(queue) \in Nat \ {0}
        /\ queue' \in Seq(Event) /\ Len(queue') = Len(queue) - 1
        /\ \A i \in 1 .. Len(queue) - 1 : queue'[i] = queue[i + 1]
    BY <1>1
  <1>3. event.message \in Messages /\ event.lifecycle \in Nat /\ event.message \in 1 .. arrived
    BY <1>2 DEF Event, Inv1, LoopReal
  <1>4. UNCHANGED << session, phone, pc, work, fetches, reached >>
    BY DEF EventTake
  <1>5. has' \subseteq has
    BY DEF EventTake
  <1>6. \/ /\ mapping' = [message |-> event.message, lifecycle |-> event.lifecycle]
           /\ UNCHANGED cache \/ Remember(event.message)
        \/ UNCHANGED << mapping, cache >>
    BY DEF EventTake
  <1>7. cache' \in Seq(Messages) /\ Len(cache') <= CachePer
    BY <1>1, <1>3, <1>6, RememberTyped
  <1>8. /\ mapping' \in [message : Messages \cup {None}, lifecycle : Nat]
        /\ mapping' # NotMapping => mapping'.message \in 1 .. arrived
    BY <1>3, <1>6 DEF Inv1, TypeOK, LoopReal
  <1>9. TypeOK'
    BY <1>2, <1>4, <1>5, <1>7, <1>8 DEF Inv1, TypeOK, session, phone
  <1>10. LoopReal'
    <2>1. \A i \in DOMAIN queue' : i + 1 \in DOMAIN queue /\ queue'[i] = queue[i + 1]
      BY <1>2
    <2> QED
      BY <1>4, <1>8, <2>1 DEF Inv1, LoopReal, phone
  <1>11. Shown'
    BY <1>4, <1>5 DEF Inv1, Shown, phone
  <1>12. Grows /\ lifecycle' \in Nat /\ arrived' \in 0 .. M
    BY <1>4, WindowsAssumption DEF Grows, Inv1, TypeOK, session, phone
  <1> QED
    BY <1>4, <1>9, <1>10, <1>11, <1>12, WorkersStay DEF Inv1

LEMMA ShowStep ==
    ASSUME Inv1, EventShow
    PROVE  Inv1'
  <1>1. UNCHANGED << session, cache, phone, queue, pc, work, fetches, reached >>
    BY DEF EventShow
  <1>2. has' \subseteq 1 .. arrived \ Blank
    BY DEF EventShow, Inv1, TypeOK, Shown, LoopReal
  <1>3. mapping' = NotMapping
    BY DEF EventShow
  <1>4. TypeOK'
    BY <1>1, <1>2, <1>3 DEF Inv1, TypeOK, session, phone, NotMapping
  <1>5. LoopReal' /\ Shown'
    BY <1>1, <1>2, <1>3 DEF Inv1, LoopReal, Shown, phone
  <1>6. Grows /\ lifecycle' \in Nat /\ arrived' \in 0 .. M
    BY <1>1, WindowsAssumption DEF Grows, Inv1, TypeOK, session, phone
  <1> QED
    BY <1>1, <1>4, <1>5, <1>6, WorkersStay DEF Inv1

\* An event of a message that has come, if the session hears of it.
LEMMA HearsStep ==
    ASSUME Inv1, NEW m \in Messages, NEW removal \in BOOLEAN, Hears(m, removal),
           arrived' \in 0 .. M, arrived <= arrived', deleted \subseteq deleted',
           deleted' \subseteq 1 .. arrived', m <= arrived', removal => m \in deleted',
           UNCHANGED << session, cache, mapping, pc, work, fetches, daemon >>
    PROVE  Inv1'
  <1> DEFINE event == [message |-> m, lifecycle |-> lifecycle, removal |-> removal]
  <1>1. event \in Event /\ queue \in Seq(Event)
    BY DEF Event, Inv1, TypeOK
  <1>2. queue' = queue \/ queue' = Append(queue, event)
    BY DEF Hears
  <1>3. /\ queue' \in Seq(Event)
        /\ \A i \in DOMAIN queue' :
             (i \in DOMAIN queue /\ queue'[i] = queue[i]) \/ queue'[i] = event
    BY <1>1, <1>2
  <1>4. TypeOK'
    BY <1>3, WindowsAssumption DEF Inv1, TypeOK, session, daemon
  <1>5. LoopReal'
    <2>1. mapping' # NotMapping => mapping'.message \in 1 .. arrived'
      BY WindowsAssumption DEF Inv1, TypeOK, LoopReal
    <2>2. ASSUME NEW i \in DOMAIN queue'
          PROVE  /\ queue'[i].message \in 1 .. arrived'
                 /\ queue'[i].removal => queue'[i].message \in deleted'
      BY <1>3, <2>2, WindowsAssumption DEF Inv1, TypeOK, LoopReal, Messages
    <2> QED
      BY <2>1, <2>2 DEF LoopReal
  <1>6. Shown'
    BY WindowsAssumption DEF Inv1, TypeOK, Shown, daemon
  <1>7. Grows /\ lifecycle' \in Nat
    BY DEF Grows, Inv1, TypeOK, session
  <1> QED
    BY <1>4, <1>5, <1>6, <1>7, WorkersStay DEF Inv1

LEMMA PhoneStep ==
    ASSUME Inv1, Arrive \/ \E m \in Messages : Delete(m)
    PROVE  Inv1'
  <1>1. CASE Arrive
    <2>1. arrived \in 0 .. M /\ arrived < M /\ arrived' = arrived + 1
      BY <1>1 DEF Arrive, Inv1, TypeOK
    <2> DEFINE m == arrived + 1
    <2>2. m \in Messages /\ m <= arrived' /\ arrived' \in 0 .. M /\ arrived <= arrived'
      BY <2>1, WindowsAssumption DEF Messages
    <2>3. deleted' = deleted /\ deleted' \subseteq 1 .. arrived'
      BY <1>1, <2>1, WindowsAssumption DEF Arrive, Inv1, TypeOK
    <2>4. /\ Hears(m, FALSE)
          /\ UNCHANGED << session, cache, mapping, pc, work, fetches, daemon >>
      BY <1>1 DEF Arrive
    <2> HIDE DEF m
    <2> QED
      BY <2>2, <2>3, <2>4, HearsStep
  <1>2. ASSUME NEW m \in Messages, Delete(m) PROVE Inv1'
    <2>1. /\ m \in 1 .. arrived /\ deleted' = deleted \cup {m} /\ Hears(m, TRUE)
          /\ arrived' = arrived
          /\ UNCHANGED << session, cache, mapping, pc, work, fetches, daemon >>
      BY <1>2 DEF Delete
    <2>2. /\ arrived' \in 0 .. M /\ arrived <= arrived' /\ m <= arrived'
          /\ deleted \subseteq deleted' /\ m \in deleted' /\ deleted' \subseteq 1 .. arrived'
      BY <2>1, WindowsAssumption DEF Inv1, TypeOK
    <2> QED
      BY <2>1, <2>2, HearsStep
  <1> QED
    BY <1>1, <1>2

LEMMA RetireStep ==
    ASSUME Inv1, Retire
    PROVE  Inv1'
  <1>1. /\ UNCHANGED << cache, phone, loop, pc, work, fetches, daemon >>
        /\ lifecycle' = lifecycle + 1 /\ client' \in BOOLEAN /\ closed' \in BOOLEAN
        /\ closed => closed'
    BY DEF Retire, Inv1, TypeOK
  <1>2. TypeOK'
    BY <1>1 DEF Inv1, TypeOK, phone, loop, daemon
  <1>3. LoopReal' /\ Shown'
    BY <1>1 DEF Inv1, LoopReal, Shown, phone, loop, daemon
  <1>4. Grows /\ lifecycle' \in Nat /\ arrived' \in 0 .. M
    BY <1>1 DEF Grows, Inv1, TypeOK, phone
  <1> QED
    BY <1>1, <1>2, <1>3, <1>4, WorkersStay DEF Inv1

LEMMA Inv1Init == Init => Inv1
  <1> SUFFICES ASSUME Init PROVE Inv1
    OBVIOUS
  <1>1. Page(None) \subseteq 1 .. arrived /\ arrived = Start /\ Start \in 0 .. M
    BY PageReal, WindowsAssumption DEF Init, None
  <1>2. TypeOK
    <2>1. cache \in Seq(Messages) /\ Len(cache) <= CachePer /\ queue \in Seq(Event)
      BY WindowsAssumption DEF Init
    <2>2. reached \in Messages /\ has \subseteq 1 .. arrived
      BY <1>1, OldestIn, WindowsAssumption DEF Init, Messages
    <2>3. mapping \in [message : Messages \cup {None}, lifecycle : Nat]
      BY DEF Init, NotMapping
    <2>4. pc \in [Workers -> PcStates] /\ work \in [Workers -> Work]
      BY NoWorkTyped DEF Init, PcStates
    <2>5. arrived \in 0 .. M /\ deleted \subseteq 1 .. arrived
      BY <1>1 DEF Init
    <2> QED
      BY <2>1, <2>2, <2>3, <2>4, <2>5 DEF Init, TypeOK, PcStates
  <1>3. LoopReal /\ Shown
    BY <1>1, WindowsAssumption DEF Init, LoopReal, Shown
  <1>4. \A p \in Workers : Placed(work[p], pc[p])
    BY DEF Init, Placed, Real, Staged, Pages, NoWork
  <1> QED
    BY <1>2, <1>3, <1>4 DEF Inv1

LEMMA Inv1Step == Inv1 /\ [Next]_vars => Inv1'
  <1> SUFFICES ASSUME Inv1, [Next]_vars PROVE Inv1'
    OBVIOUS
  <1>1. ASSUME NEW p \in Workers,
               \/ WindowBegin(p) \/ HistoryBegin(p) \/ WindowFails(p) \/ WindowFetch(p)
               \/ WindowMap(p) \/ WindowKeep(p) \/ WindowDrop(p) \/ WindowMapped(p)
               \/ WindowEmit(p)
        PROVE  Inv1'
    BY <1>1, BeginStep, RestStep, FetchStep, MapStep, KeepStep, MappedStep, EmitStep
  <1>2. CASE UNCHANGED vars
    <2>1. /\ UNCHANGED << session, phone, loop, pc, work, cache, fetches, daemon >>
      BY <1>2 DEF vars
    <2>2. TypeOK' /\ LoopReal' /\ Shown'
      BY <2>1 DEF Inv1, TypeOK, LoopReal, Shown, session, phone, loop, daemon
    <2>3. Grows /\ lifecycle' \in Nat /\ arrived' \in 0 .. M
      BY <2>1, WindowsAssumption DEF Grows, Inv1, TypeOK, session, phone
    <2> QED
      BY <2>1, <2>2, <2>3, WorkersStay DEF Inv1
  <1> QED
    BY <1>1, <1>2, TakeStep, ShowStep, PhoneStep, RetireStep DEF Next

LEMMA Inv1Always == Spec => []Inv1
  BY Inv1Init, Inv1Step, PTL DEF Spec

\* The type invariant, for any number of goroutines, messages and logins: the
\* cache of a thread never exceeds its bound (session.go cachePerConv).
THEOREM TypeCorrect == Spec => []TypeOK
  <1>1. Inv1 => TypeOK
    BY DEF Inv1
  <1> QED
    BY <1>1, Inv1Always, PTL

-----------------------------------------------------------------------------
(* What windows cost the daemon.                                           *)

DropStep == \A m \in has \ has' : m \in deleted \/ \E p \in Workers :
                pc[p] = "emit" /\ work[p].kind = "full" /\ work[p].seen < m

LEMMA EmitDrops ==
    ASSUME Inv1, NEW p \in Workers, WindowEmit(p), NEW m \in has \ has',
           ~(work[p].seen < m)
    PROVE  m \in deleted
  <1> DEFINE w == work[p]
  <1>1. /\ w \in Work /\ Placed(w, "emit") /\ w.kind = "full" /\ m \notin w.out
        /\ \E n \in w.out : n <= m
    BY EmitParts
  <1>2. PICK n \in w.out : n <= m
    BY <1>1
  <1>3. m \in Messages /\ m \notin Blank /\ n \in Messages
    BY <1>1, WorkFields, WindowsAssumption DEF Inv1, TypeOK, Shown, Messages
  <1>4. Spans(w, m)
    BY <1>1, <1>3, WorkFields, WindowsAssumption DEF Placed, Real, Spans, Messages
  <1>5. n # None
    BY <1>3 DEF Messages, None
  <1>6. m \in w.out \cup w.left \cup w.gone \cup Blank
    BY <1>1, <1>2, <1>3, <1>4, <1>5 DEF Placed, Pages, Whole
  <1> QED
    BY <1>1, <1>3, <1>6 DEF Placed, Staged, Real

LEMMA DropsStep == Inv1 /\ [Next]_vars => DropStep
  <1> SUFFICES ASSUME Inv1, [Next]_vars, NEW m \in has \ has'
               PROVE  m \in deleted \/ \E p \in Workers :
                        pc[p] = "emit" /\ work[p].kind = "full" /\ work[p].seen < m
    BY DEF DropStep
  <1>1. ASSUME NEW p \in Workers, WindowEmit(p)
        PROVE  m \in deleted \/ \E q \in Workers :
                 pc[q] = "emit" /\ work[q].kind = "full" /\ work[q].seen < m
    BY <1>1, EmitDrops, EmitParts
  <1>2. ASSUME NEW p \in Workers, WindowMap(p)
        PROVE  m \in deleted
    <2>1. Placed(work[p], "map") /\ work[p] \in Work
      BY <1>2 DEF WindowMap, Inv1, TypeOK
    <2>2. PICK k \in Oldest(work[p].left) :
            has' # has => k \in work[p].gone /\ has' = has \ {k}
      BY <1>2 DEF WindowMap
    <2> QED
      BY <2>1, <2>2 DEF Placed, Real
  <1>3. CASE EventTake
    <2>1. queue # << >> /\ queue \in Seq(Event) /\ m = Head(queue).message /\ Head(queue).removal
      BY <1>3 DEF EventTake, Inv1, TypeOK
    <2> QED
      BY <2>1 DEF Inv1, LoopReal
  <1>4. CASE EventShow
    BY <1>4 DEF EventShow
  <1>5. ASSUME NEW p \in Workers,
               \/ WindowBegin(p) \/ HistoryBegin(p) \/ WindowFails(p) \/ WindowFetch(p)
               \/ WindowKeep(p) \/ WindowDrop(p) \/ WindowMapped(p)
        PROVE  FALSE
    BY <1>5 DEF WindowBegin, HistoryBegin, WindowFails, WindowFetch, WindowKeep, WindowDrop,
                WindowMapped, daemon
  <1>6. CASE Arrive \/ Retire \/ (\E k \in Messages : Delete(k)) \/ UNCHANGED vars
    BY <1>6 DEF Arrive, Retire, Delete, vars, daemon
  <1> QED
    BY <1>1, <1>2, <1>3, <1>4, <1>5, <1>6 DEF Next

\* A full window never costs the daemon a message that is on the phone and was
\* there when the window was fetched, whatever is mapped, dropped, chunked and
\* retired around it (sync.go:387, 501).
THEOREM WindowsSpareMessages == Spec => DropsOnlyGone
  <1>1. Inv1 /\ [Next]_vars => [DropStep]_vars
    BY DropsStep
  <1> QED
    BY <1>1, Inv1Always, PTL DEF Spec, DropsOnlyGone, DropStep

-----------------------------------------------------------------------------
(* Pages of history leave no gaps.                                         *)

\* The daemon has everything from c on that there was at the start.
Filled(c) == \A m \in Showable : c <= m /\ m <= Start => m \in has

\* A page goes on where the daemon has everything.
Continues(w, at) ==
    at # "idle" /\ w.kind = "history" => w.before # None /\ Filled(w.before)

\* The chunks that were emitted have reached the daemon.
Emitted(w, at) == at = "emit" /\ ~closed =>
    \A m \in Showable : m <= Start /\ m \in w.out \ w.left => m \in has

Inv2 == /\ Inv1 /\ NoGaps
        /\ \A p \in Workers : Continues(work[p], pc[p]) /\ Emitted(work[p], pc[p])

LEMMA GrowsStep == Inv1 /\ [Next]_vars => Grows
  <1> SUFFICES ASSUME Inv1, [Next]_vars PROVE Grows
    OBVIOUS
  <1>1. lifecycle \in Nat /\ arrived \in Nat
    BY WindowsAssumption DEF Inv1, TypeOK
  <1>2. UNCHANGED << session, phone >> => Grows
    BY <1>1 DEF Grows, session, phone
  <1>3. ASSUME NEW p \in Workers,
               \/ WindowBegin(p) \/ HistoryBegin(p) \/ WindowFails(p) \/ WindowFetch(p)
               \/ WindowMap(p) \/ WindowKeep(p) \/ WindowDrop(p) \/ WindowMapped(p)
               \/ WindowEmit(p)
        PROVE  Grows
    BY <1>2, <1>3 DEF WindowBegin, HistoryBegin, WindowFails, WindowFetch, WindowMap, WindowKeep,
                      WindowDrop, WindowMapped, WindowEmit
  <1>4. CASE EventTake \/ EventShow \/ UNCHANGED vars
    BY <1>2, <1>4 DEF EventTake, EventShow, vars
  <1>5. CASE Arrive
    BY <1>1, <1>5 DEF Arrive, Grows, session
  <1>6. ASSUME NEW m \in Messages, Delete(m) PROVE Grows
    BY <1>1, <1>6 DEF Delete, Grows, session
  <1>7. CASE Retire
    BY <1>1, <1>7 DEF Retire, Grows, phone
  <1> QED
    BY <1>3, <1>4, <1>5, <1>6, <1>7 DEF Next

\* What the daemon has of the start stays as long as it is to be shown.
LEMMA HasKept ==
    ASSUME Inv1, [Next]_vars, NEW m \in Showable', m <= Start
    PROVE  m \in Showable /\ (m \in has => m \in has')
  <1>1. Grows /\ DropStep
    BY GrowsStep, DropsStep
  <1>2. m \in Showable /\ m \notin deleted /\ m \in Nat
    BY <1>1, WindowsAssumption DEF Showable, Grows, Inv1, TypeOK, Shown
  <1>3. ASSUME m \in has, m \notin has' PROVE FALSE
    <2>1. PICK p \in Workers : pc[p] = "emit" /\ work[p].seen < m
      BY <1>1, <1>2, <1>3 DEF DropStep
    <2>2. Start <= work[p].seen /\ work[p] \in Work
      BY <2>1 DEF Inv1, TypeOK, Placed, Staged
    <2> QED
      BY <1>2, <2>1, <2>2, WorkFields, WindowsAssumption
  <1> QED
    BY <1>2, <1>3

LEMMA FilledKept ==
    ASSUME Inv1, [Next]_vars, NEW c, Filled(c)
    PROVE  Filled(c)'
  BY HasKept DEF Filled

\* From one place to the next.
LEMMA PlaceStep ==
    ASSUME Inv1, [Next]_vars, NEW q \in Workers
    PROVE  \/ work'[q] = work[q] /\ pc'[q] = pc[q]
           \/ pc'[q] = "idle"
           \/ /\ pc'[q] = "fetch"
              /\ work'[q].kind = "history" =>
                   reached # None /\ work'[q].before \in Messages /\ reached <= work'[q].before
           \/ /\ pc[q] # "idle" /\ pc'[q] \in {"map", "emit"}
              /\ work'[q].kind = work[q].kind /\ work'[q].before = work[q].before
              /\ pc'[q] = "emit" =>
                   \/ work'[q].left = work'[q].out
                   \/ /\ pc[q] = "emit" /\ work'[q].out = work[q].out
                      /\ \A m \in work[q].left \ work'[q].left : closed \/ m \in has'
  <1>1. /\ pc \in [Workers -> PcStates] /\ work \in [Workers -> Work] /\ work[q] \in Work
        /\ has \subseteq Messages /\ reached \in Messages \cup {None}
    BY WindowsAssumption DEF Inv1, TypeOK, PcStates, Messages
  <1> USE <1>1
  <1>2. CASE WindowBegin(q)
    <2>1. PICK kind \in {"full", "open"} :
            work'[q] = [NoWork EXCEPT !.kind = kind, !.lc = lifecycle]
      BY <1>2 DEF WindowBegin
    <2>2. work'[q].kind = kind
      BY <2>1 DEF NoWork
    <2> QED
      BY <1>2, <2>2 DEF WindowBegin, Goto
  <1>3. CASE HistoryBegin(q)
    <2>1. PICK before \in {reached} \cup Oldest({n \in has : n >= reached}) :
            work'[q] = [NoWork EXCEPT !.kind = "history", !.lc = lifecycle, !.before = before]
      BY <1>3 DEF HistoryBegin
    <2>2. work'[q].before = before /\ reached # None
      BY <1>3, <2>1 DEF NoWork, HistoryBegin
    <2>3. before \in Messages /\ reached <= before
      BY <2>1, <2>2, OldestIn, WindowsAssumption DEF Messages
    <2> QED
      BY <1>3, <2>2, <2>3 DEF HistoryBegin, Goto
  <1>4. CASE WindowFails(q) \/ WindowDrop(q)
    BY <1>4 DEF WindowFails, WindowDrop, Rests
  <1>5. CASE WindowFetch(q)
    <2>1. pc[q] = "fetch" /\ pc'[q] = "map"
      BY <1>5 DEF WindowFetch, Goto
    <2>2. work'[q].kind = work[q].kind /\ work'[q].before = work[q].before
      BY <1>5 DEF WindowFetch, Work
    <2> QED
      BY <2>1, <2>2
  <1>6. CASE WindowMap(q)
    <2>1. pc[q] = "map" /\ pc'[q] = "map"
      BY <1>6 DEF WindowMap
    <2>2. work'[q].kind = work[q].kind /\ work'[q].before = work[q].before
      BY <1>6 DEF WindowMap, Work
    <2> QED
      BY <2>1, <2>2
  <1>11. CASE WindowKeep(q)
    <2>1. pc[q] = "map" /\ pc'[q] = "map"
      BY <1>11 DEF WindowKeep
    <2>2. work'[q].kind = work[q].kind /\ work'[q].before = work[q].before
      BY <1>11 DEF WindowKeep, Work
    <2> QED
      BY <2>1, <2>2
  <1>7. CASE WindowMapped(q)
    <2>1. pc[q] = "map" /\ pc'[q] = "emit"
      BY <1>7 DEF WindowMapped, Goto
    <2>2. /\ work'[q].kind = work[q].kind /\ work'[q].before = work[q].before
          /\ work'[q].left = work'[q].out
      BY <1>7 DEF WindowMapped, Work
    <2> QED
      BY <2>1, <2>2
  <1>8. CASE WindowEmit(q)
    <2>1. PICK chunk \in SUBSET work[q].left :
            /\ IF chunk = work[q].left THEN Rests(q)
               ELSE work' = [work EXCEPT ![q].left = @ \ chunk] /\ UNCHANGED pc
            /\ closed \/ chunk \subseteq has'
      BY <1>8, EmitParts
    <2>2. CASE chunk = work[q].left
      BY <2>1, <2>2 DEF Rests
    <2>3. CASE chunk # work[q].left
      <3>1. /\ work'[q].kind = work[q].kind /\ work'[q].before = work[q].before
            /\ work'[q].out = work[q].out /\ work'[q].left = work[q].left \ chunk
        BY <2>1, <2>3 DEF Work
      <3>2. pc[q] = "emit" /\ pc'[q] = "emit"
        BY <1>8, <2>1, <2>3 DEF WindowEmit
      <3> QED
        BY <2>1, <3>1, <3>2
    <2> QED
      BY <2>2, <2>3
  <1>9. ASSUME NEW p \in Workers \ {q},
               \/ WindowBegin(p) \/ HistoryBegin(p) \/ WindowFails(p) \/ WindowFetch(p)
               \/ WindowMap(p) \/ WindowKeep(p) \/ WindowDrop(p) \/ WindowMapped(p)
               \/ WindowEmit(p)
        PROVE  work'[q] = work[q] /\ pc'[q] = pc[q]
    BY <1>9 DEF WindowBegin, HistoryBegin, WindowFails, WindowFetch, WindowMap, WindowKeep,
       WindowDrop, WindowMapped, WindowEmit, Goto, Rests
  <1>10. CASE \/ EventTake \/ EventShow \/ Arrive \/ Retire
              \/ (\E m \in Messages : Delete(m)) \/ UNCHANGED vars
    BY <1>10 DEF EventTake, EventShow, Arrive, Retire, Delete, vars
  <1> QED
    BY <1>2, <1>3, <1>4, <1>5, <1>6, <1>7, <1>8, <1>9, <1>10, <1>11 DEF Next

LEMMA PlacesKept ==
    ASSUME Inv2, [Next]_vars, NEW q \in Workers
    PROVE  Continues(work[q], pc[q])' /\ Emitted(work[q], pc[q])'
  <1>1. Inv1 /\ Inv1' /\ Grows
    BY Inv1Step, GrowsStep DEF Inv2
  <1>2. /\ work[q] \in Work /\ Continues(work[q], pc[q]) /\ Emitted(work[q], pc[q])
        /\ reached \in Nat /\ (closed => closed')
    BY <1>1, WindowsAssumption DEF Inv2, Inv1, TypeOK, Grows, Messages, None
  <1>3. Continues(work[q], pc[q])'
    <2> SUFFICES ASSUME pc'[q] # "idle", work'[q].kind = "history"
                 PROVE  /\ work'[q].before # None
                        /\ \A m \in Showable' : work'[q].before <= m /\ m <= Start => m \in has'
      BY DEF Continues, Filled
    <2>1. CASE pc[q] # "idle" /\ work'[q].kind = work[q].kind /\ work'[q].before = work[q].before
      <3>1. work[q].before # None /\ Filled(work[q].before)
        BY <1>2, <2>1 DEF Continues
      <3> QED
        BY <1>1, <2>1, <3>1, HasKept DEF Filled
    <2>2. CASE reached # None /\ work'[q].before \in Messages /\ reached <= work'[q].before
      <3>1. Filled(reached)
        BY <2>2 DEF Inv2, NoGaps, Filled
      <3>2. ASSUME NEW m \in Showable', work'[q].before <= m, m <= Start PROVE m \in has'
        <4>1. m \in Showable /\ (m \in has => m \in has')
          BY <1>1, <3>2, HasKept
        <4>2. m \in Nat /\ work'[q].before \in Nat
          BY <1>1, <2>2, <4>1, WindowsAssumption DEF Showable, Messages, Inv1, TypeOK
        <4> QED
          BY <1>2, <2>2, <3>1, <3>2, <4>1, <4>2 DEF Filled
      <3>3. work'[q].before # None
        BY <2>2 DEF Messages, None
      <3> QED
        BY <3>2, <3>3
    <2> QED
      BY <1>1, <2>1, <2>2, PlaceStep
  <1>4. Emitted(work[q], pc[q])'
    <2> SUFFICES ASSUME pc'[q] = "emit", ~closed', NEW m \in Showable', m <= Start,
                        m \in work'[q].out \ work'[q].left
                 PROVE  m \in has'
      BY DEF Emitted
    <2>1. m \in Showable /\ (m \in has => m \in has')
      BY <1>1, HasKept
    <2>2. CASE work'[q] = work[q] /\ pc'[q] = pc[q]
      BY <1>2, <2>1, <2>2 DEF Emitted
    <2>3. CASE /\ pc[q] = "emit" /\ work'[q].out = work[q].out
               /\ \A k \in work[q].left \ work'[q].left : closed \/ k \in has'
      BY <1>2, <2>1, <2>3 DEF Emitted
    <2> QED
      BY <1>1, <2>2, <2>3, PlaceStep
  <1> QED
    BY <1>3, <1>4

\* Only the last chunk of a page moves how far the daemon has paged.
LEMMA ReachedStep ==
    ASSUME Inv1, [Next]_vars, reached' # reached
    PROVE  \E p \in Workers :
             /\ WindowEmit(p) /\ work[p].kind = "history" /\ ~closed
             /\ work[p].left \subseteq has' /\ reached' = work[p].cursor
  <1>1. ASSUME NEW p \in Workers,
               \/ WindowBegin(p) \/ HistoryBegin(p) \/ WindowFails(p) \/ WindowFetch(p)
               \/ WindowMap(p) \/ WindowKeep(p) \/ WindowDrop(p) \/ WindowMapped(p)
        PROVE  FALSE
    BY <1>1 DEF WindowBegin, HistoryBegin, WindowFails, WindowFetch, WindowMap, WindowKeep,
       WindowDrop, WindowMapped, daemon
  <1>2. ASSUME \/ EventTake \/ EventShow \/ Arrive \/ Retire
               \/ (\E m \in Messages : Delete(m)) \/ UNCHANGED vars
        PROVE  FALSE
    BY <1>2 DEF EventTake, EventShow, Arrive, Retire, Delete, vars, daemon
  <1>3. PICK p \in Workers : WindowEmit(p)
    BY <1>1, <1>2 DEF Next
  <1> QED
    BY <1>3, EmitParts

LEMMA NoGapsStep ==
    ASSUME Inv2, [Next]_vars
    PROVE  NoGaps'
  <1> SUFFICES ASSUME reached' # None, NEW m \in Showable', reached' <= m, m <= Start
               PROVE  m \in has'
    BY DEF NoGaps
  <1>1. Inv1 /\ m \in Showable /\ (m \in has => m \in has')
    BY HasKept DEF Inv2
  <1>2. CASE reached' = reached
    BY <1>1, <1>2 DEF Inv2, NoGaps
  <1>3. CASE reached' # reached
    <2>1. PICK p \in Workers :
             /\ WindowEmit(p) /\ work[p].kind = "history" /\ ~closed
             /\ work[p].left \subseteq has' /\ reached' = work[p].cursor
      BY <1>1, <1>3, ReachedStep
    <2> DEFINE w == work[p]
    <2>2. /\ pc[p] = "emit" /\ w \in Work /\ Placed(w, "emit")
          /\ Continues(w, "emit") /\ Emitted(w, "emit")
      BY <1>1, <2>1, EmitParts DEF Inv2
    <2>3. m \in Messages /\ m \notin deleted /\ m \notin Blank
      BY <1>1, WindowsAssumption DEF Showable, Inv1, TypeOK, Messages
    <2>4. CASE w.before <= m
      BY <1>1, <2>1, <2>2, <2>4 DEF Continues, Filled
    <2>5. CASE ~(w.before <= m)
      <3>1. Spans(w, m)
        BY <2>2, <2>3, <2>5, WorkFields, WindowsAssumption
        DEF Placed, Staged, Spans, Messages
      <3>2. m \in w.out \cup w.left \cup w.gone \cup Blank
        BY <2>1, <2>2, <2>3, <3>1 DEF Placed, Pages, Whole
      <3>3. m \in w.out
        BY <2>2, <2>3, <3>2 DEF Placed, Staged, Real
      <3> QED
        BY <1>1, <2>1, <2>2, <3>3 DEF Emitted
    <2> QED
      BY <2>4, <2>5
  <1> QED
    BY <1>2, <1>3

LEMMA Inv2Init == Init => Inv2
  <1> SUFFICES ASSUME Init PROVE Inv2
    OBVIOUS
  <1>1. Inv1 /\ arrived = Start
    BY Inv1Init DEF Init
  <1>2. ASSUME NEW m \in Showable, reached <= m PROVE m \in has
    <2>1. reached \in Page(None) /\ m \in 1 .. arrived /\ m \notin Blank
      BY <1>2, OldestIn DEF Init, Showable
    <2>2. m \in Before(None)
      BY <2>1 DEF Before
    <2>3. m \in Page(None)
      BY <1>1, <1>2, <2>1, <2>2, PageWhole, WindowsAssumption DEF Inv1, TypeOK, None
    <2> QED
      BY <2>1, <2>3 DEF Init
  <1> QED
    BY <1>1, <1>2 DEF Init, Inv2, NoGaps, Continues, Emitted

\* For any number of goroutines, pages and logins, and whatever the relay
\* names as the cursor, the daemon has every message from the start on back
\* to where it has paged (sync.go:501-521).
THEOREM HistoryHasNoGaps == Spec => []NoGaps
  <1>1. Inv2 /\ [Next]_vars => Inv2'
    <2> SUFFICES ASSUME Inv2, [Next]_vars PROVE Inv2'
      OBVIOUS
    <2>1. Inv1'
      BY Inv1Step DEF Inv2
    <2> QED
      BY <2>1, NoGapsStep, PlacesKept DEF Inv2
  <1>2. Inv2 => NoGaps
    BY DEF Inv2
  <1> QED
    BY <1>1, <1>2, Inv2Init, PTL DEF Spec

=============================================================================
