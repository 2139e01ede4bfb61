------------------------- MODULE SyncEmissionProofs -------------------------
(***************************************************************************)
(* Theorems about SyncEmission, for any number of goroutines and threads   *)
(* and any sizes of pages and lists.                                       *)
(***************************************************************************)
EXTENDS SyncEmission, FiniteSetTheorems, TLAPS

PcStates == {"idle", "wait", "lock", "page", "map", "emit", "after", "done"}
Rests == {"idle", "wait", "lock", "done"}
Holds == {"page", "map", "emit"}
Events == [thread : Threads, lifecycle : Nat, checked : BOOLEAN]

\* Where one goroutine is: locals outside a sync, bounds within.
Placed(p) ==
    /\ pc[p] \in Rests => work[p] = NoWork
    /\ pc[p] = "page" => work[p].pages < MaxPages
    /\ pc[p] = "wait" => attempt[p] < Attempts
    /\ pc[p] = "idle" => attempt[p] = 0

\* The goroutine that lists, maps or emits is the one that holds syncMu.
Mutex == \A p \in Syncers : syncMu = p <=> pc[p] \in Holds

\* Locks and places, which need nothing of the data.
Typed == TypeOK /\ (\A p \in Syncers : Placed(p)) /\ Mutex

-----------------------------------------------------------------------------
(* Fields and edits of the records.                                        *)

LEMMA WorkFields ==
    ASSUME NEW w \in Work
    PROVE  /\ w.lc \in Nat /\ w.after \in Nat /\ w.pages \in 0 .. MaxPages
           /\ w.listed \subseteq Threads /\ w.stayed \subseteq Threads
           /\ w.left \subseteq Threads /\ w.gen \in Nat /\ w.complete \in BOOLEAN
  BY DEF Work

LEMMA NoWorkTyped == NoWork \in Work
  BY SizeAssumption DEF NoWork, Work

\* The edits of the steps by name, which keep the prover out of the records.
Began(w, lc, stayed) ==
    [w EXCEPT !.lc = lc, !.stayed = stayed]
Paged(w, listed, pages, complete, after) ==
    [w EXCEPT !.listed = listed, !.pages = pages, !.complete = complete, !.after = after]
Mapped(w, mapped, complete, gen) ==
    [w EXCEPT !.listed = mapped, !.left = mapped, !.after = 0, !.pages = 0,
              !.complete = complete, !.gen = gen]
Emitted(w, left, stayed) ==
    [w EXCEPT !.left = left, !.stayed = stayed]
Stays(w, stayed) ==
    [w EXCEPT !.stayed = stayed]

LEMMA StaysTyped ==
    ASSUME NEW w \in Work, NEW stayed \in SUBSET Threads
    PROVE  LET new == Stays(w, stayed) IN
           /\ new \in Work
           /\ new.lc = w.lc /\ new.after = w.after /\ new.pages = w.pages
           /\ new.listed = w.listed /\ new.stayed = stayed /\ new.left = w.left
           /\ new.gen = w.gen /\ new.complete = w.complete
  BY DEF Work, Stays

LEMMA BeganTyped ==
    ASSUME NEW w \in Work, NEW lc \in Nat, NEW stayed \in SUBSET Threads
    PROVE  LET new == Began(w, lc, stayed) IN
           /\ new \in Work
           /\ new.lc = lc /\ new.after = w.after /\ new.pages = w.pages
           /\ new.listed = w.listed /\ new.stayed = stayed /\ new.left = w.left
           /\ new.gen = w.gen /\ new.complete = w.complete
  <1>1. 0 \in 0 .. MaxPages
    BY SizeAssumption
  <1> QED
    BY <1>1 DEF Work, Began

LEMMA PagedTyped ==
    ASSUME NEW w \in Work, NEW listed \in SUBSET Threads, NEW pages \in 0 .. MaxPages,
           NEW complete \in BOOLEAN, NEW after \in Nat
    PROVE  LET new == Paged(w, listed, pages, complete, after) IN
           /\ new \in Work
           /\ new.lc = w.lc /\ new.after = after /\ new.pages = pages
           /\ new.listed = listed /\ new.stayed = w.stayed /\ new.left = w.left
           /\ new.gen = w.gen /\ new.complete = complete
  <1>1. 0 \in 0 .. MaxPages
    BY SizeAssumption
  <1> QED
    BY <1>1 DEF Work, Paged

LEMMA MappedTyped ==
    ASSUME NEW w \in Work, NEW mapped \in SUBSET Threads, NEW complete \in BOOLEAN, NEW gen \in Nat
    PROVE  LET new == Mapped(w, mapped, complete, gen) IN
           /\ new \in Work
           /\ new.lc = w.lc /\ new.after = 0 /\ new.pages = 0
           /\ new.listed = mapped /\ new.stayed = w.stayed /\ new.left = mapped
           /\ new.gen = gen /\ new.complete = complete
  <1>1. 0 \in 0 .. MaxPages
    BY SizeAssumption
  <1> QED
    BY <1>1 DEF Work, Mapped

LEMMA EmittedTyped ==
    ASSUME NEW w \in Work, NEW left \in SUBSET Threads, NEW stayed \in SUBSET Threads
    PROVE  LET new == Emitted(w, left, stayed) IN
           /\ new \in Work
           /\ new.lc = w.lc /\ new.after = w.after /\ new.pages = w.pages
           /\ new.listed = w.listed /\ new.stayed = stayed /\ new.left = left
           /\ new.gen = w.gen /\ new.complete = w.complete
  <1>1. 0 \in 0 .. MaxPages
    BY SizeAssumption
  <1> QED
    BY <1>1 DEF Work, Emitted

LEMMA GotoTyped ==
    ASSUME TypeOK, NEW p \in Syncers, NEW here, NEW there \in PcStates, Goto(p, here, there)
    PROVE  /\ pc' \in [Syncers -> PcStates]
           /\ pc[p] = here /\ pc'[p] = there
           /\ \A q \in Syncers \ {p} : pc'[q] = pc[q]
  BY DEF TypeOK, Goto, PcStates

LEMMA ReturnsTyped ==
    ASSUME TypeOK, NEW p \in Syncers, NEW ok, Returns(p, ok)
    PROVE  /\ pc' \in [Syncers -> PcStates] /\ syncActive' \in BOOLEAN
           /\ pc'[p] \in {"wait", "done"}
           /\ pc'[p] = "wait" => attempt[p] < Attempts
           /\ \A q \in Syncers \ {p} : pc'[q] = pc[q]
  BY DEF TypeOK, Returns, PcStates

\* What a sync that fails leaves behind.
LEMMA FailsTyped ==
    ASSUME TypeOK, NEW p \in Syncers, Fails(p)
    PROVE  /\ pc' \in [Syncers -> PcStates] /\ syncActive' \in BOOLEAN
           /\ pc'[p] \in {"wait", "done"}
           /\ pc'[p] = "wait" => attempt[p] < Attempts
           /\ work' \in [Syncers -> Work] /\ work'[p] = NoWork /\ syncMu' = NoSync
           /\ \A q \in Syncers \ {p} : pc'[q] = pc[q] /\ work'[q] = work[q]
  <1>1. Returns(p, FALSE) /\ work' = [work EXCEPT ![p] = NoWork] /\ syncMu' = NoSync
    BY DEF Fails
  <1> QED
    BY <1>1, ReturnsTyped, NoWorkTyped DEF TypeOK

LEMMA InboxTyped == TypeOK => Inbox \subseteq Threads /\ \A t \in Threads : activity[t] \in Nat
  BY DEF TypeOK, Inbox

LEMMA DeliverTyped ==
    ASSUME TypeOK, NEW chunk \in SUBSET Threads, NEW full \in BOOLEAN, NEW gen \in Nat,
           NEW lc \in Nat, Deliver(chunk, full, gen, lc)
    PROVE  /\ mirror' \subseteq Threads /\ reconciledBy' \in Nat
           /\ gathered' \in [gen : Nat, threads : SUBSET Threads]
  <1> DEFINE together == IF gen # 0 /\ gathered.gen = gen
                           THEN gathered.threads \cup chunk ELSE chunk
  <1>1. together \subseteq Threads
    BY DEF TypeOK
  <1>2. CASE closed
    BY <1>2 DEF Deliver, daemon, TypeOK
  <1>3. CASE ~closed
    <2>1. /\ mirror' = IF full THEN together ELSE mirror \cup chunk
          /\ gathered' = IF gen = 0 THEN gathered
                         ELSE IF full THEN [gen |-> 0, threads |-> {}]
                         ELSE [gen |-> gen, threads |-> together]
          /\ reconciledBy' = IF full THEN lc ELSE reconciledBy
      BY <1>3 DEF Deliver
    <2> HIDE DEF together
    <2> QED
      BY <1>1, <2>1 DEF TypeOK
  <1> QED
    BY <1>2, <1>3

-----------------------------------------------------------------------------
(* Every step keeps the types and the places.                              *)

\* A goroutine that moves outside of a sync.
LEMMA RestStep ==
    ASSUME Typed, NEW p \in Syncers, pc[p] \in Rests, pc'[p] \in Rests \ {"idle"},
           \A q \in Syncers \ {p} : pc'[q] = pc[q] /\ attempt'[q] = attempt[q],
           pc'[p] = "wait" => attempt'[p] < Attempts, UNCHANGED << work, syncMu >>
    PROVE  (\A q \in Syncers : Placed(q)') /\ Mutex'
  BY DEF Typed, Placed, Mutex, Rests, Holds

LEMMA CommandTyped ==
    ASSUME Typed, NEW p \in Syncers, SyncCommand(p)
    PROVE  Typed'
  <1>1. /\ pc' \in [Syncers -> PcStates] /\ pc[p] = "idle" /\ pc'[p] \in {"done", "lock"}
        /\ \A q \in Syncers \ {p} : pc'[q] = pc[q]
        /\ syncActive' \in BOOLEAN
    BY GotoTyped DEF SyncCommand, Typed, TypeOK, PcStates
  <1>2. role' \in [Syncers -> Roles]
    BY DEF SyncCommand, Typed, TypeOK, Roles
  <1>3. TypeOK'
    BY <1>1, <1>2 DEF SyncCommand, Typed, TypeOK, PcStates, session, phone, daemon
  <1>4. (\A q \in Syncers : Placed(q)') /\ Mutex'
    BY <1>1, RestStep DEF SyncCommand, Rests
  <1> QED
    BY <1>3, <1>4 DEF Typed

LEMMA CatchupStartTyped ==
    ASSUME Typed, NEW p \in Syncers, CatchupStart(p)
    PROVE  Typed'
  <1>1. /\ pc' \in [Syncers -> PcStates] /\ pc[p] = "idle" /\ pc'[p] = "wait"
        /\ \A q \in Syncers \ {p} : pc'[q] = pc[q]
    BY GotoTyped DEF CatchupStart, Typed, PcStates
  <1>2. role' \in [Syncers -> Roles] /\ era' \in [Syncers -> Nat]
    BY DEF CatchupStart, Typed, TypeOK, Roles
  <1>3. TypeOK'
    BY <1>1, <1>2 DEF CatchupStart, Typed, TypeOK, PcStates, session, phone, daemon
  <1>4. attempt[p] < Attempts
    BY <1>1, SizeAssumption DEF Typed, Placed
  <1>5. (\A q \in Syncers : Placed(q)') /\ Mutex'
    BY <1>1, <1>4, RestStep DEF CatchupStart, Rests
  <1> QED
    BY <1>3, <1>5 DEF Typed

LEMMA CatchupTimerTyped ==
    ASSUME Typed, NEW p \in Syncers, CatchupTimer(p)
    PROVE  Typed'
  <1>1. /\ pc' \in [Syncers -> PcStates] /\ pc[p] = "wait" /\ pc'[p] \in {"done", "lock"}
        /\ \A q \in Syncers \ {p} : pc'[q] = pc[q]
    BY GotoTyped DEF CatchupTimer, Typed, PcStates
  <1>2. attempt[p] \in 0 .. Attempts /\ attempt[p] < Attempts /\ Attempts \in Nat
    BY <1>1, SizeAssumption DEF Typed, TypeOK, Placed
  <1>3. /\ attempt' \in [Syncers -> 0 .. Attempts]
        /\ \A q \in Syncers \ {p} : attempt'[q] = attempt[q]
    BY <1>2 DEF CatchupTimer, Typed, TypeOK
  <1>4. TypeOK'
    BY <1>1, <1>3 DEF CatchupTimer, Typed, TypeOK, PcStates, session, phone, daemon
  <1>5. (\A q \in Syncers : Placed(q)') /\ Mutex'
    BY <1>1, <1>3, RestStep DEF CatchupTimer, Rests
  <1> QED
    BY <1>4, <1>5 DEF Typed

LEMMA RefreshStartTyped ==
    ASSUME Typed, NEW p \in Syncers, RefreshStart(p)
    PROVE  Typed'
  <1>1. /\ pc' \in [Syncers -> PcStates] /\ pc[p] = "idle" /\ pc'[p] = "lock"
        /\ \A q \in Syncers \ {p} : pc'[q] = pc[q]
    BY GotoTyped DEF RefreshStart, Typed, PcStates
  <1>2. role' \in [Syncers -> Roles]
    BY DEF RefreshStart, Typed, TypeOK, Roles
  <1>3. TypeOK'
    BY <1>1, <1>2 DEF RefreshStart, Typed, TypeOK, PcStates, session, phone, daemon
  <1>4. (\A q \in Syncers : Placed(q)') /\ Mutex'
    BY <1>1, RestStep DEF RefreshStart, Rests
  <1> QED
    BY <1>3, <1>4 DEF Typed

\* A sync that fails, wherever it was, leaves every place in order.
LEMMA FailStep ==
    ASSUME Typed, NEW p \in Syncers, Fails(p), UNCHANGED attempt,
           pc[p] \in Holds \/ syncMu = NoSync
    PROVE  (\A q \in Syncers : Placed(q)') /\ Mutex'
  <1>1. /\ pc'[p] \in {"wait", "done"} /\ (pc'[p] = "wait" => attempt[p] < Attempts)
        /\ work'[p] = NoWork /\ syncMu' = NoSync
        /\ \A q \in Syncers \ {p} : pc'[q] = pc[q] /\ work'[q] = work[q]
    BY FailsTyped DEF Typed
  <1>2. \A q \in Syncers : Placed(q)'
    BY <1>1 DEF Typed, Placed, Rests
  <1>3. \A q \in Syncers \ {p} : pc[q] \notin Holds
    BY SyncersAssumption DEF Typed, Mutex
  <1>4. Mutex'
    BY <1>1, <1>3, SyncersAssumption DEF Mutex, Holds
  <1> QED
    BY <1>2, <1>4

\* A step within a sync, of the goroutine that holds syncMu throughout.
LEMMA HeldStep ==
    ASSUME Typed, NEW p \in Syncers, pc[p] \in Holds, pc'[p] \in Holds,
           pc'[p] = "page" => work'[p].pages < MaxPages,
           \A q \in Syncers \ {p} : pc'[q] = pc[q] /\ work'[q] = work[q],
           UNCHANGED << syncMu, attempt >>
    PROVE  (\A q \in Syncers : Placed(q)') /\ Mutex'
  BY DEF Typed, Placed, Mutex, Rests, Holds

\* What SyncBegin captures.
LEMMA BeginEffect ==
    ASSUME Typed, NEW p \in Syncers, SyncBegin(p), ~(closed \/ ~client)
    PROVE  /\ pc' \in [Syncers -> PcStates] /\ pc[p] = "lock" /\ pc'[p] = "page"
           /\ work' \in [Syncers -> Work]
           /\ work'[p] = Began(NoWork, lifecycle, Inbox)
           /\ \A q \in Syncers \ {p} : pc'[q] = pc[q] /\ work'[q] = work[q]
           /\ syncMu = NoSync /\ syncMu' = p
           /\ UNCHANGED << session, syncActive, syncGen, phone, role, era, attempt, live,
                           daemon, served >>
  <1>1. /\ Goto(p, "lock", "page") /\ syncMu = NoSync /\ syncMu' = p
        /\ work' = [work EXCEPT ![p].lc = lifecycle, ![p].stayed = Inbox]
        /\ UNCHANGED << session, syncActive, syncGen, phone, role, era, attempt, live,
                        daemon, served >>
    BY DEF SyncBegin, Free
  <1>2. /\ pc' \in [Syncers -> PcStates] /\ pc[p] = "lock" /\ pc'[p] = "page"
        /\ \A q \in Syncers \ {p} : pc'[q] = pc[q]
    BY <1>1, GotoTyped DEF Typed, PcStates
  <1>3. work[p] = NoWork
    BY <1>2 DEF Typed, Placed, Rests
  <1>4. /\ work'[p] = Began(NoWork, lifecycle, Inbox)
        /\ \A q \in Syncers \ {p} : work'[q] = work[q]
        /\ work' = [work EXCEPT ![p] = work'[p]]
    BY <1>1, <1>3 DEF Typed, TypeOK, Began
  <1>5. work'[p] \in Work
    <2>1. lifecycle \in Nat
      BY DEF Typed, TypeOK
    <2>2. Inbox \in SUBSET Threads
      BY DEF Inbox
    <2> QED
      BY <1>4, <2>1, <2>2, BeganTyped, NoWorkTyped
  <1>6. work' \in [Syncers -> Work]
    BY <1>4, <1>5 DEF Typed, TypeOK
  <1> QED
    BY <1>1, <1>2, <1>3, <1>4, <1>6

LEMMA BeginTyped ==
    ASSUME Typed, NEW p \in Syncers, SyncBegin(p)
    PROVE  Typed'
  <1>1. pc[p] = "lock" /\ syncMu = NoSync
    BY DEF SyncBegin, Free
  <1>2. CASE closed \/ ~client
    <2>1. Fails(p) /\ UNCHANGED << session, syncGen, phone, role, era, attempt, live,
                                   daemon, served >>
      BY <1>2 DEF SyncBegin
    <2>2. TypeOK'
      BY <2>1, FailsTyped DEF Typed, TypeOK, PcStates, session, phone, daemon
    <2> QED
      BY <1>1, <2>1, <2>2, FailStep DEF Typed
  <1>3. CASE ~(closed \/ ~client)
    <2>1. /\ pc' \in [Syncers -> PcStates] /\ pc'[p] = "page"
          /\ work' \in [Syncers -> Work]
          /\ work'[p] = Began(NoWork, lifecycle, Inbox)
          /\ \A q \in Syncers \ {p} : pc'[q] = pc[q] /\ work'[q] = work[q]
          /\ syncMu' = p
          /\ UNCHANGED << session, syncActive, syncGen, phone, role, era, attempt, live,
                          daemon, served >>
      BY <1>3, BeginEffect
    <2>2. TypeOK'
      BY <2>1 DEF Typed, TypeOK, PcStates, session, phone, daemon
    <2>3. work'[p].pages < MaxPages
      BY <2>1, SizeAssumption DEF NoWork, Began
    <2>4. \A q \in Syncers : Placed(q)'
      BY <2>1, <2>3 DEF Typed, Placed, Rests
    <2>5. Mutex'
      BY <1>1, <2>1, SyncersAssumption DEF Typed, Mutex, Holds
    <2> QED
      BY <2>2, <2>4, <2>5 DEF Typed
  <1> QED
    BY <1>2, <1>3

LEMMA ListFailsTyped ==
    ASSUME Typed, NEW p \in Syncers, SyncListFails(p)
    PROVE  Typed'
  <1>1. pc[p] = "page" /\ Fails(p) /\ UNCHANGED << session, syncGen, phone, role, era, attempt,
                                                    live, daemon, served >>
    BY DEF SyncListFails
  <1>2. TypeOK'
    BY <1>1, FailsTyped DEF Typed, TypeOK, PcStates, session, phone, daemon
  <1> QED
    BY <1>1, <1>2, FailStep DEF Typed, Holds

\* What one page adds to a list: it is the last, or the list goes on behind it.
PageTaken(p, page, cursor, last) ==
    LET capped == ~last /\ Capped(p) IN
    /\ work'[p] = Paged(work[p], work[p].listed \cup page, work[p].pages + 1, ~capped, cursor)
    /\ pc'[p] = IF last \/ capped THEN "map" ELSE "page"

LEMMA CursorTyped ==
    ASSUME TypeOK, NEW page \in SUBSET Threads, NEW cursor \in Cursors(page)
    PROVE  /\ cursor \in Nat
           /\ page # {} => \E t \in page : cursor = activity[t]
  BY DEF TypeOK, Cursors

LEMMA PageEffect ==
    ASSUME Typed, NEW p \in Syncers, SyncPage(p)
    PROVE  /\ pc[p] = "page" /\ Current(p)
           /\ \E page \in Pages(work[p].after), last \in BOOLEAN :
               \E cursor \in Cursors(page) :
                 /\ last => page = Behind(work[p].after)
                 /\ PageTaken(p, page, cursor, last)
           /\ pc' \in [Syncers -> PcStates] /\ work' \in [Syncers -> Work]
           /\ \A q \in Syncers \ {p} : pc'[q] = pc[q] /\ work'[q] = work[q]
           /\ UNCHANGED << session, syncActive, syncMu, syncGen, phone, role, era, attempt, live,
                           daemon, served >>
  <1>1. PICK page \in Pages(work[p].after), more \in BOOLEAN : \E cursor \in Cursors(page) :
          LET last == ~more \/ Cardinality(page) < PageSize
              capped == ~last /\ Capped(p) IN
          /\ page # Behind(work[p].after) => more
          /\ work' = [work EXCEPT ![p].listed = @ \cup page,
                                  ![p].pages = @ + 1,
                                  ![p].complete = ~capped,
                                  ![p].after = cursor]
          /\ pc' = [pc EXCEPT ![p] = IF last \/ capped THEN "map" ELSE "page"]
    BY DEF SyncPage
  <1> DEFINE last == ~more \/ Cardinality(page) < PageSize
             capped == ~last /\ Capped(p)
             complete == ~capped
  <1>2. PICK cursor \in Cursors(page) :
          /\ page # Behind(work[p].after) => more
          /\ work' = [work EXCEPT ![p].listed = @ \cup page,
                                  ![p].pages = @ + 1,
                                  ![p].complete = ~capped,
                                  ![p].after = cursor]
          /\ pc' = [pc EXCEPT ![p] = IF last \/ capped THEN "map" ELSE "page"]
    BY <1>1
  <1>3. pc[p] = "page" /\ Current(p)
        /\ UNCHANGED << session, syncActive, syncMu, syncGen, phone, role, era, attempt, live,
                        daemon, served >>
    BY DEF SyncPage
  <1>4. page \subseteq Threads
    BY DEF Pages, Behind, Inbox
  <1>5. last \in BOOLEAN /\ complete \in BOOLEAN /\ (last => page = Behind(work[p].after))
    <2>1. page # Behind(work[p].after) => Cardinality(page) = PageSize
      BY DEF Pages
    <2>2. ~(PageSize < PageSize)
      BY SizeAssumption
    <2> QED
      BY <1>2, <2>1, <2>2
  <1>6. ~(last \/ capped) => work[p].pages + 1 # MaxPages
    BY DEF Capped
  <1>whole. capped <=> ~complete
    OBVIOUS
  <1> HIDE DEF complete
  <1>7. /\ pc' \in [Syncers -> PcStates]
        /\ pc'[p] = IF last \/ capped THEN "map" ELSE "page"
        /\ \A q \in Syncers \ {p} : pc'[q] = pc[q] /\ work'[q] = work[q]
        /\ work'[p] = Paged(work[p], work[p].listed \cup page, work[p].pages + 1, complete,
                            cursor)
        /\ work' = [work EXCEPT ![p] = work'[p]]
    BY <1>2 DEF Typed, TypeOK, PcStates, Paged, complete
  <1> HIDE DEF last, capped
  <1>8. /\ work[p] \in Work /\ work[p].pages \in 0 .. MaxPages /\ work[p].pages < MaxPages
        /\ work[p].listed \subseteq Threads
    BY <1>3, WorkFields DEF Typed, TypeOK, Placed
  <1>9. work'[p] \in Work
    <2>1. work[p].listed \cup page \in SUBSET Threads
      BY <1>4, <1>8
    <2>2. work[p].pages + 1 \in 0 .. MaxPages
      BY <1>8, SizeAssumption
    <2>3. cursor \in Nat
      BY <1>4, CursorTyped DEF Typed
    <2> QED
      BY <1>5, <1>7, <1>8, <2>1, <2>2, <2>3, PagedTyped
  <1>10. work' \in [Syncers -> Work]
    BY <1>7, <1>9 DEF Typed, TypeOK
  <1>11. PageTaken(p, page, cursor, last)
    BY <1>7 DEF PageTaken, capped, complete
  <1> QED
    BY <1>2, <1>3, <1>5, <1>7, <1>10, <1>11

LEMMA PageTyped ==
    ASSUME Typed, NEW p \in Syncers, SyncPage(p)
    PROVE  Typed'
  <1>1. /\ pc[p] = "page"
        /\ pc' \in [Syncers -> PcStates] /\ work' \in [Syncers -> Work]
        /\ \A q \in Syncers \ {p} : pc'[q] = pc[q] /\ work'[q] = work[q]
        /\ UNCHANGED << session, syncActive, syncMu, syncGen, phone, role, era, attempt, live,
                        daemon, served >>
    BY PageEffect
  <1>2. PICK page \in Pages(work[p].after), last \in BOOLEAN :
          \E cursor \in Cursors(page) : PageTaken(p, page, cursor, last)
    BY PageEffect
  <1>3. TypeOK'
    BY <1>1 DEF Typed, TypeOK, PcStates, session, phone, daemon
  <1>4. work[p] \in Work /\ work[p].pages \in 0 .. MaxPages /\ work[p].pages < MaxPages
    BY <1>1, WorkFields DEF Typed, TypeOK, Placed
  <1>5. pc'[p] \in {"map", "page"} /\ (pc'[p] = "page" => work'[p].pages < MaxPages)
    <2>1. work'[p].pages = work[p].pages + 1
      BY <1>2, <1>4 DEF PageTaken, Paged, Work
    <2>2. pc'[p] = "page" => work[p].pages + 1 # MaxPages
      BY <1>2 DEF PageTaken, Capped
    <2>3. pc'[p] \in {"map", "page"}
      BY <1>2 DEF PageTaken
    <2> QED
      BY <1>4, <2>1, <2>2, <2>3, SizeAssumption
  <1> QED
    BY <1>1, <1>3, <1>5, HeldStep DEF Typed, Holds

LEMMA MapEffect ==
    ASSUME Typed, NEW p \in Syncers, SyncMap(p), Current(p)
    PROVE  /\ pc[p] = "map" /\ pc'[p] = "emit"
           /\ \E mapped \in SUBSET work[p].listed, whole \in BOOLEAN, gen \in Nat :
                /\ whole => work[p].complete /\ mapped = work[p].listed
                /\ work'[p] = Mapped(work[p], mapped, whole, gen)
           /\ pc' \in [Syncers -> PcStates] /\ work' \in [Syncers -> Work]
           /\ \A q \in Syncers \ {p} : pc'[q] = pc[q] /\ work'[q] = work[q]
           /\ syncGen' \in Nat
           /\ UNCHANGED << session, syncActive, syncMu, phone, role, era, attempt, live,
                           daemon, served >>
  <1>1. PICK mapped \in SUBSET work[p].listed, many \in BOOLEAN :
          /\ syncGen' = syncGen + 1
          /\ work' = [work EXCEPT ![p].listed = mapped, ![p].left = mapped,
                                  ![p].after = 0, ![p].pages = 0,
                                  ![p].complete = Whole(p, mapped),
                                  ![p].gen = IF Whole(p, mapped) /\ many THEN syncGen + 1 ELSE 0]
          /\ Goto(p, "map", "emit")
    BY DEF SyncMap
  <1>2. UNCHANGED << session, syncActive, syncMu, phone, role, era, attempt, live, daemon,
                     served >>
    BY DEF SyncMap
  <1> DEFINE whole == Whole(p, mapped)
             gen == IF whole /\ many THEN syncGen + 1 ELSE 0
  <1>3. whole \in BOOLEAN /\ gen \in Nat /\ syncGen' \in Nat
    BY <1>1 DEF Typed, TypeOK, Whole
  <1>4. whole => work[p].complete /\ mapped = work[p].listed
    BY DEF Whole
  <1> HIDE DEF whole, gen
  <1>5. /\ pc' \in [Syncers -> PcStates] /\ pc[p] = "map" /\ pc'[p] = "emit"
        /\ \A q \in Syncers \ {p} : pc'[q] = pc[q]
    BY <1>1, GotoTyped DEF Typed, PcStates
  <1>6. /\ work'[p] = Mapped(work[p], mapped, whole, gen)
        /\ work' = [work EXCEPT ![p] = work'[p]]
        /\ \A q \in Syncers \ {p} : work'[q] = work[q]
    BY <1>1 DEF Typed, TypeOK, Mapped, whole, gen
  <1>7. work[p] \in Work /\ mapped \in SUBSET Threads
    BY WorkFields DEF Typed, TypeOK
  <1>8. work'[p] \in Work
    BY <1>3, <1>6, <1>7, MappedTyped
  <1>9. work' \in [Syncers -> Work]
    BY <1>6, <1>8 DEF Typed, TypeOK
  <1> QED
    BY <1>2, <1>3, <1>4, <1>5, <1>6, <1>9

LEMMA MapTyped ==
    ASSUME Typed, NEW p \in Syncers, SyncMap(p)
    PROVE  Typed'
  <1>1. CASE ~Current(p)
    <2>1. /\ pc[p] = "map" /\ Fails(p)
          /\ UNCHANGED << session, syncGen, phone, role, era, attempt, live, daemon, served >>
      BY <1>1 DEF SyncMap
    <2>2. TypeOK'
      BY <2>1, FailsTyped DEF Typed, TypeOK, PcStates, session, phone, daemon
    <2> QED
      BY <2>1, <2>2, FailStep DEF Typed, Holds
  <1>2. CASE Current(p)
    <2>1. /\ pc[p] = "map" /\ pc'[p] = "emit"
          /\ pc' \in [Syncers -> PcStates] /\ work' \in [Syncers -> Work]
          /\ \A q \in Syncers \ {p} : pc'[q] = pc[q] /\ work'[q] = work[q]
          /\ syncGen' \in Nat
          /\ UNCHANGED << session, syncActive, syncMu, phone, role, era, attempt, live,
                          daemon, served >>
      BY <1>2, MapEffect
    <2>2. TypeOK'
      BY <2>1 DEF Typed, TypeOK, PcStates, session, phone, daemon
    <2> QED
      BY <2>1, <2>2, HeldStep DEF Typed, Holds
  <1> QED
    BY <1>1, <1>2

\* What a chunk does, the last one or not.
ChunkSent(p, chunk, last) ==
    LET w == work[p] IN
    /\ w.complete => IF w.gen = 0 THEN last ELSE w.left = w.listed => ~last
    /\ Deliver(chunk, w.complete /\ last, w.gen, w.lc)
    /\ work'[p] = Emitted(w, w.left \ chunk, IF last THEN {} ELSE w.stayed)
    /\ pc'[p] = IF last THEN "after" ELSE "emit"
    /\ syncMu' = IF last THEN NoSync ELSE syncMu

LEMMA EmitEffect ==
    ASSUME Typed, NEW p \in Syncers, SyncEmit(p)
    PROVE  /\ pc[p] = "emit" /\ syncMu = p
           /\ \E chunk \in SUBSET work[p].left, last \in BOOLEAN :
                /\ last <=> chunk = work[p].left
                /\ ChunkSent(p, chunk, last)
           /\ pc' \in [Syncers -> PcStates] /\ work' \in [Syncers -> Work]
           /\ \A q \in Syncers \ {p} : pc'[q] = pc[q] /\ work'[q] = work[q]
           /\ served' \subseteq Syncers
           /\ UNCHANGED << session, syncActive, syncGen, phone, role, era, attempt, live >>
  <1>1. PICK chunk \in SUBSET work[p].left :
          LET w == work[p] last == chunk = w.left IN
          /\ w.left # {} => chunk # {}
          /\ w.complete => IF w.gen = 0 THEN last ELSE w.left = w.listed => ~last
          /\ Deliver(chunk, w.complete /\ last, w.gen, w.lc)
          /\ work' = [work EXCEPT ![p].left = @ \ chunk, ![p].stayed = IF last THEN {} ELSE @]
          /\ IF last THEN /\ Goto(p, "emit", "after")
                          /\ syncMu' = NoSync /\ served' = served \cup {p}
             ELSE UNCHANGED << pc, syncMu, served >>
    BY DEF SyncEmit
  <1>2. pc[p] = "emit" /\ UNCHANGED << session, syncActive, syncGen, phone, role, era, attempt,
                                       live >>
    BY DEF SyncEmit
  <1>3. syncMu = p
    BY <1>2 DEF Typed, Mutex, Holds
  <1>4. PICK last \in BOOLEAN : last <=> chunk = work[p].left
    OBVIOUS
  <1>5. /\ pc' \in [Syncers -> PcStates] /\ pc'[p] = (IF last THEN "after" ELSE "emit")
        /\ \A q \in Syncers \ {p} : pc'[q] = pc[q]
        /\ served' \subseteq Syncers
        /\ syncMu' = IF last THEN NoSync ELSE syncMu
    BY <1>1, <1>2, <1>4 DEF Goto, Typed, TypeOK, PcStates
  <1>6. /\ work'[p] = Emitted(work[p], work[p].left \ chunk,
                              IF last THEN {} ELSE work[p].stayed)
        /\ work' = [work EXCEPT ![p] = work'[p]]
        /\ \A q \in Syncers \ {p} : work'[q] = work[q]
    BY <1>1, <1>4 DEF Typed, TypeOK, Emitted
  <1>7. work[p] \in Work /\ work[p].left \ chunk \in SUBSET Threads
        /\ (IF last THEN {} ELSE work[p].stayed) \in SUBSET Threads
    BY WorkFields DEF Typed, TypeOK
  <1>8. work'[p] \in Work
    BY <1>6, <1>7, EmittedTyped
  <1>9. work' \in [Syncers -> Work]
    BY <1>6, <1>8 DEF Typed, TypeOK
  <1>10. ChunkSent(p, chunk, last)
    <2>1. (work[p].complete /\ last) = (work[p].complete /\ chunk = work[p].left)
      BY <1>4
    <2> QED
      BY <1>1, <1>4, <1>5, <1>6, <2>1 DEF ChunkSent
  <1> QED
    BY <1>2, <1>3, <1>4, <1>5, <1>6, <1>9, <1>10

LEMMA EmitTyped ==
    ASSUME Typed, NEW p \in Syncers, SyncEmit(p)
    PROVE  Typed'
  <1>1. /\ pc[p] = "emit" /\ syncMu = p
        /\ pc' \in [Syncers -> PcStates] /\ work' \in [Syncers -> Work]
        /\ \A q \in Syncers \ {p} : pc'[q] = pc[q] /\ work'[q] = work[q]
        /\ served' \subseteq Syncers
        /\ UNCHANGED << session, syncActive, syncGen, phone, role, era, attempt, live >>
    BY EmitEffect
  <1>2. PICK chunk \in SUBSET work[p].left, last \in BOOLEAN : ChunkSent(p, chunk, last)
    BY EmitEffect
  <1>3. /\ mirror' \subseteq Threads /\ reconciledBy' \in Nat
        /\ gathered' \in [gen : Nat, threads : SUBSET Threads]
    <2>1. work[p].lc \in Nat /\ work[p].gen \in Nat /\ chunk \in SUBSET Threads
      BY WorkFields DEF Typed, TypeOK
    <2>2. PICK full \in BOOLEAN : full = (work[p].complete /\ last)
      OBVIOUS
    <2>3. Deliver(chunk, full, work[p].gen, work[p].lc)
      BY <1>2, <2>2 DEF ChunkSent
    <2> QED
      BY <2>1, <2>3, DeliverTyped DEF Typed
  <1>4. pc'[p] = (IF last THEN "after" ELSE "emit") /\ syncMu' = (IF last THEN NoSync ELSE p)
    BY <1>1, <1>2 DEF ChunkSent
  <1>5. TypeOK'
    BY <1>1, <1>3, <1>4 DEF Typed, TypeOK, PcStates, session, phone
  <1>6. \A q \in Syncers : Placed(q)'
    BY <1>1, <1>4 DEF Typed, Placed, Rests
  <1>7. \A q \in Syncers \ {p} : pc[q] \notin Holds
    BY <1>1 DEF Typed, Mutex
  <1>8. Mutex'
    BY <1>1, <1>4, <1>7, SyncersAssumption DEF Mutex, Holds
  <1> QED
    BY <1>5, <1>6, <1>8 DEF Typed

LEMMA AfterTyped ==
    ASSUME Typed, NEW p \in Syncers, SyncAfter(p)
    PROVE  Typed'
  <1>1. /\ pc[p] = "after" /\ \E ok : Returns(p, ok)
        /\ work' = [work EXCEPT ![p] = NoWork]
        /\ UNCHANGED << session, syncMu, syncGen, phone, role, era, attempt, live, daemon,
                        served >>
    BY DEF SyncAfter
  <1>2. /\ pc' \in [Syncers -> PcStates] /\ syncActive' \in BOOLEAN
        /\ pc'[p] \in {"wait", "done"} /\ (pc'[p] = "wait" => attempt[p] < Attempts)
        /\ \A q \in Syncers \ {p} : pc'[q] = pc[q]
    BY <1>1, ReturnsTyped DEF Typed
  <1>3. /\ work' \in [Syncers -> Work] /\ work'[p] = NoWork
        /\ \A q \in Syncers \ {p} : work'[q] = work[q]
    BY <1>1, NoWorkTyped DEF Typed, TypeOK
  <1>4. TypeOK'
    BY <1>1, <1>2, <1>3 DEF Typed, TypeOK, PcStates, session, phone, daemon
  <1>5. \A q \in Syncers : Placed(q)'
    BY <1>1, <1>2, <1>3 DEF Typed, Placed, Rests
  <1>6. Mutex'
    BY <1>1, <1>2 DEF Typed, Mutex, Holds
  <1> QED
    BY <1>4, <1>5, <1>6 DEF Typed

LEMMA EventTyped ==
    ASSUME Typed, EventCheck \/ EventEmit
    PROVE  Typed'
  <1>1. CASE EventCheck
    <2>1. PICK event \in live, fetched \in {{TRUE}, {}} :
            live' = (live \ {event}) \cup [checked : fetched, thread : {event.thread},
                                           lifecycle : {event.lifecycle} \cap {lifecycle}]
      BY <1>1 DEF EventCheck
    <2>2. event \in Events
      BY DEF Typed, TypeOK, Events
    <2>3. [checked : fetched, thread : {event.thread},
           lifecycle : {event.lifecycle} \cap {lifecycle}] \subseteq Events
      BY <2>2 DEF Events
    <2>4. live' \in SUBSET Events
      BY <2>1, <2>3 DEF Typed, TypeOK, Events
    <2>5. UNCHANGED << session, syncActive, syncMu, syncGen, phone, pc, role, era, attempt, work,
                       daemon, served >>
      BY <1>1 DEF EventCheck
    <2> QED
      BY <2>4, <2>5 DEF Typed, TypeOK, Events, Placed, Mutex, session, phone, daemon
  <1>2. CASE EventEmit
    <2>1. PICK event \in live : /\ live' = live \ {event}
                               /\ Deliver({event.thread}, FALSE, 0, event.lifecycle)
      BY <1>2 DEF EventEmit
    <2>2. {event.thread} \in SUBSET Threads /\ event.lifecycle \in Nat
      BY DEF Typed, TypeOK
    <2>3. /\ mirror' \subseteq Threads /\ reconciledBy' \in Nat
          /\ gathered' \in [gen : Nat, threads : SUBSET Threads]
      BY <2>1, <2>2, DeliverTyped DEF Typed
    <2>4. UNCHANGED << session, syncActive, syncMu, syncGen, phone, pc, role, era, attempt, work,
                       served >>
      BY <1>2 DEF EventEmit
    <2>5. live' \in SUBSET Events
      BY <2>1 DEF Typed, TypeOK, Events
    <2> QED
      BY <2>3, <2>4, <2>5 DEF Typed, TypeOK, Events, Placed, Mutex, session, phone
  <1> QED
    BY <1>1, <1>2

\* The threads a listing still has to keep after a message in t.
Kept(w, t) == w.stayed \ ({t} \ w.listed)

LEMMA ActiveEffect ==
    ASSUME Typed, NEW t \in Threads, ThreadActive(t)
    PROVE  /\ work' \in [Syncers -> Work]
           /\ \A p \in Syncers : /\ work[p] \in Work /\ Kept(work[p], t) \in SUBSET Threads
                                 /\ work'[p] = Stays(work[p], Kept(work[p], t))
  <1>1. work' = [p \in Syncers |-> Stays(work[p], Kept(work[p], t))]
    BY DEF ThreadActive, Stays, Kept
  <1>2. \A p \in Syncers : work[p] \in Work /\ Kept(work[p], t) \in SUBSET Threads
    BY WorkFields DEF Typed, TypeOK, Kept
  <1>3. \A p \in Syncers : Stays(work[p], Kept(work[p], t)) \in Work
    BY <1>2, StaysTyped
  <1> QED
    BY <1>1, <1>2, <1>3

LEMMA ThreadActiveTyped ==
    ASSUME Typed, NEW t \in Threads, ThreadActive(t)
    PROVE  Typed'
  <1>1. N + changes + 1 \in Nat /\ changes + 1 \in Nat
    BY SizeAssumption DEF Typed, TypeOK
  <1>2. activity' \in [Threads -> Nat] /\ changes' \in Nat
    BY <1>1 DEF ThreadActive, Typed, TypeOK
  <1>3. live' \in SUBSET Events
    <2>1. [thread |-> t, lifecycle |-> lifecycle, checked |-> FALSE] \in Events
      BY DEF Typed, TypeOK, Events
    <2>2. live \in SUBSET Events
      BY DEF Typed, TypeOK, Events
    <2> QED
      BY <2>1, <2>2 DEF ThreadActive
  <1>4. UNCHANGED << session, syncActive, syncMu, syncGen, present, pc, role, era, attempt,
                     daemon, served >>
    BY DEF ThreadActive
  <1>5. work' \in [Syncers -> Work]
    BY ActiveEffect
  <1>6. TypeOK'
    BY <1>2, <1>3, <1>4, <1>5 DEF Typed, TypeOK, Events, session, daemon
  <1>7. ASSUME NEW p \in Syncers PROVE Placed(p)'
    <2>1. /\ work'[p] = Stays(work[p], Kept(work[p], t))
          /\ work[p] \in Work /\ Kept(work[p], t) \in SUBSET Threads
      BY ActiveEffect
    <2>2. work'[p].pages = work[p].pages
      BY <2>1, StaysTyped
    <2>3. work[p] = NoWork => work'[p] = NoWork
      BY <2>1 DEF Stays, NoWork, Kept
    <2> QED
      BY <1>4, <2>2, <2>3 DEF Typed, Placed
  <1>8. Mutex'
    BY <1>4 DEF Typed, Mutex
  <1> QED
    BY <1>6, <1>7, <1>8 DEF Typed

LEMMA GoneEffect ==
    ASSUME Typed, NEW t \in Threads, ThreadGone(t)
    PROVE  /\ work' \in [Syncers -> Work]
           /\ \A p \in Syncers : /\ work[p] \in Work /\ work[p].stayed \ {t} \in SUBSET Threads
                                 /\ work'[p] = Stays(work[p], work[p].stayed \ {t})
  <1>1. work' = [p \in Syncers |-> Stays(work[p], work[p].stayed \ {t})]
    BY DEF ThreadGone, Stays
  <1>2. \A p \in Syncers : work[p] \in Work /\ work[p].stayed \ {t} \in SUBSET Threads
    BY WorkFields DEF Typed, TypeOK
  <1>3. \A p \in Syncers : Stays(work[p], work[p].stayed \ {t}) \in Work
    BY <1>2, StaysTyped
  <1> QED
    BY <1>1, <1>2, <1>3

LEMMA ThreadGoneTyped ==
    ASSUME Typed, NEW t \in Threads, ThreadGone(t)
    PROVE  Typed'
  <1>1. work' \in [Syncers -> Work]
    BY GoneEffect
  <1>2. activity' \in [Threads -> Nat] /\ changes' \in Nat /\ present' \subseteq Threads
    BY DEF ThreadGone, Typed, TypeOK
  <1>3. UNCHANGED << session, syncActive, syncMu, syncGen, pc, role, era, attempt, live, daemon,
                     served >>
    BY DEF ThreadGone
  <1>4. TypeOK'
    BY <1>1, <1>2, <1>3 DEF Typed, TypeOK, session, daemon
  <1>5. ASSUME NEW p \in Syncers PROVE Placed(p)'
    <2>1. /\ work'[p] = Stays(work[p], work[p].stayed \ {t})
          /\ work[p] \in Work /\ work[p].stayed \ {t} \in SUBSET Threads
      BY GoneEffect
    <2>2. work'[p].pages = work[p].pages
      BY <2>1, StaysTyped
    <2>3. work[p] = NoWork => work'[p] = NoWork
      BY <2>1 DEF Stays, NoWork
    <2> QED
      BY <1>3, <2>2, <2>3 DEF Typed, Placed
  <1>6. Mutex'
    BY <1>3 DEF Typed, Mutex
  <1> QED
    BY <1>4, <1>5, <1>6 DEF Typed

LEMMA RetireTyped ==
    ASSUME Typed, Retire
    PROVE  Typed'
  <1>1. lifecycle' \in Nat /\ client' \in BOOLEAN /\ closed' \in BOOLEAN
    <2>1. lifecycle \in Nat /\ client \in BOOLEAN /\ closed \in BOOLEAN
      BY DEF Typed, TypeOK
    <2>2. lifecycle' \in Nat
      BY <2>1 DEF Retire
    <2>3. (client' \in BOOLEAN /\ closed' = closed) \/ (closed' = TRUE /\ client' = client)
      BY DEF Retire
    <2>4. client' \in BOOLEAN /\ closed' \in BOOLEAN
      BY <2>1, <2>3, Zenon
    <2> QED
      BY <2>2, <2>4
  <1>2. UNCHANGED << syncActive, syncMu, syncGen, phone, pc, role, era, attempt, work, live,
                     daemon, served >>
    BY DEF Retire
  <1> QED
    BY <1>1, <1>2 DEF Typed, TypeOK, Placed, Mutex, phone, daemon

LEMMA TypedInit == Init => Typed
  <1> SUFFICES ASSUME Init PROVE Typed
    OBVIOUS
  <1>1. work \in [Syncers -> Work]
    BY NoWorkTyped DEF Init
  <1>2. activity \in [Threads -> Nat]
    BY SizeAssumption DEF Init, Threads
  <1>3. live \in SUBSET Events /\ gathered \in [gen : Nat, threads : SUBSET Threads]
    BY DEF Init
  <1>4. 0 \in 0 .. Attempts
    BY SizeAssumption
  <1>5. TypeOK
    BY <1>1, <1>2, <1>3, <1>4 DEF Init, TypeOK, Events, Roles
  <1>6. (\A p \in Syncers : Placed(p)) /\ Mutex
    BY SyncersAssumption DEF Init, Placed, Mutex, Holds
  <1> QED
    BY <1>5, <1>6 DEF Typed

LEMMA TypedStep == Typed /\ [Next]_vars => Typed'
  <1> SUFFICES ASSUME Typed, [Next]_vars PROVE Typed'
    OBVIOUS
  <1>1. ASSUME NEW p \in Syncers, SyncCommand(p) \/ CatchupStart(p) \/ RefreshStart(p)
        PROVE  Typed'
    BY <1>1, CommandTyped, CatchupStartTyped, RefreshStartTyped
  <1>2. ASSUME NEW p \in Syncers, SyncStep(p) PROVE Typed'
    BY <1>2, CatchupTimerTyped, BeginTyped, ListFailsTyped, PageTyped, MapTyped, EmitTyped,
       AfterTyped DEF SyncStep
  <1>3. ASSUME NEW t \in Threads, ThreadActive(t) \/ ThreadGone(t) PROVE Typed'
    BY <1>3, ThreadActiveTyped, ThreadGoneTyped
  <1>4. CASE EventCheck \/ EventEmit
    BY <1>4, EventTyped
  <1>5. CASE Retire
    BY <1>5, RetireTyped
  <1>6. CASE UNCHANGED vars
    BY <1>6 DEF vars, Typed, TypeOK, Placed, Mutex, session, phone, daemon
  <1> QED
    BY <1>1, <1>2, <1>3, <1>4, <1>5, <1>6 DEF Next

LEMMA TypedAlways == Spec => []Typed
  BY TypedInit, TypedStep, PTL DEF Spec

\* Every state of SyncEmission is well typed, and a list never passes the
\* limit of pages.
THEOREM TypeCorrect == Spec => []TypeOK
  <1>1. Typed => TypeOK
    BY DEF Typed
  <1> QED
    BY <1>1, TypedAlways, PTL

-----------------------------------------------------------------------------
(* The order of the lists.                                                 *)

\* Whoever holds syncMu captured its lifecycle under it, so no list that was
\* emitted before can be newer.
InTurn ==
    /\ reconciledBy <= lifecycle
    /\ \A p \in Syncers : pc[p] \in Holds => reconciledBy <= work[p].lc /\ work[p].lc <= lifecycle

LEMMA QuietInTurn ==
    ASSUME Typed, InTurn, UNCHANGED reconciledBy, lifecycle' >= lifecycle, lifecycle' \in Nat,
           \A p \in Syncers : pc'[p] \in Holds =>
               pc[p] \in Holds /\ work'[p].lc = work[p].lc
    PROVE  InTurn' /\ reconciledBy' >= reconciledBy
  <1>1. /\ reconciledBy \in Nat /\ lifecycle \in Nat
        /\ \A p \in Syncers : work[p].lc \in Nat
    BY WorkFields DEF Typed, TypeOK
  <1> QED
    BY <1>1 DEF InTurn

LEMMA InTurnStep ==
    ASSUME Typed, InTurn, [Next]_vars
    PROVE  InTurn' /\ reconciledBy' >= reconciledBy
  <1>1. reconciledBy \in Nat /\ lifecycle \in Nat /\ lifecycle >= lifecycle
    BY DEF Typed, TypeOK
  <1>2. ASSUME NEW p \in Syncers, SyncBegin(p) PROVE InTurn' /\ reconciledBy' >= reconciledBy
    <2>1. UNCHANGED << lifecycle, reconciledBy >>
      BY <1>2 DEF SyncBegin, session, daemon
    <2>2. CASE closed \/ ~client
      <3>1. /\ pc'[p] \notin Holds
            /\ \A q \in Syncers \ {p} : pc'[q] = pc[q] /\ work'[q] = work[q]
        BY <1>2, <2>2, FailsTyped DEF SyncBegin, Typed, Holds
      <3> QED
        BY <1>1, <2>1, <3>1, QuietInTurn
    <2>3. CASE ~(closed \/ ~client)
      <3>1. /\ work'[p].lc = lifecycle
            /\ \A q \in Syncers \ {p} : pc'[q] = pc[q] /\ work'[q] = work[q]
        BY <1>2, <2>3, BeginEffect DEF Began, NoWork
      <3> QED
        BY <1>1, <2>1, <3>1 DEF InTurn
    <2> QED
      BY <2>2, <2>3
  <1>3. ASSUME NEW p \in Syncers, SyncEmit(p) PROVE InTurn' /\ reconciledBy' >= reconciledBy
    <2>1. /\ pc[p] = "emit" /\ syncMu = p /\ UNCHANGED lifecycle
          /\ \A q \in Syncers \ {p} : pc'[q] = pc[q] /\ work'[q] = work[q]
      BY <1>3, EmitEffect DEF session
    <2>2. PICK chunk \in SUBSET work[p].left, last \in BOOLEAN : ChunkSent(p, chunk, last)
      BY <1>3, EmitEffect
    <2>3. work'[p].lc = work[p].lc /\ work[p].lc \in Nat
      <3>1. work[p] \in Work
        BY DEF Typed, TypeOK
      <3> QED
        BY <2>2, <3>1 DEF ChunkSent, Emitted, Work
    <2>4. reconciledBy' \in {reconciledBy, work[p].lc}
      BY <2>2 DEF ChunkSent, Deliver, daemon
    <2>5. reconciledBy <= work[p].lc /\ work[p].lc <= lifecycle
      BY <2>1 DEF InTurn, Holds
    <2>6. \A q \in Syncers \ {p} : pc'[q] \notin Holds
      BY <2>1 DEF Typed, Mutex
    <2> QED
      BY <1>1, <2>1, <2>3, <2>4, <2>5, <2>6 DEF InTurn
  <1>4. ASSUME NEW p \in Syncers, SyncMap(p) PROVE InTurn' /\ reconciledBy' >= reconciledBy
    <2>1. UNCHANGED << lifecycle, reconciledBy >>
      BY <1>4 DEF SyncMap, session, daemon
    <2>2. pc[p] \in Holds /\ \A q \in Syncers \ {p} : pc'[q] = pc[q] /\ work'[q] = work[q]
      BY <1>4, MapEffect, FailsTyped DEF SyncMap, Typed, Holds
    <2>3. pc'[p] \in Holds => work'[p].lc = work[p].lc
      <3>1. CASE ~Current(p)
        BY <1>4, <3>1, FailsTyped DEF SyncMap, Typed, Holds
      <3>2. CASE Current(p)
        <4>1. work[p] \in Work
          BY DEF Typed, TypeOK
        <4> QED
          BY <1>4, <3>2, <4>1, MapEffect DEF Mapped, Work
      <3> QED
        BY <3>1, <3>2
    <2> QED
      BY <1>1, <2>1, <2>2, <2>3, QuietInTurn
  <1>5. ASSUME NEW p \in Syncers, SyncPage(p) PROVE InTurn' /\ reconciledBy' >= reconciledBy
    <2>1. /\ pc[p] = "page" /\ UNCHANGED << lifecycle, reconciledBy >>
          /\ \A q \in Syncers \ {p} : pc'[q] = pc[q] /\ work'[q] = work[q]
      BY <1>5, PageEffect DEF session, daemon
    <2>2. work'[p].lc = work[p].lc
      <3>1. work[p] \in Work
        BY DEF Typed, TypeOK
      <3>2. PICK listed, pages, complete, after :
              work'[p] = Paged(work[p], listed, pages, complete, after)
        <4>1. PICK page \in Pages(work[p].after), last \in BOOLEAN :
                \E cursor \in Cursors(page) : PageTaken(p, page, cursor, last)
          BY <1>5, PageEffect
        <4> QED
          BY <4>1 DEF PageTaken
      <3> QED
        BY <3>1, <3>2 DEF Paged, Work
    <2> QED
      BY <1>1, <2>1, <2>2, QuietInTurn DEF Holds
  <1>6. ASSUME NEW p \in Syncers, SyncListFails(p) PROVE InTurn' /\ reconciledBy' >= reconciledBy
    <2>1. /\ pc'[p] \notin Holds /\ UNCHANGED << lifecycle, reconciledBy >>
          /\ \A q \in Syncers \ {p} : pc'[q] = pc[q] /\ work'[q] = work[q]
      BY <1>6, FailsTyped DEF SyncListFails, Typed, Holds, session, daemon
    <2> QED
      BY <1>1, <2>1, QuietInTurn
  <1>7. ASSUME NEW p \in Syncers, SyncAfter(p) PROVE InTurn' /\ reconciledBy' >= reconciledBy
    <2>1. /\ \E ok : Returns(p, ok)
          /\ work' = [work EXCEPT ![p] = NoWork] /\ UNCHANGED << lifecycle, reconciledBy >>
      BY <1>7 DEF SyncAfter, session, daemon
    <2>2. /\ pc'[p] \notin Holds
          /\ \A q \in Syncers \ {p} : pc'[q] = pc[q] /\ work'[q] = work[q]
      BY <2>1, ReturnsTyped DEF Typed, TypeOK, Holds
    <2> QED
      BY <1>1, <2>1, <2>2, QuietInTurn
  <1>8. ASSUME NEW p \in Syncers,
               SyncCommand(p) \/ CatchupStart(p) \/ RefreshStart(p) \/ CatchupTimer(p)
        PROVE  InTurn' /\ reconciledBy' >= reconciledBy
    <2>1. /\ pc'[p] \notin Holds /\ UNCHANGED << lifecycle, reconciledBy, work >>
          /\ \A q \in Syncers \ {p} : pc'[q] = pc[q]
      BY <1>8 DEF SyncCommand, CatchupStart, RefreshStart, CatchupTimer, Goto, Typed, TypeOK,
                  Holds, session, daemon
    <2> QED
      BY <1>1, <2>1, QuietInTurn
  <1>9. ASSUME NEW t \in Threads, ThreadGone(t) PROVE InTurn' /\ reconciledBy' >= reconciledBy
    <2>1. UNCHANGED << lifecycle, reconciledBy, pc >>
      BY <1>9 DEF ThreadGone, session, daemon
    <2>2. \A p \in Syncers : work'[p].lc = work[p].lc
      <3>1. ASSUME NEW p \in Syncers PROVE work'[p].lc = work[p].lc
        <4>1. /\ work'[p] = Stays(work[p], work[p].stayed \ {t})
              /\ work[p] \in Work /\ work[p].stayed \ {t} \in SUBSET Threads
          BY <1>9, GoneEffect
        <4> QED
          BY <4>1, StaysTyped
      <3> QED
        BY <3>1
    <2> QED
      BY <1>1, <2>1, <2>2, QuietInTurn
  <1>10. CASE EventEmit
    <2>1. UNCHANGED << lifecycle, reconciledBy, pc, work >>
      BY <1>10 DEF EventEmit, Deliver, session, daemon
    <2> QED
      BY <1>1, <2>1, QuietInTurn
  <1>11. CASE Retire
    <2>1. lifecycle' = lifecycle + 1 /\ UNCHANGED << reconciledBy, pc, work >>
      BY <1>11 DEF Retire, daemon
    <2> QED
      BY <1>1, <2>1, QuietInTurn
  <1>12. CASE EventCheck \/ UNCHANGED vars
    <2>1. UNCHANGED << lifecycle, reconciledBy, pc, work >>
      BY <1>12 DEF EventCheck, vars, session, daemon
    <2> QED
      BY <1>1, <2>1, QuietInTurn
  <1>13. ASSUME NEW t \in Threads, ThreadActive(t) PROVE InTurn' /\ reconciledBy' >= reconciledBy
    <2>1. UNCHANGED << lifecycle, reconciledBy, pc >>
      BY <1>13 DEF ThreadActive, session, daemon
    <2>2. \A p \in Syncers : work'[p].lc = work[p].lc
      <3>1. ASSUME NEW p \in Syncers PROVE work'[p].lc = work[p].lc
        <4>1. /\ work'[p] = Stays(work[p], Kept(work[p], t))
              /\ work[p] \in Work /\ Kept(work[p], t) \in SUBSET Threads
          BY <1>13, ActiveEffect
        <4> QED
          BY <4>1, StaysTyped
      <3> QED
        BY <3>1
    <2> QED
      BY <1>1, <2>1, <2>2, QuietInTurn
  <1> QED
    BY <1>2, <1>3, <1>4, <1>5, <1>6, <1>7, <1>8, <1>9, <1>10, <1>11, <1>12, <1>13
    DEF Next, SyncStep

\* A list that replaces the daemon's threads is never overtaken by that of a
\* newer login, however many goroutines sync (sync.go fullSyncLocked).
THEOREM NewestListLast == Spec => ReconcilesInOrder
  <1>1. Init => InTurn
    BY DEF Init, InTurn, Holds
  <1>2. Spec => []InTurn
    BY <1>1, InTurnStep, TypedAlways, PTL DEF Spec
  <1>3. Typed /\ InTurn /\ [Next]_vars => [reconciledBy' >= reconciledBy]_vars
    BY InTurnStep
  <1> QED
    BY <1>2, <1>3, TypedAlways, PTL DEF Spec, ReconcilesInOrder

-----------------------------------------------------------------------------
(* A catch-up gives up only with a reason.                                 *)

\* Lifecycles only grow, so what a catch-up began under is the current one or
\* retired for good; a close retires it too, and none begins afterwards.
Delivers ==
    /\ CatchupDelivers
    /\ \A p \in Syncers : pc[p] = "after" => p \in served
    /\ \A p \in Syncers : role[p] = "catchup" =>
          era[p] <= lifecycle /\ (closed => era[p] < lifecycle)

\* A goroutine that does not come to its end, or to its unlocked half.
LEMMA QuietDelivers ==
    ASSUME Typed, Delivers, UNCHANGED << role, era, attempt >>,
           served \subseteq served', lifecycle' \in Nat, lifecycle' >= lifecycle,
           lifecycle' = lifecycle => closed' = closed,
           \A p \in Syncers : pc'[p] = "after" => pc[p] = "after" \/ p \in served',
           \A p \in Syncers : pc'[p] = "done" => \/ pc[p] = "done" \/ role[p] # "catchup"
                                                 \/ p \in served' \/ attempt[p] = Attempts
    PROVE  Delivers'
  <1>1. lifecycle \in Nat /\ \A p \in Syncers : era[p] \in Nat
    BY DEF Typed, TypeOK
  <1>2. \A p \in Syncers : role[p] = "catchup" =>
          era[p] <= lifecycle' /\ (closed' => era[p] < lifecycle')
    BY <1>1 DEF Delivers
  <1>3. \A p \in Syncers : role[p] = "catchup" /\ era[p] # lifecycle => era[p] # lifecycle'
    BY <1>1 DEF Delivers
  <1>4. CatchupDelivers'
    BY <1>3 DEF Delivers, CatchupDelivers
  <1>5. \A p \in Syncers : pc'[p] = "after" => p \in served'
    BY DEF Delivers
  <1> QED
    BY <1>2, <1>4, <1>5 DEF Delivers

\* Who returns without an answer tries again, or has no attempt left.
LEMMA ReturnsDelivers ==
    ASSUME Typed, NEW p \in Syncers, NEW ok \in BOOLEAN, Returns(p, ok)
    PROVE  /\ \A q \in Syncers \ {p} : pc'[q] = pc[q]
           /\ pc'[p] # "after"
           /\ pc'[p] = "done" => role[p] # "catchup" \/ ok \/ attempt[p] = Attempts
  <1>1. attempt[p] \in 0 .. Attempts /\ Attempts \in Nat
    BY SizeAssumption DEF Typed, TypeOK
  <1> QED
    BY <1>1 DEF Returns, Typed, TypeOK

LEMMA DeliversStep == Typed /\ Delivers /\ [Next]_vars => Delivers'
  <1> SUFFICES ASSUME Typed, Delivers, [Next]_vars PROVE Delivers'
    OBVIOUS
  <1>1. lifecycle \in Nat /\ lifecycle >= lifecycle
    BY DEF Typed, TypeOK
  <1>2. ASSUME NEW p \in Syncers, SyncCommand(p) \/ CatchupStart(p) \/ RefreshStart(p)
        PROVE  Delivers'
    <2>1. /\ UNCHANGED << session, served, attempt >>
          /\ pc[p] = "idle" /\ pc'[p] # "after" /\ (pc'[p] = "done" => role'[p] # "catchup")
          /\ \A q \in Syncers \ {p} : pc'[q] = pc[q] /\ role'[q] = role[q] /\ era'[q] = era[q]
          /\ role'[p] = "catchup" => era'[p] = lifecycle /\ ~closed
      BY <1>2 DEF SyncCommand, CatchupStart, RefreshStart, Goto, Typed, TypeOK
    <2>2. CatchupDelivers'
      BY <2>1 DEF Delivers, CatchupDelivers, session
    <2>3. \A q \in Syncers : pc'[q] = "after" => q \in served'
      BY <2>1 DEF Delivers
    <2>4. \A q \in Syncers : role'[q] = "catchup" =>
            era'[q] <= lifecycle' /\ (closed' => era'[q] < lifecycle')
      BY <2>1, <1>1 DEF Delivers, session
    <2> QED
      BY <2>2, <2>3, <2>4 DEF Delivers
  <1>3. ASSUME NEW p \in Syncers, CatchupTimer(p) PROVE Delivers'
    <2>1. /\ UNCHANGED << session, served, role, era >>
          /\ pc[p] = "wait" /\ pc'[p] \in {"lock", "done"}
          /\ pc'[p] = "done" => era[p] # lifecycle \/ closed
          /\ \A q \in Syncers \ {p} : pc'[q] = pc[q] /\ attempt'[q] = attempt[q]
      BY <1>3 DEF CatchupTimer, Goto, Typed, TypeOK
    <2>2. era[p] \in Nat
      BY DEF Typed, TypeOK
    <2>3. pc'[p] = "done" /\ role[p] = "catchup" => era[p] # lifecycle
      BY <2>1, <2>2, <1>1 DEF Delivers
    <2>4. CatchupDelivers'
      BY <2>1, <2>3 DEF Delivers, CatchupDelivers, session
    <2>5. \A q \in Syncers : pc'[q] = "after" => q \in served'
      BY <2>1 DEF Delivers
    <2> QED
      BY <2>1, <2>4, <2>5 DEF Delivers, session
  <1>4. ASSUME NEW p \in Syncers, NEW ok \in BOOLEAN, Returns(p, ok), ok => p \in served,
               UNCHANGED << session, role, era, attempt, served >>
        PROVE  Delivers'
    BY <1>4, <1>1, ReturnsDelivers, QuietDelivers DEF session
  <1>5. ASSUME NEW p \in Syncers, SyncBegin(p) \/ SyncListFails(p) \/ SyncMap(p), Fails(p)
        PROVE  Delivers'
    BY <1>4, <1>5 DEF SyncBegin, SyncListFails, SyncMap, Fails
  <1>6. ASSUME NEW p \in Syncers, SyncBegin(p) \/ SyncPage(p) \/ SyncMap(p), ~Fails(p)
        PROVE  Delivers'
    <2>1. /\ UNCHANGED << session, role, era, attempt, served >>
          /\ \A q \in Syncers : pc'[q] = pc[q] \/ pc'[q] \in {"page", "map", "emit"}
      BY <1>6 DEF SyncBegin, SyncPage, SyncMap, Goto, Typed, TypeOK
    <2> QED
      BY <2>1, <1>1, QuietDelivers DEF session
  <1>7. ASSUME NEW p \in Syncers, SyncEmit(p) PROVE Delivers'
    <2>1. /\ UNCHANGED << session, role, era, attempt >>
          /\ served \subseteq served'
          /\ \A q \in Syncers : pc'[q] = pc[q] \/ (pc'[q] = "after" /\ q \in served')
      BY <1>7 DEF SyncEmit, Goto, Typed, TypeOK
    <2> QED
      BY <2>1, <1>1, QuietDelivers DEF session
  <1>8. ASSUME NEW p \in Syncers, SyncAfter(p) PROVE Delivers'
    <2>1. PICK ok \in BOOLEAN : Returns(p, ok)
      <3>1. (Current(p) /\ (work[p].complete \/ work[p].listed # {})) \in BOOLEAN
        OBVIOUS
      <3> QED
        BY <1>8, <3>1 DEF SyncAfter
    <2>2. p \in served
      BY <1>8 DEF SyncAfter, Delivers
    <2> QED
      BY <1>4, <1>8, <2>1, <2>2 DEF SyncAfter
  <1>9. ASSUME NEW t \in Threads, ThreadActive(t) \/ ThreadGone(t) PROVE Delivers'
    BY <1>9, <1>1, QuietDelivers DEF ThreadActive, ThreadGone, session
  <1>10. CASE EventCheck \/ EventEmit
    BY <1>10, <1>1, QuietDelivers DEF EventCheck, EventEmit, session
  <1>11. CASE Retire
    <2>1. lifecycle' = lifecycle + 1 /\ UNCHANGED << pc, role, era, attempt, served >>
      BY <1>11 DEF Retire
    <2> QED
      BY <2>1, <1>1, QuietDelivers
  <1>12. CASE UNCHANGED vars
    BY <1>12, <1>1, QuietDelivers DEF vars, session
  <1>13. ASSUME NEW p \in Syncers, SyncStep(p) PROVE Delivers'
    <2>1. SyncListFails(p) => Fails(p)
      BY DEF SyncListFails
    <2>2. CASE CatchupTimer(p) \/ SyncEmit(p) \/ SyncAfter(p)
      BY <2>2, <1>3, <1>7, <1>8
    <2>3. CASE Fails(p) /\ (SyncBegin(p) \/ SyncListFails(p) \/ SyncMap(p))
      BY <2>3, <1>5
    <2>4. CASE ~Fails(p) /\ (SyncBegin(p) \/ SyncPage(p) \/ SyncMap(p))
      BY <2>4, <1>6
    <2>5. CASE SyncPage(p) /\ Fails(p)
      BY <2>5, <1>4 DEF SyncPage, Fails
    <2> QED
      BY <1>13, <2>1, <2>2, <2>3, <2>4, <2>5 DEF SyncStep
  <1> QED
    BY <1>2, <1>9, <1>10, <1>11, <1>12, <1>13 DEF Next

\* A catch-up ends only when its list has gone out, when the login it belongs
\* to was retired, or when no attempt is left (session.go:561-578).
THEOREM CatchupsDeliver == Spec => []CatchupDelivers
  <1>1. Init => Delivers
    BY DEF Init, Delivers, CatchupDelivers
  <1>2. Delivers => CatchupDelivers
    BY DEF Delivers
  <1> QED
    BY <1>1, <1>2, DeliversStep, TypedAlways, PTL DEF Spec

-----------------------------------------------------------------------------
(* The daemon's list is a Mirror.                                          *)

\* What a list has or is still to have, and what the daemon has gathered of
\* it when some of its chunks were sent.
Covers(p) ==
    LET w == work[p] IN
    /\ pc[p] = "page" => w.stayed \subseteq w.listed \cup Behind(w.after)
    /\ pc[p] \in {"map", "emit"} /\ w.complete => w.stayed \subseteq w.listed
    /\ pc[p] = "emit" /\ w.complete =>
         /\ w.left \subseteq w.listed
         /\ \/ w.left = w.listed \/ closed
            \/ w.gen # 0 /\ gathered.gen = w.gen /\ w.listed \ w.left \subseteq gathered.threads

Covered == \A p \in Syncers : Covers(p)

\* A step that leaves the lists of the goroutines alone.
LEMMA QuietCovered ==
    ASSUME Typed, Covered, UNCHANGED << gathered, activity >>, closed => closed',
           \A p \in Syncers : pc'[p] \in Holds => pc'[p] = pc[p] /\ work'[p] = work[p]
    PROVE  Covered'
  <1> SUFFICES ASSUME NEW p \in Syncers PROVE Covers(p)'
    BY DEF Covered
  <1>1. CASE pc'[p] \in Holds
    <2>1. \A after \in Nat : Behind(after)' = Behind(after)
      BY DEF Behind, Inbox
    <2>2. work[p].after \in Nat
      BY WorkFields DEF Typed, TypeOK
    <2>3. pc'[p] = pc[p] /\ work'[p] = work[p] /\ Covers(p)
      BY <1>1 DEF Covered
    <2> QED
      BY <2>1, <2>2, <2>3 DEF Covers, Behind, Inbox
  <1>2. CASE pc'[p] \notin Holds
    BY <1>2 DEF Covers, Holds
  <1> QED
    BY <1>1, <1>2

\* The other goroutines, when one holds syncMu.
LEMMA OthersCovered ==
    ASSUME Typed, NEW p \in Syncers, pc[p] \in Holds, NEW q \in Syncers \ {p}, pc'[q] = pc[q]
    PROVE  Covers(q)'
  <1>1. pc'[q] \notin Holds
    BY DEF Typed, Mutex
  <1> QED
    BY <1>1 DEF Covers, Holds

\* A list starts behind no cursor, with nothing listed.
LEMMA BeginCovered ==
    ASSUME Typed, Covered, NEW p \in Syncers, SyncBegin(p)
    PROVE  Covered'
  <1>1. UNCHANGED << gathered, activity, closed >>
    BY DEF SyncBegin, session, phone, daemon
  <1>2. CASE closed \/ ~client
    <2>1. /\ pc'[p] \notin Holds
          /\ \A q \in Syncers \ {p} : pc'[q] = pc[q] /\ work'[q] = work[q]
      BY <1>2, FailsTyped DEF SyncBegin, Typed, Holds
    <2> QED
      BY <1>1, <2>1, QuietCovered
  <1>3. CASE ~(closed \/ ~client)
    <2>1. /\ pc[p] = "lock" /\ pc'[p] = "page" /\ work'[p] = Began(NoWork, lifecycle, Inbox)
          /\ syncMu = NoSync
          /\ \A q \in Syncers \ {p} : pc'[q] = pc[q] /\ work'[q] = work[q]
      BY <1>3, BeginEffect
    <2>2. work'[p].stayed = Inbox /\ work'[p].after = 0
      BY <2>1 DEF Began, NoWork
    <2>3. Covers(p)'
      BY <1>1, <2>1, <2>2 DEF Covers, Behind, Inbox
    <2>4. \A q \in Syncers \ {p} : pc'[q] \notin Holds
      BY <2>1, SyncersAssumption DEF Typed, Mutex
    <2>5. \A q \in Syncers \ {p} : Covers(q)'
      BY <2>4 DEF Covers, Holds
    <2> QED
      BY <2>3, <2>5 DEF Covered
  <1> QED
    BY <1>2, <1>3

\* A page takes the most recent part of what is behind its cursor, so what it
\* does not take is behind the next.
LEMMA PageRest ==
    ASSUME TypeOK, NEW after \in Nat, NEW page \in Pages(after), NEW cursor \in Cursors(page)
    PROVE  Behind(after) \subseteq page \cup Behind(cursor)
  <1> SUFFICES ASSUME NEW t \in Behind(after), t \notin page PROVE t \in Behind(cursor)
    OBVIOUS
  <1>1. t \in Inbox /\ page \subseteq Threads
    BY DEF Behind, Pages, Inbox
  <1>2. CASE page = {}
    BY <1>1, <1>2 DEF Cursors, Behind
  <1>3. CASE page # {}
    <2>1. PICK u \in page : cursor = activity[u]
      BY <1>1, <1>3, CursorTyped
    <2>2. activity[u] > activity[t] /\ activity[u] \in Nat /\ activity[t] \in Nat
      BY <1>1, <2>1, InboxTyped DEF Pages, Inbox
    <2> QED
      BY <1>1, <2>1, <2>2 DEF Behind
  <1> QED
    BY <1>2, <1>3

LEMMA PageCovered ==
    ASSUME Typed, Covered, NEW p \in Syncers, SyncPage(p)
    PROVE  Covered'
  <1>1. /\ pc[p] = "page" /\ UNCHANGED << activity >>
        /\ \A q \in Syncers \ {p} : pc'[q] = pc[q] /\ work'[q] = work[q]
    BY PageEffect DEF phone
  <1>2. PICK page \in Pages(work[p].after), last \in BOOLEAN :
          \E cursor \in Cursors(page) :
            (last => page = Behind(work[p].after)) /\ PageTaken(p, page, cursor, last)
    BY PageEffect
  <1>3. PICK cursor \in Cursors(page) :
          (last => page = Behind(work[p].after)) /\ PageTaken(p, page, cursor, last)
    BY <1>2
  <1>4. work[p] \in Work /\ work[p].after \in Nat
    BY WorkFields DEF Typed, TypeOK
  <1>5. /\ work'[p].listed = work[p].listed \cup page /\ work'[p].after = cursor
        /\ work'[p].stayed = work[p].stayed
        /\ work'[p].complete <=> ~(~last /\ Capped(p))
        /\ pc'[p] = IF last \/ (~last /\ Capped(p)) THEN "map" ELSE "page"
    BY <1>3, <1>4 DEF PageTaken, Paged, Work
  <1>6. work[p].stayed \subseteq work[p].listed \cup Behind(work[p].after)
    BY <1>1 DEF Covered, Covers
  <1>7. Behind(work[p].after) \subseteq page \cup Behind(cursor)
    BY <1>4, PageRest DEF Typed
  <1>8. Behind(cursor)' = Behind(cursor)
    BY <1>1 DEF Behind, Inbox
  <1>9. pc'[p] = "map" /\ work'[p].complete => work'[p].stayed \subseteq work'[p].listed
    BY <1>3, <1>5, <1>6
  <1>10. pc'[p] = "page" => work'[p].stayed \subseteq work'[p].listed \cup Behind(cursor)'
    BY <1>5, <1>6, <1>7, <1>8
  <1>11. pc'[p] \in {"map", "page"}
    BY <1>5
  <1>12. Covers(p)'
    <2>1. pc'[p] = "page" => work'[p].stayed \subseteq work'[p].listed
                               \cup {t \in Inbox' : cursor = 0 \/ activity'[t] < cursor}
      BY <1>10 DEF Behind
    <2>2. pc'[p] = "page" => work'[p].stayed \subseteq work'[p].listed
                 \cup {t \in Inbox' : work'[p].after = 0 \/ activity'[t] < work'[p].after}
      BY <1>5, <2>1
    <2> QED
      BY <1>9, <1>11, <2>2 DEF Covers, Behind
  <1>13. \A q \in Syncers \ {p} : Covers(q)'
    BY <1>1, OthersCovered DEF Holds
  <1> QED
    BY <1>12, <1>13 DEF Covered

LEMMA MapCovered ==
    ASSUME Typed, Covered, NEW p \in Syncers, SyncMap(p)
    PROVE  Covered'
  <1>1. CASE ~Current(p)
    <2>1. /\ pc'[p] \notin Holds /\ UNCHANGED << gathered, activity, closed >>
          /\ \A q \in Syncers \ {p} : pc'[q] = pc[q] /\ work'[q] = work[q]
      BY <1>1, FailsTyped DEF SyncMap, Typed, Holds, session, phone, daemon
    <2> QED
      BY <2>1, QuietCovered
  <1>2. CASE Current(p)
    <2>1. /\ pc[p] = "map" /\ pc'[p] = "emit"
          /\ \A q \in Syncers \ {p} : pc'[q] = pc[q] /\ work'[q] = work[q]
      BY <1>2, MapEffect
    <2>2. PICK mapped \in SUBSET work[p].listed, whole \in BOOLEAN, gen \in Nat :
            /\ whole => work[p].complete /\ mapped = work[p].listed
            /\ work'[p] = Mapped(work[p], mapped, whole, gen)
      BY <1>2, MapEffect
    <2>3. work[p] \in Work /\ work[p].listed \subseteq Threads
      BY WorkFields DEF Typed, TypeOK
    <2>4. /\ work'[p].listed = mapped /\ work'[p].left = mapped
          /\ work'[p].stayed = work[p].stayed /\ work'[p].complete = whole
      BY <2>2, <2>3 DEF Mapped, Work
    <2>5. work[p].complete => work[p].stayed \subseteq work[p].listed
      BY <2>1 DEF Covered, Covers
    <2>6. Covers(p)'
      BY <2>1, <2>2, <2>4, <2>5 DEF Covers
    <2>7. \A q \in Syncers \ {p} : Covers(q)'
      BY <2>1, OthersCovered DEF Holds
    <2> QED
      BY <2>6, <2>7 DEF Covered
  <1> QED
    BY <1>1, <1>2

\* What the daemon has of a complete list after one more chunk.
LEMMA ChunkGathered ==
    ASSUME Typed, Covered, NEW p \in Syncers, pc[p] = "emit", work[p].complete, ~closed,
           NEW chunk \in SUBSET work[p].left, NEW last \in BOOLEAN, last <=> chunk = work[p].left,
           ChunkSent(p, chunk, last)
    PROVE  /\ last => work[p].stayed \subseteq mirror'
           /\ ~last => /\ work[p].gen # 0 /\ gathered'.gen = work[p].gen
                       /\ (work[p].listed \ work[p].left) \cup chunk \subseteq gathered'.threads
  <1> DEFINE w == work[p]
             together == IF w.gen # 0 /\ gathered.gen = w.gen
                           THEN gathered.threads \cup chunk ELSE chunk
  <1>1. /\ w.left \subseteq w.listed /\ w.stayed \subseteq w.listed
        /\ \/ w.left = w.listed
           \/ w.gen # 0 /\ gathered.gen = w.gen /\ w.listed \ w.left \subseteq gathered.threads
    BY DEF Covered, Covers
  <1>2. IF w.gen = 0 THEN last ELSE w.left = w.listed => ~last
    BY DEF ChunkSent
  <1>3. (w.listed \ w.left) \cup chunk \subseteq together
    BY <1>1
  <1>4. CASE last
    <2>1. Deliver(chunk, TRUE, w.gen, w.lc)
      <3>1. (w.complete /\ last) = TRUE
        BY <1>4
      <3> QED
        BY <3>1 DEF ChunkSent
    <2>2. mirror' = together
      BY <2>1 DEF Deliver
    <2>3. chunk = w.left
      BY <1>4
    <2> QED
      BY <1>1, <1>3, <1>4, <2>2, <2>3
  <1>5. CASE ~last
    <2>1. Deliver(chunk, FALSE, w.gen, w.lc)
      <3>1. (w.complete /\ last) = FALSE
        BY <1>5
      <3> QED
        BY <3>1 DEF ChunkSent
    <2>2. w.gen # 0
      BY <1>2, <1>5
    <2>3. gathered' = [gen |-> w.gen, threads |-> together]
      BY <2>1, <2>2 DEF Deliver
    <2> HIDE DEF together
    <2> QED
      BY <1>3, <1>5, <2>2, <2>3
  <1> QED
    BY <1>4, <1>5

LEMMA EmitCovered ==
    ASSUME Typed, Covered, NEW p \in Syncers, SyncEmit(p)
    PROVE  Covered'
  <1>1. /\ pc[p] = "emit" /\ UNCHANGED closed
        /\ \A q \in Syncers \ {p} : pc'[q] = pc[q] /\ work'[q] = work[q]
    BY EmitEffect DEF session
  <1>2. PICK chunk \in SUBSET work[p].left, last \in BOOLEAN :
          (last <=> chunk = work[p].left) /\ ChunkSent(p, chunk, last)
    BY EmitEffect
  <1>3. \A q \in Syncers \ {p} : Covers(q)'
    BY <1>1, OthersCovered DEF Holds
  <1>4. CASE last
    <2>1. pc'[p] = "after"
      BY <1>2, <1>4 DEF ChunkSent
    <2>2. Covers(p)'
      BY <2>1 DEF Covers
    <2> QED
      BY <1>3, <2>2 DEF Covered
  <1>5. CASE ~last
    <2>1. pc'[p] = "emit"
      BY <1>2, <1>5 DEF ChunkSent
    <2>2. work[p] \in Work
      BY DEF Typed, TypeOK
    <2>3. /\ work'[p].left = work[p].left \ chunk /\ work'[p].listed = work[p].listed
          /\ work'[p].stayed = work[p].stayed /\ work'[p].complete = work[p].complete
          /\ work'[p].gen = work[p].gen
      BY <1>2, <1>5, <2>2 DEF ChunkSent, Emitted, Work
    <2>4. work[p].complete => /\ work[p].stayed \subseteq work[p].listed
                             /\ work[p].left \subseteq work[p].listed
      BY <1>1 DEF Covered, Covers
    <2>5. work[p].complete /\ ~closed =>
            /\ work[p].gen # 0 /\ gathered'.gen = work[p].gen
            /\ work[p].listed \ (work[p].left \ chunk) \subseteq gathered'.threads
      <3> SUFFICES ASSUME work[p].complete, ~closed
                   PROVE  /\ work[p].gen # 0 /\ gathered'.gen = work[p].gen
                          /\ work[p].listed \ (work[p].left \ chunk) \subseteq gathered'.threads
        OBVIOUS
      <3>1. /\ work[p].gen # 0 /\ gathered'.gen = work[p].gen
            /\ (work[p].listed \ work[p].left) \cup chunk \subseteq gathered'.threads
        BY <1>1, <1>2, <1>5, ChunkGathered
      <3> QED
        BY <3>1
    <2>6. Covers(p)'
      BY <1>1, <2>1, <2>3, <2>4, <2>5 DEF Covers
    <2> QED
      BY <1>3, <2>6 DEF Covered
  <1> QED
    BY <1>4, <1>5

\* A thread that moves before it is listed is no longer asked for.
LEMMA ActiveCovered ==
    ASSUME Typed, Covered, NEW t \in Threads, ThreadActive(t)
    PROVE  Covered'
  <1>1. UNCHANGED << pc, gathered, closed >>
    BY DEF ThreadActive, session, daemon
  <1>2. \A u \in Threads \ {t} : activity'[u] = activity[u]
    BY DEF ThreadActive, Typed, TypeOK
  <1> SUFFICES ASSUME NEW p \in Syncers PROVE Covers(p)'
    BY DEF Covered
  <1>3. /\ work[p] \in Work /\ Kept(work[p], t) \in SUBSET Threads
        /\ work'[p] = Stays(work[p], Kept(work[p], t))
    BY ActiveEffect
  <1>4. /\ work'[p].after = work[p].after /\ work'[p].listed = work[p].listed
        /\ work'[p].stayed = work[p].stayed \ ({t} \ work[p].listed)
        /\ work'[p].left = work[p].left
        /\ work'[p].gen = work[p].gen /\ work'[p].complete = work[p].complete
    BY <1>3, StaysTyped DEF Kept
  <1>5. Covers(p)
    BY DEF Covered
  <1>6. CASE pc[p] = "page"
    <2>1. \A u \in work[p].stayed : u \in work[p].listed \/ u \in Behind(work[p].after)
      BY <1>5, <1>6 DEF Covers
    <2>2. \A u \in Behind(work[p].after) : u # t =>
             u \in Inbox' /\ (work[p].after = 0 \/ activity'[u] < work[p].after)
      BY <1>2 DEF Behind, Inbox
    <2>3. work'[p].stayed \subseteq work'[p].listed
              \cup {u \in Inbox' : work'[p].after = 0 \/ activity'[u] < work'[p].after}
      BY <1>4, <2>1, <2>2
    <2>4. pc'[p] = "page"
      BY <1>1, <1>6
    <2> QED
      BY <2>3, <2>4 DEF Covers, Behind
  <1>7. CASE pc[p] # "page"
    BY <1>1, <1>4, <1>5, <1>7 DEF Covers
  <1> QED
    BY <1>6, <1>7

\* A thread that goes is no longer asked for.
LEMMA GoneCovered ==
    ASSUME Typed, Covered, NEW t \in Threads, ThreadGone(t)
    PROVE  Covered'
  <1>1. UNCHANGED << pc, gathered, closed >>
    BY DEF ThreadGone, session, daemon
  <1>2. \A u \in Threads \ {t} : activity'[u] = activity[u]
    BY DEF ThreadGone, Typed, TypeOK
  <1> SUFFICES ASSUME NEW p \in Syncers PROVE Covers(p)'
    BY DEF Covered
  <1>3. /\ work[p] \in Work /\ work[p].stayed \ {t} \in SUBSET Threads
        /\ work'[p] = Stays(work[p], work[p].stayed \ {t})
    BY GoneEffect
  <1>4. /\ work'[p].after = work[p].after /\ work'[p].listed = work[p].listed
        /\ work'[p].stayed = work[p].stayed \ {t} /\ work'[p].left = work[p].left
        /\ work'[p].gen = work[p].gen /\ work'[p].complete = work[p].complete
    BY <1>3, StaysTyped
  <1>5. Covers(p)
    BY DEF Covered
  <1>6. CASE pc[p] = "page"
    <2>1. \A u \in work[p].stayed : u \in work[p].listed \/ u \in Behind(work[p].after)
      BY <1>5, <1>6 DEF Covers
    <2>2. \A u \in Behind(work[p].after) : u # t =>
             u \in Inbox' /\ (work[p].after = 0 \/ activity'[u] < work[p].after)
      BY <1>2 DEF Behind, Inbox
    <2>3. work'[p].stayed \subseteq work'[p].listed
              \cup {u \in Inbox' : work'[p].after = 0 \/ activity'[u] < work'[p].after}
      BY <1>4, <2>1, <2>2
    <2>4. pc'[p] = "page"
      BY <1>1, <1>6
    <2> QED
      BY <2>3, <2>4 DEF Covers, Behind
  <1>7. CASE pc[p] # "page"
    BY <1>1, <1>4, <1>5, <1>7 DEF Covers
  <1> QED
    BY <1>6, <1>7

LEMMA CoveredStep ==
    ASSUME Typed, Covered, [Next]_vars
    PROVE  Covered'
  <1>1. ASSUME NEW p \in Syncers,
               SyncCommand(p) \/ CatchupStart(p) \/ RefreshStart(p) \/ CatchupTimer(p)
        PROVE  Covered'
    <2>1. /\ pc'[p] \notin Holds /\ UNCHANGED << gathered, activity, closed, work >>
          /\ \A q \in Syncers \ {p} : pc'[q] = pc[q]
      BY <1>1 DEF SyncCommand, CatchupStart, RefreshStart, CatchupTimer, Goto, Typed, TypeOK,
                  Holds, session, phone, daemon
    <2> QED
      BY <2>1, QuietCovered
  <1>2. ASSUME NEW p \in Syncers, SyncListFails(p) PROVE Covered'
    <2>1. /\ pc'[p] \notin Holds /\ UNCHANGED << gathered, activity, closed >>
          /\ \A q \in Syncers \ {p} : pc'[q] = pc[q] /\ work'[q] = work[q]
      BY <1>2, FailsTyped DEF SyncListFails, Typed, Holds, session, phone, daemon
    <2> QED
      BY <2>1, QuietCovered
  <1>3. ASSUME NEW p \in Syncers, SyncAfter(p) PROVE Covered'
    <2>1. /\ \E ok : Returns(p, ok)
          /\ work' = [work EXCEPT ![p] = NoWork] /\ UNCHANGED << gathered, activity, closed >>
      BY <1>3 DEF SyncAfter, session, phone, daemon
    <2>2. /\ pc'[p] \notin Holds
          /\ \A q \in Syncers \ {p} : pc'[q] = pc[q] /\ work'[q] = work[q]
      BY <2>1, ReturnsTyped DEF Typed, TypeOK, Holds
    <2> QED
      BY <2>1, <2>2, QuietCovered
  <1>4. CASE EventEmit
    <2>1. /\ UNCHANGED << activity, closed, pc, work >>
          /\ \E event \in live : Deliver({event.thread}, FALSE, 0, event.lifecycle)
      BY <1>4 DEF EventEmit, session, phone
    <2>2. UNCHANGED gathered
      BY <2>1 DEF Deliver, daemon
    <2> QED
      BY <2>1, <2>2, QuietCovered
  <1>5. CASE Retire
    <2>1. (closed => closed') /\ UNCHANGED << gathered, activity, pc, work >>
      BY <1>5 DEF Retire, phone, daemon
    <2> QED
      BY <2>1, QuietCovered
  <1>6. CASE EventCheck \/ UNCHANGED vars
    <2>1. UNCHANGED << closed, gathered, activity, pc, work >>
      BY <1>6 DEF EventCheck, vars, session, phone, daemon
    <2> QED
      BY <2>1, QuietCovered
  <1>7. ASSUME NEW p \in Syncers, SyncBegin(p) \/ SyncPage(p) \/ SyncMap(p) \/ SyncEmit(p)
        PROVE  Covered'
    BY <1>7, BeginCovered, PageCovered, MapCovered, EmitCovered
  <1>8. ASSUME NEW t \in Threads, ThreadActive(t) \/ ThreadGone(t) PROVE Covered'
    BY <1>8, ActiveCovered, GoneCovered
  <1> QED
    BY <1>1, <1>2, <1>3, <1>4, <1>5, <1>6, <1>7, <1>8 DEF Next, SyncStep

-----------------------------------------------------------------------------
(* Every step is a step of Mirror or leaves it alone.                      *)

\* Listing, of whoever holds syncMu.
LEMMA ListingHeld ==
    ASSUME Typed, NEW p \in Syncers, pc[p] \in Holds
    PROVE  Listing = {work[p].stayed}
  BY SyncersAssumption DEF Typed, Mutex, Holds, Listing

LEMMA ListingHeldNext ==
    ASSUME Typed', NEW p \in Syncers, pc'[p] \in Holds
    PROVE  Listing' = {work'[p].stayed}
  BY SyncersAssumption DEF Typed, Mutex, Holds, Listing

LEMMA ListingFree ==
    ASSUME Typed, \A p \in Syncers : pc[p] \notin Holds
    PROVE  Listing = {}
  BY DEF Typed, TypeOK, Mutex, Holds, Listing

LEMMA ListingFreeNext ==
    ASSUME Typed', \A p \in Syncers : pc'[p] \notin Holds
    PROVE  Listing' = {}
  BY DEF Typed, TypeOK, Mutex, Holds, Listing

\* The holder stays, or there is none before and after.
LEMMA ListingKept ==
    ASSUME Typed, Typed',
           \A p \in Syncers : /\ pc'[p] \in Holds <=> pc[p] \in Holds
                              /\ pc'[p] \in Holds => work'[p].stayed = work[p].stayed
    PROVE  Listing' = Listing
  <1>1. CASE \E p \in Syncers : pc[p] \in Holds
    BY <1>1, ListingHeld, ListingHeldNext
  <1>2. CASE \A p \in Syncers : pc[p] \notin Holds
    BY <1>2, ListingFree, ListingFreeNext
  <1> QED
    BY <1>1, <1>2

\* One holds syncMu and lets go: nobody holds it then.
LEMMA ListingEnds ==
    ASSUME Typed, Typed', NEW p \in Syncers, pc[p] \in Holds, pc'[p] \notin Holds,
           \A q \in Syncers \ {p} : pc'[q] = pc[q]
    PROVE  Listing' = {}
  <1>1. \A q \in Syncers : pc'[q] \notin Holds
    BY DEF Typed, Mutex
  <1> QED
    BY <1>1, ListingFreeNext

\* A sync that fails leaves the daemon with what it had.
LEMMA FailsMirrors ==
    ASSUME Typed, Typed', NEW p \in Syncers, Fails(p), UNCHANGED << activity, mirror >>
    PROVE  [DaemonMirror!Next]_(DaemonMirror!vars)
  <1>1. Inbox' = Inbox
    BY DEF Inbox
  <1>2. /\ pc'[p] \notin Holds
        /\ \A q \in Syncers \ {p} : pc'[q] = pc[q] /\ work'[q] = work[q]
    BY FailsTyped DEF Typed, Holds
  <1>3. CASE pc[p] \in Holds
    <2>1. Listing' = {}
      BY <1>2, <1>3, ListingEnds
    <2>2. mirror' = mirror \cup {} /\ {} \in SUBSET Threads
      OBVIOUS
    <2>3. DaemonMirror!Merge
      BY <1>1, <2>1, <2>2 DEF DaemonMirror!Merge
    <2> QED
      BY <2>3 DEF DaemonMirror!Next
  <1>4. CASE pc[p] \notin Holds
    <2>1. Listing' = Listing
      BY <1>2, <1>4, ListingKept
    <2> QED
      BY <1>1, <2>1 DEF DaemonMirror!vars
  <1> QED
    BY <1>3, <1>4

LEMMA BeginMirrors ==
    ASSUME Typed, Typed', NEW p \in Syncers, SyncBegin(p)
    PROVE  [DaemonMirror!Next]_(DaemonMirror!vars)
  <1>1. UNCHANGED << activity, mirror >>
    BY DEF SyncBegin, phone, daemon
  <1>2. CASE closed \/ ~client
    <2>1. Fails(p)
      BY <1>2 DEF SyncBegin
    <2> QED
      BY <1>1, <2>1, FailsMirrors
  <1>3. CASE ~(closed \/ ~client)
    <2>1. /\ syncMu = NoSync /\ pc'[p] = "page"
          /\ work'[p] = Began(NoWork, lifecycle, Inbox)
      BY <1>3, BeginEffect
    <2>2. work'[p].stayed = Inbox
      BY <2>1 DEF Began, NoWork
    <2>3. Listing = {}
      BY <2>1 DEF Listing
    <2>4. Listing' = {Inbox}
      BY <2>1, <2>2, ListingHeldNext DEF Holds
    <2>5. Inbox' = Inbox
      BY <1>1 DEF Inbox
    <2>6. DaemonMirror!Ask
      BY <1>1, <2>3, <2>4, <2>5 DEF DaemonMirror!Ask
    <2> QED
      BY <2>6 DEF DaemonMirror!Next
  <1> QED
    BY <1>2, <1>3

LEMMA PageMirrors ==
    ASSUME Typed, Typed', NEW p \in Syncers, SyncPage(p)
    PROVE  [DaemonMirror!Next]_(DaemonMirror!vars)
  <1>1. /\ pc[p] = "page" /\ UNCHANGED << activity, mirror >>
        /\ \A q \in Syncers \ {p} : pc'[q] = pc[q] /\ work'[q] = work[q]
    BY PageEffect DEF phone, daemon
  <1>2. PICK page, last, cursor :
          PageTaken(p, page, cursor, last)
    BY PageEffect
  <1>3. work[p] \in Work
    BY DEF Typed, TypeOK
  <1>4. pc'[p] \in Holds /\ work'[p].stayed = work[p].stayed
    BY <1>2, <1>3 DEF PageTaken, Paged, Work, Holds
  <1>5. Listing' = Listing
    BY <1>1, <1>4, ListingKept DEF Holds
  <1> QED
    BY <1>1, <1>5 DEF DaemonMirror!vars, Inbox

LEMMA MapMirrors ==
    ASSUME Typed, Typed', NEW p \in Syncers, SyncMap(p)
    PROVE  [DaemonMirror!Next]_(DaemonMirror!vars)
  <1>1. UNCHANGED << activity, mirror >>
    BY DEF SyncMap, phone, daemon
  <1>2. CASE ~Current(p)
    <2>1. Fails(p)
      BY <1>2 DEF SyncMap
    <2> QED
      BY <1>1, <2>1, FailsMirrors
  <1>3. CASE Current(p)
    <2>1. /\ pc[p] \in Holds /\ pc'[p] \in Holds
          /\ \A q \in Syncers \ {p} : pc'[q] = pc[q] /\ work'[q] = work[q]
      BY <1>3, MapEffect DEF Holds
    <2>2. PICK mapped, whole, gen : work'[p] = Mapped(work[p], mapped, whole, gen)
      BY <1>3, MapEffect
    <2>3. work[p] \in Work
      BY DEF Typed, TypeOK
    <2>4. work'[p].stayed = work[p].stayed
      BY <2>2, <2>3 DEF Mapped, Work
    <2>5. Listing' = Listing
      BY <2>1, <2>4, ListingKept
    <2> QED
      BY <1>1, <2>5 DEF DaemonMirror!vars, Inbox
  <1> QED
    BY <1>2, <1>3

\* What the daemon has only grows by a delivery that is not full.
LEMMA DeliverGrows ==
    ASSUME NEW chunk \in SUBSET Threads, NEW gen, NEW lc, Deliver(chunk, FALSE, gen, lc)
    PROVE  \E new \in SUBSET Threads : mirror' = mirror \cup new
  <1>1. CASE closed
    <2>1. mirror' = mirror \cup {}
      BY <1>1 DEF Deliver, daemon
    <2> QED
      BY <2>1
  <1>2. CASE ~closed
    BY <1>2 DEF Deliver
  <1> QED
    BY <1>1, <1>2

LEMMA EmitMirrors ==
    ASSUME Typed, Typed', Covered, NEW p \in Syncers, SyncEmit(p)
    PROVE  [DaemonMirror!Next]_(DaemonMirror!vars)
  <1>1. /\ pc[p] = "emit" /\ UNCHANGED << activity >>
        /\ \A q \in Syncers \ {p} : pc'[q] = pc[q] /\ work'[q] = work[q]
    BY EmitEffect DEF phone
  <1>2. PICK chunk \in SUBSET work[p].left, last \in BOOLEAN :
          (last <=> chunk = work[p].left) /\ ChunkSent(p, chunk, last)
    BY EmitEffect
  <1>3. Inbox' = Inbox /\ mirror' \in SUBSET Threads
    BY <1>1 DEF Inbox, Typed, TypeOK
  <1>4. work[p] \in Work /\ chunk \in SUBSET Threads /\ work[p].complete \in BOOLEAN
    BY <1>2, WorkFields DEF Typed, TypeOK
  <1>5. Listing' \in {Listing, {}}
    <2>1. CASE last
      <3>1. pc'[p] \notin Holds
        BY <1>2, <2>1 DEF ChunkSent, Holds
      <3> QED
        BY <1>1, <3>1, ListingEnds DEF Holds
    <2>2. CASE ~last
      <3>1. pc'[p] \in Holds /\ work'[p].stayed = work[p].stayed
        BY <1>2, <1>4, <2>2 DEF ChunkSent, Emitted, Work, Holds
      <3>2. Listing' = Listing
        BY <1>1, <3>1, ListingKept DEF Holds
      <3> QED
        BY <3>2
    <2> QED
      BY <2>1, <2>2
  <1>6. CASE closed \/ ~work[p].complete \/ ~last
    <2>1. \E new \in SUBSET Threads : mirror' = mirror \cup new
      <3>1. CASE closed
        <4>1. mirror' = mirror \cup {}
          BY <1>2, <3>1 DEF ChunkSent, Deliver, daemon
        <4> QED
          BY <4>1
      <3>2. CASE ~work[p].complete \/ ~last
        <4>1. (work[p].complete /\ last) = FALSE
          BY <1>4, <3>2
        <4>2. Deliver(chunk, FALSE, work[p].gen, work[p].lc)
          BY <1>2, <4>1 DEF ChunkSent
        <4> QED
          BY <1>4, <4>2, DeliverGrows
      <3> QED
        BY <1>6, <3>1, <3>2
    <2>2. DaemonMirror!Merge
      BY <1>3, <1>5, <2>1 DEF DaemonMirror!Merge
    <2> QED
      BY <2>2 DEF DaemonMirror!Next
  <1>7. CASE ~closed /\ work[p].complete /\ last
    <2>1. work[p].stayed \subseteq mirror'
      BY <1>1, <1>2, <1>7, ChunkGathered
    <2>2. Listing = {work[p].stayed}
      BY <1>1, ListingHeld DEF Holds
    <2>3. Listing' = {}
      <3>1. pc'[p] \notin Holds
        BY <1>2, <1>7 DEF ChunkSent, Holds
      <3> QED
        BY <1>1, <3>1, ListingEnds DEF Holds
    <2>4. DaemonMirror!Replace
      BY <1>3, <2>1, <2>2, <2>3 DEF DaemonMirror!Replace
    <2> QED
      BY <2>4 DEF DaemonMirror!Next
  <1> QED
    BY <1>6, <1>7

\* The listing that is open, if one is, no longer asks for the thread, unless
\* a page has it already.
LEMMA ActiveMirrors ==
    ASSUME Typed, Typed', NEW t \in Threads, ThreadActive(t)
    PROVE  [DaemonMirror!Next]_(DaemonMirror!vars)
  <1>1. UNCHANGED << pc, mirror >>
    BY DEF ThreadActive, daemon
  <1>2. Inbox' = Inbox \cup {t}
    <2>1. N + changes + 1 > 0
      BY SizeAssumption DEF Typed, TypeOK
    <2>2. /\ activity'[t] = N + changes + 1
          /\ \A u \in Threads \ {t} : activity'[u] = activity[u]
      BY DEF ThreadActive, Typed, TypeOK
    <2> QED
      BY <2>1, <2>2 DEF Inbox
  <1>3. Listing' \in {Listing, {stayed \ {t} : stayed \in Listing}}
    <2>1. CASE \E p \in Syncers : pc[p] \in Holds
      <3>1. PICK p \in Syncers : pc[p] \in Holds
        BY <2>1
      <3>2. Listing = {work[p].stayed} /\ Listing' = {work'[p].stayed}
        BY <1>1, <3>1, ListingHeld, ListingHeldNext
      <3>3. /\ work[p] \in Work /\ Kept(work[p], t) \in SUBSET Threads
            /\ work'[p] = Stays(work[p], Kept(work[p], t))
        BY ActiveEffect
      <3>4. work'[p].stayed = Kept(work[p], t)
        BY <3>3, StaysTyped
      <3>5. Kept(work[p], t) \in {work[p].stayed, work[p].stayed \ {t}}
        BY DEF Kept
      <3> QED
        BY <3>2, <3>4, <3>5
    <2>2. CASE \A p \in Syncers : pc[p] \notin Holds
      BY <1>1, <2>2, ListingFree, ListingFreeNext
    <2> QED
      BY <2>1, <2>2
  <1>4. DaemonMirror!Arrive
    BY <1>1, <1>2, <1>3 DEF DaemonMirror!Arrive
  <1> QED
    BY <1>4 DEF DaemonMirror!Next

LEMMA GoneMirrors ==
    ASSUME Typed, Typed', NEW t \in Threads, ThreadGone(t)
    PROVE  [DaemonMirror!Next]_(DaemonMirror!vars)
  <1>1. t \in Inbox /\ UNCHANGED << pc, mirror >>
    BY DEF ThreadGone, daemon
  <1>2. Inbox' = Inbox \ {t}
    <2>1. /\ activity'[t] = 0
          /\ \A u \in Threads \ {t} : activity'[u] = activity[u]
      BY DEF ThreadGone, Typed, TypeOK
    <2> QED
      BY <2>1 DEF Inbox
  <1>3. \A p \in Syncers : work'[p].stayed = work[p].stayed \ {t}
    <2>1. ASSUME NEW p \in Syncers PROVE work'[p].stayed = work[p].stayed \ {t}
      <3>1. /\ work[p] \in Work /\ work[p].stayed \ {t} \in SUBSET Threads
            /\ work'[p] = Stays(work[p], work[p].stayed \ {t})
        BY GoneEffect
      <3> QED
        BY <3>1, StaysTyped
    <2> QED
      BY <2>1
  <1>4. Listing' = {stayed \ {t} : stayed \in Listing}
    <2>1. CASE \E p \in Syncers : pc[p] \in Holds
      <3>1. PICK p \in Syncers : pc[p] \in Holds
        BY <2>1
      <3>2. Listing = {work[p].stayed} /\ Listing' = {work'[p].stayed}
        BY <1>1, <3>1, ListingHeld, ListingHeldNext
      <3> QED
        BY <1>3, <3>2
    <2>2. CASE \A p \in Syncers : pc[p] \notin Holds
      <3>1. Listing = {} /\ Listing' = {}
        BY <1>1, <2>2, ListingFree, ListingFreeNext
      <3> QED
        BY <3>1
    <2> QED
      BY <2>1, <2>2
  <1>5. DaemonMirror!Leave
    BY <1>1, <1>2, <1>4 DEF DaemonMirror!Leave
  <1> QED
    BY <1>5 DEF DaemonMirror!Next

LEMMA MirrorStep ==
    ASSUME Typed, Typed', Covered, [Next]_vars
    PROVE  [DaemonMirror!Next]_(DaemonMirror!vars)
  <1>1. ASSUME NEW p \in Syncers,
               SyncCommand(p) \/ CatchupStart(p) \/ RefreshStart(p) \/ CatchupTimer(p)
        PROVE  [DaemonMirror!Next]_(DaemonMirror!vars)
    <2>1. /\ pc[p] \notin Holds /\ pc'[p] \notin Holds /\ UNCHANGED << activity, mirror, work >>
          /\ \A q \in Syncers \ {p} : pc'[q] = pc[q]
      BY <1>1 DEF SyncCommand, CatchupStart, RefreshStart, CatchupTimer, Goto, Typed, TypeOK,
                  Holds, phone, daemon
    <2>2. Listing' = Listing
      BY <2>1, ListingKept
    <2> QED
      BY <2>1, <2>2 DEF DaemonMirror!vars, Inbox
  <1>2. ASSUME NEW p \in Syncers, SyncListFails(p)
        PROVE  [DaemonMirror!Next]_(DaemonMirror!vars)
    <2>1. Fails(p) /\ UNCHANGED << activity, mirror >>
      BY <1>2 DEF SyncListFails, phone, daemon
    <2> QED
      BY <2>1, FailsMirrors
  <1>3. ASSUME NEW p \in Syncers, SyncAfter(p)
        PROVE  [DaemonMirror!Next]_(DaemonMirror!vars)
    <2>1. /\ pc[p] = "after" /\ \E ok : Returns(p, ok)
          /\ work' = [work EXCEPT ![p] = NoWork] /\ UNCHANGED << activity, mirror >>
      BY <1>3 DEF SyncAfter, phone, daemon
    <2>2. /\ pc[p] \notin Holds /\ pc'[p] \notin Holds
          /\ \A q \in Syncers \ {p} : pc'[q] = pc[q] /\ work'[q] = work[q]
      BY <2>1, ReturnsTyped DEF Typed, TypeOK, Holds
    <2>3. Listing' = Listing
      BY <2>2, ListingKept
    <2> QED
      BY <2>1, <2>3 DEF DaemonMirror!vars, Inbox
  <1>4. CASE EventEmit
    <2>1. PICK event \in live : Deliver({event.thread}, FALSE, 0, event.lifecycle)
      BY <1>4 DEF EventEmit
    <2>2. UNCHANGED << activity, pc, work >>
      BY <1>4 DEF EventEmit, phone
    <2>3. {event.thread} \in SUBSET Threads
      BY DEF Typed, TypeOK
    <2>4. \E new \in SUBSET Threads : mirror' = mirror \cup new
      BY <2>1, <2>3, DeliverGrows
    <2>5. Listing' = Listing /\ Inbox' = Inbox
      BY <2>2, ListingKept DEF Inbox
    <2>6. DaemonMirror!Merge
      BY <2>4, <2>5 DEF DaemonMirror!Merge
    <2> QED
      BY <2>6 DEF DaemonMirror!Next
  <1>5. CASE EventCheck \/ Retire \/ UNCHANGED vars
    <2>1. UNCHANGED << activity, mirror, pc, work >>
      BY <1>5 DEF EventCheck, Retire, vars, phone, daemon
    <2>2. Listing' = Listing
      BY <2>1, ListingKept
    <2> QED
      BY <2>1, <2>2 DEF DaemonMirror!vars, Inbox
  <1>6. ASSUME NEW p \in Syncers, SyncBegin(p) \/ SyncPage(p) \/ SyncMap(p) \/ SyncEmit(p)
        PROVE  [DaemonMirror!Next]_(DaemonMirror!vars)
    BY <1>6, BeginMirrors, PageMirrors, MapMirrors, EmitMirrors
  <1>7. ASSUME NEW t \in Threads, ThreadActive(t) \/ ThreadGone(t)
        PROVE  [DaemonMirror!Next]_(DaemonMirror!vars)
    BY <1>7, ActiveMirrors, GoneMirrors
  <1> QED
    BY <1>1, <1>2, <1>3, <1>4, <1>5, <1>6, <1>7 DEF Next, SyncStep

\* The pages, the skipped rows, the chunks and the generations come to a
\* Mirror: no list that takes effect drops a thread that was in the inbox
\* throughout and did not move to its front before a page had it (sync.go
\* fullSyncLocked).
THEOREM ListsComplete == Spec => ImplementsMirror
  <1>1. Init => Covered
    BY DEF Init, Covered, Covers
  <1>2. Init => DaemonMirror!Init
    BY DEF Init, DaemonMirror!Init, Inbox, Listing
  <1>3. Typed /\ Covered /\ [Next]_vars => Covered'
    BY CoveredStep
  <1>4. Spec => []Covered
    BY <1>1, <1>3, TypedAlways, PTL DEF Spec
  <1>5. Typed /\ Typed' /\ Covered /\ [Next]_vars => [DaemonMirror!Next]_(DaemonMirror!vars)
    BY MirrorStep
  <1> QED
    BY <1>2, <1>4, <1>5, TypedAlways, PTL DEF Spec, ImplementsMirror, DaemonMirror!Spec
=============================================================================
