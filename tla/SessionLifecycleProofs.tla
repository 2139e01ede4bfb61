----------------------- MODULE SessionLifecycleProofs -----------------------
(***************************************************************************)
(* Theorems about SessionLifecycle, for any number of logins, restores and *)
(* logouts and any number of relay events.                                 *)
(***************************************************************************)
EXTENDS SessionLifecycle, TLAPS

-----------------------------------------------------------------------------
(* The fields of a Session, and the updates of the steps, by name: a step   *)
(* cites these instead of expanding the record.                            *)

LEMMA SessionFields ==
    ASSUME TypeOK
    PROVE  /\ s \in Session
           /\ s.lifecycle \in Nat
           /\ s.client \in Eras \cup {NoEra} /\ s.auth \in Eras \cup {NoEra}
           /\ s.pairCancel \in Eras \cup {NoEra}
           /\ s.connectCancel \in Eras \cup {NoEra}
           /\ s.clientGen \in Eras \cup {NoEra}
           /\ s.closed \in BOOLEAN
  BY DEF TypeOK, Session

LEMMA FixedEdits ==
    ASSUME TypeOK
    PROVE  /\ [s EXCEPT !.lifecycle = @ + 1] \in Session
           /\ [s EXCEPT !.pairCancel = NoEra] \in Session
           /\ [s EXCEPT !.ps = NoEra, !.pairCancel = NoEra] \in Session
           /\ [s EXCEPT !.connected = TRUE, !.authenticated = TRUE] \in Session
           /\ [s EXCEPT !.connected = FALSE, !.authenticated = FALSE] \in Session
           /\ [s EXCEPT !.closed = TRUE, !.pairCancel = NoEra, !.connectCancel = NoEra,
                        !.lifecycle = @ + 1] \in Session
           /\ TornDown \in Session
  <1> s \in Session
    BY DEF TypeOK
  <1>1. [s EXCEPT !.lifecycle = @ + 1] \in Session
    BY DEF Session
  <1>2. /\ [s EXCEPT !.pairCancel = NoEra] \in Session
        /\ [s EXCEPT !.ps = NoEra, !.pairCancel = NoEra] \in Session
    BY DEF Session
  <1>3. /\ [s EXCEPT !.connected = TRUE, !.authenticated = TRUE] \in Session
        /\ [s EXCEPT !.connected = FALSE, !.authenticated = FALSE] \in Session
    BY DEF Session
  <1> DEFINE next == s.lifecycle + 1
  <1>next. next \in Nat
    BY DEF Session
  <1>4. [s EXCEPT !.closed = TRUE, !.pairCancel = NoEra, !.connectCancel = NoEra,
                  !.lifecycle = @ + 1] \in Session
    <2> HIDE DEF next
    <2>1. [s EXCEPT !.closed = TRUE, !.pairCancel = NoEra, !.connectCancel = NoEra,
                    !.lifecycle = next] \in Session
      BY <1>next DEF Session
    <2> QED
      BY <2>1 DEF next
  <1>5. TornDown \in Session
    <2> HIDE DEF next
    <2>1. [s EXCEPT !.client = NoEra, !.auth = NoEra, !.connected = FALSE,
                    !.authenticated = FALSE, !.lifecycle = next] \in Session
      BY <1>next DEF Session
    <2> QED
      BY <2>1 DEF next, TornDown
  <1> QED
    BY <1>1, <1>2, <1>3, <1>4, <1>5

LEMMA EraEdits ==
    ASSUME TypeOK, NEW e \in Eras
    PROVE  /\ [s EXCEPT !.pairCancel = NoEra, !.connectCancel = NoEra,
                        !.connected = FALSE, !.authenticated = FALSE,
                        !.auth = e, !.client = e, !.clientGen = e] \in Session
           /\ [s EXCEPT !.pairCancel = e] \in Session
           /\ [s EXCEPT !.ps = e] \in Session
           /\ [s EXCEPT !.connectCancel = e] \in Session
  <1> s \in Session
    BY DEF TypeOK
  <1>1. [s EXCEPT !.pairCancel = NoEra, !.connectCancel = NoEra,
                  !.connected = FALSE, !.authenticated = FALSE,
                  !.auth = e, !.client = e, !.clientGen = e] \in Session
    BY DEF Session
  <1>2. /\ [s EXCEPT !.pairCancel = e] \in Session
        /\ [s EXCEPT !.ps = e] \in Session
        /\ [s EXCEPT !.connectCancel = e] \in Session
    BY DEF Session
  <1> QED
    BY <1>1, <1>2

LEMMA RestoredSession ==
    ASSUME TypeOK, NEW r \in Eras, RestoreBuild(r)
    PROVE  s' \in Session
  <1>1. s \in Session
    BY DEF TypeOK
  <1>2. CASE r \in paired
    <2>1. s' = [s EXCEPT !.auth = r, !.client = r, !.clientGen = r,
                         !.authenticated = TRUE]
      BY <1>2 DEF RestoreBuild
    <2> QED
      BY <1>1, <2>1 DEF Session
  <1>3. CASE r \notin paired
    <2>1. (r \in paired) = FALSE
      BY <1>3
    <2>2. s' = [s EXCEPT !.auth = r, !.client = r, !.clientGen = r,
                         !.authenticated = FALSE]
      BY <2>1 DEF RestoreBuild
    <2> QED
      BY <1>1, <2>2 DEF Session
  <1> QED
    BY <1>2, <1>3

-----------------------------------------------------------------------------
(* The operators that cancel contexts and end polls keep their types.      *)

LEMMA EndPollsTyped ==
    ASSUME TypeOK, NEW P, NEW L, NEW C, EndPolls(P, L, C)
    PROVE  /\ pairPolls' \subseteq Eras
           /\ loopPolls' \subseteq [client : Eras, loop : Eras]
  BY DEF TypeOK, EndPolls

LEMMA CancelTyped ==
    ASSUME TypeOK
    PROVE  /\ CancelPairing => pairCancelled' \subseteq Eras
           /\ CancelLoop => loopCancelled' \subseteq Eras
  BY DEF TypeOK, Session, CancelPairing, CancelLoop

LEMMA FireTyped ==
    ASSUME TypeOK, NEW event \in {"offline", "pairing", "online", "removed"},
           Fire(event)
    PROVE  told' \in {"nothing", "offline", "pairing", "online", "removed"}
  BY DEF TypeOK, Fire

LEMMA GotoTyped ==
    ASSUME TypeOK, NEW w, NEW here, NEW there \in States, Goto(w, here, there)
    PROVE  pc' \in [Workers -> States]
  BY DEF TypeOK, Goto

-----------------------------------------------------------------------------
(* Every step keeps the types.                                             *)

LEMMA SettledPairing ==
    ASSUME NEW e \in Eras, PairingSettle(e)
    PROVE  \E there \in {"save", "done", "report"} : pc' = [pc EXCEPT ![e] = there]
  <1>1. CASE PairingCurrent(e) /\ pc[e] = "answered"
    BY <1>1 DEF PairingSettle
  <1>2. CASE PairingCurrent(e) /\ pc[e] = "refused" /\ e \in pairCancelled'
    BY <1>2 DEF PairingSettle
  <1>3. CASE PairingCurrent(e) /\ pc[e] = "refused" /\ e \notin pairCancelled'
    BY <1>3 DEF PairingSettle
  <1>4. CASE ~PairingCurrent(e)
    BY <1>4 DEF PairingSettle
  <1> QED
    BY <1>1, <1>2, <1>3, <1>4 DEF PairingSettle

LEMMA PairingTyped ==
    ASSUME TypeOK, NEW e \in Eras,
           LoginRetire(e) \/ RestoreLoad(e) \/ PairingStep(e)
    PROVE  TypeOK'
  <1> USE WorkersAssumption, SessionFields DEF contexts, relay, disk, history
  <1>1. CASE LoginRetire(e)
    <2>1. s' \in Session
      BY <1>1, FixedEdits DEF LoginRetire
    <2>2. pc' \in [Workers -> States]
      BY <1>1 DEF LoginRetire, TypeOK, Goto, States
    <2>3. lc' \in [Workers -> Nat]
      <3>1. s.lifecycle + 1 \in Nat
        OBVIOUS
      <3> QED
        BY <1>1, <3>1 DEF LoginRetire, TypeOK
    <2> QED
      BY <1>1, <2>1, <2>2, <2>3 DEF LoginRetire, TypeOK
  <1>2. CASE RestoreLoad(e)
    <2>1. pc' \in [Workers -> States]
      BY <1>2 DEF RestoreLoad, TypeOK, Goto, States
    <2> QED
      BY <1>2, <2>1 DEF RestoreLoad, TypeOK
  <1>3. CASE LoginSwap(e)
    <2>1. s' \in Session
      BY <1>3, EraEdits DEF LoginSwap
    <2>2. pc' \in [Workers -> States]
      BY <1>3 DEF LoginSwap, TypeOK, Goto, States
    <2> QED
      BY <1>3, <2>1, <2>2, EndPollsTyped, CancelTyped, FireTyped DEF LoginSwap, TypeOK
  <1>4. CASE LoginConfig(e)
    <2>1. s' \in Session
      BY <1>4, EraEdits DEF LoginConfig
    <2>2. pc' \in [Workers -> States]
      BY <1>4 DEF LoginConfig, TypeOK, Goto, States
    <2> QED
      BY <1>4, <2>1, <2>2 DEF LoginConfig, TypeOK
  <1>5. CASE LoginStart(e)
    <2>1. s' \in Session
      BY <1>5, EraEdits DEF LoginStart
    <2>2. pc' \in [Workers -> States]
      BY <1>5 DEF LoginStart, TypeOK, Goto, States
    <2>3. /\ told' \in {"nothing", "offline", "pairing", "online", "removed"}
          /\ pairPolls' \subseteq Eras
      BY <1>5 DEF LoginStart, TypeOK, Fire
    <2> QED
      BY <1>5, <2>1, <2>2, <2>3 DEF LoginStart, TypeOK
  <1>6. CASE PairingCheck(e)
    BY <1>6 DEF PairingCheck, TypeOK, Goto, States
  <1>7. CASE PhoneAnswers(e)
    BY <1>7 DEF PhoneAnswers, TypeOK, Goto, States
  <1>8. CASE PairingSettle(e)
    <2>1. s' \in Session
      BY <1>8, FixedEdits DEF PairingSettle
    <2>2. pc' \in [Workers -> States]
      BY <1>8, SettledPairing DEF TypeOK, States
    <2> QED
      BY <1>8, <2>1, <2>2, EndPollsTyped, CancelTyped DEF PairingSettle, TypeOK
  <1>9. CASE RestoreBuild(e)
    <2>1. s' \in Session
      BY <1>9, RestoredSession
    <2>2. pc' \in [Workers -> States]
      BY <1>9 DEF RestoreBuild, TypeOK, Goto, States
    <2> QED
      BY <1>9, <2>1, <2>2, FireTyped DEF RestoreBuild, TypeOK
  <1>10. CASE StartLoop(e)
    <2>1. s' \in Session
      BY <1>10, EraEdits DEF StartLoop
    <2>2. pc' \in [Workers -> States]
      BY <1>10 DEF StartLoop, TypeOK, Goto, States
    <2> QED
      BY <1>10, <2>1, <2>2, EndPollsTyped, CancelTyped DEF StartLoop, TypeOK
  <1>11. CASE PairingReport(e)
    BY <1>11 DEF PairingReport, TypeOK, Goto, States
  <1> QED
    BY <1>1, <1>2, <1>3, <1>4, <1>5, <1>6, <1>7, <1>8, <1>9, <1>10, <1>11
       DEF PairingStep

LEMMA LoopTyped ==
    ASSUME TypeOK, NEW e \in Eras, LoopStep(e)
    PROVE  TypeOK'
  <1> USE SessionFields DEF TypeOK, contexts, disk, history
  <1>1. CASE LoopTop(e)
    BY <1>1 DEF LoopTop, Goto, States, relay, Workers
  <1>2. CASE LoopFails(e)
    BY <1>2 DEF LoopFails, Goto, States, relay
  <1>3. CASE LoopFetched(e)
    BY <1>3 DEF LoopFetched, Goto, States, relay
  <1>4. CASE LoopConnected(e)
    <2>1. pc' \in [Workers -> States]
      BY <1>4 DEF LoopConnected, Goto, States
    <2>2. /\ loopPolls' \subseteq [client : Eras, loop : Eras]
          /\ everConnected' \subseteq Eras
      BY <1>4 DEF LoopConnected
    <2> QED
      BY <1>4, <2>1, <2>2 DEF LoopConnected
  <1>5. CASE LoopCommit(e)
    <2>1. s' \in Session
      BY <1>5, FixedEdits DEF LoopCommit
    <2>2. pc' \in [Workers -> States]
      BY <1>5 DEF LoopCommit, Goto, States
    <2> QED
      BY <1>5, <2>1, <2>2 DEF LoopCommit, relay
  <1>6. CASE LoopAnnounce(e)
    BY <1>6 DEF LoopAnnounce, Goto, States, relay
  <1>7. CASE LoopEmit(e)
    BY <1>7 DEF LoopEmit, Goto, States, Fire, relay
  <1>8. CASE LoopFatal(e)
    <2>1. s' \in Session
      BY <1>8, FixedEdits DEF LoopFatal
    <2>2. pc' \in [Workers -> States]
      BY <1>8 DEF LoopFatal, Goto, States
    <2> QED
      BY <1>8, <2>1, <2>2, FireTyped DEF LoopFatal, relay
  <1> QED
    BY <1>1, <1>2, <1>3, <1>4, <1>5, <1>6, <1>7, <1>8 DEF LoopStep

LEMMA MarshalledTyped ==
    ASSUME TypeOK, NEW e \in Eras
    PROVE  Marshalled(e) \in Auth
  <1>1. CASE e \in paired
    <2>1. Marshalled(e) = [auth |-> e, paired |-> TRUE, token |-> refreshed[e]]
      BY <1>1 DEF Marshalled
    <2> QED
      BY <2>1 DEF Auth, TypeOK
  <1>2. CASE e \notin paired
    <2>1. (e \in paired) = FALSE
      BY <1>2
    <2>2. Marshalled(e) = [auth |-> e, paired |-> FALSE, token |-> refreshed[e]]
      BY <2>1 DEF Marshalled
    <2> QED
      BY <2>2 DEF Auth, TypeOK
  <1> QED
    BY <1>1, <1>2

LEMMA SaveTyped ==
    ASSUME TypeOK, NEW w \in Eras \cup {EventLoop}, SaveStep(w)
    PROVE  TypeOK'
  <1> USE DEF contexts, relay, disk, history
  <1>1. AfterSave(w) \in States /\ AfterFailedSave(w) \in States
    BY DEF AfterSave, AfterFailedSave, States
  <1>2. {"recheck", "write"} \subseteq States
    BY DEF States
  <1>3. w \in Workers
    BY DEF Workers
  <1>4. snap[w] \in Auth \cup {NoFile} /\ lc[w] \in Nat
    BY <1>3 DEF TypeOK
  <1>5. CASE SaveBegin(w)
    <2>1. pc' \in [Workers -> States]
      BY <1>1, <1>2, <1>5 DEF SaveBegin, TypeOK, Goto
    <2>2. snap' \in [Workers -> Auth \cup {NoFile}]
      <3>1. CASE s.auth = NoEra
        BY <1>5, <3>1 DEF SaveBegin, TypeOK
      <3>2. CASE s.auth \in Eras
        BY <1>5, <3>2, MarshalledTyped DEF SaveBegin, TypeOK
      <3> QED
        BY <3>1, <3>2, SessionFields
    <2> QED
      BY <1>5, <2>1, <2>2 DEF SaveBegin, TypeOK
  <1>6. CASE SaveRecheck(w)
    <2>1. pc' \in [Workers -> States]
      BY <1>1, <1>2, <1>6 DEF SaveRecheck, TypeOK, Goto
    <2>2. snap' \in [Workers -> Auth \cup {NoFile}]
      BY <1>6 DEF SaveRecheck, TypeOK
    <2> QED
      BY <1>3, <1>6, <2>1, <2>2 DEF SaveRecheck, TypeOK
  <1>7. CASE SaveWrite(w)
    <2>1. pc' \in [Workers -> States]
      BY <1>1, <1>7 DEF SaveWrite, TypeOK, Goto
    <2>2. snap' \in [Workers -> Auth \cup {NoFile}]
      BY <1>7 DEF SaveWrite, TypeOK
    <2>3. file' \in Auth \cup {NoFile} /\ lastPublished' \in Nat
      BY <1>4, <1>7 DEF SaveWrite, TypeOK
    <2> QED
      BY <1>7, <2>1, <2>2, <2>3 DEF SaveWrite, TypeOK
  <1> QED
    BY <1>5, <1>6, <1>7 DEF SaveStep

LEMMA LogoutTyped ==
    ASSUME TypeOK, NEW o \in Logouts, LogoutBegin(o) \/ LogoutStep(o)
    PROVE  TypeOK'
  <1> USE SessionFields DEF TypeOK, Goto, States, history
  <1>1. CASE LogoutBegin(o)
    BY <1>1, FixedEdits, EndPollsTyped, CancelTyped DEF LogoutBegin, disk, Workers
  <1>2. CASE LogoutRetire(o)
    BY <1>2, FixedEdits DEF LogoutRetire, contexts, relay, disk
  <1>3. CASE LogoutRevoke(o)
    BY <1>3, EndPollsTyped DEF LogoutRevoke, contexts, disk
  <1>4. CASE LogoutDelete(o)
    BY <1>4 DEF LogoutDelete, contexts, relay
  <1>5. CASE LogoutTeardown(o)
    <2>1. pc' \in [Workers -> States]
      BY <1>5 DEF LogoutTeardown
    <2>2. wipedAt' \in Nat
      BY <1>5 DEF LogoutTeardown
    <2>3. told' \in {"nothing", "offline", "pairing", "online", "removed"}
      BY <1>5 DEF LogoutTeardown, Fire
    <2> QED
      BY <1>5, <2>1, <2>2, <2>3, FixedEdits DEF LogoutTeardown, contexts, relay
  <1>6. CASE LogoutReport(o)
    BY <1>6, FireTyped DEF LogoutReport, contexts, relay, disk
  <1>7. CASE LogoutForget(o)
    BY <1>7, FixedEdits, EndPollsTyped, CancelTyped DEF LogoutForget, Close, disk
  <1> QED
    BY <1>1, <1>2, <1>3, <1>4, <1>5, <1>6, <1>7 DEF LogoutStep

LEMMA Counted ==
    ASSUME NEW f \in [Eras -> Nat], NEW e \in Eras
    PROVE  /\ [f EXCEPT ![e] = @ + 1] \in [Eras -> Nat]
           /\ \A a \in Eras : f[a] <= [f EXCEPT ![e] = @ + 1][a]
  <1>1. f[e] + 1 \in Nat /\ f[e] <= f[e] + 1
    OBVIOUS
  <1> QED
    BY <1>1

LEMMA RefreshCounted ==
    ASSUME TypeOK, RelayEvent
    PROVE  /\ refreshed' \in [Eras -> Nat]
           /\ \A a \in Eras : refreshed[a] <= refreshed'[a]
  <1>1. refreshed \in [Eras -> Nat]
    BY DEF TypeOK
  <1>2. CASE refreshed' = refreshed
    BY <1>1, <1>2
  <1>3. CASE refreshed' = [refreshed EXCEPT ![s.clientGen] = @ + 1] /\ s.clientGen \in Eras
    BY <1>1, <1>3, Counted
  <1>4. \A p \in loopPolls : p.client \in Eras
    BY DEF TypeOK
  <1> QED
    BY <1>2, <1>3, <1>4 DEF RelayEvent

LEMMA EventTyped ==
    ASSUME TypeOK, RelayEvent \/ EventStep \/ Shutdown
    PROVE  TypeOK'
  <1> DEFINE Event == [lifecycle : Nat, kind : {"refreshed", "lost"}]
  <1>1. CASE RelayEvent
    <2> DEFINE Stamped(kind) == [lifecycle |-> s.lifecycle, kind |-> kind]
    <2>1. \A kind \in {"refreshed", "lost"} : Stamped(kind) \in Event
      BY SessionFields
    <2>2. \E kind \in {"refreshed", "lost"} : events' = Append(events, Stamped(kind))
      BY <1>1 DEF RelayEvent
    <2>3. events' \in Seq(Event)
      <3> HIDE DEF Stamped, Event
      <3> events \in Seq(Event)
        BY DEF TypeOK, Event
      <3> QED
        BY <2>1, <2>2
    <2>4. relayed' \in Nat
      BY <1>1 DEF RelayEvent, TypeOK
    <2>5. refreshed' \in [Eras -> Nat]
      BY <1>1, RefreshCounted
    <2> QED
      BY <1>1, <2>3, <2>4, <2>5 DEF RelayEvent, TypeOK, goroutines, contexts, disk, history
  <1>2. CASE EventDequeue
    <2>1. events \in Seq(Event) /\ events # << >>
      BY <1>2 DEF EventDequeue, TypeOK
    <2>2. Tail(events) \in Seq(Event)
      <3> HIDE DEF Event
      <3> QED
        BY <2>1
    <2>3. pc' \in [Workers -> States] /\ lc' \in [Workers -> Nat]
      BY <1>2, SessionFields DEF EventDequeue, TypeOK, States
    <2> QED
      BY <1>2, <2>2, <2>3 DEF EventDequeue, TypeOK, contexts, relay, disk, history
  <1>3. CASE EventLost
    BY <1>3, FixedEdits, FireTyped
       DEF EventLost, TypeOK, States, Goto, contexts, relay, disk, history
  <1>4. CASE Shutdown
    BY <1>4, FixedEdits, EndPollsTyped, CancelTyped
       DEF Shutdown, Close, TypeOK, goroutines, disk, history
  <1> QED
    BY <1>1, <1>2, <1>3, <1>4 DEF EventStep

LEMMA StepTyped ==
    ASSUME TypeOK, [Next]_vars
    PROVE  TypeOK'
  <1>1. CASE Next
    BY <1>1, PairingTyped, LoopTyped, SaveTyped, LogoutTyped, EventTyped DEF Next
  <1>2. CASE UNCHANGED vars
    BY <1>2 DEF vars, goroutines, contexts, relay, disk, history, TypeOK
  <1> QED
    BY <1>1, <1>2

\* Type correctness of every reachable state.
THEOREM TypeCorrect == Spec => []TypeOK
  <1>1. Init => TypeOK
    <2> SUFFICES ASSUME Init PROVE TypeOK
      OBVIOUS
    <2>1. s \in Session
      BY DEF Init, Session
    <2>2. pc \in [Workers -> States] /\ lc \in [Workers -> Nat]
          /\ cl \in [Workers -> Eras \cup {NoEra}]
          /\ snap \in [Workers -> Auth \cup {NoFile}]
      BY DEF Init, States
    <2>3. file \in Auth \cup {NoFile}
      <3>1. Restores \subseteq Eras /\ TRUE \in BOOLEAN /\ 0 \in Nat
        BY DEF Eras
      <3>2. [auth : Restores, paired : {TRUE}, token : {0}] \subseteq Auth
        BY <3>1 DEF Auth
      <3> QED
        BY <3>2, Zenon DEF Init
    <2>4. refreshed \in [Eras -> Nat]
      BY DEF Init
    <2> QED
      BY <2>1, <2>2, <2>3, <2>4 DEF Init, TypeOK
  <1> QED
    BY <1>1, StepTyped, PTL DEF Spec

-----------------------------------------------------------------------------
(* At most one live reconnect loop.                                        *)

\* A step that starts no loop and touches no cancel function keeps the
\* property: no goroutine that ended runs again.
LEMMA LoopsKept ==
    ASSUME AtMostOneLiveLoop, inLoop' = inLoop, loopCancelled' = loopCancelled,
           s'.connectCancel = s.connectCancel,
           \A e \in inLoop : pc[e] = "done" => pc'[e] = "done"
    PROVE  AtMostOneLiveLoop'
  BY DEF AtMostOneLiveLoop, LiveLoops

\* A step that cancels the stored loop and ends no goroutine's "done".
LEMMA LoopsStopped ==
    ASSUME AtMostOneLiveLoop, TypeOK, inLoop' = inLoop, CancelLoop,
           \A e \in inLoop : pc[e] = "done" => pc'[e] = "done"
    PROVE  AtMostOneLiveLoop'
  BY WorkersAssumption DEF AtMostOneLiveLoop, LiveLoops, CancelLoop, TypeOK, Workers

LEMMA PairingKeepsLoops ==
    ASSUME TypeOK, AtMostOneLiveLoop, NEW e \in Eras,
           LoginRetire(e) \/ RestoreLoad(e) \/ PairingStep(e)
    PROVE  AtMostOneLiveLoop'
  <1> USE SessionFields DEF Goto, contexts, Session
  <1> e \in Workers /\ inLoop \subseteq Workers /\ pc \in [Workers -> States]
    BY DEF TypeOK, Workers
  <1>1. CASE LoginRetire(e)
    BY <1>1, LoopsKept DEF LoginRetire
  <1>2. CASE RestoreLoad(e)
    BY <1>2, LoopsKept DEF RestoreLoad
  <1>3. CASE LoginSwap(e)
    BY <1>3, LoopsStopped DEF LoginSwap
  <1>4. CASE LoginConfig(e)
    BY <1>4, LoopsKept DEF LoginConfig
  <1>5. CASE LoginStart(e)
    BY <1>5, LoopsKept DEF LoginStart
  <1>6. CASE PairingCheck(e)
    BY <1>6, LoopsKept DEF PairingCheck
  <1>7. CASE PhoneAnswers(e)
    BY <1>7, LoopsKept DEF PhoneAnswers
  <1>8. CASE PairingSettle(e)
    BY <1>8, LoopsKept, SettledPairing DEF PairingSettle
  <1>9. CASE RestoreBuild(e)
    BY <1>9, LoopsKept DEF RestoreBuild
  <1>10. CASE StartLoop(e)
    \* The loop that was live is cancelled, and its successor is stored.
    <2>1. s'.connectCancel = e /\ inLoop' = inLoop \cup {e}
      BY <1>10 DEF StartLoop
    <2>2. \A l \in inLoop : l \in LiveLoops => l \in loopCancelled'
      BY <1>10, WorkersAssumption
         DEF StartLoop, CancelLoop, AtMostOneLiveLoop, Workers, TypeOK
    <2>3. \A l \in inLoop : pc[l] = "done" => pc'[l] = "done"
      BY <1>10 DEF StartLoop
    <2>4. loopCancelled \subseteq loopCancelled'
      BY <1>10 DEF StartLoop, CancelLoop
    <2> QED
      BY <2>1, <2>2, <2>3, <2>4 DEF AtMostOneLiveLoop, LiveLoops
  <1>11. CASE PairingReport(e)
    BY <1>11, LoopsKept DEF PairingReport
  <1> QED
    BY <1>1, <1>2, <1>3, <1>4, <1>5, <1>6, <1>7, <1>8, <1>9, <1>10, <1>11
       DEF PairingStep

LEMMA LoopKeepsLoops ==
    ASSUME TypeOK, AtMostOneLiveLoop, NEW e \in Eras, LoopStep(e)
    PROVE  AtMostOneLiveLoop'
  <1> USE SessionFields, LoopsKept DEF Goto, contexts, Session
  <1> e \in Workers /\ inLoop \subseteq Workers /\ pc \in [Workers -> States]
    BY DEF TypeOK, Workers
  <1>1. CASE LoopTop(e)
    BY <1>1 DEF LoopTop
  <1>2. CASE LoopFails(e)
    BY <1>2 DEF LoopFails
  <1>3. CASE LoopFetched(e)
    BY <1>3 DEF LoopFetched
  <1>4. CASE LoopConnected(e)
    BY <1>4 DEF LoopConnected
  <1>5. CASE LoopCommit(e)
    BY <1>5 DEF LoopCommit
  <1>6. CASE LoopAnnounce(e)
    BY <1>6 DEF LoopAnnounce
  <1>7. CASE LoopEmit(e)
    BY <1>7 DEF LoopEmit
  <1>8. CASE LoopFatal(e)
    BY <1>8 DEF LoopFatal
  <1> QED
    BY <1>1, <1>2, <1>3, <1>4, <1>5, <1>6, <1>7, <1>8 DEF LoopStep

LEMMA SaveKeepsLoops ==
    ASSUME TypeOK, AtMostOneLiveLoop, NEW w \in Eras \cup {EventLoop}, SaveStep(w)
    PROVE  AtMostOneLiveLoop'
  <1> w \in Workers /\ inLoop \subseteq Workers /\ pc \in [Workers -> States]
    BY DEF TypeOK, Workers
  <1>1. \E here \in {"save", "recheck", "write"}, there \in States : Goto(w, here, there)
    <2>1. AfterSave(w) \in States /\ AfterFailedSave(w) \in States
      BY DEF AfterSave, AfterFailedSave, States
    <2>2. {"recheck", "write"} \subseteq States
      BY DEF States
    <2> QED
      BY <2>1, <2>2 DEF SaveStep, SaveBegin, SaveRecheck, SaveWrite
  <1>2. /\ inLoop' = inLoop /\ loopCancelled' = loopCancelled
        /\ s' = s
    BY DEF SaveStep, SaveBegin, SaveRecheck, SaveWrite, contexts
  <1> QED
    BY <1>1, <1>2, LoopsKept DEF Goto

LEMMA LogoutKeepsLoops ==
    ASSUME TypeOK, AtMostOneLiveLoop, NEW o \in Logouts, LogoutBegin(o) \/ LogoutStep(o)
    PROVE  AtMostOneLiveLoop'
  <1> USE SessionFields, LoopsKept DEF Goto, contexts, Session
  <1> o \in Workers /\ inLoop \subseteq Workers /\ pc \in [Workers -> States]
    BY DEF TypeOK, Workers
  <1>1. CASE LogoutBegin(o)
    BY <1>1 DEF LogoutBegin
  <1>2. CASE LogoutRetire(o)
    BY <1>2 DEF LogoutRetire
  <1>3. CASE LogoutRevoke(o)
    BY <1>3 DEF LogoutRevoke
  <1>4. CASE LogoutDelete(o)
    BY <1>4 DEF LogoutDelete
  <1>5. CASE LogoutTeardown(o)
    BY <1>5 DEF LogoutTeardown, TornDown
  <1>6. CASE LogoutReport(o)
    BY <1>6 DEF LogoutReport
  <1>7. CASE LogoutForget(o)
    BY <1>7, LoopsStopped DEF LogoutForget, Close
  <1> QED
    BY <1>1, <1>2, <1>3, <1>4, <1>5, <1>6, <1>7 DEF LogoutStep

LEMMA EventKeepsLoops ==
    ASSUME TypeOK, AtMostOneLiveLoop, RelayEvent \/ EventStep \/ Shutdown
    PROVE  AtMostOneLiveLoop'
  <1> USE SessionFields DEF contexts, goroutines, Session
  <1> /\ EventLoop \in Workers \ inLoop /\ inLoop \subseteq Workers
      /\ pc \in [Workers -> States]
    BY WorkersAssumption DEF TypeOK, Workers
  <1>1. CASE RelayEvent
    BY <1>1, LoopsKept DEF RelayEvent
  <1>2. CASE EventDequeue
    BY <1>2, LoopsKept DEF EventDequeue
  <1>3. CASE EventLost
    BY <1>3, LoopsKept DEF EventLost, Goto
  <1>4. CASE Shutdown
    BY <1>4, LoopsStopped DEF Shutdown, Close
  <1> QED
    BY <1>1, <1>2, <1>3, <1>4 DEF EventStep

\* Re-login, repeated hellos, logouts and close never leave two reconnect
\* loops racing: the live one is the one connectCancel can stop.
THEOREM OneLiveLoop == Spec => []AtMostOneLiveLoop
  <1>1. Init => AtMostOneLiveLoop
    BY DEF Init, AtMostOneLiveLoop, LiveLoops
  <1>2. TypeOK /\ AtMostOneLiveLoop /\ [Next]_vars => AtMostOneLiveLoop'
    <2> SUFFICES ASSUME TypeOK, AtMostOneLiveLoop, [Next]_vars
                 PROVE  AtMostOneLiveLoop'
      OBVIOUS
    <2>1. CASE Next
      BY <2>1, PairingKeepsLoops, LoopKeepsLoops, SaveKeepsLoops, LogoutKeepsLoops,
         EventKeepsLoops DEF Next
    <2>2. CASE UNCHANGED vars
      BY <2>2 DEF vars, goroutines, contexts, AtMostOneLiveLoop, LiveLoops
    <2> QED
      BY <2>1, <2>2
  <1> QED
    BY <1>1, <1>2, TypeCorrect, PTL DEF Spec

-----------------------------------------------------------------------------
(* Saves publish in order, and none undoes a clean logout.                 *)

Savers == Eras \cup {EventLoop}

\* Whoever is past the recheck holds saveMu, and its lifecycle is not older
\* than anything published, nor than a clean teardown.
WriterInv ==
    \A w \in Savers :
        pc[w] = "write" => /\ saveMu = w
                           /\ lastPublished <= lc[w] /\ wipedAt <= lc[w]
                           /\ lc[w] <= s.lifecycle

SaveInv ==
    /\ lastPublished <= s.lifecycle /\ wipedAt <= s.lifecycle
    /\ WriterInv
    /\ CleanLogoutHolds

\* A step that leaves saving, the file and the teardown history alone.
LEMMA SaveFrame ==
    ASSUME TypeOK, SaveInv, saveMu' = saveMu, disk' = disk,
           s'.lifecycle \in Nat, s'.lifecycle >= s.lifecycle,
           \A w \in Savers : pc'[w] = "write" => pc[w] = "write" /\ lc'[w] = lc[w]
    PROVE  SaveInv'
  <1> /\ lastPublished' = lastPublished /\ wipedAt' = wipedAt /\ file' = file
    BY DEF disk, history
  <1> /\ \A w \in Savers : lc[w] \in Nat
      /\ s.lifecycle \in Nat /\ lastPublished \in Nat /\ wipedAt \in Nat
    BY SessionFields DEF TypeOK, Savers, Workers
  <1>1. WriterInv'
    BY DEF SaveInv, WriterInv
  <1>2. CleanLogoutHolds'
    BY DEF SaveInv, CleanLogoutHolds
  <1> QED
    BY <1>1, <1>2 DEF SaveInv

LEMMA PairingKeepsSaves ==
    ASSUME TypeOK, SaveInv, NEW e \in Eras,
           LoginRetire(e) \/ RestoreLoad(e) \/ PairingStep(e)
    PROVE  SaveInv'
  <1> USE SessionFields, SaveFrame DEF Goto, Session, disk
  <1> /\ e \in Savers /\ Savers \subseteq Workers
      /\ pc \in [Workers -> States] /\ lc \in [Workers -> Nat]
    BY DEF TypeOK, Workers, Savers
  <1>1. CASE LoginRetire(e)
    BY <1>1 DEF LoginRetire
  <1>2. CASE RestoreLoad(e)
    BY <1>2 DEF RestoreLoad
  <1>3. CASE LoginSwap(e)
    BY <1>3 DEF LoginSwap
  <1>4. CASE LoginConfig(e)
    BY <1>4 DEF LoginConfig
  <1>5. CASE LoginStart(e)
    BY <1>5 DEF LoginStart
  <1>6. CASE PairingCheck(e)
    BY <1>6 DEF PairingCheck
  <1>7. CASE PhoneAnswers(e)
    BY <1>7 DEF PhoneAnswers
  <1>8. CASE PairingSettle(e)
    <2>1. s'.lifecycle = s.lifecycle
      BY <1>8 DEF PairingSettle
    <2>2. saveMu' = saveMu /\ disk' = disk /\ lc' = lc
      BY <1>8 DEF PairingSettle
    <2>3. \A v \in Savers : pc'[v] = "write" => pc[v] = "write"
      BY <1>8, SettledPairing
    <2> QED
      BY <2>1, <2>2, <2>3
  <1>9. CASE RestoreBuild(e)
    BY <1>9 DEF RestoreBuild
  <1>10. CASE StartLoop(e)
    BY <1>10 DEF StartLoop
  <1>11. CASE PairingReport(e)
    BY <1>11 DEF PairingReport
  <1> QED
    BY <1>1, <1>2, <1>3, <1>4, <1>5, <1>6, <1>7, <1>8, <1>9, <1>10, <1>11
       DEF PairingStep

LEMMA LoopKeepsSaves ==
    ASSUME TypeOK, SaveInv, NEW e \in Eras, LoopStep(e)
    PROVE  SaveInv'
  <1> USE SessionFields, SaveFrame DEF Goto, Session, disk
  <1> /\ e \in Savers /\ Savers \subseteq Workers
      /\ pc \in [Workers -> States] /\ lc \in [Workers -> Nat]
    BY DEF TypeOK, Workers, Savers
  <1>1. CASE LoopTop(e)
    BY <1>1 DEF LoopTop
  <1>2. CASE LoopFails(e)
    BY <1>2 DEF LoopFails
  <1>3. CASE LoopFetched(e)
    BY <1>3 DEF LoopFetched
  <1>4. CASE LoopConnected(e)
    BY <1>4 DEF LoopConnected
  <1>5. CASE LoopCommit(e)
    <2>1. s'.lifecycle = s.lifecycle
      BY <1>5 DEF LoopCommit
    <2>2. saveMu' = saveMu /\ disk' = disk /\ lc' = lc
      BY <1>5 DEF LoopCommit
    <2>3. \A v \in Savers : pc'[v] = "write" => pc[v] = "write"
      BY <1>5 DEF LoopCommit
    <2> QED
      BY <2>1, <2>2, <2>3
  <1>6. CASE LoopAnnounce(e)
    BY <1>6 DEF LoopAnnounce
  <1>7. CASE LoopEmit(e)
    BY <1>7 DEF LoopEmit
  <1>8. CASE LoopFatal(e)
    BY <1>8 DEF LoopFatal
  <1> QED
    BY <1>1, <1>2, <1>3, <1>4, <1>5, <1>6, <1>7, <1>8 DEF LoopStep

LEMMA SaveKeepsSaves ==
    ASSUME TypeOK, SaveInv, NEW w \in Savers, SaveStep(w)
    PROVE  SaveInv' /\ lastPublished' >= lastPublished
  <1> /\ Savers \subseteq Workers /\ NoEra \notin Savers
      /\ pc \in [Workers -> States] /\ lc \in [Workers -> Nat]
      /\ s.lifecycle \in Nat /\ lastPublished \in Nat /\ wipedAt \in Nat
    BY SessionFields, WorkersAssumption DEF TypeOK, Workers, Savers
  <1>1. AfterSave(w) # "write" /\ AfterFailedSave(w) # "write"
    BY DEF AfterSave, AfterFailedSave
  <1>2. CASE SaveBegin(w)
    BY <1>1, <1>2, SaveFrame DEF SaveBegin, Goto, disk, history
  <1>3. CASE SaveRecheck(w)
    <2>1. UNCHANGED << s, lc, file, lastPublished, wipedAt >> /\ saveMu = NoEra
      BY <1>3 DEF SaveRecheck, disk, history
    <2>2. \A v \in Savers : pc[v] # "write"
      BY <2>1 DEF SaveInv, WriterInv
    <2>3. WriterInv'
      <3>1. CASE pc' = [pc EXCEPT ![w] = "write"] /\ saveMu' = w /\ lc[w] = s.lifecycle
        BY <2>1, <2>2, <3>1 DEF SaveInv, WriterInv
      <3>2. CASE pc' = [pc EXCEPT ![w] = AfterSave(w)]
        BY <1>1, <2>2, <3>2 DEF WriterInv
      <3> QED
        BY <1>3, <3>1, <3>2 DEF SaveRecheck, Goto, Current
    <2> QED
      BY <2>1, <2>3 DEF SaveInv, CleanLogoutHolds
  <1>4. CASE SaveWrite(w)
    <2>1. /\ pc[w] = "write" /\ UNCHANGED << s, lc, wipedAt >>
          /\ pc' = [pc EXCEPT ![w] = AfterSave(w)]
               \/ pc' = [pc EXCEPT ![w] = AfterFailedSave(w)]
      BY <1>4 DEF SaveWrite, Goto
    <2>2. /\ saveMu = w /\ lastPublished <= lc[w] /\ wipedAt <= lc[w]
          /\ lc[w] <= s.lifecycle
      BY <2>1 DEF SaveInv, WriterInv
    <2>3. \A v \in Savers : pc'[v] # "write"
      BY <1>1, <2>1, <2>2 DEF SaveInv, WriterInv
    <2>4. lastPublished' \in {lastPublished, lc[w]}
      BY <1>4 DEF SaveWrite
    <2>5. CleanLogoutHolds'
      BY <1>4, <2>1, <2>2 DEF SaveWrite, SaveInv, CleanLogoutHolds
    <2> QED
      BY <2>1, <2>2, <2>3, <2>4, <2>5 DEF SaveInv, WriterInv
  <1> QED
    BY <1>2, <1>3, <1>4 DEF SaveStep, SaveBegin, SaveRecheck, disk, history

LEMMA LogoutKeepsSaves ==
    ASSUME TypeOK, SaveInv, NEW o \in Logouts, LogoutBegin(o) \/ LogoutStep(o)
    PROVE  SaveInv'
  <1> USE SessionFields DEF Goto, Session
  <1> /\ o \in Workers \ Savers /\ Savers \subseteq Workers
      /\ pc \in [Workers -> States] /\ lc \in [Workers -> Nat]
    BY WorkersAssumption DEF TypeOK, Workers, Savers
  <1>1. CASE LogoutBegin(o)
    BY <1>1, SaveFrame DEF LogoutBegin, disk
  <1>2. CASE LogoutRetire(o)
    BY <1>2, SaveFrame DEF LogoutRetire, disk
  <1>3. CASE LogoutRevoke(o)
    BY <1>3, SaveFrame DEF LogoutRevoke, disk
  <1>4. CASE LogoutDelete(o)
    <2>1. UNCHANGED << s, lc, saveMu, lastPublished, wipedAt >> /\ file' \in {file, NoFile}
      BY <1>4 DEF LogoutDelete, history
    <2>2. \A w \in Savers : pc'[w] = pc[w]
      BY <1>4 DEF LogoutDelete
    <2> QED
      BY <2>1, <2>2 DEF SaveInv, WriterInv, CleanLogoutHolds
  <1>5. CASE LogoutTeardown(o)
    <2>1. UNCHANGED << lc, saveMu, lastPublished, file >>
          /\ s'.lifecycle = s.lifecycle + 1
      BY <1>5 DEF LogoutTeardown, TornDown
    <2>2. \A w \in Savers : pc'[w] = pc[w]
      BY <1>5 DEF LogoutTeardown
    <2>3. \A w \in Savers : lc[w] \in Nat
      BY DEF Savers
    <2>4. lastPublished \in Nat /\ wipedAt \in Nat
      BY DEF TypeOK
    <2>5. CASE wipedAt' = wipedAt
      BY <2>1, <2>2, <2>3, <2>4, <2>5 DEF SaveInv, WriterInv, CleanLogoutHolds
    <2>6. CASE /\ wipedAt' = s.lifecycle + 1
               /\ saveMu = NoEra /\ file = NoFile
      \* No save is past its recheck, so none can write an older lifecycle.
      <3>1. \A w \in Savers : pc[w] # "write"
        BY <2>6, WorkersAssumption DEF SaveInv, WriterInv, Savers, Workers
      <3> QED
        BY <2>1, <2>2, <2>4, <2>6, <3>1 DEF SaveInv, WriterInv, CleanLogoutHolds
    <2> QED
      BY <1>5, <2>5, <2>6 DEF LogoutTeardown
  <1>6. CASE LogoutReport(o)
    BY <1>6, SaveFrame DEF LogoutReport, disk
  <1>7. CASE LogoutForget(o)
    BY <1>7, SaveFrame DEF LogoutForget, Close, disk
  <1> QED
    BY <1>1, <1>2, <1>3, <1>4, <1>5, <1>6, <1>7 DEF LogoutStep

LEMMA EventKeepsSaves ==
    ASSUME TypeOK, SaveInv, RelayEvent \/ EventStep \/ Shutdown
    PROVE  SaveInv'
  <1> USE SessionFields, SaveFrame DEF Session, goroutines, disk
  <1> /\ EventLoop \in Savers /\ Savers \subseteq Workers
      /\ pc \in [Workers -> States] /\ lc \in [Workers -> Nat]
    BY DEF TypeOK, Workers, Savers
  <1>1. CASE RelayEvent
    BY <1>1 DEF RelayEvent
  <1>2. CASE EventDequeue
    BY <1>2 DEF EventDequeue
  <1>3. CASE EventLost
    <2>1. s'.lifecycle = s.lifecycle
      BY <1>3 DEF EventLost
    <2>2. saveMu' = saveMu /\ disk' = disk /\ lc' = lc
      BY <1>3 DEF EventLost
    <2>3. \A v \in Savers : pc'[v] = "write" => pc[v] = "write"
      BY <1>3 DEF EventLost, Goto
    <2> QED
      BY <2>1, <2>2, <2>3
  <1>4. CASE Shutdown
    BY <1>4 DEF Shutdown, Close
  <1> QED
    BY <1>1, <1>2, <1>3, <1>4 DEF EventStep

LEMMA PublishedOnlyBySaves ==
    ASSUME NEW e \in Eras \cup Logouts,
           \/ LoginRetire(e) \/ RestoreLoad(e) \/ PairingStep(e) \/ LoopStep(e)
           \/ LogoutBegin(e) \/ LogoutStep(e)
           \/ RelayEvent \/ EventStep \/ Shutdown
    PROVE  lastPublished' = lastPublished
  BY DEF LoginRetire, RestoreLoad, PairingStep, LoginSwap, LoginConfig, LoginStart,
         PairingCheck, PhoneAnswers, PairingSettle, PairingReport, RestoreBuild, StartLoop,
         LoopStep, LoopTop, LoopFails, LoopFetched, LoopConnected, LoopCommit,
         LoopAnnounce, LoopEmit, LoopFatal, LogoutBegin, LogoutStep, LogoutRetire,
         LogoutRevoke, LogoutDelete, LogoutTeardown, LogoutReport, LogoutForget,
         RelayEvent, EventStep, EventDequeue, EventLost, Shutdown, disk, history

LEMMA SaveInvStep ==
    ASSUME TypeOK, SaveInv, [Next]_vars
    PROVE  SaveInv' /\ lastPublished' >= lastPublished
  <1> lastPublished \in Nat
    BY DEF TypeOK
  <1>1. CASE Next
    <2>1. CASE \E w \in Savers : SaveStep(w)
      BY <2>1, SaveKeepsSaves
    <2>2. CASE \E e \in Eras : LoginRetire(e) \/ RestoreLoad(e) \/ PairingStep(e) \/ LoopStep(e)
      BY <2>2, PairingKeepsSaves, LoopKeepsSaves, PublishedOnlyBySaves
    <2>3. CASE \E o \in Logouts : LogoutBegin(o) \/ LogoutStep(o)
      BY <2>3, LogoutKeepsSaves, PublishedOnlyBySaves
    <2>4. CASE RelayEvent \/ EventStep \/ Shutdown
      <3>1. lastPublished' = lastPublished
        BY <2>4 DEF RelayEvent, EventStep, EventDequeue, EventLost, Shutdown, disk, history
      <3> QED
        BY <2>4, <3>1, EventKeepsSaves
    <2> QED
      BY <1>1, <2>1, <2>2, <2>3, <2>4 DEF Next, Savers
  <1>2. CASE UNCHANGED vars
    <2>1. lastPublished' = lastPublished
      BY <1>2 DEF vars, disk, history
    <2>2. s'.lifecycle = s.lifecycle /\ saveMu' = saveMu /\ disk' = disk
          /\ pc' = pc /\ lc' = lc
      BY <1>2 DEF vars, goroutines
    <2> QED
      BY <2>1, <2>2, SaveFrame, SessionFields
  <1> QED
    BY <1>1, <1>2

LEMMA SaveInvHolds == Spec => [](TypeOK /\ SaveInv)
  <1>1. Init => SaveInv
    BY DEF Init, SaveInv, WriterInv, CleanLogoutHolds, Savers, Workers
  <1>2. TypeOK /\ SaveInv /\ [Next]_vars => SaveInv'
    BY SaveInvStep
  <1> QED
    BY <1>1, <1>2, TypeCorrect, PTL DEF Spec

\* After a clean teardown no save of an earlier lifecycle brings the session
\* file back.
THEOREM LogoutHolds == Spec => []CleanLogoutHolds
  <1>1. SaveInv => CleanLogoutHolds
    BY DEF SaveInv
  <1> QED
    BY <1>1, SaveInvHolds, PTL

-----------------------------------------------------------------------------
(* Saves bring credentials that are not older than what they replace.      *)

Past(w) == pc[w] \in {"recheck", "write"}

\* What a marshalled auth claims, the relay and the phone have granted.
Attained(a) == a.token <= refreshed[a.auth] /\ (a.paired => a.auth \in paired)

\* A file from before this process, whose hello has not been handled.
Untouched(a) == a.auth \in Restores /\ a.token = 0 /\ pc[a.auth] = "idle"

\* A save under way holds credentials that were attained when they were
\* marshalled, so what is marshalled later, under a later lifecycle, is not
\* older than they are, nor than the file.
SnapInv ==
    /\ s.auth # NoEra => pc[s.auth] # "idle"
    /\ \A w \in Savers : Past(w) => /\ snap[w] # NoFile /\ lc[w] <= s.lifecycle
                                    /\ pc[snap[w].auth] # "idle" /\ Attained(snap[w])
    /\ file # NoFile => Attained(file) \/ Untouched(file)
    /\ \A w \in Savers :
         Past(w) /\ file # NoFile /\ lastPublished < lc[w] => NotOlder(snap[w], file)
    /\ \A v, w \in Savers :
         Past(v) /\ Past(w) /\ lc[v] < lc[w] => NotOlder(snap[w], snap[v])

\* What every step but a save's leaves to the saves under way.
SnapsKept ==
    /\ file' \in {file, NoFile} /\ lastPublished' = lastPublished
    /\ s'.lifecycle >= s.lifecycle
    /\ s'.auth = s.auth \/ s'.auth = NoEra \/ pc'[s'.auth] # "idle"
    /\ \A w \in Savers : pc'[w] \in {"recheck", "write"}
                          => Past(w) /\ lc'[w] = lc[w] /\ snap'[w] = snap[w]
    /\ \A e \in Eras : pc'[e] = "idle" => pc[e] = "idle"

\* Refreshed tokens, confirmed pairings and a hello's own file.
Gained ==
    /\ paired \subseteq paired'
    /\ \A e \in Eras : refreshed[e] <= refreshed'[e]
    /\ file # NoFile /\ Untouched(file) /\ pc'[file.auth] # "idle" /\ file.paired
         => file.auth \in paired'

LEMMA AuthFields ==
    ASSUME NEW a \in Auth
    PROVE  a.auth \in Eras /\ a.paired \in BOOLEAN /\ a.token \in Nat
  BY DEF Auth

LEMMA SnapFrame ==
    ASSUME TypeOK, TypeOK', SnapInv, SnapsKept, Gained
    PROVE  SnapInv'
  <1> USE SessionFields
  <1>t. /\ \A e \in Eras : refreshed[e] \in Nat /\ refreshed'[e] \in Nat
        /\ \A w \in Savers : lc[w] \in Nat /\ snap[w] \in Auth \cup {NoFile}
        /\ file \in Auth \cup {NoFile} /\ lastPublished \in Nat
        /\ s.lifecycle \in Nat /\ s'.lifecycle \in Nat
        /\ s.auth \in Eras \cup {NoEra}
    BY DEF TypeOK, Savers, Workers, Session
  <1>1. \A a \in Auth : Attained(a) => Attained(a)'
    BY <1>t, AuthFields DEF Attained, Gained
  <1>2. s'.auth # NoEra => pc'[s'.auth] # "idle"
    BY <1>t DEF SnapInv, SnapsKept
  <1>3. \A w \in Savers : Past(w)' => Past(w) /\ lc'[w] = lc[w] /\ snap'[w] = snap[w]
    BY DEF SnapsKept, Past
  <1>4. \A w \in Savers : Past(w)' =>
           /\ snap'[w] # NoFile /\ lc'[w] <= s'.lifecycle
           /\ pc'[snap'[w].auth] # "idle" /\ Attained(snap[w])'
    <2> TAKE w \in Savers
    <2> HAVE Past(w)'
    <2>1. /\ snap[w] \in Auth /\ lc[w] <= s.lifecycle /\ pc[snap[w].auth] # "idle"
          /\ Attained(snap[w])
      BY <1>3, <1>t DEF SnapInv
    <2>2. snap'[w] = snap[w] /\ lc'[w] = lc[w]
      BY <1>3
    <2>3. lc'[w] <= s'.lifecycle
      BY <1>t, <2>1, <2>2 DEF SnapsKept
    <2>4. pc'[snap'[w].auth] # "idle"
      BY <2>1, <2>2, AuthFields DEF SnapsKept
    <2>5. Attained(snap[w])'
      BY <1>1, <2>1, <2>2 DEF Attained
    <2>6. snap'[w] # NoFile
      BY <2>1, <2>2, FileAssumption
    <2> QED
      BY <2>3, <2>4, <2>5, <2>6
  <1>5. file' # NoFile => Attained(file)' \/ Untouched(file)'
    <2> SUFFICES ASSUME file' # NoFile PROVE Attained(file)' \/ Untouched(file)'
      OBVIOUS
    <2>1. file' = file /\ file \in Auth
      BY <1>t DEF SnapsKept
    <2>2. CASE Attained(file)
      BY <1>1, <2>1, <2>2 DEF Attained
    <2>3. CASE Untouched(file) /\ pc'[file.auth] = "idle"
      BY <2>1, <2>3 DEF Untouched
    <2>4. CASE Untouched(file) /\ pc'[file.auth] # "idle"
      BY <1>t, <2>1, <2>4, AuthFields DEF Untouched, Attained, Gained
    <2> QED
      BY <2>1, <2>2, <2>3, <2>4 DEF SnapInv
  <1>6. \A w \in Savers :
          Past(w)' /\ file' # NoFile /\ lastPublished' < lc'[w] => NotOlder(snap'[w], file')
    BY <1>3 DEF SnapInv, SnapsKept
  <1>7. \A v, w \in Savers :
          Past(v)' /\ Past(w)' /\ lc'[v] < lc'[w] => NotOlder(snap'[w], snap'[v])
    BY <1>3 DEF SnapInv
  <1> QED
    BY <1>2, <1>4, <1>5, <1>6, <1>7 DEF SnapInv, Past, Attained, Untouched, NotOlder

\* A step of a goroutine that runs, outside a save.
LEMMA RunningKeepsSnaps ==
    ASSUME TypeOK, NEW w \in Workers, NEW there, pc' = [pc EXCEPT ![w] = there],
           pc[w] \notin {"idle", "recheck", "write"},
           there \notin {"idle", "recheck", "write"},
           \A v \in Savers \ {w} : lc'[v] = lc[v],
           UNCHANGED << snap, file, lastPublished, refreshed >>,
           s'.lifecycle = s.lifecycle, s'.auth \in {s.auth, NoEra, w},
           paired \subseteq paired'
    PROVE  SnapsKept /\ Gained
  <1>1. /\ pc \in [Workers -> States] /\ s.lifecycle \in Nat
        /\ Savers \subseteq Workers /\ Eras \subseteq Workers
        /\ \A a \in Eras : refreshed[a] \in Nat
        /\ file # NoFile => file.auth \in Eras
    BY SessionFields, AuthFields DEF TypeOK, Savers, Workers
  <1>2. pc'[w] = there /\ \A v \in Workers \ {w} : pc'[v] = pc[v]
    BY <1>1
  <1>3. SnapsKept
    BY <1>1, <1>2 DEF SnapsKept, Past
  <1>4. Gained
    BY <1>1, <1>2 DEF Gained, Untouched
  <1> QED
    BY <1>3, <1>4

LEMMA PairingKeepsSnaps ==
    ASSUME TypeOK, NEW e \in Eras, LoginRetire(e) \/ RestoreLoad(e) \/ PairingStep(e)
    PROVE  SnapsKept /\ Gained
  <1> USE SessionFields
      DEF Goto, Session, SnapsKept, Gained, Past, relay, disk, history, goroutines
  <1> /\ e \in Savers /\ e \in Workers /\ Savers \subseteq Workers /\ Eras \subseteq Workers
      /\ pc \in [Workers -> States] /\ lc \in [Workers -> Nat]
      /\ \A a \in Eras : refreshed[a] \in Nat
    BY DEF TypeOK, Workers, Savers
  <1>1. CASE LoginRetire(e)
    BY <1>1, WorkersAssumption DEF LoginRetire, Untouched
  <1>2. CASE RestoreLoad(e)
    BY <1>2 DEF RestoreLoad, Untouched
  <1>3. CASE LoginSwap(e)
    <2>1. s'.lifecycle = s.lifecycle /\ s'.auth = e
      BY <1>3 DEF LoginSwap
    <2> QED
      BY <1>3, <2>1, RunningKeepsSnaps DEF LoginSwap
  <1>4. CASE LoginConfig(e)
    <2>1. s'.lifecycle = s.lifecycle /\ s'.auth = s.auth
      BY <1>4 DEF LoginConfig
    <2> QED
      BY <1>4, <2>1, RunningKeepsSnaps DEF LoginConfig, contexts
  <1>5. CASE LoginStart(e)
    <2>1. s'.lifecycle = s.lifecycle /\ s'.auth = s.auth
      BY <1>5 DEF LoginStart
    <2> QED
      BY <1>5, <2>1, RunningKeepsSnaps DEF LoginStart
  <1>6. CASE PairingCheck(e)
    BY <1>6 DEF PairingCheck, Untouched
  <1>7. CASE PhoneAnswers(e)
    BY <1>7, RunningKeepsSnaps DEF PhoneAnswers
  <1>8. CASE PairingSettle(e)
    <2>1. /\ s'.lifecycle = s.lifecycle /\ s'.auth = s.auth
          /\ UNCHANGED << lc, snap, disk, paired, refreshed >>
      BY <1>8 DEF PairingSettle
    <2>2. pc[e] \in {"answered", "refused"}
      BY <1>8 DEF PairingSettle
    <2>3. PICK there \in {"save", "done", "report"} : pc' = [pc EXCEPT ![e] = there]
      BY <1>8, SettledPairing
    <2> QED
      BY <2>1, <2>2, <2>3, RunningKeepsSnaps
  <1>9. CASE RestoreBuild(e)
    <2>1. /\ s'.lifecycle = s.lifecycle /\ s'.auth = e
          /\ UNCHANGED << lc, snap, disk, paired, refreshed >>
      BY <1>9 DEF RestoreBuild
    <2> QED
      BY <1>9, <2>1 DEF RestoreBuild, Untouched
  <1>10. CASE StartLoop(e)
    BY <1>10 DEF StartLoop, Untouched
  <1>11. CASE PairingReport(e)
    BY <1>11 DEF PairingReport, Untouched
  <1> QED
    BY <1>1, <1>2, <1>3, <1>4, <1>5, <1>6, <1>7, <1>8, <1>9, <1>10, <1>11
       DEF PairingStep

LEMMA LoopKeepsSnaps ==
    ASSUME TypeOK, NEW e \in Eras, LoopStep(e)
    PROVE  SnapsKept /\ Gained
  <1> USE SessionFields
      DEF Goto, Session, SnapsKept, Gained, Past, Untouched, relay, disk, history
  <1> /\ e \in Savers /\ e \in Workers /\ Savers \subseteq Workers /\ Eras \subseteq Workers
      /\ pc \in [Workers -> States] /\ lc \in [Workers -> Nat]
      /\ \A a \in Eras : refreshed[a] \in Nat
    BY DEF TypeOK, Workers, Savers
  <1>1. CASE LoopTop(e)
    <2>1. /\ UNCHANGED << s, snap, file, lastPublished, paired, refreshed >>
          /\ \A v \in Savers \ {e} : lc'[v] = lc[v]
      BY <1>1 DEF LoopTop
    <2>2. /\ pc[e] = "top"
          /\ pc' = [pc EXCEPT ![e] = "done"] \/ pc' = [pc EXCEPT ![e] = "fetch"]
      BY <1>1 DEF LoopTop
    <2> QED
      BY <2>1, <2>2, RunningKeepsSnaps
  <1>2. CASE LoopFails(e)
    <2>1. UNCHANGED << s, lc, snap, file, lastPublished, paired, refreshed >>
      BY <1>2 DEF LoopFails
    <2>2. /\ pc[e] \in {"fetch", "connect"}
          /\ pc' = [pc EXCEPT ![e] = "top"] \/ pc' = [pc EXCEPT ![e] = "fatal"]
      BY <1>2 DEF LoopFails
    <2> QED
      BY <2>1, <2>2, RunningKeepsSnaps
  <1>3. CASE LoopFetched(e)
    BY <1>3 DEF LoopFetched
  <1>4. CASE LoopConnected(e)
    BY <1>4 DEF LoopConnected
  <1>5. CASE LoopCommit(e)
    <2>1. /\ s'.lifecycle = s.lifecycle /\ s'.auth = s.auth
          /\ UNCHANGED << lc, snap, disk, paired, refreshed >>
      BY <1>5 DEF LoopCommit
    <2>2. /\ pc[e] = "commit"
          /\ pc' = [pc EXCEPT ![e] = "announce"] \/ pc' = [pc EXCEPT ![e] = "top"]
      BY <1>5 DEF LoopCommit
    <2> QED
      BY <2>1, <2>2, RunningKeepsSnaps
  <1>6. CASE LoopAnnounce(e)
    BY <1>6 DEF LoopAnnounce
  <1>7. CASE LoopEmit(e)
    BY <1>7 DEF LoopEmit
  <1>8. CASE LoopFatal(e)
    BY <1>8 DEF LoopFatal
  <1> QED
    BY <1>1, <1>2, <1>3, <1>4, <1>5, <1>6, <1>7, <1>8 DEF LoopStep

LEMMA LogoutKeepsSnaps ==
    ASSUME TypeOK, NEW o \in Logouts, LogoutBegin(o) \/ LogoutStep(o)
    PROVE  SnapsKept /\ Gained
  <1> USE SessionFields
      DEF Goto, Session, SnapsKept, Gained, Past, Untouched, relay, disk, history
  <1> /\ o \in Workers \ Savers /\ Savers \subseteq Workers
      /\ Eras \subseteq Workers \ {o}
      /\ pc \in [Workers -> States] /\ lc \in [Workers -> Nat]
      /\ \A a \in Eras : refreshed[a] \in Nat
    BY WorkersAssumption DEF TypeOK, Workers, Savers, Eras
  <1>a. file # NoFile => file.auth \in Eras
    BY AuthFields DEF TypeOK
  <1>1. CASE LogoutBegin(o)
    BY <1>1, <1>a DEF LogoutBegin
  <1>2. CASE LogoutRetire(o)
    BY <1>2, <1>a DEF LogoutRetire
  <1>3. CASE LogoutRevoke(o)
    BY <1>3, <1>a DEF LogoutRevoke
  <1>4. CASE LogoutDelete(o)
    BY <1>4, <1>a DEF LogoutDelete
  <1>5. CASE LogoutTeardown(o)
    <2>1. /\ s'.lifecycle = s.lifecycle + 1 /\ s'.auth = NoEra
          /\ UNCHANGED << lc, snap, file, lastPublished, paired, refreshed >>
      BY <1>5 DEF LogoutTeardown, TornDown
    <2>2. \A w \in Workers \ {o} : pc'[w] = pc[w]
      BY <1>5 DEF LogoutTeardown
    <2> QED
      BY <1>a, <2>1, <2>2
  <1>6. CASE LogoutReport(o)
    BY <1>6, <1>a DEF LogoutReport
  <1>7. CASE LogoutForget(o)
    BY <1>7, <1>a DEF LogoutForget, Close
  <1> QED
    BY <1>1, <1>2, <1>3, <1>4, <1>5, <1>6, <1>7 DEF LogoutStep

LEMMA EventKeepsSnaps ==
    ASSUME TypeOK, RelayEvent \/ EventStep \/ Shutdown
    PROVE  SnapsKept /\ Gained
  <1> USE SessionFields
      DEF Session, SnapsKept, Gained, Past, Untouched, relay, disk, history, goroutines
  <1> /\ EventLoop \in Savers /\ EventLoop \notin Eras /\ Savers \subseteq Workers
      /\ Eras \subseteq Workers
      /\ pc \in [Workers -> States] /\ lc \in [Workers -> Nat]
      /\ \A a \in Eras : refreshed[a] \in Nat
    BY WorkersAssumption DEF TypeOK, Workers, Savers
  <1>a. file # NoFile => file.auth \in Eras
    BY AuthFields DEF TypeOK
  <1>1. CASE RelayEvent
    <2>1. \A a \in Eras : refreshed[a] <= refreshed'[a]
      BY <1>1, RefreshCounted
    <2> QED
      BY <1>1, <1>a, <2>1 DEF RelayEvent
  <1>2. CASE EventDequeue
    BY <1>2, <1>a DEF EventDequeue
  <1>3. CASE EventLost
    <2>1. /\ s'.lifecycle = s.lifecycle /\ s'.auth = s.auth
          /\ UNCHANGED << lc, snap, disk, paired, refreshed >>
      BY <1>3 DEF EventLost
    <2> QED
      BY <1>3, <1>a, <2>1 DEF EventLost, Goto
  <1>4. CASE Shutdown
    BY <1>4, <1>a DEF Shutdown, Close
  <1> QED
    BY <1>1, <1>2, <1>3, <1>4 DEF EventStep

\* A save that starts marshals what is attained by now; one that ends puts
\* what it marshalled in the file.
LEMMA SaveKeepsSnaps ==
    ASSUME TypeOK, SnapInv, NEW w \in Savers, SaveStep(w)
    PROVE  /\ SnapInv'
           /\ lastPublished' > lastPublished /\ file # NoFile => NotOlder(file', file)
  <1> USE SessionFields
  <1>t. /\ Savers \subseteq Workers
        /\ pc \in [Workers -> States] /\ snap \in [Workers -> Auth \cup {NoFile}]
        /\ \A v \in Savers : lc[v] \in Nat
        /\ file \in Auth \cup {NoFile} /\ lastPublished \in Nat
        /\ s.lifecycle \in Nat /\ s.auth \in Eras \cup {NoEra}
        /\ \A e \in Eras : refreshed[e] \in Nat /\ e \in Workers
    BY DEF TypeOK, Savers, Workers
  <1>s. UNCHANGED << s, lc, paired, refreshed >>
    BY DEF SaveStep, SaveBegin, SaveRecheck, SaveWrite, relay
  <1>a. /\ AfterSave(w) \notin {"recheck", "write"}
        /\ AfterFailedSave(w) \notin {"recheck", "write"}
        /\ w \in Eras => AfterSave(w) # "idle" /\ AfterFailedSave(w) # "idle"
    BY WorkersAssumption DEF AfterSave, AfterFailedSave
  <1>i. \A e \in Eras : pc'[e] = "idle" => pc[e] = "idle"
    BY <1>t, <1>a DEF SaveStep, SaveBegin, SaveRecheck, SaveWrite, Goto
  <1>k. ASSUME UNCHANGED << file, lastPublished >>,
               \A v \in Savers : pc'[v] \in {"recheck", "write"}
                                => Past(v) /\ snap'[v] = snap[v]
        PROVE  SnapInv'
    <2>1. SnapsKept
      BY <1>s, <1>t, <1>i, <1>k DEF SnapsKept
    <2>2. \A e \in Eras : pc[e] = "idle" => pc'[e] = "idle"
      BY <1>t DEF SaveStep, SaveBegin, SaveRecheck, SaveWrite, Goto
    <2>3. Gained
      BY <1>s, <1>t, <2>2, AuthFields DEF Gained, Untouched
    <2> QED
      BY <2>1, <2>3, SnapFrame, SaveTyped DEF Savers
  <1>1. CASE SaveBegin(w)
    <2>1. UNCHANGED << file, lastPublished >>
      BY <1>1 DEF SaveBegin, disk, history
    <2>2. CASE ~(Current(w) /\ s.auth # NoEra)
      <3>1. pc' = [pc EXCEPT ![w] = AfterSave(w)] /\ snap' = snap
        BY <1>1, <2>2 DEF SaveBegin, Goto
      <3> QED
        BY <1>k, <1>a, <1>t, <2>1, <3>1 DEF Past
    <2>3. CASE Current(w) /\ s.auth # NoEra
      <3> DEFINE m == Marshalled(s.auth)
      <3>1. /\ pc[w] = "save" /\ pc' = [pc EXCEPT ![w] = "recheck"]
            /\ snap' = [snap EXCEPT ![w] = m] /\ lc[w] = s.lifecycle
        BY <1>1, <2>3 DEF SaveBegin, Goto, Current
      <3>0. snap'[w] = m
        BY <1>t, <3>1 DEF Savers
      <3>2. /\ s.auth \in Eras /\ m.auth = s.auth /\ m.token = refreshed[s.auth]
            /\ m.paired <=> s.auth \in paired
        BY <1>t, <2>3 DEF Marshalled
      <3>3. Attained(m) /\ m # NoFile /\ pc[m.auth] # "idle"
        <4>1. Attained(m)
          BY <1>t, <3>2 DEF Attained
        <4>2. m # NoFile
          BY <1>1, <2>3, <3>1, <1>t, SaveTyped, MarshalledTyped, <3>2, FileAssumption
        <4>3. pc[m.auth] # "idle"
          BY <2>3, <3>2 DEF SnapInv
        <4> QED
          BY <4>1, <4>2, <4>3
      <3>4. \A a \in Auth : Attained(a) => NotOlder(m, a)
        BY <3>2 DEF Attained, NotOlder
      <3> HIDE DEF m
      <3>5. \A v \in Savers :
              Past(v)' => IF v = w THEN snap'[v] = m ELSE Past(v) /\ snap'[v] = snap[v]
        <4>1. \A v \in Savers : v # w => pc'[v] = pc[v] /\ snap'[v] = snap[v]
          BY <1>t, <3>1
        <4>2. \A v \in Savers : v # w /\ Past(v)' => Past(v) /\ snap'[v] = snap[v]
          BY <4>1 DEF Past
        <4> QED
          BY <3>0, <4>2
      <3>6. \A e \in Eras : pc'[e] = "idle" <=> pc[e] = "idle"
        BY <1>t, <3>1
      <3>7. \A v \in Savers : Past(v) => /\ snap[v] \in Auth /\ lc[v] <= s.lifecycle
                                         /\ Attained(snap[v]) /\ pc[snap[v].auth] # "idle"
        BY <1>t DEF SnapInv
      <3>8. s'.auth # NoEra => pc'[s'.auth] # "idle"
        BY <1>s, <1>t, <3>6 DEF SnapInv
      <3>9. \A v \in Savers : Past(v)' =>
               /\ snap'[v] # NoFile /\ lc'[v] <= s'.lifecycle
               /\ pc'[snap'[v].auth] # "idle" /\ Attained(snap[v])'
        <4> TAKE v \in Savers
        <4> HAVE Past(v)'
        <4>1. CASE v = w /\ snap'[v] = m
          <5>1. lc'[v] <= s'.lifecycle
            BY <1>s, <1>t, <3>1, <4>1
          <5>2. pc'[snap'[v].auth] # "idle"
            BY <3>2, <3>3, <3>6, <4>1
          <5>3. Attained(snap[v])'
            BY <1>s, <3>3, <4>1 DEF Attained
          <5> QED
            BY <3>3, <4>1, <5>1, <5>2, <5>3
        <4>2. CASE v # w /\ Past(v) /\ snap'[v] = snap[v]
          <5>1. lc'[v] <= s'.lifecycle
            BY <1>s, <3>7, <4>2
          <5>2. pc'[snap'[v].auth] # "idle"
            BY <3>6, <3>7, <4>2, AuthFields
          <5>3. Attained(snap[v])'
            BY <1>s, <3>7, <4>2 DEF Attained
          <5> QED
            BY <3>7, <4>2, <5>1, <5>2, <5>3, FileAssumption
        <4> QED
          BY <3>5, <4>1, <4>2
      <3>10. file' # NoFile => Attained(file)' \/ Untouched(file)'
        <4>1. Attained(file) => Attained(file)'
          BY <1>s, <2>1 DEF Attained
        <4>2. file # NoFile /\ Untouched(file) => Untouched(file)'
          BY <1>t, <2>1, <3>6, AuthFields DEF Untouched
        <4> QED
          BY <2>1, <4>1, <4>2 DEF SnapInv
      <3>11. file # NoFile => NotOlder(m, file)
        <4>1. CASE file # NoFile /\ Attained(file)
          BY <1>t, <3>4, <4>1
        <4>2. CASE file # NoFile /\ Untouched(file)
          BY <3>3, <4>2 DEF Untouched, NotOlder
        <4> QED
          BY <4>1, <4>2 DEF SnapInv
      <3>12. \A v \in Savers : Past(v)' /\ file' # NoFile /\ lastPublished' < lc'[v]
                              => NotOlder(snap'[v], file')
        BY <1>s, <2>1, <3>5, <3>11 DEF SnapInv
      <3>13. \A v, u \in Savers : Past(v)' /\ Past(u)' /\ lc'[v] < lc'[u]
                                 => NotOlder(snap'[u], snap'[v])
        <4> TAKE v, u \in Savers
        <4> HAVE Past(v)' /\ Past(u)' /\ lc'[v] < lc'[u]
        <4>0. lc[v] < lc[u]
          BY <1>s
        <4>1. CASE u = w
          <5>1. v # w /\ Past(v) /\ snap'[v] = snap[v] /\ snap'[u] = m
            BY <1>t, <3>5, <4>0, <4>1
          <5> QED
            BY <3>4, <3>7, <5>1
        <4>2. CASE u # w /\ v = w
          BY <1>t, <3>1, <3>5, <3>7, <4>0, <4>2
        <4>3. CASE u # w /\ v # w
          BY <3>5, <4>0, <4>3 DEF SnapInv
        <4> QED
          BY <4>1, <4>2, <4>3
      <3>14. SnapInv'
        BY <3>8, <3>9, <3>10, <3>12, <3>13
           DEF SnapInv, Past, Attained, Untouched, NotOlder
      <3> QED
        BY <1>t, <2>1, <3>14
    <2> QED
      BY <2>2, <2>3
  <1>2. CASE SaveRecheck(w)
    <2>1. UNCHANGED << file, lastPublished >>
      BY <1>2 DEF SaveRecheck, disk, history
    <2>2. pc[w] = "recheck"
      BY <1>2 DEF SaveRecheck
    <2>3. \/ pc' = [pc EXCEPT ![w] = "write"] /\ snap' = snap
          \/ pc' = [pc EXCEPT ![w] = AfterSave(w)] /\ snap' = [snap EXCEPT ![w] = NoFile]
      BY <1>2 DEF SaveRecheck, Goto
    <2>4. \A v \in Savers : pc'[v] \in {"recheck", "write"} => Past(v) /\ snap'[v] = snap[v]
      BY <1>a, <1>t, <2>2, <2>3 DEF Past
    <2> QED
      BY <1>k, <1>t, <2>1, <2>4
  <1>3. CASE SaveWrite(w)
    <2>1. /\ pc[w] = "write" /\ snap' = [snap EXCEPT ![w] = NoFile]
          /\ \/ pc' = [pc EXCEPT ![w] = AfterSave(w)]
             \/ pc' = [pc EXCEPT ![w] = AfterFailedSave(w)]
      BY <1>3 DEF SaveWrite, Goto
    <2>2. \A v \in Savers : pc'[v] \in {"recheck", "write"}
                            => v # w /\ Past(v) /\ snap'[v] = snap[v]
      BY <1>a, <1>t, <2>1 DEF Past
    <2>3. CASE UNCHANGED << file, lastPublished >>
      BY <1>k, <1>t, <2>2, <2>3
    <2>4. CASE file' = snap[w] /\ lastPublished' = lc[w]
      <3>1. /\ Past(w) /\ snap[w] \in Auth /\ Attained(snap[w])
            /\ lastPublished < lc[w] /\ file # NoFile => NotOlder(snap[w], file)
        BY <1>t, <2>1 DEF SnapInv, Past
      <3>2. \A v \in Savers : Past(v)' => v # w /\ Past(v) /\ snap'[v] = snap[v]
        BY <2>2 DEF Past
      <3>3. s'.auth # NoEra => pc'[s'.auth] # "idle"
        BY <1>s, <1>t, <1>i DEF SnapInv
      <3>4. \A v \in Savers : Past(v)' =>
               /\ snap'[v] # NoFile /\ lc'[v] <= s'.lifecycle
               /\ pc'[snap'[v].auth] # "idle" /\ Attained(snap[v])'
        <4> TAKE v \in Savers
        <4> HAVE Past(v)'
        <4>1. /\ snap'[v] = snap[v] /\ snap[v] \in Auth /\ lc[v] <= s.lifecycle
              /\ pc[snap[v].auth] # "idle" /\ Attained(snap[v])
          BY <1>t, <3>2 DEF SnapInv
        <4>2. lc'[v] <= s'.lifecycle
          BY <1>s, <4>1
        <4>3. pc'[snap'[v].auth] # "idle"
          BY <1>i, <4>1, AuthFields
        <4>4. Attained(snap[v])'
          BY <1>s, <4>1 DEF Attained
        <4> QED
          BY <4>1, <4>2, <4>3, <4>4, FileAssumption
      <3>5. Attained(file)'
        BY <1>s, <2>4, <3>1 DEF Attained
      <3>6. \A v \in Savers : Past(v)' /\ file' # NoFile /\ lastPublished' < lc'[v]
                             => NotOlder(snap'[v], file')
        BY <1>s, <2>4, <3>1, <3>2 DEF SnapInv
      <3>7. \A v, u \in Savers : Past(v)' /\ Past(u)' /\ lc'[v] < lc'[u]
                                => NotOlder(snap'[u], snap'[v])
        BY <1>s, <3>2 DEF SnapInv
      <3>8. SnapInv'
        BY <3>3, <3>4, <3>5, <3>6, <3>7 DEF SnapInv, Past, Attained, Untouched, NotOlder
      <3> QED
        BY <2>4, <3>1, <3>8
    <2> QED
      BY <1>3, <2>3, <2>4 DEF SaveWrite
  <1> QED
    BY <1>1, <1>2, <1>3 DEF SaveStep

\* However many saves run at once, the lifecycle on disk never goes back, and
\* a later lifecycle brings no older credentials.
THEOREM SavesPublishInOrder == Spec => PublishesInOrder
  <1> DEFINE Inv == TypeOK /\ SaveInv /\ SnapInv
             Ordered == /\ lastPublished' >= lastPublished
                        /\ lastPublished' > lastPublished /\ file # NoFile
                             => NotOlder(file', file)
  <1>1. Init => SnapInv
    <2> SUFFICES ASSUME Init PROVE SnapInv
      OBVIOUS
    <2>1. s.auth = NoEra /\ \A w \in Savers : ~Past(w)
      BY DEF Init, Past, Savers, Workers
    <2>2. file # NoFile => Untouched(file)
      BY DEF Init, Untouched, Workers, Eras
    <2> QED
      BY <2>1, <2>2 DEF SnapInv
  <1>2. Inv /\ [Next]_vars => SnapInv' /\ [Ordered]_vars
    <2> SUFFICES ASSUME Inv, [Next]_vars PROVE SnapInv' /\ (Ordered \/ UNCHANGED vars)
      OBVIOUS
    <2>1. TypeOK' /\ lastPublished' >= lastPublished /\ lastPublished \in Nat
      BY StepTyped, SaveInvStep DEF TypeOK
    <2>2. CASE \E w \in Savers : SaveStep(w)
      BY <2>1, <2>2, SaveKeepsSnaps
    <2>3. CASE SnapsKept /\ Gained
      BY <2>1, <2>3, SnapFrame DEF SnapsKept
    <2>4. CASE \E e \in Eras : LoginRetire(e) \/ RestoreLoad(e) \/ PairingStep(e) \/ LoopStep(e)
      BY <2>3, <2>4, PairingKeepsSnaps, LoopKeepsSnaps
    <2>5. CASE \E o \in Logouts : LogoutBegin(o) \/ LogoutStep(o)
      BY <2>3, <2>5, LogoutKeepsSnaps
    <2>6. CASE RelayEvent \/ EventStep \/ Shutdown
      BY <2>3, <2>6, EventKeepsSnaps
    <2>7. CASE UNCHANGED vars
      <3>1. SnapInv'
        BY <2>7 DEF vars, goroutines, relay, disk, history, SnapInv, Past, Attained,
                    Untouched, NotOlder
      <3> QED
        BY <2>7, <3>1
    <2> QED
      BY <2>2, <2>4, <2>5, <2>6, <2>7 DEF Next, Savers
  <1>3. Spec => [][Ordered]_vars
    BY <1>1, <1>2, SaveInvHolds, PTL DEF Spec
  <1> QED
    BY <1>3 DEF PublishesInOrder

-----------------------------------------------------------------------------
(* Only a connected client is online, when a hello comes before any other  *)
(* command.                                                                *)

\* What a loop about to go online knows of its client; and why Restore finds
\* the account offline: it is the first to run, and it runs alone.
OnlineInv ==
    /\ OnlineIsEarned
    /\ \A e \in Eras : pc[e] = "commit" => cl[e] \in everConnected \cap paired
    /\ Fresh => ~s.connected
    /\ \A r \in Restores :
         pc[r] = "build" => ~s.connected /\ \A e \in Eras \ {r} : pc[e] = "idle"

\* A step of a goroutine that already runs and brings nothing online.
LEMMA OnlineFrame ==
    ASSUME OnlineInv,
           paired \subseteq paired', everConnected \subseteq everConnected',
           s'.connected => s.connected /\ s'.client = s.client,
           \A e \in Eras : pc'[e] = "commit" => pc[e] = "commit" /\ cl'[e] = cl[e],
           \A r \in Restores : pc'[r] = "build" => pc[r] = "build",
           \A w \in Eras \cup Logouts : pc'[w] = "idle" <=> pc[w] = "idle"
    PROVE  OnlineInv'
  <1>1. OnlineIsEarned'
    BY DEF OnlineInv, OnlineIsEarned
  <1>2. (\A e \in Eras : pc[e] = "commit" => cl[e] \in everConnected \cap paired)'
    BY DEF OnlineInv
  <1>3. Fresh' => ~s'.connected
    BY DEF OnlineInv, Fresh
  <1>4. (\A r \in Restores :
           pc[r] = "build" => ~s.connected /\ \A e \in Eras \ {r} : pc[e] = "idle")'
    BY DEF OnlineInv, Eras
  <1> QED
    BY <1>1, <1>2, <1>3, <1>4 DEF OnlineInv

LEMMA PairingKeepsOnline ==
    ASSUME TypeOK, OnlineInv, RepeatedHello = FALSE, NEW e \in Eras,
           LoginRetire(e) \/ RestoreLoad(e) \/ PairingStep(e)
    PROVE  OnlineInv'
  <1> USE SessionFields, OnlineFrame DEF Goto, Session, relay, goroutines
  <1> /\ Eras \cup Logouts \subseteq Workers /\ Restores \subseteq Eras
      /\ pc \in [Workers -> States]
    BY DEF TypeOK, Workers, Eras
  <1>1. CASE LoginRetire(e)
    <2>1. \A r \in Restores : pc[r] # "build"
      BY <1>1 DEF LoginRetire, MayRun, Restoring
    <2>2. UNCHANGED << cl, paired, everConnected >> /\ pc' = [pc EXCEPT ![e] = "swap"]
      BY <1>1 DEF LoginRetire
    <2>3. s'.connected = s.connected /\ s'.client = s.client
      BY <1>1 DEF LoginRetire
    <2>4. ~Fresh'
      BY <2>2 DEF Fresh
    <2> QED
      BY <2>1, <2>2, <2>3, <2>4 DEF OnlineInv, OnlineIsEarned
  <1>2. CASE RestoreLoad(e)
    <2>1. Fresh /\ UNCHANGED << s, cl, everConnected >> /\ paired \subseteq paired'
      BY <1>2 DEF RestoreLoad
    <2>2. pc' = [pc EXCEPT ![e] = "done"] \/ pc' = [pc EXCEPT ![e] = "build"]
      BY <1>2 DEF RestoreLoad
    <2>3. ~Fresh'
      BY <2>2 DEF Fresh
    <2>4. \A l \in Eras \ {e} : pc'[l] = "idle"
      BY <2>1, <2>2 DEF Fresh
    <2> QED
      BY <2>1, <2>2, <2>3, <2>4 DEF OnlineInv, OnlineIsEarned
  <1>3. CASE LoginSwap(e)
    BY <1>3 DEF LoginSwap
  <1>4. CASE LoginConfig(e)
    BY <1>4 DEF LoginConfig
  <1>5. CASE LoginStart(e)
    BY <1>5 DEF LoginStart
  <1>6. CASE PairingCheck(e)
    BY <1>6 DEF PairingCheck
  <1>7. CASE PhoneAnswers(e)
    BY <1>7 DEF PhoneAnswers
  <1>8. CASE PairingSettle(e)
    <2>1. s'.connected = s.connected /\ s'.client = s.client
      BY <1>8 DEF PairingSettle
    <2>2. UNCHANGED << cl, paired, everConnected >>
      BY <1>8 DEF PairingSettle
    <2>3. /\ pc[e] \in {"answered", "refused"}
          /\ \E there \in {"save", "done", "report"} : pc' = [pc EXCEPT ![e] = there]
      BY <1>8, SettledPairing DEF PairingSettle
    <2> QED
      BY <2>1, <2>2, <2>3
  <1>9. CASE RestoreBuild(e)
    <2>1. pc[e] = "build" /\ pc' = [pc EXCEPT ![e] = "runloop"]
          /\ UNCHANGED << cl, paired, everConnected >>
      BY <1>9 DEF RestoreBuild
    <2>2. s'.connected = s.connected
      BY <1>9 DEF RestoreBuild
    <2>3. e \in Restores => ~s.connected
      BY <2>1 DEF OnlineInv
    <2>4. e \in Restores
      BY <1>9 DEF RestoreBuild
    <2> QED
      BY <2>1, <2>2, <2>3, <2>4
  <1>10. CASE StartLoop(e)
    BY <1>10 DEF StartLoop
  <1>11. CASE PairingReport(e)
    BY <1>11 DEF PairingReport
  <1> QED
    BY <1>1, <1>2, <1>3, <1>4, <1>5, <1>6, <1>7, <1>8, <1>9, <1>10, <1>11
       DEF PairingStep

LEMMA LoopKeepsOnline ==
    ASSUME TypeOK, OnlineInv, NEW e \in Eras, LoopStep(e)
    PROVE  OnlineInv'
  <1> USE SessionFields, OnlineFrame DEF Goto, Session, relay
  <1> /\ Eras \cup Logouts \subseteq Workers /\ Restores \subseteq Eras
      /\ pc \in [Workers -> States]
    BY DEF TypeOK, Workers, Eras
  <1>1. CASE LoopTop(e)
    <2>1. UNCHANGED << s, paired, everConnected >>
      BY <1>1 DEF LoopTop
    <2>2. /\ pc[e] = "top"
          /\ pc' = [pc EXCEPT ![e] = "done"] \/ pc' = [pc EXCEPT ![e] = "fetch"]
      BY <1>1 DEF LoopTop
    <2>3. cl' = cl \/ cl' = [cl EXCEPT ![e] = s.client]
      BY <1>1 DEF LoopTop
    <2>4. cl \in [Workers -> Eras \cup {NoEra}]
      BY DEF TypeOK
    <2>5. \A f \in Eras : pc'[f] = "commit" => pc[f] = "commit" /\ cl'[f] = cl[f]
      BY <2>2, <2>3, <2>4
    <2>6. \A w \in Eras \cup Logouts : pc'[w] = "idle" <=> pc[w] = "idle"
      BY <2>2
    <2> QED
      BY <2>1, <2>2, <2>5, <2>6
  <1>2. CASE LoopFails(e)
    BY <1>2 DEF LoopFails
  <1>3. CASE LoopFetched(e)
    BY <1>3 DEF LoopFetched
  <1>4. CASE LoopConnected(e)
    <2>1. /\ pc[e] = "connect" /\ pc' = [pc EXCEPT ![e] = "commit"]
          /\ UNCHANGED << s, cl, paired >>
          /\ everConnected' = everConnected \cup {cl[e]} /\ cl[e] \in paired
      BY <1>4 DEF LoopConnected
    <2>2. ~Fresh'
      BY <2>1 DEF Fresh
    <2> QED
      BY <2>1, <2>2 DEF OnlineInv, OnlineIsEarned
  <1>5. CASE LoopCommit(e)
    <2>1. CASE Owns(e)
      <3>1. /\ pc[e] = "commit" /\ pc' = [pc EXCEPT ![e] = "announce"]
            /\ UNCHANGED << cl, paired, everConnected >>
        BY <1>5, <2>1 DEF LoopCommit
      <3>2. s'.client = s.client /\ s.client = cl[e]
        BY <1>5, <2>1 DEF LoopCommit, Owns
      <3>3. cl[e] \in everConnected \cap paired
        BY <3>1 DEF OnlineInv
      <3>4. \A r \in Restores : pc[r] # "build"
        BY <3>1 DEF OnlineInv
      <3>5. ~Fresh'
        BY <3>1 DEF Fresh
      <3> QED
        BY <3>1, <3>2, <3>3, <3>4, <3>5 DEF OnlineInv, OnlineIsEarned
    <2>2. CASE ~Owns(e)
      BY <1>5, <2>2 DEF LoopCommit
    <2> QED
      BY <2>1, <2>2
  <1>6. CASE LoopAnnounce(e)
    BY <1>6 DEF LoopAnnounce
  <1>7. CASE LoopEmit(e)
    BY <1>7 DEF LoopEmit
  <1>8. CASE LoopFatal(e)
    BY <1>8 DEF LoopFatal
  <1> QED
    BY <1>1, <1>2, <1>3, <1>4, <1>5, <1>6, <1>7, <1>8 DEF LoopStep

LEMMA SaveKeepsOnline ==
    ASSUME TypeOK, OnlineInv, NEW w \in Savers, SaveStep(w)
    PROVE  OnlineInv'
  <1> /\ Eras \cup Logouts \subseteq Workers /\ Restores \subseteq Eras
      /\ w \in Workers /\ EventLoop \notin Eras \cup Logouts
      /\ pc \in [Workers -> States]
    BY WorkersAssumption DEF TypeOK, Workers, Savers, Eras
  <1>1. /\ AfterSave(w) \in {"idle", "done", "runloop"}
        /\ AfterFailedSave(w) \in {"idle", "done"}
        /\ w \in Eras => AfterSave(w) # "idle" /\ AfterFailedSave(w) # "idle"
    BY DEF AfterSave, AfterFailedSave
  <1>2. /\ pc[w] \in {"save", "recheck", "write"}
        /\ \E there \in {"recheck", "write", AfterSave(w), AfterFailedSave(w)} :
             pc' = [pc EXCEPT ![w] = there]
        /\ UNCHANGED << s, cl, paired, everConnected >>
    BY DEF SaveStep, SaveBegin, SaveRecheck, SaveWrite, Goto, relay
  <1>3. \A v \in Eras \cup Logouts : pc'[v] = "idle" <=> pc[v] = "idle"
    BY <1>1, <1>2 DEF Savers
  <1>4. \A v \in Eras : pc'[v] \in {"commit", "build"} => pc'[v] = pc[v]
    BY <1>1, <1>2
  <1> QED
    BY <1>2, <1>3, <1>4, OnlineFrame

LEMMA LogoutKeepsOnline ==
    ASSUME TypeOK, OnlineInv, RepeatedHello = FALSE,
           NEW o \in Logouts, LogoutBegin(o) \/ LogoutStep(o)
    PROVE  OnlineInv'
  <1> USE SessionFields, OnlineFrame DEF Goto, Session, relay
  <1> /\ Eras \cup Logouts \subseteq Workers /\ Restores \subseteq Eras
      /\ o \notin Eras /\ pc \in [Workers -> States]
      /\ cl \in [Workers -> Eras \cup {NoEra}]
    BY WorkersAssumption DEF TypeOK, Workers, Eras
  <1>1. CASE LogoutBegin(o)
    <2>1. \A r \in Restores : pc[r] # "build"
      BY <1>1 DEF LogoutBegin, MayRun, Restoring
    <2>2. /\ pc' = [pc EXCEPT ![o] = "retire"] /\ UNCHANGED << paired, everConnected >>
          /\ \A e \in Eras : cl'[e] = cl[e]
      BY <1>1 DEF LogoutBegin
    <2>3. s'.connected = s.connected /\ s'.client = s.client
      BY <1>1 DEF LogoutBegin
    <2>4. ~Fresh'
      BY <2>2 DEF Fresh
    <2> QED
      BY <2>1, <2>2, <2>3, <2>4 DEF OnlineInv, OnlineIsEarned
  <1>2. CASE LogoutRetire(o)
    BY <1>2 DEF LogoutRetire
  <1>3. CASE LogoutRevoke(o)
    BY <1>3 DEF LogoutRevoke
  <1>4. CASE LogoutDelete(o)
    BY <1>4 DEF LogoutDelete
  <1>5. CASE LogoutTeardown(o)
    BY <1>5 DEF LogoutTeardown, TornDown
  <1>6. CASE LogoutReport(o)
    BY <1>6 DEF LogoutReport
  <1>7. CASE LogoutForget(o)
    BY <1>7 DEF LogoutForget, Close
  <1> QED
    BY <1>1, <1>2, <1>3, <1>4, <1>5, <1>6, <1>7 DEF LogoutStep

LEMMA EventKeepsOnline ==
    ASSUME TypeOK, OnlineInv, RelayEvent \/ EventStep \/ Shutdown
    PROVE  OnlineInv'
  <1> USE SessionFields, OnlineFrame DEF Session, goroutines, relay
  <1> /\ Eras \cup Logouts \subseteq Workers /\ Restores \subseteq Eras
      /\ EventLoop \notin Eras \cup Logouts /\ pc \in [Workers -> States]
    BY WorkersAssumption DEF TypeOK, Workers, Eras
  <1>1. CASE RelayEvent
    BY <1>1 DEF RelayEvent
  <1>2. CASE EventDequeue
    BY <1>2 DEF EventDequeue
  <1>3. CASE EventLost
    <2>1. s'.connected => s.connected /\ s'.client = s.client
      BY <1>3 DEF EventLost
    <2>2. UNCHANGED << cl, paired, everConnected >> /\ pc' = [pc EXCEPT ![EventLoop] = "idle"]
      BY <1>3 DEF EventLost, Goto
    <2> QED
      BY <2>1, <2>2
  <1>4. CASE Shutdown
    BY <1>4 DEF Shutdown, Close
  <1> QED
    BY <1>1, <1>2, <1>3, <1>4 DEF EventStep

\* When a hello comes first, whatever logins, logouts and reconnect attempts
\* follow, an online session is one whose own client the relay accepted.
THEOREM OnlyConnectedIsOnline ==
    ASSUME RepeatedHello = FALSE
    PROVE  Spec => []OnlineIsEarned
  <1>1. Init => OnlineInv
    BY DEF Init, OnlineInv, OnlineIsEarned, Eras, Workers
  <1>2. TypeOK /\ OnlineInv /\ [Next]_vars => OnlineInv'
    <2> SUFFICES ASSUME TypeOK, OnlineInv, [Next]_vars
                 PROVE  OnlineInv'
      OBVIOUS
    <2>1. CASE Next
      BY <2>1, PairingKeepsOnline, LoopKeepsOnline, SaveKeepsOnline,
         LogoutKeepsOnline, EventKeepsOnline DEF Next, Savers
    <2>2. CASE UNCHANGED vars
      BY <2>2, OnlineFrame DEF vars, goroutines, relay
    <2> QED
      BY <2>1, <2>2
  <1>3. OnlineInv => OnlineIsEarned
    BY DEF OnlineInv
  <1> QED
    BY <1>1, <1>2, <1>3, TypeCorrect, PTL DEF Spec

-----------------------------------------------------------------------------
(* No reconnect loop is out of reach, and a closed session polls no more.  *)

\* Where a loop has an attempt before or under way.
Trying == {"top", "fetch", "connect", "commit"}

\* The loops nobody cancelled are the stored one; they alone have polls; and
\* an attempt that outlives Close belongs to a cancelled loop.
LoopControl ==
    /\ \A e \in inLoop \ loopCancelled : s.connectCancel = e
    /\ \A p \in loopPolls : p.loop \in inLoop \ loopCancelled
    /\ \A e \in Eras : pc[e] \in Trying => e \in inLoop
    /\ s.closed => /\ loopPolls = {}
                   /\ \A e \in Eras : pc[e] \in {"fetch", "connect"} => e \in loopCancelled

\* No goroutine enters a loop, and none enters an attempt of a closed session.
NoNewAttempt ==
    \A e \in Eras :
        /\ pc'[e] \in Trying => pc[e] \in Trying
        /\ s'.closed /\ pc'[e] \in {"fetch", "connect"} => pc[e] \in {"fetch", "connect"}

\* A step that starts and stops no loop, and adds no poll.
LEMMA ControlKept ==
    ASSUME LoopControl, NoNewAttempt, inLoop' = inLoop, loopCancelled' = loopCancelled,
           s'.connectCancel = s.connectCancel, s'.closed = s.closed,
           loopPolls' \subseteq loopPolls
    PROVE  LoopControl'
  BY DEF LoopControl, NoNewAttempt

\* A step that cancels the stored loop: no loop is wanted after it.
LEMMA ControlStopped ==
    ASSUME TypeOK, LoopControl, NEW P, NEW C, CancelLoop,
           EndPolls(P, {s.connectCancel}, C), inLoop' = inLoop,
           \A e \in Eras : pc'[e] \in Trying => pc[e] \in Trying
    PROVE  LoopControl'
  <1>1. inLoop \subseteq loopCancelled'
    BY WorkersAssumption DEF LoopControl, CancelLoop, TypeOK, Workers
  <1>2. loopPolls' = {}
    BY DEF LoopControl, EndPolls
  <1> QED
    BY <1>1, <1>2 DEF LoopControl, Trying

LEMMA PairingKeepsControl ==
    ASSUME TypeOK, LoopControl, NEW e \in Eras,
           LoginRetire(e) \/ RestoreLoad(e) \/ PairingStep(e)
    PROVE  LoopControl'
  <1> USE SessionFields, ControlKept DEF Goto, contexts, relay, Session, NoNewAttempt, Trying
  <1> e \in Workers /\ Eras \subseteq Workers /\ pc \in [Workers -> States]
    BY DEF TypeOK, Workers
  <1>1. CASE LoginRetire(e)
    BY <1>1 DEF LoginRetire
  <1>2. CASE RestoreLoad(e)
    BY <1>2 DEF RestoreLoad
  <1>3. CASE LoginSwap(e)
    BY <1>3, ControlStopped DEF LoginSwap
  <1>4. CASE LoginConfig(e)
    BY <1>4 DEF LoginConfig
  <1>5. CASE LoginStart(e)
    BY <1>5 DEF LoginStart
  <1>6. CASE PairingCheck(e)
    BY <1>6 DEF PairingCheck
  <1>7. CASE PhoneAnswers(e)
    BY <1>7 DEF PhoneAnswers
  <1>8. CASE PairingSettle(e)
    <2>1. /\ inLoop' = inLoop /\ loopCancelled' = loopCancelled
          /\ s'.connectCancel = s.connectCancel /\ s'.closed = s.closed
          /\ loopPolls' \subseteq loopPolls
      BY <1>8 DEF PairingSettle, EndPolls
    <2> QED
      BY <1>8, <2>1, SettledPairing
  <1>9. CASE RestoreBuild(e)
    BY <1>9 DEF RestoreBuild
  <1>10. CASE StartLoop(e)
    \* The stored loop is cancelled with its polls before this one is stored.
    <2>1. s'.connectCancel = e /\ s'.closed = s.closed /\ inLoop' = inLoop \cup {e}
      BY <1>10 DEF StartLoop
    <2>2. inLoop \subseteq loopCancelled' /\ loopCancelled \subseteq loopCancelled'
      BY <1>10, WorkersAssumption DEF StartLoop, CancelLoop, LoopControl, TypeOK, Workers
    <2>3. loopPolls' = {}
      BY <1>10 DEF StartLoop, EndPolls, LoopControl
    <2>4. pc' = [pc EXCEPT ![e] = "top"]
      BY <1>10 DEF StartLoop
    <2> QED
      BY <2>1, <2>2, <2>3, <2>4 DEF LoopControl
  <1>11. CASE PairingReport(e)
    BY <1>11 DEF PairingReport
  <1> QED
    BY <1>1, <1>2, <1>3, <1>4, <1>5, <1>6, <1>7, <1>8, <1>9, <1>10, <1>11
       DEF PairingStep

LEMMA LoopKeepsControl ==
    ASSUME TypeOK, LoopControl, NEW e \in Eras, LoopStep(e)
    PROVE  LoopControl'
  <1> USE SessionFields, ControlKept DEF Goto, contexts, relay, Session, NoNewAttempt, Trying
  <1> e \in Workers /\ Eras \subseteq Workers /\ pc \in [Workers -> States]
    BY DEF TypeOK, Workers
  <1>1. CASE LoopTop(e)
    BY <1>1 DEF LoopTop
  <1>2. CASE LoopFails(e)
    BY <1>2 DEF LoopFails
  <1>3. CASE LoopFetched(e)
    BY <1>3 DEF LoopFetched
  <1>4. CASE LoopConnected(e)
    \* The loop was not cancelled, so the session is open and the loop stored.
    <2>1. /\ pc[e] = "connect" /\ e \notin loopCancelled
          /\ pc' = [pc EXCEPT ![e] = "commit"]
          /\ loopPolls' = loopPolls \cup {[client |-> cl[e], loop |-> e]}
          /\ UNCHANGED << s, inLoop, loopCancelled >>
      BY <1>4 DEF LoopConnected
    <2>2. e \in inLoop \ loopCancelled /\ ~s.closed
      BY <2>1 DEF LoopControl
    <2>3. \A p \in loopPolls' : p.loop \in inLoop \ loopCancelled
      BY <2>1, <2>2 DEF LoopControl
    <2> QED
      BY <2>1, <2>2, <2>3 DEF LoopControl
  <1>5. CASE LoopCommit(e)
    BY <1>5 DEF LoopCommit
  <1>6. CASE LoopAnnounce(e)
    BY <1>6 DEF LoopAnnounce
  <1>7. CASE LoopEmit(e)
    BY <1>7 DEF LoopEmit
  <1>8. CASE LoopFatal(e)
    BY <1>8 DEF LoopFatal
  <1> QED
    BY <1>1, <1>2, <1>3, <1>4, <1>5, <1>6, <1>7, <1>8 DEF LoopStep

LEMMA SaveKeepsControl ==
    ASSUME TypeOK, LoopControl, NEW w \in Savers, SaveStep(w)
    PROVE  LoopControl'
  <1> w \in Workers /\ Eras \subseteq Workers /\ pc \in [Workers -> States]
    BY DEF TypeOK, Workers, Savers
  <1>1. \E there \in {"recheck", "write", "idle", "done", "runloop"} :
           pc' = [pc EXCEPT ![w] = there]
    BY DEF SaveStep, SaveBegin, SaveRecheck, SaveWrite, Goto, AfterSave, AfterFailedSave
  <1>2. /\ inLoop' = inLoop /\ loopCancelled' = loopCancelled
        /\ s' = s /\ loopPolls' = loopPolls
    BY DEF SaveStep, SaveBegin, SaveRecheck, SaveWrite, contexts, relay
  <1> QED
    BY <1>1, <1>2, ControlKept DEF NoNewAttempt, Trying

LEMMA LogoutKeepsControl ==
    ASSUME TypeOK, LoopControl, NEW o \in Logouts, LogoutBegin(o) \/ LogoutStep(o)
    PROVE  LoopControl'
  <1> USE SessionFields, ControlKept DEF Goto, contexts, relay, Session, NoNewAttempt, Trying
  <1> o \in Workers \ Eras /\ Eras \subseteq Workers /\ pc \in [Workers -> States]
    BY WorkersAssumption DEF TypeOK, Workers
  <1>1. CASE LogoutBegin(o)
    BY <1>1 DEF LogoutBegin, EndPolls
  <1>2. CASE LogoutRetire(o)
    BY <1>2 DEF LogoutRetire
  <1>3. CASE LogoutRevoke(o)
    BY <1>3 DEF LogoutRevoke, EndPolls
  <1>4. CASE LogoutDelete(o)
    BY <1>4 DEF LogoutDelete
  <1>5. CASE LogoutTeardown(o)
    BY <1>5 DEF LogoutTeardown, TornDown
  <1>6. CASE LogoutReport(o)
    BY <1>6 DEF LogoutReport
  <1>7. CASE LogoutForget(o)
    BY <1>7, ControlStopped DEF LogoutForget, Close
  <1> QED
    BY <1>1, <1>2, <1>3, <1>4, <1>5, <1>6, <1>7 DEF LogoutStep

LEMMA EventKeepsControl ==
    ASSUME TypeOK, LoopControl, RelayEvent \/ EventStep \/ Shutdown
    PROVE  LoopControl'
  <1> USE SessionFields, ControlKept DEF contexts, goroutines, relay, Session, NoNewAttempt, Trying
  <1> /\ EventLoop \in Workers \ Eras /\ Eras \subseteq Workers
      /\ pc \in [Workers -> States]
    BY WorkersAssumption DEF TypeOK, Workers
  <1>1. CASE RelayEvent
    BY <1>1 DEF RelayEvent
  <1>2. CASE EventDequeue
    BY <1>2 DEF EventDequeue
  <1>3. CASE EventLost
    BY <1>3 DEF EventLost, Goto
  <1>4. CASE Shutdown
    BY <1>4, ControlStopped DEF Shutdown, Close
  <1> QED
    BY <1>1, <1>2, <1>3, <1>4 DEF EventStep

LEMMA LoopsControlled == Spec => []LoopControl
  <1>1. Init => LoopControl
    BY DEF Init, LoopControl, Trying, Eras, Workers
  <1>2. TypeOK /\ LoopControl /\ [Next]_vars => LoopControl'
    <2> SUFFICES ASSUME TypeOK, LoopControl, [Next]_vars
                 PROVE  LoopControl'
      OBVIOUS
    <2>1. CASE Next
      BY <2>1, PairingKeepsControl, LoopKeepsControl, SaveKeepsControl,
         LogoutKeepsControl, EventKeepsControl DEF Next, Savers
    <2>2. CASE UNCHANGED vars
      BY <2>2, ControlKept DEF vars, goroutines, contexts, relay, NoNewAttempt
    <2> QED
      BY <2>1, <2>2
  <1> QED
    BY <1>1, <1>2, TypeCorrect, PTL DEF Spec

\* However logins, hellos, logouts and shutdown interleave, no reconnect loop
\* leaves a poll that nothing can stop.
THEOREM LoopsAreStoppable == Spec => []LoopPollsStoppable
  <1>1. LoopControl => LoopPollsStoppable
    BY DEF LoopControl, LoopPollsStoppable
  <1> QED
    BY <1>1, LoopsControlled, PTL

\* No reconnect loop's poll outlives Close, and none begins after it.
THEOREM CloseEndsLoops == Spec => []ClosedServesNoLoop
  <1>1. LoopControl => ClosedServesNoLoop
    BY DEF LoopControl, ClosedServesNoLoop
  <1> QED
    BY <1>1, LoopsControlled, PTL
=============================================================================
