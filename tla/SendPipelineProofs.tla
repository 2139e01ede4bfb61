------------------------- MODULE SendPipelineProofs -------------------------
(***************************************************************************)
(* Theorems about SendPipeline, for any number of sends, retries and       *)
(* logins and any size of the queue.                                       *)
(***************************************************************************)
EXTENDS SendPipeline, TLAPS

LEMMA Ranks ==
    /\ \A status \in Progress : Rank[status] \in Nat
    /\ \A status \in Attested : status \in Progress /\ status # "none" /\ Rank[status] >= 2
    /\ "accepted" \in Attested /\ Rank["accepted"] = 2
    /\ "none" \in Progress /\ "queued" \in Progress /\ Rank["none"] = 0 /\ Rank["queued"] = 1
    /\ "failed:transport" \notin Attested
  BY DEF Rank, Progress, Attested

\* Places of a worker.
Places == {"idle", "meta", "client", "upload", "register", "result", "accept", "relay",
           "answer", "forget", "report", "done"}

LEMMA GotoTyped ==
    ASSUME TypeOK, NEW t \in Sends, NEW here, NEW there \in Places, Goto(t, here, there)
    PROVE  /\ pc' \in [Sends -> Places]
           /\ \A u \in Sends : pc'[u] = IF u = t THEN there ELSE pc[u]
  BY DEF TypeOK, Goto, Places

LEMMA ResultTyped ==
    ASSUME TypeOK, NEW t \in Sends, NEW answer \in {"ok", "refused"}, Result(t, answer)
    PROVE  /\ results' \in [Sends -> Seq({"ok", "refused"})]
           /\ \A u \in Sends \ {t} : results'[u] = results[u]
           /\ results'[t] = IF closed THEN results[t] ELSE Append(results[t], answer)
  BY DEF TypeOK, Result

LEMMA TellTyped ==
    ASSUME TypeOK, NEW t \in Sends, NEW status \in Statuses, Tell(t, status)
    PROVE  /\ told' \in [Sends -> Seq(Statuses)]
           /\ \A u \in Sends \ {t} : told'[u] = told[u]
           /\ told'[t] = IF closed THEN told[t] ELSE Append(told[t], status)
  BY DEF TypeOK, Tell

\* The first steps of a worker: it goes on or is refused.
Early(t) == SendBegin(t) \/ SendMeta(t) \/ SendClient(t) \/ SendUpload(t)

LEMMA EarlyStep ==
    ASSUME TypeOK, NEW t \in Sends, Early(t)
    PROVE  /\ UNCHANGED << session, pending, tries, told, phone, echoes, loop, selfKnown,
                           released >>
           /\ results' \in [Sends -> Seq({"ok", "refused"})]
           /\ pc[t] \in {"idle", "meta", "client", "upload"}
           /\ \/ /\ Goto(t, pc[t], pc'[t]) /\ pc'[t] \in {"meta", "client", "upload", "register"}
                 /\ UNCHANGED results
              \/ Goto(t, pc[t], "done") /\ Result(t, "refused")
  <1>1. pc \in [Sends -> Places]
    BY DEF TypeOK, Places
  <1>2. CASE SendBegin(t)
    BY <1>1, <1>2, ResultTyped DEF SendBegin, Refuse, Goto, TypeOK
  <1>3. CASE SendMeta(t)
    BY <1>1, <1>3, ResultTyped DEF SendMeta, Refuse, Goto, TypeOK
  <1>4. CASE SendClient(t)
    BY <1>1, <1>4, ResultTyped DEF SendClient, Refuse, Goto, TypeOK
  <1>5. CASE SendUpload(t)
    BY <1>1, <1>5, ResultTyped DEF SendUpload, Refuse, Goto, TypeOK
  <1> QED
    BY <1>2, <1>3, <1>4, <1>5 DEF Early

-----------------------------------------------------------------------------
(* Types.                                                                  *)

\* Whatever the event loop is doing, it does with an echo.
Busy == stage # "idle" => handling \in Echo

Typed == TypeOK /\ Busy

LEMMA TypedInit == Init => Typed
  <1> SUFFICES ASSUME Init PROVE Typed
    OBVIOUS
  <1>1. /\ << >> \in Seq({"ok", "refused"}) /\ << >> \in Seq(Statuses)
        /\ << >> \in Seq(Echo) /\ Len(<< >>) = 0
    OBVIOUS
  <1>2. /\ results \in [Sends -> Seq({"ok", "refused"})]
        /\ told \in [Sends -> Seq(Statuses)]
        /\ echoes \in Seq(Echo) /\ Len(echoes) <= QueueSize
    BY <1>1, SizeAssumption DEF Init
  <1>3. phone \in [Sends -> Progress]
    BY Ranks DEF Init
  <1> QED
    BY <1>2, <1>3 DEF Init, Typed, TypeOK, Busy

LEMMA WorkerTyped ==
    ASSUME Typed, NEW t \in Sends, SendBegin(t) \/ SendStep(t)
    PROVE  Typed'
  <1> USE DEF session, sending, loop
  <1>1. CASE Early(t)
    <2>1. PICK there \in Places : Goto(t, pc[t], there)
      BY <1>1, EarlyStep DEF Typed, Places
    <2> QED
      BY <1>1, <2>1, EarlyStep, GotoTyped DEF Typed, TypeOK, Busy, Places
  <1>2. CASE SendRegister(t)
    BY <1>2, GotoTyped DEF SendRegister, Expired, Typed, TypeOK, Busy, Places
  <1>3. CASE SendResult(t)
    BY <1>3, GotoTyped, ResultTyped DEF SendResult, Typed, TypeOK, Busy, Places
  <1>4. CASE SendAccept(t)
    <2>1. told' \in [Sends -> Seq(Statuses)]
      BY <1>4, TellTyped, Ranks DEF SendAccept, Typed, Statuses
    <2> QED
      BY <1>4, <2>1, GotoTyped DEF SendAccept, Typed, TypeOK, Busy, Places
  <1>5. CASE RelayCall(t)
    <2>1. phone' \in [Sends -> Progress]
      BY <1>5, Ranks DEF RelayCall, Typed, TypeOK
    <2>2. tries' \in [Sends -> Nat]
      BY <1>5 DEF RelayCall, Typed, TypeOK
    <2> QED
      BY <1>5, <2>1, <2>2, GotoTyped DEF RelayCall, Typed, TypeOK, Busy, Places
  <1>6. CASE RelayAnswer(t)
    <2>1. tries' \in [Sends -> Nat]
      BY <1>6 DEF RelayAnswer, Typed, TypeOK
    <2> QED
      BY <1>6, <2>1, GotoTyped DEF RelayAnswer, Typed, TypeOK, Busy, Places
  <1>7. CASE SendForget(t)
    BY <1>7, GotoTyped DEF SendForget, Typed, TypeOK, Busy, Places
  <1>8. CASE SendReport(t)
    <2>1. told' \in [Sends -> Seq(Statuses)]
      BY <1>8, TellTyped DEF SendReport, Typed, Statuses
    <2> QED
      BY <1>8, <2>1, GotoTyped DEF SendReport, Typed, TypeOK, Busy, Places
  <1> QED
    BY <1>1, <1>2, <1>3, <1>4, <1>5, <1>6, <1>7, <1>8 DEF SendStep, Early

\* What a push leaves in the queue: the new echo behind some of the old ones.
LEMMA PushedTyped ==
    ASSUME TypeOK, NEW t \in Sends, PhoneEchoes(t)
    PROVE  \E echo \in Echo :
             /\ echo.send = t /\ client /\ ~closed /\ phone[t] \notin {"none", "failed"}
             /\ Rank[phone[t]] < Rank[echo.status]
             /\ phone' = [phone EXCEPT ![t] = echo.status]
             /\ echoes' \in Seq(Echo) /\ Len(echoes') <= QueueSize
             /\ \/ echoes' = Append(echoes, echo)
                \/ echoes # << >> /\ echoes' = Append(Tail(echoes), echo)
             /\ UNCHANGED << session, sending, told, loop, selfKnown, released >>
  <1>1. PICK status \in Echoed, content \in BOOLEAN :
          /\ client /\ ~closed /\ phone[t] \notin {"none", "failed"}
          /\ Rank[phone[t]] < Rank[status]
          /\ phone' = [phone EXCEPT ![t] = status]
          /\ echoes' = Append(IF Len(echoes) < QueueSize THEN echoes ELSE Tail(echoes),
                              [send |-> t, status |-> status, content |-> content,
                               lifecycle |-> lifecycle])
          /\ UNCHANGED << session, sending, told, loop, selfKnown, released >>
    BY DEF PhoneEchoes
  <1>2. PICK echo \in Echo : echo = [send |-> t, status |-> status, content |-> content,
                                     lifecycle |-> lifecycle]
    BY EchoedAssumption DEF TypeOK, Echo
  <1>3. echo.send = t /\ echo.status = status
    BY <1>2
  <1>4. echoes \in Seq(Echo) /\ Len(echoes) <= QueueSize /\ QueueSize \in Nat \ {0}
    BY SizeAssumption DEF TypeOK
  <1>5. echoes' \in Seq(Echo) /\ Len(echoes') <= QueueSize
    BY <1>1, <1>2, <1>4
  <1>6. \/ echoes' = Append(echoes, echo)
        \/ echoes # << >> /\ echoes' = Append(Tail(echoes), echo)
    BY <1>1, <1>2, <1>4
  <1> QED
    BY <1>1, <1>3, <1>5, <1>6

LEMMA PhoneTyped ==
    ASSUME Typed, NEW t \in Sends, PhoneEchoes(t) \/ Age(t)
    PROVE  Typed'
  <1>1. CASE PhoneEchoes(t)
    <2>1. PICK echo \in Echo :
            /\ phone' = [phone EXCEPT ![t] = echo.status]
            /\ echoes' \in Seq(Echo) /\ Len(echoes') <= QueueSize
            /\ UNCHANGED << session, sending, told, loop, selfKnown, released >>
      BY <1>1, PushedTyped DEF Typed
    <2>2. echo.status \in Progress
      BY Ranks DEF Echo
    <2>3. phone' \in [Sends -> Progress]
      BY <2>1, <2>2 DEF Typed, TypeOK
    <2> QED
      BY <2>1, <2>3 DEF Typed, TypeOK, Busy, session, sending, loop
  <1>2. CASE Age(t)
    BY <1>2 DEF Age, Typed, TypeOK, Busy, session, loop
  <1> QED
    BY <1>1, <1>2

LEMMA EchoTyped == ASSUME Typed, EchoStep PROVE Typed'
  <1> USE DEF session, sending, loop
  <1>1. CASE EchoDequeue
    <2>1. Head(echoes) \in Echo /\ Tail(echoes) \in Seq(Echo) /\ Len(Tail(echoes)) <= QueueSize
      BY <1>1, SizeAssumption DEF EchoDequeue, Typed, TypeOK
    <2> QED
      BY <1>1, <2>1 DEF EchoDequeue, Step, Typed, TypeOK, Busy
  <1>2. CASE EchoMap \/ EchoPublish \/ EchoMatch
    BY <1>2 DEF EchoMap, EchoPublish, EchoMatch, Step, Finish, Typed, TypeOK, Busy
  <1>3. CASE EchoConsume
    BY <1>3 DEF EchoConsume, Step, Typed, TypeOK, Busy, Echo
  <1>4. CASE EchoAttribute \/ EchoSelf
    <2>1. handling \in Echo
      BY <1>4 DEF EchoAttribute, EchoSelf, Step, Typed, TypeOK, Busy
    <2>2. handling.send \in Sends /\ handling.status \in Statuses
      BY <2>1 DEF Echo, Statuses
    <2>3. told' \in [Sends -> Seq(Statuses)]
      BY <1>4, <2>2, TellTyped DEF EchoAttribute, EchoSelf, Typed, TypeOK
    <2> QED
      BY <1>4, <2>3 DEF EchoAttribute, EchoSelf, Step, Finish, Typed, TypeOK, Busy
  <1> QED
    BY <1>1, <1>2, <1>3, <1>4 DEF EchoStep

LEMMA TypedStep == Typed /\ [Next]_vars => Typed'
  <1> SUFFICES ASSUME Typed, [Next]_vars PROVE Typed'
    OBVIOUS
  <1>1. CASE UNCHANGED vars
    BY <1>1 DEF vars, session, sending, loop, Typed, TypeOK, Busy
  <1>2. CASE LearnSelf
    BY <1>2 DEF LearnSelf, session, sending, loop, Typed, TypeOK, Busy
  <1>3. CASE Retire
    <2>1. lifecycle' \in Nat
      BY <1>3 DEF Retire, Typed, TypeOK
    <2>2. client' \in BOOLEAN /\ closed' \in BOOLEAN
      BY <1>3, Zenon DEF Retire, Typed, TypeOK
    <2> QED
      BY <1>3, <2>1, <2>2 DEF Retire, sending, loop, Typed, TypeOK, Busy
  <1> QED
    BY <1>1, <1>2, <1>3, WorkerTyped, PhoneTyped, EchoTyped DEF Next

\* The type invariant; the relay queue never exceeds its size.
THEOREM TypeCorrect == Spec => []TypeOK
  <1>1. Typed => TypeOK
    BY DEF Typed
  <1> QED
    BY <1>1, TypedInit, TypedStep, PTL DEF Spec

-----------------------------------------------------------------------------
(* The invariant.                                                          *)

\* Places of a worker before it has answered, told and sent anything.
Unanswered == {"idle", "meta", "client", "upload", "register", "result"}
Untold == Unanswered \cup {"accept"}
Unsent == Untold \cup {"relay"}

Flow == \A t \in Sends :
    /\ results[t] \in {<< >>, << "ok" >>, << "refused" >>}
    /\ pc[t] \in Unanswered => results[t] = << >>
    /\ results[t] = << "refused" >> => pc[t] = "done" /\ phone[t] = "none" /\ told[t] = << >>
    /\ pc[t] \in Untold => told[t] = << >>
    /\ pc[t] \in Unsent => phone[t] = "none"

\* A send the phone may know of has its entry, or has had it.
Registered == \A t \in Sends :
    phone[t] # "none" \/ pc[t] \in {"result", "accept", "relay", "answer", "forget", "report"}
        => pending[t] # "none" \/ t \in released

\* An open session has told of the acceptance of whatever the phone may know.
Begun == \A t \in Sends :
    /\ told[t] # << >> => Head(told[t]) = "accepted"
    /\ phone[t] # "none" \/ pc[t] \in {"relay", "answer", "forget", "report"}
         => told[t] # << >> \/ closed

\* An echo is of something the phone has reached.
Heard(echo) ==
    phone[echo.send] # "none" /\ Rank[echo.status] <= Rank[phone[echo.send]]

EchoesHeard ==
    /\ \A i \in DOMAIN echoes : Heard(echoes[i])
    /\ stage # "idle" => Heard(handling)

\* Statuses of one send go up: those told, then that of the echo in hand, then
\* those in the queue.
ToldInOrder == \A t \in Sends : \A i, j \in DOMAIN told[t] :
    /\ i < j /\ told[t][i] # "failed:transport" /\ told[t][j] # "failed:transport"
    => Rank[told[t][i]] <= Rank[told[t][j]]

ToldBefore(echo) == \A i \in DOMAIN told[echo.send] :
    \/ told[echo.send][i] = "failed:transport"
    \/ Rank[told[echo.send][i]] <= Rank[echo.status]

EchoesInOrder ==
    /\ \A i, j \in DOMAIN echoes : i < j /\ echoes[i].send = echoes[j].send =>
          Rank[echoes[i].status] <= Rank[echoes[j].status]
    /\ stage # "idle" => \A i \in DOMAIN echoes : echoes[i].send = handling.send =>
          Rank[handling.status] <= Rank[echoes[i].status]

EchoesAhead ==
    /\ \A i \in DOMAIN echoes : ToldBefore(echoes[i])
    /\ stage # "idle" => ToldBefore(handling)

Reports == StatusesAttested /\ ToldInOrder /\ EchoesHeard /\ EchoesInOrder /\ EchoesAhead

Safe == Typed /\ Flow /\ Registered /\ Begun /\ Reports

LEMMA SafeInit == Init => Safe
  <1> SUFFICES ASSUME Init PROVE Safe
    OBVIOUS
  <1>1. /\ echoes = << >> /\ stage = "idle"
        /\ \A t \in Sends : /\ pc[t] = "idle" /\ phone[t] = "none"
                            /\ results[t] = << >> /\ told[t] = << >>
    BY DEF Init
  <1>2. Flow
    BY <1>1 DEF Flow
  <1>3. Registered /\ Begun
    BY <1>1 DEF Registered, Begun
  <1>4. Reports
    BY <1>1 DEF Reports, StatusesAttested, ToldInOrder, EchoesHeard, EchoesInOrder, EchoesAhead
  <1> QED
    BY <1>2, <1>3, <1>4, TypedInit DEF Safe

LEMMA Appended ==
    ASSUME NEW S, NEW seq \in Seq(S), NEW x \in S
    PROVE  /\ \A i \in DOMAIN Append(seq, x) :
                \/ i \in DOMAIN seq /\ Append(seq, x)[i] = seq[i] /\ i < Len(seq) + 1
                \/ i = Len(seq) + 1 /\ Append(seq, x)[i] = x
           /\ Append(seq, x) # << >>
           /\ Head(Append(seq, x)) = IF seq = << >> THEN x ELSE Head(seq)
  OBVIOUS

LEMMA Single ==
    /\ \A x : Append(<< >>, x) = << x >> /\ << x >> # << >> /\ Head(<< x >>) = x
    /\ \A x : DOMAIN << x >> = {1} /\ << x >>[1] = x
    /\ << "ok" >> # << "refused" >> /\ << >> # << "refused" >>
  OBVIOUS

\* Echoes in the queue and in hand, typed.
LEMMA EchoesTyped ==
    ASSUME Typed
    PROVE  /\ \A i \in DOMAIN echoes : echoes[i] \in Echo
           /\ stage # "idle" => handling \in Echo
           /\ \A echo \in Echo : echo.send \in Sends /\ echo.status \in Attested
  <1>1. \A i \in DOMAIN echoes : echoes[i] \in Echo
    BY DEF Typed, TypeOK
  <1>2. \A echo \in Echo : echo.send \in Sends /\ echo.status \in Attested
    BY DEF Echo
  <1> QED
    BY <1>1, <1>2 DEF Typed, Busy

\* Nothing is told, echoed or reached.
LEMMA ReportsRest ==
    ASSUME Safe, UNCHANGED << told, phone, echoes, loop >>
    PROVE  Reports'
  BY DEF Safe, Reports, StatusesAttested, ToldInOrder, EchoesHeard, Heard, EchoesInOrder,
         EchoesAhead, ToldBefore, loop

-----------------------------------------------------------------------------
(* The worker.                                                             *)

LEMMA EarlySafe ==
    ASSUME Safe, NEW t \in Sends, Early(t)
    PROVE  Flow' /\ Registered' /\ Begun' /\ Reports'
  <1>1. /\ UNCHANGED << session, pending, told, phone, echoes, loop, released >>
        /\ pc[t] \in {"idle", "meta", "client", "upload"}
        /\ \/ /\ Goto(t, pc[t], pc'[t]) /\ pc'[t] \in {"meta", "client", "upload", "register"}
              /\ UNCHANGED results
           \/ Goto(t, pc[t], "done") /\ Result(t, "refused")
    BY EarlyStep DEF Safe, Typed
  <1>2. PICK there \in {"meta", "client", "upload", "register", "done"} :
          \A u \in Sends : pc'[u] = IF u = t THEN there ELSE pc[u]
    BY <1>1, GotoTyped DEF Safe, Typed, Places
  <1>3. /\ results[t] = << >> /\ told[t] = << >> /\ phone[t] = "none"
    BY <1>1 DEF Safe, Flow, Unanswered, Untold, Unsent
  <1>4. /\ \A u \in Sends \ {t} : results'[u] = results[u]
        /\ results'[t] = << >> \/ (there = "done" /\ results'[t] = << "refused" >>)
    <2>1. CASE Goto(t, pc[t], "done") /\ Result(t, "refused")
      <3>1. there = "done"
        BY <1>2, <2>1 DEF Goto, Safe, Typed, TypeOK
      <3> QED
        BY <2>1, <3>1, <1>3, ResultTyped, Single DEF Safe, Typed
    <2> QED
      BY <1>1, <1>3, <2>1
  <1>5. Flow'
    BY <1>1, <1>2, <1>3, <1>4 DEF Safe, Flow, Unanswered, Untold, Unsent
  <1>6. Registered' /\ Begun'
    BY <1>1, <1>2 DEF Safe, Registered, Begun, session
  <1> QED
    BY <1>1, <1>5, <1>6, ReportsRest

LEMMA RegisterSafe ==
    ASSUME Safe, NEW t \in Sends, SendRegister(t) \/ SendResult(t)
    PROVE  Flow' /\ Registered' /\ Begun' /\ Reports'
  <1>1. UNCHANGED << closed, told, phone, echoes, loop >>
    BY DEF SendRegister, SendResult, session
  <1>2. PICK there \in {"result", "accept"} :
          /\ \A u \in Sends : pc'[u] = IF u = t THEN there ELSE pc[u]
          /\ pc[t] = IF there = "result" THEN "register" ELSE "result"
    BY GotoTyped DEF SendRegister, SendResult, Goto, Safe, Typed, Places
  <1>3. results[t] = << >> /\ told[t] = << >> /\ phone[t] = "none"
    BY <1>2 DEF Safe, Flow, Unanswered, Untold, Unsent
  <1>4. /\ \A u \in Sends \ {t} : results'[u] = results[u]
        /\ results'[t] = << >> \/ (there = "accept" /\ results'[t] = << "ok" >>)
    <2>1. CASE SendResult(t)
      <3>1. there = "accept"
        BY <1>2, <2>1 DEF SendResult, Goto
      <3> QED
        BY <2>1, <3>1, <1>3, ResultTyped, Single DEF SendResult, Safe, Typed
    <2> QED
      BY <1>3, <2>1 DEF SendRegister
  <1>5. Flow'
    <2>1. << "ok" >> # << "refused" >> /\ << >> # << "refused" >>
      BY Single
    <2>2. there = "accept" => there \notin Unanswered
      BY DEF Unanswered
    <2>3. there \in Untold /\ there \in Unsent
      BY DEF Unsent, Untold, Unanswered
    <2> SUFFICES ASSUME NEW u \in Sends
                 PROVE  /\ results'[u] \in {<< >>, << "ok" >>, << "refused" >>}
                        /\ pc'[u] \in Unanswered => results'[u] = << >>
                        /\ results'[u] = << "refused" >> =>
                             pc'[u] = "done" /\ phone'[u] = "none" /\ told'[u] = << >>
                        /\ pc'[u] \in Untold => told'[u] = << >>
                        /\ pc'[u] \in Unsent => phone'[u] = "none"
      BY DEF Flow
    <2>4. CASE u = t
      BY <1>1, <1>2, <1>3, <1>4, <2>1, <2>2, <2>3, <2>4
    <2>5. CASE u # t
      BY <1>1, <1>2, <1>4, <2>5 DEF Safe, Flow
    <2> QED
      BY <2>4, <2>5
  <1>6. \A u \in Sends : pending[u] # "none" \/ u \in released =>
                        pending'[u] # "none" \/ u \in released'
    BY DEF SendRegister, SendResult, Expired
  <1>7. there = "result" => pending'[t] # "none"
    BY <1>2 DEF SendRegister, SendResult, Goto
  <1>8. Registered'
    BY <1>1, <1>2, <1>6, <1>7 DEF Safe, Registered
  <1>9. Begun'
    BY <1>1, <1>2 DEF Safe, Begun
  <1> QED
    BY <1>1, <1>5, <1>8, <1>9, ReportsRest

LEMMA AcceptSafe ==
    ASSUME Safe, NEW t \in Sends, SendAccept(t)
    PROVE  Flow' /\ Registered' /\ Begun' /\ Reports'
  <1>1. /\ UNCHANGED << closed, pending, results, phone, echoes, loop, released >>
        /\ pc[t] = "accept" /\ Tell(t, "accepted")
        /\ \A u \in Sends : pc'[u] = IF u = t THEN "relay" ELSE pc[u]
    BY GotoTyped DEF SendAccept, Goto, session, Safe, Typed, Places
  <1>2. told[t] = << >> /\ phone[t] = "none"
    BY <1>1 DEF Safe, Flow, Unanswered, Untold, Unsent
  <1>3. /\ told' \in [Sends -> Seq(Statuses)]
        /\ \A u \in Sends \ {t} : told'[u] = told[u]
        /\ told'[t] = IF closed THEN << >> ELSE << "accepted" >>
    <2>1. "accepted" \in Statuses /\ Append(told[t], "accepted") = << "accepted" >>
      BY <1>2, Ranks, Single DEF Statuses
    <2> QED
      BY <1>1, <1>2, <2>1, TellTyped DEF Safe, Typed
  <1>4. Flow'
    BY <1>1, <1>2, <1>3 DEF Safe, Flow, Unanswered, Untold, Unsent
  <1>5. Registered'
    BY <1>1 DEF Safe, Registered
  <1>6. Begun'
    BY <1>1, <1>3, Single DEF Safe, Begun
  <1>7. StatusesAttested' /\ ToldInOrder'
    BY <1>1, <1>3, Single DEF Safe, Reports, StatusesAttested, ToldInOrder
  <1>8. EchoesHeard' /\ EchoesInOrder'
    BY <1>1 DEF Safe, Reports, EchoesHeard, Heard, EchoesInOrder, loop
  <1>9. EchoesAhead'
    <2>1. \A i \in DOMAIN echoes : echoes[i].send \in Sends \ {t}
      BY <1>2, EchoesTyped DEF Safe, Reports, EchoesHeard, Heard
    <2>2. stage # "idle" => handling.send \in Sends \ {t}
      BY <1>2, EchoesTyped DEF Safe, Reports, EchoesHeard, Heard
    <2> QED
      BY <1>1, <1>3, <2>1, <2>2 DEF Safe, Reports, EchoesAhead, ToldBefore, loop
  <1> QED
    BY <1>4, <1>5, <1>6, <1>7, <1>8, <1>9 DEF Reports

LEMMA CallSafe ==
    ASSUME Safe, NEW t \in Sends, RelayCall(t)
    PROVE  Flow' /\ Registered' /\ Begun' /\ Reports'
  <1>1. /\ UNCHANGED << closed, pending, results, told, echoes, loop, released >>
        /\ pc[t] = "relay"
        /\ \A u \in Sends : pc'[u] = IF u = t THEN "answer" ELSE pc[u]
    BY GotoTyped DEF RelayCall, Goto, session, Safe, Typed, Places
  <1>2. /\ phone[t] = "none"
        /\ \A u \in Sends : phone'[u] = phone[u] \/ (u = t /\ phone'[u] = "queued")
    <2>1. phone[t] = "none"
      BY <1>1 DEF Safe, Flow, Unsent
    <2>2. phone \in [Sends -> Progress]
      BY DEF Safe, Typed, TypeOK
    <2> QED
      BY <2>1, <2>2 DEF RelayCall
  <1>3. \A u \in Sends : Rank[phone[u]] <= Rank[phone'[u]] /\ Rank[phone[u]] \in Nat
    <2>1. \A u \in Sends : phone[u] \in Progress
      BY DEF Safe, Typed, TypeOK
    <2> QED
      BY <1>2, <2>1, Ranks
  <1>4. Flow'
    BY <1>1, <1>2 DEF Safe, Flow, Unanswered, Untold, Unsent
  <1>5. Registered' /\ Begun'
    BY <1>1, <1>2 DEF Safe, Registered, Begun
  <1>6. ToldInOrder' /\ EchoesInOrder' /\ EchoesAhead'
    BY <1>1 DEF Safe, Reports, ToldInOrder, EchoesInOrder, EchoesAhead, ToldBefore, loop
  <1>7. \A echo \in Echo : Heard(echo) => Heard(echo)'
    BY <1>2, <1>3, Ranks DEF Heard, Echo, Safe, Typed, TypeOK
  <1>8. EchoesHeard'
    BY <1>1, <1>7 DEF Safe, Reports, EchoesHeard, loop, Typed, TypeOK, Busy
  <1>9. StatusesAttested'
    <2>1. \A u \in Sends : Rank[phone[u]] \in Nat /\ Rank[phone'[u]] \in Nat
      BY <1>2, Ranks DEF Safe, Typed, TypeOK
    <2> QED
      BY <1>1, <1>3, <2>1, Ranks DEF Safe, Reports, StatusesAttested
  <1> QED
    BY <1>4, <1>5, <1>6, <1>8, <1>9 DEF Reports

LEMMA AnswerSafe ==
    ASSUME Safe, NEW t \in Sends, RelayAnswer(t) \/ SendForget(t)
    PROVE  Flow' /\ Registered' /\ Begun' /\ Reports'
  <1>1. /\ UNCHANGED << closed, results, told, phone, echoes, loop >>
        /\ pc[t] \in {"answer", "forget"}
    BY DEF RelayAnswer, SendForget, Goto, session
  <1>2. PICK there \in {"done", "relay", "forget", "report"} :
          /\ \A u \in Sends : pc'[u] = IF u = t THEN there ELSE pc[u]
          /\ there = "relay" => phone[t] = "none"
    BY GotoTyped DEF RelayAnswer, SendForget, Goto, Safe, Typed, Places
  <1>3. Flow'
    BY <1>1, <1>2 DEF Safe, Flow, Unanswered, Untold, Unsent
  <1>4. \A u \in Sends : pending[u] # "none" \/ u \in released =>
                        pending'[u] # "none" \/ u \in released'
    BY DEF RelayAnswer, SendForget, Safe, Typed, TypeOK
  <1>5. Registered' /\ Begun'
    BY <1>1, <1>2, <1>4 DEF Safe, Registered, Begun
  <1> QED
    BY <1>1, <1>3, <1>5, ReportsRest

LEMMA ReportSafe ==
    ASSUME Safe, NEW t \in Sends, SendReport(t)
    PROVE  Flow' /\ Registered' /\ Begun' /\ Reports'
  <1>1. /\ UNCHANGED << closed, pending, results, phone, echoes, loop, released >>
        /\ pc[t] = "report" /\ Tell(t, "failed:transport")
        /\ \A u \in Sends : pc'[u] = IF u = t THEN "done" ELSE pc[u]
    BY GotoTyped DEF SendReport, Goto, session, Safe, Typed, Places
  <1>2. told[t] \in Seq(Statuses) /\ "failed:transport" \in Statuses
    BY DEF Safe, Typed, TypeOK, Statuses
  <1>3. /\ \A u \in Sends \ {t} : told'[u] = told[u]
        /\ told'[t] \in {told[t], Append(told[t], "failed:transport")}
        /\ told[t] # << >> \/ closed
        /\ closed => told'[t] = told[t]
    BY <1>1, <1>2, TellTyped DEF Safe, Typed, Begun
  <1>4. \A u \in Sends : \A i \in DOMAIN told'[u] :
          \/ told'[u][i] = "failed:transport"
          \/ i \in DOMAIN told[u] /\ told'[u][i] = told[u][i]
    BY <1>2, <1>3, Appended
  <1>5. Flow'
    BY <1>1, <1>3 DEF Safe, Flow, Unanswered, Untold, Unsent
  <1>6. Registered'
    BY <1>1 DEF Safe, Registered
  <1>7. Begun'
    BY <1>1, <1>2, <1>3, Appended DEF Safe, Begun
  <1>8. StatusesAttested' /\ ToldInOrder'
    BY <1>1, <1>4, Ranks DEF Safe, Reports, StatusesAttested, ToldInOrder
  <1>9. EchoesHeard' /\ EchoesInOrder'
    BY <1>1 DEF Safe, Reports, EchoesHeard, Heard, EchoesInOrder, loop
  <1>10. EchoesAhead'
    <2>1. \A echo \in Echo : ToldBefore(echo) => ToldBefore(echo)'
      BY <1>4 DEF ToldBefore, Echo
    <2> QED
      BY <1>1, <2>1 DEF Safe, Reports, EchoesAhead, Typed, TypeOK, Busy, loop
  <1> QED
    BY <1>5, <1>6, <1>7, <1>8, <1>9, <1>10 DEF Reports

-----------------------------------------------------------------------------
(* The phone.                                                              *)

LEMMA PhoneSafe ==
    ASSUME Safe, NEW t \in Sends, PhoneEchoes(t)
    PROVE  Flow' /\ Registered' /\ Begun' /\ Reports'
  <1>1. PICK echo \in Echo :
          /\ echo.send = t /\ phone[t] \notin {"none", "failed"}
          /\ Rank[phone[t]] < Rank[echo.status]
          /\ phone' = [phone EXCEPT ![t] = echo.status]
          /\ \/ echoes' = Append(echoes, echo)
             \/ echoes # << >> /\ echoes' = Append(Tail(echoes), echo)
          /\ UNCHANGED << closed, pending, pc, results, told, loop, released >>
    BY PushedTyped DEF Safe, Typed, session, sending
  <1>2. /\ echo.status \in Progress /\ echo.status # "none"
        /\ Rank[echo.status] \in Nat /\ Rank[echo.status] >= 2
    BY EchoesTyped, Ranks DEF Safe
  <1>3. \A u \in Sends : phone[u] \in Progress /\ Rank[phone[u]] \in Nat
    BY Ranks DEF Safe, Typed, TypeOK
  <1>4. /\ phone'[t] = echo.status
        /\ \A u \in Sends : phone'[u] = IF u = t THEN echo.status ELSE phone[u]
    BY <1>1 DEF Safe, Typed, TypeOK
  <1>5. \A u \in Sends : /\ Rank[phone[u]] <= Rank[phone'[u]] /\ Rank[phone'[u]] \in Nat
                         /\ phone[u] # "none" => phone'[u] # "none"
                         /\ phone'[u] # "none" => phone[u] # "none"
    BY <1>1, <1>2, <1>3, <1>4
  <1>6. Flow' /\ Registered' /\ Begun'
    BY <1>1, <1>5 DEF Safe, Flow, Registered, Begun
  <1>7. /\ \A u \in Sends : \A i \in DOMAIN told[u] : told[u][i] \in Statuses
        /\ \A status \in Statuses \ {"failed:transport"} :
             status \in Attested /\ Rank[status] \in Nat
    BY Ranks DEF Safe, Typed, TypeOK, Statuses
  <1>8. StatusesAttested'
    <2>1. SUFFICES ASSUME NEW u \in Sends, NEW i \in DOMAIN told[u],
                          told[u][i] \in Attested \ {"accepted"}
                   PROVE  Rank[told[u][i]] <= Rank[phone'[u]]
      BY <1>1 DEF StatusesAttested
    <2>2. Rank[told[u][i]] <= Rank[phone[u]] /\ Rank[told[u][i]] \in Nat
      BY <2>1, Ranks DEF Safe, Reports, StatusesAttested
    <2> QED
      BY <2>2, <1>3, <1>5
  <1>9. ToldInOrder'
    BY <1>1 DEF Safe, Reports, ToldInOrder
  <1>10. ToldBefore(echo)'
    <2>1. SUFFICES ASSUME NEW i \in DOMAIN told[t], told[t][i] # "failed:transport"
                   PROVE  Rank[told[t][i]] <= Rank[echo.status]
      BY <1>1 DEF ToldBefore
    <2>2. told[t][i] \in Attested /\ Rank[told[t][i]] \in Nat
      BY <2>1, <1>7
    <2>3. CASE told[t][i] = "accepted"
      BY <2>3, <1>2, Ranks
    <2>4. CASE told[t][i] # "accepted"
      <3>1. Rank[told[t][i]] <= Rank[phone[t]]
        BY <2>2, <2>4 DEF Safe, Reports, StatusesAttested
      <3> QED
        BY <3>1, <2>2, <1>1, <1>2, <1>3
    <2> QED
      BY <2>3, <2>4
  <1>11. PICK d \in {0, 1} : \A i \in DOMAIN echoes' :
           /\ i \in Nat
           /\ \/ i + d \in DOMAIN echoes /\ echoes'[i] = echoes[i + d] /\ i < Len(echoes')
              \/ i = Len(echoes') /\ echoes'[i] = echo
    <2>1. echoes \in Seq(Echo)
      BY DEF Safe, Typed, TypeOK
    <2>2. CASE echoes' = Append(echoes, echo)
      <3>1. \A i \in DOMAIN echoes' :
              /\ i \in Nat
              /\ \/ i + 0 \in DOMAIN echoes /\ echoes'[i] = echoes[i + 0] /\ i < Len(echoes')
                 \/ i = Len(echoes') /\ echoes'[i] = echo
        BY <2>1, <2>2
      <3> QED
        BY <3>1
    <2>3. CASE echoes # << >> /\ echoes' = Append(Tail(echoes), echo)
      <3>1. \A i \in DOMAIN echoes' :
              /\ i \in Nat
              /\ \/ i + 1 \in DOMAIN echoes /\ echoes'[i] = echoes[i + 1] /\ i < Len(echoes')
                 \/ i = Len(echoes') /\ echoes'[i] = echo
        BY <2>1, <2>3
      <3> QED
        BY <3>1
    <2> QED
      BY <1>1, <2>2, <2>3
  <1>12. \A old \in Echo : /\ Heard(old) => Heard(old)'
                           /\ Heard(old) /\ old.send = t => Rank[old.status] <= Rank[echo.status]
                           /\ ToldBefore(old) => ToldBefore(old)'
    <2> TAKE old \in Echo
    <2>1. old.send \in Sends /\ Rank[old.status] \in Nat
      BY EchoesTyped, Ranks DEF Safe
    <2> QED
      BY <2>1, <1>1, <1>2, <1>3, <1>5 DEF Heard, ToldBefore
  <1>13. Heard(echo)'
    BY <1>1, <1>2, <1>4 DEF Heard
  <1>14. /\ \A i \in DOMAIN echoes : echoes[i] \in Echo /\ Heard(echoes[i]) /\ ToldBefore(echoes[i])
         /\ stage # "idle" => handling \in Echo /\ Heard(handling) /\ ToldBefore(handling)
    BY EchoesTyped DEF Safe, Reports, EchoesHeard, EchoesAhead
  <1>15. EchoesHeard' /\ EchoesAhead'
    <2>1. ASSUME NEW i \in DOMAIN echoes'
          PROVE  (Heard(echoes[i]) /\ ToldBefore(echoes[i]))'
      <3>1. PICK old \in Echo : old = echoes'[i] /\ Heard(old)' /\ ToldBefore(old)'
        BY <1>10, <1>11, <1>12, <1>13, <1>14
      <3> QED
        BY <3>1 DEF Heard, ToldBefore
    <2>2. ASSUME stage # "idle" PROVE (Heard(handling) /\ ToldBefore(handling))'
      <3>1. PICK old \in Echo : old = handling /\ Heard(old)' /\ ToldBefore(old)'
        BY <2>2, <1>12, <1>14
      <3> QED
        BY <3>1, <1>1 DEF Heard, ToldBefore, loop
    <2> QED
      BY <1>1, <2>1, <2>2 DEF EchoesHeard, EchoesAhead, loop
  <1>16. EchoesInOrder'
    <2>1. ASSUME NEW i \in DOMAIN echoes', NEW j \in DOMAIN echoes', i < j,
                 echoes'[i].send = echoes'[j].send
          PROVE  Rank[echoes'[i].status] <= Rank[echoes'[j].status]
      <3>1. i + d \in DOMAIN echoes /\ echoes'[i] = echoes[i + d] /\ i \in Nat /\ j \in Nat
        BY <1>11, <2>1
      <3>2. CASE j + d \in DOMAIN echoes /\ echoes'[j] = echoes[j + d]
        <4>1. i + d < j + d
          BY <3>1, <2>1
        <4> QED
          BY <3>1, <3>2, <4>1, <2>1 DEF Safe, Reports, EchoesInOrder
      <3>3. CASE echoes'[j] = echo
        BY <3>1, <3>3, <2>1, <1>1, <1>12, <1>14
      <3> QED
        BY <3>2, <3>3, <1>11
    <2>2. ASSUME stage # "idle", NEW i \in DOMAIN echoes', echoes'[i].send = handling.send
          PROVE  Rank[handling.status] <= Rank[echoes'[i].status]
      <3>1. CASE i + d \in DOMAIN echoes /\ echoes'[i] = echoes[i + d]
        BY <3>1, <2>2 DEF Safe, Reports, EchoesInOrder
      <3>2. CASE echoes'[i] = echo
        BY <3>2, <2>2, <1>1, <1>12, <1>14
      <3> QED
        BY <3>1, <3>2, <1>11
    <2> QED
      BY <1>1, <2>1, <2>2 DEF EchoesInOrder, loop
  <1> QED
    BY <1>6, <1>8, <1>9, <1>15, <1>16 DEF Reports

-----------------------------------------------------------------------------
(* The event loop.                                                         *)

\* Nothing is told, echoed or reached, and no new echo is taken in hand.
LEMMA LoopRests ==
    ASSUME Safe, UNCHANGED << told, phone, echoes >>,
           stage' # "idle" => stage # "idle" /\ handling' = handling
    PROVE  Reports'
  BY DEF Safe, Reports, StatusesAttested, ToldInOrder, EchoesHeard, Heard, EchoesInOrder,
         EchoesAhead, ToldBefore

LEMMA DequeueSafe ==
    ASSUME Safe, EchoDequeue
    PROVE  Flow' /\ Registered' /\ Begun' /\ Reports'
  <1>1. /\ UNCHANGED << closed, pending, pc, results, told, phone, released >>
        /\ echoes # << >> /\ echoes' = Tail(echoes) /\ stage = "idle"
        /\ stage' # "idle" => handling' = Head(echoes)
    BY DEF EchoDequeue, Step, session, sending
  <1>2. /\ 1 \in DOMAIN echoes /\ Head(echoes) = echoes[1]
        /\ \A i \in DOMAIN echoes' :
             i \in Nat /\ 1 < i + 1 /\ i + 1 \in DOMAIN echoes /\ echoes'[i] = echoes[i + 1]
    <2>1. echoes \in Seq(Echo)
      BY DEF Safe, Typed, TypeOK
    <2> QED
      BY <1>1, <2>1
  <1>3. Flow' /\ Registered' /\ Begun'
    BY <1>1 DEF Safe, Flow, Registered, Begun
  <1>4. StatusesAttested' /\ ToldInOrder'
    BY <1>1 DEF Safe, Reports, StatusesAttested, ToldInOrder
  <1>5. EchoesHeard'
    BY <1>1, <1>2 DEF Safe, Reports, EchoesHeard, Heard
  <1>6. EchoesInOrder'
    <2>1. \A i, j \in DOMAIN echoes' : i < j => i + 1 < j + 1
      BY <1>2
    <2>2. \A i, j \in DOMAIN echoes' : i < j /\ echoes'[i].send = echoes'[j].send =>
            Rank[echoes'[i].status] <= Rank[echoes'[j].status]
      BY <1>2, <2>1 DEF Safe, Reports, EchoesInOrder
    <2>3. \A i \in DOMAIN echoes' : echoes'[i].send = echoes[1].send =>
            Rank[echoes[1].status] <= Rank[echoes'[i].status]
      BY <1>2 DEF Safe, Reports, EchoesInOrder
    <2> QED
      BY <1>1, <1>2, <2>2, <2>3 DEF EchoesInOrder
  <1>7. EchoesAhead'
    <2>1. \A i \in DOMAIN echoes : \A k \in DOMAIN told[echoes[i].send] :
            \/ told[echoes[i].send][k] = "failed:transport"
            \/ Rank[told[echoes[i].send][k]] <= Rank[echoes[i].status]
      BY DEF Safe, Reports, EchoesAhead, ToldBefore
    <2>2. \A i \in DOMAIN echoes' : ToldBefore(echoes[i])'
      BY <1>1, <1>2, <2>1 DEF ToldBefore
    <2>3. stage' # "idle" => ToldBefore(handling)'
      BY <1>1, <1>2, <2>1 DEF ToldBefore
    <2> QED
      BY <2>2, <2>3 DEF EchoesAhead
  <1> QED
    BY <1>3, <1>4, <1>5, <1>6, <1>7 DEF Reports

\* Entries only ever pass from pending to released.
LEMMA HandleSafe ==
    ASSUME Safe, EchoMap \/ EchoPublish \/ EchoMatch \/ EchoConsume
    PROVE  Flow' /\ Registered' /\ Begun' /\ Reports'
  <1>1. /\ UNCHANGED << closed, pc, results, told, phone, echoes >>
        /\ stage' # "idle" => stage # "idle" /\ handling' = handling
    BY DEF EchoMap, EchoPublish, EchoMatch, EchoConsume, Step, Finish, session, sending
  <1>2. \A u \in Sends : pending[u] # "none" \/ u \in released =>
                        pending'[u] # "none" \/ u \in released'
    BY DEF EchoMap, EchoPublish, EchoMatch, EchoConsume, sending, Safe, Typed, TypeOK
  <1>3. Flow' /\ Registered' /\ Begun'
    BY <1>1, <1>2 DEF Safe, Flow, Registered, Begun
  <1> QED
    BY <1>1, <1>3, LoopRests

LEMMA TellSafe ==
    ASSUME Safe, EchoAttribute \/ EchoSelf
    PROVE  Flow' /\ Registered' /\ Begun' /\ Reports'
  <1>1. /\ UNCHANGED << closed, pending, pc, results, phone, echoes, released >>
        /\ stage # "idle" /\ (stage' # "idle" => handling' = handling)
        /\ Tell(handling.send, handling.status) \/ UNCHANGED told
    BY DEF EchoAttribute, EchoSelf, Step, Finish, session, sending
  <1>2. CASE UNCHANGED told
    <2>1. Flow' /\ Registered' /\ Begun'
      BY <1>1, <1>2 DEF Safe, Flow, Registered, Begun
    <2> QED
      BY <1>1, <1>2, <2>1, LoopRests
  <1>3. CASE Tell(handling.send, handling.status)
    <2> DEFINE t == handling.send
               status == handling.status
    <2>1. /\ t \in Sends /\ status \in Attested /\ status \in Statuses
          /\ status # "failed:transport" /\ Rank[status] \in Nat
          /\ phone[t] # "none" /\ Rank[status] <= Rank[phone[t]]
          /\ ToldBefore(handling)
      BY <1>1, EchoesTyped, Ranks DEF Safe, Statuses, Reports, EchoesHeard, Heard, EchoesAhead
    <2>2. /\ told[t] \in Seq(Statuses)
          /\ \A u \in Sends \ {t} : told'[u] = told[u]
          /\ told'[t] = IF closed THEN told[t] ELSE Append(told[t], status)
      BY <1>3, <2>1, TellTyped DEF Safe, Typed, TypeOK
    <2>3. /\ \A i \in DOMAIN told'[t] :
               /\ i \in Nat
               /\ \/ i \in DOMAIN told[t] /\ told'[t][i] = told[t][i]
                  \/ i \notin DOMAIN told[t] /\ told'[t][i] = status
          /\ \A i, j \in DOMAIN told'[t] : i < j => i \in DOMAIN told[t]
          /\ told'[t] # << >> \/ closed
          /\ closed => told'[t] = told[t]
          /\ told[t] # << >> => Head(told'[t]) = Head(told[t])
      BY <2>2
    <2>4. Flow'
      BY <1>1, <2>1, <2>2 DEF Safe, Flow, Unsent, Untold
    <2>5. Registered'
      BY <1>1 DEF Safe, Registered
    <2>6. Begun'
      BY <1>1, <2>1, <2>2, <2>3 DEF Safe, Begun
    <2>7. StatusesAttested'
      BY <1>1, <2>1, <2>2, <2>3 DEF Safe, Reports, StatusesAttested
    <2>8. ToldInOrder'
      <3>1. ASSUME NEW u \in Sends, NEW i \in DOMAIN told'[u], NEW j \in DOMAIN told'[u], i < j,
                   told'[u][i] # "failed:transport", told'[u][j] # "failed:transport"
            PROVE  Rank[told'[u][i]] <= Rank[told'[u][j]]
        <4>1. CASE u # t
          BY <3>1, <4>1, <2>2 DEF Safe, Reports, ToldInOrder
        <4>2. CASE u = t
          <5>1. i \in DOMAIN told[t] /\ told'[t][i] = told[t][i]
            BY <3>1, <4>2, <2>3
          <5>2. CASE j \in DOMAIN told[t] /\ told'[t][j] = told[t][j]
            BY <3>1, <4>2, <5>1, <5>2 DEF Safe, Reports, ToldInOrder
          <5>3. CASE told'[t][j] = status
            BY <3>1, <4>2, <5>1, <5>3, <2>1 DEF ToldBefore
          <5> QED
            BY <4>2, <5>2, <5>3, <2>3
        <4> QED
          BY <4>1, <4>2
      <3> QED
        BY <3>1 DEF ToldInOrder
    <2>9. EchoesHeard' /\ EchoesInOrder'
      BY <1>1 DEF Safe, Reports, EchoesHeard, Heard, EchoesInOrder
    <2>10. ASSUME NEW echo \in Echo, ToldBefore(echo),
                  echo.send = t => Rank[status] <= Rank[echo.status]
           PROVE  ToldBefore(echo)'
      BY <2>1, <2>2, <2>3, <2>10, EchoesTyped DEF ToldBefore, Safe
    <2>11. EchoesAhead'
      <3>1. \A i \in DOMAIN echoes : ToldBefore(echoes[i])'
        BY <1>1, <2>10, EchoesTyped DEF Safe, Reports, EchoesAhead, EchoesInOrder
      <3> QED
        BY <1>1, <2>1, <2>10, <3>1, EchoesTyped DEF Safe, EchoesAhead, ToldBefore
    <2> QED
      BY <2>4, <2>5, <2>6, <2>7, <2>8, <2>9, <2>11 DEF Reports
  <1> QED
    BY <1>1, <1>2, <1>3

-----------------------------------------------------------------------------
(* Theorems.                                                               *)

LEMMA SafeStep == Safe /\ [Next]_vars => Safe'
  <1> SUFFICES ASSUME Safe, [Next]_vars PROVE Flow' /\ Registered' /\ Begun' /\ Reports'
    BY TypedStep DEF Safe
  <1>1. CASE UNCHANGED vars
    <2>1. Flow' /\ Registered' /\ Begun'
      BY <1>1 DEF Safe, Flow, Registered, Begun, vars, session, sending
    <2> QED
      BY <1>1, <2>1, ReportsRest DEF vars
  <1>2. CASE LearnSelf \/ Retire
    <2>1. /\ UNCHANGED << sending, told, phone, echoes, loop, released >>
          /\ closed' = closed \/ closed'
      BY <1>2 DEF LearnSelf, Retire, session
    <2>2. Flow' /\ Registered' /\ Begun'
      BY <2>1 DEF Safe, Flow, Registered, Begun, sending
    <2> QED
      BY <2>1, <2>2, ReportsRest
  <1>3. CASE \E t \in Sends : SendBegin(t) \/ SendStep(t)
    BY <1>3, EarlySafe, RegisterSafe, AcceptSafe, CallSafe, AnswerSafe, ReportSafe
       DEF SendStep, Early
  <1>4. CASE \E t \in Sends : PhoneEchoes(t)
    BY <1>4, PhoneSafe
  <1>5. CASE \E t \in Sends : Age(t)
    <2>1. PICK t \in Sends : Age(t)
      BY <1>5
    <2>2. /\ UNCHANGED << closed, pc, results, told, phone, echoes, loop, released >>
          /\ \A u \in Sends : pending[u] # "none" => pending'[u] # "none"
      BY <2>1 DEF Age, session, Safe, Typed, TypeOK
    <2>3. Flow' /\ Registered' /\ Begun'
      BY <2>2 DEF Safe, Flow, Registered, Begun
    <2> QED
      BY <2>2, <2>3, ReportsRest
  <1>6. CASE EchoStep
    BY <1>6, DequeueSafe, HandleSafe, TellSafe DEF EchoStep
  <1> QED
    BY <1>1, <1>2, <1>3, <1>4, <1>5, <1>6 DEF Next

LEMMA SafeAlways == Spec => []Safe
  BY SafeInit, SafeStep, PTL DEF Spec

\* A request gets one result at most, and one that was refused is not sent
\* all the same: every early return of SendText and SendMedia is final.
THEOREM RequestsAnsweredOnce == Spec => []AnsweredOnce
  <1>1. Len(<< >>) <= 1 /\ Len(<< "ok" >>) <= 1 /\ Len(<< "refused" >>) <= 1
    OBVIOUS
  <1>2. ASSUME Safe, NEW t \in Sends
        PROVE  /\ Len(results[t]) <= 1
               /\ results[t] = << "refused" >> => phone[t] = "none" /\ told[t] = << >>
    <2>1. results[t] = << >> \/ results[t] = << "ok" >> \/ results[t] = << "refused" >>
      BY <1>2 DEF Safe, Flow
    <2>2. Len(results[t]) <= 1
      BY <1>1, <2>1
    <2> QED
      BY <1>2, <2>2 DEF Safe, Flow
  <1>3. Safe => AnsweredOnce
    BY <1>2 DEF AnsweredOnce
  <1> QED
    BY <1>3, SafeAlways, PTL

\* The daemon first hears that a send is accepted, and what it hears after
\* that does not go back, however the worker (send.go) and the event loop
\* (checkPending, handleMessage) interleave.
THEOREM StatusesGoForward == Spec => []StatusesAdvance
  <1>1. Safe => StatusesAdvance
    BY DEF Safe, Begun, Reports, ToldInOrder, StatusesAdvance
  <1> QED
    BY <1>1, SafeAlways, PTL

\* Beyond acceptance only what the phone has attested is reported
\* (docs/user-guide.md:102).
THEOREM NoStatusInvented == Spec => []StatusesAttested
  <1>1. Safe => StatusesAttested
    BY DEF Safe, Reports
  <1> QED
    BY <1>1, SafeAlways, PTL

\* An echo that comes before the worker has heard of the call's success finds
\* the entry all the same: it is made before the call (send.go:307, 422).
THEOREM EarlyEchoesMatch == Spec => []EchoFindsItsSend
  <1>1. Safe => EchoFindsItsSend
    <2> SUFFICES ASSUME Safe, stage = "consume"
                 PROVE  pending[handling.send] # "none" \/ handling.send \in released
      BY DEF EchoFindsItsSend
    <2>1. handling.send \in Sends /\ phone[handling.send] # "none"
      BY EchoesTyped DEF Safe, Reports, EchoesHeard, Heard
    <2> QED
      BY <2>1 DEF Safe, Registered
  <1> QED
    BY <1>1, SafeAlways, PTL
=============================================================================
