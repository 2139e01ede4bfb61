---------------------------- MODULE SendPipeline ----------------------------
(***************************************************************************)
(* Sends and their echoes (src/adapter/send.go SendText, SendMedia,        *)
(* sendToRelay; src/adapter/sync.go handleMessage, checkPending).          *)
(*                                                                         *)
(* A worker runs one send: it registers a correlation entry in s.pending,  *)
(* tells the daemon the send is accepted, and calls the relay.  Meanwhile  *)
(* the phone works on the message and echoes each status it reaches; the   *)
(* event loop handles the echoes one by one, matches the first one to the  *)
(* entry by transaction id, and reports statuses.  Transaction ids are     *)
(* unique, so a send names its own.                                        *)
(***************************************************************************)
EXTENDS Naturals, Sequences

CONSTANTS
    Texts, Medias,   \* send_text and send_media requests
    QueueSize,       \* eventQueue: echoes that wait for the event loop
    MaxRetries,      \* len(sendRetryBackoff)
    MaxRetires,      \* bound on logins and logouts of a behaviour
    Echoed,          \* the statuses the phone echoes in this instance
    None             \* no echo is being handled

Sends == Texts \cup Medias

\* What the phone reaches, in the order it can reach it; "queued" is not
\* echoed, "failed" ends a message (MessageStatusType, mapped by mapStatus).
Rank == [none |-> 0, queued |-> 1, accepted |-> 2, sent |-> 3, delivered |-> 4,
         failed |-> 4, displayed |-> 5]
Progress == DOMAIN Rank
Attested == Progress \ {"none", "queued"}

ASSUME SendsAssumption == Texts \cap Medias = {} /\ None \notin Sends
ASSUME SizeAssumption ==
    QueueSize \in Nat \ {0} /\ MaxRetries \in Nat /\ MaxRetires \in Nat
ASSUME EchoedAssumption == Echoed \subseteq Attested

VARIABLES
    lifecycle, client, closed,  \* Session: lifecycle, client # nil, closed
    pending,        \* s.pending: each send's correlation entry
    pc,             \* where each send is
    tries,          \* relay calls a send has made
    results,        \* the command_result of each request
    told,           \* the statuses the daemon was told of each send
    phone,          \* how far the phone got with each message
    echoes,         \* the relay event queue
    handling,       \* the echo the event loop handles
    stage,          \* where the event loop is
    selfKnown,      \* the sender id of own messages is in s.selfIDs
    released        \* history: sends whose correlation entry was removed

session == << lifecycle, client, closed >>
sending == << pending, pc, tries, results >>
loop == << handling, stage >>
vars == << session, sending, told, phone, echoes, loop, selfKnown, released >>

Statuses == Attested \cup {"failed:transport"}
Echo == [send : Sends, status : Attested, content : BOOLEAN, lifecycle : Nat]

TypeOK ==
    /\ lifecycle \in Nat /\ client \in BOOLEAN /\ closed \in BOOLEAN
    /\ pending \in [Sends -> {"none", "fresh", "expired"}]
    /\ pc \in [Sends -> {"idle", "meta", "client", "upload", "register", "result",
                         "accept", "relay", "answer", "forget", "report", "done"}]
    /\ tries \in [Sends -> Nat]
    /\ results \in [Sends -> Seq({"ok", "refused"})]
    /\ told \in [Sends -> Seq(Statuses)]
    /\ phone \in [Sends -> Progress]
    /\ echoes \in Seq(Echo) /\ Len(echoes) <= QueueSize
    /\ handling \in Echo \cup {None}
    /\ stage \in {"idle", "map", "publish", "match", "consume", "attribute", "self"}
    /\ selfKnown \in BOOLEAN
    /\ released \subseteq Sends

-----------------------------------------------------------------------------
Goto(t, here, there) == pc[t] = here /\ pc' = [pc EXCEPT ![t] = there]

\* fire: nothing leaves a closed session.
Result(t, answer) ==
    results' = [results EXCEPT ![t] = IF closed THEN @ ELSE Append(@, answer)]
Tell(t, status) == told' = [told EXCEPT ![t] = IF closed THEN @ ELSE Append(@, status)]

\* failure, and return.
Refuse(t, here) == Goto(t, here, "done") /\ Result(t, "refused")

Current == handling.lifecycle = lifecycle

-----------------------------------------------------------------------------
(* The worker: SendText (send.go:262-327), SendMedia (send.go:368-437).    *)

\* Bad text, or a staged file that cannot be read.
SendBegin(t) ==
    /\ \/ Goto(t, "idle", "meta") /\ UNCHANGED results
       \/ Refuse(t, "idle")
    /\ UNCHANGED << session, pending, tries, told, phone, echoes, loop, selfKnown, released >>

\* threadMeta: from the cache, or by a call to the phone that may fail.
SendMeta(t) ==
    /\ \/ Goto(t, "meta", "client") /\ UNCHANGED results
       \/ Refuse(t, "meta")
    /\ UNCHANGED << session, pending, tries, told, phone, echoes, loop, selfKnown, released >>

\* Faulty variant: without a client the worker returns and says nothing.
SendClientMute(t) ==
    /\ Goto(t, "client", IF ~client THEN "done" ELSE IF t \in Medias THEN "upload" ELSE "register")
    /\ UNCHANGED << session, pending, tries, results, told, phone, echoes, loop, selfKnown,
                    released >>

SendClient(t) ==
    /\ IF client
         THEN /\ Goto(t, "client", IF t \in Medias THEN "upload" ELSE "register")
              /\ UNCHANGED results
         ELSE Refuse(t, "client")
    /\ UNCHANGED << session, pending, tries, told, phone, echoes, loop, selfKnown, released >>

\* Faulty variant: the failed upload is reported, and the send goes on.
SendUploadOn(t) ==
    /\ Goto(t, "upload", "register")
    /\ UNCHANGED results \/ Result(t, "refused")
    /\ UNCHANGED << session, pending, tries, told, phone, echoes, loop, selfKnown, released >>

\* UploadMedia, on the client captured before.
SendUpload(t) ==
    /\ \/ Goto(t, "upload", "register") /\ UNCHANGED results
       \/ Refuse(t, "upload")
    /\ UNCHANGED << session, pending, tries, told, phone, echoes, loop, selfKnown, released >>

\* sweepPending, then the entry of this send; one critical section.
Expired == {u \in Sends : pending[u] = "expired"}

\* Faulty variant: old entries are swept, the new one is not made.
SendRegisterNot(t) ==
    /\ Goto(t, "register", "result")
    /\ pending' = [u \in Sends |-> IF u \in Expired THEN "none" ELSE pending[u]]
    /\ released' = released \cup Expired
    /\ UNCHANGED << session, tries, results, told, phone, echoes, loop, selfKnown >>

SendRegister(t) ==
    /\ Goto(t, "register", "result")
    /\ pending' = [u \in Sends |-> IF u = t THEN "fresh"
                                   ELSE IF u \in Expired THEN "none" ELSE pending[u]]
    /\ released' = released \cup Expired
    /\ UNCHANGED << session, tries, results, told, phone, echoes, loop, selfKnown >>

SendResult(t) ==
    /\ Goto(t, "result", "accept")
    /\ Result(t, "ok")
    /\ UNCHANGED << session, pending, tries, told, phone, echoes, loop, selfKnown, released >>

\* Faulty variant: the result alone has to do.
SendAcceptMute(t) ==
    /\ Goto(t, "accept", "relay")
    /\ UNCHANGED << session, pending, tries, results, told, phone, echoes, loop, selfKnown,
                    released >>

SendAccept(t) ==
    /\ Goto(t, "accept", "relay")
    /\ Tell(t, "accepted")
    /\ UNCHANGED << session, pending, tries, results, phone, echoes, loop, selfKnown, released >>

\* SendMessage: the phone takes the request, or it does not.
RelayCall(t) ==
    /\ Goto(t, "relay", "answer")
    /\ tries' = [tries EXCEPT ![t] = @ + 1]
    /\ phone' \in {phone, [phone EXCEPT ![t] = "queued"]}
    /\ UNCHANGED << session, pending, results, told, echoes, loop, selfKnown, released >>

\* Faulty variant: success of the call is reported as a sent message.
RelayAnswerBold(t) ==
    /\ \/ Goto(t, "answer", "done") /\ Tell(t, "sent") /\ phone[t] # "none"
       \/ Goto(t, "answer", "forget") /\ UNCHANGED told
    /\ UNCHANGED << session, pending, tries, results, phone, echoes, loop, selfKnown, released >>

\* What the call and sendToRelay's retries return; the count of attempts ends
\* with sendToRelay.
RelayAnswer(t) ==
    /\ \/ Goto(t, "answer", "done") /\ phone[t] # "none"      \* SUCCESS
       \/ /\ Goto(t, "answer", "relay") /\ phone[t] = "none"  \* FAILURE_2, FAILURE_3
          /\ tries[t] <= MaxRetries
       \/ Goto(t, "answer", "forget")     \* another failure or error, or retries used up
       \/ Goto(t, "answer", "done")       \* ErrPhoneNotResponding keeps the entry
    /\ tries' = IF pc'[t] = "relay" THEN tries ELSE [tries EXCEPT ![t] = 0]
    /\ UNCHANGED << session, pending, results, told, phone, echoes, loop, selfKnown,
                    released >>

SendForget(t) ==
    /\ Goto(t, "forget", "report")
    /\ pending' = [pending EXCEPT ![t] = "none"]
    /\ released' = released \cup {t}
    /\ UNCHANGED << session, tries, results, told, phone, echoes, loop, selfKnown >>

\* relayFailure, whatever the echoes said meanwhile.
SendReport(t) ==
    /\ Goto(t, "report", "done")
    /\ Tell(t, "failed:transport")
    /\ UNCHANGED << session, pending, tries, results, phone, echoes, loop, selfKnown, released >>

-----------------------------------------------------------------------------
(* The phone, and the relay event handler (session.go:236-256).            *)

\* Faulty variant: the queue takes one event too many.
PhoneEchoesPast(t) ==
    \E status \in Echoed, content \in BOOLEAN :
        /\ client /\ ~closed /\ phone[t] \notin {"none", "failed"}
        /\ Rank[phone[t]] < Rank[status]
        /\ phone' = [phone EXCEPT ![t] = status]
        /\ LET kept == IF Len(echoes) <= QueueSize THEN echoes ELSE Tail(echoes)
               echo == [send |-> t, status |-> status, content |-> content,
                        lifecycle |-> lifecycle]
           IN  echoes' = Append(kept, echo)
        /\ UNCHANGED << session, sending, told, loop, selfKnown, released >>

\* The phone gets further with a message and echoes it, with the whole
\* message or with its status only; a full queue drops its oldest event.
PhoneEchoes(t) ==
    \E status \in Echoed, content \in BOOLEAN :
        /\ client /\ ~closed /\ phone[t] \notin {"none", "failed"}
        /\ Rank[phone[t]] < Rank[status]
        /\ phone' = [phone EXCEPT ![t] = status]
        /\ LET kept == IF Len(echoes) < QueueSize THEN echoes ELSE Tail(echoes)
               echo == [send |-> t, status |-> status, content |-> content,
                        lifecycle |-> lifecycle]
           IN  echoes' = Append(kept, echo)
        /\ UNCHANGED << session, sending, told, loop, selfKnown, released >>

\* pendingTTL passes; it is longer than any relay call.
Age(t) ==
    /\ pc[t] = "done" /\ pending[t] = "fresh"
    /\ pending' = [pending EXCEPT ![t] = "expired"]
    /\ UNCHANGED << session, pc, tries, results, told, phone, echoes, loop, selfKnown, released >>

-----------------------------------------------------------------------------
(* The event loop: handleMessage (sync.go:528-568), checkPending           *)
(* (sync.go:573-602).                                                      *)

Step(here, there) == stage = here /\ stage' = there

\* Back to the queue, with nothing of this echo left.
Finish == stage' = "idle" /\ handling' = None

EchoDequeue ==
    /\ ~closed /\ echoes # << >>
    /\ echoes' = Tail(echoes)
    /\ IF Head(echoes).lifecycle = lifecycle
         THEN Step("idle", "map") /\ handling' = Head(echoes)
         ELSE stage = "idle" /\ UNCHANGED << stage, handling >>
    /\ UNCHANGED << session, sending, told, phone, selfKnown, released >>

\* mapMessage: nothing for a retired session or an echo without content.
EchoMap ==
    /\ stage = "map"
    /\ IF Current /\ handling.content
         THEN Step("map", "publish") /\ UNCHANGED handling
         ELSE Finish
    /\ UNCHANGED << session, sending, told, phone, echoes, selfKnown, released >>

\* The message itself goes out, unless the session was retired meanwhile.
EchoPublish ==
    /\ stage = "publish"
    /\ IF Current THEN Step("publish", "match") /\ UNCHANGED handling ELSE Finish
    /\ UNCHANGED << session, sending, told, phone, echoes, selfKnown, released >>

\* checkPending looks at the lifecycle first, and at the entry later.
EchoMatch ==
    /\ Step("match", IF Current THEN "consume" ELSE "self")
    /\ UNCHANGED << session, sending, told, phone, echoes, handling, selfKnown, released >>

\* The entry is removed; only one within its time is a match.
EchoConsume ==
    LET t == handling.send IN
    /\ Step("consume", IF pending[t] = "fresh" THEN "attribute" ELSE "self")
    /\ pending' = [pending EXCEPT ![t] = "none"]
    /\ released' = IF pending[t] = "none" THEN released ELSE released \cup {t}
    /\ UNCHANGED << session, pc, tries, results, told, phone, echoes, handling, selfKnown >>

\* The status of a matched echo, whoever its sender is.
EchoAttribute ==
    /\ Step("attribute", "self")
    /\ Tell(handling.send, handling.status)
    /\ UNCHANGED << session, sending, phone, echoes, handling, selfKnown, released >>

\* The status of an echo whose sender is known to be this account.
EchoSelf ==
    /\ stage = "self"
    /\ IF selfKnown /\ Current THEN Tell(handling.send, handling.status) ELSE UNCHANGED told
    /\ Finish
    /\ UNCHANGED << session, sending, phone, echoes, selfKnown, released >>

\* A Settings event teaches the sender ids of the account.
LearnSelf ==
    /\ stage = "idle" /\ ~selfKnown
    /\ selfKnown' = TRUE
    /\ UNCHANGED << session, sending, told, phone, echoes, loop, released >>

-----------------------------------------------------------------------------
\* A login replaces the client, a logout takes it away; either retires the
\* lifecycle, as does Close.
Retire ==
    /\ lifecycle < MaxRetires /\ ~closed
    /\ lifecycle' = lifecycle + 1
    /\ \/ client' \in BOOLEAN /\ UNCHANGED closed
       \/ closed' = TRUE /\ UNCHANGED client
    /\ UNCHANGED << sending, told, phone, echoes, loop, selfKnown, released >>

\* A session that has logged in or restored, and has learnt nothing yet.
Init ==
    /\ lifecycle = 0 /\ closed = FALSE /\ client = TRUE
    /\ pending = [t \in Sends |-> "none"]
    /\ pc = [t \in Sends |-> "idle"]
    /\ tries = [t \in Sends |-> 0]
    /\ results = [t \in Sends |-> << >>]
    /\ told = [t \in Sends |-> << >>]
    /\ phone = [t \in Sends |-> "none"]
    /\ echoes = << >> /\ handling = None /\ stage = "idle"
    /\ selfKnown = FALSE
    /\ released = {}

SendStep(t) ==
    \/ SendMeta(t) \/ SendClient(t) \/ SendUpload(t) \/ SendRegister(t) \/ SendResult(t)
    \/ SendAccept(t) \/ RelayCall(t) \/ RelayAnswer(t) \/ SendForget(t) \/ SendReport(t)
EchoStep == \/ EchoDequeue \/ EchoMap \/ EchoPublish \/ EchoMatch \/ EchoConsume
            \/ EchoAttribute \/ EchoSelf

Next ==
    \/ \E t \in Sends : SendBegin(t) \/ SendStep(t) \/ PhoneEchoes(t) \/ Age(t)
    \/ EchoStep \/ LearnSelf \/ Retire

Spec == Init /\ [][Next]_vars

\* Workers and the event loop run, and every relay call ends: each has a
\* context with a deadline.  The phone need not echo anything.
Fairness == (\A t \in Sends : WF_vars(SendStep(t))) /\ WF_vars(EchoStep)

FairSpec == Spec /\ Fairness

-----------------------------------------------------------------------------
(* Properties.                                                             *)

\* A request is answered at most once, and one that was refused is not sent
\* all the same: every early return of SendText and SendMedia is final.
AnsweredOnce ==
    \A t \in Sends :
        /\ Len(results[t]) <= 1
        /\ results[t] = << "refused" >> => phone[t] = "none" /\ told[t] = << >>

\* The first thing the daemon is told of a send is that it was accepted,
\* and what the echoes say after that never goes back, though the worker
\* and the event loop report on their own.
StatusesAdvance ==
    \A t \in Sends :
        LET reported == {i \in DOMAIN told[t] : told[t][i] # "failed:transport"} IN
        /\ told[t] # << >> => Head(told[t]) = "accepted"
        /\ \A i, j \in reported : i < j => Rank[told[t][i]] <= Rank[told[t][j]]

\* No status is invented (docs/user-guide.md:102): beyond acceptance, the
\* daemon is told only what the phone has attested.
StatusesAttested ==
    \A t \in Sends : \A i \in DOMAIN told[t] :
        told[t][i] \in Attested \ {"accepted"} => Rank[told[t][i]] <= Rank[phone[t]]

\* However early an echo is, it finds the entry of its send, unless an
\* earlier echo, the failure of the send or its age removed it.
EchoFindsItsSend ==
    stage = "consume" => pending[handling.send] # "none" \/ handling.send \in released

\* Requests in the works whose result is still owed; a closed session owes none.
Owed == {t \in Sends : pc[t] # "idle" /\ results[t] = << >> /\ ~closed}

\* Every request that is taken up gets its result, unless the session is
\* closed first: no path through the two senders ends without one.
RequestsAnswered == Owed # {} ~> Owed = {}
=============================================================================
