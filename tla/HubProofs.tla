----------------------------- MODULE HubProofs -----------------------------
(***************************************************************************)
(* Theorems about Hub and the handlers of Requests, for any number of      *)
(* commands, workers, sessions and reactions.                              *)
(***************************************************************************)
EXTENDS Hub, TLAPS

\* A React on its way to the relay has something to ask.
Acts == \A c \in Commands :
    pc[c] = "act" => plan[c] # "none" /\ asked[c].emoji \in Emojis

Typed == TypeOK /\ Acts

-----------------------------------------------------------------------------
(* Types.                                                                  *)

LEMMA TypedInit == Init => Typed
  <1> SUFFICES ASSUME Init PROVE Typed
    OBVIOUS
  <1>1. NotAsked \in [emoji : Emojis \cup {NoEmoji}, add : BOOLEAN]
    BY DEF NotAsked
  <1>2. (CHOOSE s \in Sessions : TRUE) \in Sessions
    BY RequestsAssumption
  <1>3. RequestsTypeOK
    BY <1>1, <1>2 DEF Init, RequestsInit, RequestsTypeOK, Places, Kinds
  <1>4. Acts
    BY DEF Init, RequestsInit, Acts
  <1> QED
    BY <1>3, <1>4 DEF Init, Typed, TypeOK, Free

LEMMA GotoTyped ==
    ASSUME Typed, NEW c \in Commands, NEW here, NEW there \in Places, Goto(c, here, there)
    PROVE  /\ pc' \in [Commands -> Places]
           /\ \A d \in Commands : pc'[d] = IF d = c THEN there ELSE pc[d]
  BY DEF Typed, TypeOK, RequestsTypeOK, Goto

LEMMA SettleTyped ==
    ASSUME Typed, NEW c \in Commands, NEW here, NEW what \in Answers \cup {"silent"},
           Settle(c, here, what)
    PROVE  /\ pc' \in [Commands -> Places] /\ outcome' \in [Commands -> Answers \cup {"silent"}]
           /\ \A d \in Commands : pc'[d] = IF d = c THEN "reply" ELSE pc[d]
  BY DEF Typed, TypeOK, RequestsTypeOK, Settle, Goto, Places

LEMMA FireTyped ==
    ASSUME Typed, NEW c \in Commands, NEW what, Fire(c, what)
    PROVE  answers' \in [Commands -> Nat]
  BY DEF Typed, TypeOK, RequestsTypeOK, Fire

\* The loop reads a command, or is done with it.
LEMMA LoopTyped ==
    ASSUME Typed, NEW c \in Commands, Read(c) \/ Spawn(c) \/ Refuse(c) \/ Drop(c)
    PROVE  Typed'
  <1>1. CASE Read(c)
    <2>1. /\ mapped' \in Sessions /\ born' \in Sessions /\ mapped' <= born'
          /\ loop' \in [doing : Commands, sess : Sessions]
      BY <1>1, HubAssumption DEF Read, Lookup, Typed, TypeOK
    <2>2. asked' \in [Commands -> [emoji : Emojis \cup {NoEmoji}, add : BOOLEAN]]
      BY <1>1 DEF Read, Typed, TypeOK, RequestsTypeOK
    <2>3. on' \in [Commands -> Sessions] /\ kind' \in [Commands -> Kinds \cup {"none"}]
      BY <1>1, <2>1 DEF Read, Typed, TypeOK, RequestsTypeOK
    <2>4. Acts'
      BY <1>1, <2>2 DEF Read, Typed, TypeOK, RequestsTypeOK, Acts
    <2> QED
      BY <1>1, <2>1, <2>2, <2>3, <2>4 DEF Read, session, Typed, TypeOK, RequestsTypeOK
  <1>2. CASE Spawn(c)
    <2>1. answers' \in [Commands -> Nat]
      BY <1>2, FireTyped DEF Spawn, Typed, TypeOK, RequestsTypeOK
    <2>2. pc' \in [Commands -> Places] /\ Acts'
      BY <1>2 DEF Spawn, Places, Typed, TypeOK, RequestsTypeOK, Acts
    <2>3. loop' \in [doing : {Free}, sess : {0}]
      BY <1>2 DEF Spawn, Rested
    <2> QED
      BY <1>2, <2>1, <2>2, <2>3 DEF Spawn, session, Typed, TypeOK, RequestsTypeOK
  <1>3. CASE Refuse(c)
    BY <1>3, FireTyped DEF Refuse, Rested, session, Free, Places, Typed, TypeOK,
                           RequestsTypeOK, Acts
  <1>4. CASE Drop(c)
    BY <1>4, GotoTyped DEF Drop, Places, session, hubVars, Typed, TypeOK, RequestsTypeOK, Acts
  <1> QED
    BY <1>1, <1>2, <1>3, <1>4

LEMMA HelloByeTyped ==
    ASSUME Typed, HelloLookup \/ HelloRestore \/ ByeTake \/ ByeClose
    PROVE  Typed'
  <1>1. CASE HelloLookup
    BY <1>1, HubAssumption
    DEF HelloLookup, Lookup, requestVars, session, Typed, TypeOK, RequestsTypeOK, Acts
  <1>2. CASE HelloRestore
    BY <1>2 DEF HelloRestore, Rested, Free, Typed, TypeOK, RequestsTypeOK, Acts
  <1>3. CASE ByeTake
    BY <1>3 DEF ByeTake, requestVars, session, Typed, TypeOK, RequestsTypeOK, Acts
  <1>4. CASE ByeClose
    <2>1. closed' \in [Sessions -> BOOLEAN]
      BY <1>4, Zenon DEF ByeClose
    <2>2. pc' \in [Commands -> Places] /\ Acts'
      BY <1>4 DEF ByeClose, Places, Typed, TypeOK, RequestsTypeOK, Acts
    <2> QED
      BY <1>4, <2>1, <2>2 DEF ByeClose, Typed, TypeOK, RequestsTypeOK
  <1> QED
    BY <1>1, <1>2, <1>3, <1>4

LEMMA LoginTyped ==
    ASSUME Typed, NEW c \in Commands, Login(c) \/ LogoutRevoke(c) \/ LogoutDelete(c)
    PROVE  Typed'
  <1>1. CASE Login(c)
    <2>1. PICK what \in Answers : Settle(c, "begin", what)
      BY <1>1 DEF Login, Answers
    <2>2. client' \in [Sessions -> BOOLEAN]
      BY <1>1 DEF Login, Typed, TypeOK, RequestsTypeOK
    <2>3. pairing' \subseteq Sessions
      BY <1>1 DEF Login, Typed, TypeOK, RequestsTypeOK
    <2> QED
      BY <1>1, <2>1, <2>2, <2>3, SettleTyped DEF Login, Typed, TypeOK, RequestsTypeOK, Acts
  <1>2. CASE LogoutRevoke(c)
    BY <1>2, SettleTyped, GotoTyped
    DEF LogoutRevoke, Places, Answers, session, Typed, TypeOK, RequestsTypeOK, Acts
  <1>3. CASE LogoutDelete(c)
    <2>1. answers' \in [Commands -> Nat]
      BY <1>3, FireTyped DEF LogoutDelete, Typed, TypeOK, RequestsTypeOK
    <2>2. /\ pc' \in [Commands -> Places] /\ outcome' \in [Commands -> Answers \cup {"silent"}]
          /\ \A d \in Commands : pc'[d] # "act" \/ pc'[d] = pc[d]
      BY <1>3, SettleTyped, GotoTyped
      DEF LogoutDelete, Places, Answers, Typed, TypeOK, RequestsTypeOK
    <2>3. client' \in [Sessions -> BOOLEAN]
      BY <1>3 DEF LogoutDelete, Typed, TypeOK, RequestsTypeOK
    <2>4. stored' \in BOOLEAN
      BY <1>3 DEF LogoutDelete, Typed, TypeOK
    <2>5. tornDown' \subseteq Sessions /\ pairing' \subseteq Sessions
      BY <1>3 DEF LogoutDelete, Typed, TypeOK, RequestsTypeOK
    <2> QED
      BY <1>3, <2>1, <2>2, <2>3, <2>4, <2>5 DEF LogoutDelete, Typed, TypeOK, RequestsTypeOK, Acts
  <1> QED
    BY <1>1, <1>2, <1>3

LEMMA ForgetTyped ==
    ASSUME Typed, NEW c \in Commands, ForgetTake(c) \/ ForgetClose(c) \/ SyncEnds(c)
    PROVE  Typed'
  <1>1. CASE ForgetTake(c)
    <2>1. 0 <= born
      BY HubAssumption DEF Typed, TypeOK
    <2> QED
      BY <1>1, <2>1, GotoTyped
      DEF ForgetTake, Places, session, Typed, TypeOK, RequestsTypeOK, Acts
  <1>2. CASE ForgetClose(c)
    <2>1. closed' \in [Sessions -> BOOLEAN]
      BY <1>2, Zenon DEF ForgetClose, Close
    <2> QED
      BY <1>2, <2>1, GotoTyped
      DEF ForgetClose, Close, Places, Typed, TypeOK, RequestsTypeOK, Acts
  <1>3. CASE SyncEnds(c)
    BY <1>3, GotoTyped
    DEF SyncEnds, Places, session, hubVars, Typed, TypeOK, RequestsTypeOK, Acts
  <1> QED
    BY <1>1, <1>2, <1>3

LEMMA ConfirmsTyped ==
    ASSUME Typed, NEW s \in Sessions, PhoneConfirms(s)
    PROVE  Typed'
  BY DEF PhoneConfirms, requestVars, session, Typed, TypeOK, RequestsTypeOK, Acts

\* What a React asks for concerns an emoji it has.
LEMMA AppliedTyped ==
    ASSUME Typed, NEW c \in Commands, pc[c] = "act"
    PROVE  Applied(c) \subseteq Emojis
  BY DEF Applied, Typed, TypeOK, RequestsTypeOK, Acts

LEMMA ReactTyped ==
    ASSUME Typed, NEW c \in Commands, UNCHANGED hubVars, ReactRead(c) \/ ReactSend(c)
    PROVE  Typed'
  <1>1. CASE ReactRead(c)
    <2>1. Decide(c) \in {"none", "add", "switch", "remove"}
      BY DEF Decide
    <2>2. pc' \in [Commands -> Places] /\ outcome' \in [Commands -> Answers \cup {"silent"}]
      BY <1>1, SettleTyped, GotoTyped
      DEF ReactRead, Places, Answers, Typed, TypeOK, RequestsTypeOK
    <2>4. /\ plan' \in [Commands -> {"none", "add", "switch", "remove"}]
          /\ UNCHANGED touched
      BY <1>1, <2>1 DEF ReactRead, Typed, TypeOK, RequestsTypeOK
    <2>3. Acts'
      BY <1>1, <2>1, SettleTyped, GotoTyped
      DEF ReactRead, Places, Answers, Typed, TypeOK, RequestsTypeOK, Acts
    <2> QED
      BY <1>1, <2>2, <2>3, <2>4 DEF ReactRead, session, hubVars, Typed, TypeOK, RequestsTypeOK
  <1>2. CASE ReactSend(c)
    <2>1. PICK what \in Answers : Settle(c, "act", what)
      BY <1>2 DEF ReactSend, Answers
    <2>2. roster' \subseteq Emojis
      BY <1>2, AppliedTyped DEF ReactSend, Typed, TypeOK, RequestsTypeOK
    <2>3. touched' \in [Commands -> SUBSET Emojis]
      <3>1. Touch(c) \/ UNCHANGED touched
        BY <1>2 DEF ReactSend
      <3>2. touched \in [Commands -> SUBSET Emojis] /\ roster \subseteq Emojis
        BY DEF Typed, TypeOK, RequestsTypeOK
      <3> QED
        BY <2>2, <3>1, <3>2 DEF Touch
    <2> QED
      BY <1>2, <2>1, <2>2, <2>3, SettleTyped
      DEF ReactSend, session, hubVars, Typed, TypeOK, RequestsTypeOK, Acts
  <1> QED
    BY <1>1, <1>2

LEMMA CallTyped ==
    ASSUME Typed, NEW c \in Commands, UNCHANGED hubVars,
           \/ Reply(c) \/ Show(c) \/ DeleteCall(c) \/ OpenCall(c) \/ OpenCreate(c)
           \/ ReadFind(c) \/ ReadMark(c) \/ TypingBegin(c) \/ TypingPing(c) \/ OtherEnds(c)
    PROVE  Typed'
  <1>1. CASE Reply(c)
    <2>1. answers' \in [Commands -> Nat]
      BY <1>1, FireTyped DEF Reply
    <2>2. PICK there \in {"show", "done"} : Goto(c, "reply", there)
      BY <1>1 DEF Reply
    <2>3. /\ pc' \in [Commands -> Places]
          /\ \A d \in Commands : pc'[d] = IF d = c THEN there ELSE pc[d]
      BY <2>2, GotoTyped DEF Places
    <2>4. /\ typingActive' \in [Sessions -> BOOLEAN]
          /\ outcome' \in [Commands -> Answers \cup {"silent"}]
          /\ plan' \in [Commands -> {"none", "add", "switch", "remove"}]
          /\ asked' \in [Commands -> [emoji : Emojis \cup {NoEmoji}, add : BOOLEAN]]
          /\ touched' \in [Commands -> SUBSET Emojis]
      BY <1>1 DEF Reply, NotAsked, Typed, TypeOK, RequestsTypeOK
    <2>5. Acts'
      BY <1>1, <2>3 DEF Reply, Typed, TypeOK, RequestsTypeOK, Acts
    <2> QED
      BY <1>1, <2>1, <2>3, <2>4, <2>5 DEF Reply, session, hubVars, Typed, TypeOK,
                                          RequestsTypeOK
  <1>2. CASE ~Reply(c)
    <2>1. \/ \E here : \E what \in Answers \cup {"silent"} : Settle(c, here, what)
          \/ /\ \E here : \E there \in {"done", "create", "mark", "ping"} : Goto(c, here, there)
             /\ UNCHANGED outcome
      BY <1>2 DEF Show, DeleteCall, OpenCall, OpenCreate, ReadFind, ReadMark, TypingBegin,
                  TypingPing, OtherEnds, Answers
    <2>2. /\ pc' \in [Commands -> Places] /\ outcome' \in [Commands -> Answers \cup {"silent"}]
          /\ \A d \in Commands : pc'[d] # "act" \/ pc'[d] = pc[d]
      BY <2>1, SettleTyped, GotoTyped DEF Places, Typed, TypeOK, RequestsTypeOK
    <2>3. /\ UNCHANGED << session, roster, kind, on, asked, plan, answers, touched >>
          /\ typingActive' \in [Sessions -> BOOLEAN]
      BY <1>2 DEF Show, DeleteCall, OpenCall, OpenCreate, ReadFind, ReadMark, TypingBegin,
                  TypingPing, OtherEnds, Typed, TypeOK, RequestsTypeOK
    <2> QED
      BY <2>2, <2>3 DEF session, hubVars, Typed, TypeOK, RequestsTypeOK, Acts
  <1> QED
    BY <1>1, <1>2

LEMMA TypedStep == Typed /\ [Next]_vars => Typed'
  <1> SUFFICES ASSUME Typed, [Next]_vars PROVE Typed'
    OBVIOUS
  <1>1. CASE UNCHANGED vars
    BY <1>1 DEF vars, requestVars, session, hubVars, Typed, TypeOK, RequestsTypeOK, Acts
  <1> QED
    BY <1>1, LoopTyped, HelloByeTyped, LoginTyped, ForgetTyped, ConfirmsTyped, ReactTyped,
       CallTyped DEF Next, Work, RequestStep

\* The type invariant of the hub and of the handlers.
THEOREM TypeCorrect == Spec => []TypeOK
  <1>1. Typed => TypeOK
    BY DEF Typed
  <1> QED
    BY <1>1, TypedInit, TypedStep, PTL DEF Spec

-----------------------------------------------------------------------------
(* Answers, and sessions that leave the map.                               *)

\* Whose a place is.
Roles == \A c \in Commands :
    /\ loop.doing = c => pc[c] = "idle"
    /\ pc[c] = "mark" => kind[c] = "mark_read"
    /\ pc[c] = "ping" => kind[c] = "typing"
    /\ pc[c] \in {"delete", "forget", "close"} => kind[c] = "logout"
    /\ pc[c] \in {"forget", "close"} => on[c] \in tornDown

\* A request id is owed its answer as long as its handler has not replied.
Owing == \A c \in Commands :
    /\ pc[c] = "idle" => answers[c] = 0
    /\ kind[c] \in Identified =>
         /\ pc[c] \in {"begin", "act", "create", "reply"} => answers[c] = 0
         /\ pc[c] = "reply" => outcome[c] # "silent"

Safe == Typed /\ Roles /\ Owing /\ EndsAnswered /\ NoneLost

LEMMA LoopNames ==
    /\ Free \notin Commands /\ Hello \notin Commands /\ Bye \notin Commands
    /\ Ended \notin Commands /\ Ended \notin {Free, Hello, Bye} /\ Free \notin {Hello, Bye}
    /\ Hello # Bye
  BY RequestsAssumption DEF Free, Hello, Bye, Ended, Commands

LEMMA SafeInit == Init => Safe
  <1> SUFFICES ASSUME Init PROVE Safe
    OBVIOUS
  <1>1. Typed
    BY TypedInit
  <1>2. \A c \in Commands : pc[c] = "idle" /\ answers[c] = 0 /\ loop.doing # c
    BY LoopNames DEF Init, RequestsInit
  <1>3. Roles /\ Owing /\ EndsAnswered
    BY <1>2 DEF Roles, Owing, EndsAnswered
  <1>4. NoneLost
    BY DEF Init, NoneLost
  <1> QED
    BY <1>1, <1>3, <1>4 DEF Safe

\* One step of a handler before its reply.
LEMMA CallShape ==
    ASSUME Safe, NEW c \in Commands, RequestStep(c), ~Reply(c)
    PROVE  /\ UNCHANGED << closed, kind, on, answers >>
           /\ pc[c] \in {"begin", "act", "create", "mark", "ping", "show"}
           /\ \A d \in Commands \ {c} : pc'[d] = pc[d] /\ outcome'[d] = outcome[d]
           /\ \/ /\ pc'[c] = "reply" /\ pc[c] # "show"
                 /\ kind[c] \in Identified => outcome'[c] # "silent"
              \/ pc'[c] \in {"act", "create"} /\ pc[c] = "begin"
              \/ pc'[c] = "mark" /\ kind[c] = "mark_read"
              \/ pc'[c] = "ping" /\ kind[c] = "typing"
              \/ pc'[c] = "done" /\ (pc[c] = "show" \/ kind[c] = "typing")
  <1> USE DEF Settle, Goto, Begins, session
  <1>1. pc \in [Commands -> Places] /\ outcome \in [Commands -> Answers \cup {"silent"}]
    BY DEF Safe, Typed, TypeOK, RequestsTypeOK
  <1>2. CASE Show(c)
    BY <1>1, <1>2 DEF Show
  <1>3. CASE ReactRead(c)
    BY <1>1, <1>3 DEF ReactRead
  <1>4. CASE ReactSend(c)
    BY <1>1, <1>4 DEF ReactSend
  <1>5. CASE DeleteCall(c)
    BY <1>1, <1>5 DEF DeleteCall
  <1>6. CASE OpenCall(c)
    BY <1>1, <1>6 DEF OpenCall
  <1>7. CASE OpenCreate(c)
    BY <1>1, <1>7 DEF OpenCreate
  <1>8. CASE ReadFind(c)
    BY <1>1, <1>8 DEF ReadFind
  <1>9. CASE ReadMark(c)
    BY <1>1, <1>9 DEF ReadMark
  <1>10. CASE TypingBegin(c)
    BY <1>1, <1>10 DEF TypingBegin
  <1>11. CASE TypingPing(c)
    <2>1. kind[c] \notin Identified
      BY <1>11 DEF TypingPing, Safe, Roles, Identified
    <2> QED
      BY <1>1, <1>11, <2>1 DEF TypingPing
  <1>12. CASE OtherEnds(c)
    BY <1>1, <1>12 DEF OtherEnds
  <1> QED
    BY <1>2, <1>3, <1>4, <1>5, <1>6, <1>7, <1>8, <1>9, <1>10, <1>11, <1>12 DEF RequestStep

\* A command that is answered now was not answered before.
LEMMA FireOnce ==
    ASSUME Typed, NEW c \in Commands, NEW what, what # "silent", answers[c] = 0,
           Fire(c, what)
    PROVE  /\ answers'[c] = 1 \/ closed[on[c]]
           /\ \A d \in Commands \ {c} : answers'[d] = answers[d]
  BY DEF Fire, Typed, TypeOK, RequestsTypeOK

\* The daemon hears of one command at a time.
LEMMA FireOthers ==
    ASSUME Typed, NEW c \in Commands, NEW what, Fire(c, what)
    PROVE  \A d \in Commands \ {c} : answers'[d] = answers[d]
  BY DEF Fire, Typed, TypeOK, RequestsTypeOK

LEMMA RequestSafe ==
    ASSUME Safe, NEW c \in Commands, RequestStep(c), UNCHANGED hubVars
    PROVE  Roles' /\ Owing' /\ EndsAnswered' /\ NoneLost'
  <1>1. CASE ~Reply(c)
    <2>1. Roles' /\ Owing'
      BY <1>1, CallShape, RequestsAssumption
      DEF Safe, Roles, Owing, hubVars, Identified, Commands
    <2>2. EndsAnswered'
      BY <1>1, CallShape DEF Safe, EndsAnswered, Identified
    <2>3. NoneLost'
      BY <1>1, CallShape DEF Safe, NoneLost, hubVars
    <2> QED
      BY <2>1, <2>2, <2>3
  <1>2. CASE Reply(c)
    <2>1. PICK there \in {"show", "done"} : Goto(c, "reply", there)
      BY <1>2 DEF Reply
    <2>2. \A d \in Commands : pc'[d] = IF d = c THEN there ELSE pc[d]
      BY <2>1, GotoTyped DEF Safe, Places
    <2>3. /\ UNCHANGED << closed, kind, on >> /\ Fire(c, outcome[c]) /\ pc[c] = "reply"
          /\ \A d \in Commands \ {c} : outcome'[d] = outcome[d]
      BY <1>2, <2>1 DEF Reply, session, Goto, Safe, Typed, TypeOK, RequestsTypeOK
    <2>4. Roles'
      BY <2>2, <2>3 DEF Safe, Roles, hubVars
    <2>5. Owing'
      BY <2>2, <2>3, FireOthers DEF Safe, Owing
    <2>6. EndsAnswered'
      BY <2>2, <2>3, FireOthers, FireOnce DEF Safe, Owing, EndsAnswered
    <2>7. NoneLost'
      BY <2>2, <2>3 DEF Safe, NoneLost, hubVars
    <2> QED
      BY <2>4, <2>5, <2>6, <2>7
  <1> QED
    BY <1>1, <1>2

\* The loop reads a command, or is done with it.
LEMMA LoopSafe ==
    ASSUME Safe, NEW c \in Commands, Read(c) \/ Spawn(c) \/ Refuse(c) \/ Drop(c)
    PROVE  Roles' /\ Owing' /\ EndsAnswered' /\ NoneLost'
  <1>1. CASE Read(c)
    <2>1. /\ pc[c] = "idle" /\ loop.doing = Free /\ loop'.doing = c
          /\ UNCHANGED << pc, answers, outcome, closed, victim, tornDown >>
          /\ \A d \in Commands \ {c} : kind'[d] = kind[d] /\ on'[d] = on[d]
      BY <1>1 DEF Read, Lookup, LoopFree, session, Safe, Typed, TypeOK, RequestsTypeOK
    <2>2. Roles' /\ Owing' /\ EndsAnswered'
      BY <2>1 DEF Safe, Roles, Owing, EndsAnswered
    <2>3. NoneLost'
      BY <1>1, <2>1, LoopNames, HubAssumption
      DEF Read, Lookup, Safe, NoneLost, Typed, TypeOK
    <2> QED
      BY <2>2, <2>3
  <1>2. CASE Spawn(c) \/ Refuse(c)
    <2>1. PICK there \in {"begin", "done"} : pc' = [pc EXCEPT ![c] = there]
      BY <1>2 DEF Spawn, Refuse
    <2>2. /\ pc[c] = "idle" /\ loop.doing = c /\ loop'.doing = Free /\ answers[c] = 0
          /\ UNCHANGED << outcome, closed, kind, on, mapped, born, victim, tornDown >>
      BY <1>2 DEF Spawn, Refuse, Rested, session, Safe, Roles, Owing
    <2>3. \A d \in Commands : pc'[d] = IF d = c THEN there ELSE pc[d]
      BY <2>1 DEF Safe, Typed, TypeOK, RequestsTypeOK
    <2>4. \A d \in Commands \ {c} : answers'[d] = answers[d]
      BY <1>2, FireOthers DEF Spawn, Refuse, Safe, Typed, TypeOK, RequestsTypeOK
    <2>5. there = "begin" => answers'[c] = 0
      BY <1>2, <2>1, <2>2 DEF Spawn, Refuse, Safe, Typed, TypeOK, RequestsTypeOK
    <2>6. there = "done" /\ kind[c] \in Identified => answers'[c] = 1 \/ closed[on[c]]
      BY <1>2, <2>1, <2>2, FireOnce DEF Spawn, Refuse, Safe, Typed, TypeOK, RequestsTypeOK
    <2>7. Roles'
      BY <2>2, <2>3, LoopNames DEF Safe, Roles
    <2>8. Owing'
      BY <2>2, <2>3, <2>4, <2>5 DEF Safe, Owing
    <2>9. EndsAnswered'
      BY <2>2, <2>3, <2>4, <2>6 DEF Safe, EndsAnswered
    <2>10. NoneLost'
      BY <2>2, <2>3, LoopNames DEF Safe, NoneLost
    <2> QED
      BY <2>7, <2>8, <2>9, <2>10
  <1>3. CASE Drop(c)
    <2>1. /\ \A d \in Commands : pc'[d] = IF d = c THEN "dropped" ELSE pc[d]
          /\ loop.doing = Free /\ pc[c] = "idle"
          /\ UNCHANGED << outcome, answers, closed, kind, on, hubVars >>
      BY <1>3, GotoTyped DEF Drop, LoopFree, Goto, Places, session, Safe
    <2> QED
      BY <2>1, LoopNames DEF Safe, Roles, Owing, EndsAnswered, NoneLost, hubVars
  <1> QED
    BY <1>1, <1>2, <1>3

LEMMA HelloByeSafe ==
    ASSUME Safe, HelloLookup \/ HelloRestore \/ ByeTake \/ ByeClose
    PROVE  Roles' /\ Owing' /\ EndsAnswered' /\ NoneLost'
  <1>1. CASE HelloLookup \/ HelloRestore \/ ByeTake
    <2>1. /\ loop'.doing \in {Free, Hello, Bye}
          /\ UNCHANGED << pc, kind, on, outcome, answers, closed, victim, tornDown >>
          /\ loop.doing # Ended
      BY <1>1, LoopNames DEF HelloLookup, HelloRestore, ByeTake, Lookup, LoopFree, Rested,
                             requestVars, session
    <2>2. Roles' /\ Owing' /\ EndsAnswered'
      BY <2>1, LoopNames DEF Safe, Roles, Owing, EndsAnswered
    <2>3. \/ UNCHANGED << mapped, born >>
          \/ mapped = 0 /\ mapped' = born + 1 /\ born' = born + 1
      BY <1>1 DEF HelloLookup, HelloRestore, ByeTake, Lookup
    <2>4. NoneLost'
      BY <2>1, <2>3, HubAssumption DEF Safe, NoneLost, Typed, TypeOK
    <2> QED
      BY <2>2, <2>4
  <1>2. CASE ByeClose
    <2>1. /\ loop'.doing = Ended
          /\ \A d \in Commands : pc'[d] = IF d \in Working THEN "dropped" ELSE pc[d]
          /\ \A t \in Sessions : closed[t] => closed'[t]
          /\ UNCHANGED << kind, on, outcome, answers, tornDown >>
      BY <1>2 DEF ByeClose
    <2>2. Roles' /\ Owing'
      BY <2>1, LoopNames DEF Safe, Roles, Owing
    <2>3. EndsAnswered'
      BY <2>1 DEF Safe, EndsAnswered, Typed, TypeOK, RequestsTypeOK
    <2>4. NoneLost'
      BY <2>1 DEF NoneLost
    <2> QED
      BY <2>2, <2>3, <2>4
  <1> QED
    BY <1>1, <1>2

\* A login or a logout, up to where it forgets the session.
LEMMA LoginSafe ==
    ASSUME Safe, NEW c \in Commands,
           Login(c) \/ LogoutRevoke(c) \/ LogoutDelete(c) \/ SyncEnds(c)
    PROVE  Roles' /\ Owing' /\ EndsAnswered' /\ NoneLost'
  <1>1. /\ kind[c] \notin Identified /\ pc[c] \in {"begin", "delete"}
        /\ pc[c] = "begin" => kind[c] \in {"login", "logout", "sync"}
        /\ UNCHANGED << closed, kind, on, mapped, born, loop, victim >>
    BY DEF Login, LogoutRevoke, LogoutDelete, SyncEnds, Begins, Settle, Goto, session, hubVars,
           Safe, Roles, Identified
  <1>2. PICK there \in {"reply", "delete", "forget", "done"} :
          \A d \in Commands : pc'[d] = IF d = c THEN there ELSE pc[d]
    BY GotoTyped, SettleTyped
    DEF Login, LogoutRevoke, LogoutDelete, SyncEnds, Places, Answers, Safe
  <1>3. \A d \in Commands \ {c} : answers'[d] = answers[d] /\ outcome'[d] = outcome[d]
    BY FireOthers DEF Login, LogoutRevoke, LogoutDelete, SyncEnds, Settle, Safe, Typed, TypeOK,
                      RequestsTypeOK
  <1>4. there \in {"delete", "forget"} => kind[c] = "logout"
    BY <1>2 DEF Login, LogoutRevoke, LogoutDelete, SyncEnds, Begins, Settle, Goto, Safe, Roles,
                Typed, TypeOK, RequestsTypeOK
  <1>5. tornDown \subseteq tornDown' /\ (there = "forget" => on[c] \in tornDown')
    BY <1>2 DEF Login, LogoutRevoke, LogoutDelete, SyncEnds, Settle, Goto, hubVars, Safe, Typed,
                TypeOK, RequestsTypeOK
  <1>6. Roles'
    BY <1>1, <1>2, <1>4, <1>5 DEF Safe, Roles
  <1>7. Owing' /\ EndsAnswered'
    BY <1>1, <1>2, <1>3 DEF Safe, Owing, EndsAnswered
  <1>8. NoneLost'
    BY <1>1, <1>2 DEF Safe, NoneLost
  <1> QED
    BY <1>6, <1>7, <1>8

LEMMA ForgetSafe ==
    ASSUME Safe, NEW c \in Commands, ForgetTake(c) \/ ForgetClose(c)
    PROVE  Roles' /\ Owing' /\ EndsAnswered' /\ NoneLost'
  <1>1. PICK there \in {"close", "done"} :
          /\ Goto(c, pc[c], there) /\ pc[c] \in {"forget", "close"}
          /\ ForgetTake(c) <=> there = "close"
    BY DEF ForgetTake, ForgetClose, Goto, Safe, Typed, TypeOK, RequestsTypeOK
  <1>2. \A d \in Commands : pc'[d] = IF d = c THEN there ELSE pc[d]
    BY <1>1, GotoTyped DEF Safe, Places
  <1>3. /\ UNCHANGED << kind, on, outcome, answers, born, loop, tornDown >>
        /\ \A t \in Sessions : closed[t] => closed'[t]
    BY DEF ForgetTake, ForgetClose, Close, session
  <1>4. kind[c] \notin Identified /\ kind[c] = "logout" /\ on[c] \in tornDown
    BY <1>1 DEF Safe, Roles, Identified
  <1>5. Roles' /\ Owing'
    BY <1>1, <1>2, <1>3, <1>4 DEF Safe, Roles, Owing
  <1>6. EndsAnswered'
    BY <1>2, <1>3, <1>4 DEF Safe, EndsAnswered, Typed, TypeOK, RequestsTypeOK
  <1>7. ASSUME NEW s \in 1 .. born, loop.doing # Ended
        PROVE  \/ s = mapped' \/ closed'[s]
               \/ \E d \in Commands : pc'[d] = "close" /\ victim'[d] = s
    <2>1. s \in Sessions
      BY HubAssumption DEF Safe, Typed, TypeOK
    <2>2. CASE ForgetTake(c)
      BY <1>1, <1>2, <1>3, <1>7, <2>2
      DEF ForgetTake, Goto, session, Safe, NoneLost, Typed, TypeOK
    <2>3. CASE ForgetClose(c)
      BY <1>1, <1>2, <1>3, <1>7, <2>1, <2>3 DEF ForgetClose, Close, Safe, NoneLost
    <2> QED
      BY <2>2, <2>3
  <1>8. NoneLost'
    BY <1>3, <1>7 DEF NoneLost
  <1> QED
    BY <1>5, <1>6, <1>8

LEMMA SafeStep == Safe /\ [Next]_vars => Safe'
  <1> SUFFICES ASSUME Safe, [Next]_vars PROVE Safe'
    OBVIOUS
  <1>1. Typed'
    BY TypedStep DEF Safe
  <1>2. CASE UNCHANGED vars \/ \E s \in Sessions : PhoneConfirms(s)
    <2>1. UNCHANGED << requestVars, mapped, born, loop, victim, tornDown >>
      BY <1>2 DEF vars, hubVars, PhoneConfirms
    <2> QED
      BY <1>1, <2>1 DEF requestVars, session, Safe, Roles, Owing, EndsAnswered, NoneLost
  <1>3. CASE \E c \in Commands : Read(c) \/ Spawn(c) \/ Refuse(c) \/ Drop(c)
    BY <1>1, <1>3, LoopSafe DEF Safe
  <1>4. CASE \E c \in Commands : Work(c)
    BY <1>1, <1>4, RequestSafe, LoginSafe, ForgetSafe DEF Work, Safe
  <1>5. CASE HelloLookup \/ HelloRestore \/ ByeTake \/ ByeClose
    BY <1>1, <1>5, HelloByeSafe DEF Safe
  <1> QED
    BY <1>2, <1>3, <1>4, <1>5 DEF Next

\* Every request id hears of its end once, whatever the pool refuses and
\* whoever logs out meanwhile, unless its session was closed over it
\* (main.go:177-206).
THEOREM OneAnswerEach == Spec => []EndsAnswered
  <1>1. Safe => EndsAnswered
    BY DEF Safe
  <1> QED
    BY <1>1, SafeInit, SafeStep, PTL DEF Spec

\* No Session object is ever out of the map with its closed flag down, but for
\* the moment between the two halves of forget (main.go:143-155).
THEOREM NoSessionLost == Spec => []NoneLost
  <1>1. Safe => NoneLost
    BY DEF Safe
  <1> QED
    BY <1>1, SafeInit, SafeStep, PTL DEF Spec

\* Only a logout that tore a session down, or the end of the process, has
\* one closed (main.go:229-241).
THEOREM ClosedOnlyForCause == Spec => ClosedForCause
  <1>1. Safe /\ [Next]_vars =>
          [\A s \in Sessions : closed'[s] /\ ~closed[s] =>
             \/ loop.doing = Bye
             \/ \E c \in Commands : pc[c] = "close" /\ victim[c] = s /\ on[c] \in tornDown]_vars
    <2> SUFFICES ASSUME Safe, Next, NEW s \in Sessions, closed'[s], ~closed[s], loop.doing # Bye
                 PROVE  \E c \in Commands :
                          pc[c] = "close" /\ victim[c] = s /\ on[c] \in tornDown
      OBVIOUS
    <2>1. PICK c \in Commands : ForgetClose(c)
      BY CallShape DEF Next, Work, RequestStep, Reply, Read, Spawn, Refuse, Drop, Login,
         LogoutRevoke, LogoutDelete, ForgetTake, SyncEnds, HelloLookup, HelloRestore, ByeTake,
         ByeClose, PhoneConfirms, requestVars, session
    <2>2. pc[c] = "close" /\ victim[c] = s
      BY <2>1 DEF ForgetClose, Goto, Close
    <2> QED
      BY <2>2 DEF Safe, Roles
  <1> QED
    BY <1>1, SafeInit, SafeStep, PTL DEF Spec, ClosedForCause

-----------------------------------------------------------------------------
(* Reactions.                                                              *)

\* What a React is about to do fits what it was asked for and the roster it
\* read, but for what others have changed since; and so does what it did.
Planned(c) ==
    \/ plan[c] = "add" /\ asked[c].add /\ roster \subseteq touched[c]
    \/ plan[c] = "switch" /\ asked[c].add
    \/ plan[c] = "remove" /\ ~asked[c].add
Honoured(c) ==
    /\ asked[c].emoji \in touched[c] \/ (asked[c].emoji \in roster <=> asked[c].add)
    /\ plan[c] \in {"add", "switch"} => roster \subseteq touched[c] \cup {asked[c].emoji}
Fits(c) ==
    /\ pc[c] = "act" => kind[c] = "react" /\ Planned(c)
    /\ pc[c] = "create" => kind[c] = "open"
    /\ kind[c] = "react" /\ pc[c] = "reply" /\ outcome[c] = "ok" => Honoured(c)

React == \A c \in Commands : Fits(c)

\* A command that another's step leaves alone, or that is not on its way with
\* a reaction.
Rests(d) ==
    \/ pc'[d] \notin {"act", "create", "reply"}
    \/ pc'[d] = "reply" /\ kind'[d] # "react"
    \/ /\ pc'[d] = pc[d] /\ kind'[d] = kind[d] /\ outcome'[d] = outcome[d]
       /\ plan'[d] = plan[d] /\ asked'[d] = asked[d] /\ touched'[d] = touched[d]

LEMMA ReactRests ==
    ASSUME React, UNCHANGED roster, NEW d \in Commands, Rests(d)
    PROVE  Fits(d)'
  BY DEF React, Rests, Fits, Planned, Honoured

\* Reading decides by the roster as it is.
LEMMA ReactReads ==
    ASSUME Safe, React, NEW c \in Commands, ReactRead(c)
    PROVE  React'
  <1>1. /\ UNCHANGED << roster, kind, asked, touched >> /\ pc[c] = "begin" /\ kind[c] = "react"
        /\ \A d \in Commands \ {c} :
             pc'[d] = pc[d] /\ outcome'[d] = outcome[d] /\ plan'[d] = plan[d]
    BY DEF ReactRead, Begins, Settle, Goto, Safe, Typed, TypeOK, RequestsTypeOK
  <1>2. \/ pc'[c] = "reply" /\ outcome'[c] = "failed"
        \/ /\ plan'[c] = Decide(c)
           /\ IF plan'[c] = "none" THEN pc'[c] = "reply" ELSE pc'[c] = "act"
    BY <1>1 DEF ReactRead, Settle, Goto, Safe, Typed, TypeOK, RequestsTypeOK
  <1>3. Fits(c)'
    <2>1. CASE plan'[c] = "none" /\ pc'[c] = "reply" /\ plan'[c] = Decide(c)
      <3>1. asked[c].emoji \in roster <=> asked[c].add
        BY <2>1 DEF Decide, Safe, Typed, TypeOK, RequestsTypeOK
      <3> QED
        BY <1>1, <2>1, <3>1 DEF Fits, Honoured
    <2>2. CASE pc'[c] = "act" /\ plan'[c] = Decide(c) /\ plan'[c] # "none"
      <3>1. \/ plan'[c] = "add" /\ asked[c].add /\ roster = {}
            \/ plan'[c] = "switch" /\ asked[c].add
            \/ plan'[c] = "remove" /\ ~asked[c].add
        BY <2>2 DEF Decide, Safe, Typed, TypeOK, RequestsTypeOK
      <3> QED
        BY <1>1, <2>2, <3>1 DEF Fits, Planned
    <2>3. CASE pc'[c] = "reply" /\ outcome'[c] = "failed"
      BY <2>3 DEF Fits
    <2> QED
      BY <1>2, <2>1, <2>2, <2>3
  <1>4. ASSUME NEW d \in Commands \ {c} PROVE Fits(d)'
    BY <1>1, ReactRests DEF Rests
  <1> QED
    BY <1>3, <1>4 DEF React

\* The call does what was planned, and the others that have read the roster
\* are touched by what it changes.
LEMMA ReactSends ==
    ASSUME Safe, React, NEW c \in Commands, ReactSend(c)
    PROVE  React'
  <1>1. /\ UNCHANGED << kind, asked, plan >> /\ pc[c] = "act" /\ pc'[c] = "reply"
        /\ \A d \in Commands \ {c} : pc'[d] = pc[d] /\ outcome'[d] = outcome[d]
    BY DEF ReactSend, Settle, Goto, Safe, Typed, TypeOK, RequestsTypeOK
  <1>2. \/ UNCHANGED << roster, touched >> /\ outcome'[c] # "ok"
        \/ /\ Touch(c)
           /\ roster' = Applied(c) \/ (UNCHANGED roster /\ outcome'[c] # "ok")
    <2>1. outcome \in [Commands -> Answers \cup {"silent"}]
      BY DEF Safe, Typed, TypeOK, RequestsTypeOK
    <2>2. \A what : Settle(c, "act", what) => outcome'[c] = what
      BY <2>1 DEF Settle
    <2>3. CASE HasClient(c)
      BY <2>2, <2>3 DEF ReactSend
    <2>4. CASE ~HasClient(c)
      BY <2>2, <2>4 DEF ReactSend
    <2> QED
      BY <2>3, <2>4
  <1>3. touched' = touched \/ touched'[c] = touched[c]
    BY <1>2 DEF Touch
  <1>4. Fits(c)'
    <2>1. CASE outcome'[c] # "ok"
      BY <1>1, <2>1 DEF Fits
    <2>2. CASE outcome'[c] = "ok"
      <3>1. roster' = Applied(c) /\ touched'[c] = touched[c]
        BY <1>2, <1>3, <2>2
      <3>2. Planned(c)
        BY <1>1 DEF React, Fits
      <3>3. Honoured(c)'
        BY <1>1, <3>1, <3>2 DEF Planned, Honoured, Applied
      <3> QED
        BY <1>1, <3>3 DEF Fits
    <2> QED
      BY <2>1, <2>2
  <1>5. ASSUME NEW d \in Commands \ {c} PROVE Fits(d)'
    <2>1. CASE UNCHANGED << roster, touched >>
      BY <1>1, <2>1, ReactRests DEF Rests
    <2>2. CASE Touch(c)
      <3>1. touched'[d] = IF kind[d] = "react" /\ pc[d] \in {"act", "reply"}
                            THEN touched[d] \cup ((roster \ roster') \cup (roster' \ roster))
                            ELSE touched[d]
        BY <2>2 DEF Touch
      <3>2. Fits(d)
        BY DEF React
      <3>3. CASE kind[d] = "react" /\ pc[d] \in {"act", "reply"}
        <4>1. Planned(d) => Planned(d)'
          BY <1>1, <3>1, <3>3 DEF Planned
        <4>2. Honoured(d) => Honoured(d)'
          BY <1>1, <3>1, <3>3 DEF Honoured
        <4> QED
          BY <1>1, <3>2, <3>3, <4>1, <4>2 DEF Fits
      <3>4. CASE ~(kind[d] = "react" /\ pc[d] \in {"act", "reply"})
        BY <1>1, <3>2, <3>4 DEF Fits
      <3> QED
        BY <3>3, <3>4
    <2> QED
      BY <1>2, <2>1, <2>2
  <1> QED
    BY <1>4, <1>5 DEF React

LEMMA ReactStep == Safe /\ React /\ [Next]_vars => React'
  <1> SUFFICES ASSUME Safe, React, [Next]_vars PROVE React'
    OBVIOUS
  <1>1. CASE \/ UNCHANGED vars \/ HelloLookup \/ HelloRestore \/ ByeTake \/ ByeClose
             \/ \E s \in Sessions : PhoneConfirms(s)
    <2>1. /\ UNCHANGED << roster, kind, touched, outcome, plan, asked >>
          /\ \A d \in Commands : pc'[d] \in {pc[d], "dropped"}
      BY <1>1 DEF vars, requestVars, HelloLookup, HelloRestore, ByeTake, ByeClose,
                  PhoneConfirms, Safe, Typed, TypeOK, RequestsTypeOK
    <2> QED
      BY <2>1, ReactRests DEF Rests, React
  <1>2. ASSUME NEW c \in Commands, Read(c) \/ Spawn(c) \/ Refuse(c) \/ Drop(c)
        PROVE  React'
    <2>1. pc[c] = "idle" /\ pc'[c] \in {"idle", "begin", "done", "dropped"}
      BY <1>2 DEF Read, Spawn, Refuse, Drop, Goto, Safe, Roles, Typed, TypeOK, RequestsTypeOK
    <2>2. /\ UNCHANGED << roster, touched, outcome, plan >>
          /\ \A d \in Commands \ {c} :
               pc'[d] = pc[d] /\ kind'[d] = kind[d] /\ asked'[d] = asked[d]
      BY <1>2 DEF Read, Spawn, Refuse, Drop, Goto, Safe, Typed, TypeOK, RequestsTypeOK
    <2> QED
      BY <2>1, <2>2, ReactRests DEF Rests, React
  <1>3. ASSUME NEW c \in Commands,
               \/ Login(c) \/ LogoutRevoke(c) \/ LogoutDelete(c) \/ ForgetTake(c)
               \/ ForgetClose(c) \/ SyncEnds(c)
        PROVE  React'
    <2>1. /\ kind[c] \in {"login", "logout", "sync"}
          /\ UNCHANGED << roster, kind, touched, plan, asked >>
      BY <1>3 DEF Login, LogoutRevoke, LogoutDelete, ForgetTake, ForgetClose, SyncEnds, Begins,
                  Settle, Goto, Safe, Roles
    <2>2. /\ pc'[c] \in {"reply", "delete", "forget", "close", "done"}
          /\ \A d \in Commands \ {c} : pc'[d] = pc[d] /\ outcome'[d] = outcome[d]
      BY <1>3 DEF Login, LogoutRevoke, LogoutDelete, ForgetTake, ForgetClose, SyncEnds, Begins,
                  Settle, Goto, Safe, Typed, TypeOK, RequestsTypeOK
    <2> QED
      BY <2>1, <2>2, ReactRests DEF Rests, React
  <1>4. ASSUME NEW c \in Commands, RequestStep(c)
        PROVE  React'
    <2>1. CASE ReactRead(c) \/ ReactSend(c)
      BY <2>1, ReactReads, ReactSends
    <2>2. CASE Reply(c)
      <3>1. /\ UNCHANGED << roster, kind >> /\ pc'[c] \in {"show", "done"}
            /\ \A d \in Commands \ {c} :
                 /\ pc'[d] = pc[d] /\ outcome'[d] = outcome[d] /\ plan'[d] = plan[d]
                 /\ asked'[d] = asked[d] /\ touched'[d] = touched[d]
        BY <2>2 DEF Reply, Goto, Safe, Typed, TypeOK, RequestsTypeOK
      <3> QED
        BY <3>1, ReactRests DEF Rests, React
    <2>3. CASE ~Reply(c) /\ ~ReactRead(c) /\ ~ReactSend(c)
      <3>1. UNCHANGED << roster, kind, touched, plan, asked >>
        BY <1>4, <2>3 DEF RequestStep, Show, DeleteCall, OpenCall, OpenCreate, ReadFind,
           ReadMark, TypingBegin, TypingPing, OtherEnds
      <3>2. \A d \in Commands \ {c} : pc'[d] = pc[d] /\ outcome'[d] = outcome[d]
        BY <1>4, <2>3, CallShape
      <3>3. \/ pc'[c] \in {"mark", "ping", "done"}
            \/ pc'[c] = "reply" /\ kind[c] # "react"
            \/ pc'[c] = "create" /\ kind[c] = "open"
        BY <1>4, <2>3
        DEF RequestStep, Show, DeleteCall, OpenCall, OpenCreate, ReadFind, ReadMark,
            TypingBegin, TypingPing, OtherEnds, Begins, Settle, Goto, React, Fits, Safe, Roles,
            Typed, TypeOK, RequestsTypeOK
      <3>4. \A d \in Commands \ {c} : Fits(d)'
        BY <3>1, <3>2, ReactRests DEF Rests
      <3>5. Fits(c)'
        BY <3>1, <3>3 DEF Fits
      <3> QED
        BY <3>4, <3>5 DEF React
    <2> QED
      BY <2>1, <2>2, <2>3
  <1> QED
    BY <1>1, <1>2, <1>3, <1>4 DEF Next, Work

\* A React that is reported ok has done what was asked, whatever other
\* commands did between its reading and its answer, but for what another
\* React put or took since (send.go:538-586).
THEOREM ReactsHonoured == Spec => []ReactHonoured
  <1>1. Init => React
    BY DEF Init, RequestsInit, React, Fits
  <1>2. React => ReactHonoured
    BY DEF React, Fits, Honoured, ReactHonoured
  <1> QED
    BY <1>1, <1>2, SafeInit, SafeStep, ReactStep, PTL DEF Spec
=============================================================================
