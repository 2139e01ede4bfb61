------------------------------ MODULE Requests ------------------------------
(***************************************************************************)
(* The handlers of one-shot commands (src/adapter/send.go React,           *)
(* DeleteMessage, Open, MarkRead, Typing), each a worker goroutine on the  *)
(* Session object it was given.                                            *)
(*                                                                         *)
(* A handler looks at the session's client, calls the relay one or more    *)
(* times, and tells the daemon how it ended.  Nothing holds a lock over a  *)
(* relay call, so handlers interleave at every call; telling is skipped    *)
(* when the session has been closed.  Who starts the handlers is left to   *)
(* the module that extends this one.                                       *)
(***************************************************************************)
EXTENDS Naturals, FiniteSets

CONSTANTS
    MaxCommands, \* bound on the commands of a behaviour
    Emojis,      \* reactions
    NoEmoji,     \* the empty emoji
    Sessions     \* Session objects

\* A command is named by its place in the order they are read.
Commands == 1 .. MaxCommands

\* Kinds with a request id; a send is modelled for what the others see of it.
Identified == {"react", "delete", "open", "send"}
Kinds == Identified \cup {"mark_read", "typing", "login", "logout", "sync"}

ASSUME RequestsAssumption == MaxCommands \in Nat /\ NoEmoji \notin Emojis /\ Sessions # {}

VARIABLES
    client, closed,   \* Session: client # nil, closed
    typingActive,     \* Session: typingActive
    roster,           \* our own reactions on a message, as the relay has them
    kind, pc, on,     \* each command: its kind, its place, its session
    asked,            \* a react's emoji and whether to add it
    plan,             \* the action a react decided on
    outcome,          \* each command: what it is about to tell
    answers,          \* how often the daemon was told of each command
    touched           \* history: reactions other commands put or took since a react read

session == << client, closed >>
requestVars == << session, typingActive, roster, kind, pc, on, asked, plan, outcome,
                  answers, touched >>

NotAsked == [emoji |-> NoEmoji, add |-> FALSE]

\* A result that is ok or not, an error event, a read event, or nothing.
Answers == {"ok", "failed", "error", "read"}

\* Where a command is: in a handler, in a logout, or through.
Places == {"idle", "begin", "act", "create", "mark", "ping", "reply", "show", "delete",
           "forget", "close", "done", "dropped"}

RequestsTypeOK ==
    /\ client \in [Sessions -> BOOLEAN] /\ closed \in [Sessions -> BOOLEAN]
    /\ typingActive \in [Sessions -> BOOLEAN]
    /\ roster \subseteq Emojis
    /\ kind \in [Commands -> Kinds \cup {"none"}]
    /\ pc \in [Commands -> Places]
    /\ on \in [Commands -> Sessions]
    /\ asked \in [Commands -> [emoji : Emojis \cup {NoEmoji}, add : BOOLEAN]]
    /\ plan \in [Commands -> {"none", "add", "switch", "remove"}]
    /\ outcome \in [Commands -> Answers \cup {"silent"}]
    /\ answers \in [Commands -> Nat]
    /\ touched \in [Commands -> SUBSET Emojis]

-----------------------------------------------------------------------------
Goto(c, here, there) == pc[c] = here /\ pc' = [pc EXCEPT ![c] = there]

\* The handler is decided: it will tell the daemon and return.
Settle(c, here, what) ==
    /\ Goto(c, here, "reply")
    /\ outcome' = [outcome EXCEPT ![c] = what]

Begins(c, some) == pc[c] = "begin" /\ kind[c] = some

\* fire: the daemon hears of it unless the session was closed.
Fire(c, what) ==
    answers' = IF closed[on[c]] \/ what = "silent" THEN answers
               ELSE [answers EXCEPT ![c] = @ + 1]

HasClient(c) == client[on[c]]

\* Tell the daemon and return.  An Open or MarkRead that worked goes on to
\* show the thread; a Typing lets go of typingActive.
Reply(c) ==
    /\ Fire(c, outcome[c])
    /\ Goto(c, "reply", IF kind[c] \in {"open", "mark_read"} /\ outcome[c] \in {"ok", "read"}
                          THEN "show" ELSE "done")
    /\ typingActive' = IF kind[c] = "typing" THEN [typingActive EXCEPT ![on[c]] = FALSE]
                       ELSE typingActive
    /\ outcome' = [outcome EXCEPT ![c] = "silent"]
    /\ plan' = [plan EXCEPT ![c] = "none"]
    /\ asked' = [asked EXCEPT ![c] = NotAsked]
    /\ touched' = [touched EXCEPT ![c] = {}]
    /\ UNCHANGED << session, roster, kind, on >>

\* getConversation and what it shows: the thread, and a window for Open.
Show(c) ==
    /\ Goto(c, "show", "done")
    /\ UNCHANGED << session, typingActive, roster, kind, on, asked, plan, outcome, answers,
                    touched >>

-----------------------------------------------------------------------------
(* React (send.go:538-586) and selfReactionState (596-638).                *)

\* Faulty variant: an emoji change is sent as an addition.
DecideStacking(c) ==
    LET emoji == asked[c].emoji IN
    IF asked[c].add THEN IF emoji \in roster THEN "none" ELSE "add"
    ELSE IF emoji \in roster THEN "remove" ELSE "none"

\* What to ask of the relay, from the roster it has now.
Decide(c) ==
    LET emoji == asked[c].emoji IN
    IF asked[c].add
      THEN IF emoji \in roster THEN "none" ELSE IF roster # {} THEN "switch" ELSE "add"
      ELSE IF emoji \in roster THEN "remove" ELSE "none"

\* Read the roster and decide; a repeat needs no call.  The read fails
\* without a client, or when the window does not have the message.
ReactRead(c) ==
    /\ Begins(c, "react")
    /\ \/ Settle(c, "begin", "failed") /\ UNCHANGED plan
       \/ /\ asked[c].emoji # NoEmoji /\ HasClient(c)
          /\ plan' = [plan EXCEPT ![c] = Decide(c)]
          /\ IF plan'[c] = "none" THEN Settle(c, "begin", "ok")
             ELSE Goto(c, "begin", "act") /\ UNCHANGED outcome
    /\ UNCHANGED << session, typingActive, roster, kind, on, asked, answers, touched >>

\* What the relay makes of a SendReaction.
Applied(c) ==
    LET emoji == asked[c].emoji IN
    CASE plan[c] = "add" -> roster \cup {emoji}
      [] plan[c] = "switch" -> {emoji}
      [] plan[c] = "remove" -> roster \ {emoji}

\* The roster changes under the other reacts that have read it.
Touch(c) ==
    LET change == (roster \ roster') \cup (roster' \ roster)
        Follows(d) == d # c /\ kind[d] = "react" /\ pc[d] \in {"act", "reply"} IN
    touched' = [d \in Commands |-> IF Follows(d) THEN touched[d] \cup change ELSE touched[d]]

\* The relay takes the reaction or not; an answer that is lost says nothing
\* of which.
ReactSend(c) ==
    /\ pc[c] = "act"
    /\ IF HasClient(c)
         THEN \E applied \in BOOLEAN, ok \in BOOLEAN :
                /\ ok => applied
                /\ roster' = IF applied THEN Applied(c) ELSE roster
                /\ Touch(c)
                /\ Settle(c, "act", IF ok THEN "ok" ELSE "failed")
         ELSE Settle(c, "act", "failed") /\ UNCHANGED << roster, touched >>
    /\ UNCHANGED << session, typingActive, kind, on, asked, plan, answers >>

-----------------------------------------------------------------------------
(* DeleteMessage (718-733), Open (738-797), MarkRead (650-687).            *)

DeleteCall(c) ==
    /\ Begins(c, "delete")
    /\ \E answer \in {"ok", "failed"} :
         (answer = "ok" => HasClient(c)) /\ Settle(c, "begin", answer)
    /\ UNCHANGED << session, typingActive, roster, kind, on, asked, plan, answers, touched >>

\* Find the thread; for a group the phone may ask to be told to create it.
OpenCall(c) ==
    /\ Begins(c, "open")
    /\ \/ Settle(c, "begin", "failed")
       \/ HasClient(c) /\ Settle(c, "begin", "ok")
       \/ HasClient(c) /\ Goto(c, "begin", "create") /\ UNCHANGED outcome
    /\ UNCHANGED << session, typingActive, roster, kind, on, asked, plan, answers, touched >>

\* The second call uses the client of the first.
OpenCreate(c) ==
    /\ \E answer \in {"ok", "failed"} : Settle(c, "create", answer)
    /\ UNCHANGED << session, typingActive, roster, kind, on, asked, plan, answers, touched >>

\* Find the message to mark when none was named.
ReadFind(c) ==
    /\ Begins(c, "mark_read")
    /\ \/ Settle(c, "begin", "error")
       \/ Goto(c, "begin", "mark") /\ UNCHANGED outcome
    /\ UNCHANGED << session, typingActive, roster, kind, on, asked, plan, answers, touched >>

ReadMark(c) ==
    /\ \E answer \in {"read", "error"} :
         (answer = "read" => HasClient(c)) /\ Settle(c, "mark", answer)
    /\ UNCHANGED << session, typingActive, roster, kind, on, asked, plan, answers, touched >>

-----------------------------------------------------------------------------
(* Typing (691-714).                                                       *)

\* A second ping while one is in flight is dropped.
TypingBegin(c) ==
    /\ Begins(c, "typing")
    /\ IF typingActive[on[c]] THEN Goto(c, "begin", "done") /\ UNCHANGED typingActive
       ELSE Goto(c, "begin", "ping") /\ typingActive' = [typingActive EXCEPT ![on[c]] = TRUE]
    /\ UNCHANGED << session, roster, kind, on, asked, plan, outcome, answers, touched >>

TypingPing(c) ==
    /\ \E answer \in {"silent", "error"} :
         (answer = "silent" => HasClient(c)) /\ Settle(c, "ping", answer)
    /\ UNCHANGED << session, typingActive, roster, kind, on, asked, plan, answers, touched >>

\* A send, for what the others see of it: it takes a while and has a result.
OtherEnds(c) ==
    /\ Begins(c, "send")
    /\ \E answer \in {"ok", "failed"} : Settle(c, "begin", answer)
    /\ UNCHANGED << session, typingActive, roster, kind, on, asked, plan, answers, touched >>

-----------------------------------------------------------------------------
RequestsInit ==
    /\ client = [s \in Sessions |-> FALSE] /\ closed = [s \in Sessions |-> FALSE]
    /\ typingActive = [s \in Sessions |-> FALSE]
    /\ roster = {}
    /\ kind = [c \in Commands |-> "none"] /\ pc = [c \in Commands |-> "idle"]
    /\ on = [c \in Commands |-> CHOOSE s \in Sessions : TRUE]
    /\ asked = [c \in Commands |-> NotAsked]
    /\ plan = [c \in Commands |-> "none"]
    /\ outcome = [c \in Commands |-> "silent"]
    /\ answers = [c \in Commands |-> 0]
    /\ touched = [c \in Commands |-> {}]

RequestStep(c) ==
    \/ Reply(c) \/ Show(c) \/ ReactRead(c) \/ ReactSend(c) \/ DeleteCall(c) \/ OpenCall(c)
    \/ OpenCreate(c) \/ ReadFind(c) \/ ReadMark(c) \/ TypingBegin(c) \/ TypingPing(c)
    \/ OtherEnds(c)

-----------------------------------------------------------------------------
(* Properties.                                                             *)

\* Whatever other commands do between its reading of the roster, its call and
\* its answer, a React that is reported ok has done what was asked: the
\* reaction is there, or gone, unless another React put or took that very
\* reaction since.  And one that added or changed a reaction left no other
\* beside it (send.go:535-537, "SWITCH instead of stacking"), save those that
\* another React put there after it had read: two at once do stack.
ReactHonoured ==
    \A c \in Commands : kind[c] = "react" /\ pc[c] = "reply" /\ outcome[c] = "ok" =>
        /\ asked[c].emoji \in touched[c] \/ (asked[c].emoji \in roster <=> asked[c].add)
        /\ plan[c] \in {"add", "switch"} => roster \subseteq touched[c] \cup {asked[c].emoji}
=============================================================================
