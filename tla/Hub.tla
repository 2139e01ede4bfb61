-------------------------------- MODULE Hub --------------------------------
(***************************************************************************)
(* The adapter process for one account (src/main.go): a loop reads         *)
(* commands, looks up or creates the account's Session, and starts a       *)
(* worker if the pool has room.  A logout that worked forgets the session, *)
(* hello restores it, shutdown closes it.                                  *)
(*                                                                         *)
(* Other accounts matter to this one only through the pool.  Handlers are  *)
(* those of Requests; Login and Logout are cut down to what they do to the *)
(* client and the file, since SessionLifecycle has their steps.            *)
(***************************************************************************)
EXTENDS Requests

CONSTANTS
    Slots,       \* maxCommandWorkers
    MaxSessions  \* bound on the Session objects of a behaviour

ASSUME HubAssumption ==
    Slots \in Nat \ {0} /\ MaxSessions \in Nat /\ Sessions = 1 .. MaxSessions

VARIABLES
    mapped,     \* hub.sessions[account], 0 if there is none
    born,       \* Session objects made so far
    loop,       \* the command loop: what it handles and the session it looked up
    victim,     \* each logout: the session forget took out of the map
    stored,     \* the session file exists
    pairing,    \* sessions whose login waits for the phone
    tornDown    \* history: sessions a logout has torn down

\* What the loop does besides a command.
Free == 0
Hello == MaxCommands + 1
Bye == MaxCommands + 2
Ended == MaxCommands + 3

hubVars == << mapped, born, loop, victim, stored, pairing, tornDown >>
vars == << requestVars, hubVars >>

TypeOK ==
    /\ RequestsTypeOK
    /\ mapped \in Sessions \cup {0} /\ born \in Sessions \cup {0} /\ mapped <= born
    /\ loop \in [doing : Commands \cup {Free, Hello, Bye, Ended}, sess : Sessions \cup {0}]
    /\ victim \in [Commands -> Sessions \cup {0}]
    /\ stored \in BOOLEAN /\ pairing \subseteq Sessions
    /\ tornDown \subseteq Sessions

-----------------------------------------------------------------------------
Working == {c \in Commands : pc[c] \notin {"idle", "done", "dropped"}}

LoopFree == loop.doing = Free

\* Faulty variant: a new session is not put into the map.
LookupLoose(doing) ==
    /\ LoopFree
    /\ IF mapped = 0 THEN born + 1 \in Sessions /\ born' = born + 1 ELSE UNCHANGED born
    /\ mapped' = mapped
    /\ loop' = [doing |-> doing, sess |-> mapped]

\* session(account): the one in the map, or a new one.
Lookup(doing) ==
    /\ LoopFree
    /\ IF mapped = 0 THEN /\ born + 1 \in Sessions
                          /\ born' = born + 1 /\ mapped' = born + 1
       ELSE UNCHANGED << mapped, born >>
    /\ loop' = [doing |-> doing, sess |-> mapped']

Rested == loop' = [doing |-> Free, sess |-> 0]

\* The next command is read and its session looked up.
Read(c) ==
    /\ pc[c] = "idle" /\ \A d \in Commands : d < c => pc[d] # "idle"
    /\ Lookup(c)
    /\ on' = [on EXCEPT ![c] = mapped']
    /\ \E some \in Kinds : kind' = [kind EXCEPT ![c] = some]
    /\ \E emoji \in Emojis \cup {NoEmoji}, add \in BOOLEAN :
         /\ kind'[c] # "react" \/ emoji = NoEmoji => emoji = NoEmoji /\ ~add
         /\ asked' = [asked EXCEPT ![c] = [emoji |-> emoji, add |-> add]]
    /\ UNCHANGED << session, typingActive, roster, pc, plan, outcome, answers, touched,
                    victim, stored, pairing, tornDown >>

\* Faulty variant: a refused command is not answered.
SpawnMute(c) ==
    /\ loop.doing = c /\ Rested
    /\ pc' = [pc EXCEPT ![c] = IF Cardinality(Working) >= Slots THEN "done"
                               ELSE "begin"]
    /\ UNCHANGED << session, typingActive, roster, kind, on, asked, plan, outcome, answers,
                    touched, mapped, born, victim, stored, pairing, tornDown >>

\* dispatchAsync: a worker starts, or the command is refused as busy; the
\* result goes through the session, the error of other commands does not.
Spawn(c) ==
    /\ loop.doing = c /\ Rested
    /\ IF Cardinality(Working) < Slots
         THEN /\ pc' = [pc EXCEPT ![c] = "begin"]
              /\ UNCHANGED answers
         ELSE /\ pc' = [pc EXCEPT ![c] = "done"]
              /\ IF kind[c] \in Identified THEN Fire(c, "failed")
                 ELSE answers' = [answers EXCEPT ![c] = @ + 1]
    /\ UNCHANGED << session, typingActive, roster, kind, on, asked, plan, outcome, touched,
                    mapped, born, victim, stored, pairing, tornDown >>

\* send_media without what it needs is answered at once.
Refuse(c) ==
    /\ loop.doing = c /\ kind[c] = "send" /\ Rested
    /\ pc' = [pc EXCEPT ![c] = "done"]
    /\ Fire(c, "failed")
    /\ UNCHANGED << session, typingActive, roster, kind, on, asked, plan, outcome, touched,
                    mapped, born, victim, stored, pairing, tornDown >>

\* Any other command without what it needs is dropped.
Drop(c) ==
    /\ LoopFree /\ \A d \in Commands : d < c => pc[d] # "idle"
    /\ Goto(c, "idle", "dropped")
    /\ UNCHANGED << session, typingActive, roster, kind, on, asked, plan, outcome, answers,
                    touched, hubVars >>

-----------------------------------------------------------------------------
(* hello and shutdown, in the loop itself.                                 *)

HelloLookup ==
    /\ stored /\ Lookup(Hello)
    /\ UNCHANGED << requestVars, victim, stored, pairing, tornDown >>

\* Restore: the file may be gone again.
HelloRestore ==
    /\ loop.doing = Hello /\ Rested
    /\ client' = IF stored THEN [client EXCEPT ![loop.sess] = TRUE] ELSE client
    /\ UNCHANGED << closed, typingActive, roster, pc, kind, on, asked, plan, outcome, answers,
                    touched, mapped, born, victim, stored, pairing, tornDown >>

ByeTake ==
    /\ LoopFree /\ loop' = [doing |-> Bye, sess |-> mapped]
    /\ UNCHANGED << requestVars, mapped, born, victim, stored, pairing, tornDown >>

\* main returns, and what the workers were doing is lost.
ByeClose ==
    /\ loop.doing = Bye
    /\ closed' = [s \in Sessions |-> closed[s] \/ s = loop.sess]
    /\ pairing' = {}
    /\ pc' = [c \in Commands |-> IF c \in Working THEN "dropped" ELSE pc[c]]
    /\ loop' = [doing |-> Ended, sess |-> 0]
    /\ UNCHANGED << client, typingActive, roster, kind, on, asked, plan, outcome, answers,
                    touched, mapped, born, victim, stored, tornDown >>

-----------------------------------------------------------------------------
(* Login and Logout, as far as the hub and the handlers see them.          *)

\* Close: the session tells nothing any more, and no pairing goes on.
Close(s) ==
    /\ closed' = [t \in Sessions |-> closed[t] \/ t = s]
    /\ pairing' = pairing \ {s}

\* The bundle is turned down, or a client is built and the phone is asked.
Login(c) ==
    /\ Begins(c, "login")
    /\ \/ Settle(c, "begin", "error") /\ UNCHANGED << client, pairing >>
       \/ /\ Settle(c, "begin", "ok")
          /\ client' = [client EXCEPT ![on[c]] = TRUE]
          /\ pairing' = pairing \cup {on[c]}
    /\ UNCHANGED << closed, typingActive, roster, kind, on, asked, plan, answers, touched,
                    mapped, born, loop, victim, stored, tornDown >>

PhoneConfirms(s) ==
    /\ s \in pairing /\ pairing' = pairing \ {s} /\ stored' = TRUE
    /\ UNCHANGED << requestVars, mapped, born, loop, victim, tornDown >>

\* Faulty variant: a revoke that failed counts as one that worked.
LogoutRevokeAnyway(c) ==
    /\ Begins(c, "logout") /\ Goto(c, "begin", "forget")
    /\ pairing' = pairing \ {on[c]}
    /\ UNCHANGED << session, typingActive, roster, kind, on, asked, plan, outcome, answers,
                    touched, mapped, born, loop, victim, stored, tornDown >>

\* Unpair, if there is a client; a failure keeps the session.
LogoutRevoke(c) ==
    /\ Begins(c, "logout")
    /\ \/ Goto(c, "begin", "delete") /\ UNCHANGED outcome
       \/ HasClient(c) /\ Settle(c, "begin", "error")
    /\ pairing' = pairing \ {on[c]}
    /\ UNCHANGED << session, typingActive, roster, kind, on, asked, plan, answers, touched,
                    mapped, born, loop, victim, stored, tornDown >>

\* Delete the file and tear down, account_removed and on to forget; if the
\* file stays, tear down, an error, and the session is kept.
LogoutDelete(c) ==
    /\ \/ /\ stored' = FALSE /\ Fire(c, "ok")
          /\ Goto(c, "delete", "forget") /\ UNCHANGED outcome
       \/ stored /\ Settle(c, "delete", "error") /\ UNCHANGED << stored, answers >>
    /\ client' = [client EXCEPT ![on[c]] = FALSE]
    /\ tornDown' = tornDown \cup {on[c]}
    /\ pairing' = pairing \ {on[c]}
    /\ UNCHANGED << closed, typingActive, roster, kind, on, asked, plan, touched, mapped,
                    born, loop, victim >>

\* Faulty variant: the entry is deleted and the session looked up after it.
ForgetTakeLate(c) ==
    /\ Goto(c, "forget", "close") /\ mapped' = 0
    /\ victim' = [victim EXCEPT ![c] = 0]
    /\ UNCHANGED << session, typingActive, roster, kind, on, asked, plan, outcome, answers,
                    touched, born, loop, stored, pairing, tornDown >>

\* forget: whatever session the map has now is taken out of it, ...
ForgetTake(c) ==
    /\ Goto(c, "forget", "close") /\ mapped' = 0
    /\ victim' = [victim EXCEPT ![c] = mapped]
    /\ UNCHANGED << session, typingActive, roster, kind, on, asked, plan, outcome, answers,
                    touched, born, loop, stored, pairing, tornDown >>

\* ... and closed outside the map's lock.
ForgetClose(c) ==
    /\ Goto(c, "close", "done") /\ Close(victim[c])
    /\ UNCHANGED << client, typingActive, roster, kind, on, asked, plan, outcome, answers,
                    touched, mapped, born, loop, victim, stored, tornDown >>

\* A sync or history page, for what the others see of it.
SyncEnds(c) ==
    /\ Begins(c, "sync") /\ Goto(c, "begin", "done")
    /\ UNCHANGED << session, typingActive, roster, kind, on, asked, plan, outcome, answers,
                    touched, hubVars >>

-----------------------------------------------------------------------------
\* The adapter has started; the account may have been paired before.
Init ==
    /\ RequestsInit
    /\ mapped = 0 /\ born = 0 /\ loop = [doing |-> Free, sess |-> 0]
    /\ victim = [c \in Commands |-> 0] /\ stored \in BOOLEAN
    /\ pairing = {} /\ tornDown = {}

Work(c) ==
    \/ RequestStep(c) /\ UNCHANGED hubVars
    \/ Login(c) \/ LogoutRevoke(c) \/ LogoutDelete(c) \/ ForgetTake(c) \/ ForgetClose(c)
    \/ SyncEnds(c)

Next ==
    \/ \E c \in Commands : Read(c) \/ Spawn(c) \/ Refuse(c) \/ Drop(c) \/ Work(c)
    \/ HelloLookup \/ HelloRestore \/ ByeTake \/ ByeClose
    \/ \E s \in Sessions : PhoneConfirms(s)

Spec == Init /\ [][Next]_vars

-----------------------------------------------------------------------------
(* Properties.                                                             *)

\* A Session object that is no longer in the map has been closed, or somebody
\* is about to close it: overlapping logouts and lookups leave none that
\* nobody will ever close (main.go:229-243).  It says no more than that: a
\* Login handed the session before forget runs on it after Close, builds a
\* client and waits for the phone, and nobody closes that again.
NoneLost == \A s \in 1 .. born :
    \/ loop.doing = Ended \/ s = mapped \/ closed[s]
    \/ \E c \in Commands : pc[c] = "close" /\ victim[c] = s

\* Only a logout whose revoke tore a session down, or the end of the
\* process, has a session closed (main.go:229).
ClosedForCause ==
    [][\A s \in Sessions : closed'[s] /\ ~closed[s] =>
          \/ loop.doing = Bye
          \/ \E c \in Commands : pc[c] = "close" /\ victim[c] = s /\ on[c] \in tornDown]_vars

\* Whoever sent a request id has heard of it once when its worker is through or
\* was refused, unless the session was closed over it.  A command that lacks
\* a field is dropped before it is one of these.
EndsAnswered == \A c \in Commands :
    kind[c] \in Identified /\ pc[c] \in {"show", "done"} => answers[c] = 1 \/ closed[on[c]]

\* A forget closes only what its logout tore down, never a session that has
\* a client again (main.go:231).
ForgetSparesLogins ==
    [][\A s \in Sessions : closed'[s] /\ ~closed[s] => ~client[s] \/ loop.doing = Bye]_vars
=============================================================================
