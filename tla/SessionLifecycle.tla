-------------------------- MODULE SessionLifecycle --------------------------
(***************************************************************************)
(* One account's Session (src/adapter/session.go, src/adapter/send.go):    *)
(* login, pairing, the reconnect loop, session-file saves, logout, restore *)
(* and close, run by goroutines that share the Session under s.mu and      *)
(* s.saveMu.                                                               *)
(*                                                                         *)
(* A Login or a Restore call builds one auth object and one relay client   *)
(* and is then one chain of goroutines: Login, finishPairing (send.go:141) *)
(* and connectLoop (session.go:453) follow one another and never overlap.  *)
(* An "era" names that call, its auth object, its client, its pairing and  *)
(* its reconnect loop at once.  A step of the model is one critical        *)
(* section of s.mu, or one call to the relay or the disk.                  *)
(***************************************************************************)
EXTENDS Naturals, Sequences

CONSTANTS
    Logins,          \* eras begun by a login command
    Restores,        \* eras begun by Restore, for a hello
    Logouts,         \* workers that run a logout command
    EventLoop,       \* the one consumer of relay events
    NoEra,           \* nil: no client, no auth, no cancel function
    NoFile,          \* the account has no session file
    RepeatedHello,   \* may a hello arrive after other commands?
    MaxRelayEvents   \* bound on the relay events of a behaviour

Eras == Logins \cup Restores
Workers == Eras \cup Logouts \cup {EventLoop}
\* What a session file holds: credentials, which the phone confirmed or not,
\* and which the relay refreshed some number of times.
Auth == [auth : Eras, paired : BOOLEAN, token : Nat]

ASSUME WorkersAssumption ==
    /\ Logins \cap Restores = {}
    /\ Eras \cap Logouts = {}
    /\ EventLoop \notin Eras \cup Logouts
    /\ NoEra \notin Workers

ASSUME FileAssumption == NoFile \notin Auth

ASSUME BoundAssumption == RepeatedHello \in BOOLEAN /\ MaxRelayEvents \in Nat

VARIABLES
    s,              \* the fields of the Session that s.mu guards
    saveMu,         \* who holds s.saveMu
    events,         \* the relay event queue
    pc, lc, cl,     \* each goroutine: where it is, its lifecycle, its client
    snap,           \* the auth a save marshalled
    inLoop,         \* eras whose reconnect loop has started
    pairCancelled, loopCancelled,   \* contexts cancelled so far
    pairPolls, loopPolls,           \* long polls the relay serves
    paired,         \* auth objects whose pairing the phone confirmed
    everConnected,  \* clients whose Connect succeeded
    file,           \* the session file
    told,           \* the last account event the daemon read
    relayed,        \* relay events delivered so far
    refreshed,      \* how often the relay refreshed each auth object's token
    lastPublished,  \* history: lifecycle of the newest published save
    wipedAt         \* history: lifecycle of the last clean teardown

goroutines == << pc, lc, cl, snap, inLoop >>
contexts == << pairCancelled, loopCancelled >>
relay == << pairPolls, loopPolls, paired, everConnected, relayed, refreshed >>
history == << lastPublished, wipedAt >>
disk == << file, history >>
vars == << s, saveMu, events, goroutines, contexts, relay, disk, told >>

Session ==
    [lifecycle : Nat, closed : BOOLEAN,
     client : Eras \cup {NoEra}, auth : Eras \cup {NoEra},
     clientGen : Eras \cup {NoEra}, ps : Eras \cup {NoEra},
     pairCancel : Eras \cup {NoEra}, connectCancel : Eras \cup {NoEra},
     connected : BOOLEAN, authenticated : BOOLEAN]

States ==
    {"idle", "done"}
      \cup {"swap", "config", "start", "check", "phone", "answered", "refused", "report"}
      \cup {"build", "runloop"}
      \cup {"top", "fetch", "connect", "commit", "announce", "emit", "fatal"}
      \cup {"save", "recheck", "write", "lost"}
      \cup {"retire", "revoke", "delete", "keep", "teardown", "removed", "forget"}

TypeOK ==
    /\ s \in Session
    /\ saveMu \in Workers \cup {NoEra}
    /\ events \in Seq([lifecycle : Nat, kind : {"refreshed", "lost"}])
    /\ pc \in [Workers -> States]
    /\ lc \in [Workers -> Nat]
    /\ cl \in [Workers -> Eras \cup {NoEra}]
    /\ snap \in [Workers -> Auth \cup {NoFile}]
    /\ inLoop \subseteq Eras
    /\ pairCancelled \subseteq Eras
    /\ loopCancelled \subseteq Eras
    /\ pairPolls \subseteq Eras
    /\ loopPolls \subseteq [client : Eras, loop : Eras]
    /\ paired \subseteq Eras
    /\ everConnected \subseteq Eras
    /\ file \in Auth \cup {NoFile}
    /\ told \in {"nothing", "offline", "pairing", "online", "removed"}
    /\ relayed \in Nat /\ refreshed \in [Eras -> Nat]
    /\ lastPublished \in Nat /\ wipedAt \in Nat

-----------------------------------------------------------------------------
(* What the operations are made of.                                        *)

Goto(w, here, there) == pc[w] = here /\ pc' = [pc EXCEPT ![w] = there]

\* fire: an account event reaches the daemon unless the session is closed.
Fire(event) == told' = IF s.closed THEN told ELSE event

Current(w) == s.lifecycle = lc[w]

\* Faulty variant: the rechecks forget lifecycle and client.
OwnsUnfenced(e) == ~s.closed

\* ownsClient, and the recheck of connectOnce before it goes online.
Owns(e) == Current(e) /\ s.client = cl[e] /\ ~s.closed

\* The stale test of finishPairing, before and after the phone answers.
PairingCurrent(e) == Current(e) /\ s.client = e /\ s.auth = e /\ s.ps = e

\* A cancelled context or a disconnected client ends the polls it carries.
EndPolls(pairings, loops, clients) ==
    /\ pairPolls' = pairPolls \ (pairings \cup clients)
    /\ loopPolls' = {p \in loopPolls : p.loop \notin loops /\ p.client \notin clients}

\* Faulty variant of CancelPairing: the nil test is dropped.
CancelPairingNil == pairCancelled' = pairCancelled \cup {s.pairCancel}

CancelPairing == pairCancelled' = pairCancelled \cup ({s.pairCancel} \ {NoEra})
CancelLoop == loopCancelled' = loopCancelled \cup ({s.connectCancel} \ {NoEra})

\* The command loop runs Restore itself: it dispatches nothing meanwhile,
\* but a command dispatched before a repeated hello runs beside it.
Restoring == \E r \in Restores : pc[r] \in {"build", "runloop"}
MayRun == RepeatedHello \/ ~Restoring

\* No command has been dispatched yet.
Fresh == \A w \in Eras \cup Logouts : pc[w] = "idle"

-----------------------------------------------------------------------------
(* Login (send.go:59-142) and finishPairing (send.go:144-184).             *)

\* Login takes its lifecycle in a critical section of its own.
LoginRetire(e) ==
    /\ e \in Logins /\ MayRun
    /\ Goto(e, "idle", "swap")
    /\ s' = [s EXCEPT !.lifecycle = @ + 1]
    /\ lc' = [lc EXCEPT ![e] = s.lifecycle + 1]
    /\ UNCHANGED << saveMu, events, cl, snap, inLoop, contexts, relay, disk, told >>

\* Stop the earlier pairing, loop and client, go offline, build the client.
LoginSwap(e) ==
    /\ Goto(e, "swap", "config")
    /\ CancelPairing
    /\ CancelLoop
    /\ EndPolls({s.pairCancel}, {s.connectCancel}, {s.client})
    /\ s' = [s EXCEPT !.pairCancel = NoEra, !.connectCancel = NoEra,
                      !.connected = FALSE, !.authenticated = FALSE,
                      !.auth = e, !.client = e, !.clientGen = e]
    /\ Fire("offline")
    /\ UNCHANGED << saveMu, events, lc, cl, snap, inLoop, paired, everConnected,
                    relayed, refreshed, disk >>

\* FetchConfig fails, or Login records how to cancel its pairing.
LoginConfig(e) ==
    /\ \/ Goto(e, "config", "done") /\ UNCHANGED s
       \/ /\ Goto(e, "config", "start")
          /\ s' = [s EXCEPT !.pairCancel = e]
    /\ UNCHANGED << saveMu, events, lc, cl, snap, inLoop, contexts, relay, disk, told >>

\* StartGaiaPairing fails, or the pairing poll runs and the prompt is shown.
LoginStart(e) ==
    /\ \/ /\ Goto(e, "start", "done")
          /\ UNCHANGED << s, pairPolls, told >>
       \/ /\ Goto(e, "start", "check")
          /\ e \notin pairCancelled
          /\ s' = [s EXCEPT !.ps = e]
          /\ pairPolls' = pairPolls \cup {e}
          /\ Fire("pairing")
    /\ UNCHANGED << saveMu, events, lc, cl, snap, inLoop, contexts, loopPolls, paired,
                    everConnected, relayed, refreshed, disk >>

\* finishPairing gives up at once when a newer login replaced it.
PairingCheck(e) ==
    /\ Goto(e, "check", IF PairingCurrent(e) THEN "phone" ELSE "done")
    /\ UNCHANGED << s, saveMu, events, lc, cl, snap, inLoop, contexts, relay, disk, told >>

\* FinishGaiaPairing: the phone confirms, or refuses, or is cancelled.
PhoneAnswers(e) ==
    /\ \/ /\ Goto(e, "phone", "answered")
          /\ e \notin pairCancelled
          /\ paired' = paired \cup {e}
       \/ Goto(e, "phone", "refused") /\ UNCHANGED paired
    /\ UNCHANGED << s, saveMu, events, lc, cl, snap, inLoop, contexts, pairPolls,
                    loopPolls, everConnected, relayed, refreshed, disk, told >>

\* A stale completion stops; a current one ends the pairing and its poll,
\* and a refusal is reported if the context is not cancelled after that.
PairingSettle(e) ==
    /\ pc[e] \in {"answered", "refused"}
    /\ IF PairingCurrent(e)
         THEN /\ CancelPairing
              /\ pc' = [pc EXCEPT ![e] =
                           CASE @ = "answered" -> "save"
                             [] @ = "refused" /\ e \in pairCancelled' -> "done"
                             [] @ = "refused" /\ e \notin pairCancelled' -> "report"]
              /\ s' = [s EXCEPT !.ps = NoEra, !.pairCancel = NoEra]
              /\ EndPolls({s.pairCancel}, {},
                          IF pc[e] = "answered" THEN {e} ELSE {})
         ELSE /\ pc' = [pc EXCEPT ![e] = "done"]
              /\ UNCHANGED << s, pairCancelled, pairPolls, loopPolls >>
    /\ UNCHANGED << saveMu, events, lc, cl, snap, inLoop, loopCancelled, paired,
                    everConnected, relayed, refreshed, disk, told >>

\* The error event of a failed pairing.
PairingReport(e) ==
    /\ Goto(e, "report", "done")
    /\ UNCHANGED << s, saveMu, events, lc, cl, snap, inLoop, contexts, relay, disk, told >>

-----------------------------------------------------------------------------
(* Restore (session.go:459-477), run by the command loop for a hello.      *)

\* LoadAuth: without a stored session nothing happens.
RestoreLoad(r) ==
    /\ r \in Restores /\ ~Restoring
    /\ RepeatedHello \/ Fresh
    /\ Goto(r, "idle", IF file = NoFile THEN "done" ELSE "build")
    /\ paired' = IF file # NoFile /\ file.paired THEN paired \cup {r} ELSE paired
    /\ UNCHANGED << s, saveMu, events, lc, cl, snap, inLoop, contexts, pairPolls,
                    loopPolls, everConnected, relayed, refreshed, disk, told >>

\* Install the loaded auth and a client for it; an earlier client, and the
\* connected flag, stay as they were.
RestoreBuild(r) ==
    /\ r \in Restores
    /\ Goto(r, "build", "runloop")
    /\ s' = [s EXCEPT !.auth = r, !.client = r, !.clientGen = r,
                      !.authenticated = r \in paired]
    /\ Fire("offline")
    /\ UNCHANGED << saveMu, events, lc, cl, snap, inLoop, contexts, relay, disk >>

-----------------------------------------------------------------------------
(* The reconnect loop (session.go:444-454, 479-592).                       *)

\* Faulty variant: the loop before is not stopped.
StartLoopOnly(e) ==
    /\ Goto(e, "runloop", "top")
    /\ s' = [s EXCEPT !.connectCancel = e]
    /\ inLoop' = inLoop \cup {e}
    /\ UNCHANGED << saveMu, events, lc, cl, snap, contexts, relay, disk, told >>

\* runConnectLoop stops the loop before it and starts this one.
StartLoop(e) ==
    /\ Goto(e, "runloop", "top")
    /\ CancelLoop
    /\ EndPolls({}, {s.connectCancel}, {})
    /\ s' = [s EXCEPT !.connectCancel = e]
    /\ inLoop' = inLoop \cup {e}
    /\ UNCHANGED << saveMu, events, lc, cl, snap, pairCancelled, paired, everConnected,
                    relayed, refreshed, disk, told >>

\* Faulty variant: a retry keeps the lifecycle of the first attempt.
LoopTopOnce(e) ==
    /\ IF e \in loopCancelled \/ s.closed
         THEN Goto(e, "top", "done") /\ UNCHANGED << lc, cl >>
         ELSE /\ s.client # NoEra
              /\ Goto(e, "top", "fetch")
              /\ lc' = [lc EXCEPT ![e] = IF cl[e] = NoEra THEN s.lifecycle ELSE @]
              /\ cl' = [cl EXCEPT ![e] = s.client]
    /\ UNCHANGED << s, saveMu, events, snap, inLoop, contexts, relay, disk, told >>

\* One attempt begins: capture client and lifecycle.  Without a client the
\* attempt fails and the loop backs off to the top again.
LoopTop(e) ==
    /\ IF e \in loopCancelled \/ s.closed
         THEN Goto(e, "top", "done") /\ UNCHANGED << lc, cl >>
         ELSE /\ s.client # NoEra
              /\ Goto(e, "top", "fetch")
              /\ lc' = [lc EXCEPT ![e] = s.lifecycle]
              /\ cl' = [cl EXCEPT ![e] = s.client]
    /\ UNCHANGED << s, saveMu, events, snap, inLoop, contexts, relay, disk, told >>

\* A relay call of the attempt fails: retry, or stop on rejected credentials.
LoopFails(e) ==
    /\ \E here \in {"fetch", "connect"} :
         \/ Goto(e, here, "top")
         \/ e \notin loopCancelled /\ Goto(e, here, "fatal")
    /\ UNCHANGED << s, saveMu, events, lc, cl, snap, inLoop, contexts, relay, disk, told >>

\* FetchConfig succeeds; the attempt goes on only while it owns the client.
LoopFetched(e) ==
    /\ e \notin loopCancelled
    /\ Goto(e, "fetch", IF Owns(e) THEN "connect" ELSE "top")
    /\ UNCHANGED << s, saveMu, events, lc, cl, snap, inLoop, contexts, relay, disk, told >>

\* Connect succeeds: the client polls under the context of this loop.
LoopConnected(e) ==
    /\ Goto(e, "connect", "commit")
    /\ e \notin loopCancelled
    /\ cl[e] \in paired
    /\ loopPolls' = loopPolls \cup {[client |-> cl[e], loop |-> e]}
    /\ everConnected' = everConnected \cup {cl[e]}
    /\ UNCHANGED << s, saveMu, events, lc, cl, snap, inLoop, contexts, pairPolls, paired,
                    relayed, refreshed, disk, told >>

\* Online, unless the attempt was retired meanwhile.
LoopCommit(e) ==
    /\ IF Owns(e)
         THEN /\ Goto(e, "commit", "announce")
              /\ s' = [s EXCEPT !.connected = TRUE, !.authenticated = TRUE]
         ELSE Goto(e, "commit", "top") /\ UNCHANGED s
    /\ UNCHANGED << saveMu, events, lc, cl, snap, inLoop, contexts, relay, disk, told >>

\* fireIfCurrent: the check and the emission are not one step.
LoopAnnounce(e) ==
    /\ Goto(e, "announce", IF Current(e) THEN "emit" ELSE "save")
    /\ UNCHANGED << s, saveMu, events, lc, cl, snap, inLoop, contexts, relay, disk, told >>

LoopEmit(e) ==
    /\ Goto(e, "emit", "save")
    /\ Fire("online")
    /\ UNCHANGED << s, saveMu, events, lc, cl, snap, inLoop, contexts, relay, disk >>

\* Rejected credentials end the loop; this step checks no lifecycle.
LoopFatal(e) ==
    /\ Goto(e, "fatal", "done")
    /\ s' = [s EXCEPT !.connected = FALSE, !.authenticated = FALSE]
    /\ Fire("offline")
    /\ UNCHANGED << saveMu, events, lc, cl, snap, inLoop, contexts, relay, disk >>

-----------------------------------------------------------------------------
(* saveAuthIfCurrent (session.go:389-411), by a pairing, a loop, or the    *)
(* event loop.                                                             *)

\* Where the caller goes on.
AfterSave(w) == CASE w = EventLoop -> "idle"
                  [] w \in inLoop -> "done"
                  [] OTHER -> "runloop"

\* A failed write ends a pairing; the other callers only log it.
AfterFailedSave(w) == IF w = EventLoop THEN "idle" ELSE "done"

Marshalled(a) == [auth |-> a, paired |-> a \in paired, token |-> refreshed[a]]

\* First check, and the marshalling that follows it.
SaveBegin(w) ==
    /\ IF Current(w) /\ s.auth # NoEra
         THEN /\ Goto(w, "save", "recheck")
              /\ snap' = [snap EXCEPT ![w] = Marshalled(s.auth)]
         ELSE Goto(w, "save", AfterSave(w)) /\ UNCHANGED snap
    /\ UNCHANGED << s, saveMu, events, lc, cl, inLoop, contexts, relay, disk, told >>

\* Faulty variant: saveMu is taken, the second check is gone.
SaveRecheckBlind(w) ==
    /\ saveMu = NoEra
    /\ Goto(w, "recheck", "write")
    /\ saveMu' = w
    /\ UNCHANGED << s, events, lc, cl, snap, inLoop, contexts, relay, disk, told >>

\* Faulty variant: the second check is made without saveMu.
SaveRecheckUnserialized(w) ==
    /\ pc[w] = "recheck"
    /\ Goto(w, "recheck", IF Current(w) /\ s.auth = snap[w].auth
                            THEN "write" ELSE AfterSave(w))
    /\ UNCHANGED << s, saveMu, events, lc, cl, snap, inLoop, contexts, relay, disk, told >>

\* Take saveMu and check again under it.
SaveRecheck(w) ==
    /\ pc[w] = "recheck" /\ saveMu = NoEra
    /\ IF Current(w) /\ s.auth = snap[w].auth
         THEN Goto(w, "recheck", "write") /\ saveMu' = w /\ UNCHANGED snap
         ELSE /\ Goto(w, "recheck", AfterSave(w))
              /\ snap' = [snap EXCEPT ![w] = NoFile]
              /\ UNCHANGED saveMu
    /\ UNCHANGED << s, events, lc, cl, inLoop, contexts, relay, disk, told >>

\* WriteAuth renames the new file into place; it fails before the rename, or
\* after it when the directory cannot be synced.  saveMu is released.
SaveWrite(w) ==
    /\ \/ /\ Goto(w, "write", AfterSave(w)) \/ Goto(w, "write", AfterFailedSave(w))
          /\ file' = snap[w]
          /\ lastPublished' = lc[w]
       \/ Goto(w, "write", AfterFailedSave(w)) /\ UNCHANGED << file, lastPublished >>
    /\ saveMu' = NoEra
    /\ snap' = [snap EXCEPT ![w] = NoFile]
    /\ UNCHANGED << s, events, lc, cl, inLoop, contexts, relay, told, wipedAt >>

-----------------------------------------------------------------------------
(* Relay events (session.go:236-246, 594-611, 675-720).                    *)

\* A polling client reports that it refreshed its token, or the end of its session.
\* Only the newest client is heard, and its event is stamped with the
\* lifecycle of the moment.
RelayEvent ==
    /\ relayed < MaxRelayEvents
    /\ \/ /\ \E p \in loopPolls : p.client = s.clientGen
          /\ \E kind \in {"refreshed", "lost"} :
               /\ events' = Append(events, [lifecycle |-> s.lifecycle, kind |-> kind])
               /\ refreshed' = IF kind = "refreshed"
                                 THEN [refreshed EXCEPT ![s.clientGen] = @ + 1] ELSE refreshed
       \/ /\ s.clientGen \in pairPolls
          /\ events' = Append(events, [lifecycle |-> s.lifecycle, kind |-> "lost"])
          /\ UNCHANGED refreshed
    /\ relayed' = relayed + 1
    /\ UNCHANGED << s, saveMu, goroutines, contexts, pairPolls, loopPolls, paired,
                    everConnected, disk, told >>

\* eventLoop drops an event of another lifecycle, and starts to handle one
\* of its own.
EventDequeue ==
    /\ ~s.closed /\ events # << >> /\ pc[EventLoop] = "idle"
    /\ events' = Tail(events)
    /\ IF Head(events).lifecycle = s.lifecycle
         THEN /\ lc' = [lc EXCEPT ![EventLoop] = s.lifecycle]
              /\ pc' = [pc EXCEPT ![EventLoop] =
                          IF Head(events).kind = "lost" THEN "lost" ELSE "save"]
         ELSE UNCHANGED << lc, pc >>
    /\ UNCHANGED << s, saveMu, cl, snap, inLoop, contexts, relay, disk, told >>

\* GaiaLoggedOut or a fatal listen error: offline, unless retired.
EventLost ==
    /\ Goto(EventLoop, "lost", "idle")
    /\ IF Current(EventLoop)
         THEN /\ s' = [s EXCEPT !.connected = FALSE, !.authenticated = FALSE]
              /\ Fire("offline")
         ELSE UNCHANGED << s, told >>
    /\ UNCHANGED << saveMu, events, lc, cl, snap, inLoop, contexts, relay, disk >>

-----------------------------------------------------------------------------
(* Logout, teardown and Close (send.go:804-884).                           *)

LogoutBegin(o) ==
    /\ o \in Logouts /\ MayRun
    /\ Goto(o, "idle", "retire")
    /\ CancelPairing
    /\ EndPolls({s.pairCancel}, {}, {})
    /\ s' = [s EXCEPT !.pairCancel = NoEra]
    /\ cl' = [cl EXCEPT ![o] = s.client]
    /\ UNCHANGED << saveMu, events, lc, snap, inLoop, loopCancelled, paired,
                    everConnected, relayed, refreshed, disk, told >>

LogoutRetire(o) ==
    /\ Goto(o, "retire", IF cl[o] = NoEra THEN "delete" ELSE "revoke")
    /\ s' = [s EXCEPT !.lifecycle = @ + 1]
    /\ UNCHANGED << saveMu, events, lc, cl, snap, inLoop, contexts, relay, disk, told >>

\* Unpair fails and the session is kept, or the client is disconnected.
LogoutRevoke(o) ==
    /\ \/ Goto(o, "revoke", "done") /\ UNCHANGED << pairPolls, loopPolls >>
       \/ Goto(o, "revoke", "delete") /\ EndPolls({}, {}, {cl[o]})
    /\ UNCHANGED << s, saveMu, events, lc, cl, snap, inLoop, contexts, paired,
                    everConnected, relayed, refreshed, disk, told >>

\* DeleteAuth takes no lock; it may fail before or after it removed the file.
LogoutDelete(o) ==
    /\ \/ Goto(o, "delete", "teardown") /\ file' = NoFile
       \/ Goto(o, "delete", "keep") /\ file' \in {file, NoFile}
    /\ UNCHANGED << s, saveMu, events, lc, cl, snap, inLoop, contexts, relay,
                    history, told >>

TornDown == [s EXCEPT !.client = NoEra, !.auth = NoEra, !.connected = FALSE,
                      !.authenticated = FALSE, !.lifecycle = @ + 1]

\* teardown; after a failed deletion the account is reported offline and
\* the session is not forgotten.
LogoutTeardown(o) ==
    /\ s' = TornDown
    /\ \/ /\ Goto(o, "teardown", "removed")
          /\ wipedAt' = IF saveMu = NoEra /\ file = NoFile
                          THEN s.lifecycle + 1 ELSE wipedAt
          /\ UNCHANGED told
       \/ Goto(o, "keep", "done") /\ Fire("offline") /\ UNCHANGED wipedAt
    /\ UNCHANGED << saveMu, events, lc, cl, snap, inLoop, contexts, relay, file,
                    lastPublished >>

LogoutReport(o) ==
    /\ Goto(o, "removed", "forget")
    /\ Fire("removed")
    /\ UNCHANGED << s, saveMu, events, lc, cl, snap, inLoop, contexts, relay, disk >>

\* Faulty variant: the reconnect loop is left to find out by itself.
CloseLeavesLoop ==
    /\ CancelPairing /\ UNCHANGED loopCancelled
    /\ EndPolls({s.pairCancel}, {}, {s.client})
    /\ s' = [s EXCEPT !.closed = TRUE, !.pairCancel = NoEra, !.connectCancel = NoEra,
                      !.lifecycle = @ + 1]

\* Close: stop everything, retire the lifecycle, disconnect, delete nothing.
Close ==
    /\ CancelPairing /\ CancelLoop
    /\ EndPolls({s.pairCancel}, {s.connectCancel}, {s.client})
    /\ s' = [s EXCEPT !.closed = TRUE, !.pairCancel = NoEra, !.connectCancel = NoEra,
                      !.lifecycle = @ + 1]

\* After a successful logout the hub forgets the session and closes it.
LogoutForget(o) ==
    /\ Goto(o, "forget", "done")
    /\ Close
    /\ UNCHANGED << saveMu, events, lc, cl, snap, inLoop, paired, everConnected,
                    relayed, refreshed, disk, told >>

\* The helper shuts down and closes its sessions.
Shutdown ==
    /\ ~s.closed
    /\ Close
    /\ UNCHANGED << saveMu, events, goroutines, paired, everConnected, relayed, refreshed,
                    disk, told >>

-----------------------------------------------------------------------------
Init ==
    /\ s = [lifecycle |-> 0, closed |-> FALSE, client |-> NoEra, auth |-> NoEra,
            clientGen |-> NoEra, ps |-> NoEra, pairCancel |-> NoEra,
            connectCancel |-> NoEra, connected |-> FALSE, authenticated |-> FALSE]
    /\ saveMu = NoEra
    /\ events = << >>
    /\ pc = [w \in Workers |-> "idle"]
    /\ lc = [w \in Workers |-> 0]
    /\ cl = [w \in Workers |-> NoEra]
    /\ snap = [w \in Workers |-> NoFile]
    /\ inLoop = {} /\ pairCancelled = {} /\ loopCancelled = {}
    /\ pairPolls = {} /\ loopPolls = {} /\ paired = {} /\ everConnected = {}
    /\ file \in {NoFile} \cup [auth : Restores, paired : {TRUE}, token : {0}]
    /\ told = "nothing"
    /\ relayed = 0 /\ refreshed = [e \in Eras |-> 0]
    /\ lastPublished = 0 /\ wipedAt = 0

PairingStep(e) == \/ LoginSwap(e) \/ LoginConfig(e) \/ LoginStart(e)
                  \/ PairingCheck(e) \/ PhoneAnswers(e) \/ PairingSettle(e)
                  \/ PairingReport(e) \/ RestoreBuild(e) \/ StartLoop(e)
LoopStep(e) == \/ LoopTop(e) \/ LoopFails(e) \/ LoopFetched(e) \/ LoopConnected(e)
               \/ LoopCommit(e) \/ LoopAnnounce(e) \/ LoopEmit(e) \/ LoopFatal(e)
SaveStep(w) == SaveBegin(w) \/ SaveRecheck(w) \/ SaveWrite(w)
LogoutStep(o) == \/ LogoutRetire(o) \/ LogoutRevoke(o) \/ LogoutDelete(o)
                 \/ LogoutTeardown(o) \/ LogoutReport(o) \/ LogoutForget(o)
EventStep == EventDequeue \/ EventLost

Next ==
    \/ \E e \in Eras : LoginRetire(e) \/ RestoreLoad(e) \/ PairingStep(e) \/ LoopStep(e)
    \/ \E w \in Eras \cup {EventLoop} : SaveStep(w)
    \/ \E o \in Logouts : LogoutBegin(o) \/ LogoutStep(o)
    \/ RelayEvent \/ EventStep \/ Shutdown

Spec == Init /\ [][Next]_vars

\* A goroutine that can run does run, and a relay that keeps being asked
\* keeps answering (an outage ends).  Nothing makes the user confirm a
\* pairing on the phone, so PhoneAnswers has no fairness.
Fairness ==
    /\ \A e \in Eras :
         /\ WF_vars(PairingStep(e) /\ pc[e] # "phone")
         /\ WF_vars(LoopStep(e))
         /\ SF_vars(LoopFetched(e))
         /\ SF_vars(LoopConnected(e))
    /\ \A w \in Eras \cup {EventLoop} : WF_vars(SaveStep(w))
    /\ \A o \in Logouts : WF_vars(LogoutStep(o))
    /\ WF_vars(EventStep)

FairSpec == Spec /\ Fairness

-----------------------------------------------------------------------------
(* Properties.                                                             *)

LiveLoops == {e \in inLoop : pc[e] # "done" /\ e \notin loopCancelled}

\* Re-login never leaves two reconnect loops racing over one account: the
\* only loop that is still wanted is the one connectCancel can stop
\* (runConnectLoop, Login and Close hand the cancel function over).
AtMostOneLiveLoop == \A e \in LiveLoops : s.connectCancel = e

\* Every long poll that a reconnect loop began, ended or not, is one that
\* connectCancel can still stop: none leaks when loops replace one another
\* (runConnectLoop, Login and Close take the function before they call it).
LoopPollsStoppable == \A p \in loopPolls : p.loop = s.connectCancel

\* Close leaves no reconnect loop's client polling the relay, and no attempt
\* that was under way when it ran connects one afterwards.
ClosedServesNoLoop == s.closed => loopPolls = {}

\* An online session has a client, the relay accepted that very client, and
\* its auth was confirmed by the phone: no late attempt of a retired loop
\* brings a replaced or torn-down session online (connectOnce's rechecks
\* against Login, teardown and Close).
OnlineIsEarned == s.connected => s.client \in everConnected \cap paired

\* Once a logout tore the session down with the file gone and no save past
\* its recheck, a file can only come back from a save of that lifecycle or
\* a later one: saves captured before the logout never publish.
CleanLogoutHolds == wipedAt > 0 /\ file # NoFile => lastPublished >= wipedAt

\* Saves run concurrently, and those of different lifecycles never publish
\* out of order (session.go:100): what is on disk is not replaced by a save
\* of an older lifecycle, and a save of a newer one brings credentials that
\* are not older, neither unconfirmed nor with an earlier token.  Two saves of
\* one lifecycle do overtake one another: both marshal before saveMu.
NotOlder(b, a) == b.auth = a.auth => a.token <= b.token /\ (a.paired => b.paired)
PublishesInOrder ==
    [][ /\ lastPublished' >= lastPublished
        /\ lastPublished' > lastPublished /\ file # NoFile => NotOlder(file', file) ]_vars

\* A loop that has not connected yet gets its account online once the relay
\* answers, also across a logout whose revoke fails, which retires the lifecycle
\* the attempt began with: unless the loop is cancelled or the session closed,
\* the credentials are rejected, or there is no paired client to connect.
Reconnecting == {e \in LiveLoops : pc[e] \in {"top", "fetch", "connect", "commit"}}
Reconnects ==
    \A e \in Eras :
        e \in Reconnecting ~> \/ s.connected
                              \/ e \in loopCancelled \/ s.closed
                              \/ pc[e] = "fatal" \/ s.client \notin paired

-----------------------------------------------------------------------------
(* What the code means to do and does not.                                 *)

\* send.go:168: a failed pairing is reported to the user ("pairing rejected:
\* wrong confirmation on phone", send.go:191) unless it had been cancelled.
FailedPairingReported ==
    [][ \A e \in Logins :
          /\ pc[e] = "refused" /\ pc'[e] # "refused"
          /\ PairingCurrent(e) /\ e \notin pairCancelled
          => pc'[e] = "report" ]_vars
=============================================================================
