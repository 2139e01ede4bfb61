------------------------- MODULE SessionFileProofs -------------------------
(***************************************************************************)
(* Theorems about SessionFile, for any number of saves, deletions, kills   *)
(* and power losses.                                                       *)
(***************************************************************************)
EXTENDS SessionFile, TLAPS

\* A save's step belongs to a save, and leaves the deletions alone.
LEMMA SaveStep ==
    ASSUME TypeOK, NEW c \in Calls, NEW here \in States \ Ends,
           NEW there \in States, Goto(c, here, there)
    PROVE  c \in Saves /\ PcTyped'
  BY CallsAssumption DEF TypeOK, Goto, PcTyped, Calls, States, Ends

\* A step to an end keeps the types whoever makes it.
LEMMA EndStep ==
    ASSUME TypeOK, NEW c \in Calls, NEW there \in Ends, pc' = [pc EXCEPT ![c] = there]
    PROVE  PcTyped'
  BY DEF TypeOK, PcTyped, States, Ends

LEMMA InterruptedTyped ==
    ASSUME TypeOK, Interrupted
    PROVE  PcTyped'
  BY DEF TypeOK, Interrupted, PcTyped, Calls, States, Ends

\* A change of the name keeps its types.
LEMMA BecomesTyped ==
    ASSUME TypeOK, NEW file \in Saves \cup {NoFile}, Becomes(file)
    PROVE  /\ entry' \in Saves \cup {NoFile}
           /\ maybe' \subseteq Saves \cup {NoFile} /\ entry' \in maybe'
           /\ certain' \in Saves \cup {NoFile, Unknown}
  BY DEF TypeOK, Becomes

-----------------------------------------------------------------------------
(* Every step keeps the types.                                             *)

LEMMA SaveStepTyped ==
    ASSUME TypeOK, NEW c \in Calls,
           CreateTemp(c) \/ Write(c) \/ Sync(c) \/ SyncDir(c) \/ Rename(c) \/ Fails(c)
    PROVE  TypeOK'
  <1>1. CASE CreateTemp(c)
    <2>1. PcTyped'
      BY <1>1, CallsAssumption DEF CreateTemp, TypeOK, Goto, PcTyped, Calls, States, Ends
    <2> QED
      BY <1>1, <2>1 DEF CreateTemp, TypeOK
  <1>2. CASE Write(c)
    <2>1. c \in Saves /\ PcTyped'
      BY <1>2, SaveStep DEF Write, States, Ends
    <2> QED
      BY <1>2, <2>1 DEF Write, disk, TypeOK
  <1>3. CASE Sync(c)
    <2>1. c \in Saves /\ PcTyped'
      BY <1>3, SaveStep DEF Sync, States, Ends
    <2> QED
      BY <1>3, <2>1 DEF Sync, TypeOK
  <1>4. CASE SyncDir(c)
    <2>1. c \in Saves /\ PcTyped'
      BY <1>4, SaveStep DEF SyncDir, States, Ends
    <2> QED
      BY <1>4, <2>1 DEF SyncDir, DirectorySynced, TypeOK
  <1>5. CASE Rename(c)
    <2>1. c \in Saves /\ PcTyped'
      BY <1>5, SaveStep DEF Rename, States, Ends
    <2> QED
      BY <1>5, <2>1, BecomesTyped DEF Rename, TypeOK
  <1>6. CASE Fails(c)
    <2>1. PcTyped'
      BY <1>6, EndStep DEF Fails, Ends
    <2> QED
      BY <1>6, <2>1 DEF Fails, TypeOK
  <1> QED
    BY <1>1, <1>2, <1>3, <1>4, <1>5, <1>6

LEMMA EndStepTyped ==
    ASSUME TypeOK, NEW c \in Calls, Remove(c) \/ DeleteFails(c) \/ Settle(c)
    PROVE  TypeOK'
  <1>1. CASE Remove(c)
    <2>1. PcTyped'
      BY <1>1, EndStep DEF Remove, Goto, Ends
    <2>2. CASE entry = NoFile
      BY <1>1, <2>1, <2>2 DEF Remove, TypeOK
    <2>3. CASE entry # NoFile
      BY <1>1, <2>1, <2>3, BecomesTyped DEF Remove, TypeOK
    <2> QED
      BY <2>2, <2>3
  <1>2. CASE DeleteFails(c)
    <2>1. PcTyped'
      BY <1>2, EndStep DEF DeleteFails, Ends
    <2> QED
      BY <1>2, <2>1 DEF DeleteFails, disk, TypeOK
  <1>3. CASE Settle(c)
    <2>1. PcTyped'
      BY <1>3, EndStep DEF Settle, Goto, Ends
    <2> QED
      BY <1>3, <2>1 DEF Settle, DirectorySynced, TypeOK
  <1> QED
    BY <1>1, <1>2, <1>3

LEMMA OtherStepTyped ==
    ASSUME TypeOK, Age \/ SweepStaged \/ Kill \/ PowerLoss
    PROVE  TypeOK'
  <1>1. CASE Age
    BY <1>1 DEF Age, PcTyped, TypeOK
  <1>2. CASE SweepStaged
    BY <1>2 DEF SweepStaged, PcTyped, TypeOK
  <1>3. CASE Kill
    BY <1>3, InterruptedTyped, CrashesAssumption DEF Kill, disk, TypeOK
  <1>4. CASE PowerLoss
    BY <1>4, InterruptedTyped, CrashesAssumption DEF PowerLoss, TypeOK
  <1> QED
    BY <1>1, <1>2, <1>3, <1>4

LEMMA TypeInit == Init => TypeOK
  BY CrashesAssumption, CallsAssumption DEF Init, TypeOK, PcTyped, States, Ends, Calls

LEMMA TypeStep == TypeOK /\ [Next]_vars => TypeOK'
  <1> SUFFICES ASSUME TypeOK, [Next]_vars PROVE TypeOK'
    OBVIOUS
  <1>1. CASE \E c \in Calls : Step(c)
    BY <1>1, SaveStepTyped, EndStepTyped DEF Step
  <1>2. CASE Age \/ SweepStaged \/ Kill \/ PowerLoss
    BY <1>2, OtherStepTyped
  <1>3. CASE UNCHANGED vars
    BY <1>3 DEF vars, disk, TypeOK, PcTyped
  <1> QED
    BY <1>1, <1>2, <1>3 DEF Next

\* Every state of SessionFile is well typed.
THEOREM TypeCorrect == Spec => []TypeOK
  BY TypeInit, TypeStep, PTL DEF Spec

-----------------------------------------------------------------------------
(* Every step keeps Durable.                                               *)

\* What is flushed grows with the steps of a save, and stays out of what is
\* torn.
LEMMA FlushedFirstKept ==
    ASSUME Durable, NEW c \in Calls, Step(c), TypeOK'
    PROVE  FlushedFirst' /\ TornIsOver' /\ TempsOwned'
  <1> USE DEF Durable, FlushedFirst, TornIsOver, TempsOwned, TypeOK, PcTyped
  <1>1. CASE CreateTemp(c)
    BY <1>1 DEF CreateTemp, Goto
  <1>2. CASE Write(c)
    BY <1>2 DEF Write, Goto, disk
  <1>3. CASE Sync(c)
    BY <1>3 DEF Sync, Goto
  <1>4. CASE SyncDir(c)
    BY <1>4 DEF SyncDir, Goto
  <1>5. CASE Rename(c)
    BY <1>5 DEF Rename, Goto
  <1>6. CASE Fails(c)
    BY <1>6 DEF Fails
  <1>7. CASE Remove(c)
    BY <1>7, CallsAssumption DEF Remove, Goto
  <1>8. CASE DeleteFails(c)
    BY <1>8, CallsAssumption DEF DeleteFails, disk
  <1>9. CASE Settle(c)
    BY <1>9 DEF Settle, Goto
  <1> QED
    BY <1>1, <1>2, <1>3, <1>4, <1>5, <1>6, <1>7, <1>8, <1>9 DEF Step

\* The name changes to a save that was flushed before, or to no file, and is
\* promised only once the directory was synced.
LEMMA NameKept ==
    ASSUME Durable, NEW c \in Calls, Step(c)
    PROVE  /\ maybe' \ {NoFile} \subseteq flushed'
           /\ certain' # Unknown => maybe' = {certain'}
  <1> USE DEF Durable
  <1>1. CASE CreateTemp(c) \/ Write(c) \/ Sync(c) \/ Fails(c) \/ DeleteFails(c)
    BY <1>1 DEF CreateTemp, Write, Sync, Fails, DeleteFails, disk
  <1>2. CASE SyncDir(c)
    BY <1>2 DEF SyncDir, DirectorySynced, TypeOK
  <1>3. CASE Rename(c)
    <2>1. c \in flushed
      BY <1>3 DEF Rename, Goto, FlushedFirst, TypeOK
    <2> QED
      BY <1>3, <2>1 DEF Rename, Becomes
  <1>4. CASE Remove(c)
    BY <1>4 DEF Remove, Becomes
  <1>5. CASE Settle(c)
    BY <1>5 DEF Settle, DirectorySynced, TypeOK
  <1> QED
    BY <1>1, <1>2, <1>3, <1>4, <1>5 DEF Step

LEMMA CrashKeeps ==
    ASSUME Durable, Kill \/ PowerLoss, TypeOK'
    PROVE  Durable'
  <1> USE DEF Durable, FlushedFirst, TornIsOver, TempsOwned
  <1>1. CASE Kill
    BY <1>1 DEF Kill, Interrupted, disk, TypeOK, Calls
  <1>2. CASE PowerLoss
    <2>1. FlushedFirst' /\ TornIsOver' /\ TempsOwned'
      BY <1>2 DEF PowerLoss, Interrupted, TypeOK, PcTyped, States, Ends, Calls
    <2>2. /\ maybe' \ {NoFile} \subseteq flushed'
          /\ certain' # Unknown => maybe' = {certain'}
      BY <1>2 DEF PowerLoss
    <2> QED
      BY <2>1, <2>2
  <1> QED
    BY <1>1, <1>2

LEMMA DurableStep ==
    ASSUME Durable, [Next]_vars
    PROVE  Durable'
  <1>1. TypeOK'
    BY TypeStep DEF Durable
  <1>2. CASE \E c \in Calls : Step(c)
    BY <1>1, <1>2, FlushedFirstKept, NameKept DEF Durable
  <1>3. CASE Age \/ SweepStaged
    BY <1>1, <1>3 DEF Age, SweepStaged, Durable, FlushedFirst, TornIsOver, TempsOwned
  <1>4. CASE Kill \/ PowerLoss
    BY <1>1, <1>4, CrashKeeps
  <1>5. CASE UNCHANGED vars
    BY <1>1, <1>5 DEF vars, disk, Durable, FlushedFirst, TornIsOver, TempsOwned
  <1> QED
    BY <1>2, <1>3, <1>4, <1>5 DEF Next

\* The invariant of the proofs holds of every state.
THEOREM DurableAlways == Spec => []Durable
  <1>1. Init => Durable
    BY TypeInit DEF Init, Durable, FlushedFirst, TornIsOver, TempsOwned, Calls
  <1> QED
    BY <1>1, DurableStep, PTL DEF Spec

\* LoadAuth never reads part of a session, whatever calls ran or failed and
\* whenever the power went (store.go WriteAuth).
THEOREM NeverReadsTorn == Spec => []NeverTorn
  <1>1. Durable => NeverTorn
    BY CallsAssumption DEF Durable, TornIsOver, TypeOK, NeverTorn
  <1> QED
    BY <1>1, DurableAlways, PTL

\* A save or a deletion that returned ok survives every crash, until another
\* call changes the name.
THEOREM OkSurvives == Spec => []OkIsKept
  <1>1. Durable => OkIsKept
    BY DEF Durable, TypeOK, OkIsKept
  <1> QED
    BY <1>1, DurableAlways, PTL

-----------------------------------------------------------------------------
(* SessionFile implements DurableFile.                                     *)

Shown(place) == CASE place = "settle" -> "done"
                  [] place \in {"ok", "failed", "lost"} -> place
                  [] OTHER -> "open"

\* A call that goes on is seen to go on, the others are seen to stand.
LEMMA ProgressOf ==
    ASSUME TypeOK, NEW c \in Calls, NEW there, pc' = [pc EXCEPT ![c] = there]
    PROVE  /\ Progress[c] = Shown(pc[c])
           /\ Progress' = [Progress EXCEPT ![c] = Shown(there)]
  <1>1. \A u \in Calls : pc'[u] = IF u = c THEN there ELSE pc[u]
    BY DEF TypeOK, PcTyped
  <1>2. Progress = [u \in Calls |-> Shown(pc[u])]
    BY DEF Progress, Shown
  <1>3. Progress' = [u \in Calls |-> Shown(pc'[u])]
    BY DEF Progress, Shown
  <1> QED
    BY <1>1, <1>2, <1>3

LEMMA ProgressKept == ASSUME UNCHANGED pc PROVE Progress' = Progress
  BY DEF Progress

LEMMA ReadIs == (Durable => Read = entry) /\ (Durable' => Read' = entry')
  BY CallsAssumption DEF Durable, TornIsOver, TypeOK, Read

LEMMA StepImplements ==
    ASSUME Durable, Durable', NEW c \in Calls, Step(c)
    PROVE  [File!Next]_(File!vars)
  <1>1. TypeOK /\ Read = entry /\ Read' = entry' /\ entry \in maybe
    BY ReadIs DEF Durable, TypeOK
  <1>2. c \in Saves \cup Deletes
    BY DEF Calls
  <1>3. ASSUME NEW there, pc' = [pc EXCEPT ![c] = there], Shown(there) = Shown(pc[c])
        PROVE  Progress' = Progress
    <2>1. Progress[c] = Shown(there) /\ Progress' = [Progress EXCEPT ![c] = Shown(there)]
      BY <1>1, <1>3, ProgressOf
    <2> QED
      BY <2>1 DEF Progress
  <1>4. CASE CreateTemp(c) \/ Write(c) \/ Sync(c) \/ SyncDir(c)
    <2>1. \E there \in {"write", "sync", "syncDir", "rename"} : pc' = [pc EXCEPT ![c] = there]
      BY <1>4 DEF CreateTemp, Write, Sync, SyncDir, Goto
    <2>2. pc[c] \in {"idle", "write", "sync", "syncDir"}
      BY <1>4 DEF CreateTemp, Write, Sync, SyncDir, Goto
    <2>3. Progress' = Progress
      BY <1>3, <2>1, <2>2 DEF Shown
    <2>4. CASE SyncDir(c)
      <3>1. File!Settle
        BY <1>1, <2>3, <2>4 DEF SyncDir, DirectorySynced, File!Settle
      <3> QED
        BY <3>1 DEF File!Next
    <2>5. CASE ~SyncDir(c)
      BY <1>1, <1>4, <2>3, <2>5 DEF CreateTemp, Write, Sync, disk, File!vars
    <2> QED
      BY <2>4, <2>5
  <1>5. CASE Rename(c)
    <2>1. /\ pc[c] = "rename" /\ pc' = [pc EXCEPT ![c] = "settle"]
          /\ entry' = c /\ maybe' = maybe \cup {c}
      BY <1>5 DEF Rename, Goto, Becomes
    <2>2. c \in Saves
      BY <1>1, <2>1 DEF TypeOK, PcTyped, Calls, Ends
    <2>3. Progress[c] = "open" /\ Progress' = [Progress EXCEPT ![c] = "done"]
      BY <1>1, <2>1, ProgressOf DEF Shown
    <2>4. File!Effect(c)
      BY <1>1, <2>1, <2>2, <2>3 DEF File!Effect, File!Ends, File!Left
    <2> QED
      BY <1>2, <2>4 DEF File!Next
  <1>6. CASE Remove(c)
    <2>1. pc[c] = "idle" /\ pc' = [pc EXCEPT ![c] = "settle"] /\ c \notin Saves
      BY <1>6, CallsAssumption DEF Remove, Goto
    <2>2. entry' = NoFile /\ maybe' = maybe \cup {NoFile}
      BY <1>1, <1>6 DEF Remove, Becomes
    <2>3. Progress[c] = "open" /\ Progress' = [Progress EXCEPT ![c] = "done"]
      BY <1>1, <2>1, ProgressOf DEF Shown
    <2>4. File!Effect(c)
      BY <1>1, <2>1, <2>2, <2>3 DEF File!Effect, File!Ends, File!Left
    <2> QED
      BY <1>2, <2>4 DEF File!Next
  <1>7. CASE Fails(c) \/ DeleteFails(c)
    <2>1. /\ pc' = [pc EXCEPT ![c] = "failed"]
          /\ pc[c] \in {"write", "sync", "syncDir", "rename", "settle", "idle"}
          /\ UNCHANGED << entry, maybe >>
      BY <1>7 DEF Fails, DeleteFails, disk
    <2>2. Progress[c] \in {"open", "done"} /\ Progress' = [Progress EXCEPT ![c] = "failed"]
      BY <1>1, <2>1, ProgressOf DEF Shown
    <2>3. File!Fail(c)
      BY <1>1, <2>1, <2>2 DEF File!Fail, File!Ends
    <2> QED
      BY <1>2, <2>3 DEF File!Next
  <1>8. CASE Settle(c)
    <2>1. /\ pc[c] = "settle" /\ pc' = [pc EXCEPT ![c] = "ok"]
          /\ maybe' = {entry} /\ entry' = entry
      BY <1>8 DEF Settle, Goto, DirectorySynced
    <2>2. Progress[c] = "done" /\ Progress' = [Progress EXCEPT ![c] = "ok"]
      BY <1>1, <2>1, ProgressOf DEF Shown
    <2>3. File!Ok(c)
      BY <1>1, <2>1, <2>2 DEF File!Ok, File!Ends
    <2> QED
      BY <1>2, <2>3 DEF File!Next
  <1> QED
    BY <1>4, <1>5, <1>6, <1>7, <1>8 DEF Step

LEMMA CrashImplements ==
    ASSUME Durable, Durable', Kill \/ PowerLoss
    PROVE  File!Crash
  <1>1. Read = entry /\ Read' = entry'
    BY ReadIs
  <1>2. PICK begun \in SUBSET Calls :
          begun = {c \in Calls : pc[c] \in {"write", "sync", "syncDir", "rename"}}
    OBVIOUS
  <1>3. Interrupted
    BY DEF Kill, PowerLoss
  <1>4. DOMAIN Progress = Calls
    BY DEF Progress
  <1>5. begun \in SUBSET {c \in DOMAIN Progress : Progress[c] = "open"}
    BY <1>2, <1>4 DEF Progress
  <1>6. \A c \in Calls : pc[c] \in States
    BY DEF Durable, TypeOK, PcTyped
  <1>7. Progress' = [c \in DOMAIN Progress |->
                       IF c \in begun \/ Progress[c] = "done" THEN "lost" ELSE Progress[c]]
    <2>1. ASSUME NEW c \in Calls
          PROVE  Progress'[c] = IF c \in begun \/ Progress[c] = "done" THEN "lost"
                                                                       ELSE Progress[c]
      BY <1>2, <1>3, <1>6 DEF Interrupted, Progress, States, Ends
    <2>2. Progress' = [c \in Calls |-> Progress'[c]]
      BY DEF Progress
    <2> QED
      BY <1>4, <2>1, <2>2
  <1>8. (entry' \in maybe /\ maybe' = {entry'}) \/ UNCHANGED << entry, maybe >>
    BY DEF Kill, PowerLoss, disk
  <1> QED
    BY <1>1, <1>5, <1>7, <1>8 DEF File!Crash

\* Whatever calls interleave, fail, are swept around or are cut short by kills
\* and power losses: a session file is one durable value.  Every save and
\* deletion takes effect in one step or never, and what one that returned ok
\* left is never lost to an earlier value (store.go WriteAuth, DeleteAuth,
\* LoadAuth, SweepStaged).
THEOREM FileIsDurable == Spec => ImplementsFile
  <1>1. Init => File!Init
    BY CallsAssumption DEF Init, File!Init, Read, Progress, Calls
  <1>2. Durable /\ Durable' /\ [Next]_vars => [File!Next]_(File!vars)
    <2> SUFFICES ASSUME Durable, Durable', [Next]_vars PROVE [File!Next]_(File!vars)
      OBVIOUS
    <2>1. CASE Age \/ SweepStaged \/ UNCHANGED vars
      <3>1. UNCHANGED << entry, maybe, pc >>
        BY <2>1 DEF Age, SweepStaged, vars, disk
      <3> QED
        BY <3>1, ReadIs, ProgressKept DEF File!vars
    <2>2. CASE Kill \/ PowerLoss
      BY <2>2, CrashImplements DEF File!Next
    <2> QED
      BY <2>1, <2>2, StepImplements DEF Next
  <1> QED
    BY <1>1, <1>2, DurableAlways, PTL DEF Spec, ImplementsFile, File!Spec
=============================================================================
