---------------------------- MODULE SessionFile ----------------------------
(***************************************************************************)
(* The session file of one account on disk (src/adapter/store.go           *)
(* WriteAuth, DeleteAuth, LoadAuth and the sweep of temp files), while     *)
(* calls interleave, fail at any step, and the machine loses its power.    *)
(*                                                                         *)
(* A directory entry that changed is certain only after the directory was  *)
(* synced, the bytes of a file only after the file was: a power loss keeps *)
(* any of what the name stood for since the last sync, and leaves a file   *)
(* that was not synced with some of its bytes.  A killed process loses     *)
(* neither.                                                                *)
(***************************************************************************)
EXTENDS Naturals, FiniteSets

CONSTANTS
    Saves,       \* calls of WriteAuth, each with its own temp file and bytes
    Deletes,     \* calls of DeleteAuth
    NoFile,      \* the name stands for nothing
    Unknown,     \* nothing has been promised about the name, or can be read
    MaxCrashes   \* bound on power losses and kills

ASSUME CallsAssumption ==
    /\ Saves \cap Deletes = {}
    /\ NoFile \notin Saves /\ Unknown \notin Saves \cup {NoFile}
ASSUME CrashesAssumption == MaxCrashes \in Nat

Calls == Saves \cup Deletes

VARIABLES
    entry,    \* what the session file's name stands for
    maybe,    \* what it may stand for after a power loss
    temps,    \* temp files in the directory
    old,      \* those older than sessionTmpMaxAge
    flushed,  \* saves whose bytes are on the disk
    torn,     \* saves whose bytes a power loss cut off
    pc,       \* each call's next step
    crashes,
    certain   \* history: what the last call that returned ok left in place,
              \* as long as no other call has touched the name

disk == << entry, maybe, temps, old, flushed, torn >>
vars == << disk, pc, crashes, certain >>

Ends == {"idle", "settle", "ok", "failed", "lost"}
States == Ends \cup {"write", "sync", "syncDir", "rename"}

PcTyped == pc \in [Calls -> States] /\ \A d \in Deletes : pc[d] \in Ends

TypeOK ==
    /\ entry \in Saves \cup {NoFile}
    /\ maybe \subseteq Saves \cup {NoFile} /\ entry \in maybe
    /\ temps \subseteq Saves /\ old \subseteq temps
    /\ flushed \subseteq Saves /\ torn \subseteq Saves
    /\ PcTyped
    /\ crashes \in 0 .. MaxCrashes
    /\ certain \in Saves \cup {NoFile, Unknown}

-----------------------------------------------------------------------------
Goto(c, here, there) == pc[c] = here /\ pc' = [pc EXCEPT ![c] = there]

\* A step fails: WriteAuth returns the error and removes its temp file, if
\* that still has its name.
Fails(s) ==
    /\ pc[s] \in {"write", "sync", "syncDir", "rename", "settle"} /\ s \in Saves
    /\ pc' = [pc EXCEPT ![s] = "failed"]
    /\ temps' = temps \ {s} /\ old' = old \ {s}
    /\ UNCHANGED << entry, maybe, flushed, torn, crashes, certain >>

CreateTemp(s) ==
    /\ Goto(s, "idle", "write") /\ s \in Saves
    /\ temps' = temps \cup {s}
    /\ UNCHANGED << entry, maybe, old, flushed, torn, crashes, certain >>

Write(s) ==
    /\ Goto(s, "write", "sync")
    /\ UNCHANGED << disk, crashes, certain >>

\* Faulty variant: the bytes are not synced before the rename.
SyncNot(s) ==
    /\ Goto(s, "sync", "syncDir")
    /\ UNCHANGED << disk, crashes, certain >>

Sync(s) ==
    /\ Goto(s, "sync", "syncDir")
    /\ flushed' = flushed \cup {s}
    /\ UNCHANGED << entry, maybe, temps, old, torn, crashes, certain >>

\* syncDir of the directory, whoever asked for it.
DirectorySynced == maybe' = {entry}

SyncDir(s) ==
    /\ Goto(s, "syncDir", "rename")
    /\ DirectorySynced
    /\ UNCHANGED << entry, temps, old, flushed, torn, crashes, certain >>

\* The name stands for something else, and for both until the next syncDir.
Becomes(file) == entry' = file /\ maybe' = maybe \cup {file} /\ certain' = Unknown

\* A temp file that was swept cannot be renamed: that is Fails.
Rename(s) ==
    /\ Goto(s, "rename", "settle") /\ s \in temps
    /\ Becomes(s)
    /\ temps' = temps \ {s} /\ old' = old \ {s}
    /\ UNCHANGED << flushed, torn, crashes >>

\* A missing file is fine.
Remove(d) ==
    /\ Goto(d, "idle", "settle") /\ d \in Deletes
    /\ IF entry = NoFile THEN UNCHANGED << entry, maybe, certain >> ELSE Becomes(NoFile)
    /\ UNCHANGED << temps, old, flushed, torn, crashes >>

DeleteFails(d) ==
    /\ d \in Deletes /\ pc[d] \in {"idle", "settle"}
    /\ pc' = [pc EXCEPT ![d] = "failed"]
    /\ UNCHANGED << disk, crashes, certain >>

\* Faulty variant: the call returns without the last syncDir.
SettleNot(c) ==
    /\ Goto(c, "settle", "ok")
    /\ certain' = entry
    /\ UNCHANGED << disk, crashes >>

\* The last syncDir of WriteAuth and DeleteAuth, and a return without error.
Settle(c) ==
    /\ Goto(c, "settle", "ok")
    /\ DirectorySynced
    /\ certain' = entry
    /\ UNCHANGED << entry, temps, old, flushed, torn, crashes >>

-----------------------------------------------------------------------------
Age == old' = temps /\ old # temps /\ UNCHANGED << entry, maybe, temps, flushed, torn, pc,
                                                   crashes, certain >>

\* Faulty variant: the pattern of the sweep matches the session file too.
SweepStagedAll ==
    /\ temps' = temps \ old /\ old' = {} /\ entry' = NoFile
    /\ UNCHANGED << maybe, flushed, torn, pc, crashes, certain >>

\* SweepStaged, at startup and now and then: old temp files go.
SweepStaged ==
    /\ temps' = temps \ old /\ old' = {}
    /\ UNCHANGED << entry, maybe, flushed, torn, pc, crashes, certain >>

\* No call survives.
Interrupted ==
    pc' = [c \in Calls |-> IF pc[c] \in {"idle", "ok", "failed"} THEN pc[c] ELSE "lost"]

Kill ==
    /\ crashes < MaxCrashes /\ crashes' = crashes + 1
    /\ Interrupted
    /\ UNCHANGED << disk, certain >>

PowerLoss ==
    /\ crashes < MaxCrashes /\ crashes' = crashes + 1
    /\ Interrupted
    /\ entry' \in maybe /\ maybe' = {entry'}
    /\ torn' = torn \cup {s \in Saves \ flushed : pc[s] # "idle"}
    /\ temps' \in SUBSET temps /\ old' = old \cap temps'
    /\ UNCHANGED << flushed, certain >>

-----------------------------------------------------------------------------
Init ==
    /\ entry = NoFile /\ maybe = {NoFile}
    /\ temps = {} /\ old = {} /\ flushed = {} /\ torn = {}
    /\ pc = [c \in Calls |-> "idle"]
    /\ crashes = 0 /\ certain = NoFile

Step(c) ==
    \/ CreateTemp(c) \/ Write(c) \/ Sync(c) \/ SyncDir(c) \/ Rename(c) \/ Fails(c)
    \/ Remove(c) \/ DeleteFails(c) \/ Settle(c)

Next == (\E c \in Calls : Step(c)) \/ Age \/ SweepStaged \/ Kill \/ PowerLoss

Spec == Init /\ [][Next]_vars

-----------------------------------------------------------------------------
(* Properties.                                                             *)

\* LoadAuth never reads part of a session: what the name stands for is whole,
\* also after a power loss at any step.
NeverTorn == entry \notin torn

\* LoadAuth: a file that was cut off cannot be read.
Read == IF entry \in torn THEN Unknown ELSE entry

\* How far a call is, as its caller and LoadAuth can tell.
Progress == [c \in Calls |-> CASE pc[c] = "settle" -> "done"
                             [] pc[c] \in {"ok", "failed", "lost"} -> pc[c]
                             [] OTHER -> "open"]

File == INSTANCE DurableFile WITH value <- Read, fallback <- maybe, calls <- Progress

\* Temp files, syncs, renames, failures, sweeps and crashes in any order come
\* to one durable file: every call takes effect in one step or not at all, and
\* what a call that returned ok left is never lost to an earlier state.
ImplementsFile == File!Spec

\* What a call that returned ok left in place is in place: a save is read
\* back and a deleted session stays deleted over any crash, until another
\* call changes the name.
OkIsKept == certain # Unknown => entry = certain

\* The inductive invariant of the proofs: the name can only come to stand for
\* whole saves, and for one thing only once that was promised.
FlushedFirst ==
    \A s \in Saves : pc[s] \in {"syncDir", "rename", "settle", "ok"} => s \in flushed

TornIsOver == flushed \cap torn = {} /\ \A s \in torn : pc[s] \in {"failed", "lost"}

TempsOwned == \A s \in temps : pc[s] \in {"write", "sync", "syncDir", "rename", "lost"}

Durable ==
    /\ TypeOK
    /\ FlushedFirst /\ TornIsOver /\ TempsOwned
    /\ maybe \ {NoFile} \subseteq flushed
    /\ certain # Unknown => maybe = {certain}
=============================================================================
