------------------------------- MODULE Staging -------------------------------
(***************************************************************************)
(* Attachments on their way to the daemon (src/adapter/messages.go         *)
(* stageMedia and what it calls; src/adapter/store.go maybeSweep and       *)
(* SweepStaged).                                                           *)
(*                                                                         *)
(* Several goroutines stage parts of messages in one directory, under the  *)
(* names the relay gives, while a sweep of one of them deletes by path.    *)
(* All parts have one name here, the worst case: path 1 is the name, path  *)
(* i the name with the prefix i.  Bytes are counted in units.              *)
(***************************************************************************)
EXTENDS Naturals, FiniteSets

CONSTANTS
    Jobs,         \* calls of stageMedia with download
    Parts,        \* media parts with an action id, by message and action id
    Earlier,      \* files an earlier run left
    EarlierSize,
    Paths,        \* names uniquePath tries
    MaxStaged,    \* MaxStagedBytes
    Cap,          \* stagedMaxBytes
    MaxHours,     \* bound on the sweep intervals that pass
    None

ASSUME StagingAssumption ==
    /\ None \notin Jobs \cup Parts \cup Earlier /\ Jobs \cap Earlier = {}
    /\ IsFiniteSet(Earlier) /\ Cardinality(Earlier) <= Paths
    /\ EarlierSize \in Nat /\ Paths \in Nat /\ MaxStaged \in Nat /\ Cap \in Nat
    /\ MaxHours \in Nat

VARIABLES
    files,    \* the directory: at each path whose file there is, and its size
    older,    \* pairs of paths with files, the first changed before the second
    aged,     \* those whose files are older than stagedMaxAge
    pc, work, \* each job: its place, its locals
    due,      \* sweepInterval has passed since lastSweep
    sweep,    \* sweepMu and the sweep's locals
    fullReq,  \* Session: fullReq, the parts asked for within fullReqTTL
    asks,     \* history: GetFullSizeImage calls for a part within fullReqTTL
    told,     \* the paths the daemon was told
    taken,    \* history: paths a sweep took from a job because it listed too much
    hours

directory == << files, older, aged >>
requests == << fullReq, asks >>
vars == << directory, pc, work, due, sweep, requests, told, taken, hours >>

Path == 1 .. Paths
NoFile == [owner |-> None, size |-> 0]
NoSweep == [job |-> None, left |-> {}, size |-> [p \in Path |-> 0], order |-> {}, total |-> 0,
            full |-> FALSE]
Work == [source : {"inline", "full", "thumbnail"}, path : 0 .. Paths,
         size : 0 .. MaxStaged + 1, wrote : 0 .. MaxStaged + 1]

NoWork == [source |-> "inline", size |-> 0, wrote |-> 0, path |-> 0]

Sizes == 0 .. EarlierSize + MaxStaged + 1

\* "full" is what a property speaks of: the files of this process that the
\* sweep lists are more than the cap, however much of the rest it takes.
Sweeps == [job : Jobs \cup {None}, left : SUBSET Path, size : [Path -> Sizes],
           order : SUBSET (Path \X Path), total : Nat, full : BOOLEAN]

TypeOK ==
    /\ files \in [Path -> [owner : Jobs \cup Earlier \cup {None}, size : Sizes]]
    /\ older \subseteq Path \X Path /\ aged \subseteq Jobs \cup Earlier
    /\ pc \in [Jobs -> {"idle", "fetch", "name", "open", "copy", "sweep", "ask", "done"}]
    /\ work \in [Jobs -> Work]
    /\ due \in BOOLEAN
    /\ sweep \in Sweeps
    /\ fullReq \subseteq Parts /\ asks \in [Parts -> Nat]
    /\ told \in [Jobs -> 0 .. Paths]
    /\ \A j \in Jobs : told[j] # 0 => work[j].size <= MaxStaged
    /\ taken \subseteq Path
    /\ hours \in 0 .. MaxHours

-----------------------------------------------------------------------------
Goto(j, here, there) == pc[j] = here /\ pc' = [pc EXCEPT ![j] = there]

\* The job's file is at its path: not so once a sweep took it.
Own(j) == work[j].path # 0 /\ files[work[j].path].owner = j

Occupied == {p \in Path : files[p] # NoFile}

\* What is left of older with these paths only.
Among(paths) == older \cap (paths \X paths)

\* Whatever is at the path now was changed last.
Touch(path) ==
    older' = Among(Path \ {path}) \cup ((Occupied \ {path}) \X {path})

\* os.Remove of whatever is at the path.
Remove(path) ==
    /\ files' = [files EXCEPT ![path] = NoFile]
    /\ older' = Among(Path \ {path})

\* A source that gave nothing: after the full object a thumbnail, if there is
\* one; then the phone is asked.  Inline bytes have no second source.
NextSource(j) ==
    \/ /\ work[j].source = "full"
       /\ pc' = [pc EXCEPT ![j] = "fetch"]
       /\ work' = [work EXCEPT ![j].source = "thumbnail", ![j].wrote = 0, ![j].path = 0]
    \/ /\ work' = [work EXCEPT ![j] = NoWork]
       /\ pc' = [pc EXCEPT ![j] = IF work[j].source = "inline" THEN "done" ELSE "ask"]

-----------------------------------------------------------------------------
(* downloadPart (messages.go:164-189), writeStaged and streamStaged        *)
(* (263-327).                                                              *)

\* Inline bytes that are too many are refused at once, and so is any part if
\* there is no client; a part with nothing to fetch is asked for.
Begin(j) ==
    /\ pc[j] = "idle"
    /\ \/ /\ \E next \in {"ask", "done"} : pc' = [pc EXCEPT ![j] = next]
          /\ UNCHANGED work
       \/ /\ pc' = [pc EXCEPT ![j] = "name"]
          /\ work' = [work EXCEPT ![j].size = MaxStaged]
       \/ /\ pc' = [pc EXCEPT ![j] = "fetch"]
          /\ \E source \in {"full", "thumbnail"} : work' = [work EXCEPT ![j].source = source]
    /\ UNCHANGED << directory, due, sweep, requests, told, taken, hours >>

\* DownloadMedia.
Fetch(j) ==
    /\ pc[j] = "fetch"
    /\ \/ /\ Goto(j, "fetch", "name")
          /\ \E size \in {MaxStaged, MaxStaged + 1} : work' = [work EXCEPT ![j].size = size]
       \/ NextSource(j)
    /\ UNCHANGED << directory, due, sweep, requests, told, taken, hours >>

Free == Path \ Occupied

\* uniquePath: the first name that is free now.
UniquePath(j) ==
    /\ pc[j] = "name"
    /\ \/ \E path \in Free :
            /\ \A other \in Free : path <= other
            /\ Goto(j, "name", "open") /\ work' = [work EXCEPT ![j].path = path]
       \/ Free = {} /\ NextSource(j)
    /\ UNCHANGED << directory, due, sweep, requests, told, taken, hours >>

Create(j, path) ==
    /\ Goto(j, "open", "copy")
    /\ files' = [files EXCEPT ![path] = [owner |-> j, size |-> 0]]
    /\ Touch(path)
    /\ UNCHANGED << aged, work, due, sweep, requests, told, taken, hours >>

\* Faulty variant: without O_EXCL the file of another is written over.
OpenAny(j) == pc[j] = "open" /\ Create(j, work[j].path)

\* O_CREATE with O_EXCL: who comes second with one name has nothing.
Open(j) ==
    /\ pc[j] = "open"
    /\ \/ files[work[j].path] = NoFile /\ Create(j, work[j].path)
       \/ /\ files[work[j].path] # NoFile /\ NextSource(j)
          /\ UNCHANGED << directory, due, sweep, requests, told, taken, hours >>

\* One more unit, which is lost if the file was taken away.
Copy(j) ==
    /\ pc[j] = "copy" /\ work[j].wrote < work[j].size
    /\ work' = [work EXCEPT ![j].wrote = @ + 1]
    /\ IF Own(j) THEN /\ files' = [files EXCEPT ![work[j].path].size = @ + 1]
                      /\ Touch(work[j].path)
                 ELSE UNCHANGED << files, older >>
    /\ UNCHANGED << aged, pc, due, sweep, requests, told, taken, hours >>

\* Copying fails, or there was more than MaxStagedBytes.
CopyFails(j) ==
    /\ pc[j] = "copy" /\ NextSource(j)
    /\ Remove(work[j].path)
    /\ UNCHANGED << aged, due, sweep, requests, told, taken, hours >>

\* Faulty variant: the cut-off object is kept.
CopiedAnyway(j) == work[j].wrote = work[j].size

Copied(j) == work[j].wrote = work[j].size /\ work[j].size <= MaxStaged

Tell(j) ==
    /\ pc' = [pc EXCEPT ![j] = "done"]
    /\ told' = [told EXCEPT ![j] = work[j].path]
    /\ work' = [work EXCEPT ![j] = [NoWork EXCEPT !.size = work[j].size]]

-----------------------------------------------------------------------------
(* maybeSweep (store.go:32-47) and SweepStaged (222-265).                  *)

\* The bytes of what is listed, one by one.
Units(paths, size) == UNION {{p} \X (1 .. size[p]) : p \in paths}

\* The files that stay for now.
Kept == {p \in Occupied : files[p].owner \notin aged}

\* The path is whole.  Whoever holds the lock, within the interval too, keeps
\* the job from sweeping.
NoSweepNow(j) ==
    /\ pc[j] = "copy" /\ Copied(j) /\ Tell(j)
    /\ sweep.job # None \/ ~due
    /\ UNCHANGED << directory, due, sweep, requests, taken, hours >>

\* What is too old goes, the rest is listed.
SweepBegin(j) ==
    /\ Copied(j) /\ Goto(j, "copy", "sweep")
    /\ sweep.job = None /\ due /\ due' = FALSE
    /\ files' = [p \in Path |-> IF p \in Kept THEN files[p] ELSE NoFile]
    /\ older' = Among(Kept)
    /\ LET size == [p \in Path |-> files[p].size] IN
       sweep' = [job |-> j, left |-> Kept, size |-> size, order |-> Among(Kept),
                 total |-> Cardinality(Units(Kept, size)),
                 full |-> Cardinality(Units({p \in Kept : files[p].owner \in Jobs}, size)) > Cap]
    /\ UNCHANGED << aged, work, requests, told, taken, hours >>

Over == sweep.left # {} /\ sweep.total > Cap

\* The oldest of the list, or whatever has its path now; a path that is gone
\* frees nothing.
SweepTake(j) ==
    /\ pc[j] = "sweep" /\ Over
    /\ \E oldest \in sweep.left :
         /\ \A other \in sweep.left : << other, oldest >> \notin sweep.order
         /\ Remove(oldest)
         /\ sweep' = [sweep EXCEPT !.left = @ \ {oldest},
                        !.total = IF oldest \in Occupied THEN @ - sweep.size[oldest] ELSE @]
         /\ taken' = IF sweep.full /\ files[oldest].owner \in Jobs THEN taken \cup {oldest}
                     ELSE taken
    /\ UNCHANGED << aged, pc, work, due, requests, told, hours >>

SweepEnd(j) ==
    /\ pc[j] = "sweep" /\ ~Over /\ Tell(j)
    /\ sweep' = NoSweep
    /\ UNCHANGED << directory, due, requests, taken, hours >>

-----------------------------------------------------------------------------
(* requestFullSize (messages.go:193-222).                                  *)

\* Faulty variant: the part is not marked.
AskUnmarked(part) ==
    /\ part \notin fullReq
    /\ asks' = [asks EXCEPT ![part] = @ + 1] /\ UNCHANGED fullReq

\* The phone is asked for a part it was not asked for within fullReqTTL.  The
\* part stays marked if the call fails.
Ask(part) ==
    /\ part \notin fullReq
    /\ fullReq' = fullReq \cup {part}
    /\ asks' = [asks EXCEPT ![part] = @ + 1]

\* A part without an action id cannot be asked for.
RequestFullSize(j) ==
    /\ Goto(j, "ask", "done")
    /\ (\E part \in Parts : Ask(part)) \/ UNCHANGED requests
    /\ UNCHANGED << directory, work, due, sweep, told, taken, hours >>

-----------------------------------------------------------------------------
(* Time.                                                                   *)

Hour ==
    /\ hours < MaxHours /\ hours' = hours + 1
    /\ due' = TRUE
    /\ \E over \in SUBSET fullReq :
         /\ fullReq' = fullReq \ over
         /\ asks' = [part \in Parts |-> IF part \in over THEN 0 ELSE asks[part]]
    /\ UNCHANGED << directory, pc, work, sweep, told, taken >>

\* A file the daemon was told of, or one of an earlier run, is a week old.
Week(path) ==
    /\ files[path].owner \in Earlier \cup {j \in Jobs : told[j] # 0}
    /\ aged' = aged \cup {files[path].owner}
    /\ aged' # aged
    /\ UNCHANGED << files, older, pc, work, due, sweep, requests, told, taken, hours >>

-----------------------------------------------------------------------------
\* main has swept what an earlier run left, which does not count for
\* lastSweep.
Init ==
    /\ \E left \in {l \in SUBSET Earlier : Cardinality(l) * EarlierSize <= Cap} :
       \E at \in [left -> Path] :
         /\ \A a, b \in left : at[a] = at[b] => a = b
         /\ files = [p \in Path |->
                       IF \E e \in left : at[e] = p
                         THEN [owner |-> CHOOSE e \in left : at[e] = p, size |-> EarlierSize]
                         ELSE NoFile]
         /\ \E rank \in [left -> 1 .. Cardinality(left)] :
              /\ \A a, b \in left : rank[a] = rank[b] => a = b
              /\ older = {<< at[c[1]], at[c[2]] >> :
                            c \in {d \in left \X left : rank[d[1]] < rank[d[2]]}}
    /\ aged = {}
    /\ pc = [j \in Jobs |-> "idle"]
    /\ work = [j \in Jobs |-> NoWork]
    /\ due = TRUE /\ sweep = NoSweep
    /\ fullReq = {} /\ asks = [part \in Parts |-> 0]
    /\ told = [j \in Jobs |-> 0] /\ taken = {}
    /\ hours = 0

Next ==
    \/ \E j \in Jobs : \/ Begin(j) \/ Fetch(j) \/ UniquePath(j) \/ Open(j)
                       \/ Copy(j) \/ CopyFails(j) \/ NoSweepNow(j)
                       \/ SweepBegin(j) \/ SweepTake(j) \/ SweepEnd(j)
                       \/ RequestFullSize(j)
    \/ Hour \/ \E path \in Path : Week(path)

Spec == Init /\ [][Next]_vars

-----------------------------------------------------------------------------
(* Properties.                                                             *)

\* A path the daemon was told has all the bytes of its own part until it is a
\* week old, whatever name races, failed copies and sweeps there are, unless a
\* sweep took the path because the files this process had staged, in the
\* sweep's own listing, were more than the cap: an earlier run's files, a file
\* that grows after it was listed, or a path that changes hands are no excuse.
\* Once a sweep did, what is at that path is up to chance: the job whose file
\* it was may fail and remove another's.
ToldHolds ==
    \A j \in Jobs : told[j] # 0 /\ j \notin aged /\ told[j] \notin taken =>
        files[told[j]] = [owner |-> j, size |-> work[j].size]

\* However many goroutines find a part without bytes, the phone is asked for
\* it once within fullReqTTL.
AskedOnce == \A part \in Parts : asks[part] <= 1
==============================================================================
