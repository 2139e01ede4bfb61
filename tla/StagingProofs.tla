---------------------------- MODULE StagingProofs ----------------------------
(***************************************************************************)
(* Theorems about Staging, for any number of jobs, parts and paths.        *)
(***************************************************************************)
EXTENDS Staging, FiniteSetTheorems, TLAPS

\* A part was asked for once since it was marked, and not since it lost its
\* mark, whoever asks and however the jobs that ask end.
Marked ==
    /\ fullReq \subseteq Parts /\ asks \in [Parts -> Nat]
    /\ \A part \in Parts : asks[part] <= (IF part \in fullReq THEN 1 ELSE 0)

LEMMA AskMarked ==
    ASSUME Marked, NEW part \in Parts, Ask(part)
    PROVE  Marked'
  <1>1. asks[part] = 0
    BY DEF Marked, Ask
  <1> QED
    BY <1>1 DEF Marked, Ask

LEMMA HourMarked ==
    ASSUME Marked, Hour
    PROVE  Marked'
  <1>1. PICK over \in SUBSET fullReq :
          /\ fullReq' = fullReq \ over
          /\ asks' = [part \in Parts |-> IF part \in over THEN 0 ELSE asks[part]]
    BY DEF Hour
  <1> QED
    BY <1>1 DEF Marked

LEMMA MarkedStep == Marked /\ [Next]_vars => Marked'
  <1> SUFFICES ASSUME Marked, [Next]_vars PROVE Marked'
    OBVIOUS
  <1>1. CASE UNCHANGED requests
    BY <1>1 DEF Marked, requests
  <1>2. ASSUME NEW j \in Jobs, RequestFullSize(j) PROVE Marked'
    BY <1>1, <1>2, AskMarked DEF RequestFullSize
  <1>3. ASSUME NEW j \in Jobs,
               \/ Begin(j) \/ Fetch(j) \/ UniquePath(j) \/ Open(j) \/ Copy(j) \/ CopyFails(j)
               \/ NoSweepNow(j) \/ SweepBegin(j) \/ SweepTake(j) \/ SweepEnd(j)
        PROVE  UNCHANGED requests
    BY <1>3 DEF Begin, Fetch, UniquePath, Open, Create, Copy, CopyFails, NoSweepNow, SweepBegin,
                SweepTake, SweepEnd
  <1>4. ASSUME NEW path \in Path, Week(path) PROVE UNCHANGED requests
    BY <1>4 DEF Week
  <1>5. UNCHANGED vars => UNCHANGED requests
    BY DEF vars
  <1> QED
    BY <1>1, <1>2, <1>3, <1>4, <1>5, HourMarked DEF Next

\* However many goroutines stage a part whose bytes are missing, the phone is
\* asked for it once within fullReqTTL, also when the call fails
\* (messages.go:200-222).
THEOREM PhoneAskedOnce == Spec => []AskedOnce
  <1>1. Init => Marked
    BY DEF Init, Marked
  <1>2. Marked => AskedOnce
    BY DEF Marked, AskedOnce
  <1> QED
    BY <1>1, <1>2, MarkedStep, PTL DEF Spec

-----------------------------------------------------------------------------
(* The inductive invariant.  A job has one file at most, at the path it    *)
(* writes or told, unless a sweep took that path while it was full; a file *)
(* of an earlier run is older than any of theirs.  While a sweep that is   *)
(* not full is over the cap, then, what it lists has a file of an earlier  *)
(* run, which goes first.                                                  *)

Typed ==
    /\ files \in [Path -> [owner : Jobs \cup Earlier \cup {None}, size : Sizes]]
    /\ older \subseteq Path \X Path /\ aged \subseteq Jobs \cup Earlier
    /\ pc \in [Jobs -> {"idle", "fetch", "name", "open", "copy", "sweep", "ask", "done"}]
    /\ work \in [Jobs -> Work]
    /\ due \in BOOLEAN
    /\ sweep \in Sweeps
    /\ told \in [Jobs -> 0 .. Paths]
    /\ \A j \in Jobs : told[j] # 0 => work[j].size <= MaxStaged
    /\ taken \subseteq Path
    /\ hours \in 0 .. MaxHours

Writes(j) == pc[j] \in {"copy", "sweep"}

\* Where a job is and what its locals say.
Places ==
    \A j \in Jobs :
      /\ pc[j] \in {"open", "copy", "sweep"} => work[j].path # 0
      /\ pc[j] = "sweep" => work[j].wrote = work[j].size /\ work[j].size <= MaxStaged
      /\ pc[j] \in {"idle", "fetch", "name", "open"} => work[j].wrote = 0
      /\ told[j] # 0 => pc[j] = "done"
      /\ j \in aged => told[j] # 0

\* A job's file is where the job or what it told says, if no full sweep took
\* it, and no job writes where a file of an earlier run is.
HasFile(j) ==
    /\ Writes(j) => files[work[j].path].owner = j \/ work[j].path \in taken
    /\ Writes(j) => files[work[j].path].owner \notin Earlier
    /\ told[j] # 0 /\ j \notin aged => files[told[j]].owner = j \/ told[j] \in taken

OneFile(j) ==
    \A p \in Path : files[p].owner = j =>
        \/ Writes(j) /\ work[j].path = p /\ files[p].size = work[j].wrote
        \/ told[j] = p /\ files[p].size = work[j].size

Held == \A j \in Jobs : HasFile(j) /\ OneFile(j)

Empty == \A p \in Path : files[p].owner = None => files[p] = NoFile

\* What an earlier run left is older than what a job writes.
EarlierFirst ==
    \A p, q \in Path : files[p].owner \in Earlier /\ files[q].owner \in Jobs =>
        << p, q >> \in older

\* Of what a sweep lists, the paths without a file of an earlier run.
Ours == {p \in sweep.left : files[p].owner \notin Earlier}

Swept ==
    /\ \A j \in Jobs : pc[j] = "sweep" <=> sweep.job = j
    /\ sweep.total >= Cardinality(Units(sweep.left, sweep.size))
    /\ ~sweep.full =>
         /\ sweep.total = Cardinality(Units(sweep.left, sweep.size))
         /\ \A p \in sweep.left \ Ours, q \in Ours : << p, q >> \in sweep.order
         /\ Cardinality(Units(Ours, sweep.size)) <= Cap

StagingInv == Typed /\ Places /\ Held /\ Empty /\ EarlierFirst /\ Swept

-----------------------------------------------------------------------------
(* Counting units.                                                         *)

LEMMA UnitsAre ==
    ASSUME NEW paths \in SUBSET Path, NEW size \in [Path -> Sizes]
    PROVE  Units(paths, size) = {u \in paths \X Sizes : 1 <= u[2] /\ u[2] <= size[u[1]]}
  <1>1. ASSUME NEW u \in Units(paths, size)
        PROVE  u \in paths \X Sizes /\ 1 <= u[2] /\ u[2] <= size[u[1]]
    <2>1. PICK p \in paths : u \in {p} \X (1 .. size[p])
      BY DEF Units
    <2>2. size[p] \in Sizes
      OBVIOUS
    <2>3. u[1] = p /\ u[2] \in 1 .. size[p] /\ u = << u[1], u[2] >>
      BY <2>1
    <2>4. u[2] \in Sizes /\ 1 <= u[2] /\ u[2] <= size[p]
      BY <2>2, <2>3, StagingAssumption DEF Sizes
    <2> QED
      BY <2>3, <2>4
  <1>2. ASSUME NEW u \in paths \X Sizes, 1 <= u[2], u[2] <= size[u[1]]
        PROVE  u \in Units(paths, size)
    <2>1. u[1] \in paths /\ u[2] \in Sizes /\ size[u[1]] \in Sizes /\ u = << u[1], u[2] >>
      OBVIOUS
    <2>2. u[2] \in 1 .. size[u[1]]
      BY <1>2, <2>1, StagingAssumption DEF Sizes
    <2>3. u \in {u[1]} \X (1 .. size[u[1]])
      BY <2>1, <2>2
    <2> QED
      BY <2>1, <2>3 DEF Units
  <1> QED
    BY <1>1, <1>2

LEMMA UnitsFinite ==
    ASSUME NEW paths \in SUBSET Path, NEW size \in [Path -> Sizes]
    PROVE  /\ IsFiniteSet(Units(paths, size))
           /\ Cardinality(Units(paths, size)) \in Nat
  <1>1. IsFiniteSet(Path) /\ IsFiniteSet(Sizes)
    BY FS_Interval, StagingAssumption DEF Path, Sizes
  <1>2. IsFiniteSet(paths)
    BY <1>1, FS_Subset
  <1>3. IsFiniteSet(paths \X Sizes)
    BY <1>1, <1>2, FS_Product
  <1>4. Units(paths, size) \in SUBSET (paths \X Sizes)
    BY UnitsAre
  <1> QED
    BY <1>3, <1>4, FS_Subset, FS_CardinalityType

LEMMA UnitsWithout ==
    ASSUME NEW paths \in SUBSET Path, NEW size \in [Path -> Sizes], NEW p \in paths
    PROVE  Cardinality(Units(paths \ {p}, size)) = Cardinality(Units(paths, size)) - size[p]
  <1> DEFINE rest == Units(paths \ {p}, size)
             mine == {p} \X (1 .. size[p])
  <1>1. size[p] \in Nat
    BY StagingAssumption DEF Sizes
  <1>2. IsFiniteSet(mine) /\ Cardinality(mine) = size[p]
    <2>1. IsFiniteSet({p}) /\ Cardinality({p}) = 1
      BY FS_Singleton
    <2>2. IsFiniteSet(1 .. size[p]) /\ Cardinality(1 .. size[p]) = size[p]
      BY <1>1, FS_Interval
    <2>3. IsFiniteSet(mine) /\ Cardinality(mine) = Cardinality({p}) * Cardinality(1 .. size[p])
      BY <2>1, <2>2, FS_Product
    <2> QED
      BY <1>1, <2>1, <2>2, <2>3
  <1>3. IsFiniteSet(rest) /\ Cardinality(rest) \in Nat
    BY UnitsFinite
  <1>4. rest \cap mine = {}
    BY DEF Units
  <1>5. Units(paths, size) = rest \cup mine
    BY DEF Units
  <1>6. Cardinality(rest \cap mine) = 0
    BY <1>4, FS_EmptySet
  <1> HIDE DEF rest, mine
  <1>7. Cardinality(rest \cup mine) = Cardinality(rest) + Cardinality(mine)
                                        - Cardinality(rest \cap mine)
    BY <1>2, <1>3, FS_Union
  <1> QED
    BY <1>1, <1>2, <1>3, <1>5, <1>6, <1>7 DEF rest

-----------------------------------------------------------------------------
(* What a step leaves as it was.                                           *)

States == {"idle", "fetch", "name", "open", "copy", "sweep", "ask", "done"}

LEMMA PathsAre == ASSUME NEW p \in 0 .. Paths, p # 0 PROVE p \in Path
  BY StagingAssumption DEF Path

\* Locals that are typed, in their parts.
LEMMA WorkIs ==
    ASSUME Typed, NEW j \in Jobs
    PROVE  /\ work[j] \in Work
           /\ work[j].path \in 0 .. Paths /\ work[j].size \in 0 .. MaxStaged + 1
           /\ work[j].wrote \in 0 .. MaxStaged + 1
           /\ work[j].source \in {"inline", "full", "thumbnail"}
  BY DEF Typed, Work

\* No step but the sweep's own disturbs what a sweep relies on, if it leaves
\* the files of an earlier run alone.
LEMMA SweptStays ==
    ASSUME Typed, Swept, UNCHANGED sweep,
           \A j \in Jobs : pc'[j] = "sweep" <=> pc[j] = "sweep",
           \A p \in Path : files'[p].owner \in Earlier <=> files[p].owner \in Earlier
    PROVE  Swept'
  <1>1. sweep.left \subseteq Path
    BY DEF Typed, Sweeps
  <1>2. Ours' = Ours
    BY <1>1 DEF Ours
  <1>3. sweep' = sweep /\ Units(sweep'.left, sweep'.size) = Units(sweep.left, sweep.size)
    OBVIOUS
  <1>4. (sweep.total >= Cardinality(Units(sweep.left, sweep.size)))'
    BY DEF Swept, Units
  <1>5. ASSUME ~sweep'.full
        PROVE  /\ (sweep.total = Cardinality(Units(sweep.left, sweep.size)))'
               /\ (\A p \in sweep.left \ Ours, q \in Ours : << p, q >> \in sweep.order)'
               /\ (Cardinality(Units(Ours, sweep.size)) <= Cap)'
    <2>1. ~sweep.full
      BY <1>5
    <2>2. (sweep.total = Cardinality(Units(sweep.left, sweep.size)))'
      BY <2>1 DEF Swept, Units
    <2>3. (\A p \in sweep.left \ Ours, q \in Ours : << p, q >> \in sweep.order)'
      BY <1>2, <2>1 DEF Swept
    <2>4. (Cardinality(Units(Ours, sweep.size)) <= Cap)'
      BY <1>2, <2>1 DEF Swept, Units
    <2> QED
      BY <2>2, <2>3, <2>4
  <1>6. (\A j \in Jobs : pc[j] = "sweep" <=> sweep.job = j)'
    BY DEF Swept
  <1> QED
    BY <1>4, <1>5, <1>6 DEF Swept

\* A job moves that has no file before or after.
LEMMA QuietKeeps ==
    ASSUME StagingInv, NEW j \in Jobs,
           pc[j] \notin {"copy", "sweep", "done"},
           NEW there \in States \ {"copy", "sweep"}, pc' = [pc EXCEPT ![j] = there],
           NEW now \in Work, work' = [work EXCEPT ![j] = now],
           there = "open" => now.path # 0,
           there \in {"idle", "fetch", "name", "open"} => now.wrote = 0,
           UNCHANGED << directory, due, sweep, told, taken, hours >>
    PROVE  StagingInv'
  <1>1. UNCHANGED << files, older, aged >>
    BY DEF directory
  <1>2. \A u \in Jobs : /\ pc'[u] = IF u = j THEN there ELSE pc[u]
                        /\ work'[u] = IF u = j THEN now ELSE work[u]
    BY DEF StagingInv, Typed
  <1>3. told[j] = 0 /\ j \notin aged
    BY DEF StagingInv, Places
  <1>4. Typed'
    <2>1. pc' \in [Jobs -> States]
      BY DEF StagingInv, Typed, States
    <2>2. work' \in [Jobs -> Work]
      BY DEF StagingInv, Typed
    <2>3. \A u \in Jobs : told'[u] # 0 => work'[u].size <= MaxStaged
      BY <1>2, <1>3 DEF StagingInv, Typed
    <2> QED
      BY <1>1, <2>1, <2>2, <2>3 DEF StagingInv, Typed, States
  <1>5. Places'
    BY <1>1, <1>2, <1>3 DEF StagingInv, Places
  <1>6. \A u \in Jobs : Writes(u)' <=> Writes(u)
    BY <1>2 DEF Writes
  <1>7. \A u \in Jobs : Writes(u) \/ told[u] # 0 => work'[u] = work[u]
    BY <1>2, <1>3 DEF Writes
  <1>8. Held'
    <2>1. ASSUME NEW u \in Jobs PROVE HasFile(u)'
      BY <1>1, <1>6, <1>7 DEF StagingInv, Held, HasFile
    <2>2. ASSUME NEW u \in Jobs PROVE OneFile(u)'
      <3>1. told'[u] = told[u] /\ \A p \in Path : p # 0
        BY DEF Path
      <3> QED
        BY <1>1, <1>6, <1>7, <3>1 DEF StagingInv, Held, OneFile
    <2> QED
      BY <2>1, <2>2 DEF Held
  <1>9. Empty' /\ EarlierFirst'
    BY <1>1 DEF StagingInv, Empty, EarlierFirst
  <1>10. Swept'
    BY <1>1, <1>2, SweptStays DEF StagingInv
  <1> QED
    BY <1>4, <1>5, <1>8, <1>9, <1>10 DEF StagingInv

\* A directory in which only the file at one path changes, which no earlier
\* run left, keeps what an earlier run left the oldest: the path has no file
\* now, or was changed last.
LEMMA EarlierStays ==
    ASSUME StagingInv, NEW path \in Path, files[path].owner \notin Earlier,
           NEW now \in [owner : Jobs \cup {None}, size : Sizes],
           files' = [files EXCEPT ![path] = now],
           Among(Path \ {path}) \subseteq older',
           now.owner # None => Touch(path)
    PROVE  /\ EarlierFirst'
           /\ \A p \in Path : files'[p].owner \in Earlier <=> files[p].owner \in Earlier
           /\ files' \in [Path -> [owner : Jobs \cup Earlier \cup {None}, size : Sizes]]
           /\ \A p \in Path : files'[p] = IF p = path THEN now ELSE files[p]
  <1>1. \A p \in Path : files'[p] = IF p = path THEN now ELSE files[p]
    BY DEF StagingInv, Typed
  <1>2. files' \in [Path -> [owner : Jobs \cup Earlier \cup {None}, size : Sizes]]
    BY DEF StagingInv, Typed
  <1>3. now.owner \notin Earlier
    BY StagingAssumption
  <1>4. ASSUME NEW p \in Path, NEW q \in Path, files'[p].owner \in Earlier, files'[q].owner \in Jobs
        PROVE  << p, q >> \in older'
    <2>1. p # path /\ files[p].owner \in Earlier
      BY <1>1, <1>3, <1>4
    <2>2. CASE q = path
      <3>1. Touch(path)
        BY <1>1, <1>4, <2>2, StagingAssumption
      <3>2. p \in Occupied
        BY <2>1, StagingAssumption DEF Occupied, NoFile
      <3> QED
        BY <2>1, <2>2, <3>1, <3>2 DEF Touch
    <2>3. CASE q # path
      <3>1. << p, q >> \in older
        BY <1>1, <1>4, <2>1, <2>3 DEF StagingInv, EarlierFirst
      <3> QED
        BY <2>1, <2>3, <3>1 DEF Among
    <2> QED
      BY <2>2, <2>3
  <1> QED
    BY <1>1, <1>2, <1>3, <1>4 DEF EarlierFirst

LEMMA TouchTyped ==
    ASSUME Typed, NEW path \in Path, Touch(path)
    PROVE  older' \subseteq Path \X Path /\ Among(Path \ {path}) \subseteq older'
  BY DEF Typed, Touch, Among, Occupied

-----------------------------------------------------------------------------
(* Steps of a job without a file.                                          *)

LEMMA NextSourceMoves ==
    ASSUME Typed, NEW j \in Jobs, NextSource(j)
    PROVE  \E there \in {"fetch", "done", "ask"} : \E now \in Work :
             /\ now.wrote = 0
             /\ pc' = [pc EXCEPT ![j] = there]
             /\ work' = [work EXCEPT ![j] = now]
  <1>1. NoWork \in Work
    BY StagingAssumption DEF NoWork, Work
  <1>2. [work[j] EXCEPT !.source = "thumbnail", !.wrote = 0, !.path = 0] \in Work
    <2>1. /\ work[j] \in Work
          /\ 0 \in 0 .. MaxStaged + 1 /\ 0 \in 0 .. Paths
      BY WorkIs, StagingAssumption
    <2> QED
      BY <2>1 DEF Work
  <1>3. CASE /\ work' = [work EXCEPT ![j] = NoWork]
             /\ pc' = [pc EXCEPT ![j] = IF work[j].source = "inline" THEN "done" ELSE "ask"]
    BY <1>1, <1>3 DEF NoWork
  <1>4. CASE /\ pc' = [pc EXCEPT ![j] = "fetch"]
             /\ work' = [work EXCEPT ![j].source = "thumbnail", ![j].wrote = 0, ![j].path = 0]
    <2> DEFINE now == [work[j] EXCEPT !.source = "thumbnail", !.wrote = 0, !.path = 0]
    <2>1. work' = [work EXCEPT ![j] = now]
      BY <1>4 DEF Typed
    <2>2. now.wrote = 0
      BY WorkIs DEF Work
    <2> QED
      BY <1>2, <1>4, <2>1, <2>2
  <1> QED
    BY <1>3, <1>4 DEF NextSource

LEMMA BeginKeeps ==
    ASSUME StagingInv, NEW j \in Jobs, Begin(j)
    PROVE  StagingInv'
  <1>1. pc[j] = "idle" /\ UNCHANGED << directory, due, sweep, told, taken, hours >>
    BY DEF Begin
  <1>2. work[j] \in Work /\ work[j].wrote = 0
    BY <1>1, WorkIs DEF StagingInv, Places
  <1>3. \E there \in {"name", "done", "fetch", "ask"} : \E now \in Work :
          /\ now.wrote = 0
          /\ pc' = [pc EXCEPT ![j] = there]
          /\ work' = [work EXCEPT ![j] = now]
    <2>1. CASE (\E next \in {"ask", "done"} : pc' = [pc EXCEPT ![j] = next]) /\ UNCHANGED work
      <3>1. work' = [work EXCEPT ![j] = work[j]]
        BY <2>1 DEF StagingInv, Typed
      <3> QED
        BY <1>2, <2>1, <3>1
    <2>2. CASE /\ pc' = [pc EXCEPT ![j] = "name"]
               /\ work' = [work EXCEPT ![j].size = MaxStaged]
      <3> DEFINE now == [work[j] EXCEPT !.size = MaxStaged]
      <3>1. now \in Work /\ now.wrote = 0
        <4>1. MaxStaged \in 0 .. MaxStaged + 1
          BY StagingAssumption
        <4> QED
          BY <1>2, <4>1 DEF Work
      <3>2. work' = [work EXCEPT ![j] = now]
        BY <2>2 DEF StagingInv, Typed
      <3> QED
        BY <2>2, <3>1, <3>2
    <2>3. CASE /\ pc' = [pc EXCEPT ![j] = "fetch"]
               /\ \E source \in {"full", "thumbnail"} : work' = [work EXCEPT ![j].source = source]
      <3>1. PICK source \in {"full", "thumbnail"} : work' = [work EXCEPT ![j].source = source]
        BY <2>3
      <3> DEFINE now == [work[j] EXCEPT !.source = source]
      <3>2. now \in Work /\ now.wrote = 0
        BY <1>2 DEF Work
      <3>3. work' = [work EXCEPT ![j] = now]
        BY <3>1 DEF StagingInv, Typed
      <3> QED
        BY <2>3, <3>2, <3>3
    <2> QED
      BY <2>1, <2>2, <2>3 DEF Begin
  <1>4. PICK there \in {"name", "done", "fetch", "ask"} : \E now \in Work :
          /\ now.wrote = 0
          /\ pc' = [pc EXCEPT ![j] = there]
          /\ work' = [work EXCEPT ![j] = now]
    BY <1>3
  <1>5. there \in States \ {"copy", "sweep"} /\ there # "open"
    BY DEF States
  <1> QED
    BY <1>1, <1>4, <1>5, QuietKeeps

LEMMA FetchKeeps ==
    ASSUME StagingInv, NEW j \in Jobs, Fetch(j)
    PROVE  StagingInv'
  <1>1. pc[j] = "fetch" /\ UNCHANGED << directory, due, sweep, told, taken, hours >>
    BY DEF Fetch
  <1>2. CASE NextSource(j)
    <2>1. PICK there \in {"fetch", "done", "ask"} : \E now \in Work :
             /\ now.wrote = 0
             /\ pc' = [pc EXCEPT ![j] = there]
             /\ work' = [work EXCEPT ![j] = now]
      BY <1>2, NextSourceMoves DEF StagingInv
    <2>2. there \in States \ {"copy", "sweep"} /\ there # "open"
      BY DEF States
    <2> QED
      BY <1>1, <2>1, <2>2, QuietKeeps
  <1>3. CASE ~NextSource(j)
    <2>1. Goto(j, "fetch", "name")
      BY <1>3 DEF Fetch
    <2>2. PICK size \in {MaxStaged, MaxStaged + 1} : work' = [work EXCEPT ![j].size = size]
      BY <1>3 DEF Fetch
    <2> DEFINE now == [work[j] EXCEPT !.size = size]
    <2>3. now \in Work
      <3>1. work[j] \in Work /\ size \in 0 .. MaxStaged + 1
        BY WorkIs, StagingAssumption DEF StagingInv
      <3> QED
        BY <3>1 DEF Work
    <2>4. work' = [work EXCEPT ![j] = now]
      BY <2>2 DEF StagingInv, Typed
    <2>5. now.wrote = 0
      BY <1>1, WorkIs DEF StagingInv, Places, Work
    <2> HIDE DEF now
    <2>6. "name" \in States \ {"copy", "sweep"}
      BY DEF States
    <2>7. pc' = [pc EXCEPT ![j] = "name"]
      BY <2>1 DEF Goto
    <2> QED
      BY <1>1, <2>3, <2>4, <2>5, <2>6, <2>7, QuietKeeps
  <1> QED
    BY <1>2, <1>3


LEMMA UniquePathKeeps ==
    ASSUME StagingInv, NEW j \in Jobs, UniquePath(j)
    PROVE  StagingInv'
  <1>1. pc[j] = "name" /\ UNCHANGED << directory, due, sweep, told, taken, hours >>
    BY DEF UniquePath
  <1>2. CASE NextSource(j)
    <2>1. PICK there \in {"fetch", "done", "ask"} : \E now \in Work :
             /\ now.wrote = 0
             /\ pc' = [pc EXCEPT ![j] = there]
             /\ work' = [work EXCEPT ![j] = now]
      BY <1>2, NextSourceMoves DEF StagingInv
    <2>2. there \in States \ {"copy", "sweep"} /\ there # "open"
      BY DEF States
    <2> QED
      BY <1>1, <2>1, <2>2, QuietKeeps
  <1>3. CASE ~NextSource(j)
    <2>1. PICK path \in Free : /\ Goto(j, "name", "open")
                               /\ work' = [work EXCEPT ![j].path = path]
      BY <1>3 DEF UniquePath
    <2>2. path \in 0 .. Paths /\ path # 0
      BY StagingAssumption DEF Free, Path
    <2> DEFINE now == [work[j] EXCEPT !.path = path]
    <2>3. now \in Work /\ now.path # 0 /\ now.wrote = 0
      BY <1>1, <2>2, WorkIs DEF StagingInv, Places, Work
    <2>4. work' = [work EXCEPT ![j] = now]
      BY <2>1 DEF StagingInv, Typed
    <2> HIDE DEF now
    <2>5. "open" \in States \ {"copy", "sweep"}
      BY DEF States
    <2>6. pc' = [pc EXCEPT ![j] = "open"]
      BY <2>1 DEF Goto
    <2> QED
      BY <1>1, <2>3, <2>4, <2>5, <2>6, QuietKeeps
  <1> QED
    BY <1>2, <1>3

\* Whether the phone is asked or not.
LEMMA RequestKeeps ==
    ASSUME StagingInv, NEW j \in Jobs, RequestFullSize(j)
    PROVE  StagingInv'
  <1>1. /\ pc[j] = "ask" /\ pc' = [pc EXCEPT ![j] = "done"]
        /\ UNCHANGED << directory, due, sweep, told, taken, hours >> /\ UNCHANGED work
    BY DEF RequestFullSize, Goto
  <1>2. PICK now \in Work : now = work[j] /\ work' = [work EXCEPT ![j] = now]
    BY <1>1 DEF StagingInv, Typed
  <1>3. /\ "done" \in States \ {"copy", "sweep"} /\ pc[j] \notin {"copy", "sweep", "done"}
        /\ "done" # "open" /\ "done" \notin {"idle", "fetch", "name", "open"}
    BY <1>1 DEF States
  <1> QED
    BY <1>1, <1>2, <1>3, QuietKeeps

-----------------------------------------------------------------------------
(* Steps that write or remove the job's own file.                          *)

\* Whoever's file the step leaves alone, or a full sweep took, is where it was.
LEMMA OthersKeep ==
    ASSUME StagingInv, NEW u \in Jobs,
           pc'[u] = pc[u], work'[u] = work[u], told'[u] = told[u],
           aged \subseteq aged', taken \subseteq taken',
           \A p \in Path : files[p].owner = u => files'[p].owner = u \/ p \in taken',
           \A p \in Path : files'[p].owner = u => files'[p] = files[p],
           \A p \in Path : files'[p].owner \in Earlier => files[p].owner \in Earlier
    PROVE  HasFile(u)' /\ OneFile(u)'
  <1>1. Writes(u)' <=> Writes(u)
    BY DEF Writes
  <1>2. Writes(u) => work[u].path \in Path
    BY WorkIs, PathsAre DEF StagingInv, Places, Writes
  <1>3. told[u] # 0 => told[u] \in Path
    BY PathsAre DEF StagingInv, Typed
  <1>4. HasFile(u) /\ OneFile(u)
    BY DEF StagingInv, Held
  <1>5. HasFile(u)'
    <2>1. (Writes(u) => files[work[u].path].owner = u \/ work[u].path \in taken)'
      BY <1>1, <1>2, <1>4 DEF HasFile
    <2>2. (Writes(u) => files[work[u].path].owner \notin Earlier)'
      BY <1>1, <1>2, <1>4 DEF HasFile
    <2>3. (told[u] # 0 /\ u \notin aged => files[told[u]].owner = u \/ told[u] \in taken)'
      BY <1>3, <1>4 DEF HasFile
    <2> QED
      BY <2>1, <2>2, <2>3 DEF HasFile
  <1>6. OneFile(u)'
    BY <1>1, <1>4 DEF OneFile
  <1> QED
    BY <1>5, <1>6

\* A job takes a free path, and what it has there is its only file.
LEMMA CreateKeeps ==
    ASSUME StagingInv, NEW j \in Jobs, pc[j] = "open", files[work[j].path] = NoFile,
           Create(j, work[j].path)
    PROVE  StagingInv'
  <1> DEFINE path == work[j].path
             now == [owner |-> j, size |-> 0]
  <1>1. path \in Path /\ work[j].wrote = 0 /\ work[j] \in Work /\ told[j] = 0 /\ j \notin aged
    BY WorkIs, PathsAre DEF StagingInv, Places
  <1>2. /\ files' = [files EXCEPT ![path] = now] /\ Touch(path)
        /\ pc' = [pc EXCEPT ![j] = "copy"]
        /\ UNCHANGED << aged, work, due, sweep, requests, told, taken, hours >>
    BY DEF Create, Goto
  <1>3. now \in [owner : Jobs \cup {None}, size : Sizes]
    BY StagingAssumption DEF Sizes
  <1>4. files[path].owner \notin Earlier /\ files[path].owner = None
    BY StagingAssumption DEF NoFile
  <1>5. older' \subseteq Path \X Path /\ Among(Path \ {path}) \subseteq older'
    BY <1>1, <1>2, TouchTyped DEF StagingInv
  <1> HIDE DEF path
  <1>6. /\ EarlierFirst'
        /\ \A p \in Path : files'[p].owner \in Earlier <=> files[p].owner \in Earlier
        /\ files' \in [Path -> [owner : Jobs \cup Earlier \cup {None}, size : Sizes]]
        /\ \A p \in Path : files'[p] = IF p = path THEN now ELSE files[p]
    BY <1>1, <1>2, <1>3, <1>4, <1>5, EarlierStays
  <1>7. \A u \in Jobs : pc'[u] = IF u = j THEN "copy" ELSE pc[u]
    BY <1>2 DEF StagingInv, Typed
  <1>8. Typed'
    <2>1. pc' \in [Jobs -> States]
      BY <1>2 DEF StagingInv, Typed, States
    <2> QED
      BY <1>2, <1>5, <1>6, <2>1 DEF StagingInv, Typed, States
  <1>9. Places'
    BY <1>1, <1>2, <1>7 DEF StagingInv, Places, path
  <1>10. Empty'
    BY <1>6, StagingAssumption DEF StagingInv, Empty
  <1>11. Swept'
    BY <1>2, <1>6, <1>7, SweptStays DEF StagingInv
  <1>12. Held'
    <2>1. HasFile(j)' /\ OneFile(j)'
      <3>1. \A p \in Path : files[p].owner # j
        BY <1>1 DEF StagingInv, Held, OneFile, Writes, Path
      <3>2. HasFile(j)'
        BY <1>1, <1>2, <1>6, <1>7, StagingAssumption DEF HasFile, path
      <3>3. OneFile(j)'
        BY <1>1, <1>2, <1>6, <1>7, <3>1, StagingAssumption DEF OneFile, Writes, path
      <3> QED
        BY <3>2, <3>3
    <2>2. ASSUME NEW u \in Jobs \ {j} PROVE HasFile(u)' /\ OneFile(u)'
      <3>1. \A p \in Path : files[p].owner = u => files'[p] = files[p]
        BY <1>4, <1>6, StagingAssumption
      <3>2. \A p \in Path : files'[p].owner = u => files'[p] = files[p]
        BY <1>6
      <3>3. \A p \in Path : files'[p].owner \in Earlier => files[p].owner \in Earlier
        BY <1>6
      <3> QED
        BY <1>2, <1>7, <3>1, <3>2, <3>3, OthersKeep
    <2> QED
      BY <2>1, <2>2 DEF Held
  <1> QED
    BY <1>6, <1>8, <1>9, <1>10, <1>11, <1>12 DEF StagingInv

LEMMA OpenKeeps ==
    ASSUME StagingInv, NEW j \in Jobs, Open(j)
    PROVE  StagingInv'
  <1>1. CASE files[work[j].path] = NoFile /\ Create(j, work[j].path)
    BY <1>1, CreateKeeps DEF Open
  <1>2. CASE NextSource(j) /\ UNCHANGED << directory, due, sweep, requests, told, taken, hours >>
    <2>1. PICK there \in {"fetch", "done", "ask"} : \E now \in Work :
             /\ now.wrote = 0
             /\ pc' = [pc EXCEPT ![j] = there]
             /\ work' = [work EXCEPT ![j] = now]
      BY <1>2, NextSourceMoves DEF StagingInv
    <2>2. there \in States \ {"copy", "sweep"} /\ there # "open"
      BY DEF States
    <2>3. pc[j] = "open" /\ UNCHANGED << directory, due, sweep, told, taken, hours >>
      BY <1>2 DEF Open
    <2> QED
      BY <2>1, <2>2, <2>3, QuietKeeps
  <1> QED
    BY <1>1, <1>2 DEF Open

\* What a job that copies knows: its file, if it has one still, is at its path
\* and nowhere else.
LEMMA CopyHas ==
    ASSUME StagingInv, NEW j \in Jobs, pc[j] = "copy"
    PROVE  /\ work[j].path \in Path /\ told[j] = 0 /\ j \notin aged
           /\ files[work[j].path].owner = j \/ work[j].path \in taken
           /\ files[work[j].path].owner = j =>
                files[work[j].path] = [owner |-> j, size |-> work[j].wrote]
           /\ files[work[j].path].owner \notin Earlier
           /\ \A p \in Path : files[p].owner = j => p = work[j].path
  <1>1. work[j].path \in Path /\ told[j] = 0 /\ j \notin aged
    BY WorkIs, PathsAre DEF StagingInv, Places
  <1>2. /\ files[work[j].path].owner = j \/ work[j].path \in taken
        /\ files[work[j].path].owner \notin Earlier
    BY DEF StagingInv, Held, HasFile, Writes
  <1>3. \A p \in Path : files[p].owner = j =>
          p = work[j].path /\ files[p].size = work[j].wrote
    BY <1>1, StagingAssumption DEF StagingInv, Held, OneFile, Path
  <1>4. files[work[j].path] = [owner |-> files[work[j].path].owner,
                               size |-> files[work[j].path].size]
    BY <1>1 DEF StagingInv, Typed
  <1> QED
    BY <1>1, <1>2, <1>3, <1>4

LEMMA CopyKeeps ==
    ASSUME StagingInv, NEW j \in Jobs, Copy(j)
    PROVE  StagingInv'
  <1>1. /\ pc[j] = "copy" /\ work[j].wrote < work[j].size
        /\ work' = [work EXCEPT ![j].wrote = @ + 1]
        /\ UNCHANGED << aged, pc, due, sweep, requests, told, taken, hours >>
    BY DEF Copy
  <1>2. PICK path \in Path : path = work[j].path
    BY <1>1, CopyHas
  <1>3. /\ told[j] = 0 /\ j \notin aged /\ files[path].owner \notin Earlier
        /\ files[path].owner = j \/ path \in taken
        /\ files[path].owner = j => files[path] = [owner |-> j, size |-> work[j].wrote]
        /\ \A p \in Path : files[p].owner = j => p = path
    BY <1>1, <1>2, CopyHas
  <1>4. PICK wrote \in 1 .. MaxStaged + 1 : wrote = work[j].wrote + 1
    BY <1>1, WorkIs, StagingAssumption DEF StagingInv
  <1>5. PICK now \in [owner : Jobs \cup {None}, size : Sizes] : now = [owner |-> j, size |-> wrote]
    <2>1. wrote \in Sizes
      BY <1>4, StagingAssumption DEF Sizes
    <2>2. [owner |-> j, size |-> wrote] \in [owner : Jobs \cup {None}, size : Sizes]
      BY <2>1
    <2> QED
      BY <2>2, Zenon
  <1>6. Own(j) <=> files[path].owner = j
    BY <1>2, StagingAssumption DEF Own, Path
  <1>7. /\ EarlierFirst' /\ older' \subseteq Path \X Path
        /\ \A p \in Path : files'[p].owner \in Earlier <=> files[p].owner \in Earlier
        /\ files' \in [Path -> [owner : Jobs \cup Earlier \cup {None}, size : Sizes]]
        /\ \A p \in Path :
             files'[p] = IF p = path /\ files[path].owner = j THEN now ELSE files[p]
    <2>1. CASE ~Own(j)
      <3>1. UNCHANGED << files, older >>
        BY <2>1 DEF Copy
      <3> QED
        BY <1>6, <2>1, <3>1 DEF StagingInv, Typed, EarlierFirst
    <2>2. CASE Own(j)
      <3>1. files' = [files EXCEPT ![path].size = @ + 1] /\ Touch(path)
        BY <1>2, <2>2 DEF Copy
      <3>2. files' = [files EXCEPT ![path] = [files[path] EXCEPT !.size = @ + 1]]
        BY <3>1 DEF StagingInv, Typed
      <3>3. [files[path] EXCEPT !.size = @ + 1] = now
        BY <1>3, <1>4, <1>5, <1>6, <2>2
      <3>4. files' = [files EXCEPT ![path] = now]
        BY <3>2, <3>3
      <3>5. older' \subseteq Path \X Path /\ Among(Path \ {path}) \subseteq older'
        BY <3>1, TouchTyped DEF StagingInv
      <3>6. /\ EarlierFirst'
            /\ \A p \in Path : files'[p].owner \in Earlier <=> files[p].owner \in Earlier
            /\ files' \in [Path -> [owner : Jobs \cup Earlier \cup {None}, size : Sizes]]
            /\ \A p \in Path : files'[p] = IF p = path THEN now ELSE files[p]
        BY <1>3, <3>1, <3>4, <3>5, EarlierStays
      <3> QED
        BY <1>6, <2>2, <3>5, <3>6
    <2> QED
      BY <2>1, <2>2
  <1>8. /\ work' \in [Jobs -> Work]
        /\ work'[j].wrote = wrote /\ work'[j].path = path /\ work'[j].size = work[j].size
        /\ \A u \in Jobs \ {j} : work'[u] = work[u]
    BY <1>1, <1>2, <1>4, WorkIs, StagingAssumption DEF StagingInv, Typed, Work
  <1>9. Typed'
    BY <1>1, <1>3, <1>7, <1>8 DEF StagingInv, Typed
  <1>10. Places'
    BY <1>1, <1>2, <1>3, <1>8 DEF StagingInv, Places
  <1>11. now.owner = j /\ now.size = wrote
    BY <1>5
  <1>12. Empty'
    BY <1>7, <1>11, StagingAssumption DEF StagingInv, Empty
  <1>13. Swept'
    BY <1>1, <1>7, SweptStays DEF StagingInv
  <1>14. Held'
    <2>1. HasFile(j)'
      BY <1>1, <1>3, <1>7, <1>8, <1>11 DEF HasFile
    <2>2. OneFile(j)'
      BY <1>1, <1>3, <1>7, <1>8, <1>11 DEF OneFile, Writes
    <2>3. ASSUME NEW u \in Jobs \ {j} PROVE HasFile(u)' /\ OneFile(u)'
      <3>1. \A p \in Path : files[p].owner = u => files'[p] = files[p]
        BY <1>7
      <3>2. \A p \in Path : files'[p].owner = u => files'[p] = files[p]
        BY <1>7, <1>11
      <3>3. \A p \in Path : files'[p].owner \in Earlier => files[p].owner \in Earlier
        BY <1>7
      <3> QED
        BY <1>1, <1>8, <3>1, <3>2, <3>3, OthersKeep
    <2> QED
      BY <2>1, <2>2, <2>3 DEF Held
  <1> QED
    BY <1>7, <1>9, <1>10, <1>12, <1>13, <1>14 DEF StagingInv

\* It removes what is at its path, which is another's only where a full sweep
\* took its own.
LEMMA CopyFailsKeeps ==
    ASSUME StagingInv, NEW j \in Jobs, CopyFails(j)
    PROVE  StagingInv'
  <1>1. /\ pc[j] = "copy" /\ NextSource(j) /\ Remove(work[j].path)
        /\ UNCHANGED << aged, due, sweep, requests, told, taken, hours >>
    BY DEF CopyFails
  <1>2. PICK path \in Path : path = work[j].path
    BY <1>1, CopyHas
  <1>3. /\ told[j] = 0 /\ j \notin aged /\ files[path].owner \notin Earlier
        /\ files[path].owner = j \/ path \in taken
        /\ \A p \in Path : files[p].owner = j => p = path
    BY <1>1, <1>2, CopyHas
  <1>4. PICK there \in {"fetch", "done", "ask"} : \E now \in Work :
             /\ now.wrote = 0
             /\ pc' = [pc EXCEPT ![j] = there]
             /\ work' = [work EXCEPT ![j] = now]
    BY <1>1, NextSourceMoves DEF StagingInv
  <1>5. PICK now \in Work : /\ now.wrote = 0
                            /\ pc' = [pc EXCEPT ![j] = there]
                            /\ work' = [work EXCEPT ![j] = now]
    BY <1>4
  <1>6. \A u \in Jobs : /\ pc'[u] = IF u = j THEN there ELSE pc[u]
                        /\ work'[u] = IF u = j THEN now ELSE work[u]
    BY <1>5 DEF StagingInv, Typed
  <1>7. PICK none \in [owner : Jobs \cup {None}, size : Sizes] : none = NoFile
    <2>1. 0 \in Sizes
      BY StagingAssumption DEF Sizes
    <2>2. NoFile \in [owner : Jobs \cup {None}, size : Sizes]
      BY <2>1 DEF NoFile
    <2> QED
      BY <2>2, Zenon
  <1>8. files' = [files EXCEPT ![path] = none] /\ older' = Among(Path \ {path})
    BY <1>1, <1>2, <1>7 DEF Remove
  <1>9. none.owner = None
    BY <1>7 DEF NoFile
  <1>10. /\ EarlierFirst'
         /\ \A p \in Path : files'[p].owner \in Earlier <=> files[p].owner \in Earlier
         /\ files' \in [Path -> [owner : Jobs \cup Earlier \cup {None}, size : Sizes]]
         /\ \A p \in Path : files'[p] = IF p = path THEN none ELSE files[p]
    BY <1>3, <1>8, <1>9, EarlierStays
  <1>11. Typed'
    <2>1. older' \subseteq Path \X Path
      BY <1>8 DEF StagingInv, Typed, Among
    <2>2. pc' \in [Jobs -> States] /\ work' \in [Jobs -> Work]
      BY <1>5 DEF StagingInv, Typed, States
    <2>3. \A u \in Jobs : told'[u] # 0 => work'[u].size <= MaxStaged
      BY <1>1, <1>3, <1>6 DEF StagingInv, Typed
    <2> QED
      BY <1>1, <1>10, <2>1, <2>2, <2>3 DEF StagingInv, Typed, States
  <1>12. Places'
    BY <1>1, <1>3, <1>5, <1>6 DEF StagingInv, Places
  <1>13. Empty'
    BY <1>7, <1>10 DEF StagingInv, Empty
  <1>14. Swept'
    BY <1>1, <1>6, <1>10, SweptStays DEF StagingInv
  <1>15. Held'
    <2>1. HasFile(j)' /\ OneFile(j)'
      <3>1. \A p \in Path : files'[p].owner # j
        BY <1>3, <1>9, <1>10, StagingAssumption
      <3>2. ~Writes(j)' /\ told'[j] = 0
        BY <1>1, <1>3, <1>6 DEF Writes
      <3> QED
        BY <3>1, <3>2 DEF HasFile, OneFile
    <2>2. ASSUME NEW u \in Jobs \ {j} PROVE HasFile(u)' /\ OneFile(u)'
      <3>1. \A p \in Path : files[p].owner = u => files'[p].owner = u \/ p \in taken'
        BY <1>1, <1>3, <1>10
      <3>2. \A p \in Path : files'[p].owner = u => files'[p] = files[p]
        BY <1>9, <1>10, StagingAssumption
      <3>3. \A p \in Path : files'[p].owner \in Earlier => files[p].owner \in Earlier
        BY <1>10
      <3> QED
        BY <1>1, <1>6, <3>1, <3>2, <3>3, OthersKeep
    <2> QED
      BY <2>1, <2>2 DEF Held
  <1> QED
    BY <1>10, <1>11, <1>12, <1>13, <1>14, <1>15 DEF StagingInv

\* A job that has written all of its file tells the path of it.
LEMMA TellHolds ==
    ASSUME StagingInv, NEW j \in Jobs, Writes(j), work[j].wrote = work[j].size,
           work[j].size <= MaxStaged, Tell(j), UNCHANGED << directory, taken, hours >>,
           due' \in BOOLEAN, sweep' \in Sweeps
    PROVE  /\ Typed' /\ Places' /\ Held' /\ Empty' /\ EarlierFirst' /\ UNCHANGED files
           /\ \A u \in Jobs : pc'[u] = IF u = j THEN "done" ELSE pc[u]
  <1>1. PICK path \in Path : path = work[j].path
    BY WorkIs, PathsAre DEF StagingInv, Places, Writes
  <1>2. told[j] = 0 /\ j \notin aged
    BY DEF StagingInv, Places, Writes
  <1>3. files[path].owner = j \/ path \in taken
    BY <1>1 DEF StagingInv, Held, HasFile
  <1>4. UNCHANGED << files, older, aged, taken, hours >>
    BY DEF directory
  <1>5. PICK now \in Work : now = [NoWork EXCEPT !.size = work[j].size]
    <2>1. 0 \in 0 .. MaxStaged + 1 /\ 0 \in 0 .. Paths /\ work[j].size \in 0 .. MaxStaged + 1
      BY WorkIs, StagingAssumption DEF StagingInv
    <2>2. [NoWork EXCEPT !.size = work[j].size] \in Work
      BY <2>1 DEF NoWork, Work
    <2> QED
      BY <2>2, Zenon
  <1>6. now.size = work[j].size
    BY <1>5 DEF NoWork
  <1>7. \A u \in Jobs : /\ pc'[u] = IF u = j THEN "done" ELSE pc[u]
                        /\ told'[u] = IF u = j THEN path ELSE told[u]
                        /\ work'[u] = IF u = j THEN now ELSE work[u]
    BY <1>1, <1>5 DEF Tell, StagingInv, Typed
  <1>8. Typed'
    <2>1. pc' \in [Jobs -> States]
      BY DEF Tell, StagingInv, Typed, States
    <2>2. work' \in [Jobs -> Work]
      BY <1>5 DEF Tell, StagingInv, Typed
    <2>3. told' \in [Jobs -> 0 .. Paths]
      BY WorkIs DEF Tell, StagingInv, Typed
    <2>4. \A u \in Jobs : told'[u] # 0 => work'[u].size <= MaxStaged
      BY <1>6, <1>7 DEF StagingInv, Typed
    <2>5. /\ files' \in [Path -> [owner : Jobs \cup Earlier \cup {None}, size : Sizes]]
          /\ older' \subseteq Path \X Path /\ aged' \subseteq Jobs \cup Earlier
          /\ taken' \subseteq Path
          /\ hours' \in 0 .. MaxHours
      BY <1>4 DEF StagingInv, Typed
    <2> QED
      BY <2>1, <2>2, <2>3, <2>4, <2>5, Zenon DEF Typed, States
  <1>9. Places'
    <2>1. ASSUME NEW u \in Jobs \ {j}
          PROVE  pc'[u] = pc[u] /\ told'[u] = told[u] /\ work'[u] = work[u]
      BY <1>7
    <2>2. pc'[j] = "done"
      BY <1>7
    <2> QED
      BY <1>2, <1>4, <2>1, <2>2 DEF StagingInv, Places
  <1>10. path # 0
    BY DEF Path
  <1>11. Held'
    <2>1. HasFile(j)'
      BY <1>3, <1>4, <1>6, <1>7 DEF HasFile, Writes
    <2>2. OneFile(j)'
      BY <1>1, <1>2, <1>4, <1>6, <1>7 DEF StagingInv, Held, OneFile, Writes, Path
    <2>3. ASSUME NEW u \in Jobs \ {j} PROVE HasFile(u)' /\ OneFile(u)'
      BY <1>4, <1>7, OthersKeep
    <2> QED
      BY <2>1, <2>2, <2>3 DEF Held
  <1>12. Empty' /\ EarlierFirst'
    BY <1>4 DEF StagingInv, Empty, EarlierFirst
  <1> QED
    BY <1>4, <1>7, <1>8, <1>9, <1>11, <1>12

LEMMA NoSweepNowKeeps ==
    ASSUME StagingInv, NEW j \in Jobs, NoSweepNow(j)
    PROVE  StagingInv'
  <1>1. /\ pc[j] = "copy" /\ Writes(j) /\ Copied(j) /\ Tell(j)
        /\ UNCHANGED << directory, taken, hours >> /\ UNCHANGED << due, sweep >>
    BY DEF NoSweepNow, Writes
  <1>2. due' \in BOOLEAN /\ sweep' \in Sweeps
    BY <1>1 DEF StagingInv, Typed
  <1>3. /\ Typed' /\ Places' /\ Held' /\ Empty' /\ EarlierFirst' /\ UNCHANGED files
        /\ \A u \in Jobs : pc'[u] = IF u = j THEN "done" ELSE pc[u]
    BY <1>1, <1>2, TellHolds DEF Copied
  <1>4. Swept'
    BY <1>1, <1>3, SweptStays DEF StagingInv
  <1> QED
    BY <1>3, <1>4 DEF StagingInv

LEMMA NoSweepTyped == NoSweep \in Sweeps
  <1>1. 0 \in Sizes /\ 0 \in Nat
    BY StagingAssumption DEF Sizes
  <1> QED
    BY <1>1 DEF NoSweep, Sweeps

\* The sweep ends with the job that ran it.
LEMMA SweepEndKeeps ==
    ASSUME StagingInv, NEW j \in Jobs, SweepEnd(j)
    PROVE  StagingInv'
  <1>1. /\ pc[j] = "sweep" /\ Writes(j) /\ Tell(j) /\ sweep' = NoSweep
        /\ UNCHANGED << directory, taken, hours >> /\ UNCHANGED due
    BY DEF SweepEnd, Writes
  <1>2. due' \in BOOLEAN /\ sweep' \in Sweeps
    BY <1>1, NoSweepTyped DEF StagingInv, Typed
  <1>3. work[j].wrote = work[j].size /\ work[j].size <= MaxStaged
    BY <1>1 DEF StagingInv, Places
  <1>4. /\ Typed' /\ Places' /\ Held' /\ Empty' /\ EarlierFirst' /\ UNCHANGED files
        /\ \A u \in Jobs : pc'[u] = IF u = j THEN "done" ELSE pc[u]
    BY <1>1, <1>2, <1>3, TellHolds
  <1>5. Swept'
    <2>1. sweep'.left = {} /\ Ours' = {} /\ sweep'.total = 0 /\ sweep'.job = None
      BY <1>1 DEF NoSweep, Ours
    <2>2. \A size : Units({}, size) = {}
      BY DEF Units
    <2>3. Cardinality({}) = 0
      BY FS_EmptySet
    <2>4. Cap \in Nat
      BY StagingAssumption
    <2>5. (\A u \in Jobs : pc[u] = "sweep" <=> sweep.job = u)'
      BY <1>1, <1>4, <2>1, StagingAssumption DEF StagingInv, Swept
    <2>6. (sweep.total = Cardinality(Units(sweep.left, sweep.size)))'
      BY <2>1, <2>2, <2>3
    <2>7. (Cardinality(Units(Ours, sweep.size)) <= Cap)'
      BY <2>1, <2>2, <2>3, <2>4
    <2>8. (sweep.total >= Cardinality(Units(sweep.left, sweep.size)))'
      BY <2>1, <2>2, <2>3
    <2> QED
      BY <2>1, <2>5, <2>6, <2>7, <2>8 DEF Swept
  <1> QED
    BY <1>4, <1>5 DEF StagingInv

-----------------------------------------------------------------------------
(* The sweep.                                                              *)

LEMMA SweepBeginKeeps ==
    ASSUME StagingInv, NEW j \in Jobs, SweepBegin(j)
    PROVE  StagingInv'
  <1>1. PICK kept \in SUBSET Path : kept = Kept
    BY DEF Kept, Occupied
  <1>2. PICK size \in [Path -> Sizes] : size = [p \in Path |-> files[p].size]
    <2>1. [p \in Path |-> files[p].size] \in [Path -> Sizes]
      BY DEF StagingInv, Typed
    <2> QED
      BY <2>1, Zenon
  <1>3. PICK order \in SUBSET (Path \X Path) : order = Among(kept)
    <2>1. Among(kept) \in SUBSET (Path \X Path)
      BY DEF Among, StagingInv, Typed
    <2> QED
      BY <2>1, Zenon
  <1>4. PICK total \in Nat : total = Cardinality(Units(kept, size))
    BY UnitsFinite
  <1> DEFINE mine == {p \in kept : files[p].owner \in Jobs}
  <1>18. PICK full \in BOOLEAN : full = (Cardinality(Units(mine, size)) > Cap)
    <2> HIDE DEF mine
    <2>1. (Cardinality(Units(mine, size)) > Cap) \in BOOLEAN
      OBVIOUS
    <2> QED
      BY <2>1, Zenon
  <1>5. /\ pc[j] = "copy" /\ pc' = [pc EXCEPT ![j] = "sweep"]
        /\ work[j].wrote = work[j].size /\ work[j].size <= MaxStaged
        /\ sweep.job = None /\ due' = FALSE
        /\ files' = [p \in Path |-> IF p \in kept THEN files[p] ELSE NoFile]
        /\ older' = order
        /\ sweep' = [job |-> j, left |-> kept, size |-> size, order |-> order, total |-> total,
                     full |-> full]
        /\ UNCHANGED << aged, work, requests, told, taken, hours >>
    BY <1>1, <1>2, <1>3, <1>4, <1>18 DEF SweepBegin, Goto, Copied
  <1>6. \A p \in kept : /\ files'[p] = files[p] /\ files[p].owner \notin aged
                        /\ files[p].owner # None
    BY <1>1, <1>5 DEF StagingInv, Empty, Kept, Occupied
  <1>7. \A p \in Path : p \notin kept => files'[p] = NoFile /\ files'[p].owner = None
    BY <1>5 DEF NoFile
  <1>8. ASSUME NEW u \in Jobs, u \notin aged, NEW p \in Path, files[p].owner = u
        PROVE  p \in kept
    BY <1>1, <1>8, StagingAssumption DEF Kept, Occupied, NoFile
  <1>9. \A u \in Jobs : pc'[u] = IF u = j THEN "sweep" ELSE pc[u]
    BY <1>5 DEF StagingInv, Typed
  <1>10. \A u \in Jobs : Writes(u)' <=> Writes(u)
    BY <1>5, <1>9 DEF Writes
  <1>11. Typed'
    <2>1. pc' \in [Jobs -> States]
      BY <1>5 DEF StagingInv, Typed, States
    <2>2. \A p \in Path : files'[p] \in [owner : Jobs \cup Earlier \cup {None}, size : Sizes]
      <3>1. 0 \in Sizes
        BY StagingAssumption DEF Sizes
      <3>2. NoFile \in [owner : Jobs \cup Earlier \cup {None}, size : Sizes]
        BY <3>1 DEF NoFile
      <3> QED
        BY <1>6, <1>7, <3>2 DEF StagingInv, Typed
    <2>3. files' \in [Path -> [owner : Jobs \cup Earlier \cup {None}, size : Sizes]]
      BY <1>5, <2>2
    <2>4. sweep' \in Sweeps
      BY <1>5 DEF Sweeps
    <2> QED
      BY <1>5, <2>1, <2>3, <2>4 DEF StagingInv, Typed, States
  <1>12. Places'
    BY <1>5, <1>9 DEF StagingInv, Places
  <1>13. Held'
    <2>1. ASSUME NEW u \in Jobs PROVE HasFile(u)'
      <3>1. Writes(u) => u \notin aged /\ work[u].path \in Path
        BY WorkIs, PathsAre DEF StagingInv, Places, Writes
      <3>2. told[u] # 0 => told[u] \in Path
        BY PathsAre DEF StagingInv, Typed
      <3>3. HasFile(u)
        BY DEF StagingInv, Held
      <3>4. (Writes(u) => files[work[u].path].owner = u \/ work[u].path \in taken)'
        BY <1>5, <1>6, <1>8, <1>10, <3>1, <3>3 DEF HasFile
      <3>5. (Writes(u) => files[work[u].path].owner \notin Earlier)'
        BY <1>5, <1>6, <1>7, <1>10, <3>1, <3>3, StagingAssumption DEF HasFile
      <3>6. (told[u] # 0 /\ u \notin aged => files[told[u]].owner = u \/ told[u] \in taken)'
        BY <1>5, <1>6, <1>8, <3>2, <3>3 DEF HasFile
      <3> QED
        BY <3>4, <3>5, <3>6 DEF HasFile
    <2>2. ASSUME NEW u \in Jobs PROVE OneFile(u)'
      <3>1. \A p \in Path : files'[p].owner = u => files'[p] = files[p]
        BY <1>6, <1>7, StagingAssumption
      <3> QED
        BY <1>5, <1>10, <3>1 DEF StagingInv, Held, OneFile
    <2> QED
      BY <2>1, <2>2 DEF Held
  <1>14. Empty'
    BY <1>6, <1>7 DEF Empty
  <1>15. EarlierFirst'
    <2>1. ASSUME NEW p \in Path, NEW q \in Path, files'[p].owner \in Earlier,
                 files'[q].owner \in Jobs
          PROVE  << p, q >> \in older'
      <3>1. p \in kept /\ q \in kept
        BY <1>7, <2>1, StagingAssumption
      <3>2. << p, q >> \in older
        BY <1>6, <2>1, <3>1 DEF StagingInv, EarlierFirst
      <3> QED
        BY <1>3, <1>5, <3>1, <3>2 DEF Among
    <2> QED
      BY <2>1 DEF EarlierFirst
  <1>16. Swept'
    <2>1. PICK ours \in SUBSET kept : ours = {p \in kept : files[p].owner \notin Earlier}
      OBVIOUS
    <2>2. Ours' = ours
      BY <1>5, <1>6, <2>1 DEF Ours
    <2>3. \A p \in ours : files[p].owner \in Jobs
      BY <1>6, <2>1 DEF StagingInv, Typed
    <2>4. \A p \in kept \ ours, q \in ours : << p, q >> \in order
      BY <1>3, <2>1, <2>3 DEF Among, StagingInv, EarlierFirst
    <2>5. ASSUME ~full PROVE Cardinality(Units(ours, size)) <= Cap
      <3>1. ours = mine
        BY <2>1, <2>3, StagingAssumption
      <3>2. Cardinality(Units(ours, size)) \in Nat
        BY UnitsFinite
      <3> HIDE DEF mine
      <3>3. ~(Cardinality(Units(mine, size)) > Cap)
        BY <1>18, <2>5
      <3>4. ~(Cardinality(Units(ours, size)) > Cap)
        BY <3>1, <3>3
      <3> QED
        BY <3>2, <3>4, StagingAssumption
    <2>6. (\A u \in Jobs : pc[u] = "sweep" <=> sweep.job = u)'
      BY <1>5, <1>9, StagingAssumption DEF StagingInv, Swept
    <2>7. (sweep.total = Cardinality(Units(sweep.left, sweep.size)))'
      BY <1>4, <1>5 DEF Units
    <2>8. (\A p \in sweep.left \ Ours, q \in Ours : << p, q >> \in sweep.order)'
      BY <1>5, <2>2, <2>4
    <2>9. (~sweep.full => Cardinality(Units(Ours, sweep.size)) <= Cap)'
      BY <1>5, <2>2, <2>5 DEF Units
    <2>10. (sweep.total >= Cardinality(Units(sweep.left, sweep.size)))'
      BY <1>5, <2>7
    <2> QED
      BY <2>6, <2>7, <2>8, <2>9, <2>10 DEF Swept
  <1> QED
    BY <1>11, <1>12, <1>13, <1>14, <1>15, <1>16 DEF StagingInv

\* A sweep that is over the cap and not full takes a file of an earlier run.
LEMMA TakesEarlier ==
    ASSUME StagingInv, Over, ~sweep.full, NEW oldest \in sweep.left,
           \A other \in sweep.left : << other, oldest >> \notin sweep.order
    PROVE  files[oldest].owner \in Earlier
  <1>1. Ours # sweep.left
    <2>1. sweep.total = Cardinality(Units(sweep.left, sweep.size)) /\ sweep.total \in Nat
      BY DEF StagingInv, Swept, Typed, Sweeps
    <2>2. ~(Cardinality(Units(sweep.left, sweep.size)) <= Cap)
      BY <2>1, StagingAssumption DEF Over
    <2> QED
      BY <2>2 DEF StagingInv, Swept
  <1>2. PICK p \in sweep.left : p \notin Ours
    BY <1>1 DEF Ours
  <1>3. oldest \notin Ours
    BY <1>2 DEF StagingInv, Swept
  <1> QED
    BY <1>3 DEF Ours

\* What is at the path goes.  Of a job's file the path is taken.
LEMMA SweepTakeKeeps ==
    ASSUME StagingInv, NEW j \in Jobs, SweepTake(j)
    PROVE  StagingInv'
  <1>1. PICK left \in SUBSET Path : left = sweep.left
    BY DEF StagingInv, Typed, Sweeps
  <1>2. PICK size \in [Path -> Sizes] : size = sweep.size
    BY DEF StagingInv, Typed, Sweeps
  <1>3. PICK oldest \in left :
          /\ \A other \in left : << other, oldest >> \notin sweep.order
          /\ Remove(oldest)
          /\ sweep' = [sweep EXCEPT !.left = @ \ {oldest},
                         !.total = IF oldest \in Occupied THEN @ - sweep.size[oldest] ELSE @]
          /\ taken' = IF sweep.full /\ files[oldest].owner \in Jobs THEN taken \cup {oldest}
                      ELSE taken
    BY <1>1 DEF SweepTake
  <1>4. UNCHANGED << aged, pc, work, due, requests, told, hours >>
    BY DEF SweepTake
  <1>5. ~sweep.full => files[oldest].owner \in Earlier
    BY <1>1, <1>3, TakesEarlier DEF SweepTake
  <1>6. files[oldest].owner \in Earlier => oldest \in Occupied
    BY StagingAssumption DEF Occupied, NoFile
  <1>7. PICK rest \in Nat : rest = Cardinality(Units(left \ {oldest}, size))
    <2>1. left \ {oldest} \in SUBSET Path
      OBVIOUS
    <2> QED
      BY <2>1, UnitsFinite
  <1>8. Cardinality(Units(left, size)) = rest + size[oldest] /\ size[oldest] \in Nat
    <2>1. rest = Cardinality(Units(left, size)) - size[oldest]
      BY <1>7, UnitsWithout
    <2>2. Cardinality(Units(left, size)) \in Nat
      BY UnitsFinite
    <2>3. size[oldest] \in Nat
      BY StagingAssumption DEF Sizes
    <2> QED
      BY <2>1, <2>2, <2>3
  <1>9. sweep.total \in Nat /\ sweep.total >= rest + size[oldest]
    BY <1>1, <1>2, <1>8 DEF StagingInv, Swept, Typed, Sweeps
  <1>10. ~sweep.full => sweep.total = rest + size[oldest]
    BY <1>1, <1>2, <1>8 DEF StagingInv, Swept
  <1>11. PICK total \in Nat :
           total = IF oldest \in Occupied THEN sweep.total - size[oldest] ELSE sweep.total
    BY <1>7, <1>8, <1>9
  <1>12. total >= rest /\ (~sweep.full => total = rest)
    BY <1>5, <1>6, <1>7, <1>8, <1>9, <1>10, <1>11
  <1>13. /\ sweep' \in Sweeps
         /\ sweep'.job = sweep.job /\ sweep'.left = left \ {oldest} /\ sweep'.size = size
         /\ sweep'.order = sweep.order /\ sweep'.total = total
         /\ sweep'.full = sweep.full
    <2>1. sweep' = [sweep EXCEPT !.left = left \ {oldest}, !.total = total]
      BY <1>1, <1>2, <1>3, <1>11 DEF StagingInv, Typed, Sweeps
    <2>2. left \ {oldest} \in SUBSET Path
      OBVIOUS
    <2> QED
      BY <1>2, <2>1, <2>2 DEF StagingInv, Typed, Sweeps
  <1>14. /\ \A p \in Path : files'[p] = IF p = oldest THEN NoFile ELSE files[p]
         /\ older' = Among(Path \ {oldest})
    BY <1>1, <1>3 DEF Remove, StagingInv, Typed
  <1>15. Typed'
    <2>1. 0 \in Sizes
      BY StagingAssumption DEF Sizes
    <2>2. NoFile \in [owner : Jobs \cup Earlier \cup {None}, size : Sizes]
      BY <2>1 DEF NoFile
    <2>3. files' \in [Path -> [owner : Jobs \cup Earlier \cup {None}, size : Sizes]]
      BY <1>3, <2>2 DEF Remove, StagingInv, Typed
    <2>4. older' \subseteq Path \X Path
      BY <1>14 DEF StagingInv, Typed, Among
    <2>5. taken' \subseteq Path
      BY <1>3 DEF StagingInv, Typed
    <2> QED
      BY <1>4, <1>13, <2>3, <2>4, <2>5 DEF StagingInv, Typed
  <1>16. Places'
    BY <1>4 DEF StagingInv, Places
  <1>17. Held'
    <2>1. ASSUME NEW u \in Jobs PROVE HasFile(u)' /\ OneFile(u)'
      <3>1. \A p \in Path : files[p].owner = u => files'[p].owner = u \/ p \in taken'
        BY <1>3, <1>5, <1>14, StagingAssumption
      <3>2. \A p \in Path : files'[p].owner = u => files'[p] = files[p]
        BY <1>14, StagingAssumption DEF NoFile
      <3>3. \A p \in Path : files'[p].owner \in Earlier => files[p].owner \in Earlier
        BY <1>14, StagingAssumption DEF NoFile
      <3>4. taken \subseteq taken'
        BY <1>3
      <3> QED
        BY <1>4, <3>1, <3>2, <3>3, <3>4, OthersKeep
    <2> QED
      BY <2>1 DEF Held
  <1>18. Empty'
    BY <1>14 DEF StagingInv, Empty
  <1>19. EarlierFirst'
    <2>1. ASSUME NEW p \in Path, NEW q \in Path, files'[p].owner \in Earlier,
                 files'[q].owner \in Jobs
          PROVE  << p, q >> \in older'
      <3>1. p # oldest /\ q # oldest
        BY <1>14, <2>1, StagingAssumption DEF NoFile
      <3>2. << p, q >> \in older
        BY <1>14, <2>1, <3>1 DEF StagingInv, EarlierFirst
      <3> QED
        BY <1>14, <3>1, <3>2 DEF Among
    <2> QED
      BY <2>1 DEF EarlierFirst
  <1>20. Swept'
    <2>1. (\A u \in Jobs : pc[u] = "sweep" <=> sweep.job = u)'
      BY <1>4, <1>13 DEF StagingInv, Swept
    <2>2. (sweep.total >= Cardinality(Units(sweep.left, sweep.size)))'
      BY <1>7, <1>12, <1>13
    <2>3. ASSUME ~sweep'.full
          PROVE  /\ (sweep.total = Cardinality(Units(sweep.left, sweep.size)))'
                 /\ (\A p \in sweep.left \ Ours, q \in Ours : << p, q >> \in sweep.order)'
                 /\ (Cardinality(Units(Ours, sweep.size)) <= Cap)'
      <3>1. ~sweep.full
        BY <1>13, <2>3
      <3>2. Ours' = Ours
        BY <1>1, <1>5, <1>13, <1>14, <3>1 DEF Ours
      <3>3. (sweep.total = Cardinality(Units(sweep.left, sweep.size)))'
        BY <1>7, <1>12, <1>13, <3>1
      <3>4. (\A p \in sweep.left \ Ours, q \in Ours : << p, q >> \in sweep.order)'
        BY <1>1, <1>13, <3>1, <3>2 DEF StagingInv, Swept
      <3>5. (Cardinality(Units(Ours, sweep.size)) <= Cap)'
        BY <1>2, <1>13, <3>1, <3>2 DEF StagingInv, Swept
      <3> QED
        BY <3>3, <3>4, <3>5
    <2> QED
      BY <2>1, <2>2, <2>3 DEF Swept
  <1> QED
    BY <1>15, <1>16, <1>17, <1>18, <1>19, <1>20 DEF StagingInv

-----------------------------------------------------------------------------
(* Time, and the theorems.                                                 *)

LEMMA HourKeeps ==
    ASSUME StagingInv, Hour
    PROVE  StagingInv'
  <1>1. /\ hours < MaxHours /\ hours' = hours + 1 /\ due' = TRUE
        /\ UNCHANGED << files, older, aged, pc, work, sweep, told, taken >>
    BY DEF Hour, directory
  <1>2. hours' \in 0 .. MaxHours
    BY <1>1, StagingAssumption DEF StagingInv, Typed
  <1>3. Typed'
    BY <1>1, <1>2 DEF StagingInv, Typed
  <1>4. Places' /\ Empty' /\ EarlierFirst'
    BY <1>1 DEF StagingInv, Places, Empty, EarlierFirst
  <1>5. Held'
    BY <1>1 DEF StagingInv, Held, HasFile, OneFile, Writes
  <1>6. Swept'
    BY <1>1, SweptStays DEF StagingInv
  <1> QED
    BY <1>3, <1>4, <1>5, <1>6 DEF StagingInv

LEMMA WeekKeeps ==
    ASSUME StagingInv, NEW path \in Path, Week(path)
    PROVE  StagingInv'
  <1>1. /\ files[path].owner \in Earlier \cup {j \in Jobs : told[j] # 0}
        /\ aged' = aged \cup {files[path].owner}
        /\ UNCHANGED << files, older, pc, work, due, sweep, requests, told, taken, hours >>
    BY DEF Week
  <1>2. Typed'
    BY <1>1 DEF StagingInv, Typed
  <1>3. Places'
    BY <1>1, StagingAssumption DEF StagingInv, Places
  <1>4. Empty' /\ EarlierFirst'
    BY <1>1 DEF StagingInv, Empty, EarlierFirst
  <1>5. Held'
    <2>1. ASSUME NEW u \in Jobs PROVE HasFile(u)' /\ OneFile(u)'
      BY <1>1, OthersKeep
    <2> QED
      BY <2>1 DEF Held
  <1>6. Swept'
    BY <1>1, SweptStays DEF StagingInv
  <1> QED
    BY <1>2, <1>3, <1>4, <1>5, <1>6 DEF StagingInv

LEMMA StutterKeeps ==
    ASSUME StagingInv, UNCHANGED vars
    PROVE  StagingInv'
  <1>1. UNCHANGED << files, older, aged, pc, work, due, sweep, told, taken, hours >>
    BY DEF vars, directory
  <1> QED
    BY <1>1 DEF StagingInv, Typed, Places, Held, HasFile, OneFile, Writes, Empty, EarlierFirst,
                Swept, Ours, Units

LEMMA StagingStep == StagingInv /\ [Next]_vars => StagingInv'
  <1> SUFFICES ASSUME StagingInv, [Next]_vars PROVE StagingInv'
    OBVIOUS
  <1>1. ASSUME NEW j \in Jobs,
               \/ Begin(j) \/ Fetch(j) \/ UniquePath(j) \/ Open(j) \/ Copy(j) \/ CopyFails(j)
               \/ NoSweepNow(j) \/ SweepBegin(j) \/ SweepTake(j) \/ SweepEnd(j)
               \/ RequestFullSize(j)
        PROVE  StagingInv'
    BY <1>1, BeginKeeps, FetchKeeps, UniquePathKeeps, OpenKeeps, CopyKeeps, CopyFailsKeeps,
       NoSweepNowKeeps, SweepBeginKeeps, SweepTakeKeeps, SweepEndKeeps, RequestKeeps
  <1> QED
    BY <1>1, HourKeeps, WeekKeeps, StutterKeeps DEF Next

LEMMA StagingInit == Init => StagingInv
  <1> SUFFICES ASSUME Init PROVE StagingInv
    OBVIOUS
  <1>1. PICK left \in {l \in SUBSET Earlier : Cardinality(l) * EarlierSize <= Cap} :
          \E at \in [left -> Path] :
            /\ \A a, b \in left : at[a] = at[b] => a = b
            /\ files = [p \in Path |->
                          IF \E e \in left : at[e] = p
                            THEN [owner |-> CHOOSE e \in left : at[e] = p, size |-> EarlierSize]
                            ELSE NoFile]
            /\ \E rank \in [left -> 1 .. Cardinality(left)] :
                 /\ \A a, b \in left : rank[a] = rank[b] => a = b
                 /\ older = {<< at[c[1]], at[c[2]] >> :
                               c \in {d \in left \X left : rank[d[1]] < rank[d[2]]}}
    BY Zenon DEF Init
  <1>2. PICK at \in [left -> Path] :
          /\ \A a, b \in left : at[a] = at[b] => a = b
          /\ files = [p \in Path |->
                        IF \E e \in left : at[e] = p
                          THEN [owner |-> CHOOSE e \in left : at[e] = p, size |-> EarlierSize]
                          ELSE NoFile]
          /\ \E rank \in [left -> 1 .. Cardinality(left)] :
               /\ \A a, b \in left : rank[a] = rank[b] => a = b
               /\ older = {<< at[c[1]], at[c[2]] >> :
                             c \in {d \in left \X left : rank[d[1]] < rank[d[2]]}}
    BY <1>1, Zenon
  <1>3. older \subseteq Path \X Path
    BY <1>2
  <1>4. /\ aged = {} /\ pc = [j \in Jobs |-> "idle"] /\ work = [j \in Jobs |-> NoWork]
        /\ due = TRUE /\ sweep = NoSweep /\ told = [j \in Jobs |-> 0] /\ taken = {}
        /\ hours = 0
    BY DEF Init
  <1>5. \A p \in Path : files[p] = NoFile
                          \/ (\E e \in left : files[p] = [owner |-> e, size |-> EarlierSize])
    <2>1. ASSUME NEW p \in Path, \E e \in left : at[e] = p
          PROVE  \E e \in left : files[p] = [owner |-> e, size |-> EarlierSize]
      <3>1. (CHOOSE e \in left : at[e] = p) \in left
        BY <2>1
      <3>2. files[p] = [owner |-> CHOOSE e \in left : at[e] = p, size |-> EarlierSize]
        BY <1>2, <2>1
      <3> QED
        BY <3>1, <3>2
    <2> QED
      BY <1>2, <2>1
  <1>6. 0 \in Sizes /\ EarlierSize \in Sizes
    BY StagingAssumption DEF Sizes
  <1>7. \A p \in Path : /\ files[p] \in [owner : Earlier \cup {None}, size : Sizes]
                        /\ files[p].owner = None => files[p] = NoFile
    <2>1. ASSUME NEW e \in left
          PROVE  /\ [owner |-> e, size |-> EarlierSize]
                      \in [owner : Earlier \cup {None}, size : Sizes]
                 /\ e # None
      <3>1. e \in Earlier
        BY <1>1
      <3> QED
        BY <1>6, <3>1, StagingAssumption
    <2>2. NoFile \in [owner : Earlier \cup {None}, size : Sizes]
      BY <1>6 DEF NoFile
    <2>3. ASSUME NEW p \in Path
          PROVE  /\ files[p] \in [owner : Earlier \cup {None}, size : Sizes]
                 /\ files[p].owner = None => files[p] = NoFile
      <3>1. CASE files[p] = NoFile
        BY <2>2, <3>1
      <3>2. CASE \E e \in left : files[p] = [owner |-> e, size |-> EarlierSize]
        <4>1. PICK e \in left : files[p] = [owner |-> e, size |-> EarlierSize]
          BY <3>2
        <4>2. files[p].owner = e
          BY <4>1
        <4> QED
          BY <2>1, <4>1, <4>2
      <3> QED
        BY <1>5, <3>1, <3>2
    <2> QED
      BY <2>3
  <1>8. Typed
    <2>1. files \in [Path -> [owner : Jobs \cup Earlier \cup {None}, size : Sizes]]
      BY <1>2, <1>7
    <2>2. NoWork \in Work
      BY StagingAssumption DEF NoWork, Work
    <2>3. /\ pc \in [Jobs -> States] /\ work \in [Jobs -> Work] /\ told \in [Jobs -> 0 .. Paths]
          /\ hours \in 0 .. MaxHours /\ \A j \in Jobs : told[j] = 0
      BY <1>4, <2>2, StagingAssumption DEF States
    <2> QED
      BY <1>3, <1>4, <2>1, <2>3, NoSweepTyped DEF Typed, States
  <1>9. Places
    BY <1>4 DEF Places, NoWork
  <1>10. \A p \in Path : files[p].owner \notin Jobs
    BY <1>7, StagingAssumption
  <1>11. Held
    BY <1>4, <1>10 DEF Held, HasFile, OneFile, Writes
  <1>12. Empty /\ EarlierFirst
    BY <1>7, <1>10 DEF Empty, EarlierFirst
  <1>13. Swept
    <2>1. sweep.left = {} /\ Ours = {} /\ sweep.total = 0 /\ sweep.job = None
      BY <1>4 DEF NoSweep, Ours
    <2>2. \A size : Units({}, size) = {}
      BY DEF Units
    <2>3. Cardinality({}) = 0
      BY FS_EmptySet
    <2>4. 0 <= Cap
      BY StagingAssumption
    <2>5. \A j \in Jobs : pc[j] = "sweep" <=> sweep.job = j
      BY <1>4, <2>1, StagingAssumption
    <2> QED
      BY <2>1, <2>2, <2>3, <2>4, <2>5 DEF Swept
  <1> QED
    BY <1>8, <1>9, <1>11, <1>12, <1>13 DEF StagingInv

\* What the steps keep, whatever the phone is asked for meanwhile.
THEOREM StagingSafe == Spec => []StagingInv
  BY StagingInit, StagingStep, PTL DEF Spec

\* Every variable keeps its type; the sweep never takes off its total more
\* than is listed (store.go:244-264).
THEOREM TypeCorrect == Spec => []TypeOK
  <1>1. StagingInv /\ Marked => TypeOK
    BY DEF StagingInv, Typed, Marked, TypeOK
  <1>2. Init => Marked
    BY DEF Init, Marked
  <1> QED
    BY <1>1, <1>2, StagingSafe, MarkedStep, PTL DEF Spec

\* A path the daemon was told has all the bytes of its part until the file is
\* a week old, however many jobs and sweeps there are: no other job takes the
\* name, no job's failure removes it, and a sweep takes it for the room only
\* if the files of this process it listed were more than the cap; what an
\* earlier run left goes first (messages.go:224-327, store.go:222-265).
THEOREM ToldPathsHold == Spec => []ToldHolds
  <1>1. ASSUME StagingInv, NEW j \in Jobs, told[j] # 0, j \notin aged, told[j] \notin taken
        PROVE  files[told[j]] = [owner |-> j, size |-> work[j].size]
    <2>1. PICK p \in Path : p = told[j]
      BY <1>1, PathsAre DEF StagingInv, Typed
    <2>2. files[p].owner = j
      BY <1>1, <2>1 DEF StagingInv, Held, HasFile
    <2>3. ~Writes(j)
      BY <1>1 DEF StagingInv, Places, Writes
    <2>4. files[p].size = work[j].size
      BY <1>1, <2>2, <2>3 DEF StagingInv, Held, OneFile
    <2>5. files[p] = [owner |-> files[p].owner, size |-> files[p].size]
      <3>1. files[p] \in [owner : Jobs \cup Earlier \cup {None}, size : Sizes]
        BY <1>1 DEF StagingInv, Typed
      <3> QED
        BY <3>1
    <2> QED
      BY <2>1, <2>2, <2>4, <2>5
  <1>2. StagingInv => ToldHolds
    BY <1>1 DEF ToldHolds
  <1> QED
    BY <1>2, StagingSafe, PTL
=============================================================================
