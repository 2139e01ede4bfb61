# TLA+ models of handover-gmessages

The program is a helper process: it reads commands from the Handover daemon on
stdin, keeps one *session* per Google Messages account, drives the external
relay library (`libgm`) and writes events to stdout.  Everything interesting
happens between goroutines: command workers, reconnect loops, the relay's
polling goroutines, one event loop per session, repair and catch-up goroutines.
They share a `Session` under `s.mu`, and most of them read something under the
lock, release it, call the phone for seconds or minutes, and act on what they
read.  The code fences such late work with a *lifecycle* number; these modules
say what that fence achieves, what it does not, and prove the first part.

## Components

| Component | Code | State | Operations | Modelled in |
|---|---|---|---|---|
| Session lifecycle | `adapter/session.go`, `adapter/send.go` | `lifecycle`, `client`, `clientGen`, `auth`, `ps`, `pairCancel`, `connectCancel`, `connected`, `authenticated`, `closed`, `saveMu` | `Login`, `finishPairing`, `runConnectLoop`, `connectLoop`, `connectOnce`, `Restore`, `saveAuthIfCurrent`, `Logout`, `teardown`, `Close`, `GaiaLoggedOut`, `AuthTokenRefreshed` | `SessionLifecycle` |
| Relay queue and repair | `adapter/session.go` | `events` (bounded channel), `dirtyConvs`, `dirtyOrder`, `resyncing` | the handler of `buildClient`, `markDirty`, `requestResync`, `takeDirty`, `refreshDirty`, `eventLoop` | `RelayQueue` |
| Send pipeline | `adapter/send.go`, `adapter/sync.go` | `pending`, `selfIDs` | `SendText`, `SendMedia`, `sendToRelay`, `handleMessage`, `checkPending`, `sweepPending` | `SendPipeline` |
| Sync emission | `adapter/sync.go`, the catch-up in `adapter/session.go` | `syncMu`, `syncActive`, `syncGen`, `metas`, `cache` | `Sync`, `fullSync`, `emitConversations`, the conversation event, `emitMessages`, `emitWindow`, `FetchHistory` | `SyncEmission`, `Mirror` (the list of threads), `Windows` (the messages of one) |
| Hub | `main.go` | account map, 16 worker slots, stdout lock | `dispatch`, `spawn`, `session`, `forget`, `restore`, `shutdown` | `Hub` |
| Requests | `adapter/send.go` | `typingActive` | `React`, `MarkRead`, `Typing`, `DeleteMessage`, `Open` | `Requests` |
| Message mapping, media staging | `adapter/messages.go` | staging directory, `fullReq`, `cache` | `mapMessage`, `stageMedia`, `downloadPart`, `requestFullSize`, `uniquePath` | `Staging`; `mapMessage`'s verdict in `Windows` and `SendPipeline` |
| Store | `adapter/store.go` | session files, staging directory, `lastSweep` | `WriteAuth`, `LoadAuth`, `DeleteAuth`, `SweepStaged` | `SessionFile` (with crashes) and its abstraction `DurableFile`, `Staging` (attachments), abstractly in `SessionLifecycle` |
| Mapping | `adapter/map.go` | none | `mapStatus`, `mapConversation`, ... | `mapStatus` in `SendPipeline` |
| Contract, log, converter script, packaging | `adapter/contract.go`, `adapter/log.go`, `contrib/`, `scripts/` | none | encoding, redaction, install | not modelled: no state |

How they interact: the hub finds or makes the session of a command's account and
runs the command on a worker; only `hello` (which calls `Restore`) runs in the
command loop itself.  Sessions call the relay client and get called back by its
polling goroutines, which fill the event queue; the event loop drains it.  Every
component emits events through `fire`, which is silent once a session is closed.
The session file is shared by all saves of an account and by `Logout`.

The hard behaviours, one by one with their lines, are the `hazards` of
`PROJECT.json`; each names the properties that watch it or says why none does.

What makes each component correct:

- *Lifecycle*: one reconnect loop is wanted per account; only a client the relay
  accepted, with credentials the phone confirmed, is online; every poll of a loop
  can still be stopped, and a closed session has none; saves of different
  lifecycles land in order; a logout that found no save under way is not undone;
  a wanted loop gets the account online.
- *Queue and repair*: events of one poller stay in order through overflows; the
  dirty marks are consistent and bounded; one repair at a time, which ends, and
  fetches the threads anew that were marked before it took the marks.
- *Send pipeline*: one result per request, also on every failure path; statuses
  start with acceptance, never go back and never claim more than the phone
  attested; an echo finds its send however early it is.
- *Sync emission*: a thread that was in the inbox all through a listing, and did
  not move to its front before the listing had it, is not dropped by it, a list
  takes effect whole or not at all, and lists go forward in lifecycles; a catch-up
  does not give up after one failure; syncs end.  What the daemon has of a thread
  has no gap as far back as it has paged, and a window that closes costs it only
  messages that are gone or newer than the window.
- *Staging*: a path the daemon was told keeps the bytes of its own part, as long
  as no sweep finds more staged than the directory is to hold; the phone is asked
  for a part once within the hour, however many goroutines miss it.
- *Hub and requests*: every request id is answered once, unless its session is
  closed over it, whose events go nowhere; every session that is out of the
  map is marked closed, or about to be, and none is closed without a cause; a React that is
  reported ok has had its effect, but for other Reacts to the same message.
- *Store*: a crash at any step leaves the old or the new session file, whole, and
  what was reported as saved or deleted stays so; to its callers the file is one
  durable value.

## Modules

### SessionLifecycle

A `Login` or `Restore` call creates one auth object and one client and is then
one chain of goroutines (the command, `finishPairing`, `connectLoop`) that never
overlap with themselves.  An *era* stands for that call, so auth object, client,
pairing session, cancel functions and reconnect loop are all named by their era,
and pointer comparisons of the code are comparisons of eras.  The record `s` has
the fields `s.mu` guards; `pc`, `lc`, `cl` and `snap` are each goroutine's place
and its local copies of lifecycle, client and marshalled auth.  One action is
one critical section of `s.mu`, or one call to the relay or the disk, so that
everything between an unlock and the next lock interleaves:

- `LoginRetire` and `LoginSwap` are separate because `bumpLifecycle` and the swap
  are separate critical sections; `LogoutBegin` and `LogoutRetire` likewise.
- A save is three steps: `SaveBegin` (check and marshal), `SaveRecheck` (take
  `saveMu`, check again), `SaveWrite` (rename, with failure before it or after).
  `LogoutDelete` takes no lock.  What is saved is an auth object, whether the phone
  has confirmed its pairing, and how often the relay had refreshed its token.
- `LoopAnnounce` and `LoopEmit` are the check and the emission of
  `fireIfCurrent`.
- `RelayEvent` is the event handler: heard only from the newest client, stamped
  with the lifecycle of the moment.  What a poll is and when it ends
  (`pairPolls`, `loopPolls`) is the relay library's behaviour as the code relies
  on it: a poll ends when its context is cancelled or its client disconnected.

Other account events are emitted in the step they follow (`LoginSwap`,
`LoginStart`, `RestoreBuild`, `EventLost`); a delay of theirs would only add
orders in which the daemon reads them.
`file`, `told` and the history variables `lastPublished` and `wipedAt` are what
the properties speak about.

### SendPipeline

`pc[t]` follows the worker of one send through `SendText` or `SendMedia`, one
step per return, call or critical section; `stage` follows the event loop
through `handleMessage` and `checkPending` for one echo at a time.  `phone[t]`
is how far the phone got with the message, which only grows; `echoes` is the
relay queue; `told[t]` is everything the daemon read about the send.  The
statuses are the classes of `mapStatus`, ordered by `Rank`; its several `failed:`
tokens for echoes are one class, the transport failure of `relayFailure` is
another.  Transaction ids are unique random strings, so a send names its own;
the model follows the daemon in regarding the transaction id of the acceptance
and the message id of the echo as one message.  `Age` is the passing of
`pendingTTL`; the code's ten minutes are longer than any relay call, so it
applies only to sends whose worker has returned.

### RelayQueue

`pc[p]` follows each polling goroutine through the handler's overflow path:
push, evict, push again, mark, request a repair.  The two `select` statements of
the eviction are two actions, so that another poller or the event loop may come
in between.  `repair[p]` is the goroutine started by that poller's
`requestResync`.  A full sync is the windows it fetches (any threads, at most
`Recent`), a fetch is one step that may have done nothing.  `takeDirty` moves the
marks into `todo`, and the threads in it are fetched one by one.  Events carry a
number per poller, which is what order means here.

### SyncEmission, and its abstraction Mirror

`pc[p]` follows a goroutine through `fullSync`, whoever called it (`role[p]`):
the `Sync` command, the catch-up of a connect with its delays and attempts, or a
refresh (resume, repair), which has no memory of its own.  Under `syncMu` the
goroutine captures the lifecycle (`SyncBegin`), lists the inbox page by page with
the activity of a page's oldest thread as the cursor (`SyncPage`), maps the rows,
where any may be skipped (`SyncMap`), and emits chunks (`SyncEmit`).  `work[p]`
holds its locals.  The lifecycle is looked at before a page and after the
mapping, and never between chunks, as in the code.  `SyncAfter` is the unlocked
half, windows and save, for what the caller learns from it.

`mirror` and `gathered` are the daemon's side as `contract.go` describes it:
threads are added, chunks of one generation are gathered, and the chunk with the
authority flag replaces the list by what was gathered.  `live` holds conversation
events between the relay, the check of their lifecycle (`EventCheck`) and their
emission (`EventEmit`).  At any step the phone may drop a thread, or get a message,
which brings its thread to the front of the inbox, new or listed already.

`Mirror` is what the daemon may rely on: its list only grows, except that it is
replaced, in one step, by a list that has every thread which stayed in the inbox
while that list was made, but for those a message moved to the front before a
page had them (`stayed` loses these).  `SyncEmission` implements it with `Inbox` for
`inbox`, the daemon's threads for `mirror`, and the holder of `syncMu` for
`asked`, the listing that is open.

### Windows

The messages of one thread, numbered by their timestamps.  `pc[p]` follows a
goroutine through `emitWindow`, for a sync or a repair (`full`), for `Open`
(`open`) or for `FetchHistory` (`history`): the fetch, which counts only if the
session still owns the client; the mapping, two steps per message with a look at
the lifecycle in each, because a message with media may take minutes to download
(`WindowMap` remembers it, or tells its removal; `WindowKeep` keeps its content or
drops it); the look at the lifecycle afterwards; and the chunks of `emitMessages`,
between which it is not looked at again.  `work[p]` holds its locals.  The event
loop does the same for single messages (`EventTake`, `EventShow`), with removals
told at once.  `Blank` messages have nothing to show; those of them in `Tombstones`
are not remembered either.  `Remember` is `rememberMessage` with its limit, through
which `FetchHistory` finds the timestamp of a message id.

The daemon's side is external: it merges messages, a full window that has closed
replaces what it has from the window's oldest message on, and it pages with the
cursor of the last page or the id of its oldest message (`HistoryBegin`).  The
eviction of whole threads from the cache and the cursor's timestamp and scope are
left out: a message that is not known only makes `FetchHistory` fail, which
`WindowFails` does at any time.

### Staging

One job is a call of `stageMedia` that downloads: `Begin` picks what the part has
(inline bytes, a full object, a thumbnail, nothing), `Fetch` is the relay,
`UniquePath` and `Open` are apart as in the code, and bytes are copied a unit at a
time until they end, fail or turn out too many.  `NextSource` is the order in
which `downloadPart` tries things.  All parts have one name, which is the worst
case for `uniquePath`.  `files` is the directory and `older` its order by
modification time, a set of pairs of paths, which is what the sweep goes by.
`SweepBegin` drops what is a week old and lists the rest with sizes and order;
`SweepTake` removes by path the oldest that is listed, whatever is there by then;
whoever stages meanwhile does not sweep (`sweepMu.TryLock`).

Nothing keeps a process from staging more than the directory is to hold; then a
sweep takes files the daemon was told, as the code means it to, and may take one
that is still being written, whose failing copy then removes whatever has its
path.  `sweep.full` says that this process's files in a sweep's own listing were
more than the cap, and `taken` keeps the paths such a sweep took; `ToldHolds`
excuses these paths and no others.  Inline bytes that lose the race for a name are
neither staged nor asked for.

### Requests and Hub

`Requests` has the handlers of the one-shot commands; each is a worker on the
session it was given, one step per relay call, and the daemon's answers are
counted.  A React is two steps, reading the roster of our reactions and acting on
it; `roster` is the relay's, and `touched` notes for each React what other Reacts
have put or taken since it read.  A send is cut down to its result.  `Hub` extends it
with the command loop: `Lookup` and the start of a worker are separate, because
`hub.session` and `spawn` are, and so are the two halves of `forget`.  `hello`
and shutdown run in the loop, and shutdown takes the workers with it.  `Login`
and `Logout` appear as what they do to client and file.  A Session object is
named by its number; there is one account, since accounts share only the pool,
which two slots for three commands already exhaust.

### SessionFile, and its abstraction DurableFile

One step per call of the operating system in `WriteAuth` and `DeleteAuth`.  A
power loss keeps any of what the file's name stood for since the directory was
last synced (`maybe`) and cuts off the bytes of a file that was not synced; a
kill loses neither.  Calls interleave without a lock, which is more than
`saveMu` allows, since `Logout` and `Login` of one account do not share it.
`SweepStaged` is here for the temp files only.

`DurableFile` is what the callers may rely on, with no temp file in sight: a
value, what a crash may bring back instead, and for each call whether it took
effect and how it ended.  A call takes effect in one step or never; one that
returned ok leaves nothing to go back to; one that a crash cut short never comes
through later.  `SessionFile` implements it with what `LoadAuth` reads for
`value` (nothing, if the bytes were cut off) and `maybe` for `fallback`; a call is
seen to take effect at its rename or its removal.

## Runs

`MC*.tla` only extend the module they instantiate (with a symmetry set where one
is used); the `.cfg` files give the constants.  `CHECK_DEADLOCK FALSE` is set in
all of them because the system may stop: commands end, sessions close, and the
bounds exhaust.

| Run | Instance | Question |
|---|---|---|
| `relogin` | 2 logins, 1 logout | safety of the lifecycle: one wanted loop, polls that can be stopped, none after a close |
| `retry` | 1 restored session, 2 relay events, 1 logout, fair | liveness of the reconnect loop, order of saves |
| `sends` | 1 text, 1 media, queue 1, 1 retry, 1 retire, fair | send pipeline: safety, and every request is answered |
| `overflow` | 2 pollers with 2 events each, queue 2, 1 mark, 1 recent window, 1 retire, fair | order, marks and what becomes of them, repair |
| `sync` | 2 goroutines, 1 of them also a catch-up, 3 threads, 1 of them gone, pages of 1, at most 2 pages, 2 attempts, 1 change, 1 retire, fair | the refinement of `Mirror`, order of lists, catch-up, end of syncs |
| `hub` | 3 commands of any kind, 2 workers, 2 Session objects, 2 emojis | answers, sessions lost or closed, React |
| `store` | 3 saves, 1 deletion, crashes and sweeps | the session file on disk, the refinement of `DurableFile` |
| `windows` | 2 goroutines with 2 fetches, 6 messages, 1 of them still to come, 1 a tombstone and 1 without content, windows of 3, cache of 1, 1 deletion, 1 retire | gaps, and what a closing window may cost |
| `staging` | 3 downloads of 1 part, 2 paths, a file of an earlier run, a cap below what the 3 stage, 2 hours | paths the daemon was told, full-size requests |
| `silent_refusal`, `lost_login`, `moved_thread` | smallest that show it; `moved_thread` has the instance of `sync` | a sentence of the code or its comments that an interleaving breaks |

Why the bounds are enough: two logins give every race between a retired and a
current era (a third would be retired twice, and the fence does not count); one
logout meets both of them at each of its steps. Logins are interchangeable, so
`relogin` uses symmetry, which is sound there because it checks no liveness. Saves
race in `retry`: two relay events are saves of the event loop, on both sides of
the logout whose revoke fails and which retires what they captured. One text and
one media send share the sweep of `pending`, the queue and the event loop. A queue
of one already drops and delays echoes. With a queue of two, four events overflow
it twice, once per poller or twice by one; with a single mark the second overflow
evicts the first one's mark; one retire may be a login or a close. In `sync` two
pages of one thread neither reach nor pass the limit when the inbox has two
threads, and do when a third arrives; one message is enough to move a thread
between two pages; two goroutines are the one that holds `syncMu` and one that
waits, or one of an older lifecycle and one of the newer. In `hub` three commands
are a logout, the login that overtakes it, and a request that was handed a session
by then forgotten; two Session objects are that one and its successor. In `store`
three saves are one that is in place, one that replaces it, and one under way at
the crash. In `windows` two goroutines are a full window and the page or second
window that overtakes it, five messages are two pages, and the sixth comes while
they are read; a cache of one forgets the message history is asked by as soon as
another is remembered. In `staging` two of the jobs race for a name and the
third's sweep lists the file of one of them; one staged file fills the cap, so
that a sweep has something to take while the earlier run's file is there, and
finds more than the cap once two of this process are; the two hours are three
sweeps.

Fairness: goroutines that can run do run (weak fairness on their steps), because
the Go scheduler starves none and every relay call in them has a context with a
deadline.  `retry` also assumes strong fairness of `LoopFetched` and
`LoopConnected`: a relay that keeps being asked keeps answering, i.e. an outage
ends; without it no reconnect loop can promise anything.  Nothing makes the user
confirm a pairing, so `PhoneAnswers` is not fair, and the phone need not echo.
`sync` asks only that some sync step is taken as long as there is one
(`WF` of the disjunction): no fairness of `syncMu` among the goroutines is
needed, because each of them has finitely many steps.  `hub`, `store`, `windows`
and `staging` check safety only.

### What the violations show

- `silent_refusal`: `finishPairing` cancels its own context before it tests
  whether that context was cancelled, so a refused pairing is never reported.
- `lost_login`: the worker of a logout calls `forget` after `Logout` has returned.
  A login read in between works on the session that is still in the map, and
  `forget` then closes it.  `ClosedForCause` is what does hold: only a logout
  that tore a session down, or shutdown, closes one.
- `moved_thread`: "only a demonstrably complete listing may close as
  authoritative", lest it delete "live state the daemon still holds"
  (sync.go:309-312).  A thread that gets a message between two pages moves ahead
  of the cursor (sync.go:161), is in neither page, and the list counts as
  complete.  `ImplementsMirror` is what does hold: such threads and those that
  left are all that a list drops.

The models also show behaviours at odds with a comment for which there is no run;
each is reachable in the module named, and the property beside it says what holds:

- A save that passed its recheck before a logout publishes after the logout has
  deleted the file, though "a stale sync must never recreate a session file logout
  deleted" (session.go:382; recheck at :404): `SessionLifecycle`.
  `CleanLogoutHolds` says that once the session is torn down with no save in that
  window, nothing older comes back.
- Two saves of one lifecycle both marshal before either takes `saveMu`, and the
  older snapshot may land last, though the recheck is there "so two concurrent
  saves cannot publish out of order" (session.go:100): `SessionLifecycle`.
  `PublishesInOrder` holds of saves of different lifecycles.
- An event lost between `takeDirty` and the release of `resyncing` marks its
  thread but starts no repair, and a window fetch that fails loses its mark: the
  loss lingers until the next overflow or sync, though one is scheduled "so the
  loss heals instead of lingering" (session.go:257): `RelayQueue`.
  `MarksAreRefetched` holds of marks set before the running repair takes them.
- Two Reacts that both read the roster before either acts leave two reactions,
  though "emoji changes use SWITCH instead of stacking" (send.go:535): `Requests`.
  `ReactHonoured` excuses only what another React has put or taken since the
  reading.

And some that no sentence of the repository rules out:

- A token refresh of the outgoing client between the two critical sections of
  `Login` (send.go:84) is stamped with the new lifecycle and persists credentials
  whose pairing the phone has not confirmed.
- A history page with nothing to show loses the cursor the relay named
  (sync.go:394), so that the daemon cannot page further with it.
- A full window fetched before a deletion was told and emitted after it brings
  the message back (sync.go:521) until the next window.
- A relay call that fails after the phone has taken the message is reported as
  `failed:transport` behind the statuses of its echoes (send.go:324).
- A `Login` that was handed its session before a `forget` runs on it after
  `Close`: it builds a client and polls for the phone's confirmation, and nobody
  closes that again (main.go:197).  `NoneLost` speaks of the flag only.

## Proofs

`SessionLifecycleProofs` has, for every value of the constants that satisfies
their assumptions:

| Theorem | States | Argument |
|---|---|---|
| `TypeCorrect` | `Spec => []TypeOK` | inductive as it stands, one step per action |
| `OneLiveLoop` | `Spec => []AtMostOneLiveLoop` | inductive relative to `TypeOK`: whoever sets `connectCancel` cancels the loop it named first |
| `SavesPublishInOrder` | `Spec => PublishesInOrder` | from `SaveInv` and `SnapInv`: a snapshot taken under a later lifecycle is not older than the ones under way, nor than the file |
| `LogoutHolds` | `Spec => []CleanLogoutHolds` | from `SaveInv` |
| `OnlyConnectedIsOnline` | `Spec => []OnlineIsEarned`, assuming one hello per process | `OnlineInv` |
| `LoopsAreStoppable` | `Spec => []LoopPollsStoppable` | from `LoopControl` |
| `CloseEndsLoops` | `Spec => []ClosedServesNoLoop` | from `LoopControl` |

`SaveInv` is needed because neither save property mentions who is saving.  It
adds that a goroutine between its recheck and its rename holds `saveMu`, so there
is one at most, and that its lifecycle is not older than the newest published
save nor than the last clean teardown, and not newer than the session's: then
the rename cannot go back.  `OnlineInv` adds that an attempt past its `Connect`
captured a client the relay accepted and the phone confirmed, which the recheck
of `LoopCommit` turns into the installed client, and that a `Restore` under way
finds the account offline with no other era begun.  That last part is where the
theorem assumes `RepeatedHello = FALSE`, the one place where the code needs the
daemon's good behaviour: a second `hello` while a session is online would
install a client that never connected and leave `connected` set (session.go:467).

`LoopsAreStoppable` is about what a poll costs when nobody can end it: the relay
goes on serving a client the account has replaced.  `LoopControl` says that a loop whose
context nobody cancelled is the one `connectCancel` names, that only such a loop
has polls, even after it ended, and that an attempt still under way after `Close`
belongs to a cancelled loop, so its `Connect` does not count.  Polls of pairings
have no such theorem: a `Login` overtaken between its swap and its config stores
its own `pairCancel` over that of the newer login.

`RelayQueueProofs`, for any number of pollers, threads, events and any limits:

| Theorem | States | Argument |
|---|---|---|
| `TypeCorrect` | `Spec => []TypeOK`, the queue's bound included | with `HandsFull`: a poller in the overflow path holds an event, so what is pushed is one |
| `OneRepairOnly` | `Spec => []OneRepair` | `Single`: the flag is up iff exactly one repair goroutine runs |
| `MarksAgreeAlways` | `Spec => []MarksAgree` | `Marks`: the order list has no repetition, so its head is forgotten by the set when it is dropped |
| `InOrderHandling` | `Spec => HandledInOrder` | `InOrder`: numbers of one poller increase along the queue, the one in its hands is beyond them, the one handled is before them |

`SyncEmissionProofs`, for any number of goroutines and threads and any page size
and limit:

| Theorem | States | Argument |
|---|---|---|
| `TypeCorrect` | `Spec => []TypeOK` | with `Mutex`: whoever lists, maps or emits holds `syncMu` |
| `NewestListLast` | `Spec => ReconcilesInOrder` | `InTurn`: the holder's lifecycle is not older than the newest list's |
| `CatchupsDeliver` | `Spec => []CatchupDelivers` | `Delivers`: a catch-up's lifecycle is never ahead of the session's, and behind it once that is closed |
| `ListsComplete` | `Spec => ImplementsMirror` | see below |

`ListsComplete` is a refinement proof: the initial states map to initial states,
and each step maps to a step of `Mirror` or to a stutter.  The hard step is the
authoritative chunk, which must have every thread of `stayed`.  The invariant
`Covered` says why: while a list may still be complete, a thread of `stayed` is
among those listed or behind the cursor; once it has been mapped whole, all of
`stayed` is among those listed; and while chunks of a generation go out, what is
listed is what is left together with what the daemon has gathered.  A thread that
moves before it is listed would break the first of these, and leaves `stayed`.

`WindowsProofs`, for any number of goroutines and messages and any sizes of
window, chunk and cache:

| Theorem | States | Argument |
|---|---|---|
| `TypeCorrect` | `Spec => []TypeOK` | the cache's limit included |
| `WindowsSpareMessages` | `Spec => DropsOnlyGone` | a window that is emitted under one login has mapped all there was from its oldest message to its fetch, but for what is blank or deleted |
| `HistoryHasNoGaps` | `Spec => []NoGaps` | the same of pages, which begin where the daemon has paged to; what it has there goes only when deleted, or in a window that brings it along |

`SendPipelineProofs`, for any number of sends, retries and logins and any size of
the queue:

| Theorem | States | Argument |
|---|---|---|
| `TypeCorrect` | `Spec => []TypeOK` | with `Busy`: the event loop past its first step has an echo in hand |
| `RequestsAnsweredOnce` | `Spec => []AnsweredOnce` | `Flow`: what a worker has answered, told and sent, by its place |
| `StatusesGoForward` | `Spec => []StatusesAdvance` | see below |
| `NoStatusInvented` | `Spec => []StatusesAttested` | `EchoesHeard`: an echo is never ahead of the phone |
| `EarlyEchoesMatch` | `Spec => []EchoFindsItsSend` | `Registered`: what the phone may know of has its entry or has had it |

Statuses advance because those of one send go up along one line: what the daemon
was told (`ToldInOrder`), the echo in hand, the echoes in the queue
(`EchoesInOrder`, `EchoesAhead`), and the phone's own progress.  Each step moves
a status along that line without passing another, an overflow drops one from its
middle, and the worker only adds the acceptance in front, when the phone has
nothing yet (`Begun`), and `failed:transport`, which has no rank.

`HubProofs`, for any number of commands, worker slots and Session objects:

| Theorem | States | Argument |
|---|---|---|
| `TypeCorrect` | `Spec => []TypeOK` | with what each kind of command may do (`Acts`) |
| `OneAnswerEach` | `Spec => []EndsAnswered` | `Owing`: answers are counted along with the place of a command |
| `NoSessionLost` | `Spec => []NoneLost`, which is about the `closed` flag | `Roles`: who is between the halves of a `forget` names the session it took out |
| `ClosedOnlyForCause` | `Spec => ClosedForCause` | from `Roles` |
| `ReactsHonoured` | `Spec => []ReactHonoured` | by its place, what a React read, planned and applied differs from the roster only in what others have touched since |

`SessionFileProofs`, for any sets of calls and any number of crashes:

| Theorem | States | Argument |
|---|---|---|
| `TypeCorrect` | `Spec => []TypeOK` | inductive as it stands |
| `DurableAlways` | `Spec => []Durable` | the name can only come to stand for flushed saves, flushed bytes are never torn, and a promise leaves one candidate |
| `NeverReadsTorn`, `OkSurvives` | `Spec => []NeverTorn`, `Spec => []OkIsKept` | from `Durable` |
| `FileIsDurable` | `Spec => ImplementsFile` | a refinement, step by step: `Rename` and `Remove` are where a call takes effect, the last `syncDir` is its ok, the first one only settles, and a power loss falls back to a whole file by `Durable` |

`DurableAlways` is the inductive invariant itself; no run checks it or the
`TypeOK` in it by that name.

`StagingProofs`, for any number of jobs, parts, paths and files of an earlier run,
and any sizes and cap:

| Theorem | States | Argument |
|---|---|---|
| `StagingSafe` | `Spec => []StagingInv` | see below |
| `TypeCorrect`, `ToldPathsHold` | `Spec => []TypeOK`, `Spec => []ToldHolds` | from `StagingInv` |
| `PhoneAskedOnce` | `Spec => []AskedOnce` | the calls made are tied to the marks |

The hard step is the sweep, which removes by path and adds up sizes it has read
earlier.  `StagingInv` has the reason why it takes a told path only when `full`
says so: a job has one file at most; a file of an earlier run is older than any
job's and disappears only by that sweep; so if what the sweep lists of the jobs
fits the cap, a sweep that is still over it has such a file left, and the oldest
is one (`TakesEarlier`).  Bytes are counted as members of a set, so that no sum
over a list needs induction.

Only model-checked: all liveness (`Reconnects`, `RequestsAnswered`, `RepairsEnd`,
`MarksAreRefetched`, `SyncsEnd`), which TLAPS does not reach.

The definitions marked "Faulty variant" are mutations of the definition after
them; `PROJECT.json` pairs each with the property that catches it.  No
specification uses them.

## Not modelled

- The catch-up syncs after connect and resume are absent from `SessionLifecycle`:
  their only effect there is a save, which is the same protocol as the others.
- Lifecycle wrap-around at 2^64 (the code skips zero) is out of reach in practice.
- `libgm` itself, encryption, JSON, logging and redaction; the mapping of
  conversations, participants and messages to the wire format, which keeps no
  state (`mapStatus` is in `SendPipeline`, where its order matters).
- The converter script and the packaging scripts run outside the program.

## What could follow

- Two accounts in `Hub`, which share nothing but the worker slots.
