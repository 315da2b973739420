# Verification of SAMPO

TLA+ models of SAMPO, the local catalogue of a user's files, with the TLC
runs that check them on small instances and the TLAPS proofs of their main
theorems. Source paths are relative to `src/`. The code is the reference;
where its documents say something else, a run shows the difference.

## The system

SAMPO is one Go process that serves a page on a loopback port. The user
enrols *providers* (directories), asks for scans, and searches what the scans
found. Files are never changed.

| Part | State it keeps | Operations |
| --- | --- | --- |
| Catalogue, `internal/catalog/store.go` | SQLite: `providers`, `contents`, `appearances`, `appearance_events`, `scan_issues`; one connection, so transactions are serial | `AddFilesystemProvider`, `EstablishProviderRoot`, `BeginScan`, `FailScan`, `ReconcileScan`, migrations, reads |
| Matching, `matchObservations` in the same file | none | two passes that pair observations with known appearances |
| Root identity, `internal/rootidentity` | none | `Probe` (external evidence), `Verify` |
| Application service, `internal/app/service.go` | `running`, the providers being scanned, under a mutex | `EnrollFilesystem`, `Scan` |
| Observer, `internal/observer` | none | walk of a root; stable hash of a file: two looks at its size, time and identity around the reading of its bytes, a third at its path, with retries |
| Gateway, `internal/gateway/gateway.go` | sessions, the one-time token, a wait group of scan goroutines | HTTP handlers; `scanProvider` starts a goroutine and answers 202 |
| Process, `cmd/sampo/main.go` | the background context, cancelled by a signal | start, drain the server, wait at most ten seconds for scans |
| Debug Mode, `internal/diagnostics` | the flag `enabled` (atomic), the active session and its files under a mutex; a log and a summary of each session on the disk | `Start`, `Stop`, `Interrupt`, `Record`, `CapturePanic` |
| Seshat boundary, `internal/seshat` | none | the interface of the catalogue and a decorator that records outcomes |

The parts meet in four places. A request handler calls `EnrollFilesystem`,
which probes the directory *before* the transaction that compares it with the
enrolled ones. `scanProvider` leaves a goroutine that runs `Scan`: claim the
provider, read its record, mark it as scanning, probe and verify its root,
walk and hash, probe and verify again, and write the outcome; each of these is
a call of its own between which other requests, the user's file manager and
the signal that stops the process act. `ReconcileScan` decides, from the
history of earlier scans, which file is which, and rewrites the rows one
statement at a time. And every request asks Debug Mode, at each layer it goes
through, whether it is enabled, and records there what it does, while other
requests start and stop it.

### What is hard about it

* **Concurrency.** Requests and scan goroutines interleave; evidence and
  records are read outside the transaction that uses them.
* **A world that moves.** Directories are replaced, moved, linked and
  unplugged between a probe and its use; files swap names, get hard links,
  lose and regain their readability between scans.
* **Failure.** Each catalogue call and each statement may fail, `FailScan`'s
  own failure is ignored, the process may die at any step and is stopped by
  cancelling the scans. A line of the log may be written in part; a summary is
  emptied before it is written again.
* **Order.** The first matching pass is greedy in walk order; clocks are not
  monotonic; the second pass compares times. A unique index must hold after
  every statement while files swap names. The cookie and the session it
  stands for expire by different clocks.

### What makes each part correct

* *Matching*: an appearance is given to at most one observation, only of its
  own content; a file that did not move is not renamed.
* *Scan transactions*: what is shown as available is what the last committed
  scan saw, or nothing; no two available appearances share a locator; events
  explain where each appearance is; replaying a scan changes nothing; an
  appearance never changes its content.
* *Enrolment*: two providers never overlap, no directory is enrolled twice,
  and what a probe finds is verified as the root of at most one provider.
* *Service*: scans of one provider exclude each other; everything shown was
  read from the enrolled directory, unless that directory itself was put
  elsewhere during the scan; every scan ends and a stop completes.
* *Stable hash*: a digest that is accepted, its time and its identity belong
  to one version of one file that was at the path; only a change of the file
  costs an attempt.
* *Debug Mode*: a summary claims no more than the log holds; a session that
  is called completed is told from its start to its end; nothing reaches a
  log before or after its session; every call returns.
* *Gateway*: a start of the process admits one browser session; a cookie
  that was let in once is not refused while it lasts; what one request does is
  told in order under one correlation id, but for events whose write failed,
  whatever happens to Debug Mode meanwhile.

## The modules

| Module | Models | State and actions |
| --- | --- | --- |
| `Matching` | `matchObservations`, `uniqueCandidate`, `sameContent` | pure operators. `FirstPass` is the first loop: what an observation takes depends on what the ones before it took (`UsedBefore`); `MatchObservations` adds the second pass; `Continuity` is the label |
| `Reconciliation` | the tables that scans change, `BeginScan`, `FailScan`, `ReconcileScan` | `rows` are the appearances, `events` the event log of each, `status` is `providers.scan_status`, `last` is history: what the last committed scan saw. `ReconcileScan(p, obs, bad, at)` takes any walk's result. `GiveUp` is the failure of `FailScan`, `Restart` the end of the process |
| `ReconcileTx` | `ReconcileScan` statement by statement, `Rollback`, the unique index on available locators | extends `Reconciliation`: its variables are what is committed, `tx` is the open transaction. `BeginTx` loads and matches, `Park`, `Write`, `Restore` are the statements of the three loops, `Commit`, `Rollback` and `Die` end it |
| `RootIdentity` | `rootPathsOverlap`, `samePhysicalRoot`, `validateProviderRoot`, `Verify` | pure operators over evidence records; a path is the sequence of its components |
| `Enrollment` | `EnrollFilesystem`, `AddFilesystemProvider`, the first steps of `Scan`, `EstablishProviderRoot`, migration 2 | `providers` is the table, `actors` what each request holds between its steps, `where` the file system (external), which `MoveDirectories` changes |
| `ScanProtocol` | what the service promises about `scan_status` | abstract specification: begin, then one outcome, or none if it cannot be written |
| `ScanService` | `scanProvider`, `Scan`, the walk, `run`'s life cycle | `pc` is the next call of each scan; one action per call. `link`, `at`, `plugged` are the file system (external): the place a provider's submitted locator leads to, and the directory at each place, which `Put` and `Repoint` change. `Probe` and `ProbeAfter` go through the link, `Read` to the place the first probe found (`probed`, the code's `currentRoot`). The catalogue is reduced to the status, the root evidence and `shown`, the directories and places the available appearances were read from; `moved` and `mixed` are history: the probed directory was put somewhere between the probes |
| `StableHash` | `HashStable`, `hashOnce`, `identityFromFile`, the error codes of the scanner | `pc` is the next system call of an attempt; `path`, `data`, `mtime` are the file system (external), which `Change` moves between any two calls. `seen` is history: the versions that were at the path during the attempt; `calm`: nothing has changed in it |
| `Recorder` | what Debug Mode promises to those who use it | abstract specification: at most one session, whole events appended to its log while it is active, and lost from its end only where the machine stops; an event whose write or flush fails is not appended at all |
| `DebugSession` | `Manager` of `internal/diagnostics` | `lock` is the mutex, `call` what each goroutine is in, `todo` the system calls the holder has left; `log`, `summary` are the files, `synced`, `surviving` what of them is on the disk. `Fail`, `Kill` and `Outage` are a failed or short write, a killed process and a loss of power |
| `Gateway` | `bootstrap`, `authenticate`, the middleware, the handlers, `Service.operation` and `record`, `WithDiagnostics` | `sessions`, `births`, `cookie` and the clock `now`; `answers` are the cookies on their way to the browser, which `Receive` delivers late, out of order or never; `lost` is history: the steps whose event could not be written; `request` holds what each request has passed and the correlation id in the context of each layer. `Ways` lists what a request of each kind goes through; `Enter`, `Leave`, `Note`, `Report` are the four ways of recording. The recorder is the abstract `Recorder` |

`MCReconciliation`, `MCReconcileTx`, `MCEnrollment`, `MCScanService`,
`MCStableHash` and `MCGateway` add symmetry sets, small file systems and plans
of requests for TLC. The modules named `...Proofs` hold the proofs.

```
Matching <- Reconciliation <- ReconcileTx        RootIdentity <- Enrollment
ScanProtocol <= ScanService                      StableHash
Recorder <= DebugSession,  Recorder <- Gateway
```

(`<-` is used by, `<=` is implemented by; `ReconcileTx` also implements
`Reconciliation`.) Operators named
`X_Something` are mutants: what `X` would be with a plausible bug, used to
see that each property can fail.

Abstractions, and why they keep the behaviour:

* A content is an element of `Content`, standing for a digest and a length.
  A locator is a number, its rank in the order in which `filepath.WalkDir`
  visits the files. A native identity is an element of `Ident`, or `NoIdent`
  on systems that have none (`identity_other.go`).
* In `Reconciliation`, `ReconcileScan` is one step: the store has one
  connection and one transaction. `ReconcileTx` shows that this is right: its
  statements, with failures and crashes between any two of them, implement
  that step. What stays trusted is that SQLite commits a transaction or not.
* Appearance ids are chosen from a finite set, where `NewID` draws 128 random
  bits.
* `FirstPass` is the set of functions that satisfy the loop's equation, which
  has exactly one element, because proofs can use an equation.
* In `ScanService` an observation is the directory and the place it was read
  from; strong evidence is the directory's identity, weak evidence its final
  path (`Verifies`), as in the code. A place is a final path, which leads
  through no link; one that becomes a link later counts as the directory it
  leads to. Each provider has places of its own: roots that overlap are the
  subject of `Enrollment`, and `Establish` may be refused for them.
* In `StableHash` a digest is the sequence of bytes it was computed of, a
  file's identity is the file, and every change gives a file a modification
  time of its own.
* In `DebugSession` an event is its kind. A line that was cut short swallows
  the next one, which is written onto it; a summary is its status, count and
  warning, or `Partial`. The mutex holder's operations are listed in `todo`
  by the operators `Record`, `Finish` and `Steps`, which are the code's call
  sequences.
* In `Gateway` requests are those that SAMPO's own page sends. How far a scan
  or an enrolment gets is a choice among the ways through its code; its
  effect on the catalogue is in the other modules. While Debug Mode is
  active, any event may fail to be written and is then dropped
  (`recordLocked`); how a line or a summary is spoilt by that is in
  `DebugSession`.

## The runs

| Run | Question | Bounds |
| --- | --- | --- |
| `reconciliation` | Does the catalogue stay consistent with the files through any three scans with native identities, written statement by statement, with failures and crashes in between? Is each as good as one step? | 1 provider, 2 locators, 2 contents, 2 identities, 4 appearance ids, 3 scans |
| `reconciliation_no_identity` | The same without identities, in single steps, for two providers scanned at once and clocks that go backwards | 2 providers, 2 locators, 2 contents, 2 times with a window of 0, 4 scans |
| `enrollment` | Can racing requests with stale evidence enrol what overlaps? | 2 requests, nested and aliased paths, 2 directories, 3 providers of which one of version 1, 1 change of the file system |
| `scan_service` | Are scans exclusive and truthful under every fault? | 2 providers (one unestablished, one weak), 2 directories and 2 places each, 2 concurrent scans, 2 requests, 3 changes of directories and links, failing calls, crash and restart |
| `scan_ends` | Do scans and stops complete, and is the mark removed? | 1 provider, 2 scans, 3 requests, 2 directories and 2 places, 2 changes of directories and links, unplugging, 2 starts |
| `stable_hash` | Can a mixture of two versions be accepted, or an unchanged file be refused? Does hashing end? | 2 files of at most 2 bytes, 2 byte values, with and without identities, 1 retry, 2 changes |
| `debug_session` | Are log and summary right under races, failed writes, kills and power loss? Do calls return? | 2 goroutines, 2 sessions, 4 calls, 1 failure, 1 death |
| `gateway` | One session per token? Do cookie and session agree, however late the answer? Is every request told step for step, but for lost events, under one id? | four plans of requests (competing bootstraps around a restart; an enrolment while Debug Mode starts, stops and starts again; a scan and a view while it starts), 2 open requests, 2 launches, 2 Debug Mode sessions, lifetime 1, clock to 2, 1 lost event of a scan or a view |
| `posix_root`, `unreadable`, `killed_summary`, `session_idle` | differences between code and documents, below | the smallest instance that shows each |

Two locators are enough for swaps, renames and hard links; two contents for
edits and for mismatched candidates; two identities for replaced files. Three
scans are enough to create, swap or link, and lose or replay, with every
prefix of each transaction; the run without identities takes four. The window
for a probable rename is 0 and the clock shows one or two values, so that
evidence is fresh, expired or in the future. Two scans compete for one
provider in every run of `ScanService`; two places and two directories let
the link and the walk name different directories, and three changes let the
enrolled directory leave, another take its place, and the link follow it or
the directory come back, between the two probes of a scan. Two changes reach
every outcome of a probe, which is what the endings need. A cookie's answer
may come any time after its session is made. Two files and two changes are enough for a
file that is replaced and comes back, or is written twice, between any two
calls of an attempt; a retry of the code (it makes two) differs from the next
only by its count. Four calls are enough for a session that starts, records
and stops with one more operation in its way, or for a second session; one
failure and one death meet every step. A clock to 2 with a lifetime of 1
reaches before, at and after the expiry. `CHECK_DEADLOCK FALSE` is used
because the bounds on scans, requests, calls and starts stop the models, and
because a stopped process is a real end.

### Fairness

`FairSpec` assumes weak fairness of each scan goroutine and of the two steps
of the stop. It is justified by the code: no call of `Scan` waits for another
goroutine (the mutex is held for a map access, the single database connection
is given back by each call, `busy_timeout` bounds its waiting), a walk visits
a finite tree and hashes each file at most three times (`HashRetries: 2`),
and `Wait` and `Shutdown` return when their condition holds. Nothing is
assumed of requests, of the signal, or of the file system. `Read`, one more
file, has no fairness: the walk ends by `EndWalk`.

In `StableHash`, the goroutine that hashes goes on (weak fairness of
`HashStep`), and other programs make finitely many changes (`MaxChanges`):
the reading of a file that grows for ever does not end. In `DebugSession`, the
goroutine that holds the mutex goes on, since its calls are file operations
that return (weak fairness of `Work`); one that waits for the mutex gets it
when it is released again and again, as Go's `sync.Mutex` guarantees by its
starvation mode (strong fairness of `Acquire`). Neither assumes that the
process is not killed.

## What the runs show to differ

| Run | Code | Text |
| --- | --- | --- |
| `posix_root` | `store.go:427`: `/` keeps its separator when trimmed, so nothing is below it and `/` and `/x` are both enrolled | `IMPLEMENTATION-MILESTONES.md:48` promises rejection of parent/child overlap |
| `unreadable` | `store.go:656`: a file that could not be read counts as disappeared for a probable rename | `IMPLEMENTATION-ADRS.md:109` asks for exactly one disappeared locator |
| `killed_summary` | `manager.go:266`: the summary is opened with `O_TRUNC` and then written; a kill in between leaves it empty, though events were flushed | `README.md:160`: "the summary identifies the session as incomplete" |
| `session_idle` | `gateway.go:258`: the cookie's `MaxAge` is set once, at the bootstrap, so it ends thirty minutes later however recently the session was used | `IMPLEMENTATION-ADRS.md:129`: it "expires after 30 idle minutes" |

Further limits were met while modelling and have no run.

*Scans.* A new hard link that the walk meets first takes the file's
appearance as a confirmed rename, and the file that never moved is
"discovered" (`store.go:627`; `MVP-ARCHITECTURE-DECISIONS.md:26`: "If both
remain, they are two appearances."). Two unavailable rows with one identity
and locator (a history of hard links, then a failed scan) are ambiguous, and
replaying the last scan inserts a new appearance (`store.go:700`;
`MVP-ARCHITECTURE.md:308`: replaying "cannot duplicate Content, Appearances,
or events"); that takes four scans of three appearances. A normal stop cancels
the scan, and its error is answered with `FailScan`, which makes everything
unavailable (`service.go:132`; `MVP-ARCHITECTURE.md:112`: "does not fabricate
absence"). `FailScan` (`store.go:455`) and the return of an appearance to its
locator change availability without an event.

*Roots.* The two verifications around the walk look at the submitted locator,
and the walk goes to the place the first of them found. If the enrolled
directory is moved away and put back in between (`service.go:138`), or moved
while the submitted locator is made to lead to its new place
(`service.go:128`, `136`), both verifications see the enrolled directory and
the walk may have read another. Both take a move of the enrolled directory
itself during the scan, which is the exception `ShownFromEnrolledRoot` states;
without the exception TLC finds either. With weak evidence everything is read
at the enrolled path, whatever directory is there. A root moved into
another provider's tree and linked from its old place still verifies, because
strong evidence is compared without its path (`identity.go:29`). A version 1
row keeps the typed locator as its path evidence (`store.go:186`), which the
volume-GUID paths of Windows probes never overlap until the row is
established.

*Hashing.* What a change must alter to be noticed is the size, the time or
the identity: a file system with a coarse clock, or a program that restores
the time, can hide a change (`hash.go:84`). For the moment in which a program
saves by deleting and renaming, there is no file at the path; that error is
not tried again (`hash.go:75`).

*Gateway and Debug Mode.* If the answer to the bootstrap is lost, its token is
used up and only a restart gives another. If it is late, the browser counts
the cookie's thirty minutes from its arrival, the Gateway the session's from
the bootstrap (`gateway.go:253`): a cookie not used in between may be refused
while the browser still sends it. Once a request has been let in, that is
over, and `CookieIsEnough` says so. An event that cannot be written or flushed
is missing from the log of a session that goes on (`manager.go:200`), which
its summary warns of. `time.Now().UTC()` drops the
monotonic clock, so a clock that is set backwards and forwards can end a
session before its cookie. A read of the page that Debug Mode finds without a
correlation id (it started meanwhile) gets one per query. The result of an
operation may be told in a later session than its intent. A request that was
started before the interruption at the stop of the process may start a session
after it, which nobody ends. `Stop` ignores the failure of the last sync of
the log.

## What is proved

For every value of the constants that satisfies the named assumptions
(`WindowAssumption`, `CatalogueAssumption`, `TxAssumption`: a parked row's
locator is no file's; `EnrollmentAssumption`, `ServiceAssumption`,
`HashAssumption`, `RecorderAssumption`, `GatewayAssumption`):

* **Matching** (`MatchSound`): matching is injective on known appearances and
  gives an appearance only to observations of its content. By the equation of
  `FirstPass`: a choice is never among those used before, which gives
  injectivity by comparing the two observations' order; the second pass takes
  only unused appearances and only the sole observation of a content.
  `MatchedByLocator`: without identities the locator decides.
  `MatchedByIdentity`: with them a file is followed wherever it goes, and its
  two exceptions in walk order, a hard link and a copy at the old place, are
  hypotheses. `LabelsMean`: a rename is called confirmed only on an identity,
  and probable only where nothing else could be meant. `MatchedAgain`:
  observations that are the available appearances get those appearances back,
  hard links or not. The choice for an observation depends on those made
  before it, so this goes by the first observation of the walk that would get
  another one (`Least`): those before it have taken their own, and of what is
  left its own is the only one that fits.
* **Catalogue**: `TypeCorrect`, `UniqueCorrect`, `MirrorsCorrect`,
  `EventsCorrect`, `ContentCorrect`. All rest on `MatchSound`: because no two
  observations share an appearance, the rows after a commit are described
  one by one (`ObservedRow` for the seen, the old row made unavailable for
  the rest). `AvailableMirrorsLastScan` is inductive with `TypeOK`, and
  implies that locators are unique, since the observations are a function of
  the locator; `EventsExplainLocators` needs the case of an event sequence
  that grows by at most one.
* **Catalogue without identities** (`OneCorrect`, `RenamedCorrect`,
  `ReconnectCorrect`, which assume `Ident = {}`, as `identity_other.go` has
  it): `OneAppearancePerFile` is inductive, because by `MatchedByLocator` a
  file that was known at its locator with its content stays the same
  appearance (`SameFileSameAppearance`); no rename of an unmoved file follows
  at once. For a provider that comes back, `AllStillThere` says that failed
  scans leave the appearances of the last committed one where they were.
* **Replay** (`ReplayCorrect`, with any identities): where the catalogue
  mirrors the last scan, `MatchedAgain` gives each file its own row, so no
  event is due and every content is known (`ContentsKnown`).
* **Enrolment**: `EnrollmentTypeCorrect`, `RootsCorrect`,
  `DirectoriesCorrect`, `AcceptedCorrect`. The comparison happens in the same
  transaction as the insertion, so staleness of the evidence does not matter
  to `RootsDisjoint`. `OneProviderPerDirectory` is not inductive: the
  strengthening `AllTelling` says that reliable evidence always has the
  fallback identity, in the table and in every request's hands, and that a
  version 1 row has none. `AcceptedForOne` follows from the three.
* **Service**: `ServiceTypeCorrect`, `OneScanCorrect`; `ProtocolKept`, that
  `ScanService` implements `ScanProtocol` (every step of a scan maps to a
  step of the protocol or to a stutter, using `OneScanPerProvider` to know
  that the scan that ends is the provider's only one). `ShownCorrect` needs no
  assumption on what the user does: a scan goes by the evidence in the table
  (`GoesBy`), what it has read was read at the place the first probe found
  (`ReadThere`), and while nobody puts the probed directory anywhere, it stays
  at that place, so that nothing else can be read there (`Stays`); whatever
  else is moved or re-pointed does not matter, for two directories are never
  at one place and none is at two (`OnePlace`). `MarksCorrect`, under
  `~ StoreFails` and `~ Crashes`: the mark is inductive, because every way out
  of a marked scan goes through `Reconcile` or `Fail`.

* **Transactions** (`TransactionsImplement`, `ProgressCorrect`,
  `IndexCorrect`, `TransactionsKeep`, `TransactionsMirror`,
  `TransactionsReplay`): `OpenInv` describes the open
  transaction at every point of its progress. Its parts say which loop is at
  work (`OrderInv`), which appearance each written observation got (`IdInv`:
  a new id or its match, no two the same), and what the statements so far
  have made of rows, contents and events (`RowsInv`, `ContentsInv`,
  `EventsInv`). At the commit nothing is left to do, so these equations are
  the primed variables of `Reconciliation`'s step. The index refuses no
  statement because every own row that is not yet written is parked or
  restored as unavailable, and written rows have different locators. What is
  proved of `Reconciliation` then holds of the statements, by the refinement.
* **Stable hash** (`HashTypeCorrect`, `ObservedCorrect`,
  `CalmFilesAreNotRetried`): `HashInv`. A time given during the hashing is
  given to one file only (`FreshTimes`), so if the open file's time is that of
  the first evidence, what was read is a part of its bytes (`ReadSoFar`); after
  the second evidence the candidate was seen at the path, or only the open
  file can have its time (`CandidateKnown`), and then the look at the path
  decides (`CandidateSeen`). `CalmInv` relates the evidence of an attempt in
  which nothing has changed to the files.
* **Debug Mode** (`RecorderTypeCorrect`, `SummaryCorrect`, `StoryCorrect`,
  `UnfinishedCorrect`, `RecorderRefined`): that `enabled` and `active` agree, and that no step
  finds no session, needs the shape of what an operation may have left to do (`Orderly`: a line is synced right after it
  was appended; a session is closed last, after a summary), which every
  prefix a failure skips keeps. `SummaryInv` says of the session that what is
  counted is on the disk, and of every text that may survive a loss of power
  that its count is backed by lines no failure takes away. `StoryInv` says
  what a todo has left to tell (`Telling`); of the active session, while no
  write of it has failed, that its status changes only after its last line,
  what its log tells so far and how far its ending has got (`ActiveStory`);
  and of every session that what may survive of it is whole once it calls
  itself finished, and that one no longer active has finished unless it was
  killed or a write failed (`Settled`). That `DebugSession` implements
  `Recorder` rests on what can be read of a log: `Readable` numbers the whole
  events by their place, each place is taken once (`PlacesTaken`, by a least
  counterexample), so a log that has the events of another one, and more only
  later, reads on where the other ends (`ReadOn`). A line written is then one
  event more, or none where it spoils a line that was cut short
  (`WrittenRead`, `CutRead`), and a loss of power leaves a prefix (`StartRead`).
* **Gateway** (`OneSessionCorrect`, `CookieCorrect`, `GatewayTypeCorrect`):
  `GatewayInv`. An unused token means no session of this launch
  (`NoneBefore`), so a second one needs a second token. A cookie that is still
  on its way is in no request (`OnTheWay`), so nobody was let in with it
  before it came; from the first request that is, until the cookie expires,
  its session is there and was seen since the cookie came
  (`SessionBehindCookie`): `authenticate` deletes a session only for an id it
  refuses.
* **What a request tells** (`NarrativeCorrect`, `OneIdCorrect`): `WaysWellMade`
  describes every way of `Ways` by its order alone: what a layer decides it
  decides after it was entered, and each kind opens in one of a few manners
  (`Nested`, `Opened`), which the proof checks for every kind. A layer that a
  request has noted is one it has entered (`NotedEntered`), the ids in the
  context of its layers are one (`OneContext`), and an event of an action has
  the id under which its request started (`EventsKnown`). `WholeNarrative`
  compares the points a request has passed, but those that are never told,
  and those that were lost, with its lines in the log of the session, place by
  place; a step adds one to both or, where its event is lost, to neither
  (`DueAfter`, `PlacesMatch`): only steps that were passed are lost
  (`LostPast`), and Debug Mode cannot have been off
  between the note and the point while the request is under one session.

Only model-checked: the liveness properties `EveryScanEnds`, `StopCompletes`,
`HashEnds` and `CallsReturn`, which are out of the prover's reach. Every other
property of a passing run is a theorem: each says for all values of the
constants, or for those its assumption admits, what the run shows on an
instance. The three properties without identities and the scanning mark are
stated under the assumption under which their run checks them, and without it
they are false: with identities, a file that is renamed over a copy of itself
keeps its appearance and leaves the copy's at the same locator; a hard link
may take a file's appearance, at a rename or when a provider comes back; and a
mark stays where `FailScan` fails or the process crashes.

## What is not modelled

* The page, its templates and scripts, and the launch of a browser:
  presentation.
* Redaction: a function on text patterns and keys without state, best tested.
* The queries `Search`, `Stats` and `Providers`: single read-only statements on
  the one connection; their order and limits are SQL.
* Opening, configuring and checking the database, the statements of a
  migration (one transaction) and the single-instance lock: SQLite and the
  system are trusted. What migration 2 makes of version 1 rows is in
  `Enrollment`.
* Debug Mode's environment file, `Status`, the counts of warnings and errors,
  and the fields of an event but its kind; the loss of directory entries in a
  power failure.
* The Gateway's tests of headers, bodies and methods, which refuse what the
  page never sends; the rendering of answers.

## Plan

Left: which part of `OneAppearancePerFile` and `RenamedOnlyWhenMoved` remains
true with native identities, where a hard link may take a file's appearance;
and the order of the deferred closes at the end of `run`.
