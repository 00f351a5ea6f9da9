# Variance Authority, verified

TLA+ modules, model-checking runs and machine-checked proofs about the stateful
core of Variance Authority: a visual-regression tool that renders subjects,
compares them with baselines, publishes what a run found on a *share*, and lets
people decide about changes in a *review service* (`packages/tribunal`).

Most of the repository is pure: documents, pixels and source trees in, verdicts
out. What is hard is what many processes do to one place with no transaction
around it, and that is what is modelled here:

| Part | Module | Code |
| --- | --- | --- |
| The review service's bytes and their ledger | `ObjectLedger`, `ObjectLedgerRaces` | `tribunal/src`: `objects.ts` `store.ts` `review-write.ts` `review-sweep.ts` `review-ingest.ts` |
| Deciding about a subject | `ReviewDecisions` | `tribunal/src`: `review.ts` `review-baseline.ts` `repeats.ts` `changelog.ts` `concerns.ts` |
| What a share's backend promises of a line | `LineCell` | `core/src/share/line.ts` |
| A line kept as a directory | `DirectoryLine` | `store/src/share.ts` |
| Publishing on a line, and purging what was kept | `SharePublish` | `core/src/share/publish.ts` `at-commit.ts`, `store/src/share-git.ts` |
| What the source indexes promise their writers | `IndexRegister` | `sense/native/src/log.rs` |
| The source index: a log of segments, and its writers | `SourceIndex` | `sense/native/src`: `log.rs` `append_index.rs` `ready_index.rs` `source_update.rs` `index_chain.rs` `compact.rs`; `sense/src/source-index-file.ts` |
| What `variance index` leaves running | `FollowUps` | `cli/src/commands`: `index-follow-ups.ts` `index-command.ts` |
| The renderer's pool of pages | `PagePool` | `playwright/src/page-pool.ts` |
| The browsers and contexts a process shares | `BrowserShelf` | `playwright/src`: `browsers.ts` `harness.ts` `renderer.ts` |
| A suite somebody watches | `Observatory` | `vantage/src`: `observatory.ts` `watch.ts` `attach.ts` |

`MC*.tla` instantiate a module for TLC, `*.cfg` are the runs, `*Proofs.tla` hold
theorems. Definitions whose comment begins *Mutant* are deliberate mistakes: each
shows that a property would notice the bug it names.

```
cd tla
tlc -workers 2 -config LedgerIsolated.cfg MCObjectLedger     # a run
tlapm SharePublishProofs.tla                                 # a proof
```

## Inventory

### Review service: objects and ledger (`ObjectLedger`)

State: the bucket (R2: get, put, delete, no listing), the table `objects` (one
row per key ever written, with `at_ms`, since when nothing has wanted the key),
and the rows that point at keys: `baselines`, `render_cache`, `build_subjects`.
A key is the SHA-256 of the bytes, so everybody who stores one picture stores
one object.

Operations: a baseline or cache put (`keep`, then the row), an ingest (ask the
ledger, put what is missing six at a time, claim everything in one batch, write
the rows in another), an approval's promotion (read the candidate, `keep` it, the
baseline's row, the decision), a rejection, and the retention sweep (expired
builds, expired cache rows, idle keys no row names: objects first, then ledger
rows).

Hard: the bucket and the database share no transaction, a Worker may die before
any await, and a sweep runs beside everything else. Correct means: a stored row
never points at lost bytes, every key a row names is in the ledger, a sweep
removes nothing that is still shown, a build that waits for somebody is kept,
and nothing that is forgotten stays for ever.

### Review service: decisions (`ReviewDecisions`)

State: a build's rows for a subject, the subject's baseline, and three
append-only tables: `changelog`, `decisions`, `concerns`. Operations: the page,
`decide` (a dozen awaits: `refuseMoved`, `clashSince`, `rejectionAccepted`,
`promote`, `recordApproval`, the decision, `raise`), a run's push, a run's own
baseline put, the sweep of a build.

Hard: everything read before an await is stale after it; two reviewers decide at
once; a build is pushed again or expires between page and click; a decision dies
half way. Correct means: an approval replaces only what its reviewer could have
seen, every promotion is explained and signed, a rejected picture accepted later
leaves exactly one concern on record.

### Share: lines, publishing, purging (`LineCell`, `DirectoryLine`, `SharePublish`)

State: per line a manifest of entries (family, format, qualifier, commit, digest,
images) and its blobs; per mainline also one line for each commit it was
published at. Operations: `load`, conditional `store`, `publishLine` (read,
decide slot by slot, write, again on a conflict), `keepAtCommits`, `purgeKept`.
Backends: a directory, a git ref, an HTTP store, the review service, memory.

Hard: any number of jobs publish at once; answers are lost; an old commit's run
finishes last; an old release publishes on a newer one's line; a directory has no
conditional write, so a lock is kept fresh by its holder and taken over from the
dead; a purge drops lines by name. Correct means: no publish undoes another's
slot, nothing goes back in format or in history, what a publish was told stands,
and a manifest never names a blob that is not there.

### Source index (`SourceIndex`, `IndexRegister`)

State: per checkout a manifest naming segments (a base and at most one working
layer over it), the segments beside it, and the writer lock. Operations: read a
chain, a native update, a save after a scan, a cold build, a readying (the fold
of the working layer into the base), a worktree's seeding from the primary
checkout, and the publish under the lock: segments, manifest, removals.

Hard: everything is decided outside the lock on what was read, readers hold no
lock at all, segments are removed while others read, and a process dies between
any two files. Correct means: what lands is what its writer meant the index to
say, a named segment is never removed, and disk does not fill.

### Follow-ups (`FollowUps`)

State: a lock file naming a process, with two marks; the index and what was made
from it. Operations: `index` reserves the lock (the file is made, then written),
updates the index, detaches a child and hands it the lock; the child folds, marks,
makes four artifacts, any of which may fail, and releases; every other command
settles the lock first, and takes over from the dead.

Hard: every look at the lock is apart from what is done about it, a disk may be
full, and anyone may be killed. Correct means: one process makes the follow-ups at a time, a reader
never reads an index about to be folded or an answer older than the index, and
nobody waits for ever.

### Pages, browsers, observatory (`PagePool`, `BrowserShelf`, `Observatory`)

The pool counts slots globally and keeps idle pages by viewport; acquires wait in
line and look again when woken. The shelf keeps one browser per launch recipe and
one context per browser and options, counted by holders. The observatory keeps,
for each test, where it stopped and whether a reader released it; reports and
requests travel apart.

Hard: everything between two awaits interleaves: opens that overlap, opens that
fail, a lease during a close, a browser that dies; a request before its report,
a release before an expiry. Correct means: slots and holders are never lost nor
counted twice, nothing leased is closed and nothing unleased stays open, and a
release is spent once, by the stop it was given for.

### In the plan, not modelled yet

- **Git and HTTP lines** (`share-git.ts`, `http-line.ts`, `worker-share.ts`): the
  local cache's refs and markers, `blob` after another fetch, stores without an
  ETag. `SharePublish` has the git push, its lost answer and its prune already.
- **Baseline store** (`store/src/durable.ts`, `pair.ts`): an image and its sidecar
  are two writes.
- **Concern threads** (`concerns.ts` `move`) after a concern is raised.

### Not modelled, and why

Rendering, capture, comparison, attribution and verdicts (`core`, `dom`, `react`,
`raster`, `observe`, `png`, `presentation`, `distill`, `eyes`), test selection
(`sense`, but for the log its index is), reports, editors, collectors and agents' servers: pure functions or
sequential glue, whose mistakes are in data a bounded model abstracts away.
`session`, `isolator` and `ioc` rest on the semantics of JavaScript modules,
which a model would assume rather than check. Routing, sign-in and migrations of
the review service are stateless per request or run once. The list with a reason
for each is `PROJECT.json`, "components".

## Plan

1. *(done)* `ObjectLedger` and `ObjectLedgerRaces`, their three runs and their proofs.
2. *(done)* `ReviewDecisions`, its two runs and the proofs of its records.
3. *(done)* `LineCell`, `DirectoryLine` and the refinement between them, checked
   and proved.
4. *(done)* `SharePublish`, its two runs and its proofs.
5. *(done)* `PagePool`, `BrowserShelf`, `Observatory` and `SourceIndex` over
   `IndexRegister`, side by side in `Workstation`; the proofs of each, the
   refinement of the register among them, and of the composition.
6. *(done)* `FollowUps`, its two runs and the proofs of its lock and its answers.
7. `SharePublish` over `LineCell`: its line written in the cell's steps, so the
   two halves of a share are one argument.
8. *(done)* The bound of the pool's pages, `PagesAreBounded`, proved for every
   limit.
9. The git cache, then the baseline store's pairs.

## Modules, one by one

### ObjectLedger

One action per await of a request; `req[r].pc` is the await it stands before and
the other fields are the locals it carries. `Crash` ends a request anywhere.
`Overlap` says whether a sweep may run beside other requests. The service lets it;
that rows keep their bytes and their claims holds only where it does not.

`ObjectLedgerRaces` is the same machine with two history variables. A sweep reads
what it will remove in one statement and removes it in a later one: `late` are the
pictures, of those a sweep has chosen (`Doomed`), that a row came to name since,
and `reopened` the builds, of those a sweep has counted and not yet removed
(`Dropping`), that came to wait since. What a sweep may never do to anything else
is stated with them, with everything overlapping (`Overlap = TRUE`); what becomes of
those two is under *Findings*.

| Actions | Code |
| --- | --- |
| `RowPut` `Claim` `Put` `WriteRow` | `store.ts` `put`, `objects.ts` `keep` |
| `Approve` `GetCandidate` ... `Record`, `Reject` | `review.ts` `decide`, `review-write.ts` `promote` |
| `Push` `AskHeld` `PutImage` `ClaimImages` `IngestRows` | `review-ingest.ts`, `review-write.ts` `store` |
| `SweepStart` `CheckBuild` `DropBuild` `DropCache` `Select` `DeleteObjects` `ForgetKeys` | `review-sweep.ts`, `objects.ts` `unreferenced`, `discard` |

Abstracted: one project (every key and row is scoped by it), images of a build
as one set, whether a build still waits for a decision as one bit that a push or
a decision sets either way it can. Sizes, groups of a hundred parameters and of a
thousand keys are left out, except the limit of one sweep (`Limit`).

### ReviewDecisions

One subject under one renderer identity: decisions about two subjects share no
row. A candidate stands for its document digest and its picture. `filed` keeps
the order of the builds' rowids, which `repeatsStatement` falls back on when two
builds carry one time. `moves` is history only: every write of the baseline and
the time the row it wrote carries. `clashSince` compares those times with the one
the build ran at, and so does `NoUnseenOverwrite`: an approval stamped before the
build ran whose entry lands after the page was read is counted by neither.

What a run reports carries one bit of its verdict, `asks`: neither *unchanged* nor
*ignored*, so that `repeatsStatement` asks which earlier builds kept its picture
(`repeats.ts:71`). `MCReviewQuiet` pushes unchanged pictures too, once a baseline
was written.

The switches `Concurrent`, `Repush`, `Sweeps`, `Crashes` say which of the hard
behaviours a run has: the code does not keep them all apart, and each property is
checked in the widest setting it is promised for.

### LineCell and DirectoryLine

`LineCell` is the abstract promise: a manifest and callers that load it and later
ask for a write against what they loaded, which takes place in one step or not at
all. `DirectoryLine` is the directory: `mkdir` of the lock, the age of a lock
somebody holds, the claim on breaking a dead one, the timer's stamps, the blobs,
the look at whose lock it is, the rename, the release. Its `Cell` maps a writer
between its load and its rename to a call in flight; `release` and the removal of
the lock come after the answer.

**Timing.** The code's argument for its lock is about time, and the model has a
clock that any step may wait on. `Prompt` names the calls that are assumed to
come soon after what they rest on was checked:

| Call | Assumed | Without it |
| --- | --- | --- |
| `rename` of the manifest | within a refresh of the look at the lock | a writer frozen there renames over the next one's manifest (`share.ts:141` says so) |
| `rmdir` in `release` | the same | it removes the next holder's lock |
| `stamp` | lands within a refresh | it sets the time of another's lock and makes a dead one look alive, or a live one look dead |
| `break` of a dead lock | before the claim on it looks dead | two breakers act on one lock |
| `expire` of a dead claim | at once | a finding: see `DirectoryClaims` |

With any one left out TLC finds a violation; `DirectoryClaims` keeps the one the
code's own comments rule out. Times are those of one clock: how far a file
server's clock may be from a writer's is not modelled, nor is a volume that folds
case (`foldOf`).

### SharePublish

Jobs publish offers of several entries at one commit. `Load` reads a line and
decides; `Replace` is a write that took place while the line was what was loaded,
after which the job is told, or told of a conflict or nothing (a push whose
answer was lost); `Refuse` is one that did not. `Write` builds on the line's own
blobs and, where the store prunes, keeps what the new manifest names. `deaf` is a
history that could not be asked (`gitDescends` answering `undefined`), asked once
per publish. `Upgrade` is a newer release that writes the line in a format of its
own. On a mainline the job goes on to the line at its commit. `List` and `Drop`
are `purgeKept`: what was written before a time, then one ref at a time.

`aged` and `promised` are history: what a listed line has not been rewritten
since, and what a publish was told of the mainline. A publish that could not ask
the history says so (`unanswered`), and what it replaced is no longer promised.

### SourceIndex and IndexRegister

A segment is named by the digest of its bytes, so in the model it *is* its rows: a
function from the files it is about to a version, or to `Absent` for a deletion.
A process at a task has read a manifest (`seen`) and then every segment it names
in any order; what a bad or missing one leaves is the prefix (`Prefix`), as in
`read_chain`. The five `Decide...` actions are the five writers' arithmetic;
`Enter` ... `Leave` are `written`, one action per file (what a
publish stopped naming goes in any order, the code's among them). `Lose` is a cache restored
without a segment, `Die` a process that ends anywhere; the kernel frees its lock.

`IndexRegister` is the abstract promise: an index says one content, replaced in
one step or not at all; a *swap* lands only while the index says what its writer
read, a *put* (a save's whole scan) lands as it is. `Register` maps a chain to
what its layers say and a process between its decision and its manifest to a
writer that has asked. That a readying changes nothing an index says, that a
merge keeps the deletions its base needs, and that nobody's layers land over rows
they were not made against, is this one refinement.

### FollowUps

One action per call of the file system, look at a process, or long piece of work.
`proc[p].then` is what a release goes on to. Indexes and follow-ups are version
numbers: `made` is the version the four artifacts were made from, and `unmade` the
versions one of them could not be made from: `index-command.ts` swallows a failed
code map, lexicon, journeys or questions, writes a line in the log and releases
the lock as if it had made them (`Makes`). `Current`, what an answer is held to,
is therefore that the follow-ups are of the index there is, or that one of them is
on record as not made; the readers of the map are told the difference by a flag of
their own (`native-orient.ts`, `current`).

The lock file is made empty and then written (`writeFileSync` with `wx`):
`Reserve`, which makes it, and `WriteLock`, with `blank` for the process whose
empty file is there. `ReserveFails` is either call refused (a full disk): the
command goes on inline, as with `--wait`, and an empty file stays. `Kill` may come
between the two. `heldBy` reads an empty file as no lock at all, so a reader is
let past it and an `index` cannot make its own; `Abandoned` is such a file that
nobody will write. `faults` counts kills and refusals. `Prompt` joins a
look at the lock with the removal that rests on it: the code reads
(`heldBy`) and then removes by name, and with the two apart `OneAtWork` fails (a
slow release removes the next holder's lock). A command at "settle" has not
looked yet and may as well not have begun; an inline run (`--wait`) holds no lock.

### PagePool, BrowserShelf, Observatory

Code between two awaits is one step, as JavaScript runs it. In `PagePool` the
idle pages of a viewport are a list *object* the map refers to, because
`acquire` reads the list before its await and writes it to the map after. In
`BrowserShelf` browsers and contexts are one class of the code and here one
shelf; a key is a launch recipe or the browser a context belongs to. A harness
leases a browser, then a context (`warm`, the shared kind), opens a page and
closes in reverse, from a failure too; a renderer leases a browser. In
`Observatory` a stop is the number of the `waits` call that made it, so a release
can be compared with the stop that spends it; `meant` is that history.

An open that fails in `PagePool` gives its slot back; what it leaves depends on
how far it came. `#open` keeps the context for `close()` before it opens the page
(`page-pool.ts:90`), so a page, a session, a socket policy or a navigation that
fails leaves the context open (`LeftOpen`). `halfOpen` counts those contexts and
`failures` every failed open, by viewport.

## Runs

| Run | Expect | What it asks |
| --- | --- | --- |
| `LedgerIsolated` | pass | rows and ledger agree whatever dies, sweeps alone |
| `LedgerRaces` | pass | a sweep among puts and ingests spares what is shown and what waits, but for what came to be wanted after it chose; liveness: what nobody wants is collected or wanted again |
| `LedgerRaceSweep` | violation | a sweep deletes what a put of the same moment stored meanwhile |
| `ReviewRough` | pass | approvals explained, concerns backed, promotions signed but for the dead and the expired: under overlapping decisions, re-pushes, expiry, death half way |
| `ReviewQuiet` | pass | decisions one at a time: one concern per acceptance, the latest decision leads, no unseen overwrite |
| `DirectoryCell` | pass | the lock holds, blobs come first, the directory implements the cell |
| `DirectoryClaims` | violation | two writers break a live lock through an expired claim |
| `SharePublished` | pass | five properties of publishing under conflicts, lost answers, purges |
| `SharePurged` | violation | a purge drops a record written since it was listed |
| `Workstation` | pass | the source index, the page pool, the shelf of browsers, the observatory |
| `FollowUps` | pass | one at work, folded before read, current answers; liveness: every command ends, but an `index` upon an abandoned lock file |
| `FollowUpsLeft` | violation | an ask between a live command's removal of a dead one's lock and its own reservation reads old answers |

**Side by side.** `Workstation`, `MCReviewQuiet` and `MCObjectLedgerRaces` check parts that share no
state in one run: a behaviour begins with a choice of one part (`side`,
`service`), only that part moves, and each property speaks of its own part.
Every step of `MCReviewQuiet` is a step of `ReviewDecisions` that stays within
what its service is about: one repeats a picture, one has a chain of approvals;
its properties are the module's own. `MCObjectLedgerRaces` does the same with
`ObjectLedgerRaces`: in one service pictures are put and documents cached, in the
other builds come and go that show no picture, so that neither hides in the
other's states and the liveness property stays within reach. In `Workstation` the pool's definitions are
the module's own and the other parts are instances; its specification is
`SideBySide`, its constants are symbols, as its theorems need, and
`MCWorkstation` gives them values. The states explored are the sum of the parts',
not their product. That a property of a part holds of the composition is proved,
part by part (`PartsRun`: what the others do is a stutter).

**Bounds.** *Ledger*: two requests are what a race needs (a sweep and a put, two
puts of one picture), two pictures tell apart what is wanted and what is not, one
row of each kind is the smallest set of rows that can disagree; two ticks
separate "touched", "idle" and "cut off"; `LedgerRaces` has a window of nothing, so that one tick makes everything idle; its
two requests are a sweep and the put or the ingest it races, and races of more, of
baselines and of what builds show, are left to `SweepsSpareReferenced` and
`WaitingBuildsStay`.
*Review*: three builds are a page and
two approvals after it, which is where comparing only the standing baseline
fails; two pictures at two places tell a clash from none; two reviewers make
every pair of decisions overlap in `ReviewRough`, over two documents, one of them
written by a run; three decisions of the first service of `ReviewQuiet` reject a
picture, accept it and accept it again. The chain's subject has a baseline to be
replaced, the repeats' has none, as it plays no part in them. *Directory*:
three writers are a dead holder and two that judge it, which is what a takeover
needs; `Stale` is three refreshes (four in the code) and the clock runs past two
takeovers. *Share*: two jobs race; two slots are two suites; two commits and two
formats are what decide compares; two attempts are a retry after a conflict or a
lost answer. One listed record is enough for a purge to race. *Source index*: two
writers are what a moved chain needs; two files, one of them replaced and one
deleted between two scans, make every merge meet a row to keep, to drop and to
delete; a second path is a worktree to seed. *Pool*: a limit of two, three callers
(one must wait) and two viewports; *shelf*: two harnesses and a renderer over one
recipe make a lease during a close, a death and a replacement; *observatory*: two
tests and room for one, so that a test is forgotten, and three stops, so that a
release can reach a stop it was not given for and another follows. *Follow-ups*:
three commands (each an `index`, a question or a reader of the index alone) and a
child, two changes of the files and two faults: a takeover needs a dead holder and
two that find it, and the second fault is the death of one of those. An `index`
that finds no second child does the work itself; `FollowUpsLeft` has two, and
one fault, as its trace needs no death but the first holder's. An `index --wait` is modelled and left out of the
run's roles: it holds no lock and hands none on.

`CHECK_DEADLOCK FALSE` everywhere: bounded clocks and counters do end.

**Symmetry** is used over requests, reviewers, builds, writers, callers, tests and
jobs, none of which is ordered or named by a constant; in `MCReviewQuiet` it also swaps
the chain's two pictures together with their two places. The runs of liveness use none.

**Fairness** (`ObjectLedger`, `LedgerRaces`). Steps of a request are weakly
fair: the host runs it on unless it dies, and it may die at any step. The nightly
cron (`worker-entry.ts` `scheduled`) starts sweeps for ever, and starting one and
each of its later steps is strongly fair: no sweep is assumed to survive, but a
step that sweeps reach night after night is not the place every one of them dies.
In `FollowUps`, what a process does next is weakly fair: the operating system runs
it unless it is killed, and a command that waits looks again every 20 ms
(`index-follow-ups.ts:133`). Killing and a lock that cannot be written are never fair, and bounded.

## Findings

Each `violation` run states what a comment says of the code, and the code does
otherwise:

- `LedgerRaceSweep`: `idleSince` does not keep a sweep from racing a put begun the
  same moment: a leftover's claim is idle, the sweep selects its key, the put claims
  and stores the same bytes, the sweep deletes them, and the put writes its row.
- `DirectoryClaims`: a claim on a dead lock is removed by name after its age was
  read, so a live one can go, and with it a live lock.
- `SharePurged`: a purge removes by name, and so also what was written since.
- `FollowUpsLeft`: a live `index` removes a dead one's lock when it settles and
  reserves its own only later; an ask that settles in the gap finds no lock, makes
  nothing and reads follow-ups older than the index.

Seen while modelling and not kept as runs, as no line promises otherwise:
`NoUnseenOverwrite` fails between concurrent decisions (the check and the write
share no transaction); an ingest of an old report sets the idle time of a key back;
`PublishedStands` fails on a history with branches, where a chain of unrelated
commits leads back to an ancestor.

Disagreements met the same way and described here rather than run: a command
killed, or out of disk, between the making of its lock file and the writing of it
(`index-follow-ups.ts:75`) leaves an empty one, on which every later `index` is told
the file exists, finds nobody in it to wait for and tries again without a pause
(`:72-84`), where `:22-23` says that a lock whose process is gone is not waited on:
`Spins` is that command, the exception of `EveryCommandEnds`; a build counted as one
nobody waits for and then pushed again, so that somebody does, is removed by the
batch that follows the count (`review-sweep.ts:110`, `:137`), where `:91` says that a
build nobody has finished reviewing outlives its window: `reopened` is that build,
the exception of `WaitingBuildIsKept`; an ingest that
dies between its puts and its claims leaves objects no ledger row names, the order
`objects.ts:39-46` warns of (`review-write.ts:126`); two approvals of one subject
at once both find no concern and raise it twice, where `repeats.ts:125-127` has
one approval after another in mind; a save whose prefix is still the head of the
chain replaces the layer a concurrent update put past it
(`append_index.rs:21-24`), although `log.rs:9-11` speaks of the writer being
refused; the list of idle pages an overlapping acquire replaces is lost
(`page-pool.ts:58-60`), so a viewport may cost more pages than "reused forever"
(`:47`) says, which is why `PagesAreBounded` bounds them by what losing lists can
come to (3 pages of two slots, 7 of three) and no less, and by one context more for
each open that failed (`page-pool.ts:90`), which nothing closes before the pool is
closed; a release given to a test whose stop has expired answers true and is spent
by its next stop (`observatory.ts:209-214`, `watch.ts:153`); a test forgotten
while it stands cannot be released; a lock marked failed may be let go, its reason
untold, by an `index` that was waiting for it (`index-follow-ups.ts:81-83`).

## Proofs

**`ObjectLedgerProofs`**, for every set of pictures, rows, builds, requests,
windows and bounds. `TypeCorrect` needs no assumption. `RowsKeepTheirObjects` and
`ReferencedKeysStayClaimed` assume `~Overlap`, without which they are false
(`LedgerRaceSweep`). `StoredRowsHaveObjects` is not inductive: a row may be written
because its put has landed, and nothing collected it between the put and the row.
The invariant `IInv` adds `Located` (a place implies the locals it reads), `Alone`
(beside a request in a sweep everyone is idle), `Landed` (a request about to write
a row has its object in the bucket and its key in the ledger) and `Chosen` (what a
sweep is deleting is unreferenced).

`SweepsSpareReferenced` and `WaitingBuildsStay` are about the machine with its
races (`RaceSpec`) and assume nothing of what overlaps. `Overtaken` says that of
what the sweeps under way have chosen, what is referenced is `late` and what waits
is `reopened`. It rests on `ChosenUnwanted`, that what a step adds to what is
chosen is unreferenced and does not wait at that moment, and `TakesChosen`, that
no step removes an object or a build that no sweep had chosen.

**`SharePublishProofs`**, for every set of jobs, slots, formats, commits, offers
and bounds, and whether or not the store prunes. `Shapes` (what does not read as
a manifest holds no entry, no kept line is in a newer format, no write is decided
on one, promises are about a mainline that is read) strengthens every invariant.
`BlobsStayNamed` needs that a write takes place on the very manifest it was
computed from, so what it did not send is there. `PublishesStand` needs the
history to be linear: each write either keeps an entry that descends from the
offered one or replaces it by one that does not come before it, and on a line of
commits that is an order. `PublishesSpareOthers` and `NothingIsTakenBack` are
properties of steps.

**`SourceIndexProofs`**, for any writers, checkouts, files, versions and bounds.
The lemmas come first: what `Row`, `Says`, `Folded`, `Merged`, `Compacted` and
`Split` do to what a list of layers says (`SaysMerged`: putting layers together
over a base keeps every row and every deletion the base needs; `SaysSplit`,
`SaysDelta`, `SaysUpdated`). The newest layer that has a file is the greatest of
some numbers below a length, which the library's least-number principle gives
without an induction of its own. The invariant is the types (`Types`, by place:
`ReadsWell` says what a reader has of the chain it saw, `DecidesWell` that what is
about to be published says what the register is asked for), `Locked` (who writes
or removes holds the lock, and what it takes the chain to be it still is),
`NamedSegmentsAreStored`, `Landed` (what the new manifest will name is written or
still to be; what is being removed is not named) and `Tidy` (what is stored is
named, or somebody at work minds it). Neither property of the segments is
inductive without the lock: only its holder removes, what the manifest it has
itself put there no longer names. `IndexTypes`, `NamedStayStored` and
`NothingLeftBehind` are corollaries, and `IndexesRegister` shows each step to be a
register's `Ask`, `Land`, `Refuse` or `Idle`, or a stutter.

**`BrowserShelfProofs`**, for every set of harnesses, renderers and recipes and
whichever browsers die. The invariant says that a value's count is the number of
its leases (`Counted`), that a context is leased only with its browser
(`Pointed`), that what is alive is on the shelf and leased (`Shown`), that what is
being closed is neither (`LetGo`), and that a closed context somebody can still
come by went with its browser (`Bereft`). `LeasedStandsOpen`, `NothingOutlives`
and `OneAlive` are its corollaries.

**`WorkstationProofs`** holds the proofs of the pool and of the observatory, and
of the four parts together.

*The pool*, for every set of callers and viewports, limit and bound. The
invariant is the types, `SlotsAreRenders`, `NoLostWakeup`, `InLine` (who stands
in the line is who waits, and once) and `LeftByFailures` (a context half open is of
an open that failed): counting renders is counting their set, so
each step moves one caller in or out of it; `SomebodyMoves`, that the callers
never all wait, follows from the counts. `PagesApart` adds that every page
lies in one place at most and that the list a viewport's map entry names exists.

`PagesBounded` is about what a viewport can cost. An acquire that finds its
viewport without an idle page opens one for a list of its own or for the map's;
the last to be open puts its list in the map, and the pages of the list it
replaces are lost unless an acquire still opens a page for that list. The
invariant `PagesFit` counts slots rather than pages. Each list the pages can
still come back from (`Mine`), but the map's, is that of an acquire that holds a
slot, so a list with `s` slots to spare (`Spare`) holds at most `1 + ... + s` pages
(`PilesFit`; those painted count for the map's list, where a release puts them).
A list that is lost leaves a slot more to the others, so the pages lost are at
most the sum of those sums (`LostFit`). A page is opened only when the map's list
is empty, so the pages there are and will be are at most the limit and the sums
of what was lost (`TotalFits`): `6 * pages <= Limit^3 + 5 * Limit`, to which the
contexts half open add at most one for each failure. The parts hang
together through `Apart`, that no list is of two viewports. The lemmas `AllSums`,
`SumsGrow` and `SumsLost` are the arithmetic; TLC held `PagesFit` as an invariant at
`Limit = 3` with one viewport and `Limit = 2` with two before it was proved. The
bound is exact where TLC was asked: at `Limit = 2`, the run's, a viewport comes to
3 pages; the same module at `Limit = 3` with three callers and one viewport comes
to 7 at its eighth render, and to no more in sixteen.

*The observatory*, for every suite and every bound of tests held. A test's
reports arrive in order, so the last one on its way is where it stands
(`LastWord`): that is what makes a late or early report harmless, and gives
`StoppedListed`, `EndedClean` and `ListedIsTrue`. `ThisStop` says that, unless a
stop of the test expired, a stop held or on its way is the one the test stands at,
and that a release standing was given for it; `ReleaseSpent`, a property of steps,
follows at once.

*Together*. `IndexProofs` and `ShelfProofs` instantiate the two modules above, and
`SameIndex`, `SameShelf` and the like show that what they are about is what
`Workstation` runs. A behaviour of `SideBySide` is a behaviour of every part's
specification, so each part's theorem is one of the whole: `TypesStay`,
`NamedStayStored`, `NothingLeftBehind`, `IndexesRegister`, `LeasedStandsOpen`,
`NothingOutlives`, `OneAlive`, `ListedStands`, `SpentThere`, `PoolStands`. They
assume `PartParameters`, what the parts assume of their constants.

**`FollowUpsProofs`**, for any number of commands and children and whoever is
killed. `OneAtWork` says of a process at work that the lock names it, or that the
command that started it holds the lock and waits to hand it over; neither half
is inductive. `IInv` adds who is handed what (`Handing`, `Orphaned`), what the two
marks say of the child that made them (`Marks`, `Marking`), what a process
that compares or removes the lock knows of it (`Comparing`, `Removing`), and that
a lock file with nothing in it says nothing and belongs to who is about to write
it, or to nobody (`Making`). `Prompt`
is assumed, and is needed by one step of the proof only: the reservation of the
lock, which another's slow removal would undo. `ReadersSeeItFolded` is a property
of steps: a lock marked readied names a child that has folded. `AnswersStayCurrent`
needs what holds while nobody was killed and every lock could be written (`Calm`:
everyone is in the role it began in, `AsStarted`, and `Peace`): a lock that is not marked
failed names one at work or about to let it go (`Posted`), so no command takes
over; a child waits with its marking and making until it is named (`Lent`); and
the follow-ups are `Current`, made of the index there is or on record as not
made, but for what whoever is at work has still to attempt (`Fresh`), since two at work are a parent and the child it waits
for (`TwoAtWork`). It needs `Prompt` in a second step, the making, and assumes that
no command is an `index --wait`, which moves the index under no lock.

**`DirectoryLineProofs`**, for any writers, blobs, times and line.
`BlobsOfALineStored` needs neither the lock nor any timing: blobs go before the
manifest that names them and none is removed. `VouchedLocksStand` and
`DirectoryIsACell` assume every call of the table above prompt. `LockInv` says
that a writer that counts on its lock stamped it, or looked at it, less than
`Stale` ago (`Stands`, `InFlight`), while a writer about to break a lock judged it
older than that and holds the one young claim on it (`Judged`, `Claimed`,
`OneClaim`, `OneBreaker`): the two cannot be about one lock. A lock still counted
on when the manifest is renamed means the manifest is what was read under it
(`Read`), so the rename is the cell's write and every other step is a load, an
answer or a stutter.

**`ReviewDecisionsProofs`**, in the roughest setting, for any reviewers and
reports: decisions and runs overlap, builds come again and expire, and a decision
dies anywhere. `Knows` says what a decision holds where it stands, and
`DecideShape` that each of its steps stops it or takes it one await on. From
these: `ReviewTypes`; `ConcernsAreFollowed`, since what a decision is about to
raise was rejected before and is approved by its own, earlier, row (`Backed`), and
the table only grows; and `ApprovalsExplained`, by counting: the decisions of a
build between the baseline's row and the changelog (`Writing`) and between the
changelog and the decision (`Signing`) make up the difference of the three tables.
The same counts, `Unsigned` among them, give `EveryPromotionSigned`, a property of
steps with no assumption: a baseline is written when its decision comes to
`Writing`, an approval when it leaves `Signing`, and every other step that changes
the difference is a decision of that build that dies or finds its build gone
(`StepSigned`).  Where deaths are allowed a decision that gave up alive would look
like one that died, so that the run says most about what one decision does to
another's signature; with `Crashes = FALSE`, which the theorem covers as well, that
excuse is gone and an expired build is the only one left.

The other three hold of decisions one at a time (`~Concurrent`; the last two also
of builds pushed once that do not expire, and of decisions that do not die), and
each is false without: `Solo` says that at most one decision is past its page.
`ConcernsRaisedOnce` follows because a decision that is about to raise asked when
nothing was raised for what it accepts (`Fresh`). `AcceptedDefectsStay` needs
`Settled`: the row a decision carries is the build's and the standing pictures of
builds do not change, so the repeat it finds is the repeat there is; `Minds` says
what it knows of rejections still to be put on record, and `Kept` is the property
with the decision in hand excepted. `NoApprovalOverwritesUnseen` is about what
`clashSince` can see: every approval's write of the baseline has its entry in the
changelog, or belongs to the decision in hand (`Sourced`), every entry names a
picture the baseline was given (`Entered`, `InHand`), so a decision past its
check, beside a baseline neither the page nor its own build shows, has `Seen` that
an approval wrote it and that none since its build ran clashes (`Checked`).

Constants are assumed to be what the modules' `ASSUME`s (in `ObjectLedger`,
`SharePublish`, `DirectoryLine`, `ReviewDecisions`, `FollowUps` and
`MCWorkstation`) or their `Parameters` say; TLC evaluates each of them on every
run that uses the module.

**Model-checked only**: liveness (`UnwantedIsCollected`, `EveryCommandEnds`), which
is out of the prover's reach. Every safety property a passing run checks is stated
by a theorem. Of the runs that expect a violation, `DirectoryClaims` checks a
proved property where its theorem's hypotheses fail (calls that are not prompt);
the properties of the others (`FreshPutsKeepTheirObject`, `PurgeSparesRewritten`,
`LeftoversAreMade`) are false of the code and have none.
