# faint_light in TLA+

Models, model checks and proofs for faint_light, a plate-solving server with two
HTTP APIs (its own and one compatible with astrometry.net's nova) and a desktop
window around it. Paths below are relative to the repository root; `fl-server/`
and the like stand for `src/crates/fl-server/src/` and the like.

Run a check with `tlc -config <name>.cfg <module>`, the proofs with
`tlapm <module>.tla` on `DataInduction` and on each module whose name ends in
`Proofs`. `PROJECT.json`
lists the components, the runs, the source lines behind every definition, the
hazards and the properties that guard against them, and for every property a
mutated definition that breaks it.

## 1. Inventory

| Component | State | Operations | Talks to |
|---|---|---|---|
| Solve service (`fl-server/store.rs`, `worker.rs`, `solve.rs`, `v1.rs`, `nova.rs`) | id counter, submissions and jobs (two maps, two locks), a channel of 8 tasks, one worker thread | `create`, `enqueue`, `await_job`, nova polls, the worker's `recv` / solve / `finish` | called by axum handlers on tokio threads; the worker calls the engine |
| Artifact cache (`store.rs`, `v1.rs`, `solve.rs`) | a queue of output files under a byte budget | `put_artifact`, `artifact`; the fits, skyview and preview stages of a v1 solve; three GETs | filled by v1 handlers after the job, read by later requests |
| GUI server control (`gui/mod.rs`, `gui/runner.rs`, `lib.rs`) | `starting`, the buttons, the Runner's mutex with backend and listener, sockets, engines in memory | Start, Stop, shutdown, the start thread, `serve`, graceful shutdown | UI thread, start threads, tokio tasks, workers; a channel of `Msg` |
| GUI log (`gui/logs.rs`, `LogView` in `gui/mod.rs`) | line buffer, version, log file, the tab's text | `push`, `persist_to`, `clear`, `trim_file`, `pump`, the Clear button | every thread that logs; the UI thread reads |
| Solve engine (`fl-solve/engine.rs`) | warm list of recent solves; one solve's bands and deadline | `solve_field`, `try_warm`, `store_warm`, the ladder of scale bands | called by the worker alone; reads the indexes |
| Quad search (`fl-solve/engine.rs`, `codes.rs`) | the stars added so far, a member list per backbone | `quad_search`, `try_pquad`, `for_each_code`, `permute` | kd-trees of codes; hits go to verification |
| WCS fit and verification (`fl-solve/engine.rs`, `verify.rs`, `tanwcs.rs`) | one guess: matched pairs, log-odds | `resolve_hit`, `verify_wcs`, `refit_and_accept`, `fit_tan_wcs` | star trees of the indexes |
| Index files (`fl-index`) | memory maps, trees, prewarm budget | `open_dir`, `range_search`, `prewarm` | engine; the index builder wrote them |
| Star extraction (`fl-extract`) | labels and their union-find forest, within one call | `extract_stars` | engine |
| FITS (`fl-fits`), decoding (`fl-extract/decode.rs`) | the file that goes from client to server and back | `Fits::parse`, `set_cards`, `header_only`, `image_f32` | v1 output, index files, decoder |
| Sky chart and dates (`fl-sky`) | none | pure functions | v1 |
| Web page (`fl-server/web/app.js`) | chosen file, result, timers | solve, show, download | the v1 API |
| Settings, tray, autostart, theme (`gui/`) | a JSON file, platform handles | load, save, tick | GUI |
| Headless `main.rs`, tools, scripts | none of their own | set-up | all of the above |

What is hard, and what must hold of each part:

* **Solve service.** Handlers of many clients interleave between the counter,
  the two maps and the channel; the channel may be full; the worker may panic
  with tasks buffered; a wait may time out while its job is solved; a client may
  leave. Ids must be unique across submissions and jobs, no job may be forgotten
  as "solving", a client must be told the truth, and an outcome must never
  change although `finish` overwrites whatever it finds.
* **Artifact cache.** One solve stores several files, other solves evict them,
  clients come later. The budget must hold, and a file may be refused only if
  newer files needed its room.
* **GUI server control.** A start runs for tens of seconds on another thread
  with the Runner's mutex held; stops return before the socket is closed;
  engines live as long as anybody holds a sender to their worker. The buttons
  must tell the truth, the window must not freeze, no listener may be lost, and
  every start, every replaced engine and the close must come to an end.
* **GUI log.** Lines arrive between any two calls of the UI thread, the file is
  trimmed by rewriting it, writes fail, the process dies. The tab must show what
  the buffer holds, once and in order; the file must stay bounded and agree with
  the buffer.
* **Engine.** A long sequence of images of changing cameras and pointings; stale
  guesses with a time slice each; hints that contradict memory. "No solution"
  must mean that everything was searched.
* **Quad search.** Quads are enumerated while stars are added, and interrupted
  by a deadline anywhere. Each must be tried once and those of bright stars
  first; whatever labelling of a quad the index stores must be among those
  tried, although positions are in error and labellings are pruned.
* **Verification.** Matches are taken greedily, a fit is verified, fitted and
  verified again. A wrong WCS must not profit from one star counted twice; the
  true one must come through all stages.
* **Index files.** Files come from elsewhere: trees may lack tables, packed split
  planes are off by their dimension bits. A search must find every point in
  reach and stay inside the data; the prefetch must keep to its budget.
* **Extraction.** Components that meet late are joined while paths are halved;
  float images have pixels that are no numbers. A star must be one component,
  neither cut nor merged, and `find` must end.
* **FITS.** A file is solved, edited by others and solved again. It must stay
  readable, carry one WCS, and keep all else.

## 2. Modules

| Module | Models | Used by |
|---|---|---|
| `SolvePromise` | abstract: what one request is promised | `SolveService` (refinement) |
| `SolveService` | store, channel, worker, handlers | `MCSolveService`, `MCSolveServiceLive`, `ServerProofs` |
| `AnswerFiles` | artifact cache, v1 output stages, GETs | `MCAnswerFiles`, `AnswerProofs` |
| `GuiRunner` | UI thread, start threads, Runner, listeners, engine lifetimes | `MCGuiRunner`, `GuiProofs` |
| `LogBuffer` | log buffer and its file, faults, restarts | `LogView`, `GuiProofs` |
| `LogView` | the Logs tab on top of `LogBuffer` | `MCLogView`, `GuiProofs` |
| `SolveLadder` | warm list, tier 0, bands, deadlines | `MCSolveLadder`, `ServerProofs` |
| `QuadSearch` | one search of a scale band: backbones, members, deadlines | `MCQuadSearch`, `QuadProofs` |
| `QuadCodes` | the labellings and codes of one quad | `MCQuadCodes`, `QuadProofs` |
| `KdTree` | what a kd-tree file holds and how its tables are read | `IndexFiles` |
| `IndexFiles` | a directory of indexes: opened, prefetched, searched | `MCIndexFiles`, `IndexFilesProofs` |
| `Verify` | from a code hit or a remembered WCS to a solution | `MCVerify`, `VerifyProofs` |
| `StarExtract` | labelling, measuring and ranking of stars | `MCStarExtract`, `StarExtractProofs` |
| `FitsFile` | FITS files as they are read and written, WCS keywords | `SolvedFits` |
| `SolvedFits` | a file solved, edited and solved again | `MCSolvedFits`, `AnswerProofs` |
| `Lists` | `retain` and `sum` of Rust's library, as recursive functions | `AnswerFiles`, `QuadCodes`, `SolveLadder`, `KdTree`, `StarExtract`, `FitsFile` |
| `DataInduction` | lemmas: induction in the form of sets, recursive functions, `Lists` | the proofs |
| `MC*` | constants of the runs | |
| `*Proofs` | theorems about the one or two models they extend | |

A proof module about two models extends both, so their names differ: `AnswerFiles`
has `FilesInit`, `FilesNext`, `stage`; `LogBuffer` has `BufferInit`, `BufferNext`
and is specified by `LogSpec` of `LogView`, which has `LogInit`, `LogNext`, `tab`;
`QuadCodes` has `CodesInit`, `CodesNext`, `round`; `SolveLadder` has `LadderInit`,
`LadderNext`; `SolvedFits` has `FitsInit`, `FitsNext`.

The modules meet at narrow points and abstract each other there.
`SolveService.Finish` is a whole solve, whose course is `SolveLadder`;
`AnswerFiles` begins where `AwaitReturns` reported a success; `GuiRunner.Connect`,
`Submit`, `Answer`, `Leave`, `Solve` and `WorkerPanics` are the traffic of one
`SolveService` per engine, reduced to the counts that keep an engine in memory. A search of one
band, a single step of `SolveLadder`, is a whole behaviour of `QuadSearch`,
with the same three ends: found, none, timeout. `QuadSearch` asks whether the right
quads are looked up, `QuadCodes` whether the right codes are computed for one,
`IndexFiles` whether the look-up finds them, `Verify` what becomes of a hit;
`StarExtract` makes the star list all of them start from.

The type invariants say what the variables of each module range over. The runs spend
their time on the properties below instead; the inductive invariants of section 4
contain the types, and `TypeCorrect`, `LadderTypes` and, for the forest of
`StarExtract`, `NoCycle` state them as theorems.

### SolveService

A handler is one action per atomic operation: the two `fetch_add`s
(`DrawSubId`, `DrawJobId`), the two map inserts (`InsertSub`, `InsertJob`), the
`try_send` (`TrySend`, `SendFails`) and the `finish` of a failed send
(`TurnAway`). `pc[r]` says which comes next. The worker is `Recv`, `Finish`,
`Panic`. A panic of a solve is reachable (`fl-index/kdtree.rs:335` for one) and
caught nowhere: the receiver and the buffered tasks go with the thread.
`Disconnect` happens at the sleep of `await_job` only, the one await point after
the upload is read, where axum drops the handler of a closed connection. The
clock is abstract: a deadline may have passed at any poll, so every
race of a timeout with an outcome is there. The status `"full"` marks the
failure `enqueue` records, to tell it from the worker's. Left out: filenames and
time stamps of jobs; the login and the job-info pages of nova, which change no
state; malformed uploads beyond `Refuse`.

### AnswerFiles

`items` is the queue of files; `Put` replaces a file of the same job and kind,
appends, and evicts. A file is its size. The loop of `put_artifact` is `Evict`,
the longest suffix within the budget or the newest file alone. A sum of sizes is a
recursive function (`RunningSum`), so that sums can be reasoned about. The stored byte
count is recomputed by every call before it is read, so it is not a variable. A
failing FITS ends the answer with an error, a failing preview is dropped from
the answer, a chart cannot fail. `puts` and `fetched` are history.

### GuiRunner

`ui` is the UI thread, `pc[t]` the thread of the t-th start, `lock` the Runner's
mutex, held from `TakeLock` to `Return`. A UI callback that needs the mutex has
`lock = 0` in its guard, since it would block: `UiNeverWaits` says that no such
callback can be invoked then, except a shutdown. A listener moves from bound to
serving, stopping (signalled, port still held), draining (socket closed,
requests open) and closed (router dropped). `at` is the address it was bound to.
A request is in one of three phases, each of which keeps its handler, the router
and a sender: its form is read (`uploading`), for as long as the client takes,
since nothing times `Form::read` out; its job is waited for (`waiting`), which
`await_job` ends; its answer is read (`replying`), again at the client's pace. A
client may drop its connection in any of them. An engine belongs to its worker
thread, which ends once `InUse` is false: neither the Runner's backend, nor a
router, nor a queued task is left. `Backend::new` can fail or panic; a panic
poisons the mutex, which `Runner::lock` ignores, and sends no message. After
`shutdown` in the window's callback FLTK may end the process at once, or `run`
goes on to its own shutdown: both are there. Left out: entries the form rejects,
the modal alert, the status text, the settings file, an engine that differs only in
fields nobody compares.

### LogBuffer and LogView

A line is the number of its push, so order, loss and duplication show; its length in
bytes is chosen with each push, and `size` is that of the file. Every method of the
buffer is one action, as it holds the buffer's lock. `trim_file` keeps half of the lines,
whatever their bytes: `Halved` leaves any size half of the lines can have. The file is
at fault in every way its calls can fail: its directory is missing, it
cannot be read, opened or inspected; `fs::write` fails after it has truncated,
with any number of whole lines and a part of one written (`Cut`); a
`writeln!` fails with a part of the line written (`Unwritten`), and what is
appended next, by another run, goes on where it ended (`Joined`). A process that
dies inside a push is one whose write failed and that is started again. After a
`Reopen` the version is the number of lines read, as `persist_to` counts them. `gap` and
`left` are history: the newest line of this run pushed when the file had lost
lines or its last newline, and what the last trim or clear left. The number of a torn line
that another was appended to is that of the newer line.

`LogView` is the tab: `pump` and Clear make several calls of the buffer, with
pushes in between. `cleared` is up to where lines must not be shown again: in the run
of the Clear all that were logged, in later runs those that a Clear removed from
the file (`emptied`).

### SolveLadder

Scales are steps of a grid of about 6%: a warm band, 15% below to 18% above,
spans two steps either way, and scales less than 10% apart are those of
neighbouring steps (`Close`), so that a scale can be one rig with each of two that are
not one rig. Time is in ticks. A search of a band that holds the true
scale may find it at any moment until just after its deadline (the clock is read
between stars), and may miss it; one that finds nothing takes `Efforts` ticks
per step of scale or runs into its deadline. `store_warm` looks the index up
again by id, which `WarmIndex` keeps: the first file with that id. The retained part of
the list is `Retain` of the places kept; `Seen` runs over the bands and drops those
inside an earlier one. Left out:
extraction errors (they come before the state is touched), position and parity
hints (they narrow a search and change no band), a scale hint with one end
only, `prewarm` (it reads pages ahead of time and decides nothing; `IndexFiles`
has it).

### QuadSearch

`newpoint`, `a` and `b` are the loop variables, `pc` tells the two phases of the
loop apart, and `inbox` holds the members of the stored `PQuad`s. A step is one
backbone, with all the quads `try_pquad` looks up for it: any of them may hold
the solution. Positions are on a grid, lengths compared squared, so windows, hull and
circle are exact. Indexes with the same code invariants share one enumeration in
the code (`groups`); here each has its own, which gives the same look-ups. Left out:
the order of look-ups within one backbone.

### QuadCodes

Positions are integers and code coordinates are multiplied by |AB|^2, which makes
the frame exact. The four rounds of `for_each_code` (mirrored or not, A and B
exchanged or not) are steps; `permute` is the set of orders that survive its
margins. `Errors` are the displacements within `codetol` that separate an image
from the index. Left out: the callback that stops the enumeration.

### KdTree and IndexFiles

Coordinates are packed integers with `invscale` 1, so that a query in steps of
packing is exact; float trees differ in the slack and the place of the split
dimension. `WellFormed` is what libkd promises of the files it writes, with the
plane moved by rounding and by the bits that hold the dimension. `IsTree` is all
that is assumed of a file's numbers: they are numbers. `DataBelow`, the data of a
node, is a recursive function that goes down to the leaves. `Sorted`
says what the sort of the files leaves, not how it sorts. A tree `parse` accepts
need not be well formed: one without splits panics (`Panic`), one with a strange
leaf table is still read inside its data. `OpenFile` to `DirectoryRead` are
`open_dir` and the check of `Engine::new`; a prefetch may follow each solve.
Left out: byte order, the advice to the operating system, positions in the file.

### Verify

Sky and image are lines, so that a WCS is a shift and a scale and every WCS can be
enumerated; the code's order of events is kept: gates, fit, matching star by
star, bail-out, refit, second verification, final fit. Log-odds are small
integers; `Odds` falls with distance, in the run also with the number of stars in
view, and is capped. A fit of pairs that lie on one WCS gives that WCS; of others any, of
degenerate ones none. Parity is a matter of `QuadCodes`. The last fit
moves the reference pixel to the image's centre, which a line does not show. `guess` is
history: the WCS that was verified first, which the verdict and the solution are held
against.

### StarExtract

An image is what background subtraction and smoothing leave, with two values for
a pixel that is no number, as `total_cmp` orders them; one lies above the light of
any set of pixels (`ExtractAssumption`), the other below it, so that a sum is never
taken for either. `cursors` are the
calls of `find` in progress: each `Find` is one turn of its loop, writing the halved
path. The first pass ends a pixel with `Dark`, `NewLabel` or `Join`, the
second with `Unlabelled` or `Measure`. The stars are
`Retain` of the labels that look like one; `Brightest` says what their stable sort leaves.
Left out: the early return for images under 16
pixels a side (the images of the run stand for larger ones), centroids.

### FitsFile and SolvedFits

A file is a sequence of cells the size of a card, `PerBlock` to a block; a datum
takes one cell. A key is a name and its numbers, which is what `is_wcs_key`
parses; `Names` is a constant, so that the keys are a set. `Get` reads as
`Header::get` does. `Walk` is the loop of `Fits::parse`, turn by turn: it stops at
the end of the file, which need not be the end of a block, or at a header or data
that are not all there; a turn takes a cell at least, so as many turns as cells are
enough. The length of the data is a product over the axes (`Elements`), recursive as
well. `Solve` is an upload that is solved and fetched; `Edit` is another program that
adds a card to a header. It may add any card but END and those that say how long the data
are (`SolvedAssumption`): who annotates a file leaves its data as they are. Left out:
text and width of values, BITPIX and GCOUNT (a datum is a cell), headers over 10 MB.

## 3. Runs

| Run | Question | Bounds |
|---|---|---|
| `solve_service` | ids unique, no job lost, answers true, outcomes final, promise kept | 2 waiting clients, 1 polling, channel of 1 |
| `solve_service_live` | accepted jobs get an outcome; waiting clients are answered | 1 waiting, 1 polling, channel of 1 |
| `answer_files` | budget, order of eviction, no stray file | 3 jobs with all, two and one output; sizes below, at and over the budget |
| `gui_runner` | buttons, responsiveness, right engine and address, no listener out of reach; starts, replaced engines and the close come to an end | 2 starts, 2 engines, 2 ports, 1 request |
| `log_view` | the tab follows the buffer and stays bounded, Clear is not undone; the file agrees with the buffer and is bounded, through faults | 6 lines of 1 or 2 bytes, buffer of 2, limit and check interval 2 bytes, 1 clear, 2 runs |
| `solve_ladder` | one slot per rig, other rigs stay, exhaustive "no solution" | 3 images, 2 cameras, 3 fields of which one has no index, 6 scales, 2 slots, a timeout of four slices |
| `quad_search` | each quad once, bright ones first, "none" is exhaustive | all fields of 2 and 5 stars, some of 6, on 3 by 3 pixels; indexes of triples, quads and quintuples |
| `quad_codes` | the stored labelling is tried; codes fit their order | 3 to 5 stars on 3 by 3 pixels; for 3 and 4 all parity hints and code invariants |
| `index_files` | searches are exact and stay inside; the budget is well spent | trees of up to 7 nodes and 5 points, packed and float, damaged ones; directories of up to 3 files |
| `solved_fits` | one WCS, readable, nothing else touched | 4 cards to a block, up to 2 of the user's; images in the first to third HDU, the last block whole or not; 3 solves with edits between |
| `star_extract` | labels are components; the list has the brightest, each once, in order | every outline on 5 by 3 pixels; rows of 7 with up to 3 stars for a list of 2, pixels that are no numbers among them |
| `verify` | support of a solution; the true WCS is kept | 5 skies, fields of 2 to 5 of 6 pixels, double stars and strays; 9 WCSs |

Why the bounds suffice. A channel of one with three requests is solving, buffered and
refused at once, and the two waiting requests are interchangeable (symmetry, in
the safety run only); the theorems remove the bound. Three jobs fill the budget
exactly, overfill it by one file and by a file that alone exceeds it. Two
starts replace an engine, or keep it and serve at another address than it was built
for; the second may meet the socket of the first, and the one request is in any
phase by then, its job with the old engine. More starts meet no other state of the
Runner (an engine or none, loaded or crashed, the socket of the one before); for
the four invariants the theorems remove the bound.
Six lines of one or two bytes over two runs overflow a buffer of two and its file, with
half of the lines less than half of the bytes, meet a torn line of the earlier run
and go on after a trim that was cut short; they let the tab fall further behind than
the buffer reaches, and fill it to its bound. Three images
fill two slots and push one out; the timeout ends in a guess band, or in the wide band.

Five stars bring every phase of the quad loops: members fainter, brighter and
between those of their backbone, a backbone that gains members after it was made,
and a limit on the stars that cuts the field. The errors of `quad_codes` move two
stars apart by more than either may be off, which is what the pruning's margin is
for. A tree of seven nodes has two levels above its leaves, so that a search prunes,
descends on both sides and meets empty leaves; three files in every order of sizes
fit the budget or overfill it. With four cards to a block END falls on every place
of one, and three solves meet what the first one wrote and what an edit added to it.
Five by three pixels hold shapes whose arms meet twice, which joins labels that are
joined already. Six places, a double star among them, let two stars of the image
compete for one of the sky, and the other way round.

Deadlock checking is off where the system stops by itself: every request
answered and the worker idle or dead, every file fetched, the window closed, or
a counter at its bound.

### Fairness

* `SolveService`: a started handler is polled on by tokio, `await_job` ends by a
  clock, the worker's `recv` wakes and `solve_image` returns (its deadline is
  looked at between stars). Weak fairness of those; none of clients: requests
  need not come, nova clients need not poll, and the worker need not panic.
* `GuiRunner`: start threads, tokio tasks, workers and the event loop run, and
  `await_job` ends by its clock. The user is not fair, and neither are clients, for an
  upload and the reading of an answer have no timeout: `ReplacedEngineFreed` says that
  a replaced engine is freed if again and again no client is in the middle of either. A start thread's `Built` and `BuildFails`
  share one fairness condition, so which of them happens stays open.

## 4. Proofs

`tlapm` proves, for every value of the constants that satisfies the named
assumption of the module, and without any of the bounds of section 3:

| Module | Theorem | States |
|---|---|---|
| `ServerProofs` | `TypeCorrect` | `Spec => []TypeOK`, the channel's bound with it |
| | `UniqueIds` | `Spec => []IdsNeverShared` |
| | `JobsAccounted` | `Spec => []NoJobLost` |
| | `TrueAnswers` | `Spec => []AnswerIsTrue` |
| | `FinalOutcomes` | `Spec => OutcomeIsFinal` |
| | `Refinement` | `Spec => KeepsPromise`: the service implements `SolvePromise` |
| | `OneSlot` | `LadderSpec => []OneSlotPerRig` |
| | `NothingUntried` | `LadderSpec => []NoSolutionIsExhaustive` |
| | `LadderTypes` | `LadderSpec => []LadderTypeOK` |
| `AnswerProofs` | `BudgetKept` | `FilesSpec => []WithinBudget` |
| | `OnlyUnderPressure` | `FilesSpec => []RefusedOnlyUnderPressure` |
| | `NothingLeftBehind` | `FilesSpec => []FailedAnswerLeavesNoFile` |
| | `AnswerWcs` | `FitsSpec => []WcsIsOurs` |
| | `AnswerReadable` | `FitsSpec => []StillReadable` |
| | `AnswerKeeps` | `FitsSpec => NothingElseTouched` |
| `GuiProofs` | `ButtonsAgree` | `Spec => []ButtonsAgreeWithRunner` |
| | `UiIsFree` | `Spec => []UiNeverWaits` |
| | `Configured` | `Spec => []RunsAsConfigured` |
| | `Reachable` | `Spec => []ListenerIsRunners` |
| | `TabFollows` | `LogSpec => []TabFollowsBuffer` |
| | `DisplayStaysBounded` | `LogSpec => []DisplayBounded` |
| | `ClearLasts` | `LogSpec => []ClearedStaysCleared` |
| | `FileAgrees` | `LogSpec => []FileAgreesWithBuffer` |
| | `FileStaysSmall` | `LogSpec => []FileBounded` |
| `QuadProofs` | `BrightFirst` | `Spec => []BrightestFirst` |
| | `Exhaustive` | `Spec => []NoneIsExhaustive` |
| | `TriedOnce` | `Spec => NeverTwice` |
| | `LabellingTried` | `CodesSpec => []StoredLabellingIsTried` |
| | `Consistent` | `CodesSpec => []CandidatesAreConsistent` |
| `IndexFilesProofs` | `Exactness` | `Spec => []SearchIsExact` |
| | `InsideReads` | `Spec => []ReadsStayInside` |
| | `BudgetSpent` | `Spec => []BudgetWellSpent` |
| `VerifyProofs` | `SupportIsReal` | `Spec => []SolutionIsSupported` |
| | `TrueWcsKept` | `Spec => []TrueWcsIsKept` |
| | `TrueWcsRefits` | `Spec => [][Refit /\ IsTrue(wcs) => wcs' = wcs]_vars` |
| `StarExtractProofs` | `NoCycle` | `Spec => []ParentsPointDown` |
| | `LabelsTellStars` | `Spec => []LabelsAreComponents` |
| | `StarsTold` | `Spec => []StarsAreComponents` |
| | `ForestInvariant` | `Spec => []Forest` |
| | `LabelInvariant` | `Spec => []LabelInv` |

Few of these are inductive alone. For each model there is an invariant that is,
with a lemma per action or per conjunct, and
theorems that follow from it.

What recurs over data (sums, `Retain`, `Seen`, `DataBelow`, `Component`, `Walk`) is written
as a recursive function. `DataInduction` proves that such a recursion has a solution,
so that its equation may be used, and every induction is over a set: the places
where a claim fails have a least one (`LeastNatural`, from the well-foundedness
of `<`), and there the equation contradicts it. This takes the place of the library's
induction theorems, whose parameter is an operator.

**ServerProofs, the service**, from `ServiceAssumption` (the two kinds of request are
disjoint, the capacity is positive).
`IInv == TypeOK /\ IdInv /\ StoreInv /\ ChannelInv /\ FullInv /\ AnswerIsTrue`:

* `IdInv`: which ids a handler holds follows from how far it is, and none
  exceeds the counter. Without it a draw could repeat an id.
* `StoreInv`: which entries the maps have follows from the same. Without it a
  failed send or a poll could meet a job that is not there.
* `ChannelInv`: the channel and the worker hold each task once and only
  unfinished ones; a job not yet sent is held by nobody. Without it `Finish`
  could overwrite an outcome, since `Store::finish` checks nothing.
* `FullInv`: the queue's failure is on jobs of refused requests alone. Without
  it a nova client could be told of a failure the worker never reported.

`Refinement` maps a request's outcome to its job's entry: an insert opens,
`Finish` decides, `TurnAway` turns away, answers report, everything else
stutters.

**ServerProofs, the ladder**, from `LadderAssumption` (the wide band is wider than a warm
one), for any sky, set of index files, number of slots, timeout, slice and order of images. Two entries of one rig never meet: `store_warm` retains those of other
rigs before it puts the new one in front, and truncation keeps a front part.
Exhaustion needs one more conjunct of `LadderInv`: while the ladder runs, its last
band has every scale the hint leaves open. Dropping redundant bands keeps this, as
what is dropped lies in one that comes before; and a solve that says
"no solution" has searched the last band to the end.

**AnswerProofs, the cache**, from `FilesAssumption` (sizes and budget are positive).
`PutInv`: no file is stored twice, as a handler goes through its stages once; hence
the replacement in `put_artifact` never removes anything. `CacheInv`: the cache is
the newest part of all that was ever stored, within the budget or a single file, and
with the file before it would exceed the budget. Since sums of suffixes grow towards the
older, a missing file was followed by more than the budget. `AnswerInv` says this
of each client that was refused.

**AnswerProofs, the FITS file**, from `FitsAssumption` and `SolvedAssumption`, for
any uploads, blocks of any size and any number of solves. `Chain` says of a list of
HDUs that each starts where its predecessor ends, with a header there that has an
END, and that together they make up the file. `ParsedIsChain` and `ChainIsParsed`
show that this is what `Fits::parse` finds, and all it can find, so that the walk need
not be looked at again. `Rewrite` is the heart: if one header is
exchanged for one that tells of as much data, the new file is a `Chain` of the same
HDUs, those behind the header moved by the difference of the two, with the
same pixels; it holds because a header takes whole blocks and END is
written into the last of them wherever the cards end. What `set_cards` keeps is a
choice among the cards (`Sel`): `NewCardsSelected` computes the WCS and the rest of
the new header from choosing twice and from choosing in a list behind another,
and `NewCardsSame` shows that no key that sizes the data is chosen away and
SIMPLE stays in front. `FitsInv` adds to `WcsIsOurs` that a file once solved starts as
a FITS file and decodes: without it the second solve could take the branch for other
images and wrap the first answer in a new file.

**GuiProofs, the server's control**, from `RunnerAssumption`, for any number of starts,
engines, ports and requests. `LockInv`: the holder of the mutex is a thread inside
`Runner::start`. `FlightInv`: at most one start is under way, from the button
until the UI thread has taken its message; this is what the flag `starting` buys,
and without it a second start could hold the mutex, or change the listener,
while the buttons tell of the first. `ButtonInv`: the buttons are what `refresh` would set.
`StartInv`: what a start has established at each of its steps, so that it binds
with the engine it was told to use and with no listener left. The last two
properties are conjuncts of the invariant themselves.

**GuiProofs, the log**, from `LogAssumption`, for any capacity, limits and lengths of
lines. Buffer, file and tab forget their oldest lines at different times but agree from
the newest back, so they are compared from their ends: `Back(s, k)` is the line k
places before the last. `BufInv` is about the buffer and its file: lines are in order
(`LinesInv`); while the file is written, the lines newer than `gap` are the same in both
(`FileInv`), because a fault moves `gap` up to the line that met it; and between two
checks the file exceeds its limit, or what the last trim left, by what was written
since (`SizeInv`): `unchecked` counts those bytes, which is why `persist_to` has to set it.
`ViewInv` is about the tab: what it lacks is exactly the last `version - seen` lines,
without which an append after a clear or after lines were dropped could skip some; and it
holds at most a full buffer and the lines appended since the rebuild, fewer than
twice the buffer. Every step of the tab is a step of the buffer or leaves it
(`BufferStep`), so the invariant of the first carries over.

**QuadProofs, the search**, from `QuadSearchAssumption`, for any star list and indexes.
`LoopInv`: where the loop variables can be. `InboxInv`: a backbone's member list
holds exactly the stars offered to it in its circle. `TriedInv`: the set of
looked-up quads is exactly `LookedUp`, which says by the position of the loops
what must be in it. The geometry stays opaque but for one fact, that an index's
window is inside the hull of all windows: the enumeration is right whatever circle
and windows it is asked about.

**QuadProofs, the codes**, from `CodesAssumption` (positions are integers, a quad has a
backbone, two coordinates are off by no more than `CodeTol` together). The lemmas
`Renamed` and `Mirrored` are polynomial identities: if A
and B change names, a code coordinate becomes its complement, and if the image is
mirrored, x and y change places. The search uses both instead of computing
codes anew. `CodesInv`: every round that is over has `Tried` all labellings
that survive its pruning. That the stored one survives is a matter of numbers: in the
index its members are in order of x and their mean is at most a half; errors within
`CodeTol` in all move the difference of two by at most one and a half `CodeTol`, and the
mean by at most `CodeTol`, which the margins of `permute` allow.

**IndexFilesProofs**, from `IndexAssumption` (numbers are numbers), for trees of any
depth and up to eight dimensions. `IndexInv` has four parts. `OpenInv`: what is opened
can be opened. `WarmInv`: the prefetched files fit, and of each file passed over it is
remembered that it did not fit beside those prefetched before it. `SearchInv`: what is on
the stack are nodes of the tree and what is out are its data; that a leaf's
data lie inside then follows from how the table of leaves is read, whatever is
in it. `ExactInv`, for trees as libkd writes them: what was found is all that
is in reach but for what lies below the nodes on the stack, and no datum lies below
two of them. It rests on lemmas about the tree: the leaves cut the data into
intervals, children split what their parent holds, the root holds all, and what lies
below a child on the far side of the plane is out of reach.

**VerifyProofs**, from `VerifyAssumption`, for any sky, image and scores.
`PairsInv`: no star of either side is matched twice, whatever the fits return.
`SupportInv`: a match of a strict verification is within reach of its WCS. The
pairs are then an injection, which is what `Supported` counts. For the other
direction `KeepInv` says what happens under the true WCS, `Matched`: each star looked at
was matched at distance zero or has no counterpart, so that the log-odds are at any time
the hits times what a hit is worth, less the strays times `Miss`. With as few strays
as `TrueWcsIsKept` allows the early bail is never reached and every threshold is; the fit of
pairs on one WCS is that WCS. Hence a refit does not move a guess that is true
(`TrueWcsRefits`), the second verification is of the guess itself (`GuessInv`), and so
is the solution (`TrueWcsKept`).

**StarExtractProofs**, from `ExtractAssumption`, for images of any size. `Forest`: a
parent is never above its label; to keep this under joins and path halving, the
labels in use (on pixels, in calls of `find` in progress) must be labels of the
forest. `LabelInv` adds a map r from labels to roots that the forest never shows
as such, since paths are only halved. `RootsConnect(r)`: two bright pixels seen have one
root if and only if they are connected by bright pixels seen. `OnTheWay(r)`: a
call of `find` is at a label with the root of the label it began at, so that halving changes no
root and a join merges two. Connected means: in every set closed under
neighbours that holds the other; `ComponentFacts` shows that the recursion of
`Component` computes the smallest such set, and `LabelsTellStars` follows.
`Measured(r)` carries peak, place, light and size of each root's pixels through the second
pass, pixels without a value included. The sort permutes, so the list is the stars
wanted and no star left out is brighter (`StarsTold`).

Only model-checked:

* liveness (`AcceptedJobsFinish`, `WaitingClientsAnswered`, `StartResolves`,
  `ReplacedEngineFreed`, `CloseEnds`): the prover has no rule for fairness here.

## 5. Where code and words disagree

The properties of the passing runs hold. These are places where a comment, a document or a
name promises more than the code does, met while modelling.

1. `fl-server/store.rs:207`, test `an_oversized_artifact_is_still_served_once`: "A
   single file larger than the whole budget must not evict itself." A v1 solve
   (`v1.rs:143`) stores the preview after the FITS, and the preview evicts it; the
   web page asks for both (`app.js:269`).
2. `gui/runner.rs:55` drops the old engine first because "two index caches at
   once is the one way this program runs out of memory". Dropping the backend
   drops a sender; the engine goes when its worker ends, which a running solve
   delays for minutes, and a client that stalls in its upload for as long as it likes.
   `ReplacedEngineFreed` says when it goes.
3. `gui/runner.rs:74`: "The engine stays loaded, ready for the next start." Not
   after its worker panicked: the backend is reused (`runner.rs:53`) and every solve
   refused until an engine setting changes.
4. `gui/mod.rs:649`: lines are counted "so the display cannot outgrow the buffer
   it mirrors". It can, to nearly three times its size: a full buffer at a rebuild, and
   splices until as much again was added, the last of them a buffer long (`DisplayBounded`).
5. `docs/GUI.md:45`: "**Clear** empties the tab and the file together". After one
   failed append it no longer touches the file, and a file that cannot be emptied is
   left: these lines are back in the next run.
6. `fl-solve/engine.rs:316`: tier 0 is for when "the mount barely moved (dither,
   re-center, next sub)". With tiles that share an index id (`store_warm`,
   `engine.rs:294`) the first of them is remembered, and tier 0 verifies against
   the wrong stars.
7. `engine.rs:326`: "Contradicting client hints disable the shortcut." Only a
   scale hint with two ends does; a position or parity hint, or a one-sided
   scale, is not looked at.
8. `engine.rs:335`: the loose verification of tier 0 is given `min_matches: 8` and
   an acceptance threshold; `accepted` is never called on it, and six pairs
   suffice.
9. `verify.rs:127`: "Early bail: hopeless hypothesis." It is a heuristic: later
   stars could bring the score back, and the stars of a true WCS may come after
   strays. `TrueWcsIsKept` therefore bounds the strays.
10. The WCS that is returned has been fitted once or twice more after the
    verification that accepted it (`engine.rs:370-384`): the reported score and
    matches belong to the WCS before, and its scale is not held against the band
    again.
11. `cache.rs:61`: prewarm goes on "until the RAM budget is spent". The count
    starts at zero in every call, so files advised by earlier calls come on top;
    `BudgetWellSpent` is about one call.
12. `engine.rs:605` looks a star up by its number in the quad table, with no
    regard to a `perm` table, which `range_search` maps through: for a star tree with
    such a table the two numberings differ.
13. `simplexy.rs:171` skips pixels that are at most the limit; one that is no
    number is not, and becomes part of a star.
14. `is_wcs_key` (`tanwcs.rs:200`) knows neither the older `PC001001` nor alternate
    descriptions such as `CRVAL1A`: these stay in the header beside the new
    solution.
15. `lib.rs:102` says that dropping a `ServerHandle` leaves the server running, but
    it drops the sender the shutdown waits for (no code does it). `logs.rs:122`
    calls Clear the only thing that discards history, which `trim_file` does as
    well. `store.rs:63` creates submission and job "in one step", which takes two
    locks (harmless, as no client has the id yet: `AnswerIsTrue`).
16. `engine.rs:259` gives each guess a slice to "save the bulk of the budget for the
    final wide fallback". `config.rs:45` takes any timeout, and with one of 25 s or less
    the guesses can use it up; the solve then ends with a timeout, never with "no
    solution" (`NoSolutionIsExhaustive`).
17. `logs.rs:20` drops the oldest half of the file past its limit, by lines: half of the
    lines can be most of the bytes, and the file stays over the limit (`FileBounded`).
18. `kdtree.rs:209` does not look at the length of a table of split dimensions, as it does at
    those of the other tables: with a short one `split_plane` reads what follows it or
    panics. `SplitPlane` describes trees whose table is whole.

## 6. Not modelled

* Floating-point work: background, noise and smoothing, centroids, the linear
  algebra of the fits, chart layout. It has no finite state to explore; `Verify`
  and `StarExtract` begin and end where these hand over.
* The text of FITS cards, pixel formats and scaling: one argument in, one value
  out, and covered by the repository's unit tests.
* Dates (`fl-sky`): a pure function that only feeds a comment and the chart.
* The web page, which is JavaScript: one hazard was met there (an answer applied
  after another file was chosen, `app.js:317`) and is listed without a property.
* Settings, tray, autostart and theme: platform calls around one JSON file.
* `main.rs`, tools and scripts: straight-line set-up.
* Jobs and submissions are never removed, so their growth has no bound to check.

## 7. What is left

1. A composition of `SolveService` and `AnswerFiles` under several jobs whose
   answers are fetched late.
2. `CivilDate`, `days_from_civil` and its inverse, against a calendar counted day
   by day.
