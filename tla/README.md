# ChronoMock: a verification project

ChronoMock shows one Windows application, and every process it starts, a clock of the tester's
choosing: another date, a frozen date, or a date that runs N times as fast. This directory holds
TLA+ modules of the parts of it that are hard to get right and hard to test, TLC configurations
that check them on small instances, and theorems about them that TLAPS checks. Every definition
is a translation of the source; `PROJECT.json` ("map") names the lines it stands for.

1 the system, 2 the modules, 3 the runs, 4 fairness, 5 hazards, 6 disagreements with the
comments, 7 what is proved, 8 plan, 9 what is not modelled, 10 running it.

## 1. The system

| Part | Where | State it keeps | Operations |
|---|---|---|---|
| Control block | `crates/ctl` | one shared section `Local\ChronoCtl`: the anchor of three clock axes under a seqlock, the core's pid and creation time, the end mark, 4096 sign-in slots (pid, coverage masks, call counters, ring of uncovered children) | `rebase`, `write_anchor`, `write_anchor_full`, `read_*_with`, `reserve_cov_slot`, `publish_pid`, `record_uncovered_child`, `bump_calls`, `release_axes` |
| Core engine | `crates/mech` | the session: handles on the launched process and on every member, the mapping, the lock, what was reported already | `prepare`, `set_multiplier`, `jump`, `jump_step`, `family_alive`, `poll_*`, `terminate_family`, `end` |
| Hook | `crates/hook` | per process: the mapped block, its slot, the watcher, RELEASE_AT, RELEASED, DETACHED, the late-install list, two flags per thread | ~40 detours, `install`, `late_scan`, `watcher_proc`, `release_duration_axes`, `inherit_into_child` |
| Core process | `crates/cli` `core.rs`, `session_commands.rs`, `wire.rs` | deadlines, the ledger of a session | `read_start`, `run_session`, `apply_command`, `close_session` |
| Chromium mechanism | `crates/cli` `cdp*` | one DevTools connection with its reader thread and inbox, contexts, requests in flight, their clock, the browser and its profile | `launch`, attach, `start_move`, `start_release`, `on_reply`, `pump` |
| Embedded engine bridge | `embedded_bridge.rs`, `cdp_discover.rs` | the sockets seen, engines known, pages per engine | sweep, connect, `pump`, `finish` |
| Registry policy | `policy_session.rs`, `mech/policy_value.rs` | one registry value to be taken back | `claim`, `recover_in`, `finish` |
| Run driver | `crates/cli/src/run` | a spawned core, its lines, the evidence file | `collect`, `plan`, the read clock, the write beside the report |
| Calculator | `crates/core`, `cli` `calc.rs`, `calendar.rs`, `preset.rs` | none (pure) | date arithmetic, business days, calendars |
| Protocol | `crates/proto` | none (types) | NDJSON commands and events |
| Panel | `gui/ChronoMock.Protocol`, `gui/ChronoMock.App` | a core client, its event stream, view models | connect, send, dispose, latest answer, debounce, start, stop, close |
| Reports, site, packaging | `report.rs`, `crates/site`, `packaging` | none | rendering |

### How the parts meet

The core owns a session. It takes the session lock (a named mutex), creates or reclaims the
control block, writes the first anchor, launches the target suspended, loads the hook into it
and resumes it. The hook joins the block and answers every clock call of its process from the
anchor, without ever calling the core. Whatever the core changes, a rate or a jump, reaches
every process through the block alone. A process that starts a child loads the hook into it
before it runs. When the core goes, in order or not, a watcher thread in each process sees its
handle signalled and lets the process go: the wall falls back to the real clock, the duration
axes go on from where they stand at the real rate. The lock is then free, and the next core may
take over the same block, which the old processes still have mapped.

A browser has no hook. The core, or inside a native session the bridge, connects to it over
DevTools and puts a shim into each page; every move of the clock is a request to each context.

The core speaks lines on its stdout and takes lines on its stdin. Its client is the panel or
`chrono run`, which must tell a core that ended from one that died, hangs, or is only behind.

### What is hard

* The block is read by every thread of every process with no lock, while one writer stores eight
  fields one at a time, and may be killed between any two.
* A duration clock must never run back (rule 3 of the project), across rate changes, across the
  core's death, and across the hand-over from the session's line to the released one.
* No process may be shown another session's time (rule 2), although the block has a fixed name
  and the seqlock's counter restarts at the same value.
* The audit is evidence (rule 4): a coverage bit, a count or a missing child must not claim more
  than happened, and the slots are written by threads and read by another process.
* Processes start, sign in, end, and have their pids recycled while the core looks.
* Integers saturate: elapsed time times a rate of up to a million.
* A DevTools request is answered late or never, for a page that may be gone.
* A line of the core may be in the pipe, in a queue or in a thread's hand when the core is gone.
* The panel asks again while an answer is out, and is closed in the middle of things.

### Components, and what makes each correct

`PROJECT.json` ("components") gives each with its modules and what is left out. The rules named
are the project's own "untouchable rules", which the code's comments cite by number.

* **Session clock** (`ctl`; `rebase`, `jump` in `mech`). A detour on any thread gets an answer
  no lower than one already given on that axis, across a rate change, a jump of the wall (the
  one thing that may move the wall back), a kill between two stores, and both ends of the integer
  range. A rate change is continuous. A read ends although the writer died with the block open.
* **Start of a session** (`prepare`, `install`, `join_refusal`). The block of a live session is
  its own; no application runs unhooked or stays suspended behind a dead core; what is told of
  the session before is true.
* **End of a session** (`close_session`, `Session::end`, the watcher, `tick64_or`). A process
  let go keeps a duration axis that does not run back. After an ordered end every process of the
  family is on one line. The next session's anchor is never answered with.
* **Detours that call detours** (waits, timers). A call of the application is taken once, its
  length divided once, whatever Windows' own exports call and whatever an APC does inside.
* **Following** (`inherit_into_child`, `install`). A child that runs on the real clock is in its
  parent's count; no child is counted that is covered.
* **The family and how long a session lasts** (`family.rs`, `run_session`). The session does not
  end by itself under a member, does not close in silence over one, and is not held open by a
  stranger that got a member's pid.
* **Ending a refused family** (`ending.rs`). Rounds of list, open, end reach every process the
  last list could name, and end nothing whose parent lives outside the family.
* **The ring of uncovered children.** Every child written is named once and only once, a dead
  writer's hole notwithstanding.
* **The coverage masks.** A bit is claimed only for a detour that is on for every caller, every
  such detour is claimed once things settle, a failure is listed, a late channel is named as late.
* **Core process loop and wire.** Deadlines are met under a burst of commands; every command is
  answered; a bad line does not swallow the next; one verdict, one `ended`, in that order; a
  sleep and an alarm that no longer rings are said once.
* **Clients of the core.** No line left out; `ended` reaches the window; "hung" and "idle" are
  said of a quiet core only; an exit code that is a verdict comes from a session heard to its end.
* **Chromium mechanism.** A page is on the clock given last, or is said to have missed a move; a
  confirmed release leaves no script; `performance.now` never steps back; messages come in
  order; no two sides wait on each other; no living profile is swept.
* **Embedded bridge.** An engine is connected to once, its pages are its own, the application's
  own servers are left alone after a few questions, an engine that stays is reached or said.
* **Registry policy.** What a core leaves is said, and nobody else's value is touched.
* **Calculator, calendar.** Every step of an expression does what its name says; walks over
  business days agree with a count; budgets hold; the civil arithmetic agrees with a calendar.
* **Panel.** What is shown, copied, sent, started with and recorded is the newest question's and
  the session's own; nobody waits for ever.
* **Reports, evidence texts, documentation site, packaging, parsers of local files.** No state
  machine; not modelled (section 9).

## 2. The modules

| Module | Models | State | Actions |
|---|---|---|---|
| `ClockMath` | the projections of `ctl`: `fake_wall_at`, `dur_quit_at`, `dur_qpc_at`, `dur_tick_at`, `released_quit_at`, with saturation at a width that is a constant | none | operators |
| `AnchorSeqlock` | the block's anchor, its seqlock, one writer, any number of reading threads | `precise`, `plain` (the two QUIT clocks), `seq`, `base`, `origin`, `rate` (the eight fields, by axis), the core's stage, each reader's call, STUCK_SEQ | one per store of `rebase` and `write_anchor`, one per load of a reader |
| `SessionAxis` | the abstract promise: an axis is the integral of the rate | `axis`, `speed`, `served`, `floor` | `Tick`, `ChangeRate`, `Die`, `Begin`, `Answer` |
| `SessionStart` | `prepare` of any number of cores, its ways out and its kills; the loader thread and `install` in the target | lock, block (owner, zeroed, header), each core's step, each target's life | one per system call of `prepare`, of the unwinding, of `install` and `join_refusal` |
| `SessionRelease` | the end of a session, the release of its processes, the next session taking the block | the core's and the next core's steps, the block, each process's watcher, RELEASE_AT, RELEASED, DETACHED, each thread's call | one per step of `close_session`, `prepare`, `watcher_proc`, `release_duration_axes`, and of a detour |
| `DetourCalls` | one thread in the wait and timer detours, through the exports Windows calls itself | a stack of frames, two flags, what was counted and divided | one per call, kernel wait, APC, exception, return |
| `Inheritance` | `CreateProcess` in a followed process: load the hook, account, resume; the child's `install` and sign-in | lives, pids, parents, registry slots, claims, counts | one per step of `inherit_into_child` and `install`, and the system's pid reuse |
| `FamilyWatch` (extends `Inheritance`) | poll, heartbeat, close: what the core asks of the family and decides | the core's step, `watch` per slot, `unwatchable`, what is asked at the close | one per slot read, open, wait |
| `EndFamily` | the rounds of `terminate_family` | people (in the order of their starts), numbers held, the list taken, what is known and confirmed, the answer | time, list, ask, open, end; starts and ends of processes |
| `UncoveredRing` | the ring of uncovered children, and `poll_uncovered_children` | count, entries claimed and written, what the core consumed and named | claim, store, and one per step of the poll |
| `CoverageSlot` | `install`, the watcher's `late_scan`, MinHook's queue, the masks and their reading | created/on/queued detours, HOOK_FAILED, LATE_TODO, INSTALL_DONE, the three masks | one per mask store, scan step and mask load |
| `SessionLoop` | `run_session`, `close_session`, the stdin reader | deadlines, the channel and the reader's line, the ledger, what was judged and told | one per turn's part: apply, poll, beat, family, judge, end; the reader; a tick |
| `CoreOutput` | the abstract promise of the core's stdout | `stage`, `wrote` | the order of the lines |
| `CorePipe` | a core that keeps `CoreOutput`, its pipe, and somebody who may hold the write end | pipe, the core's life, quietness | write, noise, leave, kill, hang |
| `CoreClient` | `CoreClient.cs`, `CoreSession.cs` | the read loop, the bounded channel, the pump, the shutdown and its callers | one per step between two awaits |
| `RunDriver` | `crates/cli/src/run` | reading thread, queue, loop, limits, what was gathered, the evidence files | one per step |
| `PolicyValue` | `policy_session.rs`, `policy_value.rs` | the registry value, the keys, each core's step, what it said | one per registry call, a tester's change, a kill |
| `EngineBridge` | `cdp_discover.rs`, `embedded_bridge.rs` | sockets, the sweep's memory, connects, engines and pages | sweep, question, connect, turn, finish |
| `CdpRequests` | one JS context and the session's requests to it | page, requests in flight, the context's account | send, take, handle, navigate, break, release |
| `CdpClock` | the session's clock and a page's | the panel's segment, the page's, drift, moves under way | change rate, jump, watch, arrive, sleep, correct |
| `DevToolsSocket`, `DevToolsCalls` | the WebSocket with its reader thread; the calls over it | wire, inbox, write lock, frames; queue, deadlines | one per read, write, park, poll |
| `BrowserLaunch` | the browser from start to end, and its profile | core, browser, launcher, job, two profiles | one per step of `launch` and the drop |
| `LatestAnswer`, `StartMoment`, `Calculator` | the panel's questions and answers | ticket, generation, quiet time, presses | one per step between two awaits |
| `PanelSession` | `RunSessionAsync`, Stop, the close, the record | the session's stage, result, status, record | one per event and step between two awaits |
| `HolidayCalendar`, `DateEvaluation` | `crates/core` `lib.rs`, `calendar.rs`, `calc.rs` | the running moment, a walk, the budget | one per step of an expression, one per day of a walk |
| `*Proofs` | theorems (section 7) | | |
| `MC*` | instances: model values, small sets, sums of machines | `subject` (`client` in `MCClients`) | |

Composition. `FamilyWatch` extends `Inheritance`, so the core's look interleaves with every step
of a family that starts, signs in and ends. `CoreClient` and `RunDriver` extend `CorePipe`, which
is `CoreOutput` in a pipe; `SessionLoop` is shown to implement `CoreOutput` (`Output`), so what
the clients assume of a core is what the loop does. `AnchorSeqlock` implements `SessionAxis`
twice, for the QUIT and the QPC axis (`Quit`, `Qpc`). `StartMoment` and `Calculator` share
`LatestAnswer`; `AnchorSeqlock`, `SessionRelease` and `DetourCalls` share `ClockMath`.

An `MC` module that names several machines is a *sum*: each moves variables of its own, `subject` picks
one at the start and only that one moves. It is a way to check them in one run, never a claim
that they are independent; where two machines do meet, one module holds both. A property of a
sum is a conjunction of `subject = "..." => ...`, one per machine.

Definitions whose comment begins with "Mutant:" are variations of the one that follows; no
specification uses them. They are the bugs each property was tried against ("mutants").

### What is abstracted

* **Atomicity.** A step is one load or store of shared memory, one call of the system, or what
  runs between two awaits of the window's thread. `SessionRelease` takes an anchor, and a rate
  change, in one step each: the interleavings inside are `AnchorSeqlock`'s. Stores become visible
  in program order; the Release/Acquire orderings of the code provide that where a property rests
  on it. The zeroing of `prepare`, one `write_bytes`, promises no order, so `SessionRelease` takes
  its fields in any.
* **Units.** A QUIT unit, a QPC unit and a real-time unit are one; a tick is TICKS_PER_MS of
  them. The width of i64 is I64_MAX, so saturation is met within a few steps.
* **Detours.** About forty detours fall into the classes of the axis they read; one detour per
  class stands for all. `DetourCalls` takes Windows' cascade of exports as external and keeps the
  channels with a flag. An exception comes only out of APC code; the fault of an unreadable
  NtDelayExecution pointer is left out. A thread without storage counts each detour of a cascade
  (`note_without_storage`).
* **Windows.** A process id may be given out again as soon as no handle holds the process.
  MinHook, outside the repository, is a set of hooks that are on, a set its queue switches on,
  and an application of the queue that may stop anywhere.
* **SessionStart.** Each core starts once. The anchor, zone and creation time are one step. The
  error mode that keeps the loader quiet is left out. The kernel frees a dead core's mutex before
  it closes its other handles; the mutex handle another core holds for a moment is left out. An
  exit code that is 259 or cannot be read looks like running. A full registry is `Inheritance`'s.
* **Inheritance and FamilyWatch.** The tree under an elevated host is left out: a child is
  started with its parent as listed parent, or with one chosen outside the family (`Adopted`).
  The launched process is `Root`, hooked by the core before the model begins. In-loop folds of
  reports that only repeat are left out. The `uninjected_children` count of a parent is the set
  `counted`: `bump_uninjected_children` is a plain load and store, so two threads of one parent
  may lose a bump (ctl lib.rs 2150 says so), which is not modelled; the names in the ring take an
  atomic index, and that is. A child that loads slowly starts children only once its own load has
  come to its end; a process list that cannot be read (the answer is then yes) is left out.
* **EndFamily.** A creation time is a place in the order of the starts. The list is ordered by
  number. The end of one entry is one step, and so is `terminate`. A right to ask but not to end
  is only in the run with a finding.
* **CoverageSlot.** The process has a slot. A missing export and a missing trampoline are one
  choice. Three ways of `make_hook` leave a detour that is on and that some callers go past, and
  so is never claimed: it stands at kernel32's entry, past which callers go to kernelbase, or
  its second body does not take it, or the other of two bodies has it alone. They are one set
  (`oneWay`), any of the startup channels: the shapes of the exports that lead there are not
  modelled. Only where a body failed is the channel in HOOK_FAILED as well. A module
  that arrived does not go: `pin_module` holds it while it is looked at. The DETACHED check of
  `late_scan` is not met from the watcher, which sets DETACHED itself.
* **SessionLoop.** The looks at the family are `FamilyWatch`'s and are one step. The machine is
  prompt: at most one tick passes between the moment the loop could go on and the end of the turn
  that follows. Lines are of a few kinds; the text of an error is nothing a property asks.
* **CorePipe, CoreClient, RunDriver.** A line is what `CoreOutput` knows of it and its number.
  The core that is at the other end is any that keeps `CoreOutput`, which is what `PromiseKept`
  shows of `SessionLoop`. The machine is prompt, and a drain is shorter than a tick. The driver's
  kill reaches the core; its own death is modelled only while it writes the evidence; the
  commands it sends on heartbeats are left out. The scratch names others have taken are the first
  ones tried. A write, the removal of its half and the rename may each fail by itself.
* **PolicyValue.** One application name. The session lock is taken after the value is written, so
  it orders nothing. The scan for leftovers never fails, every other call may. Keys are a count.
* **EngineBridge.** One socket per port, no IPv6. Whether a process is a Qt host or the
  runtime's is a constant of it. The family tree, the look for WebView2, the moves of the clock
  and the release are elsewhere or left out; a partial table notice is left out. The gap between
  looks (QT_LOOK_GAP) is a free choice at each sweep. A page is the number that `next_index` gives
  it, and a turn finds at most one page that is new.
* **CdpRequests.** Contexts share nothing but the clock and the session's stage, so one at a time
  is modelled. A deadline bounds a wait, never what is learned, so the waits are not there. Call
  counts, the frame tree, the zone and injections that failed are left out. A failed send is a
  broken connection.
* **DevToolsSocket.** The unit is a frame: a read that ends inside one leaves it where it is.
  Pings are bounded, so the write lock is not starved by them.
* **DevToolsCalls.** The browser's sending of a message and the call's taking of it are one step
  (`MessageComes`): a reply that is in the socket when the deadline passes counts as not come.
* **BrowserLaunch.** One other core in the folder. The removal of a profile fails only while a
  process holds it.
* **DateEvaluation.** A day has DAY units, the band of years is 1896 to 1904, and
  MAX_BUSINESS_DAYS and DEGENERATE_GAP_DAYS are scaled with it; the civil arithmetic is asked
  again over years from 1 to 2100 (`DatesAreRight`). An expression's steps are chosen as they are
  read.
* **PanelSession, StartMoment, Calculator.** All run on the window's thread. A date is the
  generation it answers; the builder is the number of its edits.

## 3. What each run checks

Several properties are conjunctions, each with its parts named in its module; the last table
lists them. A run of a sum asks each machine's own.

| Run | Instance | Shows |
|---|---|---|
| `anchor_wall` | two threads reading the wall, rates 0 and 3, one rate change or jump (to 2, 9, by -4, +6), i64 up to 13, real instants to 3. Beside it `DetourCalls`: waits and timers with four rates and lengths that meet their limits, two nested APCs | `TypeOK`: no base leaves the range (a relative jump off either end changes nothing). `NeverRunsBack` within a jump epoch, for either thread against both, through a kill between any two stores and a write left open that both remember. `DetoursAreTransparent` |
| `anchor_axes` | one reader of QUIT and QPC, rates 0 and 3, one rate change, i64 up to 6, real instants to 2, fair | `DurationsAreTheSession`: refinement of `SessionAxis` on both axes, so each is continuous at a rate change, driven by one clock, and answers with values it has passed. `EveryCallReturns` though the core dies with `seq` odd |
| `release_threads` | two threads of one process, rate 3, i64 up to 6, end in order or kill | `DurationsGoOn`: across the hand-over from the session's line to the released one, whenever the watcher runs, at the saturated end too |
| `release_procs` | two processes, a thread in each, ordered end | `OneLineAfterTheEnd` |
| `release_reclaim` | one process, kill or end, the next core at any time, up to two failed `CreateThread`s, `seq` up to 4 so that it returns to a value the reader remembers, fair | `NeverAnothersTime`; `NobodyIsHeld` |
| `family_ends` | a family of three over three pids and two or three slots, one child slow to load and closed to waits, the other without a creation time. Beside it `EndFamily`: three of the family, two others, three numbers, two rounds | `CountsAreTrue`, `NobodyIsForgotten`; `SearchIsSound` |
| `evidence` | two members, a stranger, three pids; two parents of two threads, a ring of two, three children each; one startup channel, a module of two late channels and one of one; two cores that start, one of them mortal, with or without an earlier application; fair | `RingIsSound`, `AuditIsHonest`, `StartIsSound`, `NothingStaysUndone` |
| `session` | heartbeat 2, poll 1, one unread line, sleeps to 2; two cores and a tester on one registry value; a Qt host and another process on two ports, two lives of a socket, two pages; fair | `PromptLoop`, `EndToldInFull`, `PromiseKept`; `NothingUnsaid`, `OthersLeftAlone`; `SoundBridge`; `NothingIsOwedForGood` |
| `core_client` | a pipe and a channel of one, two callers of dispose, an idle limit of one tick, four events, one line of noise; a queue of one, a timeout of two, two scratch names; fair | `ClientIsSound`, `RunIsHonest`, `CutsAreJust`, `ClientsGoOn` |
| `panel` | two presses of Start, four questions; four edits, two taps, a clock that moves once; two sessions; expressions of two steps over four calendars and sixteen bases; twenty years day by day; fair | `AnswersAreNewest`, `NewestIsTaken`, `RecordsAreTrue`, `ResultsStand`, `EngineIsExact`, `NobodyWaitsForEver` |
| `chromium` | one context, two moves of which one a rate change, a navigation, a break; two commands, a sleep or correction; two messages of two parts, an inbox and a wire of one, a ping; a queue of one, three target events, two calls; two handoff tries; fair | `SoundContext`, `NothingPutBack`, `SoundPages`, `ClockForward`, `SoundConnection`, `SoundLaunch`, `EveryWaitEnds` |
| `refused_stranger` | `EndFamily` with a right to ask but not to end | **violated**: `OnlyTheApplication` (section 6) |

The bounds. Clock behaviour depends on the order of readings and stores, not on their distance,
and every saturation edge lies inside the ranges given. Families are small because each hazard of
section 5 has at most three processes in it. Queues, pipes and inboxes of one are full after one
step, so everything that waits on a full one does so in the run; where order within a queue
matters (the target events, the requests to a page) there are two or three. Each counter that
would go on (`MaxNow`, `MaxSeq`, `MaxEvents`, `MaxMoves`, `MaxAsked`, ...) is named in its module
with "bound:". `CHECK_DEADLOCK FALSE` stands where a system comes to rest: a family that ended, a
session that is over. Symmetry is used for interchangeable threads and pids, in runs of
invariants only.

| Property | Its parts |
|---|---|
| `DetoursAreTransparent` | `DetourTypeOK`, `AppRunsOutside`, `CallsAreTakenOnce` |
| `DurationsAreTheSession` | `QuitIsTheSessionAxis`, `QpcIsTheSessionAxis` |
| `DurationsGoOn` | `SessionRelease!TypeOK`, `NeverRunsBack` |
| `NobodyIsHeld` | `LetGo`, `EveryCallReturns` |
| `CountsAreTrue` | `FamilyTypeOK`, `UncoveredIsCounted`, `CountedRanUncovered` |
| `NobodyIsForgotten` | `EndsUnderNobody`, `QuietAboutNobody` |
| `SearchIsSound` | `EndTypeOK`, `OnlyOrphansAreTaken`, `CompleteIsWhole` |
| `RingIsSound` | `RingTypeOK`, `NamedOnce`, `ComesBack` |
| `AuditIsHonest` | `SlotTypeOK`, `ClaimedIsLive`, `LiveIsClaimed`, `FailureIsListed`, `LateIsNamed` |
| `StartIsSound` | `StartTypeOK`, `LiveBlockIsUntouched`, `NoneRunsUnhooked`, `NobodyIsLeftSuspended`, `OutlivesItsCore`, `TakeoverIsTrue`, `JoinsItsOwn`, `PageOutlivesItsReader` |
| `NothingStaysUndone` | `EndsWithTheFamily`, `WrittenIsNamed`, `OwedIsTried`, every start comes to its end |
| `PromptLoop` | `CadenceKept`, `EveryCommandIsAnswered` |
| `EndToldInFull` | `SessionLoop!TypeOK`, `MovedDueIsSaid`, `SleepIsToldOnce` |
| `NothingUnsaid` | `PolicyTypeOK`, `NothingLeftUnsaid`, `LeftoverGoesOrIsSaid`, `KeysAreRestored` |
| `SoundBridge` | `BridgeTypeOK`, `OneEach`, `PagesAreTheirEngines`, `OwnServersAreLeftAlone` |
| `NothingIsOwedForGood` | `EndsAfterFamily`, `EnginesAreReached` |
| `ClientIsSound` | `CoreClient!TypeOK`, `NothingLeftOut`, `DisposedKnowsTheExit` |
| `RunIsHonest` | `RunTypeOK`, `VerdictIsRead`, `ClosedIsNotLost`, `EvidenceIsWhereItSays`, `NoHalfIsRead` |
| `CutsAreJust` | `EndedIsHandedOn`, `HungMeansQuiet`; `IdleMeansQuiet`, `AnothersStands` |
| `ClientsGoOn` | `EveryDisposeReturns`, `LinesAreRead`, `RunReturns` |
| `AnswersAreNewest` | `DateIsTheNewest`, `ResultIsTheNewest` |
| `NewestIsTaken` | `StartsWithTheNewest`, `TakenIsTheBuilder` |
| `RecordsAreTrue` | `PanelTypeOK`, `RecordedBeforeTheEnd`, `RecordIsItsOwn` |
| `ResultsStand` | `WorksIsWhole`, `FailureStands`, `ClosingLaunchesNothing`, `NothingSentAfterStop` |
| `EngineIsExact` | `WalkCounts` (`ShiftCounts`, `NearestIsNearest`, `FirstYearHolds`, `DegenerateHasAGap`), `StepsAreExact` (`EvalTypeOK`, `StepIsExact`, `RecordedIsCivil`, `ReachCoversTheJudged`, `BudgetHolds`), `DatesAreRight` |
| `NobodyWaitsForEver` | `AnswerEndsTheWait`, `EveryQuestionIsAnswered`, `EverySessionEnds` |
| `SoundContext` | `CdpTypeOK`, `OnTheClockOrSaid`, `OneCountAtATime`, `NoHookLeft` |
| `SoundPages` | `ClockTypeOK`, `PageIsThePanel`, `KeptNear`, `ElapsedIsLived` |
| `ClockForward` | `PerfGoesOn`, `WallIsMovedByJumps` |
| `SoundConnection` | `SocketTypeOK`, `MessagesComeInOrder`, `TheEndIsLast`, `TornIsTheLast`; `CallsTypeOK`, `TargetsComeInOrder`, `RepliesAreFound` |
| `SoundLaunch` | `LaunchTypeOK`, `LivingProfilesAreWhole`, `ResidueIsTrue`, `NothingRunsOn`, `HandoverIsTrue` |
| `EveryWaitEnds` | `CatchesUp`, `WritesReturn`, `ReaderEndsToo`, `CallsReturn`, `EveryStartEnds` |

What the properties excuse, and why each excuse is in the code or its comments:

* `NeverRunsBack` compares answers within one jump epoch on the wall: a jump is meant to move
  it. On the duration axes nothing is excused.
* An answer from a block in the middle of its zeroing is left out of
  `SessionRelease!NeverRunsBack`, since that answer is the case `OnlyOwnTime` of section 6.
* `DurationsGoOn` is asked where every watcher starts and the next core finds no process still
  being let go (`MaxFailures = 0`, `~ReclaimOvertakes`). Both are needed: a process whose block is
  taken before it has kept an anchor of its own has nothing but the real clock to fall back to
  (`tick64_or`), and that lies behind a session that ran fast.
* `UncoveredIsCounted` excuses a full registry (the session says so) and a slot that cannot be
  told from the child's: its pid, and no creation time (`Mistakable`).
* `CountedRanUncovered` excuses a load that outlasts the parent's wait (`Slow`): the child is
  counted and then signs in.
* `EndsUnderNobody` excuses a member the core could not watch, when it says so (`Said`), and a
  member without a creation time whose parent speaks for it with nothing (`Unvouched`): the process
  list names a stranger, or the parent's own slot was not read yet when the child's was.
* `LiveIsClaimed` excuses a detour that some callers go past (`oneWay`): it is on and stays
  unclaimed, which the comments at hook lib.rs 3305-3315 and 3521-3525 ask for.
* `NoHalfIsRead` permits a half of the evidence *beside* the report: `evidence_file::write` does
  not look at whether the removal after a failed write succeeded (run/evidence_file.rs 67-69).
  What bears the report's name is never a half, and a run that leaves one exits with no verdict.
* `ComesBack` and `WrittenIsNamed` excuse a member that does not let the core wait on it.
* `OwedIsTried` is asked of a watcher that looks after the install stored what is owed.
* `CompleteIsWhole` is asked of what the last list could name; what it could not is section 6.
* `OthersLeftAlone` excuses a value the tester changes after the core last looked (section 6).
* `KeptNear` is asked between rate changes (section 6).

## 4. Fairness

Nowhere is a kill, an end, a jump, a module's arrival, a caller, a key press or an answer from
outside assumed to come. What is assumed:

* `AnchorSeqlock`: a reader takes its next step, and the core takes the next step of a write it
  opened, or is dead; not that the core ever writes.
* `SessionRelease` adds that the watcher's thread runs once created, that a core that began to
  end ends, and that a core that began to take the block finishes it: straight code, no wait.
* `FamilyWatch`: a look goes on, and the heartbeat comes back, a bounded `recv_timeout` (core.rs
  499). Strong for the heartbeat, because polls and commands run in between and its deadline is
  kept apart from both.
* `UncoveredRing`: the poll comes again, and a thread with a claimed entry writes it unless its
  process ends. `CoverageSlot`: the loader call returns, and the watcher's timed wait ends.
* `SessionStart`: a core that is not killed takes its next step; its waits on the loader and on
  `install` end, each has a limit.
* `SessionLoop`: the reader and the loop are threads the system runs, and time passes.
* `EngineBridge`: the discovery thread runs, a connect ends by its deadline, the session's turns
  come.
* `CoreClient`: the read loop and the shutdown run, and a caller of dispose comes back from its
  wait. `RunDriver`: its thread, its loop and the close run, time passes, and a core that has
  said its last line leaves.
* `CdpRequests`: a page comes to its requests and the session to the answers; this is what
  `CatchesUp` is about, and a page whose scripts never end is covered by `OnTheClockOrSaid`.
  `DevToolsSocket`: the reader thread runs, and a write comes back by its timeout.
  `DevToolsCalls`: time passes for a call. `BrowserLaunch`: the core goes on.
* `StartMoment`, `Calculator`, `PanelSession`: the window's thread comes to what was posted to
  it, timers run out, and the one-shot engine returns, which it does by its own limit.

## 5. Hazards

`PROJECT.json` ("hazards") lists what is hard to test, each at its line, with the properties
that would catch it. One has no property: the writes that follow `live_cov` (hook lib.rs 1203)
may go into a slot of the next session, after a reclaim between the question and the write; the
code asks once and writes after; the worst is a bit or a count too many in somebody else's audit,
and the comment at `live_cov` rests on a measurement of that window.

Not in the list, since a comment accepts it: a live writer held still (a debugger) for longer than
SEQLOCK_READ_TRIES makes readers take fields as they stand (`WriterMayStall = TRUE` shows an axis
running back; the comment in `ctl` from line 1258). And a margin: `RELEASE_MARGIN_QUIT` covers the
distance between the watcher's clock reading and its publication, and the model takes the
watcher to publish within `Margin` of its reading (`Advance`).

## 6. Disagreements with the comments

Cases in which the code does something that a comment, a doc or a test says it does not. The
first has a run that keeps it; the others were met while modelling. Where a property is named, it
states what the comment says, and adding it to a run of its module shows the case.

**A stranger's process is ended** (`refused_stranger`, `OnlyTheApplication`). A child of the
refused family ends, a stranger is given its number, starts a process and ends as well: when the
list is taken nobody holds the number, so the stranger's process is confirmed as the family's
(comment at ending.rs 262, module doc from line 12).

The clock and its end:

* *A call answered from the zeroed block* (`OnlyOwnTime` with `ReclaimOvertakes`). The next
  core's `prepare` zeroes the block in no promised order, and the anchor lies before `core_pid`.
  A detour of a process that is being let go reads a zeroed anchor (with an even `seq`, which
  zeroing restores) and then still finds its own core's pid. The comment at hook lib.rs 933 takes
  the pid to be written last; that is so of `write_core_pid`, not of the zeroing before it. It
  takes a detour held up through the death of its core and the start of another, which the
  comment measures as out of reach today.
* *Overtaken lock.* `close_session` drops the lock with the session, before `ended` is written
  and the core exits. A second core may be inside the block while the first still lives; the
  comment at hook lib.rs 939-941 says it cannot already be inside when the first one dies
  (`core # "gone" => next.pc = "waiting"` fails with `ReclaimOvertakes`).
* *The start.* A core killed between zeroing a surviving block and writing its header makes the
  next core refuse it as a stranger's while the old application runs ("Stamped before the
  anchor, so anything that outlives this core is recognisable as ours"). `Reclaimed::DeadCore`
  ("a previous core had died") is also told when the previous core took the surviving block over
  and refused in order, since only the session's drop marks the end. `read_active_core_pid` may
  name the dead core of a block the live one has not zeroed yet. A target started outside a job
  whose core is killed in mid-load may join the next session and sign in there, suspended.

The family:

* *The session ends under a grandchild* (`LastsForTheFamily`). The heartbeat reads the registry
  first and waits on the members after. The launched process has ended. A member starts a child,
  the child signs in after the registry was read, and the member ends before it is waited on:
  the session ends by itself under the child. `others_alive` closes this race for the launched
  process by asking it first (comment at mech lib.rs 502), but not for a member. `close_session`
  folds once more, so the end is usually reported as `session.left_running`.
* *Turned-away child* (`Unvouched`, found by the proof of `NobodyIsForgotten`). `refresh_family` reads the registry slot by slot. A parent that signs in
  after its slot was read, with a child that signs in before its own slot is, leaves the child
  with an unknown parent. Without a recorded creation time the child is turned away for good,
  and the session can end under it. The comment at family.rs 239 takes a parent missing from the
  known pids for somebody else's. `EndsUnderNobody` excuses it, and `family_ends` runs into it:
  without the second half of `Unvouched` TLC shows the session ending under the child.
* *A search that settles too early* (`CompleteIsEverything`). `search` says of a list with
  nothing new that everything of the family still running had been ended already. A process in
  it is skipped when its listed parent had gone as it was asked, when an ended parent that never
  signed in orphaned it, or when it started between the reading of the time and the list.
* *A child after the final poll.* `read_all_coverage` reads the registry after the last `poll`:
  a child that signs in between gets a coverage event and is in neither `process_count` nor the
  family's verdict.

The audit:

* *Closed parent's ring entry.* A member that cannot be waited on counts as one that writes no
  more (`may_run`, family.rs 160), so its claimed entry is stepped over and the child written a
  moment later is never named (`ComesBack` without its excuse).
* *The watcher that looks too early.* A scan that returns because INSTALL_DONE is not set finds
  LATE_TODO still 0, and the watcher waits without limit: no late module is looked for. Only the
  loader, which keeps a new thread from running until `DllMain` returns, prevents this; the
  comment at hook lib.rs 654 takes the early watcher for a real hazard. The INSTALL_DONE test
  itself turns out not to matter for the masks: LATE_TODO is stored after them.
* *clock_clamped* is called sticky, and is sampled only at heartbeats and at the end.

The core and its clients:

* *`ended` is the last line* (CoreClient.cs). The thread that reads stdin may still say an error
  after it.
* *The driver's codes.* A core killed between `ended` (or a refusal's error) and its exit makes
  `chrono run` pass on the killer's code. A core that dies while a wait begun before runs on, its
  pipe held open by somebody else, ends as idle (6), not as lost (3; docs/08 section 8). The
  ceiling "honoured to the second" is not, while lines keep coming or the write of `--json`
  stands; and the wait for the core's exit after `ended` has no limit.
* *A registry value that changes hands* (`OnlyItsOwn`). "Only a value carrying the marker of a
  core that is gone is touched" (policy_value.rs 169): the tester changes the value between the
  scan and `recover_in`, whose removal goes ahead. A scan that cannot list the registry says
  nothing (`stale_names` returns an empty list).

The panel:

* *A Stop and its verdict.* After a Stop "the verdict and coverage already captured still stand"
  (SessionViewModel.cs 2181). A command refused in flight whose answer comes after the Stop falls
  to the second error case (line 1799 asks for `Running`): the status becomes an error, which is
  terminal, so `ended` is not looked at, and the stopped session is recorded as cut short, its
  verdict undetermined, although the core closed it (`TakeAnswer`, `EndedCounts`, `IsCutShort`).
* *The selected scenario* (`SelectionIsTheField`). A selection may stand beside a date that is
  not its own, with no error shown (doc of `CanStart`).
* *A changed zone with an unreadable amount.* `AskAgainInZone` with a relative request under way
  and the amount edited to something unreadable does not ask again: the old zone's date lands.
* *An error without id.* The panel's status becomes terminal while the core runs on; only a
  malformed command earns one, which the panel does not send.

The Chromium engines:

* *A late move while the first document is awaited* (`LateIsSaid`). A page that answers `late`
  before its first counts came back is not put into `missed`, and runs apart from the panel.
* *A release told as complete* (`ReleasedIsOff`). A hook is still on its way back when the release
  goes out; the page is let go of, then loads a document, which the hook puts on the session's
  clock; the hook is then found and removed, and the release is told as confirmed by all.
* *A correction beside a rate change* (`GivenAgain`). The rate change counts the pages as told of
  the system clock's new offset although it moved them for an instant on the old one: they stay
  apart by the correction until the next move.
* *A torn frame.* "A write that times out ends the connection" (ws.rs): after the reader's pong
  could not be finished the owner may still write a frame behind the torn one until it takes the
  end from the inbox, and the other way round. Nobody writes behind its own.
* *The bounded queue.* What `push_bounded` calls "a reply nobody waits for any more" can be one
  that a later command of a sequence will wait for; the call then runs into its deadline.
* *A browser without a job* that was handed over outlives the session; the residue then says that
  the profile was left.
* *The bridge's known ports.* An endpoint that replaces an older one of the same process on its
  port before a sweep sees the port free is never found; a find taken in the turn before the
  older attacher's end is pumped is dropped as known (the comment in `pump`: "a new endpoint for
  the same pages will be found as a new port"). A connection lost while the engine's socket stays
  is not made again, and not said, since the engine was reached once; a connect under way when
  the session ends is neither reached nor said.

## 7. What is proved

TLAPS proves the following for every value of the constants the modules' assumptions allow.

| Theorem | Module | For every |
|---|---|---|
| `TypeCorrect`: `Spec => []TypeOK` | `AnchorSeqlockProofs` | readers, rates, jumps, bounds, width |
| `NoAxisRunsBack`: `Spec => []NeverRunsBack` | `AnchorSeqlockProofs` | the same, if a live writer does not outlast the readers' patience (`~WriterMayStall`) |
| `AxesImplementTheSession`: `Spec => DurationsAreTheSession` | `AnchorSeqlockProofs` | the same; the refinement of `SessionAxis` by both duration axes |
| `DetoursHold`: `HookSpec => []DetoursAreTransparent` | `AnchorSeqlockProofs` | rates, lengths, limits, depth of APCs, a thread with storage or without |
| `DurationsNeverRunBack`: `Spec => []DurationsGoOn` | `SessionReleaseProofs` | processes, threads, multipliers, margin, `seq`, width, if every watcher starts and the next core waits (`MaxFailures = 0`, `~ReclaimOvertakes`) |
| `OwnTimeOnly`: `Spec => []NeverAnothersTime` | `SessionReleaseProofs` | all of these, with no such condition |
| `OneLine`: `Spec => []OneLineAfterTheEnd` | `SessionReleaseProofs` | the same |
| `StartSound`: `StartSpec => []StartIsSound` | `EvidenceProofs` | cores, and whichever of them may be killed |
| `RingSound`: `RingSpec => []RingIsSound` | `EvidenceProofs` | size of the ring, parents, threads, children |
| `AuditHonest`: `SlotSpec => []AuditIsHonest` | `EvidenceProofs` | startup and late channels, modules |
| `ClientSound`: `Spec => []ClientIsSound` | `ClientsProofs` | room in pipe and channel, limit, callers of dispose |
| `RunHonest`: `RunSpec => []RunIsHonest` | `ClientsProofs` | room in pipe and queue, limits, scratch names |
| `CutsJust`: `ClientsSpec => CutsAreJust` | `ClientsProofs` | all of these |
| `LoopKeepsTime`: `SessionSpec => []PromptLoop` | `SessionProofs` | heartbeat, child poll, lines waiting |
| `EndIsToldInFull`: `SessionSpec => []EndToldInFull` | `SessionProofs` | threshold, sleep |
| `PromiseIsKept`: `SessionSpec => PromiseKept` | `SessionProofs` | all of these; the refinement of `CoreOutput` |
| `RegistryHonest`: `SessionSpec => []NothingUnsaid` | `SessionProofs` | cores, kills, refusals, changes by others, levels of the path, values for every host |
| `OthersAreLeftAlone`: `SessionSpec => OthersLeftAlone` | `SessionProofs` | the same |
| `BridgeSound`: `SessionSpec => []SoundBridge` | `SessionProofs` | processes, ports, sockets, pages, patience of the discovery |
| `CountsHold`: `EndsSpec => []CountsAreTrue` | `FamilyProofs` | families, pids, slots, and whichever of the family are slow, closed, adopted or without a time |
| `NobodyHolds`: `EndsSpec => []NobodyIsForgotten` | `FamilyProofs` | the same |
| `SearchHolds`: `EndsSpec => []SearchIsSound` | `FamilyProofs` | families and strangers, numbers, rounds, rights |
| `RecordsHold`: `Spec => []RecordsAreTrue` | `PanelProofs` | sessions |
| `ResultsHold`: `Spec => ResultsStand` | `PanelProofs` | the same |
| `AnswersHold`: `Spec => []AnswersAreNewest` | `PanelProofs` | questions, edits, taps, moves of the clock |
| `NewestHolds`: `Spec => NewestIsTaken` | `PanelProofs` | the same |
| `LaunchHolds`: `ChromiumSpec => []SoundLaunch` | `ChromiumProofs` | attempts and limits of the waits |
| `ConnectionHolds`: `ChromiumSpec => []SoundConnection` | `ChromiumProofs` | messages, pings, room on the wire, in inbox and queue, calls |
| `PagesHold`: `ChromiumSpec => []SoundPages` | `ChromiumProofs` | rates, jumps, shifts of the system clock, sleeps, drift |
| `ClockHolds`: `ChromiumSpec => ClockForward` | `ChromiumProofs` | the same |
| `ContextHolds`: `ChromiumSpec => []SoundContext` | `ChromiumProofs` | moves, loads, sessions of one context |
| `NothingGoesBack`: `ChromiumSpec => NothingPutBack` | `ChromiumProofs` | the same |

The assumptions are those of the modules, all of which a run evaluates: sizes and limits are
numbers (positive where a zero would mean nothing), the wall's range is inside i64, rates, lengths
and shifts are numbers, and a model value that stands for nobody is nobody;
`CorePipeAssumption`, that the lines of a session are none of the words `CoreOutput` names itself;
and `PolicyAssumption`, that a marker in the tester's value for every host is of a core that was
gone before.
`RingSpec`, `SlotSpec`, `StartSpec`, `RunSpec` are the machines' own specifications; `evidence` and
`core_client` run the same next-state relations inside a sum.

No safety property compared here is inductive as it stands. Each proof module states its
invariant in named parts, which TLC has checked over the run's instance, and proves that it
holds at the start, that each action keeps it (one lemma per action or group of actions), and
that the property follows.

**The clock.** `NeverRunsBack` compares two answers, and says nothing of a reader that has loaded
half of its fields. `IInv` adds:

* `CoreInv`: `seq` is odd exactly while a live core has the block open; a base stored equals the
  one computed; only a dead core leaves a STUCK_SEQ.
* `ReaderInv`: what a reader has loaded is what the block holds, if `seq` is still the value it
  saw.
* every value answered, or computed and not yet answered, is `Reached`: at or below what the
  block would give now and, when a rate change has already frozen the axis, at or below the base
  it froze. The second half makes the intermediate states safe: between the first store and the
  last, the block holds mixtures of two anchors, which a killed core leaves for good. The proof
  shows that each of the eight stores leaves each mixture at or above what was answered; it needs
  the order bases, origins, rate of `full_anchor_stores`, and the precise clock of `rebase`.

The lemmas about the projections of `ClockMath` are at the head of `AnchorSeqlockProofs` and of
`SessionReleaseProofs`: each is in range, monotone in the clock, and at or above its base.

From `IInv`, and with `AxisInv` (the rate is one of the session's, no origin is ahead of the clock,
what a rate change has stored is what it computed), each duration axis implements `SessionAxis`. An
axis truly stands where its anchor in force says, which is the rate change's own from the instant
that change read the clock (`Held`), and the block's otherwise. One unit of real time is one unit
of the axis times the rate, up to the end of the range (`LineTicks`); the reading of the clock is
the one step that changes the rate, and leaves the axis where it stands (`LineStarts`); the stores
and the closing `seq` are no step of it at all. A kill is the one step that may move it, and by
`Reached` not below an answer.

**The detours.** `DetourInv` is about a stack of frames: which frame may stand above which
(`ShapeInv`), and that each runs for one application call, the nearest below it (`OwnerInv`). The
frame that lowered a flag is the one that raises it again (`KeepInv`), so which flag stands follows
from the frame on top (`FlagInv`). `TakenInv` then has what was made of the call so far: nothing
before its first detour has entered, counted and not divided while that one looks up the rate,
counted and divided once further up.

**The end.** `SInv` keeps the block, the anchors in it and in the processes, and the watchers: the
block is the first session's until its pid is zeroed; an anchor is never behind real time, nor from
a time to come; nothing of the next session's is held while the block is the first one's
(`OwnInv`); and an instant of release is later than the anchor it goes with (`WatchInv`), since no
rate changes once a core is gone. With the one anchor that an end in order leaves (`OneAnchor`),
at rate 1, the released line is the session's whenever the watcher woke (`RateOneLine`).
`LineInv` adds the calls. What a process was answered exceeds none of the lines it may still be
answered from (`Reached`): the block's, the one it kept, and the real clock where it kept none. A
call between its steps holds an anchor that is the block's or the one its process keeps or is about
to keep (`Agrees`), as long as its seq and its pid pass the tests still before it; and it has loaded
the instant, or read the clock no later than the instant (`CallInv`), where the two lines are one
(`BeforeRelease`). `Kept` says in one formula what a step leaves of the lines; the proof shows it of
each action, and of each call that it is carried by it.

**The start.** What carries it is the lock: whoever stands between the lock and the end of its
session is the only one there (`LockInv`), so the block a core has written is the block its target
reads (`BlockInv`). Around it: a target's life follows its core's steps (`LifeInv`), and the
loader thread what the core has read of it (`LoadInv`); a block without its magic has somebody
who makes it, or was killed at that (`FreshInv`); who refused met a stranger's block, or somebody
was killed (`RefusedInv`); and what is told of the session before is bound to that core's own
steps (`BeforeInv`). A kill keeps all of this only because the kernel frees the lock before the
dead core's target can go on, which the model has as a step of its own ("dying").

**The ring.** The frontier of the walk: below it every entry was named once, or is one nobody will
write any more (`PassedOver`); from it on none is named yet (`NamedBelow`). A parent that is said
not to run has ended (`MayRunIsTrue`), asked before the count is read, and one that ended writes
no more.

**The masks.** MinHook's queue agrees with what is on, except for what a scan has yet to try
(`QueueInv`), so that a scan's failure touches nothing an earlier one claimed; what is on and not
claimed is in the scan's hands, or is a detour that some callers go past (`LiveInv`); what is claimed
or about to be is on, and nobody goes past it (`ClaimInv`); what came late is in the late mask before it is in the
other (`LateInv`), which is the order of the two stores.

**The clients.** The stream: what the core wrote and the client has not taken in, wherever it
stands (in the pipe, the reading thread's hand, the queue, the loop's hand), numbered without a
gap from what was handed on (`Numbered`). Moving a line from one place to the next leaves it as
it is. For the driver, `HearInv` adds what its verdict rests on: the session's verdict is heard or
before its end in the stream (`JudgedFirst`), a core that refused says only its refusal
(`OnlyRefusal`), and idle time counts no more than the core's silence; `OverInv` says what a loop
that is over by itself has heard; `FolderInv` who owns the names beside the report, and that the one that is renamed over
it is whole: the loop gets to the rename only past a write that succeeded.

**The session loop.** `CadenceInv`: the time since a beat and the time left until the next make up
the heartbeat, and a tick more only where the loop is behind it; the same for the child poll. That
is what a command may not disturb, and why both deadlines are looked at after a command too.
`AnswerInv`: what is owed is what waits in the inbox, in the channel or in the loop's hand, counted.
`DueInv`: a move over a due time is in the ledger, or is the command in hand past its move and
before its note. `SleepInv`: what was told is what the ledger has. `OutInv` says which lines may
still wait to be written, from which every step is a step of `CoreOutput` or none (`PromiseStep`).

**The registry value.** The last marker of a value tells its writer, and a writer is on its way to
take it away, or dead, or over and has said that it stays (`Owned`). What a core saw holds until
somebody else changes the value (`Looked`, for the cores that are not `outdated`), from which
`OthersLeftAlone` follows step by step. A core that met a leftover has it taken away or said
(`Seen`). A core by itself has made the keys above those there were and no others (`KeysOf`), the
deepest of which is the next that it takes away again; that there is a deepest is by the
well-foundedness of the natural numbers (`Greatest`). The one step of a core that reaches into
another's is the removal of a key under a handle, which shuts it (`SetOrSame`).

**The bridge.** From a find to an attacher a port has one holder: a connect thread, or what it
came to, or the attacher (`OneInv`), which is why a look at the ports under way and at the
attachers is enough. A part of the accounts enters the engine it came through (`EntryInv`), and
every page so far is with one attacher or one closed part (`PageInv`); the accounts grow at their
end only, so an entry stays the engine it was. What a listener was asked is no more than the memory
has counted against its key, and what is still to ask is not spent (`AskInv`): that holds although
the table is older than the question, because a socket that takes the place of another has not been
asked.

**The family.** First the tree by itself. `ClaimsInv`: every claim was made once, and a slot is what
its one owner wrote into it, or empty; `LivesInv`: a number is had by one living process at a time;
`AccountsInv`: what the parent of a child that is out of its load has made of it. From these
`CountsAreTrue`. `TreeMoves` then says in one formula what a step of the tree may change under a
look of the core: it signs in, ends or starts, but takes no slot and no number from the living.
Against that stand the core's part: what it made of each slot (`WatchInv`), and that a look has met
every slot signed before it began, as far as it has come (`LookInv`). `BeatInv` and `CloseInv` carry
these to the two decisions: an end of the heartbeat's has asked whoever the launched process started
before it asked that process's own life, and the last question has asked everybody who was signed
in. The proof of `WatchInv` did not go through for one member: a child without a creation time whose
parent signs in between the reading of the parent's slot and of its own. TLC shows the session
ending under it; see *Turned-away child* in section 6.

**The search.** A number is had by one process at a time that exists (`NumbersInv`), and a process
from before the list is on it with its own parent (`ListInv`), so an entry of the list names the
process its number is now of, unless that one started later, which the code's time excludes
(`EntryInv`). What was confirmed is the family's (`OnlyOrphansAreTaken`), with `PeopleInv`: a
stranger's parent was a stranger when it started it. `PassInv` is the half of `CompleteIsWhole`: a
pass that brought nothing new leaves out nobody that could be confirmed.

**The panel.** `RecordInv` counts the records of each session against the step its run stands at;
`OwnInv` and `StreamInv` say that facts, record and verdict are of one session, and which facts a
stream that stands there has told; `StatusInv` which status may stand with them. The date field and
the calculator share `LatestAnswer`: an answer is `Sound` when what came back was begun after the
question it answers, and no run is both put aside and awaited. `RunsInv` says of every run that has
not come back which builder it was begun for, which is what makes a late one harmless; `ShownInv`
relates what is on the screen to the builder and the clock, from which `NewestIsTaken` follows.

**Chromium.** *The browser*: before it is started there is nothing of it (`StartInv`), a pid in use
is never swept and that of a living core is in use (`SweepInv`), and the end is told last
(`EndInv`). *The socket and the calls over it*: the messages the owner took, those in the inbox, the
reader's hand and the frames on the wire are one numbered stream (`TakenInv`, `WireInv`); who
stopped inside a frame does not come to write again (`TornInv`). A target event that was said and
not handled is parked in its order or told of as dropped (`TargetsInv`), and an answered command's
reply is in the queue, or something was dropped to make room (`AnsweredInv`).
*A page's clock*: what a page handed out it has measured, by its last reading or its last anchor
(`PageInv`), from which `performance.now` goes on. For what it shows, the panel's clocks are a
stream, from the one the page has taken to the one the panel runs on now, and each move on the way
leads from one to the next (`WayInv`). Here the proof corrected the model: `PageIsThePanel` is asked
while the system clock stands where it stood at the page's last whole clock *and stood there when
each move since was taken* (`steady`). A system clock shifted and shifted back may settle a
scheduled change early, which the run, with one shift, cannot reach.
*The requests to a context*: those under way are one line, the answered ones first, so a page that
takes one leaves it as it is. The order of the line (`Follows`) says that nothing moves a page
behind its release and that a hook is back before its move is out; every hook of the page is one
the session knows of, current, to be removed, unanswered or asked away (`HooksInv`); and unless the
session has said otherwise, the page follows, or what it needs for that is in the line
(`FollowedInv`).

Model-checked only:

* liveness, everywhere: `EveryCallReturns`, `NobodyIsHeld`, `NothingStaysUndone`,
  `NothingIsOwedForGood`, `ClientsGoOn`, `NobodyWaitsForEver`, `EveryWaitEnds`. Fairness and
  ENABLED are beyond the prover's reach.
* what recursive definitions compute: the folds of `HolidayCalendar` and `DateEvaluation`
  (`EngineIsExact`) over every input is an induction over data.

Every other property of a passing run has its theorem.

## 8. Plan

Done: the modules of section 2, the runs of section 3, and the theorems of section 7.

Modules that could follow: the tree under an elevated host (`tree.rs`), the HTTP before a DevTools
connection and the attaching of targets, the stored presets and their writes, and two sessions'
slots in one block, which would give the hazard at `live_cov` its property (section 5).

## 9. Not modelled

* Call counters in the slot: a plain load and store, by which two threads may lose a bump. It
  only under-counts, which `bump_calls` names as the direction of error the audit accepts.
* File times, local time zones and their detours: conversions of an answer modelled here; the
  zone is constant for a session.
* The tree under an elevated host (`tree.rs`), and the plan and arguments of a run.
* How DevTools sessions are attached to targets, the HTTP before a connection, the shim's own
  text beyond its clock and its counts.
* The rendering of a result, the reading of a pasted date, the files of calendars and presets,
  the panel's pages, translations, recent targets and stored history.
* Reports, the texts of evidence, documentation site, packaging, PE reader, grammar, zone names:
  formatting and parsing with no state machine.

## 10. Running it

From this directory: `tlc -workers 2 -config AnchorWall.cfg MCHookCalls`, and likewise for each
run of `PROJECT.json` ("module", "cfg"); the longest take a few minutes. `tlapm
AnchorSeqlockProofs.tla` checks the proofs of a module, and likewise for each `*Proofs`. From
nothing, `ChromiumProofs` takes about ten minutes, and `SessionProofs`, `AnchorSeqlockProofs` and
`EvidenceProofs` some minutes each.
