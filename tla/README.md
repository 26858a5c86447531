# HiCollie in TLA+

HiCollie (`src/`) is OpenHarmony's library for finding software timeouts and
blocked threads. One *watchdog thread* in each process runs periodic and
one-shot tasks from a priority queue; the tasks check that handlers still
answer, fire XCollie timers, sample the stack of a slow main thread, record
traces and report stuck applications. This directory specifies that library in
TLA+, model-checks it with TLC on small instances and proves, for every
instance, nearly all of its safety properties and both refinements with TLAPS.

A module is parsed with `tlasany M.tla`, a run is started with
`tlc -config X.cfg M`, and the proofs about module `M` are checked with
`tlapm M_proofs.tla`. `PROJECT.json` gives, for every
definition that models code, the lines it models; for every property of a
passing run, a plausible bug of the code that breaks it; and the hazards the
properties are for.

## 1. Inventory

File names are relative to `src/frameworks/native/` unless they say otherwise.

| Component | State | Operations | Interacts with |
|---|---|---|---|
| **Watchdog scheduler** (`watchdog_inner.cpp`, `watchdog.cpp`, `xcollie.cpp`, constructors of `watchdog_task.cpp`) | `checkerQueue_`, `taskNameSet_`, `curId`, `nextWeakUpTime_`, `isNeedStop_`, the condition variable | AddThread, RunOneShotTask, RunPeriodicalTask, SetTimer, CancelTimer, RemovePeriodicalTask, IPC-full set-up, Start (fetch, run, re-insert, wait), Stop | everything below is a task of its queue |
| **Handler checking** (`handler_checker.cpp`, `watchdog_task.cpp`) | `isCompleted_`, `taskSlow`, `nextTickTime`, low-memory globals | ScheduleCheck, GetCheckState, EvaluateCheckerState, Run | event handlers' threads, binder threads; ends the process |
| **Main-thread sampling** (`watchdog_inner.cpp`) | `stackContent_`, `startSlowContent_`, `scrollSlowContent_`, `g_isDumpStack`, `g_isReuseStack`, `g_freezeSampleCount`, the loaded library | CollectStack and the DistributeStart/End hooks, StartSample, StopSample, the three samplers' tasks | scheduler (drops a finished sampler), thread sampler library |
| **Thread sampler library** (`thread_sampler/`) | ring of unwind contexts, `writeIndex_`, `readIndex_`, list of stacks | Init, Sample, signal handler, ProcessStackBuffer, CollectStack, Deinit | signals to the main thread |
| **Sample stacks of warnings** (`watchdog_inner.cpp`, `sample_stack_map.cpp`) | `SampleStackMap`, the sample tasks, `taskIdCnt` | FFRT callback, warning and block reports, the sample task | scheduler names, watchdog thread and FFRT threads |
| **Timer counts** (`watchdog_inner.cpp`, `watchdog_task.cpp`) | `triggerTimes` of a task | SetTimerCount, TriggerTimerCount, TimerCountTask | callers' threads |
| **Trace profile** (`watchdog_inner.cpp`, `xcollie_ffrt_task.cpp`) | trace content, `openTraceCode_`, the FFRT queue | CollectTraceDetect, DumpTraceTask, StartTrace, DumpTrace | watchdog thread and FFRT queue |
| **Timeout reports and recovery** (`watchdog_task.cpp`, `watchdog_inner.cpp`) | `timeCallback_`, `cntCallback_`, the alarm, the exit thread | DoCallback, IsCallbackLimit, LeftTimeExitProcess | XCollie timers, the kernel's alarm |
| **Freeze callback** (`xcollie_mgr.cpp`, `src/interfaces/ndk/hicollie.cpp`) | `handler_`, `lastCallTime_`, shared memory of a call, the times of manual reports | SetHandler, GetFreezeLog, AssociateProcessReport | the application's handler in a worker thread |
| **Stuck detection** (`src/interfaces/ndk/hicollie.cpp`) | `g_stuckTimeout`, `g_backgroundReportCount`, `g_lastWatchTime` | Init_StuckDetection(WithTimeout), Report, NotifyAppFault | a periodic task, application state |
| **Application state** (`src/frameworks/app/`) | foreground, debug and similar flags | setters and getters | read by the components above |
| **Binder call chain** (`xcollie_utils.cpp`) | none; the kernel's table of transactions is read | GetBinderInfoString, ParseBinderCallChain, ParsePeerBinderPid, KillProcessByPid | reports of blocked handlers; kills another process |
| **Async binder space** (`watchdog_task.cpp`) | `reportCount` of the task | IsBinderSpaceInsufficient, AsyncBinderSpace | the kernel's buffer, filled by peers; ends the process or a peer |
| **Jank detection** (`watchdog_inner.cpp`, configuration in `xcollie_utils.cpp`) | `jankParamsMap`, `timeContent_`, `bussinessBeginTime_`, `stackContent_`, the registered threads | SetEventConfig, ConfigEventPolicy, UpdateJankParam, Init_JankDetection, DistributeStart/End, the session task | the main looper, registered threads, the scheduler |
| Process utilities, kill reasons, rust binding | – | – | not modelled, section 8 |

What is hard in this code:

* **The task in flight.** `FetchNextTask` takes the task out of the queue,
  the lock is released, the body runs, `ReInsertTaskIfNeed` puts a copy back.
  Meanwhile removal, cancellation, triggers and re-initialisation look at the
  queue and do not find the task.
* **Two mutexes around one wait.** The sleep is computed under `lock_` and
  waited for under another mutex, so that an insertion or Stop can fall between.
* **Names and ids.** A name is registered by insertion, kept during the run,
  and erased by removal, by a raised flag, by a counter or from another thread.
* **No locks at all** between the sampling thread and the signal handler, in
  the handler's check, in the flags the samplers share, in the jank
  parameters, in the manual report, and around `curId` when a sampler
  constructs its task.
* **Time.** Late ticks, windows, minutes, 32-bit milliseconds, alarms that are
  set back, clocks that count from boot.
* **Others that may never answer**: the handler's thread, the application's
  freeze handler, an FFRT queue.

What makes the parts correct is stated in section 4, next to the runs. The
hazards, each at its line, are in `PROJECT.json`.

## 2. Plan

Done, in this order: the scheduler (everything depends on it) with its proofs;
handler checking (it kills processes); main-thread sampling with the ring
buffer under it; sample stacks; timer counts; trace profile; timeout reports;
freeze callback; stuck detection; the binder call chain; the asynchronous
binder space; the five kinds of task together as `WatchdogTask::Run`; jank
detection with its configuration; the abstract TimerService and the proof that
the scheduler implements it; ids that are taken without the lock; seconds that
wrap.

Then the proofs: the scheduler with its refinement, the ring of the thread
sampler with its refinement, the freeze callback, the five kinds of
`WatchdogTask::Run`, stuck detection, the three samplers, sample stacks, jank
detection, the binder call chain, and the ids taken under the lock alone.
Section 6 has the theorems: every invariant, action property and refinement
that a passing run checks is proved.

Left: the wall clock of stuck detection set back.

The components meet in the watchdog thread. WatchdogScheduler has all kinds of
task with their bodies left out; WatchdogTask has one task with its body, by
instantiating the module of each of the five ways its `Run` can go; the other
modules have one kind of task, and of the scheduler the three steps fetch, run
and re-insert that WatchdogScheduler shows it to take. Two abstract
specifications say what others are promised: TimerService, which
WatchdogScheduler implements, and SampleLog, which ThreadSampler implements.

## 3. Modules and code

An action is a whole handler or the stretch of a thread between two points
where another thread can come in. Names of the source are kept, without the
trailing underscore. Histories (variables that no guard reads) serve
properties only and are marked as such.

* **WatchdogScheduler**. `checkerQueue` is a set of task records: the heap's
  order among equal ticks is unspecified, so any minimal task may be the top.
  Every public call is one action, as it holds `lock_` throughout; refusals
  (empty or known name, full queue) are part of it. The samplers' tasks are
  constructed without `lock_`, in three steps (`LoadId`, `StoreId`,
  `InsertSampler`), between which the other calls take ids: ids may be shared,
  and a cancellation takes every timer with its id. What tells tasks apart in
  properties is `key`, their number, which the code does not have. `pc` is the watchdog
  thread: the one-off registrations at its start, `FetchNextTask`, `Run`,
  `ReInsertTaskIfNeed`, the decision about the wait, the wait. `running`,
  `left`, `wnow` are locals of `Start()`. The body of a task is abstracted to
  what it does to the scheduler: raising its flag (samplers), erasing its name
  (sample stacks). Timeouts pass through `% UINT_MOD`, as the constructor's
  `unsigned int` does.
* **SchedulerRemoval**. The same, with the names that callers have removed
  (history `removed`): a removal that finds nothing changes nothing in the
  scheduler, but its caller takes the task for removed.
* **TimerService**. What callers of SetTimer, CancelTimer and RunOneShotTask are
  promised: a timer waits until it fires, once and not early, or its id is cancelled,
  or it is removed by its name, or the service is stopped. No thread, queue, name
  set or sleep; timers may share an id.
  WatchdogScheduler instantiates it with its one-shot tasks as the timers
  waiting.
* **TaskIds**. `id = ++curId` as a load and a store, by threads that set timers
  under `lock_` and by samplers that construct their task without it.
* **WatchdogTask**. `WatchdogTask::Run`: the constructor decides which of five
  ways it goes. It instantiates HandlerCheck, TimerCount, BinderSpace,
  TimeoutReport and TraceProfile; a behaviour is that of one task.
* **HandlerCheck**. One watched handler; `config` fixes what kind of task and
  process it is. `CheckTask` is the handler's thread, `Hang` is its last step,
  `RunLate`, `Evaluate` and `ScheduleCheck` are the watchdog thread's tick, in
  the code's order, with the low-memory strategy and the exit. In a build with
  `SUSPEND_CHECK_ENABLE` (`suspend`) a check may be skipped for sleep of the
  system, and the threshold that forgets a late check is its fixed 2000 ms.
* **MainThreadSampling**. The jank, slow-start and freeze samplers as state
  machines on their counters and flags; `FetchNextTask` drops a finished top,
  a `TRACE_CHECKER` too, and runs the second top unchecked. How long events take, elapsed periods and
  file contents are free choices. `active` says what a process uses.
* **ThreadSampler / SampleLog**. The ring of contexts: the requesting thread,
  the signal with its delay, the handler in three steps, and the reader's
  stores one by one. A session may begin while a signal of the one before is
  pending (`stray`). SampleLog is the promise: a first-in-first-out log.
* **SampleStack**. `SampleStackMap` with its slots, expiry and size limit, the
  sample task, FFRT callbacks on their own threads and handler warnings on the
  watchdog thread. A name longer than `MAX_NAME_SIZE` is cut when it is
  registered and not cut when it is erased.
* **TimerCount**. Trigger and cancel in any state of the task, evaluation and
  trimming of the list.
* **TraceProfile**. The trace content, the watchdog task and the serial FFRT
  queue that opens and dumps traces, either of which may fail.
* **BinderSpace**. The looks at the buffer for one-way calls and the three
  thresholds of their count; the buffer is filled and emptied freely until
  nobody empties it any more.
* **TimeoutReport**. `DoCallback` with the limit, the alarm and the exit
  thread.
* **JankDetection**. The maps of the two configuration calls with missing, empty
  and invalid values; `UpdateJankParam` writes key by key while events end;
  DistributeEnd is cut where another thread can come in (test, claim, reading
  of the count with insertion); the session task. Where MainThreadSampling has
  three samplers and free choices for the events, this module has the events,
  the parameters and one sampler; in processes with other tasks (`others`) a
  finished session may run once more behind a dropped one of them.
* **FreezeLog**. Every call is a thread; the worker that calls the handler is
  another; the limit, the reading of the handler, mmap, the wait and the manual
  report's two steps interleave.
* **StuckReport**. The NDK's globals, the periodic task in five states, the
  application's callback that alternates 3S and 6S, moves between foreground
  and background. Several threads set the detection up, change it and stop it;
  nothing is held across a call, whose steps (removal, store, registration)
  interleave with those of other calls and with the task. The registration may
  be refused for a full queue, which nobody looks at. A step joins consecutive
  stores of one call; all callers pass the same task.
* **BinderChain**. The lines of the kernel's table are read one by one, any
  table that can exist, also with transactions no thread has taken up yet (the
  server's thread is 0). `ParsePeerBinderPid` reads the table anew, before the
  kill: by then transactions have ended and others begun. `ParseBinderCallChain` calls itself from a loop over a
  process's transactions; a step is one turn of such a loop, and `todo` is what
  the loops under way have still to look at, the innermost first. Sorting is
  any order `std::sort` may leave. The reference definitions (processes and
  threads reached in the graph of waits, each as the least closed set) stand
  beside the properties and share nothing with the search.
* **…_proofs**. The invariants, lemmas and theorems of section 6, one module for
  each module proved about, except that WatchdogTask_proofs has the five modules
  that WatchdogTask instantiates, ReportContents_proofs has FreezeLog and
  BinderChain, the two sources of a report's contents, and
  WatchdogScheduler_proofs has TaskIds too.
* **MC…**. Instances for TLC; MCWatchdogTask, MCSampling, MCBinderChain and
  MCJankDetection define the configurations checked.

Atomics are taken to be sequentially consistent. Time is a bounded clock where
absolute times matter (scheduler, timer counts, traces, sample stacks) and
relative, saturating at the value beyond which the code makes no difference,
elsewhere: there behaviours are infinite and the runs need no horizon.

## 4. Runs

| Run | Distinct states | Checks |
|---|---|---|
| `scheduler` | 249 267 | TypeOK, NamesOwned, CapacityBound, SleeperNotified, TimerContract, EveryTickServed, StopReturns |
| `scheduler_removal` | (violation) | RemovalIsFinal |
| `task_ids` | (violation) | CancelHitsOwn |
| `watchdog_task` | 303 671 | BlockEarned, HangIsFound, ReportsExact, KillEarned, CloggedKills, ReportRate, RecoveryExits, OneDumpPerDay, DumpHasOpenTrace, SessionEnds |
| `jank_detection` | 4 319 684 | SessionFits, BudgetPerPeriod, JankHasCause |
| `sampling` | 156 293 | GateMatchesTask, LastOneUnloads, BudgetKept, SessionEnds |
| `thread_sampler` | 15 640 | ReaderOwnsSlot, LogSpec |
| `sample_stack` | 133 109 | SampleOnce, NameHasTask, SamplingEnds |
| `freeze_log` | 66 498 | AskedOnce, ReportsRare, CallReturns |
| `binder_chain` | 2 442 420 | SyncPidsExact, TerminalIsLast, VictimIsAwaited |
| `stuck_report` | 1 150 832 | BackgroundGrace, SixAfterThree, TaskMatchesTimeout, StuckKills |
| `stuck_timeout_range` | (violation) | OutOfRangeRefused |

**scheduler.** A user name, a sample-stack name and a sampler name, timers,
one-shot and periodic tasks, the IPC-full and the kick task and Stop, in every
interleaving with the thread and with the construction of a sampler's task
outside `lock_`. A name belongs to one task
as long as the task may come back; queue and task in flight exceed
`MAX_WATCH_NUM` by one at most, though re-insertion ignores the limit; a
sleeping thread is woken for a tick before the end of its sleep; the scheduler
implements TimerService: a timer fires once, not early, and not after a
cancellation found it waiting, whoever shares its id.
A due tick is served, and Stop
returns, in spite of notifications that are lost between the computation of the
sleep and the wait: a loss costs a delay, up to the end of the planned sleep,
never starvation. Bounds: three tasks (`MaxTasks` and the kick task) are enough to
compete for a name and for a place and to be inserted while the thread sleeps.
With `MAX_WATCH_NUM = 1` the queue is full at once, and holds two tasks when
one in flight is re-inserted beside another: the overshoot, and the second top
of FetchNextTask. The horizon exceeds delay and interval, so that tasks are
due and re-inserted; a task that is late by more than two intervals, for which
it is too short, is left to the proofs. What does not depend on fairness is proved for every
value of the constants (section 6).

**scheduler_removal.** `watchdog.h` documents RemovePeriodicalTask as "Remove a
periodical task by name". The invariant says that no task of a name that was
removed, and not registered since, waits for its next run. A task that is
running at the moment of the removal is not in the queue: the removal finds
nothing and the task is put back. TLC's trace ends with just these three steps:
the task is fetched, its name is removed in vain, the task is re-inserted. The
violations are the findings of `PROJECT.json`.

**task_ids.** Two callers set timers, which takes `lock_`, while a sampler
constructs its task without it. The sampler loads `curId`, the timers take the
next ids, the sampler stores its own: the counter is set back, a timer gets an
id that is in use, and the cancellation of one timer takes away both
(`CancelTimer` promises "id: timer id", the id SetTimer returned). Three threads
are the least for it; two timers must overlap with one construction.

**watchdog_task.** One task of each kind.
*A watched handler*, in all configurations, with late ticks: a block is preceded
by a warning about the same check and comes two intervals after the posting less
the lateness of the posting tick; a hang is found and ends the process, which
low memory postpones and does not cancel. `CheckInterval = 2` has a half
interval; the windows 3 and 4 are each longer than an interval and end at
different ticks.
*A timer count*: six triggers, more than the trimming threshold of four. Exactly
the bursts of recorded triggers are reported although the list is trimmed.
*The binder space*, with and without callback and recovery, as the foundation
process and under debug: a kill follows as many bad looks in a row as
the count asks for, and after a warning among them if the task has a callback or
`XCOLLIE_FLAG_LOG` (a task with neither kills without one), and a buffer that
stays full does end the process or a peer. The counts 2 and 3 have the half 1, once as half and
once rounded; the multiple 3 keeps half, full and last apart.
*A timeout*: four kinds of process, four kinds of timer, any times. No window
holds more than the limit plus one reports, also across two windows; a recovery
once begun ends a process that is not debugged, although later timeouts set the
alarm back. Delay, alarm and window are pairwise different and keep their order.
*A trace session*: three sessions over two days. Dumps of two sessions are a day
apart; a dump belongs to an opened trace of its own session; a session ends.

**jank_detection.** A process whose parameters are changed twice by any of eight
valid and invalid calls, two whose system parameter overrides the report times,
the first of them and a third one with other samplers' tasks in the queue, one
with a thread that comes and goes, one with two registered threads; in two of
them the sessions of an hour are limited. What the
range checks accept keeps a session within `MAX_SAMPLE_STACK_TIMES`, though
count and interval are checked against each other by a division; each session
has a slow event as its cause, though threads share one begin time; sessions
less than a period apart stay within the budget, though it is set by whichever
call comes first, and exceed it by no more than the finished sessions that
collected again behind a dropped task of another sampler (`again`). Six ticks for three samples and two quiet ones are the code's
limit scaled down; interval 2 divides it and leaves one sample at most. One more report
of a finished session (`MaxAgain`) is enough to see whether it is counted.

**sampling.** Each sampler alone, in a process with room for its task or
without, with StopSample, started by two threads, beside a trace task, and
pairs. The jank gate is down exactly while there
is a task to raise it; budgets are kept, except beside the freeze sampler and
where jank sampler and both slow-start contents are in use (section 7); a
sampler that is alone ends its sessions and unloads the library. All three leave
out what follows a finished sampler that ran again behind a dropped trace task
(`behindTrace`), which breaks each of them. Counts of two are the least at which first,
middle and last sample differ.

**thread_sampler.** Ring of two slots as in the code, six snapshots (three
times round), up to three pending signals. The reader never holds a slot that
the handler writes, and the list of stacks is the FIFO log SampleLog promises
(refinement), in every session that does not begin with an old signal pending.

**sample_stack.** Two FFRT keys (one too long) and a handler key compete for
two slots. A stack is reported at most once; a registered name has a task; a
task whose name was not cut ends.

**freeze_log.** Three concurrent calls of one type and of an invalid one, on a
machine booted less than a minute ago or longer. One call at most is on its way
to the handler; every call returns though the handler hangs; a manual report
that begins after another was accepted is refused for the minute. Types have
separate slots and do not interact, so one is enough.

**stuck_report.** A thread that calls `Init_StuckDetection` and one that calls
`Init_StuckDetectionWithTimeout`, with timeouts in and out of range, at any
moment and also both at once, with registrations refused at will; a first tick after 1, intervals of 2 and 3 and a lateness
of 1 at most, so that a restart can bring the 6S forward and a late tick
shorten an interval. Two callers are the least that overlap. In the background reports are held back
until the count is reached; 6S comes after the 3S of the same
stall, by an interval less the lateness or by the delay of a restarted task;
after a call that was by itself, whatever earlier calls left behind, the task has
the interval in force, or is missing because it was refused; a thread that stays
stuck while it has its task gets its application ended. A timeout without a task is a
state of the code: Init returns success.

**stuck_timeout_range.** The same module, with a second of ten milliseconds, a
word of ten bits and 107 seconds among those asked for: 1070 milliseconds wrap
to 46, which lies between 30 and 150. In the code 4294971 seconds become
3704 milliseconds. `hicollie.h` documents an argument beyond 15 seconds as
invalid; it is accepted.

**binder_chain.** Tables of up to four lines over this process, an application
(two threads each) and a service, and transactions that no thread of the
application has taken up. The report is about no thread in particular. The report names exactly the processes waited
for, also in cycles; the thread named as the end of the chain is on
the chain, and is its end when chains do not meet; a process that is killed
keeps a thread of this process waiting for long enough by the second reading, and is named in
the report if that transaction was in the first. Four lines hold a chain through all processes, a cycle beside it and a
thread that hides another's chain; three processes are one more than the two
that are listed.

The type invariant is checked for the scheduler, whose proofs rest on it; in
the other runs the properties themselves go through every variable.

Deadlock is checked in the runs of the scheduler, `sampling`, `thread_sampler` and
`jank_detection`: there calls from outside (a cancellation, say, which may find nothing) are
possible in every state. The other configurations switch it off: a process that
ended, a clock at its horizon or a used-up bound is a state in which the model
really stops.

## 5. Fairness

* The watchdog thread is scheduled and task bodies return (WF of its steps): it
  is an ordinary thread and blocks only in its own wait. A body that hangs
  stops every HiCollie function of the process; that is outside the model.
* The clock advances (WF of `Tick`).
* `SF` of fetching one particular task (sampling, sample stacks) and of
  dropping the trace task: the queue is ordered by `nextTickTime`, re-insertion
  moves a task behind the present, hence no task is overtaken for ever. In
  HandlerCheck (stated in WatchdogTask), `SF` of `Evaluate` says that it does not happen at every single tick
  that the thread is late by more than two intervals, or that the
  system slept (such ticks are skipped).
* WatchdogTask states the fairness of each kind of task for that kind; the
  binder space needs the looks of the watchdog thread only.
* A call that has begun goes on to its end (Stop, StartSample, StopSample,
  every caller of stuck detection, freeze calls).
* Nothing is assumed of others: the handler's thread, the freeze handler and
  its worker, the business thread, the FFRT queue, and no caller has to call.

## 6. Proofs

Every theorem holds for every value of the constants within the assumptions
named below it: any number of threads, keys, slots, tasks and samples, any
interval, limit and budget, any table of binder transactions.

| Module (`…_proofs`) | Theorem | Statement |
|---|---|---|
| WatchdogScheduler | TypeCorrect | `Spec => []TypeOK`, which includes that the thread holds a task exactly between fetch and re-insertion |
| | CapacityHolds | `Spec => []CapacityBound` |
| | NamesHold | `Spec => []NamesOwned` |
| | SleeperIsNotified | `Spec => []SleeperNotified` |
| | TimersRefined | `DelaysFit => (Spec => TimerContract)`, the specification of TimerService under the refinement mapping |
| | LockSuffices | `Ids!Spec => Ids!CancelHitsOwn` (action property): TaskIds without samplers |
| ThreadSampler | ReaderOwns | `Spec => []ReaderOwnsSlot` |
| | RingImplementsLog | `Spec => LogSpec`, the specification of SampleLog under the refinement mapping |
| ReportContents | OneAsks | `Spec => []AskedOnce` |
| | ReportsAreRare | `Spec => []ReportsRare` |
| | PidsAreExact | `ChainSpec => []SyncPidsExact` |
| | EndIsLast | `ChainSpec => []TerminalIsLast` |
| | VictimWasAwaited | `ChainSpec => []VictimIsAwaited` |
| | WorstAreNamed | `ChainSpec => []WorstNamed` |
| WatchdogTask | BlockIsEarned | `Spec => BlockEarned` (action property) |
| | KillIsEarned | `Spec => KillEarned` (action property) |
| | ReportsAreExact | `Spec => []ReportsExact` |
| | RateIsBounded | `Spec => []ReportRate` |
| | DumpsAreRare | `Spec => []OneDumpPerDay` |
| | DumpIsOpened | `Spec => []DumpHasOpenTrace` |
| StuckReport | TaskFits | `Spec => []TaskMatchesTimeout` |
| | GraceIsGiven | `Spec => []BackgroundGrace` |
| | WarningComesFirst | `Spec => []SixAfterThree` |
| MainThreadSampling | GateFits | `Spec => []GateMatchesTask` |
| | LibraryIsUnloaded | `Spec => []LastOneUnloads` |
| | BudgetIsKept | `Spec => []BudgetKept` |
| SampleStack | NamesHaveTasks | `Spec => []NameHasTask` |
| | StacksGoOnce | `Spec => []SampleOnce` |
| JankDetection | SessionsFit | `Spec => []SessionFits` |
| | BudgetsHold | `Spec => []BudgetPerPeriod` |
| | SessionsHaveCause | `Spec => JankHasCause` (action property) |

### WatchdogScheduler

Assumptions: `ConstantsAssumption` (numbers are naturals, intervals and limits
positive), `NamesAssumption` (user, sample-stack, sampler and built-in names
are different) and, for TimersRefined, `DelaysFit`: the delays asked for are below
2^32 milliseconds. Without it the theorem is false, as a timeout is cut to 32
bits and fires early. NamesAssumption is what the code's callers do, not what
the code enforces.

`NextIsSteps` reads the next-state relation as few kinds of
step: an insertion of a *fresh* task (the next key, a shape that fits
its kind), a step of the ids (`IdStep`), a removal, the thread's steps, Stop, time. TypeOK is inductive with
this. CapacityBound is inductive relative to TypeOK: an insertion is accepted
below the limit only, counting the queue, and a fetch moves one task from one
summand to the other. For the rest the inductive invariant `IInv` is

* UniqueKeys: keys of live tasks are at most `keys` and different;
* the shape of one-shot tasks (interval 0, and under DelaysFit due by their
  tick);
* NamesOwned;
* Pending: `wnow <= now`, keys that ran or were cancelled are at most `keys`,
  and no waiting one-shot task has run or been cancelled.

Nothing is known, or needed, of ids: what a key is to a theorem is the
identity of a task object. None of these is inductive alone. That a fetch of a timer is a step `Fire` of
TimerService needs that a waiting task has neither run nor been cancelled, which
needs that a fresh key is not one that ran, and that the local `now` that released
the task is not ahead of the clock; NamesOwned must span queue and task in
flight, since re-insertion does not look at names that others own. Then each
kind of step is shown to be one of TimerService or to leave it alone
(`PushRefines`, `FetchRefines`, `ReInsertRefines`, `CancelRefines`): an insertion
is `Set` or `Refuse`, a fetch is `Fire` or a stutter, re-insertion never brings a
one-shot task back, and a cancellation is `Cancel` of all timers that wait under
the id. `TimerStep` collects them.
SleeperNotified needs UniqueKeys only: when the wait begins every key in the queue
is old, and an insertion that does not wake the thread is of a task that can
wait.

TaskIds, where `id = ++curId` is a load and a store, shows both sides of sharing ids:
with samplers, which construct outside the lock, `task_ids` has the
counterexample to CancelHitsOwn; without them LockSuffices proves it for any
number of callers (assumption: `NoCaller`, the free lock, is no caller). The
invariant `IdInv` says that who constructs holds the lock and has the counter in
its register, that the id about to be inserted is in no task and in no caller's
hands, and that a waiting timer with a caller's id is that caller's.

### ThreadSampler

Assumption: the ring has a slot. In a session without an old signal the two
indexes are two counters modulo the size of the ring, the snapshots `T` and the
slots `R` taken over by the reader (lemmas `PosAfter`, `PosWraps`, `PosDiffers`).
`IInv` says of each of the N places from `R` on what its slot holds: filled,
being filled, free, or held by the reader, which is always the last of them.
From this follow both theorems; the abstract log is what lies between `R` and
`T`, and a step of the ring is `Take`, `Unwind`, `NewSession` or a stutter (`StepIsLogged`).

### FreezeLog

Assumption: the handler is waited for no longer than the limit of a type
(`CALLBACK_WAIT_TIME <= ReportInterval`; the code has 1 and 60 seconds). No lock
is held from the limit to the end of the wait: what keeps two threads apart is
that one is gone before the limit lets the next one in. The invariant (`Stamped`)
ties the rest of a thread's wait to the age of the stamp it left; for the manual
reports it says that the time the limit goes by is no older than the last
accepted report (`NoOlder`).

### BinderChain

Assumptions (`BinderChainAssumption`): there are finitely many threads, their
pids and tids are positive, this process is one of them, waits and spaces are
naturals. The table is any that the lines read can build, up to any length.

The search marks a process before it looks behind it, in one set shared by the
calls that look for the end of the chain and those that do not. The invariant
`ChainInv` therefore speaks of the work still to be done:

* `TableInv`: the transactions of a process are its threads', one for each.
* `SearchOK`: what is found is waited for; everything a found process waits for
  is found or in `todo`. When `todo` is empty the found set is closed, hence
  contains the least closed set, which is what SyncPidsExact compares it with.
* `ApartOK` and `SingleOK`, the two conditions of TerminalIsLast: the transaction
  of the last end is in `todo`, marked to look for the end and ahead of every
  look without the mark (`Ahead`); its server is not found yet, or, with one
  waiting thread for each process, everything found leads to it. Without the
  order the claim is not inductive: the look without the mark would find the
  server first and hide the rest of the chain.
* `VictimInv`: the process killed is the server of a line of the second reading,
  in which this process waits. That the report names it is SyncPidsExact, used
  for the lines that were in the first.

WorstAreNamed has an invariant of its own (`AsyncInv`): a sorted order of a
finite set is a bijection (`OrderIs`), so that who is cut off comes after two who
are named. WorstNamed is in no run.

### WatchdogTask

A step of the task is one of each part, or leaves the part alone (`PartsNext`),
so that a property of a part is proved from the part's specification.

* *Handler* (`HandlerInv`): an unanswered check is as old as the ticks that
  looked at it say, and one interval more if it was seen slow.
* *Binder space* (`BinderInv`): the count never runs ahead of the bad looks in a
  row, and half of it was not passed without the warning the task asks for
  (`Warns`: it has a callback or `XCOLLIE_FLAG_LOG`).
* *Timer count* (`CountInv`): the list is a suffix of all recorded triggers
  (`ListIsSuffix`), and none of those trimmed away begins a burst.
* *Timeout reports* (`RateInv`): the recent reports are no more than
  `cntCallback` allowed in all, and one more only if the report that opened the
  window is among them; when the window is over, that one has left the history.
* *Trace* (`DumpInv`, `QueueInv`): while the task of a session is alive the
  session is today's, and a dump is of that session or a day older than its
  begin; the jobs wait in the order of their sessions, each start before its
  dump, and an open trace belongs to the session whose jobs come next
  (`QueueOK`).

### StuckReport

Assumptions: `CHECK_INTERVAL_TIME <= MAX_TIMEOUT`, as in both builds, and a
lateness of two intervals at most, beyond which a run is skipped.
`TaskInv` is about a call that overlaps no other and has met no running task
(`~raced`): it is the only call, between its steps the name is free, and
the timeout is what it has stored. A call that was raced spoils
that, and the next one by itself restores it, as its removal finds whatever task
there is. `GraceInv`: the count of the code never
gets ahead of the stuck checks in a row, because its age runs from before the
last of them. `WarnInv`: after a 3S the next look is not due before `LeastDelay`
is over; the attempt showed that this is `INI_TIMER_FIRST_SECOND` after a
restart, which the property now says.

### MainThreadSampling

`Shape` is types and who is in use. `JankInv`: one jank session at a time,
whose counters are reset before it is registered, and the gate is down while
there is one or one is being registered. `AppInv`: who collects needs the
library, and with one slow-start content its sessions exclude each other.
`UnloadInv`: a sampler that is alone is the one that collects, and not when its
flag is up, unless a dropped trace task made a finished one run again
(`behindTrace`), as in every part that follows. `JankBudget`, `AppBudget`: a registered session has a report left, or
is spent (`JankSpent`, `AppSpent`): its first tick is over and the thread runs it
only with the library unloaded, so that the extra run of a second top reports
nothing.

### SampleStack

`TasksOK` and NameHasTask are inductive together: a name is registered with its
task and leaves with it, and the task that is running keeps the name. For
SampleOnce, `StackOnce` adds that every stack that exists was taken before, so that the next
one is in no slot, no hand and no report; `RemoveIs` and `SetIs` say what the map does.

### JankDetection

Assumptions (`JankAssumption`): the limits are naturals, the defaults fit their
own check, there is room for the quiet ticks
(`SAMPLE_EXTRA_COUNT >= DETECT_STACK_COUNT`), and the entries of the system
parameter are numbers or skipped, since the code accepts digits only.

* `ConfigInv`: interval and count fit together when `UpdateJankParam` is not
  between its writes of the two; a call that saw no write has the interval in
  force. `QuotientFits` turns the division of the check into the product of the
  property.
* `SessionInv`: unless two threads overlapped, the thread on its way to a
  session, the gate and the session exclude each other, and detector and sample
  counters count the ticks; a finished session that runs again may leave the
  process marked as collecting (`leftover`).
* `BudgetInv`: the reports so far, less those of finished sessions that ran
  again (`Regular`), and those still allowed stay within the
  budget, except between the renewal of the budget and the claim that begins a
  new count. That gap is why the budget alone is not inductive.
* `CauseInv`: the shared stamps are never older than the event of any thread,
  and what they say of the last event is so.

### Only model-checked

Liveness and fairness (EveryTickServed, StopReturns, HangIsFound, CloggedKills,
RecoveryExits, StuckKills, CallReturns, SamplingEnds and both SessionEnds), which
the prover does not reach. The three violations (RemovalIsFinal, CancelHitsOwn
with samplers, OutOfRangeRefused) are counterexamples.

## 7. Known limits of the program that the properties spell out

The properties carry a condition where the code does not do more. These are
behaviours the model has and the code has:

* Removal, cancellation, trigger and re-initialisation miss the task that is
  running (RemovalIsFinal; `raced` in TaskMatchesTimeout; the unrecorded
  triggers of TimerCount).
* With two samplers in use, a finished one that is the second top runs once
  more and may begin a new session; SessionEnds and LastOneUnloads hold for a
  sampler that is alone, BudgetKept without the freeze sampler.
* A dropped `TRACE_CHECKER` has the same effect on a sampler that is alone
  (`behindTrace`): a slow-start session run again leaves `g_isDumpStack` set, a
  jank session reports twice (`again` in BudgetPerPeriod), a freeze session never ends.
  A jank session that had given up, because someone else collected, begins to collect when it is run
  again and is dropped before it is done: no jank is sampled any more
  (`leftover` in SessionFits).
* The end of a slow-start session of one content enables the other content,
  whose session may just have begun. A second session of that content can then
  be registered when the first ends, with the first one's counts; if the jank
  sampler has the library loaded, it reports at once, beyond its budget.
  BudgetKept therefore leaves out processes with the jank sampler and both
  contents; the attempt to prove it without that condition found the behaviour,
  and TLC has a trace of 22 states.
* Init of stuck detection stores the timeout and does not look at the result of
  the registration: when the queue is full the timeout is set, there is no task,
  and Init returns success (`refused`). Calls that overlap may leave a task with
  another interval, or none (`raced`), until a later call by itself.
* The process killed in place of this one may be one whose transaction began
  after the report was made, and which the report does not name
  (`line.old` in VictimIsAwaited).
* An asynchronous-binder task with neither callback nor `XCOLLIE_FLAG_LOG` ends the
  process without a warning (`Warns` in KillEarned).
* Stuck detection that is started anew between a 3S and its 6S reports the 6S
  after `INI_TIMER_FIRST_SECOND` instead of an interval (`LeastDelay`).
* When two threads call StartSample, the one whose check came first may set the
  count of the other's running session to 0. The session then finds
  `g_isDumpStack`, which it has set itself, takes it for another sampler's, and
  waits for ever; jank sampling stays off with it (`resets` in SessionEnds).
* A jank session refused for want of room leaves its gate down: no more
  sampling in that process (GateMatchesTask excludes crowded processes).
* Tasks constructed outside `lock_` may take ids that others have, so that
  callers' timers may share one (`task_ids`); TimerContract says that they are cancelled together.
* A jank session that begins while its parameters change may combine an old
  interval with a new count (`whole`), and two threads whose slow events end
  together may start one session between them (`overlap`): SessionFits and
  BudgetPerPeriod leave those out. Registering takes the watcher of the main
  thread away in the middle of an event, which then never ends for the code
  (`cut` in JankHasCause).
* A signal that arrives in the next session shifts the ring (`stray`). Indexes
  start at zero in each session only because `dlclose` is taken to unload the
  library, which resets its statics.
* A sample task whose name was cut never ends.
* `cntCallback_` is never set back within a process, so that later windows may
  be silenced; ReportRate is an upper bound only. The alarm also ends a process
  that the exit thread would spare because it is debugged.
* Two manual reports whose checks overlap may both be accepted; the minute of a
  freeze type is used up even when there is no handler to ask.
* The end of a binder chain is missed when another thread's chain has led to
  one of its processes before.
* Seconds are multiplied by 1000 in 32 bits before the range check
  (OutOfRangeRefused).

## 8. Not modelled

* The file that configures the sampling of application starts, and the text of
  configurations: a value is a number, empty or invalid. The limits of the start
  samplers are constants of MainThreadSampling.
* The files that samplers write and their clearing by age and size, hence
  `sampleFreezeInfo_`: a save may use the name of another session's file.
* Kill reasons: a constant table whose order a `static_assert` checks, and a
  binary search.
* Reading `/proc`, formatting, writing and clearing files, the contents of
  events: input and output without control state.
* DWARF unwinding and the building of stack trees in the thread sampler.
* The rust binding: declarations only.
* Races left out: the mutex taken inside the signal handler, a wall clock that is
  set back, a freeze handler that is entered again after a minute.
