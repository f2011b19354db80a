# RigorPilot-Skills: specification of the research runtime

TLA+ models, model checks and machine-checked proofs of the stateful core of this
repository. The modules are translated from the Python source; every definition that
models code is listed with its source lines in `PROJECT.json` ("map").

- [Inventory](#inventory)
- [Plan](#plan)
- [Modules](#modules)
- [Runs and bounds](#runs-and-bounds)
- [Fairness](#fairness)
- [Proofs](#proofs)
- [Where the code and its documents disagree](#where-the-code-and-its-documents-disagree)
- [Assumptions and what is not modelled](#assumptions-and-what-is-not-modelled)

## Inventory

The repository is a set of skills (directories of scripts and instructions for a coding
agent) over a small shared runtime, with benchmarks that exercise it. Most scripts turn
text into reports and keep no state. State, concurrency and recovery are in the parts
below. `src/skills/ai-research-reproduction/_bundled/` holds copies of shared files,
`benchmark_outputs/`, `assets/` and `examples/` are data.

| Component | State | Operations | What makes it correct |
|---|---|---|---|
| **Queue lease** `shared/scripts/task_queue.py` (`QueueLease`) | `scheduler.lock.json` | acquire (2 attempts, stale takeover), heartbeat, release | one live holder; a dead holder's file is replaced; acquire never waits |
| **Queue store** (same file, `QueueStore`) | `queue.json`, `events.jsonl` | open or create, event (number, replace file, append line) | journal numbers rise and never run ahead of the state; no written job is lost |
| **Scheduler** (same file, `run_queue` and commands) | jobs' statuses, cancel markers, worker threads, free resources | add, retry, cancel, recover, run | dependency gate, single launch, no replay, conserved budget, cancelled work stays cancelled, termination |
| **Cycle search** (same file, `_cycle_members`) | the recursion's path | one call | sound, hits every cycle, ends |
| **Runtime runner** `shared/scripts/runtime_runner.py` | `state.json`, `CANCEL`, the child process | run, reconcile/recover, cancel, retry | the record says what happened; no retry beside a live parent; runs end |
| **Trial budget ledger** `benchmarks/trial_budget.py` | append-only ledger, pending reservation | reserve, settle, tool, stop, recover | nothing is dispatched that the file does not cover; limits never exceeded by a dispatch; a pending request found at recovery stops the trial |
| **Trial controller** and broker `benchmarks/trial_controller.py`, `trial_broker.py` | trace, broker evidence | the loop of model and tool calls | accepted only if graded, complete and within budget; every trial ends |
| **Reproduction job** `skills/ai-research-reproduction/scripts/repro_job.py` | `request.json`, `state.json`, `worker.claim`, `CANCEL` | start, worker, status, cancel | one request and one execution per directory; recorded ends stay; an early cancel counts; a claimed job settles |
| **Agent runner** `.../scripts/run_agent.py` | `agent_state.json`, pending tool calls, usage | model call, tool call, command, resume, re-verify | commands are not replayed; budgets hold over resumes; success is earned |
| Paired trials `benchmarks/run_paired_trial.py`, `paired_eval.py` | frozen inputs, sealed arms | freeze, run arm A, run arm B, seal, summarise | inputs unchanged between arms; incomplete pairs are not compared |
| Orchestrators `orchestrate_repro.py`, `orchestrate_explore.py` | evidence bundles | passes and gates | gates are not bypassed |
| README annotator `annotate_readme.py` | managed README blocks | plan, replace if unchanged | no foreign edit is overwritten |
| Source cache `lookup/cache_store.py`; lessons store `shared/scripts/lessons_store.py` | record files, index; lessons file | merge, store; append, touch, prune | nothing recorded is lost |
| Bundles, lane helpers, analysis, installers, benchmark drivers | files written once | render, plan, copy | (functions of their input) |

How the modelled parts interact: every command of the queue except `list` and `cancel`
takes the lease, opens the store, changes it by events and closes it. `run_queue` starts
one worker thread per launched job, which calls `run_persistent_command`; the two sides
share nothing but the run's directory (`state.json`, `CANCEL`) and the thread's result.
`cancel` leaves a marker in the queue's directory, which the scheduler turns into a final
status for a queued job and into the runtime's `CANCEL` file for a running one. After a
crash the next `run` or `recover` calls `reconcile_run` for what was left running, which
reads the record and asks the operating system about the recorded pid.

`run_trial` owns one `BudgetLedger` and one broker and asks the ledger before every call
of the provider and of the broker. `repro_job start` launches a detached worker that runs
the orchestrator as a child process, three times; `status` and `cancel` are other
processes that share nothing but the control directory. `run_agent` holds a `QueueLease`
on its output directory and runs each command by `run_persistent_command`; a resumed
agent looks at what an earlier one left by `reconcile_run`.

The hard behaviours: processes that die between any two writes; readers of files that
write back what they read; a lock file whose staleness is decided before it is removed;
a process that exists before its pid is recorded; cancellation, exit and timeout at the
same time; a paid request whose answer is lost, late, or lost together with the process;
an append that fails after the line may have reached the disk; two starts of one job; a
status computed from a snapshot that is old by the time it is reported; a resumed agent
that cannot know whether its last command ran; a single-threaded loop over threads,
markers, dependencies and resources that must stop but not too early. `PROJECT.json` lists each hazard at its line, with the
properties that cover it.

## Plan

Done, in this order: the queue's cycle search, lease, store, scheduler and the abstract
job lifecycle; the runtime runner; the budget ledger and the trial loop over it; the
reproduction job with the abstract one-shot job; the agent loop; the metered account that
the trial loop and the agent loop both implement; the durable run that the runner and the
queue both implement.

What a next step would be worth, in this order:

1. The pair protocol of `run_paired_trial` over two trials (freeze, seal, early stop).
2. `AgentRunner`'s commands as runs of `DurableRun`, like the runner's and the queue's. The
   agent keeps no history of the verdicts given without a pid, which this needs.
3. The lessons store: a small file that one operation reads, changes and rewrites.

## Modules

**`QueueLease`** models the lock file and the steps of any number of processes.
`lock` is what is at the path: nothing, a created but empty file, or a payload naming its
owner. Reading a file that is gone gives no owner, which the code takes for a stale one
(`Probe` goes on to the unlinking just as `Read` does). A process that has a file
descriptor of a file somebody has unlinked writes to a
file that nobody sees (`WritePayload`). The code's steps are separate wherever another
process can come between: `O_EXCL` open (`Create`, `Exists`), `is_file` (`Probe`), reading
and judging the owner (`Read`), unlinking (`TakeOver`), writing, and the two steps of
`release` (`Check`, `Drop`). `failed` stands for every exception that leaves the command.
`takeovers` is a history variable: who has been through the stale-file branch.

**`QueueStore`** models `queue.json` as an event number and a set of jobs, `events.jsonl`
as the sequence of numbers, and each command's copy in memory. `Open` and `Create` are the
two steps of the constructor, `Event`, `Persist` and `AppendLine` those of an event;
`WriteFails` is an exception in either write, after which the command may end or, as
`run_queue`'s `finally` does, write another event from the same memory. `Holders` take
the lease, `Inspectors` (list, cancel) do not and come between any two steps of the
others. `promised`, `missed` and `overrun` (a command without the lease has put an empty
queue over one with events) are history.
The scheduler's heartbeat calls `persist` alone; it writes the state it has already
written and changes nothing here.

**`DependencyCycles`** holds the depth-first search as operators on a configuration (the
recursion is an explicit path); `CycleMembers` runs it to its end and is what `TaskQueue`
uses. **`CycleSearch`** is the same search as a state machine, which stops where Python's
limit on nested calls would; its run also checks that
the operator computes what the machine ends with. **`MCCycleSearch`** enumerates graphs.

**`RuntimeRun`** models a set of runs: the record (`state`), the position of the runner,
the child process, the `CANCEL` file, and readers (the recover and retry commands), each
of which holds a snapshot of the record while it decides. `Create` ... `Finish` are the
writes of `run_persistent_command`, `Stop` is `_terminate_process_tree` with the outcomes
a signalled child can have, `Crash` the death of the runner's process between writes, or
an exception that leaves the function. Heartbeats rewrite the record from the runner's
memory, over what a reader wrote. `Read`, `Decide`, `Write`, `Refuse`, `Retry` are
`reconcile_run` and `retry_run`. A child that has exited and was not polled may look
alive (a zombie) or not (Windows). `blind` records the verdicts on snapshots without a pid.

**`DurableRun`** is the abstract promise of a command run under a durable record, whoever
runs it, dies over it or looks at it: one launch, an end recorded only by who watches the
run, other verdicts that the process bears out, and no launch beside a living run that is
repeated. What the code cannot know is in `doubted`: a run judged from a record that does
not name the process yet, and a run whose runner gave up on an error; only of these is
less promised. Two modules implement it. In `RuntimeRun` (`FollowsDurableRun`) a run is
doubted as soon as a reader has read such a record, because its verdict will be about that
record however late it is written. In `TaskQueue` the shortened runs of the worker threads
do, with recoveries as the judges and a raising worker as the runner that gives up. So the
short worker of `TaskQueue` allows nothing that the full runner does not promise either.

**`TaskQueue`** models `run_queue` with its loop at one action per job handled:
`TakeMarker`/`MarkerRaises` (cancel markers), `Collect` (finished workers), `Skip`
(failed dependencies), `FailFast`, `Launch` or `PassOver`, `Decide`, `GiveUp`; before it
`Reconcile` and the three blocking loops of admission. The launching of jobs is the code's
scan: `EndSkip` or `EndFailFast` make the list of candidates, each step looks at the first
one left in the order of `Ahead` and launches it or passes over it, and the scan ends with
the list or when no worker is free. That nothing is launched past a better job is a
consequence that has to be shown. The try block around a result covers the writing of it
too: `CollectBreaks` is that writing failing, before queue.json is replaced or after, and
`Rejudge` the handler, which then calls the job failed whatever its run says.
`LaunchBreaks` is an exception between a job's `running` record and its worker. `Interrupt`
and `EndAbort` are Ctrl-C and the exceptions that leave the loop, `Crash` kills the
process with its threads and leaves the children alone. Worker threads step through the
positions of `RuntimeRun` that matter to the scheduler, concurrently with it.
A job is its position in the list: ids are compared only for equality, except as the
last tie-break of the launch order, where the list order stands for `created_at`.
`AddJob`, `RetryJob` run while no scheduler holds the lease, `CancelJob` at any time.
History: `launches`, `early` (marked while queued and no scheduler ran), `blind` (settled
while nobody could tell whether the process lives). **`MCTaskQueue`** gives job specs.

**`JobLifecycle`** is the abstract promise of the queue: a job leaves `queued` once,
starts only when everything it needs has succeeded, and stays as it is once settled. The
exception is a result the writing of which fails (`Stumble`): it may be changed to `failed`
(`Retract`), at once and before any job starts on the strength of it.
`TaskQueue` implements it with `status` mapped to `status`, `needs` to the dependencies
and `unsure` to the job about to be judged again (`FollowsLifecycle`): checked by TLC and
proved.

**`MeteredCalls`** is the abstract promise of a loop around a paid provider: it asks only
while nothing is owed and the reservation fits, acts only between answers and within the
budget, and an answer that is never accounted for ends it for good.

**`BudgetLedger`** holds the ledger's record and its events as operators: the same ones
change the memory of the running process and give what a replay of the file amounts to,
because the code applies both by `_apply`. **`Trial`** extends it with `run_trial`.
`disk` is the ledger that the whole lines of `budget.jsonl` amount to, `file` says whether
the last line is torn, `mem` is the process's ledger. `Append` has the three outcomes of
`_append`: written and synced, refused before the write, or failed on the way with the
line there, not there, or torn. Each position of the loop between two calls that can fail
is a value of `pc`; `Record` is a line of the trace, `Halt` is `_stop`, `HandleError` and
`End` are the `except` and `finally` blocks. `Create` and `Reopen` are the two branches of
the ledger's constructor with `run_trial`'s refusal of a used ledger. `asked`, `acted`
and `traced` are history. `Trial` implements `MeteredCalls` (`FollowsBudget`) with the
requests sent, the tool calls dispatched, and `owed` when the file does not account for
the last request.

**`OneShotJob`** is the abstract promise of a job directory: one request owns it, the
command is dispatched at most once while it is open, the end is final. **`ReproJob`**
models the directory and any number of start commands, worker processes, and status or
cancel commands. `Look`, `Empty`, `Mkdir`, `Freeze`, `Queue`, `LaunchWorker`, `Recant`
are the steps of `start`; `Claim` ... `Fail` those of `worker`, with `phase` the child it
is about to run or runs. Looking for `CANCEL` (`SeeCancel`, `PassCancel`) and launching the
child (`Launch`) are separate steps, so a marker touched in between does not stop the
launch. `Relaunch` runs the recorded worker command line again. `update`
writes the worker's own memory without reading the file, and its failure leads to one more
attempt (`Fail`). `Read` takes the observer's snapshot; `Judge` decides on it later, when
the worker may have ended; an answer that is only `worker_unconfirmed` is not counted in
`over`. Heartbeats rewrite what is there and add nothing. `ReproJob` implements
`OneShotJob` (`FollowsOneShot`).

**`AgentRunner`** models `run`: `disk` is `agent_state.json`, `mem` the state of the
running process. `Saves` is `save` inside the loop with the handler of its failure;
`TakeCall`, `Redo` and `Recover` are the three ways a pending tool call is taken up,
`Look`, `Finish` and `CreateRun` ... `EndRun` its execution, `Pop` its end; `Request`,
`Ask`, `Settle`, `Respond` are the model's turn. `Block` stands for each of the loop's
ways to end as blocked, at the places where it can. `Interrupt` is Ctrl-C, which skips the handler but
not `finally`; `Crash` skips both, and leaves the command's process running. Commands are
the runs of `RuntimeRun`, shortened to what the loop can tell apart. The required command
is one, and `good` says that its result in the state was verified. `AgentRunner`
implements `MeteredCalls` too, with launched commands as tools.

In each module, operators introduced by `\* Mutant:` are plausible bugs; they belong to
no specification and exist to show that each property notices one.

## Runs and bounds

| Run | Checks | Instance and why it is enough |
|---|---|---|
| `CycleSearch` | only members of cycles are reported; removing the reported jobs leaves no cycle; the search ends | calls nested at most 5 deep (the jobs plus one); every graph of 4 jobs with up to 2 dependencies each in every order: nested, shared, disjoint and overlapping cycles, back edges over 1 to 4 nodes |
| `QueueLease` | exclusive until a takeover; a holder keeps its file; stale files go | 3 processes, one of which can be the dead owner while two others race; the code's own 2 attempts |
| `QueueLeaseExclusive` | (violated) exclusive, always | as above; three processes are needed: the owner that releases, the one that misjudges, the one whose file it unlinks |
| `QueueStore` | until a leaseless command overwrites events: journal ordered, written jobs kept; always: one missing line per failed write or crash | 2 commands with the lease and 1 without, each any number of times, 2 jobs, `MaxEvents` = 5 numbers, `MaxMissed` = 3 failures or crashes: failures at each write in several commands in sequence, the leaseless command between any two steps |
| `QueueStoreDurable` | (violated) written jobs kept, always | 1 command with the lease, 1 without, 3 events |
| `RuntimeRun` | no duplicate unless blind, honest records, refinement; runs end, one recovery settles a dead run | a run and its retry, one command that recovers and one that retries (a retry takes all the steps of a recovery first, so two of either kind add only a second retry, for which there is no run left), fairness |
| `TaskQueue` | dependency gate, one launch, watched jobs, no live twin, given up for cause, lifecycle, budget conserved, order respected, refinement | 3 jobs, alone or with dependencies `[1]` (needs the GPU too), `[2]` (needs both slots and goes first), `[3]`, `[1,2]` (goes first): chains in both directions, forks, joins, missing ones, cycles; 2 workers, 2 CPU slots and 1 GPU, so that the scan passes over a job that waits or does not fit and launches a later one; retries in the free places; one job whose worker, launch or result may raise; interrupts and crashes at every step |
| `TaskQueueCancel` | early cancel, termination | 2 jobs, dependent or not, or larger than the budget, cancelled at any time, fail-fast, a raising worker, interrupts and crashes at every step, fairness |
| `TaskQueueSkip` | (violated) no job with a failed dependency is given up as blocked | 3 jobs, each of which may depend on one listed after it, one worker, nothing else goes wrong |
| `Trial` | recorded first; accepted is earned; the metered account; trials end | at most 3 requests and 3 tool calls under 5 tokens with 2 reserved, so that the call, tool and token caps are each reached first by some behaviour; answers of 0 tokens, of the reservation, and of twice the reservation (overdraws); 2 calls in an answer; 2 processes, so that each kind of file is opened again |
| `ReproJob` | cancelled not executed; reported over; the one-shot job; jobs settle | 2 starts with 2 requests, 2 launches of the worker, 1 status or cancel command, deaths and failed writes anywhere |
| `AgentRunner` | never replayed; success earned; the metered account; processes end | 2 model calls, 2 tool calls, answers of 1 or 4 tokens (within and beyond 2 reserved, overdrawing 5 in total), batches of 0 to 2 calls of every kind, 3 processes: a resumption of a resumption |

Bounds: `N` jobs ever added; `Attempts` = 2 is the code's; `MaxEvents` and `MaxMissed`
only cap counters; every reader of `RuntimeRun` executes once. The scheduler's sub-second
clock is not modelled, so no bound on time is needed. Where deadlock is not checked, the
system may stop: all processes done or dead, or nobody issuing a command. `MaxStarts`
bounds the processes that open a trial or an agent's directory one after the other,
`MaxBatch` the tool calls of one answer; the other constants of `Trial` and `AgentRunner`
are the code's own limits with small values. `QueueStore`
is checked for deadlock.

## Fairness

- `QueueLease`: a live process goes on executing `acquire` and `release`. Nothing makes a
  command start, finish its guarded work, or die.
- `RuntimeRun`: a live runner goes on; its loop sleeps 0.05 s and its timeout is positive
  (checked on entry), so it always reaches the child's exit or the timeout, even if the
  child never exits. A reader that has started goes on. Nobody has to cancel, recover,
  crash or exit.
- `TaskQueue`: the scheduler's thread and each worker go on (weak fairness each). A round
  waits at most 0.2 s; a worker ends by its run's timeout. Nobody has to start a command,
  and processes without a monitor need not exit.
- `Trial`, `AgentRunner`: the loop is one thread that goes on (weak fairness of its step).
  The provider gets a timeout with each request and the broker and the runtime one with
  each command, so a call always comes back. Nobody has to start or resume.
- `ReproJob`: a worker that lives goes on; its loop sleeps 0.1 s and has a deadline for
  each child. Children need not exit; start, status and cancel commands may stop anywhere.
- `CycleSearch`: one thread that does not stop by itself.

## Proofs

Proved with TLAPS for every value of the constants that satisfies the modules' named
assumptions (`QueueLeaseAssumption`, ...), which TLC evaluates in every run.

- `CycleSearchProofs`, for any number of jobs and any graph: `SearchTyped`, `SearchSound`,
  `SearchComplete` of the state machine, and `CycleMembersRight`, the same two facts of
  the operator that `TaskQueue` uses. Each node on the open path reaches every later one,
  so a back edge closes only members of a cycle. A visited node that is not reported needs
  visited nodes only and lies on no cycle that spares the reported ones (`Cleared`); this
  is established when its call returns. `SearchCounts`: every step adds one to what has
  been opened, looked at and closed, and that stays within `StepBound`; this is the safety
  half of `Terminates`, and it makes the value after `StepBound` steps the last one. The
  module starts with the facts on sums over finite sets that this count and the budget
  need. Induction is by the least counterexample (`MinimalSubset`, `LeastNumber`), because
  the library's induction theorems take an operator that the provers cannot instantiate.
- `QueueLeaseProofs`: `LeaseTyped`, `LeaseExclusiveUntilTakeover`, `LeaseFileKept` for any
  set of processes. Strengthening: while nobody has taken a file over, whoever is between
  its `O_EXCL` create and its unlink owns the file at the path, so there is one such
  process, dead or alive.
- `QueueStoreProofs`, for any commands, with and without the lease: `StoreJournalOrdered`
  and `StoreDurable`, of everything up to the moment when a command without the lease puts
  an empty queue over one with events (that moment does come, see `QueueStoreDurable`; it
  is never a command with the lease that does this, which is part of what is proved).
  Strengthening: one command has the lease, and at each of its steps it knows that the
  file is there, that its memory is at least as new as the file, and strictly newer when it
  is about to write; a leaseless creation before the first event changes none of this.
  `StoreTyped` and `StoreGapsExplained` hold beyond that moment: commands without the lease
  can set the file back, but not ahead of what the journal and the failures account for
  (`Explained`).
- `RuntimeRunProofs`: `RuntimeTyped`, `RuntimeNoDuplicate`, `RuntimeRecordHonest` for any
  number of runs and readers. Strengthening: a process that is gone stays gone; a pid in a
  record or in a snapshot means that the child was launched, so a verdict on a snapshot
  with a pid concerns a child that is gone for good, however late it is written.
  `RuntimeFollowsDurableRun` is the refinement of `DurableRun`, one lemma per kind of step.
  It needs two more invariants: a record, a snapshot or a verdict that says `running` or
  `orphaned` names a pid (`PidInv`), and a run not started yet repeats none (`OriginInv`).
  `DurableRunPromises` draws the consequences
  in the abstract specification, so that they hold of every implementation of it.
- `TaskQueueProofs`: `QueueTypeCorrect`, `QueueDependencyGate`, `QueueLaunchedOnce`,
  `QueueRunningIsWatched`, `QueueNoLiveTwin`, `QueueEarlyCancel` for any number of jobs,
  any specs, budgets and workers, with interrupts and crashes anywhere. None of them is
  inductive alone. `IInv` adds: a queued job has no run at all (`QueueInv`); outside the
  loop nobody watches a run, inside it the watched jobs are the running ones (`WatchInv`);
  what each step of a worker has recorded (`WorkerInv`); a settled job's process is gone
  or the job was settled blindly, and only settled jobs are repeated (`SettledInv`); an
  early marker is still there until the first pass over the markers has come to it
  (`EarlyInv`); a job whose result could not be written has ended, and nothing that depends
  on it has been launched (`RejudgeInv`). One step per action shows that `IInv` is kept.
  The second part of the module proves `QueueFollowsLifecycle`, the refinement of
  `JobLifecycle`: each action that writes a status is matched with one step of one job's
  life; `IInv` is needed for `Collect` (what is collected was running), for `Rejudge` and a
  death before it (`RejudgeInv`), and for the initial state of jobs. `QueueFollowsDurableRun` is the second refinement: steps of the workers
  are steps of a run, `Reconcile` judges, a retry repeats, a crash or an interrupt abandons,
  and everything else leaves the runs alone. `RunInv` ties positions
  of workers and records to the process for it.
  The third part is about the loop (`LoopInv`). `QueueBudgetConserved`: a sum over the
  watched jobs, which each launch and collection changes by one summand.
  `QueueNoCircularWait` puts the scheduler and the search together: by
  `CycleMembersRight`, instantiated with the queue's graph, blocking what the search
  reports leaves no cycle among queued jobs, and the loop neither queues a job nor changes
  what it needs. `QueueGivenUpForCause`: when nothing runs, all resources are free again
  (budget), so a queued job that the scan has passed over has an unfinished dependency;
  following those dependencies never returns to a job (no circular wait) and so must end
  at one that is orphaned or has failed; its own failed dependencies are those that the
  last pass skipped after it (`SkipInv`). `QueuePriorityRespected` rests on `ScanInv`: what
  the scan has passed over could not be launched, and cannot be launched later in the scan,
  because a launch only takes resources and makes no job succeed. So a launched job has no
  launchable one ahead of it, and the scan leaves none while a worker is free.
- `TrialProofs`: `TypeCorrect`, `RecordedFirstHolds`, `AcceptedIsEarnedHolds` and
  `TrialFollowsBudget` for any limits, reservation and answers. Strengthening: the memory
  is the file's ledger while the ledger is active, except for a failed append, after which
  it is stopped and stays so; at each position of the loop the number of requests and
  tool calls made is what the ledger has, or one less just after its append; what has been
  traced is what was asked and acted while no record failed.
- `ReproJobProofs`: `TypeCorrect`, `CancelledNotExecutedHolds`, `ReportedOverHolds`,
  `JobFollowsOneShot` for any number of processes and requests. Strengthening: one start
  command at a time is between its `mkdir` and its launch, and before that no worker has
  started (`OwnerInv`); the one active worker is the one that holds the claim, with the
  launches that its phase allows (`ClaimInv`); an observer's terminal snapshot, or a dead
  worker named by it, is final (`ObserverInv`); a marker counted as early is still there
  while the worker has a look ahead of it (`CancelInv`).
- `AgentRunnerProofs`: `TypeCorrect`, `NeverReplayedHolds`, `SuccessEarnedHolds`,
  `AgentFollowsBudget` for any budget, answers and number of processes. The next process
  resumes from the file, which may be older than what the memory has already done, so the
  invariant `StateInv` says the same of both: every launch that is behind the state's
  position in its batch is counted and no later one exists, except the launch of the
  started call; a state with `good` has an honest record. `ControlInv` ties memory and
  file at each position of the loop.

Every invariant and every action property of the passing runs is stated by a theorem. The
type invariants of `RuntimeRun` and `TaskQueue` are proved and are not checked by a run of
their own: the runs check what rests on them.
Only model-checked is liveness: `Terminates`, `StaleLeaseReplaced`, `RunEnds`,
`RecoverySettles`, `CommandEnds`, `TrialEnds`, `JobSettles`, `AgentEnds`. Liveness under
fairness, which needs ENABLED, is beyond the prover. Of `CommandEnds` two of the reasons are
proved nevertheless: the search ends (`SearchCounts`), and no job waits for itself.

## Where the code and its documents disagree

The guide is `src/skills/ai-research-reproduction/references/runtime-and-model-adapter.md`.

With a run that shows it (`PROJECT.json`, "findings"):

- `QueueLeaseExclusive`: a process meets the lock file, the owner releases it, and what the
  process then reads - nothing - has no living owner, so it unlinks the path although a
  third process has created its own lock file there meanwhile. Two live processes hold the
  lease, and nobody has died (task_queue.py:76-86; guide line 105).
- `QueueStoreDurable`: `list` and `cancel` open the store without the lease, and may put an
  empty queue over jobs just added (task_queue.py:145; line 2 calls the queue durable).
- `TaskQueueSkip`: one pass in list order does not reach a job listed before the dependency
  that is skipped after it. If the loop ends before another round, that job becomes
  `blocked` as `dependency-not-runnable` (task_queue.py:593; guide line 109, "A failed
  dependency makes downstream work `skipped`"). `GivenUpForCause` says what does hold: such
  a dependency is listed later and was itself skipped in the same pass.

With a property in the module that TLC finds violated when a configuration names it:

- `TaskQueue!MarkersServed` (two jobs, `Markable = {1, 2}`, `Breakable` and `Fragile`
  empty): a cancel marker handled between a job's transition to `running` and its worker's
  first write ends the scheduler's loop with `FileNotFoundError` instead of reaching the
  run (task_queue.py:554; guide lines 113-114).
- `RuntimeRun!SuccessNotRetried` (one retry command): a retry that read the record before
  the end of the run overwrites `success` by `interrupted` (runtime_runner.py:221), and
  then repeats a successful run (guide lines 16-17).
- `ReproJob!CancelRecorded` as an invariant of `ReproJob.cfg`: while the worker is not
  confirmed (no pid after 10 s, or no heartbeat for 120 s) `status` reports a terminal
  lifecycle, and `cancel` then returns without leaving its marker, although the job may go
  on and execute its command (repro_job.py:116, 205; `agent-job.md`:48 says "`cancel`
  records intent").

Seen while modelling, in the models, without a run of their own:

- A job whose run succeeded is recorded as `failed` when the journal's write of its success
  fails: the exception handler takes it for an error of the worker (task_queue.py:571-589).
  The handler corrects itself before anything depends on it (`FollowsLifecycle`).
- Guide lines 108-109, cycles "are recorded as `blocked`": the search leaves out members
  that it meets only after they were visited. They wait for a blocked job and end as
  `skipped` (or, as in `TaskQueueSkip`, `blocked` for another reason); `EveryCycleHit` and `NoCircularWait` are the
  part that does hold.
- Guide lines 12-13: a `created` record without a pid is declared interrupted while its
  runner may be about to launch or have launched the process (`blind`).
- `--fail-fast` counts failures of earlier runs, so it skips a retry of what failed.
- On Ctrl-C the runtime's cancel request follows the wait for all workers.
- An agent killed between the save of an answer's usage (run_agent.py:534) and the save of
  the answer (line 557) loses it, and asks the same again when it resumes: paid twice, but
  accounted for, so `FollowsBudget` holds.
- A reproduction job whose last write of `completed` fails is recorded as `failed` with
  the accepted result in it, because both writes share the worker's memory.

## Assumptions and what is not modelled

- That one process at a time holds the lease is taken by `QueueStore` and `TaskQueue` from
  `QueueLease`, where it holds until a stale file is taken over.
- No `runtime_runner` command is used on the queue's runtime root while a scheduler runs;
  `RuntimeRun` covers such commands for runs outside a queue.
- Pids are not reused. A killed child dies (the branch in which `wait` times out twice is
  left out). Replacing a file is atomic; the retries of `atomic_write_json` on Windows
  end in success or in the modelled exception.
- Unreadable or foreign `state.json` (`invalid`) is left out: the program does not write
  it. Torn lines of a journal are left out for the same reason (nothing reads them back).
- A chain of dependencies longer than Python's limit on nested calls raises
  `RecursionError` out of `run_queue`; `CycleSearch` has the limit, `TaskQueue` assumes that
  it is not reached.
- `request_cancel` and `request_job_cancel` are one step each: only their last write is
  seen by others, and the runner and the scheduler accept it at any time.
- A successful job or run may be retried in the queue model, because the caller may allow
  it; in `RuntimeRun` the caller does not.
- Output capture, resource sampling, event logs of a run, model profiles, job metadata,
  messages and reasons are left out: no decision of the modelled code depends on them.
- `AgentRunner` takes from `QueueLease` that one process at a time runs in an output
  directory; `Trial` has one owner of the ledger (the code refuses a changed file).
- The clock of a trial is not modelled: at every check the cap may or may not have been
  reached. Request ids are numbered by the caller and never clash. The 2 MiB cap of the
  ledger is one of the reasons for which an append is refused.
- The requests of `ReproJob` are told apart by their digests only. What the orchestrator
  does is in its exit code; cancellation during the execution reaches the runtime by
  `RuntimeRun`'s `CANCEL` and shows as an exit.
- A resumed agent's identity checks (task, model, sources, harness) are left out: they
  refuse a resumption, which the model may refuse anyway by not doing it. Summaries and
  delivery after the loop write other files.
- Pids that name a worker of a reproduction job are not reused.
- Not modelled at all, with the reason for each in `PROJECT.json`: the pair protocol of
  `run_paired_trial` (sequential; each of its trials is a `Trial`), the two orchestrators
  and the README annotator (sequential processing of text around one command or one
  atomic replacement), the source cache (a single process writes records and an index) and the lessons store (one
  small file that one operation reads, changes and rewrites), and what has no state of its own (reports, repository analysis, planning,
  installation, validation, benchmark drivers). These make up most of the repository's
  lines, so that the share of lines under a definition is small although the parts with
  concurrency, recovery and budgets are covered.
