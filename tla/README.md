# Formal model of xflow

TLA+ specifications, TLC models and TLAPS proofs of the protocols that make
xflow's workflow execution correct: how units of a workflow are leased,
committed, retried and canceled, how their durable intents reach the queue, how
ready work is found again, how concurrency limits are kept, how tasks are handed
to runners, and which replica leads.

Run a model with `tlc -config X.cfg M`, check proofs with `tlapm M_proofs.tla`.
`PROJECT.json` lists every run, theorem, hazard, and the source lines each
definition stands for.

## 1. The system and its parts

xflow compiles a workflow definition to a graph and executes it. The *engine*
(`src/engine`) is a library without state of its own: every decision is a
transition of a *state store*, in memory (`src/backend/providers/local`, one
mutex) or in Redis (`src/backend/providers/distributed/internal/rstate`, Lua
scripts). Transitions append *intents* to a durable outbox in the same atomic
step; any server *flushes* the outbox into a task queue. The *control plane*
(`src/service/control`) hands tasks to *runners* (`src/service/runner`) under
leases and sweeps leases that expired; one replica at a time leads. *Triggers*
(`src/node/trigger`) start executions.

| Part | State | Operations | What makes it hard | What must hold |
|---|---|---|---|---|
| Acyclic scheduling (`engine/lease.go`, `atomic_commit.go`, `retry.go`, `cancel.go`, `expire.go`) | node rows, in-degree and active-input counters, `remaining`, scheduling markers, outbox | lease, renew, commit, on_error, retry, release, reclaim, skip, cancel, expire | duplicate tasks, reports after reclaim, cancel racing the last commit, death between any two steps | counters exact, no unit stranded, decisions final, verdict right, termination |
| Outbox delivery (`engine/atomic.go`, `outbox_lease.go`) | bodies, ready scores, attempts, dead letters, receipts | claim, renew, hand off, acknowledge, give back, record failure, replay | flushes that outlive their lease, settlements that are not fenced, repeated replays | nothing lost or resurrected, one replay per request |
| Readiness index (`rstate/state_outbox_index.go`) | index of executions with due work, in another cluster slot | register, page, claim, revalidate, prune, repair, sweep | index and ready set are written by separate commands | registrations survive prunes, work is drained |
| Concurrency limit (`local/memory_state.go`) | holders, FIFO line, limit, held intents | admit, park, promote, depart, pause, roll back | durable insert answers late; many ways to depart | slots exact, FIFO, the line moves |
| Leader election (`distributed/leader.go`) | Redis key, local deadline, flag, notifications, renewal goroutines | campaign, renew, give up, resign | late replies, goroutines of several terms, lazy expiry | one leader, leadership returns |
| Suspension (`engine/signal.go`, `rstate/state_suspend.go`) | wait tokens, early signals, timers | suspend, signal, time out, resume | signal before suspend, timer against signal | one resume per wait, no signal lost |
| Merge cancel, cyclic commits, groups, expansion, sub-workflows (`engine/merge_cancel.go`, `scheduler.go`, `group*.go`, `expand.go`, `subworkflow*.go`) | branch sets, activations, group leases, item counters, parent links | per-feature commits | child and parent end at once; items finish in any order | as for scheduling, per feature |
| Entry admission (`engine/entry_admission.go`, `idempotency.go`) | admissions and receipts by key | admit, seed, recover | retry after an unknown outcome | one execution per key |
| Entry activation (`control/entry_activation*.go`) | desired and hosted activations, generations | reconcile, assign, fence, acknowledge | two reconcilers, late acknowledgements, restarts | one live host per entry, in the end the desired one |
| Runner directory, sweeper (`control/*runner_directory*.go`, `lease_sweeper.go`) | sessions, capacity, claims, handoffs | register, claim, hand off, release, reap | directory and engine are updated separately | capacity is returned, no task stranded |
| Registry and projection (`local/workflow_registry.go`, `control/workflow_activation_project*.go`) | definitions, revisions, mutation receipts | compare-and-replace, project, recover | old projection after a newer replace | the newest version wins |
| Triggers (`node/trigger`) | offsets, watermarks | consume, batch, commit | crash between start and commit, rebalance | at-least-once, bounded overlap |
| Queues, blob store, API, nodes, SDK, observability | | | mostly translation, or external systems | see `components` |

`PROJECT.json` has every part under `components`, with the reason for those that
are not modelled, and under `hazards` what can go wrong at which line.

## 2. Modules

| Module | Stands for |
|---|---|
| `AtomicScheduling` | one execution of an acyclic workflow over either store |
| `Dataflow` | what such an execution promises: each unit decided once, when its inputs allow; the abstract specification of `AtomicScheduling` |
| `OutboxDelivery` | the intents of one execution between append and settlement |
| `DurableOutbox` | what an outbox promises: an intent waits until it is consumed and settled, or is given up, and only a replay brings it back; the abstract specification of `OutboxDelivery` |
| `OutboxReadyIndex` | the Redis readiness index against the ready set of one execution |
| `WorkflowConcurrency` | the slots and line of one workflow, in memory |
| `AdmissionLine` | what the limit promises: first come, first served, promoted from the head when somebody leaves; the abstract specification of `WorkflowConcurrency` |
| `LeaderElection` | replicas, their threads and the Redis lease |
| `HandoffLedger` | the Lua scripts of the Redis runner directory, an operator each: rows, lanes, claims, handoff records, registrations, counters |
| `RunnerDirectory` | polls, reports, dispatcher, sweeper and reapers as sequences of calls to `HandoffLedger` and to the engine |
| `AssignmentBoard` | what the directory promises of an assignment's place: away, queued, claimed or leased, with one runner at most, within its capacity; the abstract specification of `RunnerDirectory` |
| `MC*` | instances for TLC, with `MC*.cfg` |
| `*_proofs` | theorems and proofs; `HandoffLedger_proofs` holds the lemmas about the scripts |
| `RunnerDirectory_waiting` | the proof that a task the engine waits for is not forgotten |

Operators whose comment begins with "Faulty" are wrong versions of the operator
that follows. They are not part of any specification; putting one in place of
the right one must break the property `PROJECT.json` names beside it under
`mutants`.

### AtomicScheduling

A variable per stored field. Each store transition is one action, because the
store makes it one (a mutex, a script); everything between transitions
interleaves. `Deliver` and `Ack` are separate, so a death between them delivers
twice. `Acquire` is a successful lease; `Report` is anything the holder of *any*
lease ever granted may send, at any time: `CommitSuccess`, `CommitError` with
its on_error policy, `CommitFailure`, `Retry`, `Release`, `Renew`. `Holds` is
the fence on the lease token. `Conclude` is the commit transition: row, arrivals
at the successors (`Arrive`), `remaining`, verdict, intents. `Lapse`,
`ListExpired` and `Reclaim` are the sweeper with its two reads and its write.
`Backend` selects the differences between the stores: only the Redis commit
looks whether the execution is canceling, and only Redis cleans up an execution
that was canceled or timed out.

Node results are abstracted to the port they leave on; retry delays and lease
durations to the fact that they end. The engine's queue is a set of units with
possible redelivery.

### OutboxDelivery and OutboxReadyIndex

`OutboxDelivery` has flushes as processes: claim (`LeaseOutbox`), `Handoff`,
`AckOutbox` and `Forget` are separate steps, the keeper's `RenewOutbox` runs
between them, a failed handoff is released *before* it is recorded as the code
does. System intents are handled inside the flush. `ReplayDeadLetter` decides
like the script, for a node in any state and for entries from before dead-letter
metadata was kept. `GiveBack` is two calls of the code in one step, the release
of the entry and `keeper.forget`: a renewal between them is refused, and over
Redis the keeper then renews the rest of its batch no more, which the model
allows anyway, since nothing obliges a keeper to renew. Left out:
the expiry of receipts and index keys, a replay without RequestID (listed as a
hazard), and delayed availability of new entries, which `OutboxReadyIndex` has.

`OutboxReadyIndex` has one action per Redis command. Scores are kept as the time
left, so that time need not be bounded. A drainer reads the index page or sweeps
the keyspace, claims, settles, then re-arms or prunes; a prune removes, looks
again and repairs. Delivery itself is reduced to its effect on the ready set.

### WorkflowConcurrency

Each action is one critical section of the store's mutex. The answer of the
durable insert (`MirrorInserted`, `MirrorFailed`) is an action of its own, and so
is the release of the held intents that follows a successful insert
(`ReleaseHold`): in between the execution may be paused, canceled, timed out or
promoted. An execution ends (`Finish`) also while it is paused or canceling, when
a commit that was under way is its last; nothing obliges a paused one to.
Promotion happens inside every departure, as in the code. A departure is of one
execution; a batch of queue timeouts is a row of such steps, each with its own
promotion, and one that was promoted in the middle of its batch ends as an
execution whose deadline passed. Slot sets share
nothing, so one workflow is modelled. Submissions carry the limit and the policy
of the version they start. A version that rejects charges a slot without looking
at the line, so where submissions never stop a queued execution can be overtaken
for ever by ones with a higher limit; `QueuedIsServed` therefore speaks of
behaviours in which, from some time on, no execution is submitted. A raised limit is used by the next departure: an admission
that finds a line joins it.

### LeaderElection

Threads of a replica: the campaign loop, renewal goroutines, callers of
`IsLeader`. A step is a Redis command, an atomic access or a critical section;
`setLeader` is two steps because it swaps the flag before it takes the lock. The
loads of the flag and of the deadline in `IsLeader` are one step, and so are
`stopRenewal` and the load in `Resign`. The campaigner's SETNX is only a step
when it wins. `age` is the time from a command to the moment its reply has set
the local deadline; `MaxDelay` bounds it. `Prompt` says that threads are not
suspended between two local steps.

### HandoffLedger and RunnerDirectory

A script of `redis_runner_directory.go` is atomic, so it is one operator of
`HandoffLedger` with the guards and early returns of the script: a claim writes
the row, the claim with its expiry, a *handoff record* (`debt`), the index from
task to claim and the runner's counter, and the later scripts move or remove
them. A record is `reserved`, then `lease_may_exist` (the crash fence, written
before the engine is asked), `lease_created`, `finalized`; `ready` are the
uncertain ones that wait for a resolver. A registration moves what the runner
owes to its new session and recounts.

`RunnerDirectory` runs requests as processes (`job`): a poll takes a ready debt,
replays a lease or claims a task, then goes on step by step (`Mark`, `Build`,
`GiveUp`, `GiveBack`, `Recover`, `Record`, `Finalize`, `Respond`, `Resolve`,
`Settle`, `Replay`), a report is `Report`, `Commit`, `Release`. A replayed node
lease is the one the engine has now, because the metadata keeps the input of a
suspending node only; a replayed group keeps the lease of its row. Any request may die between two steps
(`Dies`), meet an engine error (`Fails`) or lose its answer. The sweeper reads,
releases, reclaims and settles in four steps, and the reapers run beside it. The
engine is reduced to the state of a node or group, its lease token and the
intent in the outbox; `absorbed` only records which tasks had their newest intent
answered as a duplicate, and no guard reads it. A task that is `done` is one whose
node is over, or whose execution is: the engine tells the two apart, so the
resolvers may drop or requeue it (`Disposed`). `Slow` says whether a request may
outlast the TTL of its claim. Nothing in `service/control` bounds a request by
that TTL; with `Slow = FALSE` the sweep does not reclaim the claim of a request
that is at work (the guard of `ReclaimExpired`), and `ParkedIsReady` and
`HandoffSettled` are stated for that case only.
Selectors, namespaces, drain control, the order within a lane, batch and subgraph
dispatch and the in-memory directory are left out.

## 3. Runs

"Holds" runs finish without error; "fails" runs end in the counterexample their
finding describes.

| Run | Instance | Shows |
|---|---|---|
| `branch` | Redis; branch and wait_all merge, 4 units, retries | counters, verdict, no lost work, final decisions, cancel wins, implements `Dataflow` |
| `race` | memory; two roots, one pinned, race to a wait_any merge, a disabled unit behind; fairness | joins, executions end |
| `cancel_stomped` | memory; chain of 2 | fails: a fatal failure is written over `canceling` |
| `concurrency` | 3 executions, limits 1 and 2, line of 1 or unbounded, fairness | slot accounting, held intents, never over the limit, implements `AdmissionLine`, the line moves |
| `index` | Redis; 2 entries, 1 drainer, 1 fault, fairness | a prune never loses a registration, work is drained, orphans are removed |
| `delivery` | Redis; 1 intent, 2 flushes, replay, 1 fault, fairness | all safety of delivery, implements `DurableOutbox`, every intent settles |
| `leader` | 2 replicas, 1 renewer each, replies late up to the margin, 1 fault, fairness | at most one leader, leadership returns |
| `leader_threads` | 1 replica, 2 renewers, 1 caller of `IsLeader`, 1 fault, fairness | renewers stay cancelable, leadership returns unless two threads change it at once |
| `leader_stuck` | 1 replica, 2 renewers, 1 caller, no fault, fairness | fails: leadership lost for good |
| `directory` | a task and a group, 1 runner with 1 slot, 2 requests, 2 claims, 1 fault | counters, ledger and rows agree, the crash fence holds, parked claims are ready if no request outlasts its claim |
| `directory_settles` | 1 task, 2 requests, 2 leases, 2 sessions, 2 faults, fairness | nothing is left under an old session, a task the engine waits for is only lost to a delivery taken for a duplicate, every claim is settled if no request outlasts its claim |
| `directory_retry` | 1 task, 2 requests, 2 leases | fails: the intent of a retry is lost |

**Bounds and why they suffice.** *Graphs*: four units give a unit with two
inputs whose sources race, branch, are skipped or fail; the proofs cover all
finite graphs and both stores. *Leases* (`MaxLeases`): two per unit allow
a late report against a newer lease. The lease of the last number is never lost,
so `MaxLeases` cuts only the number of reclaims. *Flushes*: two are what a race
on one entry takes. The proofs of `OutboxDelivery` cover batches of several
entries and the memory store, which `delivery` does not have. *Drainers*: one
drainer already races producers, rollbacks and its own repair;
`NoRegistrationIsRaced` has any number. *Executions*: three give a full slot set,
a line and a refused submission; the proofs have any finite number. For
`QueuedIsServed`, with three no fourth submission can lower the limit again,
which is what overtaking for ever takes; an earlier form of the module was
checked with four (762,842 states, 25 minutes). *Directory*: a group and a node
task differ in how a missing lease is read, and one slot makes them compete; two
requests are what a race on a claim takes. Tasks, runners, requests, claims and
sessions are any number in the proofs. One claim in `directory_settles`
is enough because a debt is settled independently of the others.
*TTL, Horizon*: long enough that a lease can be renewed, run out and be taken
within another's lifetime. *MaxAttempts* 2: one failure that is retried and one
that dead-letters. *SweepEvery* 2: every other call. *MaxFaults*
bounds crashes, failed calls and lost writes, so that fairness is about a system
that is eventually left alone. *TTL = 3, Margin = 1* is the ratio of the code.
In `leader` the callers of `IsLeader` are absent and a replica has one renewer,
which a new term must wait for; `leader_threads` has them in one replica, and the
proof of `AtMostOneLeader` has any number of everything and threads that are
suspended anywhere (`Prompt = FALSE`).

**Deadlock** is not checked where the system may stop: an execution that ended
with nothing left to deliver, executions that are all over, all entries settled,
replicas that were all shut down.

**Fairness.** Weak fairness of delivery, handling, listing, reclaim and expiry
stands for loops that run on a ticker in every server (`Run` in
`engine/atomic.go`, the sweeper) and for time that passes. Lease holders owe
nothing and may die silently, except that of the last allowed lease. Strong
fairness is assumed where an attempt may fail again and again and the code
retries: the sweep reaching an execution (`Scan`) and the acknowledgement in
`OutboxReadyIndex`, and in `OutboxDelivery` that a flush which can get as far as
a handoff over and over settles it, either way. In `LeaderElection` every thread
goes on and time passes. In `RunnerDirectory` requests go on, leases that nobody
attends lapse, expired claims are swept and the sweeper makes progress (all
weak), and a debt that is ready over and over is taken (strong): every poll of a
runner and every pass of the reaper begins with the ready debts. Nobody is obliged to cancel, pause, replay, shut down
or restart.

## 4. What is proved

All theorems hold for every value of the constants that satisfies the named
`ASSUME`s (finite acyclic graphs, finite sets, positive bounds, the two backends). Every
safety invariant and action property that a passing run checks is a theorem; the
strengthening an inductive proof needed is named with it.

**AtomicScheduling.** `IndInv` is inductive (`Invariance`). An exact counter is
not inductive alone: that a unit is started only when its merge allows it
follows from markers that agree with the graph (`MarkersSound`), that nothing is
decided twice from work being justified by its marker (`WorkJustified`) and
leases being ordered (`LeasesOrdered`), that no unit is stranded from every due
unit being held by an intent, the queue or a lease (`WorkHeld`), and the verdict
from failures concluding at once (`FailureConcludes`). Steps fall in two kinds,
quiet ones and ones that conclude a unit, with a lemma each. From `IndInv`
follow `TypeCorrect`, `CountersStayExact`, `VerdictIsSound`, `JoinIsRespected`,
`NoWorkIsLost`, `DecisionsStayFinal`, `CancelOwnsTheVerdict` (for Redis) and
`Refinement`: `AtomicScheduling` implements `Dataflow` under the mapping that
reads an undecided unit as open.

Two more are proved and not run. `ExecutionsCanGoOn`, the safety half of
`Terminates`: a running execution has an undecided unit whose inputs are all
decided and whose turn is held (`CanGoOn`). It takes the graph to be acyclic,
`AcyclicAssumption`, as the compiler checks (`detectUnitCycle`): some undecided
unit waits for no other, and `DueIsHeld` says its turn is held.
`IntentsAreNotReissued`: an intent that has left the outbox never enters it again,
because what is appended had not been issued and an issued identifier stays so
(`Issued`, `IssuesOnce`). A duplicate delivery is therefore always one of the same
append.

**OutboxReadyIndex.** `NoRegistrationIsRaced`: with types and the fact that a
repair has read a score, `Registered` is inductive: work without an index member
is about to be registered, is being looked at by a prune that will repair it, or
a write was lost. `TypeCorrect` comes with it.

**OutboxDelivery.** The invariant adds to the safety properties that a flush
past its handoff works on an entry of its own and acknowledges only what was
consumed (`CurOK`); that, as long as no unfenced settlement happened, the
store hides an entry at least as long as its holder believes (`LeaseCovers`);
and that the failed handoffs no dead-lettering has used up are at least the
counted attempts plus the flushes that have yet to count one (`FailuresCover`):
several flushes may have failed on one entry when the first of them records it.
`TypeCorrect`, `BodiesAreReady`, `NoIntentIsLost`, `ClaimsAreExclusive` and
`DeadLettersAreEarned` follow; `AckIsFinal` and `ReplayIsIdempotent` are action
properties. `Refinement`: `OutboxDelivery` implements `DurableOutbox`, reading
stored bodies as the waiting intents and entries with an outcome as the consumed
ones. Claims, leases, renewals, attempts and crashes are stutters, a handoff is
`Consume` the first time, an acknowledgement `Settle`, a last failure `GiveUp`.

**WorkflowConcurrency.** `SlotAccounting` and `HoldMatchesStatus` become
inductive with types and `Started` (what runs or is paused has its intents; no
insert is in flight, and no hold waits to be released, for an execution the store
does not know, and never both for one). All departures
share one lemma, `Departure`: the promoted ones `P` move from the head of the
line to the holders, the rest keeps its order, and the holders fit the limit if
anybody was promoted. Its count needs the length of a line without repetition to
be the number of its members. `TypeCorrect`, `SlotsAreExact`,
`HoldsFollowStatus`, and the action properties `LimitIsKept` and `LineStaysFifo`
follow, for any finite set of executions, limits and backlogs. `LineIsNeverStuck`
is the safety half of `QueuedIsServed`: whenever an execution is queued, a holder
has a step of its own to take or sits paused on the slot. It rests on the part of
`SlotAccounting` that says a line always has a holder in front of it.
`Refinement`: `WorkflowConcurrency` implements `AdmissionLine`. Both read the same
`holders`, `queued` and `limit`; a submission is `Admit`, `Join` or `Refuse`,
every departure is `Leave` with the promotions the limit allows (`DepartPromotes`)
or, of an execution that holds nothing, a stutter.

**LeaderElection.** `AtMostOneLeader`: if `MaxDelay <= Margin`, the local deadline
of a running replica never outlives its key (`LeaseCovers`), because a reply
under way belongs to a command that gave the key its full TTL no longer ago than
the reply's age (`ReplyIsFresh`), and tokens tell whose key it is
(`OwnTokens`). `RenewersStayStoppable`: a goroutine that may renew again can be
canceled, because the stored cancel function is that of the newest one or gone
(`Stoppable`). It and `TypeCorrect` need no bound on delays. `LossesAreHeard`
states for every instance what finding 2 leaves intact: while no two threads of
a replica change its leadership at once (`Alone`), a campaign loop that waits
leads, has the loss in its channel, or is about to be sent it (`LossIsHeard`).
The hypothesis is needed: without it TLC finds the overwritten notification.

**RunnerDirectory.** `DirInv` says that claims, rows, records, indexes and
counters name each other (`LedgerMatches`, `Shape`), that sessions are current and
that capacity is exact; each script keeps it (`HandoffLedger_proofs`). With
`FenceFirst` and what requests carry between steps (`Carried`) it is inductive
over all requests. `TypesHold`, `LedgerStaysConsistent`, `CapacityIsExact`,
`NothingUnderOldSessions` and `FenceIsHeld` follow. `ParkedClaimsAreReady` needs
`Parked`: a claim out of the expiry index is ready *and* nobody works on it.

`DirectoryImplementsBoard`: `RunnerDirectory` implements `AssignmentBoard`, which
reads a row that is absent or released as away and takes the holder from a
claimed or leased row. Each script is one move of the board or none: delivery is
`Offer`, a claim `Claim`, finalization `Lease`, and a requeue, a reclaimed
reservation or a registration is `Return`, of several claims at once in the last
case; a release, a reap or a drop is `Remove`. The capacity in `Claim` is that of
the board, so the proof shows that the counters the script reads are no smaller
than the number of assignments the rows give the runner (`BoardCounted`). TLC was also
run on an earlier form of the module with `ImplementsBoard` and the constants of
`directory` and `directory_settles`; no listed run repeats that, the theorem
covers it.

`NodeTasksAreKept` bounds finding 3: a pending node task that is neither in the
outbox nor queued nor claimed has had its intent answered as a duplicate
(`absorbed`), and nothing else loses one: no death between two steps, no engine
error, no resolver, reaper, sweep or registration, slow requests included. Its
invariant `Awaited` says of a task that waits (`Waiting`) that its row is queued,
or claimed with no request about to finalize that claim (`Offered`): a request
finalizes only what the engine leased, and from the lease on the task is running,
over, or has a new intent of its own. And a request asks about the task of its claim, drops only
what is over or a group (`Fits`); only the row of a group is ever cleared. The lemmas say that a
script leaves such rows and the task of every claim alone (`Stays`), and what a
request must bring for its next step (`MoveAwaited`).

**Only model-checked.** `Terminates`, `QueuedIsServed`, `WorkIsDrained`,
`OrphanIsRemoved`, `Settles`, `LeadershipReturnsUnraced` and `HandoffSettled`:
the prover does not reason about fairness or ENABLED. What is proved in their
direction is that nobody is ever out of steps: `ExecutionsCanGoOn`,
`LineIsNeverStuck`, `LossesAreHeard`, `ParkedClaimsAreReady`.

## 5. Findings

1. `cancel_stomped`: in memory, a commit that concludes the execution writes its
   verdict over `canceling` (`local/atomic_state.go:245`); Redis honours the
   cancel. In the counterexample it is a fatal failure, with a unit still
   undecided, that writes `failed`.
2. `leader_stuck`: `finishRenewal` and `IsLeader` give up leadership in several
   steps; when both do so at once, the slower one takes away the next term while
   its renewal keeps the key alive, or its notification is overwritten. Nobody
   leads, or nobody campaigns, from then on (`distributed/leader.go:293`).
   `LeadershipReturnsUnraced` holds: in the instances checked, that overlap is the
   only cause.
3. `directory_retry`: a retry's intent may be delivered after the report that
   caused it has committed and before it releases the row. The delivery is taken
   for a duplicate and acknowledged, then the row goes
   (`control/redis_runner_directory.go:3643`): the node stays pending and nothing
   would run it.

Met while modelling, not kept as runs:

- a parked execution that is canceled while its durable insert is in flight gets
  its intents released without a slot (`local/memory_state.go:473`, against the
  comment at 551);
- re-arming writes a score that was read earlier over a newer registration, so
  the index can be late (`rstate/state_outbox_index.go:409`); `index` shows that
  the sweep makes up for it;
- with `Slow = TRUE` a request that records its lease after the sweep dropped
  its claim's expiry entry drops the ready flag too, and the claim is in neither
  index (`control/redis_runner_directory.go:3907`), where the comment at 3691 says
  "never permanently": `ParkedIsReady` and `HandoffSettled` therefore speak of
  requests that finish within the claim's TTL;
- a *group* whose claim was marked and whose lease the engine then failed to
  build is dropped by the resolver, which reads a group without a lease as one
  that is over (`control/core.go:808`), so `LostOnlyAsDuplicate` speaks of node
  tasks.

A release is not fenced by the lease (`rstate/state_outbox.go:167`), so a flush
that lost its claim can open the entry another one holds. Delivery stays
at-least-once; `ExclusiveUnlessDisturbed` says exactly when a claim is exclusive.

## 6. Plan

In this order, each with its runs and, where marked (P), proofs:

1. `Suspension` (P): suspend, signal, timer and resume intents of a unit over
   both stores; one resume per wait, no signal lost, a timer and a signal never
   both win. Composed with `AtomicScheduling` by making a suspended unit one
   whose lease is given up without a decision.
2. `RunnerDirectory` composed with `LeaderElection`: two sweepers during a change
   of leader; the in-memory directory.
3. `EntryActivation` (P): reconciler, generations, inventory; an abstract
   specification with one live host per entry.
4. `EntryAdmission` (P): idempotency key to execution, crash and retry at every
   step.
5. `MergeCancel`, cyclic commits: extend the vocabulary of `AtomicScheduling`.
6. `SubWorkflow`, `Groups`, `Expansion`: parents and children, item counters.
7. The Redis concurrency limit, shown to implement the same abstract slot
   accounting as `WorkflowConcurrency`.
8. `KafkaTrigger`, schedules, `MemoryQueue`, `WorkflowRegistry`.
9. Pure algorithms as operators checked against reference definitions over
   bounded inputs: retry backoff, graph compilation (readiness, reachability,
   strongly connected components), cron misfire and catch-up.
10. A composition of scheduling, delivery and index for one execution, with
    `DurableOutbox` as the interface between the first two.

## 7. Not modelled, and why

The definitions stand for about 8,400 lines of roughly 212,000 (tests left out): the transitions at the core of execution. Of the rest, section 6 says what
is worth modelling next; the following is not.

What a node computes, expressions, payloads and encodings (data the protocols do
not look at); the SQL mirror beyond its insert; brokers and Redis themselves
(external, at-least-once queue and atomic scripts are assumed); HTTP and gRPC
translation, authorization, enrollment and encryption; metrics and tracing; SDK,
commands, generated code and the web console. Real time appears only as
deadlines that pass.
