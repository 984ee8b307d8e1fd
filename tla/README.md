# TikPoc in TLA+

TikPoc drives a fleet of phones through a pool of TikTok profiles: every target of an
*exposure round* is visited once by every device, each visit may end in a like, a favorite, a
repost or a mere trace, and priority batches interrupt the round while it runs. A second plane,
in Chrome and through a messaging service, follows back, welcomes and answers people.
Everything is coordinated through SQLite tables, in transactions opened with `BEGIN IMMEDIATE`, by
processes, tabs and workers that crash, stall, are replaced and read their clocks before they get to
the database. This directory specifies the parts whose correctness rests on that coordination,
checks them with TLC, and proves the safety of all nine models with TLAPS.

Paths below are relative to `src/tikpoc/` of the repository, or to its root.

## 1. The system

| part | state | operations | correct when |
|---|---|---|---|
| worker leases (`acquisition_db.py`, `fleet.py`) | `device_worker_leases`, `device_worker_fence_counters`; per launch the guard thread and the child process | claim, renew, release; fence check before and after each device operation | one worker per device and account; tokens never repeat; a replaced worker's results are dropped |
| fleet supervisor and loop (`fleet.py`, `fleet_runtime.py`) | running and stopping workers, health records, restart counters | start, poll, restart, stop; recovery of expired leases at each poll | every device is started, restarted or given up; nothing is released twice |
| assignment ledger (`acquisition_db.py`) | `round_assignments` (phase, lease, schedule, visit), `exposure_rounds` | claim, visit, renew, transition, defer, skip, complete, recover, retry | one worker per person at a time, visits a gap apart, rounds end when their rows do |
| operator commands (`acquisition_service.py`) | `operator_control_states`, `operator_commands`, round states | start, pause, stop, retry, each idempotent by command id | commands never reopen or close what the ledger has not |
| mobile worker (`mobile_worker.py`, `device.py`) | one assignment, its `device_action_plans` row, the phone | visit, snapshot, plan, video, action, one reconciliation, fallback | no action is tapped twice, every end is explained by the plan |
| pacing and quotas (`acquisition_db.py`, `outcome_planner.py`) | token buckets, plans of the last hour, books per clock hour | plan, execute, record, fall back, audit | no hour, wherever it begins, has more plans than the limit; plans are spread; books and plans agree |
| profile snapshots (`acquisition_db.py`) | `profile_snapshots`, snapshot leases | claim the lease, publish | one observation per person and round, read by all devices |
| priority batches (`acquisition_db.py`, `priority_service.py`) | `priority_batches`, their rounds | submit, scheduled claim, shared coverage | FIFO, every device waits until a batch is over, coverage goes back to real visits |
| import (`importer.py`, `priority_importer.py`) | the reader's lists and tables, `target_pools` | read a row, merge identities, store the pool | one target per person, every row counted once |
| follow-backs and welcomes (`db.py`, `browser_welcome.py`, `chrome-event-bridge/content.js`, `dm-content.js`) | action leases, the circuit breaker, welcome plans, suppressed contacts, the tabs' storage | claim, click, report; draft, fetch, claim, send, report; stop, cooldown, switch | one canary per probation; no welcome is granted after a stop; a second one has a cause: an overrun lease or a mark lost to an older copy |
| replies (`db.py`, `browser_dm.py`, `lead_conversion.py`, `dm-content.js`) | reply plans, leases, conversations, the tabs' storage | plan, claim, mark, send, report; take over, write, switch | budget kept and no message answered twice, with the exceptions section 4 names; after a takeover only who was already sending sends |
| event queue (`db.py`, `web_worker.py`, `business_messaging.py`) | `web_events`, `web_messages` | receive, claim, answer, record, finish, recover | settled events stay settled; every message is settled; a second answer has a cause |
| publishing, proxy guard, settings, interfaces | configuration and files | — | mostly input and output |

How they interact: the supervisor claims a worker lease and starts a child process per device. The
child opens the database itself and loops: check the fence, `claim_scheduled_assignment`,
`run_assignment`. Every call of the child into the repository carries the fence's identity and is
refused once the device lease or the row's lease is over; every call into the phone is bracketed by
two fence checks. The fleet loop polls its children and recovers expired assignment leases. Operators
write control states and round states through the HTTP interface at any time. Priority batches are
rounds of their own whose rows and visits the ledger shares with the parent round; both are read from
files by the import. The browser plane shares no table with this: tabs of two extensions call the
HTTP interface, keep records of their own in the browser's storage, and are told by server and
storage what to leave alone. Business accounts come in by a webhook and are served by workers that
poll the events.

What is hard: calls that act on a clock value read before they queued for the database; workers
and tabs that go on after they were replaced; crashes between the mark of an action, its tap and its
record; answers lost between server and tab; a language model that writes for seconds while a person
takes over, says stop, or another tab comes; several devices, launches, rounds and operators on the
same rows; the order of batches and the propagation of visits between rounds. `PROJECT.json` lists
these hazards one by one, at their lines.

## 2. The modules

| module | what it is | what it stands for |
|---|---|---|
| `FencedTenancy` | abstract: seats, numbered tickets, exclusive operations | the promise of the worker leases |
| `LaunchFence` | the fences of launches, without rows, tokens and clocks | what `AssignmentLedger` is built on and `WorkerLease` implements |
| `WorkerLease`, `WorkerLeaseProofs` | the lease table, the guard and the fence in detail | `acquisition_db.py` 412-678, `fleet.py` 193-878 |
| `PhaseTable` | the phases of a row and the table of its transitions | `acquisition_db.py` 40-81, `acquisition_models.py` 21-33 |
| `RowCourse` | abstract: the course of one row, without leases, owners and clocks | what the ledger gives every row and the worker keeps to |
| `AssignmentLedger`, `AssignmentLedgerProofs` | rounds and assignments under leases, fences and operators | `acquisition_db.py` 1601-2397, 2541-2566, 4273-4300, `acquisition_service.py` 488-806 |
| `ActionExecution`, `ActionExecutionProofs` | one assignment as a worker runs it against database and phone, its snapshot shared with other devices | `mobile_worker.py` 129-569, `device.py` 297-341, the plan and snapshot calls of `acquisition_db.py` 3005-4047 |
| `PlanCourse` | abstract: the course of one action plan, without tokens, books and launches | what the repository gives every plan and the worker keeps to |
| `PacedPlans`, `PacedPlansProofs` | the plans, tokens and books of a device over many assignments | `acquisition_db.py` 3417-4047 with the audit, `outcome_planner.py` |
| `BatchBarrier` | abstract: a line of batches and whose turn it is | the promise of the priority queue |
| `PriorityQueue`, `PriorityQueueProofs` | batches, barrier, scheduled claims, shared coverage | `acquisition_db.py` 1168-1599, 2357-2395, 4273-4445 |
| `TargetImport`, proved in `AssignmentLedgerProofs` | one file, four readers, one pool | `priority_importer.py`, `importer.py`, `acquisition_db.py` 897-982 |
| `CircuitBreaker` | abstract: when claims are given out, and what closes the circuit | the promise of the circuit of an account |
| `FollowbackCircuit`, `FollowbackCircuitProofs` | follow-backs, circuit breaker and welcomes of an account | `db.py` 2199-3620, `content.js` 175-450, `dm-content.js` 763-815, `browser_welcome.py` |
| `ReplyConversation`, `ReplyConversationProofs` | one conversation between tabs, server, model and operator | `db.py` 1416-3004, `browser_dm.py` 162-361, `lead_conversion.py`, `dm-content.js` 551-739 |
| `EventQueue`, `EventQueueProofs` | inbound messages of business accounts and their workers | `db.py` 1187-1373, 3643-3676, `web_worker.py`, `business_messaging.py` |

`MC*` modules give the constants their values where a `.cfg` cannot; each `.cfg` is one run.

**WorkerLease.** `lease`, `lastToken` are the two tables; `life[l]` is the supervisor's view of a launch,
`child[l]` the process, `beat[l]` and `check[l]` the clock values read and not yet used. An action is
a transaction: `ClaimGranted` and `ClaimRefused` both delete the expired rows they meet (492-498),
because the code does. The constraint `UNIQUE(account_id)` of the table is left out: `AccountExclusive` shows that the claim's query is enough
without it. `Crash` kills the supervisor and leaves its child running. The clock is one per
host; SQLite serialises the transactions. Device operations have a beginning and an end
(`BeginOp`, `AcceptOp`), between which anything may happen.

**AssignmentLedger.** The variables are the columns `phase`, `lease_owner`, `lease_expires_at_ms`,
`next_attempt_at_ms`, `visit_confirmed_at_ms` and `attempt_count`. A claim recovers the device's own expired rows of
the round in the same transaction, chooses by the `ORDER BY` of the query and
is blocked by any row of the same `identity_key` with a live lease or a recent visit. Fenced calls
compare with the clock of the transaction (`_fence_validation_now_ms`) and store a time read earlier: `Readings`.
`fence` and its steps are those of LaunchFence: waiting, active, lapsed, out, where a lapsed lease may be
revived by a late heartbeat as long as nobody else has the device. WorkerLease implements LaunchFence, so the ledger
assumes of the fences only what the lease table provides. Skips ask for
one attempt (`MAX_PROFILE_OPEN_ATTEMPTS` is 1). The argument `manual_retry_only` of
`defer_assignment` has no action: the worker passes it as true only for an unreachable profile with a
visit, and `run_assignment` has completed such a row two branches before.

**ActionExecution.** `pc[w]` is where a launch stands in `_run_claimed` and `_execute_interaction`; a step is
one transaction or one operation of the phone. A launch that has lost the device can still do what the phone is
in the middle of (`Tap` has no fence), and leaves at its next call. `Land` is TikTok applying a tap,
late or never. Leases are only live or not: the timing is AssignmentLedger's. A recorded
`not_applied` of `execute_outcome` is part of the device protocol and handled by the worker,
although `AppiumTikTokDevice` itself never returns it.

**PriorityQueue.** A row is `held` by a worker, `left` under a lease that outlives its worker, or
`lapsed`. `Turn` is the loop of `claim_scheduled_assignment` over the unfinished batches, `Advance` and `AfterClaim` what
the loop writes on its way. `Satisfied` is `_propagate_confirmed_coverage`, with the shared aliases, the conflict
check and the rule that a link counts only if it is the only one of both its ends. `visited` is the column,
`went` a history variable: the device has been on that page for that very row.

**How the models of the device plane fit together.** WorkerLease has the lease table and the processes, the ledger has all rows under
abstract fences, ActionExecution has one row and one plan under launches that come and go, PacedPlans has all plans of a device under a clock and
books. Three small specifications stand between them: `LaunchFence` (WorkerLease implements it through `FenceTable`, the ledger uses it),
`RowCourse` (the ledger implements it for every row, ActionExecution for its own: a worker never asks for a transition the ledger refuses) and
`PlanCourse` (PacedPlans implements it for every plan, ActionExecution for its own). All six refinements are theorems (section 5); they were
checked on the instances of the runs `worker_lease`, `ledger`, `action` and `plans`, from the modules' own `Init`, before they were proved.

In both device models two facts are taken from the callers: every round has an assignment (`rounds.py` 36-39,
`acquisition_db.py` 1041-1043), and a reconciliation never answers `unavailable` (`device.py` 335-341).

**PacedPlans.** `plan` has the rows of `device_action_plans`, `tokens` and `at` those of `action_pacing_state`, `books`
those of `acquisition_quota_windows`. Tokens are counted in parts, so that a tick of an hour adds a whole number.
`PlanPaced` is `create_paced_action_plan`: a bucket that is ahead of a clock that was set back refuses, a ready outcome
takes a token and a place in the book of its hour. `Record` and `FallBack` move the plan and its book together.
`Misfits` and `Overrun` are the queries of the capacity audit. The launches around a plan are ActionExecution's: here its steps
come in any order. `create_action_plan`, which no worker calls, is left out.

**TargetImport.** The state is the reader's: the list of `targets`, the table `aliases` from names to positions, the two
counts. `ReadPriority` merges as `_merge_target` does, renumbering the table when a target is taken out; the three other
readers go by one key. `ImportPool` stores the rows behind the targets. Rows are what is left after names are stripped and lowered,
and the made-up "dom-" ids read as no id. The reference is written without the table and the list: `Kin` relates the lines of a file whose rows share a name,
and `People` are the smallest sets of lines that kin never leaves.

**FollowbackCircuit.** A tab is at one of the places where another request, a lost answer or a closed page can come between:
before its claim, with a lease, after its click, with an answer to report, and the same for a welcome. `Seen` is the circuit as a
claim finds it (a cooldown that is over becomes a probation), `Permits` the test of the claim, `Opened` what an unresolved click leaves.
`attempts` and `marked` are two maps of the browser's storage, each read whole and written back whole: a follow-back saves the tries as its scan had
read them (`Copies`), a welcome and a reply save the marks as they were when the tab looked (`tab[t].seen`, `SaveMarks`), before the sending and again after the results. What other tabs have
marked in between is lost then; `erased` remembers whose mark. Replies are in this model for that alone (`BeginReply`, `NoteReply`). The entries of the first scan (`baseline`) are in every copy.
A tab's check for messages that are already on the page (`existingMessages`) may fail or not, and nothing rests on it. `BeginWelcome` and `CreateWelcome` lie on the two sides of the call of the
language model. `Restart` loses the tasks of the server's process. To whoever looks at clock, circuit and the owner and end of each lease only, the account is a
`CircuitBreaker` (`ImplementsBreaker`): closed, cooling down, or on probation with at most one action on trial.

**ReplyConversation.** `drafting` is the call that holds the account's lock, from `begin_browser_reply_plan` to
`Finalize`; takeovers, claims and switches do not take the lock and come in between. `plan`, `manual` and `lease` are tables,
`processed` the map of marks the tabs share: `Save` writes what the tab had read with its own message added, as `scanOnce` does three times: when it gives a plan up,
before it types (`Mark`), and after both results (`Note`). Each may lose another tab's mark. The map is that of all conversations and of the welcomes, so a tab that is busy
`elsewhere` loses marks as well. `loose` has the messages whose mark was lost or came when another tab was already at the message. An operator's plan (`ManualPlan`) only takes its place in the budget: the server would
accept a claim for it (`db.py` 2837), but nothing in the extension fetches or sends one. `Accepts` and `Sources` are the transitions the result endpoint allows. `return_lead_to_ai` stores a result and changes no
stage, so it has no action. Kinds of messages stand for the assessments `assess_inbound` can make.

**EventQueue.** `worker` has the places between the transactions of `run_one`; `Send` covers the model's draft and the service's call with its
three ends. `Record` may end in a further attempt although the answer is on record: marking the message as read can fail with an error that is not the service's. `Start` is `recover_stale_web_events`, which resets the running events of everybody. `Locked` is a database that stays locked for longer than a
step waits: the loop goes on with the next event. The conversation's messages are the events in their order.

## 3. The runs

| run | instance | distinct states | shows |
|---|---|---|---|
| `worker_lease` | 2 devices of 1 account, 3 launches (two share an owner id and a device), lease 2, clock to 4 | 408,676 | exclusion of accounts and accepted operations, refinement of FencedTenancy |
| `ledger` | either one target on 2 devices in one round and again in a second, 3 launches, clock to 3; or 1 assignment through all phases, 2 launches, device, assignment and round commands, clock to 4; leases 1-2, gap 2, 2 attempts | 1,024,196 | one worker per target, visits apart over rounds, only fenced writes; a round is completed exactly when its rows are over |
| `action` | 3 launches, like and repost, 2 failures, 2 attempts, another device at the snapshot, `FairSpec` | 209,334 | one tap at most, explained ends, one snapshot; every run ends |
| `priority_queue` | 2 devices, one person in the round and in 2 batches, 1 failure, round commands | 117,247 | rounds close in time, refinement of BatchBarrier |
| `priority_drains` | 2 devices, a round with a username and 2 batches with two people of that username, 1 failure, `FairSpec` | 24,264 | coverage goes back to visits of the same device; everything comes to an end |
| `priority_twice` | 1 device, 2 batches with a person the parent lacks | small | a promise of the documents the code does not keep, below |
| `priority_chain` | 1 device, the rows of `priority_drains` | small | another one, below |
| `followback` | 2 tabs, 2 followers, lease and cooldown 1, 1 try, clock to 2, 1 operator command | 671,902 | one canary, which alone ends a probation; no welcome granted after a stop; a second welcome explained |
| `reply` | 2 tabs, 2 messages of 3 kinds, other conversations, budget 1, lease 1, clock to 1 | 2,799,284 | budget of replies, explained second answers, silence after a takeover |
| `events` | 2 workers, 2 messages, limit 1, 2 attempts, 1 fault, `FairSpec` | 743,469 | explained second answers, bounded excess, settled stays; everything is settled |
| `plans` | 1 device, 3 profiles, like and repost, hour of 2 ticks, clock to 4, set back once | 723,687 | rolling hour, pace, clean audit |
| `target_import` | all priority files of up to 5 rows, all others of up to 3, 3 names, 2 user ids, 1 sec_uid | 219,932 | targets are the people of the file, a file is refused for a conflict in it and for nothing else, each row counted once |

Why these bounds are enough for the questions: a theft needs two launches of a device and a clock
value older than a lease, so 3 launches and 4 ticks with leases of 2; a token could repeat only
after a release and a new claim with the same owner. A gap can be undercut only by two rows of
one person and an expiry in between; the two rounds start stopped or with every row tried before, so that
retries and a second round are within reach. The second situation of `ledger` has the first one's rows over and phone d2 stopped, as they may be, and is the only one
with commands and with all phases. A double tap needs a tap, a takeover and a second attempt:
3 launches and 2 failures allow the takeover twice. FIFO needs two batches, the barrier two devices, and the
second batch knows its person by the name alone, so that aliases and keys differ. A loan of a visit to another person takes three rows: two people
of one name, and a row between them that has the name alone. A canary race needs two tabs and the end of a cooldown; a second welcome
two tabs and the end of a lease, or a mark between another tab's reading and its saving. The followers that do not matter to a run were there before the tabs began to watch (`baseline`): an account that sends welcomes
has one new follower, one that sends none has two. The operator's commands are given in the second case, the contacts speak in the first, and a tab begins a reply while a welcome is planned, which is when marks matter.
A reply is repeated by two tabs with one lease running out between them; the budget of 1 is exceeded by the second message. There a tab turns to another conversation only before the second message arrives
(it may save later), the AI is switched off under a busy tab only then, and "buying" is left out, which equals "plain" when one turn is enough for the invitation. The
limit of a conversation is passed when two workers have counted. A merge that disturbs later positions needs two targets joined in front
of a third and a row that looks the third up: five rows. Bounds in the modules: `MaxTime`, `MaxClock`,
`MaxAttempts`, `MaxFailures`, `MaxFaults`, `MaxOrders`, `MaxSteps`, `MaxRows`, `ShortFile`, `MaxActionAttempts` (the
code's own parameter, 3 by default and 2 in the run), `Operable`, `RoundCommands`, `Journey`. Symmetry is used only for safety, over devices,
tabs, followers, profiles and names. Deadlock checking is off where the bounds stop the clock or everything is done.

Each property has a mutant: an operator marked MUTANT beside the definition it replaces, a plausible
bug in that code, under which TLC finds the property violated.

**Fairness.** `ActionExecution` and `PriorityQueue`: a worker process takes its next step,
the supervisor starts a successor, a lease nobody renews runs out, another device that reads a profile publishes it, and the fleet loop, which polls while it
lives (`fleet_runtime.py` 283-287), recovers expired leases. `EventQueue`: a worker goes on with what it has, one that is down is started again (weak fairness of `Start`: whoever
supervises the process starts a dead worker again, which is outside `src/`), a delay passes. All of it is
weak fairness, as each step stays possible until taken; failures are finite by the bounds, as the loop gives up after
3 restarts of a device (`fleet_runtime.py` 256-260). Liveness therefore speaks of a fleet whose loop has not been ended,
and of rounds no operator has stopped. `SettledAtLast` has an exception the code has: an event whose worker dropped it and lives waits for some worker to start.

## 4. Where code and documents differ

Shown by a run:

* `priority_twice`: a new batch is satisfied by visits of the parent round only
  (`acquisition_db.py` 1389). A person an earlier batch has visited and the parent does not contain
  is visited again, against the design (spec 2026-07-22, acceptance criterion 2) and
  `docs/tikpoc-business-logic.md` 128.

* `priority_chain`: conflicts are checked between the two ends of one propagation (`acquisition_db.py` 4373). A parent row with a
  username alone is completed by the visit to one `sec_uid` and then satisfies the row of another `sec_uid`, a different person that nobody
  visited; `docs/tikpoc-business-logic.md` 128 says that identity conflicts are not propagated. `CoverageTraced` is what does hold: behind
  every lent visit there is a visit a device made, one link of matching rows at a time.

Met while modelling, without a run that expects a violation:

* A row completed as `action_uncertain_terminal` lends its visit and its completion to other rows,
  without the error (`acquisition_db.py` 4325, 4413). The plan of 2026-07-22 says at 313 that uncertain action state is never propagated.
* A parent row that was visited and then deferred does not satisfy a new batch; the design of 2026-07-22 (66-70) asks
  for a confirmed visit only, `docs/tikpoc-business-logic.md` 128 excludes deferred rows.
* Exports join rows by the key of each row (`importer.py` 93): a person with and without a `sec_uid` becomes two targets. The business logic
  promises one target per person at 35. `OneTargetPerPerson` is stated of the key for these readers.
* When the result of the canary is lost, the circuit keeps its key and no claim passes until the operator orders a cooldown
  (`db.py` 3288-3291); the comment at `chrome-event-bridge/content.js` 294 speaks of a lease that is busy until its expiry.
* The design of 2026-07-16 (187-188) allows one reply per inbound message and a budget of replies. A second reply to a message leaves when its lease was
  given out again after it ran out and a tab overlooked the mark, or the mark was lost in the whole map another tab wrote back
  (`RepliedTwiceExplained` says that nothing less is enough). Second replies are beyond the budget, which is
  counted in plans, and so is a reply whose plan another tab gave up while it was being sent (`db.py` 1820). `BudgetKept` counts every reply that left and names both
  exceptions (`Uncounted`).
* The design of 2026-07-19 (`autonomous-asynchronous-customer-service`, 139-140) excludes a second welcome after a reload. The mark of a
  welcome is in the same map, read once and written back whole after awaits (`chrome-dm-bridge/dm-content.js` 763, 802-807, 826-831), so another
  tab erases it; with a lease that runs out after the first tab closed a second welcome leaves, in time as well (`WelcomedTwiceExplained`).
* After an answer is on record an error in marking the event read (`web_worker.py` 154-157) ends the event as `failed` or has it tried again, although it is answered.

## 5. What is proved

For every value of the constants, under the assumptions the modules name (which TLC evaluates in the runs), and for any length of
behaviour. Each model has one inductive invariant, `IInv` (`ImportIInv` for the import), which TLC confirmed on the instance of the run before it was proved; the proofs show `Init => IInv`,
`IInv /\ [Next]_vars => IInv'` with one step per action, and draw the properties from it.

* **WorkerLeaseProofs** (`LaunchAssumption`, `TimeAssumption`, `NoRowAssumption`). `IInv` adds to the properties that no token exceeds its
  device's counter, that a launch without a claim has none, that a row carries the *last* token of its device, and that a
  clock value in hand lies in the past. Exclusion of accounts alone is not inductive for the refinement:
  a refused claim purges several rows unless at most one other row has the account. `LeasesNotStolen`: a stale clock value is an
  early one, so what is live now was live to whoever claims. `AcceptedOpsExclusive`: the second check of an operation compares the token with the row,
  and the row is the latest. `Refinement`: each action is a step of FencedTenancy or a stutter. `FencesImplemented`: the same table implements LaunchFence; a launch whose token is no longer
  the counter of its device is out, and only who has claimed has a child or a token (`ClaimedFirst`), so a launch that waits has nothing to lose.
  `TokensUnique`, `LeasesNotStolen` and `FencesImplemented` are proved and in no run.
* **AssignmentLedgerProofs**. A row is leased to workers of its own device; while a worker holds a live lease on a
  row, every visit to that target lies a gap before the moment of its claim (`GapBeforeClaim`): that is what makes `VisitsApart` inductive, since a visit is stored
  with a time read after the claim. `RoundsCompleted` needs the operator's commands and every end of a row in the same invariant.
  `FencedWrites` is an action property. At most one launch of a device is in force (`OneLaunchInForce`), and a launch that waits holds no row (`WaitingIdle`), which
  `FencesAsDescribed` needs when a worker that lost its row exits. A worker that holds a row read a clock above zero when it claimed it (`ClaimsDated`): a stored visit is never
  mistaken for the missing one, so that a row takes its course (`RowsTakeTheirCourse`) and gets past the opening of the profile only with a visit (`VisitedFirst`).
* **ActionExecutionProofs**. Only the launch that has the device changes the plan, so what it remembers of it is stored
  (`PlanInHand`); a tap, or a launch past its last check before one, is on the record, and no launch with the device is on its way to another
  (`TapsOnRecord`). From this `TappedOnce`, `EndsExplained`, and `SnapshotFinal` as an action property. `InPhase` ties the phase of the row to the place of its
  owner, `LookedOnce` and `PlanInStep` the plan to the place of the launch with the device: from the first follows `CourseKept` (no call of the worker is refused by the table of transitions,
  wherever an earlier launch was cut short), from the others `PlanKept` (what is uncertain is looked at again and never executed).
* **PacedPlansProofs** (`PacingAssumption`: finitely many devices and targets, an hour that is not empty, a limit above zero for every outcome in use). A plan fits its row whatever its state (`Fits`). No interaction is younger than its
  device's bucket (`Dated`): this is what the refusal of a bucket that is ahead of the clock is for, without it a clock that was set back would let plans fall behind those there are.
  The books of every clock hour agree with the plans (`BooksAgree`). What a bucket holds and what was made of it since a moment does not exceed what it could hold, what flowed in, and what
  older plans gave back (`Balanced`): the sum from which `PlansSpread` follows, since a plan leaves a bucket that is not below zero. The plans of a clock hour up to now are among those of the rolling hour, so the books never
  refuse what the rolling hour lets pass (`NeverRefusedLate`, proved and in no run), and the audit finds nothing (`AuditFindsNothing`). `RollingHourKept` holds for every hour there was, also when a reposting
  gives its place back. `PlansTakeTheirCourse` is the refinement of PlanCourse.
* **FollowbackCircuitProofs**. The follower a probation is reserved for is leased to the one tab let through (`CanaryIsLeased`); a stop has ended the
  plan of whoever a tab looks at (`StopEndsPlans`); after a welcome that left in time no tab can
  send another in time as long as the mark of the first is there (`SentOnce`), and a mark goes only when a tab writes back a map read before it. From this
  `SecondWelcomeExplained`: a second welcome had a late sender or a lost mark.
  `BreakerImplemented` is the refinement of CircuitBreaker, whose mapping uses no history variable: a stamp lies in the past, so a cooldown over for a claim is over for everybody, and
  a lease free for it is free. The refinement is proved and in no run (it holds on the instance of `followback` too, where letting every claim pass, ending a probation with any action, or claiming
  leases and cooldowns that are not over breaks it).
* **ReplyConversationProofs**. Two invariants for a second answer, one for each thing that must have failed: as long as a lease was not given out twice
  there is one sender (`OncePerLease`), as long as no mark was overlooked or erased by a map written back, the second time a scan saves included, the tabs keep off (`OncePerMark`).
  `BooksKept` counts replies planned, sent and uncertain together; with cardinalities of finite sets, and the replies on no plan's account named one by one
  (`CountedReplies`), it gives `RepliesWithinBudget`. `OperatorKeepsIt` rests on `OnlyByTakeover`: nothing but a takeover asks for a person.
* **EventQueueProofs**. An event no start has taken from its worker is in one hand (`HeldAlone`), and its one answer is on record, settled, or vouched for by that
  hand (`AnswerKept`). For the window the answers on record are counted with those on their way (`WindowCounted`): a worker that has counted adds one
  where there is room, and a record turns one into the other.

* **PriorityQueueProofs**. The queue holds exactly the batches that exist, an unsubmitted one is untouched (`QueuedAreKnown`, `AbsentAreUnbegun`), a batch a claim has passed by is over
  (`PassedAreOver`), and a device has one row in hand (`OneInHand`). Whose turn it is needs the first unfinished place of the queue, which well-foundedness of the naturals gives
  (`Least`). `RoundsCloseInTime` is a part of the invariant, `BarrierKept` the refinement of BatchBarrier, action by action. `CoverageIsTraced` has no assumption on which rows match: every
  recorded visit is traced to one a device made (`VisitTraced`), and lending a visit adds a link to its trace. That the two ends of a trace are one person does not follow, see section 4.

* **TargetImport**, in the second part of AssignmentLedgerProofs (`ImportAssumption`; any rows, files of any length). `ImportIInv` says of every moment what `OneTargetPerPerson` says of
  the end: the lines of the targets are the people of the rows read so far (`Traced`). It is not inductive without the table: every name of a target's rows leads to the target, and every entry comes
  from such a row (`NamesLead`), so that the targets a row matches are those of the people it is kin to (`MatchedPeople`). What those become is a fact about sets alone: with one element more
  the parts it touches are one and the others stay (`NewPart`). That the table still leads right when targets are taken out of the list is a fact about numbers (`Places`): renumbering fills the
  places left without a gap and identifies no two but the joined. `IdsAgree` (a target has the ids of its rows) makes a conflict of targets one of rows, which `RefusedForCause` keeps;
  from it a finished file also has none. `ImportRowsAccounted` needs the sum that `import_pool` stores: it is a fold, and that a fold of disjoint sets is the size of their union is shown
  without induction, by a smallest set on which the two functions differ (`RowsSummed`). The two proofs of the module share no variable.

Every safety invariant and action property of the runs is stated by a theorem, and so is every refinement. Only model-checked, because it is out of the
prover's reach: liveness under fairness (`Ends`, `Drains`, `SettledAtLast`).

## 6. What is not modelled

* Fleet supervision beyond leases (`fleet.py` 405-987, `fleet_runtime.py` 178-313): health records, restart back-off, the end of a fleet because one device cannot
  be released, a start that is broken off half way. Planned as a module composed with WorkerLease.
* The idempotency table of operator commands, and the composition of ledger and queue over identities that one pool knows by `sec_uid` and another by name.
* Device events and tasks of the older single-phone worker (`worker.py`, `runner.py`): the same claim and recovery as `EventQueue`.
* Publishing and the proxy guard: sequential, supervised from outside.
* Left out for good: wording, parsing of pages, language detection and knowledge base, HTTP and command-line interfaces, the console, deployment,
  settings, external services. They hold no concurrent state, or none that belongs to this program.
