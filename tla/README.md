# homelab-helper: a TLA+ verification

homelab-helper keeps an inventory of a home lab, finds what is wrong with it, advises, and may act.
What it may do is decided by a trust gradient: a deterministic gate (`decide()`), a ladder of trust
cells that rise slowly and fall at once, host ceilings, elevation windows with a kill switch, and
one executor that every write to the lab goes through. Around that core stand the operations that
feed it (discovery, findings, playbooks, maintenance runs), the ones that keep records of the lab
(lineage, resolution, usage, syncs to NetBox) and the ones that only advise (rebalance, placement,
interviews). This directory models them, checks them with TLC, and proves the main safety
properties of the core with TLAPS.

Paths below are relative to `src/src/homelab_helper/` unless they start with `docs/`.

## The system

| Component | State it keeps | Operations | Talks to |
|---|---|---|---|
| Trust gate, `engine/trust.py` | none (pure, on a frozen context) | `decide` | read by executor, listener, previews |
| Cells, `engine/escalation.py`, `grant_cell` | `cell_trust` rows: level, clean streak, probation, granted_by | clean outcome, bad outcome, rejection, grant | executor, exec accept/reject, trust grant |
| Floors, `engine/trust.py` | domains (seeded), host boundaries, elevation windows, audit rows | boundary-set, window open / revoke / kill, expiry | operator's CLI; read by the gate and the checkpoint |
| Executor, `engine/executor.py` | proposals' outcome, receipts | `execute_proposal`, dispatch and its waits, `rollback_receipt` | adapters, approval channel, cells, notifier |
| Approval channel, `engine/approval.py` | none: a notification, a websocket wait | ask; answer, timeout, failure | Home Assistant |
| exec CLI / MCP trigger, `cli/execute.py`, `mcp_server.py` | one database session per command | run, accept, reject, rollback; `execute_proposal`; draft tools | executor |
| Database sessions, `db/session.py` | SQLite (default) or Postgres | commit on exit, roll back on an exception | everything |
| Listener and daemon, `engine/listener.py`, `cli/daemon.py` | audit rows of earlier asks | one pass: ask all, then execute the answered | channel, executor |
| Rollback, `engine/rollback.py` | the plan stored in a receipt | verify, capture, restore | adapters |
| Manifests, `engine/manifest.py`, `parse_manifest` | the artifact of a proposal | draft and validate; parse, resolve adapters, dispatch | the draft tools, playbooks, executor |
| Maintenance, `engine/maintenance.py` | runs and their steps | plan, execute step by step, abort, resume | executor, one approval per run |
| Playbooks, `engine/playbooks.py` | drafts (pending proposals) | draft, cool down, withdraw | findings |
| Category findings, `engine/category_findings.py` | findings | open, reopen, update, resolve | the discovery passes |
| Discovery, `cli/discover.py` and a dozen engines | none of their own | ask the sources, judge, report | findings |
| Reconciler, `engine/reconciler.py`, retire | parts, placements, hosts | reconcile a host, merge, retire | probes |
| Resolution, `engine/dns_reconcile.py`, `service_aliases.py` | services, endpoints | one pass per source, imports, retire a resolver | controllers, DNS, Home Assistant |
| NetBox, `engine/virt_reconcile.py`, `netbox_vm_sync.py`, `cli/netbox.py`, `adapters/netbox.py` | guest rows with the values last agreed | discover, three-way sync, direct push, host push | NetBox, which people edit |
| Schedule, `engine/schedule.py`, `runner.py`, assertions | last runs, verdicts | run what is due, judge, open and resolve | daemon |
| Digest, `engine/digest.py` | digest windows | build, deliver, record | daemon, CLI |
| Usage, `engine/usage.py` | rollup rows | roll up, prune, summarise | rightsizing, capacity |
| Advice: `engine/rebalance.py`, `dimm_fit.py`, `placement.py`, `network_path.py` | none | plan, rank | operator |
| LLM layer, `llm/`, `cli/chat.py` | a transcript; the hosts an interview registers | route to a backend, chat, onboard | backends, operator |

What is hard here is not in any one function. Several processes (a CLI run, the MCP server, the
daemon's jobs, the operator's commands) work on one database with no lock above SQLite's own;
one `execute_proposal` waits minutes for a probe, a fifteen-minute approval prompt, a snapshot and a
reboot, between reads it goes on trusting; the lab is changed before the database is; outside
systems are edited by people while they are synced; a pass sees only the sources that answered; and
a process may die or find the database busy anywhere. The hazards in `PROJECT.json` list where each
of these bites. For each component, what makes it correct:

- gate: never above an absolute ceiling; a lift removes ceilings and grants nothing; refusing on the
  pessimistic decision loses nothing;
- cells: no promotion that was not earned, none past the domain's ceiling, none while on probation,
  no update lost between concurrent sessions;
- executor: authority for every dispatch, on record before it; one receipt per dispatch; a decided
  proposal stays decided; a closed window stops a run; "succeeded" means that the node is back;
- channel, sessions, dispatch: every wait ends, locks are given back;
- listener: a failure stops what was approved under the old trust; an answer ends the asking;
- rollback: a receipt is restored from once, to the state it was made in;
- manifests: what is drafted runs, as what it was drafted for, gated as what it is;
- maintenance: stop at the first failure, hold an abort, bring every guest back, one open run a node;
- findings, playbooks, schedules: a finding is what the last look saw, silence closes nothing, one
  live draft for each, never too early nor too often;
- lineage, resolution, usage: records follow the newest report, and no other writer's slice is lost;
- NetBox: what a person set stays; an undisturbed sync leaves both sides equal;
- digest: consecutive windows neither skip nor repeat;
- advice: each plan can be followed, each ranking defended, each answer attributed.

## The modules

| Module | Models |
|---|---|
| `TrustGate` | `decide()` and its context; operators, no state |
| `CellLadder` | what each operation does to one `cell_trust` row; operators, no state |
| `CellTrust` | the abstract specification: one row changes by one outcome or grant |
| `CellHistory` | `CellTrust` with the history its rows do not keep |
| `Executor` | sessions running, accepting and rejecting proposals against one SQLite database, with the operator's commands, windows, expiry, busy errors and deaths; implements `CellTrust` |
| `Dispatch` | the one adapter write of a run, its preflights and waits |
| `Rollback` | runs, receipts and undos over one target |
| `Listener` | the daemon's listener passes over several proposals |
| `Manifest` | an artifact from the tool that drafts it to the adapter that gets it |
| `DrainPlan`, `Maintenance` | how a run is planned (operators), and how it is carried out |
| `Findings` | findings and the playbooks that draft for them |
| `Discovery` | what every discovery pass makes of what it saw: one finding's life |
| `Probing`, `Assertions` | the two halves of the schedule and the findings they keep |
| `Digest` | windows, deliveries and the events that commit around them |
| `Lineage` | which part sits in which host, with retire and merge |
| `Resolution` | services and endpoints, written by every resolver |
| `Usage` | the rollups of one series |
| `GuestSync`, `HostPush` | guests and hosts on their way to NetBox |
| `Rebalance`, `Placement` | the two solvers, as they run |
| `Interview` | the router, `helper chat` and `helper onboard` |
| `MCOperations` | twenty-one parts, one of which (`part`) a behaviour is of: it extends `CellHistory`, `Rollback`, `Findings`, `Digest`, `Maintenance` and `Manifest`, and instantiates the others |
| `MCLiveness` | what must end: it extends `Dispatch` and instantiates `Executor` and `Listener`, under fairness |
| `MCExecutor`, `MCListener`, `MCMaintenance`, `MCGuestSync` | the other instances |
| `CellLadder_proofs` | the gate and the ladder |
| `Executor_proofs` | authority, transactions and the refinement, then what is owed to the audit trail |
| `Listener_proofs`, `Maintenance_proofs` | the module each is named after |
| `GuestSync_proofs` | `GuestSync` and `HostPush`, a section each |
| `Operations_proofs` | `Digest`, `Dispatch`, `Findings`, `Manifest`, `Rollback`, and the cells with their history, a section each |
| `Parts_proofs` | `Probing`, `Assertions`, `Usage`, `Interview`, `Lineage`, `Discovery` and `Resolution`, a section each |
| `MCOperations_proofs` | what those theorems say of the instances that `MCOperations` has |

`MCOperations` and `MCLiveness` put components that share no state side by side: the parts of a
behaviour's other components stand still, so the states are the sum of the parts' and never the
product. Each `part` has its own bounds, named in the cfg for the modules that are extended and where
it is instantiated for the others. A module is extended where its theorems and the run are about one
and the same definition; that is why the operations' modules prefix what every module has
(`DigestInit`, `FindingsNext`, `ManifestSpec`) and leave their constants apart.

History variables (`ran`, `lost`, `raced`, `shaky`, `contested`, `excused`, `varied`, `late`, `settled`,
`mishaps`, `verdict`, `synced`, `quiet`, `done`, and others a comment marks) record what happened for
the properties; no action's guard reads them, but for counters that are bounds. An exception that a
property makes is one of these: "two undos held the receipt at once", "the undo's record was lost",
"a person touched the target since".

### The core

**TrustGate.** A level is its rank in `AUTONOMY_ORDER`. The context holds the cell's level, or the
domain's default when there is no row: `load_trust_context` makes the two indistinguishable. The
frozen list of windows and the frozen clock are one value, the first window that matches.
Successive clamps by boundaries are one minimum.

**CellLadder, CellTrust, CellHistory.** A missing row is the row `_cell_for` would create.
`PromotionStreak` is `PROMOTION_STREAK`; `Promotable` are the cells whose kind is reversible and whose
blast radius is low.

**Executor.** One session is one process: a database session and a handler, cut at every await that
may let another one in.

| Action | Code |
|---|---|
| `Resolve` | `_resolve_pending`, or the MCP trigger's query, and the pending test on the object it returned |
| `Gate`, `Mistype` | `load_trust_context`, provisional `decide`; the override's retyped key |
| `Probe`, `Route` | `verify_rollback`, second `decide`, `_log_override`, the branch on CONFIRM |
| `AnswerPrompt`, `Tap`, `AskTimeout`, `ChannelFails`, `Confirm` | `_confirm` over the CLI or the channel |
| `Checkpoint` | `window_is_open` |
| `Dispatch` | `capture_rollback`'s return and `_dispatch_and_classify` |
| `Record`, `Judge` | receipt, outcome and cell in one transaction; `exec accept` and `exec reject` |
| `Commit`, `Busy`, `Crash` | `session_scope`: commit, "database is locked", death of the process |
| `Grant`, `SetBoundary`, `OpenWindow`, `RevokeWindow`, `KillSwitch` | the operator's short commands |
| `Expire` | `expires_at` passes |

The pending test of `execute_proposal` reads the object that `_resolve_pending` has just loaded as
pending, with nothing awaited from the database in between that would refresh it, so the two are one
action. SQLAlchemy's identity map holds objects weakly: the proposal is held by the handler and
stays as it was read, while windows, cells and boundaries read into a context are collected and read
again from the database later. That is why a checkpoint sees a revocation and a cell's update
starts from the current row, and why the proposal's outcome does not.

The database is SQLite in Python's default transaction control: a SELECT before the first write reads
the latest commit; the first flush takes the one write lock and opens the transaction, and a session
that must flush while another holds the lock waits up to the driver's timeout, then fails. So `db` is
the committed database, `draft` what the open transaction sees, `writer` who holds it. Postgres, an
option of the code, would let writers of different rows run together; nothing here is claimed of it.

`MaxRuns` bounds the sessions of one behaviour, and nothing else is bounded: a window is opened once
per identity, as each `open` writes a new row.

**Dispatch.** What `Executor` takes as one step with an outcome is here a loop. Time is counted in polls.

| Action | Code |
|---|---|
| `Refuse`, `Write` | `_dispatch` and its `_dispatch_*`, `_node_preflight`; the refusals before anything is written |
| `PollLeaving`, `GiveUpLeaving` | the wait for a rebooted node to leave |
| `PollReturning`, `GiveUpReturning` | `_node_is_back`, `wait_for_tag`, up to the timeout |
| `Verify`, `End` | the check that ends it; the classification into succeeded, failed, refused |
| `NodeLeaves`, `NodeBoots`, `NodeSettles`, `ApiCatchesUp` | external: the node, and what the API says of it, which trails it |

**Rollback.** A run here is its probe, the wait after it, and the rest; what gates it is `Executor`'s.

| Action | Code |
|---|---|
| `Probe`, `Execute` | `verify_rollback`; `capture_rollback`, the dispatch, the receipt |
| `Hold`, `GiveUp`, `Restore`, `RecordUndo`, `LoseUndo` | `helper exec rollback` and `rollback_receipt`: load, prompt, restore, write, or die in between |
| `Touch` | external: a person changes the target |

The six strategies that put one setting back are one ("prior-state"); snapshots are the other kind.

**Listener.** A pass is one process and one database session over several proposals.

| Action | Code |
|---|---|
| `Begin` | `ask_pending` up to `gather`: candidates cut to `limit`, `_ask_state`, `_pessimistic`, the prompts |
| `Tap`, `Expires` | the answer of one prompt; a tap is heard by every pass that waits for the proposal |
| `Gathered` | `gather` returns; prompts whose channel failed are dropped, unrecorded |
| `Gate`, `Confirm`, `Dispatch`, `Record` | `execute_proposal` on the oldest answered proposal, then the next |
| `Commit`, `Busy`, `Crash` | `session_scope` round the whole pass |
| `Grant`, `Reject`, `Elapse` | an operator's commands beside it; two hours pass (`REASK_AFTER`) |

It keeps of `execute_proposal` what tells proposals of one pass apart and leaves windows, ceilings and
overrides to `Executor` (the listener passes no override). The audit events of a proposal become a
count of unanswered asks, whether any was answered, and whether the last is recent: what `_ask_state`
reads of them. Proposals are named by the rank of `proposed_at`, so "oldest first" is a minimum; all
of them parse and have their adapters configured. `MaxRuns` stops new passes after that many
dispatches of a proposal.

**Manifest.** A target is a function from the fields it has to a class of values; "bad" is what both
readers refuse. `Propose` is a draft tool or playbook (draft, `validate_artifact`, parse back),
`Rewrite` another author of the row, `ParseManifest` is `parse_manifest`, `Run` the surface (CLI, MCP,
listener) that resolves the adapters and calls the dispatch.

### What feeds it

**Maintenance.** `DrainPlan` computes a plan from what the cluster looked like; an executor loads the
run once, works on its copy, and writes the list of steps back after each.

| Action | Code |
|---|---|
| `PlanNode`, `PlanTalos` | `plan_maintenance`, with `--resume`; `plan_talos_maintenance` |
| `Load`, `Start`, `Take`, `Act`, `CommitStep`, `StopRun`, `Finish` | `execute_maintenance`, step by step, `_reject_remaining` |
| `Abort`, `Crash` | `abort_maintenance`; a death at any point |
| `TaskEnds`, `MoveByHand` | external: a Proxmox task ends, well or not, after the step has succeeded; a person moves a guest |

**Findings.** `Discover` is `reconcile_category_findings`, one transaction. A playbook pass
(`RunPlaybooks`, or `ReadFindings` and `WriteDrafts` when another transaction commits in between) drafts
and withdraws; `Triage` and `Decide` are the operator; `QuarterPasses` is a quarter of an hour.

**Discovery.** `Run(pass)` is one pass of `run_discovery()`: which facts hold, which sources answer and
which things are shown are chosen freely, and from them the engine's issues, its observed categories
and targets and what its reconcile resolves follow. No finding's row depends on another's, so a
behaviour follows one finding through the passes that may report it. `Triage` is the operator.

**Probing, Assertions.** `RunDue` is a schedule pass (what is due, per target, then the findings on
probes that go on failing); `ProbeByHand` a CLI probe. `Load` reads the assertion library over the row,
`Observe` a probe's result, `AssertRun` and `RunDue` judge, `Triage` is the operator, `Tick` an hour.

**Digest.** `Build`, `Deliver` (sent, failed, a page only), `Drop` (the process dies) of two senders;
`Stamp` and `Commit` are an event that is stamped inside a transaction and seen only later; `DayPasses`.

### What keeps the records

**Lineage.** `Pass` is `probe_host` with `reconcile_host`: a list per kind of part, or none, then every
newest list reconciled; `RetireHost` and `MergeParts` are `engine/retire.py`; `Move` is external, a person
with a screwdriver. A device is known by WWN, else serial, and a reading may lack either. A pass that
finds two parts for one line raises (`scalar_one_or_none`); `run_schedule` catches that, goes on to its next target
and commits what the pass had flushed, so the kinds before it are reconciled and the rest is not (`Carried`). A
probe by hand rolls the same pass back, which is a pass that never was.

**Resolution.** One action per source and surface (`CliUnifi`, `McpUnifi`, `CliMikrotik`, `McpMikrotik`,
`CliCloudflare`, `McpCloudflare`), `ImportHass`, `ImportKvm`, `Retire`; `Change` edits a zone or the alias
file, which the next reader may find malformed.

**Usage.** `DiscoverUsage` is a pass over a series its source forgets, `DiscoverOmv` over a reading of the
moment; passes may be missed. A row is the set of points it was made from.

**GuestSync.** `Discover` is the pass over the hypervisor with removal under quorum; a sync is `List`,
`StepIn` (create, skip, update by three-way merge) guest by guest, `Commit` or `Fail`; `Push` is the direct
path of `--netbox-sync`; `Change` and `EditNetBox` are the world and a person.

**HostPush.** `Begin`, `SyncHost`, `List`, `Write`, `End`, `Fail` are the calls of `helper netbox
sync-host`, any of which may fail; `Bootstrap` defines the custom fields; `Rediscover` and `Edit` are a
reconcile and a person.

### What advises

**Rebalance.** The plan itself is the behaviour: the hardware step (`CurrentHardware`, `MoveDimm`,
`BuyDimm`), then `Migrate` one by one, each state being the fleet as the plan has it so far.

**Placement.** `Judge` and `Keep` a host at a time, `BeginSearch`, `Pop`, `Arrive`, `NoRoute` of the
shortest-path search, then `Rank`.

**Interview.** `Chat`, `Onboard`, `Ask`, `Leave` are a person; `ChatTurn`, `ModelTurn`, `NoAnswer` a call of
the router with what each backend may do and what the model may say; `Decline` and `Register` end it.

## What is checked

| Run | Question | Instance |
|---|---|---|
| `operations` | do the operations round the core keep what they promise, each under its own interference? | the twenty-one parts below; 554,581 states up to the symmetry of two hosts |
| `authority` | does everything that reaches the target hold its authority, on record? | 2 sessions, 2 runs, a host-capped and an absolute proposal, one window; 616,391 states |
| `commits` | are receipts, outcomes and cells consistent under races, aborts and crashes? | 2 sessions, 3 runs, 2 proposals of one cell, threshold 2; 649,671 states |
| `listener` | do overlapping passes account for every run, and does a failure stop what was approved under the old trust? | 2 passes, 2 proposals of one cell, one invertible, one ask each; 1,173,926 states up to the passes' symmetry |
| `liveness` | do sessions, passes and dispatches end, and give the lock back? | 2 sessions and 2 runs; 2 passes and 2 asks; one dispatch of 3 polls; crashes allowed, weak fairness; 24,506 states |
| `lost_receipt`, `stale_proposal`, `kill_switch`, `listener_deny`, `listener_starved`, `stranded`, `netbox_overwrite` | does the code keep what its docs say? It does not: see below | as above, without crashes |

The parts of `operations`:

| Part | Instance |
|---|---|
| cells | 3 cells (promotable, grant-only, absolute), threshold 3 |
| rollback | 2 undoers, 3 receipts, threshold 1 |
| race | 2 executors on one run, of a node with one guest running or of two Talos members, one mishap |
| resume | 2 executors one at a time, 2 runs, 2 guests running or only the one on a local disk, one mishap |
| findings | 1 category pass, 2 playbook passes, minimum age 1, cooldown 2, 2 drafts |
| disks, dimms | 2 disks that show one WWN; a DIMM beside a NIC; 2 hosts, 3 moves, 3 passes |
| disks apart | 2 disks with a WWN each, which a probe may read without its WWN; 2 hosts, 2 slots, 2 moves, 3 passes: a pass that finds two parts for a line and raises |
| digest | 2 senders, one event, windows of 2 days, 5 days |
| probing | 2 targets, 2 probes each, failing after 2 |
| one sync, two syncs | 1 guest and a spare NetBox row, 5 passes, 2 hand edits; 2 guests, 3 passes, 1 hand edit |
| rebalance | 3 hosts, 3 guests (one on a local disk), one host closed, every placement, all DIMM kits |
| discovery | one finding of each category, 2 things a kind, every subset of facts, answering sources and things shown |
| manifest | every tool's draft, one edit by another author, three surfaces |
| assertions | 9 library entries, 2 hosts, 2 loads, 2 readings, 2 hours |
| resolution | 2 controllers, a router, the public zone, a hub, a KVM; 3 zones, 3 alias files, one change |
| usage | 2 points a bucket, 4 held by the source, horizon 5, 7 points of time |
| host push | 2 pushers, 2 slots, 2 parts, 3 items, 1 hand edit, 2 pushes |
| placement | 3 hosts of 6 kinds, 3 profiles, 5 topologies including none |
| interview | 2 terminals, one roster of three backends, 2 turns, 2 parse failures, 2 hosts |

Why the instances are large enough. Two of whatever races is what a race takes: sessions, passes, undos,
executors, senders, pushers, terminals. A third run or receipt lets something be retried, or undone
after a later action, which is where an undo can restore the wrong state. A threshold of two in `Executor`
reaches a promotion, a demotion and a promotion missed, and one of three in the cells part a streak
broken below it and a rung at every level; the theorems are about any threshold. The two cells of `authority` are one that can reach every level and one whose domain
stops at PROPOSE; the ceilings an operator sets are one absolute and one that a window lifts; the
window covers both proposals, by host, which is how a window gets to touch an absolute domain at all.
In `listener`, order within a pass and the fate of its receipts take two proposals; repeated asks take a
limit above one, which `liveness` has for one proposal, and `AskingEnds` proves the bound for any limit. A part of two hosts and three moves lets a
device leave, come back and be seen twice in between; three passes let the stale list of one kind be
reconciled after a newer one of another. A dispatch of three polls has one in which the node must leave
and two in which it may return. Clocks end past the second window, cooldown or bucket, so that each can
be followed by another. Where a wider instance finishes in minutes it was checked once beside the run:
manifest with two edits (370,416 states), resolution with two changes and with two zones more (526,382
and 183,778), host push with two edits and three pushes (1,276,368), interview with three turns (63,732).
None found more.

Fairness. `Executor`'s `FairSpec` gives each session weak fairness of `Handler`: what the process does
without a human, where every wait is bounded by a timeout (the adapters', the channel's `timeout_s`,
SQLite's busy timeout). A prompt at a terminal, an override's retyped key and a tap get none. So
`SessionsEnd` speaks of sessions on the channel and of accept and reject, and `LockReleased` of sessions
without an override: an override's prompt really does hold the lock until someone answers. In `Listener`
every wait is a prompt with the channel's timeout, so `PassEnds` needs no human either. In `Dispatch`
`DispatchStep`, the polls, is fair, being a loop with a deadline, and the node is not: it may hang in any state. `DaemonSpec`,
used only for the starvation finding, adds that passes begin for ever, as the daemon's interval job makes
them.

The properties, in a sentence each:

- `BelowDomainCeiling`, `OnlyGrantsLiftIneligible`, `ProbationBanksNothing`, `ApprovalsBuyOneRung`: the
  ladder, as `docs/trust-gradient.md` describes it.
- `AbsoluteFloorHolds`: nothing of a domain that stops at PROPOSE is ever dispatched.
- `Authorised`: past the gate, a CONFIRM was answered yes; an AUTONOMOUS had a verified rollback, a
  window or the override; no absolute ceiling was passed.
- `AuthorityOnRecord`: the override or approval that let a run through is in its transaction before
  it reaches the target.
- `ClosedWindowHalts`: a closed window stops a session at its checkpoint.
- `ReceiptsBalance`: dispatches are the committed receipts, the ones in flight and the lost ones.
- `ExecutedHasReceipt`, `SequentialRunsOnce`, `DecidedIsFinal`: outcomes and receipts agree; without a
  race and without a lost commit a proposal succeeds once and its decision stands.
- `ImplementsCellTrust`: the concurrent transactions implement the abstract cell specification.
- `SessionsEnd`, `LockReleased`, `PassEnds`, `DispatchEnds`: what begins ends, and gives the lock back.
- `OutcomesTellTheTruth`: "refused" is only said of a target that was not touched, "succeeded" only of a
  node that is back, however far the API's view trails it; nothing is written to a node with guests.
- `AskingStops`: asks on record never exceed `MAX_ASKS` by more than the passes that overlap; an answer
  on record ends the asking, unless two passes asked at once.
- `FailureStopsCell`: once a run of a pass fails, no later proposal of its cell is dispatched in that
  pass, approved or not; the pass holds the write lock, so no grant can come in between.
- `ConfirmedRuns`: below AUTONOMOUS, or without a verifiable inverse, only a yes lets a proposal run.
- `PassesBalance`: dispatches are committed, carried by an open pass, or lost with one: a failure late
  in a pass takes the receipts of the earlier proposals with it, and nothing is counted twice.
- `UndoneOnce`: a receipt says rolled back exactly when an undo's receipt exists, and is restored from
  once, unless two undos held it at once or one lost its record; what says it can be restored, can.
- `UndoRestores`: an undo that reports success puts the target back where it was before the action it
  undoes, whatever moved it since, unless something moved it between that action's probe and dispatch.
- `ManifestsAgree`: what a tool drafts the executor parses, dispatches as what the tool was for and gates
  in the cell it showed; what the schema admits the parser admits; what is parsed, however often it was
  edited, is gated in the domain and under the kind of what its dispatch touches; a migration counts
  the ceiling of the node it goes to; what the MCP trigger resolves is sent.
- `StopsAtFirstFailure`: a maintenance run that one process had to itself goes no further than its first
  failure, its ledger claims no step that was not executed, and a node has one unfinished run.
- `AbortHolds`: no step of an aborted run begins after the abort.
- `GuestsReturned`: the last run of the node, once it succeeded, has brought back every guest it found
  there, and every one that the run it resumed had drained, if that was the run just before it, unless
  a task failed late, a person moved one or two processes had the run. `Displaced` looks at one run
  only, so of a chain of stopped runs the guests of the earlier ones stay away: that is
  `maintenance_stranded`.
- `OneLiveProposal`, `DraftedOnPurpose`: a finding never has two drafts waiting, nor one within the
  cooldown of a decision; what is drafted has been wrong for the minimum age, without a break.
- `FindingsFollowRuns`: a probe that goes on failing has its finding and one that works has none; a
  discovery pass that was shown everything leaves exactly what is due; an assertion's open finding is
  that of its last verdict, however the library was edited.
- `SilenceResolvesNothing`: a pass whose source did not answer resolves nothing that source reports.
- `LineageFollowsReports`: a device is one part, in the one host that reported it last, of the lists that a
  pass got to the end of; and the rollups of
  a series hold every whole bucket that the last pass saw, and nothing past the horizon.
- `WindowsTile`: every event past the newest delivered window is in the next, none is in two, but for
  two senders at once or an event that committed late.
- `HandEditsKept`: what a sync overwrites in the NetBox VM of a guest synced before is what the harness
  itself last wrote of that guest, or left, unless its listing was too old to show an edit; and a push
  never touches an item that is not the harness's own.
- `SyncedMeansSame`: an undisturbed sync leaves both sides equal and reports only guests that somebody
  touched; an undisturbed push leaves the items as the placements; a source's slice is what its last pass
  read, whatever the other resolvers do.
- `AdviceIsSound`: a rebalance plan never passes through a state worse than it began with; a placement
  answers once for each host, takes the quickest route, keeps replicas close and ranks no host above one
  that is as good in everything; a model's answer names its backend and who was passed over, its
  transcript alternates, and what it proposes becomes one host.
- `TypesOK`, `TypeOK`: the types, part by part.

Every property has a mutant in `PROJECT.json`: a plausible bug of the code, defined beside the
definition it replaces, under which TLC finds the property violated.

## What the code does not keep

Seven runs end in a counterexample:

1. *One receipt per dispatch* (`lost_receipt`). The receipt is flushed after the write to the lab; if
   another session holds SQLite's lock past the timeout, the flush fails, everything is rolled back,
   and the lab has changed with no record, no crash needed.
2. *Only pending proposals run* (`stale_proposal`). The test is made once, before the probe and the
   prompt. A proposal rejected while its approval is open is dispatched, and the rejection overwritten.
3. *A killed window never dispatches* (`kill_switch`). The checkpoint precedes the snapshot and the
   preflight.
4. *A Deny executes nothing* (`listener_deny`). A cell at AUTONOMOUS with no rollback verified yet is
   asked about; if the probe then verifies the rollback, the answer is not consulted.
5. *Every drafted proposal reaches the phone* (`listener_starved`). The candidates are cut to the
   oldest `limit` pending ones before those already answered are skipped, so answered or refused
   proposals nobody resolves keep newer ones from ever being asked about.
6. *A resumed run brings back what the failed one displaced* (`stranded`). A run looks one run back: a guest drained by a
   run that failed, whose successor failed too, stays where it was put when the third run succeeds.
7. *A person's values in NetBox are never overwritten* (`netbox_overwrite`). Discovery with
   `--netbox-sync` writes without a baseline.

Other disagreements were met while modelling. Their formulas stand in the modules, under a comment that
quotes the line, and no run checks them:

- A grant keeps the streak of the old level, so a rung may come sooner than five runs at its level
  (`engine/trust.py:392`, `docs/trust-gradient.md:101`; no formula).
- `Rollback!RollbackDemotes`: a rollback that was needed leaves the cell's trust as it was
  (`docs/trust-gradient.md:105`).
- `Maintenance!StoppedRunLeavesNothingPending`: the step that was refused, or that an unhealthy
  cluster stopped, keeps its proposal pending (`docs/live-validation.md:504`).
- `Lineage!OneRowPerDevice`, `Lineage!StalePassMovesNothing`: a device read once by serial and once by WWN
  becomes two parts, and a pass over old lists moves parts between hosts.
- `Dispatch!RebootMeansReturned`: a node that takes longer to leave than the polls wait for it is called
  back before it has gone (`engine/executor.py:703`).
- `Discovery!ResolvedMeansHealed`: not being shown resolves (`docs/roadmap.md:404` says that absence never
  does): an offline node's updates, an unavailable storage's orphans, a vanished disk, a stray
  configuration known by network name only; while findings on removed guests stay open.
- `Manifest!ListenerResolvesTheSame`: the daemon passes no Talos adapter, so an approved upgrade is
  refused; and no surface refuses for want of `kubectl` before it dispatches.
- `Assertions!LiveFindingsAreAsserted`: an assertion that is retargeted or disabled leaves its finding
  open for good (`engine/assertions.py:345`). An assertion with a cron schedule makes the whole schedule
  pass raise (`docs/harness-schema-slice1.md:484`, `engine/schedule.py:447`).
- `Resolution!LookupsAnswer`: `get_service` raises for a name with an internal and an external side.
- `Usage!WholeRowsStay`, `Usage!JudgedAtOneSize`: the oldest bucket is rewritten with the half of it that
  the source still holds; a bucket in which a guest was resized averages two sizes.
- `HostPush!OwnDeviceOnly`, `HostPush!NothingOverlooked`: a device whose name differs in case is taken
  for the host's; of twin items one goes stale.
- `Placement!UnknownIsNotUnfit`, `Placement!RefusedMeansNoLan`: a host of unknown GPU is rejected; a
  workload is refused over a quick wireless link although a slower wired route exists.
- `Interview!ErrorsFallThrough`: a backend whose reply is no JSON raises past the router, which falls
  through on a `BackendError` only.

## What is proved

For every value of the constants that satisfies their `ASSUME`s (any number of sessions, proposals,
cells, hosts, windows, findings, senders; any threshold, cooldown or number of polls). Each proof has the
same shape: an invariant that is inductive, which holds at the start, which every action of `Next` keeps
(a lemma for each), and which implies the property.

- `CellLadder_proofs`: `DecideBound`, `PessimisticIsFinal`, `AutonomyNeedsReversibility`,
  `LiftsNeverPromote`, about `decide()` itself, from lemmas on the minimum of a set of levels; and what
  each operation makes of a row of `cell_trust`.
- `Executor_proofs`: `TypeCorrect`, `AuthorisedAlways` and `AbsoluteFloor`. `TypeInv` strengthens the
  types with what each program counter says of the decision already taken (`GateInv`), since a
  session's authority is decided at `Gate`, `Probe` and `Confirm`, and used much later; the context is
  frozen, so it cannot change in between, and what the operator does meanwhile cannot touch it.
  Then `ExecutedReceipted`, `ClosedWindowStops` and `ExecutorImplementsCellTrust`.
  The key is `CommitInv`: the committed database and the draft of the open transaction are both sound,
  no draft touches a window, and the draft's cells are the committed ones until its session is
  closing, then at most one cell step away, whoever holds the lock. A commit is then one
  step of `CellTrust` or none, an abort is none, and every other step leaves `db.cell` alone. The proof
  first shows that every step of `Next` has one of three shapes (quiet, a write of the draft, a
  command), and argues by shape.
  Its second half is what is owed: `AuthorityRecorded`, `ReceiptsBalanced`, `RunsOnce`,
  `DecisionsFinal`. A session that has written anything holds the lock until it ends (`Owes`), so nobody
  else touches the draft, and what the draft has beyond the database is what that session wrote: its
  receipt (`Ledger`: dispatches are receipts committed, lost, or carried by a session, counted with
  `Cardinality`, hence the assumption that `Sessions` is finite) and its outcome (`Docket`).
- `Listener_proofs`: `ListenerTypes`, `ListenerConfirms`, `FailureStops`, `ReceiptsOfPasses`. `PassOK`
  says what a pass's proposal in hand was let through on and what it has already run; `Keeps` ties the
  pass to the open transaction: one that has recorded anything holds the lock, and a cell that a failed
  run demoted stays demoted as long as it does. `AskingEnds` counts: the asks on record and the passes
  that may still add one (`Asking`) stay within the limit and the number of passes, because a pass
  takes up only what was below the limit when it read it; `Passes` is finite for that.
- `Maintenance_proofs`: `StopsAtFirst` and `AbortIsHeld`, for every plan. `MaintenanceInv` has three
  layers: a process's copy of its run claims no step that was not executed, and all before the step in
  hand (`CopyOK`); so does the ledger, whoever wrote it last, and an aborted run has no proposal pending
  (`RunOK`); of a run that one process had to itself (`AloneOK`), the copy is the ledger, what succeeded
  comes first and what is planned is pending still, so the first failure leaves every later step skipped
  and rejected. The third layer is what "one process" is needed for: without it the copy is stale. Of a
  plan nothing is used here but that it has steps.
  `GuestsComeHome` (`GuestsReturned`) does need the plan. `DrainSteps` shows that a plan that holds has
  one departure for each guest of its list, whatever the room and however targets are picked: an
  induction over the list, made by a least counterexample (`LeastWithout`, from the library's `WFMin`)
  since the theorems of induction cannot be instantiated here; `SequencesOfSet` that the list has
  everybody, and `PlanShape` that each departure, and each step displaced by the run resumed, has its
  return. `StepsOK` keeps of a plan that every guest leaves once, that returns come after
  departures and that whoever was found is brought back. `ReturnInv` then says, of the last run of the
  node only, where its guests are: one whose return took effect is home or on its way (`Brought`), one
  that was migrated away is where its run put it, on its way there, or home (`Left`, which is what
  `StillParked` looks at when the next plan is made), and one that the run resumed had drained is on
  this run's list or home and none of its business (`Inherited`). A step that took effect and is not
  committed counts (`Done`), so the order of dispatch and commit does not matter. Trying to prove it
  showed that an earlier statement, of every resumed run, is false from three runs on, more than the
  run has: a second run may take the same guests away again and stop, and the third, which resumes the
  first, looks for them where the first left or returned them.
- `Operations_proofs`:
  - `DigestTypes`, `DigestTiles`. One number, the newest window's end, says which events have been told
    of; what a sender holds is what is there from that end on, or a second sender is at work and then
    everything stamped before the day is excused.
  - `OutcomesAreTrue`. While the node has not left, it is up and seen to be, and an upgrade that has not
    left shows the old release (`DispatchInv`): so what the polls take for a return is one.
  - `FindingTypes`, `OneProposalWaits`, `DraftsHaveGrounds`. A draft that a pass carries from its reading
    to its writing is still due (`Ready`) unless the row changed under it, which is `raced`; the drafts
    of a finding are spaced (`Spaced`), so adding one that is due keeps them so.
  - `ReadersAgree`, by cases of the seven shapes of a target: what the schema takes, the parser reads as
    the same shape, and the dispatch picks its handler by attributes that are that shape's alone.
  - `RollbackTypes`, `AvailableRestores`, `MarkedAlways`, `UndoneOnceAlways`, `UndoesRestore`, each under
    `RollbackAssumption`. An undo acts on the receipt as it loaded it. `Captured` says that a receipt,
    and every copy of it, holds what the probe saw; `Marks` that a mark and its undo's receipt come
    together; `Sole` and `Spent` that, where no two undos held a receipt at once and none lost its
    record, the copy still says what the receipt says, so it is restored from once.
  - `CellTypes`, `CeilingHolds`, `IneligibleCellsStay`, `ProbationHolds`, the invariants
    of the ladder, from one inductive invariant (the types, the ceiling, probation at PROPOSE with no
    streak, ineligible cells at their default unless granted). The ceiling and probation need each other:
    a demotion writes PROPOSE, which no ceiling forbids, and a promotion never starts from probation.
    `RungsAreBought`, that no level rises by itself without a full streak paid for it, needs the history:
    `StreakIsEarned` says that a row's streak is never longer than the clean outcomes counted beside it.
- `GuestSync_proofs`: `GuestTypes`, `SyncedIsSame`, `EditsAreKept`, under `GuestSyncAssumption` and
  `~Direct`: of a harness whose discoveries do not write NetBox past the merge, which is what the run
  `netbox_overwrite` shows they must not. Between syncs NetBox shows a row's baseline, or the VM is
  shaky, or there is a reason to report the guest (`Mirrored`), and the baseline is what the harness
  last meant (`Linked`). During a sync the listing is still what NetBox shows of every VM but those a
  person touched since and those the sync wrote, and no guest that is still to come has any of the
  latter (`SyncOK`, with the uniqueness of `netbox_vm_id`). Trying to prove it showed that an earlier
  statement, with the value agreed for a NetBox id in place of the guest's, is false in longer
  behaviours than the run's: a field that the hypervisor did not give is left out of the write, and
  NetBox's own value of it then belongs to nobody.
  Its second half is `PlacementsMirrored` and `HumanItemsAreKept`, of a host's push, under
  `HostPushAssumption`. What a push may still write sits where that push found it, if it is there at all,
  because NetBox uses no id twice (`Aimed`), and it bears the harness's mark unless a person took that
  away since; of a push that nothing has disturbed, what is left to write is all there is to do
  (`Remaining`), so once nothing is left, NetBox mirrors the placements. `HostPushAssumption` says that None is nothing else; TLC checks it with the runs.
- `Parts_proofs`, of parts that keep to themselves:
  - `ProbingTypes`, `RunsAreFound`. Few runs of a pair are kept and a streak counts them all; the one
    still determines the other, up to the threshold where both stop (`CountsMatch`), so a judgement of
    the kept runs is one of the streak (`FindingMatches`).
  - `VerdictsAreFound`. A verdict and its finding are written in one step, and of the steps between, neither
    triage nor a library that retargets or disables the row can part the two.
  - `HistoryIsKept`. The rows of each bucket are exactly what the last pass there could see and no
    prune reached (`RowsOf`); the rest is the arithmetic of buckets, spans and horizons. It assumes that
    a bucket fits in the horizon: with a retention of zero days a NAS reading can be pruned by the pass
    that wrote it, as that retention asks for.
  - `SpeakersTakeTurns`, `HostsStandApart`. A transcript that waits for the model ends with the operator
    and one that waits for the operator with the model (`Alternates`), whatever was refused or garbled in
    between. A proposal that is being confirmed differs from every host but those written beside it
    (`Beside`), so two hosts alike are two of which one was.
  - `LineageTypes`, `InventoryFollows`: `LineageFollowsReports` for any number of hosts, slots, devices,
    moves and passes, WWNs shared or not. The invariant is about the rows (`PartsOK`). A device that was
    read in full or not at all, as was every device that shows its WWN, has at most one row, which bears
    its serial; its WWN, if it is a disk, is owned by exactly one row, its own or another's; and what any
    row bears leads back to the device it was made for. So the owner of a WWN has a serial to tell
    a forged one by, unless a reading went without. `HeldOK` ties the open placements to the history.
    A pass is a fold over the slots of a list and then over the kinds; an induction over each, by a least
    counterexample, carries `PartsOK` through the readings taken so far (`TakingOK`), and `Placed` moves
    exactly the parts of the devices listed. Trying to prove it showed that an earlier statement is
    false beyond the run's instance: it counted a list as reported although its pass had raised before it
    came to the placements. The history now follows only the kinds a pass got to the end of, and the
    part "disks apart", where the earlier statement fails, is in the run.
  - `FullLooksAreTrue`, `SilenceIsNoAnswer`: what a full look leaves open is what it saw, and a pass
    resolves a finding only if the sources of its category answered and, where its reports name their
    targets, only if what the finding is about is healed or gone; whatever the passes before did. What
    a pass does to the finding is a fold over its reports; `RowIsResolved` and `RowIsJudged` say what
    becomes of a row by any such fold, from what the reports are as a whole, and a lemma for each of
    the code's passes says what its reports are (`PassOK`).
  - `SlicesAreFollowed`: what a source's last pass left is there until its next one or until it is
    retired. A service is there just as long as an endpoint mentions it, and what a device says of itself
    is of its own service, so no other resolver's pass takes the last of it away (`RowsSound`). A pass
    of the command line is a fold over the sources it reaches; an induction by a least counterexample
    carries the invariant through it.
- `MCOperations_proofs`: `LineageHolds`, `FindingsHold`, `SilenceHolds`, `SyncedHolds`, `HandEditsHold`, the run's own
  properties of the run's own instances. `Parts_proofs` and `GuestSync_proofs` are instantiated with the
  constants that the run has and, for what a part does not use, with names that are bound to nothing.
  That the module's `Init`, `Next` and property mean there what they mean in the run is shown by writing
  both sides out, and for `Lineage` and `Discovery`, whose folds are choices that do not match once
  written out, operator by operator, inner ones first. Nobody leaves the part that a behaviour started
  in, so such a behaviour is one of the module's (`..Behave`), and its theorem applies. The constants'
  assumptions follow from `OperationsAssumption`, which TLC evaluates.

Only model-checked, and why:

- the liveness properties: fairness and `ENABLED` are outside the prover's reach;
- `AnswersAreOwned`: the order in which backends are tried is a sorted sequence that the model chooses, and
  that one exists takes an induction over the roster;
- `AdviceIsSound`: what a solver makes of a whole list is a fold in which every step depends on the last;
- `TypesOK`: several modules' type invariants in one, `Maintenance`'s among them.

## What is not modelled, and why

- Most of the code turns text into rows and rows into text: probes and adapters that parse what a tool or
  an API prints, commands and MCP tools that list, the digest's and the narrators' wording, migrations.
  What they can return is chosen freely where a model needs it; how they format it has no state.
- Arithmetic on reals: slopes, percentiles and means behind capacity, rightsizing, anomalies. The
  findings that follow from them are `Discovery`'s, with the judgement a fact that holds or not.
- The projection of a host's columns and capabilities from its facts, disk and RAID health rows, the
  surplus report (`engine/reconfigure.py`): one writer, recomputed from the newest list at each pass.
- Clusters, and the adoption of rows that NetBox had before the harness: done once, by name.
- The audit rows of `TrustHistory`, except the two that carry authority: approvals and overrides.
- Notifications after a run: best effort, swallowed, no state. The skill inferer: counters nothing reads.
- Postgres: every model of the database is SQLite's, with one writer.
- The scheduler's own bookkeeping (APScheduler).
- Everything listed `not_modelled` or `partly` in `PROJECT.json`, each with its reason.

## Plan

Modelled, checked, and with a mutant for each property: everything the tables above name. Left, in this
order:

1. Proofs about what `Rebalance` and `Placement` make of a list; then `MaintenanceTypeOK`. Where a fold is in the way,
   a least counterexample serves (`WFMin` of `WellFoundedInduction`, which takes no operator), as it
   does for `Drain`.
2. The host projection of the reconciler, and the surplus report as a fourth plan of `Rebalance`.
3. The other imports, as slices of `Resolution`.
