# DockPanel: models, checks and proofs

DockPanel is a server panel: a **backend** (`src/panel/backend`, axum and PostgreSQL) that
serves the API and runs background tasks, and one **agent** per server
(`src/panel/agent`) that acts on Docker, nginx and the file system of its host. The backend
calls the agents over HTTP; everything that must survive a restart is in the database; what is
left over on a host is found again through the database only. This directory holds TLA+ models
of the parts where several of these actors meet, the TLC runs that check them on small
instances, and proofs that hold for every instance.

Paths below are relative to `src/panel/` unless they start with `docs/` or `src/`.

1. [The system](#1-the-system)
2. [The modules](#2-the-modules)
3. [The runs](#3-the-runs)
4. [Bounds](#4-bounds) and [fairness](#5-fairness)
6. [What is proved](#6-what-is-proved), and what is only model-checked
7. [Disagreements between the code and its documents](#7-disagreements)
8. [What is not modelled](#8-what-is-not-modelled)
9. [Plan](#9-plan)

## 1. The system

### The inventory

| Component | State it keeps | Operations | With whom it interacts | What is hard | What makes it correct |
|---|---|---|---|---|---|
| Git deployments (`backend/src/routes/git_deploys.rs`, `agent/src/{routes,services}/git_build.rs`) | the row `git_deploys` (`status`, which is the build lock, `updated_at`, `image_tag`), `git_deploy_history`, the container on the host | five doors that build (Deploy, webhook, approval, schedule, rollback), the pipeline, the post-deploy monitor with its undo, stop/start/restart, edit, delete | the agent (one HTTP call per step, each with a time limit), the scheduler, the operators | doors race for the lock; the lock is taken over after 30 minutes; the panel may die in a build; a task outlives its row | builds of one working tree never overlap; a lock nobody holds heals |
| Approvals (`git_deploys.rs`) | `deploy_protected`, `deploy_approvals` | Deploy files a request, approve, reject, switching the protection off cancels | the build lock, two or more administrators | every handler reads, awaits and writes by id | one request waits; nothing protected is built through the button without another administrator; a refused build does not use up an approval |
| One-time schedules (`git_deploys.rs`, `backend/src/services/deploy_scheduler.rs`) | `scheduled_deploy_at` | schedule, cancel, the scheduler's pass once a minute | the build lock, the incident gate, the agent registry | the rows of a pass are acted on one after the other, each for the length of a deploy | an order is deployed at most once, and is acted on in the end |
| Previews (`git_deploys.rs`, `services/preview_cleanup.rs`) | `git_previews`, a container per branch | deploy on push, delete on branch deletion, expiry | the agent, webhooks | a preview is built while its branch is deleted | no container without a row |
| Alert engine (`services/alert_engine.rs`, `services/notifications.rs`) | `alert_state` (what is firing), `alerts`, managed incidents | a pass over servers, services, containers | the auto-healer, through the same rows; operators | a condition is told of once, so a stamp without an alert is silence | a condition that stays is seen by someone |
| Auto-healer (`services/auto_healer.rs`), expected stops (`services/expected_stops.rs`) | rows of `activity_logs`, `alert_state`, `container_expected_stops` | restart a service, give up, recover, clean disks, renew certificates | the engine, the agent | counts of its own log rows in a sliding window | a crash-looping service is not restarted without end |
| Site lock (`agent/src/site_lock.rs`) | a map from keys to mutexes | `lock_site`, `lock_sites` | every operation of the agent that writes a site | two keys at once; not reentrant; dropped with a cancelled request | no circle of waiting requests; who waits is served |
| Files of the sites (`agent/src/services/{wordpress,wp_vulnerability,staging,backups}.rs`) | the document root of each site | update with rollback, harden, sync, restore, delete, plugin/theme/core actions | the site lock; the panel, which hangs up at its own limit | a snapshot that is written back later; child processes that outlive the request | what was answered with success is not taken away silently |
| Agent client (`backend/src/services/agent.rs`) | circuit breaker, semaphores of 20 and 5 permits, the token behind a read-write lock | `request`, `request_long`, streams, `update_token` | every handler and task; the rotation of the token | permits are taken from the time of the call; a call holds the lock until its answer is read; the half-open state | a busy agent is not taken for a dead one; a dead agent is asked again; client, agent and `api.env` have one token |
| Agent registry and servers (`agent.rs`, `routes/servers.rs`, `routes/agent_checkin.rs`, `services/server_monitor.rs`) | the row `servers` (status, url, token, pin, last seen), the cache of clients | `for_server`, `invalidate`, registration, check-in, edit, re-pin, rotation of the token, removal, the sweep | the remote agent, which has its own two tokens and its certificate | a client is built from a row read before an edit; the agent changes its token before the row does | the client in use is the one the row describes; the agent takes the token in the row; no call without a pin |
| Supervisor (`backend/src/main.rs`) | the backoff of each task, the shutdown broadcast | start, restart, stop | all background tasks | a task that ends at shutdown looks like one that failed | every task runs again until shutdown, and none after |
| Sessions (`backend/src/auth.rs`, `routes/auth.rs`, `routes/users.rs`) | `user_sessions`, `token_blacklist` and its copy in memory, `sessions_revoked_at` and its copy | login, logout, the sweep after a new role or password, revocation of everything, the hourly reload, the loads at start | every request | rows, memory and table are written one after the other; the reload replaces the memory while logouts add to it; a login overlaps a sweep | what was ended stays ended, across restarts and reloads |
| Uptime monitors (`services/uptime.rs`) | `monitors.status`, `monitor_checks`, incidents | a check, the opening and closing of incidents | notifications, the status page | status and incident are separate writes | a change of state opens or closes one incident |
| Panel updates (`services/panel_update.rs`, `panel_snapshot.rs`, `src/scripts/update.sh`, `src/scripts/restore-snapshot.sh`) | the reservation in memory, `panel_snapshots`, the tarballs, the binaries, the verdict file | start, snapshot, finalize at startup, roll back; the two scripts with their traps | scripts that stop the api that started them and outlive it; systemd; migrations at every start | the process that began an update does not see its end; a newer api migrates whatever database it finds | a rollback is not undone by the api that comes up; the outcome reported is what runs; the panel comes back |
| Backups, policies, drills (`services/backup_*.rs`, `drill_scheduler.rs`) | schedules, rows of backups, destinations | the pass once a minute, retention, verification | the agent, remote storage | a pass that takes longer than a minute | a schedule is run; retention deletes only what may go |

The components without an entry of their own here (sites and vhosts, Docker apps, databases,
mail, TLS, DNS, WordPress commands, migration, scanners, secrets, extensions, metrics, users,
terminal, the clients and the scripts) are handlers over one row and one agent call each; they
are listed in `PROJECT.json` with the reason they are left out.

### The interactions that the models are about

```
 operator ──► doors ──► conditional UPDATE (the lock) ──► pipeline ──► agent ──► container
                ▲               ▲                            │
   scheduler ───┘               └── stop / start / restart   └──► monitor ──► undo (no lock)
   approvals ───┘

 alert engine ──► alert_state, alerts, incidents ◄── auto-healer ──► agent ──► service
                  operators acknowledge, resolve, switch

 api ──► update.sh / restore-snapshot.sh ──► stops the api, swaps binaries and database
  ▲          │ verdict                           │
  └──────────┴──── systemd starts what is there ◄┘

 login, logout, sweeps, revocations ──► memory ──► every request
                                   └──► tables ──► reload, restart

 edits, rotations ──► row of the server ──► for_server ──► cached client ──► remote agent
                            ▲                                                   │
                            └──────────────── check-in ◄────────────────────────┘

 panel ──► agent request ──► lock_site / lock_sites ──► files of a site
     └──── hangs up: the request and its guards are dropped, some children run on
```

## 2. The modules

| Module | Models | Its variables in the code |
|---|---|---|
| `BuildSlot` | the abstract build slot: at most one builder, who may be replaced once given up | – |
| `GitDeploy` | one deployment: row, lock, doors, pipeline, monitor, lifecycle, deletion, time | `exists status age image`: the row (`age` is the minutes since `updated_at`); `history`: `git_deploy_history`; `task`: each request and the tokio task it spawns, by the agent call it is in; `container up`: the host; `removing`: a DELETE between teardown and row |
| `MCGitDeploy` | its bounds for TLC | – |
| `GitDeployProofs` | its theorems | – |
| `ApprovalLedger` | what deploy protection promises, without handlers | – |
| `DeployApproval` | the handlers of requests for deployment, statement by statement | `protected`, `requests` (`deploy_approvals`), `handler`: where each request in flight is; `locked`: the status column; `built`: the builds each request has started; `contested burnt` are history: requests two people decided at once, and approvals cut off before their build |
| `DeploySchedule` | one-time schedules and the scheduler's pass | `armed due`: `scheduled_deploy_at`; `pc picked`: `check_schedules`; `building`: the status column; `reachable`: the server; `fate`: how an order ended that was not deployed |
| `DeployGatesProofs` | the theorems of `DeployApproval` and `DeploySchedule` | – |
| `ServiceHealth` | alert engine and auto-healer on one service | `state`: `alert_state.current_state`; `firing`: rows of `alerts`; `incidents`; `attempts`: the rows of `activity_logs` with their ages; `engine healer`: where each pass is; `unheard`: the last alert was declined, its type being switched off |
| `ServiceHealthProofs` | its theorems | – |
| `SiteLock` | the locks of the agent, and which operation takes what | `todo held`: the keys a request has yet to lock and has locked |
| `SiteLockProofs` | its theorems | – |
| `SiteFiles` | the operations on the files of the sites, over `SiteLock` | `files`, `saved` (a snapshot, or what rsync read), `promised`: what the answers given so far say the files show |
| `SiteFilesProofs` | its theorems | – |
| `PanelUpdate` | the panel replacing itself: reservation, snapshot, the two scripts stage by stage, the outcome | `svc running`: the unit and its process; `binary bak db`: the disk; `inFlight call watched verdict`: the process; `rows taken aged`: `panel_snapshots`; `files`: the tarballs; `jobs`: the scripts |
| `PanelUpdateProofs` | its theorems | – |
| `Sessions` | which tokens are accepted while handlers end them | `token`, `rows` (`user_sessions`), `memory` and `table` (the blacklist), `revokedAt revokedRow`, `request`: each handler; `cleanup active`: the reload; the history names what the properties except |
| `MCSessions` | its symmetry for TLC | – |
| `SessionsProofs` | its theorems | – |
| `FleetMember` | one remote server: row, cached client, check-ins, edits, rotations | `row`; `cache`: `remote_cache`; `resolver`: a `for_server` after its read; `edit checkin rotation`: handlers in flight; `alive cert current previous`: the agent; `overlapped cleared unpinned lost`: history |
| `Supervisor` | the api process, one supervised task, the shutdown | `phase`, `task watcher`: the two spawned futures; `signal`: who has the broadcast unread |
| `AgentClient` | the client of the local agent, over `Supervisor` | `call`: each call in flight; `failures recent`: the breaker; `token file agentToken`: in memory, in `api.env`, in the agent; `writer`: how far a rotation is; `cut unwritten`: one that ended early, and an `api.env` it could not write |
| `AgentLinksProofs` | the theorems of `FleetMember` and `AgentClient` | – |

**How they compose.** `GitDeploy` implements `BuildSlot` and `DeployApproval` implements
`ApprovalLedger` by INSTANCE with a mapping. `SiteFiles` uses the actions of `SiteLock` by
INSTANCE and checks that its locking is a behaviour of `SiteLock` (`LocksUsed`).
`DeployApproval` and `DeploySchedule` see the build lock of `GitDeploy` as one Boolean that
others take and free at any time. `AgentClient` EXTENDS `Supervisor`: its calls keep the drain of
a shutdown waiting, and a process that goes takes its calls with it.

**GitDeploy in detail.** A task has a phase, named for the agent call it waits for; the action
of the phase is the call's outcome with all the writes up to the next call. `TakeLock` is the
conditional UPDATE (`status IS DISTINCT FROM 'building' OR updated_at < NOW() - INTERVAL '30
minutes'`), the same at all five doors. `manual` stands for every door that spawns
`spawn_deploy_task`; `scheduled` runs `trigger_deploy_task`, the same pipeline without the
monitor; `rollback` starts at the deploy. `Tick` is a minute; it is disabled when a call is at
the end of its budget, because then its timeout comes first. The builds whose lock somebody has
given away (a lifecycle button, a takeover, a failed touch) are marked `revoked`; the marker is
read by properties only and tells apart "the lock protocol fails" from "an operator broke it".

**DeployApproval in detail.** A handler of approve or reject reads the request, passes its gates and
writes by id, one await after the other. An approval writes its verdict (`ApproveMark`) and spawns the
build after it (`ApproveSpawn`): the panel may die in between, the caller hang up (`HangUp`), or the
answer of a committed UPDATE be lost, and the approval is then spent without a build (`burnt`). A
request is `contested` from the moment a second person begins to decide it, or the protection is
switched off, while a first is at it.

**DeploySchedule in detail.** `fate` says how an order that was on the row ended without its deploy: taken
back by an operator, wiped by the UPDATE that clears an older one by id, declined by the gates of
`trigger_deploy_task` after it was cleared, or cut off by a restart between the two.

**ServiceHealth in detail.** One service on one server. Every SQL statement and every agent call
of the two passes is a step; a statement may fail (`Fault`), and the model follows what the code
makes of the error, which is usually to go on. Ages are counted in minutes and compared with
both `<` and `<=`, because a pass starts anywhere in its period. Both passes end within their
period. Counts of firing rows are exact up to one and "more" from two.

**SiteFiles in detail.** Contents are sets of marks, one per request whose change is in the
files. A sync makes the target what rsync read, a rollback and a restore put files back and may
leave newer ones. Hanging up drops the guards: tar and wp-cli die with their request
(`kill_on_drop`), rsync and the removal of a tree go on (`OrphanWrite`). `outside` remembers the
sites that were ever written without their lock.

**PanelUpdate in detail.** A version is a number, and stands for the schema it migrates the database
to; `Boot` is a start of the api with its migrations (`db' = Larger(db, binary)`) and
`finalize_pending_on_startup`, which may read nothing, or fail to stamp any of the rows (`Finalize`).
A script is a record in `jobs` whose `at` names the stage it has
reached; each stage of `update.sh` and `restore-snapshot.sh` that changes something is an action, and
so is each way out of it through the script's trap. A script that stops the api ends its process,
with reservation, call and waiting task (`EndProcess`), and is nobody's afterwards (`mine`). `Crash`
is the api alone, `PowerLoss` everything at once, without traps. `lone`, `torn`, `restored`, `half` and
`unsure` are history: they name what the properties except, and nothing but the bounds reads them.
Once two scripts have overlapped, the model follows them to their ends but takes no further
requests (`Serves`).

**Sessions in detail.** One account. Its `epoch` counts the changes of role or password, and a token
remembers the epoch and the second it was given in. A handler that ends sessions is a record that
goes through `sweep` (`DELETE … RETURNING`), `mark` (memory) and `store` (the table, a row at a time);
any query may fail, and the model goes on as the code does: a DELETE that fails reads as no sessions
and the change is confirmed, a setting that cannot be written is confirmed, too, and one that cannot
be loaded at boot is none. A login is two steps with any of these
between them. `Tick` is a second; `Life` of a token is two of them.

**FleetMember in detail.** A rotation calls the agent, saves the row and forgets the client, in three
steps; several may be under way. The agent takes its current and its previous token, the latter
until `GraceEnds`. A check-in reads the pin, captures one, writes the status, one statement
each; that of an older agent carries no fingerprint and captures nothing, and any of them may break
off. A client without a pin reaches the agent only under `AGENT_TLS_VERIFY=insecure`
(`Insecure`). `AgentDies` may happen at any time, and the agent comes back with the token of its unit.

**AgentClient in detail.** A quick call passes the breaker, waits for a permit, connects, takes the
read lock and is answered, or runs out of time at any of these; a failed connect is counted in a
step of its own. A stream has no limit while it talks. The rotation of the local agent's token asks
the agent, stores the row, waits for the write lock, behind which new readers queue, and writes
`api.env`. It may return before the lock (a lost reply, a failed UPDATE, a registry without the local
server), be cut off by the layer's 300 seconds at any await, or leave `api.env` as it was.

**SiteLock in detail.** A request is the list of keys it will ask for. `Fresh` are the domains an app is
exposed on with a certificate to obtain: such a request asks for its own key again and waits for
itself until its caller hangs up (`WaitsForItself`).

## 3. The runs

| Run | Module | What it asks | States | Time |
|---|---|---|---|---|
| `lock_safety` | MCGitDeploy | no two builds on a lock nobody gave away; the row of a running build never looks free or abandoned; the clock of the lock; the abstract slot | 734,150 | 70 s |
| `lock_heals` | MCGitDeploy | a stranded lock is acquirable again, or the row goes | 474,000 | 120 s |
| `approval_races` | MCDeployApproval | one request waits; an approval was given by another administrator and is built unless its approver was cut off; the ledger | 586,654 | 40 s |
| `schedule_once` | DeploySchedule | an order is deployed at most once, and none stays on the row for ever once the server is there and nothing else builds | 10,240 | 4 s |
| `health_budget` | ServiceHealth | the healer's budget and cooldown; a service that is down does not stay down unseen while statements succeed and its alert is switched on | 697,720 | 75 s |
| `health_silent` | ServiceHealth | *violated*: the same when one statement fails | – | 5 s |
| `sitelock_served` | MCSiteLock | no circle of waiting requests but the one of a request that waits for itself; who waits is served unless there is such a request | 20,089 | 11 s |
| `files_kept` | MCSiteFiles | no answered change is lost on a site written only under its lock; locks are used as `SiteLock` says | 124,531 | 8 s |
| `panel_update` | PanelUpdate | a rollback stays; the outcome reported is what runs; no second script beside a guarded one; a stopped panel comes back | 811,211 | 150 s |
| `sessions` | MCSessions | an ended session stays ended; a changed account leaves no older token; a revocation is not forgotten; each with the failures it excepts by name | 2,163,123 | 55 s |
| `fleet_member` | FleetMember | the cached client is the one the row describes; the agent takes the row's token; no call before the pin of an agent that sends one | 2,761,898 | 50 s |
| `agent_client` | AgentClient | a busy agent is not a dead one; the tokens agree; after an outage a call is let through again; a task runs again | 166,104 | 50 s |

What each property says is in the comment above it. Those worth knowing first:

- **OneBuild, LockClock** (GitDeploy; `LockHeldWhileBuilding` is proved only). The lock is a status value with a
  timeout, and nothing tells a slow build from a dead one. It works only because the budgets of
  the calls between two writes of `updated_at` sum to less than the 30 minutes on every path.
  With the 60 seconds a remote call may wait for a permit, the budgets in minutes are: backup 2,
  clone 5, compose check 2, compose 11, pre-build check 2, nixpacks 11, detection 2, build 11, TLS
  check 2, deploy 2. The longest stretch before the touch is 24, the longest after it 15;
  without the touch in the middle a pipeline could run 37 minutes. `LockClock` bounds `age` by
  the calls made so far.
- **SlotImplemented** (GitDeploy). Every step of doors, pipeline, monitor, operators and restarts
  starts a build in a free slot, ends one, loses one, or leaves the slot alone.
- **LedgerKept, ApprovalWasSpent** (DeployApproval). Over any interleaving, a request is decided
  by decisions begun while it waited, and an approval comes from another administrator. As long as
  nobody else decides the request at the same time, its verdict is final and its approval is one
  build, or none if the approver was cut off after the UPDATE. Of a contested request the guide
  promises the same and the code does not keep it (section 7).
- **AtMostOnce** (DeploySchedule). The comment at the UPDATE calls it "the only thing standing
  between a one-time deploy and an unbounded redeploy loop"; it holds when the UPDATE fails, the
  panel restarts or an operator writes in between.
- **OrderTaken** (DeploySchedule). It says that the scheduler does not pass over an order for ever. It does
  not say that an order is deployed: the ways the code ends one without a deploy are the values of
  `fate`, three of which are divergences of section 7. Builds that never stop are outside its premise.
- **HealBudget** (ServiceHealth). In a window the healer restarts a service no more often than
  its budget, plus one for each failed statement and panel restart.
- **LockedWritesStay** (SiteFiles). What an operation has answered with success stays in the
  files of its site until something replaces them on purpose.
- **RollbackHolds** (PanelUpdate). `restore-snapshot.sh` commits an older database before it puts the
  older api back. Every api migrates at its start, so one trap that starts the services as they
  are, in between, undoes the rollback for good. The property follows every failure of either
  script, crashes of the api and reboots.
- **ReportTrue** (PanelUpdate). The api that boots after the swap stamps the row of the update with its
  own version before the health check has decided; a build that is put back has by then said
  "succeeded". `current_state` must see through it by what runs.
- **EndsHold, ChangesHold** (Sessions). Three copies (rows, memory, table) are written one after the
  other by handlers that overlap each other, a reload, logins and restarts. The exceptions in the
  properties are the interleavings and the failures in which the code does lose a token although it
  answers with success; the comment of each property names them, and section 7 lists them.
- **TokenTaken** (FleetMember). The agent changes its token first and keeps the old one for a minute,
  the row follows. At each moment of any rotation the row has one of the two.
- **BusyIsNotDown** (AgentClient). Waiting for a permit, for the lock or for an answer, and error
  statuses, never count for the breaker; only a connection that is refused does.

## 4. Bounds

| Module | Bound | Why it is enough |
|---|---|---|
| GitDeploy | 2 tasks, 2 images, builds admitted while the history is empty (both tasks at once) and rollbacks while it has at most one row, `Window` 2 and calls of 0 or 1 minute | two builders suffice to overlap; an undo needs a second image; the budgets keep the two ratios that matter: each stretch between touches just fits the window, the whole pipeline does not |
| GitDeploy | `MaxEdits` 0 (safety) and 1 (healing) | an edit restarts the clock of the lock, so it can only delay a takeover: the safety proof is for any number. Healing needs them to stop, which is an assumption about operators |
| DeployApproval | 3 handlers, 2 requests, 3 administrators, 1 switch | two approvers and a rejection in flight on one request while a second is filed |
| DeploySchedule | 3 orders, 1 stranded status; other builds, failed writes and lost servers without a bound | an order replaced while its predecessor is picked and wiped with it, with a build in between and after; the counters only end the behaviours, hence no deadlock check |
| ServiceHealth | `Window` 5, `Cooldown` 2, `Attempts` 2, one upset (a failed statement, an operator's act or a panel restart) | more attempts fit the window, a cooldown apart, than the budget allows, as with 30, 10 and 3 |
| SiteLock | 3 requests, 3 domains, one of them `Fresh`, 1 deployment, 1 volume | a circle of three needs three pairs of domains; a request that waits for itself, and others behind it |
| SiteFiles | 3 requests of any kinds, 2 sites | the update, the writer in between and a third that changes what either sees; every request is served once, so behaviours end and deadlock is not checked |
| PanelUpdate | 2 releases, 2 snapshots, 2 scripts, 1 crash, loss of power or start that fails to stamp its rows | an update and the rollback of it, or two of either at once; a snapshot on either side of an update; a restart in any of their stages |
| Sessions | 2 tokens, 2 handlers, 1 failing query, 2 restarts, 3 seconds, `Long` 0 | a sweep against a logout, a login or another sweep; the reload at any moment; tokens of an earlier and of the same second |
| FleetMember | 2 certificates, 2 rotations, 1 failure, `Insecure` TRUE (clients without a pin do reach the agent) | overlapping rotations, a re-pin between captures; the counters end the behaviours, hence no deadlock check |
| AgentClient | 2 quick calls, 1 stream, 1 rotation, pools of 1, `Threshold` 2, 1 outage, 1 panic | one call waits for the permit of another, both fail before either is counted, the rotation waits for a stream |

`Task`, `Image`, tokens of sessions, administrators other than the owner, handlers and requests are symmetric in the
runs that check no liveness.

## 5. Fairness

- **GitDeploy.** Weak fairness of the steps of each task and of `Tick`: tokio polls a task whose
  call returned or timed out, and time passes. Nothing forces an operator, a failure or a
  restart.
- **DeploySchedule.** Weak fairness of the scheduler (its interval ticks, its deploy returns) and of the
  coming of a time; strong fairness of the UPDATE succeeding, which is retried each minute: a database
  that refuses it for ever is excluded. Nothing makes an operator act, a server come back or another
  build end; `OrderTaken` has the premise `Quiet` instead: from some point on the server is reachable,
  no build comes through another door, and no dead build has left its status behind.
- **ServiceHealth.** Weak fairness of both passes and the clock; strong fairness of the agent
  being reachable for each of them: it is assumed not to be out of reach for ever.
- **SiteLock.** Strong fairness of taking a lock, which the queue of a tokio mutex gives (waiters are
  served in order of arrival), and weak fairness of the end of the work: most calls an operation makes have a
  time limit, and where rsync or the removal of a tree has none, the panel hangs up at its own and
  the request drops its guards. A request that waits for itself has no work that ends.

- **PanelUpdate.** Weak fairness of `Boot` (systemd starts an enabled unit and what a script asks it to)
  and of each script: a stage ends or fails. Nothing forces a request, a crash or the task that waits.
- **AgentClient.** Weak fairness of the clock of a call (a time limit that has passed is taken, and a
  failure counted), of the panel's periodic tasks calling again, of the breaker's cool-down, and of
  the supervisor. Nothing is assumed of the agent, of an operator, or of the end of a stream.

`Sessions`, `FleetMember`, `SiteFiles` and `DeployApproval` state safety only.

## 6. What is proved

`GitDeployProofs` proves, for any finite or infinite set of requests and images, any window and
any budgets that fit it:

- `TypeCorrect`: `Spec => []TypeOK`.
- `LockInvariant`: `Spec => []IInv`, with `IInv == TypeOK /\ OneBuild /\ LockClock /\ InBudget`.
  `OneBuild` is not inductive: that the row of a builder is not acquirable depends on how long its
  calls took. `LockClock` says the age of the row is at most what the phase could have used
  (`Reach`) plus the minutes in the phase; `InBudget` bounds the latter; `BudgetAssumption` makes
  the sum fit the window (lemma `ReachFits`). Each kind of step has a lemma: a step that hands the
  build on (`GotoKeeps`), one that touches the row (`TouchKeeps`), the lock itself, the final
  write (`FinishKeeps`), and those that disturb no builder.
- `OneBuildHolds`, `LockClockHolds`, `LockHeld`: the safety properties of `lock_safety`.
- `SlotRefinement`: `Spec => SlotImplemented`.

`SiteLockProofs` proves, for any finite set of requests, any keys and any `Fresh` domains:

- `LocksAscend`: each request asks for its keys in ascending order, above those it holds, except for a
  `Fresh` domain, which is asked for twice (`Above`); for two at most; and a lock has one holder
  (`Exclusive`).
- `NeverDeadlocked`: `Spec => []NoDeadlock`: in every group of requests one waits for none of the group,
  or for nobody but itself, on a `Fresh` domain. Take the request that asks for the greatest key
  (`Greatest`, for finite sets of numbers). Whoever holds that key asks for a greater one, which is
  excluded, or for that very one: then it is the request that waits for itself, and by `Exclusive` for
  nobody else (`NoCircle`).
- `LocksTyped`: the type invariant.

`SiteFilesProofs` proves, for any requests, sites, kinds of operations and hang-ups:

- `FilesInvariant`: `Spec => []IInv`. `LockedWritesStay` alone is not inductive: a rollback writes
  a snapshot back, so the snapshot must have all that was promised (`Relies`), which nobody else
  can change meanwhile because the update holds its site (`Keyed`) and no site has two holders
  (`Exclusive`). `Working` is the one lemma behind all the operations: a step that changes the
  files or a promise of one site, with its lock or on record in `outside`, leaves what the other
  requests rely on.
- `LockedWritesKept`, `LocksRefined`, `FilesTyped`: `LockedWritesStay`, `LocksUsed` and the type invariant.

`DeployGatesProofs` holds the theorems of both gates in front of a build. Of `DeployApproval`, for any
administrators, handlers and bounds:

- `ApprovalInvariant`: `Spec => []IInv`, where `InFlight` says what a handler has read: the number
  of a request that exists, and an approver who is not the owner. `Uncontested` is what makes the
  ledger's verdicts final: with a request that is not contested one handler is alone (`Alone`), finds
  it as it read it until the verdict is written, and approved and not built after that (`Finds`), and
  nothing is built before it was decided (`Unbuilt`).
- `OneRequestWaits`, `ApprovalsAreSpent`, `ApprovalTyped`: `OneWaiting`, `ApprovalWasSpent` (an approval that
  stands is another administrator's and was built, is about to be, or is `burnt`) and the type
  invariant.
- `LedgerImplemented`: `Spec => LedgerKept`. `DecisionsAfter` and `StartsAfter` say how the step of one
  handler shows in the decisions under way and in the builds about to start, `StepIsLedgerStep` maps
  each step: the reads open a decision, the writes land it, the spawn starts the build, the
  cancellation cancels the one request that waits (`OneWaiting`), and everything else abandons or
  stutters. In the ledger a verdict lands on a request that waits, and a build starts once, unless
  the request is contested; the ledger names these requests, it does not leave them out.
- `VerdictsAreFinal`: `Spec => [][VerdictsStand]_vars`: a request that was decided or cancelled never
  waits again, whoever writes late. When it is not contested it stays as it was decided, and is built
  only when it stands as approved by another administrator than its owner and has not been built. It
  is read off the ledger, through `StepIsLedgerStep`, which is what the refinement is for.

Of `DeploySchedule`, for any number of orders and restarts, `DeployedOnce`: `ScheduleSpec => []AtMostOnce`. `NotRunYet` says that
an order on the row, picked or yet to come has not run, `Claimed` that the order under way is off
the row when `trigger_deploy_task` is called; orders are numbered, so none comes back.
`ScheduleTyped` is the type invariant.

`ServiceHealthProofs` proves, for any periods, any budget and any number of upsets:

- `HealthInvariant`: `Spec => []IInv`. The budget is a count of log rows, and a restart may be
  without one, so `HealBudget` is not inductive. `Accounted` bounds the attempts without a row by
  the failed statements and panel restarts, and one more while the healer logs; `Room` and `Apart`
  say that what the healer counted still stands when it restarts the service, since no time
  passes while it works; `Sorted` that the attempts lie in the order of their age and the one
  being logged is the last. `TickKeeps` is the step in which time forgets the first of them.
- `BudgetKept`, `GapKept`: `HealBudget` and `HealGap`. `HealthTyped` is the type invariant.

`PanelUpdateProofs` proves, for any number of releases, snapshots, scripts and faults:

- `UpdateInvariant`: `Spec => []IInv`. `RollbackHolds` says that the database is still the restored one;
  only `Boot` could change it, and does not when the binary it starts is no newer (`Fits`). That needs
  to be known of the tarballs, too, which are made while the api is up. Between the two halves of a
  restore the binary may be newer: then the api is down and nothing of the script starts it
  (`HalfWay`, `Restores`), nobody is up who could delete the tarball (`Kept`), and no other script is
  at work (`Alone`). `Forgets` says that an update which has swapped the binaries has ended the claim of
  the rollback before it. `lone` guards nearly all of them, as it does the property.
- `RollbackKept`, `GuardKept`, `UpdateTyped`: `RollbackHolds`, the action property `GuardHolds` and the
  type invariant. `GuardHolds` follows from `Calls`: while a script of the living process is at work, its
  reservation is held and no start is under way. `Launched`, `SpawnIs`, `WatchLeaves` and `OrphansAre` are
  the lemmas on how the scripts change.
- `ReportHonest`: `Spec => []ReportTrue`, from a second invariant, `Reporting`, that stands on the first.
  `ReportTrue` is about one moment; what leads to it is spread over the rows, the binary, the
  tarballs and the scripts. A row *belies* a binary when it is the last one with an outcome, nobody
  doubts it, and the release it says was rolled back is that binary (`Belies`; `BeliesAtBoot` for what
  remains so once `finalize_pending_on_startup` has stamped what was open, and `Booted` for what it
  may leave: a row it fails to stamp puts those before it in doubt, `unsure`). No row belies what runs
  (`HonestUp`), nor what a stopped panel will start (`HonestDown`), what a restore will leave behind
  (`HonestRestore`), or what was installed when a tarball was made (`HonestFiles`), since any of these
  is what runs a few steps later. Those steps need that an update only goes up, in rows and
  tarballs (`RowsRise`, `FilesRise`, `CallRises`) and in what `update.sh` swaps (`Climbs`); that the row of an
  update is the newest with a release to go to when it is asked for (`Asks`) and is not denied
  while the script runs (`Marks`); that an api which is up runs what is installed and waits for the
  script at work (`Serving`); and that a snapshot yet to be taken is nobody's (`Known`).
- `StoppedIsStarted`: `Spec => []StoppedIsOwed`: a panel that is stopped is owed a start by a script still at
  work, on every way out of it, unless a restore has left it half put back; scripts that overlap
  make no difference. It is what the liveness property `PanelComesBack` needs of every state: the rest
  of it is that a script's next stage comes.

`SessionsProofs` proves, for any number of tokens, handlers, faults, processes and ticks:

- `SessionsInvariant`: `Spec => []IInv`, with `IInv == Types /\ Ends /\ Changes /\ Revokes`. What the
  properties say of a token is whether it is *accepted*, by the memory of this moment; what a step
  keeps is where its end *is*. `Over` says that: in the table for as long as the token could be
  used (`Stored`) and, while the process serves, in the memory and in what a reload of it has read
  (`Held`), or among the exceptions. Without the table `EndsHold` would not outlive a restart, without
  `active` not a reload.
- `EndedStaysEnded`: `EndsHold`. A handler that writes its rows one by one has marked them all and
  stored those it has done (`StoresHold`), which is what its confirmation relies on.
- `ChangedOut`: `ChangesHold`. A sweep finds sessions by their rows, so a session without one must be over or in
  the hands of the handler that deleted it (`RowsGone`, `Taken`); each change has a number of its own
  and a sweep leaves no older row (`Swept`), save those a failed DELETE missed, which are excepted for
  as long as they stay; and rows are as new as the changes confirmed and under
  way (`RowsNew`), whatever other sweeps, logouts and logins come in between.
- `RevokedOut`: `RevocationHolds`. `Revokes` says that neither the setting nor the memory, nor the time a handler
  is about to write to either, is before the last revocation that had nobody beside it, unless its
  setting was not written (`unsaved`: it holds until the process ends) or not loaded (`lost`).
- `SessionsTyped`: the type invariant.

`AgentLinksProofs` holds the theorems of both kinds of agents. Of `FleetMember`, for any number of
certificates, rotations and failures:

- `FleetInvariant`: `Spec => []IInv`. `Resolves` says what a `for_server` has read is still in the row unless
  somebody wrote it since, `Captures` what a check-in has read and decided, `Pinned` that a server has a pin
  before it has a client unless a check-in without a fingerprint took it online (`unpinned`), `Rotates` that
  the row's token is the agent's current one, or the one before while a rotation is about to save.
- `CacheAgreesHolds`, `TokenTakenHolds`, `FirstCallPinnedHolds`, `FleetTyped`.

Of `AgentClient` with `Supervisor`, for any set of calls, pools of any size and any number of outages
and panics:

- `ClientInvariant`: `ClientSpec => []ClientInv`. `PoolsOK` counts the calls that have a permit, which are finitely
  many although the calls may not be; `OutagesCounted` says that nothing is counted, or about to be
  (a call that saw the failure and has yet to stamp it), without an outage; `TokenMoves` where the
  new token is at each step of a rotation that did not end early, and in the file where it was
  written.
- `PoolsNeverOverdrawn`, `BusyIsNotCounted`, `LocalTokenFollows`: `ClientTypeOK` (the pools and the type
  invariant), `BusyIsNotDown` and `TokenFollows`.
- `TaskNeverForgotten`: `ClientSpec => []TaskIsWatched`: while the panel is up its supervisor waits for the end
  of the task or sleeps before the next start, after any number of panics. It is what
  the liveness property `TaskComesBack` needs of every state.

The assumptions are those the modules name: `ConstantsAssumption`, `BudgetAssumption`,
`RequestsAssumption`, `KeysAssumption`, `ScheduleAssumption`, `ApprovalAssumption`, `HealthAssumption`,
`PanelUpdateAssumption`, `SessionsAssumption`, `FleetMemberAssumption`, `AgentClientAssumption`. TLC evaluates them on the instances of the runs.

**Only model-checked.** Every invariant, refinement and action property of the passing runs is a
theorem. What TLC alone shows is liveness
(`StrandedLockHeals`, `OrderTaken`, `DownIsSeen`, `EveryoneIsServed`, `PanelComesBack`,
`BreakerLetsThrough`, `TaskComesBack`), which depends on fairness and ENABLED, which the prover does not
handle; of `NoDeadlock`, `StoppedIsOwed` and `TaskIsWatched`, the safety that `EveryoneIsServed`,
`PanelComesBack` and `TaskComesBack` rest on, there are proofs. Induction
over data through the library's theorems needs an operator as a parameter, which none of the
provers instantiates, and a module with a RECURSIVE operator loses the SMT backend; the modules
here use neither.

## 7. Disagreements

### With a run

| Run | The code | What it contradicts |
|---|---|---|
| `health_silent` | `check_service_health` stamps before it fires and ignores a failed fire (`alert_engine.rs:1641`) | the comment on `fire_alert_with_retry` (`136-138`) |

### Further divergences

These come out of the same models when the property named is checked; no run is kept for them.

*Git deployments, approvals, schedules, services, sites*

- Stop, start and restart write `status` without asking whether it is the lock of a build
  (`git_deploys.rs:2048`, `2081`, `2109`), so a second build may start beside the first; the comment at
  the lock of `rollback()` (`1710-1713`) says the lock excludes that. `OneBuild` excepts such builds.
- `approve_deploy` writes its verdict by id, four awaits after it read `pending` (`git_deploys.rs:4728`), so
  a rejection that another administrator is answered in between becomes an approval and the request is
  built, against "Reject, which is final" (`docs/guides/git-deploy.md:329-330`; `docs/api-reference.md:916`).
  The ledger excepts it by name (`contested`); without the exception `LedgerKept` fails.
- An approver who is cut off between the UPDATE of the verdict and the spawn (the panel dies, the caller
  hangs up, the acknowledgement is lost) leaves a request that says approved and was never built
  (`git_deploys.rs:4728`, `4750`; "which starts the build", `docs/guides/git-deploy.md:329`). `ApprovalWasSpent` excepts it.
- `expose_domain` holds the lock of a domain and calls `enable_ssl_for_site`, which takes it
  (`agent/src/routes/docker_apps.rs:601`, `ssl.rs:990`), against `site_lock.rs:19-21`: the request waits for
  itself, and others for it, until its caller hangs up. `NoDeadlock` and `EveryoneIsServed` except
  that request and no other.
- rsync of a sync whose caller hung up writes on without the locks (`staging.rs:95`, the hang-up at
  `backend/src/services/agent.rs:282`), against `site_lock.rs:54-55`.
- The monitor of a deploy undoes it without the build lock, so it may swap the container under a
  later build (`git_deploys.rs:3101`; the comment at `1710-1713` calls rollback the last door).
- One unanswered probe makes it undo the deploy of a container that is up, and a container that
  is down answers the probe (`3064`; the history says "after container crash", `3106`).
- "Last successful deploy before this one" (`3069`) is the newest successful row with another
  image, which may belong to a later deploy.
- A deployment deleted during a build leaves a container behind (`1345`; the refusal at
  `1320-1324` is there to prevent that).
- Two approvers who both read a request as pending build it twice when the first build is over
  before the second asks for the lock (`4728`; `docs/api-reference.md:913` says 409).
- The UPDATE that clears a one-time schedule matches the id alone: an order cancelled after the
  SELECT is deployed, and one written after it is wiped (`deploy_scheduler.rs:104`, comment at
  `111-112`).
- The schedule is cleared before `trigger_deploy_task` may decline the deploy
  (`deploy_scheduler.rs:126`, comment at `84-87`), and before a restart may cut it off. `OrderTaken` excepts
  this and the wiped order by `fate`.
- A `building` left by a dead build keeps a scheduled order from being selected, although the
  lock itself would be taken over (`deploy_scheduler.rs:77`); so do builds that never stop. `OrderTaken`
  excepts both by its premise.
- An alert whose type is switched off when it is to be fired is answered `Ok(false)`
  (`services/notifications.rs:1361-1363`, `alert_engine.rs:158-173`), but the stamp of `1641` stays: switched on
  again, the alert is not told of while the condition lasts. `DownIsSeen` excepts it (`Declined`).
- The healer's resolve may resolve an alert the engine wrote after the healer's UPDATE, and an
  alert inserted after that resolve stays firing about a service that runs
  (`auto_healer.rs:410`, `alert_engine.rs:1652`).
- A service the healer gave up on comes back to it when the engine fires over `exhausted`
  (`alert_engine.rs:1639`; comment at `auto_healer.rs:124-125`), and three attempts ten minutes
  apart leave the thirty-minute window before a fourth is considered
  (`docs/guides/monitoring.md:156`).
- Plugin, theme and core actions write the files of a site without its lock
  (`agent/src/services/wordpress.rs:207`; `site_lock.rs:13` says every operation takes it), so a
  rollback may take their answered change away; `LockedWritesStay` excepts sites written so.

*Panel updates* (`services/panel_update.rs` unless another file is named)

- The reservation is kept when the COUNT query fails (`398`) or the script cannot be spawned (`454`), and
  when a restore fails before it has stopped the api: no update or rollback is taken until a restart.
- An api that crashes while `update.sh` prepares boots, stamps the row with its own version, which
  reads "rolled back", and the script goes on. The 15 minutes after which a row counts as abandoned
  have the same effect on a script that is only slow. `ReportTrue` excepts rows written that early.
- While a script waits for the health of the api it started, that api has no reservation: a second
  update or rollback starts beside it. `GuardHolds` and `lone` except what follows.
- The verdict file carries no identity: the verdict of a script whose api is gone is read by the task
  of a later update as its own.
- A loss of power between the commit of the restored database and the swap of the api lets the newer
  api boot and migrate forward, where a mere failure would leave it stopped (`torn`).
- Restoring a snapshot whose row predates its update brings that row back without an outcome; older
  than 15 minutes, it is stamped `abandoned` at the next start, the state the comment at `50-56` set
  out to prevent for manual snapshots. Snapshots newer than the restored one lose their rows.
- Deleting the newest row makes an older outcome the panel's current state; so does a start that cannot
  read the open rows, or not stamp one of them, which is only logged (`719-724`, `752-754`,
  `763-770`): the version that runs may then be reported as rolled back. `ReportTrue`
  excepts both (`unsure`).

*Sessions* (`routes/auth.rs` unless another file is named)

- A logout between the reload's SELECT and its refill is forgotten (`main.rs:513`), and an error of that
  query, or of the one at start, reads as an empty blacklist; the comments at `main.rs:270` and
  `577` say a revocation survives a restart.
- A token given in the very second of a revocation of everything is accepted after it.
- A login that read the account before a change of role gives its token after the sweep, with the
  old role. A session whose row could not be inserted is found by no sweep.
- A sweep that dies, or whose process does, between `DELETE … RETURNING` and its marks hides its tokens
  from a repeated sweep; one that overlaps it confirms before they are marked; one whose DELETE fails
  reads as no sessions and confirms all the same (`588`, `routes/users.rs:276`, `317`).
  `ChangesHold` excepts the tokens whose rows such a sweep has left.
- Two overlapping revocations of everything may leave the older time in the setting, and the panic
  button keeps a later time in memory than in the setting (`routes/security.rs:1118`, `1126`): tokens in
  between come back with a restart. A revocation whose setting cannot be written is confirmed
  (`1994`) and forgotten at the next start, and a start that cannot load the setting
  (`main.rs:287-289`) knows of none, against "survives restart" (`main.rs:285`). `RevocationHolds` excepts
  the three.

*Servers of the fleet* (`backend/src/routes/servers.rs` unless another file is named)

- A client that was resolved before an edit is put in the cache after the invalidate and stays until
  the next edit (`services/agent.rs:1322`; comments at `470` and `558`). `CacheAgrees` excepts it.
- After a rotation the agent checks in with the token it was installed with (`phone_home.rs:22`), is
  refused, and the sweep shows a server offline that is alive and takes calls.
- An agent that restarts takes the token of `agent.env` again (`src/scripts/install-agent.sh:195-198`), which
  the row no longer has. A lost reply of a rotation leaves the row's token good for one more minute;
  two overlapping rotations may save in the other order. `lost` stands for all three.
- After an administrator clears a pin, a call before the next check-in caches a client without one,
  and the check-in does not invalidate it; the log line at `services/agent.rs:819` says to wait for
  the check-in. The capture is a SELECT and then an UPDATE.
- A check-in without a fingerprint, which older agents send (`services/agent.rs:793-795`), shows a server
  online with no pin (`agent_checkin.rs:97`), and `for_server` builds a client without one
  (`services/agent.rs:1322-1357`). `FirstCallPinned` excepts such a server.

*Agent client and supervisor* (`services/agent.rs` unless another file is named)

- A call holds the lock around the token until its answer is read. A rotation waits for the longest
  stream, every new local call waits behind the rotation and times out there, and the 300 s layer may
  drop the handler in that wait: memory and `api.env` keep a token the agent no longer takes, although
  the comment in `rotate_token` (`routes/servers.rs:564`) promises communication at once. `TokenFollows`
  excepts the rotation that was cut.
- A rotation that fails after the agent has taken the new token returns before `update_token`
  (`routes/servers.rs:533-556`), and a registry that could not look the local server up at its start skips it:
  `cut`, too. An `api.env` that cannot be read is skipped and one that cannot be written is warned about
  (`routes/servers.rs:569`, `581-582`), with success answered: the next process starts with the old token
  (`unwritten`).
- A half-open breaker lets every waiting call through, where the log line at `178` speaks of a probe
  request; `now - last_fail` (`172`) wraps when the clock is set back.
- A task that ends because of the shutdown, or sits in its backoff then, is started again past the
  signal: the test at `main.rs:369` counts receivers, of which the supervisor itself has one.

## 8. What is not modelled

- In **GitDeploy**: the provisioning stream, environment variables, logs, previews; notices and
  activity rows. An agent call and the status write of a lifecycle button are one step. Database
  statements take no time.
- In **DeployApproval**: deletion of the deployment with its requests; who is notified.
- In **DeploySchedule**: cron schedules (they leave no state behind but the history) and the
  builds of other deployments the scheduler is busy with, except as delay.
- In **ServiceHealth**: several services or servers (their rows do not meet), maintenance windows
  and the switch that records the healer's acts, which the engine's "passes over" covers.
- In **SiteLock**: the queue order of a mutex, which strong fairness stands for. The two guards of a
  pair are dropped one after the other.
- In **SiteFiles**: what the files contain; databases; the clone, which makes its target; the restore
  of one file; installs.
- In **PanelUpdate**: the update of the agents of a fleet, the upload of snapshots, the contents of the
  tarballs, `/etc` and the agent's binary, a script that is killed without its trap (the panel then stays
  down until somebody starts it), two requests for an update at the same moment except as a refusal.
- In **Sessions**: two-factor enrolment and its short-lived token, passkeys, API keys, rate limits, the
  retention of expired rows, several accounts (their rows do not meet).
- In **FleetMember**: the local server, metrics and alerts of the sweep, what calls the clients are used
  for.
- In **AgentClient**: the client of a remote agent, a twin without the lock; what a call does; a write of
  `api.env` that stops half way (the next process may find no token in it and not start).
- In **Supervisor**: the startup sequence, tasks that are not supervised.
- Everything in `PROJECT.json` with status `not_modelled`, with its reason there.

## 9. Plan

Done, with proofs: `BuildSlot`, `GitDeploy`, `ApprovalLedger`, `DeployApproval`, `DeploySchedule`,
`ServiceHealth`, `SiteLock`, `SiteFiles`, `PanelUpdate`, `Sessions`, `FleetMember`, `Supervisor` and `AgentClient`.

1. **ContainerHealth**: the container check of the alert engine with expected stops, auto-sleep and
   recreation. **PreviewDeploy**: previews against branch deletion and expiry.
2. **UptimeMonitor** (status against incident), **BackupSchedule** (minutes missed by a busy pass,
   retention), the update of the agents of a fleet.
3. Theorems: what `StrandedLockHeals`, `OrderTaken`, `DownIsSeen` and `BreakerLetsThrough` need of every
   state, as for the other three liveness properties; the claim of a domain and the re-encryption of
   secrets as further models.
