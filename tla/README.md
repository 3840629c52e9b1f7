# BackupTool: a formal model

BackupTool is a backup service: a Node.js server with a SQLite database and a
web UI, and Go agents on the machines to be backed up. An agent holds one
WebSocket to the server, runs restic on request or on its own cron schedule, and
reports back over the WebSocket. This directory models the parts of it where
several actors meet: what the server believes about its agents, what happens to
a backup from request to integrity check, how a repository key is rotated, how
snapshots are locked, forgotten and pruned, how job definitions reach the
schedulers, where a snapshot lies and who finds it again, how an agent is
enrolled, how users log in and are managed, what the pages of the web UI show of
all this, and the Kubernetes agent.

The modules are written in plain TLA+. TLC checks small instances (`MC*.tla`,
`*.cfg`), TLAPS proves most of the safety properties, and one refinement, for
every value of the constants (`*_proofs.tla`).

## The system

| Part | Where | State | Operations | What makes it hard |
|---|---|---|---|---|
| Agent link | `server/src/websocket/index.ts`, `agent/cmd/agent/main.go`, `agent/internal/client/server.go` | `agentConnections`, `socketToAgent` (server memory), `agents.status` (database), the agent's connection | identify, heartbeat, close, `sendToAgent`, reconnect loop | the two ends of a connection learn of its death separately; three copies of one fact |
| Backup runs | same, `server/src/api/jobs.ts`, `server/src/api/snapshots.ts` | `snapshots` and `backup_jobs` rows, goroutines, cron entries | run, schedule, `snapshot_start`, `snapshot_done`, `check_result`, delete, reset | messages are written once and errors ignored; a goroutine writes to the connection it was started on; exceptions in the server's handlers end the process |
| Key rotation | `server/src/api/jobs.ts:333`, `websocket/index.ts:346`, `restic.go:385` | current and pending password of a job, keys of each repository | request, key add / list / remove per destination, commit | a two-party commit without identifiers, over several repositories, with lost results |
| Snapshot store | `server/src/api/snapshots.ts`, `server/src/db/index.ts`, `restic.go` | rows with WORM and individual locks, restic snapshots of a repository | complete, delete, bulk delete, lock, forget, retention, backfill at start, reset | database and repository are changed by different processes; time |
| Job configuration | `server/src/api/jobs.ts`, `server/src/api/internal.ts`, `main.go:639` | `backup_jobs`, cron entries of the agent | create, update, delete, `sync_jobs`, fetch | push without acknowledgement; several changes push nothing |
| Recovery | `snapshots.ts:83`, `destinations.ts`, `main.go:494-619`, `restic.go` | destinations, paths and suffixes, repositories, rows | backup to several destinations, check, verify, list, restore, forget, reset, move | one row for several repositories; jobs share destinations; settings move under what is stored |
| Enrollment | `server/src/api/agents.ts`, `server/src/crypto/certs.ts`, `server/src/licensing`, `install.ts`, `main.go:31-137` | agents, tokens, seats, CA files, the config and unit file of a host | token, install, register, connect, delete, uninstall, licence | check and use separated by an await; a lost answer; files written one after the other |
| Sessions | `server/src/api/auth.ts`, `web/src/api/client.ts`, `web/src/context/AuthContext.tsx` | refresh tokens, cookies, tabs | login, second factor, refresh (rotation), logout, expiry | one cookie jar for parallel tabs; answers in any order |
| Accounts, single sign-on | `auth.ts:166-350`, `settings.ts:245-346`, `sso.ts`, `sso-config.ts` | users, second factors, OIDC settings, cache and states | register, create, patch, delete, totp, sso | every password check and every call of the provider is an await |
| Kubernetes agent | `k8s-agent/` | files of credentials, scheduler entries | register, save, connect, sync, back up | four files, a volume that may go with the pod; shares the protocol, implements less of it |
| Overdue alerts | `server/src/alerts/overdue.ts` | last alert per job | periodic check | time, throttling |
| Self-update | `main.go:785`, `server/src/api/internal.ts:210` | binary on disk | hash, download, replace, re-exec | a crash between two renames |
| Settings, reverse proxy, IP allow-list | `server/src/api`, `server/src/middleware` | settings rows, caches | configuration | cached values |
| Web UI pages | `web/src/pages`, `web/src/context/WebSocketContext.tsx` | cached lists, two sockets, bars of running backups, timers | mount, focus, fetch, edit, announcement, pushed update | an announcement comes while a fetch is under way; two sockets, one of which reconnects |
| Discovery, notifications | `agent/internal/discovery`, `server/src/notifications` | none that outlives a scan | scans, e-mails | none of the kind modelled here |

### How the parts interact

A user's request reaches the server over HTTP (`server/src/api`), changes the
database in synchronous statements and, if the agent is connected, sends it one
message through `sendToAgent` (`websocket/index.ts:555`). Nothing is queued for
an agent that is away, and nothing is acknowledged. The agent reads its
messages in one loop (`main.go:236`); most of them start a goroutine, which
fetches what it needs over HTTPS (`server/src/api/internal.ts`), runs restic and
writes its answer to the connection that was current when it was started. The
agent's scheduler (`syncJobs`, `main.go:639`) starts backups by itself, again
with the connection it captured. Answers are handled in the server by one
asynchronous function per message (`websocket/index.ts:66`), whose database
statements run without interruption but whose rejections nobody catches: a
violated constraint ends the process. The database is the only state that
outlives the server; the restic repositories are the only state that is shared
by agents and changed by nobody else.

### What should hold of each part

| Part | Correctness |
|---|---|
| Agent link | the two maps are one relation; what is reachable is not shown as offline; a connected agent is reachable; every agent comes back |
| Backup runs | one row per snapshot, at most one outcome, no resurrection; an outcome has a row; a failed check is not shown as a success; a started backup is reported |
| Key rotation | a repository never loses its last key; what is committed opens what was asked for, whatever is edited meanwhile; the database always holds a password that opens it; a pending password is settled |
| Snapshot store | a WORM lock is fixed; locked rows stay; the data of locked rows stays |
| Job configuration | an agent with nothing under way runs the announced settings, on its current connection; a pushed change arrives; a schedule is installed |
| Recovery | what a row names is where the agent looks, and can be restored from there; jobs do not disturb each other; a verification hides nothing |
| Enrollment | one certificate per token, of the CA in force; a host with good credentials comes online |
| Sessions | one usable token per login, none without a user, no browser stranded with a dead cookie |
| Accounts | no change of a role undone by a slower request; no second factor nobody confirmed; no login answered twice; no provider but the configured one |
| Web UI pages | a page told of a change does not come to rest on an older list; the bar of a backup ends with it; nobody waits for ever for a pushed update |
| Kubernetes agent | a backup that was asked for ends; an agent with saved credentials comes back |
| Overdue alerts | a missed backup is alerted, once per interval |
| Self-update | there is a binary to start after every crash, and only one whose hash was verified |
| IP allow-list | the match is the one CIDR defines |

## The modules

| Module | Contents |
|---|---|
| `AgentLink` | the WebSocket between the agents and the server, on its own and as the basis of the next two |
| `SnapshotLifecycle` | abstract: what the `snapshots` table promises its readers |
| `BackupRun` | the conversation of a backup over `AgentLink`; implements `SnapshotLifecycle` |
| `JobSync` | how a job's definition reaches the agent's scheduler over `AgentLink` |
| `KeyRotation` | the rotation of a repository key over `AgentLink` |
| `SnapshotStore` | rows, locks, restic data and retention of a job over time |
| `Recovery` | destinations, repositories, rows; backup, verification, listing, restore, forget |
| `Pages` | the pages of the web UI that share lists: cache, announcements, edits, the Dashboard's bars, the wait for an update |
| `Session` | refresh tokens and the browser whose tabs use them |
| `Accounts` | users, roles, second factors, the OIDC configuration and its cache |
| `Enrollment` | tokens, the certificate authority, registration and the service of a host |
| `K8sAgent` | the agent for Kubernetes |
| `MCAgentLink`, `MCBackupRun`, `MCKeyRotation`, `MCSession`, `MCAccounts`, `MCRecovery` | constants and symmetry for TLC |
| `AgentLink_proofs`, `BackupRun_proofs`, `JobSync_proofs`, `KeyRotation_proofs`, `SnapshotStore_proofs` (of `Pages` too), `Recovery_proofs`, `Enrollment_proofs`, `Auth_proofs` (of `Session`, `Accounts` and `K8sAgent`, which share no name) | theorems and proofs |

Definitions whose comment says *mutant* are not part of a specification. Each
is a plausible mistake in the definition that follows it, kept to show that the
properties notice.

### AgentLink

| Variable | In the code |
|---|---|
| `agentConnections`, `socketToAgent` | the maps of `websocket/index.ts:37-40` |
| `agentStatus` | `agents.status` |
| `serverOpen` | connections for which the server has not had its `close` event |
| `conn`, `clientOpen` | the connection `handleConnection` reads; those the agent has not closed |
| `wire`, `up`, `down` | working network paths and what is in flight on them, in order |

A connection has two ends and a path, which fail separately. That is the whole
point of the module: the agent may have dialled again long before the server's
`close` event for the old connection runs. `Dial` is `connectWithRetry` with the
`agent_connect` that `ConnectWebSocket` writes; `HandleAgentConnect`,
`HandleHeartbeat` and `ServerClose` are the three handlers; `AgentReadError`,
`AgentExit`, `LoseLink` and `ServerRestart` the failures. A write on a dead
connection is lost silently (`SendUp`, `SendDown`), as a write into a socket
buffer is. Tokens, certificates and browsers are left out: a connection that is
refused changes nothing. So is the `offline` that a registration writes
(`agents.ts:104`): it comes before the agent has credentials to connect with,
and belongs to `Enrollment`.

### BackupRun and SnapshotLifecycle

The state is the link's, the ids in `backup_jobs` (`jobs`), the `snapshots`
table reduced to status, `finished_at` and integrity (`snap`), the scheduler's
entries with their captured connection (`entries`), backup goroutines (`runs`)
and the millisecond clock that names scheduled snapshots (`ms`). Requests are
`RunJob`, `DeleteSnapshot`, `ResetRepo` and `DeleteJob`; the agent's steps are
`FirstSync`, `ReceiveSyncJobs`, `ReceiveRunJob`, `FireSchedule` and the
goroutine's `FetchOk`, `FetchFails`, `FinishBackup`, `CheckDestination`; the
server's are `HandleSnapshotStart`, `HandleSnapshotDone`, `HandleCheckResult`
and `HandlerThrows`, the unhandled rejection. Heartbeats are left to `AgentLink`.

`SnapshotLifecycle` has one row per snapshot and says what may happen to it:
started or refused once, one outcome, a downgrade, orphaned, deleted for good.
The refinement mapping takes status and `finished_at` from `snap` and forgets
everything else. The refinement has a condition, which the proof made visible:
no two schedules fire in one millisecond (`OnePerMs`). The ids of scheduled
backups are milliseconds (`main.go:657`); two backups with one id are two
announcements of one row, and if a user deletes the row between them the second
brings it back (`websocket/index.ts:136`). The runs have one job and so one
schedule; `AnnouncedIdUnused` below is the statement this breaks.

### JobSync

`job` is one row of `backup_jobs`, with a `version` for everything that a backup
uses (paths, passwords, destinations), numbered by the change that made it, and a
`schedule` that the agent's parser accepts or refuses. The server takes any string
for a cron expression; the agent's scheduler is made `cron.WithSeconds()`
(`main.go:141`) and takes six fields or a descriptor like `@daily`, while each
expression of the web UI's picker has five. The error of `AddFunc` is ignored
(`main.go:656`), so that a refused one leaves the job without an entry, also
without the one it had (`ReplaceEntries`). The other variables are
`licensed`, the gate of the job list; `sync` the fetch of `syncJobs`, with what
was answered; `entry` the scheduler's entry, with the settings and the connection
its closure captured. Requests that push are `CreateJob`, `UpdateJob`,
`DeleteJob` and `ChangeOtherJob`; those that do not are `ChangeSettings` (the
two resets, update and deletion of a destination, a committed key) and
`ChangeLicence`. The agent's loop is `Connect`, whose first sync comes before
the server has identified the connection, `ReceiveSyncJobs`, `ApplyJobs`,
`FetchFails` and `Disconnect`. Two history variables mark the exceptions:
`fresh` says that the last sync succeeded, `unheard` that a change since the last
answer was announced to nobody. What an entry may be stale by is then exactly
these two, and `SettledIsCurrent` says there is nothing else. For one of the
changes without a push the code promises more: the answer to a reset announces
"a new isolated repository ... on the next backup" (`jobs.ts:403`), which a
scheduled backup does not keep while nothing makes the agent fetch.

### KeyRotation

`current` and `pending` are the two password columns of the job, `keys` the set
of passwords that open the repository at each location, `rots` the goroutines of
`rotate_key`. One restic command is one step (`KeyAdd`, `KeyList`, `KeyRemove`,
and their failures, of which only that of `KeyAdd` is one for the code); the
loop's end, `RotationDone`, reports. Passwords are numbers, drawn in order, so that
"fresh" means "not used before".

Where the repositories are may change at any moment of a rotation:
`destinationIds`, `gone`, `path` and `suffix` are the job's list, the destinations
without a row, their paths and the job's suffix, changed by `EditDestinations`,
`DeleteDestination`, `MoveDestination` and `ResetRepo`. `RotateKey` sends the
destinations that still exist (`Finds`, `jobs.ts:352-359`), in the order of the
list, which may leave a shorter list or an empty one; the agent answers an empty
one with a success at once. The history variable `asked` holds the repositories
the latest request named, `offered` the places and passwords of every
configuration there has been, since a backup may come with an old one
(`FirstBackup`). A list names no destination twice, as the forms of the web UI
build it; the API does not look (`jobs.ts:38`), and with a duplicate the second
`key add` would come after the old key has gone, and fail.

### SnapshotStore

One job, its repository paths (a reset moves to the next) and its backups,
numbered in the order they start. `row` is the table with its two locks, `data`
says at which path a backup's data lies, `runs` holds the configuration a
backup works with (`FetchConfig` for a manual one, `UseEntry` for one the
scheduler starts with the settings of its last sync, which may be old), `done` and `forgets` what is in flight. Time is a counter
of days; the locks compare with it. How messages get lost is `BackupRun`'s
subject, so here an outcome is simply delivered or lost, and a forget request
reaches the agent or does not. `Restart` is the migration of `initDb` that gives
old rows a WORM lock; it runs at every start.

### Recovery

`listed`, `suffix` and `place` are a job's destinations, its repository suffix
and the path of each destination; `repo` the repositories that exist, each with
the job whose password opens it; `copies` the restic snapshots, named by run and
destination as restic names them by content; `tasks` the agents' goroutines.
A destination that is sent along carries its number in what is sent, so that the
loops, which take the `Upcoming` one, keep that order: of the job's list for a
verification (`Sent`), of the destinations table for a backup (`Fetched`, as
`internal.ts:164` selects the rows by their ids). A location is made of the
destination, its path, the job and the suffix; but jobs older than the suffixes
have none (`restic_repo_suffix` is null until the first reset: `db/index.ts` adds
the column and fills in nothing), suffix 0, and share the path of the destination
itself (`restic.go:723-727`). `FirstJobs` says which jobs are of which kind.
`restic cat config` may fail although there is a repository, and is then
followed by `restic init`, as for one that is not there (`restic.go:499`).
`runBackup` is followed destination by destination (`FetchConfig`, `CatConfig`,
`InitRepo`, `Save`, `StepFails`, `Check`), `Proceed` being its loop with the
outcome at its end, verification likewise (`VerifyNext`, `VerifyDone`), restore
and forget in one step, since they look at the configuration once. `EditJob`,
`ResetJob`, `ResetDestination` and `MoveDestination` change what the goroutines
have already read. Two history variables carry the exceptions: `moved` holds the
runs whose data may not lie where their job looks now, because a change without
a mark on the rows met them; `excused` those that met a failure.

### Pages

One browser. `version` is the server's side of a list (agents, jobs, snapshots):
the number of its last change stands for its contents. `list` is the query cache
with the fetch under way, `socket` and `inbox` are the connection of
`WebSocketProvider`, which reconnects, `own` and `ownInbox` the Dashboard's own,
which does not. `running` holds the Dashboard's progress bars, `update` what the
Agents page says of a pushed update and whether its 30 seconds run, `edit` the
lists that the answer to the user's request will mark. The server's and the
agents' steps (`AgentStatus`, `SnapshotStart`, `Progress`, `SnapshotDone`,
`CheckResult`, `JobResult`, `UpdateAck`) change rows first and announce them
after; `ChangeQuietly` is every change that is announced to nobody. `Refreshes`
and `Edits` are tables of which page marks which list after what. The user's
steps are `GoTo`, `Focus`, `Save`, `PushUpdate`.

How the cache behaves is modelled from its library as the pages use it: data is
fresh for 30 seconds (`Age`), a list is fetched at mount or focus if it is
missing or old, and marking a list that is shown (`Invalidate`) cancels a fetch
under way and asks anew, but not if it is the first one. Two history variables
say what the properties are about: `told`, what each list was when its page was
told to refresh it, and `failed`, the lists whose last fetch failed.

### Session

`tokens` is the table `refresh_tokens`, `jar` the two cookies of one browser,
`tabs` the one request each tab has under way, with the cookies it was sent with
and those its answer sets. The client's refresh and retry after a 401
(`client.ts:10-24`) are stages of a request; login, second factor, single
sign-on and logout are calls. Requests and answers may be lost; `spoilt` marks
the logins that lost an answer with cookies, for which nothing can be promised,
as the token they carried has already been revoked.

### Accounts

`rows` is `users`, `work` the requests that wait for a password hash, a password
check, a discovery or the exchange of a code, each with what it had read.
`Register`/`FinishRegister`, `CreateUser`/`FinishCreate`, `Patch`/`FinishPatch`,
the second factor's three requests and the OIDC login and callback are the two
halves of handlers; `ssoRow` and `cached` the OIDC settings and the discovery
made from them, which may be of settings that have been changed or deleted since:
the redirect to the provider is made with the client of the cached ones and the
redirect URI of those in force (`OpenState`), and a code is exchanged with the
cached ones, which the provider accepts as long as they are those the login was
sent with (`Accepted`). Saving settings may disable them and clears the cache,
deleting them does not. `access` is every token that may still be in some browser.
An operator is a viewer here, as only the administrator's rights are asked for.

### Enrollment

`row` is `agents`, `disk`, `unit` and `proc` a host's `agent.yaml`, service and
process, `caKey` and `caCert` the server's two files, written by two steps of a
start (`StartServer`, `WriteCert`). `RunInstaller` is `install.sh` up to its
registration, which is checked (`CheckRegistration`) and finished
(`FinishRegistration`) in two steps, as the code awaits the certificate in
between; `SaveConfig` may fail with a warning. `Connect` compares the token with
the row; `Uninstall` is what an agent does when it is told to go.

### K8sAgent

`pod` is the container's main goroutine, `files` what `SaveCerts` has written so
far, `todo` what it has yet to write, `entries` the scheduler with the
destination it captured. A death of the container keeps the volume, a move of the
pod loses it (`PodDies`), as the chart mounts an `emptyDir`. The repository of a
destination is one for all jobs (`repo`): this agent ignores the suffix that
keeps the other agent's jobs apart, so that of two jobs with one destination
only the first has backups that succeed. Its scheduler is made with seconds too
and ignores the same error (`k8s-agent/cmd/k8s-agent/main.go:65,344`): a sync adds
entries for any set of the jobs.

## The runs

| Run | Instance | Shows |
|---|---|---|
| `agent_link` | 2 agents, 3 connections, 3 failures | the maps are one relation, reachable agents are not offline, all agents come back |
| `backup_run` | 1 agent, 1 job, a manual and a scheduled backup, 1 destination, 1 failure | refinement of `SnapshotLifecycle`, outcomes have rows, a failed check leaves no success, a run resolves while its connection lives |
| `job_sync` | 1 agent, 2 connections, 3 changes, 2 failures, any number of failed fetches | an agent with nothing under way runs the announced settings on its current connection, or nothing if its parser refuses them; every push takes effect in this sense |
| `schedule_refused` | 1 agent, 1 connection, 1 change, no failure | violated: a job with a schedule gets an entry |
| `key_rotation` | 2 destinations, 2 requests (rotations that may overlap, or a rotation and an edit, a deletion, a move or a reset), 1 failure | no repository loses its last key; a single rotation commits what opens everything it named and never loses the last it named; pending passwords are settled |
| `snapshot_store` | 2 backups, 3 days, 1 reset, retention of 1 | WORM locks are fixed, locked rows stay, WORM backups spare locked data |
| `pages` | 1 list, 1 backup, 3 changes or messages, 3 moves of the user, 1 failure | no page rests on less than it was told of, bars end with their backups, no push waits for ever |
| `session` | 2 tabs, 1 user, 3 tokens, 1 loss | one usable token per login, none without its user, the browser's cookie can be renewed |
| `accounts` | 2 accounts, 2 waiting requests, 1 OIDC login, 1 change of its settings | no lost change of a role, no unconfirmed second factor, no OIDC login that is answered twice |
| `enrollment` | 2 ids, 2 hosts, 3 credentials, 2 failures | one CA, one registration per token, hosts with good credentials come online |
| `recovery` | 2 jobs, one shared destination of two, both with suffixes or, listing one destination each, both without, 2 backups, 2 changes or failures | rows name what the agent finds, and restores unless an earlier job shares the destination; jobs with a suffix do not disturb each other; verification hides nothing |
| `k8s_agent` | 2 jobs on 1 destination, a manual and a scheduled backup, 3 changes or failures | a backup ends while its connection lives; the agent comes back |

### Known disagreements

One run is expected to find a violation: `schedule_refused`. The picker of the
web UI asks for a "Cron expression (minute hour day month weekday)"
(`CronPicker.tsx:218`), and each of its presets has these five fields. The agent's
scheduler wants six, `AddFunc` returns an error, nobody looks at it
(`main.go:656`), and the next statement logs the job as scheduled: it never runs
by its schedule. The finding in `PROJECT.json` quotes the places.

More statements of the repository's documents and comments are stated in the
modules and are false of the code. They are not part of a run, to leave room for
the components above; each is violated when it is named as an INVARIANT (`RunEnds`,
`CommitOpensAll`, `CommitOpensSome`: PROPERTY) in the configuration of its module,
with the bounds given here.

| Statement | Instance | What happens |
|---|---|---|
| `AgentLink!IdentifiedIsReachable` | 1 agent, 2 connections, 2 failures | the close of a replaced connection deletes the map entry of the new one (`websocket/index.ts:525`) |
| `BackupRun!RunEnds` | a manual backup, 1 failure | the one message with the outcome is lost and the row runs for ever (`main.go:636`) |
| `BackupRun!AnnouncedIdUnused` | 2 agents, 2 jobs, 1 millisecond | two schedules draw one id (`main.go:657`); with it fall `ImplementsLifecycle` (a deleted row comes back) and `FailedCheckNotSuccess` (two outcomes in one row) |
| `KeyRotation!OpensWhenSettled` | 2 destinations, 1 rotation, 1 failure | the first destination has dropped the password the database keeps (`main.go:383`) |
| `KeyRotation!DbHoldsKey` | 1 destination, 2 rotations | the second request overwrites the pending password the first needs (`jobs.ts:346`) |
| `KeyRotation!CommitOpensAll` | 1 destination, a rotation and a reset, or 2 and an edit | the repository that the job has by the time of the commit was not in the request; a backup that comes between makes it with the old password, or it was there before |
| `KeyRotation!CommitOpensSome` | 1 destination, its deletion and a rotation | no destination is left in the request (`jobs.ts:352-359`), the agent reports success, and the job's password becomes one that opens nothing (`main.go:377-393`) |
| `Recovery!RestorableFromChoice` | as `recovery` | `handleRestore` looks for the chosen destination in the agent's jobs and takes the first that lists it, with its password and path (`main.go:568`); a snapshot of another job can be browsed, but no choice in the dialog ("Choose which storage destination to restore from.") restores it |
| `Accounts!CacheInForce` | as `accounts` | "No restart is required — changes take effect immediately" (`README.md:335`): a discovery that was under way when the settings were saved is cached after the save, and deleting the settings leaves the cache (`sso.ts:68-75`, `sso-config.ts:139-145`) |
| `SnapshotStore!LockedDataStays` | as `snapshot_store` | retention without WORM prunes the data of locked rows (`restic.go:230`) |

The comment "so they never interfere with each other" (`jobs.ts:113`) is about jobs
that get a suffix when they are created. Two older jobs without one meet on the path
of a destination they share, and only the one whose backup came first opens the
repository there; the other's backups fail until it is reset itself.
`FailsForAReason` counts such a meeting as a reason, and only on such a path.

`Pages` follows the code also where no document promises otherwise and a user may
be surprised. An announcement that comes during a list's first load is not
followed by another fetch; the next mount or focus after 30 seconds shows it.
Deleting an agent or a job removes rows of lists the page does not mark
(`RemoveAgent`). The answer `checking` to a push does not stop the timer, which
then reports that nothing was heard; and if another user made the push, nothing
on the page ends its "Downloading" text. The Dashboard's socket is not opened
again, so its bars may outlive their backups once it is lost, which is why
`RunningIsLive` asks for the socket.

**Why the bounds are enough.** The link's hazards need an old and a new
connection of one agent, and a second agent whose state must not be touched:
three connections and three failures allow two stale connections at once. A
connection's identity is used again after both ends are closed, so the number
of reconnections is not bounded by `Sockets`. A backup's hazards need two
snapshots of a job (one would hide that a reset or a deletion takes the wrong
one) and a failure, which may be a lost connection or a restart; that the check
of a second destination overwrites the first, or that two failures meet, is
covered by the safety theorems, which hold for any number of both. A rotation's hazards need
two destinations and two requests: two rotations that overlap, or one with a change
of the list, a destination or the suffix at any moment before, during or after it.
With a rotation and more than one change, the safety theorems speak. A stale scheduler entry needs a
change before, during and after a fetch, and a new connection while an entry
holds the old one. Locks need a snapshot that is
locked and a second backup whose retention could take it, and enough days for
a lock of two days to expire. A refresh race needs two tabs and the
successor of a successor: three tokens. A lost update of an account needs two
waiting requests; the second account is the administrator who changes the
first. Two hosts with two ids reach a stolen token, a reinstallation and a
replaced connection; three credentials a host that registers again after
another did. A misplaced snapshot needs two destinations, two jobs that share
one, two backups, and two events, one of which may come between two steps of a
backup; the destinations table has the shared one first, the list of the first job
last. The Kubernetes agent needs a second job that owns the repository first,
and three events: a failed write, a death and a lost link. The lists of the web
UI do not depend on each other, so one of them is enough; its hazards are two
changes around one fetch and a page that is left and mounted again, and a bar
needs a start, a progress message and an end. Symmetry of connections, tabs, users and runs is used in runs without liveness only.

**Deadlock** is checked for the link, which never stops (heartbeats, dialling).
The others leave heartbeats out and bound the users' requests, so they may come
to rest with nothing left to do; where they must not, `RunResolves`,
`PushTakesEffect` and `PendingSettles` say so.

**Fairness.** Weak fairness only. Dialling is retried for ever with a pause
(`main.go:193-206`) and succeeds at some time; the event loop of Node.js runs
every handler whose message has arrived; goroutines run and restic ends; a fetch
is answered or fails, with no promise which; the
server pings each connection every 30 seconds (`websocket/index.ts:60`) and the
agent sends heartbeats (`main.go:217`), so TCP reports a dead path to both ends.
Hosts start an enabled service again (`Restart=always`, `install.ts:234-261`),
Kubernetes a container that has ended; a registration that has begun goes on. A
browser's requests are answered or fail, and its timers run.
Users, schedules and failures promise nothing. Failures are bounded, as liveness
is claimed for the time after the last one.

## The proofs

For every value of the constants that satisfies their assumptions:

| Theorem | Property | Argument |
|---|---|---|
| `LinkTypeCorrect` | `LinkTypeOK` | one typing lemma per action, over any message sets, so that other modules use them too |
| `RegistryIsConsistent`, `ReachableIsNotOffline` | `RegistryConsistent`, `ReachableNotOffline` | invariant `LinkInv`: the types and both properties together (a late close keeps the last one only because of the other two) |
| `BackupRun_proofs!TypeCorrect` | `TypeOK` | the link's lemmas with the backup's messages |
| `OutcomesHaveRows` | `OutcomeHasRow` | invariant `OrderInv`: a goroutine whose connection still carries messages was announced earlier in that queue, or its row is there; a request's row was inserted before it was sent; so no outcome comes before its row, whatever connection dies |
| `FailedCheckShows` | `FailedCheckNotSuccess`, given `[]OnePerMs` | invariant `OutcomeInv`: a drawn id is at one place at most, in a request, a goroutine or an outcome on its way; its checks follow the outcome on the same connection; while it is at such a place its row has no outcome and no check. So no outcome overwrites a failed check |
| `BackupsFollowLifecycle` | `ImplementsLifecycle`, given `[]OnePerMs` | from `OutcomeInv`, each step is a step of `SnapshotLifecycle` or a stutter: an announcement finds an id that was never used, an outcome a row that has none |
| `SyncTypeCorrect` | `TypeOK` | invariant `SyncInv` |
| `PushedIsCurrent` | `SettledIsCurrent`, of accepted and refused schedules | `SyncInv` has `OnItsWay`: while the agent's connection works, every announced change is in the queue, or about to be fetched, or in the answer, or applied; and `OneOpen`, by which the connection the server writes to is the one the agent reads, if it can carry a message at all |
| `RotationTypeCorrect` | `TypeOK` | the link's lemmas with the rotation's messages |
| `RepositoryKeepsAKey` | `RepoKeepsAKey` | invariant `KeyInv`: types, a goroutine's own new key is never on its list of keys to remove, and one that has added a key is at a place of its list; a removal needs that new key in the repository, so it leaves at least that one |
| `SingleRotationCommits` | `CommitOpens` | invariant `ZeroInv` before the first request, then `OneInv(a)` for the list `a` it named, kept while only one password was drawn and whatever is edited: the new password opens every repository of `a` that the goroutine is done with, all of them when a success is on its way, and none of them loses it again |
| `LastDestinationOpens` | `LastHoldsKey` | invariant `LastInv`, kept while only one password was drawn: the rotation is at one stage (asked, at work, succeeded, failed), and the last repository it named has the new password only at work there or after success; so the pending password is dropped only while that repository lacks it. A list names no destination twice (`Named`), without which the last repository could be done before its turn |
| `StoreTypeCorrect` | `TypeOK` | invariant `StoreInv` |
| `WormLocksAreFixed` | `WormLockFixed` | `StoreInv` has `OneOutcome`: a backup runs, or has its one `snapshot_done` in flight, or neither, and until its outcome is recorded its row has no WORM lock; so no second outcome can move a lock, and the migration touches only rows without one |
| `LockedRowsAreKept` | `LockedRowsStay` | the guards of deletion against the two locks, over any number of days |
| `WormSparesLockedData` | `WormBackupsSpareLocked` | `OneOutcome` and `ForgetsAreDeleted`: a running backup has no data yet, so retention under WORM keeps what was there, and only data of deleted rows is forgotten |
| `SessionTypeCorrect`, `OneLiveToken`, `LiveTokensHaveUsers` | `SessionTypeOK`, `OneLiveTokenPerLogin`, `LiveTokensOwned` | invariant `SessionInv`: the two properties, that a row which was never issued has no user, that an answer carries only an issued token, and that only a refresh presents the cookie |
| `JarStaysRenewable` | `JarRenewable` | invariant `JarInv`: a token on its way to the browser is usable and in no other place (not in the jar, not in another answer, not presented by any request), so no other tab can have used it up before it arrives |
| `Recovery_proofs!TypeCorrect` | `TypeOK` | invariant `Inv`, below; a suffix or path is numbered by the events that changed it, so it stays among the `Locations` |
| `Browsable` | `BrowsableUntilMoved` | `Inv` has, of every run that no unmarked change met (`moved`), that what it saved lies where its job looks now (`Stored`), whether the goroutine still holds it as its last result, or a row names it; a backup under way that aims elsewhere is in `moved`; and retention leaves the newest, which is the one just saved |
| `FailureHasReason` | `FailsForAReason` | a goroutine past a failed step is already in `excused`, and a repository that exists below a job's suffix opens for that job, as only a job that has the suffix makes one there (`OwnRepositories`); so `init` fails there only for what the run's own job has made, after a `cat config` that failed or with two first backups of one job |
| `Restorable` | `RestoresUnlessShared` | from `Inv`: what the row names is `Stored` in the first repository that the restore looks at, unless an earlier job lists its destination |
| `VerificationFinds` | `VerifyFindsDamage` | what was damaged when it was asked for and is not among the destinations still to come made the verification `bad` when it was passed |
| `PagesTypeCorrect` | `PagesTypeOK` | invariant `PagesInv`; a list's number is at most the number of changes made (`ChangesCounted`) |
| `ToldIsShown` | `ShowsWhatItWasTold` | `PagesInv` has `ListsUpToDate`: of every list whose last fetch did not fail, the page holds what it was told of, or an answer that was read after it was told, or a fetch that has not been read yet; which one depends on whether marking cancelled the fetch that was under way |
| `BarsAreLive` | `RunningIsLive` | `PagesInv` has `BarsEnd`: a progress message on its way to the Dashboard is followed by its backup's end, or the backup runs; so a bar is never set after the message that removes it |
| `Auth_proofs!TypeCorrect`, `EnabledIsConfirmed`, `RoleIsLastNamed`, `LoginAnsweredOnce` | `TypeOK`, `EnabledSecretConfirmed`, `RoleAsLastNamed`, `OneExchangePerLogin` | one invariant over rows, waiting requests, settings, cache and login states: a callback that waits has used up its state, and is the only one that has; requests and single sign-on touch disjoint parts, so each is proved with the other unchanged |
| `Enrollment_proofs!TypeCorrect`, `OneCA` | `TypeOK`, `IssuedByCurrentCA` | invariant `EnrollInv`: the certificate is written last (`CaInOrder`), so a start that was cut short makes a new CA only while there is no certificate; and whatever was issued came from the certificate there is (`CredsGiven`) |
| `TokenUsedOnce` | `RegisterOnce` | `EnrollInv` again: a row's token is valid only until its first credentials (`TokenFirst`), and a registration between its check and its end ends with the server (`IssuingFirst`) |
| `K8sTypeCorrect`, `TokenIsRead` | `K8sTypeOK`, `TokenWithKey` | invariant `K8sInv`: a registration writes its files in one order (`SavedInOrder`), the agent's id, which the start looks at, before the token; so a token in memory came with a key |
| `RowsAnswered` | `NeverStranded` | `K8sInv` has `RunsInv`: a goroutine that still has the connection it was started on is linked, and its row is there; so a row that runs has a goroutine or an answer on its way, or its connection was cut |
| `SavesWithOwnPassword` | `OwnPassword` | `RunsInv`: a goroutine that saves has opened the repository with the password of its job, whoever made it |

Most of these properties are not inductive: a lock is fixed only because no
second outcome can come, an entry is current only because nothing announced has
been lost on the way. The strengthenings were checked with TLC on the
instances above before they were proved. The type invariants of `JobSync`,
`KeyRotation`, `SnapshotStore`, `Recovery`, `Enrollment` and `Pages` are proved only, and no
run repeats them; likewise `OwnRepositories`, `NeverStranded`, `OwnPassword` and
`TokenWithKey`, which are parts of the inductive invariants or follow from them.

`OnePerMs` is an assumption of two theorems about behaviours, not about
constants: `[]OnePerMs` says that in no millisecond two schedules fire, on
whatever agents. It always holds of a server with one scheduled job; with more,
nothing in the code ensures it: cron expressions name minutes, so that jobs with
the same one start within the same second. The other theorems assume only what
the modules' `ASSUME`s say.

Only model-checked: all liveness
(`AgentsComeBack`, `RunResolves`, `PushTakesEffect`, `PendingSettles`,
`ServiceComesOnline`, `AnnouncedIsShown`, `UpdateWaitsEnd`, those of `K8sAgent`): fairness and ENABLED are beyond the
proof system used.

## What is not modelled

- Overdue alerts, the IP allow-list, notifications, settings and the audit log,
  source discovery: parts that read the rows of others or keep rows nothing else
  reads, without a protocol of their own.
- The replacement of the agent's binary. On Linux it is one rename; on Windows
  there is a moment without a file (listed as a hazard).
- SAML and LDAP beyond the accounts they make, the cryptography, the contents of
  licences: library calls and pure checks.
- `install.ps1` and the macOS branch of `install.sh`.
- Of the web UI: the forms, the onboarding, the pages of settings, licence and
  audit log, and the restore dialog (it takes any `restore_result` for its own,
  and may get it before the answer to its request).
- Inside the modelled parts: what restic does beyond its keys and the snapshots it
  holds, the contents of messages that no decision depends on, and errors of the database other than violated constraints. Two
  writers of one WebSocket connection on the agent's side, for which the library
  has no defined behaviour, are a hazard without a property.
- Modelled, but promised by no document and therefore without a property: how
  long "busy" lasts; which destination's check a row shows; that rows follow
  retention, and data the deletion of its row; that bulk-lock may shorten a lock;
  that a logout leaves the refresh token usable; that two first registrations
  make two administrators; that a smaller licence leaves more agents than seats;
  that scheduled backups of the Kubernetes agent have no row.

## Plan

What is left, in this order:

1. `Overdue`: schedule, last success, throttle, restart of the server.
2. `IpAllowlist`: the match as a pure function over small words (`% 2^w`),
   against the definition of a prefix; the cache in front of it.
3. `SelfUpdate`: hash, download, two renames, crash, restart, on both systems.

The runs are kept to a dozen, so that all of them can be repeated in minutes.
