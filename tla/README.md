# Testflinger in TLA+

Testflinger hands out test jobs to machines of a lab. Users submit jobs to a
server (Flask over MongoDB); one agent process per machine polls the server,
runs the phases of the job it gets with the commands of a device connector, and
posts states, logs, results and artifacts back. There is no channel from the
server to an agent: every decision is taken by somebody who has read a document
some time ago. That is what these modules are about.

Paths below are short: `database.py` and `v1.py` are
`src/server/src/testflinger/{database,api/v1}.py`; `agent.py`, `job.py`,
`client.py`, `handlers.py`, `runner.py` are in
`src/agent/src/testflinger_agent/`; the CLI is `src/cli/testflinger_cli/`;
device connectors are in
`src/device-connectors/src/testflinger_device_connectors/`, `multi/` among their
`devices/`; the agent host charm is in
`src/agent/charms/testflinger-agent-host-charm/src/`, the server's in
`src/server/charm/src/`.
`PROJECT.json` maps every definition to its lines.

1. Inventory
2. Modules and how they correspond to the code
3. Runs, bounds, fairness
4. Proofs
5. Disagreements of code and documents
6. What is not modelled
7. Order of the work, and what could follow

## 1. Inventory

| Component | State it keeps | Operations | Hard because | Correct when |
|---|---|---|---|---|
| Server: job queue (`database.py`, `v1.py`, `events.py`) | `jobs`, `agents`, `jobs_events`, GridFS files | submit, attachments, GET /job, POST /result, cancel, TTL | several handlers interleave between database calls; HTTP clients repeat requests; handlers are killed | a job goes to one agent that may run it; records and logs tell what happened; urgent jobs go first and none is lost from the queue |
| Agent: status (`agent.py`, `handlers.py`, `__init__.py`, CLI `admin.py`) | state of the agent record; `needs_offline`, `needs_restart` | offline, restart, heartbeat, start-up | agent and administrators write one field that both read before | a command to go offline is kept, obeyed, and stops jobs and restarts |
| Agent: job execution (`agent.py`, `job.py`, `runner.py`, `stop_condition_checkers.py`) | phase, process, results file; job_state on the server | six phases and cleanup, timeouts, cancellation, allocation | a cancellation comes at any moment and shares its field with the agent's own posts | a cancelled job stops, except where stopping is dangerous; failures end jobs; the outcome is complete |
| Agent: result transmission (`client.py`, `agent.py`) | directories of the jobs | `transmit_job_outcome`, `save_artifacts`, `retry_old_results` | kills and failures between two steps on disk and on the server | no outcome is lost, everything arrives |
| Multi-device connector (`multi/`) | the sub jobs it made, job list file | create, poll, time out, list, clean up | a parent and its sub jobs are jobs of different agents and wait for each other | tests have their devices; nothing is left in a queue; devices come back |
| Logs and live output (`logs.py`, `handlers.py`, CLI `do_poll`) | `logs` collection; number of the next fragment on both sides | post, store, query by phase, poll | fragments are lost, repeated, delayed; one request is several queries | a poll shows each fragment once and in order, and ends |
| Sign-in and rights (`api/auth.py`, `v1.py`, `oidc/`, `tools/client_credentials_admin.py`, CLI `auth.py`, `client.py`) | client permissions, restricted queues, refresh tokens, web sessions; access tokens of commands, the file of the refresh token | token, refresh, revoke, permissions, restriction of queues, device flow, submission | rights are copied into tokens; documents are read and written back; commands share a file; the user may not come back | what is withdrawn stops to work in time; a command ends |
| Secrets (`secrets/`) | a collection of MongoDB, or Vault | put, get, delete, expire; read at GET /job | several calls for one read; single-use secrets are deleted after it | a single-use value is given once |
| Master key (server charm, `tools/rotate_mongo_secrets_key.py`) | configured key, stored key of each unit, the DEK in the key vault | config-changed, rotation, retry action, restarts | units change one after the other; the rotation is two steps; hooks die | the DEK can be unwrapped, or the rotation taken up |
| Server: advertised queues and images | `queues` | advertise | - | - |
| Server: provision log | `provision_logs`, streak in `agents` | POST provision_logs | read and write of a document without exclusion | the streak is that of the log |
| Server: web views, application | none | render | - | - |
| Agent: metrics, webhook, masking, OS release, configuration | none that is read back | - | - | secrets do not get into logs |
| CLI (`__init__.py`, `history.py`, `status_line.py`) | history file; state, message and mode of the status line | submit with attachments, cancel, poll, jobs; draw, print, ask | an upload that was given up is still executed; two terminals share the history; a timer thread draws while the main thread prints | what the user is told of a job is true; the prompt and the shell are left alone |
| Common enumerations, durations | none | `parse_duration` | - | - |
| Device connectors | the DUT, its media, the control host, the node in MAAS | provision, runtest, reserve, firmware_update, cleanup | each command may fail, also after it was executed; what answers may be an old system; a killed connector leaves its work to the next one | a stage that says "done" has done it, and gives back what it took |
| MAAS storage layout | disks and partitions of the node | plan, delete, create | percentages, sizes and the order of disks | the layout is the job's |
| Agent host charm | repository, service files, supervisord, the agents' token | hooks and actions | hooks die; files are removed before they are written; the token is renewed by a periodic hook | running jobs go on; the login is kept |

How they interact: CLI, agents and multi-device connectors call the server's
REST interface with requests that may fail, be answered too late or be executed
twice; the agent starts device connectors as processes and reads files they
leave in the job's directory; connectors talk to machines, control hosts and
MAAS, which go on when the connector is killed; administrators and the charm
change the agent record or signal the agent process (SIGUSR1); Juju runs the
hooks of the charms.

## 2. Modules

| Module | Models | Extended by |
|---|---|---|
| `JobStore` | the server's handlers, one action per database call | `MCJobStore`, `JobStoreProofs` |
| `JobDispatch` | the abstract queue the handlers implement | instantiated by `JobStore` |
| `AgentStatus` | the state field of the agent record, and all who write it | `MCAgentStatus`, `AgentProofs` |
| `AgentJob` | one job on one agent | `MCAgentJob`, `AgentJobProofs` |
| `ResultTransmission` | the directories of the jobs and what is sent | `AgentProofs` |
| `MultiDevice` | parents, sub jobs and the agents that run them | `MCMultiDevice`, `MultiDeviceProofs` |
| `LiveLogs` | fragments of output and the poll | `ClientSystem` |
| `Submissions` | runs of the CLI that submit, poll, cancel and list jobs | `ClientSystem` |
| `StatusLine` | the main thread and the timer of a poll, and the terminal | `ClientSystem` |
| `ClientSystem` | the three of them side by side | `MCClientSystem`, `ClientSystemProofs` |
| `Connector`, and extending it `Muxpi`, `MasterImage`, `ControlHosts`, `OemImages`, `Stages`, `Firmware`, `Maas` | one DUT and its control host, and the steps of each kind of connector and stage | `DeviceConnectors` |
| `DeviceConnectors` | a connector that serves jobs one after the other | `MCDeviceConnectors`, `DeviceConnectorsProofs` |
| `MasterKey` | the units of the server charm and the DEK | `MasterKeyProofs` |
| `Access`, `SignIn` (extends it) | rights and tokens on the server; the commands that sign in | `AccessSystem` |
| `Secrets`, `AgentHost` | one secret in its store; one host of agents | `AccessSystem` |
| `AccessSystem` | the four of them side by side | `AccessSystemProofs` |

Two conventions hold everywhere. A definition that begins with "Mutant:" in its
comment is a wrong variant of the one after it; the specifications do not use
it, and it is there to show that a property notices the mistake. A variable
that the code does not have (a *ghost*) records what a property needs to know of
the past and is never read by an action's guard; these are named below.

### JobStore

`jobs` is the collection with the fields that decide anything: job_id,
job_state, queue, excluded agents, priority, attachments_status, agent_id and
the phases with a status. `files` is the GridFS archive, `agentJob` the job_id
of the agent records, `events` counts the events in each job's log. `req` are
the handlers at work; each action is one database call and `at` the call that
is next, so `POST /result` is `PostResult`, `UpdateResults` (the atomic
`find_one_and_update`), `ClearAfterResult`, `LogResult` once for each event, and
`ReturnResult`. `held` is what each agent process knows of its job. A result that is executed after a later
one takes its statuses back, and the field `back` of a document, a ghost, remembers which. Documents
are numbers in the order of insertion, since `find_one` and `update_one` without
a sort take the first that matches, and users may submit a job with a job_id
again. `HandlerDies`, `AgentLetsGo`, `ReplyLost` and `Expire` are the mishaps:
a killed handler, a killed agent, a request nobody waits for any more, the TTL
index. The agent's side is as much as is needed to send sequences of
requests an agent can send: a phase is announced once, phase statuses are
cumulative, the outcome comes last and may be repeated.

`JobDispatch` has four actions: a job is submitted, offered when it is complete,
taken by an agent that may run it and has nothing more urgent, or withdrawn.
`JobStore!Dispatch` maps documents to it.

### AgentStatus

`srv` is the state field of the agent record. The agent is a sequence of points
`pc`, one for each call it makes: reads (`Read`, which may fail and gives
"unknown") and posts (`Write`, whose failure is not noticed). `beat` is the
heartbeat that a read may trigger, a post of its own between two of them.
Administrators are a read and a later write (`CommandReads`, `CommandWrites`), as
the CLI does it. `RestartSignal` is SIGUSR1, `Crash` a kill. Ghosts: `wanted`,
the last command that was executed; `broken`, a failed recovery since the agent
was last put online; `mishap`, whether a call failed, the agent was killed, or
the command fell between a read and the write that follows it.

### AgentJob

`at` and `pc` are the place in `process_jobs` and `run_test_phase`; `proc` and
`stop` the command and why it is stopped; `code` the results file, `reported` the
status on the server, `ended` the emitted events. Timeouts and cancellation are
seen by `GlobalTimeout`, `OutputTimeout` and `SeeCancelled`, with the phases that
have them as in `run_test_phase`. Ghosts: `cancels` counts accepted cancellations,
`missed` says that the agent could not notice the last one, since a call failed
or it was between a read and the post that overwrote it.

### ResultTransmission

For each job: where its directory is, which files are in it, and what the server
has. The actions are the steps of `transmit_job_outcome` and `save_artifacts`
with each way they may end, in the order of the code; the same steps are used for
a new job and for old ones (`Retrying`). `KillAgent` keeps the disk. Ghosts: `made`,
`delivered`, `uploaded`, `cut` (an OSError came up while the artifacts were packed or sent,
from a full disk or a dead connection: `UploadInterrupted`) and `orphans`
(jobs the agent was at when it was killed, whose directory stays in
`execution_basedir`).

### MultiDevice

Parents go through `create_jobs`, which skips the entries of the list that are no dicts
(`Malformed`; the others are `Wanted`) and may be left with nothing to wait for
(`StartWaiting`), passes over the unallocated jobs (`Look`, `Poll`,
`Clock`), the job list, the tests and the cleanup; sub jobs are taken by the
agents of their devices, allocated, kept until the parent is over, and left.
What may go wrong is the constant `Mishaps`. Ghosts: `mishap`, and `granted`, the sub jobs
whose agents have posted "allocated".

### LiveLogs

The agent numbers fragments through all phases (`next`), and a number is used up
however the post ends (`PostFragment`, `PostFails`, and `Arrive` for what is
executed late or twice). A poll reads the status (`ReadState`), asks for
fragments from `cur` on, which the server answers with one query per phase
(`Query`, `cursor`), and prints them (`PrintLogs`), in that order. Ghosts: `slow`,
fragments first stored when their sender had given up; `overtaken`, fragments
stored in a phase already queried while the request then found later ones.

### Submissions, StatusLine and ClientSystem

`Submissions` has of the server what a client sees of a job (`job`), its archive
and the handlers of its uploads; `run[r]` is a process of the CLI, `at` the point of its
code, `mem` its copy of the history, which it reads when it starts and writes as a
whole, emptying the file first (`Truncate`, `Write`). An upload is tried
`MaxTries` times, and each try may be executed after the client has given up on it.
`says` is what the user was told. A run may be killed anywhere. The field `revoked` of a
job, a ghost, says that the server has accepted a cancellation of it.

`StatusLine` has the line of the terminal as what was written to it from left to
right. The main thread follows `do_poll` with `set_state`, `set_message`, `print` and
`input`; the timer draws, sleeps and ends when it sees that it should. What one
of them writes under the print lock is one step; `stop` waits for the timer until
`JoinTimeout`.

`ClientSystem` puts these two and `LiveLogs` side by side, as `AccessSystem` does with
its parts: `part` is chosen at the start.

### Connector, DeviceConnectors and the modules between them

A connector is a process; `at` is the point of its code, `exit` how it ended. Of
the DUT `Connector` keeps what it would boot from (`attached`), what is written there
(`disk`: "old", "part" or "new"), which system answers (`up`), whether it was told to
reboot and has not gone down (`falling`), its power and the processes that log its serial
console (`serial`); of the control host what answers, and which provisionings it runs
(`remote`). A step is what the code does
between two things that can fail or that the DUT can see, and a command that
fails may have been executed. `DeviceConnectors` chooses a connector or stage and its
configuration at the start (`Configured`), and lets it serve jobs one after the other on
what the one before has left, which `NextJob` makes "old"; what the agent's
configuration says stays, what the job asks may change. The agent may kill it at any point.

- `Muxpi`: muxpi and cm3, with the list of mounts and the multiplexer.
- `MasterImage`: dragonboard and netboot: which system is booted, the file server, the
  kind of the image file and its compression, and the flash.
- `ControlHosts`: control_host_kvm, control_host_iot and the first half of
  oem_autoinstall: the hook, the submission, the stream of log entries with its
  cursor, and the status.
- `OemImages`: oemscript (and hp, dell, lenovo), oemrecovery, the second half of
  oem_autoinstall, noprovision and fake_connector.
- `Stages`: runtest with the serial logger, reserve with its keys.
- `Firmware`: firmware_update for LVFS and HPE: the kind of machine, the versions that are
  asked for and given, downloads, the task queue of the management processor, what is
  staged and lands at the next start, and the check after it (`Chips`, the parts that have
  firmware).
- `Maas`: maas2 with its retries, the order of the EFI entries and its reset, the TPM,
  the cleanup; the storage is operators that read sizes with units, place the disks of
  a job and name partitions, formats and mounts (sums and folds over sequences).

A script that the hook runs for the DUT's power may fail, which the code logs and no
more (`PowerOffHost`, `PowerOnDut`). The switch of a multiplexer is about one medium, so another one may
stay plugged and be booted (`MuxPlug`). An entry of the control host's log may have no id
(`Unnumbered`) or an empty one (`Clearing`).

Ghosts: `mishaps`, the failures that the code passes over or has no remedy for, by name:
"power" (the scripts left the DUT without power), "unplugged" (the medium was not plugged
when the stage began, as an earlier connector was killed or failed, and has not been
switched since), "switch" (a command of the multiplexer failed), "unmount" (a partition could not be
unmounted before it is written), "earlier" (the control host works for an earlier
connector), "layout" (MAAS has not taken the layout); `hooks`, how often the hook was
run; `logged` and `authorized`, `refused`, what was done in the world.

### MasterKey

For each unit: the hook it executes and at which step, the key in its StoredState
(committed when the hook ends), whether its container answers, and the key its
service was started with. `dek` is the provider and the key that the data encryption
key is wrapped with; the two steps of the rotation script are `Rewrap` and
`RewrapBack`. Juju runs one hook of a unit at a time and runs one that died again.
Ghost: `mishaps`, what the charm does not handle. "hurried": the key or the leader was
changed before the last change had reached every unit, or the key was unset while it
was in use. "late": a server made the DEK with a key that was being replaced. "broken
off": a rotation was done, but the script or the hook ended with an error after it,
and it cannot be repeated.

### Access and SignIn

`clients` are the permissions of the clients, `restricted` the restricted queues,
`refresh` the refresh tokens. A request (`request[c].at`) is handled in as many steps
as its handler has calls of the database: `ReadPermissions`, `WritePermissions`;
`LookUpToken`, `MintToken`; `FindToken`, `SetRevoked`; `ReadSubmission`,
`CheckRestriction`. `session` is the access token of a command. One tick is the life of
an access token, so it expires in the tick after the one in which it was made, and a
request ends within a tick. `SignIn` adds the command line: which way it signs in,
the device code and its polls, the refresh token that all commands keep in one
file, and the one repetition of a request after a 401. Ghosts: `withdrawn` and
`revokedFor`, the ticks since a right was taken or a token revoked.

### Secrets and AgentHost

`Secrets` is one path in the store that the environment has set up, MongoDB, Vault or
none, written, deleted, expired, and read for jobs by handlers that find the value in one
call and delete it in another. Vault has its time to expire in a call of its own
(`VaultMetadata`); MongoDB's document is there until it is purged. Ghosts: `given`,
`shared`. In `AgentHost` each hook and action is a sequence of steps (`Plan`), of which
`hook.left` are still to come: the clone of the repository and its exchange with the copy
that is there (removing the old copy or moving the new one in its place may fail, which blocks
the unit), the reading, removal and writing of service files, supervisord, and
the login with its secret, request and stored token, whose age is in days. Juju runs
`Deployment` first, then any of `Kinds`; options that are not valid block the unit, and a hook
does nothing then. Ghost: `lost`, the agents whose service
file was taken away without an agent being stopped: a hook died between the removal of files
and their rewriting, or found no port, or supervisord failed to stop an agent that was removed.

### AccessSystem

The four parts share the server but not what is modelled of it, and a product of
their states would show nothing that their union does not; `part` is chosen at the
start, and only that part moves: "rights" (one command without sign-in, managers who change
everything), "sign-in" (two commands, the provider, users, expiry and failures),
"secrets", and "agent host".

## 3. Runs

| Run | Instance | Shows |
|---|---|---|
| `store_dispatch` | 2 documents with one or two job_ids, 2 agents, 2 handlers, repeated requests; 1.1M states | `ExclusiveDispatch`, `AssignmentsAreReal`, `LoggedOnce`, `ImplementsDispatch` |
| `store_reports` | 1 document with attachments, a phase, 1 agent, 2 handlers, repeated and late requests, killed handlers and agents, expiry; 295K states | `LoggedOnce`, `DispatchAllowed` |
| `status` | 3 phases, all commands; 60K states | `OfflineIsKept`, `NoJobWhenOff`, `OffIsReached` |
| `job` | 5 kinds of phases, 2 cancellations; 640K states | `StateSaysTrue`, `NothingStartsAfterCancel`, `CancelStopsJob` |
| `job_cleanup` | the same, 1 cancellation | violates `CleanupIsFinished` |
| `send` | 2 jobs; 29K states | `OutcomeIsKept`, `ArtifactsAreKept`, `OutcomeArrives` |
| `multi` | 1 parent with 3 entries, one of them no dict, all mishaps, 2 cancellations; 40K states | `TestsHaveDevices`, `NothingLeftQueued`, `DevicesAreReleased` |
| `multi_two` | 2 parents that need the same 2 devices; 428K states | `ParentsFinish` |
| `client` | 2 phases, 2 fragments, polls of a phase or of all; 2 terminals, 2 tries of an upload, a history of 2 jobs, kills; 7 states of a job, a timer of one second; 1.4M states | `PrintedInOrder`, `NothingIsSkipped`, `PollEnds`; `SuccessMeansReady`, `GivenUpMeansGone`, `FinalsAreTrue`; `LeftAlone`, `CountsDownReservations` |
| `connectors` | every connector and stage, every configuration that the code tells apart, 2 jobs; 423K states | `StagesDone`, `PutBack`, `LogInOrder`, `ProvisionedAsAsked`, `WrittenSafely`, `StageEnds` |
| `master_key` | 2 units, 2 keys, 3 changes, 2 failures; 810K states | `NoKeyIsLost`, `RetryWorks`, `ChangesSettle` |
| `access` | the four parts, 4 ports, one edit of the repository; 548K states | `WithdrawalsTakeEffect`, `SignInEnds`, `SingleUse`, `RunningJobsSurvive` |

That every variable keeps its type is not run but proved, for the components of
section 4. Handlers are symmetric in `store_dispatch` and `store_reports` (`WorkerSymmetry`); no run of a
liveness property uses symmetry.

**Bounds, and why they are enough.** Two handlers suffice for every pair of
requests to interleave, and the promises of the server are about pairs: two
agents and one job, a request and its repetition, a result and a cancellation.
What needs more was proved for any number (section 4). Two documents are the
least for priorities, for the choice of the first document, and for a job_id
that is used twice. The phases of the `job` run are one of each kind that the
code distinguishes: not configured, without cancellation, not ending the job,
allocating, without a timeout. A second cancellation matters since the first one
can be overwritten. `MaxCancels` bounds nothing but the user's patience. Two jobs
in `send` are one that is old and one that is at work. Two fragments in two
phases are the least for a gap; the invariants of the proof were checked with three as well. Two terminals are what
can meet in the history, and two tries are one that is repeated and one that is the
last; the states of the status line are those that `_on_state_change` and the
output filter tell apart, with one that is none of them.

A connector is one process, so that two jobs are what one can leave to the next,
`MaxTries = 2` is a retry that is the last one and one that is not, and three log
entries of which the second is no JSON and the third has no id are the least with something
before each (`MaxLogged` bounds the repetitions; four with an empty id, and a hook of muxpi that manages the
power, were checked once, with 590K states); "none", "usb" and
"other" are the media that a job leaves out, names, and names though there is none. The
disks of the jobs include a layout that fits on one disk only, one that needs the percentages
rounded, one that does not fit, and one whose unit there is not. Two network cards behind the disk (`BootEntries`, `Nics`) are the least of which
one is put first. Options that the code does not read together are not varied
together: the serial log of muxpi with its hook, the boot order of maas2 where nothing
else is asked, its storage where it provisions. In `access` two
commands are what can meet in the file; one failure or one change at a time, since two
leave nothing that the code handles other than one; two managers' changes, so that
a change is undone by another one that has read before; four ports for two agents, as
one may be taken, and one edit of the repository; two take twice as long (827K states) and were
tried where a proof asked for them (section 4). In `master_key` three changes are: set the key, change it, and
change it again or move the leader; two failures are one in each step of the rotation.

**Fairness.** Nothing is assumed of users, administrators, cancellations,
failures or kills. Assumed is:

- Of the server nothing: `JobStore` has no liveness property. That a waiting job is taken would
  follow at once from the fairness of `PopJob` itself, and without that more urgent jobs may
  keep coming; what the code can do wrong is to lose a job from the queue, which the
  safety properties and the refinement notice.
- *The agent goes on* (weak, `Step`, `AgentStep`, `ParentStep`, `DeviceStep`): a loop
  with calls that have timeouts. Commands may hang for ever: only the clock,
  `GlobalTimeout` and `TimePasses`, is fair.
- `FairTransmission`: kills end, and a directory that is removed again
  and again is removed. That the server answers a request that is repeated is
  the premise `Served` of `OutcomeArrives` alone.
- `ClientSystem!SystemSpec`: a poll of the logs that is repeated is answered in the end, also after it
  has seen the job to be over; the phases end, which `AgentJob` shows.
- `DeviceConnectors!FairSpec`: the connector goes on (weak), as its commands have timeouts,
  and a provisioning of the control host ends (`HostEnds`): the connector follows it
  without a timeout of its own.
- `MasterKey!FairSpec`: Juju runs the hooks that are due and lets each end, containers
  come back, and the operator runs retry-key-rotation as the charm's log asks.
- `AccessSystem!Fairness`: a command or the handler of its request goes on, and
  time passes for one that waits (`CommandRunsLate`). Users, the provider and managers do
  what they like, or nothing.

**What the conditions in the properties mean.** Some properties say "unless".
Where the code makes no promise, because it reads, and then writes what it
believes, a property without the exception is false, and the exception is as
narrow as it could be made: `mishap` in `AgentStatus` is cleared by the next
command, `missed` in `AgentJob` is about the last cancellation only, `cut` and `orphans`
name the jobs concerned, `back` in `JobStore` single events of a document, `slow` and `overtaken`
single fragments, `shared` single values; `mishaps` in `Connector` and in `MasterKey` name their kinds,
and each property excuses only the kinds that its promise cannot survive;
and `lost` of `AgentHost` the files of the host. Section 5 lists what lies behind each.

## 4. Proofs

All proofs are for arbitrary values of the constants, under the assumptions that
the modules name (`JobStoreAssumption` etc.; they only say of what kind the
constants are, that names are distinct, and TLC evaluates them in each run).
Each file has an inductive invariant whose parts are named, one step per action,
and lemmas where several actions share an argument.

- **JobStoreProofs**: `TypeCorrect`, `DispatchedOnce`, `RecordedAssignments`,
  `DispatchedToAllowed`. The invariant adds to the properties: a handler knows its
  document and job_id (`Known`), what agents hold and handlers dispatch is
  theirs in the document (`Owned`), announced archives are stored
  (`ArchivesStored`), and the events a result is about to log are not
  assignments (`ResultEvents`). `ExclusiveDispatch` is not inductive alone: nothing in
  it keeps `PopJob` from a document that is running, which is what `Owned` says.
  Most actions change none of the fields the invariant reads ("calm" steps); one
  lemma covers these. `HandlersImplementDispatch`: each step maps to one of the
  queue's actions on the document it changes, or to a stutter.
  `CompletionsLoggedOnce`, whatever requests are repeated, late or killed and however often a
  job_id is used. `LogFacts` says that documents are inserted in order, so that all results
  for a job_id are stored in the first document that has it (`InOrder`); that the log
  holds nothing, and no handler is about to log anything, that this document does not
  show (`LogIsTrue`); and that what a handler is about to log is not logged yet, and by no other
  handler (`LoggedByOne`): the first two are what makes it true, as the update returns the document
  of before. The property excuses two things that the code does. When
  a document has expired there is nothing to compare with. And if an agent gives up
  a POST after 30 seconds and sends the next (`client.py:94-104`), the older result may be stored
  last and take statuses back, which the next result logs again: `back` names those.
- **AgentProofs**: `OfflineIsKept`, `NoJobWhenOff`, and three properties that are proved
  and not run: `NoJobWhenBroken`, `RestartIsDeferred`, `StartupKeepsOffline`. The
  invariant says that a pending heartbeat repeats what the record says unless a
  command came between (`BeatRepeats`), that start-up looked before it writes
  (`BootLooked`), and that between a read and a write the agent has noticed the
  command or the mishap is recorded (`OffIsRemembered`).
  `OutcomeIsKept`, `ArtifactsAreKept`, for any set of jobs.
  What is unlinked was posted (`Posted`), what is retried is finished (`Busy`), and
  the artifacts are past only when they were uploaded or an OSError came up, be it in
  packing or in sending them (`Uploaded`).
- **AgentJobProofs**: `StateSaysTrue`, `CancelledJobsStartNothing`, and two properties that are proved and not run,
  `FailureEndsJob` and `ProvisionIsFinished`, for any sequence of phases. The invariant ties the
  results file to the place in the sequence (`Reached`, `Passed`, `Recorded`) and
  the stop reason to the phase (`Watched`). A cancellation that was not overwritten is
  still on the server when the next phase is looked for, which is why nothing starts after it.
- **ClientSystemProofs**: all that `client` says of safety, in three invariants.
  `LogsPrintedInOrder`, `LogsNotSkipped`: the heart is `Gaps`: in an
  answer, what lies before a fragment that it has, it has as well, or it was
  overtaken; it rests on numbers growing with the phases (`Numbered`). `Caught` says
  that once the status was final, the answer so far has all there will be.
  `SubmittedIsReady`, `CancelledIsGone`, `HistoryIsTrue`, for any number of terminals and tries:
  `SubmissionsInv` follows the tries of an upload (one that is executed late has stored its archive
  before it marks the job, so that "complete" is never said of a job without one), ties
  what a run is about to say or to remember to the job it has seen, and says of every copy of the history, those
  in the hands of runs included, what it says of the file: a run writes back what it
  read long ago, so the file alone is not inductive. That "cancelled" was said with the
  consent of the server needs it of the jobs, too: a state that a poll sees is recorded as well (`JobOK`).
  `PromptLeftAlone`, `CountdownFollowsReserve`: `LineInv` counts time. The timer looks whether it
  should stop every `Period` (0.1 s) and the client waits for it for `JoinTimeout` (2 s)
  before it asks or returns (`status_line.py`), so it is the assumption `Period < JoinTimeout`
  that makes the wait long enough; `Joined` carries how much of both has passed.
- **AccessSystemProofs**: for any clients, queues, commands, managers, tokens, agents and
  ports, and for any number of changes and failures.
  `SecretsUsedOnce`: a value is written by one request (`WrittenOnce`), and one that was
  given is not in the store, nor in the hands of a second reader (`GivenAndGone`), unless it is in
  `shared`: read by another handler before it was deleted, as reading and deleting are two calls
  (`mongo.py:90-126`).
  `RunningJobsKept`: an agent's running copy is left alone by the hooks of its host. The invariant
  has to follow a hook through its steps (`HookOK`: of the steps that are left, the
  writing of files comes before supervisord), and says that a host's service files have the
  ports of what runs, except while files are being rewritten, where what was written has them (`PortsKept`).
  The proof failed at first, and TLC showed why with a second edit: an
  agent that is removed while supervisord cannot be reached goes on running; when it is
  added again it gets another port, and is restarted with its job. So `lost` names such agents.
  `WithdrawnInTime`: rights are copied, from a document to a token and from there to a
  submission. `AccessInv` says that a right in a token was taken from its client no longer ago than the
  token is old, that what a handler has read is `Fresh`, and that a handler that mints from a refresh token
  has seen it before it was revoked for a tick; the clocks of withdrawals count only what no document has.
- **MultiDeviceProofs**: `TestsHaveDevices`, `NothingLeftQueued`, for any parents, jobs
  and devices, and any entries that are no dicts. `Known` says that of what a connector does not wait for
  any more the agent has posted "allocated", and that such a job is allocated or over;
  `Spared` says that a parent without mishaps knows all jobs that it made, and which
  of them still wait while it cancels. That a list has a first job (`FirstIsThere`) comes
  from the well-foundedness of the numbers.
- **MasterKeyProofs**: `NoKeyIsLost`, `RetryWorks`, for any number of units, keys, changes
  and failures. The invariant says that while no change is hurried every hook carries the
  configured key, that only the leader rotates, and that the DEK is wrapped with what
  the step of the leader's hook says; neither property mentions hooks, so neither is
  inductive.
- **DeviceConnectorsProofs**: all that `connectors` says of safety (`StagesDoAll`, `TakenIsPutBack`,
  `HostLogInOrder`, `ProvisionedIsNew`, `NothingElseWrites`), for any number of attempts, jobs, keys,
  partitions, log entries, parts and disks. `IInv` has a part for each kind of connector and stage
  (`MuxInv`, `HostInv`, `MaasInv`, ...), which says at which points it may be and what holds
  at each of them. A step is then taken apart in three ways: a kind's own steps stay at its
  points (`MuxGoes`, ...), so that `StepOf` leaves each kind with the steps of its own module
  and the hook; the steps of the world (`OtherStep`: the DUT goes down and comes up, firmware lands, a
  control host works, the agent kills) happen at every point; and `NextJob` leaves to the
  next connector what the last one left. The properties only look at the end of a stage, so
  what makes them true has to be carried there: that the medium of a multiplexer is
  away from the DUT while it is written, and comes back on each way out, the raising ones
  included, unless a named failure prevents it (`MuxInv`, `MuxExcused`); that the power is given
  back on each way out, unless the script for it fails (`IotInv`); that what answers after the flash of a master image is not the old
  system (`DragonLate`, `NetLate`); that the provisioning of an earlier connector that goes on
  in a control host is harmless if it has ended when the next one asks, and a mishap if not; what the keys that are left and those
  done make together; how far the storage of a node has come (`LayoutInv`). `LogInv` ties the
  cursor of the stream to what was logged and to the entry that is being read, with entries
  that do not move the cursor (`GoesOnBehind`).

Every invariant and every action property of a passing run is so proved for all values of the
constants.
Only model-checked are the liveness properties (`OffIsReached`, `OutcomeArrives`, `ParentsFinish`,
`DevicesAreReleased`, `PollEnds`, `StageEnds`, `ChangesSettle`, `SignInEnds`, `CancelStopsJob`): the prover has no ENABLED and so no fairness.
Induction over data and RECURSIVE operators are out of the prover's reach too; no
module needs either.

## 5. Disagreements of code and documents

One is shown by a run and listed as a finding:

- `job_cleanup`: the cleanup of a cancelled job is killed at its first look at the
  state, though "always run the cleanup, even if the job was cancelled".

Others were met while modelling. They are conditions in properties, or
choices in actions, rather than runs:

- A killed agent forgets a deferred "offline" (`agent.py:398`); a command that is
  executed just before the post of "waiting" is overwritten (`agent.py:501`); a
  post of "offline" that fails after a failed recovery is not repeated
  (`agent.py:237`, `:432`); a restart is not deferred by a command that comes
  between `check_offline` and `check_restart` (`agent.py:314`). The guide
  `manage-agents.rst:47-50` promises otherwise. `admin.py:193` does not list
  firmware_update among the states in which an agent is busy.
- A cancellation is overwritten by an announced phase or by "allocated"
  (`agent.py:397`, `job.py:252`), although `cancel-job.rst:4` says a job can be
  cancelled at any point; a cancelled or timed-out test phase does not end the
  job by itself (`agent.py:453`).
- The post of "allocated" is not retried, other than that of the device info
  (`job.py:252`, `:242`).
- Artifacts are lost when the disk is full while they are packed (`client.py:374-381`) and when the
  connection dies in their upload, since the exceptions of requests are OSErrors and are
  handled as a full disk (`client.py:341`): the directory is removed (`client.py:360`); the
  directory of a job whose agent is killed stays in `execution_basedir` and is never
  sent (`agent.py:506`); old results wait while there are new jobs
  (`agent.py:291`, `:317`); an OSError of `rmtree` in the retry ends the agent (`agent.py:516`).
- When the response of GET /job is lost, the agent record can get its job_id after
  the cancellation has cleared it (`v1.py:285`), though it should show no stale one
  (`database.py:548`); the model has these steps (`SetAgentJob`, `ReplyLost`).
- A second cancellation that only clears an agent record is logged as one
  (`v1.py:721`); a result that is executed twice around a cancellation is logged
  twice as started (`database.py:977`, `events.py:86`); the TTL index removes
  running jobs (`database.py:93`); attachments of a job that was submitted again
  go to the older document (`database.py:212`, `v1.py:395`).
- A parent whose provisioning hits the global timeout before the job list is
  written leaves its sub jobs queued (`multi/multi.py:81`); a parent whose agent is
  killed keeps its devices for ever (`job.py:258`), whatever `global_timeout`
  says; results that cannot be read leave a device without its info in the
  list (`multi/multi.py:116`); an entry of the list of jobs that is no dict is skipped, so
  that the tests run with a device less (`multi/multi.py:138-140`).

- Connectors (`connectors`, conditions of its properties): what answers after a reboot
  may be the system from before it (`falling`), in the boot checks of the oem
  connectors, of dragonboard and of `_monitor_poststate` of HPE. The provisioning in a
  control host goes on after a cancellation. A script that fails to give the DUT its power back is
  logged only (`devices/__init__.py:278-291`). Without a `media` the multiplexer command is about one
  medium, and the board may boot an old system from another
  (`muxpi.py:211-220`). A medium that is neither "sd" nor "usb" is unplugged and never plugged back (`muxpi.py`, `_storage_plug_to_self`). Errors of `umount` and
  of the wipe of dragonboard's test device are passed over, though its docstring
  promises otherwise; `remote_mount` of muxpi removes from the list it goes through.
  Dragonboard's file server is not terminated when the flash was not reached. A
  killed test leaves the serial logger to the next one.
- Stages: `_run_test_cmds_list` returns the result of the last command only, and fails
  for an empty list; a script's exit code 46 looks like a RecoveryError. All upgrades of LVFS may
  fail and the stage exits with 0; a timeout of HPE is not caught, whatever
  `ignore_failure` says (`docs/reference/test-phases.rst:96`).
- MAAS: the second deployment after the TPM was cleared uses the partitions read before
  the first; the flat layout's failure is passed over; requests that may have
  been executed are repeated; percentages are rounded up and may exceed the disk, and
  may give less than the size that the documentation calls the minimum
  (`docs/reference/maas_storage.rst`); disks are placed first-fit, which may fail where
  a placement exists.
- Master key: a key that is unset and set again leaves a DEK of the old one, though a
  comment speaks of a fresh deployment; the retry action neither restarts the
  service nor unblocks the unit; relation and pebble-ready events start the
  service with the new key before the rotation; a hook that waits for the container forgets the change.
- Rights: `set_client_permissions` reads a document and writes all of it back, so that a
  grant made in between is lost, a withdrawal undone, or a removed client made anew
  (`v1.py:1456`; `withdrawn` counts from the last time the right was in the document).
  `delete_restricted_queue` lifts the restriction for all owners, though its
  docstring says "an owner". Refresh tokens outlive their client: a token is made
  without a client_id, and the next request ends with a KeyError. A refresh is refused
  with 400 and gives an access token only, while `docs/explanation/authentication.rst` speaks of a
  401 and of both tokens.
- Submissions: an upload that is repeated after an agent has taken the job is refused
  with 422 (`database.py:201`), and the client ends with an error though the job runs;
  `v1.py:386` says "attachments already submitted: successful, could be due to a
  retry". The history is written from the copy that a process read when it
  started, so a job that another terminal has added since is dropped
  (`history.py:71`); a run that reads the file while it is empty starts with none. What
  `cancel` records may be overtaken by the next phase of the agent.
- Status line: a message that is not the first of its state is printed without
  clearing the line (`status_line.py:154`), though "Clear status line before printing to
  avoid mixed output" (`:118`); output that does not end with a line feed has the
  status drawn behind it and is erased with it (`:265`), though "print wrapper that
  preserves status line" (`:258`).
- Commands: `clear_refresh_token` may remove a token that another command has just stored.
- Secrets: a single-use value is given twice if two reads overlap (`shared`); a value
  that is put between the read and the deletion is lost; a value put into Vault without
  a time to expire keeps that of its predecessor.
- Agent host: options that are not valid when the charm is deployed let the install hook
  pass without effect, and it does not come again; the handler of a package that cannot be
  had asks for a logger that the charm does not have (`charm.py:89`), so the hook dies;
  the failure to find a port is overwritten by "Active"; a hook that dies after
  the removal of the service files loses the ports, and busy agents are restarted; a
  change of config-dir restarts all agents; upgrade and two actions set "Active"
  without a look at the token, and a revoked token is noticed after up to three days.

## 6. Not modelled

About a third of the repository's implementation lines are third-party libraries that the
two charms copy (`lib/charms/`, some 13,000 lines); they are not modelled, and most of what
the map does not cover is theirs. Web views, schemas, metrics, webhooks,
configuration, masking and OS detection have no state that the rest depends on; the
provision log and its streak are each one update that nothing decides by; the
CLI's packing of attachments and its printing are conversions.

Within the modelled components, the following is abstracted: contents of results,
logs and files (names and codes matter only as far as properties read them),
comments of agents, truncated JSON files, the subprocess of a phase below "runs, ends,
is stopped", exceptions outside of the handlers the code has for them, and time other
than its order. Of the connectors: names of disks and the choice of the one to boot
from, the downgrade of LVFS, which the stage never reaches, and the scripts that run on
the DUT, which are a step that succeeds or fails. Every command that a connector starts
comes to an end there, though `runcmd` looks at its timeout only between two lines of
output. Of sign-in: the web session, and the two documents that a user may get whose
email and subject differ. Of the agent host charm: what packages, the virtual
environment, scripts and SSH keys are good for; installing them is a step that may fail. Of the server charm: the admin password, ingress,
dashboards. `JobStore` has its own sketch of an agent; it is not composed with `AgentJob`,
since the product is out of reach, and what they share are the two promises that each
of them assumes: states are posted in order, and an outcome is repeated.

Hazards that the project does not cover, since no promise of the code is about
them: a running job is removed by the TTL index (`database.py:94`); the output timeout is
looked at before pending output is read (`runner.py:142`); the outcome file cannot be
created (`job.py:216`); the directory of a job that was put back exists
(`agent.py:345`); a JSON file is truncated by a kill (`agent.py:342`); a sub job
is not polled again once it is allocated (`multi/multi.py:64`), and a state that the
server does not know is looked for (`multi/multi.py:95`); a job without
device-info.json posts an empty body for ever (`job.py:246`); a failed read of the
agent record lifts the restriction of its queues (`client.py:174`).

## 7. Order of the work, and what could follow

In this order: `JobStore` with `JobDispatch` and its proofs; `AgentStatus`;
`AgentJob`; `ResultTransmission`; `MultiDevice`; `LiveLogs`; the device connectors;
`MasterKey`; `AccessSystem`; `ClientSystem`.

What could follow: the safety lemmas behind the liveness properties (a step that is due stays
due, a measure that each pass lowers); `Runner`,
the output of a command, its timeout and the log post that
delays both (`runner.py`), under `AgentJob`.
