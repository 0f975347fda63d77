# A verification project for obauditor

obauditor is a daemon that audits an OceanBase cluster. It parses the log files of
observers and proxies into a table of sessions, copies DDL/DCL statements from the
observers' in-memory audit buffer into a table, forwards both to syslog and trims both.
Several daemons (one per host, a main and a fallback for the DDL part) work on the same
tables of one database without any lock. What is hard here is hard to test: two daemons,
the observers and the failures of single statements meet in any order.

The modules in this directory model that concurrency, TLC checks them on small
instances, and TLAPS proves the safety properties that matter most for every number of
daemons, files, rows and failures. Paths below are relative to `src/`.

## Inventory

| Part | Code | State | Operations | What makes it correct |
|---|---|---|---|---|
| DDL/DCL collector | `internal/db/ddldcl.go` | tables `ddl_dcl_audit_log`, `ddl_dcl_audit_checkpoint` (a cursor per unit); locals of a run | `Collect`: sync units, snapshot ghosts, load cursors, per unit window / INSERT / UPDATE, purge ghosts | no cursor passes a row that is not in the log; rows reach the log in the end |
| Main / fallback | `ddldcl.go` `ShouldCollectFallback`, `cmd/obauditor/main.go` `runDdlLoop` | `updated_at` | decide per tick whether to collect | takes over in bounded time, leaves a working main alone |
| Process | `internal/daemon/daemon.go`, `main.go` | heartbeats, context, wait group | `RunLoop`, `Watchdog.Run`, `WaitWithTimeout` | kills only what hangs, stops on a signal |
| Cleanup | `internal/db/cleanup.go` | the tables | COUNT, boundary, DELETE in chunks | keeps the newest 90 % of the limit, restores the limit |
| Syslog forwarding | `internal/logproc/rsyslog.go` | `rsyslog_cursor` | `Send`: three streams in batches | no event skipped but a logoff that came late, a batch ahead of the furthest cursor at most, all else sent in the end |
| Log ingestion | `internal/logproc/processor.go`, `handler.go`, `internal/db/logfile.go` | `logfiles` (an offset per file), `sessions` | scan directories, detect rotation, read lines, write rows, save the offset | no line skipped, replays harmless, files that piled up are read |
| Session store | `internal/db/session.go` | `sessions` | insert a login, close by proxy_sessid or session_id, sync failed proxy rows | rows say what happened and are closed when and only when the session is over |
| Proxy log parser | `internal/logproc/proxy_parser.go` | `bornMap`, `failMap` per file and tick | a line to an event | a login seen in parts, twice or in two files yields no false event |
| Server log parser | `internal/logproc/server_parser.go` | none | a line to an event | |
| Schema | `internal/db/init.go` | | create what is missing | the unique keys the others rely on |
| Configuration, logging, statistics, model | `internal/config`, `internal/logging`, `internal/daemon/stats.go`, `internal/model` | | | |
| systemd unit | `obauditor.service` | | restart on failure, 5 starts in 300 s | a killed process comes back, and gives up only when starts fail |

How they interact: `main` starts up to three goroutines (`logs`, `ddl`, `rsyslog`), each a
`RunLoop` that ticks and pauses, and a watchdog over their heartbeats. The loops share
nothing in memory but the connection pool; they meet in the database. Ingestion and
collection write `sessions` and `ddl_dcl_audit_log`, forwarding reads them behind a
cursor, cleanup deletes their oldest rows; all of it on every host.

Hard behaviours: statements are autocommitted one by one, so any two of different
daemons interleave and a failure can fall between any two; cursors are read into memory
and used later; order by time or id does not follow the order of appearance; observers
restart and units move while a run is under way. `PROJECT.json`, "hazards", lists them at
their lines with the properties that watch over them.

## Modules

| Module | Models |
|---|---|
| `DdlCollect` | the collectors, `Collect` statement by statement, with the observers as environment |
| `AuditTrail` | what collection promises, without how: a volatile buffer, a log, published cursors |
| `Daemon` | one process: loops, heartbeats, watchdog, signal, shutdown |
| `Service` | that process under systemd: start, database, restart, start limit, and the reading of files in a tick |
| `Fallback` | the election between main and fallback over `updated_at` |
| `Cleanup` | `cleanTable` by several cleaners while rows are inserted |
| `Rsyslog` | `Send` of several senders over the three streams |
| `RsyslogHistory` | `Rsyslog` with auxiliary variables: what came late, how far the cursors ever were |
| `Pipeline` | `Cleanup` and `Rsyslog` over one table |
| `LogIngest` | a tick of `LogFileProcessor` over the files of one directory, with the observer that writes and rotates them |
| `SessionTrail` | what log ingestion promises to readers of `sessions`, without how |
| `ProxyParser` | `ObProxyLineParser` as functions of a parser state and a line |
| `Sessions` | the rows of a login through a proxy: both logs, their daemons, the statements on `sessions` |
| `MC*` | the instances TLC checks |
| `*_proof` | theorems about the module of that name, with their proofs |

### DdlCollect

`sqlAudit` is `GV$OB_SQL_AUDIT`, `auditLog` and `checkpoint` are the two tables. A
collector's `pc` names the next statement of `Collect`; `ghosts`, `loaded` and `window`
are its local variables. One action per statement: `SyncUnits`, `SnapshotGhostUnits`,
`LoadCheckpoints`, `GetUnitWindow` (which includes the heartbeat of a unit without news),
`InsertWindow`, `UpdateCheckpoint`, `PurgeGhost`; `UnitsDone` ends the loop. Each may fail
the way the code handles it (`AbortCollect` returns, `WindowFails` and `InsertFails` go on
with the next unit, `UpdateFails` is only logged), an INSERT that reports an error may still
have been committed, and `Crash` is the death of the process anywhere. The units are
visited in any order, where the code sorts them; nothing depends on it.

A row is its unit, request id, end time and one Boolean: whether the text filter of the
INSERT accepts it. The filter itself (`buildInsertSQL`, the targets) has no state.
`EndStep` says how far apart the end times of a unit's statements are: 1 means distinct.
`ServerWideIds` says whether units of one host share the counter behind `request_id`.
Both are assumptions on OceanBase that the code makes tacitly; runs and theorems name
the values they need. The observers are constrained by nothing else: they finish
statements, forget their oldest rows, restart, and units come and go at any time.

### Daemon and Service

Time is discrete. It passes only when no goroutine can run and no timer has expired,
so a timer fires on time. A tick may take any time, for ever when it hangs.
`timer[l]` is the time a loop has spent in its tick or pause, `age[l]` the age of its
heartbeat, which is all the watchdog can see.

`Service` extends `Daemon` and puts the process into its unit. `StartUp` is `main` up to
the start of the goroutines, `StartFails` its exit when `Initialize` or `Ping` fails.
`starts` are the starts within `StartLimitInterval`, `LimitHit` the decision of systemd to
give up. `ProcessEnded` applies `Restart=on-failure`: the exit 1 of the watchdog leads to a
restart after `RestartSec`, the end of a stop job never. Signals come from `systemctl stop`.
`backlog` are the files that `logfiles` does not know as read, each by the time it takes:
the tick of the log loop reads one after the other, saves the offset at the end of each
(`SaveRecord`), and forgets what it read of a file that it did not finish. While the
database does not answer, nothing is read and the tick may end early. `TimeoutStopSec` (45 s)
is longer than the shutdown timeout (30 s), after which the process exits by itself, so no
SIGKILL is modelled.

### Fallback

`updatedAge` is the age of `MAX(updated_at)`. A daemon is down, due, collecting or
pausing. While collecting it may set `updated_at` at any time and does so at the end.
`fed` remembers whether a daemon's `Collect` has set it since the daemon started.

### Cleanup, Rsyslog and Pipeline

`Cleanup` has one action for the COUNT, one for the boundary query, one per chunk. The
DELETE has a LIMIT and no ORDER BY, so any chunk of the old rows may go. `Rsyslog` has one
action per statement and per row sent. The cursor of a stream is a pair (time, id), the
time being 0 where only the id counts. A batch may end early because `rows.Next` returns
false on an error and `rows.Err` is not asked. The writers of the tables are in the model
as far as the streams can tell: rows appear, sessions are closed with any logoff time, as the
time comes from a log line. `IdsInOrder` says whether rows become visible in the order of their
ids. A row of `sessions` has an id up to `MaxSessionId`, the logins and the DDL statements share
the bound `MaxId`.

`RsyslogHistory` adds three variables that restrict no step. `late` are the sessions that closed
behind what the cursor or a sender had reached, `furthest` is the furthest position each cursor
ordered by id ever had, and `torn` says that a sender has read `last_time`, was overtaken by one
that set the cursor back, and read the `last_id` of that other cursor. The properties of several
senders need them: a logoff that closed behind the cursor cannot be sent, and what was sent
again cannot be told from the cursor alone when a slower sender has set it back.

`Pipeline` extends `Cleanup` and instantiates `Rsyslog` with the same table, so that rows
appear, are trimmed and are forwarded. The stream of logins stands for the three; whether
the cursor skips one is left to `rsyslog`, as a row that is gone cannot be skipped.

### LogIngest

The lines the observer writes form one sequence, `log`; `begins` cuts it into files, the
last of which is `observer.log`, `tail` says that its last line is not finished yet. File
`k` bears the name `k` once it was rotated, so a name is resolved when the file is opened,
as the code does. `List` is `ReadDir` with the sizes, `ReadServerIp` and `Open` are the two
opens of `processFile`, `ReadLine` is one line with its statement on `sessions`,
`SaveRecord` the INSERT or UPDATE of `logfiles`. After the end of the file nothing is read
again before the record is saved, so both are one step. `FileFails` is any error return of
`processFile`, after which the next file is tried; `StatementFails` is an error in
`handleLogin` or `handleLogoff`, after which the line counts as read; `Crash` may come
anywhere. A line that is neither a login nor a close is noise, LOGIN_OK and LOGIN_FAIL are
one kind, as both insert a row, and all lines have the same length: after an undetected
rotation an offset never falls into the middle of a line, where the code would lose one line
more. The set of open sessions (`openSess`) only feeds a counter and is left out, and so is
the part of `shouldResetToStart` about `last_timestamp`, which the program never sets.

`SessionTrail` is the abstract specification: a log that grows, a set of lines that took
effect, rows that appear once and are closed by a logoff of their id. `Trail` in `LogIngest`
maps `handled` to the lines that took effect and forgets the address in a row; listing,
opening, saving, failures and rotation are stutters, a replayed LOGIN too, and a replayed
LOGOFF takes effect again.

Three Booleans name assumptions about the observer: `IdsReused` (a session id is given out
again), `RotationSeen` (a new file stays shorter than the record of the old one until it was
read) and `HeaderAtOnce` (a log file never exists without its first line, and the open that
reads the address from it does not fail).

### ProxyParser and Sessions

A line of `obproxy.log` is a record: its kind (the five keywords of `Parse`), the client it
is about (`cs`, and `sm` for the `sm_id` that `handleErrorTransfer` takes first), its time,
and two outcomes of matching: `audited` (the user is neither ignored nor the proxy's own
probe, and a tenant is named) and `ok` (`client_response_bytes` is there and at most 60).
`bornMap` and `failMap` are sets; one definition stands for each handler.

`Sessions` has two daemons, one for each log, as on the hosts of proxies and observers; one
daemon that reads both logs in turn is one of their interleavings. A client session is born,
answered, quits and is closed, its server sessions are logged in and closed, and each step
writes the line that proxy or observer logs. The proxy may answer OK to a login that the
server refuses, a client may go away without a quit. `ReadLine` is one line: the address
found on the way and saved with `UpdateFileIp`, the parser, and the statement on
`sessions`. An error of `UpdateFileIp` is logged (`processor.go:325`) and has no branch of its
own: the tick goes on with the address in memory, which is saved with the record at the end of
the file all the same; if the file is not read to its end, the next tick reads it again from the
same offset and finds the address at the same line. A file is read with a fresh parser
(`NewLogLineHandler` per file and tick). `EndTick` is `SyncFailedProxySessions`. Sizes, tails and
undetected rotation are in `LogIngest`; here lines count 1, a rotation is always noticed, and one
between the listing and the open counts as a fault. A client is one number for `cs_id`,
`proxy_sessid` and `session_id`: the SERVER rows of a client with several server sessions bear
one number and differ in their time. `MaxServers` bounds the server sessions of a client,
`MaxLines` the lines of each log.
`FailureKinds` lets a refusal be reported by `update_cmd_stats` or, as older proxies do, by
`error_transfer`.

## Runs

Passing runs:

| Run | Instance | Question |
|---|---|---|
| `ddl_two` | 2 collectors, 1 unit, 2 request ids, an observer restart, 2 flaps, a failure | does the invariant of the cursor hold, does no cursor pass an unrecorded key, is `AuditTrail` implemented |
| `ddl_units` | 1 collector, 2 units on one host, 2 flaps, 2 failures, fairness | do units that share `uq_req` harm each other; do cursors only grow; do all rows reach the log in the end |
| `service` | 2 loops with pauses 3 and 2, threshold 4, check interval 2, shutdown timeout 3, restart after 1, 2 starts in 12, an outage, files of 3 and 4 | a started loop is stale only in a hung tick, hangs noticed in time, a stop ends the process, cleanly unless a tick is long; loops tick again after a kill; files that together outlast the watchdog are read; only failed starts use up the start limit |
| `fallback` | threshold 12, pause 2, Collect up to 4, 3 failed ticks | takes over within threshold + pause + one Collect, never beside a working main |
| `pipeline` | 2 cleaners and a sender, limit 3, 6 inserts, chunks and batches of 2, a failure, fairness | the newest row survives stale counts and boundaries, the limit is restored, only what a sender is behind by more than a cleaner keeps is trimmed unsent |
| `rsyslog` | 2 senders, 2 sessions and 2 DDL rows, logoff times 1 and 2 in any order, batches of 1, a failure, fairness | no login or DDL skipped, a logoff only when it came late, a batch beyond the furthest cursor at most, all else sent in the end |
| `ingest` | 1 directory, 4 lines, 3 files, a session id in use again, a failure of any kind, fairness | no line skipped, a session that ended within a rotated file is closed, every line handled in the end, `SessionTrail` implemented, so that no login gets a second row |
| `sessions` | 1 client with up to 2 server sessions, 4 lines of `obproxy.log` in 2 files, 2 lines of `observer.log`, failures reported either way, a failure of any kind, fairness, deadlock checked | rows say what happened, one per login, none closed before a connection of its client ended, each closed after its own end; a rotated file brings back what ticks missed; refused logins do not stay open |

Runs that end in a violation, each a statement of the repository that the code does not
keep (details and quotes in `PROJECT.json`, "findings"):

| Run | What TLC shows |
|---|---|
| `ddl_reused_id` | after an observer restart a DDL row with an old request id is dropped and passed |
| `service_mode_off` | with mode 0, the default, the watchdog kills a healthy process because of a loop that was never started |
| `rsyslog_late_logoff` | a session closed with an earlier logoff time is skipped |
| `ingest_replay` | a rotated file is read again, and its old LOGOFFs close sessions that reuse the id |

The constants make further limits of the code visible. Each of these changes of a `.cfg`
makes TLC find a counterexample; they are not kept as runs:

* `ddl_two` with `EndStep = 0`: `CursorInv` and `CursorCovers` fail. A statement that
  ends in the same microsecond as the cursor, after the window query, is never read
  (`ddldcl.go:319`).
* `ddl_units` with the property `GhostsDrained`: when `getUnitWindow` or the INSERT fails
  for a unit that is gone, the loop goes on and `cleanupGhosts` deletes its row all the same
  (`ddldcl.go:155`). The comment at `ddldcl.go:353-354` and `DDL_DCL_AUDIT_V2.md:354-355` say
  that its last rows have been collected by then.
* `service` with a pause of 8 and the property `NoFalseAlarm`: the heartbeat is not touched in a
  pause, so an interval longer than the threshold is taken for a hang (`daemon.go:163`). With
  mode 1 and pauses within the threshold `NoFalseAlarm` holds.
* `service` with one file of 7: `BacklogRead` fails. A file that alone takes longer than the
  watchdog allows is started over again and again; its offset is saved at its end only, and
  the heartbeat is not touched in between (`processor.go:304`).
* `service` with `StartLimitInterval = 20`: `GivesUpOnlyOnFailedStarts` fails. Two kills by the
  watchdog within the interval use up the two starts, and the unit stays failed. In the
  configuration as shipped a life lasts more than 120 s and 5 starts in 300 s are out of
  reach of the watchdog alone; a threshold of 50 s or less changes that. An outage of the
  database that lasts five restarts of 10 s leaves the unit failed for good either way.
* `pipeline` with the property `NewestSurvive`: two hosts that clean the same table keep
  less than 90 % of the limit, because one computes its offset from a count taken before the
  other deleted (`cleanup.go:54-64`). With one cleaner it holds, and `OnlyBacklogLost` with it.
* `pipeline` with `MaxRows = 1`: `LimitRestored` fails, the target is 0 and no boundary
  exists (`cleanup.go:63`).
* `rsyslog` with `IdsInOrder = FALSE`: `NoIdSkipped` fails. A row whose id becomes
  visible after a greater one is skipped (`rsyslog.go:164`).
* `rsyslog_late_logoff` with two senders, batches of 1 and four sessions that close in the
  order of their logoff times (started where their logins were forwarded, to be within
  reach): `NoLogoffSkipped` fails without any failure and without a late logoff. A sender reads
  `last_time`, the slower one sets the cursor back, the first reads `last_id`; the position put
  together from both skips a logoff (`rsyslog.go:222`). `OnlyLateSkipped` names this case (`torn`).
* `fallback` with `DdlDclStaleThreshold = 6` and the property `TakesOverAsConfigured`: the
  configured threshold has no effect, `ShouldCollectFallback` compares with a constant
  (`ddldcl.go:49`). `DAEMON.md:73-75` and `README.md:92` say otherwise.
* `ingest` with the property `OffsetMeansRows`: an INSERT that fails is logged and its line
  passed (`handler.go:84`). `ARCHITECTURE.md:42-43` says the offset always agrees with the
  rows.
* `ingest` with the property `LinesInOrder`: after a rotation between the listing and the
  open, lines of the new file are handled before the rest of the old one
  (`processor.go:153`); so they are when reading a file fails, as the next one is tried.
  `ARCHITECTURE.md:40` says the physical order is kept. A session whose LOGOFF comes first
  stays open until the file with the LOGOFF is rotated in turn.
* `ingest` with the property `LogoffAfterLogin`: what `ingest_replay` leads to. With
  `IdsReused = FALSE` it holds.
* `ingest` with `RotationSeen = FALSE`: `NothingSkipped` fails. A new file that has outgrown
  the old offset before a tick looks at it is taken for the old one, and its first lines are
  read only when it is rotated itself (`processor.go:374`).
* `ingest` with `HeaderAtOnce = FALSE`: `OneRowPerLogin`, `SessionTrailSpec` and
  `ClosedByRotation` fail. The first
  line may appear between the two opens; rows get an empty `server_ip`, logoffs are dropped,
  and the rotated file brings a second row (`processor.go:205`).

* `sessions` with the property `LoginReadHasRow`: a login whose two lines are read in two
  ticks has no row until its file is rotated (`processor.go:219`, a parser per file and tick).
  `ARCHITECTURE.md:450-453` and the table at its end argue that both lines lie in one file;
  they need not lie in one tick.
* `sessions` with the property `RefusedIsCorrected`: a PROXY row that is closed before the
  server's verdict is known keeps `is_success = 1` (`session.go:56-57`). `ARCHITECTURE.md:485-489`
  says that such rows are found and get the error of the server.
* `sessions` with the property `ClosedTogether`: a logoff closes the rows that exist, and the
  other row may be inserted later and stay open until its own logoff. `ARCHITECTURE.md:481-483`
  says there is no window with one row open and one closed.
* `sessions` with the property `IgnoredLeaveNoRow`: `handleErrorTransfer` fills `failMap` without
  a look at the user, and `handleDoClose` asks only `failMap` and `bornMap`
  (`proxy_parser.go:263`, `283`), so the failed login of an ignored user becomes a row.
  `README.md:87` says that these users are excluded from the audit.
* `sessions` with the property `ClosedAfterClient`: the close of one server session closes all
  open rows of the proxy_sessid while the client works on with another (`session.go:34-36`).
  For a client with one server session it holds, by `ClosedAfterEnd`.
* `sessions` with the property `OneRowAlways`: a second "server session born" puts the client
  into `bornMap` again after its `update_cmd_stats`, and its close is recorded as a failed login
  beside the successful one. The comment at `proxy_parser.go:272` takes a client that is still in
  `bornMap` for one whose `update_cmd_stats` did not come.
* `sessions` with one server session, three files of `obproxy.log` and the property `OneRowAlways`:
  it fails in logs with the `error_transfer` lines of older proxies. A failure found in `failMap`
  needs no birth, so its row may be written before the address is found and bears none; the
  record of the name has it in the next tick, and a replay makes a second row
  (`processor.go:301-330`). `ARCHITECTURE.md:187-189` and `384-386` say that `uk_sess` drops the
  duplicates of a replay. `OneRow` proves that without these lines there is none.

With 4 lines of `obproxy.log` and 3 of `observer.log` the invariants of `sessions` hold as well
(4.5 million states); so do those of `rsyslog` with batches of 2 and 3 DDL rows (6.6 million).
Their liveness takes longer than a run is given, so the runs keep the smaller bounds.

Why the bounds are enough. A lost row needs one row, one cursor and a second actor that
moves the cursor, restarts or fails in between: two collectors or two units, two rows (one
before and one after a window), and one or two failures make all of these meet; two flaps
let a unit go and come back within a run of `Collect`. For forwarding two rows and batches of
one let each of two senders be a batch ahead of the other and set the cursor back by one;
batches that are full, short or cut are in `pipeline`. For ingestion
three files let a file be the new one, then the rotated one, while a record speaks of each;
four lines fill two of them with a login, a close and a login that reuses the id. A client
whose every line may be written before, during and after any step of two daemons, with its
file rotated once, has its login split over ticks and files, read twice, and answered before
or after the server's verdict. For cleanup a stale count needs one overflow before and one
insert after the deletions of the other cleaner. Time
bounds are chosen so that each duration (pause, tick, threshold, check interval) is
distinguishable from the sums of the others that matter: a tick and the longest pause
together exceed the threshold, each alone need not; each file is shorter than the watchdog
allows, both are longer; a life that the watchdog ends is longer than the start interval
divided by the burst, as in the unit file. Runs with bounded inserts or failures stop when
the bounds are used up, and a service that was stopped does nothing, so deadlock is checked
only in `fallback`, `ingest`, `ingest_replay` and `sessions`, which never stop.

Every property of a passing run has a mutant in `PROJECT.json`: a plausible bug in one
definition under which TLC finds the property violated. The mutants stand beside the
definitions they replace and are used nowhere else.

## Fairness

* `DdlCollect`: one collector keeps taking successful steps (`WF` of `Collect(c)` for some
  `c`). `RunLoop` calls `Collect` again after every pause, systemd restarts the process,
  and failures are bounded, so this one is not prevented for ever. The other collector may
  stop anywhere. Observers have no fairness.
* `Daemon`, `Service`: every goroutine that can run does, systemd does its work, and time
  goes on. No tick has to return, nobody has to send a signal, the database need not
  recover: `BacklogRead` speaks of runs in which it does.
* `Pipeline`, `Rsyslog`, `LogIngest`, `Sessions`: every loop goes on ticking, since systemd
  restarts the process and failures are bounded; writers, clients and rotation have no fairness.

## Proofs

Eight modules hold proofs. Unless a line says otherwise a theorem holds for every value of
the constants, that is for any number of daemons, units, clients, files and rows, any
durations and any number of failures. The bounds of the models (`Max*`) are constants like
all others. Every theorem follows the same pattern: an inductive invariant, shown to hold
initially, to be kept by each action (one step of the proof per action) and to imply the
property. The type invariant comes first, as the others need it.

### DdlCollect_proof

1. `TypeCorrect`: `TypeOK` is invariant.
2. `CursorSound`: `CursorInv` is invariant, when `EndStep > 0`.
3. `CursorNeverPasses`: `CursorCovers` follows.
4. `NothingLost`: `NoDdlLost`, when moreover request ids are unique per host
   (`ServerWideIds`, no observer restart). The run `ddl_reused_id` shows that the
   assumption is needed.
5. `ImplementsTrail`: `DdlCollect` implements `AuditTrail` under the identity mapping.
6. `CursorMonotone`: with one collector no cursor moves back.

`CursorCovers` alone is not inductive: a cursor value lives on in the memory
of a collector after the table has changed, and is written back later. A value `e` of unit
`u` is *sound* when every DDL row of `u` in the buffer up to `e` is in the log and no
statement that has yet to finish can end at or before `e` (`e <= lastFin[u]`).
`CursorInv` says that every value in the table, in `loaded` and in a window already
inserted is sound. Soundness survives everything: the log only grows (`KeepSound`), the
buffer only gains rows beyond `lastFin` (`FreshSound`, this is where `EndStep > 0` is
used), evictions and restarts only remove rows. A window becomes sound when it is inserted:
rows up to the loaded cursor are in the log by the invariant, the rest are candidates of the
INSERT, and INSERT IGNORE leaves all their keys in the log (`InsertIgnoreKeys`). So the
cursor may regress under two collectors, but it never overtakes. `NothingLost` turns keys
into rows with `IdInv` (ids issued once have one row). `CursorMonotone` uses `AloneInv`:
what a lone collector has loaded is what the table still holds. `ImplementsTrail` maps
`InsertWindow` to `Record`, cursor writes to `Publish`, finished statements to `Appear` and
all else to stutters; that an appearing row is beyond its cursor and that a published cursor
is covered both come from `CursorInv`, and that the log has one row per key from `KeyInv`.

### Fallback_proof

1. `FallbackTypeCorrect`: `TypeOK`.
2. `FallbackTakesOver`: `TakesOver`. `FallbackPace` bounds the silence in each phase of the
   fallback by what the phase may still add to it; main can only end a silence.
3. `FallbackKeepsOut`: `FallbackLeavesMainAlone`, when a pause and a Collect of main together
   stay within the threshold. The threshold is 120 s and the pause 20 s by default, so this
   allows a Collect of 100 s; a Collect that may take longer is one the fallback interrupts.
   `MainFeeds` says that the silence of a main which has fed `updated_at` is its own pause and
   Collect.

### Daemon_proof and Service_proof

1. `DaemonTypeCorrect`, `ProcessTypeCorrect`, `ServiceTypeCorrect`: `TypeOK` of the process,
   on its own and under systemd, and `ServiceTypeOK`.
2. `WatchdogIsRight`, `ServiceWatchdogIsRight`: `StaleIsHung`, for any durations and in any mode.
   It speaks of loops that were started and whose pause the threshold covers. It leaves two
   causes of a false alarm: a pause beyond the threshold, and the loop that mode 0 does not start
   (`service_mode_off`; 0 is the default, `config.go:153`). `Heartbeats` says that the age of a
   heartbeat is the time its loop has spent in a tick or a pause.
3. `HangsNoticed`, `ServiceHangsNoticed`: `HangNoticed`, for any durations. `CheckedInTime`:
   every heartbeat was within the threshold when the watchdog looked last.
4. `ShutdownClean`, `ServiceShutdownClean`: `ShutdownIsClean`. `DrainTrue`: while main waits,
   a tick goes on that is at least as old as the wait.
5. `WatchdogNeverExhaustsStarts`: `GivesUpOnlyOnFailedStarts`, when `StartLimitBurst` lives,
   each of which lasts the threshold, 1 and `RestartSec` at least, fill the start interval.
   As shipped that is 5 times 131 s against 300 s. `StartsSpaced` says that the remembered
   starts which came up are a life apart, and how old the last one is in each state of the
   unit.

Service keeps the invariants of Daemon because a step of the service is, for the variables
of the process, a step of Daemon, a boot or a failed start (`ProcessStep`).

### Cleanup_proof

1. `CleanupTypeCorrect`: `TypeOK`.
2. `NewestRowKept`: `NewestRowStays`, for any number of cleaners. `BoundaryBelowRow`: the
   boundary of a cleaner lies at or below a row that exists, though others may delete the
   boundary row itself.
3. `TargetKept`: `NewestSurvive` for a lone cleaner, which `pipeline` refutes for two.
   `CountHolds`: the rows from its boundary on number the target at least.
4. `PipelineTypeCorrect`, `PipelineNewestRowKept`: the first two under `PipelineSpec`.
5. `OnlyBacklogIsLost`: `OnlyBacklogLost`, for any finite set of cleaners and any senders.
   `SentInOrder` says that cursors, and what senders read of them, have passed no row that is
   still there and was not sent, so that all rows after an unsent one are unsent. It holds
   although rows vanish under a batch in memory and senders set each other's cursors back. So
   what cleaning keeps of the rows after a deleted one (3 for a lone cleaner, 2 otherwise) is
   kept of the unsent ones.

### Rsyslog_proof

1. `RsyslogTypeCorrect`, `HistoryTypeCorrect`: `TypeOK` and `HistoryTypeOK`.
2. `NoIdIsSkipped`: `NoIdSkipped`, for any number of senders, when `IdsInOrder`.
3. `OnlyLateIsSkipped`: `OnlyLateSkipped`, for any number of senders, without any assumption.
4. `AloneOnlyLateIsSkipped`: for a lone sender a skipped logoff always came late.
5. `OneBatchIsAhead`: `OneBatchAhead`, for any number of senders, when `IdsInOrder`.

A position is *covered* when it is that of a row and all rows up to it were sent or, for logoffs,
came late; `Progress` says that the cursor and whatever a sender remembers are covered, and that
the rest of a batch is what comes next. Covered positions stay covered, so a second sender that
sets the cursor back does no harm. For the streams ordered by id this needs rows that appear in
order (`WritersAppend`); for logoffs a session that closes behind a covered position is in
`late` by definition, which is why `late` has to look at what senders have in memory as well as
at the cursor. The logoff cursor is read in two queries, and the pair put together from two
different cursors need not be covered: this is `torn`, which a lone sender never is
(`ReadsOneCursor`). `OneBatch` says that what was sent, or is about to be sent, beyond the furthest
position of the cursor lies within the batch that follows this position.

That ids become visible in order is an assumption on the writers; the order of logoff times is
none any more, as `rsyslog_late_logoff` shows that the code does not keep it.

### LogIngest_proof

1. `IngestTypeCorrect`: `TypeOK`.
2. `NoLineIsSkipped`: `NothingSkipped`, when `RotationSeen`. `ActiveRead` says that the record
   of the active name tells how far a file was read, and that the successor of this file, if it
   was rotated, is still shorter than what the record says; `RotatedRead` that a rotated file
   with a record was read to its end. Renaming keeps both since a name is resolved at the open.
3. `ImplementsSessionTrail`: `SessionTrailSpec`, when `HeaderAtOnce`. `RowsOfLogins`: rows are
   those of the logins that took effect, all with the address.
4. `RotationCloses`: `ClosedByRotation`, when `HeaderAtOnce`. `RotatedClosed`: what came and went
   within the part of a rotated file that was read is closed; a row is closed by the first
   LOGOFF after it, and no later line opens it (`RowsFollow`).

Both are assumptions on how the observer writes and rotates its files between two ticks; the
changes of `ingest.cfg` above show what happens without them.

### Sessions_proof

1. `SessionsTypeCorrect`: `TypeOK`.
2. `NoEarlyClose`: `ClosedAfterEnd`.
3. `OutcomesAreTrue`: `OutcomeTrue`.
4. `RotationRecovers`: `RecoveredByRotation`.
5. `OneRow`: `OneRowPerLogin`.

None of them has an assumption: they hold with any number of clients and server sessions, with
either report of a failure and any `sm_id`. What the code does not keep stands in the
properties, each time as the event in the log that causes it: a second "server session born" of
the client (`BornAgain`), an `error_transfer` that bears its number (`NamedInError`, its own or
that of another, as `failMap` is filled under the `sm_id` and looked up under the `cs_id`), a
server session that was closed (`SomeServerClosed`). A client without such an event has the full
promise, whatever happens to others. The promises without these exceptions are `IgnoredLeaveNoRow`,
`OneRowAlways` and `ClosedAfterClient`, see the changes of `sessions.cfg` above.

`Shape` is the type invariant with what holds of files and records: a file that was rotated is
read under its own name, a record lies within its file. `LogTrue` says that what a line tells of
its client is so and stays so, and in which order the lines of a client come. `ParserTrue` says
that a client in `bornMap` is audited and was not answered up to the line read, and that an entry
of `failMap` comes from an error. With these a row that is inserted tells the truth (`RowTrue`),
wherever the reading began, and it remains true while the client goes on. `RotatedRecovered` says
what a reader of a rotated file has achieved at each line: once the line that decides on a login
was read, its row exists, closed if the quit was read; until then its birth is in `bornMap`. A
rotated file has a new name and is read from its first line by one parser (or again, after a
failure), which is why ticks that saw only parts of a login before do not matter.

`OneRow` rests on four facts. A client is answered once (`AnsweredOnce`). The address is known as
soon as `bornMap` has an entry, because the line that fills it is the one the address is found in
(`IpKnown`). A PROXY row of a client with one birth that no error names comes from its answer, or
from its close if no line answers it (`RowPlaced`): a close is the last line of its client and
comes after its birth, so if the birth is remembered at the close, no answer was written at all.
And every statement keeps `uk_sess` (`KeysUnique`). Two rows of one login then come from the same
line, and the key, which is source, address, session and time of the line, makes them one.

### What is only model-checked

* Liveness (`EventuallyCaughtUp`, `SignalEnds`, `TicksAgain`, `BacklogRead`, `LimitRestored`,
  `AllSent`, `AllHandled`, `RefusedIsClosed`, `EndedIsClosed`): fairness and `ENABLED` are
  outside the prover.
* That the parser, as a function, meets a specification for every sequence of lines would need
  induction over data; `ParserTrue` states what is needed of it as an invariant instead.

## Not modelled

* Two daemons never share a record of `logfiles` (`collector_id`), so `LogIngest` has one.
* The regular expressions of the parsers, descriptive columns (addresses of clients, names,
  SSL, client type) and the text filter of the collector: stateless string matching. The proxy's
  own probe and lines without a tenant are not told from ignored users.
* `LoadOpenProxySessids` and the set of open sessions: they feed a counter.
* The stored procedures `ddldclaudit*.sql`: earlier versions of `Collect`, not called.
* Logging, statistics, YAML, table creation: no decision depends on them.
* The UDP network: a datagram counts as sent when the socket accepts it, which is all the
  code can know.
* SIGKILL after `TimeoutStopSec`, and a signal during the start of `main`. The unit file has
  `StartLimitIntervalSec` in `[Service]`; versions of systemd that read it in `[Unit]` only
  apply their default, which `Service` covers with other values of its constants.
* Sessions through a proxy with reused numbers: `LogIngest` has reused ids.

## Plan

The model covers every component that keeps state, and every safety property of the passing
runs is stated by a theorem. What is left:

1. Refinements that exist for one component only: an abstract trail for `Sessions` (a login
   appears, is answered and ends, per source), which it implements up to the exceptions of
   `OneRow` and `OutcomesAreTrue`; and one for `Rsyslog`, a stream that is sent in order with
   repetitions.
2. Which logs with `error_transfer` lines keep one row per login: those in which the address is
   found before the first of them is a candidate to check, then to prove.
3. `AllSent` and the properties of `Sessions` with larger bounds, where the runs leave liveness out.
