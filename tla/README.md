# A verification project for metacubexd-server-go

`metacubexd-server` supervises one mihomo kernel, keeps the profiles it can
run, and serves the control API and the dashboard on one port. This directory
holds TLA+ models of the parts of the server whose behaviour depends on the
order in which things happen, the instances TLC checks and proofs for TLAPS.
All paths below are relative to `src/internal/server/` unless they start with
`src/`.

    tlc -workers 2 -config MCServer.cfg MCServer
    tlapm ServerProofs.tla

## 1. The system

| Component | State it keeps | Operations | Talks to |
|---|---|---|---|
| Kernel supervisor, `supervisor/supervisor.go` | status, the tracked child, `intentionalStop`, `restartCount`, two timers; `lifeMu` (one lifecycle call at a time), `mu` (the fields) | Start, Stop, Restart, Dispose, State, Validate; `watchExit`, the backoff and the stability callbacks | spawns mihomo, polls its controller, calls `OnState`/`OnLog`, rewrites `active.yaml` |
| Profile store, `profile/profile.go` | `index.json`, `<id>.yaml`, `state.json`, `active.yaml`, `active.yaml.bak`; one mutex | Create, Update, Delete, Duplicate, ImportFromURL, Refresh, SetSection, SetActive, ResetActive, Rollback and reads | called by the control API, the scheduler and Restore |
| Control API, `control/*.go` | none of its own; each handler is a sequence of calls of the store and the supervisor | profiles, config, kernel, logs, backup, geo | everything above |
| Scheduler, `scheduler/scheduler.go` | a timer, `stopped` | Start, Stop, tickOnce, applyActiveRefresh | store, supervisor |
| Event stream, `control/control.go:202-254`, `sse/sse.go` | two bounded channels per client | subscribe, seed, forward | the supervisor's callbacks |
| Merge, `merge/merge.go` | none of its own; an accumulator while it works | Merge, directives, prepend and append, in the order of a Go map | called by the store |
| Backup and restore, `control/backup.go`, `webdav/webdav.go` | none; a loop over entries with a table of new ids | backup, restore with remapping of ids, WebDAV transfer | store, one call per profile |
| Authentication, `auth/auth.go` | none: the cookie key comes from the password, and cookies (session, page to go back to) hold the rest | login, verify, logout | wraps all handlers; browsers |
| Clash proxy, `clashproxy/clashproxy.go` | none | look at the supervisor's state, forward with the managed secret | the kernel's controller, found through `active.yaml` as the kernel read it |
| Geo assets, `kernel/kernel.go` | the data files, one temporary file for each | download all, in order, and rename | the control API, any number of times at once |
| Server wiring, `server.go` | the above | boot start, shutdown | everything |
| Terminal client, `src/internal/tui` | the kernel's status, page models | one message loop; polls every second, one event stream that is not reopened | the control API and the kernel |

What is hard in it:

* **Concurrency in the supervisor.** A lifecycle call holds `lifeMu` for up to
  15 s and takes `mu` for moments; the exit of the kernel, two kinds of timers
  and the readiness poll all take `mu` in between. A `time.Timer` cannot stop
  a callback that has begun.
* **Handlers are not atomic.** An activation is SetActive, then `mihomo -t`,
  then either a restart or a way back. Other handlers, scheduler ticks, and
  the supervisor's own rewrite of `active.yaml` (`injectClashConfig`) come in
  between; the latter does not take the store's mutex at all.
* **Files and crashes.** Every operation of the store changes several files,
  with no log. `atomicWrite` is atomic; `copyFile`, used for the snapshot and
  for Rollback, is not. Several errors are dropped on purpose.
* **Bounded channels.** The event stream drops events that find a full channel,
  the newest ones. Answers to polls overtake the stream and one another.
* **Order of data.** Maps without an order decide in which order merge
  directives apply; an index in order decides which base ids Restore can remap.
* **Two readers of one text.** `injectClashConfig` edits `active.yaml` by lines,
  the kernel reads YAML; the login handler looks for a field in the bytes of a
  body that the browser wrote as JSON.
* **Names shared by requests.** Updates of geo data write one temporary file,
  tabs of a browser share one cookie that says where a login leads.

What makes each part correct (the properties to state):

* supervisor: at most one kernel; no transient status survives its call; no
  kernel after a Stop; every lifecycle call ends; a crash within the budget is
  retried.
* store: a listed profile has a file; a profile leaves the registry only when
  deleted; the active id is listed; one visual-editor overlay per base; a
  crash never costs both copies of the active configuration.
* activation: the file is the one the remembered profile composes to; only
  validated configurations run; a failed activation is undone; no call undoes
  a choice of the user that it has not seen.
* event stream and client: the last event a client gets is the present status;
  whatever is lost, the client ends up showing the kernel's status.
* restore: overlays keep their scope and their order; what was there stays.
* active file and proxy: the kernel reads what was composed, with the managed
  keys; the secret in the log opens the gate; a running kernel is reached.
* authentication: a login leads back to where it began, lasts its time over
  restarts of the server, and is possible for who types the password.
* geo assets: what the kernel reads is never half a file.
* terminal client: an edit or a delete does what the user saw when asking for
  it; at rest a page shows what the server has; no message ends the program;
  refreshing goes on as long as a tab is shown and no longer.
* merge: agrees with the documented directives, whatever the map order.
* scheduler: at most one chain of timers; Stop waits for the running tick.

## 2. The modules

`X.tla` is a component, `MCX.tla` its instance for TLC. What is proved about a component
is in `XProofs.tla`, except that the proofs about Supervisor are with the server's
(`ServerProofs.tla`), those about Activation and Gateway are in `ControlProofs.tla`, and
those about Filtering, Restore, Merge, ClashProxy, ActiveFile, GeoAssets and ConnectionsPage
in `FilesProofs.tla`, a part each.

### Supervisor

`supervisor.go`, one action per critical section of `mu` (or per blocking
step between two of them). `pc` and `op` say where the one call that holds
`lifeMu` is; `cur` is its local `child`. The table of the correspondence:

| TLA+ | Go |
|---|---|
| `status`, `child`, `intentionalStop`, `restartCount` | the fields of `Supervisor` |
| `restartTimer`, `stableTimer` | the fields that point to timers (a timer is named by the run that armed it) |
| `backoff[p]`, `stability[p]` | the timers themselves: off, armed, or fired with the callback waiting for a mutex |
| `proc[p]`, `killed` | the operating system: run, dead; sent SIGKILL |
| `watcher[p]` | the `watchExit` goroutine of run `p` |
| `BeginStart` ... `ArmStability`, `NotReady`, `Reaped` | `doStart`, `failStart`, `pollReady`, `armStabilityReset` |
| `BeginStop`, `StopTimeout`, `StopDone`, `Detach` | `doStop` with the callers Stop, Restart and Dispose |
| `SupersededExit`, `TrackedExit`, `ScheduleRestart` | `watchExit` |
| `BackoffCallback`, `StabilityCallback` | the two `time.AfterFunc` functions |
| `wanted`, `overlap` | history: the last user request is one to run; `doStart` ran from the watchdog with a process tracked |

Durations are not modelled: a timer may fire at any time after it is armed,
the readiness deadline and the stop deadline may pass at any time. `MaxSpawns`
bounds the number of processes; the spawn after the last fails, which is the
code's path of a failed `exec`. `told` is the status last given to the
callbacks of `OnState`. Left out: log lines, the reuse of a pid, `Validate` and
the contents of `active.yaml` (module Activation has those).

### KernelStatus

What the supervisor promises to those who look at it from outside: `status`
(`State()`), `told`, and whether a lifecycle call is starting or stopping. Its
steps are the ways in which the status can change and who is told. Supervisor
implements it (`ImplementsKernelStatus`) with `phase` computed from `pc` and
`op`, and `stopRequested` standing for `intentionalStop`; it is small enough to
be the server's half of the next module.

### ProfileStore

`profile.go` as seen on the disk. The store's mutex lets one operation run;
`Begin...` actions are what an operation reads and decides, and the actions
after it (`WriteFile`, `WriteIndex`, `RemoveFile`, `BackUp`, `WriteActive`,
`WriteState`, `Restore`, `Undo`) are its changes in the order of the code. A
crash, a failed write and a failed read of `index.json` may come at any of
them, `MaxFaults` in all. A profile is its id, its metadata is what the store
decides by (type, base, visual-editor mark, enabled), a file exists or not,
and `active.yaml` is named by its base profile, or is `Minimal`, `Absent` or
`Cut` half-way. History: `misread` (the operation took a failed read for an
empty registry), `cut` (ids whose Delete stopped before the index).

Left out: names, URLs, times, `editorStatus`, the order of the index, and the
temporary files of `atomicWrite` that a crash leaves. The base of a created
profile is an existing id, one deleted before (`Gone`: Create does not look it
up), or none. A merge that fails leaves all as it was.

### Registry

What the store promises of the registry and of the active id: every call changes one of
them in one step, or nothing. A call adds one accepted profile (`Add`), switches one
(`Switch`), takes one away with what is scoped to it (`Remove`) or chooses one
(`Choose`, `ChooseNone`). Two things are less than one might wish for, and are named. A
call may fail to read the registry and take it for empty (`Misread`), and what it
writes then replaces everything (`Overwrite`). Taking the name of a deleted profile
out of the choice is a step after the removal (`ChooseNone`), which a crash may prevent.
ProfileStore implements it (`ImplementsRegistry`) with `index` for `entries` and
`activeId` for `chosen`: a call takes effect when it writes the index or `state.json`,
and its other files, failures and crashes are invisible here.

### Activation

The composition: handlers (`req[r]`: where handler `r` is, which profile, the
one noted as previous), the store's calls as single steps, and the start of a
kernel as read, write and spawn (`life`). A configuration is the profile it was
composed from and the verdict of `mihomo -t`. It covers POST activate, PUT
config and config/section, POST kernel/rollback, recover and restart, the
scheduler's refresh of the active profile, the watchdog's restart and the
rewriting of `active.yaml` by every start. What a profile composes to may get
another verdict at any time without being activated (`Edit`: PUT and refresh of a
profile, overlays that are created, switched or deleted; also the first half of
refresh-and-activate, whose second half is an `Activate`). History: `copied`,
`active.yaml` was copied back from the snapshot or written back by a start since
it was last composed; `owed`, part of a configuration, it is rejected and was
composed for an activation, which has to take it away; `touched`, the handlers
interfered with, that is, somebody else has written the store's files since they
last looked at them or wrote them.

Left out: creating and deleting the profiles that are activated (ProfileStore), how
a start waits (Supervisor), failures of the store's own calls. The boot start is
in the past.

### StateStream

KernelStatus, one event stream and one terminal client. On the server the
callback registered by `handleKernelLogs` (`Send`, part of `Broadcast`, as it
runs under the supervisor's mutex), the bounded `stateCh` and the handler:
register, seed with `State()`, then take and push. What has been pushed is the
FIFO `wire`: socket buffers, the reader of `client/sse.go` and the command that
forwards the next event. At the client `view` is `m.state`, set by events and by
the answers to polls (`poll[k]`), which are independent of each other. The
connection may break at any time (`Disconnect`); the client does not subscribe
again. Dispose drops the callbacks and leaves the stream open (`Detach`).
History: `dropped`, the last broadcast found the channel full.

Left out: log lines (their channel is another one), the web dashboard (it uses
the same stream), the rest of the client's model, error messages.

### ProfilesPage

The Subscriptions tab of the terminal client, `src/internal/tui/pages/profiles`
with the routing of `src/internal/tui/route_msg.go`, over the server's list and
active id. One action per key (`Activate` ... `MoveCursor`), per message
(`ProfilesLoaded`, `ProfileOp`) and per thing that happens to a request: it is
served, read in two steps if it asks for the list (`ReadIndex`, `StampActive`,
the order of `control/profiles.go:31-46`), fails, or is given up by the client
while the server goes on (`TimeOut`, `ServeOrphan`). Answers come in any order.
`OthersChange` is anybody else who uses the server. History: `asked`, the
profile the prompt came up for; `replaced`, a listing landed under the prompt;
`outdated`, the newest listing shown is old, a request failed or somebody else
changed something; `emptied`, the table had no rows since its cursor was last put
on one.

The table is that of bubbles v2: it takes a cursor beyond its rows back to the last
one, hence before the first (`NoRow`) when it has none, and new rows do not
bring it back. A key that wants the selected profile then indexes with -1, and
the program ends (`Panic`). Left out: the other tabs, the text typed in the form,
overlays (a delete of one id takes one id), error messages.

### ConfigPage

The Config tab, `src/internal/tui/pages/kernel`: the menu (`kSelected` over
kernel operations, network fields and the viewer), the editors, the settings as
fetched (`network`) and the server's (`live`). A setting belongs to a section
(`KeyOf`); saving a field sends its section as fetched with the field changed
(`setField`, `net.go:52-67`), and the server replaces the section (`Replace`).
`Drawn` is the frame that is drawn after every message: while an operation runs it
needs the label of the selected operation, and a panic ends the program. History:
`outdated` as in ProfilesPage, and `old` in an edit that was made from settings
that were not known to be the server's.

Left out: scrolling, the options of an enumerated field, the Recover entry (it is
commented out), narrow terminals (they draw no frame), which operation runs. The
status only ends the spinner here; StateStream has the rest.

### Server

The composition of Supervisor with everybody who calls it: the goroutine that
starts the kernel on boot, the scheduler, the handlers and `Run` itself. `call[c]`
is the call a caller waits for or is in, `caller` the one that has `lifeMu`; `Enter`
is the moment it gets it, and `CallStep` is a step of Supervisor's `Lifecycle`, after
which the caller is released if the call has returned (`Held`). The scheduler is
`tick`: timer armed, fired and waiting for the mutex, `tickOnce` at work with the
mutex (`due` bounds the profiles it will apply), then `arm`. `stage` is where `Run`
is: serving, draining (`srv.Shutdown`), stopping the scheduler, disposing of the
supervisor, about to return, gone. A process that is gone leaves its kernels behind.
History: `quiet`, nobody had a call under way when Dispose was called.

`MCServer` also has the supervisor by itself (`alone`), whose calls come in any
order and with one process more: the server cannot restart at will, so what
it leaves out of the supervisor is checked there.

Left out: what a handler or a tick does to the profiles (Activation), and the
listener that is refused before the kernel is started.

### ProxiesPage

The Proxy tab, `src/internal/tui/pages/proxies`: the groups of the last listing,
which of them are expanded, hence the `rows`; the cursor over them; `scrollTop`,
adjusted by `Adjusted` as `adjustScroll` does to the lines the terminal has (`vh`);
`testing`, the groups under test. The kernel is `order` (the groups in the order in
which `rebuildGroups` shows them) and `now`; it may be restarted with another profile
at any time (`OthersChange`). History: `resized`, the height changed after `scrollTop`
was adjusted; `outdated` as in ProfilesPage.

`OthersChange` also has what the kernel does by itself: a url-test or fallback group
that selects another member, after a delay test too.

Left out: the mode, the delays shown, the order among groups that GLOBAL and the
response disagree on, and changes of a group's members (those of a group are a
constant; the code takes them from each listing).

### ConnectionsPage

The Connections tab, `src/internal/tui/pages/connections`: the ids of the last
listing, an index as cursor, the prompt of "X", and `ticks`, the chains of timers
that fetch the listing again. A chain begins with each press of "1" (`Visit`,
`src/internal/tui/tui.go:149-152`), also on the tab itself, goes on with each
`ConnectionTickMsg` that lands while the tab is shown, and ends with the first
that lands elsewhere (`Tick`). The keys of the program reach it only if the tab
does not want them (`GlobalKey`). Requests are as in ProfilesPage; the kernel's
listing comes in any order, as it ranges over a map.

Left out: the traffic of a connection, and leaving the program.

### Restore

`control/backup.go` over a registry that others change between any two calls of
the store. A backup is `ListAll`, one `Read` for each profile listed (one that cannot be
read is skipped) and `Put`; a restore is `GetBundle` (with `Split`,
`splitBackupEntries`), one `Create` for each entry with its base remapped (`Remap`)
and the checks `Store.Create` makes (`CreateAllowed`), and `Reply`. `Overlays` is
the choice that `composeLocked` makes of what applies to a profile. The WebDAV
server is a place that holds one bundle. A profile of any type may be scoped to a base,
as the handler of POST `/profiles` takes a base with any type
(`control/profiles.go:50-62`). Loops that keep some elements of a list are `Filter`, of
the small module Filtering: a recursive function, where the library's `SelectSeq`
takes an operator, of which nothing could be proved here.

Left out: names, UI settings, `editorStatus`, how a bundle is written, and the
partial failures within one call of the store (ProfileStore has those).

### Merge

`merge.go`, one key of an overlay after the other: `todo` holds the paths still to
be handled, and any of the innermost mapping may be next, as Go ranges over a map in
an order of its own while the recursion finishes a nested mapping first. It is a state
machine rather than a function because the same inputs have several outcomes.

A document, a tree of scalars, arrays and mappings, is a function from paths (sequences
of keys) to what is there, of any depth. `mergeOne` puts each value where it is in the
overlay, so that one path says where in either document, and neither the model nor what
is said of it needs recursion. `MergesAsDocumented` states the documented meaning level by
level: for every mapping that both sides have and that is merged (`Shared`), which keys
are kept, replaced, merged or dropped (`KeyAgrees`) and what its directives make of
their target (`TargetAgrees`). `DirectivesStayOut` is the sentence "these keys are never
emitted" with its exception: directives inside of a mapping that is put as a whole,
because the base has no mapping there, come out with it.

Left out: YAML's text, and two of the three targets of directives, which are like
the third.

### ActiveFile

`active.yaml` line by line: the store replaces it (`Compose`), a start reads it, writes it
back with the managed keys in front (`ReadFile`, `WriteFile`, `Inject` for
`injectClashConfig`), spawns the kernel, which reads the file as YAML (`Document`, `Loads`,
`Meaning`), and polls it with the secret (`pollReady`). The server may go down at
any point, in the middle of the write too, and come up with another secret and
another `MIXED_PORT` (`Boot`). The kernel has a process group of its own and goes on
when a server ends without disposing of it; and a late callback of the watchdog may
start one over another. Either leaves an orphan (`orphans`), which keeps the
controller's address: whoever asks there asks it (`Listening`), also the poll of the
next kernel, which then is not `alone` and runs without listening. The kernel is
modelled from how the code uses it: it takes the first document, refuses
duplicate keys, listens at the address in the file if that is free and answers
those who have the secret in it. History: `text`, what was composed
last; `kept` and `calm`, whether the file still is that text. `KernelReadsConfig` is about
texts that load to begin with: the store composes a single profile verbatim, whatever
its text is.

Left out: blank lines, the order of keys, anything below a top-level key; a second
try to bind the address; why a start happens (Supervisor) and which profile is
composed (Activation).

### ClashProxy

ActiveFile with the gate of `/api/clash/` (`auth.go`), the look at the state and the
dial (`clashproxy.go`). A panel of another origin bears the secret its user noted from
the log (`ReadLog`), perhaps of an earlier run of the server; the dashboard has a
session and bears nothing. `Check` is the gate and the look at the state, `Forward`
the dial; the kernel may be another by then. `RunningKernelAnswers` says who answers
a call whose kernel is still the one that was polled: somebody, but for the kernel that
found the address taken by an orphan, and only until the orphan is gone.

### GeoAssets

`FetchGeoAssets` of `kernel/kernel.go`, any number of updates at once: open with
truncation, copy block by block, rename, the next file. The temporary name is shared, so
a descriptor refers to what has that name, to what a rename has published, or to
a file without a name (`Moved`). Failures of connection, copy and rename, and a crash.

Left out: `FetchKernel`, which runs when an image is built.

### Gateway

`auth.go` and a browser with tabs that share a jar of cookies: a request carries the
cookies of the moment it is sent and brings back those of the moment it is
answered (`Deliver`). The server turns away (`turnAway`, with the cookie of the page to go
back to), checks a password (`handleLogin`, `extractJSONStringField`: the first
piece of the body, not unescaped), validates a session (`validCookie`) and may be started
again with another password. A page is asked for from the address bar or by a link:
a request that comes from another site goes without the session cookie, which is
`SameSite=Strict`, and one whose Referer names another origin is refused
instead of redirected (`isSameOrigin`). History: `from`, the page a tab was turned away
from while the cookie is its own; `member`, the time of a login that nothing has ended.

Left out: paths without a login, Bearer passwords, the open mode, the API's own
answers; `?next=` (the login page does not send it), the targets that `safePath`
refuses and what `http.SetCookie` drops from a value: a page is a path that all
of them leave as it is.

### MCFiles

Restore, Merge, ClashProxy and GeoAssets side by side, for what becomes of the
server's files. They meet in the store's composing, which each of them has as a
step of its own, so a behaviour is about one of the four (`topic`) and the others stay as
they are: the run is the sum of four instances, not their product.

## 3. What TLC checks

| Run | Bounds | Shows |
|---|---|---|
| `supervisor` | alone: 3 processes, 2 restarts; in the server: 2 processes, 2 restarts, 1 handler, 1 due profile | `SettledWhenIdle`, `OneKernelUnlessOverlap`, `SpawnOnlyWhenWanted`, `RunningWithoutKernelOnlyLate`, `ImplementsKernelStatus`, `QuietShutdownLeavesNoKernel`, `NoTickAfterStop`. Three processes are the least at which a superseded exit, a tracked one and a spawn overlap, two restarts exhaust the budget; in the server the second process is the one that must not come after Dispose, and one handler beside boot, tick, watchdog and `Run` makes five that compete for `lifeMu`. |
| `supervisor_one_kernel` | 3 processes, 2 restarts | violated: a backoff callback that waited for `lifeMu` starts a second kernel over the one a user has started |
| `server_live` | 1 process, 1 restart, 1 handler, 1 due profile, fair | `SignalEnds`, `RequestsAnswered`, `CrashIsRetried`. Calls wait for the process they track or have spawned, so one is enough for each wait; the retry of a crash then fails to spawn, which is a start as well. |
| `store` | 2 ids, 1 id of the past, 1 fault | `ListedHasFile`, `ImplementsRegistry`, `FirstFaultKeepsACopy`, `ActiveLostOnlyByCascade`. Two ids are enough for a base with its overlay, for two overlays of one (deleted) base and for a profile that a delete must not touch. The proofs cover any number of faults. |
| `activation` | 2 handlers, 2 profiles, all calls, edits included | `ActiveMatchesId`, `GoodAtRest`, `ChoiceKept`. With two handlers each step of one has the other's, the edits and the starts between it and the next; two profiles are one to leave and one to go back to. |
| `stream` | channel and wire of one event each, 1 poll, fair | `StreamIsCurrent`, `Converges`. One slot is enough to drop an event, and with the one being pushed and the one on the wire three statuses are on their way at once. A poll is overtaken by events and by the user; two polls that overtake each other are beyond what a liveness run can hold. |
| `profiles_page` | 2 profiles, 2 requests under way | `SelectsARow`, `DeletesWhatWasAsked`, `ShowsTheServer`. Two requests are the least that can be answered out of order, two profiles the least among which the selection can move. |
| `config_page` | 2 fields of one section, 2 values, 2 requests | `PageOK` (types, `BusyHasOperation`, `ShowsSelectedMode`), `EditKeepsTheRest`, `ShowsTheKernel`, `LabelLostOnlyByMoving`. Two fields of one section are what an old object can damage; a field alone in its section is written as it is. |
| `proxies_page` | 2 groups of 2 and 1 members, 2 orders, 2 and 3 lines, 2 requests | `PageOK` (types, `CursorInSight`, `MarkedWhileTested`), `KeepsTheGroup`, `ShowsTheKernel`. Up to five rows, more than the lines there are, and a group that vanishes. |
| `connections` | 2 connections, 2 requests, 2 chains of ticks, fair | `PageOK` (types, `CursorOnARow`, `PromptInSight`), `ShowsTheConnections`. Two connections are the least that a listing can swap under the cursor, two chains the least of which one could die without the other. |
| `files`, restore | every registry of up to 3 profiles (scripts, overlays in and out of scope, scoped local profiles, disabled, of a profile long gone), 1 change by others or failure | `RestoredComposesAlike`, `ScopesKept`. Three are a base with two overlays, or two bases with one. |
| `files`, merge | every overlay over one target key (an array or a mapping), its directives, the patch key and a nested mapping with a directive or a target in it; pairs of a few | `MergesAsDocumented`, for every order of the keys. Two levels are the least at which a nested directive meets the one outside, two overlays the least at which the second finds what the first has made. |
| `files`, proxy | 2 runs of the server, 2 kernels, 1 activation, 1 secret and 1 port that may be set, 5 texts | `KernelReadsConfig`, `RunningKernelAnswers`. The second run of the server has another secret than the file on disk, or the same; the second kernel is the one a call may find instead of the one it looked at, and the one that finds the first at its address, left by a run of the server that crashed or by a late start. |
| `files`, geo | 2 updates, 2 files of 2 blocks, 1 crash | `GeoWholeUnlessShared` |
| `gateway` | 2 tabs, 2 pages, 2 passwords (one that JSON leaves as it is, one it escapes), navigations of the browser's own and links on another site with or without a Referer, sessions of 1 tick, 2 ticks, 2 runs of the server, fair | `LoginLeadsBack`, `StaysIn`, `LetIn`. With two ticks a session is new, at its limit and past it; the second tab is what can take away the first one's cookie. |

The type invariants of supervisor, server, store, activation, stream, profiles page,
gateway and proxy are proved (section 4) and are in no cfg any more, nor is `SecretOpens`,
nor are `OnlyDeleteForgets` and `OneManagedOverlay`, which `ImplementsRegistry` contains
(Registry accepts no other profiles). Every safety property of the table is checked and proved.

The `violation` run refutes a sentence of a comment in the code; PROJECT.json
quotes it. The passing properties are the strongest statements found that the
code does keep, with the causes of everything below as named exceptions.

Also seen while modelling, not kept as runs of their own.

*Supervisor and server.*

* A kernel that dies between its answer to the readiness poll and the status
  `running` leaves that status, and Start then returns early
  (`supervisor/supervisor.go:532`).
* The stability timer of a run can be armed after that run ended (543 against the
  comment at 445). After the last automatic restart times out the status is
  `stopped`, not `errored` (464 against 61-62).
* A stop changes the status without a broadcast, though each transition is said to be
  told (32): after stopping an errored kernel the stream says "errored" for good.
* A handler that outlasts the 10 s of `srv.Shutdown`, or the boot start, may start a
  kernel after Dispose; a port in use ends the process with the kernel running
  (`server.go:208`).

*Activation and store.*

* Two failed activations in a row leave a rejected file, as the second takes the
  first one's id for the previous good profile (`control/profiles.go:239` against
  214-215), and going back with SetActive snapshots the rejected file. One failed
  activation is enough if the profile before was edited meanwhile, since what it goes back
  to is composed anew and not validated.
* A start by the watchdog between SetActive and Validate runs a configuration nobody
  validated (`control/profiles.go:227` against 212-215).
* The scheduler re-activates the profile the user has just left, as it checks the
  active id and sets it in two steps (`scheduler/scheduler.go:142`).
* A crash during the snapshot leaves half a `.bak`, which Rollback copies without a
  check (`profile/profile.go:504`).
* The cascade of a Delete may remove the active profile and leave `state.json` naming
  it (`profile/profile.go:342` against the comment at 287-288).

*Files.*

* A start that reads `active.yaml` before and writes it after a SetActive undoes that;
  one whose file is replaced between its write and the spawn runs a kernel without the
  managed keys. A crash during the write leaves a cut file, which nothing recomposes at
  boot. Each start adds a blank line.
* A text that begins with `---` puts the managed keys in a document of their own, and
  the kernel reads nothing else; a quoted `"secret":` is not stripped and makes a
  duplicate key; with `MIXED_PORT` changed or unset, the old line stays until the
  next activation.
* A kernel that a crashed server left behind answers the readiness poll of the next one
  if the secret is the same (`supervisor/supervisor.go:523`, 316; `server.go:208`):
  the status is `running` while the new kernel has no controller, and once the old one
  is gone calls get 502.
* `bridgeWS` is never reached: `stripPrefix` returns `/traffic`, the keys of
  `wsEndpoints` have no slash (`clashproxy/clashproxy.go:36-42, 74-75, 142-151`). The
  reverse proxy carries the upgrade instead.
* A directive that is in the base, or inside a mapping that the overlay puts wholesale,
  is in the output (`merge/merge.go:37-38` says never); a plain key and a directive for
  it in one overlay depend on the order of a map.
* Restore makes an overlay global whose base was not restored, turns disabled overlays on
  and puts the visual editor's overlays last, where they win.
* The cascade of a Delete is one level deep (`profile/profile.go:308-313`): a base that is itself
  scoped to another profile goes with that one and leaves its own overlays, and
  a backup taken then holds them without their base.
* Two updates of the geo data at once may publish a broken file
  (`kernel/kernel.go:184-185` says it cannot happen); an update goes on when its
  request is given up, as `hc.Get` knows no context.

*Login.*

* A password with a quote or a backslash cannot be typed in the login page:
  `JSON.stringify` escapes it, `extractJSONStringField` does not unescape. The body is
  read once (`auth/auth.go:441`), so one that comes in pieces is refused. The comments on
  a form (227-230) describe code that is not there.
* A link on another site asks for a login again, or is refused with 401 if it names
  that site as its Referer, although the browser is logged in (`auth/auth.go:259`, 154).
* Of two tabs that were turned away, the last one's page is where either login leads.

*Event stream and client.*

* The comment on overflow speaks of log lines only (`control/control.go:212-213`), but
  state events are dropped too, and the newest ones. The client polls every second and
  gets over both; what lives on the stream alone does not.
* Any answer to a poll ends the spinner of an operation under way
  (`src/internal/tui/cmd.go:16` against `Busy`'s comment at
  `src/internal/tui/pages/kernel/kernel.go:82`).
* Enter on Restart, then down onto a network field, and drawing the frame panics
  (`src/internal/tui/view_frame.go:37` against
  `src/internal/tui/pages/kernel/kernel.go:291-292`).
* With the settings not loaded, an edit of one field of `tun` sends an object of that
  field alone.
* A listing that lands while the delete prompt is up makes "y" delete another profile
  than the one the prompt came up for, with one user and one terminal
  (`src/internal/tui/pages/profiles/confirm.go:14`); the mark of the active profile, set
  before the activation is sent, stays wrong if that fails or times out, as the page is
  not told.
* Once the Subscriptions tab has shown no profile, the first "a", "u" or "d" after the
  list has filled again ends the program, unless the cursor was moved before
  (`src/internal/tui/pages/profiles/profiles.go:196`).
* A smaller terminal leaves the cursor of the Proxy tab out of sight until the next key.
* The Connections tab is not refreshed when it is the first one shown, until "1" is
  pressed; each "1" after that adds a chain of ticks. Its comment says one second
  (`src/internal/tui/shared/cmd.go:37`), its code two. `connCancel` is never set, so that
  `closeConnectionStream` does nothing (`src/internal/tui/route_connections.go:45-49`). "x"
  closes whatever connection a refresh put under the cursor.

**Symmetry.** Profile ids are random and compared only for equality, and
handlers and slots of requests are alike, so their permutations are declared in
five of the safety runs; no run that checks liveness declares any.

**Fairness** (`Server!ServerFairness`). A goroutine that can run does (weak
fairness of the steps of a call, of `watchExit`, of timers, of the scheduler and of
`Run`). The readiness
loop compares the clock with its deadline each time round, so the deadline is
not missed for ever (strong fairness of `PollTimeout`, which is enabled again
and again). A caller or a callback that waits for `lifeMu` gets it, because
`sync.Mutex` hands over to a waiter after one millisecond (strong fairness of `Enter`
and `BackoffCallback`). SIGKILL ends a process. Nothing is assumed of users, and a
kernel that is not killed may live for ever.

`StateStream!Fairness`: goroutines run and what was pushed arrives unless the
connection breaks; the tick comes every second and a server that is asked again
and again does answer. Nothing is assumed of the supervisor: `Converges` is about
the runs in which the status stops changing.

`ConnectionsPage!Fairness`: requests end one way or the other and their answers land;
ticks come while there is a chain, and among requests that are made again and again
some are served and some of their listings are delivered. Nothing is assumed of the user,
who may visit other tabs, or of the kernel's connections.

`Gateway!GatewayFairness`: the server answers, the browser delivers, a server that went
down is started again; a user at the login page does not give up typing the present
password, and time and again it arrives in one piece.

**Deadlock** is checked in every run but those in which nothing may be left to do: the
program may end (`config_page` by its panic, `supervisor` and `server_live` by the
signal), nobody needs to ask for anything (`files`), or the time and the starts of a run
are used up (`gateway`).

## 4. What is proved

TLAPS proves, for every value of the constants allowed by the modules'
assumptions (`SupervisorAssumption`, `StoreAssumption`, `ActivationAssumption`,
`ServerAssumption`, `StreamAssumption`, `PageAssumption`, `ConfigAssumption`,
`ProxiesAssumption`, `ConnectionsAssumption`, `RestoreAssumption`, `MergeAssumption`,
`ActiveFileAssumption`, `GeoAssumption`, `GatewayAssumption`; TLC evaluates each):

* `ServerProofs`, supervisor: `TypeCorrect`, `Settled`, `SingleKernel`, `StopIsFinal`,
  `OnlyLateAnswers` and `Implements`, the refinement of KernelStatus.
  The inductive invariant says where a call's locals make sense (`Control`),
  that the stop flag is up exactly while a call stops (`Flag`), that the
  tracked process is one whose `watchExit` still waits (`Tracking`), which
  status each late step may find (`Settling`), on whose behalf anybody may
  come to spawn (`Intent`) and, without an overlap, that a call about to spawn
  tracks nothing (`Single`). `Intent` is what makes a Stop final: with the flag
  down and nobody wanting a kernel, no watcher or timer is left.
* `ProfileStoreProofs`: `TypeCorrect`, `FilesKept`, `OverlaysUnique`,
  `ForgottenOnlyByDelete`, `CopyKept`, `ActiveLost` and `StoreImplements`, the refinement
  of Registry, for any number of profiles and faults. The properties are about the disk; the
  invariant adds what the draft in memory is worth at each step: a new profile
  is not listed before its file is there (`Adds`), an edit lists nothing new
  (`Edits`), a Delete's draft is the index without its victims (`Deletes`), and
  unless the index was misread every draft keeps what is listed (`Keeps`). For the
  refinement that is not enough, as it says what a step writes and not only whom it
  lists: `Drafts` says that the draft is what was read with the one change that was asked
  for and accepted. No step but the write of the index changes what it speaks of
  (`DraftsKept`), hence that write is the abstract step (`WriteIndexMaps`).
* `ControlProofs`, activation: `TypeCorrect`, `FileMatchesId` (any number of handlers,
  any calls), `RejectedHasCause` and `ChoicesKept`. The argument of the first of the
  latter two (`Debt`): while a rejected configuration that was composed for an
  activation is in place, an activation is between its SetActive and its end; one that
  nobody has interfered with finds the file as it left it, and in the snapshot at worst
  what another activation, still under way, has to take away. For the second, whoever
  looked at the store and was not interfered with since finds the id it saw.
* `StateStreamProofs`: `TypeCorrect` and `StreamTellsTheTruth`, for any
  capacities and any number of polls. `StreamIsCurrent` alone is not inductive:
  the newest event may say what has been told rather than what is. The
  invariant says that a queued event is the last one broadcast and that with an
  empty queue the one under way is that or a seed that knows more (`Ending`),
  and takes from KernelStatus who may be behind (`Kernel`): a status nobody was
  told of belongs to a stop, and only a broadcast ends that.
* `ServerProofs`, server: `Refines` (every step of the server is one of the supervisor
  or leaves it alone, so all that is proved of the supervisor holds of the process),
  `ServerTypes`, `TicksStop` and `QuietShutdown`, for any number of requests and
  of due profiles. The invariant adds to the supervisor's who may have a call
  under way: a tick only while it is at work (`Ticking`), Run only its one
  Dispose, which never starts anything (`Holding`), and after a quiet Dispose
  nobody (`Quiet`). What is left is a fired backoff timer, whose callback finds
  the stop flag up, and a late exit, for which `SettledWhenIdle` and `Single`
  speak.
* `ProfilesPageProofs`: `TypeCorrect`, `RowSelected`, `AnswersShowTheServer` and
  `DeletesTheAsked`, for any number of profiles and of requests under way. For the
  second, a cursor before the rows is there since the table was empty (`RowTrue`).
  `ShowsTheServer` speaks of a page at rest only; what is inductive says why it will be
  true then. A listing read after the last change is the server's (`ListingsTrue`), and a
  page that is not up to date has such a listing, a request for one or a change whose
  answer asks for one under way (`PageTrue`). `PromptTrue` keeps the selection under a
  prompt.
* `ConfigPageProofs`: `PartsFit`, `AnswersShowTheKernel`, `EditsOneField` and
  `OnlyMovingLosesTheLabel`, for any menu, fields and values. A request that is not marked
  as old carries what the kernel runs with, but for the field that was edited
  (`Current`).
* `ProxiesPageProofs`: `PartsFit`, `AnswersShowTheKernel` and `KeysKeepTheGroup`, for any
  groups, members and heights. The rows are a concatenation of blocks, one for each
  group; which row is where, and that expanding one block moves only what
  is below it, is proved from the library's facts about `FlattenSeq`. Marks and tests of
  groups are in step (`MarksTrue`), the rest is as in ProfilesPageProofs.
* `FilesProofs`, restore: `ScopesHeld` and `ComposedAlike`, for registries of any size,
  any number of changes by others and any failures. `RInv` says what the index, the listing,
  the bundle and the entries left owe each other: ids ascend, a base is listed before what is
  scoped to it, whoever is still there is as it was listed, and a bundle holds the base of
  what it holds (`Indexed`, `Listed`, `Reading`, `Stored`, `Restoring`); the table of new ids
  is one-to-one onto what the restore created (`Renamed`). `Steady` are the bases of which
  that can be said: all while nothing was changed, then those that are scoped to nothing
  themselves, since a Delete cascades one level. For `ComposedAlike` what was restored so far
  mirrors the entries handled (`Mirrored`, `Became`, `Paired`), hence `Overlays` picks
  the counterparts of what it picked, in the same order.
* `FilesProofs`, merge: `MergedAsDocumented`, for documents of any depth, any keys and any
  number of overlays. The property speaks of an overlay that is handled; the invariant
  (`MergeInv`) of one that is half-way. Of a mapping that has been entered, that is, none of
  whose prefixes is still to be handled, it says how far each of its keys has come
  (`LevelStatus`): what is left is as the base has it, what is handled is as documented.
  Its target is the base's array between the directives obeyed so far (`AsBase`), or the
  overlay's own, replaced meanwhile, between those obeyed since (`AsOverlay`), or a mapping that
  was merged before any directive was obeyed (`AsMapping`). What keeps this true is
  the order of the recursion: the longest path comes first, so that what is further on is
  settled by the time the next key is handled, and a key changes the document only at its
  own path or at the target beside it. That no directive comes out is a consequence: at a
  level that was merged, a key that is none of the overlay's own is as the base has it.
* `FilesProofs`, active file: `ReadsComposed`, for any texts that lines can edit, secrets,
  ports and any number of starts and restarts. The file is the text that was composed or that text
  edited once (`Edited`), because editing an edited text again gives what editing the
  text gives (`EditedAgain`); and the kernel reads in an edited text what
  is in it, with the managed keys (`OneDocument`, `InjectedReads`).
* `FilesProofs`, connections page: `PartsFit`, for any connections, requests and ticks.
* `FilesProofs`, filtering: what `Filter` does to concatenations, orders, subsets and
  itself, lemmas that the parts on restore and active file rest on.

* `FilesProofs`, proxy: `ProxyTypes`, `KernelReached` and `GateOpens`, for any files and
  any number of starts and of crashes that leave kernels behind, and without expanding
  what a kernel makes of its file: while one is said to run, who has the address takes
  the secret of this run of the server (`Answering`, `Polled`); kernels are
  numbered, and a call under way bears that secret (`Calling`), so that the kernel it saw
  is the one that was polled or is gone. An orphan that took the address before keeps it.
* `ControlProofs`, gateway: `GatewayTypes`, `LedBack` and `StayedIn`, for any number of tabs,
  pages, passwords and restarts and any life of a session. The invariant says what an
  answer may set (`Sets`), that the cookie of the page to go back to belongs to the
  tab turned away last (`Leading`), and that whoever is in has the cookie of that login in
  the jar and no logout on its way (`Inside`), also as the requests under way carry them
  (`Carrying`). A request that came from another site is not one of a member's, as it
  carries no session.

* `FilesProofs`, geo assets: `WholeUnlessShared`, for any number of files, updates and crashes.
  Of a name that was never shared one update at most has the temporary file open, and
  that file has all blocks up to its offset (`Unshared`), so that what it renames is
  whole.

Induction is over sets: the predicate to be proved for all numbers is written as the
set of numbers for which it holds (`SetInduction`, from the library's well-founded
relations), since the library's own induction theorems take an operator.

Only model-checked: the six liveness properties (`SignalEnds`, `RequestsAnswered`,
`CrashIsRetried`, `Converges`, `ShowsTheConnections`, `LetIn`), because fairness and
`ENABLED` are beyond the prover.

## 5. What is not modelled, and what is left

Left out for now, in the order in which it would be added:

1. The mode on the Proxy tab, and the Logs tab (a bounded list of lines with a filter).
2. The open mode, Bearer passwords and the public paths of the gate: decisions without
   state. WebSocket frames of the proxy (`bridgeWS` is not reached).

Not planned: `config/config.go` (reads the environment once), `static/static.go` (serves
files), `FetchKernel` (runs when an image is built), the installation scripts, wire
formats.
