# A specification of agent_cockpit

agent_cockpit is an Electron desktop application that shows many projects, local
and over SSH, side by side: their files, changes, notes and terminals. This
directory holds TLA+ models of the parts of it whose correctness depends on the
order in which things happen, the TLC configurations that check them on small
instances, and TLAPS proofs for every instance.

Paths below are relative to the repository; `main/` is `electron/main/`.

* Section 1: the parts of the system and what makes them correct.
* Section 2: the modules, the runs and how to read them.
* Sections 3 to 11: one component each.
* Section 12: what the code does that its comments say it does not.
* Section 13: what is proved, what is only checked, what is not modelled.

## 1. Inventory

| part | state it keeps | operations | what makes it hard |
|---|---|---|---|
| **SessionManager** `main/providers/sessionManager.ts` | one provider per project, status subscription, last state, primary watch, extra worktree watch, active id, activity clock, listener starts | `open`, `activate`, `disconnect`, `reconnect`, `close`, `closeAll`, `setActiveWorktree`, `handleStatus` | every operation awaits a provider; the maps may have changed by the time it goes on |
| **ConnectionMachine** `main/providers/connectionMachine.ts` | state of one connection | `toConnecting` ... `toDisconnected`, `shortCircuitConnected` | illegal intents are dropped silently; four reporters share one machine |
| **CallbackBroker** `main/callback/broker.ts`, `listener.ts`, `limiter.ts`, `classify.ts` | per-project queue of start/stop, bound listeners, rate limiters | `startLocalListener`, `stopListener`, `handle` | a bind in flight when the session ends |
| **LocalProvider / RemoteProvider / Ssh2Transport** `main/providers/{local,remote}/index.ts`, `remote/transport.ts` | machine, SSH client, helper, channel managers | `connect`, `disconnect`, status hooks | `disconnect()` during each await of `connect()` |
| **HelperRpcClient** `main/providers/remote/rpcClient.ts`, `src/shared/wire/frame.ts` | pending calls, subscriptions, frame decoder | `call`, `subscribe`, `handleChannelDead` | stream death, timeouts, replies that come late |
| **RemoteTmuxControlManager** `main/providers/remote/tmuxControl.ts` | channel, single-flight attach, backoff, pending replies, epoch | `open`, `close`, `command`, reattach, watchdog | a late close of an old channel; close/open during an attach |
| **RemoteMuxConnectionManager** `main/providers/remote/muxConnection.ts`, `muxClient.ts` | channel, generation, single-flight open, backoff | `open`, `close`, reattach | the same, with generations |
| **RemoteMuxTerminalManager** `main/providers/remote/muxTerminal.ts` | terminals by key, detached and retired keys, polls | open, close, resize, poll, rehydrate, reattach, finalize | each await may end in another epoch or generation of the key |
| **SessionReaper** `main/providers/sessionReaper.ts` | none of its own | one sweep | each `close()` is awaited inside the sweep |
| **remote-helper** (Go) `remote-helper/` | request queue, watches, callback services | RPC server on stdio, fs watch, callback listener | goroutines, queue limits, one writer, predecessors that end late |
| **cockpit-mux daemon** (Go) `cockpit-mux/` | panes, attachments, streams, topology | attach, input, resize, persist, live upgrade, recovery | crash between two commits, two daemons during an upgrade |
| **cockpit-mux persistence** `cockpit-mux/persistence`, `daemon/recorder.go` | keyframes, tails, history.db | record, flush, configure, recover | three goroutines and a successor write one record |
| **Application store** `main/store/` | SQLite projects, settings, notes | CRUD, migrations | synchronous transactions |
| **IPC layer** `main/ipc/index.ts`, `main/providers/diffCache.ts` | per-project caches of managers and disposers, diff bundles | one handler per channel | caches keyed by project outlive providers |
| **Watch policy** `main/watch/ingest.ts`, `src/shared/watch/` | settle timers, dirty sets | coalescing of file events | one timer per key |
| **tmux parser** `src/shared/tmux/` | half a line, open reply block | `feed` | chunk boundaries |
| **Renderer control session** `src/renderer/tmux/` | epochs, reinit, tabs | acquire, reinit, retry, teardown | channel lost half way; epochs that restart at 1 |
| **Renderer data sync and stores** `src/renderer/workspace/`, `src/renderer/*/*Store.ts` | slices per project | refresh, follow selection | stale replies, coalesced refreshes |
| **Viewers, layout, settings UI** `src/renderer/content/`, ... | view state | rendering | pure functions and layout |

### How the parts interact

The renderer calls the IPC layer; the IPC layer calls `SessionManager`, which
creates a provider through the registry. A provider owns one
`ConnectionMachine`, and up to four reporters drive it: the SSH transport, the
connect sequence itself, the tmux control manager and the mux connection manager.
The machine's single subscriber is `SessionManager.handleStatus`, which starts
and stops the session's watch and its callback listener on state edges and
forwards the status to the renderer. `SessionManager` tells the IPC layer of an
eviction so that it drops its own caches. A remote provider talks to the helper
over one SSH exec channel (framed RPC), to tmux over another (control mode), and
to the mux daemon over a third. The daemon outlives the application; it is
replaced by a newer build while its shells run on.

### What makes each part correct

* Session layer: the maps agree; a connected session has its watch; one that
  ended has none; the callback socket is served exactly while a local session is
  up.
* Channel managers: at most one live channel; a reply settles the command it
  answers; the announced epoch belongs to the live channel; a manager that is
  wanted is open, retrying, or has said it gave up.
* Terminals: the view shows a stream without gap or repetition; a key has one
  daemon pane; the end comes after the last byte.
* Daemon: the catalog on disk and the memory agree whenever a crash comes;
  selections last and tabs keep their order.
* Upgrade: one reader per PTY, no byte lost, no pane hung up, nothing stuck.
* Persistence: a crash recovers an unbroken beginning of the output; what the
  user had erased stays erased.
* Callback path: a CLI hears the answer to its own request; the newest listener
  holds the socket path; a hanging method holds up no answer.
* Renderer: once nothing is under way the tabs are tmux's windows, the panel is
  that of the selected worktree, and the extra watch is on it.

## 2. Modules and runs

| module | models | composes with | proofs |
|---|---|---|---|
| `ConnectionMachine` | legal edges and their guard | used by the next two | |
| `SessionManager` | sessions, providers' lifecycle, watches, callback queue | `ConnectionMachine` | `SessionManagerProofs` |
| `ControlChannel` | the tmux control channel manager | `ConnectionMachine`, implements `EpochChannel` | `ControlChannelProofs` |
| `EpochChannel` | what a channel manager promises (abstract) | | |
| `MuxConnection` | the mux channel manager | | `MuxHandoffProofs` |
| `MuxTerminal` | one terminal key over that channel, and its daemon panes | | `MuxTerminalProofs` |
| `MuxTopology` | the daemon's topology and its catalog, across crashes | | `MuxTopologyProofs` |
| `MuxRecorder` | what of one pane outlives its daemon | | `MuxRecorderProofs` |
| `MuxHandoff` | the live upgrade of the daemon, both processes | | `MuxHandoffProofs` |
| `HelperRpc` | the callback path of a remote project: application, helpers, CLIs | | `HelperRpcProofs` |
| `ControlReinit` | the renderer catching up with a control channel's epochs | | `ControlReinitProofs` |
| `WorktreeSync` | selection, changes panel and extra watch of a project | | `SessionManagerProofs` |

`MC*` modules hold the symmetry sets and initial values a `.cfg` cannot write.
Names of variables and actions are those of the source where TLA+ allows it. An
operator commented as a mutant is a plausible mistake in the definition it names;
no module uses it.

| run | module | properties | distinct states |
|---|---|---|---|
| `Session` | `MCSessionManager` | `RecordsAgree`, `WatchFollowsStatus`, `ListenerOwned`, `ListenerServes`, `OrphanListenerCloses` | 1,031,273 |
| `BugOneWatchPerSession` | `MCSessionManager` | `OneWatchPerSession`, expected to fail | |
| `ControlSync` | `MCControlChannel` | `OneLiveChannel`, `RepliesMatch`, `KeepsPromise` | 83,814 |
| `ControlAsync` | `MCControlChannel` | `Recovering`, `Recovers` | 39,244 |
| `Mux` | `MCMuxConnection` | `NoStaleInstall`, `Recovers` | 29,846 |
| `MuxTerm` | `MuxTerminal` | `StreamContinuous`, `OneDaemonPane`, `DrainedBeforeEnd`, `ClosedOnlyByUser`, `ScreenCatchesUp` | 722,193 |
| `Topology` | `MCMuxTopology` | `Consistent`, `SelectionDurable`, `OrderKept`, `ClosingSelectsNeighbour` | 128,763 |
| `Recorder` | `MuxRecorder` | `RecoveredIsPrefix`, `StoreAccepts`, `ErasedWhenOff`, `SeedBarrier`, `BecomesDurable` | 747,577 |
| `Handoff` | `MuxHandoff` | `OneReader`, `NothingElseLost`, `UpgradeKeepsPanes`, `MarkerNotAhead`, `NothingStuck` | 2,926,000 |
| `Helper` | `HelperRpc` | `OwnAnswer`, `NewestHoldsPath`, `NotHeldUp` | 727,403 |
| `Reinit` | `MCControlReinit` | `SettledShowsTmux`, `OneOfEach`, `Converges` | 948,244 |
| `Worktree` | `MCWorktreeSync` | `PanelCoherent`, `RefreshReflected`, `WatchFollowsSelection` | 3,505,320 |

Every bound is a constant that only disables what would create more (another
provider, channel, chunk, fault); within it every order of steps is explored.
Deadlock is checked for `Session`, `ControlSync`, `ControlAsync` and `Mux`, whose
systems never stop; in the others a state with the bounds used up and nothing
under way is an end.

What is left to do, most valuable first: `MuxTerminal` with two keys and the
operations on windows; the watch tokens of `HelperRpcClient` as an abstract
"every call settles once"; the local managers, which share the shape of the
remote ones; the session reaper with its clock; the proof that the order of windows
survives a recovery.

## 3. The session layer

`ConnectionMachine.tla` is the legal edge set and its guard. `SessionManager.tla`
is the session layer: the maps of `SessionManager`, the part of the providers
that decides when a status is emitted, and the broker's queue.

| variable | code |
|---|---|
| `sessions`, `statusOff`, `lastState`, `watchSubs`, `activeId` | the fields of the same names |
| `persisted` | the active project id in the project store |
| `machine`, `opening`, `conn`, `closing` | state of a provider's machine; the await its `connect()` is at; `Ssh2Transport.conn`; progress of its `disconnect()` |
| `rebuild` | a `reconnect()` is waiting for this provider's `disconnect()` |
| `subscribing`, `refused`, `orphans` | `subscribeWatch` calls in flight, whether the last was rejected (history), and live watches that the map no longer records |
| `pending`, `listeners` | `CallbackBroker.pending` as a queue; `CallbackBroker.listeners` |

A provider is a member of `Inst`; `open()` takes an unused one and none is used
twice, so a late continuation of an evicted provider is told apart from its
successor's.

`Activate`, `Disconnect`, `Close`, `Reconnect` are the IPC handlers
(`main/ipc/index.ts`). `ConfigRead`, `SocketUp`, `ConnectOk`, `ConnectFail`,
`FinishDisconnect`, `WatchReply`, `WatchFail`, `BrokerStep` are continuations of
awaits. `Drop`, `FlapDown`, `FlapUp`, `FlapLost` are what the transport and the
channel managers report. `Restart` ends the process: only the store survives.

One action is one macrotask with the microtasks it drains. The whole handler up
to its first await on the network or the file system is one step:
`handleStatus` with the watch and listener calls it makes, an eviction with both
teardowns, a `reconnect()` of a provider without a connection together with the
`open()` that follows it.

What is abstracted: why a connect fails; the helper launch beyond succeeding or
failing; the contents of watch events; the watch's own unsubscribe call (it is
best-effort and changes no map); the renderer, except that the status bar
offers Disconnect and Reconnect only in the states
`src/renderer/shell/StatusRegion.tsx` does.

**Bounds.** A local and a remote project share the process and two providers,
enough for an evicted one and its successor while continuations of both are
outstanding. Two subscribes in flight are the least with which one reply
overtakes a teardown and another installs over it. Four queued broker operations
allow a running bind, a stop behind it, a start behind that and a second stop.

**Fairness.** `OrphanListenerCloses` assumes only that a broker operation at the
head of a queue ends: binding and unlinking a socket file are local calls with a
callback that always comes. Nothing is assumed of the network, the user or the
renderer.

**Proofs.** `Spec => []IInv` for any set of projects and providers and every
bound, and from it `RecordsAgree`, `ListenerOwned`, `ListenerServes` and that a
local provider never reports `disconnected`. `IInv` adds to these what they rest
on: a provider nobody created is idle (otherwise a fresh provider could inherit a
pending continuation); a provider awaited by a `reconnect()` is remote and out of
the map; a local provider has neither a suspended connect nor a connection; a
running stop has already taken its listener out of the map. The argument is by
project: `ProjectInv(p)` is the part about `p`, and `FrameLemma` says that a step
which changes only `p`'s entries and keeps `ProjectInv(p)` keeps it for all.

`WatchFollowsStatus` needs one more fact (`OpenUnlessClosed`): a provider that has a
connection, or awaits the configuration for one, is not `disconnected` unless its
`disconnect()` was called; so a subscribe reply that is still accepted finds its
session up. It is an invariant of its own, proved relative to `IInv`.

## 4. The tmux control channel

`ControlChannel.tla` is `RemoteTmuxControlManager`: the channel it holds, the
attach in flight, the reattach backoff, the stability timer, the watchdog and the
queue that matches replies to commands.

| variable | code |
|---|---|
| `channel`, `closed`, `gaveUp`, `attempt`, `epoch`, `sawInitialBlock`, `pending` | the fields of the same names |
| `timer`, `stable` | `reattachTimer`, `stableTimer` are set |
| `at`, `mine`, `retried`, `byTimer` | the await that `attach()` is at, its local channel, whether `attachOrRetry()` is in its second round, whether the timer callback awaits it |
| `chan`, `written`, `blocks` | the channels and what crossed them: commands written, reply blocks received |
| `status` | what the hooks made of the connection status, starting from `connected` |
| `wanted`, `crossed` | history: somebody counts on the channel; a reply settled another command |

A reply block answers commands of its channel in order, after one block tmux
sends unasked. `pending` holds commands as channel and number, so a shift of the
correlation is visible.

`Open`, `Close`, `Command` are the methods. `OpenerOk`, `OpenerFail`,
`EnvironmentDone` continue an attach; `TimerFires`, `StableTimer`, `Unresponsive`
are timers; `Reply` and `ChannelClosed` are the channel's events. One action is a
macrotask: `attach()` up to the wait for the `set-environment` replies is one
step, and when the last of these replies arrives the attach goes on before any
other event (`EnvironmentSettled`), except that the caller that closed may open
again in the same macrotask.

**Two kinds of channel.** `SyncClose` says when a channel's close event comes after
`close()`. The comment at `tmuxControl.ts:645` and the channels of the tests deliver
it inside the call; an `ssh2` channel does so later, and may deliver data in
between. `ControlSync` runs the first, `ControlAsync` the second, with the
properties that survive it.

**Bounds.** Three channels are a lost one, its successor and a duplicate; two
attempts are enough to raise the counter, to use it up and to start afresh after
giving up; one command beyond `set-environment` is enough for a shift to hit a
wrong command. When all channels have been used the opener can only fail, which is
also what a host does that went away.

**Refinement.** `EpochChannel.tla` is what the renderer relies on: one link at a
time, each announced with the next epoch, never for nobody. `KeepsPromise` maps a
link that is up to a channel that is held and announced.

**Fairness.** `Recovers` assumes that an opener settles (launching has ssh2's own
timeouts), that `applySessionEnvironment` ends (it races a timeout), that an armed
timer fires and that a channel on which `close()` was called ends. The last is an
assumption about `ssh2`: on a dead TCP connection without keepalives the event may
never come. Nothing is assumed of replies, commands, drops or users.

**Proofs.** `Spec => []IInv` for any set of channels, any `MaxReattach` and
`MaxCommands` and both kinds of channel, hence the types, `ClosedIsQuiet`,
`PendingIsAnswerable` and `AnnouncedIsCurrent`; and `Recovering`, with an argument of
its own about who is responsible for a manager that is wanted. Under `SyncClose`:
`OneLiveChannel`, that every behaviour is one of `EpochChannel` (`Refinement`, one
lemma per abstract action and one for stuttering), and `RepliesMatch`. What makes
the invariant inductive with an immediate close: the manager holds every channel
there is (`KnowsItsChannel`); the three ways to start an attach exclude one another
(`OpensOnlyWhenDown`); and whatever is under way is wanted (`WorksForSomebody`).
For the replies it is the order of the queue (`QueueInOrder`): the entries are
consecutive commands of the channel held, beginning with the next one its blocks
have not answered.

## 5. The mux channel

`MuxConnection.tla` is `RemoteMuxConnectionManager`. It differs from the control
manager in that `close()` does not wait for an opener: it starts a generation, and
an opener of an earlier one is stale when it resolves.

| variable | code |
|---|---|
| `client`, `generation`, `closed`, `stolen`, `attempt`, `epoch` | the fields of the same names |
| `timer` | `reattachTimer` is set |
| `opener` | the opener in flight of each generation (`opening` is the current one's), and whether a caller or the timer handles its rejection |
| `link` | the channels, `MuxClient.closed` of each |
| `wanted` | history: somebody counts on the channel |

`Open`, `Close`, `TimerFires`, `OpenerOk`, `OpenerFail` are the manager's;
`ClientEnds` is `MuxClient.fail()` with its close handlers, `SessionStolen` the
daemon's notice that another client took the session.

Three generations give two stale openers beside a current one; the backoff table is
the real one. `Recovers` assumes that the timer fires and that launching the bridge
settles. The last section of `MuxHandoffProofs.tla` proves `CurrentIsOpen`, `ClosedHasNoClient` and
`NoStaleInstall` for any set of channels, any table and any number of closes. The
invariant is their conjunction with the types: a stale opener ends what it opened
in the step in which it resolves, so nothing of it has to be remembered.

## 6. Terminals over the mux channel

`MuxTerminal.tla` is one terminal key of `RemoteMuxTerminalManager` with the daemon
panes that carry it.

| variable | code |
|---|---|
| `term` | the `MuxTerminal` objects ever made for the key: session id, sequence, poll generation and timer, the await each operation is at |
| `cur`, `detached`, `retired`, `closing` | `terminals`, `detached`, `retired` at the key; a `close()` waiting for `connection.open()` |
| `wire`, `link` | requests not yet answered, in order; the channel |
| `pane` | the daemon's record: live, exited, recovered after its crash; output so far; owner |
| `screen`, `exits` | what the view was given: a seed and the chunks after it; the exit events |
| `killed`, `spent` | history: a kill has resolved; faults and calls so far |

A request is carried out and its reply handled in one step: nothing on the client
can tell when between the two the daemon did it. A drop rejects everything on the
wire, of which the daemon has carried out any number of the first. Consecutive awaits
where only a delay can happen are one.

`StreamContinuous`: what a view shows is a seed and then every later chunk, in order.
`OneDaemonPane`: the daemon never holds two panes of a key, and none once a kill has
resolved. `DrainedBeforeEnd`: when the manager decides that a pane has ended all its
output is on the screen, and an exit is told only of a pane that does not run.
`ClosedOnlyByUser`: a live or recovered pane is deleted by a close of the user's only.
`ScreenCatchesUp`: a view that stays open shows all its live pane wrote.

Two generations of the object and two panes are a stale and a current one; a drop, a
crash or a theft may come anywhere; three renderer calls open, close and open again.
`Overlap = FALSE` assumes that a rehydration does not overlap the reattach of a new
epoch nor a close the making of a Run tty (section 12). Fairness: the event loop runs
timers and continuations, the server answers, the connection manager reconnects until
it succeeds, and a connection the server closed ends.

**Proofs** hold under `~Overlap`, the same assumption as the run, for any number of
terminal objects, panes, chunks, faults and calls. They establish `StreamContinuous`,
`OneDaemonPane`, `DrainedBeforeEnd` and `ClosedOnlyByUser`. None is inductive: whether a
poll may be shown depends on what else is on the wire, and whether `create` makes a
second pane on what the daemon knew when the listing was answered. The parts of
`IInv` are, besides the types:

* `TermOK`, `DetachedOK`: an id a terminal or `detached` holds names a pane that was
  created, a recovered id a pane whose process is over; a terminal never waits for
  more than its pane wrote, and finalizes an ended pane only;
* `WireOK`: what each request says is still so of its terminal and its pane when it is
  answered (a poll or a history asks for the terminal's next chunk, an automatic
  destroy names an ended pane, a `create` finds no pane of the key);
* `OrderOK`: which two requests are never on the wire together, or not in that order.
  This is the heart of the proof: one opening, one `create`, one seed (`attach` or
  `history`) per terminal, no poll behind an inventory, no poll beside a history;
* `PollOK`: what a poll timer or a waiting continuation excludes from the wire;
* `ScreenOK`: a view is continuous and ends where its terminal goes on, unless a history
  that replaces it is on its way; a finalizing terminal shows all its pane wrote;
* `KeyOK`: `OneDaemonPane`, and what a resolved kill or a pending close excludes.

One lemma per action shows that it keeps each part; the lemmas before them say what
happens to the rest of the wire when its head is answered (`RemainRest`), when polls
are dropped from it and when a request is added (`PollSent`).

Not modelled: several keys, splits and windows, whole-session destruction, scrollback
queries, input, listings, broadcast, `closeAll`.

## 7. The daemon's topology

`MuxTopology.tla` is `Operations` (`cockpit-mux/daemon/operations.go`) over the SQLite
catalog (`persistence/store.go`): sessions, windows and panes of several projects.

`m` is the daemon's memory (panes, topology records, active session of each project,
focus pointer, id counters) and `db` the committed catalog. Every request runs under
`operations.mu`, but commits its rows one statement at a time: a handler is an
operator from `[m, db, torn, err]`, where `torn` holds the catalogs committed so far, to
another. A call either completes (`Completes`) or the daemon dies after one of its
commits (`Dies`); `Restart` recovers from that one. `Create`, `Split`, `NewWindow`,
`SelectWindow`, `SelectPane`, `ZoomPane`, `Attach`, `Destroy`, `DestroyWindow`, `Close` are the
requests, `Exit` is `watchPaneExit`, `Crash` the end of the process between calls.

`Consistent` is the agreement of memory, catalog and ids whatever the daemon was doing
when it stopped; `SelectionDurable` that a selection names a session that exists and is
on disk; `OrderKept` that no request, crash or recovery reorders surviving windows (true
for one end of the daemon, section 12); `ClosingSelectsNeighbour` the rule of
`ARCHITECTURE.md` for closing the active window.

Two projects and three panes allow two sessions of one project beside another's, or
two windows beside a split; windows 9 to 11 sort as strings in another order than as
numbers (`Lex`); one crash at any commit. `Zoomable = {}` leaves zooming out of the run;
with `{2}` it passes too. `KillFails` stays off (section 12).

**Proofs.** `Consistent` for any number of projects, panes, windows and ends of the
daemon, with failing kills too, and so `ClosingSelectsNeighbour`; `SelectionDurable` if
the daemon ends at most twice (`MaxCrash <= 2`): after a third end it is false (section
12). The invariant `IInv` says
of memory that a window is of one session, a session of one project and the focus of
its session's (`MemOK`); of the catalog that foreign keys hold and that a pane with a
keyframe is in a window of its session (`DbOK`), in every commit of a handler too, since
the daemon may die there; of both that every keyframe is of a pane held and every live
pane has one (`Agrees`). A row without a keyframe is left only by a daemon that died
inside a creation, so what is known of selections weakens with each end: at first every
selected session has a keyframe (`ActiveKeyed`), until the second end it is at least the
project's own (`ActiveRight`). Handlers are proved as they are built: one lemma for each
statement of the store, for each part that persists (`TopologyPersisted`,
`WindowsPersisted`, `ActivePersisted`) and for what a call may leave behind when it ends
(`Done`), then one per action. `ClosingSelectsNeighbour` needs of each step the
order it leaves beside the one it found: normalizing changes nothing in a record that
lists just its session's windows (`SettledSame`), and taking one window out shortens the
order at one place (`OrderedRest`), so that the index the closed window had is its
successor's (`ClosedNeighbour`).

Not modelled: content, pins, broadcast, geometry, the single-pane legacy record. Two
oddities the model does not show: `createLocked` returning an error after it has
registered the pane leaves that pane without an exit watcher; `resizeLayoutPane` always
changes the ratio of the root.

## 8. What outlives a daemon

`MuxRecorder.tla` is one pane's way to disk: `Pipeline.Pump` feeds the shadow, the primary
mirror and the archive, numbers the chunk for live clients and hands it to the
`Recorder`, which keeps a keyframe and a raw tail in `persistence.Store`.

| variable | code |
|---|---|
| `fed`, `mirrored`, `ground`, `seq`, `base` | chunks in the shadow and in the mirror; after which of them the parser was grounded; `Stream.sequence` and where this daemon's stream began |
| `pump`, `own` | the reader of the PTY; the daemon that reads it |
| `recording`, `persist`, `pending`, `tailSize` | the recorder's fields, `pending` of each daemon |
| `kf`, `tail` | the keyframe and the tail in each recovery record |
| `rows`, `lines`, `next`, `seen`, `archiving` | `history.db`, the archive's pending lines and its tracker |
| `policy`, `cfg`, `snap`, `said` | `mux.configure`: the setting, how far a change is, its snapshot, its last successful answer |

Three goroutines share the recorder: the pump under `pipeline.mu`, each daemon's
`flushLoop`, and `mux.configure` under `operations.mu`, each call under `recorder.mu`.
After a handoff the replacement records into the same store. A crash needs no
action: the properties speak of what a recovery would load in any state.

Chunks are numbered in the order the shell writes them, so a snapshot is the number of
the last chunk in it. Four chunks with a flush at two, a cap of three and a hard cap
of four reach every branch of `nextSize`; a failed transaction, two policy changes and
a handoff come anywhere. `BecomesDurable` assumes that the pump, `configure` and the
reading daemon's flush loop go on.

**Proofs** hold under `AllOrNothing == ~Mishaps /\ (Mirror => MaxFault = 0)`, the same
assumption as the run: a policy change meets a quiet pane, and a write reaches
every recovery record or none (section 12 says what happens otherwise). For any
sizes with `Cap <= HardCap <= StoreCap` they establish `RecoveredIsPrefix`, `StoreAccepts`,
`ErasedWhenOff`, `SeedBarrier` and, beyond the run, that `history.db` holds the evicted
lines in order, each at most once (`HistoryOrdered`). The invariant's core is `Follows`:
the tail and then what is pending continue the keyframe chunk by chunk, to the last
one numbered if the recorder is at work; `ChunkUnderWay` says what the pump's position
tells of the counters, `WithinCap` that `tailSize` is never behind the tail, so a keyframe
comes before the store's limit, and `SeedCurrent` what a client that attached earlier
still has to see.

Not modelled: chunks over 1 MB, `archive.Record` from attach and resize, the reads of
scrollback. The forced keyframe makes a pane diagnostic-only until the next one.

## 9. The live upgrade

`MuxHandoff.tla` is an upgrade of `cockpit-mux` seen from both processes: `upgradeMux` and
`handoffChild` (`cmd/cockpit-mux/main.go`), `PrepareHandoff`, `Release`, adoption and the
readers of `attachment.go`, and the exit watcher of `operations.go`.

| variable | code |
|---|---|
| `proc`, `phase`, `child`, `tries` | where each daemon's `main` and `upgradeMux` stand; the replacement started |
| `reply`, `offer` | `HandoffResult` on the pipe; the panes of the manifest |
| `marker`, `restore` | the file `daemon-source-hash`; who has yet to rewrite it |
| `sess`, `prepared`, `todo`, `cur`, `mu` | `operations.sessions`, `handoffPrepared`, what `PrepareHandoff` has yet to pause, the watcher inside `operations.mu` |
| `att`, `open`, `has` | the PTY reader of each pane, whether its parser is inside an escape sequence, the chunks its terminal was fed |
| `born`, `exited`, `hung`, `made`, `taken` | the panes: what closed their last descriptor, chunks written and read |

A replacement may refuse, hang, panic, or acknowledge after its parent has stopped
waiting; panes are created, destroyed, exit and write throughout. `OneReader`: two
daemons never read one PTY. `NothingElseLost`: whoever reads has every byte taken from
the PTY but those a replacement read before it was reaped. `UpgradeKeepsPanes`: the
retirement of an upgraded daemon hangs up no pane while another that has not itself
handed its panes on is alive. `MarkerNotAhead`: after a failed upgrade the marker names
no daemon newer than the one that serves. `NothingStuck`: where nothing can move
unasked, mutations are accepted, no lock is held and every pane has its reader. It
stands for liveness: retries are the user's, so nothing recurs that fairness could
drive.

Two panes are one whose reader is slow to pause and another; two attempts are a
failed one and its successor, or an upgrade of the upgraded. `Nested = FALSE` assumes
that a replacement is not upgraded before its parent has read its ACK or reaped it:
both accept on one listener and with `TRUE` `OneReader` fails.

**Proofs** (under `~Nested`, for any panes, attempts and output): `IInv`, from it
`OneReader` and `MarkerNotAhead`; relative to it `Answered`, `Sighted` and `HandedOn`, from
which `NothingElseLost` and `UpgradeKeepsPanes` follow. Of two living daemons the older is
passing its panes on (`OlderPasses`) to the one it started (`AwaitsYoungest`), and a passing
daemon runs no reader (`ReadersPaused`). A replacement answers once and its parent
learns no answer it did not give (`Answered`); a daemon whose replacement has not
accepted has seen all output (`Sighted`); the living panes of a passing daemon are held
by every younger one that has adopted its descriptors (`HandedOn`). The first version
of `UpgradeKeepsPanes` only asked for some living daemon; with three attempts two
daemons can have committed when the third panics, so the proof of it failed and the
antecedent now excludes a daemon that has itself committed.

Not modelled: pause and capture of a pane are one step, so are adoption and marker;
signals and the end of the owner during an upgrade, a crash of the parent, which
client owns a pane.

## 10. The callback path of a remote project

`HelperRpc.tla`: `cockpit` CLIs on the host connect to the socket of the project's
`remote-helper`, which forwards each request as an event over its RPC stream; the
application answers with a `callback.reply` request.

| variable | code |
|---|---|
| `client`, `bridge`, `reported`, `calls` | `HelperRpcClient` of each helper, the callback bridge, helpers whose handshake was answered |
| `wire`, `ended`, `out` | the stream in both directions; `out` is the pipe and, behind it, the frames of blocked writers |
| `proc`, `queue`, `work` | the helper process, `requestQueue`, what its one worker runs |
| `cb`, `svc`, `path`, `events` | the installed callback service, all services, the one the socket path names, their backlogs |
| `conn` | connections: where `forward` stands, number, reply, answer |

`Launch`, `Call`, `Dispatch`, `Disconnect`, `LinkLost` are the application's; `Boot`, `Read`,
`Eof` the reader's; `Take`, `Slow`, `Bind`, `Install`, `Disabled` the worker's; `Connect`, `Ask`,
`WriteEvent`, `Answered`, `TimesOut`, `Finish`, `GraceOver` a service's; `QueueClosed`, `WorkerDone`,
`Exit` end the process. Helpers are launched one after another but their ends are
noticed late or never, so several live at once and bind one path.

`MaxActors` bounds helpers and connections together: two helpers with one CLI, or one
helper with two. A pipe and a backlog of one frame make every writer block.
`NotHeldUp` assumes that the application reads, the reader reads and connections have
their timers; nothing is assumed of the worker, which may hang for good, nor that a
host notices a lost link.

**Proofs**, for any numbers and capacities. `NewestHoldsPath` from `ServicesInOrder`
(services are bound in order; one that is open is installed, or is the newest of a
helper about to install it) and `FinishedIsClosed` (a helper past its worker's end has
none). `OwnAnswer` from `NumbersUnique` (a helper gives a number once, across its services:
the number is at most the count of those given) and `NothingConfused` (what travels
either way under a number is about the request it was given to): the waiting
connection a reply finds is then the one it was written for.

Not modelled: settlement of pending calls, the watch manager, the CLI's own deadline,
malformed frames, `kill -9`. A service whose bind fails leaks its writer goroutine.

## 11. The renderer

### Catching up with tmux

`ControlReinit.tla` is `src/renderer/tmux/controlSession.ts` with the view of `tmuxStore.ts`,
for one project: an epoch the renderer has not initialized starts a reinit, which puts
the reserved windows in order, lists windows and layouts and is retried when it cannot
read. `windows` is tmux; `link`, `epoch`, `connected` the main process; `shown` the view;
`ctl` the module's `channelEpoch`, `initializedEpoch`, `reinitInFlight`, retry; `runs` the
reinits under way, stale ones included; `asked`, `opening` calls of `tmuxControl.open`.

`SettledShowsTmux`: with nothing under way the tabs are the session's windows. `OneOfEach`:
there is one persistent window and at most one run tty. `Converges`: the project on the
screen gets initialized for its channel, or the retries are used up. Initial sessions
are a new one, one in order and one that reconnects have cluttered. Retries are
bounded by 2 (15 in the code); two reinits, opens and epochs are a current one and
its predecessor. Fairness: each reinit's commands are answered or rejected, the retry
timer fires, an open settles. A rejected command may also wait for the next channel,
which is more than the code does.

`LateReplies = FALSE` assumes that a teardown does not meet a reinit half way (section
12). Left out: which window is selected, the Run panel's own window, client size,
panes.

A plan is what is left of a `ReconcilePlan`: the spare holders and run ttys still to
kill, the rename, the windows still to create; `Executes` takes the next command and
`Left` the rest, in the code's order. `SessionsAssumption`: a session starts with a
window (`new-session`), and one with two run ttys has a holder: every reconcile makes the
holder before a run tty (`toCreate`, `controlSession.ts:141`) and kills only spare holders.
The Run panel makes `run-1` on demand where it sees none, after `whenReady`; two of them
from two instances in a session no reconcile has yet put in order are outside the
assumption. There a plan's kill could be of the last window, which ends the session.

Proofs (`ControlReinitProofs`): the invariant follows a reinit through its stages. While
it mutates, what is left of its plan `Fits`: carried out on the windows as they now are,
whatever the user has opened and closed since they were listed, it leaves one holder and
at most one run tty. After it the windows are `InOrder`; after the names the tabs have
them (`SameNames`), after the layouts every one is laid out (`AllLaid`); `DoneOK` keeps
the three for the channel that was initialized. That the reinit of another channel cannot
spoil this is `FlightOK` (while connected only the reinit in flight runs) with `EpochOK`
(the number of a new channel is above that of every reinit under way; those of the next
manager start at 1, when nothing runs). `Going` (a channel is initialized, or a retry or
a reinit is due) gives the rest: with nothing under way the channel is initialized.

### The selected worktree

`WorktreeSync.tla` is what follows the selection on both sides of IPC: `worktreeStore`,
`panelDataSync`, the refresh coordinator of `changesStore`, and
`SessionManager.setActiveWorktree`.

| variable | code |
|---|---|
| `active`, `changes`, `lists`, `believes` | the selection; the slice with its run, pending flag, target and what it shows; `listWorktrees` in flight; the status seen |
| `toMain` | `setActiveWorktree` calls on their way |
| `entry`, `seq`, `calls`, `stops`, `extraOrphans` | `worktreeWatchSubs`, `worktreeWatchSeq`, calls that await, teardowns, watches the map has lost |
| `session`, `phase`, `primary` | the project's session and its watch |
| `now`, `extraRefused`, `served` | state of the repository; history |

The coordinator's generation and lifecycle counters are only compared for equality:
a run carries whether they changed since it started (`fresh`). `wanted` is the state of
the repository at the last request for a refresh.

Two external worktrees and the root, three selections or events, two changes of the
repository, two sessions: a stale run, its successor and a coalesced third.
`Spans = FALSE` assumes that what a session has begun ends before the next is up, as it
does over SSH.

**Proofs.** `PanelCoherent` and `RefreshReflected` without that assumption, from `Sound`: a
stale run has a successor unless nothing is selected, what is shown is the
selection's unless a run is to follow, and a run nobody asked to repeat reads after the
last request. `WatchFollowsSelection` under `~Spans`, from `ToldLast` (the selection is the
last thing said), `CallsOwn`, `EntryOwn` (a session starts with nothing left of the one
before) and `CallFollows` (the current call, or what it left, is for the selection).

Not modelled: removal of a project, other stores, `beadsStore.load`, a late
`.then(refresh)` that recreates an evicted slice.

## 12. Where comments and code part

`BugOneWatchPerSession` expects a violation of `sessionManager.ts:113` "At most one live
watch exists per session at a time": a flap while `subscribeWatch` is in flight starts a
second one, and the second reply overwrites the first.

The following definitions state other sentences of the source that the models
refute. They have no run; where a fault switch is named, the run of the component
assumes it off and TLC finds the counterexample with it on.

| definition | what happens |
|---|---|
| `SessionManager!OneLiveProvider` | `sessionManager.ts:2`: a provider closed while it awaits `buildConnectConfig` connects later, outside the map |
| `SessionManager!ConnectedEndsByOwnClosing` | `sessionManager.ts:6`: the late failure of an evicted provider's connect evicts its successor |
| `ControlChannel!OneLiveChannel`, `RepliesMatch` with `SyncClose = FALSE` | `tmuxControl.ts:206`, `:199`: the late close event of a closed channel disowns its successor and a third is opened; a block a closed channel still delivers counts as the initial one of the next |
| `MuxConnection!OneLiveClient` | `muxConnection.ts:9`: `open()` during the backoff leaves the timer armed; when it fires a second channel replaces the first, which nobody closes |
| `MuxTopology!SelectionSurvives`, `ClosedLeavesNothing` | `ARCHITECTURE.md`, `process-lifecycle.md`: a recovered session's selection may differ; a session closed by the exits of its panes leaves content |
| `MuxTopology!SelectionDurable` with `MaxCrash = 3` | a row without a keyframe keeps the session of a destroyed pane and its project's selection in the catalog; `observeRecoveredIdentifiers` (`operations.go:1679`, "prevents a post-restart create from reusing an existing catalog identity") sees panes with keyframes only, another project reuses the id, and `loadActiveLogicalSessionsLocked` (`:1989`) does not ask whose session it is: after the next restart a selection names another project's session |
| `MuxTopology!OrderKept` with `MaxCrash = 2` | a recovery leaves gaps in the stored placements when a row of a lower placement has no window any more, and rewrites none of them; attaching a recovered pane then stores its position in memory (`windowPlacementIndexLocked`, `operations.go:2237`), which may tie with the row of the window before it; after the next end `ORDER BY session_id, idx, id` (`store.go:615`) breaks the tie by id text, where `window-10` is before `window-9` |
| `MuxTopology!OrderKept` with `KillFails = TRUE` | a failed `Terminate` in a destroy leaves the placement removed and the window listed |
| `MuxTerminal!StreamContinuous` with `Overlap = TRUE`, `ExitMeansDeleted` | a rehydration seeds from a reply of the former epoch; an exit may be reported before the deletion succeeded (`muxTerminal.ts:1111`) |
| `MuxHandoff!NothingLost` | `attachment.go:254`: a replacement counts its ACK as accepted when written (`main.go:368`), its parent may time out on it (`main.go:450`) and reap it after it has read |
| `MuxHandoff!SomeDaemonServes` | `handoff_prepare.go:57` asserts the type of `session.attachment` without the lock; a pane that exits during the capture has had it set to nil (`operations.go:424`) and the daemon panics with all its panes |
| `MuxRecorder` with `Mishaps = TRUE`, or `Mirror = TRUE` and a fault | a policy change takes its keyframe without `pipeline.mu`: a chunk fed but not recorded is in the keyframe and in the tail; a flush of the retired daemon after its successor's keyframe makes the store refuse; a record saved in one of two stores repeats chunks |
| `MuxRecorder!DisabledLeavesNothing` | `operations.go:1439`: turning persistence off clears `history.db` first (`:1459`) and disables the archives last (`attachment.go:575`) |
| `WorktreeSync!NothingSelectedNothingWatched` | `sessionManager.ts:314`: a cleared selection is compared with what is installed (`:329`) and returns early while a subscribe is in flight |
| `WorktreeSync!WatchFollowsSelection` with `Spans = TRUE` | an eviction forgets the sequence number; a call it overtakes goes on with the next session's provider |
| `HelperRpc!UndeliveredIsUnwanted` | `callback_server.go:133`: between bind and installation of a service its replies find the former one |
| `HelperRpc!StaleIsUnreachable` | `docs/requirements/terminal-callback-socket.md`: a stale predecessor that boots late binds after its successor |
| `ControlReinit` with `LateReplies = TRUE` | `controlSession.ts:813`, `:1043`: a stale reinit marks the epoch initialized, and epochs of the next manager start at 1 again |

Seen while reading and stated by no definition:

* `main/ipc/index.ts:363` "so the renderer never sees an active id without a
  backing session": a reconnect of the active project that fails evicts the
  session and keeps `activeId`.
* `sessionManager.ts:9` the watch is "stopped when it ends", on the edge into
  `failed` too: a subscribe in flight at that edge installs after it.
* `tmuxControl.ts:361`: `open()` after giving up reports nothing when it succeeds: the
  status stays `failed` over a working channel. `:645`: a reattach waits for the close
  event of a link that may be wedged.
* `muxConnection.ts:115`: an opener the timer started that rejects after `close()` arms
  the timer of a closed manager.
* `muxTerminal.ts:270`: entries of `detached` that no pane backs any more are kept;
  reopening a terminal whose pane has exited stops its poll and then fails.
* `rpcClient.ts:337`: a helper stream that dies alone leaves the machine connected.
* `controlSession.ts`: the selection of a window that closed while the channel was down
  is not cleared; a project switched away from during `restoreActiveWindow` counts as
  initialized.

## 13. Proved, checked, left out

Each proof module EXTENDS the module it is about. `MuxHandoffProofs` extends
`MuxConnection` too, whose `Init`, `Next`, `Spec` are therefore `ConnInit`, `ConnNext`,
`ConnSpec`, and `SessionManagerProofs` extends `WorktreeSync` (`SyncInit`, `SyncNext`,
`SyncSpec`). The theorems hold for every value
of the constants that satisfies the named `ASSUME`s, which the runs evaluate.
`Spec => []IInv` is proved in the usual three facts, with one lemma per action (or per
group of actions that touch one part of the invariant); the properties follow from
it. Each invariant was checked by TLC on its run's instance before it was proved.

| property of a run | theorem | under |
|---|---|---|
| `RecordsAgree`, `WatchFollowsStatus`, `ListenerOwned`, `ListenerServes` | `SessionManagerProofs` | |
| `Recovering` | `ControlChannelProofs` | |
| `OneLiveChannel`, `RepliesMatch`, `KeepsPromise` | `ControlChannelProofs` | `SyncClose` |
| `NoStaleInstall` | `MuxHandoffProofs` | |
| `RecoveredIsPrefix`, `StoreAccepts`, `ErasedWhenOff`, `SeedBarrier` | `MuxRecorderProofs` | `AllOrNothing` |
| `OneReader`, `NothingElseLost`, `UpgradeKeepsPanes`, `MarkerNotAhead` | `MuxHandoffProofs` | `~Nested` |
| `StreamContinuous`, `OneDaemonPane`, `DrainedBeforeEnd`, `ClosedOnlyByUser` | `MuxTerminalProofs` | `~Overlap` |
| `OwnAnswer`, `NewestHoldsPath` | `HelperRpcProofs` | |
| `SettledShowsTmux`, `OneOfEach` | `ControlReinitProofs` | `~LateReplies` |
| `Consistent` | `MuxTopologyProofs` | |
| `SelectionDurable` | `MuxTopologyProofs` | `MaxCrash <= 2` |
| `ClosingSelectsNeighbour` | `MuxTopologyProofs` | |
| `PanelCoherent`, `RefreshReflected` | `SessionManagerProofs` | |
| `WatchFollowsSelection` | `SessionManagerProofs` | `~Spans` |

Only model-checked:

* liveness, which TLAPS does not prove under fairness: `OrphanListenerCloses`, both
  `Recovers`, `BecomesDurable`, `NotHeldUp`, `ScreenCatchesUp`, `Converges`; and
  `NothingStuck`, which speaks of `ENABLED`;
* `OrderKept` of `MuxTopology`, true for one end of the daemon and false for two: it
  needs, of every commit, that the placements in the rows of a session continue the
  order in memory, which holds only until a recovery has left a gap in them.

Not modelled:

* No progress of `connect()` is claimed: it waits on a network and a remote host.
* `setStatusListener` re-wires open sessions; it runs once, before any session.
  `closeAll` at quit is `Restart`: the process ends whatever it was doing.
* The managers and the session layer are separate models. `SessionManager` lets a
  channel manager report an outage at any moment (`FlapDown`, `FlapUp`,
  `FlapLost`), which includes every order in which `ControlChannel` and
  `MuxConnection` produce one.
* The local tmux and mux managers, whose attach has the shape of the remote ones'.
* The parts of the inventory without a module, whose behaviour is one request and
  one answer: git and beads readers, the tmux codec, the project store, the
  watch policy, the viewers; and the session reaper, whose `close()` may come at
  any moment in `SessionManager`.
