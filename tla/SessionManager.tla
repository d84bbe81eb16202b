--------------------------- MODULE SessionManager ---------------------------
(***************************************************************************)
(* SessionManager (electron/main/providers/sessionManager.ts): the         *)
(* main-process owner of one live WorkspaceProvider per project, of each   *)
(* session's primary watch and of each local session's callback socket.    *)
(*                                                                         *)
(* The actions are the IPC handlers that call it (ipc/index.ts), the       *)
(* continuations of its awaits, and what the providers and the callback    *)
(* broker report to it.  A provider is a member of Inst, made by open()    *)
(* and never reused; only the part of LocalProvider, RemoteProvider and    *)
(* Ssh2Transport that decides WHEN a status is emitted is kept.            *)
(*                                                                         *)
(* Atomicity: one action is one macrotask of the Electron main process     *)
(* with the microtasks it drains.  Network and file-system completions     *)
(* are the interleaving points.                                            *)
(***************************************************************************)
EXTENDS ConnectionMachine, Naturals, Sequences

CONSTANTS
    Projects,        \* project ids
    LocalProjects,   \* those whose connection spec is `local`
    Inst,            \* provider instances open() may create in one process
    NoInst,          \* no provider
    NoProject,       \* the null project id
    MaxStarts,       \* bound: subscribeWatch calls in flight per provider
    MaxPending       \* bound: broker operations pending per project

ASSUME LocalAssumption == LocalProjects \subseteq Projects
ASSUME NoInstAssumption == NoInst \notin Inst
ASSUME NoProjectAssumption == NoProject \notin Projects
ASSUME BoundAssumption == MaxStarts \in Nat /\ MaxPending \in Nat

VARIABLES
    \* SessionManager's maps
    sessions,      \* p -> provider, NoInst when the map has no entry
    statusOff,     \* p -> provider whose status is forwarded
    lastState,     \* p -> last forwarded state, "none" when absent
    watchSubs,     \* p -> provider of the recorded primary watch
    activeId,      \* the active project
    persisted,     \* the active id in the project store
    \* the providers
    owner,         \* i -> its project, NoProject until open() creates it
    machine,       \* i -> state of its ConnectionMachine
    opening,       \* i -> where its connect() is suspended, or "idle"
    conn,          \* i -> Ssh2Transport.conn is set
    closing,       \* i -> its disconnect(): "no", "running" or "done"
    rebuild,       \* i -> reconnect() awaits its disconnect()
    subscribing,   \* i -> number of subscribeWatch calls in flight
    refused,       \* i -> its last subscribeWatch rejected (history)
    orphans,       \* i -> live watches of i that watchSubs lost
    \* CallbackBroker
    pending,       \* p -> operations of serialized(), the running one first
    listeners      \* p -> "none", "bound" or "disabled" (a bind failed)

sessionVars  == <<sessions, statusOff, lastState>>
watchVars    == <<watchSubs, subscribing, refused>>
selection    == <<activeId, persisted>>
providerVars == <<owner, machine, opening, conn, closing, rebuild, orphans>>
brokerVars   == <<pending, listeners>>
vars == <<sessionVars, watchVars, selection, providerVars, brokerVars>>

RemoteProjects == Projects \ LocalProjects
Providers      == Inst \cup {NoInst}
IsLocal(i)     == owner[i] \in LocalProjects

Init ==
    /\ sessions  = [p \in Projects |-> NoInst]
    /\ statusOff = [p \in Projects |-> NoInst]
    /\ lastState = [p \in Projects |-> "none"]
    /\ watchSubs = [p \in Projects |-> NoInst]
    /\ activeId = NoProject
    /\ persisted \in Projects \cup {NoProject}
    /\ owner    = [i \in Inst |-> NoProject]
    /\ machine  = [i \in Inst |-> "disconnected"]
    /\ opening  = [i \in Inst |-> "idle"]
    /\ conn     = [i \in Inst |-> FALSE]
    /\ closing  = [i \in Inst |-> "no"]
    /\ rebuild  = [i \in Inst |-> FALSE]
    /\ subscribing = [i \in Inst |-> 0]
    /\ refused  = [i \in Inst |-> FALSE]
    /\ orphans  = [i \in Inst |-> 0]
    /\ pending   = [p \in Projects |-> <<>>]
    /\ listeners = [p \in Projects |-> "none"]

-----------------------------------------------------------------------------
(* CallbackBroker.  A pending operation is "stop", "start", or "awaited":   *)
(* a start whose settling an activate() waits for through callbackReady(). *)

BrokerOps == {"start", "awaited", "stop"}

\* Mutant of StartListener: a start is dropped while anything is pending.
StartListenerDeduped(p, op) ==
    /\ pending' = [pending EXCEPT ![p] = IF @ = <<>> THEN <<op>> ELSE @]
    /\ UNCHANGED listeners

\* startLocalListener: queued behind whatever is pending.
StartListener(p, op) ==
    /\ pending' = [pending EXCEPT ![p] = Append(@, op)]
    /\ UNCHANGED listeners

\* Mutant of StopListener: a stop is not queued behind a bind in flight.
StopListenerUnqueued(p) ==
    /\ listeners' = [listeners EXCEPT ![p] = "none"]
    /\ pending' = [pending EXCEPT ![p] =
          IF @ = <<>> /\ listeners[p] = "bound" THEN <<"stop">> ELSE @]

\* stopListener: an idle project's stop takes its listener out of the map at
\* once and then closes it; a stop right behind another finds nothing to do.
StopListener(p) ==
    LET ops == pending[p] IN
    IF ops = <<>>
    THEN /\ listeners' = [listeners EXCEPT ![p] = "none"]
         /\ pending' = [pending EXCEPT
               ![p] = IF listeners[p] = "bound" THEN <<"stop">> ELSE @]
    ELSE /\ pending' = [pending EXCEPT
               ![p] = IF ops[Len(ops)] = "stop" THEN @ ELSE Append(@, "stop")]
         /\ UNCHANGED listeners

\* The listener of p once its running operation ends; bound: a bind worked.
AfterOp(p, bound) ==
    IF Head(pending[p]) = "stop" \/ listeners[p] = "bound" THEN listeners[p]
    ELSE IF bound THEN "bound" ELSE "disabled"

\* serialized: the running operation ends and the next one starts.  A stop
\* that starts removes the listener, and ends at once if there is none.
BrokerStep(p, bound) ==
    LET ops  == Tail(pending[p])
        held == AfterOp(p, bound)
        stop == ops # <<>> /\ Head(ops) = "stop"
    IN  /\ pending[p] # <<>>
        /\ pending' = [pending EXCEPT
              ![p] = IF stop /\ held # "bound" THEN Tail(ops) ELSE ops]
        /\ listeners' = [listeners EXCEPT ![p] = IF stop THEN "none" ELSE held]
        /\ IF Head(pending[p]) = "awaited"
           THEN activeId' = p /\ persisted' = p
           ELSE UNCHANGED selection
        /\ UNCHANGED <<sessionVars, watchVars, providerVars>>

-----------------------------------------------------------------------------
(* Status funnel and watch lifecycle.                                      *)

\* startWatch(p) for the session i: a local subscription is installed within
\* the step, a remote one is a request to the helper.
StartWatch(p, i) ==
    IF watchSubs[p] # NoInst
    THEN UNCHANGED watchVars
    ELSE /\ refused' = [refused EXCEPT ![i] = FALSE]
         /\ IF p \in LocalProjects
            THEN /\ watchSubs' = [watchSubs EXCEPT ![p] = i]
                 /\ UNCHANGED subscribing
            ELSE /\ subscribing' = [subscribing EXCEPT ![i] = @ + 1]
                 /\ UNCHANGED watchSubs

\* stopWatch(p), the primary watch.
StopWatch(p) ==
    /\ watchSubs' = [watchSubs EXCEPT ![p] = NoInst]
    /\ UNCHANGED <<subscribing, refused>>

\* trackCallbackStart(p): only a local session has a listener.
StartCallback(p) ==
    IF p \in LocalProjects THEN StartListener(p, "start")
    ELSE UNCHANGED brokerVars

\* Mutant of HandleStatus: the new state is stored before the edge is tested.
HandleStatusStoredFirst(p, i, s) ==
    /\ lastState' = [lastState EXCEPT ![p] = s]
    /\ IF s \in {"disconnected", "failed"} THEN StopWatch(p) /\ StopListener(p)
       ELSE UNCHANGED <<watchVars, brokerVars>>

\* handleStatus(p, s) for the session i: the watch and the listener start on
\* the edge into connected and stop on disconnected and failed.
HandleStatus(p, i, s) ==
    /\ lastState' = [lastState EXCEPT ![p] = s]
    /\ \/ /\ s = "connected" /\ lastState[p] # "connected"
          /\ StartWatch(p, i)
          /\ StartCallback(p)
       \/ /\ s \in {"disconnected", "failed"}
          /\ StopWatch(p)
          /\ StopListener(p)
       \/ /\ \/ s \in {"connecting", "reconnecting"}
             \/ s = "connected" /\ lastState[p] = "connected"
          /\ UNCHANGED <<watchVars, brokerVars>>

Unreported == UNCHANGED <<lastState, watchVars, brokerVars>>

\* The machine of i enters s; its subscriber, if any, is handleStatus.
Enter(i, s) ==
    /\ machine' = [machine EXCEPT ![i] = s]
    /\ IF statusOff[owner[i]] = i
       THEN HandleStatus(owner[i], i, s)
       ELSE Unreported

\* The machine of i is asked to enter s.
Report(i, s) ==
    IF Accepts(machine[i], s) THEN Enter(i, s)
    ELSE UNCHANGED machine /\ Unreported

-----------------------------------------------------------------------------
(* provider.disconnect().  The transport forgets its connection before its *)
(* first await.  Without one it reports `disconnected` within the step;    *)
(* otherwise the report comes when the socket has closed.                  *)

ClosesAtOnce(i) == ~IsLocal(i) /\ ~conn[i]

BeginDisconnect(i) ==
    /\ conn' = [conn EXCEPT ![i] = FALSE]
    /\ orphans' = [orphans EXCEPT ![i] = 0]
    /\ closing' = [closing EXCEPT
          ![i] = IF @ = "running" \/ ~ClosesAtOnce(i) THEN "running" ELSE "done"]

\* machine' of an evicted i, whose reports nobody receives any more.
SilentDisconnect(i) ==
    machine' = [machine EXCEPT
        ![i] = IF ClosesAtOnce(i) THEN Apply(@, "disconnected") ELSE @]

\* Mutant of Evict: the eviction leaves the callback socket alone.
EvictKeepingListener(p) ==
    /\ StopWatch(p)
    /\ lastState' = [lastState EXCEPT ![p] = "none"]
    /\ sessions'  = [sessions EXCEPT ![p] = NoInst]
    /\ statusOff' = [statusOff EXCEPT ![p] = NoInst]
    /\ UNCHANGED brokerVars

\* notifyEviction(p), sessions.delete(p) and unwireStatus(p).
Evict(p) ==
    /\ StopWatch(p)
    /\ StopListener(p)
    /\ lastState' = [lastState EXCEPT ![p] = "none"]
    /\ sessions'  = [sessions EXCEPT ![p] = NoInst]
    /\ statusOff' = [statusOff EXCEPT ![p] = NoInst]

-----------------------------------------------------------------------------
(* open() and activate().                                                  *)

\* A fresh provider takes p's place in the maps.
Register(p, i) ==
    /\ owner[i] = NoProject
    /\ owner' = [owner EXCEPT ![i] = p]
    /\ sessions'  = [sessions EXCEPT ![p] = i]
    /\ statusOff' = [statusOff EXCEPT ![p] = i]

\* open() of a local project: connected from the start, handed out once its
\* listener start has settled.
OpenLocal(p, i) ==
    /\ p \in LocalProjects
    /\ Len(pending[p]) < MaxPending
    /\ Register(p, i)
    /\ machine' = [machine EXCEPT ![i] = "connected"]
    /\ lastState' = [lastState EXCEPT ![p] = "connected"]
    /\ StartWatch(p, i)
    /\ StartListener(p, "awaited")
    /\ UNCHANGED <<selection, opening>>

\* open() of a remote project: the pushed `disconnected` stops what a former
\* session left, then connect() reports connecting and reads its configuration.
\* known is the machines' states once the caller has disconnected a former one.
OpenRemote(p, i, known) ==
    /\ p \in RemoteProjects
    /\ Register(p, i)
    /\ machine' = [known EXCEPT ![i] = "connecting"]
    /\ opening' = [opening EXCEPT ![i] = "config"]
    /\ lastState' = [lastState EXCEPT ![p] = "connecting"]
    /\ StopWatch(p)
    /\ StopListener(p)
    /\ UNCHANGED selection

\* callbackReady(p): the newest start still pending, 0 if there is none.  One
\* stop never follows another, so it is the last operation or the one before.
CallbackStart(p) ==
    LET ops == pending[p]
        n   == Len(ops)
    IN  IF n > 0 /\ ops[n] # "stop" THEN n
        ELSE IF n > 1 /\ ops[n - 1] # "stop" THEN n - 1
        ELSE 0

\* activate(p) when the session exists: at once, or with its listener start.
Reselect(p, known) ==
    /\ sessions[p] # NoInst
    /\ IF CallbackStart(p) = 0
       THEN activeId' = p /\ persisted' = p /\ UNCHANGED pending
       ELSE /\ pending' = [pending EXCEPT ![p][CallbackStart(p)] = "awaited"]
            /\ UNCHANGED selection
    /\ machine' = known
    /\ UNCHANGED <<sessionVars, watchVars, listeners, owner, opening>>

ActivateWith(p, known) ==
    \/ Reselect(p, known)
    \/ /\ sessions[p] = NoInst
       /\ \E i \in Inst : OpenLocal(p, i) \/ OpenRemote(p, i, known)

\* projectsActivate, projectsGetActive restoring the persisted project, and
\* projectsReconnect without a session.
Activate(p) ==
    /\ ActivateWith(p, machine)
    /\ UNCHANGED <<conn, closing, rebuild, orphans>>

-----------------------------------------------------------------------------
(* connect() of a remote provider: configuration, SSH handshake, helper.   *)

\* buildConnectConfig() settles: an ssh2 client is made, even if the provider
\* was disconnected meanwhile.
ConfigRead(i) ==
    /\ opening[i] = "config"
    /\ opening' = [opening EXCEPT ![i] = "handshake"]
    /\ conn' = [conn EXCEPT ![i] = TRUE]
    /\ UNCHANGED <<sessionVars, watchVars, selection, brokerVars,
                   owner, machine, closing, rebuild, orphans>>

\* `ready`: socket-up is reported as connecting, and the helper is launched.
SocketUp(i) ==
    /\ opening[i] = "handshake" /\ conn[i]
    /\ opening' = [opening EXCEPT ![i] = "provision"]
    /\ Report(i, "connecting")
    /\ UNCHANGED <<sessions, statusOff, selection,
                   owner, conn, closing, rebuild, orphans>>

\* The helper answered: connect(), open() and activate() return.
ConnectOk(i) ==
    /\ opening[i] = "provision"
    /\ subscribing[i] < MaxStarts
    /\ opening' = [opening EXCEPT ![i] = "idle"]
    /\ Report(i, "connected")
    /\ closing' = [closing EXCEPT
          ![i] = IF @ = "done" /\ Accepts(machine[i], "connected") THEN "no" ELSE @]
    /\ activeId' = owner[i] /\ persisted' = owner[i]
    /\ UNCHANGED <<sessions, statusOff, owner, conn, rebuild, orphans>>

\* connect() rejects: the machine reports failed and the catch block of open()
\* evicts the project and disconnects this provider.  A failed handshake has
\* already dropped the connection, a failed helper launch has not.
ConnectFail(i) ==
    /\ opening[i] # "idle"
    /\ opening' = [opening EXCEPT ![i] = "idle"]
    /\ machine' = [machine EXCEPT ![i] = Apply(@, "failed")]
    /\ conn' = [conn EXCEPT ![i] = FALSE]
    /\ orphans' = [orphans EXCEPT ![i] = 0]
    /\ closing' = [closing EXCEPT
          ![i] = IF @ = "running" \/ (opening[i] = "provision" /\ conn[i])
                 THEN "running" ELSE "done"]
    /\ Evict(owner[i])
    /\ UNCHANGED <<selection, owner, rebuild>>

\* The SSH connection closes under a provider that was ready.
Drop(i) ==
    /\ conn[i] /\ opening[i] # "handshake"
    /\ conn' = [conn EXCEPT ![i] = FALSE]
    /\ orphans' = [orphans EXCEPT ![i] = 0]
    /\ Report(i, "disconnected")
    /\ UNCHANGED <<sessions, statusOff, selection, owner, opening, closing, rebuild>>

-----------------------------------------------------------------------------
(* The control-mode and mux channels report through the same machine.  The *)
(* provider's disconnect() closes their managers; a mux opener still in     *)
(* flight may then reject, and reports on as if nothing had been closed.    *)

ChannelUnchanged ==
    UNCHANGED <<sessions, statusOff, selection,
                owner, opening, conn, closing, rebuild, orphans>>

\* onReconnecting
FlapDown(i) ==
    /\ owner[i] # NoProject /\ machine[i] = "connected"
    /\ Report(i, "reconnecting")
    /\ ChannelUnchanged

\* onReattached: a local provider short-circuits to connected from any state.
FlapUp(i) ==
    /\ owner[i] # NoProject /\ closing[i] = "no"
    /\ \/ IsLocal(i) /\ Len(pending[owner[i]]) < MaxPending
       \/ machine[i] = "reconnecting" /\ conn[i] /\ subscribing[i] < MaxStarts
    /\ Enter(i, "connected")
    /\ ChannelUnchanged

\* onReattachExhausted
FlapLost(i) ==
    /\ owner[i] # NoProject /\ machine[i] = "reconnecting"
    /\ Report(i, "failed")
    /\ ChannelUnchanged

-----------------------------------------------------------------------------
(* subscribeWatch settles.                                                 *)

\* Mutant of WatchReply: no check, after the await, that i is the session.
WatchReplyUnchecked(i) ==
    /\ subscribing[i] > 0 /\ conn[i] /\ closing[i] = "no"
    /\ subscribing' = [subscribing EXCEPT ![i] = @ - 1]
    /\ watchSubs' = [watchSubs EXCEPT ![owner[i]] = i]
    /\ UNCHANGED <<sessionVars, refused, selection, brokerVars, providerVars>>

\* The continuation of startWatch records the subscription, over whatever is
\* recorded, unless i is no longer the session.
WatchReply(i) ==
    LET p == owner[i] IN
    /\ subscribing[i] > 0
    /\ conn[i] /\ closing[i] = "no"
    /\ subscribing' = [subscribing EXCEPT ![i] = @ - 1]
    /\ IF sessions[p] = i
       THEN /\ watchSubs' = [watchSubs EXCEPT ![p] = i]
            /\ orphans' = [orphans EXCEPT ![i] = IF watchSubs[p] = i THEN @ + 1 ELSE @]
       ELSE UNCHANGED <<watchSubs, orphans>>
    /\ UNCHANGED <<sessionVars, refused, selection, brokerVars,
                   owner, machine, opening, conn, closing, rebuild>>

\* It rejects: the watch is best-effort.
WatchFail(i) ==
    /\ subscribing[i] > 0
    /\ subscribing' = [subscribing EXCEPT ![i] = @ - 1]
    /\ refused' = [refused EXCEPT ![i] = TRUE]
    /\ UNCHANGED <<sessionVars, watchSubs, selection, providerVars, brokerVars>>

-----------------------------------------------------------------------------
(* Ending a session.                                                       *)

\* projectsDisconnect: the session stays in the map.  The status bar offers it
\* once a remote session has been reported connected.
Disconnect(p) ==
    LET i == sessions[p] IN
    /\ p \in RemoteProjects /\ i # NoInst /\ lastState[p] # "connecting"
    /\ BeginDisconnect(i)
    /\ IF ClosesAtOnce(i) THEN Report(i, "disconnected")
       ELSE UNCHANGED machine /\ Unreported
    /\ UNCHANGED <<sessions, statusOff, selection, owner, opening, rebuild>>

\* close(p): project removal, a changed connection spec, and the idle reaper.
Close(p) ==
    LET i == sessions[p] IN
    /\ i # NoInst
    /\ Evict(p)
    /\ BeginDisconnect(i)
    /\ SilentDisconnect(i)
    /\ IF activeId = p
       THEN activeId' = NoProject /\ persisted' = NoProject
       ELSE UNCHANGED selection
    /\ UNCHANGED <<owner, opening, rebuild>>

\* projectsReconnect, offered while the project is shown as disconnected or
\* failed (or is about to be shown as connecting): evict, disconnect, activate.
Reconnect(p) ==
    LET i == sessions[p] IN
    /\ p \in RemoteProjects /\ i # NoInst
    /\ lastState[p] \in {"disconnected", "failed", "connecting"}
    /\ BeginDisconnect(i)
    /\ IF ClosesAtOnce(i)
       THEN /\ \E j \in Inst : OpenRemote(p, j,
                   [machine EXCEPT ![i] = Apply(@, "disconnected")])
            /\ UNCHANGED rebuild
       ELSE /\ Evict(p)
            /\ rebuild' = [rebuild EXCEPT ![i] = TRUE]
            /\ UNCHANGED <<machine, owner, opening, selection>>

\* A provider's disconnect() ends; a reconnect() that awaited it goes on.
FinishDisconnect(i) ==
    LET known == [machine EXCEPT ![i] = Apply(@, "disconnected")] IN
        /\ closing[i] = "running"
        /\ closing' = [closing EXCEPT ![i] = "done"]
        /\ rebuild' = [rebuild EXCEPT ![i] = FALSE]
        /\ UNCHANGED <<conn, orphans>>
        /\ IF rebuild[i] THEN ActivateWith(owner[i], known)
           ELSE /\ IF IsLocal(i) THEN UNCHANGED machine /\ Unreported
                   ELSE Report(i, "disconnected")
                /\ UNCHANGED <<sessions, statusOff, selection, owner, opening>>

\* will-quit and the next start: only the project store survives.
Restart ==
    /\ persisted' = persisted
    /\ sessions'  = [p \in Projects |-> NoInst]
    /\ statusOff' = [p \in Projects |-> NoInst]
    /\ lastState' = [p \in Projects |-> "none"]
    /\ watchSubs' = [p \in Projects |-> NoInst]
    /\ activeId' = NoProject
    /\ owner'    = [i \in Inst |-> NoProject]
    /\ machine'  = [i \in Inst |-> "disconnected"]
    /\ opening'  = [i \in Inst |-> "idle"]
    /\ conn'     = [i \in Inst |-> FALSE]
    /\ closing'  = [i \in Inst |-> "no"]
    /\ rebuild'  = [i \in Inst |-> FALSE]
    /\ subscribing' = [i \in Inst |-> 0]
    /\ refused'  = [i \in Inst |-> FALSE]
    /\ orphans'  = [i \in Inst |-> 0]
    /\ pending'   = [p \in Projects |-> <<>>]
    /\ listeners' = [p \in Projects |-> "none"]

-----------------------------------------------------------------------------
ProviderStep(i) ==
    \/ ConfigRead(i) \/ SocketUp(i) \/ ConnectOk(i) \/ ConnectFail(i)
    \/ Drop(i) \/ FlapDown(i) \/ FlapUp(i) \/ FlapLost(i)
    \/ WatchReply(i) \/ WatchFail(i)
    \/ FinishDisconnect(i)

Next ==
    \/ \E p \in Projects : \/ Activate(p) \/ Disconnect(p) \/ Close(p) \/ Reconnect(p)
                          \/ \E bound \in BOOLEAN : BrokerStep(p, bound)
    \/ \E i \in Inst : ProviderStep(i)
    \/ Restart

Spec == Init /\ [][Next]_vars

\* Binding or closing a socket file always ends.
BrokerFairness ==
    \A p \in Projects : WF_vars(\E bound \in BOOLEAN : BrokerStep(p, bound))

FairSpec == Spec /\ BrokerFairness

-----------------------------------------------------------------------------
(* Properties.                                                             *)

SessionStates == ConnStates \cup {"none"}

\* Every variable keeps the type of the field it stands for.
TypeOK ==
    /\ sessions  \in [Projects -> Providers]
    /\ statusOff \in [Projects -> Providers]
    /\ watchSubs \in [Projects -> Providers]
    /\ lastState \in [Projects -> SessionStates]
    /\ activeId \in Projects \cup {NoProject}
    /\ persisted \in Projects \cup {NoProject}
    /\ owner    \in [Inst -> Projects \cup {NoProject}]
    /\ machine  \in [Inst -> ConnStates]
    /\ opening  \in [Inst -> {"idle", "config", "handshake", "provision"}]
    /\ conn     \in [Inst -> BOOLEAN]
    /\ closing  \in [Inst -> {"no", "running", "done"}]
    /\ rebuild  \in [Inst -> BOOLEAN]
    /\ subscribing \in [Inst -> Nat]
    /\ refused  \in [Inst -> BOOLEAN]
    /\ orphans  \in [Inst -> Nat]
    /\ pending   \in [Projects -> Seq(BrokerOps)]
    /\ listeners \in [Projects -> {"none", "bound", "disabled"}]

\* The five maps of the class never drift apart.  Whatever order eviction,
\* late connects and late subscribe replies come in: the forwarded status, the
\* last state and the recorded watch all belong to the provider in the map,
\* and a project without a provider keeps none of them (the symmetric
\* teardown of notifyEviction, and startWatch's check after its await).
RecordsAgree ==
    \A p \in Projects :
        LET i == sessions[p] IN
        /\ statusOff[p] = i
        /\ watchSubs[p] \in {NoInst, i}
        /\ IF i = NoInst THEN lastState[p] = "none"
           ELSE owner[i] = p /\ lastState[p] = machine[i]

\* A connected session is watched, is being subscribed, or was refused: no
\* sequence of flaps and teardowns leaves it connected and silently unwatched
\* (the edge gate of handleStatus never swallows a needed start).
ConnectedIsWatched ==
    \A p \in Projects :
        LET i == sessions[p] IN
        i # NoInst /\ machine[i] = "connected" =>
            watchSubs[p] = i \/ subscribing[i] > 0 \/ refused[i]

\* A session the user disconnected, or whose connection closed, keeps no
\* watch, although subscriptions may still have been in flight.
DisconnectedIsUnwatched ==
    \A p \in Projects : lastState[p] = "disconnected" => watchSubs[p] = NoInst

\* The watch feed follows the status of its session both ways, whatever the
\* order of flaps, teardowns and late subscribe replies (handleStatus).
WatchFollowsStatus == ConnectedIsWatched /\ DisconnectedIsUnwatched

\* The last operation asked of the broker for p, which decides how things end.
Stopping(p) ==
    IF pending[p] = <<>> THEN listeners[p] = "none"
    ELSE pending[p][Len(pending[p])] = "stop"

\* A callback socket is served only for a session that is up: otherwise it is
\* gone, or its stop is queued last, behind any bind still in flight.
ListenerOwned ==
    \A p \in Projects :
        lastState[p] \in {"none", "disconnected", "failed"} => Stopping(p)

\* The converse: a local session that is up has its listener once the queue
\* is idle, unless its bind failed; a stop left by a former session or state
\* never takes down the newer listener.
ListenerServes ==
    \A p \in LocalProjects :
        lastState[p] \in {"connected", "reconnecting"} => ~Stopping(p)

\* ConnectionMachine: a local project is never reported disconnected, through
\* a mux outage, its recovery or its teardown.
LocalNeverDisconnected ==
    \A i \in Inst : IsLocal(i) => machine[i] # "disconnected"

\* Once a project has no session its socket goes away, even when a bind was
\* still in flight at the eviction, unless a new session takes over.
OrphanListenerCloses ==
    \A p \in Projects :
        sessions[p] = NoInst ~> listeners[p] # "bound" \/ sessions[p] # NoInst

-----------------------------------------------------------------------------
(* What the invariants above rest on.                                      *)

\* A provider nobody created is idle.
FreshIsIdle ==
    \A i \in Inst : owner[i] = NoProject =>
        /\ opening[i] = "idle" /\ ~conn[i] /\ closing[i] = "no"
        /\ ~rebuild[i] /\ subscribing[i] = 0

\* reconnect() awaits the disconnect() of a remote provider it has evicted.
RebuildsEvicted ==
    \A i \in Inst : rebuild[i] =>
        owner[i] \in RemoteProjects /\ sessions[owner[i]] # i

\* connect() of a local provider never suspends and opens no connection.
LocalIsIdle ==
    \A i \in Inst : IsLocal(i) => opening[i] = "idle" /\ ~conn[i]

\* A running stop has already taken its listener out of the map.
RunningStopHoldsNone ==
    \A p \in Projects :
        pending[p] # <<>> /\ Head(pending[p]) = "stop" => listeners[p] = "none"

\* The inductive invariant: every safety property proved of this module
\* follows from it.
IInv ==
    /\ TypeOK /\ FreshIsIdle /\ RebuildsEvicted /\ LocalIsIdle
    /\ RecordsAgree /\ LocalNeverDisconnected
    /\ RunningStopHoldsNone /\ ListenerOwned /\ ListenerServes

\* A provider that has a connection, or is about to have its first, has left
\* `disconnected` unless its disconnect() was called: a subscribe reply that is
\* still accepted finds its session up.
OpenUnlessClosed ==
    \A i \in Inst :
        /\ opening[i] = "config" => ~conn[i]
        /\ closing[i] = "no" /\ (conn[i] \/ opening[i] = "config")
             => machine[i] # "disconnected"

-----------------------------------------------------------------------------
(* What comments of the source promise, and the code does not keep.         *)

\* sessionManager.ts:113: "At most one live watch exists per session at a
\* time."  The edge into connected is taken again after a flap, while the
\* first subscribe is still in flight; both replies install.
OneWatchPerSession == \A i \in Inst : orphans[i] = 0

\* sessionManager.ts:2: it "owns one live WorkspaceProvider per project".  A
\* provider evicted while it connects may come up later, outside the map.
OneLiveProvider ==
    \A i \in Inst :
        machine[i] = "connected" /\ conn[i] => sessions[owner[i]] = i

\* sessionManager.ts:6: "A session ends only by explicit close() or idle
\* age-out."  A connect that fails late evicts whatever provider now holds its
\* project, a connected one included, and leaves that one running.
ConnectedEndsByOwnClosing ==
    [][\A p \in Projects :
         LET i == sessions[p] IN
         i # NoInst /\ machine[i] = "connected" /\ sessions'[p] # i =>
             closing'[i] # "no" \/ owner'[i] = NoProject]_vars

=============================================================================
