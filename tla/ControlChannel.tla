--------------------------- MODULE ControlChannel ---------------------------
(***************************************************************************)
(* RemoteTmuxControlManager (electron/main/providers/remote/tmuxControl.ts):*)
(* one project's tmux control-mode channel, its single-flight attach, its  *)
(* bounded reattach, its watchdog and the queue that matches replies to     *)
(* commands.                                                               *)
(*                                                                         *)
(* A channel is a member of Chan, opened once.  The host answers the        *)
(* commands of a channel in order, after one unsolicited block.  An ssh2    *)
(* channel goes on delivering after close() until its `close` event;        *)
(* SyncClose says instead that close() delivers that event itself, as the   *)
(* comment at line 645 and the fake channels of the tests have it.          *)
(*                                                                         *)
(* Atomicity: one action is one macrotask with the microtasks it drains.    *)
(***************************************************************************)
EXTENDS ConnectionMachine, Naturals, Sequences

CONSTANTS
    Chan,          \* the channels the opener may open
    NoChan,        \* null
    MaxReattach,   \* MAX_REATTACH
    MaxCommands,   \* bound: commands written on one channel
    SyncClose      \* close() fires the close event within the call

ASSUME NoChanAssumption == NoChan \notin Chan
ASSUME LimitAssumption == MaxReattach \in Nat /\ MaxCommands \in Nat \ {0}
ASSUME SyncAssumption == SyncClose \in BOOLEAN

VARIABLES
    \* the channels and the host behind them
    chan,      \* c -> "free", "open", "closing" (close() was called) or "dead"
    written,   \* c -> commands written on c
    blocks,    \* c -> reply blocks of c handed to ingest(), the first unsolicited
    \* the manager
    channel,   \* this.channel
    at,        \* where the attach in flight is: "opener", "environment" or "idle"
    mine,      \* the channel of that attach, once it is open
    retried,   \* attachOrRetry() is in its second attach
    byTimer,   \* the reattach timer waits for this attach
    closed, timer, stable, gaveUp, attempt, epoch,
    sawInitialBlock,
    pending,   \* commands as <<channel, number>>, oldest first
    status,    \* the connection status its hooks have produced
    \* history
    wanted,    \* open() was called, and neither close() nor a rejection followed
    crossed    \* a reply settled a command it does not answer

hostVars    == <<chan, written, blocks>>
attachVars  == <<at, mine, retried, byTimer>>
backoffVars == <<timer, gaveUp, attempt, status>>
vars == <<hostVars, attachVars, backoffVars, channel, closed, stable, epoch,
          sawInitialBlock, pending, wanted, crossed>>

Init ==
    /\ chan    = [c \in Chan |-> "free"]
    /\ written = [c \in Chan |-> 0]
    /\ blocks  = [c \in Chan |-> 0]
    /\ channel = NoChan
    /\ at = "idle" /\ mine = NoChan /\ retried = FALSE /\ byTimer = FALSE
    /\ closed = FALSE /\ timer = FALSE /\ stable = FALSE /\ gaveUp = FALSE
    /\ attempt = 0 /\ epoch = 0
    /\ sawInitialBlock = FALSE
    /\ pending = <<>>
    /\ status = "connected"
    /\ wanted = FALSE /\ crossed = FALSE

-----------------------------------------------------------------------------
(* Reattaching.                                                            *)

\* scheduleReattach: retry after a backoff, or give up and say so.
ScheduleReattach ==
    IF attempt >= MaxReattach
    THEN /\ gaveUp' = TRUE
         /\ status' = Apply(status, "failed")
         /\ UNCHANGED <<timer, attempt>>
    ELSE /\ timer' = TRUE
         /\ attempt' = attempt + 1
         /\ status' = Apply(status, "reconnecting")
         /\ UNCHANGED gaveUp

\* What every close event does, whichever channel it comes from.
OnClose ==
    /\ channel' = NoChan
    /\ stable' = FALSE
    /\ pending' = <<>>
    /\ IF closed THEN UNCHANGED backoffVars ELSE ScheduleReattach

\* The close event of c: a drop, or the end of a close().
ChannelClosed(c) ==
    /\ chan[c] \in {"open", "closing"}
    /\ chan' = [chan EXCEPT ![c] = "dead"]
    /\ OnClose
    /\ UNCHANGED <<written, blocks, attachVars, closed, epoch, sawInitialBlock,
                   wanted, crossed>>

\* What close() leaves of a channel.
Shut(c) == [chan EXCEPT ![c] = IF SyncClose THEN "dead" ELSE "closing"]

-----------------------------------------------------------------------------
(* Attaching.                                                              *)

\* ensureOpen() with no attach in flight.
StartAttach(timed) ==
    /\ at' = "opener" /\ mine' = NoChan /\ retried' = FALSE /\ byTimer' = timed
    /\ timer' = FALSE

\* open(): nothing to do while a channel is open, an attach to join, a pending
\* reattach to wait for, or an attach to start, with fresh attempts after a
\* failure.
Open ==
    /\ channel = NoChan \/ at # "idle"
    /\ closed' = FALSE
    /\ wanted' = TRUE
    /\ IF at # "idle" \/ (timer /\ ~gaveUp)
       THEN UNCHANGED <<attachVars, backoffVars>>
       ELSE /\ StartAttach(FALSE)
            /\ gaveUp' = FALSE
            /\ attempt' = IF gaveUp THEN 0 ELSE attempt
            /\ UNCHANGED status
    /\ UNCHANGED <<hostVars, channel, stable, epoch, sawInitialBlock, pending, crossed>>

\* The reattach timer fires: an attach starts, or the one in flight is joined.
\* close() clears the timer, so its check of closed is never true here.
TimerFires ==
    /\ timer
    /\ IF at = "idle" THEN StartAttach(TRUE)
       ELSE byTimer' = TRUE /\ timer' = FALSE /\ UNCHANGED <<at, mine, retried>>
    /\ UNCHANGED <<hostVars, channel, closed, stable, gaveUp, attempt, status, epoch,
                   sawInitialBlock, pending, wanted, crossed>>

\* The attach ends; the flight is over.
EndAttach == at' = "idle" /\ mine' = NoChan /\ retried' = FALSE /\ byTimer' = FALSE

\* Mutant of RejectAttach: nothing follows up an attach the timer started.
RejectAttachSilently ==
    /\ EndAttach
    /\ wanted' = (wanted /\ byTimer /\ ~closed)
    /\ UNCHANGED backoffVars

\* The attach rejects: the timer's goes on with the backoff, an open() tells
\* its caller.
RejectAttach ==
    /\ EndAttach
    /\ IF byTimer /\ ~closed
       THEN ScheduleReattach /\ UNCHANGED wanted
       ELSE wanted' = FALSE /\ UNCHANGED backoffVars

Announce == epoch' = epoch + 1

\* close() ran while the channel was being opened.
Abandoned == closed

\* The status once an attach succeeded: a reattach reports it, a first open
\* does not.
Reattached == IF attempt > 0 THEN Apply(status, "connected") ELSE status

\* Mutant of Wire: the initial block of the new channel is not expected.
WireKeepingBlock(c) ==
    /\ channel' = c
    /\ stable' = TRUE
    /\ status' = Reattached
    /\ UNCHANGED sawInitialBlock

\* The channel c becomes the manager's.
Wire(c) ==
    /\ channel' = c
    /\ stable' = TRUE
    /\ status' = Reattached
    /\ sawInitialBlock' = FALSE

\* The opener resolves with c: dropped if close() ran meanwhile; otherwise wired,
\* and announced at once unless variables are to be set first.
OpenerOk(c) ==
    /\ at = "opener" /\ chan[c] = "free"
    /\ IF Abandoned
       THEN /\ chan' = [chan EXCEPT ![c] = "dead"]
            /\ EndAttach
            /\ UNCHANGED <<written, channel, stable, status, epoch, sawInitialBlock, pending>>
       ELSE /\ chan' = [chan EXCEPT ![c] = "open"]
            /\ Wire(c)
            /\ \/ /\ Announce /\ EndAttach
                  /\ UNCHANGED <<written, pending>>
               \/ /\ at' = "environment" /\ mine' = c /\ UNCHANGED <<retried, byTimer>>
                  /\ written' = [written EXCEPT ![c] = 1]
                  /\ pending' = Append(pending, <<c, 1>>)
                  /\ UNCHANGED epoch
    /\ UNCHANGED <<blocks, closed, timer, gaveUp, attempt, wanted, crossed>>

\* The opener rejects.
OpenerFail ==
    /\ at = "opener"
    /\ RejectAttach
    /\ UNCHANGED <<hostVars, channel, closed, stable, epoch, sawInitialBlock, pending, crossed>>

\* The reply to set-environment arrived or will not: the attach goes on before
\* anything else happens.
EnvironmentSettled ==
    at = "environment" /\ \A k \in 1 .. Len(pending) : pending[k] # <<mine, 1>>

\* Mutant of StillMine: a channel lost meanwhile is announced.
AlwaysMine == TRUE

\* The channel of this attach is still the manager's after the wait.
StillMine == channel = mine

\* Mutant of OwnedElsewhere: a reattach that was scheduled is not looked at.
OwnedElsewhereUntimed == closed \/ gaveUp

\* Mutant of OwnedElsewhere: the attach is never retried.
AlwaysOwnedElsewhere == TRUE

\* A lost channel is somebody else's to bring back.
OwnedElsewhere == closed \/ timer \/ gaveUp

\* applySessionEnvironment() returns, settled or timed out.  A channel lost
\* meanwhile is not announced; one lost to a close() that an open() undid is
\* attached once more.
EnvironmentDone ==
    /\ at = "environment"
    /\ \/ /\ StillMine
          /\ Announce /\ EndAttach
          /\ UNCHANGED <<backoffVars, wanted>>
       \/ /\ ~StillMine /\ OwnedElsewhere
          /\ EndAttach
          /\ UNCHANGED <<backoffVars, wanted, epoch>>
       \/ /\ ~StillMine /\ ~OwnedElsewhere /\ retried
          /\ RejectAttach
          /\ UNCHANGED epoch
       \/ /\ ~StillMine /\ ~OwnedElsewhere /\ ~retried
          /\ at' = "opener" /\ mine' = NoChan /\ retried' = TRUE
          /\ UNCHANGED <<byTimer, backoffVars, wanted, epoch>>
    /\ UNCHANGED <<hostVars, channel, closed, stable, sawInitialBlock, pending, crossed>>

-----------------------------------------------------------------------------
(* Commands, the watchdog and close().                                     *)

\* command()
Command ==
    /\ channel # NoChan /\ written[channel] < MaxCommands
    /\ written' = [written EXCEPT ![channel] = @ + 1]
    /\ pending' = Append(pending, <<channel, written'[channel]>>)
    /\ UNCHANGED <<chan, blocks, attachVars, backoffVars, channel, closed, stable, epoch,
                   sawInitialBlock, wanted, crossed>>

\* ingest() of the next reply block of c, which answers command blocks[c] of c:
\* the first block since the attach is skipped, any other settles the oldest
\* command.
Reply(c) ==
    /\ chan[c] \in {"open", "closing"} /\ blocks[c] <= written[c]
    /\ blocks' = [blocks EXCEPT ![c] = @ + 1]
    /\ IF ~sawInitialBlock
       THEN /\ sawInitialBlock' = TRUE
            /\ UNCHANGED <<pending, crossed>>
       ELSE /\ pending' = IF pending = <<>> THEN pending ELSE Tail(pending)
            /\ crossed' = (crossed \/ (pending # <<>> /\ Head(pending) # <<c, blocks[c]>>))
            /\ UNCHANGED sawInitialBlock
    /\ UNCHANGED <<chan, written, attachVars, backoffVars, channel, closed, stable, epoch,
                   wanted>>

\* checkResponsiveness() with the oldest command past the fail threshold: all
\* commands are rejected and the channel is closed, to be reattached when its
\* close event comes.
Unresponsive ==
    /\ channel # NoChan /\ pending # <<>>
    /\ chan' = Shut(channel)
    /\ channel' = NoChan /\ pending' = <<>>
    /\ IF SyncClose THEN stable' = FALSE /\ ScheduleReattach
       ELSE UNCHANGED <<stable, backoffVars>>
    /\ UNCHANGED <<written, blocks, attachVars, closed, epoch, sawInitialBlock,
                   wanted, crossed>>

\* The channel has been up for STABILITY_RESET_MS.
StableTimer ==
    /\ stable
    /\ stable' = FALSE /\ attempt' = 0
    /\ UNCHANGED <<hostVars, attachVars, channel, closed, timer, gaveUp, status, epoch,
                   sawInitialBlock, pending, wanted, crossed>>

\* close(): commands in flight are rejected by the close event.
Close ==
    /\ closed' = TRUE /\ wanted' = FALSE
    /\ timer' = FALSE /\ stable' = FALSE
    /\ channel' = NoChan
    /\ IF channel = NoChan THEN UNCHANGED <<chan, pending>>
       ELSE /\ chan' = Shut(channel)
            /\ pending' = IF SyncClose THEN <<>> ELSE pending
    /\ UNCHANGED <<written, blocks, attachVars, gaveUp, attempt, status, epoch,
                   sawInitialBlock, crossed>>

-----------------------------------------------------------------------------
Macrotask ==
    \/ Open \/ Close \/ TimerFires \/ OpenerFail \/ Command \/ Unresponsive \/ StableTimer
    \/ \E c \in Chan : OpenerOk(c) \/ ChannelClosed(c) \/ Reply(c)

\* A caller may open() in the macrotask in which it closed.
Next ==
    \/ EnvironmentDone
    \/ EnvironmentSettled /\ closed /\ Open
    \/ ~EnvironmentSettled /\ Macrotask

Spec == Init /\ [][Next]_vars

\* The opener settles, timers fire, and a channel that was closed ends.
Fairness ==
    /\ WF_vars(OpenerFail \/ \E c \in Chan : OpenerOk(c))
    /\ WF_vars(EnvironmentDone)
    /\ WF_vars(TimerFires)
    /\ \A c \in Chan : WF_vars(chan[c] = "closing" /\ ChannelClosed(c))

FairSpec == Spec /\ Fairness

-----------------------------------------------------------------------------
(* Properties.                                                             *)

Live(c) == chan[c] = "open"

\* Every variable keeps the type of the field it stands for.
TypeOK ==
    /\ chan \in [Chan -> {"free", "open", "closing", "dead"}]
    /\ written \in [Chan -> Nat] /\ blocks \in [Chan -> Nat]
    /\ channel \in Chan \cup {NoChan}
    /\ at \in {"idle", "opener", "environment"}
    /\ mine \in Chan \cup {NoChan}
    /\ retried \in BOOLEAN /\ byTimer \in BOOLEAN
    /\ closed \in BOOLEAN /\ timer \in BOOLEAN /\ stable \in BOOLEAN /\ gaveUp \in BOOLEAN
    /\ attempt \in 0 .. MaxReattach /\ epoch \in Nat
    /\ sawInitialBlock \in BOOLEAN
    /\ pending \in Seq(Chan \X Nat)
    /\ status \in ConnStates
    /\ wanted \in BOOLEAN /\ crossed \in BOOLEAN

\* close() stays closed: whatever attach, timer or close event was under way,
\* no channel is kept and no reattach is armed.
ClosedIsQuiet == closed => channel = NoChan /\ ~timer /\ ~wanted

\* A command never waits on a channel that is gone: every drop rejects it.
PendingIsAnswerable ==
    \A k \in DOMAIN pending : chan[pending[k][1]] # "dead"

\* While somebody wants the channel something is on its way to bring it up, or
\* the manager has given up and said so: the attach, its retry, the timer and
\* the close event hand the job to one another without dropping it.
Recovering ==
    wanted =>
        \/ channel # NoChan
        \/ at # "idle"
        \/ timer
        \/ gaveUp
        \/ \E c \in Chan : chan[c] = "closing"

\* The epoch moves only for the live channel of the attach that announces it:
\* a channel lost while its variables were being set is never announced.
AnnouncedIsCurrent ==
    [][epoch' # epoch =>
          /\ channel' # NoChan /\ chan'[channel'] = "open"
          /\ (at = "environment" => channel' = mine)]_vars

\* At most one channel is open, through open(), close(), drops and reattaches:
\* tmux never fans its output out to two clients.
OneLiveChannel ==
    \A c, d \in Chan : Live(c) /\ Live(d) => c = d

\* Replies stay correlated with the commands sent (FIFO).
RepliesMatch == ~crossed

\* Wanted, the channel comes up, or its caller or the user is told otherwise.
Recovers ==
    wanted ~> (channel # NoChan \/ gaveUp \/ ~wanted)

\* The promise to the consumers, for channels whose close() is immediate.
Up == channel # NoChan /\ ~(at = "environment" /\ mine = channel)

Promise == INSTANCE EpochChannel WITH up <- Up

\* Every step of the manager is a step of the epoch channel.
KeepsPromise == Promise!Spec

-----------------------------------------------------------------------------
(* What the properties above rest on.                                      *)

\* The manager's channel is open, and so is or was that of the attach.
ChannelIsOpen == channel # NoChan => chan[channel] = "open"
MineIsSet     == at = "environment" => mine # NoChan

\* A command waits on a channel whose close event is still to come.
PendingIsOpen ==
    \A k \in DOMAIN pending : chan[pending[k][1]] \in {"open", "closing"}

\* With an immediate close(): the manager knows every channel there is, ...
KnowsItsChannel ==
    \A c \in Chan : chan[c] \in {"open", "closing"} => channel = c

\* ... opens one only when it has none and no reattach is due, ...
OpensOnlyWhenDown ==
    /\ at = "opener" => channel = NoChan /\ ~timer
    /\ at = "environment" => channel \in {mine, NoChan}
    /\ timer => channel = NoChan

\* ... and works for somebody.
WorksForSomebody ==
    timer \/ channel # NoChan \/ (at # "idle" /\ ~closed) => wanted

\* The inductive invariant.
IInv ==
    /\ TypeOK /\ ClosedIsQuiet /\ ChannelIsOpen /\ MineIsSet /\ PendingIsOpen
    /\ SyncClose => KnowsItsChannel /\ OpensOnlyWhenDown /\ WorksForSomebody

\* With an immediate close(), a command waits on the manager's channel only, in
\* the order of its number, and the oldest one is answered next: the first
\* block of a channel is the unsolicited one, and no channel inherits the queue
\* of another.
NextAnswered == IF sawInitialBlock THEN blocks[channel] ELSE 1
QueueInOrder ==
    /\ ~crossed
    /\ \A c \in Chan : chan[c] = "free" => written[c] = 0 /\ blocks[c] = 0
    /\ channel = NoChan => pending = <<>>
    /\ channel # NoChan =>
          /\ sawInitialBlock <=> blocks[channel] > 0
          /\ Len(pending) = written[channel] + 1 - NextAnswered
          /\ \A k \in 1 .. Len(pending) : pending[k] = <<channel, NextAnswered + k - 1>>
=============================================================================
