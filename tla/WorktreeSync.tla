---------------------------- MODULE WorktreeSync ----------------------------
(***************************************************************************)
(* What follows the selected worktree of a project, on both sides of IPC.  *)
(*                                                                         *)
(* In the renderer, worktreeStore owns the selection, panelDataSync turns  *)
(* statuses, watch events and selection changes into reads, and the        *)
(* refresh coordinator of changesStore keeps at most one read of the       *)
(* changeset under way and one more to follow.  In the main process,       *)
(* SessionManager.setActiveWorktree keeps one extra watch on the selected  *)
(* worktree while that lies outside the project root.                      *)
(*                                                                         *)
(* One project; the stores keep each project apart.  One action is one     *)
(* macrotask of the renderer or of the main process with its microtasks;   *)
(* a status is delivered within the step that reports it, calls from the   *)
(* renderer arrive in order and later.  The generation and lifecycle       *)
(* counters of the coordinator are only compared for equality: a run       *)
(* carries whether they have changed since it started.                     *)
(***************************************************************************)
EXTENDS Integers, Sequences, FiniteSets

CONSTANTS Trees,      \* worktree paths
          External,   \* those outside the project root
          None,       \* no path
          MaxStep,    \* bound: selections, target changes and watch events
          MaxNow,     \* bound: changes of the repository
          MaxSession, \* bound: sessions opened
          Spans       \* TRUE: what a session has begun may end after the next
                      \* is up (a local session is reopened at once)

ASSUME TreesAssumption == External \subseteq Trees /\ None \notin Trees
ASSUME BoundsAssumption == {MaxStep, MaxNow, MaxSession} \subseteq Nat /\ Spans \in BOOLEAN

VARIABLES active,    \* worktreeStore: activeWorktree
          changes,   \* changesStore: the slice and its coordinator
          lists,     \* listWorktrees in flight
          believes,  \* the status panelDataSync has seen is `connected`
          toMain,    \* setActiveWorktree calls on their way
          session,   \* the project's session, 0 for none
          phase,     \* of its provider
          primary,   \* watchSubs has an entry
          entry,     \* worktreeWatchSubs' entry
          seq,       \* worktreeWatchSeq, 0 when absent
          calls,     \* setActiveWorktree calls that await
          stops,     \* stopWatch calls that await the primary's unsubscribe
          extraOrphans, \* live watches worktreeWatchSubs has lost
          extraRefused, \* the last subscribeWorktreeWatch failed (history)
          now,       \* state of the repository
          opened, steps, served

rendererVars == <<active, changes, lists, believes>>
extraVars    == <<entry, seq, calls, stops, extraOrphans, extraRefused>>
openVars  == <<session, phase, primary, opened>>
syncVars == <<rendererVars, toMain, extraVars, openVars, now, steps, served>>

NoRun   == [tree |-> None, target |-> "head", fresh |-> FALSE, at |-> "none", read |-> 0]
NoSet   == [tree |-> None, target |-> "head", read |-> 0]
NoEntry == [path |-> None, session |-> 0]

-----------------------------------------------------------------------------
(***************************************************************************)
(* changesStore, as functions of its slice c and the selection t           *)
(***************************************************************************)
EmptySlice == [shown |-> NoSet, loading |-> FALSE, target |-> "head",
               run |-> NoRun, pending |-> FALSE, wanted |-> 0, failed |-> FALSE]

Stale(run) == [run EXCEPT !.fresh = FALSE]

(* isCurrentRun *)
IsCurrent(c, t) == c.run.fresh /\ t = c.run.tree /\ c.target = c.run.target

\* Mutant: the changeset of another worktree stays until the new one is there.
StartRunKeeping(c, t) ==
    IF t = None
    THEN [c EXCEPT !.shown = NoSet, !.loading = FALSE, !.pending = FALSE, !.run = NoRun]
    ELSE [c EXCEPT !.loading = TRUE, !.pending = FALSE, !.failed = FALSE,
                   !.run = [tree |-> t, target |-> c.target, fresh |-> TRUE, read |-> 0,
                            at |-> IF c.target = "branch" THEN "branch" ELSE "asked"]]
(* runRefresh up to its first await; without a worktree to its end.  The   *)
(* changeset of another worktree is dropped first.                         *)
StartRun(c, t) ==
    IF t = None
    THEN [c EXCEPT !.shown = NoSet, !.loading = FALSE, !.pending = FALSE, !.run = NoRun]
    ELSE [c EXCEPT !.shown = IF @.tree = t THEN @ ELSE NoSet,
                   !.loading = TRUE, !.pending = FALSE, !.failed = FALSE,
                   !.run = [tree |-> t, target |-> c.target, fresh |-> TRUE, read |-> 0,
                            at |-> IF c.target = "branch" THEN "branch" ELSE "asked"]]

\* Mutant: a request during a run is left to that run.
Joined(c, t) == IF c.run # NoRun THEN [c EXCEPT !.wanted = now]
                ELSE StartRun([c EXCEPT !.wanted = now], t)
(* scheduleRefresh: joins the drain under way, or starts one *)
Schedule(c, t) ==
    LET asked == [c EXCEPT !.wanted = now]
    IN  IF c.run # NoRun THEN [asked EXCEPT !.pending = TRUE, !.run = Stale(@)]
        ELSE StartRun(asked, t)

(* drainRefreshes after a run: once more, or the spinner ends *)
Finish(c, t) ==
    IF c.pending THEN StartRun(c, t)
    ELSE [c EXCEPT !.run = NoRun, !.loading = IF IsCurrent(c, t) THEN FALSE ELSE @]

(* clearForDisconnect; the drain under way is left to end *)
Cleared(c) == [EmptySlice EXCEPT !.run = Stale(c.run), !.wanted = c.wanted]

-----------------------------------------------------------------------------
(***************************************************************************)
(* panelDataSync                                                           *)
(***************************************************************************)
(* The selection becomes t: on a transition the changeset is refreshed and *)
(* the main process is told.                                               *)
Refreshed(c, t) == IF t = active THEN c ELSE Schedule(c, t)
Tell(t) == toMain' = IF t = active THEN toMain ELSE Append(toMain, t)

(* clearProject, on the edge out of connected *)
ClearProject ==
    IF believes
    THEN /\ active' = None /\ Tell(None)
         /\ changes' = Cleared(Refreshed(changes, None))
         /\ believes' = FALSE
    ELSE UNCHANGED <<active, toMain, changes, believes>>

-----------------------------------------------------------------------------
SyncInit ==
    /\ active = None /\ changes = EmptySlice /\ lists = {} /\ believes = FALSE
    /\ toMain = << >>
    /\ session = 0 /\ phase = "none" /\ primary = FALSE /\ opened = 0
    /\ entry = NoEntry /\ seq = 0 /\ calls = {} /\ stops = 0 /\ extraOrphans = {}
    /\ extraRefused = FALSE
    /\ now = 1 /\ steps = 0 /\ served = 0

Step == steps < MaxStep /\ steps' = steps + 1

(* setWorktree: the picker, or the terminal's directory (followCwd); both  *)
(* choose from the list, which is there exactly when something is selected *)
Select(t) ==
    /\ Step /\ active # None /\ t # active
    /\ active' = t /\ Tell(t)
    /\ changes' = Refreshed(changes, t)
    /\ UNCHANGED <<lists, believes, extraVars, openVars, now, served>>

(* setTarget *)
SetTarget ==
    /\ Step /\ active # None
    /\ LET other == IF changes.target = "head" THEN "branch" ELSE "head"
       IN  changes' = Schedule([changes EXCEPT !.target = other, !.shown = NoSet], active)
    /\ UNCHANGED <<active, lists, believes, toMain, extraVars, openVars, now, served>>

(* A watch event: of the working tree, or of the git state, which lists    *)
(* the worktrees first                                                     *)
WatchEvent ==
    /\ Step /\ phase = "up" /\ (primary \/ entry # NoEntry)
    /\ \/ changes' = Schedule(changes, active) /\ UNCHANGED lists
       \/ /\ ~\E l \in lists : l.then /\ l.session = session
          /\ lists' = lists \union {[session |-> session, then |-> TRUE]}
          /\ UNCHANGED changes
    /\ UNCHANGED <<active, believes, toMain, extraVars, openVars, now, served>>

\* the answer to a request of a session that is gone is an error, unless the
\* session was a local one
Answers(s) == Spans \/ (s = session /\ phase = "up")

(* loadWorktrees goes on: the selection stays if it is in the list, else   *)
(* it becomes the first of the list; an error clears both                  *)
ListReply(l, t) ==
    /\ l \in lists
    /\ t # None => Answers(l.session)
    /\ lists' = lists \ {l}
    /\ active' = t /\ Tell(t)
    /\ changes' = LET c == Refreshed(changes, t)
                  IN  IF l.then THEN Schedule(c, t) ELSE c
    /\ UNCHANGED <<believes, extraVars, openVars, now, steps, served>>

-----------------------------------------------------------------------------
(* The run under way *)

(* resolveBranchPoint has answered *)
BranchPointReply ==
    /\ changes.run.at = "branch"
    /\ changes' = IF IsCurrent(changes, active)
                  THEN [changes EXCEPT !.run.at = "asked"]
                  ELSE Finish(changes, active)
    /\ UNCHANGED <<active, lists, believes, toMain, extraVars, openVars, now, steps, served>>

(* getChangeset reads the repository *)
ReadChangeset ==
    /\ changes.run.at = "asked"
    /\ changes' = [changes EXCEPT !.run.at = "read", !.run.read = now]
    /\ UNCHANGED <<active, lists, believes, toMain, extraVars, openVars, now, steps, served>>

Patched(c) == [c EXCEPT !.shown = [tree |-> c.run.tree, target |-> c.run.target,
                                   read |-> c.run.read]]
(* getChangeset has answered *)
ChangesetReply ==
    /\ changes.run.at = "read"
    /\ changes' = Finish(IF IsCurrent(changes, active) THEN Patched(changes) ELSE changes, active)
    /\ UNCHANGED <<active, lists, believes, toMain, extraVars, openVars, now, steps, served>>

(* either request has failed: what was shown stays *)
ReadFails ==
    /\ changes.run # NoRun
    /\ changes' = LET c == Finish(changes, active)
                  IN  [c EXCEPT !.failed = (c.run = NoRun)]
    /\ UNCHANGED <<active, lists, believes, toMain, extraVars, openVars, now, steps, served>>

(* a commit, or an edit *)
Edit ==
    /\ now < MaxNow
    /\ now' = now + 1
    /\ UNCHANGED <<rendererVars, toMain, extraVars, openVars, steps, served>>

-----------------------------------------------------------------------------
(***************************************************************************)
(* SessionManager.setActiveWorktree                                        *)
(***************************************************************************)
Live(e) == e.session = session /\ phase = "up"

(* ... from the comparison with the project root on: subscribeWorktreeWatch, *)
(* which a remote provider refuses at once without its helper              *)
Subscribes(c) == c.target \in External /\ session # 0 /\ (phase = "up" \/ Spans)
Subscribe(others, c) ==
    calls' = IF Subscribes(c)
             THEN others \union {[c EXCEPT !.at = "subscribe", !.session = session]}
             ELSE others

(* ... and its beginning: the target in place already, or what is there is *)
(* unsubscribed first                                                      *)
SetActiveWorktree ==
    /\ toMain # << >>
    /\ toMain' = Tail(toMain)
    /\ LET t == Head(toMain)
           c == [n |-> served + 1, target |-> t, seq |-> seq + 1, at |-> "teardown", session |-> 0]
       IN  IF entry.path = t THEN UNCHANGED <<extraVars, served>>
           ELSE /\ seq' = seq + 1
                /\ served' = served + 1
                /\ entry' = NoEntry
                /\ extraRefused' = FALSE
                /\ IF entry # NoEntry THEN calls' = calls \union {c} ELSE Subscribe(calls, c)
                /\ UNCHANGED <<stops, extraOrphans>>
    /\ UNCHANGED <<rendererVars, openVars, now, steps>>

(* the unsubscribe has settled *)
TornDown(c) ==
    /\ c \in calls /\ c.at = "teardown"
    /\ Subscribe(calls \ {c}, c)
    /\ UNCHANGED <<rendererVars, toMain, entry, seq, stops, extraOrphans, extraRefused, openVars, now,
                   steps, served>>

\* Mutant: only the end of the session is looked at.
SameSession(c) == c.session = session
(* stillCurrent *)
StillCurrent(c) == c.session = session /\ c.seq = seq

(* the subscription is there: recorded, or unsubscribed at once *)
Subscribed(c) ==
    /\ c \in calls /\ c.at = "subscribe"
    /\ Answers(c.session)
    /\ calls' = calls \ {c}
    /\ IF StillCurrent(c)
       THEN /\ entry' = [path |-> c.target, session |-> session]
            /\ extraOrphans' = IF entry # NoEntry /\ Live(entry) THEN extraOrphans \union {entry} ELSE extraOrphans
       ELSE UNCHANGED <<entry, extraOrphans>>
    /\ UNCHANGED <<rendererVars, toMain, seq, stops, extraRefused, openVars, now, steps, served>>

(* it was refused, or the session is gone *)
SubscribeFails(c) ==
    /\ c \in calls /\ c.at = "subscribe"
    /\ calls' = calls \ {c}
    /\ extraRefused' = (extraRefused \/ (StillCurrent(c) /\ phase = "up"))
    /\ UNCHANGED <<rendererVars, toMain, entry, seq, stops, extraOrphans, openVars, now, steps, served>>

-----------------------------------------------------------------------------
(***************************************************************************)
(* The session                                                             *)
(***************************************************************************)
(* stopWatch: the primary watch first, and the worktree's after an await   *)
StopPrimary ==
    /\ primary' = FALSE
    /\ IF primary THEN stops' = stops + 1 /\ UNCHANGED entry
       ELSE entry' = NoEntry /\ UNCHANGED stops
(* stopWorktreeWatch, after that await *)
StopsWorktree ==
    /\ stops > 0
    /\ stops' = stops - 1
    /\ entry' = NoEntry
    /\ UNCHANGED <<rendererVars, toMain, seq, calls, extraOrphans, extraRefused, openVars, now, steps, served>>

Settled == stops = 0 /\ calls = {} /\ lists = {}

(* open(): the provider's `disconnected` is pushed *)
Open ==
    /\ session = 0 /\ opened < MaxSession
    /\ Spans \/ (Settled /\ toMain = << >>)
    /\ opened' = opened + 1 /\ session' = opened + 1 /\ phase' = "opening"
    /\ ClearProject
    /\ extraOrphans' = {}
    /\ UNCHANGED <<lists, primary, entry, seq, calls, stops, extraRefused, now, steps, served>>

(* the edge into connected: loadProject *)
Connected ==
    /\ phase = "opening"
    /\ Spans \/ toMain = << >>
    /\ phase' = "up" /\ believes' = TRUE
    /\ lists' = lists \union {[session |-> session, then |-> FALSE]}
    /\ UNCHANGED <<active, changes, toMain, extraVars, session, primary, opened, now, steps, served>>

(* startWatch *)
PrimaryReady ==
    /\ phase = "up" /\ ~primary
    /\ primary' = TRUE
    /\ UNCHANGED <<rendererVars, toMain, extraVars, session, phase, opened, now, steps, served>>

(* `disconnected` or `failed`; the session stays in the map *)
SessionDrops ==
    /\ phase \in {"opening", "up"}
    /\ phase' = "lost"
    /\ StopPrimary
    /\ ClearProject
    /\ UNCHANGED <<lists, seq, calls, extraOrphans, extraRefused, session, opened, now, steps, served>>

(* close(), reconnect() and a failed connect(): notifyEviction.  The       *)
(* renderer is told by the session reaper only.                            *)
SessionEvicted ==
    /\ session # 0
    /\ session' = 0 /\ phase' = "none" /\ seq' = 0
    /\ StopPrimary
    /\ ClearProject \/ UNCHANGED <<active, toMain, changes, believes>>
    /\ UNCHANGED <<lists, calls, extraOrphans, extraRefused, opened, now, steps, served>>

-----------------------------------------------------------------------------
SyncNext ==
    \/ \E t \in Trees : Select(t)
    \/ SetTarget \/ WatchEvent \/ Edit
    \/ \E l \in lists, t \in Trees \union {None} : ListReply(l, t)
    \/ BranchPointReply \/ ReadChangeset \/ ChangesetReply \/ ReadFails
    \/ SetActiveWorktree
    \/ \E c \in calls : TornDown(c) \/ Subscribed(c) \/ SubscribeFails(c)
    \/ StopsWorktree
    \/ Open \/ Connected \/ PrimaryReady \/ SessionDrops \/ SessionEvicted

SyncSpec == SyncInit /\ [][SyncNext]_syncVars

-----------------------------------------------------------------------------
Targets == {"head", "branch"}
Runs == [tree : Trees \union {None}, target : Targets, fresh : BOOLEAN,
         at : {"none", "branch", "asked", "read"}, read : Nat]
Slices == [shown : [tree : Trees \union {None}, target : Targets, read : Nat],
           loading : BOOLEAN, target : Targets, run : Runs, pending : BOOLEAN,
           wanted : Nat, failed : BOOLEAN]
Calls == [n : Nat, target : Trees \union {None}, seq : Nat, at : {"teardown", "subscribe"},
          session : Nat]

SyncTypeOK ==
    /\ active \in Trees \union {None}
    /\ changes \in Slices
    /\ lists \subseteq [session : Nat, then : BOOLEAN]
    /\ toMain \in Seq(Trees \union {None})
    /\ phase \in {"none", "opening", "up", "lost"} /\ calls \subseteq Calls
    /\ believes \in BOOLEAN /\ primary \in BOOLEAN /\ extraRefused \in BOOLEAN
    /\ entry \in [path : Trees \union {None}, session : Nat]
    /\ session \in Nat /\ seq \in Nat /\ stops \in Nat /\ now \in Nat
    /\ opened \in Nat /\ steps \in Nat /\ served \in Nat

(* What the panel shows while nothing is under way is the changeset of the *)
(* selected worktree, against the selected target, and the spinner turns   *)
(* only while something is (drainRefreshes, isCurrentRun).                 *)
PanelCoherent ==
    /\ SyncTypeOK
    /\ changes.loading => changes.run # NoRun
    /\ changes.shown # NoSet /\ changes.run = NoRun =>
           changes.shown.tree = active /\ changes.shown.target = changes.target

(* No request is lost in the coalescing of refreshes: what is shown in the *)
(* end was read after the last event or selection that asked for it.       *)
RefreshReflected ==
    changes.run = NoRun /\ lists = {} /\ active # None /\ ~changes.failed =>
        changes.shown # NoSet /\ changes.shown.read >= changes.wanted

(* Once every call has come through, the extra watch of a live session is  *)
(* on the selected worktree, if that is external, and on none if the       *)
(* selection is within the root; no watch is lost on the way               *)
(* (setActiveWorktree).                                                    *)
Quiet == toMain = << >> /\ calls = {} /\ stops = 0 /\ lists = {}
WatchFollowsSelection ==
    /\ Quiet /\ phase = "up" /\ believes /\ active # None /\ ~extraRefused =>
           entry.path = IF active \in External THEN active ELSE None
    /\ extraOrphans = {}

(* "worktreePath: null (no worktree selected ...) tears down any existing  *)
(* extra subscription and establishes nothing" (sessionManager.ts:314).    *)
NothingSelectedNothingWatched ==
    Quiet /\ phase = "up" /\ believes /\ active = None => entry = NoEntry

-----------------------------------------------------------------------------
(***************************************************************************)
(* Why, by induction                                                       *)
(***************************************************************************)
(* A slice as code that awaits may leave it: a run carries its worktree,   *)
(* and what is shown is against the selected target.                       *)
Shaped(c) ==
    /\ c.run.at = "none" => c.run = NoRun
    /\ c.run # NoRun => c.run.tree # None
    /\ c.shown.tree = None => c.shown = NoSet
    /\ c.shown # NoSet => c.shown.target = c.target

(* A stale run has a successor unless nothing is selected, and the spinner *)
(* turns for the run that will end it.                                     *)
RunsAnswerable(c, t) ==
    /\ c.pending => c.run # NoRun
    /\ c.loading => c.run # NoRun
    /\ c.run # NoRun /\ ~c.pending /\ (t # None \/ c.loading) => IsCurrent(c, t)

(* What is shown is of the selection t unless a run is to follow. *)
ShownCurrent(c, t) == c.shown # NoSet => c.pending \/ c.shown.tree = t

(* A run that nobody has asked to repeat reads after the last request. *)
ReadsLate(c, t, n) ==
    /\ c.wanted <= n
    /\ c.run.at = "read" /\ ~c.pending /\ t # None => c.run.read >= c.wanted
    /\ c.run = NoRun /\ t # None /\ ~c.failed => c.shown # NoSet /\ c.shown.read >= c.wanted

Sound(c, t, n) == Shaped(c) /\ RunsAnswerable(c, t) /\ ShownCurrent(c, t) /\ ReadsLate(c, t, n)

(* The selection is the last thing said, and there is none before a session *)
(* of which the renderer knows.                                            *)
ToldLast ==
    /\ toMain # << >> => toMain[Len(toMain)] = active
    /\ active # None \/ phase = "up" => believes
    /\ phase = "opening" => ~believes /\ lists = {}
    /\ session = 0 <=> phase = "none"

(* A session starts with nothing left of the one before: its calls are its *)
(* own, no two are alike, and the current one finds no entry.              *)
CallsOwn ==
    /\ session # 0 =>
           /\ \A c \in calls : c.seq <= seq /\ (c.at = "subscribe" => c.session = session)
           /\ \A c, d \in calls : c.seq = seq /\ d.seq = seq => c = d
           /\ \A c \in calls : c.seq = seq => entry = NoEntry
    /\ \A c \in calls : c.at = "subscribe" => c.target \in External

(* What is watched of an earlier session is about to be stopped. *)
EntryOwn ==
    /\ entry.path = None => entry = NoEntry
    /\ entry.path \in External \union {None}
    /\ phase \in {"opening", "up"} => stops = 0
    /\ phase # "up" /\ entry # NoEntry => stops > 0
    /\ extraOrphans = {}

(* The current call, or what it has left, is for the selection. *)
CallFollows ==
    phase = "up" /\ active # None /\ toMain = << >> /\ ~extraRefused =>
        /\ \A c \in calls : c.seq = seq => c.target = active
        /\ (\A c \in calls : c.seq # seq) =>
               entry.path = IF active \in External THEN active ELSE None

PanelInv == SyncTypeOK /\ Sound(changes, active, now)
ExtraInv == ToldLast /\ CallsOwn /\ EntryOwn /\ CallFollows
=============================================================================
