--------------------------- MODULE ControlReinit ---------------------------
(***************************************************************************)
(* What the renderer shows of a project's tmux session, and how it catches *)
(* up with it: src/renderer/tmux/controlSession.ts with the view of        *)
(* tmuxStore.ts.  Each attach of the control channel announces an epoch;   *)
(* an epoch the renderer has not initialized starts a reinit, which puts   *)
(* the reserved windows in order, reads the windows and their layouts and  *)
(* asks for tmux's current window (which window is selected is left out).  *)
(* A reinit that cannot read is retried.                                   *)
(*                                                                         *)
(* One project: the module keys all its state by project, and of another   *)
(* project a reinit only sees that it became the active one.  The messages *)
(* of the main process are handled when it sends them, a command executes  *)
(* when its reply is handled: both directions are FIFO, and the renderer   *)
(* cannot tell the difference, except that a notification may overtake the *)
(* reply before it.  tmux and the main process are what ControlChannel     *)
(* models in detail; here they are the environment.                        *)
(***************************************************************************)
EXTENDS Integers, FiniteSets, Sequences, FiniteSetsExt

CONSTANTS Sessions,     \* the windows of the session at the start, by id
          CreateRun,    \* the setting showRunPanel
          RunIds,       \* reinits that may be under way together
          MaxRetry,     \* REINIT_RETRY_MAX
          MaxOpens,     \* tmuxControl.open calls in flight
          MaxEpoch,     \* attaches of one manager
          MaxTeardown,  \* teardowns of the control session
          MaxUser,      \* windows opened and closed by the user
          MaxBlank,     \* reads of a session that is not queryable yet
          LateReplies   \* TRUE: a teardown may meet a reinit half way

ASSUME BoundsAssumption ==
    /\ {MaxRetry, MaxOpens, MaxEpoch} \subseteq Nat \ {0}
    /\ {MaxTeardown, MaxUser, MaxBlank} \subseteq Nat
    /\ {CreateRun, LateReplies} \subseteq BOOLEAN
ASSUME RunIdsAssumption == 0 \notin RunIds /\ RunIds # {}

(* persistent and every run-N are reserved; all other names are tabs *)
Names  == {"persistent", "run-1", "run-2", "tab"}
Runs   == {"run-1", "run-2"}
Hidden(name) == name \in Names \ {"tab"}

(* A session is made with a window (new-session).  A reconcile makes the   *)
(* holder before a run tty (toCreate, controlSession.ts:141) and kills     *)
(* only spare holders, so a session with two run ttys has a holder.        *)
ASSUME SessionsAssumption ==
    \A s \in Sessions :
        /\ s \in Seq(Names) /\ s # << >>
        /\ \A i, j \in DOMAIN s : s[i] \in Runs /\ s[j] \in Runs /\ i # j
               => \E k \in DOMAIN s : s[k] = "persistent"

None == 0

VARIABLES windows,   \* tmux: window id -> name
          nextId,    \* tmux: ids are never used again
          link,      \* the control channel: "none", "lost" (a reattach is due), "up"
          epoch,     \* epoch of the manager
          connected, \* the status the renderer last heard of
          viewing,   \* projectsStore.activeId is this project
          active,    \* tmuxStore.activeProjectId is this project
          shown,     \* its view: window id -> name and whether it has a layout
          ctl,       \* channelEpoch, initializedEpoch, reinitInFlight, ...
          runs,      \* the reinits, current and stale
          asked,     \* tmuxControl.open calls in flight
          opening,   \* inFlight has one of them
          teardowns, users, blanks

tmux == <<windows, nextId>>
main == <<link, epoch, connected>>
open == <<asked, opening>>
vars == <<tmux, main, viewing, active, shown, ctl, runs, open, teardowns, users, blanks>>

(* ReconcilePlan: what is left of it *)
NoPlan == [kill |-> [holders |-> {}, runs |-> {}], rename |-> {}, create |-> {}]
Free == [at |-> "free", target |-> 0, todo |-> NoPlan]
Fresh == [channel |-> 0, initialized |-> 0, flight |-> None, pending |-> FALSE,
          retry |-> FALSE, attempts |-> 0, gaveUp |-> FALSE]

Init ==
    /\ \E s \in Sessions : windows = s /\ nextId = Len(s) + 1
    /\ link = "none" /\ epoch = 0 /\ connected = TRUE
    /\ viewing = FALSE /\ active = FALSE
    /\ shown = << >>
    /\ ctl = Fresh /\ runs = [r \in RunIds |-> Free]
    /\ asked = 0 /\ opening = FALSE
    /\ teardowns = 0 /\ users = 0 /\ blanks = 0

-----------------------------------------------------------------------------
(***************************************************************************)
(* maybeReinit and its single flight                                       *)
(***************************************************************************)
State == [ctl |-> ctl, runs |-> runs]
Becomes(s) == ctl' = s.ctl /\ runs' = s.runs

\* Mutant: a one-shot guard, which a reattach does not reset.
OneShot(c) == c.channel # 0 /\ c.initialized = 0
Behind(c) == c.channel # 0 /\ c.initialized # c.channel

MaybeReinit(s, act) ==
    IF ~act \/ ~Behind(s.ctl) THEN s
    ELSE IF s.ctl.flight # None THEN [s EXCEPT !.ctl.pending = TRUE]
    ELSE LET r == CHOOSE q \in RunIds : s.runs[q].at = "free"
         IN  [s EXCEPT !.ctl.flight = r, !.ctl.gaveUp = FALSE,
                       !.runs[r] = [at |-> "list", target |-> s.ctl.channel, todo |-> NoPlan]]

(* scheduleReinitRetry; giving up forgets the count *)
ScheduleRetry(c) ==
    IF c.attempts + 1 > MaxRetry
    THEN [c EXCEPT !.retry = FALSE, !.attempts = 0, !.gaveUp = TRUE]
    ELSE [c EXCEPT !.retry = TRUE, !.attempts = @ + 1]
ClearRetry(c) == [c EXCEPT !.retry = FALSE, !.attempts = 0]

(* finally: a request that came meanwhile, or a channel that moved on,     *)
(* starts the next one                                                     *)
Settle(c, r) ==
    LET over == [c EXCEPT !.flight = IF @ = r THEN None ELSE @, !.pending = FALSE]
        s    == [ctl |-> over, runs |-> [runs EXCEPT ![r] = Free]]
    IN  IF c.pending \/ (c.initialized # 0 /\ c.channel # c.initialized)
        THEN MaybeReinit(s, active) ELSE s

Goes(r, at, todo) ==
    /\ runs' = [runs EXCEPT ![r].at = at, ![r].todo = todo]
    /\ UNCHANGED ctl
(* not synced: the channel stays uninitialized *)
NotSynced(r) == Becomes(Settle(ScheduleRetry(ctl), r))
Synced(r) == Becomes(Settle([ctl EXCEPT !.initialized = runs[r].target], r))

-----------------------------------------------------------------------------
(***************************************************************************)
(* The view: reduce() over the notifications of a channel that is up       *)
(***************************************************************************)
Without(f, i) == [j \in DOMAIN f \ {i} |-> f[j]]
With(f, i, x) == [j \in DOMAIN f \union {i} |-> IF j = i THEN x ELSE f[j]]

(* window-add and layout-change of a window that was made; its name is not *)
(* told                                                                    *)
Tab == [name |-> "tab", laid |-> TRUE]
Notified(f) == IF link = "up" THEN f ELSE shown

Closes(i) ==
    /\ windows' = Without(windows, i)
    /\ shown' = Notified(Without(shown, i))
    /\ UNCHANGED nextId
Opens(name) ==
    /\ windows' = With(windows, nextId, name)
    /\ nextId' = nextId + 1
    /\ shown' = Notified(With(shown, nextId, Tab))

-----------------------------------------------------------------------------
(***************************************************************************)
(* ensureWindows                                                           *)
(***************************************************************************)
Of(ws, ns) == {i \in DOMAIN ws : ws[i] \in ns}
Spare(ids) == IF ids = {} THEN {} ELSE ids \ {Min(ids)}

\* Mutant: a spare holder is kept.
KillsRuns(ws) == [holders |-> {}, runs |-> Spare(Of(ws, Runs))]
Kills(ws) == [holders |-> Spare(Of(ws, {"persistent"})), runs |-> Spare(Of(ws, Runs))]

(* reconcile: exactly one window of each reserved class *)
Reconcile(ws) ==
    LET held == Of(ws, Runs)
    IN  [kill   |-> Kills(ws),
         rename |-> {i \in held \ Spare(held) : ws[i] # "run-1"},
         create |-> {name \in {"persistent"} : Of(ws, {name}) = {}}
                    \union {name \in {"run-1"} : held = {} /\ CreateRun}
                    \union {name \in {"tab"} : \A i \in DOMAIN ws : Hidden(ws[i])}]

(* The next command of the plan and what is left of it: the spares by id,  *)
(* the holder's first, the rename, the creations.  A command for a window  *)
(* that is gone fails, which is tolerated.                                 *)
Kill(i) == IF i \in DOMAIN windows /\ Cardinality(DOMAIN windows) > 1 THEN Closes(i)
           ELSE UNCHANGED <<tmux, shown>>
Rename(i) ==
    IF i \in DOMAIN windows
    THEN /\ windows' = [windows EXCEPT ![i] = "run-1"]
         /\ shown' = IF i \in DOMAIN shown THEN [shown EXCEPT ![i].name = "run-1"] ELSE shown
         /\ UNCHANGED nextId
    ELSE UNCHANGED <<tmux, shown>>
First(names) == IF "persistent" \in names THEN "persistent"
                ELSE IF "run-1" \in names THEN "run-1" ELSE "tab"

Executes(p) ==
    IF p.kill.holders # {} THEN Kill(Min(p.kill.holders))
    ELSE IF p.kill.runs # {} THEN Kill(Min(p.kill.runs))
    ELSE IF p.rename # {} THEN Rename(Min(p.rename))
    ELSE Opens(First(p.create))
Left(p) ==
    IF p.kill.holders # {} THEN [p EXCEPT !.kill.holders = Spare(@)]
    ELSE IF p.kill.runs # {} THEN [p EXCEPT !.kill.runs = Spare(@)]
    ELSE IF p.rename # {} THEN [p EXCEPT !.rename = Spare(@)]
    ELSE [p EXCEPT !.create = @ \ {First(@)}]

Blank == blanks < MaxBlank /\ blanks' = blanks + 1
Readable == UNCHANGED blanks
Rest == <<main, viewing, active, open, teardowns, users>>

Listed(r) ==
    /\ runs[r].at = "list" /\ link = "up"
    /\ \/ /\ IF active THEN Blank ELSE Readable
          /\ NotSynced(r)
       \/ /\ active /\ Readable
          /\ LET plan == Reconcile(windows)
             IN  Goes(r, IF plan = NoPlan THEN "names" ELSE "mutate", plan)
    /\ UNCHANGED <<tmux, shown, Rest>>

Mutated(r) ==
    /\ runs[r].at = "mutate" /\ link = "up"
    /\ Executes(runs[r].todo)
    /\ LET left == Left(runs[r].todo)
       IN  Goes(r, IF left = NoPlan THEN "names" ELSE "mutate", left)
    /\ UNCHANGED <<blanks, Rest>>

(***************************************************************************)
(* syncFromTmux, then restoreActiveWindow                                  *)
(***************************************************************************)
\* Mutant: nothing is pruned.
Kept == DOMAIN shown
Pruned == DOMAIN shown \intersect DOMAIN windows
(* window-close of what is not listed, window-add and window-renamed *)
NamesRead(r) ==
    /\ runs[r].at = "names" /\ link = "up"
    /\ \/ /\ IF active THEN Blank ELSE Readable
          /\ NotSynced(r)
          /\ UNCHANGED shown
       \/ /\ active /\ Readable
          /\ shown' = [i \in Pruned \union DOMAIN windows |->
                         [name |-> IF i \in DOMAIN windows THEN windows[i] ELSE shown[i].name,
                          laid |-> i \in DOMAIN shown /\ shown[i].laid]]
          /\ Goes(r, "layouts", NoPlan)
    /\ UNCHANGED <<tmux, Rest>>

(* layout-change of every window; clearReinitRetry *)
LayoutsRead(r) ==
    /\ runs[r].at = "layouts" /\ link = "up"
    /\ IF ~active THEN NotSynced(r) /\ UNCHANGED shown
       ELSE /\ shown' = [i \in DOMAIN shown \union DOMAIN windows |->
                           [name |-> IF i \in DOMAIN shown THEN shown[i].name ELSE "tab",
                            laid |-> i \in DOMAIN windows \/ shown[i].laid]]
            /\ ctl' = ClearRetry(ctl)
            /\ runs' = [runs EXCEPT ![r].at = "restore"]
    /\ UNCHANGED <<tmux, blanks, Rest>>

Restored(r) ==
    /\ runs[r].at = "restore" /\ link = "up"
    /\ Synced(r)
    /\ UNCHANGED <<tmux, shown, blanks, Rest>>

(* a command on a channel that is gone is rejected; the model also lets it *)
(* wait for the next channel                                               *)
Rejected(r) ==
    /\ runs[r].at # "free" /\ link # "up"
    /\ CASE runs[r].at \in {"list", "mutate"} -> Goes(r, "names", NoPlan)
         [] runs[r].at \in {"names", "layouts"} -> NotSynced(r)
         [] runs[r].at = "restore" -> Synced(r)
    /\ UNCHANGED <<tmux, shown, blanks, Rest>>

(* the retry timer; a project that is not active waits for an acquire *)
RetryFires ==
    /\ ctl.retry
    /\ Becomes(MaybeReinit([State EXCEPT !.ctl.retry = FALSE], active))
    /\ UNCHANGED <<tmux, shown, blanks, Rest>>

-----------------------------------------------------------------------------
(***************************************************************************)
(* acquireControlSession and teardownControlSession                        *)
(***************************************************************************)
Acquires ==
    /\ active' = TRUE
    /\ IF opening THEN UNCHANGED open
       ELSE asked < MaxOpens /\ asked' = asked + 1 /\ opening' = TRUE

(* the panels of this project are mounted, or the user asks to retry *)
Acquire ==
    /\ viewing' = TRUE
    /\ Acquires
    /\ UNCHANGED <<tmux, main, shown, ctl, runs, teardowns, users, blanks>>

(* another project is viewed; it is acquired unless it is disconnected *)
ViewOther ==
    /\ viewing
    /\ viewing' = FALSE
    /\ active' \in {FALSE, active}
    /\ UNCHANGED <<tmux, main, shown, ctl, runs, open, teardowns, users, blanks>>

Stages == {"list", "mutate", "names", "layouts", "restore"}
Quiescent(stages) == LateReplies \/ \A r \in RunIds : runs[r].at \notin stages

Forgets == ctl' = [Fresh EXCEPT !.channel = ctl.channel]

(* resetControlSession keeps the epoch of the channel; resetProject *)
Teardown ==
    /\ teardowns < MaxTeardown /\ teardowns' = teardowns + 1
    /\ \E r \in RunIds : runs[r].at = "free"
    /\ Forgets
    /\ shown' = << >>
    /\ UNCHANGED runs

(* the status becomes disconnected or failed; the next manager counts its  *)
(* epochs from 1 again                                                     *)
Disconnected ==
    /\ connected
    /\ Quiescent({"restore"})
    /\ Teardown
    /\ connected' = FALSE /\ link' = "none" /\ epoch' = 0
    /\ active' = FALSE /\ opening' = FALSE
    /\ UNCHANGED <<tmux, viewing, asked, users, blanks>>

(* the rejections of what was under way and the retry timer come first:    *)
(* connecting takes longer                                                 *)
Connected ==
    /\ ~connected
    /\ Quiescent(Stages) /\ (LateReplies \/ ~ctl.retry)
    /\ connected' = TRUE
    /\ IF viewing THEN Acquires ELSE UNCHANGED <<active, open>>
    /\ UNCHANGED <<tmux, link, epoch, viewing, shown, ctl, runs, teardowns, users, blanks>>

(* switchTerminalRenderer: the channel stays up *)
SwitchRenderer ==
    /\ viewing /\ active
    /\ Quiescent(Stages)
    /\ Teardown
    /\ active' = TRUE
    /\ asked < MaxOpens /\ asked' = asked + 1 /\ opening' = TRUE
    /\ UNCHANGED <<tmux, main, viewing, users, blanks>>

-----------------------------------------------------------------------------
(***************************************************************************)
(* The main process and the user                                           *)
(***************************************************************************)
(* onAttached: the first attach, asked for by an open, or a reattach *)
Attached ==
    /\ connected
    /\ link = "lost" \/ (link = "none" /\ asked > 0)
    /\ epoch < MaxEpoch
    /\ link' = "up" /\ epoch' = epoch + 1
    /\ Becomes(MaybeReinit([State EXCEPT !.ctl.channel = epoch'], active))
    /\ UNCHANGED <<tmux, connected, viewing, active, shown, open, teardowns, users, blanks>>

(* a call that inFlight has forgotten may settle too *)
Settles ==
    /\ asked > 0
    /\ asked' = asked - 1
    /\ opening' \in {opening, FALSE}
    /\ opening' => asked > 1

OpenResolves ==
    /\ link = "up" /\ Settles
    /\ Becomes(MaybeReinit(State, active))
    /\ UNCHANGED <<tmux, main, viewing, active, shown, teardowns, users, blanks>>
OpenRejects ==
    /\ link # "up" /\ Settles
    /\ UNCHANGED <<tmux, main, viewing, active, shown, ctl, runs, teardowns, users, blanks>>

(* the channel is lost; one that is not reattached ends with %exit, which  *)
(* empties the view                                                        *)
Lost ==
    /\ link = "up" /\ link' \in {"lost", "none"}
    /\ IF link' = "none" THEN shown' = << >> ELSE UNCHANGED shown
    /\ UNCHANGED <<tmux, epoch, connected, viewing, active, ctl, runs, open, teardowns, users, blanks>>
GivesUp ==
    /\ link = "lost" /\ link' = "none"
    /\ shown' = << >>
    /\ UNCHANGED <<tmux, epoch, connected, viewing, active, ctl, runs, open, teardowns, users, blanks>>

User ==
    /\ users < MaxUser /\ users' = users + 1
    /\ \/ Opens("tab")
       \/ \E i \in Of(windows, {"tab", "run-1"}) :
             Cardinality(DOMAIN windows) > 1 /\ Closes(i)
    /\ UNCHANGED <<main, viewing, active, ctl, runs, open, teardowns, blanks>>

-----------------------------------------------------------------------------
RunStep(r) == \/ Listed(r) \/ Mutated(r) \/ NamesRead(r)
              \/ LayoutsRead(r) \/ Restored(r) \/ Rejected(r)

Next == \/ \E r \in RunIds : RunStep(r)
        \/ RetryFires
        \/ Acquire \/ ViewOther \/ Disconnected \/ Connected \/ SwitchRenderer
        \/ Attached \/ OpenResolves \/ OpenRejects \/ Lost \/ GivesUp \/ User

(* Commands and opens are answered or rejected, timers fire.  A reinit     *)
(* makes progress of its own: two of them do not wait for each other.      *)
Fairness == /\ \A r \in RunIds : WF_vars(RunStep(r))
            /\ WF_vars(RetryFires) /\ WF_vars(OpenResolves \/ OpenRejects)
Spec == Init /\ [][Next]_vars /\ Fairness

-----------------------------------------------------------------------------
(***************************************************************************)
(* Properties                                                              *)
(***************************************************************************)
TypeOK ==
    /\ \A i \in DOMAIN windows : i < nextId /\ windows[i] \in Names
    /\ link \in {"none", "lost", "up"}
    /\ epoch \in 0..MaxEpoch
    /\ {connected, viewing, active, opening} \subseteq BOOLEAN
    /\ \A i \in DOMAIN shown : i < nextId /\ shown[i].name \in Names
    /\ ctl.flight \in RunIds \union {None}
    /\ ctl.attempts \in 0..MaxRetry
    /\ \A r \in RunIds : runs[r].at \in {"free"} \union Stages
    /\ asked \in 0..MaxOpens /\ (opening => asked > 0)

Serving == active /\ connected /\ link = "up"
(* nothing is under way, and nothing was given up *)
Quiet == /\ Serving
         /\ asked = 0 /\ ~ctl.retry /\ ~ctl.gaveUp
         /\ \A r \in RunIds : runs[r].at = "free"

(* Once nothing is under way for the project on the screen, its tabs are   *)
(* the windows of its session, each with its name and its layout: no       *)
(* "window list wrong until a manual switch" (syncFromTmux,                *)
(* controlSession.ts:258).                                                 *)
SettledShowsTmux ==
    /\ TypeOK
    /\ Quiet => /\ DOMAIN shown = DOMAIN windows
                /\ \A i \in DOMAIN shown : shown[i].name = windows[i] /\ shown[i].laid

(* ... and the session has one persistent window and at most one run tty,  *)
(* under the name the Run panel looks for (ensureWindows).                 *)
OneOfEach ==
    Quiet => /\ Cardinality(Of(windows, {"persistent"})) = 1
             /\ Cardinality(Of(windows, Runs)) <= 1
             /\ Of(windows, {"run-2"}) = {}

(* The project on the screen is initialized for the channel it has, or the *)
(* retries are used up, whatever was lost or announced meanwhile.          *)
Converges == Serving ~> (~Serving \/ ctl.gaveUp \/ ctl.initialized = ctl.channel)
=============================================================================
