---------------------------- MODULE MuxHandoff ----------------------------
(***************************************************************************)
(* A live upgrade of cockpit-mux: the serving daemon pauses every PTY      *)
(* reader at a grounded parser boundary, sends descriptors and snapshots   *)
(* to a replacement process, and either retires on the replacement's ACK   *)
(* or reaps it and resumes (cmd/cockpit-mux/main.go handoffChild and       *)
(* upgradeMux; daemon/handoff_prepare.go, handoff_adopt.go,                *)
(* handoff_unix.go, attachment.go and the exit watcher of operations.go).  *)
(*                                                                         *)
(* Daemon 0 is the first one; attempt i of an upgrade starts daemon i, so  *)
(* a daemon that took over can be upgraded again.  A pane's output is a    *)
(* sequence of numbered chunks; a daemon's terminal state of a pane is the *)
(* set of chunks it was fed.                                               *)
(***************************************************************************)
EXTENDS Integers

CONSTANTS
    Panes,      \* the panes that may be created
    None,       \* no pane
    MaxTry,     \* bound: attempts to upgrade
    MaxOut,     \* bound: chunks one pane writes
    Nested      \* may a replacement be upgraded before its parent has read
                \* its ACK or reaped it?  Both accept on the one listener.

ASSUME BoundsAssumption == MaxTry \in Nat /\ MaxOut \in Nat
ASSUME NoneAssumption == None \notin Panes
ASSUME NestedAssumption == Nested \in BOOLEAN

VARIABLES
    \* processes
    proc,       \* where main stands, per daemon
    phase,      \* where upgradeMux stands, per daemon
    child,      \* the replacement an attempt started; 0 before the first
    reply,      \* HandoffResult on the wire, per replacement
    offer,      \* the panes of the manifest sent to a replacement
    tries,      \* replacements started so far
    marker,     \* the daemon named by the file daemon-source-hash
    restore,    \* daemons whose failed attempt has yet to rewrite marker
    \* Operations, per daemon
    sess,       \* the panes in operations.sessions
    prepared,   \* operations.handoffPrepared
    todo,       \* sessions PrepareHandoff has yet to pause
    cur,        \* the session whose reader it is waiting for
    mu,         \* the exit watcher inside operations.mu, named by its pane
    \* attachments, per daemon and pane
    att,        \* the PTY reader
    open,       \* panes whose parser is inside an escape sequence
    has,        \* the chunks the terminal state was fed
    \* the panes themselves
    born, exited,
    hung,       \* what closed the last descriptor of a living pane's PTY
    made, taken \* chunks written to the PTY, chunks read from it

procs == <<proc, phase, child, reply, offer, tries, marker, restore>>
prepares == <<prepared, todo, cur>>
streams == <<open, has, made, taken>>
shells == <<born, exited, hung>>
vars == <<procs, prepares, sess, mu, att, streams, shells>>

Daemons == 0..MaxTry

(* Proc: a replacement is started, has adopted the descriptors and written
   the marker, has written its ACK (handoffAccepted), and then serves; it is
   reaped when it ends before its parent has taken the ACK. *)
Procs == {"none", "started", "marked", "acked", "serving", "dead",
          "reaped"}
Phases == {"idle", "preparing", "backing", "sent", "reaping", "releasing",
           "committed"}

(* Reader: it runs, runs with a pause requested, is paused, was released but
   has not yet cleared handoffRequest, was adopted but never started, or has
   ended; none is a session without an attachment, or no session. *)
Readers == {"none", "reading", "asked", "paused", "waking", "unstarted", "done"}
Running == {"reading", "asked", "waking"}
Causes == {"no", "commit", "reap", "panic"}

Alive(d) == proc[d] \notin {"none", "dead", "reaped"}

(* Daemon d has yet to hear whether c took over. *)
Awaits(d, c) == phase[d] \in {"sent", "reaping"} /\ child[d] = c
Settled(c) == \A d \in Daemons : ~Awaits(d, c)

Init ==
    /\ proc = [d \in Daemons |-> IF d = 0 THEN "serving" ELSE "none"]
    /\ phase = [d \in Daemons |-> "idle"]
    /\ child = [d \in Daemons |-> 0]
    /\ reply = [d \in Daemons |-> "none"]
    /\ offer = [d \in Daemons |-> {}]
    /\ tries = 0
    /\ marker = 0
    /\ restore = {}
    /\ sess = [d \in Daemons |-> {}]
    /\ prepared = [d \in Daemons |-> FALSE]
    /\ todo = [d \in Daemons |-> {}]
    /\ cur = [d \in Daemons |-> None]
    /\ mu = [d \in Daemons |-> None]
    /\ att = [d \in Daemons |-> [p \in Panes |-> "none"]]
    /\ open = [d \in Daemons |-> {}]
    /\ has = [d \in Daemons |-> [p \in Panes |-> {}]]
    /\ born = {}
    /\ exited = {}
    /\ hung = [p \in Panes |-> "no"]
    /\ made = [p \in Panes |-> 0]
    /\ taken = [p \in Panes |-> 0]

(***************************************************************************)
(* Requests, and what the panes do by themselves                           *)
(***************************************************************************)

\* Mutant: requireMutableLocked is not called.
MutableWhilePrepared(d) == proc[d] = "serving" /\ mu[d] = None
(* Operations holds its lock for the whole of create and of destroy, and
   refuses both while a handoff is prepared. *)
Mutable(d) == proc[d] = "serving" /\ ~prepared[d] /\ mu[d] = None

Create(d, p) ==
    /\ Mutable(d)
    /\ p \notin born
    /\ born' = born \union {p}
    /\ sess' = [sess EXCEPT ![d] = @ \union {p}]
    /\ att' = [att EXCEPT ![d][p] = "reading"]
    /\ UNCHANGED <<procs, prepares, mu, streams, exited, hung>>

Destroy(d, p) ==
    /\ Mutable(d)
    /\ p \in sess[d]
    /\ exited' = exited \union {p}
    /\ sess' = [sess EXCEPT ![d] = @ \ {p}]
    /\ att' = [att EXCEPT ![d][p] = "none"]
    /\ open' = [open EXCEPT ![d] = @ \ {p}]
    /\ UNCHANGED <<procs, prepares, mu, has, made, taken, born, hung>>

ShellExits(p) ==
    /\ p \in born \ exited
    /\ exited' = exited \union {p}
    /\ UNCHANGED <<procs, prepares, sess, mu, att, streams, born, hung>>

Emit(p) ==
    /\ p \in born \ exited
    /\ made[p] < MaxOut
    /\ made' = [made EXCEPT ![p] = @ + 1]
    /\ UNCHANGED <<procs, prepares, sess, mu, att, open, has, taken, shells>>

(***************************************************************************)
(* The reader of one pane, and the watcher of its shell                    *)
(***************************************************************************)

(* One turn of the pump; the chunk may end inside an escape sequence. *)
Pump(d, p) ==
    /\ att[d][p] \in {"reading", "asked"}
    /\ taken[p] < made[p]
    /\ taken' = [taken EXCEPT ![p] = @ + 1]
    /\ has' = [has EXCEPT ![d][p] = @ \union {taken[p] + 1}]
    /\ \E s \in {open[d] \union {p}, open[d] \ {p}} : open' = [open EXCEPT ![d] = s]
    /\ UNCHANGED <<procs, prepares, sess, mu, att, made, shells>>

(* The slave side is closed and drained. *)
PumpEnds(d, p) ==
    /\ att[d][p] \in {"reading", "asked"}
    /\ p \in exited /\ taken[p] = made[p]
    /\ att' = [att EXCEPT ![d][p] = "done"]
    /\ UNCHANGED <<procs, prepares, sess, mu, streams, shells>>

(* The reader pauses; PrepareHandoff, which waits for it, captures the
   state of the grounded parser and goes on. *)
pauseIfGrounded(d, p) ==
    /\ att[d][p] = "asked"
    /\ p \notin open[d]
    /\ att' = [att EXCEPT ![d][p] = "paused"]
    /\ cur' = [cur EXCEPT ![d] = None]
    /\ todo' = [todo EXCEPT ![d] = @ \ {p}]
    /\ UNCHANGED <<procs, prepared, sess, mu, streams, shells>>

(* A released reader clears handoffRequest and goes back to reading. *)
Wake(d, p) ==
    /\ att[d][p] = "waking"
    /\ att' = [att EXCEPT ![d][p] = "reading"]
    /\ UNCHANGED <<procs, prepares, sess, mu, streams, shells>>

(* The watcher waits for the reader's end inside operations.mu. *)
watchPaneExit(d, p) ==
    /\ proc[d] = "serving"
    /\ p \in exited \cap sess[d]
    /\ att[d][p] # "none"
    /\ mu[d] = None
    /\ mu' = [mu EXCEPT ![d] = p]
    /\ UNCHANGED <<procs, prepares, sess, att, streams, shells>>

(* After two seconds it stops a reader that still runs; a paused one does
   not see the stop before it is released. *)
WatchStopsReader(d, p) ==
    /\ mu[d] = p
    /\ att[d][p] \in Running
    /\ att' = [att EXCEPT ![d][p] = "done"]
    /\ UNCHANGED <<procs, prepares, sess, mu, streams, shells>>

(* The session stays, without pane and attachment. *)
WatchFinishes(d, p) ==
    /\ mu[d] = p
    /\ att[d][p] = "done"
    /\ att' = [att EXCEPT ![d][p] = "none"]
    /\ mu' = [mu EXCEPT ![d] = None]
    /\ UNCHANGED <<procs, prepares, sess, streams, shells>>

(***************************************************************************)
(* PrepareHandoff: one reader after another, outside operations.mu         *)
(***************************************************************************)
PrepareHandoff(d) ==
    /\ proc[d] = "serving"
    /\ phase[d] = "idle"
    /\ ~prepared[d]
    /\ mu[d] = None
    /\ Nested \/ Settled(d)
    /\ tries < MaxTry
    /\ sess[d] # {}
    /\ \A p \in sess[d] : att[d][p] # "none"
    /\ phase' = [phase EXCEPT ![d] = "preparing"]
    /\ prepared' = [prepared EXCEPT ![d] = TRUE]
    /\ todo' = [todo EXCEPT ![d] = sess[d]]
    /\ UNCHANGED <<proc, child, reply, offer, tries, marker, restore, cur, sess, mu, att,
                   streams, shells>>

(* A reader that has ended never answers; its request just stands. *)
PrepareAsks(d, p) ==
    /\ phase[d] = "preparing"
    /\ cur[d] = None
    /\ p \in todo[d]
    /\ att[d][p] \in {"reading", "done"}
    /\ cur' = [cur EXCEPT ![d] = p]
    /\ att' = [att EXCEPT ![d][p] = IF @ = "reading" THEN "asked" ELSE @]
    /\ UNCHANGED <<procs, prepared, todo, sess, mu, streams, shells>>

\* Mutant: a request the budget ran out on is not withdrawn.
ReleasedOnly(d) == [p \in Panes |-> IF att[d][p] = "paused" THEN "waking" ELSE att[d][p]]
(* Release of every paused reader, and the abort of a pending request. *)
Resumed(d) ==
    [p \in Panes |-> CASE att[d][p] = "paused" -> "waking"
                       [] att[d][p] = "asked" -> "reading"
                       [] OTHER -> att[d][p]]

(* The budget runs out at a reader, a reader still carries the request of an
   earlier attempt, or the listener, the socket pair or the start fails. *)
PrepareFails(d) ==
    /\ phase[d] = "preparing"
    /\ \/ cur[d] # None
       \/ todo[d] = {}
       \/ \E p \in todo[d] : att[d][p] = "waking"
    /\ phase' = [phase EXCEPT ![d] = IF todo[d] = {} THEN "releasing" ELSE "backing"]
    /\ att' = [att EXCEPT ![d] = Resumed(d)]
    /\ todo' = [todo EXCEPT ![d] = {}]
    /\ cur' = [cur EXCEPT ![d] = None]
    /\ UNCHANGED <<proc, child, reply, offer, tries, marker, restore, prepared, sess, mu,
                   streams, shells>>

\* Mutant: the marker is not restored.
NothingDue(d) == restore
(* A failure behind PrepareHandoff has deferred the marker's restoration. *)
Due(d) == IF phase[d] = "releasing" THEN restore \union {d} ELSE restore

(* Release first wakes the readers and only then takes operations.mu. *)
Release(d) ==
    /\ phase[d] \in {"backing", "releasing"}
    /\ mu[d] = None
    /\ prepared' = [prepared EXCEPT ![d] = FALSE]
    /\ phase' = [phase EXCEPT ![d] = "idle"]
    /\ restore' = Due(d)
    /\ UNCHANGED <<proc, child, reply, offer, tries, marker, todo, cur, sess, mu, att,
                   streams, shells>>

(* The deferred write after Release; another attempt may be under way. *)
RestoreMarker(d) ==
    /\ d \in restore
    /\ marker' = d
    /\ restore' = restore \ {d}
    /\ UNCHANGED <<proc, phase, child, reply, offer, tries, prepares, sess, mu, att,
                   streams, shells>>

(***************************************************************************)
(* The end of a process                                                    *)
(***************************************************************************)

(* The living panes whose PTY only process d holds. *)
OnlyHeldBy(d) ==
    {p \in sess[d] \ exited : \A e \in Daemons : Alive(e) /\ p \in sess[e] => e = d}

(* Process d ends: its descriptors close, and a PTY nobody else holds is
   hung up. *)
Ends(d, cause) ==
    /\ proc' = [proc EXCEPT ![d] = IF cause = "reap" THEN "reaped" ELSE "dead"]
    /\ sess' = [sess EXCEPT ![d] = {}]
    /\ prepared' = [prepared EXCEPT ![d] = FALSE]
    /\ todo' = [todo EXCEPT ![d] = {}]
    /\ cur' = [cur EXCEPT ![d] = None]
    /\ mu' = [mu EXCEPT ![d] = None]
    /\ open' = [open EXCEPT ![d] = {}]
    /\ offer' = [offer EXCEPT ![d] = {}]
    /\ exited' = exited \union OnlyHeldBy(d)
    /\ hung' = [p \in Panes |-> IF p \in OnlyHeldBy(d) THEN cause ELSE hung[p]]

AllClosed == [p \in Panes |-> "none"]

(* PrepareHandoff asserts the type of session.attachment without the lock;
   the watcher has set it to nil since the check at the start. *)
Panic(d) ==
    /\ phase[d] = "preparing"
    /\ cur[d] = None
    /\ \E p \in todo[d] : att[d][p] = "none"
    /\ Ends(d, "panic")
    /\ phase' = [phase EXCEPT ![d] = "idle"]
    /\ att' = [att EXCEPT ![d] = AllClosed]
    /\ restore' = restore \ {d}
    /\ UNCHANGED <<child, reply, tries, marker, has, made, taken, born>>

(***************************************************************************)
(* upgradeMux: the transfer                                                *)
(***************************************************************************)

(* PrepareHandoff has returned: every reader is paused. *)
AllPaused(d) == todo[d] = {}

(* The child starts and the manifest is sent. *)
SendHandoff(d) ==
    /\ phase[d] = "preparing"
    /\ AllPaused(d)
    /\ tries < MaxTry
    /\ LET c == tries + 1 IN
       /\ tries' = c
       /\ child' = [child EXCEPT ![d] = c]
       /\ proc' = [proc EXCEPT ![c] = "started"]
       /\ offer' = [offer EXCEPT ![c] = sess[d]]
       /\ has' = [has EXCEPT ![c] = has[d]]
    /\ phase' = [phase EXCEPT ![d] = "sent"]
    /\ UNCHANGED <<reply, marker, restore, prepares, sess, mu, att, open, made, taken,
                   shells>>

Commit(d) ==
    /\ phase[d] = "sent"
    /\ reply[child[d]] = "yes"
    /\ phase' = [phase EXCEPT ![d] = "committed"]
    /\ UNCHANGED <<proc, child, reply, offer, tries, marker, restore, prepares, sess, mu,
                   att, streams, shells>>

(* A NACK, a broken connection, or the deadline - which may pass with an ACK
   already in the socket.  The parent closes its end. *)
GiveUp(d) ==
    /\ phase[d] = "sent"
    /\ phase' = [phase EXCEPT ![d] = "reaping"]
    /\ UNCHANGED <<proc, child, reply, offer, tries, marker, restore, prepares, sess, mu,
                   att, streams, shells>>

\* Mutant: the parent does not wait for the child.
ReapNobody(d) ==
    /\ phase[d] = "reaping"
    /\ att' = [att EXCEPT ![d] = Resumed(d)]
    /\ phase' = [phase EXCEPT ![d] = "releasing"]
    /\ UNCHANGED <<proc, child, reply, offer, tries, marker, restore, prepares, sess, mu,
                   streams, shells>>
(* waitHandoffChild: a second for the child to leave by itself, then a kill;
   after it the deferred Release wakes the readers. *)
ReapChild(d) ==
    /\ phase[d] = "reaping"
    /\ LET c == child[d] IN
       /\ IF ~Alive(c)
          THEN /\ att' = [att EXCEPT ![d] = Resumed(d)]
               /\ UNCHANGED <<proc, sess, prepares, mu, open, offer, exited, hung>>
               /\ phase' = [phase EXCEPT ![d] = "releasing"]
          ELSE /\ Ends(c, "reap")
               /\ att' = [att EXCEPT ![c] = AllClosed, ![d] = Resumed(d)]
               /\ phase' = [phase EXCEPT ![d] = "releasing", ![c] = "idle"]
       /\ restore' = restore \ {c}
    /\ UNCHANGED <<child, reply, tries, marker, has, made, taken, born>>

(* afterResponse closes this accept loop and the process ends; its readers
   stay paused to the last. *)
Retire(d) ==
    /\ phase[d] = "committed"
    /\ Ends(d, "commit")
    /\ phase' = [phase EXCEPT ![d] = "idle"]
    /\ att' = [att EXCEPT ![d] = AllClosed]
    /\ restore' = restore \ {d}
    /\ UNCHANGED <<child, reply, tries, marker, has, made, taken, born>>

(***************************************************************************)
(* handoffChild: the replacement                                           *)
(***************************************************************************)

\* Mutant: an adopted attachment starts like any other.
StartedAtOnce == "reading"
(* newAdoptedSessionAttachment does not start the pump. *)
AdoptedReader == "unstarted"

(* Every descriptor is adopted, then the marker written; the manifest can
   still be read after the parent has given up. *)
AdoptHandoff(c) ==
    /\ proc[c] = "started"
    /\ proc' = [proc EXCEPT ![c] = "marked"]
    /\ sess' = [sess EXCEPT ![c] = offer[c]]
    /\ att' = [att EXCEPT ![c] = [p \in Panes |-> IF p \in offer[c] THEN AdoptedReader
                                                  ELSE "none"]]
    /\ offer' = [offer EXCEPT ![c] = {}]
    /\ marker' = c
    /\ UNCHANGED <<phase, child, reply, tries, restore, prepares, mu, streams, shells>>

(* AbandonHandoff drops the duplicated descriptors and reads nothing. *)
AbandonHandoff(c) ==
    /\ Ends(c, "reap")
    /\ att' = [att EXCEPT ![c] = AllClosed]
    /\ UNCHANGED <<phase, child, tries, marker, restore, has, made, taken, born>>

(* The manifest, the engine, a descriptor or the marker fails: NACK. *)
Reject(c) ==
    /\ proc[c] = "started"
    /\ reply' = [reply EXCEPT ![c] = "no"]
    /\ AbandonHandoff(c)

(* The ACK is the commit point of the replacement: it is accepted as soon as
   the write succeeds, which only needs the parent's end to be open. *)
WriteAck(c) ==
    /\ proc[c] = "marked"
    /\ \E d \in Daemons : phase[d] = "sent" /\ child[d] = c
    /\ proc' = [proc EXCEPT ![c] = "acked"]
    /\ reply' = [reply EXCEPT ![c] = "yes"]
    /\ UNCHANGED <<phase, child, offer, tries, marker, restore, prepares, sess, mu, att,
                   streams, shells>>

AckFails(c) ==
    /\ proc[c] = "marked"
    /\ \A d \in Daemons : ~(phase[d] = "sent" /\ child[d] = c)
    /\ UNCHANGED reply
    /\ AbandonHandoff(c)

(* ActivateHandoffPersistence starts the readers and the watchers, then the
   accept loop runs. *)
Activate(c) ==
    /\ proc[c] = "acked"
    /\ proc' = [proc EXCEPT ![c] = "serving"]
    /\ att' = [att EXCEPT ![c] = [p \in Panes |-> IF att[c][p] = "unstarted" THEN "reading"
                                                  ELSE att[c][p]]]
    /\ UNCHANGED <<phase, child, reply, offer, tries, marker, restore, prepares, sess, mu,
                   streams, shells>>

(***************************************************************************)
(* The specification                                                       *)
(***************************************************************************)
Upgrading(d) ==
    \/ \E p \in Panes : PrepareAsks(d, p)
    \/ PrepareFails(d) \/ Release(d) \/ RestoreMarker(d) \/ Panic(d)
    \/ SendHandoff(d) \/ Commit(d) \/ GiveUp(d) \/ ReapChild(d) \/ Retire(d)

Replacing(c) ==
    AdoptHandoff(c) \/ Reject(c) \/ WriteAck(c) \/ AckFails(c) \/ Activate(c)

Reading(d, p) ==
    \/ Pump(d, p) \/ PumpEnds(d, p) \/ pauseIfGrounded(d, p) \/ Wake(d, p)
    \/ watchPaneExit(d, p) \/ WatchStopsReader(d, p) \/ WatchFinishes(d, p)

Requests ==
    \/ \E d \in Daemons : PrepareHandoff(d)
    \/ \E d \in Daemons, p \in Panes : Create(d, p) \/ Destroy(d, p)
    \/ \E p \in Panes : ShellExits(p) \/ Emit(p)

(* What goes on without anybody asking: deadlines expire, processes and
   goroutines are scheduled. *)
Progress ==
    \/ \E d \in Daemons : Upgrading(d) \/ Replacing(d)
    \/ \E d \in Daemons, p \in Panes : Reading(d, p)

Next == Requests \/ Progress

Spec == Init /\ [][Next]_vars

(***************************************************************************)
(* Properties                                                              *)
(***************************************************************************)

(* Every variable has its type. *)
TypeOK ==
    /\ proc \in [Daemons -> Procs]
    /\ phase \in [Daemons -> Phases]
    /\ child \in [Daemons -> Daemons]
    /\ reply \in [Daemons -> {"none", "yes", "no"}]
    /\ offer \in [Daemons -> SUBSET Panes]
    /\ tries \in Daemons
    /\ marker \in Daemons
    /\ restore \in SUBSET Daemons
    /\ sess \in [Daemons -> SUBSET Panes]
    /\ prepared \in [Daemons -> BOOLEAN]
    /\ todo \in [Daemons -> SUBSET Panes]
    /\ cur \in [Daemons -> Panes \union {None}]
    /\ mu \in [Daemons -> Panes \union {None}]
    /\ att \in [Daemons -> [Panes -> Readers]]
    /\ open \in [Daemons -> SUBSET Panes]
    /\ has \in [Daemons -> [Panes -> SUBSET Int]]
    /\ born \in SUBSET Panes
    /\ exited \in SUBSET Panes
    /\ hung \in [Panes -> Causes]
    /\ made \in [Panes -> Int]
    /\ taken \in [Panes -> Int]

(* Two daemons never read one PTY: attachment.Start begins the sole reader,
   and whatever happens to an ACK the parent wakes its readers only after the
   replacement is gone. *)
OneReader ==
    \A d, e \in Daemons, p \in Panes :
        att[d][p] \in Running /\ att[e][p] \in Running => d = e

(* The daemon that reads a pane has seen all of its output but what a
   replacement read between its ACK and its being reaped. *)
ReadByReaped(p) ==
    UNION {has[c][p] : c \in {e \in Daemons : proc[e] = "reaped" /\ reply[e] = "yes"}}
Seen(d, p) == 1..taken[p] \subseteq has[d][p] \union ReadByReaped(p)
NothingElseLost ==
    \A d \in Daemons, p \in Panes : att[d][p] \in Running => Seen(d, p)

(* What attachment.Start's comment says outright: the daemon that reads a
   pane has seen all of its output. *)
NothingLost ==
    \A d \in Daemons, p \in Panes :
        att[d][p] \in Running => 1..taken[p] \subseteq has[d][p]

(* The retirement of an upgraded daemon hangs up no pane while another, that
   has not itself handed its panes on, is alive: between the first pause and
   the ACK nothing was created that the replacement does not hold. *)
UpgradeKeepsPanes ==
    (\E d \in Daemons : Alive(d) /\ phase[d] # "committed")
        => \A p \in Panes : hung[p] # "commit"

(* Once every attempt is over, the marker names no newer daemon than the one
   that serves; a launcher that trusts a newer name never retries the upgrade
   (recordDaemonSourceHash, and its deferred restoration). *)
MarkerNotAhead ==
    (restore = {} /\ \A d \in Daemons : phase[d] = "idle")
        => \A d \in Daemons : proc[d] = "serving" => marker <= d

(* An attempt that fails leaves the old daemon serving, and one that succeeds
   the new one: there is always a daemon. *)
SomeDaemonServes == \E d \in Daemons : Alive(d)

(* Nothing gets stuck: where no step can be taken unasked, mutations are
   accepted, nobody holds the lock and every living pane has its reader.  In
   particular the watcher that holds operations.mu until a paused reader ends
   never waits for a Release that waits for operations.mu. *)
NothingStuck ==
    ~ENABLED Progress =>
        /\ \A d \in Daemons : ~prepared[d] /\ mu[d] = None
        /\ \A p \in born \ exited : \E d \in Daemons : att[d][p] = "reading"

(***************************************************************************)
(* Why one reader, and why the marker: the inductive invariant             *)
(***************************************************************************)

(* Phases in which a daemon's readers are all paused, for its replacement. *)
Passing == {"sent", "reaping", "committed"}

(* Of two living daemons the older one is passing its panes on. *)
OlderPasses ==
    \A d, e \in Daemons : Alive(d) /\ Alive(e) /\ d < e => phase[d] \in Passing

(* While it awaits the outcome, the younger one is the child it started. *)
AwaitsYoungest ==
    \A d \in Daemons : phase[d] \in {"sent", "reaping"} =>
        /\ child[d] > d /\ child[d] <= tries
        /\ \A e \in Daemons : Alive(e) /\ e > d => e = child[d]

(* An upgrade starts only where nobody awaits the daemon's own outcome. *)
PreparesSettled == \A d \in Daemons : phase[d] = "preparing" => Settled(d)

(* A passing daemon runs no reader; a preparing one only those it has yet to
   pause; only a serving daemon runs one at all. *)
ReadersPaused ==
    \A d \in Daemons, p \in Panes :
        /\ phase[d] \in Passing => att[d][p] \notin Running
        /\ phase[d] = "preparing" /\ p \notin todo[d] => att[d][p] \notin Running
        /\ att[d][p] \in Running => proc[d] = "serving"
        /\ att[d][p] # "none" => p \in sess[d]
        /\ att[d][p] = "unstarted" => proc[d] # "serving"

(* Only a serving daemon upgrades, and it refuses mutations meanwhile. *)
UpgradesWhileServing ==
    \A d \in Daemons :
        /\ phase[d] # "idle" => proc[d] = "serving" /\ prepared[d]
        /\ d \in restore => proc[d] = "serving"
        /\ d > tries => proc[d] = "none"

(* A marker that names a younger daemon is about to be accounted for. *)
MarkerAccounted ==
    /\ marker <= tries
    /\ \A d \in Daemons : Alive(d) /\ marker > d =>
            d \in restore \/ phase[d] \in Passing \union {"releasing"}

IInv ==
    /\ TypeOK
    /\ OlderPasses
    /\ AwaitsYoungest
    /\ PreparesSettled
    /\ ReadersPaused
    /\ UpgradesWhileServing
    /\ MarkerAccounted

(***************************************************************************)
(* Why nothing is lost and no pane is hung up                              *)
(***************************************************************************)

(* A replacement answers once, and its parent learns no answer it did not
   give: one that answered yes lives until its parent has taken the answer or
   killed it, one that has not answered has a parent that waits. *)
Answered ==
    /\ \A d \in Daemons : phase[d] # "idle" => Settled(d)
    /\ \A c \in Daemons : proc[c] \in {"none", "started", "marked"} => reply[c] = "none"
    /\ \A c \in Daemons \ {0} : proc[c] \in {"acked", "serving"} => reply[c] = "yes"
    /\ \A d, c \in Daemons : Awaits(d, c) /\ reply[c] = "yes" => Alive(c)
    /\ \A c \in Daemons :
          proc[c] \in {"started", "marked"} => \E d \in Daemons : Awaits(d, c)

(* A daemon that passes nothing on has seen all output, and so has one whose
   replacement has not accepted: nobody has read since the snapshot. *)
Sighted ==
    /\ \A d \in Daemons, p \in Panes : Alive(d) /\ phase[d] \notin Passing => Seen(d, p)
    /\ \A d, c \in Daemons, p \in Panes :
          Awaits(d, c) /\ reply[c] # "yes" => Seen(d, p)

(* The living panes of a passing daemon are held by every younger one that has
   adopted its descriptors, or on their way to it. *)
HandedOn ==
    /\ \A d, e \in Daemons :
          /\ phase[d] \in Passing /\ e > d
          /\ Alive(e) /\ phase[e] # "committed" /\ proc[e] # "started"
          => sess[d] \ exited \subseteq sess[e]
    /\ \A d, c \in Daemons :
          Awaits(d, c) /\ proc[c] = "started" => sess[d] \ exited \subseteq offer[c]
=============================================================================
