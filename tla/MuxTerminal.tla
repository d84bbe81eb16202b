---------------------------- MODULE MuxTerminal ----------------------------
(***************************************************************************)
(* One stable terminal key of RemoteMuxTerminalManager                     *)
(* (src/electron/main/providers/remote/muxTerminal.ts) over one mux        *)
(* channel, and the daemon panes that carry the key.                       *)
(*                                                                         *)
(* The manager is callback code between awaits: every reply is an action,  *)
(* and any call of the renderer may come between a request and its reply.  *)
(* `wire` is the channel of one epoch: the server answers one request at a *)
(* time and in order (cockpit-mux/daemon/server.go), so a request waits    *)
(* behind those before it.  The daemon carries a request out and its reply *)
(* is handled in one step, for nothing on the client can tell when between *)
(* the two the daemon did it.  A drop rejects every request on the wire,   *)
(* and the daemon has carried out any number of the first of them.         *)
(*                                                                         *)
(* Consecutive awaits where nothing but a delay can happen are one await   *)
(* (connection.open, mux.configure and the request after them).  A poll    *)
(* whose generation stopPolling has invalidated has no effect any more and *)
(* leaves the wire.  Names: `g` is a MuxTerminal object (an opening        *)
(* generation of the key), `cur` the one in the map `terminals`.           *)
(***************************************************************************)
EXTENDS Naturals, Sequences, SequencesExt

CONSTANTS MaxGen,     \* MuxTerminal objects made for the key
          MaxPane,    \* daemon panes made for the key
          MaxOut,     \* output chunks of a pane
          MaxFault,   \* drops of the channel, daemon crashes and thefts
          MaxCall,    \* calls of the renderer
          Overlap     \* TRUE: a rehydration may overlap the reattach of a new
                      \* epoch, and a close the making of a Run tty

ASSUME BoundsAssumption ==
    /\ {MaxGen, MaxPane, MaxOut, MaxCall} \subseteq Nat \ {0}
    /\ MaxFault \in Nat
    /\ Overlap \in BOOLEAN

Gens  == 1..MaxGen
Panes == 1..MaxPane

VARIABLES pane,       \* Panes -> the daemon's record of the pane
          link,       \* the channel: "up", "closing" (by the server), "down"
          spent,      \* how many faults and calls of the renderer there have been
          wire,       \* requests not yet answered, or the event of a theft
          term,       \* Gens -> MuxTerminal
          cur,        \* terminals.get(key), or 0
          made,       \* MuxTerminal objects made so far
          detached,   \* detached.get(key), or NoEntry
          retired,    \* retired.has(key)
          closing,    \* a close waits for connection.open(): the stamp of its call, or 0
          killed,     \* history: close(kill) has resolved, nothing opened since
          screen,     \* Gens -> what the view shows: the seed's sequence
                      \* number, then those of the chunks written after it
          exits       \* Gens -> terminal-exit events emitted

daemonVars == <<pane, spent>>
keyVars    == <<cur, made, detached, retired, closing, killed>>
viewVars   == <<screen, exits>>
vars       == <<pane, link, spent, wire, term, cur, made, detached, retired,
                closing, killed, screen, exits>>

(***************************************************************************)
(* Identities.  A runtime session id is "session-N" as created and         *)
(* "recovered-pane-N" after a daemon crash; the pane id survives.          *)
(***************************************************************************)
NoSid   == <<0, "none">>
NoEntry == [sid |-> NoSid, recovered |-> FALSE]

Present(ps, p) == ps[p].st \in {"live", "exited", "recovered"}
SidOf(ps, p)   == <<p, IF ps[p].st = "recovered" THEN "recovered" ELSE "created">>
Found(ps, sid) == sid[1] \in Panes /\ Present(ps, sid[1]) /\ SidOf(ps, sid[1]) = sid

(* session.list for the key: the entry a later row overwrites              *)
\* Mutant: a recovered pane is listed like a live one.
ListedAsLive == IF {p \in Panes : Present(pane, p)} = {} THEN NoEntry
                ELSE LET p == CHOOSE q \in Panes : Present(pane, q)
                     IN  [sid |-> SidOf(pane, p), recovered |-> FALSE]
Listed ==
    LET present == {p \in Panes : Present(pane, p)}
    IN  IF present = {} THEN NoEntry
        ELSE LET p == CHOOSE q \in present : \A r \in present : r <= q
             IN  [sid |-> SidOf(pane, p), recovered |-> pane[p].st # "live"]

(***************************************************************************)
(* The wire.  create takes a pane number never used.                       *)
(***************************************************************************)
HasFree(ps)  == \E p \in Panes : ps[p].st = "none"
FreePane(ps) == CHOOSE p \in Panes : ps[p].st = "none"

Reply(error, n, row, exited) == [error |-> error, n |-> n, row |-> row, exited |-> exited]
Ok(n)     == Reply("", n, NoEntry, FALSE)
Fails(e)  == Reply(e, 0, NoEntry, FALSE)

(* `why` tells apart the callers of one method, `n` is a sequence number   *)
Request(op, g, sid, why, n) ==
    [op |-> op, g |-> g, sid |-> sid, why |-> why, n |-> n]

Attach(g, sid, why) == Request("attach", g, sid, why, 0)
Output(g, t)        == Request("output", g, t.sid, "", t.next)
Destroy(g, sid, why, n) == Request("destroy", g, sid, why, n)

(* history: which openings a close(kill) comes after *)
Stamp == made + 1

\* Mutant: stopPolling leaves the generation as it is.
NoPollsButTheTimer(q, g) == q
(* stopPolling: the request of an older poll generation is ignored; a      *)
(* terminal has at most one (TypeOK)                                       *)
PollsOf(q, g) == {i \in DOMAIN q : q[i].op = "output" /\ q[i].g = g}
NoPolls(q, g) == IF PollsOf(q, g) = {} THEN q
                 ELSE RemoveAt(q, CHOOSE i \in PollsOf(q, g) : TRUE)


(***************************************************************************)
(* The terminal object                                                     *)
(***************************************************************************)
Unborn == [at |-> "none", kind |-> "restore", sid |-> NoSid, next |-> 1,
           recovered |-> FALSE, waiting |-> FALSE, stolen |-> FALSE,
           finalizing |-> FALSE, timer |-> FALSE, again |-> FALSE]

CanPoll(g, t) == cur = g /\ t.sid # NoSid /\ ~t.recovered /\ ~t.waiting /\ ~t.stolen

Stopped(t) == [t EXCEPT !.timer = FALSE]

(* startPolling, which asks at once; between epochs current() throws and   *)
(* the request fails like one on a dead bridge (pauseForReconnect)         *)
Polling(g, t) == IF ~CanPoll(g, t) \/ link # "down" THEN Stopped(t)
                 ELSE [Stopped(t) EXCEPT !.waiting = TRUE]
PollOn(q, g, t) == IF CanPoll(g, t) /\ link # "down"
                   THEN Append(NoPolls(q, g), Output(g, t)) ELSE q

(* a seed holds everything before the sequence number it resumes at *)
SeedFor(g, resume) == IF term[g].recovered THEN << >> ELSE <<resume - 1>>

Set(g, t) == term' = [term EXCEPT ![g] = t]
Show(g, s) == screen' = [screen EXCEPT ![g] = s]
Emit(g, kind) == exits' = [exits EXCEPT ![g] = Append(@, kind)]

-----------------------------------------------------------------------------
Init ==
    /\ pane = [p \in Panes |-> [st |-> "none", out |-> 0, owner |-> "nobody"]]
    /\ link = "up"
    /\ spent = [fault |-> 0, call |-> 0]
    /\ wire = << >>
    /\ term = [g \in Gens |-> Unborn]
    /\ cur = 0
    /\ made = 0
    /\ detached = NoEntry
    /\ retired = FALSE
    /\ closing = 0
    /\ killed = FALSE
    /\ screen = [g \in Gens |-> << >>]
    /\ exits = [g \in Gens |-> << >>]

Call == spent.call < MaxCall /\ spent' = [spent EXCEPT !.call = @ + 1]

-----------------------------------------------------------------------------
(* The daemon *)

(* The pane's process writes a chunk                                       *)
Produce(p) ==
    /\ pane[p].st = "live" /\ pane[p].out < MaxOut
    /\ pane' = [pane EXCEPT ![p].out = @ + 1]
    /\ UNCHANGED <<link, spent, wire, term, keyVars, viewVars>>

(* The shell ends: the output history stays readable, the owner is gone    *)
Exit(p) ==
    /\ pane[p].st = "live"
    /\ pane' = [pane EXCEPT ![p].st = "exited", ![p].owner = "nobody"]
    /\ UNCHANGED <<link, spent, wire, term, keyVars, viewVars>>

(* What the handler answers to a request, and what it does to the panes    *)
Answer(r) ==
    LET p == r.sid[1]
        other == p \in Panes /\ pane[p].owner = "other"
        absent == p \notin Panes \/ ~Present(pane, p)
    IN  CASE r.op \in {"list", "listclose", "inventory"} -> Reply("", 0, Listed, FALSE)
          [] r.op = "create" -> Ok(FreePane(pane))
          [] r.op = "attach" ->
                 IF ~Found(pane, r.sid) THEN Fails("notfound")
                 ELSE IF pane[p].st = "exited" THEN Fails("exited")
                 ELSE Ok(IF pane[p].st = "live" THEN pane[p].out + 1 ELSE 1)
          [] r.op = "output" ->
                 IF absent THEN Fails("notfound")
                 ELSE IF other THEN Fails("stolen")
                 ELSE Reply("", IF pane[p].st # "recovered" /\ r.n <= pane[p].out THEN r.n ELSE 0,
                            NoEntry, pane[p].st # "live")
          [] r.op = "resize" ->
                 IF absent THEN Fails("notfound")
                 ELSE IF other THEN Fails("stolen")
                 ELSE IF pane[p].st # "live" THEN Fails("exited") ELSE Ok(0)
          [] r.op = "destroy" -> IF Found(pane, r.sid) THEN Ok(0) ELSE Fails("notfound")
          [] OTHER -> Ok(0)

Carried(ps, r) ==
    LET p == r.sid[1]
    IN  CASE r.op = "create" /\ HasFree(ps) ->
                 [ps EXCEPT ![FreePane(ps)] = [st |-> "live", out |-> 0, owner |-> "nobody"]]
          [] r.op = "attach" /\ Found(ps, r.sid) /\ ps[p].st # "exited" ->
                 [ps EXCEPT ![p].owner = "us"]
          [] r.op = "destroy" /\ Found(ps, r.sid) ->
                 [ps EXCEPT ![p].st = "gone", ![p].owner = "nobody"]
          [] r.op = "detach" /\ Found(ps, r.sid) /\ ps[p].owner # "other" ->
                 [ps EXCEPT ![p].owner = "nobody"]
          [] OTHER -> ps

(* Another client attaches: claimAttach tells this connection, then closes it *)
Steal(p) ==
    /\ spent.fault < MaxFault /\ link = "up"
    /\ pane[p].st = "live" /\ pane[p].owner = "us"
    /\ spent' = [spent EXCEPT !.fault = @ + 1]
    /\ pane' = [pane EXCEPT ![p].owner = "other"]
    /\ link' = "closing"
    /\ wire' = <<Request("stolen", 0, SidOf(pane, p), "", 0)>> \o wire
    /\ UNCHANGED <<term, keyVars, viewVars>>

-----------------------------------------------------------------------------
(* What a rejection of the pending requests does to a terminal: a poll, a  *)
(* resize, a reattach and a destroy by close leave it waiting for the next *)
(* epoch; a failed finalization is tried again.                            *)
PausedBy(g, r) ==
    /\ r.g = g /\ cur = g
    /\ \/ r.op \in {"output", "resize", "history"}
       \/ r.op = "attach" /\ r.why \in {"re", "crash"}
       \/ r.op = "destroy" /\ r.why = "polling"

FailsOpening(g, r) ==
    r.g = g /\ (r.op \in {"list", "topology", "create"} \/ (r.op = "attach" /\ r.why = "open"))

Rejected(g) ==
    LET rs == {wire[i] : i \in DOMAIN wire}
        t  == term[g]
    IN  [t EXCEPT !.waiting = @ \/ \E r \in rs : PausedBy(g, r),
                  !.timer = @ /\ ~\E r \in rs : PausedBy(g, r),
                  !.at = IF \E r \in rs : FailsOpening(g, r) THEN "none"
                         ELSE IF \E r \in rs : r.op = "destroy" /\ r.g = g /\ r.why = "exit"
                         THEN "retry" ELSE @]

(* hydrateScrollback swallows its failure and attach() goes on with the seed *)
SeedOf(g) ==
    LET hs == {i \in DOMAIN wire : wire[i].op = "history" /\ wire[i].g = g}
    IN  IF hs = {} THEN screen[g]
        ELSE LET i == CHOOSE j \in hs : \A k \in hs : k <= j IN SeedFor(g, wire[i].n)

CutLink ==
    /\ link' = "down"
    /\ wire' = << >>
    /\ term' = [g \in Gens |-> Rejected(g)]
    /\ screen' = [g \in Gens |-> SeedOf(g)]
    /\ cur' = IF cur # 0 /\ \E i \in DOMAIN wire : FailsOpening(cur, wire[i]) THEN 0 ELSE cur
    /\ UNCHANGED <<made, detached, retired, closing, killed, exits>>

(* What the daemon carried out before the link was cut.  A closed          *)
(* connection detaches the panes it owned.                                 *)
After[k \in 0..Len(wire)] == IF k = 0 THEN pane ELSE Carried(After[k - 1], wire[k])
CarriedOut == IF link = "closing" THEN {pane} ELSE {After[k] : k \in 0..Len(wire)}

Drop ==
    /\ link # "down"
    /\ link = "up" => spent.fault < MaxFault
    /\ spent' = [spent EXCEPT !.fault = IF link = "up" THEN @ + 1 ELSE @]
    /\ CutLink
    /\ \E ps \in CarriedOut :
          pane' = [p \in Panes |-> [ps[p] EXCEPT !.owner = IF @ = "us" THEN "nobody" ELSE @]]

(* A daemon crash takes the channel with it.  The rows of an exited pane   *)
(* are deleted when it exits; a live one comes back read-only.             *)
Crash ==
    /\ link # "down" /\ spent.fault < MaxFault
    /\ spent' = [spent EXCEPT !.fault = @ + 1]
    /\ CutLink
    /\ \E ps \in CarriedOut :
          pane' = [p \in Panes |->
              [ps[p] EXCEPT !.st = CASE @ = "live" -> "recovered" [] @ = "exited" -> "gone" [] OTHER -> @,
                            !.owner = "nobody"]]

\* Mutant: onAttached is not listened to.
ReattachingNothing == << >>
(* onAttached: reconfigureAndReattach, for the established terminal        *)
Reattaching == IF cur # 0 /\ term[cur].sid # NoSid
               THEN <<Request("inventory", cur, NoSid, "", 0)>> ELSE << >>

(* A fresh epoch.  A poll timer (20 ms) has fired long before a reconnect  *)
(* attempt (500 ms and more).                                              *)
Connect ==
    /\ link = "down"
    /\ \A g \in Gens : ~term[g].timer
    /\ link' = "up"
    /\ wire' = Reattaching
    /\ UNCHANGED <<daemonVars, term, keyVars, viewVars>>

-----------------------------------------------------------------------------
(* Calls of the renderer *)

(* open() of a key that has no terminal publishes one before it awaits     *)
(* (createIfMissing is false for a terminal that is restored)              *)
Open(kind) ==
    /\ made < MaxGen /\ cur = 0
    /\ retired => kind # "restore"
    /\ made' = made + 1
    /\ cur' = made + 1
    /\ retired' = FALSE
    /\ killed' = FALSE
    /\ Set(made + 1, [Unborn EXCEPT !.at = "wait", !.kind = kind])
    /\ UNCHANGED <<pane, link, wire, detached, closing, viewVars>>

Pending(g, ops) == \E i \in DOMAIN wire : wire[i].g = g /\ wire[i].op \in ops

(* open() of a live terminal attaches it again (rehydrateMuxTerminal: once *)
(* it is opened, one call at a time); of one that is finalizing or still   *)
(* opening it changes nothing                                              *)
OpenAgain ==
    /\ cur # 0 /\ ~term[cur].finalizing /\ term[cur].sid # NoSid
    /\ ~term[cur].again /\ ~Pending(cur, {"attach", "history"})
    /\ killed' = FALSE
    /\ Set(cur, [term[cur] EXCEPT !.again = TRUE])
    /\ UNCHANGED <<pane, link, wire, cur, made, detached, retired, closing, viewVars>>

\* Mutant: an opening goes on whatever has happened to it.
OpeningRegardless(g) == TRUE
(* requireOpening: no close and no successor has taken the place of g *)
Opening(g) == cur = g

Hide(g) == /\ Set(g, [Stopped(term[g]) EXCEPT !.at = "none"])
           /\ cur' = 0

(* close(), a detach *)
CloseTab ==
    /\ cur # 0 /\ ~term[cur].finalizing
    /\ Overlap \/ ~Pending(cur, {"topology"})
    /\ Hide(cur)
    /\ IF term[cur].sid = NoSid
       THEN UNCHANGED <<wire, detached>>
       ELSE /\ detached' = [sid |-> term[cur].sid, recovered |-> term[cur].recovered]
            /\ wire' = IF link = "down" THEN wire
                       ELSE Append(NoPolls(wire, cur), Request("detach", cur, term[cur].sid, "", 0))
    /\ UNCHANGED <<pane, link, made, retired, closing, killed, viewVars>>

(* close(kill) of a key with no terminal, or of one that is still opening, *)
(* which it cancels: the daemon pane is found by the key                   *)
KillByKey ==
    /\ closing = 0
    /\ cur # 0 => /\ ~term[cur].finalizing /\ term[cur].sid = NoSid
                  /\ Overlap \/ ~Pending(cur, {"topology"})
    /\ IF cur = 0 THEN UNCHANGED <<term, cur, retired>>
       ELSE Hide(cur) /\ retired' = TRUE
    /\ IF detached = NoEntry
       THEN closing' = Stamp /\ UNCHANGED wire
       ELSE /\ wire' = IF link = "down" THEN wire
                       ELSE Append(wire, Destroy(0, detached.sid, "detached", Stamp))
            /\ UNCHANGED closing
    /\ UNCHANGED <<pane, link, made, detached, killed, viewVars>>

(* close(kill) of an attached terminal; its poll is stopped first *)
Kill ==
    LET t == term[cur]
    IN  /\ cur # 0 /\ ~t.finalizing /\ t.sid # NoSid
        /\ ~\E i \in DOMAIN wire : wire[i].op = "destroy" /\ wire[i].g = cur
        /\ IF link = "down"
           THEN Set(cur, Polling(cur, t)) /\ UNCHANGED wire
           ELSE /\ Set(cur, Stopped(t))
                /\ wire' = Append(NoPolls(wire, cur),
                       Destroy(cur, t.sid, IF CanPoll(cur, t) THEN "polling" ELSE "quiet", Stamp))
        /\ UNCHANGED <<pane, link, keyVars, viewVars>>

(* resize() and write(): a failure is told to handleRequestFailure *)
Resize ==
    /\ cur # 0 /\ term[cur].sid # NoSid
    /\ ~\E i \in DOMAIN wire : wire[i].op = "resize"
    /\ IF link = "down"
       THEN Set(cur, [Stopped(term[cur]) EXCEPT !.waiting = TRUE]) /\ UNCHANGED wire
       ELSE wire' = Append(wire, Request("resize", cur, term[cur].sid, "", 0)) /\ UNCHANGED term
    /\ UNCHANGED <<pane, link, keyVars, viewVars>>

-----------------------------------------------------------------------------
(* Continuations that await connection.open(), and timers *)

OpenConnected(g) ==
    /\ term[g].at = "wait" /\ link # "down"
    /\ Set(g, [term[g] EXCEPT !.at = "none"])
    /\ wire' = IF Opening(g) THEN Append(wire, Request("list", g, NoSid, "", 0)) ELSE wire
    /\ UNCHANGED <<daemonVars, link, keyVars, viewVars>>

(* the terminal that was found is attached, whatever became of it since *)
AgainConnected(g) ==
    /\ term[g].again /\ link # "down"
    /\ Overlap \/ ~Pending(g, {"inventory", "attach"})
    /\ Set(g, [Stopped(term[g]) EXCEPT !.again = FALSE])
    /\ wire' = Append(NoPolls(wire, g), Attach(g, term[g].sid, "again"))
    /\ UNCHANGED <<daemonVars, link, keyVars, viewVars>>

CloseConnected ==
    /\ closing # 0 /\ link # "down"
    /\ closing' = 0
    /\ wire' = Append(wire, Request("listclose", 0, NoSid, "", closing))
    /\ UNCHANGED <<daemonVars, link, term, cur, made, detached, retired, killed, viewVars>>

PollTimer(g) ==
    /\ term[g].timer
    /\ Set(g, Polling(g, term[g]))
    /\ wire' = PollOn(wire, g, term[g])
    /\ UNCHANGED <<daemonVars, link, keyVars, viewVars>>

DestroyExited(g) == Destroy(g, term[g].sid, "exit", 0)

FinalizeTimer(g) ==
    /\ term[g].at = "retry" /\ link # "down"
    /\ Set(g, [term[g] EXCEPT !.at = "none"])
    /\ wire' = IF cur = g THEN Append(wire, DestroyExited(g)) ELSE wire
    /\ UNCHANGED <<daemonVars, link, keyVars, viewVars>>

-----------------------------------------------------------------------------
(* Replies *)

Arrives(op) ==
    /\ wire # << >> /\ Head(wire).op = op
    /\ link = "up" \/ op = "stolen"
    /\ pane' = Carried(pane, Head(wire))
Rest == Tail(wire)

(* completeExited *)
Complete(g) ==
    IF cur # g THEN UNCHANGED <<term, keyVars, exits>>
    ELSE /\ Set(g, [Stopped(term[g]) EXCEPT !.finalizing = FALSE, !.at = "none"])
         /\ cur' = 0 /\ retired' = TRUE /\ detached' = NoEntry
         /\ Emit(g, "end")
         /\ UNCHANGED <<made, closing, killed>>

(* reportRecoveredDaemonExit: the terminal stays, read-only *)
ReportCrash(g) ==
    /\ Set(g, [Stopped(term[g]) EXCEPT !.waiting = FALSE])
    /\ Emit(g, "daemon-crash")
    /\ UNCHANGED keyVars

(* handleRequestFailure, for an error of the daemon *)
Failure(g, why) ==
    \/ why = "notfound" /\ wire' = NoPolls(Rest, g) /\ Complete(g)
    \/ /\ why = "exited" /\ ~term[g].recovered
       /\ Set(g, Polling(g, term[g])) /\ wire' = PollOn(Rest, g, term[g])
       /\ UNCHANGED <<keyVars, exits>>
    \/ /\ why = "stolen" \/ (why = "exited" /\ term[g].recovered)
       /\ Set(g, [Stopped(term[g]) EXCEPT !.stolen = @ \/ why = "stolen",
                                          !.waiting = cur = g \/ @ \/ why = "stolen"])
       /\ wire' = NoPolls(Rest, g)
       /\ UNCHANGED <<keyVars, exits>>

(* hydrateDetached: rows are added and overwritten, none is removed *)
Hydrated(r) == IF Answer(r).row = NoEntry THEN detached ELSE Answer(r).row

AbandonOpening(g) == cur' = IF cur = g THEN 0 ELSE cur

(* open(): the durable pane of the key is attached, or one is created *)
ListReply ==
    LET r == Head(wire)  g == r.g  entry == Hydrated(r)
    IN  /\ Arrives("list")
        /\ detached' = entry
        /\ \/ /\ ~Opening(g)
              /\ wire' = Rest /\ UNCHANGED <<term, cur>>
           \/ /\ Opening(g) /\ entry # NoEntry
              /\ Set(g, [term[g] EXCEPT !.sid = entry.sid, !.recovered = entry.recovered])
              /\ wire' = Append(Rest, Attach(g, entry.sid, "open")) /\ UNCHANGED cur
           \/ /\ Opening(g) /\ entry = NoEntry /\ term[g].kind = "restore"
              /\ AbandonOpening(g) /\ wire' = Rest /\ UNCHANGED term
           \/ /\ Opening(g) /\ entry = NoEntry /\ term[g].kind # "restore"
              /\ wire' = Append(Rest, Request(IF term[g].kind = "run" THEN "topology" ELSE "create", g, NoSid, "", 0))
              /\ UNCHANGED <<term, cur>>
        /\ UNCHANGED <<spent, link, made, retired, closing, killed, viewVars>>

(* kind 'run': the prior selection is read, then the pane is created *)
TopologyReply ==
    /\ Arrives("topology")
    /\ wire' = Append(Rest, Request("create", Head(wire).g, NoSid, "", 0))
    /\ UNCHANGED <<spent, link, term, keyVars, viewVars>>

CreateReply ==
    LET r == Head(wire)  g == r.g  sid == <<Answer(r).n, "created">>
    IN  /\ HasFree(pane) /\ Arrives("create")
        /\ Set(g, [term[g] EXCEPT !.sid = sid])
        /\ wire' = IF Opening(g) THEN Append(Rest, Attach(g, sid, "open")) ELSE Rest
        /\ UNCHANGED <<spent, link, keyVars, viewVars>>

(* attach(): the stream resumes after the seed *)
AttachReply ==
    LET r == Head(wire)  g == r.g  why == r.why
        t == [Stopped(term[g]) EXCEPT !.waiting = FALSE, !.next = Answer(r).n]
        seed == SeedFor(g, Answer(r).n)
    IN  /\ Arrives("attach") /\ Answer(r).error = ""
        /\ IF why \in {"open", "again"}
           THEN /\ wire' = Append(Rest, Request("history", g, t.sid, "", Answer(r).n))
                /\ Set(g, [term[g] EXCEPT !.waiting = FALSE, !.next = Answer(r).n])
                /\ UNCHANGED <<screen, exits, keyVars>>
           ELSE /\ Show(g, seed)
                /\ IF why = "crash" /\ cur = g
                   THEN Set(g, t) /\ Emit(g, "daemon-crash") /\ wire' = Rest
                   ELSE Set(g, Polling(g, t)) /\ wire' = PollOn(Rest, g, t) /\ UNCHANGED exits
                /\ UNCHANGED keyVars
        /\ UNCHANGED <<spent, link>>

(* the seed follows the history, and polling starts *)
HistoryReply ==
    LET r == Head(wire)  g == r.g
    IN  /\ Arrives("history")
        /\ Show(g, SeedFor(g, r.n))
        /\ Set(g, Polling(g, term[g])) /\ wire' = PollOn(Rest, g, term[g])
        /\ UNCHANGED <<spent, link, keyVars, exits>>

(* a refused attach fails the open; a refused reattach is told to the view *)
AttachRefused ==
    LET r == Head(wire)  g == r.g  why == r.why
    IN  /\ Arrives("attach") /\ Answer(r).error # ""
        /\ \/ /\ why = "open"
              /\ AbandonOpening(g) /\ wire' = Rest
              /\ UNCHANGED <<term, made, detached, retired, closing, killed, exits>>
           \/ /\ why = "again"
              /\ wire' = Rest /\ UNCHANGED <<term, keyVars, exits>>
           \/ /\ why \in {"re", "crash"} /\ Answer(r).error = "exited"
              /\ wire' = NoPolls(Rest, g) /\ ReportCrash(g)
           \/ /\ why \in {"re", "crash"} /\ Answer(r).error # "exited"
              /\ Failure(g, Answer(r).error)
        /\ UNCHANGED <<spent, link, screen>>

(* reconfigureAndReattach: identities may have changed over a daemon crash *)
InventoryReply ==
    LET r == Head(wire)  g == r.g  row == Answer(r).row
        same == row # NoEntry /\ row.sid[1] = term[g].sid[1]
        t == IF same THEN [term[g] EXCEPT !.sid = row.sid, !.recovered = row.recovered]
             ELSE term[g]
        crashed == same /\ row.recovered /\ row.sid # term[g].sid
    IN  /\ Arrives("inventory")
        /\ detached' = IF same THEN row ELSE detached
        /\ IF cur # g \/ t.stolen
           THEN Set(g, t) /\ wire' = Rest
           ELSE /\ Set(g, Stopped(t))
                /\ wire' = Append(NoPolls(Rest, g),
                                  Attach(g, t.sid, IF crashed THEN "crash" ELSE "re"))
        /\ UNCHANGED <<spent, link, cur, made, retired, closing, killed, viewVars>>

\* Mutant: the first answer that says exited is the last one.
DrainedAtExit(v) == v.exited
(* An answer that is empty and says exited is the end of the stream *)
Drained(v) == v.exited /\ v.n = 0

(* a poll: the chunks are shown, an exited pane is finalized when drained *)
OutputReply ==
    LET r == Head(wire)  g == r.g  t == term[g]  v == Answer(r)
    IN  /\ Arrives("output")
        /\ \/ /\ Answer(r).error = "" /\ Drained(v)
              /\ Set(g, [Stopped(t) EXCEPT !.finalizing = TRUE])
              /\ wire' = Append(Rest, DestroyExited(g))
              /\ UNCHANGED <<keyVars, viewVars>>
           \/ /\ Answer(r).error = "" /\ ~Drained(v)
              /\ IF v.n = 0 THEN UNCHANGED screen
                 ELSE Show(g, Append(screen[g], v.n))
              /\ Set(g, [t EXCEPT !.next = IF v.n = 0 THEN @ ELSE v.n + 1,
                                  !.timer = ~t.waiting])
              /\ wire' = Rest
              /\ UNCHANGED <<keyVars, exits>>
           \/ Answer(r).error # "" /\ Failure(g, v.error) /\ UNCHANGED screen
        /\ UNCHANGED <<spent, link>>

ResizeReply ==
    LET r == Head(wire)
    IN  /\ Arrives("resize")
        /\ IF Answer(r).error = "" THEN wire' = Rest /\ UNCHANGED <<term, keyVars, exits>>
           ELSE Failure(r.g, Answer(r).error)
        /\ UNCHANGED <<spent, link, screen>>

(* close(kill) of an attached terminal, and of a detached one *)
DestroyReply ==
    LET r == Head(wire)  g == r.g
    IN  /\ Arrives("destroy")
        /\ \/ /\ r.why \in {"polling", "quiet"} /\ Answer(r).error = ""
              /\ wire' = NoPolls(Rest, g)
              /\ Set(g, Stopped(term[g]))
              /\ cur' = 0 /\ retired' = TRUE /\ detached' = NoEntry
              /\ killed' = (r.n = Stamp)
              /\ Emit(g, "end")
              /\ UNCHANGED <<made, closing>>
           \/ /\ r.why \in {"polling", "quiet"} /\ Answer(r).error # ""
              /\ IF r.why = "polling" THEN Set(g, Polling(g, term[g])) /\ wire' = PollOn(Rest, g, term[g])
                 ELSE wire' = Rest /\ UNCHANGED term
              /\ UNCHANGED <<keyVars, exits>>
           \/ /\ r.why = "detached"
              /\ IF Answer(r).error = ""
                 THEN retired' = TRUE /\ detached' = NoEntry /\ killed' = (r.n = Stamp)
                 ELSE UNCHANGED <<retired, detached, killed>>
              /\ wire' = Rest
              /\ UNCHANGED <<term, cur, made, closing, exits>>
           \/ r.why = "exit" /\ wire' = NoPolls(Rest, g) /\ Complete(g)
        /\ UNCHANGED <<spent, link, screen>>

(* close(kill) by key: what the inventory names is destroyed *)
CloseListReply ==
    LET r == Head(wire)  entry == Hydrated(r)
    IN  /\ Arrives("listclose")
        /\ detached' = entry
        /\ wire' = IF entry = NoEntry THEN Rest
                   ELSE Append(Rest, Destroy(0, entry.sid, "detached", r.n))
        /\ killed' = (killed \/ (entry = NoEntry /\ r.n = Stamp))
        /\ UNCHANGED <<spent, link, term, cur, made, retired, closing, viewVars>>

DetachReply ==
    /\ Arrives("detach") /\ wire' = Rest
    /\ UNCHANGED <<spent, link, term, keyVars, viewVars>>

(* onStolen *)
StolenEvent ==
    LET r == Head(wire)
        hit == cur # 0 /\ term[cur].sid = r.sid
    IN  /\ Arrives("stolen")
        /\ wire' = IF hit THEN NoPolls(Rest, cur) ELSE Rest
        /\ IF hit THEN Set(cur, [Stopped(term[cur]) EXCEPT !.stolen = TRUE, !.waiting = TRUE])
           ELSE UNCHANGED term
        /\ UNCHANGED <<spent, link, keyVars, viewVars>>

Replies ==
    \/ ListReply \/ TopologyReply \/ CreateReply \/ AttachReply \/ AttachRefused
    \/ HistoryReply \/ InventoryReply \/ OutputReply \/ ResizeReply
    \/ DestroyReply \/ CloseListReply \/ DetachReply \/ StolenEvent

Continuations ==
    \/ CloseConnected
    \/ \E g \in Gens : OpenConnected(g) \/ AgainConnected(g) \/ PollTimer(g) \/ FinalizeTimer(g)

Calls ==
    /\ Call
    /\ \/ \E kind \in {"restore", "create", "run"} : Open(kind)
       \/ OpenAgain \/ CloseTab \/ KillByKey \/ Kill \/ Resize

Next ==
    \/ Replies \/ Continuations \/ Calls \/ Connect \/ Drop \/ Crash
    \/ \E p \in Panes : Produce(p) \/ Exit(p) \/ Steal(p)

(* The event loop runs timers and continuations, the server answers, the   *)
(* connection manager reconnects until it succeeds, and a connection the   *)
(* server has closed ends.                                                 *)
Fairness ==
    /\ WF_vars(Replies) /\ WF_vars(Connect)
    /\ WF_vars(link = "closing" /\ wire = << >> /\ Drop)
    /\ WF_vars(CloseConnected)
    /\ \A g \in Gens : /\ WF_vars(OpenConnected(g)) /\ WF_vars(AgainConnected(g))
                       /\ WF_vars(PollTimer(g)) /\ WF_vars(FinalizeTimer(g))

Spec == Init /\ [][Next]_vars /\ Fairness

-----------------------------------------------------------------------------
Entries == [sid : {NoSid} \cup (Panes \X {"created", "recovered"}), recovered : BOOLEAN]

(* Type invariant of the state the manager and the daemon keep for the key *)
(* (a terminal has one poll: a timer or a request)                         *)
TypeOK ==
    /\ pane \in [Panes -> [st : {"none", "live", "exited", "recovered", "gone"},
                           out : 0..MaxOut, owner : {"nobody", "us", "other"}]]
    /\ link \in {"up", "closing", "down"}
    /\ link = "down" => wire = << >>
    /\ \A g \in Gens : term[g].at \in {"none", "wait", "retry"}
    /\ cur \in 0..made /\ made \in 0..MaxGen
    /\ detached \in Entries
    /\ {retired, killed} \subseteq BOOLEAN /\ closing \in 0..Stamp
    /\ \A g \in Gens : /\ \A i, j \in PollsOf(wire, g) : i = j
                       /\ term[g].timer => PollsOf(wire, g) = {}
    /\ \A g \in Gens : exits[g] \in Seq({"end", "daemon-crash"})

(* What a view shows is one seed and then every chunk after it, in order,  *)
(* none missing and none twice, over reattaches, concurrent attaches of a  *)
(* reloaded renderer, late polls and drops (pollGeneration, resume_sequence) *)
(* and a terminal has one poll, a timer or a request (TypeOK).               *)
StreamContinuous ==
    TypeOK /\ \A g \in Gens : \A i \in 2..Len(screen[g]) : screen[g][i] = screen[g][i - 1] + 1

(* The daemon never holds two panes of one key: an opening that was closed *)
(* and opened again finds the pane of its predecessor (hydrateDetached).   *)
(* After close(kill) has resolved it holds none, until the key is opened   *)
(* again: an opening that the close cancelled does not create one behind   *)
(* it (requireOpening).                                                    *)
OneDaemonPane ==
    /\ \A p, q \in Panes : Present(pane, p) /\ Present(pane, q) => p = q
    /\ killed => \A p \in Panes : ~Present(pane, p)

(* When the manager decides that a pane has ended, everything the pane has *)
(* written is on the screen: the tail is not dropped (the drain boundary); *)
(* and a view is told the end only when no process of it runs.             *)
DrainedBeforeEnd ==
    \A g \in Gens :
        /\ (cur = g /\ term[g].finalizing /\ pane[term[g].sid[1]].st = "exited")
               => screen[g][Len(screen[g])] = pane[term[g].sid[1]].out
        /\ exits[g] # << >> => pane[term[g].sid[1]].st # "live"

(* A pane whose process runs, or that was recovered after a daemon crash,  *)
(* leaves the daemon by a close of the user's, never by the automatic      *)
(* finalization of an ended pane                                           *)
ClosedOnlyByUser ==
    [][\A p \in Panes : (pane[p].st \in {"live", "recovered"} /\ pane'[p].st = "gone")
          => \E i \in DOMAIN wire : /\ wire[i].op = "destroy" /\ wire[i].why # "exit"
                                    /\ wire[i].sid[1] = p]_vars

Shown(g) == IF screen[g] = << >> THEN 0 ELSE screen[g][Len(screen[g])]

(* The screen of a terminal catches up with its live pane, over every drop *)
(* and every reattach, unless the terminal goes, the pane ends or another  *)
(* client takes it                                                         *)
ScreenCatchesUp ==
    \A p \in Panes :
        LET watched == cur # 0 /\ term[cur].sid[1] = p /\ pane[p].st = "live"
        IN  watched ~> \/ ~watched
                       \/ term[cur].stolen \/ pane[p].owner = "other"
                       \/ Shown(cur) = pane[p].out

(* muxTerminal.ts:1111-1114: "Do not emit terminal-exit ... until the      *)
(* catalog deletion succeeds"                                              *)
ExitMeansDeleted ==
    \A g \in Gens : (exits[g] # << >> /\ cur = g) => pane[term[g].sid[1]].st # "exited"
=============================================================================
