----------------------------- MODULE HelperRpc -----------------------------
(***************************************************************************)
(* The callback path of a remote project: `cockpit` CLIs on the host       *)
(* connect to the unix socket of the project's remote-helper, which        *)
(* forwards each request as an event on its RPC stream; the application    *)
(* answers with a callback.reply request, which the helper's reader relays *)
(* to the CLI while its one worker runs every other request in order.      *)
(*                                                                         *)
(* Helpers are numbered in the order they are launched, callback services  *)
(* in the order they bind; all of them serve one socket path.  Other       *)
(* methods ("slow") may hang.  A request is known by the connection that   *)
(* sent it, and the answer of the application by the request it answers.   *)
(***************************************************************************)
EXTENDS Naturals, Sequences, FiniteSets

CONSTANTS MaxHelper,    \* helper processes launched, one after the other
          MaxService,   \* callback services bound, by all of them
          MaxConn,      \* connections of CLIs
          MaxActors,    \* helpers and connections together
          MaxCall,      \* requests sent but replies and first handshakes
          Backlog,      \* callbackEventBacklog
          MaxPipe       \* frames the output pipe takes before its writer blocks

ASSUME BoundsAssumption ==
    {MaxHelper, MaxService, MaxConn, MaxActors, MaxCall, Backlog, MaxPipe}
        \subseteq Nat \ {0}

Helpers == 1 .. MaxHelper
Services == 1 .. MaxService
Conns == 1 .. MaxConn

VARIABLES
    client,     \* the application's HelperRpcClient of a helper: "none", "open", "closed"
    bridge,     \* the helper whose events the application answers, or 0
    reported,   \* the helpers whose handshake has been answered
    calls,      \* other requests sent so far
    wire,       \* requests on their way to a helper
    ended,      \* the end of its input has reached the helper, behind wire
    proc,       \* "off", "boot", "serve", "eof", "drain", "last", "gone"
    queue,      \* requestQueue
    work,       \* what the worker runs: "idle", "hello", "bound", "slow"
    cb,         \* s.callback: the installed service, or 0
    out,        \* frames in the output pipe, and behind it those of blocked writers
    svc,        \* callbackService and its listener
    path,       \* the service whose socket the path names, or 0
    events,     \* c.events of a service
    conn        \* connections

clientVars == <<client, bridge, reported, calls>>
procVars == <<proc, queue, work, cb>>
svcVars == <<svc, path>>
vars == <<clientVars, wire, ended, procVars, out, svcVars, events, conn>>

\* Services bound so far.
made == Cardinality({s \in Services : svc[s].st # "none"})

\* The bound on helpers and connections.
Affordable ==
    Cardinality({h \in Helpers : client[h] # "none"}) +
    Cardinality({c \in Conns : conn[c].at # "none"}) < MaxActors

Init ==
    /\ client = [h \in Helpers |-> "none"] /\ bridge = 0 /\ reported = {} /\ calls = 0
    /\ wire = [h \in Helpers |-> <<>>] /\ ended = [h \in Helpers |-> FALSE]
    /\ proc = [h \in Helpers |-> "off"] /\ queue = [h \in Helpers |-> <<>>]
    /\ work = [h \in Helpers |-> "idle"] /\ cb = [h \in Helpers |-> 0]
    /\ out = [h \in Helpers |-> <<>>]
    /\ svc = [s \in Services |-> [st |-> "none", h |-> 1]] /\ path = 0
    /\ events = [s \in Services |-> <<>>]
    /\ conn = [c \in Conns |-> [at |-> "none", s |-> 0, id |-> 0, reply |-> 0, ans |-> "none"]]

-----------------------------------------------------------------------------
(* The application.                                                        *)

Request(op) == [op |-> op, id |-> 0, for |-> 0]
Reply(id, c) == [op |-> "reply", id |-> id, for |-> c]

\* RemoteHelperLauncher.launch: the bridge is registered on the new client
\* before its handshake is sent.
Launch(h) ==
    /\ client[h] = "none"
    /\ \A g \in Helpers : g < h => client[g] = "closed"
    /\ Affordable
    /\ client' = [client EXCEPT ![h] = "open"]
    /\ bridge' = h
    /\ proc' = [proc EXCEPT ![h] = "boot"]
    /\ wire' = [wire EXCEPT ![h] = <<Request("hello")>>]
    /\ UNCHANGED <<reported, calls, ended, queue, work, cb, out, svcVars, events, conn>>

\* Any other method, and a handshake sent again.
Call(h) ==
    /\ client[h] = "open" /\ h \in reported /\ calls < MaxCall
    /\ calls' = calls + 1
    /\ \E op \in {"slow", "hello"} : wire' = [wire EXCEPT ![h] = Append(@, Request(op))]
    /\ UNCHANGED <<client, bridge, reported, ended, procVars, out, svcVars, events, conn>>

\* onData: one frame.  An event goes to the bridge, which decides at once and
\* sends its callback.reply; without a bridge it is dropped.
Dispatch(h) ==
    /\ client[h] = "open" /\ out[h] # <<>>
    /\ LET f == Head(out[h]) IN
       /\ out' = [out EXCEPT ![h] = Tail(@)]
       /\ reported' = IF f.kind = "hello" THEN reported \cup {h} ELSE reported
       /\ wire' = IF f.kind = "event" /\ bridge = h
                  THEN [wire EXCEPT ![h] = Append(@, Reply(f.id, f.for))] ELSE wire
    /\ UNCHANGED <<client, bridge, calls, ended, procVars, svcVars, events, conn>>

\* The input of h ends behind what was sent; its output goes nowhere.
StreamEnds(h) == ended' = [ended EXCEPT ![h] = TRUE] /\ out' = [out EXCEPT ![h] = <<>>]

\* disconnect(): the bridge stops, the helper's input ends behind what was
\* sent, the connection closes.
Disconnect(h) ==
    /\ client[h] = "open"
    /\ bridge' = 0
    /\ client' = [client EXCEPT ![h] = "closed"]
    /\ StreamEnds(h)
    /\ UNCHANGED <<reported, calls, wire, procVars, svcVars, events, conn>>

\* The link is lost: failAll closes the client for good; the host may notice
\* late or never, and what was on its way may be cut short.
LinkLost(h) ==
    /\ client[h] = "open"
    /\ client' = [client EXCEPT ![h] = "closed"]
    /\ \E n \in 0 .. Len(wire[h]) : wire' = [wire EXCEPT ![h] = SubSeq(@, 1, n)]
    /\ UNCHANGED <<bridge, reported, calls, ended, procVars, out, svcVars, events, conn>>

\* The host ends the stream of a lost link; its writers fail from here on.
Noticed(h) ==
    /\ client[h] = "closed" /\ ~ended[h]
    /\ StreamEnds(h)
    /\ UNCHANGED <<clientVars, wire, procVars, svcVars, events, conn>>

-----------------------------------------------------------------------------
(* The helper's output: one frame at a time behind writeMu.  A writer whose *)
(* frame does not fit the pipe is blocked until the application has read.   *)

TheReader == <<"reader", 0>>
TheWorker == <<"worker", 0>>
EventsOf(s) == <<"events", s>>
Frame(kind, by, id, c) == [kind |-> kind, by |-> by, id |-> id, for |-> c]
Blocked(h, by) == \E i \in DOMAIN out[h] : i > MaxPipe /\ out[h][i].by = by

\* A frame written to a stream that has ended goes nowhere.
Write(h, frame) == out' = [out EXCEPT ![h] = IF ended[h] THEN <<>> ELSE Append(@, frame)]

-----------------------------------------------------------------------------
(* Connections (forward, deliverReply).                                    *)

PendingOf(s) == {c \in Conns : conn[c].s = s /\ conn[c].at \in {"wait", "decided"}}
HelperOf(c) == IF conn[c].s = 0 THEN 0 ELSE svc[conn[c].s].h

\* connSeq is server-wide.
\* Mutant of NextId: a new service counts from 1 again.
NextIdOfService(s) == 1 + Cardinality({c \in Conns : conn[c].id > 0 /\ conn[c].s = s})
NextId(s) == 1 + Cardinality({c \in Conns : conn[c].id > 0 /\ HelperOf(c) = svc[s].h})

Decide(c, ans) == conn' = [conn EXCEPT ![c].at = "decided", ![c].ans = ans]

\* A CLI connects to the socket the path names.
Connect(c) ==
    /\ conn[c].at = "none" /\ \A d \in Conns : d < c => conn[d].at # "none"
    /\ path # 0 /\ svc[path].st = "open" /\ Affordable
    /\ conn' = [conn EXCEPT ![c].at = "accepted", ![c].s = path]
    /\ UNCHANGED <<clientVars, wire, ended, procVars, out, svcVars, events>>

\* handleRequest: refused by the checks or the rate limit at the edge, by a
\* service that is closing, or by a full backlog; else registered and queued.
Ask(c) ==
    LET s == conn[c].s IN
    /\ conn[c].at = "accepted" /\ svc[s].st # "dead"
    /\ \/ conn' = [conn EXCEPT ![c].at = "done", ![c].ans = "refused"] /\ UNCHANGED events
       \/ svc[s].st = "closing" /\ Decide(c, "not-connected") /\ UNCHANGED events
       \/ /\ svc[s].st = "open" /\ Len(events[s]) = Backlog
          /\ conn' = [conn EXCEPT ![c].at = "decided", ![c].id = NextId(s), ![c].ans = "not-connected"]
          /\ UNCHANGED events
       \/ /\ svc[s].st = "open" /\ Len(events[s]) < Backlog
          /\ conn' = [conn EXCEPT ![c].at = "wait", ![c].id = NextId(s)]
          /\ events' = [events EXCEPT ![s] = Append(@, c)]
    /\ UNCHANGED <<clientVars, wire, ended, procVars, out, svcVars>>

\* writeEvents: the one writer of a service; it may still write while closing.
WriteEvent(s) ==
    LET h == svc[s].h IN
    /\ svc[s].st \in {"open", "closing"} /\ events[s] # <<>> /\ ~Blocked(h, EventsOf(s))
    /\ LET c == Head(events[s]) IN
       /\ events' = [events EXCEPT ![s] = Tail(@)]
       /\ Write(h, Frame("event", EventsOf(s), conn[c].id, c))
       /\ \/ UNCHANGED conn
          \/ ended[h] /\ conn[c].at = "wait" /\ Decide(c, "not-connected")
    /\ UNCHANGED <<clientVars, wire, ended, procVars, svcVars>>

\* The select of forward: a reply, the forward timeout, or a closing service.
Answered(c) ==
    /\ conn[c].at = "wait" /\ svc[conn[c].s].st # "dead"
    /\ \/ conn[c].reply # 0 /\ Decide(c, "app")
       \/ svc[conn[c].s].st = "closing" /\ Decide(c, "not-connected")
    /\ UNCHANGED <<clientVars, wire, ended, procVars, out, svcVars, events>>
TimesOut(c) ==
    /\ conn[c].at = "wait" /\ svc[conn[c].s].st # "dead"
    /\ Decide(c, "timeout")
    /\ UNCHANGED <<clientVars, wire, ended, procVars, out, svcVars, events>>

\* unregister, and the answer goes to the CLI.
Finish(c) ==
    /\ conn[c].at = "decided" /\ svc[conn[c].s].st # "dead"
    /\ conn' = [conn EXCEPT ![c].at = "done"]
    /\ UNCHANGED <<clientVars, wire, ended, procVars, out, svcVars, events>>

\* waitClosed: an answer not yet written when the grace of a closing service is
\* over (requests and waits are woken at its beginning).
GraceOver(c) ==
    /\ conn[c].at = "decided" /\ svc[conn[c].s].st = "closing"
    /\ conn' = [conn EXCEPT ![c].at = "dropped"]
    /\ UNCHANGED <<clientVars, wire, ended, procVars, out, svcVars, events>>

\* deliverReply, to the installed service only: the first reply is kept.
Deliver(h, r) ==
    conn' = [c \in Conns |->
               IF cb[h] # 0 /\ c \in PendingOf(cb[h]) /\ conn[c].id = r.id /\ conn[c].reply = 0
               THEN [conn[c] EXCEPT !.reply = r.for] ELSE conn[c]]

-----------------------------------------------------------------------------
(* The helper process.                                                     *)

\* bootstrapPath and the first read: nothing is served before.
Boot(h) ==
    /\ proc[h] = "boot"
    /\ proc' = [proc EXCEPT ![h] = "serve"]
    /\ UNCHANGED <<clientVars, wire, ended, queue, work, cb, out, svcVars, events, conn>>

\* Mutant of MayRead: the read loop runs the methods itself.
MayReadInTurn(h) == queue[h] = <<>> /\ work[h] = "idle"
\* The reader waits for nothing but its own frame.
MayRead(h) == ~Blocked(h, TheReader)

\* readLoop: callback.reply is answered here, everything else is queued.
Read(h) ==
    /\ proc[h] = "serve" /\ wire[h] # <<>> /\ MayRead(h)
    /\ LET r == Head(wire[h]) IN
       /\ wire' = [wire EXCEPT ![h] = Tail(@)]
       /\ \/ /\ r.op = "reply"
             /\ Deliver(h, r)
             /\ Write(h, Frame("result", TheReader, 0, 0))
             /\ UNCHANGED queue
          \/ /\ r.op # "reply"
             /\ queue' = [queue EXCEPT ![h] = Append(@, r.op)]
             /\ UNCHANGED <<out, conn>>
    /\ UNCHANGED <<clientVars, ended, proc, work, cb, svcVars, events>>

\* The worker takes the next request, in the order of arrival.
Take(h) ==
    /\ proc[h] \in {"serve", "eof", "drain"}
    /\ work[h] = "idle" /\ queue[h] # <<>> /\ ~Blocked(h, TheWorker)
    /\ work' = [work EXCEPT ![h] = Head(queue[h])]
    /\ queue' = [queue EXCEPT ![h] = Tail(@)]
    /\ UNCHANGED <<clientVars, wire, ended, proc, cb, out, svcVars, events, conn>>

\* A method ends; it may never do so.
Slow(h) ==
    /\ work[h] = "slow"
    /\ work' = [work EXCEPT ![h] = "idle"]
    /\ Write(h, Frame("result", TheWorker, 0, 0))
    /\ UNCHANGED <<clientVars, wire, ended, proc, queue, cb, svcVars, events, conn>>

\* Closing removes the socket file only if it is still the service's own.
\* Mutant of Unlinked: whatever is there is removed.
UnlinkedWhatever(s) == 0
Unlinked(s) == IF path = s THEN 0 ELSE path

\* close and retire of the service s, 0 for none.
Closing(s) ==
    IF s = 0 THEN UNCHANGED svcVars
    ELSE /\ svc' = [svc EXCEPT ![s].st = "closing"]
         /\ path' = Unlinked(s)

\* startCallback: the new listener serves the path from its bind on.
Bind(h) ==
    /\ work[h] = "hello" /\ made < MaxService
    /\ svc' = [svc EXCEPT ![made + 1] = [st |-> "open", h |-> h]]
    /\ path' = made + 1
    /\ work' = [work EXCEPT ![h] = "bound"]
    /\ UNCHANGED <<clientVars, wire, ended, proc, queue, cb, out, events, conn>>

\* Then it is installed, and the service before it retires.
Install(h) ==
    /\ work[h] = "bound"
    /\ LET s == CHOOSE s \in Services : svc[s].h = h /\ svc[s].st # "none"
                        /\ \A t \in Services : svc[t].st # "none" /\ svc[t].h = h => t <= s
       IN cb' = [cb EXCEPT ![h] = s]
    /\ Closing(cb[h])
    /\ work' = [work EXCEPT ![h] = "idle"]
    /\ Write(h, Frame("hello", TheWorker, 0, 0))
    /\ UNCHANGED <<clientVars, wire, ended, proc, queue, events, conn>>

\* No callback on this host: the handshake succeeds without it.
Disabled(h) ==
    /\ work[h] = "hello"
    /\ work' = [work EXCEPT ![h] = "idle"]
    /\ Write(h, Frame("hello", TheWorker, 0, 0))
    /\ UNCHANGED <<clientVars, wire, ended, proc, queue, cb, svcVars, events, conn>>

\* closeCallback: by the reader at the end of its input, and once more when
\* the worker has finished, for a handshake that was still queued.
CloseCallback(h) ==
    /\ cb' = [cb EXCEPT ![h] = 0]
    /\ Closing(cb[h])
Eof(h) ==
    /\ proc[h] = "serve" /\ wire[h] = <<>> /\ ended[h]
    /\ CloseCallback(h)
    /\ proc' = [proc EXCEPT ![h] = "eof"]
    /\ UNCHANGED <<clientVars, wire, ended, queue, work, out, events, conn>>
\* Its connections are drained, or the grace is over: the queue closes.
QueueClosed(h) ==
    /\ proc[h] = "eof"
    /\ proc' = [proc EXCEPT ![h] = "drain"]
    /\ UNCHANGED <<clientVars, wire, ended, queue, work, cb, out, svcVars, events, conn>>

WorkerDone(h) ==
    /\ proc[h] = "drain" /\ queue[h] = <<>> /\ work[h] = "idle"
    /\ CloseCallback(h)
    /\ proc' = [proc EXCEPT ![h] = "last"]
    /\ UNCHANGED <<clientVars, wire, ended, queue, work, out, events, conn>>

\* The process ends: so do its sockets and what waits on them.
Ends(h) ==
    /\ proc' = [proc EXCEPT ![h] = "gone"]
    /\ svc' = [s \in Services |-> IF svc[s].h = h /\ svc[s].st # "none"
                                  THEN [svc[s] EXCEPT !.st = "dead"] ELSE svc[s]]
    /\ conn' = [c \in Conns |-> IF HelperOf(c) = h /\ conn[c].at # "done"
                                THEN [conn[c] EXCEPT !.at = "dropped"] ELSE conn[c]]
    /\ events' = [s \in Services |-> IF svc[s].h = h THEN <<>> ELSE events[s]]
    /\ UNCHANGED path
Exit(h) ==
    /\ proc[h] = "last"
    /\ Ends(h)
    /\ UNCHANGED <<clientVars, wire, ended, queue, work, cb, out>>

-----------------------------------------------------------------------------
Application(h) == Launch(h) \/ Call(h) \/ Dispatch(h) \/ Disconnect(h) \/ LinkLost(h) \/ Noticed(h)
Worker(h) == Take(h) \/ Slow(h) \/ Bind(h) \/ Install(h) \/ Disabled(h)
Reader(h) == Boot(h) \/ Read(h) \/ Eof(h)
Process(h) == Reader(h) \/ Worker(h) \/ QueueClosed(h) \/ WorkerDone(h) \/ Exit(h)
Serving(c) == Ask(c) \/ Answered(c) \/ TimesOut(c) \/ Finish(c)
Next ==
    \/ \E h \in Helpers : Application(h) \/ Process(h)
    \/ \E s \in Services : WriteEvent(s)
    \/ \E c \in Conns : Connect(c) \/ Serving(c) \/ GraceOver(c)

\* The application reads, the reader reads, connections have their timers;
\* no method of the worker need ever end, no lost link be noticed.
Fairness ==
    /\ \A h \in Helpers : WF_vars(Dispatch(h)) /\ WF_vars(Reader(h))
    /\ \A c \in Conns : WF_vars(Serving(c))

Spec == Init /\ [][Next]_vars /\ Fairness

-----------------------------------------------------------------------------
Writers == {TheReader, TheWorker} \cup {EventsOf(s) : s \in Services}
Msgs == [op : {"reply", "slow", "hello"}, id : Nat, for : {0} \cup Conns]
Frames == [kind : {"event", "hello", "result"}, by : Writers, id : Nat, for : {0} \cup Conns]
ConnStates == {"none", "accepted", "wait", "decided", "done", "dropped"}
Answers == {"none", "refused", "not-connected", "timeout", "app"}

TypeOK ==
    /\ client \in [Helpers -> {"none", "open", "closed"}] /\ bridge \in {0} \cup Helpers
    /\ reported \subseteq Helpers /\ calls \in Nat
    /\ wire \in [Helpers -> Seq(Msgs)] /\ ended \in [Helpers -> BOOLEAN]
    /\ proc \in [Helpers -> {"off", "boot", "serve", "eof", "drain", "last", "gone"}]
    /\ queue \in [Helpers -> Seq({"slow", "hello"})]
    /\ work \in [Helpers -> {"idle", "hello", "bound", "slow"}]
    /\ cb \in [Helpers -> {0} \cup Services] /\ path \in {0} \cup Services
    /\ out \in [Helpers -> Seq(Frames)]
    /\ svc \in [Services -> [st : {"none", "open", "closing", "dead"}, h : Helpers]]
    /\ events \in [Services -> Seq(Conns)]
    /\ conn \in [Conns -> [at : ConnStates, s : {0} \cup Services, id : Nat,
                          reply : {0} \cup Conns, ans : Answers]]
    /\ \A s \in Services : Len(events[s]) <= Backlog
    /\ \A c \in Conns : conn[c].at # "none" => conn[c].s # 0

\* A CLI that hears from the application hears the answer to its own request,
\* however late a reply comes, after timeouts and through a handshake that
\* replaces the service (nextConnID: "It MUST be server-wide").
OwnAnswer == TypeOK /\ \A c \in Conns : conn[c].ans = "app" => conn[c].reply = c

\* The newest listener holds the path as long as it serves, whenever older
\* ones close; and the path names no listener of a helper that has closed it
\* (requirement 5: "the newest listener for a project always wins").
NewestHoldsPath ==
    /\ \A s \in Services : svc[s].st = "open" /\ s = made => path = s
    /\ path # 0 => svc[path].st = "open"

\* A reply of the application is taken from the stream and a CLI is answered
\* whatever the worker runs or hangs in ("a slow beadsExec ... can no longer
\* delay main's reply").
ReplyOnItsWay(h, c) ==
    client[h] = "open" /\ \E i \in DOMAIN wire[h] : wire[h][i].op = "reply" /\ wire[h][i].for = c
NotHeldUp ==
    /\ \A h \in Helpers, c \in Conns : ReplyOnItsWay(h, c) ~> ~ReplyOnItsWay(h, c)
    /\ \A c \in Conns : conn[c].at = "accepted" ~> conn[c].at \in {"done", "dropped"}

-----------------------------------------------------------------------------
(* What the source promises and the code does not keep.                    *)

\* callback_server.go:133: "delivered=false means nobody was waiting".  Between
\* the bind and the installation of a service its replies find the former one.
UndeliveredIsUnwanted ==
    [][\A h \in Helpers : Read(h) /\ Head(wire[h]).op = "reply" =>
          LET r == Head(wire[h]) IN
          \A c \in Conns : conn[c].at = "wait" /\ HelperOf(c) = h /\ conn[c].id = r.id =>
              conn[c].reply # 0 \/ conn'[c].reply = r.for]_vars

\* Requirement 5: a stale predecessor "cannot hold the path and cannot be
\* reached by new CLI calls".  One that boots late binds after its successor,
\* and the path is gone when it ends.
StaleIsUnreachable ==
    \A h \in Helpers :
        client[h] = "open" /\ h \in reported /\ cb[h] # 0 => path # 0 /\ svc[path].h = h

-----------------------------------------------------------------------------
(* Why an answer reaches its own CLI and the newest listener keeps the path. *)

Bound == {s \in Services : svc[s].st # "none"}

\* Services are bound in order, and so stay; an installed one is of the helper;
\* one that is open is installed or about to be.
ServicesInOrder ==
    /\ \E m \in 0 .. MaxService : Bound = 1 .. m
    /\ \A h \in Helpers : cb[h] # 0 => cb[h] \in Bound /\ svc[cb[h]].h = h
    /\ \A h \in Helpers : work[h] = "bound" =>
           \E s \in Bound : svc[s].h = h /\ \A t \in Bound : svc[t].h = h => t <= s
    /\ \A s \in Services : svc[s].st = "open" =>
           \/ cb[svc[s].h] = s
           \/ work[svc[s].h] = "bound" /\ \A t \in Bound : svc[t].h = svc[s].h => t <= s

\* A helper that has finished, or is yet to be launched, has no service and
\* runs nothing.
FinishedIsClosed ==
    \A h \in Helpers :
        /\ client[h] = "none" => proc[h] = "off"
        /\ proc[h] \in {"last", "gone"} => cb[h] = 0
        /\ work[h] # "idle" => proc[h] \in {"serve", "eof", "drain"}

\* The requests a helper has numbered.
Numbered(h) == {c \in Conns : conn[c].id > 0 /\ HelperOf(c) = h}

\* A number is given once by a helper, across its services.
NumbersUnique ==
    /\ \A c \in Conns : conn[c].s = 0 \/ conn[c].s \in Bound
    /\ \A c \in Conns : conn[c].at \in {"none", "accepted"} => conn[c].id = 0
    /\ \A c \in Conns : conn[c].id > 0 =>
           conn[c].s # 0 /\ conn[c].id <= Cardinality(Numbered(HelperOf(c)))
    /\ \A c, d \in Conns :
           conn[c].id > 0 /\ conn[d].id = conn[c].id /\ HelperOf(d) = HelperOf(c) => c = d

\* What travels to and from a helper under a number is about the request the
\* helper gave it to.
Refers(h, m) == m.for \in Conns /\ m.id > 0 /\ conn[m.for].id = m.id /\ HelperOf(m.for) = h
TrueMsgs(h) == {r \in Msgs : r.op = "reply" => Refers(h, r)}
TrueFrames(h) == {f \in Frames : f.kind = "event" => Refers(h, f)}
Asked(s) == {c \in Conns : conn[c].s = s /\ conn[c].id > 0}
NothingConfused ==
    /\ \A h \in Helpers : wire[h] \in Seq(TrueMsgs(h)) /\ out[h] \in Seq(TrueFrames(h))
    /\ \A s \in Services : events[s] \in Seq(Asked(s))
OwnReplies ==
    \A c \in Conns : conn[c].reply \in {0, c} /\ (conn[c].ans = "app" => conn[c].reply = c)

ServiceInv == ServicesInOrder /\ FinishedIsClosed /\ NewestHoldsPath
AnswerInv == NumbersUnique /\ NothingConfused /\ OwnReplies
IInv == TypeOK /\ ServiceInv /\ AnswerInv
=============================================================================
