-------------------------- MODULE HelperRpcProofs --------------------------
(***************************************************************************)
(* What is proved about HelperRpc, for any number of helpers, services,    *)
(* connections and calls and any capacity: an answer of the application    *)
(* reaches the CLI that asked, and the newest listener holds the path.     *)
(***************************************************************************)
EXTENDS HelperRpc, FiniteSetTheorems, TLAPS

LEMMA SeqMono ==
    ASSUME NEW A, NEW B, A \subseteq B, NEW s \in Seq(A)
    PROVE  s \in Seq(B)
  OBVIOUS

LEMMA TailIn ==
    ASSUME NEW A, NEW s \in Seq(A), s # << >>
    PROVE  Head(s) \in A /\ Tail(s) \in Seq(A)
  OBVIOUS

LEMMA CutIn ==
    ASSUME NEW A, NEW s \in Seq(A), NEW n \in 0 .. Len(s)
    PROVE  SubSeq(s, 1, n) \in Seq(A)
  <1>1. \A i \in 1 .. n : s[i] \in A
    OBVIOUS
  <1> QED
    BY <1>1

LEMMA BoundsNat ==
    /\ MaxHelper \in Nat \ {0} /\ MaxService \in Nat \ {0} /\ MaxConn \in Nat \ {0}
    /\ Backlog \in Nat \ {0}
  BY BoundsAssumption

-----------------------------------------------------------------------------
(* Types                                                                   *)

LEMMA FrameIn ==
    ASSUME NEW k \in {"event", "hello", "result"}, NEW w \in Writers, NEW n \in Nat,
           NEW c \in {0} \cup Conns
    PROVE  Frame(k, w, n, c) \in Frames
  BY DEF Frame, Frames

LEMMA WritersIn == TheReader \in Writers /\ TheWorker \in Writers /\ \A s \in Services : EventsOf(s) \in Writers
  BY DEF Writers

LEMMA WriteIn ==
    ASSUME TypeOK, NEW h \in Helpers, NEW f \in Frames, Write(h, f)
    PROVE  out' \in [Helpers -> Seq(Frames)]
  <1>1. out[h] \in Seq(Frames) /\ << >> \in Seq(Frames)
    BY DEF TypeOK
  <1>2. (IF ended[h] THEN << >> ELSE Append(out[h], f)) \in Seq(Frames)
    BY <1>1
  <1> QED
    BY <1>2 DEF TypeOK, Write

Records == [at : ConnStates, s : {0} \cup Services, id : Nat, reply : {0} \cup Conns, ans : Answers]
ConnOK == conn \in [Conns -> Records] /\ \A c \in Conns : conn[c].at # "none" => conn[c].s # 0

LEMMA ConnTypes == TypeOK => ConnOK
  BY DEF TypeOK, ConnOK, Records

(* A connection moves to a state, keeping its service. *)
Moves(c, at, id, ans) ==
    \E r \in Records :
        /\ conn' = [conn EXCEPT ![c] = r]
        /\ r.at = at /\ r.id = id /\ r.ans = ans /\ r.s = conn[c].s /\ r.reply = conn[c].reply

LEMMA MovesIn ==
    ASSUME ConnOK, NEW c \in Conns, NEW at \in ConnStates, NEW id \in Nat, NEW ans \in Answers,
           Moves(c, at, id, ans), conn[c].s # 0
    PROVE  /\ ConnOK'
           /\ \A d \in Conns : conn'[d].s = conn[d].s /\ conn'[d].reply = conn[d].reply
           /\ \A d \in Conns \ {c} : conn'[d] = conn[d]
           /\ conn'[c].at = at /\ conn'[c].id = id /\ conn'[c].ans = ans
  <1>1. PICK r \in Records :
            /\ conn' = [conn EXCEPT ![c] = r]
            /\ r.at = at /\ r.id = id /\ r.ans = ans /\ r.s = conn[c].s /\ r.reply = conn[c].reply
    BY DEF Moves
  <1>2. conn' \in [Conns -> Records] /\ conn'[c] = r /\ \A d \in Conns \ {c} : conn'[d] = conn[d]
    BY <1>1 DEF ConnOK
  <1> QED
    BY <1>1, <1>2 DEF ConnOK

LEMMA DecideMoves ==
    ASSUME ConnOK, NEW c \in Conns, NEW a \in Answers, Decide(c, a)
    PROVE  Moves(c, "decided", conn[c].id, a)
  <1>1. PICK q \in Records : q = conn[c]
    BY DEF ConnOK
  <1>2. PICK r \in Records : r = [q EXCEPT !.at = "decided", !.ans = a]
    BY DEF Records, ConnStates
  <1>3. r.at = "decided" /\ r.ans = a /\ r.s = q.s /\ r.id = q.id /\ r.reply = q.reply
    BY <1>2 DEF Records
  <1>4. conn' = [conn EXCEPT ![c] = r]
    BY <1>1, <1>2 DEF Decide, ConnOK, Records
  <1> QED
    BY <1>1, <1>3, <1>4 DEF Moves

LEMMA AtMoves ==
    ASSUME ConnOK, NEW c \in Conns, NEW at \in ConnStates, conn' = [conn EXCEPT ![c].at = at]
    PROVE  Moves(c, at, conn[c].id, conn[c].ans)
  <1>1. PICK q \in Records : q = conn[c]
    BY DEF ConnOK
  <1>2. PICK r \in Records : r = [q EXCEPT !.at = at]
    BY DEF Records
  <1>3. r.at = at /\ r.ans = q.ans /\ r.s = q.s /\ r.id = q.id /\ r.reply = q.reply
    BY <1>2 DEF Records
  <1>4. conn' = [conn EXCEPT ![c] = r]
    BY <1>1, <1>2 DEF ConnOK, Records
  <1> QED
    BY <1>1, <1>3, <1>4 DEF Moves

SvcRecords == [st : {"none", "open", "closing", "dead"}, h : Helpers]

LEMMA ClosingIn ==
    ASSUME TypeOK, NEW s \in {0} \cup Services, Closing(s)
    PROVE  /\ svc' \in [Services -> SvcRecords] /\ path' \in {0} \cup Services
           /\ \A t \in Services : svc'[t].h = svc[t].h /\ (t # s => svc'[t] = svc[t])
           /\ s # 0 => svc'[s].st = "closing"
           /\ path' = IF s # 0 /\ path = s THEN 0 ELSE path
  <1>0. svc \in [Services -> SvcRecords] /\ path \in {0} \cup Services
    BY DEF TypeOK, SvcRecords
  <1>1. CASE s = 0
    BY <1>0, <1>1 DEF Closing, svcVars
  <1>2. CASE s # 0
    <2>1. PICK q \in SvcRecords : q = svc[s]
      BY <1>0, <1>2
    <2>2. PICK p \in SvcRecords : p = [q EXCEPT !.st = "closing"]
      BY DEF SvcRecords
    <2>3. p.st = "closing" /\ p.h = q.h
      BY <2>2 DEF SvcRecords
    <2>4. svc' = [svc EXCEPT ![s] = p] /\ path' = IF path = s THEN 0 ELSE path
      BY <1>0, <1>2, <2>1, <2>2 DEF Closing, Unlinked, SvcRecords
    <2> QED
      BY <1>0, <1>2, <2>1, <2>3, <2>4
  <1> QED
    BY <1>1, <1>2

LEMMA ApplicationTypes ==
    ASSUME TypeOK, NEW h \in Helpers, Application(h)
    PROVE  TypeOK'
  <1>1. /\ wire[h] \in Seq(Msgs) /\ out[h] \in Seq(Frames) /\ << >> \in Seq(Frames)
        /\ Request("hello") \in Msgs /\ Request("slow") \in Msgs
        /\ << Request("hello") >> \in Seq(Msgs)
    <2>1. Request("hello") \in Msgs /\ Request("slow") \in Msgs
      BY DEF Request, Msgs
    <2>2. << Request("hello") >> \in Seq(Msgs)
      BY <2>1
    <2>3. wire[h] \in Seq(Msgs) /\ out[h] \in Seq(Frames) /\ << >> \in Seq(Frames)
      BY DEF TypeOK
    <2> QED
      BY <2>1, <2>2, <2>3
  <1>2. CASE Launch(h)
    BY <1>1, <1>2 DEF TypeOK, Launch, svcVars
  <1>3. CASE Call(h)
    <2>1. PICK m \in Msgs : wire' = [wire EXCEPT ![h] = Append(@, m)]
      BY <1>1, <1>3 DEF Call
    <2>2. wire' \in [Helpers -> Seq(Msgs)]
      BY <1>1, <2>1 DEF TypeOK
    <2> QED
      BY <1>3, <2>2 DEF TypeOK, Call, svcVars, procVars
  <1>4. CASE Dispatch(h)
    <2>1. PICK f \in Frames : f = Head(out[h])
      BY <1>1, <1>4, TailIn DEF Dispatch
    <2>2. Tail(out[h]) \in Seq(Frames)
      BY <1>1, <1>4, TailIn DEF Dispatch
    <2>3. Reply(f.id, f.for) \in Msgs
      BY DEF Reply, Msgs, Frames
    <2>4. wire' \in [Helpers -> Seq(Msgs)]
      BY <1>1, <1>4, <2>1, <2>3 DEF Dispatch, TypeOK
    <2>5. out' \in [Helpers -> Seq(Frames)] /\ reported' \subseteq Helpers
      BY <1>4, <2>1, <2>2 DEF Dispatch, TypeOK
    <2> QED
      BY <1>4, <2>4, <2>5 DEF TypeOK, Dispatch, svcVars, procVars
  <1>5. CASE Disconnect(h)
    BY <1>1, <1>5 DEF TypeOK, Disconnect, StreamEnds, svcVars, procVars
  <1>6. CASE LinkLost(h)
    <2>1. PICK n \in 0 .. Len(wire[h]) : wire' = [wire EXCEPT ![h] = SubSeq(@, 1, n)]
      BY <1>6 DEF LinkLost
    <2>2. SubSeq(wire[h], 1, n) \in Seq(Msgs)
      BY <1>1, CutIn
    <2>3. wire' \in [Helpers -> Seq(Msgs)]
      BY <2>1, <2>2 DEF TypeOK
    <2> QED
      BY <1>6, <2>3 DEF TypeOK, LinkLost, svcVars, procVars
  <1>7. CASE Noticed(h)
    BY <1>1, <1>7 DEF TypeOK, Noticed, StreamEnds, clientVars, svcVars, procVars
  <1> QED
    BY <1>2, <1>3, <1>4, <1>5, <1>6, <1>7 DEF Application

LEMMA FiniteConns == IsFiniteSet(Conns)
  BY FS_Interval, BoundsNat DEF Conns

LEMMA NextIdType ==
    ASSUME NEW s \in Services
    PROVE  NextId(s) \in Nat \ {0} /\ NextId(s) = Cardinality(Numbered(svc[s].h)) + 1
           /\ Cardinality(Numbered(svc[s].h)) \in Nat /\ IsFiniteSet(Numbered(svc[s].h))
  <1>1. Numbered(svc[s].h) \subseteq Conns
    BY DEF Numbered
  <1>2. IsFiniteSet(Numbered(svc[s].h)) /\ Cardinality(Numbered(svc[s].h)) \in Nat
    BY <1>1, FiniteConns, FS_Subset, FS_CardinalityType
  <1> QED
    BY <1>2 DEF NextId, Numbered

(* What a request meets: it is refused, answered at once, or registered. *)
LEMMA AskMoves ==
    ASSUME TypeOK, NEW c \in Conns, Ask(c)
    PROVE  /\ conn[c].s \in Services /\ conn[c].at = "accepted" /\ svc[conn[c].s].st # "dead"
           /\ \/ Moves(c, "done", conn[c].id, "refused") /\ UNCHANGED events
              \/ Moves(c, "decided", conn[c].id, "not-connected") /\ UNCHANGED events
              \/ Moves(c, "decided", NextId(conn[c].s), "not-connected") /\ UNCHANGED events
              \/ /\ Moves(c, "wait", NextId(conn[c].s), conn[c].ans)
                 /\ Len(events[conn[c].s]) < Backlog
                 /\ events' = [events EXCEPT ![conn[c].s] = Append(@, c)]
  <1>1. ConnOK
    BY ConnTypes
  <1>2. PICK q \in Records : q = conn[c]
    BY <1>1 DEF ConnOK
  <1>3. PICK s \in Services : s = q.s
    BY <1>1, <1>2 DEF Ask, ConnOK, Records
  <1>4. q.at = "accepted" /\ svc[s].st # "dead"
    BY <1>2, <1>3 DEF Ask
  <1>5. PICK n \in Nat : n = NextId(s)
    BY NextIdType
  <1>6. ASSUME NEW at \in ConnStates, NEW id \in Nat, NEW ans \in Answers,
               conn' = [conn EXCEPT ![c] = [q EXCEPT !.at = at, !.id = id, !.ans = ans]]
        PROVE  Moves(c, at, id, ans)
    <2>1. PICK r \in Records : r = [q EXCEPT !.at = at, !.id = id, !.ans = ans]
      BY DEF Records
    <2>2. r.at = at /\ r.id = id /\ r.ans = ans /\ r.s = q.s /\ r.reply = q.reply
      BY <2>1 DEF Records
    <2> QED
      BY <1>2, <1>6, <2>1, <2>2 DEF Moves
  <1>7. CASE conn' = [conn EXCEPT ![c].at = "done", ![c].ans = "refused"] /\ UNCHANGED events
    <2>1. conn' = [conn EXCEPT ![c] = [q EXCEPT !.at = "done", !.id = q.id, !.ans = "refused"]]
      BY <1>1, <1>2, <1>7 DEF ConnOK, Records
    <2> QED
      BY <1>2, <1>3, <1>4, <1>6, <1>7, <2>1 DEF Records, ConnStates, Answers
  <1>8. CASE Decide(c, "not-connected") /\ UNCHANGED events
    BY <1>1, <1>2, <1>3, <1>4, <1>8, DecideMoves DEF Answers
  <1>9. CASE /\ conn' = [conn EXCEPT ![c].at = "decided", ![c].id = n, ![c].ans = "not-connected"]
             /\ UNCHANGED events
    <2>1. conn' = [conn EXCEPT ![c] = [q EXCEPT !.at = "decided", !.id = n, !.ans = "not-connected"]]
      BY <1>1, <1>2, <1>9 DEF ConnOK, Records
    <2> QED
      BY <1>2, <1>3, <1>4, <1>5, <1>6, <1>9, <2>1 DEF ConnStates, Answers
  <1>10. CASE /\ conn' = [conn EXCEPT ![c].at = "wait", ![c].id = n]
              /\ Len(events[s]) < Backlog /\ events' = [events EXCEPT ![s] = Append(@, c)]
    <2>1. conn' = [conn EXCEPT ![c] = [q EXCEPT !.at = "wait", !.id = n, !.ans = q.ans]]
      BY <1>1, <1>2, <1>10 DEF ConnOK, Records
    <2>2. q.ans \in Answers /\ "wait" \in ConnStates
      BY DEF Records, ConnStates
    <2>3. Moves(c, "wait", n, q.ans)
      BY <1>6, <2>1, <2>2
    <2> QED
      BY <1>2, <1>3, <1>4, <1>5, <1>10, <2>3
  <1> QED
    BY <1>2, <1>3, <1>5, <1>7, <1>8, <1>9, <1>10 DEF Ask

LEMMA EventsIn ==
    ASSUME TypeOK, NEW s \in Services, NEW q \in Seq(Conns), Len(q) <= Backlog,
           events' = [events EXCEPT ![s] = q]
    PROVE  events' \in [Services -> Seq(Conns)] /\ \A t \in Services : Len(events'[t]) <= Backlog
  BY DEF TypeOK

LEMMA ConnectIn ==
    ASSUME TypeOK, NEW c \in Conns, Connect(c)
    PROVE  /\ ConnOK'
           /\ \A d \in Conns \ {c} : conn'[d] = conn[d]
           /\ conn'[c].at = "accepted" /\ conn'[c].s = path /\ conn'[c].id = conn[c].id
           /\ conn'[c].reply = conn[c].reply /\ conn'[c].ans = conn[c].ans
  <1>1. PICK q \in Records : q = conn[c]
    BY DEF TypeOK, Records
  <1>2. PICK r \in Records : r = [q EXCEPT !.at = "accepted", !.s = path]
    BY DEF Records, ConnStates, TypeOK
  <1>3. r.at = "accepted" /\ r.s = path /\ r.id = q.id /\ r.reply = q.reply /\ r.ans = q.ans
    BY <1>2 DEF Records
  <1>4. conn' = [conn EXCEPT ![c] = r]
    BY <1>1, <1>2, ConnTypes DEF Connect, ConnOK, Records
  <1>5. path # 0
    BY DEF Connect
  <1> QED
    BY <1>1, <1>3, <1>4, <1>5, ConnTypes DEF ConnOK

LEMMA ConnectionTypes ==
    ASSUME TypeOK, NEW c \in Conns, Connect(c) \/ Serving(c) \/ GraceOver(c)
    PROVE  TypeOK'
  <1>0. ConnOK
    BY ConnTypes
  <1>1. ASSUME ConnOK', events' \in [Services -> Seq(Conns)],
               \A t \in Services : Len(events'[t]) <= Backlog,
               UNCHANGED <<clientVars, wire, ended, procVars, out, svcVars>>
        PROVE  TypeOK'
    BY <1>1 DEF TypeOK, ConnOK, Records, clientVars, procVars, svcVars
  <1>2. CASE Connect(c)
    BY <1>1, <1>2, ConnectIn DEF Connect, TypeOK
  <1>3. CASE Ask(c)
    <2>1. PICK s \in Services : s = conn[c].s
      BY <1>3, AskMoves
    <2>2. NextId(s) \in Nat /\ conn[c].id \in Nat /\ conn[c].ans \in Answers /\ s # 0
      BY <1>0, NextIdType DEF ConnOK, Records, Services
    <2>3. ConnOK'
      BY <1>0, <1>3, <2>1, <2>2, AskMoves, MovesIn DEF ConnStates, Answers
    <2>4. events[s] \in Seq(Conns)
      BY DEF TypeOK
    <2>5. Append(events[s], c) \in Seq(Conns) /\ Len(Append(events[s], c)) = Len(events[s]) + 1
          /\ Len(events[s]) \in Nat
      BY <2>4
    <2>6. /\ events' \in [Services -> Seq(Conns)]
          /\ \A t \in Services : Len(events'[t]) <= Backlog
      <3>1. CASE UNCHANGED events
        BY <3>1 DEF TypeOK
      <3>2. CASE events' = [events EXCEPT ![s] = Append(@, c)] /\ Len(events[s]) < Backlog
        <4>1. events' = [events EXCEPT ![s] = Append(events[s], c)]
          BY <3>2
        <4>2. Len(Append(events[s], c)) <= Backlog
          BY <2>5, <3>2, BoundsNat
        <4> QED
          BY <2>5, <4>1, <4>2, EventsIn
      <3> QED
        BY <1>3, <2>1, <3>1, <3>2, AskMoves
    <2> QED
      BY <1>1, <1>3, <2>3, <2>6 DEF Ask
  <1>4. CASE Answered(c) \/ TimesOut(c) \/ Finish(c) \/ GraceOver(c)
    <2>1. conn[c].at # "none"
      BY <1>4 DEF Answered, TimesOut, Finish, GraceOver
    <2>2. conn[c].s # 0 /\ conn[c].id \in Nat /\ conn[c].ans \in Answers
      BY <1>0, <2>1 DEF ConnOK, Records
    <2>3. \/ \E a \in Answers : Decide(c, a)
          \/ \E at \in ConnStates : conn' = [conn EXCEPT ![c].at = at]
      BY <1>4 DEF Answered, TimesOut, Finish, GraceOver, Answers, ConnStates
    <2>4. ConnOK'
      BY <1>0, <2>2, <2>3, DecideMoves, AtMoves, MovesIn DEF ConnStates
    <2>5. UNCHANGED <<clientVars, wire, ended, procVars, out, svcVars, events>>
      BY <1>4 DEF Answered, TimesOut, Finish, GraceOver
    <2> QED
      BY <1>1, <2>4, <2>5 DEF TypeOK
  <1> QED
    BY <1>2, <1>3, <1>4 DEF Serving

LEMMA WriteEventTypes ==
    ASSUME TypeOK, NEW s \in Services, WriteEvent(s)
    PROVE  TypeOK'
  <1>1. PICK h \in Helpers : h = svc[s].h
    BY DEF TypeOK
  <1>2. events[s] \in Seq(Conns) /\ events[s] # << >>
    BY DEF TypeOK, WriteEvent
  <1>3. PICK c \in Conns : c = Head(events[s])
    BY <1>2, TailIn
  <1>4. Frame("event", EventsOf(s), conn[c].id, c) \in Frames
    BY FrameIn, WritersIn DEF TypeOK
  <1>5. out' \in [Helpers -> Seq(Frames)]
    BY <1>1, <1>3, <1>4, WriteIn DEF WriteEvent
  <1>6. Tail(events[s]) \in Seq(Conns) /\ Len(Tail(events[s])) = Len(events[s]) - 1
        /\ Len(events[s]) \in Nat /\ Len(events[s]) <= Backlog
    BY <1>2, TailIn DEF TypeOK
  <1>7. /\ events' \in [Services -> Seq(Conns)]
        /\ \A t \in Services : Len(events'[t]) <= Backlog
    <2>1. Len(Tail(events[s])) <= Backlog
      BY <1>6, BoundsNat
    <2>2. events' = [events EXCEPT ![s] = Tail(events[s])]
      BY DEF WriteEvent
    <2> QED
      BY <1>6, <2>1, <2>2, EventsIn
  <1>8. conn' = conn \/ (Decide(c, "not-connected") /\ conn[c].at = "wait")
    BY <1>3 DEF WriteEvent
  <1>9. ConnOK'
    <2>1. ConnOK
      BY ConnTypes
    <2>2. ASSUME conn[c].at = "wait"
          PROVE  conn[c].s # 0 /\ conn[c].id \in Nat
      BY <2>1, <2>2 DEF ConnOK, Records
    <2> QED
      BY <1>8, <2>1, <2>2, DecideMoves, MovesIn DEF ConnOK, Answers, ConnStates
  <1> QED
    BY <1>5, <1>7, <1>9 DEF TypeOK, ConnOK, Records, WriteEvent, clientVars, procVars, svcVars

LEMMA DeliverIn ==
    ASSUME TypeOK, NEW h \in Helpers, NEW r \in Msgs, Deliver(h, r)
    PROVE  /\ ConnOK'
           /\ \A c \in Conns : /\ conn'[c].at = conn[c].at /\ conn'[c].s = conn[c].s
                               /\ conn'[c].id = conn[c].id /\ conn'[c].ans = conn[c].ans
                               /\ \/ conn'[c].reply = conn[c].reply
                                  \/ /\ cb[h] # 0 /\ c \in PendingOf(cb[h]) /\ conn[c].id = r.id
                                     /\ conn[c].reply = 0 /\ conn'[c].reply = r.for
  <1>0. ConnOK /\ r.for \in {0} \cup Conns
    BY ConnTypes DEF Msgs
  <1>1. ASSUME NEW c \in Conns
        PROVE  /\ conn'[c] \in Records
               /\ conn'[c].at = conn[c].at /\ conn'[c].s = conn[c].s
               /\ conn'[c].id = conn[c].id /\ conn'[c].ans = conn[c].ans
               /\ \/ conn'[c].reply = conn[c].reply
                  \/ /\ cb[h] # 0 /\ c \in PendingOf(cb[h]) /\ conn[c].id = r.id
                     /\ conn[c].reply = 0 /\ conn'[c].reply = r.for
    <2>1. PICK q \in Records : q = conn[c]
      BY <1>0 DEF ConnOK
    <2>2. PICK p \in Records : p = [q EXCEPT !.reply = r.for]
      BY <1>0 DEF Records
    <2>3. p.at = q.at /\ p.s = q.s /\ p.id = q.id /\ p.ans = q.ans /\ p.reply = r.for
      BY <2>2 DEF Records
    <2>4. conn'[c] = IF cb[h] # 0 /\ c \in PendingOf(cb[h]) /\ conn[c].id = r.id /\ conn[c].reply = 0
                     THEN p ELSE q
      BY <2>1, <2>2 DEF Deliver
    <2> QED
      BY <2>1, <2>3, <2>4
  <1>2. conn' \in [Conns -> Records]
    BY <1>1 DEF Deliver
  <1> QED
    BY <1>0, <1>1, <1>2 DEF ConnOK

LEMMA EndsIn ==
    ASSUME TypeOK, NEW h \in Helpers, Ends(h)
    PROVE  /\ ConnOK'
           /\ \A c \in Conns : /\ conn'[c].s = conn[c].s /\ conn'[c].id = conn[c].id
                               /\ conn'[c].ans = conn[c].ans /\ conn'[c].reply = conn[c].reply
                               /\ conn'[c].at \in {conn[c].at, "dropped"}
           /\ svc' \in [Services -> [st : {"none", "open", "closing", "dead"}, h : Helpers]]
           /\ \A s \in Services : /\ svc'[s].h = svc[s].h
                                  /\ svc[s].h # h \/ svc[s].st = "none" => svc'[s].st = svc[s].st
                                  /\ svc[s].h = h /\ svc[s].st # "none" => svc'[s].st = "dead"
           /\ events' \in [Services -> Seq(Conns)]
           /\ \A s \in Services : events'[s] \in {events[s], << >>}
  <1>0. ConnOK
    BY ConnTypes
  <1>1. ASSUME NEW c \in Conns
        PROVE  /\ conn'[c] \in Records
               /\ conn'[c].s = conn[c].s /\ conn'[c].id = conn[c].id
               /\ conn'[c].ans = conn[c].ans /\ conn'[c].reply = conn[c].reply
               /\ conn'[c].at \in {conn[c].at, "dropped"}
               /\ conn'[c].at # "none" => conn[c].s # 0
    <2>1. PICK q \in Records : q = conn[c]
      BY <1>0 DEF ConnOK
    <2>2. PICK p \in Records : p = [q EXCEPT !.at = "dropped"]
      BY DEF Records, ConnStates
    <2>3. p.at = "dropped" /\ p.s = q.s /\ p.id = q.id /\ p.ans = q.ans /\ p.reply = q.reply
      BY <2>2 DEF Records
    <2>4. conn'[c] = IF HelperOf(c) = h /\ q.at # "done" THEN p ELSE q
      BY <2>1, <2>2 DEF Ends
    <2>5. HelperOf(c) = h => q.s # 0
      BY <2>1 DEF HelperOf, Helpers
    <2> QED
      BY <1>0, <2>1, <2>3, <2>4, <2>5 DEF ConnOK
  <1>2. conn' \in [Conns -> Records]
    BY <1>1 DEF Ends
  <1>3. ASSUME NEW s \in Services
        PROVE  /\ svc'[s] \in [st : {"none", "open", "closing", "dead"}, h : Helpers]
               /\ svc'[s].h = svc[s].h
               /\ svc[s].h # h \/ svc[s].st = "none" => svc'[s].st = svc[s].st
               /\ svc[s].h = h /\ svc[s].st # "none" => svc'[s].st = "dead"
    <2>1. PICK q \in [st : {"none", "open", "closing", "dead"}, h : Helpers] : q = svc[s]
      BY DEF TypeOK
    <2>2. PICK p \in [st : {"none", "open", "closing", "dead"}, h : Helpers] :
              p = [q EXCEPT !.st = "dead"]
      OBVIOUS
    <2>3. p.st = "dead" /\ p.h = q.h
      BY <2>2
    <2>4. svc'[s] = IF q.h = h /\ q.st # "none" THEN p ELSE q
      BY <2>1, <2>2 DEF Ends
    <2> QED
      BY <2>1, <2>3, <2>4
  <1>4. svc' \in [Services -> [st : {"none", "open", "closing", "dead"}, h : Helpers]]
    BY <1>3 DEF Ends
  <1>5. ASSUME NEW s \in Services
        PROVE  events'[s] \in {events[s], << >>} /\ events'[s] \in Seq(Conns)
    <2>1. events[s] \in Seq(Conns) /\ << >> \in Seq(Conns)
      BY DEF TypeOK
    <2>2. events'[s] = IF svc[s].h = h THEN << >> ELSE events[s]
      BY DEF Ends
    <2> QED
      BY <2>1, <2>2
  <1>6. events' \in [Services -> Seq(Conns)]
    BY <1>5 DEF Ends
  <1> QED
    BY <1>0, <1>1, <1>2, <1>3, <1>4, <1>5, <1>6 DEF ConnOK

LEMMA MadeIn ==
    ASSUME TypeOK, ServicesInOrder
    PROVE  made \in 0 .. MaxService /\ Bound = 1 .. made
  <1>1. PICK m \in 0 .. MaxService : Bound = 1 .. m
    BY DEF ServicesInOrder
  <1>2. Cardinality(1 .. m) = m
    BY <1>1, FS_Interval, BoundsNat
  <1> QED
    BY <1>1, <1>2 DEF made, Bound

LEMMA BindIn ==
    ASSUME TypeOK, ServicesInOrder, NEW h \in Helpers, Bind(h)
    PROVE  \E s \in Services :
              /\ s = made + 1 /\ s \notin Bound /\ path' = s
              /\ svc' \in [Services -> SvcRecords]
              /\ svc'[s].st = "open" /\ svc'[s].h = h
              /\ \A t \in Services \ {s} : svc'[t] = svc[t]
              /\ Bound' = 1 .. s
              /\ work[h] = "hello" /\ work' = [work EXCEPT ![h] = "bound"]
              /\ UNCHANGED <<clientVars, wire, ended, proc, queue, cb, out, events, conn>>
  <1>1. made \in Nat /\ made < MaxService
    BY MadeIn, BoundsNat DEF Bind
  <1>2. PICK s \in Services : s = made + 1
    BY <1>1, BoundsNat DEF Services
  <1>3. [st |-> "open", h |-> h] \in SvcRecords
    BY DEF SvcRecords
  <1>4. svc' = [svc EXCEPT ![s] = [st |-> "open", h |-> h]] /\ path' = s
    BY <1>2 DEF Bind
  <1>5. /\ svc' \in [Services -> SvcRecords] /\ svc'[s].st = "open" /\ svc'[s].h = h
        /\ \A t \in Services \ {s} : svc'[t] = svc[t]
    BY <1>3, <1>4 DEF TypeOK, SvcRecords
  <1>6. s \notin Bound
    BY <1>1, <1>2, MadeIn
  <1>7. Bound' = Bound \cup {s}
    BY <1>5 DEF Bound
  <1>8. Bound' = 1 .. s
    BY <1>1, <1>2, <1>7, MadeIn
  <1> QED
    BY <1>2, <1>4, <1>5, <1>6, <1>8 DEF Bind

LEMMA InstallIn ==
    ASSUME TypeOK, ServicesInOrder, NEW h \in Helpers, Install(h)
    PROVE  \E s \in Bound :
              /\ svc[s].h = h /\ \A t \in Bound : svc[t].h = h => t <= s
              /\ cb' = [cb EXCEPT ![h] = s] /\ Closing(cb[h])
              /\ work' = [work EXCEPT ![h] = "idle"]
              /\ Write(h, Frame("hello", TheWorker, 0, 0))
              /\ UNCHANGED <<clientVars, wire, ended, proc, queue, events, conn>>
  <1>1. PICK s \in Bound : svc[s].h = h /\ \A t \in Bound : svc[t].h = h => t <= s
    BY DEF Install, ServicesInOrder
  <1>2. \A t \in Services : svc[t].h = h /\ svc[t].st # "none"
              /\ (\A u \in Services : svc[u].st # "none" /\ svc[u].h = h => u <= t) => t = s
    BY <1>1 DEF Bound, Services
  <1>3. s = CHOOSE t \in Services : svc[t].h = h /\ svc[t].st # "none"
              /\ \A u \in Services : svc[u].st # "none" /\ svc[u].h = h => u <= t
    BY <1>1, <1>2 DEF Bound
  <1> QED
    BY <1>1, <1>3 DEF Install

LEMMA ProcessTypes ==
    ASSUME TypeOK, ServicesInOrder, NEW h \in Helpers, Process(h)
    PROVE  TypeOK'
  <1>0. /\ wire[h] \in Seq(Msgs) /\ queue[h] \in Seq({"slow", "hello"})
        /\ cb[h] \in {0} \cup Services
    BY DEF TypeOK
  <1>1. /\ Frame("result", TheReader, 0, 0) \in Frames
        /\ Frame("result", TheWorker, 0, 0) \in Frames
        /\ Frame("hello", TheWorker, 0, 0) \in Frames
    BY FrameIn, WritersIn
  <1>2. CASE Boot(h)
    BY <1>2 DEF TypeOK, Boot, clientVars, svcVars
  <1>3. CASE Read(h)
    <2>1. PICK r \in Msgs : r = Head(wire[h]) /\ Tail(wire[h]) \in Seq(Msgs)
      BY <1>0, <1>3, TailIn DEF Read
    <2>2. wire' \in [Helpers -> Seq(Msgs)]
      BY <1>3, <2>1 DEF Read, TypeOK
    <2>3. CASE r.op = "reply"
      <3>1. Deliver(h, r) /\ Write(h, Frame("result", TheReader, 0, 0)) /\ UNCHANGED queue
        BY <1>3, <2>1, <2>3 DEF Read
      <3>2. ConnOK' /\ out' \in [Helpers -> Seq(Frames)]
        BY <1>1, <3>1, DeliverIn, WriteIn
      <3> QED
        BY <1>3, <2>2, <3>1, <3>2 DEF TypeOK, ConnOK, Records, Read, clientVars, svcVars
    <2>4. CASE r.op # "reply"
      <3>1. queue' = [queue EXCEPT ![h] = Append(queue[h], r.op)] /\ UNCHANGED <<out, conn>>
        BY <1>3, <2>1, <2>4 DEF Read
      <3>2. Append(queue[h], r.op) \in Seq({"slow", "hello"})
        BY <1>0, <2>4 DEF Msgs
      <3>3. queue' \in [Helpers -> Seq({"slow", "hello"})]
        BY <3>1, <3>2 DEF TypeOK
      <3> QED
        BY <1>3, <2>2, <3>1, <3>3 DEF TypeOK, Read, clientVars, svcVars
    <2> QED
      BY <2>3, <2>4
  <1>4. CASE Take(h)
    <2>1. Head(queue[h]) \in {"slow", "hello"} /\ Tail(queue[h]) \in Seq({"slow", "hello"})
      BY <1>0, <1>4, TailIn DEF Take
    <2> QED
      BY <1>4, <2>1 DEF TypeOK, Take, clientVars, svcVars
  <1>5. CASE Slow(h) \/ Disabled(h)
    <2>1. out' \in [Helpers -> Seq(Frames)]
      BY <1>1, <1>5, WriteIn DEF Slow, Disabled
    <2>2. work' = [work EXCEPT ![h] = "idle"]
          /\ UNCHANGED <<clientVars, wire, ended, proc, queue, cb, svcVars, events, conn>>
      BY <1>5 DEF Slow, Disabled
    <2> QED
      BY <2>1, <2>2 DEF TypeOK, clientVars, svcVars
  <1>6. CASE Bind(h)
    <2>1. svc' \in [Services -> SvcRecords] /\ path' \in {0} \cup Services
          /\ work' = [work EXCEPT ![h] = "bound"]
          /\ UNCHANGED <<clientVars, wire, ended, proc, queue, cb, out, events, conn>>
      BY <1>6, BindIn
    <2> QED
      BY <2>1 DEF TypeOK, SvcRecords, clientVars
  <1>7. CASE Install(h)
    <2>1. PICK s \in Bound :
              /\ cb' = [cb EXCEPT ![h] = s] /\ Closing(cb[h])
              /\ work' = [work EXCEPT ![h] = "idle"]
              /\ Write(h, Frame("hello", TheWorker, 0, 0))
              /\ UNCHANGED <<clientVars, wire, ended, proc, queue, events, conn>>
      BY <1>7, InstallIn
    <2>2. /\ svc' \in [Services -> SvcRecords] /\ path' \in {0} \cup Services
          /\ out' \in [Helpers -> Seq(Frames)] /\ s \in Services
      BY <1>0, <1>1, <2>1, ClosingIn, WriteIn DEF Bound
    <2> QED
      BY <2>1, <2>2 DEF TypeOK, SvcRecords, clientVars
  <1>8. CASE Eof(h) \/ WorkerDone(h)
    <2>1. Closing(cb[h]) /\ cb' = [cb EXCEPT ![h] = 0]
      BY <1>8 DEF Eof, WorkerDone, CloseCallback
    <2>2. svc' \in [Services -> SvcRecords] /\ path' \in {0} \cup Services
      BY <1>0, <2>1, ClosingIn
    <2> QED
      BY <1>8, <2>1, <2>2 DEF TypeOK, SvcRecords, Eof, WorkerDone, clientVars
  <1>9. CASE QueueClosed(h)
    BY <1>9 DEF TypeOK, QueueClosed, clientVars, svcVars
  <1>10. CASE Exit(h)
    <2>1. Ends(h)
      BY <1>10 DEF Exit
    <2>2. \A s \in Services : Len(events'[s]) <= Backlog
      <3>1. Len(<< >>) = 0
        OBVIOUS
      <3> QED
        BY <2>1, <3>1, EndsIn, BoundsNat DEF TypeOK
    <2>3. /\ ConnOK' /\ events' \in [Services -> Seq(Conns)]
          /\ svc' \in [Services -> [st : {"none", "open", "closing", "dead"}, h : Helpers]]
      BY <2>1, EndsIn
    <2>4. /\ proc' = [proc EXCEPT ![h] = "gone"] /\ UNCHANGED path
          /\ UNCHANGED <<clientVars, wire, ended, queue, work, cb, out>>
      BY <1>10 DEF Exit, Ends
    <2> QED
      BY <2>2, <2>3, <2>4 DEF TypeOK, ConnOK, Records, clientVars
  <1> QED
    BY <1>2, <1>3, <1>4, <1>5, <1>6, <1>7, <1>8, <1>9, <1>10 DEF Process, Reader, Worker

LEMMA TypeStep ==
    ASSUME TypeOK, ServicesInOrder, [Next]_vars
    PROVE  TypeOK'
  <1>1. CASE UNCHANGED vars
    BY <1>1 DEF TypeOK, vars, clientVars, procVars, svcVars
  <1> QED
    BY <1>1, ApplicationTypes, ProcessTypes, ConnectionTypes, WriteEventTypes DEF Next

-----------------------------------------------------------------------------
(* Services and the path                                                   *)

(* What ServiceInv is about. *)
LEMMA ServiceFrame ==
    ASSUME TypeOK, ServiceInv, UNCHANGED <<svc, path, cb>>,
           \A h \in Helpers : proc'[h] \in {"last", "gone"} => proc[h] \in {"last", "gone"},
           \A h \in Helpers : work'[h] # "idle" => proc'[h] \in {"serve", "eof", "drain"},
           \A h \in Helpers : work'[h] = "bound" <=> work[h] = "bound",
           \A h \in Helpers : client'[h] = "none" => proc'[h] = "off"
    PROVE  ServiceInv'
  <1>1. Bound' = Bound /\ made' = made
    BY DEF Bound, made
  <1>2. ServicesInOrder'
    <2>1. \A h \in Helpers : work'[h] = "bound" =>
             \E s \in Bound : svc[s].h = h /\ \A t \in Bound : svc[t].h = h => t <= s
      BY DEF ServiceInv, ServicesInOrder
    <2>2. \A s \in Services : svc[s].h \in Helpers
      BY DEF TypeOK
    <2>3. \A s \in Services : svc[s].st = "open" =>
             \/ cb[svc[s].h] = s
             \/ work'[svc[s].h] = "bound" /\ \A t \in Bound : svc[t].h = svc[s].h => t <= s
      BY <2>2 DEF ServiceInv, ServicesInOrder
    <2> QED
      BY <1>1, <2>1, <2>3 DEF ServiceInv, ServicesInOrder
  <1>3. FinishedIsClosed'
    BY DEF ServiceInv, FinishedIsClosed
  <1>4. NewestHoldsPath'
    BY <1>1 DEF ServiceInv, NewestHoldsPath
  <1> QED
    BY <1>2, <1>3, <1>4 DEF ServiceInv

LEMMA BindServices ==
    ASSUME TypeOK, ServiceInv, NEW h \in Helpers, Bind(h)
    PROVE  ServiceInv'
  <1>0. ServicesInOrder /\ FinishedIsClosed /\ NewestHoldsPath
    BY DEF ServiceInv
  <1>1. PICK s \in Services :
              /\ s = made + 1 /\ s \notin Bound /\ path' = s
              /\ svc'[s].st = "open" /\ svc'[s].h = h
              /\ \A t \in Services \ {s} : svc'[t] = svc[t]
              /\ Bound' = 1 .. s
              /\ work[h] = "hello" /\ work' = [work EXCEPT ![h] = "bound"]
              /\ UNCHANGED <<clientVars, wire, ended, proc, queue, cb, out, events, conn>>
    BY <1>0, BindIn
  <1>2. Bound = 1 .. made /\ made \in Nat /\ Bound \subseteq Services
    BY <1>0, MadeIn DEF Bound
  <1>3. Bound' = Bound \cup {s} /\ s \in 0 .. MaxService /\ \A t \in Bound' : t <= s
    BY <1>1, <1>2, BoundsNat DEF Services
  <1>4. work'[h] = "bound" /\ \A g \in Helpers \ {h} : work'[g] = work[g]
    BY <1>1 DEF TypeOK
  <1>5. made' = s
    <2>1. Cardinality(1 .. s) = s
      BY <1>3, FS_Interval, BoundsNat
    <2> QED
      BY <1>1, <2>1 DEF made, Bound
  <1>6. ServicesInOrder'
    <2>1. \A g \in Helpers : cb'[g] # 0 => cb'[g] \in Bound' /\ svc'[cb'[g]].h = g
      BY <1>0, <1>1, <1>2, <1>3 DEF ServicesInOrder
    <2>2. ASSUME NEW g \in Helpers, work'[g] = "bound"
          PROVE  \E t \in Bound' : svc'[t].h = g /\ \A u \in Bound' : svc'[u].h = g => u <= t
      <3>1. CASE g = h
        BY <1>1, <1>3, <3>1
      <3>2. CASE g # h
        <4>1. PICK t \in Bound : svc[t].h = g /\ \A u \in Bound : svc[u].h = g => u <= t
          BY <1>0, <1>4, <2>2, <3>2 DEF ServicesInOrder
        <4> QED
          BY <1>1, <1>2, <1>3, <3>2, <4>1
      <3> QED
        BY <3>1, <3>2
    <2>3. ASSUME NEW t \in Services, svc'[t].st = "open"
          PROVE  \/ cb'[svc'[t].h] = t
                 \/ work'[svc'[t].h] = "bound" /\ \A u \in Bound' : svc'[u].h = svc'[t].h => u <= t
      <3>1. CASE t = s
        BY <1>1, <1>3, <1>4, <3>1
      <3>2. CASE t # s
        <4>1. svc'[t] = svc[t] /\ svc[t].st = "open" /\ svc[t].h \in Helpers
          BY <1>1, <2>3, <3>2 DEF TypeOK
        <4>2. CASE cb[svc[t].h] = t
          BY <1>1, <4>1, <4>2
        <4>3. CASE cb[svc[t].h] # t
          <5>1. work[svc[t].h] = "bound" /\ \A u \in Bound : svc[u].h = svc[t].h => u <= t
            BY <1>0, <4>1, <4>3 DEF ServicesInOrder
          <5>2. svc[t].h # h
            BY <1>1, <5>1
          <5> QED
            BY <1>1, <1>2, <1>3, <1>4, <4>1, <5>1, <5>2
        <4> QED
          BY <4>2, <4>3
      <3> QED
        BY <3>1, <3>2
    <2> QED
      BY <1>1, <1>3, <2>1, <2>2, <2>3 DEF ServicesInOrder
  <1>7. FinishedIsClosed'
    BY <1>0, <1>1, <1>4 DEF FinishedIsClosed, clientVars
  <1>8. NewestHoldsPath'
    BY <1>1, <1>5 DEF NewestHoldsPath
  <1> QED
    BY <1>6, <1>7, <1>8 DEF ServiceInv

(* A service closes, and the helper's handle is set to another or cleared. *)
LEMMA CloseServices ==
    ASSUME TypeOK, ServiceInv, NEW h \in Helpers, NEW n \in {0} \cup Services,
           Closing(cb[h]), cb' = [cb EXCEPT ![h] = n],
           n # 0 => n \in Bound /\ svc[n].h = h,
           \A s \in Services : svc[s].st = "open" /\ svc[s].h = h =>
               s = cb[h] \/ s = n \/ (work'[h] = "bound" /\ work[h] = "bound"),
           \A g \in Helpers \ {h} : proc'[g] = proc[g] /\ work'[g] = work[g],
           work'[h] = "bound" => work[h] = "bound",
           work'[h] # "idle" => proc'[h] \in {"serve", "eof", "drain"},
           proc'[h] \in {"last", "gone"} => n = 0,
           client' = client, proc[h] # "off", proc'[h] # "off"
    PROVE  ServiceInv'
  <1>0. ServicesInOrder /\ FinishedIsClosed /\ NewestHoldsPath
    BY DEF ServiceInv
  <1>1. PICK c \in {0} \cup Services : c = cb[h]
    BY DEF TypeOK
  <1>2. /\ \A t \in Services : svc'[t].h = svc[t].h /\ (t # c => svc'[t] = svc[t])
        /\ c # 0 => svc'[c].st = "closing"
        /\ path' = IF c # 0 /\ path = c THEN 0 ELSE path
    BY <1>1, ClosingIn
  <1>3. c # 0 => c \in Bound
    BY <1>0, <1>1 DEF ServicesInOrder
  <1>4. Bound' = Bound
    <2>1. ASSUME NEW t \in Services
          PROVE  svc'[t].st # "none" <=> svc[t].st # "none"
      <3>1. CASE t = c
        BY <1>2, <1>3, <3>1 DEF Bound, Services
      <3>2. CASE t # c
        BY <1>2, <3>2
      <3> QED
        BY <3>1, <3>2
    <2> QED
      BY <2>1 DEF Bound
  <1>5. made' = made
    BY <1>4 DEF made, Bound
  <1>6. cb'[h] = n /\ \A g \in Helpers \ {h} : cb'[g] = cb[g]
    BY DEF TypeOK
  <1>7. ServicesInOrder'
    <2>1. \E m \in 0 .. MaxService : Bound' = 1 .. m
      BY <1>0, <1>4 DEF ServicesInOrder
    <2>2. \A g \in Helpers : cb'[g] # 0 => cb'[g] \in Bound' /\ svc'[cb'[g]].h = g
      BY <1>0, <1>2, <1>4, <1>6 DEF ServicesInOrder, Bound
    <2>3. ASSUME NEW g \in Helpers, work'[g] = "bound"
          PROVE  \E t \in Bound' : svc'[t].h = g /\ \A u \in Bound' : svc'[u].h = g => u <= t
      <3>1. PICK t \in Bound : svc[t].h = g /\ \A u \in Bound : svc[u].h = g => u <= t
        <4>1. work[g] = "bound"
          BY <2>3
        <4> QED
          BY <1>0, <4>1 DEF ServicesInOrder
      <3> QED
        BY <1>2, <1>4, <3>1 DEF Bound
    <2>4. ASSUME NEW t \in Services, svc'[t].st = "open"
          PROVE  \/ cb'[svc'[t].h] = t
                 \/ work'[svc'[t].h] = "bound" /\ \A u \in Bound' : svc'[u].h = svc'[t].h => u <= t
      <3>1. t # c
        BY <1>2, <2>4 DEF Services
      <3>4. svc'[t] = svc[t] /\ svc[t].st = "open"
        BY <1>2, <2>4, <3>1
      <3>5. svc[t].h \in Helpers
        BY DEF TypeOK
      <3>2. CASE svc[t].h = h
        <4>1. t # n => work'[h] = "bound" /\ work[h] = "bound"
          BY <1>1, <3>1, <3>2, <3>4
        <4>2. t # n => \A u \in Bound : svc[u].h = h => u <= t
          BY <1>0, <1>1, <3>1, <3>2, <3>4, <4>1 DEF ServicesInOrder
        <4> QED
          BY <1>2, <1>4, <1>6, <3>2, <3>4, <4>1, <4>2 DEF Bound
      <3>3. CASE svc[t].h # h
        <4>1. \/ cb[svc[t].h] = t
              \/ work[svc[t].h] = "bound" /\ \A u \in Bound : svc[u].h = svc[t].h => u <= t
          BY <1>0, <3>4 DEF ServicesInOrder
        <4> QED
          BY <1>2, <1>4, <1>6, <3>3, <3>4, <3>5, <4>1 DEF Bound
      <3> QED
        BY <3>2, <3>3
    <2> QED
      BY <2>1, <2>2, <2>3, <2>4 DEF ServicesInOrder
  <1>8. FinishedIsClosed'
    BY <1>0, <1>6 DEF FinishedIsClosed
  <1>9. NewestHoldsPath'
    <2>1. ASSUME NEW t \in Services, svc'[t].st = "open", t = made'
          PROVE  path' = t
      <3>1. t # c
        BY <1>2, <2>1 DEF Services
      <3>2. svc[t].st = "open" /\ path = t
        BY <1>0, <1>2, <1>5, <2>1, <3>1 DEF NewestHoldsPath
      <3> QED
        BY <1>2, <3>1, <3>2
    <2>2. ASSUME path' # 0
          PROVE  svc'[path'].st = "open"
      <3>1. path' = path /\ path \in Services /\ path # c
        BY <1>2, <2>2 DEF TypeOK
      <3>2. svc[path].st = "open"
        BY <1>0, <2>2, <3>1 DEF NewestHoldsPath
      <3> QED
        BY <1>2, <3>1, <3>2
    <2> QED
      BY <2>1, <2>2 DEF NewestHoldsPath
  <1> QED
    BY <1>7, <1>8, <1>9 DEF ServiceInv

LEMMA InstallServices ==
    ASSUME TypeOK, ServiceInv, NEW h \in Helpers, Install(h)
    PROVE  ServiceInv'
  <1>0. ServicesInOrder /\ FinishedIsClosed /\ work[h] = "bound"
    BY DEF ServiceInv, Install
  <1>1. PICK s \in Bound :
              /\ svc[s].h = h /\ \A t \in Bound : svc[t].h = h => t <= s
              /\ cb' = [cb EXCEPT ![h] = s] /\ Closing(cb[h])
              /\ work' = [work EXCEPT ![h] = "idle"]
              /\ UNCHANGED <<clientVars, wire, ended, proc, queue, events, conn>>
    BY <1>0, InstallIn
  <1>2. \A t \in Services : svc[t].st = "open" /\ svc[t].h = h =>
           t = cb[h] \/ t = s \/ (work'[h] = "bound" /\ work[h] = "bound")
    <2>1. ASSUME NEW t \in Services, svc[t].st = "open", svc[t].h = h, cb[h] # t
          PROVE  t = s
      <3>1. t \in Bound /\ \A u \in Bound : svc[u].h = h => u <= t
        BY <1>0, <2>1 DEF ServicesInOrder, Bound
      <3>2. t \in Nat /\ s \in Nat
        BY DEF Services, Bound
      <3> QED
        BY <1>1, <2>1, <3>1, <3>2
    <2> QED
      BY <2>1
  <1>3. work'[h] = "idle" /\ \A g \in Helpers \ {h} : work'[g] = work[g]
    BY <1>1 DEF TypeOK
  <1>4. proc' = proc /\ proc[h] \notin {"last", "gone"}
    BY <1>0, <1>1 DEF FinishedIsClosed
  <1>5. s \in Services /\ s # 0
    BY DEF Bound, Services
  <1>6. /\ work'[h] = "bound" => work[h] = "bound"
        /\ work'[h] # "idle" => proc'[h] \in {"serve", "eof", "drain"}
        /\ proc'[h] \in {"last", "gone"} => s = 0
        /\ client' = client /\ proc[h] # "off" /\ proc'[h] # "off"
        /\ \A g \in Helpers \ {h} : proc'[g] = proc[g] /\ work'[g] = work[g]
    BY <1>0, <1>1, <1>3, <1>4 DEF FinishedIsClosed, clientVars
  <1> QED
    BY <1>1, <1>2, <1>5, <1>6, CloseServices

LEMMA FinishServices ==
    ASSUME TypeOK, ServiceInv, NEW h \in Helpers, Eof(h) \/ WorkerDone(h)
    PROVE  ServiceInv'
  <1>0. ServicesInOrder /\ FinishedIsClosed
    BY DEF ServiceInv
  <1>1. Closing(cb[h]) /\ cb' = [cb EXCEPT ![h] = 0] /\ work' = work
    BY DEF Eof, WorkerDone, CloseCallback
  <1>2. \/ proc' = [proc EXCEPT ![h] = "eof"] /\ proc[h] = "serve"
        \/ proc' = [proc EXCEPT ![h] = "last"] /\ work[h] = "idle" /\ proc[h] = "drain"
    BY DEF Eof, WorkerDone
  <1>3. /\ \A g \in Helpers \ {h} : proc'[g] = proc[g] /\ work'[g] = work[g]
        /\ work'[h] # "idle" => proc'[h] \in {"serve", "eof", "drain"}
        /\ client' = client /\ proc[h] # "off" /\ proc'[h] # "off"
    BY <1>1, <1>2 DEF TypeOK, Eof, WorkerDone, clientVars
  <1>4. \A s \in Services : svc[s].st = "open" /\ svc[s].h = h =>
            s = cb[h] \/ s = 0 \/ (work'[h] = "bound" /\ work[h] = "bound")
    <2>1. ASSUME NEW s \in Services, svc[s].st = "open", svc[s].h = h, s # cb[h]
          PROVE  work[h] = "bound"
      BY <1>0, <2>1 DEF ServicesInOrder
    <2> QED
      BY <1>1, <2>1
  <1>5. work'[h] = "bound" => work[h] = "bound"
    BY <1>1
  <1> QED
    BY <1>1, <1>3, <1>4, <1>5, CloseServices

LEMMA ExitServices ==
    ASSUME TypeOK, ServiceInv, NEW h \in Helpers, Exit(h)
    PROVE  ServiceInv'
  <1>0. ServicesInOrder /\ FinishedIsClosed /\ NewestHoldsPath
    BY DEF ServiceInv
  <1>1. /\ proc[h] = "last" /\ Ends(h) /\ proc' = [proc EXCEPT ![h] = "gone"]
        /\ UNCHANGED <<path, work, cb>>
    BY DEF Exit, Ends
  <1>2. \A s \in Services : /\ svc'[s].h = svc[s].h
                            /\ svc[s].h # h \/ svc[s].st = "none" => svc'[s].st = svc[s].st
                            /\ svc[s].h = h /\ svc[s].st # "none" => svc'[s].st = "dead"
    BY <1>1, EndsIn
  <1>3. cb[h] = 0 /\ work[h] = "idle"
    BY <1>0, <1>1 DEF FinishedIsClosed
  <1>4. \A s \in Services : svc[s].h = h => svc[s].st # "open"
    BY <1>0, <1>3 DEF ServicesInOrder, Services
  <1>5. \A s \in Services : svc'[s].st # "none" <=> svc[s].st # "none"
    BY <1>2
  <1>6. Bound' = Bound /\ made' = made
    BY <1>5 DEF Bound, made
  <1>7. \A s \in Services : svc'[s].st = "open" <=> svc[s].st = "open"
    BY <1>2, <1>4
  <1>8. \A s \in Bound : s \in Services
    BY DEF Bound
  <1>9. ServicesInOrder'
    <2>1. /\ \E m \in 0 .. MaxService : Bound' = 1 .. m
          /\ \A g \in Helpers : cb'[g] # 0 => cb'[g] \in Bound' /\ svc'[cb'[g]].h = g
      BY <1>0, <1>1, <1>2, <1>6, <1>8 DEF ServicesInOrder
    <2>2. ASSUME NEW g \in Helpers, work'[g] = "bound"
          PROVE  \E s \in Bound' : svc'[s].h = g /\ \A t \in Bound' : svc'[t].h = g => t <= s
      <3>1. PICK s \in Bound : svc[s].h = g /\ \A t \in Bound : svc[t].h = g => t <= s
        BY <1>0, <1>1, <2>2 DEF ServicesInOrder
      <3> QED
        BY <1>2, <1>6, <1>8, <3>1
    <2>3. ASSUME NEW s \in Services, svc'[s].st = "open"
          PROVE  \/ cb'[svc'[s].h] = s
                 \/ work'[svc'[s].h] = "bound" /\ \A t \in Bound' : svc'[t].h = svc'[s].h => t <= s
      <3>1. svc[s].st = "open" /\ svc'[s].h = svc[s].h
        BY <1>2, <1>7, <2>3
      <3>2. \/ cb[svc[s].h] = s
            \/ work[svc[s].h] = "bound" /\ \A t \in Bound : svc[t].h = svc[s].h => t <= s
        BY <1>0, <3>1 DEF ServicesInOrder
      <3> QED
        BY <1>1, <1>2, <1>6, <1>8, <3>1, <3>2
    <2> QED
      BY <2>1, <2>2, <2>3 DEF ServicesInOrder
  <1>10. FinishedIsClosed'
    BY <1>0, <1>1, <1>3 DEF FinishedIsClosed, TypeOK, Exit, clientVars
  <1>11. NewestHoldsPath'
    <2>1. path # 0 => path \in Services
      BY DEF TypeOK
    <2> QED
      BY <1>0, <1>1, <1>6, <1>7, <2>1 DEF NewestHoldsPath
  <1> QED
    BY <1>9, <1>10, <1>11 DEF ServiceInv

(* All other steps of a helper leave services and path alone. *)
LEMMA ProcessServices ==
    ASSUME TypeOK, ServiceInv, NEW h \in Helpers, Process(h)
    PROVE  ServiceInv'
  <1>0. ServicesInOrder /\ FinishedIsClosed
    BY DEF ServiceInv
  <1>1. ASSUME UNCHANGED <<svc, path, cb>>,
               \A g \in Helpers \ {h} : proc'[g] = proc[g] /\ work'[g] = work[g],
               proc'[h] \in {"last", "gone"} => proc[h] \in {"last", "gone"},
               work'[h] # "idle" => proc'[h] \in {"serve", "eof", "drain"},
               work'[h] = "bound" <=> work[h] = "bound",
               proc'[h] = "off" <=> proc[h] = "off"
        PROVE  ServiceInv'
    <2>1. client' = client
      BY DEF Process, Reader, Worker, Boot, Read, Eof, Take, Slow, Bind, Install, Disabled,
             QueueClosed, WorkerDone, Exit, clientVars
    <2> QED
      BY <1>0, <1>1, <2>1, ServiceFrame DEF FinishedIsClosed
  <1>2. CASE Boot(h) \/ QueueClosed(h)
    <2>1. /\ UNCHANGED <<svc, path, cb, work>>
          /\ \/ proc[h] = "boot" /\ proc' = [proc EXCEPT ![h] = "serve"]
             \/ proc[h] = "eof" /\ proc' = [proc EXCEPT ![h] = "drain"]
      BY <1>2 DEF Boot, QueueClosed, svcVars
    <2> QED
      BY <1>0, <1>1, <2>1 DEF FinishedIsClosed, TypeOK
  <1>3. CASE Read(h)
    <2>1. UNCHANGED <<svc, path, cb, work, proc>>
      BY <1>3 DEF Read, svcVars
    <2> QED
      BY <1>0, <1>1, <2>1 DEF FinishedIsClosed
  <1>4. CASE Take(h)
    <2>1. /\ UNCHANGED <<svc, path, cb, proc>> /\ proc[h] \in {"serve", "eof", "drain"}
          /\ work[h] = "idle" /\ work' = [work EXCEPT ![h] = Head(queue[h])]
      BY <1>4 DEF Take, svcVars
    <2>2. Head(queue[h]) \in {"slow", "hello"}
      BY <1>4, TailIn DEF Take, TypeOK
    <2> QED
      BY <1>0, <1>1, <2>1, <2>2 DEF TypeOK
  <1>5. CASE Slow(h) \/ Disabled(h)
    <2>1. /\ UNCHANGED <<svc, path, cb, proc>> /\ work[h] \in {"slow", "hello"}
          /\ work' = [work EXCEPT ![h] = "idle"]
      BY <1>5 DEF Slow, Disabled, svcVars
    <2> QED
      BY <1>0, <1>1, <2>1 DEF FinishedIsClosed, TypeOK
  <1> QED
    BY <1>2, <1>3, <1>4, <1>5, BindServices, InstallServices, FinishServices, ExitServices
    DEF Process, Reader, Worker

LEMMA ServiceStep ==
    ASSUME TypeOK, ServiceInv, [Next]_vars
    PROVE  ServiceInv'
  <1>0. FinishedIsClosed
    BY DEF ServiceInv
  <1>1. ASSUME NEW h \in Helpers, Launch(h)
        PROVE  ServiceInv'
    <2>1. /\ UNCHANGED <<svc, path, cb, work>> /\ client[h] = "none"
          /\ proc' = [proc EXCEPT ![h] = "boot"] /\ client' = [client EXCEPT ![h] = "open"]
      BY <1>1 DEF Launch, svcVars
    <2>2. proc[h] = "off"
      BY <1>0, <2>1 DEF FinishedIsClosed
    <2>3. /\ proc'[h] = "boot" /\ client'[h] = "open"
          /\ \A g \in Helpers \ {h} : proc'[g] = proc[g] /\ client'[g] = client[g]
      BY <2>1 DEF TypeOK
    <2> QED
      BY <1>0, <2>1, <2>2, <2>3, ServiceFrame DEF FinishedIsClosed
  <1>2. ASSUME UNCHANGED <<svc, path, cb, proc, work>>,
               \A g \in Helpers : client'[g] = "none" => client[g] = "none"
        PROVE  ServiceInv'
    BY <1>0, <1>2, ServiceFrame DEF FinishedIsClosed
  <1>3. ASSUME NEW h \in Helpers, Call(h) \/ Dispatch(h) \/ Disconnect(h) \/ LinkLost(h) \/ Noticed(h)
        PROVE  ServiceInv'
    <2>1. UNCHANGED <<svc, path, cb, proc, work>>
      BY <1>3 DEF Call, Dispatch, Disconnect, LinkLost, Noticed, svcVars, procVars
    <2>2. client' = client \/ client' = [client EXCEPT ![h] = "closed"]
      BY <1>3 DEF Call, Dispatch, Disconnect, LinkLost, Noticed, clientVars
    <2>3. \A g \in Helpers : client'[g] = "none" => client[g] = "none"
      BY <2>2 DEF TypeOK
    <2> QED
      BY <1>2, <2>1, <2>3
  <1>4. ASSUME NEW c \in Conns, Connect(c) \/ Serving(c) \/ GraceOver(c)
        PROVE  ServiceInv'
    <2>1. UNCHANGED <<svc, path, cb, proc, work, client>>
      BY <1>4 DEF Connect, Serving, Ask, Answered, TimesOut, Finish, GraceOver, svcVars, procVars,
                  clientVars
    <2> QED
      BY <1>2, <2>1
  <1>5. ASSUME NEW s \in Services, WriteEvent(s)
        PROVE  ServiceInv'
    <2>1. UNCHANGED <<svc, path, cb, proc, work, client>>
      BY <1>5 DEF WriteEvent, svcVars, procVars, clientVars
    <2> QED
      BY <1>2, <2>1
  <1>6. CASE UNCHANGED vars
    BY <1>2, <1>6 DEF vars, svcVars, procVars, clientVars
  <1> QED
    BY <1>1, <1>3, <1>4, <1>5, <1>6, ProcessServices DEF Next, Application

LEMMA InitInv == Init => TypeOK /\ ServiceInv
  <1> SUFFICES ASSUME Init
               PROVE  TypeOK /\ ServiceInv
    OBVIOUS
  <1>1. [st |-> "none", h |-> 1] \in [st : {"none", "open", "closing", "dead"}, h : Helpers]
    BY BoundsNat DEF Helpers
  <1>2. [at |-> "none", s |-> 0, id |-> 0, reply |-> 0, ans |-> "none"]
            \in [at : ConnStates, s : {0} \cup Services, id : Nat, reply : {0} \cup Conns, ans : Answers]
    BY DEF ConnStates, Answers
  <1>3. /\ wire \in [Helpers -> Seq(Msgs)] /\ out \in [Helpers -> Seq(Frames)]
        /\ queue \in [Helpers -> Seq({"slow", "hello"})] /\ events \in [Services -> Seq(Conns)]
    BY DEF Init
  <1>4. \A s \in Services : Len(events[s]) <= Backlog
    <2>1. Len(<< >>) = 0
      OBVIOUS
    <2> QED
      BY <2>1, BoundsNat DEF Init
  <1>5. /\ svc \in [Services -> [st : {"none", "open", "closing", "dead"}, h : Helpers]]
        /\ \A s \in Services : svc[s].st = "none"
    BY <1>1 DEF Init
  <1>6. /\ conn \in [Conns -> [at : ConnStates, s : {0} \cup Services, id : Nat,
                               reply : {0} \cup Conns, ans : Answers]]
        /\ \A c \in Conns : conn[c].at = "none"
    BY <1>2 DEF Init
  <1>7. TypeOK
    BY <1>3, <1>4, <1>5, <1>6 DEF Init, TypeOK
  <1>8. Bound = {}
    BY <1>5 DEF Bound
  <1>9. Bound = 1 .. 0 /\ 0 \in 0 .. MaxService
    BY <1>8, BoundsNat
  <1>10. ServicesInOrder
    BY <1>5, <1>8, <1>9 DEF Init, ServicesInOrder
  <1>11. FinishedIsClosed /\ NewestHoldsPath
    BY <1>5 DEF Init, FinishedIsClosed, NewestHoldsPath
  <1> QED
    BY <1>7, <1>10, <1>11 DEF ServiceInv

(* Types and services hold together, in every reachable state. *)
THEOREM ServiceInvariance == Spec => [](TypeOK /\ ServiceInv)
  <1>1. TypeOK /\ ServiceInv /\ [Next]_vars => TypeOK' /\ ServiceInv'
    BY TypeStep, ServiceStep DEF ServiceInv
  <1> QED
    BY InitInv, <1>1, PTL DEF Spec

(* Installing a handshake's service, retiring the former one, the end of a   *)
(* helper's input and its exit all leave the path with the newest listener   *)
(* that serves (requirement 5).                                              *)
THEOREM NewestHoldsPathAlways == Spec => []NewestHoldsPath
  <1>1. TypeOK /\ ServiceInv => NewestHoldsPath
    BY DEF ServiceInv
  <1> QED
    BY <1>1, ServiceInvariance, PTL

-----------------------------------------------------------------------------
(* Numbers and answers                                                     *)

(* A bound service stays bound, and its helper's. *)
LEMMA BoundStays ==
    ASSUME TypeOK, ServiceInv, [Next]_vars
    PROVE  \A s \in Bound : s \in Bound' /\ svc'[s].h = svc[s].h
  <1>0. ServicesInOrder
    BY DEF ServiceInv
  <1>1. CASE UNCHANGED svc
    BY <1>1 DEF Bound
  <1>2. ASSUME NEW h \in Helpers, Closing(cb[h])
        PROVE  \A s \in Bound : s \in Bound' /\ svc'[s].h = svc[s].h
    <2>1. PICK c \in {0} \cup Services : c = cb[h]
      BY DEF TypeOK
    <2>2. /\ \A t \in Services : svc'[t].h = svc[t].h /\ (t # c => svc'[t] = svc[t])
          /\ c # 0 => svc'[c].st = "closing"
      BY <1>2, <2>1, ClosingIn
    <2> QED
      BY <2>2 DEF Bound, Services
  <1>3. ASSUME NEW h \in Helpers, Bind(h)
        PROVE  \A s \in Bound : s \in Bound' /\ svc'[s].h = svc[s].h
    <2>1. PICK s \in Services : s \notin Bound /\ \A t \in Services \ {s} : svc'[t] = svc[t]
      BY <1>0, <1>3, BindIn
    <2> QED
      BY <2>1 DEF Bound
  <1>4. ASSUME NEW h \in Helpers, Exit(h)
        PROVE  \A s \in Bound : s \in Bound' /\ svc'[s].h = svc[s].h
    <2>1. Ends(h)
      BY <1>4 DEF Exit
    <2>2. \A s \in Services : /\ svc'[s].h = svc[s].h
                              /\ svc[s].h # h \/ svc[s].st = "none" => svc'[s].st = svc[s].st
                              /\ svc[s].h = h /\ svc[s].st # "none" => svc'[s].st = "dead"
      BY <2>1, EndsIn
    <2> QED
      BY <2>2 DEF Bound
  <1>5. \/ UNCHANGED svc
        \/ \E h \in Helpers : Closing(cb[h]) \/ Bind(h) \/ Exit(h)
    <2>1. ASSUME NEW h \in Helpers, Application(h)
          PROVE  UNCHANGED svc
      BY <2>1 DEF Application, Launch, Call, Dispatch, Disconnect, LinkLost, Noticed, svcVars
    <2>2. ASSUME NEW h \in Helpers, Process(h)
          PROVE  UNCHANGED svc \/ Closing(cb[h]) \/ Bind(h) \/ Exit(h)
      BY <2>2 DEF Process, Reader, Worker, Boot, Read, Eof, Take, Slow, Install, Disabled,
                  QueueClosed, WorkerDone, CloseCallback, svcVars
    <2>3. ASSUME NEW c \in Conns, Connect(c) \/ Serving(c) \/ GraceOver(c)
          PROVE  UNCHANGED svc
      BY <2>3 DEF Connect, Serving, Ask, Answered, TimesOut, Finish, GraceOver, svcVars
    <2>4. ASSUME NEW s \in Services, WriteEvent(s)
          PROVE  UNCHANGED svc
      BY <2>4 DEF WriteEvent, svcVars
    <2>5. CASE UNCHANGED vars
      BY <2>5 DEF vars, svcVars
    <2> QED
      BY <2>1, <2>2, <2>3, <2>4, <2>5 DEF Next
  <1> QED
    BY <1>1, <1>2, <1>3, <1>4, <1>5

(* A step that numbers no request and delivers no reply. *)
Early == {"none", "accepted"}
Steady ==
    \A c \in Conns :
        /\ conn'[c].id = conn[c].id /\ conn'[c].reply = conn[c].reply
        /\ conn'[c].s = conn[c].s \/ (conn[c].at = "none" /\ conn'[c].s \in Bound)
        /\ conn'[c].at \in Early => conn[c].at \in Early
        /\ conn'[c].ans # conn[c].ans /\ conn'[c].ans = "app" => conn[c].reply # 0

LEMMA SteadyAnswers ==
    ASSUME TypeOK, TypeOK', NumbersUnique, OwnReplies, Steady,
           \A s \in Bound : s \in Bound' /\ svc'[s].h = svc[s].h
    PROVE  NumbersUnique' /\ OwnReplies'
  <1>1. \A c \in Conns : conn[c].id \in Nat
    BY DEF TypeOK
  <1>2. \A c \in Conns : conn[c].id > 0 => conn'[c].s = conn[c].s /\ conn[c].s # 0 /\ conn[c].s \in Bound
    BY DEF NumbersUnique, Steady
  <1>3. \A c \in Conns : conn[c].id > 0 => HelperOf(c)' = HelperOf(c)
    BY <1>2 DEF HelperOf
  <1>4. \A h : Numbered(h)' = Numbered(h)
    BY <1>1, <1>3 DEF Numbered, Steady
  <1>5. \A c \in Conns : conn'[c].s = 0 \/ conn'[c].s \in Bound'
    BY DEF NumbersUnique, Steady
  <1>6. \A c \in Conns : conn'[c].at \in {"none", "accepted"} => conn'[c].id = 0
    BY DEF NumbersUnique, Steady, Early
  <1>7. \A c \in Conns : conn'[c].id > 0 =>
            conn'[c].s # 0 /\ conn'[c].id <= Cardinality(Numbered(HelperOf(c)))'
    BY <1>2, <1>3, <1>4 DEF NumbersUnique, Steady
  <1>8. \A c, d \in Conns :
            conn'[c].id > 0 /\ conn'[d].id = conn'[c].id /\ HelperOf(d)' = HelperOf(c)' => c = d
    BY <1>3 DEF NumbersUnique, Steady
  <1>9. OwnReplies'
    BY DEF OwnReplies, Steady
  <1> QED
    BY <1>5, <1>6, <1>7, <1>8, <1>9 DEF NumbersUnique

(* Deciding, finishing and dropping number nothing. *)
LEMMA MoveSteady ==
    ASSUME TypeOK, NumbersUnique, NEW c \in Conns, NEW at \in {"decided", "done", "dropped"},
           NEW ans \in Answers, Moves(c, at, conn[c].id, ans),
           conn[c].at # "none", ans # conn[c].ans /\ ans = "app" => conn[c].reply # 0
    PROVE  Steady
  <1>1. ConnOK /\ conn[c].s # 0 /\ conn[c].id \in Nat
    BY ConnTypes DEF TypeOK
  <1>2. /\ \A d \in Conns : conn'[d].s = conn[d].s /\ conn'[d].reply = conn[d].reply
        /\ \A d \in Conns \ {c} : conn'[d] = conn[d]
        /\ conn'[c].at = at /\ conn'[c].id = conn[c].id /\ conn'[c].ans = ans
    BY <1>1, MovesIn DEF ConnStates
  <1> QED
    BY <1>2 DEF Steady, Early

LEMMA SteadySteps ==
    ASSUME TypeOK, ServiceInv, NumbersUnique, [Next]_vars
    PROVE  \/ Steady
           \/ \E c \in Conns : Ask(c)
           \/ \E h \in Helpers : Read(h)
  <1>0. UNCHANGED conn => Steady
    BY DEF Steady
  <1>1. ASSUME NEW h \in Helpers, Application(h)
        PROVE  UNCHANGED conn
    BY <1>1 DEF Application, Launch, Call, Dispatch, Disconnect, LinkLost, Noticed
  <1>2. ASSUME NEW h \in Helpers, Process(h), ~ Read(h)
        PROVE  Steady
    <2>1. UNCHANGED conn \/ Ends(h)
      BY <1>2 DEF Process, Reader, Worker, Boot, Eof, Take, Slow, Bind, Install, Disabled,
                  QueueClosed, WorkerDone, Exit
    <2>2. CASE Ends(h)
      <3>1. \A c \in Conns : /\ conn'[c].s = conn[c].s /\ conn'[c].id = conn[c].id
                             /\ conn'[c].ans = conn[c].ans /\ conn'[c].reply = conn[c].reply
                             /\ conn'[c].at \in {conn[c].at, "dropped"}
        BY <2>2, EndsIn
      <3> QED
        BY <3>1 DEF Steady, Early
    <2> QED
      BY <1>0, <2>1, <2>2
  <1>3. ASSUME NEW c \in Conns, Connect(c)
        PROVE  Steady
    <2>1. /\ \A d \in Conns \ {c} : conn'[d] = conn[d]
          /\ conn'[c].s = path /\ conn'[c].id = conn[c].id
          /\ conn'[c].reply = conn[c].reply /\ conn'[c].ans = conn[c].ans
      BY <1>3, ConnectIn
    <2>2. path \in Bound /\ conn[c].at = "none"
      BY <1>3 DEF Connect, Bound, TypeOK
    <2> QED
      BY <2>1, <2>2 DEF Steady, Early
  <1>4. ASSUME NEW c \in Conns, Answered(c) \/ TimesOut(c) \/ Finish(c) \/ GraceOver(c)
        PROVE  Steady
    <2>0. ConnOK /\ conn[c].at \notin {"none"} /\ conn[c].ans \in Answers
      BY <1>4, ConnTypes DEF Answered, TimesOut, Finish, GraceOver, TypeOK
    <2>1. \/ \E a \in Answers : Decide(c, a) /\ (a = "app" => conn[c].reply # 0)
          \/ conn' = [conn EXCEPT ![c].at = "done"]
          \/ conn' = [conn EXCEPT ![c].at = "dropped"]
      BY <1>4 DEF Answered, TimesOut, Finish, GraceOver, Answers
    <2>2. CASE \E a \in Answers : Decide(c, a) /\ (a = "app" => conn[c].reply # 0)
      <3>1. PICK a \in Answers : Decide(c, a) /\ (a = "app" => conn[c].reply # 0)
        BY <2>2
      <3> QED
        BY <2>0, <3>1, DecideMoves, MoveSteady
    <2>3. ASSUME NEW at \in {"done", "dropped"}, conn' = [conn EXCEPT ![c].at = at]
          PROVE  Steady
      <3>1. Moves(c, at, conn[c].id, conn[c].ans)
        BY <2>0, <2>3, AtMoves DEF ConnStates
      <3> QED
        BY <2>0, <3>1, MoveSteady
    <2> QED
      BY <2>1, <2>2, <2>3
  <1>5. ASSUME NEW s \in Services, WriteEvent(s)
        PROVE  Steady
    <2>1. Head(events[s]) \in Conns
      BY <1>5, TailIn DEF WriteEvent, TypeOK
    <2>2. PICK c \in Conns : c = Head(events[s])
      BY <2>1
    <2>3. UNCHANGED conn \/ (conn[c].at = "wait" /\ Decide(c, "not-connected"))
      BY <1>5, <2>2 DEF WriteEvent
    <2>4. CASE conn[c].at = "wait" /\ Decide(c, "not-connected")
      BY <2>4, ConnTypes, DecideMoves, MoveSteady DEF Answers
    <2> QED
      BY <1>0, <2>3, <2>4
  <1>6. CASE UNCHANGED vars
    BY <1>0, <1>6 DEF vars
  <1> QED
    BY <1>0, <1>1, <1>2, <1>3, <1>4, <1>5, <1>6 DEF Next, Serving

(* nextConnID: the number is the next of the helper, across its services. *)
LEMMA NumberedAnswers ==
    ASSUME TypeOK, TypeOK', NumbersUnique, OwnReplies, UNCHANGED svc,
           NEW c \in Conns, NEW s \in Services, s = conn[c].s, conn[c].at = "accepted",
           NEW at \in {"wait", "decided"}, NEW ans \in Answers,
           Moves(c, at, NextId(s), ans), ans # "app" \/ ans = conn[c].ans
    PROVE  NumbersUnique' /\ OwnReplies'
  <1> DEFINE h == svc[s].h
             K == Cardinality(Numbered(h))
  <1>0. ConnOK /\ s # 0 /\ s \in Bound
    BY ConnTypes DEF NumbersUnique, Services
  <1>1. NextId(s) = K + 1 /\ K \in Nat /\ IsFiniteSet(Numbered(h)) /\ NextId(s) \in Nat
    BY NextIdType
  <1>2. /\ \A d \in Conns : conn'[d].s = conn[d].s /\ conn'[d].reply = conn[d].reply
        /\ \A d \in Conns \ {c} : conn'[d] = conn[d]
        /\ conn'[c].at = at /\ conn'[c].id = K + 1 /\ conn'[c].ans = ans
    BY <1>0, <1>1, MovesIn DEF ConnStates
  <1>3. Bound' = Bound /\ \A d \in Conns : HelperOf(d)' = HelperOf(d)
    BY <1>2 DEF Bound, HelperOf
  <1>4. HelperOf(c) = h /\ conn[c].id = 0
    BY <1>0 DEF HelperOf, NumbersUnique
  <1>5. \A d \in Conns : conn[d].id \in Nat
    BY DEF TypeOK
  <1>6. Numbered(h)' = Numbered(h) \cup {c} /\ c \notin Numbered(h)
    BY <1>1, <1>2, <1>3, <1>4, <1>5 DEF Numbered
  <1>7. \A g : g # h => Numbered(g)' = Numbered(g)
    BY <1>2, <1>3, <1>4, <1>5 DEF Numbered
  <1>8. Cardinality(Numbered(h)') = K + 1
    BY <1>1, <1>6, FS_AddElement
  <1>9. \A d \in Conns : conn[d].id > 0 /\ HelperOf(d) = h => conn[d].id <= K
    BY DEF NumbersUnique
  <1>10. \A d \in Conns : conn'[d].id > 0 =>
             conn'[d].s # 0 /\ conn'[d].id <= Cardinality(Numbered(HelperOf(d)))'
    <2>1. ASSUME NEW d \in Conns, conn'[d].id > 0
          PROVE  conn'[d].s # 0 /\ conn'[d].id <= Cardinality(Numbered(HelperOf(d)))'
      <3>1. CASE d = c
        BY <1>0, <1>1, <1>2, <1>3, <1>4, <1>8, <3>1
      <3>2. CASE d # c
        <4>1. conn'[d] = conn[d] /\ HelperOf(d)' = HelperOf(d)
          BY <1>2, <1>3, <3>2
        <4>2. conn[d].s # 0 /\ conn[d].id <= Cardinality(Numbered(HelperOf(d)))
          BY <2>1, <4>1 DEF NumbersUnique
        <4>3. CASE HelperOf(d) = h
          <5>1. conn[d].id <= K + 1
            BY <1>1, <1>5, <4>2, <4>3
          <5> QED
            BY <1>8, <4>1, <4>2, <4>3, <5>1
        <4>4. CASE HelperOf(d) # h
          BY <1>7, <4>1, <4>2, <4>4
        <4> QED
          BY <4>3, <4>4
      <3> QED
        BY <3>1, <3>2
    <2> QED
      BY <2>1
  <1>11. \A d, e \in Conns :
             conn'[d].id > 0 /\ conn'[e].id = conn'[d].id /\ HelperOf(e)' = HelperOf(d)' => d = e
    <2>1. ASSUME NEW d \in Conns \ {c}, HelperOf(d) = h
          PROVE  conn'[d].id # K + 1
      BY <1>1, <1>2, <1>5, <1>9, <2>1
    <2> QED
      BY <1>2, <1>3, <1>4, <2>1 DEF NumbersUnique
  <1>12. /\ \A d \in Conns : conn'[d].s = 0 \/ conn'[d].s \in Bound'
         /\ \A d \in Conns : conn'[d].at \in {"none", "accepted"} => conn'[d].id = 0
    BY <1>2, <1>3 DEF NumbersUnique
  <1>13. OwnReplies'
    BY <1>2 DEF OwnReplies
  <1> QED
    BY <1>10, <1>11, <1>12, <1>13 DEF NumbersUnique

(* deliverReply: what carries a helper's number is about the request the     *)
(* helper gave it to, so the waiting connection it finds is the one.         *)
LEMMA ReplyAnswers ==
    ASSUME TypeOK, TypeOK', ServiceInv, NumbersUnique, OwnReplies, UNCHANGED svc,
           NEW h \in Helpers, NEW r \in TrueMsgs(h), r.op = "reply", Deliver(h, r)
    PROVE  NumbersUnique' /\ OwnReplies'
  <1>0. ServicesInOrder /\ r \in Msgs /\ Refers(h, r)
    BY DEF ServiceInv, TrueMsgs
  <1>1. \A c \in Conns : /\ conn'[c].at = conn[c].at /\ conn'[c].s = conn[c].s
                         /\ conn'[c].id = conn[c].id /\ conn'[c].ans = conn[c].ans
                         /\ \/ conn'[c].reply = conn[c].reply
                            \/ /\ cb[h] # 0 /\ c \in PendingOf(cb[h]) /\ conn[c].id = r.id
                               /\ conn[c].reply = 0 /\ conn'[c].reply = r.for
    BY <1>0, DeliverIn
  <1>2. Bound' = Bound /\ \A c \in Conns : HelperOf(c)' = HelperOf(c)
    BY <1>1 DEF Bound, HelperOf
  <1>3. \A g : Numbered(g)' = Numbered(g)
    BY <1>1, <1>2 DEF Numbered
  <1>4. NumbersUnique'
    BY <1>1, <1>2, <1>3 DEF NumbersUnique
  <1>5. ASSUME NEW c \in Conns, cb[h] # 0, c \in PendingOf(cb[h]), conn[c].id = r.id
        PROVE  c = r.for
    <2>1. conn[c].s = cb[h] /\ svc[cb[h]].h = h
      BY <1>0, <1>5 DEF PendingOf, ServicesInOrder
    <2>2. HelperOf(c) = h
      BY <1>5, <2>1 DEF HelperOf
    <2>3. r.for \in Conns /\ r.id > 0 /\ conn[r.for].id = r.id /\ HelperOf(r.for) = h
      BY <1>0 DEF Refers
    <2> QED
      BY <1>5, <2>2, <2>3 DEF NumbersUnique
  <1>6. OwnReplies'
    <2>1. ASSUME NEW c \in Conns
          PROVE  conn'[c].reply \in {0, c} /\ (conn'[c].ans = "app" => conn'[c].reply = c)
      <3>1. CASE conn'[c].reply = conn[c].reply
        BY <1>1, <3>1 DEF OwnReplies
      <3>2. CASE conn'[c].reply # conn[c].reply
        BY <1>1, <1>5, <3>2
      <3> QED
        BY <3>1, <3>2
    <2> QED
      BY <2>1 DEF OwnReplies
  <1> QED
    BY <1>4, <1>6

LEMMA AnswersStep ==
    ASSUME TypeOK, ServiceInv, AnswerInv, [Next]_vars
    PROVE  NumbersUnique' /\ OwnReplies'
  <1>0. NumbersUnique /\ NothingConfused /\ OwnReplies /\ TypeOK'
    BY TypeStep DEF AnswerInv, ServiceInv
  <1>1. CASE Steady
    BY <1>0, <1>1, BoundStays, SteadyAnswers
  <1>2. ASSUME NEW c \in Conns, Ask(c)
        PROVE  NumbersUnique' /\ OwnReplies'
    <2>1. PICK s \in Services : s = conn[c].s
      BY <1>2, AskMoves
    <2>2. conn[c].at = "accepted" /\ UNCHANGED svc /\ conn[c].ans \in Answers
      BY <1>2, AskMoves DEF Ask, svcVars, TypeOK
    <2>3. \/ Moves(c, "done", conn[c].id, "refused")
          \/ Moves(c, "decided", conn[c].id, "not-connected")
          \/ Moves(c, "decided", NextId(s), "not-connected")
          \/ Moves(c, "wait", NextId(s), conn[c].ans)
      BY <1>2, <2>1, AskMoves
    <2>4. CASE Moves(c, "done", conn[c].id, "refused")
      BY <1>0, <1>1, <2>2, <2>4, MoveSteady, BoundStays, SteadyAnswers DEF Answers
    <2>5. CASE Moves(c, "decided", conn[c].id, "not-connected")
      BY <1>0, <1>1, <2>2, <2>5, MoveSteady, BoundStays, SteadyAnswers DEF Answers
    <2>6. CASE Moves(c, "decided", NextId(s), "not-connected")
      BY <1>0, <2>1, <2>2, <2>6, NumberedAnswers DEF Answers
    <2>7. CASE Moves(c, "wait", NextId(s), conn[c].ans)
      BY <1>0, <2>1, <2>2, <2>7, NumberedAnswers
    <2> QED
      BY <2>3, <2>4, <2>5, <2>6, <2>7
  <1>3. ASSUME NEW h \in Helpers, Read(h)
        PROVE  NumbersUnique' /\ OwnReplies'
    <2>1. wire[h] \in Seq(TrueMsgs(h)) /\ wire[h] # << >> /\ UNCHANGED svc
      BY <1>0, <1>3 DEF NothingConfused, Read, svcVars
    <2>2. PICK r \in TrueMsgs(h) : r = Head(wire[h])
      BY <2>1, TailIn
    <2>3. (r.op = "reply" /\ Deliver(h, r)) \/ UNCHANGED conn
      BY <1>3, <2>2 DEF Read
    <2>4. CASE UNCHANGED conn
      BY <1>1, <2>4 DEF Steady
    <2> QED
      BY <1>0, <2>1, <2>3, <2>4, ReplyAnswers
  <1> QED
    BY <1>0, <1>1, <1>2, <1>3, SteadySteps

(* What was true of a message under way stays true. *)
LEMMA ReferencesStay ==
    ASSUME TypeOK, ServiceInv, NumbersUnique, [Next]_vars
    PROVE  /\ \A h \in Helpers : TrueMsgs(h) \subseteq TrueMsgs(h)' /\ TrueFrames(h) \subseteq TrueFrames(h)'
           /\ \A s \in Services : Asked(s) \subseteq Asked(s)'
  <1>1. ASSUME NEW c \in Conns, conn[c].id > 0
        PROVE  conn'[c].id = conn[c].id /\ conn'[c].s = conn[c].s
    <2>1. conn[c].at \notin {"none", "accepted"}
      <3>1. conn[c].id # 0
        BY <1>1
      <3> QED
        BY <3>1 DEF NumbersUnique
    <2>2. CASE Steady
      BY <2>1, <2>2 DEF Steady
    <2>3. ASSUME NEW d \in Conns, Ask(d)
          PROVE  conn'[c].id = conn[c].id /\ conn'[c].s = conn[c].s
      <3>1. PICK s \in Services : s = conn[d].s
        BY <2>3, AskMoves
      <3>5. conn[d].id \in Nat /\ conn[d].ans \in Answers /\ ConnOK
        BY ConnTypes DEF TypeOK
      <3>2. NextId(s) \in Nat /\ s # 0
        BY NextIdType DEF Services
      <3>3. conn[d].at = "accepted"
        BY <2>3, AskMoves
      <3>4. \A e \in Conns \ {d} : conn'[e] = conn[e]
        BY <2>3, <3>1, <3>2, <3>5, AskMoves, MovesIn DEF ConnStates, Answers
      <3> QED
        BY <2>1, <3>3, <3>4
    <2>4. ASSUME NEW h \in Helpers, Read(h)
          PROVE  conn'[c].id = conn[c].id /\ conn'[c].s = conn[c].s
      <3>1. Head(wire[h]) \in Msgs
        BY <2>4, TailIn DEF Read, TypeOK
      <3>2. PICK r \in Msgs : r = Head(wire[h])
        BY <3>1
      <3>3. Deliver(h, r) \/ UNCHANGED conn
        BY <2>4, <3>2 DEF Read
      <3> QED
        BY <3>3, DeliverIn
    <2> QED
      BY <2>2, <2>3, <2>4, SteadySteps
  <1>2. ASSUME NEW c \in Conns, conn[c].id > 0
        PROVE  HelperOf(c)' = HelperOf(c)
    <2>1. conn[c].s \in Bound
      BY <1>2 DEF NumbersUnique
    <2> QED
      BY <1>1, <1>2, <2>1, BoundStays DEF HelperOf
  <1>3. ASSUME NEW h \in Helpers, NEW m, m.id \in Nat, Refers(h, m)
        PROVE  Refers(h, m)'
    BY <1>1, <1>2, <1>3 DEF Refers
  <1>4. \A m \in Msgs : m.id \in Nat
    BY DEF Msgs
  <1>5. \A f \in Frames : f.id \in Nat
    BY DEF Frames
  <1>6. \A h \in Helpers : TrueMsgs(h) \subseteq TrueMsgs(h)'
    BY <1>3, <1>4 DEF TrueMsgs
  <1>7. \A h \in Helpers : TrueFrames(h) \subseteq TrueFrames(h)'
    BY <1>3, <1>5 DEF TrueFrames
  <1>8. \A s \in Services : Asked(s) \subseteq Asked(s)'
    BY <1>1 DEF Asked
  <1> QED
    BY <1>6, <1>7, <1>8

(* Requests under way: a reply is about the event it answers. *)
LEMMA WireTravels ==
    ASSUME TypeOK, NothingConfused, [Next]_vars, NEW g \in Helpers
    PROVE  wire'[g] \in Seq(TrueMsgs(g))
  <1>0. wire[g] \in Seq(TrueMsgs(g)) /\ wire \in [Helpers -> Seq(Msgs)]
    BY DEF NothingConfused, TypeOK
  <1>1. \A op \in {"slow", "hello"} : Request(op) \in TrueMsgs(g)
    BY DEF Request, TrueMsgs, Msgs
  <1>2. CASE wire'[g] = wire[g]
    BY <1>0, <1>2
  <1>3. ASSUME NEW h \in Helpers, Application(h), h = g
        PROVE  wire'[g] \in Seq(TrueMsgs(g))
    <2>1. CASE Launch(g)
      <3>1. wire'[g] = << Request("hello") >>
        BY <1>0, <2>1 DEF Launch
      <3> QED
        BY <1>1, <3>1
    <2>2. CASE Call(g)
      <3>1. PICK m \in TrueMsgs(g) : wire'[g] = Append(wire[g], m)
        BY <1>0, <1>1, <2>2 DEF Call
      <3> QED
        BY <1>0, <3>1
    <2>3. CASE Dispatch(g)
      <3>1. out[g] \in Seq(TrueFrames(g)) /\ out[g] # << >>
        BY <2>3 DEF Dispatch, NothingConfused
      <3>2. PICK f \in TrueFrames(g) : f = Head(out[g])
        BY <3>1, TailIn
      <3>3. wire'[g] = wire[g] \/ (f.kind = "event" /\ wire'[g] = Append(wire[g], Reply(f.id, f.for)))
        BY <1>0, <2>3, <3>2 DEF Dispatch
      <3>4. f.kind = "event" => Reply(f.id, f.for) \in TrueMsgs(g)
        BY DEF Reply, TrueMsgs, TrueFrames, Refers, Msgs, Frames
      <3>5. CASE f.kind = "event"
        <4>1. PICK m \in TrueMsgs(g) : m = Reply(f.id, f.for)
          BY <3>4, <3>5
        <4>2. wire'[g] = wire[g] \/ wire'[g] = Append(wire[g], m)
          BY <3>3, <4>1
        <4>3. Append(wire[g], m) \in Seq(TrueMsgs(g))
          BY <1>0
        <4> QED
          BY <1>0, <4>2, <4>3
      <3> QED
        BY <1>0, <3>3, <3>5
    <2>4. CASE LinkLost(g)
      <3>1. PICK n \in 0 .. Len(wire[g]) : wire'[g] = SubSeq(wire[g], 1, n)
        BY <1>0, <2>4 DEF LinkLost
      <3> QED
        BY <1>0, <3>1, CutIn
    <2>5. CASE Disconnect(g) \/ Noticed(g)
      BY <1>0, <2>5 DEF Disconnect, Noticed
    <2> QED
      BY <1>3, <2>1, <2>2, <2>3, <2>4, <2>5 DEF Application
  <1>4. ASSUME NEW h \in Helpers, Application(h), h # g
        PROVE  wire'[g] = wire[g]
    BY <1>0, <1>4 DEF Application, Launch, Call, Dispatch, Disconnect, LinkLost, Noticed
  <1>5. ASSUME NEW h \in Helpers, Read(h)
        PROVE  wire'[g] \in Seq(TrueMsgs(g))
    <2>1. wire' = [wire EXCEPT ![h] = Tail(@)] /\ wire[h] # << >>
      BY <1>5 DEF Read
    <2>2. CASE h = g
      BY <1>0, <2>1, <2>2, TailIn
    <2>3. CASE h # g
      BY <1>0, <2>1, <2>3
    <2> QED
      BY <2>2, <2>3
  <1>6. ASSUME NEW h \in Helpers, Process(h), ~ Read(h)
        PROVE  wire' = wire
    BY <1>6 DEF Process, Reader, Worker, Boot, Eof, Take, Slow, Bind, Install, Disabled,
                QueueClosed, WorkerDone, Exit
  <1>7. ASSUME NEW c \in Conns, Connect(c) \/ Serving(c) \/ GraceOver(c)
        PROVE  wire' = wire
    BY <1>7 DEF Connect, Serving, Ask, Answered, TimesOut, Finish, GraceOver
  <1>8. ASSUME NEW s \in Services, WriteEvent(s)
        PROVE  wire' = wire
    BY <1>8 DEF WriteEvent
  <1>9. CASE UNCHANGED vars
    BY <1>0, <1>9 DEF vars
  <1> QED
    BY <1>2, <1>3, <1>4, <1>5, <1>6, <1>7, <1>8, <1>9 DEF Next

LEMMA WriteTravels ==
    ASSUME TypeOK, NothingConfused, NEW h \in Helpers, NEW f \in TrueFrames(h), Write(h, f),
           NEW g \in Helpers
    PROVE  out'[g] \in Seq(TrueFrames(g))
  <1>1. out \in [Helpers -> Seq(Frames)] /\ out[g] \in Seq(TrueFrames(g))
    BY DEF TypeOK, NothingConfused
  <1>2. CASE g = h
    <2>1. out'[g] = << >> \/ out'[g] = Append(out[g], f)
      BY <1>1, <1>2 DEF Write
    <2>2. f \in TrueFrames(g) /\ << >> \in Seq(TrueFrames(g))
      BY <1>2
    <2>3. Append(out[g], f) \in Seq(TrueFrames(g))
      BY <1>1, <2>2
    <2> QED
      BY <2>1, <2>2, <2>3
  <1>3. CASE g # h
    BY <1>1, <1>3 DEF Write
  <1> QED
    BY <1>2, <1>3

(* Frames under way: an event carries the number of the request it announces. *)
LEMMA OutTravels ==
    ASSUME TypeOK, ServicesInOrder, NothingConfused, [Next]_vars, NEW g \in Helpers
    PROVE  out'[g] \in Seq(TrueFrames(g))
  <1>0. out[g] \in Seq(TrueFrames(g)) /\ out \in [Helpers -> Seq(Frames)] /\ << >> \in Seq(TrueFrames(g))
    BY DEF NothingConfused, TypeOK
  <1>1. \A h \in Helpers, k \in {"hello", "result"}, w \in {TheReader, TheWorker} :
            Frame(k, w, 0, 0) \in TrueFrames(h)
    BY WritersIn DEF Frame, TrueFrames, Frames
  <1>2. CASE out'[g] = out[g]
    BY <1>0, <1>2
  <1>3. ASSUME NEW h \in Helpers, Application(h)
        PROVE  out'[g] \in Seq(TrueFrames(g))
    <2>1. CASE Dispatch(h)
      <3>1. out' = [out EXCEPT ![h] = Tail(@)] /\ out[h] # << >>
        BY <2>1 DEF Dispatch
      <3>2. CASE h = g
        BY <1>0, <3>1, <3>2, TailIn
      <3>3. CASE h # g
        BY <1>0, <3>1, <3>3
      <3> QED
        BY <3>2, <3>3
    <2>2. CASE Disconnect(h) \/ Noticed(h)
      <3>1. out'[g] = out[g] \/ out'[g] = << >>
        BY <1>0, <2>2 DEF Disconnect, Noticed, StreamEnds
      <3> QED
        BY <1>0, <3>1
    <2>3. CASE Launch(h) \/ Call(h) \/ LinkLost(h)
      BY <1>0, <2>3 DEF Launch, Call, LinkLost
    <2> QED
      BY <1>3, <2>1, <2>2, <2>3 DEF Application
  <1>4. ASSUME NEW h \in Helpers, Process(h)
        PROVE  out'[g] \in Seq(TrueFrames(g))
    <2>1. \/ UNCHANGED out
          \/ \E k \in {"hello", "result"}, w \in {TheReader, TheWorker} : Write(h, Frame(k, w, 0, 0))
      BY <1>4, InstallIn DEF Process, Reader, Worker, Boot, Read, Eof, Take, Slow, Bind, Disabled,
                  QueueClosed, WorkerDone, Exit
    <2> QED
      BY <1>0, <1>1, <2>1, WriteTravels
  <1>5. ASSUME NEW c \in Conns, Connect(c) \/ Serving(c) \/ GraceOver(c)
        PROVE  out' = out
    BY <1>5 DEF Connect, Serving, Ask, Answered, TimesOut, Finish, GraceOver
  <1>6. ASSUME NEW s \in Services, WriteEvent(s)
        PROVE  out'[g] \in Seq(TrueFrames(g))
    <2>1. PICK h \in Helpers : h = svc[s].h
      BY DEF TypeOK
    <2>2. events[s] \in Seq(Asked(s)) /\ events[s] # << >>
      BY <1>6 DEF WriteEvent, NothingConfused
    <2>3. PICK c \in Asked(s) : c = Head(events[s])
      BY <2>2, TailIn
    <2>4. c \in Conns /\ conn[c].s = s /\ conn[c].id > 0 /\ conn[c].id \in Nat /\ s # 0
      BY DEF Asked, TypeOK, Services
    <2>5. Frame("event", EventsOf(s), conn[c].id, c) \in TrueFrames(h)
      BY <2>1, <2>4, WritersIn DEF Frame, TrueFrames, Frames, Refers, HelperOf
    <2>6. Write(h, Frame("event", EventsOf(s), conn[c].id, c))
      BY <1>6, <2>1, <2>3 DEF WriteEvent
    <2> QED
      BY <2>5, <2>6, WriteTravels
  <1>7. CASE UNCHANGED vars
    BY <1>0, <1>7 DEF vars
  <1> QED
    BY <1>2, <1>3, <1>4, <1>5, <1>6, <1>7 DEF Next

(* Requests in a backlog are numbered, and of the service. *)
LEMMA EventsTravel ==
    ASSUME TypeOK, ServiceInv, NumbersUnique, NothingConfused, [Next]_vars, NEW s \in Services
    PROVE  events'[s] \in Seq(Asked(s)')
  <1>0. /\ events[s] \in Seq(Asked(s)) /\ events \in [Services -> Seq(Conns)]
        /\ Asked(s) \subseteq Asked(s)' /\ << >> \in Seq(Asked(s)')
    BY ReferencesStay DEF NothingConfused, TypeOK
  <1>1. events[s] \in Seq(Asked(s)')
    BY <1>0, SeqMono
  <1>2. ASSUME NEW h \in Helpers, Application(h)
        PROVE  events' = events
    BY <1>2 DEF Application, Launch, Call, Dispatch, Disconnect, LinkLost, Noticed
  <1>3. ASSUME NEW h \in Helpers, Process(h)
        PROVE  events' = events \/ Ends(h)
    BY <1>3 DEF Process, Reader, Worker, Boot, Read, Eof, Take, Slow, Bind, Install, Disabled,
                QueueClosed, WorkerDone, Exit
  <1>4. ASSUME NEW h \in Helpers, Ends(h)
        PROVE  events'[s] \in {events[s], << >>}
    BY <1>4, EndsIn
  <1>5. ASSUME NEW c \in Conns, Connect(c) \/ Answered(c) \/ TimesOut(c) \/ Finish(c) \/ GraceOver(c)
        PROVE  events' = events
    BY <1>5 DEF Connect, Answered, TimesOut, Finish, GraceOver
  <1>6. ASSUME NEW c \in Conns, Ask(c)
        PROVE  events'[s] \in Seq(Asked(s)')
    <2>1. PICK t \in Services : t = conn[c].s
      BY <1>6, AskMoves
    <2>2. \/ UNCHANGED events
          \/ Moves(c, "wait", NextId(t), conn[c].ans) /\ events' = [events EXCEPT ![t] = Append(@, c)]
      BY <1>6, <2>1, AskMoves
    <2>3. CASE Moves(c, "wait", NextId(t), conn[c].ans) /\ events' = [events EXCEPT ![t] = Append(@, c)]
      <3>1. ConnOK /\ conn[c].ans \in Answers /\ NextId(t) \in Nat \ {0} /\ t # 0
        <4>1. ConnOK /\ conn[c].ans \in Answers
          BY ConnTypes DEF TypeOK
        <4>2. NextId(t) \in Nat \ {0} /\ t # 0
          BY NextIdType DEF Services
        <4> QED
          BY <4>1, <4>2
      <3>2. conn'[c].id = NextId(t) /\ conn'[c].s = t
        BY <2>1, <2>3, <3>1, MovesIn DEF ConnStates
      <3>3. c \in Asked(t)'
        <4>1. conn'[c].id > 0
          BY <3>1, <3>2
        <4> QED
          BY <3>2, <4>1 DEF Asked
      <3>4. CASE t = s
        <4>1. events'[s] = Append(events[s], c)
          BY <1>0, <2>3, <3>4
        <4> QED
          BY <1>1, <3>3, <3>4, <4>1
      <3>5. CASE t # s
        BY <1>0, <1>1, <2>3, <3>5
      <3> QED
        BY <3>4, <3>5
    <2> QED
      BY <1>1, <2>2, <2>3
  <1>7. ASSUME NEW t \in Services, WriteEvent(t)
        PROVE  events'[s] \in Seq(Asked(s)')
    <2>1. events' = [events EXCEPT ![t] = Tail(@)] /\ events[t] # << >>
      BY <1>7 DEF WriteEvent
    <2>2. CASE t = s
      BY <1>0, <1>1, <2>1, <2>2, TailIn
    <2>3. CASE t # s
      BY <1>0, <1>1, <2>1, <2>3
    <2> QED
      BY <2>2, <2>3
  <1>8. CASE UNCHANGED vars
    BY <1>1, <1>8 DEF vars
  <1> QED
    BY <1>0, <1>1, <1>2, <1>3, <1>4, <1>5, <1>6, <1>7, <1>8 DEF Next, Serving

LEMMA AnswerStep ==
    ASSUME TypeOK, ServiceInv, AnswerInv, [Next]_vars
    PROVE  AnswerInv'
  <1>0. NumbersUnique /\ NothingConfused /\ OwnReplies /\ ServicesInOrder
    BY DEF AnswerInv, ServiceInv
  <1>1. ASSUME NEW h \in Helpers
        PROVE  wire'[h] \in Seq(TrueMsgs(h)') /\ out'[h] \in Seq(TrueFrames(h)')
    <2>1. TrueMsgs(h) \subseteq TrueMsgs(h)' /\ TrueFrames(h) \subseteq TrueFrames(h)'
      BY <1>0, ReferencesStay
    <2>2. wire'[h] \in Seq(TrueMsgs(h)) /\ out'[h] \in Seq(TrueFrames(h))
      BY <1>0, WireTravels, OutTravels
    <2> QED
      BY <2>1, <2>2, SeqMono
  <1>2. NothingConfused'
    BY <1>0, <1>1, EventsTravel DEF NothingConfused
  <1> QED
    BY <1>2, AnswersStep DEF AnswerInv

LEMMA InitAnswers == Init => AnswerInv
  <1> SUFFICES ASSUME Init
               PROVE  AnswerInv
    OBVIOUS
  <1>1. \A c \in Conns : conn[c].s = 0 /\ conn[c].id = 0 /\ conn[c].reply = 0 /\ conn[c].ans = "none"
    BY DEF Init
  <1>2. NumbersUnique /\ OwnReplies
    BY <1>1 DEF NumbersUnique, OwnReplies
  <1>3. /\ \A h \in Helpers : wire[h] = << >> /\ out[h] = << >>
        /\ \A s \in Services : events[s] = << >>
    BY DEF Init
  <1>4. NothingConfused
    <2>1. \A S : << >> \in Seq(S)
      OBVIOUS
    <2> QED
      BY <1>3, <2>1 DEF NothingConfused
  <1> QED
    BY <1>2, <1>4 DEF AnswerInv

THEOREM Invariance == Spec => []IInv
  <1>1. Init => IInv
    BY InitInv, InitAnswers DEF IInv
  <1>2. IInv /\ [Next]_vars => IInv'
    BY TypeStep, ServiceStep, AnswerStep DEF IInv, ServiceInv
  <1> QED
    BY <1>1, <1>2, PTL DEF Spec

(* Whatever replies come late, after timeouts or through a handshake that    *)
(* replaces the service, a CLI that hears from the application hears the     *)
(* answer to its own request (connSeq is server-wide).                       *)
THEOREM OwnAnswerAlways == Spec => []OwnAnswer
  <1>1. IInv => OwnAnswer
    BY DEF IInv, AnswerInv, OwnReplies, OwnAnswer
  <1> QED
    BY <1>1, Invariance, PTL
=============================================================================
