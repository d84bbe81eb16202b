------------------------ MODULE SessionManagerProofs ------------------------
(***************************************************************************)
(* Proofs about SessionManager, for every set of projects, of providers    *)
(* and every bound; and, in the last part, about WorktreeSync, for every   *)
(* set of worktrees and every bound.                                       *)
(*                                                                         *)
(* In the last part, the panel: functions of a slice keep it Sound with    *)
(* respect to the selection and the repository they are given, and every   *)
(* step is such a function, so PanelInv needs no assumption.  The extra    *)
(* watch: ExtraInv, if what a session has begun ends before the next is    *)
(* opened (~Spans).                                                        *)
(***************************************************************************)
EXTENDS SessionManager, WorktreeSync, SequenceTheorems, TLAPS

-----------------------------------------------------------------------------
(* The broker's queue.                                                     *)

BrokerType ==
    /\ pending \in [Projects -> Seq(BrokerOps)]
    /\ listeners \in [Projects -> {"none", "bound", "disabled"}]

\* What a step leaves alone in the broker, apart from p.
BrokerFrame(p) ==
    \A q \in Projects \ {p} :
        pending'[q] = pending[q] /\ listeners'[q] = listeners[q]

RunningStop(p) ==
    pending[p] # <<>> /\ Head(pending[p]) = "stop" => listeners[p] = "none"

\* Head, tail and last element of a nonempty sequence.
LEMMA TailLemma ==
    ASSUME NEW S, NEW s \in Seq(S), s # <<>>
    PROVE  /\ Len(s) \in Nat \ {0} /\ Head(s) = s[1]
           /\ Tail(s) \in Seq(S) /\ Len(Tail(s)) = Len(s) - 1
           /\ Tail(s) # <<>> => Tail(s)[Len(Tail(s))] = s[Len(s)]
           /\ Tail(s) = <<>> => Len(s) = 1
  <1>1. Len(s) \in Nat \ {0}
    BY EmptySeq
  <1>2. /\ Tail(s) \in Seq(S) /\ Len(Tail(s)) = Len(s) - 1
        /\ \A i \in 1 .. Len(Tail(s)) : Tail(s)[i] = s[i + 1]
    BY HeadTailProperties
  <1>3. Tail(s) # <<>> => Len(Tail(s)) \in 1 .. Len(Tail(s))
    BY <1>1, <1>2, EmptySeq
  <1>4. Tail(s) = <<>> => Len(Tail(s)) = 0
    BY EmptySeq
  <1> QED
    BY <1>1, <1>2, <1>3, <1>4

\* A queued start keeps the broker well-formed and is what decides.
LEMMA StartListenerLemma ==
    ASSUME BrokerType, NEW p \in Projects, NEW op \in {"start", "awaited"},
           RunningStop(p), StartListener(p, op)
    PROVE  BrokerType' /\ BrokerFrame(p) /\ RunningStop(p)' /\ ~Stopping(p)'
  <1> DEFINE s == pending[p]
             t == Append(s, op)
  <1>1. s \in Seq(BrokerOps) /\ op \in BrokerOps /\ op # "stop"
    BY DEF BrokerType, BrokerOps
  <1>2. /\ t \in Seq(BrokerOps) /\ t # <<>> /\ t[Len(t)] = op
        /\ s # <<>> => Head(t) = Head(s)
        /\ s = <<>> => Head(t) = op
    BY <1>1
  <1>3. pending'[p] = t /\ BrokerType' /\ BrokerFrame(p)
    BY <1>2 DEF StartListener, BrokerType, BrokerFrame
  <1> QED
    BY <1>1, <1>2, <1>3 DEF StartListener, RunningStop, Stopping

\* A stop, queued or immediate, leaves the project stopping.
LEMMA StopListenerLemma ==
    ASSUME BrokerType, NEW p \in Projects, RunningStop(p), StopListener(p)
    PROVE  BrokerType' /\ BrokerFrame(p) /\ RunningStop(p)' /\ Stopping(p)'
  <1> DEFINE s == pending[p]
             t == Append(s, "stop")
  <1>1. s \in Seq(BrokerOps) /\ "stop" \in BrokerOps
    BY DEF BrokerType, BrokerOps
  <1>2. /\ t \in Seq(BrokerOps) /\ t # <<>> /\ t[Len(t)] = "stop"
        /\ s # <<>> => Head(t) = Head(s)
        /\ <<"stop">> \in Seq(BrokerOps) /\ Len(<<"stop">>) = 1
        /\ <<"stop">> # <<>>
    BY <1>1
  <1>3. CASE s = <<>>
    <2>1. BrokerType' /\ BrokerFrame(p) /\ listeners'[p] = "none"
      BY <1>1, <1>2, <1>3 DEF StopListener, BrokerType, BrokerFrame
    <2>2. pending'[p] = <<"stop">> \/ pending'[p] = <<>>
      BY <1>1, <1>3 DEF StopListener, BrokerType
    <2> QED
      BY <1>2, <2>1, <2>2 DEF RunningStop, Stopping
  <1>4. CASE s # <<>>
    <2>1. BrokerType' /\ BrokerFrame(p) /\ listeners' = listeners
      BY <1>1, <1>2, <1>4 DEF StopListener, BrokerType, BrokerFrame
    <2>2. pending'[p] = IF s[Len(s)] = "stop" THEN s ELSE t
      BY <1>1, <1>4 DEF StopListener, BrokerType
    <2> QED
      BY <1>2, <1>4, <2>1, <2>2 DEF RunningStop, Stopping
  <1> QED
    BY <1>3, <1>4

\* The end of an operation changes nothing about how p ends up.
LEMMA BrokerStepLemma ==
    ASSUME BrokerType, NEW p \in Projects, NEW bound \in BOOLEAN,
           RunningStop(p), BrokerStep(p, bound)
    PROVE  BrokerType' /\ BrokerFrame(p) /\ RunningStop(p)'
           /\ (Stopping(p)' <=> Stopping(p))
  <1> DEFINE s    == pending[p]
             ops  == Tail(s)
             held == AfterOp(p, bound)
             stop == ops # <<>> /\ Head(ops) = "stop"
             t    == IF stop /\ held # "bound" THEN Tail(ops) ELSE ops
  <1>1. s \in Seq(BrokerOps) /\ s # <<>>
    BY DEF BrokerType, BrokerStep
  <1>2. /\ ops \in Seq(BrokerOps) /\ Len(ops) = Len(s) - 1 /\ Len(s) \in Nat \ {0}
        /\ Head(s) = s[1]
        /\ ops # <<>> => ops[Len(ops)] = s[Len(s)]
        /\ ops = <<>> => Len(s) = 1
    BY <1>1, TailLemma
  <1>3. /\ t \in Seq(BrokerOps)
        /\ t # <<>> => t[Len(t)] = s[Len(s)]
        /\ t = <<>> /\ stop => s[Len(s)] = "stop"
    <2>1. ops # <<>> => /\ Tail(ops) \in Seq(BrokerOps)
                        /\ Len(Tail(ops)) = Len(ops) - 1
                        /\ Tail(ops) # <<>> => Tail(ops)[Len(Tail(ops))] = ops[Len(ops)]
                        /\ Tail(ops) = <<>> => Len(ops) = 1
                        /\ Head(ops) = ops[1]
      BY <1>2, TailLemma
    <2> QED
      BY <1>2, <2>1
  <1>4. held \in {"none", "bound", "disabled"}
    BY DEF AfterOp, BrokerType
  <1>5. /\ pending'[p] = t
        /\ listeners'[p] = IF stop THEN "none" ELSE held
        /\ BrokerType' /\ BrokerFrame(p)
    BY <1>3, <1>4 DEF BrokerStep, BrokerType, BrokerFrame
  <1>6. Head(s) = "stop" => held = "none"
    BY <1>1 DEF AfterOp, RunningStop
  <1>7. Head(s) # "stop" => held # "none"
    BY DEF AfterOp
  <1>8. ~stop => RunningStop(p)'
    BY <1>5 DEF RunningStop
  <1>9. CASE stop
    BY <1>1, <1>2, <1>3, <1>5, <1>9 DEF RunningStop, Stopping
  <1>10. CASE ~stop
    BY <1>1, <1>2, <1>3, <1>5, <1>6, <1>7, <1>8, <1>10 DEF Stopping
  <1> QED
    BY <1>9, <1>10

\* Marking the newest start as awaited is invisible to what p ends up in.
LEMMA AwaitLemma ==
    ASSUME BrokerType, NEW p \in Projects, RunningStop(p), CallbackStart(p) # 0,
           pending' = [pending EXCEPT ![p][CallbackStart(p)] = "awaited"],
           listeners' = listeners
    PROVE  BrokerType' /\ BrokerFrame(p) /\ RunningStop(p)'
           /\ (Stopping(p)' <=> Stopping(p))
  <1> DEFINE s == pending[p]
             k == CallbackStart(p)
             t == [s EXCEPT ![k] = "awaited"]
  <1>1. s \in Seq(BrokerOps) /\ Len(s) \in Nat
    BY LenProperties DEF BrokerType
  <1>2. k \in 1 .. Len(s) /\ s[k] # "stop"
    BY <1>1 DEF CallbackStart
  <1>3. /\ t \in Seq(BrokerOps) /\ Len(t) = Len(s)
        /\ \A j \in 1 .. Len(s) : t[j] = IF j = k THEN "awaited" ELSE s[j]
    <2> HIDE DEF s, k
    <2>1. "awaited" \in BrokerOps
      BY DEF BrokerOps
    <2> QED
      BY <1>1, <1>2, <2>1, ExceptSeq
  <1>4. pending'[p] = t /\ BrokerType' /\ BrokerFrame(p)
    BY <1>3 DEF BrokerType, BrokerFrame
  <1>5. s # <<>> /\ t # <<>> /\ Head(s) = s[1] /\ Head(t) = t[1]
    <2> HIDE DEF s, k, t
    <2>1. s # <<>> /\ t # <<>>
      BY <1>1, <1>2, <1>3, EmptySeq
    <2> QED
      BY <1>1, <1>3, <2>1, TailLemma
  <1>6. (t[Len(t)] = "stop" <=> s[Len(s)] = "stop") /\ (t[1] = "stop" <=> s[1] = "stop")
    <2> HIDE DEF s, k, t
    <2> QED
      BY <1>1, <1>2, <1>3
  <1> QED
    BY <1>4, <1>5, <1>6 DEF RunningStop, Stopping

-----------------------------------------------------------------------------
(* The invariant of one project, and what other projects do not disturb.    *)

ListenerInv(p) ==
    /\ RunningStop(p)
    /\ lastState[p] \in {"none", "disconnected", "failed"} => Stopping(p)
    /\ p \in LocalProjects /\ lastState[p] \in {"connected", "reconnecting"}
         => ~Stopping(p)

RecordInv(p) ==
    /\ statusOff[p] = sessions[p]
    /\ watchSubs[p] \in {NoInst, sessions[p]}
    /\ IF sessions[p] = NoInst THEN lastState[p] = "none"
       ELSE owner[sessions[p]] = p /\ lastState[p] = machine[sessions[p]]

ProjectInv(p) == RecordInv(p) /\ ListenerInv(p)

ProjectFrame(p) ==
    /\ BrokerFrame(p)
    /\ \A q \in Projects \ {p} :
          /\ sessions'[q] = sessions[q] /\ statusOff'[q] = statusOff[q]
          /\ lastState'[q] = lastState[q] /\ watchSubs'[q] = watchSubs[q]
          /\ sessions[q] # NoInst =>
                /\ owner'[sessions[q]] = owner[sessions[q]]
                /\ machine'[sessions[q]] = machine[sessions[q]]

LEMMA FrameLemma ==
    ASSUME NEW p \in Projects, \A q \in Projects : ProjectInv(q),
           ProjectFrame(p), ProjectInv(p)'
    PROVE  \A q \in Projects : ProjectInv(q)'
  <1> SUFFICES ASSUME NEW q \in Projects \ {p} PROVE ProjectInv(q)'
    OBVIOUS
  <1>1. ProjectInv(q)
    OBVIOUS
  <1>2. RecordInv(q)'
    BY <1>1 DEF ProjectInv, RecordInv, ProjectFrame
  <1>3. ListenerInv(q)'
    BY <1>1 DEF ProjectInv, ListenerInv, RunningStop, Stopping, ProjectFrame, BrokerFrame
  <1> QED
    BY <1>2, <1>3 DEF ProjectInv

\* The inductive invariant, regrouped by project.
Auxiliary ==
    FreshIsIdle /\ RebuildsEvicted /\ LocalIsIdle /\ LocalNeverDisconnected

LEMMA Regroup ==
    /\ IInv <=> TypeOK /\ Auxiliary /\ \A p \in Projects : ProjectInv(p)
    /\ IInv' <=> TypeOK' /\ Auxiliary' /\ \A p \in Projects : ProjectInv(p)'
  BY LocalAssumption
     DEF IInv, Auxiliary, ProjectInv, RecordInv, ListenerInv, RunningStop,
         RecordsAgree, RunningStopHoldsNone, ListenerOwned, ListenerServes

-----------------------------------------------------------------------------
(* The status funnel.                                                      *)

\* The types of what a report may change.
StatusType ==
    /\ lastState \in [Projects -> SessionStates]
    /\ watchSubs \in [Projects -> Providers]
    /\ subscribing \in [Inst -> Nat]
    /\ refused \in [Inst -> BOOLEAN]
    /\ BrokerType

LEMMA HandleStatusLemma ==
    ASSUME StatusType, NEW p \in Projects, NEW i \in Inst, NEW s \in ConnStates,
           ListenerInv(p), watchSubs[p] \in {NoInst, i},
           s = "reconnecting" => lastState[p] = "connected",
           HandleStatus(p, i, s)
    PROVE  /\ StatusType' /\ BrokerFrame(p)
           /\ \A q \in Projects \ {p} :
                lastState'[q] = lastState[q] /\ watchSubs'[q] = watchSubs[q]
           /\ lastState'[p] = s /\ watchSubs'[p] \in {NoInst, i}
           /\ ListenerInv(p)'
  <1>1. /\ lastState' \in [Projects -> SessionStates] /\ lastState'[p] = s
        /\ \A q \in Projects \ {p} : lastState'[q] = lastState[q]
    BY DEF HandleStatus, StatusType, SessionStates
  <1>2. CASE s = "connected" /\ lastState[p] # "connected"
    <2>1. StartWatch(p, i) /\ StartCallback(p)
      BY <1>2 DEF HandleStatus
    <2>2. /\ watchSubs' \in [Projects -> Providers]
          /\ subscribing' \in [Inst -> Nat] /\ refused' \in [Inst -> BOOLEAN]
          /\ \A q \in Projects \ {p} : watchSubs'[q] = watchSubs[q]
          /\ watchSubs'[p] \in {NoInst, i}
      <3>1. CASE watchSubs[p] # NoInst
        BY <2>1, <3>1 DEF StartWatch, watchVars, StatusType
      <3>2. CASE watchSubs[p] = NoInst /\ p \in LocalProjects
        BY <2>1, <3>2 DEF StartWatch, StatusType, Providers
      <3>3. CASE watchSubs[p] = NoInst /\ p \notin LocalProjects
        <4>1. /\ subscribing' = [subscribing EXCEPT ![i] = @ + 1]
              /\ refused' = [refused EXCEPT ![i] = FALSE]
              /\ UNCHANGED watchSubs
          BY <2>1, <3>3 DEF StartWatch
        <4>2. subscribing' \in [Inst -> Nat]
          BY <4>1 DEF StatusType
        <4>3. refused' \in [Inst -> BOOLEAN]
          BY <4>1 DEF StatusType
        <4> QED
          BY <3>3, <4>1, <4>2, <4>3 DEF StatusType
      <3> QED
        BY <3>1, <3>2, <3>3
    <2>3. CASE p \in LocalProjects
      <3>1. StartListener(p, "start") /\ RunningStop(p) /\ BrokerType
        BY <2>1, <2>3 DEF StartCallback, ListenerInv, StatusType
      <3>2. BrokerType' /\ BrokerFrame(p) /\ RunningStop(p)' /\ ~Stopping(p)'
        BY <3>1, StartListenerLemma
      <3> QED
        BY <1>1, <1>2, <2>2, <3>2 DEF StatusType, ListenerInv
    <2>4. CASE p \notin LocalProjects
      <3>1. UNCHANGED <<pending, listeners>>
        BY <2>1, <2>4 DEF StartCallback, brokerVars
      <3>2. BrokerType' /\ BrokerFrame(p) /\ RunningStop(p)'
        BY <3>1 DEF BrokerType, BrokerFrame, RunningStop, StatusType, ListenerInv
      <3> QED
        BY <1>1, <1>2, <2>2, <2>4, <3>2 DEF StatusType, ListenerInv
    <2> QED
      BY <2>3, <2>4
  <1>3. CASE s \in {"disconnected", "failed"}
    <2>1. StopWatch(p) /\ StopListener(p) /\ RunningStop(p) /\ BrokerType
      BY <1>3 DEF HandleStatus, ListenerInv, StatusType
    <2>2. BrokerType' /\ BrokerFrame(p) /\ RunningStop(p)' /\ Stopping(p)'
      BY <2>1, StopListenerLemma
    <2>3. /\ watchSubs' \in [Projects -> Providers]
          /\ \A q \in Projects \ {p} : watchSubs'[q] = watchSubs[q]
          /\ watchSubs'[p] = NoInst /\ UNCHANGED <<subscribing, refused>>
      BY <2>1 DEF StopWatch, StatusType, Providers
    <2> QED
      BY <1>1, <1>3, <2>2, <2>3 DEF StatusType, ListenerInv
  <1>4. CASE \/ s \in {"connecting", "reconnecting"}
             \/ s = "connected" /\ lastState[p] = "connected"
    <2>1. UNCHANGED <<watchSubs, subscribing, refused, pending, listeners>>
      BY <1>4 DEF HandleStatus, watchVars, brokerVars
    <2>2. BrokerType' /\ BrokerFrame(p) /\ RunningStop(p)' /\ (Stopping(p)' <=> Stopping(p))
      BY <2>1 DEF BrokerType, BrokerFrame, RunningStop, StatusType, ListenerInv, Stopping
    <2> QED
      BY <1>1, <1>4, <2>1, <2>2 DEF StatusType, ListenerInv
  <1> QED
    BY <1>2, <1>3, <1>4 DEF ConnStates

\* A report keeps every project's invariant, whether or not its provider is
\* still the session.
LEMMA EnterLemma ==
    ASSUME TypeOK, \A q \in Projects : ProjectInv(q),
           NEW i \in Inst, owner[i] \in Projects, NEW s \in ConnStates,
           s = "reconnecting" => machine[i] = "connected",
           Enter(i, s), UNCHANGED <<sessions, statusOff, owner>>
    PROVE  /\ StatusType' /\ machine' = [machine EXCEPT ![i] = s]
           /\ \A q \in Projects : ProjectInv(q)'
  <1> DEFINE p == owner[i]
  <1>1. /\ machine' = [machine EXCEPT ![i] = s] /\ machine \in [Inst -> ConnStates]
        /\ StatusType /\ ProjectInv(p) /\ NoInst \notin Inst
    BY NoInstAssumption DEF Enter, TypeOK, StatusType, BrokerType
  <1>2. \A q \in Projects \ {p} : sessions[q] # NoInst => sessions[q] # i
    BY DEF ProjectInv, RecordInv
  <1>3. \A q \in Projects : sessions[q] # NoInst => sessions[q] \in Inst
    BY DEF TypeOK, Providers
  <1>4. \A q \in Projects \ {p} : sessions[q] # NoInst =>
            machine'[sessions[q]] = machine[sessions[q]]
    BY <1>1, <1>2, <1>3
  <1>5. CASE statusOff[p] = i
    <2>1. HandleStatus(p, i, s)
      BY <1>5 DEF Enter
    <2>2. sessions[p] = i /\ lastState[p] = machine[i] /\ watchSubs[p] \in {NoInst, i}
      BY <1>1, <1>5 DEF ProjectInv, RecordInv
    <2>3. /\ StatusType' /\ BrokerFrame(p)
          /\ \A q \in Projects \ {p} :
               lastState'[q] = lastState[q] /\ watchSubs'[q] = watchSubs[q]
          /\ lastState'[p] = s /\ watchSubs'[p] \in {NoInst, i}
          /\ ListenerInv(p)'
      BY <1>1, <2>1, <2>2, HandleStatusLemma DEF ProjectInv
    <2>4. ProjectFrame(p)
      BY <1>4, <2>3 DEF ProjectFrame
    <2>5. ProjectInv(p)'
      BY <1>1, <1>5, <2>2, <2>3 DEF ProjectInv, RecordInv
    <2> QED
      BY <1>1, <2>3, <2>4, <2>5, FrameLemma
  <1>6. CASE statusOff[p] # i
    <2>1. UNCHANGED <<lastState, watchSubs, subscribing, refused, pending, listeners>>
      BY <1>6 DEF Enter, Unreported, watchVars, brokerVars
    <2>2. StatusType' /\ BrokerFrame(p)
      BY <1>1, <2>1 DEF StatusType, BrokerType, BrokerFrame
    <2>3. sessions[p] # i
      BY <1>1, <1>6 DEF ProjectInv, RecordInv
    <2>4. ProjectFrame(p)
      BY <1>4, <2>1, <2>2 DEF ProjectFrame
    <2>5. ProjectInv(p)'
      BY <1>1, <1>3, <2>1, <2>3
         DEF ProjectInv, RecordInv, ListenerInv, RunningStop, Stopping
    <2> QED
      BY <1>1, <2>2, <2>4, <2>5, FrameLemma
  <1> QED
    BY <1>5, <1>6

LEMMA ReportLemma ==
    ASSUME TypeOK, \A q \in Projects : ProjectInv(q),
           NEW i \in Inst, owner[i] \in Projects, NEW s \in ConnStates,
           Report(i, s), UNCHANGED <<sessions, statusOff, owner>>
    PROVE  /\ StatusType'
           /\ machine' = [machine EXCEPT ![i] = Apply(machine[i], s)]
           /\ \A q \in Projects : ProjectInv(q)'
  <1>1. CASE Accepts(machine[i], s)
    <2>1. s = "reconnecting" => machine[i] = "connected"
      BY <1>1 DEF Accepts, Legal
    <2> QED
      BY <1>1, <2>1, EnterLemma DEF Report, Apply
  <1>2. CASE ~Accepts(machine[i], s)
    <2>1. UNCHANGED <<machine, lastState, watchSubs, subscribing, refused,
                      pending, listeners>>
      BY <1>2 DEF Report, Unreported, watchVars, brokerVars
    <2>2. machine' = [machine EXCEPT ![i] = Apply(machine[i], s)]
      BY <1>2, <2>1 DEF Apply, TypeOK
    <2>3. StatusType'
      BY <2>1 DEF StatusType, BrokerType, TypeOK
    <2>4. ASSUME NEW q \in Projects PROVE ProjectInv(q)'
      <3>1. ProjectInv(q)
        OBVIOUS
      <3>2. RecordInv(q)'
        BY <2>1, <3>1 DEF ProjectInv, RecordInv
      <3>3. ListenerInv(q)'
        BY <2>1, <3>1 DEF ProjectInv, ListenerInv, RunningStop, Stopping
      <3> QED
        BY <3>2, <3>3 DEF ProjectInv
    <2> QED
      BY <2>2, <2>3, <2>4
  <1> QED
    BY <1>1, <1>2

LEMMA ApplyType ==
    ASSUME NEW from \in ConnStates, NEW to \in ConnStates
    PROVE  Apply(from, to) \in ConnStates
  BY DEF Apply

\* Eviction, together with whatever befalls the machines of providers that
\* are no longer sessions.
LEMMA EvictLemma ==
    ASSUME TypeOK, \A q \in Projects : ProjectInv(q), NEW p \in Projects, Evict(p),
           UNCHANGED owner,
           \A q \in Projects \ {p} : sessions[q] # NoInst =>
               machine'[sessions[q]] = machine[sessions[q]]
    PROVE  /\ StatusType'
           /\ sessions' = [sessions EXCEPT ![p] = NoInst]
           /\ sessions' \in [Projects -> Providers]
           /\ statusOff' \in [Projects -> Providers]
           /\ \A q \in Projects : ProjectInv(q)'
  <1>1. StopListener(p) /\ RunningStop(p) /\ BrokerType
    BY DEF Evict, ProjectInv, ListenerInv, TypeOK, BrokerType
  <1>2. BrokerType' /\ BrokerFrame(p) /\ RunningStop(p)' /\ Stopping(p)'
    BY <1>1, StopListenerLemma
  <1>3. /\ watchSubs' = [watchSubs EXCEPT ![p] = NoInst]
        /\ lastState' = [lastState EXCEPT ![p] = "none"]
        /\ sessions' = [sessions EXCEPT ![p] = NoInst]
        /\ statusOff' = [statusOff EXCEPT ![p] = NoInst]
        /\ UNCHANGED <<subscribing, refused>>
    BY DEF Evict, StopWatch
  <1>4. /\ StatusType' /\ sessions' \in [Projects -> Providers]
        /\ statusOff' \in [Projects -> Providers]
    BY <1>2, <1>3 DEF StatusType, TypeOK, Providers, SessionStates
  <1>5. ProjectFrame(p)
    BY <1>2, <1>3 DEF ProjectFrame, TypeOK
  <1>6. ProjectInv(p)'
    BY <1>2, <1>3 DEF ProjectInv, RecordInv, ListenerInv, TypeOK
  <1> QED
    BY <1>3, <1>4, <1>5, <1>6, FrameLemma

-----------------------------------------------------------------------------
(* open() and activate().                                                  *)

\* What an activation leaves behind; known is what became of the machines.
ActivationTypes ==
    /\ StatusType'
    /\ sessions' \in [Projects -> Providers] /\ statusOff' \in [Projects -> Providers]
    /\ owner' \in [Inst -> Projects \cup {NoProject}]
    /\ machine' \in [Inst -> ConnStates]
    /\ opening' \in [Inst -> {"idle", "config", "handshake", "provision"}]
    /\ activeId' \in Projects \cup {NoProject}
    /\ persisted' \in Projects \cup {NoProject}

\* Only a fresh provider may enter the maps or start connecting, and a
\* connecting one is remote.
ActivationFrame ==
    /\ \A j \in Inst : owner[j] # NoProject =>
          owner'[j] = owner[j] /\ opening'[j] = opening[j]
    /\ \A j \in Inst : owner'[j] = NoProject => opening'[j] = opening[j]
    /\ \A j \in Inst : owner'[j] \in LocalProjects => opening'[j] = opening[j]
    /\ \A q \in Projects :
          \/ sessions'[q] = sessions[q]
          \/ sessions'[q] \in Inst /\ owner[sessions'[q]] = NoProject
    /\ UNCHANGED subscribing

LEMMA OpenLocalLemma ==
    ASSUME TypeOK, Auxiliary, \A q \in Projects : ProjectInv(q),
           NEW p \in Projects, NEW i \in Inst, sessions[p] = NoInst, OpenLocal(p, i)
    PROVE  /\ ActivationTypes /\ ActivationFrame
           /\ machine' = [machine EXCEPT ![i] = "connected"]
           /\ \A q \in Projects : ProjectInv(q)'
  <1>1. /\ owner[i] = NoProject /\ owner' = [owner EXCEPT ![i] = p]
        /\ sessions'  = [sessions EXCEPT ![p] = i]
        /\ statusOff' = [statusOff EXCEPT ![p] = i]
        /\ machine' = [machine EXCEPT ![i] = "connected"]
        /\ lastState' = [lastState EXCEPT ![p] = "connected"]
        /\ p \in LocalProjects /\ UNCHANGED <<activeId, persisted, opening>>
    BY DEF OpenLocal, Register, selection
  <1>2. watchSubs[p] = NoInst /\ RunningStop(p) /\ BrokerType
    BY DEF ProjectInv, RecordInv, ListenerInv, TypeOK, BrokerType
  <1>3. /\ watchSubs' = [watchSubs EXCEPT ![p] = i] /\ UNCHANGED subscribing
        /\ refused' = [refused EXCEPT ![i] = FALSE]
    BY <1>1, <1>2 DEF OpenLocal, StartWatch
  <1>4. BrokerType' /\ BrokerFrame(p) /\ RunningStop(p)' /\ ~Stopping(p)'
    BY <1>2, StartListenerLemma DEF OpenLocal
  <1>5. i # NoInst
    BY NoInstAssumption
  <1>6. StatusType'
    <2>1. refused' \in [Inst -> BOOLEAN]
      BY <1>3 DEF TypeOK
    <2> QED
      BY <1>1, <1>3, <1>4, <2>1 DEF StatusType, TypeOK, Providers, SessionStates, ConnStates
  <1>7. ActivationTypes
    BY <1>1, <1>6 DEF ActivationTypes, TypeOK, Providers, ConnStates
  <1>8. ActivationFrame
    BY <1>1, <1>3 DEF ActivationFrame, TypeOK
  <1>9. \A q \in Projects \ {p} : sessions[q] # NoInst => sessions[q] \in Inst \ {i}
    BY <1>1, NoProjectAssumption DEF ProjectInv, RecordInv, TypeOK, Providers
  <1>10. ProjectFrame(p)
    BY <1>1, <1>3, <1>4, <1>9 DEF ProjectFrame, TypeOK
  <1>11. ProjectInv(p)'
    BY <1>1, <1>3, <1>4, <1>5 DEF ProjectInv, RecordInv, ListenerInv, TypeOK
  <1> QED
    BY <1>1, <1>7, <1>8, <1>10, <1>11, FrameLemma

LEMMA OpenRemoteLemma ==
    ASSUME TypeOK, Auxiliary, \A q \in Projects : ProjectInv(q),
           NEW p \in Projects, NEW i \in Inst, NEW known \in [Inst -> ConnStates],
           \A q \in Projects \ {p} : sessions[q] # NoInst =>
               known[sessions[q]] = machine[sessions[q]],
           OpenRemote(p, i, known)
    PROVE  /\ ActivationTypes /\ ActivationFrame
           /\ machine' = [known EXCEPT ![i] = "connecting"]
           /\ sessions'[p] = i /\ owner[i] = NoProject
           /\ owner' = [owner EXCEPT ![i] = p] /\ p \notin LocalProjects
           /\ \A q \in Projects : ProjectInv(q)'
  <1>1. /\ owner[i] = NoProject /\ owner' = [owner EXCEPT ![i] = p]
        /\ sessions'  = [sessions EXCEPT ![p] = i]
        /\ statusOff' = [statusOff EXCEPT ![p] = i]
        /\ machine' = [known EXCEPT ![i] = "connecting"]
        /\ lastState' = [lastState EXCEPT ![p] = "connecting"]
        /\ opening' = [opening EXCEPT ![i] = "config"]
        /\ watchSubs' = [watchSubs EXCEPT ![p] = NoInst]
        /\ UNCHANGED <<subscribing, refused>>
        /\ p \notin LocalProjects /\ UNCHANGED <<activeId, persisted>>
    BY DEF OpenRemote, Register, selection, RemoteProjects, StopWatch
  <1>2. RunningStop(p) /\ BrokerType
    BY DEF ProjectInv, ListenerInv, TypeOK, BrokerType
  <1>3. BrokerType' /\ BrokerFrame(p) /\ RunningStop(p)' /\ Stopping(p)'
    BY <1>2, StopListenerLemma DEF OpenRemote
  <1>4. i # NoInst
    BY NoInstAssumption
  <1>5. StatusType'
    BY <1>1, <1>3 DEF StatusType, TypeOK, Providers, SessionStates, ConnStates
  <1>6. ActivationTypes
    BY <1>1, <1>5 DEF ActivationTypes, TypeOK, Providers, ConnStates
  <1>7. ActivationFrame
    BY <1>1, NoProjectAssumption DEF ActivationFrame, TypeOK
  <1>8. \A q \in Projects \ {p} : sessions[q] # NoInst => sessions[q] \in Inst \ {i}
    BY <1>1, NoProjectAssumption DEF ProjectInv, RecordInv, TypeOK, Providers
  <1>9. ProjectFrame(p)
    BY <1>1, <1>3, <1>8 DEF ProjectFrame, TypeOK
  <1>10. ProjectInv(p)'
    BY <1>1, <1>3, <1>4 DEF ProjectInv, RecordInv, ListenerInv, TypeOK
  <1> QED
    BY <1>1, <1>6, <1>7, <1>9, <1>10, FrameLemma DEF TypeOK

LEMMA ReselectLemma ==
    ASSUME TypeOK, \A q \in Projects : ProjectInv(q),
           NEW p \in Projects, NEW known \in [Inst -> ConnStates],
           \A q \in Projects : sessions[q] # NoInst =>
               known[sessions[q]] = machine[sessions[q]],
           Reselect(p, known)
    PROVE  /\ ActivationTypes /\ ActivationFrame /\ machine' = known
           /\ \A q \in Projects : ProjectInv(q)'
  <1>1. /\ UNCHANGED <<sessions, statusOff, lastState, watchSubs, subscribing,
                       refused, listeners, owner, opening>>
        /\ machine' = known
    BY DEF Reselect, sessionVars, watchVars
  <1>2. RunningStop(p) /\ BrokerType
    BY DEF ProjectInv, ListenerInv, TypeOK, BrokerType
  <1>3. BrokerType' /\ BrokerFrame(p) /\ RunningStop(p)' /\ (Stopping(p)' <=> Stopping(p))
    <2>1. CASE CallbackStart(p) = 0
      <3>1. UNCHANGED <<pending, listeners>>
        BY <1>1, <2>1 DEF Reselect
      <3> QED
        BY <1>2, <3>1 DEF BrokerType, BrokerFrame, RunningStop, Stopping
    <2>2. CASE CallbackStart(p) # 0
      <3>1. pending' = [pending EXCEPT ![p][CallbackStart(p)] = "awaited"]
        BY <2>2 DEF Reselect
      <3> QED
        BY <1>1, <1>2, <2>2, <3>1, AwaitLemma
    <2> QED
      BY <2>1, <2>2
  <1>4. ActivationTypes
    <2>1. activeId' \in Projects \cup {NoProject} /\ persisted' \in Projects \cup {NoProject}
      BY DEF Reselect, selection, TypeOK
    <2>2. StatusType'
      BY <1>1, <1>3 DEF StatusType, TypeOK
    <2> QED
      BY <1>1, <2>1, <2>2 DEF ActivationTypes, TypeOK
  <1>5. ActivationFrame
    BY <1>1 DEF ActivationFrame
  <1>6. ProjectFrame(p)
    BY <1>1, <1>3 DEF ProjectFrame
  <1>7. ProjectInv(p)'
    BY <1>1, <1>3 DEF ProjectInv, RecordInv, ListenerInv
  <1> QED
    BY <1>1, <1>4, <1>5, <1>6, <1>7, FrameLemma

\* What the invariant of a new process rests on is kept by an activation as
\* long as the caller only ends disconnects.
LEMMA ActivateLemma ==
    ASSUME TypeOK, Auxiliary, \A q \in Projects : ProjectInv(q),
           NEW p \in Projects, NEW known \in [Inst -> ConnStates],
           \A q \in Projects : sessions[q] # NoInst =>
               known[sessions[q]] = machine[sessions[q]],
           \A j \in Inst : IsLocal(j) => known[j] = machine[j],
           sessions[p] = NoInst /\ p \in LocalProjects => known = machine,
           ActivateWith(p, known)
    PROVE  /\ ActivationTypes /\ ActivationFrame
           /\ \A j \in Inst : owner'[j] \in LocalProjects => machine'[j] # "disconnected"
           /\ \A q \in Projects : ProjectInv(q)'
  <1>1. CASE Reselect(p, known)
    <2>1. /\ ActivationTypes /\ ActivationFrame /\ machine' = known
          /\ \A q \in Projects : ProjectInv(q)'
      BY <1>1, ReselectLemma
    <2>2. owner' = owner
      BY <1>1 DEF Reselect
    <2> QED
      BY <2>1, <2>2 DEF Auxiliary, LocalNeverDisconnected, IsLocal
  <1>2. ASSUME NEW i \in Inst, sessions[p] = NoInst, OpenLocal(p, i)
        PROVE  /\ ActivationTypes /\ ActivationFrame
               /\ \A j \in Inst : owner'[j] \in LocalProjects => machine'[j] # "disconnected"
               /\ \A q \in Projects : ProjectInv(q)'
    <2>1. /\ ActivationTypes /\ ActivationFrame
          /\ machine' = [machine EXCEPT ![i] = "connected"]
          /\ \A q \in Projects : ProjectInv(q)'
      BY <1>2, OpenLocalLemma
    <2>2. owner' = [owner EXCEPT ![i] = p]
      BY <1>2 DEF OpenLocal, Register
    <2> QED
      BY <2>1, <2>2 DEF Auxiliary, LocalNeverDisconnected, IsLocal, TypeOK
  <1>3. ASSUME NEW i \in Inst, OpenRemote(p, i, known)
        PROVE  /\ ActivationTypes /\ ActivationFrame
               /\ \A j \in Inst : owner'[j] \in LocalProjects => machine'[j] # "disconnected"
               /\ \A q \in Projects : ProjectInv(q)'
    <2>1. /\ ActivationTypes /\ ActivationFrame
          /\ machine' = [known EXCEPT ![i] = "connecting"]
          /\ owner' = [owner EXCEPT ![i] = p]
          /\ \A q \in Projects : ProjectInv(q)'
      BY <1>3, OpenRemoteLemma
    <2> QED
      BY <2>1 DEF Auxiliary, LocalNeverDisconnected, IsLocal, TypeOK
  <1> QED
    BY <1>1, <1>2, <1>3 DEF ActivateWith

LEMMA AuxiliaryLemma ==
    ASSUME TypeOK, Auxiliary, ActivationFrame,
           \A j \in Inst : (rebuild'[j] => rebuild[j]) /\ (conn'[j] => conn[j]),
           \A j \in Inst : owner[j] = NoProject => closing'[j] = closing[j],
           \A j \in Inst : owner'[j] \in LocalProjects => machine'[j] # "disconnected"
    PROVE  Auxiliary'
  <1>1. FreshIsIdle'
    BY DEF Auxiliary, FreshIsIdle, ActivationFrame, TypeOK
  <1>2. RebuildsEvicted'
    <2> SUFFICES ASSUME NEW j \in Inst, rebuild'[j]
                 PROVE  owner'[j] \in RemoteProjects /\ sessions'[owner'[j]] # j
      BY DEF RebuildsEvicted
    <2>1. owner[j] \in RemoteProjects /\ sessions[owner[j]] # j
      BY DEF Auxiliary, RebuildsEvicted
    <2>2. owner[j] \in Projects /\ owner[j] # NoProject
      BY <2>1, NoProjectAssumption DEF RemoteProjects
    <2>3. owner'[j] = owner[j]
      BY <2>2 DEF ActivationFrame
    <2>4. \/ sessions'[owner[j]] = sessions[owner[j]]
          \/ owner[sessions'[owner[j]]] = NoProject
      BY <2>2 DEF ActivationFrame
    <2> QED
      BY <2>1, <2>2, <2>3, <2>4
  <1>3. LocalIsIdle'
    <2> SUFFICES ASSUME NEW j \in Inst, owner'[j] \in LocalProjects
                 PROVE  opening'[j] = "idle" /\ ~conn'[j]
      BY DEF LocalIsIdle, IsLocal
    <2>1. opening'[j] = opening[j]
      BY DEF ActivationFrame
    <2>2. opening[j] = "idle" /\ ~conn[j]
      BY DEF Auxiliary, FreshIsIdle, LocalIsIdle, IsLocal, ActivationFrame
    <2> QED
      BY <2>1, <2>2
  <1>4. LocalNeverDisconnected'
    BY DEF LocalNeverDisconnected, IsLocal
  <1> QED
    BY <1>1, <1>2, <1>3, <1>4 DEF Auxiliary

-----------------------------------------------------------------------------
(* Each action keeps the inductive invariant.                              *)

LEMMA InitInv == Init => IInv
  <1> SUFFICES ASSUME Init PROVE IInv
    OBVIOUS
  <1>1. TypeOK
    BY DEF Init, TypeOK, Providers, SessionStates, ConnStates, BrokerOps
  <1>2. FreshIsIdle /\ RebuildsEvicted /\ LocalIsIdle /\ LocalNeverDisconnected
    BY LocalAssumption, NoProjectAssumption
       DEF Init, FreshIsIdle, RebuildsEvicted, LocalIsIdle, LocalNeverDisconnected, IsLocal
  <1>3. RecordsAgree
    BY DEF Init, RecordsAgree
  <1>4. RunningStopHoldsNone /\ ListenerOwned /\ ListenerServes
    BY LocalAssumption DEF Init, RunningStopHoldsNone, ListenerOwned, ListenerServes, Stopping
  <1> QED
    BY <1>1, <1>2, <1>3, <1>4 DEF IInv

LEMMA ActivateStep ==
    ASSUME IInv, NEW p \in Projects, Activate(p) PROVE IInv'
  <1>1. TypeOK /\ Auxiliary /\ \A q \in Projects : ProjectInv(q)
    BY Regroup
  <1>2. ActivateWith(p, machine) /\ UNCHANGED <<conn, closing, rebuild, orphans>>
    BY DEF Activate
  <1>3. /\ ActivationTypes /\ ActivationFrame
        /\ \A j \in Inst : owner'[j] \in LocalProjects => machine'[j] # "disconnected"
        /\ \A q \in Projects : ProjectInv(q)'
    <2>1. machine \in [Inst -> ConnStates]
      BY <1>1 DEF TypeOK
    <2> QED
      BY <1>1, <1>2, <2>1, ActivateLemma
  <1>4. TypeOK'
    BY <1>1, <1>2, <1>3 DEF ActivationTypes, StatusType, BrokerType, TypeOK
  <1>5. Auxiliary'
    BY <1>1, <1>2, <1>3, AuxiliaryLemma
  <1> QED
    BY <1>3, <1>4, <1>5, Regroup

\* What a step of one created provider has to show of the auxiliary parts.
ProviderFrame(i) ==
    /\ UNCHANGED owner
    /\ \A j \in Inst \ {i} :
          /\ opening'[j] = opening[j] /\ conn'[j] = conn[j]
          /\ closing'[j] = closing[j] /\ machine'[j] = machine[j]
          /\ subscribing'[j] = subscribing[j] /\ rebuild'[j] = rebuild[j]
    /\ \A q \in Projects : sessions'[q] \in {sessions[q], NoInst}
    /\ rebuild'[i] =>
          rebuild[i] \/ (owner[i] \in RemoteProjects /\ sessions'[owner[i]] # i)
    /\ IsLocal(i) => opening'[i] = "idle" /\ ~conn'[i] /\ machine'[i] # "disconnected"

LEMMA ProviderLemma ==
    ASSUME Auxiliary, NEW i \in Inst, owner[i] \in Projects, ProviderFrame(i)
    PROVE  Auxiliary'
  <1> USE NoProjectAssumption, NoInstAssumption
  <1>1. FreshIsIdle'
    BY DEF Auxiliary, FreshIsIdle, ProviderFrame
  <1>2. RebuildsEvicted'
    <2> SUFFICES ASSUME NEW j \in Inst, rebuild'[j]
                 PROVE  owner[j] \in RemoteProjects /\ sessions'[owner[j]] # j
      BY DEF RebuildsEvicted, ProviderFrame
    <2>1. CASE rebuild[j]
      <3>1. owner[j] \in RemoteProjects /\ sessions[owner[j]] # j
        BY <2>1 DEF Auxiliary, RebuildsEvicted
      <3>2. sessions'[owner[j]] \in {sessions[owner[j]], NoInst}
        BY <3>1 DEF ProviderFrame, RemoteProjects
      <3> QED
        BY <3>1, <3>2
    <2>2. CASE ~rebuild[j]
      BY <2>2 DEF ProviderFrame
    <2> QED
      BY <2>1, <2>2
  <1>3. LocalIsIdle' /\ LocalNeverDisconnected'
    BY DEF Auxiliary, LocalIsIdle, LocalNeverDisconnected, IsLocal, ProviderFrame
  <1> QED
    BY <1>1, <1>2, <1>3 DEF Auxiliary

\* A report starts no subscription of another provider.
LEMMA SubscribingLemma ==
    ASSUME TypeOK, NEW i \in Inst, NEW s \in ConnStates, Enter(i, s) \/ Report(i, s)
    PROVE  \A j \in Inst \ {i} : subscribing'[j] = subscribing[j]
  BY DEF Enter, Report, HandleStatus, Unreported, StartWatch, StopWatch, watchVars, TypeOK

LEMMA BrokerStepStep ==
    ASSUME IInv, NEW p \in Projects, NEW bound \in BOOLEAN, BrokerStep(p, bound)
    PROVE  IInv'
  <1>1. TypeOK /\ Auxiliary /\ \A q \in Projects : ProjectInv(q)
    BY Regroup
  <1>2. /\ UNCHANGED <<sessions, statusOff, lastState, watchSubs, subscribing, refused,
                       owner, machine, opening, conn, closing, rebuild, orphans>>
        /\ activeId' \in Projects \cup {NoProject}
        /\ persisted' \in Projects \cup {NoProject}
    BY <1>1 DEF BrokerStep, sessionVars, watchVars, providerVars, selection, TypeOK
  <1>3. BrokerType' /\ BrokerFrame(p) /\ RunningStop(p)' /\ (Stopping(p)' <=> Stopping(p))
    BY <1>1, BrokerStepLemma DEF ProjectInv, ListenerInv, TypeOK, BrokerType
  <1>4. \A q \in Projects : ProjectInv(q)'
    <2>1. ProjectFrame(p)
      BY <1>2, <1>3 DEF ProjectFrame
    <2>2. ProjectInv(p)'
      BY <1>1, <1>2, <1>3 DEF ProjectInv, RecordInv, ListenerInv
    <2> QED
      BY <1>1, <2>1, <2>2, FrameLemma
  <1>5. TypeOK'
    BY <1>1, <1>2, <1>3 DEF TypeOK, BrokerType
  <1>6. Auxiliary'
    BY <1>1, <1>2 DEF Auxiliary, FreshIsIdle, RebuildsEvicted, LocalIsIdle,
                      LocalNeverDisconnected, IsLocal
  <1> QED
    BY <1>4, <1>5, <1>6, Regroup

LEMMA ConfigReadStep ==
    ASSUME IInv, NEW i \in Inst, ConfigRead(i) PROVE IInv'
  <1>1. TypeOK /\ Auxiliary /\ \A q \in Projects : ProjectInv(q)
    BY Regroup
  <1>2. owner[i] \in Projects /\ ~IsLocal(i)
    BY <1>1 DEF ConfigRead, Auxiliary, FreshIsIdle, LocalIsIdle, TypeOK
  <1>3. /\ UNCHANGED <<sessions, statusOff, lastState, watchSubs, subscribing, refused,
                       activeId, persisted, pending, listeners,
                       owner, machine, closing, rebuild, orphans>>
        /\ opening' = [opening EXCEPT ![i] = "handshake"]
        /\ conn' = [conn EXCEPT ![i] = TRUE]
    BY DEF ConfigRead, sessionVars, watchVars, selection, brokerVars
  <1>4. TypeOK'
    BY <1>1, <1>3 DEF TypeOK
  <1>5. Auxiliary'
    BY <1>1, <1>2, <1>3, ProviderLemma DEF ProviderFrame, TypeOK
  <1>6. ASSUME NEW q \in Projects PROVE ProjectInv(q)'
    BY <1>1, <1>3 DEF ProjectInv, RecordInv, ListenerInv, RunningStop, Stopping
  <1> QED
    BY <1>4, <1>5, <1>6, Regroup

\* The steps that report s and touch no other map: their common part.
LEMMA ReportStep ==
    ASSUME IInv, NEW i \in Inst, owner[i] \in Projects, NEW s \in ConnStates,
           \/ Report(i, s)
           \/ Enter(i, s) /\ (s = "reconnecting" => machine[i] = "connected"),
           UNCHANGED <<sessions, statusOff, owner, rebuild>>,
           IsLocal(i) => s # "disconnected" /\ opening'[i] = "idle" /\ ~conn'[i],
           activeId' \in Projects \cup {NoProject},
           persisted' \in Projects \cup {NoProject},
           orphans' \in [Inst -> Nat],
           opening' \in [Inst -> {"idle", "config", "handshake", "provision"}],
           conn' \in [Inst -> BOOLEAN], closing' \in [Inst -> {"no", "running", "done"}],
           \A j \in Inst \ {i} : /\ opening'[j] = opening[j] /\ conn'[j] = conn[j]
                                 /\ closing'[j] = closing[j]
    PROVE  IInv'
  <1>1. TypeOK /\ Auxiliary /\ \A q \in Projects : ProjectInv(q)
    BY Regroup
  <1>2. /\ StatusType' /\ \A q \in Projects : ProjectInv(q)'
        /\ \/ machine' = [machine EXCEPT ![i] = s]
           \/ machine' = [machine EXCEPT ![i] = Apply(machine[i], s)]
    BY <1>1, EnterLemma, ReportLemma
  <1>3. machine[i] \in ConnStates /\ Apply(machine[i], s) \in ConnStates
    BY <1>1, ApplyType DEF TypeOK
  <1>4. TypeOK'
    <2>1. machine \in [Inst -> ConnStates]
      BY <1>1 DEF TypeOK
    <2>2. machine' \in [Inst -> ConnStates]
      BY <1>2, <1>3, <2>1
    <2>3. /\ sessions' \in [Projects -> Providers] /\ statusOff' \in [Projects -> Providers]
          /\ owner' \in [Inst -> Projects \cup {NoProject}] /\ rebuild' \in [Inst -> BOOLEAN]
      BY <1>1 DEF TypeOK
    <2> QED
      BY <1>2, <2>2, <2>3 DEF TypeOK, StatusType, BrokerType
  <1>5. IsLocal(i) => machine'[i] # "disconnected"
    BY <1>1, <1>2 DEF Auxiliary, LocalNeverDisconnected, Apply, TypeOK
  <1>6. \A j \in Inst \ {i} : machine'[j] = machine[j] /\ subscribing'[j] = subscribing[j]
    BY <1>1, <1>2, SubscribingLemma DEF TypeOK
  <1>7. Auxiliary'
    BY <1>1, <1>5, <1>6, ProviderLemma DEF ProviderFrame
  <1> QED
    BY <1>2, <1>4, <1>7, Regroup

LEMMA SocketUpStep ==
    ASSUME IInv, NEW i \in Inst, SocketUp(i) PROVE IInv'
  <1>1. TypeOK /\ owner[i] \in Projects /\ ~IsLocal(i)
    BY DEF IInv, SocketUp, FreshIsIdle, LocalIsIdle, TypeOK
  <1>2. Report(i, "connecting") /\ "connecting" \in ConnStates
    BY DEF SocketUp, ConnStates
  <1>3. /\ UNCHANGED <<sessions, statusOff, owner, rebuild, activeId, persisted, orphans,
                       conn, closing>>
        /\ opening' = [opening EXCEPT ![i] = "provision"]
    BY DEF SocketUp, selection
  <1> QED
    BY <1>1, <1>2, <1>3, ReportStep DEF TypeOK

LEMMA ConnectOkStep ==
    ASSUME IInv, NEW i \in Inst, ConnectOk(i) PROVE IInv'
  <1>1. TypeOK /\ owner[i] \in Projects /\ ~IsLocal(i)
    BY DEF IInv, ConnectOk, FreshIsIdle, LocalIsIdle, TypeOK
  <1>2. Report(i, "connected") /\ "connected" \in ConnStates
    BY DEF ConnectOk, ConnStates
  <1>3. /\ UNCHANGED <<sessions, statusOff, owner, rebuild, orphans, conn>>
        /\ activeId' = owner[i] /\ persisted' = owner[i]
        /\ opening' = [opening EXCEPT ![i] = "idle"]
        /\ closing' = [closing EXCEPT
              ![i] = IF @ = "done" /\ Accepts(machine[i], "connected") THEN "no" ELSE @]
    BY DEF ConnectOk
  <1>4. /\ closing' \in [Inst -> {"no", "running", "done"}]
        /\ \A j \in Inst \ {i} : closing'[j] = closing[j] /\ opening'[j] = opening[j]
        /\ opening' \in [Inst -> {"idle", "config", "handshake", "provision"}]
    BY <1>1, <1>3 DEF TypeOK
  <1> QED
    BY <1>1, <1>2, <1>3, <1>4, ReportStep DEF TypeOK

LEMMA DropStep ==
    ASSUME IInv, NEW i \in Inst, Drop(i) PROVE IInv'
  <1>1. TypeOK /\ owner[i] \in Projects /\ ~IsLocal(i)
    BY DEF IInv, Drop, FreshIsIdle, LocalIsIdle, TypeOK
  <1>2. Report(i, "disconnected") /\ "disconnected" \in ConnStates
    BY DEF Drop, ConnStates
  <1>3. /\ UNCHANGED <<sessions, statusOff, owner, rebuild, activeId, persisted,
                       opening, closing>>
        /\ conn' = [conn EXCEPT ![i] = FALSE]
        /\ orphans' = [orphans EXCEPT ![i] = 0]
    BY DEF Drop, selection
  <1>4. /\ conn' \in [Inst -> BOOLEAN] /\ orphans' \in [Inst -> Nat]
        /\ \A j \in Inst \ {i} : conn'[j] = conn[j]
    BY <1>1, <1>3 DEF TypeOK
  <1> QED
    BY <1>1, <1>2, <1>3, <1>4, ReportStep DEF TypeOK

LEMMA FlapStep ==
    ASSUME IInv, NEW i \in Inst, FlapDown(i) \/ FlapUp(i) \/ FlapLost(i) PROVE IInv'
  <1>1. TypeOK /\ owner[i] \in Projects
    BY DEF IInv, FlapDown, FlapUp, FlapLost, TypeOK
  <1>2. UNCHANGED <<sessions, statusOff, owner, rebuild, activeId, persisted, opening,
                    conn, closing, orphans>>
    BY DEF FlapDown, FlapUp, FlapLost, ChannelUnchanged, selection
  <1>3. IsLocal(i) => opening[i] = "idle" /\ ~conn[i]
    BY DEF IInv, LocalIsIdle
  <1>4. {"connected", "reconnecting", "failed"} \subseteq ConnStates
    BY DEF ConnStates
  <1>5. CASE FlapDown(i)
    <2>1. Report(i, "reconnecting")
      BY <1>5 DEF FlapDown
    <2> QED
      BY <1>1, <1>2, <1>3, <1>4, <2>1, ReportStep DEF TypeOK
  <1>6. CASE FlapUp(i)
    <2>1. Enter(i, "connected")
      BY <1>6 DEF FlapUp
    <2> QED
      BY <1>1, <1>2, <1>3, <1>4, <2>1, ReportStep DEF TypeOK
  <1>7. CASE FlapLost(i)
    <2>1. Report(i, "failed")
      BY <1>7 DEF FlapLost
    <2> QED
      BY <1>1, <1>2, <1>3, <1>4, <2>1, ReportStep DEF TypeOK
  <1> QED
    BY <1>5, <1>6, <1>7

\* A subscription that installs belongs to the session.
LEMMA WatchReplyStep ==
    ASSUME IInv, NEW i \in Inst, WatchReply(i) PROVE IInv'
  <1>1. TypeOK /\ Auxiliary /\ \A q \in Projects : ProjectInv(q)
    BY Regroup
  <1> DEFINE p == owner[i]
  <1>2. p \in Projects
    BY <1>1 DEF WatchReply, Auxiliary, FreshIsIdle, TypeOK
  <1>3. /\ UNCHANGED <<sessions, statusOff, lastState, refused, activeId, persisted,
                       pending, listeners, owner, machine, opening, conn, closing, rebuild>>
        /\ subscribing' = [subscribing EXCEPT ![i] = @ - 1] /\ subscribing[i] > 0
    BY DEF WatchReply, sessionVars, selection, brokerVars
  <1>4. subscribing' \in [Inst -> Nat]
    BY <1>1, <1>3 DEF TypeOK
  <1>5. /\ watchSubs' \in [Projects -> Providers] /\ orphans' \in [Inst -> Nat]
        /\ \A q \in Projects : watchSubs'[q] \in {NoInst, sessions[q]}
    <2>1. CASE sessions[p] = i
      <3>1. /\ watchSubs' = [watchSubs EXCEPT ![p] = i]
            /\ orphans' = [orphans EXCEPT ![i] = IF watchSubs[p] = i THEN @ + 1 ELSE @]
        BY <2>1 DEF WatchReply
      <3>2. orphans' \in [Inst -> Nat]
        BY <1>1, <3>1 DEF TypeOK
      <3> QED
        BY <1>1, <1>2, <2>1, <3>1, <3>2 DEF TypeOK, Providers, ProjectInv, RecordInv
    <2>2. CASE sessions[p] # i
      <3>1. UNCHANGED <<watchSubs, orphans>>
        BY <2>2 DEF WatchReply
      <3> QED
        BY <1>1, <3>1 DEF TypeOK, ProjectInv, RecordInv
    <2> QED
      BY <2>1, <2>2
  <1>6. TypeOK'
    BY <1>1, <1>3, <1>4, <1>5 DEF TypeOK
  <1>7. Auxiliary'
    <2>1. ProviderFrame(i)
      BY <1>1, <1>3 DEF ProviderFrame, TypeOK, Auxiliary, LocalIsIdle, LocalNeverDisconnected
    <2> QED
      BY <1>1, <1>2, <2>1, ProviderLemma
  <1>8. ASSUME NEW q \in Projects PROVE ProjectInv(q)'
    BY <1>1, <1>3, <1>5 DEF ProjectInv, RecordInv, ListenerInv, RunningStop, Stopping
  <1> QED
    BY <1>6, <1>7, <1>8, Regroup

LEMMA WatchFailStep ==
    ASSUME IInv, NEW i \in Inst, WatchFail(i) PROVE IInv'
  <1>1. TypeOK /\ Auxiliary /\ \A q \in Projects : ProjectInv(q)
    BY Regroup
  <1>2. owner[i] \in Projects
    BY <1>1 DEF WatchFail, Auxiliary, FreshIsIdle, TypeOK
  <1>3. /\ UNCHANGED <<sessions, statusOff, lastState, watchSubs, activeId, persisted,
                       pending, listeners, owner, machine, opening, conn, closing,
                       rebuild, orphans>>
        /\ subscribing' = [subscribing EXCEPT ![i] = @ - 1] /\ subscribing[i] > 0
        /\ refused' = [refused EXCEPT ![i] = TRUE]
    BY DEF WatchFail, sessionVars, selection, brokerVars, providerVars
  <1>4. subscribing' \in [Inst -> Nat]
    BY <1>1, <1>3 DEF TypeOK
  <1>5. refused' \in [Inst -> BOOLEAN]
    BY <1>1, <1>3 DEF TypeOK
  <1>6. TypeOK'
    BY <1>1, <1>3, <1>4, <1>5 DEF TypeOK
  <1>7. Auxiliary'
    <2>1. ProviderFrame(i)
      BY <1>1, <1>3 DEF ProviderFrame, TypeOK, Auxiliary, LocalIsIdle, LocalNeverDisconnected
    <2> QED
      BY <1>1, <1>2, <2>1, ProviderLemma
  <1>8. ASSUME NEW q \in Projects PROVE ProjectInv(q)'
    BY <1>1, <1>3 DEF ProjectInv, RecordInv, ListenerInv, RunningStop, Stopping
  <1> QED
    BY <1>6, <1>7, <1>8, Regroup

LEMMA RestartStep ==
    ASSUME IInv, Restart PROVE IInv'
  <1>1. TypeOK'
    BY DEF IInv, Restart, TypeOK, Providers, SessionStates, ConnStates, BrokerOps
  <1>2. FreshIsIdle' /\ RebuildsEvicted' /\ LocalIsIdle' /\ LocalNeverDisconnected'
    BY LocalAssumption, NoProjectAssumption
       DEF Restart, FreshIsIdle, RebuildsEvicted, LocalIsIdle, LocalNeverDisconnected, IsLocal
  <1>3. RecordsAgree'
    BY DEF Restart, RecordsAgree
  <1>4. RunningStopHoldsNone' /\ ListenerOwned' /\ ListenerServes'
    BY LocalAssumption DEF Restart, RunningStopHoldsNone, ListenerOwned, ListenerServes, Stopping
  <1> QED
    BY <1>1, <1>2, <1>3, <1>4 DEF IInv

-----------------------------------------------------------------------------
(* Endings.                                                                *)

\* What disconnect() changes of the provider it is called on.
EndingFrame(i) ==
    /\ conn' \in [Inst -> BOOLEAN] /\ orphans' \in [Inst -> Nat]
    /\ closing' \in [Inst -> {"no", "running", "done"}]
    /\ \A j \in Inst \ {i} : conn'[j] = conn[j] /\ closing'[j] = closing[j]
    /\ \A j \in Inst : conn'[j] => conn[j]

LEMMA BeginDisconnectLemma ==
    ASSUME TypeOK, NEW i \in Inst, BeginDisconnect(i)
    PROVE  EndingFrame(i) /\ ~conn'[i]
  <1>1. conn' \in [Inst -> BOOLEAN] /\ ~conn'[i] /\ \A j \in Inst \ {i} : conn'[j] = conn[j]
    BY DEF BeginDisconnect, TypeOK
  <1>2. orphans' \in [Inst -> Nat]
    BY DEF BeginDisconnect, TypeOK
  <1>3. /\ closing' \in [Inst -> {"no", "running", "done"}]
        /\ \A j \in Inst \ {i} : closing'[j] = closing[j]
    BY DEF BeginDisconnect, TypeOK
  <1> QED
    BY <1>1, <1>2, <1>3 DEF EndingFrame

\* The steps that evict the project of i: their common part.
LEMMA EvictStep ==
    ASSUME IInv, NEW i \in Inst, owner[i] \in Projects, Evict(owner[i]),
           UNCHANGED owner, NEW m \in ConnStates, machine' = [machine EXCEPT ![i] = m],
           IsLocal(i) => m # "disconnected" /\ opening'[i] = "idle" /\ ~conn'[i],
           EndingFrame(i),
           opening' \in [Inst -> {"idle", "config", "handshake", "provision"}],
           rebuild' \in [Inst -> BOOLEAN],
           \A j \in Inst \ {i} : opening'[j] = opening[j] /\ rebuild'[j] = rebuild[j],
           rebuild'[i] => rebuild[i] \/ owner[i] \in RemoteProjects,
           activeId' \in Projects \cup {NoProject},
           persisted' \in Projects \cup {NoProject}
    PROVE  IInv'
  <1> DEFINE p == owner[i]
  <1>1. TypeOK /\ Auxiliary /\ \A q \in Projects : ProjectInv(q)
    BY Regroup
  <1>2. \A q \in Projects \ {p} : sessions[q] # NoInst => sessions[q] \in Inst \ {i}
    BY <1>1 DEF ProjectInv, RecordInv, TypeOK, Providers
  <1>3. \A q \in Projects \ {p} : sessions[q] # NoInst =>
            machine'[sessions[q]] = machine[sessions[q]]
    BY <1>1, <1>2 DEF TypeOK
  <1>4. /\ StatusType' /\ sessions' = [sessions EXCEPT ![p] = NoInst]
        /\ sessions' \in [Projects -> Providers]
        /\ statusOff' \in [Projects -> Providers]
        /\ \A q \in Projects : ProjectInv(q)'
    BY <1>1, <1>3, EvictLemma
  <1>5. machine' \in [Inst -> ConnStates]
    BY <1>1 DEF TypeOK
  <1>6. TypeOK'
    BY <1>1, <1>4, <1>5 DEF TypeOK, StatusType, BrokerType, EndingFrame
  <1>7. ProviderFrame(i)
    <2>1. \A q \in Projects : sessions'[q] \in {sessions[q], NoInst}
      BY <1>1, <1>4 DEF TypeOK
    <2>2. sessions'[p] # i
      BY <1>1, <1>4, NoInstAssumption DEF TypeOK
    <2>3. UNCHANGED subscribing
      BY DEF Evict, StopWatch
    <2>4. \A j \in Inst \ {i} : machine'[j] = machine[j]
      BY <1>1 DEF TypeOK
    <2>5. machine'[i] = m
      BY <1>1 DEF TypeOK
    <2> QED
      BY <2>1, <2>2, <2>3, <2>4, <2>5 DEF ProviderFrame, EndingFrame
  <1>8. Auxiliary'
    BY <1>1, <1>7, ProviderLemma
  <1> QED
    BY <1>4, <1>6, <1>8, Regroup

LEMMA ConnectFailStep ==
    ASSUME IInv, NEW i \in Inst, ConnectFail(i) PROVE IInv'
  <1>1. TypeOK /\ owner[i] \in Projects /\ ~IsLocal(i)
    BY DEF IInv, ConnectFail, FreshIsIdle, LocalIsIdle, TypeOK
  <1>2. /\ opening' = [opening EXCEPT ![i] = "idle"]
        /\ machine' = [machine EXCEPT ![i] = Apply(machine[i], "failed")]
        /\ conn' = [conn EXCEPT ![i] = FALSE]
        /\ orphans' = [orphans EXCEPT ![i] = 0]
        /\ closing' = [closing EXCEPT
              ![i] = IF @ = "running" \/ (opening[i] = "provision" /\ conn[i])
                     THEN "running" ELSE "done"]
        /\ Evict(owner[i])
        /\ UNCHANGED <<activeId, persisted, owner, rebuild>>
    BY <1>1 DEF ConnectFail, selection, TypeOK
  <1>3. EndingFrame(i)
    <2>1. /\ conn' \in [Inst -> BOOLEAN] /\ \A j \in Inst \ {i} : conn'[j] = conn[j]
          /\ \A j \in Inst : conn'[j] => conn[j]
      BY <1>1, <1>2 DEF TypeOK
    <2>2. orphans' \in [Inst -> Nat]
      BY <1>1, <1>2 DEF TypeOK
    <2>3. /\ closing' \in [Inst -> {"no", "running", "done"}]
          /\ \A j \in Inst \ {i} : closing'[j] = closing[j]
      BY <1>1, <1>2 DEF TypeOK
    <2> QED
      BY <2>1, <2>2, <2>3 DEF EndingFrame
  <1>4. Apply(machine[i], "failed") \in ConnStates
    <2>1. machine[i] \in ConnStates /\ "failed" \in ConnStates
      BY <1>1 DEF TypeOK, ConnStates
    <2> QED
      BY <2>1, ApplyType
  <1>5. /\ opening' \in [Inst -> {"idle", "config", "handshake", "provision"}]
        /\ \A j \in Inst \ {i} : opening'[j] = opening[j]
    BY <1>1, <1>2 DEF TypeOK
  <1> QED
    BY <1>1, <1>2, <1>3, <1>4, <1>5, EvictStep DEF TypeOK

\* The session of a project is a provider of that project.
LEMMA SessionLemma ==
    ASSUME IInv, NEW p \in Projects, sessions[p] # NoInst
    PROVE  sessions[p] \in Inst /\ owner[sessions[p]] = p
  BY DEF IInv, TypeOK, Providers, RecordsAgree

LEMMA CloseStep ==
    ASSUME IInv, NEW p \in Projects, Close(p) PROVE IInv'
  <1> DEFINE i == sessions[p]
             m == IF ClosesAtOnce(i) THEN Apply(machine[i], "disconnected") ELSE machine[i]
  <1>1. TypeOK /\ i \in Inst /\ owner[i] = p
    BY SessionLemma DEF Close, IInv
  <1>2. /\ Evict(owner[i]) /\ BeginDisconnect(i)
        /\ machine' = [machine EXCEPT ![i] = m]
        /\ UNCHANGED <<owner, opening, rebuild>>
        /\ activeId' \in Projects \cup {NoProject}
        /\ persisted' \in Projects \cup {NoProject}
    BY <1>1 DEF Close, SilentDisconnect, selection, TypeOK
  <1>3. EndingFrame(i) /\ ~conn'[i]
    BY <1>1, <1>2, BeginDisconnectLemma
  <1>4. m \in ConnStates
    BY <1>1, ApplyType DEF TypeOK, ConnStates
  <1>5. IsLocal(i) => m # "disconnected" /\ opening'[i] = "idle"
    BY <1>1, <1>2 DEF ClosesAtOnce, IInv, LocalNeverDisconnected, LocalIsIdle
  <1> QED
    <2> HIDE DEF m, i
    <2> QED
      BY <1>1, <1>2, <1>3, <1>4, <1>5, EvictStep DEF TypeOK

LEMMA DisconnectStep ==
    ASSUME IInv, NEW p \in Projects, Disconnect(p) PROVE IInv'
  <1> DEFINE i == sessions[p]
  <1>1. TypeOK /\ i \in Inst /\ owner[i] = p /\ ~IsLocal(i)
    BY SessionLemma DEF Disconnect, IInv, RemoteProjects, IsLocal
  <1>2. /\ BeginDisconnect(i) /\ "disconnected" \in ConnStates
        /\ UNCHANGED <<sessions, statusOff, activeId, persisted, owner, opening, rebuild>>
    BY DEF Disconnect, selection, ConnStates
  <1>3. EndingFrame(i)
    BY <1>1, <1>2, BeginDisconnectLemma
  <1>4. CASE ClosesAtOnce(i)
    <2>1. Report(i, "disconnected")
      BY <1>4 DEF Disconnect
    <2>2. /\ opening' \in [Inst -> {"idle", "config", "handshake", "provision"}]
          /\ activeId' \in Projects \cup {NoProject}
          /\ persisted' \in Projects \cup {NoProject}
      BY <1>1, <1>2 DEF TypeOK
    <2> HIDE DEF i
    <2> QED
      BY <1>1, <1>2, <1>3, <2>1, <2>2, ReportStep DEF EndingFrame
  <1>5. CASE ~ClosesAtOnce(i)
    <2>1. UNCHANGED <<machine, lastState, watchSubs, subscribing, refused, pending, listeners>>
      BY <1>5 DEF Disconnect, Unreported, watchVars, brokerVars
    <2>2. Auxiliary /\ \A q \in Projects : ProjectInv(q)
      BY Regroup
    <2>3. TypeOK'
      BY <1>1, <1>2, <1>3, <2>1 DEF TypeOK, EndingFrame
    <2>4. Auxiliary'
      <3>1. ProviderFrame(i)
        BY <1>1, <1>2, <1>3, <2>1 DEF ProviderFrame, EndingFrame
      <3> QED
        BY <1>1, <2>2, <3>1, ProviderLemma
    <2>5. ASSUME NEW q \in Projects PROVE ProjectInv(q)'
      BY <1>2, <2>1, <2>2 DEF ProjectInv, RecordInv, ListenerInv, RunningStop, Stopping
    <2> QED
      BY <2>3, <2>4, <2>5, Regroup
  <1> QED
    BY <1>4, <1>5

LEMMA ReconnectStep ==
    ASSUME IInv, NEW p \in Projects, Reconnect(p) PROVE IInv'
  <1> DEFINE i == sessions[p]
  <1>1. /\ TypeOK /\ Auxiliary /\ \A q \in Projects : ProjectInv(q)
        /\ i \in Inst /\ owner[i] = p /\ p \in RemoteProjects /\ ~IsLocal(i)
    BY SessionLemma, Regroup DEF Reconnect, RemoteProjects, IsLocal
  <1>2. BeginDisconnect(i)
    BY DEF Reconnect
  <1>3. EndingFrame(i)
    BY <1>1, <1>2, BeginDisconnectLemma
  <1>4. CASE ClosesAtOnce(i)
    <2> DEFINE m     == Apply(machine[i], "disconnected")
               known == [machine EXCEPT ![i] = m]
    <2>1. PICK j \in Inst : OpenRemote(p, j, known) /\ UNCHANGED rebuild
      BY <1>4 DEF Reconnect
    <2>2. m \in ConnStates
      <3>1. machine[i] \in ConnStates /\ "disconnected" \in ConnStates
        BY <1>1 DEF TypeOK, ConnStates
      <3> QED
        BY <3>1, ApplyType
    <2>3. /\ known \in [Inst -> ConnStates]
          /\ \A q \in Projects \ {p} : sessions[q] # NoInst =>
                known[sessions[q]] = machine[sessions[q]]
          /\ \A k \in Inst : k # i => known[k] = machine[k]
      <3> HIDE DEF m
      <3> QED
        BY <1>1, <2>2 DEF TypeOK, Providers, ProjectInv, RecordInv
    <2>4. /\ ActivationTypes /\ ActivationFrame
          /\ machine' = [known EXCEPT ![j] = "connecting"]
          /\ owner' = [owner EXCEPT ![j] = p]
          /\ \A q \in Projects : ProjectInv(q)'
      <3> HIDE DEF known, i
      <3> QED
        BY <1>1, <2>1, <2>3, OpenRemoteLemma
    <2>5. TypeOK'
      BY <1>1, <1>3, <2>1, <2>4
         DEF ActivationTypes, StatusType, BrokerType, TypeOK, EndingFrame
    <2>6. \A k \in Inst : owner'[k] \in LocalProjects => machine'[k] # "disconnected"
      <3> HIDE DEF known
      <3> QED
        BY <1>1, <2>3, <2>4
           DEF TypeOK, IsLocal, RemoteProjects, Auxiliary, LocalNeverDisconnected
    <2>7. \A k \in Inst : owner[k] = NoProject => closing'[k] = closing[k]
      BY <1>1, <1>3, NoProjectAssumption DEF EndingFrame
    <2>8. Auxiliary'
      BY <1>1, <1>3, <2>1, <2>4, <2>6, <2>7, AuxiliaryLemma DEF EndingFrame
    <2> QED
      BY <2>4, <2>5, <2>8, Regroup
  <1>5. CASE ~ClosesAtOnce(i)
    <2>1. /\ Evict(owner[i]) /\ rebuild' = [rebuild EXCEPT ![i] = TRUE]
          /\ UNCHANGED <<machine, owner, opening, activeId, persisted>>
      BY <1>1, <1>5 DEF Reconnect, selection
    <2>2. machine' = [machine EXCEPT ![i] = machine[i]] /\ machine[i] \in ConnStates
      BY <1>1, <2>1 DEF TypeOK
    <2>3. rebuild' \in [Inst -> BOOLEAN] /\ \A j \in Inst \ {i} : rebuild'[j] = rebuild[j]
      BY <1>1, <2>1 DEF TypeOK
    <2> HIDE DEF i
    <2> QED
      BY <1>1, <1>3, <2>1, <2>2, <2>3, EvictStep DEF TypeOK
  <1> QED
    BY <1>4, <1>5

LEMMA FinishDisconnectStep ==
    ASSUME IInv, NEW i \in Inst, FinishDisconnect(i) PROVE IInv'
  <1> DEFINE m     == Apply(machine[i], "disconnected")
             known == [machine EXCEPT ![i] = m]
  <1>1. /\ TypeOK /\ Auxiliary /\ \A q \in Projects : ProjectInv(q)
        /\ owner[i] \in Projects
    BY Regroup DEF FinishDisconnect, Auxiliary, FreshIsIdle, TypeOK
  <1>2. /\ closing' = [closing EXCEPT ![i] = "done"]
        /\ rebuild' = [rebuild EXCEPT ![i] = FALSE]
        /\ UNCHANGED <<conn, orphans>>
    BY DEF FinishDisconnect
  <1>3. /\ closing' \in [Inst -> {"no", "running", "done"}]
        /\ \A j \in Inst \ {i} : closing'[j] = closing[j]
    BY <1>1, <1>2 DEF TypeOK
  <1>4. /\ rebuild' \in [Inst -> BOOLEAN] /\ \A j \in Inst : rebuild'[j] => rebuild[j]
        /\ \A j \in Inst \ {i} : rebuild'[j] = rebuild[j]
    BY <1>1, <1>2 DEF TypeOK
  <1>5. CASE rebuild[i]
    <2>1. ActivateWith(owner[i], known)
      BY <1>5 DEF FinishDisconnect
    <2>2. owner[i] \in RemoteProjects /\ sessions[owner[i]] # i
      BY <1>1, <1>5 DEF Auxiliary, RebuildsEvicted
    <2>3. m \in ConnStates
      <3>1. machine[i] \in ConnStates /\ "disconnected" \in ConnStates
        BY <1>1 DEF TypeOK, ConnStates
      <3> QED
        BY <3>1, ApplyType
    <2>4. /\ known \in [Inst -> ConnStates]
          /\ \A k \in Inst : k # i => known[k] = machine[k]
      <3> HIDE DEF m
      <3> QED
        BY <1>1, <2>3 DEF TypeOK
    <2>5. \A q \in Projects : sessions[q] # NoInst =>
              sessions[q] \in Inst /\ sessions[q] # i
      BY <1>1, <2>2 DEF TypeOK, Providers, ProjectInv, RecordInv
    <2>6. /\ ActivationTypes /\ ActivationFrame
          /\ \A j \in Inst : owner'[j] \in LocalProjects => machine'[j] # "disconnected"
          /\ \A q \in Projects : ProjectInv(q)'
      <3> HIDE DEF known
      <3>1. \A q \in Projects : sessions[q] # NoInst =>
                known[sessions[q]] = machine[sessions[q]]
        BY <2>4, <2>5
      <3>2. \A j \in Inst : IsLocal(j) => known[j] = machine[j]
        BY <2>2, <2>4 DEF IsLocal, RemoteProjects
      <3>3. owner[i] \notin LocalProjects
        BY <2>2 DEF RemoteProjects
      <3> QED
        BY <1>1, <2>1, <2>4, <3>1, <3>2, <3>3, ActivateLemma
    <2>7. TypeOK'
      BY <1>1, <1>2, <1>3, <1>4, <2>6 DEF ActivationTypes, StatusType, BrokerType, TypeOK
    <2>8. \A j \in Inst : owner[j] = NoProject => closing'[j] = closing[j]
      BY <1>1, <1>3, NoProjectAssumption
    <2>9. Auxiliary'
      BY <1>1, <1>2, <1>4, <2>6, <2>8, AuxiliaryLemma
    <2> QED
      BY <2>6, <2>7, <2>9, Regroup
  <1>6. CASE ~rebuild[i]
    <2>1. /\ UNCHANGED <<sessions, statusOff, activeId, persisted, owner, opening>>
          /\ rebuild' = rebuild
      BY <1>1, <1>2, <1>6 DEF FinishDisconnect, selection, TypeOK
    <2>2. CASE IsLocal(i)
      <3>1. UNCHANGED <<machine, lastState, watchSubs, subscribing, refused, pending, listeners>>
        BY <1>6, <2>2 DEF FinishDisconnect, Unreported, watchVars, brokerVars
      <3>2. TypeOK'
        BY <1>1, <1>2, <1>3, <2>1, <3>1 DEF TypeOK
      <3>3. Auxiliary'
        <4>1. ProviderFrame(i)
          BY <1>1, <1>2, <1>3, <2>1, <3>1
             DEF ProviderFrame, Auxiliary, LocalIsIdle, LocalNeverDisconnected
        <4> QED
          BY <1>1, <4>1, ProviderLemma
      <3>4. ASSUME NEW q \in Projects PROVE ProjectInv(q)'
        BY <1>1, <2>1, <3>1 DEF ProjectInv, RecordInv, ListenerInv, RunningStop, Stopping
      <3> QED
        BY <3>2, <3>3, <3>4, Regroup
    <2>3. CASE ~IsLocal(i)
      <3>1. Report(i, "disconnected") /\ "disconnected" \in ConnStates
        BY <1>6, <2>3 DEF FinishDisconnect, ConnStates
      <3> QED
        BY <1>1, <1>2, <1>3, <2>1, <2>3, <3>1, ReportStep DEF TypeOK
    <2> QED
      BY <2>2, <2>3
  <1> QED
    BY <1>5, <1>6

-----------------------------------------------------------------------------
(* The theorems.                                                           *)

LEMMA NextInv == IInv /\ [Next]_vars => IInv'
  <1> SUFFICES ASSUME IInv, [Next]_vars PROVE IInv'
    OBVIOUS
  <1>1. ASSUME NEW p \in Projects,
               \/ Activate(p) \/ Disconnect(p) \/ Close(p) \/ Reconnect(p)
               \/ \E bound \in BOOLEAN : BrokerStep(p, bound)
        PROVE  IInv'
    BY <1>1, ActivateStep, DisconnectStep, CloseStep, ReconnectStep, BrokerStepStep
  <1>2. ASSUME NEW i \in Inst, ProviderStep(i) PROVE IInv'
    BY <1>2, ConfigReadStep, SocketUpStep, ConnectOkStep, ConnectFailStep, DropStep,
       FlapStep, WatchReplyStep, WatchFailStep, FinishDisconnectStep DEF ProviderStep
  <1>3. CASE Restart
    BY <1>3, RestartStep
  <1>4. CASE UNCHANGED vars
    <2>1. UNCHANGED <<sessions, statusOff, lastState, watchSubs, subscribing, refused,
                      activeId, persisted, owner, machine, opening, conn, closing,
                      rebuild, orphans, pending, listeners>>
      BY <1>4 DEF vars, sessionVars, watchVars, selection, providerVars, brokerVars
    <2>2. TypeOK /\ Auxiliary /\ \A q \in Projects : ProjectInv(q)
      BY Regroup
    <2>3. TypeOK'
      BY <2>1, <2>2 DEF TypeOK
    <2>4. Auxiliary'
      BY <2>1, <2>2 DEF Auxiliary, FreshIsIdle, RebuildsEvicted, LocalIsIdle,
                        LocalNeverDisconnected, IsLocal
    <2>5. ASSUME NEW q \in Projects PROVE ProjectInv(q)'
      BY <2>1, <2>2 DEF ProjectInv, RecordInv, ListenerInv, RunningStop, Stopping
    <2> QED
      BY <2>3, <2>4, <2>5, Regroup
  <1> QED
    BY <1>1, <1>2, <1>3, <1>4 DEF Next

\* Every reachable state of the session layer satisfies the inductive
\* invariant: the actions of ipc/index.ts, of the providers and of the callback
\* broker all keep it.
THEOREM Invariance == Spec => []IInv
  BY InitInv, NextInv, PTL DEF Spec

\* The fields of SessionManager, of its providers and of the broker keep
\* their types.
THEOREM TypeCorrectness == Spec => []TypeOK
  <1>1. IInv => TypeOK
    BY DEF IInv
  <1> QED
    BY <1>1, Invariance, PTL

\* The maps of SessionManager never drift apart: status subscription, last
\* state and recorded watch belong to the provider in the map, whatever
\* evictions, late connects and late subscribe replies do.
THEOREM RecordsAgreeAlways == Spec => []RecordsAgree
  <1>1. IInv => RecordsAgree
    BY DEF IInv
  <1> QED
    BY <1>1, Invariance, PTL

\* A project that is down, or has no session, has no callback socket or has
\* its stop queued last, behind any bind in flight (handleStatus, close and
\* CallbackBroker.serialized together).
THEOREM ListenerOwnedAlways == Spec => []ListenerOwned
  <1>1. IInv => ListenerOwned
    BY DEF IInv
  <1> QED
    BY <1>1, Invariance, PTL

\* A local session that is up is never left with its listener stopped, whatever
\* stops former sessions or states had queued.
THEOREM ListenerServesAlways == Spec => []ListenerServes
  <1>1. IInv => ListenerServes
    BY DEF IInv
  <1> QED
    BY <1>1, Invariance, PTL

\* The machine of a local provider never reports disconnected, neither through
\* mux outages nor through its own disconnect().
THEOREM LocalNeverDisconnectedAlways == Spec => []LocalNeverDisconnected
  <1>1. IInv => LocalNeverDisconnected
    BY DEF IInv
  <1> QED
    BY <1>1, Invariance, PTL

-----------------------------------------------------------------------------
(* The watch feed.                                                         *)

WatchInv(p) ==
    LET i == sessions[p] IN
    /\ i # NoInst /\ machine[i] = "connected" =>
          watchSubs[p] = i \/ subscribing[i] > 0 \/ refused[i]
    /\ lastState[p] = "disconnected" => watchSubs[p] = NoInst

LEMMA WatchRegroup ==
    /\ WatchFollowsStatus <=> \A p \in Projects : WatchInv(p)
    /\ WatchFollowsStatus' <=> \A p \in Projects : WatchInv(p)'
  BY DEF WatchFollowsStatus, ConnectedIsWatched, DisconnectedIsUnwatched, WatchInv

\* A project is not disturbed by what happens to others.
WatchKept(q) ==
    /\ sessions'[q] = sessions[q] /\ lastState'[q] = lastState[q]
    /\ watchSubs'[q] = watchSubs[q]
    /\ sessions[q] # NoInst =>
          /\ machine'[sessions[q]] = machine[sessions[q]]
          /\ subscribing'[sessions[q]] = subscribing[sessions[q]]
          /\ refused'[sessions[q]] = refused[sessions[q]]

LEMMA WatchFrame ==
    ASSUME NEW q \in Projects, WatchInv(q), WatchKept(q)
    PROVE  WatchInv(q)'
  BY DEF WatchInv, WatchKept

\* Providers of other projects are other providers.
LEMMA OwnersDiffer ==
    ASSUME TypeOK, \A q \in Projects : ProjectInv(q), NEW i \in Inst
    PROVE  \A q \in Projects : sessions[q] # NoInst =>
               sessions[q] \in Inst /\ (q # owner[i] => sessions[q] # i)
  BY DEF ProjectInv, RecordInv, TypeOK, Providers

\* A report starts the watch on the edge into connected, and stops it when the
\* session is down.
LEMMA WatchEnter ==
    ASSUME TypeOK, \A q \in Projects : ProjectInv(q), \A q \in Projects : WatchInv(q),
           NEW i \in Inst, owner[i] \in Projects, NEW s \in ConnStates,
           Enter(i, s), UNCHANGED <<sessions, statusOff, owner>>
    PROVE  \A q \in Projects : WatchInv(q)'
  <1> DEFINE p == owner[i]
  <1>1. machine' = [machine EXCEPT ![i] = s] /\ machine \in [Inst -> ConnStates]
    BY DEF Enter, TypeOK
  <1>2. \A q \in Projects : sessions[q] # NoInst =>
            sessions[q] \in Inst /\ (q # p => sessions[q] # i)
    BY OwnersDiffer
  <1>3. CASE statusOff[p] = i
    <2>1. HandleStatus(p, i, s)
      BY <1>3 DEF Enter
    <2>2. sessions[p] = i /\ lastState[p] = machine[i] /\ watchSubs[p] \in {NoInst, i}
      BY <1>3, NoInstAssumption DEF ProjectInv, RecordInv
    <2>3. /\ lastState' = [lastState EXCEPT ![p] = s]
          /\ \A q \in Projects \ {p} : watchSubs'[q] = watchSubs[q]
          /\ \A j \in Inst \ {i} : subscribing'[j] = subscribing[j] /\ refused'[j] = refused[j]
      BY <2>1 DEF HandleStatus, StartWatch, StopWatch, watchVars, TypeOK
    <2>4. ASSUME NEW q \in Projects \ {p} PROVE WatchInv(q)'
      <3>1. WatchKept(q)
        BY <1>1, <1>2, <2>3 DEF WatchKept, TypeOK
      <3> QED
        BY <3>1, WatchFrame
    <2>5. WatchInv(p)'
      <3>1. lastState'[p] = s /\ machine'[i] = s /\ sessions'[p] = i
        BY <1>1, <2>2, <2>3 DEF TypeOK
      <3>2. CASE s = "connected" /\ lastState[p] # "connected"
        <4>1. StartWatch(p, i)
          BY <2>1, <3>2 DEF HandleStatus
        <4>2. watchSubs'[p] = i \/ subscribing'[i] > 0
          <5>1. CASE watchSubs[p] # NoInst
            BY <2>2, <4>1, <5>1 DEF StartWatch, watchVars
          <5>2. CASE watchSubs[p] = NoInst /\ p \in LocalProjects
            BY <4>1, <5>2 DEF StartWatch, TypeOK
          <5>3. CASE watchSubs[p] = NoInst /\ p \notin LocalProjects
            <6>1. subscribing' = [subscribing EXCEPT ![i] = @ + 1] /\ subscribing[i] \in Nat
              BY <4>1, <5>3 DEF StartWatch, TypeOK
            <6> QED
              BY <6>1 DEF TypeOK
          <5> QED
            BY <5>1, <5>2, <5>3
        <4> QED
          BY <3>1, <3>2, <4>2 DEF WatchInv
      <3>3. CASE s \in {"disconnected", "failed"}
        <4>1. watchSubs'[p] = NoInst
          BY <2>1, <3>3 DEF HandleStatus, StopWatch, TypeOK
        <4> QED
          BY <3>1, <3>3, <4>1 DEF WatchInv
      <3>4. CASE s \in {"connecting", "reconnecting"}
        BY <3>1, <3>4 DEF WatchInv
      <3>5. CASE s = "connected" /\ lastState[p] = "connected"
        <4>1. UNCHANGED <<watchSubs, subscribing, refused>>
          BY <2>1, <3>5 DEF HandleStatus, watchVars
        <4>2. WatchInv(p) /\ machine[i] = "connected"
          BY <2>2, <3>5
        <4> QED
          BY <2>2, <3>1, <3>5, <4>1, <4>2 DEF WatchInv
      <3> QED
        BY <3>2, <3>3, <3>4, <3>5 DEF ConnStates
    <2> QED
      BY <2>4, <2>5
  <1>4. CASE statusOff[p] # i
    <2>1. UNCHANGED <<lastState, watchSubs, subscribing, refused>> /\ sessions[p] # i
      BY <1>4, NoInstAssumption DEF Enter, Unreported, watchVars, ProjectInv, RecordInv
    <2>2. ASSUME NEW q \in Projects PROVE WatchKept(q)
      BY <1>1, <1>2, <2>1 DEF WatchKept
    <2> QED
      BY <2>2, WatchFrame
  <1> QED
    BY <1>3, <1>4

LEMMA WatchReport ==
    ASSUME TypeOK, \A q \in Projects : ProjectInv(q), \A q \in Projects : WatchInv(q),
           NEW i \in Inst, owner[i] \in Projects, NEW s \in ConnStates,
           Report(i, s), UNCHANGED <<sessions, statusOff, owner>>
    PROVE  \A q \in Projects : WatchInv(q)'
  <1>1. CASE Enter(i, s)
    BY <1>1, WatchEnter
  <1>2. CASE UNCHANGED <<machine, lastState, watchSubs, subscribing, refused>>
    BY <1>2, WatchFrame DEF WatchKept
  <1> QED
    BY <1>1, <1>2 DEF Report, Unreported, watchVars

LEMMA WatchEvict ==
    ASSUME TypeOK, \A q \in Projects : WatchInv(q), NEW p \in Projects, Evict(p),
           \A q \in Projects \ {p} : sessions[q] # NoInst =>
               machine'[sessions[q]] = machine[sessions[q]]
    PROVE  \A q \in Projects : WatchInv(q)'
  <1>1. /\ watchSubs' = [watchSubs EXCEPT ![p] = NoInst]
        /\ lastState' = [lastState EXCEPT ![p] = "none"]
        /\ sessions' = [sessions EXCEPT ![p] = NoInst]
        /\ UNCHANGED <<subscribing, refused>>
    BY DEF Evict, StopWatch
  <1>2. ASSUME NEW q \in Projects \ {p} PROVE WatchKept(q)
    BY <1>1 DEF WatchKept, TypeOK
  <1>3. WatchInv(p)'
    BY <1>1 DEF WatchInv, TypeOK
  <1> QED
    BY <1>2, <1>3, WatchFrame

LEMMA WatchOpenRemote ==
    ASSUME TypeOK, \A q \in Projects : ProjectInv(q), \A q \in Projects : WatchInv(q),
           NEW p \in Projects, NEW i \in Inst, NEW known \in [Inst -> ConnStates],
           \A q \in Projects \ {p} : sessions[q] # NoInst =>
               known[sessions[q]] = machine[sessions[q]],
           OpenRemote(p, i, known)
    PROVE  \A q \in Projects : WatchInv(q)'
  <1>1. /\ owner[i] = NoProject
        /\ sessions' = [sessions EXCEPT ![p] = i]
        /\ machine' = [known EXCEPT ![i] = "connecting"]
        /\ lastState' = [lastState EXCEPT ![p] = "connecting"]
        /\ watchSubs' = [watchSubs EXCEPT ![p] = NoInst]
        /\ UNCHANGED <<subscribing, refused>>
    BY DEF OpenRemote, Register, StopWatch
  <1>2. \A q \in Projects : sessions[q] # NoInst => sessions[q] \in Inst /\ sessions[q] # i
    BY <1>1, NoProjectAssumption DEF ProjectInv, RecordInv, TypeOK, Providers
  <1>3. ASSUME NEW q \in Projects \ {p} PROVE WatchKept(q)
    BY <1>1, <1>2 DEF WatchKept, TypeOK
  <1>4. WatchInv(p)'
    BY <1>1 DEF WatchInv, TypeOK
  <1> QED
    BY <1>3, <1>4, WatchFrame

LEMMA WatchActivate ==
    ASSUME TypeOK, \A q \in Projects : ProjectInv(q), \A q \in Projects : WatchInv(q),
           NEW p \in Projects, NEW known \in [Inst -> ConnStates],
           \A q \in Projects : sessions[q] # NoInst =>
               known[sessions[q]] = machine[sessions[q]],
           ActivateWith(p, known)
    PROVE  \A q \in Projects : WatchInv(q)'
  <1>1. CASE Reselect(p, known)
    <2>1. ASSUME NEW q \in Projects PROVE WatchKept(q)
      BY <1>1 DEF Reselect, sessionVars, watchVars, WatchKept
    <2> QED
      BY <2>1, WatchFrame
  <1>2. ASSUME NEW i \in Inst, sessions[p] = NoInst, OpenLocal(p, i)
        PROVE  \A q \in Projects : WatchInv(q)'
    <2>1. /\ owner[i] = NoProject
          /\ sessions' = [sessions EXCEPT ![p] = i]
          /\ machine' = [machine EXCEPT ![i] = "connected"]
          /\ lastState' = [lastState EXCEPT ![p] = "connected"]
          /\ p \in LocalProjects
      BY <1>2 DEF OpenLocal, Register
    <2>2. watchSubs[p] = NoInst
      BY <1>2 DEF ProjectInv, RecordInv
    <2>3. /\ watchSubs' = [watchSubs EXCEPT ![p] = i] /\ UNCHANGED subscribing
          /\ refused' = [refused EXCEPT ![i] = FALSE]
      BY <1>2, <2>1, <2>2 DEF OpenLocal, StartWatch
    <2>4. \A q \in Projects : sessions[q] # NoInst => sessions[q] \in Inst /\ sessions[q] # i
      BY <2>1, NoProjectAssumption DEF ProjectInv, RecordInv, TypeOK, Providers
    <2>5. ASSUME NEW q \in Projects \ {p} PROVE WatchKept(q)
      BY <2>1, <2>3, <2>4 DEF WatchKept, TypeOK
    <2>6. WatchInv(p)'
      BY <2>1, <2>3 DEF WatchInv, TypeOK
    <2> QED
      BY <2>5, <2>6, WatchFrame
  <1>3. ASSUME NEW i \in Inst, OpenRemote(p, i, known)
        PROVE  \A q \in Projects : WatchInv(q)'
    BY <1>3, WatchOpenRemote
  <1> QED
    BY <1>1, <1>2, <1>3 DEF ActivateWith

-----------------------------------------------------------------------------
(* A provider with a connection has left `disconnected`.                    *)

OpenInv(i) ==
    /\ opening[i] = "config" => ~conn[i]
    /\ closing[i] = "no" /\ (conn[i] \/ opening[i] = "config")
         => machine[i] # "disconnected"

\* Nothing happened to a provider that could bring it back to `disconnected`.
OpenKept(i) ==
    /\ opening'[i] = "config" => opening[i] = "config"
    /\ conn'[i] => conn[i]
    /\ closing'[i] = "no" => closing[i] = "no"
    /\ machine'[i] \in {machine[i], "connecting", "connected", "reconnecting", "failed"}

LEMMA OpenFrame ==
    ASSUME OpenUnlessClosed, NEW i \in Inst, \A j \in Inst \ {i} : OpenKept(j),
           OpenKept(i) \/ OpenInv(i)'
    PROVE  OpenUnlessClosed'
  <1>1. ASSUME NEW j \in Inst, OpenKept(j) PROVE OpenInv(j)'
    BY <1>1 DEF OpenUnlessClosed, OpenKept, OpenInv
  <1>2. \A j \in Inst : OpenInv(j)'
    BY <1>1
  <1> QED
    BY <1>2 DEF OpenUnlessClosed, OpenInv

\* What a report does to the machines.
LEMMA ReportMachines ==
    ASSUME TypeOK, NEW i \in Inst, NEW s, Report(i, s) \/ Enter(i, s)
    PROVE  /\ machine'[i] \in {machine[i], s}
           /\ \A j \in Inst \ {i} : machine'[j] = machine[j]
  BY DEF Report, Enter, TypeOK

\* A provider handed out by open() is new, and a former one was disconnected.
LEMMA OpenOpenRemote ==
    ASSUME TypeOK, FreshIsIdle, OpenUnlessClosed,
           NEW p \in Projects, NEW i \in Inst, NEW known \in [Inst -> ConnStates],
           \A j \in Inst : /\ closing'[j] = "no" => closing[j] = "no" /\ known[j] = machine[j]
                           /\ conn'[j] => conn[j],
           OpenRemote(p, i, known)
    PROVE  OpenUnlessClosed'
  <1> SUFFICES ASSUME NEW j \in Inst PROVE OpenInv(j)'
    BY DEF OpenUnlessClosed, OpenInv
  <1>1. OpenInv(j)
    BY DEF OpenUnlessClosed, OpenInv
  <1>2. /\ machine' = [known EXCEPT ![i] = "connecting"]
        /\ opening' = [opening EXCEPT ![i] = "config"]
        /\ ~conn[i]
    BY DEF OpenRemote, Register, FreshIsIdle
  <1> QED
    BY <1>1, <1>2 DEF OpenInv, TypeOK

LEMMA OpenActivate ==
    ASSUME TypeOK, FreshIsIdle, OpenUnlessClosed,
           NEW p \in Projects, NEW known \in [Inst -> ConnStates],
           \A j \in Inst : /\ closing'[j] = "no" => closing[j] = "no" /\ known[j] = machine[j]
                           /\ conn'[j] => conn[j],
           ActivateWith(p, known)
    PROVE  OpenUnlessClosed'
  <1>1. CASE Reselect(p, known)
    BY <1>1 DEF Reselect, OpenUnlessClosed
  <1>2. ASSUME NEW i \in Inst, OpenLocal(p, i) PROVE OpenUnlessClosed'
    <2>1. machine' = [machine EXCEPT ![i] = "connected"] /\ opening' = opening
      BY <1>2 DEF OpenLocal
    <2> QED
      BY <2>1 DEF OpenUnlessClosed, TypeOK
  <1>3. ASSUME NEW i \in Inst, OpenRemote(p, i, known) PROVE OpenUnlessClosed'
    BY <1>3, OpenOpenRemote
  <1> QED
    BY <1>1, <1>2, <1>3 DEF ActivateWith

\* Each action of a provider keeps it.
LEMMA OpenProviderStep ==
    ASSUME IInv, OpenUnlessClosed, NEW i \in Inst, ProviderStep(i)
    PROVE  OpenUnlessClosed'
  <1>1. TypeOK /\ FreshIsIdle /\ RebuildsEvicted
    BY DEF IInv
  <1>2. CASE ConfigRead(i)
    <2>1. /\ opening[i] = "config" /\ opening' = [opening EXCEPT ![i] = "handshake"]
          /\ conn' = [conn EXCEPT ![i] = TRUE]
          /\ UNCHANGED <<machine, closing>>
      BY <1>2 DEF ConfigRead
    <2>2. OpenInv(i)'
      BY <1>1, <2>1 DEF OpenUnlessClosed, OpenInv, TypeOK
    <2>3. \A j \in Inst \ {i} : OpenKept(j)
      BY <1>1, <2>1 DEF OpenKept, TypeOK
    <2> QED
      BY <2>2, <2>3, OpenFrame
  <1>3. CASE SocketUp(i)
    <2>1. /\ Report(i, "connecting") /\ opening' = [opening EXCEPT ![i] = "provision"]
          /\ UNCHANGED <<conn, closing>>
      BY <1>3 DEF SocketUp
    <2>2. \A j \in Inst : OpenKept(j)
      BY <1>1, <2>1, ReportMachines DEF OpenKept, TypeOK
    <2> QED
      BY <2>2, OpenFrame
  <1>4. CASE ConnectOk(i)
    <2>1. /\ Report(i, "connected") /\ opening' = [opening EXCEPT ![i] = "idle"]
          /\ closing' = [closing EXCEPT
                ![i] = IF @ = "done" /\ Accepts(machine[i], "connected") THEN "no" ELSE @]
          /\ UNCHANGED conn
      BY <1>4 DEF ConnectOk
    <2>2. \A j \in Inst \ {i} : OpenKept(j)
      BY <1>1, <2>1, ReportMachines DEF OpenKept, TypeOK
    <2>3. CASE Accepts(machine[i], "connected")
      <3>1. machine' = [machine EXCEPT ![i] = "connected"]
        BY <2>1, <2>3 DEF Report, Enter
      <3>2. OpenInv(i)'
        BY <1>1, <2>1, <3>1 DEF OpenInv, TypeOK
      <3> QED
        BY <2>2, <3>2, OpenFrame
    <2>4. CASE ~Accepts(machine[i], "connected")
      <3>1. OpenKept(i)
        BY <1>1, <2>1, <2>4, ReportMachines DEF OpenKept, TypeOK
      <3> QED
        BY <2>2, <3>1, OpenFrame
    <2> QED
      BY <2>3, <2>4
  <1>5. CASE ConnectFail(i)
    <2>1. /\ opening' = [opening EXCEPT ![i] = "idle"]
          /\ machine' = [machine EXCEPT ![i] = Apply(machine[i], "failed")]
          /\ conn' = [conn EXCEPT ![i] = FALSE]
          /\ closing' = [closing EXCEPT
                ![i] = IF @ = "running" \/ (opening[i] = "provision" /\ conn[i])
                       THEN "running" ELSE "done"]
      BY <1>1, <1>5 DEF ConnectFail, TypeOK
    <2>2. OpenInv(i)'
      BY <1>1, <2>1 DEF OpenInv, TypeOK
    <2>3. \A j \in Inst \ {i} : OpenKept(j)
      BY <1>1, <2>1 DEF OpenKept, TypeOK
    <2> QED
      BY <2>2, <2>3, OpenFrame
  <1>6. CASE Drop(i)
    <2>1. /\ Report(i, "disconnected") /\ conn[i] /\ conn' = [conn EXCEPT ![i] = FALSE]
          /\ UNCHANGED <<opening, closing>>
      BY <1>6 DEF Drop
    <2>2. OpenInv(i)'
      BY <1>1, <2>1 DEF OpenUnlessClosed, OpenInv, TypeOK
    <2>3. \A j \in Inst \ {i} : OpenKept(j)
      BY <1>1, <2>1, ReportMachines DEF OpenKept, TypeOK
    <2> QED
      BY <2>2, <2>3, OpenFrame
  <1>7. CASE FlapDown(i) \/ FlapUp(i) \/ FlapLost(i)
    <2>1. UNCHANGED <<opening, conn, closing>>
      BY <1>7 DEF FlapDown, FlapUp, FlapLost, ChannelUnchanged
    <2>2. \/ Report(i, "reconnecting") \/ Enter(i, "connected") \/ Report(i, "failed")
      BY <1>7 DEF FlapDown, FlapUp, FlapLost
    <2>3. \A j \in Inst : OpenKept(j)
      BY <2>1, <2>2, <1>1, ReportMachines DEF OpenKept
    <2> QED
      BY <2>3, OpenFrame
  <1>8. CASE WatchReply(i) \/ WatchFail(i)
    <2>1. UNCHANGED <<opening, conn, closing, machine>>
      BY <1>8 DEF WatchReply, WatchFail, providerVars
    <2>2. \A j \in Inst : OpenKept(j)
      BY <2>1 DEF OpenKept
    <2> QED
      BY <2>2, OpenFrame
  <1>9. CASE FinishDisconnect(i)
    <2> DEFINE known == [machine EXCEPT ![i] = Apply(machine[i], "disconnected")]
    <2>1. closing' = [closing EXCEPT ![i] = "done"] /\ closing[i] = "running" /\ UNCHANGED conn
      BY <1>9 DEF FinishDisconnect
    <2>2. owner[i] \in Projects
      BY <1>1, <2>1 DEF FreshIsIdle, TypeOK
    <2>3. CASE rebuild[i]
      <3>1. ActivateWith(owner[i], known)
        BY <1>9, <2>3 DEF FinishDisconnect
      <3>2. Apply(machine[i], "disconnected") \in ConnStates
        <4>1. machine[i] \in ConnStates /\ "disconnected" \in ConnStates
          BY <1>1 DEF TypeOK, ConnStates
        <4> QED
          BY <4>1, ApplyType
      <3>3. /\ known \in [Inst -> ConnStates]
            /\ \A j \in Inst \ {i} : known[j] = machine[j]
        BY <1>1, <3>2 DEF TypeOK
      <3>4. \A j \in Inst : /\ closing'[j] = "no" => closing[j] = "no" /\ known[j] = machine[j]
                            /\ conn'[j] => conn[j]
        BY <1>1, <2>1, <3>3 DEF TypeOK
      <3> QED
        <4> HIDE DEF known
        <4> QED
          BY <1>1, <2>2, <3>1, <3>3, <3>4, OpenActivate
    <2>4. CASE ~rebuild[i]
      <3>1. UNCHANGED opening
        BY <1>9, <2>4 DEF FinishDisconnect
      <3>2. \/ Report(i, "disconnected")
            \/ UNCHANGED machine
        BY <1>9, <2>4 DEF FinishDisconnect
      <3>3. \A j \in Inst \ {i} : OpenKept(j)
        BY <1>1, <2>1, <3>1, <3>2, ReportMachines DEF OpenKept, TypeOK
      <3>4. OpenInv(i)'
        BY <1>1, <2>1, <3>1 DEF OpenUnlessClosed, OpenInv, TypeOK
      <3> QED
        BY <3>3, <3>4, OpenFrame
    <2> QED
      BY <2>3, <2>4
  <1> QED
    BY <1>2, <1>3, <1>4, <1>5, <1>6, <1>7, <1>8, <1>9 DEF ProviderStep

\* The handlers of ipc/index.ts keep it: a provider they disconnect has left
\* `no`, and one they create has no connection yet.
LEMMA OpenHandlerStep ==
    ASSUME IInv, OpenUnlessClosed, NEW p \in Projects,
           Activate(p) \/ Disconnect(p) \/ Close(p) \/ Reconnect(p)
    PROVE  OpenUnlessClosed'
  <1>1. TypeOK /\ FreshIsIdle
    BY DEF IInv
  <1>2. CASE Activate(p)
    <2>1. machine \in [Inst -> ConnStates]
      BY <1>1 DEF TypeOK
    <2>2. ActivateWith(p, machine) /\ UNCHANGED <<conn, closing>>
      BY <1>2 DEF Activate
    <2> QED
      BY <1>1, <2>1, <2>2, OpenActivate
  <1>3. CASE Disconnect(p) \/ Close(p) \/ Reconnect(p)
    <2>1. PICK i \in Inst : i = sessions[p] /\ BeginDisconnect(i)
      BY <1>3, SessionLemma DEF Disconnect, Close, Reconnect
    <2>2. /\ conn' = [conn EXCEPT ![i] = FALSE]
          /\ closing' = [closing EXCEPT
                ![i] = IF @ = "running" \/ ~ClosesAtOnce(i) THEN "running" ELSE "done"]
      BY <2>1 DEF BeginDisconnect
    <2>3. /\ ~conn'[i] /\ closing'[i] # "no"
          /\ \A j \in Inst \ {i} : conn'[j] = conn[j] /\ closing'[j] = closing[j]
      BY <1>1, <2>1, <2>2 DEF TypeOK
    <2>4. CASE Disconnect(p) \/ Close(p) \/ (Reconnect(p) /\ ~ClosesAtOnce(i))
      <3>1. UNCHANGED opening
        BY <2>1, <2>4 DEF Disconnect, Close, Reconnect
      <3>2. \A j \in Inst \ {i} : machine'[j] = machine[j]
        <4>1. CASE Report(i, "disconnected")
          BY <1>1, <2>1, <4>1, ReportMachines
        <4>2. CASE SilentDisconnect(i)
          BY <1>1, <4>2 DEF SilentDisconnect, TypeOK
        <4>3. CASE UNCHANGED machine
          BY <4>3
        <4> QED
          BY <2>1, <2>4, <4>1, <4>2, <4>3 DEF Disconnect, Close, Reconnect
      <3>3. \A j \in Inst \ {i} : OpenKept(j)
        BY <2>3, <3>1, <3>2 DEF OpenKept
      <3>4. OpenInv(i)'
        BY <2>3 DEF OpenInv
      <3> QED
        BY <2>1, <3>3, <3>4, OpenFrame
    <2>5. CASE Reconnect(p) /\ ClosesAtOnce(i)
      <3> DEFINE known == [machine EXCEPT ![i] = Apply(machine[i], "disconnected")]
      <3>1. PICK j \in Inst : OpenRemote(p, j, known)
        BY <2>1, <2>5 DEF Reconnect
      <3>2. Apply(machine[i], "disconnected") \in ConnStates
        <4>1. machine[i] \in ConnStates /\ "disconnected" \in ConnStates
          BY <1>1, <2>1 DEF TypeOK, ConnStates
        <4> QED
          BY <4>1, ApplyType
      <3>3. /\ known \in [Inst -> ConnStates]
            /\ \A k \in Inst \ {i} : known[k] = machine[k]
        BY <1>1, <2>1, <3>2 DEF TypeOK
      <3> HIDE DEF known
      <3>4. \A k \in Inst :
                /\ closing'[k] = "no" => closing[k] = "no" /\ known[k] = machine[k]
                /\ conn'[k] => conn[k]
        BY <2>3, <3>3
      <3> QED
        BY <1>1, <3>1, <3>3, <3>4, OpenOpenRemote
    <2> QED
      BY <1>3, <2>4, <2>5
  <1> QED
    BY <1>2, <1>3

LEMMA OpenInit == Init => OpenUnlessClosed
  BY DEF Init, OpenUnlessClosed

LEMMA OpenNext == IInv /\ OpenUnlessClosed /\ [Next]_vars => OpenUnlessClosed'
  <1> SUFFICES ASSUME IInv, OpenUnlessClosed, [Next]_vars PROVE OpenUnlessClosed'
    OBVIOUS
  <1>1. ASSUME NEW p \in Projects,
               Activate(p) \/ Disconnect(p) \/ Close(p) \/ Reconnect(p)
        PROVE  OpenUnlessClosed'
    BY <1>1, OpenHandlerStep
  <1>2. ASSUME NEW p \in Projects, NEW bound \in BOOLEAN, BrokerStep(p, bound)
        PROVE  OpenUnlessClosed'
    BY <1>2 DEF BrokerStep, providerVars, OpenUnlessClosed
  <1>3. ASSUME NEW i \in Inst, ProviderStep(i) PROVE OpenUnlessClosed'
    BY <1>3, OpenProviderStep
  <1>4. CASE Restart
    BY <1>4 DEF Restart, OpenUnlessClosed
  <1>5. CASE UNCHANGED vars
    BY <1>5 DEF vars, providerVars, OpenUnlessClosed
  <1> QED
    BY <1>1, <1>2, <1>3, <1>4, <1>5 DEF Next

\* The providers' actions keep the watch feed in step with their sessions.
LEMMA WatchProviderStep ==
    ASSUME IInv, OpenUnlessClosed, WatchFollowsStatus, NEW i \in Inst, ProviderStep(i)
    PROVE  WatchFollowsStatus'
  <1>1. /\ TypeOK /\ Auxiliary /\ \A q \in Projects : ProjectInv(q)
        /\ \A q \in Projects : WatchInv(q)
    BY Regroup, WatchRegroup
  <1>2. \A q \in Projects : sessions[q] # NoInst =>
            sessions[q] \in Inst /\ (q # owner[i] => sessions[q] # i)
    BY <1>1, OwnersDiffer
  <1>3. owner[i] \in Projects
    BY <1>1 DEF ProviderStep, ConfigRead, SocketUp, ConnectOk, ConnectFail, Drop, FlapDown,
                FlapUp, FlapLost, WatchReply, WatchFail, FinishDisconnect,
                Auxiliary, FreshIsIdle, TypeOK
  <1>4. {"connecting", "connected", "disconnected", "reconnecting", "failed"} \subseteq ConnStates
    BY DEF ConnStates
  <1> SUFFICES \A q \in Projects : WatchInv(q)'
    BY WatchRegroup
  <1>5. CASE ConfigRead(i)
    <2>1. ASSUME NEW q \in Projects PROVE WatchKept(q)
      BY <1>5 DEF ConfigRead, sessionVars, watchVars, WatchKept
    <2> QED
      BY <1>1, <2>1, WatchFrame
  <1>6. CASE SocketUp(i)
    <2>1. Report(i, "connecting") /\ UNCHANGED <<sessions, statusOff, owner>>
      BY <1>6 DEF SocketUp
    <2> QED
      BY <1>1, <1>3, <1>4, <2>1, WatchReport
  <1>7. CASE ConnectOk(i)
    <2>1. Report(i, "connected") /\ UNCHANGED <<sessions, statusOff, owner>>
      BY <1>7 DEF ConnectOk
    <2> QED
      BY <1>1, <1>3, <1>4, <2>1, WatchReport
  <1>8. CASE ConnectFail(i)
    <2>1. /\ Evict(owner[i])
          /\ machine' = [machine EXCEPT ![i] = Apply(machine[i], "failed")]
      BY <1>1, <1>8 DEF ConnectFail, TypeOK
    <2>2. \A q \in Projects \ {owner[i]} : sessions[q] # NoInst =>
              machine'[sessions[q]] = machine[sessions[q]]
      BY <1>1, <1>2, <2>1 DEF TypeOK
    <2> QED
      BY <1>1, <1>3, <2>1, <2>2, WatchEvict
  <1>9. CASE Drop(i)
    <2>1. Report(i, "disconnected") /\ UNCHANGED <<sessions, statusOff, owner>>
      BY <1>9 DEF Drop
    <2> QED
      BY <1>1, <1>3, <1>4, <2>1, WatchReport
  <1>10. CASE FlapDown(i) \/ FlapLost(i)
    <2>1. /\ Report(i, "reconnecting") \/ Report(i, "failed")
          /\ UNCHANGED <<sessions, statusOff, owner>>
      BY <1>10 DEF FlapDown, FlapLost, ChannelUnchanged
    <2> QED
      BY <1>1, <1>3, <1>4, <2>1, WatchReport
  <1>11. CASE FlapUp(i)
    <2>1. Enter(i, "connected") /\ UNCHANGED <<sessions, statusOff, owner>>
      BY <1>11 DEF FlapUp, ChannelUnchanged
    <2> QED
      BY <1>1, <1>3, <1>4, <2>1, WatchEnter
  <1>12. CASE WatchReply(i)
    <2> PICK p \in Projects : p = owner[i]
      BY <1>3
    <2>1. /\ UNCHANGED <<sessions, lastState, refused, machine>>
          /\ subscribing' = [subscribing EXCEPT ![i] = @ - 1]
          /\ conn[i] /\ closing[i] = "no"
      BY <1>12 DEF WatchReply, sessionVars
    <2>2. CASE sessions[p] = i
      <3>1. watchSubs' = [watchSubs EXCEPT ![p] = i]
        BY <1>12, <2>2 DEF WatchReply
      <3>2. machine[i] # "disconnected"
        BY <2>1 DEF OpenUnlessClosed
      <3>3. lastState[p] = machine[i]
        BY <1>1, <1>3, <2>2, NoInstAssumption DEF ProjectInv, RecordInv
      <3>4. WatchInv(p)'
        BY <1>1, <1>3, <2>1, <2>2, <3>1, <3>2, <3>3 DEF WatchInv, TypeOK
      <3>5. ASSUME NEW q \in Projects \ {p} PROVE WatchKept(q)
        <4>1. watchSubs'[q] = watchSubs[q]
          BY <1>1, <3>1 DEF TypeOK
        <4>2. sessions[q] # NoInst => subscribing'[sessions[q]] = subscribing[sessions[q]]
          BY <1>1, <1>2, <2>1 DEF TypeOK
        <4> QED
          BY <2>1, <4>1, <4>2 DEF WatchKept
      <3> QED
        BY <1>1, <3>4, <3>5, WatchFrame
    <2>3. CASE sessions[p] # i
      <3>1. watchSubs' = watchSubs
        BY <1>12, <2>3 DEF WatchReply
      <3>2. ASSUME NEW q \in Projects PROVE WatchKept(q)
        <4>1. sessions[q] # NoInst => sessions[q] \in Inst /\ sessions[q] # i
          BY <1>2, <1>3, <2>3
        <4>2. sessions[q] # NoInst => subscribing'[sessions[q]] = subscribing[sessions[q]]
          BY <1>1, <2>1, <4>1 DEF TypeOK
        <4> QED
          BY <2>1, <3>1, <4>2 DEF WatchKept
      <3> QED
        BY <1>1, <3>2, WatchFrame
    <2> QED
      BY <2>2, <2>3
  <1>13. CASE WatchFail(i)
    <2>1. /\ UNCHANGED <<sessions, lastState, watchSubs, machine>>
          /\ subscribing' = [subscribing EXCEPT ![i] = @ - 1]
          /\ refused' = [refused EXCEPT ![i] = TRUE]
      BY <1>13 DEF WatchFail, sessionVars, providerVars
    <2>2. ASSUME NEW q \in Projects PROVE WatchInv(q)'
      <3>1. CASE sessions[q] = i
        BY <1>1, <2>1, <3>1 DEF WatchInv, TypeOK
      <3>2. CASE sessions[q] # i
        <4>1. WatchKept(q)
          BY <1>1, <1>2, <2>1, <3>2 DEF WatchKept, TypeOK
        <4> QED
          BY <1>1, <4>1, WatchFrame
      <3> QED
        BY <3>1, <3>2
    <2> QED
      BY <2>2
  <1>14. CASE FinishDisconnect(i)
    <2> DEFINE known == [machine EXCEPT ![i] = Apply(machine[i], "disconnected")]
    <2>1. CASE rebuild[i]
      <3>1. ActivateWith(owner[i], known)
        BY <1>14, <2>1 DEF FinishDisconnect
      <3>2. sessions[owner[i]] # i
        BY <1>1, <2>1 DEF Auxiliary, RebuildsEvicted
      <3>3. Apply(machine[i], "disconnected") \in ConnStates
        <4>1. machine[i] \in ConnStates
          BY <1>1 DEF TypeOK
        <4> QED
          BY <1>4, <4>1, ApplyType
      <3>4. /\ known \in [Inst -> ConnStates]
            /\ \A j \in Inst \ {i} : known[j] = machine[j]
        BY <1>1, <3>3 DEF TypeOK
      <3> HIDE DEF known
      <3>5. \A q \in Projects : sessions[q] # NoInst =>
                known[sessions[q]] = machine[sessions[q]]
        BY <1>2, <3>2, <3>4
      <3> QED
        BY <1>1, <1>3, <3>1, <3>4, <3>5, WatchActivate
    <2>2. CASE ~rebuild[i] /\ IsLocal(i)
      <3>1. UNCHANGED <<sessions, machine, lastState, watchSubs, subscribing, refused>>
        BY <1>14, <2>2 DEF FinishDisconnect, Unreported, watchVars
      <3>2. ASSUME NEW q \in Projects PROVE WatchKept(q)
        BY <3>1 DEF WatchKept
      <3> QED
        BY <1>1, <3>2, WatchFrame
    <2>3. CASE ~rebuild[i] /\ ~IsLocal(i)
      <3>1. Report(i, "disconnected") /\ UNCHANGED <<sessions, statusOff, owner>>
        BY <1>14, <2>3 DEF FinishDisconnect
      <3> QED
        BY <1>1, <1>3, <1>4, <3>1, WatchReport
    <2> QED
      BY <2>1, <2>2, <2>3
  <1> QED
    BY <1>5, <1>6, <1>7, <1>8, <1>9, <1>10, <1>11, <1>12, <1>13, <1>14 DEF ProviderStep

\* So do the handlers.
LEMMA WatchHandlerStep ==
    ASSUME IInv, WatchFollowsStatus, NEW p \in Projects,
           Activate(p) \/ Disconnect(p) \/ Close(p) \/ Reconnect(p)
    PROVE  WatchFollowsStatus'
  <1>1. /\ TypeOK /\ Auxiliary /\ \A q \in Projects : ProjectInv(q)
        /\ \A q \in Projects : WatchInv(q)
    BY Regroup, WatchRegroup
  <1> SUFFICES \A q \in Projects : WatchInv(q)'
    BY WatchRegroup
  <1>2. CASE Activate(p)
    <2>1. machine \in [Inst -> ConnStates] /\ ActivateWith(p, machine)
      BY <1>1, <1>2 DEF Activate, TypeOK
    <2> QED
      BY <1>1, <2>1, WatchActivate
  <1>3. CASE Disconnect(p) \/ Close(p) \/ Reconnect(p)
    <2> DEFINE i == sessions[p]
    <2>1. i \in Inst /\ owner[i] = p /\ "disconnected" \in ConnStates
      BY <1>3, SessionLemma DEF Disconnect, Close, Reconnect, ConnStates
    <2>2. \A q \in Projects : sessions[q] # NoInst =>
              sessions[q] \in Inst /\ (q # p => sessions[q] # i)
      <3>1. \A q \in Projects : sessions[q] # NoInst =>
              sessions[q] \in Inst /\ (q # owner[i] => sessions[q] # i)
        <4> HIDE DEF i
        <4> QED
          BY <1>1, <2>1, OwnersDiffer
      <3> QED
        BY <2>1, <3>1
    <2>3. CASE Disconnect(p) /\ ClosesAtOnce(i)
      <3>1. Report(i, "disconnected") /\ UNCHANGED <<sessions, statusOff, owner>>
        BY <2>3 DEF Disconnect
      <3> HIDE DEF i
      <3> QED
        BY <1>1, <2>1, <3>1, WatchReport
    <2>4. CASE Disconnect(p) /\ ~ClosesAtOnce(i)
      <3>1. UNCHANGED <<sessions, machine, lastState, watchSubs, subscribing, refused>>
        BY <2>4 DEF Disconnect, Unreported, watchVars
      <3>2. ASSUME NEW q \in Projects PROVE WatchKept(q)
        BY <3>1 DEF WatchKept
      <3> QED
        BY <1>1, <3>2, WatchFrame
    <2>5. CASE Close(p) \/ (Reconnect(p) /\ ~ClosesAtOnce(i))
      <3>1. Evict(p)
        BY <2>5 DEF Close, Reconnect
      <3>2. \A q \in Projects \ {p} : sessions[q] # NoInst =>
                machine'[sessions[q]] = machine[sessions[q]]
        BY <1>1, <2>2, <2>5 DEF Close, SilentDisconnect, Reconnect, TypeOK
      <3> QED
        BY <1>1, <3>1, <3>2, WatchEvict
    <2>6. CASE Reconnect(p) /\ ClosesAtOnce(i)
      <3> DEFINE known == [machine EXCEPT ![i] = Apply(machine[i], "disconnected")]
      <3>1. PICK j \in Inst : OpenRemote(p, j, known)
        BY <2>6 DEF Reconnect
      <3>2. Apply(machine[i], "disconnected") \in ConnStates
        <4>1. machine[i] \in ConnStates
          BY <1>1, <2>1 DEF TypeOK
        <4> QED
          BY <2>1, <4>1, ApplyType
      <3>3. /\ known \in [Inst -> ConnStates]
            /\ \A k \in Inst \ {i} : known[k] = machine[k]
        BY <1>1, <2>1, <3>2 DEF TypeOK
      <3> HIDE DEF known
      <3>4. \A q \in Projects \ {p} : sessions[q] # NoInst =>
                known[sessions[q]] = machine[sessions[q]]
        BY <2>2, <3>3
      <3> QED
        BY <1>1, <3>1, <3>3, <3>4, WatchOpenRemote
    <2> QED
      BY <1>3, <2>3, <2>4, <2>5, <2>6
  <1> QED
    BY <1>2, <1>3

LEMMA WatchNext ==
    IInv /\ OpenUnlessClosed /\ WatchFollowsStatus /\ [Next]_vars => WatchFollowsStatus'
  <1> SUFFICES ASSUME IInv, OpenUnlessClosed, WatchFollowsStatus, [Next]_vars
               PROVE  WatchFollowsStatus'
    OBVIOUS
  <1>1. ASSUME NEW p \in Projects,
               Activate(p) \/ Disconnect(p) \/ Close(p) \/ Reconnect(p)
        PROVE  WatchFollowsStatus'
    BY <1>1, WatchHandlerStep
  <1>2. ASSUME NEW i \in Inst, ProviderStep(i) PROVE WatchFollowsStatus'
    BY <1>2, WatchProviderStep
  <1>3. CASE Restart
    BY <1>3 DEF Restart, WatchFollowsStatus, ConnectedIsWatched, DisconnectedIsUnwatched
  <1>4. CASE UNCHANGED <<sessionVars, watchVars, providerVars>>
    BY <1>4 DEF sessionVars, watchVars, providerVars, WatchFollowsStatus,
                ConnectedIsWatched, DisconnectedIsUnwatched
  <1>5. ASSUME NEW p \in Projects, NEW bound \in BOOLEAN, BrokerStep(p, bound)
        PROVE  UNCHANGED <<sessionVars, watchVars, providerVars>>
    BY <1>5 DEF BrokerStep
  <1> QED
    BY <1>1, <1>2, <1>3, <1>4, <1>5 DEF Next, vars

LEMMA WatchInit == Init => WatchFollowsStatus
  BY DEF Init, WatchFollowsStatus, ConnectedIsWatched, DisconnectedIsUnwatched

\* A connected session is watched, is being subscribed or was refused, and one
\* that is disconnected keeps no watch: handleStatus's edge gate and the check
\* after startWatch's await hold the feed and the status together through every
\* order of flaps, teardowns and late replies.
THEOREM WatchFollowsStatusAlways == Spec => []WatchFollowsStatus
  BY Invariance, OpenInit, OpenNext, WatchInit, WatchNext, PTL DEF Spec

-----------------------------------------------------------------------------
Selections == Trees \union {None}

-----------------------------------------------------------------------------
(* The coordinator of changesStore                                         *)

LEMMA StartRunSound ==
    ASSUME NEW c \in Slices, NEW t \in Selections, NEW n \in Nat, Shaped(c), c.wanted <= n
    PROVE  StartRun(c, t) \in Slices /\ Sound(StartRun(c, t), t, n)
  <1>1. CASE t = None
    <2> DEFINE d == [c EXCEPT !.shown = NoSet, !.loading = FALSE, !.pending = FALSE, !.run = NoRun]
    <2>1. StartRun(c, t) = d
      BY <1>1 DEF StartRun
    <2>2. d \in Slices
      BY DEF Slices, NoSet, NoRun, Runs, Targets
    <2>3. /\ d.shown = NoSet /\ ~d.loading /\ ~d.pending /\ d.run = NoRun /\ d.wanted = c.wanted
      BY DEF Slices
    <2> QED
      BY <1>1, <2>1, <2>2, <2>3
      DEF Sound, Shaped, RunsAnswerable, ShownCurrent, ReadsLate, NoRun, NoSet
  <1>2. CASE t # None
    <2>1. PICK r \in Runs :
              r = [tree |-> t, target |-> c.target, fresh |-> TRUE, read |-> 0,
                   at |-> IF c.target = "branch" THEN "branch" ELSE "asked"]
      BY DEF Slices, Runs, Targets, Selections
    <2>2. PICK s \in [tree : Selections, target : Targets, read : Nat] :
              s = IF c.shown.tree = t THEN c.shown ELSE NoSet
      BY DEF Slices, Targets, NoSet, Selections
    <2> DEFINE d == [c EXCEPT !.shown = s, !.loading = TRUE, !.pending = FALSE,
                              !.failed = FALSE, !.run = r]
    <2>3. StartRun(c, t) = d
      BY <1>2, <2>1, <2>2 DEF StartRun, Slices
    <2>4. d \in Slices
      BY DEF Slices, Selections
    <2>5. /\ d.shown = s /\ d.loading /\ ~d.pending /\ d.run = r /\ d.wanted = c.wanted
          /\ d.target = c.target
      BY DEF Slices
    <2>6. r.tree = t /\ r.target = c.target /\ r.fresh /\ r.at \in {"branch", "asked"}
      BY <2>1
    <2> QED
      BY <1>2, <2>2, <2>3, <2>4, <2>5, <2>6
      DEF Sound, Shaped, RunsAnswerable, ShownCurrent, ReadsLate, NoRun, IsCurrent
  <1> QED
    BY <1>1, <1>2

LEMMA ScheduleSound ==
    ASSUME SyncTypeOK, NEW c \in Slices, NEW t \in Selections, Shaped(c)
    PROVE  Schedule(c, t) \in Slices /\ Sound(Schedule(c, t), t, now)
  <1>1. PICK d \in Slices : d = [c EXCEPT !.wanted = now]
    BY DEF Slices, SyncTypeOK
  <1>2. /\ d.run = c.run /\ d.shown = c.shown /\ d.target = c.target /\ d.wanted = now
        /\ d.pending = c.pending /\ d.loading = c.loading /\ d.failed = c.failed
    BY <1>1 DEF Slices
  <1>3. Shaped(d) /\ now \in Nat
    BY <1>2 DEF Shaped, SyncTypeOK
  <1>4. CASE c.run = NoRun
    <2>1. Schedule(c, t) = StartRun(d, t)
      BY <1>1, <1>4 DEF Schedule
    <2>2. d.wanted <= now
      BY <1>2, <1>3
    <2> QED
      BY <1>3, <2>1, <2>2, StartRunSound
  <1>5. CASE c.run # NoRun
    <2>1. PICK r \in Runs : r = Stale(c.run)
      BY DEF Slices, Runs, Stale
    <2>2. r.tree = c.run.tree /\ r.at = c.run.at
      BY <2>1 DEF Stale, Slices, Runs
    <2>3. r # NoRun /\ r.at # "none"
      BY <1>5, <2>2 DEF Shaped, NoRun
    <2> DEFINE e == [d EXCEPT !.pending = TRUE, !.run = r]
    <2>4. Schedule(c, t) = e
      BY <1>1, <1>2, <1>5, <2>1 DEF Schedule, Slices
    <2>5. e \in Slices
      BY DEF Slices
    <2>6. e.run = r /\ e.shown = d.shown /\ e.target = d.target /\ e.wanted = now /\ e.pending
      BY <1>2 DEF Slices
    <2>7. Shaped(e)
      BY <1>2, <1>3, <1>5, <2>2, <2>3, <2>6 DEF Shaped
    <2> QED
      BY <1>3, <2>3, <2>4, <2>5, <2>6, <2>7
      DEF Sound, RunsAnswerable, ShownCurrent, ReadsLate
  <1> QED
    BY <1>4, <1>5

LEMMA RefreshedSound ==
    ASSUME SyncTypeOK, Sound(changes, active, now), NEW t \in Selections
    PROVE  Refreshed(changes, t) \in Slices /\ Sound(Refreshed(changes, t), t, now)
  <1>1. changes \in Slices /\ Shaped(changes)
    BY DEF SyncTypeOK, Sound
  <1> QED
    BY <1>1, ScheduleSound DEF Refreshed

LEMMA ClearedSound ==
    ASSUME NEW c \in Slices, NEW n \in Nat, Shaped(c), c.wanted <= n
    PROVE  Cleared(c) \in Slices /\ Sound(Cleared(c), None, n)
  <1>1. PICK r \in Runs : r = Stale(c.run)
    BY DEF Slices, Runs, Stale
  <1>2. r.tree = c.run.tree /\ r.at = c.run.at
    BY <1>1 DEF Stale, Slices, Runs
  <1>3. c.run = NoRun => r = NoRun
    <2> SUFFICES ASSUME c.run = NoRun
                 PROVE  r = NoRun
      OBVIOUS
    <2>1. /\ r.tree = None /\ r.target = "head" /\ r.fresh = FALSE
          /\ r.at = "none" /\ r.read = 0
      BY <1>1 DEF Stale, NoRun
    <2> QED
      BY <2>1 DEF Runs, NoRun
  <1>4. PICK d \in Slices : d = Cleared(c)
    BY <1>1 DEF Cleared, EmptySlice, Slices, NoSet, NoRun, Targets
  <1>5. d.run = r /\ d.shown = NoSet /\ d.wanted = c.wanted /\ ~d.loading /\ ~d.pending
    BY <1>1, <1>4 DEF Cleared, EmptySlice
  <1>6. r.at = "none" => r = NoRun
    BY <1>2, <1>3 DEF Shaped
  <1>7. r # NoRun => r.tree # None
    BY <1>2, <1>3 DEF Shaped
  <1> QED
    BY <1>4, <1>5, <1>6, <1>7 DEF Sound, Shaped, RunsAnswerable, ShownCurrent, ReadsLate, NoSet

(* drainRefreshes: a request during the run is served by another run, else *)
(* what the run has left stays.                                            *)
LEMMA FinishEnds ==
    ASSUME NEW c \in Slices, NEW t \in Selections, NEW n \in Nat,
           Shaped(c), c.wanted <= n,
           ~c.pending /\ c.loading => IsCurrent(c, t),
           ~c.pending => ShownCurrent(c, t)
    PROVE  /\ Finish(c, t) \in Slices
           /\ Shaped(Finish(c, t))
           /\ RunsAnswerable(Finish(c, t), t)
           /\ ShownCurrent(Finish(c, t), t)
           /\ Finish(c, t).wanted = c.wanted
           /\ Finish(c, t).run.at # "read"
           /\ Finish(c, t).run = NoRun /\ t # None =>
                  ~c.pending /\ Finish(c, t).shown = c.shown /\ Finish(c, t).failed = c.failed
  <1>1. CASE c.pending
    <2>1. Finish(c, t) = StartRun(c, t)
      BY <1>1 DEF Finish
    <2>2. StartRun(c, t) \in Slices /\ Sound(StartRun(c, t), t, n)
      BY StartRunSound
    <2>3. StartRun(c, t).wanted = c.wanted
      BY DEF StartRun, Slices
    <2>4. StartRun(c, t).run.at \in {"none", "branch", "asked"}
      BY DEF StartRun, Slices, NoRun
    <2>5. t # None => StartRun(c, t).run.at # "none"
      BY DEF StartRun, Slices
    <2> QED
      BY <2>1, <2>2, <2>3, <2>4, <2>5 DEF Sound, NoRun
  <1>2. CASE ~c.pending
    <2>1. PICK b \in BOOLEAN : b = IF IsCurrent(c, t) THEN FALSE ELSE c.loading
      BY DEF Slices
    <2>2. b = FALSE
      BY <1>2, <2>1 DEF Slices
    <2> DEFINE d == [c EXCEPT !.run = NoRun, !.loading = FALSE]
    <2>3. Finish(c, t) = d
      BY <1>2, <2>1, <2>2 DEF Finish, Slices
    <2>4. d \in Slices
      BY DEF Slices, Runs, NoRun, Targets
    <2>5. /\ d.run = NoRun /\ d.shown = c.shown /\ d.target = c.target /\ d.wanted = c.wanted
          /\ ~d.loading /\ d.pending = c.pending /\ d.failed = c.failed
      BY DEF Slices
    <2> HIDE DEF d
    <2>6. Shaped(d) /\ RunsAnswerable(d, t) /\ ShownCurrent(d, t)
      BY <1>2, <2>5 DEF Shaped, RunsAnswerable, ShownCurrent
    <2> QED
      BY <1>2, <2>3, <2>4, <2>5, <2>6 DEF NoRun
  <1> QED
    BY <1>1, <1>2 DEF Slices

-----------------------------------------------------------------------------
(* The panel, step by step                                                 *)

PanelOK(c, t, n) == c \in Slices /\ t \in Selections /\ n \in Nat /\ Sound(c, t, n)

LEMMA PanelInvParts ==
    ASSUME PanelInv
    PROVE  PanelOK(changes, active, now) /\ Shaped(changes) /\ changes.wanted <= now
  BY DEF PanelInv, PanelOK, SyncTypeOK, Selections, Sound, ReadsLate

LEMMA ClearProjectSound ==
    ASSUME PanelInv, ClearProject
    PROVE  PanelOK(changes', active', now)
  <1>1. CASE believes
    <2>1. PICK c \in Slices : c = Refreshed(changes, None) /\ Sound(c, None, now)
      BY RefreshedSound DEF PanelInv, Selections
    <2>2. Shaped(c) /\ c.wanted <= now /\ now \in Nat
      BY <2>1 DEF Sound, ReadsLate, PanelInv, SyncTypeOK
    <2>3. active' = None /\ changes' = Cleared(c)
      BY <1>1, <2>1 DEF ClearProject
    <2> QED
      BY <2>1, <2>2, <2>3, ClearedSound DEF PanelOK, Selections
  <1>2. CASE ~believes
    BY <1>2, PanelInvParts DEF ClearProject
  <1> QED
    BY <1>1, <1>2

LEMMA SelectSound ==
    ASSUME PanelInv, NEW t \in Trees, Select(t)
    PROVE  PanelOK(changes, active, now)'
  BY RefreshedSound DEF PanelInv, PanelOK, Select, Selections, SyncTypeOK

LEMMA SetTargetSound ==
    ASSUME PanelInv, SetTarget
    PROVE  PanelOK(changes, active, now)'
  <1>1. changes \in Slices /\ Shaped(changes)
    BY PanelInvParts DEF PanelOK
  <1>2. PICK o \in Targets : o = IF changes.target = "head" THEN "branch" ELSE "head"
    BY DEF Targets
  <1>3. PICK c \in Slices : c = [changes EXCEPT !.target = o, !.shown = NoSet]
    BY <1>1 DEF Slices, NoSet, Targets
  <1>4. c.run = changes.run /\ c.shown = NoSet
    BY <1>1, <1>3 DEF Slices
  <1>5. Shaped(c)
    BY <1>1, <1>4 DEF Shaped
  <1>6. changes' = Schedule(c, active) /\ active' = active /\ now' = now
    BY <1>2, <1>3 DEF SetTarget
  <1> QED
    BY <1>5, <1>6, ScheduleSound DEF PanelInv, PanelOK, Selections, SyncTypeOK

LEMMA WatchEventSound ==
    ASSUME PanelInv, WatchEvent
    PROVE  PanelOK(changes, active, now)'
  <1>1. CASE changes' = changes
    BY <1>1, PanelInvParts DEF WatchEvent
  <1>2. CASE changes' = Schedule(changes, active)
    BY <1>2, PanelInvParts, ScheduleSound DEF WatchEvent, PanelInv, PanelOK
  <1> QED
    BY <1>1, <1>2 DEF WatchEvent

LEMMA ListReplySound ==
    ASSUME PanelInv, NEW l \in lists, NEW t \in Selections, ListReply(l, t)
    PROVE  PanelOK(changes, active, now)'
  <1>1. PICK c \in Slices : c = Refreshed(changes, t) /\ Sound(c, t, now)
    BY RefreshedSound DEF PanelInv
  <1>2. active' = t /\ now' = now /\ now \in Nat /\ SyncTypeOK
    BY DEF ListReply, PanelInv, SyncTypeOK
  <1>3. CASE l.then
    <2>1. changes' = Schedule(c, t)
      BY <1>1, <1>3 DEF ListReply
    <2> QED
      BY <1>1, <1>2, <2>1, ScheduleSound DEF PanelOK, Sound
  <1>4. CASE ~l.then
    BY <1>1, <1>2, <1>4 DEF ListReply, PanelOK
  <1> QED
    BY <1>3, <1>4

LEMMA BranchPointReplySound ==
    ASSUME PanelInv, BranchPointReply
    PROVE  PanelOK(changes, active, now)'
  <1>1. /\ changes \in Slices /\ active \in Selections /\ now \in Nat
        /\ Sound(changes, active, now) /\ Shaped(changes) /\ changes.wanted <= now
        /\ active' = active /\ now' = now /\ changes.run.at = "branch"
    BY PanelInvParts DEF PanelOK, BranchPointReply
  <1>2. changes.run # NoRun
    BY <1>1 DEF NoRun
  <1>3. CASE IsCurrent(changes, active)
    <2>1. PICK r \in Runs : r = [changes.run EXCEPT !.at = "asked"]
      BY <1>1 DEF Slices, Runs
    <2>2. /\ r.at = "asked" /\ r.tree = changes.run.tree /\ r.target = changes.run.target
          /\ r.fresh = changes.run.fresh
      BY <1>1, <2>1 DEF Slices, Runs
    <2>3. PICK c \in Slices : c = [changes EXCEPT !.run = r]
      BY <1>1 DEF Slices
    <2>4. /\ c.run = r /\ c.shown = changes.shown /\ c.target = changes.target
          /\ c.wanted = changes.wanted /\ c.pending = changes.pending
          /\ c.loading = changes.loading
      BY <1>1, <2>3 DEF Slices
    <2>5. r # NoRun
      BY <2>2 DEF NoRun
    <2>6. changes' = c
      BY <1>1, <1>3, <2>1, <2>3 DEF BranchPointReply, Slices
    <2>7. Shaped(c) /\ IsCurrent(c, active)
      BY <1>1, <1>2, <1>3, <2>2, <2>4, <2>5 DEF Shaped, IsCurrent
    <2>8. RunsAnswerable(c, active) /\ ShownCurrent(c, active)
      BY <1>1, <2>4, <2>5, <2>7 DEF Sound, RunsAnswerable, ShownCurrent
    <2>9. ReadsLate(c, active, now)
      BY <1>1, <2>2, <2>4, <2>5 DEF Sound, ReadsLate
    <2> QED
      BY <1>1, <2>6, <2>7, <2>8, <2>9 DEF PanelOK, Sound
  <1>4. CASE ~IsCurrent(changes, active)
    <2>1. changes' = Finish(changes, active)
      BY <1>4 DEF BranchPointReply
    <2>2. /\ ~changes.pending => ShownCurrent(changes, active)
          /\ ~changes.pending => ~changes.loading /\ active = None
      BY <1>1, <1>2, <1>4 DEF Sound, RunsAnswerable
    <2> QED
      BY <1>1, <1>2, <2>1, <2>2, FinishEnds DEF PanelOK, Sound, ReadsLate
  <1> QED
    BY <1>3, <1>4

LEMMA ReadChangesetSound ==
    ASSUME PanelInv, ReadChangeset
    PROVE  PanelOK(changes, active, now)'
  <1>1. /\ changes \in Slices /\ active \in Selections /\ now \in Nat
        /\ Sound(changes, active, now) /\ Shaped(changes) /\ changes.wanted <= now
        /\ active' = active /\ now' = now /\ changes.run.at = "asked"
    BY PanelInvParts DEF PanelOK, ReadChangeset
  <1>2. changes.run # NoRun
    BY <1>1 DEF NoRun
  <1>3. PICK r \in Runs : r = [changes.run EXCEPT !.at = "read", !.read = now]
    BY <1>1 DEF Slices, Runs
  <1>4. /\ r.at = "read" /\ r.tree = changes.run.tree /\ r.target = changes.run.target
        /\ r.fresh = changes.run.fresh /\ r.read = now
    BY <1>1, <1>3 DEF Slices, Runs
  <1>5. PICK c \in Slices : c = [changes EXCEPT !.run = r]
    BY <1>1 DEF Slices
  <1>6. /\ c.run = r /\ c.shown = changes.shown /\ c.target = changes.target
        /\ c.wanted = changes.wanted /\ c.pending = changes.pending
        /\ c.loading = changes.loading
    BY <1>1, <1>5 DEF Slices
  <1>7. r # NoRun
    BY <1>4 DEF NoRun
  <1>8. changes' = c
    BY <1>1, <1>3, <1>5 DEF ReadChangeset, Slices
  <1>9. Shaped(c) /\ (IsCurrent(changes, active) => IsCurrent(c, active))
    BY <1>1, <1>2, <1>4, <1>6, <1>7 DEF Shaped, IsCurrent
  <1>10. RunsAnswerable(c, active) /\ ShownCurrent(c, active)
    BY <1>1, <1>2, <1>6, <1>7, <1>9 DEF Sound, RunsAnswerable, ShownCurrent
  <1>11. ReadsLate(c, active, now)
    BY <1>1, <1>4, <1>6, <1>7 DEF ReadsLate
  <1> QED
    BY <1>1, <1>8, <1>9, <1>10, <1>11 DEF PanelOK, Sound

LEMMA ChangesetReplySound ==
    ASSUME PanelInv, ChangesetReply
    PROVE  PanelOK(changes, active, now)'
  <1>1. /\ changes \in Slices /\ active \in Selections /\ now \in Nat
        /\ Sound(changes, active, now) /\ Shaped(changes) /\ changes.wanted <= now
        /\ active' = active /\ now' = now /\ changes.run.at = "read"
    BY PanelInvParts DEF PanelOK, ChangesetReply
  <1>2. changes.run # NoRun
    BY <1>1 DEF NoRun
  <1>3. CASE IsCurrent(changes, active)
    <2>1. PICK s \in [tree : Selections, target : Targets, read : Nat] :
              s = [tree |-> changes.run.tree, target |-> changes.run.target,
                   read |-> changes.run.read]
      BY <1>1 DEF Slices, Runs, Selections
    <2>2. s.tree = active /\ s.target = changes.target /\ s.read = changes.run.read
      BY <1>3, <2>1 DEF IsCurrent
    <2>3. active # None
      BY <1>1, <1>2, <1>3 DEF Shaped, IsCurrent
    <2>4. PICK c \in Slices : c = [changes EXCEPT !.shown = s]
      BY <1>1 DEF Slices, Selections
    <2>5. /\ c.run = changes.run /\ c.shown = s /\ c.target = changes.target
          /\ c.wanted = changes.wanted /\ c.pending = changes.pending
          /\ c.loading = changes.loading
      BY <1>1, <2>4 DEF Slices
    <2>6. changes' = Finish(c, active)
      BY <1>3, <2>1, <2>4 DEF ChangesetReply, Patched
    <2>7. Shaped(c) /\ IsCurrent(c, active) /\ ShownCurrent(c, active) /\ s # NoSet
      BY <1>1, <1>3, <2>2, <2>3, <2>5 DEF Shaped, IsCurrent, ShownCurrent, NoSet
    <2>8. /\ changes' \in Slices /\ Shaped(changes')
          /\ RunsAnswerable(changes', active) /\ ShownCurrent(changes', active)
          /\ changes'.wanted = c.wanted /\ changes'.run.at # "read"
          /\ changes'.run = NoRun /\ active # None => ~c.pending /\ changes'.shown = s
      BY <1>1, <2>5, <2>6, <2>7, FinishEnds
    <2>9. ~c.pending => s.read >= c.wanted
      BY <1>1, <2>2, <2>3, <2>5 DEF Sound, ReadsLate
    <2> QED
      BY <1>1, <2>5, <2>7, <2>8, <2>9 DEF PanelOK, Sound, ReadsLate
  <1>4. CASE ~IsCurrent(changes, active)
    <2>1. changes' = Finish(changes, active)
      BY <1>4 DEF ChangesetReply
    <2>2. /\ ~changes.pending => ShownCurrent(changes, active)
          /\ ~changes.pending => ~changes.loading /\ active = None
      BY <1>1, <1>2, <1>4 DEF Sound, RunsAnswerable
    <2> QED
      BY <1>1, <1>2, <2>1, <2>2, FinishEnds DEF PanelOK, Sound, ReadsLate
  <1> QED
    BY <1>3, <1>4

LEMMA ReadFailsSound ==
    ASSUME PanelInv, ReadFails
    PROVE  PanelOK(changes, active, now)'
  <1>1. /\ changes \in Slices /\ active \in Selections /\ now \in Nat
        /\ Sound(changes, active, now) /\ Shaped(changes) /\ changes.wanted <= now
        /\ active' = active /\ now' = now /\ changes.run # NoRun
    BY PanelInvParts DEF PanelOK, ReadFails
  <1>2. /\ ~changes.pending => ShownCurrent(changes, active)
        /\ ~changes.pending /\ changes.loading => IsCurrent(changes, active)
    BY <1>1 DEF Sound, RunsAnswerable
  <1>3. PICK c \in Slices :
            /\ c = Finish(changes, active)
            /\ Shaped(c) /\ RunsAnswerable(c, active) /\ ShownCurrent(c, active)
            /\ c.wanted = changes.wanted /\ c.run.at # "read"
    BY <1>1, <1>2, FinishEnds
  <1>4. PICK f \in BOOLEAN : f = (c.run = NoRun)
    OBVIOUS
  <1>5. PICK d \in Slices : d = [c EXCEPT !.failed = f]
    BY DEF Slices
  <1>6. /\ d.run = c.run /\ d.shown = c.shown /\ d.target = c.target
        /\ d.wanted = c.wanted /\ d.pending = c.pending
        /\ d.loading = c.loading /\ d.failed = f
    BY <1>5 DEF Slices
  <1>7. changes' = d
    BY <1>3, <1>4, <1>5 DEF ReadFails
  <1>8. Shaped(d) /\ ShownCurrent(d, active)
    BY <1>3, <1>6 DEF Shaped, ShownCurrent
  <1>9. RunsAnswerable(d, active)
    BY <1>3, <1>6 DEF RunsAnswerable, IsCurrent
  <1>10. ReadsLate(d, active, now)
    BY <1>1, <1>3, <1>4, <1>6 DEF ReadsLate
  <1> QED
    BY <1>1, <1>7, <1>8, <1>9, <1>10 DEF PanelOK, Sound

LEMMA EditSound ==
    ASSUME PanelInv, Edit
    PROVE  PanelOK(changes, active, now)'
  <1>1. changes' = changes /\ active' = active /\ now' = now + 1
    BY DEF Edit, rendererVars
  <1>2. changes.wanted \in Nat
    BY PanelInvParts DEF PanelOK, Slices
  <1>3. changes.wanted <= now + 1
    BY <1>2, PanelInvParts DEF PanelOK
  <1> QED
    BY <1>1, <1>3, PanelInvParts DEF PanelOK, Sound, ReadsLate

(* Every step leaves the panel sound. *)
LEMMA SliceStep ==
    ASSUME PanelInv, [SyncNext]_syncVars
    PROVE  PanelOK(changes, active, now)'
  <1>1. ASSUME NEW t \in Trees, Select(t)
        PROVE  PanelOK(changes, active, now)'
    BY <1>1, SelectSound
  <1>2. ASSUME NEW l \in lists, NEW t \in Trees \union {None}, ListReply(l, t)
        PROVE  PanelOK(changes, active, now)'
    BY <1>2, ListReplySound DEF Selections
  <1>3. CASE \/ \E c \in calls : TornDown(c) \/ Subscribed(c) \/ SubscribeFails(c)
             \/ SetActiveWorktree \/ StopsWorktree \/ Connected \/ PrimaryReady \/ UNCHANGED syncVars
    <2>1. UNCHANGED <<changes, active, now>>
      BY <1>3 DEF TornDown, Subscribed, SubscribeFails, SetActiveWorktree, StopsWorktree,
                  Connected, PrimaryReady, syncVars, rendererVars
    <2> QED
      BY <2>1, PanelInvParts DEF PanelOK
  <1>4. CASE Open \/ SessionDrops \/ SessionEvicted
    <2>1. now' = now /\ (ClearProject \/ UNCHANGED <<active, changes>>)
      BY <1>4 DEF Open, SessionDrops, SessionEvicted
    <2> QED
      BY <2>1, PanelInvParts, ClearProjectSound DEF PanelOK
  <1> QED
    BY <1>1, <1>2, <1>3, <1>4, SetTargetSound, WatchEventSound, EditSound, BranchPointReplySound,
       ReadChangesetSound, ChangesetReplySound, ReadFailsSound DEF SyncNext

-----------------------------------------------------------------------------
(* Types                                                                   *)

RestOK ==
    /\ lists \subseteq [session : Nat, then : BOOLEAN]
    /\ toMain \in Seq(Selections)
    /\ phase \in {"none", "opening", "up", "lost"} /\ calls \subseteq Calls
    /\ believes \in BOOLEAN /\ primary \in BOOLEAN /\ extraRefused \in BOOLEAN
    /\ entry \in [path : Selections, session : Nat]
    /\ session \in Nat /\ seq \in Nat /\ stops \in Nat
    /\ opened \in Nat /\ steps \in Nat /\ served \in Nat

LEMMA TypeParts == SyncTypeOK <=> /\ changes \in Slices /\ active \in Selections /\ now \in Nat
                              /\ RestOK
  BY DEF SyncTypeOK, RestOK, Selections

LEMMA TypeParts_prime ==
    SyncTypeOK' <=> /\ changes' \in Slices /\ active' \in Selections /\ now' \in Nat
                /\ RestOK'
  BY DEF SyncTypeOK, RestOK, Selections

LEMMA RestStep ==
    ASSUME SyncTypeOK, [SyncNext]_syncVars
    PROVE  RestOK'
  <1>0. active \in Selections /\ None \in Selections /\ Trees \subseteq Selections /\ RestOK
    BY TypeParts DEF Selections
  <1> DEFINE Lists == [session : Nat, then : BOOLEAN]
             Entries == [path : Selections, session : Nat]
  <1>a. /\ NoEntry \in Entries
        /\ [session |-> session, then |-> TRUE] \in Lists
        /\ [session |-> session, then |-> FALSE] \in Lists
    BY <1>0 DEF NoEntry, RestOK
  <1>f. stops + 1 \in Nat
    BY <1>0 DEF RestOK
  <1>b. \A c \in calls : [c EXCEPT !.at = "subscribe", !.session = session] \in Calls
    BY <1>0 DEF RestOK, Calls
  <1>c. Append(toMain, None) \in Seq(Selections)
        /\ \A t \in Selections : Append(toMain, t) \in Seq(Selections)
    BY <1>0 DEF RestOK
  <1> HIDE DEF Lists, Entries
  <1>d. RestOK <=> /\ lists \subseteq Lists /\ toMain \in Seq(Selections)
                   /\ phase \in {"none", "opening", "up", "lost"} /\ calls \subseteq Calls
                   /\ believes \in BOOLEAN /\ primary \in BOOLEAN /\ extraRefused \in BOOLEAN
                   /\ entry \in Entries
                   /\ session \in Nat /\ seq \in Nat /\ stops \in Nat
                   /\ opened \in Nat /\ steps \in Nat /\ served \in Nat
    BY DEF RestOK, Lists, Entries
  <1>e. RestOK' <=> /\ lists' \subseteq Lists /\ toMain' \in Seq(Selections)
                    /\ phase' \in {"none", "opening", "up", "lost"} /\ calls' \subseteq Calls
                    /\ believes' \in BOOLEAN /\ primary' \in BOOLEAN /\ extraRefused' \in BOOLEAN
                    /\ entry' \in Entries
                    /\ session' \in Nat /\ seq' \in Nat /\ stops' \in Nat
                    /\ opened' \in Nat /\ steps' \in Nat /\ served' \in Nat
    BY DEF RestOK, Lists, Entries
  <1> USE <1>0, <1>a, <1>d, <1>e
  <1>1. ASSUME NEW t \in Trees, Select(t)
        PROVE  RestOK'
    BY <1>1, <1>c DEF Select, Step, Tell, extraVars, openVars
  <1>2. CASE SetTarget
    BY <1>2 DEF SetTarget, Step, extraVars, openVars
  <1>3. CASE WatchEvent
    <2>1. steps' \in Nat
      BY <1>3 DEF WatchEvent, Step
    <2>2. lists' \subseteq Lists
      BY <1>3 DEF WatchEvent
    <2>3. /\ UNCHANGED <<toMain, phase, calls, believes, primary, extraRefused, entry>>
          /\ UNCHANGED <<session, seq, stops, opened, served>>
      BY <1>3 DEF WatchEvent, extraVars, openVars
    <2> QED
      BY <2>1, <2>2, <2>3
  <1>4. ASSUME NEW l \in lists, NEW t \in Selections, ListReply(l, t)
        PROVE  RestOK'
    BY <1>4, <1>c DEF ListReply, Tell, extraVars, openVars
  <1>5. CASE BranchPointReply \/ ReadChangeset \/ ChangesetReply \/ ReadFails \/ Edit
             \/ UNCHANGED syncVars
    BY <1>5 DEF BranchPointReply, ReadChangeset, ChangesetReply, ReadFails, Edit, extraVars,
                openVars, rendererVars, syncVars
  <1>6. CASE SetActiveWorktree
    <2>1. PICK t \in Selections : t = Head(toMain)
      BY <1>6 DEF SetActiveWorktree
    <2>2. Tail(toMain) \in Seq(Selections)
      BY <1>6 DEF SetActiveWorktree
    <2> DEFINE c == [n |-> served + 1, target |-> t, seq |-> seq + 1, at |-> "teardown",
                     session |-> 0]
    <2>6. served + 1 \in Nat /\ seq + 1 \in Nat /\ session \in Nat
      BY <1>0, <1>d
    <2>7. c \in Calls
      BY <2>6 DEF Calls, Selections
    <2> HIDE DEF c
    <2>8. [c EXCEPT !.at = "subscribe", !.session = session] \in Calls
      BY <2>6, <2>7 DEF Calls
    <2>3. /\ served + 1 \in Nat /\ seq + 1 \in Nat /\ c \in Calls
          /\ [c EXCEPT !.at = "subscribe", !.session = session] \in Calls
      BY <2>6, <2>7, <2>8
    <2>4. calls' \subseteq Calls
      BY <1>6, <2>1, <2>3 DEF SetActiveWorktree, Subscribe, extraVars, c
    <2> QED
      BY <1>6, <2>1, <2>2, <2>3, <2>4
      DEF SetActiveWorktree, extraVars, openVars, rendererVars
  <1>7. ASSUME NEW c \in calls, TornDown(c)
        PROVE  RestOK'
    <2>2. calls' \subseteq Calls
      BY <1>7, <1>b DEF TornDown, Subscribe
    <2> QED
      BY <1>7, <2>2 DEF TornDown, openVars, rendererVars
  <1>8. ASSUME NEW c \in calls, Subscribed(c)
        PROVE  RestOK'
    <2>1. [path |-> c.target, session |-> session] \in Entries
      BY DEF Calls, Entries, Selections
    <2> QED
      BY <1>8, <2>1 DEF Subscribed, openVars, rendererVars
  <1>9. ASSUME NEW c \in calls, SubscribeFails(c)
        PROVE  RestOK'
    BY <1>9 DEF SubscribeFails, openVars, rendererVars
  <1>10. CASE StopsWorktree
    BY <1>10 DEF StopsWorktree, openVars, rendererVars
  <1>11. ASSUME ClearProject
         PROVE  believes' \in BOOLEAN /\ toMain' \in Seq(Selections)
    BY <1>11, <1>c DEF ClearProject, Tell
  <1>12. CASE Open
    BY <1>11, <1>12 DEF Open
  <1>13. CASE Connected
    BY <1>13 DEF Connected, extraVars
  <1>14. CASE PrimaryReady
    BY <1>14 DEF PrimaryReady, extraVars, rendererVars
  <1>15. ASSUME StopPrimary
         PROVE  /\ primary' \in BOOLEAN /\ stops' \in Nat
                /\ entry' \in Entries
    <2>0. stops \in Nat /\ entry \in Entries
      OBVIOUS
    <2>1. CASE primary
      <3>1. primary' = FALSE /\ stops' = stops + 1 /\ entry' = entry
        BY <1>15, <2>1 DEF StopPrimary
      <3> QED
        BY <1>f, <2>0, <3>1
    <2>2. CASE ~primary
      BY <1>15, <2>2 DEF StopPrimary
    <2> QED
      BY <2>1, <2>2
  <1>16. CASE SessionDrops
    BY <1>11, <1>15, <1>16 DEF SessionDrops
  <1>17. CASE SessionEvicted
    BY <1>11, <1>15, <1>17 DEF SessionEvicted
  <1> QED
    BY <1>1, <1>2, <1>3, <1>4, <1>5, <1>6, <1>7, <1>8, <1>9, <1>10, <1>12, <1>13, <1>14,
       <1>16, <1>17 DEF SyncNext

LEMMA PanelStep ==
    ASSUME PanelInv, [SyncNext]_syncVars
    PROVE  PanelInv'
  <1>1. SyncTypeOK'
    BY SliceStep, RestStep, TypeParts_prime DEF PanelInv, PanelOK
  <1> QED
    BY <1>1, SliceStep DEF PanelInv, PanelOK

LEMMA PanelInit == SyncInit => PanelInv
  <1> SUFFICES ASSUME SyncInit
               PROVE  PanelInv
    OBVIOUS
  <1>1. EmptySlice \in Slices
    BY DEF EmptySlice, Slices, NoSet, NoRun, Runs, Targets
  <1>2. NoEntry \in [path : Trees \union {None}, session : Nat]
    BY DEF NoEntry
  <1>4. SyncTypeOK
    <2>1. /\ toMain \in Seq(Trees \union {None}) /\ lists \subseteq [session : Nat, then : BOOLEAN]
          /\ calls \subseteq Calls
      BY DEF SyncInit
    <2>2. active \in Trees \union {None} /\ changes \in Slices
          /\ entry \in [path : Trees \union {None}, session : Nat]
      BY <1>1, <1>2 DEF SyncInit
    <2>3. /\ phase \in {"none", "opening", "up", "lost"}
          /\ believes \in BOOLEAN /\ primary \in BOOLEAN /\ extraRefused \in BOOLEAN
          /\ session \in Nat /\ seq \in Nat /\ stops \in Nat /\ now \in Nat
          /\ opened \in Nat /\ steps \in Nat /\ served \in Nat
      BY DEF SyncInit
    <2> QED
      BY <2>1, <2>2, <2>3 DEF SyncTypeOK
  <1>3. Sound(EmptySlice, None, 1)
    BY DEF EmptySlice, NoRun, NoSet, Sound, Shaped, RunsAnswerable, ShownCurrent, ReadsLate
  <1> QED
    BY <1>3, <1>4 DEF SyncInit, PanelInv

-----------------------------------------------------------------------------
(* PanelInv is invariant (isCurrentRun, scheduleRefresh, drainRefreshes and *)
(* clearForDisconnect of changesStore keep every slice sound).             *)
THEOREM PanelInvariance == SyncSpec => []PanelInv
  BY PanelInit, PanelStep, PTL DEF SyncSpec

(* The panel at rest shows the changeset of the selected worktree against   *)
(* the selected target, and the spinner turns only during a run.           *)
THEOREM PanelCoherentAlways == SyncSpec => []PanelCoherent
  <1>1. PanelInv => PanelCoherent
    BY DEF PanelInv, PanelCoherent, Sound, Shaped, RunsAnswerable, ShownCurrent
  <1> QED
    BY <1>1, PanelInvariance, PTL

(* No request for a refresh is lost in the coalescing of runs.             *)
THEOREM RefreshReflectedAlways == SyncSpec => []RefreshReflected
  <1>1. PanelInv => RefreshReflected
    BY DEF PanelInv, RefreshReflected, Sound, ReadsLate
  <1> QED
    BY <1>1, PanelInvariance, PTL

-----------------------------------------------------------------------------
(* The watch, step by step                                                 *)

LEMMA LastOfAppend ==
    ASSUME NEW s \in Seq(Selections), NEW t \in Selections
    PROVE  /\ Append(s, t) # << >>
           /\ Append(s, t)[Len(Append(s, t))] = t
  OBVIOUS

LEMMA LastOfTail ==
    ASSUME NEW s \in Seq(Selections), s # << >>, Tail(s) # << >>
    PROVE  Tail(s)[Len(Tail(s))] = s[Len(s)]
  <1>1. Len(Tail(s)) = Len(s) - 1 /\ Len(s) \in Nat /\ Tail(s) \in Seq(Selections)
    OBVIOUS
  <1>2. Len(Tail(s)) > 0
    BY <1>1
  <1> QED
    BY <1>1, <1>2

LEMMA LastOfOne ==
    ASSUME NEW s \in Seq(Selections), s # << >>, Len(Tail(s)) = 0
    PROVE  Head(s) = s[Len(s)]
  <1>1. Len(Tail(s)) = Len(s) - 1 /\ Len(s) \in Nat
    OBVIOUS
  <1>2. Len(s) = 1
    BY <1>1
  <1> QED
    BY <1>2

(* What is said last is the selection, however it comes about. *)
LEMMA TellLast ==
    ASSUME SyncTypeOK, ToldLast, NEW t \in Selections, active' = t, Tell(t)
    PROVE  /\ toMain' # << >> => toMain'[Len(toMain')] = active'
           /\ toMain' = << >> => toMain = << >> /\ active' = active
  <1>1. toMain \in Seq(Selections)
    BY DEF SyncTypeOK, Selections
  <1> QED
    BY <1>1, LastOfAppend DEF ToldLast, Tell

LEMMA ClearProjectTells ==
    ASSUME SyncTypeOK, ToldLast, ClearProject
    PROVE  /\ toMain' # << >> => toMain'[Len(toMain')] = active'
           /\ active' = None /\ believes' = FALSE
  <1>1. CASE believes
    BY <1>1, TellLast DEF ClearProject, Selections
  <1>2. CASE ~believes
    BY <1>2 DEF ClearProject, ToldLast, SyncTypeOK
  <1> QED
    BY <1>1, <1>2

(* Steps of the renderer that leave the selection alone. *)
LEMMA ExtraFrame ==
    ASSUME ExtraInv, UNCHANGED <<active, believes, toMain, extraVars, session, phase>>,
           lists' \subseteq lists \/ phase = "up"
    PROVE  ExtraInv'
  <1>1. ToldLast'
    BY DEF ExtraInv, ToldLast
  <1>2. CallsOwn'
    BY DEF ExtraInv, CallsOwn, extraVars
  <1>3. EntryOwn'
    BY DEF ExtraInv, EntryOwn, extraVars
  <1>4. CallFollows'
    BY DEF ExtraInv, CallFollows, extraVars
  <1> QED
    BY <1>1, <1>2, <1>3, <1>4 DEF ExtraInv

(* Steps that change the selection. *)
LEMMA WatchTold ==
    ASSUME SyncTypeOK, ExtraInv, NEW t \in Selections, active' = t, Tell(t),
           UNCHANGED <<believes, extraVars, session, phase>>,
           t # None => believes, lists' \subseteq lists
    PROVE  ExtraInv'
  <1>1. ToldLast'
    BY TellLast DEF ExtraInv, ToldLast
  <1>2. CallsOwn'
    BY DEF ExtraInv, CallsOwn, extraVars
  <1>3. EntryOwn'
    BY DEF ExtraInv, EntryOwn, extraVars
  <1>4. CallFollows'
    BY TellLast DEF ExtraInv, CallFollows, extraVars
  <1> QED
    BY <1>1, <1>2, <1>3, <1>4 DEF ExtraInv

LEMMA SetActiveWorktreeWatch ==
    ASSUME SyncTypeOK, ExtraInv, SetActiveWorktree
    PROVE  ExtraInv'
  <1>1. /\ toMain \in Seq(Selections) /\ toMain # << >> /\ toMain' = Tail(toMain)
        /\ UNCHANGED <<active, believes, lists, session, phase, stops, extraOrphans>>
        /\ seq \in Nat /\ calls \subseteq Calls
    BY DEF SetActiveWorktree, SyncTypeOK, Selections, rendererVars, openVars, extraVars
  <1>2. toMain' # << >> => toMain'[Len(toMain')] = active
    BY <1>1, LastOfTail DEF ExtraInv, ToldLast
  <1>3. toMain' = << >> => Head(toMain) = active
    <2> SUFFICES ASSUME toMain' = << >>
                 PROVE  Head(toMain) = active
      OBVIOUS
    <2>1. Len(toMain') = 0
      OBVIOUS
    <2> QED
      BY <1>1, <2>1, LastOfOne DEF ExtraInv, ToldLast
  <1>4. ToldLast'
    BY <1>1, <1>2 DEF ExtraInv, ToldLast
  <1>5. CASE entry.path = Head(toMain)
    <2>1. UNCHANGED <<entry, seq, calls, extraRefused>>
      BY <1>5 DEF SetActiveWorktree, extraVars
    <2>2. CallsOwn' /\ EntryOwn'
      BY <1>1, <2>1 DEF ExtraInv, CallsOwn, EntryOwn
    <2>3. CallFollows'
      <3> SUFFICES ASSUME phase = "up", active # None, toMain' = << >>
                   PROVE  /\ \A c \in calls : c.seq # seq
                          /\ entry.path = IF active \in External THEN active ELSE None
        BY <1>1, <2>1 DEF CallFollows
      <3>1. entry.path = active /\ entry # NoEntry
        BY <1>3, <1>5 DEF NoEntry
      <3>2. session # 0
        BY DEF ExtraInv, ToldLast
      <3> QED
        BY <3>1, <3>2 DEF ExtraInv, EntryOwn, CallsOwn
    <2> QED
      BY <1>4, <2>2, <2>3 DEF ExtraInv
  <1>6. CASE entry.path # Head(toMain)
    <2>1. PICK c \in Calls :
              /\ c.seq = seq + 1 /\ c.at = "teardown" /\ c.target = Head(toMain)
              /\ IF entry # NoEntry THEN calls' = calls \union {c} ELSE Subscribe(calls, c)
      <3> DEFINE c == [n |-> served + 1, target |-> Head(toMain), seq |-> seq + 1,
                       at |-> "teardown", session |-> 0]
      <3>1. served + 1 \in Nat /\ seq + 1 \in Nat /\ Head(toMain) \in Selections
        BY <1>1 DEF SyncTypeOK
      <3>2. c \in Calls
        BY <3>1 DEF Calls, Selections
      <3>3. IF entry # NoEntry THEN calls' = calls \union {c} ELSE Subscribe(calls, c)
        BY <1>6 DEF SetActiveWorktree
      <3> QED
        BY <3>2, <3>3
    <2>2. entry' = NoEntry /\ seq' = seq + 1 /\ extraRefused' = FALSE
      BY <1>6 DEF SetActiveWorktree
    <2>3. PICK d \in Calls : d = [c EXCEPT !.at = "subscribe", !.session = session]
      BY DEF Calls, SyncTypeOK
    <2>4. d.seq = seq + 1 /\ d.target = Head(toMain) /\ d.session = session
      BY <2>1, <2>3 DEF Calls
    <2>5. \/ calls' = calls \union {c}
          \/ calls' = calls \union {d} /\ Subscribes(c)
          \/ calls' = calls /\ ~Subscribes(c) /\ entry = NoEntry
      BY <2>1, <2>3 DEF Subscribe
    <2>6. Subscribes(c) => c.target \in External
      BY DEF Subscribes
    <2>7. \A e \in calls : e.seq \in Nat
      BY <1>1 DEF Calls
    <2>8. CallsOwn'
      <3>1. \A e \in calls' : e.at = "subscribe" => e.target \in External
        BY <2>1, <2>4, <2>5, <2>6 DEF ExtraInv, CallsOwn
      <3>2. ASSUME session # 0
            PROVE  /\ \A e \in calls' : e.seq <= seq' /\ (e.at = "subscribe" => e.session = session)
                   /\ \A e, f \in calls' : e.seq = seq' /\ f.seq = seq' => e = f
        <4>1. \A e \in calls : /\ e.seq <= seq /\ e.seq # seq'
                               /\ e.at = "subscribe" => e.session = session
          BY <1>1, <2>2, <2>7, <3>2 DEF ExtraInv, CallsOwn
        <4> QED
          BY <1>1, <2>1, <2>2, <2>4, <2>5, <2>7, <4>1
      <3> QED
        BY <1>1, <2>2, <3>1, <3>2 DEF CallsOwn
    <2>9. EntryOwn'
      BY <1>1, <2>2 DEF ExtraInv, EntryOwn, NoEntry
    <2>10. CallFollows'
      <3> SUFFICES ASSUME phase = "up", active # None, toMain' = << >>
                   PROVE  /\ \A e \in calls' : e.seq = seq' => e.target = active
                          /\ (\A e \in calls' : e.seq # seq') => active \notin External
        BY <1>1, <2>2 DEF CallFollows, NoEntry
      <3>1. session # 0 /\ c.target = active /\ d.target = active
        BY <1>3, <2>1, <2>4 DEF ExtraInv, ToldLast
      <3>2. \A e \in calls : e.seq # seq'
        BY <1>1, <2>2, <2>7, <3>1 DEF ExtraInv, CallsOwn
      <3>3. Subscribes(c) \/ active \notin External
        BY <3>1 DEF Subscribes
      <3> QED
        BY <2>1, <2>2, <2>4, <2>5, <3>1, <3>2, <3>3
    <2> QED
      BY <1>4, <2>8, <2>9, <2>10 DEF ExtraInv
  <1> QED
    BY <1>5, <1>6

LEMMA TornDownWatch ==
    ASSUME SyncTypeOK, ExtraInv, NEW c \in calls, TornDown(c)
    PROVE  ExtraInv'
  <1>1. /\ UNCHANGED <<active, believes, lists, toMain, session, phase, entry, seq, stops, extraOrphans>>
        /\ extraRefused' = extraRefused /\ c \in Calls
    BY DEF TornDown, SyncTypeOK, rendererVars, openVars
  <1>2. PICK d \in Calls : d = [c EXCEPT !.at = "subscribe", !.session = session]
    BY <1>1 DEF Calls, SyncTypeOK
  <1>3. d.seq = c.seq /\ d.target = c.target /\ d.session = session
    BY <1>1, <1>2 DEF Calls
  <1>4. \/ calls' = (calls \ {c}) \union {d} /\ c.target \in External
        \/ calls' = calls \ {c} /\ ~Subscribes(c)
    BY <1>2 DEF TornDown, Subscribe, Subscribes
  <1>5. ToldLast' /\ EntryOwn'
    BY <1>1 DEF ExtraInv, ToldLast, EntryOwn
  <1>6. CallsOwn'
    <2>1. \A e \in calls' : e.at = "subscribe" => e.target \in External
      BY <1>3, <1>4 DEF ExtraInv, CallsOwn
    <2>2. ASSUME session # 0
          PROVE  /\ \A e \in calls' : e.seq <= seq /\ (e.at = "subscribe" => e.session = session)
                 /\ \A e, f \in calls' : e.seq = seq /\ f.seq = seq => e = f
                 /\ \A e \in calls' : e.seq = seq => entry = NoEntry
      BY <1>3, <1>4, <2>2 DEF ExtraInv, CallsOwn
    <2> QED
      BY <1>1, <2>1, <2>2 DEF CallsOwn
  <1>7. CallFollows'
    <2> SUFFICES ASSUME phase = "up", active # None, toMain = << >>, ~extraRefused
                 PROVE  /\ \A e \in calls' : e.seq = seq => e.target = active
                        /\ (\A e \in calls' : e.seq # seq) =>
                               entry.path = IF active \in External THEN active ELSE None
      BY <1>1 DEF CallFollows
    <2>1. session # 0
      BY DEF ExtraInv, ToldLast
    <2>2. \A e \in calls : e.seq = seq => e.target = active
      BY DEF ExtraInv, CallFollows
    <2>3. CASE c.seq = seq
      <3>1. c.target = active /\ entry.path = None
        BY <2>1, <2>2, <2>3 DEF ExtraInv, CallsOwn, NoEntry
      <3>2. active \in External => d \in calls'
        BY <1>4, <2>1, <3>1 DEF Subscribes
      <3> QED
        BY <1>3, <1>4, <2>2, <2>3, <3>1, <3>2
    <2>4. CASE c.seq # seq
      BY <1>3, <1>4, <2>2, <2>4 DEF ExtraInv, CallFollows
    <2> QED
      BY <2>3, <2>4
  <1> QED
    BY <1>5, <1>6, <1>7 DEF ExtraInv

LEMMA SubscribedWatch ==
    ASSUME ~Spans, SyncTypeOK, ExtraInv, NEW c \in calls, Subscribed(c)
    PROVE  ExtraInv'
  <1>1. /\ UNCHANGED <<active, believes, lists, toMain, session, phase, seq, stops, extraRefused>>
        /\ calls' = calls \ {c} /\ c \in Calls /\ c.at = "subscribe"
        /\ c.session = session /\ phase = "up"
    BY DEF Subscribed, Answers, SyncTypeOK, rendererVars, openVars
  <1>2. session # 0 /\ c.target \in External /\ c.target # None
    BY <1>1, TreesAssumption DEF ExtraInv, ToldLast, CallsOwn
  <1>3. ToldLast'
    BY <1>1 DEF ExtraInv, ToldLast
  <1>4. CASE c.seq = seq
    <2>1. entry = NoEntry /\ \A e \in calls' : e.seq # seq
      BY <1>1, <1>2, <1>4 DEF ExtraInv, CallsOwn
    <2>2. entry' = [path |-> c.target, session |-> session] /\ extraOrphans' = extraOrphans
      BY <1>1, <1>4, <2>1 DEF Subscribed, StillCurrent
    <2>3. entry'.path = c.target
      BY <2>2
    <2>4. CallsOwn'
      BY <1>1, <2>1 DEF ExtraInv, CallsOwn
    <2>5. EntryOwn'
      BY <1>1, <1>2, <2>2, <2>3 DEF ExtraInv, EntryOwn
    <2>6. CallFollows'
      BY <1>1, <1>2, <1>4, <2>1, <2>3 DEF ExtraInv, CallFollows
    <2> QED
      BY <1>3, <2>4, <2>5, <2>6 DEF ExtraInv
  <1>5. CASE c.seq # seq
    <2>1. UNCHANGED <<entry, extraOrphans>>
      BY <1>1, <1>5 DEF Subscribed, StillCurrent
    <2>2. CallsOwn' /\ EntryOwn'
      BY <1>1, <2>1 DEF ExtraInv, CallsOwn, EntryOwn
    <2>3. CallFollows'
      BY <1>1, <1>5, <2>1 DEF ExtraInv, CallFollows
    <2> QED
      BY <1>3, <2>2, <2>3 DEF ExtraInv
  <1> QED
    BY <1>4, <1>5

LEMMA SubscribeFailsWatch ==
    ASSUME ~Spans, SyncTypeOK, ExtraInv, NEW c \in calls, SubscribeFails(c)
    PROVE  ExtraInv'
  <1>1. /\ UNCHANGED <<active, believes, lists, toMain, session, phase, seq, stops, entry, extraOrphans>>
        /\ calls' = calls \ {c} /\ extraRefused' = (extraRefused \/ (StillCurrent(c) /\ phase = "up"))
        /\ c.at = "subscribe"
    BY DEF SubscribeFails, rendererVars, openVars
  <1>2. ToldLast' /\ EntryOwn' /\ CallsOwn'
    BY <1>1 DEF ExtraInv, ToldLast, EntryOwn, CallsOwn
  <1>3. CallFollows'
    <2> SUFFICES ASSUME phase = "up", active # None, toMain = << >>, ~extraRefused'
                 PROVE  /\ \A e \in calls' : e.seq = seq => e.target = active
                        /\ (\A e \in calls' : e.seq # seq) =>
                               entry.path = IF active \in External THEN active ELSE None
      BY <1>1 DEF CallFollows
    <2>1. ~extraRefused /\ c.seq # seq
      BY <1>1 DEF ExtraInv, ToldLast, CallsOwn, StillCurrent
    <2>2. /\ \A e \in calls : e.seq = seq => e.target = active
          /\ (\A e \in calls : e.seq # seq) =>
                 entry.path = IF active \in External THEN active ELSE None
      BY <2>1 DEF ExtraInv, CallFollows
    <2> QED
      BY <1>1, <2>1, <2>2
  <1> QED
    BY <1>2, <1>3 DEF ExtraInv

LEMMA StopsWorktreeWatch ==
    ASSUME SyncTypeOK, ExtraInv, StopsWorktree
    PROVE  ExtraInv'
  <1>1. /\ UNCHANGED <<active, believes, lists, toMain, session, phase, seq, calls, extraRefused, extraOrphans>>
        /\ entry' = NoEntry /\ stops > 0
    BY DEF StopsWorktree, rendererVars, openVars
  <1>2. phase \notin {"opening", "up"}
    BY <1>1 DEF ExtraInv, EntryOwn
  <1>3. ToldLast' /\ CallsOwn'
    BY <1>1 DEF ExtraInv, ToldLast, CallsOwn
  <1>4. EntryOwn' /\ CallFollows'
    BY <1>1, <1>2 DEF ExtraInv, EntryOwn, CallFollows, NoEntry
  <1> QED
    BY <1>3, <1>4 DEF ExtraInv

LEMMA OpenWatch ==
    ASSUME ~Spans, SyncTypeOK, ExtraInv, Open
    PROVE  ExtraInv'
  <1>1. /\ lists' = {} /\ calls' = {} /\ stops' = 0 /\ extraOrphans' = {} /\ entry' = entry
        /\ phase' = "opening" /\ session' # 0 /\ session = 0 /\ stops = 0
    BY DEF Open, Settled, SyncTypeOK
  <1>2. ClearProject
    BY DEF Open
  <1>3. ToldLast'
    BY <1>1, <1>2, ClearProjectTells DEF ExtraInv, ToldLast
  <1>4. phase = "none"
    BY <1>1 DEF ExtraInv, ToldLast
  <1>5. entry = NoEntry
    BY <1>1, <1>4 DEF ExtraInv, EntryOwn
  <1>6. CallsOwn' /\ EntryOwn' /\ CallFollows'
    BY <1>1, <1>5 DEF CallsOwn, EntryOwn, CallFollows, NoEntry
  <1> QED
    BY <1>3, <1>6 DEF ExtraInv

LEMMA ConnectedWatch ==
    ASSUME SyncTypeOK, ExtraInv, Connected
    PROVE  ExtraInv'
  <1>1. /\ UNCHANGED <<active, toMain, session, seq, calls, extraRefused, extraOrphans, entry, stops>>
        /\ phase = "opening" /\ phase' = "up" /\ believes' = TRUE
    BY DEF Connected, extraVars
  <1>2. active = None
    BY <1>1 DEF ExtraInv, ToldLast
  <1>3. ToldLast' /\ CallsOwn'
    BY <1>1 DEF ExtraInv, ToldLast, CallsOwn
  <1>4. EntryOwn' /\ CallFollows'
    BY <1>1, <1>2 DEF ExtraInv, EntryOwn, CallFollows
  <1> QED
    BY <1>3, <1>4 DEF ExtraInv

(* SessionDrops and SessionEvicted: the selection is cleared or not, and the watch stops. *)
LEMMA SessionEndsWatch ==
    ASSUME SyncTypeOK, ExtraInv, SessionDrops \/ SessionEvicted
    PROVE  ExtraInv'
  <1>1. /\ UNCHANGED <<lists, calls, extraOrphans>>
        /\ \/ phase' = "lost" /\ session' = session /\ phase # "none" /\ seq' = seq
           \/ phase' = "none" /\ session' = 0
    BY DEF SessionDrops, SessionEvicted
  <1>2. stops \in Nat /\ StopPrimary
    BY DEF SessionDrops, SessionEvicted, SyncTypeOK
  <1>3. /\ entry' \in {entry, NoEntry}
        /\ entry' # NoEntry => stops' > 0
    BY <1>2 DEF StopPrimary
  <1>4. ToldLast'
    <2>1. CASE ClearProject
      BY <1>1, <2>1, ClearProjectTells DEF ExtraInv, ToldLast
    <2>2. CASE UNCHANGED <<active, toMain, believes>>
      BY <1>1, <2>2 DEF ExtraInv, ToldLast
    <2> QED
      BY <2>1, <2>2 DEF SessionDrops, SessionEvicted
  <1>5. CallsOwn'
    BY <1>1, <1>3 DEF ExtraInv, CallsOwn
  <1>6. EntryOwn' /\ CallFollows'
    BY <1>1, <1>3 DEF ExtraInv, EntryOwn, CallFollows, NoEntry
  <1> QED
    BY <1>4, <1>5, <1>6 DEF ExtraInv

LEMMA WatchStep ==
    ASSUME ~Spans, SyncTypeOK, ExtraInv, [SyncNext]_syncVars
    PROVE  ExtraInv'
  <1>1. ASSUME NEW t \in Trees, Select(t)
        PROVE  ExtraInv'
    BY <1>1, WatchTold DEF Select, Selections, ExtraInv, ToldLast, openVars
  <1>2. ASSUME NEW l \in lists, NEW t \in Selections, ListReply(l, t)
        PROVE  ExtraInv'
    <2>1. t # None => believes
      BY <1>2 DEF ListReply, Answers, ExtraInv, ToldLast
    <2>2. /\ lists' \subseteq lists /\ active' = t /\ Tell(t)
          /\ UNCHANGED <<believes, extraVars, session, phase>>
      BY <1>2 DEF ListReply, openVars
    <2> QED
      BY <2>1, <2>2, WatchTold
  <1>3. CASE \/ SetTarget \/ WatchEvent \/ BranchPointReply \/ ReadChangeset \/ ChangesetReply
             \/ ReadFails \/ Edit \/ PrimaryReady \/ UNCHANGED syncVars
    <2>1. UNCHANGED <<active, believes, toMain, extraVars, session, phase>>
      BY <1>3 DEF SetTarget, WatchEvent, BranchPointReply, ReadChangeset, ChangesetReply,
                  ReadFails, Edit, PrimaryReady, rendererVars, extraVars, openVars, syncVars
    <2>2. lists' \subseteq lists \/ phase = "up"
      BY <1>3 DEF SetTarget, WatchEvent, BranchPointReply, ReadChangeset, ChangesetReply,
                  ReadFails, Edit, PrimaryReady, rendererVars, syncVars
    <2> QED
      BY <2>1, <2>2, ExtraFrame
  <1> QED
    BY <1>1, <1>2, <1>3, SetActiveWorktreeWatch, TornDownWatch, SubscribedWatch,
       SubscribeFailsWatch, StopsWorktreeWatch, OpenWatch, ConnectedWatch, SessionEndsWatch
    DEF SyncNext, Selections

LEMMA ExtraInit == SyncInit => ExtraInv
  BY DEF SyncInit, ExtraInv, ToldLast, CallsOwn, EntryOwn, CallFollows, NoEntry

(* PanelInv and ExtraInv are invariant if a session starts with nothing    *)
(* left of the one before (SessionManager.setActiveWorktree, stopWatch).   *)
THEOREM WatchInvariance == ~Spans => (SyncSpec => [](PanelInv /\ ExtraInv))
  <1> SUFFICES ASSUME ~Spans
               PROVE  SyncSpec => [](PanelInv /\ ExtraInv)
    OBVIOUS
  <1>1. SyncInit => PanelInv /\ ExtraInv
    BY PanelInit, ExtraInit
  <1>2. PanelInv /\ ExtraInv /\ [SyncNext]_syncVars => (PanelInv /\ ExtraInv)'
    BY PanelStep, WatchStep DEF PanelInv
  <1> QED
    BY <1>1, <1>2, PTL DEF SyncSpec

(* The extra watch of a live session follows the selection once every call *)
(* has come through, and no watch is lost.                                 *)
THEOREM WatchFollowsSelectionAlways == ~Spans => (SyncSpec => []WatchFollowsSelection)
  <1> SUFFICES ASSUME ~Spans
               PROVE  SyncSpec => []WatchFollowsSelection
    OBVIOUS
  <1>1. ExtraInv => WatchFollowsSelection
    BY DEF ExtraInv, WatchFollowsSelection, Quiet, EntryOwn, CallFollows
  <1> QED
    BY <1>1, WatchInvariance, PTL
=============================================================================
