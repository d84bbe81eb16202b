------------------------ MODULE ControlChannelProofs ------------------------
(***************************************************************************)
(* Proofs about ControlChannel, for every set of channels, every bound and *)
(* both ways close() may deliver its event.                                *)
(***************************************************************************)
EXTENDS ControlChannel, SequenceTheorems, TLAPS

\* A status hook leaves the machine in a legal state.
LEMMA ApplyType ==
    ASSUME NEW s \in ConnStates, NEW t \in ConnStates
    PROVE  Apply(s, t) \in ConnStates
  BY DEF Apply

-----------------------------------------------------------------------------
(* The pieces actions are built from.                                      *)

BackoffType ==
    /\ timer \in BOOLEAN /\ gaveUp \in BOOLEAN
    /\ attempt \in 0 .. MaxReattach /\ status \in ConnStates

AttachType ==
    /\ at \in {"idle", "opener", "environment"} /\ mine \in Chan \cup {NoChan}
    /\ retried \in BOOLEAN /\ byTimer \in BOOLEAN

LEMMA ScheduleType ==
    ASSUME BackoffType, ScheduleReattach
    PROVE  BackoffType'
  <1> USE LimitAssumption
  <1>1. CASE attempt >= MaxReattach
    <2>1. "failed" \in ConnStates
      BY DEF ConnStates
    <2>2. Apply(status, "failed") \in ConnStates
      BY <2>1, ApplyType DEF BackoffType
    <2> QED
      BY <1>1, <2>2 DEF ScheduleReattach, BackoffType
  <1>2. CASE ~(attempt >= MaxReattach)
    <2>1. "reconnecting" \in ConnStates
      BY DEF ConnStates
    <2>2. Apply(status, "reconnecting") \in ConnStates
      BY <2>1, ApplyType DEF BackoffType
    <2>3. attempt + 1 \in 0 .. MaxReattach
      BY <1>2 DEF BackoffType
    <2> QED
      BY <1>2, <2>2, <2>3 DEF ScheduleReattach, BackoffType
  <1> QED
    BY <1>1, <1>2

\* A rejected attach ends; a reattach follows only when the manager is open.
LEMMA RejectLemma ==
    ASSUME BackoffType, wanted \in BOOLEAN, closed \in BOOLEAN, byTimer \in BOOLEAN,
           RejectAttach
    PROVE  /\ BackoffType' /\ AttachType' /\ wanted' \in BOOLEAN
           /\ at' = "idle" /\ mine' = NoChan
           /\ closed => (timer' => timer) /\ ~wanted'
           /\ (wanted => wanted') \/ (~wanted' /\ (timer' => timer))
  <1>1. at' = "idle" /\ mine' = NoChan /\ AttachType'
    BY DEF RejectAttach, EndAttach, AttachType
  <1>2. CASE byTimer /\ ~closed
    BY <1>1, <1>2, ScheduleType DEF RejectAttach
  <1>3. CASE ~(byTimer /\ ~closed)
    BY <1>1, <1>3 DEF RejectAttach, backoffVars, BackoffType
  <1> QED
    BY <1>2, <1>3

-----------------------------------------------------------------------------
(* The inductive invariant, action by action.                              *)



USE NoChanAssumption, LimitAssumption, SyncAssumption

LEMMA InitStep == Init => IInv
  <1> SUFFICES ASSUME Init PROVE IInv
    OBVIOUS
  <1>1. pending \in Seq(Chan \X Nat) /\ DOMAIN pending = {}
    BY DEF Init
  <1>2. "connected" \in ConnStates
    BY DEF ConnStates
  <1>3. BackoffType /\ AttachType
    <2>1. attempt \in 0 .. MaxReattach
      BY DEF Init
    <2>2. status \in ConnStates
      BY <1>2 DEF Init
    <2>3. timer \in BOOLEAN /\ gaveUp \in BOOLEAN
      BY DEF Init
    <2>4. AttachType
      BY DEF Init, AttachType
    <2> QED
      BY <2>1, <2>2, <2>3, <2>4 DEF BackoffType
  <1>4. /\ chan \in [Chan -> {"free", "open", "closing", "dead"}]
        /\ written \in [Chan -> Nat] /\ blocks \in [Chan -> Nat]
    BY DEF Init
  <1>5. TypeOK
    BY <1>1, <1>3, <1>4 DEF Init, TypeOK, BackoffType, AttachType
  <1>6. /\ ClosedIsQuiet /\ ChannelIsOpen /\ MineIsSet
        /\ KnowsItsChannel /\ OpensOnlyWhenDown /\ WorksForSomebody
    BY DEF Init, ClosedIsQuiet, ChannelIsOpen, MineIsSet, KnowsItsChannel,
           OpensOnlyWhenDown, WorksForSomebody
  <1>7. PendingIsOpen
    BY <1>1 DEF PendingIsOpen
  <1> QED
    BY <1>5, <1>6, <1>7 DEF IInv

LEMMA OpenStep == IInv /\ Open => IInv'
  <1> SUFFICES ASSUME IInv, Open PROVE IInv'
    OBVIOUS
  <1> USE DEF IInv
  <1>1. TypeOK'
    <2>1. BackoffType' /\ AttachType'
      <3>1. attempt' \in 0 .. MaxReattach
        BY DEF Open, TypeOK, StartAttach, attachVars, backoffVars
      <3>2. status' \in ConnStates
        BY DEF Open, TypeOK, backoffVars
      <3>3. timer' \in BOOLEAN /\ gaveUp' \in BOOLEAN
        BY DEF Open, TypeOK, StartAttach, backoffVars
      <3>4. AttachType'
        BY DEF Open, TypeOK, StartAttach, attachVars, AttachType
      <3> QED
        BY <3>1, <3>2, <3>3, <3>4 DEF BackoffType
    <2>2. closed' \in BOOLEAN /\ wanted' \in BOOLEAN
      BY DEF Open
    <2> QED
      BY <2>1, <2>2 DEF Open, TypeOK, BackoffType, AttachType, hostVars
  <1>2. ClosedIsQuiet' /\ ChannelIsOpen' /\ MineIsSet'
    BY DEF Open, StartAttach, attachVars, backoffVars, hostVars,
           ClosedIsQuiet, ChannelIsOpen, MineIsSet
  <1>3. PendingIsOpen'
    BY DEF Open, hostVars, PendingIsOpen
  <1>4. SyncClose => KnowsItsChannel' /\ OpensOnlyWhenDown' /\ WorksForSomebody'
    BY DEF Open, StartAttach, attachVars, backoffVars, hostVars,
           KnowsItsChannel, OpensOnlyWhenDown, WorksForSomebody
  <1> QED
    BY <1>1, <1>2, <1>3, <1>4

LEMMA TimerFiresStep == IInv /\ TimerFires => IInv'
  <1> SUFFICES ASSUME IInv, TimerFires PROVE IInv'
    OBVIOUS
  <1> USE DEF IInv
  <1>1. TypeOK'
    BY DEF TimerFires, TypeOK, StartAttach, hostVars
  <1>2. ClosedIsQuiet' /\ ChannelIsOpen' /\ MineIsSet'
    BY DEF TimerFires, StartAttach, hostVars, ClosedIsQuiet, ChannelIsOpen, MineIsSet
  <1>3. PendingIsOpen'
    BY DEF TimerFires, hostVars, PendingIsOpen
  <1>4. SyncClose => KnowsItsChannel' /\ OpensOnlyWhenDown' /\ WorksForSomebody'
    BY DEF TimerFires, StartAttach, hostVars, ClosedIsQuiet, TypeOK,
           KnowsItsChannel, OpensOnlyWhenDown, WorksForSomebody
  <1> QED
    BY <1>1, <1>2, <1>3, <1>4

LEMMA OpenerFailStep == IInv /\ OpenerFail => IInv'
  <1> SUFFICES ASSUME IInv, OpenerFail PROVE IInv'
    OBVIOUS
  <1> USE DEF IInv
  <1>1. BackoffType /\ wanted \in BOOLEAN /\ closed \in BOOLEAN /\ byTimer \in BOOLEAN
    BY DEF TypeOK, BackoffType
  <1>2. /\ BackoffType' /\ AttachType' /\ wanted' \in BOOLEAN
        /\ at' = "idle" /\ mine' = NoChan
        /\ closed => (timer' => timer) /\ ~wanted'
        /\ (wanted => wanted') \/ (~wanted' /\ (timer' => timer))
    BY <1>1, RejectLemma DEF OpenerFail
  <1>3. TypeOK'
    BY <1>2 DEF OpenerFail, TypeOK, BackoffType, AttachType, hostVars
  <1>4. ClosedIsQuiet' /\ ChannelIsOpen' /\ MineIsSet'
    BY <1>2 DEF OpenerFail, hostVars, ClosedIsQuiet, ChannelIsOpen, MineIsSet, TypeOK
  <1>5. PendingIsOpen'
    BY DEF OpenerFail, hostVars, PendingIsOpen
  <1>6. ASSUME SyncClose PROVE KnowsItsChannel' /\ OpensOnlyWhenDown' /\ WorksForSomebody'
    <2>1. at = "opener" /\ channel = NoChan /\ ~timer
      BY <1>6 DEF OpenerFail, OpensOnlyWhenDown
    <2>2. timer' => wanted'
      <3>1. CASE byTimer /\ ~closed
        BY <1>6, <2>1, <3>1 DEF OpenerFail, RejectAttach, WorksForSomebody
      <3>2. CASE ~(byTimer /\ ~closed)
        BY <2>1, <3>2 DEF OpenerFail, RejectAttach, backoffVars
      <3> QED
        BY <3>1, <3>2
    <2> QED
      BY <1>2, <1>6, <2>1, <2>2 DEF OpenerFail, hostVars,
         KnowsItsChannel, OpensOnlyWhenDown, WorksForSomebody
  <1> QED
    BY <1>3, <1>4, <1>5, <1>6

\* Appending a command on c keeps the queue's type and waits on c only anew.
LEMMA AppendLemma ==
    ASSUME pending \in Seq(Chan \X Nat), NEW c \in Chan, NEW n \in Nat,
           pending' = Append(pending, <<c, n>>)
    PROVE  /\ pending' \in Seq(Chan \X Nat)
           /\ \A k \in DOMAIN pending' :
                 pending'[k][1] = c \/ (k \in DOMAIN pending /\ pending'[k] = pending[k])
  <1>1. <<c, n>> \in Chan \X Nat
    OBVIOUS
  <1>2. /\ pending' \in Seq(Chan \X Nat) /\ Len(pending') = Len(pending) + 1
        /\ \A k \in 1 .. Len(pending) : pending'[k] = pending[k]
        /\ pending'[Len(pending) + 1] = <<c, n>>
    BY <1>1, AppendProperties
  <1>3. DOMAIN pending = 1 .. Len(pending) /\ DOMAIN pending' = 1 .. Len(pending')
        /\ Len(pending) \in Nat
    BY <1>2
  <1>4. \A k \in DOMAIN pending' : k \in DOMAIN pending \/ k = Len(pending) + 1
    BY <1>2, <1>3
  <1> QED
    BY <1>2, <1>3, <1>4

\* The opener's channel is dropped by a manager that was closed meanwhile.
LEMMA OpenerOkStep ==
    ASSUME IInv, NEW c \in Chan, OpenerOk(c)
    PROVE  IInv'
  <1> USE DEF IInv, Abandoned
  <1>0. /\ at = "opener" /\ chan[c] = "free" /\ blocks' = blocks /\ closed' = closed
        /\ timer' = timer /\ gaveUp' = gaveUp /\ attempt' = attempt
        /\ wanted' = wanted /\ crossed' = crossed
    BY DEF OpenerOk
  <1>1. CASE closed
    <2>1. /\ chan' = [chan EXCEPT ![c] = "dead"] /\ written' = written /\ channel' = channel
          /\ stable' = stable /\ status' = status /\ epoch' = epoch
          /\ sawInitialBlock' = sawInitialBlock /\ pending' = pending
          /\ at' = "idle" /\ mine' = NoChan /\ retried' = FALSE /\ byTimer' = FALSE
      BY <1>1 DEF OpenerOk, EndAttach
    <2>2. TypeOK'
      BY <1>0, <2>1 DEF TypeOK
    <2>3. channel = NoChan /\ ~timer /\ ~wanted
      BY <1>1 DEF ClosedIsQuiet
    <2>4. ClosedIsQuiet' /\ ChannelIsOpen' /\ MineIsSet'
      BY <1>0, <2>1, <2>3 DEF ClosedIsQuiet, ChannelIsOpen, MineIsSet
    <2>5. PendingIsOpen'
      <3> SUFFICES ASSUME NEW k \in DOMAIN pending
                   PROVE  chan'[pending[k][1]] \in {"open", "closing"}
        BY <2>1 DEF PendingIsOpen
      <3>1. chan[pending[k][1]] \in {"open", "closing"}
        BY DEF PendingIsOpen
      <3>2. pending[k] \in Chan \X Nat
        BY DEF TypeOK
      <3> QED
        BY <1>0, <2>1, <3>1, <3>2 DEF TypeOK
    <2>6. SyncClose => KnowsItsChannel' /\ OpensOnlyWhenDown' /\ WorksForSomebody'
      BY <1>0, <2>1, <2>3
      DEF TypeOK, KnowsItsChannel, OpensOnlyWhenDown, WorksForSomebody
    <2> QED
      BY <2>2, <2>4, <2>5, <2>6
  <1>2. CASE ~closed
    <2>1. /\ chan' = [chan EXCEPT ![c] = "open"] /\ channel' = c
          /\ sawInitialBlock' = FALSE /\ stable' = TRUE /\ status' = Reattached
      BY <1>2 DEF OpenerOk, Wire
    <2>2. status' \in ConnStates
      <3>1. "connected" \in ConnStates /\ status \in ConnStates
        BY DEF ConnStates, TypeOK
      <3>2. Apply(status, "connected") \in ConnStates
        BY <3>1, ApplyType
      <3> QED
        BY <2>1, <3>1, <3>2 DEF Reattached
    <2>3. \/ /\ epoch' = epoch + 1 /\ at' = "idle" /\ mine' = NoChan /\ retried' = FALSE
             /\ byTimer' = FALSE /\ written' = written /\ pending' = pending
          \/ /\ at' = "environment" /\ mine' = c /\ retried' = retried
             /\ byTimer' = byTimer /\ written' = [written EXCEPT ![c] = 1]
             /\ pending' = Append(pending, <<c, 1>>) /\ epoch' = epoch
      BY <1>2 DEF OpenerOk, Announce, EndAttach
    <2>4. /\ pending' \in Seq(Chan \X Nat)
          /\ \A k \in DOMAIN pending' :
                pending'[k][1] = c \/ (k \in DOMAIN pending /\ pending'[k] = pending[k])
      BY <2>3, AppendLemma, 1 \in Nat DEF TypeOK
    <2>5. TypeOK'
      <3>1. chan' \in [Chan -> {"free", "open", "closing", "dead"}]
        BY <2>1 DEF TypeOK
      <3>2. written' \in [Chan -> Nat]
        <4>1. CASE written' = written
          BY <4>1 DEF TypeOK
        <4>2. CASE written' = [written EXCEPT ![c] = 1]
          BY <4>2 DEF TypeOK
        <4> QED
          BY <2>3, <4>1, <4>2
      <3>3. channel' \in Chan \cup {NoChan} /\ mine' \in Chan \cup {NoChan}
        BY <2>1, <2>3
      <3>4. epoch' \in Nat
        BY <2>3 DEF TypeOK
      <3>5. at' \in {"idle", "opener", "environment"}
        BY <2>3
      <3>6. retried' \in BOOLEAN /\ byTimer' \in BOOLEAN
        BY <2>3 DEF TypeOK
      <3> QED
        BY <1>0, <2>1, <2>2, <2>4, <3>1, <3>2, <3>3, <3>4, <3>5, <3>6 DEF TypeOK
    <2>6. ClosedIsQuiet' /\ ChannelIsOpen' /\ MineIsSet'
      BY <1>0, <1>2, <2>1, <2>3 DEF ClosedIsQuiet, ChannelIsOpen, MineIsSet, TypeOK
    <2>7. PendingIsOpen'
      <3> SUFFICES ASSUME NEW k \in DOMAIN pending'
                   PROVE  chan'[pending'[k][1]] \in {"open", "closing"}
        BY DEF PendingIsOpen
      <3>1. CASE pending'[k][1] = c
        BY <2>1, <3>1 DEF TypeOK
      <3>2. CASE k \in DOMAIN pending /\ pending'[k] = pending[k]
        <4>1. chan[pending[k][1]] \in {"open", "closing"}
          BY <3>2 DEF PendingIsOpen
        <4>2. pending[k] \in Chan \X Nat
          BY <3>2 DEF TypeOK
        <4> QED
          BY <1>0, <2>1, <3>2, <4>1, <4>2 DEF TypeOK
      <3> QED
        BY <2>4, <3>1, <3>2
    <2>8. ASSUME SyncClose PROVE KnowsItsChannel' /\ OpensOnlyWhenDown' /\ WorksForSomebody'
      <3>1. channel = NoChan /\ ~timer /\ wanted
        BY <1>0, <1>2, <2>8 DEF OpensOnlyWhenDown, WorksForSomebody
      <3>2. KnowsItsChannel'
        BY <2>1, <2>8, <3>1 DEF KnowsItsChannel, TypeOK
      <3> QED
        BY <1>0, <2>1, <2>3, <3>1, <3>2 DEF OpensOnlyWhenDown, WorksForSomebody
    <2> QED
      BY <2>5, <2>6, <2>7, <2>8
  <1> QED
    BY <1>1, <1>2

LEMMA EnvironmentDoneStep == IInv /\ EnvironmentDone => IInv'
  <1> SUFFICES ASSUME IInv, EnvironmentDone PROVE IInv'
    OBVIOUS
  <1> USE DEF IInv
  <1>0. /\ at = "environment" /\ chan' = chan /\ written' = written /\ blocks' = blocks
        /\ channel' = channel /\ closed' = closed /\ stable' = stable
        /\ sawInitialBlock' = sawInitialBlock /\ pending' = pending /\ crossed' = crossed
    BY DEF EnvironmentDone, hostVars
  <1>1. PendingIsOpen' /\ ChannelIsOpen' /\ KnowsItsChannel' = KnowsItsChannel
    BY <1>0 DEF PendingIsOpen, ChannelIsOpen, KnowsItsChannel
  <1>2. CASE \/ StillMine /\ EndAttach /\ Announce /\ UNCHANGED <<backoffVars, wanted>>
             \/ ~StillMine /\ EndAttach /\ UNCHANGED <<backoffVars, wanted, epoch>>
    <2>1. TypeOK'
      <3>1. epoch' \in Nat
        BY <1>2 DEF TypeOK, Announce
      <3>2. BackoffType' /\ AttachType' /\ wanted' \in BOOLEAN
        BY <1>2 DEF TypeOK, EndAttach, backoffVars, BackoffType, AttachType
      <3> QED
        BY <1>0, <3>1, <3>2 DEF TypeOK, BackoffType, AttachType
    <2> QED
      BY <1>0, <1>1, <1>2, <2>1 DEF EndAttach, Announce, backoffVars, ClosedIsQuiet,
         MineIsSet, OpensOnlyWhenDown, WorksForSomebody
  <1>3. CASE ~StillMine /\ ~OwnedElsewhere /\ RejectAttach /\ UNCHANGED epoch
    <2>1. BackoffType /\ wanted \in BOOLEAN /\ closed \in BOOLEAN /\ byTimer \in BOOLEAN
      BY DEF TypeOK, BackoffType
    <2>2. /\ BackoffType' /\ AttachType' /\ wanted' \in BOOLEAN
          /\ at' = "idle" /\ mine' = NoChan
          /\ closed => (timer' => timer) /\ ~wanted'
          /\ (wanted => wanted') \/ (~wanted' /\ (timer' => timer))
      BY <1>3, <2>1, RejectLemma
    <2>3. TypeOK'
      BY <1>0, <1>3, <2>2 DEF TypeOK, BackoffType, AttachType
    <2>4. ClosedIsQuiet' /\ MineIsSet'
      BY <1>0, <2>2 DEF ClosedIsQuiet, MineIsSet
    <2>5. ASSUME SyncClose PROVE OpensOnlyWhenDown' /\ WorksForSomebody'
      <3>1. channel = NoChan /\ ~timer /\ wanted
        BY <1>0, <1>3, <2>5 DEF StillMine, OwnedElsewhere, OpensOnlyWhenDown, WorksForSomebody
      <3> QED
        BY <1>0, <2>2, <3>1 DEF OpensOnlyWhenDown, WorksForSomebody
    <2> QED
      BY <1>1, <2>3, <2>4, <2>5
  <1>4. CASE /\ ~StillMine /\ ~OwnedElsewhere
             /\ at' = "opener" /\ mine' = NoChan /\ retried' = TRUE
             /\ UNCHANGED <<byTimer, backoffVars, wanted, epoch>>
    <2>1. TypeOK'
      BY <1>0, <1>4 DEF TypeOK, backoffVars
    <2> QED
      BY <1>0, <1>1, <1>4, <2>1 DEF StillMine, OwnedElsewhere, backoffVars, ClosedIsQuiet,
         MineIsSet, OpensOnlyWhenDown, WorksForSomebody
  <1> QED
    BY <1>2, <1>3, <1>4 DEF EnvironmentDone

LEMMA CommandStep == IInv /\ Command => IInv'
  <1> SUFFICES ASSUME IInv, Command PROVE IInv'
    OBVIOUS
  <1> USE DEF IInv
  <1>0. /\ channel \in Chan /\ written' = [written EXCEPT ![channel] = @ + 1]
        /\ pending' = Append(pending, <<channel, written'[channel]>>)
    BY DEF Command, TypeOK
  <1>1. written' \in [Chan -> Nat] /\ written'[channel] \in Nat
    BY <1>0 DEF TypeOK
  <1>2. /\ pending' \in Seq(Chan \X Nat)
        /\ \A k \in DOMAIN pending' :
              \/ pending'[k][1] = channel
              \/ k \in DOMAIN pending /\ pending'[k] = pending[k]
    BY <1>0, <1>1, AppendLemma DEF TypeOK
  <1>3. TypeOK'
    BY <1>1, <1>2 DEF Command, TypeOK, attachVars, backoffVars
  <1>4. PendingIsOpen'
    BY <1>0, <1>2 DEF Command, PendingIsOpen, ChannelIsOpen
  <1> QED
    BY <1>3, <1>4 DEF Command, attachVars, backoffVars, ClosedIsQuiet, ChannelIsOpen,
       MineIsSet, KnowsItsChannel, OpensOnlyWhenDown, WorksForSomebody

LEMMA ReplyStep ==
    ASSUME IInv, NEW c \in Chan, Reply(c)
    PROVE  IInv'
  <1> USE DEF IInv
  <1>1. /\ pending' \in Seq(Chan \X Nat)
        /\ \A k \in DOMAIN pending' :
              \E j \in DOMAIN pending : pending'[k] = pending[j]
    <2>1. CASE pending' = pending
      BY <2>1 DEF TypeOK
    <2>2. CASE pending # <<>> /\ pending' = Tail(pending)
      <3>1. pending \in Seq(Chan \X Nat)
        BY DEF TypeOK
      <3>2. /\ Tail(pending) \in Seq(Chan \X Nat)
            /\ Len(Tail(pending)) = Len(pending) - 1
            /\ \A i \in 1 .. Len(Tail(pending)) : Tail(pending)[i] = pending[i + 1]
        BY <2>2, <3>1, HeadTailProperties
      <3>3. \A i \in 1 .. Len(Tail(pending)) : i + 1 \in 1 .. Len(pending)
        BY <3>1, <3>2
      <3>4. DOMAIN pending = 1 .. Len(pending) /\ DOMAIN Tail(pending) = 1 .. Len(Tail(pending))
        BY <3>1, <3>2
      <3>5. ASSUME NEW k \in DOMAIN Tail(pending)
            PROVE  \E j \in DOMAIN pending : Tail(pending)[k] = pending[j]
        <4>1. k + 1 \in DOMAIN pending /\ Tail(pending)[k] = pending[k + 1]
          BY <3>2, <3>3, <3>4, <3>5
        <4> QED
          BY <4>1, Zenon
      <3>6. pending' = Tail(pending)
        BY <2>2
      <3> QED
        BY <3>2, <3>5, <3>6, Zenon
    <2> QED
      BY <2>1, <2>2 DEF Reply
  <1>2. sawInitialBlock' \in BOOLEAN /\ crossed' \in BOOLEAN
    BY DEF Reply, TypeOK
  <1>3. TypeOK'
    <2>1. blocks \in [Chan -> Nat] /\ blocks' = [blocks EXCEPT ![c] = @ + 1]
      BY DEF Reply, TypeOK
    <2>2. blocks' \in [Chan -> Nat]
      BY <2>1
    <2>3. UNCHANGED <<chan, written, at, mine, retried, byTimer, timer, gaveUp, attempt, status,
                      channel, closed, stable, epoch, wanted>>
      BY DEF Reply, attachVars, backoffVars
    <2> QED
      BY <1>1, <1>2, <2>2, <2>3 DEF TypeOK
  <1>4. PendingIsOpen'
    BY <1>1 DEF Reply, PendingIsOpen
  <1> QED
    BY <1>3, <1>4 DEF Reply, attachVars, backoffVars, ClosedIsQuiet, ChannelIsOpen,
       MineIsSet, KnowsItsChannel, OpensOnlyWhenDown, WorksForSomebody

LEMMA StableTimerStep == IInv /\ StableTimer => IInv'
  <1> SUFFICES ASSUME IInv, StableTimer PROVE IInv'
    OBVIOUS
  <1> USE DEF IInv
  <1>1. attempt' \in 0 .. MaxReattach
    BY DEF StableTimer
  <1>2. TypeOK'
    <2>1. UNCHANGED <<chan, written, blocks, at, mine, retried, byTimer, channel, closed, timer,
                      gaveUp, status, epoch, sawInitialBlock, pending, wanted, crossed>>
      BY DEF StableTimer, hostVars, attachVars
    <2>2. stable' \in BOOLEAN
      BY DEF StableTimer
    <2> QED
      BY <1>1, <2>1, <2>2 DEF TypeOK
  <1> QED
    BY <1>2 DEF StableTimer, hostVars, attachVars, ClosedIsQuiet, ChannelIsOpen,
       MineIsSet, PendingIsOpen, KnowsItsChannel, OpensOnlyWhenDown, WorksForSomebody

LEMMA ShutLemma ==
    ASSUME IInv, NEW c \in Chan, chan' = Shut(c)
    PROVE  /\ chan' \in [Chan -> {"free", "open", "closing", "dead"}]
           /\ \A d \in Chan \ {c} : chan'[d] = chan[d]
           /\ SyncClose => chan'[c] = "dead"
           /\ ~SyncClose => chan'[c] = "closing"
  BY DEF IInv, TypeOK, Shut

LEMMA UnresponsiveStep == IInv /\ Unresponsive => IInv'
  <1> SUFFICES ASSUME IInv, Unresponsive PROVE IInv'
    OBVIOUS
  <1> USE DEF IInv
  <1>0. /\ channel \in Chan /\ chan' = Shut(channel) /\ channel' = NoChan /\ pending' = <<>>
        /\ written' = written /\ blocks' = blocks /\ at' = at /\ mine' = mine
        /\ retried' = retried /\ byTimer' = byTimer /\ closed' = closed /\ epoch' = epoch
        /\ sawInitialBlock' = sawInitialBlock /\ wanted' = wanted /\ crossed' = crossed
    BY DEF Unresponsive, TypeOK, attachVars
  <1>1. BackoffType' /\ stable' \in BOOLEAN
    <2>1. BackoffType
      BY DEF TypeOK, BackoffType
    <2>2. CASE SyncClose
      BY <2>1, <2>2, ScheduleType DEF Unresponsive
    <2>3. CASE ~SyncClose
      BY <2>1, <2>3 DEF Unresponsive, backoffVars, BackoffType, TypeOK
    <2> QED
      BY <2>2, <2>3
  <1>2. TypeOK'
    <2>1. chan' \in [Chan -> {"free", "open", "closing", "dead"}]
      BY <1>0, ShutLemma
    <2>2. pending' \in Seq(Chan \X Nat)
      BY <1>0
    <2> QED
      BY <1>0, <1>1, <2>1, <2>2 DEF TypeOK, BackoffType
  <1>3. ~closed
    BY <1>0 DEF ClosedIsQuiet
  <1>4. ClosedIsQuiet' /\ ChannelIsOpen' /\ MineIsSet' /\ PendingIsOpen'
    BY <1>0, <1>3 DEF ClosedIsQuiet, ChannelIsOpen, MineIsSet, PendingIsOpen
  <1>5. ASSUME SyncClose PROVE KnowsItsChannel' /\ OpensOnlyWhenDown' /\ WorksForSomebody'
    <2>1. KnowsItsChannel'
      BY <1>0, <1>5, ShutLemma DEF KnowsItsChannel
    <2>2. wanted /\ at # "opener"
      BY <1>0, <1>5 DEF WorksForSomebody, OpensOnlyWhenDown
    <2> QED
      BY <1>0, <2>1, <2>2 DEF WorksForSomebody, OpensOnlyWhenDown
  <1> QED
    BY <1>2, <1>4, <1>5

LEMMA CloseStep == IInv /\ Close => IInv'
  <1> SUFFICES ASSUME IInv, Close PROVE IInv'
    OBVIOUS
  <1> USE DEF IInv
  <1>0. /\ closed' = TRUE /\ wanted' = FALSE /\ timer' = FALSE /\ stable' = FALSE
        /\ channel' = NoChan /\ written' = written /\ blocks' = blocks
        /\ at' = at /\ mine' = mine /\ retried' = retried /\ byTimer' = byTimer
        /\ gaveUp' = gaveUp /\ attempt' = attempt /\ status' = status /\ epoch' = epoch
        /\ sawInitialBlock' = sawInitialBlock /\ crossed' = crossed
    BY DEF Close, attachVars
  <1>1. /\ chan' \in [Chan -> {"free", "open", "closing", "dead"}]
        /\ pending' \in Seq(Chan \X Nat)
        /\ PendingIsOpen'
        /\ SyncClose => KnowsItsChannel'
    <2>1. CASE channel = NoChan
      BY <2>1 DEF Close, TypeOK, PendingIsOpen, KnowsItsChannel
    <2>2. CASE channel # NoChan /\ SyncClose
      <3>1. channel \in Chan /\ chan' = Shut(channel) /\ pending' = <<>>
        BY <2>2 DEF Close, TypeOK
      <3> QED
        BY <2>2, <3>1, ShutLemma DEF PendingIsOpen, KnowsItsChannel
    <2>3. CASE channel # NoChan /\ ~SyncClose
      <3>1. channel \in Chan /\ chan' = Shut(channel) /\ pending' = pending
        BY <2>3 DEF Close, TypeOK
      <3>2. PendingIsOpen'
        <4> SUFFICES ASSUME NEW k \in DOMAIN pending
                     PROVE  chan'[pending[k][1]] \in {"open", "closing"}
          BY <3>1 DEF PendingIsOpen
        <4>1. chan[pending[k][1]] \in {"open", "closing"} /\ pending[k][1] \in Chan
          BY DEF PendingIsOpen, TypeOK
        <4> QED
          BY <2>3, <3>1, <4>1, ShutLemma
      <3> QED
        BY <2>3, <3>1, <3>2, ShutLemma DEF TypeOK
    <2> QED
      BY <2>1, <2>2, <2>3
  <1>2. TypeOK'
    BY <1>0, <1>1 DEF TypeOK
  <1>3. ClosedIsQuiet' /\ ChannelIsOpen' /\ MineIsSet'
    BY <1>0 DEF ClosedIsQuiet, ChannelIsOpen, MineIsSet
  <1>4. SyncClose => OpensOnlyWhenDown' /\ WorksForSomebody'
    BY <1>0 DEF OpensOnlyWhenDown, WorksForSomebody
  <1> QED
    BY <1>1, <1>2, <1>3, <1>4

LEMMA ChannelClosedStep ==
    ASSUME IInv, NEW c \in Chan, ChannelClosed(c)
    PROVE  IInv'
  <1> USE DEF IInv
  <1>0. /\ chan[c] \in {"open", "closing"} /\ chan' = [chan EXCEPT ![c] = "dead"]
        /\ channel' = NoChan /\ stable' = FALSE /\ pending' = <<>>
        /\ written' = written /\ blocks' = blocks /\ at' = at /\ mine' = mine
        /\ retried' = retried /\ byTimer' = byTimer /\ closed' = closed /\ epoch' = epoch
        /\ sawInitialBlock' = sawInitialBlock /\ wanted' = wanted /\ crossed' = crossed
    BY DEF ChannelClosed, OnClose, attachVars
  <1>1. BackoffType' /\ (closed => timer' = timer)
    <2>1. BackoffType
      BY DEF TypeOK, BackoffType
    <2>2. CASE closed
      BY <2>1, <2>2 DEF ChannelClosed, OnClose, backoffVars, BackoffType
    <2>3. CASE ~closed
      BY <2>1, <2>3, ScheduleType DEF ChannelClosed, OnClose
    <2> QED
      BY <2>2, <2>3
  <1>2. TypeOK'
    <2>1. chan' \in [Chan -> {"free", "open", "closing", "dead"}]
      BY <1>0 DEF TypeOK
    <2>2. pending' \in Seq(Chan \X Nat)
      BY <1>0
    <2> QED
      BY <1>0, <1>1, <2>1, <2>2 DEF TypeOK, BackoffType
  <1>3. ClosedIsQuiet' /\ ChannelIsOpen' /\ MineIsSet' /\ PendingIsOpen'
    BY <1>0, <1>1 DEF ClosedIsQuiet, ChannelIsOpen, MineIsSet, PendingIsOpen
  <1>4. ASSUME SyncClose PROVE KnowsItsChannel' /\ OpensOnlyWhenDown' /\ WorksForSomebody'
    <2>1. channel = c
      BY <1>0, <1>4 DEF KnowsItsChannel
    <2>2. KnowsItsChannel'
      BY <1>0, <1>4, <2>1 DEF KnowsItsChannel, TypeOK
    <2>3. wanted /\ at # "opener"
      BY <1>4, <2>1 DEF WorksForSomebody, OpensOnlyWhenDown
    <2> QED
      BY <1>0, <2>2, <2>3 DEF WorksForSomebody, OpensOnlyWhenDown
  <1> QED
    BY <1>2, <1>3, <1>4

-----------------------------------------------------------------------------
LEMMA NextStep == IInv /\ [Next]_vars => IInv'
  <1> SUFFICES ASSUME IInv, [Next]_vars PROVE IInv'
    OBVIOUS
  <1>1. CASE UNCHANGED vars
    BY <1>1 DEF vars, hostVars, attachVars, backoffVars, IInv, TypeOK, ClosedIsQuiet,
       ChannelIsOpen, MineIsSet, PendingIsOpen, KnowsItsChannel, OpensOnlyWhenDown,
       WorksForSomebody
  <1>2. CASE EnvironmentDone
    BY <1>2, EnvironmentDoneStep
  <1>3. CASE Macrotask
    BY <1>3, OpenStep, CloseStep, TimerFiresStep, OpenerFailStep, CommandStep,
       UnresponsiveStep, StableTimerStep, OpenerOkStep, ChannelClosedStep, ReplyStep
       DEF Macrotask
  <1>4. CASE Open
    BY <1>4, OpenStep
  <1> QED
    BY <1>1, <1>2, <1>3, <1>4 DEF Next

\* The inductive invariant holds of every run of the manager: its attach, its
\* timer, its queue and its channels agree whatever order events come in.
THEOREM Invariance == Spec => []IInv
  BY InitStep, NextStep, PTL DEF Spec

\* Every field of the manager keeps its type; the reattach attempts stay within
\* MAX_REATTACH.
THEOREM TypeCorrectness == Spec => []TypeOK
  <1>1. IInv => TypeOK
    BY DEF IInv
  <1> QED
    BY <1>1, Invariance, PTL

\* close() stays closed, whatever was in flight.
THEOREM ClosedIsQuietAlways == Spec => []ClosedIsQuiet
  <1>1. IInv => ClosedIsQuiet
    BY DEF IInv
  <1> QED
    BY <1>1, Invariance, PTL

\* No command waits on a channel that is gone.
THEOREM PendingIsAnswerableAlways == Spec => []PendingIsAnswerable
  <1>1. IInv => PendingIsAnswerable
    BY DEF IInv, PendingIsOpen, PendingIsAnswerable
  <1> QED
    BY <1>1, Invariance, PTL

\* An epoch is announced for the live channel of its own attach only.
THEOREM AnnouncedIsCurrentAlways == Spec => AnnouncedIsCurrent
  <1> DEFINE A == epoch' # epoch =>
                    /\ channel' # NoChan /\ chan'[channel'] = "open"
                    /\ (at = "environment" => channel' = mine)
  <1>1. ASSUME IInv, [Next]_vars PROVE [A]_vars
    <2>1. CASE EnvironmentDone
      <3>1. CASE StillMine
        BY <1>1, <2>1, <3>1
        DEF EnvironmentDone, StillMine, hostVars, IInv, MineIsSet, ChannelIsOpen
      <3>2. CASE ~StillMine
        BY <2>1, <3>2 DEF EnvironmentDone
      <3> QED
        BY <3>1, <3>2
    <2>2. ASSUME NEW c \in Chan, OpenerOk(c) PROVE A
      <3>1. CASE Abandoned
        BY <2>2, <3>1 DEF OpenerOk
      <3>2. CASE ~Abandoned
        <4>1. channel' = c /\ chan' = [chan EXCEPT ![c] = "open"] /\ at = "opener"
          BY <2>2, <3>2 DEF OpenerOk, Wire
        <4> QED
          BY <1>1, <2>2, <4>1 DEF IInv, TypeOK
      <3> QED
        BY <3>1, <3>2
    <2>3. CASE \/ Open \/ Close \/ TimerFires \/ OpenerFail \/ Command \/ Unresponsive
               \/ StableTimer \/ \E c \in Chan : ChannelClosed(c) \/ Reply(c)
      BY <2>3 DEF Open, Close, TimerFires, OpenerFail, Command, Unresponsive, StableTimer,
         ChannelClosed, Reply
    <2>4. CASE UNCHANGED vars
      BY <2>4
    <2> QED
      BY <1>1, <2>1, <2>2, <2>3, <2>4 DEF Next, Macrotask
  <1> QED
    BY <1>1, Invariance, PTL DEF Spec, AnnouncedIsCurrent

\* When close() delivers its event itself, two channels are never open at once.
THEOREM OneLiveChannelAlways ==
    ASSUME SyncClose
    PROVE  Spec => []OneLiveChannel
  <1>1. IInv => OneLiveChannel
    BY DEF IInv, KnowsItsChannel, OneLiveChannel, Live
  <1> QED
    BY <1>1, Invariance, PTL

-----------------------------------------------------------------------------
(* Refinement: the manager implements EpochChannel.                        *)

PromiseStep == [Promise!Next]_(Promise!vars)

\* A step that leaves the three abstract variables alone is a stutter.
LEMMA StutterLemma ==
    ASSUME wanted' = wanted, epoch' = epoch, Up' <=> Up
    PROVE  PromiseStep
  BY DEF PromiseStep, Promise!vars, Up

\* One that stops counting on a link is Unwant.
LEMMA UnwantLemma ==
    ASSUME ~wanted', wanted' \in BOOLEAN, epoch' = epoch, ~Up'
    PROVE  PromiseStep
  BY DEF PromiseStep, Promise!Next, Promise!Unwant, Up

\* When close() delivers its event itself, every step of the manager is one of
\* the epoch channel its consumers rely on.
LEMMA StepRefines ==
    ASSUME SyncClose, IInv, IInv', [Next]_vars
    PROVE  PromiseStep
  <1> USE DEF IInv
  <1>1. ASSUME at' = at, mine' = mine, channel' = channel, wanted' = wanted, epoch' = epoch
        PROVE  PromiseStep
    BY <1>1, StutterLemma DEF Up
  <1>2. CASE Command \/ StableTimer \/ (\E c \in Chan : Reply(c)) \/ UNCHANGED vars
    BY <1>1, <1>2 DEF Command, StableTimer, Reply, attachVars, vars
  <1>3. CASE Open
    <2>1. wanted' /\ wanted' \in BOOLEAN /\ epoch' = epoch /\ channel' = channel
      BY <1>3 DEF Open
    <2>2. CASE at' = at /\ mine' = mine
      BY <2>1, <2>2 DEF Up, PromiseStep, Promise!Next, Promise!Want
    <2>3. CASE at = "idle" /\ at' = "opener"
      <3>1. ~Up /\ ~Up'
        BY <1>3, <2>1, <2>3 DEF Up, Open
      <3> QED
        BY <2>1, <3>1 DEF Up, PromiseStep, Promise!Next, Promise!Want
    <2> QED
      BY <1>3, <2>2, <2>3 DEF Open, StartAttach, attachVars
  <1>4. CASE Close
    BY <1>4, UnwantLemma DEF Close, Up
  <1>5. CASE TimerFires
    <2>1. channel = NoChan
      BY <1>5 DEF TimerFires, OpensOnlyWhenDown
    <2> QED
      BY <1>5, <2>1, StutterLemma DEF TimerFires, Up
  <1>6. CASE OpenerFail
    <2>1. channel = NoChan /\ channel' = NoChan /\ epoch' = epoch /\ ~Up /\ ~Up'
      BY <1>6 DEF OpenerFail, OpensOnlyWhenDown, Up
    <2>2. wanted' = wanted \/ wanted' = FALSE
      BY <1>6 DEF OpenerFail, RejectAttach
    <2>3. CASE wanted' = wanted
      BY <2>1, <2>3, StutterLemma
    <2>4. CASE wanted' = FALSE
      BY <2>1, <2>4, UnwantLemma
    <2> QED
      BY <2>2, <2>3, <2>4
  <1>7. CASE Unresponsive
    <2>1. epoch' = epoch /\ wanted' = wanted /\ channel' = NoChan /\ ~Up'
      BY <1>7 DEF Unresponsive, Up
    <2> QED
      BY <2>1, StutterLemma DEF PromiseStep, Promise!Next, Promise!Lose, Up
  <1>8. ASSUME NEW c \in Chan, ChannelClosed(c)
        PROVE  PromiseStep
    <2>1. epoch' = epoch /\ wanted' = wanted /\ channel' = NoChan /\ ~Up'
      BY <1>8 DEF ChannelClosed, OnClose, Up
    <2> QED
      BY <2>1, StutterLemma DEF PromiseStep, Promise!Next, Promise!Lose, Up
  <1>9. ASSUME NEW c \in Chan, OpenerOk(c)
        PROVE  PromiseStep
    <2>1. channel = NoChan /\ wanted' = wanted /\ ~Up
      BY <1>9 DEF OpenerOk, OpensOnlyWhenDown, Up
    <2>2. CASE Abandoned
      <3>1. epoch' = epoch /\ channel' = channel
        BY <1>9, <2>2 DEF OpenerOk
      <3> QED
        BY <2>1, <3>1, StutterLemma DEF Up
    <2>3. CASE ~Abandoned /\ Announce /\ EndAttach
      <3>1. channel' = c /\ at' = "idle" /\ epoch' = epoch + 1
        BY <1>9, <2>3 DEF OpenerOk, Wire, EndAttach, Announce
      <3>2. wanted
        BY <1>9, <2>3 DEF OpenerOk, Abandoned, WorksForSomebody
      <3> QED
        BY <2>1, <3>1, <3>2 DEF PromiseStep, Promise!Next, Promise!Announce, Up
    <2>4. CASE ~Abandoned /\ at' = "environment" /\ mine' = c /\ UNCHANGED epoch
      <3>1. channel' = c /\ ~Up'
        BY <1>9, <2>4 DEF OpenerOk, Wire, Up
      <3> QED
        BY <2>1, <2>4, <3>1, StutterLemma DEF Up
    <2> QED
      BY <1>9, <2>2, <2>3, <2>4 DEF OpenerOk
  <1>10. CASE EnvironmentDone
    <2>1. at = "environment" /\ channel' = channel
      BY <1>10 DEF EnvironmentDone
    <2>2. CASE StillMine
      <3>1. channel # NoChan /\ ~Up /\ wanted
        BY <2>1, <2>2 DEF StillMine, MineIsSet, Up, WorksForSomebody
      <3>2. epoch' = epoch + 1 /\ wanted' = wanted /\ at' = "idle"
        BY <1>10, <2>2 DEF EnvironmentDone, Announce, EndAttach
      <3> QED
        BY <2>1, <3>1, <3>2 DEF PromiseStep, Promise!Next, Promise!Announce, Up
    <2>3. CASE ~StillMine
      <3>1. channel = NoChan /\ ~Up /\ ~Up'
        BY <2>1, <2>3 DEF StillMine, OpensOnlyWhenDown, Up
      <3>2. epoch' = epoch /\ (wanted' = wanted \/ wanted' = FALSE)
        BY <1>10, <2>3 DEF EnvironmentDone, RejectAttach
      <3>3. CASE wanted' = wanted
        BY <3>1, <3>2, <3>3, StutterLemma
      <3>4. CASE wanted' = FALSE
        BY <3>1, <3>2, <3>4, UnwantLemma
      <3> QED
        BY <3>2, <3>3, <3>4
    <2> QED
      BY <2>2, <2>3
  <1> QED
    BY <1>2, <1>3, <1>4, <1>5, <1>6, <1>7, <1>8, <1>9, <1>10 DEF Next, Macrotask

\* The manager implements the epoch channel, for channels whose close() is
\* immediate.
THEOREM Refinement ==
    ASSUME SyncClose
    PROVE  Spec => KeepsPromise
  <1>1. Init => Promise!Init
    BY DEF Init, Promise!Init, Up
  <1>2. IInv /\ IInv' /\ [Next]_vars => [Promise!Next]_(Promise!vars)
    BY StepRefines DEF PromiseStep
  <1> QED
    BY <1>1, <1>2, Invariance, PTL DEF Spec, KeepsPromise, Promise!Spec
-----------------------------------------------------------------------------
(* Nobody forgets to bring a wanted channel up.                            *)

\* A reattach is due, or the manager gives up.
LEMMA ScheduleWorks ==
    ASSUME ScheduleReattach
    PROVE  timer' \/ gaveUp'
  BY DEF ScheduleReattach

\* A rejected attach is followed up, or nobody wants the channel any longer.
LEMMA RejectWorks ==
    ASSUME RejectAttach
    PROVE  timer' \/ gaveUp' \/ ~wanted'
  BY ScheduleWorks DEF RejectAttach

LEMMA RecoveringStep ==
    ASSUME IInv, Recovering, [Next]_vars
    PROVE  Recovering'
  <1>1. CASE Open
    BY <1>1 DEF Open, StartAttach, attachVars, backoffVars, Recovering
  <1>2. CASE Close
    BY <1>2 DEF Close, Recovering
  <1>3. CASE TimerFires
    BY <1>3 DEF TimerFires, StartAttach, Recovering
  <1>4. CASE OpenerFail
    BY <1>4, RejectWorks DEF OpenerFail, Recovering
  <1>5. CASE Command \/ StableTimer \/ \E c \in Chan : Reply(c)
    BY <1>5 DEF Command, StableTimer, Reply, hostVars, attachVars, backoffVars, Recovering
  <1>6. CASE Unresponsive
    <2>1. CASE SyncClose
      BY <1>6, <2>1, ScheduleWorks DEF Unresponsive, Recovering
    <2>2. CASE ~SyncClose
      <3>1. channel \in Chan /\ chan' = Shut(channel)
        BY <1>6 DEF Unresponsive, IInv, TypeOK
      <3>2. chan'[channel] = "closing"
        BY <2>2, <3>1, ShutLemma
      <3> QED
        BY <3>1, <3>2 DEF Recovering
    <2> QED
      BY <2>1, <2>2
  <1>7. ASSUME NEW c \in Chan, ChannelClosed(c)
        PROVE  Recovering'
    <2>1. CASE closed
      BY <1>7, <2>1 DEF ChannelClosed, IInv, ClosedIsQuiet, Recovering
    <2>2. CASE ~closed
      BY <1>7, <2>2, ScheduleWorks DEF ChannelClosed, OnClose, Recovering
    <2> QED
      BY <2>1, <2>2
  <1>8. ASSUME NEW c \in Chan, OpenerOk(c)
        PROVE  Recovering'
    <2>1. CASE Abandoned
      BY <1>8, <2>1 DEF OpenerOk, Abandoned, IInv, ClosedIsQuiet, Recovering
    <2>2. CASE ~Abandoned
      BY <1>8, <2>2, NoChanAssumption DEF OpenerOk, Wire, Recovering
    <2> QED
      BY <2>1, <2>2
  <1>9. CASE EnvironmentDone
    <2>1. CASE StillMine
      BY <1>9, <2>1 DEF EnvironmentDone, StillMine, IInv, MineIsSet, Recovering
    <2>2. CASE ~StillMine /\ OwnedElsewhere
      BY <1>9, <2>2
      DEF EnvironmentDone, OwnedElsewhere, backoffVars, IInv, ClosedIsQuiet, Recovering
    <2>3. CASE ~StillMine /\ ~OwnedElsewhere /\ retried
      BY <1>9, <2>3, RejectWorks DEF EnvironmentDone, Recovering
    <2>4. CASE ~StillMine /\ ~OwnedElsewhere /\ ~retried
      BY <1>9, <2>4 DEF EnvironmentDone, Recovering
    <2> QED
      BY <2>1, <2>2, <2>3, <2>4
  <1>10. CASE UNCHANGED vars
    BY <1>10 DEF vars, hostVars, attachVars, backoffVars, Recovering
  <1> QED
    BY <1>1, <1>2, <1>3, <1>4, <1>5, <1>6, <1>7, <1>8, <1>9, <1>10 DEF Next, Macrotask

\* While somebody wants the channel, something is on its way to bring it up or
\* the manager has given up, whenever close events come.
THEOREM RecoveringAlways == Spec => []Recovering
  <1>1. Init => Recovering
    BY DEF Init, Recovering
  <1> QED
    BY <1>1, RecoveringStep, Invariance, PTL DEF Spec

-----------------------------------------------------------------------------
(* Replies answer the commands they settle.                                *)

\* Nothing is pending on a manager that has no channel, and its queue is free
\* to begin with the next one.
LEMMA QueueDropped ==
    ASSUME QueueInOrder, channel' = NoChan, pending' = <<>>, crossed' = crossed,
           UNCHANGED <<written, blocks>>,
           \A c \in Chan : chan'[c] = "free" => chan[c] = "free"
    PROVE  QueueInOrder'
  BY DEF QueueInOrder

LEMMA QueueKept ==
    ASSUME QueueInOrder,
           UNCHANGED <<chan, written, blocks, channel, sawInitialBlock, pending, crossed>>
    PROVE  QueueInOrder'
  BY DEF QueueInOrder, NextAnswered

LEMMA QueueOpened ==
    ASSUME SyncClose, IInv, QueueInOrder, NEW c \in Chan, OpenerOk(c)
    PROVE  QueueInOrder'
  <1>1. channel = NoChan /\ pending = <<>> /\ written[c] = 0 /\ blocks[c] = 0
    BY DEF OpenerOk, IInv, OpensOnlyWhenDown, QueueInOrder
  <1>2. /\ chan \in [Chan -> {"free", "open", "closing", "dead"}]
        /\ written \in [Chan -> Nat] /\ blocks' = blocks /\ crossed' = crossed
    BY DEF OpenerOk, IInv, TypeOK
  <1>3. CASE Abandoned
    BY <1>1, <1>2, <1>3 DEF OpenerOk, QueueInOrder
  <1>4. CASE ~Abandoned
    <2>1. chan' = [chan EXCEPT ![c] = "open"] /\ channel' = c /\ sawInitialBlock' = FALSE
      BY <1>4 DEF OpenerOk, Wire
    <2>2. \A d \in Chan : chan'[d] = "free" => d # c /\ chan[d] = "free"
      BY <1>2, <2>1
    <2>3. CASE written' = written /\ pending' = pending
      <3>1. Len(pending') = 0 /\ NextAnswered' = 1
        BY <1>1, <2>1, <2>3 DEF NextAnswered
      <3> QED
        BY <1>1, <1>2, <2>1, <2>2, <2>3, <3>1 DEF QueueInOrder
    <2>4. CASE written' = [written EXCEPT ![c] = 1] /\ pending' = Append(pending, <<c, 1>>)
      <3>1. pending' = <<<<c, 1>>>>
        BY <1>1, <2>4
      <3>2. Len(pending') = 1 /\ pending'[1] = <<c, 1>> /\ NextAnswered' = 1
        BY <2>1, <3>1 DEF NextAnswered
      <3>3. written'[c] = 1 /\ \A d \in Chan \ {c} : written'[d] = written[d]
        BY <1>2, <2>4
      <3> QED
        BY <1>1, <1>2, <2>1, <2>2, <3>2, <3>3 DEF QueueInOrder
    <2> QED
      BY <1>4, <2>3, <2>4 DEF OpenerOk
  <1> QED
    BY <1>3, <1>4

LEMMA QueueGrows ==
    ASSUME IInv, QueueInOrder, Command
    PROVE  QueueInOrder'
  <1>1. /\ channel \in Chan /\ channel # NoChan /\ chan[channel] = "open"
        /\ UNCHANGED <<chan, blocks, channel, sawInitialBlock, crossed>>
        /\ written' = [written EXCEPT ![channel] = @ + 1]
        /\ pending' = Append(pending, <<channel, written'[channel]>>)
    BY DEF Command, IInv, TypeOK, ChannelIsOpen
  <1>2. /\ written \in [Chan -> Nat] /\ blocks \in [Chan -> Nat]
        /\ pending \in Seq(Chan \X Nat)
    BY DEF IInv, TypeOK
  <1> DEFINE n == NextAnswered
             w == written[channel]
             l == Len(pending)
  <1>3. n \in Nat /\ w \in Nat /\ l \in Nat /\ NextAnswered' = n
    BY <1>1, <1>2 DEF NextAnswered
  <1>4. written'[channel] = w + 1 /\ \A d \in Chan \ {channel} : written'[d] = written[d]
    BY <1>1, <1>2
  <1>5. <<channel, w + 1>> \in Chan \X Nat
    BY <1>1, <1>3
  <1>6. pending' = Append(pending, <<channel, w + 1>>)
    BY <1>1, <1>4
  <1>7. /\ Len(pending') = l + 1 /\ pending'[l + 1] = <<channel, w + 1>>
        /\ \A k \in 1 .. l : pending'[k] = pending[k]
    BY <1>2, <1>5, <1>6, AppendProperties
  <1>8. l = w + 1 - n /\ \A k \in 1 .. l : pending[k] = <<channel, n + k - 1>>
    BY <1>1 DEF QueueInOrder
  <1> HIDE DEF n, w, l
  <1>9. Len(pending') = (w + 1) + 1 - n /\ n + (l + 1) - 1 = w + 1
    BY <1>3, <1>7, <1>8
  <1>10. \A k \in 1 .. (l + 1) : k \in 1 .. l \/ k = l + 1
    BY <1>3
  <1>11. \A k \in 1 .. Len(pending') : pending'[k] = <<channel, n + k - 1>>
    BY <1>7, <1>8, <1>9, <1>10
  <1>12. \A c \in Chan : chan'[c] = "free" => written'[c] = 0 /\ blocks'[c] = 0
    BY <1>1, <1>4 DEF QueueInOrder
  <1>13. ~crossed' /\ (sawInitialBlock' <=> blocks'[channel'] > 0)
    BY <1>1 DEF QueueInOrder
  <1>14. Len(pending') = written'[channel'] + 1 - NextAnswered'
    BY <1>1, <1>3, <1>4, <1>9
  <1>15. \A k \in 1 .. Len(pending') : pending'[k] = <<channel', NextAnswered' + k - 1>>
    BY <1>1, <1>3, <1>11
  <1> QED
    BY <1>1, <1>12, <1>13, <1>14, <1>15 DEF QueueInOrder

LEMMA QueueAnswered ==
    ASSUME SyncClose, IInv, QueueInOrder, NEW c \in Chan, Reply(c)
    PROVE  QueueInOrder'
  <1>1. /\ channel = c /\ channel # NoChan /\ chan[c] = "open"
        /\ UNCHANGED <<chan, written, channel>>
        /\ blocks' = [blocks EXCEPT ![c] = @ + 1] /\ blocks[c] <= written[c]
    BY NoChanAssumption DEF Reply, IInv, KnowsItsChannel, ChannelIsOpen
  <1>2. /\ written \in [Chan -> Nat] /\ blocks \in [Chan -> Nat]
        /\ pending \in Seq(Chan \X Nat) /\ sawInitialBlock \in BOOLEAN
    BY DEF IInv, TypeOK
  <1> DEFINE b == blocks[c]
             w == written[c]
             l == Len(pending)
  <1>3. b \in Nat /\ w \in Nat /\ l \in Nat /\ b <= w /\ written'[c] = w
    BY <1>1, <1>2
  <1>4. blocks'[c] = b + 1 /\ \A d \in Chan \ {c} : blocks'[d] = blocks[d]
    BY <1>1, <1>2
  <1>5. \A d \in Chan : chan'[d] = "free" => written'[d] = 0 /\ blocks'[d] = 0
    BY <1>1, <1>4 DEF QueueInOrder
  <1>6. CASE ~sawInitialBlock
    <2>1. sawInitialBlock' = TRUE /\ pending' = pending /\ crossed' = crossed
      BY <1>6 DEF Reply
    <2>2. b = 0 /\ NextAnswered = 1 /\ NextAnswered' = 1 /\ blocks'[channel'] = 1
      BY <1>1, <1>3, <1>4, <1>6, <2>1 DEF QueueInOrder, NextAnswered
    <2> QED
      BY <1>1, <1>5, <2>1, <2>2 DEF QueueInOrder
  <1>7. CASE sawInitialBlock
    <2>1. NextAnswered = b /\ b > 0
      BY <1>1, <1>7 DEF NextAnswered, QueueInOrder
    <2>2. l = w + 1 - b /\ \A k \in 1 .. l : pending[k] = <<c, b + k - 1>>
      BY <1>1, <2>1 DEF QueueInOrder
    <2>3. l > 0 /\ 1 \in 1 .. l
      <3> HIDE DEF b, w, l
      <3> QED
        BY <1>3, <2>2
    <2>4. pending # <<>>
      BY <1>2, <2>3
    <2>5. /\ Head(pending) = pending[1]
          /\ Tail(pending) \in Seq(Chan \X Nat) /\ Len(Tail(pending)) = l - 1
          /\ \A k \in 1 .. Len(Tail(pending)) : Tail(pending)[k] = pending[k + 1]
      BY <1>2, <2>4, HeadTailProperties
    <2>6. pending[1] = <<c, b>>
      <3>1. b + 1 - 1 = b
        BY <1>3
      <3> QED
        BY <2>2, <2>3, <3>1
    <2>7. /\ pending' = Tail(pending) /\ crossed' = crossed /\ sawInitialBlock' = TRUE
      BY <1>7, <2>4, <2>5, <2>6 DEF Reply, IInv, TypeOK
    <2>8. Len(pending') = (w + 1) - (b + 1)
      <3> HIDE DEF b, w, l
      <3> QED
        BY <1>3, <2>2, <2>5, <2>7
    <2>9. \A k \in 1 .. Len(pending') : pending'[k] = <<c, (b + 1) + k - 1>>
      <3> SUFFICES ASSUME NEW k \in 1 .. Len(pending')
                   PROVE  pending'[k] = <<c, (b + 1) + k - 1>>
        OBVIOUS
      <3>1. k + 1 \in 1 .. l /\ b + (k + 1) - 1 = (b + 1) + k - 1
        <4> HIDE DEF b, w, l
        <4> QED
          BY <1>3, <2>5, <2>7
      <3>2. pending'[k] = pending[k + 1]
        BY <2>5, <2>7
      <3> QED
        BY <2>2, <3>1, <3>2
    <2>10. NextAnswered' = b + 1 /\ blocks'[channel'] > 0
      BY <1>1, <1>3, <1>4, <2>7 DEF NextAnswered
    <2>11. /\ Len(pending') = written'[channel'] + 1 - NextAnswered'
           /\ \A k \in 1 .. Len(pending') : pending'[k] = <<channel', NextAnswered' + k - 1>>
      BY <1>1, <1>3, <2>8, <2>9, <2>10
    <2> QED
      BY <1>1, <1>5, <2>7, <2>10, <2>11 DEF QueueInOrder
  <1> QED
    BY <1>2, <1>6, <1>7

LEMMA QueueStep ==
    ASSUME SyncClose, IInv, QueueInOrder, [Next]_vars
    PROVE  QueueInOrder'
  <1>1. CASE Open \/ TimerFires \/ OpenerFail \/ EnvironmentDone \/ StableTimer \/ UNCHANGED vars
    BY <1>1, QueueKept
    DEF Open, TimerFires, OpenerFail, EnvironmentDone, StableTimer, vars, hostVars
  <1>2. CASE Close
    <2>1. CASE channel = NoChan
      BY <1>2, <2>1, QueueDropped DEF Close, QueueInOrder
    <2>2. CASE channel # NoChan
      <3>1. channel \in Chan /\ chan' = Shut(channel) /\ pending' = <<>>
        BY <1>2, <2>2 DEF Close, IInv, TypeOK
      <3>2. \A c \in Chan : chan'[c] = "free" => chan[c] = "free"
        BY <3>1, ShutLemma
      <3> QED
        BY <1>2, <3>1, <3>2, QueueDropped DEF Close
    <2> QED
      BY <2>1, <2>2
  <1>3. CASE Unresponsive
    <2>1. channel \in Chan /\ chan' = Shut(channel) /\ pending' = <<>>
      BY <1>3 DEF Unresponsive, IInv, TypeOK
    <2>2. \A c \in Chan : chan'[c] = "free" => chan[c] = "free"
      BY <2>1, ShutLemma
    <2> QED
      BY <1>3, <2>1, <2>2, QueueDropped DEF Unresponsive
  <1>4. ASSUME NEW c \in Chan, ChannelClosed(c)
        PROVE  QueueInOrder'
    <2>1. \A d \in Chan : chan'[d] = "free" => chan[d] = "free"
      BY <1>4 DEF ChannelClosed, IInv, TypeOK
    <2> QED
      BY <1>4, <2>1, QueueDropped DEF ChannelClosed, OnClose
  <1> QED
    BY <1>1, <1>2, <1>3, <1>4, QueueGrows, QueueAnswered, QueueOpened DEF Next, Macrotask

\* When close() delivers its event itself, a reply settles the command it
\* answers: the queue stays correlated through drops, reattaches and the
\* unsolicited first block.
THEOREM RepliesMatchAlways ==
    ASSUME SyncClose
    PROVE  Spec => []RepliesMatch
  <1>1. Init => QueueInOrder
    BY DEF Init, QueueInOrder
  <1>2. QueueInOrder => RepliesMatch
    BY DEF QueueInOrder, RepliesMatch
  <1>3. IInv /\ QueueInOrder /\ [Next]_vars => QueueInOrder'
    BY QueueStep
  <1> QED
    BY <1>1, <1>2, <1>3, Invariance, PTL DEF Spec
=============================================================================
