------------------------- MODULE ControlReinitProofs -------------------------
(***************************************************************************)
(* Proofs about ControlReinit, for any sessions, any bounds and either     *)
(* value of showRunPanel, provided no teardown meets a reinit half way     *)
(* (~LateReplies).                                                         *)
(*                                                                         *)
(* The invariant follows a reinit through its stages: while it has a plan, *)
(* carrying out what is left of the plan puts the reserved windows in      *)
(* order, whatever the user opens or closes meanwhile (Fits); once it has  *)
(* read the names they are in order and the view has the windows of tmux   *)
(* (StageOK); all of it for the epoch the reinit was started for, which is *)
(* the channel's only as long as that channel lives.                       *)
(***************************************************************************)
EXTENDS ControlReinit, FiniteSetTheorems, WellFoundedInduction, TLAPS

Ids == 1..(nextId - 1)
Plans == [kill : [holders : SUBSET Ids, runs : SUBSET Ids], rename : SUBSET Ids,
          create : SUBSET {"persistent", "run-1", "tab"}]
Ctls == [channel : Nat, initialized : Nat, flight : RunIds \union {None}, pending : BOOLEAN,
         retry : BOOLEAN, attempts : 0..MaxRetry, gaveUp : BOOLEAN]
Reinits == [RunIds -> [at : {"free"} \union Stages, target : Nat, todo : Plans]]

Typed ==
    /\ nextId \in Nat \ {0}
    /\ DOMAIN windows \subseteq Ids /\ \A i \in DOMAIN windows : windows[i] \in Names
    /\ DOMAIN shown \subseteq Ids
    /\ \A i \in DOMAIN shown : shown[i].name \in Names /\ shown[i].laid \in BOOLEAN
    /\ link \in {"none", "lost", "up"} /\ epoch \in 0..MaxEpoch
    /\ connected \in BOOLEAN /\ viewing \in BOOLEAN /\ active \in BOOLEAN /\ opening \in BOOLEAN
    /\ asked \in 0..MaxOpens /\ (opening => asked > 0)
    /\ ctl \in Ctls /\ runs \in Reinits

Idle == \A r \in RunIds : runs[r].at = "free"

(* reinitInFlight *)
FlightOK ==
    /\ IF ctl.flight = None THEN \E r \in RunIds : runs[r].at = "free"
       ELSE runs[ctl.flight].at # "free"
    /\ connected => \A r \in RunIds : runs[r].at # "free" => r = ctl.flight

(* channelEpoch and initializedEpoch *)
EpochOK ==
    /\ ~connected => epoch = 0
    /\ epoch = 0 => link = "none" /\ ctl.initialized = 0 /\ \A r \in RunIds : runs[r].at # "restore"
    /\ connected /\ epoch = 0 => Idle /\ ~ctl.retry
    /\ connected /\ epoch > 0 =>
          /\ ctl.channel = epoch /\ ctl.initialized <= epoch
          /\ ctl.initialized = epoch => Idle
          /\ \A r \in RunIds : runs[r].at # "free" => runs[r].target \in 1..epoch

(* What is not initialized is being worked on, or will be *)
Going == Serving /\ asked = 0 /\ ~ctl.retry /\ ~ctl.gaveUp /\ ctl.flight = None
              => ctl.initialized = ctl.channel

Holders == Of(windows, {"persistent"})
RunTtys == Of(windows, Runs)
HolderKept == \A i, j \in RunTtys : i # j => Holders # {}

(* The rest of a plan puts the reserved windows in order *)
Killed(p) == p.kill.holders \union p.kill.runs
Fits(p) ==
    /\ IF "persistent" \in p.create THEN Holders = {} /\ Killed(p) = {}
       ELSE \E h \in Holders : h \notin Killed(p) /\ Holders \subseteq {h} \union Killed(p)
    /\ \A i, j \in RunTtys \ Killed(p) : i = j
    /\ "run-1" \in p.create => RunTtys = {}
    /\ \A i \in RunTtys \ Killed(p) : windows[i] = "run-2" => i \in p.rename
    /\ p.rename \intersect DOMAIN windows \subseteq RunTtys \ Killed(p)

InOrder == /\ \E h \in Holders : Holders = {h}
           /\ \A i, j \in RunTtys : i = j
           /\ \A i \in RunTtys : windows[i] = "run-1"
SameNames == DOMAIN shown = DOMAIN windows /\ \A i \in DOMAIN shown : shown[i].name = windows[i]
AllLaid == \A i \in DOMAIN shown : shown[i].laid

StageOK(r) ==
    /\ connected /\ runs[r].at = "mutate" => Fits(runs[r].todo)
    /\ connected /\ link = "up" /\ runs[r].target = epoch =>
          /\ runs[r].at \in {"names", "layouts", "restore"} => InOrder
          /\ runs[r].at \in {"layouts", "restore"} => SameNames
          /\ runs[r].at = "restore" => AllLaid
StagesOK == \A r \in RunIds : StageOK(r)
DoneOK == connected /\ link = "up" /\ ctl.initialized = epoch => InOrder /\ SameNames /\ AllLaid

IInv == Typed /\ FlightOK /\ EpochOK /\ Going /\ HolderKept /\ StagesOK /\ DoneOK

-----------------------------------------------------------------------------
(* Numbers and sets of windows *)

LEMMA MinFacts ==
    ASSUME NEW S, S \subseteq Nat, S # {}
    PROVE  Min(S) \in S /\ \A y \in S : Min(S) <= y
  <1> DEFINE R == OpToRel(<, Nat)
  <1>1. \E x \in S : \A y \in S : <<y, x>> \notin R
    <2>1. IsWellFoundedOn(R, Nat)
      BY NatLessThanWellFounded
    <2> HIDE DEF R
    <2> QED
      BY <2>1, WFMin
  <1>2. PICK x \in S : \A y \in S : <<y, x>> \notin R
    BY <1>1
  <1>3. ASSUME NEW y \in S PROVE x <= y
    <2>1. x \in Nat /\ y \in Nat
      OBVIOUS
    <2>2. <<y, x>> \notin R
      BY <1>2
    <2>3. y < x => <<y, x>> \in R
      BY <2>1 DEF OpToRel
    <2>4. ~(y < x)
      BY <2>2, <2>3
    <2> HIDE DEF R
    <2> QED
      BY <2>1, <2>4
  <1> QED
    BY <1>3 DEF Min

LEMMA SpareFacts ==
    ASSUME NEW S, S \subseteq Nat
    PROVE  /\ Spare(S) \subseteq S
           /\ S = {} => Spare(S) = {}
           /\ S # {} => Min(S) \in S /\ Min(S) \notin Spare(S) /\ S = {Min(S)} \union Spare(S)
  BY MinFacts DEF Spare

LEMMA MoreThanOne ==
    ASSUME NEW n \in Nat, NEW S, S \subseteq 1..n, NEW a \in S, NEW b \in S, a # b
    PROVE  Cardinality(S) > 1
  <1>1. IsFiniteSet(S)
    <2>1. IsFiniteSet(1..n)
      BY FS_Interval
    <2> QED
      BY <2>1, FS_Subset
  <1>2. IsFiniteSet({a}) /\ Cardinality({a}) = 1
    BY FS_Singleton
  <1>3. IsFiniteSet({a} \union {b}) /\ Cardinality({a} \union {b}) = 2
    <2>1. b \notin {a}
      OBVIOUS
    <2>2. /\ IsFiniteSet({a} \union {b})
          /\ Cardinality({a} \union {b}) = IF b \in {a} THEN Cardinality({a}) ELSE Cardinality({a}) + 1
      BY <1>2, FS_AddElement
    <2> QED
      BY <1>2, <2>1, <2>2
  <1>4. Cardinality({a} \union {b}) <= Cardinality(S)
    BY <1>1, FS_Subset
  <1>5. Cardinality(S) \in Nat
    BY <1>1, FS_CardinalityType
  <1> QED
    BY <1>3, <1>4, <1>5

LEMMA OfFacts ==
    ASSUME Typed
    PROVE  /\ Holders \subseteq DOMAIN windows /\ Holders \subseteq Nat
           /\ RunTtys \subseteq DOMAIN windows /\ RunTtys \subseteq Nat
           /\ Holders \intersect RunTtys = {}
           /\ \A i \in DOMAIN windows : /\ i \in Holders <=> windows[i] = "persistent"
                                        /\ i \in RunTtys <=> windows[i] \in Runs
  BY DEF Typed, Ids, Holders, RunTtys, Of, Runs

-----------------------------------------------------------------------------
(* maybeReinit *)

States == [ctl : Ctls, runs : Reinits]
FirstStage(c) == [at |-> "list", target |-> c.channel, todo |-> NoPlan]

LEMMA NoPlanTypes ==
    NoPlan \in Plans /\ Free.at = "free" /\ Free \in [at : {"free"} \union Stages, target : Nat, todo : Plans]
  BY DEF NoPlan, Plans, Free, Stages

(* What maybeReinit makes of s: nothing, or a reinit q for the channel *)
HasRoom(s) == s.ctl.flight = None => \E q \in RunIds : s.runs[q].at = "free"
Waits(t, s, act) ==
    /\ t.runs = s.runs /\ t.ctl.flight = s.ctl.flight /\ t.ctl.gaveUp = s.ctl.gaveUp
    /\ act /\ Behind(s.ctl) => s.ctl.flight # None
Starts(t, s, q) ==
    /\ q \in RunIds
    /\ s.ctl.flight = None /\ s.runs[q].at = "free" /\ Behind(s.ctl)
    /\ t.ctl.flight = q
    /\ t.runs = [s.runs EXCEPT ![q] = FirstStage(s.ctl)]
MayStart(t, s, act) ==
    /\ t \in States
    /\ t.ctl.channel = s.ctl.channel /\ t.ctl.initialized = s.ctl.initialized
    /\ t.ctl.retry = s.ctl.retry
    /\ Waits(t, s, act) \/ \E q : Starts(t, s, q)

LEMMA MaybeReinitFacts ==
    ASSUME NEW s \in States, NEW act \in BOOLEAN, HasRoom(s), NEW t, t = MaybeReinit(s, act)
    PROVE  MayStart(t, s, act)
  <1>1. CASE ~act \/ ~Behind(s.ctl)
    BY <1>1 DEF MaybeReinit, MayStart, Waits
  <1>2. CASE act /\ Behind(s.ctl) /\ s.ctl.flight # None
    <2>1. t = [s EXCEPT !.ctl.pending = TRUE]
      BY <1>2 DEF MaybeReinit
    <2> QED
      BY <1>2, <2>1 DEF States, Ctls, MayStart, Waits
  <1>3. CASE act /\ Behind(s.ctl) /\ s.ctl.flight = None
    <2>1. PICK r : r = CHOOSE q \in RunIds : s.runs[q].at = "free"
      OBVIOUS
    <2>2. r \in RunIds /\ s.runs[r].at = "free"
      BY <1>3, <2>1 DEF HasRoom
    <2>3. t = [s EXCEPT !.ctl.flight = r, !.ctl.gaveUp = FALSE, !.runs[r] = FirstStage(s.ctl)]
      BY <1>3, <2>1 DEF MaybeReinit, FirstStage
    <2>4. FirstStage(s.ctl) \in [at : {"free"} \union Stages, target : Nat, todo : Plans]
      BY NoPlanTypes DEF FirstStage, States, Ctls, Stages
    <2>5. t.runs = [s.runs EXCEPT ![r] = FirstStage(s.ctl)] /\ t.runs \in Reinits
      BY <2>2, <2>3, <2>4 DEF States, Reinits
    <2>6. t.ctl = [s.ctl EXCEPT !.flight = r, !.gaveUp = FALSE]
      BY <2>3 DEF States
    <2>7. t.ctl \in Ctls
      <3>1. s.ctl \in Ctls
        BY DEF States
      <3> QED
        BY <2>2, <2>6, <3>1 DEF Ctls
    <2>8. t \in States
      BY <2>3, <2>5, <2>7 DEF States
    <2>9. /\ t.ctl.channel = s.ctl.channel /\ t.ctl.initialized = s.ctl.initialized
          /\ t.ctl.retry = s.ctl.retry /\ t.ctl.flight = r
      BY <2>6 DEF States, Ctls
    <2> QED
      BY <1>3, <2>2, <2>5, <2>8, <2>9 DEF MayStart, Starts
  <1> QED
    BY <1>1, <1>2, <1>3

-----------------------------------------------------------------------------
(* The end of a reinit, and a start *)

(* How a step of the flight changes the reinits *)
RunsMove == \A q \in RunIds : \/ runs'[q] = runs[q] \/ runs'[q] = Free
                              \/ runs'[q] = FirstStage(ctl') /\ ctl'.flight = q

LEMMA SettleFacts ==
    ASSUME Typed, NEW r \in RunIds, NEW c \in Ctls, NEW t, t = Settle(c, r)
    PROVE  /\ t \in States
           /\ t.ctl.channel = c.channel /\ t.ctl.initialized = c.initialized
           /\ t.ctl.retry = c.retry
           /\ \/ /\ t.runs = [runs EXCEPT ![r] = Free]
                 /\ t.ctl.flight = (IF c.flight = r THEN None ELSE c.flight)
                 /\ t.ctl.gaveUp = c.gaveUp
                 /\ active /\ c.initialized # 0 /\ Behind(c) => t.ctl.flight # None
              \/ \E q \in RunIds :
                    /\ c.flight \in {r, None} /\ Behind(c)
                    /\ q = r \/ runs[q].at = "free"
                    /\ t.ctl.flight = q
                    /\ t.runs = [[runs EXCEPT ![r] = Free] EXCEPT ![q] = FirstStage(c)]
  <1>1. PICK d : d = [c EXCEPT !.flight = IF @ = r THEN None ELSE @, !.pending = FALSE]
    OBVIOUS
  <1>2. /\ d \in Ctls /\ d.channel = c.channel /\ d.initialized = c.initialized
        /\ d.retry = c.retry /\ d.gaveUp = c.gaveUp
        /\ d.flight = (IF c.flight = r THEN None ELSE c.flight)
    BY <1>1 DEF Ctls
  <1>3. PICK s : s = [ctl |-> d, runs |-> [runs EXCEPT ![r] = Free]]
    OBVIOUS
  <1>4. s \in States /\ s.ctl = d /\ s.runs = [runs EXCEPT ![r] = Free]
    <2>1. [runs EXCEPT ![r] = Free] \in Reinits
      BY NoPlanTypes DEF Typed, Reinits
    <2> QED
      BY <1>2, <1>3, <2>1 DEF States
  <1>5. s.runs[r].at = "free" /\ \A q \in RunIds : q # r => s.runs[q] = runs[q]
    BY <1>4, NoPlanTypes DEF Typed, Reinits
  <1>6. Behind(d) <=> Behind(c)
    BY <1>2 DEF Behind
  <1>7. CASE c.pending \/ (c.initialized # 0 /\ c.channel # c.initialized)
    <2>1. t = MaybeReinit(s, active)
      BY <1>1, <1>3, <1>7 DEF Settle
    <2>2. active \in BOOLEAN
      BY DEF Typed
    <2>6. HasRoom(s)
      BY <1>5 DEF HasRoom
    <2>7. MayStart(t, s, active)
      BY <1>4, <2>1, <2>2, <2>6, MaybeReinitFacts
    <2>3. /\ t \in States
          /\ t.ctl.channel = d.channel /\ t.ctl.initialized = d.initialized
          /\ t.ctl.retry = d.retry
          /\ \/ /\ t.runs = s.runs /\ t.ctl.flight = d.flight /\ t.ctl.gaveUp = d.gaveUp
                /\ active /\ Behind(d) => d.flight # None
             \/ \E q \in RunIds :
                    /\ d.flight = None /\ s.runs[q].at = "free" /\ Behind(d)
                    /\ t.ctl.flight = q
                    /\ t.runs = [s.runs EXCEPT ![q] = FirstStage(d)]
      BY <1>4, <2>7 DEF MayStart, Waits, Starts
    <2>4. FirstStage(d) = FirstStage(c)
      BY <1>2 DEF FirstStage
    <2>5. d.flight = None => c.flight \in {r, None}
      BY <1>2
    <2> QED
      BY <1>2, <1>4, <1>5, <1>6, <2>3, <2>4, <2>5
  <1>8. CASE ~(c.pending \/ (c.initialized # 0 /\ c.channel # c.initialized))
    <2>1. t = s
      BY <1>1, <1>3, <1>8 DEF Settle
    <2> QED
      BY <1>2, <1>4, <1>8, <2>1 DEF Behind
  <1> QED
    BY <1>7, <1>8

LEMMA RunEnds ==
    ASSUME IInv, NEW r \in RunIds, runs[r].at # "free",
           NEW c \in Ctls, c.flight = ctl.flight, c.channel = ctl.channel,
           \/ c.initialized = ctl.initialized /\ (c.retry \/ c.gaveUp)
           \/ c.initialized = runs[r].target /\ runs[r].at = "restore",
           Becomes(Settle(c, r)), UNCHANGED <<tmux, shown, Rest>>
    PROVE  IInv'
  <1>1. PICK t : t = Settle(c, r)
    OBVIOUS
  <1>2. ctl' = t.ctl /\ runs' = t.runs
    BY <1>1 DEF Becomes
  <1>3. /\ windows' = windows /\ nextId' = nextId /\ shown' = shown
        /\ link' = link /\ epoch' = epoch /\ connected' = connected
        /\ viewing' = viewing /\ active' = active /\ asked' = asked /\ opening' = opening
    BY DEF tmux, Rest, main, open
  <1>4. Typed /\ FlightOK /\ EpochOK
    BY DEF IInv
  <1>5. /\ t \in States
        /\ t.ctl.channel = c.channel /\ t.ctl.initialized = c.initialized
        /\ t.ctl.retry = c.retry
        /\ \/ /\ t.runs = [runs EXCEPT ![r] = Free]
              /\ t.ctl.flight = (IF c.flight = r THEN None ELSE c.flight)
              /\ t.ctl.gaveUp = c.gaveUp
              /\ active /\ c.initialized # 0 /\ Behind(c) => t.ctl.flight # None
           \/ \E q \in RunIds :
                 /\ c.flight \in {r, None} /\ Behind(c)
                 /\ q = r \/ runs[q].at = "free"
                 /\ t.ctl.flight = q
                 /\ t.runs = [[runs EXCEPT ![r] = Free] EXCEPT ![q] = FirstStage(c)]
    BY <1>1, <1>4, SettleFacts
  <1>6. Typed'
    BY <1>2, <1>3, <1>4, <1>5 DEF Typed, States, Ids, Plans, Reinits
  <1>7. connected => epoch > 0 /\ ctl.channel = epoch /\ ctl.initialized # epoch
                     /\ r = ctl.flight /\ runs[r].target \in 1..epoch
                     /\ \A x \in RunIds : x # r => runs[x].at = "free"
    BY <1>4 DEF Typed, FlightOK, EpochOK, Idle
  <1>8. ~connected => c.initialized = ctl.initialized
    BY <1>4 DEF EpochOK
  <1>9. FirstStage(c) = FirstStage(ctl') /\ Free.at = "free" /\ FirstStage(c).at = "list"
        /\ FirstStage(c).target = ctl.channel
    BY <1>2, <1>5, NoPlanTypes DEF FirstStage
  <1>10. CASE /\ t.runs = [runs EXCEPT ![r] = Free]
              /\ t.ctl.flight = (IF c.flight = r THEN None ELSE c.flight)
              /\ t.ctl.gaveUp = c.gaveUp
              /\ active /\ c.initialized # 0 /\ Behind(c) => t.ctl.flight # None
    <2>1. runs'[r] = Free /\ \A x \in RunIds : x # r => runs'[x] = runs[x]
      BY <1>2, <1>4, <1>10 DEF Typed, Reinits
    <2>2. FlightOK'
      BY <1>2, <1>3, <1>4, <1>9, <1>10, <2>1, RunIdsAssumption DEF FlightOK, None, Typed, Ctls
    <2>3. connected => ctl'.flight = None /\ Idle'
      BY <1>2, <1>7, <1>9, <1>10, <2>1 DEF Idle
    <2>4. EpochOK'
      BY <1>2, <1>3, <1>4, <1>5, <1>7, <1>8, <1>9, <2>1, <2>3 DEF EpochOK, Typed, Idle
    <2>5. Going'
      BY <1>2, <1>3, <1>5, <1>7, <1>10, <2>3 DEF Going, Serving, Behind
    <2>6. StagesOK'
      BY <1>3, <1>9, <2>1 DEF IInv, StagesOK, StageOK, Fits, InOrder, SameNames, AllLaid, Holders, RunTtys
    <2>7. DoneOK'
      BY <1>2, <1>3, <1>5, <1>7 DEF IInv, DoneOK, StagesOK, StageOK, InOrder, SameNames, AllLaid, Holders, RunTtys
    <2> QED
      BY <1>3, <1>6, <2>2, <2>4, <2>5, <2>6, <2>7 DEF IInv, HolderKept, Holders, RunTtys
  <1>11. ASSUME NEW q \in RunIds, c.flight \in {r, None}, Behind(c), q = r \/ runs[q].at = "free",
                t.ctl.flight = q, t.runs = [[runs EXCEPT ![r] = Free] EXCEPT ![q] = FirstStage(c)]
         PROVE  IInv'
    <2>1. runs'[q] = FirstStage(c) /\ \A x \in RunIds : x # q => runs'[x] = IF x = r THEN Free ELSE runs[x]
      BY <1>2, <1>4, <1>11 DEF Typed, Reinits
    <2>2. q # None /\ ctl'.flight = q
      BY <1>2, <1>11, RunIdsAssumption DEF None
    <2>3. connected => \A x \in RunIds : x # q => runs'[x].at = "free"
      BY <1>7, <1>9, <2>1
    <2>4. FlightOK'
      BY <1>3, <1>9, <2>1, <2>2, <2>3 DEF FlightOK
    <2>5. connected => c.initialized # epoch
      BY <1>7, <1>11 DEF Behind
    <2>6. EpochOK'
      BY <1>2, <1>3, <1>4, <1>5, <1>7, <1>8, <1>9, <2>1, <2>3, <2>5 DEF EpochOK, Typed, Idle
    <2>7. Going'
      BY <2>2 DEF Going
    <2>8. StagesOK'
      BY <1>3, <1>9, <2>1 DEF IInv, StagesOK, StageOK, Fits, InOrder, SameNames, AllLaid, Holders, RunTtys
    <2>9. DoneOK'
      BY <1>2, <1>3, <1>5, <2>5 DEF DoneOK
    <2> QED
      BY <1>3, <1>6, <2>4, <2>6, <2>7, <2>8, <2>9 DEF IInv, HolderKept, Holders, RunTtys
  <1> QED
    BY <1>5, <1>10, <1>11

(* A reinit that has not synced *)
LEMMA NotSyncedKeeps ==
    ASSUME IInv, NEW r \in RunIds, runs[r].at # "free", NotSynced(r), UNCHANGED <<tmux, shown, Rest>>
    PROVE  IInv'
  <1>1. PICK c : c = ScheduleRetry(ctl)
    OBVIOUS
  <1>2. ctl \in Ctls
    BY DEF IInv, Typed
  <1>3. /\ c \in Ctls /\ c.flight = ctl.flight /\ c.channel = ctl.channel
        /\ c.initialized = ctl.initialized /\ (c.retry \/ c.gaveUp)
    <2>1. MaxRetry \in Nat \ {0}
      BY BoundsAssumption
    <2>2. CASE ctl.attempts + 1 > MaxRetry
      <3>1. c = [ctl EXCEPT !.retry = FALSE, !.attempts = 0, !.gaveUp = TRUE]
        BY <1>1, <2>2 DEF ScheduleRetry
      <3>2. 0 \in 0..MaxRetry
        BY <2>1
      <3> QED
        BY <1>2, <3>1, <3>2 DEF Ctls
    <2>3. CASE ~(ctl.attempts + 1 > MaxRetry)
      <3>1. c = [ctl EXCEPT !.retry = TRUE, !.attempts = ctl.attempts + 1]
        BY <1>1, <2>3 DEF ScheduleRetry
      <3>2. ctl.attempts + 1 \in 0..MaxRetry
        BY <1>2, <2>1, <2>3 DEF Ctls
      <3> QED
        BY <1>2, <3>1, <3>2 DEF Ctls
    <2> QED
      BY <2>2, <2>3
  <1>4. Becomes(Settle(c, r))
    BY <1>1 DEF NotSynced
  <1> QED
    BY <1>3, <1>4, RunEnds

LEMMA SyncedKeeps ==
    ASSUME IInv, NEW r \in RunIds, runs[r].at = "restore", Synced(r), UNCHANGED <<tmux, shown, Rest>>
    PROVE  IInv'
  <1>1. PICK c : c = [ctl EXCEPT !.initialized = runs[r].target]
    OBVIOUS
  <1>2. ctl \in Ctls /\ runs[r].target \in Nat
    BY DEF IInv, Typed, Reinits
  <1>3. /\ c \in Ctls /\ c.flight = ctl.flight /\ c.channel = ctl.channel
        /\ c.initialized = runs[r].target
    BY <1>1, <1>2 DEF Ctls
  <1>4. Becomes(Settle(c, r))
    BY <1>1 DEF Synced
  <1> QED
    BY <1>3, <1>4, RunEnds

-----------------------------------------------------------------------------
(* Every step that may start a reinit: the retry, an open, an attach *)

LEMMA RoomForIt ==
    ASSUME FlightOK, NEW s \in States, s.runs = runs, s.ctl.flight = ctl.flight
    PROVE  HasRoom(s)
  BY DEF FlightOK, HasRoom

LEMMA MayStartFlight ==
    ASSUME Typed, FlightOK, NEW s \in States, s.runs = runs, s.ctl.flight = ctl.flight,
           NEW t, MayStart(t, s, active), ctl' = t.ctl, runs' = t.runs, connected' = connected
    PROVE  FlightOK'
  <1>1. CASE Waits(t, s, active)
    BY <1>1 DEF Waits, FlightOK
  <1>2. ASSUME NEW q, Starts(t, s, q) PROVE FlightOK'
    <2>1. q \in RunIds /\ q # None /\ ctl'.flight = q /\ ctl.flight = None
      BY <1>2, RunIdsAssumption DEF Starts, None
    <2>2. runs'[q].at = "list" /\ \A x \in RunIds : x # q => runs'[x] = runs[x]
      BY <1>2, <2>1 DEF Starts, Typed, Reinits, FirstStage
    <2>3. connected => \A x \in RunIds : x # q => runs'[x].at = "free"
      BY <2>1, <2>2, RunIdsAssumption DEF FlightOK, None
    <2> QED
      BY <2>1, <2>2, <2>3 DEF FlightOK
  <1> QED
    BY <1>1, <1>2 DEF MayStart

LEMMA MayStartRuns ==
    ASSUME Typed, NEW s \in States, s.runs = runs, NEW t, MayStart(t, s, active), runs' = t.runs
    PROVE  \A x \in RunIds : \/ runs'[x] = runs[x]
                             \/ /\ runs'[x] = FirstStage(s.ctl) /\ Behind(s.ctl)
                                /\ t.ctl.flight = x
  <1>1. CASE Waits(t, s, active)
    BY <1>1 DEF Waits
  <1>2. ASSUME NEW q, Starts(t, s, q), NEW x \in RunIds
        PROVE  \/ runs'[x] = runs[x]
               \/ runs'[x] = FirstStage(s.ctl) /\ Behind(s.ctl) /\ t.ctl.flight = x
    BY <1>2 DEF Starts, Typed, Reinits
  <1> QED
    BY <1>1, <1>2 DEF MayStart

LEMMA MayStartTyped ==
    ASSUME Typed, NEW s, NEW t, MayStart(t, s, active), ctl' = t.ctl, runs' = t.runs,
           windows' = windows, nextId' = nextId, shown' = shown,
           link' \in {"none", "lost", "up"}, epoch' \in 0..MaxEpoch,
           connected' = connected, viewing' = viewing, active' = active,
           opening' \in BOOLEAN, asked' \in 0..MaxOpens, opening' => asked' > 0
    PROVE  Typed'
  <1>1. ctl' \in Ctls /\ runs' \in Reinits
    BY DEF MayStart, States
  <1> QED
    BY <1>1 DEF Typed, Ids, Reinits, Plans

LEMMA MayStartKeeps ==
    ASSUME IInv, NEW s \in States, s.runs = runs, s.ctl.flight = ctl.flight,
           s.ctl.channel = ctl.channel, s.ctl.initialized = ctl.initialized,
           s.ctl.retry => ctl.retry, connected => epoch > 0,
           NEW t, t = MaybeReinit(s, active), ctl' = t.ctl, runs' = t.runs,
           windows' = windows, nextId' = nextId, shown' = shown, link' = link, epoch' = epoch,
           connected' = connected, viewing' = viewing, active' = active,
           opening' \in BOOLEAN, asked' \in 0..MaxOpens, opening' => asked' > 0
    PROVE  IInv'
  <1>1. Typed /\ FlightOK /\ EpochOK /\ HolderKept /\ StagesOK /\ DoneOK
    BY DEF IInv
  <1>2. MayStart(t, s, active)
    <2>1. active \in BOOLEAN /\ HasRoom(s)
      BY <1>1, RoomForIt DEF Typed
    <2> QED
      BY <2>1, MaybeReinitFacts
  <1>3. Typed'
    <2>1. link' \in {"none", "lost", "up"} /\ epoch' \in 0..MaxEpoch
      BY <1>1 DEF Typed
    <2> QED
      BY <1>1, <1>2, <2>1, MayStartTyped
  <1>4. FlightOK'
    BY <1>1, <1>2, MayStartFlight
  <1>5. \A x \in RunIds : \/ runs'[x] = runs[x]
                          \/ runs'[x] = FirstStage(s.ctl) /\ Behind(s.ctl) /\ t.ctl.flight = x
    BY <1>1, <1>2, MayStartRuns
  <1>6. /\ ctl'.channel = ctl.channel /\ ctl'.initialized = ctl.initialized
        /\ ctl'.retry => ctl.retry
    BY <1>2 DEF MayStart
  <1>7. FirstStage(s.ctl).at = "list" /\ FirstStage(s.ctl).target = ctl.channel
    BY DEF FirstStage
  <1>8. Behind(s.ctl) <=> ctl.channel # 0 /\ ctl.initialized # ctl.channel
    BY DEF Behind
  <1>9. EpochOK'
    BY <1>1, <1>5, <1>6, <1>7, <1>8 DEF EpochOK, Idle, Typed
  <1>10. Going'
    <2>1. CASE Waits(t, s, active)
      <3>1. Serving' => connected /\ epoch > 0 /\ active
        BY DEF Serving
      <3>2. connected /\ epoch > 0 => ctl.channel # 0
        BY <1>1 DEF EpochOK
      <3> QED
        BY <1>6, <1>8, <2>1, <3>1, <3>2 DEF Going, Waits
    <2>2. ASSUME NEW q, Starts(t, s, q) PROVE Going'
      BY <2>2, RunIdsAssumption DEF Going, Starts, None
    <2> QED
      BY <1>2, <2>1, <2>2 DEF MayStart
  <1>11. StagesOK'
    BY <1>1, <1>5, <1>7 DEF StagesOK, StageOK, Fits, InOrder, SameNames, AllLaid, Holders, RunTtys
  <1>12. DoneOK'
    BY <1>1, <1>6 DEF DoneOK, InOrder, SameNames, AllLaid, Holders, RunTtys
  <1>13. HolderKept'
    BY <1>1 DEF HolderKept, Holders, RunTtys
  <1> QED
    BY <1>3, <1>4, <1>9, <1>10, <1>11, <1>12, <1>13 DEF IInv

LEMMA RetryFiresKeeps ==
    ASSUME IInv, RetryFires
    PROVE  IInv'
  <1>1. PICK s : s = [State EXCEPT !.ctl.retry = FALSE]
    OBVIOUS
  <1>2. Typed /\ EpochOK
    BY DEF IInv
  <1>3. /\ s \in States /\ s.runs = runs /\ s.ctl.flight = ctl.flight
        /\ s.ctl.channel = ctl.channel /\ s.ctl.initialized = ctl.initialized
        /\ s.ctl.retry => ctl.retry
    BY <1>1, <1>2 DEF State, States, Ctls, Typed
  <1>4. PICK t : t = MaybeReinit(s, active)
    OBVIOUS
  <1>5. ctl' = t.ctl /\ runs' = t.runs
    BY <1>1, <1>4 DEF RetryFires, Becomes
  <1>6. /\ windows' = windows /\ nextId' = nextId /\ shown' = shown /\ link' = link
        /\ epoch' = epoch /\ connected' = connected /\ viewing' = viewing /\ active' = active
        /\ asked' = asked /\ opening' = opening
    BY DEF RetryFires, tmux, Rest, main, open
  <1>7. opening' \in BOOLEAN /\ asked' \in 0..MaxOpens /\ (opening' => asked' > 0)
    BY <1>2, <1>6 DEF Typed
  <1>8. connected => epoch > 0
    BY <1>2 DEF EpochOK, RetryFires, Typed
  <1> QED
    BY <1>3, <1>4, <1>5, <1>6, <1>7, <1>8, MayStartKeeps

LEMMA OpenResolvesKeeps ==
    ASSUME IInv, OpenResolves
    PROVE  IInv'
  <1>1. PICK s : s = State
    OBVIOUS
  <1>2. Typed /\ EpochOK
    BY DEF IInv
  <1>3. /\ s \in States /\ s.runs = runs /\ s.ctl.flight = ctl.flight
        /\ s.ctl.channel = ctl.channel /\ s.ctl.initialized = ctl.initialized
        /\ s.ctl.retry => ctl.retry
    BY <1>1, <1>2 DEF State, States, Typed
  <1>4. PICK t : t = MaybeReinit(s, active)
    OBVIOUS
  <1>5. ctl' = t.ctl /\ runs' = t.runs
    BY <1>1, <1>4 DEF OpenResolves, Becomes
  <1>6. /\ windows' = windows /\ nextId' = nextId /\ shown' = shown /\ link' = link
        /\ epoch' = epoch /\ connected' = connected /\ viewing' = viewing /\ active' = active
    BY DEF OpenResolves, tmux, main
  <1>7. opening' \in BOOLEAN /\ asked' \in 0..MaxOpens /\ (opening' => asked' > 0)
    <2>1. MaxOpens \in Nat
      BY BoundsAssumption
    <2>2. asked \in 0..MaxOpens /\ asked > 0 /\ asked' = asked - 1
          /\ opening' \in {opening, FALSE} /\ (opening' => asked > 1) /\ opening \in BOOLEAN
      BY <1>2 DEF OpenResolves, Settles, Typed
    <2>3. asked' \in 0..MaxOpens /\ (asked > 1 => asked' > 0)
      BY <2>1, <2>2
    <2> QED
      BY <2>2, <2>3
  <1>8. connected => epoch > 0
    BY <1>2 DEF EpochOK, OpenResolves, Typed
  <1> QED
    BY <1>3, <1>4, <1>5, <1>6, <1>7, <1>8, MayStartKeeps

LEMMA AttachedKeeps ==
    ASSUME IInv, Attached
    PROVE  IInv'
  <1>1. PICK s : s = [State EXCEPT !.ctl.channel = epoch']
    OBVIOUS
  <1>2. Typed /\ FlightOK /\ EpochOK /\ HolderKept /\ StagesOK
    BY DEF IInv
  <1>3. /\ epoch \in Nat /\ epoch' = epoch + 1 /\ epoch' \in 0..MaxEpoch /\ link' = "up"
        /\ connected /\ connected'
    BY <1>2, BoundsAssumption DEF Attached, Typed
  <1>4. /\ s \in States /\ s.runs = runs /\ s.ctl.flight = ctl.flight
        /\ s.ctl.channel = epoch' /\ s.ctl.initialized = ctl.initialized
        /\ s.ctl.retry = ctl.retry
    BY <1>1, <1>2, <1>3 DEF State, States, Ctls, Typed
  <1>5. PICK t : t = MaybeReinit(s, active)
    OBVIOUS
  <1>6. ctl' = t.ctl /\ runs' = t.runs
    BY <1>1, <1>5 DEF Attached, Becomes
  <1>7. /\ windows' = windows /\ nextId' = nextId /\ shown' = shown
        /\ connected' = connected /\ viewing' = viewing /\ active' = active
        /\ asked' = asked /\ opening' = opening
    BY DEF Attached, tmux, open
  <1>8. opening' \in BOOLEAN /\ asked' \in 0..MaxOpens /\ (opening' => asked' > 0)
    BY <1>2, <1>7 DEF Typed
  <1>9. MayStart(t, s, active)
    <2>1. active \in BOOLEAN /\ HasRoom(s)
      BY <1>2, <1>4, RoomForIt DEF Typed
    <2> QED
      BY <1>4, <1>5, <2>1, MaybeReinitFacts
  <1>10. Typed'
    BY <1>2, <1>3, <1>6, <1>7, <1>8, <1>9, MayStartTyped
  <1>11. FlightOK'
    BY <1>2, <1>4, <1>6, <1>7, <1>9, MayStartFlight
  <1>12. \A x \in RunIds : \/ runs'[x] = runs[x]
                           \/ runs'[x] = FirstStage(s.ctl) /\ Behind(s.ctl) /\ t.ctl.flight = x
    BY <1>2, <1>4, <1>6, <1>9, MayStartRuns
  <1>13. ctl'.channel = epoch' /\ ctl'.initialized = ctl.initialized /\ ctl'.retry = ctl.retry
    BY <1>4, <1>6, <1>9 DEF MayStart
  <1>14. FirstStage(s.ctl).at = "list" /\ FirstStage(s.ctl).target = epoch'
    BY <1>4 DEF FirstStage
  <1>15. /\ ctl.initialized <= epoch /\ ctl.initialized \in Nat
         /\ \A x \in RunIds : runs[x].at # "free" => runs[x].target \in 1..epoch
    BY <1>2, <1>3 DEF EpochOK, Idle, Typed, Ctls
  <1>16. EpochOK'
    BY <1>3, <1>12, <1>13, <1>14, <1>15 DEF EpochOK
  <1>17. Going'
    <2>1. Behind(s.ctl)
      BY <1>3, <1>4, <1>15 DEF Behind
    <2>2. CASE Waits(t, s, active)
      BY <1>4, <1>6, <1>7, <2>1, <2>2 DEF Waits, Going, Serving
    <2>3. ASSUME NEW q, Starts(t, s, q) PROVE Going'
      BY <1>6, <2>3, RunIdsAssumption DEF Going, Starts, None
    <2> QED
      BY <1>9, <2>2, <2>3 DEF MayStart
  <1>18. StagesOK'
    <2> SUFFICES ASSUME NEW x \in RunIds PROVE StageOK(x)'
      BY DEF StagesOK
    <2>1. runs'[x].at # "free" /\ runs'[x].target = epoch' => runs'[x].at = "list"
      BY <1>3, <1>12, <1>14, <1>15
    <2>2. runs'[x].at = "mutate" => runs'[x] = runs[x]
      BY <1>12, <1>14
    <2>3. runs'[x].at = "mutate" => Fits(runs[x].todo)
      BY <1>2, <1>3, <2>2 DEF StagesOK, StageOK
    <2>4. runs'[x].at = "mutate" => Fits(runs[x].todo)'
      BY <1>7, <1>12, <1>14, <2>3 DEF Fits, Holders, RunTtys
    <2> QED
      BY <2>1, <2>2, <2>3, <1>7 DEF StageOK, Fits, Holders, RunTtys
  <1>19. DoneOK'
    BY <1>3, <1>13, <1>15 DEF DoneOK
  <1>20. HolderKept'
    BY <1>2, <1>7 DEF HolderKept, Holders, RunTtys
  <1> QED
    BY <1>10, <1>11, <1>16, <1>17, <1>18, <1>19, <1>20 DEF IInv

-----------------------------------------------------------------------------
(* A reinit that goes on *)

LEMMA Attached2Facts ==
    ASSUME Typed, EpochOK, link = "up"
    PROVE  connected /\ epoch > 0
  BY DEF Typed, EpochOK

LEMMA GoesKeeps ==
    ASSUME IInv, NEW r \in RunIds, runs[r].at # "free",
           \A x \in RunIds : x # r => runs'[x] = runs[x],
           runs'[r].target = runs[r].target, runs'[r].at \in Stages,
           runs'[r].at = "restore" => epoch # 0,
           ctl'.channel = ctl.channel, ctl'.initialized = ctl.initialized,
           ctl'.flight = ctl.flight, ctl'.retry => ctl.retry,
           link' = link, epoch' = epoch, connected' = connected, active' = active,
           Typed', HolderKept', connected => StageOK(r)'
    PROVE  IInv'
  <1>1. Typed /\ FlightOK /\ EpochOK /\ StagesOK
    BY DEF IInv
  <1>2. runs'[r].at # "free"
    BY DEF Stages
  <1>3. connected => /\ epoch > 0 /\ ctl.initialized # epoch /\ r = ctl.flight
                     /\ \A x \in RunIds : x # r => runs[x].at = "free"
    BY <1>1 DEF EpochOK, FlightOK, Typed, Idle
  <1>4. FlightOK'
    <2>1. CASE ctl.flight = None
      <3>1. PICK x \in RunIds : runs[x].at = "free"
        BY <1>1, <2>1 DEF FlightOK
      <3>2. runs'[x].at = "free"
        BY <3>1
      <3> QED
        BY <1>3, <2>1, <3>2 DEF FlightOK
    <2>2. CASE ctl.flight # None
      <3>1. runs[ctl.flight].at # "free" /\ ctl.flight \in RunIds
        BY <1>1, <2>2 DEF FlightOK, Typed, Ctls
      <3>2. runs'[ctl.flight].at # "free"
        BY <1>2, <3>1
      <3> QED
        BY <1>3, <2>2, <3>2 DEF FlightOK
    <2> QED
      BY <2>1, <2>2
  <1>5. EpochOK'
    BY <1>1, <1>2, <1>3 DEF EpochOK, Idle
  <1>6. Going'
    BY <1>3, RunIdsAssumption DEF Going, Serving, None
  <1>7. StagesOK'
    <2> SUFFICES ASSUME NEW x \in RunIds PROVE StageOK(x)'
      BY DEF StagesOK
    <2>1. CASE ~connected
      BY <2>1 DEF StageOK
    <2>2. CASE connected /\ x = r
      BY <2>2
    <2>3. CASE connected /\ x # r
      <3>1. runs'[x].at = "free"
        BY <1>3, <2>3
      <3> QED
        BY <3>1 DEF StageOK
    <2> QED
      BY <2>1, <2>2, <2>3
  <1>8. DoneOK'
    BY <1>3 DEF DoneOK
  <1> QED
    BY <1>4, <1>5, <1>6, <1>7, <1>8 DEF IInv

LEMMA Intervals ==
    ASSUME NEW m \in Nat, NEW n \in Nat, m <= n
    PROVE  1..(m - 1) \subseteq 1..(n - 1)
  OBVIOUS

LEMMA IdsGrow ==
    ASSUME nextId \in Nat, nextId' \in Nat, nextId <= nextId'
    PROVE  Ids \subseteq Ids'
  BY Intervals DEF Ids

(* What Goes does to the reinits *)
LEMMA GoesFacts ==
    ASSUME Typed, NEW r \in RunIds, NEW at \in Stages, NEW todo, todo \in Plans', Goes(r, at, todo),
           nextId \in Nat, nextId' \in Nat, nextId <= nextId'
    PROVE  /\ \A x \in RunIds : x # r => runs'[x] = runs[x]
           /\ runs'[r].at = at /\ runs'[r].target = runs[r].target /\ runs'[r].todo = todo
           /\ runs' \in Reinits' /\ ctl' = ctl
  <1>1. /\ \A x \in RunIds : x # r => runs'[x] = runs[x]
        /\ runs'[r].at = at /\ runs'[r].target = runs[r].target /\ runs'[r].todo = todo
        /\ runs' = [runs EXCEPT ![r] = [at |-> at, target |-> runs[r].target, todo |-> todo]]
        /\ ctl' = ctl
    <2>1. runs[r] \in [at : {"free"} \union Stages, target : Nat, todo : Plans]
      BY DEF Typed, Reinits
    <2>2. runs' = [runs EXCEPT ![r] = [[runs[r] EXCEPT !.at = at] EXCEPT !.todo = todo]] /\ ctl' = ctl
      BY DEF Goes, Typed, Reinits
    <2>4. PICK k : k = runs[r]
      OBVIOUS
    <2>5. k = [at |-> k.at, target |-> k.target, todo |-> k.todo]
      BY <2>1, <2>4
    <2>8. PICK m : m = [k EXCEPT !.at = at]
      OBVIOUS
    <2>6. m = [at |-> at, target |-> k.target, todo |-> k.todo]
      BY <2>5, <2>8
    <2>9. [m EXCEPT !.todo = todo] = [at |-> at, target |-> k.target, todo |-> todo]
      BY <2>6
    <2>7. [[k EXCEPT !.at = at] EXCEPT !.todo = todo]
              = [at |-> at, target |-> k.target, todo |-> todo]
      BY <2>8, <2>9
    <2>3. [[runs[r] EXCEPT !.at = at] EXCEPT !.todo = todo]
              = [at |-> at, target |-> runs[r].target, todo |-> todo]
      BY <2>4, <2>7
    <2> QED
      BY <2>2, <2>3 DEF Typed, Reinits
  <1>2. Plans \subseteq Plans'
    <2>1. Ids \subseteq Ids'
      BY IdsGrow
    <2> QED
      BY <2>1 DEF Plans
  <1>3. [at |-> at, target |-> runs[r].target, todo |-> todo]
            \in [at : {"free"} \union Stages, target : Nat, todo : Plans']
    BY DEF Typed, Reinits
  <1>4. \A x \in RunIds : runs[x] \in [at : {"free"} \union Stages, target : Nat, todo : Plans']
    <2> TAKE x \in RunIds
    <2>1. runs[x] \in [at : {"free"} \union Stages, target : Nat, todo : Plans]
      BY DEF Typed, Reinits
    <2> HIDE DEF Plans
    <2> QED
      BY <1>2, <2>1
  <1>5. runs' \in [RunIds -> [at : {"free"} \union Stages, target : Nat, todo : Plans']]
    BY <1>1, <1>3, <1>4 DEF Typed, Reinits
  <1> QED
    BY <1>1, <1>5 DEF Reinits

(* The plan a reinit makes *)
LEMMA PlanMade ==
    ASSUME Typed, HolderKept, NEW p, p = Reconcile(windows)
    PROVE  p \in Plans /\ Fits(p)
  <1>1. /\ Holders \subseteq DOMAIN windows /\ Holders \subseteq Nat
        /\ RunTtys \subseteq DOMAIN windows /\ RunTtys \subseteq Nat
        /\ Holders \intersect RunTtys = {}
        /\ \A i \in DOMAIN windows : /\ i \in Holders <=> windows[i] = "persistent"
                                     /\ i \in RunTtys <=> windows[i] \in Runs
    BY OfFacts
  <1>2. /\ p.kill.holders = Spare(Holders) /\ p.kill.runs = Spare(RunTtys)
        /\ p.rename = {i \in RunTtys \ Spare(RunTtys) : windows[i] # "run-1"}
        /\ p.create = {name \in {"persistent"} : Of(windows, {name}) = {}}
                      \union {name \in {"run-1"} : RunTtys = {} /\ CreateRun}
                      \union {name \in {"tab"} : \A i \in DOMAIN windows : Hidden(windows[i])}
        /\ p = [kill |-> [holders |-> Spare(Holders), runs |-> Spare(RunTtys)],
                rename |-> p.rename, create |-> p.create]
    BY DEF Reconcile, Kills, Holders, RunTtys
  <1>3. /\ Spare(Holders) \subseteq Holders /\ (Holders = {} => Spare(Holders) = {})
        /\ Holders # {} => /\ Min(Holders) \in Holders /\ Min(Holders) \notin Spare(Holders)
                           /\ Holders = {Min(Holders)} \union Spare(Holders)
    BY <1>1, SpareFacts
  <1>4. /\ Spare(RunTtys) \subseteq RunTtys /\ (RunTtys = {} => Spare(RunTtys) = {})
        /\ RunTtys # {} => /\ Min(RunTtys) \in RunTtys /\ Min(RunTtys) \notin Spare(RunTtys)
                           /\ RunTtys = {Min(RunTtys)} \union Spare(RunTtys)
    BY <1>1, SpareFacts
  <1>5. /\ "persistent" \in p.create <=> Holders = {}
        /\ "run-1" \in p.create => RunTtys = {}
        /\ p.create \subseteq {"persistent", "run-1", "tab"}
    <2>1. "persistent" \in {name \in {"persistent"} : Of(windows, {name}) = {}} <=> Holders = {}
      BY DEF Holders
    <2> QED
      BY <1>2, <2>1
  <1>6. p \in Plans
    <2>1. Holders \subseteq Ids /\ RunTtys \subseteq Ids
      BY <1>1 DEF Typed
    <2>2. Spare(Holders) \in SUBSET Ids /\ Spare(RunTtys) \in SUBSET Ids /\ p.rename \in SUBSET Ids
          /\ p.create \in SUBSET {"persistent", "run-1", "tab"}
      BY <1>2, <1>3, <1>4, <1>5, <2>1
    <2>3. [holders |-> Spare(Holders), runs |-> Spare(RunTtys)]
              \in [holders : SUBSET Ids, runs : SUBSET Ids]
      BY <2>2
    <2>4. PICK k : k = [holders |-> Spare(Holders), runs |-> Spare(RunTtys)]
      OBVIOUS
    <2>5. k \in [holders : SUBSET Ids, runs : SUBSET Ids]
          /\ p = [kill |-> k, rename |-> p.rename, create |-> p.create]
      BY <1>2, <2>3, <2>4
    <2> HIDE DEF Ids
    <2> QED
      BY <2>2, <2>5 DEF Plans
  <1>7. Killed(p) = Spare(Holders) \union Spare(RunTtys)
    BY <1>2 DEF Killed
  <1>8. IF "persistent" \in p.create THEN Holders = {} /\ Killed(p) = {}
        ELSE \E h \in Holders : h \notin Killed(p) /\ Holders \subseteq {h} \union Killed(p)
    <2>1. CASE Holders = {}
      <3>1. \A i, j \in RunTtys : i = j
        BY <2>1 DEF HolderKept
      <3>2. Spare(RunTtys) = {}
        BY <1>4, <3>1
      <3> QED
        BY <1>3, <1>5, <1>7, <2>1, <3>2
    <2>2. CASE Holders # {}
      <3>1. Min(Holders) \in Holders /\ Min(Holders) \notin Killed(p)
            /\ Holders \subseteq {Min(Holders)} \union Killed(p)
        BY <1>1, <1>3, <1>4, <1>7, <2>2
      <3> QED
        BY <1>5, <2>2, <3>1
    <2> QED
      BY <2>1, <2>2
  <1>9. RunTtys \ Killed(p) = RunTtys \ Spare(RunTtys)
    BY <1>1, <1>3, <1>7
  <1>10. \A i, j \in RunTtys \ Killed(p) : i = j
    BY <1>4, <1>9
  <1>11. /\ \A i \in RunTtys \ Killed(p) : windows[i] = "run-2" => i \in p.rename
         /\ p.rename \intersect DOMAIN windows \subseteq RunTtys \ Killed(p)
    BY <1>2, <1>9
  <1> QED
    BY <1>5, <1>6, <1>8, <1>10, <1>11 DEF Fits

LEMMA FitsNoPlan ==
    Fits(NoPlan) => InOrder
  <1> SUFFICES ASSUME Fits(NoPlan) PROVE InOrder
    OBVIOUS
  <1>1. Killed(NoPlan) = {} /\ NoPlan.create = {} /\ NoPlan.rename = {}
    BY DEF Killed, NoPlan
  <1>2. \E h \in Holders : Holders = {h}
    BY <1>1 DEF Fits
  <1>3. \A i, j \in RunTtys : i = j
    BY <1>1 DEF Fits
  <1>4. \A i \in RunTtys : windows[i] # "run-2"
    BY <1>1 DEF Fits
  <1>5. \A i \in RunTtys : windows[i] = "run-1"
    BY <1>4 DEF RunTtys, Of, Runs
  <1> QED
    BY <1>2, <1>3, <1>5 DEF InOrder

LEMMA ListedKeeps ==
    ASSUME IInv, NEW r \in RunIds, Listed(r)
    PROVE  IInv'
  <1>1. Typed /\ EpochOK /\ HolderKept
    BY DEF IInv
  <1>2. runs[r].at = "list" /\ link = "up" /\ UNCHANGED <<tmux, shown, Rest>>
    BY DEF Listed
  <1>3. CASE NotSynced(r)
    BY <1>2, <1>3, NotSyncedKeeps
  <1>4. ASSUME NEW p, p = Reconcile(windows),
               Goes(r, IF p = NoPlan THEN "names" ELSE "mutate", p)
        PROVE  IInv'
    <2>1. /\ windows' = windows /\ nextId' = nextId /\ shown' = shown
          /\ link' = link /\ epoch' = epoch /\ connected' = connected
          /\ viewing' = viewing /\ active' = active /\ asked' = asked /\ opening' = opening
      BY <1>2 DEF tmux, Rest, main, open
    <2>2. p \in Plans /\ Fits(p)
      BY <1>1, <1>4, PlanMade
    <2>3. p \in Plans'
      BY <2>1, <2>2 DEF Plans, Ids
    <2>4. PICK at : at = IF p = NoPlan THEN "names" ELSE "mutate"
      OBVIOUS
    <2>5. at \in Stages /\ at # "restore" /\ at \in {"names", "mutate"}
      BY <2>4 DEF Stages
    <2>6. nextId \in Nat /\ nextId' \in Nat /\ nextId <= nextId'
      BY <1>1, <2>1 DEF Typed
    <2>7. Goes(r, at, p)
      BY <1>4, <2>4
    <2>8. /\ \A x \in RunIds : x # r => runs'[x] = runs[x]
          /\ runs'[r].at = at /\ runs'[r].target = runs[r].target /\ runs'[r].todo = p
          /\ runs' \in Reinits' /\ ctl' = ctl
      BY <1>1, <2>3, <2>5, <2>6, <2>7, GoesFacts
    <2>9. Typed'
      BY <1>1, <2>1, <2>8 DEF Typed, Ids
    <2>10. HolderKept'
      BY <1>1, <2>1 DEF HolderKept, Holders, RunTtys
    <2>11. StageOK(r)'
      <3>1. CASE p = NoPlan
        <4>1. InOrder
          BY <1>1, <2>2, <3>1, FitsNoPlan
        <4>2. InOrder'
          BY <2>1, <4>1 DEF InOrder, Holders, RunTtys
        <4> QED
          BY <2>4, <2>8, <3>1, <4>2 DEF StageOK
      <3>2. CASE p # NoPlan
        <4>1. Fits(p)'
          BY <2>1, <2>2 DEF Fits, Holders, RunTtys
        <4> QED
          BY <2>4, <2>8, <3>2, <4>1 DEF StageOK, Fits
      <3> QED
        BY <3>1, <3>2
    <2>12. /\ ctl'.channel = ctl.channel /\ ctl'.initialized = ctl.initialized
           /\ ctl'.flight = ctl.flight /\ (ctl'.retry => ctl.retry)
      BY <2>8
    <2>13. runs[r].at # "free" /\ runs'[r].at \in Stages /\ runs'[r].at # "restore"
      BY <1>2, <2>5, <2>8
    <2> QED
      BY <2>1, <2>8, <2>9, <2>10, <2>11, <2>12, <2>13, GoesKeeps
  <1> QED
    BY <1>3, <1>4 DEF Listed

-----------------------------------------------------------------------------
(* Windows that are made, renamed and closed *)

WindowsTyped ==
    /\ nextId \in Nat \ {0}
    /\ DOMAIN windows \subseteq Ids /\ \A i \in DOMAIN windows : windows[i] \in Names
    /\ DOMAIN shown \subseteq Ids
    /\ \A i \in DOMAIN shown : shown[i].name \in Names /\ shown[i].laid \in BOOLEAN

LEMMA ClosesFacts ==
    ASSUME Typed, NEW i \in DOMAIN windows, Closes(i)
    PROVE  /\ nextId' = nextId /\ WindowsTyped'
           /\ DOMAIN windows' = DOMAIN windows \ {i}
           /\ \A x \in DOMAIN windows \ {i} : windows'[x] = windows[x]
           /\ link = "up" => /\ DOMAIN shown' = DOMAIN shown \ {i}
                             /\ \A x \in DOMAIN shown \ {i} : shown'[x] = shown[x]
  <1>1. /\ nextId' = nextId /\ windows' = [x \in DOMAIN windows \ {i} |-> windows[x]]
        /\ shown' = IF link = "up" THEN [x \in DOMAIN shown \ {i} |-> shown[x]] ELSE shown
    BY DEF Closes, Without, Notified
  <1>2. nextId \in Nat \ {0} /\ DOMAIN windows \subseteq Ids /\ DOMAIN shown \subseteq Ids
        /\ (\A x \in DOMAIN windows : windows[x] \in Names)
        /\ (\A x \in DOMAIN shown : shown[x].name \in Names /\ shown[x].laid \in BOOLEAN)
    BY DEF Typed
  <1>3. Ids' = Ids
    BY <1>1 DEF Ids
  <1>4. CASE link = "up"
    BY <1>1, <1>2, <1>3, <1>4 DEF WindowsTyped
  <1>5. CASE link # "up"
    BY <1>1, <1>2, <1>3, <1>5 DEF WindowsTyped
  <1> QED
    BY <1>4, <1>5

LEMMA OpensFacts ==
    ASSUME Typed, NEW name \in Names, Opens(name)
    PROVE  /\ nextId' = nextId + 1 /\ WindowsTyped' /\ nextId \notin Ids
           /\ DOMAIN windows' = DOMAIN windows \union {nextId} /\ windows'[nextId] = name
           /\ \A x \in DOMAIN windows : windows'[x] = windows[x]
           /\ link = "up" => /\ DOMAIN shown' = DOMAIN shown \union {nextId}
                             /\ shown'[nextId] = Tab
                             /\ \A x \in DOMAIN shown : shown'[x] = shown[x]
  <1>1. /\ nextId' = nextId + 1
        /\ windows' = [x \in DOMAIN windows \union {nextId} |-> IF x = nextId THEN name ELSE windows[x]]
        /\ shown' = IF link = "up"
                    THEN [x \in DOMAIN shown \union {nextId} |-> IF x = nextId THEN Tab ELSE shown[x]]
                    ELSE shown
    BY DEF Opens, With, Notified
  <1>2. nextId \in Nat \ {0} /\ DOMAIN windows \subseteq Ids /\ DOMAIN shown \subseteq Ids
        /\ (\A x \in DOMAIN windows : windows[x] \in Names)
        /\ (\A x \in DOMAIN shown : shown[x].name \in Names /\ shown[x].laid \in BOOLEAN)
    BY DEF Typed
  <1>3. nextId \notin Ids
    BY <1>2 DEF Ids
  <1>4. nextId \in Ids' /\ Ids \subseteq Ids' /\ nextId' \in Nat \ {0}
    <2>1. nextId \in Nat /\ nextId' \in Nat /\ nextId <= nextId'
      BY <1>1, <1>2
    <2>2. nextId \in 1..(nextId + 1 - 1)
      BY <1>2
    <2>3. nextId' - 1 = nextId + 1 - 1
      BY <1>1, <1>2
    <2> QED
      BY <1>1, <1>2, <2>1, <2>2, <2>3, IdsGrow DEF Ids
  <1>5. Tab.name \in Names /\ Tab.laid \in BOOLEAN
    BY DEF Tab, Names
  <1>6. CASE link = "up"
    BY <1>1, <1>2, <1>3, <1>4, <1>5, <1>6 DEF WindowsTyped
  <1>7. CASE link # "up"
    BY <1>1, <1>2, <1>3, <1>4, <1>7 DEF WindowsTyped
  <1> QED
    BY <1>3, <1>6, <1>7

(* How the classes of windows move *)
LEMMA ClosesClasses ==
    ASSUME Typed, NEW i \in DOMAIN windows, Closes(i)
    PROVE  /\ Holders' = Holders \ {i} /\ RunTtys' = RunTtys \ {i}
           /\ DOMAIN windows' = DOMAIN windows \ {i}
           /\ \A x \in DOMAIN windows \ {i} : windows'[x] = windows[x]
  BY ClosesFacts DEF Holders, RunTtys, Of

LEMMA OpensClasses ==
    ASSUME Typed, NEW name \in Names, Opens(name)
    PROVE  /\ Holders' = Holders \union (IF name = "persistent" THEN {nextId} ELSE {})
           /\ RunTtys' = RunTtys \union (IF name \in Runs THEN {nextId} ELSE {})
           /\ nextId \notin Ids
           /\ DOMAIN windows' = DOMAIN windows \union {nextId} /\ windows'[nextId] = name
           /\ \A x \in DOMAIN windows : windows'[x] = windows[x]
  <1>1. /\ nextId \notin Ids
        /\ DOMAIN windows' = DOMAIN windows \union {nextId} /\ windows'[nextId] = name
        /\ \A x \in DOMAIN windows : windows'[x] = windows[x]
    BY OpensFacts
  <1> QED
    BY <1>1 DEF Holders, RunTtys, Of

-----------------------------------------------------------------------------
(* Carrying out a plan *)

LEMMA KillFits ==
    ASSUME Typed, NEW p \in Plans, Fits(p), NEW i \in Killed(p), Kill(i),
           NEW q, q.create = p.create, q.rename = p.rename,
           Killed(q) \subseteq Killed(p), Killed(p) \subseteq {i} \union Killed(q)
    PROVE  Fits(q)'
  <1>1. "persistent" \notin p.create
    BY DEF Fits
  <1>2. PICK h \in Holders : h \notin Killed(p) /\ Holders \subseteq {h} \union Killed(p)
    BY <1>1 DEF Fits
  <1>3. h # i /\ h \in DOMAIN windows
    BY <1>2, OfFacts
  <1>4. Killed(q)' = Killed(q) /\ Killed(p)' = Killed(p)
    BY DEF Killed
  <1>5. CASE i \in DOMAIN windows
    <2>1. Cardinality(DOMAIN windows) > 1
      <3>1. nextId - 1 \in Nat /\ DOMAIN windows \subseteq 1..(nextId - 1)
        BY DEF Typed, Ids
      <3> QED
        BY <1>3, <1>5, <3>1, MoreThanOne
    <2>2. Closes(i)
      BY <1>5, <2>1 DEF Kill
    <2>3. /\ Holders' = Holders \ {i} /\ RunTtys' = RunTtys \ {i}
          /\ DOMAIN windows' = DOMAIN windows \ {i}
          /\ \A x \in DOMAIN windows \ {i} : windows'[x] = windows[x]
      BY <1>5, <2>2, ClosesClasses
    <2>4. RunTtys' \ Killed(q) \subseteq RunTtys \ Killed(p)
      BY <2>3
    <2>5. \E x \in Holders' : x \notin Killed(q) /\ Holders' \subseteq {x} \union Killed(q)
      BY <1>2, <1>3, <2>3
    <2>6. \A x \in RunTtys' \ Killed(q) : windows'[x] = windows[x]
      BY <2>3, <2>4, OfFacts
    <2>7. q.rename \intersect DOMAIN windows' \subseteq RunTtys' \ Killed(q)
      BY <2>3 DEF Fits
    <2>8. \A x, y \in RunTtys' \ Killed(q) : x = y
      BY <2>4 DEF Fits
    <2>9. "run-1" \in q.create => RunTtys' = {}
      BY <2>3 DEF Fits
    <2>10. \A x \in RunTtys' \ Killed(q) : windows'[x] = "run-2" => x \in q.rename
      BY <2>4, <2>6 DEF Fits
    <2> QED
      BY <1>1, <1>4, <2>5, <2>7, <2>8, <2>9, <2>10 DEF Fits
  <1>6. CASE i \notin DOMAIN windows
    <2>1. windows' = windows
      BY <1>6 DEF Kill, tmux
    <2>2. Holders' = Holders /\ RunTtys' = RunTtys /\ i \notin Holders /\ i \notin RunTtys
      BY <1>6, <2>1, OfFacts DEF Holders, RunTtys
    <2>3. RunTtys \ Killed(q) = RunTtys \ Killed(p)
      BY <2>2
    <2>4. \E x \in Holders : x \notin Killed(q) /\ Holders \subseteq {x} \union Killed(q)
      BY <1>2, <2>2
    <2> QED
      BY <1>1, <1>4, <2>1, <2>2, <2>3, <2>4 DEF Fits
  <1> QED
    BY <1>5, <1>6

LEMMA RenameFits ==
    ASSUME Typed, NEW p \in Plans, Fits(p), Killed(p) = {}, NEW i \in p.rename, Rename(i),
           NEW q, q.create = p.create, q.kill = p.kill, p.rename = {i} \union q.rename,
           q.rename \subseteq p.rename
    PROVE  Fits(q)'
  <1>1. Killed(q)' = {} /\ Killed(q) = {}
    BY DEF Killed
  <1>2. CASE i \in DOMAIN windows
    <2>1. windows' = [windows EXCEPT ![i] = "run-1"]
      BY <1>2 DEF Rename
    <2>2. i \in RunTtys
      BY <1>2 DEF Fits
    <2>3. DOMAIN windows' = DOMAIN windows /\ windows'[i] = "run-1"
          /\ \A x \in DOMAIN windows : x # i => windows'[x] = windows[x]
      BY <1>2, <2>1
    <2>4. windows[i] \in Runs /\ windows[i] # "persistent"
      BY <2>2 DEF RunTtys, Of, Runs
    <2>5. Holders' = Holders /\ RunTtys' = RunTtys
      BY <2>2, <2>3, <2>4 DEF Holders, RunTtys, Of, Runs
    <2>6. \A x \in RunTtys : windows'[x] = "run-2" => x \in q.rename
      <3> TAKE x \in RunTtys
      <3>1. x = i => windows'[x] # "run-2"
        BY <2>3
      <3>2. x # i => windows'[x] = windows[x]
        BY <2>3, OfFacts
      <3> QED
        BY <3>1, <3>2 DEF Fits
    <2> QED
      BY <1>1, <2>3, <2>5, <2>6 DEF Fits
  <1>3. CASE i \notin DOMAIN windows
    <2>1. windows' = windows
      BY <1>3 DEF Rename, tmux
    <2>2. Holders' = Holders /\ RunTtys' = RunTtys /\ i \notin RunTtys
      BY <1>3, <2>1, OfFacts DEF Holders, RunTtys
    <2> QED
      BY <1>1, <2>1, <2>2 DEF Fits
  <1> QED
    BY <1>2, <1>3

LEMMA CreateFits ==
    ASSUME Typed, NEW p \in Plans, Fits(p), Killed(p) = {}, p.rename = {},
           NEW name \in {"persistent", "run-1", "tab"}, name = First(p.create), Opens(name),
           NEW q, q.create = p.create \ {name}, q.kill = p.kill, q.rename = {}
    PROVE  Fits(q)'
  <1>1. Killed(q)' = {} /\ Killed(q) = {}
    BY DEF Killed
  <1>2. name \in Names
    BY DEF Names
  <1>3. /\ Holders' = Holders \union (IF name = "persistent" THEN {nextId} ELSE {})
        /\ RunTtys' = RunTtys \union (IF name \in Runs THEN {nextId} ELSE {})
        /\ nextId \notin Ids
        /\ DOMAIN windows' = DOMAIN windows \union {nextId} /\ windows'[nextId] = name
        /\ \A x \in DOMAIN windows : windows'[x] = windows[x]
    BY <1>2, OpensClasses
  <1>4. \A x \in RunTtys : windows'[x] = windows[x]
    BY <1>3, OfFacts
  <1>5. CASE name = "persistent"
    <2>1. "persistent" \in p.create
      BY <1>5 DEF First
    <2>2. Holders' = {nextId} /\ RunTtys' = RunTtys
      BY <1>3, <1>5, <2>1 DEF Fits, Runs
    <2>3. "persistent" \notin q.create /\ ("run-1" \in q.create => "run-1" \in p.create)
      BY <1>5
    <2> QED
      BY <1>1, <1>4, <2>2, <2>3 DEF Fits
  <1>6. CASE name = "run-1"
    <2>1. "persistent" \notin p.create /\ "run-1" \in p.create
      BY <1>6 DEF First
    <2>2. Holders' = Holders /\ RunTtys' = {nextId} /\ windows'[nextId] = "run-1"
      BY <1>3, <1>6, <2>1 DEF Fits, Runs
    <2>3. "persistent" \notin q.create /\ "run-1" \notin q.create
      BY <1>6, <2>1
    <2> QED
      BY <1>1, <2>1, <2>2, <2>3 DEF Fits
  <1>7. CASE name = "tab"
    <2>1. "persistent" \notin p.create /\ "run-1" \notin p.create
      BY <1>7 DEF First
    <2>2. Holders' = Holders /\ RunTtys' = RunTtys
      BY <1>3, <1>7 DEF Runs
    <2>3. "persistent" \notin q.create /\ "run-1" \notin q.create
      BY <2>1
    <2> QED
      BY <1>1, <1>4, <2>1, <2>2, <2>3 DEF Fits
  <1> QED
    BY <1>5, <1>6, <1>7

(* The next command of a plan leaves a plan that fits *)
LEMMA SpareOf ==
    ASSUME Typed, NEW S, S \in SUBSET Ids, S # {}
    PROVE  Min(S) \in S /\ Spare(S) \subseteq S /\ S = {Min(S)} \union Spare(S)
  <1>1. S \subseteq Nat
    BY DEF Ids, Typed
  <1> QED
    BY <1>1, SpareFacts

LEMMA ExecutesFits ==
    ASSUME Typed, NEW p \in Plans, Fits(p), Executes(p)
    PROVE  /\ Left(p) \in Plans /\ Fits(Left(p))'
           /\ nextId' \in Nat /\ nextId <= nextId' /\ WindowsTyped'
  <1>1. /\ p.kill \in [holders : SUBSET Ids, runs : SUBSET Ids]
        /\ p.kill.holders \in SUBSET Ids /\ p.kill.runs \in SUBSET Ids
        /\ p.rename \in SUBSET Ids /\ p.create \in SUBSET {"persistent", "run-1", "tab"}
        /\ p = [kill |-> p.kill, rename |-> p.rename, create |-> p.create]
    BY DEF Plans
  <1>2. PICK q : q = Left(p)
    OBVIOUS
  <1>3. WindowsTyped /\ nextId \in Nat
    BY DEF Typed, WindowsTyped
  <1>4. ASSUME NEW i, Kill(i)
        PROVE  nextId' \in Nat /\ nextId <= nextId' /\ WindowsTyped'
    <2>1. CASE UNCHANGED <<tmux, shown>>
      BY <1>3, <2>1 DEF tmux, WindowsTyped, Ids
    <2>2. CASE i \in DOMAIN windows /\ Closes(i)
      <3>1. nextId' = nextId /\ WindowsTyped'
        BY <2>2, ClosesFacts
      <3> QED
        BY <1>3, <3>1
    <2> QED
      BY <1>4, <2>1, <2>2 DEF Kill
  <1>5. CASE p.kill.holders # {}
    <2>1. PICK i : i = Min(p.kill.holders)
      OBVIOUS
    <2>2. /\ i \in p.kill.holders /\ Spare(p.kill.holders) \subseteq p.kill.holders
          /\ p.kill.holders = {i} \union Spare(p.kill.holders)
      BY <1>1, <1>5, <2>1, SpareOf
    <2>3. Kill(i)
      BY <1>5, <2>1 DEF Executes
    <2>4. q = [p EXCEPT !.kill = [p.kill EXCEPT !.holders = Spare(p.kill.holders)]]
      BY <1>1, <1>2, <1>5 DEF Left
    <2>5. /\ q.kill.holders = Spare(p.kill.holders) /\ q.kill.runs = p.kill.runs
          /\ q.rename = p.rename /\ q.create = p.create
      BY <1>1, <2>4
    <2>6. q \in Plans
      <3>1. [p.kill EXCEPT !.holders = Spare(p.kill.holders)] \in [holders : SUBSET Ids, runs : SUBSET Ids]
        BY <1>1, <2>2
      <3> QED
        BY <1>1, <2>4, <3>1 DEF Plans
    <2>7. i \in Killed(p) /\ Killed(q) \subseteq Killed(p) /\ Killed(p) \subseteq {i} \union Killed(q)
      BY <2>2, <2>5 DEF Killed
    <2>8. Fits(q)'
      BY <2>3, <2>5, <2>7, KillFits
    <2> QED
      BY <1>2, <1>4, <2>3, <2>6, <2>8
  <1>6. CASE p.kill.holders = {} /\ p.kill.runs # {}
    <2>1. PICK i : i = Min(p.kill.runs)
      OBVIOUS
    <2>2. /\ i \in p.kill.runs /\ Spare(p.kill.runs) \subseteq p.kill.runs
          /\ p.kill.runs = {i} \union Spare(p.kill.runs)
      BY <1>1, <1>6, <2>1, SpareOf
    <2>3. Kill(i)
      BY <1>6, <2>1 DEF Executes
    <2>4. q = [p EXCEPT !.kill = [p.kill EXCEPT !.runs = Spare(p.kill.runs)]]
      BY <1>1, <1>2, <1>6 DEF Left
    <2>5. /\ q.kill.holders = p.kill.holders /\ q.kill.runs = Spare(p.kill.runs)
          /\ q.rename = p.rename /\ q.create = p.create
      BY <1>1, <2>4
    <2>6. q \in Plans
      <3>1. [p.kill EXCEPT !.runs = Spare(p.kill.runs)] \in [holders : SUBSET Ids, runs : SUBSET Ids]
        BY <1>1, <2>2
      <3> QED
        BY <1>1, <2>4, <3>1 DEF Plans
    <2>7. i \in Killed(p) /\ Killed(q) \subseteq Killed(p) /\ Killed(p) \subseteq {i} \union Killed(q)
      BY <2>2, <2>5 DEF Killed
    <2>8. Fits(q)'
      BY <2>3, <2>5, <2>7, KillFits
    <2> QED
      BY <1>2, <1>4, <2>3, <2>6, <2>8
  <1>7. CASE p.kill.holders = {} /\ p.kill.runs = {} /\ p.rename # {}
    <2>1. PICK i : i = Min(p.rename)
      OBVIOUS
    <2>2. i \in p.rename /\ Spare(p.rename) \subseteq p.rename /\ p.rename = {i} \union Spare(p.rename)
      BY <1>1, <1>7, <2>1, SpareOf
    <2>3. Rename(i)
      BY <1>7, <2>1 DEF Executes
    <2>4. q = [p EXCEPT !.rename = Spare(p.rename)]
      BY <1>1, <1>2, <1>7 DEF Left
    <2>5. q.kill = p.kill /\ q.rename = Spare(p.rename) /\ q.create = p.create /\ q \in Plans
      BY <1>1, <2>2, <2>4 DEF Plans
    <2>6. Killed(p) = {}
      BY <1>7 DEF Killed
    <2>7. Fits(q)'
      BY <2>2, <2>3, <2>5, <2>6, RenameFits
    <2>8. nextId' = nextId
      BY <2>3 DEF Rename, tmux
    <2>9. WindowsTyped'
      <3>1. CASE i \in DOMAIN windows
        <4>1. /\ windows' = [windows EXCEPT ![i] = "run-1"]
              /\ shown' = IF i \in DOMAIN shown THEN [shown EXCEPT ![i].name = "run-1"] ELSE shown
          BY <2>3, <3>1 DEF Rename
        <4>2. DOMAIN windows' = DOMAIN windows /\ \A x \in DOMAIN windows : windows'[x] \in Names
          BY <1>3, <4>1 DEF WindowsTyped, Names
        <4>3. DOMAIN shown' = DOMAIN shown
              /\ \A x \in DOMAIN shown : shown'[x].name \in Names /\ shown'[x].laid \in BOOLEAN
          <5>1. CASE i \in DOMAIN shown
            <6>1. shown' = [shown EXCEPT ![i] = [shown[i] EXCEPT !.name = "run-1"]]
              BY <4>1, <5>1
            <6>2. DOMAIN shown' = DOMAIN shown /\ \A x \in DOMAIN shown : x # i => shown'[x] = shown[x]
              BY <6>1
            <6> QED
              BY <1>3, <4>1, <5>1, <6>2 DEF WindowsTyped, Names
          <5>2. CASE i \notin DOMAIN shown
            BY <1>3, <4>1, <5>2 DEF WindowsTyped
          <5> QED
            BY <5>1, <5>2
        <4> QED
          BY <1>3, <2>8, <4>2, <4>3 DEF WindowsTyped, Ids
      <3>2. CASE i \notin DOMAIN windows
        <4>1. UNCHANGED <<tmux, shown>>
          BY <2>3, <3>2 DEF Rename
        <4> QED
          BY <1>3, <4>1 DEF tmux, WindowsTyped, Ids
      <3> QED
        BY <3>1, <3>2
    <2> QED
      BY <1>2, <1>3, <2>5, <2>7, <2>8, <2>9
  <1>8. CASE p.kill.holders = {} /\ p.kill.runs = {} /\ p.rename = {}
    <2>1. PICK name : name = First(p.create)
      OBVIOUS
    <2>2. name \in {"persistent", "run-1", "tab"} /\ name \in Names
      BY <2>1 DEF First, Names
    <2>3. Opens(name)
      BY <1>8, <2>1 DEF Executes
    <2>4. q = [p EXCEPT !.create = p.create \ {name}]
      BY <1>1, <1>2, <1>8, <2>1 DEF Left
    <2>5. q.kill = p.kill /\ q.rename = {} /\ q.create = p.create \ {name} /\ q \in Plans
      BY <1>1, <1>8, <2>4 DEF Plans
    <2>6. Killed(p) = {}
      BY <1>8 DEF Killed
    <2>7. Fits(q)'
      BY <1>8, <2>1, <2>2, <2>3, <2>5, <2>6, CreateFits
    <2>8. nextId' = nextId + 1 /\ WindowsTyped'
      BY <2>2, <2>3, OpensFacts
    <2> QED
      BY <1>2, <1>3, <2>5, <2>7, <2>8
  <1> QED
    BY <1>5, <1>6, <1>7, <1>8

LEMMA MutatedKeeps ==
    ASSUME IInv, NEW r \in RunIds, Mutated(r)
    PROVE  IInv'
  <1>1. Typed /\ EpochOK /\ StagesOK
    BY DEF IInv
  <1>2. runs[r].at = "mutate" /\ link = "up" /\ connected
    BY <1>1, Attached2Facts DEF Mutated
  <1>3. PICK p : p = runs[r].todo
    OBVIOUS
  <1>4. p \in Plans /\ Fits(p) /\ Executes(p)
    BY <1>1, <1>2, <1>3 DEF Typed, Reinits, StagesOK, StageOK, Mutated
  <1>5. PICK q : q = Left(p)
    OBVIOUS
  <1>6. /\ q \in Plans /\ Fits(q)'
        /\ nextId' \in Nat /\ nextId <= nextId' /\ WindowsTyped'
    BY <1>1, <1>4, <1>5, ExecutesFits
  <1>7. PICK at : at = IF q = NoPlan THEN "names" ELSE "mutate"
    OBVIOUS
  <1>8. at \in Stages /\ at # "restore"
    BY <1>7 DEF Stages
  <1>9. Goes(r, at, q)
    BY <1>3, <1>5, <1>7 DEF Mutated
  <1>10. nextId \in Nat
    BY <1>1 DEF Typed
  <1>11. q \in Plans'
    <2>1. Ids \subseteq Ids'
      BY <1>6, <1>10, IdsGrow
    <2> QED
      BY <1>6, <2>1 DEF Plans
  <1>12. /\ \A x \in RunIds : x # r => runs'[x] = runs[x]
         /\ runs'[r].at = at /\ runs'[r].target = runs[r].target /\ runs'[r].todo = q
         /\ runs' \in Reinits' /\ ctl' = ctl
    BY <1>1, <1>6, <1>8, <1>9, <1>10, <1>11, GoesFacts
  <1>13. /\ link' = link /\ epoch' = epoch /\ connected' = connected
         /\ viewing' = viewing /\ active' = active /\ asked' = asked /\ opening' = opening
    BY DEF Mutated, Rest, main, open
  <1>14. Typed'
    BY <1>1, <1>6, <1>12, <1>13 DEF Typed, WindowsTyped
  <1>15. HolderKept'
    <2>1. CASE "persistent" \in q.create
      BY <1>6, <2>1 DEF Fits, HolderKept
    <2>2. CASE "persistent" \notin q.create
      BY <1>6, <2>2 DEF Fits, HolderKept
    <2> QED
      BY <2>1, <2>2
  <1>16. StageOK(r)'
    <2>1. CASE q = NoPlan
      <3>1. InOrder'
        <4>1. (Fits(NoPlan) => InOrder)'
          BY FitsNoPlan, PTL
        <4> QED
          BY <1>6, <2>1, <4>1
      <3> QED
        BY <1>7, <1>12, <2>1, <3>1 DEF StageOK
    <2>2. CASE q # NoPlan
      BY <1>6, <1>7, <1>12, <2>2 DEF StageOK, Fits
    <2> QED
      BY <2>1, <2>2
  <1>17. /\ ctl'.channel = ctl.channel /\ ctl'.initialized = ctl.initialized
         /\ ctl'.flight = ctl.flight /\ (ctl'.retry => ctl.retry)
    BY <1>12
  <1>18. runs[r].at # "free" /\ runs'[r].at \in Stages /\ runs'[r].at # "restore"
    BY <1>2, <1>8, <1>12
  <1> QED
    BY <1>12, <1>13, <1>14, <1>15, <1>16, <1>17, <1>18, GoesKeeps

-----------------------------------------------------------------------------
(* What a reinit reads, and its end *)

LEMMA NamesReadKeeps ==
    ASSUME IInv, NEW r \in RunIds, NamesRead(r)
    PROVE  IInv'
  <1>1. Typed /\ EpochOK /\ HolderKept /\ StagesOK
    BY DEF IInv
  <1>2. runs[r].at = "names" /\ link = "up" /\ UNCHANGED <<tmux, Rest>> /\ connected /\ epoch > 0
    BY <1>1, Attached2Facts DEF NamesRead
  <1>3. CASE NotSynced(r) /\ UNCHANGED shown
    BY <1>2, <1>3, NotSyncedKeeps
  <1>4. CASE /\ shown' = [i \in Pruned \union DOMAIN windows |->
                            [name |-> IF i \in DOMAIN windows THEN windows[i] ELSE shown[i].name,
                             laid |-> i \in DOMAIN shown /\ shown[i].laid]]
             /\ Goes(r, "layouts", NoPlan)
    <2>1. /\ windows' = windows /\ nextId' = nextId
          /\ link' = link /\ epoch' = epoch /\ connected' = connected
          /\ viewing' = viewing /\ active' = active /\ asked' = asked /\ opening' = opening
      BY <1>2 DEF tmux, Rest, main, open
    <2>2. NoPlan \in Plans'
      BY DEF NoPlan, Plans
    <2>3. nextId \in Nat /\ nextId' \in Nat /\ nextId <= nextId' /\ "layouts" \in Stages
      BY <1>1, <2>1 DEF Typed, Stages
    <2>4. /\ \A x \in RunIds : x # r => runs'[x] = runs[x]
          /\ runs'[r].at = "layouts" /\ runs'[r].target = runs[r].target
          /\ runs' \in Reinits' /\ ctl' = ctl
      BY <1>1, <1>4, <2>2, <2>3, GoesFacts
    <2>5. DOMAIN shown' = DOMAIN windows
      BY <1>4 DEF Pruned
    <2>6. \A i \in DOMAIN shown' : /\ shown'[i].name = windows[i]
                                   /\ shown'[i].laid = (i \in DOMAIN shown /\ shown[i].laid)
      BY <1>4, <2>5
    <2>7. \A i \in DOMAIN shown' : shown'[i].name \in Names /\ shown'[i].laid \in BOOLEAN
      BY <1>1, <2>5, <2>6 DEF Typed
    <2>8. Typed'
      BY <1>1, <2>1, <2>4, <2>5, <2>7 DEF Typed, Ids
    <2>9. HolderKept'
      BY <1>1, <2>1 DEF HolderKept, Holders, RunTtys
    <2>10. StageOK(r)'
      <3>1. runs[r].target = epoch => InOrder
        BY <1>1, <1>2 DEF StagesOK, StageOK
      <3>2. runs'[r].target = epoch' => InOrder'
        BY <2>1, <2>4, <3>1 DEF InOrder, Holders, RunTtys
      <3>3. SameNames'
        BY <2>1, <2>5, <2>6 DEF SameNames
      <3> QED
        BY <2>4, <3>2, <3>3 DEF StageOK
    <2>11. /\ ctl'.channel = ctl.channel /\ ctl'.initialized = ctl.initialized
           /\ ctl'.flight = ctl.flight /\ (ctl'.retry => ctl.retry)
      BY <2>4
    <2>12. runs[r].at # "free" /\ runs'[r].at \in Stages /\ runs'[r].at # "restore"
      BY <1>2, <2>3, <2>4
    <2> QED
      BY <2>1, <2>4, <2>8, <2>9, <2>10, <2>11, <2>12, GoesKeeps
  <1> QED
    BY <1>3, <1>4 DEF NamesRead

LEMMA LayoutsReadKeeps ==
    ASSUME IInv, NEW r \in RunIds, LayoutsRead(r)
    PROVE  IInv'
  <1>1. Typed /\ EpochOK /\ HolderKept /\ StagesOK
    BY DEF IInv
  <1>2. runs[r].at = "layouts" /\ link = "up" /\ UNCHANGED <<tmux, Rest>> /\ connected /\ epoch > 0
    BY <1>1, Attached2Facts DEF LayoutsRead
  <1>3. CASE NotSynced(r) /\ UNCHANGED shown
    BY <1>2, <1>3, NotSyncedKeeps
  <1>4. CASE /\ shown' = [i \in DOMAIN shown \union DOMAIN windows |->
                            [name |-> IF i \in DOMAIN shown THEN shown[i].name ELSE "tab",
                             laid |-> i \in DOMAIN windows \/ shown[i].laid]]
             /\ ctl' = ClearRetry(ctl)
             /\ runs' = [runs EXCEPT ![r].at = "restore"]
    <2>1. /\ windows' = windows /\ nextId' = nextId
          /\ link' = link /\ epoch' = epoch /\ connected' = connected
          /\ viewing' = viewing /\ active' = active /\ asked' = asked /\ opening' = opening
      BY <1>2 DEF tmux, Rest, main, open
    <2>2. ctl \in Ctls /\ 0 \in 0..MaxRetry
      BY <1>1, BoundsAssumption DEF Typed
    <2>3. /\ ctl' \in Ctls /\ ctl'.channel = ctl.channel /\ ctl'.initialized = ctl.initialized
          /\ ctl'.flight = ctl.flight /\ (ctl'.retry => ctl.retry)
      BY <1>4, <2>2 DEF ClearRetry, Ctls
    <2>4. /\ \A x \in RunIds : x # r => runs'[x] = runs[x]
          /\ runs'[r].at = "restore" /\ runs'[r].target = runs[r].target
          /\ runs' \in Reinits
      <3>1. runs[r] \in [at : {"free"} \union Stages, target : Nat, todo : Plans]
        BY <1>1 DEF Typed, Reinits
      <3>2. PICK k : k = [runs[r] EXCEPT !.at = "restore"]
        OBVIOUS
      <3>3. k \in [at : {"free"} \union Stages, target : Nat, todo : Plans]
            /\ k.at = "restore" /\ k.target = runs[r].target
        BY <3>1, <3>2 DEF Stages
      <3>4. runs' = [runs EXCEPT ![r] = k]
        BY <1>4, <3>2
      <3> QED
        BY <1>1, <3>3, <3>4 DEF Typed, Reinits
    <2>5. DOMAIN shown' = DOMAIN shown \union DOMAIN windows
      BY <1>4
    <2>6. /\ \A i \in DOMAIN shown' : i \in DOMAIN shown => shown'[i].name = shown[i].name
          /\ \A i \in DOMAIN shown' : i \notin DOMAIN shown => shown'[i].name = "tab"
          /\ \A i \in DOMAIN shown' : shown'[i].laid = (i \in DOMAIN windows \/ shown[i].laid)
      BY <1>4, <2>5
    <2>7. \A i \in DOMAIN shown' : shown'[i].name \in Names /\ shown'[i].laid \in BOOLEAN
      BY <1>1, <2>6 DEF Typed, Names
    <2>8. Typed'
      BY <1>1, <2>1, <2>3, <2>4, <2>5, <2>7 DEF Typed, Ids, Reinits, Plans
    <2>9. HolderKept'
      BY <1>1, <2>1 DEF HolderKept, Holders, RunTtys
    <2>10. StageOK(r)'
      <3>1. runs[r].target = epoch => InOrder /\ SameNames
        BY <1>1, <1>2 DEF StagesOK, StageOK
      <3>2. runs'[r].target = epoch' => InOrder'
        BY <2>1, <2>4, <3>1 DEF InOrder, Holders, RunTtys
      <3>3. runs'[r].target = epoch' => SameNames'
        BY <2>1, <2>4, <2>5, <2>6, <3>1 DEF SameNames
      <3>4. runs'[r].target = epoch' => AllLaid'
        BY <2>1, <2>4, <2>5, <2>6, <3>1 DEF SameNames, AllLaid
      <3> QED
        BY <2>4, <3>2, <3>3, <3>4 DEF StageOK
    <2>11. runs[r].at # "free" /\ runs'[r].at \in Stages /\ epoch # 0
      BY <1>1, <1>2, <2>4 DEF Stages, Typed
    <2> QED
      BY <2>1, <2>3, <2>4, <2>8, <2>9, <2>10, <2>11, GoesKeeps
  <1> QED
    BY <1>3, <1>4 DEF LayoutsRead

LEMMA RejectedKeeps ==
    ASSUME IInv, NEW r \in RunIds, Rejected(r)
    PROVE  IInv'
  <1>1. Typed /\ EpochOK /\ HolderKept /\ StagesOK
    BY DEF IInv
  <1>2. runs[r].at \in Stages /\ runs[r].at # "free" /\ link # "up" /\ UNCHANGED <<tmux, shown, Rest>>
    BY <1>1 DEF Rejected, Typed, Reinits
  <1>3. CASE runs[r].at \in {"names", "layouts"}
    <2>1. NotSynced(r)
      BY <1>3 DEF Rejected
    <2> QED
      BY <1>2, <2>1, NotSyncedKeeps
  <1>4. CASE runs[r].at = "restore"
    <2>1. Synced(r)
      BY <1>4 DEF Rejected
    <2> QED
      BY <1>2, <1>4, <2>1, SyncedKeeps
  <1>5. CASE runs[r].at \in {"list", "mutate"}
    <2>1. Goes(r, "names", NoPlan)
      BY <1>5 DEF Rejected
    <2>2. /\ windows' = windows /\ nextId' = nextId /\ shown' = shown
          /\ link' = link /\ epoch' = epoch /\ connected' = connected
          /\ viewing' = viewing /\ active' = active /\ asked' = asked /\ opening' = opening
      BY <1>2 DEF tmux, Rest, main, open
    <2>3. NoPlan \in Plans'
      BY DEF NoPlan, Plans
    <2>4. nextId \in Nat /\ nextId' \in Nat /\ nextId <= nextId' /\ "names" \in Stages
      BY <1>1, <2>2 DEF Typed, Stages
    <2>5. /\ \A x \in RunIds : x # r => runs'[x] = runs[x]
          /\ runs'[r].at = "names" /\ runs'[r].target = runs[r].target
          /\ runs' \in Reinits' /\ ctl' = ctl
      BY <1>1, <2>1, <2>3, <2>4, GoesFacts
    <2>6. Typed'
      BY <1>1, <2>2, <2>5 DEF Typed, Ids
    <2>7. HolderKept'
      BY <1>1, <2>2 DEF HolderKept, Holders, RunTtys
    <2>8. StageOK(r)'
      BY <1>2, <2>2, <2>5 DEF StageOK
    <2>9. /\ ctl'.channel = ctl.channel /\ ctl'.initialized = ctl.initialized
          /\ ctl'.flight = ctl.flight /\ (ctl'.retry => ctl.retry)
      BY <2>5
    <2>10. runs'[r].at \in Stages /\ runs'[r].at # "restore"
      BY <2>4, <2>5
    <2> QED
      BY <1>2, <2>2, <2>5, <2>6, <2>7, <2>8, <2>9, <2>10, GoesKeeps
  <1> QED
    BY <1>2, <1>3, <1>4, <1>5 DEF Stages

LEMMA RunStepKeeps ==
    ASSUME IInv, NEW r \in RunIds, RunStep(r)
    PROVE  IInv'
  <1>1. CASE Restored(r)
    <2>1. runs[r].at = "restore" /\ Synced(r) /\ UNCHANGED <<tmux, shown, Rest>>
      BY <1>1 DEF Restored
    <2> QED
      BY <2>1, SyncedKeeps
  <1> QED
    BY <1>1, ListedKeeps, MutatedKeeps, NamesReadKeeps, LayoutsReadKeeps, RejectedKeeps DEF RunStep

-----------------------------------------------------------------------------
(* The user, whatever a reinit is doing *)

(* A plan still fits when the windows it is about are the same, or fewer *)
LEMMA FitsAnyway ==
    ASSUME Typed, NEW p \in Plans, Fits(p),
           \/ Opens("tab")
           \/ \E i \in Of(windows, {"tab", "run-1"}) : Closes(i)
    PROVE  Fits(p)'
  <1>1. Killed(p)' = Killed(p)
    BY DEF Killed
  <1>2. CASE Opens("tab")
    <2>1. "tab" \in Names /\ "tab" \notin Runs
      BY DEF Names, Runs
    <2>2. /\ Holders' = Holders /\ RunTtys' = RunTtys /\ nextId \notin Ids
          /\ DOMAIN windows' = DOMAIN windows \union {nextId}
          /\ \A x \in DOMAIN windows : windows'[x] = windows[x]
      BY <1>2, <2>1, OpensClasses
    <2>3. p.rename \subseteq Ids
      BY DEF Plans
    <2>4. p.rename \intersect DOMAIN windows' \subseteq RunTtys \ Killed(p)
      BY <2>2, <2>3 DEF Fits
    <2>5. \A x \in RunTtys : windows'[x] = windows[x]
      BY <2>2, OfFacts
    <2> QED
      BY <1>1, <2>2, <2>4, <2>5 DEF Fits
  <1>3. ASSUME NEW i \in Of(windows, {"tab", "run-1"}), Closes(i)
        PROVE  Fits(p)'
    <2>1. i \in DOMAIN windows /\ windows[i] \in {"tab", "run-1"}
      BY DEF Of
    <2>2. /\ Holders' = Holders \ {i} /\ RunTtys' = RunTtys \ {i}
          /\ DOMAIN windows' = DOMAIN windows \ {i}
          /\ \A x \in DOMAIN windows \ {i} : windows'[x] = windows[x]
      BY <1>3, <2>1, ClosesClasses
    <2>3. Holders' = Holders
      BY <2>1, <2>2, OfFacts
    <2>4. \A x \in RunTtys' : windows'[x] = windows[x]
      BY <2>2, OfFacts
    <2>5. p.rename \intersect DOMAIN windows' \subseteq RunTtys' \ Killed(p)
      BY <2>2 DEF Fits
    <2>6. \A x \in RunTtys' \ Killed(p) : windows'[x] = "run-2" => x \in p.rename
      BY <2>2, <2>4 DEF Fits
    <2> QED
      BY <1>1, <2>2, <2>3, <2>5, <2>6 DEF Fits
  <1> QED
    BY <1>2, <1>3

LEMMA UserKeeps ==
    ASSUME IInv, User
    PROVE  IInv'
  <1>1. Typed /\ FlightOK /\ EpochOK /\ Going /\ HolderKept /\ StagesOK /\ DoneOK
    BY DEF IInv
  <1>2. /\ link' = link /\ epoch' = epoch /\ connected' = connected
        /\ viewing' = viewing /\ active' = active /\ asked' = asked /\ opening' = opening
        /\ ctl' = ctl /\ runs' = runs
    BY DEF User, main, open
  <1>3. Opens("tab") \/ \E i \in Of(windows, {"tab", "run-1"}) : Closes(i)
    BY DEF User
  <1>4. /\ nextId' \in Nat /\ nextId \in Nat /\ nextId <= nextId' /\ WindowsTyped'
        /\ HolderKept'
        /\ InOrder => InOrder'
        /\ link = "up" => /\ SameNames => SameNames'
                          /\ AllLaid => AllLaid'
    <2>1. CASE Opens("tab")
      <3>1. "tab" \in Names /\ "tab" \notin Runs
        BY DEF Names, Runs
      <3>2. /\ Holders' = Holders /\ RunTtys' = RunTtys
            /\ \A x \in DOMAIN windows : windows'[x] = windows[x]
        BY <1>1, <2>1, <3>1, OpensClasses
      <3>3. /\ nextId' = nextId + 1 /\ WindowsTyped' /\ nextId \notin Ids
            /\ DOMAIN windows' = DOMAIN windows \union {nextId} /\ windows'[nextId] = "tab"
            /\ link = "up" => /\ DOMAIN shown' = DOMAIN shown \union {nextId}
                              /\ shown'[nextId] = Tab
                              /\ \A x \in DOMAIN shown : shown'[x] = shown[x]
        BY <1>1, <2>1, <3>1, OpensFacts
      <3>4. HolderKept'
        BY <1>1, <3>2 DEF HolderKept
      <3>5. InOrder => InOrder'
        BY <1>1, <3>2, OfFacts DEF InOrder
      <3>6. nextId \notin DOMAIN shown /\ nextId \notin DOMAIN windows
        BY <1>1, <3>3 DEF Typed
      <3>7. Tab.name = "tab" /\ Tab.laid
        BY DEF Tab
      <3>8. link = "up" /\ SameNames => SameNames'
        BY <3>2, <3>3, <3>6, <3>7 DEF SameNames
      <3>9. link = "up" /\ AllLaid => AllLaid'
        BY <3>3, <3>6, <3>7 DEF AllLaid
      <3>10. nextId \in Nat
        BY <1>1 DEF Typed
      <3> QED
        BY <3>3, <3>4, <3>5, <3>8, <3>9, <3>10
    <2>2. ASSUME NEW i \in Of(windows, {"tab", "run-1"}), Closes(i)
          PROVE  /\ nextId' \in Nat /\ nextId \in Nat /\ nextId <= nextId' /\ WindowsTyped'
                 /\ HolderKept'
                 /\ InOrder => InOrder'
                 /\ link = "up" => /\ SameNames => SameNames'
                                   /\ AllLaid => AllLaid'
      <3>1. i \in DOMAIN windows /\ windows[i] \in {"tab", "run-1"}
        BY DEF Of
      <3>2. /\ Holders' = Holders \ {i} /\ RunTtys' = RunTtys \ {i}
            /\ \A x \in DOMAIN windows \ {i} : windows'[x] = windows[x]
        BY <1>1, <2>2, <3>1, ClosesClasses
      <3>3. /\ nextId' = nextId /\ WindowsTyped' /\ DOMAIN windows' = DOMAIN windows \ {i}
            /\ link = "up" => /\ DOMAIN shown' = DOMAIN shown \ {i}
                              /\ \A x \in DOMAIN shown \ {i} : shown'[x] = shown[x]
        BY <1>1, <2>2, <3>1, ClosesFacts
      <3>4. Holders' = Holders
        BY <1>1, <3>1, <3>2, OfFacts
      <3>5. HolderKept'
        BY <1>1, <3>2, <3>4 DEF HolderKept
      <3>6. InOrder => InOrder'
        BY <1>1, <3>2, <3>4, OfFacts DEF InOrder
      <3>7. link = "up" /\ SameNames => SameNames'
        BY <3>2, <3>3 DEF SameNames
      <3>8. link = "up" /\ AllLaid => AllLaid'
        BY <3>3 DEF AllLaid
      <3>9. nextId \in Nat
        BY <1>1 DEF Typed
      <3> QED
        BY <3>3, <3>5, <3>6, <3>7, <3>8, <3>9
    <2> QED
      BY <1>3, <2>1, <2>2
  <1>5. Plans \subseteq Plans'
    <2>1. Ids \subseteq Ids'
      BY <1>4, IdsGrow
    <2> QED
      BY <2>1 DEF Plans
  <1>6. runs' \in Reinits'
    <2>1. \A x \in RunIds : runs[x] \in [at : {"free"} \union Stages, target : Nat, todo : Plans']
      <3> TAKE x \in RunIds
      <3>1. runs[x] \in [at : {"free"} \union Stages, target : Nat, todo : Plans]
        BY <1>1 DEF Typed, Reinits
      <3> HIDE DEF Plans
      <3> QED
        BY <1>5, <3>1
    <2>2. runs \in [RunIds -> [at : {"free"} \union Stages, target : Nat, todo : Plans']]
      BY <1>1, <2>1 DEF Typed, Reinits
    <2> QED
      BY <1>2, <2>2 DEF Reinits
  <1>7. Typed'
    BY <1>1, <1>2, <1>4, <1>6 DEF Typed, WindowsTyped
  <1>8. FlightOK' /\ EpochOK' /\ Going'
    BY <1>1, <1>2 DEF FlightOK, EpochOK, Going, Serving, Idle
  <1>9. StagesOK'
    <2> SUFFICES ASSUME NEW x \in RunIds PROVE StageOK(x)'
      BY DEF StagesOK
    <2>1. PICK p : p = runs[x].todo
      OBVIOUS
    <2>2. p \in Plans
      BY <1>1, <2>1 DEF Typed, Reinits
    <2>3. Fits(p) => Fits(p)'
      BY <1>1, <1>3, <2>2, FitsAnyway
    <2>4. StageOK(x)
      BY <1>1 DEF StagesOK
    <2>5. connected' /\ runs'[x].at = "mutate" => Fits(p)'
      BY <1>2, <2>1, <2>3, <2>4 DEF StageOK
    <2>6. runs'[x].todo = p
      BY <1>2, <2>1
    <2>7. connected' /\ link' = "up" /\ runs'[x].target = epoch' =>
            /\ runs'[x].at \in {"names", "layouts", "restore"} => InOrder'
            /\ runs'[x].at \in {"layouts", "restore"} => SameNames'
            /\ runs'[x].at = "restore" => AllLaid'
      BY <1>2, <1>4, <2>4 DEF StageOK
    <2>8. connected' /\ runs'[x].at = "mutate" => Fits(runs[x].todo)'
      BY <2>5, <2>6 DEF Fits, Killed
    <2> QED
      BY <2>7, <2>8 DEF StageOK
  <1>10. DoneOK'
    BY <1>1, <1>2, <1>4 DEF DoneOK
  <1> QED
    BY <1>4, <1>7, <1>8, <1>9, <1>10 DEF IInv

-----------------------------------------------------------------------------
(* Acquiring, teardown, and the channel *)

LEMMA AcquireKeeps ==
    ASSUME IInv, Acquire
    PROVE  IInv'
  <1>1. Typed /\ FlightOK /\ EpochOK /\ HolderKept /\ StagesOK /\ DoneOK
    BY DEF IInv
  <1>2. /\ windows' = windows /\ nextId' = nextId /\ shown' = shown
        /\ link' = link /\ epoch' = epoch /\ connected' = connected
        /\ ctl' = ctl /\ runs' = runs /\ viewing' = TRUE /\ active' = TRUE
    BY DEF Acquire, Acquires, tmux, main
  <1>3. opening' \in BOOLEAN /\ asked' \in 0..MaxOpens /\ asked' > 0
    <2>1. MaxOpens \in Nat /\ asked \in 0..MaxOpens /\ opening \in BOOLEAN /\ (opening => asked > 0)
      BY <1>1, BoundsAssumption DEF Typed
    <2>2. CASE opening
      BY <2>1, <2>2 DEF Acquire, Acquires, open
    <2>3. CASE ~opening
      <3>1. asked < MaxOpens /\ asked' = asked + 1 /\ opening' = TRUE
        BY <2>3 DEF Acquire, Acquires
      <3> QED
        BY <2>1, <3>1
    <2> QED
      BY <2>2, <2>3
  <1>4. Typed'
    BY <1>1, <1>2, <1>3 DEF Typed, Ids, Reinits, Plans
  <1>5. FlightOK' /\ EpochOK' /\ Going'
    BY <1>1, <1>2, <1>3 DEF FlightOK, EpochOK, Going, Idle
  <1>6. StagesOK' /\ DoneOK' /\ HolderKept'
    BY <1>1, <1>2 DEF StagesOK, StageOK, DoneOK, HolderKept, Fits, InOrder, SameNames, AllLaid, Holders, RunTtys
  <1> QED
    BY <1>4, <1>5, <1>6 DEF IInv

LEMMA ViewOtherKeeps ==
    ASSUME IInv, ViewOther
    PROVE  IInv'
  <1>1. Typed /\ FlightOK /\ EpochOK /\ HolderKept /\ StagesOK /\ DoneOK /\ Going
    BY DEF IInv
  <1>2. /\ windows' = windows /\ nextId' = nextId /\ shown' = shown
        /\ link' = link /\ epoch' = epoch /\ connected' = connected
        /\ ctl' = ctl /\ runs' = runs /\ viewing' = FALSE /\ active' \in {FALSE, active}
        /\ asked' = asked /\ opening' = opening
    BY DEF ViewOther, tmux, main, open
  <1>3. active' \in BOOLEAN /\ (active' => active)
    <2>1. active \in BOOLEAN
      BY <1>1 DEF Typed
    <2>2. CASE active' = FALSE
      BY <2>2
    <2>3. CASE active' = active
      BY <2>1, <2>3
    <2> QED
      BY <1>2, <2>2, <2>3
  <1>4. Typed'
    BY <1>1, <1>2, <1>3 DEF Typed, Ids, Reinits, Plans
  <1>5. FlightOK' /\ EpochOK' /\ Going'
    BY <1>1, <1>2, <1>3 DEF FlightOK, EpochOK, Going, Serving, Idle
  <1>6. StagesOK' /\ DoneOK' /\ HolderKept'
    BY <1>1, <1>2 DEF StagesOK, StageOK, DoneOK, HolderKept, Fits, InOrder, SameNames, AllLaid, Holders, RunTtys
  <1> QED
    BY <1>4, <1>5, <1>6 DEF IInv

(* resetControlSession *)
LEMMA ForgetsFacts ==
    ASSUME Typed, Forgets
    PROVE  /\ ctl' \in Ctls /\ ctl'.channel = ctl.channel /\ ctl'.initialized = 0
           /\ ctl'.flight = None /\ ctl'.retry = FALSE
  <1>1. ctl.channel \in Nat /\ 0 \in 0..MaxRetry
    BY BoundsAssumption DEF Typed, Ctls
  <1>2. ctl' = [channel |-> ctl.channel, initialized |-> 0, flight |-> None, pending |-> FALSE,
                retry |-> FALSE, attempts |-> 0, gaveUp |-> FALSE]
    BY DEF Forgets, Fresh
  <1> QED
    BY <1>1, <1>2 DEF Ctls

LEMMA DisconnectedKeeps ==
    ASSUME ~LateReplies, IInv, Disconnected
    PROVE  IInv'
  <1>1. Typed /\ HolderKept
    BY DEF IInv
  <1>2. /\ windows' = windows /\ nextId' = nextId /\ shown' = << >> /\ link' = "none" /\ epoch' = 0
        /\ connected' = FALSE /\ active' = FALSE /\ opening' = FALSE
        /\ viewing' = viewing /\ asked' = asked /\ runs' = runs
        /\ \E r \in RunIds : runs[r].at = "free"
    BY DEF Disconnected, Teardown, tmux
  <1>3. /\ ctl' \in Ctls /\ ctl'.channel = ctl.channel /\ ctl'.initialized = 0
        /\ ctl'.flight = None /\ ctl'.retry = FALSE
    BY <1>1, ForgetsFacts DEF Disconnected, Teardown
  <1>4. \A r \in RunIds : runs[r].at # "restore"
    BY DEF Disconnected, Quiescent
  <1>5. 0 \in 0..MaxEpoch /\ DOMAIN shown' = {}
    BY <1>2, BoundsAssumption
  <1>6. Typed'
    <2>1. asked' \in 0..MaxOpens /\ viewing' \in BOOLEAN /\ connected' \in BOOLEAN
          /\ active' \in BOOLEAN /\ opening' \in BOOLEAN /\ ~opening'
      BY <1>1, <1>2 DEF Typed
    <2>2. nextId' \in Nat \ {0} /\ DOMAIN windows' \subseteq Ids' /\ runs' \in Reinits'
          /\ \A i \in DOMAIN windows' : windows'[i] \in Names
      BY <1>1, <1>2 DEF Typed, Ids, Reinits, Plans
    <2> QED
      BY <1>2, <1>3, <1>5, <2>1, <2>2 DEF Typed
  <1>7. FlightOK' /\ EpochOK' /\ Going' /\ StagesOK' /\ DoneOK'
    BY <1>2, <1>3, <1>4 DEF FlightOK, EpochOK, Going, Serving, StagesOK, StageOK, DoneOK
  <1>8. HolderKept'
    BY <1>1, <1>2 DEF HolderKept, Holders, RunTtys
  <1> QED
    BY <1>6, <1>7, <1>8 DEF IInv

LEMMA QuiescentIdle ==
    ASSUME ~LateReplies, Typed, Quiescent(Stages)
    PROVE  Idle
  BY DEF Typed, Reinits, Quiescent, Idle

LEMMA ConnectedKeeps ==
    ASSUME ~LateReplies, IInv, Connected
    PROVE  IInv'
  <1>1. Typed /\ FlightOK /\ EpochOK /\ HolderKept
    BY DEF IInv
  <1>2. /\ windows' = windows /\ nextId' = nextId /\ shown' = shown /\ link' = link /\ epoch' = epoch
        /\ connected' = TRUE /\ ~connected /\ viewing' = viewing /\ runs' = runs /\ ctl' = ctl
        /\ ~ctl.retry
    BY DEF Connected, tmux
  <1>3. Idle
    BY <1>1, QuiescentIdle DEF Connected
  <1>4. active' \in BOOLEAN /\ opening' \in BOOLEAN /\ asked' \in 0..MaxOpens /\ (opening' => asked' > 0)
    <2>1. /\ MaxOpens \in Nat /\ asked \in 0..MaxOpens /\ opening \in BOOLEAN /\ (opening => asked > 0)
          /\ active \in BOOLEAN
      BY <1>1, BoundsAssumption DEF Typed
    <2>2. CASE viewing /\ opening
      BY <2>1, <2>2 DEF Connected, Acquires, open
    <2>3. CASE viewing /\ ~opening
      <3>1. asked < MaxOpens /\ asked' = asked + 1 /\ opening' = TRUE /\ active' = TRUE
        BY <2>3 DEF Connected, Acquires
      <3> QED
        BY <2>1, <3>1
    <2>4. CASE ~viewing
      BY <2>1, <2>4 DEF Connected, open
    <2> QED
      BY <2>2, <2>3, <2>4
  <1>5. Typed'
    BY <1>1, <1>2, <1>4 DEF Typed, Ids, Reinits, Plans
  <1>6. epoch = 0 /\ link = "none" /\ ctl.initialized = 0
    BY <1>1, <1>2 DEF EpochOK
  <1>7. FlightOK'
    BY <1>1, <1>2, <1>3 DEF FlightOK, Idle
  <1>8. EpochOK' /\ Going' /\ StagesOK' /\ DoneOK'
    BY <1>2, <1>3, <1>6 DEF EpochOK, Idle, Going, Serving, StagesOK, StageOK, DoneOK
  <1>9. HolderKept'
    BY <1>1, <1>2 DEF HolderKept, Holders, RunTtys
  <1> QED
    BY <1>5, <1>7, <1>8, <1>9 DEF IInv

LEMMA SwitchRendererKeeps ==
    ASSUME ~LateReplies, IInv, SwitchRenderer
    PROVE  IInv'
  <1>1. Typed /\ FlightOK /\ EpochOK /\ HolderKept
    BY DEF IInv
  <1>2. /\ windows' = windows /\ nextId' = nextId /\ shown' = << >> /\ link' = link /\ epoch' = epoch
        /\ connected' = connected /\ viewing' = viewing /\ runs' = runs
        /\ active' = TRUE /\ opening' = TRUE /\ asked < MaxOpens /\ asked' = asked + 1
        /\ \E r \in RunIds : runs[r].at = "free"
    BY DEF SwitchRenderer, Teardown, tmux, main
  <1>3. /\ ctl' \in Ctls /\ ctl'.channel = ctl.channel /\ ctl'.initialized = 0
        /\ ctl'.flight = None /\ ctl'.retry = FALSE
    BY <1>1, ForgetsFacts DEF SwitchRenderer, Teardown
  <1>4. Idle
    BY <1>1, QuiescentIdle DEF SwitchRenderer
  <1>5. asked' \in 0..MaxOpens /\ asked' > 0
    <2>1. MaxOpens \in Nat /\ asked \in 0..MaxOpens
      BY <1>1, BoundsAssumption DEF Typed
    <2> QED
      BY <1>2, <2>1
  <1>6. Typed'
    BY <1>1, <1>2, <1>3, <1>5 DEF Typed, Ids, Reinits, Plans
  <1>7. FlightOK' /\ Going' /\ StagesOK'
    BY <1>2, <1>3, <1>4, <1>5 DEF FlightOK, Idle, Going, StagesOK, StageOK
  <1>8. EpochOK' /\ DoneOK'
    BY <1>1, <1>2, <1>3, <1>4 DEF EpochOK, DoneOK, Idle, Typed
  <1>9. HolderKept'
    BY <1>1, <1>2 DEF HolderKept, Holders, RunTtys
  <1> QED
    BY <1>6, <1>7, <1>8, <1>9 DEF IInv

LEMMA OpenRejectsKeeps ==
    ASSUME IInv, OpenRejects
    PROVE  IInv'
  <1>1. Typed /\ FlightOK /\ EpochOK /\ HolderKept /\ StagesOK
    BY DEF IInv
  <1>2. /\ windows' = windows /\ nextId' = nextId /\ shown' = shown
        /\ link' = link /\ epoch' = epoch /\ connected' = connected /\ link # "up"
        /\ ctl' = ctl /\ runs' = runs /\ viewing' = viewing /\ active' = active
    BY DEF OpenRejects, tmux, main
  <1>3. opening' \in BOOLEAN /\ asked' \in 0..MaxOpens /\ (opening' => asked' > 0)
    <2>1. MaxOpens \in Nat
      BY BoundsAssumption
    <2>2. asked \in 0..MaxOpens /\ asked > 0 /\ asked' = asked - 1
          /\ opening' \in {opening, FALSE} /\ (opening' => asked > 1) /\ opening \in BOOLEAN
      BY <1>1 DEF OpenRejects, Settles, Typed
    <2>3. asked' \in 0..MaxOpens /\ (asked > 1 => asked' > 0)
      BY <2>1, <2>2
    <2> QED
      BY <2>2, <2>3
  <1>4. Typed'
    BY <1>1, <1>2, <1>3 DEF Typed, Ids, Reinits, Plans
  <1>5. FlightOK' /\ EpochOK' /\ Going' /\ DoneOK'
    BY <1>1, <1>2 DEF FlightOK, EpochOK, Going, Serving, Idle, DoneOK
  <1>6. StagesOK' /\ HolderKept'
    BY <1>1, <1>2 DEF StagesOK, StageOK, HolderKept, Fits, Holders, RunTtys
  <1> QED
    BY <1>4, <1>5, <1>6 DEF IInv

(* The channel is lost, or given up *)
LEMMA ChannelGone ==
    ASSUME IInv, link' \in {"lost", "none"}, link # "none", shown' \in {shown, << >>},
           windows' = windows, nextId' = nextId, epoch' = epoch, connected' = connected,
           viewing' = viewing, active' = active, ctl' = ctl, runs' = runs,
           asked' = asked, opening' = opening
    PROVE  IInv'
  <1>1. Typed /\ FlightOK /\ EpochOK /\ HolderKept /\ StagesOK
    BY DEF IInv
  <1>2. epoch > 0 /\ link' # "up"
    BY <1>1 DEF EpochOK, Typed
  <1>3. Typed'
    <2>1. DOMAIN shown' \subseteq Ids /\ \A i \in DOMAIN shown' : shown'[i].name \in Names /\ shown'[i].laid \in BOOLEAN
      <3>1. CASE shown' = shown
        BY <1>1, <3>1 DEF Typed
      <3>2. CASE shown' = << >>
        BY <3>2
      <3> QED
        BY <3>1, <3>2
    <2> QED
      BY <1>1, <2>1 DEF Typed, Ids, Reinits, Plans
  <1>4. FlightOK' /\ EpochOK' /\ Going' /\ DoneOK'
    BY <1>1, <1>2 DEF FlightOK, EpochOK, Going, Serving, Idle, DoneOK
  <1>5. StagesOK' /\ HolderKept'
    BY <1>1, <1>2 DEF StagesOK, StageOK, HolderKept, Fits, Holders, RunTtys
  <1> QED
    BY <1>3, <1>4, <1>5 DEF IInv

LEMMA ChannelKeeps ==
    ASSUME IInv, Lost \/ GivesUp
    PROVE  IInv'
  <1>1. /\ link' \in {"lost", "none"} /\ link # "none" /\ shown' \in {shown, << >>}
        /\ windows' = windows /\ nextId' = nextId /\ epoch' = epoch /\ connected' = connected
        /\ viewing' = viewing /\ active' = active /\ ctl' = ctl /\ runs' = runs
        /\ asked' = asked /\ opening' = opening
    BY DEF Lost, GivesUp, tmux, open
  <1> QED
    BY <1>1, ChannelGone

-----------------------------------------------------------------------------
(* The theorems *)

LEMMA InitInv == Init => IInv
  <1> SUFFICES ASSUME Init PROVE IInv
    OBVIOUS
  <1>1. PICK s \in Sessions : windows = s /\ nextId = Len(s) + 1
    BY DEF Init
  <1>2. /\ s \in Seq(Names) /\ s # << >>
        /\ \A i, j \in DOMAIN s : s[i] \in Runs /\ s[j] \in Runs /\ i # j
               => \E k \in DOMAIN s : s[k] = "persistent"
    BY <1>1, SessionsAssumption
  <1>3. /\ link = "none" /\ epoch = 0 /\ connected = TRUE /\ viewing = FALSE /\ active = FALSE
        /\ shown = << >> /\ ctl = Fresh /\ runs = [r \in RunIds |-> Free]
        /\ asked = 0 /\ opening = FALSE
    BY DEF Init
  <1>4. DOMAIN s = 1..Len(s) /\ Len(s) \in Nat /\ \A i \in DOMAIN s : s[i] \in Names
    BY <1>2
  <1>5. Typed
    <2>1. 0 \in 0..MaxRetry /\ 0 \in 0..MaxOpens /\ 0 \in 0..MaxEpoch
      BY BoundsAssumption
    <2>2. Fresh \in Ctls
      BY <2>1 DEF Fresh, Ctls
    <2>3. runs \in Reinits
      BY <1>3, NoPlanTypes DEF Reinits
    <2>4. nextId \in Nat \ {0} /\ DOMAIN windows = Ids
      <3>1. Len(s) + 1 - 1 = Len(s)
        BY <1>4
      <3> QED
        BY <1>1, <1>4, <3>1 DEF Ids
    <2>5. \A i \in DOMAIN windows : windows[i] \in Names
      BY <1>1, <1>4
    <2>6. DOMAIN shown = {}
      BY <1>3
    <2> QED
      BY <1>3, <2>1, <2>2, <2>3, <2>4, <2>5, <2>6 DEF Typed
  <1>6. Idle
    BY <1>3, NoPlanTypes DEF Idle
  <1>7. FlightOK
    BY <1>3, <1>6, RunIdsAssumption DEF FlightOK, Idle, Fresh
  <1>8. EpochOK /\ Going /\ DoneOK /\ StagesOK
    BY <1>3, <1>6 DEF EpochOK, Going, Serving, DoneOK, StagesOK, StageOK, Fresh, Idle
  <1>9. HolderKept
    <2> SUFFICES ASSUME NEW i \in RunTtys, NEW j \in RunTtys, i # j PROVE Holders # {}
      BY DEF HolderKept
    <2>1. \E k \in DOMAIN windows : windows[k] = "persistent"
      BY <1>1, <1>2 DEF RunTtys, Of
    <2> QED
      BY <2>1 DEF Holders, Of
  <1> QED
    BY <1>5, <1>7, <1>8, <1>9 DEF IInv

LEMMA NextKeeps ==
    ASSUME ~LateReplies, IInv, [Next]_vars
    PROVE  IInv'
  <1>1. CASE UNCHANGED vars
    <2>1. /\ windows' = windows /\ nextId' = nextId /\ shown' = shown
          /\ link' = link /\ epoch' = epoch /\ connected' = connected
          /\ viewing' = viewing /\ active' = active /\ ctl' = ctl /\ runs' = runs
          /\ asked' = asked /\ opening' = opening
      BY <1>1 DEF vars, tmux, main, open
    <2>2. Typed'
      BY <2>1 DEF IInv, Typed, Ids, Plans, Reinits
    <2>3. FlightOK' /\ EpochOK' /\ Going'
      BY <2>1 DEF IInv, FlightOK, EpochOK, Going, Serving, Idle
    <2>4. HolderKept' /\ DoneOK'
      BY <2>1 DEF IInv, HolderKept, DoneOK, InOrder, SameNames, AllLaid, Holders, RunTtys
    <2>5. StagesOK'
      BY <2>1 DEF IInv, StagesOK, StageOK, Fits, InOrder, SameNames, AllLaid, Holders, RunTtys
    <2> QED
      BY <2>2, <2>3, <2>4, <2>5 DEF IInv
  <1>2. CASE Next
    BY <1>2, RunStepKeeps, RetryFiresKeeps, AcquireKeeps, ViewOtherKeeps, DisconnectedKeeps,
       ConnectedKeeps, SwitchRendererKeeps, AttachedKeeps, OpenResolvesKeeps, OpenRejectsKeeps,
       ChannelKeeps, UserKeeps DEF Next
  <1> QED
    BY <1>1, <1>2

(* The state is well typed, a reinit is under way or due for every channel *)
(* that is not initialized, what is left of a plan always puts the         *)
(* reserved windows in order, and the view of an initialized channel has   *)
(* the windows of tmux.                                                    *)
THEOREM Invariance ==
    ASSUME ~LateReplies
    PROVE  Spec => []IInv
  <1>1. IInv /\ [Next]_vars => IInv'
    BY NextKeeps
  <1> QED
    BY <1>1, InitInv, PTL DEF Spec

LEMMA InvTypes == IInv => TypeOK
  <1> SUFFICES ASSUME IInv PROVE TypeOK
    OBVIOUS
  <1>1. Typed
    BY DEF IInv
  <1>2. \A i \in Ids : i < nextId
    BY <1>1 DEF Typed, Ids
  <1> QED
    BY <1>1, <1>2 DEF Typed, TypeOK, Ctls, Reinits

(* When nothing is under way the channel is initialized *)
LEMMA QuietIsDone ==
    ASSUME IInv, Quiet
    PROVE  InOrder /\ SameNames /\ AllLaid
  <1>1. ctl.flight = None
    BY DEF IInv, FlightOK, Typed, Ctls, Quiet
  <1>2. ctl.initialized = ctl.channel
    BY <1>1 DEF IInv, Going, Quiet
  <1>3. connected /\ link = "up" /\ epoch > 0
    BY Attached2Facts DEF IInv, Quiet, Serving
  <1>4. ctl.channel = epoch
    BY <1>3 DEF IInv, EpochOK
  <1> QED
    BY <1>2, <1>3, <1>4 DEF IInv, DoneOK

(* SettledShowsTmux: once nothing is under way for the project on the      *)
(* screen, its tabs are the windows of its session, each with its name and *)
(* its layout (syncFromTmux), for any sessions, bounds and settings,       *)
(* provided no teardown meets a reinit half way.                           *)
THEOREM SettledShowsTmuxAlways ==
    ASSUME ~LateReplies
    PROVE  Spec => []SettledShowsTmux
  <1>1. IInv => SettledShowsTmux
    BY InvTypes, QuietIsDone DEF SettledShowsTmux, SameNames, AllLaid
  <1> QED
    BY <1>1, Invariance, PTL

(* OneOfEach: ... and the session then has one persistent window and at    *)
(* most one run tty, under the name the Run panel looks for                *)
(* (ensureWindows), however many spares there were at the start and        *)
(* whatever the user opened and closed meanwhile.                          *)
THEOREM OneOfEachAlways ==
    ASSUME ~LateReplies
    PROVE  Spec => []OneOfEach
  <1>1. ASSUME IInv PROVE OneOfEach
    <2> SUFFICES ASSUME Quiet
                 PROVE  /\ Cardinality(Holders) = 1
                        /\ Cardinality(RunTtys) <= 1
                        /\ Of(windows, {"run-2"}) = {}
      BY DEF OneOfEach, Holders, RunTtys
    <2>1. InOrder
      BY <1>1, QuietIsDone
    <2>2. Cardinality(Holders) = 1
      BY <2>1, FS_Singleton DEF InOrder
    <2>3. Cardinality(RunTtys) <= 1
      <3>1. CASE RunTtys = {}
        BY <3>1, FS_EmptySet
      <3>2. CASE RunTtys # {}
        <4>1. PICK i \in RunTtys : RunTtys = {i}
          BY <2>1, <3>2 DEF InOrder
        <4>2. Cardinality(RunTtys) = 1
          BY <4>1, FS_Singleton
        <4> QED
          BY <4>2
      <3> QED
        BY <3>1, <3>2
    <2>4. Of(windows, {"run-2"}) = {}
      BY <2>1 DEF InOrder, RunTtys, Of, Runs
    <2> QED
      BY <2>2, <2>3, <2>4
  <1> QED
    BY <1>1, Invariance, PTL
=============================================================================
