-------------------------- MODULE MuxHandoffProofs --------------------------
(***************************************************************************)
(* Proofs about MuxHandoff, and at the end about MuxConnection, the side   *)
(* of the client: a daemon that is replaced ends its channels.             *)
(*                                                                         *)
(* MuxHandoff: whatever the panes, the number of upgrades and the output,  *)
(* two daemons never read one PTY and the marker never names a daemon      *)
(* younger than the one that serves - as long as no replacement is itself  *)
(* upgraded before its parent has settled (~Nested).                       *)
(***************************************************************************)
EXTENDS MuxHandoff, MuxConnection, TLAPS

USE BoundsAssumption, NoneAssumption
    DEF Daemons, Alive, Passing, Running, procs, prepares, streams, shells

\* The parts of the invariant that speak of processes and attempts only.
Attempts ==
    /\ OlderPasses
    /\ AwaitsYoungest
    /\ PreparesSettled
    /\ UpgradesWhileServing
    /\ MarkerAccounted

LEMMA InitStep == Init => IInv
  <1> SUFFICES ASSUME Init PROVE IInv
    OBVIOUS
  <1>1. TypeOK
    BY DEF Init, TypeOK, Procs, Phases, Readers, Causes
  <1>2. Attempts
    BY DEF Init, Attempts, OlderPasses, AwaitsYoungest, PreparesSettled, Settled, Awaits,
           UpgradesWhileServing, MarkerAccounted
  <1>3. ReadersPaused
    BY DEF Init, ReadersPaused
  <1> QED
    BY <1>1, <1>2, <1>3 DEF IInv, Attempts

\* A step of a pane, a reader or a watcher leaves the attempts alone.
LEMMA AttemptsFrame ==
    ASSUME IInv, UNCHANGED <<proc, phase, child, tries, marker, restore, prepared>>
    PROVE  Attempts'
  BY DEF IInv, Attempts, OlderPasses, AwaitsYoungest, PreparesSettled, Settled, Awaits,
         UpgradesWhileServing, MarkerAccounted

LEMMA CreateStep ==
    ASSUME IInv, NEW d \in Daemons, NEW p \in Panes, Create(d, p)
    PROVE  IInv'
  <1>1. TypeOK'
    BY DEF IInv, TypeOK, Create, Mutable, UpgradesWhileServing, Readers
  <1>2. Attempts'
    BY AttemptsFrame DEF Create
  <1>3. ReadersPaused'
    <2>1. phase[d] = "idle"
      BY DEF IInv, UpgradesWhileServing, Create, Mutable
    <2>2. att' = [att EXCEPT ![d][p] = "reading"] /\ sess' = [sess EXCEPT ![d] = @ \union {p}]
          /\ UNCHANGED <<proc, phase, todo>> /\ proc[d] = "serving"
      BY DEF Create, Mutable
    <2>3. att \in [Daemons -> [Panes -> Readers]] /\ sess \in [Daemons -> SUBSET Panes]
      BY DEF IInv, TypeOK
    <2>4. \A e \in Daemons, q \in Panes :
             att'[e][q] = IF e = d /\ q = p THEN "reading" ELSE att[e][q]
      BY <2>2, <2>3
    <2>5. \A e \in Daemons, q \in Panes : q \in sess'[e] <=> q \in sess[e] \/ (e = d /\ q = p)
      BY <2>2, <2>3
    <2> QED
      BY <2>1, <2>2, <2>4, <2>5 DEF IInv, ReadersPaused
  <1> QED
    BY <1>1, <1>2, <1>3 DEF IInv, Attempts

LEMMA DestroyStep ==
    ASSUME IInv, NEW d \in Daemons, NEW p \in Panes, Destroy(d, p)
    PROVE  IInv'
  <1>1. TypeOK'
    BY DEF IInv, TypeOK, Destroy, Mutable, Readers
  <1>2. Attempts'
    BY AttemptsFrame DEF Destroy
  <1>3. ReadersPaused'
    <2>1. \A e \in Daemons, q \in Panes :
             att'[e][q] = IF e = d /\ q = p THEN "none" ELSE att[e][q]
      <3>1. att \in [Daemons -> [Panes -> Readers]]
        BY DEF IInv, TypeOK
      <3>2. att' = [att EXCEPT ![d][p] = "none"]
        BY DEF Destroy
      <3> QED
        BY <3>1, <3>2
    <2>2. sess \in [Daemons -> SUBSET Panes]
      BY DEF IInv, TypeOK
    <2>3. \A e \in Daemons, q \in Panes : q \in sess'[e] <=> q \in sess[e] /\ ~(e = d /\ q = p)
      BY <2>2 DEF Destroy
    <2>4. UNCHANGED <<proc, phase, todo>>
      BY DEF Destroy
    <2> QED
      BY <2>1, <2>3, <2>4 DEF IInv, ReadersPaused
  <1> QED
    BY <1>1, <1>2, <1>3 DEF IInv, Attempts

LEMMA ShellExitsStep ==
    ASSUME IInv, NEW p \in Panes, ShellExits(p)
    PROVE  IInv'
  <1>1. TypeOK'
    BY DEF IInv, TypeOK, ShellExits, Readers
  <1>2. Attempts'
    BY AttemptsFrame DEF ShellExits
  <1>3. ReadersPaused'
    BY DEF IInv, TypeOK, ReadersPaused, ShellExits
  <1> QED
    BY <1>1, <1>2, <1>3 DEF IInv, Attempts

LEMMA EmitStep ==
    ASSUME IInv, NEW p \in Panes, Emit(p)
    PROVE  IInv'
  <1>1. TypeOK'
    <2>1. made' \in [Panes -> Int]
      BY DEF IInv, TypeOK, Emit
    <2> QED
      BY <2>1 DEF IInv, TypeOK, Emit
  <1>2. Attempts'
    BY AttemptsFrame DEF Emit
  <1>3. ReadersPaused'
    BY DEF IInv, TypeOK, ReadersPaused, Emit
  <1> QED
    BY <1>1, <1>2, <1>3 DEF IInv, Attempts

LEMMA PumpStep ==
    ASSUME IInv, NEW d \in Daemons, NEW p \in Panes, Pump(d, p)
    PROVE  IInv'
  <1>1. TypeOK'
    <2>1. taken[p] + 1 \in Int /\ taken' \in [Panes -> Int]
      <3>1. taken \in [Panes -> Int] /\ taken' = [taken EXCEPT ![p] = @ + 1]
        BY DEF IInv, TypeOK, Pump
      <3> QED
        BY <3>1
    <2>2. has[d][p] \union {taken[p] + 1} \in SUBSET Int
      BY <2>1 DEF IInv, TypeOK
    <2>3. has' \in [Daemons -> [Panes -> SUBSET Int]]
      BY <2>2 DEF IInv, TypeOK, Pump
    <2>4. open' \in [Daemons -> SUBSET Panes]
      <3>1. PICK s \in {open[d] \union {p}, open[d] \ {p}} : open' = [open EXCEPT ![d] = s]
        BY DEF Pump
      <3>2. s \in SUBSET Panes
        BY DEF IInv, TypeOK
      <3> QED
        BY <3>1, <3>2 DEF IInv, TypeOK
    <2> QED
      BY <2>1, <2>3, <2>4 DEF IInv, TypeOK, Pump
  <1>2. Attempts'
    BY AttemptsFrame DEF Pump
  <1>3. ReadersPaused'
    BY DEF IInv, TypeOK, ReadersPaused, Pump
  <1> QED
    BY <1>1, <1>2, <1>3 DEF IInv, Attempts

LEMMA PumpEndsStep ==
    ASSUME IInv, NEW d \in Daemons, NEW p \in Panes, PumpEnds(d, p)
    PROVE  IInv'
  <1>1. TypeOK'
    BY DEF IInv, TypeOK, PumpEnds, Readers
  <1>2. Attempts'
    BY AttemptsFrame DEF PumpEnds
  <1>3. ReadersPaused'
    <2>1. \A e \in Daemons, q \in Panes :
             att'[e][q] = IF e = d /\ q = p THEN "done" ELSE att[e][q]
      <3>1. att \in [Daemons -> [Panes -> Readers]]
        BY DEF IInv, TypeOK
      <3>2. att' = [att EXCEPT ![d][p] = "done"]
        BY DEF PumpEnds
      <3> QED
        BY <3>1, <3>2
    <2>2. UNCHANGED <<proc, phase, todo, sess>>
      BY DEF PumpEnds
    <2> QED
      BY <2>1, <2>2 DEF IInv, ReadersPaused, PumpEnds
  <1> QED
    BY <1>1, <1>2, <1>3 DEF IInv, Attempts

LEMMA PauseIfGroundedStep ==
    ASSUME IInv, NEW d \in Daemons, NEW p \in Panes, pauseIfGrounded(d, p)
    PROVE  IInv'
  <1>1. TypeOK'
    BY DEF IInv, TypeOK, pauseIfGrounded, Readers
  <1>2. Attempts'
    BY AttemptsFrame DEF pauseIfGrounded
  <1>3. ReadersPaused'
    <2>1. \A e \in Daemons, q \in Panes :
             att'[e][q] = IF e = d /\ q = p THEN "paused" ELSE att[e][q]
      <3>1. att \in [Daemons -> [Panes -> Readers]]
        BY DEF IInv, TypeOK
      <3>2. att' = [att EXCEPT ![d][p] = "paused"]
        BY DEF pauseIfGrounded
      <3> QED
        BY <3>1, <3>2
    <2>2. todo \in [Daemons -> SUBSET Panes]
      BY DEF IInv, TypeOK
    <2>3. \A e \in Daemons, q \in Panes : q \in todo'[e] <=> q \in todo[e] /\ ~(e = d /\ q = p)
      BY <2>2 DEF pauseIfGrounded
    <2>4. UNCHANGED <<proc, phase, sess>>
      BY DEF pauseIfGrounded
    <2> QED
      BY <2>1, <2>3, <2>4 DEF IInv, ReadersPaused, pauseIfGrounded
  <1> QED
    BY <1>1, <1>2, <1>3 DEF IInv, Attempts

LEMMA WakeStep ==
    ASSUME IInv, NEW d \in Daemons, NEW p \in Panes, Wake(d, p)
    PROVE  IInv'
  <1>1. TypeOK'
    BY DEF IInv, TypeOK, Wake, Readers
  <1>2. Attempts'
    BY AttemptsFrame DEF Wake
  <1>3. ReadersPaused'
    <2>1. \A e \in Daemons, q \in Panes :
             att'[e][q] = IF e = d /\ q = p THEN "reading" ELSE att[e][q]
      <3>1. att \in [Daemons -> [Panes -> Readers]]
        BY DEF IInv, TypeOK
      <3>2. att' = [att EXCEPT ![d][p] = "reading"]
        BY DEF Wake
      <3> QED
        BY <3>1, <3>2
    <2>2. UNCHANGED <<proc, phase, todo, sess>>
      BY DEF Wake
    <2> QED
      BY <2>1, <2>2 DEF IInv, ReadersPaused, Wake
  <1> QED
    BY <1>1, <1>2, <1>3 DEF IInv, Attempts

LEMMA WatchPaneExitStep ==
    ASSUME IInv, NEW d \in Daemons, NEW p \in Panes, watchPaneExit(d, p)
    PROVE  IInv'
  <1>1. TypeOK'
    BY DEF IInv, TypeOK, watchPaneExit, Readers
  <1>2. Attempts'
    BY AttemptsFrame DEF watchPaneExit
  <1>3. ReadersPaused'
    BY DEF IInv, TypeOK, ReadersPaused, watchPaneExit
  <1> QED
    BY <1>1, <1>2, <1>3 DEF IInv, Attempts

LEMMA WatchStopsReaderStep ==
    ASSUME IInv, NEW d \in Daemons, NEW p \in Panes, WatchStopsReader(d, p)
    PROVE  IInv'
  <1>1. TypeOK'
    BY DEF IInv, TypeOK, WatchStopsReader, Readers
  <1>2. Attempts'
    BY AttemptsFrame DEF WatchStopsReader
  <1>3. ReadersPaused'
    <2>1. \A e \in Daemons, q \in Panes :
             att'[e][q] = IF e = d /\ q = p THEN "done" ELSE att[e][q]
      <3>1. att \in [Daemons -> [Panes -> Readers]]
        BY DEF IInv, TypeOK
      <3>2. att' = [att EXCEPT ![d][p] = "done"]
        BY DEF WatchStopsReader
      <3> QED
        BY <3>1, <3>2
    <2>2. UNCHANGED <<proc, phase, todo, sess>>
      BY DEF WatchStopsReader
    <2> QED
      BY <2>1, <2>2 DEF IInv, ReadersPaused, WatchStopsReader
  <1> QED
    BY <1>1, <1>2, <1>3 DEF IInv, Attempts

LEMMA WatchFinishesStep ==
    ASSUME IInv, NEW d \in Daemons, NEW p \in Panes, WatchFinishes(d, p)
    PROVE  IInv'
  <1>1. TypeOK'
    BY DEF IInv, TypeOK, WatchFinishes, Readers
  <1>2. Attempts'
    BY AttemptsFrame DEF WatchFinishes
  <1>3. ReadersPaused'
    <2>1. \A e \in Daemons, q \in Panes :
             att'[e][q] = IF e = d /\ q = p THEN "none" ELSE att[e][q]
      <3>1. att \in [Daemons -> [Panes -> Readers]]
        BY DEF IInv, TypeOK
      <3>2. att' = [att EXCEPT ![d][p] = "none"]
        BY DEF WatchFinishes
      <3> QED
        BY <3>1, <3>2
    <2>2. UNCHANGED <<proc, phase, todo, sess>>
      BY DEF WatchFinishes
    <2> QED
      BY <2>1, <2>2 DEF IInv, ReadersPaused, WatchFinishes
  <1> QED
    BY <1>1, <1>2, <1>3 DEF IInv, Attempts

LEMMA PrepareAsksStep ==
    ASSUME IInv, NEW d \in Daemons, NEW p \in Panes, PrepareAsks(d, p)
    PROVE  IInv'
  <1>1. TypeOK'
    BY DEF IInv, TypeOK, PrepareAsks, Readers
  <1>2. Attempts'
    BY AttemptsFrame DEF PrepareAsks
  <1>3. ReadersPaused'
    <2>1. phase[d] = "preparing" /\ p \in todo[d] /\ att[d][p] \in {"reading", "done"}
      BY DEF PrepareAsks
    <2>2. proc[d] = "serving"
      BY <2>1 DEF IInv, UpgradesWhileServing
    <2>3. UNCHANGED <<proc, phase, todo, sess>>
      BY DEF PrepareAsks
    <2>4. /\ att'[d][p] = IF att[d][p] = "reading" THEN "asked" ELSE att[d][p]
          /\ \A e \in Daemons, q \in Panes : <<e, q>> # <<d, p>> => att'[e][q] = att[e][q]
      BY DEF IInv, TypeOK, PrepareAsks
    <2> SUFFICES ASSUME NEW e \in Daemons, NEW q \in Panes
                 PROVE  ReadersPaused!(e, q)'
      BY DEF ReadersPaused
    <2>5. CASE e = d /\ q = p
      BY <2>1, <2>2, <2>3, <2>4, <2>5 DEF IInv, ReadersPaused
    <2>6. CASE ~(e = d /\ q = p)
      BY <2>3, <2>4, <2>6 DEF IInv, ReadersPaused
    <2> QED
      BY <2>5, <2>6
  <1> QED
    BY <1>1, <1>2, <1>3 DEF IInv, Attempts

LEMMA PrepareHandoffStep ==
    ASSUME IInv, ~Nested, NEW d \in Daemons, PrepareHandoff(d)
    PROVE  IInv'
  <1>1. TypeOK'
    BY DEF IInv, TypeOK, PrepareHandoff, Procs, Phases, Readers, Causes, OnlyHeldBy
  <1>2. OlderPasses'
    <2> SUFFICES ASSUME NEW e \in Daemons, NEW f \in Daemons, Alive(e)', Alive(f)', e < f
                 PROVE  phase'[e] \in Passing
      BY DEF OlderPasses
    <2>1. Alive(e) /\ Alive(f)
      BY DEF IInv, TypeOK, PrepareHandoff
    <2>2. phase[e] \in Passing
      BY <2>1 DEF IInv, OlderPasses
    <2> QED
      BY <2>2 DEF IInv, TypeOK, PrepareHandoff
  <1>3. AwaitsYoungest'
    BY DEF IInv, TypeOK, AwaitsYoungest, OlderPasses, PreparesSettled, Settled, Awaits, UpgradesWhileServing, PrepareHandoff
  <1>4. PreparesSettled'
    <2> SUFFICES ASSUME NEW e \in Daemons, NEW f \in Daemons, phase'[e] = "preparing",
                        phase'[f] \in {"sent", "reaping"}, child'[f] = e
                 PROVE  FALSE
      BY DEF PreparesSettled, Settled, Awaits
    <2>1. phase[f] \in {"sent", "reaping"} /\ child[f] = e
      BY DEF IInv, TypeOK, PrepareHandoff
    <2>2. CASE e = d
      BY <2>1, <2>2 DEF PrepareHandoff, Settled, Awaits
    <2>3. CASE e # d
      <3>1. phase[e] = "preparing"
        BY <2>3 DEF IInv, TypeOK, PrepareHandoff
      <3> QED
        BY <2>1, <3>1 DEF IInv, PreparesSettled, Settled, Awaits
    <2> QED
      BY <2>2, <2>3
  <1>5. ReadersPaused'
    <2>1. phase \in [Daemons -> Phases] /\ todo \in [Daemons -> SUBSET Panes]
      BY DEF IInv, TypeOK
    <2>2. \A e \in Daemons : /\ phase'[e] = IF e = d THEN "preparing" ELSE phase[e]
                             /\ todo'[e] = IF e = d THEN sess[d] ELSE todo[e]
      BY <2>1 DEF PrepareHandoff
    <2>3. UNCHANGED <<proc, sess, att>>
      BY DEF PrepareHandoff
    <2> QED
      BY <2>2, <2>3 DEF IInv, ReadersPaused
  <1>6. UpgradesWhileServing'
    BY DEF IInv, TypeOK, UpgradesWhileServing, PrepareHandoff
  <1>7. MarkerAccounted'
    BY DEF IInv, TypeOK, MarkerAccounted, OlderPasses, UpgradesWhileServing, PrepareHandoff
  <1> QED
    BY <1>1, <1>2, <1>3, <1>4, <1>5, <1>6, <1>7 DEF IInv

LEMMA PrepareFailsStep ==
    ASSUME IInv, NEW d \in Daemons, PrepareFails(d)
    PROVE  IInv'
  <1>1. TypeOK'
    BY DEF IInv, TypeOK, PrepareFails, Resumed, Procs, Phases, Readers, Causes, OnlyHeldBy
  <1>2. OlderPasses'
    BY DEF IInv, TypeOK, OlderPasses, UpgradesWhileServing, AwaitsYoungest, PrepareFails, Resumed
  <1>3. AwaitsYoungest'
    BY DEF IInv, TypeOK, AwaitsYoungest, OlderPasses, PreparesSettled, Settled, Awaits, UpgradesWhileServing, PrepareFails, Resumed
  <1>4. PreparesSettled'
    BY DEF IInv, TypeOK, PreparesSettled, Settled, Awaits, OlderPasses, UpgradesWhileServing, PrepareFails, Resumed
  <1>5. ReadersPaused'
    BY DEF IInv, TypeOK, ReadersPaused, UpgradesWhileServing, PrepareFails, Resumed
  <1>6. UpgradesWhileServing'
    BY DEF IInv, TypeOK, UpgradesWhileServing, PrepareFails, Resumed
  <1>7. MarkerAccounted'
    BY DEF IInv, TypeOK, MarkerAccounted, OlderPasses, UpgradesWhileServing, PrepareFails, Resumed
  <1> QED
    BY <1>1, <1>2, <1>3, <1>4, <1>5, <1>6, <1>7 DEF IInv

LEMMA ReleaseStep ==
    ASSUME IInv, NEW d \in Daemons, Release(d)
    PROVE  IInv'
  <1>1. TypeOK'
    BY DEF IInv, TypeOK, Release, Due, Procs, Phases, Readers, Causes, OnlyHeldBy
  <1>2. OlderPasses'
    <2> SUFFICES ASSUME NEW e \in Daemons, NEW f \in Daemons, Alive(e)', Alive(f)', e < f
                 PROVE  phase'[e] \in Passing
      BY DEF OlderPasses
    <2>1. Alive(e) /\ Alive(f)
      BY DEF IInv, TypeOK, Release
    <2>2. phase[e] \in Passing
      BY <2>1 DEF IInv, OlderPasses
    <2> QED
      BY <2>2 DEF IInv, TypeOK, Release
  <1>3. AwaitsYoungest'
    BY DEF IInv, TypeOK, AwaitsYoungest, OlderPasses, PreparesSettled, Settled, Awaits, UpgradesWhileServing, Release, Due
  <1>4. PreparesSettled'
    BY DEF IInv, TypeOK, PreparesSettled, Settled, Awaits, OlderPasses, UpgradesWhileServing, Release, Due
  <1>5. ReadersPaused'
    <2>1. phase \in [Daemons -> Phases]
      BY DEF IInv, TypeOK
    <2>2. \A e \in Daemons : phase'[e] = IF e = d THEN "idle" ELSE phase[e]
      BY <2>1 DEF Release
    <2>3. UNCHANGED <<proc, todo, sess, att>>
      BY DEF Release
    <2> QED
      BY <2>2, <2>3 DEF IInv, ReadersPaused
  <1>6. UpgradesWhileServing'
    BY DEF IInv, TypeOK, UpgradesWhileServing, Release, Due
  <1>7. MarkerAccounted'
    BY DEF IInv, TypeOK, MarkerAccounted, OlderPasses, UpgradesWhileServing, Release, Due
  <1> QED
    BY <1>1, <1>2, <1>3, <1>4, <1>5, <1>6, <1>7 DEF IInv

LEMMA RestoreMarkerStep ==
    ASSUME IInv, NEW d \in Daemons, RestoreMarker(d)
    PROVE  IInv'
  <1>1. TypeOK'
    BY DEF IInv, TypeOK, RestoreMarker, Procs, Phases, Readers, Causes, OnlyHeldBy
  <1>2. OlderPasses'
    BY DEF IInv, TypeOK, OlderPasses, UpgradesWhileServing, AwaitsYoungest, RestoreMarker
  <1>3. AwaitsYoungest'
    BY DEF IInv, TypeOK, AwaitsYoungest, OlderPasses, PreparesSettled, Settled, Awaits, UpgradesWhileServing, RestoreMarker
  <1>4. PreparesSettled'
    BY DEF IInv, TypeOK, PreparesSettled, Settled, Awaits, OlderPasses, UpgradesWhileServing, RestoreMarker
  <1>5. ReadersPaused'
    BY DEF IInv, TypeOK, ReadersPaused, UpgradesWhileServing, RestoreMarker
  <1>6. UpgradesWhileServing'
    BY DEF IInv, TypeOK, UpgradesWhileServing, RestoreMarker
  <1>7. MarkerAccounted'
    <2>1. Alive(d) /\ d <= tries
      BY DEF IInv, TypeOK, UpgradesWhileServing, RestoreMarker
    <2>2. marker' = d /\ UNCHANGED <<phase, tries>>
      BY DEF RestoreMarker
    <2> SUFFICES ASSUME NEW e \in Daemons, Alive(e)', d > e
                 PROVE  phase[e] \in Passing
      BY <2>1, <2>2 DEF MarkerAccounted
    <2>3. Alive(e)
      BY DEF IInv, TypeOK, RestoreMarker
    <2> QED
      BY <2>1, <2>3 DEF IInv, OlderPasses
  <1> QED
    BY <1>1, <1>2, <1>3, <1>4, <1>5, <1>6, <1>7 DEF IInv

LEMMA PanicStep ==
    ASSUME IInv, NEW d \in Daemons, Panic(d)
    PROVE  IInv'
  <1>1. TypeOK'
    BY DEF IInv, TypeOK, Panic, Ends, AllClosed, Procs, Phases, Readers, Causes, OnlyHeldBy
  <1>2. OlderPasses'
    BY DEF IInv, TypeOK, OlderPasses, UpgradesWhileServing, AwaitsYoungest, Panic, Ends, AllClosed
  <1>3. AwaitsYoungest'
    BY DEF IInv, TypeOK, AwaitsYoungest, OlderPasses, PreparesSettled, Settled, Awaits, UpgradesWhileServing, Panic, Ends, AllClosed
  <1>4. PreparesSettled'
    BY DEF IInv, TypeOK, PreparesSettled, Settled, Awaits, OlderPasses, UpgradesWhileServing, Panic, Ends, AllClosed
  <1>5. ReadersPaused'
    BY SMTT(30) DEF IInv, TypeOK, ReadersPaused, UpgradesWhileServing, Panic, Ends, AllClosed
  <1>6. UpgradesWhileServing'
    BY DEF IInv, TypeOK, UpgradesWhileServing, Panic, Ends, AllClosed
  <1>7. MarkerAccounted'
    BY DEF IInv, TypeOK, MarkerAccounted, OlderPasses, UpgradesWhileServing, Panic, Ends, AllClosed
  <1> QED
    BY <1>1, <1>2, <1>3, <1>4, <1>5, <1>6, <1>7 DEF IInv

LEMMA SendHandoffStep ==
    ASSUME IInv, NEW d \in Daemons, SendHandoff(d)
    PROVE  IInv'
  <1> DEFINE c == tries + 1
  <1>1. /\ c \in Daemons /\ proc[c] = "none" /\ phase[c] = "idle"
        /\ proc[d] = "serving" /\ phase[d] = "preparing" /\ d < c /\ prepared[d]
    <2>1. c \in Daemons
      BY DEF IInv, TypeOK, SendHandoff
    <2>2. proc[c] = "none"
      BY <2>1 DEF IInv, TypeOK, UpgradesWhileServing
    <2>3. phase[c] = "idle"
      BY <2>1, <2>2 DEF IInv, UpgradesWhileServing
    <2>4. proc[d] = "serving" /\ phase[d] = "preparing" /\ prepared[d]
      BY DEF IInv, UpgradesWhileServing, SendHandoff
    <2>5. d <= tries
      BY <2>4 DEF IInv, TypeOK, UpgradesWhileServing
    <2> QED
      BY <2>1, <2>2, <2>3, <2>4, <2>5 DEF IInv, TypeOK
  <1>2. /\ proc' = [proc EXCEPT ![c] = "started"]
        /\ phase' = [phase EXCEPT ![d] = "sent"]
        /\ child' = [child EXCEPT ![d] = c]
        /\ offer' = [offer EXCEPT ![c] = sess[d]]
        /\ has' = [has EXCEPT ![c] = has[d]]
        /\ tries' = c
        /\ UNCHANGED <<reply, marker, restore, prepares, sess, mu, att, open, made, taken,
                       shells>>
    BY DEF SendHandoff
  <1> HIDE DEF c
  \* No younger daemon is alive, and nobody awaits d: d was preparing.
  <1>3. \A e \in Daemons : Alive(e) => e <= d /\ (e # d => phase[e] \in Passing)
    BY <1>1 DEF IInv, OlderPasses
  <1>4. \A f \in Daemons : phase[f] \in {"sent", "reaping"} => FALSE
    <2> SUFFICES ASSUME NEW f \in Daemons, phase[f] \in {"sent", "reaping"} PROVE FALSE
      OBVIOUS
    <2>1. Alive(f) /\ f # d
      BY <1>1 DEF IInv, UpgradesWhileServing
    <2>2. f < d
      BY <1>3, <2>1
    <2>3. child[f] = d
      BY <1>1, <2>2 DEF IInv, AwaitsYoungest
    <2> QED
      BY <1>1, <2>3 DEF IInv, PreparesSettled, Settled, Awaits
  <1>5. TypeOK'
    BY <1>1, <1>2 DEF IInv, TypeOK, Procs, Phases
  <1>6. OlderPasses'
    <2> SUFFICES ASSUME NEW e \in Daemons, NEW f \in Daemons, Alive(e)', Alive(f)', e < f
                 PROVE  phase'[e] \in Passing
      BY DEF OlderPasses
    <2>1. e # c
      <3>1. f = c \/ Alive(f)
        BY <1>2 DEF IInv, TypeOK
      <3> QED
        BY <1>1, <1>3, <3>1
    <2>2. Alive(e)
      BY <1>2, <2>1 DEF IInv, TypeOK
    <2> QED
      BY <1>1, <1>2, <1>3, <2>2 DEF IInv, TypeOK
  <1>7. AwaitsYoungest'
    <2>1. \A f \in Daemons : phase'[f] \in {"sent", "reaping"} => f = d
      BY <1>2, <1>4 DEF IInv, TypeOK
    <2>2. child'[d] = c /\ c > d /\ c <= tries'
      BY <1>1, <1>2 DEF IInv, TypeOK
    <2>3. \A e \in Daemons : Alive(e)' /\ e > d => e = c
      BY <1>1, <1>2, <1>3 DEF IInv, TypeOK
    <2> QED
      BY <2>1, <2>2, <2>3 DEF AwaitsYoungest
  <1>8. PreparesSettled'
    <2> SUFFICES ASSUME NEW e \in Daemons, NEW f \in Daemons, phase'[e] = "preparing",
                        phase'[f] \in {"sent", "reaping"}, child'[f] = e
                 PROVE  FALSE
      BY DEF PreparesSettled, Settled, Awaits
    <2>1. f = d
      BY <1>2, <1>4 DEF IInv, TypeOK
    <2>2. e = c
      BY <1>2, <2>1 DEF IInv, TypeOK
    <2> QED
      BY <1>1, <1>2, <2>2 DEF IInv, TypeOK
  <1>9. ReadersPaused'
    <2> SUFFICES ASSUME NEW e \in Daemons, NEW p \in Panes
                 PROVE  /\ phase'[e] \in Passing => att[e][p] \notin Running
                        /\ phase'[e] = "preparing" /\ p \notin todo[e]
                               => att[e][p] \notin Running
                        /\ att[e][p] \in Running => proc'[e] = "serving"
                        /\ att[e][p] # "none" => p \in sess[e]
                        /\ att[e][p] = "unstarted" => proc'[e] # "serving"
      BY <1>2 DEF ReadersPaused
    <2>1. CASE e = d
      <3>1. att[e][p] \notin Running
        BY <1>1, <2>1 DEF IInv, ReadersPaused, SendHandoff, AllPaused
      <3>2. proc'[e] = proc[e]
        BY <1>1, <1>2, <2>1 DEF IInv, TypeOK
      <3> QED
        BY <3>1, <3>2, <2>1 DEF IInv, ReadersPaused
    <2>2. CASE e = c
      <3>1. proc'[e] = "started" /\ phase'[e] = "idle"
        BY <1>1, <1>2, <2>2 DEF IInv, TypeOK
      <3> QED
        BY <1>1, <2>2, <3>1 DEF IInv, ReadersPaused
    <2>3. CASE e # d /\ e # c
      <3>1. proc'[e] = proc[e] /\ phase'[e] = phase[e]
        BY <1>2, <2>3 DEF IInv, TypeOK
      <3> QED
        BY <3>1 DEF IInv, ReadersPaused
    <2> QED
      BY <2>1, <2>2, <2>3
  <1>10. UpgradesWhileServing'
    <2> SUFFICES ASSUME NEW e \in Daemons
                 PROVE  /\ phase'[e] # "idle" => proc'[e] = "serving" /\ prepared[e]
                        /\ e \in restore => proc'[e] = "serving"
                        /\ e > c => proc'[e] = "none"
      BY <1>2 DEF UpgradesWhileServing
    <2>1. CASE e = c
      BY <1>1, <1>2, <2>1 DEF IInv, TypeOK, UpgradesWhileServing
    <2>2. CASE e # c
      <3>1. proc'[e] = proc[e] /\ (phase'[e] # "idle" => phase[e] # "idle")
        BY <1>1, <1>2, <2>2 DEF IInv, TypeOK
      <3>2. e > c => e > tries
        BY DEF IInv, TypeOK, c
      <3> QED
        BY <3>1, <3>2 DEF IInv, UpgradesWhileServing
    <2> QED
      BY <2>1, <2>2
  <1>11. MarkerAccounted'
    <2>1. marker' <= tries'
      BY <1>1, <1>2 DEF IInv, TypeOK, MarkerAccounted, c
    <2>2. \A e \in Daemons : Alive(e)' /\ marker' > e =>
              e \in restore' \/ phase'[e] \in Passing \union {"releasing"}
      <3> SUFFICES ASSUME NEW e \in Daemons, Alive(e)', marker > e
                   PROVE  e \in restore \/ phase'[e] \in Passing \union {"releasing"}
        BY <1>2
      <3>1. e # c
        BY DEF IInv, TypeOK, MarkerAccounted, c
      <3>2. Alive(e)
        BY <1>2, <3>1 DEF IInv, TypeOK
      <3> QED
        BY <1>2, <3>2 DEF IInv, TypeOK, MarkerAccounted
    <2> QED
      BY <2>1, <2>2 DEF MarkerAccounted
  <1> QED
    BY <1>5, <1>6, <1>7, <1>8, <1>9, <1>10, <1>11 DEF IInv

LEMMA CommitStep ==
    ASSUME IInv, NEW d \in Daemons, Commit(d)
    PROVE  IInv'
  <1>1. TypeOK'
    BY DEF IInv, TypeOK, Commit, Procs, Phases, Readers, Causes, OnlyHeldBy
  <1>2. OlderPasses'
    BY DEF IInv, TypeOK, OlderPasses, UpgradesWhileServing, AwaitsYoungest, Commit
  <1>3. AwaitsYoungest'
    BY SMTT(30) DEF IInv, TypeOK, AwaitsYoungest, OlderPasses, PreparesSettled, Settled, Awaits, UpgradesWhileServing, Commit
  <1>4. PreparesSettled'
    BY DEF IInv, TypeOK, PreparesSettled, Settled, Awaits, OlderPasses, UpgradesWhileServing, Commit
  <1>5. ReadersPaused'
    <2>1. phase \in [Daemons -> Phases]
      BY DEF IInv, TypeOK
    <2>2. \A e \in Daemons : phase'[e] = IF e = d THEN "committed" ELSE phase[e]
      BY <2>1 DEF Commit
    <2>3. UNCHANGED <<proc, todo, sess, att>> /\ phase[d] = "sent"
      BY DEF Commit
    <2> QED
      BY <2>2, <2>3 DEF IInv, ReadersPaused
  <1>6. UpgradesWhileServing'
    BY DEF IInv, TypeOK, UpgradesWhileServing, Commit
  <1>7. MarkerAccounted'
    BY DEF IInv, TypeOK, MarkerAccounted, OlderPasses, UpgradesWhileServing, Commit
  <1> QED
    BY <1>1, <1>2, <1>3, <1>4, <1>5, <1>6, <1>7 DEF IInv

LEMMA GiveUpStep ==
    ASSUME IInv, NEW d \in Daemons, GiveUp(d)
    PROVE  IInv'
  <1>1. TypeOK'
    BY DEF IInv, TypeOK, GiveUp, Procs, Phases, Readers, Causes, OnlyHeldBy
  <1>2. OlderPasses'
    BY DEF IInv, TypeOK, OlderPasses, UpgradesWhileServing, AwaitsYoungest, GiveUp
  <1>3. AwaitsYoungest'
    BY SMTT(30) DEF IInv, TypeOK, AwaitsYoungest, OlderPasses, PreparesSettled, Settled, Awaits, UpgradesWhileServing, GiveUp
  <1>4. PreparesSettled'
    BY DEF IInv, TypeOK, PreparesSettled, Settled, Awaits, OlderPasses, UpgradesWhileServing, GiveUp
  <1>5. ReadersPaused'
    <2>1. phase \in [Daemons -> Phases]
      BY DEF IInv, TypeOK
    <2>2. \A e \in Daemons : phase'[e] = IF e = d THEN "reaping" ELSE phase[e]
      BY <2>1 DEF GiveUp
    <2>3. UNCHANGED <<proc, todo, sess, att>> /\ phase[d] = "sent"
      BY DEF GiveUp
    <2> QED
      BY <2>2, <2>3 DEF IInv, ReadersPaused
  <1>6. UpgradesWhileServing'
    BY DEF IInv, TypeOK, UpgradesWhileServing, GiveUp
  <1>7. MarkerAccounted'
    BY DEF IInv, TypeOK, MarkerAccounted, OlderPasses, UpgradesWhileServing, GiveUp
  <1> QED
    BY <1>1, <1>2, <1>3, <1>4, <1>5, <1>6, <1>7 DEF IInv

LEMMA ReapChildStep ==
    ASSUME IInv, NEW d \in Daemons, ReapChild(d)
    PROVE  IInv'
  <1> DEFINE c == child[d]
  <1>1. /\ c \in Daemons /\ d < c /\ phase[d] = "reaping" /\ proc[d] = "serving"
        /\ \A e \in Daemons : Alive(e) /\ e > d => e = c
    BY DEF IInv, TypeOK, AwaitsYoungest, UpgradesWhileServing, ReapChild
  <1>2. /\ proc'[c] \in {"none", "dead", "reaped"}
        /\ \A e \in Daemons \ {c} : proc'[e] = proc[e]
    BY <1>1 DEF IInv, TypeOK, ReapChild, Ends
  <1>3. /\ phase'[d] = "releasing" /\ phase'[c] = "idle"
        /\ \A e \in Daemons \ {c, d} : phase'[e] = phase[e]
    <2>1. CASE Alive(c)
      <3>1. phase' = [phase EXCEPT ![d] = "releasing", ![c] = "idle"]
        BY <2>1 DEF ReapChild
      <3> QED
        BY <1>1, <3>1 DEF IInv, TypeOK
    <2>2. CASE ~Alive(c)
      <3>1. phase' = [phase EXCEPT ![d] = "releasing"]
        BY <2>2 DEF ReapChild
      <3>2. phase[c] = "idle"
        BY <1>1, <2>2 DEF IInv, UpgradesWhileServing
      <3> QED
        BY <1>1, <3>1, <3>2 DEF IInv, TypeOK
    <2> QED
      BY <2>1, <2>2
  <1>4. /\ \A p \in Panes : att'[c][p] \in {"none", att[c][p]}
        /\ \A p \in Panes : att'[c][p] \notin Running /\ (att'[c][p] # "none" => p \in sess'[c])
        /\ \A p \in Panes : att'[d][p] = Resumed(d)[p]
        /\ \A e \in Daemons \ {c, d} : att'[e] = att[e]
    <2>1. CASE Alive(c)
      <3>1. /\ att' = [att EXCEPT ![c] = AllClosed, ![d] = Resumed(d)]
            /\ sess' = [sess EXCEPT ![c] = {}]
        BY <2>1 DEF ReapChild, Ends
      <3>2. att'[c] = AllClosed /\ att'[d] = Resumed(d)
        BY <1>1, <3>1 DEF IInv, TypeOK
      <3>3. \A e \in Daemons \ {c, d} : att'[e] = att[e]
        BY <3>1 DEF IInv, TypeOK
      <3>4. \A p \in Panes : AllClosed[p] = "none"
        BY DEF AllClosed
      <3> QED
        BY <3>2, <3>3, <3>4
    <2>2. CASE ~Alive(c)
      <3>1. att' = [att EXCEPT ![d] = Resumed(d)] /\ sess' = sess
        BY <2>2 DEF ReapChild
      <3>2. att'[c] = att[c] /\ att'[d] = Resumed(d)
        BY <1>1, <3>1 DEF IInv, TypeOK
      <3>3. \A p \in Panes : att[c][p] \notin Running /\ (att[c][p] # "none" => p \in sess[c])
        BY <1>1, <2>2 DEF IInv, ReadersPaused
      <3>4. \A e \in Daemons \ {c, d} : att'[e] = att[e]
        BY <3>1 DEF IInv, TypeOK
      <3> QED
        BY <3>1, <3>2, <3>3, <3>4
    <2> QED
      BY <2>1, <2>2
  <1>5. /\ \A e \in Daemons \ {c} : sess'[e] = sess[e] /\ todo'[e] = todo[e]
                                     /\ prepared'[e] = prepared[e]
        /\ restore' = restore \ {c}
        /\ UNCHANGED <<child, reply, tries, marker, has, made, taken, born>>
    BY <1>1 DEF IInv, TypeOK, ReapChild, Ends
  <1>6. TypeOK'
    <2>1. Resumed(d) \in [Panes -> Readers]
      BY DEF IInv, TypeOK, Resumed, Readers
    <2>2. AllClosed \in [Panes -> Readers]
      BY DEF AllClosed, Readers
    <2>3. att' \in [Daemons -> [Panes -> Readers]]
      <3>1. \/ att' = [att EXCEPT ![c] = AllClosed, ![d] = Resumed(d)]
            \/ att' = [att EXCEPT ![d] = Resumed(d)]
        BY DEF ReapChild
      <3> QED
        BY <2>1, <2>2, <3>1 DEF IInv, TypeOK
    <2>4. proc' \in [Daemons -> Procs]
      <3>1. proc \in [Daemons -> Procs]
        BY DEF IInv, TypeOK
      <3>2. proc' = proc \/ proc' = [proc EXCEPT ![c] = "reaped"]
        BY <1>1 DEF ReapChild, Ends
      <3> QED
        BY <3>1, <3>2 DEF Procs
    <2>8. phase' \in [Daemons -> Phases]
      <3>1. \/ phase' = [phase EXCEPT ![d] = "releasing", ![c] = "idle"]
            \/ phase' = [phase EXCEPT ![d] = "releasing"]
        BY DEF ReapChild
      <3> QED
        BY <3>1 DEF IInv, TypeOK, Phases
    <2>5. /\ sess' \in [Daemons -> SUBSET Panes] /\ todo' \in [Daemons -> SUBSET Panes]
          /\ open' \in [Daemons -> SUBSET Panes] /\ offer' \in [Daemons -> SUBSET Panes]
          /\ prepared' \in [Daemons -> BOOLEAN]
      <3>1. CASE Alive(c)
        <4>1. /\ sess' = [sess EXCEPT ![c] = {}] /\ todo' = [todo EXCEPT ![c] = {}]
              /\ open' = [open EXCEPT ![c] = {}] /\ offer' = [offer EXCEPT ![c] = {}]
              /\ prepared' = [prepared EXCEPT ![c] = FALSE]
          BY <3>1 DEF ReapChild, Ends
        <4> QED
          BY <4>1 DEF IInv, TypeOK
      <3>2. CASE ~Alive(c)
        BY <3>2 DEF IInv, TypeOK, ReapChild
      <3> QED
        BY <3>1, <3>2
    <2>6. cur' \in [Daemons -> Panes \union {None}] /\ mu' \in [Daemons -> Panes \union {None}]
      BY <1>1 DEF IInv, TypeOK, ReapChild, Ends
    <2>7. exited' \in SUBSET Panes
      BY <1>1 DEF IInv, TypeOK, ReapChild, Ends, OnlyHeldBy
    <2>9. hung' \in [Panes -> Causes]
      <3>1. CASE Alive(c)
        <4>1. hung' = [p \in Panes |-> IF p \in OnlyHeldBy(c) THEN "reap" ELSE hung[p]]
          BY <3>1 DEF ReapChild, Ends
        <4> QED
          BY <4>1 DEF IInv, TypeOK, Causes
      <3>2. CASE ~Alive(c)
        BY <3>2 DEF IInv, TypeOK, ReapChild
      <3> QED
        BY <3>1, <3>2
    <2> QED
      BY <1>5, <2>3, <2>4, <2>5, <2>6, <2>7, <2>8, <2>9 DEF IInv, TypeOK
  <1> HIDE DEF c
  <1>7. OlderPasses'
    <2> SUFFICES ASSUME NEW e \in Daemons, NEW f \in Daemons, Alive(e)', Alive(f)', e < f
                 PROVE  phase'[e] \in Passing
      BY DEF OlderPasses
    <2>1. e # c /\ f # c /\ Alive(e) /\ Alive(f)
      BY <1>2
    <2>2. e # d
      BY <1>1, <2>1
    <2> QED
      BY <1>3, <2>1, <2>2 DEF IInv, OlderPasses
  <1>8. AwaitsYoungest'
    <2> SUFFICES ASSUME NEW e \in Daemons, phase'[e] \in {"sent", "reaping"}
                 PROVE  /\ child[e] > e /\ child[e] <= tries
                        /\ \A f \in Daemons : Alive(f)' /\ f > e => f = child[e]
      BY <1>5 DEF AwaitsYoungest
    <2>1. phase[e] \in {"sent", "reaping"}
      BY <1>3
    <2>2. \A f \in Daemons : Alive(f)' => Alive(f)
      BY <1>2
    <2> QED
      BY <2>1, <2>2 DEF IInv, AwaitsYoungest
  <1>9. PreparesSettled'
    <2> SUFFICES ASSUME NEW e \in Daemons, NEW f \in Daemons, phase'[e] = "preparing",
                        phase'[f] \in {"sent", "reaping"}, child[f] = e
                 PROVE  FALSE
      BY <1>5 DEF PreparesSettled, Settled, Awaits
    <2>1. phase[e] = "preparing" /\ phase[f] \in {"sent", "reaping"}
      BY <1>3
    <2> QED
      BY <2>1 DEF IInv, PreparesSettled, Settled, Awaits
  <1>10. ReadersPaused'
    <2> SUFFICES ASSUME NEW e \in Daemons, NEW p \in Panes
                 PROVE  /\ phase'[e] \in Passing => att'[e][p] \notin Running
                        /\ phase'[e] = "preparing" /\ p \notin todo'[e]
                               => att'[e][p] \notin Running
                        /\ att'[e][p] \in Running => proc'[e] = "serving"
                        /\ att'[e][p] # "none" => p \in sess'[e]
                        /\ att'[e][p] = "unstarted" => proc'[e] # "serving"
      BY DEF ReadersPaused
    <2>1. CASE e = c
      BY <1>2, <1>4, <2>1
    <2>2. CASE e = d
      <3>1. att'[e][p] # "none" => att[e][p] # "none"
        BY <1>4, <2>2 DEF Resumed
      <3>2. att'[e][p] = "unstarted" => att[e][p] = "unstarted"
        BY <1>4, <2>2 DEF Resumed
      <3>3. e # c
        BY <1>1, <2>2
      <3> QED
        BY <1>1, <1>2, <1>3, <1>5, <2>2, <3>1, <3>2, <3>3 DEF IInv, ReadersPaused
    <2>3. CASE e # c /\ e # d
      BY <1>2, <1>3, <1>4, <1>5, <2>3 DEF IInv, ReadersPaused
    <2> QED
      BY <2>1, <2>2, <2>3
  <1>11. UpgradesWhileServing'
    <2> SUFFICES ASSUME NEW e \in Daemons
                 PROVE  /\ phase'[e] # "idle" => proc'[e] = "serving" /\ prepared'[e]
                        /\ e \in restore' => proc'[e] = "serving"
                        /\ e > tries => proc'[e] = "none"
      BY <1>5 DEF UpgradesWhileServing
    <2>1. CASE e = c
      <3>1. c <= tries
        BY <1>1 DEF IInv, AwaitsYoungest, c
      <3>2. c \in Int /\ tries \in Int
        BY <1>1 DEF IInv, TypeOK
      <3>3. phase'[e] = "idle" /\ e \notin restore'
        BY <1>3, <1>5, <2>1
      <3> QED
        BY <2>1, <3>1, <3>2, <3>3
    <2>2. CASE e # c
      <3>1. phase'[e] # "idle" => phase[e] # "idle"
        BY <1>1, <1>3, <2>2
      <3> QED
        BY <1>2, <1>5, <2>2, <3>1 DEF IInv, UpgradesWhileServing
    <2> QED
      BY <2>1, <2>2
  <1>12. MarkerAccounted'
    <2> SUFFICES ASSUME NEW e \in Daemons, Alive(e)', marker > e
                 PROVE  e \in restore' \/ phase'[e] \in Passing \union {"releasing"}
      BY <1>5 DEF IInv, MarkerAccounted
    <2>1. e # c /\ Alive(e)
      BY <1>2
    <2>2. e \in restore \/ phase[e] \in Passing \union {"releasing"}
      BY <2>1 DEF IInv, MarkerAccounted
    <2> QED
      BY <1>3, <1>5, <2>1, <2>2
  <1> QED
    BY <1>6, <1>7, <1>8, <1>9, <1>10, <1>11, <1>12 DEF IInv

LEMMA RetireStep ==
    ASSUME IInv, NEW d \in Daemons, Retire(d)
    PROVE  IInv'
  <1>1. TypeOK'
    BY DEF IInv, TypeOK, Retire, Ends, AllClosed, Procs, Phases, Readers, Causes, OnlyHeldBy
  <1>2. OlderPasses'
    BY DEF IInv, TypeOK, OlderPasses, UpgradesWhileServing, AwaitsYoungest, Retire, Ends, AllClosed
  <1>3. AwaitsYoungest'
    BY DEF IInv, TypeOK, AwaitsYoungest, OlderPasses, PreparesSettled, Settled, Awaits, UpgradesWhileServing, Retire, Ends, AllClosed
  <1>4. PreparesSettled'
    BY DEF IInv, TypeOK, PreparesSettled, Settled, Awaits, OlderPasses, UpgradesWhileServing, Retire, Ends, AllClosed
  <1>5. ReadersPaused'
    <2>1. /\ att \in [Daemons -> [Panes -> Readers]] /\ proc \in [Daemons -> Procs]
          /\ sess \in [Daemons -> SUBSET Panes] /\ todo \in [Daemons -> SUBSET Panes]
          /\ phase \in [Daemons -> Phases]
      BY DEF IInv, TypeOK
    <2>2. /\ att' = [att EXCEPT ![d] = AllClosed] /\ proc' = [proc EXCEPT ![d] = "dead"]
          /\ sess' = [sess EXCEPT ![d] = {}] /\ todo' = [todo EXCEPT ![d] = {}]
          /\ phase' = [phase EXCEPT ![d] = "idle"]
      BY DEF Retire, Ends
    <2>3. \A p \in Panes : att'[d][p] = "none"
      BY <2>1, <2>2 DEF AllClosed
    <2>4. \A e \in Daemons \ {d} : /\ att'[e] = att[e] /\ proc'[e] = proc[e]
                                    /\ sess'[e] = sess[e] /\ todo'[e] = todo[e]
                                    /\ phase'[e] = phase[e]
      BY <2>1, <2>2
    <2> QED
      BY <2>3, <2>4 DEF IInv, ReadersPaused, Running
  <1>6. UpgradesWhileServing'
    BY DEF IInv, TypeOK, UpgradesWhileServing, Retire, Ends, AllClosed
  <1>7. MarkerAccounted'
    BY DEF IInv, TypeOK, MarkerAccounted, OlderPasses, UpgradesWhileServing, Retire, Ends, AllClosed
  <1> QED
    BY <1>1, <1>2, <1>3, <1>4, <1>5, <1>6, <1>7 DEF IInv

LEMMA AdoptHandoffStep ==
    ASSUME IInv, NEW c \in Daemons, AdoptHandoff(c)
    PROVE  IInv'
  <1>1. TypeOK'
    BY DEF IInv, TypeOK, AdoptHandoff, AdoptedReader, Procs, Phases, Readers, Causes, OnlyHeldBy
  <1>2. OlderPasses'
    <2> SUFFICES ASSUME NEW e \in Daemons, NEW f \in Daemons, Alive(e)', Alive(f)', e < f
                 PROVE  phase'[e] \in Passing
      BY DEF OlderPasses
    <2>1. Alive(e) /\ Alive(f)
      BY DEF IInv, TypeOK, AdoptHandoff
    <2>2. phase[e] \in Passing
      BY <2>1 DEF IInv, OlderPasses
    <2> QED
      BY <2>2 DEF IInv, TypeOK, AdoptHandoff
  <1>3. AwaitsYoungest'
    <2>1. \A e \in Daemons : Alive(e)' => Alive(e)
      BY DEF IInv, TypeOK, AdoptHandoff
    <2>2. UNCHANGED <<phase, child, tries>>
      BY DEF AdoptHandoff
    <2> QED
      BY <2>1, <2>2 DEF IInv, AwaitsYoungest
  <1>4. PreparesSettled'
    BY DEF IInv, TypeOK, PreparesSettled, Settled, Awaits, OlderPasses, UpgradesWhileServing, AdoptHandoff, AdoptedReader
  <1>5. ReadersPaused'
    <2>1. /\ att \in [Daemons -> [Panes -> Readers]] /\ proc \in [Daemons -> Procs]
          /\ sess \in [Daemons -> SUBSET Panes] /\ offer \in [Daemons -> SUBSET Panes]
      BY DEF IInv, TypeOK
    <2>2. /\ UNCHANGED <<phase, todo>> /\ proc[c] = "started"
          /\ proc' = [proc EXCEPT ![c] = "marked"]
          /\ sess' = [sess EXCEPT ![c] = offer[c]]
          /\ att' = [att EXCEPT ![c] = [p \in Panes |-> IF p \in offer[c] THEN AdoptedReader
                                                        ELSE "none"]]
      BY DEF AdoptHandoff
    <2>3. proc'[c] = "marked" /\ sess'[c] = offer[c] /\ phase[c] = "idle"
      BY <2>1, <2>2 DEF IInv, UpgradesWhileServing
    <2>4. \A p \in Panes : att'[c][p] = IF p \in offer[c] THEN "unstarted" ELSE "none"
      BY <2>1, <2>2 DEF AdoptedReader
    <2>5. \A e \in Daemons \ {c} :
              att'[e] = att[e] /\ proc'[e] = proc[e] /\ sess'[e] = sess[e]
      BY <2>1, <2>2
    <2> QED
      BY <2>2, <2>3, <2>4, <2>5 DEF IInv, ReadersPaused, Running, Passing
  <1>6. UpgradesWhileServing'
    BY DEF IInv, TypeOK, UpgradesWhileServing, AdoptHandoff, AdoptedReader
  <1>7. MarkerAccounted'
    <2>1. Alive(c) /\ c <= tries
      BY DEF IInv, TypeOK, UpgradesWhileServing, AdoptHandoff
    <2>2. marker' = c /\ UNCHANGED <<phase, tries>>
      BY DEF AdoptHandoff
    <2> SUFFICES ASSUME NEW e \in Daemons, Alive(e)', c > e
                 PROVE  phase[e] \in Passing
      BY <2>1, <2>2 DEF MarkerAccounted
    <2>3. Alive(e)
      BY DEF IInv, TypeOK, AdoptHandoff
    <2> QED
      BY <2>1, <2>3 DEF IInv, OlderPasses
  <1> QED
    BY <1>1, <1>2, <1>3, <1>4, <1>5, <1>6, <1>7 DEF IInv

LEMMA RejectStep ==
    ASSUME IInv, NEW c \in Daemons, Reject(c)
    PROVE  IInv'
  <1>1. TypeOK'
    BY DEF IInv, TypeOK, Reject, AbandonHandoff, Ends, AllClosed, Procs, Phases, Readers, Causes, OnlyHeldBy
  <1>2. OlderPasses'
    BY DEF IInv, TypeOK, OlderPasses, UpgradesWhileServing, AwaitsYoungest, Reject, AbandonHandoff, Ends, AllClosed
  <1>3. AwaitsYoungest'
    BY DEF IInv, TypeOK, AwaitsYoungest, OlderPasses, PreparesSettled, Settled, Awaits, UpgradesWhileServing, Reject, AbandonHandoff, Ends, AllClosed
  <1>4. PreparesSettled'
    BY DEF IInv, TypeOK, PreparesSettled, Settled, Awaits, OlderPasses, UpgradesWhileServing, Reject, AbandonHandoff, Ends, AllClosed
  <1>5. ReadersPaused'
    <2>1. /\ att \in [Daemons -> [Panes -> Readers]] /\ proc \in [Daemons -> Procs]
          /\ sess \in [Daemons -> SUBSET Panes] /\ todo \in [Daemons -> SUBSET Panes]
      BY DEF IInv, TypeOK
    <2>2. /\ att' = [att EXCEPT ![c] = AllClosed] /\ proc' = [proc EXCEPT ![c] = "reaped"]
          /\ sess' = [sess EXCEPT ![c] = {}] /\ todo' = [todo EXCEPT ![c] = {}]
          /\ phase' = phase
      BY DEF Reject, AbandonHandoff, Ends
    <2>3. \A p \in Panes : att'[c][p] = "none"
      BY <2>1, <2>2 DEF AllClosed
    <2>4. \A e \in Daemons \ {c} : /\ att'[e] = att[e] /\ proc'[e] = proc[e]
                                    /\ sess'[e] = sess[e] /\ todo'[e] = todo[e]
      BY <2>1, <2>2
    <2> QED
      BY <2>2, <2>3, <2>4 DEF IInv, ReadersPaused
  <1>6. UpgradesWhileServing'
    <2>1. proc[c] # "serving" /\ c \notin restore
      BY DEF IInv, UpgradesWhileServing, Reject
    <2>2. phase[c] = "idle" /\ c <= tries
      BY <2>1 DEF IInv, TypeOK, UpgradesWhileServing, Reject
    <2> QED
      BY <2>1, <2>2 DEF IInv, TypeOK, UpgradesWhileServing, Reject, AbandonHandoff, Ends
  <1>7. MarkerAccounted'
    BY DEF IInv, TypeOK, MarkerAccounted, OlderPasses, UpgradesWhileServing, Reject, AbandonHandoff, Ends, AllClosed
  <1> QED
    BY <1>1, <1>2, <1>3, <1>4, <1>5, <1>6, <1>7 DEF IInv

LEMMA WriteAckStep ==
    ASSUME IInv, NEW c \in Daemons, WriteAck(c)
    PROVE  IInv'
  <1>1. TypeOK'
    BY DEF IInv, TypeOK, WriteAck, Procs, Phases, Readers, Causes, OnlyHeldBy
  <1>2. OlderPasses'
    <2> SUFFICES ASSUME NEW e \in Daemons, NEW f \in Daemons, Alive(e)', Alive(f)', e < f
                 PROVE  phase'[e] \in Passing
      BY DEF OlderPasses
    <2>1. Alive(e) /\ Alive(f)
      BY DEF IInv, TypeOK, WriteAck
    <2>2. phase[e] \in Passing
      BY <2>1 DEF IInv, OlderPasses
    <2> QED
      BY <2>2 DEF IInv, TypeOK, WriteAck
  <1>3. AwaitsYoungest'
    <2>1. \A e \in Daemons : Alive(e)' => Alive(e)
      BY DEF IInv, TypeOK, WriteAck
    <2>2. UNCHANGED <<phase, child, tries>>
      BY DEF WriteAck
    <2> QED
      BY <2>1, <2>2 DEF IInv, AwaitsYoungest
  <1>4. PreparesSettled'
    BY DEF IInv, TypeOK, PreparesSettled, Settled, Awaits, OlderPasses, UpgradesWhileServing, WriteAck
  <1>5. ReadersPaused'
    <2>1. proc \in [Daemons -> Procs]
      BY DEF IInv, TypeOK
    <2>2. \A e \in Daemons : proc'[e] = IF e = c THEN "acked" ELSE proc[e]
      BY <2>1 DEF WriteAck
    <2>3. UNCHANGED <<phase, todo, sess, att>> /\ proc[c] = "marked"
      BY DEF WriteAck
    <2> QED
      BY <2>2, <2>3 DEF IInv, ReadersPaused
  <1>6. UpgradesWhileServing'
    <2>1. proc \in [Daemons -> Procs]
      BY DEF IInv, TypeOK
    <2>2. \A e \in Daemons : proc'[e] = IF e = c THEN "acked" ELSE proc[e]
      BY <2>1 DEF WriteAck
    <2>3. UNCHANGED <<phase, prepared, restore, tries>> /\ proc[c] = "marked"
      BY DEF WriteAck
    <2> QED
      BY <2>2, <2>3 DEF IInv, UpgradesWhileServing
  <1>7. MarkerAccounted'
    BY DEF IInv, TypeOK, MarkerAccounted, OlderPasses, UpgradesWhileServing, WriteAck
  <1> QED
    BY <1>1, <1>2, <1>3, <1>4, <1>5, <1>6, <1>7 DEF IInv

LEMMA AckFailsStep ==
    ASSUME IInv, NEW c \in Daemons, AckFails(c)
    PROVE  IInv'
  <1>1. TypeOK'
    BY DEF IInv, TypeOK, AckFails, AbandonHandoff, Ends, AllClosed, Procs, Phases, Readers, Causes, OnlyHeldBy
  <1>2. OlderPasses'
    BY DEF IInv, TypeOK, OlderPasses, UpgradesWhileServing, AwaitsYoungest, AckFails, AbandonHandoff, Ends, AllClosed
  <1>3. AwaitsYoungest'
    BY DEF IInv, TypeOK, AwaitsYoungest, OlderPasses, PreparesSettled, Settled, Awaits, UpgradesWhileServing, AckFails, AbandonHandoff, Ends, AllClosed
  <1>4. PreparesSettled'
    BY DEF IInv, TypeOK, PreparesSettled, Settled, Awaits, OlderPasses, UpgradesWhileServing, AckFails, AbandonHandoff, Ends, AllClosed
  <1>5. ReadersPaused'
    <2>1. /\ att \in [Daemons -> [Panes -> Readers]] /\ proc \in [Daemons -> Procs]
          /\ sess \in [Daemons -> SUBSET Panes] /\ todo \in [Daemons -> SUBSET Panes]
      BY DEF IInv, TypeOK
    <2>2. /\ att' = [att EXCEPT ![c] = AllClosed] /\ proc' = [proc EXCEPT ![c] = "reaped"]
          /\ sess' = [sess EXCEPT ![c] = {}] /\ todo' = [todo EXCEPT ![c] = {}]
          /\ phase' = phase
      BY DEF AckFails, AbandonHandoff, Ends
    <2>3. \A p \in Panes : att'[c][p] = "none"
      BY <2>1, <2>2 DEF AllClosed
    <2>4. \A e \in Daemons \ {c} : /\ att'[e] = att[e] /\ proc'[e] = proc[e]
                                    /\ sess'[e] = sess[e] /\ todo'[e] = todo[e]
      BY <2>1, <2>2
    <2> QED
      BY <2>2, <2>3, <2>4 DEF IInv, ReadersPaused
  <1>6. UpgradesWhileServing'
    <2>1. proc[c] # "serving" /\ c \notin restore
      BY DEF IInv, UpgradesWhileServing, AckFails
    <2>2. phase[c] = "idle" /\ c <= tries
      BY <2>1 DEF IInv, TypeOK, UpgradesWhileServing, AckFails
    <2> QED
      BY <2>1, <2>2 DEF IInv, TypeOK, UpgradesWhileServing, AckFails, AbandonHandoff, Ends
  <1>7. MarkerAccounted'
    BY DEF IInv, TypeOK, MarkerAccounted, OlderPasses, UpgradesWhileServing, AckFails, AbandonHandoff, Ends, AllClosed
  <1> QED
    BY <1>1, <1>2, <1>3, <1>4, <1>5, <1>6, <1>7 DEF IInv

LEMMA ActivateStep ==
    ASSUME IInv, NEW c \in Daemons, Activate(c)
    PROVE  IInv'
  <1>1. TypeOK'
    <2>1. proc \in [Daemons -> Procs] /\ att \in [Daemons -> [Panes -> Readers]]
      BY DEF IInv, TypeOK
    <2>2. proc' \in [Daemons -> Procs]
      BY <2>1 DEF Activate, Procs
    <2>3. [p \in Panes |-> IF att[c][p] = "unstarted" THEN "reading" ELSE att[c][p]]
          \in [Panes -> Readers]
      BY <2>1 DEF Readers
    <2>4. att' \in [Daemons -> [Panes -> Readers]]
      BY <2>1, <2>3 DEF Activate
    <2> QED
      BY <2>2, <2>4 DEF IInv, TypeOK, Activate
  <1>2. OlderPasses'
    <2> SUFFICES ASSUME NEW e \in Daemons, NEW f \in Daemons, Alive(e)', Alive(f)', e < f
                 PROVE  phase'[e] \in Passing
      BY DEF OlderPasses
    <2>1. Alive(e) /\ Alive(f)
      BY DEF IInv, TypeOK, Activate
    <2>2. phase[e] \in Passing
      BY <2>1 DEF IInv, OlderPasses
    <2> QED
      BY <2>2 DEF IInv, TypeOK, Activate
  <1>3. AwaitsYoungest'
    <2>1. \A e \in Daemons : Alive(e)' => Alive(e)
      BY DEF IInv, TypeOK, Activate
    <2>2. UNCHANGED <<phase, child, tries>>
      BY DEF Activate
    <2> QED
      BY <2>1, <2>2 DEF IInv, AwaitsYoungest
  <1>4. PreparesSettled'
    BY DEF IInv, TypeOK, PreparesSettled, Settled, Awaits, OlderPasses, UpgradesWhileServing, Activate
  <1>5. ReadersPaused'
    <2>1. /\ att \in [Daemons -> [Panes -> Readers]] /\ proc \in [Daemons -> Procs]
      BY DEF IInv, TypeOK
    <2>2. /\ proc[c] = "acked" /\ proc' = [proc EXCEPT ![c] = "serving"]
          /\ UNCHANGED <<phase, todo, sess>>
      BY DEF Activate
    <2>3. phase[c] = "idle"
      BY <2>2 DEF IInv, UpgradesWhileServing
    <2>4. \A p \in Panes : att'[c][p] = IF att[c][p] = "unstarted" THEN "reading" ELSE att[c][p]
      BY <2>1 DEF Activate
    <2>5. proc'[c] = "serving"
          /\ \A e \in Daemons \ {c} : att'[e] = att[e] /\ proc'[e] = proc[e]
      BY <2>1 DEF Activate
    <2> QED
      BY <2>2, <2>3, <2>4, <2>5 DEF IInv, ReadersPaused
  <1>6. UpgradesWhileServing'
    BY DEF IInv, TypeOK, UpgradesWhileServing, Activate
  <1>7. MarkerAccounted'
    BY DEF IInv, TypeOK, MarkerAccounted, OlderPasses, UpgradesWhileServing, Activate
  <1> QED
    BY <1>1, <1>2, <1>3, <1>4, <1>5, <1>6, <1>7 DEF IInv

(* IInv is inductive: no step of a pane, a reader, an upgrading daemon or a
   replacement (prepareHandoff, upgradeRunning, adoptHandoff) breaks it. *)
THEOREM NextStep == ~Nested /\ IInv /\ [Next]_vars => IInv'
  <1> SUFFICES ASSUME ~Nested, IInv, [Next]_vars PROVE IInv'
    OBVIOUS
  <1>1. CASE UNCHANGED vars
    <2>1. TypeOK'
      BY <1>1 DEF IInv, TypeOK, vars
    <2>2. Attempts'
      BY <1>1, AttemptsFrame DEF vars
    <2>3. ReadersPaused'
      BY <1>1 DEF IInv, ReadersPaused, vars
    <2> QED
      BY <2>1, <2>2, <2>3 DEF IInv, Attempts
  <1>2. CASE Requests
    BY <1>2, PrepareHandoffStep, CreateStep, DestroyStep, ShellExitsStep, EmitStep
    DEF Requests
  <1>3. ASSUME NEW d \in Daemons, Upgrading(d) PROVE IInv'
    BY <1>3, PrepareAsksStep, PrepareFailsStep, ReleaseStep, RestoreMarkerStep, PanicStep,
       SendHandoffStep, CommitStep, GiveUpStep, ReapChildStep, RetireStep
    DEF Upgrading
  <1>4. ASSUME NEW c \in Daemons, Replacing(c) PROVE IInv'
    BY <1>4, AdoptHandoffStep, RejectStep, WriteAckStep, AckFailsStep, ActivateStep
    DEF Replacing
  <1>5. ASSUME NEW d \in Daemons, NEW p \in Panes, Reading(d, p) PROVE IInv'
    BY <1>5, PumpStep, PumpEndsStep, PauseIfGroundedStep, WakeStep, WatchPaneExitStep,
       WatchStopsReaderStep, WatchFinishesStep
    DEF Reading
  <1> QED
    BY <1>1, <1>2, <1>3, <1>4, <1>5 DEF Next, Progress

(* The inductive invariant holds throughout every upgrade, however it ends. *)
THEOREM Invariance == ~Nested => (Spec => []IInv)
  <1> SUFFICES ASSUME ~Nested PROVE Spec => []IInv
    OBVIOUS
  <1>1. Init => IInv
    BY InitStep
  <1>2. IInv /\ [Next]_vars => IInv'
    BY NextStep
  <1> QED
    BY <1>1, <1>2, PTL DEF Spec

LEMMA InvariantOneReader == IInv => OneReader
  <1> SUFFICES ASSUME IInv, NEW d \in Daemons, NEW e \in Daemons, NEW p \in Panes,
                      att[d][p] \in Running, att[e][p] \in Running, d < e
               PROVE  FALSE
    BY DEF OneReader
  <1>1. Alive(d) /\ Alive(e)
    BY DEF IInv, ReadersPaused
  <1>2. phase[d] \in Passing
    BY <1>1 DEF IInv, OlderPasses
  <1> QED
    BY <1>2 DEF IInv, ReadersPaused

(* Two daemons never read one PTY: a passing daemon's readers are paused, and
   it wakes them only when its replacement is gone (attachment.Start). *)
THEOREM SoleReader == ~Nested => (Spec => []OneReader)
  <1> SUFFICES ASSUME ~Nested PROVE Spec => []OneReader
    OBVIOUS
  <1>1. IInv => OneReader
    BY InvariantOneReader
  <1> QED
    BY <1>1, Invariance, PTL

LEMMA InvariantMarker == IInv => MarkerNotAhead
  <1> SUFFICES ASSUME IInv, restore = {}, NEW d \in Daemons, phase[d] = "idle",
                      proc[d] = "serving"
               PROVE  marker <= d
    BY DEF MarkerNotAhead
  <1>1. ~(marker > d)
    BY DEF IInv, MarkerAccounted
  <1>2. marker \in Daemons
    BY DEF IInv, TypeOK
  <1> QED
    BY <1>1, <1>2

(* With no attempt and no restoration pending, daemon-source-hash names no
   daemon younger than the one that serves (recordDaemonSourceHash). *)
THEOREM MarkerBehind == ~Nested => (Spec => []MarkerNotAhead)
  <1> SUFFICES ASSUME ~Nested PROVE Spec => []MarkerNotAhead
    OBVIOUS
  <1>1. IInv => MarkerNotAhead
    BY InvariantMarker
  <1> QED
    BY <1>1, Invariance, PTL

-----------------------------------------------------------------------------
(* What replacements answer.                                               *)

LEMMA AttemptTypes ==
    ASSUME IInv
    PROVE  /\ proc \in [Daemons -> Procs] /\ phase \in [Daemons -> Phases]
           /\ child \in [Daemons -> Daemons] /\ tries \in Daemons
           /\ reply \in [Daemons -> {"none", "yes", "no"}]
  BY DEF IInv, TypeOK

\* Whoever awaits a replacement serves, and no other daemon awaits it.
LEMMA AwaiterUnique ==
    ASSUME IInv, NEW d \in Daemons, NEW c \in Daemons, Awaits(d, c)
    PROVE  /\ proc[d] = "serving" /\ d < c
           /\ \A e \in Daemons : Awaits(e, c) => e = d
  <1>1. \A e \in Daemons : Awaits(e, c) => proc[e] = "serving" /\ e < c
    BY DEF IInv, Awaits, UpgradesWhileServing, AwaitsYoungest
  <1>2. ASSUME NEW e \in Daemons, NEW f \in Daemons, Awaits(e, c), Awaits(f, c), e < f
        PROVE  FALSE
    <2>1. f = child[e]
      BY <1>1, <1>2 DEF IInv, Awaits, AwaitsYoungest
    <2> QED
      BY <1>1, <1>2, <2>1 DEF Awaits
  <1> QED
    BY <1>1, <1>2

LEMMA AnsweredInit == Init => Answered
  BY DEF Init, Answered, Settled, Awaits

LEMMA AnsweredFrame ==
    ASSUME Answered, UNCHANGED <<proc, phase, child, reply>>
    PROVE  Answered'
  BY DEF Answered, Settled, Awaits

\* An attempt that begins, fails before the transfer or is over.
LEMMA AnsweredIdle ==
    ASSUME IInv, Answered, NEW d \in Daemons, NEW s \in {"idle", "preparing", "backing", "releasing"},
           phase[d] \notin Passing, phase[d] # "idle" \/ Settled(d),
           phase' = [phase EXCEPT ![d] = s], UNCHANGED <<proc, child, reply>>
    PROVE  Answered'
  <1>1. \A e \in Daemons : phase'[e] = IF e = d THEN s ELSE phase[e]
    BY AttemptTypes
  <1>2. \A e, c \in Daemons : Awaits(e, c)' <=> Awaits(e, c)
    BY <1>1 DEF Awaits
  <1>3. \A e \in Daemons : Settled(e)' <=> Settled(e)
    BY <1>2 DEF Settled
  <1> QED
    BY <1>1, <1>2, <1>3 DEF Answered

\* A daemon ends that nobody awaits.
LEMMA AnsweredEnd ==
    ASSUME IInv, Answered, NEW d \in Daemons, phase[d] \in {"preparing", "committed"},
           proc' = [proc EXCEPT ![d] = "dead"], phase' = [phase EXCEPT ![d] = "idle"],
           UNCHANGED <<child, reply>>
    PROVE  Answered'
  <1>1. \A e \in Daemons : /\ phase'[e] = IF e = d THEN "idle" ELSE phase[e]
                           /\ proc'[e] = IF e = d THEN "dead" ELSE proc[e]
    BY AttemptTypes
  <1>2. \A e, c \in Daemons : Awaits(e, c)' <=> Awaits(e, c)
    BY <1>1 DEF Awaits
  <1>3. \A e \in Daemons : Settled(e)' <=> Settled(e)
    BY <1>2 DEF Settled
  <1>4. \A e \in Daemons : ~Awaits(e, d)
    BY DEF Answered, Settled
  <1> QED
    BY <1>1, <1>2, <1>3, <1>4 DEF Answered

LEMMA AnsweredUpgrading ==
    ASSUME IInv, Answered, NEW d \in Daemons, Upgrading(d)
    PROVE  Answered'
  <1>1. ASSUME NEW p \in Panes, PrepareAsks(d, p) PROVE Answered'
    BY <1>1, AnsweredFrame DEF PrepareAsks
  <1>2. CASE PrepareFails(d)
    <2>1. /\ phase' = [phase EXCEPT ![d] = IF todo[d] = {} THEN "releasing" ELSE "backing"]
          /\ phase[d] = "preparing" /\ UNCHANGED <<proc, child, reply>>
      BY <1>2 DEF PrepareFails
    <2> QED
      BY <2>1, AnsweredIdle
  <1>3. CASE Release(d)
    BY <1>3, AnsweredIdle DEF Release
  <1>4. CASE RestoreMarker(d)
    BY <1>4, AnsweredFrame DEF RestoreMarker
  <1>5. CASE Panic(d)
    BY <1>5, AnsweredEnd DEF Panic, Ends
  <1>6. CASE SendHandoff(d)
    <2> DEFINE c == tries + 1
    <2>1. /\ c \in Daemons /\ proc[c] = "none" /\ phase[c] = "idle" /\ c # d
          /\ phase[d] = "preparing" /\ proc[d] = "serving" /\ reply[c] = "none"
      <3>1. c \in Daemons /\ phase[d] = "preparing"
        BY <1>6, AttemptTypes DEF SendHandoff
      <3>2. c > tries
        BY AttemptTypes
      <3> HIDE DEF c
      <3>3. proc[c] = "none"
        BY <3>1, <3>2 DEF IInv, UpgradesWhileServing
      <3>4. proc[d] = "serving"
        BY <3>1 DEF IInv, UpgradesWhileServing
      <3> QED
        BY <3>1, <3>3, <3>4 DEF IInv, UpgradesWhileServing, Answered
    <2>2. /\ proc' = [proc EXCEPT ![c] = "started"]
          /\ phase' = [phase EXCEPT ![d] = "sent"]
          /\ child' = [child EXCEPT ![d] = c]
          /\ reply' = reply
      BY <1>6 DEF SendHandoff
    <2> HIDE DEF c
    <2>3. \A e \in Daemons : /\ phase'[e] = IF e = d THEN "sent" ELSE phase[e]
                             /\ proc'[e] = IF e = c THEN "started" ELSE proc[e]
                             /\ child'[e] = IF e = d THEN c ELSE child[e]
      BY <2>1, <2>2, AttemptTypes
    <2>4. \A e, f \in Daemons : Awaits(e, f)' <=> Awaits(e, f) \/ (e = d /\ f = c)
      BY <2>1, <2>3 DEF Awaits
    <2>5. \A f \in Daemons : f # c => (Settled(f)' <=> Settled(f))
      BY <2>1, <2>4 DEF Settled
    <2> QED
      BY <2>1, <2>2, <2>3, <2>4, <2>5 DEF Answered
  <1>7. CASE Commit(d)
    <2>1. \A e \in Daemons : phase'[e] = IF e = d THEN "committed" ELSE phase[e]
      BY <1>7, AttemptTypes DEF Commit
    <2>2. UNCHANGED <<proc, child, reply>> /\ phase[d] = "sent" /\ reply[child[d]] = "yes"
      BY <1>7 DEF Commit
    <2>3. \A e, c \in Daemons : Awaits(e, c)' <=> Awaits(e, c) /\ e # d
      BY <2>1, <2>2 DEF Awaits
    <2>4. \A e \in Daemons : Settled(e) => Settled(e)'
      BY <2>3 DEF Settled
    <2>5. \A c \in Daemons : proc[c] \in {"started", "marked"} => \E e \in Daemons : Awaits(e, c)'
      BY <2>2, <2>3 DEF Answered, Awaits
    <2> QED
      BY <2>1, <2>2, <2>3, <2>4, <2>5 DEF Answered
  <1>8. CASE GiveUp(d)
    <2>1. \A e \in Daemons : phase'[e] = IF e = d THEN "reaping" ELSE phase[e]
      BY <1>8, AttemptTypes DEF GiveUp
    <2>2. UNCHANGED <<proc, child, reply>> /\ phase[d] = "sent"
      BY <1>8 DEF GiveUp
    <2>3. \A e, c \in Daemons : Awaits(e, c)' <=> Awaits(e, c)
      BY <2>1, <2>2 DEF Awaits
    <2>4. \A e \in Daemons : Settled(e) <=> Settled(e)'
      BY <2>3 DEF Settled
    <2> QED
      BY <2>1, <2>2, <2>3, <2>4 DEF Answered
  <1>9. CASE ReapChild(d)
    <2>1. PICK c \in Daemons : c = child[d]
      BY AttemptTypes
    <2>2. Awaits(d, c) /\ UNCHANGED <<child, reply>>
      BY <1>9, <2>1 DEF Awaits, ReapChild
    <2>3. /\ proc'[c] \notin {"started", "marked", "acked", "serving"}
          /\ \A e \in Daemons \ {c} : proc'[e] = proc[e]
      <3>1. CASE Alive(c)
        <4>1. proc' = [proc EXCEPT ![c] = "reaped"]
          BY <1>9, <2>1, <3>1 DEF ReapChild, Ends
        <4> QED
          BY <4>1, AttemptTypes
      <3>2. CASE ~Alive(c)
        BY <1>9, <2>1, <3>2 DEF ReapChild
      <3> QED
        BY <3>1, <3>2
    <2>4. c # d
      BY <2>2, AwaiterUnique
    <2>5. phase'[d] = "releasing" /\ \A e \in Daemons \ {d} : phase'[e] \in {phase[e], "idle"}
      BY <1>9, <2>1, <2>4, AttemptTypes DEF ReapChild
    <2>6. \A e \in Daemons \ {c, d} : phase'[e] = phase[e]
      BY <1>9, <2>1, AttemptTypes DEF ReapChild
    <2>7. \A e, f \in Daemons : Awaits(e, f)' => Awaits(e, f) /\ e # d
      BY <2>2, <2>5 DEF Awaits
    <2>8. \A e \in Daemons : Settled(e) => Settled(e)'
      BY <2>7 DEF Settled
    <2>9. \A e \in Daemons : phase'[e] # "idle" => Settled(e)'
      BY <2>2, <2>5, <2>8 DEF Answered, Awaits
    <2>10. \A e, f \in Daemons : Awaits(e, f)' /\ reply[f] = "yes" => Alive(f)'
      <3> SUFFICES ASSUME NEW e \in Daemons, NEW f \in Daemons, Awaits(e, f)', reply[f] = "yes"
                   PROVE  Alive(f)'
        OBVIOUS
      <3>1. Awaits(e, f) /\ e # d
        BY <2>7
      <3>2. f # c
        BY <2>2, <3>1, AwaiterUnique
      <3> QED
        BY <2>3, <3>1, <3>2 DEF Answered
    <2>11. \A f \in Daemons : proc'[f] \in {"started", "marked"} => \E e \in Daemons : Awaits(e, f)'
      <3> SUFFICES ASSUME NEW f \in Daemons, proc'[f] \in {"started", "marked"}
                   PROVE  \E e \in Daemons : Awaits(e, f)'
        OBVIOUS
      <3>1. f # c /\ proc[f] = proc'[f]
        BY <2>3
      <3>2. PICK e \in Daemons : Awaits(e, f)
        BY <3>1 DEF Answered
      <3>3. e # d /\ proc[e] = "serving" /\ Alive(e) /\ Alive(f)
        BY <2>1, <3>1, <3>2, AwaiterUnique DEF Awaits
      <3>4. e # c
        <4> SUFFICES ASSUME e = c PROVE FALSE
          OBVIOUS
        <4>1. f > d /\ Alive(f)
          BY <2>2, <3>2, <3>3, AwaiterUnique, AttemptTypes
        <4> QED
          BY <2>1, <2>2, <3>1, <4>1 DEF IInv, AwaitsYoungest, Awaits
      <3>5. Awaits(e, f)'
        BY <2>2, <2>6, <3>2, <3>3, <3>4 DEF Awaits
      <3> QED
        BY <3>5
    <2> QED
      <3>1. \A e \in Daemons : proc'[e] \in {"none", "started", "marked"} => reply[e] = "none"
        <4>1. CASE Alive(c)
          <5>1. proc'[c] = "reaped"
            BY <1>9, <2>1, <4>1, AttemptTypes DEF ReapChild, Ends
          <5> QED
            BY <2>3, <5>1 DEF Answered
        <4>2. CASE ~Alive(c)
          BY <1>9, <2>1, <4>2 DEF ReapChild, Answered
        <4> QED
          BY <4>1, <4>2
      <3> QED
        BY <2>2, <2>3, <2>9, <2>10, <2>11, <3>1 DEF Answered
  <1>10. CASE Retire(d)
    BY <1>10, AnsweredEnd DEF Retire, Ends
  <1> QED
    BY <1>1, <1>2, <1>3, <1>4, <1>5, <1>6, <1>7, <1>8, <1>9, <1>10 DEF Upgrading

LEMMA AnsweredReplacing ==
    ASSUME IInv, Answered, NEW c \in Daemons, Replacing(c)
    PROVE  Answered'
  <1>1. UNCHANGED <<phase, child>>
    BY DEF Replacing, AdoptHandoff, Reject, WriteAck, AckFails, AbandonHandoff, Activate
  <1>2. /\ \A e, f \in Daemons : Awaits(e, f)' <=> Awaits(e, f)
        /\ \A f \in Daemons : Settled(f)' <=> Settled(f)
    BY <1>1 DEF Awaits, Settled
  <1>3. ASSUME NEW s \in {"marked", "acked", "serving", "reaped"},
               NEW r \in {"none", "yes", "no"},
               \A e \in Daemons : /\ proc'[e] = IF e = c THEN s ELSE proc[e]
                                  /\ reply'[e] = IF e = c THEN r ELSE reply[e],
               s = "marked" => r = "none" /\ proc[c] = "started",
               s \in {"acked", "serving"} => r = "yes",
               s = "reaped" => r # "yes"
        PROVE  Answered'
    BY <1>1, <1>2, <1>3 DEF Answered
  <1>4. CASE AdoptHandoff(c)
    <2>1. /\ proc[c] = "started" /\ reply' = reply
          /\ \A e \in Daemons : proc'[e] = IF e = c THEN "marked" ELSE proc[e]
      BY <1>4, AttemptTypes DEF AdoptHandoff
    <2>2. reply[c] = "none"
      BY <2>1 DEF Answered
    <2> QED
      BY <1>3, <2>1, <2>2
  <1>5. CASE Reject(c)
    <2>1. \A e \in Daemons : /\ proc'[e] = IF e = c THEN "reaped" ELSE proc[e]
                             /\ reply'[e] = IF e = c THEN "no" ELSE reply[e]
      BY <1>5, AttemptTypes DEF Reject, AbandonHandoff, Ends
    <2> QED
      BY <1>3, <2>1
  <1>6. CASE WriteAck(c)
    <2>1. \A e \in Daemons : /\ proc'[e] = IF e = c THEN "acked" ELSE proc[e]
                             /\ reply'[e] = IF e = c THEN "yes" ELSE reply[e]
      BY <1>6, AttemptTypes DEF WriteAck
    <2> QED
      BY <1>3, <2>1
  <1>7. CASE AckFails(c)
    <2>1. /\ proc[c] = "marked" /\ reply' = reply
          /\ \A e \in Daemons : proc'[e] = IF e = c THEN "reaped" ELSE proc[e]
      BY <1>7, AttemptTypes DEF AckFails, AbandonHandoff, Ends
    <2>2. reply[c] = "none"
      BY <2>1 DEF Answered
    <2> QED
      BY <1>3, <2>1, <2>2
  <1>8. CASE Activate(c)
    <2>1. /\ proc[c] = "acked" /\ reply' = reply
          /\ \A e \in Daemons : proc'[e] = IF e = c THEN "serving" ELSE proc[e]
      BY <1>8, AttemptTypes DEF Activate
    <2>2. c # 0 => reply[c] = "yes"
      BY <2>1 DEF Answered
    <2>3. CASE c = 0
      BY <1>1, <1>2, <2>1, <2>3 DEF Answered
    <2>4. CASE c # 0
      BY <1>3, <2>1, <2>2, <2>4
    <2> QED
      BY <2>3, <2>4
  <1> QED
    BY <1>4, <1>5, <1>6, <1>7, <1>8 DEF Replacing

\* Whatever reads, watches or is asked of a daemon leaves its attempts alone.
LEMMA ReadingFrame ==
    ASSUME NEW d \in Daemons, NEW p \in Panes,
           Reading(d, p) \/ Create(d, p) \/ Destroy(d, p) \/ ShellExits(p) \/ Emit(p)
    PROVE  UNCHANGED <<proc, phase, child, reply, tries, offer, hung>>
  BY DEF Reading, Pump, PumpEnds, pauseIfGrounded, Wake, watchPaneExit, WatchStopsReader,
         WatchFinishes, Create, Destroy, ShellExits, Emit

LEMMA AnsweredNext ==
    ASSUME ~Nested, IInv, Answered, [Next]_vars
    PROVE  Answered'
  <1>1. ASSUME NEW d \in Daemons, PrepareHandoff(d) PROVE Answered'
    BY <1>1, AnsweredIdle DEF PrepareHandoff
  <1>2. ASSUME NEW d \in Daemons, NEW p \in Panes,
               Reading(d, p) \/ Create(d, p) \/ Destroy(d, p) \/ ShellExits(p) \/ Emit(p)
        PROVE  Answered'
    BY <1>2, ReadingFrame, AnsweredFrame
  <1>3. CASE UNCHANGED vars
    BY <1>3, AnsweredFrame DEF vars
  <1>4. 0 \in Daemons
    OBVIOUS
  <1> QED
    BY <1>1, <1>2, <1>3, <1>4, AnsweredUpgrading, AnsweredReplacing
    DEF Next, Requests, Progress

-----------------------------------------------------------------------------
(* What daemons have seen.                                                 *)

\* What reaped replacements read stays accounted for.
ReapedKept ==
    \A c \in Daemons : proc[c] = "reaped" /\ reply[c] = "yes" =>
        proc'[c] = "reaped" /\ reply'[c] = "yes" /\ has'[c] = has[c]

LEMMA SeenKept ==
    ASSUME NEW d \in Daemons, NEW p \in Panes, Seen(d, p), ReapedKept,
           has'[d][p] = has[d][p], taken'[p] = taken[p]
    PROVE  Seen(d, p)'
  <1>1. ReadByReaped(p) \subseteq ReadByReaped(p)'
    BY DEF ReadByReaped, ReapedKept
  <1> QED
    BY <1>1 DEF Seen

LEMMA SightedInit == Init => Sighted
  <1> SUFFICES ASSUME Init PROVE Sighted
    OBVIOUS
  <1>1. \A d \in Daemons, p \in Panes : Seen(d, p)
    <2>1. \A p \in Panes : taken[p] = 0
      BY DEF Init
    <2>2. 1..0 = {}
      OBVIOUS
    <2> QED
      BY <2>1, <2>2 DEF Seen
  <1> QED
    BY <1>1 DEF Sighted

LEMMA SightedFrame ==
    ASSUME Sighted, UNCHANGED <<has, taken>>, ReapedKept,
           \A d \in Daemons : Alive(d)' /\ phase'[d] \notin Passing =>
               \/ Alive(d) /\ phase[d] \notin Passing
               \/ \A p \in Panes : Seen(d, p)',
           \A d, c \in Daemons : Awaits(d, c)' /\ reply'[c] # "yes" =>
               Awaits(d, c) /\ reply[c] # "yes"
    PROVE  Sighted'
  <1>1. ASSUME NEW d \in Daemons, NEW p \in Panes, Seen(d, p) PROVE Seen(d, p)'
    BY <1>1, SeenKept
  <1>2. ASSUME NEW d \in Daemons, NEW p \in Panes, Alive(d)', phase'[d] \notin Passing
        PROVE  Seen(d, p)'
    BY <1>1, <1>2 DEF Sighted
  <1>3. ASSUME NEW d \in Daemons, NEW c \in Daemons, NEW p \in Panes,
               Awaits(d, c)', reply'[c] # "yes"
        PROVE  Seen(d, p)'
    BY <1>1, <1>3 DEF Sighted
  <1> QED
    BY <1>2, <1>3 DEF Sighted

\* An attempt that begins, fails before the transfer, commits or is given up.
LEMMA SightedPhase ==
    ASSUME IInv, Sighted, NEW d \in Daemons, NEW s \in Phases, phase' = [phase EXCEPT ![d] = s],
           s \notin Passing => phase[d] \notin Passing,
           s \in {"sent", "reaping"} => phase[d] \in {"sent", "reaping"},
           UNCHANGED <<proc, child, reply, has, taken>>
    PROVE  Sighted'
  <1>1. \A e \in Daemons : phase'[e] = IF e = d THEN s ELSE phase[e]
    BY AttemptTypes
  <1>2. \A e, c \in Daemons : Awaits(e, c)' => Awaits(e, c)
    BY <1>1 DEF Awaits
  <1>3. ReapedKept
    BY DEF ReapedKept
  <1> QED
    BY <1>1, <1>2, <1>3, SightedFrame

\* A daemon ends.
LEMMA SightedEnd ==
    ASSUME IInv, Sighted, NEW d \in Daemons, phase[d] \in {"preparing", "committed"},
           proc' = [proc EXCEPT ![d] = "dead"], phase' = [phase EXCEPT ![d] = "idle"],
           UNCHANGED <<child, reply, has, taken>>
    PROVE  Sighted'
  <1>1. \A e \in Daemons : /\ phase'[e] = IF e = d THEN "idle" ELSE phase[e]
                           /\ proc'[e] = IF e = d THEN "dead" ELSE proc[e]
    BY AttemptTypes
  <1>2. \A e, c \in Daemons : Awaits(e, c)' => Awaits(e, c)
    BY <1>1 DEF Awaits
  <1>3. ReapedKept
    BY <1>1 DEF ReapedKept, IInv, UpgradesWhileServing
  <1> QED
    BY <1>1, <1>2, <1>3, SightedFrame

LEMMA SightedSend ==
    ASSUME IInv, Answered, Sighted, NEW d \in Daemons, SendHandoff(d)
    PROVE  Sighted'
  <1>1. PICK c \in Daemons : c = tries + 1 /\ c > tries /\ phase[d] = "preparing"
    BY AttemptTypes DEF SendHandoff
  <1>2. /\ proc' = [proc EXCEPT ![c] = "started"]
        /\ phase' = [phase EXCEPT ![d] = "sent"]
        /\ child' = [child EXCEPT ![d] = c]
        /\ has' = [has EXCEPT ![c] = has[d]]
        /\ UNCHANGED <<reply, taken>>
    BY <1>1 DEF SendHandoff
  <1>3. has \in [Daemons -> [Panes -> SUBSET Int]]
    BY DEF IInv, TypeOK
  <1>4. proc[c] = "none" /\ proc[d] = "serving" /\ c # d
    BY <1>1 DEF IInv, UpgradesWhileServing
  <1>5. \A e \in Daemons : /\ phase'[e] = IF e = d THEN "sent" ELSE phase[e]
                           /\ proc'[e] = IF e = c THEN "started" ELSE proc[e]
                           /\ child'[e] = IF e = d THEN c ELSE child[e]
                           /\ has'[e] = IF e = c THEN has[d] ELSE has[e]
    BY <1>1, <1>2, <1>3, AttemptTypes
  <1>6. ReapedKept
    BY <1>2, <1>4, <1>5 DEF ReapedKept
  <1>7. ASSUME NEW e \in Daemons \ {c}, NEW p \in Panes, Seen(e, p) PROVE Seen(e, p)'
    BY <1>2, <1>5, <1>6, <1>7, SeenKept
  <1>8. \A p \in Panes : Seen(d, p)
    BY <1>1, <1>4 DEF Sighted
  <1>9. \A p \in Panes : Seen(c, p)'
    <2>1. \A p \in Panes : Seen(d, p)'
      BY <1>4, <1>7, <1>8
    <2> QED
      BY <1>4, <1>5, <2>1 DEF Seen
  <1>10. ASSUME NEW e \in Daemons, NEW p \in Panes, Alive(e)', phase'[e] \notin Passing
         PROVE  Seen(e, p)'
    <2>1. CASE e = c
      BY <1>9, <2>1
    <2>2. CASE e # c
      BY <1>5, <1>7, <1>10, <2>2 DEF Sighted
    <2> QED
      BY <2>1, <2>2
  <1>11. ASSUME NEW e \in Daemons, NEW f \in Daemons, NEW p \in Panes,
                Awaits(e, f)', reply'[f] # "yes"
         PROVE  Seen(e, p)'
    <2>1. CASE e = d
      BY <1>4, <1>7, <1>8, <2>1
    <2>2. CASE e # d
      <3>1. Awaits(e, f) /\ reply[f] # "yes"
        BY <1>2, <1>5, <1>11, <2>2 DEF Awaits
      <3>2. e # c
        BY <1>4, <3>1, AwaiterUnique
      <3> QED
        BY <1>7, <3>1, <3>2 DEF Sighted
    <2> QED
      BY <2>1, <2>2
  <1> QED
    BY <1>10, <1>11 DEF Sighted

LEMMA SightedReap ==
    ASSUME IInv, Answered, Sighted, NEW d \in Daemons, ReapChild(d)
    PROVE  Sighted'
  <1>1. PICK c \in Daemons : c = child[d]
    BY AttemptTypes
  <1>2. Awaits(d, c) /\ UNCHANGED <<child, reply, has, taken>>
    BY <1>1 DEF Awaits, ReapChild
  <1>3. c # d /\ phase[c] = "idle"
    BY <1>2, AwaiterUnique DEF Answered, Settled
  <1>4. /\ proc' = IF Alive(c) THEN [proc EXCEPT ![c] = "reaped"] ELSE proc
        /\ phase' = IF Alive(c) THEN [phase EXCEPT ![d] = "releasing", ![c] = "idle"]
                    ELSE [phase EXCEPT ![d] = "releasing"]
    BY <1>1 DEF ReapChild, Ends
  <1>5. \A e \in Daemons : /\ phase'[e] = IF e = d THEN "releasing" ELSE phase[e]
                           /\ proc'[e] = IF e = c /\ Alive(c) THEN "reaped" ELSE proc[e]
    <2>1. CASE Alive(c)
      BY <1>3, <1>4, <2>1, AttemptTypes
    <2>2. CASE ~Alive(c)
      BY <1>4, <2>2, AttemptTypes
    <2> QED
      BY <2>1, <2>2
  <1>6. ReapedKept
    BY <1>2, <1>5 DEF ReapedKept
  <1>7. \A e, f \in Daemons : Awaits(e, f)' => Awaits(e, f)
    BY <1>2, <1>5 DEF Awaits
  <1>8. ASSUME NEW p \in Panes PROVE Seen(d, p)'
    <2>1. CASE reply[c] # "yes"
      <3>1. Seen(d, p)
        BY <1>2, <2>1 DEF Sighted
      <3> QED
        BY <1>2, <1>6, <3>1, SeenKept
    <2>2. CASE reply[c] = "yes"
      <3>1. Alive(c)
        BY <1>2, <2>2 DEF Answered
      <3>2. Seen(c, p)
        BY <1>3, <3>1 DEF Sighted
      <3>3. has[c][p] \subseteq ReadByReaped(p)'
        BY <1>2, <1>5, <2>2, <3>1 DEF ReadByReaped
      <3>4. ReadByReaped(p) \subseteq ReadByReaped(p)'
        BY <1>6 DEF ReadByReaped, ReapedKept
      <3> QED
        BY <1>2, <3>2, <3>3, <3>4 DEF Seen
    <2> QED
      BY <2>1, <2>2
  <1>9. \A e \in Daemons : Alive(e)' /\ phase'[e] \notin Passing =>
            \/ Alive(e) /\ phase[e] \notin Passing
            \/ \A p \in Panes : Seen(e, p)'
    BY <1>5, <1>8
  <1> QED
    BY <1>2, <1>6, <1>7, <1>9, SightedFrame

LEMMA SightedUpgrading ==
    ASSUME IInv, Answered, Sighted, NEW d \in Daemons, Upgrading(d)
    PROVE  Sighted'
  <1>1. CASE \/ \E p \in Panes : PrepareAsks(d, p)
             \/ RestoreMarker(d)
    <2>1. UNCHANGED <<proc, phase, child, reply, has, taken>>
      BY <1>1 DEF PrepareAsks, RestoreMarker
    <2> QED
      BY <2>1, SightedFrame DEF ReapedKept, Awaits
  <1>2. CASE PrepareFails(d)
    <2>1. /\ phase' = [phase EXCEPT ![d] = IF todo[d] = {} THEN "releasing" ELSE "backing"]
          /\ phase[d] = "preparing" /\ UNCHANGED <<proc, child, reply, has, taken>>
      BY <1>2 DEF PrepareFails
    <2> QED
      BY <2>1, SightedPhase DEF Phases
  <1>3. CASE Release(d)
    BY <1>3, SightedPhase DEF Release, Phases
  <1>4. CASE Panic(d)
    BY <1>4, SightedEnd DEF Panic, Ends
  <1>5. CASE Commit(d)
    BY <1>5, SightedPhase DEF Commit, Phases
  <1>6. CASE GiveUp(d)
    BY <1>6, SightedPhase DEF GiveUp, Phases
  <1>7. CASE Retire(d)
    BY <1>7, SightedEnd DEF Retire, Ends
  <1> QED
    BY <1>1, <1>2, <1>3, <1>4, <1>5, <1>6, <1>7, SightedSend, SightedReap DEF Upgrading

LEMMA SightedReplacing ==
    ASSUME IInv, Answered, Sighted, NEW c \in Daemons, Replacing(c)
    PROVE  Sighted'
  <1>1. UNCHANGED <<phase, child, has, taken>>
    BY DEF Replacing, AdoptHandoff, Reject, WriteAck, AckFails, AbandonHandoff, Activate
  <1>2. proc[c] \in {"started", "marked", "acked"}
    BY DEF Replacing, AdoptHandoff, Reject, WriteAck, AckFails, Activate
  <1>3. \A e \in Daemons \ {c} : proc'[e] = proc[e] /\ reply'[e] = reply[e]
    BY AttemptTypes DEF Replacing, AdoptHandoff, Reject, WriteAck, AckFails, AbandonHandoff,
                        Activate, Ends
  <1>4. reply[c] = "yes" => reply'[c] = "yes"
    BY AttemptTypes DEF Replacing, AdoptHandoff, Reject, WriteAck, AckFails, AbandonHandoff,
                        Activate, Answered
  <1>5. ReapedKept
    BY <1>1, <1>2, <1>3 DEF ReapedKept
  <1>6. \A e \in Daemons : Alive(e)' => Alive(e)
    BY <1>2, <1>3
  <1>7. \A e, f \in Daemons : Awaits(e, f)' /\ reply'[f] # "yes" => Awaits(e, f) /\ reply[f] # "yes"
    BY <1>1, <1>3, <1>4 DEF Awaits
  <1> QED
    BY <1>1, <1>5, <1>6, <1>7, SightedFrame

\* The daemon that reads is the only one nothing was handed on from.
LEMMA SightedPump ==
    ASSUME IInv, Answered, Sighted, NEW d \in Daemons, NEW p \in Panes, Pump(d, p)
    PROVE  Sighted'
  <1>1. /\ has \in [Daemons -> [Panes -> SUBSET Int]] /\ taken \in [Panes -> Int]
        /\ UNCHANGED <<proc, phase, child, reply>>
        /\ has' = [has EXCEPT ![d][p] = @ \union {taken[p] + 1}]
        /\ taken' = [taken EXCEPT ![p] = @ + 1]
    BY DEF IInv, TypeOK, Pump
  <1>2. proc[d] = "serving" /\ phase[d] \notin Passing
    BY DEF IInv, ReadersPaused, Pump
  <1>3. /\ has'[d][p] = has[d][p] \union {taken[p] + 1}
        /\ \A e \in Daemons, q \in Panes : e # d \/ q # p => has'[e][q] = has[e][q]
        /\ taken'[p] = taken[p] + 1 /\ taken[p] \in Int
        /\ \A q \in Panes \ {p} : taken'[q] = taken[q]
    BY <1>1
  <1>4. ReapedKept
    BY <1>1, <1>2 DEF ReapedKept
  <1>5. ASSUME NEW e \in Daemons, NEW q \in Panes \ {p}, Seen(e, q) PROVE Seen(e, q)'
    BY <1>3, <1>4, <1>5, SeenKept
  <1>6. Seen(d, p)'
    <2>1. Seen(d, p)
      BY <1>2 DEF Sighted
    <2>2. ReadByReaped(p) \subseteq ReadByReaped(p)'
      BY <1>4 DEF ReadByReaped, ReapedKept
    <2>3. 1..(taken[p] + 1) \subseteq 1..taken[p] \union {taken[p] + 1}
      BY <1>3
    <2> QED
      BY <1>3, <2>1, <2>2, <2>3 DEF Seen
  <1>7. \A e \in Daemons : Alive(e) /\ phase[e] \notin Passing => e = d
    BY <1>2 DEF IInv, OlderPasses
  <1>8. ASSUME NEW e \in Daemons, NEW f \in Daemons, Awaits(e, f), reply[f] # "yes"
        PROVE  FALSE
    <2>1. Alive(e) /\ e # d /\ proc[e] = "serving"
      BY <1>2, <1>8, AwaiterUnique DEF Awaits
    <2>2. e < d
      BY <1>2, <2>1 DEF IInv, OlderPasses
    <2>3. d = f
      BY <1>2, <1>8, <2>2 DEF IInv, AwaitsYoungest, Awaits
    <2> QED
      BY <1>2, <1>8, <2>2, <2>3 DEF Answered
  <1>9. \A e, f \in Daemons : Awaits(e, f)' <=> Awaits(e, f)
    BY <1>1 DEF Awaits
  <1>10. ASSUME NEW e \in Daemons, NEW q \in Panes, Alive(e)', phase'[e] \notin Passing
         PROVE  Seen(e, q)'
    <2>1. e = d /\ Seen(e, q)
      BY <1>1, <1>7, <1>10 DEF Sighted
    <2> QED
      BY <1>5, <1>6, <2>1
  <1> QED
    BY <1>1, <1>8, <1>9, <1>10 DEF Sighted

LEMMA SightedNext ==
    ASSUME ~Nested, IInv, Answered, Sighted, [Next]_vars
    PROVE  Sighted'
  <1>1. ASSUME NEW d \in Daemons, PrepareHandoff(d) PROVE Sighted'
    BY <1>1, SightedPhase DEF PrepareHandoff, Phases
  <1>2. ASSUME NEW d \in Daemons, NEW p \in Panes,
               Reading(d, p) \/ Create(d, p) \/ Destroy(d, p) \/ ShellExits(p) \/ Emit(p)
        PROVE  Sighted'
    <2>1. CASE Pump(d, p)
      BY <2>1, SightedPump
    <2>2. CASE ~Pump(d, p)
      <3>1. UNCHANGED <<has, taken>>
        BY <1>2, <2>2 DEF Reading, PumpEnds, pauseIfGrounded, Wake, watchPaneExit,
               WatchStopsReader, WatchFinishes, Create, Destroy, ShellExits, Emit
      <3>2. UNCHANGED <<proc, phase, child, reply>>
        BY <1>2, ReadingFrame
      <3> QED
        BY <3>1, <3>2, SightedFrame DEF ReapedKept, Awaits
    <2> QED
      BY <2>1, <2>2
  <1>3. CASE UNCHANGED vars
    BY <1>3, SightedFrame DEF vars, ReapedKept, Awaits
  <1>4. 0 \in Daemons
    OBVIOUS
  <1> QED
    BY <1>1, <1>2, <1>3, <1>4, SightedUpgrading, SightedReplacing
    DEF Next, Requests, Progress

-----------------------------------------------------------------------------
(* Who holds a pane.                                                       *)

LEMMA HandedInit == Init => HandedOn /\ UpgradeKeepsPanes
  BY DEF Init, HandedOn, Awaits, UpgradeKeepsPanes

\* No process comes to life, takes a snapshot over or begins to pass panes on.
LEMMA HandedShrink ==
    ASSUME HandedOn, exited \subseteq exited',
           \A e \in Daemons : Alive(e)' =>
               /\ Alive(e) /\ (proc[e] = "started" => proc'[e] = "started")
               /\ sess'[e] = sess[e] /\ offer'[e] = offer[e]
               /\ (phase[e] = "committed" => phase'[e] = "committed"),
           \A e \in Daemons : phase'[e] \in Passing => phase[e] \in Passing /\ Alive(e)',
           \A e, c \in Daemons : Awaits(e, c)' => Awaits(e, c),
           \A e \in Daemons : proc'[e] = "started" => proc[e] = "started"
    PROVE  HandedOn'
  <1>1. ASSUME NEW d \in Daemons, NEW e \in Daemons, phase'[d] \in Passing, e > d,
               Alive(e)', phase'[e] # "committed", proc'[e] # "started"
        PROVE  sess'[d] \ exited' \subseteq sess'[e]
    <2>1. sess[d] \ exited \subseteq sess[e]
      BY <1>1 DEF HandedOn
    <2> QED
      BY <1>1, <2>1
  <1>2. ASSUME NEW d \in Daemons, NEW c \in Daemons, Awaits(d, c)', proc'[c] = "started"
        PROVE  sess'[d] \ exited' \subseteq offer'[c]
    <2>1. sess[d] \ exited \subseteq offer[c]
      BY <1>2 DEF HandedOn
    <2>2. Alive(d)' /\ Alive(c)'
      BY <1>2 DEF Awaits
    <2> QED
      BY <2>1, <2>2
  <1> QED
    BY <1>1, <1>2 DEF HandedOn

\* Panes come and go in a daemon that passes nothing on.
LEMMA HandedReading ==
    ASSUME IInv, HandedOn, NEW d \in Daemons, NEW p \in Panes,
           Reading(d, p) \/ Create(d, p) \/ Destroy(d, p) \/ ShellExits(p) \/ Emit(p)
    PROVE  HandedOn'
  <1>1. UNCHANGED <<proc, phase, child, offer>>
    BY ReadingFrame
  <1>2. /\ exited \subseteq exited'
        /\ \A e \in Daemons : /\ sess'[e] # sess[e] => phase[e] \notin Passing
                              /\ sess[e] \ exited' \subseteq sess'[e]
    <2>1. sess \in [Daemons -> SUBSET Panes]
      BY DEF IInv, TypeOK
    <2>2. CASE Create(d, p)
      <3>1. sess' = [sess EXCEPT ![d] = @ \union {p}] /\ exited' = exited
        BY <2>2 DEF Create
      <3>2. phase[d] \notin Passing
        BY <2>2 DEF Create, Mutable, IInv, UpgradesWhileServing
      <3> QED
        BY <2>1, <3>1, <3>2
    <2>3. CASE Destroy(d, p)
      <3>1. sess' = [sess EXCEPT ![d] = @ \ {p}] /\ exited' = exited \union {p}
        BY <2>3 DEF Destroy
      <3>2. phase[d] \notin Passing
        BY <2>3 DEF Destroy, Mutable, IInv, UpgradesWhileServing
      <3> QED
        BY <2>1, <3>1, <3>2
    <2>4. CASE Reading(d, p) \/ ShellExits(p) \/ Emit(p)
      <3>1. sess' = sess /\ exited \subseteq exited'
        BY <2>4 DEF Reading, Pump, PumpEnds, pauseIfGrounded, Wake, watchPaneExit,
               WatchStopsReader, WatchFinishes, ShellExits, Emit
      <3> QED
        BY <3>1
    <2> QED
      BY <2>2, <2>3, <2>4
  <1>3. ASSUME NEW a \in Daemons, NEW e \in Daemons, phase'[a] \in Passing, e > a,
               Alive(e)', phase'[e] # "committed", proc'[e] # "started"
        PROVE  sess'[a] \ exited' \subseteq sess'[e]
    <2>1. sess[a] \ exited \subseteq sess[e] /\ sess'[a] = sess[a]
      BY <1>1, <1>2, <1>3 DEF HandedOn
    <2> QED
      BY <1>2, <2>1
  <1>4. ASSUME NEW a \in Daemons, NEW c \in Daemons, Awaits(a, c)', proc'[c] = "started"
        PROVE  sess'[a] \ exited' \subseteq offer'[c]
    <2>1. Awaits(a, c) /\ phase[a] \in Passing
      BY <1>1, <1>4 DEF Awaits
    <2>2. sess[a] \ exited \subseteq offer[c] /\ sess'[a] = sess[a]
      BY <1>1, <1>2, <1>4, <2>1 DEF HandedOn
    <2> QED
      BY <1>1, <1>2, <2>2
  <1> QED
    BY <1>3, <1>4 DEF HandedOn

\* An attempt that begins, fails before the transfer, commits or is given up.
LEMMA HandedPhase ==
    ASSUME IInv, HandedOn, NEW d \in Daemons, NEW s \in Phases, phase' = [phase EXCEPT ![d] = s],
           proc[d] = "serving", phase[d] # "committed",
           s \in Passing => phase[d] \in Passing,
           s \in {"sent", "reaping"} => phase[d] \in {"sent", "reaping"},
           UNCHANGED <<proc, child, offer, sess, exited>>
    PROVE  HandedOn'
  <1>1. \A e \in Daemons : phase'[e] = IF e = d THEN s ELSE phase[e]
    BY AttemptTypes
  <1>2. \A e, c \in Daemons : Awaits(e, c)' => Awaits(e, c)
    BY <1>1 DEF Awaits
  <1>3. \A e \in Daemons : phase[e] \in Passing => Alive(e)
    BY DEF IInv, UpgradesWhileServing
  <1> QED
    BY <1>1, <1>2, <1>3, HandedShrink

LEMMA HandedEnd ==
    ASSUME IInv, HandedOn, NEW d \in Daemons, NEW s \in {"dead", "reaped"}, NEW cause,
           Ends(d, cause), proc' = [proc EXCEPT ![d] = s],
           phase' = [phase EXCEPT ![d] = "idle"], child' = child
    PROVE  HandedOn'
  <1>1. \A e \in Daemons : /\ phase'[e] = IF e = d THEN "idle" ELSE phase[e]
                           /\ proc'[e] = IF e = d THEN s ELSE proc[e]
    BY AttemptTypes
  <1>2. /\ exited \subseteq exited'
        /\ \A e \in Daemons \ {d} : sess'[e] = sess[e] /\ offer'[e] = offer[e]
    <2>1. sess \in [Daemons -> SUBSET Panes] /\ offer \in [Daemons -> SUBSET Panes]
      BY DEF IInv, TypeOK
    <2> QED
      BY <2>1 DEF Ends
  <1>3. \A e, c \in Daemons : Awaits(e, c)' => Awaits(e, c)
    BY <1>1 DEF Awaits
  <1>4. \A e \in Daemons : phase[e] \in Passing => Alive(e)
    BY DEF IInv, UpgradesWhileServing
  <1> QED
    BY <1>1, <1>2, <1>3, <1>4, HandedShrink

LEMMA HandedSend ==
    ASSUME IInv, Answered, HandedOn, NEW d \in Daemons, SendHandoff(d)
    PROVE  HandedOn'
  <1>1. PICK c \in Daemons : c = tries + 1 /\ c > tries /\ phase[d] = "preparing"
    BY AttemptTypes DEF SendHandoff
  <1>2. /\ proc' = [proc EXCEPT ![c] = "started"]
        /\ phase' = [phase EXCEPT ![d] = "sent"]
        /\ child' = [child EXCEPT ![d] = c]
        /\ offer' = [offer EXCEPT ![c] = sess[d]]
        /\ UNCHANGED <<sess, exited>>
    BY <1>1 DEF SendHandoff
  <1>3. offer \in [Daemons -> SUBSET Panes]
    BY DEF IInv, TypeOK
  <1>4. proc[c] = "none" /\ proc[d] = "serving" /\ c # d
    BY <1>1 DEF IInv, UpgradesWhileServing
  <1>5. \A e \in Daemons : /\ phase'[e] = IF e = d THEN "sent" ELSE phase[e]
                           /\ proc'[e] = IF e = c THEN "started" ELSE proc[e]
                           /\ child'[e] = IF e = d THEN c ELSE child[e]
                           /\ offer'[e] = IF e = c THEN sess[d] ELSE offer[e]
    BY <1>1, <1>2, <1>3, AttemptTypes
  <1>6. ASSUME NEW a \in Daemons, NEW e \in Daemons, phase'[a] \in Passing, e > a,
               Alive(e)', phase'[e] # "committed", proc'[e] # "started"
        PROVE  sess'[a] \ exited' \subseteq sess'[e]
    <2>1. e # c /\ Alive(e)
      BY <1>5, <1>6
    <2>2. a # d
      BY <1>1, <1>4, <1>6, <2>1 DEF IInv, OlderPasses
    <2>3. phase[a] \in Passing /\ phase[e] # "committed" /\ proc[e] # "started"
      BY <1>1, <1>5, <1>6, <2>1, <2>2
    <2>4. sess[a] \ exited \subseteq sess[e]
      BY <1>6, <2>1, <2>3 DEF HandedOn
    <2> QED
      BY <1>2, <2>4
  <1>7. ASSUME NEW a \in Daemons, NEW f \in Daemons, Awaits(a, f)', proc'[f] = "started"
        PROVE  sess'[a] \ exited' \subseteq offer'[f]
    <2>1. CASE a = d
      <3>1. f = c
        BY <1>5, <1>7, <2>1 DEF Awaits
      <3> QED
        BY <1>2, <1>5, <2>1, <3>1
    <2>2. CASE a # d
      <3>1. Awaits(a, f)
        BY <1>5, <1>7, <2>2 DEF Awaits
      <3>2. f # c
        <4>1. f <= tries
          BY <3>1 DEF IInv, AwaitsYoungest, Awaits
        <4> QED
          BY <1>1, <4>1, AttemptTypes
      <3>3. sess[a] \ exited \subseteq offer[f]
        BY <1>5, <1>7, <3>1, <3>2 DEF HandedOn
      <3> QED
        BY <1>2, <1>5, <3>2, <3>3
    <2> QED
      BY <2>1, <2>2
  <1> QED
    BY <1>6, <1>7 DEF HandedOn

\* The snapshot on its way covers what any passing daemon still holds: its
\* sender is the youngest of them.
LEMMA HandedAdopt ==
    ASSUME IInv, Answered, HandedOn, NEW c \in Daemons, AdoptHandoff(c)
    PROVE  HandedOn'
  <1>1. /\ proc[c] = "started" /\ proc' = [proc EXCEPT ![c] = "marked"]
        /\ sess' = [sess EXCEPT ![c] = offer[c]]
        /\ offer' = [offer EXCEPT ![c] = {}]
        /\ UNCHANGED <<phase, child, exited>>
    BY DEF AdoptHandoff
  <1>2. sess \in [Daemons -> SUBSET Panes] /\ offer \in [Daemons -> SUBSET Panes]
    BY DEF IInv, TypeOK
  <1>3. /\ sess'[c] = offer[c] /\ proc'[c] = "marked"
        /\ \A e \in Daemons \ {c} : /\ sess'[e] = sess[e] /\ proc'[e] = proc[e]
                                    /\ offer'[e] = offer[e]
    BY <1>1, <1>2, AttemptTypes
  <1>4. PICK f \in Daemons : Awaits(f, c)
    BY <1>1 DEF Answered
  <1>5. proc[f] = "serving" /\ f < c /\ sess[f] \ exited \subseteq offer[c]
    BY <1>1, <1>4, AwaiterUnique DEF HandedOn
  <1>6. ASSUME NEW a \in Daemons, phase[a] \in Passing, a < c
        PROVE  sess[a] \ exited \subseteq offer[c]
    <2>1. CASE a = f
      BY <1>5, <2>1
    <2>2. CASE a # f
      <3>1. proc[a] = "serving"
        BY <1>6 DEF IInv, UpgradesWhileServing
      <3>2. ~(f < a)
        BY <1>4, <1>6, <3>1 DEF IInv, AwaitsYoungest, Awaits
      <3>3. sess[a] \ exited \subseteq sess[f]
        BY <1>4, <1>5, <1>6, <2>2, <3>2 DEF HandedOn, Awaits
      <3> QED
        BY <1>5, <3>3
    <2> QED
      BY <2>1, <2>2
  <1>7. phase[c] = "idle"
    BY <1>1 DEF IInv, UpgradesWhileServing
  <1>8. ASSUME NEW a \in Daemons, NEW e \in Daemons, phase'[a] \in Passing, e > a,
               Alive(e)', phase'[e] # "committed", proc'[e] # "started"
        PROVE  sess'[a] \ exited' \subseteq sess'[e]
    <2>1. a # c
      BY <1>1, <1>7, <1>8
    <2>2. CASE e = c
      BY <1>1, <1>3, <1>6, <1>8, <2>1, <2>2
    <2>3. CASE e # c
      <3>1. sess[a] \ exited \subseteq sess[e]
        BY <1>1, <1>3, <1>8, <2>3 DEF HandedOn
      <3> QED
        BY <1>1, <1>3, <2>1, <2>3, <3>1
    <2> QED
      BY <2>2, <2>3
  <1>9. ASSUME NEW a \in Daemons, NEW e \in Daemons, Awaits(a, e)', proc'[e] = "started"
        PROVE  sess'[a] \ exited' \subseteq offer'[e]
    <2>1. e # c /\ Awaits(a, e) /\ a # c
      BY <1>1, <1>3, <1>7, <1>9 DEF Awaits
    <2>2. sess[a] \ exited \subseteq offer[e]
      BY <1>3, <1>9, <2>1 DEF HandedOn
    <2> QED
      BY <1>1, <1>3, <2>1, <2>2
  <1> QED
    BY <1>8, <1>9 DEF HandedOn

\* A retiring daemon hangs up nothing while somebody else can serve.
LEMMA RetireKeeps ==
    ASSUME IInv, Answered, HandedOn, UpgradeKeepsPanes, NEW d \in Daemons, Retire(d)
    PROVE  UpgradeKeepsPanes'
  <1>1. phase[d] = "committed" /\ proc[d] = "serving" /\ Settled(d)
    BY DEF Retire, IInv, UpgradesWhileServing, Answered
  <1>2. \A e \in Daemons : /\ phase'[e] = IF e = d THEN "idle" ELSE phase[e]
                           /\ proc'[e] = IF e = d THEN "dead" ELSE proc[e]
    BY AttemptTypes DEF Retire, Ends
  <1> SUFFICES ASSUME NEW e \in Daemons, Alive(e)', phase'[e] # "committed", NEW p \in Panes
               PROVE  hung'[p] # "commit"
    BY DEF UpgradeKeepsPanes
  <1>3. e # d /\ Alive(e) /\ phase[e] # "committed"
    BY <1>2
  <1>4. e > d
    <2> SUFFICES ASSUME e < d PROVE FALSE
      BY <1>3
    <2>1. phase[e] \in {"sent", "reaping"}
      BY <1>1, <1>3 DEF IInv, OlderPasses
    <2>2. d = child[e]
      BY <1>1, <2>1 DEF IInv, AwaitsYoungest
    <2> QED
      BY <1>1, <2>1, <2>2 DEF Settled, Awaits
  \* Some other living process has adopted every living pane of d.
  <1>5. \E f \in Daemons \ {d} : Alive(f) /\ sess[d] \ exited \subseteq sess[f]
    <2>1. CASE proc[e] # "started"
      BY <1>1, <1>3, <1>4, <2>1 DEF HandedOn
    <2>2. CASE proc[e] = "started"
      <3>1. PICK f \in Daemons : Awaits(f, e)
        BY <2>2 DEF Answered
      <3>2. proc[f] = "serving" /\ f # d
        BY <1>1, <3>1, AwaiterUnique DEF Awaits
      <3>3. f > d
        <4> SUFFICES ASSUME f < d PROVE FALSE
          BY <3>2
        <4> QED
          BY <1>1, <1>3, <3>1 DEF IInv, AwaitsYoungest, Awaits
      <3> QED
        BY <1>1, <3>1, <3>2, <3>3 DEF HandedOn, Awaits
    <2> QED
      BY <2>1, <2>2
  <1>6. OnlyHeldBy(d) = {}
    BY <1>5 DEF OnlyHeldBy
  <1>7. hung' = [q \in Panes |-> IF q \in OnlyHeldBy(d) THEN "commit" ELSE hung[q]]
    BY DEF Retire, Ends
  <1> QED
    BY <1>3, <1>6, <1>7 DEF UpgradeKeepsPanes

\* Nobody else hangs a pane up as a retirement does.
LEMMA KeepsFrame ==
    ASSUME UpgradeKeepsPanes, NEW d \in Daemons, Alive(d), phase[d] # "committed",
           \A p \in Panes : hung'[p] = "commit" => hung[p] = "commit"
    PROVE  UpgradeKeepsPanes'
  BY DEF UpgradeKeepsPanes

LEMMA HandedUpgrading ==
    ASSUME IInv, Answered, HandedOn, UpgradeKeepsPanes, NEW d \in Daemons, Upgrading(d)
    PROVE  HandedOn' /\ UpgradeKeepsPanes'
  <1>1. phase[d] # "idle" => proc[d] = "serving"
    BY DEF IInv, UpgradesWhileServing
  <1>2. CASE \/ \E p \in Panes : PrepareAsks(d, p)
             \/ RestoreMarker(d)
    <2>1. UNCHANGED <<proc, phase, child, offer, sess, exited, hung>>
      BY <1>2 DEF PrepareAsks, RestoreMarker
    <2> QED
      BY <2>1 DEF HandedOn, Awaits, UpgradeKeepsPanes
  <1>3. ASSUME NEW s \in Phases, phase' = [phase EXCEPT ![d] = s], phase[d] \notin {"idle", "committed"},
               s \in Passing => phase[d] \in Passing,
               s \in {"sent", "reaping"} => phase[d] \in {"sent", "reaping"},
               UNCHANGED <<proc, child, offer, sess, exited, hung>>
        PROVE  HandedOn' /\ UpgradeKeepsPanes'
    BY <1>1, <1>3, HandedPhase, KeepsFrame
  <1>4. CASE PrepareFails(d)
    <2>1. /\ phase' = [phase EXCEPT ![d] = IF todo[d] = {} THEN "releasing" ELSE "backing"]
          /\ phase[d] = "preparing" /\ UNCHANGED <<proc, child, offer, sess, exited, hung>>
      BY <1>4 DEF PrepareFails
    <2> QED
      BY <1>3, <2>1 DEF Phases
  <1>5. CASE Release(d)
    BY <1>3, <1>5 DEF Release, Phases
  <1>6. CASE Commit(d)
    BY <1>3, <1>6 DEF Commit, Phases
  <1>7. CASE GiveUp(d)
    BY <1>3, <1>7 DEF GiveUp, Phases
  <1>8. CASE Panic(d)
    <2>1. /\ Ends(d, "panic") /\ proc' = [proc EXCEPT ![d] = "dead"]
          /\ phase' = [phase EXCEPT ![d] = "idle"] /\ child' = child /\ phase[d] = "preparing"
          /\ hung' = [p \in Panes |-> IF p \in OnlyHeldBy(d) THEN "panic" ELSE hung[p]]
      BY <1>8 DEF Panic, Ends
    <2>2. \A p \in Panes : hung'[p] = "commit" => hung[p] = "commit"
      BY <2>1
    <2> QED
      BY <1>1, <2>1, <2>2, HandedEnd, KeepsFrame
  <1>9. CASE SendHandoff(d)
    <2>1. phase[d] = "preparing" /\ hung' = hung
      BY <1>9 DEF SendHandoff
    <2> QED
      BY <1>1, <1>9, <2>1, HandedSend, KeepsFrame
  <1>10. CASE ReapChild(d)
    <2>1. PICK c \in Daemons : c = child[d]
      BY AttemptTypes
    <2>2. phase[d] = "reaping" /\ Awaits(d, c)
      BY <1>10, <2>1 DEF ReapChild, Awaits
    <2>3. phase[c] = "idle" /\ c # d
      BY <2>2, AwaiterUnique DEF Answered, Settled
    <2>4. CASE ~Alive(c)
      <3>1. /\ phase' = [phase EXCEPT ![d] = "releasing"]
            /\ UNCHANGED <<proc, child, offer, sess, exited, hung>>
        BY <1>10, <2>1, <2>4 DEF ReapChild
      <3> QED
        BY <1>3, <2>2, <3>1 DEF Phases
    <2>5. CASE Alive(c)
      <3>1. /\ Ends(c, "reap") /\ proc' = [proc EXCEPT ![c] = "reaped"] /\ child' = child
            /\ phase' = [phase EXCEPT ![d] = "releasing", ![c] = "idle"]
            /\ hung' = [p \in Panes |-> IF p \in OnlyHeldBy(c) THEN "reap" ELSE hung[p]]
        BY <1>10, <2>1, <2>5 DEF ReapChild, Ends
      <3>2. \A e \in Daemons : /\ phase'[e] = IF e = d THEN "releasing" ELSE phase[e]
                               /\ proc'[e] = IF e = c THEN "reaped" ELSE proc[e]
        BY <2>3, <3>1, AttemptTypes
      <3>3. /\ exited \subseteq exited'
            /\ \A e \in Daemons \ {c} : sess'[e] = sess[e] /\ offer'[e] = offer[e]
        <4>1. sess \in [Daemons -> SUBSET Panes] /\ offer \in [Daemons -> SUBSET Panes]
          BY DEF IInv, TypeOK
        <4> QED
          BY <3>1, <4>1 DEF Ends
      <3>4. \A e, f \in Daemons : Awaits(e, f)' => Awaits(e, f)
        BY <3>1, <3>2 DEF Awaits
      <3>5. \A e \in Daemons : phase[e] \in Passing => Alive(e)
        BY DEF IInv, UpgradesWhileServing
      <3>6. HandedOn'
        BY <2>2, <2>3, <3>2, <3>3, <3>4, <3>5, HandedShrink
      <3>7. \A p \in Panes : hung'[p] = "commit" => hung[p] = "commit"
        BY <3>1
      <3> QED
        BY <1>1, <2>2, <3>6, <3>7, KeepsFrame
    <2> QED
      BY <2>4, <2>5
  <1>11. CASE Retire(d)
    <2>1. /\ Ends(d, "commit") /\ proc' = [proc EXCEPT ![d] = "dead"]
          /\ phase' = [phase EXCEPT ![d] = "idle"] /\ child' = child
      BY <1>11 DEF Retire, Ends
    <2> QED
      BY <1>11, <2>1, HandedEnd, RetireKeeps
  <1> QED
    BY <1>2, <1>4, <1>5, <1>6, <1>7, <1>8, <1>9, <1>10, <1>11 DEF Upgrading

LEMMA HandedReplacing ==
    ASSUME IInv, Answered, HandedOn, UpgradeKeepsPanes, NEW c \in Daemons, Replacing(c)
    PROVE  HandedOn' /\ UpgradeKeepsPanes'
  <1>1. proc[c] \in {"started", "marked", "acked"}
    BY DEF Replacing, AdoptHandoff, Reject, WriteAck, AckFails, Activate
  <1>2. phase[c] = "idle"
    BY <1>1 DEF IInv, UpgradesWhileServing
  <1>3. CASE AdoptHandoff(c)
    <2>1. hung' = hung
      BY <1>3 DEF AdoptHandoff
    <2> QED
      BY <1>1, <1>2, <1>3, <2>1, HandedAdopt, KeepsFrame
  <1>4. CASE Reject(c) \/ AckFails(c)
    <2>1. /\ Ends(c, "reap") /\ proc' = [proc EXCEPT ![c] = "reaped"]
          /\ UNCHANGED <<phase, child>>
          /\ hung' = [p \in Panes |-> IF p \in OnlyHeldBy(c) THEN "reap" ELSE hung[p]]
      BY <1>4 DEF Reject, AckFails, AbandonHandoff, Ends
    <2>2. phase' = [phase EXCEPT ![c] = "idle"]
      BY <1>2, <2>1, AttemptTypes
    <2>3. \A p \in Panes : hung'[p] = "commit" => hung[p] = "commit"
      BY <2>1
    <2> QED
      BY <1>1, <1>2, <2>1, <2>2, <2>3, HandedEnd, KeepsFrame
  <1>5. CASE WriteAck(c) \/ Activate(c)
    <2>1. /\ UNCHANGED <<phase, child, offer, sess, exited, hung>> /\ proc[c] # "started"
          /\ \A e \in Daemons \ {c} : proc'[e] = proc[e]
          /\ proc'[c] \in {"acked", "serving"}
      BY <1>5, AttemptTypes DEF WriteAck, Activate
    <2>2. \A e, f \in Daemons : Awaits(e, f)' => Awaits(e, f)
      BY <2>1 DEF Awaits
    <2>3. \A e \in Daemons : phase[e] \in Passing => Alive(e)
      BY DEF IInv, UpgradesWhileServing
    <2>4. HandedOn'
      BY <1>1, <2>1, <2>2, <2>3, HandedShrink
    <2> QED
      BY <1>1, <1>2, <2>1, <2>4, KeepsFrame
  <1> QED
    BY <1>3, <1>4, <1>5 DEF Replacing

LEMMA HandedNext ==
    ASSUME ~Nested, IInv, Answered, HandedOn, UpgradeKeepsPanes, [Next]_vars
    PROVE  HandedOn' /\ UpgradeKeepsPanes'
  <1>1. ASSUME NEW d \in Daemons, PrepareHandoff(d) PROVE HandedOn' /\ UpgradeKeepsPanes'
    <2>1. /\ phase' = [phase EXCEPT ![d] = "preparing"] /\ phase[d] = "idle"
          /\ proc[d] = "serving" /\ UNCHANGED <<proc, child, offer, sess, exited, hung>>
      BY <1>1 DEF PrepareHandoff
    <2> QED
      BY <2>1, HandedPhase, KeepsFrame DEF Phases
  <1>2. ASSUME NEW d \in Daemons, NEW p \in Panes,
               Reading(d, p) \/ Create(d, p) \/ Destroy(d, p) \/ ShellExits(p) \/ Emit(p)
        PROVE  HandedOn' /\ UpgradeKeepsPanes'
    <2>1. UNCHANGED <<proc, phase, hung>>
      BY <1>2, ReadingFrame
    <2> QED
      BY <1>2, <2>1, HandedReading DEF UpgradeKeepsPanes
  <1>3. CASE UNCHANGED vars
    BY <1>3 DEF vars, HandedOn, Awaits, UpgradeKeepsPanes
  <1>4. 0 \in Daemons
    OBVIOUS
  <1> QED
    BY <1>1, <1>2, <1>3, <1>4, HandedUpgrading, HandedReplacing
    DEF Next, Requests, Progress

(* The daemon that reads a pane has seen all of its output but what a
   replacement read between its ACK and its being reaped: main.go's parent
   resumes only after the kill, and a replacement reads only after its ACK. *)
THEOREM NothingElseLostAlways == ~Nested => (Spec => []NothingElseLost)
  <1> SUFFICES ASSUME ~Nested PROVE Spec => []NothingElseLost
    OBVIOUS
  <1>1. IInv /\ Sighted => NothingElseLost
    BY DEF IInv, ReadersPaused, Sighted, NothingElseLost
  <1>2. IInv /\ Answered /\ [Next]_vars => Answered'
    BY AnsweredNext
  <1>3. IInv /\ Answered /\ Sighted /\ [Next]_vars => Sighted'
    BY SightedNext
  <1> QED
    BY <1>1, <1>2, <1>3, Invariance, AnsweredInit, SightedInit, PTL DEF Spec

(* A retiring daemon hangs up no pane while one that has not handed its own
   panes on is alive: every living pane it held was adopted. *)
THEOREM UpgradeKeepsPanesAlways == ~Nested => (Spec => []UpgradeKeepsPanes)
  <1> SUFFICES ASSUME ~Nested PROVE Spec => []UpgradeKeepsPanes
    OBVIOUS
  <1>1. IInv /\ Answered /\ [Next]_vars => Answered'
    BY AnsweredNext
  <1>2. IInv /\ Answered /\ HandedOn /\ UpgradeKeepsPanes /\ [Next]_vars
          => HandedOn' /\ UpgradeKeepsPanes'
    BY HandedNext
  <1> QED
    BY <1>1, <1>2, Invariance, AnsweredInit, HandedInit, PTL DEF Spec

-----------------------------------------------------------------------------
(***************************************************************************)
(* MuxConnection, for every set of channels and every bound.               *)
(***************************************************************************)
HIDE DEF Daemons, Alive, Passing, Running, procs, prepares, streams, shells
USE NoLinkAssumption, LimitAssumption DEF Generations

LEMMA ConnInitStep == ConnInit => ConnInv
  <1> SUFFICES ASSUME ConnInit PROVE ConnInv
    OBVIOUS
  <1>1. link \in [Link -> {"free", "open", "ended"}]
        /\ opener \in [Generations -> {"none", "caller", "timer"}]
    BY DEF ConnInit
  <1>2. attempt \in 0 .. MaxReattach /\ generation \in Generations /\ epoch \in Nat
    BY DEF ConnInit
  <1> QED
    BY <1>1, <1>2 DEF ConnInit, ConnInv, ConnTypeOK, CurrentIsOpen, ClosedHasNoClient

\* Rescheduling keeps the attempts within the backoff table.
LEMMA ConnScheduleLemma ==
    ASSUME ConnTypeOK, ScheduleReattach
    PROVE  timer' \in BOOLEAN /\ attempt' \in 0 .. MaxReattach /\ wanted' \in BOOLEAN
  <1>1. CASE timer /\ UNCHANGED <<timer, attempt, wanted>>
    BY <1>1 DEF ConnTypeOK
  <1>2. CASE ~timer /\ attempt >= MaxReattach /\ wanted' = FALSE /\ UNCHANGED <<timer, attempt>>
    BY <1>2 DEF ConnTypeOK
  <1>3. CASE ~timer /\ attempt < MaxReattach /\ timer' = TRUE /\ attempt' = attempt + 1
             /\ UNCHANGED wanted
    BY <1>3 DEF ConnTypeOK
  <1> QED
    BY <1>1, <1>2, <1>3 DEF ScheduleReattach

LEMMA OpenStep == ConnInv /\ Open => ConnInv'
  <1> SUFFICES ASSUME ConnInv, Open PROVE ConnInv'
    OBVIOUS
  <1>1. CASE Opening
    BY <1>1 DEF Open, ConnInv, ConnTypeOK, CurrentIsOpen, ClosedHasNoClient
  <1>2. CASE ~Opening
    <2>1. opener' \in [Generations -> {"none", "caller", "timer"}]
      BY <1>2 DEF Open, ConnInv, ConnTypeOK
    <2> QED
      BY <1>2, <2>1 DEF Open, ConnInv, ConnTypeOK, CurrentIsOpen, ClosedHasNoClient
  <1> QED
    BY <1>1, <1>2

LEMMA TimerFiresStep == ConnInv /\ TimerFires => ConnInv'
  <1> SUFFICES ASSUME ConnInv, TimerFires PROVE ConnInv'
    OBVIOUS
  <1>1. opener' \in [Generations -> {"none", "caller", "timer"}]
    BY DEF TimerFires, ConnInv, ConnTypeOK
  <1> QED
    BY <1>1 DEF TimerFires, ConnInv, ConnTypeOK, CurrentIsOpen, ClosedHasNoClient

LEMMA OpenerOkStep ==
    ASSUME ConnInv, NEW g \in Generations, NEW c \in Link, OpenerOk(g, c)
    PROVE  ConnInv'
  <1>1. opener' \in [Generations -> {"none", "caller", "timer"}]
    BY DEF OpenerOk, ConnInv, ConnTypeOK
  <1>2. CASE Stale(g)
    <2>1. link' = [link EXCEPT ![c] = "ended"] /\ link[c] = "free" /\ client' = client
          /\ epoch' = epoch /\ attempt' = attempt
      BY <1>2 DEF OpenerOk
    <2>2. link' \in [Link -> {"free", "open", "ended"}]
      BY <2>1 DEF ConnInv, ConnTypeOK
    <2>3. CurrentIsOpen'
      BY <2>1 DEF ConnInv, ConnTypeOK, CurrentIsOpen
    <2> QED
      BY <1>1, <2>1, <2>2, <2>3 DEF OpenerOk, ConnInv, ConnTypeOK, ClosedHasNoClient
  <1>3. CASE ~Stale(g)
    <2>1. link' = [link EXCEPT ![c] = "open"] /\ client' = c /\ epoch' = epoch + 1
          /\ attempt' = 0 /\ ~closed
      BY <1>3 DEF OpenerOk, Stale
    <2>2. link' \in [Link -> {"free", "open", "ended"}] /\ link'[c] = "open"
      BY <2>1 DEF ConnInv, ConnTypeOK
    <2>3. attempt' \in 0 .. MaxReattach /\ epoch' \in Nat
      BY <2>1 DEF ConnInv, ConnTypeOK
    <2> QED
      BY <1>1, <2>1, <2>2, <2>3 DEF OpenerOk, ConnInv, ConnTypeOK, CurrentIsOpen, ClosedHasNoClient
  <1> QED
    BY <1>2, <1>3

LEMMA OpenerFailStep ==
    ASSUME ConnInv, NEW g \in Generations, OpenerFail(g)
    PROVE  ConnInv'
  <1>1. opener' \in [Generations -> {"none", "caller", "timer"}]
    BY DEF OpenerFail, ConnInv, ConnTypeOK
  <1>2. timer' \in BOOLEAN /\ attempt' \in 0 .. MaxReattach /\ wanted' \in BOOLEAN
    BY ConnScheduleLemma DEF OpenerFail, ConnInv, ConnTypeOK
  <1> QED
    BY <1>1, <1>2 DEF OpenerFail, ConnInv, ConnTypeOK, CurrentIsOpen, ClosedHasNoClient

LEMMA ClientEndsStep ==
    ASSUME ConnInv, NEW c \in Link, ClientEnds(c)
    PROVE  ConnInv'
  <1>1. link' = [link EXCEPT ![c] = "ended"] /\ client' = IF client = c THEN NoLink ELSE client
    BY DEF ClientEnds
  <1>2. link' \in [Link -> {"free", "open", "ended"}]
    BY <1>1 DEF ConnInv, ConnTypeOK
  <1>3. timer' \in BOOLEAN /\ attempt' \in 0 .. MaxReattach /\ wanted' \in BOOLEAN
    BY ConnScheduleLemma DEF ClientEnds, ConnInv, ConnTypeOK
  <1>4. CurrentIsOpen' /\ ClosedHasNoClient'
    BY <1>1 DEF ClientEnds, ConnInv, ConnTypeOK, CurrentIsOpen, ClosedHasNoClient
  <1> QED
    BY <1>1, <1>2, <1>3, <1>4 DEF ClientEnds, ConnInv, ConnTypeOK

LEMMA CloseStep == ConnInv /\ Close => ConnInv'
  <1> SUFFICES ASSUME ConnInv, Close PROVE ConnInv'
    OBVIOUS
  <1>1. link' \in [Link -> {"free", "open", "ended"}] /\ generation' \in Generations
    BY DEF Close, ConnInv, ConnTypeOK
  <1> QED
    BY <1>1 DEF Close, ConnInv, ConnTypeOK, CurrentIsOpen, ClosedHasNoClient

LEMMA ConnNextStep == ConnInv /\ [ConnNext]_connVars => ConnInv'
  <1> SUFFICES ASSUME ConnInv, [ConnNext]_connVars PROVE ConnInv'
    OBVIOUS
  <1>1. CASE UNCHANGED connVars
    BY <1>1 DEF connVars, ConnInv, ConnTypeOK, CurrentIsOpen, ClosedHasNoClient
  <1>2. ASSUME NEW c \in Link, SessionStolen(c) PROVE ConnInv'
    BY <1>2 DEF SessionStolen, ConnInv, ConnTypeOK, CurrentIsOpen, ClosedHasNoClient
  <1> QED
    BY <1>1, <1>2, OpenStep, CloseStep, TimerFiresStep, OpenerOkStep, OpenerFailStep,
       ClientEndsStep DEF ConnNext, OpenerSettles

\* The inductive invariant: types, attempts within the backoff table, an open
\* current client, none when closed.
THEOREM ConnInvariance == ConnSpec => []ConnInv
  BY ConnInitStep, ConnNextStep, PTL DEF ConnSpec

\* current() never returns a client whose channel is gone.
THEOREM CurrentIsOpenAlways == ConnSpec => []CurrentIsOpen
  <1>1. ConnInv => CurrentIsOpen
    BY DEF ConnInv
  <1> QED
    BY <1>1, ConnInvariance, PTL

\* A closed manager has no client, whatever its openers and timer do.
THEOREM ClosedHasNoClientAlways == ConnSpec => []ClosedHasNoClient
  <1>1. ConnInv => ClosedHasNoClient
    BY DEF ConnInv
  <1> QED
    BY <1>1, ConnInvariance, PTL

\* An opener that close() overtook never installs its client.
THEOREM NoStaleInstallAlways == ConnSpec => NoStaleInstall
  <1> DEFINE A == client' \notin {client, NoLink} =>
                    \E g \in Generations :
                        g = generation /\ opener[g] # "none" /\ opener'[g] = "none"
  <1>1. ASSUME ConnInv, [ConnNext]_connVars PROVE [A]_connVars
    <2>1. ASSUME NEW g \in Generations, NEW c \in Link, OpenerOk(g, c) PROVE A
      <3>1. opener[g] # "none" /\ opener'[g] = "none"
        BY <1>1, <2>1 DEF OpenerOk, ConnInv, ConnTypeOK
      <3>2. Stale(g) => client' = client
        BY <2>1 DEF OpenerOk
      <3> QED
        BY <3>1, <3>2 DEF Stale
    <2>2. CASE \/ Open \/ Close \/ TimerFires
               \/ \E g \in Generations : OpenerFail(g)
               \/ \E c \in Link : ClientEnds(c) \/ SessionStolen(c)
      BY <2>2 DEF Open, Close, TimerFires, OpenerFail, ClientEnds, SessionStolen
    <2>3. CASE UNCHANGED connVars
      BY <2>3
    <2> QED
      BY <1>1, <2>1, <2>2, <2>3 DEF ConnNext, OpenerSettles
  <1> QED
    BY <1>1, ConnInvariance, PTL DEF ConnSpec, NoStaleInstall
=============================================================================
