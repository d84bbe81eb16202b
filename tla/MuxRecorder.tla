---------------------------- MODULE MuxRecorder ----------------------------
(***************************************************************************)
(* What of a pane outlives its daemon.  One PTY and everything its output  *)
(* goes through in cockpit-mux/daemon: Pipeline.Pump feeds the shadow, the *)
(* primary mirror and the HistoryArchive, numbers the chunk for the live   *)
(* clients and hands it to the Recorder, which keeps keyframes and raw     *)
(* tails in persistence.Store for the daemon that starts after a crash.    *)
(*                                                                         *)
(* The chunks the shell writes are 1, 2, ...; since they reach a terminal  *)
(* in order, a snapshot is the number of the last chunk in it.  Every      *)
(* chunk is one line of text and one unit of the size limits.  A crash     *)
(* needs no action: the properties speak of what a recovery would load     *)
(* from the store of any state.                                            *)
(*                                                                         *)
(* Three goroutines share the recorder: the pump (pipeline.mu), the        *)
(* flushLoop of each daemon and mux.configure (operations.mu), with        *)
(* recorder.mu around each call.  After a handoff the replacement records  *)
(* into the same store while the recorder of the old daemon still ticks.   *)
(***************************************************************************)
EXTENDS Integers, Sequences, FiniteSets, SequencesExt

CONSTANTS MaxOut,     \* chunks the shell writes
          FlushAt,    \* pending chunks that are flushed at once (64 KiB)
          Cap,        \* tail that asks for a keyframe (DefaultTailCap)
          HardCap,    \* tail that forces one (cap * 4)
          StoreCap,   \* tail the store accepts (DefaultTailCap * 4)
          Keep,       \* lines of live scrollback
          Batch,      \* lines of an archive batch (TargetBatchBytes)
          Mirror,     \* TRUE: the pane mirrors to the legacy record
          MaxFault,   \* failed transactions
          MaxSwitch,  \* changes of the persistence policy
          Mishaps     \* TRUE: a policy change may meet output half way or
                      \* fail in the recorder, a handoff unflushed output

ASSUME SizesAssumption ==
    /\ {MaxOut, FlushAt, Cap, HardCap, StoreCap, Keep, Batch} \subseteq Nat \ {0}
    /\ Cap <= HardCap /\ HardCap <= StoreCap
    /\ {MaxFault, MaxSwitch} \subseteq Nat

ASSUME FlagsAssumption == {Mirror, Mishaps} \subseteq BOOLEAN

(* the recovery records, in the order a recorder writes them *)
Order   == IF Mirror THEN <<"legacy", "catalog">> ELSE <<"catalog">>
Stores  == IF Mirror THEN {"legacy", "catalog"} ELSE {"catalog"}
Daemons == {"old", "new"}

VARIABLES fed,       \* chunks in the shadow
          mirrored,  \* chunks in the primary mirror
          ground,    \* chunks after which the parser was grounded
          base,      \* chunks fed before the stream of this daemon began
          seq,       \* Stream.sequence
          seed,      \* the last seed handed out, or NoSeed
          pump,      \* the reader of the PTY
          own,       \* the daemon that reads the PTY
          recording, \* this daemon has a recorder
          persist,   \* recorder.persistContent
          pending,   \* Daemons -> recorder.pending
          tailSize,  \* recorder.tailSize
          kf,        \* Stores -> the keyframe, or NoFrame
          tail,      \* Stores -> the tail after it
          rows,      \* the pane's lines in history.db
          lines,     \* archive.pending
          next,      \* archive.next
          seen,      \* mirrored at the tracker's last Collect, 0 for none
          archiving, \* archive.enabled
          policy,    \* operations.persistScrollback
          cfg,       \* where mux.configure is
          snap,      \* the shadow it has snapshotted
          said,      \* the policy of its last successful answer
          switches, faults

terminal == <<fed, mirrored, ground, base, seq>>
recorder == <<recording, persist, pending, tailSize>>
store    == <<kf, tail>>
archive  == <<rows, lines, next, seen, archiving>>
config   == <<policy, cfg, snap, said, switches>>
vars     == <<terminal, seed, pump, own, recorder, store, archive, config, faults>>

NoFrame == [shadow |-> 0, primary |-> 0, boundary |-> "none"]
Frame(shadow, primary, boundary) ==
    [shadow |-> shadow, primary |-> primary, boundary |-> boundary]
(* snapshotForPersistence: the snapshot of an empty terminal *)
Blank   == Frame(0, 0, "grounded")
NoSeed  == [shadow |-> 0, resume |-> 0]

(* the reader is gone, and flushLoop with it (attachment.done) *)
Stopped == {"ended", "flushed", "finalized", "closing", "closed"}

Chunk(q, n) == [seq |-> q, chunk |-> n]
Max0(n) == IF n > 0 THEN n ELSE 0

-----------------------------------------------------------------------------
(***************************************************************************)
(* persistence.Store: every call is one transaction                        *)
(***************************************************************************)

\* Mutant: a keyframe leaves the tail before it.
SavesOnly(S, k) ==
    /\ kf' = [s \in Stores |-> IF s \in S THEN k ELSE kf[s]]
    /\ UNCHANGED tail
(* SaveKeyframe, SavePaneKeyframe: the keyframe replaces the tail *)
SaveKeyframe(S, k) ==
    /\ kf' = [s \in Stores |-> IF s \in S THEN k ELSE kf[s]]
    /\ tail' = [s \in Stores |-> IF s \in S THEN << >> ELSE tail[s]]

(* AppendBatch, AppendPaneBatch: within the cap and after what is there *)
Accepts(s, batch) ==
    /\ Len(tail[s]) + Len(batch) <= StoreCap
    /\ tail[s] # << >> => Head(batch).seq > Last(tail[s]).seq

AppendBatch(S, batch) ==
    tail' = [s \in Stores |-> IF s \in S THEN tail[s] \o batch ELSE tail[s]]

(* A recorder writes the records in Order and stops at the first error;    *)
(* S are those it has written.                                             *)
Progress == {{Order[i] : i \in 1..n} : n \in 0..Len(Order)}
NextStore(S) == Order[Cardinality(S) + 1]
Fails == /\ faults < MaxFault
         /\ faults' = faults + 1

SavesAll == UNCHANGED faults
Saved(S) == IF S = Stores THEN SavesAll ELSE Fails
Appended(S, batch) ==
    /\ \A s \in S : Accepts(s, batch)
    /\ IF S = Stores \/ ~Accepts(NextStore(S), batch) THEN UNCHANGED faults ELSE Fails

-----------------------------------------------------------------------------
Init ==
    /\ fed = 0 /\ mirrored = 0 /\ ground = {0}
    /\ base = 0 /\ seq = 0 /\ seed = NoSeed
    /\ pump = "reading" /\ own = "old"
    /\ policy \in BOOLEAN
    /\ recording = TRUE /\ persist = policy
    /\ pending = [d \in Daemons |-> << >>] /\ tailSize = 0
    /\ kf = [s \in Stores |-> Blank] /\ tail = [s \in Stores |-> << >>]
    /\ rows = << >> /\ lines = << >> /\ next = 0 /\ seen = 0 /\ archiving = policy
    /\ cfg = "idle" /\ snap = 0 /\ said = policy /\ switches = 0
    /\ faults = 0

-----------------------------------------------------------------------------
(***************************************************************************)
(* The pump                                                                *)
(***************************************************************************)
\* recorder.mu is held from the first snapshot of a keyframe to its end
RecorderFree == cfg # "snapshot"
\* Mutant: nobody waits for the chunk under way.
AlwaysFree == TRUE
\* pipeline.mu is held while a chunk is on its way
PipelineFree == pump \notin {"fed", "mirrored"}

(* Shadow.Feed; the parser is grounded after the chunk or it is not *)
PumpFeeds ==
    /\ pump = "reading"
    /\ fed < MaxOut
    /\ Mishaps \/ cfg = "idle"
    /\ fed' = fed + 1
    /\ \E g \in {ground, ground \union {fed + 1}} : ground' = g
    /\ pump' = "fed"
    /\ UNCHANGED <<mirrored, base, seq, seed, own, recorder, store, archive, config, faults>>

(***************************************************************************)
(* HistoryArchive.  The tracker holds the lines that were resident at its  *)
(* last Collect; one that has left the live scrollback since is archived.  *)
(***************************************************************************)
Tracked == (Max0(seen - Keep) + 1)..seen
Evicted(n) == IF n - Keep \in Tracked THEN <<n - Keep>> ELSE << >>
Rows(from, ls) == [i \in DOMAIN ls |-> [no |-> from + i - 1, line |-> ls[i]]]
(* history.Store.Append: the ranges of a pane must be contiguous *)
Continues == rows # << >> => next = Last(rows).no + 1

FlushArchive(ls) ==
    \/ /\ ls = << >>
       /\ lines' = ls /\ UNCHANGED <<rows, next, faults>>
    \/ /\ ls # << >> /\ Continues
       /\ rows' = rows \o Rows(next, ls)
       /\ next' = next + Len(ls)
       /\ lines' = << >>
       /\ UNCHANGED faults
ArchiveFails(ls) ==
    /\ ls # << >>
    /\ lines' = ls
    /\ IF Continues THEN Fails ELSE UNCHANGED faults
    /\ UNCHANGED <<rows, next>>

(* The primary mirror, and archive.Record after it; an error ends the pump *)
PumpMirrors ==
    /\ pump = "fed"
    /\ mirrored' = fed
    /\ IF ~archiving
       THEN /\ pump' = "mirrored"
            /\ UNCHANGED <<archive, faults>>
       ELSE LET ls == lines \o Evicted(fed)
            IN  /\ seen' = fed
                /\ \/ /\ Len(ls) < Batch \/ Evicted(fed) = << >>
                      /\ lines' = ls
                      /\ pump' = "mirrored"
                      /\ UNCHANGED <<rows, next, faults>>
                   \/ /\ Len(ls) >= Batch /\ Evicted(fed) # << >>
                      /\ \/ FlushArchive(ls) /\ pump' = "mirrored"
                         \/ ArchiveFails(ls) /\ pump' = "ending"
                /\ UNCHANGED archiving
    /\ UNCHANGED <<fed, ground, base, seq, seed, own, recorder, store, config>>

(* flushLoop: two quiet seconds *)
FlushIdle ==
    /\ lines # << >> /\ pump \notin Stopped
    /\ FlushArchive(lines) \/ ArchiveFails(lines)
    /\ UNCHANGED <<terminal, seed, pump, own, recorder, store, seen, archiving, config>>

-----------------------------------------------------------------------------
(***************************************************************************)
(* Recorder                                                                *)
(***************************************************************************)
Own == pending[own]
\* Mutant: a keyframe leaves what is pending.
ForgetsSize == tailSize' = 0 /\ UNCHANGED pending
Forget == /\ pending' = [pending EXCEPT ![own] = << >>]
          /\ tailSize' = 0

(* keyframe: the snapshots make the tail and what is pending superfluous *)
Keyframe(S, k) ==
    /\ SaveKeyframe(S, k)
    /\ Saved(S)
    /\ IF S = Stores THEN Forget ELSE UNCHANGED <<pending, tailSize>>

\* Mutant: what has been flushed stays pending.
KeepsFlushed(d, S, batch) ==
    /\ AppendBatch(S, batch)
    /\ Appended(S, batch)
    /\ pending' = [pending EXCEPT ![d] = batch]
    /\ tailSize' = IF S = Stores /\ d = own THEN tailSize + Len(batch) ELSE tailSize
(* flushLocked: the batch goes to every record, or stays pending *)
FlushLocked(d, S, batch) ==
    /\ AppendBatch(S, batch)
    /\ Appended(S, batch)
    /\ pending' = [pending EXCEPT ![d] = IF S = Stores THEN << >> ELSE batch]
    /\ tailSize' = IF S = Stores /\ d = own THEN tailSize + Len(batch) ELSE tailSize

NextSize == tailSize + Len(Own) + 1
Grounded == fed \in ground

(* nextSize: a keyframe at the cap if the parser is grounded, at the hard  *)
(* cap in any case                                                         *)
Boundary == IF NextSize >= Cap /\ Grounded THEN "grounded"
            ELSE IF NextSize >= HardCap THEN "forced" ELSE "none"

(* Stream.Append numbers the chunk, recordFedLocked records it; an error   *)
(* ends the pump                                                           *)
PumpRecords ==
    /\ pump = "mirrored"
    /\ RecorderFree
    /\ seq' = seq + 1
    /\ \/ /\ ~(recording /\ persist)
          /\ pump' = "reading"
          /\ UNCHANGED <<pending, tailSize, store, faults>>
       \/ /\ recording /\ persist /\ Boundary # "none"
          /\ \E S \in Progress :
                /\ Keyframe(S, Frame(fed, mirrored, Boundary))
                /\ pump' = IF S = Stores THEN "reading" ELSE "ending"
       \/ /\ recording /\ persist /\ Boundary = "none"
          /\ LET batch == Append(Own, Chunk(seq + 1, fed))
             IN  \/ /\ Len(batch) < FlushAt
                    /\ pending' = [pending EXCEPT ![own] = batch]
                    /\ pump' = "reading"
                    /\ UNCHANGED <<tailSize, store, faults>>
                 \/ /\ Len(batch) >= FlushAt
                    /\ \E S \in Progress :
                          /\ FlushLocked(own, S, batch)
                          /\ pump' = IF S = Stores THEN "reading" ELSE "ending"
                    /\ UNCHANGED kf
    /\ UNCHANGED <<fed, mirrored, ground, base, seed, own, recording, persist, archive, config>>

\* Mutant: nothing is flushed before the threshold.
FlushesWhenFull(d) ==
    /\ d = own => RecorderFree /\ pump \notin Stopped
    /\ Len(pending[d]) >= FlushAt
    /\ \E S \in Progress : FlushLocked(d, S, pending[d])
    /\ UNCHANGED <<terminal, seed, pump, own, recording, persist, kf, archive, config>>
(* flushLoop of either daemon, every 100 ms; an error changes nothing.     *)
(* The old daemon goes on ticking until its process ends.                  *)
Flush(d) ==
    /\ d = own => RecorderFree /\ pump \notin Stopped
    /\ pending[d] # << >>
    /\ \E S \in Progress : FlushLocked(d, S, pending[d])
    /\ UNCHANGED <<terminal, seed, pump, own, recording, persist, kf, archive, config>>

-----------------------------------------------------------------------------
(***************************************************************************)
(* The end of an attachment: the pump's deferred flushes, Finalize, Close  *)
(***************************************************************************)
(* stopPump; the reader returns between two chunks *)
StopPump ==
    /\ pump = "reading" /\ cfg = "idle"
    /\ pump' = "ending"
    /\ UNCHANGED <<terminal, seed, own, recorder, store, archive, config, faults>>

EndFlush(from, to, onError) ==
    /\ pump = from /\ RecorderFree
    /\ \/ /\ Own = << >>
          /\ pump' = to
          /\ UNCHANGED <<pending, tailSize, tail, faults>>
       \/ /\ Own # << >>
          /\ \E S \in Progress :
                /\ FlushLocked(own, S, Own)
                /\ pump' = IF S = Stores THEN to ELSE onError
    /\ UNCHANGED <<terminal, seed, own, recording, persist, kf, archive, config>>

EndArchive(from, to) ==
    /\ pump = from
    /\ pump' = to
    /\ FlushArchive(lines) \/ ArchiveFails(lines)
    /\ UNCHANGED <<terminal, seed, own, recorder, store, seen, archiving, config>>

(* the errors of the deferred flushes are dropped, done is closed last     *)
PumpFlushes == EndFlush("ending", "draining", "draining")
PumpEnds    == EndArchive("draining", "ended")

(* Finalize: what is pending first, then the last keyframe                 *)
FinalizeFlushes == cfg = "idle" /\ EndFlush("ended", "flushed", "finalized")

FinalBoundary == IF Grounded THEN "grounded" ELSE "forced"
FinalizeSaves ==
    /\ pump = "flushed"
    /\ pump' = "finalized"
    /\ IF ~recording THEN UNCHANGED <<pending, tailSize, store, faults>>
       ELSE LET k == IF persist THEN Frame(fed, mirrored, FinalBoundary)
                     ELSE Frame(0, 0, FinalBoundary)
            IN  \E S \in Progress : Keyframe(S, k)
    /\ UNCHANGED <<terminal, seed, own, recording, persist, archive, config>>

(* Close; a pane that does not drain in two seconds, or that is destroyed, *)
(* is closed without Finalize                                              *)
CloseFlushes  == cfg = "idle" /\ \E from \in {"ended", "finalized"} :
                                    EndFlush(from, "closing", "closing")
CloseArchives == EndArchive("closing", "closed")

-----------------------------------------------------------------------------
(***************************************************************************)
(* mux.configure, under operations.mu throughout                           *)
(***************************************************************************)
Usable == pump \notin {"paused", "flushed", "finalized", "closing", "closed"}

(* The same policy again is answered without looking at the recorders      *)
ConfigureSame ==
    /\ cfg = "idle" /\ Usable
    /\ said' = policy
    /\ UNCHANGED <<terminal, seed, pump, own, recorder, store, archive, policy, cfg, snap,
                   switches, faults>>

Switching == /\ cfg = "idle" /\ Usable
             /\ switches < MaxSwitch
             /\ switches' = switches + 1
             /\ Mishaps \/ (PipelineFree /\ Grounded)

(* Off: both databases are erased before any recorder hears of it; an      *)
(* error on the way leaves the policy as it was                            *)
ConfigureErases ==
    /\ Switching /\ policy
    /\ rows' = << >>
    /\ \/ /\ SaveKeyframe(Stores, NoFrame)
          /\ policy' = FALSE /\ cfg' = "recorder"
          /\ UNCHANGED faults
       \/ /\ Fails
          /\ SaveKeyframe(Stores, NoFrame) \/ UNCHANGED store
          /\ UNCHANGED <<policy, cfg>>
    /\ UNCHANGED <<terminal, seed, pump, own, recorder, lines, next, seen, archiving, snap, said>>

ConfigureOn ==
    /\ Switching /\ ~policy
    /\ policy' = TRUE /\ cfg' = "recorder"
    /\ UNCHANGED <<terminal, seed, pump, own, recorder, store, archive, snap, said, faults>>

(* recorder.SetPersistScrollback, to the snapshot of the shadow *)
SetPersistScrollback ==
    /\ cfg = "recorder"
    /\ IF ~recording \/ persist = policy
       THEN /\ cfg' = "archive"
            /\ UNCHANGED <<persist, snap>>
       ELSE /\ cfg' = "snapshot"
            /\ persist' = policy
            /\ snap' = IF policy THEN fed ELSE 0
    /\ UNCHANGED <<terminal, seed, pump, own, recording, pending, tailSize, store, archive,
                   policy, said, switches, faults>>

(* ... from the snapshot of the primary mirror to the end of the keyframe, *)
(* which calls itself grounded                                             *)
SavesSnapshot ==
    /\ cfg = "snapshot"
    /\ \E S \in Progress :
          /\ Mishaps \/ S = Stores
          /\ Keyframe(S, Frame(snap, IF policy THEN mirrored ELSE 0, "grounded"))
          /\ cfg' = IF S = Stores THEN "archive" ELSE "idle"
    /\ UNCHANGED <<terminal, seed, pump, own, recording, persist, archive, policy, snap, said,
                   switches>>

(* archive.SetEnabled: a new tracker; what was pending is forgotten        *)
SetEnabled ==
    /\ cfg = "archive"
    /\ cfg' = "idle" /\ said' = policy
    /\ IF recording /\ archiving # policy
       THEN /\ archiving' = policy
            /\ lines' = << >>
            /\ seen' = IF policy THEN mirrored ELSE 0
       ELSE UNCHANGED <<archiving, lines, seen>>
    /\ UNCHANGED <<terminal, seed, pump, own, recorder, store, rows, next, policy, snap,
                   switches, faults>>

-----------------------------------------------------------------------------
(***************************************************************************)
(* Attach and handoff                                                      *)
(***************************************************************************)
(* Pipeline.Attach: the seed and the sequence number to resume at          *)
Attach ==
    /\ PipelineFree /\ pump \notin {"closing", "closed"}
    /\ seed' = [shadow |-> fed, resume |-> seq + 1]
    /\ UNCHANGED <<terminal, pump, own, recorder, store, archive, config, faults>>

(* pauseIfGrounded, and the release that wakes the reader again *)
Pause ==
    /\ pump = "reading" /\ own = "old" /\ cfg = "idle" /\ Grounded
    /\ pump' = "paused"
    /\ UNCHANGED <<terminal, seed, own, recorder, store, archive, config, faults>>
Release ==
    /\ pump = "paused"
    /\ pump' = "reading"
    /\ UNCHANGED <<terminal, seed, own, recorder, store, archive, config, faults>>

NextLine == IF rows = << >> THEN 0 ELSE Last(rows).no + 1

(* The replacement's EnablePersistence, after its ACK, and Start.  Its     *)
(* stream counts from 1 again; a failure leaves it without a recorder.     *)
EnablePersistence ==
    /\ pump = "paused" /\ own = "old"
    /\ Mishaps \/ Own = << >>
    /\ own' = "new" /\ pump' = "reading"
    /\ base' = fed /\ seq' = 0 /\ seed' = NoSeed
    /\ tailSize' = 0
    /\ \E S \in Progress :
          /\ SaveKeyframe(S, IF policy THEN Frame(fed, mirrored, "grounded") ELSE Blank)
          /\ \/ S = Stores /\ SavesAll /\ recording' = TRUE
             \/ Fails /\ recording' = FALSE
    /\ persist' = policy
    /\ archiving' = (recording' /\ policy)
    /\ lines' = << >> /\ next' = NextLine
    /\ seen' = IF archiving' THEN mirrored ELSE 0
    /\ UNCHANGED <<fed, mirrored, ground, pending, rows, config>>

-----------------------------------------------------------------------------
Pumping == PumpFeeds \/ PumpMirrors \/ PumpRecords \/ PumpFlushes \/ PumpEnds
Configuring == SetPersistScrollback \/ SavesSnapshot \/ SetEnabled
Ending == StopPump \/ FinalizeFlushes \/ FinalizeSaves \/ CloseFlushes \/ CloseArchives

Next ==
    \/ Pumping \/ Configuring \/ Ending \/ FlushIdle
    \/ \E d \in Daemons : Flush(d)
    \/ ConfigureSame \/ ConfigureErases \/ ConfigureOn
    \/ Attach \/ Pause \/ Release \/ EnablePersistence

(* The pump and mux.configure run to their end, and the ticker goes on.    *)
Spec == Init /\ [][Next]_vars
             /\ WF_vars(Pumping) /\ WF_vars(Configuring) /\ WF_vars(Flush(own))

-----------------------------------------------------------------------------
(***************************************************************************)
(* Properties                                                              *)
(***************************************************************************)
Stages == {"reading", "fed", "mirrored", "paused", "ending", "draining", "ended", "flushed",
           "finalized", "closing", "closed"}
Chunks == [seq : Nat, chunk : Nat]

TypeOK ==
    /\ fed \in Nat /\ mirrored \in Nat /\ base \in Nat /\ seq \in Nat
    /\ tailSize \in Nat /\ next \in Nat /\ seen \in Nat
    /\ snap \in Nat /\ switches \in Nat /\ faults \in Nat
    /\ ground \subseteq Nat
    /\ seed \in [shadow : Nat, resume : Nat]
    /\ pump \in Stages
    /\ own \in Daemons
    /\ recording \in BOOLEAN /\ persist \in BOOLEAN /\ archiving \in BOOLEAN
    /\ policy \in BOOLEAN /\ said \in BOOLEAN
    /\ pending \in [Daemons -> Seq(Chunks)]
    /\ kf \in [Stores -> [shadow : Nat, primary : Nat, boundary : {"none", "grounded", "forced"}]]
    /\ tail \in [Stores -> Seq(Chunks)]
    /\ rows \in Seq([no : Nat, line : Nat])
    /\ lines \in Seq(Nat)
    /\ cfg \in {"idle", "recorder", "snapshot", "archive"}

(* What a crash leaves of a pane is an unbroken beginning of its output,   *)
(* each chunk once and in order, with the same text on the primary screen, *)
(* and the parser was grounded where the tail begins (loadRecoveredCatalog *)
(* feeds the tail to the restored snapshots).                              *)
RecoveredIsPrefix ==
    \A s \in Stores : kf[s].boundary = "grounded" =>
        /\ kf[s].primary = kf[s].shadow
        /\ kf[s].shadow \in ground
        /\ \A i \in DOMAIN tail[s] : tail[s][i].chunk = kf[s].shadow + i
        /\ kf[s].shadow + Len(tail[s]) <= fed

(* The store never refuses what a recorder has pending, neither for its    *)
(* size nor for a sequence number that does not grow (AppendPaneBatch): a  *)
(* refused batch would end the pump, for good.                             *)
StoreAccepts == \A s \in Stores : Own # << >> => Accepts(s, Own)

(* Once mux.configure has answered that persistence is off, the recovery   *)
(* records hold no text and none is on its way to them.                    *)
ErasedWhenOff ==
    ~said /\ cfg = "idle" =>
        \A s \in Stores : kf[s].shadow = 0 /\ tail[s] = << >> /\ Own = << >>

(* A client that shows the seed and then every output from resume_sequence *)
(* on sees each chunk once (Stream.SnapshotWithGraphics, OutputsFrom).     *)
SeedBarrier ==
    seed # NoSeed =>
        /\ base + seed.resume - 1 <= seed.shadow
        /\ seq >= seed.resume => seed.shadow < base + seed.resume

(* Output that a client may have seen reaches the recovery record, unless  *)
(* the record is not recoverable, the policy is off or the reader is gone. *)
Durable(n) == \A s \in Stores : kf[s].boundary = "grounded" => kf[s].shadow + Len(tail[s]) >= n
BecomesDurable ==
    \A n \in 1..MaxOut :
        (base + seq >= n) ~> (Durable(n) \/ ~persist \/ ~recording \/ pump \in Stopped)

(* "That guarantees a preference change never leaves earlier terminal text *)
(* in the private database" (configure, operations.go:1442).               *)
DisabledLeavesNothing ==
    ~said /\ cfg = "idle" =>
        /\ \A s \in Stores : kf[s].shadow = 0 /\ tail[s] = << >>
        /\ rows = << >>

(***************************************************************************)
(* The inductive invariant, for a recorder whose writes are all or nothing *)
(***************************************************************************)
AllOrNothing == ~Mishaps /\ (Mirror => MaxFault = 0)

Reading == pump \in {"reading", "fed", "mirrored", "paused"}

(* how far a chunk has come says where the pump is *)
ChunkUnderWay ==
    /\ mirrored = IF pump = "fed" THEN fed - 1 ELSE fed
    /\ base + seq \in {fed - 1, fed}
    /\ pump \in {"reading", "paused"} => base + seq = fed
    /\ pump \in {"fed", "mirrored"} => base + seq = fed - 1
    /\ fed - 1 <= base + seq

(* mux.configure meets a quiet pane, and recorders follow the policy *)
PolicyFollowed ==
    /\ cfg # "idle" => PipelineFree /\ pump \in {"reading", "ending", "draining", "ended"}
    /\ cfg # "idle" => Grounded
    /\ cfg = "recorder" /\ recording => persist # policy
    /\ cfg = "recorder" /\ ~recording /\ ~policy =>
           \A s \in Stores : kf[s].shadow = 0 /\ tail[s] = << >>
    /\ cfg = "snapshot" => recording /\ snap = IF policy THEN fed ELSE 0
    /\ cfg = "idle" => said = policy
    /\ recording /\ cfg # "recorder" => persist = policy
    /\ ~recording => Own = << >>
    /\ ~policy /\ cfg \in {"idle", "archive"} =>
           \A s \in Stores : kf[s].shadow = 0 /\ tail[s] = << >> /\ Own = << >>

(* The tail and then what is pending follow the keyframe chunk by chunk,   *)
(* up to the last one numbered if the recorder is at work.                 *)
Follows(s, a) ==
    /\ kf[s].boundary # "none" => a = kf[s].shadow
    /\ \A i \in 1..Len(tail[s]) : tail[s][i].chunk = a + i
    /\ \A i \in 1..Len(Own) : Own[i].chunk = a + Len(tail[s]) + i
    /\ recording => /\ \A i \in 1..Len(tail[s]) : tail[s][i].seq + base = a + i
                    /\ \A i \in 1..Len(Own) : Own[i].seq + base = a + Len(tail[s]) + i
    /\ a + Len(tail[s]) + Len(Own) <= fed
    /\ recording /\ persist /\ Reading /\ cfg \in {"idle", "archive"} =>
           a + Len(tail[s]) + Len(Own) = base + seq
TailFollows == \A s \in Stores : \E a \in 0..fed : Follows(s, a)

FramesAgree ==
    /\ 0 \in ground
    /\ pump = "paused" => Grounded
    /\ \A s \in Stores : kf[s].boundary = "grounded" =>
           kf[s].primary = kf[s].shadow /\ kf[s].shadow \in ground

(* tailSize is never behind, so that a keyframe comes before the cap       *)
WithinCap ==
    /\ \A s \in Stores : recording => Len(tail[s]) <= tailSize
    /\ recording => tailSize + Len(Own) < HardCap
    /\ own = "old" => pending["new"] = << >>
    /\ own = "new" => pending["old"] = << >>

(* The archive numbers its lines without a gap and never stores one twice: *)
(* lines are evicted in order, and those pending follow those stored.      *)
Archived(rs, ls, n) ==
    /\ \A i \in 1..(Len(rs) - 1) : rs[i + 1].no = rs[i].no + 1
    /\ \A i, j \in 1..Len(rs) : i < j => rs[i].line < rs[j].line
    /\ \A i, j \in 1..Len(ls) : i < j => ls[i] < ls[j]
    /\ \A i \in 1..Len(rs), j \in 1..Len(ls) : rs[i].line < ls[j]
    /\ \A i \in 1..Len(rs) : rs[i].line + Keep <= n
    /\ \A j \in 1..Len(ls) : ls[j] + Keep <= n
HistoryOrdered ==
    /\ archiving => seen = mirrored
    /\ Archived(rows, lines, mirrored)

(* a seed is no older than the chunk it is resumed at *)
SeedCurrent ==
    seed # NoSeed =>
        /\ seed.resume \in 1..(seq + 1)
        /\ base + seed.resume - 1 <= seed.shadow
        /\ seq >= seed.resume => seed.shadow < base + seed.resume
        /\ Reading /\ seed.resume = seq + 1 => seed.shadow <= base + seq

IInv == /\ TypeOK /\ ChunkUnderWay /\ PolicyFollowed /\ TailFollows
        /\ FramesAgree /\ WithinCap /\ HistoryOrdered /\ SeedCurrent
=============================================================================
