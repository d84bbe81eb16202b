------------------------- MODULE MuxRecorderProofs -------------------------
(***************************************************************************)
(* Proofs about MuxRecorder: whatever the output, the limits and the       *)
(* number of policy changes, what a crash recovers of a pane is a          *)
(* beginning of its output and the store takes what is pending - as long   *)
(* as a recorder's writes are all or nothing (AllOrNothing).               *)
(***************************************************************************)
EXTENDS MuxRecorder, FiniteSetTheorems, TLAPS

USE SizesAssumption, FlagsAssumption

LEMMA StoreNames ==
    /\ Mirror => Stores = {"legacy", "catalog"} /\ Progress = {{}, {"legacy"}, Stores}
    /\ ~Mirror => Stores = {"catalog"} /\ Progress = {{}, Stores}
  <1>1. CASE Mirror
    <2>1. Order = <<"legacy", "catalog">> /\ Stores = {"legacy", "catalog"}
      BY <1>1 DEF Order, Stores
    <2>2. 0..Len(Order) = {0, 1, 2}
      BY <2>1
    <2>3. /\ {Order[i] : i \in 1..0} = {}
          /\ {Order[i] : i \in 1..1} = {"legacy"}
          /\ {Order[i] : i \in 1..2} = {"legacy", "catalog"}
      BY <2>1
    <2>4. Progress = {{Order[i] : i \in 1..n} : n \in {0, 1, 2}}
      BY <2>2 DEF Progress
    <2> QED
      BY <1>1, <2>1, <2>3, <2>4
  <1>2. CASE ~Mirror
    <2>1. Order = <<"catalog">> /\ Stores = {"catalog"}
      BY <1>2 DEF Order, Stores
    <2>2. 0..Len(Order) = {0, 1}
      BY <2>1
    <2>3. /\ {Order[i] : i \in 1..0} = {}
          /\ {Order[i] : i \in 1..1} = {"catalog"}
      BY <2>1
    <2>4. Progress = {{Order[i] : i \in 1..n} : n \in {0, 1}}
      BY <2>2 DEF Progress
    <2> QED
      BY <1>2, <2>1, <2>3, <2>4
  <1> QED
    BY <1>1, <1>2 DEF FlagsAssumption

\* A keyframe is written to every record or to none.
LEMMA SavedWhole ==
    ASSUME AllOrNothing, faults \in Nat, NEW S \in Progress, Saved(S)
    PROVE  S = Stores \/ S = {}
  BY StoreNames DEF AllOrNothing, Saved, Fails, SizesAssumption

\* A batch that every record accepts is appended to every record or to none.
LEMMA AppendedWhole ==
    ASSUME AllOrNothing, faults \in Nat, NEW batch, NEW S \in Progress,
           \A s \in Stores : Accepts(s, batch), Appended(S, batch)
    PROVE  S = Stores \/ S = {}
  <1>1. CASE ~Mirror
    BY <1>1, StoreNames
  <1>2. CASE Mirror /\ S # Stores
    <2>1. S \in {{}, {"legacy"}}
      BY <1>2, StoreNames
    <2>2. Cardinality(S) \in {0, 1}
      BY <2>1, FS_EmptySet, FS_Singleton
    <2>3. NextStore(S) \in Stores
      BY <1>2, <2>2 DEF NextStore, Order, Stores
    <2> QED
      BY <1>2, <2>3 DEF AllOrNothing, Appended, Fails
  <1> QED
    BY <1>1, <1>2 DEF FlagsAssumption

Row == [no : Nat, line : Nat]

\* TypeOK, in the terms of the steps.
LEMMA Types ==
    ASSUME IInv
    PROVE  /\ fed \in Nat /\ mirrored \in Nat /\ base \in Nat /\ seq \in Nat
           /\ tailSize \in Nat /\ next \in Nat /\ seen \in Nat
           /\ snap \in Nat /\ switches \in Nat /\ faults \in Nat
           /\ own \in Daemons /\ pending \in [Daemons -> Seq(Chunks)]
           /\ tail \in [Stores -> Seq(Chunks)]
           /\ Own \in Seq(Chunks) /\ Len(Own) \in Nat
           /\ \A s \in Stores : tail[s] \in Seq(Chunks) /\ Len(tail[s]) \in Nat
           /\ rows \in Seq(Row) /\ lines \in Seq(Nat)
           /\ \A i \in 1..Len(rows) : rows[i].line \in Nat
           /\ \A j \in 1..Len(lines) : lines[j] \in Nat
  <1>1. /\ own \in Daemons /\ pending \in [Daemons -> Seq(Chunks)]
        /\ tail \in [Stores -> Seq(Chunks)]
    BY DEF IInv, TypeOK
  <1>2. Own \in Seq(Chunks) /\ Len(Own) \in Nat
    BY <1>1 DEF Own
  <1>3. \A s \in Stores : tail[s] \in Seq(Chunks) /\ Len(tail[s]) \in Nat
    BY <1>1
  <1>4. rows \in Seq(Row) /\ lines \in Seq(Nat)
    BY DEF IInv, TypeOK, Row
  <1>5. \A i \in 1..Len(rows) : rows[i] \in Row
    BY <1>4
  <1>6. \A i \in 1..Len(rows) : rows[i].line \in Nat
    BY <1>5 DEF Row
  <1>7. \A j \in 1..Len(lines) : lines[j] \in Nat
    BY <1>4
  <1>8. /\ fed \in Nat /\ mirrored \in Nat /\ base \in Nat /\ seq \in Nat
        /\ tailSize \in Nat /\ next \in Nat /\ seen \in Nat
        /\ snap \in Nat /\ switches \in Nat /\ faults \in Nat
    BY DEF IInv, TypeOK
  <1> QED
    BY <1>1, <1>2, <1>3, <1>4, <1>6, <1>7, <1>8

-----------------------------------------------------------------------------
(***************************************************************************)
(* What each conjunct depends on                                           *)
(***************************************************************************)
\* What the reader may do between two chunks.
Moves ==
    \/ pump' = pump
    \/ pump = "reading" /\ pump' = "ending"
    \/ pump = "reading" /\ pump' = "paused" /\ Grounded /\ cfg = "idle"
    \/ pump = "paused" /\ pump' = "reading"
    \/ pump \in {"ending", "draining"} /\ pump' \in {"draining", "ended"}
    \/ cfg = "idle" /\ pump \in Stopped /\ pump' \in {"flushed", "finalized", "closing", "closed"}

LEMMA PumpFrame ==
    ASSUME IInv, Moves, UNCHANGED <<fed, mirrored, base, seq, seed>>
    PROVE  ChunkUnderWay' /\ SeedCurrent'
  <1>1. ChunkUnderWay'
    BY DEF IInv, ChunkUnderWay, Moves, Stopped
  <1>2. SeedCurrent'
    BY DEF IInv, SeedCurrent, Moves, Stopped, Reading, NoSeed
  <1> QED
    BY <1>1, <1>2

LEMMA FramesFrame ==
    ASSUME IInv, Moves, UNCHANGED <<fed, ground, kf>>
    PROVE  FramesAgree'
  BY DEF IInv, FramesAgree, Grounded, Moves, Stopped

LEMMA PolicyFrame ==
    ASSUME IInv, Moves,
           UNCHANGED <<fed, ground, own, recording, persist, pending, kf, tail, config>>
    PROVE  PolicyFollowed'
  <1>1. /\ cfg # "idle" => PipelineFree' /\ pump' \in {"reading", "ending", "draining", "ended"}
        /\ Grounded' = Grounded
    BY DEF IInv, PolicyFollowed, PipelineFree, Moves, Stopped, config, Grounded
  <1> QED
    BY <1>1 DEF IInv, PolicyFollowed, config, Own

LEMMA TailFrame ==
    ASSUME IInv, UNCHANGED <<fed, base, own, recording, pending, kf, tail>>,
           recording /\ persist' /\ Reading' /\ cfg' \in {"idle", "archive"}
           => persist /\ Reading /\ cfg \in {"idle", "archive"} /\ seq' = seq
    PROVE  TailFollows'
  <1> SUFFICES ASSUME NEW s \in Stores
               PROVE  \E a \in 0..fed : Follows(s, a)'
    BY DEF TailFollows
  <1>1. PICK a \in 0..fed : Follows(s, a)
    BY DEF IInv, TailFollows
  <1>2. Follows(s, a)'
    BY <1>1 DEF Follows, Own
  <1> QED
    BY <1>1, <1>2

LEMMA CapFrame ==
    ASSUME IInv, UNCHANGED <<tail, tailSize, recording, own, pending>>
    PROVE  WithinCap'
  BY DEF IInv, WithinCap, Own

LEMMA HistoryFrame ==
    ASSUME IInv, UNCHANGED <<mirrored, rows, lines, seen, archiving>>
    PROVE  HistoryOrdered'
  BY DEF IInv, HistoryOrdered

-----------------------------------------------------------------------------
(***************************************************************************)
(* What is pending always fits the store                                   *)
(***************************************************************************)
LEMMA ChunkAt ==
    ASSUME NEW q \in Seq(Chunks), NEW i \in 1..Len(q)
    PROVE  q[i].seq \in Nat /\ q[i].chunk \in Nat
  <1>1. q[i] \in Chunks
    OBVIOUS
  <1> QED
    BY <1>1 DEF Chunks

LEMMA LastAt ==
    ASSUME NEW q \in Seq(Chunks), q # << >>
    PROVE  Len(q) \in 1..Len(q) /\ Last(q) = q[Len(q)] /\ Last(q).seq \in Nat
  <1>1. Len(q) \in 1..Len(q)
    OBVIOUS
  <1>2. Last(q) = q[Len(q)]
    BY DEF Last
  <1> QED
    BY <1>1, <1>2, ChunkAt

\* The records of a pane after which its pending output is numbered.
LEMMA Numbered ==
    ASSUME IInv, recording, NEW s \in Stores
    PROVE  /\ tail[s] # << >> /\ Own # << >> => Own[1].seq = Last(tail[s]).seq + 1
           /\ Len(tail[s]) <= tailSize
  <1>1. PICK a \in 0..fed : Follows(s, a)
    BY DEF IInv, TailFollows
  <1>2. Len(tail[s]) <= tailSize
    BY DEF IInv, WithinCap
  <1>3. tail[s] \in Seq(Chunks) /\ Own \in Seq(Chunks) /\ base \in Nat
    BY DEF IInv, TypeOK, Own
  <1>4. ASSUME tail[s] # << >>, Own # << >>
        PROVE  Own[1].seq = Last(tail[s]).seq + 1
    <2>1. /\ Len(tail[s]) \in 1..Len(tail[s]) /\ 1 \in 1..Len(Own)
          /\ Last(tail[s]) = tail[s][Len(tail[s])]
      BY <1>3, <1>4, LastAt
    <2>2. /\ Last(tail[s]).seq + base = a + Len(tail[s])
          /\ Own[1].seq + base = a + Len(tail[s]) + 1
      BY <1>1, <2>1 DEF Follows
    <2>3. Last(tail[s]).seq \in Nat /\ Own[1].seq \in Nat /\ Len(tail[s]) \in Nat
      <3>1. Last(tail[s]).seq \in Nat
        BY <1>3, <1>4, LastAt
      <3>2. Own[1].seq \in Nat
        BY <1>3, <2>1, ChunkAt
      <3> QED
        BY <1>3, <3>1, <3>2
    <2> DEFINE l == Last(tail[s]).seq
               o == Own[1].seq
               n == Len(tail[s])
    <2>4. l + base = a + n /\ o + base = a + n + 1 /\ {l, o, n, base} \subseteq Nat
      BY <1>3, <2>2, <2>3
    <2> HIDE DEF l, o, n
    <2>5. a \in Int
      OBVIOUS
    <2>6. o = l + 1
      BY <2>4, <2>5
    <2> QED
      BY <2>6 DEF l, o
  <1> QED
    BY <1>2, <1>4

LEMMA OwnAccepted ==
    ASSUME IInv, Own # << >>, NEW s \in Stores
    PROVE  Accepts(s, Own) /\ recording
  <1>1. recording
    BY DEF IInv, PolicyFollowed
  <1>2. tailSize + Len(Own) < HardCap
    BY <1>1 DEF IInv, WithinCap
  <1>3. /\ tail[s] \in Seq(Chunks) /\ Own \in Seq(Chunks)
        /\ tailSize \in Nat
    BY DEF IInv, TypeOK, Own
  <1>4. Len(tail[s]) + Len(Own) <= StoreCap
    BY <1>1, <1>2, <1>3, Numbered DEF SizesAssumption
  <1>5. tail[s] # << >> => Head(Own).seq > Last(tail[s]).seq
    <2>1. tail[s] # << >> => Last(tail[s]).seq \in Nat
      BY <1>3, LastAt
    <2> QED
      BY <1>1, <1>3, <2>1, Numbered
  <1> QED
    BY <1>1, <1>4, <1>5 DEF Accepts

-----------------------------------------------------------------------------
(***************************************************************************)
(* A batch and a keyframe                                                  *)
(***************************************************************************)
LEMMA FlushEffect ==
    ASSUME AllOrNothing, IInv, NEW S \in Progress, Own # << >>, FlushLocked(own, S, Own)
    PROVE  \/ UNCHANGED <<pending, tailSize, tail>>
           \/ /\ pending' = [pending EXCEPT ![own] = << >>]
              /\ tailSize' = tailSize + Len(Own)
              /\ tail' = [s \in Stores |-> tail[s] \o Own]
  <1>1. \A s \in Stores : Accepts(s, Own)
    BY OwnAccepted
  <1>2. S = Stores \/ S = {}
    <2>1. faults \in Nat /\ Appended(S, Own)
      BY DEF IInv, TypeOK, FlushLocked
    <2> QED
      BY <1>1, <2>1, AppendedWhole
  <1>3. Stores # {}
    BY DEF Stores
  <1>4. own \in Daemons /\ tail \in [Stores -> Seq(Chunks)] /\ pending \in [Daemons -> Seq(Chunks)]
    BY DEF IInv, TypeOK
  <1>5. CASE S = {}
    <2>1. pending' = [pending EXCEPT ![own] = Own] /\ tailSize' = tailSize
      BY <1>3, <1>5 DEF FlushLocked
    <2>2. tail' = [s \in Stores |-> tail[s]]
      BY <1>5 DEF FlushLocked, AppendBatch
    <2> QED
      BY <1>4, <2>1, <2>2 DEF Own
  <1>6. CASE S = Stores
    BY <1>6 DEF FlushLocked, AppendBatch
  <1> QED
    BY <1>2, <1>5, <1>6

\* The chunks of t and then those of q are a + 1, a + 2, ...; they are
\* numbered in step, b behind.
Chain(t, q, a) ==
    /\ \A i \in 1..Len(t) : t[i].chunk = a + i
    /\ \A i \in 1..Len(q) : q[i].chunk = a + Len(t) + i
Numbers(t, q, a, b) ==
    /\ \A i \in 1..Len(t) : t[i].seq + b = a + i
    /\ \A i \in 1..Len(q) : q[i].seq + b = a + Len(t) + i

Joins(t, q, a, b) ==
    /\ Len(t \o q) = Len(t) + Len(q)
    /\ Chain(t, q, a) => \A i \in 1..Len(t \o q) : (t \o q)[i].chunk = a + i
    /\ Numbers(t, q, a, b) => \A i \in 1..Len(t \o q) : (t \o q)[i].seq + b = a + i

LEMMA Joined ==
    ASSUME NEW t \in Seq(Chunks), NEW q \in Seq(Chunks), NEW a \in Nat, NEW b \in Nat
    PROVE  Joins(t, q, a, b)
  <1> DEFINE u == t \o q
             n == Len(t)
  <1>1. /\ Len(u) = n + Len(q) /\ n \in Nat
        /\ \A i \in 1..Len(u) : \/ i \in 1..n /\ u[i] = t[i]
                                \/ i - n \in 1..Len(q) /\ u[i] = q[i - n]
    OBVIOUS
  <1> HIDE DEF u
  <1>2. \A i \in 1..Len(u) : i \in Int /\ a + n + (i - n) = a + i
    BY <1>1
  <1>3. ASSUME Chain(t, q, a), NEW i \in 1..Len(u)
        PROVE  u[i].chunk = a + i
    <2>1. CASE i \in 1..n /\ u[i] = t[i]
      BY <1>3, <2>1 DEF Chain
    <2>2. CASE i - n \in 1..Len(q) /\ u[i] = q[i - n]
      BY <1>2, <1>3, <2>2 DEF Chain
    <2> QED
      BY <1>1, <2>1, <2>2
  <1>4. ASSUME Numbers(t, q, a, b), NEW i \in 1..Len(u)
        PROVE  u[i].seq + b = a + i
    <2>1. CASE i \in 1..n /\ u[i] = t[i]
      BY <1>4, <2>1 DEF Numbers
    <2>2. CASE i - n \in 1..Len(q) /\ u[i] = q[i - n]
      BY <1>2, <1>4, <2>2 DEF Numbers
    <2> QED
      BY <1>1, <2>1, <2>2
  <1> QED
    BY <1>1, <1>3, <1>4 DEF u, Joins

\* A batch that continues the tail may be appended to it.
LEMMA JoinFollows ==
    ASSUME IInv, NEW batch \in Seq(Chunks), NEW s \in Stores, NEW a \in 0..fed,
           Chain(tail[s], batch, a),
           recording => Numbers(tail[s], batch, a, base),
           kf[s].boundary # "none" => a = kf[s].shadow,
           a + Len(tail[s]) + Len(batch) <= fed,
           recording /\ persist' /\ Reading' /\ cfg' \in {"idle", "archive"}
           => a + Len(tail[s]) + Len(batch) = base' + seq',
           tail' = [q \in Stores |-> tail[q] \o batch], Own' = << >>,
           UNCHANGED <<fed, base, recording, kf>>
    PROVE  Follows(s, a)'
  <1>1. tail[s] \in Seq(Chunks) /\ a \in Nat /\ base \in Nat
        /\ Len(tail[s]) \in Nat /\ Len(batch) \in Nat
    BY Types
  <1>2. tail'[s] = tail[s] \o batch /\ Len(Own') = 0
    OBVIOUS
  <1>3. /\ Len(tail'[s]) = Len(tail[s]) + Len(batch)
        /\ \A i \in 1..Len(tail'[s]) : tail'[s][i].chunk = a + i
        /\ recording => \A i \in 1..Len(tail'[s]) : tail'[s][i].seq + base = a + i
    <2> DEFINE u == tail[s] \o batch
    <2>1. /\ Len(u) = Len(tail[s]) + Len(batch)
          /\ Chain(tail[s], batch, a) => \A i \in 1..Len(u) : u[i].chunk = a + i
          /\ Numbers(tail[s], batch, a, base)
             => \A i \in 1..Len(u) : u[i].seq + base = a + i
      <3>1. Joins(tail[s], batch, a, base)
        BY <1>1, Joined, Zenon
      <3> QED
        BY <3>1 DEF Joins
    <2>2. tail'[s] = u
      BY <1>2
    <2> HIDE DEF u
    <2> QED
      BY <2>1, <2>2
  <1>4. a + Len(tail'[s]) + Len(Own') = a + Len(tail[s]) + Len(batch)
    BY <1>1, <1>2, <1>3
  <1>5. 1..Len(Own') = {}
    BY <1>2
  <1>6. /\ (kf[s].boundary # "none" => a = kf[s].shadow)'
        /\ (a + Len(tail[s]) + Len(Own) <= fed)'
        /\ (recording /\ persist /\ Reading /\ cfg \in {"idle", "archive"} =>
            a + Len(tail[s]) + Len(Own) = base + seq)'
    BY <1>4
  <1> QED
    BY <1>3, <1>5, <1>6 DEF Follows

LEMMA FlushFollows ==
    ASSUME IInv, Own # << >>,
           pending' = [pending EXCEPT ![own] = << >>],
           tail' = [s \in Stores |-> tail[s] \o Own],
           UNCHANGED <<fed, base, seq, own, recording, persist, kf, cfg>>,
           Reading' => Reading
    PROVE  TailFollows'
  <1> SUFFICES ASSUME NEW s \in Stores
               PROVE  \E a \in 0..fed : Follows(s, a)'
    BY DEF TailFollows
  <1>1. PICK a \in 0..fed : Follows(s, a)
    BY DEF IInv, TailFollows
  <1>2. /\ Chain(tail[s], Own, a)
        /\ recording => Numbers(tail[s], Own, a, base)
        /\ kf[s].boundary # "none" => a = kf[s].shadow
        /\ a + Len(tail[s]) + Len(Own) <= fed
        /\ recording /\ persist' /\ Reading' /\ cfg' \in {"idle", "archive"}
           => a + Len(tail[s]) + Len(Own) = base' + seq'
    BY <1>1 DEF Follows, Chain, Numbers
  <1>3. Own' = << >> /\ Own \in Seq(Chunks)
    BY Types DEF Own
  <1>4. Follows(s, a)'
    BY <1>2, <1>3, JoinFollows
  <1> QED
    BY <1>1, <1>4

LEMMA FlushStep ==
    ASSUME AllOrNothing, IInv, NEW S \in Progress, Own # << >>, FlushLocked(own, S, Own), Moves,
           pump' \in Stages,
           UNCHANGED <<terminal, seed, own, recording, persist, kf, archive, config>>
    PROVE  IInv'
  <1> USE DEF terminal, archive, config
  <1>1. /\ recording
        /\ tailSize + Len(Own) < HardCap
        /\ \A s \in Stores : Len(tail[s]) <= tailSize
    <2>1. recording
      BY DEF IInv, PolicyFollowed
    <2> QED
      BY <2>1 DEF IInv, WithinCap
  <1>2. /\ tail \in [Stores -> Seq(Chunks)] /\ pending \in [Daemons -> Seq(Chunks)]
        /\ own \in Daemons /\ tailSize \in Nat /\ Own \in Seq(Chunks)
    BY DEF IInv, TypeOK, Own
  <1>3. ChunkUnderWay' /\ SeedCurrent' /\ FramesAgree' /\ HistoryOrdered'
    BY PumpFrame, FramesFrame, HistoryFrame
  <1>4. faults' \in Nat
    <2>1. Appended(S, Own) /\ faults \in Nat
      BY DEF FlushLocked, IInv, TypeOK
    <2>2. faults' = faults \/ faults' = faults + 1
      BY <2>1 DEF Appended, Fails
    <2> QED
      BY <2>1, <2>2
  <1>5. Reading' => Reading
    BY DEF Moves, Reading, Stopped
  <1>6. CASE UNCHANGED <<pending, tailSize, tail>>
    <2>1. TypeOK'
      BY <1>4, <1>6 DEF IInv, TypeOK
    <2>2. PolicyFollowed' /\ TailFollows' /\ WithinCap'
      BY <1>5, <1>6, PolicyFrame, TailFrame, CapFrame
    <2> QED
      BY <1>3, <2>1, <2>2 DEF IInv
  <1>7. CASE /\ pending' = [pending EXCEPT ![own] = << >>]
             /\ tailSize' = tailSize + Len(Own)
             /\ tail' = [s \in Stores |-> tail[s] \o Own]
    <2>1. \A s \in Stores : tail[s] \o Own \in Seq(Chunks)
                            /\ Len(tail[s] \o Own) = Len(tail[s]) + Len(Own)
      BY <1>2
    <2>2. Own' = << >> /\ \A d \in Daemons \ {own} : pending'[d] = pending[d]
      BY <1>2, <1>7 DEF Own
    <2>3. TypeOK'
      <3>1. tail' \in [Stores -> Seq(Chunks)]
        BY <1>7, <2>1
      <3>2. pending' \in [Daemons -> Seq(Chunks)] /\ tailSize' \in Nat
        BY <1>2, <1>7
      <3> QED
        BY <1>4, <3>1, <3>2 DEF IInv, TypeOK
    <2>4. TailFollows'
      BY <1>5, <1>7, FlushFollows
    <2>5. WithinCap'
      <3>1. \A s \in Stores : Len(tail'[s]) <= tailSize'
        BY <1>1, <1>2, <1>7, <2>1
      <3>2. tailSize' + Len(Own') < HardCap
        BY <1>1, <1>2, <1>7, <2>2
      <3>3. /\ own = "old" => pending'["new"] = << >>
            /\ own = "new" => pending'["old"] = << >>
        BY <1>2, <2>2 DEF IInv, WithinCap, Daemons
      <3> QED
        BY <3>1, <3>2, <3>3 DEF WithinCap
    <2>6. PolicyFollowed'
      <3>1. /\ cfg # "idle" => PipelineFree' /\ pump' \in {"reading", "ending", "draining", "ended"}
            /\ Grounded' = Grounded
        BY DEF IInv, PolicyFollowed, PipelineFree, Moves, Stopped, Grounded
      <3>2. ~(~policy /\ cfg \in {"idle", "archive"})
        <4>1. Stores # {}
          BY DEF Stores
        <4> QED
          BY <4>1 DEF IInv, PolicyFollowed
      <3> QED
        BY <1>1, <2>2, <3>1, <3>2 DEF IInv, PolicyFollowed
    <2> QED
      BY <1>3, <2>3, <2>4, <2>5, <2>6 DEF IInv
  <1> QED
    BY <1>6, <1>7, FlushEffect

LEMMA KeyframeEffect ==
    ASSUME AllOrNothing, IInv, NEW S \in Progress, NEW k, Keyframe(S, k)
    PROVE  \/ UNCHANGED <<pending, tailSize, kf, tail>> /\ S # Stores
           \/ /\ S = Stores
              /\ pending' = [pending EXCEPT ![own] = << >>] /\ tailSize' = 0
              /\ kf' = [s \in Stores |-> k] /\ tail' = [s \in Stores |-> << >>]
  <1>1. S = Stores \/ S = {}
    <2>1. faults \in Nat /\ Saved(S)
      BY DEF IInv, TypeOK, Keyframe
    <2> QED
      BY <2>1, SavedWhole
  <1>2. CASE S = {}
    <2>1. Stores # {}
      BY DEF Stores
    <2>2. kf' = [s \in Stores |-> kf[s]] /\ tail' = [s \in Stores |-> tail[s]]
      BY <1>2 DEF Keyframe, SaveKeyframe
    <2>3. kf' = kf /\ tail' = tail
      BY <2>2 DEF IInv, TypeOK
    <2> QED
      BY <1>2, <2>1, <2>3 DEF Keyframe
  <1>3. CASE S = Stores
    BY <1>3 DEF Keyframe, SaveKeyframe, Forget
  <1> QED
    BY <1>1, <1>2, <1>3

\* A keyframe begins a new chain.
LEMMA KeyframeFollows ==
    ASSUME NEW k, k.shadow \in 0..fed', Len(Own') = 0, fed' \in Nat, base' \in Nat, seq' \in Nat,
           kf' = [s \in Stores |-> k], tail' = [s \in Stores |-> << >>],
           /\ recording' /\ persist' /\ Reading' /\ cfg' \in {"idle", "archive"}
           => k.shadow = base' + seq'
    PROVE  TailFollows'
  <1> SUFFICES ASSUME NEW s \in Stores
               PROVE  Follows(s, k.shadow)'
    BY DEF TailFollows
  <1>1. Len(tail'[s]) = 0 /\ kf'[s] = k
    OBVIOUS
  <1>2. k.shadow + 0 + 0 = k.shadow
    OBVIOUS
  <1>3. (1..Len(tail'[s])) = {} /\ (1..Len(Own')) = {}
    BY <1>1
  <1> QED
    BY <1>1, <1>2, <1>3 DEF Follows

-----------------------------------------------------------------------------
(***************************************************************************)
(* The archive                                                             *)
(***************************************************************************)
LEMMA Elements ==
    ASSUME NEW A, NEW p \in Seq(A)
    PROVE  Len(p) \in Nat /\ \A i \in 1..Len(p) : p[i] \in A
  OBVIOUS

LEMMA Concat ==
    ASSUME NEW A, NEW p \in Seq(A), NEW q \in Seq(A)
    PROVE  /\ p \o q \in Seq(A) /\ Len(p \o q) = Len(p) + Len(q)
           /\ Len(p) \in Nat /\ Len(q) \in Nat
           /\ \A i \in 1..Len(p) : (p \o q)[i] = p[i] /\ p[i] \in A
           /\ \A i \in (Len(p) + 1)..(Len(p) + Len(q)) :
                 /\ i - Len(p) \in 1..Len(q)
                 /\ (p \o q)[i] = q[i - Len(p)] /\ q[i - Len(p)] \in A
  <1>1. p \o q \in Seq(A) /\ Len(p \o q) = Len(p) + Len(q)
    OBVIOUS
  <1>2. Len(p) \in Nat /\ Len(q) \in Nat
    OBVIOUS
  <1>3. \A i \in 1..Len(p) : (p \o q)[i] = p[i]
    OBVIOUS
  <1>4. \A i \in (Len(p) + 1)..(Len(p) + Len(q)) : i - Len(p) \in 1..Len(q)
    BY <1>2
  <1>5. \A i \in (Len(p) + 1)..(Len(p) + Len(q)) : (p \o q)[i] = q[i - Len(p)]
    OBVIOUS
  <1> QED
    BY <1>1, <1>2, <1>3, <1>4, <1>5, Elements

LEMMA RowsOf ==
    ASSUME NEW from \in Nat, NEW ls \in Seq(Nat)
    PROVE  /\ Rows(from, ls) \in Seq(Row) /\ Len(Rows(from, ls)) = Len(ls)
           /\ \A i \in 1..Len(ls) :
                 Rows(from, ls)[i].no = from + i - 1 /\ Rows(from, ls)[i].line = ls[i]
  <1>1. DOMAIN ls = 1..Len(ls) /\ Len(ls) \in Nat
    OBVIOUS
  <1>2. \A i \in 1..Len(ls) : from + i - 1 \in Nat /\ ls[i] \in Nat
    <2>1. \A i \in 1..Len(ls) : from + i - 1 \in Nat
      BY <1>1
    <2>2. \A i \in 1..Len(ls) : ls[i] \in Nat
      BY Elements
    <2> QED
      BY <2>1, <2>2
  <1>3. \A i \in 1..Len(ls) : [no |-> from + i - 1, line |-> ls[i]] \in Row
    BY <1>2 DEF Row
  <1>4. Rows(from, ls) = [i \in 1..Len(ls) |-> [no |-> from + i - 1, line |-> ls[i]]]
    BY <1>1 DEF Rows
  <1>5. Rows(from, ls) \in Seq(Row) /\ Len(Rows(from, ls)) = Len(ls)
    BY <1>1, <1>3, <1>4
  <1> QED
    BY <1>4, <1>5

LEMMA HistoryHolds ==
    ASSUME archiving' => seen' = mirrored', Archived(rows', lines', mirrored')
    PROVE  HistoryOrdered'
  BY DEF HistoryOrdered, Archived

\* Lines that follow the stored ones are stored, or stay pending, in order.
LEMMA ArchiveFlushed ==
    ASSUME rows \in Seq(Row), next \in Nat, faults \in Nat, mirrored' \in Nat,
           NEW ls \in Seq(Nat), Archived(rows, ls, mirrored'),
           archiving' => seen' = mirrored',
           FlushArchive(ls) \/ ArchiveFails(ls)
    PROVE  /\ HistoryOrdered'
           /\ rows' \in Seq(Row) /\ lines' \in Seq(Nat) /\ next' \in Nat /\ faults' \in Nat
  <1>a. \A i \in 1..(Len(rows) - 1) : rows[i + 1].no = rows[i].no + 1
    BY DEF Archived
  <1>b. \A i, j \in 1..Len(rows) : i < j => rows[i].line < rows[j].line
    BY DEF Archived
  <1>c. \A i, j \in 1..Len(ls) : i < j => ls[i] < ls[j]
    BY DEF Archived
  <1>d. \A i \in 1..Len(rows), j \in 1..Len(ls) : rows[i].line < ls[j]
    BY DEF Archived
  <1>e. \A i \in 1..Len(rows) : rows[i].line + Keep <= mirrored'
    BY DEF Archived
  <1>f. \A j \in 1..Len(ls) : ls[j] + Keep <= mirrored'
    BY DEF Archived
  <1>1. CASE rows' = rows /\ lines' = ls /\ next' = next
    <2>1. faults' \in Nat
      BY DEF FlushArchive, ArchiveFails, Fails
    <2>2. Archived(rows', lines', mirrored')
      BY <1>1
    <2> QED
      BY <1>1, <2>1, <2>2, HistoryHolds
  <1>2. CASE /\ ls # << >> /\ Continues
             /\ rows' = rows \o Rows(next, ls) /\ next' = next + Len(ls)
             /\ lines' = << >> /\ UNCHANGED faults
    <2> DEFINE new == Rows(next, ls)
               n == Len(rows)
               all == rows \o new
    <2>1. /\ new \in Seq(Row) /\ Len(new) = Len(ls)
          /\ \A i \in 1..Len(ls) : new[i].no = next + i - 1 /\ new[i].line = ls[i]
      BY RowsOf
    <2> HIDE DEF new
    <2>2. Len(ls) \in Nat /\ \A i \in 1..Len(ls) : ls[i] \in Nat
      BY Elements
    <2>a. /\ all \in Seq(Row) /\ Len(all) = Len(rows) + Len(new)
          /\ Len(rows) \in Nat /\ Len(new) \in Nat
          /\ \A i \in 1..Len(rows) : all[i] = rows[i] /\ rows[i] \in Row
          /\ \A i \in (Len(rows) + 1)..(Len(rows) + Len(new)) :
                /\ i - Len(rows) \in 1..Len(new)
                /\ all[i] = new[i - Len(rows)] /\ new[i - Len(rows)] \in Row
      <3>1. rows \in Seq(Row) /\ new \in Seq(Row)
        BY <2>1
      <3> QED
        BY <3>1, Concat, Zenon
    <2>3. /\ all \in Seq(Row) /\ Len(all) = n + Len(ls) /\ n \in Nat
          /\ \A i \in 1..n : all[i] = rows[i] /\ rows[i] \in Row
          /\ \A i \in (n + 1)..(n + Len(ls)) : i - n \in 1..Len(ls) /\ all[i] = new[i - n]
      BY <2>1, <2>a
    <2>4. \A i \in 1..n : all[i] = rows[i] /\ rows[i].no \in Nat /\ rows[i].line \in Nat
      BY <2>3 DEF Row
    <2>b. n = Len(rows) /\ n \in Nat /\ Len(ls) \in Nat /\ Len(all) = n + Len(ls)
      BY <2>2, <2>3 DEF n
    <2> HIDE DEF all, n
    <2>5. \A i \in (n + 1)..(n + Len(ls)) : i - n \in 1..Len(ls) /\ all[i] = new[i - n]
      BY <2>3
    <2>6. \A i \in (n + 1)..(n + Len(ls)) :
             all[i].no = next + (i - n) - 1 /\ all[i].line = ls[i - n] /\ ls[i - n] \in Nat
      BY <2>1, <2>2, <2>5
    <2>7. n # 0 => next = rows[n].no + 1
      BY <1>2 DEF Continues, Last, n
    <2>8. \A i \in 1..(Len(all) - 1) : all[i + 1].no = all[i].no + 1
      <3> SUFFICES ASSUME NEW i \in 1..(Len(all) - 1)
                   PROVE  all[i + 1].no = all[i].no + 1
        OBVIOUS
      <3>1. CASE i + 1 <= n
        <4>1. i \in 1..n /\ i + 1 \in 1..n /\ i \in 1..(Len(rows) - 1)
          BY <2>b, <3>1
        <4>2. all[i].no = rows[i].no /\ all[i + 1].no = rows[i + 1].no
          BY <2>4, <4>1
        <4>3. rows[i + 1].no = rows[i].no + 1
          BY <1>a, <4>1
        <4> QED
          BY <4>2, <4>3, Zenon
      <3>2. CASE i = n
        <4>0. n \in 1..n /\ n # 0
          BY <2>b, <3>2
        <4>1. all[i].no = rows[n].no /\ next = rows[n].no + 1 /\ rows[n].no \in Nat
          BY <2>4, <2>7, <3>2, <4>0
        <4>2. i + 1 \in (n + 1)..(n + Len(ls)) /\ (i + 1) - n = 1
          BY <2>b, <3>2
        <4>3. all[i + 1].no = next + 1 - 1
          BY <2>6, <4>2
        <4> QED
          BY <4>1, <4>3
      <3>3. CASE i > n
        <4>1. /\ i \in (n + 1)..(n + Len(ls)) /\ i + 1 \in (n + 1)..(n + Len(ls))
          BY <2>b, <3>3
        <4>2. all[i].no = next + (i - n) - 1 /\ all[i + 1].no = next + ((i + 1) - n) - 1
          BY <2>6, <4>1
        <4> QED
          BY <2>3, <4>2
      <3> QED
        BY <2>b, <3>1, <3>2, <3>3
    <2>9. \A i, j \in 1..Len(all) : i < j => all[i].line < all[j].line
      <3> SUFFICES ASSUME NEW i \in 1..Len(all), NEW j \in 1..Len(all), i < j
                   PROVE  all[i].line < all[j].line
        OBVIOUS
      <3>1. CASE j <= n
        <4>1. i \in 1..n /\ j \in 1..n /\ n = Len(rows)
          BY <2>b, <3>1
        <4>2. all[i].line = rows[i].line /\ all[j].line = rows[j].line
          BY <2>4, <4>1
        <4> QED
          BY <1>b, <4>1, <4>2
      <3>2. CASE i <= n /\ j > n
        <4>1. j \in (n + 1)..(n + Len(ls))
          BY <2>b, <3>2
        <4>2. all[j].line = ls[j - n] /\ j - n \in 1..Len(ls)
          BY <2>5, <2>6, <4>1
        <4>3. i \in 1..Len(rows) /\ all[i].line = rows[i].line
          BY <2>4, <2>b, <3>2
        <4> QED
          BY <1>d, <4>2, <4>3
      <3>3. CASE i > n
        <4>1. i \in (n + 1)..(n + Len(ls)) /\ j \in (n + 1)..(n + Len(ls))
          BY <2>b, <3>3
        <4>2. /\ all[i].line = ls[i - n] /\ i - n \in 1..Len(ls)
              /\ all[j].line = ls[j - n] /\ j - n \in 1..Len(ls)
          BY <2>5, <2>6, <4>1
        <4>3. i - n < j - n
          BY <2>b
        <4>4. ls[i - n] < ls[j - n]
          BY <1>c, <4>2, <4>3
        <4> QED
          BY <4>2, <4>4
      <3> QED
        BY <2>b, <3>1, <3>2, <3>3
    <2>10. \A i \in 1..Len(all) : all[i].line + Keep <= mirrored'
      <3> SUFFICES ASSUME NEW i \in 1..Len(all) PROVE all[i].line + Keep <= mirrored'
        OBVIOUS
      <3>1. CASE i <= n
        <4>1. i \in 1..n /\ n = Len(rows)
          BY <2>b, <3>1
        <4> QED
          BY <1>e, <2>4, <4>1
      <3>2. CASE i > n
        <4>1. i \in (n + 1)..(n + Len(ls))
          BY <2>b, <3>2
        <4> QED
          BY <1>f, <2>5, <2>6, <4>1
      <3> QED
        BY <2>b, <3>1, <3>2
    <2>11. rows' = all /\ lines' = << >> /\ Len(lines') = 0
      BY <1>2 DEF all, new
    <2>12. 1..Len(lines') = {}
      BY <2>11
    <2>13. HistoryOrdered'
      <3>1. Archived(rows', lines', mirrored')
        BY <2>8, <2>9, <2>10, <2>11, <2>12 DEF Archived
      <3> QED
        BY <3>1, HistoryHolds
    <2>14. next' \in Nat /\ faults' \in Nat /\ lines' \in Seq(Nat)
      BY <1>2, <2>2
    <2> QED
      BY <2>3, <2>11, <2>13, <2>14
  <1> QED
    BY <1>1, <1>2 DEF FlushArchive, ArchiveFails

-----------------------------------------------------------------------------
(***************************************************************************)
(* The pump                                                                *)
(***************************************************************************)
LEMMA InitStep == Init => IInv
  <1> SUFFICES ASSUME Init PROVE IInv
    OBVIOUS
  <1> USE DEF Init
  <1>1. TypeOK
    BY DEF TypeOK, Stages, Daemons, NoSeed, Blank, Frame
  <1>2. ChunkUnderWay /\ SeedCurrent
    BY DEF ChunkUnderWay, SeedCurrent
  <1>3. Own = << >> /\ Len(Own) = 0
    BY DEF Own, Daemons
  <1>4. PolicyFollowed
    BY <1>3 DEF PolicyFollowed, Blank, Frame
  <1>5. TailFollows
    <2> SUFFICES ASSUME NEW s \in Stores PROVE Follows(s, 0)
      BY DEF TailFollows
    <2>1. Len(tail[s]) = 0 /\ kf[s].shadow = 0
      BY DEF Blank, Frame
    <2> QED
      BY <1>3, <2>1 DEF Follows
  <1>6. FramesAgree
    BY DEF FramesAgree, Blank, Frame
  <1>7. WithinCap
    BY <1>3 DEF WithinCap, SizesAssumption, Daemons
  <1>8. HistoryOrdered
    BY DEF HistoryOrdered, Archived
  <1> QED
    BY <1>1, <1>2, <1>4, <1>5, <1>6, <1>7, <1>8 DEF IInv

LEMMA RoomForOne ==
    ASSUME NEW a \in Int, NEW t \in Nat, NEW n \in Nat, NEW f \in Nat, a + t + n <= f
    PROVE  a + t + n <= f + 1
  OBVIOUS

LEMMA PumpFeedsStep ==
    ASSUME IInv, ~Mishaps, PumpFeeds
    PROVE  IInv'
  <1> USE DEF recorder, store, archive, config
  <1>1. /\ pump = "reading" /\ pump' = "fed" /\ cfg = "idle" /\ fed' = fed + 1 /\ fed \in Nat
    BY DEF PumpFeeds, IInv, TypeOK
  <1>a. ground \subseteq ground' /\ ground' \subseteq Nat
    <2>1. PICK g \in {ground, ground \union {fed + 1}} : ground' = g
      BY DEF PumpFeeds
    <2>2. ground \subseteq Nat /\ fed + 1 \in Nat
      <3>1. ground \subseteq Nat
        BY DEF IInv, TypeOK
      <3> QED
        BY <1>1, <3>1
    <2>3. ground' = ground \/ ground' = ground \union {fed + 1}
      BY <2>1
    <2> QED
      BY <2>2, <2>3
  <1>2. TypeOK'
    <2>1. fed' \in Nat
      BY <1>1
    <2> QED
      BY <1>1, <1>a, <2>1 DEF PumpFeeds, IInv, TypeOK, Stages
  <1>3. ChunkUnderWay' /\ SeedCurrent'
    BY <1>1 DEF PumpFeeds, IInv, TypeOK, ChunkUnderWay, SeedCurrent, Reading
  <1>4. PolicyFollowed'
    BY <1>1 DEF PumpFeeds, IInv, PolicyFollowed, Own
  <1>5. TailFollows'
    <2> SUFFICES ASSUME NEW s \in Stores
                 PROVE  \E a \in 0..fed' : Follows(s, a)'
      BY DEF TailFollows
    <2>1. PICK a \in 0..fed : Follows(s, a)
      BY DEF IInv, TailFollows
    <2>2. Len(tail[s]) \in Nat /\ Len(Own) \in Nat
      BY Types
    <2>3. Reading
      BY <1>1 DEF Reading
    <2>4. Follows(s, a)'
      <3>1. (a + Len(tail[s]) + Len(Own) <= fed)'
        <4>1. a + Len(tail[s]) + Len(Own) <= fed
          BY <2>1 DEF Follows
        <4>2. a + Len(tail[s]) + Len(Own) <= fed + 1
          BY <1>1, <2>2, <4>1, RoomForOne
        <4>3. tail'[s] = tail[s] /\ Own' = Own /\ fed' = fed + 1
          BY <1>1 DEF PumpFeeds, Own
        <4> QED
          BY <4>2, <4>3
      <3>2. UNCHANGED <<kf, tail, pending, own, recording, persist, base, seq, cfg>>
        BY DEF PumpFeeds
      <3> QED
        BY <1>1, <2>1, <2>3, <3>1, <3>2 DEF Follows, Own
    <2> QED
      BY <1>1, <2>4
  <1>6. FramesAgree'
    BY <1>1, <1>a DEF PumpFeeds, IInv, FramesAgree
  <1>7. WithinCap' /\ HistoryOrdered'
    BY CapFrame, HistoryFrame DEF PumpFeeds
  <1> QED
    BY <1>2, <1>3, <1>4, <1>5, <1>6, <1>7 DEF IInv

LEMMA KeepBefore ==
    ASSUME NEW x \in Nat, NEW k \in Nat, NEW f \in Nat, x + k <= f - 1
    PROVE  x < f - k
  OBVIOUS

\* The lines that the tracker evicts come after all it has evicted before.
LEMMA EvictedAfter ==
    ASSUME IInv, archiving, pump = "fed"
    PROVE  \/ Evicted(fed) = << >>
           \/ /\ Evicted(fed) = <<fed - Keep>> /\ fed - Keep \in Nat
              /\ \A i \in 1..Len(rows) : rows[i].line < fed - Keep
              /\ \A j \in 1..Len(lines) : lines[j] < fed - Keep
  <1>1. /\ seen = fed - 1 /\ mirrored = fed - 1 /\ fed \in Nat /\ seen \in Nat
    BY DEF IInv, HistoryOrdered, Archived, ChunkUnderWay, TypeOK
  <1>2. Keep \in Nat \ {0}
    BY DEF SizesAssumption
  <1>3. CASE fed - Keep \in Tracked
    <2>1. fed - Keep \in Nat
      BY <1>1, <1>2, <1>3 DEF Tracked, Max0
    <2>2. \A i \in 1..Len(rows) : rows[i].line \in Nat
      BY Types
    <2>3. \A j \in 1..Len(lines) : lines[j] \in Nat
      BY Types
    <2>4. \A i \in 1..Len(rows) : rows[i].line + Keep <= fed - 1
      BY <1>1 DEF IInv, HistoryOrdered, Archived
    <2>5. \A j \in 1..Len(lines) : lines[j] + Keep <= fed - 1
      BY <1>1 DEF IInv, HistoryOrdered, Archived
    <2>6. ASSUME NEW i \in 1..Len(rows)
          PROVE  rows[i].line < fed - Keep
      <3>1. rows[i].line \in Nat /\ rows[i].line + Keep <= fed - 1
        BY <2>2, <2>4
      <3> QED
        BY <1>1, <1>2, <3>1, KeepBefore
    <2>7. ASSUME NEW j \in 1..Len(lines)
          PROVE  lines[j] < fed - Keep
      <3>1. lines[j] \in Nat /\ lines[j] + Keep <= fed - 1
        BY <2>3, <2>5
      <3> QED
        BY <1>1, <1>2, <3>1, KeepBefore
    <2> QED
      BY <1>3, <2>1, <2>6, <2>7 DEF Evicted
  <1> QED
    BY <1>3 DEF Evicted

LEMMA PumpMirrorsStep ==
    ASSUME IInv, PumpMirrors
    PROVE  IInv'
  <1> USE DEF recorder, store, config
  <1>1. /\ pump = "fed" /\ pump' \in {"mirrored", "ending"} /\ mirrored' = fed
        /\ fed \in Nat /\ mirrored = fed - 1 /\ base + seq = fed - 1
    BY DEF PumpMirrors, IInv, TypeOK, ChunkUnderWay
  <1>2. cfg = "idle"
    BY <1>1 DEF IInv, PolicyFollowed, PipelineFree
  <1>3. ChunkUnderWay' /\ SeedCurrent'
    BY <1>1 DEF PumpMirrors, IInv, TypeOK, ChunkUnderWay, SeedCurrent, Reading
  <1>4. PolicyFollowed' /\ FramesAgree'
    BY <1>1, <1>2 DEF PumpMirrors, IInv, PolicyFollowed, FramesAgree, Own
  <1>5. TailFollows' /\ WithinCap'
    <2>1. Reading
      BY <1>1 DEF Reading
    <2> QED
      BY <1>2, <2>1, TailFrame, CapFrame DEF PumpMirrors
  <1>6. /\ HistoryOrdered' /\ rows' \in Seq(Row) /\ lines' \in Seq(Nat)
        /\ next' \in Nat /\ faults' \in Nat
    <2>1. /\ rows \in Seq(Row) /\ lines \in Seq(Nat) /\ next \in Nat /\ faults \in Nat
          /\ archiving \in BOOLEAN /\ seen \in Nat /\ Keep \in Nat
      BY DEF IInv, TypeOK, Row, SizesAssumption
    <2>2. /\ \A i \in 1..Len(rows) : rows[i].line \in Nat /\ rows[i].line + Keep <= mirrored'
          /\ \A j \in 1..Len(lines) : lines[j] \in Nat /\ lines[j] + Keep <= mirrored'
      <3>1. /\ \A i \in 1..Len(rows) : rows[i].line + Keep <= mirrored
            /\ \A j \in 1..Len(lines) : lines[j] + Keep <= mirrored
        BY DEF IInv, HistoryOrdered, Archived
      <3>2. /\ \A i \in 1..Len(rows) : rows[i].line \in Nat
            /\ \A j \in 1..Len(lines) : lines[j] \in Nat
        BY Types
      <3>3. \A n \in Nat : n + Keep <= mirrored => n + Keep <= mirrored'
        BY <1>1, <2>1
      <3> QED
        BY <3>1, <3>2, <3>3
    <2>3. CASE ~archiving
      BY <2>1, <2>2, <2>3 DEF PumpMirrors, archive, IInv, HistoryOrdered, Archived
    <2>4. CASE archiving
      <3> DEFINE ls == lines \o Evicted(fed)
      <3>1. ls \in Seq(Nat) /\ mirrored' \in Nat
        <4>1. mirrored' \in Nat
          BY <1>1
        <4>2. Evicted(fed) = << >> \/ (Evicted(fed) = <<fed - Keep>> /\ fed - Keep \in Nat)
          BY <1>1, <2>4, EvictedAfter
        <4>3. Evicted(fed) \in Seq(Nat)
          <5>1. \A e \in Nat : <<e>> \in Seq(Nat)
            OBVIOUS
          <5>2. << >> \in Seq(Nat)
            OBVIOUS
          <5>3. CASE Evicted(fed) = << >>
            BY <5>2, <5>3
          <5>4. CASE Evicted(fed) = <<fed - Keep>> /\ fed - Keep \in Nat
            BY <5>1, <5>4
          <5> QED
            BY <4>2, <5>3, <5>4
        <4> QED
          BY <2>1, <4>1, <4>3
      <3>2. archiving' = archiving /\ seen' = mirrored'
        BY <1>1, <2>4 DEF PumpMirrors
      <3>3. /\ \A i, j \in 1..Len(ls) : i < j => ls[i] < ls[j]
            /\ \A i \in 1..Len(rows), j \in 1..Len(ls) : rows[i].line < ls[j]
            /\ \A j \in 1..Len(ls) : ls[j] + Keep <= mirrored'
        <4>1. CASE Evicted(fed) = << >>
          <5>1. ls = lines
            BY <2>1, <4>1
          <5> QED
            BY <2>2, <5>1 DEF IInv, HistoryOrdered, Archived
        <4>2. CASE Evicted(fed) # << >>
          <5>1. /\ Evicted(fed) = <<fed - Keep>>
                /\ \A i \in 1..Len(rows) : rows[i].line < fed - Keep
                /\ \A j \in 1..Len(lines) : lines[j] < fed - Keep
            BY <1>1, <2>4, <4>2, EvictedAfter
          <5>2. /\ Len(ls) = Len(lines) + 1 /\ Len(lines) \in Nat
                /\ ls[Len(lines) + 1] = fed - Keep
                /\ \A j \in 1..Len(lines) : ls[j] = lines[j]
            BY <2>1, <5>1
          <5> HIDE DEF ls
          <5>3. \A j \in 1..Len(ls) : j \in 1..Len(lines) \/ j = Len(lines) + 1
            BY <5>2
          <5>4. /\ \A i, j \in 1..Len(lines) : i < j => lines[i] < lines[j]
                /\ \A i \in 1..Len(rows), j \in 1..Len(lines) : rows[i].line < lines[j]
            BY DEF IInv, HistoryOrdered, Archived
          <5>5. \A i, j \in 1..Len(ls) : i < j => ls[i] < ls[j]
            BY <5>1, <5>2, <5>3, <5>4
          <5>6. \A i \in 1..Len(rows), j \in 1..Len(ls) : rows[i].line < ls[j]
            BY <5>1, <5>2, <5>3, <5>4
          <5>7. \A j \in 1..Len(ls) : ls[j] + Keep <= mirrored'
            <6>1. fed - Keep + Keep <= mirrored'
              BY <1>1, <2>1
            <6> QED
              BY <2>2, <5>2, <5>3, <6>1
          <5> QED
            BY <5>5, <5>6, <5>7
        <4> QED
          BY <4>1, <4>2
      <3> HIDE DEF ls
      <3>4. /\ \A i \in 1..(Len(rows) - 1) : rows[i + 1].no = rows[i].no + 1
            /\ \A i, j \in 1..Len(rows) : i < j => rows[i].line < rows[j].line
        BY DEF IInv, HistoryOrdered, Archived
      <3>a. Archived(rows, ls, mirrored')
        BY <2>2, <3>3, <3>4 DEF Archived
      <3>5. CASE lines' = ls /\ UNCHANGED <<rows, next, faults>>
        <4>1. Archived(rows', lines', mirrored')
          BY <3>a, <3>5
        <4>2. HistoryOrdered'
          BY <3>2, <4>1, HistoryHolds
        <4> QED
          BY <2>1, <3>1, <3>2, <3>5, <4>2
      <3>6. CASE FlushArchive(ls) \/ ArchiveFails(ls)
        BY <2>1, <3>1, <3>2, <3>a, <3>6, ArchiveFlushed
      <3> QED
        BY <2>4, <3>5, <3>6 DEF PumpMirrors, ls
    <2> QED
      BY <2>1, <2>3, <2>4
  <1>7. TypeOK'
    <2>1. archiving' \in BOOLEAN /\ seen' \in Nat
      BY <1>1 DEF PumpMirrors, archive, IInv, TypeOK
    <2> QED
      BY <1>1, <1>6, <2>1 DEF PumpMirrors, IInv, TypeOK, Row, Stages
  <1> QED
    BY <1>3, <1>4, <1>5, <1>6, <1>7 DEF IInv


LEMMA Appending ==
    ASSUME NEW A, NEW p \in Seq(A), NEW x \in A
    PROVE  /\ Append(p, x) \in Seq(A) /\ Append(p, x) # << >>
           /\ Len(Append(p, x)) = Len(p) + 1
           /\ \A i \in 1..Len(p) : Append(p, x)[i] = p[i]
           /\ Append(p, x)[Len(p) + 1] = x
  OBVIOUS

\* The chunk under way continues what is pending.
LEMMA ChunkFollows ==
    ASSUME IInv, pump = "mirrored", recording, persist, cfg = "idle", NEW s \in Stores
    PROVE  LET batch == Append(Own, Chunk(seq + 1, fed))
           IN  /\ batch \in Seq(Chunks) /\ batch # << >> /\ Len(batch) = Len(Own) + 1
               /\ \E a \in 0..fed :
                     /\ Chain(tail[s], batch, a) /\ Numbers(tail[s], batch, a, base)
                     /\ kf[s].boundary # "none" => a = kf[s].shadow
                     /\ a + Len(tail[s]) + Len(batch) = fed
                     /\ base + (seq + 1) = fed
  <1>1. PICK a \in 0..fed : Follows(s, a)
    BY DEF IInv, TailFollows
  <1> DEFINE c == Chunk(seq + 1, fed)
             new == Append(Own, c)
             n == Len(Own)
             t == Len(tail[s])
  <1>2. /\ Own \in Seq(Chunks) /\ n \in Nat /\ t \in Nat
        /\ fed \in Nat /\ base \in Nat /\ seq \in Nat /\ a \in Nat
    BY Types
  <1>3. base + seq = fed - 1
    BY DEF IInv, ChunkUnderWay
  <1>4. a + t + n = base + seq
    <2>1. recording /\ persist /\ Reading /\ cfg \in {"idle", "archive"}
      BY DEF Reading
    <2> QED
      BY <1>1, <2>1 DEF Follows
  <1>5. c \in Chunks /\ c.seq = seq + 1 /\ c.chunk = fed
    BY <1>2 DEF Chunk, Chunks
  <1>6. /\ new \in Seq(Chunks) /\ new # << >> /\ Len(new) = n + 1
        /\ \A i \in 1..n : new[i] = Own[i]
        /\ new[n + 1] = c
    <2>1. Own \in Seq(Chunks) /\ c \in Chunks
      BY <1>2, <1>5
    <2> HIDE DEF c
    <2> QED
      BY <2>1, Appending
  <1> HIDE DEF new, c, n, t
  <1>7. \A i \in 1..(n + 1) : i \in 1..n \/ i = n + 1
    BY <1>2
  <1>8. a + t + (n + 1) = fed /\ seq + 1 + base = a + t + (n + 1) /\ base + (seq + 1) = fed
    BY <1>2, <1>3, <1>4
  <1>9. \A i \in 1..(n + 1) : new[i].chunk = a + t + i
    <2>1. \A i \in 1..n : Own[i].chunk = a + t + i
      BY <1>1 DEF Follows, n, t
    <2> QED
      BY <1>5, <1>6, <1>7, <1>8, <2>1
  <1>10. \A i \in 1..(n + 1) : new[i].seq + base = a + t + i
    <2>1. \A i \in 1..n : Own[i].seq + base = a + t + i
      BY <1>1 DEF Follows, n, t
    <2> QED
      BY <1>5, <1>6, <1>7, <1>8, <2>1
  <1>11. Chain(tail[s], new, a) /\ Numbers(tail[s], new, a, base)
    <2>1. /\ \A i \in 1..t : tail[s][i].chunk = a + i
          /\ \A i \in 1..t : tail[s][i].seq + base = a + i
      BY <1>1 DEF Follows, t
    <2> QED
      BY <1>6, <1>9, <1>10, <2>1 DEF Chain, Numbers, t
  <1>12. kf[s].boundary # "none" => a = kf[s].shadow
    BY <1>1 DEF Follows
  <1>13. a + t + Len(new) = fed
    BY <1>6, <1>8
  <1> QED
    BY <1>6, <1>8, <1>11, <1>12, <1>13 DEF new, c, n, t
LEMMA RecordsFrames ==
    ASSUME IInv, PumpRecords
    PROVE  /\ cfg = "idle" /\ base + seq = fed - 1 /\ mirrored = fed
           /\ base + seq' = fed /\ seq' = seq + 1
           /\ ChunkUnderWay' /\ SeedCurrent' /\ HistoryOrdered'
  <1> USE DEF recorder, store, archive, config
  <1>1. /\ pump = "mirrored" /\ pump' \in {"reading", "ending"} /\ seq' = seq + 1
        /\ UNCHANGED <<fed, mirrored, base, seed, rows, lines, seen, archiving>>
    BY DEF PumpRecords
  <1>2. cfg = "idle"
    BY <1>1 DEF IInv, PolicyFollowed, PipelineFree
  <1>3. fed \in Nat /\ base \in Nat /\ seq \in Nat /\ mirrored = fed /\ base + seq = fed - 1
    BY <1>1 DEF IInv, TypeOK, ChunkUnderWay
  <1>4. base + seq' = fed
    BY <1>1, <1>3
  <1>5. ChunkUnderWay'
    BY <1>1, <1>3, <1>4 DEF ChunkUnderWay
  <1>6. SeedCurrent'
    <2>1. seed.resume \in Nat /\ seed.shadow \in Nat
      BY DEF IInv, TypeOK
    <2> QED
      BY <1>1, <1>3, <2>1 DEF IInv, SeedCurrent, Reading, NoSeed
  <1> QED
    BY <1>1, <1>2, <1>3, <1>4, <1>5, <1>6, HistoryFrame
\* While no policy change is under way, the policy says what may be recorded.
LEMMA PolicyIdle ==
    ASSUME IInv, cfg = "idle", UNCHANGED <<cfg, said, policy, recording, persist>>,
           ~recording => Own' = << >>,
           ~policy => \A s \in Stores : kf'[s].shadow = 0 /\ tail'[s] = << >> /\ Own' = << >>
    PROVE  PolicyFollowed'
  BY DEF IInv, PolicyFollowed

Frames == [shadow : Nat, primary : Nat, boundary : {"none", "grounded", "forced"}]

\* A keyframe of every record replaces the tails and what is pending.
LEMMA KeyframeStep ==
    ASSUME IInv, NEW k \in Frames, UNCHANGED <<fed, ground, base, own, recording>>,
           k.shadow \in 0..fed, seq' \in Nat, pump' = "paused" => pump = "paused",
           k.boundary = "grounded" => k.primary = k.shadow /\ k.shadow \in ground,
           pending' = [pending EXCEPT ![own] = << >>], tailSize' = 0,
           kf' = [s \in Stores |-> k], tail' = [s \in Stores |-> << >>],
           recording /\ persist' /\ Reading' /\ cfg' \in {"idle", "archive"}
           => k.shadow = base + seq'
    PROVE  /\ TailFollows' /\ FramesAgree' /\ WithinCap' /\ Own' = << >>
           /\ kf' \in [Stores -> Frames] /\ tail' \in [Stores -> Seq(Chunks)]
           /\ pending' \in [Daemons -> Seq(Chunks)] /\ tailSize' \in Nat
           /\ \A s \in Stores : kf'[s] = k /\ tail'[s] = << >>
  <1>1. /\ fed \in Nat /\ base \in Nat /\ own \in Daemons
        /\ pending \in [Daemons -> Seq(Chunks)]
    BY DEF IInv, TypeOK
  <1>2. Own' = << >> /\ Len(Own') = 0 /\ pending' \in [Daemons -> Seq(Chunks)]
    BY <1>1 DEF Own
  <1>3. TailFollows'
    BY <1>1, <1>2, KeyframeFollows
  <1>4. FramesAgree'
    BY DEF IInv, FramesAgree, Grounded
  <1>5. WithinCap'
    <2>1. \A s \in Stores : Len(tail'[s]) = 0
      OBVIOUS
    <2>2. HardCap \in Nat \ {0}
      BY DEF SizesAssumption
    <2>3. \A d \in Daemons : pending'[d] = pending[d] \/ pending'[d] = << >>
      BY <1>1
    <2>4. /\ own = "old" => pending'["new"] = << >>
          /\ own = "new" => pending'["old"] = << >>
      BY <2>3 DEF IInv, WithinCap, Daemons
    <2>5. tailSize' + Len(Own') < HardCap
      BY <1>2, <2>2
    <2> QED
      BY <2>1, <2>4, <2>5 DEF WithinCap
  <1>6. tail' \in [Stores -> Seq(Chunks)] /\ kf' \in [Stores -> Frames]
    <2>1. << >> \in Seq(Chunks)
      OBVIOUS
    <2> QED
      BY <2>1
  <1> QED
    BY <1>2, <1>3, <1>4, <1>5, <1>6
\* The batch with the chunk under way fits every record.
LEMMA BatchAccepted ==
    ASSUME IInv, pump = "mirrored", recording, persist, cfg = "idle", Boundary = "none",
           NEW s \in Stores
    PROVE  /\ Accepts(s, Append(Own, Chunk(seq + 1, fed)))
           /\ tailSize + Len(Own) + 1 < HardCap
  <1> DEFINE batch == Append(Own, Chunk(seq + 1, fed))
  <1>1. PICK a \in 0..fed :
           /\ Chain(tail[s], batch, a) /\ Numbers(tail[s], batch, a, base)
    BY ChunkFollows
  <1>2. /\ batch \in Seq(Chunks) /\ batch # << >> /\ Len(batch) = Len(Own) + 1
    BY ChunkFollows
  <1>3. /\ tail[s] \in Seq(Chunks) /\ Len(tail[s]) \in Nat /\ Len(Own) \in Nat
        /\ tailSize \in Nat /\ base \in Nat
    BY Types
  <1>4. HardCap \in Nat /\ StoreCap \in Nat /\ HardCap <= StoreCap
    BY DEF SizesAssumption
  <1>5. tailSize + Len(Own) + 1 < HardCap
    BY <1>3, <1>4 DEF Boundary, NextSize
  <1>6. Len(tail[s]) + Len(batch) <= StoreCap
    <2>1. Len(tail[s]) <= tailSize
      BY DEF IInv, WithinCap
    <2>2. \A x, y, z, h, c \in Nat :
             x <= z /\ z + y + 1 < h /\ h <= c => x + (y + 1) <= c
      OBVIOUS
    <2>3. Len(tail[s]) + (Len(Own) + 1) <= StoreCap
      BY <1>3, <1>4, <1>5, <2>1, <2>2
    <2> QED
      BY <1>2, <2>3
  <1> HIDE DEF batch
  <1>7. ASSUME tail[s] # << >>
        PROVE  Head(batch).seq > Last(tail[s]).seq
    <2>1. /\ Len(tail[s]) \in 1..Len(tail[s]) /\ Last(tail[s]) = tail[s][Len(tail[s])]
          /\ Last(tail[s]).seq \in Nat
      BY <1>3, <1>7, LastAt
    <2>2. 1 \in 1..Len(batch) /\ Head(batch) = batch[1]
      BY <1>2
    <2>3. batch[1].seq \in Nat
      BY <1>2, <2>2, ChunkAt
    <2>4. /\ Last(tail[s]).seq + base = a + Len(tail[s])
          /\ batch[1].seq + base = a + Len(tail[s]) + 1
      BY <1>1, <2>1, <2>2 DEF Numbers
    <2> DEFINE l == Last(tail[s]).seq
               b == batch[1].seq
               n == Len(tail[s])
    <2>5. /\ l + base = a + n /\ b + base = a + n + 1
          /\ l \in Nat /\ b \in Nat /\ n \in Nat /\ base \in Nat /\ a \in Int
      BY <1>3, <2>1, <2>3, <2>4
    <2> HIDE DEF l, b, n
    <2>6. b > l
      BY <2>5
    <2> QED
      BY <2>2, <2>6 DEF l, b
  <1> QED
    BY <1>5, <1>6, <1>7 DEF Accepts, batch

\* What recordFedLocked does with it.
LEMMA RecordEffect ==
    ASSUME AllOrNothing, IInv, PumpRecords, recording, persist, Boundary = "none"
    PROVE  LET batch == Append(Own, Chunk(seq + 1, fed))
           IN  /\ kf' = kf
               /\ \/ /\ pending' = [pending EXCEPT ![own] = batch]
                     /\ tailSize' = tailSize /\ tail' = tail
                  \/ /\ pending' = [pending EXCEPT ![own] = << >>]
                     /\ tailSize' = tailSize + Len(batch)
                     /\ tail' = [s \in Stores |-> tail[s] \o batch]
               /\ faults' \in Nat
  <1> DEFINE batch == Append(Own, Chunk(seq + 1, fed))
  <1>1. pump = "mirrored" /\ cfg = "idle"
    BY RecordsFrames DEF PumpRecords
  <1>2. \A s \in Stores : Accepts(s, batch)
    BY <1>1, BatchAccepted
  <1>3. /\ faults \in Nat /\ own \in Daemons /\ tail \in [Stores -> Seq(Chunks)]
        /\ MaxFault \in Nat
    BY DEF IInv, TypeOK, SizesAssumption
  <1>4. Stores # {}
    BY DEF Stores
  <1> HIDE DEF batch
  <1>5. ASSUME NEW S \in Progress, FlushLocked(own, S, batch)
        PROVE  /\ \/ /\ pending' = [pending EXCEPT ![own] = batch]
                     /\ tailSize' = tailSize /\ tail' = tail
                  \/ /\ pending' = [pending EXCEPT ![own] = << >>]
                     /\ tailSize' = tailSize + Len(batch)
                     /\ tail' = [s \in Stores |-> tail[s] \o batch]
               /\ faults' \in Nat
    <2>1. Appended(S, batch)
      BY <1>5 DEF FlushLocked
    <2>2. S = Stores \/ S = {}
      BY <1>2, <1>3, <2>1, AppendedWhole
    <2>3. faults' \in Nat
      <3>1. faults' = faults \/ faults' = faults + 1
        BY <2>1 DEF Appended, Fails
      <3> QED
        BY <1>3, <3>1
    <2>4. CASE S = {}
      <3>1. tail' = [s \in Stores |-> tail[s]]
        BY <1>5, <2>4 DEF FlushLocked, AppendBatch
      <3>2. pending' = [pending EXCEPT ![own] = batch] /\ tailSize' = tailSize
        BY <1>4, <1>5, <2>4 DEF FlushLocked
      <3> QED
        BY <1>3, <2>3, <3>1, <3>2
    <2>5. CASE S = Stores
      <3>1. tail' = [s \in Stores |-> tail[s] \o batch]
        BY <1>5, <2>5 DEF FlushLocked, AppendBatch
      <3>2. pending' = [pending EXCEPT ![own] = << >>] /\ tailSize' = tailSize + Len(batch)
        BY <1>5, <2>5 DEF FlushLocked
      <3> QED
        BY <2>3, <3>1, <3>2
    <2> QED
      BY <2>2, <2>4, <2>5
  <1>6. \/ /\ pending' = [pending EXCEPT ![own] = batch]
           /\ UNCHANGED <<tailSize, store, faults>>
        \/ kf' = kf /\ \E S \in Progress : FlushLocked(own, S, batch)
    BY DEF PumpRecords, batch
  <1> QED
    BY <1>3, <1>5, <1>6 DEF batch, store
LEMMA PumpRecordsStep ==
    ASSUME AllOrNothing, IInv, PumpRecords
    PROVE  IInv'
  <1> USE DEF recorder, store, archive, config
  <1>1. /\ pump = "mirrored" /\ pump' \in {"reading", "ending"} /\ cfg = "idle"
        /\ seq' = seq + 1 /\ base + seq' = fed /\ mirrored = fed
        /\ UNCHANGED <<fed, mirrored, ground, base, seed, own, recording, persist>>
        /\ UNCHANGED <<rows, lines, next, seen, archiving, policy, cfg, snap, said, switches>>
    BY RecordsFrames DEF PumpRecords
  <1>2. ChunkUnderWay' /\ SeedCurrent' /\ HistoryOrdered'
    BY RecordsFrames
  <1>3. /\ fed \in Nat /\ mirrored \in Nat /\ base \in Nat /\ seq \in Nat /\ seq' \in Nat
        /\ tailSize \in Nat /\ own \in Daemons
        /\ pending \in [Daemons -> Seq(Chunks)] /\ tail \in [Stores -> Seq(Chunks)]
        /\ kf \in [Stores -> Frames]
    <2>1. /\ fed \in Nat /\ mirrored \in Nat /\ base \in Nat /\ seq \in Nat /\ tailSize \in Nat
          /\ kf \in [Stores -> Frames]
      BY DEF IInv, TypeOK, Frames
    <2>2. /\ own \in Daemons /\ pending \in [Daemons -> Seq(Chunks)]
          /\ tail \in [Stores -> Seq(Chunks)]
      BY Types
    <2> QED
      BY <1>1, <2>1, <2>2
  <1>4. Stores # {}
    BY DEF Stores
  <1>5. ASSUME faults' \in Nat, tailSize' \in Nat, pending' \in [Daemons -> Seq(Chunks)],
               kf' \in [Stores -> Frames], tail' \in [Stores -> Seq(Chunks)]
        PROVE  TypeOK'
    BY <1>1, <1>3, <1>5 DEF IInv, TypeOK, Frames, Stages
  <1>6. recording /\ persist => policy
    BY <1>1 DEF IInv, PolicyFollowed
  <1>7. CASE /\ ~(recording /\ persist)
             /\ UNCHANGED <<pending, tailSize, store, faults>>
    <2>1. TailFollows' /\ WithinCap'
      BY <1>1, <1>7, TailFrame, CapFrame
    <2>2. PolicyFollowed' /\ FramesAgree'
      <3>1. Own' = Own
        BY <1>1, <1>7 DEF Own
      <3>2. PolicyFollowed'
        BY <1>1, <1>7, <3>1, PolicyIdle DEF IInv, PolicyFollowed
      <3> QED
        BY <1>1, <1>7, <3>2 DEF IInv, FramesAgree
    <2>3. TypeOK'
      <3>1. faults' \in Nat
        BY <1>7 DEF IInv, TypeOK
      <3> QED
        BY <1>3, <1>5, <1>7, <3>1
    <2> QED
      BY <1>2, <2>1, <2>2, <2>3 DEF IInv
  <1>8. ASSUME recording, persist, Boundary # "none",
               NEW S \in Progress, Keyframe(S, Frame(fed, mirrored, Boundary)),
               pump' = IF S = Stores THEN "reading" ELSE "ending"
        PROVE  IInv'
    <2> DEFINE k == Frame(fed, mirrored, Boundary)
    <2>1. /\ k \in Frames /\ k.shadow = fed /\ k.primary = fed
          /\ k.boundary = "grounded" => fed \in ground
      BY <1>1, <1>3 DEF Frame, Frames, Boundary, Grounded
    <2>2. faults' \in Nat
      <3>1. faults \in Nat
        BY DEF IInv, TypeOK
      <3>2. faults' = faults \/ faults' = faults + 1
        BY <1>8 DEF Keyframe, Saved, SavesAll, Fails
      <3> QED
        BY <3>1, <3>2
    <2>3. CASE UNCHANGED <<pending, tailSize, kf, tail>> /\ S # Stores
      <3>1. pump' = "ending" /\ Own' = Own
        BY <1>1, <1>8, <2>3 DEF Own
      <3>2. TailFollows' /\ WithinCap'
        BY <1>1, <2>3, <3>1, TailFrame, CapFrame DEF Reading
      <3>3. PolicyFollowed' /\ FramesAgree' /\ TypeOK'
        BY <1>1, <1>3, <1>5, <1>6, <1>8, <2>2, <2>3, <3>1, PolicyIdle DEF IInv, FramesAgree
      <3> QED
        BY <1>2, <3>2, <3>3 DEF IInv
    <2>4. CASE /\ S = Stores
               /\ pending' = [pending EXCEPT ![own] = << >>] /\ tailSize' = 0
               /\ kf' = [s \in Stores |-> k] /\ tail' = [s \in Stores |-> << >>]
      <3> HIDE DEF k
      <3>1. /\ TailFollows' /\ FramesAgree' /\ WithinCap' /\ Own' = << >>
            /\ kf' \in [Stores -> Frames] /\ tail' \in [Stores -> Seq(Chunks)]
            /\ pending' \in [Daemons -> Seq(Chunks)] /\ tailSize' \in Nat
        <4>1. /\ k.shadow \in 0..fed /\ pump' # "paused"
              /\ k.boundary = "grounded" => k.primary = k.shadow /\ k.shadow \in ground
              /\ k.shadow = base + seq'
          BY <1>1, <1>3, <2>1
        <4> QED
          BY <1>1, <1>3, <2>1, <2>4, <4>1, KeyframeStep
      <3>2. PolicyFollowed' /\ TypeOK'
        BY <1>1, <1>5, <1>6, <1>8, <2>2, <3>1, PolicyIdle
      <3> QED
        BY <1>2, <3>1, <3>2 DEF IInv
    <2> QED
      BY <1>8, <2>3, <2>4, KeyframeEffect
  <1>9. CASE recording /\ persist /\ Boundary = "none"
    <2> DEFINE batch == Append(Own, Chunk(seq + 1, fed))
    <2>1. /\ batch \in Seq(Chunks) /\ batch # << >> /\ Len(batch) = Len(Own) + 1
          /\ \A s \in Stores : \E a \in 0..fed :
                /\ Chain(tail[s], batch, a) /\ Numbers(tail[s], batch, a, base)
                /\ kf[s].boundary # "none" => a = kf[s].shadow
                /\ a + Len(tail[s]) + Len(batch) = fed
      BY <1>1, <1>4, <1>9, ChunkFollows
    <2>2. tailSize + Len(Own) + 1 < HardCap /\ \A s \in Stores : Len(tail[s]) <= tailSize
      BY <1>1, <1>4, <1>9, BatchAccepted DEF IInv, WithinCap
    <2>3. kf' = kf /\ faults' \in Nat
      BY <1>9, RecordEffect
    <2>4. /\ Len(Own) \in Nat /\ HardCap \in Nat
          /\ \A s \in Stores : Len(tail[s]) \in Nat /\ tail[s] \in Seq(Chunks)
      BY Types DEF SizesAssumption
    <2> HIDE DEF batch
    <2>5. CASE /\ pending' = [pending EXCEPT ![own] = batch]
               /\ tailSize' = tailSize /\ tail' = tail
      <3>1. Own' = batch /\ pending' \in [Daemons -> Seq(Chunks)]
            /\ \A d \in Daemons \ {own} : pending'[d] = pending[d]
        BY <1>1, <1>3, <2>1, <2>5 DEF Own
      <3>2. TailFollows'
        <4> SUFFICES ASSUME NEW s \in Stores PROVE \E a \in 0..fed : Follows(s, a)'
          BY <1>1 DEF TailFollows
        <4>1. PICK a \in 0..fed :
                 /\ Chain(tail[s], batch, a) /\ Numbers(tail[s], batch, a, base)
                 /\ kf[s].boundary # "none" => a = kf[s].shadow
                 /\ a + Len(tail[s]) + Len(batch) = fed
          BY <2>1
        <4>2. /\ a + Len(tail[s]) + Len(batch) <= fed
              /\ a + Len(tail[s]) + Len(batch) = base' + seq'
          <5>1. base' + seq' = fed /\ fed <= fed
            BY <1>1, <1>3
          <5> QED
            BY <4>1, <5>1
        <4>3. tail'[s] = tail[s] /\ kf'[s] = kf[s]
          BY <2>3, <2>5
        <4>4. Follows(s, a)'
          BY <1>1, <3>1, <4>1, <4>2, <4>3 DEF Follows, Chain, Numbers
        <4> QED
          BY <4>4
      <3>3. WithinCap'
        <4>1. tailSize' + Len(Own') < HardCap
          BY <1>3, <2>1, <2>2, <2>4, <2>5, <3>1
        <4>2. /\ own = "old" => pending'["new"] = << >>
              /\ own = "new" => pending'["old"] = << >>
          BY <3>1 DEF IInv, WithinCap, Daemons
        <4> QED
          BY <1>1, <2>2, <2>5, <4>1, <4>2 DEF WithinCap
      <3>4. PolicyFollowed' /\ FramesAgree' /\ TypeOK'
        BY <1>1, <1>3, <1>5, <1>6, <1>9, <2>3, <2>5, <3>1, PolicyIdle DEF IInv, FramesAgree
      <3> QED
        BY <1>2, <3>2, <3>3, <3>4 DEF IInv
    <2>6. CASE /\ pending' = [pending EXCEPT ![own] = << >>]
               /\ tailSize' = tailSize + Len(batch)
               /\ tail' = [s \in Stores |-> tail[s] \o batch]
      <3>1. Own' = << >> /\ Len(Own') = 0 /\ pending' \in [Daemons -> Seq(Chunks)]
            /\ \A d \in Daemons \ {own} : pending'[d] = pending[d]
        BY <1>1, <1>3, <2>6 DEF Own
      <3>a. \A s \in Stores : /\ tail'[s] \in Seq(Chunks)
                              /\ Len(tail'[s]) = Len(tail[s]) + Len(batch)
        <4>1. \A q \in Seq(Chunks) : /\ q \o batch \in Seq(Chunks)
                                     /\ Len(q \o batch) = Len(q) + Len(batch)
          BY <2>1
        <4>2. \A s \in Stores : tail'[s] = tail[s] \o batch
          BY <2>6
        <4> QED
          BY <2>4, <4>1, <4>2
      <3>2. TailFollows'
        <4> SUFFICES ASSUME NEW s \in Stores PROVE \E a \in 0..fed : Follows(s, a)'
          BY <1>1 DEF TailFollows
        <4>1. PICK a \in 0..fed :
                 /\ Chain(tail[s], batch, a) /\ Numbers(tail[s], batch, a, base)
                 /\ kf[s].boundary # "none" => a = kf[s].shadow
                 /\ a + Len(tail[s]) + Len(batch) = fed
          BY <2>1
        <4>2. /\ a + Len(tail[s]) + Len(batch) <= fed
              /\ a + Len(tail[s]) + Len(batch) = base' + seq'
          <5>1. base' + seq' = fed /\ fed <= fed
            BY <1>1, <1>3
          <5> QED
            BY <4>1, <5>1
        <4>3. Follows(s, a)'
          BY <1>1, <2>1, <2>3, <2>6, <3>1, <4>1, <4>2, JoinFollows
        <4> QED
          BY <4>3
      <3>3. WithinCap'
        <4>1. tailSize' + Len(Own') < HardCap
          <5>1. Len(batch) = Len(Own) + 1
            BY <2>1
          <5> QED
            BY <1>3, <2>2, <2>4, <2>6, <3>1, <5>1
        <4>2. \A s \in Stores : Len(tail'[s]) <= tailSize'
          <5>1. Len(batch) \in Nat
            BY <2>1, <2>4
          <5> QED
            BY <1>3, <2>2, <2>4, <2>6, <3>a, <5>1
        <4>3. /\ own = "old" => pending'["new"] = << >>
              /\ own = "new" => pending'["old"] = << >>
          BY <3>1 DEF IInv, WithinCap, Daemons
        <4> QED
          BY <1>1, <4>1, <4>2, <4>3 DEF WithinCap
      <3>4. PolicyFollowed' /\ FramesAgree'
        BY <1>1, <1>6, <1>9, <2>3, <3>1, PolicyIdle DEF IInv, FramesAgree
      <3>5. TypeOK'
        <4>1. tail' \in [Stores -> Seq(Chunks)]
          BY <2>6, <3>a
        <4>2. tailSize' \in Nat
          BY <1>3, <2>1, <2>4, <2>6
        <4> QED
          BY <1>3, <1>5, <2>3, <3>1, <4>1, <4>2
      <3> QED
        BY <1>2, <3>2, <3>3, <3>4, <3>5 DEF IInv
    <2> QED
      BY <1>9, <2>5, <2>6, RecordEffect DEF batch
  <1> QED
    BY <1>7, <1>8, <1>9 DEF PumpRecords
-----------------------------------------------------------------------------
(***************************************************************************)
(* The tickers, and the end of an attachment                               *)
(***************************************************************************)
\* The pump moves and nothing else does.
LEMMA QuietStep ==
    ASSUME IInv, Moves, pump' \in Stages,
           UNCHANGED <<terminal, seed, own, recorder, store, archive, config, faults>>
    PROVE  IInv'
  <1> USE DEF terminal, recorder, store, archive, config
  <1>1. TypeOK'
    BY DEF IInv, TypeOK
  <1>2. ChunkUnderWay' /\ SeedCurrent' /\ FramesAgree' /\ HistoryOrdered' /\ WithinCap'
    BY PumpFrame, FramesFrame, HistoryFrame, CapFrame
  <1>3. PolicyFollowed'
    BY PolicyFrame
  <1>4. TailFollows'
    BY TailFrame DEF Moves, Reading, Stopped
  <1> QED
    BY <1>1, <1>2, <1>3, <1>4 DEF IInv

LEMMA ArchiveStep ==
    ASSUME IInv, Moves, pump' \in Stages, FlushArchive(lines) \/ ArchiveFails(lines),
           UNCHANGED <<terminal, seed, own, recorder, store, seen, archiving, config>>
    PROVE  IInv'
  <1> USE DEF terminal, recorder, store, config
  <1>1. /\ HistoryOrdered' /\ rows' \in Seq(Row) /\ lines' \in Seq(Nat)
        /\ next' \in Nat /\ faults' \in Nat
    <2>1. /\ rows \in Seq(Row) /\ lines \in Seq(Nat) /\ next \in Nat /\ faults \in Nat
          /\ mirrored' \in Nat
      BY DEF IInv, TypeOK, Row
    <2>2. HistoryOrdered /\ mirrored' = mirrored /\ seen' = seen /\ archiving' = archiving
      BY DEF IInv
    <2>3. Archived(rows, lines, mirrored') /\ (archiving' => seen' = mirrored')
      BY <2>2 DEF HistoryOrdered
    <2> QED
      BY <2>1, <2>3, ArchiveFlushed
  <1>2. TypeOK'
    BY <1>1 DEF IInv, TypeOK, Row
  <1>3. ChunkUnderWay' /\ SeedCurrent' /\ FramesAgree' /\ WithinCap'
    BY PumpFrame, FramesFrame, CapFrame
  <1>4. PolicyFollowed'
    BY PolicyFrame
  <1>5. TailFollows'
    BY TailFrame DEF Moves, Reading, Stopped
  <1> QED
    BY <1>1, <1>2, <1>3, <1>4, <1>5 DEF IInv

LEMMA TickersStep ==
    ASSUME AllOrNothing, IInv, FlushIdle \/ \E d \in Daemons : Flush(d)
    PROVE  IInv'
  <1>1. pump \in Stages
    BY DEF IInv, TypeOK
  <1>2. CASE FlushIdle
    BY <1>1, <1>2, ArchiveStep DEF FlushIdle, Moves
  <1>3. ASSUME NEW d \in Daemons, Flush(d)
        PROVE  IInv'
    <2>1. d = own /\ Own # << >>
      BY <1>3 DEF Flush, IInv, WithinCap, Daemons, TypeOK, Own
    <2>2. PICK S \in Progress : FlushLocked(own, S, Own)
      BY <1>3, <2>1 DEF Flush, Own
    <2> QED
      BY <1>1, <1>3, <2>1, <2>2, FlushStep DEF Flush, Moves
  <1> QED
    BY <1>2, <1>3

LEMMA EndFlushStep ==
    ASSUME AllOrNothing, IInv, NEW from, NEW to, NEW onError, EndFlush(from, to, onError), Moves,
           pump' \in Stages
    PROVE  IInv'
  <1>1. CASE Own = << >>
    BY <1>1, QuietStep DEF EndFlush, recorder, store, archive
  <1>2. CASE Own # << >>
    <2>1. PICK S \in Progress : FlushLocked(own, S, Own)
      BY <1>2 DEF EndFlush
    <2> QED
      BY <1>2, <2>1, FlushStep DEF EndFlush
  <1> QED
    BY <1>1, <1>2

LEMMA FinalizeSavesStep ==
    ASSUME AllOrNothing, IInv, FinalizeSaves
    PROVE  IInv'
  <1> USE DEF terminal, recorder, store, archive, config
  <1>1. /\ pump = "flushed" /\ pump' = "finalized" /\ cfg = "idle"
        /\ UNCHANGED <<terminal, seed, own, recording, persist, archive, config>>
    BY DEF FinalizeSaves, IInv, PolicyFollowed
  <1>2. Moves /\ pump' \in Stages
    BY <1>1 DEF Moves, Stopped, Stages
  <1>3. CASE ~recording
    BY <1>1, <1>2, <1>3, QuietStep DEF FinalizeSaves
  <1>4. CASE recording
    <2> DEFINE k == IF persist THEN Frame(fed, mirrored, FinalBoundary)
                    ELSE Frame(0, 0, FinalBoundary)
    <2>1. PICK S \in Progress : Keyframe(S, k)
      BY <1>4 DEF FinalizeSaves
    <2>2. fed \in Nat /\ mirrored = fed /\ 0 \in ground /\ persist = policy
      BY <1>1, <1>4 DEF IInv, TypeOK, ChunkUnderWay, FramesAgree, PolicyFollowed
    <2>3. /\ k \in Frames /\ k.shadow \in 0..fed
          /\ k.boundary = "grounded" => k.primary = k.shadow /\ k.shadow \in ground
          /\ ~policy => k.shadow = 0
      BY <2>2 DEF Frame, Frames, FinalBoundary, Grounded
    <2>4. faults' \in Nat /\ seq' \in Nat
      <3>1. faults \in Nat /\ seq \in Nat
        BY DEF IInv, TypeOK
      <3>2. faults' = faults \/ faults' = faults + 1
        BY <2>1 DEF Keyframe, Saved, SavesAll, Fails
      <3> QED
        BY <1>1, <3>1, <3>2
    <2>5. ChunkUnderWay' /\ SeedCurrent' /\ HistoryOrdered'
      BY <1>1, <1>2, PumpFrame, HistoryFrame
    <2> HIDE DEF k
    <2>6. CASE UNCHANGED <<pending, tailSize, kf, tail>>
      <3>1. TypeOK'
        BY <1>1, <1>2, <2>4, <2>6 DEF IInv, TypeOK
      <3>2. FramesAgree' /\ WithinCap' /\ PolicyFollowed'
        BY <1>1, <1>2, <2>6, FramesFrame, CapFrame, PolicyFrame
      <3>3. TailFollows'
        BY <1>1, <2>6, TailFrame DEF Reading
      <3> QED
        BY <2>5, <3>1, <3>2, <3>3 DEF IInv
    <2>7. CASE /\ pending' = [pending EXCEPT ![own] = << >>] /\ tailSize' = 0
               /\ kf' = [s \in Stores |-> k] /\ tail' = [s \in Stores |-> << >>]
      <3>1. /\ TailFollows' /\ FramesAgree' /\ WithinCap' /\ Own' = << >>
            /\ kf' \in [Stores -> Frames] /\ tail' \in [Stores -> Seq(Chunks)]
            /\ pending' \in [Daemons -> Seq(Chunks)] /\ tailSize' \in Nat
            /\ \A s \in Stores : kf'[s] = k /\ tail'[s] = << >>
        <4>1. ~Reading' /\ pump' # "paused"
          BY <1>1 DEF Reading
        <4> QED
          BY <1>1, <2>3, <2>4, <2>7, <4>1, KeyframeStep
      <3>2. PolicyFollowed'
        BY <1>1, <2>3, <3>1, PolicyIdle
      <3>3. TypeOK'
        BY <1>1, <1>2, <2>4, <3>1 DEF IInv, TypeOK, Frames
      <3> QED
        BY <2>5, <3>1, <3>2, <3>3 DEF IInv
    <2> QED
      BY <2>1, <2>6, <2>7, KeyframeEffect
  <1> QED
    BY <1>3, <1>4

LEMMA EndingStep ==
    ASSUME AllOrNothing, IInv, Ending \/ PumpFlushes \/ PumpEnds
    PROVE  IInv'
  <1>1. cfg # "idle" => pump \in {"reading", "ending", "draining", "ended"}
    BY DEF IInv, PolicyFollowed
  <1>2. CASE StopPump
    BY <1>2, QuietStep DEF StopPump, Moves, Stages
  <1>3. CASE FinalizeFlushes
    <2>1. Moves /\ pump' \in Stages
      BY <1>3 DEF FinalizeFlushes, EndFlush, Moves, Stopped, Stages
    <2> QED
      BY <1>3, <2>1, EndFlushStep DEF FinalizeFlushes
  <1>4. CASE CloseFlushes
    <2>1. PICK from \in {"ended", "finalized"} : EndFlush(from, "closing", "closing")
      BY <1>4 DEF CloseFlushes
    <2>2. Moves /\ pump' \in Stages
      BY <1>4, <2>1 DEF CloseFlushes, EndFlush, Moves, Stopped, Stages
    <2> QED
      BY <2>1, <2>2, EndFlushStep
  <1>5. CASE CloseArchives
    BY <1>1, <1>5, ArchiveStep DEF CloseArchives, EndArchive, Moves, Stopped, Stages
  <1>6. CASE PumpFlushes
    <2>1. Moves /\ pump' \in Stages
      BY <1>6 DEF PumpFlushes, EndFlush, Moves, Stages
    <2> QED
      BY <1>6, <2>1, EndFlushStep DEF PumpFlushes
  <1>7. CASE PumpEnds
    BY <1>7, ArchiveStep DEF PumpEnds, EndArchive, Moves, Stages
  <1> QED
    BY <1>2, <1>3, <1>4, <1>5, <1>6, <1>7, FinalizeSavesStep DEF Ending
-----------------------------------------------------------------------------
(***************************************************************************)
(* mux.configure                                                           *)
(***************************************************************************)
\* What was pending follows an erased record as it followed its tail.
LEMMA ErasedFollows ==
    ASSUME IInv, kf' = [s \in Stores |-> NoFrame], tail' = [s \in Stores |-> << >>],
           UNCHANGED <<fed, base, seq, own, recording, persist, pending, pump>>,
           cfg = "idle"
    PROVE  TailFollows'
  <1> SUFFICES ASSUME NEW s \in Stores
               PROVE  \E a \in 0..fed : Follows(s, a)'
    BY DEF TailFollows
  <1>1. PICK a \in 0..fed : Follows(s, a)
    BY DEF IInv, TailFollows
  <1> DEFINE t == Len(tail[s])
             n == Len(Own)
  <1>2. /\ fed \in Nat /\ t \in Nat /\ n \in Nat /\ a \in Nat
    BY Types
  <1>3. a + t + n <= fed
    BY <1>1 DEF Follows
  <1>a. a + t \in 0..fed
    <2> HIDE DEF t, n
    <2> QED
      BY <1>2, <1>3
  <1>b. PICK b \in 0..fed : b = a + t
    BY <1>a
  <1>4. Own' = Own /\ Len(tail'[s]) = 0 /\ kf'[s].boundary = "none"
    BY DEF Own, NoFrame
  <1>5. /\ \A i \in 1..n : Own[i].chunk = b + i
        /\ recording => \A i \in 1..n : Own[i].seq + base = b + i
        /\ recording /\ persist /\ Reading /\ cfg \in {"idle", "archive"} => b + n = base + seq
    BY <1>1, <1>b DEF Follows
  <1>6. b + 0 = b /\ b + n <= fed /\ b \in Nat
    BY <1>2, <1>3, <1>b
  <1>7. 1..Len(tail'[s]) = {} /\ Reading' = Reading
    BY <1>4 DEF Reading
  <1>8. Follows(s, b)'
    BY <1>4, <1>5, <1>6, <1>7 DEF Follows
  <1> QED
    BY <1>8

LEMMA ConfigureErasesStep ==
    ASSUME IInv, ~Mishaps, ConfigureErases
    PROVE  IInv'
  <1> USE DEF terminal, recorder, store, archive, config
  <1>1. /\ cfg = "idle" /\ policy /\ PipelineFree /\ Grounded
        /\ pump \in {"reading", "ending", "draining", "ended"} /\ said = policy
        /\ UNCHANGED <<terminal, seed, pump, own, recorder, lines, next, seen, archiving, snap, said>>
        /\ rows' = << >> /\ switches' = switches + 1
    BY DEF ConfigureErases, Switching, Usable, Stages, IInv, TypeOK, PolicyFollowed, PipelineFree
  <1>2. Moves /\ Own' = Own
    BY <1>1 DEF Moves, Own
  <1>3. ChunkUnderWay' /\ SeedCurrent'
    BY <1>1, <1>2, PumpFrame
  <1>4. HistoryOrdered'
    <2>1. Len(rows') = 0
      BY <1>1
    <2>2. 1..Len(rows') = {} /\ 1..(Len(rows') - 1) = {}
      BY <2>1
    <2> QED
      BY <1>1, <2>2 DEF IInv, HistoryOrdered, Archived
  <1>5. \/ /\ kf' = [s \in Stores |-> NoFrame] /\ tail' = [s \in Stores |-> << >>]
        \/ UNCHANGED <<kf, tail>>
    BY DEF ConfigureErases, SaveKeyframe
  <1>6. FramesAgree' /\ WithinCap' /\ kf' \in [Stores -> Frames] /\ tail' \in [Stores -> Seq(Chunks)]
    <2>1. CASE kf' = [s \in Stores |-> NoFrame] /\ tail' = [s \in Stores |-> << >>]
      <3>1. \A s \in Stores : kf'[s].boundary = "none" /\ Len(tail'[s]) = 0
        BY <2>1 DEF NoFrame
      <3>2. FramesAgree'
        BY <1>1, <3>1 DEF IInv, FramesAgree, Grounded
      <3>3. WithinCap'
        <4>1. tailSize \in Nat
          BY DEF IInv, TypeOK
        <4> QED
          BY <1>1, <1>2, <3>1, <4>1 DEF IInv, WithinCap
      <3>4. NoFrame \in Frames /\ << >> \in Seq(Chunks)
        BY DEF NoFrame, Frames
      <3> QED
        BY <2>1, <3>2, <3>3, <3>4
    <2>2. CASE UNCHANGED <<kf, tail>>
      <3>1. FramesAgree' /\ WithinCap'
        BY <1>1, <1>2, <2>2, FramesFrame, CapFrame
      <3> QED
        BY <2>2, <3>1 DEF IInv, TypeOK, Frames
    <2> QED
      BY <1>5, <2>1, <2>2
  <1>7. TypeOK'
    <2>1. switches' \in Nat /\ faults' \in Nat /\ rows' \in Seq([no : Nat, line : Nat])
      <3>1. switches \in Nat /\ faults \in Nat
        BY DEF IInv, TypeOK
      <3>2. faults' = faults \/ faults' = faults + 1
        BY DEF ConfigureErases, Fails
      <3> QED
        BY <1>1, <3>1, <3>2
    <2>2. policy' \in BOOLEAN /\ cfg' \in {"idle", "recorder"}
      BY <1>1 DEF ConfigureErases
    <2> QED
      BY <1>1, <1>6, <2>1, <2>2 DEF IInv, TypeOK, Frames
  <1>8. TailFollows'
    <2>1. CASE kf' = [s \in Stores |-> NoFrame] /\ tail' = [s \in Stores |-> << >>]
      BY <1>1, <2>1, ErasedFollows
    <2>2. CASE UNCHANGED <<kf, tail>>
      BY <1>1, <2>2, TailFrame DEF Reading
    <2> QED
      BY <1>5, <2>1, <2>2
  <1>9. PolicyFollowed'
    <2>1. PipelineFree' /\ Grounded'
      BY <1>1 DEF PipelineFree, Grounded
    <2>2. (recording => persist = policy) /\ (~recording => Own = << >>)
      BY <1>1 DEF IInv, PolicyFollowed
    <2>3. CASE policy' = FALSE /\ cfg' = "recorder" /\ SaveKeyframe(Stores, NoFrame)
      <3>1. \A s \in Stores : kf'[s].shadow = 0 /\ tail'[s] = << >>
        BY <2>3 DEF SaveKeyframe, NoFrame
      <3> QED
        BY <1>1, <1>2, <2>1, <2>2, <2>3, <3>1 DEF PolicyFollowed
    <2>4. CASE policy' = policy /\ cfg' = cfg
      BY <1>1, <1>2, <2>2, <2>4 DEF PolicyFollowed
    <2> QED
      BY <2>3, <2>4 DEF ConfigureErases
  <1> QED
    BY <1>3, <1>4, <1>6, <1>7, <1>8, <1>9 DEF IInv
LEMMA ConfigureSameStep ==
    ASSUME IInv, ConfigureSame
    PROVE  IInv'
  <1> USE DEF terminal, recorder, store, archive, config
  <1>1. said' = said /\ Moves /\ pump' \in Stages
    BY DEF ConfigureSame, IInv, PolicyFollowed, TypeOK, Moves
  <1> QED
    BY <1>1, QuietStep DEF ConfigureSame

LEMMA ConfigureOnStep ==
    ASSUME IInv, ~Mishaps, ConfigureOn
    PROVE  IInv'
  <1> USE DEF terminal, recorder, store, archive, config
  <1>1. /\ cfg = "idle" /\ cfg' = "recorder" /\ ~policy /\ policy' = TRUE
        /\ PipelineFree /\ Grounded
        /\ pump \in {"reading", "ending", "draining", "ended"} /\ said = policy
        /\ UNCHANGED <<terminal, seed, pump, own, recorder, store, archive, snap, said, faults>>
        /\ switches' = switches + 1
    BY DEF ConfigureOn, Switching, Usable, Stages, IInv, TypeOK, PolicyFollowed, PipelineFree
  <1>2. Moves /\ Own' = Own
    BY <1>1 DEF Moves, Own
  <1>3. ChunkUnderWay' /\ SeedCurrent' /\ FramesAgree' /\ HistoryOrdered' /\ WithinCap'
    BY <1>1, <1>2, PumpFrame, FramesFrame, HistoryFrame, CapFrame
  <1>4. TailFollows'
    BY <1>1, TailFrame
  <1>5. PolicyFollowed'
    <2>1. PipelineFree' /\ Grounded'
      BY <1>1 DEF PipelineFree, Grounded
    <2>2. (recording => persist = policy) /\ (~recording => Own = << >>)
      BY <1>1 DEF IInv, PolicyFollowed
    <2>3. recording => persist' # policy'
      <3>1. policy = FALSE
        BY <1>1 DEF IInv, TypeOK
      <3>2. persist' = persist
        BY <1>1
      <3>3. policy' = TRUE
        BY <1>1
      <3>4. ASSUME recording PROVE persist' = FALSE
        <4>1. persist = policy
          BY <2>2, <3>4
        <4> QED
          BY <3>1, <3>2, <4>1
      <3> QED
        BY <3>3, <3>4
    <2> QED
      BY <1>1, <1>2, <2>1, <2>2, <2>3 DEF PolicyFollowed
  <1>6. TypeOK'
    <2>1. switches' \in Nat
      <3>1. switches \in Nat
        BY DEF IInv, TypeOK
      <3> QED
        BY <1>1, <3>1
    <2> QED
      BY <1>1, <2>1 DEF IInv, TypeOK
  <1> QED
    BY <1>3, <1>4, <1>5, <1>6 DEF IInv

LEMMA SetPersistScrollbackStep ==
    ASSUME IInv, SetPersistScrollback
    PROVE  IInv'
  <1> USE DEF terminal, recorder, store, archive, config
  <1>1. /\ cfg = "recorder" /\ PipelineFree /\ Grounded
        /\ pump \in {"reading", "ending", "draining", "ended"}
        /\ UNCHANGED <<terminal, seed, pump, own, recording, pending, tailSize, store, archive,
                       policy, said, switches, faults>>
    BY DEF SetPersistScrollback, IInv, PolicyFollowed
  <1>2. Moves /\ Own' = Own /\ PipelineFree' /\ Grounded'
    BY <1>1 DEF Moves, Own, PipelineFree, Grounded
  <1>3. ChunkUnderWay' /\ SeedCurrent' /\ FramesAgree' /\ HistoryOrdered' /\ WithinCap'
    BY <1>1, <1>2, PumpFrame, FramesFrame, HistoryFrame, CapFrame
  <1>4. CASE ~recording
    <2>1. cfg' = "archive" /\ UNCHANGED <<persist, snap>>
      BY <1>4 DEF SetPersistScrollback
    <2>2. TypeOK' /\ TailFollows'
      BY <1>1, <1>4, <2>1, TailFrame DEF IInv, TypeOK
    <2>3. PolicyFollowed'
      BY <1>1, <1>2, <1>4, <2>1 DEF IInv, PolicyFollowed
    <2> QED
      BY <1>3, <2>2, <2>3 DEF IInv
  <1>5. CASE recording
    <2>1. persist # policy
      BY <1>1, <1>5 DEF IInv, PolicyFollowed
    <2>2. cfg' = "snapshot" /\ persist' = policy /\ snap' = IF policy THEN fed ELSE 0
      BY <1>5, <2>1 DEF SetPersistScrollback
    <2>3. TailFollows'
      BY <1>1, <2>2, TailFrame
    <2>4. TypeOK'
      <3>1. policy \in BOOLEAN /\ fed \in Nat
        BY DEF IInv, TypeOK
      <3>2. persist' \in BOOLEAN /\ snap' \in Nat
        BY <2>2, <3>1
      <3> QED
        BY <1>1, <2>2, <3>2 DEF IInv, TypeOK
    <2>5. PolicyFollowed'
      BY <1>1, <1>2, <1>5, <2>2 DEF PolicyFollowed
    <2> QED
      BY <1>3, <2>3, <2>4, <2>5 DEF IInv
  <1> QED
    BY <1>4, <1>5

LEMMA SavesSnapshotStep ==
    ASSUME AllOrNothing, IInv, SavesSnapshot
    PROVE  IInv'
  <1> USE DEF terminal, recorder, store, archive, config
  <1> DEFINE k == Frame(snap, IF policy THEN mirrored ELSE 0, "grounded")
  <1>1. /\ cfg = "snapshot" /\ PipelineFree /\ Grounded /\ recording
        /\ snap = (IF policy THEN fed ELSE 0) /\ persist = policy
        /\ pump \in {"reading", "ending", "draining", "ended"}
        /\ UNCHANGED <<terminal, seed, pump, own, recording, persist, archive, policy, snap, said,
                       switches>>
    BY DEF SavesSnapshot, IInv, PolicyFollowed
  <1>2. PICK S \in Progress : S = Stores /\ Keyframe(S, k) /\ cfg' = "archive"
    BY DEF SavesSnapshot, AllOrNothing
  <1>3. /\ fed \in Nat /\ mirrored = fed /\ 0 \in ground /\ seq \in Nat
        /\ pump = "reading" => base + seq = fed
    BY <1>1 DEF IInv, TypeOK, ChunkUnderWay, FramesAgree
  <1>4. /\ k \in Frames /\ k.shadow \in 0..fed /\ k.primary = k.shadow /\ k.shadow \in ground
        /\ k.shadow = IF policy THEN fed ELSE 0
    BY <1>1, <1>3 DEF Frame, Frames, Grounded
  <1>5. /\ pending' = [pending EXCEPT ![own] = << >>] /\ tailSize' = 0
        /\ kf' = [s \in Stores |-> k] /\ tail' = [s \in Stores |-> << >>]
    BY <1>2 DEF Keyframe, SaveKeyframe, Forget
  <1>6. faults' \in Nat
    BY <1>2 DEF Keyframe, Saved, SavesAll, IInv, TypeOK
  <1>7. Moves
    BY <1>1 DEF Moves
  <1>8. ChunkUnderWay' /\ SeedCurrent' /\ HistoryOrdered'
    BY <1>1, <1>7, PumpFrame, HistoryFrame
  <1>9. Reading' /\ persist' => k.shadow = base + seq'
    BY <1>1, <1>3, <1>4 DEF Reading
  <1> HIDE DEF k
  <1>10. /\ TailFollows' /\ FramesAgree' /\ WithinCap' /\ Own' = << >>
         /\ kf' \in [Stores -> Frames] /\ tail' \in [Stores -> Seq(Chunks)]
         /\ pending' \in [Daemons -> Seq(Chunks)] /\ tailSize' \in Nat
         /\ \A s \in Stores : kf'[s] = k /\ tail'[s] = << >>
    BY <1>1, <1>3, <1>4, <1>5, <1>9, KeyframeStep
  <1>11. PolicyFollowed'
    <2>1. PipelineFree' /\ Grounded'
      BY <1>1 DEF PipelineFree, Grounded
    <2> QED
      BY <1>1, <1>2, <1>4, <1>10, <2>1 DEF PolicyFollowed
  <1>12. TypeOK'
    BY <1>1, <1>2, <1>6, <1>10 DEF IInv, TypeOK, Frames
  <1> QED
    BY <1>8, <1>10, <1>11, <1>12 DEF IInv

LEMMA SetEnabledStep ==
    ASSUME IInv, SetEnabled
    PROVE  IInv'
  <1> USE DEF terminal, recorder, store, archive, config
  <1>1. /\ cfg = "archive" /\ cfg' = "idle" /\ said' = policy
        /\ UNCHANGED <<terminal, seed, pump, own, recorder, store, rows, next, policy, snap,
                       switches, faults>>
    BY DEF SetEnabled
  <1>2. Moves /\ Own' = Own
    BY <1>1 DEF Moves, Own
  <1>3. ChunkUnderWay' /\ SeedCurrent' /\ FramesAgree' /\ WithinCap'
    BY <1>1, <1>2, PumpFrame, FramesFrame, CapFrame
  <1>4. TailFollows'
    BY <1>1, TailFrame DEF Reading
  <1>5. PolicyFollowed'
    BY <1>1, <1>2 DEF IInv, PolicyFollowed
  <1>6. CASE /\ archiving' = policy /\ lines' = << >>
             /\ seen' = IF policy THEN mirrored ELSE 0
    <2>1. Len(lines') = 0 /\ 1..Len(lines') = {}
      BY <1>6
    <2>2. HistoryOrdered'
      BY <1>1, <1>6, <2>1 DEF IInv, HistoryOrdered, Archived
    <2>3. TypeOK'
      <3>1. policy \in BOOLEAN /\ mirrored \in Nat /\ << >> \in Seq(Nat)
        BY DEF IInv, TypeOK
      <3>2. seen' \in Nat /\ lines' \in Seq(Nat)
        BY <1>6, <3>1
      <3>3. archiving' \in BOOLEAN /\ said' \in BOOLEAN /\ policy' \in BOOLEAN
        BY <1>1, <1>6, <3>1
      <3> QED
        BY <1>1, <3>2, <3>3 DEF IInv, TypeOK
    <2> QED
      BY <1>3, <1>4, <1>5, <2>2, <2>3 DEF IInv
  <1>7. CASE UNCHANGED <<archiving, lines, seen>>
    <2>1. HistoryOrdered'
      BY <1>1, <1>7, HistoryFrame
    <2>2. TypeOK'
      BY <1>1, <1>7 DEF IInv, TypeOK
    <2> QED
      BY <1>3, <1>4, <1>5, <2>1, <2>2 DEF IInv
  <1> QED
    BY <1>6, <1>7 DEF SetEnabled
-----------------------------------------------------------------------------
(***************************************************************************)
(* Attach and handoff                                                      *)
(***************************************************************************)
LEMMA AttachStep ==
    ASSUME IInv, Attach
    PROVE  IInv'
  <1> USE DEF terminal, recorder, store, archive, config
  <1>1. /\ PipelineFree /\ seed' = [shadow |-> fed, resume |-> seq + 1]
        /\ UNCHANGED <<terminal, pump, own, recorder, store, archive, config, faults>>
    BY DEF Attach
  <1>2. fed \in Nat /\ base \in Nat /\ seq \in Nat
    BY DEF IInv, TypeOK
  <1>3. /\ seed'.shadow = fed /\ seed'.resume = seq + 1
        /\ seed' \in [shadow : Nat, resume : Nat]
    BY <1>1, <1>2
  <1>4. TypeOK'
    BY <1>1, <1>3 DEF IInv, TypeOK
  <1>5. SeedCurrent'
    <2>1. /\ base + seq \in {fed - 1, fed}
          /\ Reading => base + seq = fed
      BY <1>1 DEF IInv, ChunkUnderWay, Reading, PipelineFree
    <2> QED
      BY <1>1, <1>2, <1>3, <2>1 DEF SeedCurrent, Reading
  <1>6. Moves
    BY <1>1 DEF Moves
  <1>7. ChunkUnderWay'
    BY <1>1 DEF IInv, ChunkUnderWay
  <1>8. FramesAgree' /\ HistoryOrdered' /\ WithinCap' /\ PolicyFollowed' /\ TailFollows'
    BY <1>1, <1>6, FramesFrame, HistoryFrame, CapFrame, PolicyFrame, TailFrame DEF Reading
  <1> QED
    BY <1>4, <1>5, <1>7, <1>8 DEF IInv

LEMMA PauseReleaseStep ==
    ASSUME IInv, Pause \/ Release
    PROVE  IInv'
  <1>1. Moves /\ pump' \in Stages
    BY DEF Pause, Release, Moves, Stages
  <1> QED
    BY <1>1, QuietStep DEF Pause, Release

\* The replacement numbers the archived lines on from the last one.
LEMMA NextLineType ==
    ASSUME IInv
    PROVE  NextLine \in Nat
  <1>1. rows \in Seq(Row)
    BY Types
  <1>2. CASE rows # << >>
    <2>1. Len(rows) \in 1..Len(rows) /\ Last(rows) = rows[Len(rows)]
      BY <1>1, <1>2 DEF Last
    <2>2. rows[Len(rows)] \in Row
      BY <1>1, <2>1
    <2> QED
      BY <1>2, <2>1, <2>2 DEF NextLine, Row
  <1> QED
    BY <1>2 DEF NextLine

LEMMA EnablePersistenceStep ==
    ASSUME AllOrNothing, IInv, EnablePersistence
    PROVE  IInv'
  <1> USE DEF recorder, store, archive, config
  <1> DEFINE k == IF policy THEN Frame(fed, mirrored, "grounded") ELSE Blank
  <1>1. /\ pump = "paused" /\ pump' = "reading" /\ own = "old" /\ own' = "new"
        /\ Own = << >> /\ cfg = "idle"
        /\ base' = fed /\ seq' = 0 /\ seed' = NoSeed /\ tailSize' = 0
        /\ persist' = policy /\ archiving' = (recording' /\ policy)
        /\ lines' = << >> /\ next' = NextLine /\ seen' = IF archiving' THEN mirrored ELSE 0
        /\ UNCHANGED <<fed, mirrored, ground, pending, rows, config>>
    BY DEF EnablePersistence, AllOrNothing, IInv, PolicyFollowed
  <1>2. PICK S \in Progress :
           /\ SaveKeyframe(S, k)
           /\ \/ S = Stores /\ SavesAll /\ recording' = TRUE
              \/ Fails /\ recording' = FALSE
    BY DEF EnablePersistence
  <1>3. /\ fed \in Nat /\ mirrored = fed /\ fed \in ground /\ 0 \in ground
        /\ pending \in [Daemons -> Seq(Chunks)] /\ said = policy
    BY <1>1 DEF IInv, TypeOK, ChunkUnderWay, FramesAgree, Grounded, PolicyFollowed
  <1>4. Own' = << >> /\ Len(Own') = 0 /\ pending["old"] = << >> /\ pending["new"] = << >>
    BY <1>1 DEF IInv, WithinCap, Own
  <1>5. /\ S = Stores \/ S = {}
        /\ S = {} => recording' = FALSE
    <2>1. faults \in Nat /\ MaxFault \in Nat /\ Stores # {}
      BY DEF IInv, TypeOK, SizesAssumption, Stores
    <2>2. CASE Mirror
      BY <1>2, <2>1, <2>2 DEF Fails, AllOrNothing
    <2>3. CASE ~Mirror
      BY <1>2, <2>1, <2>3, StoreNames
    <2> QED
      BY <2>2, <2>3 DEF FlagsAssumption
  <1>6. /\ k \in Frames /\ k.shadow = (IF policy THEN fed ELSE 0) /\ k.primary = k.shadow
        /\ k.shadow \in ground /\ k.shadow \in 0..fed
    BY <1>3 DEF Frame, Frames, Blank
  <1>7. faults' \in Nat /\ recording' \in BOOLEAN
    <2>1. faults \in Nat
      BY DEF IInv, TypeOK
    <2>2. faults' = faults \/ faults' = faults + 1
      BY <1>2 DEF SavesAll, Fails
    <2>3. recording' = TRUE \/ recording' = FALSE
      BY <1>2
    <2>4. faults' \in Nat
      BY <2>1, <2>2
    <2>5. recording' \in BOOLEAN
      BY <2>3
    <2> QED
      BY <2>4, <2>5
  <1> HIDE DEF k
  <1>8. ChunkUnderWay' /\ SeedCurrent'
    <2>1. base' + seq' = fed'
      BY <1>1, <1>3
    <2> QED
      BY <1>1, <1>3, <2>1 DEF ChunkUnderWay, SeedCurrent, NoSeed
  <1>9. HistoryOrdered'
    <2>1. Len(lines') = 0 /\ 1..Len(lines') = {}
      BY <1>1
    <2> QED
      BY <1>1, <2>1 DEF IInv, HistoryOrdered, Archived
  <1>10. /\ kf' \in [Stores -> Frames] /\ tail' \in [Stores -> Seq(Chunks)]
         /\ \/ /\ recording' = FALSE /\ kf' = kf /\ tail' = tail
            \/ kf' = [s \in Stores |-> k] /\ tail' = [s \in Stores |-> << >>]
    <2>1. kf \in [Stores -> Frames] /\ tail \in [Stores -> Seq(Chunks)] /\ << >> \in Seq(Chunks)
      <3>1. << >> \in Seq(Chunks)
        OBVIOUS
      <3> QED
        BY <3>1 DEF IInv, TypeOK, Frames
    <2>2. CASE S = Stores
      <3>1. kf' = [s \in Stores |-> k] /\ tail' = [s \in Stores |-> << >>]
        BY <1>2, <2>2 DEF SaveKeyframe
      <3> QED
        BY <1>6, <2>1, <3>1
    <2>3. CASE S = {}
      <3>1. kf' = [s \in Stores |-> kf[s]] /\ tail' = [s \in Stores |-> tail[s]]
        BY <1>2, <2>3 DEF SaveKeyframe
      <3> QED
        BY <1>5, <2>1, <2>3, <3>1
    <2> QED
      BY <1>5, <2>2, <2>3
  <1>11. TypeOK'
    <2>1. next' \in Nat /\ seen' \in Nat /\ base' \in Nat /\ seq' \in Nat /\ tailSize' \in Nat
      BY <1>1, <1>3, NextLineType
    <2>2. persist' \in BOOLEAN /\ archiving' \in BOOLEAN
      BY <1>1, <1>7 DEF IInv, TypeOK
    <2>3. seed' \in [shadow : Nat, resume : Nat] /\ lines' \in Seq(Nat)
          /\ pump' \in Stages /\ own' \in Daemons
      BY <1>1 DEF NoSeed, Stages, Daemons
    <2>4. /\ fed' \in Nat /\ mirrored' \in Nat /\ snap' \in Nat /\ switches' \in Nat
          /\ ground' \subseteq Nat /\ policy' \in BOOLEAN /\ said' \in BOOLEAN
          /\ rows' \in Seq([no : Nat, line : Nat])
          /\ cfg' \in {"idle", "recorder", "snapshot", "archive"}
      BY <1>1 DEF IInv, TypeOK
    <2>5. pending' \in [Daemons -> Seq(Chunks)]
      BY <1>1, <1>3
    <2> QED
      BY <1>7, <1>10, <2>1, <2>2, <2>3, <2>4, <2>5 DEF TypeOK, Frames
  <1>12. CASE recording' = FALSE /\ kf' = kf /\ tail' = tail
    <2>1. FramesAgree'
      BY <1>1, <1>3, <1>12 DEF IInv, FramesAgree
    <2>2. WithinCap'
      BY <1>1, <1>4, <1>12 DEF WithinCap
    <2>3. PolicyFollowed'
      BY <1>1, <1>3, <1>4, <1>12 DEF IInv, PolicyFollowed
    <2>4. TailFollows'
      <3> SUFFICES ASSUME NEW s \in Stores PROVE \E a \in 0..fed : Follows(s, a)'
        BY <1>1 DEF TailFollows
      <3>1. PICK a \in 0..fed : Follows(s, a)
        BY DEF IInv, TailFollows
      <3>2. 1..Len(Own') = {} /\ a + Len(tail[s]) + Len(Own') <= fed
        <4>1. Len(Own) = 0
          BY <1>1
        <4> QED
          BY <1>4, <3>1, <4>1 DEF Follows
      <3>3. Follows(s, a)'
        BY <1>1, <1>12, <3>1, <3>2 DEF Follows
      <3> QED
        BY <3>3
    <2> QED
      BY <1>8, <1>9, <1>11, <2>1, <2>2, <2>3, <2>4 DEF IInv
  <1>13. CASE kf' = [s \in Stores |-> k] /\ tail' = [s \in Stores |-> << >>]
    <2>1. \A s \in Stores : kf'[s] = k /\ tail'[s] = << >> /\ Len(tail'[s]) = 0
      BY <1>13
    <2>2. FramesAgree'
      BY <1>1, <1>3, <1>6, <2>1 DEF FramesAgree
    <2>3. WithinCap'
      <3>1. HardCap \in Nat \ {0}
        BY DEF SizesAssumption
      <3> QED
        BY <1>1, <1>4, <2>1, <3>1 DEF WithinCap
    <2>4. PolicyFollowed'
      BY <1>1, <1>3, <1>4, <1>6, <2>1 DEF PolicyFollowed
    <2>5. TailFollows'
      <3>1. persist' => k.shadow = base' + seq'
        BY <1>1, <1>3, <1>6
      <3>2. base' \in Nat /\ seq' \in Nat /\ fed' \in Nat /\ k.shadow \in 0..fed'
        BY <1>1, <1>3, <1>6
      <3> QED
        BY <1>4, <1>13, <3>1, <3>2, KeyframeFollows
    <2> QED
      BY <1>8, <1>9, <1>11, <2>2, <2>3, <2>4, <2>5 DEF IInv
  <1> QED
    BY <1>10, <1>12, <1>13

-----------------------------------------------------------------------------
(***************************************************************************)
(* The theorems                                                            *)
(***************************************************************************)
LEMMA NextStep ==
    ASSUME AllOrNothing, IInv, [Next]_vars
    PROVE  IInv'
  <1>1. ~Mishaps
    BY DEF AllOrNothing
  <1>2. CASE Pumping
    BY <1>1, <1>2, PumpFeedsStep, PumpMirrorsStep, PumpRecordsStep, EndingStep DEF Pumping
  <1>3. CASE Configuring
    BY <1>3, SetPersistScrollbackStep, SavesSnapshotStep, SetEnabledStep DEF Configuring
  <1>4. CASE Ending
    BY <1>4, EndingStep
  <1>5. CASE FlushIdle \/ \E d \in Daemons : Flush(d)
    BY <1>5, TickersStep
  <1>6. CASE ConfigureSame \/ ConfigureErases \/ ConfigureOn
    BY <1>1, <1>6, ConfigureSameStep, ConfigureErasesStep, ConfigureOnStep
  <1>7. CASE Attach \/ Pause \/ Release \/ EnablePersistence
    BY <1>7, AttachStep, PauseReleaseStep, EnablePersistenceStep
  <1>8. CASE UNCHANGED vars
    <2>1. Moves /\ pump' \in Stages
      BY <1>8 DEF vars, Moves, IInv, TypeOK
    <2> QED
      BY <1>8, <2>1, QuietStep DEF vars
  <1> QED
    BY <1>2, <1>3, <1>4, <1>5, <1>6, <1>7, <1>8 DEF Next

\* The inductive invariant: the tail and what is pending follow the keyframe
\* chunk by chunk, the recorders follow the policy, the archive has no gap.
THEOREM Invariance == AllOrNothing => (Spec => []IInv)
  <1> SUFFICES ASSUME AllOrNothing PROVE Spec => []IInv
    OBVIOUS
  <1>1. Init => IInv
    BY InitStep
  <1>2. IInv /\ [Next]_vars => IInv'
    BY NextStep
  <1> QED
    BY <1>1, <1>2, PTL DEF Spec

\* What loadRecoveredCatalog finds after a crash is an unbroken beginning of
\* the pane's output, once and in order, on a grounded parser.
THEOREM Recovery == AllOrNothing => (Spec => []RecoveredIsPrefix)
  <1> SUFFICES ASSUME AllOrNothing PROVE Spec => []RecoveredIsPrefix
    OBVIOUS
  <1>1. IInv => RecoveredIsPrefix
    <2> SUFFICES ASSUME IInv, NEW s \in Stores, kf[s].boundary = "grounded"
                 PROVE  /\ kf[s].primary = kf[s].shadow
                        /\ kf[s].shadow \in ground
                        /\ \A i \in DOMAIN tail[s] : tail[s][i].chunk = kf[s].shadow + i
                        /\ kf[s].shadow + Len(tail[s]) <= fed
      BY DEF RecoveredIsPrefix
    <2>1. PICK a \in 0..fed : Follows(s, a)
      BY DEF IInv, TailFollows
    <2>2. tail[s] \in Seq(Chunks) /\ Len(tail[s]) \in Nat /\ Len(Own) \in Nat /\ fed \in Nat
      BY Types
    <2>3. DOMAIN tail[s] = 1..Len(tail[s]) /\ a = kf[s].shadow
      BY <2>1, <2>2 DEF Follows
    <2>4. a + Len(tail[s]) + Len(Own) <= fed
      BY <2>1 DEF Follows
    <2>5. a + Len(tail[s]) <= fed
      BY <2>2, <2>4
    <2> QED
      BY <2>1, <2>3, <2>5 DEF IInv, FramesAgree, Follows
  <1>2. Spec => []IInv
    BY Invariance
  <1> QED
    BY <1>1, <1>2, PTL

\* AppendPaneBatch never refuses what a recorder has pending, so that no
\* refusal ends the pump.
THEOREM Acceptance == AllOrNothing => (Spec => []StoreAccepts)
  <1> SUFFICES ASSUME AllOrNothing PROVE Spec => []StoreAccepts
    OBVIOUS
  <1>1. IInv => StoreAccepts
    BY OwnAccepted DEF StoreAccepts
  <1>2. Spec => []IInv
    BY Invariance
  <1> QED
    BY <1>1, <1>2, PTL

\* Once mux.configure has answered that persistence is off, the recovery
\* records hold no text and none is on its way to them.
THEOREM Erasure == AllOrNothing => (Spec => []ErasedWhenOff)
  <1> SUFFICES ASSUME AllOrNothing PROVE Spec => []ErasedWhenOff
    OBVIOUS
  <1>1. IInv => ErasedWhenOff
    BY DEF IInv, PolicyFollowed, ErasedWhenOff
  <1>2. Spec => []IInv
    BY Invariance
  <1> QED
    BY <1>1, <1>2, PTL

\* The seed of an attach and the outputs from its resume_sequence on show
\* each chunk once.
THEOREM Seeding == AllOrNothing => (Spec => []SeedBarrier)
  <1> SUFFICES ASSUME AllOrNothing PROVE Spec => []SeedBarrier
    OBVIOUS
  <1>1. IInv => SeedBarrier
    BY DEF IInv, SeedCurrent, SeedBarrier
  <1>2. Spec => []IInv
    BY Invariance
  <1> QED
    BY <1>1, <1>2, PTL

\* history.db holds the lines that left the live scrollback in their order,
\* each at most once and numbered without a gap, whatever is enabled, fails
\* or is handed over in between.
THEOREM Archiving == AllOrNothing => (Spec => []HistoryOrdered)
  <1> SUFFICES ASSUME AllOrNothing PROVE Spec => []HistoryOrdered
    OBVIOUS
  <1>1. IInv => HistoryOrdered
    BY DEF IInv
  <1>2. Spec => []IInv
    BY Invariance
  <1> QED
    BY <1>1, <1>2, PTL
=============================================================================
