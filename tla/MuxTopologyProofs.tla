-------------------------- MODULE MuxTopologyProofs --------------------------
(***************************************************************************)
(* Proofs about MuxTopology: its memory and its catalog stay consistent,   *)
(* selections last, and closing a window selects its neighbour.            *)
(***************************************************************************)
EXTENDS MuxTopology, FiniteSetTheorems, FunctionTheorems, WellFoundedInduction, TLAPS

-----------------------------------------------------------------------------
(* The inductive invariant                                                 *)

Kinds == {"live", "exited", "recovered"}

(* Memory: ids are of those given out, a window is of one session and a    *)
(* session of one project                                                  *)
PaneRecords(mem) == [project : Projects, kind : Kinds,
                     logical : 1..mem.nextSession, window : 1..mem.nextWindow]
MemoryShape(mem) ==
    /\ mem = [panes |-> mem.panes, topo |-> mem.topo, activeOf |-> mem.activeOf,
              focus |-> mem.focus, nextSession |-> mem.nextSession, nextWindow |-> mem.nextWindow]
    /\ mem.nextSession \in 0..MaxPane /\ mem.nextWindow \in 0..MaxWindow
PanesOK(mem) ==
    /\ \A n \in DOMAIN mem.panes : n \in 1..mem.nextSession /\ mem.panes[n] \in PaneRecords(mem)
    /\ \A a, b \in DOMAIN mem.panes :
          /\ mem.panes[a].window = mem.panes[b].window => mem.panes[a].logical = mem.panes[b].logical
          /\ mem.panes[a].logical = mem.panes[b].logical => mem.panes[a].project = mem.panes[b].project
TopoOK(mem) == \A l \in DOMAIN mem.topo :
                  mem.topo[l].order \in Seq(Nat) /\ IsInjective(mem.topo[l].order)
FocusOK(mem) ==
    /\ DOMAIN mem.activeOf \subseteq Projects
    /\ mem.focus = [logical |-> mem.focus.logical, project |-> mem.focus.project]
    /\ mem.focus.logical \in 0..mem.nextSession
    /\ mem.focus.logical # 0 => mem.focus.project \in Projects
    /\ mem.focus.logical # 0 /\ mem.focus.project \in DOMAIN mem.activeOf
          => mem.activeOf[mem.focus.project] = mem.focus.logical
    /\ \A n \in DOMAIN mem.panes :
          mem.panes[n].logical = mem.focus.logical => mem.panes[n].project = mem.focus.project
MemOK(mem) == MemoryShape(mem) /\ PanesOK(mem) /\ TopoOK(mem) /\ FocusOK(mem)

(* The catalog: foreign keys hold, and a pane with a keyframe is in a       *)
(* window of its session                                                    *)
DbShape(d) ==
    /\ d = [sessions |-> d.sessions, windows |-> d.windows, panes |-> d.panes, active |-> d.active]
    /\ \A l \in DOMAIN d.sessions : d.sessions[l] \in Projects
    /\ \A w \in DOMAIN d.windows : w \in 1..MaxWindow /\ d.windows[w].idx \in Nat
RowsOK(d) ==
    \A n \in DOMAIN d.panes :
        /\ n \in 1..MaxPane /\ d.panes[n].session \in 1..MaxPane
        /\ d.panes[n] = [window |-> d.panes[n].window, session |-> d.panes[n].session, key |-> d.panes[n].key]
        /\ d.panes[n].session \in DOMAIN d.sessions /\ d.panes[n].window \in DOMAIN d.windows
        /\ d.panes[n].key \in BOOLEAN
        /\ d.panes[n].key => d.windows[d.panes[n].window].session = d.panes[n].session
ActiveOK(d) == \A p \in DOMAIN d.active : p \in Projects /\ d.active[p] \in DOMAIN d.sessions
DbOK(d) == DbShape(d) /\ RowsOK(d) /\ ActiveOK(d)

(* While the daemon runs *)
Agrees(mem, d) ==
    /\ \A n \in DOMAIN d.panes : d.panes[n].key =>
          /\ n \in DOMAIN mem.panes
          /\ d.panes[n].session = mem.panes[n].logical /\ d.panes[n].window = mem.panes[n].window
    /\ \A n \in DOMAIN mem.panes :
          /\ mem.panes[n].kind = "live" => n \in DOMAIN d.panes /\ d.panes[n].key
          /\ mem.panes[n].logical \in DOMAIN d.sessions
                => d.sessions[mem.panes[n].logical] = mem.panes[n].project

(* Selections.  Until the second end of the daemon a project's durable     *)
(* selection is a session of its own.                                      *)
ActiveRight(d) == \A p \in DOMAIN d.active : d.sessions[d.active[p]] = p
ActiveKeyed(d) ==
    \A p \in DOMAIN d.active : \E n \in DOMAIN d.panes : d.panes[n].key /\ d.panes[n].session = d.active[p]
AllKeyed(d) ==
    /\ \A n \in DOMAIN d.panes : d.panes[n].key
    /\ \A l \in DOMAIN d.sessions : \E n \in DOMAIN d.panes : d.panes[n].session = l
Right(d) == /\ crashes <= 1 => ActiveRight(d)
            /\ crashes = 0 => ActiveKeyed(d)
Young(mem, d) ==
    /\ crashes <= 1 => \A p \in DOMAIN d.active : d.active[p] \in 1..mem.nextSession
    /\ crashes = 0 => AllKeyed(d) /\ \A n \in DOMAIN mem.panes : mem.panes[n].kind # "recovered"
Exists(mem) == \A p \in DOMAIN mem.activeOf :
                  \E n \in DOMAIN mem.panes : mem.panes[n].project = p /\ mem.panes[n].logical = mem.activeOf[p]
Durable(mem, d) == \A p \in DOMAIN mem.activeOf :
                      LiveIn(mem, mem.activeOf[p]) # {} => p \in DOMAIN d.active /\ d.active[p] = mem.activeOf[p]
Lasts(mem, d) == MaxCrash <= 2 => Exists(mem) /\ Durable(mem, d)

IInv ==
    /\ status \in {"up", "crash", "torn"} /\ crashes \in 0..MaxCrash
    /\ MemOK(m) /\ DbOK(db)
    /\ up => Agrees(m, db) /\ Right(db) /\ Young(m, db) /\ Lasts(m, db)
    /\ ~up => /\ crashes > 0
              /\ crashes <= 2 => ActiveRight(db)
              /\ crashes <= 1 => ActiveKeyed(db)

-----------------------------------------------------------------------------
(* Orders                                                                   *)

LEMMA SortedFacts ==
    ASSUME NEW S, IsFiniteSet(S), NEW key, \A x \in S : key[x] \in Int,
           \A x, y \in S : key[x] = key[y] => x = y
    PROVE  /\ Cardinality(S) \in Nat
           /\ Sorted(S, key) \in [1..Cardinality(S) -> S]
           /\ \A a, b \in 1..Cardinality(S) : Sorted(S, key)[a] = Sorted(S, key)[b] => a = b
           /\ \A x \in S : \E k \in 1..Cardinality(S) : Sorted(S, key)[k] = x
  <1> DEFINE below(x) == {j \in S : key[j] <= key[x]}
             rank(x) == Cardinality(below(x))
             R == [x \in S |-> rank(x)]
             T == 1..Cardinality(S)
  <1>1. Cardinality(S) \in Nat
    BY FS_CardinalityType
  <1>2. ASSUME NEW x \in S
        PROVE  IsFiniteSet(below(x)) /\ rank(x) \in T
    <2>1. below(x) \in SUBSET S /\ x \in below(x)
      OBVIOUS
    <2>2. IsFiniteSet(below(x)) /\ rank(x) <= Cardinality(S)
      BY <2>1, FS_Subset
    <2>3. rank(x) \in Nat /\ (rank(x) = 0 => below(x) = {})
      BY <2>2, FS_CardinalityType, FS_EmptySet
    <2> HIDE DEF below, rank
    <2> QED
      BY <1>1, <2>1, <2>2, <2>3
  <1>3. ASSUME NEW x \in S, NEW y \in S, key[x] < key[y]
        PROVE  rank(x) # rank(y)
    <2>0. key[x] \in Int /\ key[y] \in Int /\ \A j \in S : key[j] \in Int
      OBVIOUS
    <2>4. ASSUME NEW j \in S, key[j] <= key[x] PROVE key[j] <= key[y]
      BY <1>3, <2>0, <2>4
    <2>5. key[y] <= key[y] /\ ~(key[y] <= key[x])
      BY <1>3, <2>0
    <2>1. below(x) \in SUBSET below(y) /\ y \in below(y) /\ y \notin below(x)
      BY <2>4, <2>5
    <2>2. IsFiniteSet(below(y))
      BY <1>2
    <2>3. rank(x) = rank(y) => below(x) = below(y)
      BY <2>1, <2>2, FS_Subset
    <2> QED
      BY <2>1, <2>3
  <1>4. ASSUME NEW x \in S, NEW y \in S, rank(x) = rank(y)
        PROVE  x = y
    <2>1. ~(key[x] < key[y]) /\ ~(key[y] < key[x])
      BY <1>3, <1>4
    <2> HIDE DEF rank
    <2> QED
      BY <2>1
  <1> HIDE DEF rank
  <1>5. R \in Injection(S, T)
    BY <1>2, <1>4 DEF Injection, IsInjective
  <1>6. IsFiniteSet(T) /\ Cardinality(T) = Cardinality(S)
    <2> HIDE DEF R
    <2> QED
      BY <1>1, FS_Interval
  <1>7. R \in Surjection(S, T)
    <2> HIDE DEF T, R
    <2> QED
      BY <1>5, <1>6, FS_Injection
  <1>8. ASSUME NEW k \in T
        PROVE  Sorted(S, key)[k] \in S /\ rank(Sorted(S, key)[k]) = k
    <2>1. Sorted(S, key)[k] = CHOOSE i \in S : rank(i) = k
      BY DEF Sorted, rank
    <2>2. \E i \in S : rank(i) = k
      BY <1>7 DEF Surjection
    <2> QED
      BY <2>1, <2>2
  <1> DEFINE at(k) == CHOOSE i \in S : rank(i) = k
  <1>13. Sorted(S, key) = [k \in T |-> at(k)]
    BY DEF Sorted, rank
  <1>9. DOMAIN Sorted(S, key) = T /\ Sorted(S, key) = [k \in T |-> Sorted(S, key)[k]]
    <2> HIDE DEF T, at
    <2> QED
      BY <1>13
  <1>10. ASSUME NEW a \in T, NEW b \in T, Sorted(S, key)[a] = Sorted(S, key)[b]
         PROVE  a = b
    BY <1>8, <1>10
  <1>11. ASSUME NEW x \in S
         PROVE  \E k \in T : Sorted(S, key)[k] = x
    <2>1. rank(x) \in T
      BY <1>2 DEF rank
    <2> WITNESS rank(x) \in T
    <2>2. Sorted(S, key)[rank(x)] \in S /\ rank(Sorted(S, key)[rank(x)]) = rank(x)
      BY <1>8, <2>1
    <2> QED
      BY <1>4, <2>2
  <1> HIDE DEF T, R
  <1>12. Sorted(S, key) \in [T -> S]
    BY <1>8, <1>9
  <1> QED
    BY <1>1, <1>10, <1>11, <1>12 DEF T

(* SortedFacts for sequences *)
LEMMA SortedSeq ==
    ASSUME NEW S, IsFiniteSet(S), NEW key, \A x \in S : key[x] \in Int,
           \A x, y \in S : key[x] = key[y] => x = y
    PROVE  /\ Sorted(S, key) \in Seq(S)
           /\ DOMAIN Sorted(S, key) = 1..Len(Sorted(S, key))
           /\ IsInjective(Sorted(S, key))
           /\ ToSet(Sorted(S, key)) = S
           /\ S # {} => Sorted(S, key) # << >> /\ Len(Sorted(S, key)) > 0
  <1> DEFINE q == Sorted(S, key)
             n == Cardinality(S)
  <1>1. /\ n \in Nat /\ q \in [1..n -> S]
        /\ \A a, b \in 1..n : q[a] = q[b] => a = b
        /\ \A x \in S : \E k \in 1..n : q[k] = x
    BY SortedFacts
  <1> HIDE DEF q, n
  <1>2. q \in Seq(S) /\ Len(q) = n /\ DOMAIN q = 1..n
    BY <1>1
  <1>3. ToSet(q) = S
    BY <1>1, <1>2 DEF ToSet
  <1>4. S # {} => n > 0 /\ q # << >>
    BY <1>1, <1>2
  <1>5. IsInjective(q)
    BY <1>1, <1>2 DEF IsInjective
  <1> QED
    BY <1>2, <1>3, <1>4, <1>5 DEF q

LEMMA LexFacts ==
    ASSUME NEW x \in Nat, NEW y \in Nat
    PROVE  /\ Lex(x) \in Int
           /\ x > 0 => Lex(x) > 0
           /\ x < 100 => Lex(x) < 200
           /\ Lex(x) = Lex(y) => x = y
  BY DEF Lex

LEMMA SortedIdsFacts ==
    ASSUME NEW S, S \subseteq Nat, IsFiniteSet(S)
    PROVE  /\ SortedIds(S) \in Seq(S)
           /\ S # {} => SortedIds(S) # << >> /\ Len(SortedIds(S)) > 0
           /\ S # {} => FirstId(SortedIds(S)) \in S /\ Last(SortedIds(S)) \in S
           /\ S = {} => FirstId(SortedIds(S)) = 0
  <1> DEFINE key == [i \in S |-> Lex(i)]
             q == SortedIds(S)
  <1>1. \A x \in S : key[x] \in Int
    BY LexFacts
  <1>2. \A x, y \in S : key[x] = key[y] => x = y
    BY LexFacts
  <1>3. q = Sorted(S, key)
    BY DEF SortedIds
  <1>4. q \in Seq(S) /\ (S # {} => q # << >> /\ Len(q) > 0)
    <2> HIDE DEF q, key
    <2> QED
      BY <1>1, <1>2, <1>3, SortedSeq
  <1> HIDE DEF q
  <1>5. S = {} => q = << >>
    BY <1>4
  <1> QED
    BY <1>4, <1>5 DEF FirstId, Last, q

LEMMA SeqOfMore ==
    ASSUME NEW T, NEW S, S \subseteq T, NEW q \in Seq(S)
    PROVE  q \in Seq(T)
  <1>1. Len(q) \in Nat /\ q \in [1..Len(q) -> S]
    OBVIOUS
  <1>2. q \in [1..Len(q) -> T]
    BY <1>1
  <1> QED
    BY <1>1, <1>2

LEMMA PositionFacts ==
    ASSUME NEW q \in Seq(Nat), NEW x
    PROVE  /\ Position(q, x) \in 1..(Len(q) + 1)
           /\ x \in ToSet(q) => Position(q, x) \in 1..Len(q) /\ q[Position(q, x)] = x
  <1>1. DOMAIN q = 1..Len(q) /\ Len(q) \in Nat
    OBVIOUS
  <1>2. CASE x \in ToSet(q)
    <2>1. \E i \in DOMAIN q : q[i] = x
      BY <1>2 DEF ToSet
    <2>2. Position(q, x) \in DOMAIN q /\ q[Position(q, x)] = x
      BY <1>2, <2>1 DEF Position
    <2> QED
      BY <1>1, <2>2
  <1>3. CASE x \notin ToSet(q)
    BY <1>1, <1>3 DEF Position
  <1> QED
    BY <1>2, <1>3

LEMMA OrderedFacts ==
    ASSUME NEW q \in Seq(Nat), NEW S, S \subseteq Nat \ {0}, IsFiniteSet(S)
    PROVE  /\ Ordered(q, S) \in Seq(S)
           /\ DOMAIN Ordered(q, S) = 1..Len(Ordered(q, S))
           /\ IsInjective(Ordered(q, S))
           /\ ToSet(Ordered(q, S)) = S
  <1> DEFINE key == [x \in S |-> IF x \in ToSet(q) THEN Position(q, x) ELSE Len(q) + Lex(x)]
  <1>1. Len(q) \in Nat
    OBVIOUS
  <1>2. ASSUME NEW x \in S, x \in ToSet(q)
        PROVE  key[x] \in Int /\ key[x] <= Len(q) /\ q[key[x]] = x
    <2>1. key[x] = Position(q, x)
      BY <1>2
    <2> HIDE DEF key
    <2> QED
      BY <1>1, <1>2, <2>1, PositionFacts
  <1>3. ASSUME NEW x \in S, x \notin ToSet(q)
        PROVE  key[x] \in Int /\ key[x] > Len(q) /\ key[x] = Len(q) + Lex(x)
    <2>1. key[x] = Len(q) + Lex(x)
      BY <1>3
    <2>2. Lex(x) \in Int /\ Lex(x) > 0
      BY LexFacts
    <2> HIDE DEF key
    <2> QED
      BY <1>1, <2>1, <2>2
  <1> HIDE DEF key
  <1>4. \A x \in S : key[x] \in Int
    BY <1>2, <1>3
  <1>5. ASSUME NEW x \in S, NEW y \in S, key[x] = key[y]
        PROVE  x = y
    <2>1. CASE x \in ToSet(q) /\ y \in ToSet(q)
      BY <1>2, <1>5, <2>1
    <2>2. CASE x \notin ToSet(q) /\ y \notin ToSet(q)
      <3>1. Lex(x) \in Int /\ Lex(y) \in Int /\ Len(q) + Lex(x) = Len(q) + Lex(y)
        BY <1>3, <1>5, <2>2, LexFacts
      <3>2. Lex(x) = Lex(y)
        BY <1>1, <3>1
      <3> QED
        BY <3>2, LexFacts
    <2>3. CASE x \in ToSet(q) /\ y \notin ToSet(q)
      <3>1. key[x] <= Len(q) /\ key[y] > Len(q) /\ key[x] \in Int /\ key[y] \in Int
        BY <1>2, <1>3, <2>3
      <3> QED
        BY <1>1, <1>5, <3>1
    <2>4. CASE x \notin ToSet(q) /\ y \in ToSet(q)
      <3>1. key[y] <= Len(q) /\ key[x] > Len(q) /\ key[x] \in Int /\ key[y] \in Int
        BY <1>2, <1>3, <2>4
      <3> QED
        BY <1>1, <1>5, <3>1
    <2> QED
      BY <2>1, <2>2, <2>3, <2>4
  <1>6. Ordered(q, S) = Sorted(S, key)
    BY DEF Ordered, key
  <1> QED
    BY <1>4, <1>5, <1>6, SortedSeq

(* A sequence that lists S by its keys is S sorted                          *)
LEMMA SortedAlong ==
    ASSUME NEW q \in Seq(Nat), IsInjective(q), NEW key,
           \A a, b \in 1..Len(q) : key[q[a]] <= key[q[b]] <=> a <= b
    PROVE  Sorted(ToSet(q), key) = q
  <1> DEFINE S == ToSet(q)
             below(x) == {j \in S : key[j] <= key[x]}
             rank(x) == Cardinality(below(x))
  <1>1. Len(q) \in Nat /\ DOMAIN q = 1..Len(q) /\ q = [k \in 1..Len(q) |-> q[k]]
    OBVIOUS
  <1>2. \A a, b \in 1..Len(q) : q[a] = q[b] => a = b
    BY <1>1 DEF IsInjective
  <1>3. S = {q[a] : a \in 1..Len(q)}
    BY <1>1 DEF ToSet
  <1>4. ASSUME NEW n \in 0..Len(q)
        PROVE  Cardinality({q[a] : a \in 1..n}) = n
    <2> DEFINE T == {q[a] : a \in 1..n}
               f == [a \in 1..n |-> q[a]]
    <2>1. \A a \in 1..n : a \in 1..Len(q)
      BY <1>1
    <2>2. f \in Injection(1..n, T)
      BY <1>2, <2>1 DEF Injection, IsInjective
    <2>3. f \in Surjection(1..n, T)
      BY DEF Surjection
    <2>4. ExistsBijection(1..n, T)
      BY <2>2, <2>3 DEF ExistsBijection, Bijection
    <2> HIDE DEF T, f
    <2>5. IsFiniteSet(1..n) /\ Cardinality(1..n) = n
      <3>1. n \in Int /\ 1 \in Int /\ n >= 0
        BY <1>1
      <3>2. IsFiniteSet(1..n) /\ Cardinality(1..n) = IF 1 > n THEN 0 ELSE n - 1 + 1
        BY <3>1, FS_Interval
      <3> QED
        BY <3>1, <3>2
    <2>6. Cardinality(T) = n
      BY <2>4, <2>5, FS_Bijection
    <2> QED
      BY <2>6 DEF T
  <1>5. ASSUME NEW k \in 1..Len(q)
        PROVE  rank(q[k]) = k
    <2>1. \A a \in 1..Len(q) : key[q[a]] <= key[q[k]] <=> a \in 1..k
      BY <1>1
    <2>2. below(q[k]) = {q[a] : a \in 1..k}
      BY <1>1, <1>3, <2>1
    <2>3. k \in 0..Len(q)
      BY <1>1
    <2> QED
      BY <1>4, <2>2, <2>3
  <1>6. Cardinality(S) = Len(q)
    <2>1. Len(q) \in 0..Len(q)
      BY <1>1
    <2> QED
      BY <1>3, <1>4, <2>1
  <1> HIDE DEF rank, S
  <1>7. ASSUME NEW k \in 1..Len(q)
        PROVE  q[k] = CHOOSE i \in S : rank(i) = k
    <2>1. q[k] \in S /\ rank(q[k]) = k
      BY <1>3, <1>5
    <2>2. ASSUME NEW i \in S, rank(i) = k PROVE i = q[k]
      BY <1>3, <1>5, <2>2
    <2> QED
      BY <2>1, <2>2
  <1>8. Sorted(S, key) = [k \in 1..Len(q) |-> CHOOSE i \in S : rank(i) = k]
    BY <1>6 DEF Sorted, rank
  <1> QED
    BY <1>1, <1>7, <1>8 DEF S

(* An order of the right windows stays as it is                             *)
LEMMA PositionOf ==
    ASSUME NEW q \in Seq(Nat), IsInjective(q), NEW a \in 1..Len(q)
    PROVE  q[a] \in ToSet(q) /\ Position(q, q[a]) = a
  <1>1. DOMAIN q = 1..Len(q)
    OBVIOUS
  <1>2. q[a] \in ToSet(q)
    BY <1>1 DEF ToSet
  <1>3. Position(q, q[a]) \in 1..Len(q) /\ q[Position(q, q[a])] = q[a]
    BY <1>2, PositionFacts
  <1> QED
    BY <1>1, <1>2, <1>3 DEF IsInjective

LEMMA OrderedSame ==
    ASSUME NEW q \in Seq(Nat), IsInjective(q)
    PROVE  Ordered(q, ToSet(q)) = q
  <1> DEFINE key == [x \in ToSet(q) |-> IF x \in ToSet(q) THEN Position(q, x) ELSE Len(q) + Lex(x)]
  <1>1. \A a \in 1..Len(q) : q[a] \in ToSet(q) /\ key[q[a]] = a
    BY PositionOf
  <1>2. Ordered(q, ToSet(q)) = Sorted(ToSet(q), key)
    BY DEF Ordered
  <1> HIDE DEF key
  <1> QED
    BY <1>1, <1>2, SortedAlong

(* The order of a session whose window at place p is closed                 *)
Shortened(q, p) == [i \in 1..(Len(q) - 1) |-> IF i < p THEN q[i] ELSE q[i + 1]]
LEMMA OrderedRest ==
    ASSUME NEW q \in Seq(Nat), IsInjective(q), NEW p \in 1..Len(q), NEW r, r = Shortened(q, p)
    PROVE  /\ Ordered(q, ToSet(q) \ {q[p]}) = r
           /\ r \in Seq(Nat) /\ Len(r) = Len(q) - 1 /\ IsInjective(r)
           /\ ToSet(r) = ToSet(q) \ {q[p]}
  <1> DEFINE at(i) == IF i < p THEN i ELSE i + 1
             S == ToSet(q) \ {q[p]}
             key == [x \in S |-> IF x \in ToSet(q) THEN Position(q, x) ELSE Len(q) + Lex(x)]
  <1>1. /\ Len(q) \in Nat /\ DOMAIN q = 1..Len(q) /\ p \in Nat
        /\ \A a, b \in 1..Len(q) : q[a] = q[b] => a = b
        /\ \A a \in 1..Len(q) : q[a] \in Nat
    BY DEF IsInjective
  <1>2. ASSUME NEW i \in 1..(Len(q) - 1)
        PROVE  at(i) \in 1..Len(q) /\ at(i) # p /\ r[i] = q[at(i)]
    BY <1>1 DEF Shortened
  <1>3. r \in Seq(Nat) /\ Len(r) = Len(q) - 1 /\ DOMAIN r = 1..(Len(q) - 1)
    <2>1. r = [i \in 1..(Len(q) - 1) |-> r[i]]
      BY DEF Shortened
    <2>2. Len(q) - 1 \in Nat
      BY <1>1
    <2>3. \A i \in 1..(Len(q) - 1) : r[i] \in Nat
      BY <1>1, <1>2
    <2> QED
      BY <2>1, <2>2, <2>3
  <1>4. ASSUME NEW a \in 1..(Len(q) - 1), NEW b \in 1..(Len(q) - 1)
        PROVE  (at(a) <= at(b) <=> a <= b) /\ (at(a) = at(b) => a = b)
    BY <1>1
  <1>5. \A a, b \in 1..(Len(q) - 1) : r[a] = r[b] => a = b
    BY <1>1, <1>2, <1>4
  <1>6. IsInjective(r)
    BY <1>3, <1>5 DEF IsInjective
  <1>7. ASSUME NEW a \in 1..Len(q), a # p
        PROVE  \E i \in 1..(Len(q) - 1) : at(i) = a
    <2>1. CASE a < p
      <3>1. a \in 1..(Len(q) - 1) /\ at(a) = a
        BY <1>1, <2>1
      <3> QED
        BY <3>1
    <2>2. CASE a > p
      <3>1. a - 1 \in 1..(Len(q) - 1) /\ at(a - 1) = a
        BY <1>1, <2>2
      <3> QED
        BY <3>1
    <2> QED
      BY <1>1, <1>7, <2>1, <2>2
  <1>8. ToSet(q) = {q[a] : a \in 1..Len(q)} /\ ToSet(r) = {r[i] : i \in 1..(Len(q) - 1)}
    BY <1>1, <1>3 DEF ToSet
  <1> HIDE DEF at
  <1>9. ToSet(r) = S
    <2>1. ASSUME NEW i \in 1..(Len(q) - 1) PROVE r[i] \in S
      BY <1>1, <1>2, <1>8
    <2>2. ASSUME NEW x \in S PROVE x \in ToSet(r)
      <3>1. PICK a \in 1..Len(q) : q[a] = x
        BY <1>8
      <3>2. a # p
        BY <3>1
      <3>3. PICK i \in 1..(Len(q) - 1) : at(i) = a
        BY <1>7, <3>2
      <3> QED
        BY <1>2, <1>8, <3>1, <3>3
    <2> QED
      BY <1>8, <2>1, <2>2
  <1>10. ASSUME NEW i \in 1..(Len(q) - 1)
         PROVE  key[r[i]] = at(i)
    <2>1. r[i] \in S /\ r[i] \in ToSet(q) /\ r[i] = q[at(i)] /\ at(i) \in 1..Len(q)
      BY <1>2, <1>8, <1>9
    <2>2. Position(q, r[i]) = at(i)
      BY <2>1, PositionOf
    <2> QED
      BY <2>1, <2>2
  <1>11. Ordered(q, S) = Sorted(S, key)
    BY DEF Ordered
  <1> HIDE DEF key, S
  <1>12. ASSUME NEW a \in 1..Len(r), NEW b \in 1..Len(r)
         PROVE  key[r[a]] <= key[r[b]] <=> a <= b
    <2>1. a \in 1..(Len(q) - 1) /\ b \in 1..(Len(q) - 1)
      BY <1>3
    <2>2. key[r[a]] = at(a) /\ key[r[b]] = at(b)
      BY <1>10, <2>1
    <2>3. at(a) <= at(b) <=> a <= b
      BY <1>4, <2>1
    <2> QED
      BY <2>2, <2>3
  <1>13. Ordered(q, S) = r
    BY <1>3, <1>6, <1>9, <1>11, <1>12, SortedAlong
  <1> QED
    BY <1>3, <1>6, <1>9, <1>13 DEF S

LEMMA MaxFacts ==
    ASSUME NEW B \in Nat, NEW S, S \subseteq 0..B, S # {}
    PROVE  Max(S) \in S /\ \A y \in S : y <= Max(S)
  <1> DEFINE R == OpToRel(<, Nat)
             U == {b \in Nat : \A y \in S : y <= b}
  <1>1. B \in U
    OBVIOUS
  <1>2. \E b \in U : \A c \in U : <<c, b>> \notin R
    <2>1. IsWellFoundedOn(R, Nat)
      BY NatLessThanWellFounded
    <2>2. U \subseteq Nat /\ U # {}
      BY <1>1
    <2> HIDE DEF R, U
    <2> QED
      BY <2>1, <2>2, WFMin
  <1>3. PICK b \in U : \A c \in U : <<c, b>> \notin R
    BY <1>2
  <1>4. ASSUME NEW c \in U PROVE b <= c
    <2>1. b \in Nat /\ c \in Nat
      OBVIOUS
    <2>2. c < b => <<c, b>> \in R
      BY <2>1 DEF OpToRel
    <2> HIDE DEF R, U
    <2> QED
      BY <1>3, <2>1, <2>2
  <1>5. b \in Nat /\ \A y \in S : y <= b
    OBVIOUS
  <1>6. b \in S
    <2>1. SUFFICES ASSUME b \notin S PROVE FALSE
      OBVIOUS
    <2>2. \A y \in S : y \in Nat /\ y < b
      BY <1>5, <2>1
    <2>3. b > 0 /\ b - 1 \in Nat
      <3>1. PICK y \in S : TRUE
        OBVIOUS
      <3>2. y \in Nat /\ y < b
        BY <2>2, <3>1
      <3> QED
        BY <1>5, <3>2
    <2>4. b - 1 \in U
      BY <2>2, <2>3
    <2>5. b <= b - 1
      BY <1>4, <2>4
    <2> QED
      BY <1>5, <2>5
  <1>7. \E x \in S : \A y \in S : x >= y
    BY <1>5, <1>6
  <1>8. Max(S) \in S /\ \A y \in S : Max(S) >= y
    BY <1>7 DEF Max
  <1> QED
    BY <1>8

-----------------------------------------------------------------------------
(* Memory                                                                   *)

(* nothing but the records of windows and layouts differs                  *)
SameButTopo(mem2, mem) ==
    /\ mem2.panes = mem.panes /\ mem2.activeOf = mem.activeOf /\ mem2.focus = mem.focus
    /\ mem2.nextSession = mem.nextSession /\ mem2.nextWindow = mem.nextWindow
OrderOK(t) == t.order \in Seq(Nat) /\ IsInjective(t.order)

LEMMA WindowsFacts ==
    ASSUME NEW mem, MemOK(mem), NEW l
    PROVE  /\ WindowsOf(mem, l) \subseteq 1..MaxWindow /\ IsFiniteSet(WindowsOf(mem, l))
           /\ TopologyOf(mem, l).order \in Seq(Nat)
  <1>1. MaxWindow \in Nat /\ mem.nextWindow \in 0..MaxWindow
    BY TopologyAssumption DEF MemOK, MemoryShape
  <1>2. \A n \in DOMAIN mem.panes : mem.panes[n].window \in 1..mem.nextWindow
    BY DEF MemOK, PanesOK, PaneRecords
  <1>3. WindowsOf(mem, l) \subseteq 1..MaxWindow
    BY <1>1, <1>2 DEF WindowsOf, PanesOf
  <1>4. IsFiniteSet(1..MaxWindow)
    BY <1>1, FS_Interval
  <1>5. TopologyOf(mem, l).order \in Seq(Nat)
    BY DEF MemOK, TopoOK, TopologyOf, NoTopology
  <1> QED
    BY <1>3, <1>4, <1>5, FS_Subset

LEMMA NormalFacts ==
    ASSUME NEW mem, MemOK(mem), NEW l
    PROVE  /\ OrderOK(Normal(mem, l)) /\ ToSet(Normal(mem, l).order) = WindowsOf(mem, l)
           /\ Normal(mem, l).order \in Seq(WindowsOf(mem, l))
           /\ Normal(mem, l) = [order |-> Normal(mem, l).order, active |-> Normal(mem, l).active,
                                pane |-> Normal(mem, l).pane, zoom |-> Normal(mem, l).zoom,
                                layout |-> Normal(mem, l).layout]
  <1> DEFINE q == TopologyOf(mem, l).order
             ws == WindowsOf(mem, l)
  <1>1. Normal(mem, l).order = Ordered(q, ws)
    BY DEF Normal, NormalOrder
  <1>2. q \in Seq(Nat) /\ ws \subseteq Nat \ {0} /\ IsFiniteSet(ws)
    <2>1. MaxWindow \in Nat
      BY TopologyAssumption
    <2> QED
      BY <2>1, WindowsFacts
  <1>3. Ordered(q, ws) \in Seq(ws) /\ IsInjective(Ordered(q, ws)) /\ ToSet(Ordered(q, ws)) = ws
    <2> HIDE DEF q, ws
    <2> QED
      BY <1>2, OrderedFacts
  <1>4. Ordered(q, ws) \in Seq(Nat)
    <2> HIDE DEF q, ws
    <2> QED
      BY <1>2, <1>3, SeqOfMore
  <1>5. Normal(mem, l) = [order |-> Normal(mem, l).order, active |-> Normal(mem, l).active,
                          pane |-> Normal(mem, l).pane, zoom |-> Normal(mem, l).zoom,
                          layout |-> Normal(mem, l).layout]
    BY DEF Normal
  <1> QED
    BY <1>1, <1>3, <1>4, <1>5 DEF OrderOK

LEMMA WithTopologyOK ==
    ASSUME NEW mem, MemOK(mem), NEW l, NEW t, OrderOK(t)
    PROVE  MemOK(WithTopology(mem, l, t)) /\ SameButTopo(WithTopology(mem, l, t), mem)
  <1> DEFINE mem2 == WithTopology(mem, l, t)
  <1>1. mem2 = [panes |-> mem.panes, topo |-> Put(mem.topo, l, t), activeOf |-> mem.activeOf,
                focus |-> mem.focus, nextSession |-> mem.nextSession, nextWindow |-> mem.nextWindow]
    BY DEF WithTopology, MemOK, MemoryShape
  <1> HIDE DEF mem2
  <1>2. SameButTopo(mem2, mem) /\ mem2.topo = Put(mem.topo, l, t) /\ MemoryShape(mem2)
    BY <1>1 DEF SameButTopo, MemOK, MemoryShape
  <1>3. PanesOK(mem2) /\ FocusOK(mem2)
    BY <1>2 DEF SameButTopo, MemOK, PanesOK, FocusOK, PaneRecords
  <1>4. TopoOK(mem2)
    BY <1>2 DEF MemOK, TopoOK, OrderOK, Put
  <1> QED
    BY <1>2, <1>3, <1>4 DEF MemOK, mem2

LEMMA NormalizedOK ==
    ASSUME NEW mem, MemOK(mem), NEW l
    PROVE  MemOK(Normalized(mem, l)) /\ SameButTopo(Normalized(mem, l), mem)
  <1>1. Normalized(mem, l) = WithTopology(mem, l, Normal(mem, l))
    BY DEF Normalized, WithTopology
  <1> QED
    BY <1>1, NormalFacts, WithTopologyOK

(* The record of session l has exactly its windows, in this order, and      *)
(* this one of them active: normalizing it changes neither                  *)
Settled(mem, l, order, active) ==
    /\ TopologyOf(mem, l).order = order /\ TopologyOf(mem, l).active = active
    /\ order \in Seq(Nat) /\ IsInjective(order) /\ ToSet(order) = WindowsOf(mem, l)
    /\ active \in WindowsOf(mem, l)

LEMMA TopologyWritten ==
    ASSUME NEW mem, MemOK(mem), NEW l, NEW t
    PROVE  TopologyOf(WithTopology(mem, l, t), l) = t
  <1>1. PICK f : f = Put(mem.topo, l, t)
    OBVIOUS
  <1>2. l \in DOMAIN f /\ f[l] = t
    BY <1>1 DEF Put
  <1>3. WithTopology(mem, l, t) =
            [panes |-> mem.panes, topo |-> f, activeOf |-> mem.activeOf,
             focus |-> mem.focus, nextSession |-> mem.nextSession, nextWindow |-> mem.nextWindow]
    BY <1>1 DEF WithTopology, MemOK, MemoryShape
  <1>4. WithTopology(mem, l, t).topo = f
    BY <1>3
  <1> QED
    BY <1>2, <1>4 DEF TopologyOf

LEMMA SettledNormal ==
    ASSUME NEW mem, MemOK(mem), NEW l, NEW order, NEW active, Settled(mem, l, order, active)
    PROVE  /\ OrderOf(mem, l) = order
           /\ Normal(mem, l).order = order /\ Normal(mem, l).active = active
           /\ Settled(Normalized(mem, l), l, order, active)
  <1>1. Ordered(order, WindowsOf(mem, l)) = order
    BY OrderedSame DEF Settled
  <1>2. OrderOf(mem, l) = order
    BY <1>1 DEF Settled, OrderOf, NormalOrder
  <1>3. Normal(mem, l).order = order /\ Normal(mem, l).active = active
    BY <1>1 DEF Settled, Normal, NormalOrder
  <1>4. Normalized(mem, l) = WithTopology(mem, l, Normal(mem, l))
    BY DEF Normalized, WithTopology
  <1>5. TopologyOf(Normalized(mem, l), l) = Normal(mem, l)
    BY <1>4, TopologyWritten
  <1>6. WindowsOf(Normalized(mem, l), l) = WindowsOf(mem, l)
    BY NormalizedOK DEF SameButTopo, WindowsOf, PanesOf
  <1> QED
    BY <1>2, <1>3, <1>5, <1>6 DEF Settled

LEMMA SettledSame ==
    ASSUME NEW mem, NEW l, NEW order, NEW active, Settled(mem, l, order, active),
           NEW mem2, mem2.topo = mem.topo, mem2.panes = mem.panes
    PROVE  Settled(mem2, l, order, active)
  BY DEF Settled, TopologyOf, WindowsOf, PanesOf

(* Only the records of windows and layouts differ: the same sessions       *)
LEMMA SameSessions ==
    ASSUME NEW mem, NEW mem2, SameButTopo(mem2, mem), NEW l, NEW d
    PROVE  /\ LogicalsOf(mem2) = LogicalsOf(mem) /\ PanesOf(mem2, l) = PanesOf(mem, l)
           /\ WindowsOf(mem2, l) = WindowsOf(mem, l) /\ LiveIn(mem2, l) = LiveIn(mem, l)
           /\ Agrees(mem2, d) <=> Agrees(mem, d)
           /\ Young(mem2, d) <=> Young(mem, d)
           /\ Exists(mem2) <=> Exists(mem)
           /\ Durable(mem2, d) <=> Durable(mem, d)
  BY DEF SameButTopo, LogicalsOf, PanesOf, WindowsOf, LiveIn, Agrees, Young, Exists, Durable

LEMMA SelectLogicalOK ==
    ASSUME NEW mem, MemOK(mem), NEW n \in DOMAIN mem.panes, NEW p, NEW l,
           p = mem.panes[n].project, l = mem.panes[n].logical
    PROVE  /\ MemOK(SelectLogical(mem, p, l))
           /\ SelectLogical(mem, p, l) =
                [panes |-> mem.panes, topo |-> mem.topo, activeOf |-> Put(mem.activeOf, p, l),
                 focus |-> [logical |-> l, project |-> p],
                 nextSession |-> mem.nextSession, nextWindow |-> mem.nextWindow]
  <1> DEFINE mem2 == SelectLogical(mem, p, l)
  <1>1. mem2 = [panes |-> mem.panes, topo |-> mem.topo, activeOf |-> Put(mem.activeOf, p, l),
                focus |-> [logical |-> l, project |-> p],
                nextSession |-> mem.nextSession, nextWindow |-> mem.nextWindow]
    <2>1. [mem EXCEPT !.focus = [logical |-> l, project |-> p]] =
              [panes |-> mem.panes, topo |-> mem.topo, activeOf |-> mem.activeOf,
               focus |-> [logical |-> l, project |-> p],
               nextSession |-> mem.nextSession, nextWindow |-> mem.nextWindow]
      BY DEF MemOK, MemoryShape
    <2>2. mem2 = [[mem EXCEPT !.focus = [logical |-> l, project |-> p]] EXCEPT !.activeOf = Put(@, p, l)]
      BY DEF SelectLogical
    <2>3. PICK f : f = [mem EXCEPT !.focus = [logical |-> l, project |-> p]]
      OBVIOUS
    <2>4. mem2 = [f EXCEPT !.activeOf = Put(f.activeOf, p, l)]
      BY <2>2, <2>3
    <2>5. f = [panes |-> mem.panes, topo |-> mem.topo, activeOf |-> mem.activeOf,
               focus |-> [logical |-> l, project |-> p],
               nextSession |-> mem.nextSession, nextWindow |-> mem.nextWindow]
      BY <2>1, <2>3
    <2>6. PICK a : a = Put(mem.activeOf, p, l)
      OBVIOUS
    <2>7. mem2 = [f EXCEPT !.activeOf = a]
      BY <2>4, <2>5, <2>6
    <2>8. mem2 = [panes |-> mem.panes, topo |-> mem.topo, activeOf |-> a,
                  focus |-> [logical |-> l, project |-> p],
                  nextSession |-> mem.nextSession, nextWindow |-> mem.nextWindow]
      BY <2>5, <2>7
    <2> QED
      BY <2>6, <2>8
  <1>2. p \in Projects /\ l \in 1..mem.nextSession
    BY DEF MemOK, PanesOK, PaneRecords
  <1>3. \A k \in DOMAIN mem.panes : mem.panes[k].logical = l => mem.panes[k].project = p
    BY DEF MemOK, PanesOK
  <1> HIDE DEF mem2
  <1>4. MemoryShape(mem2) /\ PanesOK(mem2) /\ TopoOK(mem2)
    BY <1>1 DEF MemOK, MemoryShape, PanesOK, PaneRecords, TopoOK
  <1>5. FocusOK(mem2)
    <2>1. mem.nextSession \in Nat
      BY DEF MemOK, MemoryShape
    <2>2. mem2.focus = [logical |-> l, project |-> p] /\ mem2.panes = mem.panes
          /\ mem2.nextSession = mem.nextSession /\ mem2.activeOf = Put(mem.activeOf, p, l)
      BY <1>1
    <2>3. DOMAIN mem2.activeOf = DOMAIN mem.activeOf \cup {p} /\ mem2.activeOf[p] = l
      BY <2>2 DEF Put
    <2>4. DOMAIN mem.activeOf \subseteq Projects
      BY DEF MemOK, FocusOK
    <2> QED
      BY <1>2, <1>3, <2>1, <2>2, <2>3, <2>4 DEF FocusOK
  <1> QED
    BY <1>1, <1>4, <1>5 DEF MemOK, mem2

-----------------------------------------------------------------------------
(* The catalog                                                              *)

Good(d) == DbOK(d) /\ Right(d)
Keyed(d) == {n \in DOMAIN d.panes : d.panes[n].key}
IsDb(d) == d = [sessions |-> d.sessions, windows |-> d.windows, panes |-> d.panes, active |-> d.active]

(* one table of the catalog is written                                     *)
LEMMA DbExcept ==
    ASSUME NEW d, IsDb(d), NEW f
    PROVE  /\ [d EXCEPT !.sessions = f] =
                [sessions |-> f, windows |-> d.windows, panes |-> d.panes, active |-> d.active]
           /\ [d EXCEPT !.windows = f] =
                [sessions |-> d.sessions, windows |-> f, panes |-> d.panes, active |-> d.active]
           /\ [d EXCEPT !.panes = f] =
                [sessions |-> d.sessions, windows |-> d.windows, panes |-> f, active |-> d.active]
           /\ [d EXCEPT !.active = f] =
                [sessions |-> d.sessions, windows |-> d.windows, panes |-> d.panes, active |-> f]
  BY DEF IsDb

(* the project of a session may be written while no selection says other   *)
MayOwn(d, l, p) ==
    /\ p \in Projects
    /\ l \in DOMAIN d.sessions => d.sessions[l] = p
                                  \/ (crashes <= 1 => \A q \in DOMAIN d.active : d.active[q] # l)

WithSession(d, l, p) ==
    [sessions |-> Put(d.sessions, l, p), windows |-> d.windows, panes |-> d.panes, active |-> d.active]

LEMMA SessionRow ==
    ASSUME NEW d, Good(d), NEW l, NEW p, MayOwn(d, l, p),
           NEW e, e = WithSession(d, l, p)
    PROVE  /\ Good(e) /\ l \in DOMAIN e.sessions /\ e.sessions[l] = p
           /\ \A k \in DOMAIN d.sessions : k \in DOMAIN e.sessions /\ (k # l => e.sessions[k] = d.sessions[k])
           /\ \A k \in DOMAIN e.sessions : k = l \/ k \in DOMAIN d.sessions
  <1>1. DOMAIN e.sessions = DOMAIN d.sessions \cup {l} /\ e.sessions[l] = p
        /\ \A k \in DOMAIN d.sessions : k # l => e.sessions[k] = d.sessions[k]
    BY DEF Put, WithSession
  <1>2. e.windows = d.windows /\ e.panes = d.panes /\ e.active = d.active
    BY DEF WithSession
  <1>3. DbShape(e)
    <2>1. IsDb(e)
      BY DEF IsDb, WithSession
    <2>2. \A k \in DOMAIN e.sessions : e.sessions[k] \in Projects
      BY <1>1 DEF Good, DbOK, DbShape, MayOwn
    <2> QED
      BY <1>2, <2>1, <2>2 DEF Good, DbOK, DbShape, IsDb
  <1>4. RowsOK(e) /\ ActiveOK(e)
    BY <1>1, <1>2 DEF Good, DbOK, RowsOK, ActiveOK
  <1>5. ASSUME crashes <= 1 PROVE ActiveRight(e)
    <2>1. ActiveRight(d)
      BY <1>5 DEF Good, Right
    <2>2. ASSUME NEW q \in DOMAIN d.active PROVE e.sessions[d.active[q]] = q
      <3>1. d.sessions[d.active[q]] = q /\ d.active[q] \in DOMAIN d.sessions
        BY <2>1 DEF ActiveRight, Good, DbOK, ActiveOK
      <3>2. CASE d.active[q] = l
        BY <1>1, <1>5, <3>1, <3>2 DEF MayOwn
      <3>3. CASE d.active[q] # l
        BY <1>1, <3>1, <3>3
      <3> QED
        BY <3>2, <3>3
    <2> QED
      BY <1>2, <2>2 DEF ActiveRight
  <1>6. crashes = 0 => ActiveKeyed(e)
    BY <1>2 DEF Good, Right, ActiveKeyed
  <1> QED
    BY <1>1, <1>3, <1>4, <1>5, <1>6 DEF Good, DbOK, Right

LEMMA WindowRowsWritten ==
    ASSUME NEW d, Good(d), NEW f,
           \A w \in DOMAIN f : w \in 1..MaxWindow /\ f[w].idx \in Nat,
           DOMAIN d.windows \subseteq DOMAIN f,
           \A n \in Keyed(d) : f[d.panes[n].window].session = d.panes[n].session,
           NEW e, e = [sessions |-> d.sessions, windows |-> f, panes |-> d.panes, active |-> d.active]
    PROVE  Good(e)
  <1>1. e.windows = f /\ e.sessions = d.sessions /\ e.panes = d.panes /\ e.active = d.active
    OBVIOUS
  <1>2. DbShape(e)
    <2>1. IsDb(e)
      BY DEF IsDb
    <2> QED
      BY <1>1, <2>1 DEF Good, DbOK, DbShape, IsDb
  <1>3. RowsOK(e)
    BY <1>1 DEF Good, DbOK, RowsOK, Keyed
  <1>4. ActiveOK(e) /\ Right(e)
    BY <1>1 DEF Good, DbOK, ActiveOK, Right, ActiveRight, ActiveKeyed
  <1> QED
    BY <1>2, <1>3, <1>4 DEF Good, DbOK

WithPane(d, n, r) ==
    [sessions |-> d.sessions, windows |-> d.windows, panes |-> Put(d.panes, n, r), active |-> d.active]

LEMMA PaneRow ==
    ASSUME NEW d, Good(d), NEW n \in 1..MaxPane, NEW l \in 1..MaxPane, NEW w, NEW key \in BOOLEAN,
           l \in DOMAIN d.sessions, w \in DOMAIN d.windows, d.windows[w].session = l,
           n \in Keyed(d) => key /\ d.panes[n].session = l,
           NEW e, e = WithPane(d, n, [window |-> w, session |-> l, key |-> key])
    PROVE  /\ Good(e) /\ DOMAIN e.panes = DOMAIN d.panes \cup {n}
           /\ e.panes[n] = [window |-> w, session |-> l, key |-> key]
           /\ \A k \in DOMAIN d.panes : k # n => e.panes[k] = d.panes[k]
  <1>1. e.windows = d.windows /\ e.sessions = d.sessions /\ e.active = d.active
    BY DEF WithPane
  <1>2. DOMAIN e.panes = DOMAIN d.panes \cup {n}
        /\ e.panes[n] = [window |-> w, session |-> l, key |-> key]
        /\ \A k \in DOMAIN d.panes : k # n => e.panes[k] = d.panes[k]
    BY DEF Put, WithPane
  <1>3. DbShape(e)
    <2>1. IsDb(e)
      BY DEF IsDb, WithPane
    <2> QED
      BY <1>1, <2>1 DEF Good, DbOK, DbShape, IsDb
  <1>4. RowsOK(e)
    <2>1. RowsOK(d)
      BY DEF Good, DbOK
    <2>2. e.panes[n].window = w /\ e.panes[n].session = l /\ e.panes[n].key = key
      BY <1>2
    <2> HIDE DEF RowsOK
    <2>3. ASSUME NEW k \in DOMAIN e.panes, k # n
          PROVE  k \in DOMAIN d.panes /\ e.panes[k] = d.panes[k]
      BY <1>2, <2>3
    <2> QED
      BY <1>1, <1>2, <2>1, <2>2, <2>3 DEF RowsOK
  <1>5. ActiveOK(e)
    BY <1>1 DEF Good, DbOK, ActiveOK
  <1>6. crashes <= 1 => ActiveRight(e)
    BY <1>1 DEF Good, Right, ActiveRight
  <1>7. ASSUME crashes = 0 PROVE ActiveKeyed(e)
    <2>1. ASSUME NEW p \in DOMAIN e.active
          PROVE  \E k \in DOMAIN e.panes : e.panes[k].key /\ e.panes[k].session = e.active[p]
      <3>1. PICK k \in DOMAIN d.panes : d.panes[k].key /\ d.panes[k].session = d.active[p]
        BY <1>1, <1>7 DEF Good, Right, ActiveKeyed
      <3>2. CASE k = n
        <4>1. key /\ l = d.active[p]
          BY <3>1, <3>2 DEF Keyed
        <4>2. n \in DOMAIN e.panes /\ e.panes[n].key = key /\ e.panes[n].session = l
          BY <1>2
        <4> QED
          BY <1>1, <4>1, <4>2
      <3>3. CASE k # n
        BY <1>1, <1>2, <3>1, <3>3
      <3> QED
        BY <3>2, <3>3
    <2> QED
      BY <2>1 DEF ActiveKeyed
  <1> QED
    BY <1>2, <1>3, <1>4, <1>5, <1>6, <1>7 DEF Good, DbOK, Right

WithSelection(d, p, l) ==
    [sessions |-> d.sessions, windows |-> d.windows, panes |-> d.panes, active |-> Put(d.active, p, l)]

LEMMA SelectionRow ==
    ASSUME NEW d, Good(d), NEW l, NEW p \in Projects, l \in DOMAIN d.sessions,
           crashes <= 1 => d.sessions[l] = p,
           crashes = 0 => \E n \in Keyed(d) : d.panes[n].session = l,
           NEW e, e = WithSelection(d, p, l)
    PROVE  /\ Good(e) /\ DOMAIN e.active = DOMAIN d.active \cup {p} /\ e.active[p] = l
           /\ \A q \in DOMAIN d.active : q # p => e.active[q] = d.active[q]
  <1>1. e.windows = d.windows /\ e.sessions = d.sessions /\ e.panes = d.panes
    BY DEF WithSelection
  <1>2. DOMAIN e.active = DOMAIN d.active \cup {p} /\ e.active[p] = l
        /\ \A q \in DOMAIN d.active : q # p => e.active[q] = d.active[q]
    BY DEF Put, WithSelection
  <1>3. DbShape(e)
    <2>1. IsDb(e)
      BY DEF IsDb, WithSelection
    <2> QED
      BY <1>1, <2>1 DEF Good, DbOK, DbShape, IsDb
  <1>4. RowsOK(e)
    BY <1>1 DEF Good, DbOK, RowsOK
  <1>5. ActiveOK(e)
    BY <1>1, <1>2 DEF Good, DbOK, ActiveOK
  <1>6. crashes <= 1 => ActiveRight(e)
    BY <1>1, <1>2 DEF Good, Right, ActiveRight
  <1>7. crashes = 0 => ActiveKeyed(e)
    BY <1>1, <1>2 DEF Good, Right, ActiveKeyed, Keyed
  <1> QED
    BY <1>2, <1>3, <1>4, <1>5, <1>6, <1>7 DEF Good, DbOK, Right

(* rows are only deleted                                                    *)
Fewer(e, d) ==
    /\ \A l \in DOMAIN e.sessions : l \in DOMAIN d.sessions /\ e.sessions[l] = d.sessions[l]
    /\ \A w \in DOMAIN e.windows : w \in DOMAIN d.windows /\ e.windows[w] = d.windows[w]
    /\ \A n \in DOMAIN e.panes : n \in DOMAIN d.panes /\ e.panes[n] = d.panes[n]
    /\ \A p \in DOMAIN e.active : p \in DOMAIN d.active /\ e.active[p] = d.active[p]

LEMMA FewerTrans ==
    ASSUME NEW d1, NEW d2, NEW d3, Fewer(d1, d2), Fewer(d2, d3)
    PROVE  Fewer(d1, d3)
  BY DEF Fewer

LEMMA SessionsDropped ==
    ASSUME NEW d, DbOK(d), NEW S, NEW e, e = DropSessions(d, S)
    PROVE  /\ DbOK(e) /\ Fewer(e, d)
           /\ DOMAIN e.sessions = DOMAIN d.sessions \ S
           /\ \A n \in Keyed(d) : d.panes[n].session \notin S => n \in DOMAIN e.panes
           /\ \A p \in DOMAIN d.active : d.active[p] \notin S => p \in DOMAIN e.active
  <1> DEFINE ws == {w \in DOMAIN d.windows : d.windows[w].session \in S}
             ps == {n \in DOMAIN d.panes : d.panes[n].session \in S \/ d.panes[n].window \in ws}
             as == {p \in DOMAIN d.active : d.active[p] \in S}
  <1>1. e = [sessions |-> Without(d.sessions, S), windows |-> Without(d.windows, ws),
             panes |-> Without(d.panes, ps), active |-> Without(d.active, as)]
    BY DEF DropSessions
  <1>2. /\ DOMAIN e.sessions = DOMAIN d.sessions \ S
        /\ \A x \in DOMAIN d.sessions \ S : e.sessions[x] = d.sessions[x]
    <2> HIDE DEF ws, ps, as
    <2>1. e.sessions = Without(d.sessions, S)
      BY <1>1
    <2> QED
      BY <2>1 DEF Without, Restrict
  <1>3. /\ DOMAIN e.windows = DOMAIN d.windows \ ws
        /\ \A x \in DOMAIN d.windows \ ws : e.windows[x] = d.windows[x]
    <2> HIDE DEF ws, ps, as
    <2>1. e.windows = Without(d.windows, ws)
      BY <1>1
    <2> QED
      BY <2>1 DEF Without, Restrict
  <1>4. /\ DOMAIN e.panes = DOMAIN d.panes \ ps
        /\ \A x \in DOMAIN d.panes \ ps : e.panes[x] = d.panes[x]
    <2> HIDE DEF ws, ps, as
    <2>1. e.panes = Without(d.panes, ps)
      BY <1>1
    <2> QED
      BY <2>1 DEF Without, Restrict
  <1>5. /\ DOMAIN e.active = DOMAIN d.active \ as
        /\ \A x \in DOMAIN d.active \ as : e.active[x] = d.active[x]
    <2> HIDE DEF ws, ps, as
    <2>1. e.active = Without(d.active, as)
      BY <1>1
    <2> QED
      BY <2>1 DEF Without, Restrict
  <1>6. IsDb(e)
    <2> HIDE DEF ws, ps, as
    <2> QED
      BY <1>1 DEF IsDb
  <1>7. Fewer(e, d)
    BY <1>2, <1>3, <1>4, <1>5 DEF Fewer
  <1>8. DbShape(e)
    BY <1>6, <1>7 DEF DbOK, DbShape, Fewer, IsDb
  <1>9. ASSUME NEW n \in DOMAIN e.panes
        PROVE  /\ n \in DOMAIN d.panes /\ e.panes[n] = d.panes[n]
               /\ d.panes[n].session \in DOMAIN e.sessions /\ d.panes[n].window \in DOMAIN e.windows
    <2>1. n \in DOMAIN d.panes /\ d.panes[n].session \notin S /\ d.panes[n].window \notin ws
      BY <1>4
    <2>2. d.panes[n].session \in DOMAIN d.sessions /\ d.panes[n].window \in DOMAIN d.windows
      BY <2>1 DEF DbOK, RowsOK
    <2> QED
      BY <1>2, <1>3, <1>4, <2>1, <2>2
  <1>10. RowsOK(e)
    <2>1. RowsOK(d)
      BY DEF DbOK
    <2> QED
      BY <1>7, <1>9, <2>1 DEF RowsOK, Fewer
  <1>11. ActiveOK(e)
    BY <1>2, <1>5 DEF ActiveOK, DbOK
  <1>12. ASSUME NEW n \in Keyed(d), d.panes[n].session \notin S
         PROVE  n \in DOMAIN e.panes
    <2>1. n \in DOMAIN d.panes /\ d.windows[d.panes[n].window].session = d.panes[n].session
      BY DEF Keyed, DbOK, RowsOK
    <2> QED
      BY <1>4, <1>12, <2>1
  <1>13. \A p \in DOMAIN d.active : d.active[p] \notin S => p \in DOMAIN e.active
    BY <1>5
  <1> QED
    BY <1>2, <1>7, <1>8, <1>10, <1>11, <1>12, <1>13 DEF DbOK

LEMMA FewerRight ==
    ASSUME NEW d, NEW e, Fewer(e, d), DbOK(e)
    PROVE  ActiveRight(d) => ActiveRight(e)
  BY DEF Fewer, ActiveRight, DbOK, ActiveOK

(* the keyframes of a dropped session are the only ones to go               *)
LEMMA SessionsDroppedRight ==
    ASSUME NEW d, DbOK(d), NEW S, NEW e, e = DropSessions(d, S)
    PROVE  /\ ActiveRight(d) => ActiveRight(e)
           /\ ActiveKeyed(d) => ActiveKeyed(e)
           /\ AllKeyed(d) => AllKeyed(e)
           /\ Good(d) => Good(e)
  <1>1. /\ DbOK(e) /\ Fewer(e, d)
        /\ DOMAIN e.sessions = DOMAIN d.sessions \ S
        /\ \A n \in Keyed(d) : d.panes[n].session \notin S => n \in DOMAIN e.panes
    BY SessionsDropped
  <1>2. ActiveRight(d) => ActiveRight(e)
    BY <1>1, FewerRight
  <1>3. ASSUME NEW n \in DOMAIN d.panes, d.panes[n].key, NEW l, d.panes[n].session = l,
               l \in DOMAIN e.sessions
        PROVE  n \in DOMAIN e.panes /\ e.panes[n].key /\ e.panes[n].session = l
    <2>1. n \in Keyed(d) /\ l \notin S
      BY <1>1, <1>3 DEF Keyed
    <2>2. n \in DOMAIN e.panes
      BY <1>1, <1>3, <2>1
    <2> QED
      BY <1>1, <1>3, <2>2 DEF Fewer
  <1>4. ASSUME ActiveKeyed(d) PROVE ActiveKeyed(e)
    <2>1. ASSUME NEW p \in DOMAIN e.active
          PROVE  \E n \in DOMAIN e.panes : e.panes[n].key /\ e.panes[n].session = e.active[p]
      <3>1. p \in DOMAIN d.active /\ e.active[p] = d.active[p] /\ e.active[p] \in DOMAIN e.sessions
        BY <1>1 DEF Fewer, DbOK, ActiveOK
      <3>2. PICK n \in DOMAIN d.panes : d.panes[n].key /\ d.panes[n].session = d.active[p]
        BY <1>4, <3>1 DEF ActiveKeyed
      <3> QED
        BY <1>3, <3>1, <3>2
    <2> QED
      BY <2>1 DEF ActiveKeyed
  <1>5. ASSUME AllKeyed(d) PROVE AllKeyed(e)
    <2>1. \A n \in DOMAIN e.panes : e.panes[n].key
      BY <1>1, <1>5 DEF Fewer, AllKeyed
    <2>2. ASSUME NEW l \in DOMAIN e.sessions
          PROVE  \E n \in DOMAIN e.panes : e.panes[n].session = l
      <3>1. PICK n \in DOMAIN d.panes : d.panes[n].session = l
        BY <1>1, <1>5 DEF Fewer, AllKeyed
      <3>2. d.panes[n].key
        BY <1>5 DEF AllKeyed
      <3> QED
        BY <1>3, <3>1, <3>2
    <2> QED
      BY <2>1, <2>2 DEF AllKeyed
  <1> QED
    BY <1>1, <1>2, <1>4, <1>5 DEF Good, Right

LEMMA PanesDropped ==
    ASSUME NEW d, DbOK(d), NEW S, NEW e, e = DropPanes(d, S)
    PROVE  /\ DbOK(e) /\ Fewer(e, d)
           /\ \A n \in DOMAIN e.panes : n \notin S
           /\ \A n \in Keyed(d) \ S : n \in DOMAIN e.panes
           /\ \A l \in DOMAIN e.sessions : \E n \in DOMAIN d.panes \ S : d.panes[n].session = l
           /\ \A p \in DOMAIN d.active :
                 (\E n \in DOMAIN d.panes \ S : d.panes[n].session = d.active[p]) => p \in DOMAIN e.active
  <1>0. IsDb(d)
    BY DEF DbOK, DbShape, IsDb
  <1>1. PICK f : f = Without(d.panes, S)
    OBVIOUS
  <1>2. DOMAIN f = DOMAIN d.panes \ S /\ \A n \in DOMAIN f : f[n] = d.panes[n]
    BY <1>1 DEF Without, Restrict
  <1>3. PICK d1 : d1 = [d EXCEPT !.panes = f]
    OBVIOUS
  <1>4. d1 = [sessions |-> d.sessions, windows |-> d.windows, panes |-> f, active |-> d.active]
    BY <1>0, <1>3, DbExcept
  <1>5. PICK W : W = DOMAIN d.windows \cap {r.window : r \in Range(f)}
    OBVIOUS
  <1>6. PICK g : g = Restrict(d.windows, W)
    OBVIOUS
  <1>7. DOMAIN g = W /\ \A w \in W : g[w] = d.windows[w]
    BY <1>6 DEF Restrict
  <1>8. PICK d2 : d2 = [d1 EXCEPT !.windows = g]
    OBVIOUS
  <1>9. d2 = [sessions |-> d.sessions, windows |-> g, panes |-> f, active |-> d.active]
    BY <1>4, <1>8
  <1>10. PICK T : T = DOMAIN d.sessions \ {r.session : r \in Range(f)}
    OBVIOUS
  <1>11. e = DropSessions(d2, T)
    <2>1. d1.panes = f /\ d1.windows = d.windows
      BY <1>4
    <2>2. d2 = [d1 EXCEPT !.windows = Restrict(@, DOMAIN @ \cap {r.window : r \in Range(d1.panes)})]
      BY <1>5, <1>6, <1>8, <2>1
    <2>3. d2.sessions = d.sessions /\ d2.panes = f
      BY <1>9
    <2>4. d1 = [d EXCEPT !.panes = Without(@, S)]
      BY <1>1, <1>3
    <2> QED
      BY <1>10, <2>2, <2>3, <2>4 DEF DropPanes
  <1>12. ASSUME NEW n \in DOMAIN f PROVE d.panes[n].window \in W /\ d.panes[n].session \notin T
                                         /\ d.panes[n].session \in DOMAIN d.sessions
    <2>1. f[n] \in Range(f) /\ f[n] = d.panes[n] /\ n \in DOMAIN d.panes
      BY <1>2 DEF Range
    <2>2. d.panes[n].window \in DOMAIN d.windows /\ d.panes[n].session \in DOMAIN d.sessions
      BY <2>1 DEF DbOK, RowsOK
    <2> QED
      BY <1>5, <1>10, <2>1, <2>2
  <1>13. DbOK(d2) /\ Fewer(d2, d)
    <2>1. d2.sessions = d.sessions /\ d2.windows = g /\ d2.panes = f /\ d2.active = d.active
      BY <1>9
    <2>2. IsDb(d2)
      BY <1>9 DEF IsDb
    <2>3. W \subseteq DOMAIN d.windows
      BY <1>5
    <2>4. DbShape(d2)
      BY <1>7, <2>1, <2>2, <2>3 DEF DbOK, DbShape, IsDb
    <2>5. ActiveOK(d2)
      BY <2>1 DEF DbOK, ActiveOK
    <2>6. RowsOK(d2)
      <3>1. RowsOK(d)
        BY DEF DbOK
      <3>2. ASSUME NEW n \in DOMAIN f
            PROVE  n \in DOMAIN d.panes /\ f[n] = d.panes[n] /\ d.panes[n].window \in DOMAIN g
                   /\ g[d.panes[n].window] = d.windows[d.panes[n].window]
        BY <1>2, <1>7, <1>12
      <3>3. ASSUME NEW n \in DOMAIN d2.panes
            PROVE  /\ n \in DOMAIN d.panes /\ d2.panes[n] = d.panes[n]
                   /\ d.panes[n].window \in DOMAIN d2.windows
                   /\ d2.windows[d.panes[n].window] = d.windows[d.panes[n].window]
        BY <2>1, <3>2
      <3>4. d2.sessions = d.sessions
        BY <2>1
      <3> QED
        BY <3>1, <3>3, <3>4 DEF RowsOK
    <2>7. Fewer(d2, d)
      BY <1>2, <1>7, <2>1, <2>3 DEF Fewer
    <2> QED
      BY <2>4, <2>5, <2>6, <2>7 DEF DbOK
  <1>14. /\ DbOK(e) /\ Fewer(e, d2)
         /\ DOMAIN e.sessions = DOMAIN d2.sessions \ T
         /\ \A n \in Keyed(d2) : d2.panes[n].session \notin T => n \in DOMAIN e.panes
         /\ \A p \in DOMAIN d2.active : d2.active[p] \notin T => p \in DOMAIN e.active
    BY <1>11, <1>13, SessionsDropped
  <1>15. Fewer(e, d)
    BY <1>13, <1>14, FewerTrans
  <1>16. d2.sessions = d.sessions /\ d2.panes = f /\ d2.active = d.active
    BY <1>9
  <1>17. \A n \in DOMAIN e.panes : n \notin S
    BY <1>2, <1>14, <1>16 DEF Fewer
  <1>18. ASSUME NEW n \in Keyed(d) \ S PROVE n \in DOMAIN e.panes
    <2>1. n \in DOMAIN f /\ f[n] = d.panes[n] /\ n \in Keyed(d2)
      BY <1>2, <1>16 DEF Keyed
    <2> QED
      BY <1>12, <1>14, <1>16, <2>1
  <1>19. ASSUME NEW l \in DOMAIN e.sessions
         PROVE  \E n \in DOMAIN d.panes \ S : d.panes[n].session = l
    <2>1. l \in DOMAIN d.sessions /\ l \notin T
      BY <1>14, <1>16
    <2>2. PICK n \in DOMAIN f : f[n].session = l
      BY <1>10, <2>1 DEF Range
    <2> QED
      BY <1>2, <2>2
  <1>20. ASSUME NEW p \in DOMAIN d.active, NEW n \in DOMAIN d.panes \ S, d.panes[n].session = d.active[p]
         PROVE  p \in DOMAIN e.active
    BY <1>2, <1>12, <1>14, <1>16, <1>20
  <1> QED
    BY <1>14, <1>15, <1>17, <1>18, <1>19, <1>20

(* panes without a keyframe are dropped before any other                    *)
LEMMA PanesDroppedRight ==
    ASSUME NEW d, Good(d), NEW S, \A n \in DOMAIN d.panes \ S : crashes = 0 => d.panes[n].key,
           NEW e, e = DropPanes(d, S)
    PROVE  Good(e) /\ (crashes = 0 => AllKeyed(e))
  <1>1. /\ DbOK(e) /\ Fewer(e, d)
        /\ \A n \in DOMAIN e.panes : n \notin S
        /\ \A n \in Keyed(d) \ S : n \in DOMAIN e.panes
        /\ \A l \in DOMAIN e.sessions : \E n \in DOMAIN d.panes \ S : d.panes[n].session = l
    BY PanesDropped DEF Good
  <1>2. crashes <= 1 => ActiveRight(e)
    BY <1>1, FewerRight DEF Good, Right
  <1>3. ASSUME crashes = 0 PROVE AllKeyed(e)
    <2>1. \A n \in DOMAIN e.panes : e.panes[n].key
      BY <1>1, <1>3 DEF Fewer
    <2>2. ASSUME NEW l \in DOMAIN e.sessions
          PROVE  \E n \in DOMAIN e.panes : e.panes[n].session = l
      <3>1. PICK n \in DOMAIN d.panes \ S : d.panes[n].session = l
        BY <1>1
      <3>2. n \in DOMAIN e.panes
        BY <1>1, <1>3 DEF Keyed
      <3> QED
        BY <1>1, <3>1, <3>2 DEF Fewer
    <2> QED
      BY <2>1, <2>2 DEF AllKeyed
  <1>4. crashes = 0 => ActiveKeyed(e)
    BY <1>1, <1>3 DEF AllKeyed, ActiveKeyed, DbOK, ActiveOK
  <1> QED
    BY <1>1, <1>2, <1>3, <1>4 DEF Good, Right

-----------------------------------------------------------------------------
(* Calls                                                                    *)

(* What holds of a running call after each of its steps: the daemon may     *)
(* die after any of its commits                                             *)
IsCall(s) == /\ s = [m |-> s.m, db |-> s.db, torn |-> s.torn, err |-> s.err]
             /\ s.err \in BOOLEAN
Running(s) == /\ IsCall(s) /\ MemOK(s.m) /\ Good(s.db) /\ Agrees(s.m, s.db)
              /\ \A d \in s.torn : Good(d)

LEMMA CallFacts ==
    ASSUME NEW s, IsCall(s), NEW mem, NEW d
    PROVE  /\ Memory(s, mem) = [m |-> IF s.err THEN s.m ELSE mem, db |-> s.db, torn |-> s.torn, err |-> s.err]
           /\ Failed(s) = [m |-> s.m, db |-> s.db, torn |-> s.torn, err |-> TRUE]
           /\ Commit(s, d) = IF s.err THEN s
                             ELSE [m |-> s.m, db |-> d, torn |-> s.torn \cup {d}, err |-> s.err]
  <1>1. Memory(s, mem) = [m |-> IF s.err THEN s.m ELSE mem, db |-> s.db, torn |-> s.torn, err |-> s.err]
    BY DEF IsCall, Memory
  <1>2. Failed(s) = [m |-> s.m, db |-> s.db, torn |-> s.torn, err |-> TRUE]
    <2>1. PICK b \in BOOLEAN : b = TRUE
      OBVIOUS
    <2>2. Failed(s) = [s EXCEPT !.err = b]
      BY <2>1 DEF Failed
    <2>3. [s EXCEPT !.err = b] = [m |-> s.m, db |-> s.db, torn |-> s.torn, err |-> b]
      BY DEF IsCall
    <2> QED
      BY <2>1, <2>2, <2>3
  <1>3. Commit(s, d) = IF s.err THEN s
                       ELSE [m |-> s.m, db |-> d, torn |-> s.torn \cup {d}, err |-> s.err]
    <2>1. PICK T : T = s.torn \cup {d}
      OBVIOUS
    <2>2. Commit(s, d) = IF s.err THEN s ELSE [[s EXCEPT !.db = d] EXCEPT !.torn = @ \cup {d}]
      BY DEF Commit
    <2>3. [s EXCEPT !.db = d] = [m |-> s.m, db |-> d, torn |-> s.torn, err |-> s.err]
      BY DEF IsCall
    <2> QED
      BY <2>2, <2>3
  <1> QED
    BY <1>1, <1>2, <1>3

LEMMA MemoryRuns ==
    ASSUME NEW s, Running(s), NEW mem, ~s.err => MemOK(mem) /\ Agrees(mem, s.db)
    PROVE  /\ Running(Memory(s, mem))
           /\ Memory(s, mem).db = s.db /\ Memory(s, mem).err = s.err
           /\ Memory(s, mem).m = IF s.err THEN s.m ELSE mem
  <1>1. PICK e : e = Memory(s, mem)
    OBVIOUS
  <1>2. e = [m |-> IF s.err THEN s.m ELSE mem, db |-> s.db, torn |-> s.torn, err |-> s.err]
    BY <1>1, CallFacts DEF Running
  <1>3. e.m = (IF s.err THEN s.m ELSE mem) /\ e.db = s.db /\ e.torn = s.torn /\ e.err = s.err
    BY <1>2
  <1>4. IsCall(e)
    BY <1>2, <1>3 DEF IsCall, Running
  <1>5. MemOK(e.m) /\ Agrees(e.m, e.db)
    BY <1>3 DEF Running
  <1> QED
    BY <1>1, <1>3, <1>4, <1>5 DEF Running

LEMMA FailedRuns ==
    ASSUME NEW s, Running(s)
    PROVE  /\ Running(Failed(s)) /\ Failed(s).m = s.m /\ Failed(s).db = s.db
           /\ Failed(s).err
  <1>1. PICK e : e = Failed(s)
    OBVIOUS
  <1>2. e = [m |-> s.m, db |-> s.db, torn |-> s.torn, err |-> TRUE]
    BY <1>1, CallFacts DEF Running
  <1>3. e.m = s.m /\ e.db = s.db /\ e.torn = s.torn /\ e.err = TRUE
    BY <1>2
  <1>4. IsCall(e)
    BY <1>2, <1>3 DEF IsCall
  <1> QED
    BY <1>1, <1>3, <1>4 DEF Running

LEMMA CommitRuns ==
    ASSUME NEW s, Running(s), NEW d, ~s.err => Good(d) /\ Agrees(s.m, d)
    PROVE  /\ Running(Commit(s, d)) /\ Commit(s, d).m = s.m /\ Commit(s, d).err = s.err
           /\ ~s.err => Commit(s, d).db = d
           /\ s.err => Commit(s, d) = s
  <1>1. PICK e : e = Commit(s, d)
    OBVIOUS
  <1>2. s.err => e = s
    BY <1>1 DEF Commit
  <1>3. ASSUME ~s.err
        PROVE  e = [m |-> s.m, db |-> d, torn |-> s.torn \cup {d}, err |-> s.err]
    BY <1>1, <1>3, CallFacts DEF Running
  <1>4. ASSUME ~s.err
        PROVE  Running(e) /\ e.m = s.m /\ e.err = s.err /\ e.db = d
    <2>1. e.m = s.m /\ e.db = d /\ e.torn = s.torn \cup {d} /\ e.err = s.err
      BY <1>3, <1>4
    <2>2. IsCall(e)
      BY <1>3, <1>4, <2>1 DEF IsCall, Running
    <2> QED
      BY <1>4, <2>1, <2>2 DEF Running
  <1> QED
    BY <1>1, <1>2, <1>4

(* the same error, with another flag                                        *)
LEMMA ErrRuns ==
    ASSUME NEW s, Running(s), NEW b \in BOOLEAN
    PROVE  /\ Running([s EXCEPT !.err = b]) /\ [s EXCEPT !.err = b].m = s.m
           /\ [s EXCEPT !.err = b].db = s.db /\ [s EXCEPT !.err = b].err = b
  <1>1. PICK e : e = [s EXCEPT !.err = b]
    OBVIOUS
  <1>2. e = [m |-> s.m, db |-> s.db, torn |-> s.torn, err |-> b]
    BY <1>1 DEF Running, IsCall
  <1>3. e.m = s.m /\ e.db = s.db /\ e.torn = s.torn /\ e.err = b
    BY <1>2
  <1>4. IsCall(e)
    BY <1>2, <1>3 DEF IsCall
  <1> QED
    BY <1>1, <1>3, <1>4 DEF Running

(* the window of a keyframe's pane                                          *)
LEMMA KeyedPane ==
    ASSUME NEW mem, NEW d, Agrees(mem, d), NEW n \in Keyed(d)
    PROVE  /\ n \in DOMAIN mem.panes /\ d.panes[n].session = mem.panes[n].logical
           /\ d.panes[n].window = mem.panes[n].window
  BY DEF Agrees, Keyed

LEMMA SameSessionsAgree ==
    ASSUME NEW mem, NEW d, Agrees(mem, d), NEW e, e.sessions = d.sessions, e.panes = d.panes
    PROVE  Agrees(mem, e)
  BY DEF Agrees

LEMMA WindowsPersisted ==
    ASSUME NEW s, Running(s), NEW l \in LogicalsOf(s.m), NEW t,
           OrderOK(t), t.order \in Seq(WindowsOf(s.m, l)),
           NEW e, e = PersistWindows(s, l, t)
    PROVE  /\ Running(e) /\ e.m = s.m
           /\ e.db.sessions = s.db.sessions /\ e.db.panes = s.db.panes /\ e.db.active = s.db.active
           /\ s.err => e = s
           /\ ~s.err /\ l \in DOMAIN s.db.sessions => ~e.err
  <1>1. CASE s.err
    BY <1>1 DEF PersistWindows
  <1>2. CASE ~s.err /\ t.order = << >>
    BY <1>2 DEF PersistWindows
  <1>3. CASE ~s.err /\ t.order # << >> /\ l \notin DOMAIN s.db.sessions
    BY <1>3, FailedRuns DEF PersistWindows
  <1>4. CASE ~s.err /\ t.order # << >> /\ l \in DOMAIN s.db.sessions
    <2> DEFINE row(w) == [session |-> l, idx |-> Position(t.order, w) - 1, saved |-> SavedOf(t, w)]
               set(i) == {t.order[j] : j \in 1..i}
               upTo(i) == [w \in DOMAIN s.db.windows \cup set(i) |->
                              IF w \in set(i) THEN row(w) ELSE s.db.windows[w]]
               D(i) == [s.db EXCEPT !.windows = upTo(i)]
    <2>1. e = [s EXCEPT !.db.windows = upTo(Len(t.order)), !.torn = @ \cup {D(i) : i \in DOMAIN t.order}]
      BY <1>4 DEF PersistWindows
    <2>2. IsCall(s) /\ IsDb(s.db) /\ Good(s.db) /\ Agrees(s.m, s.db) /\ MemOK(s.m)
      BY DEF Running, Good, DbOK, DbShape, IsDb
    <2>3. e = [m |-> s.m, db |-> D(Len(t.order)), torn |-> s.torn \cup {D(i) : i \in DOMAIN t.order},
               err |-> s.err]
      <3> HIDE DEF upTo
      <3>1. PICK f : f = upTo(Len(t.order))
        OBVIOUS
      <3>2. PICK T : T = {D(i) : i \in DOMAIN t.order}
        OBVIOUS
      <3> HIDE DEF D
      <3>3. e = [[s EXCEPT !.db.windows = f] EXCEPT !.torn = @ \cup T]
        BY <2>1, <3>1, <3>2
      <3>4. [s EXCEPT !.db.windows = f] =
               [m |-> s.m, db |-> [s.db EXCEPT !.windows = f], torn |-> s.torn, err |-> s.err]
        BY <2>2 DEF IsCall
      <3>5. PICK d : d = [s.db EXCEPT !.windows = f]
        OBVIOUS
      <3>6. e = [m |-> s.m, db |-> d, torn |-> s.torn \cup T, err |-> s.err]
        BY <3>3, <3>4, <3>5
      <3>7. d = D(Len(t.order))
        BY <3>1, <3>5 DEF D
      <3> QED
        BY <3>2, <3>6, <3>7
    <2>4. /\ Len(t.order) \in Nat /\ DOMAIN t.order = 1..Len(t.order)
          /\ \A j \in 1..Len(t.order) : t.order[j] \in WindowsOf(s.m, l)
      OBVIOUS
    <2>5. ASSUME NEW i \in 1..Len(t.order)
          PROVE  /\ Good(D(i)) /\ D(i).sessions = s.db.sessions /\ D(i).panes = s.db.panes
                 /\ D(i).active = s.db.active
      <3> HIDE DEF row, set
      <3>1. set(i) \subseteq WindowsOf(s.m, l)
        BY <2>4 DEF set
      <3>2. \A w \in set(i) : w \in 1..MaxWindow
        BY <2>2, <3>1, WindowsFacts
      <3>3. \A w : row(w).session = l /\ row(w).idx \in Nat
        <4>1. \A w : Position(t.order, w) \in 1..(Len(t.order) + 1)
          BY PositionFacts DEF OrderOK
        <4>2. \A w : Position(t.order, w) - 1 \in Nat
          BY <2>4, <4>1
        <4> QED
          BY <4>2 DEF row
      <3>4. PICK f : f = upTo(i)
        OBVIOUS
      <3>5. /\ DOMAIN f = DOMAIN s.db.windows \cup set(i)
            /\ \A w \in DOMAIN f : f[w] = IF w \in set(i) THEN row(w) ELSE s.db.windows[w]
        BY <3>4
      <3> HIDE DEF upTo
      <3>6. \A w \in DOMAIN f : w \in 1..MaxWindow /\ f[w].idx \in Nat
        BY <2>2, <3>2, <3>3, <3>5 DEF Good, DbOK, DbShape
      <3>7. ASSUME NEW n \in Keyed(s.db)
            PROVE  f[s.db.panes[n].window].session = s.db.panes[n].session
        <4>1. /\ n \in DOMAIN s.m.panes /\ s.db.panes[n].session = s.m.panes[n].logical
              /\ s.db.panes[n].window = s.m.panes[n].window
          BY <2>2, KeyedPane
        <4>2. s.db.panes[n].window \in DOMAIN s.db.windows
              /\ s.db.windows[s.db.panes[n].window].session = s.db.panes[n].session
          BY <2>2 DEF Good, DbOK, RowsOK, Keyed
        <4>3. CASE s.db.panes[n].window \in set(i)
          <5>1. s.m.panes[n].window \in WindowsOf(s.m, l)
            BY <3>1, <4>1, <4>3
          <5>2. PICK k \in DOMAIN s.m.panes : s.m.panes[k].logical = l
                                              /\ s.m.panes[k].window = s.m.panes[n].window
            BY <5>1 DEF WindowsOf, PanesOf
          <5>3. s.m.panes[n].logical = l
            BY <2>2, <4>1, <5>2 DEF MemOK, PanesOK
          <5> QED
            BY <3>3, <3>5, <4>1, <4>2, <4>3, <5>3
        <4>4. CASE s.db.panes[n].window \notin set(i)
          BY <3>5, <4>2, <4>4
        <4> QED
          BY <4>3, <4>4
      <3>8. PICK d : d = D(i)
        OBVIOUS
      <3>9. d = [sessions |-> s.db.sessions, windows |-> f, panes |-> s.db.panes, active |-> s.db.active]
        BY <2>2, <3>4, <3>8, DbExcept
      <3> HIDE DEF D
      <3>10. DOMAIN s.db.windows \subseteq DOMAIN f
        BY <3>5
      <3>11. Good(d)
        BY <2>2, <3>6, <3>7, <3>9, <3>10, WindowRowsWritten
      <3> QED
        BY <3>8, <3>9, <3>11
    <2>6. Len(t.order) \in 1..Len(t.order)
      BY <1>4, <2>4
    <2> HIDE DEF D, row, set, upTo
    <2>7. e.m = s.m /\ e.db = D(Len(t.order)) /\ e.err = s.err
          /\ \A d \in e.torn : d \in s.torn \/ \E i \in 1..Len(t.order) : d = D(i)
      BY <2>3, <2>4
    <2>8. IsCall(e)
      BY <2>2, <2>3, <2>7 DEF IsCall
    <2>9. Agrees(e.m, e.db)
      BY <2>2, <2>5, <2>6, <2>7, SameSessionsAgree
    <2>10. Good(e.db) /\ \A d \in e.torn : Good(d)
      BY <2>5, <2>6, <2>7 DEF Running
    <2> QED
      BY <1>4, <2>2, <2>5, <2>6, <2>7, <2>8, <2>9, <2>10 DEF Running
  <1> QED
    BY <1>1, <1>2, <1>3, <1>4

(* only the selection of project p has changed, to l                        *)
SameRows(e, d) == e.sessions = d.sessions /\ e.panes = d.panes
Selects(e, d, p, l) ==
    /\ DOMAIN e.active = DOMAIN d.active \cup {p} /\ e.active[p] = l
    /\ \A q \in DOMAIN d.active : q # p => e.active[q] = d.active[q]
\* What the persisting of session l selects.
Persists(e, s, l) ==
    /\ SameRows(e.db, s.db)
    /\ \/ e.db.active = s.db.active
       \/ /\ s.m.focus.logical = l /\ ~s.err /\ l \in DOMAIN s.db.sessions
          /\ Selects(e.db, s.db, s.m.focus.project, l)
    /\ s.m.focus.logical = l /\ ~s.err /\ l \in DOMAIN s.db.sessions
          => Selects(e.db, s.db, s.m.focus.project, l)
    /\ ~s.err /\ l \in DOMAIN s.db.sessions => ~e.err
    /\ s.err => e.err /\ e.db = s.db

LEMMA FocusFacts ==
    ASSUME NEW mem, MemOK(mem), mem.focus.logical \in LogicalsOf(mem)
    PROVE  /\ mem.focus.project \in Projects /\ mem.focus.logical \in 1..mem.nextSession
           /\ \E n \in DOMAIN mem.panes : mem.panes[n].project = mem.focus.project
                                           /\ mem.panes[n].logical = mem.focus.logical
           /\ mem.focus.project \in DOMAIN mem.activeOf
                => mem.activeOf[mem.focus.project] = mem.focus.logical
  <1>1. PICK n \in DOMAIN mem.panes : mem.panes[n].logical = mem.focus.logical
    BY DEF LogicalsOf
  <1>2. mem.panes[n].logical \in 1..mem.nextSession /\ mem.panes[n].project \in Projects
    BY DEF MemOK, PanesOK, PaneRecords
  <1>3. mem.panes[n].project = mem.focus.project
    BY <1>1 DEF MemOK, FocusOK
  <1>4. mem.focus.logical # 0
    BY <1>1, <1>2
  <1> QED
    BY <1>1, <1>2, <1>3, <1>4 DEF MemOK, FocusOK

LEMMA ActivePersisted ==
    ASSUME NEW s, Running(s), NEW l \in LogicalsOf(s.m), crashes = 0 => AllKeyed(s.db),
           NEW e, e = PersistActive(s, l)
    PROVE  Running(e) /\ e.m = s.m /\ Persists(e, s, l)
  <1>1. CASE s.m.focus.logical # l
    <2>1. e = s
      BY <1>1 DEF PersistActive
    <2> QED
      BY <1>1, <2>1 DEF Persists, SameRows
  <1>2. CASE s.m.focus.logical = l /\ l \notin DOMAIN s.db.sessions
    <2>1. e = Failed(s)
      BY <1>2 DEF PersistActive, SetActive
    <2> QED
      BY <1>2, <2>1, FailedRuns DEF Persists, SameRows
  <1>3. CASE s.m.focus.logical = l /\ l \in DOMAIN s.db.sessions
    <2>0. PICK p : p = s.m.focus.project
      OBVIOUS
    <2>1. PICK d : d = [s.db EXCEPT !.active = Put(s.db.active, p, l)]
      OBVIOUS
    <2>2. e = Commit(s, d)
      BY <1>3, <2>0, <2>1 DEF PersistActive, SetActive
    <2>3. Good(s.db) /\ IsDb(s.db) /\ MemOK(s.m) /\ Agrees(s.m, s.db)
      BY DEF Running, Good, DbOK, DbShape, IsDb
    <2>4. PICK a : a = Put(s.db.active, p, l)
      OBVIOUS
    <2>5. d = [sessions |-> s.db.sessions, windows |-> s.db.windows, panes |-> s.db.panes, active |-> a]
      BY <2>1, <2>3, <2>4, DbExcept
    <2>6. /\ p \in Projects
          /\ \E n \in DOMAIN s.m.panes : s.m.panes[n].project = p /\ s.m.panes[n].logical = l
      BY <1>3, <2>0, <2>3, FocusFacts
    <2>7. s.db.sessions[l] = p
      BY <1>3, <2>3, <2>6 DEF Agrees
    <2>8. crashes = 0 => \E n \in Keyed(s.db) : s.db.panes[n].session = l
      BY <1>3 DEF AllKeyed, Keyed
    <2>9. Good(d) /\ Selects(d, s.db, p, l)
      <3>1. d = WithSelection(s.db, p, l)
        BY <2>4, <2>5 DEF WithSelection
      <3>2. Good(d) /\ DOMAIN d.active = DOMAIN s.db.active \cup {p} /\ d.active[p] = l
            /\ \A q \in DOMAIN s.db.active : q # p => d.active[q] = s.db.active[q]
        <4>1. Good(s.db) /\ p \in Projects /\ l \in DOMAIN s.db.sessions
              /\ (crashes <= 1 => s.db.sessions[l] = p)
          BY <1>3, <2>3, <2>6, <2>7
        <4> QED
          BY <2>8, <3>1, <4>1, SelectionRow
      <3> QED
        BY <3>2 DEF Selects
    <2>10. SameRows(d, s.db)
      BY <2>5 DEF SameRows
    <2>11. Agrees(s.m, d)
      BY <2>3, <2>10, SameSessionsAgree DEF SameRows
    <2>12. /\ Running(e) /\ e.m = s.m /\ e.err = s.err
           /\ ~s.err => e.db = d
           /\ s.err => e = s
      BY <2>2, <2>9, <2>11, CommitRuns
    <2> QED
      BY <1>3, <2>0, <2>9, <2>10, <2>12 DEF Persists, SameRows
  <1> QED
    BY <1>1, <1>2, <1>3

LEMMA SameRowsKeyed ==
    ASSUME NEW d, NEW e, SameRows(e, d)
    PROVE  AllKeyed(e) <=> AllKeyed(d)
  BY DEF SameRows, AllKeyed

LEMMA Interaction ==
    ASSUME NEW s, Running(s), NEW l \in LogicalsOf(s.m), crashes = 0 => AllKeyed(s.db),
           NEW e, e = PersistInteraction(s, l)
    PROVE  /\ Running(e) /\ SameButTopo(e.m, s.m) /\ Persists(e, s, l)
           /\ e.m = IF s.err THEN s.m ELSE Normalized(s.m, l)
  <1>1. PICK s1 : s1 = Memory(s, Normalized(s.m, l))
    OBVIOUS
  <1>2. PICK t : t = Normal(s.m, l)
    OBVIOUS
  <1>3. PICK s2 : s2 = PersistWindows(s1, l, t)
    OBVIOUS
  <1>4. e = PersistActive(s2, l)
    BY <1>1, <1>2, <1>3 DEF PersistInteraction
  <1>5. MemOK(s.m) /\ Agrees(s.m, s.db)
    BY DEF Running
  <1>6. MemOK(Normalized(s.m, l)) /\ SameButTopo(Normalized(s.m, l), s.m)
    BY <1>5, NormalizedOK
  <1>7. Agrees(Normalized(s.m, l), s.db)
    BY <1>5, <1>6, SameSessions
  <1>8. Running(s1) /\ s1.db = s.db /\ s1.err = s.err /\ SameButTopo(s1.m, s.m)
        /\ s1.m = IF s.err THEN s.m ELSE Normalized(s.m, l)
    <2>1. SameButTopo(s.m, s.m)
      BY DEF SameButTopo
    <2> QED
      BY <1>1, <1>6, <1>7, <2>1, MemoryRuns
  <1>9. WindowsOf(s1.m, l) = WindowsOf(s.m, l) /\ LogicalsOf(s1.m) = LogicalsOf(s.m)
    BY <1>8, SameSessions
  <1>10. OrderOK(t) /\ t.order \in Seq(WindowsOf(s1.m, l))
    BY <1>2, <1>5, <1>9, NormalFacts
  <1>11. /\ Running(s2) /\ s2.m = s1.m
         /\ s2.db.sessions = s1.db.sessions /\ s2.db.panes = s1.db.panes /\ s2.db.active = s1.db.active
         /\ s1.err => s2 = s1
         /\ ~s1.err /\ l \in DOMAIN s1.db.sessions => ~s2.err
    <2>1. Running(s1) /\ l \in LogicalsOf(s1.m)
      BY <1>8, <1>9
    <2> QED
      BY <1>3, <1>10, <2>1, WindowsPersisted
  <1>12. crashes = 0 => AllKeyed(s2.db)
    BY <1>8, <1>11, SameRowsKeyed DEF SameRows
  <1>13. Running(e) /\ e.m = s2.m /\ Persists(e, s2, l)
    BY <1>4, <1>9, <1>11, <1>12, ActivePersisted
  <1>14. SameButTopo(e.m, s.m)
    BY <1>8, <1>11, <1>13
  <1>15. s2.m.focus = s.m.focus
    BY <1>8, <1>11 DEF SameButTopo
  <1>16. ASSUME ~s.err, l \in DOMAIN s.db.sessions
         PROVE  Persists(e, s, l)
    BY <1>8, <1>11, <1>13, <1>15, <1>16 DEF Persists, SameRows, Selects
  <1>17. ASSUME s.err
         PROVE  Persists(e, s, l)
    BY <1>8, <1>11, <1>13, <1>15, <1>17 DEF Persists, SameRows
  <1>18. ASSUME l \notin DOMAIN s.db.sessions
         PROVE  Persists(e, s, l)
    BY <1>8, <1>11, <1>13, <1>15, <1>18 DEF Persists, SameRows
  <1>19. e.m = IF s.err THEN s.m ELSE Normalized(s.m, l)
    BY <1>8, <1>11, <1>13
  <1> QED
    BY <1>13, <1>14, <1>16, <1>17, <1>18, <1>19

-----------------------------------------------------------------------------
(* Rows of one pane                                                         *)

\* The pane's project, session and window contradict nothing that is known.
Legit(s, n, r) ==
    /\ n \in 1..MaxPane /\ r.logical \in 1..MaxPane /\ r.window \in 1..MaxWindow
    /\ MayOwn(s.db, r.logical, r.project)
    /\ \A k \in DOMAIN s.m.panes :
          /\ s.m.panes[k].logical = r.logical => s.m.panes[k].project = r.project
          /\ s.m.panes[k].window = r.window => s.m.panes[k].logical = r.logical
    /\ n \in DOMAIN s.m.panes => s.m.panes[n].logical = r.logical /\ s.m.panes[n].window = r.window
\* The rows that are written for it.
RowsOf(e, d, n, r) ==
    /\ e.active = d.active
    /\ r.logical \in DOMAIN e.sessions /\ e.sessions[r.logical] = r.project
    /\ \A l \in DOMAIN e.sessions : l = r.logical \/ l \in DOMAIN d.sessions
    /\ r.window \in DOMAIN e.windows /\ e.windows[r.window].session = r.logical
    /\ DOMAIN e.panes = DOMAIN d.panes \cup {n}
    /\ e.panes[n].window = r.window /\ e.panes[n].session = r.logical
    /\ e.panes[n].key <=> n \in Keyed(d)
    /\ \A k \in DOMAIN d.panes : k # n => e.panes[k] = d.panes[k]

LEMMA TopologyPersisted ==
    ASSUME NEW s, Running(s), ~s.err, NEW n, NEW r, Legit(s, n, r),
           NEW e, e = PersistTopology(s, n, r)
    PROVE  Running(e) /\ ~e.err /\ SameButTopo(e.m, s.m) /\ RowsOf(e.db, s.db, n, r)
  <1>1. PICK l, w, p : l = r.logical /\ w = r.window /\ p = r.project
    OBVIOUS
  <1>2. PICK idx : idx = Position(Normal(s.m, l).order, w) - 1
    OBVIOUS
  <1>3. PICK s1 : s1 = Memory(s, Normalized(s.m, l))
    OBVIOUS
  <1>4. PICK s2 : s2 = UpsertSession(s1, l, p)
    OBVIOUS
  <1>5. PICK s3 : s3 = UpsertWindow(s2, w, l, idx, Unsaved)
    OBVIOUS
  <1>6. e = UpsertPane(s3, n, w, l)
    BY <1>1, <1>2, <1>3, <1>4, <1>5 DEF PersistTopology
  <1>7. MemOK(s.m) /\ Agrees(s.m, s.db) /\ Good(s.db)
    BY DEF Running
  <1>8. MemOK(Normalized(s.m, l)) /\ SameButTopo(Normalized(s.m, l), s.m)
    BY <1>7, NormalizedOK
  <1>9. Agrees(Normalized(s.m, l), s.db)
    BY <1>7, <1>8, SameSessions
  <1>10. Running(s1) /\ s1.db = s.db /\ ~s1.err /\ s1.m = Normalized(s.m, l)
    BY <1>3, <1>8, <1>9, MemoryRuns
  <1>11. SameButTopo(s1.m, s.m)
    BY <1>8, <1>10
  <1>12. s1.m.panes = s.m.panes
    BY <1>11 DEF SameButTopo
  <1>13. idx \in Nat
    <2>1. Normal(s.m, l).order \in Seq(Nat)
      BY <1>7, NormalFacts DEF OrderOK
    <2>2. PICK q \in Seq(Nat) : q = Normal(s.m, l).order
      BY <2>1
    <2>3. Position(q, w) \in 1..(Len(q) + 1) /\ Len(q) \in Nat
      BY PositionFacts
    <2> QED
      BY <1>2, <2>2, <2>3
  <1>14. Running(s2) /\ ~s2.err /\ s2.m = s1.m /\ s2.db = WithSession(s.db, l, p)
    <2>1. PICK d : d = WithSession(s.db, l, p)
      OBVIOUS
    <2>2. IsDb(s.db)
      BY <1>7 DEF Good, DbOK, DbShape, IsDb
    <2>3. PICK f : f = Put(s.db.sessions, l, p)
      OBVIOUS
    <2>4. [s.db EXCEPT !.sessions = f] = d
      BY <2>1, <2>2, <2>3, DbExcept DEF WithSession
    <2>5. s2 = Commit(s1, d)
      BY <1>4, <1>10, <2>3, <2>4 DEF UpsertSession
    <2>6. MayOwn(s.db, l, p)
      BY <1>1 DEF Legit
    <2>7. /\ Good(d) /\ l \in DOMAIN d.sessions /\ d.sessions[l] = p
          /\ \A k \in DOMAIN s.db.sessions : k \in DOMAIN d.sessions /\ (k # l => d.sessions[k] = s.db.sessions[k])
          /\ \A k \in DOMAIN d.sessions : k = l \/ k \in DOMAIN s.db.sessions
      BY <1>7, <2>1, <2>6, SessionRow
    <2>8. d.panes = s.db.panes
      BY <2>1 DEF WithSession
    <2>9. Agrees(s.m, d)
      <3>1. ASSUME NEW k \in DOMAIN s.m.panes, s.m.panes[k].logical \in DOMAIN d.sessions
            PROVE  d.sessions[s.m.panes[k].logical] = s.m.panes[k].project
        <4>1. CASE s.m.panes[k].logical = l
          BY <1>1, <2>7, <4>1 DEF Legit
        <4>2. CASE s.m.panes[k].logical # l
          BY <1>7, <2>7, <3>1, <4>2 DEF Agrees
        <4> QED
          BY <4>1, <4>2
      <3> QED
        BY <1>7, <2>8, <3>1 DEF Agrees
    <2>10. Agrees(s1.m, d)
      BY <1>11, <2>9, SameSessions
    <2>11. Running(s2) /\ s2.m = s1.m /\ s2.err = s1.err /\ s2.db = d
      BY <1>10, <2>5, <2>7, <2>10, CommitRuns
    <2> QED
      BY <1>10, <2>1, <2>11
  <1>15. /\ l \in DOMAIN s2.db.sessions /\ s2.db.sessions[l] = p
         /\ \A k \in DOMAIN s2.db.sessions : k = l \/ k \in DOMAIN s.db.sessions
         /\ s2.db.windows = s.db.windows /\ s2.db.panes = s.db.panes /\ s2.db.active = s.db.active
    BY <1>14 DEF WithSession, Put
  <1>16. /\ Running(s3) /\ ~s3.err /\ s3.m = s1.m /\ SameRows(s3.db, s2.db) /\ s3.db.active = s2.db.active
         /\ w \in DOMAIN s3.db.windows /\ s3.db.windows[w].session = l
    <2>1. PICK f : f = Put(s2.db.windows, w, [session |-> l, idx |-> idx, saved |-> Unsaved])
      OBVIOUS
    <2>2. /\ DOMAIN f = DOMAIN s2.db.windows \cup {w} /\ f[w].session = l /\ f[w].idx = idx
          /\ \A v \in DOMAIN s2.db.windows : v # w => f[v] = s2.db.windows[v]
      BY <2>1 DEF Put
    <2>3. Good(s2.db) /\ IsDb(s2.db) /\ Agrees(s2.m, s2.db)
      BY <1>14 DEF Running, Good, DbOK, DbShape, IsDb
    <2>4. PICK d : d = [sessions |-> s2.db.sessions, windows |-> f, panes |-> s2.db.panes,
                        active |-> s2.db.active]
      OBVIOUS
    <2>5. [s2.db EXCEPT !.windows = f] = d
      BY <2>3, <2>4, DbExcept
    <2>6. s3 = Commit(s2, d)
      BY <1>5, <1>15, <2>1, <2>5 DEF UpsertWindow
    <2>7. \A v \in DOMAIN f : v \in 1..MaxWindow /\ f[v].idx \in Nat
      <3>1. w \in 1..MaxWindow
        BY <1>1 DEF Legit
      <3> QED
        BY <1>13, <2>2, <2>3, <3>1 DEF Good, DbOK, DbShape
    <2>8. ASSUME NEW k \in Keyed(s2.db)
          PROVE  f[s2.db.panes[k].window].session = s2.db.panes[k].session
      <3>1. /\ k \in DOMAIN s2.m.panes /\ s2.db.panes[k].session = s2.m.panes[k].logical
            /\ s2.db.panes[k].window = s2.m.panes[k].window
        BY <2>3, KeyedPane
      <3>2. s2.db.panes[k].window \in DOMAIN s2.db.windows
            /\ s2.db.windows[s2.db.panes[k].window].session = s2.db.panes[k].session
        BY <2>3 DEF Good, DbOK, RowsOK, Keyed
      <3>3. CASE s2.db.panes[k].window = w
        <4>1. s.m.panes[k].logical = l
          BY <1>1, <1>12, <1>14, <3>1, <3>3 DEF Legit
        <4> QED
          BY <1>12, <1>14, <2>2, <3>1, <3>3, <4>1
      <3>4. CASE s2.db.panes[k].window # w
        BY <2>2, <3>2, <3>4
      <3> QED
        BY <3>3, <3>4
    <2>9. DOMAIN s2.db.windows \subseteq DOMAIN f
      BY <2>2
    <2>10. Good(d)
      BY <2>3, <2>4, <2>7, <2>8, <2>9, WindowRowsWritten
    <2>11. SameRows(d, s2.db) /\ d.active = s2.db.active /\ d.windows = f
      BY <2>4 DEF SameRows
    <2>12. Agrees(s2.m, d)
      BY <2>3, <2>11, SameSessionsAgree DEF SameRows
    <2>13. Running(s3) /\ s3.m = s2.m /\ s3.err = s2.err /\ s3.db = d
      BY <1>14, <2>6, <2>10, <2>12, CommitRuns
    <2> QED
      BY <1>14, <2>2, <2>11, <2>13
  <1>17. s3.db.sessions = s2.db.sessions /\ s3.db.panes = s.db.panes /\ s3.db.active = s.db.active
    BY <1>15, <1>16 DEF SameRows
  <1>18. PICK key \in BOOLEAN : key <=> n \in Keyed(s.db)
    <2>1. (n \in Keyed(s.db)) \in BOOLEAN
      OBVIOUS
    <2> QED
      BY <2>1
  <1>19. PICK row : row = [window |-> w, session |-> l, key |-> key]
    OBVIOUS
  <1>20. PICK d : d = WithPane(s3.db, n, row)
    OBVIOUS
  <1>21. e = Commit(s3, d)
    <2>1. IsDb(s3.db)
      BY <1>16 DEF Running, Good, DbOK, DbShape, IsDb
    <2>2. PICK f : f = Put(s3.db.panes, n, row)
      OBVIOUS
    <2>3. [s3.db EXCEPT !.panes = f] = d
      BY <1>20, <2>1, <2>2, DbExcept DEF WithPane
    <2>4. s3.db.panes = s.db.panes
      BY <1>17
    <2>5. key = (n \in DOMAIN s3.db.panes /\ s3.db.panes[n].key)
      <3>1. n \in Keyed(s.db) <=> n \in DOMAIN s.db.panes /\ s.db.panes[n].key
        BY DEF Keyed
      <3>2. n \in DOMAIN s.db.panes => s.db.panes[n].key \in BOOLEAN
        BY <1>7 DEF Good, DbOK, RowsOK
      <3> QED
        BY <1>18, <2>4, <3>1, <3>2
    <2>6. l \in DOMAIN s3.db.sessions /\ w \in DOMAIN s3.db.windows
      BY <1>15, <1>16, <1>17
    <2>7. f = Put(s3.db.panes, n, [window |-> w, session |-> l,
                                   key |-> (n \in DOMAIN s3.db.panes /\ s3.db.panes[n].key)])
      BY <1>19, <2>2, <2>5
    <2> QED
      BY <1>6, <2>3, <2>6, <2>7 DEF UpsertPane
  <1>22. n \in Keyed(s.db) => s.db.panes[n].session = l /\ s.db.panes[n].window = w
    <2>1. ASSUME n \in Keyed(s.db) PROVE s.db.panes[n].session = l /\ s.db.panes[n].window = w
      <3>1. /\ n \in DOMAIN s.m.panes /\ s.db.panes[n].session = s.m.panes[n].logical
            /\ s.db.panes[n].window = s.m.panes[n].window
        BY <1>7, <2>1, KeyedPane
      <3> QED
        BY <1>1, <3>1 DEF Legit
    <2> QED
      BY <2>1
  <1>23. /\ Good(d) /\ DOMAIN d.panes = DOMAIN s.db.panes \cup {n}
         /\ d.panes[n] = row
         /\ \A k \in DOMAIN s.db.panes : k # n => d.panes[k] = s.db.panes[k]
    <2>1. d = WithPane(s3.db, n, [window |-> w, session |-> l, key |-> key])
      BY <1>19, <1>20
    <2>2. Good(s3.db)
      BY <1>16 DEF Running
    <2>3. n \in 1..MaxPane /\ l \in 1..MaxPane
      BY <1>1 DEF Legit
    <2>4. n \in Keyed(s3.db) => key /\ s3.db.panes[n].session = l
      BY <1>17, <1>18, <1>22 DEF Keyed
    <2>5. l \in DOMAIN s3.db.sessions /\ w \in DOMAIN s3.db.windows /\ s3.db.windows[w].session = l
      BY <1>15, <1>16, <1>17
    <2>6. /\ Good(d) /\ DOMAIN d.panes = DOMAIN s3.db.panes \cup {n}
          /\ d.panes[n] = [window |-> w, session |-> l, key |-> key]
          /\ \A k \in DOMAIN s3.db.panes : k # n => d.panes[k] = s3.db.panes[k]
      BY <2>1, <2>2, <2>3, <2>4, <2>5, PaneRow
    <2> QED
      BY <1>17, <1>19, <2>6
  <1>24. d.sessions = s3.db.sessions /\ d.windows = s3.db.windows /\ d.active = s3.db.active
    BY <1>20 DEF WithPane
  <1>25. d.panes[n].window = w /\ d.panes[n].session = l /\ d.panes[n].key = key
    BY <1>19, <1>23
  <1>26. Agrees(s3.m, d)
    <2>1. Agrees(s3.m, s3.db)
      BY <1>16 DEF Running
    <2>2. ASSUME NEW k \in DOMAIN d.panes, d.panes[k].key
          PROVE  /\ k \in DOMAIN s3.m.panes
                 /\ d.panes[k].session = s3.m.panes[k].logical /\ d.panes[k].window = s3.m.panes[k].window
      <3>1. CASE k = n
        <4>1. n \in Keyed(s3.db)
          BY <1>17, <1>18, <1>25, <2>2, <3>1 DEF Keyed
        <4> QED
          BY <1>17, <1>22, <1>25, <2>1, <3>1, <4>1, KeyedPane DEF Keyed
      <3>2. CASE k # n
        <4>1. k \in Keyed(s3.db) /\ d.panes[k] = s3.db.panes[k]
          BY <1>17, <1>23, <2>2, <3>2 DEF Keyed
        <4> QED
          BY <2>1, <4>1, KeyedPane
      <3> QED
        BY <3>1, <3>2
    <2>3. ASSUME NEW k \in DOMAIN s3.m.panes, s3.m.panes[k].kind = "live"
          PROVE  k \in DOMAIN d.panes /\ d.panes[k].key
      <3>1. k \in DOMAIN s3.db.panes /\ s3.db.panes[k].key
        BY <2>1, <2>3 DEF Agrees
      <3> QED
        BY <1>17, <1>18, <1>23, <1>25, <3>1 DEF Keyed
    <2> QED
      BY <1>24, <2>1, <2>2, <2>3 DEF Agrees
  <1>27. Running(e) /\ e.m = s3.m /\ e.err = s3.err /\ e.db = d
    BY <1>16, <1>21, <1>23, <1>26, CommitRuns
  <1>28. RowsOf(d, s.db, n, r)
    <2>1. d.active = s.db.active /\ d.sessions = s2.db.sessions
      BY <1>17, <1>24
    <2>2. d.panes[n].key <=> n \in Keyed(s.db)
      BY <1>18, <1>25
    <2>3. w \in DOMAIN d.windows /\ d.windows[w].session = l
      BY <1>16, <1>24
    <2> QED
      BY <1>1, <1>15, <1>23, <1>25, <2>1, <2>2, <2>3 DEF RowsOf
  <1> QED
    BY <1>11, <1>16, <1>27, <1>28

-----------------------------------------------------------------------------
(* Ends of calls                                                            *)

Done(s) == Running(s) /\ Young(s.m, s.db) /\ Lasts(s.m, s.db)

LEMMA HandleStep ==
    ASSUME IInv, up, NEW s, Done(s), Handle(s)
    PROVE  IInv'
  <1>1. MemOK(s.m) /\ Good(s.db) /\ Agrees(s.m, s.db) /\ Young(s.m, s.db) /\ Lasts(s.m, s.db)
        /\ \A d \in s.torn : Good(d)
    BY DEF Done, Running
  <1>2. crashes \in 0..MaxCrash /\ MaxCrash \in Nat
    BY TopologyAssumption DEF IInv
  <1>3. CASE Completes(s)
    <2>1. m' = s.m /\ db' = s.db /\ status' = status /\ crashes' = crashes /\ status = "up"
      BY <1>3 DEF Completes, up
    <2> QED
      BY <1>1, <1>2, <2>1 DEF IInv, up, Good, Right, Young
  <1>4. CASE Dies(s)
    <2>1. crashes < MaxCrash /\ db' \in s.torn /\ status' = "torn" /\ crashes' = crashes + 1 /\ m' = m
      BY <1>4 DEF Dies
    <2>2. Good(db') /\ MemOK(m)
      BY <1>1, <2>1 DEF IInv
    <2>3. DbOK(db') /\ (crashes <= 1 => ActiveRight(db')) /\ (crashes = 0 => ActiveKeyed(db'))
      BY <2>2 DEF Good, Right
    <2>4. crashes' \in 0..MaxCrash /\ crashes' > 0 /\ (crashes' <= 2 => crashes <= 1) /\ (crashes' <= 1 => crashes = 0)
      BY <1>2, <2>1
    <2> QED
      BY <2>1, <2>2, <2>3, <2>4 DEF IInv, up
  <1> QED
    BY <1>3, <1>4 DEF Handle

(* The window selected when the active one is closed                        *)

\* What ClosingSelectsNeighbour says of session l when memory becomes mem2.
NeighbourIn(mem2, l) ==
    LET t == Normal(m, l)
        after == OrderOf(mem2, l)
        next == {i \in DOMAIN t.order : t.order[i] \in ToSet(after)
                                         /\ i > Position(t.order, t.active)}
    IN t.active \notin ToSet(after) =>
          Normal(mem2, l).active = IF next = {} THEN Last(after) ELSE t.order[Min(next)]
NeighbourChosen ==
    up /\ up' => \A l \in Surviving : Panes # Panes' => NeighbourIn(m', l)

\* The panes there were are still there, each in its window and session.
PanesKept(mem) ==
    \A k \in DOMAIN m.panes : /\ k \in DOMAIN mem.panes
                                /\ mem.panes[k].logical = m.panes[k].logical
                                /\ mem.panes[k].window = m.panes[k].window

LEMMA NormalActive ==
    ASSUME NEW mem, MemOK(mem), NEW l \in LogicalsOf(mem)
    PROVE  Normal(mem, l).active \in WindowsOf(mem, l)
  <1>1. PICK q : q = Normal(mem, l).order
    OBVIOUS
  <1>2. q \in Seq(WindowsOf(mem, l)) /\ ToSet(q) = WindowsOf(mem, l)
    BY <1>1, NormalFacts
  <1>3. WindowsOf(mem, l) # {}
    BY DEF LogicalsOf, WindowsOf, PanesOf
  <1>4. q # << >> /\ q[1] \in WindowsOf(mem, l)
    BY <1>2, <1>3 DEF ToSet
  <1>5. FirstId(q) \in WindowsOf(mem, l)
    BY <1>4 DEF FirstId
  <1> QED
    BY <1>1, <1>5 DEF Normal

LEMMA ActiveKept ==
    ASSUME NEW l, NEW mem2, MemOK(mem2), Normal(m, l).active \in WindowsOf(mem2, l)
    PROVE  NeighbourIn(mem2, l)
  <1>1. ToSet(OrderOf(mem2, l)) = WindowsOf(mem2, l)
    BY NormalFacts DEF Normal, OrderOf
  <1> QED
    BY <1>1 DEF NeighbourIn

LEMMA HandleKept ==
    ASSUME IInv, up, NEW s, Done(s), Handle(s), PanesKept(s.m)
    PROVE  IInv' /\ NeighbourChosen
  <1>1. IInv'
    BY HandleStep
  <1>2. SUFFICES ASSUME up', NEW l \in Surviving PROVE NeighbourIn(m', l)
    BY <1>1 DEF NeighbourChosen
  <1>3. m' = s.m
    BY <1>2 DEF Handle, Completes, Dies, up
  <1>4. MemOK(m) /\ MemOK(m') /\ l \in LogicalsOf(m)
    BY <1>1, <1>2 DEF IInv, Surviving
  <1>5. WindowsOf(m, l) \subseteq WindowsOf(m', l)
    BY <1>3 DEF PanesKept, WindowsOf, PanesOf
  <1> QED
    BY <1>4, <1>5, NormalActive, ActiveKept

LEMMA HandleNeighbour ==
    ASSUME IInv, up, NEW s, Done(s), Handle(s),
           \A l \in LogicalsOf(m) \cap LogicalsOf(s.m) : NeighbourIn(s.m, l)
    PROVE  IInv' /\ NeighbourChosen
  <1>1. IInv'
    BY HandleStep
  <1>2. SUFFICES ASSUME up', NEW l \in Surviving PROVE NeighbourIn(m', l)
    BY <1>1 DEF NeighbourChosen
  <1>3. m' = s.m
    BY <1>2 DEF Handle, Completes, Dies, up
  <1>4. l \in LogicalsOf(m) /\ l \in LogicalsOf(m')
    BY <1>2 DEF Surviving, LogicalsOf
  <1> QED
    BY <1>3, <1>4

(* The record of a session whose window w has just been closed              *)
LEMMA WindowClosed ==
    ASSUME MemOK(m), NEW l \in LogicalsOf(m), NEW w \in WindowsOf(m, l),
           NEW r, r = RemovePlacement(Normal(m, l), w),
           NEW mem1, MemOK(mem1), l \in LogicalsOf(mem1), TopologyOf(mem1, l) = r,
           WindowsOf(mem1, l) = WindowsOf(m, l) \ {w}
    PROVE  /\ Settled(mem1, l, r.order, r.active)
           /\ \A mem2 : MemOK(mem2) /\ Settled(mem2, l, r.order, r.active) => NeighbourIn(mem2, l)
  <1>1. PICK t, q, p : t = Normal(m, l) /\ q = t.order /\ p = Position(q, w)
    OBVIOUS
  <1>2. q \in Seq(Nat) /\ IsInjective(q) /\ ToSet(q) = WindowsOf(m, l)
    BY <1>1, NormalFacts DEF OrderOK
  <1>3. p \in 1..Len(q) /\ q[p] = w
    BY <1>1, <1>2, PositionFacts
  <1>4. PICK o : o = Shortened(q, p)
    OBVIOUS
  <1>5. /\ Ordered(q, ToSet(q) \ {w}) = o
        /\ o \in Seq(Nat) /\ Len(o) = Len(q) - 1 /\ IsInjective(o)
        /\ ToSet(o) = WindowsOf(mem1, l)
    BY <1>2, <1>3, <1>4, OrderedRest
  <1>6. r = [order |-> o,
             active |-> IF t.active # w THEN t.active
                        ELSE IF p <= Len(o) THEN o[p]
                        ELSE IF o # << >> THEN Last(o) ELSE 0,
             pane |-> Without(t.pane, {w}), zoom |-> Without(t.zoom, {w}), layout |-> Without(t.layout, {w})]
    BY <1>1, <1>5 DEF RemovePlacement
  <1>7. r.order = o /\ r.active = IF t.active # w THEN t.active
                                   ELSE IF p <= Len(o) THEN o[p]
                                   ELSE IF o # << >> THEN Last(o) ELSE 0
    BY <1>6
  <1>8. t.active \in WindowsOf(m, l)
    BY <1>1, NormalActive
  <1>9. Len(o) \in Nat /\ Len(o) > 0 /\ o # << >> /\ DOMAIN o = 1..Len(o)
    <2>1. WindowsOf(mem1, l) # {}
      BY DEF LogicalsOf, WindowsOf, PanesOf
    <2> QED
      BY <1>5, <2>1 DEF ToSet
  <1>10. \A i \in 1..Len(o) : o[i] \in WindowsOf(mem1, l)
    BY <1>5, <1>9 DEF ToSet
  <1>11. r.active \in WindowsOf(mem1, l)
    BY <1>3, <1>7, <1>8, <1>9, <1>10 DEF Last
  <1>12. Settled(mem1, l, r.order, r.active)
    BY <1>5, <1>7, <1>11 DEF Settled
  <1>13. ASSUME NEW mem2, MemOK(mem2), Settled(mem2, l, r.order, r.active)
         PROVE  NeighbourIn(mem2, l)
    <2>1. OrderOf(mem2, l) = o /\ Normal(mem2, l).active = r.active
      BY <1>7, <1>13, SettledNormal
    <2>2. CASE t.active # w
      <3>1. t.active \in WindowsOf(mem2, l)
        BY <1>5, <1>7, <1>8, <1>13, <2>2 DEF Settled
      <3> QED
        BY <1>1, <1>13, <3>1, ActiveKept
    <2>3. CASE t.active = w
      <3> DEFINE next == {i \in DOMAIN q : q[i] \in ToSet(o) /\ i > p}
      <3>1. DOMAIN q = 1..Len(q) /\ Len(q) \in Nat
        BY <1>2
      <3>2. ASSUME NEW i \in 1..Len(q), i > p PROVE q[i] \in ToSet(o)
        <4>1. q[i] # w
          BY <1>2, <1>3, <3>1, <3>2 DEF IsInjective
        <4>2. q[i] \in ToSet(q)
          BY <3>1 DEF ToSet
        <4> QED
          BY <1>2, <1>5, <4>1, <4>2
      <3>3. next = {i \in 1..Len(q) : i > p}
        BY <3>1, <3>2
      <3>4. r.active = IF next = {} THEN Last(o) ELSE q[Min(next)]
        <4>1. CASE p = Len(q)
          <5>1. next = {} /\ ~(p <= Len(o))
            BY <1>3, <1>5, <3>1, <3>3, <4>1
          <5> QED
            BY <1>7, <1>9, <2>3, <5>1
        <4>2. CASE p < Len(q)
          <5>1. p + 1 \in next /\ p \in 1..Len(o)
            BY <1>3, <1>5, <3>1, <3>3, <4>2
          <5>2. \A i \in next : i \in Nat /\ p + 1 <= i
            BY <1>3, <3>1, <3>3
          <5>3. Min(next) = p + 1
            <6>1. \A x \in next : (\A y \in next : x <= y) => x = p + 1
              BY <1>3, <5>1, <5>2
            <6> HIDE DEF next
            <6> QED
              BY <5>1, <5>2, <6>1 DEF Min
          <5>4. o[p] = q[p + 1]
            BY <1>3, <1>4, <1>5, <5>1 DEF Shortened
          <5> QED
            BY <1>7, <2>3, <5>1, <5>3, <5>4
        <4>3. p = Len(q) \/ p < Len(q)
          <5>1. PICK n \in Nat : n = Len(q)
            BY <3>1
          <5>2. p \in 1..n
            BY <1>3, <5>1
          <5>3. p = n \/ p < n
            BY <5>1, <5>2
          <5> QED
            BY <5>1, <5>3
        <4> HIDE DEF next
        <4> QED
          BY <4>1, <4>2, <4>3
      <3>5. Position(t.order, t.active) = p
        BY <1>1, <2>3
      <3> QED
        BY <1>1, <2>1, <3>4, <3>5 DEF NeighbourIn
    <2> QED
      BY <2>2, <2>3
  <1> QED
    BY <1>12, <1>13

LEMMA CallDone ==
    ASSUME IInv, up
    PROVE  Done(Call) /\ Call.m = m /\ Call.db = db /\ Call.err = FALSE
  <1>1. PICK s : s = Call
    OBVIOUS
  <1>2. s = [m |-> m, db |-> db, torn |-> {}, err |-> FALSE]
    BY <1>1 DEF Call
  <1>3. s.m = m /\ s.db = db /\ s.torn = {} /\ s.err = FALSE
    BY <1>2
  <1>4. IsCall(s)
    BY <1>2, <1>3 DEF IsCall
  <1>5. MemOK(m) /\ DbOK(db) /\ Right(db) /\ Agrees(m, db) /\ Young(m, db) /\ Lasts(m, db)
    BY DEF IInv
  <1>6. Good(db)
    BY <1>5 DEF Good
  <1> QED
    BY <1>1, <1>3, <1>4, <1>5, <1>6 DEF Done, Running

LEMMA SameDone ==
    ASSUME NEW s, Done(s), NEW e, Running(e), SameButTopo(e.m, s.m), e.db = s.db
    PROVE  Done(e)
  <1>1. Young(s.m, s.db) /\ Lasts(s.m, s.db)
    BY DEF Done
  <1>2. PICK d : d = s.db
    OBVIOUS
  <1>3. /\ Young(e.m, d) <=> Young(s.m, d)
        /\ Exists(e.m) <=> Exists(s.m)
        /\ Durable(e.m, d) <=> Durable(s.m, d)
    BY SameSessions
  <1> QED
    BY <1>1, <1>2, <1>3 DEF Done, Lasts

(* Selections last when that of session l has yet to be persisted          *)
HasDurable(mem, d, p) ==
    LiveIn(mem, mem.activeOf[p]) # {} => p \in DOMAIN d.active /\ d.active[p] = mem.activeOf[p]
LastsBut(mem, d, l) ==
    MaxCrash <= 2 =>
        /\ Exists(mem)
        /\ \A p \in DOMAIN mem.activeOf :
              HasDurable(mem, d, p) \/ (mem.focus.logical = l /\ mem.focus.project = p)

LEMMA LastsButOne ==
    ASSUME NEW mem, NEW d, Lasts(mem, d), NEW l
    PROVE  LastsBut(mem, d, l)
  BY DEF Lasts, LastsBut, Durable, HasDurable

LEMMA LiveSession ==
    ASSUME NEW mem, NEW d, Agrees(mem, d), RowsOK(d), NEW l, LiveIn(mem, l) # {}
    PROVE  l \in DOMAIN d.sessions
  <1>1. PICK n \in DOMAIN mem.panes : mem.panes[n].logical = l /\ mem.panes[n].kind = "live"
    BY DEF LiveIn, PanesOf
  <1>2. n \in DOMAIN d.panes /\ d.panes[n].key
    BY <1>1 DEF Agrees
  <1>3. d.panes[n].session = l
    BY <1>1, <1>2 DEF Agrees
  <1> QED
    BY <1>2, <1>3 DEF RowsOK

LEMMA PersistsDone ==
    ASSUME NEW s, Running(s), s.err => Done(s), NEW l \in LogicalsOf(s.m),
           Young(s.m, s.db), LastsBut(s.m, s.db, l),
           NEW e, Running(e), SameButTopo(e.m, s.m), Persists(e, s, l)
    PROVE  Done(e)
  <1>2. Running(e) /\ SameButTopo(e.m, s.m) /\ Persists(e, s, l)
    OBVIOUS
  <1>3. CASE s.err
    <2>1. e.db = s.db
      BY <1>2, <1>3 DEF Persists
    <2> QED
      BY <1>2, <1>3, <2>1, SameDone
  <1>4. CASE ~s.err
    <2>1. MemOK(s.m) /\ Agrees(s.m, s.db) /\ RowsOK(s.db)
      BY DEF Running, Good, DbOK
    <2>2. e.m.panes = s.m.panes /\ e.m.activeOf = s.m.activeOf /\ e.m.nextSession = s.m.nextSession
      BY <1>2 DEF SameButTopo
    <2>3. SameRows(e.db, s.db)
      BY <1>2 DEF Persists
    <2>4. CASE e.db.active = s.db.active
               /\ ~(s.m.focus.logical = l /\ l \in DOMAIN s.db.sessions)
      <3>1. Young(e.m, e.db)
        BY <2>2, <2>3, <2>4, SameRowsKeyed DEF Young
      <3>2. ASSUME MaxCrash <= 2, NEW p \in DOMAIN s.m.activeOf, LiveIn(s.m, s.m.activeOf[p]) # {}
            PROVE  p \in DOMAIN s.db.active /\ s.db.active[p] = s.m.activeOf[p]
        <4>1. ~(s.m.focus.logical = l /\ s.m.focus.project = p)
          <5>1. SUFFICES ASSUME s.m.focus.logical = l, s.m.focus.project = p PROVE FALSE
            OBVIOUS
          <5>2. s.m.activeOf[p] = l
            BY <2>1, <3>2, <5>1, FocusFacts
          <5>3. l \in DOMAIN s.db.sessions
            BY <2>1, <3>2, <5>2, LiveSession
          <5> QED
            BY <2>4, <5>1, <5>3
        <4> QED
          BY <3>2, <4>1 DEF LastsBut, HasDurable
      <3>3. MaxCrash <= 2 => Durable(s.m, s.db)
        BY <3>2 DEF Durable
      <3>4. MaxCrash <= 2 => Durable(e.m, e.db)
        <4>1. MaxCrash <= 2 => Durable(s.m, e.db)
          BY <2>4, <3>3 DEF Durable
        <4> QED
          BY <1>2, <4>1, SameSessions
      <3>5. MaxCrash <= 2 => Exists(e.m)
        BY <1>2, SameSessions DEF LastsBut
      <3> QED
        BY <1>2, <3>1, <3>4, <3>5 DEF Done, Lasts
    <2>5. CASE s.m.focus.logical = l /\ l \in DOMAIN s.db.sessions
      <3>0. PICK f : f = s.m.focus.project
        OBVIOUS
      <3>1. Selects(e.db, s.db, f, l)
        BY <1>2, <1>4, <2>5, <3>0 DEF Persists
      <3>2. l \in 1..s.m.nextSession /\ (f \in DOMAIN s.m.activeOf => s.m.activeOf[f] = l)
        BY <2>1, <2>5, <3>0, FocusFacts
      <3>3. s.m.nextSession \in Nat
        BY <2>1 DEF MemOK, MemoryShape
      <3>4. ASSUME crashes <= 1, NEW p \in DOMAIN e.db.active
            PROVE  e.db.active[p] \in 1..e.m.nextSession
        BY <2>2, <3>1, <3>2, <3>3, <3>4 DEF Selects, Young
      <3>5. Young(e.m, e.db)
        BY <2>2, <2>3, <3>4, SameRowsKeyed DEF Young
      <3>6. ASSUME MaxCrash <= 2, NEW p \in DOMAIN s.m.activeOf, LiveIn(s.m, s.m.activeOf[p]) # {}
            PROVE  p \in DOMAIN e.db.active /\ e.db.active[p] = s.m.activeOf[p]
        <4>1. CASE p = f
          BY <3>1, <3>2, <3>6, <4>1 DEF Selects
        <4>2. CASE p # f
          <5>1. p \in DOMAIN s.db.active /\ s.db.active[p] = s.m.activeOf[p]
            BY <3>0, <3>6, <4>2 DEF LastsBut, HasDurable
          <5> QED
            BY <3>1, <4>2, <5>1 DEF Selects
        <4> QED
          BY <4>1, <4>2
      <3>7. MaxCrash <= 2 => Durable(s.m, e.db)
        BY <3>6 DEF Durable
      <3>8. MaxCrash <= 2 => Durable(e.m, e.db)
        BY <1>2, <3>7, SameSessions
      <3>9. MaxCrash <= 2 => Exists(e.m)
        BY <1>2, SameSessions DEF LastsBut
      <3> QED
        BY <1>2, <3>5, <3>8, <3>9 DEF Done, Lasts
    <2> QED
      BY <1>2, <2>4, <2>5 DEF Persists
  <1> QED
    BY <1>2, <1>3, <1>4

LEMMA InteractionDone ==
    ASSUME NEW s, Running(s), s.err => Done(s), NEW l \in LogicalsOf(s.m),
           Young(s.m, s.db), LastsBut(s.m, s.db, l),
           NEW e, e = PersistInteraction(s, l) \/ e = PersistActive(s, l)
    PROVE  /\ Done(e) /\ SameButTopo(e.m, s.m) /\ Persists(e, s, l)
           /\ e.m = s.m \/ e.m = IF s.err THEN s.m ELSE Normalized(s.m, l)
  <1>1. crashes = 0 => AllKeyed(s.db)
    BY DEF Young
  <1>2. CASE e = PersistInteraction(s, l)
    <2>1. Running(e) /\ SameButTopo(e.m, s.m) /\ Persists(e, s, l)
          /\ e.m = IF s.err THEN s.m ELSE Normalized(s.m, l)
      BY <1>1, <1>2, Interaction
    <2> QED
      BY <2>1, PersistsDone
  <1>3. CASE e = PersistActive(s, l)
    <2>1. Running(e) /\ e.m = s.m /\ Persists(e, s, l)
      BY <1>1, <1>3, ActivePersisted
    <2>2. SameButTopo(e.m, s.m)
      BY <2>1 DEF SameButTopo
    <2> QED
      BY <2>1, <2>2, PersistsDone
  <1> QED
    BY <1>2, <1>3

(* The same when the call has first written its memory                      *)
Ready(mem, d, l) ==
    /\ MemOK(mem) /\ Agrees(mem, d) /\ Young(mem, d) /\ LastsBut(mem, d, l)
    /\ l \in LogicalsOf(mem)

LEMMA MemoryInteraction ==
    ASSUME NEW s, Running(s), NEW mem, NEW l,
           s.err => Done(s) /\ l \in LogicalsOf(s.m), ~s.err => Ready(mem, s.db, l),
           NEW e, e = PersistInteraction(Memory(s, mem), l)
    PROVE  /\ Done(e) /\ SameButTopo(e.m, IF s.err THEN s.m ELSE mem)
           /\ Persists(e, Memory(s, mem), l)
           /\ s.err \/ e.m = mem \/ e.m = Normalized(mem, l)
  <1>2. PICK s1 : s1 = Memory(s, mem)
    OBVIOUS
  <1>3. Running(s1) /\ s1.db = s.db /\ s1.err = s.err /\ s1.m = IF s.err THEN s.m ELSE mem
    BY <1>2, MemoryRuns DEF Ready
  <1>4. s.err => s1 = s
    BY <1>2 DEF Memory
  <1>5. s.err => LastsBut(s.m, s.db, l) /\ Young(s.m, s.db)
    BY LastsButOne DEF Done
  <1>6. Young(s1.m, s1.db) /\ LastsBut(s1.m, s1.db, l) /\ l \in LogicalsOf(s1.m)
    BY <1>3, <1>5 DEF Ready
  <1>7. s1.err => Done(s1)
    BY <1>3, <1>4
  <1>8. e = PersistInteraction(s1, l)
    BY <1>2
  <1>9. Done(e) /\ SameButTopo(e.m, s1.m) /\ Persists(e, s1, l)
        /\ (e.m = s1.m \/ e.m = IF s1.err THEN s1.m ELSE Normalized(s1.m, l))
    BY <1>3, <1>6, <1>7, <1>8, InteractionDone
  <1>10. s.err \/ e.m = mem \/ e.m = Normalized(mem, l)
    BY <1>3, <1>9
  <1> QED
    BY <1>2, <1>3, <1>9, <1>10

LEMMA ProjectFacts ==
    ASSUME NEW mem, MemOK(mem), NEW l \in LogicalsOf(mem)
    PROVE  /\ \E n \in DOMAIN mem.panes : mem.panes[n].logical = l /\ mem.panes[n].project = ProjectOf(mem, l)
           /\ \A n \in DOMAIN mem.panes : mem.panes[n].logical = l => mem.panes[n].project = ProjectOf(mem, l)
           /\ ProjectOf(mem, l) \in Projects /\ l \in 1..mem.nextSession
  <1>1. PICK r : r = CHOOSE x \in Range(mem.panes) : x.logical = l
    OBVIOUS
  <1>2. PICK k \in DOMAIN mem.panes : mem.panes[k].logical = l
    BY DEF LogicalsOf
  <1>3. mem.panes[k] \in Range(mem.panes)
    BY DEF Range
  <1>4. r \in Range(mem.panes) /\ r.logical = l
    BY <1>1, <1>2, <1>3
  <1>5. PICK n \in DOMAIN mem.panes : mem.panes[n] = r
    BY <1>4 DEF Range
  <1>6. ProjectOf(mem, l) = r.project
    BY <1>1 DEF ProjectOf
  <1>7. mem.panes[n].logical = l /\ mem.panes[n].project = ProjectOf(mem, l)
    BY <1>4, <1>5, <1>6
  <1> QED
    BY <1>7 DEF MemOK, PanesOK, PaneRecords

LEMMA TopologyReady ==
    ASSUME NEW mem, NEW d, NEW l, Ready(mem, d, l), NEW t, OrderOK(t)
    PROVE  Ready(WithTopology(mem, l, t), d, l)
  <1>1. PICK mem2 : mem2 = WithTopology(mem, l, t)
    OBVIOUS
  <1>2. MemOK(mem2) /\ SameButTopo(mem2, mem)
    BY <1>1, WithTopologyOK DEF Ready
  <1>3. /\ LogicalsOf(mem2) = LogicalsOf(mem)
        /\ Agrees(mem2, d) <=> Agrees(mem, d)
        /\ Young(mem2, d) <=> Young(mem, d)
        /\ Exists(mem2) <=> Exists(mem)
    BY <1>2, SameSessions
  <1>4. ASSUME NEW p PROVE HasDurable(mem2, d, p) <=> HasDurable(mem, d, p)
    BY <1>2 DEF SameButTopo, HasDurable, LiveIn, PanesOf
  <1>5. LastsBut(mem2, d, l) <=> LastsBut(mem, d, l)
    BY <1>2, <1>3, <1>4 DEF SameButTopo, LastsBut
  <1> QED
    BY <1>1, <1>2, <1>3, <1>5 DEF Ready

LEMMA DoneReady ==
    ASSUME NEW s, Done(s), NEW l \in LogicalsOf(s.m)
    PROVE  Ready(s.m, s.db, l)
  BY LastsButOne DEF Done, Ready, Running

\* The selections of all projects but p exist.
ExistsBut(mem, p) ==
    \A q \in DOMAIN mem.activeOf \ {p} :
        \E n \in DOMAIN mem.panes : mem.panes[n].project = q /\ mem.panes[n].logical = mem.activeOf[q]

LEMMA SelectReadyBut ==
    ASSUME NEW mem0, NEW d, MemOK(mem0), Agrees(mem0, d), Young(mem0, d),
           NEW l \in LogicalsOf(mem0), NEW p, p = ProjectOf(mem0, l),
           MaxCrash <= 2 => ExistsBut(mem0, p) /\ Durable(mem0, d)
    PROVE  Ready(SelectLogical(mem0, p, l), d, l)
  <1>2. PICK n \in DOMAIN mem0.panes : mem0.panes[n].logical = l /\ mem0.panes[n].project = p
    BY ProjectFacts
  <1>3. PICK mem : mem = SelectLogical(mem0, p, l)
    OBVIOUS
  <1>4. /\ MemOK(mem)
        /\ mem = [panes |-> mem0.panes, topo |-> mem0.topo, activeOf |-> Put(mem0.activeOf, p, l),
                  focus |-> [logical |-> l, project |-> p],
                  nextSession |-> mem0.nextSession, nextWindow |-> mem0.nextWindow]
    BY <1>2, <1>3, SelectLogicalOK
  <1>5. mem.panes = mem0.panes /\ mem.nextSession = mem0.nextSession
        /\ mem.activeOf = Put(mem0.activeOf, p, l) /\ mem.focus = [logical |-> l, project |-> p]
    BY <1>4
  <1>6. Agrees(mem, d) /\ Young(mem, d) /\ l \in LogicalsOf(mem)
    BY <1>5 DEF Agrees, Young, LogicalsOf
  <1>7. mem.focus.logical = l /\ mem.focus.project = p
    BY <1>5
  <1>8. /\ DOMAIN mem.activeOf = DOMAIN mem0.activeOf \cup {p} /\ mem.activeOf[p] = l
        /\ \A q \in DOMAIN mem.activeOf : q # p => q \in DOMAIN mem0.activeOf /\ mem.activeOf[q] = mem0.activeOf[q]
    BY <1>5 DEF Put
  <1>9. ASSUME MaxCrash <= 2, NEW q \in DOMAIN mem.activeOf, q # p
        PROVE  HasDurable(mem, d, q)
    <2>1. q \in DOMAIN mem0.activeOf /\ mem.activeOf[q] = mem0.activeOf[q]
      BY <1>8, <1>9
    <2>2. LiveIn(mem, mem.activeOf[q]) = LiveIn(mem0, mem0.activeOf[q])
      BY <1>5, <2>1 DEF LiveIn, PanesOf
    <2>3. HasDurable(mem0, d, q)
      BY <1>9, <2>1 DEF Durable, HasDurable
    <2> QED
      BY <2>1, <2>2, <2>3 DEF HasDurable
  <1>10. ASSUME MaxCrash <= 2 PROVE Exists(mem)
    <2>1. ASSUME NEW q \in DOMAIN mem.activeOf
          PROVE  \E k \in DOMAIN mem.panes : mem.panes[k].project = q /\ mem.panes[k].logical = mem.activeOf[q]
      <3>1. CASE q = p
        BY <1>2, <1>5, <1>8, <3>1
      <3>2. CASE q # p
        BY <1>5, <1>8, <1>10, <3>2 DEF ExistsBut
      <3> QED
        BY <3>1, <3>2
    <2> QED
      BY <2>1 DEF Exists
  <1>11. LastsBut(mem, d, l)
    BY <1>7, <1>9, <1>10 DEF LastsBut
  <1> QED
    BY <1>3, <1>4, <1>6, <1>11 DEF Ready

LEMMA SelectReady ==
    ASSUME NEW s, Done(s), NEW l \in LogicalsOf(s.m), NEW p, p = ProjectOf(s.m, l)
    PROVE  Ready(SelectLogical(s.m, p, l), s.db, l)
  <1>1. PICK mem, d : mem = s.m /\ d = s.db
    OBVIOUS
  <1>2. MemOK(mem) /\ Agrees(mem, d) /\ Young(mem, d) /\ l \in LogicalsOf(mem) /\ p = ProjectOf(mem, l)
    BY <1>1 DEF Done, Running
  <1>3. MaxCrash <= 2 => ExistsBut(mem, p) /\ Durable(mem, d)
    BY <1>1 DEF Done, Lasts, Exists, ExistsBut
  <1> QED
    BY <1>1, <1>2, <1>3, SelectReadyBut

LEMMA PaneLegit ==
    ASSUME NEW s, Running(s), NEW n \in DOMAIN s.m.panes
    PROVE  Legit(s, n, s.m.panes[n])
  <1>1. PICK r : r = s.m.panes[n]
    OBVIOUS
  <1>2. MemOK(s.m) /\ Agrees(s.m, s.db)
    BY DEF Running
  <1>3. r \in PaneRecords(s.m) /\ n \in 1..s.m.nextSession
    BY <1>1, <1>2 DEF MemOK, PanesOK
  <1>4. s.m.nextSession \in 0..MaxPane /\ s.m.nextWindow \in 0..MaxWindow /\ MaxPane \in Nat /\ MaxWindow \in Nat
    BY <1>2, TopologyAssumption DEF MemOK, MemoryShape
  <1>5. r.project \in Projects /\ r.logical \in 1..s.m.nextSession /\ r.window \in 1..s.m.nextWindow
    BY <1>3 DEF PaneRecords
  <1>6. n \in 1..MaxPane /\ r.logical \in 1..MaxPane /\ r.window \in 1..MaxWindow
    BY <1>3, <1>4, <1>5
  <1>7. MayOwn(s.db, r.logical, r.project)
    BY <1>1, <1>2, <1>5 DEF MayOwn, Agrees
  <1>8. \A k \in DOMAIN s.m.panes :
          /\ s.m.panes[k].logical = r.logical => s.m.panes[k].project = r.project
          /\ s.m.panes[k].window = r.window => s.m.panes[k].logical = r.logical
    BY <1>1, <1>2 DEF MemOK, PanesOK
  <1> QED
    BY <1>1, <1>6, <1>7, <1>8 DEF Legit

LEMMA AttachStep ==
    ASSUME IInv, up, NEW n \in Panes, Attach(n)
    PROVE  IInv' /\ NeighbourChosen
  <1>1. PICK s : s = Call
    OBVIOUS
  <1>2. Done(s) /\ s.m = m /\ s.db = db /\ s.err = FALSE
    BY <1>1, CallDone
  <1>3. PICK r : r = m.panes[n]
    OBVIOUS
  <1>4. PICK e : e = PersistTopology(s, n, r)
    OBVIOUS
  <1>5. Handle(e) /\ r.kind \in {"live", "recovered"}
    BY <1>1, <1>3, <1>4 DEF Attach
  <1>6. Running(s) /\ Legit(s, n, r)
    BY <1>2, <1>3, PaneLegit DEF Done, Panes
  <1>7. Running(e) /\ ~e.err /\ SameButTopo(e.m, s.m) /\ RowsOf(e.db, s.db, n, r)
    BY <1>2, <1>4, <1>6, TopologyPersisted
  <1>8. Young(s.m, s.db) /\ Lasts(s.m, s.db)
    BY <1>2 DEF Done
  <1>9. ASSUME crashes = 0 PROVE AllKeyed(e.db)
    <2>1. AllKeyed(s.db) /\ r.kind = "live"
      BY <1>2, <1>3, <1>5, <1>8, <1>9 DEF Young, Panes
    <2>2. n \in DOMAIN s.db.panes /\ s.db.panes[n].session = r.logical /\ s.db.panes[n].key
      BY <1>2, <1>3, <1>6, <2>1 DEF Running, Agrees, Panes
    <2>3. n \in Keyed(s.db)
      BY <2>2 DEF Keyed
    <2>4. \A k \in DOMAIN e.db.panes : e.db.panes[k].key
      BY <1>7, <2>1, <2>3 DEF AllKeyed, RowsOf
    <2>5. ASSUME NEW l \in DOMAIN e.db.sessions
          PROVE  \E k \in DOMAIN e.db.panes : e.db.panes[k].session = l
      <3>1. CASE l = r.logical
        BY <1>7, <3>1 DEF RowsOf
      <3>2. CASE l # r.logical
        <4>1. PICK k \in DOMAIN s.db.panes : s.db.panes[k].session = l
          BY <1>7, <2>1, <3>2 DEF AllKeyed, RowsOf
        <4>2. k # n
          BY <2>2, <3>2, <4>1
        <4> QED
          BY <1>7, <4>1, <4>2 DEF RowsOf
      <3> QED
        BY <3>1, <3>2
    <2> QED
      BY <2>4, <2>5 DEF AllKeyed
  <1>10. Young(e.m, e.db)
    BY <1>7, <1>8, <1>9 DEF Young, SameButTopo, RowsOf
  <1>11. Lasts(e.m, e.db)
    <2>1. e.db.active = s.db.active
      BY <1>7 DEF RowsOf
    <2>2. ASSUME MaxCrash <= 2 PROVE Durable(s.m, e.db) /\ Exists(s.m)
      BY <1>8, <2>1, <2>2 DEF Lasts, Durable
    <2> QED
      BY <1>7, <2>2, SameSessions DEF Lasts
  <1>12. Done(e)
    BY <1>7, <1>10, <1>11 DEF Done
  <1>13. PanesKept(e.m)
    BY <1>2, <1>7 DEF SameButTopo, PanesKept
  <1> QED
    BY <1>5, <1>12, <1>13, HandleKept

(* A client's choice is recorded and persisted: panes are as they were      *)
LEMMA ChoiceKept ==
    ASSUME MemOK(m), NEW l \in LogicalsOf(m), NEW mem1, mem1 = m \/ mem1 = SelectLogical(m, ProjectOf(m, l), l),
           MemOK(mem1), NEW t, OrderOK(t),
           NEW e, SameButTopo(e.m, WithTopology(mem1, l, t))
    PROVE  PanesKept(e.m)
  <1>1. PICK n \in DOMAIN m.panes : m.panes[n].logical = l /\ m.panes[n].project = ProjectOf(m, l)
    BY ProjectFacts
  <1>2. PICK p : p = ProjectOf(m, l)
    OBVIOUS
  <1>3. SelectLogical(m, p, l) =
            [panes |-> m.panes, topo |-> m.topo, activeOf |-> Put(m.activeOf, p, l),
             focus |-> [logical |-> l, project |-> p],
             nextSession |-> m.nextSession, nextWindow |-> m.nextWindow]
    BY <1>1, <1>2, SelectLogicalOK
  <1>4. SelectLogical(m, p, l).panes = m.panes
    BY <1>3
  <1>5. mem1.panes = m.panes
    BY <1>2, <1>4
  <1>6. SameButTopo(WithTopology(mem1, l, t), mem1)
    BY WithTopologyOK
  <1> QED
    BY <1>5, <1>6 DEF SameButTopo, PanesKept

LEMMA SelectWindowStep ==
    ASSUME IInv, up, NEW l \in LogicalsOf(m), NEW w, SelectWindow(l, w)
    PROVE  IInv' /\ NeighbourChosen
  <1>1. PICK s : s = Call
    OBVIOUS
  <1>2. Done(s) /\ s.m = m /\ s.db = db /\ s.err = FALSE
    BY <1>1, CallDone
  <1>3. PICK mem1 : mem1 = SelectLogical(m, ProjectOf(m, l), l)
    OBVIOUS
  <1>4. PICK t : t = [Normal(m, l) EXCEPT !.active = w]
    OBVIOUS
  <1>5. PICK mem : mem = WithTopology(mem1, l, t)
    OBVIOUS
  <1>6. PICK e : e = PersistInteraction(Memory(s, mem), l)
    OBVIOUS
  <1>7. Handle(e)
    BY <1>1, <1>3, <1>4, <1>5, <1>6 DEF SelectWindow
  <1>8. OrderOK(t)
    <2>1. MemOK(m)
      BY DEF IInv
    <2>2. OrderOK(Normal(m, l))
      BY <2>1, NormalFacts
    <2>3. t.order = Normal(m, l).order
      BY <1>4 DEF Normal
    <2> QED
      BY <2>2, <2>3 DEF OrderOK
  <1>9. Ready(mem1, s.db, l)
    BY <1>2, <1>3, SelectReady
  <1>10. Ready(mem, s.db, l)
    BY <1>5, <1>8, <1>9, TopologyReady
  <1>11. Done(e) /\ SameButTopo(e.m, mem)
    BY <1>2, <1>6, <1>10, MemoryInteraction DEF Done
  <1>12. PanesKept(e.m)
    <2>1. MemOK(m) /\ MemOK(mem1)
      BY <1>9 DEF IInv, Ready
    <2> QED
      BY <1>3, <1>5, <1>8, <1>11, <2>1, ChoiceKept
  <1> QED
    BY <1>7, <1>11, <1>12, HandleKept

LEMMA SelectPaneStep ==
    ASSUME IInv, up, NEW n \in Panes, SelectPane(n)
    PROVE  IInv' /\ NeighbourChosen
  <1>1. PICK s : s = Call
    OBVIOUS
  <1>2. Done(s) /\ s.m = m /\ s.db = db /\ s.err = FALSE
    BY <1>1, CallDone
  <1>3. PICK r, l : r = m.panes[n] /\ l = r.logical
    OBVIOUS
  <1>4. PICK mem1 : mem1 = SelectLogical(m, r.project, l)
    OBVIOUS
  <1>5. PICK t : t = [Normal(m, l) EXCEPT !.active = r.window, !.pane[r.window] = n]
    OBVIOUS
  <1>6. PICK mem : mem = WithTopology(mem1, l, t)
    OBVIOUS
  <1>7. PICK e : e = PersistInteraction(Memory(s, mem), l)
    OBVIOUS
  <1>8. Handle(e)
    BY <1>1, <1>3, <1>4, <1>5, <1>6, <1>7 DEF SelectPane
  <1>9. MemOK(m) /\ l \in LogicalsOf(m)
    BY <1>3 DEF IInv, LogicalsOf, Panes
  <1>10. OrderOK(t)
    <2>1. OrderOK(Normal(m, l))
      BY <1>9, NormalFacts
    <2>2. t.order = Normal(m, l).order
      BY <1>5 DEF Normal
    <2> QED
      BY <2>1, <2>2 DEF OrderOK
  <1>11. r.project = ProjectOf(m, l)
    BY <1>3, <1>9, ProjectFacts DEF Panes
  <1>12. Ready(mem1, s.db, l)
    BY <1>2, <1>4, <1>9, <1>11, SelectReady
  <1>13. Ready(mem, s.db, l)
    BY <1>6, <1>10, <1>12, TopologyReady
  <1>14. Done(e) /\ SameButTopo(e.m, mem)
    BY <1>2, <1>7, <1>13, MemoryInteraction DEF Done
  <1>15. PanesKept(e.m)
    <2>1. MemOK(mem1) /\ mem1 = SelectLogical(m, ProjectOf(m, l), l)
      BY <1>4, <1>11, <1>12 DEF Ready
    <2> QED
      BY <1>6, <1>9, <1>10, <1>14, <2>1, ChoiceKept
  <1> QED
    BY <1>8, <1>14, <1>15, HandleKept

LEMMA ZoomPaneStep ==
    ASSUME IInv, up, NEW l \in LogicalsOf(m), NEW w, NEW n, ZoomPane(l, w, n)
    PROVE  IInv' /\ NeighbourChosen
  <1>1. PICK s : s = Call
    OBVIOUS
  <1>2. Done(s) /\ s.m = m /\ s.db = db /\ s.err = FALSE
    BY <1>1, CallDone
  <1>3. PICK t0 : t0 = Normal(m, l)
    OBVIOUS
  <1>4. PICK t : t = [t0 EXCEPT !.active = w, !.zoom[w] = n, !.pane[w] = IF n = 0 THEN @ ELSE n]
    OBVIOUS
  <1>5. PICK mem : mem = WithTopology(m, l, t)
    OBVIOUS
  <1>6. PICK e : e = PersistInteraction(Memory(s, mem), l)
    OBVIOUS
  <1>7. Handle(e)
    BY <1>1, <1>3, <1>4, <1>5, <1>6 DEF ZoomPane
  <1>8. OrderOK(t)
    <2>1. MemOK(m)
      BY DEF IInv
    <2>2. OrderOK(t0)
      BY <1>3, <2>1, NormalFacts
    <2>3. t.order = t0.order
      <3>1. t0 = [order |-> t0.order, active |-> t0.active, pane |-> t0.pane, zoom |-> t0.zoom,
                  layout |-> t0.layout]
        BY <1>3, <2>1, NormalFacts
      <3> QED
        BY <1>4, <3>1
    <2> QED
      BY <2>2, <2>3 DEF OrderOK
  <1>9. Ready(m, s.db, l)
    BY <1>2, DoneReady
  <1>10. Ready(mem, s.db, l)
    BY <1>5, <1>8, <1>9, TopologyReady
  <1>11. Done(e) /\ SameButTopo(e.m, mem)
    BY <1>2, <1>6, <1>10, MemoryInteraction DEF Done
  <1>12. PanesKept(e.m)
    <2>1. MemOK(m)
      BY DEF IInv
    <2> QED
      BY <1>5, <1>8, <1>11, <2>1, ChoiceKept
  <1> QED
    BY <1>7, <1>11, <1>12, HandleKept

LEMMA PanesExcept ==
    ASSUME NEW mem, MemOK(mem), NEW f
    PROVE  [mem EXCEPT !.panes = f] =
              [panes |-> f, topo |-> mem.topo, activeOf |-> mem.activeOf,
               focus |-> mem.focus, nextSession |-> mem.nextSession, nextWindow |-> mem.nextWindow]
  BY DEF MemOK, MemoryShape

(* a pane's process ends; its record stays                                  *)
LEMMA ExitedOK ==
    ASSUME NEW s, Done(s), NEW n \in DOMAIN s.m.panes,
           NEW mem, mem = [s.m EXCEPT !.panes[n].kind = "exited"]
    PROVE  /\ MemOK(mem) /\ Agrees(mem, s.db) /\ Young(mem, s.db) /\ Lasts(mem, s.db)
           /\ mem.activeOf = s.m.activeOf
           /\ \A k \in DOMAIN s.m.panes : /\ k \in DOMAIN mem.panes
                                          /\ mem.panes[k].logical = s.m.panes[k].logical
                                          /\ mem.panes[k].window = s.m.panes[k].window
  <1>1. MemOK(s.m) /\ Agrees(s.m, s.db) /\ Young(s.m, s.db) /\ Lasts(s.m, s.db)
    BY DEF Done, Running
  <1>2. PICK r : r = [s.m.panes[n] EXCEPT !.kind = "exited"]
    OBVIOUS
  <1>3. PICK f : f = [s.m.panes EXCEPT ![n] = r]
    OBVIOUS
  <1>4. mem = [panes |-> f, topo |-> s.m.topo, activeOf |-> s.m.activeOf,
               focus |-> s.m.focus, nextSession |-> s.m.nextSession, nextWindow |-> s.m.nextWindow]
    <2>1. mem = [s.m EXCEPT !.panes = f]
      BY <1>2, <1>3
    <2> QED
      BY <1>1, <2>1, PanesExcept
  <1>5. s.m.panes[n] \in PaneRecords(s.m) /\ n \in 1..s.m.nextSession
    BY <1>1 DEF MemOK, PanesOK
  <1>6. /\ r \in PaneRecords(s.m) /\ r.kind = "exited" /\ r.project = s.m.panes[n].project
        /\ r.logical = s.m.panes[n].logical /\ r.window = s.m.panes[n].window
    BY <1>2, <1>5 DEF PaneRecords, Kinds
  <1>7. mem.panes = f /\ mem.topo = s.m.topo /\ mem.activeOf = s.m.activeOf /\ mem.focus = s.m.focus
        /\ mem.nextSession = s.m.nextSession /\ mem.nextWindow = s.m.nextWindow
    BY <1>4
  <1>8. DOMAIN f = DOMAIN s.m.panes /\ \A k \in DOMAIN f : f[k] = IF k = n THEN r ELSE s.m.panes[k]
    BY <1>3
  <1>9. \A k \in DOMAIN f : /\ f[k].project = s.m.panes[k].project /\ f[k].logical = s.m.panes[k].logical
                            /\ f[k].window = s.m.panes[k].window
                            /\ f[k].kind = s.m.panes[k].kind \/ f[k].kind = "exited"
    BY <1>6, <1>8
  <1>10. \A k \in DOMAIN f : f[k] \in PaneRecords(mem)
    <2>1. PaneRecords(mem) = PaneRecords(s.m)
      BY <1>7 DEF PaneRecords
    <2> QED
      BY <1>1, <1>6, <1>8, <2>1 DEF MemOK, PanesOK
  <1>11. MemoryShape(mem)
    BY <1>1, <1>4, <1>7 DEF MemOK, MemoryShape
  <1>12. PanesOK(mem)
    BY <1>1, <1>7, <1>8, <1>9, <1>10 DEF MemOK, PanesOK
  <1>13. TopoOK(mem) /\ FocusOK(mem)
    BY <1>1, <1>7, <1>8, <1>9 DEF MemOK, TopoOK, FocusOK
  <1>14. Agrees(mem, s.db)
    BY <1>1, <1>7, <1>8, <1>9 DEF Agrees
  <1>15. Young(mem, s.db)
    BY <1>1, <1>7, <1>8, <1>9 DEF Young
  <1>16. Lasts(mem, s.db)
    <2>1. \A l : LiveIn(mem, l) # {} => LiveIn(s.m, l) # {}
      BY <1>7, <1>8, <1>9 DEF LiveIn, PanesOf
    <2>2. Exists(s.m) => Exists(mem)
      BY <1>7, <1>8, <1>9 DEF Exists
    <2>3. Durable(s.m, s.db) => Durable(mem, s.db)
      BY <1>7, <2>1 DEF Durable
    <2> QED
      BY <1>1, <2>2, <2>3 DEF Lasts
  <1>17. \A k \in DOMAIN s.m.panes : /\ k \in DOMAIN mem.panes
                                       /\ mem.panes[k].logical = s.m.panes[k].logical
                                       /\ mem.panes[k].window = s.m.panes[k].window
    BY <1>7, <1>8, <1>9
  <1>18. MemOK(mem)
    BY <1>11, <1>12, <1>13 DEF MemOK
  <1> QED
    BY <1>7, <1>14, <1>15, <1>16, <1>17, <1>18

(* What of the memory still agrees with a catalog that has fewer rows: live *)
(* panes must have kept theirs                                              *)
LEMMA FewerAgrees ==
    ASSUME NEW mem, NEW d, Agrees(mem, d), NEW e, Fewer(e, d),
           \A n \in DOMAIN mem.panes : mem.panes[n].kind = "live" => n \in DOMAIN e.panes
    PROVE  Agrees(mem, e)
  BY DEF Agrees, Fewer

LEMMA ExitStep ==
    ASSUME IInv, up, NEW n \in Panes, Exit(n)
    PROVE  IInv' /\ NeighbourChosen
  <1>1. PICK s : s = Call
    OBVIOUS
  <1>2. Done(s) /\ s.m = m /\ s.db = db /\ s.err = FALSE
    BY <1>1, CallDone
  <1>3. PICK l : l = m.panes[n].logical
    OBVIOUS
  <1>4. PICK mem : mem = [m EXCEPT !.panes[n].kind = "exited"]
    OBVIOUS
  <1>5. PICK s1 : s1 = Memory(s, mem)
    OBVIOUS
  <1>6. Handle(IF LiveIn(s1.m, l) = {} THEN DestroySession(s1, l) ELSE s1)
    BY <1>1, <1>3, <1>4, <1>5 DEF Exit
  <1>7. /\ MemOK(mem) /\ Agrees(mem, s.db) /\ Young(mem, s.db) /\ Lasts(mem, s.db)
        /\ PanesKept(mem)
    BY <1>2, <1>4, ExitedOK DEF Panes, PanesKept
  <1>8. Running(s1) /\ s1.db = s.db /\ s1.err = FALSE /\ s1.m = mem
    BY <1>2, <1>5, <1>7, MemoryRuns DEF Done
  <1>9. Done(s1)
    BY <1>7, <1>8 DEF Done
  <1>10. CASE LiveIn(s1.m, l) # {}
    <2>1. Handle(s1)
      BY <1>6, <1>10
    <2> QED
      BY <1>7, <1>8, <1>9, <2>1, HandleKept
  <1>11. CASE LiveIn(s1.m, l) = {}
    <2>1. PICK d : d = DropSessions(s.db, {l})
      OBVIOUS
    <2>2. PICK e : e = Commit(s1, d)
      OBVIOUS
    <2>3. Handle(e)
      BY <1>6, <1>8, <1>11, <2>1, <2>2 DEF DestroySession
    <2>4. Good(s.db) /\ DbOK(s.db)
      BY <1>2 DEF Done, Running, Good
    <2>5. /\ DbOK(d) /\ Fewer(d, s.db)
          /\ \A k \in Keyed(s.db) : s.db.panes[k].session \notin {l} => k \in DOMAIN d.panes
          /\ \A p \in DOMAIN s.db.active : s.db.active[p] \notin {l} => p \in DOMAIN d.active
      BY <2>1, <2>4, SessionsDropped
    <2>6. Good(d) /\ (AllKeyed(s.db) => AllKeyed(d))
      BY <2>1, <2>4, SessionsDroppedRight
    <2>7. ASSUME NEW k \in DOMAIN mem.panes, mem.panes[k].kind = "live"
          PROVE  k \in DOMAIN d.panes /\ mem.panes[k].logical # l
      <3>1. k \in Keyed(s.db) /\ s.db.panes[k].session = mem.panes[k].logical
        BY <1>7, <2>7 DEF Agrees, Keyed
      <3>2. mem.panes[k].logical # l
        BY <1>8, <1>11, <2>7 DEF LiveIn, PanesOf
      <3> QED
        BY <2>5, <3>1, <3>2
    <2>8. Agrees(mem, d)
      BY <1>7, <2>5, <2>7, FewerAgrees
    <2>9. Running(e) /\ e.m = mem /\ e.db = d
      BY <1>8, <2>2, <2>6, <2>8, CommitRuns
    <2>10. Young(mem, d)
      BY <1>7, <2>5, <2>6 DEF Young, Fewer
    <2>11. ASSUME Durable(mem, s.db) PROVE Durable(mem, d)
      <3>1. ASSUME NEW p \in DOMAIN mem.activeOf, LiveIn(mem, mem.activeOf[p]) # {}
            PROVE  p \in DOMAIN d.active /\ d.active[p] = mem.activeOf[p]
        <4>1. p \in DOMAIN s.db.active /\ s.db.active[p] = mem.activeOf[p]
          BY <2>11, <3>1 DEF Durable
        <4>2. mem.activeOf[p] # l
          BY <1>8, <1>11, <3>1
        <4> QED
          BY <2>5, <4>1, <4>2 DEF Fewer
      <3> QED
        BY <3>1 DEF Durable
    <2>12. Lasts(mem, d)
      BY <1>7, <2>11 DEF Lasts
    <2>13. Done(e)
      BY <2>9, <2>10, <2>12 DEF Done
    <2> QED
      BY <1>7, <2>3, <2>9, <2>13, HandleKept
  <1> QED
    BY <1>10, <1>11

LEMMA CrashStep ==
    ASSUME IInv, Crash
    PROVE  IInv'
  <1>1. up /\ crashes < MaxCrash /\ status' = "crash" /\ crashes' = crashes + 1 /\ m' = m /\ db' = db
    BY DEF Crash
  <1>2. crashes \in 0..MaxCrash /\ MaxCrash \in Nat
    BY TopologyAssumption DEF IInv
  <1>3. crashes' \in 0..MaxCrash /\ crashes' > 0 /\ (crashes' <= 2 => crashes <= 1) /\ (crashes' <= 1 => crashes = 0)
    BY <1>1, <1>2
  <1> QED
    BY <1>1, <1>3 DEF IInv, up, Right

LEMMA EmptiedOK ==
    ASSUME NEW mem, MemOK(mem)
    PROVE  MemOK([EmptyMemory EXCEPT !.activeOf = mem.activeOf])
  <1>1. PICK e : e = [EmptyMemory EXCEPT !.activeOf = mem.activeOf]
    OBVIOUS
  <1>2. e = [panes |-> NoRow, topo |-> NoRow, activeOf |-> mem.activeOf, focus |-> NoFocus,
             nextSession |-> 0, nextWindow |-> 0]
    BY <1>1 DEF EmptyMemory
  <1>3. DOMAIN NoRow = {}
    BY DEF NoRow
  <1>4. MaxPane \in Nat /\ MaxWindow \in Nat
    BY TopologyAssumption
  <1>5. e.panes = NoRow /\ e.topo = NoRow /\ e.activeOf = mem.activeOf /\ e.focus = NoFocus
        /\ e.nextSession = 0 /\ e.nextWindow = 0
    BY <1>2
  <1>6. MemoryShape(e)
    BY <1>2, <1>4 DEF MemoryShape
  <1>7. PanesOK(e) /\ TopoOK(e)
    BY <1>3, <1>5 DEF PanesOK, TopoOK
  <1>8. FocusOK(e)
    BY <1>3, <1>5 DEF FocusOK, NoFocus, MemOK
  <1> QED
    BY <1>1, <1>6, <1>7, <1>8 DEF MemOK

LEMMA CloseStep ==
    ASSUME IInv, Close
    PROVE  IInv'
  <1>1. up /\ crashes < MaxCrash /\ crashes' = crashes + 1
    BY DEF Close
  <1>2. crashes \in 0..MaxCrash /\ MaxCrash \in Nat
    BY TopologyAssumption DEF IInv
  <1>3. crashes' \in 0..MaxCrash /\ crashes' > 0 /\ (crashes' <= 2 => crashes <= 1) /\ (crashes' <= 1 => crashes = 0)
    BY <1>1, <1>2
  <1>4. PICK S : db' = DropSessions(db, S) /\ status' \in {"torn", "crash"}
                 /\ (m' = m \/ m' = [EmptyMemory EXCEPT !.activeOf = m.activeOf])
    BY DEF Close
  <1>5. DbOK(db) /\ Right(db) /\ MemOK(m)
    BY <1>1 DEF IInv
  <1>6. PICK e : e = DropSessions(db, S)
    OBVIOUS
  <1>7. DbOK(e)
    BY <1>5, <1>6, SessionsDropped
  <1>8. (ActiveRight(db) => ActiveRight(e)) /\ (ActiveKeyed(db) => ActiveKeyed(e))
    BY <1>5, <1>6, SessionsDroppedRight
  <1>9. MemOK(m')
    BY <1>4, <1>5, EmptiedOK
  <1>10. db' = e /\ status' # "up"
    BY <1>4, <1>6
  <1> QED
    BY <1>3, <1>4, <1>5, <1>7, <1>8, <1>9, <1>10 DEF IInv, up, Right

-----------------------------------------------------------------------------
(* A restart                                                                *)

(* What a daemon finds: panes it can only show, of the rows' sessions       *)
Found(mem) ==
    /\ MemOK(mem) /\ Agrees(mem, db) /\ DOMAIN mem.activeOf = {}
    /\ mem.focus.logical = 0
    /\ \A n \in DOMAIN mem.panes : /\ mem.panes[n].kind = "recovered"
                                   /\ mem.panes[n].project = db.sessions[mem.panes[n].logical]
    /\ \A n \in Keyed(db) : n \in DOMAIN mem.panes /\ mem.panes[n].logical = db.panes[n].session

LEMMA RecoveredFound ==
    ASSUME DbOK(db)
    PROVE  Found(Recovered)
  <1> DEFINE ps == {n \in DOMAIN db.panes : db.panes[n].key}
             row(n) == db.panes[n]
             rec(n) == [project |-> db.sessions[row(n).session], logical |-> row(n).session,
                        window |-> row(n).window, kind |-> "recovered"]
             ids == {0} \cup ps \cup {row(n).session : n \in ps}
             wids == {0} \cup {row(n).window : n \in ps}
  <1>1. PICK mem : mem = Recovered
    OBVIOUS
  <1>2. PICK f : f = [n \in ps |-> rec(n)]
    OBVIOUS
  <1>3. mem = [panes |-> f, topo |-> NoRow, activeOf |-> NoRow, focus |-> NoFocus,
               nextSession |-> Max(ids), nextWindow |-> Max(wids)]
    <2>1. mem = [EmptyMemory EXCEPT !.panes = f, !.nextSession = Max(ids), !.nextWindow = Max(wids)]
      BY <1>1, <1>2 DEF Recovered
    <2>2. PICK a, b : a = Max(ids) /\ b = Max(wids)
      OBVIOUS
    <2> HIDE DEF ids, wids
    <2>3. mem = [EmptyMemory EXCEPT !.panes = f, !.nextSession = a, !.nextWindow = b]
      BY <2>1, <2>2
    <2>4. mem = [panes |-> f, topo |-> NoRow, activeOf |-> NoRow, focus |-> NoFocus,
                 nextSession |-> a, nextWindow |-> b]
      BY <2>3 DEF EmptyMemory
    <2> QED
      BY <2>2, <2>4
  <1>4. MaxPane \in Nat /\ MaxWindow \in Nat
    BY TopologyAssumption
  <1>5. RowsOK(db) /\ DbShape(db)
    BY DEF DbOK
  <1>6. \A n \in ps : /\ n \in 1..MaxPane /\ row(n).session \in 1..MaxPane /\ row(n).window \in 1..MaxWindow
                      /\ row(n).session \in DOMAIN db.sessions /\ db.sessions[row(n).session] \in Projects
                      /\ db.windows[row(n).window].session = row(n).session
    BY <1>5 DEF RowsOK, DbShape
  <1>7. Max(ids) \in 0..MaxPane /\ \A x \in ids : x <= Max(ids)
    <2>1. ids \subseteq 0..MaxPane /\ ids # {}
      BY <1>4, <1>6
    <2> HIDE DEF ids
    <2> QED
      BY <1>4, <2>1, MaxFacts
  <1>8. Max(wids) \in 0..MaxWindow /\ \A x \in wids : x <= Max(wids)
    <2>1. wids \subseteq 0..MaxWindow /\ wids # {}
      BY <1>4, <1>6
    <2> HIDE DEF wids
    <2> QED
      BY <1>4, <2>1, MaxFacts
  <1>9. PICK a, b : a = Max(ids) /\ b = Max(wids)
    OBVIOUS
  <1>10. \A n \in ps : n \in 1..a /\ row(n).session \in 1..a /\ row(n).window \in 1..b
    <2>1. \A n \in ps : n \in ids /\ row(n).session \in ids /\ row(n).window \in wids
      OBVIOUS
    <2>2. \A n \in ps : n <= a /\ row(n).session <= a /\ row(n).window <= b
      BY <1>7, <1>8, <1>9, <2>1
    <2>3. a \in Nat /\ b \in Nat
      BY <1>4, <1>7, <1>8, <1>9
    <2> HIDE DEF ps, row, ids, wids
    <2> QED
      BY <1>4, <1>6, <2>2, <2>3
  <1>11. mem.panes = f /\ mem.topo = NoRow /\ mem.activeOf = NoRow /\ mem.focus = NoFocus
         /\ mem.nextSession = a /\ mem.nextWindow = b
    BY <1>3, <1>9
  <1>12. /\ DOMAIN mem.panes = ps
         /\ \A n \in ps : /\ mem.panes[n].project = db.sessions[db.panes[n].session]
                          /\ mem.panes[n].logical = db.panes[n].session
                          /\ mem.panes[n].window = db.panes[n].window
                          /\ mem.panes[n].kind = "recovered" /\ mem.panes[n] = rec(n)
    BY <1>2, <1>11
  <1>22. \A n \in ps : n \in DOMAIN db.panes /\ db.panes[n].key
                       /\ db.panes[n].session \in 1..a
                       /\ db.windows[db.panes[n].window].session = db.panes[n].session
    BY <1>6, <1>10
  <1>13. MemoryShape(mem)
    BY <1>3, <1>7, <1>8, <1>9, <1>11 DEF MemoryShape
  <1>14. PanesOK(mem)
    <2>1. ASSUME NEW n \in DOMAIN mem.panes
          PROVE  n \in 1..mem.nextSession /\ mem.panes[n] \in PaneRecords(mem)
      <3>1. n \in ps /\ mem.panes[n] = rec(n)
        BY <1>12
      <3>2. rec(n) \in PaneRecords(mem)
        BY <1>6, <1>10, <1>11, <3>1 DEF PaneRecords, Kinds
      <3> QED
        BY <1>10, <1>11, <3>1, <3>2
    <2>2. ASSUME NEW x \in DOMAIN mem.panes, NEW y \in DOMAIN mem.panes
          PROVE  /\ mem.panes[x].window = mem.panes[y].window => mem.panes[x].logical = mem.panes[y].logical
                 /\ mem.panes[x].logical = mem.panes[y].logical => mem.panes[x].project = mem.panes[y].project
      <3> HIDE DEF ps, rec
      <3> QED
        BY <1>12, <1>22
    <2> QED
      BY <2>1, <2>2 DEF PanesOK
  <1>15. DOMAIN NoRow = {}
    BY DEF NoRow
  <1>16. TopoOK(mem)
    BY <1>11, <1>15 DEF TopoOK
  <1>17. FocusOK(mem)
    <2>1. mem.focus = [logical |-> 0, project |-> 0]
      BY <1>11 DEF NoFocus
    <2>2. mem.focus.logical = 0 /\ mem.focus.project = 0 /\ DOMAIN mem.activeOf = {}
      BY <1>11, <1>15, <2>1
    <2>3. \A n \in DOMAIN mem.panes : mem.panes[n].logical # 0
      <3>1. 0 \notin 1..a
        BY <1>4, <1>7, <1>9
      <3> HIDE DEF ps, rec
      <3> QED
        BY <1>12, <1>22, <3>1
    <2>4. 0 \in 0..mem.nextSession
      BY <1>4, <1>7, <1>9, <1>11
    <2> QED
      BY <2>1, <2>2, <2>3, <2>4 DEF FocusOK
  <1>18. Agrees(mem, db)
    <2>1. \A n \in DOMAIN db.panes : db.panes[n].key => n \in ps
      OBVIOUS
    <2> HIDE DEF ps, rec
    <2> QED
      BY <1>12, <2>1 DEF Agrees
  <1>19. mem.focus.logical = 0 /\ DOMAIN mem.activeOf = {}
    BY <1>11, <1>15 DEF NoFocus
  <1>20. \A n \in DOMAIN mem.panes : /\ mem.panes[n].kind = "recovered"
                                     /\ mem.panes[n].project = db.sessions[mem.panes[n].logical]
    <2> HIDE DEF ps, rec
    <2> QED
      BY <1>12
  <1>21. \A n \in Keyed(db) : n \in DOMAIN mem.panes /\ mem.panes[n].logical = db.panes[n].session
    BY <1>12 DEF Keyed
  <1> QED
    BY <1>1, <1>13, <1>14, <1>16, <1>17, <1>18, <1>19, <1>20, <1>21 DEF Found, MemOK

LEMMA LoadedOrder ==
    ASSUME DbOK(db), NEW mem, MemOK(mem), NEW l
    PROVE  OrderOK(LoadTopology(mem, l))
  <1> DEFINE ws == {w \in DOMAIN db.windows : db.windows[w].session = l}
             key == [w \in ws |-> 200 * db.windows[w].idx + Lex(w)]
             q == WindowRows(l)
  <1>1. MaxWindow \in Nat /\ MaxWindow < 100
    BY TopologyAssumption
  <1>2. \A w \in DOMAIN db.windows : w \in 1..MaxWindow /\ db.windows[w].idx \in Nat
    BY DEF DbOK, DbShape
  <1>3. ws \subseteq 1..MaxWindow /\ IsFiniteSet(ws)
    <2>1. ws \subseteq 1..MaxWindow
      BY <1>2
    <2>2. IsFiniteSet(1..MaxWindow)
      BY <1>1, FS_Interval
    <2> HIDE DEF ws
    <2> QED
      BY <2>1, <2>2, FS_Subset
  <1>4. \A w \in ws : /\ key[w] = 200 * db.windows[w].idx + Lex(w) /\ db.windows[w].idx \in Nat
                      /\ w \in Nat /\ Lex(w) \in Int /\ Lex(w) > 0 /\ Lex(w) < 200
    <2>1. \A w \in ws : w \in Nat /\ w > 0 /\ w < 100
      <3> HIDE DEF ws
      <3> QED
        BY <1>1, <1>3
    <2>2. \A w \in ws : Lex(w) \in Int /\ Lex(w) > 0 /\ Lex(w) < 200
      <3> HIDE DEF ws
      <3> QED
        BY <2>1, LexFacts
    <2> QED
      BY <1>2, <2>1, <2>2
  <1> HIDE DEF ws, key
  <1>5. \A w \in ws : key[w] \in Int
    BY <1>4
  <1>6. ASSUME NEW x \in ws, NEW y \in ws, key[x] = key[y]
        PROVE  x = y
    <2>1. PICK i, j, a, b : i = db.windows[x].idx /\ j = db.windows[y].idx /\ a = Lex(x) /\ b = Lex(y)
      OBVIOUS
    <2>2. i \in Nat /\ j \in Nat /\ a \in Int /\ b \in Int /\ a > 0 /\ a < 200 /\ b > 0 /\ b < 200
          /\ 200 * i + a = 200 * j + b
      BY <1>4, <1>6, <2>1
    <2>3. a = b
      BY <2>2
    <2> QED
      BY <1>4, <2>1, <2>3, LexFacts
  <1>7. q = Sorted(ws, key)
    BY DEF WindowRows, ws, key
  <1>8. q \in Seq(ws) /\ IsInjective(q)
    <2> HIDE DEF q
    <2> QED
      BY <1>3, <1>5, <1>6, <1>7, SortedSeq
  <1>9. q \in Seq(Nat)
    <2>1. ws \subseteq Nat
      BY <1>3
    <2> HIDE DEF q
    <2> QED
      BY <1>8, <2>1, SeqOfMore
  <1>10. PICK t : LoadTopology(mem, l) = Normal(WithTopology(mem, l, t), l) /\ t.order = q
    <2>1. Stored(mem, l).order = q
      BY DEF Stored
    <2> QED
      BY <2>1 DEF LoadTopology
  <1>11. OrderOK(t)
    BY <1>8, <1>9, <1>10 DEF OrderOK
  <1>12. MemOK(WithTopology(mem, l, t))
    BY <1>11, WithTopologyOK
  <1> QED
    BY <1>10, <1>12, NormalFacts

LEMMA LoadedFound ==
    ASSUME DbOK(db)
    PROVE  Found(Loaded)
  <1>1. PICK mem : mem = Recovered
    OBVIOUS
  <1>2. Found(mem) /\ MemOK(mem)
    BY <1>1, RecoveredFound DEF Found
  <1>3. PICK f : f = [l \in LogicalsOf(mem) |-> LoadTopology(mem, l)]
    OBVIOUS
  <1>4. PICK e : e = Loaded
    OBVIOUS
  <1>5. e = [mem EXCEPT !.topo = f]
    BY <1>1, <1>3, <1>4 DEF Loaded
  <1>6. e = [panes |-> mem.panes, topo |-> f, activeOf |-> mem.activeOf, focus |-> mem.focus,
             nextSession |-> mem.nextSession, nextWindow |-> mem.nextWindow]
    BY <1>2, <1>5 DEF MemOK, MemoryShape
  <1>7. SameButTopo(e, mem) /\ e.topo = f
    BY <1>6 DEF SameButTopo
  <1>8. MemoryShape(e)
    BY <1>2, <1>6, <1>7 DEF MemOK, MemoryShape, SameButTopo
  <1>9. PanesOK(e) /\ FocusOK(e)
    BY <1>2, <1>7 DEF SameButTopo, MemOK, PanesOK, FocusOK, PaneRecords
  <1>10. TopoOK(e)
    <2>1. ASSUME NEW l \in DOMAIN f PROVE OrderOK(f[l])
      BY <1>2, <1>3, LoadedOrder
    <2> QED
      BY <1>7, <2>1 DEF TopoOK, OrderOK
  <1>11. Agrees(e, db)
    BY <1>2, <1>7, SameSessions DEF Found
  <1> QED
    BY <1>2, <1>4, <1>7, <1>8, <1>9, <1>10, <1>11 DEF Found, SameButTopo, MemOK

\* What is left to show of the memory a daemon restarts with.
Restored(mem) ==
    /\ MemOK(mem) /\ Agrees(mem, db)
    /\ \A n \in DOMAIN mem.panes : mem.panes[n].kind = "recovered"
    /\ \A n \in Keyed(db) : n \in DOMAIN mem.panes /\ mem.panes[n].logical = db.panes[n].session
    /\ ActiveRight(db) => Exists(mem)

LEMMA RestoredUp ==
    ASSUME IInv, ~up, up', db' = db, crashes' = crashes, Restored(m')
    PROVE  IInv'
  <1>1. DbOK(db) /\ crashes \in 0..MaxCrash /\ crashes > 0
        /\ (crashes <= 2 => ActiveRight(db)) /\ (crashes <= 1 => ActiveKeyed(db))
    BY DEF IInv
  <1>2. MaxCrash \in Nat
    BY TopologyAssumption
  <1>3. PICK mem : mem = m'
    OBVIOUS
  <1>4. Restored(mem) /\ MemOK(mem) /\ Agrees(mem, db)
    BY <1>3 DEF Restored
  <1>5. ASSUME crashes <= 1, NEW p \in DOMAIN db.active
        PROVE  db.active[p] \in 1..mem.nextSession
    <2>1. PICK n \in DOMAIN db.panes : db.panes[n].key /\ db.panes[n].session = db.active[p]
      BY <1>1, <1>5 DEF ActiveKeyed
    <2>2. n \in DOMAIN mem.panes /\ mem.panes[n].logical = db.active[p]
      BY <1>4, <2>1 DEF Restored, Keyed
    <2>3. mem.panes[n].logical \in 1..mem.nextSession /\ mem.nextSession \in Int
      BY <1>4, <2>2 DEF MemOK, PanesOK, PaneRecords, MemoryShape
    <2> QED
      BY <2>2, <2>3
  <1>6. \A l : LiveIn(mem, l) = {}
    BY <1>4 DEF Restored, LiveIn, PanesOf
  <1>7. Durable(mem, db)
    BY <1>6 DEF Durable
  <1>8. ASSUME MaxCrash <= 2 PROVE Exists(mem)
    <2>1. crashes <= 2
      BY <1>1, <1>2, <1>8
    <2> QED
      BY <1>1, <1>4, <2>1 DEF Restored
  <1>9. Lasts(mem, db)
    BY <1>7, <1>8 DEF Lasts
  <1>10. crashes # 0
    BY <1>1
  <1>11. status' = "up"
    BY DEF up
  <1> QED
    BY <1>1, <1>3, <1>4, <1>5, <1>9, <1>10, <1>11 DEF IInv, up, Right, Young

LEMMA SelectedRestored ==
    ASSUME DbOK(db), NEW mem, Found(mem),
           NEW S, S \subseteq DOMAIN db.active, S # {},
           \A p \in S : db.active[p] \in LogicalsOf(mem),
           NEW order \in Orders(S)
    PROVE  Restored(Selected(mem, order))
  <1> DEFINE l(i) == db.active[order[i]]
             writes(p) == {i \in DOMAIN order : p \in {order[i], ProjectOf(mem, l(i))}}
             focus == l(Len(order))
             active == [p \in {p \in Projects : writes(p) # {}} |-> l(Max(writes(p)))]
  <1>1. S \subseteq Projects /\ IsFiniteSet(S) /\ Cardinality(S) \in Nat /\ Cardinality(S) # 0
    <2>1. S \subseteq Projects
      BY DEF DbOK, ActiveOK
    <2>2. IsFiniteSet(S)
      BY <2>1, TopologyAssumption, FS_Subset
    <2> QED
      BY <2>1, <2>2, FS_CardinalityType, FS_EmptySet
  <1>2. PICK c \in Nat : c = Cardinality(S) /\ c # 0
    BY <1>1
  <1>3. order \in [1..c -> S] /\ DOMAIN order = 1..c /\ Len(order) = c
    <2>1. order \in [1..c -> S]
      BY <1>2 DEF Orders
    <2>2. order \in Seq(S)
      BY <2>1
    <2> QED
      BY <2>1, <2>2
  <1>4. MemOK(mem) /\ Agrees(mem, db)
    BY DEF Found
  <1>5. ASSUME NEW i \in 1..c
        PROVE  /\ order[i] \in S /\ l(i) \in LogicalsOf(mem) /\ l(i) \in 1..mem.nextSession
               /\ ProjectOf(mem, l(i)) \in Projects
               /\ \E n \in DOMAIN mem.panes : mem.panes[n].logical = l(i)
                                              /\ mem.panes[n].project = ProjectOf(mem, l(i))
               /\ \A n \in DOMAIN mem.panes : mem.panes[n].logical = l(i)
                                              => mem.panes[n].project = ProjectOf(mem, l(i))
    <2>1. order[i] \in S /\ l(i) \in LogicalsOf(mem)
      BY <1>3
    <2>2. PICK k : k = l(i)
      OBVIOUS
    <2> HIDE DEF l
    <2>3. k \in LogicalsOf(mem)
      BY <2>1, <2>2
    <2> QED
      BY <1>4, <2>1, <2>2, <2>3, ProjectFacts
  <1>6. ASSUME NEW p, writes(p) # {}
        PROVE  Max(writes(p)) \in writes(p) /\ \A i \in writes(p) : i <= Max(writes(p))
    <2>1. writes(p) \subseteq 0..c
      BY <1>3
    <2> HIDE DEF writes
    <2> QED
      BY <1>6, <2>1, MaxFacts
  <1>7. PICK f, g : f = focus /\ g = ProjectOf(mem, focus)
    OBVIOUS
  <1>8. PICK a : a = active
    OBVIOUS
  <1>9. PICK e : e = Selected(mem, order)
    OBVIOUS
  <1>10. e = [panes |-> mem.panes, topo |-> mem.topo, activeOf |-> a,
              focus |-> [logical |-> f, project |-> g],
              nextSession |-> mem.nextSession, nextWindow |-> mem.nextWindow]
    <2>1. e = [mem EXCEPT !.activeOf = active, !.focus = [logical |-> focus, project |-> ProjectOf(mem, focus)]]
      BY <1>9 DEF Selected
    <2> HIDE DEF active, focus
    <2>2. e = [mem EXCEPT !.activeOf = a, !.focus = [logical |-> f, project |-> g]]
      BY <1>7, <1>8, <2>1
    <2>3. PICK h : h = [logical |-> f, project |-> g]
      OBVIOUS
    <2>4. e = [[mem EXCEPT !.activeOf = a] EXCEPT !.focus = h]
      BY <2>2, <2>3
    <2>5. [mem EXCEPT !.activeOf = a] =
             [panes |-> mem.panes, topo |-> mem.topo, activeOf |-> a, focus |-> mem.focus,
              nextSession |-> mem.nextSession, nextWindow |-> mem.nextWindow]
      BY <1>4 DEF MemOK, MemoryShape
    <2> QED
      BY <2>3, <2>4, <2>5
  <1>11. e.panes = mem.panes /\ e.topo = mem.topo /\ e.activeOf = a
         /\ e.focus = [logical |-> f, project |-> g] /\ e.focus.logical = f /\ e.focus.project = g
         /\ e.nextSession = mem.nextSession /\ e.nextWindow = mem.nextWindow
    BY <1>10
  <1>12. MemoryShape(e)
    BY <1>4, <1>10, <1>11 DEF MemOK, MemoryShape
  <1>13. PanesOK(e) /\ TopoOK(e)
    BY <1>4, <1>11 DEF MemOK, PanesOK, TopoOK, PaneRecords
  <1>14. ASSUME NEW p \in DOMAIN a
         PROVE  /\ p \in Projects /\ Max(writes(p)) \in 1..c /\ a[p] = l(Max(writes(p)))
                /\ p \in {order[Max(writes(p))], ProjectOf(mem, a[p])}
    <2>1. p \in Projects /\ writes(p) # {} /\ a[p] = l(Max(writes(p)))
      <3> HIDE DEF writes, l
      <3> QED
        BY <1>8
    <2>2. Max(writes(p)) \in writes(p)
      BY <1>6, <2>1
    <2>3. PICK i : i = Max(writes(p))
      OBVIOUS
    <2>4. i \in writes(p)
      BY <2>2, <2>3
    <2>5. i \in 1..c /\ p \in {order[i], ProjectOf(mem, l(i))}
      BY <1>3, <2>4
    <2> HIDE DEF writes, l
    <2> QED
      BY <2>1, <2>3, <2>5
  <1>15. c \in 1..c /\ f = l(c) /\ g = ProjectOf(mem, l(c))
    <2>1. c \in 1..c
      BY <1>2
    <2>2. focus = l(c)
      BY <1>3
    <2> HIDE DEF focus, l
    <2> QED
      BY <1>7, <2>1, <2>2
  <1>16. g \in DOMAIN a => a[g] = f
    <2>1. SUFFICES ASSUME g \in DOMAIN a PROVE a[g] = f
      OBVIOUS
    <2>2. Max(writes(g)) \in 1..c /\ a[g] = l(Max(writes(g)))
      BY <1>14, <2>1
    <2>3. c \in writes(g)
      <3>1. c \in DOMAIN order /\ g = ProjectOf(mem, l(c))
        BY <1>3, <1>15
      <3> QED
        BY <3>1
    <2>4. c <= Max(writes(g))
      <3>1. writes(g) # {}
        BY <2>3
      <3> HIDE DEF writes
      <3> QED
        BY <1>6, <2>3, <3>1
    <2>5. Max(writes(g)) = c
      <3> HIDE DEF writes
      <3> QED
        BY <1>2, <2>2, <2>4
    <2> HIDE DEF writes, l
    <2> QED
      BY <1>15, <2>2, <2>5
  <1>17. FocusOK(e)
    <2>1. DOMAIN a \subseteq Projects
      BY <1>14
    <2>2. f \in 1..mem.nextSession /\ g \in Projects
          /\ \A n \in DOMAIN mem.panes : mem.panes[n].logical = f => mem.panes[n].project = g
      <3> HIDE DEF l
      <3> QED
        BY <1>5, <1>15
    <2>3. f \in 0..mem.nextSession
      BY <1>4, <2>2 DEF MemOK, MemoryShape
    <2> QED
      BY <1>11, <1>16, <2>1, <2>2, <2>3 DEF FocusOK
  <1>18. ASSUME ActiveRight(db) PROVE Exists(e)
    <2>1. ASSUME NEW p \in DOMAIN a
          PROVE  \E n \in DOMAIN mem.panes : mem.panes[n].project = p /\ mem.panes[n].logical = a[p]
      <3>1. PICK i \in 1..c : i = Max(writes(p))
        BY <1>14
      <3>2. a[p] = l(i) /\ p \in {order[i], ProjectOf(mem, l(i))}
        <4> HIDE DEF l, writes
        <4> QED
          BY <1>14, <3>1
      <3>3. PICK n \in DOMAIN mem.panes : mem.panes[n].logical = l(i)
                                          /\ mem.panes[n].project = ProjectOf(mem, l(i))
        BY <1>5
      <3>4. order[i] \in S
        BY <1>5
      <3>5. db.sessions[db.active[order[i]]] = order[i]
        BY <1>18, <3>4 DEF ActiveRight
      <3>6. mem.panes[n].project = db.sessions[mem.panes[n].logical]
        BY DEF Found
      <3>7. mem.panes[n].project = order[i]
        BY <3>3, <3>5, <3>6
      <3> HIDE DEF l
      <3> QED
        BY <3>2, <3>3, <3>7
    <2> QED
      BY <1>11, <2>1 DEF Exists
  <1>19. Agrees(e, db)
    BY <1>4, <1>11 DEF Agrees
  <1> QED
    BY <1>9, <1>11, <1>12, <1>13, <1>17, <1>18, <1>19 DEF Restored, Found, MemOK

LEMMA RestartStep ==
    ASSUME IInv, Restart
    PROVE  IInv'
  <1>1. ~up /\ up' /\ db' = db /\ crashes' = crashes
    BY DEF Restart, up
  <1>2. DbOK(db)
    BY DEF IInv
  <1>3. PICK mem : mem = Loaded /\ Selecting(mem, LogicalsOf(mem))
    BY DEF Restart
  <1>4. Found(mem)
    BY <1>2, <1>3, LoadedFound
  <1>5. PICK ls : ls = LogicalsOf(mem)
    OBVIOUS
  <1>6. PICK S : S = {p \in DOMAIN db.active : db.active[p] \in ls}
    OBVIOUS
  <1>7. CASE S # {}
    <2>1. \E order \in Orders(S) : m' = Selected(mem, order)
      BY <1>3, <1>5, <1>6, <1>7 DEF Selecting
    <2>2. PICK order \in Orders(S) : m' = Selected(mem, order)
      BY <2>1
    <2>3. S \subseteq DOMAIN db.active /\ \A p \in S : db.active[p] \in LogicalsOf(mem)
      BY <1>5, <1>6
    <2>4. Restored(m')
      BY <1>2, <1>4, <1>7, <2>2, <2>3, SelectedRestored
    <2> QED
      BY <1>1, <2>4, RestoredUp
  <1>8. CASE S = {} /\ ls = {}
    <2>1. m' = mem
      BY <1>3, <1>5, <1>6, <1>8 DEF Selecting
    <2>2. Restored(mem)
      BY <1>4 DEF Found, Restored, Exists
    <2> QED
      BY <1>1, <2>1, <2>2, RestoredUp
  <1>9. CASE S = {} /\ ls # {}
    <2>1. PICK f, g : f = Last(SortedIds(ls)) /\ g = ProjectOf(mem, f)
      OBVIOUS
    <2>2. PICK e : e = m'
      OBVIOUS
    <2>3. e = [mem EXCEPT !.focus = [logical |-> f, project |-> g]]
      BY <1>3, <1>5, <1>6, <1>9, <2>1, <2>2 DEF Selecting
    <2>4. MemOK(mem) /\ Agrees(mem, db) /\ mem.nextSession \in Nat
      BY <1>4 DEF Found, MemOK, MemoryShape
    <2>5. f \in ls
      <3>1. \A k \in ls : k \in 1..mem.nextSession
        BY <1>5, <2>4, ProjectFacts
      <3>2. IsFiniteSet(ls) /\ ls \subseteq Nat
        <4>1. IsFiniteSet(1..mem.nextSession)
          BY <2>4, FS_Interval
        <4>2. ls \subseteq 1..mem.nextSession
          BY <3>1
        <4>3. IsFiniteSet(ls)
          BY <4>1, <4>2, FS_Subset
        <4>4. \A k \in ls : k \in Nat
          BY <2>4, <3>1
        <4> QED
          BY <4>3, <4>4
      <3> QED
        BY <1>9, <2>1, <3>2, SortedIdsFacts
    <2>6. f \in 1..mem.nextSession /\ g \in Projects
          /\ \A n \in DOMAIN mem.panes : mem.panes[n].logical = f => mem.panes[n].project = g
      BY <1>5, <2>1, <2>4, <2>5, ProjectFacts
    <2>7. e = [panes |-> mem.panes, topo |-> mem.topo, activeOf |-> mem.activeOf,
               focus |-> [logical |-> f, project |-> g],
               nextSession |-> mem.nextSession, nextWindow |-> mem.nextWindow]
      BY <2>3, <2>4 DEF MemOK, MemoryShape
    <2>8. e.panes = mem.panes /\ e.topo = mem.topo /\ e.activeOf = mem.activeOf
          /\ e.focus = [logical |-> f, project |-> g] /\ e.focus.logical = f /\ e.focus.project = g
          /\ e.nextSession = mem.nextSession /\ e.nextWindow = mem.nextWindow
      BY <2>7
    <2>9. MemoryShape(e)
      BY <2>4, <2>7, <2>8 DEF MemOK, MemoryShape
    <2>10. PanesOK(e) /\ TopoOK(e)
      BY <2>4, <2>8 DEF MemOK, PanesOK, TopoOK, PaneRecords
    <2>11. DOMAIN e.activeOf = {}
      BY <1>4, <2>8 DEF Found
    <2>12. FocusOK(e)
      BY <2>4, <2>6, <2>8, <2>11 DEF FocusOK
    <2>13. Agrees(e, db)
      BY <2>4, <2>8 DEF Agrees
    <2>14. Restored(e)
      BY <1>4, <2>8, <2>9, <2>10, <2>11, <2>12, <2>13 DEF Found, Restored, Exists, MemOK
    <2> QED
      BY <1>1, <2>2, <2>14, RestoredUp
  <1> QED
    BY <1>7, <1>8, <1>9

LEMMA InitOK ==
    Init => IInv
  <1>1. SUFFICES ASSUME Init PROVE IInv
    OBVIOUS
  <1>2. status = "up" /\ crashes = 0 /\ db = EmptyDb /\ m = [EmptyMemory EXCEPT !.nextWindow = FirstWindow]
    BY <1>1 DEF Init
  <1>3. MaxPane \in Nat /\ MaxWindow \in Nat /\ FirstWindow \in 0..MaxWindow /\ MaxCrash \in Nat
    BY TopologyAssumption
  <1>4. m = [panes |-> NoRow, topo |-> NoRow, activeOf |-> NoRow, focus |-> NoFocus,
             nextSession |-> 0, nextWindow |-> FirstWindow]
    BY <1>2 DEF EmptyMemory
  <1>5. m.panes = NoRow /\ m.topo = NoRow /\ m.activeOf = NoRow /\ m.focus = NoFocus
        /\ m.nextSession = 0 /\ m.nextWindow = FirstWindow
    BY <1>4
  <1>6. DOMAIN NoRow = {}
    BY DEF NoRow
  <1>7. MemoryShape(m)
    BY <1>3, <1>4, <1>5 DEF MemoryShape
  <1>8. PanesOK(m) /\ TopoOK(m) /\ Exists(m) /\ Durable(m, db)
    BY <1>5, <1>6 DEF PanesOK, TopoOK, Exists, Durable
  <1>9. FocusOK(m)
    BY <1>5, <1>6 DEF FocusOK, NoFocus
  <1>10. db.sessions = NoRow /\ db.windows = NoRow /\ db.panes = NoRow /\ db.active = NoRow
         /\ IsDb(db)
    BY <1>2 DEF EmptyDb, IsDb
  <1>11. DbOK(db)
    BY <1>6, <1>10 DEF DbOK, DbShape, RowsOK, ActiveOK, IsDb
  <1>12. Right(db) /\ Agrees(m, db) /\ Young(m, db)
    BY <1>5, <1>6, <1>10 DEF Right, ActiveRight, ActiveKeyed, Agrees, Young, AllKeyed
  <1> QED
    BY <1>2, <1>3, <1>7, <1>8, <1>9, <1>11, <1>12 DEF IInv, MemOK, up, Lasts

-----------------------------------------------------------------------------
(* Creations                                                                *)

(* dropping panes that do not run                                           *)
LEMMA PanesDroppedLasts ==
    ASSUME NEW mem, NEW d, Good(d), Agrees(mem, d), NEW S, NEW e, e = DropPanes(d, S),
           \A n \in DOMAIN mem.panes : mem.panes[n].kind = "live" => n \notin S
    PROVE  Agrees(mem, e) /\ (Durable(mem, d) => Durable(mem, e))
  <1>1. /\ DbOK(e) /\ Fewer(e, d)
        /\ \A n \in Keyed(d) \ S : n \in DOMAIN e.panes
        /\ \A p \in DOMAIN d.active :
              (\E n \in DOMAIN d.panes \ S : d.panes[n].session = d.active[p]) => p \in DOMAIN e.active
    BY PanesDropped DEF Good
  <1>2. ASSUME NEW n \in DOMAIN mem.panes, mem.panes[n].kind = "live"
        PROVE  n \in Keyed(d) \ S /\ d.panes[n].session = mem.panes[n].logical /\ n \in DOMAIN d.panes \ S
    BY <1>2 DEF Agrees, Keyed
  <1>3. Agrees(mem, e)
    BY <1>1, <1>2, FewerAgrees
  <1>4. ASSUME Durable(mem, d) PROVE Durable(mem, e)
    <2>1. ASSUME NEW p \in DOMAIN mem.activeOf, LiveIn(mem, mem.activeOf[p]) # {}
          PROVE  p \in DOMAIN e.active /\ e.active[p] = mem.activeOf[p]
      <3>1. p \in DOMAIN d.active /\ d.active[p] = mem.activeOf[p]
        BY <1>4, <2>1 DEF Durable
      <3>2. PICK n \in DOMAIN mem.panes : mem.panes[n].logical = mem.activeOf[p] /\ mem.panes[n].kind = "live"
        BY <2>1 DEF LiveIn, PanesOf
      <3>3. n \in DOMAIN d.panes \ S /\ d.panes[n].session = d.active[p]
        BY <1>2, <3>1, <3>2
      <3>4. p \in DOMAIN e.active
        BY <1>1, <3>1, <3>3
      <3> QED
        BY <1>1, <3>1, <3>4 DEF Fewer
    <2> QED
      BY <2>1 DEF Durable
  <1> QED
    BY <1>3, <1>4

\* A pane may be created for project p: of session l or a new one, in its
\* window w or a new one.
Creatable(p, l, w) ==
    /\ MayCreate /\ p \in Projects /\ (w = 0 => m.nextWindow < MaxWindow)
    /\ l = 0 => w = 0
    /\ l # 0 => l \in LogicalsOf(m) /\ p = ProjectOf(m, l)
    /\ w # 0 => w \in WindowsOf(m, l)
NewPane(p, l, w) ==
    [project |-> p, kind |-> "live", logical |-> IF l = 0 THEN m.nextSession + 1 ELSE l,
     window |-> IF w = 0 THEN m.nextWindow + 1 ELSE w]
Burnt(w) == [m EXCEPT !.nextSession = m.nextSession + 1, !.nextWindow = IF w = 0 THEN m.nextWindow + 1 ELSE @]

(* ids are given out                                                        *)
LEMMA BurntOK ==
    ASSUME IInv, up, NEW p, NEW l, NEW w, Creatable(p, l, w), NEW mem, mem = Burnt(w)
    PROVE  /\ MemOK(mem) /\ Agrees(mem, db) /\ Young(mem, db) /\ Lasts(mem, db)
           /\ mem.panes = m.panes /\ mem.activeOf = m.activeOf
           /\ mem.nextSession = m.nextSession + 1 /\ mem.nextSession \in 1..MaxPane
           /\ m.nextSession < mem.nextSession /\ m.nextWindow <= mem.nextWindow
           /\ mem.nextWindow = IF w = 0 THEN m.nextWindow + 1 ELSE m.nextWindow
           /\ mem.nextWindow \in 0..MaxWindow
  <1>1. MemOK(m) /\ Agrees(m, db) /\ Young(m, db) /\ Lasts(m, db)
    BY DEF IInv
  <1>2. PICK a, b : a = m.nextSession + 1 /\ b = IF w = 0 THEN m.nextWindow + 1 ELSE m.nextWindow
    OBVIOUS
  <1>3. m.nextSession \in 0..MaxPane /\ m.nextWindow \in 0..MaxWindow /\ MaxPane \in Nat /\ MaxWindow \in Nat
    BY <1>1, TopologyAssumption DEF MemOK, MemoryShape
  <1>4. a \in 1..MaxPane /\ m.nextSession < a /\ b \in 0..MaxWindow /\ m.nextWindow <= b
    BY <1>2, <1>3 DEF Creatable, MayCreate
  <1>5. mem = [panes |-> m.panes, topo |-> m.topo, activeOf |-> m.activeOf, focus |-> m.focus,
               nextSession |-> a, nextWindow |-> b]
    <2>1. mem = [[m EXCEPT !.nextSession = a] EXCEPT !.nextWindow = b]
      BY <1>2 DEF Burnt
    <2>2. [m EXCEPT !.nextSession = a] =
             [panes |-> m.panes, topo |-> m.topo, activeOf |-> m.activeOf, focus |-> m.focus,
              nextSession |-> a, nextWindow |-> m.nextWindow]
      BY <1>1 DEF MemOK, MemoryShape
    <2> QED
      BY <2>1, <2>2
  <1>6. mem.panes = m.panes /\ mem.topo = m.topo /\ mem.activeOf = m.activeOf /\ mem.focus = m.focus
        /\ mem.nextSession = a /\ mem.nextWindow = b
    BY <1>5
  <1>7. MemoryShape(mem)
    BY <1>3, <1>4, <1>5, <1>6 DEF MemoryShape
  <1>8. PanesOK(mem)
    <2>1. 1..m.nextSession \subseteq 1..a /\ 1..m.nextWindow \subseteq 1..b
      BY <1>3, <1>4
    <2>2. PaneRecords(m) \subseteq PaneRecords(mem)
      BY <1>6, <2>1 DEF PaneRecords
    <2> QED
      BY <1>1, <1>6, <2>1, <2>2 DEF MemOK, PanesOK
  <1>9. TopoOK(mem) /\ FocusOK(mem)
    <2>1. m.focus.logical \in 0..a
      <3>1. m.focus.logical \in 0..m.nextSession
        BY <1>1 DEF MemOK, FocusOK
      <3> QED
        BY <1>3, <1>4, <3>1
    <2> QED
      BY <1>1, <1>6, <2>1 DEF MemOK, TopoOK, FocusOK
  <1>10. Agrees(mem, db)
    BY <1>1, <1>6 DEF Agrees
  <1>11. Young(mem, db)
    <2>1. ASSUME crashes <= 1, NEW q \in DOMAIN db.active PROVE db.active[q] \in 1..a
      <3>1. db.active[q] \in 1..m.nextSession
        BY <1>1, <2>1 DEF Young
      <3> QED
        BY <1>3, <1>4, <3>1
    <2> QED
      BY <1>1, <1>6, <2>1 DEF Young
  <1>12. Lasts(mem, db)
    BY <1>1, <1>6 DEF Lasts, Exists, Durable, LiveIn, PanesOf
  <1> QED
    BY <1>2, <1>4, <1>6, <1>7, <1>8, <1>9, <1>10, <1>11, <1>12 DEF MemOK

LEMMA NewPaneFacts ==
    ASSUME IInv, up, NEW p, NEW l, NEW w, Creatable(p, l, w),
           NEW s, Running(s), s.m = Burnt(w), s.db = db,
           NEW n, n = m.nextSession + 1, NEW r, r = NewPane(p, l, w)
    PROVE  /\ Legit(s, n, r) /\ n \notin DOMAIN m.panes /\ n \notin Keyed(db)
           /\ n \in 1..s.m.nextSession /\ r \in PaneRecords(s.m)
           /\ \A k \in DOMAIN m.panes : /\ m.panes[k].logical = r.logical => m.panes[k].project = r.project
                                        /\ m.panes[k].window = r.window => m.panes[k].logical = r.logical
           /\ r.kind = "live" /\ r.project = p
  <1>1. MemOK(m) /\ Agrees(m, db) /\ Young(m, db)
    BY DEF IInv
  <1>2. /\ s.m.panes = m.panes /\ s.m.nextSession = n /\ n \in 1..MaxPane
        /\ m.nextSession < n /\ m.nextWindow <= s.m.nextWindow
        /\ s.m.nextWindow = IF w = 0 THEN m.nextWindow + 1 ELSE m.nextWindow
        /\ s.m.nextWindow \in 0..MaxWindow
    BY BurntOK
  <1>3. m.nextSession \in Nat /\ m.nextWindow \in Nat /\ MaxPane \in Nat /\ MaxWindow \in Nat
    BY <1>1, TopologyAssumption DEF MemOK, MemoryShape
  <1>4. \A k \in DOMAIN m.panes : /\ k \in 1..m.nextSession /\ m.panes[k].logical \in 1..m.nextSession
                                  /\ m.panes[k].window \in 1..m.nextWindow
    BY <1>1 DEF MemOK, PanesOK, PaneRecords
  <1>5. /\ r.project = p /\ r.kind = "live" /\ r.logical = (IF l = 0 THEN n ELSE l)
        /\ r.window = (IF w = 0 THEN m.nextWindow + 1 ELSE w)
        /\ r = [project |-> r.project, kind |-> r.kind, logical |-> r.logical, window |-> r.window]
    BY DEF NewPane
  <1>6. n \notin DOMAIN m.panes
    BY <1>2, <1>3, <1>4
  <1>7. n \notin Keyed(db)
    BY <1>1, <1>6, KeyedPane
  <1>8. CASE l = 0
    <2>1. r.logical = n /\ r.window = m.nextWindow + 1 /\ s.m.nextWindow = m.nextWindow + 1
      BY <1>2, <1>5, <1>8 DEF Creatable
    <2>2. \A k \in DOMAIN m.panes : m.panes[k].logical # r.logical /\ m.panes[k].window # r.window
      BY <1>2, <1>3, <1>4, <2>1
    <2>3. ASSUME crashes <= 1, NEW q \in DOMAIN db.active PROVE db.active[q] # n
      BY <1>1, <1>2, <1>3, <2>3 DEF Young
    <2>4. MayOwn(db, r.logical, r.project)
      BY <1>5, <2>1, <2>3 DEF MayOwn, Creatable
    <2>5. r.logical \in 1..MaxPane /\ r.window \in 1..MaxWindow /\ r.logical \in 1..n
          /\ r.window \in 1..s.m.nextWindow /\ n \in 1..n
      BY <1>2, <1>3, <2>1
    <2>6. r \in PaneRecords(s.m)
      BY <1>2, <1>5, <2>5 DEF PaneRecords, Kinds, Creatable
    <2> QED
      BY <1>2, <1>5, <1>6, <1>7, <2>2, <2>4, <2>5, <2>6 DEF Legit
  <1>9. CASE l # 0
    <2>1. r.logical = l /\ l \in LogicalsOf(m) /\ p = ProjectOf(m, l)
      BY <1>5, <1>9 DEF Creatable
    <2>2. /\ \A k \in DOMAIN m.panes : m.panes[k].logical = l => m.panes[k].project = p
          /\ p \in Projects /\ l \in 1..m.nextSession
      BY <1>1, <2>1, ProjectFacts
    <2>3. MayOwn(db, l, p)
      <3>1. PICK k \in DOMAIN m.panes : m.panes[k].logical = l
        BY <2>1 DEF LogicalsOf
      <3> QED
        BY <1>1, <2>2, <3>1 DEF MayOwn, Agrees
    <2>4. r.window \in 1..s.m.nextWindow
          /\ \A k \in DOMAIN m.panes : m.panes[k].window = r.window => m.panes[k].logical = l
      <3>1. CASE w = 0
        <4>1. r.window = m.nextWindow + 1 /\ s.m.nextWindow = m.nextWindow + 1
          BY <1>2, <1>5, <3>1
        <4> QED
          BY <1>3, <1>4, <4>1
      <3>2. CASE w # 0
        <4>1. r.window = w /\ w \in WindowsOf(m, l)
          BY <1>5, <3>2 DEF Creatable
        <4>2. PICK k \in DOMAIN m.panes : m.panes[k].logical = l /\ m.panes[k].window = w
          BY <4>1 DEF WindowsOf, PanesOf
        <4>3. w \in 1..s.m.nextWindow
          BY <1>2, <1>3, <1>4, <4>2
        <4> QED
          BY <1>1, <4>1, <4>2, <4>3 DEF MemOK, PanesOK
      <3> QED
        BY <3>1, <3>2
    <2>5. l \in 1..MaxPane /\ r.window \in 1..MaxWindow /\ l \in 1..n /\ n \in 1..n
      BY <1>2, <1>3, <2>2, <2>4
    <2>6. r \in PaneRecords(s.m)
      BY <1>2, <1>5, <2>1, <2>2, <2>4, <2>5 DEF PaneRecords, Kinds
    <2> QED
      BY <1>2, <1>5, <1>6, <1>7, <2>1, <2>2, <2>3, <2>4, <2>5, <2>6 DEF Legit
  <1> QED
    BY <1>8, <1>9

(* the pane's keyframe is saved, and memory takes the pane up               *)
RegisteredIn(mem, n, r) ==
    [mem EXCEPT !.panes = Put(@, n, r), !.activeOf = Put(@, r.project, r.logical),
                !.focus = [logical |-> r.logical, project |-> r.project]]
WithKeyframe(d, n) == [d EXCEPT !.panes[n].key = TRUE]
Unregistered(mem, d, n, r) ==
    /\ n \in 1..mem.nextSession /\ n \notin DOMAIN mem.panes /\ r \in PaneRecords(mem) /\ r.kind = "live"
    /\ \A k \in DOMAIN mem.panes :
          /\ mem.panes[k].logical = r.logical => mem.panes[k].project = r.project
          /\ mem.panes[k].window = r.window => mem.panes[k].logical = r.logical
    /\ n \in DOMAIN d.panes /\ d.panes[n].session = r.logical /\ d.panes[n].window = r.window
    /\ r.logical \in DOMAIN d.sessions /\ d.sessions[r.logical] = r.project
    /\ r.window \in DOMAIN d.windows /\ d.windows[r.window].session = r.logical
    /\ crashes <= 1 => \A q \in DOMAIN d.active : d.active[q] \in 1..mem.nextSession
    /\ crashes = 0 => /\ \A k \in DOMAIN mem.panes : mem.panes[k].kind # "recovered"
                      /\ \A k \in DOMAIN d.panes : k # n => d.panes[k].key
                      /\ \A l \in DOMAIN d.sessions : \E k \in DOMAIN d.panes : d.panes[k].session = l

LEMMA KeyframeSaved ==
    ASSUME NEW mem, NEW d, MemOK(mem), Good(d), Agrees(mem, d), NEW n, NEW r, Unregistered(mem, d, n, r),
           NEW e, e = WithKeyframe(d, n)
    PROVE  /\ Good(e) /\ e.sessions = d.sessions /\ e.active = d.active
           /\ DOMAIN e.panes = DOMAIN d.panes /\ n \in DOMAIN e.panes
           /\ e.panes[n].key /\ e.panes[n].session = r.logical /\ e.panes[n].window = r.window
           /\ \A k \in DOMAIN d.panes : k # n => e.panes[k] = d.panes[k]
  <1>1. PICK key \in BOOLEAN : key = TRUE
    OBVIOUS
  <1>2. PICK row : row = [window |-> r.window, session |-> r.logical, key |-> key]
    OBVIOUS
  <1>3. n \in DOMAIN d.panes /\ d.panes[n].session = r.logical /\ d.panes[n].window = r.window
    BY DEF Unregistered
  <1>4. IsDb(d) /\ RowsOK(d)
    BY DEF Good, DbOK, DbShape, IsDb
  <1>5. n \in 1..MaxPane /\ r.logical \in 1..MaxPane
        /\ d.panes[n] = [window |-> r.window, session |-> r.logical, key |-> d.panes[n].key]
    BY <1>3, <1>4 DEF RowsOK
  <1>6. [d.panes[n] EXCEPT !.key = key] = row
    BY <1>2, <1>5
  <1>7. PICK f : f = [d.panes EXCEPT ![n] = row]
    OBVIOUS
  <1>8. f = Put(d.panes, n, row)
    BY <1>3, <1>7 DEF Put
  <1>9. e = [d EXCEPT !.panes = f]
    BY <1>1, <1>6, <1>7 DEF WithKeyframe
  <1>10. e = WithPane(d, n, row)
    BY <1>4, <1>8, <1>9, DbExcept DEF WithPane
  <1>11. n \notin Keyed(d)
    <2>1. n \notin DOMAIN mem.panes
      BY DEF Unregistered
    <2> QED
      BY <2>1, KeyedPane
  <1>12. /\ Good(e) /\ DOMAIN e.panes = DOMAIN d.panes \cup {n}
         /\ e.panes[n] = row
         /\ \A k \in DOMAIN d.panes : k # n => e.panes[k] = d.panes[k]
    <2>1. e = WithPane(d, n, [window |-> r.window, session |-> r.logical, key |-> key])
      BY <1>2, <1>10
    <2>2. r.logical \in DOMAIN d.sessions /\ r.window \in DOMAIN d.windows
          /\ d.windows[r.window].session = r.logical
      BY DEF Unregistered
    <2>3. /\ Good(e) /\ DOMAIN e.panes = DOMAIN d.panes \cup {n}
          /\ e.panes[n] = [window |-> r.window, session |-> r.logical, key |-> key]
          /\ \A k \in DOMAIN d.panes : k # n => e.panes[k] = d.panes[k]
      <3>1. n \in Keyed(d) => key /\ d.panes[n].session = r.logical
        BY <1>11
      <3>2. n \in 1..MaxPane /\ r.logical \in 1..MaxPane
        BY <1>5
      <3> QED
        BY <2>1, <2>2, <3>1, <3>2, PaneRow
    <2> QED
      BY <1>2, <2>3
  <1>13. e.sessions = d.sessions /\ e.active = d.active
    BY <1>10 DEF WithPane
  <1>14. e.panes[n].key /\ e.panes[n].session = r.logical /\ e.panes[n].window = r.window
    BY <1>1, <1>2, <1>12
  <1> QED
    BY <1>3, <1>12, <1>13, <1>14

LEMMA RegisteredReady ==
    ASSUME NEW mem, NEW d, MemOK(mem), Good(d), Agrees(mem, d), Lasts(mem, d),
           NEW n, NEW r, Unregistered(mem, d, n, r),
           NEW e, e = WithKeyframe(d, n),
           NEW mem2, mem2 = RegisteredIn(mem, n, r)
    PROVE  Good(e) /\ Ready(mem2, e, r.logical)
  <1>1. /\ Good(e) /\ e.sessions = d.sessions /\ e.active = d.active
        /\ DOMAIN e.panes = DOMAIN d.panes /\ n \in DOMAIN e.panes
        /\ e.panes[n].key /\ e.panes[n].session = r.logical /\ e.panes[n].window = r.window
        /\ \A k \in DOMAIN d.panes : k # n => e.panes[k] = d.panes[k]
    BY KeyframeSaved
  <1>2. PICK l, p : l = r.logical /\ p = r.project
    OBVIOUS
  <1>3. PICK f, a, h : f = Put(mem.panes, n, r) /\ a = Put(mem.activeOf, p, l)
                       /\ h = [logical |-> l, project |-> p]
    OBVIOUS
  <1>4. mem2 = [panes |-> f, topo |-> mem.topo, activeOf |-> a, focus |-> h,
                nextSession |-> mem.nextSession, nextWindow |-> mem.nextWindow]
    <2>1. mem2 = [mem EXCEPT !.panes = f, !.activeOf = a, !.focus = h]
      BY <1>2, <1>3 DEF RegisteredIn
    <2>2. mem2 = [[[mem EXCEPT !.panes = f] EXCEPT !.activeOf = a] EXCEPT !.focus = h]
      BY <2>1
    <2>3. PICK x : x = [mem EXCEPT !.panes = f]
      OBVIOUS
    <2>4. x = [panes |-> f, topo |-> mem.topo, activeOf |-> mem.activeOf, focus |-> mem.focus,
               nextSession |-> mem.nextSession, nextWindow |-> mem.nextWindow]
      BY <2>3, PanesExcept
    <2>5. mem2 = [[x EXCEPT !.activeOf = a] EXCEPT !.focus = h]
      BY <2>2, <2>3
    <2> QED
      BY <2>4, <2>5
  <1>5. mem2.panes = f /\ mem2.topo = mem.topo /\ mem2.activeOf = a /\ mem2.focus = h
        /\ mem2.nextSession = mem.nextSession /\ mem2.nextWindow = mem.nextWindow
    BY <1>4
  <1>6. h = [logical |-> h.logical, project |-> h.project] /\ h.logical = l /\ h.project = p
    BY <1>3
  <1>7. /\ DOMAIN f = DOMAIN mem.panes \cup {n} /\ f[n] = r
        /\ \A k \in DOMAIN mem.panes : k # n => f[k] = mem.panes[k]
    BY <1>3 DEF Put
  <1>8. /\ DOMAIN a = DOMAIN mem.activeOf \cup {p} /\ a[p] = l
        /\ \A q \in DOMAIN mem.activeOf : q # p => a[q] = mem.activeOf[q]
    BY <1>3 DEF Put
  <1>9. n \in 1..mem.nextSession /\ n \notin DOMAIN mem.panes /\ r \in PaneRecords(mem) /\ r.kind = "live"
    BY DEF Unregistered
  <1>10. p \in Projects /\ l \in 1..mem.nextSession
    BY <1>2, <1>9 DEF PaneRecords
  <1>11. MemoryShape(mem2)
    BY <1>4, <1>5 DEF MemOK, MemoryShape
  <1>12. PaneRecords(mem2) = PaneRecords(mem)
    BY <1>5 DEF PaneRecords
  <1>13. \A k \in DOMAIN f : k = n \/ (k \in DOMAIN mem.panes /\ k # n /\ f[k] = mem.panes[k])
    BY <1>7, <1>9
  <1>14. PanesOK(mem2)
    <2>1. PanesOK(mem)
      BY DEF MemOK
    <2>2. \A k \in DOMAIN f : k \in 1..mem.nextSession /\ f[k] \in PaneRecords(mem)
      BY <1>7, <1>9, <1>13, <2>1 DEF PanesOK
    <2>3. ASSUME NEW x \in DOMAIN f, NEW y \in DOMAIN f
          PROVE  /\ f[x].window = f[y].window => f[x].logical = f[y].logical
                 /\ f[x].logical = f[y].logical => f[x].project = f[y].project
      <3>1. CASE x # n /\ y # n
        BY <1>13, <2>1, <3>1 DEF PanesOK
      <3>2. CASE x = n /\ y # n
        BY <1>7, <1>13, <3>2 DEF Unregistered
      <3>3. CASE x # n /\ y = n
        BY <1>7, <1>13, <3>3 DEF Unregistered
      <3>4. CASE x = n /\ y = n
        BY <3>4
      <3> QED
        BY <3>1, <3>2, <3>3, <3>4
    <2> QED
      BY <1>5, <1>12, <2>2, <2>3 DEF PanesOK
  <1>15. TopoOK(mem2)
    BY <1>5 DEF MemOK, TopoOK
  <1>16. FocusOK(mem2)
    <2>1. DOMAIN a \subseteq Projects
      BY <1>8, <1>10 DEF MemOK, FocusOK
    <2>2. l \in 0..mem.nextSession
      BY <1>10 DEF MemOK, MemoryShape
    <2>3. \A k \in DOMAIN f : f[k].logical = l => f[k].project = p
      BY <1>2, <1>7, <1>13 DEF Unregistered
    <2> QED
      BY <1>5, <1>6, <1>8, <1>10, <2>1, <2>2, <2>3 DEF FocusOK
  <1>17. Agrees(mem2, e)
    <2>1. ASSUME NEW k \in DOMAIN e.panes, e.panes[k].key
          PROVE  k \in DOMAIN f /\ e.panes[k].session = f[k].logical /\ e.panes[k].window = f[k].window
      <3>1. CASE k = n
        BY <1>1, <1>7, <3>1
      <3>2. CASE k # n
        <4>1. k \in DOMAIN d.panes /\ e.panes[k] = d.panes[k]
          BY <1>1, <3>2
        <4>2. k \in Keyed(d)
          BY <2>1, <4>1 DEF Keyed
        <4> QED
          BY <1>7, <3>2, <4>1, <4>2, KeyedPane
      <3> QED
        BY <3>1, <3>2
    <2>2. ASSUME NEW k \in DOMAIN f, f[k].kind = "live"
          PROVE  k \in DOMAIN e.panes /\ e.panes[k].key
      BY <1>1, <1>13, <2>2 DEF Agrees
    <2>3. ASSUME NEW k \in DOMAIN f, f[k].logical \in DOMAIN e.sessions
          PROVE  e.sessions[f[k].logical] = f[k].project
      BY <1>1, <1>7, <1>13, <2>3 DEF Agrees, Unregistered
    <2> QED
      BY <1>5, <2>1, <2>2, <2>3 DEF Agrees
  <1>18. Young(mem2, e)
    <2>1. ASSUME crashes = 0 PROVE AllKeyed(e)
      <3>1. \A k \in DOMAIN e.panes : e.panes[k].key
        BY <1>1, <2>1 DEF Unregistered
      <3>2. ASSUME NEW x \in DOMAIN e.sessions PROVE \E k \in DOMAIN e.panes : e.panes[k].session = x
        <4>1. PICK k \in DOMAIN d.panes : d.panes[k].session = x
          BY <1>1, <2>1 DEF Unregistered
        <4>2. e.panes[k].session = x
          BY <1>1, <4>1 DEF Unregistered
        <4> QED
          BY <1>1, <4>2
      <3> QED
        BY <3>1, <3>2 DEF AllKeyed
    <2>2. crashes = 0 => \A k \in DOMAIN f : f[k].kind # "recovered"
      BY <1>7, <1>9, <1>13 DEF Unregistered
    <2>3. crashes <= 1 => \A q \in DOMAIN e.active : e.active[q] \in 1..mem.nextSession
      BY <1>1 DEF Unregistered
    <2> QED
      BY <1>5, <2>1, <2>2, <2>3 DEF Young
  <1>19. l \in LogicalsOf(mem2)
    BY <1>2, <1>5, <1>7 DEF LogicalsOf
  <1>20. ASSUME MaxCrash <= 2 PROVE Exists(mem2)
    <2>1. Exists(mem)
      BY <1>20 DEF Lasts
    <2>2. ASSUME NEW q \in DOMAIN a
          PROVE  \E k \in DOMAIN f : f[k].project = q /\ f[k].logical = a[q]
      <3>1. CASE q = p
        BY <1>2, <1>7, <1>8, <3>1
      <3>2. CASE q # p
        <4>1. PICK k \in DOMAIN mem.panes : mem.panes[k].project = q /\ mem.panes[k].logical = a[q]
          BY <1>8, <2>1, <3>2 DEF Exists
        <4> QED
          BY <1>7, <1>9, <4>1
      <3> QED
        BY <3>1, <3>2
    <2> QED
      BY <1>5, <2>2 DEF Exists
  <1>21. ASSUME MaxCrash <= 2, NEW q \in DOMAIN a, q # p
         PROVE  HasDurable(mem2, e, q)
    <2>1. q \in DOMAIN mem.activeOf /\ a[q] = mem.activeOf[q]
      BY <1>8, <1>21
    <2>2. PICK k \in DOMAIN mem.panes : mem.panes[k].project = q /\ mem.panes[k].logical = a[q]
      BY <1>21, <2>1 DEF Lasts, Exists
    <2>3. a[q] # l
      BY <1>2, <1>21, <2>2 DEF Unregistered
    <2>4. LiveIn(mem2, a[q]) # {} => LiveIn(mem, a[q]) # {}
      <3>1. SUFFICES ASSUME LiveIn(mem2, a[q]) # {} PROVE LiveIn(mem, a[q]) # {}
        OBVIOUS
      <3>2. PICK x \in DOMAIN f : f[x].logical = a[q] /\ f[x].kind = "live"
        BY <1>5, <3>1 DEF LiveIn, PanesOf
      <3>3. x # n
        BY <1>2, <1>7, <2>3, <3>2
      <3> QED
        BY <1>13, <3>2, <3>3 DEF LiveIn, PanesOf
    <2>5. Durable(mem, d)
      BY <1>21 DEF Lasts
    <2> QED
      BY <1>1, <1>5, <2>1, <2>4, <2>5 DEF HasDurable, Durable
  <1>22. LastsBut(mem2, e, l)
    BY <1>5, <1>6, <1>20, <1>21 DEF LastsBut
  <1> QED
    BY <1>1, <1>2, <1>11, <1>14, <1>15, <1>16, <1>17, <1>18, <1>19, <1>22 DEF Ready, MemOK

LEMMA ObserveDone ==
    ASSUME NEW s, Running(s), ~s.err, NEW n, NEW r, Ready(s.m, s.db, r.logical),
           NEW e, e = PersistActive(Observe(s, n, r), r.logical)
    PROVE  Done(e) /\ LogicalsOf(e.m) = LogicalsOf(s.m) /\ e.m.panes = s.m.panes
  <1>1. PICK l : l = r.logical
    OBVIOUS
  <1>2. PICK t0 : t0 = Normal(s.m, l)
    OBVIOUS
  <1>3. PICK t : t = Placed(t0, n, r.window)
    OBVIOUS
  <1>4. OrderOK(t)
    <2>1. OrderOK(t0) /\ t0 = [order |-> t0.order, active |-> t0.active, pane |-> t0.pane,
                               zoom |-> t0.zoom, layout |-> t0.layout]
      BY <1>2, NormalFacts DEF Running
    <2>2. t.order = t0.order
      BY <1>3, <2>1 DEF Placed
    <2> QED
      BY <2>1, <2>2 DEF OrderOK
  <1>5. PICK mem : mem = WithTopology(s.m, l, t)
    OBVIOUS
  <1>6. Ready(mem, s.db, l)
    BY <1>1, <1>4, <1>5, TopologyReady
  <1>7. PICK e1 : e1 = PersistInteraction(Memory(s, mem), l)
    OBVIOUS
  <1>8. Done(e1) /\ SameButTopo(e1.m, mem)
    BY <1>6, <1>7, MemoryInteraction
  <1>9. PICK e2 : e2 = [e1 EXCEPT !.err = s.err]
    OBVIOUS
  <1>10. Observe(s, n, r) = e2
    BY <1>1, <1>2, <1>3, <1>5, <1>7, <1>9 DEF Observe
  <1>11. s.err \in BOOLEAN
    BY DEF Running, IsCall
  <1>12. Running(e2) /\ e2.m = e1.m /\ e2.db = e1.db /\ e2.err = s.err
    BY <1>8, <1>9, <1>11, ErrRuns DEF Done
  <1>13. Done(e2)
    BY <1>8, <1>12 DEF Done
  <1>14. LogicalsOf(e1.m) = LogicalsOf(mem)
    BY <1>8, SameSessions
  <1>15. LogicalsOf(mem) = LogicalsOf(s.m) /\ mem.panes = s.m.panes
    <2>1. SameButTopo(mem, s.m)
      BY <1>4, <1>5, WithTopologyOK DEF Running
    <2> QED
      BY <2>1, SameSessions DEF SameButTopo
  <1>16. l \in LogicalsOf(e2.m)
    BY <1>1, <1>12, <1>14, <1>15 DEF Ready
  <1>17. Young(e2.m, e2.db) /\ LastsBut(e2.m, e2.db, l)
    BY <1>13, LastsButOne DEF Done
  <1>18. e = PersistActive(e2, l)
    BY <1>1, <1>10
  <1>19. Done(e) /\ SameButTopo(e.m, e2.m)
    BY <1>12, <1>13, <1>16, <1>17, <1>18, InteractionDone
  <1>20. LogicalsOf(e.m) = LogicalsOf(e2.m)
    BY <1>19, SameSessions
  <1>21. e.m.panes = s.m.panes
    BY <1>8, <1>12, <1>15, <1>19 DEF SameButTopo
  <1> QED
    BY <1>12, <1>14, <1>15, <1>19, <1>20, <1>21

LEMMA RegisteredDone ==
    ASSUME NEW s, Running(s), ~s.err, Lasts(s.m, s.db), NEW n, NEW r, Unregistered(s.m, s.db, n, r),
           NEW e, e = Registered(SaveKeyframe(s, n), n, r)
    PROVE  /\ Done(e) /\ LogicalsOf(e.m) = LogicalsOf(s.m) \cup {r.logical}
           /\ \A k \in DOMAIN s.m.panes : k \in DOMAIN e.m.panes /\ e.m.panes[k] = s.m.panes[k]
  <1>1. PICK d : d = WithKeyframe(s.db, n)
    OBVIOUS
  <1>2. PICK mem : mem = RegisteredIn(s.m, n, r)
    OBVIOUS
  <1>3. Good(d) /\ Ready(mem, d, r.logical)
    BY <1>1, <1>2, RegisteredReady DEF Running
  <1>4. PICK s1 : s1 = Commit(s, d)
    OBVIOUS
  <1>5. SaveKeyframe(s, n) = s1
    BY <1>1, <1>4 DEF SaveKeyframe, WithKeyframe
  <1>6. s1 = [m |-> s.m, db |-> d, torn |-> s.torn \cup {d}, err |-> s.err]
    BY <1>4, CallFacts DEF Running
  <1>7. IsCall(s1) /\ s1.m = s.m /\ s1.db = d /\ s1.torn = s.torn \cup {d} /\ s1.err = s.err
    BY <1>6 DEF IsCall, Running
  <1>8. PICK s2 : s2 = Memory(s1, mem)
    OBVIOUS
  <1>9. s2 = [m |-> mem, db |-> d, torn |-> s.torn \cup {d}, err |-> s.err]
    BY <1>7, <1>8, CallFacts
  <1>10. IsCall(s2) /\ s2.m = mem /\ s2.db = d /\ s2.torn = s.torn \cup {d} /\ s2.err = s.err
    BY <1>9 DEF IsCall, Running
  <1>11. Running(s2) /\ ~s2.err
    BY <1>3, <1>10 DEF Running, Ready
  <1>12. e = PersistActive(Observe(s2, n, r), r.logical)
    <2>1. RegisteredIn(s1.m, n, r) = mem
      BY <1>2, <1>7
    <2>2. Registered(s1, n, r) = PersistActive(Observe(Memory(s1, RegisteredIn(s1.m, n, r)), n, r), r.logical)
      BY DEF Registered, RegisteredIn
    <2> QED
      BY <1>5, <1>8, <2>1, <2>2
  <1>13. Done(e) /\ LogicalsOf(e.m) = LogicalsOf(mem) /\ e.m.panes = mem.panes
    BY <1>3, <1>10, <1>11, <1>12, ObserveDone
  <1>14. /\ LogicalsOf(mem) = LogicalsOf(s.m) \cup {r.logical}
         /\ \A k \in DOMAIN s.m.panes : k \in DOMAIN mem.panes /\ mem.panes[k] = s.m.panes[k]
    <2>1. n \notin DOMAIN s.m.panes
      BY DEF Unregistered
    <2>2. PICK f : f = Put(s.m.panes, n, r)
      OBVIOUS
    <2>3. mem.panes = f
      <3>1. s.m = [panes |-> s.m.panes, topo |-> s.m.topo, activeOf |-> s.m.activeOf, focus |-> s.m.focus,
                   nextSession |-> s.m.nextSession, nextWindow |-> s.m.nextWindow]
        BY DEF Running, MemOK, MemoryShape
      <3> QED
        BY <1>2, <2>2, <3>1 DEF RegisteredIn
    <2>4. DOMAIN f = DOMAIN s.m.panes \cup {n} /\ f[n] = r
          /\ \A k \in DOMAIN s.m.panes : f[k] = s.m.panes[k]
      BY <2>1, <2>2 DEF Put
    <2> QED
      BY <2>3, <2>4 DEF LogicalsOf
  <1> QED
    BY <1>13, <1>14

LEMMA CreateDone ==
    ASSUME IInv, up, NEW p, NEW l, NEW w, Creatable(p, l, w), NEW o,
           NEW e, e = CreateLocked(Call, p, l, w, o)
    PROVE  Done(e) /\ (l # 0 => l \in LogicalsOf(e.m)) /\ PanesKept(e.m)
  <1>1. PICK s : s = Call
    OBVIOUS
  <1>2. Done(s) /\ s.m = m /\ s.db = db /\ s.err = FALSE
    BY <1>1, CallDone
  <1>3. PICK n, r : n = m.nextSession + 1 /\ r = NewPane(p, l, w)
    OBVIOUS
  <1>4. PICK mem : mem = Burnt(w)
    OBVIOUS
  <1>5. /\ MemOK(mem) /\ Agrees(mem, db) /\ Young(mem, db) /\ Lasts(mem, db)
        /\ mem.panes = m.panes /\ mem.activeOf = m.activeOf /\ mem.nextSession = n
    BY <1>3, <1>4, BurntOK
  <1>6. PICK b : b = Memory(s, mem)
    OBVIOUS
  <1>7. Running(b) /\ b.db = db /\ b.err = FALSE /\ b.m = mem
    BY <1>2, <1>5, <1>6, MemoryRuns DEF Done
  <1>8. Done(b)
    BY <1>5, <1>7 DEF Done
  <1>9. e = IF o = "start" THEN Failed(b)
            ELSE IF o = "shadow" THEN Failed(DestroyPane(PersistTopology(b, n, r), n))
            ELSE Registered(SaveKeyframe(PersistTopology(b, n, r), n), n, r)
    BY <1>1, <1>2, <1>3, <1>4, <1>6 DEF CreateLocked, NewPane, Burnt
  <1>10. l # 0 => l \in LogicalsOf(mem)
    BY <1>5 DEF Creatable, LogicalsOf
  <1>11. CASE o = "start"
    <2>1. e = Failed(b)
      BY <1>9, <1>11
    <2>2. Running(e) /\ e.m = b.m /\ e.db = b.db
      BY <1>7, <2>1, FailedRuns
    <2> QED
      BY <1>5, <1>7, <1>8, <1>10, <2>2 DEF Done, PanesKept
  <1>12. CASE o # "start"
    <2>1. PICK s1 : s1 = PersistTopology(b, n, r)
      OBVIOUS
    <2>2. /\ Legit(b, n, r) /\ n \notin DOMAIN m.panes /\ n \notin Keyed(db)
          /\ n \in 1..b.m.nextSession /\ r \in PaneRecords(b.m)
          /\ \A k \in DOMAIN m.panes : /\ m.panes[k].logical = r.logical => m.panes[k].project = r.project
                                       /\ m.panes[k].window = r.window => m.panes[k].logical = r.logical
          /\ r.kind = "live" /\ r.project = p
      BY <1>3, <1>4, <1>7, NewPaneFacts
    <2>3. Running(s1) /\ ~s1.err /\ SameButTopo(s1.m, mem) /\ RowsOf(s1.db, db, n, r)
      BY <1>7, <2>1, <2>2, TopologyPersisted
    <2>4. s1.m.panes = m.panes /\ s1.m.nextSession = n /\ LogicalsOf(s1.m) = LogicalsOf(mem)
      BY <1>5, <2>3, SameSessions DEF SameButTopo
    <2>5. Lasts(s1.m, s1.db)
      <3>1. s1.db.active = db.active
        BY <2>3 DEF RowsOf
      <3>2. ASSUME MaxCrash <= 2 PROVE Durable(mem, s1.db) /\ Exists(mem)
        BY <1>5, <3>1, <3>2 DEF Lasts, Durable
      <3> QED
        BY <2>3, <3>2, SameSessions DEF Lasts
    <2>6. /\ crashes <= 1 => \A q \in DOMAIN s1.db.active : s1.db.active[q] \in 1..n
          /\ crashes = 0 => AllKeyed(db) /\ \A k \in DOMAIN m.panes : m.panes[k].kind # "recovered"
      BY <1>5, <2>3 DEF RowsOf, Young
    <2>7. \A k \in DOMAIN s1.db.panes : k # n => k \in DOMAIN db.panes /\ s1.db.panes[k] = db.panes[k]
      BY <2>3 DEF RowsOf
    <2>8. ASSUME crashes = 0, NEW k \in DOMAIN s1.db.panes, k # n PROVE s1.db.panes[k].key
      BY <2>6, <2>7, <2>8 DEF AllKeyed
    <2>9. CASE o = "shadow"
      <3>1. PICK d : d = DropPanes(s1.db, {n})
        OBVIOUS
      <3>2. PICK s2 : s2 = Commit(s1, d)
        OBVIOUS
      <3>3. e = Failed(s2)
        BY <1>9, <2>1, <2>9, <3>1, <3>2 DEF DestroyPane
      <3>4. Good(s1.db) /\ Agrees(s1.m, s1.db) /\ MemOK(s1.m)
        BY <2>3 DEF Running
      <3>5. Good(d) /\ (crashes = 0 => AllKeyed(d))
        <4>1. \A k \in DOMAIN s1.db.panes \ {n} : crashes = 0 => s1.db.panes[k].key
          BY <2>8
        <4> QED
          BY <3>1, <3>4, <4>1, PanesDroppedRight
      <3>6. Agrees(s1.m, d) /\ (Durable(s1.m, s1.db) => Durable(s1.m, d))
        <4>1. \A k \in DOMAIN s1.m.panes : s1.m.panes[k].kind = "live" => k \notin {n}
          BY <2>2, <2>4
        <4> QED
          BY <3>1, <3>4, <4>1, PanesDroppedLasts
      <3>7. Running(s2) /\ s2.m = s1.m /\ s2.db = d
        BY <2>3, <3>2, <3>5, <3>6, CommitRuns
      <3>8. Running(e) /\ e.m = s1.m /\ e.db = d
        BY <3>3, <3>7, FailedRuns
      <3>9. Young(s1.m, d)
        <4>1. Fewer(d, s1.db)
          BY <3>1, <3>4, PanesDropped DEF Good
        <4> QED
          BY <2>4, <2>6, <3>5, <4>1 DEF Young, Fewer
      <3>10. Lasts(s1.m, d)
        BY <2>5, <3>6 DEF Lasts
      <3> QED
        BY <1>10, <2>4, <3>8, <3>9, <3>10 DEF Done, PanesKept
    <2>10. CASE o # "shadow"
      <3>1. e = Registered(SaveKeyframe(s1, n), n, r)
        BY <1>9, <1>12, <2>1, <2>10
      <3>2. ASSUME crashes = 0, NEW x \in DOMAIN s1.db.sessions
            PROVE  \E k \in DOMAIN s1.db.panes : s1.db.panes[k].session = x
        <4>1. CASE x = r.logical
          BY <2>3, <4>1 DEF RowsOf
        <4>2. CASE x # r.logical
          <5>1. x \in DOMAIN db.sessions
            BY <2>3, <4>2 DEF RowsOf
          <5>2. PICK k \in DOMAIN db.panes : db.panes[k].session = x /\ db.panes[k].key
            BY <2>6, <3>2, <5>1 DEF AllKeyed
          <5>3. k # n
            BY <2>2, <5>2 DEF Keyed
          <5> QED
            BY <2>3, <5>2, <5>3 DEF RowsOf
        <4> QED
          BY <4>1, <4>2
      <3>3. r \in PaneRecords(s1.m)
        BY <1>7, <2>2, <2>3 DEF PaneRecords, SameButTopo
      <3>4. n \in 1..s1.m.nextSession /\ n \notin DOMAIN s1.m.panes
        BY <1>5, <1>7, <2>2, <2>4
      <3>5. Unregistered(s1.m, s1.db, n, r)
        <4>1. /\ n \in DOMAIN s1.db.panes /\ s1.db.panes[n].session = r.logical
              /\ s1.db.panes[n].window = r.window
              /\ r.logical \in DOMAIN s1.db.sessions /\ s1.db.sessions[r.logical] = r.project
              /\ r.window \in DOMAIN s1.db.windows /\ s1.db.windows[r.window].session = r.logical
          BY <2>3 DEF RowsOf
        <4> QED
          BY <2>2, <2>4, <2>6, <2>8, <3>2, <3>3, <3>4, <4>1 DEF Unregistered
      <3>6. /\ Done(e) /\ LogicalsOf(e.m) = LogicalsOf(s1.m) \cup {r.logical}
            /\ \A k \in DOMAIN s1.m.panes : k \in DOMAIN e.m.panes /\ e.m.panes[k] = s1.m.panes[k]
        <4>1. Running(s1) /\ ~s1.err
          BY <2>3
        <4>2. Lasts(s1.m, s1.db)
          BY <2>5
        <4>3. Done(e)
          BY <3>1, <3>5, <4>1, <4>2, RegisteredDone
        <4>4. LogicalsOf(e.m) = LogicalsOf(s1.m) \cup {r.logical}
          BY <3>1, <3>5, <4>1, <4>2, RegisteredDone
        <4>5. \A k \in DOMAIN s1.m.panes : k \in DOMAIN e.m.panes /\ e.m.panes[k] = s1.m.panes[k]
          BY <3>1, <3>5, <4>1, <4>2, RegisteredDone
        <4> QED
          BY <4>3, <4>4, <4>5
      <3> QED
        BY <1>10, <2>4, <3>6 DEF PanesKept
    <2> QED
      BY <2>9, <2>10
  <1> QED
    BY <1>11, <1>12

(* The new pane's place is recorded                                         *)
LEMMA PlacedDone ==
    ASSUME NEW s, Done(s), NEW l \in LogicalsOf(s.m), NEW t, t.order = Normal(s.m, l).order,
           NEW e, e = PersistInteraction(Memory(s, WithTopology(s.m, l, t)), l)
    PROVE  Done(e) /\ e.m.panes = s.m.panes
  <1>1. OrderOK(t)
    BY NormalFacts DEF OrderOK, Done, Running
  <1>2. PICK mem : mem = WithTopology(s.m, l, t)
    OBVIOUS
  <1>3. Ready(mem, s.db, l)
    BY <1>1, <1>2, DoneReady, TopologyReady
  <1>4. e = PersistInteraction(Memory(s, mem), l)
    BY <1>2
  <1>5. Done(e) /\ SameButTopo(e.m, IF s.err THEN s.m ELSE mem)
    BY <1>3, <1>4, MemoryInteraction DEF Done
  <1>6. SameButTopo(mem, s.m)
    BY <1>1, <1>2, WithTopologyOK DEF Done, Running
  <1> QED
    BY <1>5, <1>6 DEF SameButTopo

LEMMA CreateStep ==
    ASSUME IInv, up, NEW p \in Projects, NEW o, Create(p, o)
    PROVE  IInv' /\ NeighbourChosen
  <1>1. PICK e : e = CreateLocked(Call, p, 0, 0, o)
    OBVIOUS
  <1>2. Handle(e) /\ Creatable(p, 0, 0)
    BY <1>1 DEF Create, Creatable, MayOpen
  <1>3. Done(e) /\ PanesKept(e.m)
    BY <1>1, <1>2, CreateDone
  <1> QED
    BY <1>2, <1>3, HandleKept

LEMMA SplitStep ==
    ASSUME IInv, up, NEW n \in Panes, NEW o, Split(n, o)
    PROVE  IInv' /\ NeighbourChosen
  <1>1. PICK r, l : r = m.panes[n] /\ l = r.logical
    OBVIOUS
  <1>2. PICK s : s = CreateLocked(Call, r.project, l, r.window, o)
    OBVIOUS
  <1>3. PICK t0 : t0 = Normal(s.m, l)
    OBVIOUS
  <1>4. PICK t : t = SplitIn(t0, r.window, n, s.m.nextSession)
    OBVIOUS
  <1>5. PICK e : e = PersistInteraction(Memory(s, WithTopology(s.m, l, t)), l)
    OBVIOUS
  <1>6. MayCreate /\ Handle(e)
    BY <1>1, <1>2, <1>3, <1>4, <1>5 DEF Split, SplitFrom
  <1>7. MemOK(m) /\ n \in DOMAIN m.panes /\ r \in PaneRecords(m) /\ l \in LogicalsOf(m)
    BY <1>1 DEF IInv, MemOK, PanesOK, Panes, LogicalsOf
  <1>8. r.project = ProjectOf(m, l) /\ r.project \in Projects /\ l # 0 /\ r.window # 0
        /\ r.window \in WindowsOf(m, l)
    <2>1. r.project = ProjectOf(m, l)
      BY <1>1, <1>7, ProjectFacts
    <2>2. r.project \in Projects /\ l \in 1..m.nextSession /\ r.window \in 1..m.nextWindow
      BY <1>1, <1>7 DEF PaneRecords
    <2>3. m.nextSession \in Nat /\ m.nextWindow \in Nat
      BY <1>7 DEF MemOK, MemoryShape
    <2>4. r.window \in WindowsOf(m, l)
      BY <1>1, <1>7 DEF WindowsOf, PanesOf
    <2> QED
      BY <2>1, <2>2, <2>3, <2>4
  <1>9. Creatable(r.project, l, r.window)
    BY <1>6, <1>7, <1>8 DEF Creatable
  <1>10. Done(s) /\ l \in LogicalsOf(s.m) /\ PanesKept(s.m)
    BY <1>2, <1>8, <1>9, CreateDone
  <1>11. t.order = Normal(s.m, l).order
    <2>1. t0 = [order |-> t0.order, active |-> t0.active, pane |-> t0.pane, zoom |-> t0.zoom,
                layout |-> t0.layout]
      BY <1>3, <1>10, NormalFacts DEF Done, Running
    <2>2. t.order = t0.order
      BY <1>4, <2>1 DEF SplitIn
    <2> QED
      BY <1>3, <2>2
  <1>12. Done(e) /\ e.m.panes = s.m.panes
    BY <1>5, <1>10, <1>11, PlacedDone
  <1>13. PanesKept(e.m)
    BY <1>10, <1>12 DEF PanesKept
  <1> QED
    BY <1>6, <1>12, <1>13, HandleKept

LEMMA NewWindowStep ==
    ASSUME IInv, up, NEW l \in LogicalsOf(m), NEW o, NewWindow(l, o)
    PROVE  IInv' /\ NeighbourChosen
  <1>1. PICK p : p = ProjectOf(m, l)
    OBVIOUS
  <1>2. PICK s : s = CreateLocked(Call, p, l, 0, o)
    OBVIOUS
  <1>3. PICK t0 : t0 = Normal(s.m, l)
    OBVIOUS
  <1>4. PICK t : t = [t0 EXCEPT !.active = s.m.nextWindow, !.pane[s.m.nextWindow] = s.m.nextSession]
    OBVIOUS
  <1>5. PICK e : e = PersistInteraction(Memory(s, WithTopology(s.m, l, t)), l)
    OBVIOUS
  <1>6. MayOpen /\ Handle(e)
    BY <1>1, <1>2, <1>3, <1>4, <1>5 DEF NewWindow, InNewWindow
  <1>7. MemOK(m)
    BY DEF IInv
  <1>8. p \in Projects /\ l # 0
    <2>1. p \in Projects /\ l \in 1..m.nextSession
      BY <1>1, <1>7, ProjectFacts
    <2>2. m.nextSession \in Nat
      BY <1>7 DEF MemOK, MemoryShape
    <2> QED
      BY <2>1, <2>2
  <1>9. Creatable(p, l, 0)
    BY <1>1, <1>6, <1>8 DEF Creatable, MayOpen
  <1>10. Done(s) /\ l \in LogicalsOf(s.m) /\ PanesKept(s.m)
    BY <1>2, <1>8, <1>9, CreateDone
  <1>11. t.order = Normal(s.m, l).order
    <2>1. t0 = [order |-> t0.order, active |-> t0.active, pane |-> t0.pane, zoom |-> t0.zoom,
                layout |-> t0.layout]
      BY <1>3, <1>10, NormalFacts DEF Done, Running
    <2>2. t.order = t0.order
      BY <1>4, <2>1
    <2> QED
      BY <1>3, <2>2
  <1>12. Done(e) /\ e.m.panes = s.m.panes
    BY <1>5, <1>10, <1>11, PlacedDone
  <1>13. PanesKept(e.m)
    BY <1>10, <1>12 DEF PanesKept
  <1> QED
    BY <1>6, <1>12, <1>13, HandleKept

-----------------------------------------------------------------------------
(* Closing panes and windows                                                *)

LEMMA RemovePlacementOK ==
    ASSUME NEW mem, MemOK(mem), NEW l, NEW w
    PROVE  OrderOK(RemovePlacement(Normal(mem, l), w))
  <1>1. PICK t : t = Normal(mem, l)
    OBVIOUS
  <1>2. t.order \in Seq(Nat) /\ ToSet(t.order) = WindowsOf(mem, l)
    BY <1>1, NormalFacts DEF OrderOK
  <1>3. PICK S : S = ToSet(t.order) \ {w}
    OBVIOUS
  <1>4. PICK q : q = t.order
    OBVIOUS
  <1>5. MaxWindow \in Nat /\ WindowsOf(mem, l) \subseteq 1..MaxWindow /\ IsFiniteSet(WindowsOf(mem, l))
    BY TopologyAssumption, WindowsFacts
  <1>6. S \subseteq Nat \ {0}
    BY <1>2, <1>3, <1>5
  <1>7. IsFiniteSet(S)
    BY <1>2, <1>3, <1>5, FS_Subset
  <1>8. Ordered(q, S) \in Seq(S) /\ IsInjective(Ordered(q, S))
    BY <1>2, <1>4, <1>6, <1>7, OrderedFacts
  <1>9. Ordered(q, S) \in Seq(Nat)
    BY <1>6, <1>8, SeqOfMore
  <1>10. RemovePlacement(t, w).order = Ordered(q, S)
    BY <1>3, <1>4 DEF RemovePlacement
  <1> QED
    BY <1>1, <1>8, <1>9, <1>10 DEF OrderOK

\* mem2 is mem without the panes S.
Removed(mem2, mem, S) ==
    /\ DOMAIN mem2.panes = DOMAIN mem.panes \ S
    /\ \A n \in DOMAIN mem2.panes : mem2.panes[n] = mem.panes[n]
    /\ mem2.activeOf = mem.activeOf /\ mem2.focus = mem.focus /\ mem2.topo = mem.topo
    /\ mem2.nextSession = mem.nextSession /\ mem2.nextWindow = mem.nextWindow

LEMMA RemovedOK ==
    ASSUME NEW mem, MemOK(mem), NEW S, NEW mem2, mem2 = [mem EXCEPT !.panes = Without(mem.panes, S)]
    PROVE  MemOK(mem2) /\ Removed(mem2, mem, S)
  <1>1. PICK f : f = Without(mem.panes, S)
    OBVIOUS
  <1>2. DOMAIN f = DOMAIN mem.panes \ S /\ \A n \in DOMAIN f : f[n] = mem.panes[n]
    BY <1>1 DEF Without, Restrict
  <1>3. mem2 = [panes |-> f, topo |-> mem.topo, activeOf |-> mem.activeOf,
                focus |-> mem.focus, nextSession |-> mem.nextSession, nextWindow |-> mem.nextWindow]
    BY <1>1, PanesExcept
  <1>4. mem2.panes = f /\ mem2.topo = mem.topo /\ mem2.activeOf = mem.activeOf /\ mem2.focus = mem.focus
        /\ mem2.nextSession = mem.nextSession /\ mem2.nextWindow = mem.nextWindow
    BY <1>3
  <1>5. Removed(mem2, mem, S)
    BY <1>2, <1>4 DEF Removed
  <1>6. MemoryShape(mem2)
    BY <1>3, <1>4 DEF MemOK, MemoryShape
  <1>7. PaneRecords(mem2) = PaneRecords(mem)
    BY <1>4 DEF PaneRecords
  <1>8. PanesOK(mem2)
    BY <1>2, <1>4, <1>7 DEF MemOK, PanesOK
  <1>9. TopoOK(mem2) /\ FocusOK(mem2)
    BY <1>2, <1>4 DEF MemOK, TopoOK, FocusOK
  <1> QED
    BY <1>5, <1>6, <1>8, <1>9 DEF MemOK

LEMMA RemovedAgrees ==
    ASSUME NEW mem, NEW d, Agrees(mem, d), NEW S, NEW mem2, Removed(mem2, mem, S),
           NEW e, Fewer(e, d), \A n \in DOMAIN e.panes : n \notin S,
           \A n \in Keyed(d) \ S : n \in DOMAIN e.panes,
           \A p \in DOMAIN d.active :
               (\E n \in DOMAIN d.panes \ S : d.panes[n].session = d.active[p]) => p \in DOMAIN e.active
    PROVE  Agrees(mem2, e) /\ (Durable(mem, d) => Durable(mem2, e))
  <1>1. ASSUME NEW n \in DOMAIN mem2.panes, mem2.panes[n].kind = "live"
        PROVE  n \in Keyed(d) \ S /\ n \in DOMAIN d.panes \ S /\ d.panes[n].session = mem2.panes[n].logical
    BY <1>1 DEF Agrees, Removed, Keyed
  <1>2. Agrees(mem2, e)
    <2>1. ASSUME NEW n \in DOMAIN e.panes, e.panes[n].key
          PROVE  /\ n \in DOMAIN mem2.panes
                 /\ e.panes[n].session = mem2.panes[n].logical /\ e.panes[n].window = mem2.panes[n].window
      BY <2>1 DEF Agrees, Removed, Fewer
    <2>2. ASSUME NEW n \in DOMAIN mem2.panes, mem2.panes[n].kind = "live"
          PROVE  n \in DOMAIN e.panes /\ e.panes[n].key
      BY <1>1, <2>2 DEF Fewer, Keyed
    <2>3. ASSUME NEW n \in DOMAIN mem2.panes, mem2.panes[n].logical \in DOMAIN e.sessions
          PROVE  e.sessions[mem2.panes[n].logical] = mem2.panes[n].project
      BY <2>3 DEF Agrees, Removed, Fewer
    <2> QED
      BY <2>1, <2>2, <2>3 DEF Agrees
  <1>3. ASSUME Durable(mem, d) PROVE Durable(mem2, e)
    <2>1. ASSUME NEW p \in DOMAIN mem2.activeOf, LiveIn(mem2, mem2.activeOf[p]) # {}
          PROVE  p \in DOMAIN e.active /\ e.active[p] = mem2.activeOf[p]
      <3>1. PICK n \in DOMAIN mem2.panes : mem2.panes[n].logical = mem2.activeOf[p] /\ mem2.panes[n].kind = "live"
        BY <2>1 DEF LiveIn, PanesOf
      <3>2. n \in LiveIn(mem, mem.activeOf[p]) /\ p \in DOMAIN mem.activeOf /\ mem.activeOf[p] = mem2.activeOf[p]
        BY <2>1, <3>1 DEF LiveIn, PanesOf, Removed
      <3>3. p \in DOMAIN d.active /\ d.active[p] = mem.activeOf[p]
        BY <1>3, <3>2 DEF Durable
      <3>4. n \in DOMAIN d.panes \ S /\ d.panes[n].session = d.active[p]
        BY <1>1, <3>1, <3>2, <3>3
      <3>5. p \in DOMAIN e.active
        BY <3>3, <3>4
      <3> QED
        BY <3>2, <3>3, <3>5 DEF Fewer
    <2> QED
      BY <2>1 DEF Durable
  <1> QED
    BY <1>2, <1>3

(* memory and catalog lose the same panes                                   *)
LEMMA PanesTaken ==
    ASSUME NEW mem, NEW d, Good(d), Agrees(mem, d), Young(mem, d),
           NEW S, NEW mem2, Removed(mem2, mem, S),
           NEW e, e = (IF S = {} THEN d ELSE DropPanes(d, S))
    PROVE  /\ Good(e) /\ Agrees(mem2, e) /\ Young(mem2, e)
           /\ Durable(mem, d) => Durable(mem2, e)
  <1>1. CASE S = {}
    <2>1. Fewer(d, d)
      BY DEF Fewer
    <2>2. \A n \in Keyed(d) \ S : n \in DOMAIN d.panes
      BY DEF Keyed
    <2>3. Agrees(mem2, d) /\ (Durable(mem, d) => Durable(mem2, d))
      BY <1>1, <2>1, <2>2, RemovedAgrees
    <2>4. Young(mem2, d)
      BY DEF Young, Removed
    <2> QED
      BY <1>1, <2>3, <2>4
  <1>2. CASE S # {}
    <2>1. e = DropPanes(d, S)
      BY <1>2
    <2>2. DbOK(d) /\ \A n \in DOMAIN d.panes \ S : crashes = 0 => d.panes[n].key
      BY DEF Good, Young, AllKeyed
    <2>3. /\ Fewer(e, d)
          /\ \A n \in DOMAIN e.panes : n \notin S
          /\ \A n \in Keyed(d) \ S : n \in DOMAIN e.panes
          /\ \A p \in DOMAIN d.active :
                (\E n \in DOMAIN d.panes \ S : d.panes[n].session = d.active[p]) => p \in DOMAIN e.active
      BY <2>1, <2>2, PanesDropped
    <2>4. Good(e) /\ (crashes = 0 => AllKeyed(e))
      BY <2>1, <2>2, PanesDroppedRight
    <2>5. Agrees(mem2, e) /\ (Durable(mem, d) => Durable(mem2, e))
      BY <2>3, RemovedAgrees
    <2>6. Young(mem2, e)
      BY <2>3, <2>4 DEF Young, Fewer, Removed
    <2> QED
      BY <2>4, <2>5, <2>6
  <1> QED
    BY <1>1, <1>2

LEMMA ManagedDestroyed ==
    ASSUME NEW s, Done(s), s.err = FALSE, NEW S, NEW first, first \subseteq S, NEW fails,
           NEW left, left = Unstopped(s, S, fails),
           NEW gone, gone = (IF left = {} THEN S ELSE first),
           NEW e, e = DestroyManaged(s, first, S, fails)
    PROVE  /\ Running(e) /\ Removed(e.m, s.m, gone) /\ (e.err <=> left # {})
           /\ Young(e.m, e.db) /\ (Durable(s.m, s.db) => Durable(e.m, e.db))
  <1>1. PICK mem, d : mem = s.m /\ d = s.db
    OBVIOUS
  <1>2. MemOK(mem) /\ Good(d) /\ Agrees(mem, d) /\ Young(mem, d) /\ IsCall(s) /\ \A x \in s.torn : Good(x)
    BY <1>1 DEF Done, Running
  <1>3. PICK mem2 : mem2 = [mem EXCEPT !.panes = Without(mem.panes, gone)]
    OBVIOUS
  <1>4. MemOK(mem2) /\ Removed(mem2, mem, gone)
    BY <1>2, <1>3, RemovedOK
  <1>5. PICK d1 : d1 = DropPanes(d, first)
    OBVIOUS
  <1>6. PICK d2 : d2 = DropPanes(d, S)
    OBVIOUS
  <1>7. Good(d1) /\ Good(d2)
    <2>1. \A n \in DOMAIN d.panes : crashes = 0 => d.panes[n].key
      BY <1>2 DEF Young, AllKeyed
    <2>2. Good(d1)
      BY <1>2, <1>5, <2>1, PanesDroppedRight
    <2>3. Good(d2)
      BY <1>2, <1>6, <2>1, PanesDroppedRight
    <2> QED
      BY <2>2, <2>3
  <1>8. PICK some : some = IF first = {} THEN s ELSE Commit(s, d1)
    OBVIOUS
  <1>9. PICK all : all = IF gone = first THEN some ELSE Commit(some, d2)
    OBVIOUS
  <1>10. e = [Memory(all, mem2) EXCEPT !.err = left # {}]
    BY <1>1, <1>3, <1>5, <1>6, <1>8, <1>9 DEF DestroyManaged
  <1>11. /\ IsCall(some) /\ some.m = mem /\ some.err = FALSE /\ \A x \in some.torn : Good(x)
         /\ some.db = IF first = {} THEN d ELSE d1
    <2>1. CASE first = {}
      BY <1>1, <1>2, <1>8, <2>1
    <2>2. CASE first # {}
      <3>1. some = [m |-> mem, db |-> d1, torn |-> s.torn \cup {d1}, err |-> FALSE]
        BY <1>1, <1>2, <1>8, <2>2, CallFacts
      <3>2. some.m = mem /\ some.db = d1 /\ some.torn = s.torn \cup {d1} /\ some.err = FALSE
        BY <3>1
      <3>3. IsCall(some)
        BY <3>1, <3>2 DEF IsCall
      <3> QED
        BY <1>2, <1>7, <2>2, <3>2, <3>3
    <2> QED
      BY <2>1, <2>2
  <1>12. PICK d3 : d3 = IF gone = {} THEN d ELSE DropPanes(d, gone)
    OBVIOUS
  <1>13. /\ IsCall(all) /\ all.m = mem /\ all.err = FALSE /\ \A x \in all.torn : Good(x)
         /\ all.db = d3
    <2>1. CASE gone = first
      BY <1>5, <1>9, <1>11, <1>12, <2>1
    <2>2. CASE gone # first
      <3>1. gone = S /\ gone # {}
        BY <2>2
      <3>2. all = [m |-> mem, db |-> d2, torn |-> some.torn \cup {d2}, err |-> FALSE]
        BY <1>9, <1>11, <2>2, CallFacts
      <3>3. all.m = mem /\ all.db = d2 /\ all.torn = some.torn \cup {d2} /\ all.err = FALSE
        BY <3>2
      <3>4. IsCall(all)
        BY <3>2, <3>3 DEF IsCall
      <3> QED
        BY <1>6, <1>7, <1>11, <1>12, <3>1, <3>3, <3>4
    <2> QED
      BY <2>1, <2>2
  <1>14. PICK f : f = Memory(all, mem2)
    OBVIOUS
  <1>15. f = [m |-> mem2, db |-> d3, torn |-> all.torn, err |-> FALSE]
    BY <1>13, <1>14, CallFacts
  <1>16. PICK b \in BOOLEAN : b = (left # {})
    OBVIOUS
  <1>17. e = [f EXCEPT !.err = b]
    BY <1>10, <1>14, <1>16
  <1>18. e = [m |-> mem2, db |-> d3, torn |-> all.torn, err |-> b]
    BY <1>15, <1>17
  <1>19. e.m = mem2 /\ e.db = d3 /\ e.torn = all.torn /\ e.err = b
    BY <1>18
  <1>20. IsCall(e)
    BY <1>18, <1>19 DEF IsCall
  <1>21. /\ Good(d3) /\ Agrees(mem2, d3) /\ Young(mem2, d3)
         /\ Durable(mem, d) => Durable(mem2, d3)
    BY <1>2, <1>4, <1>12, PanesTaken
  <1>22. Running(e)
    BY <1>4, <1>13, <1>19, <1>20, <1>21 DEF Running
  <1> QED
    BY <1>1, <1>4, <1>16, <1>19, <1>21, <1>22

(* a closed pane's project is that of the panes left in its session         *)
LEMMA RemovedExists ==
    ASSUME NEW mem, MemOK(mem), NEW l \in LogicalsOf(mem), NEW p, p = ProjectOf(mem, l),
           NEW gone, gone \subseteq PanesOf(mem, l), NEW mem2, Removed(mem2, mem, gone),
           Exists(mem)
    PROVE  /\ ExistsBut(mem2, p)
           /\ l \in LogicalsOf(mem2) => Exists(mem2)
           /\ ~(p \in DOMAIN mem.activeOf /\ mem.activeOf[p] = l) => Exists(mem2)
  <1>1. /\ \A n \in DOMAIN mem.panes : mem.panes[n].logical = l => mem.panes[n].project = p
    BY ProjectFacts
  <1>2. ASSUME NEW q \in DOMAIN mem.activeOf, ~(q = p /\ mem.activeOf[q] = l)
        PROVE  \E n \in DOMAIN mem2.panes : mem2.panes[n].project = q /\ mem2.panes[n].logical = mem2.activeOf[q]
    <2>1. PICK n \in DOMAIN mem.panes : mem.panes[n].project = q /\ mem.panes[n].logical = mem.activeOf[q]
      BY DEF Exists
    <2>2. n \notin gone
      BY <1>1, <1>2, <2>1 DEF PanesOf
    <2> QED
      BY <2>1, <2>2 DEF Removed
  <1>3. ASSUME l \in LogicalsOf(mem2)
        PROVE  Exists(mem2)
    <2>1. PICK k \in DOMAIN mem2.panes : mem2.panes[k].logical = l
      BY <1>3 DEF LogicalsOf
    <2>2. mem2.panes[k].project = p
      BY <1>1, <2>1 DEF Removed
    <2>3. ASSUME NEW q \in DOMAIN mem2.activeOf
          PROVE  \E n \in DOMAIN mem2.panes : mem2.panes[n].project = q /\ mem2.panes[n].logical = mem2.activeOf[q]
      <3>1. CASE q = p /\ mem.activeOf[q] = l
        BY <2>1, <2>2, <3>1 DEF Removed
      <3>2. CASE ~(q = p /\ mem.activeOf[q] = l)
        BY <1>2, <3>2 DEF Removed
      <3> QED
        BY <3>1, <3>2
    <2> QED
      BY <2>3 DEF Exists
  <1>5. ExistsBut(mem2, p)
    BY <1>2 DEF ExistsBut, Removed
  <1>6. ~(p \in DOMAIN mem.activeOf /\ mem.activeOf[p] = l) => Exists(mem2)
    BY <1>2 DEF Exists, Removed
  <1> QED
    BY <1>3, <1>5, <1>6

LEMMA RemovedProject ==
    ASSUME NEW mem, MemOK(mem), NEW l \in LogicalsOf(mem), NEW p, p = ProjectOf(mem, l),
           NEW gone, NEW mem2, Removed(mem2, mem, gone), MemOK(mem2), l \in LogicalsOf(mem2)
    PROVE  p = ProjectOf(mem2, l)
  <1>1. \A n \in DOMAIN mem.panes : mem.panes[n].logical = l => mem.panes[n].project = p
    BY ProjectFacts
  <1>2. PICK k \in DOMAIN mem2.panes : mem2.panes[k].logical = l /\ mem2.panes[k].project = ProjectOf(mem2, l)
    BY ProjectFacts
  <1> QED
    BY <1>1, <1>2 DEF Removed

\* The selections last but that of session l of project p, whose panes are gone.
SurvivorsLast(mem, d, p, l) ==
    /\ ExistsBut(mem, p) /\ Durable(mem, d)
    /\ ~(p \in DOMAIN mem.activeOf /\ mem.activeOf[p] = l) => Exists(mem)

LEMMA TopoForgotten ==
    ASSUME NEW mem, MemOK(mem), NEW l, NEW mem2, mem2 = [mem EXCEPT !.topo = Without(mem.topo, {l})]
    PROVE  MemOK(mem2) /\ SameButTopo(mem2, mem)
  <1>1. PICK f : f = Without(mem.topo, {l})
    OBVIOUS
  <1>2. DOMAIN f = DOMAIN mem.topo \ {l} /\ \A k \in DOMAIN f : f[k] = mem.topo[k]
    BY <1>1 DEF Without, Restrict
  <1>3. mem2 = [panes |-> mem.panes, topo |-> f, activeOf |-> mem.activeOf,
                focus |-> mem.focus, nextSession |-> mem.nextSession, nextWindow |-> mem.nextWindow]
    BY <1>1 DEF MemOK, MemoryShape
  <1>4. mem2.topo = f /\ SameButTopo(mem2, mem)
    BY <1>3 DEF SameButTopo
  <1>5. MemoryShape(mem2)
    BY <1>3, <1>4 DEF MemOK, MemoryShape, SameButTopo
  <1>6. PanesOK(mem2) /\ FocusOK(mem2)
    BY <1>4 DEF SameButTopo, MemOK, PanesOK, FocusOK, PaneRecords
  <1>7. TopoOK(mem2)
    BY <1>2, <1>4 DEF MemOK, TopoOK
  <1> QED
    BY <1>4, <1>5, <1>6, <1>7 DEF MemOK

(* no session of the project is left to select                              *)
Deselected(mem, p) == [mem EXCEPT !.focus = IF @.project = p THEN NoFocus ELSE @, !.activeOf = Without(@, {p})]
LEMMA DeselectedOK ==
    ASSUME NEW mem, MemOK(mem), NEW p, NEW mem2, mem2 = Deselected(mem, p)
    PROVE  /\ MemOK(mem2) /\ mem2.panes = mem.panes /\ mem2.nextSession = mem.nextSession
           /\ DOMAIN mem2.activeOf = DOMAIN mem.activeOf \ {p}
           /\ \A q \in DOMAIN mem2.activeOf : mem2.activeOf[q] = mem.activeOf[q]
  <1>1. PICK g : g = Without(mem.activeOf, {p})
    OBVIOUS
  <1>2. DOMAIN g = DOMAIN mem.activeOf \ {p} /\ \A q \in DOMAIN g : g[q] = mem.activeOf[q]
    BY <1>1 DEF Without, Restrict
  <1>3. PICK f : f = IF mem.focus.project = p THEN NoFocus ELSE mem.focus
    OBVIOUS
  <1>4. PICK mem1 : mem1 = [mem EXCEPT !.focus = f]
    OBVIOUS
  <1>5. mem1 = [panes |-> mem.panes, topo |-> mem.topo, activeOf |-> mem.activeOf,
                focus |-> f, nextSession |-> mem.nextSession, nextWindow |-> mem.nextWindow]
    BY <1>4 DEF MemOK, MemoryShape
  <1>6. mem2 = [mem1 EXCEPT !.activeOf = g]
    <2>1. mem1 = [mem EXCEPT !.focus = IF @.project = p THEN NoFocus ELSE @]
      BY <1>3, <1>4
    <2>2. mem2 = [mem1 EXCEPT !.activeOf = Without(@, {p})]
      BY <2>1 DEF Deselected
    <2>3. mem1.activeOf = mem.activeOf
      BY <1>5
    <2> QED
      BY <1>1, <2>2, <2>3
  <1>7. mem2 = [panes |-> mem.panes, topo |-> mem.topo, activeOf |-> g,
                focus |-> f, nextSession |-> mem.nextSession, nextWindow |-> mem.nextWindow]
    BY <1>5, <1>6
  <1>8. mem2.panes = mem.panes /\ mem2.topo = mem.topo /\ mem2.activeOf = g /\ mem2.focus = f
        /\ mem2.nextSession = mem.nextSession /\ mem2.nextWindow = mem.nextWindow
    BY <1>7
  <1>9. MemoryShape(mem2)
    BY <1>7, <1>8 DEF MemOK, MemoryShape
  <1>10. PanesOK(mem2) /\ TopoOK(mem2)
    BY <1>8 DEF MemOK, PanesOK, PaneRecords, TopoOK
  <1>11. FocusOK(mem2)
    <2>1. mem.nextSession \in Nat /\ \A n \in DOMAIN mem.panes : mem.panes[n].logical # 0
      BY DEF MemOK, MemoryShape, PanesOK, PaneRecords
    <2>2. CASE mem.focus.project = p
      BY <1>2, <1>3, <1>8, <2>1, <2>2 DEF MemOK, FocusOK, NoFocus
    <2>3. CASE mem.focus.project # p
      BY <1>2, <1>3, <1>8, <2>3 DEF MemOK, FocusOK
    <2> QED
      BY <2>2, <2>3
  <1> QED
    BY <1>2, <1>8, <1>9, <1>10, <1>11 DEF MemOK

\* The call is done, and holds the panes it held.
DoneSame(e, s) == Done(e) /\ e.m.panes = s.m.panes
LEMMA SurvivorSelected ==
    ASSUME NEW s, Running(s), s.err = FALSE, Young(s.m, s.db), NEW p, NEW l, NEW wasActive,
           wasActive = (p \in DOMAIN s.m.activeOf /\ s.m.activeOf[p] = l),
           MaxCrash <= 2 => SurvivorsLast(s.m, s.db, p, l),
           NEW e, e = SelectSurvivor(s, p, l, wasActive)
    PROVE  DoneSame(e, s)
  <1>1. PICK d, mem : d = s.db /\ mem = [s.m EXCEPT !.topo = Without(@, {l})]
    OBVIOUS
  <1>2. MemOK(s.m) /\ Agrees(s.m, d) /\ Young(s.m, d) /\ Good(d)
    BY <1>1 DEF Running
  <1>3. MemOK(mem) /\ SameButTopo(mem, s.m)
    BY <1>1, <1>2, TopoForgotten
  <1>4. Agrees(mem, d) /\ Young(mem, d) /\ (Exists(s.m) => Exists(mem)) /\ (Durable(s.m, d) => Durable(mem, d))
    BY <1>2, <1>3, SameSessions
  <1>5. MaxCrash <= 2 => ExistsBut(mem, p) /\ Durable(mem, d)
    <2>1. ExistsBut(s.m, p) => ExistsBut(mem, p)
      BY <1>3 DEF ExistsBut, SameButTopo
    <2> QED
      BY <1>1, <1>4, <2>1 DEF SurvivorsLast
  <1>6. PICK chosen : chosen = Memory(s, SelectRemaining(mem, p))
    OBVIOUS
  <1>7. e = IF ~wasActive THEN Memory(s, mem)
            ELSE IF p \in DOMAIN chosen.m.activeOf THEN PersistActive(chosen, chosen.m.activeOf[p])
            ELSE chosen
    BY <1>1, <1>6 DEF SelectSurvivor
  <1>8. CASE ~wasActive
    <2>1. e = Memory(s, mem)
      BY <1>7, <1>8
    <2>2. Running(e) /\ e.m = mem /\ e.db = d
      BY <1>1, <1>3, <1>4, <2>1, MemoryRuns
    <2>3. Lasts(mem, d)
      BY <1>1, <1>4, <1>8 DEF Lasts, SurvivorsLast
    <2> QED
      BY <1>3, <1>4, <2>2, <2>3 DEF DoneSame, Done, SameButTopo
  <1>9. CASE wasActive
    <2>1. PICK left : left = {k \in LogicalsOf(mem) : ProjectOf(mem, k) = p}
      OBVIOUS
    <2>2. PICK k : k = FirstId(SortedIds(left))
      OBVIOUS
    <2>3. CASE left # {}
      <3>1. PICK mem1 : mem1 = SelectLogical(mem, p, k)
        OBVIOUS
      <3>2. chosen = Memory(s, mem1)
        BY <1>6, <2>1, <2>2, <2>3, <3>1 DEF SelectRemaining, SelectLogical
      <3>3. k \in left
        <4>1. \A x \in LogicalsOf(mem) : x \in 1..mem.nextSession
          BY <1>3, ProjectFacts
        <4>2. mem.nextSession \in Nat
          BY <1>3 DEF MemOK, MemoryShape
        <4>3. left \subseteq 1..mem.nextSession
          BY <2>1, <4>1
        <4>4. IsFiniteSet(left)
          <5>1. IsFiniteSet(1..mem.nextSession)
            BY <4>2, FS_Interval
          <5> QED
            BY <4>3, <5>1, FS_Subset
        <4>5. left \subseteq Nat
          BY <4>2, <4>3
        <4> QED
          BY <2>2, <2>3, <4>4, <4>5, SortedIdsFacts
      <3>4. k \in LogicalsOf(mem) /\ p = ProjectOf(mem, k)
        BY <2>1, <3>3
      <3>5. Ready(mem1, d, k)
        BY <1>3, <1>4, <1>5, <3>1, <3>4, SelectReadyBut
      <3>6. Running(chosen) /\ chosen.m = mem1 /\ chosen.db = d /\ chosen.err = FALSE
        BY <1>1, <3>2, <3>5, MemoryRuns DEF Ready
      <3>7. mem1.activeOf = Put(mem.activeOf, p, k) /\ mem1.panes = mem.panes
        <4>1. PICK n \in DOMAIN mem.panes : mem.panes[n].logical = k /\ mem.panes[n].project = p
          BY <1>3, <3>4, ProjectFacts
        <4>2. mem1 = [panes |-> mem.panes, topo |-> mem.topo, activeOf |-> Put(mem.activeOf, p, k),
                      focus |-> [logical |-> k, project |-> p],
                      nextSession |-> mem.nextSession, nextWindow |-> mem.nextWindow]
          BY <1>3, <3>1, <4>1, SelectLogicalOK
        <4> QED
          BY <4>2
      <3>8. p \in DOMAIN chosen.m.activeOf /\ chosen.m.activeOf[p] = k
        BY <3>6, <3>7 DEF Put
      <3>9. e = PersistActive(chosen, k)
        BY <1>7, <1>9, <3>8
      <3>10. Done(e) /\ SameButTopo(e.m, chosen.m)
        BY <3>5, <3>6, <3>9, InteractionDone DEF Ready
      <3> QED
        BY <1>3, <3>6, <3>7, <3>10 DEF DoneSame, SameButTopo
    <2>4. CASE left = {}
      <3>1. PICK mem1 : mem1 = Deselected(mem, p)
        OBVIOUS
      <3>2. chosen = Memory(s, mem1)
        BY <1>6, <2>1, <2>4, <3>1 DEF SelectRemaining, Deselected
      <3>3. /\ MemOK(mem1) /\ mem1.panes = mem.panes /\ mem1.nextSession = mem.nextSession
            /\ DOMAIN mem1.activeOf = DOMAIN mem.activeOf \ {p}
            /\ \A q \in DOMAIN mem1.activeOf : mem1.activeOf[q] = mem.activeOf[q]
        BY <1>3, <3>1, DeselectedOK
      <3>4. Agrees(mem1, d) /\ Young(mem1, d)
        BY <1>4, <3>3 DEF Agrees, Young
      <3>5. Running(chosen) /\ chosen.m = mem1 /\ chosen.db = d
        BY <1>1, <3>2, <3>3, <3>4, MemoryRuns
      <3>6. e = chosen
        BY <1>7, <1>9, <3>3, <3>5
      <3>7. ASSUME MaxCrash <= 2 PROVE Exists(mem1)
        BY <1>5, <3>3, <3>7 DEF Exists, ExistsBut
      <3>8. ASSUME MaxCrash <= 2 PROVE Durable(mem1, d)
        <4>1. \A x : LiveIn(mem1, x) = LiveIn(mem, x)
          BY <3>3 DEF LiveIn, PanesOf
        <4> QED
          BY <1>5, <3>3, <3>8, <4>1 DEF Durable
      <3> QED
        BY <1>3, <3>3, <3>4, <3>5, <3>6, <3>7, <3>8 DEF DoneSame, Done, Lasts, SameButTopo
    <2> QED
      BY <2>3, <2>4
  <1> QED
    BY <1>8, <1>9

(* what the handlers know once the panes are destroyed                      *)
LEMMA ManagedLasts ==
    ASSUME NEW s0, Done(s0), NEW l \in LogicalsOf(s0.m), NEW p, p = ProjectOf(s0.m, l),
           NEW gone, gone \subseteq PanesOf(s0.m, l), NEW s, Removed(s.m, s0.m, gone),
           Running(s), Young(s.m, s.db), Durable(s0.m, s0.db) => Durable(s.m, s.db)
    PROVE  /\ l \in LogicalsOf(s.m) => Done(s) /\ p = ProjectOf(s.m, l)
           /\ MaxCrash <= 2 => SurvivorsLast(s.m, s.db, p, l)
           /\ s.m.activeOf = s0.m.activeOf
  <1>1. MemOK(s0.m) /\ MemOK(s.m) /\ Lasts(s0.m, s0.db)
    BY DEF Done, Running
  <1>2. s.m.activeOf = s0.m.activeOf
    BY DEF Removed
  <1>3. Exists(s0.m) => /\ ExistsBut(s.m, p)
                        /\ l \in LogicalsOf(s.m) => Exists(s.m)
                        /\ ~(p \in DOMAIN s0.m.activeOf /\ s0.m.activeOf[p] = l) => Exists(s.m)
    BY <1>1, RemovedExists
  <1>4. MaxCrash <= 2 => SurvivorsLast(s.m, s.db, p, l)
    BY <1>1, <1>2, <1>3 DEF Lasts, SurvivorsLast
  <1>5. ASSUME l \in LogicalsOf(s.m)
        PROVE  Done(s) /\ p = ProjectOf(s.m, l)
    <2>1. Lasts(s.m, s.db)
      BY <1>1, <1>3, <1>5 DEF Lasts
    <2>2. p = ProjectOf(s.m, l)
      BY <1>1, <1>5, RemovedProject
    <2> QED
      BY <2>1, <2>2 DEF Done
  <1> QED
    BY <1>2, <1>4, <1>5

(* a session that was selected stays so                                     *)
LEMMA ReselectedReady ==
    ASSUME NEW s, Done(s), NEW l \in LogicalsOf(s.m), NEW p, p = ProjectOf(s.m, l)
    PROVE  Ready(Reselected(s.m, p, l), s.db, l)
  <1>1. CASE IsSelected(p, l)
    <2>1. Ready(SelectLogical(s.m, p, l), s.db, l)
      BY SelectReady
    <2> QED
      BY <1>1, <2>1 DEF Reselected
  <1>2. CASE ~IsSelected(p, l)
    <2>1. Ready(s.m, s.db, l)
      BY DoneReady
    <2> QED
      BY <1>2, <2>1 DEF Reselected
  <1> QED
    BY <1>1, <1>2

LEMMA ReselectedSame ==
    ASSUME NEW mem, MemOK(mem), NEW l \in LogicalsOf(mem), NEW p, p = ProjectOf(mem, l)
    PROVE  /\ Reselected(mem, p, l).panes = mem.panes /\ Reselected(mem, p, l).topo = mem.topo
           /\ MemOK(Reselected(mem, p, l))
  <1>1. CASE ~IsSelected(p, l)
    BY <1>1 DEF Reselected
  <1>2. CASE IsSelected(p, l)
    <2>1. PICK n \in DOMAIN mem.panes : mem.panes[n].logical = l /\ mem.panes[n].project = p
      BY ProjectFacts
    <2>2. PICK mem2 : mem2 = SelectLogical(mem, p, l)
      OBVIOUS
    <2>3. /\ MemOK(mem2)
          /\ mem2 = [panes |-> mem.panes, topo |-> mem.topo, activeOf |-> Put(mem.activeOf, p, l),
                     focus |-> [logical |-> l, project |-> p],
                     nextSession |-> mem.nextSession, nextWindow |-> mem.nextWindow]
      BY <2>1, <2>2, SelectLogicalOK
    <2>4. Reselected(mem, p, l) = mem2
      BY <1>2, <2>2 DEF Reselected
    <2>5. mem2.panes = mem.panes /\ mem2.topo = mem.topo
      BY <2>3
    <2> QED
      BY <2>3, <2>4, <2>5
  <1> QED
    BY <1>1, <1>2

LEMMA NormalizedDone ==
    ASSUME NEW s, Done(s), NEW l \in LogicalsOf(s.m), NEW p, p = ProjectOf(s.m, l),
           NEW e, e = Memory(s, Normalized(s.m, l)), s.err = FALSE
    PROVE  /\ Done(e) /\ e.m = Normalized(s.m, l) /\ e.db = s.db /\ l \in LogicalsOf(e.m)
           /\ p = ProjectOf(e.m, l) /\ SameButTopo(e.m, s.m)
  <1>1. Running(s) /\ MemOK(s.m) /\ Agrees(s.m, s.db)
    BY DEF Done, Running
  <1>2. PICK mem : mem = Normalized(s.m, l)
    OBVIOUS
  <1>3. MemOK(mem) /\ SameButTopo(mem, s.m)
    BY <1>1, <1>2, NormalizedOK
  <1>4. Agrees(mem, s.db) /\ LogicalsOf(mem) = LogicalsOf(s.m)
    BY <1>1, <1>3, SameSessions
  <1>5. Running(e) /\ e.m = mem /\ e.db = s.db
    BY <1>1, <1>2, <1>3, <1>4, MemoryRuns
  <1>6. Done(e)
    BY <1>3, <1>5, SameDone
  <1>7. ProjectOf(mem, l) = ProjectOf(s.m, l)
    BY <1>3 DEF SameButTopo, ProjectOf
  <1> QED
    BY <1>2, <1>3, <1>4, <1>5, <1>6, <1>7

LEMMA DestroyedDone ==
    ASSUME NEW s, Running(s), Young(s.m, s.db), s.m.activeOf = m.activeOf, NEW p, NEW l,
           l \in LogicalsOf(s.m) => Done(s) /\ p = ProjectOf(s.m, l), s.err => Done(s),
           MaxCrash <= 2 => SurvivorsLast(s.m, s.db, p, l),
           NEW e, e = Destroyed(s, p, l)
    PROVE  /\ Done(e)
           /\ e.m.panes = s.m.panes
           /\ ~s.err /\ l \in LogicalsOf(s.m) =>
                \A order, active : Settled(s.m, l, order, active) => Settled(e.m, l, order, active)
  <1>0. s.err \in BOOLEAN
    BY DEF Running, IsCall
  <1>1. CASE s.err
    <2>1. e = s
      BY <1>1 DEF Destroyed
    <2> QED
      BY <1>1, <2>1
  <1>2. CASE s.err = FALSE /\ l \notin LogicalsOf(s.m)
    <2>1. e = SelectSurvivor(s, p, l, IsSelected(p, l))
      BY <1>2 DEF Destroyed
    <2>2. IsSelected(p, l) = (p \in DOMAIN s.m.activeOf /\ s.m.activeOf[p] = l)
      BY DEF IsSelected
    <2>3. PICK was : was = (p \in DOMAIN s.m.activeOf /\ s.m.activeOf[p] = l)
      OBVIOUS
    <2>4. e = SelectSurvivor(s, p, l, was)
      BY <2>1, <2>2, <2>3
    <2>5. Done(e) /\ e.m.panes = s.m.panes
      <3>1. DoneSame(e, s)
        BY <1>2, <2>3, <2>4, SurvivorSelected
      <3> QED
        BY <3>1 DEF DoneSame
    <2> QED
      BY <1>2, <2>5
  <1>3. CASE s.err = FALSE /\ l \in LogicalsOf(s.m)
    <2>1. PICK s1 : s1 = Memory(s, Normalized(s.m, l))
      OBVIOUS
    <2>2. Done(s1) /\ s1.m = Normalized(s.m, l) /\ s1.db = s.db /\ l \in LogicalsOf(s1.m) /\ p = ProjectOf(s1.m, l)
      BY <1>3, <2>1, NormalizedDone
    <2>3. PICK mem : mem = Reselected(s1.m, p, l)
      OBVIOUS
    <2>4. Ready(mem, s.db, l)
      BY <2>2, <2>3, ReselectedReady
    <2>5. PICK f : f = PersistInteraction(Memory(s, mem), l)
      OBVIOUS
    <2>6. Done(f) /\ SameButTopo(f.m, mem) /\ (f.m = mem \/ f.m = Normalized(mem, l))
      BY <1>3, <2>4, <2>5, MemoryInteraction
    <2>7. e = [f EXCEPT !.err = FALSE]
      BY <1>3, <2>2, <2>3, <2>5 DEF Destroyed
    <2>8. Running(e) /\ e.m = f.m /\ e.db = f.db
      <3>1. PICK b \in BOOLEAN : b = FALSE
        OBVIOUS
      <3>2. e = [f EXCEPT !.err = b]
        BY <2>7, <3>1
      <3> QED
        BY <2>6, <3>2, ErrRuns DEF Done
    <2>9. SameButTopo(s1.m, s.m) /\ mem.panes = s1.m.panes /\ mem.topo = s1.m.topo /\ MemOK(mem)
      <3>1. SameButTopo(s1.m, s.m)
        BY <1>3, <2>1, NormalizedDone
      <3>2. mem.panes = s1.m.panes /\ mem.topo = s1.m.topo /\ MemOK(mem)
        BY <2>2, <2>3, ReselectedSame DEF Done, Running
      <3> QED
        BY <3>1, <3>2
    <2>10. Done(e) /\ e.m.panes = s.m.panes
      BY <2>6, <2>8, <2>9 DEF Done, SameButTopo
    <2>11. ASSUME NEW order, NEW active, Settled(s.m, l, order, active)
           PROVE  Settled(e.m, l, order, active)
      <3>1. Settled(s1.m, l, order, active)
        BY <1>3, <2>2, <2>11, SettledNormal DEF Running
      <3>2. Settled(mem, l, order, active)
        BY <2>9, <3>1, SettledSame
      <3>3. Settled(Normalized(mem, l), l, order, active)
        BY <2>9, <3>2, SettledNormal
      <3> QED
        BY <2>6, <2>8, <3>2, <3>3
    <2> QED
      BY <2>10, <2>11
  <1> QED
    BY <1>0, <1>1, <1>2, <1>3

(* before the panes are destroyed, a closed window's place may be forgotten *)
LEMMA PlacementDone ==
    ASSUME IInv, up, NEW l \in LogicalsOf(m), NEW w,
           NEW mem, mem = m \/ mem = WithTopology(m, l, RemovePlacement(Normal(m, l), w)),
           NEW s, s = Memory(Call, mem)
    PROVE  Done(s) /\ s.m = mem /\ s.err = FALSE /\ s.db = db /\ SameButTopo(s.m, m)
  <1>1. Done(Call) /\ Call.m = m /\ Call.db = db /\ Call.err = FALSE
    BY CallDone
  <1>2. MemOK(m) /\ Agrees(m, db) /\ Running(Call)
    BY <1>1 DEF IInv, Done
  <1>3. MemOK(mem) /\ SameButTopo(mem, m)
    <2>1. CASE mem = m
      BY <1>2, <2>1 DEF SameButTopo
    <2>2. CASE mem = WithTopology(m, l, RemovePlacement(Normal(m, l), w))
      <3>1. PICK t : t = RemovePlacement(Normal(m, l), w)
        OBVIOUS
      <3>2. OrderOK(t)
        BY <1>2, <3>1, RemovePlacementOK
      <3>3. mem = WithTopology(m, l, t)
        BY <2>2, <3>1
      <3> QED
        BY <1>2, <3>2, <3>3, WithTopologyOK
    <2> QED
      BY <2>1, <2>2
  <1>4. Agrees(mem, db)
    BY <1>2, <1>3, SameSessions
  <1>5. PICK c : c = Call
    OBVIOUS
  <1>6. Running(s) /\ s.m = mem /\ s.db = db /\ s.err = FALSE
    <2>1. s = Memory(c, mem) /\ Running(c) /\ c.m = m /\ c.db = db /\ c.err = FALSE
      BY <1>1, <1>2, <1>5
    <2> QED
      BY <1>3, <1>4, <2>1, MemoryRuns
  <1>7. Done(s)
    <2>1. Done(c) /\ c.m = m /\ c.db = db
      BY <1>1, <1>5
    <2> QED
      BY <1>3, <1>6, <2>1, SameDone
  <1> QED
    BY <1>3, <1>6, <1>7

(* The panes S of session l are gone: none of its windows is closed by that, *)
(* or the one whose place has been removed                                  *)
LEMMA ClosedNeighbour ==
    ASSUME MemOK(m), NEW l \in LogicalsOf(m), NEW w \in WindowsOf(m, l),
           NEW mem0, MemOK(mem0), SameButTopo(mem0, m), NEW S, S \subseteq PanesOf(m, l),
           NEW mem1, MemOK(mem1), Removed(mem1, mem0, S),
           NEW mem2, MemOK(mem2), mem2.panes = mem1.panes,
           \/ \A v \in WindowsOf(m, l) : \E n \in PanesIn(m, l, v) : n \notin S
           \/ /\ S = PanesIn(m, l, w) /\ TopologyOf(mem0, l) = RemovePlacement(Normal(m, l), w)
              /\ l \in LogicalsOf(mem1) =>
                    \A order, active : Settled(mem1, l, order, active) => Settled(mem2, l, order, active),
           NEW k \in LogicalsOf(m), k \in LogicalsOf(mem2)
    PROVE  NeighbourIn(mem2, k)
  <1>1. mem0.panes = m.panes
    BY DEF SameButTopo
  <1>2. /\ DOMAIN mem1.panes = DOMAIN m.panes \ S
        /\ \A n \in DOMAIN mem1.panes : mem1.panes[n] = m.panes[n]
        /\ mem1.topo = mem0.topo
    BY <1>1 DEF Removed
  <1>3. CASE WindowsOf(m, k) \subseteq WindowsOf(mem2, k)
    BY <1>3, NormalActive, ActiveKept
  <1>4. ASSUME k # l PROVE WindowsOf(m, k) \subseteq WindowsOf(mem2, k)
    <2>1. \A n \in DOMAIN m.panes : m.panes[n].logical = k => n \notin S
      BY <1>4 DEF PanesOf
    <2> QED
      BY <1>2, <2>1 DEF WindowsOf, PanesOf
  <1>5. ASSUME \A v \in WindowsOf(m, l) : \E n \in PanesIn(m, l, v) : n \notin S
        PROVE  WindowsOf(m, l) \subseteq WindowsOf(mem2, l)
    <2>1. ASSUME NEW v \in WindowsOf(m, l) PROVE v \in WindowsOf(mem2, l)
      <3>1. PICK n \in PanesIn(m, l, v) : n \notin S
        BY <1>5
      <3> QED
        BY <1>2, <3>1 DEF PanesIn, PanesOf, WindowsOf
    <2> QED
      BY <2>1
  <1>6. CASE k = l /\ S = PanesIn(m, l, w) /\ TopologyOf(mem0, l) = RemovePlacement(Normal(m, l), w)
             /\ (l \in LogicalsOf(mem1) =>
                    \A order, active : Settled(mem1, l, order, active) => Settled(mem2, l, order, active))
    <2>1. PICK r : r = RemovePlacement(Normal(m, l), w)
      OBVIOUS
    <2>2. TopologyOf(mem1, l) = r
      BY <1>2, <1>6, <2>1 DEF TopologyOf
    <2>3. l \in LogicalsOf(mem1)
      BY <1>6 DEF LogicalsOf
    <2>4. WindowsOf(mem1, l) = WindowsOf(m, l) \ {w}
      <3>1. PanesOf(mem1, l) = PanesOf(m, l) \ S
        BY <1>2 DEF PanesOf
      <3>2. \A n \in PanesOf(mem1, l) : mem1.panes[n] = m.panes[n]
        BY <1>2 DEF PanesOf
      <3>3. \A n \in PanesOf(m, l) : n \in S <=> m.panes[n].window = w
        BY <1>6 DEF PanesIn
      <3> QED
        BY <3>1, <3>2, <3>3 DEF WindowsOf
    <2>5. /\ Settled(mem1, l, r.order, r.active)
          /\ \A mem : MemOK(mem) /\ Settled(mem, l, r.order, r.active) => NeighbourIn(mem, l)
      BY <2>1, <2>2, <2>3, <2>4, WindowClosed
    <2>6. Settled(mem2, l, r.order, r.active)
      BY <1>6, <2>3, <2>5
    <2> QED
      BY <1>6, <2>5, <2>6
  <1> QED
    BY <1>3, <1>4, <1>5, <1>6

LEMMA DestroyStep ==
    ASSUME IInv, up, NEW n \in Panes, NEW fails \in BOOLEAN, Destroy(n, fails)
    PROVE  IInv' /\ NeighbourChosen
  <1>1. PICK r, l : r = m.panes[n] /\ l = r.logical
    OBVIOUS
  <1>2. PICK mem : mem = IF PanesIn(m, l, r.window) = {n}
                         THEN WithTopology(m, l, RemovePlacement(Normal(m, l), r.window)) ELSE m
    OBVIOUS
  <1>3. PICK s0 : s0 = Memory(Call, mem)
    OBVIOUS
  <1>4. PICK first : first = IF fails /\ r.kind = "live" THEN {} ELSE {n}
    OBVIOUS
  <1>5. PICK S : S = {n}
    OBVIOUS
  <1>6. PICK s : s = DestroyManaged(s0, first, S, fails)
    OBVIOUS
  <1>7. PICK e : e = Destroyed(s, r.project, l)
    OBVIOUS
  <1>8. Handle(e)
    BY <1>1, <1>2, <1>3, <1>4, <1>5, <1>6, <1>7 DEF Destroy
  <1>9. MemOK(m) /\ l \in LogicalsOf(m) /\ n \in DOMAIN m.panes
    BY <1>1 DEF IInv, LogicalsOf, Panes
  <1>10. Done(s0) /\ s0.err = FALSE /\ SameButTopo(s0.m, m)
    <2>1. PICK w : w = r.window
      OBVIOUS
    <2>2. mem = m \/ mem = WithTopology(m, l, RemovePlacement(Normal(m, l), w))
      BY <1>2, <2>1
    <2> QED
      BY <1>3, <1>9, <2>2, PlacementDone
  <1>11. PICK left : left = Unstopped(s0, S, fails)
    OBVIOUS
  <1>12. PICK gone : gone = IF left = {} THEN S ELSE first
    OBVIOUS
  <1>13. first \subseteq S
    BY <1>4, <1>5
  <1>14. /\ Running(s) /\ Removed(s.m, s0.m, gone) /\ (s.err <=> left # {})
         /\ Young(s.m, s.db) /\ (Durable(s0.m, s0.db) => Durable(s.m, s.db))
    <2>1. Done(s0)
      BY <1>10
    <2>2. s0.err = FALSE
      BY <1>10
    <2> HIDE DEF Panes
    <2>3. Running(s)
      BY <2>1, <2>2, <1>6, <1>11, <1>12, <1>13, ManagedDestroyed
    <2>4. Removed(s.m, s0.m, gone)
      BY <2>1, <2>2, <1>6, <1>11, <1>12, <1>13, ManagedDestroyed
    <2>5. (s.err <=> left # {})
      BY <2>1, <2>2, <1>6, <1>11, <1>12, <1>13, ManagedDestroyed
    <2>6. Young(s.m, s.db)
      BY <2>1, <2>2, <1>6, <1>11, <1>12, <1>13, ManagedDestroyed
    <2>7. Durable(s0.m, s0.db) => Durable(s.m, s.db)
      BY <2>1, <2>2, <1>6, <1>11, <1>12, <1>13, ManagedDestroyed
    <2> QED
      BY <2>3, <2>4, <2>5, <2>6, <2>7
  <1>15. s0.m.panes = m.panes /\ s0.m.activeOf = m.activeOf
    BY <1>10 DEF SameButTopo
  <1>16. l \in LogicalsOf(s0.m) /\ gone \subseteq PanesOf(s0.m, l) /\ r.project = ProjectOf(s0.m, l)
    <2>1. gone \subseteq {n}
      BY <1>5, <1>12, <1>13
    <2>2. n \in PanesOf(s0.m, l) /\ l \in LogicalsOf(s0.m)
      BY <1>1, <1>9, <1>15 DEF PanesOf, LogicalsOf
    <2>3. MemOK(s0.m)
      BY <1>10 DEF Done, Running
    <2>4. r.project = ProjectOf(s0.m, l)
      BY <1>1, <1>9, <1>15, <2>2, <2>3, ProjectFacts
    <2> QED
      BY <2>1, <2>2, <2>4
  <1>17. PICK p : p = r.project
    OBVIOUS
  <1>18. /\ l \in LogicalsOf(s.m) => Done(s) /\ p = ProjectOf(s.m, l)
         /\ MaxCrash <= 2 => SurvivorsLast(s.m, s.db, p, l)
         /\ s.m.activeOf = m.activeOf
    <2>1. Done(s0) /\ Running(s) /\ Removed(s.m, s0.m, gone) /\ Young(s.m, s.db)
      BY <1>10, <1>14
    <2>2. Durable(s0.m, s0.db) => Durable(s.m, s.db)
      BY <1>14
    <2>3. l \in LogicalsOf(s0.m) /\ gone \subseteq PanesOf(s0.m, l) /\ p = ProjectOf(s0.m, l)
      BY <1>16, <1>17
    <2>4. /\ l \in LogicalsOf(s.m) => Done(s) /\ p = ProjectOf(s.m, l)
          /\ MaxCrash <= 2 => SurvivorsLast(s.m, s.db, p, l)
          /\ s.m.activeOf = s0.m.activeOf
      <3>1. l \in LogicalsOf(s.m) => Done(s) /\ p = ProjectOf(s.m, l)
        BY <2>1, <2>2, <2>3, ManagedLasts
      <3>2. MaxCrash <= 2 => SurvivorsLast(s.m, s.db, p, l)
        BY <2>1, <2>2, <2>3, ManagedLasts
      <3>3. s.m.activeOf = s0.m.activeOf
        BY <2>1, <2>2, <2>3, ManagedLasts
      <3> QED
        BY <3>1, <3>2, <3>3
    <2> QED
      BY <1>15, <2>4
  <1>19. ASSUME s.err PROVE Done(s)
    <2>1. left # {}
      BY <1>14, <1>19
    <2>2. left = {k \in {n} : fails /\ s0.m.panes[k].kind = "live"}
      BY <1>5, <1>11 DEF Unstopped
    <2>3. fails /\ r.kind = "live"
      BY <1>1, <1>15, <2>1, <2>2
    <2>4. gone = {}
      BY <1>4, <1>12, <2>1, <2>3
    <2>5. n \in DOMAIN s.m.panes /\ s.m.panes[n] = r
      BY <1>1, <1>9, <1>14, <1>15, <2>4 DEF Removed
    <2> QED
      BY <1>1, <1>18, <2>5 DEF LogicalsOf
  <1>20. /\ Done(e)
         /\ e.m.panes = s.m.panes
         /\ ~s.err /\ l \in LogicalsOf(s.m) =>
              \A order, active : Settled(s.m, l, order, active) => Settled(e.m, l, order, active)
    BY <1>7, <1>14, <1>17, <1>18, <1>19, DestroyedDone
  <1>21. ASSUME NEW k \in LogicalsOf(m), k \in LogicalsOf(e.m) PROVE NeighbourIn(e.m, k)
    <2>1. r.window \in WindowsOf(m, l) /\ n \in PanesIn(m, l, r.window) /\ gone \subseteq PanesOf(m, l)
      BY <1>1, <1>9, <1>15, <1>16 DEF WindowsOf, PanesIn, PanesOf
    <2>2. MemOK(s0.m) /\ MemOK(s.m) /\ MemOK(e.m)
      BY <1>10, <1>14, <1>20 DEF Done, Running
    <2>3. CASE left = {} /\ PanesIn(m, l, r.window) = {n}
      <3>1. gone = PanesIn(m, l, r.window) /\ ~s.err
        BY <1>5, <1>12, <1>14, <2>3
      <3>2. TopologyOf(s0.m, l) = RemovePlacement(Normal(m, l), r.window)
        <4>1. s0.m = WithTopology(m, l, RemovePlacement(Normal(m, l), r.window))
          <5>1. PICK w : w = r.window
            OBVIOUS
          <5>2. mem = WithTopology(m, l, RemovePlacement(Normal(m, l), w))
            BY <1>2, <2>3, <5>1
          <5>3. s0.m = mem
            BY <1>3, <1>9, <5>2, PlacementDone
          <5> QED
            BY <5>1, <5>2, <5>3
        <4> QED
          BY <1>9, <4>1, TopologyWritten
      <3> QED
        BY <1>9, <1>10, <1>14, <1>20, <1>21, <2>1, <2>2, <3>1, <3>2, ClosedNeighbour
    <2>4. CASE left # {} \/ PanesIn(m, l, r.window) # {n}
      <3>1. ASSUME NEW v \in WindowsOf(m, l) PROVE \E k2 \in PanesIn(m, l, v) : k2 \notin gone
        <4>1. PICK a \in PanesIn(m, l, v) : TRUE
          BY DEF WindowsOf, PanesIn
        <4>2. gone \subseteq {n}
          BY <1>5, <1>12, <1>13
        <4>3. CASE a # n
          BY <4>1, <4>2, <4>3
        <4>4. CASE a = n /\ PanesIn(m, l, r.window) # {n}
          <5>1. v = r.window
            BY <1>1, <4>1, <4>4 DEF PanesIn
          <5>2. PICK b \in PanesIn(m, l, v) : b # n
            BY <2>1, <4>4, <5>1
          <5> QED
            BY <4>2, <5>2
        <4>5. CASE a = n /\ left # {}
          <5>1. left = {x \in {n} : fails /\ s0.m.panes[x].kind = "live"}
            BY <1>5, <1>11 DEF Unstopped
          <5>2. gone = {}
            BY <1>1, <1>4, <1>12, <1>15, <4>5, <5>1
          <5> QED
            BY <4>1, <5>2
        <4> QED
          BY <2>4, <4>3, <4>4, <4>5
      <3> QED
        BY <1>9, <1>10, <1>14, <1>20, <1>21, <2>1, <2>2, <3>1, ClosedNeighbour
    <2> QED
      BY <2>3, <2>4
  <1> QED
    BY <1>8, <1>20, <1>21, HandleNeighbour

(* selecting anew the session that is selected changes the focus alone      *)
LEMMA AgainSelected ==
    ASSUME NEW s, Done(s), NEW l \in LogicalsOf(s.m), NEW p, p = ProjectOf(s.m, l),
           IsSelected(p, l) => p \in DOMAIN s.m.activeOf /\ s.m.activeOf[p] = l,
           NEW e, e = Memory(s, Reselected(s.m, p, l))
    PROVE  Done(e) /\ e.m.panes = s.m.panes /\ e.m.topo = s.m.topo
  <1>1. Running(s) /\ MemOK(s.m) /\ Agrees(s.m, s.db) /\ Young(s.m, s.db) /\ Lasts(s.m, s.db)
    BY DEF Done, Running
  <1>2. CASE ~IsSelected(p, l)
    <2>1. e = Memory(s, s.m)
      BY <1>2 DEF Reselected
    <2>2. Running(e) /\ e.db = s.db /\ e.m = s.m
      BY <1>1, <2>1, MemoryRuns
    <2> QED
      BY <1>1, <2>2 DEF Done
  <1>3. CASE IsSelected(p, l)
    <2>1. PICK mem : mem = SelectLogical(s.m, p, l)
      OBVIOUS
    <2>2. e = Memory(s, mem)
      BY <1>3, <2>1 DEF Reselected
    <2>3. Ready(mem, s.db, l)
      BY <2>1, SelectReady
    <2>4. Running(e) /\ e.db = s.db /\ e.m = IF s.err THEN s.m ELSE mem
      BY <1>1, <2>2, <2>3, MemoryRuns DEF Ready
    <2>5. mem.panes = s.m.panes /\ mem.topo = s.m.topo /\ mem.activeOf = Put(s.m.activeOf, p, l)
      <3>1. PICK n \in DOMAIN s.m.panes : s.m.panes[n].logical = l /\ s.m.panes[n].project = p
        BY <1>1, ProjectFacts
      <3>2. mem = [panes |-> s.m.panes, topo |-> s.m.topo, activeOf |-> Put(s.m.activeOf, p, l),
                   focus |-> [logical |-> l, project |-> p],
                   nextSession |-> s.m.nextSession, nextWindow |-> s.m.nextWindow]
        BY <1>1, <2>1, <3>1, SelectLogicalOK
      <3> QED
        BY <3>2
    <2>6. DOMAIN mem.activeOf = DOMAIN s.m.activeOf
          /\ \A q \in DOMAIN mem.activeOf : mem.activeOf[q] = s.m.activeOf[q]
      BY <1>3, <2>5 DEF Put
    <2>7. \A x : LiveIn(mem, x) = LiveIn(s.m, x)
      BY <2>5 DEF LiveIn, PanesOf
    <2>8. Durable(s.m, s.db) => Durable(mem, s.db)
      BY <2>6, <2>7 DEF Durable
    <2>9. Lasts(mem, s.db)
      BY <1>1, <2>3, <2>8 DEF Lasts, Ready, LastsBut
    <2>10. Young(mem, s.db)
      BY <2>3 DEF Ready
    <2> QED
      BY <1>1, <2>4, <2>5, <2>9, <2>10 DEF Done
  <1> QED
    BY <1>2, <1>3

LEMMA WindowDestroyedDone ==
    ASSUME NEW s, Running(s), Young(s.m, s.db), s.m.activeOf = m.activeOf, NEW p, NEW l,
           l \in LogicalsOf(s.m) => Done(s) /\ p = ProjectOf(s.m, l), s.err => l \in LogicalsOf(s.m),
           MaxCrash <= 2 => SurvivorsLast(s.m, s.db, p, l),
           NEW e, e = WindowDestroyed(s, p, l)
    PROVE  /\ Done(e)
           /\ e.m.panes = s.m.panes
           /\ ~s.err /\ l \in LogicalsOf(s.m) =>
                \A order, active : Settled(s.m, l, order, active) => Settled(e.m, l, order, active)
  <1>0. s.err \in BOOLEAN
    BY DEF Running, IsCall
  <1>1. CASE l \notin LogicalsOf(s.m)
    <2>1. e = SelectSurvivor(s, p, l, IsSelected(p, l))
      BY <1>1 DEF WindowDestroyed
    <2>2. IsSelected(p, l) = (p \in DOMAIN s.m.activeOf /\ s.m.activeOf[p] = l)
      BY DEF IsSelected
    <2>3. PICK was : was = (p \in DOMAIN s.m.activeOf /\ s.m.activeOf[p] = l)
      OBVIOUS
    <2>4. e = SelectSurvivor(s, p, l, was)
      BY <2>1, <2>2, <2>3
    <2>5. s.err = FALSE
      BY <1>0, <1>1
    <2>6. Done(e) /\ e.m.panes = s.m.panes
      <3>1. DoneSame(e, s)
        BY <2>3, <2>4, <2>5, SurvivorSelected
      <3> QED
        BY <3>1 DEF DoneSame
    <2> QED
      BY <1>1, <2>6
  <1>2. CASE l \in LogicalsOf(s.m)
    <2>1. PICK mem : mem = Normalized(s.m, l)
      OBVIOUS
    <2>2. Done(s) /\ p = ProjectOf(s.m, l) /\ MemOK(s.m)
      BY <1>2 DEF Running
    <2>3. PICK kept : kept = PersistInteraction(Memory(s, mem), l)
      OBVIOUS
    <2>4. ASSUME ~s.err PROVE Ready(mem, s.db, l)
      <3>1. PICK s1 : s1 = Memory(s, Normalized(s.m, l))
        OBVIOUS
      <3>2. s.err = FALSE
        BY <1>0, <2>4
      <3>3. Done(s1) /\ s1.m = mem /\ s1.db = s.db /\ l \in LogicalsOf(s1.m)
        BY <1>2, <2>1, <2>2, <3>1, <3>2, NormalizedDone
      <3>4. Ready(s1.m, s1.db, l)
        BY <3>3, DoneReady
      <3> QED
        BY <3>3, <3>4
    <2>5. Done(kept) /\ SameButTopo(kept.m, IF s.err THEN s.m ELSE mem)
          /\ (s.err \/ kept.m = mem \/ kept.m = Normalized(mem, l))
      BY <1>2, <2>2, <2>3, <2>4, MemoryInteraction
    <2>6. SameButTopo(mem, s.m)
      BY <2>1, <2>2, NormalizedOK
    <2>7. kept.m.panes = s.m.panes /\ kept.m.activeOf = m.activeOf
      BY <2>5, <2>6 DEF SameButTopo
    <2>8. l \in LogicalsOf(kept.m) /\ p = ProjectOf(kept.m, l)
      BY <1>2, <2>2, <2>7 DEF LogicalsOf, ProjectOf
    <2>9. IsSelected(p, l) => p \in DOMAIN kept.m.activeOf /\ kept.m.activeOf[p] = l
      BY <2>7 DEF IsSelected
    <2>10. e = Memory(kept, Reselected(kept.m, p, l))
      BY <1>2, <2>1, <2>3 DEF WindowDestroyed
    <2>11. Done(e) /\ e.m.panes = kept.m.panes /\ e.m.topo = kept.m.topo
      BY <2>5, <2>8, <2>9, <2>10, AgainSelected
    <2>12. ASSUME ~s.err, NEW order, NEW active, Settled(s.m, l, order, active)
           PROVE  Settled(e.m, l, order, active)
      <3>1. Settled(mem, l, order, active) /\ MemOK(mem)
        BY <2>1, <2>2, <2>12, SettledNormal, NormalizedOK
      <3>2. Settled(Normalized(mem, l), l, order, active)
        BY <3>1, SettledNormal
      <3>3. Settled(kept.m, l, order, active)
        BY <2>5, <2>12, <3>1, <3>2
      <3> QED
        BY <2>11, <3>3, SettledSame
    <2> QED
      BY <2>7, <2>11, <2>12
  <1> QED
    BY <1>1, <1>2

LEMMA DestroyWindowStep ==
    ASSUME IInv, up, NEW l \in LogicalsOf(m), NEW w \in WindowsOf(m, l),
           NEW first \in SUBSET PanesIn(m, l, w), NEW fails, DestroyWindow(l, w, first, fails)
    PROVE  IInv' /\ NeighbourChosen
  <1>1. PICK mem : mem = WithTopology(m, l, RemovePlacement(Normal(m, l), w))
    OBVIOUS
  <1>2. PICK S : S = PanesIn(m, l, w)
    OBVIOUS
  <1>3. PICK s0 : s0 = Memory(Call, mem)
    OBVIOUS
  <1>4. PICK s : s = DestroyManaged(s0, first, S, fails)
    OBVIOUS
  <1>5. PICK p : p = ProjectOf(m, l)
    OBVIOUS
  <1>6. PICK e : e = WindowDestroyed(s, p, l)
    OBVIOUS
  <1>7. Handle(e) /\ first \cap Unstopped(Call, S, fails) = {}
    BY <1>1, <1>2, <1>3, <1>4, <1>5, <1>6 DEF DestroyWindow
  <1>8. MemOK(m) /\ Call.m = m
    BY CallDone DEF IInv
  <1>9. Done(s0) /\ s0.err = FALSE /\ SameButTopo(s0.m, m)
    BY <1>1, <1>3, PlacementDone
  <1>10. PICK left : left = Unstopped(s0, S, fails)
    OBVIOUS
  <1>11. PICK gone : gone = IF left = {} THEN S ELSE first
    OBVIOUS
  <1>12. first \subseteq S
    BY <1>2
  <1>13. /\ Running(s) /\ Removed(s.m, s0.m, gone) /\ (s.err <=> left # {})
         /\ Young(s.m, s.db) /\ (Durable(s0.m, s0.db) => Durable(s.m, s.db))
    <2>1. Done(s0)
      BY <1>9
    <2>2. s0.err = FALSE
      BY <1>9
    <2>3. Running(s)
      BY <2>1, <2>2, <1>4, <1>10, <1>11, <1>12, ManagedDestroyed
    <2>4. Removed(s.m, s0.m, gone)
      BY <2>1, <2>2, <1>4, <1>10, <1>11, <1>12, ManagedDestroyed
    <2>5. s.err <=> left # {}
      BY <2>1, <2>2, <1>4, <1>10, <1>11, <1>12, ManagedDestroyed
    <2>6. Young(s.m, s.db)
      BY <2>1, <2>2, <1>4, <1>10, <1>11, <1>12, ManagedDestroyed
    <2>7. Durable(s0.m, s0.db) => Durable(s.m, s.db)
      BY <2>1, <2>2, <1>4, <1>10, <1>11, <1>12, ManagedDestroyed
    <2> QED
      BY <2>3, <2>4, <2>5, <2>6, <2>7
  <1>14. s0.m.panes = m.panes /\ s0.m.activeOf = m.activeOf
    BY <1>9 DEF SameButTopo
  <1>15. l \in LogicalsOf(s0.m) /\ gone \subseteq PanesOf(s0.m, l) /\ p = ProjectOf(s0.m, l)
    <2>1. gone \subseteq S
      BY <1>11, <1>12
    <2>2. S \subseteq PanesOf(s0.m, l)
      BY <1>2, <1>14 DEF PanesIn, PanesOf
    <2>3. l \in LogicalsOf(s0.m) /\ p = ProjectOf(s0.m, l)
      BY <1>5, <1>14 DEF LogicalsOf, ProjectOf
    <2> QED
      BY <2>1, <2>2, <2>3
  <1>16. /\ l \in LogicalsOf(s.m) => Done(s) /\ p = ProjectOf(s.m, l)
         /\ MaxCrash <= 2 => SurvivorsLast(s.m, s.db, p, l)
         /\ s.m.activeOf = m.activeOf
    <2>1. Done(s0) /\ Running(s) /\ Removed(s.m, s0.m, gone) /\ Young(s.m, s.db)
      BY <1>9, <1>13
    <2>2. Durable(s0.m, s0.db) => Durable(s.m, s.db)
      BY <1>13
    <2>3. l \in LogicalsOf(s.m) => Done(s) /\ p = ProjectOf(s.m, l)
      <3>1. l \in LogicalsOf(s.m) => Done(s)
        BY <2>1, <2>2, <1>15, ManagedLasts
      <3>2. ASSUME l \in LogicalsOf(s.m) PROVE p = ProjectOf(s.m, l)
        <4>1. MemOK(s0.m) /\ MemOK(s.m)
          BY <1>9, <1>13 DEF Done, Running
        <4> QED
          BY <1>13, <1>15, <3>2, <4>1, RemovedProject
      <3> QED
        BY <3>1, <3>2
    <2>4. MaxCrash <= 2 => SurvivorsLast(s.m, s.db, p, l)
      BY <2>1, <2>2, <1>15, ManagedLasts
    <2>5. s.m.activeOf = s0.m.activeOf
      BY <2>1, <2>2, <1>15, ManagedLasts
    <2> QED
      BY <1>14, <2>3, <2>4, <2>5
  <1>17. ASSUME s.err PROVE l \in LogicalsOf(s.m)
    <2>1. left = {k \in S : fails /\ m.panes[k].kind = "live"} /\ left # {}
      BY <1>10, <1>13, <1>14, <1>17 DEF Unstopped
    <2>2. Unstopped(Call, S, fails) = left
      BY <1>8, <2>1 DEF Unstopped
    <2>3. gone = first
      BY <1>11, <2>1
    <2>4. PICK k \in S : k \notin gone
      BY <1>7, <2>1, <2>2, <2>3
    <2>5. k \in DOMAIN m.panes /\ m.panes[k].logical = l
      BY <1>2 DEF PanesIn, PanesOf
    <2>6. k \in DOMAIN s.m.panes /\ s.m.panes[k].logical = l
      BY <1>13, <1>14, <2>4, <2>5 DEF Removed
    <2> QED
      BY <2>6 DEF LogicalsOf
  <1>18. /\ Done(e)
         /\ e.m.panes = s.m.panes
         /\ ~s.err /\ l \in LogicalsOf(s.m) =>
              \A order, active : Settled(s.m, l, order, active) => Settled(e.m, l, order, active)
    BY <1>6, <1>13, <1>16, <1>17, WindowDestroyedDone
  <1>19. ASSUME NEW k \in LogicalsOf(m), k \in LogicalsOf(e.m) PROVE NeighbourIn(e.m, k)
    <2>1. gone \subseteq PanesOf(m, l)
      BY <1>14, <1>15 DEF PanesOf
    <2>2. MemOK(s0.m) /\ MemOK(s.m) /\ MemOK(e.m)
      BY <1>9, <1>13, <1>18 DEF Done, Running
    <2>3. CASE left = {}
      <3>1. gone = PanesIn(m, l, w) /\ ~s.err
        BY <1>2, <1>11, <1>13, <2>3
      <3>2. TopologyOf(s0.m, l) = RemovePlacement(Normal(m, l), w)
        <4>1. s0.m = mem
          BY <1>1, <1>3, PlacementDone
        <4> QED
          BY <1>1, <1>8, <4>1, TopologyWritten
      <3> QED
        BY <1>8, <1>9, <1>13, <1>18, <1>19, <2>1, <2>2, <3>1, <3>2, ClosedNeighbour
    <2>4. CASE left # {}
      <3>1. ASSUME NEW v \in WindowsOf(m, l) PROVE \E a \in PanesIn(m, l, v) : a \notin gone
        <4>1. left = {x \in S : fails /\ m.panes[x].kind = "live"}
          BY <1>10, <1>14 DEF Unstopped
        <4>2. Unstopped(Call, S, fails) = left
          BY <1>8, <4>1 DEF Unstopped
        <4>3. gone = first
          BY <1>11, <2>4
        <4>4. PICK b \in S : b \notin gone
          BY <1>7, <2>4, <4>1, <4>2, <4>3
        <4>5. CASE v = w
          BY <1>2, <4>4, <4>5
        <4>6. CASE v # w
          <5>1. PICK a \in PanesIn(m, l, v) : TRUE
            BY DEF WindowsOf, PanesIn
          <5>2. a \notin S
            BY <1>2, <4>6, <5>1 DEF PanesIn
          <5> QED
            BY <1>12, <4>3, <5>1, <5>2
        <4> QED
          BY <4>5, <4>6
      <3> QED
        BY <1>8, <1>9, <1>13, <1>18, <1>19, <2>1, <2>2, <3>1, ClosedNeighbour
    <2> QED
      BY <2>3, <2>4
  <1> QED
    BY <1>7, <1>18, <1>19, HandleNeighbour

-----------------------------------------------------------------------------
(* The theorems                                                             *)

LEMMA NextStep ==
    ASSUME IInv, [Next]_vars
    PROVE  IInv' /\ NeighbourChosen
  <1>1. CASE UNCHANGED vars
    <2>1. IInv'
      BY <1>1 DEF vars, IInv, up, Right, Young, MemOK
    <2>2. Panes' = Panes
      BY <1>1 DEF vars, Panes
    <2> QED
      BY <2>1, <2>2 DEF NeighbourChosen
  <1>2. CASE Restart
    BY <1>2, RestartStep DEF NeighbourChosen, Restart
  <1>3. CASE Crash
    BY <1>3, CrashStep DEF NeighbourChosen, Crash, up
  <1>4. CASE Close
    BY <1>4, CloseStep DEF NeighbourChosen, Close, up
  <1>5. ASSUME NEW p \in Projects, NEW o \in Outcomes, Create(p, o) PROVE IInv' /\ NeighbourChosen
    <2>1. up
      BY <1>5 DEF Create, Handle
    <2> QED
      BY <1>5, <2>1, CreateStep
  <1>6. ASSUME NEW n \in Panes, NEW o \in Outcomes, Split(n, o) PROVE IInv' /\ NeighbourChosen
    <2>1. up
      BY <1>6 DEF Split, Handle
    <2> QED
      BY <1>6, <2>1, SplitStep
  <1>7. ASSUME NEW l \in LogicalsOf(m), NEW o \in Outcomes, NewWindow(l, o) PROVE IInv' /\ NeighbourChosen
    <2>1. up
      BY <1>7 DEF NewWindow, Handle
    <2> QED
      BY <1>7, <2>1, NewWindowStep
  <1>8. ASSUME NEW l \in LogicalsOf(m), NEW w \in WindowsOf(m, l), SelectWindow(l, w) PROVE IInv' /\ NeighbourChosen
    <2>1. up
      BY <1>8 DEF SelectWindow, Handle
    <2> QED
      BY <1>8, <2>1, SelectWindowStep
  <1>9. ASSUME NEW n \in Panes, SelectPane(n) PROVE IInv' /\ NeighbourChosen
    <2>1. up
      BY <1>9 DEF SelectPane, Handle
    <2> QED
      BY <1>9, <2>1, SelectPaneStep
  <1>10. ASSUME NEW l \in LogicalsOf(m), NEW w \in WindowsOf(m, l), NEW n, ZoomPane(l, w, n) PROVE IInv' /\ NeighbourChosen
    <2>1. up
      BY <1>10 DEF ZoomPane, Handle
    <2> QED
      BY <1>10, <2>1, ZoomPaneStep
  <1>11. ASSUME NEW n \in Panes, Attach(n) PROVE IInv' /\ NeighbourChosen
    <2>1. up
      BY <1>11 DEF Attach, Handle
    <2> QED
      BY <1>11, <2>1, AttachStep
  <1>12. ASSUME NEW n \in Panes, NEW fails \in Kills, Destroy(n, fails) PROVE IInv' /\ NeighbourChosen
    <2>1. up
      BY <1>12 DEF Destroy, Handle
    <2>2. fails \in BOOLEAN
      BY DEF Kills
    <2> QED
      BY <1>12, <2>1, <2>2, DestroyStep
  <1>13. ASSUME NEW l \in LogicalsOf(m), NEW w \in WindowsOf(m, l),
                NEW first \in SUBSET PanesIn(m, l, w), NEW fails \in Kills, DestroyWindow(l, w, first, fails)
         PROVE IInv' /\ NeighbourChosen
    <2>1. up
      BY <1>13 DEF DestroyWindow, Handle
    <2> QED
      BY <1>13, <2>1, DestroyWindowStep
  <1>14. ASSUME NEW n \in Panes, Exit(n) PROVE IInv' /\ NeighbourChosen
    <2>1. up
      BY <1>14 DEF Exit, Handle
    <2> QED
      BY <1>14, <2>1, ExitStep
  <1> QED
    BY <1>1, <1>2, <1>3, <1>4, <1>5, <1>6, <1>7, <1>8, <1>9, <1>10, <1>11, <1>12, <1>13, <1>14 DEF Next

\* Every request handler of operations.go, the exit of a pane, the end of the
\* daemon before, between or inside its commits, and its restart keep the
\* memory, the catalog and what is still to be persisted in step.
THEOREM Invariance == Spec => []IInv
  <1>1. Init => IInv
    BY InitOK
  <1>2. IInv /\ [Next]_vars => IInv'
    BY NextStep
  <1> QED
    BY <1>1, <1>2, PTL DEF Spec

LEMMA InvariantConsistent ==
    ASSUME IInv
    PROVE  Consistent
  <1>1. MaxPane \in Nat /\ MaxWindow \in Nat /\ MaxCrash \in Nat
    BY TopologyAssumption
  <1>2. MemOK(m) /\ DbOK(db) /\ status \in {"up", "crash", "torn"} /\ crashes \in 0..MaxCrash
    BY DEF IInv
  <1>3. m.nextSession \in 0..MaxPane /\ m.nextWindow \in 0..MaxWindow
    BY <1>2 DEF MemOK, MemoryShape
  <1>4. \A n \in DOMAIN m.panes : n \in 1..m.nextSession /\ m.panes[n] \in PaneRecords(m)
    BY <1>2 DEF MemOK, PanesOK
  <1>5. TypeOK
    <2>1. \A n \in DOMAIN m.panes : /\ n \in 1..MaxPane
                                    /\ m.panes[n].project \in Projects /\ m.panes[n].logical \in 1..MaxPane
                                    /\ m.panes[n].window \in 1..MaxWindow
                                    /\ m.panes[n].kind \in {"live", "exited", "recovered"}
      BY <1>1, <1>3, <1>4 DEF PaneRecords, Kinds
    <2>2. \A l \in DOMAIN m.topo : IsInjective(m.topo[l].order)
      BY <1>2 DEF MemOK, TopoOK
    <2>3. DOMAIN m.activeOf \subseteq Projects /\ DOMAIN db.active \subseteq Projects
      BY <1>2 DEF MemOK, FocusOK, DbOK, ActiveOK
    <2>4. \A n \in DOMAIN db.panes : /\ db.panes[n].session \in DOMAIN db.sessions
                                     /\ db.panes[n].window \in DOMAIN db.windows
      BY <1>2 DEF DbOK, RowsOK
    <2> QED
      BY <1>2, <1>3, <2>1, <2>2, <2>3, <2>4 DEF TypeOK, Panes
  <1>6. CatalogAgrees
    <2>1. SUFFICES ASSUME up
                   PROVE  /\ {n \in DOMAIN db.panes : db.panes[n].key} \subseteq Panes
                          /\ \A n \in Panes : m.panes[n].kind = "live" =>
                                /\ n \in DOMAIN db.panes /\ db.panes[n].key
                                /\ db.panes[n].session = m.panes[n].logical /\ db.panes[n].window = m.panes[n].window
                                /\ db.windows[m.panes[n].window].session = m.panes[n].logical
                                /\ db.sessions[m.panes[n].logical] = m.panes[n].project
      BY DEF CatalogAgrees
    <2>2. Agrees(m, db)
      BY <2>1 DEF IInv
    <2>3. {n \in DOMAIN db.panes : db.panes[n].key} \subseteq Panes
      BY <2>2 DEF Agrees, Panes
    <2>4. ASSUME NEW n \in DOMAIN m.panes, m.panes[n].kind = "live"
          PROVE  /\ n \in DOMAIN db.panes /\ db.panes[n].key
                 /\ db.panes[n].session = m.panes[n].logical /\ db.panes[n].window = m.panes[n].window
                 /\ db.windows[m.panes[n].window].session = m.panes[n].logical
                 /\ db.sessions[m.panes[n].logical] = m.panes[n].project
      <3>1. n \in DOMAIN db.panes /\ db.panes[n].key
        BY <2>2, <2>4 DEF Agrees
      <3>2. db.panes[n].session = m.panes[n].logical /\ db.panes[n].window = m.panes[n].window
        BY <2>2, <3>1 DEF Agrees
      <3>3. /\ db.panes[n].session \in DOMAIN db.sessions
            /\ db.windows[db.panes[n].window].session = db.panes[n].session
        BY <1>2, <3>1 DEF DbOK, RowsOK
      <3>4. db.sessions[m.panes[n].logical] = m.panes[n].project
        BY <2>2, <3>2, <3>3 DEF Agrees
      <3> QED
        BY <3>1, <3>2, <3>3, <3>4
    <2> QED
      BY <2>3, <2>4 DEF Panes
  <1>7. IdsFresh
    <2>1. SUFFICES ASSUME up
                   PROVE  /\ \A n \in Panes \cup LogicalsOf(m) : n <= m.nextSession
                          /\ \A n \in DOMAIN db.panes : db.panes[n].key =>
                                 db.panes[n].window <= m.nextWindow /\ db.panes[n].session <= m.nextSession
      BY DEF IdsFresh
    <2>2. Agrees(m, db)
      BY <2>1 DEF IInv
    <2>3. \A n \in DOMAIN m.panes : m.panes[n].logical <= m.nextSession /\ m.panes[n].window <= m.nextWindow
                                    /\ n <= m.nextSession
      BY <1>3, <1>4 DEF PaneRecords
    <2> QED
      BY <2>2, <2>3 DEF Agrees, Panes, LogicalsOf
  <1> QED
    BY <1>5, <1>6, <1>7 DEF Consistent

\* operations.go's memory and the rows of persistence/store.go agree while the
\* daemon runs, whatever was committed when an earlier one ended.
THEOREM ConsistentAlways == Spec => []Consistent
  <1>1. IInv => Consistent
    BY InvariantConsistent
  <1> QED
    BY <1>1, Invariance, PTL

\* A project's selection exists, and its row has been written if the session
\* has a live pane, as long as the daemon has ended at most twice: a third end
\* may leave a row that names the session of another project.
THEOREM SelectionDurableAlways ==
    ASSUME MaxCrash <= 2
    PROVE  Spec => []SelectionDurable
  <1>1. IInv => SelectionDurable
    <2>1. SUFFICES ASSUME IInv PROVE SelectionDurable
      OBVIOUS
    <2>2. up => Exists(m) /\ Durable(m, db)
      BY <2>1 DEF IInv, Lasts
    <2> QED
      BY <2>2 DEF SelectionDurable, SelectionExists, Exists, Durable, Panes
  <1> QED
    BY <1>1, Invariance, PTL

\* removeWindowPlacement, and the normalizing and persisting that follow it in
\* destroy and destroyWindow: when a call closes the active window of a session
\* that survives it, the window selected next is the one that followed it, or
\* the last one if none did.  No other call takes the active window away.
THEOREM ClosingAlways == Spec => ClosingSelectsNeighbour
  <1>1. IInv /\ [Next]_vars => [NeighbourChosen]_vars
    BY NextStep
  <1>2. [NeighbourChosen]_vars =>
          [up /\ up' => \A l \in Surviving :
              Panes # Panes' =>
              LET t == Normal(m, l)
                  after == OrderOf(m', l)
                  next == {i \in DOMAIN t.order : t.order[i] \in ToSet(after)
                                                 /\ i > Position(t.order, t.active)}
              IN t.active \notin ToSet(after) =>
                    Normal(m', l).active = IF next = {} THEN Last(after) ELSE t.order[Min(next)]]_vars
    BY DEF NeighbourChosen, NeighbourIn
  <1> QED
    BY <1>1, <1>2, Invariance, PTL DEF Spec, ClosingSelectsNeighbour
=============================================================================
