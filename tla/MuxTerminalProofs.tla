------------------------- MODULE MuxTerminalProofs -------------------------
(***************************************************************************)
(* What is proved about MuxTerminal, for any number of terminals, panes,   *)
(* chunks, faults and calls, provided a rehydration does not overlap the   *)
(* reattach of a new epoch (~Overlap).                                     *)
(***************************************************************************)
EXTENDS MuxTerminal, WellFoundedInduction, TLAPS

-----------------------------------------------------------------------------
(* Types                                                                   *)

Sids  == {NoSid} \cup (Panes \X {"created", "recovered"})
Ops   == {"list", "topology", "create", "inventory", "attach", "history", "output", "resize",
          "destroy", "detach", "listclose", "stolen"}
Whys  == {"", "open", "again", "re", "crash", "polling", "quiet", "exit", "detached"}
Requests == [op : Ops, g : {0} \cup Gens, sid : Sids, why : Whys, n : Nat]
Terms == [at : {"none", "wait", "retry"}, kind : {"restore", "create", "run"}, sid : Sids,
          next : Nat \ {0}, recovered : BOOLEAN, waiting : BOOLEAN, stolen : BOOLEAN,
          finalizing : BOOLEAN, timer : BOOLEAN, again : BOOLEAN]

States == [st : {"none", "live", "exited", "recovered", "gone"}, out : 0..MaxOut,
           owner : {"nobody", "us", "other"}]

Typed ==
    /\ pane \in [Panes -> States]
    /\ link \in {"up", "closing", "down"}
    /\ wire \in Seq(Requests)
    /\ term \in [Gens -> Terms]
    /\ made \in 0..MaxGen /\ cur \in 0..made
    /\ detached \in Entries
    /\ retired \in BOOLEAN /\ killed \in BOOLEAN /\ closing \in 0..Stamp
    /\ screen \in [Gens -> Seq(Nat)]
    /\ exits \in [Gens -> Seq({"end", "daemon-crash"})]

-----------------------------------------------------------------------------
(* The requests of a wire, and those of them that are in order             *)

Elems(q) == {q[i] : i \in DOMAIN q}
Prec(q)  == {<<q[x[1]], q[x[2]]>> : x \in {y \in (DOMAIN q) \X (DOMAIN q) : y[1] < y[2]}}

Opens(r)   == r.op \in {"list", "topology", "create"}
Creates(r) == r.op \in {"topology", "create"}
Seeds(r)   == r.op \in {"inventory", "attach", "history"}
Kills(r)   == r.op = "destroy" /\ r.why \in {"polling", "quiet"}
ByKey(r)   == r.op = "listclose" \/ (r.op = "destroy" /\ r.why = "detached")
OfPane(r)  == \/ r.op \in {"attach", "history", "output", "resize", "detach"}
              \/ r.op = "destroy" /\ r.why # "detached"

-----------------------------------------------------------------------------
(* The inductive invariant                                                 *)

Known(ps, s) ==
    s # NoSid => /\ ps[s[1]].st # "none"
                 /\ s[2] = "recovered" => ps[s[1]].st \in {"recovered", "gone"}
Over(ps, s)  == s # NoSid /\ ps[s[1]].st \notin {"none", "live"}
Ended(ps, s) == s # NoSid /\ ps[s[1]].st \in {"exited", "gone"}
NonePresent(ps) == \A p \in Panes : ~Present(ps, p)
Refused(ps, r) == ps[r.sid[1]].st = "exited" \/ ~Found(ps, r.sid)

(* What a terminal knows of its pane *)
TermAt(g) ==
    /\ g > made => term[g] = Unborn /\ screen[g] = << >> /\ exits[g] = << >>
    /\ Known(pane, term[g].sid)
    /\ term[g].sid[2] = "recovered" => term[g].recovered
    /\ term[g].recovered => Over(pane, term[g].sid)
    /\ IF term[g].sid = NoSid THEN term[g].next = 1 ELSE term[g].next <= pane[term[g].sid[1]].out + 1
    /\ term[g].at = "wait" => term[g].sid = NoSid
    /\ term[g].finalizing \/ term[g].at = "retry" => Ended(pane, term[g].sid)
    /\ term[g].timer \/ term[g].again => term[g].sid # NoSid
    /\ exits[g] # << >> => Over(pane, term[g].sid)
TermOK == \A g \in Gens : TermAt(g)

DetachedOK ==
    /\ Known(pane, detached.sid)
    /\ detached # NoEntry => detached.sid # NoSid
    /\ detached.sid[2] = "recovered" => detached.recovered
    /\ detached.recovered => Over(pane, detached.sid)

(* What a request on the wire says *)
RequestOK(r) ==
    /\ Known(pane, r.sid) /\ r.g <= made
    /\ Opens(r) => r.g # 0 /\ term[r.g].sid = NoSid /\ term[r.g].at # "wait"
    /\ r.op = "topology" => r.g = cur
    /\ Creates(r) => NonePresent(pane)
    /\ r.op = "inventory" => r.g # 0 /\ term[r.g].sid # NoSid
    /\ OfPane(r) => /\ r.g # 0 /\ r.sid # NoSid /\ r.sid[1] = term[r.g].sid[1]
                    /\ r.sid[2] = "recovered" => term[r.g].sid[2] = "recovered"
    /\ r.op = "attach" => r.sid = term[r.g].sid /\ (r.why = "crash" => Over(pane, r.sid))
    /\ r.op = "history" => r.n = term[r.g].next
    /\ r.op = "output" => /\ r.n = term[r.g].next /\ ~term[r.g].recovered
                          /\ pane[r.sid[1]].st # "recovered"
    /\ r.op = "destroy" /\ r.why = "exit" => Ended(pane, r.sid)
    /\ Kills(r) \/ ByKey(r) => r.n \in 1..Stamp
    /\ ByKey(r) => r.g = 0 /\ (r.n = Stamp => cur = 0)
    /\ r.op = "stolen" => r.g = 0
WireOK == \A r \in Elems(wire) : RequestOK(r)

(* Requests that are never on the wire together, or not in this order *)
SameG(a, b) == a.g = b.g
PairOK(a, b) ==
    /\ ~(Opens(a) /\ Opens(b) /\ SameG(a, b))
    /\ ~(Creates(a) /\ Creates(b))
    /\ ~(Seeds(a) /\ Seeds(b) /\ SameG(a, b))
    /\ ~(a.op = "output" /\ b.op \in {"output", "history"} /\ SameG(a, b))
    /\ a.op = "attach" /\ b.op = "output" /\ SameG(a, b) => Refused(pane, a) /\ a.why # "open"
    /\ b.op = "attach" /\ a.op = "output" /\ SameG(a, b) => Refused(pane, b) /\ b.why # "open"
    /\ ~(b.op = "attach" /\ b.why = "open" /\ SameG(a, b))
    /\ b.op = "inventory" => a.op = "stolen"
    /\ ~(a.op = "inventory" /\ b.op = "output")
    /\ a.op = "list" /\ (Creates(b) \/ Kills(b)) => a.g # cur
    /\ a.op = "topology" /\ b.op = "list" => b.g # cur
    /\ ~(Kills(a) /\ b.op = "topology") /\ ~(a.op = "topology" /\ Kills(b))
    /\ ~(a.op = "listclose" /\ a.n = Stamp /\ b.op = "create")
OrderOK == \A a, b \in Elems(wire) : <<a, b>> \in Prec(wire) => PairOK(a, b)

Has(g, op) == \E r \in Elems(wire) : r.op = op /\ r.g = g
AttachOpens(g) == \E r \in Elems(wire) : r.op = "attach" /\ r.why = "open" /\ r.g = g

(* What a terminal waits for *)
PollAt(g) ==
    /\ term[g].timer => \A r \in Elems(wire) :
          /\ r.op # "inventory"
          /\ r.g = g => /\ r.op \notin {"output", "history"}
                        /\ r.op = "attach" => Refused(pane, r) /\ r.why # "open"
    /\ term[g].again => \A r \in Elems(wire) :
          r.g = g => r.op # "history" /\ ~(r.op = "attach" /\ r.why \in {"open", "again"})
    /\ term[g].finalizing => ~Has(g, "history")
PollOK == \A g \in Gens : PollAt(g)

(* A new request and what its terminal waits for *)
Fits(r, t) ==
    /\ r.op # "inventory" /\ (r.op = "create" => cur # 0)
    /\ r.op \in {"output", "attach", "history"} => r.g # 0 /\ ~t.timer
    /\ r.op \in {"attach", "history"} => ~t.again
    /\ r.op = "history" => ~t.finalizing

(* What a terminal shows *)
Continuous(s) == \A i \in 2..Len(s) : s[i] = s[i - 1] + 1
ScreenAt(g) ==
    /\ Continuous(screen[g])
    /\ Has(g, "history") \/ screen[g] = << >> \/ screen[g][Len(screen[g])] + 1 = term[g].next
    /\ cur = g /\ term[g].sid # NoSid /\ ~term[g].recovered
          => screen[g] # << >> \/ Has(g, "history") \/ AttachOpens(g)
    /\ cur = g /\ term[g].finalizing /\ pane[term[g].sid[1]].st = "exited"
          => screen[g] # << >> /\ screen[g][Len(screen[g])] = pane[term[g].sid[1]].out
    /\ cur = g /\ link # "down" /\ term[g].sid # NoSid /\ pane[term[g].sid[1]].st = "recovered"
          => term[g].recovered \/ Has(g, "inventory")
ScreenOK == \A g \in Gens : ScreenAt(g)

KeyOK ==
    /\ OneDaemonPane
    /\ killed => cur = 0 /\ \A r \in Elems(wire) : r.op # "create"
    /\ closing = Stamp => cur = 0
    /\ link = "down" => wire = << >>

IInv == Typed /\ TermOK /\ DetachedOK /\ WireOK /\ OrderOK /\ PollOK /\ ScreenOK /\ KeyOK

-----------------------------------------------------------------------------
(* Sequences                                                               *)

LEMMA ElemsFacts ==
    ASSUME NEW A, NEW q \in Seq(A)
    PROVE  /\ Elems(q) \subseteq A
           /\ \A a, b : <<a, b>> \in Prec(q) => a \in Elems(q) /\ b \in Elems(q)
           /\ q = << >> => Elems(q) = {} /\ Prec(q) = {}
  <1>1. \A a, b : <<a, b>> \in Prec(q) => a \in Elems(q) /\ b \in Elems(q)
    BY DEF Elems, Prec
  <1> QED
    BY <1>1 DEF Elems, Prec

LEMMA PrecIntro ==
    ASSUME NEW q, NEW i \in DOMAIN q, NEW j \in DOMAIN q, i < j
    PROVE  <<q[i], q[j]>> \in Prec(q)
  <1>1. <<i, j>> \in {y \in (DOMAIN q) \X (DOMAIN q) : y[1] < y[2]}
    OBVIOUS
  <1> QED
    BY <1>1 DEF Prec

LEMMA TailFacts ==
    ASSUME NEW A, NEW q \in Seq(A), q # << >>
    PROVE  /\ Tail(q) \in Seq(A) /\ Head(q) \in Elems(q)
           /\ Elems(Tail(q)) \subseteq Elems(q) /\ Prec(Tail(q)) \subseteq Prec(q)
           /\ \A x \in Elems(Tail(q)) : <<Head(q), x>> \in Prec(q)
           /\ \A x \in Elems(q) : x = Head(q) \/ x \in Elems(Tail(q))
  <1> DEFINE t == Tail(q)
  <1>1. /\ t \in Seq(A) /\ Len(t) = Len(q) - 1 /\ Len(q) \in Nat \ {0}
        /\ \A i \in 1..Len(t) : t[i] = q[i + 1]
    OBVIOUS
  <1>2. Head(q) = q[1] /\ 1 \in DOMAIN q
    OBVIOUS
  <1>3. Elems(t) \subseteq Elems(q)
    BY <1>1 DEF Elems
  <1>4. ASSUME NEW e \in Prec(t) PROVE e \in Prec(q)
    <2>1. PICK i \in DOMAIN t, j \in DOMAIN t : i < j /\ e = <<t[i], t[j]>>
      BY DEF Prec
    <2>2. i + 1 \in DOMAIN q /\ j + 1 \in DOMAIN q /\ i + 1 < j + 1 /\ e = <<q[i + 1], q[j + 1]>>
      BY <2>1, <1>1
    <2> QED
      BY <2>2, PrecIntro
  <1>5. ASSUME NEW x \in Elems(t) PROVE <<Head(q), x>> \in Prec(q)
    <2>1. PICK i \in DOMAIN t : x = t[i]
      BY DEF Elems
    <2>2. i + 1 \in DOMAIN q /\ 1 < i + 1 /\ x = q[i + 1]
      BY <2>1, <1>1
    <2> QED
      BY <2>2, <1>2, PrecIntro
  <1>6. ASSUME NEW x \in Elems(q), x # Head(q) PROVE x \in Elems(t)
    <2>1. PICK i \in DOMAIN q : x = q[i]
      BY DEF Elems
    <2>2. i # 1 /\ i - 1 \in DOMAIN t /\ t[i - 1] = x
      BY <2>1, <1>1, <1>2, <1>6
    <2> QED
      BY <2>2 DEF Elems
  <1> QED
    BY <1>1, <1>2, <1>3, <1>4, <1>5, <1>6 DEF Elems

LEMMA AppendFacts ==
    ASSUME NEW A, NEW q \in Seq(A), NEW r \in A
    PROVE  /\ Append(q, r) \in Seq(A)
           /\ Elems(Append(q, r)) = Elems(q) \cup {r}
           /\ \A a, b : <<a, b>> \in Prec(Append(q, r)) =>
                 <<a, b>> \in Prec(q) \/ (a \in Elems(q) /\ b = r)
  <1> DEFINE t == Append(q, r)
  <1>1. /\ t \in Seq(A) /\ Len(t) = Len(q) + 1 /\ Len(q) \in Nat
        /\ \A i \in 1..Len(q) : t[i] = q[i]
        /\ t[Len(q) + 1] = r
    OBVIOUS
  <1>2. Elems(t) = Elems(q) \cup {r}
    <2>1. DOMAIN t = DOMAIN q \cup {Len(q) + 1} /\ DOMAIN q = 1..Len(q)
      BY <1>1
    <2> QED
      BY <1>1, <2>1 DEF Elems
  <1>3. ASSUME NEW a, NEW b, <<a, b>> \in Prec(t) PROVE <<a, b>> \in Prec(q) \/ (a \in Elems(q) /\ b = r)
    <2>1. PICK i \in DOMAIN t, j \in DOMAIN t : i < j /\ a = t[i] /\ b = t[j]
      BY <1>3 DEF Prec
    <2>2. i \in DOMAIN q /\ a = q[i]
      BY <2>1, <1>1
    <2>3. CASE j = Len(q) + 1
      BY <2>2, <2>3, <2>1, <1>1 DEF Elems
    <2>4. CASE j # Len(q) + 1
      <3>1. j \in DOMAIN q /\ b = q[j]
        BY <2>1, <2>4, <1>1
      <3> QED
        BY <3>1, <2>2, <2>1, PrecIntro
    <2> QED
      BY <2>3, <2>4
  <1> QED
    BY <1>1, <1>2, <1>3

LEMMA ConsFacts ==
    ASSUME NEW A, NEW q \in Seq(A), NEW r \in A
    PROVE  /\ <<r>> \o q \in Seq(A)
           /\ Elems(<<r>> \o q) = Elems(q) \cup {r}
           /\ \A a, b : <<a, b>> \in Prec(<<r>> \o q) =>
                 <<a, b>> \in Prec(q) \/ (a = r /\ b \in Elems(q))
  <1> DEFINE t == <<r>> \o q
  <1>1. /\ t \in Seq(A) /\ Len(t) = Len(q) + 1 /\ Len(q) \in Nat
        /\ \A i \in 1..Len(q) : t[i + 1] = q[i]
        /\ t[1] = r
    OBVIOUS
  <1>a. \A i \in DOMAIN t : i = 1 \/ (i - 1 \in DOMAIN q /\ t[i] = q[i - 1])
    <2> SUFFICES ASSUME NEW i \in DOMAIN t, i # 1 PROVE i - 1 \in DOMAIN q /\ t[i] = q[i - 1]
      OBVIOUS
    <2>1. i - 1 \in 1..Len(q) /\ i = (i - 1) + 1
      BY <1>1
    <2> QED
      BY <2>1, <1>1
  <1>2. Elems(t) = Elems(q) \cup {r}
    <2>1. Elems(t) \subseteq Elems(q) \cup {r}
      BY <1>1, <1>a DEF Elems
    <2>2. r \in Elems(t)
      BY <1>1 DEF Elems
    <2>3. ASSUME NEW x \in Elems(q) PROVE x \in Elems(t)
      <3>1. PICK i \in DOMAIN q : x = q[i]
        BY DEF Elems
      <3>2. i + 1 \in DOMAIN t /\ t[i + 1] = x
        BY <3>1, <1>1
      <3> QED
        BY <3>2 DEF Elems
    <2> QED
      BY <2>1, <2>2, <2>3
  <1>3. ASSUME NEW a, NEW b, <<a, b>> \in Prec(t) PROVE <<a, b>> \in Prec(q) \/ (a = r /\ b \in Elems(q))
    <2>1. PICK i \in DOMAIN t, j \in DOMAIN t : i < j /\ a = t[i] /\ b = t[j]
      BY <1>3 DEF Prec
    <2>2. j # 1 /\ j - 1 \in DOMAIN q /\ b = q[j - 1]
      BY <2>1, <1>1, <1>a
    <2>3. CASE i = 1
      BY <2>2, <2>3, <2>1, <1>1 DEF Elems
    <2>4. CASE i # 1
      <3>1. i - 1 \in DOMAIN q /\ a = q[i - 1] /\ i - 1 < j - 1
        BY <2>1, <2>4, <1>a, <1>1
      <3> QED
        BY <3>1, <2>2, PrecIntro
    <2> QED
      BY <2>3, <2>4
  <1> QED
    BY <1>1, <1>2, <1>3

LEMMA RemoveFacts ==
    ASSUME NEW A, NEW q \in Seq(A), NEW k \in DOMAIN q
    PROVE  /\ RemoveAt(q, k) \in Seq(A)
           /\ \A i \in DOMAIN RemoveAt(q, k) : \E j \in DOMAIN q \ {k} : RemoveAt(q, k)[i] = q[j]
           /\ Elems(RemoveAt(q, k)) \subseteq Elems(q)
           /\ Prec(RemoveAt(q, k)) \subseteq Prec(q)
           /\ \A r \in Elems(q) : r = q[k] \/ r \in Elems(RemoveAt(q, k))
  <1> DEFINE t == RemoveAt(q, k)
             f(i) == IF i < k THEN i ELSE i + 1
             u == SubSeq(q, 1, k - 1)  v == SubSeq(q, k + 1, Len(q))
  <1>1. /\ u \in Seq(A) /\ Len(u) = k - 1 /\ \A i \in 1..(k - 1) : u[i] = q[i]
        /\ Len(q) \in Nat /\ k \in 1..Len(q) /\ DOMAIN q = 1..Len(q)
    OBVIOUS
  <1>2. /\ v \in Seq(A) /\ Len(v) = Len(q) - k /\ \A i \in 1..(Len(q) - k) : v[i] = q[k + i]
    OBVIOUS
  <1>3. t = u \o v
    BY DEF RemoveAt
  <1> HIDE DEF u, v, t
  <1>4. /\ t \in Seq(A) /\ Len(t) = Len(u) + Len(v)
        /\ \A i \in 1..Len(u) : t[i] = u[i]
        /\ \A i \in 1..Len(t) : i > Len(u) => t[i] = v[i - Len(u)]
    BY <1>1, <1>2, <1>3
  <1>a. /\ DOMAIN t = 1..(Len(q) - 1)
        /\ \A i \in 1..(k - 1) : t[i] = q[i]
        /\ \A i \in 1..(Len(q) - 1) : i > k - 1 => t[i] = v[i - (k - 1)]
    BY <1>1, <1>2, <1>4
  <1>5. \A i \in DOMAIN t : f(i) \in DOMAIN q \ {k} /\ t[i] = q[f(i)]
    <2> SUFFICES ASSUME NEW i \in DOMAIN t PROVE f(i) \in DOMAIN q \ {k} /\ t[i] = q[f(i)]
      OBVIOUS
    <2>1. CASE i < k
      BY <2>1, <1>1, <1>a
    <2>2. CASE i >= k
      <3>a. i \in 1..(Len(q) - 1) /\ i > k - 1 /\ ~(i < k)
        BY <2>2, <1>1, <1>a
      <3>b. t[i] = v[i - (k - 1)]
        BY <3>a, <1>a
      <3>1. i - (k - 1) \in 1..(Len(q) - k) /\ t[i] = v[i - (k - 1)] /\ f(i) = i + 1
        BY <3>a, <3>b, <1>1
      <3>2. k + (i - (k - 1)) = i + 1 /\ i + 1 \in DOMAIN q \ {k}
        BY <2>2, <3>1, <1>1, <1>a
      <3> QED
        BY <3>1, <3>2, <1>2
    <2> QED
      BY <2>1, <2>2, <1>1, <1>a
  <1>6. \A i, j \in DOMAIN t : i < j => f(i) < f(j)
    BY <1>1, <1>a
  <1> HIDE DEF f
  <1>7. Elems(t) \subseteq Elems(q)
    BY <1>5 DEF Elems
  <1>8. ASSUME NEW e \in Prec(t) PROVE e \in Prec(q)
    <2>1. PICK i \in DOMAIN t, j \in DOMAIN t : i < j /\ e = <<t[i], t[j]>>
      BY DEF Prec
    <2>2. f(i) \in DOMAIN q /\ f(j) \in DOMAIN q /\ f(i) < f(j) /\ e = <<q[f(i)], q[f(j)]>>
      BY <2>1, <1>5, <1>6
    <2> QED
      BY <2>2, PrecIntro
  <1>9. ASSUME NEW r \in Elems(q), r # q[k] PROVE r \in Elems(t)
    <2>1. PICK j \in DOMAIN q : r = q[j]
      BY DEF Elems
    <2>2. CASE j < k
      <3>a. j \in 1..(k - 1) /\ j \in 1..(Len(q) - 1)
        BY <2>1, <2>2, <1>1
      <3>1. j \in DOMAIN t /\ t[j] = r
        BY <3>a, <2>1, <1>a
      <3> QED
        BY <3>1 DEF Elems
    <2>3. CASE j > k
      <3>1. j - 1 \in 1..(Len(q) - 1) /\ j - 1 > k - 1 /\ j - 1 - (k - 1) = j - k /\ j - k \in 1..(Len(q) - k)
        BY <2>1, <2>3, <1>1
      <3>2. t[j - 1] = v[j - k]
        BY <3>1, <1>a
      <3>3. v[j - k] = q[k + (j - k)] /\ k + (j - k) = j
        <4>1. k + (j - k) = j
          BY <2>1, <1>1
        <4>2. \A i \in 1..(Len(q) - k) : v[i] = q[k + i]
          BY <1>2
        <4>3. v[j - k] = q[k + (j - k)]
          BY <3>1, <4>2
        <4> QED
          BY <4>1, <4>3
      <3> QED
        BY <3>1, <3>2, <3>3, <2>1, <1>a DEF Elems
    <2> QED
      BY <2>1, <2>2, <2>3, <1>9, <1>1
  <1> QED
    BY <1>4, <1>5, <1>7, <1>8, <1>9 DEF t

OnePoll(q) == \A a, b \in Elems(q) : <<a, b>> \in Prec(q) => ~(a.op = "output" /\ b.op = "output" /\ SameG(a, b))

(* stopPolling leaves no poll of its terminal *)
LEMMA NoPollsFacts ==
    ASSUME NEW q \in Seq(Requests), NEW g
    PROVE  /\ NoPolls(q, g) \in Seq(Requests)
           /\ Elems(NoPolls(q, g)) \subseteq Elems(q) /\ Prec(NoPolls(q, g)) \subseteq Prec(q)
           /\ OnePoll(q) => \A r \in Elems(NoPolls(q, g)) : ~(r.op = "output" /\ r.g = g)
           /\ \A r \in Elems(q) : (r.op = "output" /\ r.g = g) \/ r \in Elems(NoPolls(q, g))
  <1>1. CASE PollsOf(q, g) = {}
    <2>1. NoPolls(q, g) = q
      BY <1>1 DEF NoPolls
    <2> QED
      BY <1>1, <2>1 DEF PollsOf, Elems
  <1>2. CASE PollsOf(q, g) # {}
    <2> DEFINE k == CHOOSE i \in PollsOf(q, g) : TRUE
    <2>1. k \in PollsOf(q, g)
      BY <1>2
    <2>2. k \in DOMAIN q /\ q[k].op = "output" /\ q[k].g = g
      BY <2>1 DEF PollsOf
    <2>3. NoPolls(q, g) = RemoveAt(q, k)
      BY <1>2 DEF NoPolls
    <2> HIDE DEF k
    <2>4. ASSUME OnePoll(q), NEW r \in Elems(NoPolls(q, g)), r.op = "output", r.g = g PROVE FALSE
      <3>1. PICK j \in DOMAIN q \ {k} : r = q[j]
        BY <2>2, <2>3, <2>4, RemoveFacts DEF Elems
      <3>2. <<q[k], q[j]>> \in Prec(q) \/ <<q[j], q[k]>> \in Prec(q)
        <4>1. k \in Nat /\ j \in Nat /\ (k < j \/ j < k)
          BY <2>2, <3>1
        <4> QED
          BY <4>1, <2>2, <3>1, PrecIntro
      <3>3. q[k] \in Elems(q) /\ q[j] \in Elems(q)
        BY <2>2, <3>1 DEF Elems
      <3> QED
        BY <3>1, <3>2, <3>3, <2>2, <2>4 DEF OnePoll, SameG
    <2> QED
      BY <2>2, <2>3, <2>4, RemoveFacts
  <1> QED
    BY <1>1, <1>2

-----------------------------------------------------------------------------
(* Induction over the natural numbers up to a bound, in terms of a set.    *)

LEMMA SetInduction ==
    ASSUME NEW S, NEW N \in Nat, 0 \in S, \A n \in 0..(N - 1) : n \in S => n + 1 \in S
    PROVE  \A n \in 0..N : n \in S
  <1> DEFINE T == {n \in 0..N : n \notin S}
             R == OpToRel(<, Nat)
  <1> SUFFICES ASSUME T # {} PROVE FALSE
    OBVIOUS
  <1>1. IsWellFoundedOn(R, Nat)
    BY NatLessThanWellFounded
  <1>2. T \subseteq Nat
    OBVIOUS
  <1>3. \E x \in T : \A y \in T : <<y, x>> \notin R
    <2> HIDE DEF T, R
    <2> QED
      BY <1>1, <1>2, WFMin
  <1>4. PICK x \in T : \A y \in T : <<y, x>> \notin R
    BY <1>3
  <1>5. x # 0 /\ x \in 1..N
    OBVIOUS
  <1>6. x - 1 \in T
    BY <1>5
  <1>7. <<x - 1, x>> \in R
    BY <1>5 DEF OpToRel
  <1> QED
    BY <1>4, <1>6, <1>7

(* What the daemon has carried out is defined for every prefix of the wire *)
LEMMA AfterDef ==
    ASSUME wire \in Seq(Requests)
    PROVE  After = [k \in 0..Len(wire) |-> IF k = 0 THEN pane ELSE Carried(After[k - 1], wire[k])]
  <1> DEFINE F(f, n) == [k \in 0..n |-> IF k = 0 THEN pane ELSE Carried(f[k - 1], wire[k])]
             S == {n \in 0..Len(wire) : \E f : f = F(f, n)}
  <1>1. Len(wire) \in Nat
    OBVIOUS
  <1>2. 0 \in S
    <2> DEFINE g == [k \in 0..0 |-> pane]
    <2>1. g = F(g, 0)
      OBVIOUS
    <2>2. 0 \in 0..Len(wire)
      BY <1>1
    <2> HIDE DEF g, F
    <2> QED
      BY <2>1, <2>2
  <1>3. ASSUME NEW n \in 0..(Len(wire) - 1), n \in S PROVE n + 1 \in S
    <2>1. PICK f : f = F(f, n)
      BY <1>3
    <2> DEFINE g == [k \in 0..(n + 1) |-> IF k <= n THEN f[k] ELSE Carried(f[n], wire[n + 1])]
    <2>2. \A k \in 0..n : g[k] = f[k]
      BY <1>1
    <2>3. g[n + 1] = Carried(f[n], wire[n + 1])
      BY <1>1
    <2>4. ASSUME NEW k \in 0..(n + 1)
          PROVE  g[k] = IF k = 0 THEN pane ELSE Carried(g[k - 1], wire[k])
      <3> HIDE DEF g
      <3>1. CASE k = n + 1
        <4>1. k - 1 = n /\ k # 0 /\ n \in 0..n
          BY <3>1, <1>1
        <4> QED
          BY <4>1, <3>1, <2>2, <2>3
      <3>2. CASE k # n + 1
        <4>1. k \in 0..n /\ (k # 0 => k - 1 \in 0..n)
          BY <3>2, <1>1
        <4>2. f[k] = IF k = 0 THEN pane ELSE Carried(f[k - 1], wire[k])
          BY <4>1, <2>1
        <4> QED
          BY <4>1, <4>2, <2>2
      <3> QED
        BY <3>1, <3>2
    <2>5. g = F(g, n + 1)
      <3> QED
        BY <2>4
    <2>6. n + 1 \in 0..Len(wire)
      BY <1>1
    <2> HIDE DEF g, F
    <2> QED
      BY <2>5, <2>6
  <1>4. Len(wire) \in S
    <2> HIDE DEF S
    <2>1. \A n \in 0..(Len(wire) - 1) : n \in S => n + 1 \in S
      BY <1>3
    <2>2. \A n \in 0..Len(wire) : n \in S
      BY <1>1, <1>2, <2>1, SetInduction
    <2> QED
      BY <1>1, <2>2
  <1>5. \E f : f = F(f, Len(wire))
    BY <1>4
  <1> QED
    BY <1>5 DEF After

-----------------------------------------------------------------------------
(* Steps                                                                   *)

(* How a step may change the panes *)
Succ(a, b) == \/ a = b
              \/ a = "none" /\ b \in {"live", "recovered"}
              \/ a = "live" /\ b \in {"exited", "recovered", "gone"}
              \/ a \in {"exited", "recovered"} /\ b = "gone"
PaneStep ==
    \A p \in Panes : /\ Succ(pane[p].st, pane'[p].st)
                     /\ pane[p].st # "none" => pane'[p].out >= pane[p].out
                     /\ pane[p].st \notin {"none", "live"} => pane'[p].out = pane[p].out
NoRecovery == \A p \in Panes : pane'[p].st = "recovered" => pane[p].st = "recovered"
NoCreation == \A p \in Panes : Present(pane', p) => Present(pane, p)

(* How a step may change the terminal of the key *)
CurStep ==
    /\ made' \in {made, made + 1}
    /\ cur' \in {cur, 0} \/ (cur' = made + 1 /\ made' = made + 1)

Keeps(g) ==
    /\ term'[g].sid = term[g].sid /\ term'[g].next = term[g].next
    /\ term'[g].recovered = term[g].recovered

(* What a request needs of its terminal stays *)
KeepsFor(r) ==
    /\ term'[r.g].sid = term[r.g].sid
    /\ r.op \in {"history", "output"} => Keeps(r.g)
    /\ term[r.g].at # "wait" => term'[r.g].at # "wait"

LEMMA BoundsNat == {MaxGen, MaxPane, MaxOut, MaxCall} \subseteq Nat \ {0} /\ MaxFault \in Nat
  BY BoundsAssumption

LEMMA KeyTypes == Typed => made \in Nat /\ cur \in Nat /\ cur <= made /\ Stamp \in Nat /\ closing \in Nat
  BY BoundsNat DEF Typed, Stamp

LEMMA StampStep ==
    ASSUME Typed, CurStep
    PROVE  /\ made' \in Nat /\ made' >= made /\ Stamp' \in Nat
           /\ Stamp' = Stamp \/ Stamp' = Stamp + 1
           /\ Stamp' = Stamp => made' = made /\ cur' \in {cur, 0}
  <1>1. made \in Nat /\ (made' = made \/ made' = made + 1)
    BY KeyTypes DEF CurStep
  <1>2. Stamp = made + 1 /\ Stamp' = made' + 1
    BY DEF Stamp
  <1>3. Stamp' = Stamp => made' = made
    BY <1>1, <1>2
  <1>4. made' = made => cur' \in {cur, 0}
    BY <1>1 DEF CurStep
  <1> QED
    BY <1>1, <1>2, <1>3, <1>4

LEMMA SidFacts == \A s \in Sids : s # NoSid => s[1] \in Panes /\ s[2] \in {"created", "recovered"}
  BY DEF Sids, NoSid

LEMMA KnownSteps ==
    ASSUME Typed, PaneStep, NEW s \in Sids
    PROVE  /\ Known(pane, s) => Known(pane', s)
           /\ Over(pane, s) => Over(pane', s)
           /\ Ended(pane, s) => Ended(pane', s)
  <1>1. CASE s = NoSid
    BY <1>1 DEF Known, Over, Ended
  <1>2. CASE s # NoSid
    <2>1. s[1] \in Panes
      BY <1>2, SidFacts
    <2>2. Succ(pane[s[1]].st, pane'[s[1]].st)
      BY <2>1 DEF PaneStep
    <2> QED
      BY <2>2 DEF Known, Over, Ended, Succ
  <1> QED
    BY <1>1, <1>2

LEMMA RefusedSteps ==
    ASSUME Typed, PaneStep, NEW r \in Requests, Known(pane, r.sid), r.sid # NoSid, Refused(pane, r)
    PROVE  Refused(pane', r)
  <1>1. r.sid[1] \in Panes /\ r.sid = <<r.sid[1], r.sid[2]>> /\ r.sid[2] \in {"created", "recovered"}
    BY SidFacts DEF Requests, Sids, NoSid
  <1>2. Succ(pane[r.sid[1]].st, pane'[r.sid[1]].st)
    BY <1>1 DEF PaneStep
  <1> QED
    BY <1>1, <1>2 DEF Refused, Found, Present, SidOf, Succ, Known

(* A request stays what it was *)
LEMMA OldRequest ==
    ASSUME Typed, WireOK, PaneStep, NoRecovery, CurStep,
           NEW r \in Elems(wire),
           r.g # 0 => KeepsFor(r),
           r.op = "topology" => cur' = cur,
           Creates(r) => NonePresent(pane')
    PROVE  RequestOK(r)'
  <1>1. r \in Requests /\ RequestOK(r)
    BY ElemsFacts DEF WireOK, Typed
  <1>2. r.sid \in Sids /\ r.g \in {0} \cup Gens /\ r.n \in Nat
    BY <1>1 DEF Requests
  <1>3. /\ Known(pane, r.sid) => Known(pane', r.sid)
        /\ Over(pane, r.sid) => Over(pane', r.sid)
        /\ Ended(pane, r.sid) => Ended(pane', r.sid)
    BY <1>2, KnownSteps
  <1>4. /\ Stamp \in Nat /\ made \in Nat /\ made' \in Nat /\ made' >= made /\ Stamp' \in Nat
        /\ Stamp' = Stamp \/ Stamp' = Stamp + 1
        /\ Stamp' = Stamp => made' = made /\ cur' \in {cur, 0}
    BY StampStep, KeyTypes
  <1>a. r.g \in Nat
    BY <1>2 DEF Gens
  <1>5. Known(pane', r.sid) /\ r.g <= made'
    BY <1>1, <1>3, <1>4, <1>a DEF RequestOK
  <1>6. Opens(r) => r.g # 0 /\ term'[r.g].sid = NoSid /\ term'[r.g].at # "wait"
    BY <1>1 DEF RequestOK, KeepsFor, Keeps
  <1>7. r.op = "topology" => r.g = cur'
    BY <1>1 DEF RequestOK
  <1>8. r.op = "inventory" => r.g # 0 /\ term'[r.g].sid # NoSid
    BY <1>1 DEF RequestOK, KeepsFor, Keeps
  <1>9. OfPane(r) => /\ r.g # 0 /\ r.sid # NoSid /\ r.sid[1] = term'[r.g].sid[1]
                     /\ r.sid[2] = "recovered" => term'[r.g].sid[2] = "recovered"
    BY <1>1 DEF RequestOK, KeepsFor, Keeps
  <1>10. r.op = "attach" => r.sid = term'[r.g].sid /\ (r.why = "crash" => Over(pane', r.sid))
    BY <1>1, <1>3 DEF RequestOK, KeepsFor, Keeps, OfPane
  <1>11. r.op = "history" => r.n = term'[r.g].next
    BY <1>1 DEF RequestOK, KeepsFor, Keeps, OfPane
  <1>12. r.op = "output" => /\ r.n = term'[r.g].next /\ ~term'[r.g].recovered
                            /\ pane'[r.sid[1]].st # "recovered"
    BY <1>1, <1>2, SidFacts DEF RequestOK, KeepsFor, Keeps, OfPane, NoRecovery
  <1>13. r.op = "destroy" /\ r.why = "exit" => Ended(pane', r.sid)
    BY <1>1, <1>3 DEF RequestOK
  <1>14. Kills(r) \/ ByKey(r) => r.n \in 1..Stamp'
    BY <1>1, <1>4 DEF RequestOK
  <1>15. ByKey(r) => r.g = 0 /\ (r.n = Stamp' => cur' = 0)
    <2> SUFFICES ASSUME ByKey(r), r.n = Stamp' PROVE cur' = 0
      BY <1>1 DEF RequestOK
    <2>1. r.n <= Stamp
      BY <1>1, <1>2, <1>4 DEF RequestOK
    <2>2. Stamp' = Stamp
      BY <2>1, <1>4
    <2> QED
      BY <2>2, <1>1, <1>4 DEF RequestOK
  <1>16. r.op = "stolen" => r.g = 0
    BY <1>1 DEF RequestOK
  <1>17. Creates(r) => NonePresent(pane')
    OBVIOUS
  <1> QED
    BY <1>5, <1>6, <1>7, <1>8, <1>9, <1>10, <1>11, <1>12, <1>13, <1>14, <1>15, <1>16, <1>17 DEF RequestOK

(* Two requests stay compatible *)
LEMMA OldPair ==
    ASSUME Typed, WireOK, PaneStep, CurStep,
           NEW a \in Elems(wire), NEW b \in Elems(wire), PairOK(a, b)
    PROVE  PairOK(a, b)'
  <1>1. a \in Requests /\ RequestOK(a) /\ b \in Requests /\ RequestOK(b)
    BY ElemsFacts DEF WireOK, Typed
  <1>2. a.g \in {0} \cup Gens /\ a.n \in Nat /\ b.g \in {0} \cup Gens
    BY <1>1 DEF Requests
  <1>3. made \in Nat /\ cur \in Nat /\ cur <= made
    BY KeyTypes
  <1>4. a.op = "attach" /\ Refused(pane, a) => Refused(pane', a)
    BY <1>1, RefusedSteps DEF RequestOK, OfPane
  <1>5. b.op = "attach" /\ Refused(pane, b) => Refused(pane', b)
    BY <1>1, RefusedSteps DEF RequestOK, OfPane
  <1>6. a.op = "list" /\ a.g # cur => a.g # cur'
    <2>1. a.op = "list" => a.g # 0 /\ a.g <= made
      BY <1>1 DEF RequestOK, Opens
    <2> QED
      BY <2>1, <1>2, <1>3 DEF CurStep, Gens
  <1>7. b.op = "list" /\ b.g # cur => b.g # cur'
    <2>1. b.op = "list" => b.g # 0 /\ b.g <= made
      BY <1>1 DEF RequestOK, Opens
    <2> QED
      BY <2>1, <1>2, <1>3 DEF CurStep, Gens
  <1>8. a.op = "listclose" /\ a.n = Stamp' => a.n = Stamp
    <2>1. a.op = "listclose" => a.n \in 1..Stamp
      BY <1>1 DEF RequestOK, ByKey
    <2>2. Stamp' \in Nat /\ Stamp \in Nat /\ (Stamp' = Stamp \/ Stamp' = Stamp + 1)
      BY StampStep, KeyTypes
    <2> QED
      BY <2>1, <2>2, <1>2
  <1> QED
    BY <1>4, <1>5, <1>6, <1>7, <1>8 DEF PairOK, SameG, Opens, Creates, Seeds, Kills

(* What becomes of the wire: some of its requests remain, and one may be new *)
Remain(q) == q \in Seq(Requests) /\ Elems(q) \subseteq Elems(wire) /\ Prec(q) \subseteq Prec(wire)

LEMMA WireSteps ==
    ASSUME Typed, OrderOK, PaneStep, CurStep, WireOK,
           NEW q, Remain(q), \A a \in Elems(q) : RequestOK(a)'
    PROVE  /\ wire' = q => wire' \in Seq(Requests) /\ WireOK' /\ OrderOK' /\ Elems(wire') = Elems(q)
           /\ \A r \in Requests :
                 /\ wire' = Append(q, r)
                 /\ RequestOK(r)'
                 /\ \A a \in Elems(q) : PairOK(a, r)'
                 => /\ wire' \in Seq(Requests) /\ WireOK' /\ OrderOK'
                    /\ Elems(wire') = Elems(q) \cup {r}
  <1>1. \A a, b \in Elems(q) : <<a, b>> \in Prec(q) => PairOK(a, b)'
    BY OldPair DEF Remain, OrderOK
  <1>2. ASSUME wire' = q
        PROVE  wire' \in Seq(Requests) /\ WireOK' /\ OrderOK'
    BY <1>1, <1>2 DEF Remain, WireOK, OrderOK
  <1>3. ASSUME NEW r \in Requests, wire' = Append(q, r), RequestOK(r)', \A a \in Elems(q) : PairOK(a, r)'
        PROVE  wire' \in Seq(Requests) /\ WireOK' /\ OrderOK' /\ Elems(wire') = Elems(q) \cup {r}
    <2>1. /\ wire' \in Seq(Requests) /\ Elems(wire') = Elems(q) \cup {r}
          /\ \A a, b : <<a, b>> \in Prec(wire') => <<a, b>> \in Prec(q) \/ (a \in Elems(q) /\ b = r)
      BY <1>3, AppendFacts DEF Remain
    <2>2. WireOK'
      BY <1>3, <2>1 DEF WireOK
    <2>3. \A a, b : <<a, b>> \in Prec(q) => a \in Elems(q) /\ b \in Elems(q)
      BY ElemsFacts DEF Remain
    <2>4. OrderOK'
      BY <1>1, <1>3, <2>1, <2>3 DEF OrderOK
    <2> QED
      BY <2>1, <2>2, <2>4
  <1> QED
    BY <1>2, <1>3

LEMMA WirePolls == OrderOK => OnePoll(wire)
  BY DEF OrderOK, OnePoll, PairOK, SameG

LEMMA RemainWire ==
    ASSUME Typed, OrderOK, NEW g
    PROVE  /\ Remain(wire) /\ Remain(NoPolls(wire, g))
           /\ \A r \in Elems(wire) : (r.op = "output" /\ r.g = g) \/ r \in Elems(NoPolls(wire, g))
           /\ \A r \in Elems(NoPolls(wire, g)) : ~(r.op = "output" /\ r.g = g)
  <1>1. wire \in Seq(Requests)
    BY DEF Typed
  <1> QED
    BY <1>1, WirePolls, NoPollsFacts DEF Remain

LEMMA RemainRest ==
    ASSUME Typed, OrderOK, wire # << >>, NEW g
    PROVE  /\ Head(wire) \in Elems(wire) /\ Head(wire) \in Requests
           /\ Remain(Rest) /\ Remain(NoPolls(Rest, g))
           /\ \A r \in Elems(Rest) : <<Head(wire), r>> \in Prec(wire) /\ PairOK(Head(wire), r)
           /\ \A r \in Elems(wire) : r = Head(wire) \/ r \in Elems(Rest)
           /\ \A r \in Elems(Rest) : (r.op = "output" /\ r.g = g) \/ r \in Elems(NoPolls(Rest, g))
           /\ \A r \in Elems(NoPolls(Rest, g)) : r \in Elems(Rest) /\ ~(r.op = "output" /\ r.g = g)
  <1>1. wire \in Seq(Requests)
    BY DEF Typed
  <1>2. /\ Rest \in Seq(Requests) /\ Head(wire) \in Elems(wire)
        /\ Elems(Rest) \subseteq Elems(wire) /\ Prec(Rest) \subseteq Prec(wire)
        /\ \A x \in Elems(Rest) : <<Head(wire), x>> \in Prec(wire)
        /\ \A x \in Elems(wire) : x = Head(wire) \/ x \in Elems(Rest)
    BY <1>1, TailFacts DEF Rest
  <1>3. OnePoll(Rest)
    BY <1>2, WirePolls DEF OnePoll
  <1>4. /\ NoPolls(Rest, g) \in Seq(Requests)
        /\ Elems(NoPolls(Rest, g)) \subseteq Elems(Rest) /\ Prec(NoPolls(Rest, g)) \subseteq Prec(Rest)
        /\ \A r \in Elems(NoPolls(Rest, g)) : ~(r.op = "output" /\ r.g = g)
        /\ \A r \in Elems(Rest) : (r.op = "output" /\ r.g = g) \/ r \in Elems(NoPolls(Rest, g))
    BY <1>2, <1>3, NoPollsFacts
  <1>5. Head(wire) \in Requests
    BY <1>1, <1>2, ElemsFacts
  <1>6. \A r \in Elems(Rest) : PairOK(Head(wire), r)
    BY <1>2 DEF OrderOK
  <1> QED
    BY <1>2, <1>4, <1>5, <1>6 DEF Remain

(* A terminal that keeps its pane and its place in the stream *)
Calm(g) ==
    /\ Keeps(g)
    /\ term'[g].timer => term[g].timer
    /\ term'[g].again => term[g].again
    /\ term'[g].finalizing => term[g].finalizing
    /\ \/ term'[g].at \in {term[g].at, "none"}
       \/ term'[g].at = "retry" /\ Ended(pane, term[g].sid)
    /\ g > made => term'[g] = term[g]

LEMMA TermSteps ==
    ASSUME Typed, TermOK, PaneStep, pane' \in [Panes -> States], made' \in {made, made + 1}, NEW g \in Gens, Calm(g),
           g > made => screen'[g] = screen[g],
           exits'[g] = exits[g] \/ (g <= made /\ Over(pane', term[g].sid))
    PROVE  TermAt(g)'
  <1>1. TermAt(g) /\ term[g] \in Terms /\ term[g].sid \in Sids
    BY DEF TermOK, Typed, Terms
  <1>2. /\ Known(pane, term[g].sid) => Known(pane', term[g].sid)
        /\ Over(pane, term[g].sid) => Over(pane', term[g].sid)
        /\ Ended(pane, term[g].sid) => Ended(pane', term[g].sid)
    BY <1>1, KnownSteps
  <1>3. made \in Nat /\ g \in Nat
    BY KeyTypes DEF Gens
  <1>4. term[g].sid # NoSid => term[g].next <= pane'[term[g].sid[1]].out + 1
    <2> SUFFICES ASSUME term[g].sid # NoSid PROVE term[g].next <= pane'[term[g].sid[1]].out + 1
      OBVIOUS
    <2>1. term[g].sid[1] \in Panes
      BY <1>1, SidFacts
    <2>2. pane[term[g].sid[1]].st # "none"
      BY <1>1 DEF TermAt, Known
    <2>3. pane'[term[g].sid[1]].out >= pane[term[g].sid[1]].out
      BY <2>1, <2>2 DEF PaneStep
    <2>4. term[g].next \in Nat /\ pane[term[g].sid[1]].out \in Nat /\ pane'[term[g].sid[1]].out \in Nat
      BY <2>1, <1>1 DEF Typed, Terms, States
    <2>5. term[g].next <= pane[term[g].sid[1]].out + 1
      BY <1>1 DEF TermAt
    <2> QED
      BY <2>3, <2>4, <2>5
  <1>9. /\ g > made' => term'[g] = Unborn /\ screen'[g] = << >> /\ exits'[g] = << >>
        /\ term'[g].sid[2] = "recovered" => term'[g].recovered
        /\ IF term'[g].sid = NoSid THEN term'[g].next = 1
           ELSE term'[g].next <= pane'[term'[g].sid[1]].out + 1
        /\ term'[g].at = "wait" => term'[g].sid = NoSid
        /\ term'[g].timer \/ term'[g].again => term'[g].sid # NoSid
    BY <1>1, <1>3, <1>4 DEF TermAt, Calm, Keeps
  <1> QED
    BY <1>1, <1>2, <1>9 DEF TermAt, Calm, Keeps

LEMMA PollSteps ==
    ASSUME Typed, WireOK, PollOK, PaneStep, NEW g \in Gens, Calm(g),
           \A r \in Elems(wire') : r \in Elems(wire) \/
              (r.op # "inventory" /\ (r.g = g => Fits(r, term'[g])))
    PROVE  PollAt(g)'
  <1>1. PollAt(g)
    BY DEF PollOK
  <1>2. ASSUME NEW r \in Elems(wire), r.op = "attach", Refused(pane, r) PROVE Refused(pane', r)
    <2>1. r \in Requests /\ RequestOK(r)
      BY ElemsFacts DEF WireOK, Typed
    <2> QED
      BY <2>1, <1>2, RefusedSteps DEF RequestOK, OfPane
  <1>3. term'[g].timer => \A r \in Elems(wire') :
          /\ r.op # "inventory"
          /\ r.g = g => /\ r.op \notin {"output", "history"}
                        /\ r.op = "attach" => Refused(pane', r) /\ r.why # "open"
    BY <1>1, <1>2 DEF PollAt, Calm, Fits
  <1>4. term'[g].again => \A r \in Elems(wire') :
          r.g = g => r.op # "history" /\ ~(r.op = "attach" /\ r.why \in {"open", "again"})
    BY <1>1 DEF PollAt, Calm, Fits
  <1>5. term'[g].finalizing => ~Has(g, "history")'
    BY <1>1 DEF PollAt, Calm, Has, Fits
  <1> QED
    BY <1>3, <1>4, <1>5 DEF PollAt

LEMMA ScreenSteps ==
    ASSUME Typed, TermOK, ScreenOK, PaneStep, NoRecovery, NEW g \in Gens, Calm(g),
           screen'[g] = screen[g], cur' = g => cur = g, link' = "down" \/ link # "down",
           \A r \in Elems(wire) : Seeds(r) /\ r.g = g =>
              r \in Elems(wire') \/ (r.op = "attach" /\ (r.why = "open" => cur' # g))
    PROVE  ScreenAt(g)'
  <1>1. ScreenAt(g) /\ TermAt(g) /\ term[g] \in Terms /\ term[g].sid \in Sids
    BY DEF ScreenOK, TermOK, Typed, Terms
  <1>2. /\ Has(g, "history") => Has(g, "history")'
        /\ Has(g, "inventory") => Has(g, "inventory")'
        /\ AttachOpens(g) => AttachOpens(g)' \/ cur' # g
    BY DEF Has, AttachOpens, Seeds
  <1>3. term'[g].sid = term[g].sid /\ term'[g].next = term[g].next /\ term'[g].recovered = term[g].recovered
    BY DEF Calm, Keeps
  <1>4. Continuous(screen'[g])
    BY <1>1 DEF ScreenAt
  <1>5. Has(g, "history")' \/ screen'[g] = << >> \/ screen'[g][Len(screen'[g])] + 1 = term'[g].next
    BY <1>1, <1>2, <1>3 DEF ScreenAt
  <1>6. cur' = g /\ term'[g].sid # NoSid /\ ~term'[g].recovered
          => screen'[g] # << >> \/ Has(g, "history")' \/ AttachOpens(g)'
    BY <1>1, <1>2, <1>3 DEF ScreenAt
  <1>7. cur' = g /\ term'[g].finalizing /\ pane'[term'[g].sid[1]].st = "exited"
          => screen'[g] # << >> /\ screen'[g][Len(screen'[g])] = pane'[term'[g].sid[1]].out
    <2> SUFFICES ASSUME cur = g, term[g].finalizing, pane'[term[g].sid[1]].st = "exited"
                 PROVE  screen[g] # << >> /\ screen[g][Len(screen[g])] = pane'[term[g].sid[1]].out
      BY <1>3 DEF Calm
    <2>1. term[g].sid # NoSid /\ pane[term[g].sid[1]].st \in {"exited", "gone"}
      BY <1>1 DEF TermAt, Ended
    <2>2. term[g].sid[1] \in Panes
      BY <2>1, <1>1, SidFacts
    <2>3. pane[term[g].sid[1]].st = "exited" /\ pane'[term[g].sid[1]].out = pane[term[g].sid[1]].out
      BY <2>1, <2>2 DEF PaneStep, Succ
    <2> QED
      BY <2>3, <1>1 DEF ScreenAt
  <1>8. cur' = g /\ link' # "down" /\ term'[g].sid # NoSid /\ pane'[term'[g].sid[1]].st = "recovered"
          => term'[g].recovered \/ Has(g, "inventory")'
    <2> SUFFICES ASSUME cur = g, link # "down", term[g].sid # NoSid, pane'[term[g].sid[1]].st = "recovered"
                 PROVE  term[g].recovered \/ Has(g, "inventory")
      BY <1>2, <1>3
    <2>1. term[g].sid[1] \in Panes
      BY <1>1, SidFacts
    <2>2. pane[term[g].sid[1]].st = "recovered"
      BY <2>1 DEF NoRecovery
    <2> QED
      BY <2>2, <1>1 DEF ScreenAt
  <1> QED
    BY <1>4, <1>5, <1>6, <1>7, <1>8 DEF ScreenAt

LEMMA DetachedSteps ==
    ASSUME Typed, PaneStep, DetachedOK, detached' = detached
    PROVE  DetachedOK'
  <1>1. detached.sid \in Sids
    BY DEF Typed, Entries, Sids
  <1>2. /\ Known(pane, detached.sid) => Known(pane', detached.sid)
        /\ Over(pane, detached.sid) => Over(pane', detached.sid)
    BY <1>1, KnownSteps
  <1> QED
    BY <1>2 DEF DetachedOK

(* What holds of a step that changes one terminal at most, takes requests  *)
(* from the wire and puts one at its end                                   *)
LEMMA Frame ==
    ASSUME IInv, pane' \in [Panes -> States], PaneStep, NoRecovery, CurStep,
           NEW g0, g0 \in {0} \cup Gens,
           \A g \in Gens : g # g0 => /\ term'[g] = term[g] /\ screen'[g] = screen[g]
                                     /\ exits'[g] = exits[g],
           cur' \in {cur, 0, g0}, link' = "down" \/ link # "down",
           NEW q, Remain(q),
           \A a \in Elems(wire) : Seeds(a) => a \in Elems(q) \/ a.g = g0,
           \A a \in Elems(q) : a.op = "topology" => cur' = cur,
           \A a \in Elems(q) : Creates(a) => NonePresent(pane'),
           \A a \in Elems(q) : a.g = g0 /\ g0 # 0 => RequestOK(a)',
           \/ wire' = q
           \/ \E r \in Requests : /\ wire' = Append(q, r)
                                  /\ r.g \in {0, g0} /\ r.op # "inventory" /\ RequestOK(r)'
                                  /\ \A a \in Elems(q) : PairOK(a, r)'
    PROVE  /\ wire' \in Seq(Requests) /\ WireOK' /\ OrderOK' /\ Elems(q) \subseteq Elems(wire')
           /\ \A g \in Gens : g # g0 => TermAt(g)' /\ PollAt(g)' /\ ScreenAt(g)'
  <1> USE DEF IInv
  <1>1. ASSUME NEW a \in Elems(q) PROVE RequestOK(a)'
    <2>1. a \in Elems(wire) /\ a \in Requests
      BY ElemsFacts DEF Remain, Typed
    <2>a. a.g \in {0} \cup Gens
      BY <2>1 DEF Requests
    <2>2. CASE a.g = g0 /\ g0 # 0
      BY <2>2
    <2>3. CASE a.g = 0
      BY <2>1, <2>3, OldRequest
    <2>4. CASE a.g # g0 /\ a.g # 0
      <3>1. Keeps(a.g) /\ term'[a.g].at = term[a.g].at
        BY <2>a, <2>4 DEF Keeps
      <3> QED
        BY <2>1, <2>4, <3>1, OldRequest DEF KeepsFor, Keeps
    <2> QED
      BY <2>2, <2>3, <2>4
  <1>2. /\ wire' \in Seq(Requests) /\ WireOK' /\ OrderOK'
        /\ \/ Elems(wire') = Elems(q)
           \/ \E r \in Requests : Elems(wire') = Elems(q) \cup {r} /\ r.g \in {0, g0} /\ r.op # "inventory"
    <2>1. CASE wire' = q
      BY <1>1, <2>1, WireSteps
    <2>2. CASE wire' # q
      <3>1. PICK r \in Requests : /\ wire' = Append(q, r)
                                  /\ r.g \in {0, g0} /\ r.op # "inventory" /\ RequestOK(r)'
                                  /\ \A a \in Elems(q) : PairOK(a, r)'
        BY <2>2
      <3>2. wire' \in Seq(Requests) /\ WireOK' /\ OrderOK' /\ Elems(wire') = Elems(q) \cup {r}
        BY <1>1, <3>1, WireSteps
      <3> QED
        BY <3>1, <3>2
    <2> QED
      BY <2>1, <2>2
  <1>3. /\ Elems(q) \subseteq Elems(wire')
        /\ \A r \in Elems(wire') : r \in Elems(wire) \/ (r.g \in {0, g0} /\ r.op # "inventory")
    BY <1>2 DEF Remain
  <1>4. ASSUME NEW g \in Gens, g # g0 PROVE TermAt(g)' /\ PollAt(g)' /\ ScreenAt(g)'
    <2>1. Calm(g) /\ g \in Nat /\ g # 0
      BY <1>4 DEF Calm, Keeps, Gens
    <2>2. TermAt(g)'
      BY <1>4, <2>1, TermSteps DEF CurStep
    <2>3. PollAt(g)'
      <3>1. \A r \in Elems(wire') : r \in Elems(wire) \/ (r.op # "inventory" /\ r.g # g)
        BY <1>3, <1>4, <2>1
      <3> QED
        BY <2>1, <3>1, PollSteps
    <2>4. ScreenAt(g)'
      <3>1. cur' = g => cur = g
        BY <1>4, <2>1
      <3>2. \A r \in Elems(wire) : Seeds(r) /\ r.g = g => r \in Elems(wire')
        BY <1>3, <1>4
      <3> QED
        BY <1>4, <2>1, <3>1, <3>2, ScreenSteps
    <2> QED
      BY <2>2, <2>3, <2>4
  <1> QED
    BY <1>2, <1>3, <1>4

(* The requests of a terminal that keeps its pane and its place *)
LEMMA Kept ==
    ASSUME IInv, PaneStep, NoRecovery, CurStep, NEW g \in Gens, Keeps(g),
           term[g].at # "wait" => term'[g].at # "wait",
           NEW a \in Elems(wire), a.g = g,
           a.op = "topology" => cur' = cur, Creates(a) => NonePresent(pane')
    PROVE  RequestOK(a)'
  BY OldRequest DEF IInv, KeepsFor, Keeps

LEMMA KeySteps ==
    ASSUME IInv, NoCreation, cur' \in {cur, 0}, made' = made,
           killed' => killed \/ (cur' = 0 /\ NonePresent(pane') /\ \A r \in Elems(wire') : r.op # "create"),
           closing' \in {closing, 0} \/ cur' = 0,
           \A r \in Elems(wire') : r \in Elems(wire) \/ (r.op = "create" => cur # 0),
           link' = "down" => wire' = << >>
    PROVE  KeyOK'
  <1>1. KeyOK
    BY DEF IInv
  <1>2. OneDaemonPane'
    BY <1>1 DEF KeyOK, OneDaemonPane, NoCreation, NonePresent
  <1>3. Stamp' = Stamp /\ Stamp # 0
    BY KeyTypes DEF Stamp, IInv
  <1> QED
    BY <1>1, <1>2, <1>3 DEF KeyOK

LEMMA NoneSteps == NoCreation /\ NonePresent(pane) => NonePresent(pane')
  BY DEF NoCreation, NonePresent

(* A step that leaves every terminal its pane and its place in the stream  *)
LEMMA Ordinary ==
    ASSUME IInv, Typed', PaneStep, NoRecovery, NoCreation,
           made' = made, cur' \in {cur, 0}, closing' \in {closing, 0} \/ cur' = 0,
           killed' => killed \/ (cur' = 0 /\ NonePresent(pane') /\ \A r \in Elems(wire') : r.op # "create"),
           DetachedOK', screen' = screen, link' = link,
           NEW g0 \in {0} \cup Gens,
           \A g \in Gens : g # g0 => term'[g] = term[g] /\ exits'[g] = exits[g],
           g0 # 0 => Calm(g0) /\ (exits'[g0] = exits[g0] \/ (g0 <= made /\ Over(pane', term[g0].sid))),
           NEW q, Remain(q),
           \A a \in Elems(wire) : Seeds(a) =>
              \/ a \in Elems(q)
              \/ a.op = "attach" /\ a.g = g0 /\ (a.why = "open" => cur' # g0),
           cur' = cur \/ \A a \in Elems(q) : a.op # "topology",
           \/ wire' = q
           \/ \E r \in Requests :
                 /\ wire' = Append(q, r) /\ link # "down"
                 /\ r.g \in {0, g0} /\ Fits(r, term'[g0])
                 /\ RequestOK(r)'
                 /\ \A a \in Elems(q) : PairOK(a, r)'
    PROVE  IInv'
  <1>a. Typed /\ TermOK /\ WireOK /\ PollOK /\ ScreenOK /\ OrderOK /\ KeyOK
    BY DEF IInv
  <1>b. pane' \in [Panes -> States]
    BY DEF Typed
  <1>c. CurStep
    BY DEF CurStep
  <1>d. g0 # 0 => g0 \in Gens /\ Keeps(g0) /\ (term[g0].at # "wait" => term'[g0].at # "wait")
    BY DEF Calm
  <1>1. \A a \in Elems(q) : /\ a \in Elems(wire)
                            /\ a.op = "topology" => cur' = cur
                            /\ Creates(a) => NonePresent(pane')
    BY <1>a, NoneSteps DEF Remain, WireOK, RequestOK
  <1>2. \A a \in Elems(q) : a.g = g0 /\ g0 # 0 => RequestOK(a)'
    BY <1>1, <1>c, <1>d, Kept
  <1>3. /\ wire' \in Seq(Requests) /\ WireOK' /\ OrderOK' /\ Elems(q) \subseteq Elems(wire')
        /\ \A g \in Gens : g # g0 => TermAt(g)' /\ PollAt(g)' /\ ScreenAt(g)'
    <2>1. \A a \in Elems(wire) : Seeds(a) => a \in Elems(q) \/ a.g = g0
      OBVIOUS
    <2>2. link' = "down" \/ link # "down"
      OBVIOUS
    <2> QED
      BY <1>1, <1>2, <1>b, <1>c, <2>1, <2>2, Frame DEF Fits
  <1>4. \A r \in Elems(wire') : \/ r \in Elems(wire)
                                \/ Fits(r, term'[g0]) /\ r.g \in {0, g0}
    <2>1. CASE wire' = q
      BY <2>1, <1>1
    <2>2. CASE wire' # q
      <3>1. PICK r \in Requests :
                 /\ wire' = Append(q, r)
                 /\ r.g \in {0, g0} /\ Fits(r, term'[g0])
        BY <2>2
      <3>2. Elems(wire') = Elems(q) \cup {r}
        BY <3>1, AppendFacts DEF Remain
      <3> QED
        BY <3>1, <3>2, <1>1
    <2> QED
      BY <2>1, <2>2
  <1>5. ASSUME g0 # 0 PROVE TermAt(g0)' /\ PollAt(g0)' /\ ScreenAt(g0)'
    <2>1. TermAt(g0)'
      BY <1>5, <1>a, <1>b, <1>d, TermSteps
    <2>2. PollAt(g0)'
      BY <1>5, <1>a, <1>d, <1>4, PollSteps DEF Fits
    <2>3. ScreenAt(g0)'
      <3>1. cur' = g0 => cur = g0
        BY <1>5
      <3>2. \A r \in Elems(wire) : Seeds(r) /\ r.g = g0 =>
              r \in Elems(wire') \/ (r.op = "attach" /\ (r.why = "open" => cur' # g0))
        BY <1>3
      <3> QED
        BY <1>5, <1>a, <1>d, <3>1, <3>2, ScreenSteps
    <2> QED
      BY <2>1, <2>2, <2>3
  <1>6. TermOK' /\ PollOK' /\ ScreenOK'
    <2>1. \A g \in Gens : g # 0
      BY DEF Gens
    <2> QED
      BY <1>3, <1>5, <2>1 DEF TermOK, PollOK, ScreenOK
  <1>7. KeyOK'
    <2>1. link' = "down" => wire' = << >>
      <3> SUFFICES ASSUME link = "down" PROVE wire' = << >>
        OBVIOUS
      <3>1. wire' = q /\ wire = << >> /\ q \in Seq(Requests) /\ Elems(q) \subseteq Elems(wire)
        BY <1>a DEF KeyOK, Remain
      <3>2. Elems(wire) = {}
        BY <3>1 DEF Elems
      <3>3. q = << >>
        BY <3>1, <3>2, TailFacts
      <3> QED
        BY <3>1, <3>3
    <2>2. \A r \in Elems(wire') : r \in Elems(wire) \/ (r.op = "create" => cur # 0)
      BY <1>4 DEF Fits
    <2> QED
      BY <2>1, <2>2, KeySteps
  <1> QED
    BY <1>3, <1>6, <1>7 DEF IInv

-----------------------------------------------------------------------------
(* The terminal that a step changes, and its poll                          *)

LEMMA SetFacts ==
    ASSUME Typed, NEW g \in Gens, NEW t \in Terms, Set(g, t)
    PROVE  /\ term' \in [Gens -> Terms] /\ term'[g] = t
           /\ \A h \in Gens : h # g => term'[h] = term[h]
  BY DEF Typed, Set

SameTerm(t, u) ==
    /\ u.sid = t.sid /\ u.next = t.next /\ u.recovered = t.recovered
    /\ u.again = t.again /\ u.finalizing = t.finalizing /\ u.at = t.at /\ u.stolen = t.stolen

LEMMA PollingFacts ==
    ASSUME NEW g, NEW t \in Terms
    PROVE  /\ Stopped(t) \in Terms /\ SameTerm(t, Stopped(t)) /\ ~Stopped(t).timer
           /\ Polling(g, t) \in Terms /\ SameTerm(t, Polling(g, t)) /\ ~Polling(g, t).timer
  <1>1. Stopped(t) \in Terms /\ SameTerm(t, Stopped(t)) /\ ~Stopped(t).timer
    BY DEF Stopped, Terms, SameTerm
  <1>2. Polling(g, t) = Stopped(t) \/ Polling(g, t) = [Stopped(t) EXCEPT !.waiting = TRUE]
    BY DEF Polling
  <1> QED
    BY <1>1, <1>2 DEF Terms, SameTerm

LEMMA TermFacts ==
    ASSUME Typed, NEW g \in Gens
    PROVE  /\ term[g] \in Terms /\ term[g].sid \in Sids /\ term[g].next \in Nat \ {0}
           /\ g # 0 /\ g \in Nat
  BY DEF Typed, Terms, Gens

LEMMA UnbornFacts ==
    ASSUME IInv, NEW g \in Gens, term[g].sid # NoSid \/ term[g].at # "none" \/ g = cur
    PROVE  g <= made
  <1>1. TermAt(g) /\ g \in Nat /\ made \in Nat /\ cur <= made
    BY KeyTypes DEF IInv, TermOK, Gens
  <1> QED
    BY <1>1 DEF TermAt, Unborn

LEMMA CurFacts ==
    ASSUME Typed
    PROVE  cur # 0 => cur \in Gens
  <1>1. made \in Nat /\ made <= MaxGen /\ MaxGen \in Nat /\ cur \in Nat /\ cur <= made
    BY KeyTypes, BoundsNat DEF Typed
  <1> QED
    BY <1>1 DEF Gens

(* The pane of a step that only adds output, or ends the pane *)
LEMMA Produced ==
    ASSUME IInv, NEW p \in Panes, Produce(p)
    PROVE  IInv'
  <1>1. Typed /\ pane \in [Panes -> States] /\ pane[p] \in States /\ pane[p].out \in Nat /\ MaxOut \in Nat
        /\ pane[p].out + 1 \in 0..MaxOut
    BY BoundsNat DEF IInv, Typed, States, Produce
  <1>2. pane' = [pane EXCEPT ![p].out = @ + 1] /\ pane' \in [Panes -> States]
    BY <1>1 DEF Produce, States
  <1>3. \A x \in Panes : pane'[x].st = pane[x].st /\ (x # p => pane'[x] = pane[x])
    BY <1>1, <1>2 DEF States
  <1>4. pane'[p].out = pane[p].out + 1 /\ pane[p].st = "live"
    BY <1>1, <1>2 DEF States, Produce
  <1>5. PaneStep
    <2>1. \A x \in Panes : pane[x].out \in Nat
      BY <1>1 DEF States
    <2> QED
      BY <1>1, <1>3, <1>4, <2>1 DEF PaneStep, Succ
  <1>6. NoRecovery /\ NoCreation
    BY <1>3 DEF NoRecovery, NoCreation, Present
  <1>7. Typed' /\ DetachedOK'
    <2>1. Typed'
      BY <1>1, <1>2 DEF Typed, Produce, keyVars, viewVars, Stamp
    <2> QED
      BY <1>1, <1>5, <2>1, DetachedSteps DEF IInv, Produce, keyVars
  <1>8. Remain(wire)
    BY <1>1, RemainWire DEF IInv
  <1> QED
    BY <1>5, <1>6, <1>7, <1>8, Ordinary DEF Produce, keyVars, viewVars

LEMMA Exited ==
    ASSUME IInv, NEW p \in Panes, Exit(p)
    PROVE  IInv'
  <1>1. Typed /\ pane \in [Panes -> States] /\ pane[p] \in States /\ pane[p].st = "live"
    BY DEF IInv, Typed, Exit
  <1>2. pane' = [pane EXCEPT ![p] = [pane[p] EXCEPT !.st = "exited", !.owner = "nobody"]]
        /\ pane' \in [Panes -> States]
    BY <1>1 DEF Exit, States
  <1>3. /\ \A x \in Panes : x # p => pane'[x] = pane[x]
        /\ pane'[p].st = "exited" /\ pane'[p].out = pane[p].out
        /\ \A x \in Panes : pane[x].out \in Nat
    BY <1>1, <1>2, BoundsNat DEF States
  <1>5. PaneStep
    BY <1>1, <1>3 DEF PaneStep, Succ
  <1>6. NoRecovery /\ NoCreation
    BY <1>1, <1>3 DEF NoRecovery, NoCreation, Present
  <1>7. Typed' /\ DetachedOK'
    <2>1. Typed'
      BY <1>1, <1>2 DEF Typed, Exit, keyVars, viewVars, Stamp
    <2> QED
      BY <1>1, <1>5, <2>1, DetachedSteps DEF IInv, Exit, keyVars
  <1>8. Remain(wire)
    BY <1>1, RemainWire DEF IInv
  <1> QED
    BY <1>5, <1>6, <1>7, <1>8, Ordinary DEF Exit, keyVars, viewVars

LEMMA StillPanes ==
    ASSUME Typed, pane' = pane
    PROVE  PaneStep /\ NoRecovery /\ NoCreation
  <1>1. \A x \in Panes : pane[x].out \in Nat
    BY BoundsNat DEF Typed, States
  <1> QED
    BY <1>1 DEF PaneStep, NoRecovery, NoCreation, Succ

(* A request that goes with any other before it *)
Plain(r) == \/ r.op \in {"detach", "resize", "listclose"}
            \/ r.op = "destroy" /\ r.why \notin {"polling", "quiet"}

LEMMA PlainPairs ==
    ASSUME NEW a, NEW r, Plain(r)
    PROVE  PairOK(a, r)'
  BY DEF PairOK, Plain, Opens, Creates, Seeds, Kills

LEMMA RequestTypes ==
    ASSUME NEW op \in Ops, NEW g \in {0} \cup Gens, NEW sid \in Sids, NEW why \in Whys, NEW n \in Nat
    PROVE  Request(op, g, sid, why, n) \in Requests
  BY DEF Request, Requests

(* A request about the pane of its terminal, while the panes stay *)
LEMMA PaneRequest ==
    ASSUME IInv, PaneStep, made' = made, NEW r \in Requests, r.g \in Gens, Keeps(r.g),
           r.op \in {"resize", "detach", "destroy"}, r.sid = term[r.g].sid, r.sid # NoSid,
           r.op = "destroy" => r.why # "detached",
           Kills(r) => r.n \in 1..Stamp,
           r.op = "destroy" /\ r.why = "exit" => Ended(pane, r.sid)
    PROVE  RequestOK(r)'
  <1>1. TermAt(r.g) /\ r.sid \in Sids /\ r.g # 0 /\ r.g <= made
    BY TermFacts, UnbornFacts DEF IInv, TermOK
  <1>2. Known(pane', r.sid) /\ (Ended(pane, r.sid) => Ended(pane', r.sid))
    BY <1>1, KnownSteps DEF TermAt, IInv
  <1>3. Stamp' = Stamp
    BY DEF Stamp
  <1>4. Known(pane', r.sid) /\ r.g <= made' /\ r.g # 0 /\ r.sid # NoSid /\ r.sid = term'[r.g].sid
    BY <1>1, <1>2 DEF Keeps
  <1>5. /\ ~Opens(r) /\ ~Creates(r) /\ ~ByKey(r)
        /\ r.op \notin {"topology", "inventory", "attach", "history", "output", "stolen"}
    BY DEF Opens, Creates, ByKey
  <1>6. Kills(r) => r.n \in 1..Stamp'
    BY <1>3
  <1> QED
    BY <1>2, <1>4, <1>5, <1>6 DEF RequestOK

-----------------------------------------------------------------------------
(* Calls of the renderer                                                   *)

(* A terminal that leaves its place *)
LEMMA Hidden ==
    ASSUME IInv, NEW g \in Gens, g = cur, Hide(g), made' = made
    PROVE  /\ term' \in [Gens -> Terms] /\ Calm(g) /\ ~term'[g].timer
           /\ \A h \in Gens : h # g => term'[h] = term[h]
  <1>1. Typed /\ term[g] \in Terms
    BY TermFacts DEF IInv
  <1> DEFINE t == [Stopped(term[g]) EXCEPT !.at = "none"]
  <1>2. t \in Terms /\ SameTerm([term[g] EXCEPT !.at = "none"], t) /\ ~t.timer
    BY <1>1 DEF Terms, Stopped, SameTerm
  <1>3. /\ term' \in [Gens -> Terms] /\ term'[g] = t
        /\ \A h \in Gens : h # g => term'[h] = term[h]
    BY <1>1, <1>2, SetFacts DEF Hide
  <1>4. g > made => term'[g] = term[g]
    <2>1. g <= made /\ made \in Nat /\ g \in Nat
      BY <1>1, UnbornFacts, KeyTypes, TermFacts
    <2> QED
      BY <2>1
  <1> HIDE DEF t
  <1> QED
    BY <1>1, <1>2, <1>3, <1>4 DEF Calm, Keeps, SameTerm, Terms

LEMMA NoTopology ==
    ASSUME IInv, ~Pending(cur, {"topology"})
    PROVE  \A a \in Elems(wire) : a.op # "topology"
  BY DEF IInv, WireOK, RequestOK, Pending, Elems

LEMMA TabClosed ==
    ASSUME IInv, ~Overlap, CloseTab
    PROVE  IInv'
  <1>1. Typed /\ cur \in Gens /\ TermAt(cur) /\ wire \in Seq(Requests) /\ term[cur].sid \in Sids
    BY CurFacts, TermFacts DEF IInv, CloseTab, TermOK, Typed
  <1>2. /\ pane' = pane /\ link' = link /\ made' = made /\ retired' = retired
        /\ closing' = closing /\ killed' = killed /\ screen' = screen /\ exits' = exits /\ cur' = 0
    BY DEF CloseTab, viewVars, Hide
  <1>3. /\ term' \in [Gens -> Terms] /\ Calm(cur)
        /\ \A h \in Gens : h # cur => term'[h] = term[h]
    BY <1>1, <1>2, Hidden DEF CloseTab
  <1>4. \A a \in Elems(wire) : a.op # "topology"
    BY NoTopology DEF CloseTab
  <1>5. PaneStep /\ NoRecovery /\ NoCreation
    BY <1>1, <1>2, StillPanes
  <1>6. detached' \in Entries /\ DetachedOK'
    <2>1. CASE term[cur].sid = NoSid
      <3>1. detached' = detached
        BY <2>1 DEF CloseTab
      <3> QED
        BY <1>1, <1>5, <3>1, DetachedSteps DEF IInv, Typed
    <2>2. CASE term[cur].sid # NoSid
      <3>1. detached' = [sid |-> term[cur].sid, recovered |-> term[cur].recovered]
        BY <2>2 DEF CloseTab
      <3>2. detached' \in Entries
        BY <1>1, <3>1, TermFacts DEF Entries, Terms, Sids
      <3> QED
        BY <1>1, <1>2, <2>2, <3>1, <3>2 DEF DetachedOK, TermAt
    <2> QED
      BY <2>1, <2>2
  <1>7. PICK r : r = Request("detach", cur, term[cur].sid, "", 0)
    OBVIOUS
  <1>8. PICK q : /\ q = wire \/ q = NoPolls(wire, cur)
                 /\ \/ wire' = q
                    \/ link # "down" /\ term[cur].sid # NoSid /\ wire' = Append(q, r)
    BY <1>7 DEF CloseTab
  <1>9. /\ Remain(q) /\ \A a \in Elems(wire) : Seeds(a) => a \in Elems(q)
    BY <1>1, <1>8, RemainWire DEF IInv, Seeds
  <1>10. r \in Requests /\ r.op = "detach" /\ r.g = cur /\ Plain(r)
    <2>1. r.op = "detach" /\ r.g = cur
      BY <1>7 DEF Request
    <2> QED
      BY <1>1, <1>7, <2>1, RequestTypes DEF Ops, Whys, Plain
  <1>a. wire' \in Seq(Requests)
    BY <1>8, <1>9, <1>10, AppendFacts DEF Remain
  <1>11. Typed'
    BY <1>1, <1>2, <1>3, <1>6, <1>a, KeyTypes DEF Typed, Stamp
  <1>12. wire' # q => RequestOK(r)' /\ wire' = Append(q, r) /\ link # "down"
    <2> SUFFICES ASSUME wire' # q PROVE RequestOK(r)'
      BY <1>8
    <2>1. Keeps(cur) /\ term[cur].sid # NoSid
      BY <1>1, <1>3, <1>8 DEF Calm
    <2>2. r.sid = term[cur].sid
      BY <1>7 DEF Request
    <2> QED
      BY <1>1, <1>2, <1>5, <1>10, <1>11, <2>1, <2>2, PaneRequest DEF Kills
  <1>13. \A a \in Elems(q) : a.op # "topology" /\ PairOK(a, r)'
    <2>1. \A a : PairOK(a, r)'
      BY <1>10, PlainPairs
    <2> QED
      BY <1>4, <1>9, <2>1 DEF Remain
  <1>14. \/ wire' = q
         \/ \E x \in Requests :
                 /\ wire' = Append(q, x) /\ link # "down"
                 /\ x.g \in {0, cur} /\ Fits(x, term'[cur])
                 /\ RequestOK(x)'
                 /\ \A a \in Elems(q) : PairOK(a, x)'
    BY <1>10, <1>12, <1>13 DEF Fits
  <1> QED
    BY <1>1, <1>2, <1>3, <1>5, <1>6, <1>9, <1>11, <1>13, <1>14, Ordinary

(* Such a step of the client alone *)
LEMMA Quiet ==
    ASSUME IInv, pane' = pane, link' = link, made' = made, cur' \in {cur, 0}, retired' \in BOOLEAN,
           killed' = killed, closing' \in {closing, 0} \/ (closing' = Stamp /\ cur' = 0),
           screen' = screen, exits' = exits, detached' = detached,
           NEW g0 \in {0} \cup Gens, term' \in [Gens -> Terms],
           \A g \in Gens : g # g0 => term'[g] = term[g],
           g0 # 0 => Calm(g0),
           NEW q, Remain(q),
           \A a \in Elems(wire) : Seeds(a) => a \in Elems(q),
           cur' = cur \/ \A a \in Elems(q) : a.op # "topology",
           \/ wire' = q
           \/ \E r \in Requests :
                 /\ wire' = Append(q, r) /\ link # "down"
                 /\ r.g \in {0, g0} /\ Fits(r, term'[g0])
                 /\ RequestOK(r)'
                 /\ Plain(r) \/ \A a \in Elems(q) : PairOK(a, r)'
    PROVE  IInv'
  <1>1. Typed
    BY DEF IInv
  <1>2. PaneStep /\ NoRecovery /\ NoCreation
    BY <1>1, StillPanes
  <1>3. \/ wire' = q
        \/ \E r \in Requests :
                 /\ wire' = Append(q, r) /\ link # "down"
                 /\ r.g \in {0, g0} /\ Fits(r, term'[g0])
                 /\ RequestOK(r)'
                 /\ \A a \in Elems(q) : PairOK(a, r)'
    BY PlainPairs
  <1>4. wire' \in Seq(Requests)
    BY <1>3, AppendFacts DEF Remain
  <1>5. closing' \in 0..Stamp /\ Stamp' = Stamp /\ cur' \in 0..made
    BY <1>1, KeyTypes DEF Typed, Stamp
  <1>6. Typed'
    BY <1>1, <1>4, <1>5 DEF Typed
  <1>7. DetachedOK'
    BY <1>1, <1>2, DetachedSteps DEF IInv
  <1>8. /\ \A g \in Gens : g # g0 => term'[g] = term[g] /\ exits'[g] = exits[g]
        /\ closing' \in {closing, 0} \/ cur' = 0
    OBVIOUS
  <1>9. \A a \in Elems(wire) : Seeds(a) =>
              \/ a \in Elems(q)
              \/ a.op = "attach" /\ a.g = g0 /\ (a.why = "open" => cur' # g0)
    OBVIOUS
  <1> QED
    BY <1>2, <1>3, <1>6, <1>7, <1>8, <1>9, Ordinary

LEMMA Resized ==
    ASSUME IInv, Resize
    PROVE  IInv'
  <1>1. /\ Typed /\ cur \in Gens /\ cur # 0 /\ cur <= made /\ TermAt(cur) /\ wire \in Seq(Requests)
        /\ term[cur].sid \in Sids /\ term[cur].sid # NoSid /\ term[cur] \in Terms
    BY CurFacts, TermFacts, UnbornFacts DEF IInv, Resize, TermOK, Typed
  <1>2. /\ pane' = pane /\ link' = link /\ made' = made /\ retired' = retired /\ retired' \in BOOLEAN
        /\ closing' = closing /\ killed' = killed /\ screen' = screen /\ exits' = exits /\ cur' = cur
        /\ detached' = detached
    BY <1>1 DEF Resize, viewVars, keyVars, Typed
  <1>3. Remain(wire)
    BY <1>1, RemainWire DEF IInv
  <1>4. CASE link = "down"
    <2> DEFINE t == [Stopped(term[cur]) EXCEPT !.waiting = TRUE]
    <2>1. t \in Terms /\ SameTerm(term[cur], t) /\ ~t.timer
      BY <1>1 DEF Stopped, Terms, SameTerm
    <2>2. Set(cur, t) /\ wire' = wire
      BY <1>4 DEF Resize
    <2> HIDE DEF t
    <2>3. /\ term' \in [Gens -> Terms] /\ term'[cur] = t
          /\ \A h \in Gens : h # cur => term'[h] = term[h]
      BY <1>1, <2>1, <2>2, SetFacts
    <2>4. Calm(cur)
      BY <1>1, <2>1, <2>3, KeyTypes DEF Calm, Keeps, SameTerm, Gens
    <2> QED
      BY <1>1, <1>2, <1>3, <2>2, <2>3, <2>4, Quiet
  <1>5. CASE link # "down"
    <2>1. PICK r : r = Request("resize", cur, term[cur].sid, "", 0)
      OBVIOUS
    <2>2. r \in Requests /\ r.op = "resize" /\ r.g = cur /\ r.sid = term[cur].sid
      <3>1. r.op = "resize" /\ r.g = cur /\ r.sid = term[cur].sid
        BY <2>1 DEF Request
      <3> QED
        BY <1>1, <2>1, <3>1, RequestTypes DEF Ops, Whys
    <2>3. wire' = Append(wire, r) /\ term' = term
      BY <1>5, <2>1 DEF Resize
    <2>4. Calm(cur) /\ term' \in [Gens -> Terms] /\ Keeps(cur)
      BY <1>1, <2>3, KeyTypes DEF Calm, Keeps, Typed, Terms
    <2>5. RequestOK(r)' /\ Plain(r)
      <3>1. PaneStep
        BY <1>1, <1>2, StillPanes
      <3> QED
        BY <1>1, <1>2, <2>2, <2>4, <3>1, PaneRequest DEF Kills, Plain
    <2>6. \E x \in Requests :
                 /\ wire' = Append(wire, x) /\ link # "down"
                 /\ x.g \in {0, cur} /\ Fits(x, term'[cur])
                 /\ RequestOK(x)'
                 /\ Plain(x) \/ \A a \in Elems(wire) : PairOK(a, x)'
      BY <1>5, <2>2, <2>3, <2>5 DEF Fits
    <2> QED
      BY <1>1, <1>2, <1>3, <2>3, <2>4, <2>6, Quiet
  <1> QED
    BY <1>4, <1>5

LEMMA Killed ==
    ASSUME IInv, Kill
    PROVE  IInv'
  <1>1. /\ Typed /\ cur \in Gens /\ cur # 0 /\ cur <= made /\ TermAt(cur) /\ wire \in Seq(Requests)
        /\ term[cur].sid \in Sids /\ term[cur].sid # NoSid /\ term[cur] \in Terms
    BY CurFacts, TermFacts, UnbornFacts DEF IInv, Kill, TermOK, Typed
  <1>2. /\ pane' = pane /\ link' = link /\ made' = made /\ retired' = retired /\ retired' \in BOOLEAN
        /\ closing' = closing /\ killed' = killed /\ screen' = screen /\ exits' = exits /\ cur' = cur
        /\ detached' = detached
    BY <1>1 DEF Kill, viewVars, keyVars, Typed
  <1>3. PICK t : /\ t = Polling(cur, term[cur]) \/ t = Stopped(term[cur])
                 /\ Set(cur, t)
    BY DEF Kill
  <1>4. t \in Terms /\ SameTerm(term[cur], t) /\ ~t.timer
    BY <1>1, <1>3, PollingFacts
  <1>5. /\ term' \in [Gens -> Terms] /\ term'[cur] = t
        /\ \A h \in Gens : h # cur => term'[h] = term[h]
    BY <1>1, <1>3, <1>4, SetFacts
  <1>6. Calm(cur) /\ Keeps(cur)
    BY <1>1, <1>4, <1>5, KeyTypes DEF Calm, Keeps, SameTerm, Gens
  <1>7. CASE link = "down"
    <2>1. wire' = wire /\ Remain(wire)
      BY <1>1, <1>7, RemainWire DEF Kill, IInv
    <2> QED
      BY <1>1, <1>2, <1>5, <1>6, <2>1, Quiet
  <1>8. CASE link # "down"
    <2>1. PICK r : r = Destroy(cur, term[cur].sid, IF CanPoll(cur, term[cur]) THEN "polling" ELSE "quiet", Stamp)
      OBVIOUS
    <2>2. /\ r.op = "destroy" /\ r.g = cur /\ r.sid = term[cur].sid
          /\ r.why \in {"polling", "quiet"} /\ r.n = Stamp
      BY <2>1 DEF Request, Destroy
    <2>3. r \in Requests
      <3>1. r = Request("destroy", cur, term[cur].sid, r.why, Stamp)
        BY <2>1, <2>2 DEF Destroy, Request
      <3> QED
        <4>1. r.why \in Whys /\ "destroy" \in Ops /\ Stamp \in Nat
          BY <1>1, <2>2, KeyTypes DEF Ops, Whys
        <4> QED
          BY <1>1, <3>1, <4>1, RequestTypes
    <2>4. wire' = Append(NoPolls(wire, cur), r)
      BY <1>8, <2>1 DEF Kill
    <2>5. Remain(NoPolls(wire, cur)) /\ \A a \in Elems(wire) : Seeds(a) => a \in Elems(NoPolls(wire, cur))
      BY <1>1, RemainWire DEF IInv, Seeds
    <2>6. RequestOK(r)'
      <3>1. PaneStep /\ r.n \in 1..Stamp
        BY <1>1, <1>2, <2>2, StillPanes, KeyTypes DEF Stamp
      <3> QED
        BY <1>1, <1>2, <1>6, <2>2, <2>3, <3>1, PaneRequest DEF Kills
    <2>7. ASSUME NEW a \in Elems(NoPolls(wire, cur)) PROVE PairOK(a, r)'
      <3>1. Opens(a) => a.g # cur
        BY <1>1, <2>5 DEF Remain, IInv, WireOK, RequestOK
      <3>2. a.op # "topology"
        BY <3>1, <2>5 DEF Remain, IInv, WireOK, RequestOK, Opens
      <3> QED
        BY <1>2, <2>2, <3>1, <3>2 DEF PairOK, Opens, Creates, Seeds, Kills
    <2>8. \E x \in Requests :
                 /\ wire' = Append(NoPolls(wire, cur), x) /\ link # "down"
                 /\ x.g \in {0, cur} /\ Fits(x, term'[cur])
                 /\ RequestOK(x)'
                 /\ Plain(x) \/ \A a \in Elems(NoPolls(wire, cur)) : PairOK(a, x)'
      BY <1>8, <2>2, <2>3, <2>4, <2>6, <2>7 DEF Fits
    <2> QED
      BY <1>1, <1>2, <1>5, <1>6, <2>5, <2>8, Quiet
  <1> QED
    BY <1>7, <1>8

(* A request of a close by key *)
LEMMA KeyRequest ==
    ASSUME IInv, PaneStep, made' = made, NEW r \in Requests, ByKey(r), r.g = 0,
           Known(pane, r.sid), r.n \in 1..Stamp, r.n = Stamp => cur' = 0
    PROVE  RequestOK(r)' /\ Plain(r)
  <1>1. Known(pane', r.sid)
    BY KnownSteps DEF IInv, Requests
  <1>2. Stamp' = Stamp /\ made \in Nat
    BY KeyTypes DEF Stamp, IInv
  <1>3. /\ ~Opens(r) /\ ~Creates(r) /\ ~OfPane(r)
        /\ r.op \notin {"topology", "inventory", "attach", "history", "output", "stolen"}
        /\ ~(r.op = "destroy" /\ r.why = "exit")
    BY DEF Opens, Creates, ByKey, OfPane
  <1>4. RequestOK(r)'
    BY <1>1, <1>2, <1>3 DEF RequestOK
  <1> QED
    BY <1>4 DEF Plain, ByKey

LEMMA KilledByKey ==
    ASSUME IInv, ~Overlap, KillByKey
    PROVE  IInv'
  <1>1. Typed /\ detached \in Entries /\ wire \in Seq(Requests) /\ (cur # 0 => cur \in Gens /\ cur <= made)
    BY CurFacts, UnbornFacts DEF IInv, Typed
  <1>2. /\ pane' = pane /\ link' = link /\ made' = made
        /\ killed' = killed /\ screen' = screen /\ exits' = exits /\ cur' = 0
        /\ detached' = detached /\ retired' \in BOOLEAN
        /\ closing' = closing \/ closing' = Stamp
    BY <1>1 DEF KillByKey, viewVars, Hide, Typed
  <1>3. /\ term' \in [Gens -> Terms] /\ (cur # 0 => Calm(cur))
        /\ \A h \in Gens : h # cur => term'[h] = term[h]
    <2>1. CASE cur = 0
      BY <1>1, <2>1 DEF KillByKey, Typed
    <2>2. CASE cur # 0
      BY <1>1, <1>2, <2>2, Hidden DEF KillByKey
    <2> QED
      BY <2>1, <2>2
  <1>4. Remain(wire) /\ (cur' = cur \/ \A a \in Elems(wire) : a.op # "topology")
    BY <1>1, <1>2, RemainWire, NoTopology DEF KillByKey, IInv
  <1>5. CASE wire' = wire
    BY <1>1, <1>2, <1>3, <1>4, <1>5, Quiet
  <1>6. CASE wire' # wire
    <2>1. PICK r : r = Request("destroy", 0, detached.sid, "detached", Stamp)
      OBVIOUS
    <2>2. wire' = Append(wire, r) /\ link # "down" /\ closing' = closing
      BY <1>6, <2>1 DEF KillByKey, Destroy
    <2>3. r.op = "destroy" /\ r.g = 0 /\ r.sid = detached.sid /\ r.why = "detached" /\ r.n = Stamp
      BY <2>1 DEF Request
    <2>4. r \in Requests
      <3>1. detached.sid \in Sids
        BY <1>1 DEF Entries, Sids
      <3> QED
        BY <1>1, <2>1, <3>1, RequestTypes, KeyTypes DEF Ops, Whys
    <2>5. RequestOK(r)' /\ Plain(r)
      <3>1. PaneStep /\ Stamp \in 1..Stamp
        BY <1>1, <1>2, StillPanes, KeyTypes DEF Stamp
      <3> QED
        BY <1>2, <2>3, <2>4, <3>1, KeyRequest DEF ByKey, IInv, DetachedOK
    <2>6. \E x \in Requests :
                 /\ wire' = Append(wire, x) /\ link # "down"
                 /\ x.g \in {0, cur} /\ Fits(x, term'[cur])
                 /\ RequestOK(x)'
                 /\ Plain(x) \/ \A a \in Elems(wire) : PairOK(a, x)'
      BY <2>2, <2>3, <2>4, <2>5 DEF Fits
    <2>7. cur \in {0} \cup Gens
      BY <1>1
    <2> QED
      BY <1>2, <1>3, <1>4, <2>2, <2>6, <2>7, Quiet
  <1> QED
    BY <1>5, <1>6

LEMMA ClosedConnected ==
    ASSUME IInv, CloseConnected
    PROVE  IInv'
  <1>a. Typed /\ closing # 0
    BY DEF IInv, CloseConnected
  <1>b. wire \in Seq(Requests) /\ closing \in 0..Stamp /\ Stamp \in Nat
    BY <1>a, KeyTypes DEF Typed
  <1>1. Typed /\ wire \in Seq(Requests) /\ closing \in Nat /\ closing \in 1..Stamp
    BY <1>a, <1>b
  <1>2. /\ pane' = pane /\ link' = link /\ made' = made /\ term' = term /\ cur' = cur
        /\ killed' = killed /\ screen' = screen /\ exits' = exits
        /\ detached' = detached /\ retired' = retired /\ retired' \in BOOLEAN /\ closing' = 0
        /\ term' \in [Gens -> Terms]
    BY <1>1 DEF CloseConnected, viewVars, daemonVars, Typed
  <1>3. PICK r : r = Request("listclose", 0, NoSid, "", closing)
    OBVIOUS
  <1>4. r.op = "listclose" /\ r.g = 0 /\ r.sid = NoSid /\ r.n = closing
    BY <1>3 DEF Request
  <1>5. r \in Requests
    BY <1>1, <1>3, RequestTypes DEF Ops, Whys, Sids
  <1>6. RequestOK(r)' /\ Plain(r)
    <2>1. PaneStep /\ Known(pane, r.sid) /\ (closing = Stamp => cur = 0)
      BY <1>1, <1>2, <1>4, StillPanes DEF Known, IInv, KeyOK
    <2> QED
      BY <1>1, <1>2, <1>4, <1>5, <2>1, KeyRequest DEF ByKey
  <1>7. \E x \in Requests :
               /\ wire' = Append(wire, x) /\ link # "down"
               /\ x.g \in {0, 0} /\ Fits(x, term'[0])
               /\ RequestOK(x)'
               /\ Plain(x) \/ \A a \in Elems(wire) : PairOK(a, x)'
    BY <1>3, <1>4, <1>5, <1>6 DEF CloseConnected, Fits
  <1>8. Remain(wire)
    BY <1>1, RemainWire DEF IInv
  <1> QED
    BY <1>2, <1>7, <1>8, Quiet

-----------------------------------------------------------------------------
(* Continuations and timers                                                *)

LEMMA OpenedConnected ==
    ASSUME IInv, NEW g \in Gens, OpenConnected(g)
    PROVE  IInv'
  <1>1. /\ Typed /\ TermAt(g) /\ wire \in Seq(Requests) /\ term[g] \in Terms /\ term[g].at = "wait"
        /\ g # 0 /\ g <= made /\ term[g].sid = NoSid
    BY TermFacts, UnbornFacts DEF IInv, OpenConnected, TermOK, Typed, TermAt
  <1>2. /\ pane' = pane /\ link' = link /\ made' = made /\ retired' = retired /\ retired' \in BOOLEAN
        /\ closing' = closing /\ killed' = killed /\ screen' = screen /\ exits' = exits /\ cur' = cur
        /\ detached' = detached /\ link # "down"
    BY <1>1 DEF OpenConnected, viewVars, keyVars, daemonVars, Typed
  <1> DEFINE t == [term[g] EXCEPT !.at = "none"]
  <1>3. t \in Terms /\ t.at = "none"
        /\ t.sid = term[g].sid /\ t.next = term[g].next /\ t.recovered = term[g].recovered
        /\ t.timer = term[g].timer /\ t.again = term[g].again /\ t.finalizing = term[g].finalizing
    BY <1>1 DEF Terms
  <1>4. Set(g, t)
    BY DEF OpenConnected
  <1> HIDE DEF t
  <1>5. /\ term' \in [Gens -> Terms] /\ term'[g] = t
        /\ \A h \in Gens : h # g => term'[h] = term[h]
    BY <1>1, <1>3, <1>4, SetFacts
  <1>6. Calm(g)
    BY <1>1, <1>3, <1>5, KeyTypes, TermFacts DEF Calm, Keeps
  <1>7. Remain(wire)
    BY <1>1, RemainWire DEF IInv
  <1>8. CASE wire' = wire
    BY <1>1, <1>2, <1>5, <1>6, <1>7, <1>8, Quiet
  <1>9. CASE wire' # wire
    <2>1. PICK r : r = Request("list", g, NoSid, "", 0)
      OBVIOUS
    <2>2. wire' = Append(wire, r) /\ cur = g
      BY <1>9, <2>1 DEF OpenConnected, Opening
    <2>3. r.op = "list" /\ r.g = g /\ r.sid = NoSid
      BY <2>1 DEF Request
    <2>4. r \in Requests
      BY <1>1, <2>1, RequestTypes DEF Ops, Whys, Sids
    <2>5. RequestOK(r)'
      <3>1. /\ Known(pane', r.sid) /\ r.g <= made' /\ r.g # 0 /\ term'[r.g].sid = NoSid
            /\ term'[r.g].at # "wait"
        BY <1>1, <1>2, <1>3, <1>5, <2>3 DEF Known
      <3>2. ~Creates(r) /\ ~OfPane(r) /\ ~Kills(r) /\ ~ByKey(r)
        BY <2>3 DEF Creates, OfPane, Kills, ByKey
      <3> QED
        BY <2>3, <3>1, <3>2 DEF RequestOK
    <2>6. ASSUME NEW a \in Elems(wire) PROVE PairOK(a, r)'
      <3>1. Opens(a) => a.g # g
        BY <1>1 DEF IInv, WireOK, RequestOK
      <3>2. a.op # "topology"
        BY <2>2, <3>1 DEF IInv, WireOK, RequestOK, Opens
      <3> QED
        BY <2>3, <3>1, <3>2 DEF PairOK, Opens, Creates, Seeds, Kills, SameG
    <2>7. \E x \in Requests :
                 /\ wire' = Append(wire, x) /\ link # "down"
                 /\ x.g \in {0, g} /\ Fits(x, term'[g])
                 /\ RequestOK(x)'
                 /\ Plain(x) \/ \A a \in Elems(wire) : PairOK(a, x)'
      BY <1>2, <2>2, <2>3, <2>4, <2>5, <2>6 DEF Fits
    <2> QED
      BY <1>1, <1>2, <1>5, <1>6, <1>7, <2>7, Quiet
  <1> QED
    BY <1>8, <1>9

LEMMA Finalized ==
    ASSUME IInv, NEW g \in Gens, FinalizeTimer(g)
    PROVE  IInv'
  <1>1. /\ Typed /\ TermAt(g) /\ wire \in Seq(Requests) /\ term[g] \in Terms /\ term[g].at = "retry"
        /\ g # 0 /\ g <= made /\ Ended(pane, term[g].sid) /\ term[g].sid # NoSid /\ term[g].sid \in Sids
    BY TermFacts, UnbornFacts DEF IInv, FinalizeTimer, TermOK, Typed, TermAt, Ended
  <1>2. /\ pane' = pane /\ link' = link /\ made' = made /\ retired' = retired /\ retired' \in BOOLEAN
        /\ closing' = closing /\ killed' = killed /\ screen' = screen /\ exits' = exits /\ cur' = cur
        /\ detached' = detached /\ link # "down"
    BY <1>1 DEF FinalizeTimer, viewVars, keyVars, daemonVars, Typed
  <1> DEFINE t == [term[g] EXCEPT !.at = "none"]
  <1>3. t \in Terms /\ t.at = "none"
        /\ t.sid = term[g].sid /\ t.next = term[g].next /\ t.recovered = term[g].recovered
        /\ t.timer = term[g].timer /\ t.again = term[g].again /\ t.finalizing = term[g].finalizing
    BY <1>1 DEF Terms
  <1>4. Set(g, t)
    BY DEF FinalizeTimer
  <1> HIDE DEF t
  <1>5. /\ term' \in [Gens -> Terms] /\ term'[g] = t
        /\ \A h \in Gens : h # g => term'[h] = term[h]
    BY <1>1, <1>3, <1>4, SetFacts
  <1>6. Calm(g) /\ Keeps(g)
    BY <1>1, <1>3, <1>5, KeyTypes, TermFacts DEF Calm, Keeps
  <1>7. Remain(wire)
    BY <1>1, RemainWire DEF IInv
  <1>8. CASE wire' = wire
    BY <1>1, <1>2, <1>5, <1>6, <1>7, <1>8, Quiet
  <1>9. CASE wire' # wire
    <2>1. PICK r : r = Request("destroy", g, term[g].sid, "exit", 0)
      OBVIOUS
    <2>2. wire' = Append(wire, r)
      BY <1>9, <2>1 DEF FinalizeTimer, DestroyExited, Destroy
    <2>3. r.op = "destroy" /\ r.g = g /\ r.sid = term[g].sid /\ r.why = "exit"
      BY <2>1 DEF Request
    <2>4. r \in Requests
      BY <1>1, <2>1, RequestTypes DEF Ops, Whys
    <2>5. RequestOK(r)' /\ Plain(r)
      <3>1. PaneStep
        BY <1>1, <1>2, StillPanes
      <3> QED
        BY <1>1, <1>2, <1>6, <2>3, <2>4, <3>1, PaneRequest DEF Kills, Plain
    <2>7. \E x \in Requests :
                 /\ wire' = Append(wire, x) /\ link # "down"
                 /\ x.g \in {0, g} /\ Fits(x, term'[g])
                 /\ RequestOK(x)'
                 /\ Plain(x) \/ \A a \in Elems(wire) : PairOK(a, x)'
      BY <1>2, <2>2, <2>3, <2>4, <2>5 DEF Fits
    <2> QED
      BY <1>1, <1>2, <1>5, <1>6, <1>7, <2>7, Quiet
  <1> QED
    BY <1>8, <1>9

(* A poll that a terminal sends *)
LEMMA NewPoll ==
    ASSUME made' = made, NEW g \in Gens, g <= made, NEW t \in Terms, term'[g] = t, t.sid # NoSid,
           ~t.recovered, ~t.timer, Known(pane', t.sid), pane'[t.sid[1]].st # "recovered",
           NEW u \in Terms, SameTerm(u, t), NEW r, r = Output(g, u)
    PROVE  /\ r \in Requests /\ r.g = g /\ r.op = "output" /\ RequestOK(r)' /\ Fits(r, t)
           /\ \A a : /\ a.op # "inventory"
                     /\ a.g = g => a.op # "output" /\ (a.op = "attach" => Refused(pane', a) /\ a.why # "open")
                     => PairOK(a, r)'
  <1>1. /\ r.op = "output" /\ r.g = g /\ r.sid = t.sid /\ r.n = t.next
    BY DEF Output, Request, SameTerm
  <1>2. r \in Requests
    <2>1. u.sid \in Sids /\ u.next \in Nat
      BY DEF Terms
    <2> QED
      BY <2>1, RequestTypes DEF Output, Ops, Whys
  <1>3. g # 0
    BY DEF Gens
  <1>4. RequestOK(r)'
    <2>1. ~Opens(r) /\ ~Creates(r) /\ ~Kills(r) /\ ~ByKey(r)
      BY <1>1 DEF Opens, Creates, Kills, ByKey
    <2> QED
      BY <1>1, <1>3, <2>1 DEF RequestOK
  <1>5. \A a : /\ a.op # "inventory"
               /\ a.g = g => a.op # "output" /\ (a.op = "attach" => Refused(pane', a) /\ a.why # "open")
               => PairOK(a, r)'
    BY <1>1 DEF PairOK, SameG, Opens, Creates, Seeds, Kills
  <1> QED
    BY <1>1, <1>2, <1>3, <1>4, <1>5 DEF Fits

LEMMA PollTimed ==
    ASSUME IInv, NEW g \in Gens, PollTimer(g)
    PROVE  IInv'
  <1>1. /\ Typed /\ TermAt(g) /\ PollAt(g) /\ ScreenAt(g) /\ wire \in Seq(Requests) /\ term[g] \in Terms
        /\ term[g].timer /\ term[g].sid # NoSid /\ g # 0 /\ g <= made
    BY TermFacts, UnbornFacts DEF IInv, PollTimer, TermOK, PollOK, ScreenOK, Typed, TermAt
  <1>2. /\ pane' = pane /\ link' = link /\ made' = made /\ retired' = retired /\ retired' \in BOOLEAN
        /\ closing' = closing /\ killed' = killed /\ screen' = screen /\ exits' = exits /\ cur' = cur
        /\ detached' = detached
    BY <1>1 DEF PollTimer, viewVars, keyVars, daemonVars, Typed
  <1>3. PICK t : t = Polling(g, term[g])
    OBVIOUS
  <1>4. t \in Terms /\ SameTerm(term[g], t) /\ ~t.timer
    BY <1>1, <1>3, PollingFacts
  <1>5. /\ term' \in [Gens -> Terms] /\ term'[g] = t
        /\ \A h \in Gens : h # g => term'[h] = term[h]
    BY <1>1, <1>3, <1>4, SetFacts DEF PollTimer
  <1>6. Calm(g)
    BY <1>1, <1>4, <1>5, KeyTypes, TermFacts DEF Calm, Keeps, SameTerm
  <1>7. CASE ~(CanPoll(g, term[g]) /\ link # "down")
    <2>1. wire' = wire /\ Remain(wire)
      BY <1>1, <1>7, RemainWire DEF IInv, PollTimer, PollOn
    <2> QED
      BY <1>1, <1>2, <1>5, <1>6, <2>1, Quiet
  <1>8. CASE CanPoll(g, term[g]) /\ link # "down"
    <2>1. PICK r : r = Output(g, term[g])
      OBVIOUS
    <2> DEFINE q == NoPolls(wire, g)
    <2>2. wire' = Append(q, r)
      BY <1>8, <2>1 DEF PollTimer, PollOn
    <2>3. /\ Remain(q) /\ \A a \in Elems(wire) : Seeds(a) => a \in Elems(q)
          /\ \A a \in Elems(q) : ~(a.op = "output" /\ a.g = g)
      BY <1>1, RemainWire DEF IInv, Seeds
    <2> HIDE DEF q
    <2>4. \A a \in Elems(q) :
             /\ a.op # "inventory"
             /\ a.g = g => a.op # "output" /\ (a.op = "attach" => Refused(pane', a) /\ a.why # "open")
      BY <1>1, <1>2, <2>3 DEF PollAt, Remain
    <2>5. pane[t.sid[1]].st # "recovered" /\ ~t.recovered /\ t.sid # NoSid
      <3>1. ~Has(g, "inventory")
        BY <1>1 DEF PollAt, Has
      <3> QED
        BY <1>1, <1>4, <1>8, <3>1 DEF ScreenAt, CanPoll, SameTerm
    <2>6. Known(pane', t.sid)
      BY <1>1, <1>2, <1>4 DEF TermAt, SameTerm
    <2>7. /\ r \in Requests /\ r.g = g /\ r.op = "output" /\ RequestOK(r)' /\ Fits(r, t)
          /\ \A a : /\ a.op # "inventory"
                    /\ a.g = g => a.op # "output" /\ (a.op = "attach" => Refused(pane', a) /\ a.why # "open")
                    => PairOK(a, r)'
      BY <1>1, <1>2, <1>4, <1>5, <2>1, <2>5, <2>6, NewPoll
    <2>8. \E x \in Requests :
                 /\ wire' = Append(q, x) /\ link # "down"
                 /\ x.g \in {0, g} /\ Fits(x, term'[g])
                 /\ RequestOK(x)'
                 /\ Plain(x) \/ \A a \in Elems(q) : PairOK(a, x)'
      BY <1>5, <1>8, <2>2, <2>4, <2>7
    <2> QED
      BY <1>1, <1>2, <1>5, <1>6, <2>3, <2>8, Quiet
  <1> QED
    BY <1>7, <1>8

LEMMA PendingFacts ==
    ASSUME NEW g, NEW ops, ~Pending(g, ops)
    PROVE  \A r \in Elems(wire) : ~(r.g = g /\ r.op \in ops)
  BY DEF Pending, Elems

LEMMA AgainAttached ==
    ASSUME IInv, ~Overlap, NEW g \in Gens, AgainConnected(g)
    PROVE  IInv'
  <1>1. /\ Typed /\ TermAt(g) /\ PollAt(g) /\ wire \in Seq(Requests) /\ term[g] \in Terms
        /\ term[g].again /\ term[g].sid # NoSid /\ g # 0 /\ g <= made
    BY TermFacts, UnbornFacts DEF IInv, AgainConnected, TermOK, PollOK, Typed, TermAt
  <1>2. /\ pane' = pane /\ link' = link /\ made' = made /\ retired' = retired /\ retired' \in BOOLEAN
        /\ closing' = closing /\ killed' = killed /\ screen' = screen /\ exits' = exits /\ cur' = cur
        /\ detached' = detached /\ link # "down"
    BY <1>1 DEF AgainConnected, viewVars, keyVars, daemonVars, Typed
  <1> DEFINE t == [Stopped(term[g]) EXCEPT !.again = FALSE]
  <1>3. t \in Terms /\ ~t.again /\ ~t.timer /\ t.at = term[g].at
        /\ t.sid = term[g].sid /\ t.next = term[g].next /\ t.recovered = term[g].recovered
        /\ t.finalizing = term[g].finalizing
    BY <1>1 DEF Terms, Stopped
  <1>4. Set(g, t)
    BY DEF AgainConnected
  <1> HIDE DEF t
  <1>5. /\ term' \in [Gens -> Terms] /\ term'[g] = t
        /\ \A h \in Gens : h # g => term'[h] = term[h]
    BY <1>1, <1>3, <1>4, SetFacts
  <1>6. Calm(g)
    BY <1>1, <1>3, <1>5, KeyTypes, TermFacts DEF Calm, Keeps
  <1>7. PICK r : r = Request("attach", g, term[g].sid, "again", 0)
    OBVIOUS
  <1> DEFINE q == NoPolls(wire, g)
  <1>8. wire' = Append(q, r)
    BY <1>7 DEF AgainConnected, Attach
  <1>9. /\ Remain(q) /\ \A a \in Elems(wire) : Seeds(a) => a \in Elems(q)
        /\ \A a \in Elems(q) : ~(a.op = "output" /\ a.g = g)
    BY <1>1, RemainWire DEF IInv, Seeds
  <1> HIDE DEF q
  <1>10. r.op = "attach" /\ r.g = g /\ r.sid = term[g].sid /\ r.why = "again"
    BY <1>7 DEF Request
  <1>11. r \in Requests
    BY <1>1, <1>7, RequestTypes DEF Ops, Whys, Terms
  <1>12. RequestOK(r)'
    <2>1. ~Opens(r) /\ ~Creates(r) /\ ~Kills(r) /\ ~ByKey(r)
      BY <1>10 DEF Opens, Creates, Kills, ByKey
    <2>2. Known(pane', r.sid) /\ r.g <= made' /\ r.g # 0 /\ r.sid = term'[r.g].sid /\ r.sid # NoSid
      BY <1>1, <1>2, <1>3, <1>5, <1>10 DEF TermAt
    <2> QED
      BY <1>10, <2>1, <2>2 DEF RequestOK
  <1>13. ASSUME NEW a \in Elems(q) PROVE PairOK(a, r)'
    <2>1. a.g = g => a.op \notin {"inventory", "attach", "history", "output"}
      <3>1. ~Pending(g, {"inventory", "attach"})
        BY DEF AgainConnected
      <3>2. a \in Elems(wire)
        BY <1>9 DEF Remain
      <3> QED
        BY <1>1, <1>9, <3>1, <3>2, PendingFacts DEF PollAt
    <2> QED
      BY <1>10, <2>1 DEF PairOK, Opens, Creates, Seeds, Kills, SameG
  <1>14. \E x \in Requests :
               /\ wire' = Append(q, x) /\ link # "down"
               /\ x.g \in {0, g} /\ Fits(x, term'[g])
               /\ RequestOK(x)'
               /\ Plain(x) \/ \A a \in Elems(q) : PairOK(a, x)'
    BY <1>1, <1>2, <1>3, <1>5, <1>8, <1>10, <1>11, <1>12, <1>13 DEF Fits
  <1> QED
    BY <1>1, <1>2, <1>5, <1>6, <1>9, <1>14, Quiet

LEMMA OpenedAgain ==
    ASSUME IInv, OpenAgain
    PROVE  IInv'
  <1>1. /\ Typed /\ cur \in Gens /\ cur # 0 /\ cur <= made /\ TermAt(cur) /\ PollAt(cur) /\ ScreenAt(cur)
        /\ wire \in Seq(Requests) /\ term[cur] \in Terms
    BY CurFacts, TermFacts, UnbornFacts DEF IInv, OpenAgain, TermOK, PollOK, ScreenOK, Typed
  <1>2. /\ pane' = pane /\ link' = link /\ made' = made /\ retired' = retired /\ retired' \in BOOLEAN
        /\ closing' = closing /\ killed' = FALSE /\ screen' = screen /\ exits' = exits /\ cur' = cur
        /\ detached' = detached /\ wire' = wire
    BY <1>1 DEF OpenAgain, viewVars, Typed
  <1> DEFINE t == [term[cur] EXCEPT !.again = TRUE]
  <1>3. t \in Terms /\ t.at = term[cur].at
        /\ t.sid = term[cur].sid /\ t.next = term[cur].next /\ t.recovered = term[cur].recovered
        /\ t.timer = term[cur].timer /\ t.finalizing = term[cur].finalizing
    BY <1>1 DEF Terms
  <1>4. Set(cur, t)
    BY DEF OpenAgain
  <1> HIDE DEF t
  <1>5. /\ term' \in [Gens -> Terms] /\ term'[cur] = t
        /\ \A h \in Gens : h # cur => term'[h] = term[h]
    BY <1>1, <1>3, <1>4, SetFacts
  <1>6. PaneStep /\ NoRecovery /\ NoCreation /\ CurStep /\ Remain(wire)
    BY <1>1, <1>2, StillPanes, RemainWire DEF IInv, CurStep
  <1>7. Typed' /\ DetachedOK'
    <2>1. Typed'
      BY <1>1, <1>2, <1>5 DEF Typed, Stamp
    <2> QED
      BY <1>1, <1>2, <1>6, <2>1, DetachedSteps DEF IInv
  <1>8. \A a \in Elems(wire) : Creates(a) => NonePresent(pane')
    BY <1>2 DEF IInv, WireOK, RequestOK
  <1>9. \A a \in Elems(wire) : a.g = cur => RequestOK(a)'
    <2>1. Keeps(cur) /\ (term[cur].at # "wait" => term'[cur].at # "wait")
      BY <1>3, <1>5 DEF Keeps
    <2> QED
      BY <1>1, <1>2, <1>6, <1>8, <2>1, Kept
  <1>10. /\ WireOK' /\ OrderOK'
         /\ \A g \in Gens : g # cur => TermAt(g)' /\ PollAt(g)' /\ ScreenAt(g)'
    <2>1. PICK g0 : g0 = cur
      OBVIOUS
    <2>2. /\ g0 \in {0} \cup Gens /\ cur' \in {cur, 0, g0} /\ (link' = "down" \/ link # "down" \/ link = "down")
          /\ \A g \in Gens : g # g0 => /\ term'[g] = term[g] /\ screen'[g] = screen[g]
                                       /\ exits'[g] = exits[g]
          /\ \A a \in Elems(wire) : a.g = g0 /\ g0 # 0 => RequestOK(a)'
      BY <1>1, <1>2, <1>5, <1>9, <2>1
    <2>3. link' = "down" \/ link # "down"
      BY <1>2
    <2>4. pane' \in [Panes -> States]
      BY <1>7 DEF Typed
    <2>5. \A a \in Elems(wire) : a.op = "topology" => cur' = cur
      BY <1>2
    <2> QED
      BY <1>2, <1>6, <1>8, <2>1, <2>2, <2>3, <2>4, <2>5, Frame
  <1>11. TermAt(cur)'
    <2>1. term[cur].sid # NoSid /\ ~(cur > made)
      BY <1>1, KeyTypes DEF OpenAgain
    <2> QED
      BY <1>1, <1>2, <1>3, <1>5, <2>1 DEF TermAt
  <1>12. PollAt(cur)'
    <2>1. \A r \in Elems(wire) : ~(r.g = cur /\ r.op \in {"attach", "history"})
      BY PendingFacts DEF OpenAgain
    <2> QED
      BY <1>1, <1>2, <1>3, <1>5, <2>1 DEF PollAt, Has
  <1>13. ScreenAt(cur)'
    BY <1>1, <1>2, <1>3, <1>5 DEF ScreenAt, Has, AttachOpens
  <1>14. KeyOK'
    BY <1>2 DEF KeyOK, IInv, OneDaemonPane, Present, Stamp
  <1>15. TermOK' /\ PollOK' /\ ScreenOK'
    BY <1>2, <1>10, <1>11, <1>12, <1>13 DEF TermOK, PollOK, ScreenOK
  <1> QED
    BY <1>7, <1>10, <1>14, <1>15 DEF IInv

LEMMA Opened ==
    ASSUME IInv, NEW kind \in {"restore", "create", "run"}, Open(kind)
    PROVE  IInv'
  <1>1. /\ Typed /\ wire \in Seq(Requests) /\ made \in Nat /\ cur = 0 /\ made + 1 \in Gens
        /\ made + 1 \in 0..MaxGen
    BY KeyTypes, BoundsNat DEF IInv, Open, Typed, Gens
  <1>2. PICK g0 : g0 = made + 1
    OBVIOUS
  <1>3. /\ pane' = pane /\ link' = link /\ made' = g0 /\ retired' = FALSE
        /\ closing' = closing /\ killed' = FALSE /\ screen' = screen /\ exits' = exits /\ cur' = g0
        /\ detached' = detached /\ wire' = wire
    BY <1>1, <1>2 DEF Open, viewVars
  <1> DEFINE t == [Unborn EXCEPT !.at = "wait", !.kind = kind]
  <1>4. t \in Terms /\ t.at = "wait" /\ t.sid = NoSid /\ t.next = 1 /\ ~t.recovered
        /\ ~t.timer /\ ~t.finalizing /\ ~t.again
    <2>1. /\ Unborn \in Terms /\ Unborn.sid = NoSid /\ Unborn.next = 1 /\ ~Unborn.recovered
          /\ ~Unborn.timer /\ ~Unborn.finalizing /\ ~Unborn.again
      BY DEF Terms, Unborn, Sids
    <2> QED
      BY <2>1 DEF Terms
  <1>5. Set(g0, t)
    BY <1>2 DEF Open
  <1> HIDE DEF t
  <1>6. /\ term' \in [Gens -> Terms] /\ term'[g0] = t
        /\ \A h \in Gens : h # g0 => term'[h] = term[h]
    BY <1>1, <1>2, <1>4, <1>5, SetFacts
  <1>7. PaneStep /\ NoRecovery /\ NoCreation /\ CurStep /\ Remain(wire)
    BY <1>1, <1>2, <1>3, StillPanes, RemainWire DEF IInv, CurStep
  <1>8. Typed' /\ DetachedOK'
    <2>1. closing \in 0..(made + 1) => closing \in 0..(g0 + 1)
      BY <1>1, <1>2
    <2>2. g0 \in 0..g0
      BY <1>1, <1>2
    <2>3. Typed'
      BY <1>1, <1>2, <1>3, <1>6, <2>1, <2>2 DEF Typed, Stamp
    <2> QED
      BY <1>1, <1>3, <1>7, <2>3, DetachedSteps DEF IInv
  <1>9. \A a \in Elems(wire) : /\ Creates(a) => NonePresent(pane')
                               /\ a.op # "topology" /\ a.g # g0
    <2> SUFFICES ASSUME NEW a \in Elems(wire)
                 PROVE  (Creates(a) => NonePresent(pane')) /\ a.op # "topology" /\ a.g # g0
      OBVIOUS
    <2>1. RequestOK(a) /\ a \in Requests
      BY <1>1, ElemsFacts DEF IInv, WireOK
    <2>2. a.g \in {0} \cup Gens
      BY <2>1 DEF Requests
    <2>3. a.g \in Nat
      BY <2>2 DEF Gens
    <2> QED
      BY <1>1, <1>2, <1>3, <2>1, <2>3 DEF RequestOK, Opens
  <1>10. /\ WireOK' /\ OrderOK'
         /\ \A g \in Gens : g # g0 => TermAt(g)' /\ PollAt(g)' /\ ScreenAt(g)'
    <2>2. /\ g0 \in {0} \cup Gens /\ cur' \in {cur, 0, g0}
          /\ \A g \in Gens : g # g0 => /\ term'[g] = term[g] /\ screen'[g] = screen[g]
                                       /\ exits'[g] = exits[g]
          /\ \A a \in Elems(wire) : a.g = g0 /\ g0 # 0 => RequestOK(a)'
      BY <1>1, <1>2, <1>3, <1>6, <1>9
    <2>4. pane' \in [Panes -> States]
      BY <1>8 DEF Typed
    <2>5. \A a \in Elems(wire) : a.op = "topology" => cur' = cur
      BY <1>9
    <2>6. CASE link # "down"
      BY <1>3, <1>7, <1>9, <2>2, <2>4, <2>5, <2>6, Frame
    <2>7. CASE link = "down"
      BY <1>3, <1>7, <1>9, <2>2, <2>4, <2>5, <2>7, Frame
    <2> QED
      BY <2>6, <2>7
  <1>11. TermAt(g0)'
    <2>1. screen[g0] = << >> /\ exits[g0] = << >>
      BY <1>1, <1>2 DEF IInv, TermOK, TermAt
    <2> QED
      BY <1>1, <1>2, <1>3, <1>4, <1>6, <2>1 DEF TermAt, Known, NoSid
  <1>12. PollAt(g0)' /\ ScreenAt(g0)'
    <2>1. screen[g0] = << >>
      BY <1>1, <1>2 DEF IInv, TermOK, TermAt
    <2>2. Continuous(screen'[g0])
      BY <1>3, <2>1 DEF Continuous
    <2> QED
      BY <1>1, <1>3, <1>4, <1>6, <2>1, <2>2 DEF PollAt, ScreenAt
  <1>14. KeyOK'
    <2>1. closing # made' + 1
      BY <1>1, <1>2, <1>3 DEF Typed, Stamp
    <2> QED
      BY <1>3, <2>1 DEF KeyOK, IInv, OneDaemonPane, Present, Stamp
  <1>15. TermOK' /\ PollOK' /\ ScreenOK'
    BY <1>10, <1>11, <1>12 DEF TermOK, PollOK, ScreenOK
  <1> QED
    BY <1>8, <1>10, <1>14, <1>15 DEF IInv

LEMMA Connected ==
    ASSUME IInv, Connect
    PROVE  IInv'
  <1>1. /\ Typed /\ wire = << >> /\ (cur # 0 => cur \in Gens /\ cur <= made)
        /\ TermOK /\ PollOK /\ ScreenOK /\ DetachedOK
    BY CurFacts, UnbornFacts DEF IInv, Connect, KeyOK
  <1>2. /\ pane' = pane /\ link' = "up" /\ made' = made /\ retired' = retired
        /\ closing' = closing /\ killed' = killed /\ screen' = screen /\ exits' = exits /\ cur' = cur
        /\ detached' = detached /\ term' = term /\ wire' = Reattaching
        /\ \A g \in Gens : ~term[g].timer
    BY DEF Connect, viewVars, keyVars, daemonVars
  <1>3. PICK r : r = Request("inventory", cur, NoSid, "", 0)
    OBVIOUS
  <1>4. r.op = "inventory" /\ r.g = cur /\ r.sid = NoSid
    BY <1>3 DEF Request
  <1>5. /\ wire' \in Seq(Requests) /\ Prec(wire') = {}
        /\ \/ Elems(wire') = {} /\ ~(cur # 0 /\ term[cur].sid # NoSid)
           \/ Elems(wire') = {r} /\ cur # 0 /\ term[cur].sid # NoSid
    <2>1. CASE cur # 0 /\ term[cur].sid # NoSid
      <3>1. wire' = <<r>> /\ r \in Requests
        BY <1>1, <1>2, <1>3, <2>1, RequestTypes DEF Reattaching, Ops, Whys, Sids
      <3>2. wire' \in Seq(Requests) /\ DOMAIN wire' = {1} /\ wire'[1] = r
        BY <3>1
      <3> QED
        BY <2>1, <3>2 DEF Elems, Prec
    <2>2. CASE ~(cur # 0 /\ term[cur].sid # NoSid)
      <3>a. wire' = << >>
        BY <1>2, <2>2 DEF Reattaching
      <3>1. wire' = << >> /\ wire' \in Seq(Requests)
        BY <3>a
      <3> QED
        BY <2>2, <3>1, ElemsFacts
    <2> QED
      BY <2>1, <2>2
  <1>6. Typed' /\ DetachedOK'
    BY <1>1, <1>2, <1>5 DEF Typed, Stamp, DetachedOK
  <1>7. WireOK' /\ OrderOK'
    <2>1. cur # 0 /\ term[cur].sid # NoSid => RequestOK(r)'
      <3>1. ~Opens(r) /\ ~Creates(r) /\ ~OfPane(r) /\ ~Kills(r) /\ ~ByKey(r)
        BY <1>4 DEF Opens, Creates, OfPane, Kills, ByKey
      <3> QED
        BY <1>1, <1>2, <1>4, <3>1 DEF RequestOK, Known
    <2> QED
      BY <1>5, <2>1 DEF WireOK, OrderOK
  <1>8. ASSUME NEW g \in Gens PROVE TermAt(g)' /\ PollAt(g)' /\ ScreenAt(g)'
    <2>1. TermAt(g) /\ PollAt(g) /\ ScreenAt(g) /\ g # 0 /\ Elems(wire) = {}
      BY <1>1 DEF TermOK, PollOK, ScreenOK, Gens, Elems
    <2>2. TermAt(g)'
      BY <1>2, <2>1 DEF TermAt
    <2>3. PollAt(g)'
      BY <1>2, <1>4, <1>5, <2>1 DEF PollAt, Has
    <2>4. ~Has(g, "history") /\ ~AttachOpens(g) /\ ~Has(g, "inventory")
      BY <2>1 DEF Has, AttachOpens
    <2>5. cur = g /\ term[g].sid # NoSid => Has(g, "inventory")'
      BY <1>4, <1>5, <2>1 DEF Has
    <2>6. ScreenAt(g)'
      BY <1>2, <2>1, <2>4, <2>5 DEF ScreenAt
    <2> QED
      BY <2>2, <2>3, <2>6
  <1>9. KeyOK'
    <2>1. \A x \in Elems(wire') : x.op # "create"
      BY <1>4, <1>5
    <2> QED
      BY <1>2, <2>1 DEF KeyOK, IInv, OneDaemonPane, Present, Stamp
  <1> QED
    BY <1>6, <1>7, <1>8, <1>9 DEF IInv, TermOK, PollOK, ScreenOK

-----------------------------------------------------------------------------
(* What the daemon carries out                                             *)

UserClosed(p) == \E r \in Elems(wire) : r.op = "destroy" /\ r.why # "exit" /\ r.sid[1] = p
Created(ps) == \E p \in Panes : pane[p].st = "none" /\ ps[p].st = "live"
CarriedOK(ps) ==
    /\ ps \in [Panes -> States]
    /\ \A p \in Panes :
          /\ \/ ps[p].st = pane[p].st
             \/ pane[p].st = "none" /\ ps[p].st = "live"
             \/ /\ pane[p].st \in {"live", "exited", "recovered"} /\ ps[p].st = "gone"
                /\ pane[p].st # "exited" => UserClosed(p)
          /\ pane[p].st # "none" => ps[p].out = pane[p].out
    /\ \A p, q \in Panes : Present(ps, p) /\ Present(ps, q) => p = q

LEMMA FreeFacts ==
    ASSUME NEW ps, HasFree(ps)
    PROVE  FreePane(ps) \in Panes /\ ps[FreePane(ps)].st = "none"
  BY DEF HasFree, FreePane

LEMMA CarriedKeeps ==
    ASSUME IInv, NEW r \in Elems(wire), NEW ps, CarriedOK(ps), r.op = "create" => ~Created(ps)
    PROVE  /\ CarriedOK(Carried(ps, r))
           /\ Created(Carried(ps, r)) => Created(ps) \/ r.op = "create"
  <1>1. Typed /\ RequestOK(r) /\ r \in Requests /\ r.sid \in Sids
    <2>1. Typed /\ RequestOK(r) /\ r \in Requests
      BY ElemsFacts DEF IInv, WireOK, Typed
    <2> QED
      BY <2>1 DEF Requests
  <1> DEFINE p == r.sid[1]
  <1>2. CASE Carried(ps, r) = ps
    BY <1>2
  <1>3. CASE r.op = "create" /\ HasFree(ps)
    <2> DEFINE f == FreePane(ps)
    <2>1. f \in Panes /\ ps[f].st = "none"
      BY <1>3, FreeFacts
    <2> HIDE DEF f
    <2>2. Carried(ps, r) = [ps EXCEPT ![f] = [st |-> "live", out |-> 0, owner |-> "nobody"]]
      BY <1>3 DEF Carried, f
    <2>3. PICK n : n = Carried(ps, r)
      OBVIOUS
    <2>4. /\ n \in [Panes -> States] /\ n[f].st = "live"
          /\ \A x \in Panes : x # f => n[x] = ps[x]
      BY <2>1, <2>2, <2>3, BoundsNat DEF CarriedOK, States
    <2>5. pane[f].st = "none"
      BY <2>1 DEF CarriedOK
    <2>6. \A x \in Panes : ~Present(ps, x)
      BY <1>1, <1>3 DEF RequestOK, Creates, NonePresent, Present, CarriedOK, Created
    <2>7. \A x \in Panes : Present(n, x) => x = f
      BY <2>4, <2>6 DEF Present
    <2>8. CarriedOK(n)
      BY <2>4, <2>5, <2>7 DEF CarriedOK
    <2> QED
      BY <1>3, <2>3, <2>8
  <1>4. CASE r.op = "attach" /\ Found(ps, r.sid) /\ ps[p].st # "exited"
    <2>1. Carried(ps, r) = [ps EXCEPT ![p].owner = "us"] /\ p \in Panes
      BY <1>4 DEF Carried, Found
    <2>2. PICK n : n = Carried(ps, r)
      OBVIOUS
    <2>3. n \in [Panes -> States] /\ \A x \in Panes : n[x].st = ps[x].st /\ n[x].out = ps[x].out
      BY <2>1, <2>2 DEF CarriedOK, States
    <2>4. CarriedOK(n) /\ (Created(n) => Created(ps))
      BY <2>3 DEF CarriedOK, Created, Present
    <2> QED
      BY <2>2, <2>4
  <1>5. CASE r.op = "detach" /\ Found(ps, r.sid) /\ ps[p].owner # "other"
    <2>1. Carried(ps, r) = [ps EXCEPT ![p].owner = "nobody"] /\ p \in Panes
      BY <1>5 DEF Carried, Found
    <2>2. PICK n : n = Carried(ps, r)
      OBVIOUS
    <2>3. n \in [Panes -> States] /\ \A x \in Panes : n[x].st = ps[x].st /\ n[x].out = ps[x].out
      BY <2>1, <2>2 DEF CarriedOK, States
    <2>4. CarriedOK(n) /\ (Created(n) => Created(ps))
      BY <2>3 DEF CarriedOK, Created, Present
    <2> QED
      BY <2>2, <2>4
  <1>6. CASE r.op = "destroy" /\ Found(ps, r.sid)
    <2>1. Carried(ps, r) = [ps EXCEPT ![p].st = "gone", ![p].owner = "nobody"] /\ p \in Panes
      BY <1>6 DEF Carried, Found
    <2>2. PICK n : n = Carried(ps, r)
      OBVIOUS
    <2>3. /\ n \in [Panes -> States] /\ n[p].st = "gone" /\ n[p].out = ps[p].out
          /\ \A x \in Panes : x # p => n[x] = ps[x]
      BY <2>1, <2>2 DEF CarriedOK, States
    <2>4. Present(ps, p) /\ r.sid # NoSid /\ pane[p].st # "none"
      <3>1. r.sid # NoSid
        BY <1>6, <2>1 DEF Found, NoSid, Panes
      <3> QED
        BY <1>1, <1>6, <3>1 DEF Found, RequestOK, Known
    <2>5. pane[p].st \in {"live", "exited", "recovered"}
      BY <2>1, <2>4 DEF CarriedOK, Present
    <2>6. pane[p].st # "exited" => UserClosed(p)
      <3>1. r.why = "exit" => Ended(pane, r.sid)
        BY <1>1, <1>6 DEF RequestOK
      <3> QED
        BY <1>6, <2>5, <3>1 DEF UserClosed, Ended
    <2>7. \A x \in Panes : Present(n, x) => Present(ps, x)
      BY <2>1, <2>3 DEF Present
    <2> HIDE DEF p
    <2>8. CarriedOK(n)
      BY <2>1, <2>3, <2>5, <2>6, <2>7 DEF CarriedOK
    <2>9. ASSUME Created(n) PROVE Created(ps)
      <3>1. PICK x \in Panes : pane[x].st = "none" /\ n[x].st = "live"
        BY <2>9 DEF Created
      <3>2. x # p /\ n[x] = ps[x]
        BY <2>3, <3>1
      <3> QED
        BY <3>1, <3>2 DEF Created
    <2> QED
      BY <2>2, <2>8, <2>9
  <1> QED
    BY <1>2, <1>3, <1>4, <1>5, <1>6 DEF Carried

LEMMA CarriedSelf == IInv => CarriedOK(pane) /\ ~Created(pane)
  BY DEF IInv, Typed, KeyOK, OneDaemonPane, CarriedOK, Created

(* Whatever prefix of the wire the daemon has carried out                  *)
LEMMA CarriedAll ==
    ASSUME IInv, NEW ps \in CarriedOut
    PROVE  CarriedOK(ps) /\ (Created(ps) => \E r \in Elems(wire) : r.op = "create")
  <1>1. wire \in Seq(Requests) /\ Len(wire) \in Nat /\ DOMAIN wire = 1..Len(wire)
    BY DEF IInv, Typed
  <1>2. After = [k \in 0..Len(wire) |-> IF k = 0 THEN pane ELSE Carried(After[k - 1], wire[k])]
    BY <1>1, AfterDef
  <1> DEFINE OkAt(k) == /\ CarriedOK(After[k])
                        /\ Created(After[k]) => \E i \in 1..k : wire[i].op = "create"
             S == {k \in 0..Len(wire) : OkAt(k)}
  <1>3. 0 \in S
    <2>1. After[0] = pane /\ 0 \in 0..Len(wire)
      BY <1>1, <1>2
    <2> QED
      BY <2>1, CarriedSelf
  <1>4. ASSUME NEW n \in 0..(Len(wire) - 1), n \in S PROVE n + 1 \in S
    <2>1. n + 1 \in DOMAIN wire /\ n + 1 \in 0..Len(wire) /\ n + 1 # 0 /\ (n + 1) - 1 = n /\ n \in Nat
      BY <1>1
    <2>2. After[n + 1] = Carried(After[n], wire[n + 1])
      BY <1>2, <2>1
    <2>3. wire[n + 1] \in Elems(wire) /\ OkAt(n)
      BY <1>4, <2>1 DEF Elems
    <2>4. wire[n + 1].op = "create" => ~Created(After[n])
      <3> SUFFICES ASSUME wire[n + 1].op = "create", Created(After[n]) PROVE FALSE
        OBVIOUS
      <3>1. PICK i \in 1..n : wire[i].op = "create"
        BY <2>3
      <3>2. i \in DOMAIN wire /\ i < n + 1
        BY <1>1, <2>1
      <3>3. <<wire[i], wire[n + 1]>> \in Prec(wire) /\ wire[i] \in Elems(wire)
        BY <2>1, <3>2, PrecIntro DEF Elems
      <3>4. PairOK(wire[i], wire[n + 1])
        BY <2>3, <3>3 DEF IInv, OrderOK
      <3> QED
        BY <3>1, <3>4 DEF PairOK, Creates
    <2>5. /\ CarriedOK(After[n + 1])
          /\ Created(After[n + 1]) => Created(After[n]) \/ wire[n + 1].op = "create"
      BY <2>2, <2>3, <2>4, CarriedKeeps
    <2>6. Created(After[n + 1]) => \E i \in 1..(n + 1) : wire[i].op = "create"
      <3>1. CASE wire[n + 1].op = "create"
        BY <2>1, <3>1
      <3>2. CASE wire[n + 1].op # "create"
        <4> SUFFICES ASSUME Created(After[n + 1]) PROVE \E i \in 1..(n + 1) : wire[i].op = "create"
          OBVIOUS
        <4>1. PICK i \in 1..n : wire[i].op = "create"
          BY <2>3, <2>5, <3>2
        <4>2. i \in 1..(n + 1)
          BY <2>1
        <4> QED
          BY <4>1, <4>2
      <3> QED
        BY <3>1, <3>2
    <2> QED
      BY <2>1, <2>5, <2>6
  <1>5. \A k \in 0..Len(wire) : k \in S
    <2> HIDE DEF S
    <2> QED
      BY <1>1, <1>3, <1>4, SetInduction
  <1>6. CASE ps = pane
    BY <1>6, CarriedSelf
  <1>7. CASE ps # pane
    <2>1. PICK k \in 0..Len(wire) : ps = After[k]
      BY <1>7 DEF CarriedOut
    <2>2. OkAt(k)
      BY <1>5, <2>1
    <2>3. Created(ps) => \E r \in Elems(wire) : r.op = "create"
      BY <1>1, <2>1, <2>2 DEF Elems
    <2> QED
      BY <2>1, <2>2, <2>3
  <1> QED
    BY <1>6, <1>7

(* A terminal whose pending requests are rejected *)
LEMMA RejectedFacts ==
    ASSUME IInv, NEW g \in Gens
    PROVE  /\ Rejected(g) \in Terms
           /\ Rejected(g).sid = term[g].sid /\ Rejected(g).next = term[g].next
           /\ Rejected(g).recovered = term[g].recovered /\ Rejected(g).again = term[g].again
           /\ Rejected(g).finalizing = term[g].finalizing
           /\ Rejected(g).timer => term[g].timer
           /\ \/ Rejected(g).at \in {term[g].at, "none"}
              \/ Rejected(g).at = "retry" /\ Ended(pane, term[g].sid)
           /\ g > made => Rejected(g) = term[g]
  <1>1. term[g] \in Terms /\ TermAt(g) /\ g \in Nat /\ g # 0 /\ made \in Nat /\ cur \in Nat /\ cur <= made
    BY TermFacts, KeyTypes DEF IInv, TermOK
  <1> DEFINE rs == {wire[i] : i \in DOMAIN wire}
             pa == \E r \in rs : PausedBy(g, r)
             fa == \E r \in rs : FailsOpening(g, r)
             de == \E r \in rs : r.op = "destroy" /\ r.g = g /\ r.why = "exit"
             u  == [term[g] EXCEPT !.waiting = term[g].waiting \/ pa,
                                   !.timer = term[g].timer /\ ~pa,
                                   !.at = IF fa THEN "none" ELSE IF de THEN "retry" ELSE term[g].at]
  <1>2. Rejected(g) = u
    BY <1>1 DEF Rejected, Terms
  <1>3. pa \in BOOLEAN /\ fa \in BOOLEAN /\ de \in BOOLEAN
    OBVIOUS
  <1>4. de => Ended(pane, term[g].sid)
    <2> SUFFICES ASSUME NEW r \in rs, r.op = "destroy", r.g = g, r.why = "exit"
                 PROVE  Ended(pane, term[g].sid)
      OBVIOUS
    <2>1. RequestOK(r) /\ r.sid \in Sids
      <3>1. r \in Elems(wire)
        BY DEF Elems
      <3>2. r \in Requests
        BY <3>1, ElemsFacts DEF IInv, Typed
      <3> QED
        BY <3>1, <3>2 DEF IInv, WireOK, Requests
    <2>2. Ended(pane, r.sid) /\ r.sid[1] = term[g].sid[1] /\ r.sid[1] \in Panes
      BY <2>1, SidFacts DEF RequestOK, OfPane
    <2>3. term[g].sid # NoSid
      BY <2>2 DEF NoSid, Panes
    <2> QED
      BY <2>2, <2>3 DEF Ended
  <1>5. g > made => ~pa /\ ~fa /\ ~de
    <2> SUFFICES ASSUME g > made, NEW r \in rs, r.g = g PROVE FALSE
      BY DEF PausedBy, FailsOpening
    <2>1. RequestOK(r)
      BY DEF IInv, WireOK, Elems
    <2> QED
      BY <1>1, <2>1 DEF RequestOK
  <1> HIDE DEF pa, fa, de
  <1>6. /\ u \in Terms /\ u.sid = term[g].sid /\ u.next = term[g].next
        /\ u.recovered = term[g].recovered /\ u.again = term[g].again
        /\ u.finalizing = term[g].finalizing /\ (u.timer => term[g].timer)
        /\ u.at = IF fa THEN "none" ELSE IF de THEN "retry" ELSE term[g].at
    BY <1>1, <1>3 DEF Terms
  <1>7. ASSUME g > made PROVE u = term[g]
    <2>1. ~pa /\ ~fa /\ ~de
      BY <1>5, <1>7
    <2>2. term[g].waiting \in BOOLEAN /\ term[g].timer \in BOOLEAN
      BY <1>1 DEF Terms
    <2>3. (term[g].waiting \/ pa) = term[g].waiting /\ (term[g].timer /\ ~pa) = term[g].timer
      BY <2>1, <2>2
    <2>4. u = [term[g] EXCEPT !.waiting = term[g].waiting, !.timer = term[g].timer, !.at = term[g].at]
      BY <2>1, <2>3
    <2> QED
      BY <1>1, <2>4 DEF Terms
  <1> QED
    BY <1>2, <1>4, <1>6, <1>7

(* The seed of an attach whose history was on its way *)
LEMMA SeedFacts ==
    ASSUME IInv, NEW g \in Gens
    PROVE  /\ SeedOf(g) \in Seq(Nat) /\ Continuous(SeedOf(g))
           /\ ~Has(g, "history") => SeedOf(g) = screen[g]
           /\ Has(g, "history") => /\ ~term[g].recovered => SeedOf(g) # << >>
                                   /\ SeedOf(g) # << >> => SeedOf(g)[Len(SeedOf(g))] + 1 = term[g].next
  <1>1. /\ term[g].next \in Nat \ {0} /\ ScreenAt(g) /\ screen[g] \in Seq(Nat)
        /\ wire \in Seq(Requests) /\ DOMAIN wire = 1..Len(wire) /\ Len(wire) \in Nat
    BY TermFacts DEF IInv, ScreenOK, Typed
  <1> DEFINE hs == {i \in DOMAIN wire : wire[i].op = "history" /\ wire[i].g = g}
  <1>2. CASE hs = {}
    <2>1. SeedOf(g) = screen[g] /\ ~Has(g, "history")
      BY <1>2 DEF SeedOf, Has, Elems
    <2> QED
      BY <1>1, <2>1 DEF ScreenAt
  <1>3. CASE hs # {}
    <2> DEFINE i == CHOOSE j \in hs : \A k \in hs : k <= j
    <2>1. hs \subseteq 1..Len(wire)
      BY <1>1
    <2>2. \E j \in hs : \A k \in hs : k <= j
      <3>1. PICK x \in hs : TRUE
        BY <1>3
      <3>2. ASSUME NEW y \in hs, NEW z \in hs, y # z PROVE FALSE
        <4>1. y < z \/ z < y
          BY <2>1, <3>2
        <4>2. /\ wire[y] \in Elems(wire) /\ wire[z] \in Elems(wire)
              /\ <<wire[y], wire[z]>> \in Prec(wire) \/ <<wire[z], wire[y]>> \in Prec(wire)
          BY <3>2, <4>1, PrecIntro DEF Elems
        <4>3. PairOK(wire[y], wire[z]) \/ PairOK(wire[z], wire[y])
          BY <4>2 DEF IInv, OrderOK
        <4> QED
          BY <3>2, <4>3 DEF PairOK, Seeds, SameG
      <3>3. \A k \in hs : k <= x
        BY <3>1, <3>2, <2>1
      <3> QED
        BY <3>3
    <2>3. i \in hs
      BY <2>2
    <2>4. SeedOf(g) = SeedFor(g, wire[i].n) /\ Has(g, "history")
      BY <1>3, <2>3 DEF SeedOf, Has, Elems
    <2>5. wire[i].n = term[g].next
      <3>1. wire[i] \in Elems(wire) /\ wire[i].op = "history" /\ wire[i].g = g
        BY <2>3 DEF Elems
      <3> HIDE DEF i
      <3> QED
        BY <3>1 DEF IInv, WireOK, RequestOK
    <2> HIDE DEF i, hs
    <2>6. CASE term[g].recovered
      <3>1. SeedOf(g) = << >>
        BY <2>4, <2>6 DEF SeedFor
      <3> QED
        BY <2>4, <2>6, <3>1 DEF Continuous
    <2>7. CASE ~term[g].recovered
      <3>1. SeedOf(g) = <<term[g].next - 1>> /\ term[g].next - 1 \in Nat
        BY <1>1, <2>4, <2>5, <2>7 DEF SeedFor
      <3>2. /\ SeedOf(g) \in Seq(Nat) /\ Len(SeedOf(g)) = 1 /\ SeedOf(g)[1] = term[g].next - 1
            /\ SeedOf(g) # << >>
        BY <3>1
      <3> QED
        BY <1>1, <2>4, <3>2 DEF Continuous
    <2> QED
      BY <2>6, <2>7
  <1> QED
    BY <1>2, <1>3

LEMMA CutOff ==
    ASSUME IInv, CutLink, pane' \in [Panes -> States], PaneStep,
           \A p, q \in Panes : Present(pane', p) /\ Present(pane', q) => p = q,
           killed => NonePresent(pane')
    PROVE  IInv'
  <1>1. /\ Typed /\ link' = "down" /\ wire' = << >> /\ made' = made /\ detached' = detached
        /\ retired' = retired /\ closing' = closing /\ killed' = killed /\ exits' = exits
        /\ term' = [g \in Gens |-> Rejected(g)] /\ screen' = [g \in Gens |-> SeedOf(g)]
        /\ cur' \in {cur, 0}
    BY DEF IInv, CutLink
  <1>2. wire' \in Seq(Requests) /\ Elems(wire') = {}
    <2>1. wire' \in Seq(Requests)
      BY <1>1
    <2> QED
      BY <1>1, <2>1, ElemsFacts
  <1>3. Typed'
    <2>1. \A g \in Gens : Rejected(g) \in Terms /\ SeedOf(g) \in Seq(Nat)
      BY RejectedFacts, SeedFacts
    <2>2. cur' \in 0..made
      BY <1>1, KeyTypes DEF Typed
    <2>3. term' \in [Gens -> Terms] /\ screen' \in [Gens -> Seq(Nat)]
      BY <1>1, <2>1
    <2> QED
      BY <1>1, <1>2, <2>2, <2>3 DEF Typed, Stamp
  <1>4. DetachedOK'
    BY <1>1, DetachedSteps DEF IInv
  <1>5. WireOK' /\ OrderOK'
    BY <1>2 DEF WireOK, OrderOK
  <1>6. ASSUME NEW g \in Gens PROVE TermAt(g)' /\ PollAt(g)' /\ ScreenAt(g)'
    <2>1. /\ term'[g] = Rejected(g) /\ screen'[g] = SeedOf(g) /\ exits'[g] = exits[g] /\ g # 0
          /\ g \in Nat /\ made \in Nat
      BY <1>1, TermFacts, KeyTypes
    <2>2. Calm(g)
      BY <2>1, RejectedFacts DEF Calm, Keeps
    <2>3. TermAt(g)'
      <3>1. g > made => screen'[g] = screen[g]
        <4> SUFFICES ASSUME g > made PROVE screen'[g] = screen[g]
          OBVIOUS
        <4>1. ~Has(g, "history")
          <5> SUFFICES ASSUME NEW r \in Elems(wire), r.g = g PROVE FALSE
            BY DEF Has
          <5> QED
            BY <2>1 DEF IInv, WireOK, RequestOK
        <4> QED
          BY <2>1, <4>1, SeedFacts
      <3> QED
        BY <1>1, <2>1, <2>2, <3>1, TermSteps DEF IInv
    <2>4. PollAt(g)'
      BY <1>2 DEF PollAt, Has
    <2>5. ScreenAt(g)'
      <3>1. /\ ScreenAt(g) /\ TermAt(g) /\ PollAt(g)
            /\ term'[g].sid = term[g].sid /\ term'[g].next = term[g].next
            /\ term'[g].recovered = term[g].recovered /\ term'[g].finalizing = term[g].finalizing
        BY <2>1, RejectedFacts DEF IInv, ScreenOK, TermOK, PollOK
      <3>2. Continuous(screen'[g])
        BY <2>1, SeedFacts
      <3>3. screen'[g] = << >> \/ screen'[g][Len(screen'[g])] + 1 = term'[g].next
        BY <2>1, <3>1, SeedFacts DEF ScreenAt
      <3>4. cur' = g => cur = g /\ ~AttachOpens(g)
        <4> SUFFICES ASSUME cur' = g PROVE cur = g /\ ~AttachOpens(g)
          OBVIOUS
        <4>1. cur = g /\ ~\E i \in DOMAIN wire : FailsOpening(cur, wire[i])
          BY <1>1, <2>1 DEF CutLink
        <4> QED
          BY <4>1 DEF AttachOpens, Elems, FailsOpening
      <3>5. cur' = g /\ term'[g].sid # NoSid /\ ~term'[g].recovered => screen'[g] # << >>
        BY <2>1, <3>1, <3>4, SeedFacts DEF ScreenAt
      <3>6. cur' = g /\ term'[g].finalizing /\ pane'[term'[g].sid[1]].st = "exited"
              => screen'[g] # << >> /\ screen'[g][Len(screen'[g])] = pane'[term'[g].sid[1]].out
        <4> SUFFICES ASSUME cur = g, term[g].finalizing, pane'[term[g].sid[1]].st = "exited"
                     PROVE  screen'[g] # << >> /\ screen'[g][Len(screen'[g])] = pane'[term[g].sid[1]].out
          BY <3>1, <3>4
        <4>1. term[g].sid # NoSid /\ pane[term[g].sid[1]].st \in {"exited", "gone"}
          BY <3>1 DEF TermAt, Ended
        <4>2. term[g].sid[1] \in Panes
          BY <1>1, <4>1, TermFacts, SidFacts
        <4>3. pane[term[g].sid[1]].st = "exited" /\ pane'[term[g].sid[1]].out = pane[term[g].sid[1]].out
          BY <4>1, <4>2 DEF PaneStep, Succ
        <4>4. screen'[g] = screen[g]
          BY <2>1, <3>1, SeedFacts DEF PollAt
        <4> QED
          BY <3>1, <4>3, <4>4 DEF ScreenAt
      <3> QED
        BY <1>1, <3>2, <3>3, <3>5, <3>6 DEF ScreenAt
    <2> QED
      BY <2>3, <2>4, <2>5
  <1>7. KeyOK'
    <2>1. killed => cur = 0
      BY DEF IInv, KeyOK
    <2>2. closing = Stamp => cur = 0
      BY DEF IInv, KeyOK
    <2> QED
      BY <1>1, <1>2, <2>1, <2>2 DEF KeyOK, OneDaemonPane, NonePresent, Stamp
  <1> QED
    BY <1>3, <1>4, <1>5, <1>6, <1>7 DEF IInv, TermOK, PollOK, ScreenOK

LEMMA NoneCarried ==
    ASSUME IInv, killed, NEW ps \in CarriedOut
    PROVE  NonePresent(ps)
  <1>1. NonePresent(pane) /\ \A r \in Elems(wire) : r.op # "create"
    BY DEF IInv, KeyOK, OneDaemonPane, NonePresent
  <1>2. CarriedOK(ps) /\ ~Created(ps)
    BY <1>1, CarriedAll
  <1> QED
    BY <1>1, <1>2 DEF NonePresent, Present, CarriedOK, Created

LEMMA Dropped ==
    ASSUME IInv, Drop
    PROVE  IInv'
  <1>1. PICK ps \in CarriedOut :
          pane' = [p \in Panes |-> [ps[p] EXCEPT !.owner = IF @ = "us" THEN "nobody" ELSE @]]
    BY DEF Drop
  <1>2. CarriedOK(ps)
    BY CarriedAll
  <1>3. /\ pane' \in [Panes -> States]
        /\ \A p \in Panes : pane'[p].st = ps[p].st /\ pane'[p].out = ps[p].out
    BY <1>1, <1>2 DEF CarriedOK, States
  <1>4. PaneStep
    <2>1. \A p \in Panes : pane[p].out \in Nat
      BY BoundsNat DEF IInv, Typed, States
    <2> QED
      BY <1>2, <1>3, <2>1 DEF PaneStep, Succ, CarriedOK
  <1>5. \A p, q \in Panes : Present(pane', p) /\ Present(pane', q) => p = q
    BY <1>2, <1>3 DEF CarriedOK, Present
  <1>6. killed => NonePresent(pane')
    BY <1>3, NoneCarried DEF NonePresent, Present
  <1> QED
    BY <1>3, <1>4, <1>5, <1>6, CutOff DEF Drop

LEMMA Crashed ==
    ASSUME IInv, Crash
    PROVE  IInv'
  <1>1. PICK ps \in CarriedOut :
          pane' = [p \in Panes |->
              [ps[p] EXCEPT !.st = CASE @ = "live" -> "recovered" [] @ = "exited" -> "gone" [] OTHER -> @,
                            !.owner = "nobody"]]
    BY DEF Crash
  <1>2. CarriedOK(ps)
    BY CarriedAll
  <1>3. /\ pane' \in [Panes -> States]
        /\ \A p \in Panes : /\ pane'[p].out = ps[p].out
                            /\ ps[p].st = "live" => pane'[p].st = "recovered"
                            /\ ps[p].st = "exited" => pane'[p].st = "gone"
                            /\ ps[p].st \notin {"live", "exited"} => pane'[p].st = ps[p].st
    BY <1>1, <1>2 DEF CarriedOK, States
  <1>4. PaneStep
    <2>1. \A p \in Panes : pane[p].out \in Nat /\ pane[p].st \in {"none", "live", "exited", "recovered", "gone"}
      BY BoundsNat DEF IInv, Typed, States
    <2> QED
      BY <1>2, <1>3, <2>1 DEF PaneStep, Succ, CarriedOK
  <1>5. \A p, q \in Panes : Present(pane', p) /\ Present(pane', q) => p = q
    BY <1>2, <1>3 DEF CarriedOK, Present
  <1>6. killed => NonePresent(pane')
    BY <1>3, NoneCarried DEF NonePresent, Present
  <1> QED
    BY <1>3, <1>4, <1>5, <1>6, CutOff DEF Crash

(* Another client takes the pane: the event comes before all that waits *)
LEMMA Stolen ==
    ASSUME IInv, NEW p \in Panes, Steal(p)
    PROVE  IInv'
  <1>1. /\ Typed /\ wire \in Seq(Requests) /\ pane \in [Panes -> States] /\ pane[p].st = "live"
        /\ link = "up"
    BY DEF IInv, Typed, Steal
  <1>2. /\ link' = "closing" /\ made' = made /\ detached' = detached
        /\ retired' = retired /\ closing' = closing /\ killed' = killed /\ exits' = exits
        /\ term' = term /\ screen' = screen /\ cur' = cur
    BY DEF Steal, keyVars, viewVars
  <1>3. /\ pane' = [pane EXCEPT ![p].owner = "other"] /\ pane' \in [Panes -> States]
        /\ \A x \in Panes : pane'[x].st = pane[x].st /\ pane'[x].out = pane[x].out
    BY <1>1 DEF Steal, States
  <1>4. PaneStep /\ NoRecovery /\ NoCreation /\ CurStep
    <2>1. \A x \in Panes : pane[x].out \in Nat
      BY <1>1, BoundsNat DEF States
    <2> QED
      BY <1>2, <1>3, <2>1 DEF PaneStep, Succ, NoRecovery, NoCreation, Present, CurStep
  <1>5. PICK r : r = Request("stolen", 0, SidOf(pane, p), "", 0)
    OBVIOUS
  <1>6. r.op = "stolen" /\ r.g = 0 /\ r.sid = <<p, "created">>
    BY <1>1, <1>5 DEF Request, SidOf
  <1>7. r \in Requests
    BY <1>1, <1>5, RequestTypes DEF Ops, Whys, Sids, SidOf
  <1>8. /\ wire' \in Seq(Requests) /\ Elems(wire') = Elems(wire) \cup {r}
        /\ \A a, b : <<a, b>> \in Prec(wire') => <<a, b>> \in Prec(wire) \/ (a = r /\ b \in Elems(wire))
    <2>1. wire' = <<r>> \o wire
      BY <1>5 DEF Steal
    <2> QED
      BY <1>1, <1>7, <2>1, ConsFacts
  <1>9. Typed' /\ DetachedOK'
    <2>1. Typed'
      BY <1>1, <1>2, <1>3, <1>8 DEF Typed, Stamp
    <2> QED
      BY <1>1, <1>2, <1>4, <2>1, DetachedSteps DEF IInv
  <1>10. WireOK'
    <2>1. RequestOK(r)'
      <3>1. ~Opens(r) /\ ~Creates(r) /\ ~OfPane(r) /\ ~Kills(r) /\ ~ByKey(r)
        BY <1>6 DEF Opens, Creates, OfPane, Kills, ByKey
      <3>2. Known(pane', r.sid) /\ r.g <= made'
        BY <1>1, <1>2, <1>3, <1>6, KeyTypes DEF Known
      <3> QED
        BY <1>6, <3>1, <3>2 DEF RequestOK
    <2>2. ASSUME NEW a \in Elems(wire) PROVE RequestOK(a)'
      <3>1. KeepsFor(a)
        BY <1>2 DEF KeepsFor, Keeps
      <3>2. Creates(a) => NonePresent(pane')
        BY <1>4, NoneSteps DEF IInv, WireOK, RequestOK
      <3> QED
        BY <1>2, <1>4, <3>1, <3>2, OldRequest DEF IInv
    <2> QED
      BY <1>8, <2>1, <2>2 DEF WireOK
  <1>11. OrderOK'
    <2>1. ASSUME NEW b \in Elems(wire) PROVE PairOK(r, b)'
      <3>1. b.op = "attach" => b.g # 0
        BY DEF IInv, WireOK, RequestOK, OfPane
      <3> QED
        BY <1>6, <3>1 DEF PairOK, Opens, Creates, Seeds, Kills, SameG
    <2>2. ASSUME NEW a \in Elems(wire), NEW b \in Elems(wire), <<a, b>> \in Prec(wire) PROVE PairOK(a, b)'
      BY <1>4, <2>2, OldPair DEF IInv, OrderOK
    <2>3. \A a, b : <<a, b>> \in Prec(wire) => a \in Elems(wire) /\ b \in Elems(wire)
      BY <1>1, ElemsFacts
    <2> QED
      BY <1>8, <2>1, <2>2, <2>3 DEF OrderOK
  <1>12. ASSUME NEW g \in Gens PROVE TermAt(g)' /\ PollAt(g)' /\ ScreenAt(g)'
    <2>1. Calm(g) /\ g # 0
      BY <1>2 DEF Calm, Keeps, Gens
    <2>2. TermAt(g)'
      BY <1>2, <1>3, <1>4, <2>1, TermSteps DEF IInv
    <2>3. PollAt(g)'
      BY <1>4, <1>6, <1>8, <2>1, PollSteps DEF IInv
    <2>4. ScreenAt(g)'
      BY <1>1, <1>2, <1>4, <1>8, <2>1, ScreenSteps DEF IInv
    <2> QED
      BY <2>2, <2>3, <2>4
  <1>13. KeyOK'
    <2>1. \A x \in Elems(wire') : x \in Elems(wire) \/ x.op # "create"
      BY <1>6, <1>8
    <2> QED
      BY <1>2, <1>4, <2>1, KeySteps
  <1> QED
    BY <1>9, <1>10, <1>11, <1>12, <1>13 DEF IInv, TermOK, PollOK, ScreenOK

-----------------------------------------------------------------------------
(* Replies                                                                 *)

LEMMA Answered ==
    ASSUME IInv, NEW op, Arrives(op), NEW r, r = Head(wire)
    PROVE  /\ Typed /\ r \in Elems(wire) /\ r \in Requests /\ RequestOK(r) /\ r.op = op
           /\ link # "down" /\ Remain(Rest)
           /\ \A a \in Elems(Rest) : a \in Elems(wire) /\ PairOK(r, a) /\ RequestOK(a)
           /\ \A a \in Elems(wire) : a = r \/ a \in Elems(Rest)
           /\ pane' \in [Panes -> States] /\ PaneStep /\ NoRecovery /\ CarriedOK(pane')
           /\ op # "create" => NoCreation
           /\ op \notin {"create", "attach", "destroy", "detach"} => pane' = pane
  <1>1. /\ Typed /\ wire # << >> /\ r.op = op /\ pane' = Carried(pane, r) /\ link # "down"
    BY DEF IInv, Arrives, KeyOK
  <1>2. /\ r \in Elems(wire) /\ r \in Requests /\ Remain(Rest)
        /\ \A a \in Elems(Rest) : PairOK(r, a)
        /\ \A a \in Elems(wire) : a = r \/ a \in Elems(Rest)
    BY <1>1, RemainRest DEF IInv
  <1>3. RequestOK(r) /\ \A a \in Elems(Rest) : a \in Elems(wire) /\ RequestOK(a)
    BY <1>2 DEF IInv, WireOK, Remain
  <1>4. PICK n : n = Carried(pane, r)
    OBVIOUS
  <1>5. CarriedOK(n) /\ (Created(n) => r.op = "create") /\ pane' = n
    BY <1>1, <1>2, <1>4, CarriedSelf, CarriedKeeps
  <1>6. \A p \in Panes : pane[p].out \in Nat
    BY <1>1, BoundsNat DEF Typed, States
  <1>7. PaneStep /\ NoRecovery
    BY <1>5, <1>6 DEF CarriedOK, PaneStep, NoRecovery, Succ
  <1>8. op # "create" => NoCreation
    BY <1>1, <1>5 DEF CarriedOK, Created, NoCreation, Present
  <1>9. op \notin {"create", "attach", "destroy", "detach"} => pane' = pane
    BY <1>1 DEF Carried
  <1> QED
    BY <1>1, <1>2, <1>3, <1>5, <1>7, <1>8, <1>9 DEF CarriedOK

(* A request that goes from the front of the wire, and nothing else *)
LEMMA Passed ==
    ASSUME IInv, NEW op, Arrives(op), op \notin {"create"},
           op \in {"inventory", "attach", "history"} => FALSE,
           wire' = Rest, term' = term, link' = link, cur' = cur, made' = made, detached' = detached,
           retired' = retired, closing' = closing, killed' = killed, screen' = screen, exits' = exits
    PROVE  IInv'
  <1>1. PICK r : r = Head(wire)
    OBVIOUS
  <1>2. /\ Typed /\ r.op = op /\ link # "down" /\ Remain(Rest)
        /\ \A a \in Elems(wire) : a = r \/ a \in Elems(Rest)
        /\ pane' \in [Panes -> States] /\ PaneStep /\ NoRecovery /\ NoCreation
    BY <1>1, Answered
  <1>3. Typed' /\ DetachedOK'
    <2>1. Typed'
      BY <1>2 DEF Typed, Stamp, Remain
    <2> QED
      BY <1>2, <2>1, DetachedSteps DEF IInv
  <1>4. \A a \in Elems(wire) : Seeds(a) => a \in Elems(Rest)
    BY <1>2 DEF Seeds
  <1> QED
    BY <1>2, <1>3, <1>4, Ordinary

LEMMA DetachReplied == IInv /\ DetachReply => IInv'
  <1> SUFFICES ASSUME IInv, DetachReply PROVE IInv'
    OBVIOUS
  <1> QED
    BY Passed DEF DetachReply, keyVars, viewVars

LEMMA TopologyReplied ==
    ASSUME IInv, TopologyReply
    PROVE  IInv'
  <1>1. PICK h : h = Head(wire)
    OBVIOUS
  <1>2. /\ Typed /\ h \in Elems(wire) /\ h \in Requests /\ RequestOK(h) /\ h.op = "topology"
        /\ link # "down" /\ Remain(Rest)
        /\ \A a \in Elems(Rest) : a \in Elems(wire) /\ PairOK(h, a) /\ RequestOK(a)
        /\ \A a \in Elems(wire) : a = h \/ a \in Elems(Rest)
        /\ pane' = pane
    <2>1. Arrives("topology")
      BY DEF TopologyReply
    <2> QED
      BY <1>1, <2>1, Answered
  <1>3. /\ link' = link /\ made' = made /\ term' = term /\ cur' = cur
        /\ killed' = killed /\ screen' = screen /\ exits' = exits
        /\ detached' = detached /\ retired' = retired /\ retired' \in BOOLEAN /\ closing' = closing
        /\ term' \in [Gens -> Terms]
    BY <1>2 DEF TopologyReply, viewVars, keyVars, Typed
  <1>4. /\ h.g = cur /\ cur # 0 /\ cur \in Gens /\ cur <= made /\ term[cur].sid = NoSid
        /\ term[cur].at # "wait" /\ NonePresent(pane)
    BY <1>2, CurFacts, UnbornFacts DEF RequestOK, Opens, Creates
  <1>5. PICK r : r = Request("create", h.g, NoSid, "", 0)
    OBVIOUS
  <1>6. r.op = "create" /\ r.g = cur /\ r.sid = NoSid
    BY <1>4, <1>5 DEF Request
  <1>7. r \in Requests
    BY <1>4, <1>5, RequestTypes DEF Ops, Whys, Sids
  <1>8. RequestOK(r)'
    <2>1. ~OfPane(r) /\ ~Kills(r) /\ ~ByKey(r)
      BY <1>6 DEF OfPane, Kills, ByKey
    <2> QED
      BY <1>2, <1>3, <1>4, <1>6, <2>1 DEF RequestOK, Known, NonePresent, Present
  <1>9. ASSUME NEW a \in Elems(Rest) PROVE PairOK(a, r)'
    <2>1. /\ ~(Opens(a) /\ a.g = cur) /\ ~Creates(a) /\ (a.op = "list" => a.g # cur)
          /\ a.op = "listclose" => a.n # Stamp
      BY <1>2, <1>4 DEF PairOK, Opens, Creates, SameG, RequestOK, ByKey
    <2> QED
      BY <1>3, <1>6, <2>1 DEF PairOK, Opens, Creates, Seeds, Kills, SameG, Stamp
  <1>10. \E x \in Requests :
               /\ wire' = Append(Rest, x) /\ link # "down"
               /\ x.g \in {0, cur} /\ Fits(x, term'[cur])
               /\ RequestOK(x)'
               /\ Plain(x) \/ \A a \in Elems(Rest) : PairOK(a, x)'
    BY <1>1, <1>2, <1>4, <1>5, <1>6, <1>7, <1>8, <1>9 DEF Fits, TopologyReply
  <1>11. \A a \in Elems(wire) : Seeds(a) => a \in Elems(Rest)
    BY <1>2 DEF Seeds
  <1>12. Calm(cur)
    BY <1>2, <1>3, <1>4 DEF Calm, Keeps
  <1> QED
    BY <1>2, <1>3, <1>4, <1>10, <1>11, <1>12, Quiet

LEMMA StolenHeard ==
    ASSUME IInv, StolenEvent
    PROVE  IInv'
  <1>1. PICK h : h = Head(wire)
    OBVIOUS
  <1>2. /\ Typed /\ h.op = "stolen" /\ link # "down" /\ Remain(Rest) /\ wire # << >>
        /\ \A a \in Elems(wire) : a = h \/ a \in Elems(Rest)
        /\ pane' = pane
    BY <1>1, Answered DEF StolenEvent, Arrives
  <1>3. /\ link' = link /\ made' = made /\ cur' = cur
        /\ killed' = killed /\ screen' = screen /\ exits' = exits
        /\ detached' = detached /\ retired' = retired /\ retired' \in BOOLEAN /\ closing' = closing
    BY <1>2 DEF StolenEvent, viewVars, keyVars, Typed
  <1>4. CASE ~(cur # 0 /\ term[cur].sid = h.sid)
    <2>1. wire' = Rest /\ term' = term
      BY <1>1, <1>4 DEF StolenEvent
    <2> QED
      BY <1>2, <1>3, <2>1, Passed DEF StolenEvent
  <1>5. CASE cur # 0 /\ term[cur].sid = h.sid
    <2> DEFINE t == [Stopped(term[cur]) EXCEPT !.stolen = TRUE, !.waiting = TRUE]
               q == NoPolls(Rest, cur)
    <2>1. wire' = q /\ Set(cur, t)
      BY <1>1, <1>5 DEF StolenEvent
    <2>2. cur \in Gens /\ cur <= made /\ term[cur] \in Terms
      BY <1>2, <1>5, CurFacts, UnbornFacts, TermFacts
    <2>3. t \in Terms /\ ~t.timer /\ t.at = term[cur].at
          /\ t.sid = term[cur].sid /\ t.next = term[cur].next /\ t.recovered = term[cur].recovered
          /\ t.finalizing = term[cur].finalizing /\ t.again = term[cur].again
      BY <2>2 DEF Terms, Stopped
    <2>4. /\ Remain(q) /\ \A a \in Elems(wire) : Seeds(a) => a \in Elems(q)
      BY <1>1, <1>2, RemainRest DEF IInv, Seeds
    <2> HIDE DEF t, q
    <2>5. /\ term' \in [Gens -> Terms] /\ term'[cur] = t
          /\ \A x \in Gens : x # cur => term'[x] = term[x]
      BY <1>2, <2>1, <2>2, <2>3, SetFacts
    <2>6. Calm(cur)
      BY <1>2, <2>2, <2>3, <2>5, KeyTypes DEF Calm, Keeps
    <2> QED
      BY <1>2, <1>3, <2>1, <2>2, <2>4, <2>5, <2>6, Quiet
  <1> QED
    BY <1>4, <1>5

(* The inventory names the pane of the key *)
LEMMA ListedFacts ==
    ASSUME IInv
    PROVE  /\ Listed = NoEntry => NonePresent(pane)
           /\ Listed # NoEntry => \E p \in Panes : /\ Present(pane, p) /\ Listed.sid = SidOf(pane, p)
                                                   /\ Listed.recovered = (pane[p].st # "live")
           /\ Listed \in Entries /\ Known(pane, Listed.sid)
           /\ Listed # NoEntry => Listed.sid # NoSid
           /\ Listed.sid[2] = "recovered" => Listed.recovered
           /\ Listed.recovered => Over(pane, Listed.sid)
  <1> DEFINE present == {p \in Panes : Present(pane, p)}
  <1>0. NoEntry.sid = NoSid /\ NoEntry.recovered = FALSE /\ NoSid[2] = "none" /\ NoEntry \in Entries
    BY DEF NoEntry, NoSid, Entries
  <1>1. CASE present = {}
    <2>1. Listed = NoEntry
      BY <1>1 DEF Listed
    <2> QED
      BY <1>0, <1>1, <2>1 DEF NonePresent, Known
  <1>2. CASE present # {}
    <2> DEFINE p == CHOOSE q \in present : \A x \in present : x <= q
    <2>1. \E q \in present : \A x \in present : x <= q
      <3>1. PICK y \in present : TRUE
        BY <1>2
      <3>2. \A x \in present : x = y
        BY DEF IInv, KeyOK, OneDaemonPane
      <3>3. y \in Nat
        BY DEF Panes
      <3> QED
        BY <3>1, <3>2, <3>3
    <2>2. p \in present
      BY <2>1
    <2>3. Listed = [sid |-> SidOf(pane, p), recovered |-> pane[p].st # "live"]
      BY <1>2 DEF Listed
    <2> HIDE DEF p
    <2>4. p \in Panes /\ Present(pane, p)
      BY <2>2
    <2>5. /\ Listed.sid = SidOf(pane, p) /\ Listed.recovered = (pane[p].st # "live")
          /\ SidOf(pane, p)[1] = p /\ SidOf(pane, p) \in Panes \X {"created", "recovered"}
          /\ SidOf(pane, p)[2] = "recovered" <=> pane[p].st = "recovered"
          /\ (pane[p].st # "live") \in BOOLEAN
      BY <2>3, <2>4 DEF SidOf
    <2>6. SidOf(pane, p) # NoSid /\ Listed # NoEntry
      BY <1>0, <2>4, <2>5 DEF NoSid, Panes
    <2>7. Listed \in Entries
      BY <2>3, <2>5 DEF Entries
    <2>8. Known(pane, Listed.sid) /\ (Listed.recovered => Over(pane, Listed.sid))
      BY <2>4, <2>5, <2>6 DEF Known, Over, Present
    <2>9. Listed.sid[2] = "recovered" => Listed.recovered
      BY <2>5
    <2> QED
      BY <2>4, <2>5, <2>6, <2>7, <2>8, <2>9
  <1> QED
    BY <1>1, <1>2

LEMMA ListRow == \A r : r.op \in {"list", "listclose", "inventory"} => Answer(r).row = Listed
  BY DEF Answer, Reply

LEMMA HydratedFacts ==
    ASSUME IInv, NEW r, r.op \in {"list", "listclose"}, pane' = pane, detached' = Hydrated(r)
    PROVE  /\ detached' \in Entries /\ DetachedOK'
           /\ detached' = NoEntry => NonePresent(pane)
           /\ detached' # NoEntry /\ pane[detached'.sid[1]].st = "recovered" => detached'.recovered
  <1>1. Hydrated(r) = IF Listed = NoEntry THEN detached ELSE Listed
    BY ListRow DEF Hydrated
  <1>2. CASE Listed = NoEntry
    <2>1. detached' = detached /\ NonePresent(pane) /\ detached \in Entries /\ DetachedOK
      BY <1>1, <1>2, ListedFacts DEF IInv, Typed
    <2>2. detached # NoEntry => detached.sid[1] \in Panes
      <3>1. detached.sid \in Sids
        BY <2>1 DEF Entries, Sids
      <3> QED
        BY <2>1, <3>1, SidFacts DEF DetachedOK
    <2>3. detached # NoEntry => pane[detached.sid[1]].st # "recovered"
      BY <2>1, <2>2 DEF NonePresent, Present
    <2>4. DetachedOK'
      BY <2>1 DEF DetachedOK
    <2> QED
      BY <2>1, <2>3, <2>4
  <1>3. CASE Listed # NoEntry
    <2>1. detached' = Listed
      BY <1>1, <1>3
    <2>2. PICK p \in Panes : /\ Present(pane, p) /\ Listed.sid = SidOf(pane, p)
                             /\ Listed.recovered = (pane[p].st # "live")
      BY <1>3, ListedFacts
    <2>3. pane[Listed.sid[1]].st = "recovered" => Listed.recovered
      <3>1. Listed.sid[1] = p
        BY <2>2 DEF SidOf
      <3>2. pane[p].st = "recovered" => pane[p].st # "live"
        OBVIOUS
      <3>3. pane[p].st # "live" => Listed.recovered
        BY <2>2, Zenon
      <3> QED
        BY <3>1, <3>2, <3>3
    <2>4. DetachedOK'
      BY <1>3, <2>1, ListedFacts DEF DetachedOK
    <2> QED
      BY <1>3, <2>1, <2>3, <2>4, ListedFacts
  <1> QED
    BY <1>2, <1>3

LEMMA CloseListed ==
    ASSUME IInv, CloseListReply
    PROVE  IInv'
  <1>1. PICK h : h = Head(wire)
    OBVIOUS
  <1>2. /\ Typed /\ h \in Elems(wire) /\ h \in Requests /\ RequestOK(h) /\ h.op = "listclose"
        /\ link # "down" /\ Remain(Rest)
        /\ \A a \in Elems(Rest) : a \in Elems(wire) /\ PairOK(h, a) /\ RequestOK(a)
        /\ \A a \in Elems(wire) : a = h \/ a \in Elems(Rest)
        /\ pane' = pane
    <2>1. Arrives("listclose")
      BY DEF CloseListReply
    <2> QED
      BY <1>1, <2>1, Answered
  <1>3. /\ link' = link /\ made' = made /\ term' = term /\ cur' = cur
        /\ screen' = screen /\ exits' = exits
        /\ retired' = retired /\ closing' = closing /\ detached' = Hydrated(h)
        /\ killed' = (killed \/ (detached' = NoEntry /\ h.n = Stamp))
    BY <1>1 DEF CloseListReply, viewVars
  <1>4. /\ detached' \in Entries /\ DetachedOK'
        /\ detached' = NoEntry => NonePresent(pane)
    BY <1>2, <1>3, HydratedFacts
  <1>5. PaneStep /\ NoRecovery /\ NoCreation
    BY <1>2, StillPanes
  <1>6. h.n \in 1..Stamp /\ h.n \in Nat /\ (h.n = Stamp => cur = 0)
    BY <1>2 DEF RequestOK, ByKey, Requests
  <1>7. PICK r : r = Request("destroy", 0, detached'.sid, "detached", h.n)
    OBVIOUS
  <1>8. r.op = "destroy" /\ r.g = 0 /\ r.sid = detached'.sid /\ r.why = "detached" /\ r.n = h.n
    BY <1>7 DEF Request
  <1>9. r \in Requests
    <2>1. detached'.sid \in Sids
      BY <1>4 DEF Entries, Sids
    <2> QED
      BY <1>6, <1>7, <2>1, RequestTypes DEF Ops, Whys
  <1>10. RequestOK(r)' /\ Plain(r)
    <2>1. Known(pane, r.sid)
      BY <1>2, <1>4, <1>8 DEF DetachedOK
    <2> QED
      BY <1>3, <1>5, <1>6, <1>8, <1>9, <2>1, KeyRequest DEF ByKey
  <1>11. wire' = Rest \/ wire' = Append(Rest, r)
    BY <1>1, <1>3, <1>7 DEF CloseListReply, Destroy
  <1>12. /\ wire' \in Seq(Requests)
         /\ \A x \in Elems(wire') : x \in Elems(Rest) \/ x = r
    <2>1. Rest \in Seq(Requests)
      BY <1>2 DEF Remain
    <2>2. /\ Append(Rest, r) \in Seq(Requests)
          /\ Elems(Append(Rest, r)) = Elems(Rest) \cup {r}
      BY <1>9, <2>1, AppendFacts
    <2>3. CASE wire' = Rest
      BY <2>1, <2>3
    <2>4. CASE wire' = Append(Rest, r)
      BY <2>2, <2>4
    <2> QED
      BY <1>11, <2>3, <2>4
  <1>13. Typed'
    <2>1. killed' \in BOOLEAN
      BY <1>2, <1>3 DEF Typed
    <2> QED
      BY <1>2, <1>3, <1>4, <1>12, <2>1 DEF Typed, Stamp
  <1>14. killed' => killed \/ (cur' = 0 /\ NonePresent(pane') /\ \A x \in Elems(wire') : x.op # "create")
    <2> SUFFICES ASSUME detached' = NoEntry, h.n = Stamp
                 PROVE  cur' = 0 /\ NonePresent(pane') /\ \A x \in Elems(wire') : x.op # "create"
      BY <1>3
    <2>1. \A x \in Elems(Rest) : x.op # "create"
      BY <1>2 DEF PairOK
    <2> QED
      BY <1>2, <1>3, <1>4, <1>6, <1>8, <1>12, <2>1
  <1>15. \/ wire' = Rest
         \/ \E x \in Requests :
               /\ wire' = Append(Rest, x) /\ link # "down"
               /\ x.g \in {0, 0} /\ Fits(x, term'[0])
               /\ RequestOK(x)'
               /\ \A a \in Elems(Rest) : PairOK(a, x)'
    BY <1>2, <1>8, <1>9, <1>10, <1>11, PlainPairs DEF Fits
  <1>16. \A a \in Elems(wire) : Seeds(a) => a \in Elems(Rest)
    BY <1>2 DEF Seeds
  <1> QED
    BY <1>2, <1>3, <1>4, <1>5, <1>13, <1>14, <1>15, <1>16, Ordinary

(* A request of an opening is the only one of its terminal *)
LEMMA OpeningAlone ==
    ASSUME IInv, NEW h \in Elems(wire), Opens(h), NEW a \in Elems(wire), a.g = h.g, ~Opens(a)
    PROVE  FALSE
  <1>1. Typed /\ RequestOK(h) /\ RequestOK(a) /\ a \in Requests
    BY ElemsFacts DEF IInv, WireOK, Typed
  <1>2. h.g # 0 /\ term[h.g].sid = NoSid
    BY <1>1 DEF RequestOK
  <1>3. ~OfPane(a)
    <2> SUFFICES ASSUME OfPane(a) PROVE FALSE
      OBVIOUS
    <2>1. a.sid \in Sids /\ a.sid # NoSid /\ a.sid[1] = NoSid[1]
      BY <1>1, <1>2 DEF RequestOK, Requests
    <2>2. a.sid[1] \in 1..MaxPane
      BY <2>1, SidFacts DEF Panes
    <2> QED
      BY <2>1, <2>2 DEF NoSid
  <1>4. a.op # "inventory" /\ a.op # "stolen" /\ ~ByKey(a)
    BY <1>1, <1>2 DEF RequestOK
  <1> QED
    BY <1>1, <1>3, <1>4 DEF Requests, Ops, OfPane, ByKey, Opens

LEMMA ListReplied ==
    ASSUME IInv, ListReply
    PROVE  IInv'
  <1>1. PICK h : h = Head(wire)
    OBVIOUS
  <1>2. PICK g : g = h.g
    OBVIOUS
  <1>3. /\ Typed /\ h \in Elems(wire) /\ h \in Requests /\ RequestOK(h) /\ h.op = "list"
        /\ link # "down" /\ Remain(Rest)
        /\ \A a \in Elems(Rest) : a \in Elems(wire) /\ PairOK(h, a) /\ RequestOK(a)
        /\ \A a \in Elems(wire) : a = h \/ a \in Elems(Rest)
        /\ pane' = pane
    <2>1. Arrives("list")
      BY DEF ListReply
    <2> QED
      BY <1>1, <2>1, Answered
  <1>4. /\ link' = link /\ made' = made /\ screen' = screen /\ exits' = exits
        /\ retired' = retired /\ closing' = closing /\ killed' = killed /\ detached' = Hydrated(h)
    BY <1>1 DEF ListReply, viewVars
  <1>5. /\ detached' \in Entries /\ DetachedOK'
        /\ detached' = NoEntry => NonePresent(pane)
        /\ detached' # NoEntry /\ pane[detached'.sid[1]].st = "recovered" => detached'.recovered
    BY <1>3, <1>4, HydratedFacts
  <1>6. PaneStep /\ NoRecovery /\ NoCreation
    BY <1>3, StillPanes
  <1>7. /\ g \in Gens /\ g # 0 /\ g <= made /\ g \in Nat
        /\ term[g] \in Terms /\ term[g].sid = NoSid /\ term[g].at # "wait"
        /\ TermAt(g) /\ ScreenAt(g)
    <2>1. g \in {0} \cup Gens /\ g # 0 /\ g <= made /\ term[g].sid = NoSid /\ term[g].at # "wait"
      BY <1>2, <1>3 DEF RequestOK, Opens, Requests
    <2> QED
      BY <1>3, <2>1, TermFacts DEF IInv, TermOK, ScreenOK
  <1>8. \A a \in Elems(Rest) : a.g # g
    BY <1>2, <1>3, OpeningAlone DEF PairOK, SameG, Opens
  <1>9. \A a \in Elems(wire) : Seeds(a) => a \in Elems(Rest)
    BY <1>3 DEF Seeds
  <1>10. g = cur => \A a \in Elems(Rest) : ~Creates(a) /\ ~Kills(a)
    BY <1>2, <1>3 DEF PairOK
  <1>11. ASSUME wire' \in Seq(Requests), term' \in [Gens -> Terms], cur' \in {0, cur} PROVE Typed'
    BY <1>3, <1>4, <1>5, <1>11, KeyTypes DEF Typed, Stamp
  <1>12. Rest \in Seq(Requests) /\ term \in [Gens -> Terms]
    BY <1>3 DEF Remain, Typed
  <1>13. CASE wire' = Rest /\ term' = term /\ (cur' = cur \/ (cur' = 0 /\ cur = g))
    <2>1. Typed'
      BY <1>11, <1>12, <1>13
    <2>2. cur' = cur \/ \A a \in Elems(Rest) : a.op # "topology"
      BY <1>10, <1>13 DEF Creates
    <2> QED
      BY <1>3, <1>4, <1>5, <1>6, <1>9, <1>13, <2>1, <2>2, Ordinary
  <1>14. CASE /\ Opening(g) /\ detached' = NoEntry /\ term' = term /\ cur' = cur
              /\ wire' = Append(Rest, Request(IF term[g].kind = "run" THEN "topology" ELSE "create", g, NoSid, "", 0))
    <2>1. PICK r : r = Request(IF term[g].kind = "run" THEN "topology" ELSE "create", g, NoSid, "", 0)
      OBVIOUS
    <2>2. r.op \in {"topology", "create"} /\ r.g = g /\ r.sid = NoSid
      BY <2>1 DEF Request
    <2>3. r \in Requests
      BY <1>7, <2>1, RequestTypes DEF Ops, Whys, Sids
    <2>4. RequestOK(r)'
      <3>1. ~OfPane(r) /\ ~Kills(r) /\ ~ByKey(r)
        BY <2>2 DEF OfPane, Kills, ByKey
      <3> QED
        BY <1>3, <1>4, <1>5, <1>7, <1>14, <2>2, <3>1 DEF RequestOK, Known, Opening
    <2>5. ASSUME NEW a \in Elems(Rest) PROVE PairOK(a, r)'
      <3>1. /\ a.g # g /\ ~Creates(a) /\ ~Kills(a) /\ cur # 0
            /\ a.op = "listclose" => a.n # Stamp
        BY <1>3, <1>7, <1>8, <1>10, <1>14 DEF RequestOK, ByKey, Opening
      <3>2. a.g # cur' /\ Stamp' = Stamp
        BY <1>4, <1>8, <1>14 DEF Opening, Stamp
      <3> QED
        BY <2>2, <3>1, <3>2 DEF PairOK, Opens, Creates, Seeds, Kills, SameG
    <2>6. wire' = Append(Rest, r)
      BY <1>14, <2>1
    <2>7. Typed'
      <3>1. wire' \in Seq(Requests)
        BY <1>12, <2>3, <2>6, AppendFacts
      <3> QED
        BY <1>11, <1>12, <1>14, <3>1
    <2>8. Calm(g)
      BY <1>7, <1>14, KeyTypes DEF Calm, Keeps
    <2>9. \E x \in Requests :
               /\ wire' = Append(Rest, x) /\ link # "down"
               /\ x.g \in {0, g} /\ Fits(x, term'[g])
               /\ RequestOK(x)'
               /\ \A a \in Elems(Rest) : PairOK(a, x)'
      BY <1>3, <1>7, <1>14, <2>2, <2>3, <2>4, <2>5, <2>6 DEF Fits, Opening
    <2> QED
      BY <1>3, <1>4, <1>5, <1>6, <1>7, <1>9, <1>14, <2>7, <2>8, <2>9, Ordinary
  <1>15. CASE /\ Opening(g) /\ detached' # NoEntry /\ cur' = cur
              /\ Set(g, [term[g] EXCEPT !.sid = detached'.sid, !.recovered = detached'.recovered])
              /\ wire' = Append(Rest, Attach(g, detached'.sid, "open"))
    <2>1. PICK e \in Entries : e = detached'
      BY <1>5
    <2>2. PICK t : t = [term[g] EXCEPT !.sid = e.sid, !.recovered = e.recovered]
      OBVIOUS
    <2>3. /\ t \in Terms /\ t.sid = e.sid /\ t.recovered = e.recovered
          /\ t.next = term[g].next /\ t.at = term[g].at /\ t.timer = term[g].timer
          /\ t.again = term[g].again /\ t.finalizing = term[g].finalizing
      BY <1>7, <2>2 DEF Entries, Sids, Terms
    <2>4. /\ term' \in [Gens -> Terms] /\ term'[g] = t
          /\ \A x \in Gens : x # g => term'[x] = term[x]
      BY <1>3, <1>7, <1>15, <2>1, <2>2, <2>3, SetFacts
    <2>5. /\ e.sid # NoSid /\ Known(pane, e.sid) /\ e.sid \in Sids /\ e.sid[1] \in Panes
          /\ e.sid[2] = "recovered" => e.recovered
          /\ e.recovered => Over(pane, e.sid)
          /\ pane[e.sid[1]].st = "recovered" => e.recovered
      <3>1. e.sid \in Sids
        BY DEF Entries, Sids
      <3> QED
        BY <1>3, <1>5, <1>15, <2>1, <3>1, SidFacts DEF DetachedOK
    <2>6. PICK r : r = Attach(g, e.sid, "open")
      OBVIOUS
    <2>7. r.op = "attach" /\ r.g = g /\ r.sid = e.sid /\ r.why = "open"
      BY <2>6 DEF Attach, Request
    <2>8. r \in Requests
      BY <1>7, <2>5, <2>6, RequestTypes DEF Attach, Ops, Whys
    <2>9. RequestOK(r)'
      <3>1. ~Opens(r) /\ ~Creates(r) /\ ~Kills(r) /\ ~ByKey(r)
        BY <2>7 DEF Opens, Creates, Kills, ByKey
      <3> QED
        BY <1>3, <1>4, <1>7, <2>3, <2>4, <2>5, <2>7, <3>1 DEF RequestOK
    <2>10. ASSUME NEW a \in Elems(Rest) PROVE PairOK(a, r)'
      BY <1>8, <2>7 DEF PairOK, Opens, Creates, Seeds, Kills, SameG
    <2>11. wire' = Append(Rest, r)
      BY <1>15, <2>1, <2>6
    <2>12. Elems(wire') = Elems(Rest) \cup {r} /\ wire' \in Seq(Requests)
      BY <1>12, <2>8, <2>11, AppendFacts
    <2>13. Typed'
      BY <1>11, <1>15, <2>4, <2>12
    <2>14. /\ WireOK' /\ OrderOK'
           /\ \A x \in Gens : x # g => TermAt(x)' /\ PollAt(x)' /\ ScreenAt(x)'
      <3>1. \A a \in Elems(Rest) : Creates(a) => NonePresent(pane')
        BY <1>3 DEF RequestOK
      <3>2. \E x \in Requests : /\ wire' = Append(Rest, x)
                                /\ x.g \in {0, g} /\ x.op # "inventory" /\ RequestOK(x)'
                                /\ \A a \in Elems(Rest) : PairOK(a, x)'
        BY <2>7, <2>8, <2>9, <2>10, <2>11
      <3>3. CurStep
        BY <1>4, <1>15 DEF CurStep
      <3>4. pane' \in [Panes -> States]
        BY <1>3 DEF Typed
      <3> QED
        BY <1>3, <1>4, <1>6, <1>7, <1>8, <1>9, <1>15, <2>4, <3>1, <3>2, <3>3, <3>4, Frame
    <2>15. ~t.timer /\ ~t.again /\ ~t.finalizing /\ t.next = 1 /\ t.at = "none" /\ exits[g] = << >>
      BY <1>7, <2>3 DEF TermAt, Ended, Over, Terms
    <2>16. TermAt(g)'
      <3>1. pane[e.sid[1]].out \in Nat
        BY <1>3, <2>5, BoundsNat DEF Typed, States
      <3> QED
        BY <1>3, <1>4, <1>7, <2>3, <2>4, <2>5, <2>15, <3>1, KeyTypes DEF TermAt
    <2>17. PollAt(g)'
      BY <2>4, <2>15 DEF PollAt
    <2>18. ScreenAt(g)'
      <3>1. ~Has(g, "history")
        BY <1>3, <1>8 DEF Has
      <3>2. AttachOpens(g)'
        BY <2>7, <2>12 DEF AttachOpens
      <3> QED
        BY <1>3, <1>4, <1>7, <2>3, <2>4, <2>5, <2>15, <3>1, <3>2 DEF ScreenAt
    <2>19. KeyOK'
      <3>1. \A x \in Elems(wire') : x \in Elems(wire) \/ (x.op = "create" => cur # 0)
        BY <1>3, <2>7, <2>12
      <3> QED
        BY <1>3, <1>4, <1>6, <1>15, <3>1, KeySteps
    <2> QED
      BY <1>5, <2>13, <2>14, <2>16, <2>17, <2>18, <2>19 DEF IInv, TermOK, PollOK, ScreenOK
  <1> QED
    <2>1. UNCHANGED term => term' = term
      OBVIOUS
    <2> QED
      BY <1>1, <1>2, <1>4, <1>13, <1>14, <1>15 DEF ListReply, AbandonOpening, Opening

(* The pane that a create makes *)
LEMMA CreateReplied ==
    ASSUME IInv, CreateReply
    PROVE  IInv'
  <1>1. PICK h : h = Head(wire)
    OBVIOUS
  <1>2. PICK g : g = h.g
    OBVIOUS
  <1>3. PICK f : f = FreePane(pane)
    OBVIOUS
  <1>4. /\ Typed /\ h \in Elems(wire) /\ h \in Requests /\ RequestOK(h) /\ h.op = "create"
        /\ link # "down" /\ Remain(Rest)
        /\ \A a \in Elems(Rest) : a \in Elems(wire) /\ PairOK(h, a) /\ RequestOK(a)
        /\ \A a \in Elems(wire) : a = h \/ a \in Elems(Rest)
        /\ pane' \in [Panes -> States] /\ PaneStep /\ NoRecovery /\ CarriedOK(pane')
        /\ pane' = Carried(pane, h)
    <2>1. Arrives("create")
      BY DEF CreateReply
    <2> QED
      BY <1>1, <2>1, Answered DEF Arrives
  <1>5. /\ link' = link /\ made' = made /\ screen' = screen /\ exits' = exits /\ cur' = cur
        /\ retired' = retired /\ closing' = closing /\ killed' = killed /\ detached' = detached
    BY DEF CreateReply, keyVars, viewVars
  <1>6. HasFree(pane) /\ f \in Panes /\ pane[f].st = "none"
    BY <1>3, FreeFacts DEF CreateReply
  <1>7. pane'[f].st = "live" /\ pane'[f].out = 0
    <2>1. pane' = [pane EXCEPT ![f] = [st |-> "live", out |-> 0, owner |-> "nobody"]]
      BY <1>3, <1>4, <1>6 DEF Carried
    <2> QED
      BY <1>4, <1>6, <2>1 DEF Typed
  <1>8. /\ g \in Gens /\ g # 0 /\ g <= made /\ g \in Nat
        /\ term[g] \in Terms /\ term[g].sid = NoSid /\ term[g].at # "wait"
        /\ TermAt(g) /\ ScreenAt(g)
    <2>1. g \in {0} \cup Gens /\ g # 0 /\ g <= made /\ term[g].sid = NoSid /\ term[g].at # "wait"
      BY <1>2, <1>4 DEF RequestOK, Opens, Requests
    <2> QED
      BY <1>4, <2>1, TermFacts DEF IInv, TermOK, ScreenOK
  <1>9. \A a \in Elems(Rest) : a.g # g /\ ~Creates(a)
    BY <1>2, <1>4, OpeningAlone DEF PairOK, SameG, Opens, Creates
  <1>10. PICK s : s = <<f, "created">>
    OBVIOUS
  <1>11. /\ s \in Sids /\ s # NoSid /\ s[1] = f /\ s[2] = "created" /\ Known(pane', s)
    BY <1>6, <1>7, <1>10 DEF Sids, Known, NoSid, Panes
  <1>12. PICK t : t = [term[g] EXCEPT !.sid = s]
    OBVIOUS
  <1>13. /\ t \in Terms /\ t.sid = s /\ t.recovered = term[g].recovered
         /\ t.next = term[g].next /\ t.at = term[g].at /\ t.timer = term[g].timer
         /\ t.again = term[g].again /\ t.finalizing = term[g].finalizing
    BY <1>8, <1>11, <1>12 DEF Terms
  <1>14. Answer(h).n = f
    BY <1>3, <1>4 DEF Answer, Ok, Reply
  <1>15. Set(g, t) /\ wire' = IF Opening(g) THEN Append(Rest, Attach(g, s, "open")) ELSE Rest
    BY <1>1, <1>2, <1>10, <1>12, <1>14 DEF CreateReply
  <1>16. /\ term' \in [Gens -> Terms] /\ term'[g] = t
         /\ \A x \in Gens : x # g => term'[x] = term[x]
    BY <1>4, <1>8, <1>13, <1>15, SetFacts
  <1>17. ~t.timer /\ ~t.again /\ ~t.finalizing /\ ~t.recovered /\ t.next = 1 /\ t.at = "none" /\ exits[g] = << >>
    BY <1>8, <1>13 DEF TermAt, Ended, Over, Terms
  <1>18. PICK r : r = Attach(g, s, "open")
    OBVIOUS
  <1>19. r.op = "attach" /\ r.g = g /\ r.sid = s /\ r.why = "open"
    BY <1>18 DEF Attach, Request
  <1>20. r \in Requests
    BY <1>8, <1>11, <1>18, RequestTypes DEF Attach, Ops, Whys
  <1>21. RequestOK(r)'
    <2>1. ~Opens(r) /\ ~Creates(r) /\ ~Kills(r) /\ ~ByKey(r)
      BY <1>19 DEF Opens, Creates, Kills, ByKey
    <2> QED
      BY <1>5, <1>8, <1>11, <1>13, <1>16, <1>19, <2>1 DEF RequestOK
  <1>22. \A a \in Elems(Rest) : PairOK(a, r)'
    BY <1>9, <1>19 DEF PairOK, Opens, Creates, Seeds, Kills, SameG
  <1>23. CurStep
    BY <1>5 DEF CurStep
  <1>24. wire' = Rest \/ \E x \in Requests :
               /\ wire' = Append(Rest, x)
               /\ x.g \in {0, g} /\ x.op # "inventory" /\ RequestOK(x)'
               /\ \A a \in Elems(Rest) : PairOK(a, x)'
    BY <1>15, <1>18, <1>19, <1>20, <1>21, <1>22
  <1>25. /\ WireOK' /\ OrderOK' /\ wire' \in Seq(Requests)
         /\ \A x \in Gens : x # g => TermAt(x)' /\ PollAt(x)' /\ ScreenAt(x)'
    <2>1. \A a \in Elems(wire) : Seeds(a) => a \in Elems(Rest)
      BY <1>4 DEF Seeds
    <2> QED
      BY <1>4, <1>5, <1>8, <1>9, <1>16, <1>23, <1>24, <2>1, Frame
  <1>26. Typed' /\ DetachedOK'
    <2>1. Typed'
      BY <1>4, <1>5, <1>16, <1>25 DEF Typed, Stamp
    <2> QED
      BY <1>4, <1>5, <2>1, DetachedSteps DEF IInv
  <1>27. /\ \A x \in Elems(wire') : x \in Elems(Rest) \/ x = r
         /\ Opening(g) => r \in Elems(wire')
    <2>1. Rest \in Seq(Requests)
      BY <1>4 DEF Remain
    <2>2. Elems(Append(Rest, r)) = Elems(Rest) \cup {r}
      BY <1>20, <2>1, AppendFacts
    <2> QED
      BY <1>15, <1>18, <2>2
  <1>28. TermAt(g)'
    <2>1. ~(g > made')
      BY <1>4, <1>5, <1>8, KeyTypes
    <2>2. /\ term'[g].sid = s /\ term'[g].next = 1 /\ term'[g].at = "none" /\ ~term'[g].recovered
          /\ ~term'[g].finalizing /\ ~term'[g].timer /\ ~term'[g].again /\ exits'[g] = << >>
      BY <1>5, <1>13, <1>16, <1>17
    <2>3. 1 <= pane'[s[1]].out + 1
      BY <1>7, <1>11
    <2> QED
      BY <1>11, <2>1, <2>2, <2>3 DEF TermAt
  <1>29. PollAt(g)'
    BY <1>16, <1>17 DEF PollAt
  <1>30. ScreenAt(g)'
    <2>1. ~Has(g, "history")
      BY <1>2, <1>4, <1>9 DEF Has
    <2>2. cur' = g => AttachOpens(g)'
      BY <1>5, <1>19, <1>27 DEF AttachOpens, Opening
    <2> QED
      BY <1>4, <1>5, <1>7, <1>8, <1>11, <1>13, <1>16, <1>17, <2>1, <2>2 DEF ScreenAt
  <1>31. KeyOK'
    <2>1. ~killed /\ KeyOK
      BY <1>4 DEF IInv, KeyOK
    <2>2. OneDaemonPane'
      BY <1>4, <1>5, <2>1 DEF OneDaemonPane, CarriedOK
    <2> QED
      BY <1>4, <1>5, <2>1, <2>2 DEF KeyOK, Stamp
  <1> QED
    BY <1>25, <1>26, <1>28, <1>29, <1>30, <1>31 DEF IInv, TermOK, PollOK, ScreenOK

(* A reply that moves its terminal in the stream *)
LEMMA Moves ==
    ASSUME IInv, Typed', PaneStep, NoRecovery, NoCreation, DetachedOK',
           made' = made, cur' = cur, closing' = closing, killed' = killed, link' = link,
           NEW g \in Gens, TermAt(g)', PollAt(g)', ScreenAt(g)',
           \A x \in Gens : x # g => /\ term'[x] = term[x] /\ screen'[x] = screen[x]
                                    /\ exits'[x] = exits[x],
           wire # << >>, NEW q, Remain(q), Elems(q) \subseteq Elems(Rest),
           \A a \in Elems(wire) : Seeds(a) => a \in Elems(q) \/ a.g = g,
           \A a \in Elems(q) : a.g = g => KeepsFor(a),
           \/ wire' = q
           \/ \E r \in Requests :
                 /\ wire' = Append(q, r) /\ link # "down"
                 /\ r.g \in {0, g} /\ r.op \notin {"inventory", "create"}
                 /\ RequestOK(r)'
                 /\ \A a \in Elems(q) : PairOK(a, r)'
    PROVE  IInv'
  <1>1. Typed /\ OrderOK /\ WireOK /\ g # 0
    BY DEF IInv, Gens
  <1>2. \A a \in Elems(q) : a \in Elems(wire) /\ (Creates(a) => NonePresent(pane'))
    BY <1>1, NoneSteps DEF Remain, WireOK, RequestOK
  <1>3. CurStep
    BY DEF CurStep
  <1>4. \A a \in Elems(q) : a.g = g /\ g # 0 => RequestOK(a)'
    BY <1>1, <1>2, <1>3, OldRequest
  <1>5. pane' \in [Panes -> States] /\ (link' = "down" \/ link # "down")
    BY DEF Typed
  <1>6. \/ wire' = q
        \/ \E r \in Requests : /\ wire' = Append(q, r)
                               /\ r.g \in {0, g} /\ r.op # "inventory" /\ RequestOK(r)'
                               /\ \A a \in Elems(q) : PairOK(a, r)'
    OBVIOUS
  <1>7. /\ WireOK' /\ OrderOK'
        /\ \A x \in Gens : x # g => TermAt(x)' /\ PollAt(x)' /\ ScreenAt(x)'
    BY <1>2, <1>3, <1>4, <1>5, <1>6, Frame
  <1>8. \A x \in Elems(wire') : x \in Elems(wire) \/ x.op # "create"
    <2>1. CASE wire' = q
      BY <2>1, <1>2
    <2>2. CASE wire' # q
      <3>1. PICK r \in Requests : wire' = Append(q, r) /\ r.op # "create"
        BY <2>2
      <3>2. Elems(wire') = Elems(q) \cup {r}
        BY <3>1, AppendFacts DEF Remain
      <3> QED
        BY <3>1, <3>2, <1>2
    <2> QED
      BY <2>1, <2>2
  <1>9. KeyOK'
    <2>1. link # "down"
      BY DEF IInv, KeyOK
    <2> QED
      BY <1>8, <2>1, KeySteps
  <1> QED
    BY <1>7, <1>9 DEF IInv, TermOK, PollOK, ScreenOK

(* What startPolling makes of the wire that remains *)
PollsOn(q, g) ==
    /\ Remain(q) /\ Elems(q) \subseteq Elems(Rest)
    /\ \A a \in Elems(Rest) : Seeds(a) => a \in Elems(q)
    /\ \/ wire' = q
       \/ \E r \in Requests :
             /\ wire' = Append(q, r) /\ link # "down"
             /\ r.op = "output" /\ r.g = g /\ Fits(r, term'[g])
             /\ RequestOK(r)'
             /\ \A a \in Elems(q) : PairOK(a, r)'
    /\ wire' \in Seq(Requests)
    /\ \A a \in Elems(wire') : a \in Elems(Rest) \/ (a.op = "output" /\ a.g = g)
    /\ \A a \in Elems(Rest) : Seeds(a) => a \in Elems(wire')

(* startPolling at the end of a reply *)
LEMMA PollSent ==
    ASSUME IInv, wire # << >>, made' = made, NEW g \in Gens, g <= made, NEW u \in Terms,
           term'[g] = Polling(g, u), wire' = PollOn(Rest, g, u),
           CanPoll(g, u) /\ link # "down" =>
              /\ Known(pane', u.sid) /\ pane'[u.sid[1]].st # "recovered"
              /\ \A a \in Elems(Rest) :
                    /\ a.op # "inventory"
                    /\ a.g = g /\ a.op = "attach" => Refused(pane', a) /\ a.why # "open"
    PROVE  \E q : PollsOn(q, g)
  <1>0. Typed /\ OrderOK
    BY DEF IInv
  <1>a. Remain(Rest)
    BY <1>0, RemainRest
  <1>1. CASE ~(CanPoll(g, u) /\ link # "down")
    <2>1. wire' = Rest
      BY <1>1 DEF PollOn
    <2>2. Rest \in Seq(Requests)
      BY <1>a DEF Remain
    <2> QED
      BY <1>a, <2>1, <2>2 DEF PollsOn
  <1>2. CASE CanPoll(g, u) /\ link # "down"
    <2>1. PICK q : q = NoPolls(Rest, g)
      OBVIOUS
    <2>2. PICK r : r = Output(g, u)
      OBVIOUS
    <2>3. wire' = Append(q, r)
      BY <1>2, <2>1, <2>2 DEF PollOn
    <2>4. /\ Remain(q) /\ Elems(q) \subseteq Elems(Rest)
          /\ \A a \in Elems(Rest) : Seeds(a) => a \in Elems(q)
          /\ \A a \in Elems(q) : ~(a.op = "output" /\ a.g = g)
      BY <1>0, <2>1, RemainRest DEF Seeds
    <2>5. PICK t : t = Polling(g, u)
      OBVIOUS
    <2>6. t \in Terms /\ SameTerm(u, t) /\ SameTerm(t, u) /\ ~t.timer
      BY <2>5, PollingFacts DEF SameTerm
    <2>7. t.sid # NoSid /\ ~t.recovered /\ Known(pane', t.sid) /\ pane'[t.sid[1]].st # "recovered"
      BY <1>2, <2>6 DEF CanPoll, SameTerm
    <2>8. /\ r \in Requests /\ r.g = g /\ r.op = "output" /\ RequestOK(r)' /\ Fits(r, t)
          /\ \A a : /\ a.op # "inventory"
                    /\ a.g = g => a.op # "output" /\ (a.op = "attach" => Refused(pane', a) /\ a.why # "open")
                    => PairOK(a, r)'
      BY <2>2, <2>5, <2>6, <2>7, NewPoll
    <2>9. \A a \in Elems(q) : PairOK(a, r)'
      BY <1>2, <2>4, <2>8
    <2>10. wire' \in Seq(Requests) /\ Elems(wire') = Elems(q) \cup {r}
      <3>1. q \in Seq(Requests)
        BY <2>4 DEF Remain
      <3> QED
        BY <2>3, <2>8, <3>1, AppendFacts
    <2> QED
      BY <1>2, <2>5, <2>3, <2>4, <2>8, <2>9, <2>10 DEF PollsOn
  <1> QED
    BY <1>1, <1>2

LEMMA SeedForFacts ==
    ASSUME NEW g, NEW n \in Nat \ {0}
    PROVE  /\ SeedFor(g, n) \in Seq(Nat) /\ Continuous(SeedFor(g, n))
           /\ SeedFor(g, n) = << >> \/ SeedFor(g, n)[Len(SeedFor(g, n))] + 1 = n
           /\ ~term[g].recovered => SeedFor(g, n) # << >>
  <1>1. CASE term[g].recovered
    BY <1>1 DEF SeedFor, Continuous
  <1>2. CASE ~term[g].recovered
    <2>1. SeedFor(g, n) = <<n - 1>> /\ n - 1 \in Nat
      BY <1>2 DEF SeedFor
    <2>2. Len(<<n - 1>>) = 1 /\ <<n - 1>>[1] = n - 1 /\ <<n - 1>> \in Seq(Nat) /\ <<n - 1>> # << >>
      BY <2>1
    <2> QED
      BY <2>1, <2>2 DEF Continuous
  <1> QED
    BY <1>1, <1>2

(* A pane that came back is known to be, or the inventory is asked for     *)
LEMMA NotRecovered ==
    ASSUME IInv, NEW g \in Gens, CanPoll(g, term[g]), link # "down", ~Has(g, "inventory")
    PROVE  pane[term[g].sid[1]].st # "recovered"
  BY DEF IInv, ScreenOK, ScreenAt, CanPoll

LEMMA HistoryReplied ==
    ASSUME IInv, HistoryReply
    PROVE  IInv'
  <1>1. PICK h : h = Head(wire)
    OBVIOUS
  <1>2. PICK g : g = h.g
    OBVIOUS
  <1>3. /\ Typed /\ h \in Elems(wire) /\ h \in Requests /\ RequestOK(h) /\ h.op = "history"
        /\ link # "down" /\ Remain(Rest) /\ wire # << >>
        /\ \A a \in Elems(Rest) : a \in Elems(wire) /\ PairOK(h, a) /\ RequestOK(a)
        /\ \A a \in Elems(wire) : a = h \/ a \in Elems(Rest)
        /\ pane' = pane
    <2>1. Arrives("history")
      BY DEF HistoryReply
    <2> QED
      BY <1>1, <2>1, Answered DEF Arrives
  <1>4. /\ link' = link /\ made' = made /\ exits' = exits /\ cur' = cur
        /\ retired' = retired /\ closing' = closing /\ killed' = killed /\ detached' = detached
    BY <1>1 DEF HistoryReply, keyVars
  <1>5. PaneStep /\ NoRecovery /\ NoCreation
    BY <1>3, StillPanes
  <1>6. /\ g \in Gens /\ g # 0 /\ g <= made /\ g \in Nat /\ h.n = term[g].next /\ h.n \in Nat \ {0}
        /\ term[g] \in Terms /\ term[g].sid # NoSid /\ ~term[g].again /\ ~term[g].finalizing
        /\ TermAt(g) /\ ScreenAt(g)
    <2>1. /\ g \in {0} \cup Gens /\ g # 0 /\ g <= made /\ h.n = term[g].next
          /\ h.sid # NoSid /\ h.sid[1] = term[g].sid[1] /\ h.sid \in Sids
      BY <1>2, <1>3 DEF RequestOK, OfPane, Requests
    <2>2. term[g].sid # NoSid
      <3>1. h.sid[1] \in Panes
        BY <2>1, SidFacts
      <3> QED
        BY <2>1, <3>1 DEF NoSid, Panes
    <2>3. PollAt(g)
      BY <2>1 DEF IInv, PollOK
    <2>4. ~term[g].again /\ ~term[g].finalizing
      BY <1>2, <1>3, <2>3 DEF PollAt, Has
    <2> QED
      BY <1>3, <2>1, <2>2, <2>4, TermFacts DEF IInv, TermOK, ScreenOK
  <1>7. /\ \A a \in Elems(Rest) : a.op # "inventory" /\ (a.g = g => ~Seeds(a))
    BY <1>2, <1>3 DEF PairOK, SameG, Seeds
  <1>8. PICK t : t = Polling(g, term[g])
    OBVIOUS
  <1>9. t \in Terms /\ SameTerm(term[g], t) /\ ~t.timer
    BY <1>6, <1>8, PollingFacts
  <1>10. /\ term' \in [Gens -> Terms] /\ term'[g] = t
         /\ \A x \in Gens : x # g => term'[x] = term[x]
    BY <1>1, <1>2, <1>3, <1>6, <1>8, <1>9, SetFacts DEF HistoryReply
  <1>11. PICK s : s = SeedFor(g, h.n)
    OBVIOUS
  <1>12. /\ s \in Seq(Nat) /\ Continuous(s) /\ (s = << >> \/ s[Len(s)] + 1 = h.n)
         /\ ~term[g].recovered => s # << >>
    BY <1>6, <1>11, SeedForFacts
  <1>13. /\ screen' \in [Gens -> Seq(Nat)] /\ screen'[g] = s
         /\ \A x \in Gens : x # g => screen'[x] = screen[x]
    <2>1. screen' = [screen EXCEPT ![g] = s]
      BY <1>1, <1>2, <1>11 DEF HistoryReply, Show
    <2> QED
      BY <1>3, <1>6, <1>12, <2>1 DEF Typed
  <1>14. Calm(g)
    BY <1>6, <1>9, <1>10, <1>3, KeyTypes DEF Calm, Keeps, SameTerm
  <1>15. ~Has(g, "inventory")
    BY <1>3, <1>7 DEF Has
  <1>16. CanPoll(g, term[g]) /\ link # "down" =>
              /\ Known(pane', term[g].sid) /\ pane'[term[g].sid[1]].st # "recovered"
              /\ \A a \in Elems(Rest) :
                    /\ a.op # "inventory"
                    /\ a.g = g /\ a.op = "attach" => Refused(pane', a) /\ a.why # "open"
    BY <1>3, <1>6, <1>7, <1>15, NotRecovered DEF TermAt, Seeds
  <1>17. PICK q :
             /\ Remain(q) /\ Elems(q) \subseteq Elems(Rest)
             /\ \A a \in Elems(Rest) : Seeds(a) => a \in Elems(q)
             /\ \/ wire' = q
                \/ \E r \in Requests :
                      /\ wire' = Append(q, r) /\ link # "down"
                      /\ r.op = "output" /\ r.g = g /\ Fits(r, term'[g])
                      /\ RequestOK(r)'
                      /\ \A a \in Elems(q) : PairOK(a, r)'
             /\ wire' \in Seq(Requests)
             /\ \A a \in Elems(wire') : a \in Elems(Rest) \/ (a.op = "output" /\ a.g = g)
    <2>1. wire' = PollOn(Rest, g, term[g])
      BY <1>1, <1>2 DEF HistoryReply
    <2>2. term'[g] = Polling(g, term[g])
      BY <1>8, <1>10
    <2>3. wire # << >> /\ made' = made /\ g \in Gens /\ g <= made /\ term[g] \in Terms
      BY <1>3, <1>4, <1>6
    <2>4. PICK z : PollsOn(z, g)
      BY <1>16, <2>1, <2>2, <2>3, PollSent
    <2> QED
      BY <2>4 DEF PollsOn
  <1>18. Typed' /\ DetachedOK'
    <2>1. Typed'
      BY <1>3, <1>4, <1>10, <1>13, <1>17 DEF Typed, Stamp
    <2> QED
      BY <1>3, <1>4, <1>5, <2>1, DetachedSteps DEF IInv
  <1>19. TermAt(g)'
    <2>1. pane' \in [Panes -> States]
      BY <1>18 DEF Typed
    <2>2. ~(g > made)
      BY <1>3, <1>6, KeyTypes
    <2> QED
      BY <1>3, <1>4, <1>5, <1>6, <1>14, <2>1, <2>2, TermSteps DEF IInv
  <1>20. PollAt(g)'
    BY <1>6, <1>9, <1>10 DEF PollAt, SameTerm
  <1>21. ScreenAt(g)'
    BY <1>3, <1>4, <1>6, <1>9, <1>10, <1>12, <1>13, <1>15 DEF ScreenAt, SameTerm
  <1>22. \A a \in Elems(q) : a.g = g => KeepsFor(a)
    BY <1>6, <1>9, <1>10 DEF KeepsFor, Keeps, SameTerm
  <1>23. \A a \in Elems(wire) : Seeds(a) => a \in Elems(q) \/ a.g = g
    BY <1>2, <1>3, <1>17
  <1>24. \A x \in Gens : x # g => /\ term'[x] = term[x] /\ screen'[x] = screen[x]
                                  /\ exits'[x] = exits[x]
    BY <1>4, <1>10, <1>13
  <1>25. \/ wire' = q
         \/ \E r \in Requests :
               /\ wire' = Append(q, r) /\ link # "down"
               /\ r.g \in {0, g} /\ r.op \notin {"inventory", "create"}
               /\ RequestOK(r)'
               /\ \A a \in Elems(q) : PairOK(a, r)'
    BY <1>17
  <1> QED
    BY <1>3, <1>4, <1>5, <1>6, <1>17, <1>18, <1>19, <1>20, <1>21, <1>22, <1>23, <1>24, <1>25, Moves

LEMMA OutNat == Typed => \A x \in Panes : pane[x].out \in Nat
  BY BoundsNat DEF Typed, States

LEMMA Successor == \A m \in Nat : m + 1 \in Nat \ {0} /\ m + 1 <= m + 1 /\ 1 \in Nat \ {0} /\ 1 <= m + 1
  OBVIOUS

(* What an attach that the daemon accepts finds *)
LEMMA AttachFacts ==
    ASSUME IInv, Arrives("attach"), NEW h, h = Head(wire), Answer(h).error = "", NEW g, g = h.g
    PROVE  /\ g \in Gens /\ g # 0 /\ g <= made /\ g \in Nat /\ h.sid = term[g].sid /\ h.sid \in Sids
           /\ term[g] \in Terms /\ term[g].sid # NoSid /\ ~term[g].timer /\ ~term[g].finalizing
           /\ term[g].at = "none"
           /\ h.why \in {"open", "again"} => ~term[g].again
           /\ TermAt(g) /\ ScreenAt(g) /\ PollAt(g)
           /\ \A x \in Panes : pane'[x].st = pane[x].st /\ pane'[x].out = pane[x].out
           /\ term[g].sid[1] \in Panes /\ pane[term[g].sid[1]].st \in {"live", "recovered"}
           /\ Answer(h).n \in Nat \ {0} /\ Answer(h).n <= pane[term[g].sid[1]].out + 1
           /\ \A a \in Elems(Rest) : /\ a.op # "inventory"
                                     /\ a.g = g => ~Seeds(a) /\ a.op # "output"
           /\ ~Has(g, "inventory") /\ ~Has(g, "history")
           /\ h.why = "crash" => Over(pane', term[g].sid)
  <1>1. /\ Typed /\ h \in Elems(wire) /\ h \in Requests /\ RequestOK(h) /\ h.op = "attach"
        /\ \A a \in Elems(Rest) : a \in Elems(wire) /\ PairOK(h, a)
        /\ \A a \in Elems(wire) : a = h \/ a \in Elems(Rest)
        /\ pane' = Carried(pane, h)
    BY Answered DEF Arrives
  <1>2. Found(pane, h.sid) /\ pane[h.sid[1]].st # "exited"
    <2>1. ~Found(pane, h.sid) => Answer(h) = Fails("notfound")
      BY <1>1 DEF Answer
    <2>2. Found(pane, h.sid) /\ pane[h.sid[1]].st = "exited" => Answer(h) = Fails("exited")
      BY <1>1 DEF Answer
    <2>3. Fails("notfound").error = "notfound" /\ Fails("exited").error = "exited"
      BY DEF Fails, Reply
    <2>4. Answer(h).error # "notfound" /\ Answer(h).error # "exited"
      OBVIOUS
    <2> QED
      BY <2>1, <2>2, <2>3, <2>4
  <1>3. ~Refused(pane, h)
    BY <1>2 DEF Refused
  <1>4. /\ g \in Gens /\ g # 0 /\ g <= made /\ h.sid = term[g].sid /\ h.sid \in Sids /\ h.sid # NoSid
    <2>1. g \in {0} \cup Gens /\ g # 0 /\ g <= made /\ h.sid # NoSid /\ h.sid \in Sids /\ h.sid = term[g].sid
      BY <1>1 DEF RequestOK, OfPane, Requests
    <2> QED
      BY <2>1
  <1>5. /\ g \in Nat /\ term[g] \in Terms /\ TermAt(g) /\ ScreenAt(g) /\ PollAt(g)
    BY <1>1, <1>4, TermFacts DEF IInv, TermOK, ScreenOK, PollOK
  <1>6. ~term[g].timer /\ (h.why \in {"open", "again"} => ~term[g].again)
    BY <1>1, <1>3, <1>5 DEF PollAt
  <1>7. h.sid[1] \in Panes /\ pane[h.sid[1]].st \in {"live", "recovered"}
    BY <1>2 DEF Found, Present
  <1>8. ~term[g].finalizing /\ term[g].at = "none"
    BY <1>4, <1>5, <1>7 DEF TermAt, Ended, Terms
  <1>9. \A x \in Panes : pane'[x].st = pane[x].st /\ pane'[x].out = pane[x].out
    <2>1. PICK p \in Panes : p = h.sid[1]
      BY <1>7
    <2>2. pane' = [pane EXCEPT ![p].owner = "us"]
      BY <1>1, <1>2, <2>1 DEF Carried
    <2>3. pane \in [Panes -> States] /\ pane[p] \in States
      BY <1>1 DEF Typed
    <2> QED
      BY <2>2, <2>3 DEF States
  <1>10. Answer(h).n = IF pane[h.sid[1]].st = "live" THEN pane[h.sid[1]].out + 1 ELSE 1
    BY <1>1, <1>2 DEF Answer, Ok, Reply
  <1>11. pane[h.sid[1]].out \in Nat
    <2>1. \A x \in Panes : pane[x].out \in Nat
      BY <1>1, OutNat
    <2> QED
      BY <1>7, <2>1
  <1>12. \A a \in Elems(Rest) : /\ a.op # "inventory"
                                /\ a.g = g => ~Seeds(a) /\ a.op # "output"
    BY <1>1, <1>3 DEF PairOK, Seeds, SameG
  <1>13. ~Has(g, "inventory") /\ ~Has(g, "history")
    BY <1>1, <1>12 DEF Has, Seeds
  <1>14. h.why = "crash" => Over(pane', term[g].sid)
    BY <1>1, <1>4, <1>7, <1>9 DEF RequestOK, Over
  <1>15. Answer(h).n \in Nat \ {0} /\ Answer(h).n <= pane[h.sid[1]].out + 1
    <2>1. \A m \in Nat : m + 1 \in Nat \ {0} /\ m + 1 <= m + 1 /\ 1 \in Nat \ {0} /\ 1 <= m + 1
      BY Successor
    <2> QED
      BY <1>10, <1>11, <2>1, Zenon
  <1> QED
    BY <1>4, <1>5, <1>6, <1>7, <1>8, <1>9, <1>12, <1>13, <1>14, <1>15

LEMMA EmitFacts ==
    ASSUME Typed, NEW g \in Gens, NEW kind \in {"end", "daemon-crash"}, Emit(g, kind)
    PROVE  /\ exits' \in [Gens -> Seq({"end", "daemon-crash"})]
           /\ \A x \in Gens : x # g => exits'[x] = exits[x]
  <1>1. exits' = [exits EXCEPT ![g] = Append(exits[g], kind)]
    BY DEF Emit
  <1>2. Append(exits[g], kind) \in Seq({"end", "daemon-crash"})
    BY DEF Typed
  <1> QED
    BY <1>1, <1>2 DEF Typed

LEMMA AttachReplied ==
    ASSUME IInv, AttachReply
    PROVE  IInv'
  <1>1. PICK h : h = Head(wire)
    OBVIOUS
  <1>2. PICK g : g = h.g
    OBVIOUS
  <1>a. Arrives("attach") /\ Answer(h).error = ""
    BY <1>1 DEF AttachReply
  <1>3. /\ Typed /\ h \in Elems(wire) /\ h.op = "attach" /\ link # "down" /\ Remain(Rest) /\ wire # << >>
        /\ \A a \in Elems(Rest) : a \in Elems(wire)
        /\ \A a \in Elems(wire) : a = h \/ a \in Elems(Rest)
        /\ pane' \in [Panes -> States] /\ PaneStep /\ NoRecovery /\ NoCreation
    BY <1>1, <1>a, Answered DEF Arrives
  <1>4. /\ link' = link /\ made' = made /\ cur' = cur /\ retired' = retired
        /\ closing' = closing /\ killed' = killed /\ detached' = detached
    BY DEF AttachReply, keyVars
  <1>5. PICK n : n = Answer(h).n
    OBVIOUS
  <1>6. /\ g \in Gens /\ g # 0 /\ g <= made /\ g \in Nat
        /\ term[g] \in Terms /\ term[g].sid # NoSid /\ term[g].sid \in Sids
        /\ ~term[g].timer /\ ~term[g].finalizing
        /\ term[g].at = "none"
        /\ h.why \in {"open", "again"} => ~term[g].again
        /\ TermAt(g) /\ ScreenAt(g) /\ PollAt(g)
        /\ \A x \in Panes : pane'[x].st = pane[x].st /\ pane'[x].out = pane[x].out
        /\ term[g].sid[1] \in Panes /\ pane[term[g].sid[1]].st \in {"live", "recovered"}
        /\ n \in Nat \ {0} /\ n <= pane[term[g].sid[1]].out + 1
        /\ \A a \in Elems(Rest) : /\ a.op # "inventory"
                                  /\ a.g = g => ~Seeds(a) /\ a.op # "output"
        /\ ~Has(g, "inventory") /\ ~Has(g, "history")
        /\ h.why = "crash" => Over(pane', term[g].sid)
    BY <1>1, <1>2, <1>a, <1>5, AttachFacts
  <1>7. Known(pane', term[g].sid) /\ (term[g].recovered => Over(pane', term[g].sid))
    BY <1>3, <1>6, KnownSteps DEF TermAt
  (* what either branch makes of the terminal *)
  <1>8. ASSUME NEW t \in Terms, term' \in [Gens -> Terms], term'[g] = t,
               t.sid = term[g].sid, t.recovered = term[g].recovered, t.next = n, ~t.timer,
               t.again = term[g].again, ~t.finalizing, t.at = "none",
               \A x \in Gens : x # g => term'[x] = term[x],
               screen' \in [Gens -> Seq(Nat)], exits' \in [Gens -> Seq({"end", "daemon-crash"})],
               \A x \in Gens : x # g => screen'[x] = screen[x] /\ exits'[x] = exits[x],
               exits'[g] = exits[g] \/ Over(pane', term[g].sid),
               Continuous(screen'[g]),
               Has(g, "history")' \/ ((screen'[g] = << >> \/ screen'[g][Len(screen'[g])] + 1 = n)
                                      /\ (~term[g].recovered => screen'[g] # << >>)),
               wire' \in Seq(Requests),
               h.why \in {"open", "again"} \/ ~Has(g, "history")',
               \A a \in Elems(wire') : a \in Elems(Rest) \/ a.op \in {"output", "history"},
               NEW q, Remain(q), Elems(q) \subseteq Elems(Rest),
               \A a \in Elems(Rest) : Seeds(a) => a \in Elems(q),
               \/ wire' = q
               \/ \E r \in Requests :
                     /\ wire' = Append(q, r) /\ link # "down"
                     /\ r.op \in {"output", "history"} /\ r.g = g
                     /\ RequestOK(r)'
                     /\ \A a \in Elems(q) : PairOK(a, r)'
        PROVE  IInv'
    <2>1. Typed' /\ DetachedOK'
      <3>1. Typed'
        BY <1>3, <1>4, <1>8 DEF Typed, Stamp
      <3> QED
        BY <1>3, <1>4, <3>1, DetachedSteps DEF IInv
    <2>2. TermAt(g)'
      <3>1. exits[g] # << >> => Over(pane', term[g].sid)
        BY <1>3, <1>6, KnownSteps DEF TermAt
      <3>2. ~(g > made')
        BY <1>3, <1>4, <1>6, KeyTypes
      <3>3. n <= pane'[t.sid[1]].out + 1
        BY <1>6, <1>8
      <3> QED
        BY <1>6, <1>7, <1>8, <3>1, <3>2, <3>3 DEF TermAt
    <2>3. PollAt(g)'
      <3>1. t.again => \A r \in Elems(wire') :
               r.g = g => r.op # "history" /\ ~(r.op = "attach" /\ r.why \in {"open", "again"})
        <4> SUFFICES ASSUME t.again, NEW r \in Elems(wire'), r.g = g
                     PROVE  r.op # "history" /\ ~(r.op = "attach" /\ r.why \in {"open", "again"})
          OBVIOUS
        <4>1. ~Has(g, "history")'
          BY <1>6, <1>8
        <4>2. r.op # "history"
          BY <4>1 DEF Has
        <4>3. r.op # "attach"
          BY <1>6, <1>8, <4>2 DEF Seeds
        <4> QED
          BY <4>2, <4>3
      <3> QED
        BY <1>8, <3>1 DEF PollAt
    <2>4. ScreenAt(g)'
      <3>1. cur' = g /\ link' # "down" /\ pane'[t.sid[1]].st = "recovered" => t.recovered
        BY <1>3, <1>4, <1>6, <1>8 DEF ScreenAt
      <3> QED
        BY <1>8, <3>1 DEF ScreenAt
    <2>5. \A a \in Elems(q) : a.g = g => KeepsFor(a)
      BY <1>6, <1>8 DEF KeepsFor, Seeds
    <2>6. \A a \in Elems(wire) : Seeds(a) => a \in Elems(q) \/ a.g = g
      BY <1>2, <1>3, <1>8
    <2>7. \/ wire' = q
          \/ \E r \in Requests :
                /\ wire' = Append(q, r) /\ link # "down"
                /\ r.g \in {0, g} /\ r.op \notin {"inventory", "create"}
                /\ RequestOK(r)'
                /\ \A a \in Elems(q) : PairOK(a, r)'
      BY <1>8
    <2>8. \A x \in Gens : x # g => /\ term'[x] = term[x] /\ screen'[x] = screen[x]
                                   /\ exits'[x] = exits[x]
      BY <1>8
    <2> QED
      BY <1>3, <1>4, <1>6, <1>8, <2>1, <2>2, <2>3, <2>4, <2>5, <2>6, <2>7, <2>8, Moves
  <1>9. CASE h.why \in {"open", "again"}
    <2>1. PICK t : t = [term[g] EXCEPT !.waiting = FALSE, !.next = n]
      OBVIOUS
    <2>2. /\ t \in Terms /\ t.sid = term[g].sid /\ t.recovered = term[g].recovered /\ t.next = n /\ ~t.timer
          /\ t.again = term[g].again /\ ~t.finalizing /\ t.at = "none"
      BY <1>6, <2>1 DEF Terms
    <2>3. PICK r : r = Request("history", g, term[g].sid, "", n)
      OBVIOUS
    <2>4. r.op = "history" /\ r.g = g /\ r.sid = term[g].sid /\ r.n = n
      BY <2>3 DEF Request
    <2>5. r \in Requests
      BY <1>6, <2>3, RequestTypes DEF Ops, Whys
    <2>6. wire' = Append(Rest, r) /\ Set(g, t) /\ screen' = screen /\ exits' = exits
      <3>1. [Stopped(term[g]) EXCEPT !.waiting = FALSE, !.next = n].sid = term[g].sid
        BY <1>6 DEF Stopped, Terms
      <3> QED
        BY <1>1, <1>2, <1>5, <1>9, <2>1, <2>3, <3>1 DEF AttachReply
    <2>7. /\ term' \in [Gens -> Terms] /\ term'[g] = t
          /\ \A x \in Gens : x # g => term'[x] = term[x]
      BY <1>3, <1>6, <2>2, <2>6, SetFacts
    <2>8. Elems(wire') = Elems(Rest) \cup {r} /\ wire' \in Seq(Requests)
      <3>1. Rest \in Seq(Requests)
        BY <1>3 DEF Remain
      <3> QED
        BY <2>5, <2>6, <3>1, AppendFacts
    <2>9. RequestOK(r)'
      <3>1. ~Opens(r) /\ ~Creates(r) /\ ~Kills(r) /\ ~ByKey(r)
        BY <2>4 DEF Opens, Creates, Kills, ByKey
      <3> QED
        BY <1>4, <1>6, <1>7, <2>2, <2>4, <2>7, <3>1 DEF RequestOK
    <2>10. \A a \in Elems(Rest) : PairOK(a, r)'
      BY <1>6, <2>4 DEF PairOK, Opens, Creates, Seeds, Kills, SameG
    <2>11. Has(g, "history")'
      BY <2>4, <2>8 DEF Has
    <2>12. /\ screen' \in [Gens -> Seq(Nat)] /\ exits' \in [Gens -> Seq({"end", "daemon-crash"})]
           /\ Continuous(screen'[g])
      BY <1>3, <1>6, <2>6 DEF Typed, ScreenAt
    <2>13. \E x \in Requests :
                     /\ wire' = Append(Rest, x) /\ link # "down"
                     /\ x.op \in {"output", "history"} /\ x.g = g
                     /\ RequestOK(x)'
                     /\ \A a \in Elems(Rest) : PairOK(a, x)'
      BY <1>3, <2>4, <2>5, <2>6, <2>9, <2>10
    <2>14. \A a \in Elems(wire') : a \in Elems(Rest) \/ a.op \in {"output", "history"}
      BY <2>4, <2>8
    <2> QED
      BY <1>3, <1>8, <1>9, <2>2, <2>6, <2>7, <2>8, <2>11, <2>12, <2>13, <2>14
  <1>10. CASE h.why \notin {"open", "again"}
    <2>1. PICK t : t = [Stopped(term[g]) EXCEPT !.waiting = FALSE, !.next = n]
      OBVIOUS
    <2>2. /\ t \in Terms /\ t.sid = term[g].sid /\ t.recovered = term[g].recovered /\ t.next = n /\ ~t.timer
          /\ t.again = term[g].again /\ ~t.finalizing /\ t.at = "none"
      BY <1>6, <2>1 DEF Terms, Stopped
    <2>3. PICK s : s = SeedFor(g, n)
      OBVIOUS
    <2>4. /\ s \in Seq(Nat) /\ Continuous(s) /\ (s = << >> \/ s[Len(s)] + 1 = n)
          /\ ~term[g].recovered => s # << >>
      BY <1>6, <2>3, SeedForFacts
    <2>5. /\ screen' \in [Gens -> Seq(Nat)] /\ screen'[g] = s
          /\ \A x \in Gens : x # g => screen'[x] = screen[x]
      <3>1. screen' = [screen EXCEPT ![g] = s]
        BY <1>1, <1>2, <1>5, <1>10, <2>3 DEF AttachReply, Show
      <3> QED
        BY <1>3, <1>6, <2>4, <3>1 DEF Typed
    <2>6. CASE h.why = "crash" /\ cur = g
      <3>1. Set(g, t) /\ Emit(g, "daemon-crash") /\ wire' = Rest
        BY <1>1, <1>2, <1>5, <1>10, <2>1, <2>6 DEF AttachReply
      <3>2. /\ term' \in [Gens -> Terms] /\ term'[g] = t
            /\ \A x \in Gens : x # g => term'[x] = term[x]
        BY <1>3, <1>6, <2>2, <3>1, SetFacts
      <3>3. /\ exits' \in [Gens -> Seq({"end", "daemon-crash"})]
            /\ \A x \in Gens : x # g => exits'[x] = exits[x]
        BY <1>3, <1>6, <3>1, EmitFacts
      <3>4. ~Has(g, "history")' /\ wire' \in Seq(Requests)
        BY <1>3, <1>6, <3>1 DEF Has, Remain
      <3>5. \A a \in Elems(wire') : a \in Elems(Rest) \/ a.op \in {"output", "history"}
        BY <3>1
      <3> QED
        BY <1>3, <1>6, <1>8, <2>2, <2>4, <2>5, <2>6, <3>1, <3>2, <3>3, <3>4, <3>5
    <2>7. CASE ~(h.why = "crash" /\ cur = g)
      <3>1. Set(g, Polling(g, t)) /\ wire' = PollOn(Rest, g, t) /\ exits' = exits
        BY <1>1, <1>2, <1>5, <1>10, <2>1, <2>7 DEF AttachReply
      <3>2. PICK u : u = Polling(g, t)
        OBVIOUS
      <3>3. u \in Terms /\ SameTerm(t, u) /\ ~u.timer
        BY <2>2, <3>2, PollingFacts
      <3>4. /\ term' \in [Gens -> Terms] /\ term'[g] = u
            /\ \A x \in Gens : x # g => term'[x] = term[x]
        BY <1>3, <1>6, <3>1, <3>2, <3>3, SetFacts
      <3>5. CanPoll(g, t) /\ link # "down" =>
                  /\ Known(pane', t.sid) /\ pane'[t.sid[1]].st # "recovered"
                  /\ \A a \in Elems(Rest) :
                        /\ a.op # "inventory"
                        /\ a.g = g /\ a.op = "attach" => Refused(pane', a) /\ a.why # "open"
        BY <1>6, <1>7, <2>2 DEF CanPoll, ScreenAt, Seeds
      <3>6. PICK q :
               /\ Remain(q) /\ Elems(q) \subseteq Elems(Rest)
               /\ \A a \in Elems(Rest) : Seeds(a) => a \in Elems(q)
               /\ \/ wire' = q
                  \/ \E r \in Requests :
                        /\ wire' = Append(q, r) /\ link # "down"
                        /\ r.op = "output" /\ r.g = g /\ Fits(r, term'[g])
                        /\ RequestOK(r)'
                        /\ \A a \in Elems(q) : PairOK(a, r)'
               /\ wire' \in Seq(Requests)
               /\ \A a \in Elems(wire') : a \in Elems(Rest) \/ (a.op = "output" /\ a.g = g)
        <4>1. term'[g] = Polling(g, t) /\ wire' = PollOn(Rest, g, t) /\ t \in Terms
          BY <2>2, <3>1, <3>2, <3>4
        <4>2. wire # << >> /\ made' = made /\ g \in Gens /\ g <= made
          BY <1>3, <1>4, <1>6
        <4>3. PICK z : PollsOn(z, g)
          BY <3>5, <4>1, <4>2, PollSent
        <4> QED
          BY <4>3 DEF PollsOn
      <3>7. ~Has(g, "history")'
        BY <1>3, <1>6, <3>6 DEF Has
      <3>8. exits' \in [Gens -> Seq({"end", "daemon-crash"})] /\ exits'[g] = exits[g]
            /\ \A x \in Gens : x # g => screen'[x] = screen[x] /\ exits'[x] = exits[x]
        BY <1>3, <2>5, <3>1 DEF Typed
      <3>9. /\ u.sid = term[g].sid /\ u.recovered = term[g].recovered /\ u.next = n
            /\ u.again = term[g].again /\ ~u.finalizing /\ u.at = "none"
        BY <2>2, <3>3 DEF SameTerm
      <3>10. \/ wire' = q
             \/ \E r \in Requests :
                     /\ wire' = Append(q, r) /\ link # "down"
                     /\ r.op \in {"output", "history"} /\ r.g = g
                     /\ RequestOK(r)'
                     /\ \A a \in Elems(q) : PairOK(a, r)'
        BY <3>6
      <3>11. /\ \A a \in Elems(wire') : a \in Elems(Rest) \/ a.op \in {"output", "history"}
             /\ Continuous(screen'[g])
             /\ screen'[g] = << >> \/ screen'[g][Len(screen'[g])] + 1 = n
             /\ ~term[g].recovered => screen'[g] # << >>
        BY <2>4, <2>5, <3>6
      <3> QED
        BY <1>8, <2>5, <3>3, <3>4, <3>6, <3>7, <3>8, <3>9, <3>10, <3>11
    <2> QED
      BY <2>6, <2>7
  <1> QED
    BY <1>9, <1>10

-----------------------------------------------------------------------------
(* Failures                                                                *)

(* completeExited, of a terminal whose pane has ended *)
LEMMA Completed ==
    ASSUME IInv, NEW g \in Gens, term[g].sid # NoSid, Complete(g), Over(pane', term[g].sid),
           PaneStep, NoRecovery, NoCreation, pane' \in [Panes -> States],
           wire # << >>, wire' = NoPolls(Rest, g), screen' = screen, link' = link,
           NEW h, h = Head(wire), h.op \notin {"inventory", "history"},
           h.op = "attach" => h.g = g /\ h.why # "open"
    PROVE  IInv'
  <1>1. PICK q : q = NoPolls(Rest, g)
    OBVIOUS
  <1>2. /\ Typed /\ g \in Nat /\ g <= made /\ term[g] \in Terms /\ g # 0
        /\ Remain(q) /\ q \in Seq(Requests)
    BY <1>1, RemainRest, UnbornFacts, TermFacts DEF IInv, Remain
  <1>3. \A a \in Elems(wire) : Seeds(a) =>
              \/ a \in Elems(q)
              \/ a.op = "attach" /\ a.g = g /\ (a.why = "open" => cur' # g)
    <2>1. \A a \in Elems(wire) : a = h \/ a \in Elems(Rest)
      BY RemainRest DEF IInv
    <2>2. \A a \in Elems(Rest) : a.op = "output" \/ a \in Elems(q)
      BY <1>1, RemainRest DEF IInv
    <2> QED
      BY <2>1, <2>2 DEF Seeds
  <1>4. \A a \in Elems(q) : a.op = "topology" => cur # g
    BY <1>2 DEF Remain, IInv, WireOK, RequestOK, Opens
  <1>5. CASE cur # g
    <2>1. /\ term' = term /\ cur' = cur /\ made' = made /\ retired' = retired /\ closing' = closing
          /\ killed' = killed /\ detached' = detached /\ exits' = exits
      BY <1>5 DEF Complete, keyVars
    <2>2. Typed'
      BY <1>1, <1>2, <2>1 DEF Typed, Stamp
    <2>3. DetachedOK'
      BY <1>2, <2>1, DetachedSteps DEF IInv
    <2>4. Calm(g)
      BY <2>1 DEF Calm, Keeps
    <2> QED
      BY <1>1, <1>2, <1>3, <2>1, <2>2, <2>3, <2>4, Ordinary
  <1>6. CASE cur = g
    <2>1. PICK t : t = [Stopped(term[g]) EXCEPT !.finalizing = FALSE, !.at = "none"]
      OBVIOUS
    <2>2. /\ t \in Terms /\ ~t.timer /\ ~t.finalizing /\ t.at = "none" /\ t.again = term[g].again
          /\ t.sid = term[g].sid /\ t.next = term[g].next /\ t.recovered = term[g].recovered
      BY <1>2, <2>1 DEF Terms, Stopped
    <2>3. /\ Set(g, t) /\ cur' = 0 /\ retired' = TRUE /\ detached' = NoEntry /\ Emit(g, "end")
          /\ made' = made /\ closing' = closing /\ killed' = killed
      BY <1>6, <2>1 DEF Complete
    <2>4. /\ term' \in [Gens -> Terms] /\ term'[g] = t
          /\ \A x \in Gens : x # g => term'[x] = term[x]
      BY <1>2, <2>2, <2>3, SetFacts
    <2>5. /\ exits' \in [Gens -> Seq({"end", "daemon-crash"})]
          /\ \A x \in Gens : x # g => exits'[x] = exits[x]
      BY <1>2, <2>3, EmitFacts
    <2>6. NoEntry \in Entries /\ NoEntry.sid = NoSid /\ NoEntry.recovered = FALSE /\ NoSid[2] = "none"
      BY DEF NoEntry, Entries, NoSid
    <2>7. Typed'
      <3>1. cur' \in 0..made' /\ made' \in 0..MaxGen /\ closing' \in 0..Stamp'
        BY <1>2, <2>3, KeyTypes DEF Typed, Stamp
      <3>2. retired' \in BOOLEAN /\ killed' \in BOOLEAN /\ detached' \in Entries
        BY <1>2, <2>3, <2>6 DEF Typed
      <3>3. wire' \in Seq(Requests) /\ link' \in {"up", "closing", "down"} /\ screen' \in [Gens -> Seq(Nat)]
        BY <1>1, <1>2 DEF Typed
      <3> QED
        BY <2>4, <2>5, <3>1, <3>2, <3>3 DEF Typed
    <2>8. DetachedOK'
      BY <2>3, <2>6 DEF DetachedOK, Known
    <2>9. Calm(g)
      BY <1>2, <2>2, <2>4, KeyTypes DEF Calm, Keeps
    <2>10. \A a \in Elems(q) : a.op # "topology"
      BY <1>4, <1>6
    <2>11. \A x \in Gens : x # g => term'[x] = term[x] /\ exits'[x] = exits[x]
      BY <2>4, <2>5
    <2> QED
      BY <1>1, <1>2, <1>3, <2>3, <2>7, <2>8, <2>9, <2>10, <2>11, Ordinary
  <1> QED
    BY <1>5, <1>6

(* handleRequestFailure, of a request that changes no pane *)
LEMMA Failed ==
    ASSUME IInv, NEW g \in Gens, term[g].sid # NoSid, NEW why, Failure(g, why), pane' = pane,
           wire # << >>, link # "down", screen' = screen, link' = link,
           NEW h, h = Head(wire), h.op \in {"output", "resize", "attach"}, h.g = g,
           h.op = "attach" => h.why # "open",
           why = "notfound" => Over(pane, term[g].sid),
           why = "exited" => h.op = "resize" /\ pane[term[g].sid[1]].st \in {"exited", "recovered"}
    PROVE  IInv'
  <1>1. /\ Typed /\ g \in Nat /\ g <= made /\ term[g] \in Terms /\ g # 0 /\ TermAt(g)
        /\ pane' \in [Panes -> States] /\ PaneStep /\ NoRecovery /\ NoCreation
    <2>1. Typed
      BY DEF IInv
    <2> QED
      BY <2>1, UnbornFacts, TermFacts, StillPanes DEF IInv, TermOK, Typed
  <1>2. CASE why = "notfound" /\ wire' = NoPolls(Rest, g) /\ Complete(g)
    <2>1. Over(pane', term[g].sid)
      BY <1>2
    <2> QED
      BY <1>1, <1>2, <2>1, Completed
  <1>3. CASE /\ why = "exited" /\ ~term[g].recovered
             /\ Set(g, Polling(g, term[g])) /\ wire' = PollOn(Rest, g, term[g])
             /\ UNCHANGED <<keyVars, exits>>
    <2>1. PICK t : t = Polling(g, term[g])
      OBVIOUS
    <2>2. t \in Terms /\ SameTerm(term[g], t) /\ ~t.timer
      BY <1>1, <2>1, PollingFacts
    <2>3. /\ term' \in [Gens -> Terms] /\ term'[g] = t
          /\ \A x \in Gens : x # g => term'[x] = term[x]
      BY <1>1, <1>3, <2>1, <2>2, SetFacts
    <2>4. /\ made' = made /\ cur' = cur /\ retired' = retired /\ closing' = closing
          /\ killed' = killed /\ detached' = detached /\ exits' = exits
      BY <1>3 DEF keyVars
    <2>5. /\ \A a \in Elems(Rest) : /\ a.op # "inventory" /\ a \in Elems(wire)
                                    /\ a.g = g /\ a.op = "attach" => a.why # "open"
          /\ \A a \in Elems(wire) : a = h \/ a \in Elems(Rest)
      BY <1>1, <1>3, RemainRest DEF IInv, PairOK, SameG, Remain
    <2>6. ~Has(g, "inventory")
      BY <1>3, <2>5 DEF Has
    <2>7. CanPoll(g, term[g]) /\ link # "down" =>
              /\ Known(pane', term[g].sid) /\ pane'[term[g].sid[1]].st # "recovered"
              /\ \A a \in Elems(Rest) :
                    /\ a.op # "inventory"
                    /\ a.g = g /\ a.op = "attach" => Refused(pane', a) /\ a.why # "open"
      <3> SUFFICES ASSUME CanPoll(g, term[g])
                   PROVE  /\ Known(pane, term[g].sid) /\ pane[term[g].sid[1]].st # "recovered"
                          /\ \A a \in Elems(Rest) :
                                /\ a.op # "inventory"
                                /\ a.g = g /\ a.op = "attach" => Refused(pane, a) /\ a.why # "open"
        BY Zenon
      <3>1. Known(pane, term[g].sid) /\ pane[term[g].sid[1]].st # "recovered"
        BY <1>1, <2>6, NotRecovered DEF TermAt
      <3>2. pane[term[g].sid[1]].st = "exited"
        BY <1>3, <3>1
      <3>3. \A a \in Elems(Rest) : a.g = g /\ a.op = "attach" => a.sid = term[g].sid
        BY <2>5 DEF IInv, WireOK, RequestOK
      <3> QED
        BY <2>5, <3>1, <3>2, <3>3 DEF Refused
    <2>8. PICK q :
             /\ Remain(q) /\ Elems(q) \subseteq Elems(Rest)
             /\ \A a \in Elems(Rest) : Seeds(a) => a \in Elems(q)
             /\ \/ wire' = q
                \/ \E r \in Requests :
                      /\ wire' = Append(q, r) /\ link # "down"
                      /\ r.op = "output" /\ r.g = g /\ Fits(r, term'[g])
                      /\ RequestOK(r)'
                      /\ \A a \in Elems(q) : PairOK(a, r)'
             /\ wire' \in Seq(Requests)
      <3>1. term'[g] = Polling(g, term[g]) /\ wire' = PollOn(Rest, g, term[g])
        BY <1>3, <2>1, <2>3
      <3>2. wire # << >> /\ made' = made /\ g \in Gens /\ g <= made /\ term[g] \in Terms
        BY <1>1, <2>4
      <3>3. PICK z : PollsOn(z, g)
        BY <2>7, <3>1, <3>2, PollSent
      <3> QED
        BY <3>3 DEF PollsOn
    <2>9. Typed' /\ DetachedOK'
      <3>1. Typed'
        BY <1>1, <2>3, <2>4, <2>8 DEF Typed, Stamp
      <3> QED
        BY <1>1, <2>4, <3>1, DetachedSteps DEF IInv
    <2>10. Calm(g)
      BY <1>1, <2>2, <2>3, KeyTypes DEF Calm, Keeps, SameTerm
    <2>11. \A a \in Elems(wire) : Seeds(a) => a \in Elems(q)
      BY <1>3, <2>5, <2>8 DEF Seeds
    <2>12. \/ wire' = q
           \/ \E r \in Requests :
                 /\ wire' = Append(q, r) /\ link # "down"
                 /\ r.g \in {0, g} /\ Fits(r, term'[g])
                 /\ RequestOK(r)'
                 /\ \A a \in Elems(q) : PairOK(a, r)'
      BY <2>8
    <2> QED
      BY <1>1, <2>3, <2>4, <2>8, <2>9, <2>10, <2>11, <2>12, Ordinary
  <1>4. CASE /\ why = "stolen" \/ (why = "exited" /\ term[g].recovered)
             /\ Set(g, [Stopped(term[g]) EXCEPT !.stolen = @ \/ why = "stolen",
                                                !.waiting = cur = g \/ @ \/ why = "stolen"])
             /\ wire' = NoPolls(Rest, g)
             /\ UNCHANGED <<keyVars, exits>>
    <2>1. PICK t : t = [Stopped(term[g]) EXCEPT !.stolen = @ \/ why = "stolen",
                                                !.waiting = cur = g \/ @ \/ why = "stolen"]
      OBVIOUS
    <2>2. /\ t \in Terms /\ ~t.timer /\ t.finalizing = term[g].finalizing /\ t.at = term[g].at
          /\ t.again = term[g].again
          /\ t.sid = term[g].sid /\ t.next = term[g].next /\ t.recovered = term[g].recovered
      <3>1. PICK u \in Terms : u = Stopped(term[g]) /\ SameTerm(term[g], u) /\ ~u.timer
        BY <1>1, PollingFacts
      <3>2. PICK b \in BOOLEAN : b = (u.stolen \/ why = "stolen")
        BY Zenon
      <3>3. PICK c \in BOOLEAN : c = (cur = g \/ u.waiting \/ why = "stolen")
        BY Zenon
      <3>4. t = [u EXCEPT !.stolen = b, !.waiting = c]
        BY <2>1, <3>1, <3>2, <3>3, Zenon
      <3>5. /\ t \in Terms /\ t.timer = u.timer /\ t.finalizing = u.finalizing /\ t.at = u.at
            /\ t.again = u.again /\ t.sid = u.sid /\ t.next = u.next /\ t.recovered = u.recovered
        BY <3>4 DEF Terms
      <3> QED
        BY <3>1, <3>5 DEF SameTerm
    <2>3. /\ term' \in [Gens -> Terms] /\ term'[g] = t
          /\ \A x \in Gens : x # g => term'[x] = term[x]
      BY <1>1, <1>4, <2>1, <2>2, SetFacts
    <2>4. /\ made' = made /\ cur' = cur /\ retired' = retired /\ closing' = closing
          /\ killed' = killed /\ detached' = detached /\ exits' = exits
      BY <1>4 DEF keyVars
    <2>5. PICK q : q = NoPolls(Rest, g)
      OBVIOUS
    <2>6. /\ Remain(q) /\ wire' = q /\ q \in Seq(Requests)
          /\ \A a \in Elems(wire) : a = h \/ a \in Elems(Rest)
          /\ \A a \in Elems(Rest) : a.op = "output" \/ a \in Elems(q)
      BY <1>1, <1>4, <2>5, RemainRest DEF IInv, Remain
    <2>7. Typed' /\ DetachedOK'
      <3>1. Typed'
        BY <1>1, <2>3, <2>4, <2>6 DEF Typed, Stamp
      <3> QED
        BY <1>1, <2>4, <3>1, DetachedSteps DEF IInv
    <2>8. Calm(g)
      BY <1>1, <2>2, <2>3, KeyTypes DEF Calm, Keeps
    <2>9. \A a \in Elems(wire) : Seeds(a) =>
              \/ a \in Elems(q)
              \/ a.op = "attach" /\ a.g = g /\ (a.why = "open" => cur' # g)
      BY <2>6 DEF Seeds
    <2> QED
      BY <1>1, <2>3, <2>4, <2>6, <2>7, <2>8, <2>9, Ordinary
  <1> QED
    BY <1>2, <1>3, <1>4 DEF Failure

(* A session id that is not found is that of a pane that is over *)
LEMMA NotFoundOver ==
    ASSUME Typed, NEW s \in Sids, s # NoSid, Known(pane, s), ~Found(pane, s)
    PROVE  Over(pane, s)
  <1>1. PICK p \in Panes, k \in {"created", "recovered"} : s = <<p, k>>
    BY DEF Sids
  <1>2. pane[p].st \in {"none", "live", "exited", "recovered", "gone"}
    BY DEF Typed, States
  <1>3. pane[p].st # "none" /\ (k = "recovered" => pane[p].st \in {"recovered", "gone"})
    BY <1>1 DEF Known
  <1>4. pane[p].st # "live"
    <2> SUFFICES ASSUME pane[p].st = "live" PROVE FALSE
      OBVIOUS
    <2>1. k = "created" /\ SidOf(pane, p) = <<p, "created">>
      BY <1>3 DEF SidOf
    <2> QED
      BY <1>1, <2>1 DEF Found, Present
  <1> QED
    BY <1>1, <1>2, <1>3, <1>4 DEF Over

(* A pane that is not in the inventory is over *)
LEMMA AbsentOver ==
    ASSUME Typed, NEW s \in Sids, s # NoSid, Known(pane, s), ~Present(pane, s[1])
    PROVE  Over(pane, s)
  <1>1. ~Found(pane, s)
    BY DEF Found
  <1> QED
    BY <1>1, NotFoundOver

LEMMA AttachRefusal ==
    ASSUME IInv, AttachRefused
    PROVE  IInv'
  <1>1. PICK h : h = Head(wire)
    OBVIOUS
  <1>2. PICK g : g = h.g
    OBVIOUS
  <1>a. Arrives("attach") /\ Answer(h).error # ""
    BY <1>1 DEF AttachRefused
  <1>3. /\ Typed /\ h \in Elems(wire) /\ h \in Requests /\ RequestOK(h) /\ h.op = "attach" /\ link # "down"
        /\ Remain(Rest) /\ wire # << >>
        /\ \A a \in Elems(Rest) : a \in Elems(wire)
        /\ \A a \in Elems(wire) : a = h \/ a \in Elems(Rest)
        /\ PaneStep /\ NoRecovery /\ NoCreation /\ pane' = Carried(pane, h)
    BY <1>1, <1>a, Answered DEF Arrives
  <1>4. /\ link' = link /\ screen' = screen
    BY DEF AttachRefused
  <1>5. Refused(pane, h)
    <2>1. Found(pane, h.sid) /\ pane[h.sid[1]].st # "exited"
             => Answer(h) = Ok(IF pane[h.sid[1]].st = "live" THEN pane[h.sid[1]].out + 1 ELSE 1)
      BY <1>3 DEF Answer
    <2>2. \A n : Ok(n).error = ""
      BY DEF Ok, Reply
    <2> QED
      BY <1>a, <2>1, <2>2 DEF Refused
  <1>6. /\ Found(pane, h.sid) => Answer(h).error = "exited"
        /\ ~Found(pane, h.sid) => Answer(h).error = "notfound"
    <2>1. ~Found(pane, h.sid) => Answer(h) = Fails("notfound")
      BY <1>3 DEF Answer
    <2>2. Found(pane, h.sid) => Answer(h) = Fails("exited")
      BY <1>3, <1>5 DEF Answer, Refused
    <2>3. Fails("notfound").error = "notfound" /\ Fails("exited").error = "exited"
      BY DEF Fails, Reply
    <2> QED
      BY <2>1, <2>2, <2>3
  <1>7. pane' = pane
    BY <1>3, <1>5 DEF Carried, Refused
  <1>8. /\ g \in Gens /\ g # 0 /\ g <= made /\ h.sid = term[g].sid /\ h.sid # NoSid /\ h.sid \in Sids
        /\ Known(pane, h.sid)
    <2>1. /\ g \in {0} \cup Gens /\ g # 0 /\ g <= made /\ h.sid # NoSid /\ h.sid \in Sids
          /\ h.sid = term[g].sid /\ Known(pane, h.sid)
      BY <1>2, <1>3 DEF RequestOK, OfPane, Requests
    <2> QED
      BY <2>1
  <1>9. /\ g \in Nat /\ term[g] \in Terms /\ TermAt(g) /\ pane' \in [Panes -> States]
    BY <1>3, <1>7, <1>8, TermFacts DEF IInv, TermOK, Typed
  <1>10. Over(pane, term[g].sid)
    <2>1. CASE Found(pane, h.sid)
      BY <1>5, <1>8, <2>1 DEF Refused, Over
    <2>2. CASE ~Found(pane, h.sid)
      BY <1>3, <1>8, <2>2, NotFoundOver
    <2> QED
      BY <2>1, <2>2
  <1>11. \A a \in Elems(Rest) : a.op = "topology" => cur # g
    BY <1>3, <1>8 DEF IInv, WireOK, RequestOK, Opens
  <1>12. CASE /\ term' = term /\ exits' = exits /\ made' = made /\ retired' = retired /\ closing' = closing
              /\ killed' = killed /\ detached' = detached /\ wire' = Rest
              /\ cur' = cur \/ (cur' = 0 /\ cur = g)
              /\ h.why = "open" => cur' # g
    <2>1. Typed'
      <3>1. cur' \in 0..made'
        BY <1>3, <1>12, KeyTypes DEF Typed
      <3> QED
        BY <1>3, <1>4, <1>9, <1>12, <3>1 DEF Typed, Stamp, Remain
    <2>2. DetachedOK'
      BY <1>3, <1>12, DetachedSteps DEF IInv
    <2>3. Calm(g)
      BY <1>12 DEF Calm, Keeps
    <2>4. cur' = cur \/ \A a \in Elems(Rest) : a.op # "topology"
      BY <1>11, <1>12
    <2>5. \A a \in Elems(wire) : Seeds(a) =>
              \/ a \in Elems(Rest)
              \/ a.op = "attach" /\ a.g = g /\ (a.why = "open" => cur' # g)
      BY <1>2, <1>3, <1>12
    <2> QED
      BY <1>3, <1>4, <1>8, <1>12, <2>1, <2>2, <2>3, <2>4, <2>5, Ordinary
  <1>13. CASE h.why \in {"re", "crash"} /\ wire' = NoPolls(Rest, g) /\ ReportCrash(g)
    <2>1. PICK t : t = [Stopped(term[g]) EXCEPT !.waiting = FALSE]
      OBVIOUS
    <2>2. /\ t \in Terms /\ ~t.timer /\ t.finalizing = term[g].finalizing /\ t.at = term[g].at
          /\ t.again = term[g].again
          /\ t.sid = term[g].sid /\ t.next = term[g].next /\ t.recovered = term[g].recovered
      BY <1>9, <2>1 DEF Terms, Stopped
    <2>3. /\ Set(g, t) /\ Emit(g, "daemon-crash")
          /\ made' = made /\ cur' = cur /\ retired' = retired /\ closing' = closing
          /\ killed' = killed /\ detached' = detached
      BY <1>13, <2>1 DEF ReportCrash, keyVars
    <2>4. /\ term' \in [Gens -> Terms] /\ term'[g] = t
          /\ \A x \in Gens : x # g => term'[x] = term[x]
      BY <1>3, <1>8, <2>2, <2>3, SetFacts
    <2>5. /\ exits' \in [Gens -> Seq({"end", "daemon-crash"})]
          /\ \A x \in Gens : x # g => exits'[x] = exits[x]
      BY <1>3, <1>8, <2>3, EmitFacts
    <2>6. PICK q : q = NoPolls(Rest, g)
      OBVIOUS
    <2>7. /\ Remain(q) /\ wire' = q /\ q \in Seq(Requests)
          /\ \A a \in Elems(Rest) : a.op = "output" \/ a \in Elems(q)
      BY <1>3, <1>13, <2>6, RemainRest DEF IInv, Remain
    <2>8. Typed' /\ DetachedOK'
      <3>1. Typed'
        BY <1>3, <1>4, <1>9, <2>3, <2>4, <2>5, <2>7 DEF Typed, Stamp
      <3> QED
        BY <1>3, <2>3, <3>1, DetachedSteps DEF IInv
    <2>9. Calm(g)
      BY <1>3, <1>8, <1>9, <2>2, <2>4, KeyTypes DEF Calm, Keeps
    <2>10. \A a \in Elems(wire) : Seeds(a) =>
              \/ a \in Elems(q)
              \/ a.op = "attach" /\ a.g = g /\ (a.why = "open" => cur' # g)
      BY <1>2, <1>3, <1>13, <2>7 DEF Seeds
    <2>11. Over(pane', term[g].sid)
      BY <1>7, <1>10
    <2>12. \A x \in Gens : x # g => term'[x] = term[x] /\ exits'[x] = exits[x]
      BY <2>4, <2>5
    <2> QED
      BY <1>3, <1>4, <1>8, <2>3, <2>7, <2>8, <2>9, <2>10, <2>11, <2>12, Ordinary
  <1>14. CASE h.why \in {"re", "crash"} /\ Answer(h).error # "exited" /\ Failure(g, Answer(h).error)
    <2>1. Answer(h).error = "notfound"
      BY <1>6, <1>14
    <2>2. h.why # "open" /\ Failure(g, "notfound") /\ "notfound" # "exited"
      BY <1>14, <2>1
    <2> QED
      BY <1>1, <1>2, <1>3, <1>4, <1>7, <1>8, <1>10, <2>2, Failed
  <1>15. \/ h.why = "open" /\ AbandonOpening(g) /\ wire' = Rest
            /\ UNCHANGED <<term, made, detached, retired, closing, killed, exits>>
         \/ h.why = "again" /\ wire' = Rest /\ UNCHANGED <<term, keyVars, exits>>
         \/ h.why \in {"re", "crash"} /\ wire' = NoPolls(Rest, g) /\ ReportCrash(g)
         \/ h.why \in {"re", "crash"} /\ Answer(h).error # "exited" /\ Failure(g, Answer(h).error)
    BY <1>1, <1>2 DEF AttachRefused
  <1>16. CASE h.why = "open" /\ AbandonOpening(g) /\ wire' = Rest
              /\ UNCHANGED <<term, made, detached, retired, closing, killed, exits>>
    BY <1>8, <1>12, <1>16 DEF AbandonOpening
  <1>17. CASE h.why = "again" /\ wire' = Rest /\ UNCHANGED <<term, keyVars, exits>>
    BY <1>12, <1>17 DEF keyVars
  <1> QED
    BY <1>13, <1>14, <1>15, <1>16, <1>17

(* What the daemon answers about a pane *)
LEMMA PaneErrors ==
    ASSUME NEW h, h.op \in {"output", "resize"}, h.sid[1] \in Panes
    PROVE  /\ Answer(h).error = "notfound" => ~Present(pane, h.sid[1])
           /\ Answer(h).error = "exited" => /\ h.op = "resize" /\ Present(pane, h.sid[1])
                                            /\ pane[h.sid[1]].st # "live"
  BY DEF Answer, Fails, Ok, Reply

LEMMA OutputAnswers ==
    ASSUME NEW h, h.op = "output", h.sid[1] \in Panes, Answer(h).error = ""
    PROVE  /\ Present(pane, h.sid[1])
           /\ Answer(h).n = IF pane[h.sid[1]].st # "recovered" /\ h.n <= pane[h.sid[1]].out
                            THEN h.n ELSE 0
           /\ Answer(h).exited = (pane[h.sid[1]].st # "live")
  <1>1. CASE ~Present(pane, h.sid[1])
    <2>1. Answer(h) = Fails("notfound")
      BY <1>1 DEF Answer
    <2>2. Fails("notfound").error = "notfound"
      BY DEF Fails, Reply
    <2> QED
      BY <2>1, <2>2
  <1>2. CASE Present(pane, h.sid[1]) /\ pane[h.sid[1]].owner = "other"
    <2>1. Answer(h) = Fails("stolen")
      BY <1>2 DEF Answer
    <2>2. Fails("stolen").error = "stolen"
      BY DEF Fails, Reply
    <2> QED
      BY <2>1, <2>2
  <1>3. CASE Present(pane, h.sid[1]) /\ pane[h.sid[1]].owner # "other"
    <2>1. PICK n : n = IF pane[h.sid[1]].st # "recovered" /\ h.n <= pane[h.sid[1]].out THEN h.n ELSE 0
      OBVIOUS
    <2>2. PICK x : x = (pane[h.sid[1]].st # "live")
      OBVIOUS
    <2>3. Answer(h) = Reply("", n, NoEntry, x)
      BY <1>3, <2>1, <2>2, Zenon DEF Answer
    <2>4. Answer(h).n = n /\ Answer(h).exited = x
      <3>1. PICK a : a = Answer(h)
        OBVIOUS
      <3>2. a = [error |-> "", n |-> n, row |-> NoEntry, exited |-> x]
        BY <2>3, <3>1 DEF Reply
      <3>3. a.n = n /\ a.exited = x
        BY <3>2
      <3> QED
        BY <3>1, <3>3
    <2> QED
      BY <1>3, <2>1, <2>2, <2>4
  <1> QED
    BY <1>1, <1>2, <1>3

LEMMA ResizeReplied ==
    ASSUME IInv, ResizeReply
    PROVE  IInv'
  <1>1. PICK h : h = Head(wire)
    OBVIOUS
  <1>2. PICK g : g = h.g
    OBVIOUS
  <1>a. Arrives("resize")
    BY DEF ResizeReply
  <1>3. /\ Typed /\ h \in Elems(wire) /\ h \in Requests /\ RequestOK(h) /\ h.op = "resize" /\ link # "down"
        /\ wire # << >> /\ pane' = pane
    BY <1>1, <1>a, Answered DEF Arrives
  <1>4. /\ link' = link /\ screen' = screen
    BY DEF ResizeReply
  <1>5. /\ g \in Gens /\ h.sid # NoSid /\ h.sid \in Sids /\ h.sid[1] = term[g].sid[1]
        /\ h.sid[1] \in Panes /\ term[g].sid \in Sids /\ TermAt(g)
    <2>1. g \in {0} \cup Gens /\ g # 0 /\ h.sid # NoSid /\ h.sid \in Sids /\ h.sid[1] = term[g].sid[1]
      BY <1>2, <1>3 DEF RequestOK, OfPane, Requests
    <2>2. g \in Gens
      BY <2>1
    <2> QED
      BY <1>3, <2>1, <2>2, SidFacts, TermFacts DEF IInv, TermOK
  <1>6. term[g].sid # NoSid /\ Known(pane, term[g].sid)
    BY <1>5 DEF NoSid, Panes, TermAt
  <1>7. CASE Answer(h).error = ""
    <2>1. wire' = Rest /\ UNCHANGED <<term, keyVars, exits>>
      BY <1>1, <1>7 DEF ResizeReply
    <2> QED
      BY <1>a, <1>4, <2>1, Passed DEF keyVars
  <1>8. CASE Answer(h).error # ""
    <2>1. PICK e : e = Answer(h).error
      OBVIOUS
    <2>2. Failure(g, e)
      BY <1>1, <1>2, <1>8, <2>1 DEF ResizeReply
    <2>a. /\ Answer(h).error = "notfound" => ~Present(pane, h.sid[1])
          /\ Answer(h).error = "exited" => Present(pane, h.sid[1]) /\ pane[h.sid[1]].st # "live"
      BY <1>3, <1>5, PaneErrors
    <2>3. e = "notfound" => Over(pane, term[g].sid)
      <3>1. e = "notfound" => ~Present(pane, term[g].sid[1])
        BY <1>5, <2>1, <2>a
      <3> QED
        BY <1>3, <1>5, <1>6, <3>1, AbsentOver
    <2>4. e = "exited" => h.op = "resize" /\ pane[term[g].sid[1]].st \in {"exited", "recovered"}
      <3>1. e = "exited" => Present(pane, term[g].sid[1]) /\ pane[term[g].sid[1]].st # "live"
        BY <1>5, <2>1, <2>a
      <3> QED
        BY <1>3, <3>1 DEF Present
    <2> QED
      BY <1>1, <1>2, <1>3, <1>4, <1>5, <1>6, <2>2, <2>3, <2>4, Failed
  <1> QED
    BY <1>7, <1>8

(* Where the stream goes on after an answer *)
LEMMA NextChunk ==
    \A j \in Nat \ {0}, m \in Nat : \A n, k :
       /\ j <= m + 1
       /\ n = IF j <= m THEN j ELSE 0
       /\ k = IF n = 0 THEN j ELSE n + 1
       => /\ k \in Nat \ {0} /\ k <= m + 1
          /\ n = 0 => k = j
          /\ n # 0 => n = j /\ n \in Nat /\ n <= m /\ k = n + 1
  OBVIOUS

LEMMA ContinuousAppend ==
    ASSUME NEW s \in Seq(Nat), Continuous(s), NEW n \in Nat, s = << >> \/ s[Len(s)] + 1 = n
    PROVE  /\ Append(s, n) \in Seq(Nat) /\ Continuous(Append(s, n)) /\ Append(s, n) # << >>
           /\ Append(s, n)[Len(Append(s, n))] = n
  <1>1. /\ Append(s, n) \in Seq(Nat) /\ Len(Append(s, n)) = Len(s) + 1 /\ Len(s) \in Nat
        /\ \A i \in 1..Len(s) : Append(s, n)[i] = s[i]
        /\ Append(s, n)[Len(s) + 1] = n
    OBVIOUS
  <1>2. PICK u : u = Append(s, n)
    OBVIOUS
  <1>3. /\ u \in Seq(Nat) /\ Len(u) = Len(s) + 1 /\ Len(s) \in Nat
        /\ \A i \in 1..Len(s) : u[i] = s[i]
        /\ u[Len(s) + 1] = n
    BY <1>1, <1>2
  <1>4. ASSUME NEW i \in 2..Len(u) PROVE u[i] = u[i - 1] + 1
    <2>1. CASE i = Len(s) + 1
      <3>1. i - 1 = Len(s) /\ Len(s) \in 1..Len(s) /\ s # << >>
        BY <1>3, <1>4, <2>1
      <3>2. u[i - 1] = s[Len(s)] /\ u[i] = n
        BY <1>3, <2>1, <3>1
      <3> QED
        BY <3>1, <3>2
    <2>2. CASE i # Len(s) + 1
      <3>1. i \in 2..Len(s) /\ i \in 1..Len(s) /\ i - 1 \in 1..Len(s)
        BY <1>3, <1>4, <2>2
      <3> QED
        BY <1>3, <3>1 DEF Continuous
    <2> QED
      BY <2>1, <2>2
  <1>5. u # << >>
    BY <1>3
  <1> QED
    BY <1>2, <1>3, <1>4, <1>5 DEF Continuous

LEMMA OutputReplied ==
    ASSUME IInv, OutputReply
    PROVE  IInv'
  <1>1. PICK h : h = Head(wire)
    OBVIOUS
  <1>2. PICK g : g = h.g
    OBVIOUS
  <1>a. Arrives("output")
    BY DEF OutputReply
  <1>3. /\ Typed /\ h \in Elems(wire) /\ h \in Requests /\ RequestOK(h) /\ h.op = "output" /\ link # "down"
        /\ wire # << >> /\ pane' = pane /\ Remain(Rest) /\ Rest \in Seq(Requests)
        /\ \A a \in Elems(Rest) : a \in Elems(wire) /\ PairOK(h, a)
        /\ \A a \in Elems(wire) : a = h \/ a \in Elems(Rest)
    BY <1>1, <1>a, Answered DEF Arrives, Remain
  <1>4. PaneStep /\ NoRecovery /\ NoCreation /\ link' = link /\ pane' \in [Panes -> States]
    BY <1>3, StillPanes DEF OutputReply, Typed
  <1>5. /\ g \in Gens /\ g # 0 /\ g <= made /\ h.sid # NoSid /\ h.sid \in Sids
        /\ h.sid[1] = term[g].sid[1] /\ h.sid[1] \in Panes /\ h.n = term[g].next
        /\ ~term[g].recovered /\ pane[h.sid[1]].st # "recovered"
    <2>1. /\ g \in {0} \cup Gens /\ g # 0 /\ g <= made /\ h.sid # NoSid /\ h.sid \in Sids
          /\ h.sid[1] = term[g].sid[1] /\ h.n = term[g].next
          /\ ~term[g].recovered /\ pane[h.sid[1]].st # "recovered"
      BY <1>2, <1>3 DEF RequestOK, OfPane, Requests
    <2> QED
      BY <2>1, SidFacts
  <1>6. PICK p \in Panes : p = term[g].sid[1]
    BY <1>5
  <1>7. /\ term[g] \in Terms /\ term[g].sid \in Sids /\ g \in Nat /\ term[g].sid # NoSid
        /\ TermAt(g) /\ PollAt(g) /\ ScreenAt(g) /\ term[g].next \in Nat \ {0} /\ Known(pane, term[g].sid)
    <2>1. /\ term[g] \in Terms /\ term[g].sid \in Sids /\ g \in Nat /\ term[g].next \in Nat \ {0}
          /\ TermAt(g) /\ PollAt(g) /\ ScreenAt(g)
      BY <1>3, <1>5, TermFacts DEF IInv, TermOK, PollOK, ScreenOK
    <2> QED
      BY <1>5, <2>1 DEF NoSid, Panes, TermAt
  <1>8. /\ \A a \in Elems(Rest) :
              /\ a.op # "inventory"
              /\ a.g = g => /\ a.op \notin {"output", "history"}
                            /\ a.op = "attach" => Refused(pane, a) /\ a.why # "open"
        /\ ~Has(g, "history") /\ ~AttachOpens(g)
    <2>1. \A a \in Elems(Rest) :
              /\ a.op # "inventory"
              /\ a.g = g => /\ a.op \notin {"output", "history"}
                            /\ a.op = "attach" => Refused(pane, a) /\ a.why # "open"
      BY <1>2, <1>3 DEF PairOK, SameG
    <2> QED
      BY <1>3, <2>1 DEF Has, AttachOpens
  <1>9. PICK m \in Nat : m = pane[p].out
    BY <1>3, OutNat
  <1>10. term[g].next <= m + 1
    BY <1>6, <1>7, <1>9 DEF TermAt
  <1>11. /\ screen[g] \in Seq(Nat) /\ Continuous(screen[g])
         /\ screen[g] = << >> \/ screen[g][Len(screen[g])] + 1 = term[g].next
         /\ cur = g => screen[g] # << >>
    BY <1>3, <1>5, <1>7, <1>8 DEF ScreenAt, Typed
  <1>12. PICK e : e = Answer(h).error
    OBVIOUS
  <1>13. PICK n : n = Answer(h).n
    OBVIOUS
  <1>14. PICK x : x = Answer(h).exited
    OBVIOUS
  <1>15. e = "" => /\ Present(pane, p) /\ (n = IF term[g].next <= m THEN term[g].next ELSE 0)
                   /\ x = (pane[p].st # "live")
    <2> SUFFICES ASSUME e = ""
                 PROVE  /\ Present(pane, p) /\ (n = IF term[g].next <= m THEN term[g].next ELSE 0)
                        /\ x = (pane[p].st # "live")
      OBVIOUS
    <2>1. /\ Present(pane, h.sid[1])
          /\ Answer(h).n = IF pane[h.sid[1]].st # "recovered" /\ h.n <= pane[h.sid[1]].out
                           THEN h.n ELSE 0
          /\ Answer(h).exited = (pane[h.sid[1]].st # "live")
      BY <1>3, <1>5, <1>12, OutputAnswers
    <2>2. h.sid[1] = p
      BY <1>5, <1>6
    <2> QED
      BY <1>5, <1>9, <1>13, <1>14, <2>1, <2>2
  <1>16. \/ /\ e = "" /\ x /\ n = 0
            /\ Set(g, [Stopped(term[g]) EXCEPT !.finalizing = TRUE])
            /\ wire' = Append(Rest, DestroyExited(g))
            /\ UNCHANGED <<keyVars, viewVars>>
         \/ /\ e = "" /\ ~(x /\ n = 0)
            /\ IF n = 0 THEN UNCHANGED screen ELSE Show(g, Append(screen[g], n))
            /\ Set(g, [term[g] EXCEPT !.next = IF n = 0 THEN @ ELSE n + 1,
                                      !.timer = ~term[g].waiting])
            /\ wire' = Rest
            /\ UNCHANGED <<keyVars, exits>>
         \/ e # "" /\ Failure(g, e) /\ UNCHANGED screen
    BY <1>1, <1>2, <1>12, <1>13, <1>14 DEF OutputReply, Drained
  <1>17. \A a \in Elems(wire) : Seeds(a) => a \in Elems(Rest)
    BY <1>3 DEF Seeds
  <1>18. CASE /\ e = "" /\ x /\ n = 0
              /\ Set(g, [Stopped(term[g]) EXCEPT !.finalizing = TRUE])
              /\ wire' = Append(Rest, DestroyExited(g))
              /\ UNCHANGED <<keyVars, viewVars>>
    <2>1. pane[p].st = "exited" /\ term[g].next = m + 1
      <3>1. pane[p].st \in {"live", "exited", "recovered"} /\ pane[p].st # "live" /\ pane[p].st # "recovered"
        BY <1>5, <1>6, <1>15, <1>18 DEF Present
      <3>2. ~(term[g].next <= m)
        BY <1>7, <1>15, <1>18
      <3> QED
        BY <1>7, <1>10, <3>1, <3>2
    <2>2. PICK t : t = [Stopped(term[g]) EXCEPT !.finalizing = TRUE]
      OBVIOUS
    <2>3. /\ t \in Terms /\ t.finalizing /\ ~t.timer /\ t.again = term[g].again /\ t.at = term[g].at
          /\ t.sid = term[g].sid /\ t.next = term[g].next /\ t.recovered = term[g].recovered
      BY <1>7, <2>2 DEF Terms, Stopped
    <2>4. /\ term' \in [Gens -> Terms] /\ term'[g] = t
          /\ \A y \in Gens : y # g => term'[y] = term[y]
      BY <1>3, <1>5, <1>18, <2>2, <2>3, SetFacts
    <2>5. /\ made' = made /\ cur' = cur /\ retired' = retired /\ closing' = closing
          /\ killed' = killed /\ detached' = detached /\ exits' = exits /\ screen' = screen
      BY <1>18 DEF keyVars, viewVars
    <2>6. PICK r : r = Destroy(g, term[g].sid, "exit", 0)
      OBVIOUS
    <2>7. r.op = "destroy" /\ r.g = g /\ r.sid = term[g].sid /\ r.why = "exit"
      BY <2>6 DEF Destroy, Request
    <2>8. r \in Requests
      BY <1>5, <1>7, <2>6, RequestTypes DEF Destroy, Ops, Whys
    <2>9. wire' = Append(Rest, r)
      BY <1>18, <2>6 DEF DestroyExited
    <2>10. Elems(wire') = Elems(Rest) \cup {r} /\ wire' \in Seq(Requests)
      BY <1>3, <2>8, <2>9, AppendFacts
    <2>11. Ended(pane, term[g].sid)
      BY <1>6, <1>7, <2>1 DEF Ended
    <2>12. RequestOK(r)' /\ Plain(r)
      <3>1. Keeps(r.g) /\ r.g \in Gens
        BY <1>5, <2>3, <2>4, <2>7 DEF Keeps
      <3> QED
        BY <1>4, <1>5, <1>7, <2>5, <2>7, <2>8, <2>11, <3>1, PaneRequest DEF Kills, Plain
    <2>13. \A a \in Elems(Rest) : PairOK(a, r)'
      BY <2>12, PlainPairs
    <2>14. Typed' /\ DetachedOK'
      <3>1. Typed'
        BY <1>3, <1>4, <2>4, <2>5, <2>10 DEF Typed, Stamp
      <3> QED
        BY <1>3, <1>4, <2>5, <3>1, DetachedSteps DEF IInv
    <2>15. TermAt(g)'
      BY <1>3, <1>5, <1>7, <2>3, <2>4, <2>5, <2>11, KeyTypes DEF TermAt
    <2>16. PollAt(g)'
      <3>1. ~Has(g, "history")'
        BY <1>8, <1>3, <2>7, <2>10 DEF Has
      <3>2. \A a \in Elems(wire') : a \in Elems(wire) \/ a.op = "destroy"
        BY <1>3, <2>7, <2>10
      <3> QED
        BY <1>7, <2>3, <2>4, <3>1, <3>2 DEF PollAt
    <2>17. ScreenAt(g)'
      <3>1. cur = g => screen[g][Len(screen[g])] = m
        <4>1. \A i \in Nat : i + 1 = m + 1 => i = m
          OBVIOUS
        <4>2. cur = g => screen[g][Len(screen[g])] \in Nat
          BY <1>11
        <4> QED
          BY <1>11, <2>1, <4>1, <4>2
      <3>2. pane'[t.sid[1]].st = "exited" /\ pane'[t.sid[1]].out = m
        BY <1>3, <1>6, <1>9, <2>1, <2>3
      <3> QED
        BY <1>11, <2>3, <2>4, <2>5, <3>1, <3>2 DEF ScreenAt
    <2>18. \A a \in Elems(Rest) : a.g = g => KeepsFor(a)
      BY <2>3, <2>4 DEF KeepsFor, Keeps
    <2>19. \E y \in Requests :
                 /\ wire' = Append(Rest, y) /\ link # "down"
                 /\ y.g \in {0, g} /\ y.op \notin {"inventory", "create"}
                 /\ RequestOK(y)'
                 /\ \A a \in Elems(Rest) : PairOK(a, y)'
      BY <1>3, <2>7, <2>8, <2>9, <2>12, <2>13
    <2>20. \A y \in Gens : y # g => /\ term'[y] = term[y] /\ screen'[y] = screen[y]
                                    /\ exits'[y] = exits[y]
      BY <2>4, <2>5
    <2> QED
      BY <1>3, <1>4, <1>5, <1>17, <2>5, <2>14, <2>15, <2>16, <2>17, <2>18, <2>19, <2>20, Moves
  <1>19. CASE /\ e = "" /\ ~(x /\ n = 0)
              /\ IF n = 0 THEN UNCHANGED screen ELSE Show(g, Append(screen[g], n))
              /\ Set(g, [term[g] EXCEPT !.next = IF n = 0 THEN @ ELSE n + 1,
                                        !.timer = ~term[g].waiting])
              /\ wire' = Rest
              /\ UNCHANGED <<keyVars, exits>>
    <2>1. PICK k : k = IF n = 0 THEN term[g].next ELSE n + 1
      OBVIOUS
    <2>2. /\ k \in Nat \ {0} /\ k <= m + 1
          /\ n = 0 => k = term[g].next
          /\ n # 0 => n = term[g].next /\ n \in Nat /\ n <= m /\ k = n + 1
      <3>1. n = IF term[g].next <= m THEN term[g].next ELSE 0
        BY <1>15, <1>19
      <3>2. PICK j \in Nat \ {0} : j = term[g].next
        BY <1>7
      <3>3. j <= m + 1
        BY <1>10, <3>2
      <3>4. n = IF j <= m THEN j ELSE 0
        BY <3>1, <3>2
      <3>5. k = IF n = 0 THEN j ELSE n + 1
        BY <2>1, <3>2
      <3>6. m \in Nat
        BY <1>9
      <3>7. /\ k \in Nat \ {0} /\ k <= m + 1
            /\ n = 0 => k = j
            /\ n # 0 => n = j /\ n \in Nat /\ n <= m /\ k = n + 1
        BY <3>2, <3>3, <3>4, <3>5, <3>6, NextChunk
      <3> QED
        BY <3>2, <3>7
    <2>3. PICK t : t = [term[g] EXCEPT !.next = k, !.timer = ~term[g].waiting]
      OBVIOUS
    <2>4. /\ t \in Terms /\ t.finalizing = term[g].finalizing /\ t.again = term[g].again /\ t.at = term[g].at
          /\ t.sid = term[g].sid /\ t.next = k /\ t.recovered = term[g].recovered
      <3>1. (~term[g].waiting) \in BOOLEAN
        OBVIOUS
      <3> QED
        BY <1>7, <2>2, <2>3, <3>1 DEF Terms
    <2>5. /\ term' \in [Gens -> Terms] /\ term'[g] = t
          /\ \A y \in Gens : y # g => term'[y] = term[y]
      <3>1. Set(g, t)
        BY <1>19, <2>1, <2>3
      <3> QED
        BY <1>3, <1>5, <2>4, <3>1, SetFacts
    <2>6. /\ made' = made /\ cur' = cur /\ retired' = retired /\ closing' = closing
          /\ killed' = killed /\ detached' = detached /\ exits' = exits
      BY <1>19 DEF keyVars
    <2>7. PICK s : s = IF n = 0 THEN screen[g] ELSE Append(screen[g], n)
      OBVIOUS
    <2>8. /\ s \in Seq(Nat) /\ Continuous(s) /\ (s = << >> \/ s[Len(s)] + 1 = k)
          /\ cur = g => s # << >>
      <3>1. CASE n = 0
        BY <1>11, <2>2, <2>7, <3>1
      <3>2. CASE n # 0
        <4>1. s = Append(screen[g], n) /\ n \in Nat /\ n = term[g].next /\ k = n + 1
          BY <2>2, <2>7, <3>2
        <4>2. s \in Seq(Nat) /\ Continuous(s) /\ s # << >> /\ s[Len(s)] = n
          BY <1>11, <4>1, ContinuousAppend
        <4> QED
          BY <4>1, <4>2
      <3> QED
        BY <3>1, <3>2
    <2>9. /\ screen' \in [Gens -> Seq(Nat)] /\ screen'[g] = s
          /\ \A y \in Gens : y # g => screen'[y] = screen[y]
      <3>1. CASE n = 0
        BY <1>3, <1>19, <2>7, <3>1 DEF Typed
      <3>2. CASE n # 0
        <4>1. screen' = [screen EXCEPT ![g] = s]
          BY <1>19, <2>7, <3>2 DEF Show
        <4> QED
          BY <1>3, <1>5, <2>8, <4>1 DEF Typed
      <3> QED
        BY <3>1, <3>2
    <2>10. Typed' /\ DetachedOK'
      <3>1. Typed'
        BY <1>3, <1>4, <1>19, <2>5, <2>6, <2>9 DEF Typed, Stamp
      <3> QED
        BY <1>3, <1>4, <2>6, <3>1, DetachedSteps DEF IInv
    <2>11. TermAt(g)'
      <3>1. k <= pane'[t.sid[1]].out + 1
        BY <1>3, <1>6, <1>9, <2>2, <2>4
      <3>2. ~(g > made')
        BY <1>3, <1>5, <1>7, <2>6, KeyTypes
      <3> QED
        BY <1>3, <1>7, <2>4, <2>5, <2>6, <3>1, <3>2 DEF TermAt
    <2>12. PollAt(g)'
      <3>1. \A a \in Elems(wire') : /\ a \in Elems(wire) /\ a.op # "inventory"
                                    /\ a.g = g => /\ a.op \notin {"output", "history"}
                                                  /\ a.op = "attach" => Refused(pane', a) /\ a.why # "open"
        BY <1>3, <1>8, <1>19
      <3> QED
        BY <1>7, <2>4, <2>5, <3>1 DEF PollAt, Has
    <2>13. ScreenAt(g)'
      <3>1. cur = g /\ t.finalizing /\ pane[p].st = "exited" => s # << >> /\ s[Len(s)] = m
        <4> SUFFICES ASSUME cur = g, t.finalizing, pane[p].st = "exited" PROVE s # << >> /\ s[Len(s)] = m
          OBVIOUS
        <4>1. screen[g] # << >> /\ screen[g][Len(screen[g])] = m
          BY <1>6, <1>7, <1>9, <2>4 DEF ScreenAt
        <4>2. term[g].next = m + 1
          BY <1>11, <4>1
        <4>3. n = 0
          BY <2>2, <4>2
        <4> QED
          BY <2>7, <4>1, <4>3
      <3>2. pane'[t.sid[1]] = pane[p] /\ pane[p].st # "recovered"
        BY <1>3, <1>5, <1>6, <2>4
      <3> QED
        BY <1>9, <2>4, <2>5, <2>6, <2>8, <2>9, <3>1, <3>2 DEF ScreenAt
    <2>14. \A a \in Elems(Rest) : a.g = g => KeepsFor(a)
      BY <1>8, <2>4, <2>5 DEF KeepsFor
    <2>15. \A y \in Gens : y # g => /\ term'[y] = term[y] /\ screen'[y] = screen[y]
                                    /\ exits'[y] = exits[y]
      BY <2>5, <2>6, <2>9
    <2> QED
      BY <1>3, <1>4, <1>5, <1>17, <1>19, <2>6, <2>10, <2>11, <2>12, <2>13, <2>14, <2>15, Moves
  <1>20. CASE e # "" /\ Failure(g, e) /\ UNCHANGED screen
    <2>1. /\ Answer(h).error = "notfound" => ~Present(pane, h.sid[1])
          /\ Answer(h).error # "exited"
      BY <1>3, <1>5, PaneErrors
    <2>2. e = "notfound" => Over(pane, term[g].sid)
      <3>1. e = "notfound" => ~Present(pane, term[g].sid[1])
        BY <1>5, <1>12, <2>1
      <3> QED
        BY <1>3, <1>7, <3>1, AbsentOver
    <2>3. e # "exited" /\ screen' = screen
      BY <1>12, <1>20, <2>1
    <2> QED
      BY <1>1, <1>2, <1>3, <1>4, <1>5, <1>7, <1>20, <2>2, <2>3, Failed
  <1> QED
    BY <1>16, <1>18, <1>19, <1>20

(* What the inventory says of a terminal that asked for it *)
LEMMA InventoryTerm ==
    ASSUME IInv, NEW g \in Gens, term[g].sid # NoSid, NEW w, w = Listed, NEW same \in BOOLEAN,
           same <=> (w # NoEntry /\ w.sid[1] = term[g].sid[1]),
           NEW s, s = IF same THEN w.sid ELSE term[g].sid,
           NEW b, b = IF same THEN w.recovered ELSE term[g].recovered
    PROVE  /\ s \in Sids /\ b \in BOOLEAN
           /\ s # NoSid /\ s[1] = term[g].sid[1] /\ s[1] \in Panes
           /\ Known(pane, s)
           /\ s[2] = "recovered" => b
           /\ b => Over(pane, s)
           /\ term[g].sid[2] = "recovered" => s[2] = "recovered"
           /\ term[g].recovered => b
           /\ pane[s[1]].st = "recovered" => b
  <1>1. /\ Typed /\ TermAt(g) /\ term[g] \in Terms /\ term[g].sid \in Sids
        /\ term[g].sid[1] \in Panes /\ term[g].sid[2] \in {"created", "recovered"}
        /\ term[g].recovered \in BOOLEAN
    <2>1. Typed
      BY DEF IInv
    <2>2. TermAt(g) /\ term[g] \in Terms /\ term[g].sid \in Sids /\ term[g].recovered \in BOOLEAN
      BY <2>1, TermFacts DEF IInv, TermOK, Terms
    <2> QED
      BY <2>1, <2>2, SidFacts
  <1>2. PICK p \in Panes : p = term[g].sid[1]
    BY <1>1
  <1>3. /\ pane[p].st \in {"none", "live", "exited", "recovered", "gone"}
        /\ Known(pane, term[g].sid)
        /\ term[g].sid[2] = "recovered" => term[g].recovered /\ pane[p].st \in {"recovered", "gone"}
        /\ term[g].recovered => pane[p].st # "live" /\ Over(pane, term[g].sid)
    BY <1>1, <1>2 DEF TermAt, Known, Over, Typed, States
  <1>4. /\ w # NoEntry => \E x \in Panes : /\ Present(pane, x) /\ w.sid = SidOf(pane, x)
                                           /\ w.recovered = (pane[x].st # "live")
        /\ w = NoEntry => NonePresent(pane)
        /\ w \in Entries /\ Known(pane, w.sid)
        /\ w # NoEntry => w.sid # NoSid
        /\ w.sid[2] = "recovered" => w.recovered
        /\ w.recovered => Over(pane, w.sid)
    BY ListedFacts
  <1>5. CASE same
    <2>0. w # NoEntry /\ w.sid[1] = term[g].sid[1] /\ s = w.sid /\ b = w.recovered
      BY <1>5
    <2>1. PICK x \in Panes : /\ Present(pane, x) /\ w.sid = SidOf(pane, x)
                             /\ w.recovered = (pane[x].st # "live")
      BY <1>4, <2>0
    <2>2. x = p
      BY <1>2, <2>0, <2>1 DEF SidOf
    <2>3. s \in Sids /\ b \in BOOLEAN
      BY <1>4, <2>0 DEF Entries, Sids
    <2>4. Present(pane, p) /\ s = SidOf(pane, p)
      BY <2>0, <2>1, <2>2
    <2>5. pane[p].st = "recovered" => s[2] = "recovered"
      BY <2>4 DEF SidOf
    <2>6. pane[p].st # "gone"
      BY <2>4 DEF Present
    <2>7. b <=> (pane[p].st # "live")
      BY <2>0, <2>1, <2>2
    <2>8. /\ s # NoSid /\ Known(pane, s) /\ s[1] = p
          /\ s[2] = "recovered" => b
          /\ b => Over(pane, s)
      BY <1>2, <1>4, <2>0
    <2> QED
      BY <1>2, <1>3, <2>3, <2>5, <2>6, <2>7, <2>8
  <1>6. CASE ~same
    <2>0. s = term[g].sid /\ b = term[g].recovered
      BY <1>6
    <2>1. pane[p].st # "recovered"
      <3> SUFFICES ASSUME pane[p].st = "recovered" PROVE FALSE
        OBVIOUS
      <3>1. Present(pane, p)
        BY DEF Present
      <3>2. w # NoEntry
        BY <1>4, <3>1 DEF NonePresent
      <3>3. PICK x \in Panes : Present(pane, x) /\ w.sid = SidOf(pane, x)
        BY <1>4, <3>2
      <3>4. x = p
        BY <3>1, <3>3 DEF IInv, KeyOK, OneDaemonPane
      <3>5. w.sid[1] = p
        BY <3>3, <3>4 DEF SidOf
      <3> QED
        BY <1>2, <1>6, <3>2, <3>5
    <2> QED
      BY <1>1, <1>2, <1>3, <2>0, <2>1
  <1> QED
    BY <1>5, <1>6

(* A terminal that goes on as t after a look at the inventory *)
FollowsPane(o, t) ==
    /\ t.sid # NoSid /\ t.sid[1] = o.sid[1] /\ t.sid[1] \in Panes
    /\ t.next = o.next /\ t.at = o.at /\ t.finalizing = o.finalizing /\ t.again = o.again
    /\ Known(pane, t.sid)
    /\ t.sid[2] = "recovered" => t.recovered
    /\ t.recovered => Over(pane, t.sid)
    /\ o.sid[2] = "recovered" => t.sid[2] = "recovered"
    /\ o.recovered => t.recovered
    /\ pane[t.sid[1]].st = "recovered" => t.recovered

(* The terminal follows its pane over a change of its identity *)
LEMMA InventoryMoves ==
    ASSUME IInv, Typed', pane' = pane, DetachedOK',
           made' = made, cur' = cur, closing' = closing, killed' = killed, link' = link,
           screen' = screen, exits' = exits,
           Arrives("inventory"), NEW h, h = Head(wire), NEW g \in Gens, g = h.g,
           NEW t \in Terms, term'[g] = t, \A x \in Gens : x # g => term'[x] = term[x],
           FollowsPane(term[g], t), ~t.timer,
           NEW q, Remain(q), Elems(q) \subseteq Elems(Rest),
           \A a \in Elems(Rest) : Seeds(a) => a \in Elems(q),
           \/ wire' = q
           \/ \E r \in Requests :
                 /\ wire' = Append(q, r) /\ r.op = "attach" /\ r.g = g /\ r.sid = t.sid
                 /\ r.why \in {"re", "crash"}
                 /\ r.why = "crash" => Over(pane, t.sid)
    PROVE  IInv'
  <1> USE DEF FollowsPane
  <1>1. /\ Typed /\ h \in Elems(wire) /\ h \in Requests /\ RequestOK(h) /\ h.op = "inventory"
        /\ link # "down"
        /\ \A a \in Elems(Rest) : a \in Elems(wire) /\ PairOK(h, a) /\ RequestOK(a)
        /\ \A a \in Elems(wire) : a = h \/ a \in Elems(Rest)
        /\ pane' \in [Panes -> States] /\ PaneStep /\ NoRecovery /\ NoCreation
    BY Answered
  <1>2. /\ g # 0 /\ g \in Nat /\ g <= made /\ term[g].sid # NoSid
        /\ TermAt(g) /\ PollAt(g) /\ ScreenAt(g)
    BY <1>1, TermFacts DEF RequestOK, IInv, TermOK, PollOK, ScreenOK
  <1>3. \A a \in Elems(q) : /\ a \in Elems(Rest) /\ a \in Elems(wire) /\ RequestOK(a)
                            /\ a.op \notin {"output", "inventory"}
                            /\ a.g = g => ~Seeds(a) /\ ~Opens(a)
    <2>1. \A a \in Elems(Rest) : /\ a \in Elems(wire) /\ RequestOK(a)
                                 /\ a.op \notin {"output", "inventory"}
                                 /\ a.g = g => ~Seeds(a)
      BY <1>1 DEF PairOK, SameG, Seeds
    <2> QED
      BY <1>2, <2>1 DEF RequestOK
  <1>4. ~Has(g, "history") /\ ~AttachOpens(g)
    <2>1. \A a \in Elems(Rest) : a.g = g => ~Seeds(a)
      BY <1>1 DEF PairOK, SameG, Seeds
    <2> QED
      BY <1>1, <2>1 DEF Has, AttachOpens, Seeds
  <1>5. ASSUME NEW a \in Elems(q), a.g = g PROVE RequestOK(a)'
    <2>1. /\ RequestOK(a) /\ ~Seeds(a) /\ ~Opens(a) /\ a.op # "output"
      BY <1>3, <1>5
    <2>2. OfPane(a) => a.sid[1] = t.sid[1] /\ (a.sid[2] = "recovered" => t.sid[2] = "recovered")
      BY <1>5, <2>1 DEF RequestOK
    <2> QED
      BY <1>2, <1>5, <2>1, <2>2 DEF RequestOK, Seeds, Opens, Creates, Stamp
  <1>6. \A r \in Requests :
           /\ r.op = "attach" /\ r.g = g /\ r.sid = t.sid /\ r.why \in {"re", "crash"}
           /\ r.why = "crash" => Over(pane, t.sid)
           => RequestOK(r)' /\ \A a \in Elems(q) : PairOK(a, r)'
    <2> SUFFICES ASSUME NEW r \in Requests,
                        r.op = "attach", r.g = g, r.sid = t.sid, r.why \in {"re", "crash"},
                        r.why = "crash" => Over(pane, t.sid)
                 PROVE  RequestOK(r)' /\ \A a \in Elems(q) : PairOK(a, r)'
      OBVIOUS
    <2>1. RequestOK(r)'
      BY <1>2 DEF RequestOK, Opens, Creates, OfPane, Kills, ByKey
    <2>2. ASSUME NEW a \in Elems(q) PROVE PairOK(a, r)'
      <3>1. a.op # "output" /\ (a.g = g => ~Seeds(a))
        BY <1>3
      <3> QED
        BY <3>1 DEF PairOK, SameG, Seeds, Opens, Creates, Kills
    <2> QED
      BY <2>1, <2>2
  <1>7. \/ wire' = q
        \/ \E r \in Requests : /\ wire' = Append(q, r) /\ r.op = "attach" /\ r.why \in {"re", "crash"}
                               /\ r.g \in {0, g} /\ r.op # "inventory" /\ RequestOK(r)'
                               /\ \A a \in Elems(q) : PairOK(a, r)'
    BY <1>6
  <1>8. CurStep /\ (\A a \in Elems(q) : Creates(a) => NonePresent(pane'))
    BY <1>3 DEF CurStep, RequestOK
  <1>9. \A a \in Elems(wire) : Seeds(a) => a \in Elems(q) \/ a.g = g
    BY <1>1
  <1>10. /\ wire' \in Seq(Requests) /\ WireOK' /\ OrderOK'
         /\ \A x \in Gens : x # g => TermAt(x)' /\ PollAt(x)' /\ ScreenAt(x)'
    <2>1. \A x \in Gens : x # g => /\ term'[x] = term[x] /\ screen'[x] = screen[x]
                                   /\ exits'[x] = exits[x]
      OBVIOUS
    <2>2. \/ wire' = q
          \/ \E r \in Requests : /\ wire' = Append(q, r)
                                 /\ r.g \in {0, g} /\ r.op # "inventory" /\ RequestOK(r)'
                                 /\ \A a \in Elems(q) : PairOK(a, r)'
      BY <1>7
    <2>3. /\ cur' \in {cur, 0, g} /\ (link' = "down" \/ link # "down")
          /\ \A a \in Elems(q) : a.op = "topology" => cur' = cur
          /\ \A a \in Elems(q) : a.g = g /\ g # 0 => RequestOK(a)'
      BY <1>1, <1>5
    <2> QED
      BY <1>1, <1>8, <1>9, <2>1, <2>2, <2>3, Frame
  <1>11. \A x \in Elems(wire') : \/ x \in Elems(q)
                                 \/ x.op = "attach" /\ x.why \in {"re", "crash"}
    <2>1. CASE wire' = q
      BY <2>1
    <2>2. CASE wire' # q
      <3>1. PICK r \in Requests : wire' = Append(q, r) /\ r.op = "attach" /\ r.why \in {"re", "crash"}
        BY <1>7, <2>2
      <3>2. Elems(wire') = Elems(q) \cup {r}
        BY <3>1, AppendFacts DEF Remain
      <3> QED
        BY <3>1, <3>2
    <2> QED
      BY <2>1, <2>2
  <1>12. TermAt(g)'
    <2>1. t.at # "wait" /\ t.next <= pane[t.sid[1]].out + 1
      BY <1>2 DEF TermAt
    <2>2. /\ t.finalizing \/ t.at = "retry" => Ended(pane, t.sid)
          /\ exits[g] # << >> => Over(pane, t.sid)
      BY <1>2 DEF TermAt, Ended, Over
    <2>3. ~(g > made)
      BY <1>1, <1>2, KeyTypes
    <2> QED
      BY <2>1, <2>2, <2>3 DEF TermAt
  <1>13. PollAt(g)'
    <2>1. \A x \in Elems(wire') : x.g = g => x.op # "history"
                                             /\ ~(x.op = "attach" /\ x.why \in {"open", "again"})
      BY <1>3, <1>11 DEF Seeds
    <2> QED
      BY <2>1 DEF PollAt, Has
  <1>14. ScreenAt(g)'
    <2>1. /\ Continuous(screen[g])
          /\ screen[g] = << >> \/ screen[g][Len(screen[g])] + 1 = t.next
          /\ cur = g /\ ~t.recovered => screen[g] # << >>
          /\ cur = g /\ t.finalizing /\ pane[t.sid[1]].st = "exited"
                => screen[g] # << >> /\ screen[g][Len(screen[g])] = pane[t.sid[1]].out
      BY <1>2, <1>4 DEF ScreenAt
    <2> QED
      BY <2>1 DEF ScreenAt
  <1>15. KeyOK'
    <2>1. \A x \in Elems(wire') : x \in Elems(wire) \/ (x.op = "create" => cur # 0)
      BY <1>3, <1>11
    <2> QED
      BY <1>1, <2>1, KeySteps
  <1> QED
    BY <1>10, <1>12, <1>13, <1>14, <1>15 DEF IInv, TermOK, PollOK, ScreenOK

LEMMA InventoryReplied ==
    ASSUME IInv, InventoryReply
    PROVE  IInv'
  <1>1. PICK h : h = Head(wire)
    OBVIOUS
  <1>2. PICK g : g = h.g
    OBVIOUS
  <1>a. Arrives("inventory")
    BY DEF InventoryReply
  <1>3. /\ Typed /\ h \in Elems(wire) /\ h \in Requests /\ RequestOK(h) /\ h.op = "inventory"
        /\ link # "down" /\ wire # << >> /\ Remain(Rest)
        /\ \A a \in Elems(Rest) : a \in Elems(wire) /\ PairOK(h, a) /\ RequestOK(a)
        /\ \A a \in Elems(wire) : a = h \/ a \in Elems(Rest)
        /\ pane' = pane
    BY <1>1, <1>a, Answered DEF Arrives
  <1>4. /\ g \in Gens /\ g # 0 /\ term[g].sid # NoSid /\ term[g] \in Terms /\ PollAt(g)
    <2>1. g \in Gens /\ g # 0 /\ term[g].sid # NoSid
      BY <1>2, <1>3 DEF RequestOK, Requests
    <2> QED
      BY <1>3, <2>1, TermFacts DEF IInv, PollOK
  <1>5. ~term[g].timer
    BY <1>2, <1>3, <1>4 DEF PollAt
  <1>6. PICK w : w = Listed
    OBVIOUS
  <1>7. PICK u : u = IF w # NoEntry /\ w.sid[1] = term[g].sid[1]
                     THEN [term[g] EXCEPT !.sid = w.sid, !.recovered = w.recovered] ELSE term[g]
    OBVIOUS
  <1>8. PICK c : c = IF w # NoEntry /\ w.sid[1] = term[g].sid[1] /\ w.recovered /\ w.sid # term[g].sid
                     THEN "crash" ELSE "re"
    OBVIOUS
  <1>9. Answer(h).row = w
    BY <1>3, <1>6, ListRow
  <1>10. /\ detached' = (IF w # NoEntry /\ w.sid[1] = term[g].sid[1] THEN w ELSE detached)
         /\ \/ Set(g, u) /\ wire' = Rest
            \/ Set(g, Stopped(u)) /\ wire' = Append(NoPolls(Rest, g), Attach(g, u.sid, c))
         /\ made' = made /\ cur' = cur /\ retired' = retired /\ closing' = closing
         /\ killed' = killed /\ link' = link /\ screen' = screen /\ exits' = exits
    BY <1>1, <1>2, <1>7, <1>8, <1>9 DEF InventoryReply, viewVars
  <1>11. /\ u \in Terms /\ u.sid # NoSid /\ u.sid[1] = term[g].sid[1] /\ u.sid[1] \in Panes
         /\ u.next = term[g].next /\ u.at = term[g].at /\ u.finalizing = term[g].finalizing
         /\ u.again = term[g].again /\ u.timer = term[g].timer
         /\ Known(pane, u.sid)
         /\ u.sid[2] = "recovered" => u.recovered
         /\ u.recovered => Over(pane, u.sid)
         /\ term[g].sid[2] = "recovered" => u.sid[2] = "recovered"
         /\ term[g].recovered => u.recovered
         /\ pane[u.sid[1]].st = "recovered" => u.recovered
    <2>1. PICK same \in BOOLEAN : same <=> (w # NoEntry /\ w.sid[1] = term[g].sid[1])
      BY Zenon
    <2>2. PICK sid : sid = IF same THEN w.sid ELSE term[g].sid
      OBVIOUS
    <2>3. PICK b : b = IF same THEN w.recovered ELSE term[g].recovered
      OBVIOUS
    <2>4. g \in Gens /\ term[g].sid # NoSid
      BY <1>4
    <2>5. /\ sid \in Sids /\ b \in BOOLEAN
          /\ sid # NoSid /\ sid[1] = term[g].sid[1] /\ sid[1] \in Panes
          /\ Known(pane, sid)
          /\ sid[2] = "recovered" => b
          /\ b => Over(pane, sid)
          /\ term[g].sid[2] = "recovered" => sid[2] = "recovered"
          /\ term[g].recovered => b
          /\ pane[sid[1]].st = "recovered" => b
      BY <1>6, <2>1, <2>2, <2>3, <2>4, InventoryTerm
    <2>6. /\ u \in Terms /\ u.sid = sid /\ u.recovered = b
          /\ u.next = term[g].next /\ u.at = term[g].at /\ u.finalizing = term[g].finalizing
          /\ u.again = term[g].again /\ u.timer = term[g].timer
      <3>1. CASE same
        <4>1. u = [term[g] EXCEPT !.sid = sid, !.recovered = b]
          BY <1>7, <2>1, <2>2, <2>3, <3>1, Zenon
        <4> QED
          BY <1>4, <2>5, <4>1 DEF Terms
      <3>2. CASE ~same
        <4>1. u = term[g] /\ sid = term[g].sid /\ b = term[g].recovered
          BY <1>7, <2>1, <2>2, <2>3, <3>2, Zenon
        <4> QED
          BY <1>4, <4>1
      <3> QED
        BY <3>1, <3>2
    <2> QED
      BY <2>5, <2>6
  <1>12. c \in {"re", "crash"} /\ (c = "crash" => Over(pane, u.sid))
    <2>1. c = "crash" => w # NoEntry /\ w.sid[1] = term[g].sid[1] /\ w.recovered
      BY <1>8
    <2>2. c = "crash" => u.recovered
      <3> SUFFICES ASSUME c = "crash" PROVE u.recovered
        OBVIOUS
      <3>1. u = [term[g] EXCEPT !.sid = w.sid, !.recovered = w.recovered]
        BY <1>7, <2>1
      <3> QED
        BY <1>4, <2>1, <3>1 DEF Terms
    <2> QED
      BY <1>8, <1>11, <2>2
  <1>13. /\ w \in Entries /\ detached' \in Entries
         /\ pane' \in [Panes -> States] /\ PaneStep
    BY <1>3, <1>6, <1>10, ListedFacts, StillPanes DEF Typed
  <1>14. DetachedOK'
    <2>1. CASE w # NoEntry /\ w.sid[1] = term[g].sid[1]
      <3>1. detached' = w
        BY <1>10, <2>1
      <3>2. /\ Known(pane, w.sid) /\ (w # NoEntry => w.sid # NoSid)
            /\ w.sid[2] = "recovered" => w.recovered
            /\ w.recovered => Over(pane, w.sid)
        BY <1>6, ListedFacts
      <3> QED
        BY <1>3, <3>1, <3>2 DEF DetachedOK
    <2>2. CASE ~(w # NoEntry /\ w.sid[1] = term[g].sid[1])
      <3>1. detached' = detached
        BY <1>10, <2>2
      <3> QED
        BY <1>3, <1>13, <3>1, DetachedSteps DEF IInv
    <2> QED
      BY <2>1, <2>2
  <1>15. CASE Set(g, u) /\ wire' = Rest
    <2>1. /\ term' \in [Gens -> Terms] /\ term'[g] = u
          /\ \A x \in Gens : x # g => term'[x] = term[x]
      BY <1>3, <1>4, <1>11, <1>15, SetFacts
    <2>2. Typed'
      BY <1>3, <1>10, <1>13, <1>15, <2>1 DEF Typed, Stamp, Remain
    <2>3. FollowsPane(term[g], u) /\ ~u.timer
      BY <1>5, <1>11 DEF FollowsPane
    <2>4. Remain(Rest) /\ Elems(Rest) \subseteq Elems(Rest) /\ wire' = Rest
      BY <1>3, <1>15
    <2> QED
      BY <1>1, <1>2, <1>3, <1>4, <1>a, <1>10, <1>14, <2>1, <2>2, <2>3, <2>4, InventoryMoves
  <1>16. CASE Set(g, Stopped(u)) /\ wire' = Append(NoPolls(Rest, g), Attach(g, u.sid, c))
    <2>1. PICK t : t = Stopped(u)
      OBVIOUS
    <2>2. /\ t \in Terms /\ ~t.timer /\ t.sid = u.sid /\ t.next = u.next /\ t.at = u.at
          /\ t.finalizing = u.finalizing /\ t.again = u.again /\ t.recovered = u.recovered
      BY <1>11, <2>1 DEF Terms, Stopped
    <2>3. /\ term' \in [Gens -> Terms] /\ term'[g] = t
          /\ \A x \in Gens : x # g => term'[x] = term[x]
      BY <1>3, <1>4, <1>16, <2>1, <2>2, SetFacts
    <2>4. PICK q : q = NoPolls(Rest, g)
      OBVIOUS
    <2>5. /\ Remain(q) /\ Elems(q) \subseteq Elems(Rest)
          /\ \A a \in Elems(Rest) : a.op = "output" \/ a \in Elems(q)
      BY <1>3, <2>4, RemainRest DEF IInv
    <2>6. PICK r : r = Attach(g, u.sid, c)
      OBVIOUS
    <2>7. /\ r.op = "attach" /\ r.g = g /\ r.sid = t.sid /\ r.why = c
      BY <2>2, <2>6 DEF Attach, Request
    <2>8. r \in Requests
      <3>1. u.sid \in Sids /\ "attach" \in Ops /\ c \in Whys /\ 0 \in Nat
        BY <1>11, <1>12 DEF Terms, Ops, Whys
      <3> QED
        BY <1>4, <2>6, <3>1, RequestTypes DEF Attach
    <2>9. wire' = Append(q, r)
      BY <1>16, <2>4, <2>6
    <2>10. wire' \in Seq(Requests)
      BY <2>5, <2>8, <2>9, AppendFacts DEF Remain
    <2>11. Typed'
      BY <1>3, <1>10, <1>13, <2>3, <2>10 DEF Typed, Stamp
    <2>12. \A a \in Elems(Rest) : Seeds(a) => a \in Elems(q)
      BY <2>5 DEF Seeds
    <2>13. \E y \in Requests :
              /\ wire' = Append(q, y) /\ y.op = "attach" /\ y.g = g /\ y.sid = t.sid
              /\ y.why \in {"re", "crash"}
              /\ y.why = "crash" => Over(pane, t.sid)
      BY <1>12, <2>2, <2>7, <2>8, <2>9
    <2>14. FollowsPane(term[g], t)
      BY <1>11, <2>2 DEF FollowsPane
    <2> QED
      BY <1>1, <1>2, <1>3, <1>4, <1>a, <1>10, <1>14, <2>2, <2>3, <2>5, <2>11, <2>12, <2>13, <2>14,
         InventoryMoves
  <1> QED
    BY <1>10, <1>15, <1>16

(* What a destroy finds, and what it leaves *)
LEMMA DestroyFacts ==
    ASSUME IInv, Arrives("destroy"), NEW h, h = Head(wire)
    PROVE  /\ Answer(h).error = "" =>
                 /\ h.sid[1] \in Panes /\ pane'[h.sid[1]].st = "gone" /\ NonePresent(pane')
                 /\ \A a \in Elems(wire) : a.op # "create"
           /\ Answer(h).error # "" => pane' = pane /\ ~Found(pane, h.sid)
  <1>1. /\ Typed /\ h.op = "destroy" /\ pane' = Carried(pane, h)
        /\ \A a \in Elems(wire) : RequestOK(a)
        /\ \A x, y \in Panes : Present(pane, x) /\ Present(pane, y) => x = y
    <2>1. h.op = "destroy" /\ pane' = Carried(pane, h)
      BY DEF Arrives
    <2> QED
      BY <2>1 DEF IInv, WireOK, KeyOK, OneDaemonPane
  <1>2. CASE Found(pane, h.sid)
    <2>1. h.sid[1] \in Panes /\ Present(pane, h.sid[1])
      BY <1>2 DEF Found
    <2>2. PICK p \in Panes : p = h.sid[1] /\ Present(pane, p)
      BY <2>1
    <2>3. pane' = [pane EXCEPT ![p].st = "gone", ![p].owner = "nobody"]
      BY <1>1, <1>2, <2>2 DEF Carried
    <2>4. pane'[p].st = "gone" /\ \A x \in Panes : x # p => pane'[x] = pane[x]
      BY <1>1, <2>2, <2>3 DEF Typed, States
    <2>5. NonePresent(pane')
      BY <1>1, <2>2, <2>4 DEF NonePresent, Present
    <2>6. \A a \in Elems(wire) : a.op # "create"
      BY <1>1, <2>2 DEF RequestOK, Creates, NonePresent
    <2>7. Answer(h) = Ok(0)
      BY <1>1, <1>2 DEF Answer
    <2>8. Ok(0).error = ""
      BY DEF Ok, Reply
    <2> QED
      BY <2>2, <2>4, <2>5, <2>6, <2>7, <2>8
  <1>3. CASE ~Found(pane, h.sid)
    <2>1. pane' = pane
      BY <1>1, <1>3 DEF Carried
    <2>2. Answer(h) = Fails("notfound")
      BY <1>1, <1>3 DEF Answer
    <2>3. Fails("notfound").error = "notfound"
      BY DEF Fails, Reply
    <2> QED
      BY <1>3, <2>1, <2>2, <2>3
  <1> QED
    BY <1>2, <1>3

(* A close that the daemon has carried out *)
LEMMA DestroyedByUser ==
    ASSUME IInv, Arrives("destroy"), NEW h, h = Head(wire), NEW g, g = h.g, Kills(h),
           NonePresent(pane'), \A a \in Elems(wire) : a.op # "create",
           h.sid[1] \in Panes, pane'[h.sid[1]].st = "gone",
           wire' = NoPolls(Rest, g), Set(g, Stopped(term[g])), Emit(g, "end"),
           cur' = 0, retired' = TRUE, detached' = NoEntry, killed' = (h.n = Stamp),
           made' = made, closing' = closing, screen' = screen, link' = link
    PROVE  IInv'
  <1>1. /\ Typed /\ h \in Elems(wire) /\ h \in Requests /\ RequestOK(h) /\ h.op = "destroy"
        /\ link # "down" /\ wire # << >>
        /\ \A a \in Elems(Rest) : a \in Elems(wire) /\ PairOK(h, a)
        /\ \A a \in Elems(wire) : a = h \/ a \in Elems(Rest)
        /\ pane' \in [Panes -> States] /\ PaneStep /\ NoRecovery /\ NoCreation
    BY Answered DEF Arrives
  <1>2. /\ g \in Gens /\ g # 0 /\ g <= made /\ term[g] \in Terms /\ g \in Nat
        /\ h.sid # NoSid /\ h.sid[1] = term[g].sid[1] /\ term[g].sid # NoSid
    <2>1. /\ g \in Gens /\ g # 0 /\ g <= made
          /\ h.sid # NoSid /\ h.sid[1] = term[g].sid[1]
      BY <1>1 DEF RequestOK, OfPane, Kills, Requests
    <2> QED
      BY <1>1, <2>1, TermFacts DEF NoSid, Panes
  <1>3. Over(pane', term[g].sid)
    BY <1>2 DEF Over
  <1>4. PICK t : t = Stopped(term[g])
    OBVIOUS
  <1>5. t \in Terms /\ ~t.timer /\ SameTerm(term[g], t)
    BY <1>2, <1>4, PollingFacts
  <1>6. /\ term' \in [Gens -> Terms] /\ term'[g] = t
        /\ \A x \in Gens : x # g => term'[x] = term[x]
    BY <1>1, <1>2, <1>4, <1>5, SetFacts
  <1>7. /\ exits' \in [Gens -> Seq({"end", "daemon-crash"})]
        /\ \A x \in Gens : x # g => exits'[x] = exits[x]
    BY <1>1, <1>2, EmitFacts
  <1>8. PICK q : q = NoPolls(Rest, g)
    OBVIOUS
  <1>9. /\ Remain(q) /\ wire' = q /\ q \in Seq(Requests) /\ Elems(q) \subseteq Elems(Rest)
        /\ \A a \in Elems(Rest) : a.op = "output" \/ a \in Elems(q)
    BY <1>1, <1>8, RemainRest DEF IInv, Remain
  <1>10. NoEntry \in Entries /\ NoEntry.sid = NoSid /\ NoEntry.recovered = FALSE /\ NoSid[2] = "none"
    BY DEF NoEntry, Entries, NoSid
  <1>11. Typed'
    <2>1. cur' \in 0..made' /\ made' \in 0..MaxGen /\ closing' \in 0..Stamp'
      BY <1>1, KeyTypes DEF Typed, Stamp
    <2>2. retired' \in BOOLEAN /\ detached' \in Entries
      BY <1>1, <1>10 DEF Typed
    <2>3. killed' \in BOOLEAN
      BY Zenon
    <2>4. wire' \in Seq(Requests) /\ link' \in {"up", "closing", "down"} /\ screen' \in [Gens -> Seq(Nat)]
      BY <1>1, <1>9 DEF Typed
    <2> QED
      BY <1>1, <1>6, <1>7, <2>1, <2>2, <2>3, <2>4 DEF Typed
  <1>12. DetachedOK'
    BY <1>10 DEF DetachedOK, Known
  <1>13. Calm(g)
    BY <1>1, <1>2, <1>5, <1>6, KeyTypes DEF Calm, Keeps, SameTerm
  <1>14. \A a \in Elems(q) : a.op # "topology"
    BY <1>1, <1>9 DEF PairOK
  <1>15. \A x \in Gens : x # g => term'[x] = term[x] /\ exits'[x] = exits[x]
    BY <1>6, <1>7
  <1>16. \A r \in Elems(wire') : r.op # "create"
    BY <1>1, <1>9
  <1>17. \A a \in Elems(wire) : Seeds(a) =>
              \/ a \in Elems(q)
              \/ a.op = "attach" /\ a.g = g /\ (a.why = "open" => cur' # g)
    BY <1>1, <1>9 DEF Seeds
  <1> QED
    BY <1>1, <1>2, <1>3, <1>9, <1>11, <1>12, <1>13, <1>14, <1>15, <1>16, <1>17, Ordinary

(* A close that the daemon refuses: the terminal polls on *)
LEMMA DestroyRefused ==
    ASSUME IInv, Arrives("destroy"), NEW h, h = Head(wire), NEW g, g = h.g, Kills(h),
           pane' = pane, ~Found(pane, h.sid),
           Set(g, Polling(g, term[g])), wire' = PollOn(Rest, g, term[g]),
           cur' = cur, made' = made, detached' = detached, retired' = retired, closing' = closing,
           killed' = killed, screen' = screen, exits' = exits, link' = link
    PROVE  IInv'
  <1>1. /\ Typed /\ h \in Elems(wire) /\ h \in Requests /\ RequestOK(h) /\ h.op = "destroy"
        /\ link # "down" /\ wire # << >>
        /\ \A a \in Elems(Rest) : a \in Elems(wire) /\ PairOK(h, a) /\ RequestOK(a)
        /\ \A a \in Elems(wire) : a = h \/ a \in Elems(Rest)
        /\ pane' \in [Panes -> States] /\ PaneStep /\ NoRecovery /\ NoCreation
    BY Answered DEF Arrives
  <1>2. /\ g \in Gens /\ g # 0 /\ g <= made /\ term[g] \in Terms /\ g \in Nat /\ TermAt(g)
        /\ h.sid # NoSid /\ h.sid \in Sids /\ h.sid[1] = term[g].sid[1] /\ term[g].sid \in Sids
        /\ h.sid[2] = "recovered" => term[g].sid[2] = "recovered"
    <2>1. /\ g \in Gens /\ g # 0 /\ g <= made
          /\ h.sid # NoSid /\ h.sid[1] = term[g].sid[1] /\ h.sid \in Sids
          /\ h.sid[2] = "recovered" => term[g].sid[2] = "recovered"
      BY <1>1 DEF RequestOK, OfPane, Kills, Requests
    <2> QED
      BY <1>1, <2>1, TermFacts DEF IInv, TermOK
  <1>3. PICK t : t = Polling(g, term[g])
    OBVIOUS
  <1>4. t \in Terms /\ SameTerm(term[g], t) /\ ~t.timer
    BY <1>2, <1>3, PollingFacts
  <1>5. /\ term' \in [Gens -> Terms] /\ term'[g] = t
        /\ \A x \in Gens : x # g => term'[x] = term[x]
    BY <1>1, <1>2, <1>3, <1>4, SetFacts
  <1>6. \A a \in Elems(Rest) : /\ a.op # "inventory"
                               /\ a.g = g /\ a.op = "attach" => a.why # "open" /\ a.sid = term[g].sid
    BY <1>1 DEF PairOK, SameG, RequestOK
  <1>7. ~Has(g, "inventory")
    BY <1>1, <1>6 DEF Has
  <1>8. CanPoll(g, term[g]) /\ link # "down" =>
            /\ Known(pane', term[g].sid) /\ pane'[term[g].sid[1]].st # "recovered"
            /\ \A a \in Elems(Rest) :
                  /\ a.op # "inventory"
                  /\ a.g = g /\ a.op = "attach" => Refused(pane', a) /\ a.why # "open"
    <2> SUFFICES ASSUME CanPoll(g, term[g])
                 PROVE  /\ Known(pane, term[g].sid) /\ pane[term[g].sid[1]].st # "recovered"
                        /\ \A a \in Elems(Rest) :
                              /\ a.op # "inventory"
                              /\ a.g = g /\ a.op = "attach" => Refused(pane, a) /\ a.why # "open"
      BY Zenon
    <2>1. Known(pane, term[g].sid) /\ pane[term[g].sid[1]].st # "recovered"
      BY <1>1, <1>2, <1>7, NotRecovered DEF TermAt
    <2>2. ~term[g].recovered /\ term[g].sid # NoSid
      BY DEF CanPoll
    <2>3. term[g].sid[2] # "recovered" /\ h.sid[2] # "recovered"
      BY <1>2, <2>2 DEF TermAt
    <2>4. term[g].sid = h.sid
      BY <1>2, <2>2, <2>3 DEF Sids
    <2> QED
      BY <1>6, <2>1, <2>4 DEF Refused
  <1>9. PICK q :
           /\ Remain(q) /\ Elems(q) \subseteq Elems(Rest)
           /\ \A a \in Elems(Rest) : Seeds(a) => a \in Elems(q)
           /\ \/ wire' = q
              \/ \E r \in Requests :
                    /\ wire' = Append(q, r) /\ link # "down"
                    /\ r.op = "output" /\ r.g = g /\ Fits(r, term'[g])
                    /\ RequestOK(r)'
                    /\ \A a \in Elems(q) : PairOK(a, r)'
           /\ wire' \in Seq(Requests)
    <2>1. term'[g] = Polling(g, term[g]) /\ wire' = PollOn(Rest, g, term[g])
      BY <1>3, <1>5
    <2>2. wire # << >> /\ made' = made /\ g \in Gens /\ g <= made /\ term[g] \in Terms
      BY <1>1, <1>2
    <2>3. PICK z : PollsOn(z, g)
      BY <1>8, <2>1, <2>2, PollSent
    <2> QED
      BY <2>3 DEF PollsOn
  <1>10. Typed' /\ DetachedOK'
    <2>1. Typed'
      BY <1>1, <1>5, <1>9 DEF Typed, Stamp
    <2> QED
      BY <1>1, <2>1, DetachedSteps DEF IInv
  <1>11. Calm(g)
    BY <1>1, <1>2, <1>4, <1>5, KeyTypes DEF Calm, Keeps, SameTerm
  <1>12. \A a \in Elems(wire) : Seeds(a) => a \in Elems(q)
    BY <1>1, <1>9 DEF Seeds
  <1>13. \/ wire' = q
         \/ \E r \in Requests :
               /\ wire' = Append(q, r) /\ link # "down"
               /\ r.g \in {0, g} /\ Fits(r, term'[g])
               /\ RequestOK(r)'
               /\ \A a \in Elems(q) : PairOK(a, r)'
    BY <1>9
  <1> QED
    BY <1>1, <1>2, <1>5, <1>9, <1>10, <1>11, <1>12, <1>13, Ordinary

(* A close by key that the daemon has carried out *)
LEMMA DestroyedByKey ==
    ASSUME IInv, Arrives("destroy"), NEW h, h = Head(wire), ByKey(h),
           NonePresent(pane'), \A a \in Elems(wire) : a.op # "create",
           wire' = Rest, retired' = TRUE, detached' = NoEntry, killed' = (h.n = Stamp),
           term' = term, cur' = cur, made' = made, closing' = closing, exits' = exits,
           screen' = screen, link' = link
    PROVE  IInv'
  <1>1. /\ Typed /\ RequestOK(h) /\ h.op = "destroy" /\ h \in Elems(wire)
        /\ link # "down" /\ Remain(Rest)
        /\ \A a \in Elems(Rest) : a \in Elems(wire)
        /\ \A a \in Elems(wire) : a = h \/ a \in Elems(Rest)
        /\ pane' \in [Panes -> States] /\ PaneStep /\ NoRecovery /\ NoCreation
    BY Answered
  <1>2. NoEntry \in Entries /\ NoEntry.sid = NoSid /\ NoEntry.recovered = FALSE /\ NoSid[2] = "none"
    BY DEF NoEntry, Entries, NoSid
  <1>3. Typed'
    <2>1. retired' \in BOOLEAN /\ detached' \in Entries
      BY <1>2
    <2>2. killed' \in BOOLEAN
      BY Zenon
    <2> QED
      BY <1>1, <2>1, <2>2 DEF Typed, Stamp, Remain
  <1>4. DetachedOK'
    BY <1>2 DEF DetachedOK, Known
  <1>5. killed' => cur' = 0
    BY <1>1 DEF RequestOK
  <1>6. \A r \in Elems(wire') : r.op # "create"
    BY <1>1
  <1>7. \A a \in Elems(wire) : Seeds(a) => a \in Elems(Rest)
    BY <1>1 DEF Seeds
  <1> QED
    BY <1>1, <1>3, <1>4, <1>5, <1>6, <1>7, Ordinary

LEMMA DestroyReplied ==
    ASSUME IInv, DestroyReply
    PROVE  IInv'
  <1>1. PICK h : h = Head(wire)
    OBVIOUS
  <1>2. PICK g : g = h.g
    OBVIOUS
  <1>3. PICK e : e = Answer(h).error
    OBVIOUS
  <1>a. Arrives("destroy")
    BY DEF DestroyReply
  <1>4. /\ Typed /\ h \in Elems(wire) /\ h \in Requests /\ RequestOK(h) /\ h.op = "destroy"
        /\ link # "down" /\ wire # << >>
        /\ pane' \in [Panes -> States] /\ PaneStep /\ NoRecovery /\ NoCreation
    BY <1>1, <1>a, Answered DEF Arrives
  <1>5. /\ e = "" => /\ h.sid[1] \in Panes /\ pane'[h.sid[1]].st = "gone" /\ NonePresent(pane')
                     /\ \A a \in Elems(wire) : a.op # "create"
        /\ e # "" => pane' = pane /\ ~Found(pane, h.sid)
    BY <1>1, <1>3, <1>a, DestroyFacts
  <1>6. link' = link /\ screen' = screen
    BY DEF DestroyReply
  <1>7. \/ /\ h.why \in {"polling", "quiet"} /\ e = ""
           /\ wire' = NoPolls(Rest, g) /\ Set(g, Stopped(term[g]))
           /\ cur' = 0 /\ retired' = TRUE /\ detached' = NoEntry
           /\ killed' = (h.n = Stamp) /\ Emit(g, "end") /\ UNCHANGED <<made, closing>>
        \/ /\ h.why = "polling" /\ e # ""
           /\ Set(g, Polling(g, term[g])) /\ wire' = PollOn(Rest, g, term[g])
           /\ UNCHANGED <<keyVars, exits>>
        \/ h.why = "quiet" /\ e # "" /\ wire' = Rest /\ UNCHANGED term /\ UNCHANGED <<keyVars, exits>>
        \/ /\ h.why = "detached" /\ e = ""
           /\ retired' = TRUE /\ detached' = NoEntry /\ killed' = (h.n = Stamp)
           /\ wire' = Rest /\ UNCHANGED <<term, cur, made, closing, exits>>
        \/ /\ h.why = "detached" /\ e # ""
           /\ UNCHANGED <<retired, detached, killed>>
           /\ wire' = Rest /\ UNCHANGED <<term, cur, made, closing, exits>>
        \/ h.why = "exit" /\ wire' = NoPolls(Rest, g) /\ Complete(g)
    BY <1>1, <1>2, <1>3 DEF DestroyReply
  <1>8. CASE /\ h.why \in {"polling", "quiet"} /\ e = ""
             /\ wire' = NoPolls(Rest, g) /\ Set(g, Stopped(term[g]))
             /\ cur' = 0 /\ retired' = TRUE /\ detached' = NoEntry
             /\ killed' = (h.n = Stamp) /\ Emit(g, "end") /\ UNCHANGED <<made, closing>>
    <2>1. Kills(h)
      BY <1>4, <1>8 DEF Kills
    <2> QED
      BY <1>1, <1>2, <1>a, <1>5, <1>6, <1>8, <2>1, DestroyedByUser
  <1>9. CASE /\ h.why = "polling" /\ e # ""
             /\ Set(g, Polling(g, term[g])) /\ wire' = PollOn(Rest, g, term[g])
             /\ UNCHANGED <<keyVars, exits>>
    <2>1. Kills(h)
      BY <1>4, <1>9 DEF Kills
    <2>2. /\ cur' = cur /\ made' = made /\ detached' = detached /\ retired' = retired
          /\ closing' = closing /\ killed' = killed /\ exits' = exits
      BY <1>9 DEF keyVars
    <2> QED
      BY <1>1, <1>2, <1>a, <1>5, <1>6, <1>9, <2>1, <2>2, DestroyRefused
  <1>10. CASE \/ h.why = "quiet" /\ e # "" /\ wire' = Rest /\ UNCHANGED term /\ UNCHANGED <<keyVars, exits>>
              \/ /\ h.why = "detached" /\ e # ""
                 /\ UNCHANGED <<retired, detached, killed>>
                 /\ wire' = Rest /\ UNCHANGED <<term, cur, made, closing, exits>>
    <2>1. /\ cur' = cur /\ made' = made /\ detached' = detached /\ retired' = retired /\ term' = term
          /\ closing' = closing /\ killed' = killed /\ exits' = exits /\ wire' = Rest
      BY <1>10 DEF keyVars
    <2> QED
      BY <1>a, <1>6, <2>1, Passed
  <1>11. CASE /\ h.why = "detached" /\ e = ""
              /\ retired' = TRUE /\ detached' = NoEntry /\ killed' = (h.n = Stamp)
              /\ wire' = Rest /\ UNCHANGED <<term, cur, made, closing, exits>>
    <2>1. ByKey(h)
      BY <1>4, <1>11 DEF ByKey
    <2> QED
      BY <1>1, <1>a, <1>5, <1>6, <1>11, <2>1, DestroyedByKey
  <1>12. CASE h.why = "exit" /\ wire' = NoPolls(Rest, g) /\ Complete(g)
    <2>1. /\ g \in Gens /\ h.sid # NoSid /\ h.sid \in Sids /\ h.sid[1] = term[g].sid[1]
          /\ h.sid[1] \in Panes /\ Ended(pane, h.sid)
      <3>1. /\ g \in Gens /\ h.sid # NoSid /\ h.sid \in Sids /\ h.sid[1] = term[g].sid[1]
            /\ Ended(pane, h.sid)
        BY <1>2, <1>4, <1>12 DEF RequestOK, OfPane, Requests
      <3> QED
        BY <3>1, SidFacts
    <2>2. term[g].sid # NoSid
      BY <2>1 DEF NoSid, Panes
    <2>3. Ended(pane', h.sid)
      BY <1>4, <2>1, KnownSteps
    <2>4. Over(pane', term[g].sid)
      BY <2>1, <2>2, <2>3 DEF Over, Ended
    <2> QED
      BY <1>1, <1>4, <1>6, <1>12, <2>1, <2>2, <2>4, Completed
  <1> QED
    BY <1>7, <1>8, <1>9, <1>10, <1>11, <1>12

-----------------------------------------------------------------------------
(* The invariant holds in every state                                      *)

LEMMA InitInv == Init => IInv
  <1> SUFFICES ASSUME Init PROVE IInv
    OBVIOUS
  <1>1. \A g \in Gens : term[g] = Unborn /\ screen[g] = << >> /\ exits[g] = << >>
    BY DEF Init
  <1>2. \A p \in Panes : pane[p].st = "none" /\ ~Present(pane, p)
    BY DEF Init, Present
  <1>3. Elems(wire) = {} /\ wire = << >>
    BY DEF Init, Elems
  <1>4. /\ Unborn \in Terms /\ NoSid[2] = "none" /\ NoEntry.sid = NoSid
        /\ NoEntry.recovered = FALSE /\ NoEntry \in Entries
    BY DEF Unborn, Terms, Sids, NoEntry, NoSid, Entries
  <1>5. Typed
    <2>1. pane \in [Panes -> States]
      BY BoundsNat DEF Init, States
    <2>2. /\ made \in 0..MaxGen /\ cur \in 0..made /\ closing \in 0..Stamp /\ link = "up"
          /\ retired \in BOOLEAN /\ killed \in BOOLEAN
      <3>1. retired \in BOOLEAN /\ killed \in BOOLEAN
        BY Zenon DEF Init
      <3>2. made = 0 /\ cur = 0 /\ closing = 0 /\ link = "up" /\ MaxGen \in Nat /\ Stamp = 0 + 1
        BY BoundsNat DEF Init, Stamp
      <3>3. 0 \in 0..MaxGen /\ 0 \in 0..0 /\ 0 \in 0..(0 + 1)
        BY <3>2
      <3> QED
        BY <3>1, <3>2, <3>3, Zenon
    <2>3. term \in [Gens -> Terms] /\ detached \in Entries
      BY <1>4 DEF Init
    <2>4. /\ screen \in [Gens -> Seq(Nat)] /\ exits \in [Gens -> Seq({"end", "daemon-crash"})]
          /\ wire \in Seq(Requests)
      BY DEF Init
    <2> QED
      BY <2>1, <2>2, <2>3, <2>4 DEF Typed
  <1>6. TermOK
    <2>1. /\ Unborn.sid = NoSid /\ Unborn.next = 1 /\ ~Unborn.recovered /\ Unborn.at = "none"
          /\ ~Unborn.finalizing /\ ~Unborn.timer /\ ~Unborn.again
      BY DEF Unborn
    <2>2. Known(pane, NoSid)
      BY DEF Known
    <2> SUFFICES ASSUME NEW g \in Gens PROVE TermAt(g)
      BY DEF TermOK
    <2>3. PICK t : t = Unborn
      OBVIOUS
    <2>4. term[g] = t /\ screen[g] = << >> /\ exits[g] = << >>
      BY <1>1, <2>3
    <2>5. /\ t.sid = NoSid /\ t.next = 1 /\ ~t.recovered /\ t.at = "none"
          /\ ~t.finalizing /\ ~t.timer /\ ~t.again
      BY <2>1, <2>3
    <2> QED
      BY <1>4, <2>2, <2>3, <2>4, <2>5 DEF TermAt
  <1>7. DetachedOK
    BY <1>4 DEF Init, DetachedOK, Known
  <1>8. WireOK /\ OrderOK
    BY <1>3 DEF WireOK, OrderOK
  <1>9. PollOK
    BY <1>1, <1>3 DEF PollOK, PollAt, Has, Unborn
  <1>10. ScreenOK
    BY <1>1, <1>4 DEF ScreenOK, ScreenAt, Continuous, Unborn
  <1>11. KeyOK
    BY <1>2, <1>3 DEF KeyOK, OneDaemonPane, Init, Stamp
  <1> QED
    BY <1>5, <1>6, <1>7, <1>8, <1>9, <1>10, <1>11 DEF IInv

LEMMA RepliesStep == IInv /\ Replies => IInv'
  BY ListReplied, TopologyReplied, CreateReplied, AttachReplied, AttachRefusal, HistoryReplied,
     InventoryReplied, OutputReplied, ResizeReplied, DestroyReplied, CloseListed, DetachReplied,
     StolenHeard DEF Replies

LEMMA CallsStep == IInv /\ ~Overlap /\ Calls => IInv'
  BY Opened, OpenedAgain, TabClosed, KilledByKey, Killed, Resized DEF Calls

LEMMA ContinuationsStep == IInv /\ ~Overlap /\ Continuations => IInv'
  BY ClosedConnected, OpenedConnected, AgainAttached, PollTimed, Finalized DEF Continuations

LEMMA NothingHappens == IInv /\ UNCHANGED vars => IInv'
  <1> SUFFICES ASSUME IInv, UNCHANGED vars PROVE IInv'
    OBVIOUS
  <1>1. /\ pane' = pane /\ link' = link /\ wire' = wire /\ term' = term /\ cur' = cur /\ made' = made
        /\ detached' = detached /\ retired' = retired /\ closing' = closing /\ killed' = killed
        /\ screen' = screen /\ exits' = exits
    BY DEF vars
  <1>2. Remain(wire)
    BY DEF Remain, IInv, Typed
  <1> QED
    BY <1>1, <1>2, Quiet DEF IInv, Typed

LEMMA NextStep ==
    ASSUME IInv, ~Overlap, [Next]_vars
    PROVE  IInv'
  <1>1. CASE Replies
    BY <1>1, RepliesStep
  <1>2. CASE Continuations
    BY <1>2, ContinuationsStep
  <1>3. CASE Calls
    BY <1>3, CallsStep
  <1>4. CASE Connect \/ Drop \/ Crash
    BY <1>4, Connected, Dropped, Crashed
  <1>5. CASE \E p \in Panes : Produce(p) \/ Exit(p) \/ Steal(p)
    BY <1>5, Produced, Exited, Stolen
  <1>6. CASE UNCHANGED vars
    BY <1>6, NothingHappens
  <1> QED
    BY <1>1, <1>2, <1>3, <1>4, <1>5, <1>6 DEF Next

(* Provided a rehydration does not overlap the reattach of a new epoch, nor  *)
(* a close the making of a Run tty, the inductive invariant always holds:    *)
(* what terminals, requests and panes know of each other, what is never on   *)
(* the wire together, and that every view ends where its terminal goes on.   *)
THEOREM Invariance ==
    ASSUME ~Overlap
    PROVE  Spec => []IInv
  <1>1. Init => IInv
    BY InitInv
  <1>2. IInv /\ [Next]_vars => IInv'
    BY NextStep
  <1> QED
    BY <1>1, <1>2, PTL DEF Spec

LEMMA InvTypes == IInv => TypeOK
  <1> SUFFICES ASSUME IInv PROVE TypeOK
    OBVIOUS
  <1>1. Typed /\ PollOK /\ OnePoll(wire) /\ (link = "down" => wire = << >>)
    BY WirePolls DEF IInv, KeyOK
  <1>2. ASSUME NEW g \in Gens, NEW i \in PollsOf(wire, g), NEW j \in PollsOf(wire, g)
        PROVE  i = j
    <2> SUFFICES ASSUME i # j PROVE FALSE
      OBVIOUS
    <2>1. /\ i \in DOMAIN wire /\ j \in DOMAIN wire /\ i \in Nat /\ j \in Nat
          /\ wire[i].op = "output" /\ wire[i].g = g /\ wire[j].op = "output" /\ wire[j].g = g
          /\ wire[i] \in Elems(wire) /\ wire[j] \in Elems(wire)
      BY <1>1 DEF PollsOf, Typed, Elems
    <2>2. <<wire[i], wire[j]>> \in Prec(wire) \/ <<wire[j], wire[i]>> \in Prec(wire)
      <3>1. i < j \/ j < i
        BY <2>1
      <3> QED
        BY <2>1, <3>1, PrecIntro
    <2> QED
      BY <1>1, <2>1, <2>2 DEF OnePoll, SameG
  <1>3. ASSUME NEW g \in Gens, term[g].timer PROVE PollsOf(wire, g) = {}
    BY <1>1, <1>3 DEF PollOK, PollAt, PollsOf, Elems
  <1>4. \A g \in Gens : term[g].at \in {"none", "wait", "retry"}
    BY <1>1 DEF Typed, Terms
  <1>5. \A g \in Gens : exits[g] \in Seq({"end", "daemon-crash"})
    BY <1>1 DEF Typed
  <1>6. {retired, killed} \subseteq BOOLEAN
    BY <1>1, Zenon DEF Typed
  <1> QED
    BY <1>1, <1>2, <1>3, <1>4, <1>5, <1>6 DEF TypeOK, Typed, States

(* What a view shows is one seed and then every chunk after it, in order,    *)
(* none missing and none twice, over reattaches, rehydrations, late polls    *)
(* and drops (pollGeneration, resume_sequence).                              *)
THEOREM StreamContinuousAlways ==
    ASSUME ~Overlap
    PROVE  Spec => []StreamContinuous
  <1>1. IInv => StreamContinuous
    BY InvTypes DEF IInv, ScreenOK, ScreenAt, Continuous, StreamContinuous
  <1> QED
    BY <1>1, Invariance, PTL

(* The daemon never holds two panes of one key, and none after a close(kill) *)
(* has resolved, until the key is opened again (hydrateDetached,             *)
(* requireOpening).                                                          *)
THEOREM OneDaemonPaneAlways ==
    ASSUME ~Overlap
    PROVE  Spec => []OneDaemonPane
  <1>1. IInv => OneDaemonPane
    BY DEF IInv, KeyOK
  <1> QED
    BY <1>1, Invariance, PTL

(* When the manager decides that a pane has ended, the tail of its output is *)
(* on the screen (the drain boundary), and a view is told the end only when  *)
(* no process of the pane runs.                                              *)
THEOREM DrainedBeforeEndAlways ==
    ASSUME ~Overlap
    PROVE  Spec => []DrainedBeforeEnd
  <1>1. ASSUME IInv, NEW g \in Gens
        PROVE  /\ (cur = g /\ term[g].finalizing /\ pane[term[g].sid[1]].st = "exited")
                     => screen[g][Len(screen[g])] = pane[term[g].sid[1]].out
               /\ exits[g] # << >> => pane[term[g].sid[1]].st # "live"
    <2>1. TermAt(g) /\ ScreenAt(g)
      BY <1>1 DEF IInv, TermOK, ScreenOK
    <2> QED
      BY <2>1 DEF TermAt, ScreenAt, Over
  <1>2. IInv => DrainedBeforeEnd
    BY <1>1 DEF DrainedBeforeEnd
  <1> QED
    BY <1>2, Invariance, PTL

(* How the panes of a step follow from what the daemon has carried out *)
LEMMA PanesCarried ==
    ASSUME IInv, Next
    PROVE  \/ pane' = pane
           \/ \E p \in Panes : Produce(p) \/ Exit(p) \/ Steal(p)
           \/ CarriedOK(pane')
           \/ Drop
           \/ Crash
  <1>1. ASSUME Replies PROVE CarriedOK(pane')
    <2>1. PICK op : Arrives(op)
      BY <1>1 DEF Replies, ListReply, TopologyReply, CreateReply, AttachReply, AttachRefused, HistoryReply,
            InventoryReply, OutputReply, ResizeReply, DestroyReply, CloseListReply, DetachReply, StolenEvent
    <2> QED
      BY <2>1, Answered
  <1>2. ASSUME Continuations PROVE pane' = pane
    BY <1>2 DEF Continuations, CloseConnected, OpenConnected, AgainConnected, PollTimer, FinalizeTimer,
          daemonVars
  <1>3. ASSUME Calls PROVE pane' = pane
    BY <1>3 DEF Calls, Open, OpenAgain, CloseTab, KillByKey, Kill, Resize
  <1>4. ASSUME Connect PROVE pane' = pane
    BY <1>4 DEF Connect, daemonVars
  <1> QED
    BY <1>1, <1>2, <1>3, <1>4 DEF Next

(* A pane whose process runs, or that was recovered after a daemon crash,    *)
(* leaves the daemon by a close of the user's, never by the automatic        *)
(* finalization of an ended pane.                                            *)
THEOREM ClosedOnlyByUserAlways ==
    ASSUME ~Overlap
    PROVE  Spec => ClosedOnlyByUser
  <1> DEFINE Close(p) == \E i \in DOMAIN wire : /\ wire[i].op = "destroy" /\ wire[i].why # "exit"
                                                /\ wire[i].sid[1] = p
             Step == \A p \in Panes : (pane[p].st \in {"live", "recovered"} /\ pane'[p].st = "gone")
                                          => Close(p)
  <1>1. ASSUME IInv, [Next]_vars, NEW p \in Panes, pane[p].st \in {"live", "recovered"}, pane'[p].st = "gone"
        PROVE  Close(p)
    <2>0. pane \in [Panes -> States]
      BY <1>1 DEF IInv, Typed
    <2>1. ASSUME NEW ps, CarriedOK(ps), ps[p].st \in {"exited", "gone"} PROVE Close(p)
      <3>1. UserClosed(p)
        BY <1>1, <2>1 DEF CarriedOK
      <3> QED
        BY <3>1 DEF UserClosed, Elems
    <2>2. pane' # pane
      BY <1>1
    <2>3. Next
      BY <1>1, <2>2 DEF vars
    <2>4. CASE CarriedOK(pane')
      <3>1. PICK ps : ps = pane'
        OBVIOUS
      <3> QED
        BY <1>1, <2>1, <2>4, <3>1
    <2>5. CASE \E x \in Panes : Produce(x) \/ Exit(x) \/ Steal(x)
      <3>1. PICK x \in Panes : Produce(x) \/ Exit(x) \/ Steal(x)
        BY <2>5
      <3>2. pane'[p].st \in {pane[p].st, "exited"}
        BY <2>0, <3>1 DEF Produce, Exit, Steal, States
      <3> QED
        BY <1>1, <3>2
    <2>6. CASE Drop
      <3>1. PICK ps \in CarriedOut :
                pane' = [x \in Panes |-> [ps[x] EXCEPT !.owner = IF @ = "us" THEN "nobody" ELSE @]]
        BY <2>6 DEF Drop
      <3>2. CarriedOK(ps)
        BY <1>1, CarriedAll
      <3>3. pane'[p].st = ps[p].st
        BY <3>1, <3>2 DEF CarriedOK, States
      <3> QED
        BY <1>1, <2>1, <3>2, <3>3
    <2>7. CASE Crash
      <3>1. PICK ps \in CarriedOut :
                pane' = [x \in Panes |->
                   [ps[x] EXCEPT !.st = CASE @ = "live" -> "recovered" [] @ = "exited" -> "gone" [] OTHER -> @,
                                 !.owner = "nobody"]]
        BY <2>7 DEF Crash
      <3>2. CarriedOK(ps)
        BY <1>1, CarriedAll
      <3>3. ps[p].st \in {"exited", "gone"}
        BY <1>1, <3>1, <3>2 DEF CarriedOK, States
      <3> QED
        BY <2>1, <3>2, <3>3
    <2> QED
      BY <1>1, <2>2, <2>3, <2>4, <2>5, <2>6, <2>7, PanesCarried
  <1>2. IInv /\ [Next]_vars => [Step]_vars
    BY <1>1
  <1> QED
    BY <1>2, Invariance, PTL DEF Spec, ClosedOnlyByUser
=============================================================================
