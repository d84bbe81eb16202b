----------------------------- MODULE MuxTopology -----------------------------
(***************************************************************************)
(* The topology and the lifecycle catalog of one cockpit-mux daemon:       *)
(* Operations (cockpit-mux/daemon/operations.go) over the SQLite store     *)
(* (persistence/store.go).                                                 *)
(*                                                                         *)
(* Every request runs under operations.mu, but commits its rows one        *)
(* statement at a time.  A handler is therefore an operator from a call    *)
(* state [m, db, torn, err] to a call state: m is the daemon's memory, db  *)
(* the catalog, torn the catalogs it has committed so far, and err tells   *)
(* that it has returned an error.  A call either completes (Completes) or  *)
(* the daemon dies after one of its commits (Dies).                        *)
(*                                                                         *)
(* Pane n, its runtime session "session-n" and the logical session it may  *)
(* found share the number n; a layout tree is the sequence of its leaves,  *)
(* and 0 the empty id.  Content, pins, broadcast, geometry and the         *)
(* single-pane legacy record are left out.                                 *)
(***************************************************************************)
EXTENDS Integers, Sequences, FiniteSets, FiniteSetsExt, SequencesExt, Functions

CONSTANTS Projects,     \* projects sharing the daemon
          MaxPane,      \* bound: panes ever created
          FirstWindow,  \* windows already created and closed
          MaxWindow,    \* bound: the last window id
          MaxCrash,     \* bound: ends of the daemon
          Outcomes,     \* how a creation may end: "ok", "start" or "shadow"
          Zoomable,     \* bound: the panes a client zooms
          KillFails     \* fault switch: Pane.Terminate may return an error

ASSUME TopologyAssumption ==
    /\ MaxPane \in 1..9 /\ FirstWindow \in Nat /\ MaxWindow \in (FirstWindow + 1)..99
    /\ IsFiniteSet(Projects)
    /\ MaxCrash \in Nat /\ Outcomes \subseteq {"ok", "start", "shadow"} /\ KillFails \in BOOLEAN

VARIABLES status,  \* "up", or down after a "crash" between calls or "torn" inside one
          m,       \* its memory; while it is down, the memory it died with
          db,      \* the committed catalog
          crashes
vars == <<status, m, db, crashes>>
up == status = "up"

NoFocus == [logical |-> 0, project |-> 0]
NoRow == <<>>           \* the function with an empty domain
Unsaved == [active |-> FALSE, pane |-> 0, zoom |-> 0, layout |-> <<>>]

-----------------------------------------------------------------------------
(* Ids are compared as strings: "window-10" sorts before "window-9".       *)
Lex(i) == IF i < 10 THEN 20 * i - 1 ELSE 2 * i
Sorted(S, key) ==
    [k \in 1..Cardinality(S) |-> CHOOSE i \in S : Cardinality({j \in S : key[j] <= key[i]}) = k]
SortedIds(S) == Sorted(S, [i \in S |-> Lex(i)])
Position(q, x) == IF x \in ToSet(q) THEN CHOOSE i \in DOMAIN q : q[i] = x ELSE Len(q) + 1
\* Those q names, in its order, and then the others.
Ordered(q, S) ==
    Sorted(S, [x \in S |-> IF x \in ToSet(q) THEN Position(q, x) ELSE Len(q) + Lex(x)])
FirstId(q) == IF q = <<>> THEN 0 ELSE q[1]

Put(f, x, v) == [y \in DOMAIN f \cup {x} |-> IF y = x THEN v ELSE f[y]]
Without(f, S) == Restrict(f, DOMAIN f \ S)
At(f, x) == IF x \in DOMAIN f THEN f[x] ELSE 0

\* Memory.
LogicalsOf(mem) == {mem.panes[n].logical : n \in DOMAIN mem.panes}
PanesOf(mem, l) == {n \in DOMAIN mem.panes : mem.panes[n].logical = l}
PanesIn(mem, l, w) == {n \in PanesOf(mem, l) : mem.panes[n].window = w}
WindowsOf(mem, l) == {mem.panes[n].window : n \in PanesOf(mem, l)}
ProjectOf(mem, l) == (CHOOSE r \in Range(mem.panes) : r.logical = l).project
LiveIn(mem, l) == {n \in PanesOf(mem, l) : mem.panes[n].kind = "live"}

-----------------------------------------------------------------------------
(* topologyStateLocked: what every reader makes of one session's record.   *)
NoTopology == [order |-> <<>>, active |-> 0, pane |-> NoRow, zoom |-> NoRow, layout |-> NoRow]
TopologyOf(mem, l) == IF l \in DOMAIN mem.topo THEN mem.topo[l] ELSE NoTopology

NormalOrder(order, windows) == Ordered(order, windows)
NormalLayout(layout, panes) == Ordered(layout, panes)

Normal(mem, l) ==
    LET t == TopologyOf(mem, l)
        ws == WindowsOf(mem, l)
        order == NormalOrder(t.order, ws)
        in(w) == PanesIn(mem, l, w)
    IN [order |-> order,
        active |-> IF t.active \in ws THEN t.active ELSE FirstId(order),
        pane |-> [w \in ws |-> IF At(t.pane, w) \in in(w) THEN t.pane[w] ELSE FirstId(SortedIds(in(w)))],
        zoom |-> [w \in ws |-> IF At(t.zoom, w) \in in(w) THEN t.zoom[w] ELSE 0],
        layout |-> [w \in ws |-> NormalLayout(IF w \in DOMAIN t.layout THEN t.layout[w] ELSE <<>>, in(w))]]

Normalized(mem, l) == [mem EXCEPT !.topo = Put(@, l, Normal(mem, l))]
WithTopology(mem, l, t) == [mem EXCEPT !.topo = Put(@, l, t)]
\* A call that has met an error changes nothing any more.
Memory(s, mem) == IF s.err THEN s ELSE [s EXCEPT !.m = mem]
Failed(s) == [s EXCEPT !.err = TRUE]

-----------------------------------------------------------------------------
(* The catalog.  Each statement is one transaction; foreign keys are on.   *)
Commit(s, d) == IF s.err THEN s ELSE [s EXCEPT !.db = d, !.torn = @ \cup {d}]

UpsertSession(s, l, p) == Commit(s, [s.db EXCEPT !.sessions = Put(@, l, p)])
UpsertWindow(s, w, l, idx, saved) ==
    IF l \notin DOMAIN s.db.sessions THEN Failed(s)
    ELSE Commit(s, [s.db EXCEPT !.windows = Put(@, w, [session |-> l, idx |-> idx, saved |-> saved])])
UpsertPane(s, n, w, l) ==
    IF l \notin DOMAIN s.db.sessions \/ w \notin DOMAIN s.db.windows THEN Failed(s)
    ELSE LET key == n \in DOMAIN s.db.panes /\ s.db.panes[n].key
         IN Commit(s, [s.db EXCEPT !.panes = Put(@, n, [window |-> w, session |-> l, key |-> key])])
SaveKeyframe(s, n) == Commit(s, [s.db EXCEPT !.panes[n].key = TRUE])
SetActive(s, p, l) ==
    IF l \notin DOMAIN s.db.sessions THEN Failed(s)
    ELSE Commit(s, [s.db EXCEPT !.active = Put(@, p, l)])

\* ON DELETE CASCADE from sessions to windows, panes and the selection.
DropSessions(d, S) ==
    LET ws == {w \in DOMAIN d.windows : d.windows[w].session \in S}
        ps == {n \in DOMAIN d.panes : d.panes[n].session \in S \/ d.panes[n].window \in ws}
    IN [sessions |-> Without(d.sessions, S), windows |-> Without(d.windows, ws),
        panes |-> Without(d.panes, ps),
        active |-> Without(d.active, {p \in DOMAIN d.active : d.active[p] \in S})]
DestroySession(s, l) == Commit(s, DropSessions(s.db, {l}))

DropPanes(d, S) ==
    LET d1 == [d EXCEPT !.panes = Without(@, S)]
        d2 == [d1 EXCEPT !.windows = Restrict(@, DOMAIN @ \cap {r.window : r \in Range(d1.panes)})]
    IN DropSessions(d2, DOMAIN d2.sessions \ {r.session : r \in Range(d2.panes)})
DestroyPane(s, n) == Commit(s, DropPanes(s.db, {n}))

-----------------------------------------------------------------------------
(* What the handlers persist.                                              *)
\* persistTopologyLocked: the window row is written with layout_json "{}".
PersistTopology(s, n, r) ==
    LET l == r.logical
        idx == Position(Normal(s.m, l).order, r.window) - 1
        session == UpsertSession(Memory(s, Normalized(s.m, l)), l, r.project)
    IN UpsertPane(UpsertWindow(session, r.window, l, idx, Unsaved), n, r.window, l)

\* Only the daemon's focus is ever recorded as a project's selection.
PersistActive(s, l) ==
    IF s.m.focus.logical # l THEN s ELSE SetActive(s, s.m.focus.project, l)

SavedOf(t, w) == [active |-> t.active = w, pane |-> t.pane[w], zoom |-> t.zoom[w], layout |-> t.layout[w]]
\* One row after the other; the first fails if the session has none.
PersistWindows(s, l, t) ==
    LET row(w) == [session |-> l, idx |-> Position(t.order, w) - 1, saved |-> SavedOf(t, w)]
        upTo(i) == LET ws == {t.order[j] : j \in 1..i}
                   IN [w \in DOMAIN s.db.windows \cup ws |-> IF w \in ws THEN row(w) ELSE s.db.windows[w]]
    IN IF s.err \/ t.order = <<>> THEN s
       ELSE IF l \notin DOMAIN s.db.sessions THEN Failed(s)
       ELSE [s EXCEPT !.db.windows = upTo(Len(t.order)),
                      !.torn = @ \cup {[s.db EXCEPT !.windows = upTo(i)] : i \in DOMAIN t.order}]
PersistInteraction(s, l) ==
    PersistActive(PersistWindows(Memory(s, Normalized(s.m, l)), l, Normal(s.m, l)), l)

-----------------------------------------------------------------------------
(* createLocked: outcome is "start" or "shadow" when that part of it fails.*)
Placed(t, n, w) ==
    [t EXCEPT !.active = w, !.pane[w] = n, !.layout[w] = IF Contains(@, n) THEN @ ELSE Append(@, n)]
Observe(s, n, r) ==
    LET mem == WithTopology(s.m, r.logical, Placed(Normal(s.m, r.logical), n, r.window))
    IN [PersistInteraction(Memory(s, mem), r.logical) EXCEPT !.err = s.err]

Registered(s, n, r) ==
    LET mem == [s.m EXCEPT !.panes = Put(@, n, r), !.activeOf = Put(@, r.project, r.logical),
                           !.focus = [logical |-> r.logical, project |-> r.project]]
    IN PersistActive(Observe(Memory(s, mem), n, r), r.logical)

CreateLocked(s, project, logical, window, outcome) ==
    LET n == s.m.nextSession + 1
        w == s.m.nextWindow + 1
        r == [project |-> project, kind |-> "live", logical |-> IF logical = 0 THEN n ELSE logical,
              window |-> IF window = 0 THEN w ELSE window]
        burnt == Memory(s, [s.m EXCEPT !.nextSession = n, !.nextWindow = IF window = 0 THEN w ELSE @])
    IN IF outcome = "start" THEN Failed(burnt)
       ELSE IF outcome = "shadow" THEN Failed(DestroyPane(PersistTopology(burnt, n, r), n))
       ELSE Registered(SaveKeyframe(PersistTopology(burnt, n, r), n), n, r)

\* splitLayoutPane: the new leaf follows its source.
SplitLayout(layout, source, created) ==
    IF layout = <<>> THEN <<created>>
    ELSE FoldLeft(LAMBDA q, n : IF n = source THEN q \o <<n, created>> ELSE Append(q, n), <<>>, layout)

\* Mutant: a closed window leaves the selection on the first one.
RemovePlacementToFirst(t, w) ==
    LET order == Ordered(t.order, ToSet(t.order) \ {w})
    IN [order |-> order, active |-> IF t.active = w THEN FirstId(order) ELSE t.active,
        pane |-> Without(t.pane, {w}), zoom |-> Without(t.zoom, {w}), layout |-> Without(t.layout, {w})]

\* removeWindowPlacement.
RemovePlacement(t, w) ==
    LET i == Position(t.order, w)
        order == Ordered(t.order, ToSet(t.order) \ {w})
    IN [order |-> order,
        active |-> IF t.active # w THEN t.active
                   ELSE IF i <= Len(order) THEN order[i]
                   ELSE IF order # <<>> THEN Last(order) ELSE 0,
        pane |-> Without(t.pane, {w}), zoom |-> Without(t.zoom, {w}), layout |-> Without(t.layout, {w})]

\* destroyManagedSessionLocked, of panes in an order of which `first` come
\* first: those destroyed before the call fails, or before the daemon dies.
Unstopped(s, S, fails) == {n \in S : fails /\ s.m.panes[n].kind = "live"}
DestroyManaged(s, first, S, fails) ==
    LET gone == IF Unstopped(s, S, fails) = {} THEN S ELSE first
        some == IF first = {} THEN s ELSE Commit(s, DropPanes(s.db, first))
        all  == IF gone = first THEN some ELSE Commit(some, DropPanes(s.db, S))
    IN [Memory(all, [s.m EXCEPT !.panes = Without(@, gone)])
            EXCEPT !.err = Unstopped(s, S, fails) # {}]

\* Mutant of SelectRemaining: the focus is left behind.
SelectRemainingUnfocused(mem, p) ==
    LET left == {l \in LogicalsOf(mem) : ProjectOf(mem, l) = p}
    IN [mem EXCEPT !.activeOf = IF left = {} THEN Without(@, {p}) ELSE Put(@, p, FirstId(SortedIds(left)))]

\* selectRemainingSessionLocked and selectLogicalSessionLocked.
SelectRemaining(mem, p) ==
    LET left == {l \in LogicalsOf(mem) : ProjectOf(mem, l) = p}
        l == FirstId(SortedIds(left))
    IN IF left # {} THEN [mem EXCEPT !.focus = [logical |-> l, project |-> p], !.activeOf = Put(@, p, l)]
       ELSE [mem EXCEPT !.focus = IF @.project = p THEN NoFocus ELSE @, !.activeOf = Without(@, {p})]
SelectLogical(mem, p, l) ==
    [mem EXCEPT !.focus = [logical |-> l, project |-> p], !.activeOf = Put(@, p, l)]

-----------------------------------------------------------------------------
(* How a call ends: it completes, or the daemon dies between two commits   *)
(* and the caller never hears of it.                                       *)
Call == [m |-> m, db |-> db, torn |-> {}, err |-> FALSE]
Completes(s) == m' = s.m /\ db' = s.db /\ UNCHANGED <<status, crashes>>
Dies(s) ==
    /\ crashes < MaxCrash
    /\ db' \in s.torn
    /\ status' = "torn" /\ crashes' = crashes + 1 /\ UNCHANGED m
Handle(s) == up /\ (Completes(s) \/ Dies(s))

EmptyMemory == [panes |-> NoRow, topo |-> NoRow, activeOf |-> NoRow, focus |-> NoFocus,
                nextSession |-> 0, nextWindow |-> 0]
EmptyDb == [sessions |-> NoRow, windows |-> NoRow, panes |-> NoRow, active |-> NoRow]

Init ==
    /\ status = "up" /\ crashes = 0 /\ db = EmptyDb
    /\ m = [EmptyMemory EXCEPT !.nextWindow = FirstWindow]

MayCreate == m.nextSession < MaxPane
MayOpen == MayCreate /\ m.nextWindow < MaxWindow

Create(p, outcome) == MayOpen /\ Handle(CreateLocked(Call, p, 0, 0, outcome))

SplitIn(t, w, source, created) ==
    LET base == SelectSeq(t.layout[w], LAMBDA x : x # created)
    IN [t EXCEPT !.layout[w] = SplitLayout(base, source, created), !.active = w, !.pane[w] = created]
SplitFrom(s, l, w, source) ==
    PersistInteraction(
        Memory(s, WithTopology(s.m, l, SplitIn(Normal(s.m, l), w, source, s.m.nextSession))), l)
Split(n, outcome) ==
    LET r == m.panes[n]
    IN /\ MayCreate
       /\ Handle(SplitFrom(CreateLocked(Call, r.project, r.logical, r.window, outcome), r.logical, r.window, n))

InNewWindow(s, l) ==
    PersistInteraction(
        Memory(s, WithTopology(s.m, l, [Normal(s.m, l) EXCEPT !.active = s.m.nextWindow,
                                                              !.pane[s.m.nextWindow] = s.m.nextSession])), l)
NewWindow(l, outcome) ==
    /\ MayOpen
    /\ Handle(InNewWindow(CreateLocked(Call, ProjectOf(m, l), l, 0, outcome), l))

SelectWindow(l, w) ==
    LET t1 == [Normal(m, l) EXCEPT !.active = w]
        mem == WithTopology(SelectLogical(m, ProjectOf(m, l), l), l, t1)
    IN Handle(PersistInteraction(Memory(Call, mem), l))

SelectPane(n) ==
    LET r == m.panes[n]
        t1 == [Normal(m, r.logical) EXCEPT !.active = r.window, !.pane[r.window] = n]
        mem == WithTopology(SelectLogical(m, r.project, r.logical), r.logical, t1)
    IN Handle(PersistInteraction(Memory(Call, mem), r.logical))

\* zoomPane, with n = 0 to clear the zoom; it does not select the session.
ZoomPane(l, w, n) ==
    LET t == Normal(m, l)
        t1 == [t EXCEPT !.active = w, !.zoom[w] = n, !.pane[w] = IF n = 0 THEN @ ELSE n]
    IN Handle(PersistInteraction(Memory(Call, WithTopology(m, l, t1)), l))

\* attach and resize end alike; a pane that has exited is refused before.
Attach(n) ==
    /\ m.panes[n].kind \in {"live", "recovered"}
    /\ Handle(PersistTopology(Call, n, m.panes[n]))

\* What destroy and destroyWindow do once the panes of l are gone, ...
SelectSurvivor(s, p, l, wasActive) ==
    LET gone == [s.m EXCEPT !.topo = Without(@, {l})]
        chosen == Memory(s, SelectRemaining(gone, p))
    IN IF ~wasActive THEN Memory(s, gone)
       ELSE IF p \in DOMAIN chosen.m.activeOf THEN PersistActive(chosen, chosen.m.activeOf[p])
       ELSE chosen

\* ... and while it has some left.
IsSelected(p, l) == p \in DOMAIN m.activeOf /\ m.activeOf[p] = l
Reselected(mem, p, l) == IF IsSelected(p, l) THEN SelectLogical(mem, p, l) ELSE mem

\* An error of the last writes is not reported.
Destroyed(s, p, l) ==
    IF s.err THEN s
    ELSE IF l \notin LogicalsOf(s.m) THEN SelectSurvivor(s, p, l, IsSelected(p, l))
    ELSE [PersistInteraction(Memory(s, Reselected(Normalized(s.m, l), p, l)), l) EXCEPT !.err = FALSE]
Destroy(n, fails) ==
    LET r == m.panes[n]
        l == r.logical
        mem == IF PanesIn(m, l, r.window) = {n}
               THEN WithTopology(m, l, RemovePlacement(Normal(m, l), r.window)) ELSE m
    IN Handle(Destroyed(DestroyManaged(Memory(Call, mem), IF fails /\ r.kind = "live" THEN {} ELSE {n}, {n}, fails), r.project, l))

WindowDestroyed(s, p, l) ==
    IF l \notin LogicalsOf(s.m) THEN SelectSurvivor(s, p, l, IsSelected(p, l))
    ELSE LET kept == PersistInteraction(Memory(s, Normalized(s.m, l)), l)
         IN Memory(kept, Reselected(kept.m, p, l))
\* The targets are destroyed in the order of a Go map.
DestroyWindow(l, w, first, fails) ==
    LET mem == WithTopology(m, l, RemovePlacement(Normal(m, l), w))
    IN /\ first \cap Unstopped(Call, PanesIn(m, l, w), fails) = {}
       /\ Handle(WindowDestroyed(DestroyManaged(Memory(Call, mem), first, PanesIn(m, l, w), fails),
                                 ProjectOf(m, l), l))

\* Mutant: any exit reaps the session.
ExitReaping(n) ==
    /\ m.panes[n].kind = "live"
    /\ Handle(DestroySession(Memory(Call, [m EXCEPT !.panes[n].kind = "exited"]), m.panes[n].logical))

\* watchPaneExit and markLogicalSessionDeadLocked.
Exit(n) ==
    LET l == m.panes[n].logical
        s1 == Memory(Call, [m EXCEPT !.panes[n].kind = "exited"])
    IN /\ m.panes[n].kind = "live"
       /\ Handle(IF LiveIn(s1.m, l) = {} THEN DestroySession(s1, l) ELSE s1)

\* Close: an orderly stop reaps every session, or those it has come to when
\* it dies; the daemon is gone afterwards.
Close ==
    /\ up /\ crashes < MaxCrash /\ crashes' = crashes + 1
    /\ \/ \E S \in SUBSET LogicalsOf(m) \ {{}} : db' = DropSessions(db, S)
          /\ status' = "torn" /\ UNCHANGED m
       \/ /\ status' = "crash" /\ db' = DropSessions(db, LogicalsOf(m))
          /\ m' = [EmptyMemory EXCEPT !.activeOf = m.activeOf]

Crash == up /\ crashes < MaxCrash /\ status' = "crash" /\ crashes' = crashes + 1 /\ UNCHANGED <<m, db>>

-----------------------------------------------------------------------------
(* NewPersistentOperations over what the last daemon left.                 *)

\* loadRecoveredCatalog and observeRecoveredIdentifiers.
Recovered ==
    LET ps == {n \in DOMAIN db.panes : db.panes[n].key}
        row(n) == db.panes[n]
        panes == [n \in ps |-> [project |-> db.sessions[row(n).session], logical |-> row(n).session,
                                window |-> row(n).window, kind |-> "recovered"]]
    IN [EmptyMemory EXCEPT !.panes = panes,
                           !.nextSession = Max({0} \cup ps \cup {row(n).session : n \in ps}),
                           !.nextWindow = Max({0} \cup {row(n).window : n \in ps})]

\* Mutant: ORDER BY id.
WindowRowsById(l) == SortedIds({w \in DOMAIN db.windows : db.windows[w].session = l})

\* rebuildTopologyLocked, then loadPersistedTopologyLocked: the rows of a
\* session by placement, laid over the rebuilt record, normalized at the end.
WindowRows(l) ==
    LET ws == {w \in DOMAIN db.windows : db.windows[w].session = l}
    IN Sorted(ws, [w \in ws |-> 200 * db.windows[w].idx + Lex(w)])
Stored(mem, l) ==
    LET t == Normal(mem, l)
        rows == WindowRows(l)
        saved(w) == db.windows[w].saved
        chosen == SelectSeq(rows, LAMBDA w : saved(w).active)
        over(f, field) == [w \in ToSet(rows) |-> IF saved(w)[field] # 0 THEN saved(w)[field] ELSE At(f, w)]
    IN [order |-> rows, active |-> IF chosen = <<>> THEN t.active ELSE Last(chosen),
        pane |-> over(t.pane, "pane"), zoom |-> over(t.zoom, "zoom"),
        layout |-> [w \in ToSet(rows) |-> saved(w).layout]]
LoadTopology(mem, l) == Normal(WithTopology(mem, l, Stored(mem, l)), l)

\* loadActiveLogicalSessionsLocked visits the selections in any order: each
\* becomes its project's, and that of the project its session is now of, and
\* the last the focus.  Without any that is the last recovered session.
Loaded == [Recovered EXCEPT !.topo = [l \in LogicalsOf(Recovered) |-> LoadTopology(Recovered, l)]]
Orders(S) == {q \in [1..Cardinality(S) -> S] : Range(q) = S}
Selected(mem, order) ==
    LET l(i) == db.active[order[i]]
        writes(p) == {i \in DOMAIN order : p \in {order[i], ProjectOf(mem, l(i))}}
        focus == l(Len(order))
    IN [mem EXCEPT !.activeOf = [p \in {p \in Projects : writes(p) # {}} |-> l(Max(writes(p)))],
                   !.focus = [logical |-> focus, project |-> ProjectOf(mem, focus)]]
Selecting(mem, ls) ==
    LET selections == {p \in DOMAIN db.active : db.active[p] \in ls}
        last == Last(SortedIds(ls))
    IN IF selections # {} THEN \E order \in Orders(selections) : m' = Selected(mem, order)
       ELSE m' = IF ls = {} THEN mem
                 ELSE [mem EXCEPT !.focus = [logical |-> last, project |-> ProjectOf(mem, last)]]
Restart ==
    /\ ~up /\ status' = "up" /\ UNCHANGED <<db, crashes>>
    /\ \E mem \in {Loaded} : Selecting(mem, LogicalsOf(mem))

Panes == DOMAIN m.panes
Kills == IF KillFails THEN BOOLEAN ELSE {FALSE}
Next ==
    \/ \E p \in Projects, o \in Outcomes : Create(p, o)
    \/ \E n \in Panes, o \in Outcomes : Split(n, o)
    \/ \E l \in LogicalsOf(m), o \in Outcomes : NewWindow(l, o)
    \/ \E l \in LogicalsOf(m) : \E w \in WindowsOf(m, l) : SelectWindow(l, w)
    \/ \E n \in Panes : SelectPane(n)
    \/ \E l \in LogicalsOf(m) : \E w \in WindowsOf(m, l) : \E n \in (PanesIn(m, l, w) \cap Zoomable) \cup {0} : ZoomPane(l, w, n)
    \/ \E n \in Panes : Attach(n)
    \/ \E n \in Panes, fails \in Kills : Destroy(n, fails)
    \/ \E l \in LogicalsOf(m) : \E w \in WindowsOf(m, l) :
           \E first \in SUBSET PanesIn(m, l, w), fails \in Kills : DestroyWindow(l, w, first, fails)
    \/ \E n \in Panes : Exit(n)
    \/ Close
    \/ Crash
    \/ Restart

Spec == Init /\ [][Next]_vars

-----------------------------------------------------------------------------
(* Properties.                                                             *)

\* The types of the daemon's memory and of its catalog's rows.
TypeOK ==
    /\ status \in {"up", "crash", "torn"} /\ crashes \in 0..MaxCrash
    /\ Panes \subseteq 1..MaxPane
    /\ \A n \in Panes : /\ m.panes[n].project \in Projects /\ m.panes[n].logical \in 1..MaxPane
                         /\ m.panes[n].window \in 1..MaxWindow
                         /\ m.panes[n].kind \in {"live", "exited", "recovered"}
    /\ m.nextSession \in 0..MaxPane /\ m.nextWindow \in 0..MaxWindow
    /\ \A l \in DOMAIN m.topo : IsInjective(m.topo[l].order)
    /\ DOMAIN m.activeOf \subseteq Projects /\ DOMAIN db.active \subseteq Projects
    /\ \A n \in DOMAIN db.panes : /\ db.panes[n].session \in DOMAIN db.sessions
                                  /\ db.panes[n].window \in DOMAIN db.windows

\* While the daemon runs, the content it could recover is that of panes it
\* still holds, and every live pane can be recovered, in its own window and
\* session (operations.go: the catalog is reaped with its session).
CatalogAgrees ==
    up => /\ {n \in DOMAIN db.panes : db.panes[n].key} \subseteq Panes
          /\ \A n \in Panes : m.panes[n].kind = "live" =>
                /\ n \in DOMAIN db.panes /\ db.panes[n].key
                /\ db.panes[n].session = m.panes[n].logical /\ db.panes[n].window = m.panes[n].window
                /\ db.windows[m.panes[n].window].session = m.panes[n].logical
                /\ db.sessions[m.panes[n].logical] = m.panes[n].project

\* A project's selection names a session the project still has, and every
\* project with panes that was ever selected in keeps one (topologyLocked's
\* fallback to the first session is never what a client sees after a close).
SelectionExists ==
    up => \A p \in DOMAIN m.activeOf : \E n \in Panes : m.panes[n].project = p /\ m.panes[n].logical = m.activeOf[p]

\* The selection exists and, of a project whose session is in the catalog, is
\* durable.
SelectionDurable ==
    SelectionExists /\ (up => \A p \in DOMAIN m.activeOf :
            LiveIn(m, m.activeOf[p]) # {} => p \in DOMAIN db.active /\ db.active[p] = m.activeOf[p])

\* A new pane, window or session never takes the id of one the daemon holds
\* or could still recover (observeRecoveredIdentifiers).
IdsFresh ==
    up => /\ \A n \in Panes \cup LogicalsOf(m) : n <= m.nextSession
          /\ \A n \in DOMAIN db.panes : db.panes[n].key =>
                 db.panes[n].window <= m.nextWindow /\ db.panes[n].session <= m.nextSession

\* Memory, catalog and ids fit together, whatever the daemon was doing when
\* it stopped.
Consistent == TypeOK /\ CatalogAgrees /\ IdsFresh

SameOrder(q1, q2) ==
    LET common == ToSet(q1) \cap ToSet(q2)
    IN SelectSeq(q1, LAMBDA w : w \in common) = SelectSeq(q2, LAMBDA w : w \in common)
OrderOf(mem, l) == NormalOrder(TopologyOf(mem, l).order, WindowsOf(mem, l))
Surviving == LogicalsOf(m) \cap LogicalsOf(m)'

\* "every survivor retains its relative order ... and no lexical ordering of
\* window IDs replaces the stored placement after recovery" (TEST_PLAN.md):
\* across any request, exit, crash and restart, while the daemon ends once at
\* most (MaxCrash <= 1): a recovery may leave a gap in the stored placements,
\* and after a second end two rows may tie.
OrderKept ==
    [][\A l \in Surviving : SameOrder(OrderOf(m, l), OrderOf(m', l))]_vars

\* "Closing the active window selects its next placement, or the preceding
\* final placement when no successor exists" (ARCHITECTURE.md).
ClosingSelectsNeighbour ==
    [][up /\ up' => \A l \in Surviving :
          Panes # Panes' =>
          LET t == Normal(m, l)
              after == OrderOf(m', l)
              next == {i \in DOMAIN t.order : t.order[i] \in ToSet(after)
                                             /\ i > Position(t.order, t.active)}
          IN t.active \notin ToSet(after) =>
                Normal(m', l).active = IF next = {} THEN Last(after) ELSE t.order[Min(next)]]_vars

View(mem, l) == LET t == Normal(mem, l) IN <<t.active, t.pane, t.zoom, t.layout>>
\* "the same selection and order survive ... daemon recovery"
\* (ARCHITECTURE.md): a session recovered with all its panes after a crash
\* between two calls has the selection, zoom and layout it had.
SelectionSurvives ==
    [][status = "crash" /\ up' => \A l \in Surviving :
          PanesOf(m, l) = PanesOf(m', l) => View(m', l) = View(m, l)]_vars

\* "Closing a pane/session explicitly reaps its persisted catalog/history"
\* (process-lifecycle.md): a session none of whose panes runs or was recovered
\* leaves no content a later daemon would bring back.
ClosedLeavesNothing ==
    up => \A n \in DOMAIN db.panes : db.panes[n].key =>
            \E k \in PanesOf(m, db.panes[n].session) : m.panes[k].kind \in {"live", "recovered"}
=============================================================================
