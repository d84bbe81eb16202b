---------------------------- MODULE MuxConnection ----------------------------
(***************************************************************************)
(* RemoteMuxConnectionManager                                              *)
(* (electron/main/providers/remote/muxConnection.ts): the raw channel to a *)
(* project's mux daemon.  A MuxClient is named by its channel, a member of *)
(* Link; closing it runs its close handlers within the call, once.         *)
(*                                                                         *)
(* close() does not wait for an opener in flight: it starts a generation.  *)
(* A generation has at most one opener in flight, of an earlier one the    *)
(* opener is stale.  Atomicity: one macrotask with its microtasks.         *)
(***************************************************************************)
EXTENDS Naturals

CONSTANTS
    Link,            \* the channels the opener may open
    NoLink,          \* null
    MaxReattach,     \* length of REATTACH_BACKOFF_MS
    MaxGeneration    \* bound: calls of close()

ASSUME NoLinkAssumption == NoLink \notin Link
ASSUME LimitAssumption == MaxReattach \in Nat /\ MaxGeneration \in Nat

VARIABLES
    link,        \* c -> "free", "open" or "ended"
    client,      \* this.client
    generation, closed, stolen,
    timer,       \* this.reattachTimer is set
    attempt,     \* this.reattachAttempt
    epoch,
    opener,      \* g -> who started or joined the opener in flight of generation g:
                 \* "none", "caller" or "timer", whose rejection is retried
    wanted       \* history: open() was called, and neither close(), a theft, a
                 \* rejection nor onReattachExhausted followed

connVars == <<link, client, generation, closed, stolen, timer, attempt, epoch, opener, wanted>>

Generations == 0 .. MaxGeneration

ConnInit ==
    /\ link = [c \in Link |-> "free"] /\ client = NoLink
    /\ generation = 0 /\ closed = FALSE /\ stolen = FALSE
    /\ timer = FALSE /\ attempt = 0 /\ epoch = 0
    /\ opener = [g \in Generations |-> "none"]
    /\ wanted = FALSE

-----------------------------------------------------------------------------

\* scheduleReattach: nothing while a reattach is due; otherwise one more, or the
\* consumer is told that they are exhausted.
ScheduleReattach ==
    \/ timer /\ UNCHANGED <<timer, attempt, wanted>>
    \/ ~timer /\ attempt >= MaxReattach /\ wanted' = FALSE /\ UNCHANGED <<timer, attempt>>
    \/ ~timer /\ attempt < MaxReattach /\ timer' = TRUE /\ attempt' = attempt + 1
       /\ UNCHANGED wanted

\* this.opening is set.
Opening == opener[generation] # "none"

\* open(): nothing with a client, otherwise an opener to join or to start.  A
\* reattach that is due stays due.
Open ==
    /\ client = NoLink
    /\ wanted' = TRUE
    /\ IF Opening
       THEN UNCHANGED <<closed, stolen, opener>>
       ELSE /\ closed' = FALSE /\ stolen' = FALSE
            /\ opener' = [opener EXCEPT ![generation] = "caller"]
    /\ UNCHANGED <<link, client, generation, timer, attempt, epoch>>

\* The reattach timer fires and retries when its opener rejects.
TimerFires ==
    /\ timer /\ timer' = FALSE
    /\ opener' = [opener EXCEPT ![generation] = "timer"]
    /\ UNCHANGED <<link, client, generation, closed, stolen, attempt, epoch, wanted>>

\* Mutant of Stale: the generation is not compared.
StaleUngenerated(g) == closed

\* close() ran since the opener of generation g started.
Stale(g) == closed \/ g # generation

\* An opener resolves: a stale one's channel is ended, any other's becomes the
\* client, with a new epoch and fresh attempts.
OpenerOk(g, c) ==
    /\ opener[g] # "none" /\ link[c] = "free"
    /\ opener' = [opener EXCEPT ![g] = "none"]
    /\ \/ /\ Stale(g)
          /\ link' = [link EXCEPT ![c] = "ended"]
          /\ UNCHANGED <<client, epoch, attempt>>
       \/ /\ ~Stale(g)
          /\ link' = [link EXCEPT ![c] = "open"]
          /\ client' = c
          /\ epoch' = epoch + 1
          /\ attempt' = 0
    /\ UNCHANGED <<generation, closed, stolen, timer, wanted>>

\* Mutant of OpenerFail: nothing follows up the timer's opener.
OpenerFailSilently(g) ==
    /\ opener[g] # "none"
    /\ opener' = [opener EXCEPT ![g] = "none"]
    /\ wanted' = (wanted /\ (g # generation \/ opener[g] = "timer"))
    /\ UNCHANGED <<link, client, generation, closed, stolen, timer, attempt, epoch>>

\* An opener rejects: the timer's is retried, whatever happened meanwhile; a
\* caller is told.
OpenerFail(g) ==
    /\ opener[g] # "none"
    /\ opener' = [opener EXCEPT ![g] = "none"]
    /\ \/ opener[g] = "timer" /\ ScheduleReattach
       \/ /\ opener[g] = "caller"
          /\ wanted' = (wanted /\ g # generation)
          /\ UNCHANGED <<timer, attempt>>
    /\ UNCHANGED <<link, client, generation, closed, stolen, epoch>>

\* The channel of c ends or fails.
ClientEnds(c) ==
    /\ link[c] = "open"
    /\ link' = [link EXCEPT ![c] = "ended"]
    /\ client' = IF client = c THEN NoLink ELSE client
    /\ IF closed \/ stolen THEN UNCHANGED <<timer, attempt, wanted>> ELSE ScheduleReattach
    /\ UNCHANGED <<generation, closed, stolen, epoch, opener>>

\* The daemon reports on c that another client took a session: no reattach.
SessionStolen(c) ==
    /\ link[c] = "open"
    /\ stolen' = TRUE /\ timer' = FALSE /\ wanted' = FALSE
    /\ UNCHANGED <<link, client, generation, closed, attempt, epoch, opener>>

\* close()
Close ==
    /\ generation < MaxGeneration
    /\ generation' = generation + 1
    /\ closed' = TRUE /\ wanted' = FALSE
    /\ timer' = FALSE
    /\ client' = NoLink
    /\ link' = [c \in Link |-> IF c = client THEN "ended" ELSE link[c]]
    /\ UNCHANGED <<stolen, attempt, epoch, opener>>

-----------------------------------------------------------------------------
OpenerSettles(g) == OpenerFail(g) \/ \E c \in Link : OpenerOk(g, c)

ConnNext ==
    \/ Open \/ Close \/ TimerFires
    \/ \E g \in Generations : OpenerSettles(g)
    \/ \E c \in Link : ClientEnds(c) \/ SessionStolen(c)

ConnSpec == ConnInit /\ [][ConnNext]_connVars

\* The timer fires, and launching the bridge succeeds or fails in the end.
Fairness ==
    /\ WF_connVars(TimerFires)
    /\ \A g \in Generations : WF_connVars(OpenerSettles(g))

FairSpec == ConnSpec /\ Fairness

-----------------------------------------------------------------------------
(* Properties.                                                             *)

\* Every variable keeps the type of the field it stands for; the attempts index
\* the backoff table.
ConnTypeOK ==
    /\ link \in [Link -> {"free", "open", "ended"}]
    /\ client \in Link \cup {NoLink}
    /\ generation \in Generations
    /\ closed \in BOOLEAN /\ stolen \in BOOLEAN /\ timer \in BOOLEAN
    /\ attempt \in 0 .. MaxReattach /\ epoch \in Nat
    /\ opener \in [Generations -> {"none", "caller", "timer"}]
    /\ wanted \in BOOLEAN

\* current() never returns a client whose channel is gone, whichever of several
\* channels ended.
CurrentIsOpen == client # NoLink => link[client] = "open"

\* A closed manager installs no client, although an opener outlived close() and
\* although a reattach may be armed behind its back.
ClosedHasNoClient == closed => client = NoLink

\* The part of it that every step preserves.
ConnInv == ConnTypeOK /\ CurrentIsOpen /\ ClosedHasNoClient

\* A client comes from an opener started since the last close(): a stale one
\* never clobbers what a newer open() got.
NoStaleInstall ==
    [][client' \notin {client, NoLink} =>
          \E g \in Generations : g = generation /\ opener[g] # "none" /\ opener'[g] = "none"]_connVars

\* Wanted, the channel comes back or the consumer is told: the opener, its
\* rejection, the timer and the attempts hand over to one another.
Recovers ==
    wanted ~> (client # NoLink \/ ~wanted \/ closed \/ stolen)

-----------------------------------------------------------------------------
(* What a comment of the source promises, and the code does not keep.       *)

\* muxConnection.ts:9: it "Owns one remote raw mux channel".  An open() while a
\* reattach is due starts an opener of its own and leaves the timer armed.
OneLiveClient ==
    \A c, d \in Link : link[c] = "open" /\ link[d] = "open" => c = d
=============================================================================
