---------------------------- MODULE EpochChannel ----------------------------
(***************************************************************************)
(* What a channel manager promises its consumers: while it is wanted it    *)
(* brings up one link at a time, and announces each new one with the next  *)
(* epoch, which is what makes a renderer seed its panes afresh.            *)
(***************************************************************************)
EXTENDS Naturals

VARIABLES
    wanted,   \* somebody wants the channel open
    up,       \* an announced link is in use
    epoch     \* number of links announced

vars == <<wanted, up, epoch>>

Init == wanted = FALSE /\ up = FALSE /\ epoch = 0

\* open()
Want == wanted' = TRUE /\ UNCHANGED <<up, epoch>>

\* close(), or an open() that fails: nobody counts on a link any more.
Unwant == wanted' = FALSE /\ up' = FALSE /\ UNCHANGED epoch

\* A fresh link: never on top of one that is up, never for nobody.
Announce ==
    /\ wanted /\ ~up
    /\ up' = TRUE /\ epoch' = epoch + 1
    /\ UNCHANGED wanted

\* The link is lost.
Lose == up /\ up' = FALSE /\ UNCHANGED <<wanted, epoch>>

Next == Want \/ Unwant \/ Announce \/ Lose

Spec == Init /\ [][Next]_vars
=============================================================================
