----------------------------- MODULE UserIntent -----------------------------
(***************************************************************************)
(* What connect and disconnect promise the user, with every queue, process *)
(* and time-out hidden.  A core may come up only while no disconnect is in *)
(* force; it may go down at any time; and a disconnect in force while a    *)
(* core is up ends with the core down, unless Connect lifts it.            *)
(***************************************************************************)
VARIABLES stop,  \* a disconnect by the user is in force
          up     \* a core serves the connection

uvars == <<stop, up>>

Init == stop \in BOOLEAN /\ up = FALSE

Connect    == stop /\ stop' = FALSE /\ UNCHANGED up
Disconnect == ~stop /\ stop' = TRUE /\ UNCHANGED up
ComeUp     == ~stop /\ ~up /\ up' = TRUE /\ UNCHANGED stop
GoDown     == up /\ up' = FALSE /\ UNCHANGED stop

\* The app is killed: it runs no core any more, and a flag on its way to the disk
\* is read back as it was before.
Forget == up' = FALSE /\ stop' \in BOOLEAN

Next == Connect \/ Disconnect \/ ComeUp \/ GoDown

Safe == Init /\ [][Next]_uvars
SafeAcrossKills == Init /\ [][Next \/ Forget]_uvars
Spec == Safe /\ WF_uvars(stop /\ GoDown)
=============================================================================
