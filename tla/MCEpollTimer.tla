---------------------------- MODULE MCEpollTimer ----------------------------
(***************************************************************************)
(* Instances of EpollTimer for TLC.                                        *)
(***************************************************************************)
EXTENDS EpollTimer

First == CHOOSE u \in Users : TRUE

\* Two users who only start timers, or one who does everything.
MCRoles ==
    {[u \in Users |-> {"start"}],
     [u \in Users |-> IF u = First THEN {"start", "stop", "mod", "close"} ELSE {}]}

\* Users who start timers and close instances.
ClosingRoles == {[u \in Users |-> {"start", "close"}]}

\* The users run the same code.  Safety only: no symmetry with liveness.
UserSymmetry == Permutations(Users)

=============================================================================
