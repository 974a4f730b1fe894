--------------------------- MODULE MCDockingStack ---------------------------
(* DockingStack with a dock that is either in sight at its opening or lost. *)
EXTENDS DockingStack

SeenOrLost ==
    { [usable |-> TRUE, ahead |-> TRUE, entering |-> TRUE],
      [usable |-> FALSE, ahead |-> FALSE, entering |-> FALSE] }
=============================================================================
