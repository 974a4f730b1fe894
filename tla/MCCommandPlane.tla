--------------------------- MODULE MCCommandPlane ---------------------------
EXTENDS CommandPlane

\* The switch just below the top zone and at it, armed.
Switch == {[ch8 |-> 1399, ch7 |-> 1811, failsafe |-> FALSE],
           [ch8 |-> 1400, ch7 |-> 1811, failsafe |-> FALSE]}
=============================================================================
