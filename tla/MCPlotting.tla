----------------------------- MODULE MCPlotting -----------------------------
\* Module Plotting for TLC.  Numbers are written in base 2, so that 4 does not fit
\* a buffer of 3; rows are cut off at 4 characters.
EXTENDS Plotting

\* Two switches and one slave, in a single and in a ranged test, or five slaves.
MCFollowed(p) ==
    /\ p.loops = 1 /\ p.valuesRow = 2 /\ p.mode = 0
    /\ \/ p.nSwitches = 2 /\ p.quantity = 1
       \/ p.nSwitches = 1 /\ p.quantity = 5 /\ p.testRange = 0
=============================================================================
