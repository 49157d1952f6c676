------------------------------ MODULE Plotting ------------------------------
(***************************************************************************)
(* One thread of the master from the report it reads to the charts: module *)
(* Report for its slave's report, then plotNode's chart of it and the ones *)
(* of plotDistributed (src/src/myplot.c), with module Gnuplot.  What is in *)
(* the charts is decided by the numbers the thread has read.               *)
(***************************************************************************)
EXTENDS Report, FiniteSets

CONSTANTS
    MaxTmp,         \* GP_MAX_TMP_FILES
    MaxFailures,    \* bound: how many charts meet a failure
    MaxPipe,        \* how many commands a pipe to gnuplot holds
    Followed(_)     \* bound: the parameters for which plotting is followed

ASSUME SessionAssumption ==
    MaxTmp \in Nat \ {0} /\ MaxFailures \in Nat /\ MaxPipe \in Nat \ {0}

VARIABLES
    pc, curve, tbl, nplots, pipe, process, shown, chart, files, filled, failed,
    leaked, crashed

plotVars == <<pc, curve, tbl, nplots, pipe, process, shown, chart, files, filled,
              failed, leaked, crashed>>

\* The slave's chart, that of another slave, which its own thread plots; and
\* those of plotDistributed, one of its two of SNMP samples.
Graphs == {"values", "other", "partials", "results", "snmp"}

Before == [values   |-> {},
           other    |-> {},
           partials |-> {"values", "other"},
           results  |-> {"partials"},
           snmp     |-> {"results"}]

\* parseResults sets the output before the first, the third and the fourth curve.
Joined == [g \in Graphs |-> IF g = "results" THEN {2} ELSE {}]

Received(i) == IF i <= Len(number) THEN number[i] ELSE 0

AtLeastOne(n) == IF n > 1 THEN n ELSE 1

\* buildHeader: the curves that a header names.
Flows == [values   |-> AtLeastOne(Received(1)),
          other    |-> 1,
          partials |-> params.quantity,
          results  |-> 4,
          snmp     |-> 2]

\* The curves there are: partials has one for each body of AVGS, of which every
\* slave sends one, or in a ranged test one for every test.
CurvesOf ==
    [Flows EXCEPT !.partials =
        @ * (IF Received(4) = 0 THEN 1 ELSE AtLeastOne(Received(1)))]

G == INSTANCE Gnuplot WITH flows <- Flows, curves <- CurvesOf

InitPlotting == Init /\ G!Init

\* The thread plots when plotNode has read all.
NextPlotting ==
    \/ Next /\ UNCHANGED plotVars
    \/ /\ ~Reading /\ Followed(params)
       /\ G!Next
       /\ UNCHANGED vars

SpecPlotting ==
    /\ InitPlotting
    /\ [][NextPlotting]_<<vars, plotVars>>
    /\ WF_<<vars, plotVars>>(Write /\ UNCHANGED plotVars)
    /\ WF_<<vars, plotVars>>(Read /\ UNCHANGED plotVars)
    /\ \A g \in Graphs :
          /\ WF_<<vars, plotVars>>(~Reading /\ Followed(params) /\ G!Program(g) /\ UNCHANGED vars)
          /\ WF_<<vars, plotVars>>(~Reading /\ Followed(params) /\ G!Process(g) /\ UNCHANGED vars)

-----------------------------------------------------------------------------
(* Properties *)

\* What gnuplot reads is there and complete (Gnuplot).
ReadsWhole == G!ReadsWhole

\* No temporary file outlives its session, unless pclose fails (Gnuplot).
NoLitter == G!NoLitter

\* Each chart shows all that there is to plot (Gnuplot) and, if the report fits its
\* buffers, the slave's chart has one curve for each of its switches.
Charts ==
    /\ G!Charts
    /\ pc["values"] = "closed" /\ "values" \notin failed \cup leaked
       /\ Fits /\ params.nSwitches < MaxTmp =>
          \A image \in {chart["values"][i] : i \in DOMAIN chart["values"]} :
              Len(image) = params.nSwitches

\* A test that is not ranged ends with all charts plotted, unless gnuplot or a file
\* fails.
PlotEnds ==
    params.testRange = 0 /\ Fits /\ Followed(params) => G!PlotEnds
=============================================================================
