------------------------------- MODULE Gnuplot -------------------------------
(***************************************************************************)
(* The graphs of the master: plotGraph of src/src/myplot.c, called by the  *)
(* thread of each slave (plotNode) and then four times by plotDistributed, *)
(* and the gnuplot session of src/src/gnuplot_i.c that each call opens.    *)
(*                                                                         *)
(* A session is a pipe to a gnuplot process, which reads its commands when *)
(* it gets to them, long after they were written; the curves are in        *)
(* temporary files, and every "replot" reads all of them again.  The       *)
(* process can fail to start or die, a temporary file can fail to be made  *)
(* or opened, pclose can fail.                                             *)
(***************************************************************************)
EXTENDS Integers, Sequences, FiniteSets

CONSTANTS
    Graphs,         \* the charts
    Before,         \* Before[g]: the charts that are plotted before g is
    Joined,         \* Joined[g]: the curves for which no new output is set
    MaxTmp,         \* GP_MAX_TMP_FILES
    MaxFailures,    \* bound: how many charts meet a failure
    MaxPipe         \* how many commands the pipe holds

VARIABLES
    flows,          \* flows[g]: how many curves the header of g names
    curves,         \* curves[g]: how many there are to plot
    pc,             \* pc[g]: what plotGraph does next
    curve,          \* curve[g]: the curve it is at
    tbl,            \* handle->tmp_filename_tbl, ntmp names
    nplots,         \* handle->nplots
    pipe,           \* the commands gnuplot has not read
    process,        \* gnuplot: "none", "running", "exited", "dead"
    shown,          \* the curves in gnuplot's current plot
    chart,          \* chart[g]: the images in the output file
    files,          \* the temporary files there are
    filled,         \* those that were written and closed
    failed,         \* (history) charts for which a file or the process failed
    leaked,         \* (history) charts whose pclose failed
    crashed         \* the program was ended by a signal

session == <<tbl, nplots, pipe>>
gnuplot == <<process, shown, chart>>
disk    == <<files, filled>>
history == <<failed, leaked, crashed>>
vars    == <<pc, curve, session, gnuplot, disk, history>>

Of(f, g, v) == [f EXCEPT ![g] = v]

CanFail == Cardinality(failed) + Cardinality(leaked) < MaxFailures

\* The headers and the bodies, flows and curves, are given: see module Plotting.
Init ==
    /\ pc = [g \in Graphs |-> "init"]
    /\ curve = [g \in Graphs |-> 1]
    /\ tbl = [g \in Graphs |-> <<>>]
    /\ nplots = [g \in Graphs |-> 0]
    /\ pipe = [g \in Graphs |-> <<>>]
    /\ process = [g \in Graphs |-> "none"]
    /\ shown = [g \in Graphs |-> <<>>]
    /\ chart = [g \in Graphs |-> <<>>]
    /\ files = {}
    /\ filled = {}
    /\ failed = {}
    /\ leaked = {}
    /\ crashed = FALSE

-----------------------------------------------------------------------------
(* The program *)

\* gnuplot_cmd.  It blocks while the pipe is full.  Nobody looks at what becomes
\* of a command, but a write to a pipe without a reader ends the program (SIGPIPE).
Cmd(g, command) ==
    \/ /\ process[g] = "running"
       /\ Len(pipe[g]) < MaxPipe
       /\ pipe' = Of(pipe, g, Append(pipe[g], command))
       /\ UNCHANGED crashed
    \/ /\ process[g] # "running"
       /\ crashed' = TRUE
       /\ UNCHANGED pipe

\* gnuplot_init, the labels, gnuplot_resetplot of a new session, which has no
\* files yet, and the settings.
GnuplotInit(g) ==
    /\ pc[g] = "init"
    /\ \A b \in Before[g] : pc[b] = "closed"
    /\ process' = Of(process, g, "running")
    /\ pc' = Of(pc, g, "output")
    /\ UNCHANGED <<curve, session, shown, chart, disk, history>>

\* popen fails: gnuplot_set_ylabel uses the NULL that gnuplot_init returns.
InitFails(g) ==
    /\ pc[g] = "init"
    /\ \A b \in Before[g] : pc[b] = "closed"
    /\ CanFail
    /\ failed' = failed \cup {g}
    /\ crashed' = TRUE
    /\ UNCHANGED <<pc, curve, session, gnuplot, disk, leaked>>

\* plotGraph takes the name of the next curve from the header, which has none
\* left: it reads through a NULL.
NoName(g) ==
    /\ pc[g] = "output"
    /\ curve[g] > flows[g]
    /\ crashed' = TRUE
    /\ UNCHANGED <<pc, curve, session, gnuplot, disk, failed, leaked>>

\* parseLines, parseResults: "set output" before a curve, but for some.
SetOutput(g) ==
    /\ pc[g] = "output"
    /\ curve[g] <= flows[g]
    /\ IF curve[g] \in Joined[g]
       THEN UNCHANGED <<pipe, crashed>>
       ELSE Cmd(g, [op |-> "output"])
    /\ pc' = Of(pc, g, "tmpfile")
    /\ UNCHANGED <<curve, tbl, nplots, gnuplot, disk, failed, leaked>>

\* Faulty: a curve without a file is tried again.
NextCurveAgain(g) ==
    /\ curve' = Of(curve, g, IF pc[g] = "tmpfile" THEN curve[g] ELSE curve[g] + 1)
    /\ pc' = Of(pc, g, IF curve[g] < curves[g] \/ pc[g] = "tmpfile" THEN "output" ELSE "close")

\* The next curve, or the end.
NextCurve(g) ==
    /\ curve' = Of(curve, g, curve[g] + 1)
    /\ pc' = Of(pc, g, IF curve[g] < curves[g] THEN "output" ELSE "close")

\* Faulty: the name of the file is not kept.
TmpfileForgets(g) ==
    /\ pc[g] = "tmpfile"
    /\ Len(tbl[g]) < MaxTmp - 1
    /\ files' = files \cup {<<g, curve[g]>>}
    /\ pc' = Of(pc, g, "fill")
    /\ UNCHANGED <<curve, session, gnuplot, filled, history>>

\* gnuplot_tmpfile: an empty file.
Tmpfile(g) ==
    /\ pc[g] = "tmpfile"
    /\ Len(tbl[g]) < MaxTmp - 1
    /\ files' = files \cup {<<g, curve[g]>>}
    /\ tbl' = Of(tbl, g, Append(tbl[g], <<g, curve[g]>>))
    /\ pc' = Of(pc, g, "fill")
    /\ UNCHANGED <<curve, nplots, pipe, gnuplot, filled, history>>

\* "maximum # of temporary files reached": gnuplot_plot_xy plots nothing.
TmpfileRefused(g) ==
    /\ pc[g] = "tmpfile"
    /\ Len(tbl[g]) = MaxTmp - 1
    /\ NextCurve(g)
    /\ UNCHANGED <<session, gnuplot, disk, history>>

\* mkstemp fails, or fopen does: "cannot create temporary file: exiting plot".
FileFails(g) ==
    /\ \/ pc[g] = "tmpfile" /\ Len(tbl[g]) < MaxTmp - 1
       \/ pc[g] = "fill"
    /\ CanFail
    /\ failed' = failed \cup {g}
    /\ NextCurve(g)
    /\ UNCHANGED <<session, gnuplot, disk, leaked, crashed>>

\* gnuplot_plot_xy writes the points and closes the file.
Fill(g) ==
    /\ pc[g] = "fill"
    /\ filled' = filled \cup {<<g, curve[g]>>}
    /\ pc' = Of(pc, g, "plot")
    /\ UNCHANGED <<curve, session, gnuplot, files, history>>

\* Faulty: the second curve replaces the first.
PlotOver(g) ==
    /\ pc[g] = "plot"
    /\ Cmd(g, [op |-> IF nplots[g] > 1 THEN "replot" ELSE "plot", file |-> <<g, curve[g]>>])
    /\ nplots' = Of(nplots, g, nplots[g] + 1)
    /\ NextCurve(g)
    /\ UNCHANGED <<tbl, gnuplot, disk, failed, leaked>>

\* gnuplot_plot_atmpfile.
Plot(g) ==
    /\ pc[g] = "plot"
    /\ Cmd(g, [op |-> IF nplots[g] > 0 THEN "replot" ELSE "plot", file |-> <<g, curve[g]>>])
    /\ nplots' = Of(nplots, g, nplots[g] + 1)
    /\ NextCurve(g)
    /\ UNCHANGED <<tbl, gnuplot, disk, failed, leaked>>

\* Faulty: removes the files without waiting.
CloseEager(g) ==
    /\ pc[g] = "close"
    /\ files' = files \ {tbl[g][i] : i \in DOMAIN tbl[g]}
    /\ pc' = Of(pc, g, "closed")
    /\ UNCHANGED <<curve, session, gnuplot, filled, history>>

\* gnuplot_close: pclose waits for the process to end; the files are removed.
GnuplotClose(g) ==
    /\ pc[g] = "close"
    /\ process[g] \in {"exited", "dead"}
    /\ files' = files \ {tbl[g][i] : i \in DOMAIN tbl[g]}
    /\ pc' = Of(pc, g, "closed")
    /\ UNCHANGED <<curve, session, gnuplot, filled, history>>

\* "problem closing communication to gnuplot": the files stay.
CloseFails(g) ==
    /\ pc[g] = "close"
    /\ CanFail
    /\ leaked' = leaked \cup {g}
    /\ pc' = Of(pc, g, "closed")
    /\ UNCHANGED <<curve, session, gnuplot, disk, failed, crashed>>

Program(g) ==
    /\ ~crashed
    /\ \/ GnuplotInit(g) \/ InitFails(g) \/ NoName(g) \/ SetOutput(g) \/ Tmpfile(g)
       \/ TmpfileRefused(g) \/ FileFails(g) \/ Fill(g) \/ Plot(g) \/ GnuplotClose(g) \/ CloseFails(g)

-----------------------------------------------------------------------------
(* The gnuplot process (external) *)

\* "plot" starts a new plot, "replot" adds to the current one and draws all of
\* it; each adds an image to the output, which "set output" empties.
Execute(g) ==
    /\ process[g] = "running"
    /\ pipe[g] # <<>>
    /\ pipe' = Of(pipe, g, Tail(pipe[g]))
    /\ LET command == Head(pipe[g])
           now == CASE command.op = "output" -> shown[g]
                    [] command.op = "plot"   -> <<command.file>>
                    [] command.op = "replot" -> Append(shown[g], command.file)
       IN  /\ shown' = Of(shown, g, now)
           /\ chart' = Of(chart, g, IF command.op = "output" THEN <<>>
                                    ELSE Append(chart[g], now))
    /\ UNCHANGED <<pc, curve, tbl, nplots, process, disk, history>>

\* It ends when it has read all and the program has closed its end.
ExitGnuplot(g) ==
    /\ process[g] = "running"
    /\ pipe[g] = <<>>
    /\ crashed \/ pc[g] \in {"close", "closed"}
    /\ process' = Of(process, g, "exited")
    /\ UNCHANGED <<pc, curve, session, shown, chart, disk, history>>

\* It is killed, or was never there: the shell found no gnuplot.
Dies(g) ==
    /\ process[g] = "running"
    /\ CanFail
    /\ process' = Of(process, g, "dead")
    /\ failed' = failed \cup {g}
    /\ UNCHANGED <<pc, curve, session, shown, chart, disk, leaked, crashed>>

Process(g) == Execute(g) \/ ExitGnuplot(g)

Next == \E g \in Graphs : Program(g) \/ Process(g) \/ Dies(g)

Spec == Init /\ [][Next]_vars

\* Threads and processes run.
SpecFair == Spec /\ \A g \in Graphs : WF_vars(Program(g)) /\ WF_vars(Process(g))

-----------------------------------------------------------------------------
(* Properties *)

TypeOK ==
    /\ pc \in [Graphs -> {"init", "output", "tmpfile", "fill", "plot", "close", "closed"}]
    /\ curve \in [Graphs -> Nat \ {0}]
    /\ tbl \in [Graphs -> Seq(Graphs \X Nat)]
    /\ nplots \in [Graphs -> Nat]
    /\ process \in [Graphs -> {"none", "running", "exited", "dead"}]
    /\ files \subseteq Graphs \X Nat
    /\ filled \subseteq Graphs \X Nat
    /\ failed \subseteq Graphs
    /\ leaked \subseteq Graphs
    /\ crashed \in BOOLEAN

\* Whenever gnuplot gets to a command, the file it names and those of the curves
\* already in the plot, which "replot" reads again, are there and complete: the
\* session removes them after gnuplot has ended, and not before (gnuplot_i.c:146).
ReadsWhole ==
    [][\A g \in Graphs : shown'[g] # shown[g] =>
          \A i \in DOMAIN shown'[g] : shown'[g][i] \in files \cap filled]_vars

\* A chart that was closed is one image with every curve, in order, unless its
\* process or one of its files failed or it has too many curves (gnuplot_i.c:676).
Charts ==
    \A g \in Graphs :
        pc[g] = "closed" /\ g \notin failed \cup leaked /\ curves[g] < MaxTmp =>
            chart[g] = << [i \in 1..curves[g] |-> <<g, i>>] >>

\* A closed session leaves no temporary file behind, whatever failed, unless
\* pclose did ("otherwise temporary files are not cleaned", gnuplot_i.c:136).
NoLitter ==
    \A f \in files : pc[f[1]] = "closed" => f[1] \in leaked

\* Every chart is plotted and its session closed, unless gnuplot or a file fails.
PlotEnds == <>(failed # {} \/ \A g \in Graphs : pc[g] = "closed")
=============================================================================
