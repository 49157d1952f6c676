------------------------------ MODULE MCCluster ------------------------------
(* Two or three slaves, one test or two of them each. *)
EXTENDS Cluster

CONSTANTS s1, s2, s3

\* Three slaves up to START, the parameter read at any time.
Three == [slaves |-> {s1, s2, s3}, testRange |-> FALSE, prompt |-> FALSE,
          heapEnds |-> {TRUE}, sampler |-> {"end"}, deaths |-> 0, reports |-> FALSE]

\* Two slaves, one test or two; one of them may die.
Two(range) == [slaves |-> {s1, s2}, testRange |-> range, prompt |-> TRUE,
               heapEnds |-> BOOLEAN, sampler |-> {"end"}, deaths |-> 1, reports |-> TRUE]

\* The same with a sampler that crashes, or may.
Crash(what) == [Two(FALSE) EXCEPT !.sampler = what]

\* Two slaves, the parameter read at any time.
Race == [Three EXCEPT !.slaves = {s1, s2}, !.reports = TRUE]

MCNodes == {s1, s2, s3}
MCScenarios == {Three, Race} \cup {Two(range) : range \in BOOLEAN}
                   \cup {Crash({"crash"}), Crash({"end", "crash"})}
MCRace == {Race}
=============================================================================
