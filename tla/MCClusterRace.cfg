\* The parameter read at any time: a slave is never served.
SPECIFICATION Spec
CONSTANTS
    s1 = s1
    s2 = s2
    s3 = s3
    Nodes <- MCNodes
    NSwitches = 1
    Scenarios <- MCRace
PROPERTIES NodesServed
\* The master returns or exits, and the slaves spin.
CHECK_DEADLOCK FALSE
