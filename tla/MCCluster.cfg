SPECIFICATION Spec
CONSTANTS
    s1 = s1
    s2 = s2
    s3 = s3
    Nodes <- MCNodes
    NSwitches = 2
    Scenarios <- MCScenarios
INVARIANTS Barrier NoLostWakeUp HeaderFirst SamplerDone WholePlot
PROPERTIES AllTakePart MasterEnds
\* The master returns or exits, and the slaves spin.
CHECK_DEADLOCK FALSE
