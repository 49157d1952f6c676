\* Both versions and modes, a controller that answers probes with flow_mods and packet_outs and sends anything.
SPECIFICATION Spec
CONSTANTS
    Setups <- MCSetups
    Answers <- MCAnswers
    Unsolicited <- Kinds
    Verdict <- MCVerdict
    BufLen = 5
    ProbeSize = 2
    ReplySize = 1
    MaxSlips = 1
    MaxCtl = 2
    MaxOut = 2
    MaxCount = 1
INVARIANTS NoStall LatencyFlag HandshakeOrder Pipelining
PROPERTIES KeepsFull ProbeEnds HandshakeEnds
\* It may stop: the controller can close the connection.
CHECK_DEADLOCK FALSE
