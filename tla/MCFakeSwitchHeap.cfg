\* sendPortDesc starts as anything, and a handshake may begin again.
SPECIFICATION Spec
CONSTANTS
    Setups <- MCSetups
    Answers <- MCAnswers
    Unsolicited <- Kinds
    Verdict <- MCVerdict
    BufLen = 5
    ProbeSize = 2
    ReplySize = 1
    MaxSlips = 1
    MaxCtl = 2
    MaxOut = 2
    MaxCount = 1
INVARIANTS AwaitsPortDesc
\* It may stop: the controller can close the connection.
CHECK_DEADLOCK FALSE
