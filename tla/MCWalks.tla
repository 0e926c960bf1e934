------------------------------- MODULE MCWalks -------------------------------
(* A service has one parser (server.go:203): the walk is IoElement's, through *)
(* each of its packets, or GryphonFrame's, through each two Reads.            *)
EXTENDS MCIoElement, MCGryphonFrame

VARIABLE parser  \* "Teltonika" or "GryphonPro"

\* IoElement's packet stays as it is while GryphonFrame walks.
Unread == CHOOSE p \in Variable8E : TRUE

WalksInit ==
    /\ Init /\ FrameInit
    /\ parser \in {"Teltonika", "GryphonPro"}
    /\ parser = "GryphonPro" => packet = Unread

CodecWalk == parser = "Teltonika" /\ Next /\ UNCHANGED <<frameVars, parser>>
FrameWalk == parser = "GryphonPro" /\ FrameNext /\ UNCHANGED <<vars, parser>>

WalksSpec ==
    /\ WalksInit
    /\ [][CodecWalk \/ FrameWalk]_<<vars, frameVars, parser>>
    /\ WF_<<vars, frameVars, parser>>(CodecWalk)
=============================================================================
