------------------------------ MODULE MCUsage ------------------------------
(* Requests of one API key: a video and a streaming body for the races     *)
(* between calls and polls, plain bodies for the money.                    *)
EXTENDS Usage, TLC

CONSTANTS video, stream, plain, MCEstimate

KindOf == video :> "video" @@ stream :> "stream" @@ plain :> "plain"
MCKind == [i \in Input |-> KindOf[i]]
MCEstimates == [r \in Request |-> MCEstimate]
Symmetry == Permutations(Request) \cup Permutations(Correction)
=============================================================================
