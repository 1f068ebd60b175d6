--------------------------- MODULE MCScanControl ---------------------------
(* Instances of ScanControl for TLC. *)
EXTENDS ScanControl, TLC

CONSTANTS scan, watch, repair, clear

KindOf == scan :> "SCAN" @@ watch :> "WATCH"
            @@ repair :> "REPAIR" @@ clear :> "CLEAR"
MCKind == [o \in Ops |-> KindOf[o]]
=============================================================================
