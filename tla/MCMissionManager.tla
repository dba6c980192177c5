--------------------------- MODULE MCMissionManager ---------------------------
(* Small instances of MissionManager. *)
EXTENDS MissionManager

CONSTANTS l1, l2, g1, g2

\* One link that receives everything
MCOneLink == [l \in {l1} |-> MessageKinds]
MCUploadOrTimeout == [l \in {l1} |-> {"COUNT", "ITEM", "TIMEOUT"}]
MCUploadOnly == [l \in {l1} |-> {"COUNT", "ITEM"}]
\* Two links that contend for uploads
MCContend == [l \in {l1, l2} |-> {"COUNT", "ITEM", "CLEAR_ALL", "SET_CURRENT", "TIMEOUT"}]
=============================================================================
