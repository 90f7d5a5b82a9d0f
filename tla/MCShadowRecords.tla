--------------------------- MODULE MCShadowRecords ---------------------------
(* Instances of ShadowRecords for TLC. *)
EXTENDS ShadowRecords

CONSTANTS update, get

AllFailing == {"subscribe", "unsubscribe", "publish"}
=============================================================================
