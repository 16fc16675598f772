----------------------------- MODULE MCWriters -----------------------------
(***************************************************************************)
(* Writers for TLC: two detections in their order, model values for rows.  *)
(***************************************************************************)
EXTENDS Writers

CONSTANTS d1, d2

MCDetections == <<d1, d2>>
=============================================================================
