------------------------------- MODULE MCMemPath -------------------------------
(***************************************************************************)
(* Two requestors with two requests each; the last one is a writeback,     *)
(* which needs no response.                                                *)
(***************************************************************************)
EXTENDS MemPath

MCPacket == 1 .. 4
MCOwner(p) == IF p <= 2 THEN "r1" ELSE "r2"
MCNeedsResponse(p) == p # 4
=============================================================================
