----------------------------- MODULE MemoryAccess -----------------------------
(***************************************************************************)
(* What the path between a requestor and a memory promises: the memory     *)
(* serves every request that is sent, once, and every request that needs a *)
(* response is answered, once and after it was served.                     *)
(***************************************************************************)
CONSTANTS Packet, needsResponse(_)

VARIABLE phase   \* where each request is: "new", "sent", "served" or "answered"

Final(p) == IF needsResponse(p) THEN "answered" ELSE "served"

Move(p, from, to) == phase[p] = from /\ phase' = [phase EXCEPT ![p] = to]

Init == phase = [p \in Packet |-> "new"]
Next == \E p \in Packet : \/ Move(p, "new", "sent")
                          \/ Move(p, "sent", "served")
                          \/ needsResponse(p) /\ Move(p, "served", "answered")

(* Of finitely many requests, in the end none is under way. *)
Delivery == <>[](\A p \in Packet : phase[p] \in {"new", Final(p)})

Spec == Init /\ [][Next]_phase /\ Delivery
=============================================================================
