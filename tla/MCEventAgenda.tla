--------------------------- MODULE MCEventAgenda ---------------------------
(***************************************************************************)
(* Two plain events that share a bin, a managed event of a later priority  *)
(* and the limit event.                                                    *)
(***************************************************************************)
EXTENDS EventAgenda

CONSTANTS a, b, m, exit

MCEvent == {a, b, m, exit}

MCPriority ==
  [e \in MCEvent |-> CASE e = m -> 50 [] e = exit -> 100 [] OTHER -> 0]
=============================================================================
