---------------------------- MODULE MCEventQueue ----------------------------
(***************************************************************************)
(* Two plain events and a managed event, which share the bin of a tick,    *)
(* and the limit event.                                                    *)
(***************************************************************************)
EXTENDS EventQueue, TLC

CONSTANTS a, b, m, exit

MCEvent == {a, b, m, exit}

\* The plain events are interchangeable.
PlainEvents == Permutations({a, b})

\* All but the limit event in one bin per tick.
SamePriority == [e \in MCEvent |-> IF e = exit THEN 100 ELSE 0]
=============================================================================
