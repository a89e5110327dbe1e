------------------------------ MODULE MCHarness ------------------------------
(* Two suggestions that get the same trial id, before and after a reset. *)
EXTENDS Harness

CONSTANTS s1, s2

MCIdOf == [s \in Suggestions |-> 1]

\* One suggestion with every mishap, or two that share an id without any.
MCCourses == {[made |-> {s1}, deaths |-> 2, faults |-> 2, resets |-> 1],
              [made |-> {s1, s2}, deaths |-> 0, faults |-> 0, resets |-> 1]}
=============================================================================
