----------------------------- MODULE MCHandover -----------------------------
(* A deed (1), and a revision (2) that supersedes it and was made from it. *)
EXTENDS Handover

MCIds == 1..2
MCBodies == {"a", "b"}
MCDraft == [i \in MCIds |->
    [id |-> i, body |-> IF i = 1 THEN "a" ELSE "b",
     sources |-> IF i = 2 THEN {1} ELSE {}]]
MCPrior == [i \in MCIds |-> IF i = 2 THEN 1 ELSE 0]
MCSentAt == [i \in MCIds |-> 1]
MCExports == (SUBSET MCIds) \ {{}}

(* The receiver makes the revision itself, or another deed under 1. *)
MCLocals == {[deed |-> MCDraft[2], prior |-> 1, time |-> 1],
             [deed |-> [MCDraft[1] EXCEPT !.body = "b"], prior |-> 0, time |-> 2]}
=============================================================================
