---------------------------- MODULE DeedRegistry ----------------------------
(***************************************************************************)
(* What a store promises its readers, with no files in it.  An accession   *)
(* is frozen once; then its evidence is issued once, it may be succeeded   *)
(* once, and it may be buried.  The log only grows, and an entry names a   *)
(* deed as it was frozen.  DeedStore is shown to implement this while no   *)
(* accession is worked on by two processes.                                *)
(***************************************************************************)
EXTENDS Naturals, Sequences

CONSTANTS Ids, Deeds, Times, NoId, NoDeed

VARIABLES
    frozen,     \* the deed under each accession, or NoDeed
    issued,     \* the time of its evidence, or 0
    successor,  \* the accession that superseded it, or NoId
    buried,     \* accessions with a tombstone
    entries     \* the log

vars == <<frozen, issued, successor, buried, entries>>

Init ==
    /\ frozen = [i \in Ids |-> NoDeed]
    /\ issued = [i \in Ids |-> 0]
    /\ successor = [i \in Ids |-> NoId]
    /\ buried = {}
    /\ entries = <<>>

Known == {i \in Ids : frozen[i] # NoDeed}

Freeze(i, d) ==
    /\ i \notin Known \cup buried
    /\ d.id = i
    /\ frozen' = [frozen EXCEPT ![i] = d]
    /\ UNCHANGED <<issued, successor, buried, entries>>

Issue(i, t) ==
    /\ i \in Known /\ issued[i] = 0
    /\ issued' = [issued EXCEPT ![i] = t]
    /\ UNCHANGED <<frozen, successor, buried, entries>>

Succeed(i, j) ==
    /\ {i, j} \subseteq Known /\ i # j
    /\ successor[i] = NoId
    /\ successor' = [successor EXCEPT ![i] = j]
    /\ UNCHANGED <<frozen, issued, buried, entries>>

Bury(i) ==
    /\ i \in Known
    /\ buried' = buried \cup {i}
    /\ UNCHANGED <<frozen, issued, successor, entries>>

Enter(i, t) ==
    /\ i \in Known
    /\ entries' = Append(entries, [id |-> i, digest |-> [sha256 |-> frozen[i]],
                                   time |-> t])
    /\ UNCHANGED <<frozen, issued, successor, buried>>

Next ==
    \E i \in Ids :
        \/ \E d \in Deeds : Freeze(i, d)
        \/ \E t \in Times : Issue(i, t) \/ Enter(i, t)
        \/ \E j \in Ids : Succeed(i, j)
        \/ Bury(i)

Spec == Init /\ [][Next]_vars

=============================================================================
