----------------------------- MODULE MCDeedStore -----------------------------
(* Instances of DeedStore for TLC. *)
EXTENDS DeedStore, TLC

CONSTANTS p1, p2, b1, b2

D(i, b, from) == [id |-> i, body |-> b, sources |-> from]
R(d, prior) == [deed |-> d, supersedes |-> prior]

(* Every process works on every accession. *)
EveryReach == [p \in Procs |-> Ids]

(* One accession asked for with two bodies, a deed made from it and superseding
   it, a third that supersedes either, and the first again, to close a circle. *)
OneRequests ==
    {R(D(1, b1, {}), NoId), R(D(1, b2, {}), NoId), R(D(1, b1, {}), 2),
     R(D(2, b2, {1}), 1), R(D(3, b1, {}), 1), R(D(3, b1, {}), 2)}

(* Two processes on accessions of their own; the second one's deed is made
   from the first one's. *)
ApartRequests ==
    {R(D(1, b1, {}), NoId), R(D(1, b2, {}), NoId), R(D(2, b2, {1}), NoId)}
ApartReach == (p1 :> {1}) @@ (p2 :> {2})

(* Two processes on the same accessions: each may make the first deed and the
   second one, which supersedes it. *)
SharedRequests ==
    {R(D(1, b1, {}), NoId), R(D(2, b2, {1}), 1)}

(* One accession asked for with two bodies. *)
RivalRequests == {R(D(1, b1, {}), NoId), R(D(1, b2, {}), NoId)}

(* Two processes with one and the same request. *)
SameRequests == {R(D(1, b1, {}), NoId)}

=============================================================================
