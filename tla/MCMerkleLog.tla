----------------------------- MODULE MCMerkleLog -----------------------------
(* MerkleLog for TLC: entries that differ in nothing but their name, and the
   hashes a sender can usefully hand over. *)
EXTENDS MerkleLog, TLC

Symmetry == Permutations(Entries)

(* Every hash inside a root. *)
RECURSIVE Within(_)
Within(h) == {h} \cup IF h[1] = "node" THEN Within(h[2]) \cup Within(h[3]) ELSE {}

(* A check only ever wraps the hash it holds, so once that hash is not inside the
   new root it has to reach, the check is refused whatever follows: those paths
   are left out. *)
Useful(l, k, c) ==
    LET inside == Within(HeadRoot(l)) IN
    CASE c.check = "none" -> IF k = <<>> THEN {} ELSE inside
      [] c.check = "inclusion" -> {h \in inside : InclusionStep(c, h).new \in inside}
      [] OTHER -> {h \in inside : ConsistencyStep(c, h).new \in inside}

=============================================================================
