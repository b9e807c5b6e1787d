------------------------------ MODULE MerkleLog ------------------------------
(***************************************************************************)
(* The Merkle log a sender shows, and the receiver who checks it.          *)
(*                                                                         *)
(* The sender's log grows, or is rewritten by whoever holds the file.  At  *)
(* each handover the receiver checks receipts against the head the bag     *)
(* came with, and a bridge from the head it kept the last time; a bridge   *)
(* that passes makes the new head the one it keeps.  The checks are loops  *)
(* over a path the sender made up, so they are modelled step by step, with *)
(* the sender choosing every hash it hands over.                           *)
(*                                                                         *)
(* A hash is the term it was computed from: SHA-256 collides on nothing,   *)
(* and the domain bytes 0x00 and 0x01 keep leaves and nodes apart.         *)
(***************************************************************************)
EXTENDS Naturals, Sequences, SequencesExt

CONSTANTS
    Entries,             \* log entries: accession, digest and time
    MaxSize,             \* bound on the length of a log
    Offered(_, _, _)     \* the hashes a sender may hand over next, of its log,
                         \* the log whose head was kept, and the check so far

ASSUME LogAssumption == MaxSize \in Nat

leaf_hash(e) == <<"leaf", e>>
node_hash(l, r) == <<"node", l, r>>
EmptyHash == <<"empty">>

-----------------------------------------------------------------------------
(* log.rs: the tree and the proofs an honest sender makes.  A slice of the
   leaves is the places it starts and ends at, counted from 0. *)

(* Mistaken: the tree is cut in the middle. *)
split_point_middle(width) == (width + 1) \div 2

split_point(width) ==
    LET doubled[split \in 1..width] ==
            IF split * 2 < width THEN doubled[split * 2] ELSE split
    IN  doubled[1]

Width(slice) == slice[2] - slice[1]
Cut(slice) == slice[1] + split_point(Width(slice))
Left(slice) == <<slice[1], Cut(slice)>>
Right(slice) == <<Cut(slice), slice[2]>>

Slices(leaves) == (0..Len(leaves)) \X (0..Len(leaves))
Whole(leaves) == <<0, Len(leaves)>>

(* The root over each slice. *)
Roots(leaves) ==
    LET over[slice \in Slices(leaves)] ==
            CASE Width(slice) <= 0 -> EmptyHash
              [] Width(slice) = 1 -> leaves[slice[2]]
              [] OTHER -> node_hash(over[Left(slice)], over[Right(slice)])
    IN  over

root(leaves) == Roots(leaves)[Whole(leaves)]

inclusion_proof(leaves, index) ==
    LET path[slice \in Slices(leaves)] ==
            IF Width(slice) <= 1 THEN <<>>
            ELSE IF index < Cut(slice)
            THEN Append(path[Left(slice)], Roots(leaves)[Right(slice)])
            ELSE Append(path[Right(slice)], Roots(leaves)[Left(slice)])
    IN  path[Whole(leaves)]

(* The slice the old log ends with is the old log itself where it starts with
   the first leaf, and then the reader holds its root. *)
consistency_proof(leaves, old) ==
    LET subproof[slice \in Slices(leaves)] ==
            IF old = slice[2] \/ Width(slice) <= 1
            THEN IF slice[1] = 0 THEN <<>> ELSE <<Roots(leaves)[slice]>>
            ELSE IF old <= Cut(slice)
            THEN Append(subproof[Left(slice)], Roots(leaves)[Right(slice)])
            ELSE Append(subproof[Right(slice)], Roots(leaves)[Left(slice)])
    IN  subproof[Whole(leaves)]

-----------------------------------------------------------------------------
(* log.rs: the loops of the two checks.  A check holds the hash it has come to
   (two of them for consistency), the place it is at and the last place of that
   level. *)

LevelUp(c) == [c EXCEPT !.at = @ \div 2, !.last = @ \div 2]

(* A node with no sibling is carried up until it is a right-hand one. *)
CarriedUp(c) ==
    LET up[p \in (0..c.at) \X (0..c.last)] ==
            IF p[1] # 0 /\ p[1] % 2 = 0 THEN up[<<p[1] \div 2, p[2] \div 2>>] ELSE p
    IN  [c EXCEPT !.at = up[<<c.at, c.last>>][1], !.last = up[<<c.at, c.last>>][2]]

JoinsFromLeft(c) == c.at % 2 = 1 \/ c.at = c.last

(* Mistaken: the hash handed over always goes to the right. *)
InclusionStepRight(c, step) == LevelUp([c EXCEPT !.new = node_hash(@, step)])

InclusionStep(c, step) ==
    IF JoinsFromLeft(c)
    THEN LevelUp(CarriedUp([c EXCEPT !.new = node_hash(step, @)]))
    ELSE LevelUp([c EXCEPT !.new = node_hash(@, step)])

ConsistencyStep(c, step) ==
    IF JoinsFromLeft(c)
    THEN LevelUp(CarriedUp([c EXCEPT !.new = node_hash(step, @),
                                     !.old = node_hash(step, @)]))
    ELSE LevelUp([c EXCEPT !.new = node_hash(@, step)])

(* The consistency check starts at the largest whole subtree the old log ends
   with. *)
WholeSubtree(c) ==
    LET up[p \in (0..c.at) \X (0..c.last)] ==
            IF p[1] % 2 = 1 THEN up[<<p[1] \div 2, p[2] \div 2>>] ELSE p
    IN  [c EXCEPT !.at = up[<<c.at, c.last>>][1], !.last = up[<<c.at, c.last>>][2]]

IsPowerOfTwo(n) == n = 1 \/ n = 2 * split_point(n)

InclusionStart(leaf, index, size) ==
    [check |-> "inclusion", old |-> EmptyHash, new |-> leaf, at |-> index,
     last |-> size - 1]
ConsistencyStart(seed, old, new) ==
    WholeSubtree([check |-> "consistency", old |-> seed, new |-> seed,
                  at |-> old - 1, last |-> new - 1])

(* The checks run to their end over a whole path: there is a step as long as
   the top is not reached, and none is left over. *)
verify_inclusion(leaf, index, size, path, head) ==
    LET run[k \in 0..Len(path)] ==
            IF k = 0 THEN InclusionStart(leaf, index, size)
            ELSE InclusionStep(run[k - 1], path[k])
    IN  /\ index < size
        /\ \A k \in 0..Len(path) : run[k].last = 0 <=> k = Len(path)
        /\ run[Len(path)].new = head

verify_consistency(old, old_root, new, new_root, path) ==
    LET sent == IsPowerOfTwo(old)
        seed == IF sent THEN old_root ELSE path[1]
        rest == IF sent THEN path ELSE Tail(path)
        run[k \in 0..Len(rest)] ==
            IF k = 0 THEN ConsistencyStart(seed, old, new)
            ELSE ConsistencyStep(run[k - 1], rest[k])
    IN  /\ 0 < old /\ old <= new
        /\ IF old = new THEN path = <<>> /\ old_root = new_root
           ELSE /\ sent \/ path # <<>>
                /\ \A k \in 0..Len(rest) : run[k].last = 0 <=> k = Len(rest)
                /\ run[Len(rest)].old = old_root /\ run[Len(rest)].new = new_root

-----------------------------------------------------------------------------
VARIABLES
    log,     \* the entries in the sender's log file
    kept,    \* the log whose head the receiver kept; empty when it kept none
    check,   \* the check the receiver is at
    claim    \* the entry and place the receipt at hand is about

vars == <<log, kept, check, claim>>

Leaves(entries) == [k \in 1..Len(entries) |-> leaf_hash(entries[k])]
HeadRoot(entries) == root(Leaves(entries))

NoCheck == [check |-> "none"]
NoClaim == [index |-> 0, size |-> 0]

Init ==
    /\ log = <<>>
    /\ kept = <<>>
    /\ check = NoCheck
    /\ claim = NoClaim

(* append_log *)
AppendEntry(e) ==
    /\ check = NoCheck /\ Len(log) < MaxSize
    /\ log' = Append(log, e)
    /\ claim' = NoClaim
    /\ UNCHANGED <<kept, check>>

(* What the checks are there to find: an entry replaced, or dropped. *)
Rewrite(k, e) ==
    /\ check = NoCheck
    /\ log' = ReplaceAt(log, k, e)
    /\ claim' = NoClaim
    /\ UNCHANGED <<kept, check>>

Drop(k) ==
    /\ check = NoCheck
    /\ log' = RemoveAt(log, k)
    /\ claim' = NoClaim
    /\ UNCHANGED <<kept, check>>

(* Receipt::check_path, on a receipt whose entry and index the sender chose. *)
CheckReceipt(e, index) ==
    /\ check = NoCheck
    /\ index < Len(log)
    /\ check' = InclusionStart(leaf_hash(e), index, Len(log))
    /\ claim' = [entry |-> e, index |-> index, size |-> 0]
    /\ UNCHANGED <<log, kept>>

ReceiptStep(step) ==
    /\ check.check = "inclusion" /\ check.last > 0
    /\ check' = InclusionStep(check, step)
    /\ UNCHANGED <<log, kept, claim>>

(* The receipt is accepted against a log of this size. *)
ReceiptAccepted ==
    /\ check.check = "inclusion" /\ check.last = 0
    /\ check.new = HeadRoot(log)
    /\ check' = NoCheck
    /\ claim' = [claim EXCEPT !.size = Len(log)]
    /\ UNCHANGED <<log, kept>>

(* deedar check --keep, the first time. *)
KeepFirst ==
    /\ check = NoCheck /\ kept = <<>> /\ log # <<>>
    /\ kept' = log
    /\ UNCHANGED <<log, check, claim>>

(* check_since: the bridge starts at the head kept and ends at the head the bag
   came with; a shrunk log is refused before the bridge is looked at.  Where the
   sizes are the same only one head passes, and nothing changes. *)
CheckSince(seed) ==
    /\ check = NoCheck /\ kept # <<>>
    /\ Len(kept) < Len(log)
    /\ IsPowerOfTwo(Len(kept)) => seed = HeadRoot(kept)
    /\ check' = ConsistencyStart(seed, Len(kept), Len(log))
    /\ claim' = NoClaim
    /\ UNCHANGED <<log, kept>>

BridgeStep(step) ==
    /\ check.check = "consistency" /\ check.last # 0
    /\ check' = ConsistencyStep(check, step)
    /\ UNCHANGED <<log, kept, claim>>

(* Mistaken: only the new root is compared. *)
BridgeAcceptedByNewRoot ==
    /\ check.check = "consistency" /\ check.last = 0
    /\ check.new = HeadRoot(log)
    /\ kept' = log
    /\ check' = NoCheck
    /\ UNCHANGED <<log, claim>>

BridgeAccepted ==
    /\ check.check = "consistency" /\ check.last = 0
    /\ check.old = HeadRoot(kept) /\ check.new = HeadRoot(log)
    /\ kept' = log
    /\ check' = NoCheck
    /\ UNCHANGED <<log, claim>>

(* A check that can get no further refuses. *)
Refuse ==
    /\ check # NoCheck
    /\ check' = NoCheck
    /\ claim' = NoClaim
    /\ UNCHANGED <<log, kept>>

Next ==
    \/ \E e \in Entries : AppendEntry(e)
    \/ \E k \in DOMAIN log, e \in Entries : Rewrite(k, e)
    \/ \E k \in DOMAIN log : Drop(k)
    \/ \E e \in Entries, index \in 0..(Len(log) - 1) : CheckReceipt(e, index)
    \/ check # NoCheck /\ \E h \in Offered(log, kept, check) : ReceiptStep(h) \/ BridgeStep(h)
    \/ ReceiptAccepted
    \/ KeepFirst
    \/ \E h \in Offered(log, kept, check) : CheckSince(h)
    \/ BridgeAccepted
    \/ Refuse

Spec == Init /\ [][Next]_vars

-----------------------------------------------------------------------------
(* receipt.rs: "the path ties entry to head".  Whatever path a sender makes up,
   a receipt is accepted only for the entry that is at that place of the log
   the head covers. *)
ReceiptsAreTrue ==
    claim.size > 0 => /\ claim.index < claim.size
                      /\ log[claim.index + 1] = claim.entry

(* log.rs: "a rewritten log cannot produce a set that yields both."  The log
   whose head a receiver keeps only ever grows, from one handover to the next,
   whatever was rewritten between them and whatever bridges came. *)
KeptLogOnlyGrows == [][IsPrefix(kept, kept')]_vars

(* The proofs inclusion_proof and consistency_proof make pass the checks, for
   every entry and every earlier size of every log: the loops of the checks and
   the recursion of the proofs agree on the shape of the tree. *)
HonestProofsPass ==
    LET leaves == Leaves(log)
        n == Len(log)
    IN  check = NoCheck =>
            /\ \A index \in 0..(n - 1) :
                  verify_inclusion(leaves[index + 1], index, n,
                                   inclusion_proof(leaves, index), root(leaves))
            /\ \A old \in 1..n :
                  verify_consistency(old, root(SubSeq(leaves, 1, old)), n, root(leaves),
                                     consistency_proof(leaves, old))

=============================================================================
