--------------------------- MODULE MerkleLogProofs ---------------------------
(***************************************************************************)
(* What the checks of receipts and bridges establish, for logs of any size *)
(* and whatever hashes a sender hands over, and that the proofs of an      *)
(* honest sender pass them.                                                *)
(***************************************************************************)
EXTENDS MerkleLog, WellFoundedInduction, TLAPS

-----------------------------------------------------------------------------
(* Induction, on the set of the numbers a claim holds for. *)

LEMMA Least ==
    ASSUME NEW T \in SUBSET Nat, T # {}
    PROVE  \E n \in T : \A m \in T : n <= m
<1> DEFINE R == {ss \in Nat \X Nat : ss[1] < ss[2]}
<1>1. IsWellFoundedOn(R, Nat)
  BY NatLessThanWellFounded, Zenon DEF OpToRel
<1> HIDE DEF R
<1>2. PICK x \in T : \A y \in T : ~ (<<y, x>> \in R)
  BY <1>1, WFMin
<1>3. \A y \in T : ~(y < x)
  BY <1>2 DEF R
<1> QED
  BY <1>3

LEMMA Induction ==
    ASSUME NEW S, \A n \in Nat : (\A m \in 0..(n - 1) : m \in S) => n \in S
    PROVE  Nat \subseteq S
<1>1. SUFFICES ASSUME Nat \ S # {} PROVE FALSE
  OBVIOUS
<1>2. PICK n \in Nat \ S : \A m \in Nat \ S : n <= m
  BY <1>1, Least
<1>3. \A m \in 0..(n - 1) : m \in S
  BY <1>2
<1> QED
  BY <1>2, <1>3

LEMMA StepInduction ==
    ASSUME NEW S, 0 \in S, \A n \in Nat : n \in S => n + 1 \in S
    PROVE  Nat \subseteq S
<1>1. ASSUME NEW n \in Nat, \A m \in 0..(n - 1) : m \in S PROVE n \in S
  <2>1. CASE n = 0
    BY <2>1
  <2>2. CASE n # 0
    <3>1. n - 1 \in Nat /\ n - 1 \in 0..(n - 1) /\ (n - 1) + 1 = n
      BY <2>2
    <3>2. (n - 1) + 1 \in S
      BY <1>1, <3>1
    <3> QED
      BY <3>1, <3>2
  <2> QED
    BY <2>1, <2>2
<1> QED
  BY <1>1, Induction

-----------------------------------------------------------------------------
(* Where the tree is cut. *)

(* The powers of two: what doubling 1 reaches. *)
Powers == {b \in Nat : \A S \in SUBSET Nat : 1 \in S /\ (\A x \in S : x * 2 \in S) => b \in S}

LEMMA PowersDouble ==
    /\ 1 \in Powers
    /\ \A b \in Powers : b \in Nat /\ b # 0 /\ b * 2 \in Powers
<1>1. 1 \in Powers
  BY DEF Powers
<1>2. ASSUME NEW b \in Powers PROVE b * 2 \in Powers
  <2>1. b \in Nat
    BY DEF Powers
  <2>2. ASSUME NEW S \in SUBSET Nat, 1 \in S, \A x \in S : x * 2 \in S PROVE b * 2 \in S
    <3>1. b \in S
      BY <2>2 DEF Powers
    <3> QED
      BY <2>2, <3>1
  <2>3. b * 2 \in Nat
    BY <2>1
  <2> QED
    BY <2>2, <2>3 DEF Powers
<1>3. ASSUME NEW b \in Powers PROVE b \in Nat /\ b # 0
  <2>1. Nat \ {0} \in SUBSET Nat /\ 1 \in Nat \ {0} /\ \A x \in Nat \ {0} : x * 2 \in Nat \ {0}
    OBVIOUS
  <2> QED
    BY <2>1 DEF Powers
<1> QED
  BY <1>1, <1>2, <1>3

LEMMA PowersOnly ==
    ASSUME NEW S \in SUBSET Nat, 1 \in S, \A x \in S : x * 2 \in S
    PROVE  Powers \subseteq S
  BY DEF Powers

Doubled(width, d) == [split \in 1..width |-> IF split * 2 < width THEN d[split * 2] ELSE split]

LEMMA DoublingEnds ==
    ASSUME NEW width \in Nat
    PROVE  \E d : d = Doubled(width, d)
<1> DEFINE
      T == {n \in Nat : \E d : \A s \in 1..width : width - s <= n => d[s] = Doubled(width, d)[s]}
<1>1. 0 \in T
  <2>1. PICK d : d = [s \in 1..width |-> s]
    OBVIOUS
  <2>2. \A s \in 1..width : width - s <= 0 => d[s] = Doubled(width, d)[s]
    BY <2>1 DEF Doubled
  <2> QED
    BY <2>2
<1>2. ASSUME NEW n \in Nat, n \in T PROVE n + 1 \in T
  <2>1. PICK d : \A s \in 1..width : width - s <= n => d[s] = Doubled(width, d)[s]
    BY <1>2
  <2>2. PICK e : e = Doubled(width, d)
    OBVIOUS
  <2>3. ASSUME NEW s \in 1..width, width - s <= n + 1 PROVE e[s] = Doubled(width, e)[s]
    <3>1. CASE s * 2 < width
      <4>1. s * 2 \in 1..width /\ width - s * 2 <= n
        BY <2>3, <3>1
      <4>2. e[s * 2] = d[s * 2]
        BY <2>1, <2>2, <4>1
      <4> QED
        BY <2>2, <3>1, <4>2 DEF Doubled
    <3>2. CASE ~(s * 2 < width)
      BY <2>2, <3>2 DEF Doubled
    <3> QED
      BY <3>1, <3>2
  <2>4. \A s \in 1..width : width - s <= n + 1 => e[s] = Doubled(width, e)[s]
    BY <2>3
  <2> QED
    BY <2>4
<1>3. width \in T
  <2> HIDE DEF T
  <2> QED
    BY <1>1, <1>2, StepInduction
<1>4. PICK d : \A s \in 1..width : width - s <= width => d[s] = Doubled(width, d)[s]
  BY <1>3
<1>5. PICK e : e = [s \in 1..width |-> d[s]]
  OBVIOUS
<1>6. \A s \in 1..width : e[s] = Doubled(width, e)[s]
  BY <1>4, <1>5 DEF Doubled
<1> QED
  BY <1>5, <1>6 DEF Doubled

LEMMA SplitPointDoubles ==
    ASSUME NEW width \in Nat
    PROVE  \E d : /\ split_point(width) = d[1]
                 /\ \A s \in 1..width : d[s] = IF s * 2 < width THEN d[s * 2] ELSE s
<1> DEFINE d == CHOOSE d : d = Doubled(width, d)
<1>1. split_point(width) = d[1]
  BY DEF split_point, Doubled
<1>2. d = Doubled(width, d)
  BY DoublingEnds
<1> HIDE DEF d
<1>3. \A s \in 1..width : d[s] = Doubled(width, d)[s]
  BY <1>2
<1>4. \A s \in 1..width : d[s] = IF s * 2 < width THEN d[s * 2] ELSE s
  BY <1>3 DEF Doubled
<1> QED
  BY <1>1, <1>4

(* The largest power of two below the width. *)
LEMMA SplitPoint ==
    ASSUME NEW width \in Nat, NEW b \in Powers, b < width, width <= b * 2
    PROVE  split_point(width) = b
<1>1. PICK d : /\ split_point(width) = d[1]
               /\ \A s \in 1..width : d[s] = IF s * 2 < width THEN d[s * 2] ELSE s
  BY SplitPointDoubles
<1> DEFINE S == {p \in Nat : p = 0 \/ (p < width => d[p] = d[1])}
<1>2. 1 \in S
  OBVIOUS
<1>3. ASSUME NEW p \in S PROVE p * 2 \in S
  <2>1. CASE p # 0 /\ p * 2 < width
    <3>1. p \in 1..width /\ p < width
      BY <2>1
    <3> QED
      BY <1>1, <2>1, <3>1
  <2>2. CASE ~(p # 0 /\ p * 2 < width)
    BY <2>2
  <2> QED
    BY <2>1, <2>2
<1>4. b \in S /\ b \in Nat /\ b # 0
  <2> HIDE DEF S
  <2>1. S \in SUBSET Nat
    BY DEF S
  <2> QED
    BY <1>2, <1>3, <2>1, PowersOnly, PowersDouble
<1>5. d[b] = b
  <2>1. b \in 1..width /\ ~(b * 2 < width)
    BY <1>4
  <2> QED
    BY <1>1, <2>1
<1> QED
  BY <1>1, <1>4, <1>5

LEMMA Splits ==
    ASSUME NEW width \in Nat, width > 1
    PROVE  /\ split_point(width) \in Powers
           /\ split_point(width) < width /\ width <= split_point(width) * 2
<1>1. PICK d : /\ split_point(width) = d[1]
               /\ \A s \in 1..width : d[s] = IF s * 2 < width THEN d[s * 2] ELSE s
  BY SplitPointDoubles
<1> DEFINE
      Good(s) == d[s] \in Powers /\ d[s] < width /\ width <= d[s] * 2
      T == {n \in Nat : \A s \in Powers : s < width /\ width - s <= n => Good(s)}
<1>2. ASSUME NEW n \in Nat, \A m \in 0..(n - 1) : m \in T PROVE n \in T
  <2>1. ASSUME NEW s \in Powers, s < width, width - s <= n PROVE Good(s)
    <3>1. s \in Nat /\ s # 0 /\ s * 2 \in Powers /\ s \in 1..width
      BY <2>1, PowersDouble
    <3>2. CASE s * 2 < width
      <4>1. n - 1 \in T /\ width - s * 2 <= n - 1
        BY <1>2, <2>1, <3>1, <3>2
      <4>2. Good(s * 2)
        BY <3>1, <3>2, <4>1
      <4> QED
        BY <1>1, <3>1, <3>2, <4>2
    <3>3. CASE ~(s * 2 < width)
      BY <1>1, <2>1, <3>1, <3>3
    <3> QED
      BY <3>2, <3>3
  <2> QED
    BY <2>1
<1>3. width \in T
  <2> HIDE DEF T
  <2> QED
    BY <1>2, Induction
<1> QED
  BY <1>1, <1>3, PowersDouble

-----------------------------------------------------------------------------
(* The roots over slices. *)

RootsBy(leaves, over) ==
    [slice \in Slices(leaves) |->
        CASE Width(slice) <= 0 -> EmptyHash
          [] Width(slice) = 1 -> leaves[slice[2]]
          [] OTHER -> node_hash(over[Left(slice)], over[Right(slice)])]

(* A slice of two or more leaves is cut into two that are not empty. *)
LEMMA CutsInside ==
    ASSUME NEW leaves, Len(leaves) \in Nat, NEW slice \in Slices(leaves), Width(slice) > 1
    PROVE  /\ Left(slice) \in Slices(leaves) /\ Right(slice) \in Slices(leaves)
           /\ 0 < Width(Left(slice)) /\ Width(Left(slice)) < Width(slice)
           /\ 0 < Width(Right(slice)) /\ Width(Right(slice)) < Width(slice)
           /\ Cut(slice) \in Nat /\ slice[1] < Cut(slice) /\ Cut(slice) < slice[2]
<1>1. PICK from \in 0..Len(leaves), to \in 0..Len(leaves) : slice = <<from, to>>
  BY DEF Slices
<1>2. to - from \in Nat /\ to - from > 1
  BY <1>1 DEF Width
<1>3. PICK b \in Nat : b = split_point(to - from) /\ b # 0 /\ b < to - from
  BY <1>2, Splits, PowersDouble
<1>4. Cut(slice) = from + b
  BY <1>1, <1>3 DEF Cut, Width
<1>5. Left(slice) = <<from, from + b>> /\ Right(slice) = <<from + b, to>>
  BY <1>1, <1>4 DEF Left, Right
<1>6. from + b \in 0..Len(leaves)
  BY <1>1, <1>3
<1> QED
  BY <1>1, <1>3, <1>4, <1>5, <1>6 DEF Slices, Width

LEMMA RootsEnd ==
    ASSUME NEW leaves, Len(leaves) \in Nat
    PROVE  \E over : over = RootsBy(leaves, over)
<1> DEFINE
      Ok(over, n) == \A slice \in Slices(leaves) :
                         Width(slice) <= n => over[slice] = RootsBy(leaves, over)[slice]
      T == {n \in Nat : \E over : Ok(over, n)}
<1>1. 0 \in T
  <2>1. PICK over : over = [slice \in Slices(leaves) |-> EmptyHash]
    OBVIOUS
  <2>2. Ok(over, 0)
    BY <2>1 DEF RootsBy
  <2> QED
    BY <2>2
<1>2. ASSUME NEW n \in Nat, n \in T PROVE n + 1 \in T
  <2>1. PICK over : Ok(over, n)
    BY <1>2
  <2>2. PICK more : more = RootsBy(leaves, over)
    OBVIOUS
  <2>3. ASSUME NEW slice \in Slices(leaves), Width(slice) <= n + 1
        PROVE  more[slice] = RootsBy(leaves, more)[slice]
    <3>0. Width(slice) \in Int
      BY DEF Slices, Width
    <3>1. CASE Width(slice) > 1
      <4>1. /\ Left(slice) \in Slices(leaves) /\ Width(Left(slice)) <= n
            /\ Right(slice) \in Slices(leaves) /\ Width(Right(slice)) <= n
        <5>1. Width(Left(slice)) \in Int /\ Width(Right(slice)) \in Int
          BY <3>1, CutsInside DEF Slices, Width
        <5> QED
          BY <2>3, <3>0, <3>1, <5>1, CutsInside
      <4>2. more[Left(slice)] = over[Left(slice)] /\ more[Right(slice)] = over[Right(slice)]
        BY <2>1, <2>2, <4>1
      <4> QED
        BY <2>2, <4>2 DEF RootsBy
    <3>2. CASE ~(Width(slice) > 1)
      BY <2>2, <3>0, <3>2 DEF RootsBy
    <3> QED
      BY <3>1, <3>2
  <2>4. Ok(more, n + 1)
    BY <2>3
  <2> HIDE DEF Ok
  <2> QED
    BY <2>4
<1>3. Len(leaves) \in T
  <2> HIDE DEF T
  <2> QED
    BY <1>1, <1>2, StepInduction
<1>4. PICK over : Ok(over, Len(leaves))
  BY <1>3
<1>5. \A slice \in Slices(leaves) : Width(slice) <= Len(leaves)
  BY DEF Slices, Width
<1>6. PICK all : all = [slice \in Slices(leaves) |-> over[slice]]
  OBVIOUS
<1>7. ASSUME NEW slice \in Slices(leaves) PROVE all[slice] = RootsBy(leaves, all)[slice]
  <2>0. over[slice] = RootsBy(leaves, over)[slice] /\ Width(slice) \in Int
    BY <1>4, <1>5 DEF Slices, Width
  <2>1. CASE Width(slice) > 1
    <3>1. all[Left(slice)] = over[Left(slice)] /\ all[Right(slice)] = over[Right(slice)]
      BY <1>6, <2>1, CutsInside
    <3> QED
      BY <1>6, <2>0, <3>1 DEF RootsBy
  <2>2. CASE ~(Width(slice) > 1)
    BY <1>6, <2>0, <2>2 DEF RootsBy
  <2> QED
    BY <2>1, <2>2
<1> QED
  BY <1>6, <1>7 DEF RootsBy

LEMMA RootsRecur ==
    ASSUME NEW leaves, Len(leaves) \in Nat
    PROVE  Roots(leaves) = RootsBy(leaves, Roots(leaves))
  BY RootsEnd DEF Roots, RootsBy

LEMMA RootOfLeaf ==
    ASSUME NEW leaves, Len(leaves) \in Nat, NEW k \in 0..(Len(leaves) - 1)
    PROVE  Roots(leaves)[<<k, k + 1>>] = leaves[k + 1]
<1>1. <<k, k + 1>> \in Slices(leaves) /\ Width(<<k, k + 1>>) = 1
  BY DEF Slices, Width
<1>2. Roots(leaves)[<<k, k + 1>>] = RootsBy(leaves, Roots(leaves))[<<k, k + 1>>]
  BY RootsRecur
<1> QED
  BY <1>1, <1>2 DEF RootsBy

LEMMA RootOfNode ==
    ASSUME NEW leaves, Len(leaves) \in Nat,
           NEW from \in 0..Len(leaves), NEW to \in 0..Len(leaves),
           NEW b \in Powers, b < to - from, to - from <= b * 2
    PROVE  Roots(leaves)[<<from, to>>] =
               node_hash(Roots(leaves)[<<from, from + b>>], Roots(leaves)[<<from + b, to>>])
<1>1. b \in Nat /\ b # 0
  BY PowersDouble
<1>2. to - from \in Nat /\ to - from > 1
  BY <1>1
<1>3. <<from, to>> \in Slices(leaves) /\ Width(<<from, to>>) = to - from
  BY DEF Slices, Width
<1>4. split_point(to - from) = b
  BY <1>2, SplitPoint
<1>5. Left(<<from, to>>) = <<from, from + b>> /\ Right(<<from, to>>) = <<from + b, to>>
  BY <1>3, <1>4 DEF Left, Right, Cut
<1>6. Roots(leaves)[<<from, to>>] = RootsBy(leaves, Roots(leaves))[<<from, to>>]
  BY RootsRecur
<1> QED
  BY <1>2, <1>3, <1>5, <1>6 DEF RootsBy

LEMMA NodesApart ==
    \A l, r, x, y : node_hash(l, r) = node_hash(x, y) => l = x /\ r = y
<1>1. ASSUME NEW l, NEW r, NEW x, NEW y, <<"node", l, r>> = <<"node", x, y>>
      PROVE  l = x /\ r = y
  BY <1>1
<1> QED
  BY <1>1 DEF node_hash

(* Two slices of the same places and one root are the same leaves: SHA-256 has
   no collisions, and the shape of a tree is the slice's alone. *)
LEMMA OneRootOneSlice ==
    ASSUME NEW leaves, Len(leaves) \in Nat, NEW others, Len(others) \in Nat,
           NEW from \in Nat, NEW to \in Nat, to <= Len(leaves), to <= Len(others),
           Roots(leaves)[<<from, to>>] = Roots(others)[<<from, to>>]
    PROVE  \A k \in (from + 1)..to : leaves[k] = others[k]
<1> DEFINE
      Claim(f, t) == Roots(leaves)[<<f, t>>] = Roots(others)[<<f, t>>] =>
                         \A k \in (f + 1)..t : leaves[k] = others[k]
      T == {n \in Nat : \A f, t \in Nat : t <= to /\ t - f <= n => Claim(f, t)}
<1>1. ASSUME NEW n \in Nat, \A m \in 0..(n - 1) : m \in T PROVE n \in T
  <2>1. ASSUME NEW f \in Nat, NEW t \in Nat, t <= to, t - f <= n,
               Roots(leaves)[<<f, t>>] = Roots(others)[<<f, t>>],
               NEW k \in (f + 1)..t
        PROVE  leaves[k] = others[k]
    <3>1. CASE t - f = 1
      <4>1. k = t /\ t = f + 1 /\ f \in 0..(Len(leaves) - 1) /\ f \in 0..(Len(others) - 1)
        BY <2>1, <3>1
      <4> QED
        BY <2>1, <4>1, RootOfLeaf
    <3>2. CASE t - f > 1
      <4>1. PICK b \in Powers : b < t - f /\ t - f <= b * 2 /\ b \in Nat /\ b # 0
        BY <3>2, Splits, PowersDouble
      <4>2. /\ Roots(leaves)[<<f, t>>] =
                   node_hash(Roots(leaves)[<<f, f + b>>], Roots(leaves)[<<f + b, t>>])
            /\ Roots(others)[<<f, t>>] =
                   node_hash(Roots(others)[<<f, f + b>>], Roots(others)[<<f + b, t>>])
        <5>1. f \in 0..Len(leaves) /\ t \in 0..Len(leaves)
          BY <2>1, <3>2
        <5>2. f \in 0..Len(others) /\ t \in 0..Len(others)
          BY <2>1, <3>2
        <5> QED
          BY <4>1, <5>1, <5>2, RootOfNode
      <4>3. /\ Roots(leaves)[<<f, f + b>>] = Roots(others)[<<f, f + b>>]
            /\ Roots(leaves)[<<f + b, t>>] = Roots(others)[<<f + b, t>>]
        <5>1. node_hash(Roots(leaves)[<<f, f + b>>], Roots(leaves)[<<f + b, t>>]) =
                  node_hash(Roots(others)[<<f, f + b>>], Roots(others)[<<f + b, t>>])
          BY <2>1, <4>2
        <5> QED
          BY <5>1, NodesApart
      <4>4. n - 1 \in T
        <5>1. n - 1 \in 0..(n - 1)
          BY <2>1, <3>2
        <5> HIDE DEF T
        <5> QED
          BY <1>1, <5>1
      <4>5. Claim(f, f + b) /\ Claim(f + b, t)
        BY <2>1, <4>1, <4>4
      <4>6. k \in (f + 1)..(f + b) \/ k \in (f + b + 1)..t
        BY <4>1
      <4> QED
        BY <4>3, <4>5, <4>6
    <3> QED
      BY <2>1, <3>1, <3>2
  <2> QED
    BY <2>1
<1>2. \A f, t \in Nat : t <= to /\ t - f <= to => Claim(f, t)
  <2>1. to \in T
    <3> HIDE DEF T
    <3> QED
      BY <1>1, Induction
  <2> QED
    BY <2>1
<1>3. Claim(from, to)
  <2>1. to - from <= to
    OBVIOUS
  <2> HIDE DEF Claim
  <2> QED
    BY <1>2, <2>1
<1> QED
  BY <1>3

-----------------------------------------------------------------------------
(* Where a check is after the rounds of a loop. *)

(* Both places are halved as long as the pair of them is in `go`. *)
HalvedWhile(go, at, last, up) ==
    [p \in (0..at) \X (0..last) |->
        IF p \in go THEN up[<<p[1] \div 2, p[2] \div 2>>] ELSE p]

LEMMA HalvingEnds ==
    ASSUME NEW at \in Nat, NEW last \in Nat, NEW go,
           \A p \in (0..at) \X (0..last) : p \in go => p[1] # 0
    PROVE  \E up : up = HalvedWhile(go, at, last, up)
<1> DEFINE
      D == (0..at) \X (0..last)
      Ok(up, n) == \A p \in D : p[1] <= n => up[p] = HalvedWhile(go, at, last, up)[p]
      T == {n \in Nat : \E up : Ok(up, n)}
<1>0. \A p \in D : /\ p[1] \in Nat /\ p[1] <= at
                   /\ p[1] # 0 => p[1] \div 2 < p[1] /\ <<p[1] \div 2, p[2] \div 2>> \in D
  <2>1. ASSUME NEW a \in 0..at, NEW l \in 0..last
        PROVE  a # 0 => a \div 2 < a /\ a \div 2 \in 0..at /\ l \div 2 \in 0..last
    OBVIOUS
  <2> QED
    BY <2>1
<1>1. 0 \in T
  <2>1. PICK up : up = [p \in D |-> p]
    OBVIOUS
  <2>2. Ok(up, 0)
    BY <1>0, <2>1 DEF HalvedWhile
  <2> QED
    BY <2>2
<1>2. ASSUME NEW n \in Nat, n \in T PROVE n + 1 \in T
  <2>1. PICK up : Ok(up, n)
    BY <1>2
  <2>2. PICK more : more = HalvedWhile(go, at, last, up)
    OBVIOUS
  <2>3. ASSUME NEW p \in D, p[1] <= n + 1 PROVE more[p] = HalvedWhile(go, at, last, more)[p]
    <3>1. CASE p \in go
      <4>1. PICK q \in D : q = <<p[1] \div 2, p[2] \div 2>> /\ q[1] <= n
        <5>1. <<p[1] \div 2, p[2] \div 2>> \in D /\ p[1] \div 2 <= n
          BY <1>0, <2>3, <3>1
        <5> QED
          BY <5>1
      <4>2. more[q] = up[q]
        BY <2>1, <2>2, <4>1
      <4> QED
        BY <2>2, <3>1, <4>1, <4>2 DEF HalvedWhile
    <3>2. CASE ~(p \in go)
      BY <2>2, <3>2 DEF HalvedWhile
    <3> QED
      BY <3>1, <3>2
  <2>4. Ok(more, n + 1)
    BY <2>3
  <2> HIDE DEF Ok
  <2> QED
    BY <2>4
<1>3. at \in T
  <2> HIDE DEF T
  <2> QED
    BY <1>1, <1>2, StepInduction
<1>4. PICK up : Ok(up, at)
  BY <1>3
<1>5. PICK all : all = [p \in D |-> up[p]]
  OBVIOUS
<1>6. ASSUME NEW p \in D PROVE all[p] = HalvedWhile(go, at, last, all)[p]
  <2>1. up[p] = HalvedWhile(go, at, last, up)[p]
    BY <1>0, <1>4
  <2>2. p[1] # 0 => all[<<p[1] \div 2, p[2] \div 2>>] = up[<<p[1] \div 2, p[2] \div 2>>]
    BY <1>0, <1>5
  <2> QED
    BY <1>5, <2>1, <2>2 DEF HalvedWhile
<1>7. PICK round : round = HalvedWhile(go, at, last, all)
  OBVIOUS
<1>8. round = [p \in D |-> round[p]]
  BY <1>7 DEF HalvedWhile
<1>9. \A p \in D : all[p] = round[p]
  BY <1>6, <1>7
<1>10. all = round
  BY <1>5, <1>8, <1>9
<1> QED
  BY <1>7, <1>10

(* A right-hand node stays; the last node of a level is carried up to where it is a
   right-hand one, over leaves from the same place. *)
LEMMA Carries ==
    ASSUME NEW c, c.at \in Nat, c.last \in Nat, c.at # 0, JoinsFromLeft(c), NEW b \in Powers
    PROVE  \E a, l \in Nat, wide \in Powers :
               /\ CarriedUp(c) = [c EXCEPT !.at = a, !.last = l]
               /\ a % 2 = 1 /\ a * wide = c.at * b /\ b <= wide
               /\ (l = c.last /\ wide = b) \/ (c.at = c.last /\ l = a)
<1>0. PICK at \in Nat, last \in Nat : at = c.at /\ last = c.last /\ at # 0
  OBVIOUS
<1> DEFINE
      Round(up) == [p \in (0..at) \X (0..last) |->
                       IF p[1] # 0 /\ p[1] % 2 = 0 THEN up[<<p[1] \div 2, p[2] \div 2>>] ELSE p]
      up == CHOOSE up : up = Round(up)
<1>1. CarriedUp(c) = [c EXCEPT !.at = up[<<at, last>>][1], !.last = up[<<at, last>>][2]]
  BY <1>0 DEF CarriedUp
<1>2. up = Round(up)
  <2>1. PICK go : go = {p \in (0..at) \X (0..last) : p[1] # 0 /\ p[1] % 2 = 0}
    OBVIOUS
  <2>2. \A p \in (0..at) \X (0..last) : p \in go => p[1] # 0
    BY <2>1
  <2>3. PICK f : f = HalvedWhile(go, at, last, f)
    BY <2>2, HalvingEnds
  <2>4. HalvedWhile(go, at, last, f) = Round(f)
    BY <2>1 DEF HalvedWhile
  <2>5. \E g : g = Round(g)
    BY <2>3, <2>4
  <2> HIDE DEF Round
  <2> QED
    BY <2>5, Zenon
<1> HIDE DEF up
<1>3. ASSUME NEW a \in 0..at, NEW l \in 0..last
      PROVE  /\ a % 2 = 1 => up[<<a, l>>] = <<a, l>>
             /\ a # 0 /\ a % 2 = 0 => up[<<a, l>>] = up[<<a \div 2, l \div 2>>]
  <2>1. up[<<a, l>>] = Round(up)[<<a, l>>]
    BY <1>2
  <2> QED
    BY <2>1
<1> HIDE DEF Round
<1>4. CASE at % 2 = 1
  <2>1. up[<<at, last>>] = <<at, last>>
    <3>1. at \in 0..at /\ last \in 0..last
      OBVIOUS
    <3> QED
      BY <1>3, <1>4, <3>1, Zenon
  <2>2. CarriedUp(c) = [c EXCEPT !.at = at, !.last = last]
    BY <1>1, <2>1
  <2>3. at * b = c.at * b /\ b <= b
    BY <1>0, PowersDouble
  <2> QED
    BY <1>0, <1>4, <2>2, <2>3
<1>5. CASE at = last
  <2> DEFINE
        Ends(a, w) == \E x \in Nat, wide \in Powers :
                          /\ up[<<a, a>>] = <<x, x>>
                          /\ x % 2 = 1 /\ x * wide = a * w /\ w <= wide
        T == {n \in Nat : \A a \in 1..at, w \in Powers : a <= n => Ends(a, w)}
  <2>1. ASSUME NEW n \in Nat, \A m \in 0..(n - 1) : m \in T PROVE n \in T
    <3>1. ASSUME NEW a \in 1..at, NEW w \in Powers, a <= n PROVE Ends(a, w)
      <4>0. w \in Nat /\ w * 2 \in Powers
        BY PowersDouble
      <4>1. CASE a % 2 = 1
        <5>1. a \in 0..at /\ a \in 0..last
          BY <1>5
        <5>2. up[<<a, a>>] = <<a, a>>
          BY <1>3, <4>1, <5>1, Zenon
        <5> QED
          BY <4>0, <4>1, <5>2
      <4>2. CASE a % 2 = 0
        <5>1. PICK h \in 1..at : h = a \div 2 /\ a = h * 2 /\ h <= n - 1
          BY <3>1, <4>2
        <5>2. up[<<a, a>>] = up[<<h, h>>]
          <6>1. a \in 0..at /\ a \in 0..last /\ a # 0
            BY <1>5
          <6> QED
            BY <1>3, <4>2, <5>1, <6>1, Zenon
        <5>3. n - 1 \in T
          <6>1. n - 1 \in 0..(n - 1)
            BY <3>1
          <6> HIDE DEF T
          <6> QED
            BY <2>1, <6>1
        <5>4. Ends(h, w * 2)
          BY <4>0, <5>1, <5>3
        <5>5. PICK x \in Nat, wide \in Powers :
                  /\ up[<<h, h>>] = <<x, x>>
                  /\ x % 2 = 1 /\ x * wide = h * (w * 2) /\ w * 2 <= wide
          BY <5>4
        <5>6. h * (w * 2) = a * w /\ wide \in Nat /\ w <= wide
          BY <4>0, <5>1, <5>5, PowersDouble
        <5> QED
          BY <5>2, <5>5, <5>6
      <4> QED
        BY <4>1, <4>2
    <3> HIDE DEF Ends
    <3> QED
      BY <3>1
  <2>2. at \in T
    <3> HIDE DEF T
    <3> QED
      BY <2>1, Induction
  <2>3. Ends(at, b)
    <3>1. at \in 1..at /\ at <= at
      BY <1>0
    <3>2. \A a \in 1..at, w \in Powers : a <= at => Ends(a, w)
      BY <2>2
    <3> HIDE DEF Ends
    <3> QED
      BY <3>1, <3>2
  <2>4. PICK x \in Nat, wide \in Powers :
            up[<<at, at>>] = <<x, x>> /\ x % 2 = 1 /\ x * wide = at * b /\ b <= wide
    BY <2>3
  <2>5. CarriedUp(c) = [c EXCEPT !.at = x, !.last = x]
    BY <1>1, <1>5, <2>4
  <2>6. x % 2 = 1 /\ x * wide = c.at * b /\ b <= wide /\ c.at = c.last
    BY <1>0, <1>5, <2>4
  <2> QED
    BY <2>5, <2>6
<1> QED
  BY <1>0, <1>4, <1>5 DEF JoinsFromLeft

(* One level up, places are twice as wide. *)
LEMMA Halves ==
    ASSUME NEW a \in Nat, NEW b \in Nat, NEW z \in Nat, a * b <= z, z < a * b + b
    PROVE  /\ a \div 2 \in Nat
           /\ (a \div 2) * (b * 2) <= z /\ z < (a \div 2) * (b * 2) + b * 2
<1>1. PICK h \in Nat : h = a \div 2 /\ (a = h * 2 \/ a = h * 2 + 1)
  OBVIOUS
<1>2. CASE a = h * 2
  <2>1. a * b = h * (b * 2)
    BY <1>2
  <2> QED
    BY <1>1, <2>1
<1>3. CASE a = h * 2 + 1
  <2>1. a * b = h * (b * 2) + b
    BY <1>3
  <2> QED
    BY <1>1, <2>1
<1> QED
  BY <1>1, <1>2, <1>3

(* The old log ends with the whole subtree the check starts at. *)
LEMMA StartsWhole ==
    ASSUME NEW c, c.at \in Nat, c.last \in Nat
    PROVE  \E a, l \in Nat, wide \in Powers :
               /\ WholeSubtree(c) = [c EXCEPT !.at = a, !.last = l]
               /\ a % 2 = 0 /\ (a + 1) * wide = c.at + 1
               /\ l * wide <= c.last /\ c.last < l * wide + wide
<1>0. PICK at \in Nat, last \in Nat : at = c.at /\ last = c.last
  OBVIOUS
<1> DEFINE
      Round(up) == [p \in (0..at) \X (0..last) |->
                       IF p[1] % 2 = 1 THEN up[<<p[1] \div 2, p[2] \div 2>>] ELSE p]
      up == CHOOSE up : up = Round(up)
<1>1. WholeSubtree(c) = [c EXCEPT !.at = up[<<at, last>>][1], !.last = up[<<at, last>>][2]]
  BY <1>0 DEF WholeSubtree
<1>2. up = Round(up)
  <2>1. PICK go : go = {p \in (0..at) \X (0..last) : p[1] % 2 = 1}
    OBVIOUS
  <2>2. \A p \in (0..at) \X (0..last) : p \in go => p[1] # 0
    BY <2>1
  <2>3. PICK f : f = HalvedWhile(go, at, last, f)
    BY <2>2, HalvingEnds
  <2>4. HalvedWhile(go, at, last, f) = Round(f)
    BY <2>1 DEF HalvedWhile
  <2>5. \E g : g = Round(g)
    BY <2>3, <2>4
  <2> HIDE DEF Round
  <2> QED
    BY <2>5, Zenon
<1> HIDE DEF up
<1>3. ASSUME NEW a \in 0..at, NEW l \in 0..last
      PROVE  /\ a % 2 = 0 => up[<<a, l>>] = <<a, l>>
             /\ a % 2 = 1 => up[<<a, l>>] = up[<<a \div 2, l \div 2>>]
  <2>1. up[<<a, l>>] = Round(up)[<<a, l>>]
    BY <1>2
  <2> QED
    BY <2>1
<1> HIDE DEF Round
<1> DEFINE
      Ends(a, l, w) ==
          \E x, y \in Nat, wide \in Powers :
              /\ up[<<a, l>>] = <<x, y>> /\ x % 2 = 0 /\ (x + 1) * wide = (a + 1) * w
              /\ l * w <= last /\ last < l * w + w =>
                     y * wide <= last /\ last < y * wide + wide
      T == {n \in Nat : \A a \in 0..at, l \in 0..last, w \in Powers : a <= n => Ends(a, l, w)}
<1>4. ASSUME NEW n \in Nat, \A m \in 0..(n - 1) : m \in T PROVE n \in T
  <2>1. ASSUME NEW a \in 0..at, NEW l \in 0..last, NEW w \in Powers, a <= n
        PROVE  Ends(a, l, w)
    <3>0. w \in Nat /\ w * 2 \in Powers
      BY PowersDouble
    <3>1. CASE a % 2 = 0
      <4>1. up[<<a, l>>] = <<a, l>>
        BY <1>3, <3>1
      <4> QED
        BY <3>0, <3>1, <4>1
    <3>2. CASE a % 2 = 1
      <4>1. PICK h \in 0..at, k \in 0..last :
                h = a \div 2 /\ k = l \div 2 /\ a = h * 2 + 1 /\ h <= n - 1
        BY <2>1, <3>2
      <4>2. up[<<a, l>>] = up[<<h, k>>]
        BY <1>3, <3>2, <4>1, Zenon
      <4>3. n - 1 \in T
        <5>1. n - 1 \in 0..(n - 1)
          BY <2>1, <3>2
        <5> HIDE DEF T
        <5> QED
          BY <1>4, <5>1
      <4>4. Ends(h, k, w * 2)
        <5> HIDE DEF Ends
        <5> QED
          BY <3>0, <4>1, <4>3
      <4>5. PICK x \in Nat, y \in Nat, wide \in Powers :
                /\ up[<<h, k>>] = <<x, y>> /\ x % 2 = 0 /\ (x + 1) * wide = (h + 1) * (w * 2)
                /\ k * (w * 2) <= last /\ last < k * (w * 2) + w * 2 =>
                       y * wide <= last /\ last < y * wide + wide
        BY <4>4
      <4>6. (h + 1) * (w * 2) = (a + 1) * w
        BY <3>0, <4>1
      <4>7. l * w <= last /\ last < l * w + w =>
                k * (w * 2) <= last /\ last < k * (w * 2) + w * 2
        BY <3>0, <4>1, Halves
      <4>8. (x + 1) * wide = (a + 1) * w
        BY <4>5, <4>6
      <4> QED
        BY <4>2, <4>5, <4>7, <4>8
    <3> QED
      BY <3>1, <3>2
  <2> HIDE DEF Ends
  <2> QED
    BY <2>1
<1>5. at \in T
  <2> HIDE DEF T
  <2> QED
    BY <1>4, Induction
<1>6. Ends(at, last, 1)
  <2>1. at \in 0..at /\ last \in 0..last /\ at <= at
    OBVIOUS
  <2> HIDE DEF Ends
  <2> QED
    BY <1>5, <2>1, PowersDouble
<1>7. PICK x \in Nat, y \in Nat, wide \in Powers :
          /\ up[<<at, last>>] = <<x, y>> /\ x % 2 = 0 /\ (x + 1) * wide = (at + 1) * 1
          /\ last * 1 <= last /\ last < last * 1 + 1 =>
                 y * wide <= last /\ last < y * wide + wide
  BY <1>6
<1>8. WholeSubtree(c) = [c EXCEPT !.at = x, !.last = y]
  BY <1>1, <1>7
<1>9. /\ x % 2 = 0 /\ (x + 1) * wide = c.at + 1
      /\ y * wide <= c.last /\ c.last < y * wide + wide
  BY <1>0, <1>7
<1> QED
  BY <1>8, <1>9

-----------------------------------------------------------------------------
(* A node of a tree is over the leaves from a multiple of a power of two to the
   next, or to the end. *)

Upto(from, wide, n) == IF from + wide <= n THEN from + wide ELSE n

Node(leaves, from, wide) == Roots(leaves)[<<from, Upto(from, wide, Len(leaves))>>]

(* The node at place `at` of a level is over leaf z, `last` is over the last one. *)
Place(at, last, wide, z, n) ==
    /\ at * wide <= z /\ z < at * wide + wide
    /\ last * wide <= n - 1 /\ n - 1 < last * wide + wide

LEMMA NodeOfTwo ==
    ASSUME NEW leaves, Len(leaves) \in Nat, NEW from \in Nat, NEW wide \in Powers,
           from + wide < Len(leaves)
    PROVE  Node(leaves, from, wide * 2) =
               node_hash(Node(leaves, from, wide), Node(leaves, from + wide, wide))
<1>0. wide \in Nat /\ wide # 0
  BY PowersDouble
<1>1. PICK to \in 0..Len(leaves) : to = Upto(from, wide * 2, Len(leaves))
  BY <1>0 DEF Upto
<1>2. /\ to = Upto(from + wide, wide, Len(leaves)) /\ from + wide = Upto(from, wide, Len(leaves))
      /\ wide < to - from /\ to - from <= wide * 2 /\ from \in 0..Len(leaves)
  BY <1>0, <1>1 DEF Upto
<1>3. Roots(leaves)[<<from, to>>] =
          node_hash(Roots(leaves)[<<from, from + wide>>], Roots(leaves)[<<from + wide, to>>])
  BY <1>2, RootOfNode
<1> QED
  BY <1>1, <1>2, <1>3 DEF Node

LEMMA RisesRight ==
    ASSUME NEW at \in Nat, NEW last \in Nat, NEW z \in Nat, NEW n \in Nat, NEW wide \in Powers,
           Place(at, last, wide, z, n), z < n, at % 2 = 0, at # last
    PROVE  /\ Place(at \div 2, last \div 2, wide * 2, z, n)
           /\ (at \div 2) * (wide * 2) = at * wide
           /\ at * wide + wide < n
<1>0. wide \in Nat /\ wide # 0
  BY PowersDouble
<1>1. Place(at \div 2, last \div 2, wide * 2, z, n)
  <2>1. n - 1 \in Nat
    OBVIOUS
  <2> QED
    BY <1>0, <2>1, Halves DEF Place
<1>2. (at \div 2) * (wide * 2) = at * wide
  <2>1. PICK h \in Nat : h = at \div 2 /\ at = h * 2
    OBVIOUS
  <2> QED
    BY <1>0, <2>1
<1>3. at < last
  <2>1. ASSUME last <= at PROVE FALSE
    <3>1. PICK k \in Nat : at = last + k /\ k # 0
      <4>1. at - last \in Nat /\ at - last # 0 /\ at = last + (at - last)
        BY <2>1
      <4> QED
        BY <4>1
    <3>2. at * wide = last * wide + k * wide /\ k * wide >= wide
      BY <1>0, <3>1
    <3> QED
      BY <1>0, <3>2 DEF Place
  <2> QED
    BY <2>1
<1>4. at * wide + wide <= last * wide
  <2>1. PICK k \in Nat : last = at + 1 + k
    <3>1. last - at - 1 \in Nat /\ last = at + 1 + (last - at - 1)
      BY <1>3
    <3> QED
      BY <3>1
  <2>2. last * wide = at * wide + wide + k * wide /\ k * wide >= 0
    BY <1>0, <2>1
  <2> QED
    BY <1>0, <2>2
<1>5. at * wide + wide < n
  BY <1>0, <1>4 DEF Place
<1> QED
  BY <1>1, <1>2, <1>5

Fields == {"check", "old", "new", "at", "last"}

LEMMA RisesLeft ==
    ASSUME NEW c, c = [x \in Fields |-> c[x]], c.at \in Nat, c.last \in Nat,
           NEW z \in Nat, NEW n \in Nat, NEW wide \in Powers,
           Place(c.at, c.last, wide, z, n), z < n, c.last # 0, JoinsFromLeft(c)
    PROVE  \E a, l \in Nat, w \in Powers :
               /\ LevelUp(CarriedUp(c)) = [c EXCEPT !.at = a, !.last = l]
               /\ Place(a, l, w * 2, z, n)
               /\ a * (w * 2) + w = c.at * wide
               /\ w = wide \/ (wide <= w /\ n <= c.at * wide + wide)
<1>0. wide \in Nat /\ wide # 0
  BY PowersDouble
<1>1. c.at # 0
  BY DEF JoinsFromLeft
<1>2. PICK x \in Nat, y \in Nat, w \in Powers :
          /\ CarriedUp(c) = [c EXCEPT !.at = x, !.last = y]
          /\ x % 2 = 1 /\ x * w = c.at * wide /\ wide <= w
          /\ (y = c.last /\ w = wide) \/ (c.at = c.last /\ y = x)
  BY <1>1, Carries
<1>3. w \in Nat /\ w # 0 /\ w * 2 \in Nat
  BY PowersDouble
<1>4. PICK a \in Nat, l \in Nat : a = x \div 2 /\ l = y \div 2 /\ x = a * 2 + 1
  BY <1>2
<1>5. LevelUp(CarriedUp(c)) = [c EXCEPT !.at = a, !.last = l]
  BY <1>2, <1>4 DEF LevelUp, Fields
<1>6. a * (w * 2) + w = c.at * wide
  <2>1. x * w = a * (w * 2) + w
    BY <1>3, <1>4
  <2> QED
    BY <1>2, <2>1
<1>7. x * w <= z /\ z < x * w + w
  BY <1>0, <1>2, <1>3 DEF Place
<1>8. y * w <= n - 1 /\ n - 1 < y * w + w /\ (w = wide \/ n <= c.at * wide + wide)
  <2>1. CASE y = c.last /\ w = wide
    BY <2>1 DEF Place
  <2>2. CASE c.at = c.last /\ y = x
    <3>1. c.last * wide = x * w
      BY <1>2, <2>2
    <3> QED
      BY <1>0, <1>2, <1>3, <1>7, <2>2, <3>1 DEF Place
  <2> QED
    BY <1>2, <2>1, <2>2
<1>9. Place(a, l, w * 2, z, n)
  <2>1. n - 1 \in Nat
    OBVIOUS
  <2> QED
    BY <1>3, <1>4, <1>7, <1>8, <2>1, Halves DEF Place
<1> QED
  BY <1>2, <1>5, <1>6, <1>8, <1>9

-----------------------------------------------------------------------------
(* The inductive invariant of the receiver. *)

TypeOK ==
    /\ log \in Seq(Entries) /\ kept \in Seq(Entries)
    /\ claim # NoClaim =>
           /\ claim = [entry |-> claim.entry, index |-> claim.index, size |-> claim.size]
           /\ claim.index \in Nat /\ claim.size \in Nat
    /\ check # NoCheck =>
           /\ check = [x \in Fields |-> check[x]]
           /\ check.check \in {"inclusion", "consistency"}
           /\ check.at \in Nat /\ check.last \in Nat

(* If the hash a receipt's check has come to is that of the node it is at, the
   entry is in its place. *)
ReceiptOK ==
    check.check = "inclusion" =>
        /\ claim # NoClaim /\ claim.size = 0 /\ claim.index < Len(log)
        /\ \E wide \in Powers :
              /\ Place(check.at, check.last, wide, claim.index, Len(log))
              /\ check.new = Node(Leaves(log), check.at * wide, wide) =>
                     log[claim.index + 1] = claim.entry

(* If both hashes a bridge's check has come to are those of their nodes, the two
   logs agree from there to the end of the old one. *)
BridgeOK ==
    check.check = "consistency" =>
        /\ claim = NoClaim /\ kept # <<>> /\ Len(kept) < Len(log)
        /\ \E wide \in Powers :
              /\ Place(check.at, check.last, wide, Len(kept) - 1, Len(log))
              /\ /\ check.new = Node(Leaves(log), check.at * wide, wide)
                 /\ check.old = Node(Leaves(kept), check.at * wide, wide)
                 => \A k \in (check.at * wide + 1)..Len(kept) : kept[k] = log[k]

MerkleInv == TypeOK /\ ReceiptOK /\ BridgeOK /\ ReceiptsAreTrue

-----------------------------------------------------------------------------
(* A round of a check. *)

IsCheck(c) == c = [x \in Fields |-> c[x]] /\ c.at \in Nat /\ c.last \in Nat

(* At the end of the tree a node is the same however wide it could be. *)
LEMMA NodeAtEnd ==
    ASSUME NEW leaves, Len(leaves) \in Nat, NEW from \in Nat, NEW wide \in Nat, NEW w \in Nat,
           w = wide \/ (wide <= w /\ Len(leaves) <= from + wide)
    PROVE  Node(leaves, from, w) = Node(leaves, from, wide)
<1>1. Upto(from, w, Len(leaves)) = Upto(from, wide, Len(leaves))
  BY DEF Upto
<1> QED
  BY <1>1 DEF Node

(* Only the hash of the node it is at brings a check to the hash of the next. *)
LEMMA InclusionRises ==
    ASSUME NEW c, IsCheck(c), c.last # 0, NEW step, NEW leaves, Len(leaves) \in Nat,
           NEW z \in Nat, z < Len(leaves), NEW wide \in Powers,
           Place(c.at, c.last, wide, z, Len(leaves))
    PROVE  /\ IsCheck(InclusionStep(c, step)) /\ InclusionStep(c, step).check = c.check
           /\ \E w \in Powers :
                  LET d == InclusionStep(c, step) IN
                  /\ Place(d.at, d.last, w, z, Len(leaves))
                  /\ d.new = Node(leaves, d.at * w, w) => c.new = Node(leaves, c.at * wide, wide)
<1>0. wide \in Nat
  BY PowersDouble
<1>1. CASE JoinsFromLeft(c)
  <2>1. PICK b : b = [c EXCEPT !.new = node_hash(step, @)]
    OBVIOUS
  <2>2. /\ b = [x \in Fields |-> b[x]] /\ b.new = node_hash(step, c.new)
        /\ b.at = c.at /\ b.last = c.last /\ b.check = c.check
    BY <2>1 DEF IsCheck, Fields
  <2>3. /\ JoinsFromLeft(b) /\ b.at \in Nat /\ b.last \in Nat /\ b.last # 0
        /\ Place(b.at, b.last, wide, z, Len(leaves))
    BY <1>1, <2>2 DEF JoinsFromLeft, IsCheck
  <2>4. PICK a \in Nat, l \in Nat, w \in Powers :
            /\ LevelUp(CarriedUp(b)) = [b EXCEPT !.at = a, !.last = l]
            /\ Place(a, l, w * 2, z, Len(leaves))
            /\ a * (w * 2) + w = c.at * wide
            /\ w = wide \/ (wide <= w /\ Len(leaves) <= c.at * wide + wide)
    <3>1. \E a, l \in Nat, w \in Powers :
              /\ LevelUp(CarriedUp(b)) = [b EXCEPT !.at = a, !.last = l]
              /\ Place(a, l, w * 2, z, Len(leaves))
              /\ a * (w * 2) + w = b.at * wide
              /\ w = wide \/ (wide <= w /\ Len(leaves) <= b.at * wide + wide)
      BY <2>2, <2>3, RisesLeft
    <3> QED
      BY <2>2, <3>1
  <2>5. PICK d : d = InclusionStep(c, step)
    OBVIOUS
  <2>6. d = [b EXCEPT !.at = a, !.last = l]
    BY <1>1, <2>1, <2>4, <2>5 DEF InclusionStep
  <2>7. /\ d = [x \in Fields |-> d[x]] /\ d.new = node_hash(step, c.new)
        /\ d.at = a /\ d.last = l /\ d.check = c.check
    BY <2>2, <2>6 DEF Fields
  <2>8. ASSUME d.new = Node(leaves, a * (w * 2), w * 2)
        PROVE  c.new = Node(leaves, c.at * wide, wide)
    <3>1. PICK from \in Nat : from = a * (w * 2) /\ from + w = c.at * wide /\ w \in Nat
      <4>1. a * (w * 2) \in Nat /\ w \in Nat
        BY PowersDouble
      <4> QED
        BY <2>4, <4>1
    <3>2. from + w < Len(leaves) /\ from + w \in Nat
      BY <1>0, <3>1 DEF Place
    <3>3. node_hash(step, c.new) =
              node_hash(Node(leaves, from, w), Node(leaves, from + w, w))
      BY <2>7, <2>8, <3>1, <3>2, NodeOfTwo
    <3>4. c.new = Node(leaves, from + w, w)
      BY <3>3, NodesApart
    <3>5. Node(leaves, from + w, w) = Node(leaves, from + w, wide)
      BY <1>0, <2>4, <3>1, <3>2, NodeAtEnd
    <3> QED
      BY <3>1, <3>4, <3>5
  <2>9. w * 2 \in Powers
    BY PowersDouble
  <2> QED
    BY <2>4, <2>5, <2>7, <2>8, <2>9 DEF IsCheck
<1>2. CASE ~JoinsFromLeft(c)
  <2>1. PICK d : d = InclusionStep(c, step)
    OBVIOUS
  <2>2. d = LevelUp([c EXCEPT !.new = node_hash(@, step)])
    BY <1>2, <2>1 DEF InclusionStep
  <2>3. /\ d = [x \in Fields |-> d[x]] /\ d.new = node_hash(c.new, step)
        /\ d.at = c.at \div 2 /\ d.last = c.last \div 2 /\ d.check = c.check
    BY <2>2 DEF LevelUp, IsCheck, Fields
  <2>4. PICK at \in Nat, last \in Nat : at = c.at /\ last = c.last /\ at % 2 = 0 /\ at # last
    BY <1>2 DEF IsCheck, JoinsFromLeft
  <2>5. /\ Place(at \div 2, last \div 2, wide * 2, z, Len(leaves))
        /\ (at \div 2) * (wide * 2) = at * wide /\ at * wide + wide < Len(leaves)
    BY <2>4, RisesRight
  <2>6. ASSUME d.new = Node(leaves, d.at * (wide * 2), wide * 2)
        PROVE  c.new = Node(leaves, c.at * wide, wide)
    <3>1. PICK from \in Nat : from = at * wide
      BY <1>0
    <3>2. node_hash(c.new, step) =
              node_hash(Node(leaves, from, wide), Node(leaves, from + wide, wide))
      BY <2>3, <2>4, <2>5, <2>6, <3>1, NodeOfTwo
    <3>3. c.new = Node(leaves, from, wide)
      BY <3>2, NodesApart
    <3> QED
      BY <2>4, <3>1, <3>3
  <2>7. wide * 2 \in Powers
    BY PowersDouble
  <2> QED
    BY <2>1, <2>3, <2>4, <2>5, <2>6, <2>7 DEF IsCheck
<1> QED
  BY <1>1, <1>2

(* The last node of the old log is over its leaves to the end. *)
LEMMA NodeOfOld ==
    ASSUME NEW olds, Len(olds) \in Nat, NEW from \in Nat, NEW wide \in Nat,
           Len(olds) - 1 < from + wide
    PROVE  Node(olds, from, wide) = Roots(olds)[<<from, Len(olds)>>]
<1>1. Upto(from, wide, Len(olds)) = Len(olds)
  BY DEF Upto
<1> QED
  BY <1>1 DEF Node

LEMMA ConsistencyRises ==
    ASSUME NEW c, IsCheck(c), c.last # 0, NEW step, NEW leaves, Len(leaves) \in Nat,
           NEW olds, Len(olds) \in Nat, Len(olds) # 0, Len(olds) <= Len(leaves),
           NEW wide \in Powers, Place(c.at, c.last, wide, Len(olds) - 1, Len(leaves))
    PROVE  /\ IsCheck(ConsistencyStep(c, step)) /\ ConsistencyStep(c, step).check = c.check
           /\ \E w \in Powers :
                  LET d == ConsistencyStep(c, step) IN
                  /\ Place(d.at, d.last, w, Len(olds) - 1, Len(leaves))
                  /\ /\ d.new = Node(leaves, d.at * w, w)
                     /\ d.old = Node(olds, d.at * w, w)
                     => /\ c.new = Node(leaves, c.at * wide, wide)
                        /\ c.old = Node(olds, c.at * wide, wide)
                        /\ \A k \in (d.at * w + 1)..(c.at * wide) : olds[k] = leaves[k]
<1>0. wide \in Nat
  BY PowersDouble
<1>01. PICK z \in Nat : z = Len(olds) - 1 /\ z < Len(leaves)
  OBVIOUS
<1>02. Place(c.at, c.last, wide, z, Len(leaves))
  BY <1>01
<1>1. CASE JoinsFromLeft(c)
  <2>1. PICK b : b = [c EXCEPT !.new = node_hash(step, @), !.old = node_hash(step, @)]
    OBVIOUS
  <2>2. /\ b = [x \in Fields |-> b[x]]
        /\ b.new = node_hash(step, c.new) /\ b.old = node_hash(step, c.old)
        /\ b.at = c.at /\ b.last = c.last /\ b.check = c.check
    BY <2>1 DEF IsCheck, Fields
  <2>3. /\ JoinsFromLeft(b) /\ b.at \in Nat /\ b.last \in Nat /\ b.last # 0
        /\ Place(b.at, b.last, wide, z, Len(leaves))
    BY <1>1, <1>02, <2>2 DEF JoinsFromLeft, IsCheck
  <2>4. PICK a \in Nat, l \in Nat, w \in Powers :
            /\ LevelUp(CarriedUp(b)) = [b EXCEPT !.at = a, !.last = l]
            /\ Place(a, l, w * 2, z, Len(leaves))
            /\ a * (w * 2) + w = c.at * wide
            /\ w = wide \/ (wide <= w /\ Len(leaves) <= c.at * wide + wide)
    <3>1. \E a, l \in Nat, w \in Powers :
              /\ LevelUp(CarriedUp(b)) = [b EXCEPT !.at = a, !.last = l]
              /\ Place(a, l, w * 2, z, Len(leaves))
              /\ a * (w * 2) + w = b.at * wide
              /\ w = wide \/ (wide <= w /\ Len(leaves) <= b.at * wide + wide)
      BY <1>01, <2>2, <2>3, RisesLeft
    <3> QED
      BY <2>2, <3>1
  <2>5. PICK d : d = ConsistencyStep(c, step)
    OBVIOUS
  <2>6. d = [b EXCEPT !.at = a, !.last = l]
    BY <1>1, <2>1, <2>4, <2>5 DEF ConsistencyStep
  <2>7. /\ d = [x \in Fields |-> d[x]]
        /\ d.new = node_hash(step, c.new) /\ d.old = node_hash(step, c.old)
        /\ d.at = a /\ d.last = l /\ d.check = c.check
    BY <2>2, <2>6 DEF Fields
  <2>8. ASSUME d.new = Node(leaves, a * (w * 2), w * 2), d.old = Node(olds, a * (w * 2), w * 2)
        PROVE  /\ c.new = Node(leaves, c.at * wide, wide)
               /\ c.old = Node(olds, c.at * wide, wide)
               /\ \A k \in (a * (w * 2) + 1)..(c.at * wide) : olds[k] = leaves[k]
    <3>1. PICK from \in Nat : from = a * (w * 2) /\ from + w = c.at * wide /\ w \in Nat
      <4>1. a * (w * 2) \in Nat /\ w \in Nat
        BY PowersDouble
      <4> QED
        BY <2>4, <4>1
    <3>2. /\ from + w \in Nat /\ from + w < Len(leaves) /\ from + w < Len(olds)
          /\ Len(olds) - 1 < from + w + wide /\ wide <= w
      <4>1. from + w <= z /\ z < from + w + wide
        BY <1>02, <3>1 DEF Place
      <4>2. wide <= w
        BY <1>0, <2>4
      <4> QED
        BY <1>0, <1>01, <3>1, <4>1, <4>2
    <3>3. node_hash(step, c.new) =
              node_hash(Node(leaves, from, w), Node(leaves, from + w, w))
      BY <2>7, <2>8, <3>1, <3>2, NodeOfTwo
    <3>4. node_hash(step, c.old) =
              node_hash(Node(olds, from, w), Node(olds, from + w, w))
      BY <2>7, <2>8, <3>1, <3>2, NodeOfTwo
    <3>5. /\ step = Node(leaves, from, w) /\ c.new = Node(leaves, from + w, w)
          /\ step = Node(olds, from, w) /\ c.old = Node(olds, from + w, w)
      BY <3>3, <3>4, NodesApart
    <3>6. Node(leaves, from + w, w) = Node(leaves, from + w, wide)
      BY <1>0, <2>4, <3>1, <3>2, NodeAtEnd
    <3>7. Node(olds, from + w, w) = Node(olds, from + w, wide)
      <4>1. PICK p \in Nat : p = from + w
        BY <3>2
      <4>2. Len(olds) - 1 < p + w /\ Len(olds) - 1 < p + wide
        BY <1>0, <3>1, <3>2, <4>1
      <4>3. Node(olds, p, w) = Roots(olds)[<<p, Len(olds)>>]
        BY <3>1, <4>2, NodeOfOld
      <4>4. Node(olds, p, wide) = Roots(olds)[<<p, Len(olds)>>]
        BY <1>0, <4>2, NodeOfOld
      <4> QED
        BY <4>1, <4>3, <4>4
    <3>8. Upto(from, w, Len(leaves)) = from + w /\ Upto(from, w, Len(olds)) = from + w
      BY <3>1, <3>2 DEF Upto
    <3>9. Roots(leaves)[<<from, from + w>>] = Roots(olds)[<<from, from + w>>]
      BY <3>5, <3>8 DEF Node
    <3>10. \A k \in (from + 1)..(from + w) : leaves[k] = olds[k]
      <4>1. PICK p \in Nat : p = from + w /\ p <= Len(leaves) /\ p <= Len(olds)
        BY <3>2
      <4>2. Roots(leaves)[<<from, p>>] = Roots(olds)[<<from, p>>]
        BY <3>9, <4>1
      <4>3. \A k \in (from + 1)..p : leaves[k] = olds[k]
        BY <4>1, <4>2, OneRootOneSlice
      <4> QED
        BY <4>1, <4>3
    <3> QED
      BY <3>1, <3>5, <3>6, <3>7, <3>10
  <2>9. w * 2 \in Powers
    BY PowersDouble
  <2> QED
    BY <1>01, <2>4, <2>5, <2>7, <2>8, <2>9 DEF IsCheck
<1>2. CASE ~JoinsFromLeft(c)
  <2>1. PICK d : d = ConsistencyStep(c, step)
    OBVIOUS
  <2>2. d = LevelUp([c EXCEPT !.new = node_hash(@, step)])
    BY <1>2, <2>1 DEF ConsistencyStep
  <2>3. /\ d = [x \in Fields |-> d[x]] /\ d.new = node_hash(c.new, step) /\ d.old = c.old
        /\ d.at = c.at \div 2 /\ d.last = c.last \div 2 /\ d.check = c.check
    BY <2>2 DEF LevelUp, IsCheck, Fields
  <2>4. PICK at \in Nat, last \in Nat : at = c.at /\ last = c.last /\ at % 2 = 0 /\ at # last
    BY <1>2 DEF IsCheck, JoinsFromLeft
  <2>5. /\ Place(at \div 2, last \div 2, wide * 2, z, Len(leaves))
        /\ (at \div 2) * (wide * 2) = at * wide /\ at * wide + wide < Len(leaves)
    <3>1. PICK n \in Nat : n = Len(leaves) /\ z < n
      BY <1>01
    <3>2. Place(at, last, wide, z, n)
      BY <1>02, <2>4, <3>1
    <3>3. z < n /\ at % 2 = 0 /\ at # last
      BY <2>4, <3>1
    <3>4. /\ Place(at \div 2, last \div 2, wide * 2, z, n)
          /\ (at \div 2) * (wide * 2) = at * wide
          /\ at * wide + wide < n
      BY <3>2, <3>3, RisesRight
    <3> QED
      BY <3>1, <3>4
  <2>6. ASSUME d.new = Node(leaves, d.at * (wide * 2), wide * 2),
               d.old = Node(olds, d.at * (wide * 2), wide * 2)
        PROVE  /\ c.new = Node(leaves, c.at * wide, wide)
               /\ c.old = Node(olds, c.at * wide, wide)
               /\ \A k \in (d.at * (wide * 2) + 1)..(c.at * wide) : olds[k] = leaves[k]
    <3>1. PICK from \in Nat : from = at * wide
      BY <1>0
    <3>2. node_hash(c.new, step) =
              node_hash(Node(leaves, from, wide), Node(leaves, from + wide, wide))
      BY <2>3, <2>4, <2>5, <2>6, <3>1, NodeOfTwo
    <3>3. c.new = Node(leaves, from, wide)
      BY <3>2, NodesApart
    <3>4. Node(olds, from, wide * 2) = Node(olds, from, wide)
      <4>1. Len(olds) - 1 < from + wide /\ Len(olds) - 1 < from + wide * 2 /\ wide * 2 \in Nat
        <5>1. z < from + wide
          BY <1>02, <2>4, <3>1 DEF Place
        <5> QED
          BY <1>0, <1>01, <3>1, <5>1
      <4>2. Node(olds, from, wide) = Roots(olds)[<<from, Len(olds)>>]
        BY <1>0, <4>1, NodeOfOld
      <4>3. Node(olds, from, wide * 2) = Roots(olds)[<<from, Len(olds)>>]
        BY <4>1, NodeOfOld
      <4> QED
        BY <4>2, <4>3
    <3>5. d.at * (wide * 2) = from /\ c.at * wide = from
      BY <2>3, <2>4, <2>5, <3>1
    <3>6. (from + 1)..from = {}
      OBVIOUS
    <3> QED
      BY <2>3, <2>6, <3>3, <3>4, <3>5, <3>6
  <2>7. wide * 2 \in Powers
    BY PowersDouble
  <2>8. Place(d.at, d.last, wide * 2, Len(olds) - 1, Len(leaves))
    BY <1>01, <2>3, <2>4, <2>5
  <2>9. IsCheck(d) /\ d.check = c.check
    BY <2>3, <2>4 DEF IsCheck
  <2> QED
    BY <2>1, <2>6, <2>7, <2>8, <2>9
<1> QED
  BY <1>1, <1>2

LEMMA InclusionStarts ==
    ASSUME NEW leaf, NEW leaves, Len(leaves) \in Nat, NEW index \in 0..(Len(leaves) - 1)
    PROVE  LET c == InclusionStart(leaf, index, Len(leaves)) IN
           /\ IsCheck(c) /\ c.check = "inclusion"
           /\ Place(c.at, c.last, 1, index, Len(leaves))
           /\ c.new = Node(leaves, c.at * 1, 1) => leaf = leaves[index + 1]
<1>1. PICK c : c = InclusionStart(leaf, index, Len(leaves))
  OBVIOUS
<1>2. /\ c = [x \in Fields |-> c[x]] /\ c.check = "inclusion"
      /\ c.new = leaf /\ c.at = index /\ c.last = Len(leaves) - 1
  BY <1>1 DEF InclusionStart, Fields
<1>3. IsCheck(c) /\ Place(c.at, c.last, 1, index, Len(leaves))
  BY <1>2 DEF IsCheck, Place
<1>4. Node(leaves, index * 1, 1) = leaves[index + 1]
  <2>1. index * 1 = index /\ Upto(index, 1, Len(leaves)) = index + 1
    BY DEF Upto
  <2> QED
    BY <2>1, RootOfLeaf DEF Node
<1> QED
  BY <1>1, <1>2, <1>3, <1>4

(* A bridge's check is at the node over the last leaf of the old log; if both its
   hashes are those of their nodes, the leaves agree from there to that leaf. *)
Bridging(c, wide, olds, leaves) ==
    /\ Place(c.at, c.last, wide, Len(olds) - 1, Len(leaves))
    /\ /\ c.new = Node(leaves, c.at * wide, wide)
       /\ c.old = Node(olds, c.at * wide, wide)
       => \A k \in (c.at * wide + 1)..Len(olds) : olds[k] = leaves[k]

LEMMA ConsistencyStarts ==
    ASSUME NEW seed, NEW leaves, Len(leaves) \in Nat, NEW olds, Len(olds) \in Nat,
           Len(olds) # 0, Len(olds) <= Len(leaves),
           NEW c, c = ConsistencyStart(seed, Len(olds), Len(leaves))
    PROVE  /\ IsCheck(c) /\ c.check = "consistency"
           /\ \E wide \in Powers : Bridging(c, wide, olds, leaves)
<1>1. PICK b : b = [check |-> "consistency", old |-> seed, new |-> seed,
                    at |-> Len(olds) - 1, last |-> Len(leaves) - 1]
  OBVIOUS
<1>2. /\ b = [x \in Fields |-> b[x]] /\ b.check = "consistency"
      /\ b.new = seed /\ b.old = seed
      /\ b.at = Len(olds) - 1 /\ b.at \in Nat /\ b.last = Len(leaves) - 1 /\ b.last \in Nat
  BY <1>1 DEF Fields
<1>3. PICK a \in Nat, l \in Nat, wide \in Powers :
          /\ WholeSubtree(b) = [b EXCEPT !.at = a, !.last = l]
          /\ a % 2 = 0 /\ (a + 1) * wide = b.at + 1
          /\ l * wide <= b.last /\ b.last < l * wide + wide
  BY <1>2, StartsWhole
<1>5. c = [b EXCEPT !.at = a, !.last = l]
  BY <1>1, <1>3 DEF ConsistencyStart
<1>6. /\ c = [x \in Fields |-> c[x]] /\ c.check = "consistency"
      /\ c.new = seed /\ c.old = seed /\ c.at = a /\ c.last = l
  BY <1>2, <1>5 DEF Fields
<1>7. PICK from \in Nat : from = a * wide /\ from + wide = Len(olds) /\ wide \in Nat /\ wide # 0
  <2>1. wide \in Nat /\ wide # 0
    BY PowersDouble
  <2>2. PICK from \in Nat : from = a * wide /\ (a + 1) * wide = from + wide
    BY <2>1
  <2>3. from + wide = Len(olds)
    BY <1>2, <1>3, <2>2
  <2> QED
    BY <2>1, <2>2, <2>3
<1>8. Place(a, l, wide, Len(olds) - 1, Len(leaves))
  BY <1>2, <1>3, <1>7 DEF Place
<1>9. ASSUME seed = Node(leaves, from, wide), seed = Node(olds, from, wide)
      PROVE  \A k \in (from + 1)..Len(olds) : olds[k] = leaves[k]
  <2>1. /\ Upto(from, wide, Len(leaves)) = Len(olds)
        /\ Upto(from, wide, Len(olds)) = Len(olds)
    BY <1>7 DEF Upto
  <2>2. Roots(leaves)[<<from, Len(olds)>>] = Roots(olds)[<<from, Len(olds)>>]
    BY <1>9, <2>1 DEF Node
  <2> QED
    BY <2>2, OneRootOneSlice
<1>10. IsCheck(c)
  BY <1>6 DEF IsCheck
<1>11. /\ c.new = Node(leaves, c.at * wide, wide) /\ c.old = Node(olds, c.at * wide, wide)
       => \A k \in (c.at * wide + 1)..Len(olds) : olds[k] = leaves[k]
  BY <1>6, <1>7, <1>9
<1>12. Place(c.at, c.last, wide, Len(olds) - 1, Len(leaves))
  BY <1>6, <1>8
<1>13. Bridging(c, wide, olds, leaves)
  BY <1>11, <1>12 DEF Bridging
<1> QED
  BY <1>6, <1>10, <1>13

(* Where there is one place left, it is the whole tree's. *)
LEMMA EndsAtRoot ==
    ASSUME NEW leaves, Len(leaves) \in Nat, NEW at \in Nat, NEW z \in Nat, z < Len(leaves),
           NEW wide \in Powers, Place(at, 0, wide, z, Len(leaves))
    PROVE  at * wide = 0 /\ Node(leaves, at * wide, wide) = root(leaves)
<1>0. wide \in Nat /\ wide # 0
  BY PowersDouble
<1>1. at * wide < wide /\ Len(leaves) <= wide
  BY <1>0 DEF Place
<1>2. at = 0
  <2>1. ASSUME at # 0 PROVE FALSE
    <3>1. PICK k \in Nat : at = k + 1
      <4>1. at - 1 \in Nat /\ at = (at - 1) + 1
        BY <2>1
      <4> QED
        BY <4>1
    <3>2. at * wide = k * wide + wide /\ k * wide >= 0
      BY <1>0, <3>1
    <3> QED
      BY <1>0, <1>1, <3>2
  <2> QED
    BY <2>1
<1>3. at * wide = 0 /\ Upto(0, wide, Len(leaves)) = Len(leaves)
  BY <1>0, <1>1, <1>2 DEF Upto
<1> QED
  BY <1>3 DEF Node, root, Whole

-----------------------------------------------------------------------------
(* The steps of the sender and the receiver. *)

LEMMA LeavesAre ==
    ASSUME NEW entries \in Seq(Entries)
    PROVE  /\ Len(Leaves(entries)) = Len(entries) /\ Len(entries) \in Nat
           /\ \A k \in 1..Len(entries) : Leaves(entries)[k] = leaf_hash(entries[k])
  BY DEF Leaves

LEMMA LeavesApart ==
    \A e, f : leaf_hash(e) = leaf_hash(f) => e = f
<1>1. ASSUME NEW e, NEW f, <<"leaf", e>> = <<"leaf", f>> PROVE e = f
  BY <1>1
<1> QED
  BY <1>1 DEF leaf_hash

LEMMA NoCheckIsNone ==
    /\ NoCheck.check \notin {"inclusion", "consistency"}
    /\ NoClaim.size = 0
    /\ \A c : IsCheck(c) => c # NoCheck
<1>1. ASSUME NEW c, IsCheck(c) PROVE c # NoCheck
  <2>1. DOMAIN c = Fields /\ DOMAIN NoCheck = {"check"}
    BY <1>1 DEF IsCheck, NoCheck
  <2> QED
    BY <2>1 DEF Fields
<1> QED
  BY <1>1 DEF NoCheck, NoClaim

(* The log changes while nothing is checked, and no claim is about the new one. *)
LEMMA LogMerkle ==
    ASSUME MerkleInv, check = NoCheck, claim' = NoClaim, UNCHANGED <<kept, check>>,
           log' \in Seq(Entries)
    PROVE  MerkleInv'
  BY NoCheckIsNone DEF MerkleInv, TypeOK, ReceiptOK, BridgeOK, ReceiptsAreTrue

LEMMA ReceiptMerkle ==
    ASSUME MerkleInv, NEW e \in Entries, NEW index \in 0..(Len(log) - 1),
           CheckReceipt(e, index)
    PROVE  MerkleInv'
<1>1. PICK leaves : leaves = Leaves(log) /\ Len(leaves) = Len(log) /\ Len(log) \in Nat
  BY LeavesAre DEF MerkleInv, TypeOK
<1>2. check' = InclusionStart(leaf_hash(e), index, Len(leaves))
  BY <1>1 DEF CheckReceipt
<1>3. /\ IsCheck(check') /\ check'.check = "inclusion"
      /\ Place(check'.at, check'.last, 1, index, Len(leaves))
      /\ check'.new = Node(leaves, check'.at * 1, 1) => leaf_hash(e) = leaves[index + 1]
  BY <1>1, <1>2, InclusionStarts
<1>4. PICK r : r = [entry |-> e, index |-> index, size |-> 0]
  OBVIOUS
<1>5. claim' = r /\ r.entry = e /\ r.index = index /\ r.size = 0 /\ UNCHANGED <<log, kept>>
  BY <1>4 DEF CheckReceipt
<1>6. r # NoClaim /\ r = [entry |-> r.entry, index |-> r.index, size |-> r.size]
  <2>1. DOMAIN r = {"entry", "index", "size"} /\ DOMAIN NoClaim = {"index", "size"}
    BY <1>4 DEF NoClaim
  <2> QED
    BY <1>4, <1>5, <2>1
<1>7. TypeOK'
  BY <1>3, <1>5, <1>6 DEF MerkleInv, TypeOK, IsCheck
<1>8. leaf_hash(e) = leaves[index + 1] => log[index + 1] = e
  <2>1. index + 1 \in 1..Len(log)
    BY <1>1
  <2>2. leaves[index + 1] = leaf_hash(log[index + 1])
    BY <1>1, <2>1, LeavesAre DEF MerkleInv, TypeOK
  <2> QED
    BY <2>2, LeavesApart
<1>9. ReceiptOK'
  <2>1. /\ Place(check'.at, check'.last, 1, claim'.index, Len(log'))
        /\ check'.new = Node(Leaves(log'), check'.at * 1, 1) =>
               log'[claim'.index + 1] = claim'.entry
    BY <1>1, <1>3, <1>5, <1>8
  <2>2. claim' # NoClaim /\ claim'.size = 0 /\ claim'.index < Len(log')
    BY <1>1, <1>5, <1>6
  <2> QED
    BY <2>1, <2>2, PowersDouble DEF ReceiptOK
<1>10. BridgeOK'
  BY <1>3 DEF BridgeOK
<1>11. ReceiptsAreTrue'
  BY <1>5 DEF ReceiptsAreTrue
<1> QED
  BY <1>7, <1>9, <1>10, <1>11 DEF MerkleInv

LEMMA ReceiptStepMerkle ==
    ASSUME MerkleInv, NEW step, ReceiptStep(step)
    PROVE  MerkleInv'
<1>0. check.check = "inclusion" /\ check.last > 0 /\ UNCHANGED <<log, kept, claim>>
  BY DEF ReceiptStep
<1>1. PICK leaves : leaves = Leaves(log) /\ Len(leaves) = Len(log) /\ Len(log) \in Nat
  BY LeavesAre DEF MerkleInv, TypeOK
<1>2. check # NoCheck
  BY <1>0, NoCheckIsNone
<1>3. IsCheck(check) /\ check.last # 0
  BY <1>0, <1>2 DEF MerkleInv, TypeOK, IsCheck
<1>4. PICK wide \in Powers :
          /\ Place(check.at, check.last, wide, claim.index, Len(log))
          /\ check.new = Node(Leaves(log), check.at * wide, wide) =>
                 log[claim.index + 1] = claim.entry
  BY <1>0 DEF MerkleInv, ReceiptOK
<1>5. claim # NoClaim /\ claim.size = 0 /\ claim.index < Len(log) /\ claim.index \in Nat
  BY <1>0 DEF MerkleInv, ReceiptOK, TypeOK
<1>6. PICK d : d = InclusionStep(check, step) /\ check' = d
  BY DEF ReceiptStep
<1>7. /\ IsCheck(d) /\ d.check = "inclusion"
      /\ \E w \in Powers :
             /\ Place(d.at, d.last, w, claim.index, Len(leaves))
             /\ d.new = Node(leaves, d.at * w, w) => check.new = Node(leaves, check.at * wide, wide)
  BY <1>0, <1>1, <1>3, <1>4, <1>5, <1>6, InclusionRises
<1>8. TypeOK'
  BY <1>0, <1>6, <1>7 DEF MerkleInv, TypeOK, IsCheck
<1>9. ReceiptOK'
  BY <1>0, <1>1, <1>4, <1>5, <1>6, <1>7 DEF ReceiptOK
<1>10. BridgeOK' /\ ReceiptsAreTrue'
  BY <1>0, <1>5, <1>6, <1>7 DEF BridgeOK, ReceiptsAreTrue
<1> QED
  BY <1>8, <1>9, <1>10 DEF MerkleInv

LEMMA AcceptedMerkle ==
    ASSUME MerkleInv, ReceiptAccepted
    PROVE  MerkleInv'
<1>0. /\ check.check = "inclusion" /\ check.last = 0 /\ check.new = root(Leaves(log))
      /\ check' = NoCheck /\ claim' = [claim EXCEPT !.size = Len(log)]
      /\ UNCHANGED <<log, kept>>
  BY DEF ReceiptAccepted, HeadRoot
<1>1. PICK leaves : leaves = Leaves(log) /\ Len(leaves) = Len(log) /\ Len(log) \in Nat
  BY LeavesAre DEF MerkleInv, TypeOK
<1>2. check.at \in Nat
  BY <1>0, NoCheckIsNone DEF MerkleInv, TypeOK
<1>3. /\ claim # NoClaim /\ claim.index < Len(log) /\ claim.index \in Nat
      /\ claim = [entry |-> claim.entry, index |-> claim.index, size |-> claim.size]
  BY <1>0 DEF MerkleInv, ReceiptOK, TypeOK
<1>4. PICK wide \in Powers :
          /\ Place(check.at, 0, wide, claim.index, Len(leaves))
          /\ check.new = Node(leaves, check.at * wide, wide) => log[claim.index + 1] = claim.entry
  BY <1>0, <1>1 DEF MerkleInv, ReceiptOK
<1>5. Node(leaves, check.at * wide, wide) = root(leaves)
  BY <1>1, <1>2, <1>3, <1>4, EndsAtRoot
<1>6. log[claim.index + 1] = claim.entry
  BY <1>0, <1>1, <1>4, <1>5
<1>7. PICK r : r = claim'
  OBVIOUS
<1>8. /\ r.entry = claim.entry /\ r.index = claim.index /\ r.size = Len(log)
      /\ r = [entry |-> r.entry, index |-> r.index, size |-> r.size]
  BY <1>0, <1>3, <1>7
<1>9. TypeOK'
  BY <1>0, <1>1, <1>3, <1>7, <1>8 DEF MerkleInv, TypeOK
<1>10. ReceiptsAreTrue'
  BY <1>0, <1>3, <1>6, <1>7, <1>8 DEF ReceiptsAreTrue
<1>11. ReceiptOK' /\ BridgeOK'
  BY <1>0, NoCheckIsNone DEF ReceiptOK, BridgeOK
<1> QED
  BY <1>9, <1>10, <1>11 DEF MerkleInv

LEMMA SinceMerkle ==
    ASSUME MerkleInv, NEW seed, CheckSince(seed)
    PROVE  MerkleInv'
<1>0. /\ kept # <<>> /\ Len(kept) < Len(log) /\ claim' = NoClaim /\ UNCHANGED <<log, kept>>
      /\ log \in Seq(Entries) /\ kept \in Seq(Entries)
  BY DEF CheckSince, MerkleInv, TypeOK
<1>1. PICK leaves : leaves = Leaves(log) /\ Len(leaves) = Len(log) /\ Len(log) \in Nat
  BY <1>0, LeavesAre
<1>2. PICK olds : olds = Leaves(kept) /\ Len(olds) = Len(kept) /\ Len(kept) \in Nat
  BY <1>0, LeavesAre
<1>3. Len(olds) # 0 /\ Len(olds) <= Len(leaves) /\ Len(olds) \in Nat /\ Len(leaves) \in Nat
  BY <1>0, <1>1, <1>2
<1>4. PICK d : d = ConsistencyStart(seed, Len(olds), Len(leaves)) /\ check' = d
  BY <1>1, <1>2 DEF CheckSince
<1>5. IsCheck(d) /\ d.check = "consistency" /\ \E wide \in Powers : Bridging(d, wide, olds, leaves)
  BY <1>3, <1>4, ConsistencyStarts
<1>6. PICK wide \in Powers :
          /\ Place(d.at, d.last, wide, Len(olds) - 1, Len(leaves))
          /\ /\ d.new = Node(leaves, d.at * wide, wide)
             /\ d.old = Node(olds, d.at * wide, wide)
             => \A k \in (d.at * wide + 1)..Len(olds) : olds[k] = leaves[k]
  BY <1>5 DEF Bridging
<1>7. d.at * wide \in Nat
  <2>1. d.at \in Nat /\ wide \in Nat
    BY <1>5, PowersDouble DEF IsCheck
  <2> QED
    BY <2>1
<1>8. ASSUME \A k \in (d.at * wide + 1)..Len(olds) : olds[k] = leaves[k]
      PROVE  \A k \in (d.at * wide + 1)..Len(kept) : kept[k] = log[k]
  <2>1. ASSUME NEW k \in (d.at * wide + 1)..Len(kept) PROVE kept[k] = log[k]
    <3>1. k \in 1..Len(kept) /\ k \in 1..Len(log)
      BY <1>0, <1>1, <1>2, <1>7
    <3>2. leaf_hash(kept[k]) = leaf_hash(log[k])
      BY <1>0, <1>1, <1>2, <1>8, <2>1, <3>1, LeavesAre
    <3> QED
      BY <3>2, LeavesApart
  <2> QED
    BY <2>1
<1>9. BridgeOK'
  BY <1>0, <1>1, <1>2, <1>4, <1>6, <1>8 DEF BridgeOK
<1>10. TypeOK'
  BY <1>0, <1>4, <1>5 DEF TypeOK, IsCheck
<1>11. ReceiptOK' /\ ReceiptsAreTrue'
  BY <1>0, <1>4, <1>5, NoCheckIsNone DEF ReceiptOK, ReceiptsAreTrue
<1> QED
  BY <1>9, <1>10, <1>11 DEF MerkleInv

LEMMA BridgeStepMerkle ==
    ASSUME MerkleInv, NEW step, BridgeStep(step)
    PROVE  MerkleInv'
<1>0. /\ check.check = "consistency" /\ check.last # 0 /\ UNCHANGED <<log, kept, claim>>
      /\ log \in Seq(Entries) /\ kept \in Seq(Entries)
      /\ claim = NoClaim /\ kept # <<>> /\ Len(kept) < Len(log)
  BY DEF BridgeStep, MerkleInv, TypeOK, BridgeOK
<1>1. PICK leaves : leaves = Leaves(log) /\ Len(leaves) = Len(log) /\ Len(log) \in Nat
  BY <1>0, LeavesAre
<1>2. PICK olds : olds = Leaves(kept) /\ Len(olds) = Len(kept) /\ Len(kept) \in Nat /\ Len(olds) # 0
  BY <1>0, LeavesAre
<1>25. Len(olds) <= Len(leaves) /\ Len(olds) \in Nat /\ Len(leaves) \in Nat /\ Len(olds) # 0
  BY <1>0, <1>1, <1>2
<1>3. IsCheck(check)
  BY <1>0, NoCheckIsNone DEF MerkleInv, TypeOK, IsCheck
<1>4. PICK wide \in Powers :
          /\ Place(check.at, check.last, wide, Len(olds) - 1, Len(leaves))
          /\ /\ check.new = Node(leaves, check.at * wide, wide)
             /\ check.old = Node(olds, check.at * wide, wide)
             => \A k \in (check.at * wide + 1)..Len(kept) : kept[k] = log[k]
  BY <1>0, <1>1, <1>2 DEF MerkleInv, BridgeOK
<1>5. PICK d : d = ConsistencyStep(check, step) /\ check' = d
  BY DEF BridgeStep
<1>6. /\ IsCheck(d) /\ d.check = "consistency"
      /\ \E w \in Powers :
             /\ Place(d.at, d.last, w, Len(olds) - 1, Len(leaves))
             /\ /\ d.new = Node(leaves, d.at * w, w)
                /\ d.old = Node(olds, d.at * w, w)
                => /\ check.new = Node(leaves, check.at * wide, wide)
                   /\ check.old = Node(olds, check.at * wide, wide)
                   /\ \A k \in (d.at * w + 1)..(check.at * wide) : olds[k] = leaves[k]
  <2>1. Place(check.at, check.last, wide, Len(olds) - 1, Len(leaves)) /\ wide \in Powers
    BY <1>4
  <2> QED
    BY <1>0, <1>25, <1>3, <1>5, <2>1, ConsistencyRises
<1>7. PICK w \in Powers :
          /\ Place(d.at, d.last, w, Len(olds) - 1, Len(leaves))
          /\ /\ d.new = Node(leaves, d.at * w, w)
             /\ d.old = Node(olds, d.at * w, w)
             => /\ check.new = Node(leaves, check.at * wide, wide)
                /\ check.old = Node(olds, check.at * wide, wide)
                /\ \A k \in (d.at * w + 1)..(check.at * wide) : olds[k] = leaves[k]
  BY <1>6
<1>8. d.at * w \in Nat /\ check.at * wide \in Nat
  <2>1. d.at \in Nat /\ check.at \in Nat /\ w \in Nat /\ wide \in Nat
    BY <1>3, <1>6, PowersDouble DEF IsCheck
  <2> QED
    BY <2>1
<1>9. ASSUME d.new = Node(leaves, d.at * w, w), d.old = Node(olds, d.at * w, w)
      PROVE  \A k \in (d.at * w + 1)..Len(kept) : kept[k] = log[k]
  <2>1. ASSUME NEW k \in (d.at * w + 1)..Len(kept) PROVE kept[k] = log[k]
    <3>1. k \in 1..Len(kept) /\ k \in 1..Len(log)
      BY <1>0, <1>1, <1>2, <1>8
    <3>2. CASE k <= check.at * wide
      <4>1. k \in (d.at * w + 1)..(check.at * wide)
        BY <1>8, <2>1, <3>2
      <4>2. leaf_hash(kept[k]) = leaf_hash(log[k])
        BY <1>0, <1>1, <1>2, <1>7, <1>9, <3>1, <4>1, LeavesAre
      <4> QED
        BY <4>2, LeavesApart
    <3>3. CASE k > check.at * wide
      <4>1. k \in (check.at * wide + 1)..Len(kept)
        BY <1>8, <3>1, <3>3
      <4> QED
        BY <1>4, <1>7, <1>9, <4>1
    <3> QED
      BY <1>8, <3>1, <3>2, <3>3
  <2> QED
    BY <2>1
<1>10. BridgeOK'
  BY <1>0, <1>1, <1>2, <1>5, <1>7, <1>9 DEF BridgeOK
<1>11. TypeOK'
  BY <1>0, <1>5, <1>6 DEF TypeOK, IsCheck
<1>12. ReceiptOK' /\ ReceiptsAreTrue'
  BY <1>0, <1>5, <1>6, NoCheckIsNone DEF ReceiptOK, ReceiptsAreTrue
<1> QED
  BY <1>10, <1>11, <1>12 DEF MerkleInv

(* When a bridge is accepted, the old log is how the new one starts. *)
LEMMA BridgedPrefix ==
    ASSUME MerkleInv, BridgeAccepted
    PROVE  IsPrefix(kept, log)
<1>0. /\ check.check = "consistency" /\ check.last = 0
      /\ check.old = root(Leaves(kept)) /\ check.new = root(Leaves(log))
      /\ log \in Seq(Entries) /\ kept \in Seq(Entries) /\ kept # <<>> /\ Len(kept) < Len(log)
  BY DEF BridgeAccepted, HeadRoot, MerkleInv, TypeOK, BridgeOK
<1>1. PICK leaves : leaves = Leaves(log) /\ Len(leaves) = Len(log) /\ Len(log) \in Nat
  BY <1>0, LeavesAre
<1>2. PICK olds : olds = Leaves(kept) /\ Len(olds) = Len(kept) /\ Len(kept) \in Nat
  BY <1>0, LeavesAre
<1>3. PICK at \in Nat : at = check.at
  BY <1>0, NoCheckIsNone DEF MerkleInv, TypeOK
<1>4. PICK wide \in Powers :
          /\ Place(at, 0, wide, Len(kept) - 1, Len(log))
          /\ /\ check.new = Node(leaves, at * wide, wide)
             /\ check.old = Node(olds, at * wide, wide)
             => \A k \in (at * wide + 1)..Len(kept) : kept[k] = log[k]
  BY <1>0, <1>1, <1>2, <1>3 DEF MerkleInv, BridgeOK
<1>5. PICK z \in Nat : z = Len(kept) - 1 /\ z < Len(leaves)
  <2>1. Len(kept) # 0
    BY <1>0, <1>2
  <2>2. Len(kept) - 1 \in Nat /\ Len(kept) - 1 < Len(leaves)
    BY <1>0, <1>1, <1>2, <2>1
  <2> QED
    BY <2>2
<1>6. at * wide = 0 /\ check.new = Node(leaves, at * wide, wide)
  <2>1. Place(at, 0, wide, z, Len(leaves))
    BY <1>1, <1>4, <1>5
  <2>2. at * wide = 0 /\ Node(leaves, at * wide, wide) = root(leaves)
    BY <1>1, <1>5, <2>1, EndsAtRoot
  <2> QED
    BY <1>0, <1>1, <2>2
<1>7. check.old = Node(olds, at * wide, wide)
  <2>1. wide \in Nat /\ Len(olds) - 1 < 0 + wide
    BY <1>2, <1>4, <1>6, PowersDouble DEF Place
  <2>2. Node(olds, 0, wide) = Roots(olds)[<<0, Len(olds)>>]
    BY <1>2, <2>1, NodeOfOld
  <2>3. root(olds) = Roots(olds)[<<0, Len(olds)>>]
    BY DEF root, Whole
  <2> QED
    BY <1>0, <1>2, <1>6, <2>2, <2>3
<1>8. \A k \in 1..Len(kept) : kept[k] = log[k]
  BY <1>4, <1>6, <1>7
<1>9. SubSeq(kept, 1, Len(kept)) = SubSeq(log, 1, Len(kept))
  BY <1>0, <1>1, <1>2, <1>8
<1> QED
  BY <1>0, <1>1, <1>2, <1>9 DEF IsPrefix

LEMMA KeepMerkle ==
    ASSUME MerkleInv, KeepFirst \/ BridgeAccepted
    PROVE  MerkleInv'
<1>1. kept' = log /\ check' = NoCheck /\ UNCHANGED <<log, claim>>
  BY DEF KeepFirst, BridgeAccepted
<1> QED
  BY <1>1, NoCheckIsNone DEF MerkleInv, TypeOK, ReceiptOK, BridgeOK, ReceiptsAreTrue

LEMMA RefuseMerkle ==
    ASSUME MerkleInv, Refuse
    PROVE  MerkleInv'
  BY NoCheckIsNone DEF Refuse, MerkleInv, TypeOK, ReceiptOK, BridgeOK, ReceiptsAreTrue

LEMMA EntriesMerkle ==
    ASSUME MerkleInv
    PROVE  /\ \A e \in Entries : AppendEntry(e) => MerkleInv'
           /\ \A k \in DOMAIN log, e \in Entries : Rewrite(k, e) => MerkleInv'
           /\ \A k \in DOMAIN log : Drop(k) => MerkleInv'
<1>0. log \in Seq(Entries)
  BY DEF MerkleInv, TypeOK
<1>1. ASSUME NEW e \in Entries, AppendEntry(e) PROVE MerkleInv'
  <2>1. log' \in Seq(Entries)
    BY <1>0, <1>1 DEF AppendEntry
  <2> QED
    BY <1>1, <2>1, LogMerkle DEF AppendEntry
<1>2. ASSUME NEW k \in DOMAIN log, NEW e \in Entries, Rewrite(k, e) PROVE MerkleInv'
  <2>1. log' \in Seq(Entries)
    BY <1>0, <1>2 DEF Rewrite, ReplaceAt
  <2> QED
    BY <1>2, <2>1, LogMerkle DEF Rewrite
<1>3. ASSUME NEW k \in DOMAIN log, Drop(k) PROVE MerkleInv'
  <2>1. /\ SubSeq(log, 1, k - 1) \in Seq(Entries)
        /\ SubSeq(log, k + 1, Len(log)) \in Seq(Entries)
    BY <1>0
  <2>2. log' \in Seq(Entries)
    BY <1>3, <2>1 DEF Drop, RemoveAt
  <2> QED
    BY <1>3, <2>2, LogMerkle DEF Drop
<1> QED
  BY <1>1, <1>2, <1>3

LEMMA MerkleInductive ==
    MerkleInv /\ [Next]_vars => MerkleInv'
<1>1. SUFFICES ASSUME MerkleInv, [Next]_vars PROVE MerkleInv'
  OBVIOUS
<1>2. CASE UNCHANGED vars
  BY <1>1, <1>2 DEF vars, MerkleInv, TypeOK, ReceiptOK, BridgeOK, ReceiptsAreTrue
<1>3. CASE \/ \E e \in Entries : AppendEntry(e)
           \/ \E k \in DOMAIN log, e \in Entries : Rewrite(k, e)
           \/ \E k \in DOMAIN log : Drop(k)
  BY <1>1, <1>3, EntriesMerkle
<1>4. CASE \E e \in Entries, index \in 0..(Len(log) - 1) : CheckReceipt(e, index)
  BY <1>1, <1>4, ReceiptMerkle
<1>5. CASE \E h \in Offered(log, kept, check) : ReceiptStep(h) \/ BridgeStep(h)
  BY <1>1, <1>5, ReceiptStepMerkle, BridgeStepMerkle
<1>6. CASE ReceiptAccepted
  BY <1>1, <1>6, AcceptedMerkle
<1>7. CASE \E h \in Offered(log, kept, check) : CheckSince(h)
  BY <1>1, <1>7, SinceMerkle
<1>8. CASE KeepFirst \/ BridgeAccepted
  BY <1>1, <1>8, KeepMerkle
<1>9. CASE Refuse
  BY <1>1, <1>9, RefuseMerkle
<1> QED
  BY <1>1, <1>2, <1>3, <1>4, <1>5, <1>6, <1>7, <1>8, <1>9 DEF Next

-----------------------------------------------------------------------------
(* What a check has come to, from the sender's log and the one kept, whatever
   hashes are handed over: the place it is at, and what its hashes would prove. *)
THEOREM MerkleInvariant == Spec => []MerkleInv
<1>1. Init => MerkleInv
  BY NoCheckIsNone DEF Init, MerkleInv, TypeOK, ReceiptOK, BridgeOK, ReceiptsAreTrue
<1> QED
  BY <1>1, MerkleInductive, PTL DEF Spec

(* receipt.rs, check_path: whatever path a sender makes up, a receipt is accepted
   only for the entry that is at that place of the log the head covers. *)
THEOREM ReceiptsProveEntries == Spec => []ReceiptsAreTrue
<1>1. MerkleInv => ReceiptsAreTrue
  BY DEF MerkleInv
<1> QED
  BY <1>1, MerkleInvariant, PTL

(* receipt.rs, check_since, over log.rs, verify_consistency: the log whose head a
   receiver keeps only ever grows, whatever was rewritten between two handovers and
   whatever bridges came. *)
THEOREM KeptLogGrows == Spec => KeptLogOnlyGrows
<1>1. ASSUME MerkleInv, [Next]_vars PROVE [IsPrefix(kept, kept')]_vars
  <2>1. CASE UNCHANGED vars
    BY <2>1
  <2>2. CASE BridgeAccepted
    BY <1>1, <2>2, BridgedPrefix DEF BridgeAccepted
  <2>3. CASE KeepFirst
    BY <1>1, <2>3 DEF KeepFirst, MerkleInv, TypeOK, IsPrefix
  <2>4. CASE UNCHANGED kept
    BY <1>1, <2>4 DEF MerkleInv, TypeOK, IsPrefix
  <2> QED
    BY <1>1, <2>1, <2>2, <2>3, <2>4
       DEF Next, AppendEntry, Rewrite, Drop, CheckReceipt, ReceiptStep, ReceiptAccepted,
           CheckSince, BridgeStep, Refuse
<1> QED
  BY <1>1, MerkleInvariant, PTL DEF Spec, KeptLogOnlyGrows

-----------------------------------------------------------------------------
(* The proofs of an honest sender: after the path of a node, a check stands at that
   node and holds its root, by induction over the widths of nodes. *)

LEMMA ProductGrows ==
    ASSUME NEW x \in Nat, NEW y \in Nat, NEW w \in Nat, x <= y
    PROVE  x * w \in Nat /\ y * w \in Nat /\ x * w <= y * w
<1>1. PICK k \in Nat : y = x + k
  <2>1. y - x \in Nat /\ y = x + (y - x)
    OBVIOUS
  <2> QED
    BY <2>1
<1>2. y * w = x * w + k * w /\ k * w \in Nat /\ x * w \in Nat
  BY <1>1
<1> QED
  BY <1>2

LEMMA ProductOnce ==
    ASSUME NEW x \in Nat, NEW y \in Nat, NEW w \in Nat, w # 0, x * w = y * w
    PROVE  x = y
<1>1. ASSUME NEW u \in Nat, NEW v \in Nat, u < v PROVE u * w # v * w
  <2>1. (u + 1) * w <= v * w /\ (u + 1) * w = u * w + w /\ u * w \in Nat
    BY <1>1, ProductGrows
  <2> QED
    BY <2>1
<1> QED
  BY <1>1

LEMMA PowersApart ==
    ASSUME NEW v \in Powers, NEW w \in Powers, v < w
    PROVE  v * 2 <= w
<1>1. v \in Nat /\ w \in Nat /\ w # 0
  BY PowersDouble
<1>2. ASSUME w < v * 2 PROVE FALSE
  <2>1. split_point(w + 1) = v
    BY <1>1, <1>2, SplitPoint
  <2>2. split_point(w + 1) = w
    BY <1>1, SplitPoint
  <2> QED
    BY <1>1, <2>1, <2>2
<1> QED
  BY <1>1, <1>2

LEMMA PowersDivide ==
    ASSUME NEW w \in Powers, NEW v \in Powers, w < v
    PROVE  \E m \in Nat : v = m * (w * 2)
<1>0. w \in Nat /\ w # 0
  BY PowersDouble
<1> DEFINE S == {x \in Powers : w < x => \E m \in Nat : x = m * (w * 2)}
<1>1. 1 \in S
  BY <1>0, PowersDouble
<1>2. ASSUME NEW x \in S PROVE x * 2 \in S
  <2>1. x \in Nat /\ x \in Powers /\ x * 2 \in Powers
    BY PowersDouble
  <2>2. CASE w < x
    <3>1. PICK m \in Nat : x = m * (w * 2)
      BY <2>2
    <3>2. m * 2 \in Nat /\ x * 2 = (m * 2) * (w * 2)
      BY <1>0, <3>1
    <3> QED
      BY <2>1, <3>2
  <2>3. CASE w = x
    <3>1. x * 2 = 1 * (w * 2)
      BY <1>0, <2>3
    <3> QED
      BY <2>1, <3>1
  <2>4. CASE x < w
    BY <1>0, <2>1, <2>4, PowersApart
  <2> QED
    BY <1>0, <2>1, <2>2, <2>3, <2>4
<1>3. v \in S
  <2>1. S \in SUBSET Nat
    BY PowersDouble
  <2> HIDE DEF S
  <2> QED
    BY <1>1, <1>2, <2>1, PowersOnly
<1> QED
  BY <1>3

(* A number is an odd multiple of one power of two. *)
LEMMA OddMultiple ==
    ASSUME NEW a \in Nat, NEW b \in Nat, NEW v \in Powers, NEW w \in Powers,
           a * (w * 2) + w = b * (v * 2) + v
    PROVE  v = w /\ a = b
<1>1. ASSUME NEW x \in Nat, NEW y \in Nat, NEW p \in Powers, NEW q \in Powers, p < q
      PROVE  x * (p * 2) + p # y * (q * 2) + q
  <2>0. p \in Nat /\ p # 0 /\ q \in Nat
    BY PowersDouble
  <2>1. PICK m \in Nat : q = m * (p * 2)
    BY <1>1, PowersDivide
  <2>2. PICK k \in Nat : k = (y * 2 + 1) * m
    BY <2>0
  <2>3. y * (q * 2) + q = k * (p * 2)
    <3>1. y * (q * 2) + q = (y * 2 + 1) * q
      BY <2>0
    <3>2. (y * 2 + 1) * (m * (p * 2)) = ((y * 2 + 1) * m) * (p * 2)
      BY <2>0
    <3> QED
      BY <2>1, <2>2, <3>1, <3>2
  <2>4. CASE k <= x
    <3>1. k * (p * 2) <= x * (p * 2) /\ x * (p * 2) \in Nat
      BY <2>0, <2>4, ProductGrows
    <3> QED
      BY <2>0, <2>3, <3>1
  <2>5. CASE x < k
    <3>1. (x + 1) * (p * 2) <= k * (p * 2)
      BY <2>0, <2>5, ProductGrows
    <3>2. (x + 1) * (p * 2) = x * (p * 2) + p * 2 /\ x * (p * 2) \in Nat
      BY <2>0
    <3> QED
      BY <2>0, <2>3, <3>1, <3>2
  <2> QED
    BY <2>4, <2>5
<1>2. v \in Nat /\ w \in Nat /\ w # 0
  BY PowersDouble
<1>3. v = w
  <2>1. ~(v < w)
    BY <1>1
  <2>2. ~(w < v)
    BY <1>1
  <2> QED
    BY <1>2, <2>1, <2>2
<1>4. a * (w * 2) = b * (w * 2)
  BY <1>2, <1>3
<1> QED
  BY <1>2, <1>3, <1>4, ProductOnce

(* A check stands at the node over the leaves from `from` on, which is as wide as
   said, or is narrower as the tree ends there. *)
Stands(c, wide, from, z, n) ==
    /\ IsCheck(c)
    /\ \E w \in Powers : /\ Place(c.at, c.last, w, z, n) /\ c.at * w = from
                         /\ w = wide \/ (w <= wide /\ n <= from + w)

(* What is not the place of a check is carried along. *)
SameHashes(c, d) == d.check = c.check /\ d.old = c.old /\ d.new = c.new

(* A round at the left half of a node, and at the right. *)
LEMMA StandsLeft ==
    ASSUME NEW c, NEW wide \in Powers, NEW a \in Nat, NEW z \in Nat, NEW n \in Nat, z < n,
           Stands(c, wide, a * (wide * 2), z, n), a * (wide * 2) + wide < n
    PROVE  /\ ~JoinsFromLeft(c) /\ c.last # 0
           /\ Stands(LevelUp(c), wide * 2, a * (wide * 2), z, n)
           /\ SameHashes(c, LevelUp(c))
<1>0. wide \in Nat /\ wide # 0 /\ wide * 2 \in Powers
  BY PowersDouble
<1>1. PICK from \in Nat : from = a * (wide * 2)
  BY <1>0
<1>2. PICK at \in Nat, last \in Nat : at = c.at /\ last = c.last
  BY DEF Stands, IsCheck
<1>3. Place(at, last, wide, z, n) /\ at * wide = from
  <2>1. PICK w \in Powers : /\ Place(at, last, w, z, n) /\ at * w = from
                            /\ w = wide \/ (w <= wide /\ n <= from + w)
    BY <1>1, <1>2 DEF Stands
  <2>2. w \in Nat
    BY PowersDouble
  <2> QED
    BY <1>0, <1>1, <2>1, <2>2
<1>4. at = a * 2
  <2>1. (a * 2) * wide = at * wide
    BY <1>0, <1>1, <1>3
  <2> QED
    BY <1>0, <2>1, ProductOnce
<1>5. at % 2 = 0 /\ at # last /\ last # 0
  <2>1. at # last
    BY <1>0, <1>1, <1>3 DEF Place
  <2>2. ASSUME last = 0 PROVE FALSE
    <3>1. last * wide = 0
      BY <1>0, <2>2
    <3> QED
      BY <1>0, <1>1, <1>3, <3>1 DEF Place
  <2> QED
    BY <1>4, <2>1, <2>2
<1>6. /\ Place(at \div 2, last \div 2, wide * 2, z, n)
      /\ (at \div 2) * (wide * 2) = from
  BY <1>3, <1>5, RisesRight
<1>7. PICK d : d = LevelUp(c)
  OBVIOUS
<1>8. IsCheck(d) /\ d.at = at \div 2 /\ d.last = last \div 2 /\ SameHashes(c, d)
  <2>1. PICK x \in Nat, y \in Nat : x = at \div 2 /\ y = last \div 2
    OBVIOUS
  <2>2. d = [c EXCEPT !.at = x, !.last = y]
    BY <1>2, <1>7, <2>1 DEF LevelUp
  <2>3. c = [f \in Fields |-> c[f]]
    BY DEF Stands, IsCheck
  <2> QED
    BY <2>1, <2>2, <2>3 DEF IsCheck, Fields, SameHashes
<1>9. Stands(d, wide * 2, from, z, n)
  BY <1>0, <1>6, <1>8 DEF Stands
<1> QED
  BY <1>1, <1>2, <1>5, <1>7, <1>8, <1>9 DEF JoinsFromLeft

LEMMA StandsRight ==
    ASSUME NEW c, NEW wide \in Powers, NEW a \in Nat, NEW z \in Nat, NEW n \in Nat, z < n,
           Stands(c, wide, a * (wide * 2) + wide, z, n), a * (wide * 2) + wide < n
    PROVE  /\ JoinsFromLeft(c) /\ c.last # 0
           /\ Stands(LevelUp(CarriedUp(c)), wide * 2, a * (wide * 2), z, n)
           /\ SameHashes(c, LevelUp(CarriedUp(c)))
<1>0. wide \in Nat /\ wide # 0 /\ wide * 2 \in Powers
  BY PowersDouble
<1>1. PICK from \in Nat : from = a * (wide * 2)
  BY <1>0
<1>2. PICK at \in Nat, last \in Nat : at = c.at /\ last = c.last /\ IsCheck(c)
  BY DEF Stands, IsCheck
<1>3. PICK w \in Powers : /\ Place(at, last, w, z, n) /\ at * w = from + wide
                          /\ w = wide \/ (w <= wide /\ n <= from + wide + w)
  BY <1>1, <1>2 DEF Stands
<1>4. w \in Nat /\ w # 0
  BY PowersDouble
<1>5. last # 0
  <2>1. ASSUME last = 0 PROVE FALSE
    <3>1. last * w = 0
      BY <1>4, <2>1
    <3> QED
      BY <1>0, <1>1, <1>3, <1>4, <3>1 DEF Place
  <2> QED
    BY <2>1
<1>6. JoinsFromLeft(c)
  <2>1. CASE w = wide
    <3>1. (a * 2 + 1) * wide = at * wide
      BY <1>0, <1>1, <1>3, <2>1
    <3>2. at = a * 2 + 1
      BY <1>0, <3>1, ProductOnce
    <3> QED
      BY <1>2, <3>2 DEF JoinsFromLeft
  <2>2. CASE n <= from + wide + w
    <3>1. ASSUME at < last PROVE FALSE
      <4>1. (at + 1) * w <= last * w /\ (at + 1) * w = at * w + w
        BY <1>4, <3>1, ProductGrows
      <4> QED
        BY <1>0, <1>1, <1>3, <1>4, <2>2, <4>1 DEF Place
    <3>2. ASSUME last < at PROVE FALSE
      <4>1. (last + 1) * w <= at * w /\ (last + 1) * w = last * w + w
        BY <1>4, <3>2, ProductGrows
      <4> QED
        BY <1>0, <1>1, <1>3, <1>4, <4>1 DEF Place
    <3> QED
      BY <1>2, <3>1, <3>2 DEF JoinsFromLeft
  <2> QED
    BY <1>3, <2>1, <2>2
<1>7. PICK x \in Nat, l \in Nat, v \in Powers :
          /\ LevelUp(CarriedUp(c)) = [c EXCEPT !.at = x, !.last = l]
          /\ Place(x, l, v * 2, z, n)
          /\ x * (v * 2) + v = at * w
  <2>1. Place(c.at, c.last, w, z, n) /\ c.last # 0
    BY <1>2, <1>3, <1>5
  <2>2. c = [f \in Fields |-> c[f]] /\ c.at \in Nat /\ c.last \in Nat
    BY <1>2 DEF IsCheck
  <2>3. \E x, l \in Nat, v \in Powers :
            /\ LevelUp(CarriedUp(c)) = [c EXCEPT !.at = x, !.last = l]
            /\ Place(x, l, v * 2, z, n)
            /\ x * (v * 2) + v = c.at * w
            /\ v = w \/ (w <= v /\ n <= c.at * w + w)
    BY <1>6, <2>1, <2>2, RisesLeft
  <2> QED
    BY <1>2, <2>3
<1>8. v = wide /\ x = a
  BY <1>1, <1>3, <1>7, OddMultiple
<1>9. PICK d : d = LevelUp(CarriedUp(c))
  OBVIOUS
<1>10. IsCheck(d) /\ d.at = a /\ d.last = l /\ SameHashes(c, d)
  BY <1>2, <1>7, <1>8, <1>9 DEF IsCheck, Fields, SameHashes
<1>11. Stands(d, wide * 2, from, z, n)
  <2>1. Place(d.at, d.last, wide * 2, z, n) /\ d.at * (wide * 2) = from
    BY <1>1, <1>7, <1>8, <1>10
  <2> QED
    BY <1>0, <1>10, <2>1 DEF Stands
<1> QED
  BY <1>1, <1>2, <1>5, <1>6, <1>9, <1>10, <1>11

LEMMA StandsAtTop ==
    ASSUME NEW c, NEW wide \in Powers, NEW z \in Nat, NEW n \in Nat, z < n, n <= wide,
           Stands(c, wide, 0, z, n)
    PROVE  c.last = 0
<1>0. PICK last \in Nat : last = c.last
  BY DEF Stands, IsCheck
<1>1. PICK w \in Powers : Place(c.at, last, w, z, n) /\ n <= w
  <2>1. PICK w \in Powers : /\ Place(c.at, last, w, z, n)
                            /\ w = wide \/ (w <= wide /\ n <= 0 + w)
    BY <1>0 DEF Stands
  <2>2. w \in Nat
    BY PowersDouble
  <2> QED
    BY <2>1, <2>2
<1>2. w \in Nat
  BY PowersDouble
<1>3. ASSUME last # 0 PROVE FALSE
  <2>1. 1 * w <= last * w
    BY <1>2, <1>3, ProductGrows
  <2> QED
    BY <1>1, <1>2, <2>1 DEF Place
<1> QED
  BY <1>0, <1>3

(* A proof over each slice: nothing but `seed` where the slice is in `ends` or is a
   single leaf, and the root of the half that does not hold the place above it. *)
PathBy(leaves, place, ends, seed, path) ==
    [slice \in Slices(leaves) |->
        IF slice \in ends \/ Width(slice) <= 1 THEN seed[slice]
        ELSE IF place < Cut(slice)
        THEN Append(path[Left(slice)], Roots(leaves)[Right(slice)])
        ELSE Append(path[Right(slice)], Roots(leaves)[Left(slice)])]

LEMMA PathEnds ==
    ASSUME NEW leaves, Len(leaves) \in Nat, NEW place \in Nat, NEW ends, NEW seed
    PROVE  \E path : path = PathBy(leaves, place, ends, seed, path)
<1> DEFINE
      By(path) == PathBy(leaves, place, ends, seed, path)
      Ok(path, n) == \A slice \in Slices(leaves) :
                         Width(slice) <= n => path[slice] = By(path)[slice]
      T == {n \in Nat : \E path : Ok(path, n)}
<1>1. 0 \in T
  <2>1. PICK path : path = [slice \in Slices(leaves) |-> seed[slice]]
    OBVIOUS
  <2>2. Ok(path, 0)
    BY <2>1 DEF PathBy, Slices, Width
  <2> QED
    BY <2>2
<1>2. ASSUME NEW n \in Nat, n \in T PROVE n + 1 \in T
  <2>1. PICK path : Ok(path, n)
    BY <1>2
  <2>2. PICK more : more = By(path)
    OBVIOUS
  <2>3. ASSUME NEW slice \in Slices(leaves), Width(slice) <= n + 1
        PROVE  more[slice] = By(more)[slice]
    <3>0. Width(slice) \in Int
      BY DEF Slices, Width
    <3>1. CASE Width(slice) > 1
      <4>1. /\ Left(slice) \in Slices(leaves) /\ Width(Left(slice)) <= n
            /\ Right(slice) \in Slices(leaves) /\ Width(Right(slice)) <= n
        <5>1. Width(Left(slice)) \in Int /\ Width(Right(slice)) \in Int
          BY <3>1, CutsInside DEF Slices, Width
        <5> QED
          BY <2>3, <3>0, <3>1, <5>1, CutsInside
      <4>2. more[Left(slice)] = path[Left(slice)] /\ more[Right(slice)] = path[Right(slice)]
        BY <2>1, <2>2, <4>1
      <4> QED
        BY <2>2, <4>2 DEF PathBy
    <3>2. CASE ~(Width(slice) > 1)
      BY <2>2, <3>0, <3>2 DEF PathBy
    <3> QED
      BY <3>1, <3>2
  <2>4. Ok(more, n + 1)
    BY <2>3
  <2> HIDE DEF Ok
  <2> QED
    BY <2>4
<1>3. Len(leaves) \in T
  <2> HIDE DEF T
  <2> QED
    BY <1>1, <1>2, StepInduction
<1>4. PICK path : Ok(path, Len(leaves))
  BY <1>3
<1>5. \A slice \in Slices(leaves) : Width(slice) <= Len(leaves)
  BY DEF Slices, Width
<1>6. PICK all : all = [slice \in Slices(leaves) |-> path[slice]]
  OBVIOUS
<1>7. ASSUME NEW slice \in Slices(leaves) PROVE all[slice] = By(all)[slice]
  <2>0. path[slice] = By(path)[slice] /\ Width(slice) \in Int
    BY <1>4, <1>5 DEF Slices, Width
  <2>1. CASE Width(slice) > 1
    <3>1. all[Left(slice)] = path[Left(slice)] /\ all[Right(slice)] = path[Right(slice)]
      BY <1>6, <2>1, CutsInside
    <3> QED
      BY <1>6, <2>0, <3>1 DEF PathBy
  <2>2. CASE ~(Width(slice) > 1)
    BY <1>6, <2>0, <2>2 DEF PathBy
  <2> QED
    BY <2>1, <2>2
<1>8. PICK by : by = By(all)
  OBVIOUS
<1>9. by = [slice \in Slices(leaves) |-> by[slice]]
  BY <1>8 DEF PathBy
<1>10. all = by
  <2>1. \A slice \in Slices(leaves) : all[slice] = by[slice]
    BY <1>7, <1>8
  <2> QED
    BY <1>6, <1>9, <2>1
<1> QED
  BY <1>8, <1>10

(* The two proofs, as the paths that are asked for. *)
LEMMA InclusionProofBy ==
    ASSUME NEW leaves, Len(leaves) \in Nat, NEW index \in Nat
    PROVE  \E path : /\ inclusion_proof(leaves, index) = path[Whole(leaves)]
                    /\ path = PathBy(leaves, index, {}, [s \in Slices(leaves) |-> <<>>], path)
<1> DEFINE
      Round(path) == [slice \in Slices(leaves) |->
            IF Width(slice) <= 1 THEN <<>>
            ELSE IF index < Cut(slice)
            THEN Append(path[Left(slice)], Roots(leaves)[Right(slice)])
            ELSE Append(path[Right(slice)], Roots(leaves)[Left(slice)])]
      path == CHOOSE path : path = Round(path)
<1>1. inclusion_proof(leaves, index) = path[Whole(leaves)]
  BY DEF inclusion_proof
<1>2. ASSUME NEW p PROVE PathBy(leaves, index, {}, [s \in Slices(leaves) |-> <<>>], p) = Round(p)
  BY DEF PathBy
<1>3. PICK p : p = PathBy(leaves, index, {}, [s \in Slices(leaves) |-> <<>>], p)
  BY PathEnds
<1>4. \E q : q = Round(q)
  <2>1. p = Round(p)
    BY <1>2, <1>3
  <2> HIDE DEF Round
  <2> QED
    BY <2>1
<1>5. path = Round(path)
  <2> HIDE DEF Round
  <2> QED
    BY <1>4, Zenon
<1> HIDE DEF path, Round
<1> QED
  BY <1>1, <1>2, <1>5

OldSlices(leaves, old) == {slice \in Slices(leaves) : slice[2] = old}

OldSeed(leaves) ==
    [slice \in Slices(leaves) |-> IF slice[1] = 0 THEN <<>> ELSE <<Roots(leaves)[slice]>>]

LEMMA ConsistencyProofBy ==
    ASSUME NEW leaves, Len(leaves) \in Nat, NEW old \in Nat, old # 0
    PROVE  \E path : /\ consistency_proof(leaves, old) = path[Whole(leaves)]
                    /\ path = PathBy(leaves, old - 1, OldSlices(leaves, old), OldSeed(leaves), path)
<1> DEFINE
      Round(path) == [slice \in Slices(leaves) |->
            IF old = slice[2] \/ Width(slice) <= 1
            THEN IF slice[1] = 0 THEN <<>> ELSE <<Roots(leaves)[slice]>>
            ELSE IF old <= Cut(slice)
            THEN Append(path[Left(slice)], Roots(leaves)[Right(slice)])
            ELSE Append(path[Right(slice)], Roots(leaves)[Left(slice)])]
      path == CHOOSE path : path = Round(path)
      By(p) == PathBy(leaves, old - 1, OldSlices(leaves, old), OldSeed(leaves), p)
<1>1. consistency_proof(leaves, old) = path[Whole(leaves)]
  BY DEF consistency_proof
<1>2. ASSUME NEW p PROVE By(p) = Round(p)
  <2>1. ASSUME NEW slice \in Slices(leaves) PROVE By(p)[slice] = Round(p)[slice]
    <3>1. slice \in OldSlices(leaves, old) <=> old = slice[2]
      BY DEF OldSlices
    <3>2. CASE old = slice[2] \/ Width(slice) <= 1
      BY <3>1, <3>2 DEF PathBy, OldSeed
    <3>3. CASE ~(old = slice[2] \/ Width(slice) <= 1)
      <4>1. Width(slice) > 1
        BY <3>3 DEF Slices, Width
      <4>2. Cut(slice) \in Nat
        BY <4>1, CutsInside
      <4>3. old - 1 < Cut(slice) <=> old <= Cut(slice)
        BY <4>2
      <4> QED
        BY <3>1, <3>3, <4>3 DEF PathBy
    <3> QED
      BY <3>2, <3>3
  <2> QED
    BY <2>1 DEF PathBy
<1>3. PICK p : p = By(p)
  <2>1. old - 1 \in Nat
    OBVIOUS
  <2> QED
    BY <2>1, PathEnds
<1>4. \E q : q = Round(q)
  <2>1. p = Round(p)
    BY <1>2, <1>3
  <2> HIDE DEF Round
  <2> QED
    BY <2>1
<1>5. path = Round(path)
  <2> HIDE DEF Round
  <2> QED
    BY <1>4, Zenon
<1> HIDE DEF path, Round
<1> QED
  BY <1>1, <1>2, <1>5

IsPath(path, leaves, place, ends, seed) == path = PathBy(leaves, place, ends, seed, path)

InclusionPath(path, leaves, index) ==
    IsPath(path, leaves, index, {}, [s \in Slices(leaves) |-> <<>>])

(* What a node's path is, of that of one half and the root of the other. *)
PathOf(path, leaves, from, wide) == path[<<from, Upto(from, wide, Len(leaves))>>]

LEMMA PathOfTwo ==
    ASSUME NEW leaves, Len(leaves) \in Nat, NEW place \in Nat, NEW ends, NEW seed, NEW path,
           IsPath(path, leaves, place, ends, seed),
           NEW from \in Nat, NEW wide \in Powers, from + wide < Len(leaves),
           <<from, Upto(from, wide * 2, Len(leaves))>> \notin ends
    PROVE  PathOf(path, leaves, from, wide * 2) =
               IF place < from + wide
               THEN Append(PathOf(path, leaves, from, wide), Node(leaves, from + wide, wide))
               ELSE Append(PathOf(path, leaves, from + wide, wide), Node(leaves, from, wide))
<1>0. wide \in Nat /\ wide # 0
  BY PowersDouble
<1>1. PICK to \in 0..Len(leaves) : to = Upto(from, wide * 2, Len(leaves))
  BY <1>0 DEF Upto
<1>2. /\ to = Upto(from + wide, wide, Len(leaves)) /\ from + wide = Upto(from, wide, Len(leaves))
      /\ wide < to - from /\ to - from <= wide * 2 /\ from \in 0..Len(leaves) /\ to - from \in Nat
  BY <1>0, <1>1 DEF Upto
<1>3. PICK slice \in Slices(leaves) : slice = <<from, to>>
  BY <1>1, <1>2 DEF Slices
<1>4. slice \notin ends /\ ~(Width(slice) <= 1) /\ split_point(Width(slice)) = wide
  <2>1. Width(slice) = to - from
    BY <1>3 DEF Width
  <2> QED
    BY <1>0, <1>1, <1>2, <1>3, <2>1, SplitPoint
<1>5. /\ Cut(slice) = from + wide
      /\ Left(slice) = <<from, from + wide>> /\ Right(slice) = <<from + wide, to>>
  BY <1>3, <1>4 DEF Cut, Left, Right
<1>6. path[slice] = PathBy(leaves, place, ends, seed, path)[slice]
  BY DEF IsPath
<1>7. path[slice] = IF place < Cut(slice)
                    THEN Append(path[Left(slice)], Roots(leaves)[Right(slice)])
                    ELSE Append(path[Right(slice)], Roots(leaves)[Left(slice)])
  BY <1>4, <1>6 DEF PathBy
<1> QED
  BY <1>1, <1>2, <1>3, <1>5, <1>7 DEF PathOf, Node

(* The turns of a check over a whole path. *)
Turn(kind, c, step) == IF kind = "consistency" THEN ConsistencyStep(c, step) ELSE InclusionStep(c, step)

TurnsBy(kind, start, path, run) ==
    [k \in 0..Len(path) |-> IF k = 0 THEN start ELSE Turn(kind, run[k - 1], path[k])]

RunsOver(run, kind, start, path) ==
    run[0] = start /\ \A k \in 1..Len(path) : run[k] = Turn(kind, run[k - 1], path[k])

LEMMA TurnsEnd ==
    ASSUME NEW kind, NEW start, NEW path, Len(path) \in Nat
    PROVE  \E run : run = TurnsBy(kind, start, path, run)
<1> DEFINE
      By(run) == TurnsBy(kind, start, path, run)
      Ok(run, n) == \A k \in 0..Len(path) : k <= n => run[k] = By(run)[k]
      T == {n \in Nat : \E run : Ok(run, n)}
<1>1. 0 \in T
  <2>1. PICK run : run = [k \in 0..Len(path) |-> start]
    OBVIOUS
  <2>2. Ok(run, 0)
    BY <2>1 DEF TurnsBy
  <2> QED
    BY <2>2
<1>2. ASSUME NEW n \in Nat, n \in T PROVE n + 1 \in T
  <2>1. PICK run : Ok(run, n)
    BY <1>2
  <2>2. PICK more : more = By(run)
    OBVIOUS
  <2>3. ASSUME NEW k \in 0..Len(path), k <= n + 1 PROVE more[k] = By(more)[k]
    <3>1. CASE k = 0
      BY <2>2, <3>1 DEF TurnsBy
    <3>2. CASE k # 0
      <4>1. k - 1 \in 0..Len(path) /\ k - 1 <= n
        BY <2>3, <3>2
      <4>2. more[k - 1] = run[k - 1]
        BY <2>1, <2>2, <4>1
      <4> QED
        BY <2>2, <3>2, <4>2 DEF TurnsBy
    <3> QED
      BY <3>1, <3>2
  <2>4. Ok(more, n + 1)
    BY <2>3
  <2> HIDE DEF Ok
  <2> QED
    BY <2>4
<1>3. Len(path) \in T
  <2> HIDE DEF T
  <2> QED
    BY <1>1, <1>2, StepInduction
<1>4. PICK run : \A k \in 0..Len(path) : k <= Len(path) => run[k] = By(run)[k]
  BY <1>3
<1>5. PICK all : all = [k \in 0..Len(path) |-> run[k]]
  OBVIOUS
<1>6. ASSUME NEW k \in 0..Len(path) PROVE all[k] = By(all)[k]
  <2>1. run[k] = By(run)[k]
    BY <1>4
  <2>2. k # 0 => all[k - 1] = run[k - 1]
    <3>1. ASSUME k # 0 PROVE k - 1 \in 0..Len(path)
      BY <3>1
    <3> QED
      BY <1>5, <3>1
  <2> QED
    BY <1>5, <2>1, <2>2 DEF TurnsBy
<1>7. PICK by : by = By(all)
  OBVIOUS
<1>8. by = [k \in 0..Len(path) |-> by[k]]
  BY <1>7 DEF TurnsBy
<1>9. all = by
  <2>1. \A k \in 0..Len(path) : all[k] = by[k]
    BY <1>6, <1>7
  <2> QED
    BY <1>5, <1>8, <2>1
<1> QED
  BY <1>7, <1>9

LEMMA TurnsRun ==
    ASSUME NEW kind, NEW start, NEW path, Len(path) \in Nat, NEW run,
           run = TurnsBy(kind, start, path, run)
    PROVE  RunsOver(run, kind, start, path)
<1>1. ASSUME NEW k \in 0..Len(path)
      PROVE  run[k] = IF k = 0 THEN start ELSE Turn(kind, run[k - 1], path[k])
  <2>1. run[k] = TurnsBy(kind, start, path, run)[k]
    OBVIOUS
  <2> QED
    BY <2>1 DEF TurnsBy
<1>2. 0 \in 0..Len(path) /\ \A k \in 1..Len(path) : k \in 0..Len(path) /\ k # 0
  OBVIOUS
<1>3. run[0] = start
  BY <1>1, <1>2
<1>4. ASSUME NEW k \in 1..Len(path) PROVE run[k] = Turn(kind, run[k - 1], path[k])
  BY <1>1, <1>2
<1> QED
  BY <1>3, <1>4 DEF RunsOver

LEMMA OneMoreTurn ==
    ASSUME NEW H, NEW path \in Seq(H), NEW x \in H, NEW run, NEW kind, NEW start,
           RunsOver(run, kind, start, Append(path, x))
    PROVE  /\ RunsOver(run, kind, start, path)
           /\ run[Len(path) + 1] = Turn(kind, run[Len(path)], x)
<1>1. PICK more \in Seq(H) : more = Append(path, x) /\ Len(more) = Len(path) + 1
  <2>1. Append(path, x) \in Seq(H) /\ Len(Append(path, x)) = Len(path) + 1
    OBVIOUS
  <2> QED
    BY <2>1
<1>2. \A k \in 1..Len(path) : k \in 1..Len(more) /\ more[k] = path[k]
  BY <1>1
<1>3. more[Len(path) + 1] = x /\ Len(path) + 1 \in 1..Len(more) /\ (Len(path) + 1) - 1 = Len(path)
  BY <1>1
<1>4. run[0] = start /\ \A k \in 1..Len(more) : run[k] = Turn(kind, run[k - 1], more[k])
  BY <1>1 DEF RunsOver
<1>5. \A k \in 1..Len(path) : run[k] = Turn(kind, run[k - 1], path[k])
  BY <1>2, <1>4
<1>6. run[Len(path) + 1] = Turn(kind, run[(Len(path) + 1) - 1], more[Len(path) + 1])
  BY <1>3, <1>4
<1> QED
  BY <1>3, <1>4, <1>5, <1>6 DEF RunsOver

Hashes(leaves) == {Roots(leaves)[slice] : slice \in Slices(leaves)}

LEMMA NodeIsHash ==
    ASSUME NEW leaves, Len(leaves) \in Nat, NEW from \in Nat, from <= Len(leaves), NEW wide \in Nat
    PROVE  Node(leaves, from, wide) \in Hashes(leaves)
<1>1. <<from, Upto(from, wide, Len(leaves))>> \in Slices(leaves)
  BY DEF Slices, Upto
<1> QED
  BY <1>1 DEF Node, Hashes

(* Places of a level are multiples of its width. *)
Multiple(from, wide) == \E a \in Nat : from = a * wide

(* A turn with the root of the half to the right, or to the left. *)
LEMMA JoinsRight ==
    ASSUME NEW kind, NEW leaves, Len(leaves) \in Nat, NEW z \in Nat, z < Len(leaves),
           NEW wide \in Powers, NEW from \in Nat, Multiple(from, wide * 2),
           from + wide < Len(leaves), NEW c, NEW d,
           Stands(c, wide, from, z, Len(leaves)),
           c.new = Node(leaves, from, wide),
           d = Turn(kind, c, Node(leaves, from + wide, wide))
    PROVE  /\ c.last # 0 /\ Stands(d, wide * 2, from, z, Len(leaves))
           /\ d.new = Node(leaves, from, wide * 2) /\ d.old = c.old
<1>2. PICK n \in Nat : n = Len(leaves) /\ z < n
  OBVIOUS
<1>3. PICK b : b = [c EXCEPT !.new = node_hash(@, Node(leaves, from + wide, wide))]
  OBVIOUS
<1>4. /\ IsCheck(b) /\ b.at = c.at /\ b.last = c.last /\ b.old = c.old
      /\ b.new = node_hash(c.new, Node(leaves, from + wide, wide))
  BY <1>3 DEF Stands, IsCheck, Fields
<1>5. Stands(b, wide, from, z, n)
  BY <1>2, <1>4 DEF Stands
<1>6. /\ ~JoinsFromLeft(b) /\ b.last # 0
      /\ Stands(LevelUp(b), wide * 2, from, z, n) /\ SameHashes(b, LevelUp(b))
  <2>1. PICK a \in Nat : from = a * (wide * 2)
    BY DEF Multiple
  <2> QED
    BY <1>2, <1>5, <2>1, StandsLeft
<1>7. d = LevelUp(b)
  BY <1>3, <1>4, <1>6 DEF Turn, InclusionStep, ConsistencyStep, JoinsFromLeft
<1>8. b.new = Node(leaves, from, wide * 2)
  BY <1>4, NodeOfTwo
<1> QED
  BY <1>2, <1>4, <1>6, <1>7, <1>8 DEF SameHashes

LEMMA JoinsLeft ==
    ASSUME NEW kind, NEW leaves, Len(leaves) \in Nat, NEW z \in Nat, z < Len(leaves),
           NEW wide \in Powers, NEW from \in Nat, Multiple(from, wide * 2),
           from + wide < Len(leaves), NEW c, NEW d,
           Stands(c, wide, from + wide, z, Len(leaves)),
           c.new = Node(leaves, from + wide, wide),
           d = Turn(kind, c, Node(leaves, from, wide))
    PROVE  /\ c.last # 0 /\ Stands(d, wide * 2, from, z, Len(leaves))
           /\ d.new = Node(leaves, from, wide * 2)
           /\ kind = "consistency" => d.old = node_hash(Node(leaves, from, wide), c.old)
<1>2. PICK n \in Nat : n = Len(leaves) /\ z < n
  OBVIOUS
<1>3. PICK b : b = IF kind = "consistency"
                   THEN [c EXCEPT !.new = node_hash(Node(leaves, from, wide), @),
                                  !.old = node_hash(Node(leaves, from, wide), @)]
                   ELSE [c EXCEPT !.new = node_hash(Node(leaves, from, wide), @)]
  OBVIOUS
<1>4. /\ IsCheck(b) /\ b.at = c.at /\ b.last = c.last
      /\ b.new = node_hash(Node(leaves, from, wide), c.new)
      /\ kind = "consistency" => b.old = node_hash(Node(leaves, from, wide), c.old)
  BY <1>3 DEF Stands, IsCheck, Fields
<1>5. Stands(b, wide, from + wide, z, n)
  BY <1>2, <1>4 DEF Stands
<1>6. /\ JoinsFromLeft(b) /\ b.last # 0
      /\ Stands(LevelUp(CarriedUp(b)), wide * 2, from, z, n)
      /\ SameHashes(b, LevelUp(CarriedUp(b)))
  <2>1. PICK a \in Nat : from = a * (wide * 2)
    BY DEF Multiple
  <2> QED
    BY <1>2, <1>5, <2>1, StandsRight
<1>7. d = LevelUp(CarriedUp(b))
  BY <1>3, <1>4, <1>6 DEF Turn, InclusionStep, ConsistencyStep, JoinsFromLeft
<1>8. b.new = Node(leaves, from, wide * 2)
  BY <1>4, NodeOfTwo
<1> QED
  BY <1>2, <1>4, <1>6, <1>7, <1>8 DEF SameHashes

(* After the path of a node, a check that started at a leaf under it stands at that
   node with its root, and did not stand at the top before. *)
Arrives(run, m, leaves, z, from, wide) ==
    /\ \A k \in 0..(m - 1) : run[k].last # 0
    /\ Stands(run[m], wide, from, z, Len(leaves))
    /\ run[m].new = Node(leaves, from, wide)

InclusionClimb(leaves, z, path, from, wide) ==
    LET p == PathOf(path, leaves, from, wide) IN
    /\ p \in Seq(Hashes(leaves))
    /\ \A run : RunsOver(run, "inclusion", InclusionStart(leaves[z + 1], z, Len(leaves)), p) =>
                    Arrives(run, Len(p), leaves, z, from, wide)

(* Where the tree ends before the right half begins, a node is its left half. *)
LEMMA NodeIsLeft ==
    ASSUME NEW leaves, Len(leaves) \in Nat, NEW from \in Nat, NEW wide \in Powers,
           Len(leaves) <= from + wide
    PROVE  /\ Upto(from, wide * 2, Len(leaves)) = Upto(from, wide, Len(leaves))
           /\ \A path : PathOf(path, leaves, from, wide * 2) = PathOf(path, leaves, from, wide)
           /\ Node(leaves, from, wide * 2) = Node(leaves, from, wide)
           /\ \A c, z : Stands(c, wide, from, z, Len(leaves)) =>
                            Stands(c, wide * 2, from, z, Len(leaves))
<1>0. wide \in Nat /\ wide # 0
  BY PowersDouble
<1>1. Upto(from, wide * 2, Len(leaves)) = Upto(from, wide, Len(leaves))
  BY <1>0 DEF Upto
<1>2. ASSUME NEW c, NEW z, Stands(c, wide, from, z, Len(leaves))
      PROVE  Stands(c, wide * 2, from, z, Len(leaves))
  <2>1. PICK w \in Powers : /\ Place(c.at, c.last, w, z, Len(leaves)) /\ c.at * w = from
                            /\ w = wide \/ (w <= wide /\ Len(leaves) <= from + w)
    BY <1>2 DEF Stands
  <2>2. w \in Nat
    BY PowersDouble
  <2>3. w <= wide * 2 /\ Len(leaves) <= from + w
    BY <1>0, <2>1, <2>2
  <2> QED
    BY <1>2, <2>1, <2>3 DEF Stands
<1> QED
  BY <1>1, <1>2 DEF PathOf, Node

(* One more hash, of the other half, takes the check from a half to the node. *)
LEMMA InclusionClimbsOn ==
    ASSUME NEW leaves, Len(leaves) \in Nat, NEW z \in Nat, z < Len(leaves), NEW path,
           InclusionPath(path, leaves, z),
           NEW w \in Powers, NEW from \in Nat, Multiple(from, w * 2),
           from <= z, z < from + w * 2,
           z < from + w => InclusionClimb(leaves, z, path, from, w),
           from + w <= z => InclusionClimb(leaves, z, path, from + w, w)
    PROVE  InclusionClimb(leaves, z, path, from, w * 2)
<1>0. w \in Nat /\ w # 0
  BY PowersDouble
<1>5. CASE Len(leaves) <= from + w
  <2>1. InclusionClimb(leaves, z, path, from, w)
    BY <1>0, <1>5
  <2>2. /\ PathOf(path, leaves, from, w * 2) = PathOf(path, leaves, from, w)
        /\ Node(leaves, from, w * 2) = Node(leaves, from, w)
        /\ \A c : Stands(c, w, from, z, Len(leaves)) => Stands(c, w * 2, from, z, Len(leaves))
    BY <1>5, NodeIsLeft
  <2>3. \A run, m : Arrives(run, m, leaves, z, from, w) => Arrives(run, m, leaves, z, from, w * 2)
    BY <2>2 DEF Arrives
  <2> QED
    BY <2>1, <2>2, <2>3 DEF InclusionClimb
<1>6. CASE from + w < Len(leaves)
  <2>1. Node(leaves, from, w) \in Hashes(leaves) /\ Node(leaves, from + w, w) \in Hashes(leaves)
    <3>1. PICK mid \in Nat : mid = from + w /\ mid <= Len(leaves)
      BY <1>0, <1>6
    <3> QED
      BY <1>0, <1>6, <3>1, NodeIsHash
  <2>2. PICK q : q = PathOf(path, leaves, from, w * 2)
    OBVIOUS
  <2>3. q = IF z < from + w
            THEN Append(PathOf(path, leaves, from, w), Node(leaves, from + w, w))
            ELSE Append(PathOf(path, leaves, from + w, w), Node(leaves, from, w))
    <3>1. PICK ends, seed : /\ IsPath(path, leaves, z, ends, seed)
                            /\ <<from, Upto(from, w * 2, Len(leaves))>> \notin ends
      BY DEF InclusionPath
    <3>2. PathOf(path, leaves, from, w * 2) =
              IF z < from + w
              THEN Append(PathOf(path, leaves, from, w), Node(leaves, from + w, w))
              ELSE Append(PathOf(path, leaves, from + w, w), Node(leaves, from, w))
      BY <1>6, <3>1, PathOfTwo
    <3> QED
      BY <2>2, <3>2
  <2>4. CASE z < from + w
    <3>1. PICK p \in Seq(Hashes(leaves)) : p = PathOf(path, leaves, from, w)
      BY <2>4 DEF InclusionClimb
    <3>2. q = Append(p, Node(leaves, from + w, w))
      BY <2>3, <2>4, <3>1
    <3>3. q \in Seq(Hashes(leaves)) /\ Len(q) = Len(p) + 1 /\ Len(p) \in Nat
      BY <2>1, <3>1, <3>2
    <3>4. ASSUME NEW run,
                 RunsOver(run, "inclusion", InclusionStart(leaves[z + 1], z, Len(leaves)), q)
          PROVE  Arrives(run, Len(q), leaves, z, from, w * 2)
      <4>1. /\ RunsOver(run, "inclusion", InclusionStart(leaves[z + 1], z, Len(leaves)), p)
            /\ run[Len(p) + 1] = Turn("inclusion", run[Len(p)], Node(leaves, from + w, w))
        BY <2>1, <3>2, <3>4, OneMoreTurn
      <4>2. Arrives(run, Len(p), leaves, z, from, w)
        BY <2>4, <3>1, <4>1 DEF InclusionClimb
      <4>3. PICK c, d : c = run[Len(p)] /\ d = run[Len(p) + 1]
        OBVIOUS
      <4>4. Stands(c, w, from, z, Len(leaves)) /\ c.new = Node(leaves, from, w)
        BY <4>2, <4>3 DEF Arrives
      <4>5. d = Turn("inclusion", c, Node(leaves, from + w, w))
        BY <4>1, <4>3
      <4>6. /\ c.last # 0 /\ Stands(d, w * 2, from, z, Len(leaves))
            /\ d.new = Node(leaves, from, w * 2)
        BY <1>6, <4>4, <4>5, JoinsRight
      <4> QED
        BY <3>3, <4>2, <4>3, <4>6 DEF Arrives
    <3> QED
      BY <2>2, <3>3, <3>4 DEF InclusionClimb
  <2>5. CASE ~(z < from + w)
    <3>0. from + w <= z
      BY <1>0, <2>5
    <3>1. PICK p \in Seq(Hashes(leaves)) : p = PathOf(path, leaves, from + w, w)
      BY <3>0 DEF InclusionClimb
    <3>2. q = Append(p, Node(leaves, from, w))
      BY <2>3, <2>5, <3>1
    <3>3. q \in Seq(Hashes(leaves)) /\ Len(q) = Len(p) + 1 /\ Len(p) \in Nat
      BY <2>1, <3>1, <3>2
    <3>4. ASSUME NEW run,
                 RunsOver(run, "inclusion", InclusionStart(leaves[z + 1], z, Len(leaves)), q)
          PROVE  Arrives(run, Len(q), leaves, z, from, w * 2)
      <4>1. /\ RunsOver(run, "inclusion", InclusionStart(leaves[z + 1], z, Len(leaves)), p)
            /\ run[Len(p) + 1] = Turn("inclusion", run[Len(p)], Node(leaves, from, w))
        BY <2>1, <3>2, <3>4, OneMoreTurn
      <4>2. Arrives(run, Len(p), leaves, z, from + w, w)
        BY <3>0, <3>1, <4>1 DEF InclusionClimb
      <4>3. PICK c, d : c = run[Len(p)] /\ d = run[Len(p) + 1]
        OBVIOUS
      <4>4. Stands(c, w, from + w, z, Len(leaves)) /\ c.new = Node(leaves, from + w, w)
        BY <4>2, <4>3 DEF Arrives
      <4>5. d = Turn("inclusion", c, Node(leaves, from, w))
        BY <4>1, <4>3
      <4>6. /\ c.last # 0 /\ Stands(d, w * 2, from, z, Len(leaves))
            /\ d.new = Node(leaves, from, w * 2)
        BY <1>6, <4>4, <4>5, JoinsLeft
      <4> QED
        BY <3>3, <4>2, <4>3, <4>6 DEF Arrives
    <3> QED
      BY <2>2, <3>3, <3>4 DEF InclusionClimb
  <2> QED
    BY <2>4, <2>5
<1> QED
  BY <1>0, <1>5, <1>6

LEMMA InclusionClimbs ==
    ASSUME NEW leaves, Len(leaves) \in Nat, NEW z \in Nat, z < Len(leaves), NEW path,
           InclusionPath(path, leaves, z),
           NEW power \in Powers, NEW place \in Nat, place * power <= z, z < place * power + power
    PROVE  InclusionClimb(leaves, z, path, place * power, power)
<1> DEFINE
      Climbs(w) == \A a \in Nat : a * w <= z /\ z < a * w + w =>
                                      InclusionClimb(leaves, z, path, a * w, w)
      S == {w \in Powers : Climbs(w)}
<1>1. Climbs(1)
  <2>1. ASSUME NEW a \in Nat, a * 1 <= z, z < a * 1 + 1
        PROVE  InclusionClimb(leaves, z, path, a * 1, 1)
    <3>1. a * 1 = z
      BY <2>1
    <3>2. PICK p : p = PathOf(path, leaves, z, 1)
      OBVIOUS
    <3>3. p = <<>>
      <4>1. PICK slice \in Slices(leaves) : slice = <<z, z + 1>>
        <5>1. <<z, z + 1>> \in Slices(leaves)
          BY DEF Slices
        <5> QED
          BY <5>1
      <4>2. Upto(z, 1, Len(leaves)) = z + 1 /\ Width(slice) <= 1
        BY <4>1 DEF Upto, Width
      <4>3. path[slice] = PathBy(leaves, z, {}, [s \in Slices(leaves) |-> <<>>], path)[slice]
        BY DEF InclusionPath, IsPath
      <4> QED
        BY <3>2, <4>1, <4>2, <4>3 DEF PathBy, PathOf
    <3>4. p \in Seq(Hashes(leaves)) /\ Len(p) = 0
      BY <3>3
    <3>5. ASSUME NEW run, RunsOver(run, "inclusion", InclusionStart(leaves[z + 1], z, Len(leaves)), p)
          PROVE  Arrives(run, 0, leaves, z, z, 1)
      <4>1. PICK c : c = run[0] /\ c = InclusionStart(leaves[z + 1], z, Len(leaves))
        BY <3>5 DEF RunsOver
      <4>2. /\ c = [f \in Fields |-> c[f]] /\ c.new = leaves[z + 1]
            /\ c.at = z /\ c.last = Len(leaves) - 1
        BY <4>1 DEF InclusionStart, Fields
      <4>3. Stands(c, 1, z, z, Len(leaves))
        <5>1. IsCheck(c) /\ Place(c.at, c.last, 1, z, Len(leaves)) /\ c.at * 1 = z
          BY <4>2 DEF IsCheck, Place
        <5> QED
          BY <5>1, PowersDouble DEF Stands
      <4>4. c.new = Node(leaves, z, 1)
        <5>1. Upto(z, 1, Len(leaves)) = z + 1
          BY DEF Upto
        <5> QED
          BY <4>2, <5>1, RootOfLeaf DEF Node
      <4> QED
        BY <4>1, <4>3, <4>4 DEF Arrives
    <3> QED
      BY <3>1, <3>2, <3>4, <3>5 DEF InclusionClimb
  <2> QED
    BY <2>1
<1>2. ASSUME NEW w \in Powers, Climbs(w) PROVE Climbs(w * 2)
  <2>0. w \in Nat /\ w # 0 /\ w * 2 \in Powers
    BY PowersDouble
  <2>1. ASSUME NEW a \in Nat, a * (w * 2) <= z, z < a * (w * 2) + w * 2
        PROVE  InclusionClimb(leaves, z, path, a * (w * 2), w * 2)
    <3>1. PICK from \in Nat : from = a * (w * 2) /\ (a * 2) * w = from /\ (a * 2 + 1) * w = from + w
      <4>1. a * (w * 2) \in Nat /\ (a * 2) * w = a * (w * 2) /\ (a * 2 + 1) * w = a * (w * 2) + w
        BY <2>0
      <4> QED
        BY <4>1
    <3>2. from <= z /\ z < from + w * 2 /\ a * 2 \in Nat /\ a * 2 + 1 \in Nat
      BY <2>1, <3>1
    <3>3. z < from + w => InclusionClimb(leaves, z, path, from, w)
      BY <1>2, <3>1, <3>2
    <3>4. from + w <= z => InclusionClimb(leaves, z, path, from + w, w)
      <4>1. ASSUME from + w <= z PROVE (a * 2 + 1) * w <= z /\ z < (a * 2 + 1) * w + w
        BY <2>0, <3>1, <3>2, <4>1
      <4> QED
        BY <1>2, <3>1, <3>2, <4>1
    <3>5. Multiple(from, w * 2)
      BY <3>1 DEF Multiple
    <3>6. InclusionClimb(leaves, z, path, from, w * 2)
      <4> HIDE DEF Climbs
      <4> QED
        BY <3>2, <3>3, <3>4, <3>5, InclusionClimbsOn
    <3> QED
      BY <3>1, <3>6
  <2> QED
    BY <2>1
<1>3. power \in S
  <2>1. S \in SUBSET Nat /\ 1 \in Powers /\ \A w \in Powers : w * 2 \in Powers
    BY PowersDouble
  <2>2. 1 \in S /\ \A w \in S : w * 2 \in S
    <3> HIDE DEF Climbs
    <3> QED
      BY <1>1, <1>2, <2>1
  <2> HIDE DEF S
  <2> QED
    BY <2>1, <2>2, PowersOnly
<1> QED
  BY <1>3

LEMMA PowersReach ==
    ASSUME NEW n \in Nat, n # 0
    PROVE  \E wide \in Powers : n <= wide
<1>1. CASE n = 1
  BY <1>1, PowersDouble
<1>2. CASE n > 1
  BY <1>2, Splits, PowersDouble
<1> QED
  BY <1>1, <1>2

(* The path of the whole tree is the one the sender hands over, and its root the head's. *)
LEMMA WholeTree ==
    ASSUME NEW leaves, Len(leaves) \in Nat, NEW wide \in Nat, Len(leaves) <= wide
    PROVE  /\ \A path : PathOf(path, leaves, 0, wide) = path[Whole(leaves)]
           /\ Node(leaves, 0, wide) = root(leaves)
<1>1. Upto(0, wide, Len(leaves)) = Len(leaves)
  BY DEF Upto
<1> QED
  BY <1>1 DEF PathOf, Node, Whole, root

(* Receipt::check_path accepts what inclusion_proof makes. *)
LEMMA InclusionPasses ==
    ASSUME NEW leaves, Len(leaves) \in Nat, NEW z \in Nat, z < Len(leaves)
    PROVE  verify_inclusion(leaves[z + 1], z, Len(leaves), inclusion_proof(leaves, z), root(leaves))
<1>1. PICK path : inclusion_proof(leaves, z) = path[Whole(leaves)] /\ InclusionPath(path, leaves, z)
  BY InclusionProofBy DEF InclusionPath, IsPath
<1>2. PICK wide \in Powers : Len(leaves) <= wide /\ wide \in Nat
  BY PowersReach, PowersDouble
<1>3. PICK p : p = inclusion_proof(leaves, z)
  OBVIOUS
<1>4. p = PathOf(path, leaves, 0, wide) /\ Node(leaves, 0, wide) = root(leaves)
  BY <1>1, <1>2, <1>3, WholeTree
<1>5. InclusionClimb(leaves, z, path, 0, wide)
  <2>1. 0 * wide = 0 /\ z < 0 * wide + wide
    BY <1>2
  <2>2. InclusionClimb(leaves, z, path, 0 * wide, wide)
    BY <1>1, <1>2, <2>1, InclusionClimbs
  <2> QED
    BY <2>1, <2>2
<1> DEFINE
      start == InclusionStart(leaves[z + 1], z, Len(leaves))
      Round(run) == [k \in 0..Len(p) |-> IF k = 0 THEN start ELSE InclusionStep(run[k - 1], p[k])]
      run == CHOOSE run : run = Round(run)
<1>6. Len(p) \in Nat
  BY <1>4, <1>5 DEF InclusionClimb
<1>7. run = Round(run)
  <2>1. PICK f : f = TurnsBy("inclusion", start, p, f)
    BY <1>6, TurnsEnd
  <2>2. TurnsBy("inclusion", start, p, f) = Round(f)
    BY DEF TurnsBy, Turn
  <2>3. \E g : g = Round(g)
    <3>1. f = Round(f)
      BY <2>1, <2>2
    <3> HIDE DEF Round
    <3> QED
      BY <3>1
  <2> HIDE DEF Round
  <2> QED
    BY <2>3, Zenon
<1>8. /\ z < Len(leaves)
      /\ \A k \in 0..Len(p) : run[k].last = 0 <=> k = Len(p)
      /\ run[Len(p)].new = root(leaves)
      => verify_inclusion(leaves[z + 1], z, Len(leaves), p, root(leaves))
  BY DEF verify_inclusion
<1> HIDE DEF run
<1>9. RunsOver(run, "inclusion", start, p)
  <2>1. run = TurnsBy("inclusion", start, p, run)
    BY <1>7 DEF TurnsBy, Turn
  <2> HIDE DEF start
  <2> QED
    BY <1>6, <2>1, TurnsRun
<1>10. Arrives(run, Len(p), leaves, z, 0, wide)
  BY <1>4, <1>5, <1>9 DEF InclusionClimb
<1>11. \A k \in 0..Len(p) : run[k].last = 0 <=> k = Len(p)
  <2>1. run[Len(p)].last = 0
    BY <1>2, <1>10, StandsAtTop DEF Arrives
  <2>2. \A k \in 0..(Len(p) - 1) : run[k].last # 0
    BY <1>10 DEF Arrives
  <2> QED
    BY <1>6, <2>1, <2>2
<1> QED
  BY <1>3, <1>4, <1>8, <1>10, <1>11 DEF Arrives

(* Two slices of the same leaves have one root. *)
LEMMA OneSliceOneRoot ==
    ASSUME NEW leaves, Len(leaves) \in Nat, NEW others, Len(others) \in Nat,
           NEW from \in Nat, NEW to \in Nat, from < to, to <= Len(leaves), to <= Len(others),
           \A k \in (from + 1)..to : leaves[k] = others[k]
    PROVE  Roots(leaves)[<<from, to>>] = Roots(others)[<<from, to>>]
<1> DEFINE
      Claim(f, t) == from <= f /\ f < t /\ t <= to =>
                         Roots(leaves)[<<f, t>>] = Roots(others)[<<f, t>>]
      T == {n \in Nat : \A f, t \in Nat : t - f <= n => Claim(f, t)}
<1>1. ASSUME NEW n \in Nat, \A m \in 0..(n - 1) : m \in T PROVE n \in T
  <2>1. ASSUME NEW f \in Nat, NEW t \in Nat, t - f <= n, from <= f, f < t, t <= to
        PROVE  Roots(leaves)[<<f, t>>] = Roots(others)[<<f, t>>]
    <3>1. CASE t - f = 1
      <4>1. t = f + 1 /\ f \in 0..(Len(leaves) - 1) /\ f \in 0..(Len(others) - 1)
        BY <2>1, <3>1
      <4>2. leaves[f + 1] = others[f + 1]
        BY <2>1, <4>1
      <4> QED
        BY <4>1, <4>2, RootOfLeaf
    <3>2. CASE t - f > 1
      <4>1. PICK b \in Powers : b < t - f /\ t - f <= b * 2 /\ b \in Nat /\ b # 0
        <5>1. PICK width \in Nat : width = t - f /\ width > 1
          <6>1. t - f \in Nat
            BY <2>1
          <6> QED
            BY <3>2, <6>1
        <5> QED
          BY <5>1, Splits, PowersDouble
      <4>2. /\ Roots(leaves)[<<f, t>>] =
                   node_hash(Roots(leaves)[<<f, f + b>>], Roots(leaves)[<<f + b, t>>])
            /\ Roots(others)[<<f, t>>] =
                   node_hash(Roots(others)[<<f, f + b>>], Roots(others)[<<f + b, t>>])
        <5>1. f \in 0..Len(leaves) /\ t \in 0..Len(leaves)
          BY <2>1, <3>2
        <5>2. f \in 0..Len(others) /\ t \in 0..Len(others)
          BY <2>1, <3>2
        <5> QED
          BY <4>1, <5>1, <5>2, RootOfNode
      <4>3. n - 1 \in T
        <5>1. n - 1 \in 0..(n - 1)
          BY <2>1, <3>2
        <5> HIDE DEF T
        <5> QED
          BY <1>1, <5>1
      <4>4. Claim(f, f + b) /\ Claim(f + b, t)
        BY <2>1, <4>1, <4>3
      <4>5. /\ Roots(leaves)[<<f, f + b>>] = Roots(others)[<<f, f + b>>]
            /\ Roots(leaves)[<<f + b, t>>] = Roots(others)[<<f + b, t>>]
        BY <2>1, <4>1, <4>4
      <4> QED
        BY <4>2, <4>5
    <3> QED
      BY <2>1, <3>1, <3>2
  <2> QED
    BY <2>1
<1>2. to - from \in T
  <2> HIDE DEF T
  <2> QED
    BY <1>1, Induction
<1>3. Claim(from, to)
  BY <1>2
<1> QED
  BY <1>3

(* The old log is how the new one starts, and z is the place it ends at. *)
StartsWith(leaves, olds, z) ==
    /\ Len(leaves) \in Nat /\ z \in Nat /\ Len(olds) = z + 1 /\ Len(olds) < Len(leaves)
    /\ \A k \in 1..Len(olds) : leaves[k] = olds[k]

LEMMA OldRoots ==
    ASSUME NEW leaves, NEW olds, NEW z, StartsWith(leaves, olds, z),
           NEW from \in Nat, NEW to \in Nat, from < to, to <= Len(olds)
    PROVE  Roots(leaves)[<<from, to>>] = Roots(olds)[<<from, to>>]
<1>1. /\ Len(leaves) \in Nat /\ Len(olds) \in Nat /\ to <= Len(leaves)
      /\ \A k \in (from + 1)..to : leaves[k] = olds[k]
  BY DEF StartsWith
<1> QED
  BY <1>1, OneSliceOneRoot

ConsistencyPath(path, leaves, old) ==
    IsPath(path, leaves, old - 1, OldSlices(leaves, old), OldSeed(leaves))

(* The old log ends with one whole subtree: there the proof has handed over `pre`, and
   there the check starts, with the root of that subtree on both sides. *)
Seeded(leaves, olds, z, pre, start) ==
    \A w \in Powers, from \in Nat : Multiple(from, w * 2) /\ from + w = Len(olds) =>
        /\ pre = OldSeed(leaves)[<<from, Len(olds)>>]
        /\ start.old = Roots(leaves)[<<from, Len(olds)>>] /\ start.new = start.old
        /\ Stands(start, w, from, z, Len(leaves))

Bridges(run, m, leaves, olds, z, from, wide) ==
    /\ Arrives(run, m, leaves, z, from, wide)
    /\ run[m].old = Roots(olds)[<<from, Len(olds)>>]

(* A path, as what comes first and what comes after. *)
Follows(H, path, pre, rest) ==
    /\ path \in Seq(H) /\ pre \in Seq(H) /\ rest \in Seq(H)
    /\ Len(path) = Len(pre) + Len(rest)
    /\ \A k \in 1..Len(pre) : path[k] = pre[k]
    /\ \A k \in 1..Len(rest) : path[Len(pre) + k] = rest[k]

LEMMA FollowsOn ==
    ASSUME NEW H, NEW path, NEW pre, NEW rest, Follows(H, path, pre, rest), NEW x \in H
    PROVE  Follows(H, Append(path, x), pre, Append(rest, x))
<1>1. PICK longer \in Seq(H), more \in Seq(H) :
          /\ longer = Append(path, x) /\ more = Append(rest, x)
          /\ Len(longer) = Len(path) + 1 /\ Len(more) = Len(rest) + 1
  <2>1. /\ Append(path, x) \in Seq(H) /\ Append(rest, x) \in Seq(H)
        /\ Len(Append(path, x)) = Len(path) + 1 /\ Len(Append(rest, x)) = Len(rest) + 1
    BY DEF Follows
  <2> QED
    BY <2>1
<1>2. PICK m \in Nat, l \in Nat :
          m = Len(pre) /\ l = Len(rest) /\ Len(path) = m + l /\ path \in Seq(H) /\ rest \in Seq(H)
  <2>1. Len(pre) \in Nat /\ Len(rest) \in Nat /\ path \in Seq(H) /\ rest \in Seq(H)
    BY DEF Follows
  <2> QED
    BY <2>1 DEF Follows
<1>3. /\ \A k \in 1..(m + l) : longer[k] = path[k]
      /\ longer[m + l + 1] = x
      /\ \A k \in 1..l : more[k] = rest[k]
      /\ more[l + 1] = x
  BY <1>1, <1>2
<1>4. \A k \in 1..m : longer[k] = pre[k]
  BY <1>2, <1>3 DEF Follows
<1>5. ASSUME NEW k \in 1..(l + 1) PROVE longer[m + k] = more[k]
  <2>1. CASE k = l + 1
    BY <1>2, <1>3, <2>1
  <2>2. CASE k # l + 1
    <3>1. k \in 1..l /\ m + k \in 1..(m + l)
      BY <1>2, <2>2
    <3>2. path[m + k] = rest[k]
      BY <1>2, <3>1 DEF Follows
    <3> QED
      BY <1>3, <3>1, <3>2
  <2> QED
    BY <2>1, <2>2
<1>6. Len(longer) = Len(pre) + Len(more) /\ pre \in Seq(H)
  BY <1>1, <1>2 DEF Follows
<1> QED
  BY <1>1, <1>2, <1>4, <1>5, <1>6 DEF Follows

(* A node the old log ends inside of: after its path the check holds its root, and
   that of the part of it the old log has. *)
ConsistencyClimb(leaves, olds, z, path, pre, start, from, wide) ==
    \E rest \in Seq(Hashes(leaves)) :
        /\ Follows(Hashes(leaves), PathOf(path, leaves, from, wide), pre, rest)
        /\ \A run : RunsOver(run, "consistency", start, rest) =>
                        Bridges(run, Len(rest), leaves, olds, z, from, wide)

(* The old log ends where the left half of a node does. *)
LEMMA ConsistencyClimbStarts ==
    ASSUME NEW leaves, NEW olds, NEW z, StartsWith(leaves, olds, z), NEW path,
           ConsistencyPath(path, leaves, Len(olds)),
           NEW start, NEW pre \in Seq(Hashes(leaves)), Seeded(leaves, olds, z, pre, start),
           NEW w \in Powers, NEW from \in Nat, Multiple(from, w * 2), from + w = Len(olds)
    PROVE  ConsistencyClimb(leaves, olds, z, path, pre, start, from, w * 2)
<1>0. w \in Nat /\ w # 0
  BY PowersDouble
<1>1. PICK n \in Nat, o \in Nat :
          n = Len(leaves) /\ o = Len(olds) /\ z \in Nat /\ o = z + 1 /\ o < n /\ from + w = o
  <2>1. Len(olds) \in Nat
    BY DEF StartsWith
  <2> QED
    BY <2>1 DEF StartsWith
<1>2. PICK x \in Hashes(leaves) : x = Node(leaves, from + w, w)
  BY <1>0, <1>1, NodeIsHash
<1>3. /\ Upto(from, w, n) = o /\ Upto(from, w * 2, n) # o /\ z < from + w
      /\ from \in 0..n /\ o \in 0..n
  BY <1>0, <1>1 DEF Upto
<1>4. PathOf(path, leaves, from, w) = pre
  <2>1. PICK slice \in Slices(leaves) : slice = <<from, o>>
    BY <1>1, <1>3 DEF Slices
  <2>2. path[slice] = PathBy(leaves, o - 1, OldSlices(leaves, o), OldSeed(leaves), path)[slice]
    BY <1>1 DEF ConsistencyPath, IsPath
  <2>3. slice \in OldSlices(leaves, o)
    BY <2>1 DEF OldSlices
  <2>4. path[slice] = OldSeed(leaves)[slice]
    BY <2>2, <2>3 DEF PathBy
  <2>5. pre = OldSeed(leaves)[<<from, o>>]
    BY <1>0, <1>1 DEF Seeded
  <2> QED
    BY <1>1, <1>3, <2>1, <2>4, <2>5 DEF PathOf
<1>5. PathOf(path, leaves, from, w * 2) = Append(pre, x)
  <2>1. IsPath(path, leaves, z, OldSlices(leaves, o), OldSeed(leaves))
    <3>1. o - 1 = z
      BY <1>1
    <3> QED
      BY <1>1, <3>1 DEF ConsistencyPath
  <2>2. <<from, Upto(from, w * 2, Len(leaves))>> \notin OldSlices(leaves, o)
    BY <1>1, <1>3 DEF OldSlices
  <2>3. PathOf(path, leaves, from, w * 2) =
            IF z < from + w
            THEN Append(PathOf(path, leaves, from, w), Node(leaves, from + w, w))
            ELSE Append(PathOf(path, leaves, from + w, w), Node(leaves, from, w))
    BY <1>1, <2>1, <2>2, PathOfTwo
  <2> QED
    BY <1>2, <1>3, <1>4, <2>3
<1>6. PICK rest \in Seq(Hashes(leaves)) : rest = <<x>> /\ Len(rest) = 1 /\ rest[1] = x
  <2>1. <<x>> \in Seq(Hashes(leaves)) /\ Len(<<x>>) = 1 /\ <<x>>[1] = x
    OBVIOUS
  <2> QED
    BY <2>1
<1>7. Follows(Hashes(leaves), Append(pre, x), pre, rest)
  <2>1. /\ Append(pre, x) \in Seq(Hashes(leaves)) /\ Len(Append(pre, x)) = Len(pre) + 1
        /\ Append(pre, x)[Len(pre) + 1] = x /\ \A k \in 1..Len(pre) : Append(pre, x)[k] = pre[k]
    OBVIOUS
  <2>2. \A k \in 1..Len(rest) : k = 1
    BY <1>6
  <2> QED
    BY <1>6, <2>1, <2>2 DEF Follows
<1>8. ASSUME NEW run, RunsOver(run, "consistency", start, rest)
      PROVE  Bridges(run, 1, leaves, olds, z, from, w * 2)
  <2>1. run[0] = start /\ run[1] = Turn("consistency", run[0], x)
    <3>1. 1 \in 1..Len(rest) /\ 1 - 1 = 0
      BY <1>6
    <3>2. run[1] = Turn("consistency", run[1 - 1], rest[1])
      BY <1>8, <3>1 DEF RunsOver
    <3> QED
      BY <1>6, <1>8, <3>1, <3>2 DEF RunsOver
  <2>2. PICK d : d = run[1]
    OBVIOUS
  <2>3. /\ start.old = Roots(leaves)[<<from, o>>] /\ start.new = start.old
        /\ Stands(start, w, from, z, Len(leaves))
    <3>1. /\ start.old = Roots(leaves)[<<from, Len(olds)>>] /\ start.new = start.old
          /\ Stands(start, w, from, z, Len(leaves))
      BY Zenon DEF Seeded
    <3> QED
      BY <1>1, <3>1
  <2>4. start.new = Node(leaves, from, w)
    BY <1>1, <1>3, <2>3 DEF Node
  <2>5. d = Turn("consistency", start, Node(leaves, from + w, w))
    BY <1>2, <2>1, <2>2
  <2>6. /\ start.last # 0 /\ Stands(d, w * 2, from, z, Len(leaves))
        /\ d.new = Node(leaves, from, w * 2) /\ d.old = start.old
    BY <1>1, <2>3, <2>4, <2>5, JoinsRight
  <2>7. Roots(leaves)[<<from, o>>] = Roots(olds)[<<from, o>>]
    <3>1. from < o /\ o <= Len(olds)
      BY <1>0, <1>1
    <3> QED
      BY <3>1, OldRoots
  <2>8. \A k \in 0..(1 - 1) : run[k].last # 0
    BY <2>1, <2>6
  <2> QED
    BY <1>1, <2>2, <2>3, <2>6, <2>7, <2>8 DEF Bridges, Arrives
<1> QED
  BY <1>5, <1>6, <1>7, <1>8 DEF ConsistencyClimb

(* One more hash, of the other half, takes the check from a half to the node. *)
LEMMA ConsistencyClimbsOn ==
    ASSUME NEW leaves, NEW olds, NEW z, StartsWith(leaves, olds, z), NEW path,
           ConsistencyPath(path, leaves, Len(olds)),
           NEW start, NEW pre \in Seq(Hashes(leaves)), Seeded(leaves, olds, z, pre, start),
           NEW w \in Powers, NEW from \in Nat, Multiple(from, w * 2),
           from < Len(olds), Len(olds) < Upto(from, w * 2, Len(leaves)),
           Len(olds) < Upto(from, w, Len(leaves)) =>
               ConsistencyClimb(leaves, olds, z, path, pre, start, from, w),
           from + w < Len(olds) =>
               ConsistencyClimb(leaves, olds, z, path, pre, start, from + w, w)
    PROVE  ConsistencyClimb(leaves, olds, z, path, pre, start, from, w * 2)
<1>0. w \in Nat /\ w # 0
  BY PowersDouble
<1>1. PICK n \in Nat, o \in Nat :
          n = Len(leaves) /\ o = Len(olds) /\ z \in Nat /\ o = z + 1 /\ o < n /\ from < o
          /\ o < Upto(from, w * 2, n) /\ z < n
  <2>1. Len(olds) \in Nat
    BY DEF StartsWith
  <2> QED
    BY <2>1 DEF StartsWith
<1>2. PICK mid \in Nat : mid = from + w
  BY <1>0
<1>3. CASE n <= mid
  <2>1. o < Upto(from, w, n)
    BY <1>0, <1>1, <1>2, <1>3 DEF Upto
  <2>2. ConsistencyClimb(leaves, olds, z, path, pre, start, from, w)
    BY <1>1, <2>1
  <2>3. /\ PathOf(path, leaves, from, w * 2) = PathOf(path, leaves, from, w)
        /\ Node(leaves, from, w * 2) = Node(leaves, from, w)
        /\ \A c : Stands(c, w, from, z, Len(leaves)) => Stands(c, w * 2, from, z, Len(leaves))
    BY <1>1, <1>2, <1>3, NodeIsLeft
  <2>4. \A run, m : Bridges(run, m, leaves, olds, z, from, w) =>
                        Bridges(run, m, leaves, olds, z, from, w * 2)
    BY <2>3 DEF Bridges, Arrives
  <2>5. PICK rest \in Seq(Hashes(leaves)) :
            /\ Follows(Hashes(leaves), PathOf(path, leaves, from, w), pre, rest)
            /\ \A run : RunsOver(run, "consistency", start, rest) =>
                            Bridges(run, Len(rest), leaves, olds, z, from, w)
    BY <2>2 DEF ConsistencyClimb
  <2>6. /\ Follows(Hashes(leaves), PathOf(path, leaves, from, w * 2), pre, rest)
        /\ \A run : RunsOver(run, "consistency", start, rest) =>
                        Bridges(run, Len(rest), leaves, olds, z, from, w * 2)
    BY <2>3, <2>4, <2>5
  <2> QED
    BY <2>6 DEF ConsistencyClimb
<1>4. CASE o = mid
  BY <1>1, <1>2, <1>4, ConsistencyClimbStarts
<1>5. CASE mid < n /\ o # mid
  <2>1. PICK l \in Hashes(leaves), r \in Hashes(leaves) :
            l = Node(leaves, from, w) /\ r = Node(leaves, mid, w)
    <3>1. mid <= Len(leaves) /\ from <= Len(leaves) /\ Len(leaves) \in Nat
      BY <1>1, <1>5
    <3> QED
      BY <1>0, <3>1, NodeIsHash
  <2>2. PathOf(path, leaves, from, w * 2) =
            IF z < mid THEN Append(PathOf(path, leaves, from, w), r)
            ELSE Append(PathOf(path, leaves, mid, w), l)
    <3>1. IsPath(path, leaves, z, OldSlices(leaves, o), OldSeed(leaves))
      <4>1. o - 1 = z
        BY <1>1
      <4> QED
        BY <1>1, <4>1 DEF ConsistencyPath
    <3>2. <<from, Upto(from, w * 2, Len(leaves))>> \notin OldSlices(leaves, o)
      <4>1. Upto(from, w * 2, n) # o
        BY <1>0, <1>1 DEF Upto
      <4> QED
        BY <1>1, <4>1 DEF OldSlices
    <3>3. PathOf(path, leaves, from, w * 2) =
              IF z < from + w
              THEN Append(PathOf(path, leaves, from, w), Node(leaves, from + w, w))
              ELSE Append(PathOf(path, leaves, from + w, w), Node(leaves, from, w))
      BY <1>1, <1>2, <1>5, <3>1, <3>2, PathOfTwo
    <3> QED
      BY <1>2, <2>1, <3>3
  <2>3. CASE o < mid
    <3>1. ConsistencyClimb(leaves, olds, z, path, pre, start, from, w)
      <4>1. o < Upto(from, w, n)
        BY <1>0, <1>1, <1>2, <1>5, <2>3 DEF Upto
      <4> QED
        BY <1>1, <4>1
    <3>2. PICK rest \in Seq(Hashes(leaves)) :
              /\ Follows(Hashes(leaves), PathOf(path, leaves, from, w), pre, rest)
              /\ \A run : RunsOver(run, "consistency", start, rest) =>
                              Bridges(run, Len(rest), leaves, olds, z, from, w)
      BY <3>1 DEF ConsistencyClimb
    <3>3. PICK more \in Seq(Hashes(leaves)) :
              more = Append(rest, r) /\ Len(more) = Len(rest) + 1 /\ Len(rest) \in Nat
      <4>1. /\ Append(rest, r) \in Seq(Hashes(leaves))
            /\ Len(Append(rest, r)) = Len(rest) + 1 /\ Len(rest) \in Nat
        OBVIOUS
      <4> QED
        BY <4>1
    <3>4. Follows(Hashes(leaves), PathOf(path, leaves, from, w * 2), pre, more)
      <4>1. PathOf(path, leaves, from, w * 2) = Append(PathOf(path, leaves, from, w), r)
        <5>1. z < mid
          BY <1>1, <2>3
        <5> QED
          BY <2>2, <5>1
      <4>2. Follows(Hashes(leaves), Append(PathOf(path, leaves, from, w), r), pre, Append(rest, r))
        BY <3>2, FollowsOn
      <4> QED
        BY <3>3, <4>1, <4>2
    <3>5. ASSUME NEW run, RunsOver(run, "consistency", start, more)
          PROVE  Bridges(run, Len(more), leaves, olds, z, from, w * 2)
      <4>1. /\ RunsOver(run, "consistency", start, rest)
            /\ run[Len(rest) + 1] = Turn("consistency", run[Len(rest)], r)
        BY <3>3, <3>5, OneMoreTurn
      <4>2. Bridges(run, Len(rest), leaves, olds, z, from, w)
        BY <3>2, <4>1
      <4>3. PICK c, d : c = run[Len(rest)] /\ d = run[Len(rest) + 1]
        OBVIOUS
      <4>4. Stands(c, w, from, z, Len(leaves)) /\ c.new = Node(leaves, from, w)
        BY <4>2, <4>3 DEF Bridges, Arrives
      <4>5. d = Turn("consistency", c, Node(leaves, from + w, w))
        BY <1>2, <2>1, <4>1, <4>3
      <4>6. /\ c.last # 0 /\ Stands(d, w * 2, from, z, Len(leaves))
            /\ d.new = Node(leaves, from, w * 2) /\ d.old = c.old
        BY <1>1, <1>2, <1>5, <4>4, <4>5, JoinsRight
      <4>7. Arrives(run, Len(more), leaves, z, from, w * 2)
        BY <3>3, <4>2, <4>3, <4>6 DEF Bridges, Arrives
      <4>8. run[Len(more)].old = Roots(olds)[<<from, Len(olds)>>]
        BY <3>3, <4>2, <4>3, <4>6 DEF Bridges
      <4> QED
        BY <4>7, <4>8 DEF Bridges
    <3> QED
      BY <3>4, <3>5 DEF ConsistencyClimb
  <2>4. CASE mid < o
    <3>1. ConsistencyClimb(leaves, olds, z, path, pre, start, mid, w)
      BY <1>1, <1>2, <2>4
    <3>2. PICK rest \in Seq(Hashes(leaves)) :
              /\ Follows(Hashes(leaves), PathOf(path, leaves, mid, w), pre, rest)
              /\ \A run : RunsOver(run, "consistency", start, rest) =>
                              Bridges(run, Len(rest), leaves, olds, z, mid, w)
      BY <3>1 DEF ConsistencyClimb
    <3>3. PICK more \in Seq(Hashes(leaves)) :
              more = Append(rest, l) /\ Len(more) = Len(rest) + 1 /\ Len(rest) \in Nat
      <4>1. /\ Append(rest, l) \in Seq(Hashes(leaves))
            /\ Len(Append(rest, l)) = Len(rest) + 1 /\ Len(rest) \in Nat
        OBVIOUS
      <4> QED
        BY <4>1
    <3>4. Follows(Hashes(leaves), PathOf(path, leaves, from, w * 2), pre, more)
      <4>1. PathOf(path, leaves, from, w * 2) = Append(PathOf(path, leaves, mid, w), l)
        <5>1. ~(z < mid)
          BY <1>1, <2>4
        <5> QED
          BY <2>2, <5>1
      <4>2. Follows(Hashes(leaves), Append(PathOf(path, leaves, mid, w), l), pre, Append(rest, l))
        BY <3>2, FollowsOn
      <4> QED
        BY <3>3, <4>1, <4>2
    <3>5. node_hash(Node(leaves, from, w), Roots(olds)[<<mid, o>>]) = Roots(olds)[<<from, o>>]
      <4>1. Node(leaves, from, w) = Roots(leaves)[<<from, mid>>]
        <5>1. Upto(from, w, n) = mid
          BY <1>2, <1>5 DEF Upto
        <5> QED
          BY <1>1, <5>1 DEF Node
      <4>2. Roots(leaves)[<<from, mid>>] = Roots(olds)[<<from, mid>>]
        <5>1. from < mid /\ mid <= Len(olds)
          BY <1>0, <1>1, <1>2, <2>4
        <5> QED
          BY <5>1, OldRoots
      <4>3. Roots(olds)[<<from, o>>] =
                node_hash(Roots(olds)[<<from, mid>>], Roots(olds)[<<mid, o>>])
        <5>1. /\ Len(olds) \in Nat /\ from \in 0..Len(olds) /\ o \in 0..Len(olds)
              /\ w < o - from /\ o - from <= w * 2
          BY <1>0, <1>1, <1>2, <2>4 DEF Upto
        <5>2. Roots(olds)[<<from, o>>] =
                  node_hash(Roots(olds)[<<from, from + w>>], Roots(olds)[<<from + w, o>>])
          BY <5>1, RootOfNode
        <5> QED
          BY <1>2, <5>2
      <4> QED
        BY <4>1, <4>2, <4>3
    <3>6. ASSUME NEW run, RunsOver(run, "consistency", start, more)
          PROVE  Bridges(run, Len(more), leaves, olds, z, from, w * 2)
      <4>1. /\ RunsOver(run, "consistency", start, rest)
            /\ run[Len(rest) + 1] = Turn("consistency", run[Len(rest)], l)
        BY <3>3, <3>6, OneMoreTurn
      <4>2. Bridges(run, Len(rest), leaves, olds, z, mid, w)
        BY <3>2, <4>1
      <4>3. PICK c, d : c = run[Len(rest)] /\ d = run[Len(rest) + 1]
        OBVIOUS
      <4>4. Stands(c, w, from + w, z, Len(leaves)) /\ c.new = Node(leaves, from + w, w)
        BY <1>2, <4>2, <4>3 DEF Bridges, Arrives
      <4>5. d = Turn("consistency", c, Node(leaves, from, w))
        BY <2>1, <4>1, <4>3
      <4>6. /\ c.last # 0 /\ Stands(d, w * 2, from, z, Len(leaves))
            /\ d.new = Node(leaves, from, w * 2)
            /\ "consistency" = "consistency" => d.old = node_hash(Node(leaves, from, w), c.old)
        BY <1>1, <1>2, <1>5, <4>4, <4>5, JoinsLeft
      <4>7. Arrives(run, Len(more), leaves, z, from, w * 2)
        BY <3>3, <4>2, <4>3, <4>6 DEF Bridges, Arrives
      <4>8. c.old = Roots(olds)[<<mid, o>>]
        BY <1>1, <4>2, <4>3 DEF Bridges
      <4>9. run[Len(more)].old = Roots(olds)[<<from, Len(olds)>>]
        BY <1>1, <3>3, <3>5, <4>3, <4>6, <4>8
      <4> QED
        BY <4>7, <4>9 DEF Bridges
    <3> QED
      BY <3>4, <3>6 DEF ConsistencyClimb
  <2> QED
    BY <1>1, <1>2, <1>5, <2>3, <2>4
<1> QED
  BY <1>1, <1>2, <1>3, <1>4, <1>5

LEMMA ConsistencyClimbs ==
    ASSUME NEW leaves, NEW olds, NEW z, StartsWith(leaves, olds, z), NEW path,
           ConsistencyPath(path, leaves, Len(olds)),
           NEW start, NEW pre \in Seq(Hashes(leaves)), Seeded(leaves, olds, z, pre, start),
           NEW power \in Powers, NEW place \in Nat, place * power < Len(olds),
           Len(olds) < Upto(place * power, power, Len(leaves))
    PROVE  ConsistencyClimb(leaves, olds, z, path, pre, start, place * power, power)
<1> DEFINE
      Climbs(w) == \A a \in Nat :
                       a * w < Len(olds) /\ Len(olds) < Upto(a * w, w, Len(leaves)) =>
                           ConsistencyClimb(leaves, olds, z, path, pre, start, a * w, w)
      S == {w \in Powers : Climbs(w)}
<1>1. Climbs(1)
  <2>1. ASSUME NEW a \in Nat, a * 1 < Len(olds), Len(olds) < Upto(a * 1, 1, Len(leaves))
        PROVE  FALSE
    BY <2>1 DEF Upto, StartsWith
  <2> QED
    BY <2>1
<1>2. ASSUME NEW w \in Powers, Climbs(w) PROVE Climbs(w * 2)
  <2>0. w \in Nat /\ w # 0 /\ w * 2 \in Powers
    BY PowersDouble
  <2>1. ASSUME NEW a \in Nat, a * (w * 2) < Len(olds),
               Len(olds) < Upto(a * (w * 2), w * 2, Len(leaves))
        PROVE  ConsistencyClimb(leaves, olds, z, path, pre, start, a * (w * 2), w * 2)
    <3>1. PICK from \in Nat : from = a * (w * 2) /\ (a * 2) * w = from /\ (a * 2 + 1) * w = from + w
      <4>1. a * (w * 2) \in Nat /\ (a * 2) * w = a * (w * 2) /\ (a * 2 + 1) * w = a * (w * 2) + w
        BY <2>0
      <4> QED
        BY <4>1
    <3>2. /\ from < Len(olds) /\ Len(olds) < Upto(from, w * 2, Len(leaves))
          /\ a * 2 \in Nat /\ a * 2 + 1 \in Nat
      BY <2>1, <3>1
    <3>3. Len(olds) < Upto(from, w, Len(leaves)) =>
              ConsistencyClimb(leaves, olds, z, path, pre, start, from, w)
      BY <1>2, <3>1, <3>2
    <3>4. from + w < Len(olds) =>
              ConsistencyClimb(leaves, olds, z, path, pre, start, from + w, w)
      <4>1. ASSUME from + w < Len(olds) PROVE Len(olds) < Upto(from + w, w, Len(leaves))
        <5>1. Len(olds) \in Nat /\ Len(leaves) \in Nat
          BY DEF StartsWith
        <5>2. PICK n \in Nat, o \in Nat, u \in Nat : n = Len(leaves) /\ o = Len(olds) /\ u = w * 2
          BY <2>0, <5>1
        <5>3. o < Upto(from, u, n)
          BY <3>2, <5>2
        <5>4. o < Upto(from + w, w, n)
          BY <2>0, <3>1, <5>2, <5>3 DEF Upto
        <5> QED
          BY <5>2, <5>4
      <4> QED
        BY <1>2, <3>1, <3>2, <4>1
    <3>5. Multiple(from, w * 2)
      BY <3>1 DEF Multiple
    <3>6. ConsistencyClimb(leaves, olds, z, path, pre, start, from, w * 2)
      <4> HIDE DEF Climbs
      <4> QED
        BY <3>2, <3>3, <3>4, <3>5, ConsistencyClimbsOn
    <3> QED
      BY <3>1, <3>6
  <2> QED
    BY <2>1
<1>3. power \in S
  <2>1. S \in SUBSET Nat /\ 1 \in Powers /\ \A w \in Powers : w * 2 \in Powers
    BY PowersDouble
  <2>2. 1 \in S /\ \A w \in S : w * 2 \in S
    <3> HIDE DEF Climbs
    <3> QED
      BY <1>1, <1>2, <2>1
  <2> HIDE DEF S
  <2> QED
    BY <2>1, <2>2, PowersOnly
<1> QED
  BY <1>3

(* Where a number is made of a multiple of twice a power of two and that power, it is
   so for one power only. *)
LEMMA OneMultiple ==
    ASSUME NEW f \in Nat, NEW v \in Powers, Multiple(f, v * 2),
           NEW from \in Nat, NEW w \in Powers, Multiple(from, w * 2), from + w = f + v
    PROVE  from = f /\ w = v
<1>0. v \in Nat /\ w \in Nat
  BY PowersDouble
<1>1. PICK a \in Nat, b \in Nat : f = a * (v * 2) /\ from = b * (w * 2)
  BY DEF Multiple
<1>2. b * (w * 2) + w = a * (v * 2) + v
  BY <1>1
<1>3. v = w /\ b = a
  BY <1>2, OddMultiple
<1> QED
  BY <1>0, <1>3

LEMMA EvenMultiple ==
    ASSUME NEW a \in Nat, a % 2 = 0, NEW wide \in Powers, NEW o \in Nat, (a + 1) * wide = o
    PROVE  \E f \in Nat : f = a * wide /\ Multiple(f, wide * 2) /\ f + wide = o
<1>0. wide \in Nat
  BY PowersDouble
<1>1. PICK h \in Nat : a = h * 2
  OBVIOUS
<1>2. PICK f \in Nat : f = a * wide /\ f = h * (wide * 2) /\ (a + 1) * wide = f + wide
  <2>1. a * wide \in Nat /\ a * wide = h * (wide * 2) /\ (a + 1) * wide = a * wide + wide
    BY <1>0, <1>1
  <2> QED
    BY <2>1
<1> QED
  BY <1>2 DEF Multiple

LEMMA EndsWhole ==
    ASSUME NEW o \in Nat, o # 0
    PROVE  \E f \in Nat, v \in Powers : Multiple(f, v * 2) /\ f + v = o
<1>1. PICK c : c = [at |-> o - 1, last |-> 0]
  OBVIOUS
<1>2. c.at \in Nat /\ c.last \in Nat /\ c.at + 1 = o
  BY <1>1
<1>3. PICK a \in Nat, l \in Nat, wide \in Powers :
          /\ WholeSubtree(c) = [c EXCEPT !.at = a, !.last = l]
          /\ a % 2 = 0 /\ (a + 1) * wide = c.at + 1
          /\ l * wide <= c.last /\ c.last < l * wide + wide
  BY <1>2, StartsWhole
<1>4. (a + 1) * wide = o
  BY <1>2, <1>3
<1> QED
  BY <1>3, <1>4, EvenMultiple

(* The loop before the first round finds the subtree the old log ends with. *)
LEMMA ConsistencySeed ==
    ASSUME NEW leaves, NEW olds, NEW z, StartsWith(leaves, olds, z),
           NEW f \in Nat, NEW v \in Powers, Multiple(f, v * 2), f + v = Len(olds),
           NEW seed, seed = Roots(leaves)[<<f, Len(olds)>>],
           NEW pre, pre = OldSeed(leaves)[<<f, Len(olds)>>],
           NEW start, start = ConsistencyStart(seed, Len(olds), Len(leaves))
    PROVE  Seeded(leaves, olds, z, pre, start)
<1>1. PICK n \in Nat, o \in Nat :
          n = Len(leaves) /\ o = Len(olds) /\ z \in Nat /\ o = z + 1 /\ o < n /\ o - 1 = z
  <2>1. Len(olds) \in Nat
    BY DEF StartsWith
  <2> QED
    BY <2>1 DEF StartsWith
<1>2. PICK b : b = [check |-> "consistency", old |-> seed, new |-> seed, at |-> z, last |-> n - 1]
  OBVIOUS
<1>3. /\ b = [x \in Fields |-> b[x]] /\ b.new = seed /\ b.old = seed
      /\ b.at = z /\ b.last = n - 1 /\ b.last \in Nat
  <2>1. n - 1 \in Nat
    BY <1>1
  <2>2. /\ b = [x \in Fields |-> b[x]] /\ b.new = seed /\ b.old = seed
        /\ b.at = z /\ b.last = n - 1
    BY <1>2 DEF Fields
  <2> QED
    BY <2>1, <2>2
<1>4. PICK a \in Nat, l \in Nat, wide \in Powers :
          /\ WholeSubtree(b) = [b EXCEPT !.at = a, !.last = l]
          /\ a % 2 = 0 /\ (a + 1) * wide = b.at + 1
          /\ l * wide <= b.last /\ b.last < l * wide + wide
  BY <1>1, <1>3, StartsWhole
<1>5. start = [b EXCEPT !.at = a, !.last = l]
  BY <1>1, <1>2, <1>4 DEF ConsistencyStart
<1>6. /\ start = [x \in Fields |-> start[x]] /\ start.new = seed /\ start.old = seed
      /\ start.at = a /\ start.last = l
  BY <1>3, <1>5 DEF Fields
<1>7. PICK g \in Nat : g = a * wide /\ Multiple(g, wide * 2) /\ g + wide = o
  <2>1. (a + 1) * wide = o
    BY <1>1, <1>3, <1>4
  <2> QED
    BY <1>4, <2>1, EvenMultiple
<1>8. Place(a, l, wide, z, n)
  <2>0. wide \in Nat /\ wide # 0
    BY PowersDouble
  <2>1. a * wide <= z /\ z < a * wide + wide
    BY <1>1, <1>7, <2>0
  <2>2. l * wide <= n - 1 /\ n - 1 < l * wide + wide
    BY <1>3, <1>4
  <2> QED
    BY <2>1, <2>2 DEF Place
<1>9. Stands(start, wide, g, z, n)
  BY <1>6, <1>7, <1>8 DEF Stands, IsCheck
<1>10. ASSUME NEW w \in Powers, NEW from \in Nat, Multiple(from, w * 2), from + w = Len(olds)
       PROVE  from = f /\ Stands(start, w, from, z, Len(leaves))
  <2>1. from + w = f + v /\ from + w = g + wide
    BY <1>1, <1>7, <1>10
  <2>2. from = f
    BY <1>10, <2>1, OneMultiple
  <2>3. from = g /\ w = wide
    BY <1>7, <1>10, <2>1, OneMultiple
  <2> QED
    BY <1>1, <1>9, <2>2, <2>3
<1> QED
  BY <1>6, <1>10 DEF Seeded

(* The reader holds the first root where the old log is one whole tree. *)
LEMMA SentWhole ==
    ASSUME NEW o \in Nat, o # 0, NEW f \in Nat, NEW v \in Powers, Multiple(f, v * 2), f + v = o
    PROVE  IsPowerOfTwo(o) <=> f = 0
<1>0. v \in Nat
  BY PowersDouble
<1>1. ASSUME o \in Powers PROVE f = 0
  <2>1. 0 = 0 * (o * 2) /\ 0 + o = f + v
    BY <1>0
  <2>2. Multiple(0, o * 2)
    BY <2>1 DEF Multiple
  <2> QED
    BY <1>1, <2>1, <2>2, OneMultiple
<1>2. ASSUME IsPowerOfTwo(o) PROVE o \in Powers
  <2>1. CASE o = 1
    BY <2>1, PowersDouble
  <2>2. CASE o # 1
    <3>1. split_point(o) \in Powers /\ o = 2 * split_point(o)
      BY <1>2, <2>2, Splits DEF IsPowerOfTwo
    <3>2. PICK b \in Powers : b = split_point(o) /\ b \in Nat /\ b * 2 \in Powers
      BY <3>1, PowersDouble
    <3>3. o = b * 2
      BY <3>1, <3>2
    <3> QED
      BY <3>2, <3>3
  <2> QED
    BY <2>1, <2>2
<1>3. ASSUME f = 0 PROVE IsPowerOfTwo(o)
  <2>1. o \in Powers
    BY <1>0, <1>3
  <2>2. CASE o = 1
    BY <2>2 DEF IsPowerOfTwo
  <2>3. CASE o # 1
    <3>1. PICK b \in Powers : b = split_point(o) /\ b \in Nat /\ b < o /\ o <= b * 2
      BY <2>3, Splits, PowersDouble
    <3>2. b * 2 <= o
      BY <2>1, <3>1, PowersApart
    <3> QED
      BY <3>1, <3>2 DEF IsPowerOfTwo
  <2> QED
    BY <2>2, <2>3
<1> QED
  BY <1>1, <1>2, <1>3

(* The consistency check passes where its rounds end at the top with both roots. *)
LEMMA RunPasses ==
    ASSUME NEW old \in Nat, NEW new \in Nat, 0 < old, old < new,
           NEW old_root, NEW new_root, NEW path, NEW seed, NEW rest, Len(rest) \in Nat,
           IsPowerOfTwo(old) => seed = old_root /\ rest = path,
           ~IsPowerOfTwo(old) => path # <<>> /\ seed = path[1] /\ rest = Tail(path),
           \A run : RunsOver(run, "consistency", ConsistencyStart(seed, old, new), rest) =>
               /\ \A k \in 0..Len(rest) : run[k].last = 0 <=> k = Len(rest)
               /\ run[Len(rest)].old = old_root /\ run[Len(rest)].new = new_root
    PROVE  verify_consistency(old, old_root, new, new_root, path)
<1> DEFINE
      held == IF IsPowerOfTwo(old) THEN old_root ELSE path[1]
      over == IF IsPowerOfTwo(old) THEN path ELSE Tail(path)
      Round(run) == [k \in 0..Len(over) |->
                        IF k = 0 THEN ConsistencyStart(held, old, new)
                        ELSE ConsistencyStep(run[k - 1], over[k])]
      run == CHOOSE run : run = Round(run)
<1>1. held = seed /\ over = rest
  OBVIOUS
<1>2. PICK start : start = ConsistencyStart(seed, old, new)
  OBVIOUS
<1>3. ASSUME NEW r PROVE TurnsBy("consistency", start, rest, r) = Round(r)
  BY <1>1, <1>2 DEF TurnsBy, Turn
<1>4. run = Round(run)
  <2>1. PICK r : r = TurnsBy("consistency", start, rest, r)
    BY TurnsEnd
  <2>2. \E g : g = Round(g)
    <3>1. r = Round(r)
      BY <1>3, <2>1
    <3> HIDE DEF Round
    <3> QED
      BY <3>1
  <2> HIDE DEF Round
  <2> QED
    BY <2>2, Zenon
<1>5. /\ 0 < old /\ old <= new /\ old # new
      /\ IsPowerOfTwo(old) \/ path # <<>>
      /\ \A k \in 0..Len(over) : run[k].last = 0 <=> k = Len(over)
      /\ run[Len(over)].old = old_root /\ run[Len(over)].new = new_root
      => verify_consistency(old, old_root, new, new_root, path)
  BY DEF verify_consistency
<1> HIDE DEF run
<1>6. RunsOver(run, "consistency", start, rest)
  <2>1. run = TurnsBy("consistency", start, rest, run)
    BY <1>3, <1>4
  <2> QED
    BY <2>1, TurnsRun
<1>7. /\ \A k \in 0..Len(rest) : run[k].last = 0 <=> k = Len(rest)
      /\ run[Len(rest)].old = old_root /\ run[Len(rest)].new = new_root
  BY <1>2, <1>6
<1> HIDE DEF held, Round
<1> QED
  BY <1>1, <1>5, <1>7

(* The bridge consistency_proof makes from any earlier size is accepted. *)
LEMMA ConsistencyPasses ==
    ASSUME NEW H, NEW leaves \in Seq(H), NEW old \in 1..Len(leaves)
    PROVE  verify_consistency(old, root(SubSeq(leaves, 1, old)), Len(leaves), root(leaves),
                              consistency_proof(leaves, old))
<1>0. Len(leaves) \in Nat /\ old \in Nat /\ old # 0
  OBVIOUS
<1>1. PICK olds \in Seq(H) : /\ olds = SubSeq(leaves, 1, old) /\ Len(olds) = old
                             /\ \A k \in 1..old : leaves[k] = olds[k]
  <2>1. /\ SubSeq(leaves, 1, old) \in Seq(H) /\ Len(SubSeq(leaves, 1, old)) = old
        /\ \A k \in 1..old : leaves[k] = SubSeq(leaves, 1, old)[k]
    BY <1>0
  <2> QED
    BY <2>1
<1>2. PICK path : /\ consistency_proof(leaves, old) = path[Whole(leaves)]
                  /\ ConsistencyPath(path, leaves, old)
  BY <1>0, ConsistencyProofBy DEF ConsistencyPath, IsPath
<1>3. PICK p : p = consistency_proof(leaves, old)
  OBVIOUS
<1>4. CASE old = Len(leaves)
  <2>1. olds = leaves
    BY <1>0, <1>1, <1>4
  <2>2. PICK slice \in Slices(leaves) : slice = <<0, old>> /\ slice = Whole(leaves)
    <3>1. <<0, old>> \in Slices(leaves) /\ Whole(leaves) = <<0, old>>
      BY <1>0, <1>4 DEF Slices, Whole
    <3> QED
      BY <3>1
  <2>3. path[slice] = PathBy(leaves, old - 1, OldSlices(leaves, old), OldSeed(leaves), path)[slice]
    BY <1>2 DEF ConsistencyPath, IsPath
  <2>4. slice \in OldSlices(leaves, old) /\ OldSeed(leaves)[slice] = <<>>
    BY <2>2 DEF OldSlices, OldSeed
  <2>5. p = <<>>
    BY <1>2, <1>3, <2>2, <2>3, <2>4 DEF PathBy
  <2>6. verify_consistency(old, root(olds), Len(leaves), root(leaves), p)
    <3>1. 0 < old /\ old <= Len(leaves) /\ root(olds) = root(leaves)
      BY <1>0, <1>4, <2>1
    <3> QED
      BY <1>4, <2>5, <3>1 DEF verify_consistency
  <2> QED
    BY <1>1, <1>3, <2>6
<1>5. CASE old < Len(leaves)
  <2>1. PICK z \in Nat : z + 1 = old /\ StartsWith(leaves, olds, z)
    <3>1. old - 1 \in Nat /\ (old - 1) + 1 = old
      BY <1>0
    <3> QED
      BY <1>0, <1>1, <1>5, <3>1 DEF StartsWith
  <2>2. PICK f \in Nat, v \in Powers : Multiple(f, v * 2) /\ f + v = old
    BY <1>0, EndsWhole
  <2>3. PICK seed, pre, start : /\ seed = Roots(leaves)[<<f, old>>]
                                /\ pre = OldSeed(leaves)[<<f, old>>]
                                /\ start = ConsistencyStart(seed, old, Len(leaves))
    OBVIOUS
  <2>4. Seeded(leaves, olds, z, pre, start)
    <3>1. f + v = Len(olds) /\ seed = Roots(leaves)[<<f, Len(olds)>>]
          /\ pre = OldSeed(leaves)[<<f, Len(olds)>>]
          /\ start = ConsistencyStart(seed, Len(olds), Len(leaves))
      BY <1>1, <2>2, <2>3
    <3> QED
      BY <2>1, <2>2, <3>1, ConsistencySeed
  <2>5. PICK slice \in Slices(leaves) : slice = <<f, old>>
    <3>1. v \in Nat
      BY PowersDouble
    <3>2. f \in 0..Len(leaves) /\ old \in 0..Len(leaves)
      BY <1>0, <1>5, <2>2, <3>1
    <3>3. <<f, old>> \in Slices(leaves)
      BY <3>2 DEF Slices
    <3> QED
      BY <3>3
  <2>6. pre = IF f = 0 THEN <<>> ELSE <<seed>>
    BY <2>3, <2>5 DEF OldSeed
  <2>7. seed \in Hashes(leaves) /\ pre \in Seq(Hashes(leaves))
    <3>1. seed \in Hashes(leaves)
      BY <2>3, <2>5 DEF Hashes
    <3> QED
      BY <2>6, <3>1
  <2>8. PICK wide \in Powers : Len(leaves) <= wide /\ wide \in Nat
    BY <1>0, <1>5, PowersReach, PowersDouble
  <2>9. p = PathOf(path, leaves, 0, wide) /\ Node(leaves, 0, wide) = root(leaves)
    BY <1>0, <1>2, <1>3, <2>8, WholeTree
  <2>10. ConsistencyClimb(leaves, olds, z, path, pre, start, 0, wide)
    <3>1. 0 * wide = 0 /\ 0 < Len(olds) /\ Len(olds) < Upto(0, wide, Len(leaves))
      BY <1>0, <1>1, <1>5, <2>8 DEF Upto
    <3>2. ConsistencyPath(path, leaves, Len(olds))
      BY <1>1, <1>2
    <3>3. ConsistencyClimb(leaves, olds, z, path, pre, start, 0 * wide, wide)
      BY <2>1, <2>4, <2>7, <3>1, <3>2, ConsistencyClimbs
    <3> QED
      BY <3>1, <3>3
  <2>11. PICK rest \in Seq(Hashes(leaves)) :
             /\ Follows(Hashes(leaves), p, pre, rest)
             /\ \A run : RunsOver(run, "consistency", start, rest) =>
                             Bridges(run, Len(rest), leaves, olds, z, 0, wide)
    BY <2>9, <2>10 DEF ConsistencyClimb
  <2>12. IsPowerOfTwo(old) <=> f = 0
    BY <1>0, <2>2, SentWhole
  <2>13. IsPowerOfTwo(old) => seed = root(olds) /\ rest = p
    <3>1. ASSUME f = 0 PROVE seed = root(olds)
      <4>1. Roots(leaves)[<<0, old>>] = Roots(olds)[<<0, old>>]
        <5>1. 0 < old /\ old <= Len(olds)
          BY <1>0, <1>1
        <5> QED
          BY <1>0, <2>1, <5>1, OldRoots
      <4> QED
        BY <1>1, <2>3, <3>1, <4>1 DEF root, Whole
    <3>2. ASSUME f = 0 PROVE rest = p
      <4>1. Len(pre) = 0
        BY <2>6, <3>2
      <4>2. Len(p) = Len(rest) /\ p \in Seq(Hashes(leaves)) /\ rest \in Seq(Hashes(leaves))
        BY <2>11, <4>1 DEF Follows
      <4>3. \A k \in 1..Len(rest) : p[k] = rest[k]
        BY <2>11, <4>1 DEF Follows
      <4> QED
        BY <4>2, <4>3
    <3> QED
      BY <2>12, <3>1, <3>2
  <2>14. ~IsPowerOfTwo(old) => p # <<>> /\ seed = p[1] /\ rest = Tail(p)
    BY <2>6, <2>7, <2>11, <2>12 DEF Follows
  <2>15. ASSUME NEW run, RunsOver(run, "consistency", start, rest)
         PROVE  /\ \A k \in 0..Len(rest) : run[k].last = 0 <=> k = Len(rest)
                /\ run[Len(rest)].old = root(olds) /\ run[Len(rest)].new = root(leaves)
    <3>1. /\ Arrives(run, Len(rest), leaves, z, 0, wide)
          /\ run[Len(rest)].old = Roots(olds)[<<0, old>>]
      BY <1>1, <2>11, <2>15 DEF Bridges
    <3>2. run[Len(rest)].last = 0
      <4>1. z < Len(leaves)
        BY <1>0, <1>5, <2>1
      <4> QED
        BY <1>0, <2>8, <3>1, <4>1, StandsAtTop DEF Arrives
    <3>3. \A k \in 0..(Len(rest) - 1) : run[k].last # 0
      BY <3>1 DEF Arrives
    <3>4. \A k \in 0..Len(rest) : run[k].last = 0 <=> k = Len(rest)
      BY <3>2, <3>3
    <3>5. run[Len(rest)].old = root(olds)
      BY <1>1, <3>1 DEF root, Whole
    <3>6. run[Len(rest)].new = root(leaves)
      BY <2>9, <3>1 DEF Arrives
    <3> QED
      BY <3>4, <3>5, <3>6
  <2>16. verify_consistency(old, root(olds), Len(leaves), root(leaves), p)
    <3>1. Len(rest) \in Nat /\ 0 < old
      BY <1>0
    <3> QED
      BY <1>0, <1>5, <2>3, <2>13, <2>14, <2>15, <3>1, RunPasses
  <2> QED
    BY <1>1, <1>3, <2>16
<1> QED
  BY <1>0, <1>4, <1>5

(* Every entry and every earlier size of a log has a proof that passes. *)
LEMMA HonestPasses ==
    ASSUME log \in Seq(Entries)
    PROVE  HonestProofsPass
<1>1. PICK leaves : leaves = Leaves(log) /\ Len(leaves) = Len(log) /\ Len(log) \in Nat
  BY LeavesAre
<1>2. leaves \in Seq({leaf_hash(e) : e \in Entries})
  BY <1>1 DEF Leaves
<1>3. ASSUME NEW index \in 0..(Len(log) - 1)
      PROVE  verify_inclusion(leaves[index + 1], index, Len(log),
                              inclusion_proof(leaves, index), root(leaves))
  <2>1. Len(leaves) \in Nat /\ index \in Nat /\ index < Len(leaves)
    BY <1>1, <1>3
  <2>2. verify_inclusion(leaves[index + 1], index, Len(leaves),
                         inclusion_proof(leaves, index), root(leaves))
    BY <2>1, InclusionPasses
  <2> QED
    BY <1>1, <2>2
<1>4. ASSUME NEW old \in 1..Len(log)
      PROVE  verify_consistency(old, root(SubSeq(leaves, 1, old)), Len(log), root(leaves),
                                consistency_proof(leaves, old))
  <2>1. old \in 1..Len(leaves)
    BY <1>1
  <2>2. verify_consistency(old, root(SubSeq(leaves, 1, old)), Len(leaves), root(leaves),
                           consistency_proof(leaves, old))
    BY <1>2, <2>1, ConsistencyPasses
  <2> QED
    BY <1>1, <2>2
<1> QED
  BY <1>1, <1>3, <1>4 DEF HonestProofsPass

(* log.rs, inclusion_proof and consistency_proof against verify_inclusion and
   verify_consistency: for a log of any length, the proof of every entry and of every
   earlier size passes the check the receiver runs, whatever shape the sizes give the
   tree. *)
THEOREM HonestProofsAccepted == Spec => []HonestProofsPass
<1>1. MerkleInv => HonestProofsPass
  BY HonestPasses DEF MerkleInv, TypeOK
<1> QED
  BY <1>1, MerkleInvariant, PTL

=============================================================================
