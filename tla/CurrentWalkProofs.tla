-------------------------- MODULE CurrentWalkProofs --------------------------
(***************************************************************************)
(* What `current` answers, for any links a store may hold, in any shape,   *)
(* and any writes made while it walks.                                     *)
(***************************************************************************)
EXTENDS CurrentWalk, TLAPS

-----------------------------------------------------------------------------
(* Reaching along links. *)

Closed(S, links) == \A l \in links : l[1] \in S => l[2] \in S

LEMMA ReachesItself ==
    ASSUME NEW i \in Ids, NEW links PROVE i \in ReachableFrom(i, links)
  BY DEF ReachableFrom

LEMMA ReachesOneMore ==
    ASSUME NEW i, NEW links, NEW j \in ReachableFrom(i, links), NEW k \in Ids,
           <<j, k>> \in links
    PROVE  k \in ReachableFrom(i, links)
<1> SUFFICES ASSUME NEW S \in SUBSET Ids, i \in S, \A l \in links : l[1] \in S => l[2] \in S
             PROVE  k \in S
  BY DEF ReachableFrom
<1>1. j \in S
  BY DEF ReachableFrom
<1> QED
  BY <1>1

LEMMA ReachesOn ==
    ASSUME NEW i, NEW links, NEW j \in ReachableFrom(i, links),
           NEW k \in ReachableFrom(j, links)
    PROVE  k \in ReachableFrom(i, links)
  BY DEF ReachableFrom

LEMMA ReachesMore ==
    ASSUME NEW i, NEW links, NEW more, links \subseteq more
    PROVE  ReachableFrom(i, links) \subseteq ReachableFrom(i, more)
<1> SUFFICES ASSUME NEW j \in ReachableFrom(i, links)
             PROVE  j \in ReachableFrom(i, more)
  OBVIOUS
<1>1. ASSUME NEW S \in SUBSET Ids, i \in S, \A l \in more : l[1] \in S => l[2] \in S
      PROVE  j \in S
  BY <1>1 DEF ReachableFrom
<1>2. j \in Ids
  BY DEF ReachableFrom
<1> QED
  BY <1>1, <1>2 DEF ReachableFrom

LEMMA ReachesNoFurther ==
    ASSUME NEW links, NEW S \in SUBSET Ids, Closed(S, links), NEW i \in S
    PROVE  ReachableFrom(i, links) \subseteq S
  BY DEF ReachableFrom, Closed

LEMMA CirclesStay ==
    ASSUME NEW i, NEW links, NEW more, links \subseteq more, OnCircle(i, links)
    PROVE  OnCircle(i, more)
  BY ReachesMore DEF OnCircle

-----------------------------------------------------------------------------
(* Types. *)

Stacked == [id : Ids, succs : SUBSET Ids, left : SUBSET Ids]

Walks ==
    [at : {"scan", "walk", "ended"}, start : Ids, unread : SUBSET Ids,
     by : [Ids -> SUBSET Ids], stack : Seq(Stacked), done : SUBSET Ids,
     tips : SUBSET Ids, cycle : SUBSET Ids, verdict : [kind : {"none", "tip", "fork", "cycle"}, ids : SUBSET Ids]]

TypeOK ==
    /\ held \in SUBSET Ids
    /\ buried \in SUBSET Ids
    /\ successor \in [Ids -> Ids \cup {NoId}]
    /\ supersedes \in [Ids -> Ids \cup {NoId}]
    /\ writer \in [at : {"idle", "supersedes", "successor"}, new : Ids \cup {NoId},
                   prior : Ids \cup {NoId}, left : Nat]
    /\ walk \in Walks
    /\ before \in [links : SUBSET (Ids \X Ids), still : BOOLEAN]

(* A create writes link files that are not there yet. *)
WriterOK ==
    /\ \A i \in Ids \ held : supersedes[i] = NoId
    /\ writer.at = "supersedes" => /\ writer.new \in Ids /\ writer.prior \in Ids
                                   /\ supersedes[writer.new] = NoId
    /\ writer.at \in {"supersedes", "successor"} =>
           /\ writer.new \in held /\ writer.prior \in Ids
           /\ successor[writer.prior] = NoId

(* The links either file records, to deeds that are here or not. *)
Written == {l \in Ids \X Ids : successor[l[1]] = l[2] \/ supersedes[l[2]] = l[1]}

(* A path lies along links. *)
AlongPath(path, links) ==
    /\ \A k \in 1..Len(path) : \A j \in path[k].succs : <<path[k].id, j>> \in links
    /\ \A k \in 1..Len(path) : k > 1 => <<path[k - 1].id, path[k].id>> \in links
    /\ \A k \in 1..Len(path) : \A m \in 1..k :
           path[k].id \in ReachableFrom(path[m].id, links)

(* What a walk w has met lies along links: the deeds it was told of, those on
   its path, and the circles it closed. *)
AlongLinks(w, links) ==
    /\ \A j \in Ids : \A i \in w.by[j] : <<j, i>> \in links
    /\ AlongPath(w.stack, links)
    /\ \A i \in w.cycle : OnCircle(i, links)

(* Where it is. *)
Shape(w) ==
    /\ w.at = "scan" => w.stack = <<>> /\ w.done = {} /\ w.tips = {} /\ w.cycle = {}
    /\ w.at # "scan" => w.unread = {}
    /\ w.at # "scan" => w.start \in w.done \/ (w.stack # <<>> /\ w.stack[1].id = w.start)
    /\ w.at = "ended" => w.stack = <<>>
    /\ \A k \in 1..Len(w.stack) : /\ w.stack[k].left \subseteq w.stack[k].succs
                                  /\ w.stack[k].id \notin w.done
    /\ \A k, m \in 1..Len(w.stack) : w.stack[k].id = w.stack[m].id => k = m

(* Until a circle is closed, every link followed led to the next deed on the
   path or to one that is done; and whatever is done led to a tip. *)
Forward(w) ==
    w.cycle = {} =>
        /\ \A k \in 1..Len(w.stack) : \A j \in w.stack[k].succs \ w.stack[k].left :
               j \in w.done \/ (k < Len(w.stack) /\ j = w.stack[k + 1].id)
        /\ w.done # {} => w.tips # {}

(* No link there was at first is lost on a walk w, but to deeds that are gone
   from the shelf. *)
NoneLost(w, first, here) ==
    /\ \A l \in first : l[2] \notin w.unread /\ l[2] \in here =>
           l[2] \in w.by[l[1]] \/ successor[l[1]] = l[2]
    /\ \A k \in 1..Len(w.stack) : \A l \in first :
           l[1] = w.stack[k].id /\ l[2] \in here => l[2] \in w.stack[k].succs
    /\ \A l \in first : l[1] \in w.tips => l[2] \notin here

FirstLinks == \A l \in before.links : l \in Written /\ l[2] \in held

(* On a store that has not changed: only what can be reached is met, and before
   a circle is closed the deeds that are done lead nowhere else, lie on no
   circle, and are tips where no link leads out. *)
Searched(w, links) ==
    /\ w.done \cup w.cycle \subseteq ReachableFrom(w.start, links)
    /\ \A k \in 1..Len(w.stack) : w.stack[k].id \in ReachableFrom(w.start, links)
    /\ w.cycle = {} => /\ Closed(w.done, links)
                       /\ \A i \in w.done : ~OnCircle(i, links)
    /\ w.tips = {i \in w.done : \A l \in links : l[1] # i}

VerdictOK == walk.at = "ended" => walk.verdict = Verdict

WalkInv ==
    /\ TypeOK
    /\ WriterOK
    /\ AlongLinks(walk, Written)
    /\ Shape(walk)
    /\ Forward(walk)
    /\ FirstLinks
    /\ NoneLost(walk, before.links, Live)
    /\ before.still => /\ before.links = Links
                       /\ AlongLinks(walk, before.links)
                       /\ Searched(walk, before.links)
    /\ VerdictOK
-----------------------------------------------------------------------------
LEMMA LiveLinksAreWritten == Links \subseteq Written
  BY DEF Links, Written, Link

LEMMA AlongMore ==
    ASSUME NEW w, NEW links, NEW more, links \subseteq more, AlongLinks(w, links)
    PROVE  AlongLinks(w, more)
  BY ReachesMore, CirclesStay DEF AlongLinks, AlongPath

(* The walk begins with nothing read. *)
LEMMA InitInv == ASSUME WalkAssumption, Init PROVE WalkInv
<1>1. PICK i \in Ids :
         walk = [at |-> "scan", start |-> i, unread |-> Ids, by |-> [j \in Ids |-> {}],
                 stack |-> <<>>, done |-> {}, tips |-> {}, cycle |-> {},
                 verdict |-> NoVerdict]
  BY DEF Init
<1>2. TypeOK
  BY <1>1 DEF Init, TypeOK, Walks, NoVerdict, LinkFiles, Links, WalkAssumption
<1>3. WriterOK
  BY DEF Init, WriterOK, LinkFiles
<1>4. \A links : AlongLinks(walk, links)
  BY <1>1 DEF AlongLinks, AlongPath
<1>5. Shape(walk) /\ Forward(walk) /\ VerdictOK
  BY <1>1 DEF Shape, Forward, VerdictOK
<1>6. before.links = Links /\ FirstLinks
  BY DEF Init, FirstLinks, Links, Written, Link, Live
<1>7. NoneLost(walk, before.links, Live)
  BY <1>1, <1>2 DEF NoneLost, TypeOK
<1>8. \A links : Searched(walk, links)
  BY <1>1 DEF Searched, Closed
<1> QED
  BY <1>2, <1>3, <1>4, <1>5, <1>6, <1>7, <1>8 DEF WalkInv

-----------------------------------------------------------------------------
(* Those who write while it walks. *)

(* A link file is written once, and a deed that is gone does not come back. *)
LEMMA WritesAdd ==
    ASSUME WalkAssumption, TypeOK, WriterOK, Write
    PROVE  /\ TypeOK' /\ WriterOK'
           /\ Written \subseteq Written'
           /\ \A p, q \in Ids : successor[p] = q => successor'[p] = q
           /\ held \subseteq held' /\ Live' \cap held \subseteq Live
           /\ ~before'.still /\ before'.links = before.links /\ walk' = walk
<1>1. ASSUME NEW i \in Ids, NEW j \in Ids, Supersede(i, j)
      PROVE  /\ TypeOK' /\ WriterOK'
             /\ Written \subseteq Written'
             /\ \A p, q \in Ids : successor[p] = q => successor'[p] = q
             /\ held \subseteq held' /\ Live' \cap held \subseteq Live
             /\ ~before'.still /\ before'.links = before.links /\ walk' = walk
  <2>1. /\ held' = held \cup {i} /\ i \notin held \cup buried /\ j \in held
        /\ successor[j] = NoId /\ UNCHANGED <<buried, successor, supersedes, walk>>
        /\ writer' = [at |-> "supersedes", new |-> i, prior |-> j, left |-> writer.left - 1]
        /\ writer.left > 0 /\ before' = [before EXCEPT !.still = FALSE]
    BY <1>1 DEF Supersede, Touch
  <2>2. TypeOK'
    <3>1. writer.left \in Nat /\ writer.left - 1 \in Nat
      BY <2>1 DEF TypeOK
    <3>2. writer' \in [at : {"idle", "supersedes", "successor"}, new : Ids \cup {NoId},
                       prior : Ids \cup {NoId}, left : Nat]
      BY <2>1, <3>1 DEF TypeOK
    <3> QED
      BY <2>1, <3>2 DEF TypeOK
  <2>3. WriterOK'
    BY <2>1 DEF TypeOK, WriterOK
  <2>4. Written' = Written
    BY <2>1 DEF Written
  <2>5. ~before'.still /\ before'.links = before.links
    BY <2>1 DEF TypeOK
  <2> QED
    BY <2>1, <2>2, <2>3, <2>4, <2>5 DEF Live
<1>2. ASSUME WriteSupersedes
      PROVE  /\ TypeOK' /\ WriterOK'
             /\ Written \subseteq Written'
             /\ \A p, q \in Ids : successor[p] = q => successor'[p] = q
             /\ held \subseteq held' /\ Live' \cap held \subseteq Live
             /\ ~before'.still /\ before'.links = before.links /\ walk' = walk
  <2>1. /\ writer.at = "supersedes" /\ UNCHANGED <<held, buried, successor, walk>>
        /\ supersedes' = [supersedes EXCEPT ![writer.new] = writer.prior]
        /\ writer' = [writer EXCEPT !.at = "successor"]
        /\ before' = [before EXCEPT !.still = FALSE]
    BY <1>2 DEF WriteSupersedes, Touch
  <2>2. writer.new \in Ids /\ writer.prior \in Ids /\ supersedes[writer.new] = NoId
    BY <2>1 DEF WriterOK
  <2>3. TypeOK'
    BY <2>1, <2>2 DEF TypeOK
  <2>4. WriterOK'
    BY <2>1, <2>2 DEF TypeOK, WriterOK
  <2>5. Written \subseteq Written'
    <3>1. \A i \in Ids : supersedes[i] \in Ids => supersedes'[i] = supersedes[i]
      BY <2>1, <2>2 DEF TypeOK, WalkAssumption
    <3> QED
      BY <2>1, <3>1 DEF Written
  <2> QED
    BY <2>1, <2>3, <2>4, <2>5 DEF TypeOK, Live
<1>3. ASSUME WriteSuccessor
      PROVE  /\ TypeOK' /\ WriterOK'
             /\ Written \subseteq Written'
             /\ \A p, q \in Ids : successor[p] = q => successor'[p] = q
             /\ held \subseteq held' /\ Live' \cap held \subseteq Live
             /\ ~before'.still /\ before'.links = before.links /\ walk' = walk
  <2>1. /\ writer.at = "successor" /\ UNCHANGED <<held, buried, supersedes, walk>>
        /\ successor' = [successor EXCEPT ![writer.prior] = writer.new]
        /\ writer' = [writer EXCEPT !.at = "idle"]
        /\ before' = [before EXCEPT !.still = FALSE]
    BY <1>3 DEF WriteSuccessor, Touch
  <2>2. writer.new \in Ids /\ writer.prior \in Ids /\ successor[writer.prior] = NoId
    BY <2>1 DEF WriterOK, TypeOK
  <2>3. TypeOK'
    BY <2>1, <2>2 DEF TypeOK
  <2>4. WriterOK'
    BY <2>1, <2>2 DEF TypeOK, WriterOK
  <2>5. \A p, q \in Ids : successor[p] = q => successor'[p] = q
    BY <2>1, <2>2 DEF TypeOK, WalkAssumption
  <2>6. Written \subseteq Written'
    BY <2>1, <2>5 DEF Written
  <2> QED
    BY <2>1, <2>3, <2>4, <2>5, <2>6 DEF TypeOK, Live
<1>4. ASSUME NEW i \in Ids, Delete(i)
      PROVE  /\ TypeOK' /\ WriterOK'
             /\ Written \subseteq Written'
             /\ \A p, q \in Ids : successor[p] = q => successor'[p] = q
             /\ held \subseteq held' /\ Live' \cap held \subseteq Live
             /\ ~before'.still /\ before'.links = before.links /\ walk' = walk
  <2>1. /\ buried' = buried \cup {i} /\ UNCHANGED <<held, successor, supersedes, walk>>
        /\ writer.left > 0 /\ writer' = [writer EXCEPT !.left = writer.left - 1]
        /\ writer.at = "idle" /\ before' = [before EXCEPT !.still = FALSE]
    BY <1>4 DEF Delete, Touch
  <2>2. TypeOK'
    <3>1. writer.left \in Nat /\ writer.left - 1 \in Nat
      BY <2>1 DEF TypeOK
    <3>2. writer' \in [at : {"idle", "supersedes", "successor"}, new : Ids \cup {NoId},
                       prior : Ids \cup {NoId}, left : Nat]
      BY <2>1, <3>1 DEF TypeOK
    <3> QED
      BY <2>1, <3>2 DEF TypeOK
  <2>3. WriterOK'
    BY <2>1 DEF TypeOK, WriterOK
  <2>4. Written' = Written
    BY <2>1 DEF Written
  <2>5. ~before'.still /\ before'.links = before.links
    BY <2>1 DEF TypeOK
  <2> QED
    BY <2>1, <2>2, <2>3, <2>4, <2>5 DEF Live
<1> QED
  BY <1>1, <1>2, <1>3, <1>4 DEF Write

LEMMA WriteInv == ASSUME WalkAssumption, WalkInv, Write PROVE WalkInv'
<1>1. /\ TypeOK' /\ WriterOK' /\ Written \subseteq Written'
      /\ \A p, q \in Ids : successor[p] = q => successor'[p] = q
      /\ held \subseteq held' /\ Live' \cap held \subseteq Live
      /\ ~before'.still /\ before'.links = before.links /\ walk' = walk
  BY WritesAdd DEF WalkInv
<1>2. AlongLinks(walk, Written)'
  <2>1. PICK more : more = Written'
    OBVIOUS
  <2>2. AlongLinks(walk, more)
    BY <1>1, <2>1, AlongMore DEF WalkInv
  <2> QED
    BY <1>1, <2>1, <2>2 DEF AlongLinks, AlongPath
<1>3. FirstLinks'
  BY <1>1 DEF WalkInv, FirstLinks
<1>4. \A l \in before.links : l[2] \in Live' => l[2] \in Live
  BY <1>1 DEF WalkInv, FirstLinks
<1>5. NoneLost(walk, before.links, Live)'
  <2>1. PICK here : here = Live'
    OBVIOUS
  <2>2. \A l \in before.links : l[2] \in here => l[2] \in Live
    BY <1>4, <2>1
  <2>3. \A l \in before.links : successor[l[1]] = l[2] => successor'[l[1]] = l[2]
    <3>1. \A l \in before.links : l[1] \in Ids /\ l[2] \in Ids
      BY DEF WalkInv, TypeOK
    <3> QED
      BY <1>1, <3>1
  <2>4. NoneLost(walk, before.links, Live)
    BY DEF WalkInv
  <2>5. NoneLost(walk, before.links, here)'
    BY <1>1, <2>2, <2>3, <2>4 DEF NoneLost
  <2> QED
    BY <2>1, <2>5
<1>6. VerdictOK'
  BY <1>1 DEF WalkInv, VerdictOK, Verdict
<1>7. Shape(walk)' /\ Forward(walk)'
  BY <1>1 DEF WalkInv, Shape, Forward
<1> QED
  BY <1>1, <1>2, <1>3, <1>5, <1>6, <1>7 DEF WalkInv

-----------------------------------------------------------------------------
(* The walk's own steps write nothing. *)
LEMMA WalkStep ==
    ASSUME WalkInv, UNCHANGED <<files, writer, before>>,
           NEW w \in Walks, w = walk',
           AlongLinks(w, Written), Shape(w), Forward(w),
           NoneLost(w, before.links, Live),
           before.still => AlongLinks(w, before.links) /\ Searched(w, before.links),
           VerdictOK'
    PROVE  WalkInv'
<1>1. UNCHANGED <<held, buried, successor, supersedes, writer, before>>
  BY DEF files
<1>2. TypeOK' /\ WriterOK'
  BY <1>1 DEF WalkInv, TypeOK, WriterOK
<1>3. Written' = Written /\ Live' = Live /\ Links' = Links
  BY <1>1 DEF Written, Live, Links, Link
<1>4. FirstLinks'
  BY <1>1, <1>3 DEF WalkInv, FirstLinks
<1>5. AlongLinks(walk, Written)' /\ Shape(walk)' /\ Forward(walk)'
  BY <1>3 DEF AlongLinks, AlongPath, Shape, Forward
<1>6. NoneLost(walk, before.links, Live)'
  BY <1>1, <1>3 DEF NoneLost
<1>7. before'.still => AlongLinks(walk, before.links)' /\ Searched(walk, before.links)'
  BY <1>1 DEF AlongLinks, AlongPath, Searched
<1> QED
  BY <1>1, <1>2, <1>3, <1>4, <1>5, <1>6, <1>7 DEF WalkInv

(* What a deed entered is linked to, as the walk sees it. *)
LEMMA SuccessorsLinked ==
    ASSUME WalkAssumption, TypeOK, NEW links, Links \subseteq links, AlongLinks(walk, links),
           NEW i \in Ids
    PROVE  Successors(i) \in SUBSET Ids /\ \A j \in Successors(i) : <<i, j>> \in links
<1>1. walk.by[i] \in SUBSET Ids /\ \A j \in walk.by[i] : <<i, j>> \in links
  BY DEF TypeOK, Walks, AlongLinks, AlongPath
<1>2. \A j \in next_tip(i) : j \in Ids /\ <<i, j>> \in Links
  BY DEF next_tip, Links, Link, Live, TypeOK
<1> QED
  BY <1>1, <1>2 DEF Successors

LEMMA ScanInv == ASSUME WalkAssumption, WalkInv, NEW i \in Ids, Scan(i) PROVE WalkInv'
<1>1. /\ walk.at = "scan" /\ i \in walk.unread /\ walk \in Walks /\ TypeOK
      /\ UNCHANGED <<files, writer, before>>
  BY DEF Scan, WalkInv, TypeOK
<1>2. PICK b : b = IF Named(i) THEN [walk.by EXCEPT ![supersedes[i]] = @ \cup {i}] ELSE walk.by
  OBVIOUS
<1>3. /\ b \in [Ids -> SUBSET Ids]
      /\ \A j \in Ids : walk.by[j] \subseteq b[j]
      /\ \A j \in Ids : \A k \in b[j] : k \in walk.by[j] \/ (k = i /\ supersedes[i] = j /\ Named(i))
      /\ Named(i) => supersedes[i] \in Ids /\ i \in b[supersedes[i]]
  <2>1. walk.by \in [Ids -> SUBSET Ids] /\ (Named(i) => supersedes[i] \in Ids)
    BY <1>1 DEF Named, TypeOK, Walks
  <2>2. CASE Named(i)
    BY <1>2, <2>1, <2>2
  <2>3. CASE ~Named(i)
    BY <1>2, <2>1, <2>3
  <2> QED
    BY <2>2, <2>3
<1>4. PICK w : w = [walk EXCEPT !.unread = @ \ {i}, !.by = b]
  OBVIOUS
<1>5. /\ w \in Walks /\ w.unread = walk.unread \ {i} /\ w.by = b
      /\ w.at = "scan" /\ w.start = walk.start /\ w.stack = walk.stack /\ w.done = walk.done
      /\ w.tips = walk.tips /\ w.cycle = walk.cycle
  BY <1>1, <1>3, <1>4 DEF Walks
<1>6. w = walk'
  BY <1>2, <1>4 DEF Scan, Told
<1>7. ASSUME NEW links, Links \subseteq links, AlongLinks(walk, links)
      PROVE  AlongLinks(w, links)
  <2>1. Named(i) => <<supersedes[i], i>> \in Links
    BY <1>3 DEF Named, Links, Link
  <2>2. ASSUME NEW j \in Ids, NEW k \in w.by[j] PROVE <<j, k>> \in links
    <3>1. CASE k \in walk.by[j]
      BY <1>7, <3>1 DEF AlongLinks, AlongPath
    <3>2. CASE k = i /\ supersedes[i] = j /\ Named(i)
      BY <1>7, <2>1, <3>2
    <3> QED
      BY <1>3, <1>5, <2>2, <3>1, <3>2
  <2> QED
    BY <1>5, <1>7, <2>2 DEF AlongLinks, AlongPath
<1>8. Shape(w) /\ Forward(w)
  BY <1>1, <1>5 DEF WalkInv, Shape, Forward
<1>9. NoneLost(w, before.links, Live)
  <2>1. ASSUME NEW l \in before.links, l[2] \notin w.unread, l[2] \in Live
        PROVE  l[2] \in w.by[l[1]] \/ successor[l[1]] = l[2]
    <3>1. l[1] \in Ids /\ l[2] \in Ids /\ (successor[l[1]] = l[2] \/ supersedes[l[2]] = l[1])
      BY DEF WalkInv, FirstLinks, Written
    <3>2. CASE l[2] \notin walk.unread
      BY <1>3, <1>5, <2>1, <3>1, <3>2 DEF WalkInv, NoneLost
    <3>3. CASE l[2] = i
      BY <1>3, <1>5, <2>1, <3>1, <3>3 DEF Named, WalkAssumption
    <3> QED
      BY <1>5, <2>1, <3>2, <3>3
  <2> QED
    BY <1>5, <2>1 DEF WalkInv, NoneLost
<1>10. before.still => AlongLinks(w, before.links) /\ Searched(w, before.links)
  BY <1>5, <1>7 DEF WalkInv, Searched
<1>11. AlongLinks(w, Written)
  BY <1>7, LiveLinksAreWritten DEF WalkInv
<1>12. VerdictOK'
  BY <1>5, <1>6 DEF VerdictOK
<1> QED
  BY <1>1, <1>5, <1>6, <1>8, <1>9, <1>10, <1>11, <1>12, WalkStep

(* A deed entered: its frame, and what is known of it. *)
LEMMA FrameFacts ==
    ASSUME WalkAssumption, WalkInv, walk.unread = {}, NEW i \in Ids
    PROVE  /\ Frame(i) \in Stacked
           /\ Frame(i).id = i /\ Frame(i).left = Frame(i).succs
           /\ \A j \in Frame(i).succs : <<i, j>> \in Written
           /\ before.still => \A j \in Frame(i).succs : <<i, j>> \in before.links
           /\ \A l \in before.links : l[1] = i /\ l[2] \in Live => l[2] \in Frame(i).succs
<1>1. Frame(i).id = i /\ Frame(i).succs = Successors(i) /\ Frame(i).left = Successors(i)
  BY DEF Frame
<1>2. Successors(i) \in SUBSET Ids /\ \A j \in Successors(i) : <<i, j>> \in Written
  BY SuccessorsLinked, LiveLinksAreWritten DEF WalkInv
<1>3. before.still => \A j \in Successors(i) : <<i, j>> \in before.links
  BY SuccessorsLinked DEF WalkInv
<1>4. \A l \in before.links : l[1] = i /\ l[2] \in Live => l[2] \in Successors(i)
  BY DEF WalkInv, NoneLost, Successors, next_tip
<1>5. Frame(i) \in Stacked
  BY <1>2 DEF Frame, Stacked
<1> QED
  BY <1>1, <1>2, <1>3, <1>4, <1>5

LEMMA EnterInv == ASSUME WalkAssumption, WalkInv, Enter PROVE WalkInv'
<1>1. /\ walk.at = "scan" /\ walk.unread = {} /\ walk \in Walks
      /\ UNCHANGED <<files, writer, before>> /\ walk.start \in Ids
  BY DEF Enter, WalkInv, TypeOK, Walks
<1>2. PICK f : f = Frame(walk.start)
  OBVIOUS
<1>3. /\ f \in Stacked /\ f.id = walk.start /\ f.left = f.succs
      /\ \A j \in f.succs : <<f.id, j>> \in Written
      /\ before.still => \A j \in f.succs : <<f.id, j>> \in before.links
      /\ \A l \in before.links : l[1] = f.id /\ l[2] \in Live => l[2] \in f.succs
  BY <1>1, <1>2, FrameFacts
<1>4. PICK w : w = [walk EXCEPT !.at = "walk", !.stack = <<f>>]
  OBVIOUS
<1>5. /\ w \in Walks /\ w.at = "walk" /\ w.stack = <<f>> /\ w.unread = {} /\ w.by = walk.by
      /\ w.start = walk.start /\ w.done = {} /\ w.tips = {} /\ w.cycle = {}
      /\ w.start \in Ids
  <2>1. <<f>> \in Seq(Stacked)
    BY <1>3
  <2>2. walk.done = {} /\ walk.tips = {} /\ walk.cycle = {}
    BY <1>1 DEF WalkInv, Shape
  <2> QED
    BY <1>1, <1>4, <2>1, <2>2 DEF Walks
<1>6. Len(w.stack) = 1 /\ w.stack[1] = f
  BY <1>5
<1>7. w = walk'
  BY <1>2, <1>4 DEF Enter
<1>8. ASSUME NEW links, \A j \in f.succs : <<f.id, j>> \in links, AlongLinks(walk, links)
      PROVE  AlongLinks(w, links)
  <2>1. \A k \in 1..Len(w.stack) : k = 1
    BY <1>6
  <2>2. w.start \in ReachableFrom(w.start, links)
    BY <1>5, ReachesItself
  <2> QED
    BY <1>3, <1>5, <1>6, <1>8, <2>1, <2>2 DEF AlongLinks, AlongPath
<1>9. Shape(w) /\ Forward(w)
  BY <1>3, <1>5, <1>6 DEF Shape, Forward
<1>10. NoneLost(w, before.links, Live)
  BY <1>1, <1>3, <1>5, <1>6 DEF WalkInv, NoneLost
<1>11. before.still => AlongLinks(w, before.links) /\ Searched(w, before.links)
  <2>1. before.still => AlongLinks(w, before.links)
    BY <1>3, <1>8 DEF WalkInv
  <2>2. Searched(w, before.links)
    <3>1. \A k \in 1..Len(w.stack) : w.stack[k].id = w.start
      BY <1>3, <1>5, <1>6
    <3>2. w.start \in ReachableFrom(w.start, before.links)
      BY <1>5, ReachesItself
    <3>3. \A i \in w.done : FALSE
      BY <1>5
    <3>4. Closed(w.done, before.links)
      BY <3>3 DEF Closed
    <3>5. w.tips = {i \in w.done : \A l \in before.links : l[1] # i}
      BY <1>5, <3>3
    <3> QED
      BY <1>5, <3>1, <3>2, <3>3, <3>4, <3>5 DEF Searched
  <2> QED
    BY <2>1, <2>2
<1>12. AlongLinks(w, Written)
  BY <1>3, <1>8 DEF WalkInv
<1>13. VerdictOK'
  BY <1>5, <1>7 DEF VerdictOK
<1> QED
  BY <1>1, <1>5, <1>7, <1>9, <1>10, <1>11, <1>12, <1>13, WalkStep

LEMMA ConcludeInv == ASSUME WalkAssumption, WalkInv, Conclude PROVE WalkInv'
<1>1. /\ walk.at = "walk" /\ walk.stack = <<>> /\ walk \in Walks
      /\ UNCHANGED <<files, writer, before>> /\ walk.start \in Ids
  BY DEF Conclude, WalkInv, TypeOK, Walks
<1>2. PICK v : v = Verdict
  OBVIOUS
<1>3. v \in [kind : {"none", "tip", "fork", "cycle"}, ids : SUBSET Ids]
  BY <1>1, <1>2 DEF Verdict, Walks
<1>4. PICK w : w = [walk EXCEPT !.at = "ended", !.verdict = v]
  OBVIOUS
<1>5. /\ w \in Walks /\ w.at = "ended" /\ w.verdict = v /\ w.stack = walk.stack
      /\ w.unread = walk.unread /\ w.by = walk.by
      /\ w.start = walk.start /\ w.done = walk.done /\ w.tips = walk.tips
      /\ w.cycle = walk.cycle
  BY <1>1, <1>3, <1>4 DEF Walks
<1>6. w = walk'
  BY <1>2, <1>4 DEF Conclude
<1>7. \A links : AlongLinks(walk, links) => AlongLinks(w, links)
  BY <1>5 DEF AlongLinks, AlongPath
<1>8. Shape(w) /\ Forward(w)
  BY <1>1, <1>5 DEF WalkInv, Shape, Forward
<1>9. NoneLost(w, before.links, Live)
  BY <1>5 DEF WalkInv, NoneLost
<1>10. before.still => AlongLinks(w, before.links) /\ Searched(w, before.links)
  BY <1>5, <1>7 DEF WalkInv, Searched
<1>11. VerdictOK'
  BY <1>2, <1>5, <1>6 DEF VerdictOK, Verdict
<1> QED
  BY <1>1, <1>5, <1>6, <1>7, <1>8, <1>9, <1>10, <1>11, WalkStep DEF WalkInv

(* A deed left behind: its links led to deeds that are done, unless a circle
   was closed, so what is done leads nowhere else and the deed is on no circle. *)
LEMMA LeaveInv == ASSUME WalkAssumption, WalkInv, Leave PROVE WalkInv'
<1>1. /\ walk.at = "walk" /\ walk.stack # <<>> /\ Top.left = {} /\ walk \in Walks
      /\ UNCHANGED <<files, writer, before>>
  BY DEF Leave, WalkInv, TypeOK
<1>2. PICK n : n = Len(walk.stack)
  OBVIOUS
<1>3. PICK f : f = walk.stack[n]
  OBVIOUS
<1>4. n \in Nat \ {0} /\ walk.stack \in Seq(Stacked) /\ f \in Stacked
  BY <1>1, <1>2, <1>3 DEF Walks
<1>5. f.id \in Ids /\ f.succs \subseteq Ids /\ f.left = {} /\ f.id \notin walk.done
  BY <1>1, <1>2, <1>3, <1>4 DEF Stacked, Top, WalkInv, Shape
<1>6. PICK s : s = SubSeq(walk.stack, 1, n - 1)
  OBVIOUS
<1>7. s \in Seq(Stacked) /\ Len(s) = n - 1 /\ \A k \in 1..(n - 1) : s[k] = walk.stack[k]
  BY <1>2, <1>4, <1>6
<1>8. PICK w : w = [walk EXCEPT !.stack = s, !.done = @ \cup {f.id},
                                !.tips = IF f.succs = {} THEN @ \cup {f.id} ELSE @]
  OBVIOUS
<1>9. /\ w \in Walks /\ w.at = "walk" /\ w.stack = s /\ w.unread = walk.unread
      /\ w.by = walk.by /\ w.start = walk.start /\ w.cycle = walk.cycle
      /\ w.done = walk.done \cup {f.id}
      /\ w.tips = IF f.succs = {} THEN walk.tips \cup {f.id} ELSE walk.tips
  BY <1>1, <1>5, <1>7, <1>8 DEF Walks
<1>10. w = walk'
  BY <1>2, <1>3, <1>6, <1>8 DEF Leave, Top
<1>11. \A links : AlongLinks(walk, links) => AlongLinks(w, links)
  <2> SUFFICES ASSUME NEW links, AlongLinks(walk, links) PROVE AlongLinks(w, links)
    OBVIOUS
  <2>1. \A k \in 1..Len(s) : k \in 1..Len(walk.stack) /\ k \in 1..(n - 1)
    BY <1>2, <1>4, <1>7
  <2>2. \A k \in 1..Len(s) : k > 1 => k - 1 \in 1..(n - 1)
    BY <1>4, <1>7
  <2>3. \A k \in 1..Len(s) : \A m \in 1..k : m \in 1..(n - 1)
    BY <1>4, <1>7
  <2> QED
    BY <1>7, <1>9, <2>1, <2>2, <2>3 DEF AlongLinks, AlongPath
<1>12. Shape(w)
  <2>1. \A k \in 1..Len(s) : k \in 1..Len(walk.stack) /\ k # n /\ s[k] = walk.stack[k]
    BY <1>2, <1>4, <1>7
  <2>2. n \in 1..Len(walk.stack)
    BY <1>2, <1>4
  <2>3. w.start \in w.done \/ (w.stack # <<>> /\ w.stack[1].id = w.start)
    <3>1. CASE n = 1
      BY <1>1, <1>3, <1>9, <3>1 DEF WalkInv, Shape
    <3>2. CASE n # 1
      <4>1. Len(s) > 0 /\ s[1] = walk.stack[1]
        BY <1>4, <1>7, <3>2
      <4> QED
        BY <1>1, <1>7, <1>9, <4>1 DEF WalkInv, Shape
    <3> QED
      BY <3>1, <3>2
  <2>4. \A k \in 1..Len(s) : s[k].id # f.id
    BY <1>3, <2>1, <2>2 DEF WalkInv, Shape
  <2> QED
    BY <1>1, <1>9, <2>1, <2>3, <2>4 DEF WalkInv, Shape
<1>13. walk.cycle = {} => \A j \in f.succs : j \in walk.done
  <2>1. n \in 1..Len(walk.stack) /\ ~(n < Len(walk.stack))
    BY <1>2, <1>4
  <2> QED
    BY <1>3, <1>5, <2>1 DEF WalkInv, Forward
<1>14. Forward(w)
  <2>1. ASSUME w.cycle = {}, NEW k \in 1..Len(s), NEW j \in s[k].succs \ s[k].left
        PROVE  j \in w.done \/ (k < Len(s) /\ j = s[k + 1].id)
    <3>1. k \in 1..Len(walk.stack) /\ s[k] = walk.stack[k] /\ (k = n - 1 \/ k + 1 \in 1..(n - 1))
      BY <1>2, <1>4, <1>7
    <3>2. j \in walk.done \/ j = walk.stack[k + 1].id
      BY <1>9, <2>1, <3>1 DEF WalkInv, Forward
    <3>3. CASE k = n - 1
      BY <1>3, <1>4, <1>9, <3>2, <3>3
    <3>4. CASE k + 1 \in 1..(n - 1)
      BY <1>4, <1>7, <1>9, <3>2, <3>4
    <3> QED
      BY <3>1, <3>3, <3>4
  <2>2. w.cycle = {} => w.tips # {}
    BY <1>9, <1>13 DEF WalkInv, Forward
  <2> QED
    BY <1>9, <2>1, <2>2 DEF Forward
<1>15. \A l \in before.links : l[1] = f.id /\ l[2] \in Live => l[2] \in f.succs
  <2>1. n \in 1..Len(walk.stack)
    BY <1>2, <1>4
  <2> QED
    BY <1>3, <2>1 DEF WalkInv, NoneLost
<1>16. NoneLost(w, before.links, Live)
  <2>1. \A k \in 1..Len(s) : k \in 1..Len(walk.stack) /\ s[k] = walk.stack[k]
    BY <1>2, <1>4, <1>7
  <2>2. \A l \in before.links : l[1] \in w.tips => l[2] \notin Live
    BY <1>9, <1>15 DEF WalkInv, NoneLost
  <2> QED
    BY <1>9, <2>1, <2>2 DEF WalkInv, NoneLost
<1>17. ASSUME before.still PROVE Searched(w, before.links)
  <2>1. n \in 1..Len(walk.stack) /\ \A k \in 1..Len(s) : k \in 1..Len(walk.stack) /\ s[k] = walk.stack[k]
    BY <1>2, <1>4, <1>7
  <2>2. \A l \in before.links : l[1] = f.id => l[2] \in f.succs
    BY <1>15, <1>17 DEF WalkInv, Links, Link
  <2>3. /\ f.id \in ReachableFrom(walk.start, before.links)
        /\ \A j \in f.succs : <<f.id, j>> \in before.links
    BY <1>3, <1>17, <2>1 DEF WalkInv, Searched, AlongLinks, AlongPath
  <2>4. ASSUME w.cycle = {}
        PROVE  Closed(w.done, before.links) /\ ~OnCircle(f.id, before.links)
    <3>1. Closed(walk.done, before.links) /\ walk.done \in SUBSET Ids
      BY <1>1, <1>9, <1>17, <2>4 DEF WalkInv, Searched, Walks
    <3>2. \A l \in before.links : l[1] = f.id => l[2] \in walk.done
      BY <1>9, <1>13, <2>2, <2>4
    <3>3. Closed(w.done, before.links)
      BY <1>9, <3>1, <3>2 DEF Closed
    <3>4. ASSUME NEW l \in before.links, l[1] = f.id
          PROVE  f.id \notin ReachableFrom(l[2], before.links)
      <4>1. l[2] \in walk.done
        BY <3>2, <3>4
      <4>2. ReachableFrom(l[2], before.links) \subseteq walk.done
        BY <3>1, <4>1 DEF ReachableFrom, Closed
      <4> QED
        BY <1>5, <4>2
    <3> QED
      BY <3>3, <3>4 DEF OnCircle
  <2>5. w.tips = {i \in w.done : \A l \in before.links : l[1] # i}
    <3>1. walk.tips = {i \in walk.done : \A l \in before.links : l[1] # i}
      BY <1>17 DEF WalkInv, Searched
    <3>2. CASE f.succs = {}
      BY <1>9, <2>2, <3>1, <3>2
    <3>3. CASE f.succs # {}
      <4>1. \E l \in before.links : l[1] = f.id
        BY <2>3, <3>3
      <4> QED
        BY <1>9, <3>1, <3>3, <4>1
    <3> QED
      BY <3>2, <3>3
  <2>6. w.done \cup w.cycle \subseteq ReachableFrom(w.start, before.links)
    BY <1>9, <1>17, <2>3 DEF WalkInv, Searched
  <2>7. \A k \in 1..Len(w.stack) : w.stack[k].id \in ReachableFrom(w.start, before.links)
    BY <1>9, <1>17, <2>1 DEF WalkInv, Searched
  <2>8. w.cycle = {} => \A i \in w.done : ~OnCircle(i, before.links)
    BY <1>9, <1>17, <2>4 DEF WalkInv, Searched
  <2> QED
    BY <2>4, <2>5, <2>6, <2>7, <2>8 DEF Searched
<1>18. VerdictOK'
  BY <1>9, <1>10 DEF VerdictOK
<1> QED
  BY <1>1, <1>9, <1>10, <1>11, <1>12, <1>14, <1>16, <1>17, <1>18, WalkStep DEF WalkInv

(* The path once a link is followed: as it was, but for the link. *)
LEMMA FollowedFacts ==
    ASSUME WalkInv, NEW next \in Ids, Following(next)
    PROVE  LET n == Len(walk.stack)
               f == walk.stack[n]
               s == Followed(next)
           IN  /\ walk.at = "walk" /\ walk.unread = {} /\ n \in Nat \ {0}
               /\ walk.stack \in Seq(Stacked) /\ f \in Stacked
               /\ next \in f.left /\ next \in f.succs
               /\ s \in Seq(Stacked) /\ Len(s) = n
               /\ \A k \in 1..n : /\ s[k] \in Stacked
                                  /\ s[k].id = walk.stack[k].id
                                  /\ s[k].succs = walk.stack[k].succs
                                  /\ k # n => s[k].left = walk.stack[k].left
               /\ s[n].left = f.left \ {next}
<1>1. /\ walk.at = "walk" /\ walk.stack # <<>> /\ next \in Top.left /\ walk \in Walks
  BY DEF Following, WalkInv, TypeOK
<1>2. PICK n : n = Len(walk.stack)
  OBVIOUS
<1>3. PICK f : f = walk.stack[n]
  OBVIOUS
<1>4. n \in Nat \ {0} /\ walk.stack \in Seq(Stacked) /\ f \in Stacked /\ walk.unread = {}
  BY <1>1, <1>2, <1>3 DEF Walks, WalkInv, Shape
<1>5. n \in 1..Len(walk.stack) /\ next \in f.left /\ next \in f.succs
  BY <1>1, <1>2, <1>3, <1>4 DEF Top, WalkInv, Shape
<1>6. PICK g : g = [f EXCEPT !.left = @ \ {next}]
  OBVIOUS
<1>7. g \in Stacked /\ g.id = f.id /\ g.succs = f.succs /\ g.left = f.left \ {next}
  BY <1>4, <1>6 DEF Stacked
<1>8. PICK s : s = [walk.stack EXCEPT ![n] = g]
  OBVIOUS
<1>9. s = Followed(next)
  BY <1>2, <1>3, <1>6, <1>8 DEF Followed
<1>10. s \in Seq(Stacked) /\ Len(s) = n /\ s[n] = g
       /\ \A k \in 1..n : s[k] \in Stacked /\ (k # n => s[k] = walk.stack[k])
  BY <1>2, <1>4, <1>5, <1>7, <1>8
<1>11. \A k \in 1..n : /\ s[k].id = walk.stack[k].id
                       /\ s[k].succs = walk.stack[k].succs
                       /\ k # n => s[k].left = walk.stack[k].left
  BY <1>3, <1>7, <1>10
<1> QED
  BY <1>1, <1>2, <1>3, <1>4, <1>5, <1>7, <1>9, <1>10, <1>11

(* A link followed from the end of the path closes a circle, leads to a deed
   that is done, or makes the path longer. *)
LEMMA FollowInv == ASSUME WalkAssumption, WalkInv, Follow PROVE WalkInv'
<1>1. PICK next \in Ids :
        /\ Following(next)
        /\ walk' = CASE next \in OnPath ->
                            [walk EXCEPT !.stack = Followed(next),
                                         !.cycle = @ \cup PathFrom(next)]
                     [] next \in walk.done -> [walk EXCEPT !.stack = Followed(next)]
                     [] OTHER -> [walk EXCEPT !.stack = Append(Followed(next), Frame(next))]
  BY DEF Follow
<1>2. PICK n, f, s : n = Len(walk.stack) /\ f = walk.stack[n] /\ s = Followed(next)
  OBVIOUS
<1>3. /\ walk.at = "walk" /\ walk.unread = {} /\ n \in Nat \ {0}
      /\ walk.stack \in Seq(Stacked) /\ f \in Stacked
      /\ next \in f.left /\ next \in f.succs
      /\ s \in Seq(Stacked) /\ Len(s) = n
      /\ \A k \in 1..n : /\ s[k] \in Stacked
                         /\ s[k].id = walk.stack[k].id
                         /\ s[k].succs = walk.stack[k].succs
                         /\ k # n => s[k].left = walk.stack[k].left
      /\ s[n].left = f.left \ {next}
  BY <1>1, <1>2, FollowedFacts
<1>4. UNCHANGED <<files, writer, before>> /\ walk \in Walks
  BY DEF Follow, WalkInv, TypeOK
<1>5. n \in 1..n /\ s[n].id = f.id /\ s[n].succs = f.succs /\ f.id \in Ids
  BY <1>2, <1>3 DEF Stacked
<1>6. \A links : AlongLinks(walk, links) => AlongPath(s, links) /\ <<f.id, next>> \in links
  <2> SUFFICES ASSUME NEW links, AlongPath(walk.stack, links)
               PROVE  AlongPath(s, links) /\ <<f.id, next>> \in links
    BY DEF AlongLinks
  <2>1. \A k \in 1..n : k > 1 => k - 1 \in 1..n
    BY <1>3
  <2>2. \A k \in 1..n : \A m \in 1..k : m \in 1..n
    BY <1>3
  <2>3. <<f.id, next>> \in links
    BY <1>2, <1>3, <1>5 DEF AlongPath
  <2>4. \A k \in 1..n : \A j \in s[k].succs : <<s[k].id, j>> \in links
    BY <1>2, <1>3 DEF AlongPath
  <2>5. \A k \in 1..n : k > 1 => <<s[k - 1].id, s[k].id>> \in links
    BY <1>2, <1>3, <2>1 DEF AlongPath
  <2>6. \A k \in 1..n : \A m \in 1..k : s[k].id \in ReachableFrom(s[m].id, links)
    BY <1>2, <1>3, <2>2 DEF AlongPath
  <2> QED
    BY <1>3, <2>3, <2>4, <2>5, <2>6 DEF AlongPath
<1>7. /\ \A k \in 1..n : s[k].left \subseteq s[k].succs /\ s[k].id \notin walk.done
      /\ \A k, m \in 1..n : s[k].id = s[m].id => k = m
      /\ walk.start \in walk.done \/ s[1].id = walk.start
  <2>1. 1 \in 1..n
    BY <1>3
  <2>2. s[n].left \subseteq s[n].succs
    BY <1>2, <1>3, <1>5 DEF WalkInv, Shape
  <2> QED
    BY <1>2, <1>3, <2>1, <2>2 DEF WalkInv, Shape
<1>8. /\ \A k \in 1..n : \A l \in before.links :
            l[1] = s[k].id /\ l[2] \in Live => l[2] \in s[k].succs
      /\ \A l \in before.links : l[1] \in walk.tips => l[2] \notin Live
  BY <1>2, <1>3 DEF WalkInv, NoneLost
<1>9. before.still => \A k \in 1..n : s[k].id \in ReachableFrom(walk.start, before.links)
  BY <1>2, <1>3 DEF WalkInv, Searched
<1>10. walk.cycle = {} =>
         /\ \A k \in 1..n : \A j \in s[k].succs \ s[k].left :
               \/ j \in walk.done \/ (k < n /\ j = s[k + 1].id)
               \/ k = n /\ j = next
         /\ walk.done # {} => walk.tips # {}
  <2>1. ASSUME walk.cycle = {}, NEW k \in 1..n, NEW j \in s[k].succs \ s[k].left
        PROVE  \/ j \in walk.done \/ (k < n /\ j = s[k + 1].id)
               \/ k = n /\ j = next
    <3>1. CASE k = n
      <4>1. j = next \/ j \in f.succs \ f.left
        BY <1>3, <1>5, <2>1, <3>1
      <4>2. j \in f.succs \ f.left => j \in walk.done
        BY <1>2, <1>3, <2>1 DEF WalkInv, Forward
      <4> QED
        BY <3>1, <4>1, <4>2
    <3>2. CASE k # n
      <4>1. k < n /\ k + 1 \in 1..n
        BY <1>3, <3>2
      <4>2. j \in walk.stack[k].succs \ walk.stack[k].left
        BY <1>3, <3>2
      <4> QED
        BY <1>2, <1>3, <2>1, <4>1, <4>2 DEF WalkInv, Forward
    <3> QED
      BY <3>1, <3>2
  <2> QED
    BY <2>1 DEF WalkInv, Forward
<1>11. CASE next \in OnPath
  <2>1. PICK c : c = walk.cycle \cup PathFrom(next)
    OBVIOUS
  <2>2. PathFrom(next) \in SUBSET Ids /\ PathFrom(next) # {}
        /\ \A i \in PathFrom(next) : \E k \in 1..n : s[k].id = i
                                        /\ \E m \in 1..k : s[m].id = next
    <3>1. PICK m \in 1..n : walk.stack[m].id = next
      BY <1>2, <1>11 DEF OnPath
    <3>2. m \in 1..m
      BY <1>3
    <3>3. next \in PathFrom(next)
      BY <1>2, <3>1, <3>2 DEF PathFrom
    <3>4. ASSUME NEW i \in PathFrom(next)
          PROVE  \E k \in 1..n : s[k].id = i /\ \E q \in 1..k : s[q].id = next
      <4>1. PICK k \in 1..n : walk.stack[k].id = i /\ \E q \in 1..k : walk.stack[q].id = next
        BY <1>2 DEF PathFrom
      <4>2. \A q \in 1..k : q \in 1..n
        BY <1>3
      <4> QED
        BY <1>3, <4>1, <4>2
    <3>5. \A k \in 1..n : s[k].id \in Ids
      BY <1>3 DEF Stacked
    <3> QED
      BY <3>3, <3>4, <3>5
  <2>3. PICK w : w = [walk EXCEPT !.stack = s, !.cycle = c]
    OBVIOUS
  <2>4. /\ w \in Walks /\ w.at = "walk" /\ w.stack = s /\ w.unread = {} /\ w.by = walk.by
        /\ w.start = walk.start /\ w.done = walk.done /\ w.tips = walk.tips
        /\ w.cycle = c /\ c # {} /\ Len(w.stack) = n /\ s # <<>>
    BY <1>3, <1>4, <2>1, <2>2, <2>3 DEF Walks
  <2>5. w = walk'
    <3>0. next \notin walk.done
      BY <1>11 DEF OnPath, WalkInv, Shape
    <3>1. walk' = [walk EXCEPT !.stack = Followed(next), !.cycle = @ \cup PathFrom(next)]
      BY <1>1, <1>11, <3>0
    <3> QED
      BY <1>2, <2>1, <2>3, <3>1
  <2>6. ASSUME NEW links, AlongLinks(walk, links) PROVE AlongLinks(w, links)
    <3>1. AlongPath(s, links) /\ <<f.id, next>> \in links
      BY <1>6, <2>6
    <3>2. ASSUME NEW i \in PathFrom(next) PROVE OnCircle(i, links)
      <4>1. PICK k \in 1..n : s[k].id = i /\ \E m \in 1..k : s[m].id = next
        BY <2>2
      <4>2. i \in ReachableFrom(next, links)
        BY <1>3, <3>1, <4>1 DEF AlongPath
      <4>3. CASE k = n
        BY <1>5, <3>1, <4>1, <4>2, <4>3 DEF OnCircle
      <4>4. CASE k # n
        <5>1. k + 1 \in 1..n /\ k + 1 > 1 /\ (k + 1) - 1 = k /\ k + 1 \in 1..n
          BY <1>3, <4>4
        <5>2. PICK j : j = s[k + 1].id
          OBVIOUS
        <5>3. <<i, j>> \in links
          BY <1>3, <3>1, <4>1, <5>1, <5>2 DEF AlongPath
        <5>4. f.id \in ReachableFrom(j, links)
          BY <1>3, <1>5, <3>1, <5>1, <5>2 DEF AlongPath
        <5>5. next \in ReachableFrom(j, links)
          BY <3>1, <5>4, ReachesOneMore
        <5>6. i \in ReachableFrom(j, links)
          BY <4>2, <5>5, ReachesOn
        <5> QED
          BY <5>3, <5>6 DEF OnCircle
      <4> QED
        BY <4>3, <4>4
    <3> QED
      BY <2>1, <2>4, <2>6, <3>1, <3>2 DEF AlongLinks
  <2>7. Shape(w) /\ Forward(w)
    BY <1>7, <2>4 DEF Shape, Forward
  <2>8. NoneLost(w, before.links, Live)
    BY <1>3, <1>8, <2>4 DEF WalkInv, NoneLost
  <2>9. before.still => Searched(w, before.links)
    <3>1. before.still => c \subseteq ReachableFrom(walk.start, before.links)
      BY <1>9, <2>1, <2>2 DEF WalkInv, Searched
    <3> QED
      BY <1>9, <2>4, <3>1 DEF WalkInv, Searched
  <2>10. VerdictOK'
    BY <2>4, <2>5 DEF VerdictOK
  <2> QED
    BY <1>4, <2>4, <2>5, <2>6, <2>7, <2>8, <2>9, <2>10, WalkStep DEF WalkInv
<1>12. CASE next \notin OnPath /\ next \in walk.done
  <2>3. PICK w : w = [walk EXCEPT !.stack = s]
    OBVIOUS
  <2>4. /\ w \in Walks /\ w.at = "walk" /\ w.stack = s /\ w.unread = {} /\ w.by = walk.by
        /\ w.start = walk.start /\ w.done = walk.done /\ w.tips = walk.tips
        /\ w.cycle = walk.cycle /\ Len(w.stack) = n /\ s # <<>>
    BY <1>3, <1>4, <2>3 DEF Walks
  <2>5. w = walk'
    BY <1>1, <1>2, <1>12, <2>3
  <2>6. \A links : AlongLinks(walk, links) => AlongLinks(w, links)
    BY <1>6, <2>4 DEF AlongLinks
  <2>7. Shape(w)
    BY <1>7, <2>4 DEF Shape
  <2>8. Forward(w)
    BY <1>10, <1>12, <2>4 DEF Forward
  <2>9. NoneLost(w, before.links, Live)
    BY <1>3, <1>8, <2>4 DEF WalkInv, NoneLost
  <2>10. before.still => Searched(w, before.links)
    BY <1>9, <2>4 DEF WalkInv, Searched
  <2>11. VerdictOK'
    BY <2>4, <2>5 DEF VerdictOK
  <2> QED
    BY <1>4, <2>4, <2>5, <2>6, <2>7, <2>8, <2>9, <2>10, <2>11, WalkStep DEF WalkInv
<1>13. CASE next \notin OnPath /\ next \notin walk.done
  <2>1. PICK g : g = Frame(next)
    OBVIOUS
  <2>2. /\ g \in Stacked /\ g.id = next /\ g.left = g.succs
        /\ \A j \in g.succs : <<next, j>> \in Written
        /\ before.still => \A j \in g.succs : <<next, j>> \in before.links
        /\ \A l \in before.links : l[1] = next /\ l[2] \in Live => l[2] \in g.succs
    BY <1>3, <2>1, FrameFacts
  <2>3. PICK p : p = Append(s, g)
    OBVIOUS
  <2>4. /\ p \in Seq(Stacked) /\ Len(p) = n + 1 /\ p[n + 1] = g
        /\ \A k \in 1..n : p[k] = s[k]
        /\ \A k \in 1..(n + 1) : k \in 1..n \/ k = n + 1
    BY <1>3, <2>2, <2>3
  <2>5. PICK w : w = [walk EXCEPT !.stack = p]
    OBVIOUS
  <2>6. /\ w \in Walks /\ w.at = "walk" /\ w.stack = p /\ w.unread = {} /\ w.by = walk.by
        /\ w.start = walk.start /\ w.done = walk.done /\ w.tips = walk.tips
        /\ w.cycle = walk.cycle /\ Len(w.stack) = n + 1
    BY <1>3, <1>4, <2>4, <2>5 DEF Walks
  <2>7. w = walk'
    BY <1>1, <1>2, <1>13, <2>1, <2>3, <2>5
  <2>8. ASSUME NEW links, AlongLinks(walk, links), \A j \in g.succs : <<next, j>> \in links
        PROVE  AlongLinks(w, links)
    <3>1. AlongPath(s, links) /\ <<f.id, next>> \in links
      BY <1>6, <2>8
    <3>2. \A k \in 1..Len(p) : \A j \in p[k].succs : <<p[k].id, j>> \in links
      BY <1>3, <2>2, <2>4, <2>8, <3>1 DEF AlongPath
    <3>3. ASSUME NEW k \in 1..Len(p), k > 1 PROVE <<p[k - 1].id, p[k].id>> \in links
      <4>1. k - 1 \in 1..n /\ (k \in 1..n \/ k - 1 = n)
        BY <1>3, <2>4, <3>3
      <4>2. CASE k \in 1..n
        BY <1>3, <2>4, <3>1, <3>3, <4>1, <4>2 DEF AlongPath
      <4>3. CASE k - 1 = n
        <5>1. k = n + 1 /\ p[k] = g /\ p[n] = s[n]
          BY <1>3, <1>5, <2>4, <4>3
        <5> QED
          BY <1>5, <2>2, <3>1, <4>3, <5>1
      <4> QED
        BY <4>1, <4>2, <4>3
    <3>4. ASSUME NEW k \in 1..Len(p), NEW m \in 1..k
          PROVE  p[k].id \in ReachableFrom(p[m].id, links)
      <4>1. CASE k \in 1..n
        <5>1. m \in 1..n
          BY <1>3, <4>1
        <5> QED
          BY <1>3, <2>4, <3>1, <4>1, <5>1 DEF AlongPath
      <4>2. CASE k = n + 1 /\ m \in 1..n
        <5>1. f.id \in ReachableFrom(s[m].id, links)
          BY <1>3, <1>5, <3>1, <4>2 DEF AlongPath
        <5>2. next \in ReachableFrom(s[m].id, links)
          BY <3>1, <5>1, ReachesOneMore
        <5> QED
          BY <2>2, <2>4, <4>2, <5>2
      <4>3. CASE k = n + 1 /\ m = n + 1
        BY <2>2, <2>4, <4>3, ReachesItself
      <4> QED
        BY <1>3, <2>4, <4>1, <4>2, <4>3
    <3>5. AlongPath(p, links)
      BY <3>2, <3>3, <3>4 DEF AlongPath
    <3> QED
      BY <2>6, <2>8, <3>5 DEF AlongLinks
  <2>9. \A k \in 1..n : s[k].id # next
    BY <1>2, <1>3, <1>13 DEF OnPath
  <2>10. Shape(w)
    <3>1. w.start \in w.done \/ (w.stack # <<>> /\ w.stack[1].id = w.start)
      <4>1. 1 \in 1..n /\ p # <<>>
        BY <1>3, <2>4
      <4> QED
        BY <1>7, <2>4, <2>6, <4>1
    <3>2. \A k \in 1..Len(p) : p[k].left \subseteq p[k].succs /\ p[k].id \notin walk.done
      BY <1>7, <1>13, <2>2, <2>4
    <3>3. \A k, m \in 1..Len(p) : p[k].id = p[m].id => k = m
      BY <1>7, <2>2, <2>4, <2>9
    <3> QED
      BY <2>6, <3>1, <3>2, <3>3 DEF Shape
  <2>11. Forward(w)
    <3>1. ASSUME walk.cycle = {}, NEW k \in 1..Len(p), NEW j \in p[k].succs \ p[k].left
          PROVE  j \in walk.done \/ (k < Len(p) /\ j = p[k + 1].id)
      <4>1. k \in 1..n
        BY <2>2, <2>4, <3>1
      <4>2. CASE k = n
        BY <1>3, <1>10, <2>2, <2>4, <3>1, <4>1, <4>2
      <4>3. CASE k # n
        <5>1. k + 1 \in 1..n /\ k < n /\ k < n + 1
          BY <1>3, <4>1, <4>3
        <5> QED
          BY <1>10, <2>4, <3>1, <4>1, <4>3, <5>1
      <4> QED
        BY <4>2, <4>3
    <3> QED
      BY <1>10, <2>6, <3>1 DEF Forward
  <2>12. NoneLost(w, before.links, Live)
    <3>1. \A k \in 1..Len(p) : \A l \in before.links :
             l[1] = p[k].id /\ l[2] \in Live => l[2] \in p[k].succs
      BY <1>8, <2>2, <2>4
    <3> QED
      BY <1>3, <1>8, <2>6, <3>1 DEF WalkInv, NoneLost
  <2>13. ASSUME before.still PROVE Searched(w, before.links)
    <3>1. f.id \in ReachableFrom(walk.start, before.links)
      BY <1>5, <1>9, <2>13
    <3>2. <<f.id, next>> \in before.links
      BY <1>6, <2>13 DEF WalkInv
    <3>3. next \in ReachableFrom(walk.start, before.links)
      BY <3>1, <3>2, ReachesOneMore
    <3>4. \A k \in 1..Len(p) : p[k].id \in ReachableFrom(walk.start, before.links)
      BY <1>9, <2>2, <2>4, <2>13, <3>3
    <3> QED
      BY <2>6, <2>13, <3>4 DEF WalkInv, Searched
  <2>14. VerdictOK'
    BY <2>6, <2>7 DEF VerdictOK
  <2>15. AlongLinks(w, Written) /\ (before.still => AlongLinks(w, before.links))
    BY <2>2, <2>8 DEF WalkInv
  <2> QED
    BY <1>4, <2>6, <2>7, <2>10, <2>11, <2>12, <2>13, <2>14, <2>15, WalkStep
<1> QED
  BY <1>11, <1>12, <1>13

-----------------------------------------------------------------------------
LEMMA StutterInv == ASSUME WalkInv, UNCHANGED vars PROVE WalkInv'
<1>1. UNCHANGED <<held, buried, successor, supersedes, writer, walk, before>>
  BY DEF vars
<1>2. TypeOK' /\ WriterOK' /\ FirstLinks'
  BY <1>1 DEF WalkInv, TypeOK, WriterOK, FirstLinks, Written
<1>3. Written' = Written /\ Live' = Live /\ Links' = Links
  BY <1>1 DEF Written, Live, Links, Link
<1>4. AlongLinks(walk, Written)' /\ Shape(walk)' /\ Forward(walk)'
  BY <1>1, <1>3 DEF WalkInv, AlongLinks, AlongPath, Shape, Forward
<1>5. NoneLost(walk, before.links, Live)'
  BY <1>1, <1>3 DEF WalkInv, NoneLost
<1>6. before'.still => AlongLinks(walk, before.links)' /\ Searched(walk, before.links)'
  BY <1>1 DEF WalkInv, AlongLinks, AlongPath, Searched
<1>7. VerdictOK'
  BY <1>1 DEF WalkInv, VerdictOK, Verdict
<1> QED
  BY <1>1, <1>2, <1>3, <1>4, <1>5, <1>6, <1>7 DEF WalkInv

(* What holds of every walk, whatever the links and whoever writes: see WalkInv. *)
THEOREM WalkInvariant == Spec => []WalkInv
<1>1. Init => WalkInv
  BY InitInv, WalkAssumption
<1>2. WalkInv /\ [Next]_vars => WalkInv'
  <2> SUFFICES ASSUME WalkInv, [Next]_vars PROVE WalkInv'
    OBVIOUS
  <2>1. CASE Next
    BY <2>1, WalkAssumption, ScanInv, EnterInv, LeaveInv, FollowInv, ConcludeInv, WriteInv
       DEF Next, Walk
  <2>2. CASE UNCHANGED vars
    BY <2>2, StutterInv
  <2> QED
    BY <2>1, <2>2
<1> QED
  BY <1>1, <1>2, PTL DEF Spec

-----------------------------------------------------------------------------
(* Where the walk ends: it has been through the start, and has met a tip unless
   it closed a circle; the verdict is the one or the other. *)
LEMMA AtTheEnd ==
    ASSUME WalkInv, Ended
    PROVE  /\ walk.stack = <<>> /\ walk.start \in walk.done
           /\ walk.cycle = {} => walk.tips # {}
           /\ walk.verdict =
                IF walk.cycle # {} THEN [kind |-> "cycle", ids |-> walk.cycle]
                ELSE [kind |-> IF Cardinality(walk.tips) = 1 THEN "tip" ELSE "fork",
                      ids |-> walk.tips]
<1>1. walk.stack = <<>> /\ walk.start \in walk.done
  BY DEF WalkInv, Shape, Ended
<1>2. walk.cycle = {} => walk.tips # {}
  BY <1>1 DEF WalkInv, Forward
<1>3. walk.verdict = Verdict
  BY DEF WalkInv, VerdictOK, Ended
<1> QED
  BY <1>1, <1>2, <1>3 DEF Verdict

(* VerdictRight: on a store nobody writes to, the verdict is the one the links
   call for, whatever their shape and the order they are followed in. *)
THEOREM WalkAnswersRight == Spec => []VerdictRight
<1>1. ASSUME WalkInv, Ended, before.still PROVE VerdictRight
  <2> DEFINE links == before.links
             reached == ReachableFrom(walk.start, links)
             circle == {i \in reached : OnCircle(i, links)}
             ends == {i \in reached : \A l \in links : l[1] # i}
  <2>1. Searched(walk, links) /\ AlongLinks(walk, links) /\ walk.done \in SUBSET Ids
    BY <1>1 DEF WalkInv, TypeOK, Walks
  <2>2. CASE walk.cycle # {}
    <3>1. walk.cycle \subseteq circle
      BY <2>1 DEF Searched, AlongLinks
    <3>2. walk.verdict.kind = "cycle" /\ walk.verdict.ids = walk.cycle
      BY <1>1, <2>2, AtTheEnd
    <3>3. circle # {}
      BY <2>2, <3>1
    <3> HIDE DEF circle, ends, reached
    <3>4. (CASE circle # {} -> /\ walk.verdict.kind = "cycle"
                               /\ walk.verdict.ids # {} /\ walk.verdict.ids \subseteq circle
             [] OTHER -> /\ walk.verdict.ids = ends
                         /\ walk.verdict.kind =
                               IF Cardinality(ends) = 1 THEN "tip" ELSE "fork")
      BY <2>2, <3>1, <3>2, <3>3
    <3> QED
      BY <3>4 DEF VerdictRight, circle, ends, reached
  <2>3. CASE walk.cycle = {}
    <3>1. reached \subseteq walk.done /\ walk.done \subseteq reached
      <4>1. walk.start \in walk.done /\ Closed(walk.done, links)
        BY <1>1, <2>1, <2>3, AtTheEnd DEF Searched
      <4>2. reached \subseteq walk.done
        BY <2>1, <4>1 DEF ReachableFrom, Closed
      <4> QED
        BY <2>1, <4>2 DEF Searched
    <3>2. circle = {} /\ walk.tips = ends
      BY <2>1, <2>3, <3>1 DEF Searched
    <3>3. /\ walk.verdict.ids = walk.tips
          /\ walk.verdict.kind = IF Cardinality(walk.tips) = 1 THEN "tip" ELSE "fork"
      BY <1>1, <2>3, AtTheEnd
    <3> HIDE DEF circle, ends, reached
    <3>4. (CASE circle # {} -> /\ walk.verdict.kind = "cycle"
                               /\ walk.verdict.ids # {} /\ walk.verdict.ids \subseteq circle
             [] OTHER -> /\ walk.verdict.ids = ends
                         /\ walk.verdict.kind =
                               IF Cardinality(ends) = 1 THEN "tip" ELSE "fork")
      BY <3>2, <3>3
    <3> QED
      BY <3>4 DEF VerdictRight, circle, ends, reached
  <2> QED
    BY <2>2, <2>3
<1>2. WalkInv => VerdictRight
  BY <1>1 DEF VerdictRight
<1> QED
  BY <1>2, WalkInvariant, PTL

(* CycleIsReal: whatever is written meanwhile, the deeds called a cycle sit on
   one that the sidecars spell out. *)
THEOREM CyclesAreReal == Spec => []CycleIsReal
<1>1. ASSUME WalkInv, Ended, walk.verdict.kind = "cycle", NEW i \in walk.verdict.ids
      PROVE  OnCircle(i, Written)
  <2>1. walk.cycle # {}
    BY <1>1, AtTheEnd
  <2>2. i \in walk.cycle
    BY <1>1, <2>1, AtTheEnd
  <2> QED
    BY <1>1, <2>2 DEF WalkInv, AlongLinks
<1>2. WalkInv => CycleIsReal
  BY <1>1 DEF CycleIsReal, Written
<1> QED
  BY <1>2, WalkInvariant, PTL

(* NoMissedRevision: `current` answers with no deed that had been superseded
   when it was asked by one that is still here. *)
THEOREM NoRevisionMissed == Spec => []NoMissedRevision
<1>1. ASSUME WalkInv, Ended, walk.verdict.kind # "cycle"
      PROVE  walk.verdict.ids = walk.tips
  <2>1. walk.cycle = {}
    BY <1>1, AtTheEnd
  <2> QED
    BY <1>1, <2>1, AtTheEnd
<1>2. WalkInv => NoMissedRevision
  BY <1>1 DEF NoMissedRevision, WalkInv, NoneLost
<1> QED
  BY <1>2, WalkInvariant, PTL

=============================================================================
