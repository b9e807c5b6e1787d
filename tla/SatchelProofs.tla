---------------------------- MODULE SatchelProofs ----------------------------
(***************************************************************************)
(* What is in a bag, whenever it is read: for any deeds of the sender's,   *)
(* any links between them and any exports, stopped or not.                 *)
(***************************************************************************)
EXTENDS Satchel, TLAPS

(* The links of i when they are all there. *)
AllSources(i) == {Link(Draft[j]) : j \in Trail(i) \ {i}}
PriorLink(i) == IF Prior[i] = NoId THEN NoFile ELSE Link(Draft[Prior[i]])

Receipts(i) == [entry : {Entry(Draft[i], SentAt[i])}, index : Nat, size : Nat]

(* What a folder of i may hold: of each file the one there is, or none. *)
Folders(i) ==
    [deed : {NoFile, Draft[i]},
     evidence : {NoFile, Created(Draft[i], SentAt[i])},
     host : {NoFile, Sidecar(Draft[i], SentAt[i])},
     bytes : SUBSET {Draft[i].body},
     supersedes : {NoFile, PriorLink(i)},
     successor : {NoFile} \cup {Link(Draft[j]) : j \in {k \in Ids : Prior[k] = i}},
     sources : {{}, AllSources(i)},
     proof : {NoFile} \cup Receipts(i)]

(* The receipt is of a line of the sender's log. *)
InLog(i, r) == r.index \in 1..r.size /\ r.size <= Len(slog) /\ slog[r.index] = i

SenderOK ==
    /\ made \in SUBSET Ids
    /\ slog \in Seq(Ids)
    /\ \A j, k \in made : Prior[j] = Prior[k] /\ Prior[j] # NoId => j = k

BagOK ==
    /\ DOMAIN bag = Ids
    /\ \A i \in Ids : bag[i] \in Folders(i)
    /\ \A i \in Ids : bag[i].proof # NoFile => InLog(i, bag[i].proof)
    /\ \A i \in Ids : bag[i].successor # NoFile =>
           \E j \in made : Prior[j] = i /\ bag[i].successor = Link(Draft[j])

ExpOK ==
    /\ exp \in [pc : {"idle", "next", "successor", "sources", "proof", "head", "refuse"},
                todo : SUBSET Ids, id : Ids \cup {NoId}, size : Nat,
                sealed : BOOLEAN, count : Nat]
    /\ exp.pc \in {"successor", "sources", "proof", "head", "refuse"} => exp.id \in Ids
    /\ exp.size <= Len(slog)

SenderInv == SenderOK /\ BagOK /\ ExpOK

(* A step that adds to the bag: what a reader found stays. *)
BagGrows ==
    \A i \in Ids :
        /\ bag[i].proof # NoFile => bag'[i].proof # NoFile
        /\ bag[i].successor # NoFile => bag'[i].successor = bag[i].successor

-----------------------------------------------------------------------------
(* The files there are, are none of them "no file". *)
LEMMA FilesAreFiles ==
    ASSUME SatchelAssumption
    PROVE  /\ \A d \in Deed : d # NoFile
           /\ \A i \in Ids : Draft[i] \in Deed /\ Draft[i].id = i /\ Draft[i].body \in Bodies
           /\ \A d, t : Created(d, t) # NoFile /\ Sidecar(d, t) # NoFile
           /\ \A d : Link(d) # NoFile
           /\ \A i : \A r \in Receipts(i) : r # NoFile
  BY DEF SatchelAssumption, Deed, NoFile, Created, Sidecar, Link, Receipts

LEMMA EmptyIsFolder == \A i \in Ids : EmptyFolder \in Folders(i)
  BY DEF EmptyFolder, Folders

LEMMA SatchelInitInv == ASSUME SatchelAssumption, SatchelInit PROVE SenderInv
<1>1. SenderOK
  BY DEF SatchelInit, SenderOK
<1>2. BagOK
  BY EmptyIsFolder DEF SatchelInit, BagOK, EmptyFolder
<1>3. ExpOK
  BY DEF SatchelInit, ExpOK, NoExport
<1> QED
  BY <1>1, <1>2, <1>3 DEF SenderInv

-----------------------------------------------------------------------------
(* Steps. *)

(* One folder is written to. *)
LEMMA FolderStep ==
    ASSUME SenderInv, NEW i \in Ids, NEW f \in Folders(i),
           bag' = [bag EXCEPT ![i] = f], UNCHANGED senderVars,
           f.proof # NoFile => InLog(i, f.proof),
           f.successor # NoFile =>
               \E j \in made : Prior[j] = i /\ f.successor = Link(Draft[j])
    PROVE  SenderOK' /\ BagOK'
<1>1. UNCHANGED <<made, tombs, slog>>
  BY DEF senderVars
<1>2. SenderOK'
  BY <1>1 DEF SenderInv, SenderOK
<1>3. bag'[i] = f /\ DOMAIN bag' = Ids /\ \A j \in Ids \ {i} : bag'[j] = bag[j]
  BY DEF SenderInv, BagOK
<1>4. \A j \in Ids : bag'[j] \in Folders(j)
  BY <1>3 DEF SenderInv, BagOK
<1>5. \A j \in Ids : bag'[j].proof # NoFile => InLog(j, bag'[j].proof)
  BY <1>3 DEF SenderInv, BagOK
<1>6. \A j \in Ids : bag'[j].successor # NoFile =>
          \E k \in made : Prior[k] = j /\ bag'[j].successor = Link(Draft[k])
  BY <1>3 DEF SenderInv, BagOK
<1>7. BagOK'
  BY <1>1, <1>3, <1>4, <1>5, <1>6 DEF BagOK, InLog
<1> QED
  BY <1>2, <1>7

(* The sender's other commands. *)
LEMMA SenderCommands ==
    ASSUME SatchelAssumption, SenderInv, NEW i \in Ids,
           SenderCreate(i) \/ SenderLog(i) \/ SenderDelete(i)
    PROVE  SenderInv' /\ BagGrows
<1>1. UNCHANGED <<bag, exp>>
  BY DEF SenderCreate, SenderLog, SenderDelete
<1>2. made \subseteq made' /\ slog' \in Seq(Ids) /\ Len(slog') \in Nat
      /\ Len(slog) <= Len(slog') /\ \A k \in 1..Len(slog) : slog'[k] = slog[k]
  <2>1. slog \in Seq(Ids) /\ made \subseteq made'
    BY DEF SenderCreate, SenderLog, SenderDelete, SenderInv, SenderOK
  <2>2. slog' = slog \/ slog' = Append(slog, i)
    BY DEF SenderCreate, SenderLog, SenderDelete
  <2>3. Len(slog) \in Nat
    BY <2>1
  <2>4. CASE slog' = Append(slog, i)
    BY <2>1, <2>3, <2>4
  <2> QED
    BY <2>1, <2>2, <2>3, <2>4
<1>3. SenderOK'
  <2>1. CASE SenderCreate(i)
    BY <1>2, <2>1 DEF SenderCreate, SenderInv, SenderOK
  <2>2. CASE SenderLog(i) \/ SenderDelete(i)
    BY <1>2, <2>2 DEF SenderLog, SenderDelete, SenderInv, SenderOK
  <2> QED
    BY <2>1, <2>2
<1>4. BagOK'
  <2>1. ASSUME NEW j \in Ids, bag[j].proof # NoFile PROVE InLog(j, bag[j].proof)'
    <3>1. InLog(j, bag[j].proof) /\ bag[j].proof \in Receipts(j)
      BY <2>1 DEF SenderInv, BagOK, Folders
    <3>2. bag[j].proof.index \in 1..Len(slog) /\ bag[j].proof.size <= Len(slog')
      <4>1. Len(slog) \in Nat
        BY DEF SenderInv, SenderOK
      <4>2. PICK r : r = bag[j].proof
        OBVIOUS
      <4>3. r.size \in Nat /\ r.index \in 1..r.size /\ r.size <= Len(slog)
        BY <3>1, <4>2 DEF InLog, Receipts
      <4>4. Len(slog') \in Nat /\ Len(slog) <= Len(slog')
        BY <1>2
      <4>5. r.index \in 1..Len(slog) /\ r.size <= Len(slog')
        BY <4>1, <4>3, <4>4
      <4> QED
        BY <4>2, <4>5
    <3> QED
      BY <1>1, <1>2, <3>1, <3>2 DEF InLog
  <2> QED
    BY <1>1, <1>2, <2>1 DEF SenderInv, BagOK
<1>5. ExpOK'
  BY <1>1, <1>2 DEF SenderInv, ExpOK, SenderOK
<1> QED
  BY <1>1, <1>3, <1>4, <1>5 DEF SenderInv, BagGrows

(* Export steps that write no folder. *)
LEMMA ExportTurns ==
    ASSUME SatchelAssumption, SenderInv,
           \/ \E asked \in Exports, sealed \in Seals : ExportBegin(asked, sealed)
           \/ \E i \in Ids : ExportMissing(i)
           \/ ExportHead \/ ExportRefused \/ ExportStop
    PROVE  SenderInv' /\ BagGrows
<1>1. UNCHANGED <<made, tombs, slog, bag>>
  BY DEF ExportBegin, ExportMissing, ExportHead, ExportRefused, ExportStop, senderVars
<1>2. SenderOK' /\ BagOK' /\ BagGrows
  BY <1>1 DEF SenderInv, SenderOK, BagOK, InLog, BagGrows
<1>3. Len(slog) \in Nat
  BY DEF SenderInv, SenderOK
<1>4. ExpOK'
  <2>1. ASSUME NEW asked \in Exports, NEW sealed \in Seals, ExportBegin(asked, sealed)
        PROVE  ExpOK'
    BY <1>1, <1>3, <2>1 DEF ExportBegin, SenderInv, ExpOK, SatchelAssumption
  <2>2. ASSUME NEW i \in Ids, ExportMissing(i) PROVE ExpOK'
    BY <1>1, <2>2 DEF ExportMissing, SenderInv, ExpOK
  <2>3. ASSUME ExportHead \/ ExportRefused PROVE ExpOK'
    <3>1. ExportNext
      BY <2>3 DEF ExportHead, ExportRefused
    <3>2. exp' = NoExport(exp.count) \/ exp' = [exp EXCEPT !.pc = "next",
                                                       !.todo = exp.todo \ {exp.id},
                                                       !.id = NoId]
      BY <3>1 DEF ExportNext
    <3>3. exp' = NoExport(exp.count) => ExpOK'
      BY <1>1, <1>3 DEF NoExport, SenderInv, ExpOK
    <3>4. ASSUME exp' # NoExport(exp.count) PROVE ExpOK'
      <4>1. PICK left : left = exp.todo \ {exp.id}
        OBVIOUS
      <4>2. exp' = [exp EXCEPT !.pc = "next", !.todo = left, !.id = NoId]
        BY <3>2, <3>4, <4>1
      <4>3. left \in SUBSET Ids
        BY <4>1 DEF SenderInv, ExpOK
      <4> QED
        BY <1>1, <4>2, <4>3 DEF SenderInv, ExpOK
    <3> QED
      BY <3>3, <3>4
  <2>4. ASSUME ExportStop PROVE ExpOK'
    BY <1>1, <1>3, <2>4 DEF ExportStop, NoExport, SenderInv, ExpOK
  <2> QED
    BY <2>1, <2>2, <2>3, <2>4
<1> QED
  BY <1>2, <1>4 DEF SenderInv

LEMMA ExportRecordsInv ==
    ASSUME SatchelAssumption, SenderInv, NEW i \in Ids, ExportRecords(i)
    PROVE  /\ SenderInv' /\ BagGrows
           /\ bag'[i].supersedes = PriorLink(i) /\ bag'[i].sources = bag[i].sources
           /\ bag'[i].proof = bag[i].proof /\ \A j \in Ids \ {i} : bag'[j] = bag[j]
<1>1. bag[i] \in Folders(i) /\ DOMAIN bag = Ids
  BY DEF SenderInv, BagOK
<1>2. PICK b : b = bag[i].bytes \cup {Draft[i].body}
  OBVIOUS
<1>3. PICK h : h = IF SealsDeeds THEN Sidecar(Draft[i], SentAt[i]) ELSE bag[i].host
  OBVIOUS
<1>4. PICK e : e = Created(Draft[i], SentAt[i])
  OBVIOUS
<1>5. /\ b \in SUBSET {Draft[i].body} /\ h \in {NoFile, Sidecar(Draft[i], SentAt[i])}
      /\ bag[i].supersedes \in {NoFile, PriorLink(i)}
  BY <1>1, <1>2, <1>3 DEF Folders
<1>6. PICK l : l = IF Prior[i] = NoId THEN bag[i].supersedes ELSE Link(Draft[Prior[i]])
  OBVIOUS
<1>7. l = PriorLink(i)
  BY <1>5, <1>6 DEF PriorLink
<1>8. PICK f : f = [bag[i] EXCEPT !.deed = Draft[i], !.evidence = e, !.host = h,
                                 !.bytes = b, !.supersedes = l]
  OBVIOUS
<1>9. /\ f \in Folders(i) /\ f.proof = bag[i].proof /\ f.successor = bag[i].successor
      /\ f.supersedes = PriorLink(i) /\ f.sources = bag[i].sources
  BY <1>1, <1>4, <1>5, <1>7, <1>8 DEF Folders
<1>10. bag' = [bag EXCEPT ![i] = f]
  BY <1>1, <1>2, <1>3, <1>4, <1>6, <1>8 DEF ExportRecords
<1>11. SenderOK' /\ BagOK'
  <2>1. f.proof # NoFile => InLog(i, f.proof)
    BY <1>9 DEF SenderInv, BagOK
  <2>2. f.successor # NoFile =>
            \E j \in made : Prior[j] = i /\ f.successor = Link(Draft[j])
    BY <1>9 DEF SenderInv, BagOK
  <2>3. UNCHANGED senderVars
    BY DEF ExportRecords
  <2> QED
    BY <1>9, <1>10, <2>1, <2>2, <2>3, FolderStep
<1>12. ExpOK'
  BY DEF ExportRecords, senderVars, SenderInv, ExpOK
<1>13. bag'[i] = f /\ \A j \in Ids \ {i} : bag'[j] = bag[j]
  BY <1>1, <1>10
<1> QED
  BY <1>9, <1>11, <1>12, <1>13 DEF SenderInv, BagGrows

LEMMA ExportSuccessorInv ==
    ASSUME SatchelAssumption, SenderInv, ExportSuccessor
    PROVE  /\ SenderInv' /\ BagGrows
           /\ \A j \in Ids : /\ bag'[j].supersedes = bag[j].supersedes
                             /\ bag'[j].sources = bag[j].sources
                             /\ bag'[j].proof = bag[j].proof
<1>1. PICK i : i = exp.id
  OBVIOUS
<1>2. /\ i \in Ids /\ bag[i] \in Folders(i) /\ DOMAIN bag = Ids
      /\ UNCHANGED senderVars /\ exp' = [exp EXCEPT !.pc = "sources"]
      /\ made \in SUBSET Ids
  BY <1>1 DEF ExportSuccessor, SenderInv, ExpOK, BagOK, SenderOK
<1>3. ExpOK'
  BY <1>1, <1>2 DEF senderVars, SenderInv, ExpOK
<1>4. ASSUME UNCHANGED bag
      PROVE  /\ SenderOK' /\ BagOK' /\ BagGrows
             /\ \A j \in Ids : /\ bag'[j].supersedes = bag[j].supersedes
                               /\ bag'[j].sources = bag[j].sources
                               /\ bag'[j].proof = bag[j].proof
  BY <1>2, <1>4 DEF senderVars, SenderInv, SenderOK, BagOK, InLog, BagGrows
<1>5. ASSUME NEW j \in NextTip(i), bag' = [bag EXCEPT ![i].successor = Link(Draft[j])]
      PROVE  /\ SenderOK' /\ BagOK' /\ BagGrows
             /\ \A k \in Ids : /\ bag'[k].supersedes = bag[k].supersedes
                               /\ bag'[k].sources = bag[k].sources
                               /\ bag'[k].proof = bag[k].proof
  <2>1. PICK f : f = [bag[i] EXCEPT !.successor = Link(Draft[j])]
    OBVIOUS
  <2>2. j \in made /\ Prior[j] = i /\ j \in Ids
    BY <1>2, <1>5 DEF NextTip
  <2>3. /\ f \in Folders(i) /\ f.proof = bag[i].proof /\ f.successor = Link(Draft[j])
        /\ f.supersedes = bag[i].supersedes /\ f.sources = bag[i].sources
    BY <1>2, <2>1, <2>2 DEF Folders
  <2>4. bag' = [bag EXCEPT ![i] = f]
    BY <1>2, <1>5, <2>1
  <2>5. SenderOK' /\ BagOK'
    <3>1. f.proof # NoFile => InLog(i, f.proof)
      BY <1>2, <2>3 DEF SenderInv, BagOK
    <3>2. \E k \in made : Prior[k] = i /\ f.successor = Link(Draft[k])
      BY <2>2, <2>3
    <3> QED
      BY <1>2, <2>3, <2>4, <3>1, <3>2, FolderStep
  <2>6. bag'[i] = f /\ \A k \in Ids \ {i} : bag'[k] = bag[k]
    BY <1>2, <2>4
  <2>7. bag[i].successor # NoFile => bag[i].successor = Link(Draft[j])
    <3>1. ASSUME bag[i].successor # NoFile PROVE bag[i].successor = Link(Draft[j])
      <4>1. PICK k \in made : Prior[k] = i /\ bag[i].successor = Link(Draft[k])
        BY <1>2, <3>1 DEF SenderInv, BagOK
      <4>2. i # NoId
        BY <1>2 DEF SatchelAssumption
      <4>3. k = j
        BY <2>2, <4>1, <4>2 DEF SenderInv, SenderOK
      <4> QED
        BY <4>1, <4>3
    <3> QED
      BY <3>1
  <2>8. BagGrows
    BY <2>3, <2>6, <2>7 DEF BagGrows
  <2> QED
    BY <2>3, <2>5, <2>6, <2>8
<1> QED
  BY <1>1, <1>3, <1>4, <1>5 DEF ExportSuccessor, SenderInv

LEMMA ExportSourcesInv ==
    ASSUME SatchelAssumption, SenderInv, ExportSources
    PROVE  /\ SenderInv' /\ BagGrows
           /\ exp'.id = exp.id
           /\ \/ exp'.pc = "refuse" /\ bag' = bag
              \/ exp'.pc = "proof" /\ bag'[exp.id].sources = AllSources(exp.id)
           /\ \A j \in Ids : /\ bag'[j].supersedes = bag[j].supersedes
                             /\ j # exp.id => bag'[j].sources = bag[j].sources
                             /\ bag'[j].proof = bag[j].proof
<1>1. PICK i : i = exp.id
  OBVIOUS
<1>2. /\ i \in Ids /\ bag[i] \in Folders(i) /\ DOMAIN bag = Ids
      /\ UNCHANGED senderVars
  BY <1>1 DEF ExportSources, SenderInv, ExpOK, BagOK
<1>3. ASSUME exp' = [exp EXCEPT !.pc = "refuse"], UNCHANGED bag
      PROVE  /\ SenderInv' /\ BagGrows /\ exp'.id = exp.id /\ exp'.pc = "refuse"
  <2>1. ExpOK' /\ exp'.id = exp.id /\ exp'.pc = "refuse"
    BY <1>1, <1>2, <1>3 DEF senderVars, SenderInv, ExpOK
  <2> QED
    BY <1>2, <1>3, <2>1 DEF senderVars, SenderInv, SenderOK, BagOK, InLog, BagGrows
<1>4. ASSUME exp' = [exp EXCEPT !.pc = "proof"],
             bag' = [bag EXCEPT ![i].sources =
                          IF Trail(i) = {i} THEN @
                          ELSE {Link(Draft[j]) : j \in Trail(i) \ {i}}]
      PROVE  /\ SenderInv' /\ BagGrows /\ exp'.id = exp.id /\ exp'.pc = "proof"
             /\ bag'[i].sources = AllSources(i)
             /\ \A j \in Ids : /\ bag'[j].supersedes = bag[j].supersedes
                               /\ j # i => bag'[j].sources = bag[j].sources
                               /\ bag'[j].proof = bag[j].proof
  <2>1. PICK t : t = IF Trail(i) = {i} THEN bag[i].sources
                     ELSE {Link(Draft[j]) : j \in Trail(i) \ {i}}
    OBVIOUS
  <2>2. t = AllSources(i)
    <3>1. CASE Trail(i) = {i}
      <4>1. AllSources(i) = {}
        BY <3>1 DEF AllSources
      <4>2. bag[i].sources \in {{}, AllSources(i)}
        BY <1>2 DEF Folders
      <4> QED
        BY <2>1, <3>1, <4>1, <4>2
    <3>2. CASE Trail(i) # {i}
      BY <2>1, <3>2 DEF AllSources
    <3> QED
      BY <3>1, <3>2
  <2>3. PICK f : f = [bag[i] EXCEPT !.sources = t]
    OBVIOUS
  <2>4. /\ f \in Folders(i) /\ f.proof = bag[i].proof /\ f.successor = bag[i].successor
        /\ f.supersedes = bag[i].supersedes /\ f.sources = AllSources(i)
    BY <1>2, <2>2, <2>3 DEF Folders
  <2>5. bag' = [bag EXCEPT ![i] = f]
    BY <1>2, <1>4, <2>1, <2>3
  <2>6. SenderOK' /\ BagOK'
    <3>1. f.proof # NoFile => InLog(i, f.proof)
      BY <1>2, <2>4 DEF SenderInv, BagOK
    <3>2. f.successor # NoFile =>
              \E j \in made : Prior[j] = i /\ f.successor = Link(Draft[j])
      BY <1>2, <2>4 DEF SenderInv, BagOK
    <3> QED
      BY <1>2, <2>4, <2>5, <3>1, <3>2, FolderStep
  <2>7. ExpOK' /\ exp'.id = exp.id /\ exp'.pc = "proof"
    BY <1>1, <1>2, <1>4 DEF senderVars, SenderInv, ExpOK
  <2>8. bag'[i] = f /\ \A k \in Ids \ {i} : bag'[k] = bag[k]
    BY <1>2, <2>5
  <2> QED
    BY <2>4, <2>6, <2>7, <2>8 DEF SenderInv, BagGrows
<1>5. \/ exp' = [exp EXCEPT !.pc = "refuse"] /\ UNCHANGED bag
      \/ /\ exp' = [exp EXCEPT !.pc = "proof"]
         /\ bag' = [bag EXCEPT ![i].sources =
                         IF Trail(i) = {i} THEN @
                         ELSE {Link(Draft[j]) : j \in Trail(i) \ {i}}]
  BY <1>1 DEF ExportSources
<1>6. CASE exp' = [exp EXCEPT !.pc = "refuse"] /\ UNCHANGED bag
  <2>1. /\ SenderInv' /\ BagGrows /\ exp'.id = exp.id /\ exp'.pc = "refuse"
    BY <1>3, <1>6
  <2>2. bag' = bag
    BY <1>6
  <2>3. \A j \in Ids : /\ bag'[j].supersedes = bag[j].supersedes
                       /\ j # exp.id => bag'[j].sources = bag[j].sources
                       /\ bag'[j].proof = bag[j].proof
    BY <2>2
  <2> QED
    BY <2>1, <2>2, <2>3
<1>7. CASE /\ exp' = [exp EXCEPT !.pc = "proof"]
           /\ bag' = [bag EXCEPT ![i].sources =
                           IF Trail(i) = {i} THEN @
                           ELSE {Link(Draft[j]) : j \in Trail(i) \ {i}}]
  BY <1>1, <1>4, <1>7
<1> QED
  BY <1>5, <1>6, <1>7

LEMMA ExportProofInv ==
    ASSUME SatchelAssumption, SenderInv, ExportProof
    PROVE  /\ SenderInv' /\ BagGrows
           /\ exp'.pc \in {"head", "refuse"}
           /\ \A j \in Ids : /\ bag'[j].supersedes = bag[j].supersedes
                             /\ bag'[j].sources = bag[j].sources
                             /\ j # exp.id => bag'[j].proof = bag[j].proof
<1>1. PICK i : i = exp.id
  OBVIOUS
<1>2. /\ i \in Ids /\ bag[i] \in Folders(i) /\ DOMAIN bag = Ids
      /\ UNCHANGED senderVars
  BY <1>1 DEF ExportProof, SenderInv, ExpOK, BagOK
<1>3. ASSUME exp' = [exp EXCEPT !.pc = "refuse"], UNCHANGED bag
      PROVE  /\ SenderInv' /\ BagGrows /\ exp'.pc = "refuse"
  <2>1. ExpOK' /\ exp'.pc = "refuse"
    BY <1>1, <1>2, <1>3 DEF senderVars, SenderInv, ExpOK
  <2> QED
    BY <1>2, <1>3, <2>1 DEF senderVars, SenderInv, SenderOK, BagOK, InLog, BagGrows
<1>4. ASSUME exp' = [exp EXCEPT !.pc = "head"], NEW k \in 1..exp.size, slog[k] = i,
             bag' = [bag EXCEPT ![i].proof =
                        [entry |-> Entry(Draft[i], SentAt[i]), index |-> k,
                         size |-> exp.size]]
      PROVE  /\ SenderInv' /\ BagGrows /\ exp'.pc = "head"
             /\ \A j \in Ids : /\ bag'[j].supersedes = bag[j].supersedes
                               /\ bag'[j].sources = bag[j].sources
                               /\ j # i => bag'[j].proof = bag[j].proof
  <2>1. PICK r : r = [entry |-> Entry(Draft[i], SentAt[i]), index |-> k, size |-> exp.size]
    OBVIOUS
  <2>2. r \in Receipts(i) /\ InLog(i, r) /\ r # NoFile
    <3>1. exp.size \in Nat /\ exp.size <= Len(slog) /\ k \in Nat
      BY <1>4 DEF SenderInv, ExpOK
    <3>2. r \in Receipts(i)
      BY <2>1, <3>1 DEF Receipts
    <3> QED
      BY <1>2, <1>4, <2>1, <3>1, <3>2, FilesAreFiles DEF InLog
  <2>3. PICK f : f = [bag[i] EXCEPT !.proof = r]
    OBVIOUS
  <2>4. /\ f \in Folders(i) /\ f.proof = r /\ f.successor = bag[i].successor
        /\ f.supersedes = bag[i].supersedes /\ f.sources = bag[i].sources
    BY <1>2, <2>2, <2>3 DEF Folders
  <2>5. bag' = [bag EXCEPT ![i] = f]
    BY <1>2, <1>4, <2>1, <2>3
  <2>6. SenderOK' /\ BagOK'
    <3>1. f.successor # NoFile =>
              \E j \in made : Prior[j] = i /\ f.successor = Link(Draft[j])
      BY <1>2, <2>4 DEF SenderInv, BagOK
    <3> QED
      BY <1>2, <2>2, <2>4, <2>5, <3>1, FolderStep
  <2>7. ExpOK' /\ exp'.pc = "head"
    BY <1>1, <1>2, <1>4 DEF senderVars, SenderInv, ExpOK
  <2>8. bag'[i] = f /\ \A j \in Ids \ {i} : bag'[j] = bag[j]
    BY <1>2, <2>5
  <2> QED
    BY <2>2, <2>4, <2>6, <2>7, <2>8 DEF SenderInv, BagGrows
<1> QED
  BY <1>1, <1>3, <1>4 DEF ExportProof

(* A bag is put aside, or a file of it lost. *)
LEMMA NewBagInv ==
    ASSUME SatchelAssumption, SenderInv, NewBag
    PROVE  SenderInv' /\ \A i \in Ids : bag'[i] = EmptyFolder
<1>1. UNCHANGED <<made, tombs, slog, exp>> /\ bag' = [i \in Ids |-> EmptyFolder]
  BY DEF NewBag, senderVars
<1>2. BagOK'
  BY <1>1, EmptyIsFolder DEF BagOK, EmptyFolder
<1> QED
  BY <1>1, <1>2 DEF SenderInv, SenderOK, ExpOK

LEMMA LoseInv ==
    ASSUME SatchelAssumption, SenderInv, Lose
    PROVE  /\ SenderInv'
           /\ \A i \in Ids : /\ bag'[i].proof \in {bag[i].proof, NoFile}
                             /\ "supersedes" \notin Losable =>
                                    bag'[i].supersedes = bag[i].supersedes
                             /\ "sources" \notin Losable =>
                                    bag'[i].sources = bag[i].sources
<1>1. UNCHANGED <<made, tombs, slog, exp>>
  BY DEF Lose, senderVars
<1>2. SenderOK' /\ ExpOK'
  BY <1>1 DEF SenderInv, SenderOK, ExpOK
<1>3. CASE UNCHANGED bag
  BY <1>1, <1>2, <1>3 DEF SenderInv, BagOK, InLog
<1>4. ASSUME NEW i \in Ids, NEW x \in Losable, x # "head",
             bag' = [bag EXCEPT ![i][x] = EmptyFolder[x]]
      PROVE  /\ BagOK'
             /\ \A j \in Ids : /\ bag'[j].proof \in {bag[j].proof, NoFile}
                               /\ "supersedes" \notin Losable =>
                                      bag'[j].supersedes = bag[j].supersedes
                               /\ "sources" \notin Losable =>
                                      bag'[j].sources = bag[j].sources
  <2>1. /\ x \in {"deed", "evidence", "host", "bytes", "supersedes", "successor",
                  "sources", "proof"}
        /\ bag[i] \in Folders(i) /\ DOMAIN bag = Ids
    BY <1>4 DEF SatchelAssumption, SenderInv, BagOK
  <2>2. PICK f : f = [bag[i] EXCEPT ![x] = EmptyFolder[x]]
    OBVIOUS
  <2>3. /\ f \in Folders(i) /\ f.proof \in {bag[i].proof, NoFile}
        /\ f.successor \in {bag[i].successor, NoFile}
        /\ x # "supersedes" => f.supersedes = bag[i].supersedes
        /\ x # "sources" => f.sources = bag[i].sources
    BY <2>1, <2>2 DEF Folders, EmptyFolder
  <2>4. bag' = [bag EXCEPT ![i] = f]
    BY <1>4, <2>1, <2>2
  <2>5. BagOK'
    <3>1. f.proof # NoFile => InLog(i, f.proof)
      BY <2>3 DEF SenderInv, BagOK
    <3>2. f.successor # NoFile =>
              \E j \in made : Prior[j] = i /\ f.successor = Link(Draft[j])
      BY <2>3 DEF SenderInv, BagOK
    <3> QED
      BY <1>1, <2>3, <2>4, <3>1, <3>2, FolderStep DEF senderVars
  <2>6. bag'[i] = f /\ \A j \in Ids \ {i} : bag'[j] = bag[j]
    BY <2>1, <2>4
  <2> QED
    BY <1>4, <2>3, <2>5, <2>6
<1> QED
  BY <1>2, <1>3, <1>4 DEF Lose, deed_folders, SenderInv

=============================================================================
