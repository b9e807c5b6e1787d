---------------------------- MODULE HandoverProofs ----------------------------
(***************************************************************************)
(* What an import leaves in the receiver's store, proved for any deeds,    *)
(* any exports into the bag meanwhile, any losses and any stop.            *)
(***************************************************************************)
EXTENDS Handover, SatchelProofs

Fields == {"pc", "todo", "proven", "size", "signed", "carried", "head", "files",
           "lines", "alone", "count"}

Lines == [id : Ids, digest : [sha256 : Deed], time : Times]

(* What an import goes by, of a folder that passed. *)
Taken(i, f) ==
    /\ f \in Folders(i) /\ f.deed = Draft[i] /\ Draft[i].body \in f.bytes
    /\ f.proof \in Receipts(i) /\ InLog(i, f.proof)

ImpOK ==
    /\ DOMAIN imp = Fields
    /\ DOMAIN imp.carried = Ids
    /\ \A i \in Carried(imp.carried) : Taken(i, imp.carried[i])
    /\ imp.pc \in {"plan", "write"} /\ imp.head # NoFile =>
           \A i \in Carried(imp.carried) : imp.carried[i].proof.size = imp.head.size

ShelfOK ==
    /\ DOMAIN shelf = Ids /\ \A i \in Ids : DOMAIN shelf[i] = Exts
    /\ \A i \in Ids : Has(i, "cap") => DeedAt(i) \in Deed /\ DeedAt(i).id = i
    /\ \A i \in Ids : Has(i, "evidence") =>
           shelf[i]["evidence"] \in [deed : Deed, time : Times]
    /\ \A i \in Ids : Has(i, "proof") =>
           shelf[i]["proof"] \in Receipts(i) /\ InLog(i, shelf[i]["proof"])
    /\ log \in Seq(Lines)

(* The writes of a plan: the files of a deed it carries, each at its place... *)
DeedExts == {"cap", "evidence", "host", "bytes", "proof", "head"}

Rank(x) ==
    CASE x = "cap" -> 1 [] x = "evidence" -> 2 [] x = "host" -> 3
      [] x = "bytes" -> 4 [] x = "proof" -> 5 [] OTHER -> 6

DeedFile(i, x) ==
    CASE x = "cap" -> Draft[i]
      [] x = "evidence" -> Created(Draft[i], SentAt[i])
      [] x = "host" -> Sidecar(Draft[i], SentAt[i])
      [] x = "bytes" -> [raw |-> Draft[i].body]
      [] x = "proof" -> imp.carried[i].proof
      [] OTHER -> imp.head

DeedPut(w) ==
    /\ w.id \in Carried(imp.carried) /\ w.ext \in DeedExts
    /\ w.turn = <<0, imp.carried[w.id].proof.index, Rank(w.ext)>>
    /\ w.file = DeedFile(w.id, w.ext)

(* ...and the two sides of a link. *)
SupersedesPut(w) ==
    /\ w.ext = "supersedes" /\ w.turn[1] = 1
    /\ \E p \in LinkPairs(imp.carried) :
           w.turn = <<1, p.old.id, 1>> /\ w.id = p.new.id /\ w.file = LinkFile(p.old)

SuccessorPut(w) ==
    /\ w.ext = "successor" /\ w.turn[1] = 1
    /\ \E p \in LinkPairs(imp.carried) :
           w.turn = <<1, p.old.id, 2>> /\ w.id = p.old.id /\ w.file = SuccessorFile(p.new.id)

IsPut(w) == w = Put(w.turn, w.id, w.ext, w.file)

PutsOK ==
    /\ imp.files # {} => At("write")
    /\ At("write") => imp.lines \subseteq Carried(imp.carried)
    /\ \A w \in imp.files : IsPut(w) /\ (DeedPut(w) \/ SupersedesPut(w) \/ SuccessorPut(w))
    /\ At("write") => \A p, q \in LinkPairs(imp.carried) :
           q.old.id = p.old.id \/ q.new.id = p.new.id => q = p

Awaits(i, x) == \E w \in imp.files : w.id = i /\ w.ext = x

(* A head is beside its receipt, and is written after it. *)
PairOK ==
    /\ \A i \in Ids : Has(i, "head") =>
           Has(i, "proof") /\ shelf[i]["head"].size = shelf[i]["proof"].size
    /\ \A i \in Ids : Awaits(i, "proof") => ~Has(i, "proof") /\ ~Has(i, "head")
    /\ \A i \in Ids : Awaits(i, "head") =>
           /\ ~Has(i, "head") /\ imp.head # NoFile
           /\ \/ Awaits(i, "proof")
              \/ Has(i, "proof") /\ shelf[i]["proof"].size = imp.head.size

PairInv == SenderInv /\ ImpOK /\ ShelfOK /\ PutsOK /\ PairOK

-----------------------------------------------------------------------------
(* What a plan writes. *)

(* A folder that was read passed, or is none. *)
LEMMA CarriedIsTaken ==
    ASSUME SatchelAssumption, ImpOK, NEW i \in Carried(imp.carried)
    PROVE  /\ i \in Ids /\ Taken(i, imp.carried[i])
           /\ imp.carried[i].proof.index \in Nat /\ imp.carried[i].proof.size \in Nat
           /\ imp.carried[i].proof.entry = Entry(Draft[i], SentAt[i])
           /\ EvidenceFor(imp.carried[i]) = Created(Draft[i], SentAt[i])
           /\ imp.carried[i].proof # NoFile
<1>1. i \in Ids /\ Taken(i, imp.carried[i])
  BY DEF Carried, ImpOK
<1>2. PICK r \in Receipts(i) : r = imp.carried[i].proof
  BY <1>1 DEF Taken
<1>3. r.index \in Nat /\ r.size \in Nat /\ r.entry = Entry(Draft[i], SentAt[i])
  BY <1>2 DEF Receipts
<1>4. r.entry.time = SentAt[i]
  BY <1>3 DEF Entry
<1> QED
  BY <1>1, <1>2, <1>3, <1>4, FilesAreFiles DEF Taken, EvidenceFor

(* No two deeds have one place in the sender's log. *)
LEMMA PlacesDiffer ==
    ASSUME SatchelAssumption, ImpOK,
           NEW i \in Carried(imp.carried), NEW j \in Carried(imp.carried),
           imp.carried[i].proof.index = imp.carried[j].proof.index
    PROVE  i = j
<1>1. slog[imp.carried[i].proof.index] = i
  BY CarriedIsTaken DEF Taken, InLog
<1>2. slog[imp.carried[j].proof.index] = j
  BY CarriedIsTaken DEF Taken, InLog
<1> QED
  BY <1>1, <1>2

(* The links an import goes by are between accessions. *)
LEMMA LinkPairsNameIds ==
    ASSUME SatchelAssumption, ImpOK, NEW p \in LinkPairs(imp.carried)
    PROVE  p.old.id \in Ids /\ p.new.id \in Ids
<1>1. ASSUME NEW i \in Carried(imp.carried), imp.carried[i].supersedes # NoFile,
             p = [old |-> imp.carried[i].supersedes, new |-> Link(imp.carried[i].deed)]
      PROVE  p.old.id \in Ids /\ p.new.id \in Ids
  <2>1. i \in Ids /\ Taken(i, imp.carried[i])
    BY CarriedIsTaken
  <2>2. PICK f \in Folders(i) : f = imp.carried[i]
    BY <2>1 DEF Taken
  <2>3. f.supersedes = PriorLink(i) /\ f.deed = Draft[i]
    BY <1>1, <2>1, <2>2 DEF Folders, Taken
  <2>4. Prior[i] \in Ids
    BY <1>1, <2>1, <2>2, <2>3 DEF PriorLink, SatchelAssumption
  <2>5. f.supersedes.id \in Ids
    BY <2>1, <2>3, <2>4, FilesAreFiles DEF PriorLink, Link, SatchelAssumption
  <2>6. Link(f.deed).id \in Ids
    BY <2>1, <2>3, FilesAreFiles DEF Link
  <2> QED
    BY <1>1, <2>2, <2>5, <2>6
<1>2. ASSUME NEW i \in Carried(imp.carried), imp.carried[i].successor # NoFile,
             p = [old |-> Link(imp.carried[i].deed), new |-> imp.carried[i].successor]
      PROVE  p.old.id \in Ids /\ p.new.id \in Ids
  <2>1. i \in Ids /\ Taken(i, imp.carried[i])
    BY CarriedIsTaken
  <2>2. PICK f \in Folders(i) : f = imp.carried[i]
    BY <2>1 DEF Taken
  <2>3. f.deed = Draft[i] /\ \E j \in Ids : f.successor = Link(Draft[j])
    BY <1>2, <2>1, <2>2 DEF Folders, Taken
  <2>4. f.successor.id \in Ids
    BY <2>3, FilesAreFiles DEF Link
  <2>5. Link(f.deed).id \in Ids
    BY <2>1, <2>3, FilesAreFiles DEF Link
  <2> QED
    BY <1>2, <2>2, <2>4, <2>5
<1> QED
  BY <1>1, <1>2 DEF LinkPairs

(* No file is planned twice. *)
LEMMA PutsDiffer ==
    ASSUME SatchelAssumption, ImpOK, PutsOK, At("write"),
           NEW v \in imp.files, NEW w \in imp.files, v.id = w.id, v.ext = w.ext
    PROVE  v = w
<1>1. v.turn = w.turn /\ v.file = w.file => v = w
  BY DEF PutsOK, IsPut
<1>2. CASE w.ext \in DeedExts
  <2>1. DeedPut(v) /\ DeedPut(w)
    BY <1>2 DEF PutsOK, SupersedesPut, SuccessorPut, DeedExts
  <2> QED
    BY <1>1, <2>1 DEF DeedPut
<1>3. CASE w.ext = "supersedes"
  <2>1. SupersedesPut(v) /\ SupersedesPut(w)
    BY <1>3 DEF PutsOK, DeedPut, SuccessorPut, DeedExts
  <2>2. PICK p \in LinkPairs(imp.carried) :
            w.turn = <<1, p.old.id, 1>> /\ w.id = p.new.id /\ w.file = LinkFile(p.old)
    BY <2>1 DEF SupersedesPut
  <2>3. PICK q \in LinkPairs(imp.carried) :
            v.turn = <<1, q.old.id, 1>> /\ v.id = q.new.id /\ v.file = LinkFile(q.old)
    BY <2>1 DEF SupersedesPut
  <2>4. q = p
    BY <2>2, <2>3 DEF PutsOK
  <2> QED
    BY <1>1, <2>2, <2>3, <2>4
<1>4. CASE w.ext = "successor"
  <2>1. SuccessorPut(v) /\ SuccessorPut(w)
    BY <1>4 DEF PutsOK, DeedPut, SupersedesPut, DeedExts
  <2>2. PICK p \in LinkPairs(imp.carried) :
            w.turn = <<1, p.old.id, 2>> /\ w.id = p.old.id /\ w.file = SuccessorFile(p.new.id)
    BY <2>1 DEF SuccessorPut
  <2>3. PICK q \in LinkPairs(imp.carried) :
            v.turn = <<1, q.old.id, 2>> /\ v.id = q.old.id /\ v.file = SuccessorFile(q.new.id)
    BY <2>1 DEF SuccessorPut
  <2>4. q = p
    BY <2>2, <2>3 DEF PutsOK
  <2> QED
    BY <1>1, <2>2, <2>3, <2>4
<1> QED
  BY <1>2, <1>3, <1>4 DEF PutsOK, DeedPut, SupersedesPut, SuccessorPut

(* Whose turn it is. *)
IsNext(w) == w \in imp.files /\ \A v \in imp.files \ {w} : Before(w.turn, v.turn)

(* A deed's files are written in their order, and before any link. *)
LEMMA DeedsFirst ==
    ASSUME SatchelAssumption, ImpOK, PutsOK,
           NEW w \in imp.files, IsNext(w),
           NEW v \in imp.files, DeedPut(v)
    PROVE  DeedPut(w) /\ (v.id = w.id => Rank(w.ext) <= Rank(v.ext))
<1>1. /\ v.turn[1] = 0 /\ v.turn[2] = imp.carried[v.id].proof.index
      /\ v.turn[3] = Rank(v.ext) /\ Rank(v.ext) \in Nat
      /\ imp.carried[v.id].proof.index \in Nat
  BY CarriedIsTaken DEF DeedPut, Rank
<1>2. CASE v = w
  BY <1>1, <1>2
<1>3. CASE v # w
  <2>1. Before(w.turn, v.turn)
    BY <1>3 DEF IsNext
  <2>2. w.turn[1] # 1
    BY <1>1, <2>1 DEF Before
  <2>3. DeedPut(w)
    BY <2>2 DEF PutsOK, SupersedesPut, SuccessorPut
  <2>4. /\ w.turn[1] = 0 /\ w.turn[2] = imp.carried[w.id].proof.index
        /\ w.turn[3] = Rank(w.ext) /\ Rank(w.ext) \in Nat
        /\ imp.carried[w.id].proof.index \in Nat
    BY <2>3, CarriedIsTaken DEF DeedPut, Rank
  <2>5. v.id = w.id => Rank(w.ext) <= Rank(v.ext)
    BY <1>1, <2>1, <2>4 DEF Before
  <2> QED
    BY <2>3, <2>5
<1> QED
  BY <1>2, <1>3

-----------------------------------------------------------------------------
(* Steps of the sender. *)

(* The sender's side keeps its invariant, and what was logged stays. *)
LEMMA SenderKeeps ==
    ASSUME SatchelAssumption, SenderInv, SenderStep
    PROVE  /\ SenderInv' /\ UNCHANGED <<storeVars, imp>>
           /\ Len(slog) <= Len(slog') /\ \A k \in 1..Len(slog) : slog'[k] = slog[k]
           /\ imp.pc \notin Ended => BagGrows
<1>1. UNCHANGED <<storeVars, imp>>
  BY DEF SenderStep
<1>2. slog \in Seq(Ids)
  BY DEF SenderInv, SenderOK
<1>3. ASSUME NEW i \in Ids, SenderCreate(i) \/ SenderLog(i) \/ SenderDelete(i)
      PROVE  /\ SenderInv' /\ BagGrows
             /\ Len(slog) <= Len(slog') /\ \A k \in 1..Len(slog) : slog'[k] = slog[k]
  <2>1. SenderInv' /\ BagGrows
    BY <1>3, SenderCommands
  <2>2. slog' = slog \/ slog' = Append(slog, i)
    BY <1>3 DEF SenderCreate, SenderLog, SenderDelete
  <2> QED
    BY <1>2, <2>1, <2>2
<1>4. ASSUME \/ \E asked \in Exports, sealed \in Seals : ExportBegin(asked, sealed)
             \/ \E i \in Ids : ExportMissing(i)
             \/ ExportHead \/ ExportRefused \/ ExportStop
      PROVE  SenderInv' /\ BagGrows /\ slog' = slog
  <2>1. slog' = slog
    BY <1>4 DEF ExportBegin, ExportMissing, ExportHead, ExportRefused, ExportStop, senderVars
  <2> QED
    BY <1>4, <2>1, ExportTurns
<1>5. ASSUME \/ \E i \in Ids : ExportRecords(i)
             \/ ExportSuccessor \/ ExportSources \/ ExportProof
      PROVE  SenderInv' /\ BagGrows /\ slog' = slog
  <2>1. slog' = slog
    BY <1>5 DEF ExportRecords, ExportSuccessor, ExportSources, ExportProof, senderVars
  <2> QED
    BY <1>5, <2>1, ExportRecordsInv, ExportSuccessorInv, ExportSourcesInv, ExportProofInv
<1>6. ASSUME NewBag \/ Lose PROVE SenderInv' /\ slog' = slog
  <2>1. slog' = slog
    BY <1>6 DEF NewBag, Lose, senderVars
  <2> QED
    BY <1>6, <2>1, NewBagInv, LoseInv
<1>7. Len(slog) \in Nat
  BY <1>2
<1> QED
  BY <1>1, <1>3, <1>4, <1>5, <1>6, <1>7 DEF SenderStep

(* A receipt of a logged deed stays one. *)
LEMMA InLogStays ==
    ASSUME SenderInv, Len(slog) <= Len(slog'), SenderInv',
           \A k \in 1..Len(slog) : slog'[k] = slog[k],
           NEW i \in Ids, NEW r \in Receipts(i), InLog(i, r)
    PROVE  InLog(i, r)'
<1>1. r.size \in Nat /\ Len(slog) \in Nat /\ Len(slog') \in Nat
  BY DEF Receipts, SenderInv, SenderOK
<1>2. r.index \in 1..r.size /\ r.size <= Len(slog) /\ slog[r.index] = i
  BY DEF InLog
<1> QED
  BY <1>1, <1>2 DEF InLog

LEMMA SenderPair == ASSUME SatchelAssumption, PairInv, SenderStep PROVE PairInv'
<1>1. /\ SenderInv' /\ UNCHANGED <<shelf, bytes, log, imp>>
      /\ Len(slog) <= Len(slog') /\ \A k \in 1..Len(slog) : slog'[k] = slog[k]
  BY SenderKeeps DEF PairInv, storeVars
<1>2. ImpOK'
  <2>1. ASSUME NEW i \in Carried(imp.carried) PROVE Taken(i, imp.carried[i])'
    <3>1. i \in Ids /\ Taken(i, imp.carried[i])
      BY <2>1, CarriedIsTaken DEF PairInv
    <3>2. InLog(i, imp.carried[i].proof)'
      BY <1>1, <3>1, InLogStays DEF Taken, PairInv, InLog
    <3> QED
      BY <1>1, <3>1, <3>2 DEF Taken
  <2> QED
    BY <1>1, <2>1 DEF PairInv, ImpOK, Carried
<1>3. ShelfOK'
  <2>1. ASSUME NEW i \in Ids, Has(i, "proof") PROVE InLog(i, shelf[i]["proof"])'
    BY <1>1, <2>1, InLogStays DEF PairInv, ShelfOK, InLog
  <2> QED
    BY <1>1, <2>1 DEF PairInv, ShelfOK, Has, DeedAt
<1>4. PutsOK'
  <2>1. \A v : /\ DeedPut(v)' <=> DeedPut(v)
               /\ SupersedesPut(v)' <=> SupersedesPut(v)
               /\ SuccessorPut(v)' <=> SuccessorPut(v)
    BY <1>1 DEF DeedPut, SupersedesPut, SuccessorPut, DeedFile
  <2> QED
    BY <1>1, <2>1 DEF PairInv, PutsOK, At
<1>5. PairOK'
  BY <1>1 DEF PairInv, PairOK, Has, Awaits
<1> QED
  BY <1>1, <1>2, <1>3, <1>4, <1>5 DEF PairInv

-----------------------------------------------------------------------------
(* Steps of an import that write nothing. *)

LEMMA NoImportOK ==
    /\ DOMAIN NoImport = Fields /\ DOMAIN NoImport.carried = Ids
    /\ NoImport.files = {} /\ NoImport.lines = {} /\ NoImport.pc = "idle"
    /\ Carried(NoImport.carried) = {}
  BY DEF NoImport, Fields, NothingRead, Carried

LEMMA RefuseOK ==
    ASSUME Refuse
    PROVE  ImpOK' /\ imp'.files = {} /\ imp'.pc = "refused"
<1>1. PICK n : n = imp.count
  OBVIOUS
<1>2. imp' = [NoImport EXCEPT !.pc = "refused", !.count = n]
  BY <1>1 DEF Refuse
<1>3. /\ DOMAIN imp' = Fields /\ imp'.pc = "refused" /\ imp'.files = {}
      /\ imp'.carried = NoImport.carried
  BY <1>2, NoImportOK DEF Fields
<1> QED
  BY <1>3, NoImportOK DEF ImpOK

(* Reading and checking leaves the store and the bag as they are. *)
LEMMA ReadStep ==
    ASSUME PairInv, OnlyImport, ImpOK', imp'.files = {}, imp'.pc # "write"
    PROVE  PairInv' /\ imp'.pc # "write"
<1>1. UNCHANGED <<made, tombs, slog, bag, exp, shelf, bytes, log>>
  BY DEF OnlyImport, satchelVars, bagVars, senderVars, storeVars
<1>2. SenderInv'
  BY <1>1 DEF PairInv, SenderInv, SenderOK, BagOK, ExpOK, InLog
<1>3. ShelfOK'
  BY <1>1 DEF PairInv, ShelfOK, Has, DeedAt, InLog
<1>4. PutsOK'
  BY DEF PutsOK, At
<1>5. PairOK'
  BY <1>1 DEF PairInv, PairOK, Has, Awaits
<1> QED
  BY <1>2, <1>3, <1>4, <1>5 DEF PairInv

LEMMA PassesIsTaken ==
    ASSUME SatchelAssumption, SenderInv, NEW i \in Ids, FolderPasses(i)
    PROVE  Taken(i, bag[i])
<1>1. bag[i] \in Folders(i) /\ bag[i].proof # NoFile /\ bag[i].deed # NoFile
      /\ InLog(i, bag[i].proof)
  BY DEF FolderPasses, SenderInv, BagOK
<1>2. bag[i].deed = Draft[i] /\ bag[i].proof \in Receipts(i)
  BY <1>1 DEF Folders
<1> QED
  BY <1>1, <1>2 DEF FolderPasses, Taken

LEMMA ReadPair ==
    ASSUME SatchelAssumption, PairInv,
           \/ ImportBegin \/ CheckLinks \/ ReadHead
           \/ \E i \in Ids : CheckFolder(i) \/ ReadFolder(i)
           \/ \E allow \in BOOLEAN : Compare(allow)
           \/ ImportDone \/ ImportStop
    PROVE  PairInv' /\ imp'.pc # "write"
<1>1. OnlyImport
  BY DEF ImportBegin, CheckLinks, ReadHead, CheckFolder, ReadFolder, Compare,
         ImportDone, ImportStop
<1>2. UNCHANGED slog
  BY <1>1 DEF OnlyImport, satchelVars, bagVars, senderVars
<1>3. \A i, f : Taken(i, f) => Taken(i, f)'
  BY <1>2 DEF Taken, InLog
<1>4. DOMAIN imp = Fields /\ DOMAIN imp.carried = Ids
      /\ (imp.pc # "write" => imp.files = {})
  BY DEF PairInv, ImpOK, PutsOK, At
<1>5. CASE Refuse
  BY <1>1, <1>5, RefuseOK, ReadStep
<1>6. CASE ImportBegin
  <2>1. PICK n, t, h : n = imp.count + 1 /\ t = deed_folders /\ h = head
    OBVIOUS
  <2>2. imp' = [NoImport EXCEPT !.pc = "check", !.todo = t, !.signed = h, !.count = n]
    BY <1>6, <2>1 DEF ImportBegin
  <2>3. /\ DOMAIN imp' = Fields /\ imp'.pc = "check" /\ imp'.files = {}
        /\ imp'.carried = NoImport.carried
    BY <2>2, NoImportOK DEF Fields
  <2>4. ImpOK'
    BY <2>3, NoImportOK DEF ImpOK
  <2> QED
    BY <1>1, <2>3, <2>4, ReadStep
<1>7. ASSUME DOMAIN imp' = Fields, imp'.carried = imp.carried, imp'.files = {},
             imp'.pc \notin {"plan", "write"}
      PROVE  PairInv' /\ imp'.pc # "write"
  <2>1. ImpOK'
    BY <1>3, <1>7 DEF PairInv, ImpOK
  <2> QED
    BY <1>1, <1>7, <2>1, ReadStep
<1>8. ASSUME NEW i \in Ids, CheckFolder(i), ~Refuse PROVE PairInv' /\ imp'.pc # "write"
  <2>1. PICK t : t = imp.todo \ {i}
    OBVIOUS
  <2>4. PICK n : n = imp.proven \cup {i}
    OBVIOUS
  <2>5. PICK s : s = bag[i].proof.size
    OBVIOUS
  <2>3. imp' = [imp EXCEPT !.todo = t, !.proven = n, !.size = s]
    BY <1>8, <2>1, <2>4, <2>5 DEF CheckFolder
  <2>2. imp.pc = "check"
    BY <1>8 DEF CheckFolder, At
  <2> QED
    BY <1>4, <1>7, <2>2, <2>3 DEF Fields
<1>9. ASSUME CheckLinks, ~Refuse PROVE PairInv' /\ imp'.pc # "write"
  <2>1. PICK t : t = deed_folders
    OBVIOUS
  <2>2. imp.pc = "check"
    BY <1>9 DEF CheckLinks, At
  <2>3. CASE imp' = [imp EXCEPT !.pc = "ok"]
    BY <1>4, <1>7, <2>2, <2>3 DEF Fields
  <2>4. CASE imp' = [imp EXCEPT !.pc = "read", !.todo = t]
    BY <1>4, <1>7, <2>2, <2>4 DEF Fields
  <2> QED
    BY <1>9, <2>1, <2>3, <2>4 DEF CheckLinks
<1>10. ASSUME NEW i \in Ids, ReadFolder(i), ~Refuse PROVE PairInv' /\ imp'.pc # "write"
  <2>1. imp.pc = "read" /\ FolderPasses(i)
    BY <1>10 DEF ReadFolder, At
  <2>2. PICK t, f : t = imp.todo \ {i} /\ f = bag[i]
    OBVIOUS
  <2>3. imp' = [imp EXCEPT !.todo = t, !.carried[i] = f]
    BY <1>10, <2>2 DEF ReadFolder
  <2>4. /\ DOMAIN imp' = Fields /\ imp'.pc = "read" /\ imp'.files = {}
        /\ imp'.carried = [imp.carried EXCEPT ![i] = f]
    BY <1>4, <2>1, <2>3 DEF Fields
  <2>5. DOMAIN imp'.carried = Ids /\ imp'.carried[i] = f
        /\ \A j \in Ids \ {i} : imp'.carried[j] = imp.carried[j]
    BY <1>4, <2>4
  <2>6. Taken(i, f)'
    BY <1>3, <2>1, <2>2, PassesIsTaken DEF PairInv
  <2>7. \A j \in Carried(imp'.carried) : Taken(j, imp.carried[j])'
    BY <1>3, <2>5, <2>6 DEF PairInv, ImpOK, Carried
  <2>8. ImpOK'
    BY <2>4, <2>5, <2>7 DEF ImpOK
  <2> QED
    BY <1>1, <2>4, <2>8, ReadStep
<1>11. ASSUME ReadHead PROVE PairInv' /\ imp'.pc # "write"
  <2>1. PICK h : imp' = [imp EXCEPT !.pc = "compare", !.head = h]
    BY <1>11 DEF ReadHead
  <2>2. imp.pc = "read"
    BY <1>11 DEF ReadHead, At
  <2> QED
    BY <1>4, <1>7, <2>1, <2>2 DEF Fields
<1>12. ASSUME NEW allow \in BOOLEAN, Compare(allow), ~Refuse PROVE PairInv' /\ imp'.pc # "write"
  <2>1. imp' = [imp EXCEPT !.pc = "plan"] /\ imp.pc = "compare" /\ same_as_checked
    BY <1>12 DEF Compare, At
  <2>2. /\ DOMAIN imp' = Fields /\ imp'.pc = "plan" /\ imp'.files = {}
        /\ imp'.carried = imp.carried /\ imp'.head = imp.head
    BY <1>4, <2>1 DEF Fields
  <2>3. imp.head # NoFile =>
            \A i \in Carried(imp.carried) : imp.carried[i].proof.size = imp.head.size
    BY <2>1 DEF same_as_checked
  <2>4. ImpOK'
    BY <1>3, <2>2, <2>3 DEF PairInv, ImpOK
  <2> QED
    BY <1>1, <2>2, <2>4, ReadStep
<1>13. ASSUME ImportDone PROVE PairInv' /\ imp'.pc # "write"
  <2>1. imp' = [imp EXCEPT !.pc = "ok"] /\ imp.files = {}
    BY <1>13 DEF ImportDone
  <2> QED
    BY <1>4, <1>7, <2>1 DEF Fields
<1>14. ASSUME ImportStop, ~Refuse PROVE PairInv' /\ imp'.pc # "write"
  <2>1. imp' = [imp EXCEPT !.pc = "stopped", !.files = {}, !.lines = {}]
    BY <1>14 DEF ImportStop
  <2> QED
    BY <1>4, <1>7, <2>1 DEF Fields
<1> QED
  BY <1>5, <1>6, <1>8, <1>9, <1>10, <1>11, <1>12, <1>13, <1>14

-----------------------------------------------------------------------------
(* The plan. *)

LEMMA DeedsPlanned ==
    ASSUME SatchelAssumption, ImpOK, NEW i \in Carried(imp.carried),
           NEW w \in DeedPuts(i, imp.carried[i], imp.head)
    PROVE  /\ IsPut(w) /\ DeedPut(w) /\ w.id = i
           /\ w.ext # "bytes" => ~Has(i, w.ext)
           /\ w.ext = "head" => HeadDue(i, imp.head)
<1>1. PICK f : f = imp.carried[i]
  OBVIOUS
<1>2. /\ i \in Ids /\ f \in Folders(i) /\ f.deed = Draft[i]
      /\ EvidenceFor(f) = Created(Draft[i], SentAt[i])
  BY <1>1, CarriedIsTaken DEF Taken
<1>3. CASE w = Put(<<0, f.proof.index, 1>>, i, "cap", f.deed) /\ ~Has(i, w.ext)
  BY <1>1, <1>2, <1>3 DEF Put, IsPut, DeedPut, DeedExts, Rank, DeedFile
<1>4. CASE w = Put(<<0, f.proof.index, 2>>, i, "evidence", EvidenceFor(f)) /\ ~Has(i, w.ext)
  BY <1>1, <1>2, <1>4 DEF Put, IsPut, DeedPut, DeedExts, Rank, DeedFile
<1>5. CASE w = Put(<<0, f.proof.index, 3>>, i, "host", f.host) /\ ~Has(i, w.ext)
           /\ w.file # NoFile
  <2>1. f.host = Sidecar(Draft[i], SentAt[i])
    BY <1>2, <1>5 DEF Put, Folders
  <2> QED
    BY <1>1, <1>5, <2>1 DEF Put, IsPut, DeedPut, DeedExts, Rank, DeedFile
<1>6. CASE w = Put(<<0, f.proof.index, 5>>, i, "proof", f.proof) /\ ~Has(i, w.ext)
  BY <1>1, <1>6 DEF Put, IsPut, DeedPut, DeedExts, Rank, DeedFile
<1>7. CASE w = Put(<<0, f.proof.index, 4>>, i, "bytes", [raw |-> f.deed.body])
  BY <1>1, <1>2, <1>7 DEF Put, IsPut, DeedPut, DeedExts, Rank, DeedFile
<1>8. CASE w = Put(<<0, f.proof.index, 6>>, i, "head", imp.head) /\ HeadDue(i, imp.head)
  BY <1>1, <1>8 DEF Put, IsPut, DeedPut, DeedExts, Rank, DeedFile, HeadDue
<1> QED
  BY <1>1, <1>3, <1>4, <1>5, <1>6, <1>7, <1>8 DEF DeedPuts

LEMMA LinksPlanned ==
    ASSUME NEW w \in LinkPuts(imp.carried), LinksFit(imp.carried)
    PROVE  /\ IsPut(w) /\ (SupersedesPut(w) \/ SuccessorPut(w))
           /\ w.id \in Carried(imp.carried) \/ Serves(w.id)
           /\ \/ shelf[w.id][w.ext] = NoFile
              \/ w.ext = "supersedes" /\ shelf[w.id][w.ext] = IdOnly(w.file.id)
<1>1. CASE w \in {Put(<<1, p.old.id, 1>>, p.new.id, "supersedes", LinkFile(p.old)) :
                      p \in LinkPairs(imp.carried)} /\ shelf[w.id][w.ext] # w.file
  <2>1. PICK p \in LinkPairs(imp.carried) :
            w = Put(<<1, p.old.id, 1>>, p.new.id, "supersedes", LinkFile(p.old))
    BY <1>1
  <2>2. IsPut(w) /\ SupersedesPut(w)
    BY <2>1 DEF Put, IsPut, SupersedesPut
  <2>3. /\ w.id = p.new.id /\ w.ext = "supersedes" /\ w.file = LinkFile(p.old)
        /\ w.file.id = p.old.id
    BY <2>1 DEF Put, LinkFile
  <2>4. /\ p.new.id \in Carried(imp.carried) \/ Serves(p.new.id)
        /\ shelf[p.new.id]["supersedes"] \in {NoFile, IdOnly(p.old.id), LinkFile(p.old)}
    BY DEF LinksFit
  <2> QED
    BY <1>1, <2>2, <2>3, <2>4
<1>2. CASE w \in {Put(<<1, p.old.id, 2>>, p.old.id, "successor", SuccessorFile(p.new.id)) :
                      p \in LinkPairs(imp.carried)}
           /\ ~Has(w.id, w.ext) /\ (w.id \in Carried(imp.carried) \/ Serves(w.id))
  <2>1. PICK p \in LinkPairs(imp.carried) :
            w = Put(<<1, p.old.id, 2>>, p.old.id, "successor", SuccessorFile(p.new.id))
    BY <1>2
  <2>2. IsPut(w) /\ SuccessorPut(w)
    BY <2>1 DEF Put, IsPut, SuccessorPut
  <2> QED
    BY <1>2, <2>2 DEF Has
<1> QED
  BY <1>1, <1>2 DEF LinkPuts

(* What the plan holds, for a deed: each file is there already or planned. *)
LEMMA PlanComplete ==
    ASSUME SatchelAssumption, ImpOK, NEW i \in Carried(imp.carried),
           DeedFits(i, imp.carried[i], imp.head)
    PROVE  LET puts == DeedPuts(i, imp.carried[i], imp.head) IN
           /\ \/ shelf[i]["cap"] = Draft[i]
              \/ \E w \in puts : w.id = i /\ w.ext = "cap"
           /\ \/ shelf[i]["evidence"] = Created(Draft[i], SentAt[i])
              \/ \E w \in puts : w.id = i /\ w.ext = "evidence"
           /\ \/ Draft[i].body \in bytes
              \/ \E w \in puts : w.id = i /\ w.ext = "bytes"
           /\ \/ Has(i, "proof")
              \/ \E w \in puts : w.id = i /\ w.ext = "proof"
<1> DEFINE puts == DeedPuts(i, imp.carried[i], imp.head)
<1>1. PICK f : f = imp.carried[i]
  OBVIOUS
<1>2. /\ i \in Ids /\ f \in Folders(i) /\ f.deed = Draft[i] /\ f.proof # NoFile
      /\ EvidenceFor(f) = Created(Draft[i], SentAt[i])
  BY <1>1, CarriedIsTaken DEF Taken
<1>3. Draft[i] # NoFile /\ Created(Draft[i], SentAt[i]) # NoFile
  BY <1>2, FilesAreFiles
<1>4. ASSUME ~Has(i, "cap") PROVE \E w \in puts : w.id = i /\ w.ext = "cap"
  <2>1. PICK w : w = Put(<<0, f.proof.index, 1>>, i, "cap", f.deed)
    OBVIOUS
  <2>2. w.id = i /\ w.ext = "cap" /\ w.file = Draft[i]
    BY <1>2, <2>1 DEF Put
  <2>3. w \in puts
    BY <1>1, <1>3, <1>4, <2>1, <2>2 DEF DeedPuts
  <2> QED
    BY <2>2, <2>3
<1>5. ASSUME ~Has(i, "evidence") PROVE \E w \in puts : w.id = i /\ w.ext = "evidence"
  <2>1. PICK w : w = Put(<<0, f.proof.index, 2>>, i, "evidence", EvidenceFor(f))
    OBVIOUS
  <2>2. w.id = i /\ w.ext = "evidence" /\ w.file = Created(Draft[i], SentAt[i])
    BY <1>2, <2>1 DEF Put
  <2>3. w \in puts
    BY <1>1, <1>3, <1>5, <2>1, <2>2 DEF DeedPuts
  <2> QED
    BY <2>2, <2>3
<1>6. ASSUME Draft[i].body \notin bytes PROVE \E w \in puts : w.id = i /\ w.ext = "bytes"
  <2>1. PICK w : w = Put(<<0, f.proof.index, 4>>, i, "bytes", [raw |-> f.deed.body])
    OBVIOUS
  <2>2. w.id = i /\ w.ext = "bytes"
    BY <2>1 DEF Put
  <2>3. w \in puts
    BY <1>1, <1>2, <1>6, <2>1 DEF DeedPuts
  <2> QED
    BY <2>2, <2>3
<1>7. ASSUME ~Has(i, "proof") PROVE \E w \in puts : w.id = i /\ w.ext = "proof"
  <2>1. PICK w : w = Put(<<0, f.proof.index, 5>>, i, "proof", f.proof)
    OBVIOUS
  <2>2. w.id = i /\ w.ext = "proof" /\ w.file = f.proof
    BY <2>1 DEF Put
  <2>3. w \in puts
    BY <1>1, <1>2, <1>7, <2>1, <2>2 DEF DeedPuts
  <2> QED
    BY <2>2, <2>3
<1>8. /\ Has(i, "cap") => shelf[i]["cap"] = Draft[i]
      /\ Has(i, "evidence") => shelf[i]["evidence"] = Created(Draft[i], SentAt[i])
  BY <1>1, <1>2 DEF DeedFits, Fits, Has
<1> QED
  BY <1>4, <1>5, <1>6, <1>7, <1>8

LEMMA FilesAre ==
    ASSUME NEW c, NEW h, NEW w
    PROVE  w \in Files(c, h) <=> \/ \E i \in Carried(c) : w \in DeedPuts(i, c[i], h)
                                \/ w \in LinkPuts(c)
<1> DEFINE D(i) == DeedPuts(i, c[i], h)
<1>1. PICK u : u = UNION {D(i) : i \in Carried(c)}
  OBVIOUS
<1>2. Files(c, h) = u \cup LinkPuts(c)
  BY <1>1, Zenon DEF Files
<1> HIDE DEF D
<1>3. ASSUME NEW i \in Carried(c), w \in D(i) PROVE w \in u
  BY <1>1, <1>3, Zenon
<1>4. ASSUME w \in u PROVE \E i \in Carried(c) : w \in D(i)
  BY <1>1, <1>4, Zenon
<1>5. w \in Files(c, h) <=> w \in u \/ w \in LinkPuts(c)
  BY <1>2
<1> QED
  BY <1>3, <1>4, <1>5 DEF D

LEMMA PlanPair == ASSUME SatchelAssumption, PairInv, PlanImport PROVE PairInv'
<1>1. OnlyImport /\ imp.pc = "plan"
  BY DEF PlanImport, At
<1>2. CASE Refuse
  BY <1>1, <1>2, RefuseOK, ReadStep
<1>3. CASE ~Refuse
  <2>1. UNCHANGED <<made, tombs, slog, bag, exp, shelf, bytes, log>>
    BY <1>1 DEF OnlyImport, satchelVars, bagVars, senderVars, storeVars
  <2>2. CanHold(imp.carried, imp.head)
    BY <1>1, <1>3 DEF PlanImport
  <2>3. PICK w0 : w0 = Files(imp.carried, imp.head)
    OBVIOUS
  <2>4. PICK l0 : l0 = ToLog(imp.carried)
    OBVIOUS
  <2>5. imp' = [imp EXCEPT !.pc = "write", !.todo = {}, !.proven = {},
                           !.signed = NoFile, !.size = 0, !.files = w0, !.lines = l0]
    BY <1>1, <1>3, <2>3, <2>4 DEF PlanImport
  <2>6. /\ DOMAIN imp' = Fields /\ imp'.pc = "write" /\ imp'.carried = imp.carried
        /\ imp'.head = imp.head /\ imp'.files = w0 /\ imp'.lines = l0
    BY <2>5 DEF PairInv, ImpOK, Fields
  <2>7. ImpOK'
    BY <1>1, <2>1, <2>6 DEF PairInv, ImpOK, Taken, InLog
  <2>8. SenderInv' /\ ShelfOK'
    BY <2>1 DEF PairInv, SenderInv, SenderOK, BagOK, ExpOK, InLog, ShelfOK, Has, DeedAt
  <2>9. PutsOK'
    <3>1. ASSUME NEW w \in w0
          PROVE  IsPut(w) /\ (DeedPut(w) \/ SupersedesPut(w) \/ SuccessorPut(w))
      BY <2>2, <2>3, <3>1, FilesAre, DeedsPlanned, LinksPlanned DEF PairInv, CanHold
    <3>2. \A w : /\ DeedPut(w)' <=> DeedPut(w)
                 /\ SupersedesPut(w)' <=> SupersedesPut(w)
                 /\ SuccessorPut(w)' <=> SuccessorPut(w)
      BY <2>6 DEF DeedPut, SupersedesPut, SuccessorPut, DeedFile
    <3>3. LinksFit(imp.carried)
      BY <2>2 DEF CanHold
    <3>4. \A p, q \in LinkPairs(imp.carried) :
              q.old.id = p.old.id \/ q.new.id = p.new.id => q = p
      BY <3>3 DEF LinksFit
    <3>5. l0 \subseteq Carried(imp.carried)
      BY <2>4 DEF ToLog
    <3> QED
      BY <2>6, <3>1, <3>2, <3>4, <3>5 DEF PutsOK, At
  <2>10. PairOK'
    <3>1. ASSUME NEW i \in Ids, NEW w \in w0, w.id = i, w.ext \in {"proof", "head"}
          PROVE  /\ i \in Carried(imp.carried)
                 /\ w \in DeedPuts(i, imp.carried[i], imp.head)
      <4>1. w \notin LinkPuts(imp.carried)
        BY <3>1 DEF LinkPuts, Put
      <4>2. PICK j \in Carried(imp.carried) : w \in DeedPuts(j, imp.carried[j], imp.head)
        BY <2>3, <3>1, <4>1, FilesAre
      <4>3. j = i
        BY <3>1, <4>2, DeedsPlanned DEF PairInv
      <4> QED
        BY <4>2, <4>3
    <3>2. ASSUME NEW i \in Ids, NEW w \in w0, w.id = i, w.ext = "proof"
          PROVE  ~Has(i, "proof") /\ ~Has(i, "head")
      BY <3>1, <3>2, DeedsPlanned DEF PairInv, PairOK
    <3>3. ASSUME NEW i \in Ids, NEW w \in w0, w.id = i, w.ext = "head"
          PROVE  /\ ~Has(i, "head") /\ imp.head # NoFile
                 /\ \/ \E v \in w0 : v.id = i /\ v.ext = "proof"
                    \/ Has(i, "proof") /\ shelf[i]["proof"].size = imp.head.size
      <4>1. i \in Carried(imp.carried) /\ HeadDue(i, imp.head)
        BY <3>1, <3>3, DeedsPlanned DEF PairInv
      <4>2. DeedFits(i, imp.carried[i], imp.head)
        BY <2>2, <4>1 DEF CanHold
      <4>3. Has(i, "proof") \/ \E v \in w0 : v.id = i /\ v.ext = "proof"
        BY <2>3, <4>1, <4>2, FilesAre, PlanComplete DEF PairInv
      <4> QED
        BY <4>1, <4>3 DEF HeadDue
    <3> QED
      BY <2>1, <2>6, <3>2, <3>3 DEF PairInv, PairOK, Has, Awaits
  <2> QED
    BY <2>7, <2>8, <2>9, <2>10 DEF PairInv
<1> QED
  BY <1>2, <1>3

-----------------------------------------------------------------------------
(* Writing. *)

(* One file is written: the next of the plan. *)
Writes(w) ==
    /\ At("write") /\ At("write")' /\ IsNext(w) /\ w.id \in Ids
    /\ DOMAIN imp' = Fields /\ imp'.carried = imp.carried /\ imp'.head = imp.head
    /\ imp'.files = imp.files \ {w} /\ imp'.lines = imp.lines
    /\ IF w.ext = "bytes"
       THEN bytes' = bytes \cup {w.file.raw} /\ shelf' = shelf
       ELSE /\ bytes' = bytes /\ w.ext \in Exts
            /\ shelf'[w.id][w.ext] = w.file
            /\ DOMAIN shelf' = Ids /\ \A i \in Ids : DOMAIN shelf'[i] = Exts
            /\ \A i \in Ids, x \in Exts :
                   i # w.id \/ x # w.ext => shelf'[i][x] = shelf[i][x]

LEMMA WriteShape ==
    ASSUME SatchelAssumption, ImpOK, ShelfOK, PutsOK, WriteFile
    PROVE  \E w \in imp.files : Writes(w)
<1>1. PICK w \in imp.files :
          /\ \A v \in imp.files \ {w} : Before(w.turn, v.turn)
          /\ IF w.ext = "bytes"
             THEN bytes' = bytes \cup {w.file.raw} /\ UNCHANGED shelf
             ELSE shelf' = [shelf EXCEPT ![w.id][w.ext] = w.file] /\ UNCHANGED bytes
          /\ imp' = [imp EXCEPT !.files = imp.files \ {w}]
  BY DEF WriteFile
<1>2. PICK fs : fs = imp.files \ {w}
  OBVIOUS
<1>3. imp' = [imp EXCEPT !.files = fs]
  BY <1>1, <1>2
<1>4. /\ DOMAIN imp' = Fields /\ imp'.carried = imp.carried /\ imp'.head = imp.head
      /\ imp'.files = fs /\ imp'.lines = imp.lines /\ imp'.pc = imp.pc /\ imp.pc = "write"
  BY <1>3 DEF ImpOK, Fields, WriteFile, At
<1>5. w.id \in Ids /\ (w.ext = "bytes" \/ w.ext \in Exts)
  <2>1. CASE DeedPut(w)
    BY <2>1, CarriedIsTaken DEF DeedPut, DeedExts, Exts
  <2>2. CASE SupersedesPut(w)
    BY <2>2, LinkPairsNameIds DEF SupersedesPut, Exts
  <2>3. CASE SuccessorPut(w)
    BY <2>3, LinkPairsNameIds DEF SuccessorPut, Exts
  <2> QED
    BY <2>1, <2>2, <2>3 DEF PutsOK
<1>6. ASSUME w.ext # "bytes"
      PROVE  /\ shelf'[w.id][w.ext] = w.file
             /\ DOMAIN shelf' = Ids /\ \A i \in Ids : DOMAIN shelf'[i] = Exts
             /\ \A i \in Ids, x \in Exts :
                    i # w.id \/ x # w.ext => shelf'[i][x] = shelf[i][x]
  <2>1. PICK i0, x0, f0 : i0 = w.id /\ x0 = w.ext /\ f0 = w.file
    OBVIOUS
  <2>2. shelf' = [shelf EXCEPT ![i0][x0] = f0] /\ i0 \in Ids /\ x0 \in Exts
    BY <1>1, <1>5, <1>6, <2>1
  <2>3. DOMAIN shelf = Ids /\ \A i \in Ids : DOMAIN shelf[i] = Exts
    BY DEF ShelfOK
  <2>4. shelf'[i0][x0] = f0
    BY <2>2, <2>3
  <2>5. DOMAIN shelf' = Ids /\ \A i \in Ids : DOMAIN shelf'[i] = Exts
    BY <2>2, <2>3
  <2>6. \A i \in Ids, x \in Exts : i # i0 \/ x # x0 => shelf'[i][x] = shelf[i][x]
    BY <2>2, <2>3
  <2> QED
    BY <2>1, <2>4, <2>5, <2>6
<1> QED
  BY <1>1, <1>2, <1>4, <1>5, <1>6 DEF Writes, IsNext, At

LEMMA WritePair == ASSUME SatchelAssumption, PairInv, WriteFile PROVE PairInv'
<1>1. PICK w \in imp.files : Writes(w)
  BY WriteShape DEF PairInv
<1>2. UNCHANGED <<made, tombs, slog, bag, exp, log>>
  BY DEF WriteFile, satchelVars, bagVars, senderVars
<1>3. SenderInv'
  BY <1>2 DEF PairInv, SenderInv, SenderOK, BagOK, ExpOK, InLog
<1>4. ImpOK'
  BY <1>1, <1>2 DEF PairInv, ImpOK, Taken, InLog, Writes, At
<1>5. IsPut(w) /\ (DeedPut(w) \/ SupersedesPut(w) \/ SuccessorPut(w)) /\ w.id \in Ids
  BY <1>1 DEF PairInv, PutsOK, Writes
<1>6. PutsOK'
  <2>1. \A v : /\ DeedPut(v)' <=> DeedPut(v)
               /\ SupersedesPut(v)' <=> SupersedesPut(v)
               /\ SuccessorPut(v)' <=> SuccessorPut(v)
    BY <1>1 DEF DeedPut, SupersedesPut, SuccessorPut, DeedFile, Writes
  <2> QED
    BY <1>1, <2>1 DEF PairInv, PutsOK, Writes, At
<1>7. /\ w.ext = "cap" => DeedPut(w) /\ w.file = Draft[w.id]
      /\ w.ext = "evidence" => DeedPut(w) /\ w.file = Created(Draft[w.id], SentAt[w.id])
      /\ w.ext = "proof" => DeedPut(w) /\ w.file = imp.carried[w.id].proof
      /\ w.ext = "head" => DeedPut(w) /\ w.file = imp.head
  BY <1>5 DEF DeedPut, DeedFile, SupersedesPut, SuccessorPut
<1>8. ShelfOK'
  <2>1. DOMAIN shelf' = Ids /\ \A i \in Ids : DOMAIN shelf'[i] = Exts
    BY <1>1 DEF PairInv, ShelfOK, Writes
  <2>2. \A i \in Ids, x \in Exts :
            shelf'[i][x] = shelf[i][x] \/ (i = w.id /\ x = w.ext /\ shelf'[i][x] = w.file)
    BY <1>1 DEF Writes
  <2>3. Draft[w.id] \in Deed /\ Draft[w.id].id = w.id
    BY <1>5, FilesAreFiles
  <2>4. Created(Draft[w.id], SentAt[w.id]) \in [deed : Deed, time : Times]
    BY <1>5, <2>3 DEF Created, SatchelAssumption
  <2>5. DeedPut(w) => /\ imp.carried[w.id].proof \in Receipts(w.id)
                      /\ InLog(w.id, imp.carried[w.id].proof)
    BY CarriedIsTaken DEF DeedPut, PairInv, Taken
  <2>6. \A i \in Ids : Has(i, "cap")' => DeedAt(i)' \in Deed /\ DeedAt(i)'.id = i
    BY <1>7, <2>2, <2>3 DEF PairInv, ShelfOK, Has, DeedAt, Exts
  <2>7. \A i \in Ids : Has(i, "evidence")' =>
            shelf'[i]["evidence"] \in [deed : Deed, time : Times]
    BY <1>7, <2>2, <2>4 DEF PairInv, ShelfOK, Has, Exts
  <2>8. \A i \in Ids : Has(i, "proof")' =>
            shelf'[i]["proof"] \in Receipts(i) /\ InLog(i, shelf[i]["proof"])'
    BY <1>2, <1>7, <2>2, <2>5 DEF PairInv, ShelfOK, Has, Exts, InLog
  <2> QED
    BY <1>2, <2>1, <2>6, <2>7, <2>8 DEF PairInv, ShelfOK
<1>9. PairOK'
  <2>1. \A i, x : Awaits(i, x)' => Awaits(i, x) /\ ~(i = w.id /\ x = w.ext)
    <3>1. ASSUME NEW i, NEW x, Awaits(i, x)' PROVE Awaits(i, x) /\ ~(i = w.id /\ x = w.ext)
      <4>1. PICK v \in imp.files : v # w /\ v.id = i /\ v.ext = x
        BY <1>1, <3>1 DEF Awaits, Writes
      <4>2. ~(v.id = w.id /\ v.ext = w.ext)
        BY <1>1, <4>1, PutsDiffer DEF PairInv, Writes
      <4> QED
        BY <4>1, <4>2 DEF Awaits
    <3> QED
      BY <3>1
  <2>2. \A i, x : Awaits(i, x) => Awaits(i, x)' \/ (i = w.id /\ x = w.ext)
    BY <1>1 DEF Awaits, Writes
  <2>3. CASE w.ext = "head"
    <3>1. ~Awaits(w.id, "proof")
      <4>1. ASSUME NEW v \in imp.files, v.id = w.id, v.ext = "proof" PROVE FALSE
        <5>1. DeedPut(v)
          BY <4>1 DEF PairInv, PutsOK, SupersedesPut, SuccessorPut
        <5>2. Rank(w.ext) <= Rank(v.ext)
          BY <1>1, <4>1, <5>1, DeedsFirst DEF PairInv, Writes
        <5> QED
          BY <2>3, <4>1, <5>2 DEF Rank
      <4> QED
        BY <4>1 DEF Awaits
    <3>2. Awaits(w.id, "head")
      BY <2>3 DEF Awaits
    <3>3. Has(w.id, "proof") /\ shelf[w.id]["proof"].size = imp.head.size
      BY <1>5, <3>1, <3>2 DEF PairInv, PairOK
    <3>4. /\ \A i \in Ids : shelf'[i]["proof"] = shelf[i]["proof"]
          /\ \A i \in Ids \ {w.id} : shelf'[i]["head"] = shelf[i]["head"]
          /\ shelf'[w.id]["head"] = imp.head /\ imp'.head = imp.head
      BY <1>1, <1>7, <2>3 DEF Writes, Exts
    <3> QED
      BY <2>1, <2>2, <2>3, <3>1, <3>3, <3>4 DEF PairInv, PairOK, Has
  <2>4. CASE w.ext = "proof"
    <3>1. Awaits(w.id, "proof")
      BY <2>4 DEF Awaits
    <3>2. /\ \A i \in Ids \ {w.id} : shelf'[i]["proof"] = shelf[i]["proof"]
          /\ \A i \in Ids : shelf'[i]["head"] = shelf[i]["head"]
          /\ shelf'[w.id]["proof"] = imp.carried[w.id].proof /\ imp'.head = imp.head
      BY <1>1, <1>7, <2>4 DEF Writes, Exts
    <3>3. imp.carried[w.id].proof # NoFile /\ w.id \in Carried(imp.carried)
      BY <1>7, <2>4, CarriedIsTaken DEF DeedPut, PairInv
    <3>4. ~Has(w.id, "proof") /\ ~Has(w.id, "head")
      BY <1>5, <3>1 DEF PairInv, PairOK
    <3>5. imp.head # NoFile => imp.carried[w.id].proof.size = imp.head.size
      BY <1>1, <3>3 DEF PairInv, ImpOK, Writes, At
    <3> QED
      BY <2>1, <2>2, <2>4, <3>2, <3>3, <3>4, <3>5 DEF PairInv, PairOK, Has
  <2>5. CASE w.ext \notin {"proof", "head"}
    <3>1. /\ \A i \in Ids : /\ shelf'[i]["proof"] = shelf[i]["proof"]
                            /\ shelf'[i]["head"] = shelf[i]["head"]
          /\ imp'.head = imp.head
      BY <1>1, <2>5 DEF Writes, Exts
    <3> QED
      BY <2>1, <2>2, <2>5, <3>1 DEF PairInv, PairOK, Has
  <2> QED
    BY <2>3, <2>4, <2>5
<1> QED
  BY <1>3, <1>4, <1>6, <1>8, <1>9 DEF PairInv

LEMMA EntryIsLine ==
    ASSUME NEW d \in Deed, NEW t \in Times, d.id \in Ids
    PROVE  Entry(d, t) \in Lines /\ Entry(d, t).id = d.id
  BY DEF Entry, Digest, Lines

(* A line of the log is added for a deed the import carries. *)
LEMMA LogShape ==
    ASSUME SatchelAssumption, ImpOK, ShelfOK, PutsOK, LogLine
    PROVE  \E i \in imp.lines :
               /\ i \in Carried(imp.carried) /\ At("write") /\ imp.files = {}
               /\ log' = Append(log, Entry(Draft[i], SentAt[i]))
               /\ Entry(Draft[i], SentAt[i]) \in Lines
               /\ DOMAIN imp' = Fields /\ imp'.pc = imp.pc /\ imp'.carried = imp.carried
               /\ imp'.head = imp.head /\ imp'.files = imp.files
               /\ imp'.lines = imp.lines \ {i}
<1>1. PICK i \in imp.lines :
          /\ log' = Append(log, imp.carried[i].proof.entry)
          /\ imp' = [imp EXCEPT !.lines = imp.lines \ {i}]
  BY DEF LogLine
<1>2. PICK ls : ls = imp.lines \ {i}
  OBVIOUS
<1>3. imp' = [imp EXCEPT !.lines = ls]
  BY <1>1, <1>2
<1>4. /\ DOMAIN imp' = Fields /\ imp'.pc = imp.pc /\ imp'.carried = imp.carried
      /\ imp'.head = imp.head /\ imp'.files = imp.files /\ imp'.lines = ls
  BY <1>3 DEF ImpOK, Fields
<1>5. At("write") /\ imp.files = {} /\ i \in Carried(imp.carried)
  BY DEF LogLine, PutsOK
<1>6. imp.carried[i].proof.entry = Entry(Draft[i], SentAt[i]) /\ i \in Ids
  BY <1>5, CarriedIsTaken
<1>7. Entry(Draft[i], SentAt[i]) \in Lines
  BY <1>6, FilesAreFiles, EntryIsLine DEF SatchelAssumption
<1> QED
  BY <1>1, <1>2, <1>4, <1>5, <1>6, <1>7

LEMMA LogPair == ASSUME SatchelAssumption, PairInv, LogLine PROVE PairInv'
<1>1. PICK i \in imp.lines :
          /\ i \in Carried(imp.carried) /\ At("write") /\ imp.files = {}
          /\ log' = Append(log, Entry(Draft[i], SentAt[i]))
          /\ Entry(Draft[i], SentAt[i]) \in Lines
          /\ DOMAIN imp' = Fields /\ imp'.pc = imp.pc /\ imp'.carried = imp.carried
          /\ imp'.head = imp.head /\ imp'.files = imp.files
          /\ imp'.lines = imp.lines \ {i}
  BY LogShape DEF PairInv
<1>2. UNCHANGED <<made, tombs, slog, bag, exp, shelf, bytes>>
  BY DEF LogLine, satchelVars, bagVars, senderVars
<1>3. SenderInv' /\ ImpOK'
  BY <1>1, <1>2 DEF PairInv, SenderInv, SenderOK, BagOK, ExpOK, InLog, ImpOK, Taken, At
<1>4. ShelfOK'
  BY <1>1, <1>2 DEF PairInv, ShelfOK, Has, DeedAt, InLog
<1>5. PutsOK' /\ PairOK'
  BY <1>1, <1>2 DEF PairInv, PutsOK, PairOK, Has, Awaits, At
<1> QED
  BY <1>3, <1>4, <1>5 DEF PairInv

-----------------------------------------------------------------------------
(* Steps of other commands on the receiver's store. *)

Creates(d, t, prior) ==
    /\ d \in Deed /\ d.id \in Ids /\ t \in Times /\ prior \in Ids \cup {NoId}
    /\ ~Has(d.id, "cap") /\ prior # d.id
    /\ prior # NoId => Has(prior, "cap") /\ ~Has(prior, "successor")
    /\ DOMAIN shelf' = Ids /\ \A i \in Ids : DOMAIN shelf'[i] = Exts
    /\ shelf'[d.id]["cap"] = d /\ shelf'[d.id]["evidence"] = Created(d, t)
    /\ \A i \in Ids, x \in Exts :
           \/ shelf'[i][x] = shelf[i][x]
           \/ i = d.id /\ x \in {"cap", "evidence", "supersedes"}
           \/ i = prior /\ x = "successor"
    /\ bytes' = bytes \cup {d.body}
    /\ log' = Append(log, Entry(d, t)) /\ Entry(d, t) \in Lines

LEMMA CreateShape ==
    ASSUME SatchelAssumption, HandoverAssumption, ShelfOK,
           NEW r \in Locals, LocalCreate(r)
    PROVE  Creates(r.deed, r.time, r.prior)
<1>1. r.deed \in Deed /\ r.prior \in Ids \cup {NoId} /\ r.time \in Times
  BY DEF HandoverAssumption
<1>2. PICK d, i, prior : d = r.deed /\ i = d.id /\ prior = r.prior
  OBVIOUS
<1>3. i \in Ids
  BY <1>1, <1>2 DEF Deed
<1>4. /\ ~Has(i, "cap") /\ (prior # NoId => Has(prior, "cap") /\ ~Has(prior, "successor"))
      /\ bytes' = bytes \cup {d.body} /\ log' = Append(log, Entry(d, r.time))
      /\ shelf' = [j \in Ids |->
            CASE j = i -> [shelf[j] EXCEPT
                    !["cap"] = d, !["evidence"] = Created(d, r.time),
                    !["supersedes"] = IF prior = NoId THEN @ ELSE IdOnly(prior)]
              [] j = prior -> [shelf[j] EXCEPT !["successor"] = SuccessorFile(i)]
              [] OTHER -> shelf[j]]
  BY <1>2 DEF LocalCreate
<1>5. prior # i
  BY <1>3, <1>4 DEF SatchelAssumption
<1>6. DOMAIN shelf = Ids /\ \A j \in Ids : DOMAIN shelf[j] = Exts
  BY DEF ShelfOK
<1>7. PICK e, f, g : e = Created(d, r.time) /\ f = IdOnly(prior) /\ g = SuccessorFile(i)
  OBVIOUS
<1>8. shelf'[i] = [shelf[i] EXCEPT !["cap"] = d, !["evidence"] = e,
                       !["supersedes"] = IF prior = NoId THEN @ ELSE f]
  <2>1. shelf'[i] = [shelf[i] EXCEPT
                    !["cap"] = d, !["evidence"] = Created(d, r.time),
                    !["supersedes"] = IF prior = NoId THEN @ ELSE IdOnly(prior)]
    BY <1>3, <1>4
  <2> QED
    BY <1>7, <2>1
<1>9. ASSUME prior \in Ids PROVE shelf'[prior] = [shelf[prior] EXCEPT !["successor"] = g]
  BY <1>4, <1>5, <1>7, <1>9
<1>10. \A j \in Ids : j # i /\ j # prior => shelf'[j] = shelf[j]
  BY <1>4
<1>11. /\ DOMAIN shelf' = Ids /\ \A j \in Ids : DOMAIN shelf'[j] = Exts
  <2>1. DOMAIN shelf' = Ids
    BY <1>4
  <2>2. DOMAIN shelf'[i] = Exts
    BY <1>3, <1>6, <1>8
  <2>3. prior \in Ids => DOMAIN shelf'[prior] = Exts
    BY <1>6, <1>9
  <2> QED
    BY <1>6, <1>10, <2>1, <2>2, <2>3
<1>12. shelf'[i]["cap"] = d /\ shelf'[i]["evidence"] = e
  BY <1>3, <1>6, <1>8 DEF Exts
<1>13. \A x \in Exts : shelf'[i][x] = shelf[i][x] \/ x \in {"cap", "evidence", "supersedes"}
  BY <1>3, <1>6, <1>8
<1>14. prior \in Ids => \A x \in Exts : shelf'[prior][x] = shelf[prior][x] \/ x = "successor"
  BY <1>6, <1>9
<1>15. Entry(d, r.time) \in Lines
  BY <1>1, <1>2, <1>3, EntryIsLine
<1>16. \A j \in Ids, x \in Exts :
           \/ shelf'[j][x] = shelf[j][x]
           \/ j = i /\ x \in {"cap", "evidence", "supersedes"}
           \/ j = prior /\ x = "successor"
  BY <1>10, <1>13, <1>14
<1>17. /\ d \in Deed /\ d.id \in Ids /\ r.time \in Times /\ prior \in Ids \cup {NoId}
       /\ ~Has(d.id, "cap") /\ prior # d.id
       /\ prior # NoId => Has(prior, "cap") /\ ~Has(prior, "successor")
  BY <1>1, <1>2, <1>3, <1>4, <1>5
<1>18. /\ shelf'[d.id]["cap"] = d /\ shelf'[d.id]["evidence"] = Created(d, r.time)
       /\ bytes' = bytes \cup {d.body}
       /\ log' = Append(log, Entry(d, r.time)) /\ Entry(d, r.time) \in Lines
  BY <1>2, <1>4, <1>7, <1>12, <1>15
<1>19. Creates(d, r.time, prior)
  BY <1>2, <1>11, <1>16, <1>17, <1>18 DEF Creates
<1> QED
  BY <1>2, <1>19

(* A tomb is set. *)
Deletes(i) ==
    /\ i \in Ids /\ Serves(i)
    /\ DOMAIN shelf' = Ids /\ \A j \in Ids : DOMAIN shelf'[j] = Exts
    /\ \A j \in Ids, x \in Exts : j # i \/ x # "tomb" => shelf'[j][x] = shelf[j][x]
    /\ UNCHANGED <<bytes, log>>

LEMMA DeleteShape ==
    ASSUME ShelfOK, NEW i \in Ids, LocalDelete(i) PROVE Deletes(i)
<1>1. PICK f : f = Tomb
  OBVIOUS
<1>2. shelf' = [shelf EXCEPT ![i]["tomb"] = f] /\ Serves(i) /\ UNCHANGED <<bytes, log>>
  BY <1>1 DEF LocalDelete
<1>3. DOMAIN shelf = Ids /\ \A j \in Ids : DOMAIN shelf[j] = Exts
  BY DEF ShelfOK
<1> QED
  BY <1>2, <1>3 DEF Deletes

(* A line is added for a deed that is served. *)
LEMMA BackfillShape ==
    ASSUME SatchelAssumption, HandoverAssumption, ShelfOK,
           NEW i \in Ids, NEW t \in Nows, Backfill(i, t)
    PROVE  /\ UNCHANGED <<shelf, bytes, imp>> /\ Serves(i)
           /\ \E u \in Times : /\ log' = Append(log, Entry(DeedAt(i), u))
                               /\ EvidencePasses(i) => u = shelf[i]["evidence"].time
                               /\ Entry(DeedAt(i), u) \in Lines
                               /\ Entry(DeedAt(i), u).id = i
<1>1. Serves(i) /\ UNCHANGED <<shelf, bytes, imp>>
  BY DEF Backfill
<1>2. PICK u : u = IF EvidencePasses(i) THEN shelf[i]["evidence"].time ELSE t
  OBVIOUS
<1>3. u \in Times
  <2>1. CASE EvidencePasses(i)
    <3>1. Has(i, "evidence")
      BY <2>1 DEF EvidencePasses, EvidenceLocal, Has
    <3> QED
      BY <1>2, <2>1, <3>1 DEF ShelfOK
  <2>2. CASE ~EvidencePasses(i)
    BY <1>2, <2>2 DEF HandoverAssumption
  <2> QED
    BY <2>1, <2>2
<1>4. log' = Append(log, Entry(DeedAt(i), u))
  BY <1>2 DEF Backfill
<1>5. DeedAt(i) \in Deed /\ DeedAt(i).id = i
  BY <1>1 DEF Serves, ShelfOK
<1>6. Entry(DeedAt(i), u) \in Lines /\ Entry(DeedAt(i), u).id = i
  BY <1>3, <1>5, EntryIsLine
<1>7. EvidencePasses(i) => u = shelf[i]["evidence"].time
  BY <1>2
<1> QED
  BY <1>1, <1>3, <1>4, <1>6, <1>7

(* What these commands leave of a running import. *)
LEMMA LocalFrame ==
    ASSUME ImpOK,
           \/ \E r \in Locals : LocalCreate(r)
           \/ \E i \in Ids : LocalDelete(i) \/ \E t \in Nows : Backfill(i, t)
    PROVE  /\ UNCHANGED <<made, tombs, slog, bag, head, exp>>
           /\ DOMAIN imp' = Fields /\ imp'.pc = imp.pc /\ imp'.carried = imp.carried
           /\ imp'.head = imp.head /\ imp'.files = imp.files /\ imp'.lines = imp.lines
           /\ imp'.signed = imp.signed
<1>1. UNCHANGED <<made, tombs, slog, bag, head, exp>>
  BY DEF LocalCreate, LocalDelete, Backfill, satchelVars, bagVars, senderVars
<1>2. NotAlone \/ imp' = imp
  BY DEF LocalCreate, LocalDelete, Backfill
<1> QED
  BY <1>1, <1>2 DEF NotAlone, ImpOK, Fields

LEMMA LocalPair ==
    ASSUME SatchelAssumption, HandoverAssumption, PairInv, LocalStep PROVE PairInv'
<1> DEFINE Local == \/ \E r \in Locals : LocalCreate(r)
                    \/ \E i \in Ids : LocalDelete(i) \/ \E t \in Nows : Backfill(i, t)
<1>1. Local
  BY DEF LocalStep
<1>2. /\ UNCHANGED <<made, tombs, slog, bag, exp>>
      /\ DOMAIN imp' = Fields /\ imp'.pc = imp.pc /\ imp'.carried = imp.carried
      /\ imp'.head = imp.head /\ imp'.files = imp.files /\ imp'.lines = imp.lines
  BY <1>1, LocalFrame DEF PairInv
<1>3. SenderInv' /\ ImpOK'
  BY <1>2 DEF PairInv, SenderInv, SenderOK, BagOK, ExpOK, InLog, ImpOK, Taken
<1>4. /\ ShelfOK'
      /\ \A i \in Ids : /\ shelf'[i]["proof"] = shelf[i]["proof"]
                        /\ shelf'[i]["head"] = shelf[i]["head"]
  <2>1. ASSUME NEW r \in Locals, LocalCreate(r)
        PROVE  /\ ShelfOK'
               /\ \A i \in Ids : /\ shelf'[i]["proof"] = shelf[i]["proof"]
                                 /\ shelf'[i]["head"] = shelf[i]["head"]
    <3>1. PICK d, t, prior : Creates(d, t, prior)
      BY <2>1, CreateShape DEF PairInv
    <3>2. \A i \in Ids : /\ shelf'[i]["proof"] = shelf[i]["proof"]
                         /\ shelf'[i]["head"] = shelf[i]["head"]
      BY <3>1 DEF Creates, Exts
    <3>3. \A i \in Ids : Has(i, "cap")' => DeedAt(i)' \in Deed /\ DeedAt(i)'.id = i
      <4>1. \A i \in Ids : shelf'[i]["cap"] = shelf[i]["cap"]
                           \/ (i = d.id /\ shelf'[i]["cap"] = d)
        BY <3>1 DEF Creates, Exts
      <4> QED
        BY <3>1, <4>1 DEF Creates, PairInv, ShelfOK, Has, DeedAt
    <3>4. \A i \in Ids : Has(i, "evidence")' =>
              shelf'[i]["evidence"] \in [deed : Deed, time : Times]
      <4>1. Created(d, t) \in [deed : Deed, time : Times]
        BY <3>1 DEF Creates, Created
      <4>2. \A i \in Ids : shelf'[i]["evidence"] = shelf[i]["evidence"]
                           \/ shelf'[i]["evidence"] = Created(d, t)
        BY <3>1 DEF Creates, Exts
      <4> QED
        BY <4>1, <4>2 DEF PairInv, ShelfOK, Has
    <3>5. \A i \in Ids : Has(i, "proof")' =>
              shelf'[i]["proof"] \in Receipts(i) /\ InLog(i, shelf[i]["proof"])'
      BY <1>2, <3>2 DEF PairInv, ShelfOK, Has, InLog
    <3>6. log' \in Seq(Lines)
      BY <3>1 DEF Creates, PairInv, ShelfOK
    <3>7. DOMAIN shelf' = Ids /\ \A i \in Ids : DOMAIN shelf'[i] = Exts
      BY <3>1 DEF Creates
    <3> QED
      BY <3>2, <3>3, <3>4, <3>5, <3>6, <3>7 DEF ShelfOK
  <2>2. ASSUME NEW i \in Ids, LocalDelete(i)
        PROVE  /\ ShelfOK'
               /\ \A j \in Ids : /\ shelf'[j]["proof"] = shelf[j]["proof"]
                                 /\ shelf'[j]["head"] = shelf[j]["head"]
    <3>1. Deletes(i)
      BY <2>2, DeleteShape DEF PairInv
    <3>2. \A j \in Ids : /\ shelf'[j]["proof"] = shelf[j]["proof"]
                         /\ shelf'[j]["head"] = shelf[j]["head"]
                         /\ shelf'[j]["cap"] = shelf[j]["cap"]
                         /\ shelf'[j]["evidence"] = shelf[j]["evidence"]
      BY <3>1 DEF Deletes, Exts
    <3> QED
      BY <1>2, <3>1, <3>2 DEF Deletes, PairInv, ShelfOK, Has, DeedAt, InLog
  <2>3. ASSUME NEW i \in Ids, NEW t \in Nows, Backfill(i, t)
        PROVE  ShelfOK' /\ shelf' = shelf
    <3>1. UNCHANGED shelf /\ \E e \in Lines : log' = Append(log, e)
      BY <2>3, BackfillShape DEF PairInv
    <3> QED
      BY <1>2, <3>1 DEF PairInv, ShelfOK, Has, DeedAt, InLog
  <2> QED
    BY <1>1, <2>1, <2>2, <2>3
<1>5. PutsOK'
  <2>1. \A v : /\ DeedPut(v)' <=> DeedPut(v)
               /\ SupersedesPut(v)' <=> SupersedesPut(v)
               /\ SuccessorPut(v)' <=> SuccessorPut(v)
    BY <1>2 DEF DeedPut, SupersedesPut, SuccessorPut, DeedFile
  <2> QED
    BY <1>2, <2>1 DEF PairInv, PutsOK, At
<1>6. PairOK'
  BY <1>2, <1>4 DEF PairInv, PairOK, Has, Awaits
<1> QED
  BY <1>3, <1>4, <1>5, <1>6 DEF PairInv

-----------------------------------------------------------------------------
(* The pair of a receipt and its head. *)

LEMMA InitPair == ASSUME SatchelAssumption, Init PROVE PairInv
<1>1. SenderInv
  BY SatchelInitInv DEF Init
<1>2. ImpOK
  BY NoImportOK DEF Init, ImpOK
<1>3. \A i \in Ids, x \in Exts : shelf[i][x] = NoFile
  BY DEF Init
<1>4. ShelfOK
  BY <1>3 DEF Init, ShelfOK, Has, Exts
<1>5. PutsOK
  BY NoImportOK DEF Init, PutsOK, At
<1>6. PairOK
  BY <1>3, NoImportOK DEF Init, PairOK, Has, Awaits, Exts
<1> QED
  BY <1>1, <1>2, <1>4, <1>5, <1>6 DEF PairInv

LEMMA NextPair ==
    ASSUME SatchelAssumption, HandoverAssumption, PairInv, [Next]_vars PROVE PairInv'
<1>1. CASE SenderStep
  BY <1>1, SenderPair
<1>2. CASE LocalStep
  BY <1>2, LocalPair
<1>3. CASE ImportStep
  BY <1>3, ReadPair, PlanPair, WritePair, LogPair DEF ImportStep
<1>4. CASE UNCHANGED vars
  <2>1. UNCHANGED <<made, tombs, slog, bag, exp, shelf, bytes, log, imp>>
    BY <1>4 DEF vars, satchelVars, bagVars, senderVars, storeVars
  <2>2. SenderInv' /\ ImpOK'
    BY <2>1 DEF PairInv, SenderInv, SenderOK, BagOK, ExpOK, InLog, ImpOK, Taken
  <2>3. ShelfOK' /\ PairOK'
    BY <2>1 DEF PairInv, ShelfOK, PairOK, Has, DeedAt, InLog, Awaits
  <2>4. PutsOK'
    BY <2>1 DEF PairInv, PutsOK, At, DeedPut, SupersedesPut, SuccessorPut, DeedFile
  <2> QED
    BY <2>2, <2>3, <2>4 DEF PairInv
<1> QED
  BY <1>1, <1>2, <1>3, <1>4 DEF Next

(* What an import reads, checks and plans, at any step and whatever the sender
   exports, deletes or loses meanwhile: import_handover, check_handover and
   plan_import, and the sender's export_files. *)
THEOREM PairInvariant == Spec => []PairInv
<1>1. Init => PairInv
  BY InitPair, SatchelAssumption
<1>2. PairInv /\ [Next]_vars => PairInv'
  BY NextPair, SatchelAssumption, HandoverAssumption
<1> QED
  BY <1>1, <1>2, PTL DEF Spec

(* A head is kept only beside the receipt that is against it, for any number of
   imports, stopped between the two files or not (Plan::put_head). *)
THEOREM HeadGoesWithReceipt == Spec => []KeptPairAgrees
<1>1. PairInv => KeptPairAgrees
  BY DEF PairInv, PairOK, KeptPairAgrees
<1> QED
  BY <1>1, PairInvariant, PTL

-----------------------------------------------------------------------------
(* What the store holds is not replaced. *)

(* A deed is there before anything else is kept of it... *)
CapFirst == \A i \in Ids, x \in Exts : Has(i, x) => Has(i, "cap")

(* ...what is still to be written is not there... *)
FreeOK ==
    \A w \in imp.files :
        /\ w.id \in Carried(imp.carried) \/ Has(w.id, "cap")
        /\ w.ext # "bytes" =>
               \/ shelf[w.id][w.ext] = NoFile
               \/ w.ext = "supersedes" /\ shelf[w.id][w.ext] = IdOnly(w.file.id)

(* ...and what is not to be written any more is. *)
DueOK ==
    At("write") => \A i \in Carried(imp.carried) :
        /\ shelf[i]["cap"] = Draft[i] \/ Awaits(i, "cap")
        /\ shelf[i]["evidence"] = Created(Draft[i], SentAt[i]) \/ Awaits(i, "evidence")
        /\ Draft[i].body \in bytes \/ Awaits(i, "bytes")

HeldInv == PairInv /\ CapFirst /\ FreeOK /\ DueOK

Kept ==
    \A i \in Ids, x \in Exts :
        Has(i, x) => \/ shelf'[i][x] = shelf[i][x]
                     \/ x = "supersedes" /\ shelf[i][x] = IdOnly(shelf'[i][x].id)

(* Steps that leave the shelf alone. *)
LEMMA ShelfStays ==
    ASSUME \/ SenderStep \/ LogLine \/ PlanImport \/ UNCHANGED vars
           \/ ImportBegin \/ CheckLinks \/ ReadHead
           \/ \E i \in Ids : CheckFolder(i) \/ ReadFolder(i)
           \/ \E allow \in BOOLEAN : Compare(allow)
           \/ ImportDone \/ ImportStop
    PROVE  UNCHANGED <<shelf, bytes>>
  BY DEF SenderStep, LogLine, PlanImport, ImportBegin, CheckLinks, ReadHead, CheckFolder,
         ReadFolder, Compare, ImportDone, ImportStop, OnlyImport, vars, storeVars

LEMMA WriteKeeps ==
    ASSUME SatchelAssumption, HeldInv, NEW w \in imp.files, Writes(w) PROVE Kept
<1>1. ASSUME NEW i \in Ids, NEW x \in Exts, Has(i, x), shelf'[i][x] # shelf[i][x]
      PROVE  x = "supersedes" /\ shelf[i][x] = IdOnly(shelf'[i][x].id)
  <2>1. w.ext # "bytes" /\ i = w.id /\ x = w.ext /\ shelf'[i][x] = w.file
    BY <1>1 DEF Writes
  <2> QED
    BY <1>1, <2>1 DEF HeldInv, FreeOK, Has
<1> QED
  BY <1>1 DEF Kept

LEMMA CreateKeeps ==
    ASSUME SatchelAssumption, HeldInv, NEW d, NEW t, NEW prior, Creates(d, t, prior)
    PROVE  Kept
<1>1. ASSUME NEW i \in Ids, NEW x \in Exts, Has(i, x) PROVE shelf'[i][x] = shelf[i][x]
  <2>1. i # d.id
    BY <1>1 DEF HeldInv, CapFirst, Creates
  <2>2. ~(i = prior /\ x = "successor")
    BY <1>1 DEF Creates, SatchelAssumption
  <2> QED
    BY <2>1, <2>2 DEF Creates
<1> QED
  BY <1>1 DEF Kept

LEMMA DeleteKeeps == ASSUME NEW i, Deletes(i) PROVE Kept
  BY DEF Deletes, Serves, Kept, Has

LEMMA NextKeeps ==
    ASSUME SatchelAssumption, HandoverAssumption, HeldInv, [Next]_vars PROVE Kept
<1>1. CASE UNCHANGED shelf
  BY <1>1 DEF Kept
<1>2. CASE WriteFile
  BY <1>2, WriteShape, WriteKeeps DEF HeldInv, PairInv
<1>3. ASSUME NEW r \in Locals, LocalCreate(r) PROVE Kept
  BY <1>3, CreateShape, CreateKeeps DEF HeldInv, PairInv
<1>4. ASSUME NEW i \in Ids, LocalDelete(i) PROVE Kept
  BY <1>4, DeleteShape, DeleteKeeps DEF HeldInv, PairInv
<1>5. ASSUME NEW i \in Ids, NEW t \in Nows, Backfill(i, t) PROVE Kept
  BY <1>1, <1>5 DEF Backfill
<1> QED
  BY <1>1, <1>2, <1>3, <1>4, <1>5, ShelfStays DEF Next, ImportStep, LocalStep

LEMMA IdleHeld ==
    ASSUME PairInv', CapFirst, UNCHANGED shelf, imp'.pc # "write"
    PROVE  HeldInv'
<1>1. CapFirst'
  BY DEF CapFirst, Has
<1>2. imp'.files = {}
  BY DEF PairInv, PutsOK, At
<1> QED
  BY <1>1, <1>2 DEF HeldInv, FreeOK, DueOK, At

LEMMA PlanHeld == ASSUME SatchelAssumption, HeldInv, PlanImport PROVE HeldInv'
<1>1. PairInv' /\ UNCHANGED <<shelf, bytes>> /\ imp.pc = "plan"
  BY PlanPair, ShelfStays DEF HeldInv, PlanImport, At
<1>2. CASE Refuse
  BY <1>1, <1>2, RefuseOK, IdleHeld DEF HeldInv
<1>3. CASE ~Refuse
  <2>1. CanHold(imp.carried, imp.head)
    BY <1>1, <1>3 DEF PlanImport
  <2>2. PICK w0 : w0 = Files(imp.carried, imp.head)
    OBVIOUS
  <2>3. PICK l0 : l0 = ToLog(imp.carried)
    OBVIOUS
  <2>4. imp' = [imp EXCEPT !.pc = "write", !.todo = {}, !.proven = {},
                           !.signed = NoFile, !.size = 0, !.files = w0, !.lines = l0]
    BY <1>1, <1>3, <2>2, <2>3 DEF PlanImport
  <2>5. imp'.carried = imp.carried /\ imp'.files = w0 /\ imp'.pc = "write"
    BY <2>4 DEF HeldInv, PairInv, ImpOK, Fields
  <2>6. FreeOK'
    <3>1. ASSUME NEW w \in w0
          PROVE  /\ w.id \in Carried(imp.carried) \/ Has(w.id, "cap")
                 /\ w.ext # "bytes" =>
                        \/ shelf[w.id][w.ext] = NoFile
                        \/ w.ext = "supersedes" /\ shelf[w.id][w.ext] = IdOnly(w.file.id)
      <4>1. CASE \E i \in Carried(imp.carried) : w \in DeedPuts(i, imp.carried[i], imp.head)
        BY <4>1, DeedsPlanned DEF HeldInv, PairInv, Has
      <4>2. CASE w \in LinkPuts(imp.carried)
        BY <2>1, <4>2, LinksPlanned DEF CanHold, Serves
      <4> QED
        BY <2>2, <3>1, <4>1, <4>2, FilesAre
    <3> QED
      BY <1>1, <2>5, <3>1 DEF FreeOK, Has
  <2>7. DueOK'
    <3>1. ASSUME NEW i \in Carried(imp.carried)
          PROVE  /\ \/ shelf[i]["cap"] = Draft[i]
                    \/ \E w \in w0 : w.id = i /\ w.ext = "cap"
                 /\ \/ shelf[i]["evidence"] = Created(Draft[i], SentAt[i])
                    \/ \E w \in w0 : w.id = i /\ w.ext = "evidence"
                 /\ \/ Draft[i].body \in bytes
                    \/ \E w \in w0 : w.id = i /\ w.ext = "bytes"
      <4>1. DeedFits(i, imp.carried[i], imp.head)
        BY <2>1 DEF CanHold
      <4>2. DeedPuts(i, imp.carried[i], imp.head) \subseteq w0
        BY <2>2, FilesAre
      <4> QED
        BY <4>1, <4>2, PlanComplete DEF HeldInv, PairInv
    <3> QED
      BY <1>1, <2>5, <3>1 DEF DueOK, Awaits
  <2>8. CapFirst'
    BY <1>1 DEF HeldInv, CapFirst, Has
  <2> QED
    BY <1>1, <2>6, <2>7, <2>8 DEF HeldInv
<1> QED
  BY <1>2, <1>3

LEMMA WriteHeld == ASSUME SatchelAssumption, HeldInv, WriteFile PROVE HeldInv'
<1>1. PICK w \in imp.files : Writes(w)
  BY WriteShape DEF HeldInv, PairInv
<1>2. PairInv' /\ Kept
  BY <1>1, WritePair, WriteKeeps DEF HeldInv
<1>3. ImpOK /\ PutsOK /\ At("write") /\ w.id \in Ids
  BY <1>1 DEF HeldInv, PairInv, Writes
<1>4. DeedPut(w) \/ SupersedesPut(w) \/ SuccessorPut(w)
  BY <1>3 DEF PutsOK
<1>5. \A v \in imp'.files : v \in imp.files /\ ~(v.id = w.id /\ v.ext = w.ext)
  BY <1>1, <1>3, PutsDiffer DEF Writes
<1>6. \A i, x : Awaits(i, x) => Awaits(i, x)' \/ (i = w.id /\ x = w.ext)
  BY <1>1 DEF Awaits, Writes
<1>7. ASSUME w.ext # "cap" PROVE Has(w.id, "cap")
  <2>1. CASE w.id \in Carried(imp.carried)
    <3>1. ASSUME NEW v \in imp.files, v.id = w.id, v.ext = "cap" PROVE FALSE
      <4>1. DeedPut(v)
        BY <1>3, <3>1 DEF PutsOK, SupersedesPut, SuccessorPut
      <4>2. DeedPut(w) /\ Rank(w.ext) <= Rank(v.ext)
        BY <1>1, <1>3, <3>1, <4>1, DeedsFirst DEF Writes
      <4> QED
        BY <1>7, <3>1, <4>2 DEF Rank, DeedPut, DeedExts
    <3>2. ~Awaits(w.id, "cap")
      BY <3>1 DEF Awaits
    <3>3. shelf[w.id]["cap"] = Draft[w.id]
      BY <1>3, <2>1, <3>2 DEF HeldInv, DueOK
    <3> QED
      BY <1>3, <3>3, FilesAreFiles DEF Has
  <2>2. CASE w.id \notin Carried(imp.carried)
    BY <2>2 DEF HeldInv, FreeOK
  <2> QED
    BY <2>1, <2>2
<1>8. CASE w.ext = "bytes"
  <2>1. shelf' = shelf /\ bytes' = bytes \cup {w.file.raw} /\ imp'.carried = imp.carried
    BY <1>1, <1>8 DEF Writes
  <2>2. CapFirst'
    BY <2>1 DEF HeldInv, CapFirst, Has
  <2>3. FreeOK'
    BY <1>5, <2>1 DEF HeldInv, FreeOK, Has
  <2>4. w.file.raw = Draft[w.id].body
    BY <1>4, <1>8 DEF DeedPut, DeedFile, SupersedesPut, SuccessorPut
  <2>5. DueOK'
    BY <1>3, <1>6, <1>8, <2>1, <2>4 DEF HeldInv, DueOK
  <2> QED
    BY <1>2, <2>2, <2>3, <2>5 DEF HeldInv
<1>9. CASE w.ext # "bytes"
  <2>1. /\ imp'.carried = imp.carried /\ bytes' = bytes
        /\ shelf'[w.id][w.ext] = w.file /\ w.ext \in Exts
        /\ \A i \in Ids, x \in Exts : i # w.id \/ x # w.ext => shelf'[i][x] = shelf[i][x]
    BY <1>1, <1>9 DEF Writes
  <2>2. w.ext = "cap" => w.file = Draft[w.id] /\ w.file # NoFile
    BY <1>3, <1>4, FilesAreFiles DEF DeedPut, DeedFile, SupersedesPut, SuccessorPut
  <2>3. w.ext = "evidence" => w.file = Created(Draft[w.id], SentAt[w.id])
    BY <1>4 DEF DeedPut, DeedFile, SupersedesPut, SuccessorPut
  <2>4. \A i \in Ids : Has(i, "cap") => Has(i, "cap")'
    BY <1>2, <2>1, <2>2 DEF Kept, Has, Exts
  <2>5. CapFirst'
    <3>1. ASSUME NEW i \in Ids, NEW x \in Exts, Has(i, x)' PROVE Has(i, "cap")'
      <4>1. CASE i = w.id /\ x = w.ext
        <5>1. CASE w.ext = "cap"
          BY <2>1, <2>2, <4>1, <5>1 DEF Has
        <5>2. CASE w.ext # "cap"
          BY <1>7, <2>4, <4>1, <5>2
        <5> QED
          BY <5>1, <5>2
      <4>2. CASE ~(i = w.id /\ x = w.ext)
        <5>1. Has(i, x)
          BY <2>1, <3>1, <4>2 DEF Has
        <5> QED
          BY <2>4, <5>1 DEF HeldInv, CapFirst
      <4> QED
        BY <4>1, <4>2
    <3> QED
      BY <3>1 DEF CapFirst
  <2>6. FreeOK'
    <3>1. ASSUME NEW v \in imp'.files
          PROVE  /\ v.id \in Carried(imp.carried) \/ Has(v.id, "cap")'
                 /\ v.ext # "bytes" =>
                        \/ shelf'[v.id][v.ext] = NoFile
                        \/ v.ext = "supersedes" /\ shelf'[v.id][v.ext] = IdOnly(v.file.id)
      <4>1. v \in imp.files /\ ~(v.id = w.id /\ v.ext = w.ext)
        BY <1>5, <3>1
      <4>2. v.id \in Ids /\ (v.ext = "bytes" \/ v.ext \in Exts)
        <5>1. CASE DeedPut(v)
          BY <1>3, <5>1, CarriedIsTaken DEF DeedPut, DeedExts, Exts
        <5>2. CASE SupersedesPut(v)
          BY <1>3, <5>2, LinkPairsNameIds DEF SupersedesPut, Exts
        <5>3. CASE SuccessorPut(v)
          BY <1>3, <5>3, LinkPairsNameIds DEF SuccessorPut, Exts
        <5> QED
          BY <1>3, <4>1, <5>1, <5>2, <5>3 DEF PutsOK
      <4>3. v.id \in Carried(imp.carried) \/ Has(v.id, "cap")'
        BY <2>4, <4>1, <4>2 DEF HeldInv, FreeOK
      <4>4. v.ext # "bytes" => shelf'[v.id][v.ext] = shelf[v.id][v.ext]
        BY <2>1, <4>1, <4>2
      <4> QED
        BY <4>1, <4>3, <4>4 DEF HeldInv, FreeOK
    <3> QED
      BY <2>1, <3>1 DEF FreeOK
  <2>7. DueOK'
    <3>1. ASSUME NEW i \in Carried(imp.carried)
          PROVE  /\ shelf'[i]["cap"] = Draft[i] \/ Awaits(i, "cap")'
                 /\ shelf'[i]["evidence"] = Created(Draft[i], SentAt[i])
                    \/ Awaits(i, "evidence")'
                 /\ Draft[i].body \in bytes \/ Awaits(i, "bytes")'
      <4>1. i \in Ids
        BY <1>3, CarriedIsTaken
      <4>2. /\ shelf[i]["cap"] = Draft[i] \/ Awaits(i, "cap")
            /\ shelf[i]["evidence"] = Created(Draft[i], SentAt[i]) \/ Awaits(i, "evidence")
            /\ Draft[i].body \in bytes \/ Awaits(i, "bytes")
        BY <1>3 DEF HeldInv, DueOK
      <4>3. /\ shelf'[i]["cap"] = shelf[i]["cap"] \/ (i = w.id /\ w.ext = "cap")
            /\ shelf'[i]["evidence"] = shelf[i]["evidence"] \/ (i = w.id /\ w.ext = "evidence")
        BY <2>1, <4>1 DEF Exts
      <4> QED
        BY <1>6, <1>9, <2>1, <2>2, <2>3, <4>2, <4>3
    <3> QED
      BY <2>1, <3>1 DEF DueOK
  <2> QED
    BY <1>2, <2>5, <2>6, <2>7 DEF HeldInv
<1> QED
  BY <1>8, <1>9

(* The ids of the files to be written. *)
LEMMA PutsNameIds ==
    ASSUME SatchelAssumption, ImpOK, PutsOK, NEW w \in imp.files
    PROVE  w.id \in Ids /\ (w.ext = "bytes" \/ w.ext \in Exts) /\ w.ext # "tomb"
<1>1. CASE DeedPut(w)
  BY <1>1, CarriedIsTaken DEF DeedPut, DeedExts, Exts
<1>2. CASE SupersedesPut(w)
  BY <1>2, LinkPairsNameIds DEF SupersedesPut, Exts
<1>3. CASE SuccessorPut(w)
  BY <1>3, LinkPairsNameIds DEF SuccessorPut, Exts
<1> QED
  BY <1>1, <1>2, <1>3 DEF PutsOK

LEMMA LogHeld == ASSUME SatchelAssumption, HeldInv, LogLine PROVE HeldInv'
<1>1. /\ imp'.carried = imp.carried /\ imp'.files = {} /\ imp'.pc = imp.pc
      /\ imp.files = {} /\ UNCHANGED <<shelf, bytes>>
  BY LogShape, ShelfStays DEF HeldInv, PairInv
<1>2. PairInv'
  BY LogPair DEF HeldInv
<1> QED
  BY <1>1, <1>2 DEF HeldInv, CapFirst, FreeOK, DueOK, Has, Awaits, At

(* While an import writes, a create beside it is of another deed, and beside
   another one than the import links. *)
LEMMA LocalHeld ==
    ASSUME SatchelAssumption, HandoverAssumption, Apart, HeldInv, LocalStep PROVE HeldInv'
<1>1. PairInv' /\ Kept
  BY LocalPair, NextKeeps DEF HeldInv, Next
<1>2. /\ imp'.pc = imp.pc /\ imp'.carried = imp.carried
      /\ imp'.head = imp.head /\ imp'.files = imp.files
  BY LocalFrame DEF HeldInv, PairInv, LocalStep
<1>3. ImpOK /\ PutsOK /\ ShelfOK
  BY DEF HeldInv, PairInv
<1>4. \A i \in Ids : Has(i, "cap") => shelf'[i]["cap"] = shelf[i]["cap"] /\ Has(i, "cap")'
  BY <1>1 DEF Kept, Has, Exts
<1>5. \A i \in Ids : Has(i, "evidence") => shelf'[i]["evidence"] = shelf[i]["evidence"]
  BY <1>1 DEF Kept, Has, Exts
<1>6. bytes \subseteq bytes'
  BY CreateShape, DeleteShape, BackfillShape, <1>3 DEF LocalStep, Creates, Deletes
<1>7. DueOK'
  <2>1. ASSUME At("write"), NEW i \in Carried(imp.carried)
        PROVE  /\ shelf'[i]["cap"] = Draft[i] \/ Awaits(i, "cap")
               /\ shelf'[i]["evidence"] = Created(Draft[i], SentAt[i]) \/ Awaits(i, "evidence")
               /\ Draft[i].body \in bytes' \/ Awaits(i, "bytes")
    <3>1. i \in Ids
      BY <1>3, CarriedIsTaken
    <3>2. Draft[i] # NoFile /\ Created(Draft[i], SentAt[i]) # NoFile
      BY <3>1, FilesAreFiles
    <3> QED
      BY <1>4, <1>5, <1>6, <2>1, <3>1, <3>2 DEF HeldInv, DueOK, Has
  <2> QED
    BY <1>2, <2>1 DEF DueOK, Awaits, At
<1>8. CapFirst' /\ FreeOK'
  <2>1. ASSUME NEW r \in Locals, LocalCreate(r) PROVE CapFirst' /\ FreeOK'
    <3>1. PICK d, t, prior : Creates(d, t, prior) /\ d = r.deed /\ prior = r.prior
      BY <1>3, <2>1, CreateShape
    <3>2. CapFirst'
      <4>1. ASSUME NEW i \in Ids, NEW x \in Exts, Has(i, x)' PROVE Has(i, "cap")'
        <5>1. CASE i = d.id
          <6>1. d # NoFile
            BY <3>1, FilesAreFiles DEF Creates
          <6> QED
            BY <3>1, <5>1, <6>1 DEF Creates, Has
        <5>2. CASE i = prior
          BY <1>4, <3>1, <5>2 DEF Creates, SatchelAssumption
        <5>3. CASE i # d.id /\ i # prior
          <6>1. Has(i, x)
            BY <3>1, <4>1, <5>3 DEF Creates, Has
          <6> QED
            BY <1>4, <6>1 DEF HeldInv, CapFirst
        <5> QED
          BY <5>1, <5>2, <5>3
      <4> QED
        BY <4>1 DEF CapFirst
    <3>3. FreeOK'
      <4>1. ASSUME NEW w \in imp.files
            PROVE  /\ w.id \in Carried(imp.carried) \/ Has(w.id, "cap")'
                   /\ w.ext # "bytes" => shelf'[w.id][w.ext] = shelf[w.id][w.ext]
        <5>1. At("write") /\ w.id \in Ids /\ (w.ext = "bytes" \/ w.ext \in Exts)
          BY <1>3, PutsNameIds DEF PutsOK
        <5>2. d.id \notin Carried(imp.carried) /\ ~(w.id = prior /\ w.ext = "successor")
          BY <2>1, <3>1, <5>1 DEF LocalCreate, Writing, WritesSuccessor
        <5>3. w.id \in Carried(imp.carried) \/ Has(w.id, "cap")
          BY DEF HeldInv, FreeOK
        <5>4. w.id # d.id
          BY <3>1, <5>2, <5>3 DEF Creates
        <5> QED
          BY <1>4, <3>1, <5>1, <5>2, <5>3, <5>4 DEF Creates
      <4> QED
        BY <1>2, <4>1 DEF HeldInv, FreeOK
    <3> QED
      BY <3>2, <3>3
  <2>2. ASSUME NEW i \in Ids, LocalDelete(i) PROVE CapFirst' /\ FreeOK'
    <3>1. Deletes(i)
      BY <1>3, <2>2, DeleteShape
    <3>2. CapFirst'
      <4>1. ASSUME NEW j \in Ids, NEW x \in Exts, Has(j, x)' PROVE Has(j, "cap")'
        <5>1. CASE j = i
          BY <1>4, <3>1, <5>1 DEF Deletes, Serves
        <5>2. CASE j # i
          <6>1. Has(j, x)
            BY <3>1, <4>1, <5>2 DEF Deletes, Has
          <6> QED
            BY <1>4, <6>1 DEF HeldInv, CapFirst
        <5> QED
          BY <5>1, <5>2
      <4> QED
        BY <4>1 DEF CapFirst
    <3>3. FreeOK'
      <4>1. ASSUME NEW w \in imp.files
            PROVE  /\ w.id \in Carried(imp.carried) \/ Has(w.id, "cap")'
                   /\ w.ext # "bytes" => shelf'[w.id][w.ext] = shelf[w.id][w.ext]
        <5>1. w.id \in Ids /\ (w.ext = "bytes" \/ w.ext \in Exts) /\ w.ext # "tomb"
          BY <1>3, PutsNameIds
        <5>2. w.id \in Carried(imp.carried) \/ Has(w.id, "cap")
          BY DEF HeldInv, FreeOK
        <5>3. ASSUME w.ext # "bytes" PROVE shelf'[w.id][w.ext] = shelf[w.id][w.ext]
          <6>1. \A j \in Ids, x \in Exts :
                    j # i \/ x # "tomb" => shelf'[j][x] = shelf[j][x]
            BY <3>1 DEF Deletes
          <6>2. w.ext \in Exts
            BY <5>1, <5>3
          <6> QED
            BY <5>1, <6>1, <6>2
        <5>4. Has(w.id, "cap") => Has(w.id, "cap")'
          BY <1>4, <5>1
        <5> QED
          BY <5>2, <5>3, <5>4
      <4> QED
        BY <1>2, <4>1 DEF HeldInv, FreeOK
    <3> QED
      BY <3>2, <3>3
  <2>3. ASSUME NEW i \in Ids, NEW t \in Nows, Backfill(i, t) PROVE CapFirst' /\ FreeOK'
    BY <1>2, <2>3 DEF Backfill, HeldInv, CapFirst, FreeOK, Has
  <2> QED
    BY <2>1, <2>2, <2>3 DEF LocalStep
<1> QED
  BY <1>1, <1>7, <1>8 DEF HeldInv

LEMMA NextHeld ==
    ASSUME SatchelAssumption, HandoverAssumption, Apart, HeldInv, [Next]_vars PROVE HeldInv'
<1>1. PairInv'
  BY NextPair DEF HeldInv
<1>2. CASE SenderStep
  <2>1. UNCHANGED <<shelf, imp>> /\ imp'.pc # "write"
    BY <1>2 DEF SenderStep, storeVars
  <2> QED
    BY <1>1, <2>1, IdleHeld DEF HeldInv
<1>3. CASE \/ ImportBegin \/ CheckLinks \/ ReadHead
           \/ \E i \in Ids : CheckFolder(i) \/ ReadFolder(i)
           \/ \E allow \in BOOLEAN : Compare(allow)
           \/ ImportDone \/ ImportStop
  BY <1>3, ReadPair, ShelfStays, IdleHeld DEF HeldInv
<1>4. CASE UNCHANGED vars
  <2>1. UNCHANGED <<shelf, bytes, imp>>
    BY <1>4 DEF vars, storeVars
  <2> QED
    BY <1>1, <2>1 DEF HeldInv, CapFirst, FreeOK, DueOK, Has, Awaits, At
<1> QED
  BY <1>2, <1>3, <1>4, PlanHeld, WriteHeld, LogHeld, LocalHeld DEF Next, ImportStep

LEMMA InitHeld == ASSUME SatchelAssumption, Init PROVE HeldInv
<1>1. PairInv
  BY InitPair
<1>2. \A i \in Ids, x \in Exts : ~Has(i, x)
  BY DEF Init, Has
<1> QED
  BY <1>1, <1>2, NoImportOK DEF HeldInv, CapFirst, FreeOK, DueOK, Init, At

(* What an import is about to write is not there yet, at any step of an import
   beside other commands that create other deeds (plan_import, atomic_write). *)
THEOREM HeldInvariant == ASSUME Apart PROVE Spec => []HeldInv
<1>1. Init => HeldInv
  BY InitHeld, SatchelAssumption
<1>2. HeldInv /\ [Next]_vars => HeldInv'
  BY NextHeld, SatchelAssumption, HandoverAssumption
<1> QED
  BY <1>1, <1>2, PTL DEF Spec

(* No step replaces a file the store holds: only a supersedes file that names a
   deed without its digest is completed (Plan::put and Plan::link). *)
THEOREM NothingIsReplaced == ASSUME Apart PROVE Spec => HeldIsKept
<1>1. HeldInv /\ [Next]_vars =>
          [\A i \in Ids, x \in Exts :
              Has(i, x) => \/ shelf'[i][x] = shelf[i][x]
                           \/ x = "supersedes" /\ shelf[i][x] = IdOnly(shelf'[i][x].id)]_vars
  BY NextKeeps, SatchelAssumption, HandoverAssumption DEF Kept
<1> QED
  BY <1>1, HeldInvariant, PTL DEF Spec, HeldIsKept

-----------------------------------------------------------------------------
(* What is imported is what was sent, and the log never runs ahead. *)

(* Evidence is of the deed beside it... *)
EvidenceOwn == \A i \in Ids : Has(i, "evidence") => shelf[i]["evidence"].deed = DeedAt(i)

(* ...and beside a receipt lies what the sender logged. *)
ProofLanded ==
    \A i \in Ids : Has(i, "proof") =>
        DeedAt(i) = Draft[i] /\ shelf[i]["evidence"] = Created(Draft[i], SentAt[i])

LandInv == HeldInv /\ EvidenceOwn /\ ProofLanded /\ LinesComeLast

Covered(e) ==
    /\ Digest(DeedAt(e.id)) = e.digest
    /\ shelf[e.id]["evidence"] = Created(DeedAt(e.id), e.time)
    /\ DeedAt(e.id).body \in bytes

(* Deeds and evidence that are there stay as they are. *)
LEMMA RecordsKept ==
    ASSUME Kept, NEW i \in Ids
    PROVE  /\ Has(i, "cap") => DeedAt(i)' = DeedAt(i)
           /\ Has(i, "evidence") => shelf'[i]["evidence"] = shelf[i]["evidence"]
  BY DEF Kept, Has, DeedAt, Exts

(* What a line was logged of stays. *)
LEMMA LinesStay ==
    ASSUME SatchelAssumption, LandInv, Kept, bytes \subseteq bytes', NEW k \in 1..Len(log)
    PROVE  \E e \in Lines : e = log[k] /\ Covered(e)'
<1>1. log[k] \in Lines
  BY DEF LandInv, HeldInv, PairInv, ShelfOK
<1>2. PICK e \in Lines : e = log[k]
  BY <1>1
<1>3. e.id \in Ids
  BY <1>2 DEF Lines
<1>4. Covered(e)
  BY <1>2 DEF LandInv, LinesComeLast, Covered
<1>5. Has(e.id, "evidence")
  BY <1>4, FilesAreFiles DEF Covered, Has
<1>6. Has(e.id, "cap")
  BY <1>3, <1>5 DEF LandInv, HeldInv, CapFirst, Exts
<1>7. DeedAt(e.id)' = DeedAt(e.id) /\ shelf'[e.id]["evidence"] = shelf[e.id]["evidence"]
  BY <1>3, <1>5, <1>6, RecordsKept
<1>8. Covered(e)'
  BY <1>4, <1>7 DEF Covered
<1> QED
  BY <1>2, <1>8

(* The log grows by one line at most, and that one is covered. *)
LEMMA LogGrows ==
    ASSUME SatchelAssumption, LandInv, Kept, bytes \subseteq bytes',
           \/ log' = log
           \/ \E e \in Lines : log' = Append(log, e) /\ Covered(e)'
    PROVE  LinesComeLast'
<1>1. log \in Seq(Lines)
  BY DEF LandInv, HeldInv, PairInv, ShelfOK
<1>2. ASSUME NEW k \in 1..Len(log') PROVE \E e \in Lines : e = log'[k] /\ Covered(e)'
  <2>1. CASE k \in 1..Len(log)
    <3>1. log'[k] = log[k]
      BY <1>1, <2>1
    <3> QED
      BY <2>1, <3>1, LinesStay
  <2>2. CASE k \notin 1..Len(log)
    <3>1. PICK e \in Lines : log' = Append(log, e) /\ Covered(e)'
      BY <1>2, <2>2
    <3>2. k = Len(log) + 1
      BY <1>1, <1>2, <2>2, <3>1
    <3>3. log'[k] = e
      BY <1>1, <3>1, <3>2
    <3> QED
      BY <3>1, <3>3
  <2> QED
    BY <2>1, <2>2
<1>3. ASSUME NEW k \in 1..Len(log')
      PROVE  /\ Digest(DeedAt(log[k].id))' = log'[k].digest
             /\ shelf'[log'[k].id]["evidence"] = Created(DeedAt(log[k].id)', log'[k].time)
             /\ DeedAt(log[k].id)'.body \in bytes'
  <2>1. PICK e \in Lines : e = log'[k] /\ Covered(e)'
    BY <1>2
  <2> QED
    BY <2>1 DEF Covered, DeedAt
<1> QED
  BY <1>3 DEF LinesComeLast

LEMMA QuietLand ==
    ASSUME SatchelAssumption, LandInv, HeldInv', UNCHANGED <<shelf, bytes, log>>
    PROVE  LandInv'
<1>1. EvidenceOwn' /\ ProofLanded'
  BY DEF LandInv, EvidenceOwn, ProofLanded, Has, DeedAt
<1>2. Kept /\ bytes \subseteq bytes'
  BY DEF Kept
<1> QED
  BY <1>1, <1>2, LogGrows DEF LandInv

LEMMA WriteLand ==
    ASSUME SatchelAssumption, LandInv, HeldInv', WriteFile PROVE LandInv'
<1>1. PICK w \in imp.files : Writes(w)
  BY WriteShape DEF LandInv, HeldInv, PairInv
<1>2. Kept
  BY <1>1, WriteKeeps DEF LandInv
<1>3. log' = log /\ bytes \subseteq bytes'
  BY <1>1 DEF Writes, WriteFile
<1>4. ImpOK /\ PutsOK /\ At("write") /\ w.id \in Ids
  BY <1>1 DEF LandInv, HeldInv, PairInv, Writes
<1>5. LinesComeLast'
  BY <1>2, <1>3, LogGrows
<1>6. DeedPut(w) \/ SupersedesPut(w) \/ SuccessorPut(w)
  BY <1>4 DEF PutsOK
<1>7. ASSUME NEW x \in {"cap", "evidence"}, w.ext \in {"evidence", "proof"}, w.ext # x
      PROVE  ~Awaits(w.id, x)
  <2>1. ASSUME NEW v \in imp.files, v.id = w.id, v.ext = x PROVE FALSE
    <3>1. DeedPut(v)
      BY <1>4, <1>7, <2>1 DEF PutsOK, SupersedesPut, SuccessorPut
    <3>2. Rank(w.ext) <= Rank(v.ext)
      BY <1>1, <1>4, <2>1, <3>1, DeedsFirst DEF Writes
    <3> QED
      BY <1>7, <2>1, <3>2 DEF Rank
  <2> QED
    BY <2>1 DEF Awaits
<1>8. w.ext \in {"evidence", "proof"} => w.id \in Carried(imp.carried) /\ DeedAt(w.id) = Draft[w.id]
  <2>1. ASSUME w.ext \in {"evidence", "proof"}
        PROVE  w.id \in Carried(imp.carried) /\ DeedAt(w.id) = Draft[w.id]
    <3>1. w.id \in Carried(imp.carried)
      BY <1>6, <2>1 DEF DeedPut, SupersedesPut, SuccessorPut
    <3>2. ~Awaits(w.id, "cap")
      BY <1>7, <2>1
    <3> QED
      BY <1>4, <3>1, <3>2 DEF LandInv, HeldInv, DueOK, DeedAt
  <2> QED
    BY <2>1
<1>9. w.ext = "proof" => shelf[w.id]["evidence"] = Created(Draft[w.id], SentAt[w.id])
  BY <1>4, <1>7, <1>8 DEF LandInv, HeldInv, DueOK
<1>10. \A i \in Ids, x \in Exts :
           shelf'[i][x] = shelf[i][x] \/ (i = w.id /\ x = w.ext /\ shelf'[i][x] = w.file)
  BY <1>1 DEF Writes
<1>11. \A i \in Ids : Has(i, "cap") => DeedAt(i)' = DeedAt(i)
  BY <1>2, RecordsKept
<1>12. EvidenceOwn'
  <2>1. ASSUME NEW i \in Ids, Has(i, "evidence")'
        PROVE  shelf'[i]["evidence"].deed = DeedAt(i)'
    <3>1. CASE Has(i, "evidence")
      <4>1. Has(i, "cap")
        BY <3>1 DEF LandInv, HeldInv, CapFirst, Exts
      <4>2. shelf'[i]["evidence"] = shelf[i]["evidence"]
        BY <1>2, <3>1, RecordsKept
      <4> QED
        BY <1>11, <3>1, <4>1, <4>2 DEF LandInv, EvidenceOwn
    <3>2. CASE ~Has(i, "evidence")
      <4>1. i = w.id /\ w.ext = "evidence" /\ shelf'[i]["evidence"] = w.file
        BY <1>10, <2>1, <3>2 DEF Has, Exts
      <4>2. w.file = Created(Draft[i], SentAt[i])
        BY <1>6, <4>1 DEF DeedPut, DeedFile, SupersedesPut, SuccessorPut
      <4>3. DeedAt(i) = Draft[i] /\ Has(i, "cap")
        BY <1>8, <4>1, FilesAreFiles DEF Has, DeedAt
      <4> QED
        BY <1>11, <4>1, <4>2, <4>3 DEF Created
    <3> QED
      BY <3>1, <3>2
  <2> QED
    BY <2>1 DEF EvidenceOwn
<1>13. ProofLanded'
  <2>1. ASSUME NEW i \in Ids, Has(i, "proof")'
        PROVE  /\ DeedAt(i)' = Draft[i]
               /\ shelf'[i]["evidence"] = Created(Draft[i], SentAt[i])
    <3>1. DeedAt(i) = Draft[i] /\ shelf[i]["evidence"] = Created(Draft[i], SentAt[i])
      <4>1. CASE Has(i, "proof")
        BY <4>1 DEF LandInv, ProofLanded
      <4>2. CASE ~Has(i, "proof")
        <5>1. i = w.id /\ w.ext = "proof"
          BY <1>10, <2>1, <4>2 DEF Has, Exts
        <5> QED
          BY <1>8, <1>9, <5>1
      <4> QED
        BY <4>1, <4>2
    <3>2. Has(i, "cap") /\ Has(i, "evidence")
      BY <3>1, FilesAreFiles DEF Has, DeedAt
    <3> QED
      BY <1>2, <3>1, <3>2, RecordsKept
  <2> QED
    BY <2>1 DEF ProofLanded
<1> QED
  BY <1>5, <1>12, <1>13 DEF LandInv

LEMMA LogLand ==
    ASSUME SatchelAssumption, LandInv, HeldInv', LogLine PROVE LandInv'
<1>1. PICK i \in Carried(imp.carried) :
          /\ At("write") /\ imp.files = {}
          /\ log' = Append(log, Entry(Draft[i], SentAt[i]))
          /\ Entry(Draft[i], SentAt[i]) \in Lines
  BY LogShape DEF LandInv, HeldInv, PairInv
<1>2. UNCHANGED <<shelf, bytes>>
  BY ShelfStays
<1>3. EvidenceOwn' /\ ProofLanded'
  BY <1>2 DEF LandInv, EvidenceOwn, ProofLanded, Has, DeedAt
<1>4. Kept /\ bytes \subseteq bytes'
  BY <1>2 DEF Kept
<1>5. PICK e : e = Entry(Draft[i], SentAt[i])
  OBVIOUS
<1>6. i \in Ids
  BY CarriedIsTaken DEF LandInv, HeldInv, PairInv
<1>7. e.id = i /\ e.digest = Digest(Draft[i]) /\ e.time = SentAt[i]
  BY <1>5, <1>6, FilesAreFiles DEF Entry
<1>8. /\ shelf[i]["cap"] = Draft[i] /\ Draft[i].body \in bytes
      /\ shelf[i]["evidence"] = Created(Draft[i], SentAt[i])
  BY <1>1 DEF LandInv, HeldInv, DueOK, Awaits
<1>9. Covered(e)'
  BY <1>2, <1>7, <1>8 DEF Covered, DeedAt
<1>10. LinesComeLast'
  BY <1>1, <1>4, <1>5, <1>9, LogGrows
<1> QED
  BY <1>3, <1>10 DEF LandInv

LEMMA LocalLand ==
    ASSUME SatchelAssumption, HandoverAssumption, Patient, LandInv, HeldInv', Kept, LocalStep
    PROVE  LandInv'
<1>1. ShelfOK
  BY DEF LandInv, HeldInv, PairInv
<1>2. ProofLanded'
  <2>1. ASSUME NEW i \in Ids, shelf'[i]["proof"] = shelf[i]["proof"], Has(i, "proof")'
        PROVE  /\ DeedAt(i)' = Draft[i]
               /\ shelf'[i]["evidence"] = Created(Draft[i], SentAt[i])
    <3>1. DeedAt(i) = Draft[i] /\ shelf[i]["evidence"] = Created(Draft[i], SentAt[i])
      BY <2>1 DEF LandInv, ProofLanded, Has
    <3>2. Has(i, "cap") /\ Has(i, "evidence")
      BY <3>1, FilesAreFiles DEF Has, DeedAt
    <3> QED
      BY <3>1, <3>2, RecordsKept
  <2>2. ASSUME NEW i \in Ids PROVE shelf'[i]["proof"] = shelf[i]["proof"]
    <3>1. ASSUME NEW r \in Locals, LocalCreate(r) PROVE shelf'[i]["proof"] = shelf[i]["proof"]
      BY <1>1, <3>1, CreateShape DEF Creates, Exts
    <3>2. ASSUME NEW j \in Ids, LocalDelete(j) PROVE shelf'[i]["proof"] = shelf[i]["proof"]
      BY <1>1, <3>2, DeleteShape DEF Deletes, Exts
    <3>3. ASSUME NEW j \in Ids, NEW t \in Nows, Backfill(j, t)
          PROVE  shelf'[i]["proof"] = shelf[i]["proof"]
      BY <3>3 DEF Backfill
    <3> QED
      BY <3>1, <3>2, <3>3 DEF LocalStep
  <2> QED
    BY <2>1, <2>2 DEF ProofLanded
<1>3. ASSUME NEW i \in Ids, Has(i, "evidence")
      PROVE  shelf'[i]["evidence"].deed = DeedAt(i)'
  <2>1. Has(i, "cap")
    BY <1>3 DEF LandInv, HeldInv, CapFirst, Exts
  <2> QED
    BY <1>3, <2>1, RecordsKept DEF LandInv, EvidenceOwn
<1>4. ASSUME NEW r \in Locals, LocalCreate(r) PROVE EvidenceOwn' /\ LinesComeLast'
  <2>1. PICK d, t, prior : Creates(d, t, prior)
    BY <1>1, <1>4, CreateShape
  <2>2. \A i \in Ids : i # d.id => shelf'[i]["evidence"] = shelf[i]["evidence"]
    BY <2>1 DEF Creates, Exts
  <2>3. shelf'[d.id]["evidence"].deed = DeedAt(d.id)'
    BY <2>1 DEF Creates, Created, DeedAt
  <2>4. EvidenceOwn'
    BY <1>3, <2>2, <2>3 DEF EvidenceOwn, Has
  <2>5. PICK e : e = Entry(d, t)
    OBVIOUS
  <2>6. e.id = d.id /\ e.digest = Digest(d) /\ e.time = t
    BY <2>5 DEF Entry
  <2>7. Covered(e)' /\ bytes \subseteq bytes'
    BY <2>1, <2>6 DEF Creates, Covered, DeedAt
  <2>8. e \in Lines /\ log' = Append(log, e)
    BY <2>1, <2>5 DEF Creates
  <2> QED
    BY <2>4, <2>7, <2>8, LogGrows
<1>5. ASSUME NEW i \in Ids, LocalDelete(i) PROVE EvidenceOwn' /\ LinesComeLast'
  <2>1. Deletes(i)
    BY <1>1, <1>5, DeleteShape
  <2>2. \A j \in Ids : shelf'[j]["evidence"] = shelf[j]["evidence"]
    BY <2>1 DEF Deletes, Exts
  <2>3. EvidenceOwn'
    BY <1>3, <2>2 DEF EvidenceOwn, Has
  <2>4. log' = log /\ bytes \subseteq bytes'
    BY <2>1 DEF Deletes
  <2> QED
    BY <2>3, <2>4, LogGrows
<1>6. ASSUME NEW i \in Ids, NEW t \in Nows, Backfill(i, t) PROVE EvidenceOwn' /\ LinesComeLast'
  <2>1. UNCHANGED <<shelf, bytes>> /\ EvidencePasses(i)
    BY <1>6 DEF Backfill
  <2>2. PICK u \in Times : /\ log' = Append(log, Entry(DeedAt(i), u))
                           /\ u = shelf[i]["evidence"].time
                           /\ Entry(DeedAt(i), u) \in Lines
                           /\ Entry(DeedAt(i), u).id = i
    BY <1>1, <1>6, <2>1, BackfillShape
  <2>3. /\ Has(i, "evidence") /\ shelf[i]["evidence"].deed = DeedAt(i)
        /\ DeedAt(i).body \in bytes
    BY <2>1 DEF EvidencePasses, EvidenceLocal, Has
  <2>4. shelf[i]["evidence"] = Created(DeedAt(i), u)
    BY <1>1, <2>2, <2>3 DEF ShelfOK, Created
  <2>5. PICK e : e = Entry(DeedAt(i), u)
    OBVIOUS
  <2>6. e.id = i /\ e.digest = Digest(DeedAt(i)) /\ e.time = u
    BY <2>2, <2>5 DEF Entry
  <2>7. Covered(e)'
    BY <2>1, <2>3, <2>4, <2>6 DEF Covered, DeedAt
  <2>8. EvidenceOwn'
    BY <2>1 DEF LandInv, EvidenceOwn, Has, DeedAt
  <2> QED
    BY <2>1, <2>2, <2>5, <2>7, <2>8, LogGrows
<1> QED
  BY <1>2, <1>4, <1>5, <1>6 DEF LandInv, LocalStep

LEMMA NextLand ==
    ASSUME SatchelAssumption, HandoverAssumption, Apart, Patient, LandInv, [Next]_vars
    PROVE  LandInv'
<1>1. HeldInv' /\ Kept
  BY NextHeld, NextKeeps DEF LandInv
<1>2. CASE SenderStep \/ UNCHANGED vars
  <2>1. UNCHANGED <<shelf, bytes, log>>
    BY <1>2 DEF SenderStep, vars, storeVars
  <2> QED
    BY <1>1, <2>1, QuietLand
<1>3. CASE \/ ImportBegin \/ CheckLinks \/ ReadHead
           \/ \E i \in Ids : CheckFolder(i) \/ ReadFolder(i)
           \/ \E allow \in BOOLEAN : Compare(allow)
           \/ PlanImport \/ ImportDone \/ ImportStop
  <2>1. OnlyImport
    BY <1>3 DEF ImportBegin, CheckLinks, ReadHead, CheckFolder, ReadFolder, Compare,
                PlanImport, ImportDone, ImportStop
  <2> QED
    BY <1>1, <2>1, QuietLand DEF OnlyImport, storeVars
<1> QED
  BY <1>1, <1>2, <1>3, WriteLand, LogLand, LocalLand DEF Next, ImportStep

LEMMA InitLand == ASSUME SatchelAssumption, Init PROVE LandInv
<1>1. \A i \in Ids, x \in Exts : ~Has(i, x)
  BY DEF Init, Has
<1> QED
  BY <1>1, InitHeld DEF LandInv, EvidenceOwn, ProofLanded, LinesComeLast, Init, Exts

(* What lies beside a receipt is the deed and the evidence the sender logged,
   and every line of the log is of a deed that is there with its evidence and
   its product, at every step (write_import, log_backfill). *)
THEOREM LandInvariant == ASSUME Apart, Patient PROVE Spec => []LandInv
<1>1. Init => LandInv
  BY InitLand, SatchelAssumption
<1>2. LandInv /\ [Next]_vars => LandInv'
  BY NextLand, SatchelAssumption, HandoverAssumption
<1> QED
  BY <1>1, <1>2, PTL DEF Spec

(* "an entry never names a deed this store failed to write": the lines go last,
   also where an import stops half-way and is run again. *)
THEOREM LogNeverAhead == ASSUME Apart, Patient PROVE Spec => []LinesComeLast
<1>1. LandInv => LinesComeLast
  BY DEF LandInv
<1> QED
  BY <1>1, LandInvariant, PTL

(* A receipt the store keeps is of the sender's log, of the deed and evidence
   kept here, and agrees with every line logged here. *)
THEOREM ImportsLandAsSent == ASSUME Apart, Patient PROVE Spec => []LandedAsSent
<1>1. ASSUME LandInv PROVE LandedAsSent
  <2>1. ASSUME NEW i \in Ids, Has(i, "proof")
        PROVE  /\ shelf[i]["proof"].entry \in SentEntries
               /\ Digest(DeedAt(i)) = shelf[i]["proof"].entry.digest
               /\ shelf[i]["evidence"] = Created(DeedAt(i), shelf[i]["proof"].entry.time)
               /\ \A k \in 1..Len(log) : log[k].id = i => log[k] = shelf[i]["proof"].entry
    <3>1. PICK r \in Receipts(i) : r = shelf[i]["proof"] /\ InLog(i, r)
      BY <1>1, <2>1 DEF LandInv, HeldInv, PairInv, ShelfOK
    <3>2. PICK e : e = Entry(Draft[i], SentAt[i]) /\ e = r.entry
      BY <3>1 DEF Receipts
    <3>3. e.id = i /\ e.digest = Digest(Draft[i]) /\ e.time = SentAt[i]
      BY <3>2, FilesAreFiles, SatchelAssumption DEF Entry
    <3>4. DeedAt(i) = Draft[i] /\ shelf[i]["evidence"] = Created(Draft[i], SentAt[i])
      BY <1>1, <2>1 DEF LandInv, ProofLanded
    <3>5. e \in SentEntries
      <4>1. r.index \in 1..Len(slog) /\ slog[r.index] = i
        <5>1. Len(slog) \in Nat /\ r.size \in Nat
          BY <1>1, <3>1 DEF LandInv, HeldInv, PairInv, SenderInv, SenderOK, Receipts
        <5> QED
          BY <3>1, <5>1 DEF InLog
      <4>2. i \in {slog[k] : k \in 1..Len(slog)}
        BY <4>1
      <4> QED
        BY <3>2, <4>2 DEF SentEntries
    <3>6. ASSUME NEW k \in 1..Len(log), log[k].id = i PROVE log[k] = e
      <4>1. PICK l \in Lines : l = log[k]
        BY <1>1 DEF LandInv, HeldInv, PairInv, ShelfOK
      <4>2. /\ Digest(DeedAt(i)) = l.digest
            /\ shelf[i]["evidence"] = Created(DeedAt(i), l.time)
        BY <1>1, <3>6, <4>1 DEF LandInv, LinesComeLast
      <4>3. l.time = SentAt[i]
        BY <3>4, <4>2 DEF Created
      <4>4. l.digest = Digest(Draft[i]) /\ l.id = Draft[i].id
        BY <3>3, <3>4, <3>6, <4>1, <4>2, FilesAreFiles, SatchelAssumption
      <4>5. l = [id |-> l.id, digest |-> l.digest, time |-> l.time]
        BY <4>1 DEF Lines
      <4> QED
        BY <3>2, <4>1, <4>3, <4>4, <4>5 DEF Entry
    <3> QED
      BY <3>1, <3>2, <3>3, <3>4, <3>5, <3>6
  <2> QED
    BY <2>1 DEF LandedAsSent
<1> QED
  BY <1>1, LandInvariant, PTL

-----------------------------------------------------------------------------
(* A stopped import is completed by the next, and a whole one answers. *)

(* The files the store has of a deed are the ones the plan was made for... *)
FilesFit ==
    \A i \in Carried(imp.carried) :
        LET side == imp.carried[i].host IN
        /\ ~Has(i, "tomb")
        /\ Fits(i, "cap", Draft[i])
        /\ Fits(i, "evidence", Created(Draft[i], SentAt[i]))
        /\ side # NoFile => Fits(i, "host", side)
        /\ HostPasses(Draft[i], SentAt[i], IF side # NoFile THEN side ELSE shelf[i]["host"])
        /\ \A k \in Ids :
               Has(k, "supersedes") /\ shelf[k]["supersedes"].id = i =>
                   shelf[k]["supersedes"].digest \in {NoFile, Digest(Draft[i])}

Fitting == FilesFit /\ LinksFit(imp.carried) /\ TrailsFit(imp.carried)

(* ...and what the plan is for is there, or still to be written. *)
DeedDue(i) ==
    LET f == imp.carried[i] IN
    /\ shelf[i]["cap"] = Draft[i] \/ Awaits(i, "cap")
    /\ shelf[i]["evidence"] = Created(Draft[i], SentAt[i]) \/ Awaits(i, "evidence")
    /\ f.host # NoFile => shelf[i]["host"] = f.host \/ Awaits(i, "host")
    /\ Draft[i].body \in bytes \/ Awaits(i, "bytes")
    /\ Has(i, "proof") \/ Awaits(i, "proof")
    /\ \/ imp.head = NoFile \/ Has(i, "head") \/ Awaits(i, "head")
       \/ Has(i, "proof") /\ shelf[i]["proof"].size # imp.head.size
    /\ (At("write") /\ i \in imp.lines) \/ Entry(Draft[i], SentAt[i]) \in LogEntries

LinkDue(p) ==
    /\ \/ shelf[p.new.id]["supersedes"] = LinkFile(p.old)
       \/ Awaits(p.new.id, "supersedes")
    /\ p.old.id \in Carried(imp.carried) \/ Serves(p.old.id) =>
           \/ shelf[p.old.id]["successor"] = SuccessorFile(p.new.id)
           \/ Awaits(p.old.id, "successor")

WholeDue ==
    /\ \A i \in Carried(imp.carried) : DeedDue(i)
    /\ \A p \in LinkPairs(imp.carried) : LinkDue(p)

SidesCarried == \A w \in imp.files : w.ext = "host" => imp.carried[w.id].host # NoFile

WholeOK ==
    /\ At("check") => Carried(imp.carried) = {}
    /\ SidesCarried
    /\ imp.alone /\ imp.pc \in {"write", "stopped", "ok"} => Fitting
    /\ imp.alone /\ imp.pc \in {"write", "ok"} => WholeDue

WholeInv == LandInv /\ WholeOK

(* What the log says of a deed is what lies beside it. *)
LEMMA LineOf ==
    ASSUME SatchelAssumption, LandInv, NEW e \in LogEntries
    PROVE  /\ e.id \in Ids /\ Has(e.id, "evidence")
           /\ shelf[e.id]["evidence"] = Created(DeedAt(e.id), e.time)
           /\ e = Entry(DeedAt(e.id), shelf[e.id]["evidence"].time)
<1>1. PICK k \in 1..Len(log) : e = log[k]
  BY DEF LogEntries
<1>2. e \in Lines
  BY <1>1 DEF LandInv, HeldInv, PairInv, ShelfOK
<1>3. PICK l \in Lines : l = e
  BY <1>2
<1>4. /\ Digest(DeedAt(l.id)) = l.digest
      /\ shelf[l.id]["evidence"] = Created(DeedAt(l.id), l.time)
  BY <1>1, <1>3 DEF LandInv, LinesComeLast
<1>5. l.id \in Ids /\ l = [id |-> l.id, digest |-> l.digest, time |-> l.time]
  BY <1>3 DEF Lines
<1>6. Has(l.id, "evidence")
  BY <1>4, FilesAreFiles DEF Has
<1>7. Has(l.id, "cap")
  BY <1>5, <1>6 DEF LandInv, HeldInv, CapFirst, Exts
<1>8. DeedAt(l.id).id = l.id
  BY <1>5, <1>7 DEF LandInv, HeldInv, PairInv, ShelfOK
<1>9. shelf[l.id]["evidence"].time = l.time
  BY <1>4 DEF Created
<1> QED
  BY <1>3, <1>4, <1>5, <1>6, <1>8, <1>9 DEF Entry

LEMMA LogStaysPlain == ASSUME SatchelAssumption, LandInv PROVE LogIsPlain
<1>1. ASSUME NEW d \in LogEntries, NEW e \in LogEntries, d.id = e.id PROVE d = e
  BY <1>1, LineOf
<1> QED
  BY <1>1 DEF LogIsPlain

(* A plan that fits is not refused... *)
LEMMA FitsThen ==
    ASSUME SatchelAssumption, LandInv, Fitting PROVE CanHold(imp.carried, imp.head)
<1>1. ASSUME NEW i \in Carried(imp.carried) PROVE DeedFits(i, imp.carried[i], imp.head)
  <2>1. PICK f : f = imp.carried[i]
    OBVIOUS
  <2>2. /\ i \in Ids /\ f.deed = Draft[i] /\ f.proof.entry = Entry(Draft[i], SentAt[i])
        /\ EvidenceFor(f) = Created(Draft[i], SentAt[i])
    BY <2>1, CarriedIsTaken DEF Taken, LandInv, HeldInv, PairInv
  <2>3. Entry(Draft[i], SentAt[i]).time = SentAt[i]
    BY DEF Entry
  <2>4. /\ ~Has(i, "tomb") /\ Fits(i, "cap", Draft[i])
        /\ Fits(i, "evidence", Created(Draft[i], SentAt[i]))
        /\ f.host # NoFile => Fits(i, "host", f.host)
        /\ HostPasses(Draft[i], SentAt[i],
                      IF f.host # NoFile THEN f.host ELSE shelf[i]["host"])
        /\ \A k \in Ids :
               Has(k, "supersedes") /\ shelf[k]["supersedes"].id = i =>
                   shelf[k]["supersedes"].digest \in {NoFile, Digest(Draft[i])}
    BY <2>1 DEF Fitting, FilesFit
  <2>5. KeptDigests(i) \subseteq {Digest(f.deed)}
    BY <2>2, <2>4 DEF KeptDigests
  <2>6. ASSUME NEW e \in LogEntries, e.id = i PROVE e = f.proof.entry
    <3>1. /\ Has(i, "evidence") /\ e = Entry(DeedAt(i), shelf[i]["evidence"].time)
          /\ shelf[i]["evidence"] = Created(DeedAt(i), e.time)
      BY <2>6, LineOf
    <3>2. shelf[i]["evidence"] = Created(Draft[i], SentAt[i])
      BY <2>4, <3>1 DEF Fits, Has
    <3>3. DeedAt(i) = Draft[i] /\ shelf[i]["evidence"].time = SentAt[i]
      <4>1. PICK ev : ev = shelf[i]["evidence"]
        OBVIOUS
      <4>2. ev.deed = DeedAt(i)
        BY <3>1, <4>1 DEF Created
      <4>3. ev.deed = Draft[i] /\ ev.time = SentAt[i]
        BY <3>2, <4>1 DEF Created
      <4> QED
        BY <4>1, <4>2, <4>3
    <3> QED
      BY <2>2, <3>1, <3>3
  <2>7. Has(i, "proof") => KeptProof(i, f)
    <3>1. Has(i, "proof") => shelf[i]["proof"] \in Receipts(i)
      BY <2>2 DEF LandInv, HeldInv, PairInv, ShelfOK
    <3> QED
      BY <2>2, <3>1 DEF Has, KeptProof, Receipts
  <2>8. HeadFits(i, f, imp.head)
    <3>1. Has(i, "head") => Has(i, "proof") /\ shelf[i]["head"].size = shelf[i]["proof"].size
      BY <2>2 DEF LandInv, HeldInv, PairInv, PairOK
    <3> QED
      BY <3>1 DEF HeadFits, Fits, Has
  <2> QED
    BY <2>1, <2>2, <2>3, <2>4, <2>5, <2>6, <2>7, <2>8 DEF DeedFits
<1> QED
  BY <1>1, LogStaysPlain DEF CanHold, Fitting

(* ...and a plan that is not refused fits. *)
LEMMA ThenFits ==
    ASSUME SatchelAssumption, ImpOK, CanHold(imp.carried, imp.head) PROVE Fitting
<1>1. ASSUME NEW i \in Carried(imp.carried)
      PROVE  LET side == imp.carried[i].host IN
             /\ ~Has(i, "tomb")
             /\ Fits(i, "cap", Draft[i])
             /\ Fits(i, "evidence", Created(Draft[i], SentAt[i]))
             /\ side # NoFile => Fits(i, "host", side)
             /\ HostPasses(Draft[i], SentAt[i], IF side # NoFile THEN side ELSE shelf[i]["host"])
             /\ \A k \in Ids :
                    Has(k, "supersedes") /\ shelf[k]["supersedes"].id = i =>
                        shelf[k]["supersedes"].digest \in {NoFile, Digest(Draft[i])}
  <2>1. PICK f : f = imp.carried[i]
    OBVIOUS
  <2>2. /\ i \in Ids /\ f.deed = Draft[i] /\ f.proof.entry = Entry(Draft[i], SentAt[i])
        /\ EvidenceFor(f) = Created(Draft[i], SentAt[i])
    BY <2>1, CarriedIsTaken DEF Taken
  <2>3. Entry(Draft[i], SentAt[i]).time = SentAt[i]
    BY DEF Entry
  <2>4. DeedFits(i, f, imp.head)
    BY <2>1 DEF CanHold
  <2>5. KeptDigests(i) \subseteq {Digest(Draft[i])}
    BY <2>2, <2>4 DEF DeedFits
  <2>6. ASSUME NEW k \in Ids, Has(k, "supersedes"), shelf[k]["supersedes"].id = i
        PROVE  shelf[k]["supersedes"].digest \in {NoFile, Digest(Draft[i])}
    <3>1. shelf[k]["supersedes"].digest = NoFile \/ shelf[k]["supersedes"].digest \in KeptDigests(i)
      BY <2>6 DEF KeptDigests
    <3> QED
      BY <2>5, <3>1
  <2>7. /\ ~Has(i, "tomb") /\ Fits(i, "cap", Draft[i])
        /\ Fits(i, "evidence", Created(Draft[i], SentAt[i]))
        /\ f.host # NoFile => Fits(i, "host", f.host)
        /\ HostPasses(Draft[i], SentAt[i],
                      IF f.host # NoFile THEN f.host ELSE shelf[i]["host"])
    BY <2>2, <2>3, <2>4 DEF DeedFits
  <2> QED
    BY <2>1, <2>6, <2>7
<1>2. FilesFit
  BY <1>1 DEF FilesFit
<1> QED
  BY <1>2 DEF CanHold, Fitting

(* What each kind of write puts down. *)
LEMMA PutsByKind ==
    ASSUME SatchelAssumption, ImpOK, PutsOK, NEW w \in imp.files
    PROVE  /\ w.ext \in DeedExts => w.id \in Carried(imp.carried) /\ w.file = DeedFile(w.id, w.ext)
           /\ w.ext \notin DeedExts => w.ext \in {"supersedes", "successor"}
           /\ w.ext = "supersedes" =>
                  \E p \in LinkPairs(imp.carried) : w.id = p.new.id /\ w.file = LinkFile(p.old)
           /\ w.ext = "successor" =>
                  \E p \in LinkPairs(imp.carried) :
                      w.id = p.old.id /\ w.file = SuccessorFile(p.new.id)
<1>1. DeedPut(w) \/ SupersedesPut(w) \/ SuccessorPut(w)
  BY DEF PutsOK
<1>2. CASE DeedPut(w)
  BY <1>2 DEF DeedPut, DeedExts
<1>3. CASE SupersedesPut(w)
  BY <1>3 DEF SupersedesPut, DeedExts
<1>4. CASE SuccessorPut(w)
  BY <1>4 DEF SuccessorPut, DeedExts
<1> QED
  BY <1>1, <1>2, <1>3, <1>4

(* The host's sidecar that travelled is of the deed and its time. *)
LEMMA SideOf ==
    ASSUME SatchelAssumption, ImpOK, NEW i \in Carried(imp.carried)
    PROVE  /\ imp.carried[i].host \in {NoFile, Sidecar(Draft[i], SentAt[i])}
           /\ Sidecar(Draft[i], SentAt[i]) # NoFile
<1>1. imp.carried[i] \in Folders(i)
  BY CarriedIsTaken DEF Taken
<1>2. PICK f \in Folders(i) : f = imp.carried[i]
  BY <1>1
<1> QED
  BY <1>2, FilesAreFiles DEF Folders

(* A write leaves everything else that fits. *)
LEMMA WriteFits ==
    ASSUME SatchelAssumption, LandInv, SidesCarried, Fitting, NEW w \in imp.files, Writes(w)
    PROVE  Fitting'
<1>1. /\ ImpOK /\ ShelfOK /\ PutsOK /\ At("write") /\ w.id \in Ids
      /\ imp'.carried = imp.carried /\ bytes \subseteq bytes'
  BY DEF LandInv, HeldInv, PairInv, Writes
<1>2. \A i \in Ids, x \in Exts :
          shelf'[i][x] = shelf[i][x] \/ (i = w.id /\ x = w.ext /\ shelf'[i][x] = w.file)
  BY DEF Writes
<1>3. \A i \in Ids : i \notin Carried(imp.carried) =>
          \A x \in Exts \ {"supersedes", "successor"} : shelf'[i][x] = shelf[i][x]
  BY <1>1, <1>2, PutsByKind
<1>4. \A i \in Ids : shelf'[i]["tomb"] = shelf[i]["tomb"]
  BY <1>1, <1>2, PutsByKind DEF Exts, DeedExts
<1>5. ASSUME NEW p \in LinkPairs(imp.carried)
      PROVE  /\ p.old.id \in Ids /\ p.new.id \in Ids /\ p.old.id # p.new.id
             /\ \A q \in LinkPairs(imp.carried) :
                    (q.old.id = p.old.id \/ q.new.id = p.new.id) => q = p
             /\ LinkHolds(imp.carried, p.old) /\ LinkHolds(imp.carried, p.new)
             /\ p.new.id \in Carried(imp.carried) \/ Serves(p.new.id)
             /\ shelf[p.new.id]["supersedes"] \in {NoFile, IdOnly(p.old.id), LinkFile(p.old)}
             /\ p.old.id \in Carried(imp.carried) \/ Serves(p.old.id) =>
                    Fits(p.old.id, "successor", SuccessorFile(p.new.id))
  BY <1>1, LinkPairsNameIds DEF Fitting, LinksFit
<1>6. ASSUME NEW i \in Carried(imp.carried)
      PROVE  LET side == imp.carried[i].host IN
             /\ ~Has(i, "tomb")'
             /\ Fits(i, "cap", Draft[i])'
             /\ Fits(i, "evidence", Created(Draft[i], SentAt[i]))'
             /\ side # NoFile => shelf'[i]["host"] \in {NoFile, side}
             /\ HostPasses(Draft[i], SentAt[i], IF side # NoFile THEN side ELSE shelf'[i]["host"])
             /\ \A k \in Ids :
                    shelf'[k]["supersedes"] # NoFile /\ shelf'[k]["supersedes"].id = i =>
                        shelf'[k]["supersedes"].digest \in {NoFile, Digest(Draft[i])}
  <2>1. i \in Ids /\ imp.carried[i].deed = Draft[i]
    BY <1>1, CarriedIsTaken DEF Taken
  <2>2. PICK side : side = imp.carried[i].host
    OBVIOUS
  <2>3. /\ ~Has(i, "tomb") /\ Fits(i, "cap", Draft[i])
        /\ Fits(i, "evidence", Created(Draft[i], SentAt[i]))
        /\ side # NoFile => Fits(i, "host", side)
        /\ HostPasses(Draft[i], SentAt[i], IF side # NoFile THEN side ELSE shelf[i]["host"])
        /\ \A k \in Ids :
               Has(k, "supersedes") /\ shelf[k]["supersedes"].id = i =>
                   shelf[k]["supersedes"].digest \in {NoFile, Digest(Draft[i])}
    BY <2>2 DEF Fitting, FilesFit
  <2>4. ~Has(i, "tomb")'
    BY <1>4, <2>1, <2>3 DEF Has
  <2>5. Fits(i, "cap", Draft[i])'
    <3>1. i = w.id /\ w.ext = "cap" => w.file = Draft[i]
      BY <1>1, PutsByKind DEF DeedExts, DeedFile
    <3> QED
      BY <1>2, <2>1, <2>3, <3>1 DEF Fits, Exts
  <2>6. Fits(i, "evidence", Created(Draft[i], SentAt[i]))'
    <3>1. i = w.id /\ w.ext = "evidence" => w.file = Created(Draft[i], SentAt[i])
      BY <1>1, PutsByKind DEF DeedExts, DeedFile
    <3> QED
      BY <1>2, <2>1, <2>3, <3>1 DEF Fits, Exts
  <2>7. i = w.id /\ w.ext = "host" => w.file = side /\ side # NoFile
    <3>1. i = w.id /\ w.ext = "host" => w.file = Sidecar(Draft[i], SentAt[i]) /\ side # NoFile
      BY <1>1, <2>2, PutsByKind DEF DeedExts, DeedFile, SidesCarried
    <3> QED
      BY <1>1, <2>2, <3>1, SideOf
  <2>8. side # NoFile => shelf'[i]["host"] \in {NoFile, side}
    BY <1>2, <2>1, <2>3, <2>7 DEF Fits, Exts
  <2>9. side = NoFile => shelf'[i]["host"] = shelf[i]["host"]
    BY <1>2, <2>1, <2>7 DEF Exts
  <2>10. ASSUME NEW k \in Ids, shelf'[k]["supersedes"] # NoFile, shelf'[k]["supersedes"].id = i
         PROVE  shelf'[k]["supersedes"].digest \in {NoFile, Digest(Draft[i])}
    <3>1. CASE shelf'[k]["supersedes"] = shelf[k]["supersedes"]
      BY <2>3, <2>10, <3>1 DEF Has
    <3>2. CASE w.ext = "supersedes" /\ shelf'[k]["supersedes"] = w.file
      <4>1. PICK p \in LinkPairs(imp.carried) : w.file = LinkFile(p.old)
        BY <1>1, <3>2, PutsByKind
      <4>2. w.file.id = p.old.id /\ w.file.digest = p.old.digest
        BY <4>1 DEF LinkFile
      <4>3. p.old.id = i
        BY <2>10, <3>2, <4>2
      <4>4. p.old.digest = Digest(Draft[i])
        BY <1>5, <2>1, <4>3 DEF LinkHolds
      <4> QED
        BY <3>2, <4>2, <4>4
    <3> QED
      BY <1>2, <2>10, <3>1, <3>2 DEF Exts
  <2> QED
    BY <2>2, <2>3, <2>4, <2>5, <2>6, <2>8, <2>9, <2>10
<1>7. FilesFit'
  <2>1. Carried(imp.carried)' = Carried(imp.carried)
    BY <1>1 DEF Carried
  <2> QED
    BY <1>1, <1>6, <2>1 DEF FilesFit, Has, Fits, HostPasses
<1>8. \A i \in Ids : i \notin Carried(imp.carried) =>
          /\ Serves(i)' <=> Serves(i)
          /\ shelf'[i]["cap"] = shelf[i]["cap"] /\ shelf'[i]["evidence"] = shelf[i]["evidence"]
          /\ shelf'[i]["host"] = shelf[i]["host"]
  BY <1>3 DEF Serves, Has, Exts
<1>9. LinksFit(imp.carried)'
  <2>1. ASSUME NEW p \in LinkPairs(imp.carried)
        PROVE  /\ LinkHolds(imp.carried, p.old)' /\ LinkHolds(imp.carried, p.new)'
               /\ p.new.id \in Carried(imp.carried) \/ Serves(p.new.id)'
               /\ shelf'[p.new.id]["supersedes"] \in {NoFile, IdOnly(p.old.id), LinkFile(p.old)}
               /\ p.old.id \in Carried(imp.carried) \/ Serves(p.old.id)' =>
                      shelf'[p.old.id]["successor"] \in {NoFile, SuccessorFile(p.new.id)}
    <3>1. LinkHolds(imp.carried, p.old)' /\ LinkHolds(imp.carried, p.new)'
      BY <1>1, <1>5, <1>8 DEF LinkHolds, Has, DeedAt, Carried
    <3>2. p.new.id \in Carried(imp.carried) \/ Serves(p.new.id)'
      BY <1>5, <1>8
    <3>3. shelf'[p.new.id]["supersedes"] \in {NoFile, IdOnly(p.old.id), LinkFile(p.old)}
      <4>1. CASE w.id = p.new.id /\ w.ext = "supersedes" /\ shelf'[p.new.id]["supersedes"] = w.file
        <5>1. PICK q \in LinkPairs(imp.carried) : w.id = q.new.id /\ w.file = LinkFile(q.old)
          BY <1>1, <4>1, PutsByKind
        <5>2. q = p
          BY <1>5, <4>1, <5>1
        <5> QED
          BY <4>1, <5>1, <5>2
      <4> QED
        BY <1>2, <1>5, <4>1 DEF Exts
    <3>4. p.old.id \in Carried(imp.carried) \/ Serves(p.old.id)' =>
              shelf'[p.old.id]["successor"] \in {NoFile, SuccessorFile(p.new.id)}
      <4>1. CASE w.id = p.old.id /\ w.ext = "successor" /\ shelf'[p.old.id]["successor"] = w.file
        <5>1. PICK q \in LinkPairs(imp.carried) :
                  w.id = q.old.id /\ w.file = SuccessorFile(q.new.id)
          BY <1>1, <4>1, PutsByKind
        <5>2. q = p
          BY <1>5, <4>1, <5>1
        <5> QED
          BY <4>1, <5>1, <5>2
      <4> QED
        BY <1>2, <1>5, <1>8, <4>1 DEF Exts, Fits
    <3> QED
      BY <3>1, <3>2, <3>3, <3>4
  <2> QED
    BY <1>1, <1>5, <2>1 DEF LinksFit, LinkHolds, Fits, Has, Serves, DeedAt
<1>10. TrailsFit(imp.carried)'
  <2>1. ASSUME NEW j \in Ids, j \notin Carried(imp.carried)
        PROVE  EvidenceLocal(j) => EvidenceLocal(j)'
    BY <1>1, <1>8, <2>1 DEF EvidenceLocal, DeedAt, HostPasses
  <2>2. \A j \in Ids : j \notin Carried(imp.carried) => DeedAt(j)' = DeedAt(j)
    BY <1>8 DEF DeedAt
  <2>3. ASSUME NEW i \in Carried(imp.carried)
        PROVE  \E trail \in SUBSET Ids :
                   /\ i \in trail
                   /\ \A j \in trail :
                       IF j \in Carried(imp.carried)
                       THEN /\ imp.carried[j].deed.sources \subseteq trail
                            /\ j # i => \A l \in imp.carried[i].sources :
                                            l.id = j => l.digest = Digest(imp.carried[j].deed)
                       ELSE /\ Serves(j)'
                            /\ DeedAt(j)'.sources \subseteq trail
                            /\ Link(DeedAt(j)') \in imp.carried[i].sources
                            /\ EvidenceLocal(j)'
    <3>1. PICK trail \in SUBSET Ids :
                   /\ i \in trail
                   /\ \A j \in trail :
                       IF j \in Carried(imp.carried)
                       THEN /\ imp.carried[j].deed.sources \subseteq trail
                            /\ j # i => \A l \in imp.carried[i].sources :
                                            l.id = j => l.digest = Digest(imp.carried[j].deed)
                       ELSE /\ Serves(j)
                            /\ DeedAt(j).sources \subseteq trail
                            /\ Link(DeedAt(j)) \in imp.carried[i].sources
                            /\ EvidenceLocal(j)
      BY DEF Fitting, TrailsFit
    <3> QED
      BY <1>8, <2>1, <2>2, <3>1
  <2>4. Carried(imp.carried)' = Carried(imp.carried)
    BY <1>1 DEF Carried
  <2> QED
    BY <1>1, <2>3, <2>4 DEF TrailsFit
<1> QED
  BY <1>7, <1>9, <1>10 DEF Fitting

(* What a write puts down is no longer to be written, and the rest still is. *)
LEMMA WriteDue ==
    ASSUME SatchelAssumption, LandInv, SidesCarried, Fitting, WholeDue, log' = log,
           NEW w \in imp.files, Writes(w)
    PROVE  WholeDue'
<1>1. /\ ImpOK /\ ShelfOK /\ PutsOK /\ At("write") /\ At("write")' /\ w.id \in Ids
      /\ imp'.carried = imp.carried /\ imp'.head = imp.head /\ imp'.lines = imp.lines
      /\ bytes \subseteq bytes'
  BY DEF LandInv, HeldInv, PairInv, Writes
<1>2. \A i \in Ids, x \in Exts :
          shelf'[i][x] = shelf[i][x] \/ (i = w.id /\ x = w.ext /\ shelf'[i][x] = w.file)
  BY DEF Writes
<1>3. ASSUME NEW i \in Ids, NEW x, Awaits(i, x)
      PROVE  \/ Awaits(i, x)'
             \/ /\ i = w.id /\ x = w.ext
                /\ x \in Exts => shelf'[i][x] = w.file
                /\ x = "bytes" => w.file.raw \in bytes'
  BY <1>3 DEF Awaits, Writes, Exts
<1>4. Kept
  BY WriteKeeps DEF LandInv
<1>5. ASSUME NEW i \in Carried(imp.carried)
      PROVE  LET f == imp.carried[i] IN
             /\ shelf'[i]["cap"] = Draft[i] \/ Awaits(i, "cap")'
             /\ shelf'[i]["evidence"] = Created(Draft[i], SentAt[i]) \/ Awaits(i, "evidence")'
             /\ f.host # NoFile => shelf'[i]["host"] = f.host \/ Awaits(i, "host")'
             /\ Draft[i].body \in bytes' \/ Awaits(i, "bytes")'
             /\ Has(i, "proof")' \/ Awaits(i, "proof")'
             /\ \/ imp.head = NoFile \/ Has(i, "head")' \/ Awaits(i, "head")'
                \/ Has(i, "proof")' /\ shelf'[i]["proof"].size # imp.head.size
             /\ i \in imp.lines \/ Entry(Draft[i], SentAt[i]) \in LogEntries
  <2>1. /\ i \in Ids /\ imp.carried[i].proof # NoFile
        /\ Draft[i] # NoFile /\ Created(Draft[i], SentAt[i]) # NoFile
    BY <1>1, CarriedIsTaken, FilesAreFiles
  <2>2. PICK f : f = imp.carried[i]
    OBVIOUS
  <2>3. DeedDue(i)
    BY DEF WholeDue
  <2>4. w.ext \in DeedExts => w.id \in Carried(imp.carried) /\ w.file = DeedFile(w.id, w.ext)
    BY <1>1, PutsByKind
  <2>5. \A x \in Exts \ {"supersedes"} : Has(i, x) => shelf'[i][x] = shelf[i][x]
    BY <1>4, <2>1 DEF Kept
  <2>6. shelf'[i]["cap"] = Draft[i] \/ Awaits(i, "cap")'
    BY <1>3, <2>1, <2>3, <2>4, <2>5 DEF DeedDue, DeedFile, DeedExts, Exts, Has
  <2>7. shelf'[i]["evidence"] = Created(Draft[i], SentAt[i]) \/ Awaits(i, "evidence")'
    BY <1>3, <2>1, <2>3, <2>4, <2>5 DEF DeedDue, DeedFile, DeedExts, Exts, Has
  <2>8. f.host # NoFile => shelf'[i]["host"] = f.host \/ Awaits(i, "host")'
    <3>1. f.host # NoFile => f.host = Sidecar(Draft[i], SentAt[i])
      BY <1>1, <2>2, SideOf
    <3> QED
      BY <1>3, <2>1, <2>2, <2>3, <2>4, <2>5, <3>1 DEF DeedDue, DeedFile, DeedExts, Exts, Has
  <2>9. Draft[i].body \in bytes' \/ Awaits(i, "bytes")'
    <3>1. i = w.id /\ w.ext = "bytes" => w.file.raw = Draft[i].body
      BY <2>4 DEF DeedFile, DeedExts
    <3> QED
      BY <1>1, <1>3, <2>1, <2>3, <3>1 DEF DeedDue
  <2>10. Has(i, "proof")' \/ Awaits(i, "proof")'
    BY <1>3, <2>1, <2>3, <2>4, <2>5 DEF DeedDue, DeedFile, DeedExts, Exts, Has
  <2>11. \/ imp.head = NoFile \/ Has(i, "head")' \/ Awaits(i, "head")'
         \/ Has(i, "proof")' /\ shelf'[i]["proof"].size # imp.head.size
    <3>1. CASE imp.head = NoFile
      BY <3>1
    <3>2. CASE imp.head # NoFile /\ Has(i, "head")
      BY <2>5, <3>2 DEF Has, Exts
    <3>3. CASE imp.head # NoFile /\ Awaits(i, "head")
      BY <1>3, <2>1, <2>4, <3>3 DEF DeedFile, DeedExts, Exts, Has
    <3>4. CASE Has(i, "proof") /\ shelf[i]["proof"].size # imp.head.size
      BY <2>5, <3>4 DEF Has, Exts
    <3> QED
      BY <2>3, <3>1, <3>2, <3>3, <3>4 DEF DeedDue
  <2>12. i \in imp.lines \/ Entry(Draft[i], SentAt[i]) \in LogEntries
    BY <2>3 DEF DeedDue
  <2> QED
    BY <2>2, <2>6, <2>7, <2>8, <2>9, <2>10, <2>11, <2>12
<1>6. ASSUME NEW p \in LinkPairs(imp.carried)
      PROVE  /\ \/ shelf'[p.new.id]["supersedes"] = LinkFile(p.old)
                \/ Awaits(p.new.id, "supersedes")'
             /\ p.old.id \in Carried(imp.carried) \/ Serves(p.old.id)' =>
                    \/ shelf'[p.old.id]["successor"] = SuccessorFile(p.new.id)
                    \/ Awaits(p.old.id, "successor")'
  <2>1. p.old.id \in Ids /\ p.new.id \in Ids
    BY <1>1, LinkPairsNameIds
  <2>2. \A q \in LinkPairs(imp.carried) :
            (q.old.id = p.old.id \/ q.new.id = p.new.id) => q = p
    BY DEF Fitting, LinksFit
  <2>3. LinkDue(p)
    BY DEF WholeDue
  <2>4. p.new.id = w.id /\ w.ext = "supersedes" => w.file = LinkFile(p.old)
    BY <1>1, <2>2, PutsByKind
  <2>5. p.old.id = w.id /\ w.ext = "successor" => w.file = SuccessorFile(p.new.id)
    BY <1>1, <2>2, PutsByKind
  <2>6. \/ shelf'[p.new.id]["supersedes"] = LinkFile(p.old)
        \/ Awaits(p.new.id, "supersedes")'
    <3>1. \/ shelf'[p.new.id]["supersedes"] = shelf[p.new.id]["supersedes"]
          \/ p.new.id = w.id /\ w.ext = "supersedes" /\ shelf'[p.new.id]["supersedes"] = w.file
      BY <1>2, <2>1 DEF Exts
    <3>2. \/ shelf[p.new.id]["supersedes"] = LinkFile(p.old)
          \/ Awaits(p.new.id, "supersedes")
      BY <2>3 DEF LinkDue
    <3>3. Awaits(p.new.id, "supersedes") =>
              \/ Awaits(p.new.id, "supersedes")'
              \/ /\ p.new.id = w.id /\ w.ext = "supersedes"
                 /\ shelf'[p.new.id]["supersedes"] = w.file
      BY <1>3, <2>1 DEF Exts
    <3> QED
      BY <2>4, <3>1, <3>2, <3>3
  <2>7. p.old.id \in Carried(imp.carried) \/ Serves(p.old.id)' =>
            p.old.id \in Carried(imp.carried) \/ Serves(p.old.id)
    <3>1. p.old.id \notin Carried(imp.carried) =>
              /\ shelf'[p.old.id]["cap"] = shelf[p.old.id]["cap"]
              /\ shelf'[p.old.id]["tomb"] = shelf[p.old.id]["tomb"]
      BY <1>1, <1>2, <2>1, PutsByKind DEF DeedExts, Exts
    <3> QED
      BY <3>1 DEF Serves, Has
  <2>8. p.old.id \in Carried(imp.carried) \/ Serves(p.old.id)' =>
            \/ shelf'[p.old.id]["successor"] = SuccessorFile(p.new.id)
            \/ Awaits(p.old.id, "successor")'
    <3>1. \/ shelf'[p.old.id]["successor"] = shelf[p.old.id]["successor"]
          \/ p.old.id = w.id /\ w.ext = "successor" /\ shelf'[p.old.id]["successor"] = w.file
      BY <1>2, <2>1 DEF Exts
    <3>2. p.old.id \in Carried(imp.carried) \/ Serves(p.old.id) =>
              \/ shelf[p.old.id]["successor"] = SuccessorFile(p.new.id)
              \/ Awaits(p.old.id, "successor")
      BY <2>3 DEF LinkDue
    <3>3. Awaits(p.old.id, "successor") =>
              \/ Awaits(p.old.id, "successor")'
              \/ /\ p.old.id = w.id /\ w.ext = "successor"
                 /\ shelf'[p.old.id]["successor"] = w.file
      BY <1>3, <2>1 DEF Exts
    <3> QED
      BY <2>5, <2>7, <3>1, <3>2, <3>3
  <2> QED
    BY <2>6, <2>8
<1>7. Carried(imp.carried)' = Carried(imp.carried) /\ LinkPairs(imp.carried)' = LinkPairs(imp.carried)
  BY <1>1 DEF Carried, LinkPairs
<1>8. LogEntries' = LogEntries
  BY DEF LogEntries
<1>9. \A i \in Carried(imp.carried) : DeedDue(i)'
  BY <1>1, <1>5, <1>8 DEF DeedDue
<1>10. \A p \in LinkPairs(imp.carried) : LinkDue(p)'
  BY <1>1, <1>6, <1>7 DEF LinkDue
<1> QED
  BY <1>7, <1>9, <1>10 DEF WholeDue

(* A step that leaves the files alone, and the lines but for what it logs. *)
LEMMA StillDue ==
    ASSUME WholeDue, UNCHANGED <<shelf, bytes>>, LogEntries \subseteq LogEntries',
           imp'.carried = imp.carried, imp'.head = imp.head, imp'.files = imp.files,
           At("write") => \A i \in imp.lines :
               (At("write")' /\ i \in imp'.lines) \/ Entry(Draft[i], SentAt[i]) \in LogEntries'
    PROVE  WholeDue'
<1>1. \A i, x : Awaits(i, x)' <=> Awaits(i, x)
  BY DEF Awaits
<1>2. Carried(imp.carried)' = Carried(imp.carried) /\ LinkPairs(imp.carried)' = LinkPairs(imp.carried)
  BY DEF Carried, LinkPairs
<1>3. \A i \in Carried(imp.carried) : DeedDue(i)'
  BY <1>1 DEF WholeDue, DeedDue, Has
<1>4. \A p \in LinkPairs(imp.carried) : LinkDue(p)'
  BY <1>1, <1>2 DEF WholeDue, LinkDue, Serves, Has
<1> QED
  BY <1>2, <1>3, <1>4 DEF WholeDue

(* What fits depends on the files and on what is carried. *)
LEMMA StillFits ==
    ASSUME Fitting, UNCHANGED <<shelf, bytes>>, imp'.carried = imp.carried
    PROVE  Fitting'
<1>1. Carried(imp.carried)' = Carried(imp.carried) /\ LinkPairs(imp.carried)' = LinkPairs(imp.carried)
  BY DEF Carried, LinkPairs
<1>2. FilesFit'
  BY <1>1 DEF Fitting, FilesFit, Has, Fits, HostPasses
<1>3. LinksFit(imp.carried)'
  BY <1>1 DEF Fitting, LinksFit, LinkHolds, Serves, Has, Fits, DeedAt
<1>4. TrailsFit(imp.carried)'
  BY <1>1 DEF Fitting, TrailsFit, Serves, Has, DeedAt, EvidenceLocal, HostPasses
<1> QED
  BY <1>2, <1>3, <1>4 DEF Fitting

(* What the plan holds, beyond PlanComplete: the sidecar and the head... *)
LEMMA PlanSides ==
    ASSUME SatchelAssumption, ImpOK, NEW i \in Carried(imp.carried),
           DeedFits(i, imp.carried[i], imp.head)
    PROVE  LET puts == DeedPuts(i, imp.carried[i], imp.head)
               side == imp.carried[i].host IN
           /\ side # NoFile => \/ shelf[i]["host"] = side
                               \/ \E w \in puts : w.id = i /\ w.ext = "host"
           /\ \/ imp.head = NoFile \/ Has(i, "head")
              \/ Has(i, "proof") /\ shelf[i]["proof"].size # imp.head.size
              \/ \E w \in puts : w.id = i /\ w.ext = "head"
           /\ \A w \in puts : w.ext = "host" => side # NoFile
<1> DEFINE puts == DeedPuts(i, imp.carried[i], imp.head)
<1>1. PICK f : f = imp.carried[i]
  OBVIOUS
<1>2. ASSUME f.host # NoFile, ~Has(i, "host") PROVE \E w \in puts : w.id = i /\ w.ext = "host"
  <2>1. PICK w : w = Put(<<0, f.proof.index, 3>>, i, "host", f.host)
    OBVIOUS
  <2>2. w.id = i /\ w.ext = "host" /\ w.file = f.host
    BY <2>1 DEF Put
  <2>3. w \in puts
    BY <1>1, <1>2, <2>1, <2>2 DEF DeedPuts
  <2> QED
    BY <2>2, <2>3
<1>3. f.host # NoFile /\ Has(i, "host") => shelf[i]["host"] = f.host
  BY <1>1 DEF DeedFits, Fits, Has
<1>4. ASSUME HeadDue(i, imp.head) PROVE \E w \in puts : w.id = i /\ w.ext = "head"
  <2>1. PICK w : w = Put(<<0, f.proof.index, 6>>, i, "head", imp.head)
    OBVIOUS
  <2>2. w.id = i /\ w.ext = "head"
    BY <2>1 DEF Put
  <2>3. w \in puts
    BY <1>1, <1>4, <2>1 DEF DeedPuts
  <2> QED
    BY <2>2, <2>3
<1>5. ASSUME NEW w \in puts, w.ext = "host" PROVE f.host # NoFile
  BY <1>1, <1>5 DEF DeedPuts, Put
<1> QED
  BY <1>1, <1>2, <1>3, <1>4, <1>5 DEF HeadDue

(* ...and both sides of each link. *)
LEMMA PlanLinks ==
    ASSUME LinksFit(imp.carried), NEW p \in LinkPairs(imp.carried)
    PROVE  /\ \/ shelf[p.new.id]["supersedes"] = LinkFile(p.old)
              \/ \E w \in LinkPuts(imp.carried) : w.id = p.new.id /\ w.ext = "supersedes"
           /\ p.old.id \in Carried(imp.carried) \/ Serves(p.old.id) =>
                  \/ shelf[p.old.id]["successor"] = SuccessorFile(p.new.id)
                  \/ \E w \in LinkPuts(imp.carried) : w.id = p.old.id /\ w.ext = "successor"
<1>1. ASSUME shelf[p.new.id]["supersedes"] # LinkFile(p.old)
      PROVE  \E w \in LinkPuts(imp.carried) : w.id = p.new.id /\ w.ext = "supersedes"
  <2>1. PICK w : w = Put(<<1, p.old.id, 1>>, p.new.id, "supersedes", LinkFile(p.old))
    OBVIOUS
  <2>2. w.id = p.new.id /\ w.ext = "supersedes" /\ w.file = LinkFile(p.old)
    BY <2>1 DEF Put
  <2>3. w \in LinkPuts(imp.carried)
    BY <1>1, <2>1, <2>2 DEF LinkPuts
  <2> QED
    BY <2>2, <2>3
<1>2. ASSUME p.old.id \in Carried(imp.carried) \/ Serves(p.old.id), ~Has(p.old.id, "successor")
      PROVE  \E w \in LinkPuts(imp.carried) : w.id = p.old.id /\ w.ext = "successor"
  <2>1. PICK w : w = Put(<<1, p.old.id, 2>>, p.old.id, "successor", SuccessorFile(p.new.id))
    OBVIOUS
  <2>2. w.id = p.old.id /\ w.ext = "successor"
    BY <2>1 DEF Put
  <2>3. w \in LinkPuts(imp.carried)
    BY <1>2, <2>1, <2>2 DEF LinkPuts
  <2> QED
    BY <2>2, <2>3
<1>3. (p.old.id \in Carried(imp.carried) \/ Serves(p.old.id)) /\ Has(p.old.id, "successor") =>
          shelf[p.old.id]["successor"] = SuccessorFile(p.new.id)
  BY DEF LinksFit, Fits, Has
<1> QED
  BY <1>1, <1>2, <1>3

LEMMA PlanWhole == ASSUME SatchelAssumption, WholeInv, PlanImport PROVE WholeOK'
<1>1. UNCHANGED <<shelf, bytes, log>> /\ imp.pc = "plan" /\ ImpOK /\ PutsOK
  BY DEF PlanImport, OnlyImport, storeVars, At, WholeInv, LandInv, HeldInv, PairInv
<1>2. CASE Refuse
  <2>1. imp'.files = {} /\ imp'.pc = "refused"
    BY <1>2, RefuseOK
  <2> QED
    BY <2>1 DEF WholeOK, SidesCarried, At
<1>3. CASE ~Refuse
  <2>1. CanHold(imp.carried, imp.head)
    BY <1>1, <1>3 DEF PlanImport
  <2>2. PICK w0 : w0 = Files(imp.carried, imp.head)
    OBVIOUS
  <2>3. PICK l0 : l0 = ToLog(imp.carried)
    OBVIOUS
  <2>4. imp' = [imp EXCEPT !.pc = "write", !.todo = {}, !.proven = {},
                           !.signed = NoFile, !.size = 0, !.files = w0, !.lines = l0]
    BY <1>1, <1>3, <2>2, <2>3 DEF PlanImport
  <2>5. /\ imp'.carried = imp.carried /\ imp'.head = imp.head
        /\ imp'.files = w0 /\ imp'.lines = l0 /\ imp'.pc = "write"
    BY <1>1, <2>4 DEF ImpOK, Fields
  <2>6. Fitting'
    BY <1>1, <2>1, <2>5, ThenFits, StillFits
  <2>7. ASSUME NEW i \in Carried(imp.carried)
        PROVE  /\ DeedFits(i, imp.carried[i], imp.head)
               /\ DeedPuts(i, imp.carried[i], imp.head) \subseteq w0
    BY <2>1, <2>2, FilesAre DEF CanHold
  <2>8. LinksFit(imp.carried) /\ LinkPuts(imp.carried) \subseteq w0
    BY <2>1, <2>2, FilesAre DEF CanHold
  <2>9. SidesCarried'
    <3>1. ASSUME NEW w \in w0, w.ext = "host" PROVE imp.carried[w.id].host # NoFile
      <4>1. w \notin LinkPuts(imp.carried)
        BY <3>1 DEF LinkPuts, Put
      <4>2. PICK j \in Carried(imp.carried) : w \in DeedPuts(j, imp.carried[j], imp.head)
        BY <2>2, <3>1, <4>1, FilesAre
      <4>3. w.id = j
        BY <1>1, <4>2, DeedsPlanned
      <4> QED
        BY <1>1, <2>7, <3>1, <4>2, <4>3, PlanSides
    <3> QED
      BY <2>5, <3>1 DEF SidesCarried
  <2>10. ASSUME NEW i \in Carried(imp.carried)
         PROVE  LET f == imp.carried[i] IN
                /\ \/ shelf[i]["cap"] = Draft[i] \/ \E w \in w0 : w.id = i /\ w.ext = "cap"
                /\ \/ shelf[i]["evidence"] = Created(Draft[i], SentAt[i])
                   \/ \E w \in w0 : w.id = i /\ w.ext = "evidence"
                /\ f.host # NoFile => \/ shelf[i]["host"] = f.host
                                      \/ \E w \in w0 : w.id = i /\ w.ext = "host"
                /\ Draft[i].body \in bytes \/ \E w \in w0 : w.id = i /\ w.ext = "bytes"
                /\ Has(i, "proof") \/ \E w \in w0 : w.id = i /\ w.ext = "proof"
                /\ \/ imp.head = NoFile \/ Has(i, "head")
                   \/ \E w \in w0 : w.id = i /\ w.ext = "head"
                   \/ Has(i, "proof") /\ shelf[i]["proof"].size # imp.head.size
                /\ i \in l0 \/ Entry(Draft[i], SentAt[i]) \in LogEntries
    <3>1. PICK puts : puts = DeedPuts(i, imp.carried[i], imp.head) /\ puts \subseteq w0
      BY <2>7
    <3>2. /\ \/ shelf[i]["cap"] = Draft[i]
             \/ \E w \in puts : w.id = i /\ w.ext = "cap"
          /\ \/ shelf[i]["evidence"] = Created(Draft[i], SentAt[i])
             \/ \E w \in puts : w.id = i /\ w.ext = "evidence"
          /\ \/ Draft[i].body \in bytes
             \/ \E w \in puts : w.id = i /\ w.ext = "bytes"
          /\ \/ Has(i, "proof")
             \/ \E w \in puts : w.id = i /\ w.ext = "proof"
      BY <1>1, <2>7, <3>1, PlanComplete
    <3>3. /\ imp.carried[i].host # NoFile =>
                 \/ shelf[i]["host"] = imp.carried[i].host
                 \/ \E w \in puts : w.id = i /\ w.ext = "host"
          /\ \/ imp.head = NoFile \/ Has(i, "head")
             \/ Has(i, "proof") /\ shelf[i]["proof"].size # imp.head.size
             \/ \E w \in puts : w.id = i /\ w.ext = "head"
      BY <1>1, <2>7, <3>1, PlanSides
    <3>4. i \in l0 \/ Entry(Draft[i], SentAt[i]) \in LogEntries
      <4>1. CASE i \notin l0
        <5>1. PICK e \in LogEntries : e.id = i
          BY <2>3, <4>1 DEF ToLog, Carried
        <5>2. e = Entry(Draft[i], SentAt[i])
          BY <1>1, <2>7, <5>1, CarriedIsTaken DEF DeedFits
        <5> QED
          BY <5>1, <5>2
      <4> QED
        BY <4>1
    <3> QED
      BY <3>1, <3>2, <3>3, <3>4
  <2>11. /\ Carried(imp.carried)' = Carried(imp.carried)
         /\ LinkPairs(imp.carried)' = LinkPairs(imp.carried) /\ LogEntries' = LogEntries
    BY <1>1, <2>5 DEF Carried, LinkPairs, LogEntries
  <2>12. \A i \in Carried(imp.carried) : DeedDue(i)'
    BY <1>1, <2>5, <2>10, <2>11 DEF DeedDue, Awaits, Has, At
  <2>13. \A p \in LinkPairs(imp.carried) : LinkDue(p)'
    <3>1. ASSUME NEW p \in LinkPairs(imp.carried)
          PROVE  /\ \/ shelf[p.new.id]["supersedes"] = LinkFile(p.old)
                    \/ \E w \in w0 : w.id = p.new.id /\ w.ext = "supersedes"
                 /\ p.old.id \in Carried(imp.carried) \/ Serves(p.old.id) =>
                        \/ shelf[p.old.id]["successor"] = SuccessorFile(p.new.id)
                        \/ \E w \in w0 : w.id = p.old.id /\ w.ext = "successor"
      BY <2>8, PlanLinks
    <3> QED
      BY <1>1, <2>5, <2>11, <3>1 DEF LinkDue, Awaits, Serves, Has
  <2> QED
    BY <2>5, <2>6, <2>9, <2>11, <2>12, <2>13 DEF WholeOK, WholeDue, At
<1> QED
  BY <1>2, <1>3

(* A line that is added is there, beside those there were. *)
LEMMA AppendedToLog ==
    ASSUME NEW e, log \in Seq(Lines), log' = Append(log, e), e \in Lines
    PROVE  LogEntries \subseteq LogEntries' /\ e \in LogEntries'
<1>1. Len(log) \in Nat /\ Len(log') = Len(log) + 1 /\ log'[Len(log) + 1] = e
      /\ \A k \in 1..Len(log) : log'[k] = log[k]
  OBVIOUS
<1>2. \A k \in 1..Len(log) : k \in 1..Len(log')
  BY <1>1
<1>3. Len(log) + 1 \in 1..Len(log')
  BY <1>1
<1> QED
  BY <1>1, <1>2, <1>3 DEF LogEntries

LEMMA WriteWhole == ASSUME SatchelAssumption, WholeInv, WriteFile PROVE WholeOK'
<1>1. PICK w \in imp.files : Writes(w)
  BY WriteShape DEF WholeInv, LandInv, HeldInv, PairInv
<1>2. log' = log /\ imp'.alone = imp.alone
  <2>1. PICK fs : imp' = [imp EXCEPT !.files = fs]
    BY DEF WriteFile
  <2> QED
    BY <2>1 DEF WriteFile, WholeInv, LandInv, HeldInv, PairInv, ImpOK, Fields
<1>3. SidesCarried'
  BY <1>1 DEF WholeInv, WholeOK, SidesCarried, Writes
<1>4. imp.alone => Fitting /\ WholeDue
  BY <1>1 DEF WholeInv, WholeOK, Writes, At
<1>5. imp.alone => Fitting' /\ WholeDue'
  BY <1>1, <1>2, <1>4, WriteFits, WriteDue DEF WholeInv, WholeOK
<1> QED
  BY <1>1, <1>2, <1>3, <1>5 DEF WholeOK, Writes, At

LEMMA LogWhole == ASSUME SatchelAssumption, WholeInv, LogLine PROVE WholeOK'
<1>1. PICK i \in imp.lines :
          /\ At("write") /\ imp.files = {}
          /\ log' = Append(log, Entry(Draft[i], SentAt[i]))
          /\ Entry(Draft[i], SentAt[i]) \in Lines
          /\ imp'.pc = imp.pc /\ imp'.carried = imp.carried
          /\ imp'.head = imp.head /\ imp'.files = imp.files
          /\ imp'.lines = imp.lines \ {i}
  BY LogShape DEF WholeInv, LandInv, HeldInv, PairInv
<1>2. UNCHANGED <<shelf, bytes>> /\ imp'.alone = imp.alone
  <2>1. PICK ls : imp' = [imp EXCEPT !.lines = ls]
    BY DEF LogLine
  <2> QED
    BY <2>1 DEF LogLine, WholeInv, LandInv, HeldInv, PairInv, ImpOK, Fields
<1>3. LogEntries \subseteq LogEntries' /\ Entry(Draft[i], SentAt[i]) \in LogEntries'
  BY <1>1, AppendedToLog DEF WholeInv, LandInv, HeldInv, PairInv, ShelfOK
<1>4. imp.alone => Fitting /\ WholeDue
  BY <1>1 DEF WholeInv, WholeOK, At
<1>5. imp.alone => Fitting'
  BY <1>1, <1>2, <1>4, StillFits
<1>6. imp.alone => WholeDue'
  BY <1>1, <1>2, <1>3, <1>4, StillDue DEF At
<1> QED
  BY <1>1, <1>2, <1>5, <1>6 DEF WholeOK, SidesCarried, At

(* Steps that read, check or end, and the sender's. *)
LEMMA ReadWhole ==
    ASSUME SatchelAssumption, WholeInv,
           \/ ImportBegin \/ CheckLinks \/ ReadHead
           \/ \E i \in Ids : CheckFolder(i) \/ ReadFolder(i)
           \/ \E allow \in BOOLEAN : Compare(allow)
           \/ ImportDone \/ ImportStop
    PROVE  WholeOK'
<1>1. OnlyImport
  BY DEF ImportBegin, CheckLinks, ReadHead, CheckFolder, ReadFolder, Compare,
         ImportDone, ImportStop
<1>2. UNCHANGED <<shelf, bytes, log>>
  BY <1>1 DEF OnlyImport, storeVars
<1>3. imp'.files = {}
  <2>1. PairInv' /\ imp'.pc # "write"
    BY ReadPair DEF WholeInv, LandInv, HeldInv
  <2> QED
    BY <2>1 DEF PairInv, PutsOK, At
<1>4. SidesCarried'
  BY <1>3 DEF SidesCarried
<1>5. DOMAIN imp = Fields /\ DOMAIN imp.carried = Ids
  BY DEF WholeInv, LandInv, HeldInv, PairInv, ImpOK
<1>6. ASSUME imp'.pc \in {"read", "compare", "plan", "refused"} PROVE WholeOK'
  BY <1>4, <1>6 DEF WholeOK, At
<1>7. CASE Refuse
  BY <1>6, <1>7, RefuseOK
<1>8. CASE ImportBegin
  <2>1. PICK n, t, h : n = imp.count + 1 /\ t = deed_folders /\ h = head
    OBVIOUS
  <2>2. imp' = [NoImport EXCEPT !.pc = "check", !.todo = t, !.signed = h, !.count = n]
    BY <1>8, <2>1 DEF ImportBegin
  <2>3. imp'.pc = "check" /\ imp'.carried = NoImport.carried
    BY <2>2, NoImportOK DEF Fields
  <2>4. Carried(imp.carried)' = {}
    BY <2>3, NoImportOK DEF Carried
  <2> QED
    BY <1>4, <2>3, <2>4 DEF WholeOK, At
<1>9. ASSUME NEW i \in Ids, CheckFolder(i), ~Refuse PROVE WholeOK'
  <2>1. PICK t : t = imp.todo \ {i}
    OBVIOUS
  <2>5. PICK n : n = imp.proven \cup {i}
    OBVIOUS
  <2>6. PICK s : s = bag[i].proof.size
    OBVIOUS
  <2>2. imp' = [imp EXCEPT !.todo = t, !.proven = n, !.size = s] /\ imp.pc = "check"
    BY <1>9, <2>1, <2>5, <2>6 DEF CheckFolder, At
  <2>3. imp'.pc = "check" /\ imp'.carried = imp.carried
    BY <1>5, <2>2 DEF Fields
  <2>4. Carried(imp.carried)' = {}
    BY <2>2, <2>3 DEF Carried, WholeInv, WholeOK, At
  <2> QED
    BY <1>4, <2>3, <2>4 DEF WholeOK, At
<1>10. ASSUME CheckLinks, ~Refuse PROVE WholeOK'
  <2>1. PICK t : t = deed_folders
    OBVIOUS
  <2>2. CASE imp' = [imp EXCEPT !.pc = "read", !.todo = t]
    BY <1>5, <1>6, <2>2 DEF Fields
  <2>3. CASE imp' = [imp EXCEPT !.pc = "ok"] /\ imp.pc = "check"
    <3>1. imp'.pc = "ok" /\ imp'.carried = imp.carried
      BY <1>5, <2>3 DEF Fields
    <3>2. Carried(imp.carried)' = {} /\ LinkPairs(imp.carried)' = {}
      BY <2>3, <3>1 DEF Carried, LinkPairs, WholeInv, WholeOK, At
    <3>3. Fitting' /\ WholeDue'
      BY <3>2 DEF Fitting, FilesFit, LinksFit, TrailsFit, WholeDue
    <3> QED
      BY <1>4, <3>1, <3>3 DEF WholeOK, At
  <2> QED
    BY <1>10, <2>1, <2>2, <2>3 DEF CheckLinks, At
<1>11. ASSUME NEW i \in Ids, ReadFolder(i), ~Refuse PROVE WholeOK'
  <2>1. PICK t, f : t = imp.todo \ {i} /\ f = bag[i]
    OBVIOUS
  <2>2. imp' = [imp EXCEPT !.todo = t, !.carried[i] = f] /\ imp.pc = "read"
    BY <1>11, <2>1 DEF ReadFolder, At
  <2> QED
    BY <1>5, <1>6, <2>2 DEF Fields
<1>12. ASSUME ReadHead PROVE WholeOK'
  <2>1. PICK h : imp' = [imp EXCEPT !.pc = "compare", !.head = h]
    BY <1>12 DEF ReadHead
  <2> QED
    BY <1>5, <1>6, <2>1 DEF Fields
<1>13. ASSUME NEW allow \in BOOLEAN, Compare(allow), ~Refuse PROVE WholeOK'
  <2>1. imp' = [imp EXCEPT !.pc = "plan"]
    BY <1>13 DEF Compare
  <2> QED
    BY <1>5, <1>6, <2>1 DEF Fields
<1>14. ASSUME ImportDone PROVE WholeOK'
  <2>1. imp' = [imp EXCEPT !.pc = "ok"] /\ imp.files = {} /\ imp.lines = {} /\ imp.pc = "write"
    BY <1>14 DEF ImportDone, At
  <2>2. /\ imp'.pc = "ok" /\ imp'.carried = imp.carried /\ imp'.head = imp.head
        /\ imp'.alone = imp.alone /\ imp'.files = imp.files
    BY <1>5, <2>1 DEF Fields
  <2>3. imp.alone => Fitting /\ WholeDue
    BY <2>1 DEF WholeInv, WholeOK
  <2>4. LogEntries' = LogEntries
    BY <1>2 DEF LogEntries
  <2>5. imp.alone => Fitting' /\ WholeDue'
    BY <1>2, <2>1, <2>2, <2>3, <2>4, StillFits, StillDue
  <2> QED
    BY <1>4, <2>2, <2>5 DEF WholeOK, At
<1>15. ASSUME ImportStop, ~Refuse PROVE WholeOK'
  <2>1. imp' = [imp EXCEPT !.pc = "stopped", !.files = {}, !.lines = {}] /\ imp.pc = "write"
    BY <1>15 DEF ImportStop, At
  <2>2. imp'.pc = "stopped" /\ imp'.carried = imp.carried /\ imp'.alone = imp.alone
    BY <1>5, <2>1 DEF Fields
  <2>3. imp.alone => Fitting'
    BY <1>2, <2>1, <2>2, StillFits DEF WholeInv, WholeOK
  <2> QED
    BY <1>4, <2>2, <2>3 DEF WholeOK, At
<1> QED
  BY <1>7, <1>8, <1>9, <1>10, <1>11, <1>12, <1>13, <1>14, <1>15

(* Other commands: a create or a delete ends what an import may count on. *)
LEMMA LocalWhole ==
    ASSUME SatchelAssumption, HandoverAssumption, WholeInv, LocalStep PROVE WholeOK'
<1>1. /\ imp'.pc = imp.pc /\ imp'.carried = imp.carried
      /\ imp'.head = imp.head /\ imp'.files = imp.files /\ imp'.lines = imp.lines
  BY LocalFrame DEF LocalStep, WholeInv, LandInv, HeldInv, PairInv
<1>2. SidesCarried' /\ (At("check")' => Carried(imp.carried)' = {})
  BY <1>1 DEF WholeInv, WholeOK, SidesCarried, At, Carried
<1>3. CASE NotAlone
  <2>1. ~imp'.alone
    BY <1>3 DEF NotAlone, WholeInv, LandInv, HeldInv, PairInv, ImpOK, Fields
  <2> QED
    BY <1>2, <2>1 DEF WholeOK
<1>4. ASSUME NEW i \in Ids, NEW t \in Nows, Backfill(i, t) PROVE WholeOK'
  <2>1. UNCHANGED <<shelf, bytes, imp>> /\ \E e \in Lines : log' = Append(log, e)
    BY <1>4, BackfillShape DEF WholeInv, LandInv, HeldInv, PairInv
  <2>2. LogEntries \subseteq LogEntries'
    BY <2>1, AppendedToLog DEF WholeInv, LandInv, HeldInv, PairInv, ShelfOK
  <2>3. Fitting => Fitting'
    BY <2>1, StillFits
  <2>4. WholeDue => WholeDue'
    BY <2>1, <2>2, StillDue DEF At
  <2> QED
    BY <1>2, <2>1, <2>3, <2>4 DEF WholeInv, WholeOK
<1> QED
  BY <1>3, <1>4 DEF LocalStep, LocalCreate, LocalDelete

LEMMA NextWhole ==
    ASSUME SatchelAssumption, HandoverAssumption, Apart, Patient, WholeInv, [Next]_vars
    PROVE  WholeInv'
<1>1. LandInv'
  BY NextLand DEF WholeInv
<1>2. CASE SenderStep \/ UNCHANGED vars
  <2>1. UNCHANGED <<shelf, bytes, log, imp>>
    BY <1>2 DEF SenderStep, vars, storeVars
  <2>2. LogEntries' = LogEntries
    BY <2>1 DEF LogEntries
  <2>3. (Fitting => Fitting') /\ (WholeDue => WholeDue')
    BY <2>1, <2>2, StillFits, StillDue DEF At
  <2>4. SidesCarried' /\ (At("check")' => Carried(imp.carried)' = {})
    BY <2>1 DEF WholeInv, WholeOK, SidesCarried, At, Carried
  <2>5. WholeOK'
    BY <2>1, <2>3, <2>4 DEF WholeInv, WholeOK
  <2> QED
    BY <1>1, <2>5 DEF WholeInv
<1> QED
  BY <1>1, <1>2, ReadWhole, PlanWhole, WriteWhole, LogWhole, LocalWhole
     DEF WholeInv, Next, ImportStep

LEMMA InitWhole == ASSUME SatchelAssumption, Init PROVE WholeInv
<1>1. imp.pc = "idle" /\ imp.files = {}
  BY NoImportOK DEF Init
<1> QED
  BY <1>1, InitLand DEF WholeInv, WholeOK, SidesCarried, At

(* What a plan was made for stays as the plan found it while it is written, and
   what it holds is there in the end, for any stop, any local backfill and any
   export meanwhile (plan_import, write_import, append_log). *)
THEOREM WholeInvariant == ASSUME Apart, Patient PROVE Spec => []WholeInv
<1>1. Init => WholeInv
  BY InitWhole, SatchelAssumption
<1>2. WholeInv /\ [Next]_vars => WholeInv'
  BY NextWhole, SatchelAssumption, HandoverAssumption
<1> QED
  BY <1>1, <1>2, PTL DEF Spec

(* An import that stopped between any two of its writes is not refused when the
   same bag comes again: no file it left is in the way of another. *)
THEOREM StoppedImportsResume == ASSUME Apart, Patient PROVE Spec => []Resumable
<1>1. WholeInv => Resumable
  BY FitsThen, SatchelAssumption DEF WholeInv, WholeOK, Resumable, At
<1> QED
  BY <1>1, WholeInvariant, PTL

(* What a whole import leaves: each file of the plan, with nothing awaited. *)
LEMMA WholeLeaves ==
    ASSUME SatchelAssumption, WholeInv, At("ok"), imp.alone
    PROVE  /\ ImpOK /\ Fitting
           /\ \A i \in Carried(imp.carried) :
                  LET f == imp.carried[i] IN
                  /\ shelf[i]["cap"] = Draft[i] /\ Draft[i] # NoFile
                  /\ shelf[i]["evidence"] = Created(Draft[i], SentAt[i])
                  /\ f.host # NoFile => shelf[i]["host"] = f.host
                  /\ Draft[i].body \in bytes /\ Has(i, "proof") /\ ~HeadDue(i, imp.head)
                  /\ Entry(Draft[i], SentAt[i]) \in LogEntries
           /\ \A p \in LinkPairs(imp.carried) :
                  /\ shelf[p.new.id]["supersedes"] = LinkFile(p.old)
                  /\ p.old.id \in Carried(imp.carried) \/ Serves(p.old.id) =>
                         shelf[p.old.id]["successor"] = SuccessorFile(p.new.id)
<1>1. ImpOK /\ Fitting /\ WholeDue
  BY DEF WholeInv, WholeOK, LandInv, HeldInv, PairInv, At
<1>2. imp.pc = "ok" /\ imp.files = {}
  BY DEF WholeInv, LandInv, HeldInv, PairInv, PutsOK, At
<1>3. \A i, x : ~Awaits(i, x)
  BY <1>2 DEF Awaits
<1>4. ASSUME NEW i \in Carried(imp.carried)
      PROVE  LET f == imp.carried[i] IN
             /\ shelf[i]["cap"] = Draft[i] /\ Draft[i] # NoFile
             /\ shelf[i]["evidence"] = Created(Draft[i], SentAt[i])
             /\ f.host # NoFile => shelf[i]["host"] = f.host
             /\ Draft[i].body \in bytes /\ Has(i, "proof") /\ ~HeadDue(i, imp.head)
             /\ Entry(Draft[i], SentAt[i]) \in LogEntries
  <2>1. i \in Ids
    BY <1>1, CarriedIsTaken
  <2>2. DeedDue(i)
    BY <1>1 DEF WholeDue
  <2>3. Draft[i] # NoFile
    BY <2>1, FilesAreFiles
  <2>4. ~HeadDue(i, imp.head)
    BY <1>3, <2>2 DEF DeedDue, HeadDue
  <2> QED
    BY <1>2, <1>3, <2>2, <2>3, <2>4 DEF DeedDue, At
<1>5. \A p \in LinkPairs(imp.carried) :
          /\ shelf[p.new.id]["supersedes"] = LinkFile(p.old)
          /\ p.old.id \in Carried(imp.carried) \/ Serves(p.old.id) =>
                 shelf[p.old.id]["successor"] = SuccessorFile(p.new.id)
  BY <1>1, <1>3 DEF WholeDue, LinkDue
<1> QED
  BY <1>1, <1>4, <1>5

(* Every deed it carried is served, and is what the folder had. *)
LEMMA WholeServes ==
    ASSUME SatchelAssumption, WholeInv, At("ok"), imp.alone, NEW i \in Carried(imp.carried)
    PROVE  /\ i \in Ids /\ Serves(i) /\ DeedAt(i) = Draft[i] /\ imp.carried[i].deed = Draft[i]
           /\ EvidenceLocal(i)
<1>1. i \in Ids /\ imp.carried[i].deed = Draft[i]
  BY WholeLeaves, CarriedIsTaken DEF Taken
<1>2. /\ shelf[i]["cap"] = Draft[i] /\ Draft[i] # NoFile
      /\ shelf[i]["evidence"] = Created(Draft[i], SentAt[i])
      /\ imp.carried[i].host # NoFile => shelf[i]["host"] = imp.carried[i].host
      /\ Draft[i].body \in bytes
  BY WholeLeaves
<1>3. /\ ~Has(i, "tomb")
      /\ HostPasses(Draft[i], SentAt[i],
             IF imp.carried[i].host # NoFile THEN imp.carried[i].host ELSE shelf[i]["host"])
  BY WholeLeaves DEF Fitting, FilesFit
<1>4. HostPasses(Draft[i], SentAt[i], shelf[i]["host"])
  BY <1>2, <1>3
<1>5. DeedAt(i) = Draft[i] /\ Serves(i)
  BY <1>2, <1>3 DEF DeedAt, Serves, Has
<1>6. PICK ev : ev = Created(Draft[i], SentAt[i])
  OBVIOUS
<1>7. ev.deed = Draft[i] /\ ev.time = SentAt[i] /\ ev # NoFile
  BY <1>6, FilesAreFiles DEF Created
<1>8. EvidenceLocal(i)
  BY <1>2, <1>4, <1>5, <1>6, <1>7 DEF EvidenceLocal
<1> QED
  BY <1>1, <1>5, <1>8

(* After an import that ended, the same bag again is not refused and has no file
   and no line to add (plan_import of a bag that is held). *)
THEOREM AgainIsNothing == ASSUME Apart, Patient PROVE Spec => []AgainAddsNothing
<1>1. ASSUME WholeInv, At("ok"), imp.alone
      PROVE  /\ CanHold(imp.carried, imp.head)
             /\ Files(imp.carried, imp.head) = {}
             /\ ToLog(imp.carried) = {}
  <2>1. CanHold(imp.carried, imp.head)
    BY <1>1, FitsThen, WholeLeaves, SatchelAssumption DEF WholeInv
  <2>2. ASSUME NEW i \in Carried(imp.carried), NEW w \in DeedPuts(i, imp.carried[i], imp.head)
        PROVE  FALSE
    <3>1. PICK f : f = imp.carried[i]
      OBVIOUS
    <3>2. /\ shelf[i]["cap"] = Draft[i] /\ Draft[i] # NoFile
          /\ shelf[i]["evidence"] = Created(Draft[i], SentAt[i])
          /\ f.host # NoFile => shelf[i]["host"] = f.host
          /\ Draft[i].body \in bytes /\ Has(i, "proof") /\ ~HeadDue(i, imp.head)
      BY <1>1, <3>1, WholeLeaves, SatchelAssumption
    <3>3. f.deed = Draft[i] /\ Created(Draft[i], SentAt[i]) # NoFile
      BY <1>1, <3>1, WholeServes, FilesAreFiles, SatchelAssumption
    <3>4. Has(i, "cap") /\ Has(i, "evidence") /\ (f.host # NoFile => Has(i, "host"))
      BY <3>2, <3>3 DEF Has
    <3> QED
      BY <2>2, <3>1, <3>2, <3>3, <3>4 DEF DeedPuts, Put
  <2>3. ASSUME NEW w \in LinkPuts(imp.carried) PROVE FALSE
    <3>1. CASE w \in {Put(<<1, p.old.id, 1>>, p.new.id, "supersedes", LinkFile(p.old)) :
                          p \in LinkPairs(imp.carried)} /\ shelf[w.id][w.ext] # w.file
      <4>1. PICK p \in LinkPairs(imp.carried) :
                w = Put(<<1, p.old.id, 1>>, p.new.id, "supersedes", LinkFile(p.old))
        BY <3>1
      <4>2. w.id = p.new.id /\ w.ext = "supersedes" /\ w.file = LinkFile(p.old)
        BY <4>1 DEF Put
      <4> QED
        BY <1>1, <3>1, <4>2, WholeLeaves, SatchelAssumption
    <3>2. CASE w \in {Put(<<1, p.old.id, 2>>, p.old.id, "successor", SuccessorFile(p.new.id)) :
                          p \in LinkPairs(imp.carried)}
               /\ ~Has(w.id, w.ext) /\ (w.id \in Carried(imp.carried) \/ Serves(w.id))
      <4>1. PICK p \in LinkPairs(imp.carried) :
                w = Put(<<1, p.old.id, 2>>, p.old.id, "successor", SuccessorFile(p.new.id))
        BY <3>2
      <4>2. w.id = p.old.id /\ w.ext = "successor"
        BY <4>1 DEF Put
      <4>3. shelf[p.old.id]["successor"] = SuccessorFile(p.new.id)
        BY <1>1, <3>2, <4>2, WholeLeaves, SatchelAssumption
      <4>4. SuccessorFile(p.new.id) # NoFile
        BY DEF SuccessorFile, NoFile
      <4> QED
        BY <3>2, <4>2, <4>3, <4>4 DEF Has
    <3> QED
      BY <2>3, <3>1, <3>2 DEF LinkPuts
  <2>4. Files(imp.carried, imp.head) = {}
    BY <2>2, <2>3, FilesAre
  <2>5. ASSUME NEW i \in ToLog(imp.carried) PROVE FALSE
    <3>1. i \in Carried(imp.carried) /\ \A e \in LogEntries : e.id # i
      BY <2>5 DEF ToLog, Carried
    <3>2. PICK e \in LogEntries : e = Entry(Draft[i], SentAt[i])
      BY <1>1, <3>1, WholeLeaves, SatchelAssumption
    <3>3. e.id = i
      BY <1>1, <3>1, <3>2, WholeServes, SatchelAssumption DEF Entry
    <3> QED
      BY <3>1, <3>3
  <2> QED
    BY <2>1, <2>4, <2>5
<1>2. WholeInv => AgainAddsNothing
  BY <1>1 DEF AgainAddsNothing
<1> QED
  BY <1>2, WholeInvariant, PTL

(* After an import that ended every deed it carried passes evidence along its
   trail, has the sender's line in the log, and leads on to the revision that
   the bag named, which names it back with its digest. *)
THEOREM ImportsAnswer == ASSUME Apart, Patient PROVE Spec => []ImportedAnswers
<1>1. ASSUME WholeInv, At("ok"), imp.alone, NEW i \in Carried(imp.carried)
      PROVE  /\ EvidencePasses(i)
             /\ imp.carried[i].proof.entry \in LogEntries
             /\ imp.carried[i].successor # NoFile =>
                    LET j == imp.carried[i].successor.id IN
                    /\ shelf[i]["successor"] = SuccessorFile(j) /\ Serves(j)
                    /\ shelf[j]["supersedes"] = LinkFile(Link(DeedAt(i)))
  <2>1. EvidencePasses(i)
    <3>1. PICK trail \in SUBSET Ids :
                   /\ i \in trail
                   /\ \A j \in trail :
                       IF j \in Carried(imp.carried)
                       THEN imp.carried[j].deed.sources \subseteq trail
                       ELSE /\ Serves(j)
                            /\ DeedAt(j).sources \subseteq trail
                            /\ EvidenceLocal(j)
      BY <1>1, WholeLeaves, SatchelAssumption DEF Fitting, TrailsFit
    <3>2. ASSUME NEW j \in trail
          PROVE  Serves(j) /\ DeedAt(j).sources \subseteq trail /\ EvidenceLocal(j)
      BY <1>1, <3>1, WholeServes, SatchelAssumption
    <3> QED
      BY <3>1, <3>2 DEF EvidencePasses
  <2>2. imp.carried[i].proof.entry \in LogEntries
    BY <1>1, WholeLeaves, CarriedIsTaken, SatchelAssumption
  <2>3. ASSUME imp.carried[i].successor # NoFile
        PROVE  LET j == imp.carried[i].successor.id IN
               /\ shelf[i]["successor"] = SuccessorFile(j) /\ Serves(j)
               /\ shelf[j]["supersedes"] = LinkFile(Link(DeedAt(i)))
    <3>1. PICK p : p = [old |-> Link(imp.carried[i].deed), new |-> imp.carried[i].successor]
      OBVIOUS
    <3>2. p \in LinkPairs(imp.carried)
      BY <1>1, <2>3, <3>1 DEF LinkPairs
    <3>3. /\ i \in Ids /\ imp.carried[i].deed = Draft[i] /\ DeedAt(i) = Draft[i]
      BY <1>1, WholeServes, SatchelAssumption
    <3>4. /\ p.old = Link(DeedAt(i)) /\ p.new.id = imp.carried[i].successor.id
          /\ p.old.id = i
      BY <3>1, <3>3, FilesAreFiles, SatchelAssumption DEF Link
    <3>5. /\ shelf[p.new.id]["supersedes"] = LinkFile(p.old)
          /\ shelf[i]["successor"] = SuccessorFile(p.new.id)
      BY <1>1, <3>2, <3>4, WholeLeaves, SatchelAssumption
    <3>6. p.new.id \in Carried(imp.carried) \/ Serves(p.new.id)
      BY <1>1, <3>2, WholeLeaves, SatchelAssumption DEF Fitting, LinksFit
    <3>7. Serves(p.new.id)
      BY <1>1, <3>6, WholeServes, SatchelAssumption
    <3> QED
      BY <3>4, <3>5, <3>7
  <2> QED
    BY <2>1, <2>2, <2>3
<1>2. WholeInv => ImportedAnswers
  BY <1>1 DEF ImportedAnswers
<1> QED
  BY <1>2, WholeInvariant, PTL

-----------------------------------------------------------------------------
(* The links an import goes by were signed. *)

(* A bag may lose files, but not those that name what a deed was made from or
   supersedes: then a head signed over it could lack them. *)
LinksArrive == Losable \cap {"supersedes", "sources"} = {}

(* proof.txt is written after the link files, and these are the same in every
   export. *)
LinksOK ==
    /\ \A i \in Ids : bag[i].proof # NoFile =>
           bag[i].supersedes = PriorLink(i) /\ bag[i].sources = AllSources(i)
    /\ exp.pc \in {"successor", "sources", "proof"} =>
           bag[exp.id].supersedes = PriorLink(exp.id)
    /\ exp.pc = "proof" => bag[exp.id].sources = AllSources(exp.id)

LEMMA SenderLinks ==
    ASSUME SatchelAssumption, LinksArrive, SenderInv, LinksOK, SenderStep
    PROVE  LinksOK'
<1>1. ASSUME bag' = bag, exp'.pc \notin {"successor", "sources", "proof"} \/ exp' = exp
      PROVE  LinksOK'
  BY <1>1 DEF LinksOK
<1>2. ASSUME NEW i \in Ids, SenderCreate(i) \/ SenderLog(i) \/ SenderDelete(i)
      PROVE  LinksOK'
  BY <1>1, <1>2 DEF SenderCreate, SenderLog, SenderDelete
<1>3. exp \in [pc : {"idle", "next", "successor", "sources", "proof", "head", "refuse"},
               todo : SUBSET Ids, id : Ids \cup {NoId}, size : Nat,
               sealed : BOOLEAN, count : Nat]
  BY DEF SenderInv, ExpOK
<1>4. CASE \/ \E asked \in Exports, sealed \in Seals : ExportBegin(asked, sealed)
           \/ \E i \in Ids : ExportMissing(i)
           \/ ExportHead \/ ExportRefused \/ ExportStop
  <2>1. bag' = bag
    BY <1>4 DEF ExportBegin, ExportMissing, ExportHead, ExportRefused, ExportStop
  <2>2. exp'.pc \in {"idle", "next", "refuse"}
    <3>1. CASE \E asked \in Exports, sealed \in Seals : ExportBegin(asked, sealed)
      BY <3>1 DEF ExportBegin
    <3>2. CASE \E i \in Ids : ExportMissing(i)
      BY <1>3, <3>2 DEF ExportMissing
    <3>3. CASE ExportHead \/ ExportRefused
      <4>1. ExportNext
        BY <3>3 DEF ExportHead, ExportRefused
      <4>2. PICK left : left = exp.todo \ {exp.id}
        OBVIOUS
      <4>3. \/ exp' = NoExport(exp.count)
            \/ exp' = [exp EXCEPT !.pc = "next", !.todo = left, !.id = NoId]
        BY <4>1, <4>2 DEF ExportNext
      <4>4. CASE exp' = NoExport(exp.count)
        BY <4>4 DEF NoExport
      <4>5. CASE exp' = [exp EXCEPT !.pc = "next", !.todo = left, !.id = NoId]
        BY <1>3, <4>5
      <4> QED
        BY <4>3, <4>4, <4>5
    <3>4. CASE ExportStop
      BY <3>4 DEF ExportStop, NoExport
    <3> QED
      BY <1>4, <3>1, <3>2, <3>3, <3>4
  <2> QED
    BY <1>1, <2>1, <2>2
<1>5. ASSUME NEW i \in Ids, ExportRecords(i) PROVE LinksOK'
  <2>1. /\ bag'[i].supersedes = PriorLink(i) /\ bag'[i].sources = bag[i].sources
        /\ bag'[i].proof = bag[i].proof /\ \A j \in Ids \ {i} : bag'[j] = bag[j]
    BY <1>5, ExportRecordsInv
  <2>2. exp'.pc = "successor" /\ exp'.id = i
    BY <1>3, <1>5 DEF ExportRecords
  <2> QED
    BY <2>1, <2>2 DEF LinksOK
<1>6. CASE ExportSuccessor
  <2>1. \A j \in Ids : /\ bag'[j].supersedes = bag[j].supersedes
                       /\ bag'[j].sources = bag[j].sources
                       /\ bag'[j].proof = bag[j].proof
    BY <1>6, ExportSuccessorInv
  <2>2. exp'.pc = "sources" /\ exp'.id = exp.id /\ exp.pc = "successor" /\ exp.id \in Ids
    BY <1>3, <1>6 DEF ExportSuccessor, SenderInv, ExpOK
  <2> QED
    BY <2>1, <2>2 DEF LinksOK
<1>7. CASE ExportSources
  <2>1. /\ exp'.id = exp.id
        /\ \/ exp'.pc = "refuse" /\ bag' = bag
           \/ exp'.pc = "proof" /\ bag'[exp.id].sources = AllSources(exp.id)
        /\ \A j \in Ids : /\ bag'[j].supersedes = bag[j].supersedes
                          /\ j # exp.id => bag'[j].sources = bag[j].sources
                          /\ bag'[j].proof = bag[j].proof
    BY <1>7, ExportSourcesInv
  <2>2. exp.pc = "sources" /\ exp.id \in Ids
    BY <1>7 DEF ExportSources, SenderInv, ExpOK
  <2>3. bag[exp.id].supersedes = PriorLink(exp.id)
    BY <2>2 DEF LinksOK
  <2>4. CASE exp'.pc = "refuse" /\ bag' = bag
    BY <1>1, <2>4
  <2>5. CASE exp'.pc = "proof" /\ bag'[exp.id].sources = AllSources(exp.id)
    BY <2>1, <2>2, <2>3, <2>5 DEF LinksOK
  <2> QED
    BY <2>1, <2>4, <2>5
<1>8. CASE ExportProof
  <2>1. /\ exp'.pc \in {"head", "refuse"}
        /\ \A j \in Ids : /\ bag'[j].supersedes = bag[j].supersedes
                          /\ bag'[j].sources = bag[j].sources
                          /\ j # exp.id => bag'[j].proof = bag[j].proof
    BY <1>8, ExportProofInv
  <2>2. bag[exp.id].supersedes = PriorLink(exp.id) /\ bag[exp.id].sources = AllSources(exp.id)
    BY <1>8 DEF ExportProof, LinksOK
  <2>3. ASSUME NEW j \in Ids, bag'[j].proof # NoFile
        PROVE  bag'[j].supersedes = PriorLink(j) /\ bag'[j].sources = AllSources(j)
    <3>1. CASE j = exp.id
      BY <2>1, <2>2, <3>1
    <3>2. CASE j # exp.id
      BY <2>1, <2>3, <3>2 DEF LinksOK
    <3> QED
      BY <3>1, <3>2
  <2> QED
    BY <2>1, <2>3 DEF LinksOK
<1>9. CASE NewBag
  <2>1. \A i \in Ids : bag'[i].proof = NoFile
    BY <1>9, NewBagInv DEF EmptyFolder
  <2>2. exp' = exp /\ exp.pc = "idle"
    BY <1>9 DEF NewBag, ExportIdle
  <2> QED
    BY <2>1, <2>2 DEF LinksOK
<1>10. CASE Lose
  <2>1. \A i \in Ids : /\ bag'[i].proof \in {bag[i].proof, NoFile}
                       /\ bag'[i].supersedes = bag[i].supersedes
                       /\ bag'[i].sources = bag[i].sources
    BY <1>10, LoseInv DEF LinksArrive
  <2>2. exp' = exp /\ exp.pc = "idle"
    BY <1>10 DEF Lose, ExportIdle
  <2> QED
    BY <2>1, <2>2 DEF LinksOK
<1> QED
  BY <1>2, <1>4, <1>5, <1>6, <1>7, <1>8, <1>9, <1>10 DEF SenderStep

(* How far an import got with the links: `s` is the successor that the head it
   checked gives, and nothing that was read is taken back. *)
LinksSigned(i) ==
    i \in DOMAIN imp.signed.links /\
    \E s \in {NoFile, bag[i].successor} :
        /\ imp.signed.links[i] = <<AllSources(i), PriorLink(i), s>>
        /\ i \in Carried(imp.carried) => s \in {NoFile, imp.carried[i].successor}

LinksRead(i) ==
    /\ bag[i].proof # NoFile
    /\ imp.carried[i].sources = AllSources(i) /\ imp.carried[i].supersedes = PriorLink(i)
    /\ imp.carried[i].successor \in {NoFile, bag[i].successor}

CheckOK ==
    /\ imp.pc = "check" => Carried(imp.carried) = {}
    /\ imp.pc \in {"check", "read", "compare"} =>
           /\ \A i \in imp.proven : i \in Ids /\ bag[i].proof # NoFile
           /\ \A i \in Carried(imp.carried) : LinksRead(i)
    /\ imp.pc \in {"read", "compare"} /\ imp.signed # NoFile =>
           \A i \in imp.proven : LinksSigned(i)
    /\ LinksWereSigned

LinkInv == PairInv /\ LinksOK /\ CheckOK

(* A folder with a receipt is one, and its links are all there. *)
LEMMA CommitmentIsAll ==
    ASSUME LinksOK, NEW h, links_bound(h), NEW i \in Ids, bag[i].proof # NoFile
    PROVE  /\ i \in DOMAIN h.links
           /\ h.links[i] = <<AllSources(i), PriorLink(i), bag[i].successor>>
<1>1. i \in deed_folders
  BY DEF deed_folders, EmptyFolder
<1>2. h.links[i] = <<bag[i].sources, bag[i].supersedes, bag[i].successor>>
  BY <1>1 DEF links_bound, link_commitment
<1>3. i \in DOMAIN h.links
  BY <1>1 DEF links_bound, link_commitment
<1> QED
  BY <1>2, <1>3 DEF LinksOK

LEMMA SenderLink ==
    ASSUME SatchelAssumption, LinksArrive, LinkInv, SenderStep PROVE LinkInv'
<1>1. PairInv' /\ LinksOK'
  BY SenderPair, SenderLinks DEF LinkInv, PairInv
<1>2. imp' = imp /\ (imp.pc \notin Ended => BagGrows)
  BY SenderKeeps DEF LinkInv, PairInv
<1>3. ASSUME imp.pc \in {"check", "read", "compare"}
      PROVE  /\ \A i \in imp.proven : i \in Ids /\ bag'[i].proof # NoFile
             /\ \A i \in Carried(imp.carried) : LinksRead(i)'
             /\ \A i \in imp.proven : LinksSigned(i) => LinksSigned(i)'
  <2>1. BagGrows
    BY <1>2, <1>3 DEF Ended
  <2>2. \A i \in imp.proven : i \in Ids /\ bag'[i].proof # NoFile
    BY <1>3, <2>1 DEF LinkInv, CheckOK, BagGrows
  <2>3. ASSUME NEW i \in Carried(imp.carried) PROVE LinksRead(i)'
    <3>1. i \in Ids /\ LinksRead(i)
      BY <1>3 DEF LinkInv, CheckOK, Carried
    <3>2. /\ bag'[i].proof # NoFile
          /\ bag[i].successor # NoFile => bag'[i].successor = bag[i].successor
      BY <2>1, <3>1 DEF BagGrows, LinksRead
    <3> QED
      BY <1>2, <3>1, <3>2 DEF LinksRead
  <2>4. ASSUME NEW i \in imp.proven, LinksSigned(i) PROVE LinksSigned(i)'
    <3>1. bag[i].successor # NoFile => bag'[i].successor = bag[i].successor
      BY <1>3, <2>1 DEF LinkInv, CheckOK, BagGrows
    <3>2. PICK s \in {NoFile, bag[i].successor} :
              /\ imp.signed.links[i] = <<AllSources(i), PriorLink(i), s>>
              /\ i \in Carried(imp.carried) => s \in {NoFile, imp.carried[i].successor}
      BY <2>4 DEF LinksSigned
    <3>3. s \in {NoFile, bag'[i].successor}
      BY <3>1, <3>2
    <3> QED
      BY <1>2, <2>4, <3>2, <3>3 DEF LinksSigned
  <2> QED
    BY <2>2, <2>3, <2>4
<1>4. CheckOK'
  BY <1>2, <1>3 DEF LinkInv, CheckOK, LinksWereSigned, CoveredBy, At
<1> QED
  BY <1>1, <1>4 DEF LinkInv

(* The store changes, or an import ended. *)
LEMMA OtherLink ==
    ASSUME LinkInv, PairInv', UNCHANGED <<bag, exp>>,
           imp'.pc \in Ended \cup {"write"}
           \/ (/\ imp'.pc = imp.pc /\ imp.pc \in Ended \cup {"plan", "write"}
               /\ imp'.carried = imp.carried /\ imp'.head = imp.head
               /\ imp'.signed = imp.signed)
    PROVE  LinkInv'
<1>1. LinksOK'
  BY DEF LinkInv, LinksOK
<1>2. CheckOK'
  BY DEF LinkInv, CheckOK, LinksWereSigned, CoveredBy, At, Ended
<1> QED
  BY <1>1, <1>2 DEF LinkInv

LEMMA CompareLink ==
    ASSUME SatchelAssumption, LinkInv, same_as_checked, imp.pc = "compare"
    PROVE  imp.head # NoFile =>
               \A i \in Carried(imp.carried) : CoveredBy(imp.signed, i) \/ CoveredBy(imp.head, i)
<1>1. ASSUME imp.head # NoFile, NEW i \in Carried(imp.carried)
      PROVE  CoveredBy(imp.signed, i) \/ CoveredBy(imp.head, i)
  <2>1. /\ i \in imp.proven /\ i \in Ids /\ imp.signed # NoFile /\ links_bound(imp.head)
        /\ bag[i].proof # NoFile /\ LinksRead(i) /\ LinksSigned(i)
    BY <1>1 DEF same_as_checked, LinkInv, CheckOK, Carried
  <2>2. /\ i \in DOMAIN imp.head.links
        /\ imp.head.links[i] = <<AllSources(i), PriorLink(i), bag[i].successor>>
    BY <2>1, CommitmentIsAll DEF LinkInv
  <2>3. PICK s \in {NoFile, bag[i].successor} :
            /\ imp.signed.links[i] = <<AllSources(i), PriorLink(i), s>>
            /\ s \in {NoFile, imp.carried[i].successor}
    BY <1>1, <2>1 DEF LinksSigned
  <2>4. CASE imp.carried[i].successor = bag[i].successor
    BY <1>1, <2>1, <2>2, <2>4 DEF CoveredBy, LinksRead
  <2>5. CASE imp.carried[i].successor = NoFile
    BY <2>1, <2>3, <2>5 DEF CoveredBy, LinksRead, LinksSigned
  <2> QED
    BY <2>1, <2>4, <2>5 DEF LinksRead
<1> QED
  BY <1>1

LEMMA ReadLink ==
    ASSUME SatchelAssumption, LinkInv,
           \/ ImportBegin \/ CheckLinks \/ ReadHead
           \/ \E i \in Ids : CheckFolder(i) \/ ReadFolder(i)
           \/ \E allow \in BOOLEAN : Compare(allow)
           \/ PlanImport \/ WriteFile \/ LogLine \/ ImportDone \/ ImportStop
    PROVE  LinkInv'
<1>1. PairInv'
  BY ReadPair, PlanPair, WritePair, LogPair DEF LinkInv
<1>2. UNCHANGED <<bag, exp>>
  BY DEF ImportBegin, CheckLinks, ReadHead, CheckFolder, ReadFolder, Compare, PlanImport,
         WriteFile, LogLine, ImportDone, ImportStop, OnlyImport, satchelVars, bagVars
<1>3. LinksOK'
  BY <1>2 DEF LinkInv, LinksOK
<1>4. DOMAIN imp = Fields /\ DOMAIN imp.carried = Ids
  BY DEF LinkInv, PairInv, ImpOK
<1>5. CASE imp'.pc \in Ended \cup {"write"}
  BY <1>1, <1>2, <1>5, OtherLink
<1>6. CASE Refuse
  BY <1>5, <1>6, RefuseOK DEF Ended
<1>7. CASE PlanImport \/ WriteFile \/ LogLine \/ ImportDone \/ ImportStop
  <2>1. ASSUME PlanImport, ~Refuse PROVE imp'.pc = "write"
    <3>1. PICK w0 : w0 = Files(imp.carried, imp.head)
      OBVIOUS
    <3>2. PICK l0 : l0 = ToLog(imp.carried)
      OBVIOUS
    <3>3. imp' = [imp EXCEPT !.pc = "write", !.todo = {}, !.proven = {},
                             !.signed = NoFile, !.size = 0, !.files = w0, !.lines = l0]
      BY <2>1, <3>1, <3>2 DEF PlanImport
    <3> QED
      BY <1>4, <3>3 DEF Fields
  <2>2. ASSUME WriteFile PROVE imp'.pc = "write"
    BY <2>2, WriteShape DEF LinkInv, PairInv, Writes, At
  <2>3. ASSUME LogLine PROVE imp'.pc = "write"
    BY <2>3, LogShape DEF LinkInv, PairInv, At
  <2>4. ASSUME ImportDone PROVE imp'.pc = "ok"
    BY <1>4, <2>4 DEF ImportDone, Fields
  <2>5. ASSUME ImportStop, ~Refuse PROVE imp'.pc = "stopped"
    <3>1. imp' = [imp EXCEPT !.pc = "stopped", !.files = {}, !.lines = {}]
      BY <2>5 DEF ImportStop
    <3> QED
      BY <1>4, <3>1 DEF Fields
  <2> QED
    BY <1>5, <1>6, <1>7, <2>1, <2>2, <2>3, <2>4, <2>5 DEF Ended
<1>8. CASE ImportBegin
  <2>1. PICK n : n = imp.count + 1
    OBVIOUS
  <2>2. PICK t : t = deed_folders
    OBVIOUS
  <2>3. imp' = [NoImport EXCEPT !.pc = "check", !.todo = t, !.signed = head, !.count = n]
    BY <1>8, <2>1, <2>2 DEF ImportBegin
  <2>4. imp'.pc = "check" /\ imp'.proven = {} /\ imp'.carried = NoImport.carried
    BY <2>3 DEF NoImport
  <2>5. CheckOK'
    BY <2>4, NoImportOK DEF CheckOK, LinksWereSigned, At
  <2> QED
    BY <1>1, <1>3, <2>5 DEF LinkInv
<1>9. ASSUME NEW i \in Ids, CheckFolder(i), ~Refuse PROVE LinkInv'
  <2>1. PICK t : t = imp.todo \ {i}
    OBVIOUS
  <2>2. PICK n : n = imp.proven \cup {i}
    OBVIOUS
  <2>3. PICK s : s = bag[i].proof.size
    OBVIOUS
  <2>4. imp' = [imp EXCEPT !.todo = t, !.proven = n, !.size = s]
    BY <1>9, <2>1, <2>2, <2>3 DEF CheckFolder
  <2>5. imp.pc = "check" /\ bag[i].proof # NoFile
    BY <1>9 DEF CheckFolder, At, FolderPasses
  <2>6. imp'.pc = "check" /\ imp'.proven = n /\ imp'.carried = imp.carried
    BY <1>4, <2>4, <2>5 DEF Fields
  <2>7. CheckOK'
    BY <1>2, <2>2, <2>5, <2>6 DEF LinkInv, CheckOK, LinksWereSigned, At
  <2> QED
    BY <1>1, <1>3, <2>7 DEF LinkInv
<1>10. ASSUME CheckLinks, ~Refuse PROVE LinkInv'
  <2>1. PICK t : t = deed_folders
    OBVIOUS
  <2>2. imp.pc = "check" /\ (imp.signed # NoFile => links_bound(imp.signed))
    BY <1>10 DEF CheckLinks, At
  <2>3. CASE imp' = [imp EXCEPT !.pc = "ok"]
    BY <1>4, <1>5, <2>3 DEF Fields, Ended
  <2>4. CASE imp' = [imp EXCEPT !.pc = "read", !.todo = t]
    <3>1. /\ imp'.pc = "read" /\ imp'.proven = imp.proven /\ imp'.carried = imp.carried
          /\ imp'.signed = imp.signed
      BY <1>4, <2>4 DEF Fields
    <3>2. /\ Carried(imp.carried) = {}
          /\ \A i \in imp.proven : i \in Ids /\ bag[i].proof # NoFile
      BY <2>2 DEF LinkInv, CheckOK
    <3>3. ASSUME imp.signed # NoFile, NEW i \in imp.proven PROVE LinksSigned(i)'
      <4>1. /\ i \in DOMAIN imp.signed.links
            /\ imp.signed.links[i] = <<AllSources(i), PriorLink(i), bag[i].successor>>
        BY <2>2, <3>2, <3>3, CommitmentIsAll DEF LinkInv
      <4> QED
        BY <1>2, <3>1, <3>2, <4>1 DEF LinksSigned
    <3>4. CheckOK'
      BY <1>2, <3>1, <3>2, <3>3 DEF CheckOK, LinksWereSigned, At
    <3> QED
      BY <1>1, <1>3, <3>4 DEF LinkInv
  <2> QED
    BY <1>10, <2>1, <2>3, <2>4 DEF CheckLinks
<1>11. ASSUME NEW i \in Ids, ReadFolder(i), ~Refuse PROVE LinkInv'
  <2>1. imp.pc = "read" /\ bag[i].proof # NoFile
    BY <1>11 DEF ReadFolder, At, FolderPasses
  <2>2. PICK t : t = imp.todo \ {i}
    OBVIOUS
  <2>3. PICK f : f = bag[i]
    OBVIOUS
  <2>4. imp' = [imp EXCEPT !.todo = t, !.carried[i] = f]
    BY <1>11, <2>2, <2>3 DEF ReadFolder
  <2>5. /\ imp'.pc = "read" /\ imp'.proven = imp.proven /\ imp'.signed = imp.signed
        /\ imp'.carried = [imp.carried EXCEPT ![i] = f]
    BY <1>4, <2>1, <2>4 DEF Fields
  <2>6. imp'.carried[i] = bag[i] /\ \A j \in Ids \ {i} : imp'.carried[j] = imp.carried[j]
    BY <1>4, <2>3, <2>5
  <2>7. /\ \A j \in imp.proven : j \in Ids /\ bag[j].proof # NoFile
        /\ \A j \in Carried(imp.carried) : LinksRead(j)
        /\ imp.signed # NoFile => \A j \in imp.proven : LinksSigned(j)
    BY <2>1 DEF LinkInv, CheckOK
  <2>8. ASSUME NEW j \in Carried(imp'.carried) PROVE LinksRead(j)'
    <3>1. CASE j = i
      BY <1>2, <2>1, <2>6, <3>1 DEF LinksRead, LinkInv, LinksOK
    <3>2. CASE j # i
      <4>1. j \in Ids /\ imp'.carried[j] = imp.carried[j] /\ j \in Carried(imp.carried)
        BY <2>6, <3>2 DEF Carried
      <4> QED
        BY <1>2, <2>7, <4>1 DEF LinksRead
    <3> QED
      BY <3>1, <3>2
  <2>9. ASSUME imp.signed # NoFile, NEW j \in imp.proven PROVE LinksSigned(j)'
    <3>1. LinksSigned(j) /\ j \in Ids
      BY <2>7, <2>9
    <3>2. PICK s \in {NoFile, bag[j].successor} :
              /\ imp.signed.links[j] = <<AllSources(j), PriorLink(j), s>>
              /\ j \in Carried(imp.carried) => s \in {NoFile, imp.carried[j].successor}
      BY <3>1 DEF LinksSigned
    <3>3. j \in Carried(imp'.carried) => s \in {NoFile, imp'.carried[j].successor}
      BY <2>6, <3>1, <3>2 DEF Carried
    <3> QED
      BY <1>2, <2>5, <3>1, <3>2, <3>3 DEF LinksSigned
  <2>10. CheckOK'
    <3>1. \A j \in Carried(imp.carried)' : LinksRead(j)'
      BY <2>8
    <3> QED
      BY <1>2, <2>5, <2>7, <2>9, <3>1 DEF CheckOK, LinksWereSigned, At
  <2> QED
    BY <1>1, <1>3, <2>10 DEF LinkInv
<1>12. ASSUME ReadHead PROVE LinkInv'
  <2>1. PICK h : h = head
    OBVIOUS
  <2>2. imp' = [imp EXCEPT !.pc = "compare", !.head = h] /\ imp.pc = "read"
    BY <1>12, <2>1 DEF ReadHead, At
  <2>3. /\ imp'.pc = "compare" /\ imp'.proven = imp.proven /\ imp'.signed = imp.signed
        /\ imp'.carried = imp.carried
    BY <1>4, <2>2 DEF Fields
  <2>4. CheckOK'
    BY <1>2, <2>2, <2>3 DEF LinkInv, CheckOK, LinksWereSigned, LinksRead, LinksSigned, At
  <2> QED
    BY <1>1, <1>3, <2>4 DEF LinkInv
<1>13. ASSUME NEW allow \in BOOLEAN, Compare(allow), ~Refuse PROVE LinkInv'
  <2>1. imp' = [imp EXCEPT !.pc = "plan"] /\ imp.pc = "compare" /\ same_as_checked
    BY <1>13 DEF Compare, At
  <2>2. /\ imp'.pc = "plan" /\ imp'.signed = imp.signed
        /\ imp'.carried = imp.carried /\ imp'.head = imp.head
    BY <1>4, <2>1 DEF Fields
  <2>3. imp.head # NoFile => \A i \in Carried(imp.carried) :
                                 CoveredBy(imp.signed, i) \/ CoveredBy(imp.head, i)
    BY <2>1, CompareLink
  <2>4. CheckOK'
    BY <2>2, <2>3 DEF CheckOK, LinksWereSigned, CoveredBy
  <2> QED
    BY <1>1, <1>3, <2>4 DEF LinkInv
<1> QED
  BY <1>6, <1>7, <1>8, <1>9, <1>10, <1>11, <1>12, <1>13

LEMMA NextLink ==
    ASSUME SatchelAssumption, HandoverAssumption, LinksArrive, LinkInv, [Next]_vars
    PROVE  LinkInv'
<1>1. CASE SenderStep
  BY <1>1, SenderLink
<1>2. CASE ImportStep
  BY <1>2, ReadLink DEF ImportStep
<1>3. CASE LocalStep
  <2>1. PairInv'
    BY <1>3, LocalPair DEF LinkInv
  <2>2. /\ UNCHANGED <<bag, exp>> /\ imp'.pc = imp.pc /\ imp'.carried = imp.carried
        /\ imp'.head = imp.head /\ imp'.signed = imp.signed
    BY <1>3, LocalFrame DEF LocalStep, LinkInv, PairInv
  <2> QED
    BY <1>3, <2>1, <2>2, OtherLink DEF LocalStep
<1>4. CASE UNCHANGED vars
  <2>1. PairInv'
    BY <1>4, NextPair DEF LinkInv
  <2>2. UNCHANGED <<bag, exp, imp>>
    BY <1>4 DEF vars, satchelVars, bagVars
  <2>3. LinksOK'
    BY <2>2 DEF LinkInv, LinksOK
  <2>4. CheckOK'
    BY <2>2 DEF LinkInv, CheckOK, LinksRead, LinksSigned, LinksWereSigned, CoveredBy, At
  <2> QED
    BY <2>1, <2>3, <2>4 DEF LinkInv
<1> QED
  BY <1>1, <1>2, <1>3, <1>4 DEF Next

LEMMA InitLink == ASSUME SatchelAssumption, Init PROVE LinkInv
<1>1. PairInv
  BY InitPair
<1>2. LinksOK
  BY DEF Init, SatchelInit, NoExport, LinksOK, EmptyFolder
<1>3. CheckOK
  BY NoImportOK DEF Init, CheckOK, LinksWereSigned, At
<1> QED
  BY <1>1, <1>2, <1>3 DEF LinkInv

(* Under a signed head, every link an import goes by is one a signature covers,
   though an export adds to the bag between the check and the read
   (same_as_checked, links_bound). *)
THEOREM LinksGoSigned == ASSUME LinksArrive PROVE Spec => []LinksWereSigned
<1>1. Init => LinkInv
  BY InitLink, SatchelAssumption
<1>2. LinkInv /\ [Next]_vars => LinkInv'
  BY NextLink, SatchelAssumption, HandoverAssumption
<1>3. LinkInv => LinksWereSigned
  BY DEF LinkInv, CheckOK
<1> QED
  BY <1>1, <1>2, <1>3, PTL DEF Spec

=============================================================================
