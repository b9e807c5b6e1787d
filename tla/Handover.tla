------------------------------ MODULE Handover ------------------------------
(***************************************************************************)
(* Taking a bag into a receiver's store: check it, read it again, hold     *)
(* what was read to what was checked, plan every write against the store,  *)
(* then write.  The sender may export into the bag all the while, the      *)
(* import may stop anywhere, and other commands use the store meanwhile.   *)
(*                                                                         *)
(* Granularity.  A folder is read in one step, and so are all the files    *)
(* the plan looks at, and all the link files a signature is held to; every *)
(* file written and every log line is a step.  A local create, delete or   *)
(* backfill is one step: DeedStore has theirs.                             *)
(***************************************************************************)
EXTENDS Satchel

CONSTANTS
    Locals,     \* create requests of the receiver's own
    Nows,       \* when it may backfill
    Discards,   \* accessions the receiver may delete
    Listed,     \* the receiver's layout lists the sender's key
    Demand,     \* and what it says of attestation
    Apart,      \* no local create of an accession that an import is writing,
                \* nor of a deed beside one that it links as a successor
    Patient,    \* nobody backfills a deed before its evidence is there
    MaxImports  \* bound on imports

ASSUME HandoverAssumption ==
    /\ Locals \subseteq [deed : Deed, prior : Ids \cup {NoId}, time : Times]
    /\ Nows \subseteq Times
    /\ Discards \subseteq Ids
    /\ Listed \in BOOLEAN /\ Demand \in {"optional", "required"}
    /\ Apart \in BOOLEAN /\ Patient \in BOOLEAN
    /\ MaxImports \in Nat

VARIABLES
    shelf,  \* shelf[i][x]: the receiver's file {i}.{x}
    bytes,  \* its product bytes
    log,    \* its log
    imp     \* the running import, or what the last one was and answered

storeVars == <<shelf, bytes, log>>
vars == <<satchelVars, storeVars, imp>>

Exts == {"cap", "evidence", "host", "proof", "head", "supersedes", "successor",
         "tomb"}

-----------------------------------------------------------------------------
(* Reading the receiver's store. *)

Has(i, x) == shelf[i][x] # NoFile
Serves(i) == Has(i, "cap") /\ ~Has(i, "tomb")
DeedAt(i) == shelf[i]["cap"]
LogEntries == {log[k] : k \in 1..Len(log)}

(* check_host_sidecar, of a receiver without a host key. *)
HostPasses(d, t, side) ==
    IF side = NoFile THEN Demand = "optional"
    ELSE Listed /\ side = Sidecar(d, t)

EvidenceLocal(i) ==
    LET ev == shelf[i]["evidence"] IN
    /\ ev # NoFile
    /\ DeedAt(i).body \in bytes
    /\ ev.deed = DeedAt(i)
    /\ HostPasses(DeedAt(i), ev.time, shelf[i]["host"])

(* Some closed set of deeds that are all served and pass. *)
EvidencePasses(i) ==
    \E trail \in SUBSET Ids :
        /\ i \in trail
        /\ \A j \in trail : /\ Serves(j)
                            /\ DeedAt(j).sources \subseteq trail
                            /\ EvidenceLocal(j)

-----------------------------------------------------------------------------
(* plan_import: the bag as read, `c`, against the store.  c[i] is the folder
   of i, or EmptyFolder; `h` is the head that was read. *)

Carried(c) == {i \in Ids : c[i] # EmptyFolder}

(* Mistaken: a file that is there at all is in the way. *)
FitsOnlyNew(i, x, file) == shelf[i][x] = NoFile

(* Plan::put: the bytes are there already, or nothing is. *)
Fits(i, x, file) == shelf[i][x] \in {NoFile, file}

(* digest_kept_by_a_successor: every link file that binds i to a digest. *)
KeptDigests(i) ==
    {shelf[j]["supersedes"].digest :
        j \in {k \in Ids : Has(k, "supersedes") /\ shelf[k]["supersedes"].id = i}}
    \ {NoFile}

(* Mistaken: issued at the receiver's time. *)
EvidenceForNow(f) == Created(f.deed, CHOOSE t \in Nows : TRUE)

(* evidence_at: issued again, at the receipt's time. *)
EvidenceFor(f) == Created(f.deed, f.proof.entry.time)

KeptProof(i, f) == shelf[i]["proof"] # NoFile /\ shelf[i]["proof"].entry = f.proof.entry

(* The head goes beside the receipt: a new receipt brings it; a kept one is
   completed with it where it is the head that receipt was against. *)
HeadFits(i, f, h) ==
    CASE h = NoFile -> TRUE
      [] ~Has(i, "proof") -> Fits(i, "head", h)
      [] h.size = shelf[i]["proof"].size ->
            Has(i, "head") => shelf[i]["head"].size = h.size
      [] OTHER -> TRUE

(* Mistaken: a kept receipt takes any head. *)
HeadDueAlways(i, h) == h # NoFile /\ ~Has(i, "head")

HeadDue(i, h) ==
    /\ h # NoFile /\ ~Has(i, "head")
    /\ Has(i, "proof") => shelf[i]["proof"].size = h.size

DeedFits(i, f, h) ==
    /\ ~Has(i, "tomb")
    /\ Fits(i, "cap", f.deed)
    /\ KeptDigests(i) \subseteq {Digest(f.deed)}
    /\ \A e \in LogEntries : e.id = i => e = f.proof.entry
    /\ Fits(i, "evidence", EvidenceFor(f))
    /\ f.host # NoFile => Fits(i, "host", f.host)
    /\ HostPasses(f.deed, f.proof.entry.time,
                  IF f.host # NoFile THEN f.host ELSE shelf[i]["host"])
    /\ Has(i, "proof") => KeptProof(i, f)
    /\ HeadFits(i, f, h)

(* Both sides of each link, as the older and the newer deed. *)
LinkPairs(c) ==
    {[old |-> c[i].supersedes, new |-> Link(c[i].deed)] :
        i \in {j \in Carried(c) : c[j].supersedes # NoFile}}
    \cup
    {[old |-> Link(c[i].deed), new |-> c[i].successor] :
        i \in {j \in Carried(c) : c[j].successor # NoFile}}

(* A deed a link names is carried, or held if at all, with that digest. *)
LinkHolds(c, l) ==
    IF l.id \in Carried(c) THEN Digest(c[l.id].deed) = l.digest
    ELSE Has(l.id, "cap") => Digest(DeedAt(l.id)) = l.digest

LinkFile(l) == [id |-> l.id, digest |-> l.digest]
IdOnly(i) == [id |-> i, digest |-> NoFile]
SuccessorFile(i) == [next |-> i]
Tomb == [frame |-> "tomb"]

LinksFit(c) ==
    \A p \in LinkPairs(c) :
        /\ p.old.id # p.new.id
        /\ \A q \in LinkPairs(c) :
               (q.old.id = p.old.id \/ q.new.id = p.new.id) => q = p
        /\ LinkHolds(c, p.old) /\ LinkHolds(c, p.new)
        /\ p.new.id \in Carried(c) \/ Serves(p.new.id)
        /\ shelf[p.new.id]["supersedes"] \in {NoFile, IdOnly(p.old.id), LinkFile(p.old)}
        /\ p.old.id \in Carried(c) \/ Serves(p.old.id) =>
               Fits(p.old.id, "successor", SuccessorFile(p.new.id))

(* Mistaken: a deed that is held is taken to pass. *)
TrailsFitUnproven(c) ==
    \A i \in Carried(c) : \A j \in c[i].deed.sources :
        j \in Carried(c) \/ (Serves(j) /\ Link(DeedAt(j)) \in c[i].sources)

(* check_trails: every deed a carried one was made from is carried, with the
   digest `sources` gives it if it gives one, or is served here with the
   digest it has to give, and passes evidence. *)
TrailsFit(c) ==
    \A i \in Carried(c) : \E trail \in SUBSET Ids :
        /\ i \in trail
        /\ \A j \in trail :
            IF j \in Carried(c)
            THEN /\ c[j].deed.sources \subseteq trail
                 /\ j # i => \A l \in c[i].sources :
                                 l.id = j => l.digest = Digest(c[j].deed)
            ELSE /\ Serves(j)
                 /\ DeedAt(j).sources \subseteq trail
                 /\ Link(DeedAt(j)) \in c[i].sources
                 /\ EvidenceLocal(j)

(* One accession logged here twice in different ways refuses every bag. *)
LogIsPlain == \A d, e \in LogEntries : d.id = e.id => d = e

CanHold(c, h) ==
    /\ LogIsPlain
    /\ \A i \in Carried(c) : DeedFits(i, c[i], h)
    /\ LinksFit(c)
    /\ TrailsFit(c)

(* The files the store lacks, each with its turn: deeds in the sender's order
   and the files of each in the code's, then the links by the older deed. *)
Put(turn, i, x, file) == [turn |-> turn, id |-> i, ext |-> x, file |-> file]

(* Mistaken: what is there is written again. *)
DeedPutsAll(i, f, h) ==
    {w \in {Put(<<0, f.proof.index, 1>>, i, "cap", f.deed),
            Put(<<0, f.proof.index, 2>>, i, "evidence", EvidenceFor(f)),
            Put(<<0, f.proof.index, 3>>, i, "host", f.host),
            Put(<<0, f.proof.index, 4>>, i, "bytes", [raw |-> f.deed.body]),
            Put(<<0, f.proof.index, 5>>, i, "proof", f.proof)} : w.file # NoFile}

DeedPuts(i, f, h) ==
    {w \in {Put(<<0, f.proof.index, 1>>, i, "cap", f.deed),
            Put(<<0, f.proof.index, 2>>, i, "evidence", EvidenceFor(f)),
            Put(<<0, f.proof.index, 3>>, i, "host", f.host),
            Put(<<0, f.proof.index, 5>>, i, "proof", f.proof)} :
        ~Has(i, w.ext) /\ w.file # NoFile}
    \cup (IF f.deed.body \in bytes THEN {}
          ELSE {Put(<<0, f.proof.index, 4>>, i, "bytes", [raw |-> f.deed.body])})
    \cup (IF HeadDue(i, h) THEN {Put(<<0, f.proof.index, 6>>, i, "head", h)} ELSE {})

LinkPuts(c) ==
    {w \in {Put(<<1, p.old.id, 1>>, p.new.id, "supersedes", LinkFile(p.old)) :
                p \in LinkPairs(c)} : shelf[w.id][w.ext] # w.file}
    \cup
    {w \in {Put(<<1, p.old.id, 2>>, p.old.id, "successor", SuccessorFile(p.new.id)) :
                p \in LinkPairs(c)} :
        ~Has(w.id, w.ext) /\ (w.id \in Carried(c) \/ Serves(w.id))}

Files(c, h) == (UNION {DeedPuts(i, c[i], h) : i \in Carried(c)}) \cup LinkPuts(c)

(* Mistaken: nobody asks what is logged. *)
ToLogAll(c) == Carried(c)

ToLog(c) == {i \in Carried(c) : \A e \in LogEntries : e.id # i}

Before(s, t) ==
    \/ s[1] < t[1]
    \/ s[1] = t[1] /\ s[2] < t[2]
    \/ s[1] = t[1] /\ s[2] = t[2] /\ s[3] < t[3]

-----------------------------------------------------------------------------
(* import_handover *)

NothingRead == [i \in Ids |-> EmptyFolder]

Ended == {"idle", "ok", "refused", "stopped"}

NoImport == [pc |-> "idle", todo |-> {}, proven |-> {},
             size |-> 0, signed |-> NoFile, carried |-> NothingRead,
             head |-> NoFile, files |-> {}, lines |-> {}, alone |-> TRUE,
             count |-> 0]

At(place) == imp.pc = place
Refuse == imp' = [NoImport EXCEPT !.pc = "refused", !.count = imp.count]
OnlyImport == UNCHANGED <<satchelVars, storeVars>>
First(i, s) == i \in s /\ \A j \in s : i <= j

(* check_handover: the folders are listed and the head read... *)
ImportBegin ==
    /\ imp.pc \in Ended /\ imp.count < MaxImports
    /\ imp' = [NoImport EXCEPT !.pc = "check",
                               !.todo = deed_folders, !.signed = head,
                               !.count = imp.count + 1]
    /\ OnlyImport

(* ...each folder held to itself and to one head... *)
CheckFolder(i) ==
    /\ At("check") /\ First(i, imp.todo)
    /\ IF FolderPasses(i) /\ OnHead(i, imp.signed, imp.size)
       THEN imp' = [imp EXCEPT !.todo = @ \ {i}, !.proven = @ \cup {i},
                               !.size = bag[i].proof.size]
       ELSE Refuse
    /\ OnlyImport

(* ...and the links to the signature.  Then the folders are listed again. *)
CheckLinks ==
    /\ At("check") /\ imp.todo = {}
    /\ IF imp.signed # NoFile /\ ~links_bound(imp.signed) THEN Refuse
       ELSE IF imp.proven = {} THEN imp' = [imp EXCEPT !.pc = "ok"]
       ELSE imp' = [imp EXCEPT !.pc = "read", !.todo = deed_folders]
    /\ OnlyImport

(* read_folder checks again what it reads, and that the evidence that travelled
   is of this deed and of the receipt's time. *)
ReadFolder(i) ==
    /\ At("read") /\ First(i, imp.todo)
    /\ IF /\ FolderPasses(i)
          /\ bag[i].evidence \in
                 {NoFile, Created(bag[i].deed, bag[i].proof.entry.time)}
       THEN imp' = [imp EXCEPT !.todo = @ \ {i}, !.carried[i] = bag[i]]
       ELSE Refuse
    /\ OnlyImport

ReadHead ==
    /\ At("read") /\ imp.todo = {}
    /\ imp' = [imp EXCEPT !.pc = "compare", !.head = head]
    /\ OnlyImport

(* Mistaken: the links are not looked at again. *)
SameAsCheckedButLinks ==
    /\ Carried(imp.carried) = imp.proven
    /\ \A i \in imp.proven : imp.carried[i].proof.size = imp.size
    /\ imp.head # NoFile => imp.head.size = imp.size
    /\ (imp.head # NoFile) = (imp.signed # NoFile)

same_as_checked ==
    /\ Carried(imp.carried) = imp.proven
    /\ \A i \in imp.proven : imp.carried[i].proof.size = imp.size
    /\ imp.head # NoFile => imp.head.size = imp.size /\ links_bound(imp.head)
    /\ (imp.head # NoFile) = (imp.signed # NoFile)

(* The signature is by a key the layout lists, or the caller waives that. *)
admit_head(allow) == (imp.signed # NoFile /\ Listed) \/ allow

(* The command's --allow-unsigned-head is not looked at before. *)
Compare(allow) ==
    /\ At("compare")
    /\ IF same_as_checked /\ admit_head(allow)
       THEN imp' = [imp EXCEPT !.pc = "plan"] ELSE Refuse
    /\ OnlyImport

PlanImport ==
    /\ At("plan")
    /\ IF CanHold(imp.carried, imp.head)
       THEN imp' = [imp EXCEPT !.pc = "write", !.todo = {}, !.proven = {},
                               !.signed = NoFile, !.size = 0,
                               !.files = Files(imp.carried, imp.head),
                               !.lines = ToLog(imp.carried)]
       ELSE Refuse
    /\ OnlyImport

(* atomic_write replaces what is there by now. *)
WriteFile ==
    /\ At("write")
    /\ \E w \in imp.files :
        /\ \A v \in imp.files \ {w} : Before(w.turn, v.turn)
        /\ IF w.ext = "bytes"
           THEN bytes' = bytes \cup {w.file.raw} /\ UNCHANGED shelf
           ELSE shelf' = [shelf EXCEPT ![w.id][w.ext] = w.file] /\ UNCHANGED bytes
        /\ imp' = [imp EXCEPT !.files = @ \ {w}]
    /\ UNCHANGED <<satchelVars, log>>

(* Mistaken: a line does not wait for the files. *)
LogLineEarly ==
    /\ At("write") /\ imp.lines # {}
    /\ \E i \in imp.lines :
        /\ log' = Append(log, imp.carried[i].proof.entry)
        /\ imp' = [imp EXCEPT !.lines = @ \ {i}]
    /\ UNCHANGED <<satchelVars, shelf, bytes>>

(* The log goes last, in the sender's order. *)
LogLine ==
    /\ At("write") /\ imp.files = {} /\ imp.lines # {}
    /\ \E i \in imp.lines :
        /\ \A j \in imp.lines :
               imp.carried[i].proof.index <= imp.carried[j].proof.index
        /\ log' = Append(log, imp.carried[i].proof.entry)
        /\ imp' = [imp EXCEPT !.lines = @ \ {i}]
    /\ UNCHANGED <<satchelVars, shelf, bytes>>

ImportDone ==
    /\ At("write") /\ imp.files = {} /\ imp.lines = {}
    /\ imp' = [imp EXCEPT !.pc = "ok"]
    /\ OnlyImport

(* The process ends, or a write fails, with part of the plan on disk or, before
   the first write, with nothing. *)
ImportStop ==
    /\ imp.pc \notin Ended
    /\ IF At("write")
       THEN imp' = [imp EXCEPT !.pc = "stopped", !.files = {}, !.lines = {}]
       ELSE Refuse
    /\ OnlyImport

-----------------------------------------------------------------------------
(* Other commands on the receiver's store. *)

Writing(i) == At("write") /\ i \in Carried(imp.carried)
WritesSuccessor(i) == \E w \in imp.files : w.id = i /\ w.ext = "successor"

NotAlone == imp' = [imp EXCEPT !.alone = FALSE]

(* create, without a key to sign.  The link it writes has no digest. *)
LocalCreate(r) ==
    LET d == r.deed
        i == d.id
        prior == r.prior
    IN
    /\ ~Has(i, "cap") /\ ~Has(i, "tomb")
    /\ prior # NoId => Has(prior, "cap") /\ ~Has(prior, "successor")
    /\ Apart => ~Writing(i) /\ ~WritesSuccessor(prior)
    /\ shelf' = [j \in Ids |->
            CASE j = i -> [shelf[j] EXCEPT
                    !["cap"] = d, !["evidence"] = Created(d, r.time),
                    !["supersedes"] = IF prior = NoId THEN @ ELSE IdOnly(prior)]
              [] j = prior -> [shelf[j] EXCEPT !["successor"] = SuccessorFile(i)]
              [] OTHER -> shelf[j]]
    /\ bytes' = bytes \cup {d.body}
    /\ log' = Append(log, Entry(d, r.time))
    /\ Event /\ NotAlone
    /\ UNCHANGED bagVars

LocalDelete(i) ==
    /\ i \in Discards /\ Serves(i)
    /\ shelf' = [shelf EXCEPT ![i]["tomb"] = Tomb]
    /\ Event /\ NotAlone
    /\ UNCHANGED <<bagVars, bytes, log>>

(* log_backfill, one deed of it. *)
Backfill(i, t) ==
    /\ Serves(i) /\ \A e \in LogEntries : e.id # i
    /\ Patient => EvidencePasses(i)
    /\ log' = Append(log, Entry(DeedAt(i),
                    IF EvidencePasses(i) THEN shelf[i]["evidence"].time ELSE t))
    /\ UNCHANGED <<satchelVars, shelf, bytes, imp>>

-----------------------------------------------------------------------------
Init ==
    /\ SatchelInit
    /\ shelf = [i \in Ids |-> [x \in Exts |-> NoFile]]
    /\ bytes = {}
    /\ log = <<>>
    /\ imp = NoImport

(* Nothing but an export changes a bag that is being read.  From the plan on an
   import does not look at the bag, so what the sender does then it may as well
   do when the import has ended. *)
SenderStep ==
    /\ imp.pc \notin {"plan", "write"}
    /\ \/ \E i \in Ids : SenderCreate(i) \/ SenderLog(i) \/ SenderDelete(i)
       \/ \E asked \in Exports, sealed \in Seals : ExportBegin(asked, sealed)
       \/ \E i \in Ids : ExportMissing(i) \/ ExportRecords(i)
       \/ ExportSuccessor \/ ExportSources \/ ExportProof \/ ExportHead
       \/ ExportRefused \/ ExportStop
       \/ imp.pc \in Ended /\ (NewBag \/ Lose)
    /\ UNCHANGED <<storeVars, imp>>

ImportStep ==
    \/ ImportBegin \/ CheckLinks \/ ReadHead
    \/ \E i \in Ids : CheckFolder(i) \/ ReadFolder(i)
    \/ \E allow \in BOOLEAN : Compare(allow)
    \/ PlanImport \/ WriteFile \/ LogLine \/ ImportDone \/ ImportStop

(* Before the plan an import does not look at the store, so what others do to
   the store then they may as well have done before it began. *)
LocalStep ==
    /\ imp.pc \in Ended \cup {"plan", "write"}
    /\ \/ \E r \in Locals : LocalCreate(r)
       \/ \E i \in Ids : LocalDelete(i) \/ \E t \in Nows : Backfill(i, t)

Next == SenderStep \/ ImportStep \/ LocalStep

Spec == Init /\ [][Next]_vars

-----------------------------------------------------------------------------
(* Properties. *)

(* What was imported is what the sender logged: a receipt kept here is of an
   entry of the sender's log, and the deed, its evidence and every line of the
   log about it say the same, whatever was read while the bag was written. *)
LandedAsSent ==
    \A i \in Ids : Has(i, "proof") =>
        LET e == shelf[i]["proof"].entry IN
        /\ e \in SentEntries
        /\ Digest(DeedAt(i)) = e.digest
        /\ shelf[i]["evidence"] = Created(DeedAt(i), e.time)
        /\ \A k \in 1..Len(log) : log[k].id = i => log[k] = e

(* Nothing the store holds is replaced by an import.  Only a supersedes file
   that names a deed without its digest is completed. *)
HeldIsKept ==
    [][\A i \in Ids, x \in Exts :
        Has(i, x) => \/ shelf'[i][x] = shelf[i][x]
                     \/ x = "supersedes" /\ shelf[i][x] = IdOnly(shelf'[i][x].id)]_vars

(* "an entry never names a deed this store failed to write": the deed, its
   evidence at the entry's time and its product are there before the line. *)
LinesComeLast ==
    \A k \in 1..Len(log) :
        /\ Digest(DeedAt(log[k].id)) = log[k].digest
        /\ shelf[log[k].id]["evidence"] = Created(DeedAt(log[k].id), log[k].time)
        /\ DeedAt(log[k].id).body \in bytes

(* The head kept beside a receipt is the head that receipt is against, also
   where the first import stopped between the two and the sender's log grew
   before the next. *)
KeptPairAgrees ==
    \A i \in Ids : Has(i, "proof") /\ Has(i, "head") =>
        shelf[i]["head"].size = shelf[i]["proof"].size

(* An import that stopped part-way through its writes leaves files that the
   same bag, imported again, completes: the plan is not refused. *)
Resumable == At("stopped") /\ imp.alone => CanHold(imp.carried, imp.head)

(* After an import that ended, the same bag again has nothing to add. *)
AgainAddsNothing ==
    At("ok") /\ imp.alone =>
        /\ CanHold(imp.carried, imp.head)
        /\ Files(imp.carried, imp.head) = {}
        /\ ToLog(imp.carried) = {}

(* After an import that ended, every deed it carried answers here: its
   evidence passes along its whole trail, it is logged as the sender logged
   it, and `current` steps on from it to the revision the bag named. *)
ImportedAnswers ==
    At("ok") /\ imp.alone =>
        \A i \in Carried(imp.carried) :
            /\ EvidencePasses(i)
            /\ imp.carried[i].proof.entry \in LogEntries
            /\ imp.carried[i].successor # NoFile =>
                   LET j == imp.carried[i].successor.id IN
                   /\ shelf[i]["successor"] = SuccessorFile(j) /\ Serves(j)
                   /\ shelf[j]["supersedes"] = LinkFile(Link(DeedAt(i)))

CoveredBy(h, i) ==
    /\ h # NoFile /\ i \in DOMAIN h.links
    /\ h.links[i] = <<imp.carried[i].sources, imp.carried[i].supersedes,
                      imp.carried[i].successor>>

(* Under a signed head, the links an import goes by in each folder were signed:
   by the head it checked or by the one it read, should an export into the bag
   have come in between.  None is taken that no signature covers yet. *)
LinksWereSigned ==
    At("plan") /\ imp.head # NoFile =>
        \A i \in Carried(imp.carried) :
            CoveredBy(imp.signed, i) \/ CoveredBy(imp.head, i)

=============================================================================
