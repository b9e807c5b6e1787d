------------------------- MODULE DeedStoreApartProofs -------------------------
(***************************************************************************)
(* What holds of DeedStore while no accession is worked on by two          *)
(* processes: the record of a deed is written once, what is answered stays *)
(* true, and the store implements DeedRegistry.                            *)
(***************************************************************************)
EXTENDS DeedStoreProofs

(* A command works on accessions its process reaches, r. *)
Keeps(c, r) ==
    /\ c.pc \in CreatePlaces \cup StampExts \cup {"tomb"} => c.acc \in r
    /\ c.pc \in CreatePlaces /\ c.prior # NoId => c.prior \in r

(* What a command staged is still what is under the temporary name. *)
StagedHere(c, t) == c.staged => c.pc \in Exts /\ t[Target(c)] = Contents(c)

(* The files of its accession a create has yet to write. *)
Ahead(pc) ==
    CASE pc = "cap" -> Exts
      [] pc = "evidence" -> {"evidence", "host", "supersedes"}
      [] pc = "host" -> {"host", "supersedes"}
      [] pc \in {"link", "supersedes"} -> {"supersedes"}
      [] OTHER -> {}

(* What a command knows of the shelf s at its place. *)
CreateKnows(c, s) ==
    /\ c.pc \in CreatePlaces => \A x \in Ahead(c.pc) : s[c.acc][x] = NoFile
    /\ c.pc \in {"cap", "evidence", "host", "link", "supersedes"} =>
           \A k \in Ids : s[k]["supersedes"] # LinkFrame(c.acc)
    /\ c.pc \in FrozenPlaces => s[c.acc]["cap"] = DeedFrame(c.draft)
    /\ c.pc \in FrozenPlaces \ {"evidence"} =>
           s[c.acc]["evidence"] = CreatedFrame(c.draft, c.stamp)
    /\ c.pc \in {"supersedes", "successor"} =>
           s[c.prior]["cap"] # NoFile /\ s[c.prior]["successor"] = NoFile
    /\ c.pc = "successor" => s[c.acc]["supersedes"] = LinkFrame(c.prior)

OtherKnows(c, s) ==
    /\ c.pc = "tomb" => s[c.acc]["cap"] # NoFile
    /\ c.pc \in StampExts => s[c.acc]["evidence"] # NoFile
                             /\ c.imprint = s[c.acc]["evidence"]
    /\ c.pc = "refill" => s[c.acc]["cap"] = DeedFrame(c.draft)
    /\ c.pc = "idle" /\ c.outcome = "ok" /\ c.draft # NoDeed =>
           /\ s[c.draft.id]["cap"] = DeedFrame(c.draft)
           /\ s[c.draft.id]["evidence"].frame = "created"

Knows(c, s) == CreateKnows(c, s) /\ OtherKnows(c, s)

CommandsApart ==
    \A p \in Procs : /\ Keeps(cmd[p], Reach[p])
                     /\ StagedHere(cmd[p], tmp)
                     /\ Knows(cmd[p], shelf)

(* The frame a file of that name holds. *)
FrameOf(x) ==
    CASE x = "cap" -> "deed" [] x = "evidence" -> "created" [] x = "host" -> HostScheme
      [] x \in {"supersedes", "successor"} -> "link" [] OTHER -> x

(* No file is under another's name, and none is there before what it is about. *)
ShelfApart ==
    /\ \A i \in Ids, x \in Exts : Has(i, x) => /\ shelf[i][x].frame = FrameOf(x)
                                               /\ Has(i, "cap")
    /\ \A i \in Ids, x \in StampExts : Has(i, x) => Has(i, "evidence")
    /\ \A i, j \in Ids : shelf[i]["supersedes"] = LinkFrame(j) => Has(j, "cap")

(* Every line names a deed as it is on the shelf. *)
LogApart ==
    \A k \in 1..Len(log) : /\ Has(log[k].id, "cap")
                           /\ log[k].digest = Digest(DeedAt(log[k].id))

(* The inductive invariant, beside StoreInv. *)
FilesApart ==
    /\ ShelfApart
    /\ LogApart
    /\ LinkedBothWays
    /\ SupersedesAcyclic
    /\ TimestampCoversEvidence

ApartInv == CommandsApart /\ FilesApart

-----------------------------------------------------------------------------
(* Commands beside one another. *)

(* A shelf that has changed from s to t, but under none of the accessions r and
   with no new link to them, and without a deed or its evidence replaced. *)
Undisturbed(s, t, r) ==
    /\ \A i \in r, x \in Exts : t[i][x] = s[i][x]
    /\ \A i \in Ids, x \in {"cap", "evidence"} : s[i][x] # NoFile => t[i][x] = s[i][x]
    /\ \A k \in Ids, j \in r :
           t[k]["supersedes"] = LinkFrame(j) => s[k]["supersedes"] = LinkFrame(j)

(* What a command knows outlives what others do to other accessions. *)
LEMMA KnowsLasts ==
    ASSUME StoreAssumption, NEW c \in Commands, NEW b, NEW s, NEW t,
           NEW r \in SUBSET Ids,
           CommandOK(c, b, s), Keeps(c, r), Knows(c, s), Undisturbed(s, t, r)
    PROVE  Knows(c, t)
<1> USE DEF CreatePlaces, FrozenPlaces
<1>1. {"cap", "evidence", "supersedes", "successor"} \subseteq Exts
  BY DEF Exts
<1>2. CreateKnows(c, t)
  <2>1. CASE c.pc \notin CreatePlaces
    BY <2>1 DEF CreateKnows
  <2>2. CASE c.pc \in CreatePlaces
    <3>1. c.acc \in r /\ Ahead(c.pc) \subseteq Exts
      BY <2>2 DEF Keeps, Ahead, Exts
    <3>2. c.pc \in {"supersedes", "successor"} => c.prior \in r
      BY DEF Keeps, CommandOK, DraftOK, NoId, StoreAssumption
    <3> QED
      BY <1>1, <3>1, <3>2 DEF Knows, CreateKnows, Undisturbed
  <2> QED
    BY <2>1, <2>2
<1>3. OtherKnows(c, t)
  <2>1. c.pc \in StampExts \cup {"tomb"} => c.acc \in r
    BY DEF Keeps
  <2>2. c.pc = "refill" => c.acc \in Ids
    BY DEF CommandOK, WrittenOK, Deed
  <2>3. c.draft # NoDeed => c.draft.id \in Ids
    BY DEF Commands, Deed
  <2>4. \A d : DeedFrame(d) # NoFile /\ NoFile.frame # "created"
    BY DEF DeedFrame, NoFile
  <2> QED
    BY <1>1, <2>1, <2>2, <2>3, <2>4 DEF Knows, OtherKnows, Undisturbed
<1> QED
  BY <1>2, <1>3 DEF Knows

(* The file a command writes next is under an accession of its process. *)
LEMMA TargetReached ==
    ASSUME StoreAssumption, NEW c \in Commands, NEW b, NEW s, NEW r,
           CommandOK(c, b, s), Keeps(c, r), c.pc \in Exts
    PROVE  Target(c) \in r
<1>1. c.pc = "successor" => c.prior \in r
  BY DEF Keeps, CommandOK, DraftOK, CreatePlaces, StoreAssumption
<1>2. c.pc # "successor" => c.acc \in r
  BY DEF Keeps, CreatePlaces, Exts
<1> QED
  BY <1>1, <1>2 DEF Target

(* A step of one process that keeps to its accessions leaves every command
   knowing what it knows. *)
LEMMA CommandsStep ==
    ASSUME StoreAssumption, Exclusive, StoreInv, CommandsApart, NEW p \in Procs, NEW c,
           cmd' = [cmd EXCEPT ![p] = c],
           Keeps(c, Reach[p]), StagedHere(c, tmp'), Knows(c, shelf'),
           \A i \in Ids \ Reach[p] : tmp'[i] = tmp[i],
           \A q \in Procs \ {p} : Undisturbed(shelf, shelf', Reach[q])
    PROVE  CommandsApart'
<1>1. ASSUME NEW q \in Procs
      PROVE  Keeps(cmd'[q], Reach[q]) /\ StagedHere(cmd'[q], tmp') /\ Knows(cmd'[q], shelf')
  <2>1. CASE q = p
    BY <2>1 DEF StoreInv, TypeOK
  <2>2. CASE q # p
    <3>1. cmd'[q] = cmd[q] /\ cmd[q] \in Commands /\ CommandOK(cmd[q], bytes, shelf)
      BY <2>2 DEF StoreInv, TypeOK, CommandsOK
    <3>2. /\ Keeps(cmd[q], Reach[q]) /\ StagedHere(cmd[q], tmp) /\ Knows(cmd[q], shelf)
          /\ Reach[q] \in SUBSET Ids /\ Undisturbed(shelf, shelf', Reach[q])
      BY <2>2 DEF CommandsApart, StoreAssumption
    <3>3. Knows(cmd[q], shelf')
      BY <3>1, <3>2, KnowsLasts
    <3>4. StagedHere(cmd[q], tmp')
      <4>1. cmd[q].pc \in Exts => Target(cmd[q]) \in Reach[q]
        BY <3>1, <3>2, TargetReached
      <4>2. \A i \in Reach[q] : tmp'[i] = tmp[i]
        BY <2>2, <3>2 DEF Exclusive
      <4> QED
        BY <3>2, <4>1, <4>2 DEF StagedHere
    <3> QED
      BY <3>1, <3>2, <3>3, <3>4
  <2> QED
    BY <2>1, <2>2
<1> QED
  BY <1>1 DEF CommandsApart

(* What is not about commands follows from the shelf and the log alone. *)
LEMMA FilesStill ==
    ASSUME FilesApart, UNCHANGED <<shelf, log>> PROVE FilesApart'
  BY DEF FilesApart, ShelfApart, LogApart, LinkedBothWays, SupersedesAcyclic,
         TimestampCoversEvidence, Has, DeedAt

(* A step that writes neither the shelf nor a temporary nor the log. *)
LEMMA QuietApart ==
    ASSUME StoreAssumption, Exclusive, StoreInv, ApartInv, NEW p \in Procs, NEW c,
           cmd' = [cmd EXCEPT ![p] = c],
           Keeps(c, Reach[p]), StagedHere(c, tmp), Knows(c, shelf),
           UNCHANGED <<shelf, tmp, log>>
    PROVE  ApartInv'
<1>1. \A q \in Procs : Undisturbed(shelf, shelf', Reach[q])
  BY DEF Undisturbed
<1>2. CommandsApart'
  <2>1. StagedHere(c, tmp') /\ Knows(c, shelf')
    OBVIOUS
  <2> QED
    BY <1>1, <2>1, CommandsStep DEF ApartInv
<1>3. FilesApart'
  BY FilesStill DEF ApartInv
<1> QED
  BY <1>2, <1>3 DEF ApartInv

(* A command that ends; what it answers is on the shelf. *)
LEMMA AnswerKnows ==
    ASSUME NEW o, NEW d, NEW r, NEW s, NEW t,
           o = "ok" /\ d # NoDeed => /\ s[d.id]["cap"] = DeedFrame(d)
                                     /\ s[d.id]["evidence"].frame = "created"
    PROVE  Keeps(Idle(o, d), r) /\ StagedHere(Idle(o, d), t) /\ Knows(Idle(o, d), s)
  BY DEF Idle, Keeps, StagedHere, Knows, CreateKnows, OtherKnows, CreatePlaces,
         FrozenPlaces, StampExts, Ahead

LEMMA AnswerApart ==
    ASSUME StoreAssumption, Exclusive, StoreInv, ApartInv, NEW p \in Procs, NEW o, NEW d,
           Answer(p, o, d), UNCHANGED <<disk, clock>>,
           o = "ok" /\ d # NoDeed => /\ shelf[d.id]["cap"] = DeedFrame(d)
                                     /\ shelf[d.id]["evidence"].frame = "created"
    PROVE  ApartInv'
<1>1. PICK c : c = Idle(o, d)
  OBVIOUS
<1>2. Keeps(c, Reach[p]) /\ StagedHere(c, tmp) /\ Knows(c, shelf)
  BY <1>1, AnswerKnows
<1> QED
  BY <1>1, <1>2, QuietApart DEF Answer, Begin, disk

-----------------------------------------------------------------------------
(* One lemma per action that leaves the shelf alone. *)

(* What is known of a command before its step. *)
LEMMA CommandFacts ==
    ASSUME StoreAssumption, StoreInv, ApartInv, NEW p \in Procs
    PROVE  /\ cmd[p] \in Commands /\ CommandOK(cmd[p], bytes, shelf)
           /\ Keeps(cmd[p], Reach[p]) /\ StagedHere(cmd[p], tmp) /\ Knows(cmd[p], shelf)
           /\ Reach[p] \in SUBSET Ids
  BY DEF StoreInv, TypeOK, CommandsOK, ApartInv, CommandsApart, StoreAssumption

(* A deed frame on the shelf is the frame of the deed in it. *)
LEMMA DeedFrames ==
    ASSUME NEW f \in Files \cup {NoFile}, f.frame = "deed"
    PROVE  f = DeedFrame(f.deed) /\ f # NoFile
<1>1. f \in [frame : {"deed"}, deed : Deed]
  BY DEF Files, Frames, NoFile, TombFrame, StampExts
<1> QED
  BY <1>1 DEF DeedFrame, NoFile

LEMMA CreateBeginApart ==
    ASSUME StoreAssumption, Exclusive, StoreInv, ApartInv, NEW p \in Procs,
           NEW r \in Requests, CreateBegin(p, r)
    PROVE  ApartInv'
<1>1. PICK c : c = [Idle("none", r.deed) EXCEPT
                        !.pc = "ingest", !.acc = r.deed.id, !.prior = r.supersedes]
  OBVIOUS
<1>2. Keeps(c, Reach[p]) /\ StagedHere(c, tmp) /\ Knows(c, shelf)
  <2>1. {r.deed.id, r.supersedes} \ {NoId} \subseteq Reach[p] /\ r.deed.id # NoId
    BY DEF CreateBegin, StoreAssumption, Request, Deed
  <2> QED
    BY <1>1, <2>1 DEF Idle, Keeps, StagedHere, Knows, CreateKnows, OtherKnows, CreatePlaces,
                      FrozenPlaces, StampExts, Ahead
<1>3. cmd' = [cmd EXCEPT ![p] = c] /\ UNCHANGED <<shelf, tmp, log>>
  BY <1>1 DEF CreateBegin, Begin, disk
<1> QED
  BY <1>2, <1>3, QuietApart

LEMMA IngestApart ==
    ASSUME StoreAssumption, Exclusive, StoreInv, ApartInv, NEW p \in Procs, Ingest(p)
    PROVE  ApartInv'
<1>1. cmd[p] \in Commands /\ cmd[p].pc = "ingest" /\ Keeps(cmd[p], Reach[p])
  BY CommandFacts DEF Ingest, At
<1>2. PICK c : c = [cmd[p] EXCEPT !.pc = "freeze", !.staged = FALSE]
  OBVIOUS
<1>3. Keeps(c, Reach[p]) /\ StagedHere(c, tmp) /\ Knows(c, shelf)
  BY <1>1, <1>2 DEF Commands, Keeps, StagedHere, Knows, CreateKnows, OtherKnows, CreatePlaces,
                    FrozenPlaces, StampExts, Ahead
<1>4. cmd' = [cmd EXCEPT ![p] = c] /\ UNCHANGED <<shelf, tmp, log>>
  BY <1>1, <1>2 DEF Ingest, Goto, StoreInv, TypeOK
<1> QED
  BY <1>3, <1>4, QuietApart

LEMMA AnswerAgainApart ==
    ASSUME StoreAssumption, Exclusive, StoreInv, ApartInv, NEW p \in Procs, AnswerAgain(p)
    PROVE  ApartInv'
<1>1. cmd[p].draft.id = cmd[p].acc /\ cmd[p].acc \in Ids
  BY CommandFacts DEF AnswerAgain, At, CommandOK, DraftOK, CreatePlaces, Deed
<1>2. shelf[cmd[p].acc]["cap"] = DeedFrame(cmd[p].draft)
  <2>1. \A i \in Ids : shelf[i]["cap"] \in Files \cup {NoFile}
    BY DEF StoreInv, TypeOK, Exts
  <2>2. shelf[cmd[p].acc]["cap"] \in Files \cup {NoFile}
    BY <1>1, <2>1
  <2> QED
    BY <2>2, DeedFrames DEF AnswerAgain, Repeated, Served, DeedAt
<1>3. CASE LoadsEvidence(cmd[p].acc)
  <2>1. PICK d : d = cmd[p].draft
    OBVIOUS
  <2> QED
    BY <1>1, <1>2, <1>3, <2>1, AnswerApart DEF AnswerAgain, LoadsEvidence
<1>4. CASE ~LoadsEvidence(cmd[p].acc)
  BY <1>4, AnswerApart DEF AnswerAgain
<1> QED
  BY <1>3, <1>4

LEMMA RefuseFrozenApart ==
    ASSUME StoreAssumption, Exclusive, StoreInv, ApartInv, NEW p \in Procs, RefuseFrozen(p)
    PROVE  ApartInv'
  BY AnswerApart DEF RefuseFrozen

(* Where there is no deed file there is nothing about the accession. *)
LEMMA AdmitApart ==
    ASSUME StoreAssumption, Exclusive, StoreInv, ApartInv, NEW p \in Procs, Admit(p)
    PROVE  ApartInv'
<1>1. /\ cmd[p] \in Commands /\ cmd[p].pc = "freeze" /\ Keeps(cmd[p], Reach[p])
      /\ StagedHere(cmd[p], tmp) /\ cmd[p].acc \in Ids
  BY CommandFacts DEF Admit, At, Keeps, CreatePlaces
<1>2. PICK c : c = [cmd[p] EXCEPT !.pc = "cap", !.stamp = clock]
  OBVIOUS
<1>3. /\ c.pc = "cap" /\ c.acc = cmd[p].acc /\ c.prior = cmd[p].prior
      /\ c.staged = cmd[p].staged
  BY <1>1, <1>2 DEF Commands
<1>4. shelf[c.acc]["cap"] = NoFile
  BY <1>3 DEF Admit, Has
<1>5. /\ \A x \in Exts : shelf[c.acc][x] = NoFile
      /\ \A k \in Ids : shelf[k]["supersedes"] # LinkFrame(c.acc)
  BY <1>1, <1>3, <1>4 DEF ApartInv, FilesApart, ShelfApart, Has
<1>6. Keeps(c, Reach[p]) /\ StagedHere(c, tmp) /\ Knows(c, shelf)
  BY <1>1, <1>3, <1>5 DEF Keeps, StagedHere, Knows, CreateKnows, OtherKnows, CreatePlaces,
                          FrozenPlaces, StampExts, Ahead, Exts
<1>7. cmd' = [cmd EXCEPT ![p] = c] /\ UNCHANGED <<shelf, tmp, log>>
  BY <1>1, <1>2 DEF Admit, StoreInv, TypeOK, disk
<1> QED
  BY <1>6, <1>7, QuietApart

LEMMA PublishFailsApart ==
    ASSUME StoreAssumption, Exclusive, StoreInv, ApartInv, NEW p \in Procs, PublishFails(p)
    PROVE  ApartInv'
  BY AnswerApart DEF PublishFails

LEMMA RecordSupersedesApart ==
    ASSUME StoreAssumption, Exclusive, StoreInv, ApartInv, NEW p \in Procs,
           RecordSupersedes(p)
    PROVE  ApartInv'
<1>1. CASE Answer(p, "notfound", NoDeed) \/ Answer(p, "frozen", NoDeed)
  BY <1>1, AnswerApart DEF RecordSupersedes
<1>2. CASE Goto(p, "supersedes")
  <2>1. /\ cmd[p] \in Commands /\ cmd[p].pc = "link" /\ Keeps(cmd[p], Reach[p])
        /\ Knows(cmd[p], shelf)
    BY CommandFacts DEF RecordSupersedes, At
  <2>2. PICK c : c = [cmd[p] EXCEPT !.pc = "supersedes", !.staged = FALSE]
    OBVIOUS
  <2>3. /\ c.pc = "supersedes" /\ c.acc = cmd[p].acc /\ c.prior = cmd[p].prior
        /\ c.draft = cmd[p].draft /\ c.stamp = cmd[p].stamp /\ ~c.staged
    BY <2>1, <2>2 DEF Commands
  <2>4. shelf[c.prior]["cap"] # NoFile /\ shelf[c.prior]["successor"] = NoFile
    <3>1. Has(cmd[p].prior, "cap") /\ ~Has(cmd[p].prior, "successor")
      <4>1. cmd'[p].pc = "supersedes"
        BY <1>2, <2>1 DEF Goto, StoreInv, TypeOK, Commands
      <4>2. Idle("notfound", NoDeed).pc = "idle" /\ Idle("frozen", NoDeed).pc = "idle"
        BY DEF Idle
      <4>3. \A o : Answer(p, o, NoDeed) => cmd'[p] = Idle(o, NoDeed)
        BY DEF Answer, Begin, StoreInv, TypeOK
      <4> QED
        BY <4>1, <4>2, <4>3 DEF RecordSupersedes
    <3> QED
      BY <2>3, <3>1 DEF Has
  <2>5. Keeps(c, Reach[p]) /\ StagedHere(c, tmp) /\ Knows(c, shelf)
    BY <2>1, <2>3, <2>4 DEF Keeps, StagedHere, Knows, CreateKnows, OtherKnows, CreatePlaces,
                            FrozenPlaces, StampExts, Ahead
  <2>6. cmd' = [cmd EXCEPT ![p] = c] /\ UNCHANGED <<shelf, tmp, log>>
    BY <1>2, <2>1, <2>2 DEF RecordSupersedes, Goto, StoreInv, TypeOK, disk
  <2> QED
    BY <2>5, <2>6, QuietApart
<1> QED
  BY <1>1, <1>2 DEF RecordSupersedes

LEMMA DeleteApart ==
    ASSUME StoreAssumption, Exclusive, StoreInv, ApartInv, NEW p \in Procs, NEW i \in Ids,
           Delete(p, i)
    PROVE  ApartInv'
<1>1. PICK c : c = [Idle("none", NoDeed) EXCEPT !.pc = "tomb", !.acc = i]
  OBVIOUS
<1>2. Keeps(c, Reach[p]) /\ StagedHere(c, tmp) /\ Knows(c, shelf)
  BY <1>1 DEF Delete, Has, Idle, Keeps, StagedHere, Knows, CreateKnows, OtherKnows,
              CreatePlaces, FrozenPlaces, StampExts, Ahead
<1>3. cmd' = [cmd EXCEPT ![p] = c] /\ UNCHANGED <<shelf, tmp, log>>
  BY <1>1 DEF Delete, Begin, disk
<1> QED
  BY <1>2, <1>3, QuietApart

LEMMA TimestampApart ==
    ASSUME StoreAssumption, Exclusive, StoreInv, ApartInv, NEW p \in Procs, NEW i \in Ids,
           NEW ext \in StampExts, Timestamp(p, i, ext)
    PROVE  ApartInv'
<1>1. shelf[i]["evidence"] # NoFile /\ i \in Reach[p]
  BY DEF Timestamp, Has
<1>2. shelf[i]["evidence"].frame = "created"
  BY <1>1 DEF ApartInv, FilesApart, ShelfApart, Has, FrameOf, Exts
<1>3. PICK m : m = Imprint(shelf[i]["evidence"])
  OBVIOUS
<1>4. m = shelf[i]["evidence"]
  BY <1>2, <1>3 DEF Imprint, StampExts
<1>5. PICK c : c = [Idle("none", NoDeed) EXCEPT !.pc = ext, !.acc = i, !.imprint = m]
  OBVIOUS
<1>6. Keeps(c, Reach[p]) /\ StagedHere(c, tmp) /\ Knows(c, shelf)
  BY <1>1, <1>4, <1>5 DEF Idle, Keeps, StagedHere, Knows, CreateKnows, OtherKnows,
                          CreatePlaces, FrozenPlaces, StampExts, Ahead
<1>7. cmd' = [cmd EXCEPT ![p] = c] /\ UNCHANGED <<shelf, tmp, log>>
  BY <1>3, <1>5 DEF Timestamp, Begin, disk
<1> QED
  BY <1>6, <1>7, QuietApart

LEMMA BackfillApart ==
    ASSUME StoreAssumption, Exclusive, StoreInv, ApartInv, NEW p \in Procs, Backfill(p)
    PROVE  ApartInv'
<1>1. PICK S : S = Unlogged
  OBVIOUS
<1>2. PICK c : c = [Idle("none", NoDeed) EXCEPT !.pc = "backfill", !.todo = S]
  OBVIOUS
<1>3. Keeps(c, Reach[p]) /\ StagedHere(c, tmp) /\ Knows(c, shelf)
  BY <1>2 DEF Idle, Keeps, StagedHere, Knows, CreateKnows, OtherKnows, CreatePlaces,
              FrozenPlaces, StampExts, Ahead
<1>4. cmd' = [cmd EXCEPT ![p] = c] /\ UNCHANGED <<shelf, tmp, log>>
  BY <1>1, <1>2 DEF Backfill, Begin, disk
<1> QED
  BY <1>3, <1>4, QuietApart

LEMMA BackfillReadApart ==
    ASSUME StoreAssumption, Exclusive, StoreInv, ApartInv, NEW p \in Procs, BackfillRead(p)
    PROVE  ApartInv'
<1>1. /\ cmd[p] \in Commands /\ cmd[p].pc = "backfill" /\ StagedHere(cmd[p], tmp)
      /\ UNCHANGED <<disk, clock>>
  BY CommandFacts DEF BackfillRead, At
<1>2. PICK i \in cmd[p].todo :
         IF Served(i)
         THEN cmd' = [cmd EXCEPT
                  ![p].pc = "refill", ![p].acc = i, ![p].draft = DeedAt(i),
                  ![p].stamp = IF EvidencePasses(i)
                               THEN shelf[i]["evidence"].time ELSE clock]
         ELSE Answer(p, "notfound", NoDeed)
  BY DEF BackfillRead
<1>3. CASE ~Served(i)
  BY <1>1, <1>2, <1>3, AnswerApart
<1>4. CASE Served(i)
  <2>1. PICK d, t : d = DeedAt(i) /\ t = IF EvidencePasses(i)
                               THEN shelf[i]["evidence"].time ELSE clock
    OBVIOUS
  <2>2. shelf[i]["cap"] = DeedFrame(d)
    <3>1. shelf[i]["cap"] \in Files \cup {NoFile}
      BY <1>1 DEF StoreInv, TypeOK, Exts, Commands
    <3> QED
      BY <1>4, <2>1, <3>1, DeedFrames DEF Served, DeedAt
  <2>3. PICK c : c = [cmd[p] EXCEPT !.pc = "refill", !.acc = i, !.draft = d, !.stamp = t]
    OBVIOUS
  <2>4. c.pc = "refill" /\ c.acc = i /\ c.draft = d /\ c.staged = cmd[p].staged
    BY <1>1, <2>3 DEF Commands
  <2>5. Keeps(c, Reach[p]) /\ StagedHere(c, tmp) /\ Knows(c, shelf)
    BY <1>1, <2>2, <2>4 DEF Keeps, StagedHere, Knows, CreateKnows, OtherKnows, CreatePlaces,
                            FrozenPlaces, StampExts, Ahead, Exts
  <2>6. cmd' = [cmd EXCEPT ![p] = c] /\ UNCHANGED <<shelf, tmp, log>>
    BY <1>1, <1>2, <1>4, <2>1, <2>3 DEF StoreInv, TypeOK, disk
  <2> QED
    BY <2>5, <2>6, QuietApart
<1> QED
  BY <1>3, <1>4

LEMMA StopApart ==
    ASSUME StoreAssumption, Exclusive, StoreInv, ApartInv, NEW p \in Procs, Stop(p)
    PROVE  ApartInv'
  BY AnswerApart DEF Stop

LEMMA StillApart ==
    ASSUME ApartInv, UNCHANGED <<shelf, tmp, log, cmd>> PROVE ApartInv'
<1>1. CommandsApart'
  BY DEF ApartInv, CommandsApart
<1> QED
  BY <1>1, FilesStill DEF ApartInv

-----------------------------------------------------------------------------
(* Lines of the log. *)

LEMMA LogStepApart ==
    ASSUME StoreAssumption, Exclusive, StoreInv, ApartInv, NEW p \in Procs, NEW c,
           cmd' = [cmd EXCEPT ![p] = c],
           Keeps(c, Reach[p]), StagedHere(c, tmp), Knows(c, shelf),
           NEW d \in Deed, NEW t \in Time, AppendLog(d, t),
           shelf[d.id]["cap"] = DeedFrame(d),
           UNCHANGED <<shelf, tmp>>
    PROVE  ApartInv'
<1>1. CommandsApart'
  <2>1. \A q \in Procs : Undisturbed(shelf, shelf', Reach[q])
    BY DEF Undisturbed
  <2>2. StagedHere(c, tmp') /\ Knows(c, shelf')
    OBVIOUS
  <2> QED
    BY <2>1, <2>2, CommandsStep DEF ApartInv
<1>2. LogApart'
  <2>1. log \in Seq(Entries) /\ log' = Append(log, Entry(d, t)) /\ Entry(d, t) \in Entries
    BY DEF StoreInv, TypeOK, AppendLog, Entry, Entries, Digest, Deed
  <2>2. shelf[d.id]["cap"] # NoFile /\ shelf[d.id]["cap"].deed = d
    BY DEF DeedFrame, NoFile
  <2>3. ASSUME NEW k \in 1..Len(log')
        PROVE  /\ shelf[log'[k].id]["cap"] # NoFile
               /\ log'[k].digest = Digest(shelf[log'[k].id]["cap"].deed)
    <3>1. CASE k = Len(log) + 1
      BY <2>1, <2>2, <3>1 DEF Entry
    <3>2. CASE k \in 1..Len(log)
      BY <2>1, <3>2 DEF ApartInv, FilesApart, LogApart, Has, DeedAt
    <3> QED
      BY <2>1, <3>1, <3>2
  <2> QED
    BY <2>3 DEF LogApart, Has, DeedAt
<1> QED
  BY <1>1, <1>2 DEF ApartInv, FilesApart, ShelfApart, LinkedBothWays, SupersedesAcyclic,
                    TimestampCoversEvidence, Has

LEMMA LogDeedApart ==
    ASSUME StoreAssumption, Exclusive, StoreInv, ApartInv, NEW p \in Procs, LogDeed(p)
    PROVE  ApartInv'
<1>1. /\ cmd[p].pc = "append" /\ CommandOK(cmd[p], bytes, shelf) /\ Knows(cmd[p], shelf)
  BY CommandFacts DEF LogDeed, At
<1>2. PICK d, t : d = cmd[p].draft /\ t = cmd[p].stamp
  OBVIOUS
<1>3. /\ d \in Deed /\ t \in Time
      /\ shelf[d.id]["cap"] = DeedFrame(d)
      /\ shelf[d.id]["evidence"] = CreatedFrame(d, t)
  BY <1>1, <1>2 DEF CommandOK, DraftOK, Knows, CreateKnows, CreatePlaces, FrozenPlaces
<1>4. CreatedFrame(d, t).frame = "created"
  BY DEF CreatedFrame
<1>5. PICK c : c = Idle("ok", d)
  OBVIOUS
<1>6. Keeps(c, Reach[p]) /\ StagedHere(c, tmp) /\ Knows(c, shelf)
  BY <1>3, <1>4, <1>5, AnswerKnows
<1>7. cmd' = [cmd EXCEPT ![p] = c] /\ AppendLog(d, t) /\ UNCHANGED <<shelf, tmp>>
  BY <1>2, <1>5 DEF LogDeed, Answer, Begin
<1> QED
  BY <1>3, <1>6, <1>7, LogStepApart

LEMMA BackfillLogApart ==
    ASSUME StoreAssumption, Exclusive, StoreInv, ApartInv, NEW p \in Procs, BackfillLog(p)
    PROVE  ApartInv'
<1>1. /\ cmd[p].pc = "refill" /\ CommandOK(cmd[p], bytes, shelf) /\ Knows(cmd[p], shelf)
  BY CommandFacts DEF BackfillLog, At
<1>2. PICK d, t, S : d = cmd[p].draft /\ t = cmd[p].stamp /\ S = cmd[p].todo \ {cmd[p].acc}
  OBVIOUS
<1>3. d \in Deed /\ t \in Time /\ shelf[d.id]["cap"] = DeedFrame(d)
  BY <1>1, <1>2 DEF CommandOK, DraftOK, WrittenOK, Knows, OtherKnows
<1>4. PICK c : c = IF S = {} THEN Idle("ok", NoDeed)
                   ELSE [Idle("none", NoDeed) EXCEPT !.pc = "backfill", !.todo = S]
  OBVIOUS
<1>5. Keeps(c, Reach[p]) /\ StagedHere(c, tmp) /\ Knows(c, shelf)
  <2>1. CASE S = {}
    BY <1>4, <2>1, AnswerKnows
  <2>2. CASE S # {}
    <3>1. c = [Idle("none", NoDeed) EXCEPT !.pc = "backfill", !.todo = S]
      BY <1>4, <2>2
    <3> QED
      BY <3>1 DEF Idle, Keeps, StagedHere, Knows, CreateKnows, OtherKnows, CreatePlaces,
                  FrozenPlaces, StampExts, Ahead
  <2> QED
    BY <2>1, <2>2
<1>6. cmd' = [cmd EXCEPT ![p] = c] /\ AppendLog(d, t) /\ UNCHANGED <<shelf, tmp>>
  BY <1>2, <1>4 DEF BackfillLog, Answer, Begin
<1> QED
  BY <1>3, <1>5, <1>6, LogStepApart

-----------------------------------------------------------------------------
(* atomic_write *)

LEMMA StageApart ==
    ASSUME StoreAssumption, Exclusive, StoreInv, ApartInv, NEW p \in Procs, Stage(p)
    PROVE  ApartInv'
<1>1. /\ cmd[p] \in Commands /\ CommandOK(cmd[p], bytes, shelf) /\ cmd[p].pc \in Exts
      /\ Keeps(cmd[p], Reach[p]) /\ Knows(cmd[p], shelf) /\ Reach[p] \in SUBSET Ids
  BY CommandFacts DEF Stage
<1>2. PICK i, f : i = Target(cmd[p]) /\ f = Contents(cmd[p])
  OBVIOUS
<1>3. i \in Reach[p] /\ i \in Ids
  BY <1>1, <1>2, TargetReached
<1>4. tmp' = [tmp EXCEPT ![i] = f] /\ UNCHANGED <<shelf, log>>
  BY <1>2 DEF Stage
<1>5. /\ tmp'[i] = f
      /\ \A j \in Ids \ Reach[p] : tmp'[j] = tmp[j]
  BY <1>3, <1>4 DEF StoreInv, TypeOK
<1>6. PICK c : c = [cmd[p] EXCEPT !.staged = TRUE]
  OBVIOUS
<1>7. /\ c.pc = cmd[p].pc /\ c.acc = cmd[p].acc /\ c.prior = cmd[p].prior
      /\ c.draft = cmd[p].draft /\ c.stamp = cmd[p].stamp /\ c.imprint = cmd[p].imprint
      /\ c.outcome = cmd[p].outcome
      /\ cmd' = [cmd EXCEPT ![p] = c]
  BY <1>1, <1>6 DEF Commands, Stage, StoreInv, TypeOK
<1>8. Target(c) = i /\ Contents(c) = f
  BY <1>2, <1>7 DEF Target, Contents
<1>9. Keeps(c, Reach[p]) /\ StagedHere(c, tmp') /\ Knows(c, shelf')
  BY <1>1, <1>4, <1>5, <1>7, <1>8 DEF Keeps, StagedHere, Knows, CreateKnows, OtherKnows
<1>10. \A q \in Procs : Undisturbed(shelf, shelf', Reach[q])
  BY <1>4 DEF Undisturbed
<1>11. CommandsApart'
  BY <1>5, <1>7, <1>9, <1>10, CommandsStep DEF ApartInv
<1> QED
  BY <1>4, <1>11, FilesStill DEF ApartInv

(* What atomic_write renames is what it staged, under its own name, and of the
   files of a record it is the first there. *)
Record == {"cap", "evidence", "host", "supersedes", "successor"}

LEMMA PublishFacts ==
    ASSUME StoreAssumption, Exclusive, StoreInv, ApartInv, NEW p \in Procs, Publish(p),
           NEW c, c = cmd[p], NEW i, i = Target(c), NEW x, x = c.pc
    PROVE  /\ i \in Reach[p] /\ i \in Ids /\ x \in Exts
           /\ \A j \in Ids, y \in Exts :
                 shelf'[j][y] = IF j = i /\ y = x THEN Contents(c) ELSE shelf[j][y]
           /\ \A j \in Ids \ Reach[p] : tmp'[j] = tmp[j]
           /\ Contents(c) # NoFile /\ Contents(c).frame = FrameOf(x)
           /\ x \in Record => shelf[i][x] = NoFile
           /\ x # "cap" => shelf[i]["cap"] # NoFile
           /\ UNCHANGED <<bytes, log>>
<1>1. /\ c \in Commands /\ CommandOK(c, bytes, shelf) /\ x \in Exts /\ c.staged
      /\ Keeps(c, Reach[p]) /\ StagedHere(c, tmp) /\ Knows(c, shelf)
      /\ Reach[p] \in SUBSET Ids
  BY CommandFacts DEF Publish
<1>2. i \in Reach[p] /\ i \in Ids
  BY <1>1, TargetReached
<1>3. tmp[i] = Contents(c)
  BY <1>1 DEF StagedHere
<1>4. /\ shelf' = [shelf EXCEPT ![i][x] = tmp[i]]
      /\ tmp' = [tmp EXCEPT ![i] = NoFile]
      /\ tmp[i] # NoFile
      /\ UNCHANGED <<bytes, log>>
  BY DEF Publish
<1>5. \A j \in Ids, y \in Exts :
          shelf'[j][y] = IF j = i /\ y = x THEN Contents(c) ELSE shelf[j][y]
  BY <1>1, <1>2, <1>3, <1>4 DEF StoreInv, TypeOK
<1>6. \A j \in Ids \ Reach[p] : tmp'[j] = tmp[j]
  BY <1>2, <1>4 DEF StoreInv, TypeOK
<1>7. Contents(c).frame = FrameOf(x)
  BY <1>1 DEF Contents, FrameOf, DeedFrame, CreatedFrame, HostFrame, LinkFrame, TombFrame,
              StampFrame, Exts, StampExts
<1>8. x \in Record => shelf[i][x] = NoFile
  BY <1>1 DEF Record, Target, Knows, CreateKnows, CreatePlaces, Ahead, Exts
<1>9. x # "cap" => shelf[i]["cap"] # NoFile
  <2>1. x \in StampExts => shelf[i]["cap"] # NoFile
    BY <1>1, <1>2 DEF Target, Knows, OtherKnows, ApartInv, FilesApart, ShelfApart, Has,
                      StampExts, Exts
  <2>2. x \in Record \cup {"tomb"} /\ x # "cap" => shelf[i]["cap"] # NoFile
    BY <1>1 DEF Record, Target, Knows, OtherKnows, CreateKnows, CommandOK, WrittenOK,
                FrozenPlaces
  <2> QED
    BY <1>1, <2>1, <2>2 DEF Exts, Record
<1> QED
  BY <1>1, <1>2, <1>3, <1>4, <1>5, <1>6, <1>7, <1>8, <1>9

(* The other commands' accessions are not touched, nor a deed or its evidence
   replaced. *)
LEMMA PublishUndisturbed ==
    ASSUME StoreAssumption, Exclusive, StoreInv, ApartInv, NEW p \in Procs, Publish(p),
           NEW q \in Procs \ {p}
    PROVE  Undisturbed(shelf, shelf', Reach[q])
<1>1. PICK c, i, x : c = cmd[p] /\ i = Target(c) /\ x = c.pc
  OBVIOUS
<1>2. /\ i \in Reach[p] /\ i \in Ids /\ x \in Exts
      /\ \A j \in Ids, y \in Exts :
            shelf'[j][y] = IF j = i /\ y = x THEN Contents(c) ELSE shelf[j][y]
      /\ x \in Record => shelf[i][x] = NoFile
  BY <1>1, PublishFacts
<1>3. /\ Reach[q] \cap Reach[p] = {} /\ Reach[q] \in SUBSET Ids
      /\ {"cap", "evidence", "supersedes"} \subseteq Exts \cap Record
  BY DEF Exclusive, StoreAssumption, Exts, Record
<1>4. x = "supersedes" => Contents(c) = LinkFrame(c.prior) /\ c.prior \in Reach[p]
  BY <1>1, CommandFacts DEF Contents, Keeps, CreatePlaces, CommandOK, DraftOK, StoreAssumption
<1>5. \A j, k : LinkFrame(j) = LinkFrame(k) => j = k
  <2>1. \A j : LinkFrame(j).id = j
    BY DEF LinkFrame
  <2> QED
    BY <2>1
<1> QED
  BY <1>2, <1>3, <1>4, <1>5 DEF Undisturbed

(* The place a write is followed by is one whose facts it has made true. *)
LEMMA PublishKnows ==
    ASSUME StoreAssumption, Exclusive, StoreInv, ApartInv, NEW p \in Procs, Publish(p),
           NextPlace(cmd[p]) # "idle",
           NEW d, d = Moved(cmd[p], NextPlace(cmd[p]))
    PROVE  Keeps(d, Reach[p]) /\ StagedHere(d, tmp') /\ Knows(d, shelf')
<1>1. PICK c, i, x : c = cmd[p] /\ i = Target(c) /\ x = c.pc
  OBVIOUS
<1>2. /\ i \in Reach[p] /\ i \in Ids /\ x \in Exts
      /\ \A j \in Ids, y \in Exts :
            shelf'[j][y] = IF j = i /\ y = x THEN Contents(c) ELSE shelf[j][y]
      /\ Contents(c) # NoFile
  BY <1>1, PublishFacts
<1>3. /\ c \in Commands /\ CommandOK(c, bytes, shelf) /\ Keeps(c, Reach[p])
      /\ Knows(c, shelf) /\ Reach[p] \in SUBSET Ids
  BY <1>1, CommandFacts
<1>4. /\ d.pc = NextPlace(c) /\ d.acc = c.acc /\ d.prior = c.prior /\ d.draft = c.draft
      /\ d.stamp = c.stamp /\ d.staged = FALSE
  BY <1>1, <1>3 DEF Moved, Commands
<1>5. x \in Record /\ d.pc \in FrozenPlaces /\ NextPlace(c) # "idle"
  BY <1>1, <1>2, <1>4 DEF NextPlace, AfterEvidence, AfterHost, Record, FrozenPlaces, Exts, StampExts
<1>6. c.acc \in Reach[p] /\ c.acc \in Ids /\ c.prior # c.acc
  BY <1>1, <1>3, <1>5 DEF Record, CreatePlaces, CommandOK, DraftOK, Keeps
<1>7. x \in {"supersedes", "successor"} => c.prior \in Ids
  BY <1>1, <1>3 DEF CommandOK, DraftOK
<1>8. Keeps(d, Reach[p]) /\ StagedHere(d, tmp')
  BY <1>1, <1>3, <1>4, <1>5 DEF Keeps, Record, CreatePlaces, FrozenPlaces, StampExts, StagedHere
<1>9. Knows(d, shelf')
  <2> USE <1>1, <1>2, <1>3, <1>4, <1>6, <1>7
      DEF Knows, CreateKnows, OtherKnows, CreatePlaces, FrozenPlaces, StampExts, Ahead, Exts,
          Target, NextPlace
  <2>1. CASE x = "cap"
    BY <2>1 DEF Contents, DeedFrame
  <2>2. CASE x = "evidence"
    BY <2>2 DEF Contents, AfterEvidence, AfterHost
  <2>3. CASE x = "host"
    BY <2>3 DEF AfterHost
  <2>4. CASE x = "supersedes"
    BY <2>4 DEF Contents
  <2>5. CASE x = "successor"
    BY <2>5
  <2> QED
    BY <1>5, <2>1, <2>2, <2>3, <2>4, <2>5 DEF Record
<1> QED
  BY <1>8, <1>9

LEMMA PublishCommands ==
    ASSUME StoreAssumption, Exclusive, StoreInv, ApartInv, NEW p \in Procs, Publish(p)
    PROVE  CommandsApart'
<1>1. \A i \in Ids \ Reach[p] : tmp'[i] = tmp[i]
  BY PublishFacts
<1>2. \A q \in Procs \ {p} : Undisturbed(shelf, shelf', Reach[q])
  BY PublishUndisturbed
<1>3. CASE NextPlace(cmd[p]) = "idle"
  <2>1. PICK o : cmd' = [cmd EXCEPT ![p] = Idle(o, NoDeed)]
    BY <1>3 DEF Publish, Answer, Begin
  <2>2. PICK c : c = Idle(o, NoDeed)
    OBVIOUS
  <2>3. Keeps(c, Reach[p]) /\ StagedHere(c, tmp') /\ Knows(c, shelf')
    BY <2>2, AnswerKnows
  <2> QED
    BY <1>1, <1>2, <2>1, <2>2, <2>3, CommandsStep DEF ApartInv
<1>4. CASE NextPlace(cmd[p]) # "idle"
  <2>1. PICK c : c = Moved(cmd[p], NextPlace(cmd[p]))
    OBVIOUS
  <2>2. Keeps(c, Reach[p]) /\ StagedHere(c, tmp') /\ Knows(c, shelf')
    BY <1>4, <2>1, PublishKnows
  <2>3. cmd' = [cmd EXCEPT ![p] = c]
    BY <1>4, <2>1 DEF Publish, Goto, Moved, StoreInv, TypeOK
  <2> QED
    BY <1>1, <1>2, <2>2, <2>3, CommandsStep DEF ApartInv
<1> QED
  BY <1>3, <1>4

(* No deeds of the shelf s name one another in a circle. *)
NoCircle(s) ==
    \A S \in SUBSET Ids :
        (\A k \in S : \E l \in S : s[k]["supersedes"] = LinkFrame(l)) => S = {}

(* The first supersedes file of a deed nobody names closes no circle. *)
LEMMA LinkClosesNoCircle ==
    ASSUME NEW s, NEW t, NEW i \in Ids, NEW j \in Ids, i # j, NoCircle(s),
           \A k \in Ids : s[k]["supersedes"] # LinkFrame(i),
           \A k \in Ids \ {i} : t[k]["supersedes"] = s[k]["supersedes"],
           t[i]["supersedes"] = LinkFrame(j)
    PROVE  NoCircle(t)
<1> SUFFICES ASSUME NEW S \in SUBSET Ids,
                    \A k \in S : \E l \in S : t[k]["supersedes"] = LinkFrame(l)
             PROVE  S = {}
  BY DEF NoCircle
<1>1. \A k, l : LinkFrame(k) = LinkFrame(l) => k = l
  <2>1. \A k : LinkFrame(k).id = k
    BY DEF LinkFrame
  <2> QED
    BY <2>1
<1>2. CASE i \notin S
  <2>1. \A k \in S : \E l \in S : s[k]["supersedes"] = LinkFrame(l)
    BY <1>2
  <2> QED
    BY <2>1 DEF NoCircle
<1>3. CASE i \in S
  <2>1. j \in S
    BY <1>1, <1>3
  <2>2. ASSUME NEW k \in S \ {i}
        PROVE  \E l \in S \ {i} : s[k]["supersedes"] = LinkFrame(l)
    <3>1. PICK l \in S : t[k]["supersedes"] = LinkFrame(l)
      OBVIOUS
    <3>2. s[k]["supersedes"] = LinkFrame(l) /\ l # i
      BY <3>1
    <3> QED
      BY <3>2
  <2>3. S \ {i} = {}
    BY <2>2 DEF NoCircle
  <2> QED
    BY <2>1, <2>3
<1> QED
  BY <1>2, <1>3

LEMMA PublishFiles ==
    ASSUME StoreAssumption, Exclusive, StoreInv, ApartInv, NEW p \in Procs, Publish(p)
    PROVE  FilesApart'
<1>1. PICK c, i, x : c = cmd[p] /\ i = Target(c) /\ x = c.pc
  OBVIOUS
<1>2. /\ i \in Reach[p] /\ i \in Ids /\ x \in Exts
      /\ Contents(c) # NoFile /\ Contents(c).frame = FrameOf(x)
      /\ x \in Record => shelf[i][x] = NoFile
      /\ x # "cap" => shelf[i]["cap"] # NoFile
      /\ log' = log
  BY <1>1, PublishFacts
<1>3. \A j \in Ids, y \in Exts :
          shelf'[j][y] = IF j = i /\ y = x THEN Contents(c) ELSE shelf[j][y]
  BY <1>1, PublishFacts
<1>4. /\ CommandOK(c, bytes, shelf) /\ Keeps(c, Reach[p]) /\ Knows(c, shelf)
      /\ Reach[p] \in SUBSET Ids
  BY <1>1, CommandFacts
<1>5. \A k, l : LinkFrame(k) = LinkFrame(l) => k = l
  <2>1. \A k : LinkFrame(k).id = k
    BY DEF LinkFrame
  <2> QED
    BY <2>1
<1>6. Record \cup StampExts \subseteq Exts
  BY DEF Record, StampExts, Exts
<1>7. \A j \in Ids, y \in Record : shelf[j][y] # NoFile => shelf'[j][y] = shelf[j][y]
  BY <1>2, <1>3, <1>6
<1>8. /\ x = "supersedes" => /\ i = c.acc /\ c.prior \in Ids \ {i}
                             /\ Contents(c) = LinkFrame(c.prior)
                             /\ shelf[c.prior]["cap"] # NoFile
                             /\ \A k \in Ids : shelf[k]["supersedes"] # LinkFrame(i)
      /\ x = "successor" => /\ i = c.prior /\ c.acc \in Ids \ {i}
                            /\ Contents(c) = LinkFrame(c.acc)
                            /\ shelf[c.acc]["supersedes"] = LinkFrame(i)
                            /\ shelf[c.acc]["cap"] = DeedFrame(c.draft)
  BY <1>1, <1>4 DEF CommandOK, DraftOK, CreatePlaces, FrozenPlaces, Keeps, Knows,
                    CreateKnows, Target, Contents
<1>9. ShelfApart /\ LogApart /\ LinkedBothWays /\ SupersedesAcyclic /\ TimestampCoversEvidence
  BY DEF ApartInv, FilesApart
<1>10. ShelfApart'
  <2>1. \A j \in Ids, y \in Exts : shelf'[j][y] # NoFile =>
            shelf'[j][y].frame = FrameOf(y) /\ shelf'[j]["cap"] # NoFile
    BY <1>2, <1>3, <1>6, <1>7, <1>9 DEF ShelfApart, Has, Record
  <2>2. \A j \in Ids, y \in StampExts : shelf'[j][y] # NoFile => shelf'[j]["evidence"] # NoFile
    <3>1. x \in StampExts => i = c.acc /\ shelf[i]["evidence"] # NoFile
      BY <1>1, <1>4 DEF Target, Knows, OtherKnows, StampExts
    <3> QED
      BY <1>3, <1>6, <1>7, <1>9, <3>1 DEF ShelfApart, Has, Record
  <2>3. \A j, k \in Ids : shelf'[j]["supersedes"] = LinkFrame(k) => shelf'[k]["cap"] # NoFile
    BY <1>3, <1>5, <1>6, <1>7, <1>8, <1>9 DEF ShelfApart, Has, Record
  <2> QED
    BY <2>1, <2>2, <2>3 DEF ShelfApart, Has
<1>11. LogApart'
  <2>1. \A k \in 1..Len(log) : log[k] \in Entries
    BY DEF StoreInv, TypeOK
  <2>2. ASSUME NEW k \in 1..Len(log)
        PROVE  /\ shelf'[log[k].id]["cap"] # NoFile
               /\ log[k].digest = Digest(shelf'[log[k].id]["cap"].deed)
    <3>1. PICK j : j = log[k].id
      OBVIOUS
    <3>2. /\ j \in Ids /\ shelf[j]["cap"] # NoFile
          /\ log[k].digest = Digest(shelf[j]["cap"].deed)
      BY <1>9, <2>1, <3>1 DEF LogApart, Has, DeedAt, Entries
    <3>3. shelf'[j]["cap"] = shelf[j]["cap"]
      BY <1>7, <3>2 DEF Record
    <3> QED
      BY <3>1, <3>2, <3>3
  <2> QED
    BY <1>2, <2>2 DEF LogApart, Has, DeedAt
<1>12. LinkedBothWays'
  <2>1. ASSUME NEW j \in Ids, shelf'[j]["successor"] # NoFile
        PROVE  \E k \in Ids \ {j} : /\ shelf'[j]["successor"] = LinkFrame(k)
                                    /\ shelf'[k]["supersedes"] = LinkFrame(j)
                                    /\ shelf'[k]["cap"].frame = "deed"
    <3>1. NoFile.frame # "deed" /\ \A l : LinkFrame(l) # NoFile
      BY DEF NoFile, LinkFrame
    <3>2. CASE j = i /\ x = "successor"
      <4>1. DeedFrame(c.draft).frame = "deed"
        BY DEF DeedFrame
      <4>2. shelf'[j]["successor"] = LinkFrame(c.acc)
        BY <1>2, <1>3, <1>8, <3>2
      <4>3. shelf'[c.acc]["supersedes"] = LinkFrame(j)
        BY <1>7, <1>8, <3>1, <3>2 DEF Record
      <4>4. shelf'[c.acc]["cap"].frame = "deed"
        BY <1>7, <1>8, <3>1, <3>2, <4>1 DEF Record
      <4> QED
        BY <1>8, <3>2, <4>2, <4>3, <4>4
    <3>3. CASE ~(j = i /\ x = "successor")
      <4>1. shelf'[j]["successor"] = shelf[j]["successor"]
        BY <1>3, <1>6, <3>3 DEF Record
      <4>2. PICK k \in Ids \ {j} : /\ shelf[j]["successor"] = LinkFrame(k)
                                   /\ shelf[k]["supersedes"] = LinkFrame(j)
                                   /\ shelf[k]["cap"].frame = "deed"
        BY <1>9, <2>1, <4>1 DEF LinkedBothWays, Has
      <4>3. shelf'[k]["supersedes"] = LinkFrame(j) /\ shelf'[k]["cap"].frame = "deed"
        BY <1>7, <3>1, <4>2 DEF Record
      <4> QED
        BY <4>1, <4>2, <4>3
    <3> QED
      BY <3>2, <3>3
  <2> QED
    BY <2>1 DEF LinkedBothWays, Has
<1>13. SupersedesAcyclic'
  <2>1. CASE x = "supersedes"
    <3>1. /\ \A k \in Ids \ {i} : shelf'[k]["supersedes"] = shelf[k]["supersedes"]
          /\ shelf'[i]["supersedes"] = LinkFrame(c.prior)
      BY <1>2, <1>3, <1>8, <2>1
    <3>2. NoCircle(shelf)
      BY <1>9 DEF SupersedesAcyclic, NoCircle
    <3>3. NoCircle(shelf')
      BY <1>2, <1>8, <2>1, <3>1, <3>2, LinkClosesNoCircle
    <3> QED
      BY <3>3 DEF SupersedesAcyclic, NoCircle
  <2>2. CASE x # "supersedes"
    <3>1. \A k \in Ids : shelf'[k]["supersedes"] = shelf[k]["supersedes"]
      BY <1>3, <1>6, <2>2 DEF Record
    <3> QED
      BY <1>9, <3>1 DEF SupersedesAcyclic
  <2> QED
    BY <2>1, <2>2
<1>14. TimestampCoversEvidence'
  <2>1. x \in StampExts => /\ i = c.acc /\ shelf[i]["evidence"] # NoFile
                           /\ Contents(c) = StampFrame(x, shelf[i]["evidence"])
    BY <1>1, <1>4 DEF Target, Contents, Knows, OtherKnows, StampExts
  <2>2. ASSUME NEW j \in Ids, NEW y \in StampExts, shelf'[j][y] # NoFile
        PROVE  shelf'[j][y] = StampFrame(y, shelf'[j]["evidence"])
    <3>1. "evidence" \in Record /\ y \in Exts
      BY <1>6 DEF Record
    <3>2. CASE j = i /\ y = x
      BY <1>2, <1>3, <1>7, <2>1, <2>2, <3>1, <3>2
    <3>3. CASE ~(j = i /\ y = x)
      <4>1. shelf'[j][y] = shelf[j][y]
        BY <1>3, <3>1, <3>3
      <4>2. shelf[j]["evidence"] # NoFile /\ shelf[j][y] = StampFrame(y, shelf[j]["evidence"])
        BY <1>9, <2>2, <4>1 DEF ShelfApart, TimestampCoversEvidence, Has
      <4> QED
        BY <1>7, <3>1, <4>1, <4>2
    <3> QED
      BY <3>2, <3>3
  <2> QED
    BY <2>2 DEF TimestampCoversEvidence, Has
<1> QED
  BY <1>10, <1>11, <1>12, <1>13, <1>14 DEF FilesApart

LEMMA PublishApart ==
    ASSUME StoreAssumption, Exclusive, StoreInv, ApartInv, NEW p \in Procs, Publish(p)
    PROVE  ApartInv'
  BY PublishCommands, PublishFiles DEF ApartInv

-----------------------------------------------------------------------------
(* An empty store, and then every step. *)

LEMMA InitApart == ASSUME StoreAssumption, Init PROVE ApartInv
<1>1. \A i \in Ids, x \in Exts : shelf[i][x] = NoFile
  BY DEF Init
<1>2. {"cap", "evidence", "supersedes", "successor"} \cup StampExts \subseteq Exts
  BY DEF Exts, StampExts
<1>3. \A j : LinkFrame(j) # NoFile
  BY DEF LinkFrame, NoFile
<1>4. CommandsApart
  <2>1. ASSUME NEW p \in Procs
        PROVE  Keeps(cmd[p], Reach[p]) /\ StagedHere(cmd[p], tmp) /\ Knows(cmd[p], shelf)
    <3>1. cmd[p] = Idle("none", NoDeed)
      BY DEF Init
    <3> QED
      BY <3>1, AnswerKnows
  <2> QED
    BY <2>1 DEF CommandsApart
<1>5. ShelfApart
  BY <1>1, <1>2, <1>3 DEF ShelfApart, Has
<1>6. LogApart
  BY DEF Init, LogApart
<1>7. LinkedBothWays /\ TimestampCoversEvidence
  BY <1>1, <1>2 DEF LinkedBothWays, TimestampCoversEvidence, Has
<1>8. SupersedesAcyclic
  BY <1>1, <1>2, <1>3 DEF SupersedesAcyclic
<1> QED
  BY <1>4, <1>5, <1>6, <1>7, <1>8 DEF ApartInv, FilesApart

LEMMA NextApart ==
    ASSUME StoreAssumption, Exclusive, StoreInv, ApartInv, [Next]_vars
    PROVE  ApartInv'
<1>1. ASSUME NEW p \in Procs, Start(p) PROVE ApartInv'
  BY <1>1, CreateBeginApart, DeleteApart, TimestampApart, BackfillApart DEF Start
<1>2. ASSUME NEW p \in Procs, Step(p) PROVE ApartInv'
  BY <1>2, IngestApart, AnswerAgainApart, RefuseFrozenApart, AdmitApart, StageApart,
     PublishApart, PublishFailsApart, RecordSupersedesApart, LogDeedApart,
     BackfillReadApart, BackfillLogApart DEF Step
<1>3. ASSUME NEW p \in Procs, Stop(p) PROVE ApartInv'
  BY <1>3, StopApart
<1>4. ASSUME Tick \/ UNCHANGED vars PROVE ApartInv'
  BY <1>4, StillApart DEF Tick, vars, disk
<1> QED
  BY <1>1, <1>2, <1>3, <1>4 DEF Next

(* While no accession is worked on by two processes, every state of the store
   satisfies the invariant, however commands interleave and wherever they stop. *)
THEOREM ApartInvariant == ASSUME Exclusive PROVE Spec => [](StoreInv /\ ApartInv)
<1>1. Init => ApartInv
  BY StoreAssumption, InitApart
<1>2. StoreInv /\ ApartInv /\ [Next]_vars => ApartInv'
  BY StoreAssumption, NextApart
<1> QED
  BY <1>1, <1>2, StoreInvariant, PTL DEF Spec

(* record_supersedes writes the new deed's side first and only for a prior deed
   that has no successor: a recorded successor always names the deed back. *)
THEOREM LinksConfirmed == ASSUME Exclusive PROVE Spec => []LinkedBothWays
<1>1. ApartInv => LinkedBothWays
  BY DEF ApartInv, FilesApart
<1> QED
  BY <1>1, ApartInvariant, PTL

(* create takes a prior deed only where it is on the shelf and an accession only
   where nothing is: the links it records never close a circle. *)
THEOREM LinksCloseNoCircle == ASSUME Exclusive PROVE Spec => []SupersedesAcyclic
<1>1. ApartInv => SupersedesAcyclic
  BY DEF ApartInv, FilesApart
<1> QED
  BY <1>1, ApartInvariant, PTL

(* timestamp writes, after waiting on the authority, a query or reply over the
   evidence that is still beside it. *)
THEOREM TimestampsCover == ASSUME Exclusive PROVE Spec => []TimestampCoversEvidence
<1>1. ApartInv => TimestampCoversEvidence
  BY DEF ApartInv, FilesApart
<1> QED
  BY <1>1, ApartInvariant, PTL

(* A deed create answered with stays under its accession, with evidence. *)
THEOREM AnswersHold == ASSUME Exclusive PROVE Spec => []AnswerHolds
<1>1. ApartInv => AnswerHolds
  BY DEF ApartInv, CommandsApart, Knows, OtherKnows, AnswerHolds, At, LoadsEvidence
<1> QED
  BY <1>1, ApartInvariant, PTL

(* A deed logged and not served as logged has a tombstone: log_audit never takes
   what a stopped command left behind for tampering. *)
THEOREM AuditsFindTombs == ASSUME Exclusive PROVE Spec => []AuditFindsOnlyTombs
<1>1. ASSUME StoreInv, ApartInv PROVE AuditFindsOnlyTombs
  <2> SUFFICES ASSUME NEW i \in Missing, ~Has(i, "tomb") PROVE FALSE
    BY DEF AuditFindsOnlyTombs
  <2>1. PICK k \in 1..Len(log) : /\ log[k].id = i
                                 /\ ~(Served(i) /\ Digest(DeedAt(i)) = log[k].digest)
    BY DEF Missing
  <2>2. i \in Ids /\ Has(i, "cap") /\ log[k].digest = Digest(DeedAt(i))
    BY <1>1, <2>1 DEF Missing, ApartInv, FilesApart, LogApart
  <2>3. shelf[i]["cap"].frame = "deed"
    BY <1>1, <2>2 DEF ApartInv, FilesApart, ShelfApart, FrameOf, Exts
  <2>4. shelf[i]["cap"].deed.id = i
    BY <1>1, <2>2, <2>3 DEF StoreInv, MixupStaysWithinAccession, About, Exts
  <2> QED
    BY <2>1, <2>2, <2>3, <2>4 DEF Served
<1> QED
  BY <1>1, ApartInvariant, PTL

-----------------------------------------------------------------------------
(* Steps, as the record sees them. *)

(* Only a rename changes the shelf, and only two actions add to the log. *)
LEMMA StepsByEffect ==
    ASSUME [Next]_vars
    PROVE  \/ UNCHANGED <<shelf, log>>
           \/ \E p \in Procs : Publish(p) \/ LogDeed(p) \/ BackfillLog(p)
<1>1. ASSUME NEW p \in Procs, Start(p) PROVE UNCHANGED <<shelf, log>>
  BY <1>1 DEF Start, CreateBegin, Delete, Timestamp, Backfill, disk
<1>2. ASSUME NEW p \in Procs, Step(p), ~Publish(p), ~LogDeed(p), ~BackfillLog(p)
      PROVE  UNCHANGED <<shelf, log>>
  <2>1. Admit(p) \/ BackfillRead(p) => UNCHANGED <<shelf, log>>
    BY DEF Admit, BackfillRead, disk
  <2>2. Ingest(p) \/ AnswerAgain(p) \/ RefuseFrozen(p) => UNCHANGED <<shelf, log>>
    BY DEF Ingest, AnswerAgain, RefuseFrozen, disk
  <2>3. Stage(p) \/ PublishFails(p) \/ RecordSupersedes(p) => UNCHANGED <<shelf, log>>
    BY DEF Stage, PublishFails, RecordSupersedes, disk
  <2> QED
    BY <1>2, <2>1, <2>2, <2>3 DEF Step
<1>3. ASSUME (\E p \in Procs : Stop(p)) \/ Tick \/ UNCHANGED vars
      PROVE  UNCHANGED <<shelf, log>>
  BY <1>3 DEF Stop, Tick, vars, disk
<1> QED
  BY <1>1, <1>2, <1>3 DEF Next

(* A file of a record is renamed into place only where there is none. *)
LEMMA RecordKept ==
    ASSUME StoreAssumption, Exclusive, StoreInv, ApartInv, [Next]_vars,
           NEW i \in Ids, NEW x \in Record, Has(i, x)
    PROVE  shelf'[i][x] = shelf[i][x]
<1>1. ASSUME NEW p \in Procs, Publish(p) PROVE shelf'[i][x] = shelf[i][x]
  <2>1. PICK c, j, y : c = cmd[p] /\ j = Target(c) /\ y = c.pc
    OBVIOUS
  <2>2. /\ shelf'[i][x] = IF i = j /\ x = y THEN Contents(c) ELSE shelf[i][x]
        /\ y \in Record => shelf[j][y] = NoFile
    BY <1>1, <2>1, PublishFacts DEF Record, Exts
  <2> QED
    BY <2>2 DEF Has
<1>2. ASSUME NEW p \in Procs, LogDeed(p) \/ BackfillLog(p)
      PROVE  shelf'[i][x] = shelf[i][x]
  BY <1>2 DEF LogDeed, BackfillLog
<1> QED
  BY <1>1, <1>2, StepsByEffect

(* README: "A deed is never edited."  Nor is it replaced by a create that began
   before it was written, while its accession has one process. *)
THEOREM DeedsStay == ASSUME Exclusive PROVE Spec => DeedNeverEdited
<1>1. StoreInv /\ ApartInv /\ [Next]_vars =>
          [\A i \in Ids : Has(i, "cap") => shelf'[i]["cap"] = shelf[i]["cap"]]_vars
  BY StoreAssumption, RecordKept DEF Record
<1> QED
  BY <1>1, ApartInvariant, PTL DEF Spec, DeedNeverEdited

(* Evidence, host attestation and both supersede links are written once, in
   create's order and after each other, whatever stops and is run again. *)
THEOREM RecordsStay == ASSUME Exclusive PROVE Spec => RecordNeverEdited
<1>1. StoreInv /\ ApartInv /\ [Next]_vars =>
          [\A i \in Ids, x \in {"evidence", "host", "supersedes", "successor"} :
              Has(i, x) => shelf'[i][x] = shelf[i][x]]_vars
  BY StoreAssumption, RecordKept DEF Record
<1> QED
  BY <1>1, ApartInvariant, PTL DEF Spec, RecordNeverEdited

-----------------------------------------------------------------------------
(* The store implements DeedRegistry. *)

(* What readers see of a shelf s: Registry's first three variables. *)
FrozenOn(s) == [i \in Ids |-> IF s[i]["cap"].frame = "deed" THEN s[i]["cap"].deed ELSE NoDeed]
IssuedOn(s) == [i \in Ids |-> IF s[i]["evidence"].frame = "created"
                              THEN s[i]["evidence"].time ELSE 0]
SuccessorOn(s) == [i \in Ids |-> IF s[i]["successor"].frame = "link"
                                 THEN s[i]["successor"].id ELSE NoId]
BuriedOn(s) == {i \in Ids : s[i]["tomb"] # NoFile}

(* A deed file is on the shelf just when its accession is frozen. *)
LEMMA KnownOn ==
    ASSUME StoreAssumption, StoreInv, ApartInv, NEW i \in Ids
    PROVE  /\ shelf[i]["cap"] # NoFile <=> FrozenOn(shelf)[i] # NoDeed
           /\ shelf[i]["cap"] # NoFile => /\ FrozenOn(shelf)[i] = shelf[i]["cap"].deed
                                          /\ shelf[i]["cap"].deed \in Deed
<1>1. FrozenOn(shelf)[i] = IF shelf[i]["cap"].frame = "deed" THEN shelf[i]["cap"].deed
                           ELSE NoDeed
  BY DEF FrozenOn
<1>2. shelf[i]["cap"] \in Files \cup {NoFile}
  BY DEF StoreInv, TypeOK, Exts
<1>3. shelf[i]["cap"] # NoFile => shelf[i]["cap"].frame = "deed"
  BY DEF ApartInv, FilesApart, ShelfApart, Has, FrameOf, Exts
<1>4. shelf[i]["cap"].frame = "deed" => shelf[i]["cap"].deed \in Deed
  BY <1>2, FrameFields
<1>5. NoDeed \notin Deed /\ NoFile.frame # "deed"
  BY DEF NoDeed, Deed, StoreAssumption, NoFile
<1> QED
  BY <1>1, <1>3, <1>4, <1>5

LEMMA PublishImplements ==
    ASSUME StoreAssumption, Exclusive, StoreInv, ApartInv, NEW p \in Procs, Publish(p)
    PROVE  [Registry!Next]_Registry!vars
<1>1. PICK c, i, x : c = cmd[p] /\ i = Target(c) /\ x = c.pc
  OBVIOUS
<1>2. /\ i \in Ids /\ x \in Exts
      /\ \A j \in Ids, y \in Exts :
            shelf'[j][y] = IF j = i /\ y = x THEN Contents(c) ELSE shelf[j][y]
      /\ x \in Record => shelf[i][x] = NoFile
      /\ x # "cap" => shelf[i]["cap"] # NoFile
      /\ log' = log
  BY <1>1, PublishFacts
<1>3. CommandOK(c, bytes, shelf) /\ Knows(c, shelf)
  BY <1>1, CommandFacts
<1>4. {"cap", "evidence", "successor", "tomb"} \subseteq Exts
  BY DEF Exts
<1>5. /\ x # "cap" => FrozenOn(shelf') = FrozenOn(shelf)
      /\ x # "evidence" => IssuedOn(shelf') = IssuedOn(shelf)
      /\ x # "successor" => SuccessorOn(shelf') = SuccessorOn(shelf)
      /\ x # "tomb" => BuriedOn(shelf') = BuriedOn(shelf)
  BY <1>2, <1>4 DEF FrozenOn, IssuedOn, SuccessorOn, BuriedOn
<1>6. CASE x = "cap"
  <2>1. c.draft \in Deed /\ c.draft.id = i /\ Contents(c) = DeedFrame(c.draft)
    BY <1>1, <1>3, <1>6 DEF CommandOK, DraftOK, CreatePlaces, Target, Contents
  <2>2. FrozenOn(shelf') = [FrozenOn(shelf) EXCEPT ![i] = c.draft]
    <3>1. /\ DeedFrame(c.draft).frame = "deed" /\ DeedFrame(c.draft).deed = c.draft
          /\ shelf'[i]["cap"] = DeedFrame(c.draft)
          /\ \A j \in Ids \ {i} : shelf'[j]["cap"] = shelf[j]["cap"]
      BY <1>2, <1>4, <1>6, <2>1 DEF DeedFrame
    <3> QED
      BY <1>2, <3>1 DEF FrozenOn
  <2>3. FrozenOn(shelf)[i] = NoDeed /\ i \notin BuriedOn(shelf)
    <3>1. shelf[i]["cap"] = NoFile
      BY <1>2, <1>6 DEF Record
    <3>2. shelf[i]["tomb"] = NoFile
      BY <1>2, <1>4, <3>1 DEF ApartInv, FilesApart, ShelfApart, Has
    <3> QED
      BY <1>2, <3>1, <3>2, KnownOn DEF BuriedOn
  <2>4. Registry!Freeze(i, c.draft)
    BY <1>2, <1>5, <1>6, <2>1, <2>2, <2>3
       DEF Registry!Freeze, Registry!Known, FrozenOn, IssuedOn, SuccessorOn, BuriedOn, Has
  <2> QED
    BY <1>2, <2>1, <2>4 DEF Registry!Next
<1>7. CASE x = "evidence"
  <2>1. /\ i = c.acc /\ c.stamp \in Time
        /\ Contents(c) = CreatedFrame(c.draft, c.stamp)
    BY <1>1, <1>3, <1>7 DEF CommandOK, DraftOK, FrozenPlaces, Target, Contents
  <2>2. IssuedOn(shelf') = [IssuedOn(shelf) EXCEPT ![i] = c.stamp]
    <3>1. /\ Contents(c).frame = "created" /\ Contents(c).time = c.stamp
          /\ shelf'[i]["evidence"] = Contents(c)
          /\ \A j \in Ids \ {i} : shelf'[j]["evidence"] = shelf[j]["evidence"]
      BY <1>2, <1>4, <1>7, <2>1 DEF CreatedFrame
    <3> QED
      BY <1>2, <3>1 DEF IssuedOn
  <2>3. IssuedOn(shelf)[i] = 0 /\ FrozenOn(shelf)[i] # NoDeed
    <3>1. shelf[i]["evidence"] = NoFile /\ shelf[i]["cap"] # NoFile
      BY <1>2, <1>7 DEF Record
    <3> QED
      BY <1>2, <3>1, KnownOn DEF IssuedOn, NoFile
  <2>4. Registry!Issue(i, c.stamp)
    BY <1>2, <1>5, <1>7, <2>1, <2>2, <2>3
       DEF Registry!Issue, Registry!Known, FrozenOn, IssuedOn, SuccessorOn, BuriedOn, Has
  <2> QED
    BY <1>2, <2>1, <2>4 DEF Registry!Next
<1>8. CASE x = "successor"
  <2>1. /\ i = c.prior /\ c.acc \in Ids /\ i # c.acc
        /\ Contents(c) = LinkFrame(c.acc)
        /\ shelf[c.acc]["cap"] # NoFile
    BY <1>1, <1>3, <1>8 DEF CommandOK, DraftOK, WrittenOK, CreatePlaces, FrozenPlaces,
                            Target, Contents, Deed
  <2>2. SuccessorOn(shelf') = [SuccessorOn(shelf) EXCEPT ![i] = c.acc]
    <3>1. /\ Contents(c).frame = "link" /\ Contents(c).id = c.acc
          /\ shelf'[i]["successor"] = Contents(c)
          /\ \A j \in Ids \ {i} : shelf'[j]["successor"] = shelf[j]["successor"]
      BY <1>2, <1>4, <1>8, <2>1 DEF LinkFrame
    <3> QED
      BY <1>2, <3>1 DEF SuccessorOn
  <2>3. /\ SuccessorOn(shelf)[i] = NoId
        /\ FrozenOn(shelf)[i] # NoDeed /\ FrozenOn(shelf)[c.acc] # NoDeed
    <3>1. shelf[i]["successor"] = NoFile /\ shelf[i]["cap"] # NoFile
      BY <1>2, <1>8 DEF Record
    <3> QED
      BY <1>2, <2>1, <3>1, KnownOn DEF SuccessorOn, NoFile
  <2>4. Registry!Succeed(i, c.acc)
    BY <1>2, <1>5, <1>8, <2>1, <2>2, <2>3
       DEF Registry!Succeed, Registry!Known, FrozenOn, IssuedOn, SuccessorOn, BuriedOn, Has
  <2> QED
    BY <1>2, <2>1, <2>4 DEF Registry!Next
<1>9. CASE x = "tomb"
  <2>1. BuriedOn(shelf') = BuriedOn(shelf) \cup {i}
    <3>1. /\ shelf'[i]["tomb"] # NoFile
          /\ \A j \in Ids \ {i} : shelf'[j]["tomb"] = shelf[j]["tomb"]
      BY <1>2, <1>4, <1>9, <1>1 DEF Contents, TombFrame, NoFile
    <3> QED
      BY <1>2, <3>1 DEF BuriedOn
  <2>2. FrozenOn(shelf)[i] # NoDeed
    BY <1>2, <1>9, KnownOn
  <2>3. Registry!Bury(i)
    BY <1>2, <1>5, <1>9, <2>1, <2>2
       DEF Registry!Bury, Registry!Known, FrozenOn, IssuedOn, SuccessorOn, BuriedOn, Has
  <2> QED
    BY <1>2, <2>3 DEF Registry!Next
<1>10. CASE x \notin {"cap", "evidence", "successor", "tomb"}
  BY <1>2, <1>5, <1>10 DEF Registry!vars, FrozenOn, IssuedOn, SuccessorOn, BuriedOn, Has
<1> QED
  BY <1>6, <1>7, <1>8, <1>9, <1>10

(* A line about a deed as it is on the shelf. *)
LEMMA EnterImplements ==
    ASSUME StoreAssumption, StoreInv, ApartInv, NEW d \in Deed, NEW t \in Time,
           AppendLog(d, t), shelf[d.id]["cap"] = DeedFrame(d), UNCHANGED shelf
    PROVE  Registry!Next
<1>1. PICK i : i = d.id
  OBVIOUS
<1>2. i \in Ids /\ FrozenOn(shelf)[i] # NoDeed /\ FrozenOn(shelf)[i] = d
  <2>1. i \in Ids
    BY <1>1 DEF Deed
  <2>2. shelf[i]["cap"] # NoFile /\ shelf[i]["cap"].deed = d
    BY <1>1 DEF DeedFrame, NoFile
  <2> QED
    BY <2>1, <2>2, KnownOn
<1>3. log' = Append(log, [id |-> i, digest |-> [sha256 |-> FrozenOn(shelf)[i]], time |-> t])
  BY <1>1, <1>2 DEF AppendLog, Entry, Digest
<1>4. Registry!Enter(i, t)
  BY <1>2, <1>3 DEF Registry!Enter, Registry!Known, FrozenOn, Has
<1> QED
  BY <1>2, <1>4 DEF Registry!Next

LEMMA StepImplements ==
    ASSUME StoreAssumption, Exclusive, StoreInv, ApartInv, [Next]_vars
    PROVE  [Registry!Next]_Registry!vars
<1>1. CASE UNCHANGED <<shelf, log>>
  BY <1>1 DEF Registry!vars, Has
<1>2. ASSUME NEW p \in Procs, Publish(p) PROVE [Registry!Next]_Registry!vars
  BY <1>2, PublishImplements
<1>3. ASSUME NEW p \in Procs, LogDeed(p) PROVE Registry!Next
  <2>1. cmd[p].pc = "append" /\ CommandOK(cmd[p], bytes, shelf) /\ Knows(cmd[p], shelf)
    BY <1>3, CommandFacts DEF LogDeed, At
  <2>2. PICK d, t : d = cmd[p].draft /\ t = cmd[p].stamp
    OBVIOUS
  <2>3. d \in Deed /\ t \in Time /\ shelf[d.id]["cap"] = DeedFrame(d)
    BY <2>1, <2>2 DEF CommandOK, DraftOK, Knows, CreateKnows, CreatePlaces, FrozenPlaces
  <2> QED
    BY <1>3, <2>2, <2>3, EnterImplements DEF LogDeed
<1>4. ASSUME NEW p \in Procs, BackfillLog(p) PROVE Registry!Next
  <2>1. cmd[p].pc = "refill" /\ CommandOK(cmd[p], bytes, shelf) /\ Knows(cmd[p], shelf)
    BY <1>4, CommandFacts DEF BackfillLog, At
  <2>2. PICK d, t : d = cmd[p].draft /\ t = cmd[p].stamp
    OBVIOUS
  <2>3. d \in Deed /\ t \in Time /\ shelf[d.id]["cap"] = DeedFrame(d)
    BY <2>1, <2>2 DEF CommandOK, DraftOK, WrittenOK, Knows, OtherKnows
  <2> QED
    BY <1>4, <2>2, <2>3, EnterImplements DEF BackfillLog
<1> QED
  BY <1>1, <1>2, <1>3, <1>4, StepsByEffect

(* Whatever file operations interleave or are cut short, readers of the store
   see what DeedRegistry promises, step by step. *)
THEOREM StoreImplementsRegistry == ASSUME Exclusive PROVE Spec => ImplementsRegistry
<1>1. Init => Registry!Init
  <2> SUFFICES ASSUME Init PROVE Registry!Init
    OBVIOUS
  <2>1. \A i \in Ids, x \in Exts : shelf[i][x] = NoFile
    BY DEF Init
  <2>2. log = <<>> /\ {"cap", "evidence", "successor", "tomb"} \subseteq Exts
    BY DEF Init, Exts
  <2> QED
    BY <2>1, <2>2 DEF Registry!Init, Has, NoFile
<1>2. StoreInv /\ ApartInv /\ [Next]_vars => [Registry!Next]_Registry!vars
  BY StoreAssumption, StepImplements
<1> QED
  BY <1>1, <1>2, ApartInvariant, PTL DEF Spec, ImplementsRegistry, Registry!Spec

-----------------------------------------------------------------------------
(* What holds while one process at a time runs commands: the log names a deed
   once, and a backfill that ends well leaves none out. *)

Alone == \A p, q \in Procs : p = q

(* What a command knows of the log: its own deed is not there yet, and what a
   backfill has left to do is what an audit would tell it now.  A backfill under
   way has answered nothing. *)
LogKnows(c) ==
    /\ c.pc \in {"cap"} \cup FrozenPlaces => ~Logged(c.acc)
    /\ c.pc \in {"backfill", "refill"} => c.todo = Unlogged /\ c.outcome = "none"
    /\ c.pc = "refill" => c.acc \in c.todo

(* The inductive invariant, beside StoreInv and ApartInv. *)
AloneInv == LoggedOnce /\ \A p \in Procs : LogKnows(cmd[p])

-----------------------------------------------------------------------------
(* Steps that change neither the shelf nor the log. *)

LEMMA QuietAlone ==
    ASSUME Alone, AloneInv, NEW p \in Procs, NEW c, c = cmd'[p], LogKnows(c),
           UNCHANGED <<shelf, log>>
    PROVE  AloneInv'
<1>1. LoggedOnce'
  BY DEF AloneInv, LoggedOnce
<1>2. Unlogged' = Unlogged /\ \A i : Logged(i)' <=> Logged(i)
  BY DEF Unlogged, Logged, Served, Has
<1>3. ASSUME NEW q \in Procs PROVE LogKnows(cmd[q])'
  <2>1. q = p
    BY DEF Alone
  <2> QED
    BY <1>2, <2>1 DEF LogKnows
<1> QED
  BY <1>1, <1>3 DEF AloneInv

(* A step that begins or ends a command, or has it read the store. *)
LEMMA QuietStepsAlone ==
    ASSUME StoreAssumption, Alone, StoreInv, ApartInv, AloneInv, NEW p \in Procs,
           Start(p) \/ Step(p) \/ Stop(p), ~Publish(p), UNCHANGED <<shelf, log>>
    PROVE  AloneInv'
<1> USE DEF FrozenPlaces
<1>1. cmd[p] \in Commands /\ cmd \in [Procs -> Commands] /\ LogKnows(cmd[p])
  BY DEF StoreInv, TypeOK, AloneInv
<1>2. \A o, d : Answer(p, o, d) => LogKnows(cmd'[p])
  BY <1>1 DEF Answer, Begin, Idle, LogKnows
<1>3. ASSUME Start(p) PROVE LogKnows(cmd'[p])
  <2>1. ASSUME NEW r \in Requests, CreateBegin(p, r) PROVE LogKnows(cmd'[p])
    BY <1>1, <2>1 DEF CreateBegin, Begin, Idle, LogKnows
  <2>2. ASSUME NEW i \in Ids, Delete(p, i) PROVE LogKnows(cmd'[p])
    BY <1>1, <2>2 DEF Delete, Begin, Idle, LogKnows
  <2>3. ASSUME NEW i \in Ids, NEW ext \in StampExts, Timestamp(p, i, ext)
        PROVE  LogKnows(cmd'[p])
    <3>1. cmd'[p].pc = ext
      BY <1>1, <2>3 DEF Timestamp, Begin, Idle
    <3> QED
      BY <3>1 DEF LogKnows, StampExts
  <2>4. ASSUME Backfill(p) PROVE LogKnows(cmd'[p])
    <3>1. /\ cmd'[p].pc = "backfill" /\ cmd'[p].todo = Unlogged
          /\ cmd'[p].outcome = "none"
      BY <1>1, <2>4 DEF Backfill, Begin, Idle
    <3> QED
      BY <3>1 DEF LogKnows
  <2> QED
    BY <1>3, <2>1, <2>2, <2>3, <2>4 DEF Start
<1>4. ASSUME Step(p) PROVE LogKnows(cmd'[p])
  <2>1. ASSUME Ingest(p) PROVE LogKnows(cmd'[p])
    BY <1>1, <2>1 DEF Ingest, Goto, Commands, LogKnows
  <2>2. ASSUME AnswerAgain(p) \/ RefuseFrozen(p) \/ PublishFails(p)
        PROVE  LogKnows(cmd'[p])
    BY <1>2, <2>2 DEF AnswerAgain, RefuseFrozen, PublishFails
  <2>3. ASSUME Admit(p) PROVE LogKnows(cmd'[p])
    <3>1. cmd'[p].pc = "cap" /\ cmd'[p].acc = cmd[p].acc /\ ~Has(cmd[p].acc, "cap")
      BY <1>1, <2>3 DEF Admit, Commands
    <3>2. ~Logged(cmd[p].acc)
      BY <3>1 DEF StoreInv, LogNamesWritten, Logged
    <3> QED
      BY <3>1, <3>2 DEF LogKnows
  <2>4. ASSUME Stage(p) PROVE LogKnows(cmd'[p])
    <3>1. /\ cmd'[p].pc = cmd[p].pc /\ cmd'[p].acc = cmd[p].acc
          /\ cmd'[p].todo = cmd[p].todo /\ cmd'[p].outcome = cmd[p].outcome
      BY <1>1, <2>4 DEF Stage, Commands
    <3> QED
      BY <1>1, <3>1 DEF LogKnows
  <2>5. ASSUME RecordSupersedes(p) PROVE LogKnows(cmd'[p])
    <3>1. Goto(p, "supersedes") => cmd'[p].pc = "supersedes" /\ cmd'[p].acc = cmd[p].acc
      BY <1>1 DEF Goto, Commands
    <3> QED
      BY <1>1, <1>2, <2>5, <3>1 DEF RecordSupersedes, At, LogKnows
  <2>6. ASSUME BackfillRead(p) PROVE LogKnows(cmd'[p])
    <3>1. PICK i \in cmd[p].todo :
             IF Served(i)
             THEN cmd' = [cmd EXCEPT
                      ![p].pc = "refill", ![p].acc = i, ![p].draft = DeedAt(i),
                      ![p].stamp = IF EvidencePasses(i)
                                   THEN shelf[i]["evidence"].time ELSE clock]
             ELSE Answer(p, "notfound", NoDeed)
      BY <2>6 DEF BackfillRead
    <3>2. CASE Served(i)
      <4>1. /\ cmd'[p].pc = "refill" /\ cmd'[p].acc = i
            /\ cmd'[p].todo = cmd[p].todo /\ cmd'[p].outcome = cmd[p].outcome
        BY <1>1, <3>1, <3>2 DEF Commands
      <4> QED
        BY <1>1, <2>6, <4>1 DEF LogKnows, BackfillRead, At
    <3> QED
      BY <1>2, <3>1, <3>2
  <2>7. ~LogDeed(p) /\ ~BackfillLog(p)
    BY DEF LogDeed, BackfillLog, AppendLog, StoreInv, TypeOK
  <2> QED
    BY <1>4, <2>1, <2>2, <2>3, <2>4, <2>5, <2>6, <2>7 DEF Step
<1>5. ASSUME Stop(p) PROVE LogKnows(cmd'[p])
  BY <1>2, <1>5 DEF Stop
<1> QED
  BY <1>3, <1>4, <1>5, QuietAlone

(* A rename does not log, and a command that backfills renames nothing. *)
LEMMA PublishAlone ==
    ASSUME StoreAssumption, Alone, StoreInv, AloneInv, NEW p \in Procs, Publish(p)
    PROVE  AloneInv'
<1>1. /\ cmd[p] \in Commands /\ cmd \in [Procs -> Commands] /\ LogKnows(cmd[p])
      /\ cmd[p].pc \in Exts /\ log' = log
  BY DEF StoreInv, TypeOK, AloneInv, Publish
<1>2. \/ cmd'[p].pc = "idle"
      \/ /\ cmd'[p].pc \in FrozenPlaces /\ cmd'[p].acc = cmd[p].acc
         /\ cmd[p].pc \in {"cap"} \cup FrozenPlaces
  <2>1. CASE NextPlace(cmd[p]) = "idle"
    BY <1>1, <2>1 DEF Publish, Answer, Begin, Idle
  <2>2. CASE NextPlace(cmd[p]) # "idle"
    <3>1. PICK x : x = NextPlace(cmd[p])
      OBVIOUS
    <3>2. cmd'[p].pc = x /\ cmd'[p].acc = cmd[p].acc
      BY <1>1, <2>2, <3>1 DEF Publish, Goto, Commands
    <3>3. x \in FrozenPlaces /\ cmd[p].pc \in {"cap"} \cup FrozenPlaces
      BY <1>1, <2>2, <3>1 DEF NextPlace, AfterEvidence, AfterHost, FrozenPlaces
    <3> QED
      BY <3>2, <3>3
  <2> QED
    BY <2>1, <2>2
<1>3. ASSUME NEW q \in Procs PROVE LogKnows(cmd[q])'
  <2>1. q = p
    BY DEF Alone
  <2>2. \A i : Logged(i)' <=> Logged(i)
    BY <1>1 DEF Logged
  <2> QED
    BY <1>1, <1>2, <2>1, <2>2 DEF LogKnows, FrozenPlaces
<1> QED
  BY <1>1, <1>3 DEF AloneInv, LoggedOnce

-----------------------------------------------------------------------------
(* Steps that log. *)

(* A line more: its deed is logged now, and nothing else has changed. *)
LEMMA LoggedGrows ==
    ASSUME log \in Seq(Entries), NEW d \in Deed, NEW t \in Time, AppendLog(d, t),
           UNCHANGED shelf
    PROVE  /\ \A i : Logged(i)' <=> (Logged(i) \/ i = d.id)
           /\ Unlogged' = Unlogged \ {d.id}
           /\ LoggedOnce /\ ~Logged(d.id) => LoggedOnce'
<1>1. PICK e : e = Entry(d, t)
  OBVIOUS
<1>2. /\ e \in Entries /\ e.id = d.id /\ log' = Append(log, e)
      /\ Len(log) \in Nat /\ Len(log') = Len(log) + 1
      /\ log'[Len(log) + 1] = e
      /\ \A k \in 1..Len(log) : log'[k] = log[k]
  BY <1>1 DEF AppendLog, Entry, Entries, Digest, Deed
<1>3. ASSUME NEW i PROVE Logged(i)' <=> (Logged(i) \/ i = d.id)
  <2>1. (\E k \in 1..Len(log') : log'[k].id = i) <=>
            (\E k \in 1..Len(log) : log[k].id = i) \/ i = d.id
    <3>1. \A k \in 1..Len(log') : k \in 1..Len(log) \/ k = Len(log) + 1
      BY <1>2
    <3>2. \A k \in 1..Len(log) : k \in 1..Len(log')
      BY <1>2
    <3>3. Len(log) + 1 \in 1..Len(log')
      BY <1>2
    <3> QED
      BY <1>2, <3>1, <3>2, <3>3
  <2> QED
    BY <2>1 DEF Logged
<1>4. Unlogged' = Unlogged \ {d.id}
  BY <1>3 DEF Unlogged, Served, Has
<1>5. LoggedOnce /\ ~Logged(d.id) => LoggedOnce'
  BY <1>2 DEF LoggedOnce, Logged
<1> QED
  BY <1>3, <1>4, <1>5

LEMMA LogDeedAlone ==
    ASSUME StoreAssumption, Alone, StoreInv, AloneInv, NEW p \in Procs, LogDeed(p)
    PROVE  AloneInv'
<1>1. /\ cmd \in [Procs -> Commands] /\ cmd[p].pc = "append" /\ LogKnows(cmd[p])
      /\ CommandOK(cmd[p], bytes, shelf) /\ log \in Seq(Entries)
  BY DEF StoreInv, TypeOK, CommandsOK, AloneInv, LogDeed, At
<1>2. PICK d, t : d = cmd[p].draft /\ t = cmd[p].stamp
  OBVIOUS
<1>3. d \in Deed /\ t \in Time /\ d.id = cmd[p].acc
  BY <1>1, <1>2 DEF CommandOK, DraftOK, CreatePlaces, FrozenPlaces
<1>4. AppendLog(d, t) /\ UNCHANGED shelf /\ cmd'[p].pc = "idle"
  BY <1>1, <1>2 DEF LogDeed, Answer, Begin, Idle
<1>5. ~Logged(d.id)
  BY <1>1, <1>3 DEF LogKnows, FrozenPlaces
<1>6. LoggedOnce'
  BY <1>1, <1>3, <1>4, <1>5, LoggedGrows DEF AloneInv
<1>7. \A q \in Procs : LogKnows(cmd[q])'
  BY <1>4 DEF Alone, LogKnows, FrozenPlaces
<1> QED
  BY <1>6, <1>7 DEF AloneInv

(* What is left to do shrinks with the line, and answering ok means it is gone. *)
LEMMA BackfillLogAlone ==
    ASSUME StoreAssumption, Alone, StoreInv, AloneInv, NEW p \in Procs, BackfillLog(p)
    PROVE  AloneInv' /\ (cmd'[p].outcome = "ok" => Unlogged' = {})
<1>1. /\ cmd \in [Procs -> Commands] /\ cmd[p].pc = "refill" /\ LogKnows(cmd[p])
      /\ CommandOK(cmd[p], bytes, shelf) /\ log \in Seq(Entries)
  BY DEF StoreInv, TypeOK, CommandsOK, AloneInv, BackfillLog, At
<1>2. PICK d, t, S : d = cmd[p].draft /\ t = cmd[p].stamp /\ S = cmd[p].todo \ {cmd[p].acc}
  OBVIOUS
<1>3. d \in Deed /\ t \in Time /\ d.id = cmd[p].acc
  BY <1>1, <1>2 DEF CommandOK, DraftOK, WrittenOK
<1>4. AppendLog(d, t) /\ UNCHANGED shelf
  BY <1>2 DEF BackfillLog
<1>5. ~Logged(d.id) /\ S = Unlogged \ {d.id}
  BY <1>1, <1>2, <1>3 DEF LogKnows, Unlogged
<1>6. LoggedOnce' /\ Unlogged' = S
  BY <1>1, <1>3, <1>4, <1>5, LoggedGrows DEF AloneInv
<1>7. \/ S = {} /\ cmd'[p].pc = "idle"
      \/ S # {} /\ cmd'[p].pc = "backfill" /\ cmd'[p].todo = S /\ cmd'[p].outcome = "none"
  <2>1. CASE S = {}
    BY <1>1, <1>2, <2>1 DEF BackfillLog, Answer, Begin, Idle
  <2>2. CASE S # {}
    <3>1. PICK c : c = [Idle("none", NoDeed) EXCEPT !.pc = "backfill", !.todo = S]
      OBVIOUS
    <3>2. cmd'[p] = c
      BY <1>1, <1>2, <2>2, <3>1 DEF BackfillLog, Begin
    <3> QED
      BY <2>2, <3>1, <3>2 DEF Idle
  <2> QED
    BY <2>1, <2>2
<1>8. \A q \in Procs : LogKnows(cmd[q])'
  BY <1>6, <1>7 DEF Alone, LogKnows, FrozenPlaces
<1> QED
  BY <1>6, <1>7, <1>8 DEF AloneInv

-----------------------------------------------------------------------------
LEMMA NextAlone ==
    ASSUME StoreAssumption, Alone, StoreInv, ApartInv, AloneInv, [Next]_vars
    PROVE  AloneInv'
<1>1. ASSUME NEW p \in Procs, Publish(p) \/ LogDeed(p) \/ BackfillLog(p)
      PROVE  AloneInv'
  BY <1>1, PublishAlone, LogDeedAlone, BackfillLogAlone
<1>2. ASSUME NEW p \in Procs, Start(p) \/ Step(p) \/ Stop(p), ~Publish(p),
             UNCHANGED <<shelf, log>>
      PROVE  AloneInv'
  BY <1>2, QuietStepsAlone
<1>3. ASSUME Tick \/ UNCHANGED vars PROVE AloneInv'
  BY <1>3 DEF Tick, vars, disk, AloneInv, LoggedOnce, LogKnows, Unlogged, Logged, Served, Has
<1> QED
  BY <1>1, <1>2, <1>3, StepsByEffect DEF Next

(* While one process at a time runs commands, a command that is about to log
   knows that its deed is not logged, and a backfill what is left to log. *)
THEOREM AloneInvariant == ASSUME Alone PROVE Spec => [](StoreInv /\ AloneInv)
<1>1. Exclusive
  BY DEF Exclusive, Alone
<1>2. Spec => [](StoreInv /\ ApartInv)
  BY <1>1, ApartInvariant
<1>3. Init => AloneInv
  BY DEF Init, AloneInv, LoggedOnce, LogKnows, Idle, FrozenPlaces
<1>4. StoreInv /\ ApartInv /\ AloneInv /\ [Next]_vars => AloneInv'
  BY StoreAssumption, NextAlone
<1> QED
  BY <1>2, <1>3, <1>4, PTL DEF Spec

(* append_log is create's last step and log_backfill reads what was logged
   before: no accession has two lines, whatever is stopped and backfilled. *)
THEOREM NoLineTwice == ASSUME Alone PROVE Spec => []LoggedOnce
<1>1. AloneInv => LoggedOnce
  BY DEF AloneInv
<1> QED
  BY <1>1, AloneInvariant, PTL

(* A backfill that answers ok has logged every deed the store serves. *)
THEOREM BackfillsSettle == ASSUME Alone PROVE Spec => BackfillSettles
<1>1. ASSUME StoreInv, AloneInv, Next, NEW p \in Procs, At(p, "refill"),
             cmd'[p].outcome = "ok"
      PROVE  Unlogged' = {}
  <2>1. cmd[p] \in Commands /\ cmd \in [Procs -> Commands] /\ LogKnows(cmd[p])
    BY <1>1 DEF StoreInv, TypeOK, AloneInv
  <2>2. cmd[p].pc = "refill" /\ cmd[p].outcome = "none" /\ cmd'[p] # cmd[p]
    BY <1>1, <2>1 DEF At, LogKnows
  <2>3. Start(p) \/ Step(p) \/ Stop(p)
    BY <1>1, <2>2 DEF Next, Tick, Alone
  <2>4. ~Start(p)
    BY <2>2 DEF Start, CreateBegin, Delete, Timestamp, Backfill, At
  <2>5. ~Stop(p)
    BY <1>1, <2>1 DEF Stop, Answer, Begin, Idle
  <2>6. BackfillLog(p)
    BY <2>2, <2>3, <2>4, <2>5 DEF Step, Ingest, AnswerAgain, RefuseFrozen, Admit, Stage,
          Publish, PublishFails, RecordSupersedes, LogDeed, BackfillRead, At, Exts, StampExts
  <2> QED
    BY <1>1, <2>6, StoreAssumption, BackfillLogAlone
<1>2. StoreInv /\ AloneInv /\ [Next]_vars =>
          [\A p \in Procs :
              At(p, "refill") /\ cmd'[p].outcome = "ok" => Unlogged' = {}]_vars
  BY <1>1
<1> QED
  BY <1>2, AloneInvariant, PTL DEF Spec, BackfillSettles

=============================================================================
