--------------------------- MODULE DeedStoreProofs ---------------------------
(***************************************************************************)
(* What holds of DeedStore for any processes, accessions, bodies, requests *)
(* and keys, however commands interleave and wherever they stop.           *)
(***************************************************************************)
EXTENDS DeedStore, TLAPS

(* Where a create is once its draft is made. *)
CreatePlaces == {"ingest", "freeze", "cap", "evidence", "host", "link",
                 "supersedes", "successor", "append"}

(* Where it is once it has written the deed file. *)
FrozenPlaces == {"evidence", "host", "link", "supersedes", "successor", "append"}

(* The product a deed names is among the bodies b, or was named by address. *)
Shelved(d, b) == d.body \in Addressed \cup b

(* What a command knows at its place, when b are the bodies and s the files on
   the shelf: the deed it works on, and that what it goes on to log or link to
   is there. *)
DraftOK(c, b) ==
    /\ c.pc \in CreatePlaces => /\ c.draft \in Deed
                                /\ c.acc = c.draft.id
                                /\ c.prior # c.acc
    /\ c.pc \in {"link", "supersedes", "successor"} => c.prior \in Ids
    /\ c.pc \in CreatePlaces \ {"ingest"} => Shelved(c.draft, b)
    /\ c.pc \in {"cap", "refill"} \cup FrozenPlaces => c.stamp \in Time

WrittenOK(c, s) ==
    /\ c.pc \in FrozenPlaces => s[c.acc]["cap"] # NoFile
    /\ c.pc = "refill" => /\ c.draft \in Deed
                          /\ c.draft.id = c.acc
                          /\ s[c.acc]["cap"] # NoFile

SidecarOK(c) ==
    /\ c.pc \in StampExts \cup {"tomb"} => c.acc \in Ids
    /\ c.pc \in StampExts => c.imprint \in Imprints

CommandOK(c, b, s) == DraftOK(c, b) /\ WrittenOK(c, s) /\ SidecarOK(c)

CommandsOK == \A p \in Procs : CommandOK(cmd[p], bytes, shelf)

(* A deed staged and not yet published names shelved bytes. *)
StagedOK == \A i \in Ids : tmp[i].frame = "deed" => Shelved(tmp[i].deed, bytes)

(* The inductive invariant. *)
StoreInv ==
    /\ TypeOK
    /\ CommandsOK
    /\ StagedOK
    /\ LogNamesWritten
    /\ BytesBeforeDeed
    /\ MixupStaysWithinAccession

-----------------------------------------------------------------------------
(* Frames and commands. *)

(* The fields a file has, by its frame. *)
LEMMA FrameFields ==
    ASSUME NEW f \in Files \cup {NoFile}
    PROVE  /\ f.frame \in {"deed", "created", "ed25519", "hmac"} => f.deed \in Deed
           /\ f.frame = "created" => f.time \in Time
           /\ f.frame = "link" => f.id \in Ids
           /\ Imprint(f) \in Imprints \cup {NoFile}
           /\ f # NoFile => Imprint(f) \in Imprints
  BY DEF Files, Frames, NoFile, TombFrame, Imprint, Imprints, StampExts

(* A process between commands is in a good state whatever is on the shelf. *)
LEMMA IdleOK ==
    ASSUME NEW o \in Outcomes, NEW d \in Deed \cup {NoDeed}, NEW b, NEW s
    PROVE  Idle(o, d) \in Commands /\ CommandOK(Idle(o, d), b, s)
  BY DEF Idle, Commands, Places, CommandOK, DraftOK, WrittenOK, SidecarOK,
         CreatePlaces, FrozenPlaces, StampExts, NoFile, Exts

(* What atomic_write writes is a frame, it is about the accession it is written
   under, and a deed frame names shelved bytes. *)
LEMMA ContentsOK ==
    ASSUME StoreAssumption, NEW c \in Commands, NEW b, NEW s,
           CommandOK(c, b, s), c.pc \in Exts
    PROVE  /\ Target(c) \in Ids
           /\ Contents(c) \in Files
           /\ About(Contents(c), Target(c))
           /\ Contents(c).frame = "deed" => Shelved(Contents(c).deed, b)
<1> USE DEF CommandOK, DraftOK, SidecarOK, CreatePlaces, FrozenPlaces, StampExts
<1>1. c.pc \in {"cap", "evidence", "host", "supersedes", "successor"} =>
          c.draft \in Deed /\ c.acc = c.draft.id /\ c.acc \in Ids /\ c.prior # c.acc
  BY DEF Deed
<1>2. CASE c.pc = "cap"
  BY <1>1, <1>2 DEF Target, Contents, DeedFrame, Files, Frames, About
<1>3. CASE c.pc = "evidence"
  BY <1>1, <1>3 DEF Target, Contents, CreatedFrame, Files, Frames, About
<1>4. CASE c.pc = "host"
  <2>1. HostFrame(c.draft, c.stamp).frame \in {"ed25519", "hmac"}
    BY DEF HostFrame, HostScheme
  <2> QED
    BY <1>1, <1>4, <2>1 DEF Target, Contents, HostFrame, HostScheme, Files, Frames, About
<1>5. CASE c.pc = "supersedes"
  BY <1>1, <1>5 DEF Target, Contents, LinkFrame, Files, Frames, About
<1>6. CASE c.pc = "successor"
  BY <1>1, <1>6 DEF Target, Contents, LinkFrame, Files, Frames, About
<1>7. CASE c.pc = "tomb"
  BY <1>7 DEF Target, Contents, TombFrame, Files, Frames, About
<1>8. CASE c.pc \in StampExts
  BY <1>8 DEF Target, Contents, StampFrame, Files, About
<1> QED
  BY <1>2, <1>3, <1>4, <1>5, <1>6, <1>7, <1>8 DEF Exts

-----------------------------------------------------------------------------
(* Steps that change one command. *)

(* The other commands stay in a good state while the shelf grows. *)
LEMMA OthersKeep ==
    ASSUME StoreAssumption, TypeOK, CommandsOK, NEW p \in Procs, NEW c \in Commands,
           cmd' = [cmd EXCEPT ![p] = c],
           CommandOK(c, bytes', shelf'),
           bytes \subseteq bytes',
           \A i \in Ids : shelf[i]["cap"] # NoFile => shelf'[i]["cap"] # NoFile
    PROVE  cmd' \in [Procs -> Commands] /\ CommandsOK'
<1>1. cmd' \in [Procs -> Commands]
  BY DEF TypeOK
<1>2. ASSUME NEW q \in Procs PROVE CommandOK(cmd'[q], bytes', shelf')
  <2>1. CASE q = p
    BY <2>1 DEF TypeOK
  <2>2. CASE q # p
    <3>1. cmd'[q] = cmd[q] /\ cmd[q] \in Commands
      BY <2>2 DEF TypeOK
    <3>2. DraftOK(cmd[q], bytes) /\ WrittenOK(cmd[q], shelf) /\ SidecarOK(cmd[q])
      BY DEF CommandsOK, CommandOK
    <3>3. DraftOK(cmd[q], bytes')
      BY <3>2 DEF DraftOK, Shelved
    <3>4. cmd[q].pc \in FrozenPlaces \cup {"refill"} => cmd[q].acc \in Ids
      BY <3>2 DEF DraftOK, WrittenOK, CreatePlaces, FrozenPlaces, Deed
    <3>5. WrittenOK(cmd[q], shelf')
      BY <3>2, <3>4 DEF WrittenOK
    <3> QED
      BY <3>1, <3>2, <3>3, <3>5 DEF CommandOK
  <2> QED
    BY <2>1, <2>2
<1> QED
  BY <1>1, <1>2 DEF CommandsOK

(* A step that writes nothing. *)
LEMMA QuietStep ==
    ASSUME StoreAssumption, StoreInv, NEW p \in Procs, NEW c \in Commands,
           cmd' = [cmd EXCEPT ![p] = c],
           CommandOK(c, bytes, shelf),
           UNCHANGED <<disk, clock>>
    PROVE  StoreInv'
<1>1. UNCHANGED <<shelf, tmp, bytes, log, clock>>
  BY DEF disk
<1>2. cmd' \in [Procs -> Commands] /\ CommandsOK'
  BY <1>1, OthersKeep DEF StoreInv
<1>3. TypeOK'
  BY <1>1, <1>2 DEF StoreInv, TypeOK
<1> QED
  BY <1>1, <1>2, <1>3 DEF StoreInv, StagedOK, LogNamesWritten, BytesBeforeDeed,
                          MixupStaysWithinAccession, Has

(* A command that ends writing nothing. *)
LEMMA QuietAnswer ==
    ASSUME StoreAssumption, StoreInv, NEW p \in Procs, NEW o \in Outcomes,
           NEW d \in Deed \cup {NoDeed},
           Answer(p, o, d), UNCHANGED <<disk, clock>>
    PROVE  StoreInv'
<1>1. Idle(o, d) \in Commands /\ CommandOK(Idle(o, d), bytes, shelf)
  BY IdleOK
<1>2. PICK c : c = Idle(o, d)
  OBVIOUS
<1> QED
  BY <1>1, <1>2, QuietStep DEF Answer, Begin

(* One line is added to the log, about a deed that is on the shelf. *)
LEMMA LogStep ==
    ASSUME StoreAssumption, StoreInv, NEW p \in Procs, NEW c \in Commands,
           cmd' = [cmd EXCEPT ![p] = c],
           CommandOK(c, bytes, shelf),
           NEW d \in Deed, NEW t \in Time, AppendLog(d, t), Has(d.id, "cap"),
           UNCHANGED <<shelf, tmp, bytes, clock>>
    PROVE  StoreInv'
<1>1. cmd' \in [Procs -> Commands] /\ CommandsOK'
  BY OthersKeep DEF StoreInv
<1>2. Entry(d, t) \in Entries /\ log \in Seq(Entries)
  BY DEF Entry, Entries, Digest, Deed, StoreInv, TypeOK
<1>3. log' = Append(log, Entry(d, t))
  BY DEF AppendLog
<1>4. log' \in Seq(Entries)
  BY <1>2, <1>3
<1>5. TypeOK'
  BY <1>1, <1>4 DEF StoreInv, TypeOK
<1>6. LogNamesWritten'
  <2>1. ASSUME NEW k \in 1..Len(log') PROVE shelf[log'[k].id]["cap"] # NoFile
    <3>1. CASE k = Len(log) + 1
      BY <1>2, <1>3, <3>1 DEF Entry, Has
    <3>2. CASE k \in 1..Len(log)
      BY <1>2, <1>3, <3>2 DEF StoreInv, LogNamesWritten, Has
    <3> QED
      BY <1>2, <1>3, <3>1, <3>2
  <2> QED
    BY <2>1 DEF LogNamesWritten, Has
<1> QED
  BY <1>1, <1>5, <1>6 DEF StoreInv, StagedOK, BytesBeforeDeed, MixupStaysWithinAccession

-----------------------------------------------------------------------------
(* One lemma per action. *)

LEMMA InitInv == ASSUME StoreAssumption, Init PROVE StoreInv
<1>1. \A p \in Procs : cmd[p] = Idle("none", NoDeed)
  BY DEF Init
<1>2. Idle("none", NoDeed) \in Commands /\ CommandOK(Idle("none", NoDeed), bytes, shelf)
  BY IdleOK DEF Outcomes
<1>3. TypeOK
  BY <1>2 DEF StoreAssumption, Init, TypeOK, Time
<1>4. CommandsOK
  BY <1>1, <1>2 DEF CommandsOK
<1>5. NoFile.frame = "absent" /\ "cap" \in Exts
  BY DEF NoFile, Exts
<1>6. \A i \in Ids : tmp[i] = NoFile /\ \A x \in Exts : shelf[i][x] = NoFile
  BY DEF Init
<1>7. StagedOK /\ BytesBeforeDeed /\ MixupStaysWithinAccession
  BY <1>5, <1>6 DEF StagedOK, BytesBeforeDeed, MixupStaysWithinAccession, About
<1> QED
  BY <1>3, <1>4, <1>7 DEF Init, StoreInv, LogNamesWritten

LEMMA CreateBeginInv ==
    ASSUME StoreAssumption, StoreInv, NEW p \in Procs, NEW r \in Requests,
           CreateBegin(p, r)
    PROVE  StoreInv'
<1>1. r.deed \in Deed /\ r.deed.id \in Ids /\ r.supersedes \in Ids \cup {NoId}
  BY DEF StoreAssumption, Request, Deed
<1>2. r.supersedes # r.deed.id
  BY <1>1 DEF StoreAssumption, CreateBegin, NoId
<1>3. PICK c : c = [Idle("none", r.deed) EXCEPT
                        !.pc = "ingest", !.acc = r.deed.id, !.prior = r.supersedes]
  OBVIOUS
<1>4. c \in Commands
  BY <1>1, <1>3 DEF Idle, Commands, Places, Outcomes
<1>5. CommandOK(c, bytes, shelf)
  BY <1>1, <1>2, <1>3 DEF Idle, CommandOK, DraftOK, WrittenOK, SidecarOK, CreatePlaces,
                          FrozenPlaces, StampExts
<1>6. cmd' = [cmd EXCEPT ![p] = c] /\ UNCHANGED <<disk, clock>>
  BY <1>3 DEF CreateBegin, Begin
<1> QED
  BY <1>4, <1>5, <1>6, QuietStep

LEMMA IngestInv ==
    ASSUME StoreAssumption, StoreInv, NEW p \in Procs, Ingest(p)
    PROVE  StoreInv'
<1> USE DEF StoreInv
<1>1. cmd[p] \in Commands /\ cmd[p].pc = "ingest" /\ CommandOK(cmd[p], bytes, shelf)
  BY DEF TypeOK, CommandsOK, Ingest, At
<1>2. cmd[p].draft \in Deed /\ cmd[p].acc = cmd[p].draft.id /\ cmd[p].prior # cmd[p].acc
  BY <1>1 DEF CommandOK, DraftOK, CreatePlaces
<1>3. bytes \subseteq bytes' /\ bytes' \in SUBSET Bodies /\ Shelved(cmd[p].draft, bytes')
  BY <1>2 DEF Ingest, TypeOK, Deed, Shelved
<1>4. PICK c : c = [cmd[p] EXCEPT !.pc = "freeze", !.staged = FALSE]
  OBVIOUS
<1>5. c \in Commands
  BY <1>1, <1>4 DEF Commands, Places
<1>6. CommandOK(c, bytes', shelf')
  BY <1>1, <1>2, <1>3, <1>4 DEF Commands, CommandOK, DraftOK, WrittenOK, SidecarOK,
                                CreatePlaces, FrozenPlaces, StampExts
<1>7. cmd' = [cmd EXCEPT ![p] = c]
  BY <1>1, <1>4 DEF Ingest, Goto, TypeOK
<1>8. UNCHANGED <<shelf, tmp, log, clock>>
  BY DEF Ingest
<1>9. cmd' \in [Procs -> Commands] /\ CommandsOK'
  BY <1>3, <1>5, <1>6, <1>7, <1>8, OthersKeep
<1>10. TypeOK'
  BY <1>3, <1>8, <1>9 DEF TypeOK
<1>11. StagedOK' /\ BytesBeforeDeed'
  BY <1>3, <1>8 DEF StagedOK, BytesBeforeDeed, Shelved
<1> QED
  BY <1>8, <1>9, <1>10, <1>11 DEF LogNamesWritten, MixupStaysWithinAccession, Has

LEMMA AnswerAgainInv ==
    ASSUME StoreAssumption, StoreInv, NEW p \in Procs, AnswerAgain(p)
    PROVE  StoreInv'
<1>1. cmd[p].draft \in Deed
  BY DEF StoreInv, CommandsOK, CommandOK, DraftOK, CreatePlaces, AnswerAgain, At
<1>2. CASE LoadsEvidence(cmd[p].acc)
  <2>1. PICK d : d = cmd[p].draft
    OBVIOUS
  <2> QED
    BY <1>1, <1>2, <2>1, QuietAnswer DEF AnswerAgain, Outcomes
<1>3. CASE ~LoadsEvidence(cmd[p].acc)
  BY <1>3, QuietAnswer DEF AnswerAgain, Outcomes
<1> QED
  BY <1>2, <1>3

LEMMA RefuseFrozenInv ==
    ASSUME StoreAssumption, StoreInv, NEW p \in Procs, RefuseFrozen(p)
    PROVE  StoreInv'
  BY QuietAnswer DEF RefuseFrozen, Outcomes

LEMMA AdmitInv ==
    ASSUME StoreAssumption, StoreInv, NEW p \in Procs, Admit(p)
    PROVE  StoreInv'
<1>1. cmd[p] \in Commands /\ cmd[p].pc = "freeze" /\ CommandOK(cmd[p], bytes, shelf)
      /\ clock \in Time
  BY DEF StoreInv, TypeOK, CommandsOK, Admit, At
<1>2. PICK c : c = [cmd[p] EXCEPT !.pc = "cap", !.stamp = clock]
  OBVIOUS
<1>3. c \in Commands
  BY <1>1, <1>2 DEF Commands, Places, Exts
<1>4. CommandOK(c, bytes, shelf)
  BY <1>1, <1>2 DEF Commands, CommandOK, DraftOK, WrittenOK, SidecarOK,
                    CreatePlaces, FrozenPlaces, StampExts
<1>5. cmd' = [cmd EXCEPT ![p] = c] /\ UNCHANGED <<disk, clock>>
  BY <1>1, <1>2 DEF Admit, StoreInv, TypeOK
<1> QED
  BY <1>3, <1>4, <1>5, QuietStep

LEMMA StageInv ==
    ASSUME StoreAssumption, StoreInv, NEW p \in Procs, Stage(p)
    PROVE  StoreInv'
<1> USE DEF StoreInv
<1>1. cmd[p] \in Commands /\ cmd[p].pc \in Exts /\ CommandOK(cmd[p], bytes, shelf)
  BY DEF TypeOK, CommandsOK, Stage
<1>2. PICK i, f : i = Target(cmd[p]) /\ f = Contents(cmd[p])
  OBVIOUS
<1>3. i \in Ids /\ f \in Files /\ About(f, i) /\ (f.frame = "deed" => Shelved(f.deed, bytes))
  BY <1>1, <1>2, ContentsOK
<1>4. tmp' = [tmp EXCEPT ![i] = f] /\ UNCHANGED <<shelf, bytes, log, clock>>
  BY <1>2 DEF Stage
<1>5. PICK c : c = [cmd[p] EXCEPT !.staged = TRUE]
  OBVIOUS
<1>6. c \in Commands /\ cmd' = [cmd EXCEPT ![p] = c]
  BY <1>1, <1>5 DEF Stage, TypeOK, Commands
<1>7. CommandOK(c, bytes', shelf')
  BY <1>1, <1>4, <1>5 DEF Commands, CommandOK, DraftOK, WrittenOK, SidecarOK
<1>8. cmd' \in [Procs -> Commands] /\ CommandsOK'
  BY <1>4, <1>6, <1>7, OthersKeep
<1>9. TypeOK'
  BY <1>3, <1>4, <1>8 DEF TypeOK
<1>10. StagedOK'
  BY <1>3, <1>4 DEF StagedOK, TypeOK
<1>11. MixupStaysWithinAccession'
  BY <1>3, <1>4 DEF MixupStaysWithinAccession, TypeOK
<1> QED
  BY <1>4, <1>8, <1>9, <1>10, <1>11 DEF LogNamesWritten, BytesBeforeDeed, Has

(* A command gone on to another place; a shelf with no deed file less. *)
Moved(c, place) == [c EXCEPT !.pc = place, !.staged = FALSE]
Grown(s, t) == \A i \in Ids : s[i]["cap"] # NoFile => t[i]["cap"] # NoFile

(* The place an atomic_write is followed by, when it is not the last of its
   command, is one whose facts the write has just made true. *)
LEMMA NextPlaceOK ==
    ASSUME NEW c \in Commands, NEW b, NEW s, NEW t, CommandOK(c, b, s), c.pc \in Exts,
           Grown(s, t),
           t[Target(c)][c.pc] # NoFile,
           NextPlace(c) # "idle"
    PROVE  /\ Moved(c, NextPlace(c)) \in Commands
           /\ CommandOK(Moved(c, NextPlace(c)), b, t)
<1> USE DEF CommandOK, CreatePlaces, FrozenPlaces, Grown
<1>1. c.pc \in {"cap", "evidence", "host", "supersedes", "successor"}
  BY DEF NextPlace, Exts, StampExts
<1>2. c.draft \in Deed /\ c.acc = c.draft.id /\ c.acc \in Ids /\ c.prior # c.acc
      /\ Shelved(c.draft, b) /\ c.stamp \in Time
  BY <1>1 DEF DraftOK, Deed
<1>3. t[c.acc]["cap"] # NoFile
  BY <1>1, <1>2 DEF WrittenOK, Target
<1>4. NextPlace(c) \in FrozenPlaces
  BY <1>1 DEF NextPlace, AfterEvidence, AfterHost
<1>5. NextPlace(c) \in {"link", "supersedes", "successor"} => c.prior \in Ids
  BY <1>1 DEF NextPlace, AfterEvidence, AfterHost, Commands, DraftOK
<1>6. PICK d : d = Moved(c, NextPlace(c))
  OBVIOUS
<1>7. d \in Commands /\ d.pc = NextPlace(c) /\ d.draft = c.draft /\ d.acc = c.acc
      /\ d.prior = c.prior /\ d.stamp = c.stamp
  BY <1>4, <1>6 DEF Commands, Places, Exts, Moved
<1> QED
  BY <1>2, <1>3, <1>4, <1>5, <1>6, <1>7 DEF DraftOK, WrittenOK, SidecarOK, StampExts

LEMMA PublishInv ==
    ASSUME StoreAssumption, StoreInv, NEW p \in Procs, Publish(p)
    PROVE  StoreInv'
<1> USE DEF StoreInv
<1>1. cmd[p] \in Commands /\ cmd[p].pc \in Exts /\ CommandOK(cmd[p], bytes, shelf)
  BY DEF TypeOK, CommandsOK, Publish
<1>2. PICK i, x : i = Target(cmd[p]) /\ x = cmd[p].pc
  OBVIOUS
<1>3. i \in Ids /\ x \in Exts
  BY <1>1, <1>2, ContentsOK
<1>4. /\ tmp[i] \in Files /\ tmp[i] # NoFile
      /\ shelf' = [shelf EXCEPT ![i][x] = tmp[i]]
      /\ tmp' = [tmp EXCEPT ![i] = NoFile]
      /\ UNCHANGED <<bytes, log, clock>>
  BY <1>2, <1>3 DEF Publish, TypeOK
<1>5. /\ shelf' \in [Ids -> [Exts -> Files \cup {NoFile}]]
      /\ \A j \in Ids, y \in Exts :
            shelf'[j][y] = IF j = i /\ y = x THEN tmp[i] ELSE shelf[j][y]
  BY <1>3, <1>4 DEF TypeOK
<1>6. /\ tmp' \in [Ids -> Files \cup {NoFile}]
      /\ \A j \in Ids : tmp'[j] = IF j = i THEN NoFile ELSE tmp[j]
  BY <1>3, <1>4 DEF TypeOK
<1>7. "cap" \in Exts /\ NoFile.frame = "absent"
  BY DEF Exts, NoFile
<1>8. /\ \A j \in Ids : shelf[j]["cap"] # NoFile => shelf'[j]["cap"] # NoFile
      /\ shelf'[i][x] # NoFile
  BY <1>3, <1>4, <1>5, <1>7
<1>9. PICK c : /\ c \in Commands /\ CommandOK(c, bytes', shelf')
               /\ cmd' = [cmd EXCEPT ![p] = c]
  <2>1. CASE NextPlace(cmd[p]) = "idle"
    <3>1. PICK o \in Outcomes : cmd' = [cmd EXCEPT ![p] = Idle(o, NoDeed)]
      BY <2>1 DEF Publish, Answer, Begin, Outcomes
    <3>2. PICK c : c = Idle(o, NoDeed)
      OBVIOUS
    <3>3. c \in Commands /\ CommandOK(c, bytes', shelf')
      BY <3>2, IdleOK
    <3> QED
      BY <3>1, <3>2, <3>3
  <2>2. CASE NextPlace(cmd[p]) # "idle"
    <3>1. PICK c : c = Moved(cmd[p], NextPlace(cmd[p]))
      OBVIOUS
    <3>2. PICK e, b, s, t : e = cmd[p] /\ b = bytes /\ s = shelf /\ t = shelf'
      OBVIOUS
    <3>3. /\ e \in Commands /\ CommandOK(e, b, s) /\ e.pc \in Exts
          /\ t[Target(e)][e.pc] # NoFile /\ NextPlace(e) # "idle"
          /\ c = Moved(e, NextPlace(e)) /\ Grown(s, t)
      BY <1>1, <1>2, <1>8, <2>2, <3>1, <3>2 DEF Grown
    <3>4. c \in Commands /\ CommandOK(c, b, t)
      BY <3>3, NextPlaceOK
    <3>5. cmd' = [cmd EXCEPT ![p] = c]
      BY <1>1, <2>2, <3>1 DEF Publish, Goto, Moved, TypeOK
    <3> QED
      BY <1>4, <3>2, <3>4, <3>5
  <2> QED
    BY <2>1, <2>2
<1>10. cmd' \in [Procs -> Commands] /\ CommandsOK'
  BY <1>4, <1>8, <1>9, OthersKeep
<1>11. TypeOK'
  BY <1>4, <1>5, <1>6, <1>10 DEF TypeOK
<1>12. StagedOK'
  BY <1>4, <1>6, <1>7 DEF StagedOK
<1>13. LogNamesWritten'
  <2>1. log \in Seq(Entries) /\ \A e \in Entries : e.id \in Ids
    BY DEF TypeOK, Entries
  <2> QED
    BY <1>4, <1>8, <2>1 DEF LogNamesWritten, Has
<1>14. BytesBeforeDeed'
  BY <1>3, <1>4, <1>5, <1>7 DEF BytesBeforeDeed, StagedOK, Shelved
<1>15. MixupStaysWithinAccession'
  BY <1>3, <1>5, <1>6, <1>7 DEF MixupStaysWithinAccession, About
<1> QED
  BY <1>10, <1>11, <1>12, <1>13, <1>14, <1>15

LEMMA PublishFailsInv ==
    ASSUME StoreAssumption, StoreInv, NEW p \in Procs, PublishFails(p)
    PROVE  StoreInv'
  BY QuietAnswer DEF PublishFails, Outcomes

LEMMA RecordSupersedesInv ==
    ASSUME StoreAssumption, StoreInv, NEW p \in Procs, RecordSupersedes(p)
    PROVE  StoreInv'
<1>1. cmd[p] \in Commands /\ cmd[p].pc = "link" /\ CommandOK(cmd[p], bytes, shelf)
  BY DEF StoreInv, TypeOK, CommandsOK, RecordSupersedes, At
<1>2. CASE Answer(p, "notfound", NoDeed) \/ Answer(p, "frozen", NoDeed)
  BY <1>2, QuietAnswer DEF RecordSupersedes, Outcomes
<1>3. CASE Goto(p, "supersedes")
  <2>1. PICK c : c = [cmd[p] EXCEPT !.pc = "supersedes", !.staged = FALSE]
    OBVIOUS
  <2>2. c \in Commands /\ CommandOK(c, bytes, shelf)
    BY <1>1, <2>1 DEF Commands, Places, Exts, CommandOK, DraftOK, WrittenOK, SidecarOK,
                      CreatePlaces, FrozenPlaces, StampExts
  <2>3. cmd' = [cmd EXCEPT ![p] = c] /\ UNCHANGED <<disk, clock>>
    BY <1>1, <1>3, <2>1 DEF RecordSupersedes, Goto, StoreInv, TypeOK
  <2> QED
    BY <2>2, <2>3, QuietStep
<1> QED
  BY <1>2, <1>3 DEF RecordSupersedes

LEMMA LogDeedInv ==
    ASSUME StoreAssumption, StoreInv, NEW p \in Procs, LogDeed(p)
    PROVE  StoreInv'
<1>1. cmd[p].pc = "append" /\ CommandOK(cmd[p], bytes, shelf)
  BY DEF StoreInv, CommandsOK, LogDeed, At
<1>2. PICK d, t : d = cmd[p].draft /\ t = cmd[p].stamp
  OBVIOUS
<1>3. d \in Deed /\ t \in Time /\ Has(d.id, "cap")
  BY <1>1, <1>2 DEF CommandOK, DraftOK, WrittenOK, CreatePlaces, FrozenPlaces, Has
<1>4. PICK c : c = Idle("ok", d)
  OBVIOUS
<1>5. c \in Commands /\ CommandOK(c, bytes, shelf)
  BY <1>3, <1>4, IdleOK DEF Outcomes
<1>6. /\ cmd' = [cmd EXCEPT ![p] = c] /\ AppendLog(d, t)
      /\ UNCHANGED <<shelf, tmp, bytes, clock>>
  BY <1>2, <1>4 DEF LogDeed, Answer, Begin
<1> QED
  BY <1>3, <1>5, <1>6, LogStep

LEMMA DeleteInv ==
    ASSUME StoreAssumption, StoreInv, NEW p \in Procs, NEW i \in Ids, Delete(p, i)
    PROVE  StoreInv'
<1>1. PICK c : c = [Idle("none", NoDeed) EXCEPT !.pc = "tomb", !.acc = i]
  OBVIOUS
<1>2. c \in Commands
  BY <1>1 DEF Idle, Commands, Places, Exts, Outcomes
<1>3. CommandOK(c, bytes, shelf)
  BY <1>1 DEF Idle, CommandOK, DraftOK, WrittenOK, SidecarOK, CreatePlaces,
              FrozenPlaces, StampExts
<1>4. cmd' = [cmd EXCEPT ![p] = c] /\ UNCHANGED <<disk, clock>>
  BY <1>1 DEF Delete, Begin
<1> QED
  BY <1>2, <1>3, <1>4, QuietStep

LEMMA TimestampInv ==
    ASSUME StoreAssumption, StoreInv, NEW p \in Procs, NEW i \in Ids,
           NEW ext \in StampExts, Timestamp(p, i, ext)
    PROVE  StoreInv'
<1>1. PICK m : m = Imprint(shelf[i]["evidence"])
  OBVIOUS
<1>2. shelf[i]["evidence"] \in Files \cup {NoFile} /\ shelf[i]["evidence"] # NoFile
  BY DEF StoreInv, TypeOK, Exts, Timestamp, Has
<1>3. m \in Imprints
  BY <1>1, <1>2, FrameFields
<1>4. PICK c : c = [Idle("none", NoDeed) EXCEPT !.pc = ext, !.acc = i, !.imprint = m]
  OBVIOUS
<1>5. c \in Commands
  BY <1>3, <1>4 DEF Idle, Commands, Places, Exts, Outcomes
<1>6. CommandOK(c, bytes, shelf)
  BY <1>3, <1>4 DEF Idle, CommandOK, DraftOK, WrittenOK, SidecarOK, CreatePlaces,
                    FrozenPlaces, StampExts
<1>7. cmd' = [cmd EXCEPT ![p] = c] /\ UNCHANGED <<disk, clock>>
  BY <1>1, <1>4 DEF Timestamp, Begin
<1> QED
  BY <1>5, <1>6, <1>7, QuietStep

LEMMA BackfillInv ==
    ASSUME StoreAssumption, StoreInv, NEW p \in Procs, Backfill(p)
    PROVE  StoreInv'
<1>1. PICK S : S = Unlogged
  OBVIOUS
<1>2. S \in SUBSET Ids
  BY <1>1 DEF Unlogged
<1>3. PICK c : c = [Idle("none", NoDeed) EXCEPT !.pc = "backfill", !.todo = S]
  OBVIOUS
<1>4. c \in Commands
  BY <1>2, <1>3 DEF Idle, Commands, Places, Outcomes
<1>5. CommandOK(c, bytes, shelf)
  BY <1>3 DEF Idle, CommandOK, DraftOK, WrittenOK, SidecarOK, CreatePlaces,
              FrozenPlaces, StampExts
<1>6. cmd' = [cmd EXCEPT ![p] = c] /\ UNCHANGED <<disk, clock>>
  BY <1>1, <1>3 DEF Backfill, Begin
<1> QED
  BY <1>4, <1>5, <1>6, QuietStep

LEMMA BackfillReadInv ==
    ASSUME StoreAssumption, StoreInv, NEW p \in Procs, BackfillRead(p)
    PROVE  StoreInv'
<1>1. cmd[p] \in Commands /\ UNCHANGED <<disk, clock>> /\ clock \in Time
  BY DEF StoreInv, TypeOK, BackfillRead
<1>2. PICK i \in cmd[p].todo :
         IF Served(i)
         THEN cmd' = [cmd EXCEPT
                  ![p].pc = "refill", ![p].acc = i, ![p].draft = DeedAt(i),
                  ![p].stamp = IF EvidencePasses(i)
                               THEN shelf[i]["evidence"].time ELSE clock]
         ELSE Answer(p, "notfound", NoDeed)
  BY DEF BackfillRead
<1>3. i \in Ids /\ \A x \in Exts : shelf[i][x] \in Files \cup {NoFile}
  BY <1>1 DEF Commands, StoreInv, TypeOK
<1>4. CASE ~Served(i)
  BY <1>1, <1>2, <1>4, QuietAnswer DEF Outcomes
<1>5. CASE Served(i)
  <2>1. PICK d, t : d = DeedAt(i) /\ t = IF EvidencePasses(i)
                               THEN shelf[i]["evidence"].time ELSE clock
    OBVIOUS
  <2>2. d \in Deed /\ d.id = i /\ shelf[i]["cap"] # NoFile
    BY <1>3, <1>5, <2>1, FrameFields DEF Served, DeedAt, Exts, NoFile
  <2>3. EvidencePasses(i) => LoadsEvidence(i)
    BY <2>1, <2>2 DEF EvidencePasses, EvidenceLocal
  <2>4. t \in Time
    BY <1>1, <1>3, <2>1, <2>3, FrameFields DEF LoadsEvidence, Exts
  <2>5. PICK c : c = [cmd[p] EXCEPT !.pc = "refill", !.acc = i, !.draft = d, !.stamp = t]
    OBVIOUS
  <2>6. c \in Commands
    BY <1>1, <1>3, <2>2, <2>4, <2>5 DEF Commands, Places
  <2>7. CommandOK(c, bytes, shelf)
    BY <1>1, <2>2, <2>4, <2>5 DEF Commands, CommandOK, DraftOK, WrittenOK, SidecarOK,
                                  CreatePlaces, FrozenPlaces, StampExts
  <2>8. cmd' = [cmd EXCEPT ![p] = c]
    BY <1>1, <1>2, <1>5, <2>1, <2>5 DEF StoreInv, TypeOK
  <2> QED
    BY <1>1, <2>6, <2>7, <2>8, QuietStep
<1> QED
  BY <1>4, <1>5

LEMMA BackfillLogInv ==
    ASSUME StoreAssumption, StoreInv, NEW p \in Procs, BackfillLog(p)
    PROVE  StoreInv'
<1>1. cmd[p] \in Commands /\ cmd[p].pc = "refill" /\ CommandOK(cmd[p], bytes, shelf)
  BY DEF StoreInv, TypeOK, CommandsOK, BackfillLog, At
<1>2. PICK d, t, S : d = cmd[p].draft /\ t = cmd[p].stamp /\ S = cmd[p].todo \ {cmd[p].acc}
  OBVIOUS
<1>3. d \in Deed /\ t \in Time /\ Has(d.id, "cap") /\ S \in SUBSET Ids
  BY <1>1, <1>2 DEF CommandOK, DraftOK, WrittenOK, Has, Commands
<1>4. PICK c : c = IF S = {} THEN Idle("ok", NoDeed)
                   ELSE [Idle("none", NoDeed) EXCEPT !.pc = "backfill", !.todo = S]
  OBVIOUS
<1>5. c \in Commands /\ CommandOK(c, bytes, shelf)
  <2>1. CASE S = {}
    BY <1>4, <2>1, IdleOK DEF Outcomes
  <2>2. CASE S # {}
    <3>1. c = [Idle("none", NoDeed) EXCEPT !.pc = "backfill", !.todo = S]
      BY <1>4, <2>2
    <3>2. c \in Commands
      BY <1>3, <3>1 DEF Idle, Commands, Places, Outcomes
    <3>3. CommandOK(c, bytes, shelf)
      BY <3>1 DEF Idle, CommandOK, DraftOK, WrittenOK, SidecarOK, CreatePlaces,
                  FrozenPlaces, StampExts
    <3> QED
      BY <3>2, <3>3
  <2> QED
    BY <2>1, <2>2
<1>6. /\ cmd' = [cmd EXCEPT ![p] = c] /\ AppendLog(d, t)
      /\ UNCHANGED <<shelf, tmp, bytes, clock>>
  BY <1>2, <1>4 DEF BackfillLog, Answer, Begin
<1> QED
  BY <1>3, <1>5, <1>6, LogStep

LEMMA StopInv ==
    ASSUME StoreAssumption, StoreInv, NEW p \in Procs, Stop(p)
    PROVE  StoreInv'
  BY QuietAnswer DEF Stop, Outcomes

LEMMA TickInv == ASSUME StoreAssumption, StoreInv, Tick PROVE StoreInv'
<1>1. clock' \in Time /\ UNCHANGED <<shelf, tmp, bytes, log, cmd>>
  BY DEF StoreAssumption, StoreInv, TypeOK, Tick, Time, disk
<1> QED
  BY <1>1 DEF StoreInv, TypeOK, CommandsOK, StagedOK, LogNamesWritten, BytesBeforeDeed,
              MixupStaysWithinAccession, Has

LEMMA StutterInv == ASSUME StoreInv, UNCHANGED vars PROVE StoreInv'
  BY DEF vars, StoreInv, TypeOK, CommandsOK, StagedOK, LogNamesWritten, BytesBeforeDeed,
         MixupStaysWithinAccession, Has

-----------------------------------------------------------------------------
LEMMA NextInv == ASSUME StoreAssumption, StoreInv, [Next]_vars PROVE StoreInv'
<1>1. ASSUME NEW p \in Procs, Start(p) PROVE StoreInv'
  BY <1>1, CreateBeginInv, DeleteInv, TimestampInv, BackfillInv DEF Start
<1>2. ASSUME NEW p \in Procs, Step(p) PROVE StoreInv'
  BY <1>2, IngestInv, AnswerAgainInv, RefuseFrozenInv, AdmitInv, StageInv, PublishInv,
     PublishFailsInv, RecordSupersedesInv, LogDeedInv, BackfillReadInv, BackfillLogInv
     DEF Step
<1>3. ASSUME NEW p \in Procs, Stop(p) PROVE StoreInv'
  BY <1>3, StopInv
<1> QED
  BY <1>1, <1>2, <1>3, TickInv, StutterInv DEF Next

(* Whatever commands run at once on a store, and wherever they stop, every state
   of it satisfies the inductive invariant. *)
THEOREM StoreInvariant == Spec => []StoreInv
<1>1. Init => StoreInv
  BY StoreAssumption, InitInv
<1>2. StoreInv /\ [Next]_vars => StoreInv'
  BY StoreAssumption, NextInv
<1> QED
  BY <1>1, <1>2, PTL DEF Spec

(* Every file holds a frame the code writes, the log holds entries, and every
   command is at one of its places. *)
THEOREM TypeCorrect == Spec => []TypeOK
<1>1. StoreInv => TypeOK
  BY DEF StoreInv
<1> QED
  BY <1>1, StoreInvariant, PTL

(* create and log_backfill append to the log last: no entry ever names an
   accession without a deed file, at any number of processes and crashes. *)
THEOREM LogNamesOnlyWritten == Spec => []LogNamesWritten
<1>1. StoreInv => LogNamesWritten
  BY DEF StoreInv
<1> QED
  BY <1>1, StoreInvariant, PTL

(* ingest_body runs before atomic_write of the deed, so a deed file never names
   handed-over bytes the store lacks, whichever create staged it. *)
THEOREM BytesComeFirst == Spec => []BytesBeforeDeed
<1>1. StoreInv => BytesBeforeDeed
  BY DEF StoreInv
<1> QED
  BY <1>1, StoreInvariant, PTL

(* The temporary atomic_write shares among an accession's sidecars never carries
   a file about one deed to another. *)
THEOREM MixupsAreLocal == Spec => []MixupStaysWithinAccession
<1>1. StoreInv => MixupStaysWithinAccession
  BY DEF StoreInv
<1> QED
  BY <1>1, StoreInvariant, PTL

=============================================================================
