------------------------------- MODULE Satchel -------------------------------
(***************************************************************************)
(* A sender's store, and the bag that `export` fills from it: one folder   *)
(* per deed and a signed head beside them.  Export writes file by file, so *)
(* a reader may find any stage of it, and a stopped export leaves one.     *)
(*                                                                         *)
(* The sender's store is taken with its promises kept (DeedRegistry): what *)
(* is frozen under an accession and when is a constant, whether it is      *)
(* there, logged or deleted is state.  A receipt's head is the size of the *)
(* log it is against: there is one sender and its log only grows, so the   *)
(* root goes with the size (MerkleLog).  A signature is what it covers.    *)
(***************************************************************************)
EXTENDS Naturals, Sequences, FiniteSets

CONSTANTS
    Ids,         \* accessions, numbered in accession order
    Bodies,      \* product bytes
    Draft,       \* Draft[i]: the deed the sender freezes under i
    Prior,       \* Prior[i]: the deed it supersedes, or NoId
    SentAt,      \* SentAt[i]: the time of its evidence
    Times,       \* seconds of the clock
    SealsDeeds,  \* the sender's deeds have host sidecars
    Seals,       \* whether an export signs: the key is given per command
    Deletable,   \* accessions the sender may delete
    Losable,     \* files of a bag that may get lost
    Exports,     \* lists of accessions an export is asked for
    MaxExports,  \* bound on exports
    MaxEvents    \* bound on deletes, lost files and creates at the receiver

NoId == 0
NoFile == [frame |-> "absent"]

Deed == [id : Ids, body : Bodies, sources : SUBSET Ids]
Digest(d) == [sha256 |-> d]
Link(d) == [id |-> d.id, digest |-> Digest(d)]
Created(d, t) == [deed |-> d, time |-> t]
Sidecar(d, t) == [seal |-> d, time |-> t]
Entry(d, t) == [id |-> d.id, digest |-> Digest(d), time |-> t]

ASSUME SatchelAssumption ==
    /\ Ids \subseteq Nat \ {NoId} /\ IsFiniteSet(Ids)
    /\ Times \subseteq Nat \ {0}
    /\ Draft \in [Ids -> Deed] /\ \A i \in Ids : Draft[i].id = i
    /\ Prior \in [Ids -> Ids \cup {NoId}] /\ \A i \in Ids : Prior[i] # i
    /\ SentAt \in [Ids -> Times]
    /\ SealsDeeds \in BOOLEAN /\ Seals \subseteq BOOLEAN
    /\ Deletable \subseteq Ids /\ Exports \subseteq SUBSET Ids
    /\ Losable \subseteq {"deed", "evidence", "host", "bytes", "supersedes",
                       "successor", "sources", "proof", "head"}
    /\ MaxExports \in Nat /\ MaxEvents \in Nat

VARIABLES
    made,    \* accessions frozen at the sender, with evidence and links
    tombs,   \* those it deleted since
    slog,    \* the sender's log, as accessions
    bag,     \* bag[i]: the files of folder i
    head,    \* the bag's signed head, or NoFile
    exp,     \* the running export
    events   \* those so far

senderVars == <<made, tombs, slog>>
bagVars == <<senderVars, bag, head, exp>>
satchelVars == <<bagVars, events>>

Event == events < MaxEvents /\ events' = events + 1

-----------------------------------------------------------------------------
(* The sender's store. *)

SServed(i) == i \in made \ tombs
SentEntries == {Entry(Draft[i], SentAt[i]) : i \in {slog[k] : k \in 1..Len(slog)}}

(* create up to its links, and then its log line: another command may come in
   between, and an export reads the two from different files. *)
SenderCreate(i) ==
    /\ i \notin made
    /\ Prior[i] # NoId => /\ SServed(Prior[i])
                          /\ \A j \in made : Prior[j] # Prior[i]
    /\ made' = made \cup {i}
    /\ UNCHANGED <<tombs, slog, bag, head, exp, events>>

SenderLog(i) ==
    /\ i \in made
    /\ \A k \in 1..Len(slog) : slog[k] # i
    /\ slog' = Append(slog, i)
    /\ UNCHANGED <<made, tombs, bag, head, exp, events>>

SenderDelete(i) ==
    /\ SServed(i) /\ i \in Deletable
    /\ Event
    /\ tombs' = tombs \cup {i}
    /\ UNCHANGED <<made, slog, bag, head, exp>>

(* next_tip: the successor on file, where it is held and not deleted. *)
NextTip(i) == {j \in made \ tombs : Prior[j] = i}

(* trail: every deed i was made from, directly or not.  The least closed set
   is the intersection of the closed ones. *)
Trail(i) == {j \in Ids : \A s \in SUBSET Ids :
                (i \in s /\ \A k \in s : Draft[k].sources \subseteq s) => j \in s}

-----------------------------------------------------------------------------
(* The bag. *)

EmptyFolder ==
    [deed |-> NoFile, evidence |-> NoFile, host |-> NoFile, bytes |-> {},
     supersedes |-> NoFile, successor |-> NoFile, sources |-> {},
     proof |-> NoFile]

deed_folders == {i \in Ids : bag[i] # EmptyFolder}

(* link_commitment: which folders there are, and every link file in each. *)
link_commitment ==
    [i \in deed_folders |->
        <<bag[i].sources, bag[i].supersedes, bag[i].successor>>]

(* links_bound: the signature covers the links that are in the bag. *)
links_bound(h) == h.links = link_commitment

-----------------------------------------------------------------------------
(* export *)

NoExport(n) == [pc |-> "idle", todo |-> {}, id |-> NoId, size |-> 0,
                sealed |-> FALSE, count |-> n]

ExportIdle == exp.pc = "idle"

(* The exporter reads the log once, for the whole list. *)
ExportBegin(asked, sealed) ==
    /\ ExportIdle /\ exp.count < MaxExports
    /\ exp' = [pc |-> "next", todo |-> asked, id |-> NoId, size |-> Len(slog),
               sealed |-> sealed, count |-> exp.count + 1]
    /\ UNCHANGED <<senderVars, bag, head, events>>

(* One deed ends, written or refused; the loop goes on with the next. *)
ExportNext ==
    LET left == exp.todo \ {exp.id} IN
    exp' = IF left = {} THEN NoExport(exp.count)
           ELSE [exp EXCEPT !.pc = "next", !.todo = left, !.id = NoId]

ExportMissing(i) ==
    /\ exp.pc = "next" /\ i \in exp.todo /\ ~SServed(i)
    /\ exp' = [exp EXCEPT !.pc = "refuse", !.id = i]
    /\ UNCHANGED <<senderVars, bag, head, events>>

(* export_files up to the supersedes file.  The prior deed's digest is taken
   from its file, deleted or not.  These files are the same in every export of
   i, and no reader looks at them before proof.txt, which is written last: so
   they are one step. *)
ExportRecords(i) ==
    /\ exp.pc = "next" /\ i \in exp.todo /\ SServed(i)
    /\ bag' = [bag EXCEPT
            ![i].deed = Draft[i],
            ![i].evidence = Created(Draft[i], SentAt[i]),
            ![i].host = IF SealsDeeds THEN Sidecar(Draft[i], SentAt[i]) ELSE @,
            ![i].bytes = @ \cup {Draft[i].body},
            ![i].supersedes = IF Prior[i] = NoId THEN @ ELSE Link(Draft[Prior[i]])]
    /\ exp' = [exp EXCEPT !.pc = "successor", !.id = i]
    /\ UNCHANGED <<senderVars, head, events>>

(* Where there is no successor now, one of an earlier export stays. *)
ExportSuccessor ==
    LET i == exp.id IN
    /\ exp.pc = "successor"
    /\ \/ \E j \in NextTip(i) : bag' = [bag EXCEPT ![i].successor = Link(Draft[j])]
       \/ NextTip(i) = {} /\ UNCHANGED bag
    /\ exp' = [exp EXCEPT !.pc = "sources"]
    /\ UNCHANGED <<senderVars, head, events>>

ExportSources ==
    LET i == exp.id IN
    /\ exp.pc = "sources"
    /\ IF \A j \in Trail(i) : SServed(j)
       THEN /\ bag' = [bag EXCEPT ![i].sources =
                          IF Trail(i) = {i} THEN @
                          ELSE {Link(Draft[j]) : j \in Trail(i) \ {i}}]
            /\ exp' = [exp EXCEPT !.pc = "proof"]
       ELSE exp' = [exp EXCEPT !.pc = "refuse"] /\ UNCHANGED bag
    /\ UNCHANGED <<senderVars, head, events>>

(* The receipt is a lookup in the log as it was read. *)
ExportProof ==
    LET i == exp.id
        at == {k \in 1..exp.size : slog[k] = i}
    IN  /\ exp.pc = "proof"
        /\ \/ \E k \in at :
                /\ bag' = [bag EXCEPT ![i].proof =
                        [entry |-> Entry(Draft[i], SentAt[i]), index |-> k,
                         size |-> exp.size]]
                /\ exp' = [exp EXCEPT !.pc = "head"]
           \/ /\ at = {}
              /\ exp' = [exp EXCEPT !.pc = "refuse"]
              /\ UNCHANGED bag
        /\ UNCHANGED <<senderVars, head, events>>

(* After every deed the head is signed again, over the links there are.  An
   export without a key leaves the head it finds. *)
ExportHead ==
    /\ exp.pc = "head"
    /\ head' = IF exp.sealed
               THEN [size |-> exp.size, links |-> link_commitment] ELSE head
    /\ ExportNext
    /\ UNCHANGED <<senderVars, bag, events>>

ExportRefused ==
    /\ exp.pc = "refuse"
    /\ ExportNext
    /\ UNCHANGED <<senderVars, bag, head, events>>

ExportStop ==
    /\ ~ExportIdle
    /\ exp' = NoExport(exp.count)
    /\ UNCHANGED <<senderVars, bag, head, events>>

(* A person takes an empty directory for the next bag. *)
NewBag ==
    /\ ExportIdle /\ deed_folders # {}
    /\ bag' = [i \in Ids |-> EmptyFolder]
    /\ head' = NoFile
    /\ UNCHANGED <<senderVars, exp, events>>

(* A file of a bag that was exported does not arrive. *)
Lose ==
    /\ ExportIdle
    /\ Event
    /\ \/ /\ \E i \in deed_folders, f \in Losable \ {"head"} :
               /\ bag[i][f] # EmptyFolder[f]
               /\ bag' = [bag EXCEPT ![i][f] = EmptyFolder[f]]
          /\ UNCHANGED head
       \/ /\ "head" \in Losable /\ head # NoFile
          /\ head' = NoFile
          /\ UNCHANGED bag
    /\ UNCHANGED <<senderVars, exp>>

-----------------------------------------------------------------------------
(* check_handover, folder by folder. *)

(* A receipt, and beside it the deed it names, under the folder's name, with
   its product. *)
FolderPasses(i) ==
    LET f == bag[i] IN
    /\ f.proof # NoFile /\ f.deed # NoFile
    /\ f.proof.entry.digest = Digest(f.deed)
    /\ f.proof.entry.id = i /\ f.deed.id = i
    /\ f.deed.body \in f.bytes

(* off_head: the head a receipt is held to is the signed one, else the one of
   the first receipt that passed. *)
OnHead(i, signed, size) ==
    CASE signed # NoFile -> bag[i].proof.size = signed.size
      [] size # 0 -> bag[i].proof.size = size
      [] OTHER -> TRUE

SatchelInit ==
    /\ made = {} /\ tombs = {} /\ slog = <<>>
    /\ bag = [i \in Ids |-> EmptyFolder]
    /\ head = NoFile
    /\ exp = NoExport(0)
    /\ events = 0

=============================================================================
