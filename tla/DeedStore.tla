------------------------------ MODULE DeedStore ------------------------------
(***************************************************************************)
(* One deedar store, and the commands that processes run on it at once.    *)
(* There is no daemon: every command opens the directory and does a series *)
(* of file operations on it, so two commands interleave at every file      *)
(* operation, and a command may stop after any of them.                    *)
(*                                                                         *)
(* Granularity.  Every write a command makes is a step of its own.         *)
(* atomic_write is two: the temporary file is written, then renamed.  The  *)
(* temporary of every sidecar of an accession has one name, `{id}.tmp`,    *)
(* because `with_extension` replaces the sidecar's extension.  Existence   *)
(* checks made between two writes are one step: files are never removed,   *)
(* so a check that passed stays passed except for what a later check of    *)
(* the same command looks at again.                                        *)
(*                                                                         *)
(* Data.  A deed is its accession, one product body and the deeds it was   *)
(* made from.  A hash, a keyed hash and a signature are the value they     *)
(* cover.                                                                  *)
(***************************************************************************)
EXTENDS Naturals, Sequences, FiniteSets

CONSTANTS
    Procs,        \* processes that run commands on the store
    Ids,          \* accessions, numbered in accession order
    Bodies,       \* product bytes
    Addressed,    \* bodies callers name by `sha256:` and do not hand over
    Requests,     \* create requests callers may make
    Reach,        \* Reach[p]: accessions process p creates or changes
    Deletable,    \* accessions callers ask to delete
    Stampable,    \* accessions callers ask a timestamp for
    Authority,    \* DEEDAR_TSA names a timestamp authority
    SigningKey,   \* the host signs with an Ed25519 key
    HostKey,      \* the host has a keyed-hash key beside the store
    SignerListed, \* the layout lists the host's signing key
    Demand,       \* the layout's attestation line
    MaxTime       \* bound on the wall clock, in seconds

NoId == 0

Deed == [id : Ids, body : Bodies, sources : SUBSET Ids]
NoDeed == [id |-> NoId]

Request == [deed : Deed, supersedes : Ids \cup {NoId}]

ASSUME StoreAssumption ==
    /\ Ids \subseteq Nat \ {NoId}
    /\ IsFiniteSet(Ids)
    /\ Addressed \subseteq Bodies
    /\ Requests \subseteq Request
    /\ Reach \in [Procs -> SUBSET Ids]
    /\ Deletable \subseteq Ids /\ Stampable \subseteq Ids
    /\ Authority \in BOOLEAN
    /\ SigningKey \in BOOLEAN /\ HostKey \in BOOLEAN /\ SignerListed \in BOOLEAN
    /\ Demand \in {"optional", "required"}
    /\ MaxTime \in Nat \ {0}

-----------------------------------------------------------------------------
(* What a file holds. *)

Time == 1..MaxTime

NoFile == [frame |-> "absent"]
TombFrame == [frame |-> "tomb"]
DeedFrame(d) == [frame |-> "deed", deed |-> d]
CreatedFrame(d, t) == [frame |-> "created", deed |-> d, time |-> t]
HostScheme == IF SigningKey THEN "ed25519" ELSE "hmac"
HostFrame(d, t) == [frame |-> HostScheme, deed |-> d, time |-> t]
LinkFrame(i) == [frame |-> "link", id |-> i]

(* A timestamp query or reply, over the evidence file's bytes.  Of a file that
   is itself a timestamp only the kind is kept, so that frames do not nest. *)
StampFrame(ext, m) == [frame |-> ext, imprint |-> m]
StampExts == {"tsq", "tsr"}
Imprint(f) == IF f.frame \in StampExts THEN [frame |-> f.frame] ELSE f

Frames == [frame : {"deed"}, deed : Deed]
              \cup [frame : {"created", "ed25519", "hmac"}, deed : Deed, time : Time]
              \cup [frame : {"link"}, id : Ids]
              \cup {TombFrame}
Imprints == Frames \cup [frame : StampExts]
Files == Frames \cup [frame : StampExts, imprint : Imprints]

Exts == {"cap", "evidence", "host", "supersedes", "successor", "tomb"}
            \cup StampExts

Digest(d) == [sha256 |-> d]
Entry(d, t) == [id |-> d.id, digest |-> Digest(d), time |-> t]
Entries == [id : Ids, digest : [sha256 : Deed], time : Time]

-----------------------------------------------------------------------------
VARIABLES
    shelf,   \* deeds/: shelf[i][x] is what `{i}.{x}` holds
    tmp,     \* tmp[i] is what `{i}.tmp` holds
    bytes,   \* bytes/: the bodies on the shelf, each under its own hash
    log,     \* the append-only log, line by line
    clock,   \* the wall clock
    cmd      \* cmd[p]: the command p runs, and where it is

vars == <<shelf, tmp, bytes, log, clock, cmd>>
disk == <<shelf, tmp, bytes, log>>

(* A command's place is named for the file it writes next. *)
Places == {"idle", "ingest", "freeze", "link", "append", "backfill", "refill"}
              \cup Exts

Outcomes == {"none", "ok", "frozen", "evidence", "notfound", "timeout", "io",
             "stopped"}

(* A process between commands; what the last one answered is kept. *)
Idle(outcome, d) ==
    [pc |-> "idle", acc |-> NoId, draft |-> d, prior |-> NoId, stamp |-> 0,
     imprint |-> NoFile, todo |-> {}, staged |-> FALSE, outcome |-> outcome]

At(p, place) == cmd[p].pc = place
Begin(p, c) == cmd' = [cmd EXCEPT ![p] = c]
Answer(p, outcome, d) == Begin(p, Idle(outcome, d))
Goto(p, place) == cmd' = [cmd EXCEPT ![p].pc = place, ![p].staged = FALSE]

-----------------------------------------------------------------------------
(* Reading the store. *)

Has(i, x) == shelf[i][x] # NoFile

(* get: not tombstoned, and the file under that accession is its deed. *)
Served(i) ==
    /\ ~Has(i, "tomb")
    /\ shelf[i]["cap"].frame = "deed"
    /\ shelf[i]["cap"].deed.id = i

DeedAt(i) == shelf[i]["cap"].deed

LoadsEvidence(i) == shelf[i]["evidence"].frame = "created"

(* check_host_sidecar: what the layout demands, against the sidecar there. *)
HostPasses(d, ev) ==
    LET side == shelf[d.id]["host"]
        covers == side.frame = HostScheme /\ side.deed = d /\ side.time = ev.time
    IN  CASE side = NoFile -> Demand = "optional" /\ ~HostKey
          [] side.frame = "ed25519" -> SignerListed /\ covers
          [] OTHER -> Demand = "optional" /\ (HostKey => covers)

(* evidence_local: the record is there, the product is there, and the keyed
   hash and the sidecar cover this deed at the record's time. *)
EvidenceLocal(d) ==
    /\ LoadsEvidence(d.id)
    /\ d.body \in bytes
    /\ shelf[d.id]["evidence"].deed = d
    /\ HostPasses(d, shelf[d.id]["evidence"])

(* evidence: every deed on the trail of i is served and passes.  The trail is
   the least set closed under sources, so some closed set that passes
   throughout is the same as the trail passing. *)
EvidencePasses(i) ==
    \E trail \in SUBSET Ids :
        /\ i \in trail
        /\ \A j \in trail : /\ Served(j)
                            /\ DeedAt(j).sources \subseteq trail
                            /\ EvidenceLocal(DeedAt(j))

Logged(i) == \E k \in 1..Len(log) : log[k].id = i

(* Mistaken: the audit does not look into the log. *)
UnloggedAll == {i \in Ids : Served(i)}

(* log_audit: deeds served and never logged. *)
Unlogged == {i \in Ids : Served(i) /\ ~Logged(i)}

(* log_audit: deeds logged and no longer served as logged. *)
Missing == {i \in Ids : \E k \in 1..Len(log) :
               /\ log[k].id = i
               /\ ~(Served(i) /\ Digest(DeedAt(i)) = log[k].digest)}

-----------------------------------------------------------------------------
(* atomic_write: the file a command is at goes to the accession's temporary,
   and the temporary is renamed onto the file. *)

(* Mistaken: both links are written beside the new deed. *)
TargetOwn(c) == c.acc

Target(c) == IF c.pc = "successor" THEN c.prior ELSE c.acc

Contents(c) ==
    CASE c.pc = "cap" -> DeedFrame(c.draft)
      [] c.pc = "evidence" -> CreatedFrame(c.draft, c.stamp)
      [] c.pc = "host" -> HostFrame(c.draft, c.stamp)
      [] c.pc = "supersedes" -> LinkFrame(c.prior)
      [] c.pc = "successor" -> LinkFrame(c.acc)
      [] c.pc = "tomb" -> TombFrame
      [] OTHER -> StampFrame(c.pc, c.imprint)

(* The order in which create writes. *)
AfterHost(c) == IF c.prior # NoId THEN "link" ELSE "append"
AfterEvidence(c) == IF SigningKey \/ HostKey THEN "host" ELSE AfterHost(c)
NextPlace(c) ==
    CASE c.pc = "cap" -> "evidence"
      [] c.pc = "evidence" -> AfterEvidence(c)
      [] c.pc = "host" -> AfterHost(c)
      [] c.pc = "supersedes" -> "successor"
      [] c.pc = "successor" -> "append"
      [] OTHER -> "idle"

(* Mistaken: a temporary left behind by a crash is waited for. *)
StageExclusive(p) ==
    LET c == cmd[p] IN
    /\ c.pc \in Exts /\ ~c.staged
    /\ tmp[Target(c)] = NoFile
    /\ tmp' = [tmp EXCEPT ![Target(c)] = Contents(c)]
    /\ cmd' = [cmd EXCEPT ![p].staged = TRUE]
    /\ UNCHANGED <<shelf, bytes, log, clock>>

Stage(p) ==
    LET c == cmd[p] IN
    /\ c.pc \in Exts /\ ~c.staged
    /\ tmp' = [tmp EXCEPT ![Target(c)] = Contents(c)]
    /\ cmd' = [cmd EXCEPT ![p].staged = TRUE]
    /\ UNCHANGED <<shelf, bytes, log, clock>>

(* The temporary may hold what another command staged since, or be gone. *)
Publish(p) ==
    LET c == cmd[p]
        i == Target(c)
    IN  /\ c.pc \in Exts /\ c.staged
        /\ tmp[i] # NoFile
        /\ shelf' = [shelf EXCEPT ![i][c.pc] = tmp[i]]
        /\ tmp' = [tmp EXCEPT ![i] = NoFile]
        /\ IF NextPlace(c) = "idle"
           THEN Answer(p, IF c.pc = "tsq" /\ Authority THEN "timeout" ELSE "ok",
                       NoDeed)
           ELSE Goto(p, NextPlace(c))
        /\ UNCHANGED <<bytes, log, clock>>

PublishFails(p) ==
    LET c == cmd[p] IN
    /\ c.pc \in Exts /\ c.staged
    /\ tmp[Target(c)] = NoFile
    /\ Answer(p, "io", NoDeed)
    /\ UNCHANGED <<disk, clock>>

-----------------------------------------------------------------------------
(* create *)

CreateBegin(p, r) ==
    LET i == r.deed.id
        prior == r.supersedes
    IN  /\ At(p, "idle")
        /\ {i, prior} \ {NoId} \subseteq Reach[p]
        /\ ~Has(i, "tomb")
        /\ prior # NoId => /\ prior # i
                           /\ Has(prior, "cap")
                           /\ ~Has(prior, "successor")
        /\ Begin(p, [Idle("none", r.deed) EXCEPT
                        !.pc = "ingest", !.acc = i, !.prior = prior])
        /\ UNCHANGED <<disk, clock>>

(* Mistaken: the product stays where the caller had it. *)
IngestNothing(p) ==
    /\ At(p, "ingest")
    /\ Goto(p, "freeze")
    /\ UNCHANGED <<disk, clock>>

(* ingest_body: a body handed over is copied under a temporary only this call
   uses and renamed to its hash; one named by address is taken as named. *)
Ingest(p) ==
    LET b == cmd[p].draft.body IN
    /\ At(p, "ingest")
    /\ bytes' = IF b \in Addressed THEN bytes ELSE bytes \cup {b}
    /\ Goto(p, "freeze")
    /\ UNCHANGED <<shelf, tmp, log, clock>>

(* Mistaken: any deed of that accession counts as the same. *)
RepeatedById(c) == c.prior = NoId /\ Served(c.acc)

(* The store already serves this deed, field for field. *)
Repeated(c) ==
    /\ c.prior = NoId
    /\ Served(c.acc)
    /\ DeedAt(c.acc) = c.draft

AnswerAgain(p) ==
    /\ At(p, "freeze") /\ Repeated(cmd[p])
    /\ IF LoadsEvidence(cmd[p].acc)
       THEN Answer(p, "ok", cmd[p].draft)
       ELSE Answer(p, "evidence", NoDeed)
    /\ UNCHANGED <<disk, clock>>

RefuseFrozen(p) ==
    LET c == cmd[p] IN
    /\ At(p, "freeze") /\ ~Repeated(c)
    /\ Has(c.acc, "cap") \/ Has(c.acc, "tomb")
    /\ Answer(p, "frozen", NoDeed)
    /\ UNCHANGED <<disk, clock>>

(* Mistaken: nothing asks whether the accession is taken. *)
AdmitUnchecked(p) ==
    /\ At(p, "freeze")
    /\ cmd' = [cmd EXCEPT ![p].pc = "cap", ![p].stamp = clock]
    /\ UNCHANGED <<disk, clock>>

(* Mistaken: the log goes first. *)
AdmitLogged(p) ==
    LET c == cmd[p] IN
    /\ At(p, "freeze")
    /\ ~Has(c.acc, "cap") /\ ~Has(c.acc, "tomb")
    /\ log' = Append(log, Entry(c.draft, clock))
    /\ cmd' = [cmd EXCEPT ![p].pc = "cap", ![p].stamp = clock]
    /\ UNCHANGED <<shelf, tmp, bytes, clock>>

(* issue_evidence reads the clock before the first file is written. *)
Admit(p) ==
    LET c == cmd[p] IN
    /\ At(p, "freeze")
    /\ ~Has(c.acc, "cap") /\ ~Has(c.acc, "tomb")
    /\ cmd' = [cmd EXCEPT ![p].pc = "cap", ![p].stamp = clock]
    /\ UNCHANGED <<disk, clock>>

(* Mistaken: only the prior deed is told. *)
RecordSupersedesHalf(p) ==
    LET c == cmd[p] IN
    /\ At(p, "link")
    /\ IF ~Has(c.prior, "cap") THEN Answer(p, "notfound", NoDeed)
       ELSE IF Has(c.prior, "successor") THEN Answer(p, "frozen", NoDeed)
       ELSE Goto(p, "successor")
    /\ UNCHANGED <<disk, clock>>

(* record_supersedes looks at the prior deed again; by now the deed, its
   evidence and its sidecar are on the shelf. *)
RecordSupersedes(p) ==
    LET c == cmd[p] IN
    /\ At(p, "link")
    /\ IF ~Has(c.prior, "cap") THEN Answer(p, "notfound", NoDeed)
       ELSE IF Has(c.prior, "successor") THEN Answer(p, "frozen", NoDeed)
       ELSE Goto(p, "supersedes")
    /\ UNCHANGED <<disk, clock>>

(* Mistaken: the log is opened for writing and not for appending. *)
AppendLogTruncating(d, t) == log' = <<Entry(d, t)>>

(* append_log holds the file's lock for the one write, so a line is whole. *)
AppendLog(d, t) == log' = Append(log, Entry(d, t))

LogDeed(p) ==
    LET c == cmd[p] IN
    /\ At(p, "append")
    /\ AppendLog(c.draft, c.stamp)
    /\ Answer(p, "ok", c.draft)
    /\ UNCHANGED <<shelf, tmp, bytes, clock>>

-----------------------------------------------------------------------------
(* delete, timestamp, log backfill *)

Delete(p, i) ==
    /\ At(p, "idle") /\ i \in Reach[p] \cap Deletable
    /\ ~Has(i, "tomb") /\ Has(i, "cap")
    /\ Begin(p, [Idle("none", NoDeed) EXCEPT !.pc = "tomb", !.acc = i])
    /\ UNCHANGED <<disk, clock>>

(* Mistaken: the query covers the deed file. *)
TimestampOfDeed(p, i, ext) ==
    /\ At(p, "idle") /\ i \in Reach[p] \cap Stampable
    /\ ext = "tsq" \/ Authority
    /\ Served(i) /\ Has(i, "evidence")
    /\ Begin(p, [Idle("none", NoDeed) EXCEPT
                    !.pc = ext, !.acc = i, !.imprint = Imprint(shelf[i]["cap"])])
    /\ UNCHANGED <<disk, clock>>

(* timestamp, which leave also ends in: the evidence file is read, then the
   authority is asked, then its reply is written, or the query for a later try
   where the authority timed out or there is none.  Any other answer of the
   authority ends the command: Stop.  The store does not look into a reply; it
   is taken to cover the query's imprint. *)
Timestamp(p, i, ext) ==
    /\ At(p, "idle") /\ i \in Reach[p] \cap Stampable
    /\ ext = "tsq" \/ Authority
    /\ Served(i) /\ Has(i, "evidence")
    /\ Begin(p, [Idle("none", NoDeed) EXCEPT
                    !.pc = ext, !.acc = i, !.imprint = Imprint(shelf[i]["evidence"])])
    /\ UNCHANGED <<disk, clock>>

(* log_backfill takes its list from one audit... *)
Backfill(p) ==
    /\ At(p, "idle") /\ Unlogged # {}
    /\ Begin(p, [Idle("none", NoDeed) EXCEPT
                    !.pc = "backfill", !.todo = Unlogged])
    /\ UNCHANGED <<disk, clock>>

(* Mistaken: a deed without evidence is logged at time 0. *)
BackfillReadUntimed(p) ==
    /\ At(p, "backfill")
    /\ \E i \in cmd[p].todo :
        /\ \A j \in cmd[p].todo : i <= j
        /\ Served(i)
        /\ cmd' = [cmd EXCEPT
                ![p].pc = "refill", ![p].acc = i, ![p].draft = DeedAt(i),
                ![p].stamp = IF EvidencePasses(i)
                             THEN shelf[i]["evidence"].time ELSE 0]
    /\ UNCHANGED <<disk, clock>>

(* ...then reads each deed again, takes its time from evidence that passes,
   or else from the clock... *)
BackfillRead(p) ==
    /\ At(p, "backfill")
    /\ \E i \in cmd[p].todo :
        /\ \A j \in cmd[p].todo : i <= j
        /\ IF Served(i)
           THEN cmd' = [cmd EXCEPT
                    ![p].pc = "refill", ![p].acc = i, ![p].draft = DeedAt(i),
                    ![p].stamp = IF EvidencePasses(i)
                                 THEN shelf[i]["evidence"].time ELSE clock]
           ELSE Answer(p, "notfound", NoDeed)
    /\ UNCHANGED <<disk, clock>>

(* Mistaken: the loop ends with its first deed. *)
BackfillLogFirst(p) ==
    /\ At(p, "refill")
    /\ AppendLog(cmd[p].draft, cmd[p].stamp)
    /\ Answer(p, "ok", NoDeed)
    /\ UNCHANGED <<shelf, tmp, bytes, clock>>

(* ...and appends it, without asking whether it was logged meanwhile. *)
BackfillLog(p) ==
    LET c == cmd[p]
        rest == c.todo \ {c.acc}
    IN  /\ At(p, "refill")
        /\ AppendLog(c.draft, c.stamp)
        /\ IF rest = {}
           THEN Answer(p, "ok", NoDeed)
           ELSE Begin(p, [Idle("none", NoDeed) EXCEPT
                             !.pc = "backfill", !.todo = rest])
        /\ UNCHANGED <<shelf, tmp, bytes, clock>>

-----------------------------------------------------------------------------
(* A crash, an I/O error or a draft that does not validate: the command ends
   where it is, and what it wrote stays. *)
Stop(p) ==
    /\ ~At(p, "idle")
    /\ Answer(p, "stopped", NoDeed)
    /\ UNCHANGED <<disk, clock>>

Tick ==
    /\ clock < MaxTime
    /\ clock' = clock + 1
    /\ UNCHANGED <<disk, cmd>>

Init ==
    /\ shelf = [i \in Ids |-> [x \in Exts |-> NoFile]]
    /\ tmp = [i \in Ids |-> NoFile]
    /\ bytes = {}
    /\ log = <<>>
    /\ clock = 1
    /\ cmd = [p \in Procs |-> Idle("none", NoDeed)]

(* The next file operation of a command under way. *)
Step(p) ==
    \/ Ingest(p) \/ AnswerAgain(p) \/ RefuseFrozen(p) \/ Admit(p)
    \/ Stage(p) \/ Publish(p) \/ PublishFails(p)
    \/ RecordSupersedes(p) \/ LogDeed(p)
    \/ BackfillRead(p) \/ BackfillLog(p)

Start(p) ==
    \/ \E r \in Requests : CreateBegin(p, r)
    \/ \E i \in Ids : Delete(p, i)
    \/ \E i \in Ids, ext \in StampExts : Timestamp(p, i, ext)
    \/ Backfill(p)

Next ==
    \/ \E p \in Procs : Start(p) \/ Step(p) \/ Stop(p)
    \/ Tick

(* A command runs in the foreground of its process, so one that is not
   stopped makes its next file operation. *)
Fairness == \A p \in Procs : WF_vars(Step(p))

Spec == Init /\ [][Next]_vars
FairSpec == Spec /\ Fairness

-----------------------------------------------------------------------------
(* Types. *)

Commands ==
    [pc : Places, acc : Ids \cup {NoId}, draft : Deed \cup {NoDeed},
     prior : Ids \cup {NoId}, stamp : {0} \cup Time,
     imprint : Imprints \cup {NoFile}, todo : SUBSET Ids, staged : BOOLEAN,
     outcome : Outcomes]

(* Every file holds one of the frames the code writes, under whatever name it
   ended up; the log holds entries; a command is at one of its places. *)
TypeOK ==
    /\ shelf \in [Ids -> [Exts -> Files \cup {NoFile}]]
    /\ tmp \in [Ids -> Files \cup {NoFile}]
    /\ bytes \in SUBSET Bodies
    /\ log \in Seq(Entries)
    /\ clock \in Time
    /\ cmd \in [Procs -> Commands]

-----------------------------------------------------------------------------
(* What holds however commands interleave and wherever they stop. *)

(* fs.rs, create: "The log goes last, so an entry never names a deed the store
   failed to write."  Every accession in the log has a deed file. *)
LogNamesWritten == \A k \in 1..Len(log) : Has(log[k].id, "cap")

(* create copies product bytes onto the shelf before it writes the deed that
   names them: a deed file never names handed-over bytes the store lacks,
   also when the deed file is what another create staged. *)
BytesBeforeDeed ==
    \A i \in Ids :
        /\ shelf[i]["cap"].frame = "deed"
        /\ shelf[i]["cap"].deed.body \notin Addressed
        => shelf[i]["cap"].deed.body \in bytes

(* Sidecars of one accession share a temporary name, so atomic_write can
   publish what another command staged.  The mix-up stays within the
   accession: no file about one deed lands under another, and no supersede
   link names the deed it is a sidecar of. *)
About(f, i) ==
    /\ f.frame \in {"deed", "created", "ed25519", "hmac"} => f.deed.id = i
    /\ f.frame = "link" => f.id # i

MixupStaysWithinAccession ==
    \A i \in Ids : About(tmp[i], i) /\ \A x \in Exts : About(shelf[i][x], i)

(* A command that is not stopped ends: no command waits on another. *)
CommandsEnd == \A p \in Procs : ~At(p, "idle") ~> At(p, "idle")

-----------------------------------------------------------------------------
(* What holds while no accession is worked on by two processes. *)

Exclusive == \A p, q \in Procs : p # q => Reach[p] \cap Reach[q] = {}

(* The store implements DeedRegistry: whatever file operations interleave or
   are cut short, readers see deeds frozen once, evidence issued once and after
   its deed, a successor recorded once and only for deeds that are there, and a
   log that only grows by entries naming frozen deeds by their own digest. *)
Registry == INSTANCE DeedRegistry WITH
    Deeds <- Deed,
    Times <- Time,
    frozen <- [i \in Ids |-> IF shelf[i]["cap"].frame = "deed"
                             THEN shelf[i]["cap"].deed ELSE NoDeed],
    issued <- [i \in Ids |-> IF shelf[i]["evidence"].frame = "created"
                             THEN shelf[i]["evidence"].time ELSE 0],
    successor <- [i \in Ids |-> IF shelf[i]["successor"].frame = "link"
                                THEN shelf[i]["successor"].id ELSE NoId],
    buried <- {i \in Ids : Has(i, "tomb")},
    entries <- log

ImplementsRegistry == Registry!Spec

(* README: "A deed is never edited." *)
DeedNeverEdited ==
    [][\A i \in Ids : Has(i, "cap") => shelf'[i]["cap"] = shelf[i]["cap"]]_vars

(* Evidence, attestation and supersede links are written once as well. *)
RecordNeverEdited ==
    [][\A i \in Ids, x \in {"evidence", "host", "supersedes", "successor"} :
          Has(i, x) => shelf'[i][x] = shelf[i][x]]_vars

(* A stopped command never makes log_audit report tampering: a deed logged and
   not served as logged is one somebody deleted. *)
AuditFindsOnlyTombs == \A i \in Missing : Has(i, "tomb")

(* record_supersedes writes the new deed's side first, so a deed that says it
   was superseded is always confirmed by the deed it names. *)
LinkedBothWays ==
    \A i \in Ids :
        Has(i, "successor") =>
            \E j \in Ids \ {i} : /\ shelf[i]["successor"] = LinkFrame(j)
                                 /\ shelf[j]["supersedes"] = LinkFrame(i)
                                 /\ shelf[j]["cap"].frame = "deed"

(* create refuses a prior deed that is not there and a new one that is, so
   supersede links it records never close a cycle for `current` to report. *)
SupersedesAcyclic ==
    ~\E S \in (SUBSET Ids) \ {{}} :
        \A i \in S : \E j \in S : shelf[i]["supersedes"] = LinkFrame(j)

(* A deed create answered with is the one on the shelf under its accession,
   with evidence that loads, for as long as nothing else is answered. *)
AnswerHolds ==
    \A p \in Procs :
        /\ At(p, "idle") /\ cmd[p].outcome = "ok" /\ cmd[p].draft # NoDeed
        => LET d == cmd[p].draft
           IN  shelf[d.id]["cap"] = DeedFrame(d) /\ LoadsEvidence(d.id)

(* timestamp reads the evidence, waits on the authority and then writes: the
   query or reply on the shelf is over the evidence beside it. *)
TimestampCoversEvidence ==
    \A i \in Ids, x \in StampExts :
        Has(i, x) => shelf[i][x] = StampFrame(x, shelf[i]["evidence"])

-----------------------------------------------------------------------------
(* What holds while one process at a time runs commands. *)

(* No accession is logged twice, whatever is stopped and backfilled. *)
LoggedOnce ==
    \A k, l \in 1..Len(log) : log[k].id = log[l].id => k = l

(* fs.rs, Audit: "Nothing lost and something never logged: backfilling is the
   answer."  A backfill that answers ok leaves nothing served and unlogged. *)
BackfillSettles ==
    [][\A p \in Procs :
          At(p, "refill") /\ cmd'[p].outcome = "ok" => Unlogged' = {}]_vars

-----------------------------------------------------------------------------
(* What the repository's comments and docs say, and a run refutes. *)

(* fs.rs, create: asked again for a deed the store already serves, field for
   field, "it answers with that deed and its evidence [...] so a rerun of the
   same command succeeds". *)
RerunSucceeds == \A p \in Procs : cmd[p].outcome # "evidence"

=============================================================================
