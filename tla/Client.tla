------------------------------- MODULE Client -------------------------------
(***************************************************************************)
(* A client, the store it calls, and the frames between them and on disk.  *)
(* Client::create and its siblings write a request, FsStore::handle reads  *)
(* it, acts and writes a response, and the client reads that.  The store   *)
(* keeps a deed and its evidence as response frames, so what a later call  *)
(* acts on is what an earlier one wrote.  Nothing is synced to the disk: a *)
(* power loss may leave a file cut short.                                  *)
(*                                                                         *)
(* The steps of a create and other processes beside it are DeedStore's; a  *)
(* call is here one step of the store.  `current` answers as a get of some *)
(* deed, or none: its walk is CurrentWalk's.                               *)
(***************************************************************************)
EXTENDS WireFormat, FiniteSets

CONSTANTS
    Asks,        \* requests a client may make, as [op, of]
    Local,       \* Local[path]: content of a file outside of the store
    Times,       \* seconds of the clock
    MaxDeeds,    \* bound on deeds frozen
    Lengths,     \* what a power loss may leave of a file, in cells
    MaxLosses    \* bound on power losses

VARIABLES
    call,        \* the call under way: at, sent, frame, meant, said, heard
    shelf,       \* deeds/: name of a file to the frame in it
    tombs,       \* accessions deleted
    superseded,  \* accessions with a successor sidecar
    frozen,      \* what was frozen: accession to deed, evidence, create
    cut          \* names of the files a power loss cut short

vars == <<call, shelf, tombs, superseded, frozen, cut>>

Cap(id) == <<"cap", id>>
EvidenceOf(id) == <<"evidence", id>>
OnShelf(name) == name \in DOMAIN shelf

Say(op, of) == [op |-> op, of |-> of]
Err(class, text) == Say("err", [class |-> class, text |-> text])
Failed(response) == response.op = "err"
IfAnswered(response, F(_)) == IF Failed(response) THEN response ELSE F(response)

(* deed::Error: the words its text begins with, one character for each. *)
Classes == << "InvalidId", "InvalidKind", "InvalidUrl", "InvalidMessageId",
              "InvalidBody", "NotFound", "Frozen", "Tombstoned", "Evidence",
              "Io", "Decode" >>
Words(class) == 60 + SelectInSeq(Classes, LAMBDA c : c = class)
Shown(error) == <<Words(error.class)>> \o error.text

(* Mutant of MapErr: the classes from Tombstoned on are not told apart. *)
MapErrWithoutTombs(text) ==
    IF text # <<>> /\ text[1] - 60 \in 1..7
    THEN [class |-> Classes[text[1] - 60], text |-> Tail(text)]
    ELSE [class |-> "Io", text |-> text]

(* map_err: the class by the words in front, Io for words it has not met. *)
MapErr(text) ==
    IF text # <<>> /\ text[1] - 60 \in DOMAIN Classes
    THEN [class |-> Classes[text[1] - 60], text |-> Tail(text)]
    ELSE [class |-> "Io", text |-> text]

-----------------------------------------------------------------------------
(* FsStore::get; the frame has to hold a deed, and this one. *)
DeedIn(got, id) ==
    IF got.ok /\ got.value.op = "deed" /\ got.value.of.deed.id = id
    THEN got.value ELSE Err("Decode", id)

Get(id) ==
    IF id \in tombs THEN Err("Tombstoned", id)
    ELSE IF ~OnShelf(Cap(id)) THEN Err("NotFound", id)
    ELSE DeedIn(DecodeResponse(shelf[Cap(id)]), id)

EvidenceIn(got, id) ==
    IF got.ok /\ got.value.op = "created"
    THEN Say("evidence", [evidence |-> got.value.of.evidence]) ELSE Err("Decode", id)

LoadEvidence(id) ==
    IF ~OnShelf(EvidenceOf(id)) THEN Err("Evidence", id)
    ELSE EvidenceIn(DecodeResponse(shelf[EvidenceOf(id)]), id)

(* read_deeds: one damaged file is passed over. *)
List ==
    LET ids == SetToSeq({name[2] : name \in {n \in DOMAIN shelf : n[1] = "cap"}})
        served == SelectSeq(ids, LAMBDA id : ~Failed(Get(id)))
    IN Say("deeds", [deeds |-> [i \in DOMAIN served |-> Get(served[i]).of.deed]])

(* walk_trail: sources that are deeds, the last pushed first. *)
DeedSources(d) ==
    LET deeds == SelectSeq(d.sources, LAMBDA s : s.tag = "deed")
    IN [i \in DOMAIN deeds |-> deeds[i].text]

RECURSIVE WalkTrail(_, _)
WalkTrail(out, stack) ==
    IF stack = <<>> THEN Say("deeds", [deeds |-> out])
    ELSE LET id == Last(stack) IN
         IF \E i \in DOMAIN out : out[i].id = id THEN WalkTrail(out, Front(stack))
         ELSE IfAnswered(Get(id),
                         LAMBDA next : WalkTrail(Append(out, next.of.deed),
                                                 Front(stack) \o DeedSources(next.of.deed)))

Trail(id) ==
    IfAnswered(Get(id),
               LAMBDA start : WalkTrail(<<start.of.deed>>, DeedSources(start.of.deed)))

(* evidence: that of the tip, when each deed of its trail has some. *)
EvidenceFor(id) ==
    LET Missing(deeds) == SelectSeq(deeds, LAMBDA d : Failed(LoadEvidence(d.id)))
        First(missing) == IF missing = <<>> THEN id ELSE missing[1].id
    IN IfAnswered(Trail(id), LAMBDA trail : LoadEvidence(First(Missing(trail.of.deeds))))

Timestamp(id) ==
    IfAnswered(Get(id),
               LAMBDA got : IF OnShelf(EvidenceOf(id)) THEN Say("ok", <<>>)
                            ELSE Err("Evidence", id))

Leave(id) ==
    IfAnswered(Get(id),
               LAMBDA got : IF got.of.deed.kind \notin {"file", "set", "clip"}
                            THEN Err("InvalidBody", <<KindToken(got.of.deed.kind)>>)
                            ELSE Timestamp(id))

Delete(id) ==
    IF id \in tombs THEN Err("Tombstoned", id)
    ELSE IF ~OnShelf(Cap(id)) THEN Err("NotFound", id)
    ELSE Say("ok", <<>>)

-----------------------------------------------------------------------------
(* ingest_body: a product file becomes the address of its content. *)
Ingested(body) ==
    LET Step(got, path) ==
            IF ~got.ok \/ path = <<>> THEN got
            ELSE IF IsAddress(path)
            THEN IF IsWriteOnce(path) THEN got ELSE Refused("InvalidBody", path)
            ELSE IF path \notin DOMAIN Local THEN Refused("Io", path)
            ELSE [got EXCEPT !.body = RewritePath(@, path, <<Sha256, Local[path]>>)]
    IN FoldLeft(Step, [ok |-> TRUE, body |-> body], Paths(body))

DraftOf(c, body) ==
    [id |-> c.id, name |-> c.name, sources |-> c.sources, agent_id |-> c.agent_id,
     activity_id |-> c.activity_id, grants |-> c.grants, body |-> body]

(* What create refuses before it looks at the body. *)
Barred(c) ==
    IF c.id # None /\ c.id[1] \in tombs THEN Some(Err("Frozen", c.id[1]))
    ELSE IF c.supersedes = None THEN None
    ELSE IF c.id = c.supersedes THEN Some(Err("InvalidBody", <<Lower>>))
    ELSE IF ~OnShelf(Cap(c.supersedes[1])) THEN Some(Err("NotFound", c.supersedes[1]))
    ELSE IF c.supersedes[1] \in superseded THEN Some(Err("Frozen", c.supersedes[1]))
    ELSE None

(* A deed the store serves already, field for field, is answered again. *)
Again(c, deed) ==
    /\ OnShelf(Cap(deed.id)) /\ c.supersedes = None
    /\ Get(deed.id) = Say("deed", [deed |-> deed])

EvidenceAt(deed, time) ==
    [deed_id |-> deed.id, produced_by |-> deed.produced_by, grants |-> deed.grants,
     unix_time |-> time, signature |-> <<Lower, Upper>>]

(* FsStore::create: what it answers, and whether it freezes the deed. *)
Only(response) == [say |-> response, freeze |-> FALSE]

CreateDeed(c, deed, time) ==
    IF Again(c, deed)
    THEN Only(IfAnswered(LoadEvidence(deed.id),
                         LAMBDA kept : Say("created", [deed |-> deed, evidence |-> kept.of.evidence])))
    ELSE IF OnShelf(Cap(deed.id)) \/ deed.id \in tombs
    THEN Only(Err("Frozen", deed.id))
    ELSE [say |-> Say("created", [deed |-> deed, evidence |-> EvidenceAt(deed, time)]),
          freeze |-> TRUE]

CreateDraft(c, made, time) ==
    IF made.ok THEN CreateDeed(c, made.deed, time) ELSE Only(Err(made.class, made.text))

Create(c, time) ==
    IF Barred(c) # None THEN Only(Barred(c)[1])
    ELSE CreateDraft(c, Then(Ingested(c.body), LAMBDA got : FromDraft(DraftOf(c, got.body))), time)

-----------------------------------------------------------------------------
Idle == [at |-> "idle"]

Init ==
    /\ call = Idle
    /\ shelf = [none \in {} |-> none]
    /\ tombs = {} /\ superseded = {} /\ cut = {}
    /\ frozen = [none \in {} |-> none]

(* The client's half of a call: encode_request. *)
Ask(r) ==
    /\ call = Idle
    /\ call' = [at |-> "asked", sent |-> r, frame |-> EncodeRequest(r)]
    /\ UNCHANGED <<shelf, tombs, superseded, frozen, cut>>

Frame(response) ==
    EncodeResponse(IF Failed(response) THEN Say("err", [text |-> Shown(response.of)])
                   ELSE response)

(* What the frame that was sent reads as: a request, or nothing. *)
Arrived ==
    IF call.at # "asked" THEN {}
    ELSE {got.value : got \in {g \in {DecodeRequest(call.frame)} : g.ok}}

Answer(r, response) ==
    call' = [at |-> "answered", sent |-> call.sent, meant |-> r,
             said |-> response, frame |-> Frame(response)]

(* The two files of a frozen deed, and what remembers it. *)
Keep(c, response) ==
    LET deed == response.of.deed IN
    /\ Cardinality(DOMAIN frozen) < MaxDeeds
    /\ shelf' = (Cap(deed.id) :> EncodeResponse(Say("deed", [deed |-> deed])))
                 @@ (EvidenceOf(deed.id) :> EncodeResponse(response)) @@ shelf
    /\ superseded' = superseded \cup ToSet(c.supersedes)
    /\ frozen' = (deed.id :> [made |-> response.of, by |-> c]) @@ frozen

(* FsStore::handle, by request. *)
HandleCreate ==
    /\ \E r \in Arrived :
        /\ r.op = "create"
        /\ \E outcome \in {Create(r.of, time) : time \in Times} :
            /\ Answer(r, outcome.say)
            /\ IF outcome.freeze THEN Keep(r.of, outcome.say)
               ELSE UNCHANGED <<shelf, superseded, frozen>>
    /\ UNCHANGED <<tombs, cut>>

HandleDelete ==
    /\ \E r \in Arrived :
        /\ r.op = "delete"
        /\ Answer(r, Delete(r.of.id))
        /\ tombs' = IF Failed(Delete(r.of.id)) THEN tombs ELSE tombs \cup {r.of.id}
    /\ UNCHANGED <<shelf, superseded, frozen, cut>>

(* current: the get of the deed its walk ends on, or a fork or a cycle. *)
Walks(id) ==
    {Get(tip) : tip \in DOMAIN frozen \cup {id}} \cup {Err("InvalidBody", id)}

(* evidence_local also looks at the product files, the signature and the   *)
(* host's word, which are not here and may refuse any deed; a record that  *)
(* reads is of its deed, as Keep writes both.                              *)
Evidences(id) == {EvidenceFor(id), Err("Evidence", id)}

Readings(r) ==
    CASE r.op = "get" -> {Get(r.of.id)}
      [] r.op = "list" -> {List}
      [] r.op = "trail" -> {Trail(r.of.id)}
      [] r.op = "evidence" -> Evidences(r.of.id)
      [] r.op = "leave" -> {Leave(r.of.id), Err("Io", <<Lower>>)}
      [] r.op = "timestamp" -> {Timestamp(r.of.id), Err("Io", <<Lower>>)}
      [] r.op = "current" -> Walks(r.of.id)

HandleRead ==
    /\ \E r \in Arrived :
        /\ r.op \notin {"create", "delete"}
        /\ \E response \in Readings(r) : Answer(r, response)
    /\ UNCHANGED <<shelf, tombs, superseded, frozen, cut>>

(* A request that does not read is an error of the call, not a response. *)
HandleMalformed ==
    /\ call.at = "asked" /\ Arrived = {}
    /\ call' = [at |-> "malformed", sent |-> call.sent]
    /\ UNCHANGED <<shelf, tombs, superseded, frozen, cut>>

(* Which response each of Client's functions takes for an answer. *)
Expected(op) ==
    CASE op = "create" -> "created"
      [] op \in {"get", "current"} -> "deed"
      [] op \in {"list", "trail"} -> "deeds"
      [] op \in {"delete", "leave", "timestamp"} -> "ok"
      [] op = "evidence" -> "evidence"

Heard(r, bytes) ==
    LET got == DecodeResponse(bytes) IN
    IF got.ok /\ got.value.op = Expected(r.op) THEN got.value
    ELSE IF got.ok /\ got.value.op = "err" THEN Say("err", MapErr(got.value.of.text))
    ELSE Err("Decode", <<>>)

Hear ==
    /\ call.at = "answered"
    /\ call' = [at |-> "heard", sent |-> call.sent, said |-> call.said,
                heard |-> Heard(call.sent, call.frame)]
    /\ UNCHANGED <<shelf, tombs, superseded, frozen, cut>>

Return ==
    /\ call.at \in {"heard", "malformed"}
    /\ call' = Idle
    /\ UNCHANGED <<shelf, tombs, superseded, frozen, cut>>

(* atomic_write renames what it has not synced. *)
PowerLoss ==
    /\ call = Idle
    /\ Cardinality(cut) < MaxLosses
    /\ \E name \in DOMAIN shelf \ cut :
       \E length \in {n \in Lengths : n < Len(shelf[name])} :
          /\ shelf' = [shelf EXCEPT ![name] = SubSeq(@, 1, length)]
          /\ cut' = cut \cup {name}
    /\ UNCHANGED <<call, tombs, superseded, frozen>>

Next ==
    \/ \E r \in Asks : Ask(r)
    \/ HandleCreate \/ HandleDelete \/ HandleRead \/ HandleMalformed
    \/ Hear \/ Return
    \/ PowerLoss

Spec == Init /\ [][Next]_vars

-----------------------------------------------------------------------------
CarriedRequest(r) ==
    LET row == CHOOSE row \in ToSet(Requests) : row[1] = r.op
    IN [r EXCEPT !.of = Carried(row[2], @)]

(* Source::Url is open to any text; every other value is checked when made. *)
Sendable(r) ==
    r.op = "create" => \A s \in ToSet(r.of.sources) : s.tag = "url" => IsUrl(s.text)

(* A call arrives as it was made and is heard as it was answered: the      *)
(* store acts on the request the client sent, in the form the wire can     *)
(* carry, and the client gets the value the store answered or an error of  *)
(* the same class and text (client and store share no memory but frames:   *)
(* lib.rs, wire.rs, map_err).                                              *)
CallsArrive ==
    /\ call.at = "answered" => call.meant = CarriedRequest(call.sent)
    /\ call.at = "heard" => call.heard = call.said
    /\ call.at = "malformed" => ~Sendable(call.sent)

(* A frozen deed reads back as it was made, field for field, from its file *)
(* and from its bare bytes; so does its evidence; and the create that made *)
(* it is answered with both again (fs.rs, create: "a rerun of the same     *)
(* command succeeds"), unless it superseded: a rerun of that is refused.   *)
(* The files stand still during a call, so it is looked at between calls.  *)
FrozenReadsBack ==
    call = Idle => \A id \in DOMAIN frozen :
        LET made == frozen[id].made
            again == Create(frozen[id].by, 0)
            capWhole == Cap(id) \notin cut
            evidenceWhole == EvidenceOf(id) \notin cut
        IN /\ DeedFromBytes(PutDeed(made.deed)) = Got(made.deed, <<>>)
           /\ capWhole /\ id \notin tombs => Get(id) = Say("deed", [deed |-> made.deed])
           /\ evidenceWhole => LoadEvidence(id) = Say("evidence", [evidence |-> made.evidence])
           /\ /\ capWhole /\ evidenceWhole /\ id \notin tombs
              /\ frozen[id].by.supersedes = None
              => again = [say |-> Say("created", made), freeze |-> FALSE]

(* Bytes cut short never pass for what they were cut from: no file a power *)
(* loss shortened reads as a deed or as evidence, and no beginning of a    *)
(* request or a response reads as one (wire.rs, unwrap: "truncated").      *)
TornNeverReads ==
    /\ \A id \in DOMAIN frozen :
        /\ Cap(id) \in cut => Failed(Get(id))
        /\ EvidenceOf(id) \in cut => Failed(LoadEvidence(id))
    /\ call.at = "asked" =>
        \A length \in 0..(Len(call.frame) - 1) :
            ~DecodeRequest(SubSeq(call.frame, 1, length)).ok
    /\ call.at = "answered" =>
        \A length \in 0..(Len(call.frame) - 1) :
            ~DecodeResponse(SubSeq(call.frame, 1, length)).ok
=============================================================================
