----------------------------- MODULE WireFormat -----------------------------
(***************************************************************************)
(* The frames of wire.rs: requests, responses, the files a store keeps     *)
(* (FILE.cap and FILE.evidence are responses) and the bare bytes of a deed *)
(* its digest is over.                                                     *)
(*                                                                         *)
(* A frame is a sequence of cells.  A length, an integer, a float, a tag   *)
(* and a character of a text are one cell each: a file cut inside one of   *)
(* them is one cut before it to every reader, which asks for all of its    *)
(* bytes.  What is written is spelled out value by value below; what is    *)
(* read is given by layouts, so that the two sides are stated apart as     *)
(* they are in the code.  Lengths stay below 2^32.                         *)
(***************************************************************************)
EXTENDS DeedRecord

(* Path::to_string_lossy. *)
Lossy(path) ==
    [i \in DOMAIN path |-> IF path[i] = Odd THEN Replacement ELSE path[i]]

-----------------------------------------------------------------------------
(* Writing. *)
PutStr(text) == <<Len(text)>> \o text
PutPath(path) == PutStr(Lossy(path))
PutOption(option) == PutStr(IF option = None THEN <<>> ELSE option[1])
PutAll(list, Put(_)) ==
    <<Len(list)>> \o FlattenSeq([i \in DOMAIN list |-> Put(list[i])])

PutSource(s) ==
    CASE s.tag = "deed" -> <<0>> \o PutStr(s.text)
      [] s.tag = "path" -> <<1>> \o PutPath(s.text)
      [] s.tag = "url" -> <<2>> \o PutStr(s.text)
(* Mutant of PutGrant: the two tags trade places. *)
PutGrantTagsSwapped(g) ==
    CASE g.tag = "path" -> <<0>> \o PutPath(g.text)
      [] g.tag = "host" -> <<1>> \o PutStr(g.text)
PutGrant(g) ==
    CASE g.tag = "host" -> <<0>> \o PutStr(g.text)
      [] g.tag = "path" -> <<1>> \o PutPath(g.text)
PutProduced(p) == PutStr(p.agent_id) \o PutOption(p.activity_id)
PutKind(kind) == <<SelectInSeq(Kinds, LAMBDA k : k = kind) - 1>>
PutFace(face) == <<SelectInSeq(Faces, LAMBDA f : f = face) - 1>>
PutPair(p) == PutStr(p.name) \o PutStr(p.value)
PutStep(s) == PutStr(s.text) \o <<IF s.done THEN 1 ELSE 0>>

PutBody(b) ==
    CASE b.kind = "file" -> <<0>> \o PutPath(b.path) \o PutOption(b.media_type)
      [] b.kind = "set" -> <<1>> \o PutStr(b.title) \o PutAll(b.members, PutPath)
      [] b.kind = "quote" ->
            <<2>> \o PutStr(b.edition) \o <<b.start, b.end>>
                  \o PutStr(b.excerpt) \o PutAll(b.urls, PutStr)
      [] b.kind = "patch" ->
            <<3>> \o PutStr(b.tree) \o PutAll(b.diffs, PutPath)
                  \o PutAll(b.functionaries, PutStr)
      [] b.kind = "mailDraft" ->
            <<4>> \o PutStr(b.message_id) \o PutOption(b.in_reply_to)
                  \o PutStr(b.subject) \o PutPath(b.path)
      [] b.kind = "clip" ->
            <<5>> \o PutAll(b.sources, PutPath)
                  \o <<b.in_point, b.out_point, b.duration>> \o PutPath(b.path)
      [] b.kind = "page" -> <<6>> \o PutStr(b.url) \o PutPath(b.snapshot)
      [] b.kind = "form" ->
            <<7>> \o PutStr(b.blank) \o PutAll(b.fields, PutPair) \o PutPath(b.path)
      [] b.kind = "table" -> <<8>> \o PutAll(b.measures, PutPair)
      [] b.kind = "procedure" -> <<9>> \o PutAll(b.steps, PutStep)
      [] b.kind = "event" ->
            <<10>> \o PutStr(b.when) \o PutStr(b.where_) \o PutStr(b.who)

(* put_deed: also deed_bytes, what a digest and a signature cover. *)
PutDeed(d) ==
    PutStr(d.id) \o PutKind(d.kind) \o PutStr(d.name) \o PutAll(d.paths, PutPath)
    \o PutAll(d.sources, PutSource) \o PutProduced(d.produced_by)
    \o PutAll(d.grants, PutGrant) \o PutFace(d.face) \o PutBody(d.body)

PutEvidence(ev) ==
    PutStr(ev.deed_id) \o PutProduced(ev.produced_by)
    \o PutAll(ev.grants, PutGrant) \o <<ev.unix_time>> \o PutStr(ev.signature)

PutCreate(c) ==
    PutOption(c.id) \o PutStr(c.name) \o PutAll(c.sources, PutSource)
    \o PutStr(c.agent_id) \o PutOption(c.activity_id)
    \o PutAll(c.grants, PutGrant) \o PutBody(c.body) \o PutOption(c.supersedes)

-----------------------------------------------------------------------------
(* Reading: what a layout says lies next, and where the rest begins. *)
Malformed == [ok |-> FALSE]
Got(value, rest) == [ok |-> TRUE, value |-> value, rest |-> rest]
Then(got, F(_)) == IF got.ok THEN F(got) ELSE got
Checked(got, Fits(_)) == IF got.ok /\ ~Fits(got.value) THEN Malformed ELSE got
Mapped(got, F(_)) == IF got.ok THEN Got(F(got.value), got.rest) ELSE got
Whole(got) == IF got.ok /\ got.rest # <<>> THEN Malformed ELSE got

TakeCell(p) == IF p = <<>> THEN Malformed ELSE Got(Head(p), Tail(p))

TakeStr(p) ==
    IF p = <<>> \/ Len(p) < 1 + p[1] THEN Malformed
    ELSE Got(SubSeq(p, 2, 1 + p[1]), SubSeq(p, 2 + p[1], Len(p)))

Text == [is |-> "text"]
Cell == [is |-> "cell"]
Flag == [is |-> "flag"]
Id == [is |-> "id"]
Mail == [is |-> "mail"]
Optional(item) == [is |-> "optional", item |-> item]
IfMore(item) == [is |-> "ifMore", item |-> item]
OneOf(names) == [is |-> "oneOf", names |-> names]
Many(item) == [is |-> "many", item |-> item]
Fields(fields) == [is |-> "fields", fields |-> fields]
Tagged(layouts) == [is |-> "tagged", layouts |-> layouts]

SourceLayout == Tagged(<< <<"deed", Id>>, <<"path", Text>>, <<"url", [is |-> "url"]>> >>)
GrantLayout == Tagged(<< <<"host", Text>>, <<"path", Text>> >>)
ProducedLayout == Fields(<< <<"agent_id", Text>>, <<"activity_id", Optional(Text)>> >>)
KindLayout == OneOf(Kinds)
FaceLayout == OneOf(Faces)
PairLayout == Fields(<< <<"name", Text>>, <<"value", Text>> >>)
StepLayout == Fields(<< <<"text", Text>>, <<"done", Flag>> >>)

(* take_body, one row per tag. *)
BodyLayout == <<
    << <<"path", Text>>, <<"media_type", Optional(Text)>> >>,
    << <<"title", Text>>, <<"members", Many(Text)>> >>,
    << <<"edition", Text>>, <<"start", Cell>>, <<"end", Cell>>,
       <<"excerpt", Text>>, <<"urls", Many(Text)>> >>,
    << <<"tree", Text>>, <<"diffs", Many(Text)>>, <<"functionaries", Many(Text)>> >>,
    << <<"message_id", Mail>>, <<"in_reply_to", Optional(Mail)>>,
       <<"subject", Text>>, <<"path", Text>> >>,
    << <<"sources", Many(Text)>>, <<"in_point", Cell>>, <<"out_point", Cell>>,
       <<"duration", Cell>>, <<"path", Text>> >>,
    << <<"url", Text>>, <<"snapshot", Text>> >>,
    << <<"blank", Text>>, <<"fields", Many(PairLayout)>>, <<"path", Text>> >>,
    << <<"measures", Many(PairLayout)>> >>,
    << <<"steps", Many(StepLayout)>> >>,
    << <<"when", Text>>, <<"where_", Text>>, <<"who", Text>> >> >>

DeedLayout == Fields(<<
    <<"id", Id>>, <<"kind", KindLayout>>, <<"name", Text>>,
    <<"paths", Many(Text)>>, <<"sources", Many(SourceLayout)>>,
    <<"produced_by", ProducedLayout>>, <<"grants", Many(GrantLayout)>>,
    <<"face", FaceLayout>>, <<"body", [is |-> "body"]>> >>)

EvidenceLayout == Fields(<<
    <<"deed_id", Id>>, <<"produced_by", ProducedLayout>>,
    <<"grants", Many(GrantLayout)>>, <<"unix_time", Cell>>, <<"signature", Text>> >>)

(* take_create: a request of before supersedes ends at its body. *)
CreateLayout == Fields(<<
    <<"id", Optional(Id)>>, <<"name", Text>>, <<"sources", Many(SourceLayout)>>,
    <<"agent_id", Text>>, <<"activity_id", Optional(Text)>>,
    <<"grants", Many(GrantLayout)>>, <<"body", [is |-> "body"]>>,
    <<"supersedes", IfMore(Id)>> >>)

RECURSIVE Take(_, _), TakeMany(_, _, _), TakeFields(_, _)

TakeMany(layout, n, p) ==
    IF n <= 0 THEN Got(<<>>, p)
    ELSE Then(Take(layout, p),
              LAMBDA one : Mapped(TakeMany(layout, n - 1, one.rest),
                                  LAMBDA more : <<one.value>> \o more))

TakeFields(fields, p) ==
    IF fields = <<>> THEN Got([none \in {} |-> none], p)
    ELSE Then(Take(fields[1][2], p),
              LAMBDA one : Mapped(TakeFields(Tail(fields), one.rest),
                                  LAMBDA more : (fields[1][1] :> one.value) @@ more))

(* The row of a table that a tag names. *)
TakeTag(rows, p) == Checked(TakeCell(p), LAMBDA tag : tag \in 0..(Len(rows) - 1))

TakeBody(p) ==
    Then(TakeTag(BodyLayout, p),
         LAMBDA tag : Mapped(TakeFields(BodyLayout[tag.value + 1], tag.rest),
                             LAMBDA f : ("kind" :> Kinds[tag.value + 1]) @@ f))

Take(layout, p) ==
    CASE layout.is = "text" -> TakeStr(p)
      [] layout.is = "cell" -> TakeCell(p)
      [] layout.is = "flag" -> Mapped(TakeCell(p), LAMBDA c : c # 0)
      [] layout.is = "id" -> Checked(TakeStr(p), IsId)
      [] layout.is = "url" -> Checked(TakeStr(p), IsUrl)
      [] layout.is = "mail" -> Mapped(Checked(TakeStr(p), IsMailId), MailId)
      [] layout.is = "optional" ->
            IF p # <<>> /\ p[1] = 0 THEN Got(None, Tail(p))
            ELSE Mapped(Take(layout.item, p), Some)
      [] layout.is = "ifMore" ->
            IF p = <<>> THEN Got(None, p) ELSE Take(Optional(layout.item), p)
      [] layout.is = "oneOf" ->
            Mapped(TakeTag(layout.names, p), LAMBDA tag : layout.names[tag + 1])
      [] layout.is = "many" ->
            IF p = <<>> THEN Malformed ELSE TakeMany(layout.item, p[1], Tail(p))
      [] layout.is = "fields" -> TakeFields(layout.fields, p)
      [] layout.is = "body" -> TakeBody(p)
      [] layout.is = "tagged" ->
            Then(TakeTag(layout.layouts, p),
                 LAMBDA tag : Mapped(Take(layout.layouts[tag.value + 1][2], tag.rest),
                                     LAMBDA text : [tag |-> layout.layouts[tag.value + 1][1],
                                                    text |-> text]))

(* deed_from_bytes: a deed.bin holds one deed and nothing after it. *)
DeedFromBytes(p) == Whole(Take(DeedLayout, p))

(* The value of a request or a deed as the wire can carry it: a path that  *)
(* is no UTF-8 in its replaced form, an optional text that is there but    *)
(* empty as one that is not there.                                         *)
RECURSIVE Carried(_, _)
Carried(layout, v) ==
    CASE layout.is = "text" -> Lossy(v)
      [] layout.is \in {"optional", "ifMore"} ->
            IF v = None \/ v[1] = <<>> THEN None ELSE Some(Carried(layout.item, v[1]))
      [] layout.is = "many" -> [i \in DOMAIN v |-> Carried(layout.item, v[i])]
      [] layout.is = "tagged" -> [v EXCEPT !.text = Lossy(@)]
      [] layout.is = "fields" ->
            [f \in DOMAIN v |->
                LET row == CHOOSE row \in ToSet(layout.fields) : row[1] = f
                IN Carried(row[2], v[f])]
      [] layout.is = "body" ->
            LET rows == BodyLayout[SelectInSeq(Kinds, LAMBDA k : k = v.kind)]
            IN ("kind" :> v.kind) @@
               Carried(Fields(rows), [f \in DOMAIN v \ {"kind"} |-> v[f]])
      [] OTHER -> v

-----------------------------------------------------------------------------
(* Frames: magic, revision, length of the payload, payload. *)
Magic == 98
Revision == 1

Wrap(payload) == <<Magic, Revision, Len(payload)>> \o payload

(* Mutant of Unwrap: takes what there is of the payload. *)
UnwrapWhatIsThere(bytes) ==
    IF Len(bytes) < 3 \/ bytes[1] # Magic \/ bytes[2] # Revision THEN Malformed
    ELSE Got(SubSeq(bytes, 4, Len(bytes)), <<>>)

(* Bytes after the payload are not looked at. *)
Unwrap(bytes) ==
    IF Len(bytes) < 3 \/ bytes[1] # Magic \/ bytes[2] # Revision THEN Malformed
    ELSE IF Len(bytes) < 3 + bytes[3] THEN Malformed
    ELSE Got(SubSeq(bytes, 4, 3 + bytes[3]), <<>>)

(* Requests, in the order of their opcodes, and what follows the opcode. *)
IdOnly == Fields(<< <<"id", Id>> >>)
Requests == <<
    <<"create", CreateLayout>>, <<"get", IdOnly>>, <<"list", Fields(<<>>)>>,
    <<"trail", IdOnly>>, <<"delete", IdOnly>>, <<"evidence", IdOnly>>,
    <<"leave", Fields(<< <<"id", Id>>, <<"dest", Text>> >>)>>,
    <<"timestamp", IdOnly>>, <<"current", IdOnly>> >>

EncodeRequest(r) ==
    LET Code(op) == SelectInSeq(Requests, LAMBDA row : row[1] = op) - 1
        payload ==
            CASE r.op = "create" -> PutCreate(r.of)
              [] r.op = "list" -> <<>>
              [] r.op = "leave" -> PutStr(r.of.id) \o PutPath(r.of.dest)
              [] OTHER -> PutStr(r.of.id)
    IN Wrap(<<Code(r.op)>> \o payload)

(* A row of opcodes read as the operation and what it is of. *)
TakeOp(rows, p) ==
    Then(TakeTag(rows, p),
         LAMBDA tag : Mapped(Take(rows[tag.value + 1][2], tag.rest),
                             LAMBDA of : [op |-> rows[tag.value + 1][1], of |-> of]))

DecodeRequest(bytes) ==
    Then(Unwrap(bytes), LAMBDA payload : TakeOp(Requests, payload.value))

(* Responses, from opcode 10 on. *)
FirstResponse == 10
Responses == <<
    <<"deed", Fields(<< <<"deed", DeedLayout>> >>)>>,
    <<"created", Fields(<< <<"deed", DeedLayout>>, <<"evidence", EvidenceLayout>> >>)>>,
    <<"deeds", Fields(<< <<"deeds", Many(DeedLayout)>> >>)>>,
    <<"ok", Fields(<<>>)>>,
    <<"err", Fields(<< <<"text", Text>> >>)>>,
    <<"evidence", Fields(<< <<"evidence", EvidenceLayout>> >>)>> >>

EncodeResponse(r) ==
    Wrap(CASE r.op = "deed" -> <<10>> \o PutDeed(r.of.deed)
           [] r.op = "created" -> <<11>> \o PutDeed(r.of.deed) \o PutEvidence(r.of.evidence)
           [] r.op = "deeds" -> <<12>> \o PutAll(r.of.deeds, PutDeed)
           [] r.op = "ok" -> <<13>>
           [] r.op = "err" -> <<14>> \o PutStr(r.of.text)
           [] r.op = "evidence" -> <<15>> \o PutEvidence(r.of.evidence))

DecodeResponse(bytes) ==
    Then(Checked(Unwrap(bytes), LAMBDA payload : payload # <<>>),
         LAMBDA payload :
            TakeOp(Responses,
                   <<Head(payload.value) - FirstResponse>> \o Tail(payload.value)))
=============================================================================
