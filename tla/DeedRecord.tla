----------------------------- MODULE DeedRecord -----------------------------
(***************************************************************************)
(* Deeds as the crate deed makes them: ids, mail ids, sources, bodies, and *)
(* Deed::from_draft, which checks a body and derives the rest of the deed  *)
(* from it.                                                                *)
(*                                                                         *)
(* A text is a sequence of characters and a character is a number, so that *)
(* the wire (WireFormat) can hold texts, lengths and tags in one space.    *)
(* Runs of characters the code only ever looks at as a whole ("deed-", a   *)
(* kind's name, "sha256:", a URL's scheme, local@domain, a media type's    *)
(* class) are one character each.  Option is a sequence of at most one.    *)
(***************************************************************************)
EXTENDS Integers, Sequences, SequencesExt

Space == 1
Dash == 2
Lower == 3
Upper == 4
DeedMark == 20
Scheme == 21
Sha256 == 22
Mailbox == 23
OpenAngle == 24
CloseAngle == 25
Odd == 26          \* a byte of a path that is no UTF-8
Replacement == 27  \* what to_string_lossy writes for it
Item == 28         \* the slug "item"
Audio == 30
Message == 31
Plain == 32
NaN == 99          \* the f64 that compares with nothing

None == <<>>
Some(v) == <<v>>
Blank(text) == \A i \in DOMAIN text : text[i] = Space

(* Kinds in the order of Kind::all, which is that of their tags on the wire. *)
Kinds == << "file", "set", "quote", "patch", "mailDraft", "clip", "page",
            "form", "table", "procedure", "event" >>
KindToken(kind) == 40 + SelectInSeq(Kinds, LAMBDA k : k = kind)
KindTokens == {KindToken(Kinds[i]) : i \in DOMAIN Kinds}

SlugChars == {Dash, Lower, Item}

(* DeedId::parse: deed-<kind>-<slug>. *)
IsId(text) ==
    /\ Len(text) >= 3
    /\ text[1] = DeedMark
    /\ text[2] \in KindTokens
    /\ \A i \in 3..Len(text) : text[i] \in SlugChars

(* MailMessageId::parse, and the <local@domain> it stores. *)
IsMailId(text) ==
    \/ text = <<Mailbox>>
    \/ text = <<OpenAngle, Mailbox, CloseAngle>>
MailId(text) == <<OpenAngle, Mailbox, CloseAngle>>

(* Source::url: one of three schemes, and something after it. *)
IsUrl(text) == Len(text) >= 2 /\ text[1] = Scheme

(* write_once_hex: sha256: and 64 hex digits, taken as one. *)
IsWriteOnce(path) == Len(path) = 2 /\ path[1] = Sha256
IsAddress(path) == path # <<>> /\ path[1] = Sha256

-----------------------------------------------------------------------------
(* f64 comparison. *)
Less(a, b) == a # NaN /\ b # NaN /\ a < b

(* Body::validate, first all but the URLs of a page or a quote. *)
FieldsFit(b) ==
    CASE b.kind = "file" -> b.path # <<>>
      [] b.kind = "set" ->
            ~Blank(b.title) /\ b.members # <<>> /\ ~Contains(b.members, <<>>)
      [] b.kind = "quote" ->
            /\ ~Blank(b.edition) /\ ~Blank(b.excerpt)
            /\ b.urls # <<>> /\ b.start <= b.end
      [] b.kind = "patch" ->
            ~Blank(b.tree) /\ b.diffs # <<>> /\ b.functionaries # <<>>
      [] b.kind = "mailDraft" -> ~Blank(b.subject) /\ b.path # <<>>
      [] b.kind = "clip" ->
            /\ b.sources # <<>> /\ b.path # <<>>
            /\ ~Less(b.out_point, b.in_point) /\ ~Less(b.duration, 0)
      [] b.kind = "page" -> b.snapshot # <<>>
      [] b.kind = "form" -> ~Blank(b.blank) /\ b.fields # <<>> /\ b.path # <<>>
      [] b.kind = "table" -> b.measures # <<>>
      [] b.kind = "procedure" -> b.steps # <<>>
      [] b.kind = "event" -> ~Blank(b.when) /\ ~Blank(b.where_) /\ ~Blank(b.who)

UrlsFit(b) ==
    /\ b.kind = "page" => IsUrl(b.url)
    /\ b.kind = "quote" => \A u \in ToSet(b.urls) : IsUrl(u)

Valid(b) == FieldsFit(b) /\ UrlsFit(b)

(* A page's URL is looked at first, a quote's last. *)
WhyInvalid(b) ==
    IF ~UrlsFit(b) /\ (b.kind = "page" \/ FieldsFit(b)) THEN "InvalidUrl"
    ELSE "InvalidBody"

(* Body::paths: the product files of a body. *)
Paths(b) ==
    CASE b.kind \in {"file", "mailDraft", "form"} -> <<b.path>>
      [] b.kind = "set" -> b.members
      [] b.kind = "patch" -> b.diffs
      [] b.kind = "clip" -> Append(b.sources, b.path)
      [] b.kind = "page" -> <<b.snapshot>>
      [] b.kind \in {"quote", "table", "procedure", "event"} -> <<>>

(* Body::rewrite_path. *)
RewritePath(b, from, to) ==
    LET New(path) == IF path = from THEN to ELSE path
        NewAll(paths) == [i \in DOMAIN paths |-> New(paths[i])]
    IN CASE b.kind \in {"file", "mailDraft", "form"} -> [b EXCEPT !.path = New(@)]
         [] b.kind = "set" -> [b EXCEPT !.members = NewAll(@)]
         [] b.kind = "patch" -> [b EXCEPT !.diffs = NewAll(@)]
         [] b.kind = "clip" -> [b EXCEPT !.path = New(@), !.sources = NewAll(@)]
         [] b.kind = "page" -> [b EXCEPT !.snapshot = New(@)]
         [] b.kind \in {"quote", "table", "procedure", "event"} -> b

-----------------------------------------------------------------------------
Faces == << "syntax", "sheet", "letter", "waveform", "document" >>

MediaFace(media) ==
    LET words == SelectSeq(media, LAMBDA c : c # Space)
    IN IF words = <<>> THEN "document"
       ELSE CASE words[1] = Audio -> "waveform"
              [] words[1] = Message -> "letter"
              [] words[1] = Plain -> "syntax"
              [] OTHER -> "document"

(* Face::from_kind_and_media. *)
Face(b) ==
    CASE b.kind = "set" -> "sheet"
      [] b.kind = "clip" -> "waveform"
      [] b.kind = "mailDraft" -> "letter"
      [] b.kind = "patch" -> "syntax"
      [] b.kind = "file" -> IF b.media_type = None THEN "document"
                            ELSE MediaFace(b.media_type[1])
      [] OTHER -> "document"

(* mint_id: the slug of a name, and the accession under it. *)
Slug(name) ==
    LET Take(slug, c) ==
            IF c \in {Lower, Upper} THEN Append(slug, Lower)
            ELSE IF c \in {Space, Dash} /\ ~IsSuffix(<<Dash>>, slug)
            THEN Append(slug, Dash) ELSE slug
        full == FoldLeft(Take, <<>>, name)
        head == IF IsPrefix(<<Dash>>, full) THEN Tail(full) ELSE full
        slug == IF IsSuffix(<<Dash>>, head) THEN Front(head) ELSE head
    IN IF slug = <<>> THEN <<Item>> ELSE slug

MintId(kind, name) == <<DeedMark, KindToken(kind)>> \o Slug(name)

IdFits(kind, id) == id = None \/ id[1][2] = KindToken(kind)

(* Quote urls join the sources, once each. *)
AddUrls(sources, b) ==
    LET Add(list, url) ==
            LET source == [tag |-> "url", text |-> url]
            IN IF Contains(list, source) THEN list ELSE Append(list, source)
    IN IF b.kind = "quote" THEN FoldLeft(Add, sources, b.urls) ELSE sources

Refused(class, text) == [ok |-> FALSE, class |-> class, text |-> text]

(* Deed::from_draft: kind, paths and face come from the body. *)
FromDraft(d) ==
    LET kind == d.body.kind
        id == IF d.id = None THEN MintId(kind, d.name) ELSE d.id[1]
    IN CASE ~Valid(d.body) -> Refused(WhyInvalid(d.body), <<Lower>>)
         [] Blank(d.agent_id) -> Refused("InvalidBody", <<Lower>>)
         [] ~IdFits(kind, d.id) -> Refused("InvalidId", id)
         [] OTHER ->
              [ok |-> TRUE,
               deed |-> [id |-> id,
                         kind |-> kind,
                         name |-> IF Blank(d.name) THEN id ELSE d.name,
                         paths |-> Paths(d.body),
                         sources |-> AddUrls(d.sources, d.body),
                         produced_by |-> [agent_id |-> d.agent_id,
                                          activity_id |-> d.activity_id],
                         grants |-> d.grants,
                         face |-> Face(d.body),
                         body |-> d.body]]
=============================================================================
