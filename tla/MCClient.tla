------------------------------ MODULE MCClient ------------------------------
(* One body of each kind, and the forms of a draft that come out changed.  *)
EXTENDS Client

a == <<Lower>>
MCLocal == (<<Lower>> :> 5) @@ (<<Upper>> :> 6)

IdOf(kind) == <<DeedMark, KindToken(kind), Lower>>
Url == <<Scheme, Lower>>
Address == <<Sha256, 7>>

File(path, media) == [kind |-> "file", path |-> path, media_type |-> media]
Quote(urls) == [kind |-> "quote", edition |-> a, start |-> 0, end |-> 2,
                excerpt |-> a, urls |-> urls]
MailDraft == [kind |-> "mailDraft", message_id |-> MailId(a), in_reply_to |-> None,
              subject |-> a, path |-> Address]
Clip(duration) ==
    [kind |-> "clip", sources |-> <<a, Address, a>>, in_point |-> 0,
     out_point |-> NaN, duration |-> duration, path |-> a]
Pair(name) == [name |-> name, value |-> <<>>]

Bodies == {
    File(a, Some(<<Space, Audio>>)), File(<<Odd>>, None), File(<<Sha256>>, None),
    [kind |-> "set", title |-> a, members |-> <<a, <<Upper>> >>],
    Quote(<<Url, Url>>), Quote(<<a>>),
    [kind |-> "patch", tree |-> a, diffs |-> <<a>>, functionaries |-> <<a, <<>> >>],
    MailDraft, [MailDraft EXCEPT !.in_reply_to = Some(MailId(a))],
    Clip(1), Clip(-1),
    [kind |-> "page", url |-> Url, snapshot |-> Address],
    [kind |-> "form", blank |-> a, fields |-> <<Pair(a), Pair(<<>>)>>, path |-> a],
    [kind |-> "table", measures |-> <<Pair(a)>>],
    [kind |-> "procedure", steps |-> <<[text |-> <<>>, done |-> FALSE], [text |-> a, done |-> TRUE]>>],
    [kind |-> "event", when |-> a, where_ |-> <<Space>>, who |-> a],
    [kind |-> "event", when |-> a, where_ |-> a, who |-> a] }

Plainly(body) ==
    [id |-> None, name |-> <<Upper, Space>>, sources |-> <<>>, agent_id |-> a,
     activity_id |-> None, grants |-> <<>>, body |-> body, supersedes |-> None]

OfFile == Plainly(File(a, Some(<<>>)))
OfQuote == Plainly(Quote(<<Url>>))
Source(tag, text) == [tag |-> tag, text |-> text]

Drafts == {
    [OfFile EXCEPT !.id = Some(IdOf("file")), !.name = <<Space>>, !.activity_id = Some(<<>>)],
    [OfFile EXCEPT !.id = Some(IdOf("set"))],
    [OfFile EXCEPT !.agent_id = <<Space>>, !.sources = <<Source("path", <<Odd>>)>>],
    [OfFile EXCEPT !.sources = <<Source("url", a)>>],
    [OfFile EXCEPT !.activity_id = Some(a), !.grants = <<Source("path", <<Odd>>), Source("host", a)>>],
    [OfQuote EXCEPT !.sources = <<Source("deed", IdOf("file")), Source("url", Url), Source("path", <<>>)>>],
    [OfQuote EXCEPT !.name = <<Dash>>, !.supersedes = Some(IdOf("file"))],
    [OfFile EXCEPT !.id = Some(IdOf("file")), !.supersedes = Some(IdOf("file"))] }

Creates == {Plainly(body) : body \in Bodies} \cup Drafts

Ids == {IdOf("file"), IdOf("quote")}
MCAsks ==
    [op : {"create"}, of : Creates]
    \cup [op : {"get", "trail", "delete", "evidence", "timestamp", "current"}, of : [id : Ids]]
    \cup {[op |-> "leave", of |-> [id |-> IdOf("file"), dest |-> a]], [op |-> "list", of |-> <<>>]}
=============================================================================
