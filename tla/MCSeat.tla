------------------------------- MODULE MCSeat -------------------------------
(* Two deeds that share a product file, and words for them.  The slug of   *)
(* the second ends in the accession of the first.  Words that look like    *)
(* flags are values of options, and a value looks like a verb.             *)
EXTENDS Seat

MCSlugs == << <<Name(1)>>, <<DeedMark, KindMark, Name(1)>> >>

Raw(is, of) == [is |-> is, of |-> of]
MCRaws == [ accession |-> Raw("accession", 1), digest |-> Raw("digest", 1),
            address |-> Raw("address", 0), prefix |-> Raw("prefix", 0) ]

MCMaxFrozen == [seat |-> 2, other |-> 0]

MCFirstPaths ==
    {[seat |-> "absent", other |-> "dir"], [seat |-> "file", other |-> "absent"]}

With(env, items) == [env |-> env, items |-> items]
Word(word) == <<WordItem(word)>>
Store(url) == <<UrlItem(url)>>

MCCommands ==
    { With("", items) : items \in {
        Word("create") \o <<OptionItem("--name", "--url"), OptionItem("--agent", "--help")>>,
        Word("create") \o Store("other") \o <<OptionItem("--name", "--version")>>,
        Word("create") \o Word("--url"),
        Store("create") \o Word("list"),
        Word("import") \o Word("bag") \o <<SwitchItem("--allow-unsigned-head")>>,
        Word("get") \o <<SwitchItem("-h")>>,
        Word("get"),
        Word("delete") \o Word("accession"),
        Word("trail") \o Word("prefix"),
        Word("evidence") \o Word("accession") \o Word("address") } }
    \cup { With("other", items) : items \in {
        Word("list"),
        <<SwitchItem(Stray)>> \o Store("seat") \o Word("create") } }

MCCalls ==
    { With("", items) : items \in {
        Word("get") \o Word("digest"), Word("get") \o Word("accession"),
        Word("read") \o Word("accession"), Word("export") \o Word("bag") } }
=============================================================================
