---------------------------- MODULE CommandLine ----------------------------
(***************************************************************************)
(* The words of a `deedar` command.  What a seat means is a list of items  *)
(* (a global --url and its store, a switch, an option and its value, a     *)
(* plain word); what main gets is the flat list of words they are written  *)
(* as, and split_argv has to find the global ones in it again.             *)
(***************************************************************************)
EXTENDS Naturals, Sequences, SequencesExt

Switches == {"--help", "-h", "--version", "-V", "--allow-unsigned-head"}
Options == {"--name", "--agent", "--into", "--since"}
Stray == "--bogus"      \* an option nobody knows
IsFlag(word) == word \in Switches \cup Options \cup {"--url", Stray}

UrlItem(value) == <<"--url", value>>
SwitchItem(word) == <<word>>
OptionItem(word, value) == <<word, value>>
WordItem(word) == <<word>>

(* A seat writes its items one after another. *)
Written(items) == FlattenSeq(items)

(* A seat means an option's value only behind the verb: an option that     *)
(* stands before it has none.                                              *)
IsVerbItem(item) == Len(item) = 1 /\ ~IsFlag(item[1])
TakesValue(items, i) ==
    \/ items[i][1] = "--url"
    \/ items[i][1] \in Options \cup {Stray} /\ \E k \in 1..(i - 1) : IsVerbItem(items[k])
WellMeant(items) ==
    /\ items \in Seq(Seq(STRING))
    /\ \A i \in DOMAIN items : Len(items[i]) = IF TakesValue(items, i) THEN 2 ELSE 1

(* What the items mean, whatever their values look like.  `url` is a       *)
(* sequence of at most one.                                                *)
Means(items) ==
    LET urls == {i \in DOMAIN items : items[i][1] = "--url"}
        Has(words) == \E i \in DOMAIN items : Len(items[i]) = 1 /\ items[i][1] \in words
    IN [url |-> IF urls = {} THEN <<>> ELSE Tail(items[Max(urls)]),
        help |-> Has({"--help", "-h"}),
        version |-> Has({"--version", "-V"}),
        rest |-> Written([i \in DOMAIN items |-> IF i \in urls THEN <<>> ELSE items[i]])]

(* split_argv.  `takes` is what the next word belongs to: --url, the option *)
(* before it, or nothing.                                                   *)
NothingRead ==
    [url |-> <<>>, help |-> FALSE, version |-> FALSE, rest |-> <<>>,
     takes |-> "nothing", verb |-> FALSE]

Keep(s, word) == [s EXCEPT !.rest = Append(@, word)]

ReadWord(s, word) ==
    CASE s.takes = "url" -> [s EXCEPT !.url = <<word>>, !.takes = "nothing"]
      [] s.takes = "value" -> [Keep(s, word) EXCEPT !.takes = "nothing"]
      [] s.takes = "nothing" /\ word = "--url" -> [s EXCEPT !.takes = "url"]
      [] s.takes = "nothing" /\ word \in Switches ->
            [Keep(s, word) EXCEPT !.help = @ \/ word \in {"--help", "-h"},
                                  !.version = @ \/ word \in {"--version", "-V"}]
      [] OTHER ->
            [Keep(s, word) EXCEPT
                !.takes = IF IsFlag(word) /\ s.verb THEN "value" ELSE "nothing",
                !.verb = @ \/ ~IsFlag(word)]

SplitArgv(args) ==
    LET split[n \in 0..Len(args)] ==
            IF n = 0 THEN NothingRead ELSE ReadWord(split[n - 1], args[n])
    IN split[Len(args)]

UrlLacks(split) == split.takes = "url"

Verb(rest) == IF rest = <<>> THEN "" ELSE rest[1]

(* evidence and current of several deeds at once; `-`, the ids on stdin,   *)
(* stands for the ids themselves.                                          *)
IsMany(rest) == Verb(rest) \in {"evidence", "current"} /\ Len(rest) > 2

(* Mutant of MakesTheSeatStore: every verb but a bare one makes it. *)
MakesItForAny(rest) == Verb(rest) # ""

(* makes_the_seat_store *)
MakesTheSeatStore(rest) == Verb(rest) \in {"create", "import"}
=============================================================================
