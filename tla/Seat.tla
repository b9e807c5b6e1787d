-------------------------------- MODULE Seat --------------------------------
(***************************************************************************)
(* A seat: one `deedar` command or one tool call of the MCP server, from   *)
(* its words to its answer, on stores that other seats use meanwhile.      *)
(*                                                                         *)
(* The command finds out which store it is to act on, opens it, resolves   *)
(* what it was given (an accession, the digest of a deed, the address of a *)
(* product file, the beginning of any of these) to one deed and acts on    *)
(* that.  Each look at the disk is a step.  A lookup by digest reads the   *)
(* log, whose lines may be torn (LogText), checks what it names against    *)
(* the shelf, and walks the shelf if that found nothing.                   *)
(*                                                                         *)
(* What the verbs do to a deed once they have one is DeedStore's and       *)
(* Client's, import's and check's work is Handover's.                      *)
(***************************************************************************)
EXTENDS LogText, CommandLine, FiniteSets, FiniteSetsExt

CONSTANTS
    Dirs,        \* directories, one of them "seat": the seat's own store
    FirstPaths,  \* what may be at their paths at first, as `paths`
    Deeds,       \* numbers of the deeds there may be, from 1
    Raws,        \* Raws[word]: what a word given for a deed is, and of which
    Sharers,     \* deeds whose body holds the product file
    Commands,    \* commands: their items, and DEEDAR_URL or ""
    Busy,        \* stores other seats are at work in
    Calls,       \* tool calls: as items the tool's verb and its words
    MaxFrozen,   \* bound on deeds frozen, by store
    MaxBackfills,\* bound on lines of a backfill
    Stumps,      \* what a cut may leave of a line, in characters
    MaxCuts      \* bound on lines cut short

ASSUME SeatAssumption ==
    /\ "seat" \in Dirs /\ Busy \subseteq Dirs
    /\ FirstPaths \subseteq [Dirs -> {"absent", "file", "dir"}]
    /\ Deeds \subseteq Nat \ {0} /\ Deeds \subseteq DOMAIN Slugs
    /\ Sharers \subseteq Deeds
    /\ \A raw \in DOMAIN Raws :
           Raws[raw] \in [is : {"accession", "digest"}, of : Deeds]
                        \cup [is : {"address", "prefix"}, of : {0}]
    /\ MaxFrozen \in [Dirs -> Nat]
    /\ \A command \in Commands :
           WellMeant(command.items) \/ UrlLacks(SplitArgv(Written(command.items)))
    /\ Stumps \subseteq Nat

VARIABLES
    paths,       \* what is at each directory's path: absent, file, dir
    shelf,       \* deeds frozen, by store
    tombs,       \* deeds deleted, by store
    logs,        \* text of the log, by store
    pending,     \* <<dir, deed, writer>>: a line about to be written
    cuts,        \* lines cut short so far
    backfills,   \* lines of a backfill so far
    cmd,         \* the command under way
    look         \* its lookup under way

deeds == <<shelf, tombs>>
lines == <<logs, pending, cuts, backfills>>
vars == <<paths, deeds, lines, cmd, look>>

Served(dir) == shelf[dir] \ tombs[dir]

(* Verbs that read or delete the deed a word names; "read" is MCP's        *)
(* resource deed://<word>.                                                 *)
IdVerbs == {"get", "trail", "evidence", "delete", "leave", "timestamp", "current", "read"}

Idle == [at |-> "idle"]
NoLook == [raw |-> ""]

(* What a word is; any other is the beginning of nothing. *)
Is(raw) == IF raw \in DOMAIN Raws THEN Raws[raw].is ELSE "nothing"

(* The deeds whose accession, digest or product file a word begins. *)
Starts(raw) ==
    CASE Is(raw) \in {"accession", "digest"} -> {Raws[raw].of}
      [] Is(raw) = "address" -> Sharers
      [] Is(raw) = "prefix" -> Deeds
      [] OTHER -> {}

(* Those it names in full. *)
Names(raw) == IF Is(raw) = "prefix" THEN {} ELSE Starts(raw)

(* The digest it is as text; an address is the digest of no deed. *)
DigestOf(raw) == DigestText(IF Is(raw) = "digest" THEN Raws[raw].of ELSE 0)

(* The deeds served all through a lookup, and those served at some time. *)
Watch ==
    look' = IF look = NoLook THEN look
            ELSE [look EXCEPT !.steady = @ \cap Served(cmd.url)',
                              !.seen = @ \cup Served(cmd.url)']

-----------------------------------------------------------------------------
Init ==
    /\ paths \in FirstPaths
    /\ shelf = [dir \in Dirs |-> {}]
    /\ tombs = [dir \in Dirs |-> {}]
    /\ logs = [dir \in Dirs |-> <<>>]
    /\ pending = {} /\ cuts = 0 /\ backfills = 0
    /\ cmd = Idle
    /\ look = NoLook

(* The other seats, and what any seat does to a store. *)
MakesStore(dir) ==
    /\ paths[dir] = "absent"
    /\ paths' = [paths EXCEPT ![dir] = "dir"]
    /\ UNCHANGED <<deeds, lines, cmd, look>>

(* A create up to its line in the log. *)
Freeze(dir, i) ==
    /\ paths[dir] = "dir"
    /\ i \notin shelf[dir]
    /\ Cardinality(shelf[dir]) < MaxFrozen[dir]
    /\ shelf' = [shelf EXCEPT ![dir] = @ \cup {i}]
    /\ pending' = pending \cup {<<dir, i, "create">>}
    /\ UNCHANGED <<paths, tombs, logs, cuts, backfills>>

OtherFreezes(dir, i) ==
    /\ Freeze(dir, i)
    /\ UNCHANGED cmd
    /\ Watch

OtherDeletes(dir, i) ==
    /\ i \in Served(dir)
    /\ tombs' = [tombs EXCEPT ![dir] = @ \cup {i}]
    /\ UNCHANGED <<paths, shelf, lines, cmd>>
    /\ Watch

(* append_log: under a lock, and by one write_all that may be cut short. *)
AppendLog(dir, i, writer) ==
    /\ <<dir, i, writer>> \in pending
    /\ \E n \in Stumps \cup {Len(Line(i))} :
        /\ n <= Len(Line(i))
        /\ cuts' = IF n < Len(Line(i)) THEN cuts + 1 ELSE cuts
        /\ cuts' <= MaxCuts
        /\ logs' = [logs EXCEPT ![dir] = @ \o SubSeq(Line(i), 1, n)]
    /\ pending' = pending \ {<<dir, i, writer>>}
    /\ UNCHANGED <<paths, deeds, backfills, cmd, look>>

(* log_backfill reads the log, and logs what is served and not in it. *)
Backfill(dir, i) ==
    /\ backfills < MaxBackfills
    /\ backfills' = backfills + 1
    /\ Readable(logs[dir])
    /\ i \in Served(dir)
    /\ \A e \in ToSet(LogEntries(logs[dir])) : e.id # Accession(i)
    /\ <<dir, i, "backfill">> \notin pending
    /\ pending' = pending \cup {<<dir, i, "backfill">>}
    /\ UNCHANGED <<paths, deeds, logs, cuts, cmd, look>>

-----------------------------------------------------------------------------
(* Which store. *)
Begin(command, tool) ==
    /\ cmd = Idle
    /\ cmd' = [at |-> IF tool THEN "take" ELSE "split", tool |-> tool,
               items |-> command.items, env |-> command.env,
               rest |-> Written(command.items), named |-> <<>>, url |-> "", first |-> ~tool]
    /\ UNCHANGED <<paths, deeds, lines, look>>

End == cmd' = Idle /\ look' = NoLook
Goto(stage) == cmd' = [cmd EXCEPT !.at = stage]

(* dispatch: help and version need no store, and come before any error. *)
Split ==
    /\ cmd.at = "split"
    /\ LET split == SplitArgv(cmd.rest) IN
       IF split.help \/ split.version \/ UrlLacks(split) THEN End
       ELSE /\ cmd' = [cmd EXCEPT !.at = "take", !.rest = split.rest, !.named = split.url]
            /\ UNCHANGED look
    /\ UNCHANGED <<paths, deeds, lines>>

(* dispatch takes the URL to see whether it is a verb of many ids; finish  *)
(* takes it again.                                                         *)
Taken(url) ==
    cmd' = [cmd EXCEPT !.url = url, !.first = FALSE,
                       !.at = IF cmd.first /\ ~IsMany(cmd.rest) THEN "take" ELSE "open"]

(* take_url, and from_env with the server's open: is there a directory? *)
TakeUrl ==
    /\ cmd.at = "take"
    /\ LET given == IF cmd.named = <<>> THEN cmd.env ELSE cmd.named[1] IN
       IF given # "" THEN Taken(given)
       ELSE IF paths["seat"] = "dir" THEN Taken("seat")
       ELSE Goto("takeMissing")
    /\ UNCHANGED <<paths, deeds, lines, look>>

Writes == IF cmd.tool THEN Verb(cmd.rest) = "export" ELSE MakesTheSeatStore(cmd.rest)

(* A second look: does nothing exist there, so that this may make it? *)
TakeMissing ==
    /\ cmd.at = "takeMissing"
    /\ IF paths["seat"] = "absent" /\ Writes THEN Taken("seat") /\ UNCHANGED look ELSE End
    /\ UNCHANGED <<paths, deeds, lines>>

(* open_client: what is no URL of a store, or a file, is refused. *)
Open ==
    /\ cmd.at = "open"
    /\ IF cmd.url \notin Dirs \/ (cmd.url \in Dirs /\ paths[cmd.url] = "file")
       THEN End /\ UNCHANGED paths
       ELSE /\ paths' = [paths EXCEPT ![cmd.url] = "dir"]
            /\ cmd' = [at |-> "opened", tool |-> cmd.tool, rest |-> cmd.rest, url |-> cmd.url]
            /\ UNCHANGED look
    /\ UNCHANGED <<deeds, lines>>

-----------------------------------------------------------------------------
(* Verbs of no deed in particular. *)
Create ==
    /\ cmd.at = "opened" /\ Verb(cmd.rest) = "create"
    /\ \/ \E i \in Deeds : Freeze(cmd.url, i)
       \/ UNCHANGED <<paths, deeds, lines>>    \* refused
    /\ End

Other ==
    /\ cmd.at = "opened"
    /\ \/ Verb(cmd.rest) \notin IdVerbs \cup {"create"}
       \/ Verb(cmd.rest) \in IdVerbs /\ Len(cmd.rest) < 2
    /\ End
    /\ UNCHANGED <<paths, deeds, lines>>

(* The lookup of one word: stages resolve, hits, list, check, act, explain *)
(* and told.                                                               *)
NewLook(raw) ==
    [raw |-> raw, left |-> {}, done |-> {}, listed |-> {}, found |-> {}, said |-> "",
     steady |-> Served(cmd.url), seen |-> Served(cmd.url)]

LookUp ==
    /\ cmd.at = "opened" /\ Verb(cmd.rest) \in IdVerbs /\ Len(cmd.rest) >= 2
    /\ Goto("resolve")
    /\ look' = NewLook(cmd.rest[2])
    /\ UNCHANGED <<paths, deeds, lines>>

(* read_dir: the names there when it starts, and maybe later ones. *)
Walk(stage) ==
    /\ Goto(stage)
    /\ look' = [look EXCEPT !.left = shelf[cmd.url], !.done = {}, !.listed = {}]

Say(said) ==
    /\ Goto("told")
    /\ look' = [look EXCEPT !.said = said, !.left = {}, !.done = {}]

(* The accession's word is not about a deed: the resource just says so. *)
Explain == IF Verb(cmd.rest) = "read" THEN Say("nothing") ELSE Walk("explain")

(* resolve_id gets the deed it resolved to; the server's resolve_arg does not. *)
Found(found) ==
    /\ Goto(IF cmd.tool THEN "act" ELSE "check")
    /\ look' = [look EXCEPT !.found = found, !.left = {}, !.done = {}, !.listed = {}]

(* digest.rs, resolve, up to logged_deed's read of the log. *)
Resolve ==
    /\ cmd.at = "resolve"
    /\ CASE Is(look.raw) = "accession" -> Found(Names(look.raw))
         [] Is(look.raw) \in {"prefix", "nothing"} -> Explain
         [] OTHER ->
              /\ Goto("hits")
              /\ LET hits == HitsIn(logs[cmd.url], DigestOf(look.raw)) IN
                 look' = [look EXCEPT !.left = {i \in Deeds : Accession(i) \in hits}]
    /\ UNCHANGED <<paths, deeds, lines>>

(* The deed is read, and its bytes hashed. *)
IsHit(i) == i \in Served(cmd.url) /\ DigestText(i) = DigestOf(look.raw)

(* logged_deed: accessions in order, the last hit wins. *)
TryHit ==
    /\ cmd.at = "hits" /\ look.left # {}
    /\ LET i == Min(look.left) IN
       look' = [look EXCEPT !.left = @ \ {i}, !.found = IF IsHit(i) THEN {i} ELSE @]
    /\ UNCHANGED <<paths, deeds, lines, cmd>>

(* Mutant of EndHits: what the log has no line for is not looked for. *)
EndHitsLogOnly ==
    /\ cmd.at = "hits" /\ look.left = {}
    /\ IF look.found # {} THEN Found(look.found) ELSE Explain
    /\ UNCHANGED <<paths, deeds, lines>>

EndHits ==
    /\ cmd.at = "hits" /\ look.left = {}
    /\ IF look.found # {} THEN Found(look.found) ELSE Walk("list")
    /\ UNCHANGED <<paths, deeds, lines>>

(* list, one file of the shelf; a tombstone is passed over. *)
Visit ==
    /\ cmd.at \in {"list", "explain"}
    /\ \E i \in shelf[cmd.url] \ look.done :
        look' = [look EXCEPT !.done = @ \cup {i},
                             !.listed = IF i \in Served(cmd.url) THEN @ \cup {i} ELSE @]
    /\ UNCHANGED <<paths, deeds, lines, cmd>>

(* listed: a digest is found before a product file; one deed must have it. *)
EndList ==
    /\ cmd.at = "list" /\ look.left \subseteq look.done
    /\ LET digests == {i \in look.listed : DigestText(i) = DigestOf(look.raw)}
           products == IF Is(look.raw) = "address" THEN look.listed \cap Sharers ELSE {}
       IN IF digests # {} THEN Found(digests)
          ELSE IF Cardinality(products) = 1 THEN Found(products)
          ELSE Explain
    /\ UNCHANGED <<paths, deeds, lines>>

(* resolve_id's get: a deed that is there, or was. *)
Check ==
    /\ cmd.at = "check"
    /\ IF look.found \subseteq shelf[cmd.url] THEN Goto("act") /\ UNCHANGED look ELSE Explain
    /\ UNCHANGED <<paths, deeds, lines>>

(* The verb's own read of the deed. *)
Act ==
    /\ cmd.at = "act"
    /\ IF look.found \subseteq Served(cmd.url) THEN Say("deed")
       ELSE IF look.found \subseteq tombs[cmd.url] THEN Say("gone")
       ELSE Explain
    /\ tombs' = IF Verb(cmd.rest) = "delete" /\ look.found \subseteq Served(cmd.url)
                THEN [tombs EXCEPT ![cmd.url] = @ \cup look.found] ELSE tombs
    /\ UNCHANGED <<paths, shelf, lines>>

(* explain_accession names the listed deeds the word begins. *)
EndExplain ==
    /\ cmd.at = "explain" /\ look.left \subseteq look.done
    /\ Goto("told")
    /\ look' = [look EXCEPT !.said = "names", !.listed = @ \cap Starts(look.raw),
                             !.left = {}, !.done = {}]
    /\ UNCHANGED <<paths, deeds, lines>>

(* The words of a verb of many ids are looked up one after another. *)
Told ==
    /\ cmd.at = "told"
    /\ LET more == RemoveAt(cmd.rest, 2) IN
       IF ~cmd.tool /\ IsMany(cmd.rest)
       THEN /\ cmd' = [cmd EXCEPT !.at = "resolve", !.rest = more]
            /\ look' = NewLook(more[2])
       ELSE End
    /\ UNCHANGED <<paths, deeds, lines>>

-----------------------------------------------------------------------------
Next ==
    \/ \E dir \in Busy : MakesStore(dir)
    \/ \E dir \in Busy, i \in Deeds :
        OtherFreezes(dir, i) \/ OtherDeletes(dir, i) \/ Backfill(dir, i)
    \/ \E dir \in Dirs, i \in Deeds, writer \in {"create", "backfill"} :
        AppendLog(dir, i, writer)
    \/ \E command \in Commands : Begin(command, FALSE)
    \/ \E call \in Calls : Begin(call, TRUE)
    \/ Split \/ TakeUrl \/ TakeMissing \/ Open
    \/ Create \/ Other \/ LookUp
    \/ Resolve \/ TryHit \/ EndHits \/ Visit \/ EndList
    \/ Check \/ Act \/ EndExplain \/ Told

Spec == Init /\ [][Next]_vars

-----------------------------------------------------------------------------
EndsIn(text, end) ==
    /\ Len(end) <= Len(text)
    /\ \A k \in 1..Len(end) : text[Len(text) - Len(end) + k] = end[k]

(* What a lookup says was so while it ran (digest.rs, resolve; lookup.rs), *)
(* with creates, deletes and torn log lines beside it.  A deed it answers  *)
(* is one the word names, and was served at some moment; one it calls gone *)
(* was deleted.  The only deed the word names, if it was served from first *)
(* to last, is the answer.  An explanation names nothing that was never    *)
(* served, and leaves out none that the word begins and that was served    *)
(* throughout.                                                             *)
ResolveWasTrue ==
    cmd.at = "told" =>
        LET named == Names(look.raw) IN
        /\ look.said = "deed" => look.found # {} /\ look.found \subseteq named \cap look.seen
        /\ look.said = "gone" => look.found \subseteq named \cap tombs[cmd.url]
        /\ look.said = "names" => look.listed \subseteq look.seen
                                  /\ look.steady \cap Starts(look.raw) \subseteq look.listed
        /\ \A i \in look.steady :
              named \cap look.seen = {i} => look.said = "deed" /\ look.found = {i}

(* However the lines of a log were cut and glued (fs.rs, append_log;       *)
(* log.rs, Entry::parse), what reads as an entry is the end of one whole   *)
(* line of a deed frozen in that store: its digest and its time, unless    *)
(* the entry is the last piece, are those of this deed, never of two, and  *)
(* its id ends in this deed's accession.  It is this accession as long as  *)
(* no line was cut.  After a cut it may be longer, and be the accession of *)
(* another deed or of none.                                                *)
TornLinesEndWhole ==
    \A dir \in Dirs :
        LET text == SplitAt(logs[dir], Newline) IN
        \A n \in DOMAIN text :
            LET e == ParseEntry(text[n]) IN
            IsEntry(text[n]) => \E i \in shelf[dir] :
                /\ IF cuts = 0 THEN e.id = Accession(i) ELSE EndsIn(e.id, Accession(i))
                /\ e.digest = DigestText(i)
                /\ n < Len(text) => e.time = Time

(* The store a command's words mean. *)
Meant ==
    LET url == IF cmd.tool THEN <<>> ELSE Means(cmd.items).url
        given == IF url = <<>> THEN cmd.env ELSE url[1]
    IN IF given = "" THEN "seat" ELSE given

(* A command opens the store its words and DEEDAR_URL mean, whatever the   *)
(* values of its options look like, and no store at all for help or        *)
(* version; and the seat's own store comes to be only by a first write     *)
(* (main.rs, split_argv, take_url: "A read has nothing to open").          *)
ActsWhereTold ==
    [][ /\ cmd.at = "open" /\ cmd'.at = "opened" =>
            /\ cmd.url = Meant
            /\ ~cmd.tool => /\ cmd.rest = Means(cmd.items).rest
                            /\ ~Means(cmd.items).help /\ ~Means(cmd.items).version
        /\ paths' # paths /\ cmd' # cmd =>
            \/ cmd.env # "" \/ (~cmd.tool /\ Means(cmd.items).url # <<>>)
            \/ Verb(cmd.rest) \in {"create", "import", "export"} ]_vars
=============================================================================
