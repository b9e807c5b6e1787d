------------------------------ MODULE SeatProofs ------------------------------
(***************************************************************************)
(* What a seat's lookups answer, for any words, any deeds, any other seats *)
(* at work and any text a torn log may hold; and which commands bring the  *)
(* seat's own store into being.                                            *)
(***************************************************************************)
EXTENDS Seat, FiniteSetTheorems, SequenceTheorems, WellFoundedInduction, TLAPS

(* The places of a command before it has its store, and of a lookup. *)
Asking == {"split", "take", "takeMissing", "open"}
Looking == {"resolve", "hits", "list", "check", "act", "explain", "told"}

(* The fields at each. *)
Calling == {"at", "tool", "items", "env", "rest", "named", "url", "first"}
Opened == {"at", "tool", "rest", "url"}
Looks == {"raw", "left", "done", "listed", "found", "said", "steady", "seen"}

CmdOK ==
    /\ cmd.at \in {"idle", "opened"} \cup Asking \cup Looking
    /\ "at" \in DOMAIN cmd
    /\ cmd.at \in Asking => DOMAIN cmd = Calling
    /\ cmd.at \in {"opened"} \cup Looking => DOMAIN cmd = Opened /\ cmd.url \in Dirs

StoresOK ==
    /\ paths \in [Dirs -> {"absent", "file", "dir"}]
    /\ shelf \in [Dirs -> SUBSET Deeds]
    /\ tombs \in [Dirs -> SUBSET Deeds]

(* What a lookup has of the deeds served; its verb may delete one itself. *)
Watching ==
    /\ DOMAIN look = Looks
    /\ look.steady \subseteq look.seen /\ look.seen \subseteq Deeds
    /\ cmd.at # "told" => look.steady \subseteq Served(cmd.url) /\ Served(cmd.url) \subseteq look.seen

(* The only deed the word names, if it was served all the time. *)
Sole(i) == i \in look.steady /\ Names(look.raw) \cap look.seen = {i}

(* What the walk over the shelf has listed. *)
Listing ==
    /\ look.steady \subseteq look.left
    /\ look.listed \subseteq look.seen
    /\ look.steady \cap look.done \subseteq look.listed

(* What a place of the lookup knows. *)
Knows ==
    /\ cmd.at = "resolve" => look.found = {}
    /\ cmd.at \in {"hits", "list"} => Is(look.raw) \in {"digest", "address"}
    /\ cmd.at = "hits" => look.found \subseteq Names(look.raw) \cap look.seen
    /\ cmd.at = "list" => look.found = {} /\ Listing
    /\ cmd.at \in {"check", "act"} =>
           /\ look.found # {} /\ look.found \subseteq Names(look.raw)
           /\ \A i \in Deeds : Sole(i) => look.found = {i}
    /\ cmd.at = "explain" => Listing /\ \A i \in Deeds : ~Sole(i)
    /\ ResolveWasTrue

LookInv ==
    /\ StoresOK /\ CmdOK
    /\ cmd.at \in Looking => Watching /\ Knows
    /\ cmd.at \notin Looking => look = NoLook

-----------------------------------------------------------------------------
(* A word names deeds only, and a deed has the digest of a word that names it. *)
LEMMA WordsNameDeeds ==
    ASSUME SeatAssumption, NEW raw
    PROVE  /\ Names(raw) \subseteq Starts(raw) /\ Starts(raw) \subseteq Deeds
           /\ Is(raw) \in {"accession", "digest", "address", "prefix", "nothing"}
           /\ Is(raw) \in {"accession", "digest"} => \E i \in Deeds : Names(raw) = {i}
           /\ Is(raw) \in {"prefix", "nothing"} => Names(raw) = {}
           /\ Is(raw) = "address" => Names(raw) = Sharers
<1>1. CASE raw \notin DOMAIN Raws
  BY <1>1 DEF Is, Names, Starts
<1>2. CASE raw \in DOMAIN Raws
  <2>1. Raws[raw].is \in {"accession", "digest", "address", "prefix"}
    BY <1>2 DEF SeatAssumption
  <2>2. Raws[raw].is \in {"accession", "digest"} => Raws[raw].of \in Deeds
    BY <1>2 DEF SeatAssumption
  <2>3. Is(raw) = Raws[raw].is
    BY <1>2 DEF Is
  <2> QED
    BY <2>1, <2>2, <2>3 DEF Names, Starts, SeatAssumption
<1> QED
  BY <1>1, <1>2

LEMMA TextsDiffer ==
    ASSUME NEW i \in Nat, NEW j \in Nat, DigestText(i) = DigestText(j) PROVE i = j
<1>1. DigestText(i)[2] = 10 + i /\ DigestText(j)[2] = 10 + j
  BY DEF DigestText, Name
<1> QED
  BY <1>1

LEMMA DigestsTell ==
    ASSUME SeatAssumption, NEW raw, Is(raw) \in {"digest", "address"}, NEW i \in Deeds
    PROVE  DigestText(i) = DigestOf(raw) <=> Is(raw) = "digest" /\ Names(raw) = {i}
<1>1. CASE Is(raw) = "digest"
  <2>1. PICK k \in Deeds : k = Raws[raw].of /\ Names(raw) = {k}
    <3>1. raw \in DOMAIN Raws /\ Raws[raw].is = "digest"
      BY <1>1 DEF Is
    <3> QED
      BY <1>1, <3>1 DEF SeatAssumption, Names, Starts
  <2>2. DigestOf(raw) = DigestText(k)
    BY <1>1, <2>1 DEF DigestOf
  <2>3. DigestText(i) = DigestText(k) <=> i = k
    BY TextsDiffer DEF SeatAssumption
  <2> QED
    BY <1>1, <2>1, <2>2, <2>3
<1>2. CASE Is(raw) = "address"
  <2>1. DigestOf(raw) = DigestText(0)
    BY <1>2 DEF DigestOf
  <2>2. i \in Nat /\ i # 0
    BY DEF SeatAssumption
  <2>3. DigestText(i) # DigestText(0)
    BY <2>2, TextsDiffer
  <2> QED
    BY <1>2, <2>1, <2>3
<1> QED
  BY <1>1, <1>2

-----------------------------------------------------------------------------
(* Other seats at work. *)

LEMMA LookIsThere == ASSUME DOMAIN look = Looks PROVE look # NoLook
<1>1. DOMAIN NoLook = {"raw"}
  BY DEF NoLook
<1> QED
  BY <1>1 DEF Looks

(* A deed that is the sole one has been all along. *)
LEMMA SoleBefore ==
    ASSUME look'.raw = look.raw, look'.steady \subseteq look.steady,
           look.seen \subseteq look'.seen, look.steady \subseteq look.seen,
           NEW i, Sole(i)'
    PROVE  Sole(i)
<1>1. i \in look'.steady /\ Names(look'.raw) \cap look'.seen = {i}
  BY DEF Sole, Names, Starts, Is
<1> QED
  BY <1>1 DEF Sole

LEMMA QuietLook ==
    ASSUME LookInv, StoresOK', UNCHANGED <<cmd, look, shelf, tombs>> PROVE LookInv'
  BY DEF LookInv, CmdOK, Watching, Knows, Listing, Sole, ResolveWasTrue, Served,
         Names, Starts, Is

LEMMA WatchLook ==
    ASSUME SeatAssumption, LookInv, StoresOK', UNCHANGED cmd, Watch,
           \A dir \in Dirs : tombs[dir] \subseteq tombs'[dir]
    PROVE  LookInv'
<1>1. CmdOK'
  BY DEF LookInv, CmdOK
<1>2. CASE cmd.at \notin Looking
  <2>1. look = NoLook /\ look' = NoLook
    BY <1>2 DEF LookInv, Watch
  <2> QED
    BY <1>1, <1>2, <2>1 DEF LookInv
<1>3. CASE cmd.at \in Looking
  <2>1. Watching /\ Knows /\ cmd.url \in Dirs
    BY <1>3 DEF LookInv, CmdOK
  <2>2. look' = [look EXCEPT !.steady = look.steady \cap Served(cmd.url)',
                             !.seen = look.seen \cup Served(cmd.url)']
    BY <2>1, LookIsThere DEF Watch, Watching
  <2>3. PICK now : now = Served(cmd.url)'
    OBVIOUS
  <2>4. /\ DOMAIN look' = Looks /\ look'.steady = look.steady \cap now
        /\ look'.seen = look.seen \cup now
        /\ look'.raw = look.raw /\ look'.left = look.left /\ look'.done = look.done
        /\ look'.listed = look.listed /\ look'.found = look.found /\ look'.said = look.said
    BY <2>1, <2>2, <2>3 DEF Watching, Looks
  <2>5. now \subseteq Deeds
    BY <2>1, <2>3 DEF Served, StoresOK
  <2>6. Watching'
    BY <2>1, <2>3, <2>4, <2>5 DEF Watching
  <2>7. \A i : Sole(i)' => Sole(i)
    BY <2>1, <2>4, SoleBefore DEF Watching
  <2>8. ResolveWasTrue'
    <3>1. SUFFICES ASSUME cmd.at = "told" PROVE ResolveWasTrue'
      BY DEF ResolveWasTrue
    <3>2. ResolveWasTrue
      BY <2>1 DEF Knows
    <3>3. /\ look.said = "deed" => look.found # {} /\ look.found \subseteq Names(look.raw) \cap look.seen
          /\ look.said = "gone" => look.found \subseteq Names(look.raw) \cap tombs[cmd.url]
          /\ look.said = "names" => /\ look.listed \subseteq look.seen
                                    /\ look.steady \cap Starts(look.raw) \subseteq look.listed
          /\ \A i \in look.steady :
                Names(look.raw) \cap look.seen = {i} => look.said = "deed" /\ look.found = {i}
      BY <3>1, <3>2 DEF ResolveWasTrue
    <3>4. tombs[cmd.url] \subseteq tombs'[cmd'.url]
      BY <2>1
    <3>5. \A i \in look'.steady :
              Names(look'.raw) \cap look'.seen = {i} => look'.said = "deed" /\ look'.found = {i}
      BY <2>1, <2>4, <3>3 DEF Watching
    <3> QED
      BY <2>4, <3>3, <3>4, <3>5 DEF ResolveWasTrue, Names, Starts, Is
  <2>9. Knows'
    <3>1. Listing => Listing'
      BY <2>4 DEF Listing
    <3>2. Names(look'.raw) = Names(look.raw) /\ Is(look'.raw) = Is(look.raw)
      BY <2>4
    <3> QED
      BY <2>1, <2>4, <2>7, <2>8, <3>1, <3>2 DEF Knows, Names, Starts, Is
  <2> QED
    BY <1>1, <1>3, <2>6, <2>9 DEF LookInv
<1> QED
  BY <1>2, <1>3

LEMMA OthersLook ==
    ASSUME SeatAssumption, LookInv,
           \/ \E dir \in Busy : MakesStore(dir)
           \/ \E dir \in Busy, i \in Deeds :
                  OtherFreezes(dir, i) \/ OtherDeletes(dir, i) \/ Backfill(dir, i)
           \/ \E dir \in Dirs, i \in Deeds, writer \in {"create", "backfill"} :
                  AppendLog(dir, i, writer)
    PROVE  LookInv'
<1>1. StoresOK
  BY DEF LookInv
<1>2. ASSUME NEW dir \in Busy, MakesStore(dir) PROVE LookInv'
  <2>1. StoresOK'
    BY <1>1, <1>2 DEF MakesStore, StoresOK, SeatAssumption, deeds, lines
  <2> QED
    BY <1>2, <2>1, QuietLook DEF MakesStore, deeds
<1>3. ASSUME NEW dir \in Busy, NEW i \in Deeds, OtherFreezes(dir, i) PROVE LookInv'
  <2>1. StoresOK'
    BY <1>1, <1>3 DEF OtherFreezes, Freeze, StoresOK, SeatAssumption
  <2> QED
    BY <1>3, <2>1, WatchLook DEF OtherFreezes, Freeze
<1>4. ASSUME NEW dir \in Busy, NEW i \in Deeds, OtherDeletes(dir, i) PROVE LookInv'
  <2>1. StoresOK' /\ \A k \in Dirs : tombs[k] \subseteq tombs'[k]
    BY <1>1, <1>4 DEF OtherDeletes, StoresOK, SeatAssumption, lines
  <2> QED
    BY <1>4, <2>1, WatchLook DEF OtherDeletes
<1>5. ASSUME NEW dir \in Busy, NEW i \in Deeds, Backfill(dir, i) PROVE LookInv'
  <2>1. StoresOK'
    BY <1>1, <1>5 DEF Backfill, StoresOK, SeatAssumption, deeds
  <2> QED
    BY <1>5, <2>1, QuietLook DEF Backfill, deeds
<1>6. ASSUME NEW dir \in Dirs, NEW i \in Deeds, NEW writer \in {"create", "backfill"},
             AppendLog(dir, i, writer)
      PROVE  LookInv'
  <2>1. StoresOK'
    BY <1>1, <1>6 DEF AppendLog, StoresOK, deeds
  <2> QED
    BY <1>6, <2>1, QuietLook DEF AppendLog, deeds
<1> QED
  BY <1>2, <1>3, <1>4, <1>5, <1>6

-----------------------------------------------------------------------------
(* A command up to the store it opens, and one of no deed. *)

LEMMA NotLooking ==
    ASSUME StoresOK', CmdOK', cmd'.at \notin Looking, look' = NoLook PROVE LookInv'
  BY DEF LookInv

LEMMA AskingLook ==
    ASSUME SeatAssumption, LookInv,
           \/ \E command \in Commands : Begin(command, FALSE)
           \/ \E call \in Calls : Begin(call, TRUE)
           \/ Split \/ TakeUrl \/ TakeMissing \/ Open
    PROVE  LookInv'
<1>1. StoresOK /\ CmdOK /\ (cmd.at \notin Looking => look = NoLook)
  BY DEF LookInv
<1>2. Idle.at = "idle" /\ DOMAIN Idle = {"at"}
  BY DEF Idle
<1>3. ASSUME cmd' = Idle PROVE CmdOK' /\ cmd'.at \notin Looking
  BY <1>2, <1>3 DEF CmdOK, Asking, Looking
<1>4. ASSUME NEW command, NEW tool, Begin(command, tool) PROVE LookInv'
  <2>1. DOMAIN cmd' = Calling /\ cmd'.at \in {"take", "split"}
    BY <1>4 DEF Begin, Calling
  <2>2. CmdOK' /\ cmd'.at \notin Looking
    BY <2>1 DEF CmdOK, Asking, Looking, Calling
  <2>3. StoresOK' /\ look' = NoLook
    BY <1>1, <1>2, <1>4 DEF Begin, StoresOK, deeds, Looking
  <2> QED
    BY <2>2, <2>3, NotLooking
<1>5. ASSUME cmd.at \in Asking, DOMAIN cmd' = Calling, cmd'.at \in Asking
      PROVE  CmdOK' /\ cmd'.at \notin Looking
  BY <1>5 DEF CmdOK, Asking, Looking, Calling
<1>6. ASSUME cmd.at \in Asking, NEW at \in Asking, cmd' = [cmd EXCEPT !.at = at]
      PROVE  CmdOK' /\ cmd'.at \notin Looking
  <2>1. DOMAIN cmd' = Calling /\ cmd'.at = at
    BY <1>1, <1>6 DEF CmdOK, Calling
  <2> QED
    BY <1>5, <1>6, <2>1
<1>7. ASSUME cmd.at \in Asking, NEW url, Taken(url) PROVE CmdOK' /\ cmd'.at \notin Looking
  <2>1. DOMAIN cmd' = Calling /\ cmd'.at \in {"take", "open"}
    BY <1>1, <1>7 DEF CmdOK, Calling, Taken
  <2> QED
    BY <1>5, <1>7, <2>1 DEF Asking
<1>8. CASE Split
  <2>1. cmd.at \in Asking /\ look = NoLook
    BY <1>1, <1>8 DEF Split, Asking, Looking
  <2>2. StoresOK' /\ look' = NoLook
    BY <1>1, <1>8, <2>1 DEF Split, StoresOK, deeds, End
  <2>3. CmdOK' /\ cmd'.at \notin Looking
    <3>1. CASE End
      BY <1>3, <3>1 DEF End
    <3>2. ASSUME NEW rest, NEW url, cmd' = [cmd EXCEPT !.at = "take", !.rest = rest, !.named = url]
          PROVE  CmdOK' /\ cmd'.at \notin Looking
      <4>1. DOMAIN cmd' = Calling /\ cmd'.at = "take"
        BY <1>1, <2>1, <3>2 DEF CmdOK, Calling
      <4> QED
        BY <1>5, <2>1, <4>1 DEF Asking
    <3> QED
      BY <1>8, <3>1, <3>2 DEF Split
  <2> QED
    BY <2>2, <2>3, NotLooking
<1>9. CASE TakeUrl
  <2>1. cmd.at \in Asking /\ look = NoLook
    BY <1>1, <1>9 DEF TakeUrl, Asking, Looking
  <2>2. StoresOK' /\ look' = NoLook
    BY <1>1, <1>9, <2>1 DEF TakeUrl, StoresOK, deeds
  <2>3. (\E url : Taken(url)) \/ cmd' = [cmd EXCEPT !.at = "takeMissing"]
    BY <1>9 DEF TakeUrl, Goto
  <2> QED
    BY <1>6, <1>7, <2>1, <2>2, <2>3, NotLooking DEF Asking
<1>10. CASE TakeMissing
  <2>1. cmd.at \in Asking /\ look = NoLook
    BY <1>1, <1>10 DEF TakeMissing, Asking, Looking
  <2>2. StoresOK' /\ look' = NoLook
    BY <1>1, <1>10, <2>1 DEF TakeMissing, StoresOK, deeds, End
  <2>3. Taken("seat") \/ cmd' = Idle
    BY <1>10 DEF TakeMissing, End
  <2> QED
    BY <1>3, <1>7, <2>1, <2>2, <2>3, NotLooking
<1>11. CASE Open
  <2>1. cmd.at \in Asking /\ look = NoLook
    BY <1>1, <1>11 DEF Open, Asking, Looking
  <2>2. look' = NoLook /\ StoresOK'
    BY <1>1, <1>11, <2>1 DEF Open, StoresOK, deeds, End
  <2>3. CASE End
    BY <1>3, <2>2, <2>3, NotLooking DEF End
  <2>4. CASE /\ cmd.url \in Dirs
             /\ cmd' = [at |-> "opened", tool |-> cmd.tool, rest |-> cmd.rest, url |-> cmd.url]
    <3>1. DOMAIN cmd' = Opened /\ cmd'.at = "opened" /\ cmd'.url \in Dirs
      BY <2>4 DEF Opened
    <3>2. CmdOK' /\ cmd'.at \notin Looking
      BY <3>1 DEF CmdOK, Opened, Asking, Looking
    <3> QED
      BY <2>2, <3>2, NotLooking
  <2> QED
    BY <1>11, <2>3, <2>4 DEF Open
<1> QED
  BY <1>4, <1>8, <1>9, <1>10, <1>11

LEMMA PlainLook ==
    ASSUME SeatAssumption, LookInv, Create \/ Other PROVE LookInv'
<1>1. StoresOK /\ CmdOK /\ cmd.url \in Dirs
  BY DEF LookInv, CmdOK, Create, Other
<1>2. cmd' = Idle /\ look' = NoLook
  BY DEF Create, Other, End
<1>3. Idle.at = "idle" /\ DOMAIN Idle = {"at"}
  BY DEF Idle
<1>4. CmdOK' /\ cmd'.at \notin Looking
  BY <1>2, <1>3 DEF CmdOK, Asking, Looking
<1>5. StoresOK'
  <2>1. ASSUME NEW i \in Deeds, Freeze(cmd.url, i) PROVE StoresOK'
    BY <1>1, <2>1 DEF Freeze, StoresOK
  <2>2. CASE UNCHANGED <<paths, deeds, lines>>
    BY <1>1, <2>2 DEF StoresOK, deeds
  <2> QED
    BY <2>1, <2>2 DEF Create, Other
<1> QED
  BY <1>2, <1>4, <1>5, NotLooking

-----------------------------------------------------------------------------
(* The lookup itself. *)

Still == UNCHANGED <<paths, deeds, lines>>

LEMMA StillStores == ASSUME LookInv, Still PROVE StoresOK'
  BY DEF LookInv, StoresOK, Still, deeds

(* A command that goes on to another place of the lookup. *)
LEMMA GoesTo ==
    ASSUME LookInv, cmd.at \in Looking, NEW at \in Looking, Goto(at)
    PROVE  CmdOK' /\ cmd'.at = at /\ cmd'.url = cmd.url /\ cmd'.rest = cmd.rest
<1>1. DOMAIN cmd = Opened /\ cmd.url \in Dirs
  BY DEF LookInv, CmdOK
<1>2. DOMAIN cmd' = Opened /\ cmd'.at = at /\ cmd'.url = cmd.url /\ cmd'.rest = cmd.rest
  BY <1>1 DEF Goto, Opened
<1> QED
  BY <1>1, <1>2 DEF CmdOK, Opened, Asking, Looking

(* What it had of the deeds served it still has. *)
LEMMA WatchStays ==
    ASSUME LookInv, cmd.at \in Looking \ {"told"}, Still, cmd'.url = cmd.url,
           DOMAIN look' = Looks, look'.steady = look.steady, look'.seen = look.seen
    PROVE  Watching'
  BY DEF LookInv, Watching, Still, deeds, Served

LEMMA SoleSame ==
    ASSUME look'.raw = look.raw, look'.steady = look.steady, look'.seen = look.seen, NEW i
    PROVE  Sole(i)' <=> Sole(i)
<1>1. Names(look.raw)' = Names(look'.raw)
  BY DEF Names, Starts, Is
<1> QED
  BY <1>1 DEF Sole

LEMMA FoundLook ==
    ASSUME SeatAssumption, LookInv, cmd.at \in Looking \ {"told"}, Still,
           NEW found, Found(found), found # {}, found \subseteq Names(look.raw),
           \A i \in Deeds : Sole(i) => found = {i}
    PROVE  LookInv'
<1>1. Watching
  BY DEF LookInv
<1>2. PICK at \in {"act", "check"} : Goto(at)
  BY DEF Found
<1>3. CmdOK' /\ cmd'.at = at /\ cmd'.url = cmd.url
  BY <1>2, GoesTo DEF Looking
<1>4. /\ DOMAIN look' = Looks /\ look'.found = found /\ look'.raw = look.raw
      /\ look'.steady = look.steady /\ look'.seen = look.seen
  BY <1>1 DEF Found, Watching, Looks
<1>5. Watching'
  BY <1>3, <1>4, WatchStays
<1>6. Knows'
  BY <1>3, <1>4, SoleSame DEF Knows, ResolveWasTrue, Names, Starts, Is
<1> QED
  BY <1>2, <1>3, <1>5, <1>6, StillStores DEF LookInv, Looking

(* What was found so far is kept, of which a walk over the shelf makes no use. *)
LEMMA WalkLook ==
    ASSUME SeatAssumption, LookInv, cmd.at \in Looking \ {"told"}, Still,
           NEW at \in {"list", "explain"}, Walk(at),
           at = "list" => Is(look.raw) \in {"digest", "address"} /\ look.found = {},
           at = "explain" => \A i \in Deeds : ~Sole(i)
    PROVE  LookInv'
<1>1. Watching /\ cmd.url \in Dirs
  BY DEF LookInv, CmdOK
<1>2. CmdOK' /\ cmd'.at = at /\ cmd'.url = cmd.url
  BY GoesTo DEF Walk, Looking
<1>3. /\ DOMAIN look' = Looks /\ look'.found = look.found /\ look'.raw = look.raw
      /\ look'.steady = look.steady /\ look'.seen = look.seen
      /\ look'.left = shelf[cmd.url] /\ look'.done = {} /\ look'.listed = {}
  BY <1>1 DEF Walk, Watching, Looks
<1>4. Watching'
  BY <1>2, <1>3, WatchStays
<1>5. Listing'
  BY <1>1, <1>3 DEF Watching, Listing, Served
<1>6. Knows'
  BY <1>2, <1>3, <1>5, SoleSame DEF Knows, ResolveWasTrue, Is
<1> QED
  BY <1>2, <1>4, <1>6, StillStores DEF LookInv, Looking

LEMMA ExplainLook ==
    ASSUME SeatAssumption, LookInv, cmd.at \in Looking \ {"told"}, Still, Explain,
           \A i \in Deeds : ~Sole(i)
    PROVE  LookInv'
<1>1. Watching
  BY DEF LookInv
<1>2. CASE Walk("explain")
  BY <1>2, WalkLook
<1>3. CASE Say("nothing")
  <2>1. CmdOK' /\ cmd'.at = "told" /\ cmd'.url = cmd.url
    BY <1>3, GoesTo DEF Say, Looking
  <2>2. /\ DOMAIN look' = Looks /\ look'.said = "nothing" /\ look'.raw = look.raw
        /\ look'.steady = look.steady /\ look'.seen = look.seen
    BY <1>1, <1>3 DEF Say, Watching, Looks
  <2>3. Watching'
    BY <2>1, <2>2, WatchStays
  <2>4. \A i \in look'.steady : Names(look'.raw) \cap look'.seen # {i}
    BY <1>1, <2>2 DEF Watching, Sole
  <2>5. Knows'
    BY <2>1, <2>2, <2>4 DEF Knows, ResolveWasTrue, Names, Starts, Is
  <2> QED
    BY <2>1, <2>3, <2>5, StillStores DEF LookInv, Looking
<1> QED
  BY <1>2, <1>3 DEF Explain

(* A deed found is one the word names; one the log misses is looked for. *)
LEMMA FindingLook ==
    ASSUME SeatAssumption, LookInv, Resolve \/ TryHit \/ EndHits PROVE LookInv'
<1>1. /\ cmd.at \in Looking \ {"told"} /\ Watching /\ Knows /\ cmd.url \in Dirs
      /\ StoresOK /\ CmdOK /\ Still
  BY DEF Resolve, TryHit, EndHits, LookInv, CmdOK, Looking, Still
<1>2. CASE Resolve
  <2>1. CASE Is(look.raw) = "accession"
    <3>1. Found(Names(look.raw))
      BY <1>2, <2>1 DEF Resolve
    <3>2. PICK i \in Deeds : Names(look.raw) = {i}
      BY <2>1, WordsNameDeeds
    <3> QED
      BY <1>1, <3>1, <3>2, FoundLook DEF Sole
  <2>2. CASE Is(look.raw) \in {"prefix", "nothing"}
    <3>1. Explain
      BY <1>2, <2>2 DEF Resolve
    <3>2. Names(look.raw) = {}
      BY <2>2, WordsNameDeeds
    <3> QED
      BY <1>1, <3>1, <3>2, ExplainLook DEF Sole
  <2>3. CASE Is(look.raw) \in {"digest", "address"}
    <3>1. PICK left : Goto("hits") /\ look' = [look EXCEPT !.left = left]
      BY <1>2, <2>3 DEF Resolve
    <3>2. CmdOK' /\ cmd'.at = "hits" /\ cmd'.url = cmd.url
      BY <1>1, <3>1, GoesTo DEF Looking
    <3>3. /\ DOMAIN look' = Looks /\ look'.raw = look.raw /\ look'.found = look.found
          /\ look'.steady = look.steady /\ look'.seen = look.seen
      BY <1>1, <3>1 DEF Watching, Looks
    <3>4. look.found = {}
      BY <1>1, <1>2 DEF Knows, Resolve
    <3>5. Watching'
      BY <1>1, <3>2, <3>3, WatchStays
    <3>6. Knows'
      BY <2>3, <3>2, <3>3, <3>4 DEF Knows, ResolveWasTrue, Names, Starts, Is
    <3> QED
      BY <1>1, <3>2, <3>5, <3>6, StillStores DEF LookInv, Looking
  <2> QED
    BY <2>1, <2>2, <2>3, WordsNameDeeds
<1>3. CASE TryHit
  <2>1. cmd' = cmd /\ cmd.at = "hits"
    BY <1>3 DEF TryHit
  <2>2. PICK i, left, found :
            /\ look' = [look EXCEPT !.left = left, !.found = found]
            /\ found = IF IsHit(i) THEN {i} ELSE look.found
    BY <1>3 DEF TryHit
  <2>3. /\ DOMAIN look' = Looks /\ look'.raw = look.raw /\ look'.found = found
        /\ look'.steady = look.steady /\ look'.seen = look.seen
    BY <1>1, <2>2 DEF Watching, Looks
  <2>4. Is(look.raw) \in {"digest", "address"} /\ look.found \subseteq Names(look.raw) \cap look.seen
    BY <1>1, <2>1 DEF Knows
  <2>5. ASSUME IsHit(i) PROVE i \in Names(look.raw) \cap look.seen
    <3>1. i \in Deeds /\ i \in Served(cmd.url)
      BY <1>1, <2>5 DEF IsHit, Served, StoresOK
    <3>2. i \in look.seen
      BY <1>1, <2>1, <3>1 DEF Watching
    <3> QED
      BY <2>4, <2>5, <3>1, <3>2, DigestsTell DEF IsHit
  <2>6. found \subseteq Names(look.raw) \cap look.seen
    BY <2>2, <2>4, <2>5
  <2>7. Watching'
    BY <1>1, <2>1, <2>3, WatchStays
  <2>8. Knows'
    BY <2>1, <2>3, <2>4, <2>6 DEF Knows, ResolveWasTrue, Names, Starts, Is
  <2> QED
    BY <1>1, <2>1, <2>7, <2>8, StillStores DEF LookInv, CmdOK
<1>4. CASE EndHits
  <2>1. cmd.at = "hits"
    BY <1>4 DEF EndHits
  <2>2. Is(look.raw) \in {"digest", "address"} /\ look.found \subseteq Names(look.raw) \cap look.seen
    BY <1>1, <2>1 DEF Knows
  <2>3. CASE look.found # {}
    <3>1. Found(look.found)
      BY <1>4, <2>3 DEF EndHits
    <3>2. \A i \in Deeds : Sole(i) => look.found = {i}
      BY <2>2, <2>3 DEF Sole
    <3> QED
      BY <1>1, <2>2, <2>3, <3>1, <3>2, FoundLook
  <2>4. CASE look.found = {}
    BY <1>1, <1>4, <2>2, <2>4, WalkLook DEF EndHits
  <2> QED
    BY <2>3, <2>4
<1> QED
  BY <1>2, <1>3, <1>4

(* The walk over the shelf lists what is served from first to last. *)
LEMMA VisitLook == ASSUME SeatAssumption, LookInv, Visit PROVE LookInv'
<1>1. /\ cmd.at \in {"list", "explain"} /\ Watching /\ Knows /\ cmd.url \in Dirs
      /\ StoresOK /\ CmdOK /\ Still /\ cmd' = cmd
  BY DEF Visit, LookInv, CmdOK, Looking, Still
<1>2. Listing
  BY <1>1 DEF Knows
<1>3. PICK i, listed :
          /\ look' = [look EXCEPT !.done = look.done \cup {i}, !.listed = listed]
          /\ listed = IF i \in Served(cmd.url) THEN look.listed \cup {i} ELSE look.listed
  BY DEF Visit
<1>4. /\ DOMAIN look' = Looks /\ look'.raw = look.raw /\ look'.found = look.found
      /\ look'.steady = look.steady /\ look'.seen = look.seen /\ look'.left = look.left
      /\ look'.done = look.done \cup {i} /\ look'.listed = listed
  BY <1>1, <1>3 DEF Watching, Looks
<1>5. look.steady \subseteq Served(cmd.url) /\ Served(cmd.url) \subseteq look.seen
  BY <1>1 DEF Watching
<1>6. Listing'
  BY <1>2, <1>3, <1>4, <1>5 DEF Listing
<1>7. Watching'
  BY <1>1, <1>4, WatchStays DEF Looking
<1>8. Knows'
  BY <1>1, <1>4, <1>6, SoleSame DEF Knows, ResolveWasTrue, Is
<1> QED
  BY <1>1, <1>7, <1>8, StillStores DEF LookInv, CmdOK, Looking

(* listed: what it answers with has the digest or the file, and is alone with it. *)
LEMMA EndListLook == ASSUME SeatAssumption, LookInv, EndList PROVE LookInv'
<1>1. /\ cmd.at = "list" /\ Watching /\ Knows /\ Still
      /\ look.left \subseteq look.done
  BY DEF EndList, LookInv, CmdOK, Looking, Still
<1>2. Is(look.raw) \in {"digest", "address"} /\ Listing
  BY <1>1 DEF Knows
<1>3. look.listed \subseteq look.seen /\ look.seen \subseteq Deeds
      /\ look.steady \subseteq look.listed
  BY <1>1, <1>2 DEF Watching, Listing
<1>4. PICK digests, products :
          /\ digests = {i \in look.listed : DigestText(i) = DigestOf(look.raw)}
          /\ products = IF Is(look.raw) = "address" THEN look.listed \cap Sharers ELSE {}
  OBVIOUS
<1>5. /\ digests # {} => Found(digests)
      /\ digests = {} /\ Cardinality(products) = 1 => Found(products)
      /\ digests = {} /\ Cardinality(products) # 1 => Explain
  BY <1>4 DEF EndList
<1>6. cmd.at \in Looking \ {"told"}
  BY <1>1 DEF Looking
<1>7. CASE digests # {}
  <2>1. Is(look.raw) = "digest" /\ \A i \in digests : Names(look.raw) = {i}
    <3>1. ASSUME NEW i \in digests PROVE Is(look.raw) = "digest" /\ Names(look.raw) = {i}
      <4>1. i \in Deeds /\ DigestText(i) = DigestOf(look.raw)
        BY <1>3, <1>4
      <4> QED
        BY <1>2, <4>1, DigestsTell
    <3> QED
      BY <1>7, <3>1
  <2>2. digests = Names(look.raw)
    <3>1. PICK i \in digests : Names(look.raw) = {i}
      BY <1>7, <2>1
    <3>2. \A k \in digests : k = i
      BY <2>1, <3>1
    <3>3. digests \subseteq {i} /\ i \in digests
      BY <3>2
    <3>4. digests = {i}
      BY <3>3
    <3> QED
      BY <3>1, <3>4
  <2>3. \A i \in Deeds : Sole(i) => digests = {i}
    BY <1>7, <2>1, <2>2 DEF Sole
  <2> QED
    BY <1>5, <1>6, <1>7, <1>1, <2>2, <2>3, FoundLook
<1>8. CASE digests = {} /\ Is(look.raw) = "digest"
  <2>1. products = {} /\ Cardinality({}) = 0
    BY <1>4, <1>8, FS_EmptySet
  <2>2. Explain
    BY <1>5, <1>8, <2>1
  <2>3. ASSUME NEW i \in Deeds, Sole(i) PROVE FALSE
    <3>1. i \in look.listed /\ i \in Names(look.raw)
      BY <1>3, <2>3 DEF Sole
    <3>2. PICK k \in Deeds : Names(look.raw) = {k}
      BY <1>8, WordsNameDeeds
    <3> QED
      BY <1>4, <1>8, <3>1, <3>2, DigestsTell
  <2> QED
    BY <1>1, <1>6, <2>2, <2>3, ExplainLook
<1>9. CASE digests = {} /\ Is(look.raw) = "address"
  <2>1. Names(look.raw) = Sharers /\ products = look.listed \cap Sharers
    BY <1>4, <1>9, WordsNameDeeds
  <2>2. \A i \in Deeds : Sole(i) => products = {i}
    BY <1>3, <2>1 DEF Sole
  <2>3. CASE Cardinality(products) = 1
    <3>1. products # {}
      <4>1. Cardinality({}) # 1
        BY FS_EmptySet
      <4> QED
        BY <2>3, <4>1, Zenon
    <3> QED
      BY <1>1, <1>5, <1>6, <1>9, <2>1, <2>2, <2>3, <3>1, FoundLook
  <2>4. CASE Cardinality(products) # 1
    <3>1. ASSUME NEW i \in Deeds, Sole(i) PROVE FALSE
      <4>1. products = {i}
        BY <2>2, <3>1
      <4>2. Cardinality({i}) = 1
        BY FS_Singleton
      <4> QED
        BY <2>4, <4>1, <4>2
    <3> QED
      BY <1>1, <1>5, <1>6, <1>9, <2>4, <3>1, ExplainLook
  <2> QED
    BY <2>3, <2>4
<1> QED
  BY <1>2, <1>7, <1>8, <1>9

LEMMA CheckLook == ASSUME SeatAssumption, LookInv, Check PROVE LookInv'
<1>1. /\ cmd.at = "check" /\ cmd.at \in Looking \ {"told"} /\ Watching /\ Knows /\ Still
  BY DEF Check, LookInv, CmdOK, Looking, Still
<1>2. CASE look.found \subseteq shelf[cmd.url]
  <2>1. Goto("act") /\ look' = look
    BY <1>2 DEF Check
  <2>2. CmdOK' /\ cmd'.at = "act" /\ cmd'.url = cmd.url
    BY <1>1, <2>1, GoesTo DEF Looking
  <2>3. Watching'
    BY <1>1, <2>1, <2>2, WatchStays DEF Watching
  <2>4. Knows'
    BY <1>1, <2>1, <2>2, SoleSame DEF Knows, ResolveWasTrue, Names, Starts, Is
  <2> QED
    BY <2>2, <2>3, <2>4, <1>1, StillStores DEF LookInv, Looking
<1>3. CASE ~(look.found \subseteq shelf[cmd.url])
  <2>1. ASSUME NEW i \in Deeds, Sole(i) PROVE FALSE
    BY <1>1, <1>3, <2>1 DEF Knows, Watching, Sole, Served
  <2> QED
    BY <1>1, <1>3, <2>1, ExplainLook DEF Check
<1> QED
  BY <1>2, <1>3

(* The verb finds the deed, or finds it deleted, or it is not the sole one. *)
LEMMA ActLook == ASSUME SeatAssumption, LookInv, Act PROVE LookInv'
<1>1. /\ cmd.at = "act" /\ cmd.at \in Looking \ {"told"} /\ Watching /\ Knows
      /\ cmd.url \in Dirs /\ StoresOK /\ UNCHANGED <<paths, shelf>>
  BY DEF Act, LookInv, CmdOK, Looking
<1>2. /\ look.found # {} /\ look.found \subseteq Names(look.raw)
      /\ \A i \in Deeds : Sole(i) => look.found = {i}
  BY <1>1 DEF Knows
<1>3. /\ look.steady \subseteq Served(cmd.url) /\ Served(cmd.url) \subseteq look.seen
      /\ look.seen \subseteq Deeds
  BY <1>1 DEF Watching
<1>4. CASE look.found \subseteq Served(cmd.url) \/ look.found \subseteq tombs[cmd.url]
  <2>1. PICK said \in {"deed", "gone"} :
            /\ Say(said)
            /\ said = IF look.found \subseteq Served(cmd.url) THEN "deed" ELSE "gone"
    BY <1>4 DEF Act
  <2>2. CmdOK' /\ cmd'.at = "told" /\ cmd'.url = cmd.url
    BY <1>1, <2>1, GoesTo DEF Say, Looking
  <2>3. /\ DOMAIN look' = Looks /\ look'.said = said /\ look'.raw = look.raw
        /\ look'.found = look.found /\ look'.steady = look.steady /\ look'.seen = look.seen
    BY <1>1, <2>1 DEF Say, Watching, Looks
  <2>4. StoresOK' /\ tombs[cmd.url] \subseteq tombs'[cmd.url]
    <3>1. \/ tombs' = tombs
          \/ /\ look.found \subseteq Served(cmd.url)
             /\ tombs' = [tombs EXCEPT ![cmd.url] = tombs[cmd.url] \cup look.found]
      BY DEF Act
    <3>2. CASE tombs' = tombs
      BY <1>1, <3>2 DEF StoresOK
    <3>3. CASE /\ look.found \subseteq Served(cmd.url)
               /\ tombs' = [tombs EXCEPT ![cmd.url] = tombs[cmd.url] \cup look.found]
      <4>1. look.found \subseteq Deeds
        BY <1>3, <3>3
      <4> QED
        BY <1>1, <3>3, <4>1 DEF StoresOK
    <3> QED
      BY <3>1, <3>2, <3>3
  <2>5. Watching'
    BY <1>1, <2>2, <2>3 DEF Watching
  <2>6. ASSUME NEW i \in look.steady, Names(look.raw) \cap look.seen = {i}
        PROVE  said = "deed" /\ look.found = {i}
    <3>1. Sole(i) /\ i \in Deeds
      BY <1>3, <2>6 DEF Sole
    <3>2. look.found = {i}
      BY <1>2, <3>1
    <3>3. i \in Served(cmd.url)
      BY <1>3, <3>1
    <3> QED
      BY <2>1, <3>2, <3>3
  <2>7. said = "deed" => look.found \subseteq look.seen
    BY <1>3, <2>1
  <2>8. said = "gone" => look.found \subseteq tombs'[cmd.url]
    BY <1>4, <2>1, <2>4
  <2>9. Names(look'.raw) = Names(look.raw)
    BY <2>3
  <2>10. ResolveWasTrue'
    BY <1>2, <2>1, <2>2, <2>3, <2>6, <2>7, <2>8, <2>9 DEF ResolveWasTrue, Names, Starts, Is
  <2>11. Knows'
    BY <2>2, <2>10 DEF Knows
  <2> QED
    BY <2>2, <2>4, <2>5, <2>11 DEF LookInv, Looking
<1>5. CASE ~(look.found \subseteq Served(cmd.url)) /\ ~(look.found \subseteq tombs[cmd.url])
  <2>1. Explain
    BY <1>5 DEF Act
  <2>2. tombs' = tombs
    BY <1>5 DEF Act
  <2>3. Still
    BY <1>1, <2>2 DEF Act, Still, deeds
  <2>4. ASSUME NEW i \in Deeds, Sole(i) PROVE FALSE
    <3>1. look.found = {i} /\ i \in Served(cmd.url)
      BY <1>2, <1>3, <2>4 DEF Sole
    <3> QED
      BY <1>5, <3>1
  <2> QED
    BY <1>1, <2>1, <2>3, <2>4, ExplainLook
<1> QED
  BY <1>4, <1>5

LEMMA EndExplainLook == ASSUME SeatAssumption, LookInv, EndExplain PROVE LookInv'
<1>1. /\ cmd.at = "explain" /\ cmd.at \in Looking \ {"told"} /\ Watching /\ Knows /\ Still
      /\ look.left \subseteq look.done /\ Goto("told")
  BY DEF EndExplain, LookInv, CmdOK, Looking, Still
<1>2. Listing /\ \A i \in Deeds : ~Sole(i)
  BY <1>1 DEF Knows
<1>3. CmdOK' /\ cmd'.at = "told" /\ cmd'.url = cmd.url
  BY <1>1, GoesTo DEF Looking
<1>4. PICK listed :
          /\ look' = [look EXCEPT !.said = "names", !.listed = listed, !.left = {}, !.done = {}]
          /\ listed = look.listed \cap Starts(look.raw)
  BY DEF EndExplain
<1>5. /\ DOMAIN look' = Looks /\ look'.said = "names" /\ look'.listed = listed
      /\ look'.raw = look.raw /\ look'.steady = look.steady /\ look'.seen = look.seen
  BY <1>1, <1>4 DEF Watching, Looks
<1>6. /\ listed \subseteq look.seen
      /\ look.steady \cap Starts(look.raw) \subseteq listed
  BY <1>1, <1>2, <1>4 DEF Listing
<1>7. \A i \in look.steady : Names(look.raw) \cap look.seen # {i}
  BY <1>1, <1>2 DEF Watching, Sole
<1>8. Watching'
  BY <1>1, <1>3, <1>5, WatchStays
<1>9. Knows'
  BY <1>3, <1>5, <1>6, <1>7 DEF Knows, ResolveWasTrue, Names, Starts, Is
<1> QED
  BY <1>1, <1>3, <1>8, <1>9, StillStores DEF LookInv, Looking

(* A word is taken up. *)
LEMMA BeginLook ==
    ASSUME SeatAssumption, LookInv, LookUp \/ Told PROVE LookInv'
<1>1. StoresOK /\ CmdOK /\ Still /\ cmd.at \in {"opened", "told"}
  BY DEF LookUp, Told, LookInv, Still
<1>2. DOMAIN cmd = Opened /\ cmd.url \in Dirs
  BY <1>1 DEF CmdOK, Looking
<1>3. ASSUME NEW raw, NEW rest, look' = NewLook(raw),
             cmd' = [cmd EXCEPT !.at = "resolve", !.rest = rest]
      PROVE  LookInv'
  <2>1. DOMAIN cmd' = Opened /\ cmd'.at = "resolve" /\ cmd'.url = cmd.url
    BY <1>2, <1>3 DEF Opened
  <2>2. CmdOK'
    BY <1>2, <2>1 DEF CmdOK, Opened, Asking, Looking
  <2>3. /\ DOMAIN look' = Looks /\ look'.found = {}
        /\ look'.steady = Served(cmd.url) /\ look'.seen = Served(cmd.url)
    BY <1>3 DEF NewLook, Looks
  <2>4. Watching'
    BY <1>1, <1>2, <2>1, <2>3 DEF Watching, Served, StoresOK, Still, deeds
  <2>5. Knows'
    BY <2>1, <2>3 DEF Knows, ResolveWasTrue
  <2> QED
    BY <1>1, <2>1, <2>2, <2>4, <2>5, StillStores DEF LookInv, Looking
<1>4. CASE LookUp
  <2>1. cmd' = [cmd EXCEPT !.at = "resolve", !.rest = cmd.rest]
    BY <1>2, <1>4 DEF LookUp, Goto, Opened
  <2> QED
    BY <1>3, <1>4, <2>1 DEF LookUp
<1>5. CASE Told
  <2>1. CASE End
    <3>1. cmd'.at = "idle" /\ CmdOK'
      BY <2>1 DEF End, Idle, CmdOK, Asking, Looking
    <3> QED
      BY <1>1, <2>1, <3>1, NotLooking, StillStores DEF End, Looking
  <2>2. CASE ~End
    BY <1>3, <1>5, <2>2 DEF Told
  <2> QED
    BY <2>1, <2>2
<1> QED
  BY <1>4, <1>5

LEMMA NextLook ==
    ASSUME SeatAssumption, LookInv, Next PROVE LookInv'
  BY OthersLook, AskingLook, PlainLook, BeginLook, FindingLook, VisitLook, EndListLook,
     CheckLook, ActLook, EndExplainLook DEF Next

LEMMA StutterLook == ASSUME LookInv, UNCHANGED vars PROVE LookInv'
<1>1. UNCHANGED <<cmd, look, shelf, tombs, paths>>
  BY DEF vars, deeds
<1> QED
  BY <1>1, QuietLook DEF LookInv, StoresOK

LEMMA InitLook == ASSUME SeatAssumption, Init PROVE LookInv
<1>1. cmd.at = "idle" /\ "at" \in DOMAIN cmd
  BY DEF Init, Idle
<1> QED
  BY <1>1 DEF Init, LookInv, StoresOK, CmdOK, SeatAssumption, Asking, Looking

(* The inductive invariant: what each place of a lookup knows of the deeds
   that were served, for any stores, deeds, words and log texts. *)
THEOREM SeatInvariant == Spec => []LookInv
<1>1. Init => LookInv
  BY InitLook, SeatAssumption
<1>2. LookInv /\ [Next]_vars => LookInv'
  BY NextLook, StutterLook, SeatAssumption
<1> QED
  BY <1>1, <1>2, PTL DEF Spec

(* What a lookup answers was so while it ran (digest.rs, resolve; lookup.rs),
   whatever other seats froze, deleted, logged or tore meanwhile. *)
THEOREM LookupsAreTrue == Spec => []ResolveWasTrue
<1>1. LookInv => ResolveWasTrue
  BY DEF LookInv, Knows, ResolveWasTrue, Looking
<1> QED
  BY <1>1, SeatInvariant, PTL

-----------------------------------------------------------------------------
(* The seat's own store. *)

MakesWords == {"create", "import", "export"}

(* A command that was given no store opens the seat's, which is there, or is
   to be made by a verb that makes it. *)
SeatInv ==
    /\ StoresOK /\ CmdOK
    /\ cmd.at = "open" /\ cmd.env = "" /\ cmd.named = <<>> =>
           cmd.url = "seat" /\ (paths["seat"] = "dir" \/ Verb(cmd.rest) \in MakesWords)

(* A directory that is a store stays one. *)
LEMMA DirsStay ==
    ASSUME StoresOK, NEW dir \in Dirs, paths[dir] = "dir", [Next]_vars PROVE paths'[dir] = "dir"
<1>1. \/ paths' = paths
      \/ \E d : paths' = [paths EXCEPT ![d] = "dir"]
  BY DEF Next, vars, MakesStore, OtherFreezes, Freeze, OtherDeletes, Backfill, AppendLog,
         Begin, Split, TakeUrl, TakeMissing, Open, Create, Other, LookUp, Resolve, TryHit,
         EndHits, Visit, EndList, Check, Act, EndExplain, Told
<1> QED
  BY <1>1 DEF StoresOK

(* Only the first steps of a command leave it asking. *)
LEMMA AsksOn ==
    ASSUME CmdOK, [Next]_vars
    PROVE  \/ cmd' = cmd \/ TakeUrl \/ TakeMissing \/ Split
           \/ \E command \in Commands : Begin(command, FALSE)
           \/ \E call \in Calls : Begin(call, TRUE)
           \/ cmd'.at \notin Asking
<1>1. CASE Open \/ Create \/ Other
  <2>1. CASE End
    BY <2>1 DEF End, Idle, Asking
  <2>2. CASE Open /\ ~End
    <3>1. cmd' = [at |-> "opened", tool |-> cmd.tool, rest |-> cmd.rest, url |-> cmd.url]
      BY <2>2 DEF Open
    <3>2. cmd'.at = "opened"
      BY <3>1
    <3> QED
      BY <3>2 DEF Asking
  <2> QED
    BY <1>1, <2>1, <2>2 DEF Create, Other
<1>2. CASE \/ LookUp \/ Resolve \/ TryHit \/ EndHits \/ Visit \/ EndList
           \/ Check \/ Act \/ EndExplain \/ Told
  <2>1. CASE cmd' = cmd
    BY <2>1
  <2>2. CASE \E at \in Looking : Goto(at)
    <3>1. PICK at \in Looking : cmd' = [cmd EXCEPT !.at = at]
      BY <2>2 DEF Goto
    <3>2. cmd'.at = at
      BY <3>1 DEF CmdOK
    <3> QED
      BY <3>1, <3>2 DEF Looking, Asking
  <2>3. CASE End
    BY <2>3 DEF End, Idle, Asking
  <2>4. CASE Told /\ ~End
    <3>1. PICK rest : cmd' = [cmd EXCEPT !.at = "resolve", !.rest = rest]
      BY <2>4 DEF Told
    <3>2. cmd'.at = "resolve"
      BY <3>1 DEF CmdOK
    <3> QED
      BY <3>2 DEF Asking
  <2>5. CASE LookUp \/ EndExplain
    BY <2>2, <2>5 DEF LookUp, EndExplain, Looking
  <2>6. CASE TryHit \/ Visit
    BY <2>1, <2>6 DEF TryHit, Visit
  <2>7. \A found : Found(found) => \E at \in Looking : Goto(at)
    BY DEF Found, Looking
  <2>8. \A said : Say(said) => Goto("told")
    BY DEF Say
  <2>9. Walk("list") => Goto("list")
    BY DEF Walk
  <2>10. Explain => Goto("told") \/ Goto("explain")
    BY DEF Explain, Walk, Say
  <2>11. CASE Resolve
    <3>1. (\E found : Found(found)) \/ Explain \/ Goto("hits")
      BY <2>11 DEF Resolve
    <3> QED
      BY <2>2, <2>7, <2>10, <3>1 DEF Looking
  <2>12. CASE EndHits
    <3>1. (\E found : Found(found)) \/ Walk("list")
      BY <2>12 DEF EndHits
    <3> QED
      BY <2>2, <2>7, <2>9, <3>1 DEF Looking
  <2>13. CASE EndList
    <3>1. (\E found : Found(found)) \/ Explain
      BY <2>13 DEF EndList
    <3> QED
      BY <2>2, <2>7, <2>10, <3>1 DEF Looking
  <2>14. CASE Check
    BY <2>2, <2>10, <2>14 DEF Check, Looking
  <2>15. CASE Act
    BY <2>2, <2>8, <2>10, <2>15 DEF Act, Looking
  <2> QED
    BY <1>2, <2>3, <2>4, <2>5, <2>6, <2>11, <2>12, <2>13, <2>14, <2>15
<1>3. \/ cmd' = cmd \/ TakeUrl \/ TakeMissing \/ Split
      \/ \E command \in Commands : Begin(command, FALSE)
      \/ \E call \in Calls : Begin(call, TRUE)
      \/ Open \/ Create \/ Other
      \/ LookUp \/ Resolve \/ TryHit \/ EndHits \/ Visit \/ EndList
      \/ Check \/ Act \/ EndExplain \/ Told
  BY DEF Next, vars, MakesStore, OtherFreezes, OtherDeletes, Backfill, AppendLog
<1> QED
  BY <1>1, <1>2, <1>3

LEMMA OpensTheSeat ==
    ASSUME SeatAssumption, LookInv, SeatInv, [Next]_vars,
           cmd'.at = "open", cmd'.env = "", cmd'.named = <<>>
    PROVE  cmd'.url = "seat" /\ (paths'["seat"] = "dir" \/ Verb(cmd'.rest) \in MakesWords)
<1>1. StoresOK /\ CmdOK /\ "seat" \in Dirs
  BY DEF SeatInv, SeatAssumption
<1>2. CASE cmd' = cmd
  BY <1>1, <1>2, DirsStay DEF SeatInv
<1>3. CASE TakeUrl \/ TakeMissing
  <2>1. DOMAIN cmd = Calling
    BY <1>1, <1>3 DEF TakeUrl, TakeMissing, CmdOK, Asking
  <2>2. PICK url : /\ Taken(url)
                   /\ \/ cmd.named # <<>> \/ cmd.env # ""
                      \/ url = "seat" /\ (paths["seat"] = "dir" \/ Writes)
    <3>1. CASE TakeUrl
      <4>1. ASSUME cmd' = [cmd EXCEPT !.at = "takeMissing"] PROVE FALSE
        <5>1. cmd'.at = "takeMissing"
          BY <2>1, <4>1 DEF Calling
        <5> QED
          BY <5>1
      <4>2. PICK given : given = IF cmd.named = <<>> THEN cmd.env ELSE cmd.named[1]
        OBVIOUS
      <4>3. CASE given # ""
        <5>1. Taken(given)
          BY <3>1, <4>2, <4>3 DEF TakeUrl
        <5> QED
          BY <4>2, <4>3, <5>1
      <4>4. CASE given = "" /\ paths["seat"] = "dir"
        <5>1. Taken("seat")
          BY <3>1, <4>2, <4>4 DEF TakeUrl
        <5> QED
          BY <4>4, <5>1
      <4>5. CASE given = "" /\ paths["seat"] # "dir"
        <5>1. Goto("takeMissing")
          BY <3>1, <4>2, <4>5 DEF TakeUrl
        <5> QED
          BY <4>1, <5>1 DEF Goto
      <4> QED
        BY <4>3, <4>4, <4>5
    <3>2. CASE TakeMissing
      <4>1. ASSUME End PROVE FALSE
        <5>1. cmd'.at = "idle"
          BY <4>1 DEF End, Idle
        <5> QED
          BY <5>1
      <4>2. Taken("seat") /\ Writes
        BY <3>2, <4>1 DEF TakeMissing
      <4> QED
        BY <4>2
    <3> QED
      BY <1>3, <3>1, <3>2
  <2>3. /\ cmd'.url = url /\ cmd'.env = cmd.env /\ cmd'.named = cmd.named
        /\ cmd'.rest = cmd.rest
    BY <2>1, <2>2 DEF Taken, Calling
  <2>4. Writes => Verb(cmd.rest) \in MakesWords
    BY DEF Writes, MakesTheSeatStore, MakesWords
  <2>5. paths["seat"] = "dir" => paths'["seat"] = "dir"
    BY <1>1, DirsStay
  <2> QED
    BY <2>2, <2>3, <2>4, <2>5
<1>4. CASE \/ \E command, tool : Begin(command, tool)
           \/ Split
  <2>1. cmd'.at \in {"idle", "take", "split"}
    <3>1. ASSUME NEW command, NEW tool, Begin(command, tool)
          PROVE  cmd'.at \in {"take", "split"}
      BY <3>1 DEF Begin
    <3>2. CASE End
      BY <3>2 DEF End, Idle
    <3>3. CASE Split /\ ~End
      <4>1. DOMAIN cmd = Calling
        BY <1>1, <3>3 DEF Split, CmdOK, Asking
      <4>2. PICK s : s = SplitArgv(cmd.rest)
        OBVIOUS
      <4>4. cmd' = [cmd EXCEPT !.at = "take", !.rest = s.rest, !.named = s.url]
        BY <3>3, <4>2 DEF Split
      <4>3. cmd'.at = "take"
        BY <4>1, <4>4 DEF Calling
      <4> QED
        BY <4>3
    <3> QED
      BY <1>4, <3>1, <3>2, <3>3
  <2> QED
    BY <2>1
<1> QED
  BY <1>1, <1>2, <1>3, <1>4, AsksOn DEF Asking

-----------------------------------------------------------------------------
(* Induction, on the set of the numbers a claim holds for. *)

LEMMA Upward ==
    ASSUME NEW S, 0 \in S, \A n \in Nat : n \in S => n + 1 \in S
    PROVE  Nat \subseteq S
<1> DEFINE R == {ss \in Nat \X Nat : ss[1] < ss[2]}
<1>1. IsWellFoundedOn(R, Nat)
  BY NatLessThanWellFounded, Zenon DEF OpToRel
<1> HIDE DEF R
<1>2. SUFFICES ASSUME Nat \ S # {} PROVE FALSE
  OBVIOUS
<1>3. PICK x \in Nat \ S : \A y \in Nat \ S : ~ (<<y, x>> \in R)
  BY <1>1, <1>2, WFMin
<1>4. \A y \in Nat \ S : ~(y < x)
  BY <1>3 DEF R
<1>5. x # 0 /\ x - 1 \in Nat /\ (x - 1) + 1 = x
  OBVIOUS
<1>6. x - 1 \in S
  BY <1>4, <1>5
<1> QED
  BY <1>5, <1>6

-----------------------------------------------------------------------------
(* The pieces of a text, cut at a mark. *)

Put(parts, mark, c) ==
    IF c = mark THEN Append(parts, <<>>)
    ELSE Append(Front(parts), Append(Last(parts), c))

SplitBy(text, mark, split) ==
    [n \in 0..Len(text) |-> IF n = 0 THEN << <<>> >> ELSE Put(split[n - 1], mark, text[n])]

LEMMA SplitEnds ==
    ASSUME NEW text, Len(text) \in Nat, NEW mark
    PROVE  \E split : split = SplitBy(text, mark, split)
<1> DEFINE
      Ok(split, n) == \A k \in 0..Len(text) : k <= n => split[k] = SplitBy(text, mark, split)[k]
      T == {n \in Nat : \E split : Ok(split, n)}
<1>1. 0 \in T
  <2>1. PICK split : split = [k \in 0..Len(text) |-> << <<>> >>]
    OBVIOUS
  <2>2. Ok(split, 0)
    BY <2>1 DEF SplitBy
  <2> QED
    BY <2>2
<1>2. ASSUME NEW n \in Nat, n \in T PROVE n + 1 \in T
  <2>1. PICK split : Ok(split, n)
    BY <1>2
  <2>2. PICK more : more = SplitBy(text, mark, split)
    OBVIOUS
  <2>3. ASSUME NEW k \in 0..Len(text), k <= n + 1 PROVE more[k] = SplitBy(text, mark, more)[k]
    <3>1. CASE k = 0
      BY <2>2, <3>1 DEF SplitBy
    <3>2. CASE k # 0
      <4>1. k - 1 \in 0..Len(text) /\ k - 1 <= n
        BY <2>3, <3>2
      <4>2. more[k - 1] = split[k - 1]
        BY <2>1, <2>2, <4>1
      <4> QED
        BY <2>2, <3>2, <4>2 DEF SplitBy
    <3> QED
      BY <3>1, <3>2
  <2>4. Ok(more, n + 1)
    BY <2>3
  <2> HIDE DEF Ok
  <2> QED
    BY <2>4
<1>3. Len(text) \in T
  <2> HIDE DEF T
  <2> QED
    BY <1>1, <1>2, Upward
<1>4. PICK split : \A k \in 0..Len(text) : k <= Len(text) => split[k] = SplitBy(text, mark, split)[k]
  BY <1>3
<1>5. PICK all : all = [k \in 0..Len(text) |-> split[k]]
  OBVIOUS
<1>6. ASSUME NEW k \in 0..Len(text) PROVE all[k] = SplitBy(text, mark, all)[k]
  <2>1. split[k] = SplitBy(text, mark, split)[k]
    BY <1>4
  <2>2. k # 0 => all[k - 1] = split[k - 1]
    <3>1. ASSUME k # 0 PROVE k - 1 \in 0..Len(text)
      BY <3>1
    <3> QED
      BY <1>5, <3>1
  <2> QED
    BY <1>5, <2>1, <2>2 DEF SplitBy
<1>7. PICK by : by = SplitBy(text, mark, all)
  OBVIOUS
<1>8. by = [k \in 0..Len(text) |-> by[k]]
  BY <1>7 DEF SplitBy
<1>9. all = by
  <2>1. \A k \in 0..Len(text) : all[k] = by[k]
    BY <1>6, <1>7
  <2> QED
    BY <1>5, <1>8, <2>1
<1> QED
  BY <1>7, <1>9

Splits(text, mark, split) ==
    /\ SplitAt(text, mark) = split[Len(text)]
    /\ split[0] = << <<>> >>
    /\ \A n \in 1..Len(text) : split[n] = Put(split[n - 1], mark, text[n])

LEMMA SplitRuns ==
    ASSUME NEW text, Len(text) \in Nat, NEW mark
    PROVE  \E split : Splits(text, mark, split)
<1> DEFINE
      Round(split) == [n \in 0..Len(text) |->
                          IF n = 0 THEN << <<>> >>
                          ELSE IF text[n] = mark THEN Append(split[n - 1], <<>>)
                          ELSE Append(Front(split[n - 1]), Append(Last(split[n - 1]), text[n]))]
      split == CHOOSE split : split = Round(split)
<1>1. SplitAt(text, mark) = split[Len(text)]
  BY DEF SplitAt
<1>2. ASSUME NEW s PROVE SplitBy(text, mark, s) = Round(s)
  BY DEF SplitBy, Put
<1>3. split = Round(split)
  <2>1. PICK s : s = SplitBy(text, mark, s)
    BY SplitEnds
  <2>2. \E g : g = Round(g)
    <3>1. s = Round(s)
      BY <1>2, <2>1
    <3> HIDE DEF Round
    <3> QED
      BY <3>1
  <2> HIDE DEF Round
  <2> QED
    BY <2>2, Zenon
<1> HIDE DEF split
<1>4. ASSUME NEW n \in 0..Len(text)
      PROVE  split[n] = IF n = 0 THEN << <<>> >> ELSE Put(split[n - 1], mark, text[n])
  <2>1. split[n] = SplitBy(text, mark, split)[n]
    BY <1>2, <1>3
  <2> QED
    BY <2>1 DEF SplitBy
<1> HIDE DEF Round
<1>5. 0 \in 0..Len(text) /\ \A n \in 1..Len(text) : n \in 0..Len(text) /\ n # 0
  OBVIOUS
<1>6. split[0] = << <<>> >>
  BY <1>4, <1>5
<1>7. \A n \in 1..Len(text) : split[n] = Put(split[n - 1], mark, text[n])
  BY <1>4, <1>5
<1> QED
  BY <1>1, <1>6, <1>7 DEF Splits

(* A character more ends the last piece or belongs to it. *)
Puts(parts, mark, c, more) ==
    /\ more \in Seq(Seq(Nat))
    /\ c = mark => /\ Len(more) = Len(parts) + 1 /\ more[Len(parts) + 1] = <<>>
                   /\ \A m \in 1..Len(parts) : more[m] = parts[m]
    /\ c # mark => /\ Len(more) = Len(parts)
                   /\ more[Len(parts)] = Append(parts[Len(parts)], c)
                   /\ \A m \in 1..(Len(parts) - 1) : more[m] = parts[m]

LEMMA PutParts ==
    ASSUME NEW parts \in Seq(Seq(Nat)), parts # <<>>, NEW mark, NEW c \in Nat,
           NEW more, more = Put(parts, mark, c)
    PROVE  Puts(parts, mark, c, more)
<1>1. CASE c = mark
  <2>1. more = Append(parts, <<>>) /\ <<>> \in Seq(Nat)
    BY <1>1 DEF Put
  <2>2. PICK H, x : H = Seq(Nat) /\ x = <<>> /\ x \in H /\ parts \in Seq(H)
    BY <2>1
  <2>3. PICK longer \in Seq(H) :
            /\ longer = Append(parts, x) /\ Len(longer) = Len(parts) + 1
            /\ longer[Len(parts) + 1] = x /\ \A m \in 1..Len(parts) : longer[m] = parts[m]
    <3>1. /\ Append(parts, x) \in Seq(H) /\ Len(Append(parts, x)) = Len(parts) + 1
          /\ Append(parts, x)[Len(parts) + 1] = x
          /\ \A m \in 1..Len(parts) : Append(parts, x)[m] = parts[m]
      BY <2>2
    <3> QED
      BY <3>1
  <2> QED
    BY <1>1, <2>1, <2>2, <2>3 DEF Puts
<1>2. CASE c # mark
  <2>1. PICK l \in Nat : l = Len(parts) /\ l # 0
    OBVIOUS
  <2>2. PICK front \in Seq(Seq(Nat)) : /\ front = Front(parts) /\ Len(front) = l - 1
                                       /\ \A m \in 1..(l - 1) : front[m] = parts[m]
    <3>1. /\ SubSeq(parts, 1, l - 1) \in Seq(Seq(Nat)) /\ Len(SubSeq(parts, 1, l - 1)) = l - 1
          /\ \A m \in 1..(l - 1) : SubSeq(parts, 1, l - 1)[m] = parts[m]
      BY <2>1
    <3> QED
      BY <2>1, <3>1 DEF Front
  <2>3. PICK last \in Seq(Nat) : last = Append(parts[l], c)
    <3>1. parts[l] \in Seq(Nat)
      BY <2>1
    <3>2. Append(parts[l], c) \in Seq(Nat)
      BY <3>1
    <3> QED
      BY <3>2
  <2>4. more = Append(front, last)
    BY <1>2, <2>1, <2>2, <2>3 DEF Put, Last
  <2>5. more \in Seq(Seq(Nat)) /\ Len(more) = (l - 1) + 1 /\ more[(l - 1) + 1] = last
    BY <2>2, <2>4
  <2>6. \A m \in 1..(l - 1) : more[m] = front[m]
    BY <2>2, <2>4
  <2>7. (l - 1) + 1 = l
    BY <2>1
  <2> QED
    BY <1>2, <2>1, <2>2, <2>3, <2>5, <2>6, <2>7 DEF Puts
<1> QED
  BY <1>1, <1>2

(* The piece that ends before place b, behind place a. *)
IsPiece(text, mark, piece, a, b) ==
    /\ piece \in Seq(Nat) /\ a \in Nat /\ b = a + Len(piece) + 1
    /\ \A k \in 1..Len(piece) : piece[k] = text[a + k] /\ text[a + k] # mark

(* The pieces of the first n characters, and the places of the marks. *)
CutAt(text, mark, n, parts, cut) ==
    /\ parts \in Seq(Seq(Nat)) /\ parts # <<>>
    /\ cut[0] = 0 /\ cut[Len(parts)] = n + 1
    /\ \A m \in 1..Len(parts) : IsPiece(text, mark, parts[m], cut[m - 1], cut[m])
    /\ \A m \in 1..(Len(parts) - 1) : cut[m] \in 1..n /\ text[cut[m]] = mark

LEMMA CutOn ==
    ASSUME NEW text \in Seq(Nat), NEW mark, NEW n \in Nat, n + 1 \in 1..Len(text),
           NEW parts, NEW cut, CutAt(text, mark, n, parts, cut),
           NEW more, more = Put(parts, mark, text[n + 1])
    PROVE  \E new : CutAt(text, mark, n + 1, more, new)
<1>1. PICK c \in Nat : c = text[n + 1]
  OBVIOUS
<1>2. parts \in Seq(Seq(Nat)) /\ parts # <<>> /\ more = Put(parts, mark, c)
  BY <1>1 DEF CutAt
<1>3. Puts(parts, mark, c, more)
  BY <1>2, PutParts
<1>4. PICK l \in Nat \ {0} : l = Len(parts)
  BY <1>2
<1>5. PICK s \in Nat : s = Len(more)
  BY <1>3 DEF Puts
<1>6. PICK new : new = [m \in 0..s |-> IF m = s THEN n + 2 ELSE cut[m]]
  OBVIOUS
<1>7. /\ cut[0] = 0 /\ cut[l] = n + 1
      /\ \A m \in 1..l : IsPiece(text, mark, parts[m], cut[m - 1], cut[m])
      /\ \A m \in 1..(l - 1) : cut[m] \in 1..n /\ text[cut[m]] = mark
  BY <1>4 DEF CutAt
<1>8. CASE c = mark
  <2>1. s = l + 1 /\ more[l + 1] = <<>> /\ \A m \in 1..l : more[m] = parts[m]
    BY <1>3, <1>4, <1>5, <1>8 DEF Puts
  <2>2. new[s] = n + 2 /\ \A m \in 0..l : new[m] = cut[m]
    BY <1>6, <2>1
  <2>3. ASSUME NEW m \in 1..s PROVE IsPiece(text, mark, more[m], new[m - 1], new[m])
    <3>1. CASE m = s
      <4>1. more[m] = <<>> /\ new[m - 1] = n + 1 /\ new[m] = n + 2
        BY <1>7, <2>1, <2>2, <3>1
      <4>2. <<>> \in Seq(Nat) /\ Len(<<>>) = 0
        OBVIOUS
      <4> QED
        BY <4>1, <4>2 DEF IsPiece
    <3>2. CASE m # s
      <4>1. m \in 1..l /\ m - 1 \in 0..l
        BY <2>1, <3>2
      <4>2. more[m] = parts[m] /\ new[m - 1] = cut[m - 1] /\ new[m] = cut[m]
        BY <2>1, <2>2, <4>1
      <4> QED
        BY <1>7, <4>1, <4>2
    <3> QED
      BY <3>1, <3>2
  <2>4. ASSUME NEW m \in 1..(s - 1) PROVE new[m] \in 1..(n + 1) /\ text[new[m]] = mark
    <3>1. m \in 1..l /\ new[m] = cut[m]
      BY <2>1, <2>2
    <3>2. CASE m = l
      <4>1. new[m] = n + 1
        BY <1>7, <3>1, <3>2
      <4>2. text[n + 1] = mark /\ n + 1 \in 1..(n + 1)
        BY <1>1, <1>8
      <4> QED
        BY <4>1, <4>2
    <3>3. CASE m # l
      <4>1. m \in 1..(l - 1)
        BY <3>1, <3>3
      <4> QED
        BY <1>7, <3>1, <4>1
    <3> QED
      BY <3>2, <3>3
  <2>5. more # <<>> /\ new[0] = 0 /\ new[Len(more)] = (n + 1) + 1
    <3>1. 0 \in 0..l /\ s # 0
      BY <2>1
    <3>2. new[0] = 0 /\ new[s] = (n + 1) + 1
      BY <1>7, <2>2, <3>1
    <3>3. more # <<>>
      BY <1>3, <1>5, <3>1 DEF Puts
    <3> QED
      BY <1>5, <3>2, <3>3
  <2>6. CutAt(text, mark, n + 1, more, new)
    BY <1>3, <1>5, <2>3, <2>4, <2>5 DEF CutAt, Puts
  <2> QED
    BY <2>6
<1>9. CASE c # mark
  <2>1. s = l /\ more[l] = Append(parts[l], c) /\ \A m \in 1..(l - 1) : more[m] = parts[m]
    BY <1>3, <1>4, <1>5, <1>9 DEF Puts
  <2>2. new[l] = n + 2 /\ \A m \in 0..(l - 1) : new[m] = cut[m]
    BY <1>6, <2>1
  <2>3. ASSUME NEW m \in 1..s PROVE IsPiece(text, mark, more[m], new[m - 1], new[m])
    <3>1. CASE m = s
      <4>1. PICK old \in Seq(Nat), a \in Nat : old = parts[l] /\ a = cut[l - 1]
        BY <1>7 DEF IsPiece
      <4>2. IsPiece(text, mark, old, a, n + 1)
        BY <1>7, <4>1
      <4>3. PICK z \in Nat : z = Len(old)
        OBVIOUS
      <4>4. n + 1 = a + z + 1 /\ \A k \in 1..z : old[k] = text[a + k] /\ text[a + k] # mark
        BY <4>2, <4>3 DEF IsPiece
      <4>5. PICK longer \in Seq(Nat) :
                /\ longer = Append(old, c) /\ Len(longer) = z + 1 /\ longer[z + 1] = c
                /\ \A k \in 1..z : longer[k] = old[k]
        <5>1. /\ Append(old, c) \in Seq(Nat) /\ Len(Append(old, c)) = z + 1
              /\ Append(old, c)[z + 1] = c /\ \A k \in 1..z : Append(old, c)[k] = old[k]
          BY <4>3
        <5> QED
          BY <5>1
      <4>6. more[m] = longer /\ new[m - 1] = a /\ new[m] = n + 2
        BY <2>1, <2>2, <3>1, <4>1, <4>5
      <4>7. ASSUME NEW k \in 1..(z + 1) PROVE longer[k] = text[a + k] /\ text[a + k] # mark
        <5>1. CASE k = z + 1
          <6>1. a + k = n + 1
            BY <4>4, <5>1
          <6> QED
            BY <1>1, <1>9, <4>5, <5>1, <6>1
        <5>2. CASE k # z + 1
          <6>1. k \in 1..z
            BY <5>2
          <6> QED
            BY <4>4, <4>5, <6>1
        <5> QED
          BY <5>1, <5>2
      <4>8. IsPiece(text, mark, longer, a, n + 2)
        <5>1. n + 2 = a + (z + 1) + 1
          BY <4>4
        <5> QED
          BY <4>5, <4>7, <5>1 DEF IsPiece
      <4> QED
        BY <4>6, <4>8
    <3>2. CASE m # s
      <4>1. m \in 1..(l - 1) /\ m \in 1..l /\ m - 1 \in 0..(l - 1) /\ m \in 0..(l - 1)
        BY <2>1, <3>2
      <4>2. more[m] = parts[m] /\ new[m - 1] = cut[m - 1] /\ new[m] = cut[m]
        BY <2>1, <2>2, <4>1
      <4> QED
        BY <1>7, <4>1, <4>2
    <3> QED
      BY <3>1, <3>2
  <2>4. ASSUME NEW m \in 1..(s - 1) PROVE new[m] \in 1..(n + 1) /\ text[new[m]] = mark
    <3>1. m \in 1..(l - 1) /\ m \in 0..(l - 1)
      BY <2>1
    <3>2. new[m] = cut[m] /\ cut[m] \in 1..n /\ text[cut[m]] = mark
      BY <1>7, <2>2, <3>1
    <3> QED
      BY <3>2
  <2>5. more # <<>> /\ new[0] = 0 /\ new[Len(more)] = (n + 1) + 1
    <3>1. 0 \in 0..(l - 1) /\ s # 0
      BY <2>1
    <3>2. new[0] = 0 /\ new[s] = (n + 1) + 1
      BY <1>7, <2>1, <2>2, <3>1
    <3>3. more # <<>>
      BY <1>3, <1>5, <3>1 DEF Puts
    <3> QED
      BY <1>5, <3>2, <3>3
  <2>6. CutAt(text, mark, n + 1, more, new)
    BY <1>3, <1>5, <2>3, <2>4, <2>5 DEF CutAt, Puts
  <2> QED
    BY <2>6
<1> QED
  BY <1>8, <1>9

LEMMA SplitCuts ==
    ASSUME NEW text \in Seq(Nat), NEW mark
    PROVE  \E cut : CutAt(text, mark, Len(text), SplitAt(text, mark), cut)
<1>1. Len(text) \in Nat
  OBVIOUS
<1>2. PICK split : Splits(text, mark, split)
  BY <1>1, SplitRuns
<1>3. /\ SplitAt(text, mark) = split[Len(text)]
      /\ split[0] = << <<>> >>
      /\ \A n \in 1..Len(text) : split[n] = Put(split[n - 1], mark, text[n])
  BY <1>2 DEF Splits
<1> DEFINE T == {n \in Nat : n <= Len(text) => \E cut : CutAt(text, mark, n, split[n], cut)}
<1>4. 0 \in T
  <2>1. PICK cut : cut = [m \in 0..1 |-> m]
    OBVIOUS
  <2>2. PICK parts : parts = << <<>> >>
    OBVIOUS
  <2>3. /\ parts \in Seq(Seq(Nat)) /\ parts # <<>> /\ Len(parts) = 1
        /\ parts[1] = <<>> /\ <<>> \in Seq(Nat) /\ Len(<<>>) = 0
    BY <2>2
  <2>4. cut[0] = 0 /\ cut[1] = 1
    BY <2>1
  <2>5. IsPiece(text, mark, parts[1], cut[0], cut[1])
    BY <2>3, <2>4 DEF IsPiece
  <2>6. CutAt(text, mark, 0, parts, cut)
    BY <2>3, <2>4, <2>5 DEF CutAt
  <2> QED
    BY <1>3, <2>2, <2>6
<1>5. ASSUME NEW n \in Nat, n \in T PROVE n + 1 \in T
  <2>1. SUFFICES ASSUME n + 1 <= Len(text)
                 PROVE  \E cut : CutAt(text, mark, n + 1, split[n + 1], cut)
    OBVIOUS
  <2>2. n + 1 \in 1..Len(text) /\ (n + 1) - 1 = n /\ n <= Len(text)
    BY <2>1
  <2>3. PICK cut : CutAt(text, mark, n, split[n], cut)
    BY <1>5, <2>2
  <2>4. split[n + 1] = Put(split[n], mark, text[n + 1])
    BY <1>3, <2>2
  <2> QED
    BY <2>2, <2>3, <2>4, CutOn
<1>6. Len(text) \in T
  <2> HIDE DEF T
  <2> QED
    BY <1>4, <1>5, Upward
<1> QED
  BY <1>3, <1>6

(* Where a piece of a text stands in it. *)
Stands(text, mark, piece, a, ends) ==
    /\ a + Len(piece) <= Len(text)
    /\ a # 0 => a \in 1..Len(text) /\ text[a] = mark
    /\ \A k \in 1..Len(piece) : piece[k] = text[a + k] /\ text[a + k] # mark
    /\ ends => /\ a + Len(piece) + 1 \in 1..Len(text)
               /\ text[a + Len(piece) + 1] = mark

LEMMA PieceStands ==
    ASSUME NEW text \in Seq(Nat), NEW mark, NEW pieces, pieces = SplitAt(text, mark),
           NEW n \in DOMAIN pieces
    PROVE  /\ pieces[n] \in Seq(Nat)
           /\ \E a \in Nat : Stands(text, mark, pieces[n], a, n < Len(pieces))
<1>1. PICK cut : CutAt(text, mark, Len(text), pieces, cut)
  BY SplitCuts
<1>2. PICK l \in Nat : l = Len(text)
  OBVIOUS
<1>3. PICK s \in Nat : s = Len(pieces) /\ n \in 1..s
  <2>1. PICK H : H = Seq(Nat) /\ pieces \in Seq(H)
    BY <1>1 DEF CutAt
  <2>2. Len(pieces) \in Nat /\ DOMAIN pieces = 1..Len(pieces)
    BY <2>1
  <2> QED
    BY <2>2
<1>4. /\ cut[0] = 0 /\ cut[s] = l + 1
      /\ IsPiece(text, mark, pieces[n], cut[n - 1], cut[n])
      /\ \A m \in 1..(s - 1) : cut[m] \in 1..l /\ text[cut[m]] = mark
  BY <1>1, <1>2, <1>3 DEF CutAt
<1>5. PICK piece \in Seq(Nat), a \in Nat : piece = pieces[n] /\ a = cut[n - 1]
  BY <1>4 DEF IsPiece
<1>6. PICK z \in Nat : z = Len(piece)
  BY <1>5
<1>7. /\ cut[n] = a + z + 1
      /\ \A k \in 1..z : piece[k] = text[a + k] /\ text[a + k] # mark
  BY <1>4, <1>5, <1>6 DEF IsPiece
<1>8. a + z <= l
  <2>1. CASE n = s
    BY <1>4, <1>7, <2>1
  <2>2. CASE n # s
    <3>1. n \in 1..(s - 1)
      BY <1>3, <2>2
    <3> QED
      BY <1>4, <1>7, <3>1
  <2> QED
    BY <2>1, <2>2
<1>9. a # 0 => a \in 1..l /\ text[a] = mark
  <2>1. CASE n = 1
    BY <1>4, <1>5, <2>1
  <2>2. CASE n # 1
    <3>1. n - 1 \in 1..(s - 1)
      BY <1>3, <2>2
    <3> QED
      BY <1>4, <1>5, <3>1
  <2> QED
    BY <2>1, <2>2
<1>10. n < s => a + z + 1 \in 1..l /\ text[a + z + 1] = mark
  <2>1. ASSUME n < s PROVE n \in 1..(s - 1)
    BY <1>3, <2>1
  <2> QED
    BY <1>4, <1>7, <2>1
<1>11. Stands(text, mark, piece, a, n < Len(pieces))
  BY <1>2, <1>3, <1>6, <1>7, <1>8, <1>9, <1>10 DEF Stands
<1> QED
  BY <1>5, <1>11

(* Three fields: two tabs. *)
TwoTabs(line, fields, s, t) ==
    /\ s = Len(fields[1]) + 1 /\ t = s + Len(fields[2]) + 1
    /\ Len(line) = t + Len(fields[3])
    /\ line[s] = Tab /\ line[t] = Tab
    /\ \A k \in 1..Len(line) : line[k] = Tab => k = s \/ k = t
    /\ \A k \in 1..Len(fields[1]) : fields[1][k] = line[k]
    /\ \A k \in 1..Len(fields[2]) : fields[2][k] = line[s + k]
    /\ \A k \in 1..Len(fields[3]) : fields[3][k] = line[t + k]

LEMMA ThreeFields ==
    ASSUME NEW line \in Seq(Nat), NEW fields, fields = SplitAt(line, Tab), Len(fields) = 3
    PROVE  /\ fields[1] \in Seq(Nat) /\ fields[2] \in Seq(Nat) /\ fields[3] \in Seq(Nat)
           /\ \E s \in Nat, t \in Nat : TwoTabs(line, fields, s, t)
<1>1. PICK cut : CutAt(line, Tab, Len(line), fields, cut)
  BY SplitCuts
<1>2. PICK l \in Nat : l = Len(line)
  OBVIOUS
<1>3. /\ cut[0] = 0 /\ cut[3] = l + 1
      /\ \A m \in 1..3 : IsPiece(line, Tab, fields[m], cut[m - 1], cut[m])
      /\ \A m \in 1..2 : cut[m] \in 1..l /\ line[cut[m]] = Tab
  BY <1>1, <1>2 DEF CutAt
<1>4. /\ IsPiece(line, Tab, fields[1], 0, cut[1])
      /\ IsPiece(line, Tab, fields[2], cut[1], cut[2])
      /\ IsPiece(line, Tab, fields[3], cut[2], l + 1)
  <2>1. 1 \in 1..3 /\ 2 \in 1..3 /\ 3 \in 1..3 /\ 1 - 1 = 0 /\ 2 - 1 = 1 /\ 3 - 1 = 2
    OBVIOUS
  <2>2. /\ IsPiece(line, Tab, fields[1], cut[1 - 1], cut[1])
        /\ IsPiece(line, Tab, fields[2], cut[2 - 1], cut[2])
        /\ IsPiece(line, Tab, fields[3], cut[3 - 1], cut[3])
    BY <1>3, <2>1
  <2> QED
    BY <1>3, <2>1, <2>2
<1>5. PICK f \in Seq(Nat), g \in Seq(Nat), h \in Seq(Nat) :
          f = fields[1] /\ g = fields[2] /\ h = fields[3]
  BY <1>4 DEF IsPiece
<1>6. PICK s \in Nat, t \in Nat : s = cut[1] /\ t = cut[2]
  BY <1>3
<1>7. /\ s = 0 + Len(f) + 1 /\ t = s + Len(g) + 1 /\ l + 1 = t + Len(h) + 1
      /\ \A k \in 1..Len(f) : f[k] = line[0 + k] /\ line[0 + k] # Tab
      /\ \A k \in 1..Len(g) : g[k] = line[s + k] /\ line[s + k] # Tab
      /\ \A k \in 1..Len(h) : h[k] = line[t + k] /\ line[t + k] # Tab
  BY <1>4, <1>5, <1>6 DEF IsPiece
<1>8. PICK x \in Nat, y \in Nat, z \in Nat : x = Len(f) /\ y = Len(g) /\ z = Len(h)
  BY <1>5
<1>9. s = x + 1 /\ t = s + y + 1 /\ l = t + z
  <2>1. s = 0 + x + 1 /\ t = s + y + 1 /\ l + 1 = t + z + 1
    BY <1>7, <1>8
  <2> QED
    BY <2>1
<1>10. \A k \in 1..x : f[k] = line[k] /\ line[k] # Tab
  <2>1. \A k \in 1..x : 0 + k = k
    OBVIOUS
  <2> QED
    BY <1>7, <1>8, <2>1
<1>11. line[s] = Tab /\ line[t] = Tab
  BY <1>3, <1>6
<1>12. ASSUME NEW k \in 1..l, line[k] = Tab PROVE k = s \/ k = t
  <2>1. CASE k < s
    BY <1>9, <1>10, <1>12, <2>1
  <2>2. CASE s < k /\ k < t
    <3>1. k - s \in 1..y /\ s + (k - s) = k
      BY <1>9, <2>2
    <3> QED
      BY <1>7, <1>8, <1>12, <3>1
  <2>3. CASE t < k
    <3>1. k - t \in 1..z /\ t + (k - t) = k
      BY <1>9, <2>3
    <3> QED
      BY <1>7, <1>8, <1>12, <3>1
  <2> QED
    BY <2>1, <2>2, <2>3
<1>14. /\ s = Len(fields[1]) + 1 /\ t = s + Len(fields[2]) + 1
       /\ Len(line) = t + Len(fields[3])
       /\ \A k \in 1..Len(line) : line[k] = Tab => k = s \/ k = t
  BY <1>2, <1>5, <1>8, <1>9, <1>12
<1>15. /\ \A k \in 1..Len(fields[1]) : fields[1][k] = line[k]
       /\ \A k \in 1..Len(fields[2]) : fields[2][k] = line[s + k]
       /\ \A k \in 1..Len(fields[3]) : fields[3][k] = line[t + k]
  BY <1>5, <1>7, <1>8, <1>10
<1>16. TwoTabs(line, fields, s, t)
  BY <1>11, <1>14, <1>15 DEF TwoTabs
<1> QED
  BY <1>5, <1>16

-----------------------------------------------------------------------------
(* A line as its characters, of an accession of m. *)
LineOf(i, m) ==
    /\ Accession(i) \in Seq(Nat) /\ Len(Accession(i)) = m /\ m >= 3
    /\ Line(i) \in Seq(Nat) /\ Len(Line(i)) = m + 7
    /\ \A j \in 1..m : /\ Line(i)[j] = Accession(i)[j]
                       /\ Line(i)[j] # 1 /\ Line(i)[j] # 2
    /\ Line(i)[1] = 6 /\ Line(i)[m + 1] = 1 /\ Line(i)[m + 2] = 5
    /\ Line(i)[m + 3] = 10 + i /\ Line(i)[m + 4] = 1
    /\ Line(i)[m + 5] = 3 /\ Line(i)[m + 6] = 4 /\ Line(i)[m + 7] = 2

Owners == {i \in Nat : \E m \in Nat : LineOf(i, m)}

(* A log of torn lines: every character stands in a line of an owner, at   *)
(* some place, behind the beginning of that line.  As long as there were   *)
(* no cuts, that begins behind the end of another.                         *)
InLine(text, k, i, p, c) ==
    /\ p \in 1..Len(Line(i)) /\ p <= k
    /\ \A j \in 1..p : text[(k - p) + j] = Line(i)[j]
    /\ c = 0 /\ k # p => text[k - p] = Newline

Torn(text, owners, c) ==
    /\ text \in Seq(Nat)
    /\ \A k \in 1..Len(text) : \E i \in owners, p \in Nat : InLine(text, k, i, p, c)
    /\ c = 0 /\ Len(text) # 0 => text[Len(text)] = Newline

OneMore(s, m, c, l) ==
    /\ l = s \o <<c>> /\ Len(l) = m + 1
    /\ \A j \in 1..m : l[j] = s[j]
    /\ l[m + 1] = c

TwoMore(s, m, c, d, l) ==
    /\ l = s \o <<c, d>> /\ Len(l) = m + 2
    /\ \A j \in 1..m : l[j] = s[j]
    /\ l[m + 1] = c /\ l[m + 2] = d

LEMMA JoinOne ==
    ASSUME NEW s \in Seq(Nat), NEW m \in Nat, Len(s) = m, NEW c \in Nat
    PROVE  \E l \in Seq(Nat) : OneMore(s, m, c, l)
<1>1. PICK t \in Seq(Nat) : t = <<c>> /\ Len(t) = 1 /\ t[1] = c
  <2>1. <<c>> \in Seq(Nat) /\ Len(<<c>>) = 1 /\ <<c>>[1] = c
    OBVIOUS
  <2> QED
    BY <2>1
<1>2. /\ s \o t \in Seq(Nat) /\ Len(s \o t) = m + 1
      /\ \A j \in 1..m : (s \o t)[j] = s[j]
      /\ (s \o t)[m + 1] = c
  BY <1>1
<1> QED
  BY <1>1, <1>2 DEF OneMore

LEMMA JoinTwo ==
    ASSUME NEW s \in Seq(Nat), NEW m \in Nat, Len(s) = m, NEW c \in Nat, NEW d \in Nat
    PROVE  \E l \in Seq(Nat) : TwoMore(s, m, c, d, l)
<1>1. PICK t \in Seq(Nat) : t = <<c, d>> /\ Len(t) = 2 /\ t[1] = c /\ t[2] = d
  <2>1. <<c, d>> \in Seq(Nat) /\ Len(<<c, d>>) = 2 /\ <<c, d>>[1] = c /\ <<c, d>>[2] = d
    OBVIOUS
  <2> QED
    BY <2>1
<1>2. /\ s \o t \in Seq(Nat) /\ Len(s \o t) = m + 2
      /\ \A j \in 1..m : (s \o t)[j] = s[j]
      /\ (s \o t)[m + 1] = c /\ (s \o t)[m + 2] = d
  BY <1>1
<1> QED
  BY <1>1, <1>2 DEF TwoMore

LEMMA LineIs ==
    ASSUME SlugAssumption, NEW i \in Nat, i \in DOMAIN Slugs
    PROVE  i \in Owners
<1>1. PICK slug \in Seq(Nat) : slug = Slugs[i]
  BY DEF SlugAssumption
<1>2. PICK head \in Seq(Nat) : head = <<6, 7>> /\ Len(head) = 2 /\ head[1] = 6 /\ head[2] = 7
  <2>1. <<6, 7>> \in Seq(Nat) /\ Len(<<6, 7>>) = 2 /\ <<6, 7>>[1] = 6 /\ <<6, 7>>[2] = 7
    OBVIOUS
  <2> QED
    BY <2>1
<1>3. Accession(i) = head \o slug
  BY <1>1, <1>2 DEF Accession, DeedMark, KindMark
<1>4. PICK a \in Seq(Nat) : a = head \o slug
  <2>1. head \o slug \in Seq(Nat)
    BY ConcatProperties
  <2> QED
    BY <2>1
<1>5. IsAccession(a)
  BY <1>3, <1>4 DEF SlugAssumption
<1>6. PICK m \in Nat : m = Len(a)
  OBVIOUS
<1>7. m >= 3 /\ a[1] = 6 /\ \A j \in 1..m : a[j] # 1 /\ a[j] # 2
  <2>1. ToSet(a) \cap {1, 2, 5} = {}
    BY <1>5 DEF IsAccession, Tab, Newline, ShaMark
  <2>2. \A j \in 1..m : a[j] \in ToSet(a)
    <3>1. DOMAIN a = 1..m
      BY <1>6
    <3> QED
      BY <3>1 DEF ToSet
  <2>3. \A j \in 1..m : a[j] # 1 /\ a[j] # 2
    BY <2>1, <2>2
  <2> QED
    BY <1>5, <1>6, <2>3 DEF IsAccession, DeedMark
<1>8. PICK x \in Nat : x = 10 + i
  OBVIOUS
<1>9. Line(i) = a \o <<1>> \o <<5, x>> \o <<1>> \o <<3, 4>> \o <<2>>
  BY <1>3, <1>4, <1>8 DEF Line, DigestText, Time, Tab, Newline, ShaMark, Name
<1>10. PICK f \in Seq(Nat) : OneMore(a, m, 1, f)
  BY <1>6, JoinOne
<1>11. PICK g \in Seq(Nat) : TwoMore(f, m + 1, 5, x, g)
  <2>1. Len(f) = m + 1
    BY <1>10 DEF OneMore
  <2> QED
    BY <2>1, JoinTwo
<1>12. PICK h \in Seq(Nat) : OneMore(g, m + 3, 1, h)
  <2>1. Len(g) = m + 3
    BY <1>11 DEF TwoMore
  <2> QED
    BY <2>1, JoinOne
<1>13. PICK k \in Seq(Nat) : TwoMore(h, m + 4, 3, 4, k)
  <2>1. Len(h) = m + 4
    BY <1>12 DEF OneMore
  <2> QED
    BY <2>1, JoinTwo
<1>14. PICK l \in Seq(Nat) : OneMore(k, m + 6, 2, l)
  <2>1. Len(k) = m + 6
    BY <1>13 DEF TwoMore
  <2> QED
    BY <2>1, JoinOne
<1>15. Line(i) = l
  BY <1>9, <1>10, <1>11, <1>12, <1>13, <1>14, Zenon DEF OneMore, TwoMore
<1>16. \A j \in 1..m : l[j] = a[j]
  <2>1. SUFFICES ASSUME NEW j \in 1..m PROVE l[j] = a[j]
    OBVIOUS
  <2>2. j \in 1..(m + 1) /\ j \in 1..(m + 3) /\ j \in 1..(m + 4) /\ j \in 1..(m + 6)
    OBVIOUS
  <2>3. f[j] = a[j]
    BY <1>10 DEF OneMore
  <2>4. g[j] = f[j]
    BY <1>11, <2>2 DEF TwoMore
  <2>5. h[j] = g[j]
    BY <1>12, <2>2 DEF OneMore
  <2>6. k[j] = h[j]
    BY <1>13, <2>2 DEF TwoMore
  <2>7. l[j] = k[j]
    BY <1>14, <2>2 DEF OneMore
  <2> QED
    BY <2>3, <2>4, <2>5, <2>6, <2>7
<1>17. /\ l[m + 1] = 1 /\ l[m + 2] = 5 /\ l[m + 3] = x /\ l[m + 4] = 1
       /\ l[m + 5] = 3 /\ l[m + 6] = 4 /\ l[m + 7] = 2
  <2>1. f[m + 1] = 1
    BY <1>10 DEF OneMore
  <2>2. g[m + 1] = 1 /\ g[m + 2] = 5 /\ g[m + 3] = x
    <3>1. g[m + 1] = f[m + 1]
      BY <1>11 DEF TwoMore
    <3>2. g[(m + 1) + 1] = 5 /\ g[(m + 1) + 2] = x
      BY <1>11, Zenon DEF TwoMore
    <3>3. (m + 1) + 1 = m + 2 /\ (m + 1) + 2 = m + 3
      OBVIOUS
    <3> QED
      BY <2>1, <3>1, <3>2, <3>3
  <2>3. h[m + 1] = 1 /\ h[m + 2] = 5 /\ h[m + 3] = x /\ h[m + 4] = 1
    <3>1. h[(m + 3) + 1] = 1 /\ \A j \in 1..(m + 3) : h[j] = g[j]
      BY <1>12 DEF OneMore
    <3>2. (m + 3) + 1 = m + 4 /\ m + 1 \in 1..(m + 3) /\ m + 2 \in 1..(m + 3)
          /\ m + 3 \in 1..(m + 3)
      OBVIOUS
    <3> QED
      BY <2>2, <3>1, <3>2
  <2>4. /\ k[m + 1] = 1 /\ k[m + 2] = 5 /\ k[m + 3] = x /\ k[m + 4] = 1
        /\ k[m + 5] = 3 /\ k[m + 6] = 4
    <3>1. /\ \A j \in 1..(m + 4) : k[j] = h[j]
          /\ k[(m + 4) + 1] = 3 /\ k[(m + 4) + 2] = 4
      BY <1>13, Zenon DEF TwoMore
    <3>2. /\ (m + 4) + 1 = m + 5 /\ (m + 4) + 2 = m + 6
          /\ m + 1 \in 1..(m + 4) /\ m + 2 \in 1..(m + 4)
          /\ m + 3 \in 1..(m + 4) /\ m + 4 \in 1..(m + 4)
      OBVIOUS
    <3> QED
      BY <2>3, <3>1, <3>2
  <2>5. l[(m + 6) + 1] = 2 /\ \A j \in 1..(m + 6) : l[j] = k[j]
    BY <1>14 DEF OneMore
  <2>6. /\ (m + 6) + 1 = m + 7 /\ m + 1 \in 1..(m + 6) /\ m + 2 \in 1..(m + 6)
        /\ m + 3 \in 1..(m + 6) /\ m + 4 \in 1..(m + 6)
        /\ m + 5 \in 1..(m + 6) /\ m + 6 \in 1..(m + 6)
    OBVIOUS
  <2> QED
    BY <2>4, <2>5, <2>6
<1>18. Len(l) = m + 7
  BY <1>14 DEF OneMore
<1>19. l[1] = 6 /\ \A j \in 1..m : l[j] = a[j] /\ l[j] # 1 /\ l[j] # 2
  <2>1. 1 \in 1..m
    BY <1>7
  <2> QED
    BY <1>7, <1>16, <2>1
<1>20. LineOf(i, m)
  <2>1. Accession(i) = a /\ a \in Seq(Nat) /\ Len(a) = m
    BY <1>3, <1>4, <1>6
  <2>2. x = 10 + i
    BY <1>8
  <2> HIDE DEF OneMore, TwoMore
  <2> QED
    BY <1>7, <1>15, <1>17, <1>18, <1>19, <2>1, <2>2 DEF LineOf
<1> QED
  BY <1>20 DEF Owners

IsStump(line, n, part) ==
    /\ part = SubSeq(line, 1, n) /\ Len(part) = n
    /\ \A j \in 1..n : part[j] = line[j]

LEMMA StumpIs ==
    ASSUME NEW line \in Seq(Nat), NEW n \in Nat, n <= Len(line)
    PROVE  \E part \in Seq(Nat) : IsStump(line, n, part)
<1>1. \A j \in 1..n : line[j] \in Nat
  OBVIOUS
<1>2. SubSeq(line, 1, n) \in Seq(Nat)
  BY <1>1
<1>3. Len(SubSeq(line, 1, n)) = n
  OBVIOUS
<1>4. \A j \in 1..n : SubSeq(line, 1, n)[j] = line[j]
  OBVIOUS
<1> QED
  BY <1>2, <1>3, <1>4 DEF IsStump

(* A text with n characters of a line behind it. *)
Grown(text, i, n, longer) == longer = text \o SubSeq(Line(i), 1, n) /\ n <= Len(Line(i))
Uncut(c, d, i, n) == d = 0 => c = 0 /\ n = Len(Line(i))

LEMMA TornGrows ==
    ASSUME NEW c \in Nat, NEW d \in Nat, NEW text, NEW owners \in SUBSET Owners,
           Torn(text, owners, c), NEW i \in owners, NEW n \in Nat,
           NEW longer, Grown(text, i, n, longer), Uncut(c, d, i, n)
    PROVE  Torn(longer, owners, d)
<1> USE DEF Grown, Uncut
<1>1. PICK m \in Nat : LineOf(i, m)
  BY DEF Owners
<1>2. PICK line \in Seq(Nat), w \in Nat : line = Line(i) /\ w = Len(line) /\ w = m + 7 /\ line[w] = 2
  BY <1>1 DEF LineOf
<1>3. PICK part \in Seq(Nat) : /\ part = SubSeq(line, 1, n) /\ Len(part) = n
                               /\ \A j \in 1..n : part[j] = line[j]
  <2>1. n <= Len(line)
    BY <1>2
  <2>2. \E part \in Seq(Nat) : IsStump(line, n, part)
    BY <2>1, StumpIs
  <2> QED
    BY <2>2 DEF IsStump
<1>4. text \in Seq(Nat) /\ longer = text \o part
  BY <1>2, <1>3 DEF Torn
<1>5. PICK l \in Nat : l = Len(text)
  BY <1>4
<1>6. /\ longer \in Seq(Nat) /\ Len(longer) = l + n
      /\ \A k \in 1..l : longer[k] = text[k]
      /\ \A j \in 1..n : longer[l + j] = part[j]
  BY <1>3, <1>4, <1>5
<1>7. d = 0 => c = 0 /\ n = w
  BY <1>2
<1>8. c = 0 /\ l # 0 => text[l] = Newline
  BY <1>5 DEF Torn
<1>9. ASSUME NEW k \in 1..(l + n) PROVE \E o \in owners, p \in Nat : InLine(longer, k, o, p, d)
  <2>1. CASE k <= l
    <3>1. PICK o \in owners, p \in Nat : InLine(text, k, o, p, c)
      BY <1>5, <2>1 DEF Torn
    <3>2. /\ p \in 1..Len(Line(o)) /\ p <= k
          /\ \A j \in 1..p : text[(k - p) + j] = Line(o)[j]
          /\ c = 0 /\ k # p => text[k - p] = Newline
      BY <3>1 DEF InLine
    <3>3. \A j \in 1..p : (k - p) + j \in 1..l
      BY <2>1, <3>2
    <3>4. \A j \in 1..p : longer[(k - p) + j] = Line(o)[j]
      BY <1>6, <3>2, <3>3
    <3>5. k # p => k - p \in 1..l
      BY <2>1, <3>2
    <3>6. d = 0 /\ k # p => longer[k - p] = Newline
      BY <1>6, <1>7, <3>2, <3>5
    <3> QED
      BY <3>2, <3>4, <3>6 DEF InLine
  <2>2. CASE l < k
    <3>1. PICK p \in 1..n : p = k - l
      BY <2>2
    <3>2. k - p = l /\ p \in 1..w /\ p <= k /\ p \in Nat
      BY <1>2, <3>1
    <3>3. \A j \in 1..p : longer[(k - p) + j] = Line(i)[j]
      BY <1>2, <1>3, <1>6, <3>1, <3>2
    <3>4. d = 0 /\ k # p => longer[k - p] = Newline
      <4>1. SUFFICES ASSUME d = 0, k # p PROVE longer[l] = Newline
        BY <3>2
      <4>2. l # 0 /\ l \in 1..l
        BY <3>2, <4>1
      <4> QED
        BY <1>6, <1>7, <1>8, <4>1, <4>2
    <3>5. InLine(longer, k, i, p, d)
      BY <1>2, <3>2, <3>3, <3>4 DEF InLine
    <3> QED
      BY <3>2, <3>5
  <2> QED
    BY <2>1, <2>2
<1>10. ASSUME d = 0 PROVE longer[l + n] = Newline
  <2>1. n = w /\ n \in 1..n
    BY <1>2, <1>7, <1>10
  <2> QED
    BY <1>2, <1>3, <1>6, <2>1 DEF Newline
<1> QED
  BY <1>6, <1>9, <1>10 DEF Torn

LEMMA TornOwners ==
    ASSUME NEW c, NEW text, NEW owners, Torn(text, owners, c), NEW more, owners \subseteq more
    PROVE  Torn(text, more, c)
  BY DEF Torn

LEMMA TornLess ==
    ASSUME NEW text, NEW owners, NEW c \in Nat, NEW d \in Nat, Torn(text, owners, c), d = 0 => c = 0
    PROVE  Torn(text, owners, d)
<1>1. ASSUME NEW k, NEW i, NEW p, InLine(text, k, i, p, c) PROVE InLine(text, k, i, p, d)
  BY <1>1 DEF InLine
<1> QED
  BY <1>1 DEF Torn

(* Where in a line a newline and a tab can be. *)
LEMMA PlaceTells ==
    ASSUME NEW i \in Nat, NEW m \in Nat, LineOf(i, m), NEW p \in 1..(m + 7)
    PROVE  /\ Line(i)[p] = 2 => p = m + 7
           /\ Line(i)[p] = 1 => p = m + 1 \/ p = m + 4
<1>1. \/ p \in 1..m \/ p = m + 1 \/ p = m + 2 \/ p = m + 3 \/ p = m + 4
      \/ p = m + 5 \/ p = m + 6 \/ p = m + 7
  OBVIOUS
<1>2. 10 + i # 1 /\ 10 + i # 2
  OBVIOUS
<1>3. PICK x : x = Line(i)[p]
  OBVIOUS
<1>4. p \in 1..m => x # 1 /\ x # 2
  BY <1>3 DEF LineOf
<1>5. /\ p = m + 1 => x = 1
      /\ p = m + 2 => x = 5
      /\ p = m + 3 => x = 10 + i
      /\ p = m + 4 => x = 1
      /\ p = m + 5 => x = 3
      /\ p = m + 6 => x = 4
      /\ p = m + 7 => x = 2
  BY <1>3, Zenon DEF LineOf
<1> QED
  BY <1>1, <1>2, <1>3, <1>4, <1>5

(* The line a character of a torn log stands in. *)
StandsIn(text, k, i, m, p, c) ==
    /\ LineOf(i, m) /\ p \in 1..(m + 7) /\ p <= k
    /\ \A j \in 1..p : text[(k - p) + j] = Line(i)[j]
    /\ c = 0 /\ k # p => text[k - p] = Newline
    /\ text[k] = Line(i)[p]

LEMMA CharacterTells ==
    ASSUME NEW c \in Nat, NEW owners \in SUBSET Owners, NEW text, Torn(text, owners, c),
           NEW k \in 1..Len(text)
    PROVE  \E i \in owners, m \in Nat, p \in Nat : StandsIn(text, k, i, m, p, c)
<1>1. PICK i \in owners, p \in Nat : InLine(text, k, i, p, c)
  BY DEF Torn
<1>2. PICK m \in Nat : LineOf(i, m)
  BY DEF Owners
<1>3. Len(Line(i)) = m + 7
  BY <1>2 DEF LineOf
<1>4. /\ p \in 1..(m + 7) /\ p <= k
      /\ \A j \in 1..p : text[(k - p) + j] = Line(i)[j]
      /\ c = 0 /\ k # p => text[k - p] = Newline
  BY <1>1, <1>3 DEF InLine
<1>5. text[k] = Line(i)[p]
  <2>1. (k - p) + p = k /\ p \in 1..p
    BY <1>4
  <2>2. text[(k - p) + p] = Line(i)[p]
    BY <1>4, <2>1
  <2> QED
    BY <2>1, <2>2
<1>6. StandsIn(text, k, i, m, p, c)
  BY <1>2, <1>4, <1>5 DEF StandsIn
<1> QED
  BY <1>6

(* A line up to the first digit of its time, behind place b. *)
LineBehind(text, i, m, b) == \A j \in 1..(m + 5) : text[b + j] = Line(i)[j]

TimeStands(text, q, i, m, b, c) ==
    /\ LineOf(i, m) /\ q = b + m + 4 /\ LineBehind(text, i, m, b)
    /\ c = 0 /\ b # 0 => text[b] = Newline

(* A digit behind a tab is the first of a time, in a line that is whole up *)
(* to there.                                                               *)
LEMMA TimeTells ==
    ASSUME NEW c \in Nat, NEW owners \in SUBSET Owners, NEW text, Torn(text, owners, c),
           NEW q \in Nat, q + 1 \in 1..Len(text), text[q] = Tab, text[q + 1] \in Digits
    PROVE  \E i \in owners, m \in Nat, b \in Nat : TimeStands(text, q, i, m, b, c)
<1>0. PICK i \in owners, m \in Nat, p \in Nat : StandsIn(text, q + 1, i, m, p, c)
  BY CharacterTells
<1>1. /\ LineOf(i, m) /\ p \in 1..(m + 7) /\ p <= q + 1
      /\ \A j \in 1..p : text[((q + 1) - p) + j] = Line(i)[j]
      /\ c = 0 /\ q + 1 # p => text[(q + 1) - p] = Newline
      /\ text[q + 1] = Line(i)[p]
  BY <1>0 DEF StandsIn
<1>2. i \in Nat
  BY DEF Owners
<1>3. text[q + 1] = 3 \/ text[q + 1] = 4
  BY DEF Digits
<1>4. p # 1
  <2>1. Line(i)[1] = 6
    BY <1>1 DEF LineOf
  <2> QED
    BY <1>1, <1>3, <2>1
<1>5. PICK r \in Nat : r = p - 1 /\ r \in 1..p /\ r \in 1..(m + 7)
  BY <1>1, <1>4
<1>6. Line(i)[r] = 1
  <2>1. ((q + 1) - p) + r = q
    BY <1>1, <1>5
  <2>2. text[((q + 1) - p) + r] = Line(i)[r]
    BY <1>1, <1>5
  <2> QED
    BY <2>1, <2>2 DEF Tab
<1>7. r = m + 1 \/ r = m + 4
  BY <1>1, <1>2, <1>5, <1>6, PlaceTells
<1>8. r # m + 1
  <2>1. r = m + 1 => p = m + 2
    BY <1>5
  <2>2. Line(i)[m + 2] = 5
    BY <1>1 DEF LineOf
  <2> QED
    BY <1>1, <1>3, <2>1, <2>2
<1>9. p = m + 5
  BY <1>5, <1>7, <1>8
<1>10. PICK b \in Nat : b = (q + 1) - p
  BY <1>1
<1>11. q = b + m + 4
  BY <1>9, <1>10
<1>12. LineBehind(text, i, m, b)
  BY <1>1, <1>9, <1>10 DEF LineBehind
<1>13. c = 0 /\ b # 0 => text[b] = Newline
  <2>1. b # 0 => q + 1 # p
    BY <1>10
  <2> QED
    BY <1>1, <1>10, <2>1
<1>14. TimeStands(text, q, i, m, b, c)
  BY <1>1, <1>11, <1>12, <1>13 DEF TimeStands
<1> QED
  BY <1>14

(* A newline stands behind a whole time. *)
LEMMA EndTells ==
    ASSUME NEW c \in Nat, NEW owners \in SUBSET Owners, NEW text, Torn(text, owners, c),
           NEW q \in Nat, q \in 1..Len(text), text[q] = Newline
    PROVE  text[q - 1] = 4 /\ text[q - 2] = 3 /\ text[q - 3] = Tab
<1>0. PICK i \in owners, m \in Nat, p \in Nat : StandsIn(text, q, i, m, p, c)
  BY CharacterTells
<1>1. /\ LineOf(i, m) /\ p \in 1..(m + 7) /\ p <= q
      /\ \A j \in 1..p : text[(q - p) + j] = Line(i)[j]
      /\ text[q] = Line(i)[p]
  BY <1>0 DEF StandsIn
<1>2. i \in Nat /\ Line(i)[p] = 2
  BY <1>1 DEF Owners, Newline
<1>3. p = m + 7
  BY <1>1, <1>2, PlaceTells
<1>4. m + 4 \in 1..p /\ m + 5 \in 1..p /\ m + 6 \in 1..p
  BY <1>3
<1>5. /\ text[(q - p) + (m + 6)] = Line(i)[m + 6] /\ text[(q - p) + (m + 5)] = Line(i)[m + 5]
      /\ text[(q - p) + (m + 4)] = Line(i)[m + 4]
  BY <1>1, <1>4
<1>6. /\ (q - p) + (m + 6) = q - 1 /\ (q - p) + (m + 5) = q - 2
      /\ (q - p) + (m + 4) = q - 3
  BY <1>3
<1>7. Line(i)[m + 6] = 4 /\ Line(i)[m + 5] = 3 /\ Line(i)[m + 4] = 1
  BY <1>1 DEF LineOf
<1> QED
  BY <1>5, <1>6, <1>7 DEF Tab

(* The line such a piece ends in, behind place d of the piece. *)
EndsInLine(piece, s, t, o, m, d, c) ==
    /\ LineOf(o, m) /\ s = d + m + 1 /\ t = d + m + 4
    /\ LineBehind(piece, o, m, d)
    /\ c = 0 => d = 0

LEMMA PieceTells ==
    ASSUME NEW c \in Nat, NEW owners \in SUBSET Owners, NEW text, Torn(text, owners, c),
           NEW piece, NEW a \in Nat, NEW z \in Nat, a + z <= Len(text),
           a # 0 => text[a] = Newline,
           \A k \in 1..z : piece[k] = text[a + k] /\ piece[k] # Newline,
           NEW s \in Nat, NEW t \in Nat, s >= 1, s < t, t < z,
           piece[t] = Tab, piece[t + 1] \in Digits,
           \A k \in 1..z : piece[k] = Tab => k = s \/ k = t
    PROVE  \E o \in owners, m \in Nat, d \in Nat : EndsInLine(piece, s, t, o, m, d, c)
<1>1. PICK l \in Nat : l = Len(text)
  <2>1. text \in Seq(Nat)
    BY DEF Torn
  <2> QED
    BY <2>1
<1>2. PICK q \in Nat : q = a + t
  OBVIOUS
<1>3. q + 1 \in 1..l /\ t \in 1..z /\ t + 1 \in 1..z /\ q + 1 = a + (t + 1)
  BY <1>1, <1>2
<1>4. text[q] = Tab /\ text[q + 1] \in Digits
  BY <1>2, <1>3
<1>5. PICK o \in owners, m \in Nat, b \in Nat :
          /\ LineOf(o, m) /\ q = b + m + 4 /\ LineBehind(text, o, m, b)
          /\ c = 0 /\ b # 0 => text[b] = Newline
  <2>1. q + 1 \in 1..Len(text)
    BY <1>1, <1>3
  <2>2. PICK o \in owners, m \in Nat, b \in Nat : TimeStands(text, q, o, m, b, c)
    BY <1>4, <2>1, TimeTells
  <2> QED
    BY <2>2 DEF TimeStands
<1>6. a + t = b + m + 4 /\ o \in Nat
  BY <1>2, <1>5 DEF Owners
<1>7. \A j \in 1..(m + 5) : text[b + j] = Line(o)[j]
  BY <1>5 DEF LineBehind
<1>8. a <= b
  <2>1. SUFFICES ASSUME b < a PROVE FALSE
    OBVIOUS
  <2>2. PICK j \in Nat : j = a - b
    BY <2>1
  <2>3. j \in 1..(m + 5) /\ j \in 1..(m + 7) /\ b + j = a /\ j # m + 7 /\ a # 0
    BY <1>6, <2>1, <2>2
  <2>4. Line(o)[j] = 2
    BY <1>7, <2>3 DEF Newline
  <2> QED
    BY <1>5, <1>6, <2>3, <2>4, PlaceTells
<1>9. PICK d \in Nat : d = b - a
  BY <1>8
<1>10. t = d + m + 4 /\ b = a + d
  BY <1>6, <1>9
<1>11. \A j \in 1..(m + 5) : d + j \in 1..z /\ a + (d + j) = b + j
  BY <1>10
<1>12. \A j \in 1..(m + 5) : piece[d + j] = Line(o)[j]
  <2>1. SUFFICES ASSUME NEW j \in 1..(m + 5) PROVE piece[d + j] = Line(o)[j]
    OBVIOUS
  <2>2. piece[d + j] = text[a + (d + j)]
    BY <1>11
  <2> QED
    BY <1>7, <1>11, <2>2
<1>13. s = d + m + 1
  <2>1. m + 1 \in 1..(m + 5) /\ Line(o)[m + 1] = 1
    BY <1>5 DEF LineOf
  <2>2. piece[d + (m + 1)] = Tab /\ d + (m + 1) \in 1..z
    BY <1>11, <1>12, <2>1 DEF Tab
  <2>3. d + (m + 1) = s \/ d + (m + 1) = t
    BY <2>2
  <2> QED
    BY <1>10, <2>3
<1>14. ASSUME c = 0 PROVE d = 0
  <2>1. SUFFICES ASSUME d # 0 PROVE FALSE
    OBVIOUS
  <2>2. d \in 1..z /\ a + d = b /\ b # 0
    BY <1>10, <2>1
  <2>3. text[b] = Newline
    BY <1>5, <1>14, <2>2
  <2>4. piece[d] = text[a + d] /\ piece[d] # Newline
    BY <2>2
  <2> QED
    BY <2>2, <2>3, <2>4
<1>15. EndsInLine(piece, s, t, o, m, d, c)
  BY <1>5, <1>10, <1>12, <1>13, <1>14 DEF EndsInLine, LineBehind
<1> QED
  BY <1>15

(* An entry is the end of an owner's line, and all of it without cuts. *)
EntryIsOf(i, e, ends, c) ==
    /\ IF c = 0 THEN e.id = Accession(i) ELSE EndsIn(e.id, Accession(i))
    /\ e.digest = DigestText(i)
    /\ ends => e.time = Time

LEMMA EntriesTell ==
    ASSUME NEW c \in Nat, NEW owners \in SUBSET Owners, NEW text, Torn(text, owners, c),
           NEW pieces, pieces = SplitAt(text, Newline), NEW n \in DOMAIN pieces,
           IsEntry(pieces[n])
    PROVE  \E i \in owners : EntryIsOf(i, ParseEntry(pieces[n]), n < Len(pieces), c)
<1>1. text \in Seq(Nat)
  BY DEF Torn
<1>2. PICK piece \in Seq(Nat), a \in Nat :
          piece = pieces[n] /\ Stands(text, Newline, piece, a, n < Len(pieces))
  BY <1>1, PieceStands
<1>3. PICK l \in Nat, z \in Nat : l = Len(text) /\ z = Len(piece)
  BY <1>1
<1>4. /\ a + z <= l
      /\ a # 0 => text[a] = Newline
      /\ \A k \in 1..z : piece[k] = text[a + k] /\ text[a + k] # Newline
      /\ n < Len(pieces) => a + z + 1 \in 1..l /\ text[a + z + 1] = Newline
  BY <1>2, <1>3 DEF Stands
<1>5. PICK fields : fields = SplitAt(piece, Tab)
  OBVIOUS
<1>6. /\ Len(fields) = 3 /\ IsTime(fields[3])
      /\ ParseEntry(pieces[n]).id = fields[1]
      /\ ParseEntry(pieces[n]).digest = fields[2]
      /\ ParseEntry(pieces[n]).time = fields[3]
  BY <1>2, <1>5 DEF IsEntry, ParseEntry
<1>7. PICK f \in Seq(Nat), g \in Seq(Nat), h \in Seq(Nat), s \in Nat, t \in Nat :
          f = fields[1] /\ g = fields[2] /\ h = fields[3] /\ TwoTabs(piece, fields, s, t)
  BY <1>5, <1>6, ThreeFields
<1>8. /\ s = Len(f) + 1 /\ t = s + Len(g) + 1 /\ z = t + Len(h)
      /\ piece[t] = Tab
      /\ \A k \in 1..z : piece[k] = Tab => k = s \/ k = t
      /\ \A k \in 1..Len(f) : f[k] = piece[k]
      /\ \A k \in 1..Len(g) : g[k] = piece[s + k]
      /\ \A k \in 1..Len(h) : h[k] = piece[t + k]
  BY <1>3, <1>7 DEF TwoTabs
<1>9. PICK u \in Nat, y \in Nat, w \in Nat : u = Len(f) /\ y = Len(g) /\ w = Len(h)
  BY <1>7
<1>10. s = u + 1 /\ t = s + y + 1 /\ z = t + w
  BY <1>8, <1>9
<1>11. w >= 1 /\ h[1] \in Digits
  <2>1. h # <<>> /\ ToSet(h) \subseteq Digits
    BY <1>6, <1>7 DEF IsTime
  <2>2. w # 0 /\ 1 \in DOMAIN h
    BY <1>9, <2>1
  <2> QED
    BY <2>1, <2>2 DEF ToSet
<1>12. s >= 1 /\ s < t /\ t < z
  BY <1>10, <1>11
<1>13. piece[t + 1] \in Digits
  <2>1. 1 \in 1..w
    BY <1>11
  <2> QED
    BY <1>8, <1>9, <1>11, <2>1
<1>14. PICK o \in owners, m \in Nat, d \in Nat : EndsInLine(piece, s, t, o, m, d, c)
  <2>1. \A k \in 1..z : piece[k] = text[a + k] /\ piece[k] # Newline
    BY <1>4
  <2>2. a + z <= Len(text) /\ (a # 0 => text[a] = Newline)
    BY <1>3, <1>4
  <2>3. piece[t] = Tab /\ \A k \in 1..z : piece[k] = Tab => k = s \/ k = t
    BY <1>8
  <2> HIDE DEF Tab, Newline, Digits
  <2> QED
    BY <1>12, <1>13, <2>1, <2>2, <2>3, PieceTells
<1>15. /\ LineOf(o, m) /\ s = d + m + 1 /\ t = d + m + 4 /\ (c = 0 => d = 0)
       /\ \A j \in 1..(m + 5) : piece[d + j] = Line(o)[j]
  BY <1>14 DEF EndsInLine, LineBehind
<1>16. u = d + m /\ y = 2
  <2>1. s = d + m + 1 /\ t = d + m + 4
    BY <1>15
  <2>2. PICK v \in Nat : v = d + m
    OBVIOUS
  <2>3. s = v + 1 /\ t = v + 4
    BY <2>1, <2>2
  <2>4. u + 1 = v + 1 /\ v + 4 = (v + 1) + y + 1
    BY <1>10, <2>3
  <2> QED
    BY <2>2, <2>4
<1>17. PICK x \in Seq(Nat) : x = Accession(o) /\ Len(x) = m
  BY <1>15 DEF LineOf
<1>18. \A k \in 1..m : f[d + k] = x[k]
  <2>1. SUFFICES ASSUME NEW k \in 1..m PROVE f[d + k] = x[k]
    OBVIOUS
  <2>2. d + k \in 1..Len(f) /\ k \in 1..(m + 5)
    BY <1>9, <1>16
  <2>3. Line(o)[k] = Accession(o)[k]
    BY <1>15 DEF LineOf
  <2> QED
    BY <1>8, <1>15, <1>17, <2>2, <2>3
<1>19. EndsIn(f, x)
  <2>1. PICK e \in Nat : e = Len(x) /\ e = m
    BY <1>17
  <2>2. Len(f) = d + e /\ (d + e) - e = d
    BY <1>9, <1>16, <2>1
  <2>3. \A k \in 1..e : f[((d + e) - e) + k] = x[k]
    BY <1>18, <2>1, <2>2
  <2>4. e <= d + e
    OBVIOUS
  <2> QED
    BY <2>1, <2>2, <2>3, <2>4 DEF EndsIn
<1>20. ASSUME c = 0 PROVE f = x
  <2>1. d = 0 /\ Len(f) = Len(x)
    BY <1>9, <1>15, <1>16, <1>17, <1>20
  <2>2. \A k \in 1..Len(f) : f[k] = x[k]
    <3>1. \A k \in 1..m : 0 + k = k
      OBVIOUS
    <3> QED
      BY <1>17, <1>18, <2>1, <3>1
  <2> QED
    BY <2>1, <2>2, SeqEqual
<1>21. g = DigestText(o)
  <2>1. m + 2 \in 1..(m + 5) /\ m + 3 \in 1..(m + 5) /\ s + 1 = d + (m + 2) /\ s + 2 = d + (m + 3)
    BY <1>15
  <2>2. piece[s + 1] = 5 /\ piece[s + 2] = 10 + o
    BY <1>15, <2>1 DEF LineOf
  <2>3. 1 \in 1..Len(g) /\ 2 \in 1..Len(g) /\ Len(g) = 2
    BY <1>9, <1>16
  <2>4. g[1] = 5 /\ g[2] = 10 + o
    BY <1>8, <2>2, <2>3
  <2>5. g = <<5, 10 + o>>
    BY <2>3, <2>4
  <2> QED
    BY <2>5 DEF DigestText, ShaMark, Name
<1>22. ASSUME n < Len(pieces) PROVE h = Time
  <2>1. PICK q \in Nat : q = a + z + 1
    OBVIOUS
  <2>2. q \in 1..Len(text) /\ text[q] = Newline
    BY <1>3, <1>4, <1>22, <2>1
  <2>3. text[q - 1] = 4 /\ text[q - 2] = 3 /\ text[q - 3] = Tab
    BY <2>2, EndTells
  <2>4. q - 1 = a + z /\ q - 2 = a + (z - 1) /\ q - 3 = a + (z - 2)
    BY <2>1
  <2>5. z \in 1..z /\ z - 1 \in 1..z /\ z - 2 \in 1..z
    BY <1>10, <1>11, <1>12
  <2>6. piece[z] = 4 /\ piece[z - 1] = 3 /\ piece[z - 2] = Tab
    BY <1>4, <2>3, <2>4, <2>5
  <2>7. z - 2 = s \/ z - 2 = t
    BY <1>8, <2>5, <2>6
  <2>8. w = 2 /\ z = t + 2
    <3>1. t = s + 3
      BY <1>15
    <3> QED
      BY <1>10, <1>11, <2>7, <3>1
  <2>9. h[1] = 3 /\ h[2] = 4
    <3>1. 1 \in 1..Len(h) /\ 2 \in 1..Len(h)
      BY <1>9, <2>8
    <3>2. h[1] = piece[t + 1] /\ h[2] = piece[t + 2]
      BY <1>8, <3>1
    <3>3. t + 1 = z - 1 /\ t + 2 = z
      BY <2>8
    <3> QED
      BY <2>6, <3>2, <3>3
  <2>10. Len(h) = 2
    BY <1>9, <2>8
  <2>11. h = <<3, 4>>
    BY <2>9, <2>10
  <2> QED
    BY <2>11 DEF Time
<1>23. EntryIsOf(o, ParseEntry(pieces[n]), n < Len(pieces), c)
  BY <1>6, <1>7, <1>17, <1>19, <1>20, <1>21, <1>22 DEF EntryIsOf
<1> QED
  BY <1>23

-----------------------------------------------------------------------------
(* Every log is one of torn lines of the deeds frozen in its store. *)
TextInv ==
    /\ logs \in [Dirs -> Seq(Nat)]
    /\ \A dir \in Dirs : Torn(logs[dir], shelf[dir], cuts)
    /\ cuts \in Nat
    /\ \A line \in pending : line[1] \in Dirs => line[2] \in shelf[line[1]]

LEMMA KeepsText ==
    ASSUME TextInv, logs' = logs, cuts' = cuts, \A dir \in Dirs : shelf[dir] \subseteq shelf'[dir],
           \A line \in pending' : line \in pending \/ line[2] \in shelf'[line[1]]
    PROVE  TextInv'
<1>1. \A dir \in Dirs : Torn(logs'[dir], shelf'[dir], cuts')
  BY TornOwners DEF TextInv
<1>2. ASSUME NEW line \in pending', line[1] \in Dirs PROVE line[2] \in shelf'[line[1]]
  BY <1>2 DEF TextInv
<1> QED
  BY <1>1, <1>2 DEF TextInv

LEMMA FreezeText ==
    ASSUME StoresOK, TextInv, NEW dir \in Dirs, NEW i \in Deeds, Freeze(dir, i)
    PROVE  TextInv'
<1>1. /\ logs' = logs /\ cuts' = cuts /\ shelf' = [shelf EXCEPT ![dir] = @ \cup {i}]
      /\ pending' = pending \cup {<<dir, i, "create">>} /\ DOMAIN shelf = Dirs
  BY DEF Freeze, StoresOK
<1>2. \A d \in Dirs : shelf[d] \subseteq shelf'[d]
  BY <1>1
<1>3. i \in shelf'[dir]
  BY <1>1
<1>4. ASSUME NEW line \in pending' PROVE line \in pending \/ line[2] \in shelf'[line[1]]
  <2>1. CASE line = <<dir, i, "create">>
    BY <1>3, <2>1
  <2> QED
    BY <1>1, <2>1
<1> QED
  BY <1>1, <1>2, <1>4, KeepsText

LEMMA BackfillText ==
    ASSUME StoresOK, TextInv, NEW dir \in Dirs, NEW i \in Deeds, Backfill(dir, i)
    PROVE  TextInv'
<1>1. /\ logs' = logs /\ cuts' = cuts /\ shelf' = shelf /\ i \in shelf[dir]
      /\ pending' = pending \cup {<<dir, i, "backfill">>}
  BY DEF Backfill, Served, deeds
<1>2. ASSUME NEW line \in pending' PROVE line \in pending \/ line[2] \in shelf'[line[1]]
  <2>1. CASE line = <<dir, i, "backfill">>
    BY <1>1, <2>1
  <2> QED
    BY <1>1, <2>1
<1> QED
  BY <1>1, <1>2, KeepsText

LEMMA AppendText ==
    ASSUME SlugAssumption, SeatAssumption, StoresOK, TextInv,
           NEW dir \in Dirs, NEW i \in Deeds, NEW writer,
           AppendLog(dir, i, writer)
    PROVE  TextInv'
<1>1. PICK n \in Stumps \cup {Len(Line(i))} :
          /\ n <= Len(Line(i))
          /\ cuts' = IF n < Len(Line(i)) THEN cuts + 1 ELSE cuts
          /\ logs' = [logs EXCEPT ![dir] = @ \o SubSeq(Line(i), 1, n)]
  BY DEF AppendLog
<1>2. /\ <<dir, i, writer>> \in pending /\ shelf' = shelf
      /\ pending' = pending \ {<<dir, i, writer>>}
  BY DEF AppendLog, deeds
<1>3. i \in shelf[dir]
  <2>1. PICK line \in pending : line = <<dir, i, writer>>
    BY <1>2
  <2>2. line[1] = dir /\ line[2] = i
    BY <2>1
  <2> QED
    BY <2>2 DEF TextInv
<1>4. Deeds \subseteq Owners /\ \A d \in Dirs : shelf[d] \in SUBSET Owners
  <2>1. \A j \in Deeds : j \in Nat /\ j \in DOMAIN Slugs
    BY DEF SeatAssumption
  <2>2. Deeds \subseteq Owners
    BY <2>1, LineIs
  <2> QED
    BY <2>2 DEF StoresOK
<1>5. PICK z \in Nat : z = Len(Line(i))
  BY <1>4 DEF Owners, LineOf
<1>6. n \in Nat /\ n <= z
  <2>1. Stumps \subseteq Nat
    BY SeatAssumption, Zenon DEF SeatAssumption
  <2> QED
    BY <1>1, <1>5, <2>1
<1>7. cuts' \in Nat /\ (cuts' = 0 => cuts = 0 /\ n = Len(Line(i)))
  <2>1. cuts \in Nat
    BY DEF TextInv
  <2>2. cuts' = IF n < z THEN cuts + 1 ELSE cuts
    BY <1>1, <1>5
  <2> QED
    BY <1>5, <1>6, <2>1, <2>2
<1>8. \A d \in Dirs : Torn(logs[d], shelf[d], cuts)
  BY DEF TextInv
<1>9. PICK text : text = logs[dir] \o SubSeq(Line(i), 1, n)
  OBVIOUS
<1>10. Torn(text, shelf[dir], cuts')
  <2>1. Torn(logs[dir], shelf[dir], cuts) /\ shelf[dir] \in SUBSET Owners
    BY <1>4, <1>8
  <2>2. PICK c \in Nat, d \in Nat : c = cuts /\ d = cuts'
    BY <1>7 DEF TextInv
  <2>3. PICK owners \in SUBSET Owners : owners = shelf[dir]
    BY <2>1
  <2>4. i \in owners /\ n \in Nat
    BY <1>3, <1>6, <2>3
  <2>5. PICK log : log = logs[dir] /\ Torn(log, owners, c)
    BY <2>1, <2>2, <2>3
  <2>6. Grown(log, i, n, text)
    BY <1>1, <1>9, <2>5 DEF Grown
  <2>7. Uncut(c, d, i, n)
    BY <1>7, <2>2 DEF Uncut
  <2>8. Torn(text, owners, d)
    BY <2>4, <2>5, <2>6, <2>7, TornGrows
  <2> QED
    BY <2>2, <2>3, <2>8
<1>11. text \in Seq(Nat) /\ logs' = [logs EXCEPT ![dir] = text]
  BY <1>1, <1>9, <1>10 DEF Torn
<1>12. PICK H : H = Seq(Nat) /\ logs \in [Dirs -> H] /\ text \in H
  BY <1>11 DEF TextInv
<1>13. logs' \in [Dirs -> H] /\ \A d \in Dirs : logs'[d] = IF d = dir THEN text ELSE logs[d]
  BY <1>11, <1>12
<1>14. ASSUME NEW d \in Dirs PROVE Torn(logs'[d], shelf'[d], cuts')
  <2>1. CASE d = dir
    BY <1>2, <1>10, <1>13, <2>1
  <2>2. CASE d # dir
    <3>1. Torn(logs[d], shelf[d], cuts')
      BY <1>7, <1>8, TornLess DEF TextInv
    <3> QED
      BY <1>2, <1>13, <2>2, <3>1
  <2> QED
    BY <2>1, <2>2
<1>15. \A line \in pending' : line[1] \in Dirs => line[2] \in shelf'[line[1]]
  BY <1>2 DEF TextInv
<1> QED
  BY <1>7, <1>12, <1>13, <1>14, <1>15 DEF TextInv

LEMMA NextText ==
    ASSUME SlugAssumption, SeatAssumption, LookInv, TextInv, [Next]_vars PROVE TextInv'
<1>1. StoresOK /\ Busy \subseteq Dirs
  BY DEF LookInv, SeatAssumption
<1>2. ASSUME UNCHANGED <<shelf, logs, pending, cuts>> PROVE TextInv'
  BY <1>2 DEF TextInv
<1>3. CASE Next
  <2>1. ASSUME NEW dir \in Busy, MakesStore(dir) PROVE TextInv'
    BY <1>2, <2>1 DEF MakesStore, deeds, lines
  <2>2. ASSUME NEW dir \in Busy, NEW i \in Deeds, OtherFreezes(dir, i) PROVE TextInv'
    BY <1>1, <2>2, FreezeText DEF OtherFreezes
  <2>3. ASSUME NEW dir \in Busy, NEW i \in Deeds, OtherDeletes(dir, i) PROVE TextInv'
    BY <1>2, <2>3 DEF OtherDeletes, lines
  <2>4. ASSUME NEW dir \in Busy, NEW i \in Deeds, Backfill(dir, i) PROVE TextInv'
    BY <1>1, <2>4, BackfillText
  <2>5. ASSUME NEW dir \in Dirs, NEW i \in Deeds, NEW writer, AppendLog(dir, i, writer)
        PROVE  TextInv'
    BY <1>1, <2>5, AppendText
  <2>6. ASSUME NEW command, Begin(command, FALSE) \/ Begin(command, TRUE) PROVE TextInv'
    BY <1>2, <2>6 DEF Begin, deeds, lines
  <2>7. CASE Split \/ TakeUrl \/ TakeMissing \/ Open
    BY <1>2, <2>7 DEF Split, TakeUrl, TakeMissing, Open, deeds, lines
  <2>8. CASE Create
    <3>1. cmd.url \in Dirs
      BY <2>8 DEF Create, LookInv, CmdOK
    <3>2. CASE \E i \in Deeds : Freeze(cmd.url, i)
      BY <1>1, <3>1, <3>2, FreezeText
    <3>3. CASE UNCHANGED <<paths, deeds, lines>>
      BY <1>2, <3>3 DEF deeds, lines
    <3> QED
      BY <2>8, <3>2, <3>3 DEF Create
  <2>9. CASE Other \/ LookUp \/ Resolve \/ TryHit \/ EndHits
    <3>1. UNCHANGED <<shelf, lines>>
      BY <2>9 DEF Other, LookUp, Resolve, TryHit, EndHits, deeds
    <3> QED
      BY <1>2, <3>1 DEF lines
  <2>10. CASE Visit \/ EndList \/ Check \/ Act \/ EndExplain \/ Told
    <3>1. UNCHANGED <<shelf, lines>>
      BY <2>10 DEF Visit, EndList, Check, Act, EndExplain, Told, deeds
    <3> QED
      BY <1>2, <3>1 DEF lines
  <2>11. (\E dir \in Busy : MakesStore(dir)) => TextInv'
    BY <2>1
  <2>12. (\E dir \in Busy, i \in Deeds :
             OtherFreezes(dir, i) \/ OtherDeletes(dir, i) \/ Backfill(dir, i)) => TextInv'
    BY <2>2, <2>3, <2>4
  <2>13. (\E dir \in Dirs, i \in Deeds, writer \in {"create", "backfill"} :
             AppendLog(dir, i, writer)) => TextInv'
    BY <2>5
  <2>14. /\ (\E command \in Commands : Begin(command, FALSE)) => TextInv'
         /\ (\E call \in Calls : Begin(call, TRUE)) => TextInv'
    BY <2>6
  <2> QED
    BY <1>3, <2>7, <2>8, <2>9, <2>10, <2>11, <2>12, <2>13, <2>14, Zenon DEF Next
<1>4. CASE UNCHANGED vars
  BY <1>2, <1>4 DEF vars, deeds, lines
<1> QED
  BY <1>3, <1>4

LEMMA InitText == ASSUME Init PROVE TextInv
<1>1. <<>> \in Seq(Nat) /\ Len(<<>>) = 0
  OBVIOUS
<1>2. PICK H, e : H = Seq(Nat) /\ e = <<>> /\ e \in H
  BY <1>1
<1>3. logs = [dir \in Dirs |-> e] /\ pending = {} /\ cuts = 0
  BY <1>2 DEF Init
<1>4. logs \in [Dirs -> H]
  BY <1>2, <1>3
<1>5. ASSUME NEW dir \in Dirs PROVE Torn(logs[dir], shelf[dir], cuts)
  BY <1>1, <1>2, <1>3 DEF Torn
<1> QED
  BY <1>2, <1>3, <1>4, <1>5 DEF TextInv

(* However append_log was cut short, on any deeds and by any seats: what   *)
(* reads as an entry is the end of one whole line of a deed frozen in that *)
(* store, with this deed's digest and, but at the end of the log, all of   *)
(* its time, behind an id that ends in its accession and is it as long as  *)
(* nothing was cut (fs.rs, append_log; log.rs, Entry::parse).              *)
THEOREM TornLinesEndInOne == Spec => []TornLinesEndWhole
<1>1. SeatAssumption /\ SlugAssumption
  BY SeatAssumption, SlugAssumption
<1>2. Init => LookInv /\ TextInv
  BY <1>1, InitLook, InitText
<1>3. LookInv /\ TextInv /\ [Next]_vars => (LookInv /\ TextInv)'
  <2>1. ASSUME LookInv, Next PROVE LookInv'
    BY <1>1, <2>1, NextLook
  <2>2. ASSUME LookInv, UNCHANGED vars PROVE LookInv'
    BY <2>2, StutterLook
  <2> QED
    BY <1>1, <2>1, <2>2, NextText
<1>4. LookInv /\ TextInv => TornLinesEndWhole
  <2>1. SUFFICES ASSUME LookInv, TextInv, NEW dir \in Dirs,
                        NEW text, text = SplitAt(logs[dir], Newline),
                        NEW n \in DOMAIN text, IsEntry(text[n])
                 PROVE  \E i \in shelf[dir] :
                            EntryIsOf(i, ParseEntry(text[n]), n < Len(text), cuts)
    BY DEF TornLinesEndWhole, EntryIsOf
  <2>2. \A i \in Deeds : i \in Nat /\ i \in DOMAIN Slugs
    BY <1>1 DEF SeatAssumption
  <2>3. \A i \in Deeds : i \in Owners
    BY <1>1, <2>2, LineIs
  <2>4. shelf[dir] \in SUBSET Owners /\ Torn(logs[dir], shelf[dir], cuts)
    BY <2>1, <2>3 DEF LookInv, StoresOK, TextInv
  <2>5. cuts \in Nat
    BY <2>1 DEF TextInv
  <2> QED
    BY <2>1, <2>4, <2>5, EntriesTell
<1> QED
  BY <1>2, <1>3, <1>4, PTL DEF Spec

-----------------------------------------------------------------------------
(* The words of a command. *)

Loops(States, start, last, round) ==
    \E run \in [0..last -> States] :
        run[0] = start /\ \A n \in 1..last : run[n] = round[<<run[n - 1], n>>]

(* What a loop over the numbers 1..last makes of its state. *)
LEMMA LoopRuns ==
    ASSUME NEW States, NEW start \in States, NEW last \in Nat,
           NEW round \in [States \X Nat -> States]
    PROVE  Loops(States, start, last, round)
<1> DEFINE
      Ok(run, n) == run[0] = start /\ \A k \in 1..last : k <= n => run[k] = round[<<run[k - 1], k>>]
      T == {n \in Nat : \E run \in [0..last -> States] : Ok(run, n)}
<1>1. 0 \in T
  <2>1. PICK run \in [0..last -> States] : run = [k \in 0..last |-> start]
    OBVIOUS
  <2>2. Ok(run, 0)
    BY <2>1
  <2> QED
    BY <2>2
<1>2. ASSUME NEW n \in Nat, n \in T PROVE n + 1 \in T
  <2>1. PICK run \in [0..last -> States] : Ok(run, n)
    BY <1>2
  <2>2. CASE n + 1 \in 1..last
    <3>1. PICK state \in States : state = round[<<run[n], n + 1>>]
      <4>1. run[n] \in States /\ n + 1 \in Nat
        BY <2>2
      <4> QED
        BY <4>1
    <3>2. PICK more \in [0..last -> States] : more = [run EXCEPT ![n + 1] = state]
      OBVIOUS
    <3>3. more[0] = start
      BY <2>1, <3>2
    <3>4. ASSUME NEW k \in 1..last, k <= n + 1 PROVE more[k] = round[<<more[k - 1], k>>]
      <4>1. more[k - 1] = run[k - 1]
        BY <3>2, <3>4
      <4>2. CASE k = n + 1
        BY <2>2, <3>1, <3>2, <4>1, <4>2
      <4>3. CASE k # n + 1
        <5>1. k <= n /\ more[k] = run[k]
          BY <3>2, <3>4, <4>3
        <5> QED
          BY <2>1, <4>1, <5>1
      <4> QED
        BY <4>2, <4>3
    <3>5. Ok(more, n + 1)
      BY <3>3, <3>4
    <3> HIDE DEF Ok
    <3> QED
      BY <3>5
  <2>3. CASE n + 1 \notin 1..last
    <3>1. \A k \in 1..last : k <= n + 1 => k <= n
      BY <2>3
    <3>2. Ok(run, n + 1)
      BY <2>1, <3>1
    <3> HIDE DEF Ok
    <3> QED
      BY <3>2
  <2> QED
    BY <2>2, <2>3
<1>3. last \in T
  <2> HIDE DEF T
  <2> QED
    BY <1>1, <1>2, Upward
<1> QED
  BY <1>3 DEF Loops

(* What split_argv may have read. *)
Splitting(Texts) ==
    [url : Seq(Texts), help : BOOLEAN, version : BOOLEAN, rest : Seq(Texts),
     takes : {"nothing", "url", "value"}, verb : BOOLEAN]

LEMMA ReadsOn ==
    ASSUME NEW Texts, NEW s \in Splitting(Texts), NEW word \in Texts
    PROVE  ReadWord(s, word) \in Splitting(Texts)
<1>1. Append(s.rest, word) \in Seq(Texts) /\ <<word>> \in Seq(Texts)
  BY DEF Splitting
<1>2. PICK rest \in Seq(Texts) : rest = Append(s.rest, word)
  BY <1>1
<1>3. Keep(s, word) = [s EXCEPT !.rest = rest]
  BY <1>2 DEF Keep
<1>4. Keep(s, word) \in Splitting(Texts)
  BY <1>3 DEF Splitting
<1>5. CASE s.takes = "url"
  BY <1>1, <1>5 DEF ReadWord, Splitting
<1>6. CASE s.takes = "value"
  BY <1>4, <1>6 DEF ReadWord, Splitting
<1>7. CASE s.takes = "nothing" /\ word = "--url"
  <2>1. ReadWord(s, word) = [s EXCEPT !.takes = "url"]
    BY <1>7 DEF ReadWord, Switches
  <2> QED
    BY <2>1 DEF Splitting
<1>8. CASE s.takes = "nothing" /\ word # "--url" /\ word \in Switches
  BY <1>4, <1>8 DEF ReadWord, Splitting
<1>9. CASE s.takes = "nothing" /\ word # "--url" /\ word \notin Switches
  BY <1>4, <1>9 DEF ReadWord, Splitting
<1> QED
  BY <1>5, <1>6, <1>7, <1>8, <1>9 DEF Splitting

(* The function split_argv is defined by. *)
SplitsArgv(Texts, args, split) ==
    /\ split \in [0..Len(args) -> Splitting(Texts)]
    /\ SplitArgv(args) = split[Len(args)]
    /\ split[0] = NothingRead
    /\ \A n \in 1..Len(args) : split[n] = ReadWord(split[n - 1], args[n])

LEMMA ArgvRuns ==
    ASSUME NEW Texts, NEW args \in Seq(Texts)
    PROVE  \E split : SplitsArgv(Texts, args, split)
<1> DEFINE
      Round(split) == [n \in 0..Len(args) |->
                          IF n = 0 THEN NothingRead ELSE ReadWord(split[n - 1], args[n])]
      split == CHOOSE split : split = Round(split)
      Read(s, n) == IF n \in 1..Len(args) THEN ReadWord(s, args[n]) ELSE s
<1>1. SplitArgv(args) = split[Len(args)]
  BY DEF SplitArgv
<1>2. PICK last \in Nat : last = Len(args)
  OBVIOUS
<1>3. PICK round \in [Splitting(Texts) \X Nat -> Splitting(Texts)] :
          round = [sn \in Splitting(Texts) \X Nat |-> Read(sn[1], sn[2])]
  <2>1. ASSUME NEW s \in Splitting(Texts), NEW n \in Nat PROVE Read(s, n) \in Splitting(Texts)
    <3>1. CASE n \in 1..Len(args)
      <4>1. args[n] \in Texts
        BY <3>1
      <4>2. Read(s, n) = ReadWord(s, args[n])
        BY <3>1
      <4> QED
        BY <4>1, <4>2, ReadsOn
    <3> QED
      BY <3>1
  <2> QED
    BY <2>1
<1>4. NothingRead \in Splitting(Texts)
  BY DEF NothingRead, Splitting
<1>5. PICK s \in [0..last -> Splitting(Texts)] :
          s[0] = NothingRead /\ \A n \in 1..last : s[n] = round[<<s[n - 1], n>>]
  <2>1. round \in [Splitting(Texts) \X Nat -> Splitting(Texts)] /\ last \in Nat
    OBVIOUS
  <2>2. Loops(Splitting(Texts), NothingRead, last, round)
    BY <1>4, <2>1, LoopRuns
  <2> HIDE DEF Round, split, Read
  <2> QED
    BY <2>2 DEF Loops
<1>6. ASSUME NEW n \in 1..last PROVE s[n] = ReadWord(s[n - 1], args[n])
  <2>1. s[n - 1] \in Splitting(Texts) /\ n \in Nat
    OBVIOUS
  <2> QED
    BY <1>2, <1>3, <1>5, <2>1
<1>7. s = Round(s)
  BY <1>2, <1>5, <1>6
<1>8. split = Round(split)
  <2>1. \E g : g = Round(g)
    <3> HIDE DEF Round
    <3> QED
      BY <1>7
  <2> HIDE DEF Round
  <2> QED
    BY <2>1, Zenon
<1> HIDE DEF split
<1>9. PICK all : all = split
  OBVIOUS
<1>10. all = Round(all)
  BY <1>8, <1>9
<1>11. all[0] = NothingRead /\ \A n \in 1..last : all[n] = ReadWord(all[n - 1], args[n])
  <2>1. ASSUME NEW n \in 0..last
        PROVE  all[n] = IF n = 0 THEN NothingRead ELSE ReadWord(all[n - 1], args[n])
    <3>1. n \in 0..Len(args)
      BY <1>2
    <3> QED
      BY <1>10, <3>1
  <2>2. 0 \in 0..last /\ \A n \in 1..last : n \in 0..last /\ n # 0
    OBVIOUS
  <2> QED
    BY <2>1, <2>2
<1>12. ASSUME NEW n \in Nat, n <= last PROVE all[n] \in Splitting(Texts)
  <2> DEFINE T == {k \in Nat : k <= last => all[k] \in Splitting(Texts)}
  <2>1. 0 \in T
    BY <1>4, <1>11
  <2>2. ASSUME NEW k \in Nat, k \in T PROVE k + 1 \in T
    <3>1. CASE k + 1 <= last
      <4>1. k + 1 \in 1..last /\ k <= last /\ (k + 1) - 1 = k
        BY <3>1
      <4>2. args[k + 1] \in Texts
        BY <1>2, <4>1
      <4>3. all[k + 1] = ReadWord(all[k], args[k + 1])
        BY <1>11, <4>1
      <4> QED
        <5>1. all[k] \in Splitting(Texts)
          BY <2>2, <4>1
        <5>2. ReadWord(all[k], args[k + 1]) \in Splitting(Texts)
          BY <4>2, <5>1, ReadsOn
        <5> QED
          BY <4>3, <5>2
    <3> QED
      BY <3>1
  <2> HIDE DEF T
  <2>3. n \in T
    BY <2>1, <2>2, Upward
  <2> QED
    BY <1>12, <2>3 DEF T
<1>13. all = [n \in 0..last |-> all[n]]
  BY <1>2, <1>10
<1>14. all \in [0..last -> Splitting(Texts)]
  BY <1>12, <1>13
<1> QED
  BY <1>1, <1>2, <1>9, <1>11, <1>14 DEF SplitsArgv

(* One word more. *)
LEMMA SplitOn ==
    ASSUME NEW Texts, NEW args \in Seq(Texts), NEW word \in Texts
    PROVE  SplitArgv(Append(args, word)) = ReadWord(SplitArgv(args), word)
<1>1. PICK more \in Seq(Texts) : more = Append(args, word)
  <2>1. Append(args, word) \in Seq(Texts)
    OBVIOUS
  <2> QED
    BY <2>1
<1>2. PICK last \in Nat : last = Len(args)
  OBVIOUS
<1>3. Len(more) = last + 1 /\ more[last + 1] = word /\ \A n \in 1..last : more[n] = args[n]
  BY <1>1, <1>2
<1>4. PICK s : SplitsArgv(Texts, args, s)
  BY ArgvRuns
<1>5. PICK t : SplitsArgv(Texts, more, t)
  BY ArgvRuns
<1> DEFINE T == {n \in Nat : n <= last => s[n] = t[n]}
<1>6. 0 \in T
  BY <1>4, <1>5 DEF SplitsArgv
<1>7. ASSUME NEW n \in Nat, n \in T PROVE n + 1 \in T
  <2>1. CASE n + 1 <= last
    <3>1. n + 1 \in 1..last /\ n + 1 \in 1..(last + 1) /\ n <= last /\ (n + 1) - 1 = n
      BY <2>1
    <3>2. s[n + 1] = ReadWord(s[n], args[n + 1])
      BY <1>2, <1>4, <3>1 DEF SplitsArgv
    <3>3. t[n + 1] = ReadWord(t[n], more[n + 1])
      BY <1>3, <1>5, <3>1 DEF SplitsArgv
    <3> QED
      BY <1>3, <1>7, <3>1, <3>2, <3>3
  <2> QED
    BY <2>1
<1>8. s[last] = t[last]
  <2> HIDE DEF T
  <2>1. last \in T
    BY <1>6, <1>7, Upward
  <2> QED
    BY <2>1 DEF T
<1>9. t[last + 1] = ReadWord(t[last], word)
  <2>1. last + 1 \in 1..(last + 1) /\ (last + 1) - 1 = last
    OBVIOUS
  <2> QED
    BY <1>3, <1>5, <2>1 DEF SplitsArgv
<1> QED
  BY <1>1, <1>2, <1>3, <1>4, <1>5, <1>8, <1>9 DEF SplitsArgv

LEMMA SplitNone ==
    SplitArgv(<<>>) = NothingRead
<1>1. <<>> \in Seq({}) /\ Len(<<>>) = 0
  OBVIOUS
<1>2. PICK s : SplitsArgv({}, <<>>, s)
  BY <1>1, ArgvRuns
<1> QED
  BY <1>1, <1>2 DEF SplitsArgv

(* The first of the items as words. *)
WritesAs(Texts, items, flat) ==
    /\ flat \in [0..Len(items) -> Seq(Texts)]
    /\ Written(items) = flat[Len(items)]
    /\ flat[0] = <<>>
    /\ \A n \in 1..Len(items) : flat[n] = flat[n - 1] \o items[n]

LEMMA WrittenRuns ==
    ASSUME NEW Texts, NEW items \in Seq(Seq(Texts))
    PROVE  \E flat : WritesAs(Texts, items, flat)
<1> DEFINE
      Round(flatten) == [i \in 1..Len(items) |->
                            IF i = 1 THEN items[i] ELSE flatten[i - 1] \o items[i]]
      flatten == CHOOSE flatten : flatten = Round(flatten)
      Item(n) == IF n \in 1..Len(items) THEN items[n] ELSE <<>>
<1>1. Len(items) # 0 => Written(items) = flatten[Len(items)]
  BY DEF Written, FlattenSeq
<1>2. PICK last \in Nat : last = Len(items)
  OBVIOUS
<1>3. PICK round \in [Seq(Texts) \X Nat -> Seq(Texts)] :
          round = [sn \in Seq(Texts) \X Nat |-> sn[1] \o Item(sn[2])]
  <2>1. ASSUME NEW s \in Seq(Texts), NEW n \in Nat PROVE s \o Item(n) \in Seq(Texts)
    <3>1. Item(n) \in Seq(Texts)
      <4>1. CASE n \in 1..Len(items)
        BY <4>1
      <4>2. CASE n \notin 1..Len(items)
        BY <4>2
      <4> QED
        BY <4>1, <4>2
    <3> HIDE DEF Item
    <3> QED
      BY <3>1
  <2> QED
    BY <2>1
<1>4. Loops(Seq(Texts), <<>>, last, round)
  <2>1. <<>> \in Seq(Texts)
    OBVIOUS
  <2>2. round \in [Seq(Texts) \X Nat -> Seq(Texts)] /\ last \in Nat
    OBVIOUS
  <2> QED
    BY <2>1, <2>2, LoopRuns
<1>5. PICK flat \in [0..last -> Seq(Texts)] :
          flat[0] = <<>> /\ \A n \in 1..last : flat[n] = round[<<flat[n - 1], n>>]
  BY <1>4 DEF Loops
<1>6. ASSUME NEW n \in 1..last PROVE flat[n] = flat[n - 1] \o items[n]
  <2>1. flat[n - 1] \in Seq(Texts) /\ n \in Nat
    OBVIOUS
  <2> QED
    BY <1>2, <1>3, <1>5, <2>1
<1>7. flatten = Round(flatten)
  <2>1. PICK s : s = [i \in 1..last |-> flat[i]]
    OBVIOUS
  <2>2. ASSUME NEW i \in 1..last
        PROVE  s[i] = IF i = 1 THEN items[i] ELSE s[i - 1] \o items[i]
    <3>1. CASE i = 1
      <4>1. items[1] \in Seq(Texts) /\ 1 \in 1..last /\ 1 - 1 = 0
        BY <1>2, <3>1
      <4>2. flat[1] = <<>> \o items[1]
        BY <1>5, <1>6, <4>1
      <4>3. flat[1] = items[1]
        BY <4>1, <4>2
      <4> QED
        BY <2>1, <3>1, <4>1, <4>3
    <3>2. CASE i # 1
      <4>1. i - 1 \in 1..last
        BY <3>2
      <4> QED
        BY <1>6, <2>1, <3>2, <4>1
    <3> QED
      BY <3>1, <3>2
  <2>3. s = Round(s)
    BY <1>2, <2>1, <2>2
  <2>4. \E g : g = Round(g)
    <3> HIDE DEF Round
    <3> QED
      BY <2>3
  <2> HIDE DEF Round
  <2> QED
    BY <2>4, Zenon
<1> HIDE DEF flatten
<1>8. PICK all : all = flatten
  OBVIOUS
<1>9. all = Round(all)
  BY <1>7, <1>8
<1>10. ASSUME NEW n \in 1..last PROVE all[n] = IF n = 1 THEN items[n] ELSE all[n - 1] \o items[n]
  BY <1>2, <1>9
<1> DEFINE T == {k \in Nat : k + 1 <= last => all[k + 1] = flat[k + 1]}
<1>11. 0 \in T
  <2>1. CASE 1 <= last
    <3>1. items[1] \in Seq(Texts) /\ 1 \in 1..last /\ 1 - 1 = 0
      BY <1>2, <2>1
    <3>2. flat[1] = <<>> \o items[1]
      BY <1>5, <1>6, <3>1
    <3>3. flat[1] = items[1]
      BY <3>1, <3>2
    <3> QED
      BY <1>10, <3>1, <3>3
  <2> QED
    BY <2>1
<1>12. ASSUME NEW k \in Nat, k \in T PROVE k + 1 \in T
  <2>1. CASE (k + 1) + 1 <= last
    <3>1. k + 1 <= last /\ (k + 1) + 1 \in 1..last /\ (k + 1) + 1 # 1 /\ ((k + 1) + 1) - 1 = k + 1
      BY <2>1
    <3>2. all[(k + 1) + 1] = all[k + 1] \o items[(k + 1) + 1]
      BY <1>10, <3>1
    <3>3. flat[(k + 1) + 1] = flat[k + 1] \o items[(k + 1) + 1]
      BY <1>6, <3>1
    <3>4. all[k + 1] = flat[k + 1]
      BY <1>12, <3>1
    <3>5. all[(k + 1) + 1] = flat[(k + 1) + 1]
      BY <3>2, <3>3, <3>4
    <3> QED
      BY <3>5
  <2> QED
    BY <2>1
<1>13. last # 0 => all[last] = flat[last]
  <2> HIDE DEF T
  <2>1. CASE last # 0
    <3>1. last - 1 \in Nat /\ (last - 1) + 1 = last
      BY <2>1
    <3>2. last - 1 \in T
      BY <1>11, <1>12, <3>1, Upward
    <3> QED
      BY <3>1, <3>2 DEF T
  <2> QED
    BY <2>1
<1>14. last = 0 => Written(items) = <<>>
  <2>1. CASE last = 0
    <3>1. items = <<>> /\ Len(items) = 0
      <4>1. ASSUME NEW Items, NEW some \in Seq(Items), Len(some) = 0 PROVE some = <<>>
        BY <4>1
      <4>2. Len(items) = 0
        BY <1>2, <2>1
      <4> QED
        BY <4>1, <4>2
    <3>2. Written(items) = items
      BY <3>1 DEF Written, FlattenSeq
    <3> QED
      BY <3>1, <3>2
  <2> QED
    BY <2>1
<1>15. Written(items) = flat[last]
  BY <1>1, <1>2, <1>5, <1>8, <1>13, <1>14
<1> QED
  BY <1>2, <1>5, <1>6, <1>15 DEF WritesAs

(* A word that is no value of an option. *)
ReadsAt(s, word, t) ==
    /\ word = "--url" => t.takes = "url" /\ t.rest = s.rest
    /\ word # "--url" => /\ t.rest = Append(s.rest, word)
                         /\ t.takes = IF word \in Options \cup {Stray} /\ s.verb
                                      THEN "value" ELSE "nothing"
    /\ t.url = s.url
    /\ (word \in {"--help", "-h"} \/ s.help) => t.help
    /\ (word \in {"--version", "-V"} \/ s.version) => t.version
    /\ t.verb = (s.verb \/ ~IsFlag(word))

LEMMA ReadsFirst ==
    ASSUME NEW Texts, NEW s \in Splitting(Texts), s.takes = "nothing", NEW word \in Texts,
           NEW t, t = ReadWord(s, word)
    PROVE  t \in Splitting(Texts) /\ ReadsAt(s, word, t)
<1>1. t \in Splitting(Texts)
  BY ReadsOn
<1>2. CASE word = "--url"
  <2>1. t = [s EXCEPT !.takes = "url"] /\ IsFlag(word)
    BY <1>2 DEF ReadWord, Switches, IsFlag
  <2> QED
    BY <1>1, <1>2, <2>1 DEF Splitting, ReadsAt
<1>3. CASE word # "--url" /\ word \in Switches
  <2>1. t = [Keep(s, word) EXCEPT !.help = @ \/ word \in {"--help", "-h"},
                                  !.version = @ \/ word \in {"--version", "-V"}]
    BY <1>3 DEF ReadWord
  <2>2. IsFlag(word) /\ word \notin Options \cup {Stray}
    BY <1>3 DEF IsFlag, Switches, Options, Stray
  <2> QED
    BY <1>1, <1>3, <2>1, <2>2 DEF Splitting, Keep, ReadsAt
<1>4. CASE word # "--url" /\ word \notin Switches
  <2>1. t = [Keep(s, word) EXCEPT
                !.takes = IF IsFlag(word) /\ s.verb THEN "value" ELSE "nothing",
                !.verb = @ \/ ~IsFlag(word)]
    BY <1>4 DEF ReadWord
  <2>2. IsFlag(word) <=> word \in Options \cup {Stray}
    BY <1>4 DEF IsFlag
  <2>3. word \notin {"--help", "-h"} /\ word \notin {"--version", "-V"}
    BY <1>4 DEF Switches
  <2> QED
    BY <1>1, <1>4, <2>1, <2>2, <2>3 DEF Splitting, Keep, ReadsAt
<1> QED
  BY <1>2, <1>3, <1>4

(* A word that is one. *)
ReadsAs(s, word, t) ==
    /\ t.takes = "nothing"
    /\ t.help = s.help /\ t.version = s.version /\ t.verb = s.verb
    /\ s.takes = "url" => t.url = <<word>> /\ t.rest = s.rest
    /\ s.takes = "value" => t.url = s.url /\ t.rest = Append(s.rest, word)

LEMMA ReadsValue ==
    ASSUME NEW Texts, NEW s \in Splitting(Texts), s.takes # "nothing", NEW word \in Texts,
           NEW t, t = ReadWord(s, word)
    PROVE  t \in Splitting(Texts) /\ ReadsAs(s, word, t)
<1>1. t \in Splitting(Texts)
  BY ReadsOn
<1>2. CASE s.takes = "url"
  <2>1. t = [s EXCEPT !.url = <<word>>, !.takes = "nothing"]
    BY <1>2 DEF ReadWord
  <2> QED
    BY <1>1, <1>2, <2>1 DEF Splitting, ReadsAs
<1>3. CASE s.takes = "value"
  <2>1. t = [Keep(s, word) EXCEPT !.takes = "nothing"]
    BY <1>3 DEF ReadWord
  <2> QED
    BY <1>1, <1>3, <2>1 DEF Splitting, Keep, ReadsAs
<1> QED
  BY <1>2, <1>3 DEF Splitting, ReadsAs

LEMMA TwoWords ==
    ASSUME NEW Texts, NEW text \in Seq(Texts), NEW word \in Texts, NEW value \in Texts
    PROVE  text \o <<word, value>> = Append(Append(text, word), value)
<1>1. PICK one \in Seq(Texts) : one = <<word>>
  <2>1. <<word>> \in Seq(Texts)
    OBVIOUS
  <2> QED
    BY <2>1
<1>2. PICK two \in Seq(Texts) : two = <<value>>
  <2>1. <<value>> \in Seq(Texts)
    OBVIOUS
  <2> QED
    BY <2>1
<1>3. <<word, value>> = one \o two
  <2>1. PICK pair \in Seq(Texts) : pair = <<word, value>>
    <3>1. <<word, value>> \in Seq(Texts)
      OBVIOUS
    <3> QED
      BY <3>1
  <2>2. Len(pair) = 2 /\ pair[1] = word /\ pair[2] = value
    BY <2>1
  <2>3. Len(one) = 1 /\ one[1] = word /\ Len(two) = 1 /\ two[1] = value
    BY <1>1, <1>2
  <2>4. PICK join \in Seq(Texts) :
            /\ join = one \o two /\ Len(join) = Len(one) + Len(two)
            /\ \A i \in 1..(Len(one) + Len(two)) :
                   join[i] = IF i <= Len(one) THEN one[i] ELSE two[i - Len(one)]
    <3>1. one \o two \in Seq(Texts)
      BY ConcatProperties
    <3>2. Len(one \o two) = Len(one) + Len(two)
      BY ConcatProperties
    <3>3. \A i \in 1..(Len(one) + Len(two)) :
              (one \o two)[i] = IF i <= Len(one) THEN one[i] ELSE two[i - Len(one)]
      BY ConcatProperties
    <3> QED
      BY <3>1, <3>2, <3>3, Zenon
  <2>5. Len(join) = 2 /\ \A i \in 1..2 : join[i] = IF i <= 1 THEN one[i] ELSE two[i - 1]
    BY <2>3, <2>4
  <2>6. 1 \in 1..2 /\ 2 \in 1..2 /\ 1 <= 1 /\ ~(2 <= 1) /\ 2 - 1 = 1
    OBVIOUS
  <2>7. join[1] = word /\ join[2] = value
    BY <2>3, <2>5, <2>6
  <2>8. join = pair
    BY <2>2, <2>5, <2>7
  <2> QED
    BY <2>1, <2>4, <2>8
<1>4. Append(text, word) = text \o one /\ text \o one \in Seq(Texts)
  BY <1>1, AppendIsConcat, ConcatProperties
<1>5. PICK more \in Seq(Texts) : more = text \o one
  BY <1>4
<1>6. Append(more, value) = more \o two
  BY <1>2, AppendIsConcat
<1>7. (text \o one) \o two = text \o (one \o two)
  BY ConcatAssociative
<1> QED
  BY <1>3, <1>4, <1>5, <1>6, <1>7

(* What one item more does to what is read. *)
Reads(items, n, s, t) ==
    /\ t.takes = "nothing"
    /\ t.verb = (s.verb \/ IsVerbItem(items[n]))
    /\ items[n][1] = "--url" => t.rest = s.rest /\ t.url = <<items[n][2]>>
    /\ items[n][1] # "--url" => t.rest = s.rest \o items[n] /\ t.url = s.url
    /\ (s.help \/ (Len(items[n]) = 1 /\ items[n][1] \in {"--help", "-h"})) => t.help
    /\ (s.version \/ (Len(items[n]) = 1 /\ items[n][1] \in {"--version", "-V"})) => t.version

LEMMA ReadsItem ==
    ASSUME NEW Texts, NEW items \in Seq(Seq(Texts)), NEW n \in 1..Len(items),
           Len(items[n]) = IF TakesValue(items, n) THEN 2 ELSE 1,
           NEW args \in Seq(Texts), NEW s, s = SplitArgv(args), s \in Splitting(Texts),
           s.takes = "nothing", s.verb = (\E k \in 1..(n - 1) : IsVerbItem(items[k])),
           NEW t, t = SplitArgv(args \o items[n])
    PROVE  Reads(items, n, s, t) /\ t \in Splitting(Texts)
<1>1. PICK item \in Seq(Texts) : item = items[n]
  OBVIOUS
<1>2. Len(item) \in {1, 2}
  BY <1>1
<1>3. PICK word \in Texts : word = item[1]
  BY <1>2
<1>4. PICK r : r = ReadWord(s, word)
  OBVIOUS
<1>5. r \in Splitting(Texts) /\ ReadsAt(s, word, r)
  BY <1>4, ReadsFirst
<1>6. TakesValue(items, n) <=> word = "--url" \/ (word \in Options \cup {Stray} /\ s.verb)
  BY <1>1, <1>3 DEF TakesValue
<1>7. PICK more \in Seq(Texts) : more = Append(args, word)
  <2>1. Append(args, word) \in Seq(Texts)
    OBVIOUS
  <2> QED
    BY <2>1
<1>8. SplitArgv(more) = r
  BY <1>4, <1>7, SplitOn
<1>9. PICK rest \in Seq(Texts) : rest = s.rest
  BY DEF Splitting
<1>10. CASE ~TakesValue(items, n)
  <2>1. Len(item) = 1
    BY <1>1, <1>10
  <2>2. item = <<word>>
    BY <1>3, <2>1
  <2>3. args \o item = more /\ rest \o item = Append(rest, word)
    BY <1>7, <2>2
  <2>4. t = r
    BY <1>1, <1>8, <2>3
  <2>5. IsVerbItem(item) <=> ~IsFlag(word)
    BY <1>3, <2>1 DEF IsVerbItem
  <2>6. word # "--url" /\ r.takes = "nothing" /\ r.rest = rest \o item
    BY <1>5, <1>6, <1>9, <1>10, <2>3 DEF ReadsAt
  <2> QED
    BY <1>1, <1>3, <1>5, <1>9, <2>1, <2>4, <2>5, <2>6 DEF Reads, ReadsAt
<1>11. CASE TakesValue(items, n)
  <2>1. Len(item) = 2
    BY <1>1, <1>11
  <2>2. PICK value \in Texts : value = item[2]
    <3>1. 2 \in 1..Len(item)
      BY <2>1
    <3> QED
      BY <3>1
  <2>3. item = <<word, value>>
    BY <1>3, <2>1, <2>2
  <2>4. args \o item = Append(more, value)
    BY <1>7, <2>3, TwoWords
  <2>5. rest \o item = Append(Append(rest, word), value)
    BY <2>3, TwoWords
  <2>6. t = ReadWord(r, value)
    BY <1>1, <1>8, <2>4, SplitOn
  <2>7. r.takes # "nothing"
    BY <1>5, <1>6, <1>11 DEF ReadsAt
  <2>8. t \in Splitting(Texts) /\ ReadsAs(r, value, t)
    BY <1>5, <2>6, <2>7, ReadsValue
  <2>9. IsFlag(word) /\ ~IsVerbItem(item)
    BY <1>6, <1>11, <2>1 DEF IsVerbItem, IsFlag
  <2>10. t.verb = (s.verb \/ IsVerbItem(item))
    BY <1>5, <2>8, <2>9 DEF ReadsAt, ReadsAs
  <2>11. word # "--url" => r.takes = "value" /\ t.rest = rest \o item /\ t.url = s.url
    BY <1>5, <1>6, <1>9, <1>11, <2>5, <2>8 DEF ReadsAt, ReadsAs
  <2>12. word = "--url" => t.rest = s.rest /\ t.url = <<value>>
    BY <1>5, <2>8 DEF ReadsAt, ReadsAs
  <2>13. (s.help => t.help) /\ (s.version => t.version)
    BY <1>5, <2>8 DEF ReadsAt, ReadsAs
  <2> QED
    <3>1. t.takes = "nothing"
      BY <2>8 DEF ReadsAs
    <3>2. /\ Len(items[n]) # 1 /\ items[n][1] = word /\ items[n][2] = value
          /\ t.verb = (s.verb \/ IsVerbItem(items[n]))
          /\ word # "--url" => t.rest = s.rest \o items[n] /\ t.url = s.url
      <4>1. Len(item) # 1
        BY <2>1
      <4> QED
        BY <1>1, <1>3, <1>9, <2>2, <2>10, <2>11, <4>1
    <3> QED
      BY <2>8, <2>12, <2>13, <3>1, <3>2 DEF Reads
<1> QED
  BY <1>10, <1>11

(* What has been read after the first n items. *)
IsUrl(item) == item[1] = "--url"
UrlOf(items, n, url) ==
    /\ (\A i \in 1..n : ~IsUrl(items[i])) => url = <<>>
    /\ \A m \in 1..n :
           IsUrl(items[m]) /\ (\A i \in 1..n : IsUrl(items[i]) => i <= m) => url = <<items[m][2]>>
Has(items, n, words) == \E i \in 1..n : Len(items[i]) = 1 /\ items[i][1] \in words

ReadUpTo(items, kept, n, s) ==
    /\ s.takes = "nothing"
    /\ s.verb = (\E k \in 1..n : IsVerbItem(items[k]))
    /\ s.rest = kept[n]
    /\ UrlOf(items, n, s.url)
    /\ Has(items, n, {"--help", "-h"}) => s.help
    /\ Has(items, n, {"--version", "-V"}) => s.version

LEMMA UrlOn ==
    ASSUME NEW items, NEW n \in Nat, NEW url, UrlOf(items, n, url), NEW more,
           IsUrl(items[n + 1]) => more = <<items[n + 1][2]>>,
           ~IsUrl(items[n + 1]) => more = url
    PROVE  UrlOf(items, n + 1, more)
<1>1. \A i \in 1..(n + 1) : i \in 1..n \/ i = n + 1
  OBVIOUS
<1>2. n + 1 \in 1..(n + 1) /\ \A i \in 1..n : i \in 1..(n + 1) /\ ~(n + 1 <= i)
  OBVIOUS
<1>3. CASE IsUrl(items[n + 1])
  <2>1. ASSUME NEW m \in 1..(n + 1), \A i \in 1..(n + 1) : IsUrl(items[i]) => i <= m
        PROVE  m = n + 1
    BY <1>1, <1>2, <1>3, <2>1
  <2> QED
    BY <1>2, <1>3, <2>1 DEF UrlOf
<1>4. CASE ~IsUrl(items[n + 1])
  <2>1. ASSUME NEW m \in 1..(n + 1), IsUrl(items[m]) PROVE m \in 1..n
    BY <1>1, <1>4, <2>1
  <2>2. more = url
    BY <1>4
  <2> QED
    BY <1>2, <2>1, <2>2 DEF UrlOf
<1> QED
  BY <1>3, <1>4

LEMMA HasOn ==
    ASSUME NEW items, NEW n \in Nat, NEW words, Has(items, n + 1, words)
    PROVE  Has(items, n, words) \/ (Len(items[n + 1]) = 1 /\ items[n + 1][1] \in words)
<1>1. \A i \in 1..(n + 1) : i \in 1..n \/ i = n + 1
  OBVIOUS
<1> QED
  BY <1>1 DEF Has

(* An item more. *)
LEMMA ReadUpOn ==
    ASSUME NEW Texts, NEW items \in Seq(Seq(Texts)), NEW n \in Nat, n + 1 \in 1..Len(items),
           Len(items[n + 1]) = IF TakesValue(items, n + 1) THEN 2 ELSE 1,
           NEW kept, kept[n + 1] = kept[n] \o (IF IsUrl(items[n + 1]) THEN <<>> ELSE items[n + 1]),
           kept[n] \in Seq(Texts),
           NEW args \in Seq(Texts), NEW s, s = SplitArgv(args), s \in Splitting(Texts),
           ReadUpTo(items, kept, n, s),
           NEW t, t = SplitArgv(args \o items[n + 1])
    PROVE  t \in Splitting(Texts) /\ ReadUpTo(items, kept, n + 1, t)
<1>1. PICK m \in 1..Len(items) : m = n + 1 /\ m - 1 = n
  OBVIOUS
<1>2. s.verb = (\E k \in 1..(m - 1) : IsVerbItem(items[k])) /\ s.takes = "nothing"
  BY <1>1 DEF ReadUpTo
<1>3. Reads(items, m, s, t) /\ t \in Splitting(Texts)
  BY <1>1, <1>2, ReadsItem
<1>4. t.takes = "nothing"
  BY <1>3 DEF Reads
<1>5. t.verb = (\E k \in 1..(n + 1) : IsVerbItem(items[k]))
  <2>1. t.verb = (s.verb \/ IsVerbItem(items[n + 1]))
    BY <1>1, <1>3 DEF Reads
  <2>2. s.verb = (\E k \in 1..n : IsVerbItem(items[k]))
    BY DEF ReadUpTo
  <2>3. (\E k \in 1..(n + 1) : IsVerbItem(items[k])) <=>
            (\E k \in 1..n : IsVerbItem(items[k])) \/ IsVerbItem(items[n + 1])
    <3>1. \A k \in 1..(n + 1) : k \in 1..n \/ k = n + 1
      OBVIOUS
    <3>2. n + 1 \in 1..(n + 1) /\ \A k \in 1..n : k \in 1..(n + 1)
      OBVIOUS
    <3> QED
      BY <3>1, <3>2
  <2> QED
    BY <2>1, <2>2, <2>3
<1>6. t.rest = kept[n + 1]
  <2>1. s.rest = kept[n]
    BY DEF ReadUpTo
  <2>2. CASE IsUrl(items[n + 1])
    <3>1. t.rest = s.rest
      BY <1>1, <1>3, <2>2 DEF Reads, IsUrl
    <3>2. kept[n + 1] = kept[n] \o <<>>
      BY <2>2
    <3>3. kept[n] \o <<>> = kept[n]
      BY ConcatEmptySeq
    <3> QED
      BY <2>1, <3>1, <3>2, <3>3
  <2>3. CASE ~IsUrl(items[n + 1])
    BY <1>1, <1>3, <2>1, <2>3 DEF Reads, IsUrl
  <2> QED
    BY <2>2, <2>3
<1>7. UrlOf(items, n + 1, t.url)
  <2>1. PICK url : url = s.url
    OBVIOUS
  <2>2. PICK more : more = t.url
    OBVIOUS
  <2>3. UrlOf(items, n, url)
    BY <2>1 DEF ReadUpTo
  <2>4. IsUrl(items[n + 1]) => more = <<items[n + 1][2]>>
    BY <1>1, <1>3, <2>2 DEF Reads, IsUrl
  <2>5. ~IsUrl(items[n + 1]) => more = url
    BY <1>1, <1>3, <2>1, <2>2 DEF Reads, IsUrl
  <2> QED
    BY <2>2, <2>3, <2>4, <2>5, UrlOn
<1>8. Has(items, n + 1, {"--help", "-h"}) => t.help
  <2>1. Has(items, n + 1, {"--help", "-h"}) =>
            s.help \/ (Len(items[n + 1]) = 1 /\ items[n + 1][1] \in {"--help", "-h"})
    BY HasOn DEF ReadUpTo
  <2> QED
    BY <1>1, <1>3, <2>1 DEF Reads
<1>9. Has(items, n + 1, {"--version", "-V"}) => t.version
  <2>1. Has(items, n + 1, {"--version", "-V"}) =>
            s.version \/ (Len(items[n + 1]) = 1 /\ items[n + 1][1] \in {"--version", "-V"})
    BY HasOn DEF ReadUpTo
  <2> QED
    BY <1>1, <1>3, <2>1 DEF Reads
<1> QED
  BY <1>3, <1>4, <1>5, <1>6, <1>7, <1>8, <1>9 DEF ReadUpTo

(* The last of some numbers. *)
LEMMA LastOf ==
    ASSUME NEW last \in Nat, NEW some, some \subseteq 1..last, some # {}
    PROVE  \E m \in some : \A i \in some : m >= i
<1> DEFINE T == {k \in Nat : \A x \in some : x + k >= last =>
                                 \E m \in some : \A i \in some : m >= i}
<1>1. 0 \in T
  <2>1. ASSUME NEW x \in some, x + 0 >= last PROVE \A i \in some : x >= i
    <3>1. \A i \in some : i \in Nat /\ i <= last
      OBVIOUS
    <3> QED
      BY <2>1, <3>1
  <2> QED
    BY <2>1
<1>2. ASSUME NEW k \in Nat, k \in T PROVE k + 1 \in T
  <2>1. ASSUME NEW x \in some, x + (k + 1) >= last PROVE \E m \in some : \A i \in some : m >= i
    <3>1. \A i \in some : i \in Nat
      OBVIOUS
    <3>2. CASE \E y \in some : y > x
      <4>1. PICK y \in some : y > x
        BY <3>2
      <4>2. y + k >= last
        BY <2>1, <3>1, <4>1
      <4> QED
        BY <1>2, <4>2
    <3>3. CASE ~ \E y \in some : y > x
      <4>1. \A i \in some : x >= i
        BY <3>1, <3>3
      <4> QED
        BY <4>1
    <3> QED
      BY <3>2, <3>3
  <2> QED
    BY <2>1
<1>3. last \in T
  <2> HIDE DEF T
  <2> QED
    BY <1>1, <1>2, Upward
<1>4. PICK x \in some : TRUE
  OBVIOUS
<1>5. x \in Nat /\ x + last >= last
  OBVIOUS
<1> QED
  BY <1>3, <1>4, <1>5

(* split_argv finds in the words what they were written to mean. *)
Understands(split, means) ==
    /\ split.rest = means.rest
    /\ split.url = means.url
    /\ means.help => split.help
    /\ means.version => split.version

LEMMA SplitUnderstands ==
    ASSUME NEW items, WellMeant(items)
    PROVE  Understands(SplitArgv(Written(items)), Means(items))
<1>1. PICK Texts : Texts = STRING
  OBVIOUS
<1>2. items \in Seq(Seq(Texts))
  BY <1>1 DEF WellMeant
<1>3. PICK last \in Nat : last = Len(items)
  <2>1. Len(items) \in Nat
    BY <1>2
  <2> QED
    BY <2>1
<1>4. ASSUME NEW n \in 1..last
      PROVE  items[n] \in Seq(Texts) /\ Len(items[n]) = IF TakesValue(items, n) THEN 2 ELSE 1
  <2>1. n \in DOMAIN items
    BY <1>2, <1>3
  <2>2. Len(items[n]) = IF TakesValue(items, n) THEN 2 ELSE 1
    BY <2>1 DEF WellMeant
  <2> QED
    BY <1>2, <1>3, <2>2
<1> DEFINE urls == {i \in DOMAIN items : items[i][1] = "--url"}
<1>5. DOMAIN items = 1..last
  BY <1>2, <1>3
<1>6. PICK words : words = [i \in 1..last |-> IF IsUrl(items[i]) THEN <<>> ELSE items[i]]
  OBVIOUS
<1>7. words \in Seq(Seq(Texts)) /\ Len(words) = last
  <2>1. ASSUME NEW i \in 1..last PROVE words[i] \in Seq(Texts)
    BY <1>4, <1>6
  <2>2. words \in [1..last -> Seq(Texts)]
    BY <1>6, <2>1
  <2> QED
    BY <2>2
<1>8. Means(items).rest = Written(words)
  <2>1. [i \in DOMAIN items |-> IF i \in urls THEN <<>> ELSE items[i]] = words
    BY <1>5, <1>6 DEF IsUrl
  <2> QED
    BY <2>1 DEF Means
<1>9. PICK flat : WritesAs(Texts, items, flat)
  BY <1>2, WrittenRuns
<1>10. PICK kept : WritesAs(Texts, words, kept)
  BY <1>7, WrittenRuns
<1> DEFINE T == {n \in Nat : n <= last => /\ SplitArgv(flat[n]) \in Splitting(Texts)
                                          /\ ReadUpTo(items, kept, n, SplitArgv(flat[n]))}
<1>11. 0 \in T
  <2>1. flat[0] = <<>> /\ kept[0] = <<>>
    BY <1>9, <1>10 DEF WritesAs
  <2>2. SplitArgv(flat[0]) = NothingRead
    BY <2>1, SplitNone
  <2>3. PICK s : s = NothingRead
    OBVIOUS
  <2>4. s \in Splitting(Texts)
    BY <2>3 DEF NothingRead, Splitting
  <2>5. s.url = <<>> /\ s.rest = <<>> /\ s.takes = "nothing" /\ s.verb = FALSE
    BY <2>3 DEF NothingRead
  <2>6. \A i : i \notin 1..0
    OBVIOUS
  <2>7. UrlOf(items, 0, s.url)
    BY <2>5, <2>6 DEF UrlOf
  <2>8. \A some : ~Has(items, 0, some)
    BY <2>6 DEF Has
  <2>9. s.verb = (\E k \in 1..0 : IsVerbItem(items[k]))
    BY <2>5, <2>6
  <2>10. ReadUpTo(items, kept, 0, s)
    BY <2>1, <2>5, <2>7, <2>8, <2>9 DEF ReadUpTo
  <2> QED
    BY <2>2, <2>3, <2>4, <2>10
<1>12. ASSUME NEW n \in Nat, n \in T PROVE n + 1 \in T
  <2>1. CASE n + 1 <= last
    <3>1. n + 1 \in 1..last /\ n <= last /\ n \in 0..last /\ (n + 1) - 1 = n
      BY <2>1
    <3>2. PICK args \in Seq(Texts) : args = flat[n]
      <4>1. flat[n] \in Seq(Texts)
        BY <1>3, <1>9, <3>1 DEF WritesAs
      <4> QED
        BY <4>1
    <3>3. flat[n + 1] = args \o items[n + 1]
      BY <1>3, <1>9, <3>1, <3>2 DEF WritesAs
    <3>4. kept[n] \in Seq(Texts) /\ kept[n + 1] = kept[n] \o words[n + 1]
      BY <1>7, <1>10, <3>1 DEF WritesAs
    <3>5. words[n + 1] = IF IsUrl(items[n + 1]) THEN <<>> ELSE items[n + 1]
      BY <1>6, <3>1
    <3>6. PICK s : s = SplitArgv(args)
      OBVIOUS
    <3>7. s \in Splitting(Texts) /\ ReadUpTo(items, kept, n, s)
      BY <1>12, <3>1, <3>2, <3>6
    <3>8. PICK t : t = SplitArgv(args \o items[n + 1])
      OBVIOUS
    <3>9. n + 1 \in 1..Len(items) /\ Len(items[n + 1]) = IF TakesValue(items, n + 1) THEN 2 ELSE 1
      BY <1>3, <1>4, <3>1
    <3>10. kept[n + 1] = kept[n] \o (IF IsUrl(items[n + 1]) THEN <<>> ELSE items[n + 1])
      BY <3>4, <3>5
    <3>11. t \in Splitting(Texts) /\ ReadUpTo(items, kept, n + 1, t)
      BY <1>2, <3>4, <3>6, <3>7, <3>8, <3>9, <3>10, ReadUpOn
    <3>12. SplitArgv(flat[n + 1]) = t
      BY <3>3, <3>8
    <3>13. SplitArgv(flat[n + 1]) \in Splitting(Texts) /\ ReadUpTo(items, kept, n + 1, SplitArgv(flat[n + 1]))
      BY <3>11, <3>12
    <3> QED
      BY <3>13
  <2> QED
    BY <2>1
<1>13. PICK s : s = SplitArgv(Written(items))
  OBVIOUS
<1>14. ReadUpTo(items, kept, last, s)
  <2> HIDE DEF T
  <2>1. last \in T
    BY <1>11, <1>12, Upward
  <2>2. Written(items) = flat[last]
    BY <1>3, <1>9 DEF WritesAs
  <2> QED
    BY <1>13, <2>1, <2>2 DEF T
<1>15. s.rest = Means(items).rest
  BY <1>7, <1>8, <1>10, <1>14 DEF ReadUpTo, WritesAs
<1>16. Means(items).help => s.help
  <2>1. Means(items).help <=> Has(items, last, {"--help", "-h"})
    BY <1>5 DEF Means, Has
  <2> QED
    BY <1>14, <2>1 DEF ReadUpTo
<1>17. Means(items).version => s.version
  <2>1. Means(items).version <=> Has(items, last, {"--version", "-V"})
    BY <1>5 DEF Means, Has
  <2> QED
    BY <1>14, <2>1 DEF ReadUpTo
<1>18. s.url = Means(items).url
  <2>1. UrlOf(items, last, s.url)
    BY <1>14 DEF ReadUpTo
  <2>2. \A i : i \in urls <=> i \in 1..last /\ IsUrl(items[i])
    BY <1>5 DEF IsUrl
  <2>3. CASE urls = {}
    <3>1. Means(items).url = <<>>
      BY <2>3 DEF Means
    <3>2. \A i \in 1..last : ~IsUrl(items[i])
      BY <2>2, <2>3
    <3> QED
      BY <2>1, <3>1, <3>2 DEF UrlOf
  <2>4. CASE urls # {}
    <3>1. PICK some : some = urls
      OBVIOUS
    <3>2. some \subseteq 1..last /\ some # {}
      BY <2>2, <2>4, <3>1
    <3>3. \E m \in some : \A i \in some : m >= i
      BY <3>2, LastOf
    <3>4. PICK m : m = Max(some)
      OBVIOUS
    <3>5. m \in some /\ \A i \in some : m >= i
      BY <3>3, <3>4 DEF Max
    <3>6. Means(items).url = Tail(items[m])
      BY <2>4, <3>1, <3>4 DEF Means
    <3>7. m \in 1..last /\ IsUrl(items[m])
      BY <2>2, <3>1, <3>5
    <3>8. \A i \in 1..last : IsUrl(items[i]) => i <= m
      BY <2>2, <3>1, <3>5, <3>7
    <3>9. s.url = <<items[m][2]>>
      BY <2>1, <3>7, <3>8 DEF UrlOf
    <3>10. PICK item \in Seq(Texts) : item = items[m]
      BY <1>4, <3>7
    <3>11. Len(item) = 2
      BY <1>4, <3>7, <3>10 DEF TakesValue, IsUrl
    <3>12. Tail(item) = <<item[2]>>
      <4>1. item # <<>>
        BY <3>11
      <4>2. /\ Tail(item) \in Seq(Texts) /\ Len(Tail(item)) = Len(item) - 1
            /\ \A i \in 1..Len(Tail(item)) : Tail(item)[i] = item[i + 1]
        BY <4>1, HeadTailProperties
      <4>3. PICK tail \in Seq(Texts) : tail = Tail(item)
        BY <4>2
      <4>4. Len(tail) = 1 /\ tail[1] = item[2]
        <5>1. Len(tail) = 1 /\ \A i \in 1..1 : tail[i] = item[i + 1]
          <6>1. Len(tail) = Len(item) - 1
            BY <4>2, <4>3, Zenon
          <6>2. Len(tail) = 1
            BY <3>11, <6>1
          <6>3. \A i \in 1..Len(tail) : tail[i] = item[i + 1]
            BY <4>2, <4>3, Zenon
          <6> QED
            BY <6>2, <6>3
        <5>2. 1 \in 1..1 /\ 1 + 1 = 2
          OBVIOUS
        <5>3. tail[1] = item[1 + 1]
          BY <5>1, <5>2
        <5> QED
          BY <5>1, <5>2, <5>3
      <4>5. tail = <<item[2]>>
        BY <4>4
      <4> QED
        BY <4>3, <4>5
    <3> QED
      BY <3>6, <3>9, <3>10, <3>12
  <2> QED
    BY <2>3, <2>4
<1> QED
  BY <1>13, <1>15, <1>16, <1>17, <1>18 DEF Understands

-----------------------------------------------------------------------------
(* The store a command acts on. *)

(* What a command was given before the seat's own store is thought of. *)
Given == IF cmd.named = <<>> THEN cmd.env ELSE cmd.named[1]

(* The words have been split as they were meant. *)
SplitAsMeant ==
    /\ cmd.tool => cmd.named = <<>>
    /\ ~cmd.tool => /\ cmd.named = Means(cmd.items).url
                    /\ cmd.rest = Means(cmd.items).rest
                    /\ ~Means(cmd.items).help /\ ~Means(cmd.items).version

ToldInv ==
    /\ cmd.at = "split" =>
           /\ ~cmd.tool /\ cmd.rest = Written(cmd.items)
           /\ WellMeant(cmd.items) \/ UrlLacks(SplitArgv(cmd.rest))
    /\ cmd.at \in {"take", "takeMissing", "open"} => SplitAsMeant
    /\ cmd.at = "takeMissing" => Given = ""
    /\ cmd.at = "open" => cmd.url = IF Given = "" THEN "seat" ELSE Given

LEMMA BeginTold ==
    ASSUME SeatAssumption, NEW command, NEW tool \in BOOLEAN, Begin(command, tool),
           ~tool => command \in Commands
    PROVE  ToldInv'
<1>1. PICK c : c = [at |-> IF tool THEN "take" ELSE "split", tool |-> tool,
                    items |-> command.items, env |-> command.env,
                    rest |-> Written(command.items), named |-> <<>>, url |-> "", first |-> ~tool]
  OBVIOUS
<1>2. cmd' = c
  BY <1>1 DEF Begin
<1>3. /\ c.tool = tool /\ c.items = command.items /\ c.rest = Written(command.items)
      /\ c.named = <<>> /\ (tool => c.at = "take") /\ (~tool => c.at = "split")
  BY <1>1
<1>4. CASE tool
  BY <1>2, <1>3, <1>4 DEF ToldInv, SplitAsMeant
<1>5. CASE ~tool
  <2>1. WellMeant(command.items) \/ UrlLacks(SplitArgv(Written(command.items)))
    BY <1>5 DEF SeatAssumption
  <2> QED
    BY <1>2, <1>3, <1>5, <2>1 DEF ToldInv
<1> QED
  BY <1>4, <1>5

LEMMA SplitTold ==
    ASSUME CmdOK, ToldInv, Split PROVE ToldInv'
<1>1. DOMAIN cmd = Calling /\ cmd.at = "split"
  BY DEF Split, CmdOK, Asking
<1>2. PICK s : s = SplitArgv(cmd.rest)
  OBVIOUS
<1>3. CASE s.help \/ s.version \/ UrlLacks(s)
  <2>1. cmd' = Idle
    BY <1>2, <1>3 DEF Split, End
  <2>2. cmd'.at = "idle"
    BY <2>1 DEF Idle
  <2> QED
    BY <2>2 DEF ToldInv
<1>4. CASE ~(s.help \/ s.version \/ UrlLacks(s))
  <2>1. cmd' = [cmd EXCEPT !.at = "take", !.rest = s.rest, !.named = s.url]
    BY <1>2, <1>4 DEF Split
  <2>2. PICK c : c = [cmd EXCEPT !.at = "take", !.rest = s.rest, !.named = s.url]
    OBVIOUS
  <2>3. /\ c.at = "take" /\ c.rest = s.rest /\ c.named = s.url
        /\ c.tool = cmd.tool /\ c.items = cmd.items
    BY <1>1, <2>2 DEF Calling
  <2>4. ~cmd.tool /\ s = SplitArgv(Written(cmd.items)) /\ WellMeant(cmd.items)
    BY <1>1, <1>2, <1>4 DEF ToldInv
  <2>5. Understands(s, Means(cmd.items))
    BY <2>4, SplitUnderstands
  <2>6. /\ s.rest = Means(cmd.items).rest /\ s.url = Means(cmd.items).url
        /\ ~Means(cmd.items).help /\ ~Means(cmd.items).version
    BY <1>4, <2>5 DEF Understands
  <2> QED
    BY <2>1, <2>2, <2>3, <2>4, <2>6 DEF ToldInv, SplitAsMeant
<1> QED
  BY <1>3, <1>4

(* A command that has what it was given. *)
LEMMA TakenTold ==
    ASSUME DOMAIN cmd = Calling, SplitAsMeant, NEW url, Taken(url),
           url = IF Given = "" THEN "seat" ELSE Given
    PROVE  ToldInv'
<1>1. PICK at \in {"take", "open"} :
          cmd' = [cmd EXCEPT !.url = url, !.first = FALSE, !.at = at]
  BY DEF Taken
<1>2. PICK c : c = [cmd EXCEPT !.url = url, !.first = FALSE, !.at = at]
  OBVIOUS
<1>3. /\ c.at = at /\ c.rest = cmd.rest /\ c.named = cmd.named /\ c.env = cmd.env
      /\ c.tool = cmd.tool /\ c.items = cmd.items /\ c.url = url
  BY <1>2 DEF Calling
<1>4. cmd' = c
  BY <1>1, <1>2
<1>5. SplitAsMeant'
  BY <1>3, <1>4 DEF SplitAsMeant
<1>6. Given' = Given
  BY <1>3, <1>4 DEF Given
<1> QED
  BY <1>3, <1>4, <1>5, <1>6 DEF ToldInv

LEMMA TakeTold ==
    ASSUME CmdOK, ToldInv, TakeUrl \/ TakeMissing PROVE ToldInv'
<1>1. DOMAIN cmd = Calling /\ SplitAsMeant
  BY DEF TakeUrl, TakeMissing, CmdOK, Asking, ToldInv
<1>2. CASE TakeUrl /\ Given # ""
  <2>1. Taken(Given)
    BY <1>2 DEF TakeUrl, Given
  <2> QED
    BY <1>1, <1>2, <2>1, TakenTold
<1>3. CASE TakeUrl /\ Given = "" /\ paths["seat"] = "dir"
  <2>1. Taken("seat")
    BY <1>3 DEF TakeUrl, Given
  <2> QED
    BY <1>1, <1>3, <2>1, TakenTold
<1>4. CASE TakeUrl /\ Given = "" /\ paths["seat"] # "dir"
  <2>1. cmd' = [cmd EXCEPT !.at = "takeMissing"]
    BY <1>4 DEF TakeUrl, Given, Goto
  <2>2. PICK c : c = [cmd EXCEPT !.at = "takeMissing"]
    OBVIOUS
  <2>3. /\ c.at = "takeMissing" /\ c.rest = cmd.rest /\ c.named = cmd.named /\ c.env = cmd.env
        /\ c.tool = cmd.tool /\ c.items = cmd.items
    BY <1>1, <2>2 DEF Calling
  <2>4. SplitAsMeant'
    BY <1>1, <2>1, <2>2, <2>3 DEF SplitAsMeant
  <2>5. Given' = Given
    BY <2>1, <2>2, <2>3 DEF Given
  <2> QED
    BY <1>4, <2>1, <2>2, <2>3, <2>4, <2>5 DEF ToldInv
<1>5. CASE TakeMissing /\ cmd' = Idle
  <2>1. cmd'.at = "idle"
    BY <1>5 DEF Idle
  <2> QED
    BY <2>1 DEF ToldInv
<1>6. CASE TakeMissing /\ cmd' # Idle
  <2>1. Taken("seat") /\ Given = ""
    BY <1>6 DEF TakeMissing, ToldInv, End
  <2> QED
    BY <1>1, <2>1, TakenTold
<1> QED
  BY <1>2, <1>3, <1>4, <1>5, <1>6

LEMMA NextTold ==
    ASSUME SeatAssumption, CmdOK, ToldInv, [Next]_vars PROVE ToldInv'
<1>1. CASE cmd' = cmd
  BY <1>1 DEF ToldInv, SplitAsMeant, Given
<1>2. CASE cmd'.at \notin Asking
  <2>1. cmd'.at \notin {"split", "take", "takeMissing", "open"}
    BY <1>2 DEF Asking
  <2> QED
    BY <2>1 DEF ToldInv
<1>3. CASE \E command \in Commands : Begin(command, FALSE)
  BY <1>3, BeginTold
<1>4. CASE \E call \in Calls : Begin(call, TRUE)
  BY <1>4, BeginTold
<1> QED
  BY <1>1, <1>2, <1>3, <1>4, AsksOn, SplitTold, TakeTold

(* A command opens the store its words and DEEDAR_URL mean, whatever the values
   of its options look like, and no store at all for help or version; and the
   seat's own store comes to be only by a first write (main.rs, split_argv,
   take_url). *)
THEOREM CommandsActWhereTold == Spec => ActsWhereTold
<1> USE SeatAssumption
<1>1. Init => ToldInv /\ SeatInv
  <2>1. ASSUME Init PROVE cmd.at = "idle"
    BY <2>1 DEF Init, Idle
  <2>2. ASSUME Init PROVE SeatInv
    BY <2>1, <2>2, InitLook DEF SeatInv, LookInv
  <2> QED
    BY <2>1, <2>2 DEF ToldInv
<1>2. LookInv /\ LookInv' /\ SeatInv /\ ToldInv /\ [Next]_vars => SeatInv' /\ ToldInv'
  <2>1. ASSUME LookInv, LookInv', SeatInv, ToldInv, [Next]_vars PROVE SeatInv' /\ ToldInv'
    <3>1. SeatInv'
      BY <2>1, OpensTheSeat DEF SeatInv, LookInv
    <3>2. ToldInv'
      BY <2>1, NextTold DEF LookInv
    <3> QED
      BY <3>1, <3>2
  <2> QED
    BY <2>1
<1> DEFINE
      Opens == cmd.at = "open" /\ cmd'.at = "opened" =>
                   /\ cmd.url = Meant
                   /\ ~cmd.tool => /\ cmd.rest = Means(cmd.items).rest
                                   /\ ~Means(cmd.items).help /\ ~Means(cmd.items).version
      Makes == paths' # paths /\ cmd' # cmd =>
                   \/ cmd.env # "" \/ (~cmd.tool /\ Means(cmd.items).url # <<>>)
                   \/ Verb(cmd.rest) \in {"create", "import", "export"}
<1>3. ASSUME ToldInv, cmd.at = "open"
      PROVE  /\ cmd.url = Meant
             /\ ~cmd.tool => /\ cmd.rest = Means(cmd.items).rest
                             /\ ~Means(cmd.items).help /\ ~Means(cmd.items).version
  <2>1. SplitAsMeant /\ cmd.url = IF Given = "" THEN "seat" ELSE Given
    BY <1>3 DEF ToldInv
  <2> QED
    BY <2>1 DEF SplitAsMeant, Given, Meant
<1>4. ASSUME SeatInv, ToldInv, Next, paths' # paths, cmd' # cmd, cmd.env = "",
             cmd.tool \/ Means(cmd.items).url = <<>>
      PROVE  Verb(cmd.rest) \in {"create", "import", "export"}
  <2>1. Open
    BY <1>4 DEF Next, MakesStore, OtherFreezes, Freeze, OtherDeletes, Backfill, AppendLog,
       Begin, Split, TakeUrl, TakeMissing, Create, Other, LookUp, Resolve, TryHit,
       EndHits, Visit, EndList, Check, Act, EndExplain, Told
  <2>2. cmd.named = <<>>
    BY <1>4, <2>1 DEF Open, ToldInv, SplitAsMeant
  <2>3. /\ cmd.url = "seat" /\ paths' = [paths EXCEPT !["seat"] = "dir"]
        /\ paths["seat"] = "dir" \/ Verb(cmd.rest) \in MakesWords
    BY <1>4, <2>1, <2>2 DEF SeatInv, Open, End
  <2>4. paths["seat"] # "dir"
    BY <1>4, <2>3 DEF SeatInv, StoresOK
  <2> QED
    BY <2>3, <2>4 DEF MakesWords
<1>5. SeatInv /\ ToldInv /\ [Next]_vars => [Opens /\ Makes]_vars
  BY <1>3, <1>4 DEF vars
<1>6. Spec => []LookInv
  BY SeatInvariant
<1> QED
  BY <1>1, <1>2, <1>5, <1>6, PTL DEF Spec, ActsWhereTold
==============================================================================
