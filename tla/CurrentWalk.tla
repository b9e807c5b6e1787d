----------------------------- MODULE CurrentWalk -----------------------------
(***************************************************************************)
(* `current`: a walk over supersede links, while the store is written to.  *)
(*                                                                         *)
(* A link is kept in two files, `{prior}.successor` and                    *)
(* `{next}.supersedes`.  The walk first reads every `.supersedes` file,    *)
(* one after the other, and later reads the `.successor` file of each deed *)
(* it enters, so it sees the store at many moments.  The links it meets    *)
(* can have any shape: a create cut short, an import or two creates at     *)
(* once leave forks, circles and links recorded on one side.               *)
(***************************************************************************)
EXTENDS Naturals, Sequences, FiniteSets

CONSTANTS
    Ids,        \* accessions, numbered in accession order
    MaxWrites   \* bound on the commands that write while the walk is under way

NoId == 0

ASSUME WalkAssumption ==
    /\ Ids \subseteq Nat \ {NoId}
    /\ IsFiniteSet(Ids)
    /\ MaxWrites \in Nat

VARIABLES
    held,        \* accessions with a deed file
    buried,      \* accessions with a tombstone
    successor,   \* what `{i}.successor` names, or NoId
    supersedes,  \* what `{i}.supersedes` names, or NoId
    writer,      \* the create --supersedes under way, and the writes left to make
    walk,        \* the walk
    before       \* the live links when the walk began, and whether nothing changed

files == <<held, buried, successor, supersedes>>
vars == <<held, buried, successor, supersedes, writer, walk, before>>

Live == held \ buried

(* The links a walk follows, were it made in one moment. *)
Link(i, j) == j \in Live /\ (successor[i] = j \/ supersedes[j] = i)
Links == {l \in Ids \X Ids : Link(l[1], l[2])}

-----------------------------------------------------------------------------
(* create --supersedes and delete, as far as links go. *)

Touch == before' = [before EXCEPT !.still = FALSE]

(* create: the new deed is frozen... *)
Supersede(new, prior) ==
    /\ writer.at = "idle" /\ writer.left > 0
    /\ new \notin held \cup buried
    /\ prior \in held /\ successor[prior] = NoId
    /\ held' = held \cup {new}
    /\ writer' = [at |-> "supersedes", new |-> new, prior |-> prior,
                  left |-> writer.left - 1]
    /\ Touch
    /\ UNCHANGED <<buried, successor, supersedes, walk>>

(* ...then record_supersedes writes the new deed's side... *)
WriteSupersedes ==
    /\ writer.at = "supersedes"
    /\ supersedes' = [supersedes EXCEPT ![writer.new] = writer.prior]
    /\ writer' = [writer EXCEPT !.at = "successor"]
    /\ Touch
    /\ UNCHANGED <<held, buried, successor, walk>>

(* ...and the prior one's. *)
WriteSuccessor ==
    /\ writer.at = "successor"
    /\ successor' = [successor EXCEPT ![writer.prior] = writer.new]
    /\ writer' = [writer EXCEPT !.at = "idle"]
    /\ Touch
    /\ UNCHANGED <<held, buried, supersedes, walk>>

Delete(i) ==
    /\ writer.at = "idle" /\ writer.left > 0
    /\ i \in Live
    /\ buried' = buried \cup {i}
    /\ writer' = [writer EXCEPT !.left = @ - 1]
    /\ Touch
    /\ UNCHANGED <<held, successor, supersedes, walk>>

-----------------------------------------------------------------------------
(* current_walk *)

(* Mistaken: superseded_by takes links from deeds that are gone. *)
NamedByAny(i) == supersedes[i] # NoId

(* superseded_by: the deed that names its prior is still here. *)
Named(i) == i \in Live /\ supersedes[i] # NoId

(* next_tip: the successor, when it is here. *)
next_tip(i) == {successor[i]} \cap Live

(* Mistaken: only the successor file is asked, which holds one accession. *)
SuccessorsByFile(i) == next_tip(i)

Successors(i) == next_tip(i) \cup walk.by[i]

(* A deed entered, and which of its links are left to follow. *)
Frame(i) == [id |-> i, succs |-> Successors(i), left |-> Successors(i)]

OnPath == {walk.stack[k].id : k \in 1..Len(walk.stack)}

(* What is known of who names whom, once the file of i is read. *)
Told(i) ==
    IF Named(i) THEN [walk.by EXCEPT ![supersedes[i]] = @ \cup {i}] ELSE walk.by

(* superseded_by reads the directory, file by file, in whatever order. *)
Scan(i) ==
    /\ walk.at = "scan" /\ i \in walk.unread
    /\ walk' = [walk EXCEPT !.unread = @ \ {i}, !.by = Told(i)]
    /\ UNCHANGED <<files, writer, before>>

(* The start is entered whether it is here or not. *)
Enter ==
    /\ walk.at = "scan" /\ walk.unread = {}
    /\ walk' = [walk EXCEPT !.at = "walk", !.stack = <<Frame(walk.start)>>]
    /\ UNCHANGED <<files, writer, before>>

Top == walk.stack[Len(walk.stack)]

(* Every link out of the deed has been followed. *)
Leave ==
    /\ walk.at = "walk" /\ walk.stack # <<>> /\ Top.left = {}
    /\ walk' = [walk EXCEPT
          !.stack = SubSeq(@, 1, Len(@) - 1),
          !.done = @ \cup {Top.id},
          !.tips = IF Top.succs = {} THEN @ \cup {Top.id} ELSE @]
    /\ UNCHANGED <<files, writer, before>>

(* The next link out of the deed, in accession order. *)
Following(next) ==
    /\ walk.at = "walk" /\ walk.stack # <<>>
    /\ next \in Top.left /\ \A j \in Top.left : next <= j

Followed(next) == [walk.stack EXCEPT ![Len(walk.stack)].left = @ \ {next}]

(* Mistaken: a deed met before is not told from one on the path. *)
FollowSeen ==
    /\ \E next \in Ids :
        /\ Following(next)
        /\ walk' = IF next \in OnPath \cup walk.done
                   THEN [walk EXCEPT !.stack = Followed(next), !.cycle = @ \cup OnPath]
                   ELSE [walk EXCEPT !.stack = Append(Followed(next), Frame(next))]
    /\ UNCHANGED <<files, writer, before>>

(* Mistaken: the place in the list is not moved on where a circle closes. *)
FollowUnmoved ==
    /\ \E next \in Ids :
        /\ Following(next)
        /\ walk' = CASE next \in OnPath -> [walk EXCEPT !.cycle = @ \cup {next}]
                     [] next \in walk.done -> [walk EXCEPT !.stack = Followed(next)]
                     [] OTHER -> [walk EXCEPT !.stack = Append(Followed(next), Frame(next))]
    /\ UNCHANGED <<files, writer, before>>

(* The path from a deed on it to its end. *)
PathFrom(i) ==
    {walk.stack[k].id : k \in {l \in 1..Len(walk.stack) :
                                  \E m \in 1..l : walk.stack[m].id = i}}

(* A link to a deed on the path closes a circle, one to a deed that is done is
   passed over, and any other is entered. *)
Follow ==
    /\ \E next \in Ids :
        /\ Following(next)
        /\ walk' = CASE next \in OnPath ->
                            [walk EXCEPT !.stack = Followed(next),
                                         !.cycle = @ \cup PathFrom(next)]
                     [] next \in walk.done -> [walk EXCEPT !.stack = Followed(next)]
                     [] OTHER -> [walk EXCEPT !.stack = Append(Followed(next), Frame(next))]
    /\ UNCHANGED <<files, writer, before>>

(* A cycle is the answer when there is one; else the tips. *)
Verdict ==
    IF walk.cycle # {} THEN [kind |-> "cycle", ids |-> walk.cycle]
    ELSE IF walk.tips = {} THEN [kind |-> "tip", ids |-> {walk.start}]
    ELSE IF Cardinality(walk.tips) = 1 THEN [kind |-> "tip", ids |-> walk.tips]
    ELSE [kind |-> "fork", ids |-> walk.tips]

Conclude ==
    /\ walk.at = "walk" /\ walk.stack = <<>>
    /\ walk' = [walk EXCEPT !.at = "ended", !.verdict = Verdict]
    /\ UNCHANGED <<files, writer, before>>

-----------------------------------------------------------------------------
NoVerdict == [kind |-> "none", ids |-> {}]

(* Any links between different deeds, on files that are beside a deed file. *)
LinkFiles == {f \in [Ids -> Ids \cup {NoId}] :
                 \A i \in Ids : f[i] # i /\ (i \notin held => f[i] = NoId)}

Init ==
    /\ held \in SUBSET Ids
    /\ buried \in SUBSET held
    /\ successor \in LinkFiles
    /\ supersedes \in LinkFiles
    /\ writer = [at |-> "idle", new |-> NoId, prior |-> NoId, left |-> MaxWrites]
    /\ \E i \in Ids :
          walk = [at |-> "scan", start |-> i, unread |-> Ids, by |-> [j \in Ids |-> {}],
                  stack |-> <<>>, done |-> {}, tips |-> {}, cycle |-> {},
                  verdict |-> NoVerdict]
    /\ before = [links |-> Links, still |-> TRUE]

Walk == (\E i \in Ids : Scan(i)) \/ Enter \/ Leave \/ Follow \/ Conclude

Write ==
    /\ walk.at # "ended"
    /\ \/ \E i, j \in Ids : Supersede(i, j)
       \/ WriteSupersedes
       \/ WriteSuccessor
       \/ \E i \in Ids : Delete(i)

Next == Walk \/ Write

(* The walk runs in the foreground; nothing obliges anyone to write. *)
Spec == Init /\ [][Next]_vars /\ WF_vars(Walk)

-----------------------------------------------------------------------------
(* What can be reached from i along links, in any number of steps. *)
ReachableFrom(i, links) ==
    {j \in Ids : \A S \in SUBSET Ids :
        i \in S /\ (\A l \in links : l[1] \in S => l[2] \in S) => j \in S}

OnCircle(i, links) ==
    \E l \in links : l[1] = i /\ i \in ReachableFrom(l[2], links)

Ended == walk.at = "ended"

(* On a store nobody writes to, `current` answers for what can be reached from
   the start: a cycle exactly when there is one, naming only deeds that sit on
   it; else every deed without a live link out, one being the tip and several
   a fork.  The order in which links are followed makes no difference. *)
VerdictRight ==
    Ended /\ before.still =>
        LET reached == ReachableFrom(walk.start, before.links)
            circle == {i \in reached : OnCircle(i, before.links)}
            ends == {i \in reached : \A l \in before.links : l[1] # i}
            ids == walk.verdict.ids
        IN  CASE circle # {} -> /\ walk.verdict.kind = "cycle"
                                /\ ids # {} /\ ids \subseteq circle
              [] OTHER -> /\ ids = ends
                          /\ walk.verdict.kind =
                                IF Cardinality(ends) = 1 THEN "tip" ELSE "fork"

(* Links only appear while deeds only go, and the walk reads them at different
   moments; still the deeds it calls a cycle sit on one that the sidecars
   spell out. *)
CycleIsReal ==
    Ended /\ walk.verdict.kind = "cycle" =>
        LET written == {l \in Ids \X Ids : successor[l[1]] = l[2] \/ supersedes[l[2]] = l[1]}
        IN  \A i \in walk.verdict.ids : OnCircle(i, written)

(* `current` never answers with a deed that had been superseded when it was
   asked, unless what superseded it has been deleted since. *)
NoMissedRevision ==
    Ended /\ walk.verdict.kind # "cycle" =>
        \A l \in before.links : l[1] \in walk.verdict.ids => l[2] \notin Live

(* current.rs, walk: "A cycle steps back to one already on the path and does
   not push it again, so the walk cannot spin." *)
WalkEnds == <>Ended

=============================================================================
