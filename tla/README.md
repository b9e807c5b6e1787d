# A TLA+ model of deedar

deedar keeps *deeds*: records of a product (its bytes, what it was made from,
who made it) that are frozen once and then handed over with a proof. There is no
server. Every command of `deedar`, and every call of the MCP server, opens the
store directory, does a series of file operations on it and ends. What can go
wrong is therefore between the file operations of one command (it is stopped
there) and between those of two commands (they run at once), and in the checks a
receiver makes of what a sender hands over.

## The system

| Part | State | Operations | Interacts with |
|---|---|---|---|
| store commands (`fs.rs`, `current.rs`, `timestamp.rs`, `leave.rs`) | `deeds/{id}.{cap,evidence,host,supersedes,successor,tomb,tsq,tsr}`, `deeds/{id}.tmp`, `bytes/{hash}`, `log` | create (with `--supersedes`), delete, get, evidence, timestamp, log audit, log backfill | other commands, through the files; a timestamp authority |
| supersede walk (`current.rs`) | none of its own | current, current_walk | reads the link files while others write them |
| log and proofs (`log.rs`, `receipt.rs`) | the log's lines; a receiver's kept head | head, receipt, bridge; check a receipt, check since a kept head | sender and receiver exchange heads, receipts, bridges |
| opening a store (`fs.rs` open, `migrate.rs`, `attest.rs`) | `layout`, `writer.key`; per process the key and the policy it read | open, accept the host's key, read the policy | every command begins with it; people edit `layout` |
| host attestation (`host.rs`, `attest.rs`) | `{id}.host` | sign, check | written by create, read by evidence |
| handover (`fs.rs` export, `receipt.rs`, `import.rs`) | a bag of deed folders; the exporter's kept tree | export, check, import | two stores, through the bag |
| vouch (`vouch.rs`) | a signature beside a manifest | sign, check | handover |
| lookup (`digest.rs`, `lookup.rs`) | none | accession, digest, product address or prefix to one deed | reads log and shelf while others write them |
| wire (`wire.rs`), records (`crates/deed`) | none | encode, decode, validate, make a deed from a draft | every file of the shelf is a frame, every call of a client two |
| client (`lib.rs`) | none that outlives a call | nine calls through frames | `FsStore::handle` |
| command line, MCP server (`main.rs`, `server.rs`) | none that outlives a command | split the words, choose the store, resolve a word, run the verb | client, lookup; the environment |

The hard behaviours, at their lines, are the hazards of `PROJECT.json`. In short:
checks made before a write and not held until it; one temporary name for all
sidecars of an accession; five writes that make one create; a log that is
appended to last; lists taken once and worked off later; a wait for the network
between a read and a write; two opens that race to make one key; loops over
paths that the other side made up.

What makes each part correct:

- store: a deed, once served, never changes; the log names only deeds that were
  written and only grows; a stopped command leaves a store that the next one and
  the audit cope with; what was answered is there;
- walk: the answer is what the links say, and no revision that was there is
  missed, though the links are read at different moments;
- proofs: exactly the entries that are in the log have receipts that pass, and
  exactly the logs that grew from the kept one have bridges that pass;
- open: one writer key per store, for good; the layout is the owner's;
- wire and client: a deed reads back field for field as it was frozen, a call
  arrives and is heard as it was made, and no frame cut short passes for one;
- lookup: the deed that is answered is one the word names, and the only one it
  names is found, whatever the log lacks or how its lines are torn;
- command line and server: a command acts on the store it was told, and a read
  does not make one;
- handover: what lands is what the sender logged and what was checked; what the
  receiver held stays; a stopped import is completed by the same bag, and an
  ended one has its deeds answering, logged once, their links in place.

## Modules

| Module | Models | Proofs | Runs |
|---|---|---|---|
| `DeedRegistry` | what a store promises, with no files in it (abstract) | | as a property of `store_apart` |
| `DeedStore` | commands on one store, file operation by file operation | `DeedStoreProofs`, `DeedStoreApartProofs` | `store_*` |
| `CurrentWalk` | `current` over links that change | `CurrentWalkProofs` | `walk` |
| `MerkleLog` | sender's log, receiver's checks | `MerkleLogProofs` | `merkle` |
| `OpenStore` | opening one directory, layout and key | `OpenStoreProofs` | `open*` |
| `Satchel` | a sender's store and the bag its exports fill | `SatchelProofs` (lemmas) | through `Handover` |
| `Handover` | check and import of that bag into a receiver's store; extends `Satchel` | `HandoverProofs` | `handover` |
| `DeedRecord` | bodies, their checks, a deed from a draft | | through `WireFormat` |
| `WireFormat` | frames written and read; extends `DeedRecord` | | through `Client` |
| `Client` | a client, the store's handler, the frames between them and on disk; extends `WireFormat` | | `client` |
| `LogText` | the log as text, torn and glued lines included | | through `Seat` |
| `CommandLine` | the words of a command | | through `Seat` |
| `Seat` | a command or tool call on stores others use; extends `LogText`, `CommandLine` | `SeatProofs` | `seat` |

`MC*` modules give the constants small values for TLC.

### DeedStore

`shelf[i][x]` is the content of `deeds/{i}.{x}`, `tmp[i]` of `deeds/{i}.tmp`,
`bytes` the bodies on the shelf, `log` its lines, `cmd[p]` the command process
`p` is at. A command's place is named after the file it writes next. `Stage` and
`Publish` are the two halves of `atomic_write`, for every file alike: the
temporary is written, then renamed. Its name is one for all sidecars of an
accession, since `with_extension("tmp")` drops the sidecar's own extension, so
`Publish` renames whatever is there by then, and `PublishFails` finds nothing.

`create` is `CreateBegin` (the checks on the request), `Ingest`, then one of
`AnswerAgain`, `RefuseFrozen` and `Admit` (the second look at the shelf), then the
writes in the order of `NextPlace`, with `RecordSupersedes` looking at the prior
deed again before the links, and `LogDeed` last. `Backfill`, `BackfillRead` and
`BackfillLog` are `log_backfill`: one audit, then deed by deed. `Timestamp` reads
the evidence; the wait for the authority is the time until `Stage`. `Stop` ends a
command anywhere: a crash, an I/O error, a draft that does not validate.

A command does its existence checks between two writes in one step. Files are
never removed, so a check that found something stays true; a check that found
nothing is the hazard, and the write that relies on it is a step of its own.
`append_log` is one step because it holds `flock` for its one write.

A deed is its accession, one body and its sources. Hashes, keyed hashes and
signatures are the value they cover. `HostPasses` is `check_host_sidecar` with
the host's keys and the policy as constants, `EvidencePasses` the check of a
whole trail.

### CurrentWalk

`Scan` is `superseded_by`, one file per step in any order; `Enter`, `Follow`,
`Leave` and `Conclude` are the depth-first walk with the code's stack, colours
(`done`, and being on the stack) and verdict; the iterator of a stack entry is the
set `left` of successors it has not given yet. The `.successor` file of a deed is
read when the deed is entered. `Supersede`, `WriteSupersedes`, `WriteSuccessor` and
`Delete` are the commands that change links meanwhile. It starts from every set
of links between different deeds: forks, cycles and one-sided links come from
creates that raced or stopped and from imports.

### MerkleLog

A hash is the term it was computed from, with leaves and nodes told apart as the
domain bytes do. `InclusionStep` and `ConsistencyStep` are one turn of the loops of
`verify_inclusion` and `verify_consistency`, with the code's `at` and `last`.
`split_point`, `root` and the two proofs, recursive in the code, are recursive
functions, of slices of the leaves; a slice is the places it starts and ends at, so
`old` and `index` stay counted from the log's beginning.
The receiver's check is run turn by turn (`ReceiptStep`, `BridgeStep`) with the
sender choosing each hash it hands over in the set `Offered`, a constant. The
theorems hold for every such set. TLC takes `Useful`: a check only wraps what
it holds, so a hash not inside the new root it must reach is refused whatever
follows, and those are left out, which keeps the choices finite. A head is
taken to be the head of the sender's log of that moment: size and root belong
together. The receiver keeps a head the first time, and after that only where
`--since` passed, as `check` advises.

### OpenStore

`layout` is absent, blank (cut by `fs::write`, not filled yet) or has a text, of
which the signers and the demand are kept. `fd` says whether the file a process
has open is still the one under the name, because `add_signer` and editors
rename a new one over it. The version line alone, written over a text, leaves it
as it was, since every text begins with that line. `writer.key` is linked into
place, so it is absent or whole.

### Satchel and Handover

`Satchel` has the sender: which deeds are frozen (`made`), deleted and logged
(`slog`), with the deeds themselves constants, since `DeedStore` is about how
they get there. `bag[i]` is the folder of `i`, `head` the signed head beside the
folders. An export is a list of accessions worked off with one reading of the
log; each deed is `ExportRecords` (deed, evidence, host, bytes, supersedes: the
same in every export of it), `ExportSuccessor`, `ExportSources`, `ExportProof`,
`ExportHead`. `ExportMissing` and the branches to `ExportRefused` are the ways one
deed of a list fails while the others go on; what it wrote stays. A log is
its length, as there is one sender and its log grows: `MerkleLog` has why
a receipt against a head of that size proves its entry. A signature is what it
covers: the log's size and, per folder, the three link files. `NewBag` and `Lose`
are external: a person and the transport.

`Handover` adds the receiver: `shelf[i][x]` for `deeds/{i}.{x}`, `bytes`, `log`, and
`imp`, the import. `ImportBegin`, `CheckFolder`, `CheckLinks` are `check_handover`;
`ReadFolder` and `ReadHead` are `read_bag`, which reads everything again;
`Compare` is `same_as_checked` with `admit_head`; `PlanImport` is `plan_import`, with
`DeedFits`, `LinksFit` and `TrailsFit` for its refusals and `DeedPuts`, `LinkPuts` and
`ToLog` for what it plans; `WriteFile` and `LogLine` carry the plan out, in the
code's order, one file a step. `ImportStop` may come anywhere. An ended import
leaves what it carried in `imp`, for the properties to speak about.

A folder is read in one step. The code reads `proof.txt` first and export writes
it last, so what a torn reading of one folder sees, an export under way shows
too. From its plan on an import does not look at the bag, and before it not at the
store; so the sender's steps wait while an import plans and writes, and the
receiver's other commands while it checks and reads: each order left out ends
in a state that one of the kept orders reaches.

Two assumptions are constants. `Apart`: between the plan of an import and the end
of its writes no other command freezes an accession it carries, nor a revision of
a deed whose `successor` it is about to write.
`Patient`: `log backfill` is not run over a deed whose evidence is not there yet.
The code enforces neither. Without `Apart`, TLC finds `HeldIsKept`,
`LandedAsSent` and `LinesComeLast` violated: `atomic_write` replaces the deed that
was frozen meanwhile. Without `Patient`, `Resumable`, `LandedAsSent` and
`LinesComeLast` fail: backfill gives a half-imported deed a log line at the
present time, and the bag that carried it is refused from then on.

`KeptPairAgrees` says the kept head is the one the kept receipt is against. It does
not say both are there: the comment on the pair (import.rs:379-380, "the pair
lands together or not at all") holds of the plan, not of the writes, which may
stop between the two; a bag of the grown log then leaves the receipt alone.

### DeedRecord, WireFormat and Client

A text is a sequence of characters, a frame one of cells; a length, a number, a
tag and a character are a cell each. What the code never looks into ("deed-", a
kind's name, "sha256:", a scheme) is one character. `Put*` follow the `put_*`
functions value by value. The `take_*` functions are given as layouts, tables of
fields that `Take` interprets, so that the two sides are stated apart, as in
the code, and can disagree. A path that is no UTF-8 is written in its lossy form;
an optional text that is empty is read as absent: `Carried` is what the wire can
carry of a request. `Deed::from_draft`, `Body::validate`, `Body::paths`,
`rewrite_path` and minting are operators of `DeedRecord`.

`Client` runs one call at a time: `Ask` encodes it, one of the `Handle*` actions is
`FsStore::handle` with the operation it dispatches to, `Hear` decodes the answer
and maps an error's text to a class. `shelf` holds frames, so every later call
decodes what an earlier one wrote. `PowerLoss` cuts a file short at some length:
`atomic_write` renames a file it has not synced. Here a call is one step of the
store; its steps are `DeedStore`'s. `current` answers as a get of the deed asked for or of any
frozen one would, or with a fork or a cycle, since the walk is `CurrentWalk`'s. The
evidence of any deed may be refused, as `evidence_local` looks at product files, the
signature and the host's word, which are not here; `leave` and `timestamp` may fail
for reasons outside. Strings in an error are kept apart only where a caller does.

### LogText, CommandLine and Seat

`LogText` has the log as characters. `Line` is what `append_log` writes, `IsEntry`
and `ParseEntry` what `Entry::parse` makes of a line, `HitsIn` the reading of
`logged_deed`, which takes the first bad line for the end of the log. An
accession is "deed-", "<kind>-" and its slug (`Slugs`), a digest two characters and a
time two digits, so that a cut may fall inside each of them. A slug may hold what an
accession is made of, in the model as in `DeedId::parse`: the beginning of one accession
with another one behind it is again an accession (`IsAccession`), of another deed or
of none.

`CommandLine` has `split_argv` as a recursive function over the words, with the state
the loop keeps (`ReadWord`). `Means` is what the items a person composed mean, before
they are written as one flat list; `split_argv` has to find that again. `WellMeant` is
how a person composes: an option that takes a value stands with one, and before the
verb only `--url` takes one.

`Seat` has one command or tool call (`cmd`) with its lookup (`look`), and the other
seats: `MakesStore`, `OtherFreezes`, `OtherDeletes`, `Backfill`, `AppendLog`. A create is
its freezing, then its line in the log as a step of its own, which may be cut
short (`Stumps`). `Split` and `Taken` are `dispatch`, which takes the URL once to see
whether the verb has many words and again to run it; `TakeUrl` and `TakeMissing`
are the two looks at the seat's directory (`is_dir`, then `exists`), of the command
line and of the server's `open` alike; `Open` makes what is not there. `Resolve`,
`TryHit`, `EndHits`, `Visit` and `EndList` are `resolve`, one file a step; a directory
reading sees what was there when it began and may see what came later. `Check` is
`resolve_id`'s own get, which the server does not make; `Act` the verb's; `Explain`
and `EndExplain` the sentence about a word that names no deed. `look.steady` and
`look.seen` are history: the deeds served all through the lookup, and at any
moment of it.

## Runs

| Run | Instance | Shows |
|---|---|---|
| `store_one` | 1 process, 3 accessions, 6 requests, stops | audit, links, answers, log and backfill stay right |
| `store_apart` | 2 processes with accessions of their own, a source across | records are never edited, timestamps cover their evidence; `DeedRegistry` is implemented |
| `store_shared` | 2 processes on 2 accessions, the second superseding the first; fair | what holds however writes mix; every command that is not stopped ends |
| `store_two_freeze` | 2 processes, 1 accession, 2 bodies | violated: "A deed is never edited." |
| `store_rerun` | 1 process, 1 request, stops | violated: "a rerun of the same command succeeds" |
| `merkle` | 2 entries, logs of up to 6 | receipts and bridges pass for what is true and nothing else |
| `walk` | 3 accessions, all links, 1 write | the verdict, under writes too; the walk ends |
| `open` | 3 processes, one of them without a key | one writer key, kept; opens end |
| `open_widened` | 2 processes, a person | violated: "An existing store is never widened." |
| `handover` | 2 accessions (a deed, and its revision made from it), 2 exports, 2 imports, 1 delete, lost file or local create | what lands is what was sent, checked and signed; stopped imports are completed; nothing held is replaced |
| `client` | 1 client, 25 creates over all 11 kinds, 14 other calls, 2 deeds, 1 file cut short | calls arrive and answers are heard; deeds read back as made; nothing torn is read |
| `seat` | 12 commands, 4 tool calls, 2 deeds with one product file, 1 torn line, 1 backfill | the answer of a lookup was true; what reads as an entry is the end of one whole line; the store is the one that was meant |

The three violated statements are the findings of `PROJECT.json`, with the lines
they quote. The first needs two creates of one accession in different fields at
once; the second only a crash between two renames; the third needs a person to
edit the layout in a short window.

Bounds. Three accessions are enough for a chain of two supersedes, for a fork,
and for every cycle a walk can tell apart; two processes for every pair of
commands, which is what the races are made of (a third command changes files in
the same ways as the second). Two bodies tell whose deed is on the shelf. Six
entries cover trees of whole, nearly whole and just overfull powers of two, and
both seeds of the consistency check. `MaxTime` is 2 in `store_one` and 1 in the other store runs: a deed keeps the
second it was made in, and no property but a type depends on which that is; the
proofs leave it open.
`MaxWrites` is the commands that write during one walk. In `handover`, two accessions
have every link there is between deeds, two exports make a bag that grew or was
rewritten, and two imports a stopped one and its completion. `MaxEvents` is one
budget for deletes, lost files and local creates together. The sender's key is
listed and every export signs; `--allow-unsigned-head` matters when `head` is
what got lost. In `client`, `Creates` has a body of every kind, each with what its
kind is prone to (a member given twice, an empty option, a NaN, a path that is
no UTF-8, a text that is no URL), and drafts that are refused at each check of
`create`; two deeds are enough for one made from, or superseding, another; a cut
leaves nothing, a piece of the head of a frame or a piece of its payload, and
every beginning of every frame on the wire is looked at by `TornNeverReads`
itself. In `seat`, `Stumps` has a cut behind "deed-", before, within and behind the slug, in
the digest, in the time and before the newline, and the second deed's slug ends in the
first one's accession. So a stump of one line glued to the other makes an entry of the other
deed with the wrong digest, one of an accession nobody froze, and one of no accession,
and a lookup that hits a glued line: the run reaches each of these. One torn line meets a whole
one on either side; only
the seat's store has other seats in it, and its path is at first absent or a
file. Words are chosen so that values look like flags and flags like values.
Deadlock is not checked where all commands may have been answered for good (the
shelf is full), where a walk has ended, or where the exports, imports or creates
are used up.

Fairness. `FairSpec` of `DeedStore` and `OpenStore`, and `Spec` of `CurrentWalk`,
assume that a command that is under way makes its next file operation: it runs
in the foreground of its process and waits on nothing but the file system, the
log's lock (held for one write) and the authority, which has connect and read
timeouts. Nothing obliges a process to start a command, a person to edit, or a
crash to happen.

## Proofs

`DeedStoreProofs` proves, for any processes, accessions, requests and keys,
`TypeOK`, `LogNamesWritten`, `BytesBeforeDeed` and `MixupStaysWithinAccession` of
`DeedStore!Spec`. None is inductive alone. `StoreInv` adds what a command's place
says about the disk: the body of a draft past `ingest` is on the shelf or named
by address; a draft belongs to the accession the command works on, and its prior
is another one; past the deed file's rename that file exists; a backfill holds a
deed it read. That is kept by every rival's step because files are never removed
and because what a rival stages under the shared name is about the same
accession. Each lemma has a step per action; the theorems follow from `StoreInv`.

`OpenStoreProofs` proves `TypeOK`, `OneWriterKey`, `KeyNeverDisappears` and
`WriterKeyKept` of `OpenStore!Spec`. The strengthening is small: an open that
lost the link only re-reads when a key is there, and only a host with a key of its
own is about to list one (which the layout's type needs).

`DeedStoreApartProofs` is about a store whose processes reach accessions of their
own (`Exclusive`), the case the code is written for: there is no lock around a
create, and `store_two_freeze` shows what two of one accession do. It proves
`LinkedBothWays`, `SupersedesAcyclic`, `TimestampCoversEvidence`, `AnswerHolds`,
`AuditFindsOnlyTombs`, `RecordNeverEdited`, and that no deed file changes, which is
what `store_two_freeze` refutes otherwise. `ApartInv` holds what each place knows
of the shelf: which files of its accession a create still finds absent (`Ahead`),
that what it staged is still under the temporary name, and that its reading of
the prior deed, or of the evidence to be stamped, still stands. A circle of links
is ruled out because no deed names another that is not frozen yet: when a create
writes its `supersedes` file, nothing names its own accession, so the new link
ends nowhere it could come back from. `StoreImplementsRegistry` is the
refinement: `Init` maps to `Init` of `DeedRegistry` and, under `ApartInv`, each
`Publish` and each line of the log to one of its steps, every other action to a
stutter. Processes that work on other accessions in between, crashes and
errors included, are any number.

The end of `DeedStoreApartProofs` has the two properties that need a store to itself
(`Alone`): `LoggedOnce` and `BackfillSettles`. A second process between the reading
of the log and the appending to it logs a deed twice. `AloneInv` says of each place
of a create before `append_log` that the accession has no line yet, and of a
backfill that what it has left to do is what an audit would tell it now.

`CurrentWalkProofs` proves, for every set of links between any number of deeds,
`VerdictRight`, `CycleIsReal` and `NoMissedRevision`. `WalkInv` has four parts: what the
walk was told, its path and its circles lie along links the files record
(`AlongLinks`); until a circle is closed every link it followed led to the next
deed on the path or to one that is done, and a walk with something done has met
a tip (`Forward`); no link of the beginning is lost unless its deed is gone
(`NoneLost`); and on a store nobody writes to, what is done leads nowhere else and
is on no circle (`Searched`), which makes the answer the one that reachability
defines. The third part is what `superseded_by` and `successor` give together:
either file may be missing a link, since a create writes them in two renames.

`SatchelProofs` has the lemmas on the sender: a receipt in the bag is of the
sender's log, and what each export step does to a folder. `HandoverProofs` proves,
for any deeds, links, exports into the bag meanwhile, losses and stops:

- `KeptPairAgrees`, from nothing but the types of constants. `PairInv`: folders
  taken passed the check; each write of a plan is a file of a deed, or one side
  of a link, at its place in the order; a head due is due beside a receipt due
  before it, or beside one that is there and of the same log.
- `HeldIsKept`, under `Apart`. `HeldInv`: nothing is kept of an accession without its
  deed; what a plan still has to write is absent (`FreeOK`); what it has no more
  to write is there (`DueOK`). Nobody but the import adds files to an accession
  it carries, which is where `Apart` comes in.
- `LandedAsSent` and `LinesComeLast`, under `Apart` and `Patient`. `LandInv`: evidence is
  of the deed beside it, and beside a receipt lies what the sender logged.
- `Resumable`, `AgainAddsNothing` and `ImportedAnswers`, under the same two, for imports with
  nobody else at work on the store (`imp.alone`). `WholeInv`: the files of the deeds carried are
  absent or what the plan was made for (`Fitting`), and whatever of them is not there yet
  is still to be written (`WholeDue`). The first makes a stopped import's bag
  acceptable again; both, with nothing left to write, make an ended one answer and
  its repetition empty.
- `LinksWereSigned`, where no file of the bag that says what a deed was made from
  or supersedes gets lost (`LinksArrive`). `LinkInv`: a folder with a receipt has all
  its links, which are the same in every export; what was read of the successor
  is what one of the two heads covers.

`MerkleLogProofs` proves `ReceiptsAreTrue`, `KeptLogOnlyGrows` and `HonestProofsPass`
for logs of any length, any `Offered` and, as hashes are terms, no collisions.

- The first two rest on `MerkleInv`. A check in progress is over the node at place `at`
  of a level, `wide` leaves to a node (`Place`), and its hash is the hash of that node
  only if the entry is at its place (`ReceiptOK`), or if the two logs agree from that
  node's first leaf to the old log's end (`BridgeOK`). A turn keeps that: whatever hash
  is handed over, the hash made of it and the one held is the hash of the node above
  only if both are the hashes of its halves. At the top that node is the whole tree.
- For the third, `Stands` says that a check is at the node over given leaves, which
  may be narrower at the log's end. After the path of any node that holds the leaf the
  check started at, it stands there with the node's root, was not at the top before,
  and a bridge holds the old log's root over the same leaves besides (`InclusionClimbs`,
  `ConsistencyClimbs`). `ConsistencySeed` has why the loop before a bridge's first
  turn ends at the subtree the proof begins with: a size is an odd multiple of one power
  of two only.

The recursive functions of the code are shown to exist and to stop (`HalvingEnds`,
`RootsEnd`, `PathEnds`), by induction on the set of numbers a claim holds for
(`Induction`, from the library's least element of a well-founded order). `PowersOnly` is
that for powers of two, the widths of nodes.

`SeatProofs` proves `ResolveWasTrue`, for any words, any deeds, any number of other
seats and any text of the log, as an entry that is torn or glued is only acted on
after the deed it names was read and hashed. `LookInv` says that what has been
served all through a lookup is served now, and what is served now has been seen
(until the verb deletes it itself); that `listed` has, of what the walk has
visited, all that was served throughout; and that a lookup which goes on to
explain has no sole deed to answer with. The deeds seen only grow and those
served throughout only shrink, so a deed that is the sole one in the end was so at
each place before.

`TornLinesEndInOne` proves `TornLinesEndWhole` for any slugs and any number of lines cut
at any place: an entry is the end of one whole line. A text splits at
a mark into pieces that lie between its marks (`SplitCuts`, by induction on the
text's beginnings), and every character of a log stands in a line of a deed frozen in
that store, behind the whole beginning of that line (`Torn` of `TextInv`; a stump is
a beginning, and an append comes behind what is there). So the third field of an entry,
which begins with a digit behind a tab, has the beginning of one line before it, with its
accession, its digest and both tabs; as an entry has no newline and two tabs only, this
is the end of the entry's own beginning (`PieceTells`). What may stand before it are stumps
cut within their accession, and nothing tells these from a part of the id: the id ends in
the accession, no more. While nothing was cut, each line begins where another one ends
(the last part of `Torn`), so that the id is the accession.

`CommandsActWhereTold` proves `ActsWhereTold` for any commands. One lemma is about
the words alone (`SplitUnderstands`): for any list of items that is `WellMeant`, however
long and whatever its values look like, `split_argv` reads from its words the rest, the
URL and the switches that `Means` says. It goes by induction on the items: between
two of them `split_argv` expects no value, has kept the words of all items but the
`--url` ones, holds the value of the last of these, and has seen a verb exactly if
one of the items is one (`ReadUpTo`). `ToldInv` carries that through the looks at the
disk, and `SeatInv` that a command given no store opens the seat's, which is there or
is about to be made by a first write, though the look for it, the second look and the
opening are three steps.

Assumptions are those named in the modules (`StoreAssumption`, `OpenAssumption`,
`WalkAssumption`, `SatchelAssumption`, `HandoverAssumption`, `SeatAssumption`,
`SlugAssumption`): types of constants, that
the marks for "none" are not values, that no two deeds have one slug, and a slug is a text
that `DeedId::parse` takes (`SlugAssumption`), that the commands are `WellMeant` or leave a `--url` without its value, which is
refused, and that the sender's deeds do not supersede themselves: a create finds its
prior deed on the shelf, or is refused, and its own not.
Where a theorem has a hypothesis besides, it is written in front of it as `ASSUME`.

Only model-checked:

- liveness (`CommandsEnd`, `OpensEnd`, `WalkEnds`): the provers have no fairness;
- all of `WireFormat` and `Client`: their layouts are recursive operators, which the
  SMT solver is not available beside.

## Where code and words part

Three disagreements are runs. The others met on the way, by their lines:

- import.rs:793-795, "Both readings have to be one bag, record for record":
  `same_as_checked` holds the head to the link files as they are on disk by then
  (`links_bound(root, ...)`, import.rs:828), not as `read_folder` returned them. An
  export into the bag in between makes import keep a head whose signature does
  not cover the links it read. All it takes was covered by one of the two heads
  all the same (`LinksWereSigned`), as long as no link file of the bag is lost: a
  folder without its `sources`, signed like that and exported again between the
  two readings, is taken with links that neither head covers.
- fs.rs:232-235, "by hand or not at all": a layout that comes to demand
  attestation after an open has read it still gains the host's key
  (`AcceptHostSigner`).
- fs.rs:385-387, "an entry never names a deed the store failed to write": a line
  cut within its accession and the next one behind it read as one entry, and its
  accession is that of a deed nobody wrote (`deed-quote-fo` and `deed-file-x`), or of
  another deed of the store, with a digest that is not that deed's (`deed-file-` and
  `deed-file-x`, beside a deed `deed-file-deed-file-x`). Run `seat` reaches both. What
  does hold is `TornLinesEndWhole`: digest and time are those of one deed frozen there,
  and the accession ends in that deed's. Lookups read and hash what they hit
  (`ResolveWasTrue`), but `log_audit` reports the deed so named as changed or missing, and
  `log_backfill` takes it for logged, and the deed whose line it was for not logged. A
  backfill after a stump answers ok and may leave a log that cannot be read.
- server.rs:514: `since` is said to check that the sender's log only grew.
  `deedar_check` checks that the bridge is consistent in itself, and compares
  neither of its ends with the bag's head or a kept one, as the command line's
  `check --since` does.
- main.rs:228, "with no store": `check` takes the store's URL and opens it like any
  verb, so it is refused without a seat store, and makes a named one.
- main.rs:759: of two first creates at once, one may find the directory absent in
  `is_dir` and present in `exists`, and is refused with "there is no store at".
- main.rs:643: the help of `create` lists `maildraft`; `Kind::known` takes `mailDraft`.
- server.rs:24: the comment says that an accession may be given as a prefix;
  `resolve` takes none.
- lib.rs:352 answers with the path of its own argument, though a destination that
  is no UTF-8 crosses the wire in another form; lib.rs:364 answers with an old
  reply if there is one, even where this call saved a query.

## Not modelled

The two halves of `fs::write` on a temporary file; a power loss that takes a
rename back or tears anything but a deed or its evidence; damage to files from
outside; wording, formats and hex; the arguments and output of single verbs
(`create`, `log`, `export`, `check`, `host`), the filter of `list`, and the server's
tools that only render; the spelling of URLs, beyond what is and is not one. Of
the handover: the exporter's tree that is kept between calls of `export_into`,
two imports at once (which share temporaries as in `store_shared`), bags of
several senders, symlinks and other files that are refused on sight, sidecars
keyed with a host's secret. `vouch` signs the bytes of one file and checks that
signature: with signatures taken as perfect nothing is left of it to model.

## Plan

1. `DeedStore`, `DeedRegistry`, `DeedStoreProofs`: done.
2. `MerkleLog`, `CurrentWalk`, `OpenStore`, `OpenStoreProofs`: done.
3. `Satchel`, `Handover`: done for one sender and one import at a time. Left: two
   imports at once with their temporaries; a second sender whose log differs;
   a receiver that requires attestation.
4. `DeedRecord`, `WireFormat`, `Client`: done. `LogText`, `CommandLine`, `Seat`: done.
5. Left: the exporter's kept tree against the log file's stamp; of two signers
   accepted at once, the one that is lost (migrate.rs:44).
6. Proofs: the store with its refinement, the walk, opening, the log's checks, the
   handover and the lookups: done. Left: `Client`, which needs the layouts of
   `WireFormat` as recursive functions first.
