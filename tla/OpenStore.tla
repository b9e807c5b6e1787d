------------------------------ MODULE OpenStore ------------------------------
(***************************************************************************)
(* Opening a store: `layout` and `writer.key`, made by whoever is first.   *)
(*                                                                         *)
(* Every command opens the store before it does anything else, so two      *)
(* commands on a new directory race to make its two files.  writer.key is  *)
(* linked into place whole.  layout is written in place: fs::write         *)
(* truncates the file, then fills it, and the file it fills may have been  *)
(* renamed over since.  A person edits layout by hand meanwhile.           *)
(*                                                                         *)
(* A layout is what Policy::read makes of it: accepted signers and the     *)
(* demand.  The key a process draws for the store is named after it.       *)
(***************************************************************************)
EXTENDS Naturals

CONSTANTS
    Procs,     \* processes that open the store
    Signers,   \* host signing keys
    Signer     \* Signer[p]: the key p's host signs with, or NoKey

NoKey == "none"

ASSUME OpenAssumption ==
    /\ NoKey \notin Procs \cup Signers
    /\ Signer \in [Procs -> Signers \cup {NoKey}]

VARIABLES
    layout,      \* the layout file
    writerKey,   \* what `writer.key` holds
    issuers,     \* writer keys the evidence of deeds on the shelf was issued with
    sess         \* sess[p]: how far p's open is, and what it holds

vars == <<layout, writerKey, issuers, sess>>

-----------------------------------------------------------------------------
Demands == {"optional", "required"}
Policies == [signers : SUBSET Signers, demand : Demands]

(* Policy::read of a file that is missing or says nothing *)
DefaultPolicy == [signers |-> {}, demand |-> "optional"]

(* `state` tells a file cut to nothing from one with its text. *)
Layouts == [state : {"absent", "blank", "text"}, policy : Policies]
NoLayout == [state |-> "absent", policy |-> DefaultPolicy]
Blank == [state |-> "blank", policy |-> DefaultPolicy]
Text(policy) == [state |-> "text", policy |-> policy]

(* Where an open is: the file operation it makes next. *)
Opening == {"write", "fill", "ensure", "make", "pad", "key", "link", "reread",
            "policy"}
Places == {"idle", "open", "rename", "reload", "failed"} \cup Opening

(* `fd`: whether the layout file this process writes to is still the one
   under the name. *)
Closed == [at |-> "idle", fd |-> "none", key |-> NoKey, policy |-> DefaultPolicy]
Sessions == [at : Places, fd : {"none", "named", "renamed"},
             key : Procs \cup {NoKey}, policy : Policies]

At(p, place) == sess[p].at = place
Goto(p, place) == sess' = [sess EXCEPT ![p].at = place]

-----------------------------------------------------------------------------
(* FsStore::open *)

Fresh == layout.state = "absent" /\ issuers = {}

(* Mistaken: a host that signs nothing writes a fresh layout too. *)
OpenUnsigned(p) ==
    /\ At(p, "idle")
    /\ Goto(p, IF Fresh THEN "write" ELSE "ensure")
    /\ UNCHANGED <<layout, writerKey, issuers>>

Open(p) ==
    /\ At(p, "idle")
    /\ Goto(p, IF Fresh /\ Signer[p] # NoKey THEN "write" ELSE "ensure")
    /\ UNCHANGED <<layout, writerKey, issuers>>

(* fs::write, first half: the name is opened and cut to nothing. *)
Truncate(p) ==
    /\ At(p, "write") \/ At(p, "make")
    /\ layout' = Blank
    /\ sess' = [sess EXCEPT ![p].at = IF At(p, "write") THEN "fill" ELSE "pad",
                            ![p].fd = "named"]
    /\ UNCHANGED <<writerKey, issuers>>

(* write_fresh_layout, second half: version and the host's own key, over what
   the file holds by now. *)
Fill(p) ==
    /\ At(p, "fill")
    /\ layout' = IF sess[p].fd = "named"
                 THEN Text([signers |-> {Signer[p]}, demand |-> "optional"])
                 ELSE layout
    /\ sess' = [sess EXCEPT ![p].at = "ensure", ![p].fd = "none"]
    /\ UNCHANGED <<writerKey, issuers>>

(* Mistaken: a layout somebody has cut and not filled yet is waited for. *)
EnsureLayoutFilled(p) ==
    /\ At(p, "ensure") /\ layout.state # "blank"
    /\ Goto(p, IF layout.state = "absent" THEN "make" ELSE "key")
    /\ UNCHANGED <<layout, writerKey, issuers>>

(* ensure_layout: the name is looked for... *)
EnsureLayout(p) ==
    /\ At(p, "ensure")
    /\ Goto(p, IF layout.state = "absent" THEN "make" ELSE "key")
    /\ UNCHANGED <<layout, writerKey, issuers>>

(* ...and, where it was missing, truncated and given the version line, which
   any text already there begins with. *)
Pad(p) ==
    /\ At(p, "pad")
    /\ layout' = IF sess[p].fd = "named" /\ layout = Blank
                 THEN Text(DefaultPolicy) ELSE layout
    /\ sess' = [sess EXCEPT ![p].at = "key", ![p].fd = "none"]
    /\ UNCHANGED <<writerKey, issuers>>

(* load_writer_key *)
ReadWriterKey(p) ==
    /\ At(p, "key")
    /\ sess' = IF writerKey # NoKey
               THEN [sess EXCEPT ![p].at = "policy", ![p].key = writerKey]
               ELSE [sess EXCEPT ![p].at = "link"]
    /\ UNCHANGED <<layout, writerKey, issuers>>

(* Mistaken: the finished key is renamed into place. *)
RenameNewKey(p) ==
    /\ At(p, "link")
    /\ writerKey' = p
    /\ sess' = [sess EXCEPT ![p].at = "policy", ![p].key = p]
    /\ UNCHANGED <<layout, issuers>>

(* Mistaken: who loses the link keeps the key it drew. *)
LinkKeepingOwn(p) ==
    /\ At(p, "link")
    /\ writerKey' = IF writerKey = NoKey THEN p ELSE writerKey
    /\ sess' = [sess EXCEPT ![p].at = "policy", ![p].key = p]
    /\ UNCHANGED <<layout, issuers>>

(* Mistaken: whatever keeps the link from being made counts as having lost. *)
LinkOrLose(p) ==
    /\ At(p, "link")
    /\ \/ writerKey = NoKey /\ writerKey' = p
       \/ writerKey' = writerKey
    /\ Goto(p, "reread")
    /\ UNCHANGED <<layout, issuers>>

(* link_new_key: a new key, written under a name nobody else uses, is linked
   onto writer.key unless that is there. *)
LinkNewKey(p) ==
    /\ At(p, "link")
    /\ IF writerKey = NoKey
       THEN /\ writerKey' = p
            /\ sess' = [sess EXCEPT ![p].at = "policy", ![p].key = p]
       ELSE /\ writerKey' = writerKey
            /\ Goto(p, "reread")
    /\ UNCHANGED <<layout, issuers>>

(* Who lost the link reads the key that won. *)
RereadWriterKey(p) ==
    /\ At(p, "reread")
    /\ sess' = IF writerKey # NoKey
               THEN [sess EXCEPT ![p].at = "policy", ![p].key = writerKey]
               ELSE [sess EXCEPT ![p].at = "failed"]
    /\ UNCHANGED <<layout, writerKey, issuers>>

(* Policy::read, at the end of open and of accept_host_signer *)
ReadPolicy(p) ==
    /\ At(p, "policy") \/ At(p, "reload")
    /\ sess' = [sess EXCEPT ![p].at = "open", ![p].policy = layout.policy]
    /\ UNCHANGED <<layout, writerKey, issuers>>

-----------------------------------------------------------------------------
(* What a command does with the open store. *)

(* create issues evidence with the key the open loaded. *)
IssueEvidence(p) ==
    /\ At(p, "open")
    /\ issuers' = issuers \cup {sess[p].key}
    /\ UNCHANGED <<layout, writerKey, sess>>

(* accept_host_signer asks the policy the open read, then add_signer reads the
   layout of now. *)
AcceptHostSigner(p) ==
    /\ At(p, "open") /\ Signer[p] # NoKey
    /\ sess[p].policy.demand = "required" => Signer[p] \in sess[p].policy.signers
    /\ sess' = IF Signer[p] \in layout.policy.signers
               THEN [sess EXCEPT ![p].at = "reload"]
               ELSE [sess EXCEPT ![p].at = "rename", ![p].policy = layout.policy]
    /\ UNCHANGED <<layout, writerKey, issuers>>

(* A new file under the name: who was writing to the old one still is. *)
Replace(policy) == layout' = Text(policy)
Detached(s) == [q \in Procs |-> IF s[q].fd = "named"
                                THEN [s[q] EXCEPT !.fd = "renamed"] ELSE s[q]]

(* add_signer writes the text it read and one line beside the layout, and
   renames. *)
AddSigner(p) ==
    /\ At(p, "rename")
    /\ Replace([sess[p].policy EXCEPT !.signers = @ \cup {Signer[p]}])
    /\ sess' = Detached([sess EXCEPT ![p].at = "reload"])
    /\ UNCHANGED <<writerKey, issuers>>

(* The command ends, or is stopped anywhere. *)
Close(p) ==
    /\ ~At(p, "idle")
    /\ sess' = [sess EXCEPT ![p] = Closed]
    /\ UNCHANGED <<layout, writerKey, issuers>>

(* A person decides what the store accepts. *)
EditByHand(policy) ==
    /\ layout.state # "absent"
    /\ Replace(policy)
    /\ sess' = Detached(sess)
    /\ UNCHANGED <<writerKey, issuers>>

-----------------------------------------------------------------------------
Init ==
    /\ layout = NoLayout
    /\ writerKey = NoKey
    /\ issuers = {}
    /\ sess = [p \in Procs |-> Closed]

OpenStep(p) ==
    \/ Truncate(p) \/ Fill(p) \/ EnsureLayout(p) \/ Pad(p)
    \/ ReadWriterKey(p) \/ LinkNewKey(p) \/ RereadWriterKey(p)
    \/ ReadPolicy(p)

Next ==
    \/ \E p \in Procs : \/ Open(p) \/ OpenStep(p)
                        \/ IssueEvidence(p) \/ AcceptHostSigner(p) \/ AddSigner(p)
                        \/ Close(p)
    \/ \E policy \in Policies : EditByHand(policy)

Spec == Init /\ [][Next]_vars

(* An open runs in the foreground. *)
FairSpec == Spec /\ \A p \in Procs : WF_vars(OpenStep(p))

-----------------------------------------------------------------------------
(* Types. *)
TypeOK ==
    /\ layout \in Layouts
    /\ writerKey \in Procs \cup {NoKey}
    /\ issuers \subseteq Procs
    /\ sess \in [Procs -> Sessions]

(* fs.rs, load_writer_key: "A second open that loses that link reads the key
   the first open published."  Every open store holds the key on disk, and so
   does the evidence of every deed issued so far: what one command issues,
   every other one verifies. *)
OneWriterKey ==
    /\ \A p \in Procs :
          sess[p].at \in {"policy", "open", "rename", "reload"} =>
              sess[p].key = writerKey /\ writerKey # NoKey
    /\ issuers \subseteq {writerKey} \ {NoKey}

(* The second read finds the key: "writer.key disappeared during open" is not
   an answer two opens can give each other. *)
KeyNeverDisappears == \A p \in Procs : ~At(p, "failed")

(* fs.rs, load_writer_key: "An existing 32-byte file is kept." *)
WriterKeyKept == [][writerKey # NoKey => writerKey' = writerKey]_vars

(* An open waits on no other: it ends. *)
OpensEnd == \A p \in Procs : sess[p].at \in Opening ~> sess[p].at \notin Opening

-----------------------------------------------------------------------------
(* What comments in fs.rs say, and a run refutes. *)

NoWider(new, old) ==
    /\ new.signers \subseteq old.signers
    /\ old.demand = "required" => new.demand = "required"

(* open: "An existing store is never widened."  No step of an open makes a
   layout that has its text accept more than it did. *)
NeverWidened ==
    [][\A p \in Procs :
          /\ sess[p].at \in Opening /\ sess'[p] # sess[p] /\ sess'[p] # Closed
          /\ layout.state = "text"
          => NoWider(layout'.policy, layout.policy)]_vars

=============================================================================
