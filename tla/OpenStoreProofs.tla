--------------------------- MODULE OpenStoreProofs ---------------------------
(* However many processes open a store at once, wherever they stop and
   whatever is edited meanwhile, they all end up with one writer key. *)
EXTENDS OpenStore, TLAPS

(* Only a host with a key of its own is ever about to list one. *)
SignersWrite ==
    \A p \in Procs : sess[p].at \in {"write", "fill", "rename"} => Signer[p] # NoKey

(* An open that lost the link finds a key: who won it has published. *)
LoserFindsKey == \A p \in Procs : At(p, "reread") => writerKey # NoKey

TypeInv == TypeOK /\ SignersWrite
KeyInv == OneWriterKey /\ KeyNeverDisappears /\ LoserFindsKey

-----------------------------------------------------------------------------
(* A file renamed over the layout moves no session and changes no key. *)
LEMMA DetachedKeeps ==
    ASSUME NEW s \in [Procs -> Sessions]
    PROVE  /\ Detached(s) \in [Procs -> Sessions]
           /\ \A q \in Procs : Detached(s)[q].at = s[q].at /\ Detached(s)[q].key = s[q].key
  BY DEF Detached, Sessions

(* Every variable has its type when the store is an empty directory. *)
LEMMA TypeInit == Init => TypeInv
  <1> SUFFICES ASSUME Init PROVE TypeInv
    OBVIOUS
  <1>1. DefaultPolicy \in Policies
    BY DEF DefaultPolicy, Policies, Demands
  <1>2. Closed \in Sessions /\ Closed.at = "idle"
    BY <1>1 DEF Closed, Sessions, Places
  <1> QED
    BY <1>1, <1>2 DEF Init, TypeInv, TypeOK, SignersWrite, NoLayout, Layouts

(* Every step keeps the types, action by action. *)
LEMMA TypeStep == TypeInv /\ OneWriterKey /\ [Next]_vars => TypeInv'
  <1> SUFFICES ASSUME TypeInv, OneWriterKey, [Next]_vars PROVE TypeInv'
    OBVIOUS
  <1> USE OpenAssumption DEF TypeInv, TypeOK, SignersWrite, At
  <1>0. DefaultPolicy \in Policies /\ Closed \in Sessions /\ Closed.at = "idle"
    BY DEF DefaultPolicy, Policies, Demands, Closed, Sessions, Places
  <1>1. ASSUME NEW p \in Procs, Open(p) PROVE TypeInv'
    BY <1>1 DEF Open, Goto, Sessions, Places, Opening
  <1>2. ASSUME NEW p \in Procs, Truncate(p) PROVE TypeInv'
    <2>1. Blank \in Layouts
      BY <1>0 DEF Blank, Layouts
    <2>2. sess' \in [Procs -> Sessions]
      <3>1. \A a \in Places : [sess EXCEPT ![p].at = a, ![p].fd = "named"] \in [Procs -> Sessions]
        BY DEF Sessions
      <3>2. (IF At(p, "write") THEN "fill" ELSE "pad") \in Places
        BY DEF Places, Opening
      <3> QED
        BY <1>2, <3>1, <3>2 DEF Truncate
    <2>3. SignersWrite'
      BY <1>2 DEF Truncate, Sessions
    <2> QED
      BY <1>2, <2>1, <2>2, <2>3 DEF Truncate
  <1>3. ASSUME NEW p \in Procs, Fill(p) PROVE TypeInv'
    <2>1. [signers |-> {Signer[p]}, demand |-> "optional"] \in Policies
      BY <1>3 DEF Fill, Policies, Demands
    <2>2. layout' \in Layouts
      BY <1>3, <2>1 DEF Fill, Text, Layouts
    <2>3. sess' \in [Procs -> Sessions]
      BY <1>3 DEF Fill, Sessions, Places, Opening
    <2>4. SignersWrite'
      BY <1>3 DEF Fill, Sessions
    <2> QED
      BY <1>3, <2>2, <2>3, <2>4 DEF Fill
  <1>4. ASSUME NEW p \in Procs, EnsureLayout(p) PROVE TypeInv'
    BY <1>4 DEF EnsureLayout, Goto, Sessions, Places, Opening
  <1>5. ASSUME NEW p \in Procs, Pad(p) PROVE TypeInv'
    BY <1>0, <1>5 DEF Pad, Text, Layouts, Sessions, Places, Opening
  <1>6. ASSUME NEW p \in Procs, ReadWriterKey(p) PROVE TypeInv'
    BY <1>6 DEF ReadWriterKey, Sessions, Places, Opening
  <1>7. ASSUME NEW p \in Procs, LinkNewKey(p) PROVE TypeInv'
    BY <1>7 DEF LinkNewKey, Goto, Sessions, Places, Opening
  <1>8. ASSUME NEW p \in Procs, RereadWriterKey(p) PROVE TypeInv'
    BY <1>8 DEF RereadWriterKey, Sessions, Places, Opening
  <1>9. ASSUME NEW p \in Procs, ReadPolicy(p) PROVE TypeInv'
    <2>1. layout.policy \in Policies
      BY DEF Layouts
    <2>2. sess' \in [Procs -> Sessions]
      <3>1. \A q \in Policies :
              [sess EXCEPT ![p].at = "open", ![p].policy = q] \in [Procs -> Sessions]
        BY DEF Sessions, Places
      <3> QED
        BY <1>9, <2>1, <3>1 DEF ReadPolicy
    <2>3. SignersWrite'
      BY <1>9 DEF ReadPolicy, Sessions
    <2> QED
      BY <1>9, <2>2, <2>3 DEF ReadPolicy
  <1>10. ASSUME NEW p \in Procs, IssueEvidence(p) PROVE TypeInv'
    BY <1>10 DEF IssueEvidence, OneWriterKey, Sessions
  <1>11. ASSUME NEW p \in Procs, AcceptHostSigner(p) PROVE TypeInv'
    <2>1. layout.policy \in Policies
      BY DEF Layouts
    <2>2. sess' \in [Procs -> Sessions]
      <3>1. \A q \in Policies :
              [sess EXCEPT ![p].at = "rename", ![p].policy = q] \in [Procs -> Sessions]
        BY DEF Sessions, Places
      <3>2. [sess EXCEPT ![p].at = "reload"] \in [Procs -> Sessions]
        BY DEF Sessions, Places
      <3> QED
        BY <1>11, <2>1, <3>1, <3>2 DEF AcceptHostSigner
    <2>3. SignersWrite'
      BY <1>11 DEF AcceptHostSigner, Sessions
    <2> QED
      BY <1>11, <2>2, <2>3 DEF AcceptHostSigner
  <1>12. ASSUME NEW p \in Procs, AddSigner(p) PROVE TypeInv'
    <2> DEFINE policy == [sess[p].policy EXCEPT !.signers = @ \cup {Signer[p]}]
               moved == [sess EXCEPT ![p].at = "reload"]
    <2>1. policy \in Policies
      BY <1>12 DEF AddSigner, Sessions, Policies
    <2>2. Text(policy) \in Layouts
      BY <2>1 DEF Text, Layouts
    <2>3. moved \in [Procs -> Sessions] /\ \A q \in Procs : moved[q].at \in {"reload", sess[q].at}
      BY DEF Sessions, Places
    <2>4. sess' \in [Procs -> Sessions] /\ \A q \in Procs : sess'[q].at = moved[q].at
      BY <1>12, <2>3, DetachedKeeps DEF AddSigner
    <2>5. SignersWrite'
      BY <2>3, <2>4
    <2> QED
      BY <1>12, <2>2, <2>4, <2>5 DEF AddSigner, Replace
  <1>13. ASSUME NEW p \in Procs, Close(p) PROVE TypeInv'
    BY <1>0, <1>13 DEF Close
  <1>14. ASSUME NEW policy \in Policies, EditByHand(policy) PROVE TypeInv'
    <2>1. Text(policy) \in Layouts
      BY DEF Text, Layouts
    <2> QED
      BY <1>14, <2>1, DetachedKeeps DEF EditByHand, Replace
  <1>15. CASE UNCHANGED vars
    BY <1>15 DEF vars
  <1> QED
    BY <1>1, <1>2, <1>3, <1>4, <1>5, <1>6, <1>7, <1>8, <1>9, <1>10, <1>11, <1>12,
       <1>13, <1>14, <1>15 DEF Next, OpenStep

(* No step undoes a published key, and a session takes its key from the disk
   or puts it there. *)
LEMMA KeyStep == TypeInv /\ KeyInv /\ [Next]_vars => KeyInv'
  <1> SUFFICES ASSUME TypeInv, KeyInv, [Next]_vars PROVE KeyInv'
    OBVIOUS
  <1> USE OpenAssumption DEF TypeInv, TypeOK, KeyInv, OneWriterKey, KeyNeverDisappears,
          LoserFindsKey, At
  <1>1. ASSUME NEW p \in Procs, Open(p) PROVE KeyInv'
    BY <1>1 DEF Open, Goto, Sessions
  <1>2. ASSUME NEW p \in Procs, Truncate(p) PROVE KeyInv'
    BY <1>2 DEF Truncate, Sessions
  <1>3. ASSUME NEW p \in Procs, Fill(p) PROVE KeyInv'
    BY <1>3 DEF Fill, Sessions
  <1>4. ASSUME NEW p \in Procs, EnsureLayout(p) PROVE KeyInv'
    BY <1>4 DEF EnsureLayout, Goto, Sessions
  <1>5. ASSUME NEW p \in Procs, Pad(p) PROVE KeyInv'
    BY <1>5 DEF Pad, Sessions
  <1>6. ASSUME NEW p \in Procs, ReadWriterKey(p) PROVE KeyInv'
    BY <1>6 DEF ReadWriterKey, Sessions
  <1>7. ASSUME NEW p \in Procs, LinkNewKey(p) PROVE KeyInv'
    <2>1. CASE writerKey = NoKey
      <3>1. issuers = {} /\ writerKey' = p /\ p # NoKey
        BY <1>7, <2>1 DEF LinkNewKey
      <3>2. \A q \in Procs : sess[q].at \notin {"policy", "open", "rename", "reload"}
        BY <2>1
      <3> QED
        BY <1>7, <2>1, <3>1, <3>2 DEF LinkNewKey, Sessions
    <2>2. CASE writerKey # NoKey
      BY <1>7, <2>2 DEF LinkNewKey, Goto, Sessions
    <2> QED
      BY <2>1, <2>2
  <1>8. ASSUME NEW p \in Procs, RereadWriterKey(p) PROVE KeyInv'
    BY <1>8 DEF RereadWriterKey, Sessions
  <1>9. ASSUME NEW p \in Procs, ReadPolicy(p) PROVE KeyInv'
    BY <1>9 DEF ReadPolicy, Sessions
  <1>10. ASSUME NEW p \in Procs, IssueEvidence(p) PROVE KeyInv'
    BY <1>10 DEF IssueEvidence
  <1>11. ASSUME NEW p \in Procs, AcceptHostSigner(p) PROVE KeyInv'
    BY <1>11 DEF AcceptHostSigner, Sessions
  <1>12. ASSUME NEW p \in Procs, AddSigner(p) PROVE KeyInv'
    <2> DEFINE moved == [sess EXCEPT ![p].at = "reload"]
    <2>1. moved \in [Procs -> Sessions]
      BY DEF Sessions, Places
    <2>2. \A q \in Procs : sess'[q].at = moved[q].at /\ sess'[q].key = moved[q].key
      BY <1>12, <2>1, DetachedKeeps DEF AddSigner
    <2>3. \A q \in Procs : /\ moved[q].key = sess[q].key
                           /\ moved[q].at = IF q = p THEN "reload" ELSE sess[q].at
      BY DEF Sessions
    <2>4. writerKey' = writerKey /\ issuers' = issuers /\ sess[p].at = "rename"
      BY <1>12 DEF AddSigner
    <2>5. writerKey # NoKey /\ sess[p].key = writerKey
      BY <2>4
    <2>6. \A q \in Procs : /\ sess'[q].key = sess[q].key
                           /\ sess'[q].at = IF q = p THEN "reload" ELSE sess[q].at
      BY <2>2, <2>3
    <2> QED
      BY <2>4, <2>5, <2>6
  <1>13. ASSUME NEW p \in Procs, Close(p) PROVE KeyInv'
    BY <1>13 DEF Close, Closed
  <1>14. ASSUME NEW policy \in Policies, EditByHand(policy) PROVE KeyInv'
    <2>1. \A q \in Procs : sess'[q].at = sess[q].at /\ sess'[q].key = sess[q].key
      BY <1>14, DetachedKeeps DEF EditByHand
    <2> QED
      BY <1>14, <2>1 DEF EditByHand
  <1>15. CASE UNCHANGED vars
    BY <1>15 DEF vars
  <1> QED
    BY <1>1, <1>2, <1>3, <1>4, <1>5, <1>6, <1>7, <1>8, <1>9, <1>10, <1>11, <1>12,
       <1>13, <1>14, <1>15 DEF Next, OpenStep

-----------------------------------------------------------------------------
OpenInv == TypeInv /\ KeyInv

(* The inductive invariant holds in every behaviour of any number of opens. *)
THEOREM OpenInvariant == Spec => []OpenInv
  <1>1. Init => OpenInv
    <2> SUFFICES ASSUME Init PROVE KeyInv
      BY TypeInit DEF OpenInv
    <2> QED
      BY DEF Init, KeyInv, OneWriterKey, KeyNeverDisappears, LoserFindsKey, At, Closed
  <1>2. OpenInv /\ [Next]_vars => OpenInv'
    BY TypeStep, KeyStep DEF OpenInv, KeyInv
  <1> QED
    BY <1>1, <1>2, PTL DEF Spec

(* Types: layouts, keys and sessions stay what they are, for any processes and
   signing keys. *)
THEOREM OpenTypeCorrect == Spec => []TypeOK
  <1>1. OpenInv => TypeOK
    BY DEF OpenInv, TypeInv
  <1> QED
    BY <1>1, OpenInvariant, PTL

(* load_writer_key: every open of one store ends with the key on disk, which is
   the one all its evidence was issued with. *)
THEOREM OpensAgree == Spec => []OneWriterKey
  <1>1. OpenInv => OneWriterKey
    BY DEF OpenInv, KeyInv
  <1> QED
    BY <1>1, OpenInvariant, PTL

(* load_writer_key: the error of a key that disappears during open is not
   reached by any number of opens. *)
THEOREM KeyStaysFound == Spec => []KeyNeverDisappears
  <1>1. OpenInv => KeyNeverDisappears
    BY DEF OpenInv, KeyInv
  <1> QED
    BY <1>1, OpenInvariant, PTL

(* link_new_key: a published writer.key is never replaced. *)
THEOREM KeyIsKept == Spec => WriterKeyKept
  <1>1. [Next]_vars => [writerKey # NoKey => writerKey' = writerKey]_vars
    <2> SUFFICES ASSUME [Next]_vars, writerKey # NoKey PROVE writerKey' = writerKey
      OBVIOUS
    <2>1. CASE UNCHANGED vars
      BY <2>1 DEF vars
    <2>2. CASE Next
      BY <2>2 DEF Next, OpenStep, Open, Truncate, Fill, EnsureLayout, Pad, ReadWriterKey,
         LinkNewKey, RereadWriterKey, ReadPolicy, IssueEvidence, AcceptHostSigner,
         AddSigner, Close, EditByHand
    <2> QED
      BY <2>1, <2>2
  <1> QED
    BY <1>1, PTL DEF Spec, WriterKeyKept

=============================================================================
