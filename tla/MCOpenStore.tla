----------------------------- MODULE MCOpenStore -----------------------------
(* Two commands of a host that signs and one of a host that does not; or two
   hosts with keys of their own. *)
EXTENDS OpenStore

MCProcs == {"p", "q", "r"}
MCSigners == {"k"}
MCSigner == [p |-> "k", q |-> "k", r |-> NoKey]

MCTwo == {"p", "q"}
MCTwoSigners == {"kp", "kq"}
MCTwoSigner == [p |-> "kp", q |-> "kq"]
=============================================================================
