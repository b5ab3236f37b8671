--------------------------- MODULE MCConversations ---------------------------
(***************************************************************************)
(* A small instance of Conversations: one conversation of a gateway that   *)
(* is also used from the web.                                              *)
(***************************************************************************)
EXTENDS Conversations, TLC

CONSTANT c1

MCIn == [m \in Messages |-> c1]

MCSymmetry == Permutations(Senders)
=============================================================================
