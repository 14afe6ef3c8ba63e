----------------------------- MODULE MCMembership -----------------------------
(***************************************************************************)
(* Small instances of Membership for TLC.                                  *)
(***************************************************************************)
EXTENDS Membership, TLC

CONSTANTS w1, w2, n1, n2

(* Wallets with usernames of their own. *)
OwnUsername == [w \in Wallets |-> IF w = w1 THEN n1 ELSE n2]

(* Clients are alike.  Wallets are not: one of them stands in for none. *)
AnyClients == Permutations(Clients)
=============================================================================
