----------------------------- MODULE MCAccounts -----------------------------
(* Small instances of Accounts.                                            *)
EXTENDS Accounts, TLC

CONSTANTS a, A, b, B

(* Two addresses, each typed in two ways.                                  *)
MCNormal == (a :> a @@ A :> a @@ b :> b @@ B :> b)

(* The addresses may be swapped together with the ways to type them.       *)
SwapAddresses == (a :> b @@ b :> a @@ A :> B @@ B :> A)

MCSymmetry == Permutations(UserIds) \cup Permutations(TokenIds) \cup Permutations(Requests)
                \cup Permutations(Passwords) \cup Permutations(Subs) \cup {SwapAddresses}
=============================================================================
