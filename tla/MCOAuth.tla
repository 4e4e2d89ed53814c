------------------------------- MODULE MCOAuth -------------------------------
(* Small instances of OAuthProvider.                                       *)
EXTENDS OAuthProvider, TLC

MCSymmetry ==
    Permutations(Clients) \cup Permutations(Users) \cup Permutations(Requests)
      \cup Permutations(PendingIds) \cup Permutations(Codes) \cup Permutations(Pairs)
=============================================================================
