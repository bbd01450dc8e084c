------------------------------- MODULE MCAuth -------------------------------
(* Instances of Auth for TLC. *)
EXTENDS Auth, TLC

\* Keys and names are compared only for equality.
KeysAndNames == Permutations(SessionKey) \cup Permutations(Name)
=============================================================================
