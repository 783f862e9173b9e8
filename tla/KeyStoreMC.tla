----------------------------- MODULE KeyStoreMC -----------------------------
(* Instance of KeyStore: an old key and the texts an operator may import. *)
EXTENDS KeyStore, TLC

CONSTANTS t1, t2, t3

MCSymmetry == Permutations({t1, t2, t3})
=============================================================================
