--------------------------- MODULE ConsoleKeysMC ---------------------------
(* Instance of ConsoleKeys: an old key and the texts an operator may import, two passwords *)
(* and, besides the import, a sensitive call that is awaited. *)
EXTENDS ConsoleKeys, TLC

CONSTANTS t1, t2, t3

MCSymmetry == Permutations({t1, t2, t3}) \union Permutations(Passwords)
=============================================================================
