----------------------------- MODULE IssuanceMC -----------------------------
(***************************************************************************)
(* Instances of Issuance for TLC.                                          *)
(***************************************************************************)
EXTENDS Issuance, TLC

CONSTANTS p1, p2, c1, c2, k1, k2

\* One certificate for one project and two devices, valid throughout: the batches,
\* failures and crashes are what varies.
OneScope == c1 :> {p1}
OneMax == c1 :> 2
OneIssued == c1 :> 0
OneExpires == c1 :> 2
OneKey == c1 :> k1

\* A certificate for p1 and one for both, with different keys and quotas.  The first runs
\* out while the console is used; the second reaches too far ahead at the start, is then
\* accepted by a clock that is still behind it, and is valid last.
TwoScope == c1 :> {p1} @@ c2 :> {p1, p2}
TwoMax == c1 :> 1 @@ c2 :> 2
TwoIssued == c1 :> 0 @@ c2 :> 2
TwoExpires == c1 :> 2 @@ c2 :> 4
TwoKey == c1 :> k1 @@ c2 :> k2

\* Devices differ in nothing but their names.
DeviceSymmetry == Permutations(Devices)
=============================================================================
