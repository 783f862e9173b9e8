--------------------------- MODULE ConsoleViewMC ---------------------------
(***************************************************************************)
(* Instances of ConsoleView for TLC.                                       *)
(***************************************************************************)
EXTENDS ConsoleView, TLC

CONSTANTS p1, p2, d1, d2, c1, c2, k1

\* A certificate for any project and one device, and one that names two projects.
MCScope == c1 :> {p1, p2} @@ c2 :> {p1, p2}
MCMax == c1 :> 1 @@ c2 :> 3
MCIssued == c1 :> 0 @@ c2 :> 0
MCExpires == c1 :> 1 @@ c2 :> 1
MCKey == c1 :> k1 @@ c2 :> k1

MCInputs == {<<Malformed, d1>>}

\* One with a device in each project and nothing issued yet, one whose certificate names a
\* project that was not made, and a new one.
Empty == [pd \in Rows |-> "absent"]
MCBefore ==
    {[projects |-> {p1, p2}, active |-> c2, key |-> k1,
      device |-> [Empty EXCEPT ![<<p1, d1>>] = "locked", ![<<p2, d2>>] = "bound"]],
     [projects |-> {p1}, active |-> c2, key |-> k1, device |-> Empty],
     [projects |-> {}, active |-> NoCert, key |-> NoKey, device |-> Empty]}
=============================================================================
