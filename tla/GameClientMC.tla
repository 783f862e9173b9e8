---------------------------- MODULE GameClientMC ----------------------------
(***************************************************************************)
(* Instance of GameClient: a license that runs out soon, one that lasts,   *)
(* and one for another device.                                             *)
(***************************************************************************)
EXTENDS GameClient, TLC

CONSTANTS soon, late, other

Said(ours, expires) ==
    [signed |-> TRUE, ours |-> ours, certIssued |-> 0, certExpires |-> 3,
     issued |-> 0, expires |-> expires]

MCTerms == soon :> Said(TRUE, 1) @@ late :> Said(TRUE, 3) @@ other :> Said(FALSE, 2)
=============================================================================
