---------------------------- MODULE AtomicIssue ----------------------------
(***************************************************************************)
(* What issuing promises, with no files, no phases and no crashes: all the *)
(* devices of a request get their license in one step, or none does; every *)
(* one of them is registered, inside the certificate's scope and quota;    *)
(* the license a device had is retired by the one that replaces it in that *)
(* same step; nothing else ever changes what has been granted.             *)
(*                                                                         *)
(* issuance.ts:109-112 states it ("all of the batch or nothing");  module  *)
(* Issuance shows that the code keeps it.                                  *)
(***************************************************************************)
EXTENDS Catalog

CONSTANT MaxLicenses     \* bound on the licenses ever signed

VARIABLES
    asked,      \* the <<project, device>> pairs of the request in progress
    current,    \* the license in force of each pair, 0 if there is none
    retired     \* licenses that were in force once

grantVars == <<asked, current, retired>>

GrantInit ==
    /\ CatalogInit
    /\ asked = {}
    /\ current = [pd \in Projects \X Devices |-> 0]
    /\ retired = {}

Ask(p, D) ==
    /\ asked = {}
    /\ asked' = {p} \X D
    /\ UNCHANGED <<catalogVars, current, retired>>

Refuse ==
    /\ asked # {}
    /\ asked' = {}
    /\ UNCHANGED <<catalogVars, current, retired>>

Fresh(i) == i \notin retired /\ \A pd \in Projects \X Devices : current[pd] # i

Grant ==
    /\ asked # {}
    /\ active # NoCert
    /\ key = CertKey[active]
    /\ WithinQuota(active)
    /\ \A pd \in asked : Bound(pd[1], pd[2]) /\ pd[1] \in CertScope[active]
    /\ \E license \in [asked -> 1 .. MaxLicenses] :
         /\ \A pd \in asked : Fresh(license[pd])
         /\ \A pd, qe \in asked : license[pd] = license[qe] => pd = qe
         /\ current' = [pd \in Projects \X Devices |->
                          IF pd \in asked THEN license[pd] ELSE current[pd]]
    /\ retired' = retired \union ({current[pd] : pd \in asked} \ {0})
    /\ asked' = {}
    /\ UNCHANGED catalogVars

GrantNext ==
    \/ CatalogNext /\ UNCHANGED grantVars
    \/ \E p \in Projects, D \in (SUBSET Devices) \ {{}} : Ask(p, D)
    \/ Refuse
    \/ Grant

GrantSpec == GrantInit /\ [][GrantNext]_<<catalogVars, grantVars>>
=============================================================================
