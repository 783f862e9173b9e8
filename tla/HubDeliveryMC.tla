--------------------------- MODULE HubDeliveryMC ----------------------------
(***************************************************************************)
(* Instances of HubDelivery.  They start with a console that is set up:    *)
(* the projects exist, the certificate and its key are imported and the    *)
(* first project has the device.                                           *)
(***************************************************************************)
EXTENDS HubDelivery, TLC

CONSTANTS p1, p2, d1, c1, k1

MCScope == c1 :> {p1, p2}
MCMax == c1 :> 1
MCIssued == c1 :> 0
MCExpires == c1 :> 3
MCKey == c1 :> k1

MCInit ==
    /\ projects = Projects
    /\ device = [pd \in Projects \X Devices |-> IF pd = <<p1, d1>> THEN "bound" ELSE "absent"]
    /\ imported = {c1} /\ active = c1 /\ key = k1
    /\ now = 0
    /\ granted = <<>> /\ files = {} /\ orders = <<>>
    /\ call = Idle /\ answer = NoAnswer

MCSpec == MCInit /\ [][Next]_vars
MCFairSpec == MCSpec /\ WF_vars(PullStep)
=============================================================================
