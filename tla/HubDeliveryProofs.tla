-------------------------- MODULE HubDeliveryProofs -------------------------
(***************************************************************************)
(* Proofs about module HubDelivery, for every value of its constants: what *)
(* a game is handed was ordered and marked sent first, an order names the  *)
(* license it was made for, and orders move along their table.             *)
(***************************************************************************)
EXTENDS HubDelivery, CatalogProofs

USE DeliveryConstants, CatalogConstants DEF LicenseIds

HInv == TypeOK /\ CallOK /\ HandedOutIsOrdered /\ OrdersNameTheirLicense

-----------------------------------------------------------------------------
(***************************************************************************)
(* Steps that leave part of the state alone.                               *)
(***************************************************************************)

\* The initial state satisfies the invariant.
LEMMA InitHInv == Init => HInv
<1> SUFFICES ASSUME Init PROVE HInv
  OBVIOUS
<1>1. CatalogTypeOK
  BY DEF Init, CatalogInit, CatalogTypeOK, DeviceStatus
<1>2. granted = <<>> /\ orders = <<>> /\ files = {} /\ call = Idle /\ answer = NoAnswer
  BY DEF Init
<1>3. TypeOK
  BY <1>1, <1>2 DEF TypeOK, Answers, NoAnswer
<1> QED
  BY <1>2, <1>3 DEF HInv, CallOK, HandedOutIsOrdered, OrdersNameTheirLicense, Idle, NoAnswer

\* What a call in progress looks like, and what an answer is.
LEMMA CallFields ==
    ASSUME TypeOK, call.stage # "idle"
    PROVE  /\ call \in Call
           /\ call.project \in Projects /\ call.device \in Devices
           /\ call.report \in 0 .. Len(granted) /\ Len(granted) \in Nat
           /\ call.order \in 0 .. Len(orders)
BY DEF TypeOK, Call, Idle

\* Changing the state of an order leaves everything else about it.
LEMMA StateSet ==
    ASSUME orders \in Seq(Order), NEW o \in DOMAIN orders, NEW state \in OrderStates,
           SetState(o, state)
    PROVE  /\ orders' \in Seq(Order) /\ Len(orders') = Len(orders)
           /\ DOMAIN orders' = DOMAIN orders
           /\ orders'[o] = [orders[o] EXCEPT !.state = state]
           /\ \A i \in DOMAIN orders : i # o => orders'[i] = orders[i]
           /\ \A i \in DOMAIN orders : /\ orders'[i].license = orders[i].license
                                       /\ orders'[i].project = orders[i].project
                                       /\ orders'[i].device = orders[i].device
                                       /\ orders'[i].expiresAt = orders[i].expiresAt
           /\ orders'[o].state = state
<1>1. orders' = [orders EXCEPT ![o].state = state] /\ orders[o] \in Order
  BY DEF SetState
<1>2. [orders[o] EXCEPT !.state = state] \in Order
  BY <1>1 DEF Order
<1>3. orders' \in Seq(Order) /\ Len(orders') = Len(orders) /\ DOMAIN orders' = DOMAIN orders
  BY <1>1, <1>2
<1>4. /\ orders'[o] = [orders[o] EXCEPT !.state = state]
      /\ \A i \in DOMAIN orders : i # o => orders'[i] = orders[i]
  BY <1>1
<1>5. /\ orders'[o].state = state /\ orders'[o].license = orders[o].license
      /\ orders'[o].project = orders[o].project /\ orders'[o].device = orders[o].device
      /\ orders'[o].expiresAt = orders[o].expiresAt
  BY <1>1, <1>4 DEF Order
<1> QED
  BY <1>3, <1>4, <1>5

\* Whose license an order is does not depend on its state.
LEMMA NamesKept ==
    ASSUME OrdersNameTheirLicense, UNCHANGED granted,
           \/ UNCHANGED orders
           \/ /\ orders \in Seq(Order)
              /\ \E o \in DOMAIN orders, state \in OrderStates : SetState(o, state)
    PROVE  OrdersNameTheirLicense'
<1>1. CASE UNCHANGED orders
  BY <1>1 DEF OrdersNameTheirLicense
<1>2. ASSUME orders \in Seq(Order), NEW o \in DOMAIN orders, NEW state \in OrderStates,
             SetState(o, state)
      PROVE  OrdersNameTheirLicense'
  <2>1. /\ DOMAIN orders' = DOMAIN orders
        /\ \A i \in DOMAIN orders : /\ orders'[i].license = orders[i].license
                                    /\ orders'[i].project = orders[i].project
                                    /\ orders'[i].device = orders[i].device
                                    /\ orders'[i].expiresAt = orders[i].expiresAt
    BY <1>2, StateSet
  <2> QED
    BY <2>1 DEF OrdersNameTheirLicense
<1> QED
  BY <1>1, <1>2

\* An order keeps its license when another one is granted.
LEMMA GrantKeepsNames ==
    ASSUME OrdersNameTheirLicense, granted \in Seq(Granted), UNCHANGED orders,
           NEW p \in Projects, NEW d \in Devices, NEW expiresAt \in Nat,
           Grant(p, d, expiresAt)
    PROVE  /\ OrdersNameTheirLicense'
           /\ granted'[Len(granted')].project = p /\ granted'[Len(granted')].device = d
           /\ \A o \in DOMAIN orders : orders[o].license # Len(granted')
<1> DEFINE new == [project |-> p, device |-> d, expiresAt |-> expiresAt]
<1>1. new \in Granted /\ granted' = Append(granted, new) /\ Len(granted) \in Nat
  BY DEF Granted, Grant
<1>2. new.project = p /\ new.device = d
  OBVIOUS
<1> HIDE DEF new
<1>3. /\ Len(granted') = Len(granted) + 1 /\ granted'[Len(granted) + 1] = new
      /\ DOMAIN granted = 1 .. Len(granted) /\ DOMAIN granted' = 1 .. Len(granted) + 1
      /\ \A i \in DOMAIN granted : granted'[i] = granted[i]
  BY <1>1
<1>4. ASSUME NEW o \in DOMAIN orders
      PROVE  /\ orders[o].license \in DOMAIN granted' /\ orders[o].license # Len(granted')
             /\ granted'[orders[o].license] = granted[orders[o].license]
  <2>1. orders[o].license \in 1 .. Len(granted)
    BY <1>3 DEF OrdersNameTheirLicense
  <2> QED
    BY <1>1, <1>3, <2>1
<1>5. OrdersNameTheirLicense'
  BY <1>4 DEF OrdersNameTheirLicense
<1> QED
  BY <1>2, <1>3, <1>4, <1>5

\* A call that ends without handing anything out.
LEMMA EndStep ==
    ASSUME HInv, UNCHANGED <<catalogVars, granted, files, orders>>, call' = Idle,
           answer' = answer \/ answer' \in [status : {"none", "unchanged", "denied"}]
    PROVE  HInv'
<1>1. TypeOK'
  BY DEF HInv, TypeOK, CatalogTypeOK, catalogVars, Answers
<1>2. CallOK'
  BY DEF CallOK, Idle
<1>3. HandedOutIsOrdered' /\ OrdersNameTheirLicense'
  BY NamesKept DEF HInv, HandedOutIsOrdered
<1> QED
  BY <1>1, <1>2, <1>3 DEF HInv

-----------------------------------------------------------------------------
(***************************************************************************)
(* The steps of a pull.                                                    *)
(***************************************************************************)

\* A pull that is refused is answered at once; the others take the last answer down.
LEMMA HandlePullStep ==
    ASSUME HInv, NEW p \in Projects, NEW d \in Devices, NEW report \in 0 .. Len(granted),
           NEW allow \in BOOLEAN, HandlePull(p, d, report, allow)
    PROVE  HInv'
<1>1. CASE ~ MayPull(p, d)
  BY <1>1, EndStep DEF HandlePull, Answer
<1>2. CASE MayPull(p, d)
  <2>1. SelfReported(p, d, report) \in 0 .. Len(granted)
    BY DEF SelfReported, HInv, TypeOK
  <2>2. /\ call' = [stage |-> "confirm", project |-> p, device |-> d,
                    report |-> SelfReported(p, d, report),
                    compatible |-> SchemaSupported \/ allow, order |-> 0]
        /\ answer' = NoAnswer /\ UNCHANGED <<catalogVars, granted, files, orders>>
    BY <1>2 DEF HandlePull
  <2>3. call' \in Call
    BY <2>1, <2>2 DEF Call, HInv, TypeOK
  <2>4. TypeOK'
    BY <2>2, <2>3 DEF HInv, TypeOK, CatalogTypeOK, catalogVars, Answers, NoAnswer, Call
  <2>5. CallOK' /\ HandedOutIsOrdered' /\ OrdersNameTheirLicense'
    BY <2>2, NamesKept DEF HInv, CallOK, HandedOutIsOrdered, NoAnswer
  <2> QED
    BY <2>4, <2>5 DEF HInv
<1> QED
  BY <1>1, <1>2

\* A call goes on to a stage that says nothing of the last order.
LEMMA StageStep ==
    ASSUME HInv, UNCHANGED <<catalogVars, granted, files, orders, answer>>,
           call.stage # "idle", NEW stage \in {"choose", "unsupport"},
           call' = [call EXCEPT !.stage = stage]
    PROVE  HInv'
<1>1. call \in Call /\ call # Idle
  BY CallFields DEF HInv, Idle
<1>2. call' \in Call /\ call'.stage = stage
  BY <1>1 DEF Call
<1>3. TypeOK'
  BY <1>2 DEF HInv, TypeOK, CatalogTypeOK, catalogVars, Call
<1>4. CallOK'
  BY <1>1, <1>2 DEF HInv, CallOK
<1>5. HandedOutIsOrdered' /\ OrdersNameTheirLicense'
  BY NamesKept DEF HInv, HandedOutIsOrdered
<1> QED
  BY <1>3, <1>4, <1>5 DEF HInv

\* The loops of a pull that set the state of one order after another.
LEMMA OrderStep ==
    ASSUME HInv, UNCHANGED <<catalogVars, granted, files, call, answer>>,
           call.stage \in {"confirm", "unsupport"},
           NEW o \in DOMAIN orders, NEW state \in OrderStates, SetState(o, state)
    PROVE  HInv'
<1>1. answer.status # "issued"
  BY DEF HInv, CallOK, Idle
<1>2. orders' \in Seq(Order) /\ Len(orders') = Len(orders)
  BY StateSet DEF HInv, TypeOK
<1>3. TypeOK'
  BY <1>2 DEF HInv, TypeOK, CatalogTypeOK, catalogVars, Call
<1>4. CallOK' /\ HandedOutIsOrdered' /\ OrdersNameTheirLicense'
  BY <1>1, NamesKept DEF HInv, TypeOK, CallOK, HandedOutIsOrdered
<1> QED
  BY <1>3, <1>4 DEF HInv

\* With nothing left to confirm the call ends, or goes on to be served or refused.
LEMMA DecideStep == ASSUME HInv, Decide PROVE HInv'
<1>1. CASE UpToDate
  BY <1>1, EndStep DEF Decide, Answer
<1>2. CASE ~ UpToDate
  <2>1. PICK stage \in {"choose", "unsupport"} : call' = [call EXCEPT !.stage = stage]
    BY <1>2 DEF Decide
  <2> QED
    BY <1>2, <2>1, StageStep DEF Decide
<1> QED
  BY <1>1, <1>2

\* A call goes on with an order of its own, whose state it may have changed.
LEMMA OrderChosen ==
    ASSUME HInv, UNCHANGED <<catalogVars, granted, files, answer>>, call.stage # "idle",
           NEW o \in DOMAIN orders, NEW state \in {"sent", "confirmed"},
           orders[o].project = call.project, orders[o].device = call.device,
           \/ UNCHANGED orders /\ orders[o].state = state
           \/ SetState(o, state),
           \/ call' = [call EXCEPT !.stage = "reply", !.order = o]
           \/ call' = [call EXCEPT !.stage = "reply"] /\ call.order = o
    PROVE  HInv'
<1>1. /\ call \in Call /\ orders \in Seq(Order) /\ state \in OrderStates
      /\ answer.status # "issued"
  BY CallFields DEF HInv, TypeOK, OrderStates, CallOK, Idle
<1>2. /\ orders' \in Seq(Order) /\ Len(orders') = Len(orders) /\ o \in DOMAIN orders'
      /\ orders'[o].project = call.project /\ orders'[o].device = call.device
      /\ orders'[o].state = state
  BY <1>1, StateSet
<1>3. o \in 0 .. Len(orders')
  BY <1>2
<1>4. /\ call' \in Call' /\ call'.stage = "reply" /\ call'.order = o
      /\ call'.project = call.project /\ call'.device = call.device
  BY <1>1, <1>2, <1>3 DEF Call
<1>5. TypeOK'
  BY <1>2, <1>4 DEF HInv, TypeOK, CatalogTypeOK, catalogVars
<1>6. CallOK' /\ HandedOutIsOrdered'
  BY <1>1, <1>2, <1>4 DEF CallOK, OrderOfCall, HandedOutIsOrdered
<1>7. OrdersNameTheirLicense'
  BY <1>1, NamesKept DEF HInv
<1> QED
  BY <1>5, <1>6, <1>7 DEF HInv

\* An order that is not over is marked sent, unless it is confirmed.
LEMMA ReuseOrderStep == ASSUME HInv, ReuseOrder PROVE HInv'
<1>1. PICK o \in Reusable(call.project, call.device, DefaultExpiry) :
        /\ IF orders[o].state = "confirmed" THEN UNCHANGED orders ELSE SetState(o, "sent")
        /\ call' = [call EXCEPT !.stage = "reply", !.order = o]
  BY DEF ReuseOrder
<1>2. /\ o \in DOMAIN orders /\ orders[o].project = call.project /\ orders[o].device = call.device
      /\ call.stage # "idle" /\ UNCHANGED <<catalogVars, granted, files, answer>>
  BY DEF Reusable, ActiveOrders, ReuseOrder
<1>3. PICK state \in {"sent", "confirmed"} :
        \/ UNCHANGED orders /\ orders[o].state = state
        \/ SetState(o, state)
  BY <1>1
<1> QED
  BY <1>1, <1>2, <1>3, OrderChosen

\* A granted license is typed, and its file is there.
LEMMA GrantTypes ==
    ASSUME TypeOK, NEW p \in Projects, NEW d \in Devices, NEW expiresAt \in Nat,
           Grant(p, d, expiresAt)
    PROVE  /\ granted' \in Seq(Granted) /\ Len(granted') = Len(granted) + 1
           /\ Len(granted) \in Nat /\ Len(granted') <= MaxLicenses
           /\ files' \subseteq DOMAIN granted'
<1>1. [project |-> p, device |-> d, expiresAt |-> expiresAt] \in Granted
  BY DEF Granted
<1>2. granted \in Seq(Granted) /\ files \subseteq DOMAIN granted /\ Len(granted) \in Nat
  BY DEF TypeOK
<1>3. granted' \in Seq(Granted) /\ Len(granted') = Len(granted) + 1
  BY <1>1, <1>2 DEF Grant
<1>4. DOMAIN granted = 1 .. Len(granted) /\ DOMAIN granted' = 1 .. Len(granted) + 1
  BY <1>2, <1>3
<1>5. files' = files \union {Len(granted) + 1}
  BY DEF Grant
<1>6. files' \subseteq DOMAIN granted'
  BY <1>2, <1>4, <1>5
<1>7. Len(granted') <= MaxLicenses
  BY <1>2, <1>3 DEF Grant
<1> QED
  BY <1>2, <1>3, <1>6, <1>7

\* The default expiry is a time.
LEMMA DefaultExpiryType == ASSUME CatalogTypeOK, CertUsable(active) PROVE DefaultExpiry \in Nat
BY DEF CatalogTypeOK, CertUsable, DefaultExpiry

\* Issuing adds a license and its file; the order comes in the next statement.
LEMMA IssueLicenseStep == ASSUME HInv, IssueLicense PROVE HInv'
<1>1. TypeOK /\ CallOK /\ call.stage = "choose" /\ Grant(call.project, call.device, DefaultExpiry)
  BY DEF HInv, IssueLicense
<1>2. /\ call \in Call /\ call.project \in Projects /\ call.device \in Devices
      /\ call.report \in 0 .. Len(granted)
  BY <1>1, CallFields
<1>3. DefaultExpiry \in Nat
  BY DefaultExpiryType DEF HInv, TypeOK, IssueLicense
<1>4. /\ granted' \in Seq(Granted) /\ Len(granted') = Len(granted) + 1
      /\ Len(granted) \in Nat /\ Len(granted') <= MaxLicenses
      /\ files' \subseteq DOMAIN granted'
  BY <1>1, <1>2, <1>3, GrantTypes
<1>5. call' = [call EXCEPT !.stage = "insert"] /\ UNCHANGED <<catalogVars, orders, answer>>
  BY DEF IssueLicense
<1>6. /\ call' \in Call' /\ call'.stage = "insert"
      /\ call'.project = call.project /\ call'.device = call.device
  <2>1. call.report \in 0 .. Len(granted')
    BY <1>2, <1>4
  <2> QED
    BY <1>2, <1>5, <2>1 DEF Call
<1>7. TypeOK'
  BY <1>1, <1>4, <1>5, <1>6 DEF TypeOK, CatalogTypeOK, catalogVars
<1>8. answer'.status # "issued"
  BY <1>1, <1>5 DEF CallOK, Idle
<1>9. /\ OrdersNameTheirLicense'
      /\ granted'[Len(granted')].project = call.project
      /\ granted'[Len(granted')].device = call.device
      /\ \A o \in DOMAIN orders : orders[o].license # Len(granted')
  BY <1>1, <1>2, <1>3, <1>5, GrantKeepsNames DEF HInv, TypeOK
<1>10. IssuedForCall'
  BY <1>4, <1>5, <1>6, <1>9 DEF IssuedForCall
<1>11. CallOK' /\ HandedOutIsOrdered'
  BY <1>6, <1>8, <1>10 DEF CallOK, HandedOutIsOrdered
<1> QED
  BY <1>7, <1>9, <1>11 DEF HInv

\* The order inserted names the license granted last, which no other order names.
LEMMA InsertOrderStep == ASSUME HInv, InsertOrder PROVE HInv'
<1> DEFINE new == granted[Len(granted)]
           order == [license |-> Len(granted), project |-> call.project,
                     device |-> call.device, expiresAt |-> new.expiresAt,
                     state |-> "generated"]
<1>1. CASE ActiveOrders(call.project, call.device, new.expiresAt) # {}
  BY <1>1, EndStep DEF InsertOrder, Throw, Answer
<1>2. CASE ActiveOrders(call.project, call.device, new.expiresAt) = {}
  <2>1. /\ orders' = Append(orders, order)
        /\ call' = [call EXCEPT !.stage = "send", !.order = Len(orders) + 1]
        /\ UNCHANGED <<catalogVars, granted, files, answer>>
    BY <1>2 DEF InsertOrder
  <2>2. TypeOK /\ CallOK /\ call.stage = "insert" /\ IssuedForCall /\ OrdersNameTheirLicense
    BY DEF HInv, InsertOrder, CallOK
  <2>3. /\ call \in Call /\ call.project \in Projects /\ call.device \in Devices
        /\ Len(granted) \in Nat /\ Len(granted) > 0
    BY <2>2, CallFields DEF IssuedForCall
  <2>4. granted \in Seq(Granted) /\ orders \in Seq(Order) /\ Len(granted) <= MaxLicenses
    BY <2>2 DEF TypeOK
  <2>5. /\ new \in Granted /\ new.expiresAt \in Nat
        /\ new = [project |-> call.project, device |-> call.device, expiresAt |-> new.expiresAt]
    <3>1. new \in Granted
      BY <2>3, <2>4
    <3>2. new.project = call.project /\ new.device = call.device
      BY <2>2 DEF IssuedForCall
    <3> QED
      BY <3>1, <3>2 DEF Granted
  <2>6. order \in Order
    BY <2>3, <2>4, <2>5 DEF Order, OrderStates
  <2>7. /\ order.license = Len(granted) /\ order.project = call.project
        /\ order.device = call.device /\ order.expiresAt = new.expiresAt
        /\ order.state = "generated"
    OBVIOUS
  <2> HIDE DEF order
  <2>8. /\ orders' \in Seq(Order) /\ Len(orders') = Len(orders) + 1 /\ Len(orders) \in Nat
        /\ DOMAIN orders' = DOMAIN orders \union {Len(orders) + 1}
        /\ orders'[Len(orders) + 1] = order
        /\ \A i \in DOMAIN orders : orders'[i] = orders[i]
    BY <2>1, <2>4, <2>6
  <2>9. Len(orders) + 1 \in 0 .. Len(orders') /\ Len(orders) \in Nat
    BY <2>8
  <2>10. /\ call' \in Call' /\ call'.stage = "send" /\ call'.project = call.project
         /\ call'.device = call.device /\ call'.order = Len(orders) + 1
    BY <2>1, <2>3, <2>9 DEF Call
  <2>11. TypeOK'
    BY <2>1, <2>2, <2>8, <2>10 DEF TypeOK, CatalogTypeOK, catalogVars
  <2>12. answer'.status # "issued"
    BY <2>1, <2>2 DEF CallOK, Idle
  <2>13. OrderOfCall({"generated"})'
    BY <2>7, <2>8, <2>10 DEF OrderOfCall
  <2>14. CallOK' /\ HandedOutIsOrdered'
    BY <2>10, <2>12, <2>13 DEF CallOK, HandedOutIsOrdered
  <2>15. OrdersNameTheirLicense'
    <3>1. ASSUME NEW i \in DOMAIN orders'
          PROVE  /\ orders'[i].license \in DOMAIN granted
                 /\ granted[orders'[i].license] = [project |-> orders'[i].project,
                                                  device |-> orders'[i].device,
                                                  expiresAt |-> orders'[i].expiresAt]
      <4>1. CASE i \in DOMAIN orders
        BY <2>2, <2>8, <4>1 DEF OrdersNameTheirLicense
      <4>2. CASE i = Len(orders) + 1
        <5>1. orders'[i] = order
          BY <2>8, <4>2
        <5>2. Len(granted) \in DOMAIN granted
          BY <2>3, <2>4
        <5> HIDE DEF new
        <5>3. granted[Len(granted)] = new
          BY DEF new
        <5> QED
          BY <2>5, <2>7, <5>1, <5>2, <5>3
      <4> QED
        BY <2>8, <4>1, <4>2
    <3>2. ASSUME NEW i \in DOMAIN orders', NEW j \in DOMAIN orders',
                 orders'[i].license = orders'[j].license
          PROVE  i = j
      <4>1. \A k \in DOMAIN orders : orders'[k].license # Len(granted)
        BY <2>2, <2>8 DEF IssuedForCall
      <4>2. orders'[Len(orders) + 1].license = Len(granted)
        BY <2>7, <2>8
      <4> QED
        BY <2>2, <2>8, <3>2, <4>1, <4>2 DEF OrdersNameTheirLicense
    <3> QED
      BY <2>1, <3>1, <3>2 DEF OrdersNameTheirLicense
  <2> QED
    BY <2>11, <2>14, <2>15 DEF HInv
<1> QED
  BY <1>1, <1>2

\* The order is marked sent before anything is handed out.
LEMMA MarkSentStep == ASSUME HInv, MarkSent PROVE HInv'
<1>1. /\ call.stage = "send" /\ OrderOfCall({"generated"}) /\ SetState(call.order, "sent")
      /\ call' = [call EXCEPT !.stage = "reply"]
      /\ UNCHANGED <<catalogVars, granted, files, answer>>
  BY DEF HInv, MarkSent, CallOK
<1>2. /\ call.order \in DOMAIN orders /\ orders[call.order].project = call.project
      /\ orders[call.order].device = call.device
  BY <1>1 DEF OrderOfCall
<1> QED
  BY <1>1, <1>2, OrderChosen

\* What goes out is the license of that order.
LEMMA ReplyStep == ASSUME HInv, Reply PROVE HInv'
<1> DEFINE o == call.order
<1>1. /\ TypeOK /\ CallOK /\ call.stage = "reply" /\ HandOut(orders[o].license)
      /\ UNCHANGED <<catalogVars, granted, files, orders>>
  BY DEF HInv, Reply
<1>2. /\ o \in DOMAIN orders /\ orders[o].project = call.project
      /\ orders[o].device = call.device /\ orders[o].state \in {"sent", "confirmed"}
  BY <1>1 DEF CallOK, OrderOfCall
<1>3. call.project \in Projects /\ call.device \in Devices
  BY <1>1, CallFields
<1>4. orders[o].license \in LicenseIds
  <2>1. orders[o] \in Order
    BY <1>1, <1>2 DEF TypeOK
  <2> QED
    BY <2>1 DEF Order
<1> HIDE DEF o
<1>5. /\ answer' = [status |-> "issued", license |-> orders[o].license,
                    device |-> call.device, project |-> call.project]
      /\ call' = Idle
  BY <1>1 DEF HandOut
<1>6. TypeOK'
  BY <1>1, <1>3, <1>4, <1>5 DEF TypeOK, CatalogTypeOK, catalogVars, Answers
<1>7. CallOK'
  BY <1>5 DEF CallOK, Idle
<1>8. HandedOutIsOrdered'
  BY <1>1, <1>2, <1>5 DEF HandedOutIsOrdered
<1>9. OrdersNameTheirLicense'
  BY <1>1, NamesKept DEF HInv
<1> QED
  BY <1>6, <1>7, <1>8, <1>9 DEF HInv

-----------------------------------------------------------------------------
(***************************************************************************)
(* The other steps.                                                        *)
(***************************************************************************)

\* Between pulls the operator may issue too: no order is touched.
LEMMA OperatorIssuesStep ==
    ASSUME HInv, NEW p \in Projects, NEW d \in Devices, NEW e \in Nat, OperatorIssues(p, d, e)
    PROVE  HInv'
<1>1. /\ TypeOK /\ Grant(p, d, e) /\ call = Idle
      /\ UNCHANGED <<catalogVars, orders, call, answer>>
  BY DEF HInv, OperatorIssues
<1>2. /\ granted' \in Seq(Granted) /\ Len(granted') <= MaxLicenses
      /\ files' \subseteq DOMAIN granted'
  BY <1>1, GrantTypes
<1>3. TypeOK'
  BY <1>1, <1>2 DEF TypeOK, CatalogTypeOK, catalogVars
<1>4. CallOK' /\ HandedOutIsOrdered'
  BY <1>1 DEF HInv, CallOK, HandedOutIsOrdered, Idle
<1>5. OrdersNameTheirLicense'
  BY <1>1, GrantKeepsNames DEF HInv, TypeOK
<1> QED
  BY <1>3, <1>4, <1>5 DEF HInv

\* A file that goes away takes no order with it.
LEMMA FileRemovedStep == ASSUME HInv, FileRemoved PROVE HInv'
<1>1. files' \subseteq files /\ UNCHANGED <<catalogVars, granted, orders, call, answer>>
  BY DEF FileRemoved
<1>2. TypeOK'
  BY <1>1 DEF HInv, TypeOK, CatalogTypeOK, catalogVars, Call
<1>3. CallOK' /\ HandedOutIsOrdered' /\ OrdersNameTheirLicense'
  BY <1>1, NamesKept DEF HInv, CallOK, HandedOutIsOrdered, IssuedForCall, OrderOfCall
<1> QED
  BY <1>2, <1>3 DEF HInv

\* Operations on the catalog and the clock leave deliveries alone.
LEMMA CatalogOnlyStep ==
    ASSUME HInv, CatalogNext \/ UNCHANGED catalogVars, UNCHANGED deliveryVars
    PROVE  HInv'
<1>1. CatalogTypeOK'
  <2>1. CASE CatalogNext
    BY <2>1, CatalogTypes DEF HInv, TypeOK
  <2>2. CASE UNCHANGED catalogVars
    BY <2>2 DEF HInv, TypeOK, CatalogTypeOK, catalogVars
  <2> QED
    BY <2>1, <2>2
<1>2. UNCHANGED <<granted, files, orders, call, answer>>
  BY DEF deliveryVars
<1>3. TypeOK'
  BY <1>1, <1>2 DEF HInv, TypeOK, Call
<1>4. CallOK' /\ HandedOutIsOrdered' /\ OrdersNameTheirLicense'
  BY <1>2, NamesKept DEF HInv, CallOK, HandedOutIsOrdered, IssuedForCall, OrderOfCall
<1> QED
  BY <1>3, <1>4 DEF HInv

-----------------------------------------------------------------------------
(***************************************************************************)
(* The invariant is inductive.                                             *)
(***************************************************************************)

\* HInv is preserved by every step.
LEMMA NextHInv == HInv /\ [Next]_vars => HInv'
<1> SUFFICES ASSUME HInv, [Next]_vars PROVE HInv'
  OBVIOUS
<1>1. ASSUME NEW p \in Projects, NEW d \in Devices, NEW report \in 0 .. Len(granted),
             NEW allow \in BOOLEAN, HandlePull(p, d, report, allow)
      PROVE  HInv'
  BY <1>1, HandlePullStep
<1>2. CASE ConfirmSentOrder
  <2>1. PICK o \in DOMAIN orders : SetState(o, "confirmed")
    BY <1>2 DEF ConfirmSentOrder, ToConfirm, OrdersIn
  <2>2. "confirmed" \in OrderStates
    BY DEF OrderStates
  <2> QED
    BY <1>2, <2>1, <2>2, OrderStep DEF ConfirmSentOrder
<1>3. CASE MarkUnsupported
  <2>1. PICK o \in DOMAIN orders : SetState(o, "unsupported")
    BY <1>3 DEF MarkUnsupported, Unsent, OrdersIn
  <2>2. "unsupported" \in OrderStates
    BY DEF OrderStates
  <2> QED
    BY <1>3, <2>1, <2>2, OrderStep DEF MarkUnsupported
<1>4. CASE RefuseSchema \/ IssueRefused \/ StatementFails \/ Crash
  BY <1>4, EndStep DEF RefuseSchema, IssueRefused, StatementFails, Throw, Answer, Crash
<1>5. ASSUME NEW p \in Projects, NEW d \in Devices, NEW e \in 1 .. MaxTime + DefaultValidity,
             OperatorIssues(p, d, e)
      PROVE  HInv'
  BY <1>5, OperatorIssuesStep
<1>6. CASE Operate \/ PassTime
  BY <1>6, CatalogOnlyStep DEF Operate, PassTime, CatalogNext
<1>7. CASE UNCHANGED vars
  BY <1>7, CatalogOnlyStep DEF vars
<1> QED
  BY <1>1, <1>2, <1>3, <1>4, <1>5, <1>6, <1>7, DecideStep, ReuseOrderStep, IssueLicenseStep,
     InsertOrderStep, MarkSentStep, ReplyStep, FileRemovedStep DEF Next, PullStep

\* HInv holds in every reachable state.
LEMMA HInvHolds == Spec => []HInv
BY InitHInv, NextHInv, PTL DEF Spec

-----------------------------------------------------------------------------
(***************************************************************************)
(* The properties.                                                         *)
(***************************************************************************)

\* Every variable stays inside its type, whatever pulls, operator and clock do; with it,
\* a file is only ever in the directory for a license that was granted.
THEOREM DeliveryTypes == Spec => []TypeOK
<1>1. HInv => TypeOK
  BY DEF HInv
<1> QED
  BY <1>1, HInvHolds, PTL

\* No license goes out without an order of that device which was marked sent first, for
\* any number of devices, orders and pulls, failing or crashing anywhere
\* (delivery.ts:119-196).
THEOREM HandedOutWasOrdered == Spec => []HandedOutIsOrdered
<1>1. HInv => HandedOutIsOrdered
  BY DEF HInv
<1> QED
  BY <1>1, HInvHolds, PTL

\* Every order names a license that was granted to its own device with its own expiry, and
\* no license has two orders, for any number of each, whatever fails, crashes or is removed
\* between the transactions of a pull (delivery.ts:158-189).
THEOREM OrdersNameLicenses == Spec => []OrdersNameTheirLicense
<1>1. HInv => OrdersNameTheirLicense
  BY DEF HInv
<1> QED
  BY <1>1, HInvHolds, PTL

\* What a single change of state may do to one order.
LEMMA MoveOfOne ==
    ASSUME HInv, NEW o \in DOMAIN orders, NEW state \in OrderStates, SetState(o, state),
           orders[o].state # state => /\ state \in AllowedTransitions[orders[o].state]
                                      /\ state = "confirmed" => call.report = orders[o].license,
           NEW i \in DOMAIN orders, orders[i].state # orders'[i].state
    PROVE  /\ orders'[i].state \in AllowedTransitions[orders[i].state]
           /\ orders'[i].state = "confirmed" => call.report = orders[i].license
<1>1. orders \in Seq(Order)
  BY DEF HInv, TypeOK
<1>2. /\ orders'[o].state = state
      /\ \A j \in DOMAIN orders : j # o => orders'[j] = orders[j]
  BY <1>1, StateSet
<1> QED
  BY <1>2

\* Only these steps touch an order.
LEMMA OrdersOnlyThere ==
    ASSUME [Next]_vars
    PROVE  \/ UNCHANGED orders
           \/ ConfirmSentOrder \/ MarkUnsupported \/ ReuseOrder \/ InsertOrder \/ MarkSent
BY DEF Next, PullStep, vars, deliveryVars, HandlePull, Decide, RefuseSchema, IssueLicense,
   IssueRefused, Reply, StatementFails, Crash, OperatorIssues, FileRemoved, Operate, PassTime

\* Each of them moves its order along the table.
LEMMA OrderMoves ==
    ASSUME HInv, [Next]_vars, NEW i \in DOMAIN orders, orders[i].state # orders'[i].state
    PROVE  /\ orders'[i].state \in AllowedTransitions[orders[i].state]
           /\ orders'[i].state = "confirmed" => call.report = orders[i].license
<1>1. CASE ConfirmSentOrder
  <2>1. PICK o \in ToConfirm : SetState(o, "confirmed")
    BY <1>1 DEF ConfirmSentOrder
  <2>2. o \in DOMAIN orders /\ orders[o].state = "sent" /\ orders[o].license = call.report
    BY <2>1 DEF ToConfirm, OrdersIn
  <2> QED
    BY <2>1, <2>2, MoveOfOne DEF OrderStates, AllowedTransitions
<1>2. CASE MarkUnsupported
  <2>1. PICK o \in Unsent : SetState(o, "unsupported")
    BY <1>2 DEF MarkUnsupported
  <2>2. o \in DOMAIN orders /\ orders[o].state \in {"sent", "queued", "generated"}
    BY <2>1 DEF Unsent, OrdersIn
  <2> QED
    BY <2>1, <2>2, MoveOfOne DEF OrderStates, AllowedTransitions
<1>3. CASE ReuseOrder
  <2>1. PICK o \in Reusable(call.project, call.device, DefaultExpiry) :
          IF orders[o].state = "confirmed" THEN UNCHANGED orders ELSE SetState(o, "sent")
    BY <1>3 DEF ReuseOrder
  <2>2. o \in DOMAIN orders /\ orders[o].state \in ActiveStates
    BY <2>1 DEF Reusable, ActiveOrders
  <2>3. SetState(o, "sent") /\ orders[o].state \in {"generated", "queued", "sent"}
    BY <2>1, <2>2 DEF ActiveStates
  <2> QED
    BY <2>2, <2>3, MoveOfOne DEF OrderStates, AllowedTransitions
<1>4. CASE InsertOrder
  <2>1. orders \in Seq(Order)
    BY DEF HInv, TypeOK
  <2>2. orders' = orders \/ \E new : orders' = Append(orders, new)
    BY <1>4 DEF InsertOrder
  <2>3. ASSUME NEW new, orders' = Append(orders, new) PROVE orders'[i] = orders[i]
    <3>1. orders \in Seq(Order \union {new}) /\ new \in Order \union {new}
      BY <2>1
    <3> QED
      BY <2>3, <3>1
  <2> QED
    BY <2>2, <2>3
<1>5. CASE MarkSent
  <2>1. SetState(call.order, "sent") /\ OrderOfCall({"generated"})
    BY <1>5 DEF MarkSent, HInv, CallOK
  <2>2. call.order \in DOMAIN orders /\ orders[call.order].state = "generated"
    BY <2>1 DEF OrderOfCall
  <2>3. "sent" \in OrderStates /\ "sent" \in AllowedTransitions["generated"]
    BY DEF OrderStates, AllowedTransitions
  <2> QED
    BY <2>1, <2>2, <2>3, MoveOfOne
<1> QED
  BY <1>1, <1>2, <1>3, <1>4, <1>5, OrdersOnlyThere

\* Orders only move along ALLOWED_TRANSITIONS, and only a pull that reports the license
\* confirms one (delivery-state.ts:11-19, delivery.ts:76-102).
THEOREM OrdersMoveOnlySo == Spec => OrdersMoveAsAllowed
<1>1. HInv /\ [Next]_vars =>
        [ \A o \in DOMAIN orders :
            LET from == orders[o].state
                to == orders'[o].state
            IN  from # to => /\ to \in AllowedTransitions[from]
                             /\ to = "confirmed" => call.report = orders[o].license ]_vars
  BY OrderMoves
<1> QED
  BY <1>1, HInvHolds, PTL DEF Spec, OrdersMoveAsAllowed
=============================================================================
