----------------------------- MODULE HubDelivery ----------------------------
(***************************************************************************)
(* What the console does with a game's pull: answer that it is up to date, *)
(* hand out the license of an order that exists, issue a new one with its  *)
(* order, or refuse.  Translated from                                      *)
(*   desktop/src/core/services/{delivery,delivery-state}.ts and the order  *)
(*   functions of desktop/src/core/db/repositories.ts.                     *)
(*                                                                         *)
(* A pull is one synchronous call of several statements, each its own      *)
(* transaction; any of them can throw (the server then answers an error)   *)
(* and the process can die between two.  Issuing is one step, which is     *)
(* what AtomicIssue promises and Issuance keeps.  Nothing a request says   *)
(* is trusted, so what it reports is any license or none.                  *)
(*                                                                         *)
(* Left out: the attempts counter, the times of an order, the log of       *)
(* requests and the limit of 200 orders looked through per pull.           *)
(***************************************************************************)
EXTENDS Catalog, Sequences

CONSTANTS
    DefaultValidity,   \* DEFAULT_VALIDITY_DAYS
    MaxLicenses,       \* bound on the licenses granted
    SchemaSupported    \* isClientSchemaSupported()

ASSUME DeliveryConstants ==
    /\ DefaultValidity \in Nat \ {0} /\ MaxLicenses \in Nat
    /\ SchemaSupported \in BOOLEAN

VARIABLES
    granted,   \* every license with a written record, oldest first; an index is its id
    files,     \* the licenses whose file is in the licenses directory
    orders,    \* table delivery_orders, oldest first
    call,      \* the pull in progress and where it stands
    answer     \* the last answer sent to a game

deliveryVars == <<granted, files, orders, call, answer>>
vars == <<catalogVars, deliveryVars>>

LicenseIds == 1 .. MaxLicenses

Granted == [project : Projects, device : Devices, expiresAt : Nat]

OrderStates ==
    {"generated", "queued", "sent", "confirmed", "failed", "timeout", "denied", "unsupported"}

Order == [license : LicenseIds, project : Projects, device : Devices,
          expiresAt : Nat, state : OrderStates]

\* delivery_orders_active_unique and findActiveDeliveryOrder
ActiveStates == {"generated", "queued", "sent", "confirmed"}

\* ALLOWED_TRANSITIONS
AllowedTransitions ==
    [generated   |-> {"queued", "sent", "failed", "denied", "unsupported"},
     queued      |-> {"sent", "timeout", "failed", "denied", "unsupported"},
     sent        |-> {"confirmed", "timeout", "failed", "unsupported"},
     confirmed   |-> {},
     failed      |-> {"queued", "unsupported"},
     timeout     |-> {"queued", "unsupported"},
     denied      |-> {},
     unsupported |-> {}]

Idle == [stage |-> "idle"]

\* What a call knows: the pull it serves, the license the game reported, whether it may be
\* served whatever schema it speaks, and the order it is to be answered with.
Call ==
    [stage : {"confirm", "unsupport", "choose", "insert", "send", "reply"},
     project : Projects, device : Devices,
     report : 0 .. Len(granted), compatible : BOOLEAN, order : 0 .. Len(orders)]

NoAnswer == [status |-> "none"]

Answers ==
    [status : {"none", "unchanged", "denied"}]
    \union [status : {"issued"}, license : LicenseIds, device : Devices, project : Projects]

TypeOK ==
    /\ CatalogTypeOK
    /\ granted \in Seq(Granted) /\ Len(granted) <= MaxLicenses
    /\ files \subseteq DOMAIN granted
    /\ orders \in Seq(Order)
    /\ call \in Call \union {Idle}
    /\ answer \in Answers

Init ==
    /\ CatalogInit
    /\ granted = <<>> /\ files = {}
    /\ orders = <<>>
    /\ call = Idle
    /\ answer = NoAnswer

-----------------------------------------------------------------------------
\* Reading the tables

\* findCurrentLicense: every grant supersedes the one before.
CurrentLicense(p, d) ==
    LET own == {i \in DOMAIN granted : granted[i].project = p /\ granted[i].device = d}
    IN  IF own = {} THEN 0 ELSE CHOOSE i \in own : \A j \in own : j <= i

DefaultExpiry ==
    IF now + DefaultValidity < CertExpires[active]
    THEN now + DefaultValidity ELSE CertExpires[active]

\* The active orders of the same project, device, kind and expiry; every order is an 'issue'.
ActiveOrders(p, d, expiresAt) ==
    {o \in DOMAIN orders : /\ orders[o].project = p /\ orders[o].device = d
                           /\ orders[o].expiresAt = expiresAt
                           /\ orders[o].state \in ActiveStates}

Reusable(p, d, expiresAt) == {o \in ActiveOrders(p, d, expiresAt) : orders[o].license \in files}

OrdersIn(p, d, states) ==
    {o \in DOMAIN orders :
        orders[o].project = p /\ orders[o].device = d /\ orders[o].state \in states}

\* resolveSelfReported: a license unknown here or of another device is ignored.
SelfReported(p, d, report) ==
    IF report # 0 /\ granted[report].project = p /\ granted[report].device = d
    THEN report ELSE 0

\* The checks every pull starts with.
MayPull(p, d) ==
    /\ Bound(p, d)
    /\ CertUsable(active)
    /\ p \in CertScope[active]
    /\ WithinQuota(active)

-----------------------------------------------------------------------------
\* A pull

Answer(status) == answer' = [status |-> status] /\ call' = Idle

HandOut(license) ==
    /\ answer' = [status |-> "issued", license |-> license, device |-> call.device,
                  project |-> call.project]
    /\ call' = Idle

Throw == Answer("denied")

SetState(o, state) == orders' = [orders EXCEPT ![o].state = state]

\* allow is allowIncompatibleSchema, which only the console's own checks set.
HandlePull(p, d, report, allow) ==
    /\ call = Idle
    /\ IF MayPull(p, d)
       THEN /\ call' = [stage |-> "confirm", project |-> p, device |-> d,
                        report |-> SelfReported(p, d, report),
                        compatible |-> SchemaSupported \/ allow, order |-> 0]
            /\ answer' = NoAnswer
       ELSE Answer("denied")
    /\ UNCHANGED <<catalogVars, granted, files, orders>>

ToConfirm ==
    IF call.report = 0 THEN {}
    ELSE {o \in OrdersIn(call.project, call.device, {"sent"}) : orders[o].license = call.report}

\* Mutant of ConfirmSentOrder: every order that was sent counts as installed.
ConfirmAnySentOrder ==
    /\ call.stage = "confirm"
    /\ \E o \in OrdersIn(call.project, call.device, {"sent"}) : SetState(o, "confirmed")
    /\ UNCHANGED <<catalogVars, granted, files, call, answer>>

ConfirmSentOrder ==
    /\ call.stage = "confirm"
    /\ \E o \in ToConfirm : SetState(o, "confirmed")
    /\ UNCHANGED <<catalogVars, granted, files, call, answer>>

UpToDate ==
    /\ call.report # 0
    /\ call.report = CurrentLicense(call.project, call.device)
    /\ granted[call.report].expiresAt > now

\* With every order confirmed: up to date, or refused for the schema, or to be served.
Decide ==
    /\ call.stage = "confirm"
    /\ ToConfirm = {}
    /\ IF UpToDate
       THEN Answer("unchanged")
       ELSE /\ call' = [call EXCEPT !.stage = IF call.compatible THEN "choose" ELSE "unsupport"]
            /\ UNCHANGED answer
    /\ UNCHANGED <<catalogVars, granted, files, orders>>

Unsent == OrdersIn(call.project, call.device, {"sent", "queued", "generated"})

MarkUnsupported ==
    /\ call.stage = "unsupport"
    /\ \E o \in Unsent : SetState(o, "unsupported")
    /\ UNCHANGED <<catalogVars, granted, files, call, answer>>

RefuseSchema ==
    /\ call.stage = "unsupport"
    /\ Unsent = {}
    /\ Answer("denied")
    /\ UNCHANGED <<catalogVars, granted, files, orders>>

\* The license of an order that is not over is handed out again: marked sent, unless it
\* is confirmed, then read and answered by Reply.
ReuseOrder ==
    /\ call.stage = "choose" /\ CertUsable(active)
    /\ \E o \in Reusable(call.project, call.device, DefaultExpiry) :
         /\ IF orders[o].state = "confirmed" THEN UNCHANGED orders ELSE SetState(o, "sent")
         /\ call' = [call EXCEPT !.stage = "reply", !.order = o]
    /\ UNCHANGED <<catalogVars, granted, files, answer>>

\* Mutant of Grant: the file is written under the number of the next license.
GrantWrongFile(p, d, expiresAt) ==
    /\ Len(granted) < MaxLicenses
    /\ granted' = Append(granted, [project |-> p, device |-> d, expiresAt |-> expiresAt])
    /\ files' = files \union {Len(granted) + 2}

Grant(p, d, expiresAt) ==
    /\ Len(granted) < MaxLicenses
    /\ granted' = Append(granted, [project |-> p, device |-> d, expiresAt |-> expiresAt])
    /\ files' = files \union {Len(granted) + 1}

\* issueLicense has its checks again, and the delegated key.
MayIssue(p, d) == MayPull(p, d) /\ KeyMatches(active)

IssueLicense ==
    /\ call.stage = "choose" /\ CertUsable(active)
    /\ Reusable(call.project, call.device, DefaultExpiry) = {}
    /\ MayIssue(call.project, call.device)
    /\ Grant(call.project, call.device, DefaultExpiry)
    /\ call' = [call EXCEPT !.stage = "insert"]
    /\ UNCHANGED <<catalogVars, orders, answer>>

IssueRefused ==
    /\ call.stage = "choose"
    /\ Answer("denied")
    /\ UNCHANGED <<catalogVars, granted, files, orders>>

\* Mutant of InsertOrder: the order's expiry is worked out again, by the clock of now.
InsertOrderAnew ==
    /\ call.stage = "insert"
    /\ CertUsable(active)
    /\ ActiveOrders(call.project, call.device, DefaultExpiry) = {}
    /\ orders' = Append(orders, [license |-> Len(granted), project |-> call.project,
                                 device |-> call.device, expiresAt |-> DefaultExpiry,
                                 state |-> "generated"])
    /\ call' = [call EXCEPT !.stage = "send", !.order = Len(orders) + 1]
    /\ UNCHANGED <<catalogVars, granted, files, answer>>

\* insertDeliveryOrder, which delivery_orders_active_unique refuses when an order with
\* the same key is still active.
InsertOrder ==
    /\ call.stage = "insert"
    /\ LET new == granted[Len(granted)] IN
       IF ActiveOrders(call.project, call.device, new.expiresAt) = {}
       THEN /\ orders' = Append(orders, [license |-> Len(granted), project |-> call.project,
                                         device |-> call.device, expiresAt |-> new.expiresAt,
                                         state |-> "generated"])
            /\ call' = [call EXCEPT !.stage = "send", !.order = Len(orders) + 1]
            /\ UNCHANGED answer
       ELSE Throw /\ UNCHANGED orders
    /\ UNCHANGED <<catalogVars, granted, files>>

\* Mutant of MarkSent: the answer goes out first.
ReplyBeforeSent ==
    /\ call.stage = "send"
    /\ HandOut(orders[call.order].license)
    /\ UNCHANGED <<catalogVars, granted, files, orders>>

MarkSent ==
    /\ call.stage = "send"
    /\ SetState(call.order, "sent")
    /\ call' = [call EXCEPT !.stage = "reply"]
    /\ UNCHANGED <<catalogVars, granted, files, answer>>

\* The file is read and the pull logged; either may throw (StatementFails), with the
\* order marked sent already.
Reply ==
    /\ call.stage = "reply"
    /\ orders[call.order].license \in files
    /\ HandOut(orders[call.order].license)
    /\ UNCHANGED <<catalogVars, granted, files, orders>>

\* Mutant of StatementFails: the call is tried again from its last statement.
StatementRetried ==
    /\ call.stage # "idle"
    /\ UNCHANGED vars

\* A statement, the clock's certificate or the license file fails: the exception
\* leaves handlePull and the server answers server_error.
StatementFails ==
    /\ call.stage # "idle"
    /\ Throw
    /\ UNCHANGED <<catalogVars, granted, files, orders>>

-----------------------------------------------------------------------------
\* Everything else

Crash ==
    /\ call.stage # "idle"
    /\ call' = Idle
    /\ UNCHANGED <<catalogVars, granted, files, orders, answer>>

\* The operator issues by hand (default or given expiry), between pulls.
OperatorIssues(p, d, expiresAt) ==
    /\ call = Idle
    /\ MayIssue(p, d)
    /\ now < expiresAt /\ expiresAt <= CertExpires[active]
    /\ Grant(p, d, expiresAt)
    /\ UNCHANGED <<catalogVars, orders, call, answer>>

\* Someone removes a license file; the code reckons with it (files.exists).
FileRemoved ==
    /\ \E i \in files : files' = files \ {i}
    /\ UNCHANGED <<catalogVars, granted, orders, call, answer>>

Operate == call = Idle /\ CatalogOperation /\ UNCHANGED deliveryVars

PassTime == Tick /\ UNCHANGED deliveryVars

PullStep ==
    \/ ConfirmSentOrder \/ Decide \/ MarkUnsupported \/ RefuseSchema \/ ReuseOrder
    \/ IssueLicense \/ IssueRefused \/ InsertOrder \/ MarkSent \/ Reply \/ StatementFails

Next ==
    \/ \E p \in Projects, d \in Devices, report \in 0 .. Len(granted), allow \in BOOLEAN :
          HandlePull(p, d, report, allow)
    \/ PullStep
    \/ \E p \in Projects, d \in Devices, e \in 1 .. MaxTime + DefaultValidity :
          OperatorIssues(p, d, e)
    \/ Crash \/ FileRemoved \/ Operate \/ PassTime

Spec == Init /\ [][Next]_vars

\* A pull is synchronous code: it goes on until it returns or the process dies.
FairSpec == Spec /\ WF_vars(PullStep)

-----------------------------------------------------------------------------
\* Properties

\* What a game is handed is the license of an order of that device, and that order was
\* marked sent (or confirmed) before the answer left, whatever failed or crashed in
\* earlier pulls (delivery.ts:139-196).
HandedOutIsOrdered ==
    answer.status = "issued" =>
        \E o \in DOMAIN orders :
            /\ orders[o].license = answer.license
            /\ orders[o].project = answer.project /\ orders[o].device = answer.device
            /\ orders[o].state \in {"sent", "confirmed"}

\* Issuing and the order are transactions of their own, with the clock running, files
\* removed and crashes between them: still an order names a granted license of its own
\* device, with the expiry that license has, and no two orders name the same one
\* (delivery.ts:158-189).
OrdersNameTheirLicense ==
    /\ \A o \in DOMAIN orders :
         /\ orders[o].license \in DOMAIN granted
         /\ granted[orders[o].license] = [project |-> orders[o].project,
                                         device |-> orders[o].device,
                                         expiresAt |-> orders[o].expiresAt]
    /\ \A o, q \in DOMAIN orders : orders[o].license = orders[q].license => o = q

\* What is handed out stays with its order: the strengthening the properties around it
\* need to be inductive (proved in HubDeliveryProofs).
OrderOfCall(states) ==
    /\ call.order \in DOMAIN orders
    /\ orders[call.order].project = call.project /\ orders[call.order].device = call.device
    /\ orders[call.order].state \in states

\* The license just issued, which no order names yet.
IssuedForCall ==
    /\ Len(granted) > 0
    /\ granted[Len(granted)].project = call.project
    /\ granted[Len(granted)].device = call.device
    /\ \A o \in DOMAIN orders : orders[o].license # Len(granted)

CallOK ==
    /\ answer.status = "issued" => call = Idle
    /\ call.stage = "insert" => IssuedForCall
    /\ call.stage = "send" => OrderOfCall({"generated"})
    /\ call.stage = "reply" => OrderOfCall({"sent", "confirmed"})

\* delivery-state.ts:11-19: an order only moves along the table, is confirmed only by a
\* pull that reports its license, and stays confirmed.
OrdersMoveAsAllowed ==
    [][ \A o \in DOMAIN orders :
          LET from == orders[o].state
              to == orders'[o].state
          IN  from # to => /\ to \in AllowedTransitions[from]
                           /\ to = "confirmed" => call.report = orders[o].license ]_vars

\* A pull comes to an end.
PullEnds == call.stage # "idle" ~> call.stage = "idle"

\* migrations.ts:136-137 and repositories.ts:567: for one device, kind and expiry a
\* repeated request must reuse the active order; nothing is issued a second time.
NoSecondIssue ==
    [][ (call.stage = "choose" /\ Len(granted') > Len(granted)) =>
          ActiveOrders(call.project, call.device, granted'[Len(granted')].expiresAt) = {} ]_vars
=============================================================================
