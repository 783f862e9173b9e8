------------------------------ MODULE Catalog ------------------------------
(***************************************************************************)
(* What the desktop console (P1) knows before it signs anything: projects, *)
(* device registrations, the vendor's control certificates and the        *)
(* delegated signing key.  Translated from                                 *)
(*   desktop/src/core/services/{catalog,control,key-admin}.ts and the      *)
(*   repository functions they call in core/db/repositories.ts.            *)
(*                                                                         *)
(* A service call is synchronous and its database part is one transaction, *)
(* so each operation is one action.  Names, reasons and registration times *)
(* are left out, and so is the vendor public key: a build that has none    *)
(* refuses every operation that needs a certificate (control.ts:179-187).  *)
(***************************************************************************)
EXTENDS Integers, FiniteSets

CONSTANTS
    Projects,      \* project ids an operator may create
    Devices,       \* device ids
    Certs,         \* license ids of the control certificates the vendor signed
    Keys,          \* delegated RSA key pairs
    CertScope,     \* project_ids of a certificate; ["*"] is the set Projects
    CertMax,       \* max_devices
    CertIssued,    \* issued_at
    CertExpires,   \* expires_at
    CertKey,       \* delegated_public_key
    Skew,          \* CLOCK_SKEW_MS
    MaxAhead,      \* the 100 years assertTimeWindow lets a window reach ahead
    MaxTime,       \* bound on the clock
    NoCert, NoKey

\* What a signed certificate can say: payloads.ts refuses expires_at <= issued_at
\* and a max_devices below 1.
ASSUME CatalogConstants ==
    /\ IsFiniteSet(Projects) /\ IsFiniteSet(Devices)
    /\ NoCert \notin Certs /\ NoKey \notin Keys
    /\ CertScope \in [Certs -> SUBSET Projects]
    /\ CertMax \in [Certs -> Nat \ {0}]
    /\ CertIssued \in [Certs -> Nat]
    /\ CertExpires \in [Certs -> Nat]
    /\ CertKey \in [Certs -> Keys]
    /\ \A c \in Certs : CertIssued[c] < CertExpires[c]
    /\ Skew \in Nat /\ MaxAhead \in Nat /\ MaxTime \in Nat

VARIABLES
    projects,      \* table projects (every row is 'active': no code archives one)
    device,        \* table devices, one row per <<project, device>>
    imported,      \* table control_certificates
    active,        \* its row with is_active = 1
    key,           \* the delegated private key on disk
    now            \* the console's clock

catalogVars == <<projects, device, imported, active, key, now>>

\* "absent": no row; "unbound": unbind_at is set; "bound" and "locked": unbind_at
\* is NULL, with locked = 0 and locked = 1.
DeviceStatus == {"absent", "bound", "locked", "unbound"}

CatalogTypeOK ==
    /\ projects \in SUBSET Projects
    /\ device \in [Projects \X Devices -> DeviceStatus]
    /\ imported \in SUBSET Certs
    /\ active \in imported \union {NoCert}
    /\ key \in Keys \union {NoKey}
    /\ now \in Nat

CatalogInit ==
    /\ projects = {}
    /\ device = [pd \in Projects \X Devices |-> "absent"]
    /\ imported = {}
    /\ active = NoCert
    /\ key = NoKey
    /\ now = 0

-----------------------------------------------------------------------------
(***************************************************************************)
(* Reading the tables.                                                     *)
(***************************************************************************)

Bound(p, d) == device[<<p, d>>] \in {"bound", "locked"}

\* countBoundDevices: a locked device still holds its place.
BoundIn(scope) == {pd \in scope \X Devices : Bound(pd[1], pd[2])}

\* The quota check every issuing path repeats: registrations inside the scope of
\* the certificate are no more than max_devices.
WithinQuota(c) == Cardinality(BoundIn(CertScope[c])) <= CertMax[c]

\* assertTimeWindow: not from the future, not over, and not over too late.
InWindow(issued, expires, t) ==
    /\ issued <= t + Skew
    /\ t < expires
    /\ expires <= t + MaxAhead

\* loadVerifiedControlCertificate: the stored row is never trusted, signature and
\* window are computed again on every use.
CertUsable(c) == c \in Certs /\ InWindow(CertIssued[c], CertExpires[c], now)

\* requireDelegatedKey: there is a key, and it is the one the certificate names.
KeyMatches(c) == key = CertKey[c]

-----------------------------------------------------------------------------
(***************************************************************************)
(* Writing the tables.                                                     *)
(***************************************************************************)

\* insertDevice, or updateDeviceRegistration of a row that was unbound: it is not locked.
StoreRegistration(p, d) == device' = [device EXCEPT ![<<p, d>>] = "bound"]

StoreLock(p, d, locked) ==
    device' = [device EXCEPT ![<<p, d>>] = IF locked THEN "locked" ELSE "bound"]

\* The row stays, with the lock taken off.
StoreUnbind(p, d) == device' = [device EXCEPT ![<<p, d>>] = "unbound"]

\* saveControlCertificate: the row is inserted or replaced, and is the only active one.
SaveControlCertificate(c) ==
    /\ imported' = imported \union {c}
    /\ active' = c

-----------------------------------------------------------------------------
(***************************************************************************)
(* Operations.  An operation that is refused changes nothing.              *)
(***************************************************************************)

CreateProject(p) ==
    /\ p \notin projects
    /\ projects' = projects \union {p}
    /\ UNCHANGED <<device, imported, active, key, now>>

\* Mutant of RegisterDevice: a registration elsewhere is not looked for.
RegisterDeviceTwice(p, d) ==
    /\ p \in projects
    /\ CertUsable(active)
    /\ p \in CertScope[active]
    /\ ~ Bound(p, d)
    /\ Cardinality(BoundIn(CertScope[active])) + 1 <= CertMax[active]
    /\ StoreRegistration(p, d)
    /\ UNCHANGED <<projects, imported, active, key, now>>

\* Mutant of RegisterDevice: registering again after an unbind skips the quota.
RegisterDeviceAgainFree(p, d) ==
    /\ p \in projects
    /\ CertUsable(active)
    /\ p \in CertScope[active]
    /\ ~ Bound(p, d)
    /\ \A q \in Projects : ~ Bound(q, d)
    /\ \/ device[<<p, d>>] = "unbound"
       \/ Cardinality(BoundIn(CertScope[active])) + 1 <= CertMax[active]
    /\ StoreRegistration(p, d)
    /\ UNCHANGED <<projects, imported, active, key, now>>

\* A registration that exists already is returned as it is.
RegisterDevice(p, d) ==
    /\ p \in projects
    /\ CertUsable(active)
    /\ p \in CertScope[active]
    /\ ~ Bound(p, d)
    /\ \A q \in Projects : ~ Bound(q, d)
    /\ Cardinality(BoundIn(CertScope[active])) + 1 <= CertMax[active]
    /\ StoreRegistration(p, d)
    /\ UNCHANGED <<projects, imported, active, key, now>>

\* The device's licenses and delivery orders are left as they are.
UnbindDevice(p, d) ==
    /\ Bound(p, d)
    /\ StoreUnbind(p, d)
    /\ UNCHANGED <<projects, imported, active, key, now>>

SetDeviceLock(p, d, locked) ==
    /\ Bound(p, d)
    /\ StoreLock(p, d, locked)
    /\ UNCHANGED <<projects, imported, active, key, now>>

\* No check against the registrations that exist: a smaller certificate may leave
\* the console over its quota.
ImportControlCertificate(c) ==
    /\ CertUsable(c)
    /\ SaveControlCertificate(c)
    /\ UNCHANGED <<projects, device, key, now>>

\* Any key may come to be stored, and issuing checks it later: with no usable certificate
\* there is nothing to compare it with, and the refusal of another key than the
\* certificate's is lost when its own audit entry cannot be written, as that failure is
\* taken for a missing certificate (key-admin.ts:96-101).
ImportDelegatedKey(k) ==
    /\ key' = k
    /\ UNCHANGED <<projects, device, imported, active, now>>

Tick ==
    /\ now < MaxTime
    /\ now' = now + 1
    /\ UNCHANGED <<projects, device, imported, active, key>>

CatalogOperation ==
    \/ \E p \in Projects : CreateProject(p)
    \/ \E p \in Projects, d \in Devices : RegisterDevice(p, d)
    \/ \E p \in Projects, d \in Devices : UnbindDevice(p, d)
    \/ \E p \in Projects, d \in Devices, l \in BOOLEAN : SetDeviceLock(p, d, l)
    \/ \E c \in Certs : ImportControlCertificate(c)
    \/ \E k \in Keys : ImportDelegatedKey(k)

CatalogNext == CatalogOperation \/ Tick

-----------------------------------------------------------------------------
(***************************************************************************)
(* Properties.                                                             *)
(***************************************************************************)

\* A device is registered in at most one project at a time, whatever sequence of
\* registering, unbinding, locking and registering again led here (catalog.ts
\* refuses before devices_active_unique would).
BoundOnce ==
    \A d \in Devices : \A p, q \in Projects : Bound(p, d) /\ Bound(q, d) => p = q

\* Only importing a certificate can put the console over its quota: no order of
\* registrations, re-registrations, locks and unlocks does, with the certificate
\* in force left as it is (catalog.ts: a locked device keeps its place, a
\* re-registered one takes a new one).
QuotaExceededOnlyByImport ==
    [][active' = active /\ active # NoCert /\ WithinQuota(active) => WithinQuota(active)']_catalogVars
=============================================================================
