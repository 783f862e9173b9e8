--------------------------- MODULE CatalogProofs ----------------------------
(***************************************************************************)
(* Lemmas about the catalog's operations, for the proofs about the modules *)
(* that extend it: what a step of the catalog, or one that leaves it       *)
(* alone, preserves.                                                       *)
(***************************************************************************)
EXTENDS Catalog, FiniteSetTheorems, TLAPS

USE CatalogConstants

-----------------------------------------------------------------------------
(***************************************************************************)
(* Type correctness.                                                       *)
(***************************************************************************)

\* No operation of the catalog and no tick of the clock leaves the types.
LEMMA CatalogTypes ==
    ASSUME CatalogTypeOK, CatalogNext
    PROVE  CatalogTypeOK'
<1> USE DEF CatalogTypeOK, DeviceStatus
<1>1. ASSUME NEW p \in Projects, CreateProject(p) PROVE CatalogTypeOK'
  BY <1>1 DEF CreateProject
<1>2. ASSUME NEW p \in Projects, NEW d \in Devices, RegisterDevice(p, d) PROVE CatalogTypeOK'
  BY <1>2 DEF RegisterDevice, StoreRegistration
<1>3. ASSUME NEW p \in Projects, NEW d \in Devices, UnbindDevice(p, d) PROVE CatalogTypeOK'
  BY <1>3 DEF UnbindDevice, StoreUnbind
<1>4. ASSUME NEW p \in Projects, NEW d \in Devices, NEW l \in BOOLEAN, SetDeviceLock(p, d, l)
      PROVE CatalogTypeOK'
  BY <1>4 DEF SetDeviceLock, StoreLock
<1>5. ASSUME NEW c \in Certs, ImportControlCertificate(c) PROVE CatalogTypeOK'
  BY <1>5 DEF ImportControlCertificate, SaveControlCertificate
<1>6. ASSUME NEW k \in Keys, ImportDelegatedKey(k) PROVE CatalogTypeOK'
  BY <1>6 DEF ImportDelegatedKey
<1>7. CASE Tick
  BY <1>7 DEF Tick
<1>8. QED
  BY <1>1, <1>2, <1>3, <1>4, <1>5, <1>6, <1>7 DEF CatalogNext, CatalogOperation

\* A step that changes the table of devices registers, unbinds or locks one, and none of
\* these touches the active certificate.
DeviceStep ==
    \E p \in Projects, d \in Devices :
        RegisterDevice(p, d) \/ UnbindDevice(p, d) \/ \E l \in BOOLEAN : SetDeviceLock(p, d, l)

\* Every other step leaves the table as it is.
LEMMA DevicesOnlyThere ==
    ASSUME CatalogNext \/ UNCHANGED catalogVars
    PROVE  device' = device \/ DeviceStep
BY DEF CatalogNext, CatalogOperation, catalogVars, DeviceStep, CreateProject,
   ImportControlCertificate, ImportDelegatedKey, Tick

-----------------------------------------------------------------------------
(***************************************************************************)
(* A device counts in one project.                                         *)
(***************************************************************************)

\* Registering looks for the device in every project, and nothing else adds a registration.
LEMMA BoundOnceStep ==
    ASSUME CatalogTypeOK, BoundOnce, CatalogNext \/ UNCHANGED catalogVars
    PROVE  BoundOnce'
<1>1. CASE device' = device
  BY <1>1 DEF BoundOnce, Bound
<1>2. ASSUME NEW p \in Projects, NEW d \in Devices, NEW status,
             device' = [device EXCEPT ![<<p, d>>] = status],
             Bound(p, d) \/ \A q \in Projects : ~ Bound(q, d)
      PROVE  BoundOnce'
  <2> SUFFICES ASSUME NEW e \in Devices, NEW q \in Projects, NEW r \in Projects,
                      Bound(q, e)', Bound(r, e)'
               PROVE  q = r
    BY DEF BoundOnce
  <2>1. \A s \in Projects, f \in Devices : <<s, f>> # <<p, d>> => Bound(s, f)' = Bound(s, f)
    BY <1>2 DEF CatalogTypeOK, Bound
  <2>2. CASE e # d
    BY <2>1, <2>2 DEF BoundOnce
  <2>3. CASE e = d
    BY <1>2, <2>1, <2>3 DEF BoundOnce
  <2> QED
    BY <2>2, <2>3
<1>3. CASE DeviceStep
  BY <1>2, <1>3 DEF DeviceStep, RegisterDevice, UnbindDevice, SetDeviceLock,
     StoreRegistration, StoreUnbind, StoreLock
<1> QED
  BY <1>1, <1>3, DevicesOnlyThere

-----------------------------------------------------------------------------
(***************************************************************************)
(* The quota.                                                              *)
(***************************************************************************)

\* The registrations in scope are a finite set, so they can be counted.
LEMMA BoundIsFinite ==
    ASSUME NEW c \in Certs
    PROVE  /\ IsFiniteSet(BoundIn(CertScope[c])) /\ Cardinality(BoundIn(CertScope[c])) \in Nat
           /\ IsFiniteSet(BoundIn(CertScope[c])') /\ Cardinality(BoundIn(CertScope[c])') \in Nat
<1>1. IsFiniteSet(CertScope[c] \X Devices)
  BY FS_Subset, FS_Product
<1>2. BoundIn(CertScope[c]) \subseteq CertScope[c] \X Devices
  BY DEF BoundIn
<1>3. BoundIn(CertScope[c])' \subseteq CertScope[c] \X Devices
  BY DEF BoundIn
<1> QED
  BY <1>1, <1>2, <1>3, FS_Subset, FS_CardinalityType

\* No step adds more than one registration, and a step that adds one in the scope of the
\* active certificate has counted them first.
LEMMA QuotaStep ==
    ASSUME CatalogTypeOK, CatalogNext \/ UNCHANGED catalogVars,
           active' = active, active # NoCert, WithinQuota(active)
    PROVE  WithinQuota(active)'
<1> DEFINE old == BoundIn(CertScope[active])
           new == BoundIn(CertScope[active])'
<1>0. active \in Certs /\ CertScope[active] \subseteq Projects /\ CertMax[active] \in Nat
  BY DEF CatalogTypeOK
<1>1. IsFiniteSet(old) /\ IsFiniteSet(new) /\ Cardinality(old) \in Nat /\ Cardinality(new) \in Nat
  BY <1>0, BoundIsFinite
<1>2. ASSUME new \subseteq old PROVE WithinQuota(active)'
  <2>1. Cardinality(new) <= Cardinality(old)
    BY <1>1, <1>2, FS_Subset
  <2>2. Cardinality(old) <= CertMax[active]
    BY DEF WithinQuota
  <2>3. Cardinality(new) <= CertMax[active]
    BY <1>0, <1>1, <2>1, <2>2
  <2> QED
    BY <2>3 DEF WithinQuota
<1>3. CASE device' = device
  BY <1>2, <1>3 DEF BoundIn, Bound
<1>4. ASSUME NEW p \in Projects, NEW d \in Devices, RegisterDevice(p, d)
      PROVE  WithinQuota(active)'
  <2>1. new \subseteq old \union {<<p, d>>}
    BY <1>0, <1>4 DEF RegisterDevice, StoreRegistration, BoundIn, Bound, CatalogTypeOK
  <2>2. IsFiniteSet(old \union {<<p, d>>})
        /\ Cardinality(old \union {<<p, d>>}) <= Cardinality(old) + 1
    <3>1. IsFiniteSet(old \union {<<p, d>>})
          /\ Cardinality(old \union {<<p, d>>})
               = IF <<p, d>> \in old THEN Cardinality(old) ELSE Cardinality(old) + 1
      BY <1>1, FS_AddElement, Zenon
    <3> HIDE DEF old
    <3> QED
      BY <1>1, <3>1
  <2>3. Cardinality(new) <= Cardinality(old \union {<<p, d>>})
    BY <2>1, <2>2, FS_Subset
  <2>4. Cardinality(old) + 1 <= CertMax[active]
    BY <1>4 DEF RegisterDevice
  <2>5. Cardinality(old \union {<<p, d>>}) \in Nat
    BY <2>2, FS_CardinalityType
  <2>6. Cardinality(new) <= CertMax[active]
    BY <1>0, <1>1, <2>2, <2>3, <2>4, <2>5
  <2> QED
    BY <2>6 DEF WithinQuota
<1>5. ASSUME NEW p \in Projects, NEW d \in Devices, Bound(p, d), NEW status,
             device' = [device EXCEPT ![<<p, d>>] = status]
      PROVE  WithinQuota(active)'
  <2>1. new \subseteq old
    BY <1>0, <1>5 DEF BoundIn, Bound, CatalogTypeOK
  <2> QED
    BY <1>2, <2>1
<1>6. CASE DeviceStep
  BY <1>4, <1>5, <1>6 DEF DeviceStep, UnbindDevice, SetDeviceLock, StoreUnbind, StoreLock
<1> QED
  BY <1>3, <1>6, DevicesOnlyThere
=============================================================================
