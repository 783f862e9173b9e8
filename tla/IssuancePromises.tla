-------------------------- MODULE IssuancePromises --------------------------
(***************************************************************************)
(* What issuing promises to those who use it, for every value of the       *)
(* constants: a device counts in one project, and only an import exceeds a *)
(* quota; a license that was granted passes the check of the device it is  *)
(* for; the commit in two stores implements the one-step grant of          *)
(* AtomicIssue.                                                            *)
(***************************************************************************)
EXTENDS IssuanceProofs

USE IssuanceConstants, CatalogConstants DEF LicenseIds

-----------------------------------------------------------------------------
\* Issuing, recovery and crashes leave the catalog alone.
LEMMA CatalogStep == [Next]_vars => CatalogNext \/ UNCHANGED catalogVars
BY DEF Next, vars, Operate, PassTime, CatalogNext,
   StartIssue, IssueLicense, IssueLicensesBatch, RenewLicense, PrepareBatch,
   CommitStep, Reserve, ReserveFails, WriteFile, MarkWritten, CommitFails, UndoFile, UndoRows,
   Crash, Boot, BootStep, RollBack, RollBackFails, ListOrphans, QuarantineOrphan, SweepFails, BootEnds

\* However devices are registered, unbound, locked and registered again, and whatever
\* certificates come in between, each counts in one project (catalog.ts:101-192).
THEOREM DevicesCountOnce == Spec => []BoundOnce
<1>1. Init => BoundOnce
  BY DEF Init, CatalogInit, BoundOnce, Bound
<1>2. IInv /\ BoundOnce /\ [Next]_vars => BoundOnce'
  BY CatalogStep, BoundOnceStep DEF IInv, TypeOK
<1> QED
  BY <1>1, <1>2, IInvHolds, PTL DEF Spec

\* With the active certificate left as it is, nothing exceeds its quota: for any sets of
\* projects and devices and any certificates (catalog.ts:101-192, control.ts:75).
THEOREM QuotaIsKept == Spec => QuotaExceededOnlyByImport
<1>1. IInv /\ [Next]_vars
        => [active' = active /\ active # NoCert /\ WithinQuota(active)
              => WithinQuota(active)']_catalogVars
  BY CatalogStep, QuotaStep DEF IInv, TypeOK
<1> QED
  BY <1>1, IInvHolds, PTL DEF Spec, QuotaExceededOnlyByImport

-----------------------------------------------------------------------------
(***************************************************************************)
(* What is signed, and what a device says of it.                           *)
(***************************************************************************)

\* What signing a batch adds to the licenses signed so far.
LEMMA BatchSigned ==
    ASSUME IInv, NEW p, NEW devs \in Seq(Devices), NEW requested,
           PrepareBatch(p, devs, requested)
    PROVE  /\ Len(signed) \in Nat /\ Len(devs) \in Nat
           /\ Len(signed') = Len(signed) + Len(devs)
           /\ \A i \in 1 .. Len(signed) : signed'[i] = signed[i]
           /\ \A i \in Len(signed) + 1 .. Len(signed) + Len(devs) :
                signed'[i] = [project |-> p, device |-> devs[i - Len(signed)],
                              control |-> active, signedBy |-> key, issuedAt |-> now,
                              expiresAt |-> ResolveExpiry(requested, active),
                              supersedes |-> CurrentLicense(p, devs[i - Len(signed)])]
<1> DEFINE n == Len(signed)
           license(i) == [project |-> p, device |-> devs[i], control |-> active,
                          signedBy |-> key, issuedAt |-> now,
                          expiresAt |-> ResolveExpiry(requested, active),
                          supersedes |-> CurrentLicense(p, devs[i])]
           licenses == SignedLicense \union {license(i) : i \in 1 .. Len(devs)}
           added == [i \in 1 .. Len(devs) |-> license(i)]
<1>1. signed \in Seq(SignedLicense) /\ n \in Nat /\ Len(devs) \in Nat
  BY DEF IInv, TypeOK
<1>2. signed' = signed \o added
  BY DEF PrepareBatch
<1>3. \A i \in 1 .. Len(devs) : license(i) \in licenses
  OBVIOUS
<1>4. SignedLicense \subseteq licenses
  OBVIOUS
<1> HIDE DEF license, licenses
<1>5. added \in Seq(licenses) /\ Len(added) = Len(devs) /\ signed \in Seq(licenses)
  BY <1>1, <1>3, <1>4
<1>6. Len(signed') = n + Len(devs) /\ \A i \in 1 .. n : signed'[i] = signed[i]
  BY <1>1, <1>2, <1>5
<1>7. ASSUME NEW i \in n + 1 .. n + Len(devs) PROVE signed'[i] = license(i - n)
  BY <1>1, <1>2, <1>5
<1> QED
  BY <1>1, <1>6, <1>7 DEF license

\* Every license ever signed, granted or not, was signed with the key of the certificate it
\* names, inside that certificate's scope and window.
SignedAsAllowed ==
    \A i \in 1 .. Len(signed) :
        /\ WellFormed(signed[i])
        /\ signed[i].signedBy = CertKey[signed[i].control]
        /\ ProjectAllowed(signed[i].control, signed[i].project)
        /\ CertIssued[signed[i].control] <= signed[i].issuedAt + Skew
        /\ signed[i].expiresAt <= CertExpires[signed[i].control]
        /\ CertExpires[signed[i].control] <= signed[i].issuedAt + MaxAhead

\* A request that passes the checks resolves to an expiry after now and within the
\* certificate (issuance.ts:401-424).
LEMMA ExpiryResolves ==
    ASSUME CatalogTypeOK, CertUsable(active), NEW requested \in Nat,
           ExpiryAllowed(requested, active)
    PROVE  /\ now < ResolveExpiry(requested, active)
           /\ ResolveExpiry(requested, active) <= CertExpires[active]
BY DEF CatalogTypeOK, CertUsable, InWindow, ExpiryAllowed, ResolveExpiry, DefaultExpiry

\* The checks of prepareBatch are those a device makes (issuance.ts:127-204).
LEMMA SigningAllowed ==
    ASSUME IInv, SignedAsAllowed, NEW p, NEW devs \in Seq(Devices), NEW requested \in Nat,
           PrepareBatch(p, devs, requested)
    PROVE  SignedAsAllowed'
<1> DEFINE n == Len(signed)
<1>1. /\ CatalogTypeOK /\ CertUsable(active) /\ KeyMatches(active) /\ p \in CertScope[active]
      /\ ExpiryAllowed(requested, active) /\ active \in Certs /\ now \in Nat
  BY DEF IInv, TypeOK, CatalogTypeOK, PrepareBatch, MayIssue, CertUsable
<1>2. /\ n \in Nat /\ Len(devs) \in Nat /\ Len(signed') = n + Len(devs)
      /\ \A i \in 1 .. n : signed'[i] = signed[i]
  BY BatchSigned
<1>3. ASSUME NEW i \in n + 1 .. n + Len(devs)
      PROVE  /\ signed'[i].project = p /\ signed'[i].control = active
             /\ signed'[i].signedBy = key /\ signed'[i].issuedAt = now
             /\ signed'[i].expiresAt = ResolveExpiry(requested, active)
  <2>1. signed'[i] = [project |-> p, device |-> devs[i - n], control |-> active,
                      signedBy |-> key, issuedAt |-> now,
                      expiresAt |-> ResolveExpiry(requested, active),
                      supersedes |-> CurrentLicense(p, devs[i - n])]
    BY BatchSigned
  <2> QED
    BY <2>1
<1>4. CertIssued[active] <= now + Skew /\ CertExpires[active] <= now + MaxAhead
  BY <1>1 DEF CertUsable, InWindow
<1>5. ASSUME NEW i \in 1 .. n
      PROVE  /\ WellFormed(signed'[i])
             /\ signed'[i].signedBy = CertKey[signed'[i].control]
             /\ ProjectAllowed(signed'[i].control, signed'[i].project)
             /\ CertIssued[signed'[i].control] <= signed'[i].issuedAt + Skew
             /\ signed'[i].expiresAt <= CertExpires[signed'[i].control]
             /\ CertExpires[signed'[i].control] <= signed'[i].issuedAt + MaxAhead
  BY <1>2 DEF SignedAsAllowed
<1>6. ASSUME NEW i \in n + 1 .. n + Len(devs)
      PROVE  /\ WellFormed(signed'[i])
             /\ signed'[i].signedBy = CertKey[signed'[i].control]
             /\ ProjectAllowed(signed'[i].control, signed'[i].project)
             /\ CertIssued[signed'[i].control] <= signed'[i].issuedAt + Skew
             /\ signed'[i].expiresAt <= CertExpires[signed'[i].control]
             /\ CertExpires[signed'[i].control] <= signed'[i].issuedAt + MaxAhead
  BY <1>1, <1>3, <1>4, ExpiryResolves DEF WellFormed, ProjectAllowed, KeyMatches
<1>7. \A i \in 1 .. Len(signed') : i \in 1 .. n \/ i \in n + 1 .. n + Len(devs)
  BY <1>2
<1> HIDE DEF n
<1> QED
  BY <1>5, <1>6, <1>7 DEF SignedAsAllowed, WellFormed, ProjectAllowed

\* Only signing a batch changes what was signed.
LEMMA SignedOnlyThere ==
    ASSUME [Next]_vars
    PROVE  StartIssue \/ UNCHANGED signed
BY DEF Next, vars, issueVars, storeVars, Operate, PassTime, CommitStep, Reserve, ReserveFails,
   WriteFile, MarkWritten, CommitFails, UndoFile, UndoRows, Crash, Boot, BootStep, RollBack,
   RollBackFails, ListOrphans, QuarantineOrphan, SweepFails, BootEnds

\* A start of an issue is PrepareBatch for some devices, each named once.
LEMMA StartPrepares ==
    ASSUME StartIssue
    PROVE  \E p \in Projects, devs \in Seq(Devices), requested \in Nat :
              /\ Len(devs) # 0
              /\ PrepareBatch(p, devs, requested)
<1>1. ASSUME NEW p \in Projects, NEW requested \in 0 .. MaxTime + 1, NEW d \in Devices,
             PrepareBatch(p, <<d>>, requested)
      PROVE  \E devs \in Seq(Devices), r \in Nat : Len(devs) # 0 /\ PrepareBatch(p, devs, r)
  <2>1. <<d>> \in Seq(Devices) /\ Len(<<d>>) # 0 /\ requested \in Nat
    OBVIOUS
  <2> QED
    BY <1>1, <2>1
<1>2. ASSUME NEW p \in Projects, NEW requested \in 0 .. MaxTime + 1, NEW devs \in BatchInputs,
             PrepareBatch(p, devs, requested)
      PROVE  \E ds \in Seq(Devices), r \in Nat : Len(ds) # 0 /\ PrepareBatch(p, ds, r)
  <2>1. PICK n \in 1 .. Cardinality(Devices) : devs \in [1 .. n -> Devices]
    <3>1. devs \in UNION {[1 .. n -> Devices] : n \in 1 .. Cardinality(Devices)}
      BY <1>2 DEF BatchInputs
    <3>2. PICK S \in {[1 .. n -> Devices] : n \in 1 .. Cardinality(Devices)} : devs \in S
      BY <3>1, Zenon
    <3>3. PICK n \in 1 .. Cardinality(Devices) : S = [1 .. n -> Devices]
      BY <3>2, Zenon
    <3>4. QED
      BY <3>2, <3>3
  <2>2. devs \in Seq(Devices) /\ Len(devs) # 0 /\ requested \in Nat
    BY <2>1
  <2> QED
    BY <1>2, <2>2
<1> QED
  BY <1>1, <1>2 DEF StartIssue, IssueLicense, IssueLicensesBatch, RenewLicense

\* Nothing signed is ever changed, so it stays as it was allowed.
LEMMA SignedAsAllowedHolds == Spec => []SignedAsAllowed
<1>1. Init => SignedAsAllowed
  BY DEF Init, SignedAsAllowed
<1>2. IInv /\ SignedAsAllowed /\ [Next]_vars => SignedAsAllowed'
  <2> SUFFICES ASSUME IInv, SignedAsAllowed, [Next]_vars PROVE SignedAsAllowed'
    OBVIOUS
  <2>1. CASE StartIssue
    BY <2>1, StartPrepares, SigningAllowed
  <2>2. CASE UNCHANGED signed
    BY <2>2 DEF SignedAsAllowed
  <2> QED
    BY <2>1, <2>2, SignedOnlyThere
<1> QED
  BY <1>1, <1>2, IInvHolds, PTL DEF Spec

\* Whatever certificates were imported since, a license granted passes its device's check
\* from the moment it was issued until it expires (issuance.ts:127-204 signs it,
\* catalog.ts:293-330 and the game check it).
THEOREM GrantedPassesTheCheck == Spec => []GrantedIsAccepted
<1>1. IInv /\ SignedAsAllowed => GrantedIsAccepted
  <2> SUFFICES ASSUME IInv, SignedAsAllowed, NEW i \in written,
                      NEW t \in signed[i].issuedAt .. signed[i].expiresAt - 1
               PROVE  /\ WellFormed(signed[i])
                      /\ Accepts(i, signed[i].project, signed[i].device, t)
    <3>1. ASSUME IInv, SignedAsAllowed, NEW i \in written PROVE WellFormed(signed[i])
      BY <3>1 DEF IInv, RowsOK, SignedAsAllowed
    <3> QED
      BY <3>1 DEF GrantedIsAccepted
  <2>1. i \in 1 .. Len(signed) /\ signed[i] \in SignedLicense
    BY DEF IInv, RowsOK, TypeOK
  <2>2. /\ signed[i].issuedAt \in Nat /\ signed[i].expiresAt \in Nat
        /\ signed[i].control \in Certs
    BY <2>1 DEF SignedLicense
  <2>3. /\ CertIssued[signed[i].control] \in Nat /\ CertExpires[signed[i].control] \in Nat
    BY <2>2
  <2>4. /\ WellFormed(signed[i])
        /\ signed[i].signedBy = CertKey[signed[i].control]
        /\ ProjectAllowed(signed[i].control, signed[i].project)
        /\ CertIssued[signed[i].control] <= signed[i].issuedAt + Skew
        /\ signed[i].expiresAt <= CertExpires[signed[i].control]
        /\ CertExpires[signed[i].control] <= signed[i].issuedAt + MaxAhead
    BY <2>1 DEF SignedAsAllowed
  <2>5. CertificateVerifies(signed[i].control, t)
    BY <2>2, <2>3, <2>4 DEF CertificateVerifies, InWindow
  <2>6. InWindow(signed[i].issuedAt, signed[i].expiresAt, t) /\ t < CertExpires[signed[i].control]
    BY <2>2, <2>3, <2>4 DEF InWindow
  <2> QED
    BY <2>4, <2>5, <2>6 DEF Accepts, LicenseVerifies
<1> QED
  BY <1>1, IInvHolds, SignedAsAllowedHolds, PTL

-----------------------------------------------------------------------------
(***************************************************************************)
(* The catalog of the abstract specification is the catalog.               *)
(***************************************************************************)

\* An instance has its own copy of every operator; here they are equal by definition.
LEMMA SameCardinality == ASSUME NEW S PROVE Cardinality(S) = Atomic!Cardinality(S)
BY DEF Cardinality, Atomic!Cardinality

\* What the quota counts is the same on both sides.
LEMMA SameQuota ==
    ASSUME NEW scope
    PROVE  /\ Cardinality(BoundIn(scope)) = Atomic!Cardinality(Atomic!BoundIn(scope))
           /\ \A c : WithinQuota(c) <=> Atomic!WithinQuota(c)
           /\ \A p, d : Bound(p, d) <=> Atomic!Bound(p, d)
BY SameCardinality DEF BoundIn, Bound, WithinQuota, Atomic!BoundIn, Atomic!Bound, Atomic!WithinQuota

\* Every operation of the catalog is one of the promise.
LEMMA SameOperations == CatalogNext => Atomic!CatalogNext
<1>1. ASSUME NEW p \in Projects, CreateProject(p) PROVE Atomic!CatalogNext
  BY <1>1 DEF CreateProject, Atomic!CatalogNext, Atomic!CatalogOperation, Atomic!CreateProject
<1>2. ASSUME NEW p \in Projects, NEW d \in Devices, RegisterDevice(p, d)
      PROVE  Atomic!CatalogNext
  <2>1. Atomic!RegisterDevice(p, d)
    BY <1>2, SameQuota DEF RegisterDevice, StoreRegistration, CertUsable, InWindow,
       Atomic!RegisterDevice, Atomic!StoreRegistration, Atomic!CertUsable, Atomic!InWindow
  <2> QED
    BY <2>1 DEF Atomic!CatalogNext, Atomic!CatalogOperation
<1>3. ASSUME NEW p \in Projects, NEW d \in Devices, UnbindDevice(p, d) PROVE Atomic!CatalogNext
  BY <1>3, SameQuota DEF UnbindDevice, StoreUnbind, Atomic!CatalogNext, Atomic!CatalogOperation,
     Atomic!UnbindDevice, Atomic!StoreUnbind
<1>4. ASSUME NEW p \in Projects, NEW d \in Devices, NEW l \in BOOLEAN, SetDeviceLock(p, d, l)
      PROVE  Atomic!CatalogNext
  <2>1. Atomic!SetDeviceLock(p, d, l)
    BY <1>4, SameQuota DEF SetDeviceLock, StoreLock, Atomic!SetDeviceLock, Atomic!StoreLock
  <2> QED
    BY <2>1 DEF Atomic!CatalogNext, Atomic!CatalogOperation
<1>5. ASSUME NEW c \in Certs, ImportControlCertificate(c) PROVE Atomic!CatalogNext
  BY <1>5 DEF ImportControlCertificate, SaveControlCertificate, CertUsable, InWindow,
     Atomic!CatalogNext, Atomic!CatalogOperation, Atomic!ImportControlCertificate,
     Atomic!SaveControlCertificate, Atomic!CertUsable, Atomic!InWindow
<1>6. ASSUME NEW k \in Keys, ImportDelegatedKey(k) PROVE Atomic!CatalogNext
  BY <1>6 DEF ImportDelegatedKey, Atomic!CatalogNext, Atomic!CatalogOperation,
     Atomic!ImportDelegatedKey
<1>7. CASE Tick
  BY <1>7 DEF Tick, Atomic!CatalogNext, Atomic!Tick
<1> QED
  BY <1>1, <1>2, <1>3, <1>4, <1>5, <1>6, <1>7 DEF CatalogNext, CatalogOperation

-----------------------------------------------------------------------------
(***************************************************************************)
(* While a batch is on its way, what allowed it still does.                *)
(***************************************************************************)

\* A call is synchronous: between the checks of prepareBatch and the last transaction only
\* the clock moves, so device, certificate and key are still those that were checked.
AskedMayBeGranted ==
    phase \in {"prepared", "writing"} =>
        /\ first <= Len(signed)
        /\ active \in Certs /\ KeyMatches(active) /\ WithinQuota(active)
        /\ \A i \in Batch : /\ Bound(signed[i].project, signed[i].device)
                            /\ signed[i].project \in CertScope[active]

-----------------------------------------------------------------------------
(***************************************************************************)
(* Steps that change nothing of what is granted.                           *)
(***************************************************************************)

\* The state of the promise, as it is mapped.
abstractVars == <<catalogVars, Asked, InForce, Retired>>

\* The granted licenses are a function of three tables.
LEMMA TablesKept ==
    ASSUME UNCHANGED <<signed, written, supersededBy>>
    PROVE  InForce' = InForce /\ Retired' = Retired
BY DEF InForce, Retired, CurrentLicense, CurrentRows

\* A step that grants nothing goes on with the request, or drops it.
LEMMA NothingGranted ==
    ASSUME UNCHANGED <<catalogVars, InForce, Retired>>, Asked' = Asked \/ Asked' = {}
    PROVE  [Atomic!GrantNext]_abstractVars
<1>1. CASE Asked' = Asked
  BY <1>1 DEF abstractVars
<1>2. CASE Asked # {} /\ Asked' = {}
  BY <1>2 DEF Atomic!GrantNext, Atomic!Refuse, Atomic!catalogVars, catalogVars
<1> QED
  BY <1>1, <1>2

\* The transactions that reserve and undo, the file writes, a crash and every step of a
\* start grant nothing and take nothing back.
LEMMA IdleSteps ==
    ASSUME IInv,
           \/ Reserve \/ ReserveFails \/ WriteFile \/ CommitFails \/ UndoFile \/ UndoRows
           \/ Crash \/ Boot \/ BootStep
    PROVE  [Atomic!GrantNext]_abstractVars
<1>1. UNCHANGED <<catalogVars, signed, written>>
  BY DEF Reserve, ReserveFails, WriteFile, CommitFails, UndoFile, UndoRows, Crash, Boot,
     BootStep, RollBack, RollBackFails, ListOrphans, QuarantineOrphan, SweepFails, BootEnds,
     storeVars
<1>2. supersededBy' = supersededBy
  <2>1. CASE UndoRows
    <3>1. supersededBy' = Unlinked(pending \ pending')
      BY <2>1 DEF UndoRows
    <3> QED
      BY <3>1, NothingUnlinked
  <2>2. ASSUME NEW i \in LicenseIds, RollBack(i) PROVE supersededBy' = supersededBy
    <3>1. supersededBy' = Unlinked({i}) /\ i \in pending
      BY <2>2 DEF RollBack
    <3> QED
      BY <3>1, NothingUnlinked
  <2>3. CASE ~ UndoRows /\ ~ \E i \in LicenseIds : RollBack(i)
    BY <2>3 DEF Reserve, ReserveFails, WriteFile, CommitFails, UndoFile, Crash, Boot,
       BootStep, RollBackFails, ListOrphans, QuarantineOrphan, SweepFails, BootEnds, storeVars
  <2> QED
    BY <2>1, <2>2, <2>3
<1>3. Asked' = Asked \/ Asked' = {}
  <2>1. CASE Reserve \/ WriteFile
    <3>1. UNCHANGED <<signed, first>>
      BY <2>1 DEF Reserve, WriteFile
    <3>2. phase \in {"prepared", "writing"} /\ phase' \in {"prepared", "writing"}
      BY <2>1 DEF Reserve, WriteFile
    <3> QED
      BY <3>1, <3>2 DEF Asked, Batch
  <2>2. CASE phase' \notin {"prepared", "writing"}
    BY <2>2 DEF Asked
  <2>3. Reserve \/ WriteFile \/ phase' \notin {"prepared", "writing"}
    BY DEF ReserveFails, CommitFails, UndoFile, UndoRows, Crash, Boot,
       BootStep, RollBack, RollBackFails, ListOrphans, QuarantineOrphan, SweepFails, BootEnds
  <2> QED
    BY <2>1, <2>2, <2>3
<1> QED
  BY <1>1, <1>2, <1>3, TablesKept, NothingGranted

\* Catalog operations and the clock are the same step on both sides.
LEMMA CatalogSteps ==
    ASSUME CatalogNext, UNCHANGED issueVars
    PROVE  [Atomic!GrantNext]_abstractVars
<1>1. UNCHANGED <<signed, written, supersededBy, phase, first>>
  BY DEF issueVars, storeVars, callVars
<1>2. InForce' = InForce /\ Retired' = Retired
  BY <1>1, TablesKept
<1>3. Asked' = Asked
  BY <1>1 DEF Asked, Batch
<1> QED
  BY <1>2, <1>3, SameOperations DEF Atomic!GrantNext, Atomic!grantVars


-----------------------------------------------------------------------------
(***************************************************************************)
(* Asking.                                                                 *)
(***************************************************************************)

\* Signing a batch is what the promise calls asking, for the devices it names.
LEMMA PrepareAsks ==
    ASSUME IInv, NEW p \in Projects, NEW devs \in Seq(Devices), NEW requested \in Nat,
           Len(devs) # 0, PrepareBatch(p, devs, requested)
    PROVE  Atomic!GrantNext
<1> DEFINE n == Len(signed)
           D == {devs[i] : i \in 1 .. Len(devs)}
<1>1. /\ n \in Nat /\ Len(devs) \in Nat /\ Len(signed') = n + Len(devs)
      /\ \A i \in 1 .. n : signed'[i] = signed[i]
  BY BatchSigned
<1>2. ASSUME NEW i \in n + 1 .. n + Len(devs)
      PROVE  signed'[i].project = p /\ signed'[i].device = devs[i - n]
  <2>1. signed'[i] = [project |-> p, device |-> devs[i - n], control |-> active,
                      signedBy |-> key, issuedAt |-> now,
                      expiresAt |-> ResolveExpiry(requested, active),
                      supersedes |-> CurrentLicense(p, devs[i - n])]
    BY BatchSigned
  <2> QED
    BY <2>1
<1>3. D \in (SUBSET Devices) \ {{}}
  <2>1. \A i \in 1 .. Len(devs) : devs[i] \in Devices
    BY <1>1
  <2>2. D \subseteq Devices
    BY <2>1
  <2>3. devs[1] \in D
    BY <1>1
  <2> HIDE DEF D
  <2> QED
    BY <2>2, <2>3
<1>4. Asked = {}
  BY DEF PrepareBatch, Asked
<1>5. Asked' = {p} \X D
  <2>1. Asked' = {<<signed'[i].project, signed'[i].device>> : i \in n + 1 .. n + Len(devs)}
    <3>1. phase' = "prepared" /\ Batch' = n + 1 .. n + Len(devs)
      BY <1>1 DEF PrepareBatch, Batch
    <3>2. Asked' = {<<signed'[i].project, signed'[i].device>> : i \in Batch'}
      BY <3>1 DEF Asked
    <3> QED
      BY <3>1, <3>2
  <2>2. Asked' = {<<p, devs[i - n]>> : i \in n + 1 .. n + Len(devs)}
    BY <1>2, <2>1
  <2>3. {devs[i - n] : i \in n + 1 .. n + Len(devs)} = D
    <3>1. \A i \in n + 1 .. n + Len(devs) : i - n \in 1 .. Len(devs)
      BY <1>1
    <3>2. \A i \in 1 .. Len(devs) : i + n \in n + 1 .. n + Len(devs) /\ (i + n) - n = i
      BY <1>1
    <3> QED
      BY <3>1, <3>2
  <2> HIDE DEF D
  <2>4. ASSUME NEW x \in Asked' PROVE x \in {p} \X D
    <3>1. PICK i \in n + 1 .. n + Len(devs) : x = <<p, devs[i - n]>>
      BY <2>2
    <3>2. devs[i - n] \in D
      BY <2>3
    <3> QED
      BY <3>1, <3>2
  <2>5. ASSUME NEW x \in {p} \X D PROVE x \in Asked'
    <3>1. PICK d \in D : x = <<p, d>>
      OBVIOUS
    <3>2. PICK i \in n + 1 .. n + Len(devs) : d = devs[i - n]
      BY <2>3
    <3> QED
      BY <2>2, <3>1, <3>2
  <2> QED
    BY <2>4, <2>5
<1>6. InForce' = InForce
  <2>1. written' = written /\ supersededBy' = supersededBy /\ written \subseteq 1 .. n
    BY DEF IInv, RowsOK, PrepareBatch
  <2>2. \A q, d : CurrentRows(q, d)' = CurrentRows(q, d)
    BY <1>1, <2>1 DEF CurrentRows
  <2>3. \A q, d : CurrentLicense(q, d)' = CurrentLicense(q, d)
    BY <2>2 DEF CurrentLicense
  <2> QED
    BY <2>3 DEF InForce
<1>7. Retired' = Retired /\ UNCHANGED catalogVars
  BY DEF PrepareBatch, Retired
<1>8. Atomic!Ask(p, D)
  BY <1>4, <1>5, <1>6, <1>7 DEF Atomic!Ask, Atomic!catalogVars, catalogVars
<1> QED
  BY <1>3, <1>8 DEF Atomic!GrantNext


-----------------------------------------------------------------------------
(***************************************************************************)
(* Granting.                                                               *)
(***************************************************************************)

\* The newest of one row.
LEMMA NewestOfOne == ASSUME NEW k PROVE k \in Nat => NewestOf({k}) = k
BY DEF NewestOf

\* Which row of superseded_by the last transaction fills, and which stay NULL.
LEMMA LinksOfGrant ==
    ASSUME IInv, MarkWritten
    PROVE  /\ \A i \in Batch : supersededBy'[i] = 0
           /\ \A k \in written : supersededBy'[k] = 0 <=>
                supersededBy[k] = 0 /\ \A j \in Batch : ~ SamePair(j, k)
           /\ \A k \in written, j \in Batch :
                SamePair(j, k) /\ supersededBy[k] = 0 => supersededBy'[k] # 0
<1>1. /\ Batch \subseteq LicenseIds /\ Batch \intersect written = {} /\ written \subseteq LicenseIds
      /\ 0 \notin Batch
  BY DEF IInv, TypeOK, RowsOK, CallOK, InCall, MarkWritten, Batch
<1>2. \A i \in Batch : \A k \in LicenseIds : signed[i].supersedes = k <=>
               k \in written /\ SamePair(i, k) /\ supersededBy[k] = 0
  BY DEF IInv, BatchReplaces, MarkWritten
<1>3. \A i \in LicenseIds : supersededBy[i] # 0 => i \in written
  BY DEF IInv, SupersededByGranted
<1>4. ASSUME NEW i \in Batch PROVE supersededBy'[i] = 0
  <2>1. \A j \in Batch : signed[j].supersedes # i
    BY <1>1, <1>2
  <2>2. supersededBy'[i] = supersededBy[i]
    BY <1>1, <2>1, LinksWritten
  <2> QED
    BY <1>1, <1>3, <2>2
<1>5. ASSUME NEW k \in written, supersededBy[k] = 0, NEW j \in Batch, SamePair(j, k)
      PROVE  supersededBy'[k] # 0
  <2>1. signed[j].supersedes = k
    BY <1>1, <1>2, <1>5
  <2>2. supersededBy'[k] \in Batch
    BY <1>1, <2>1, LinksWritten
  <2> QED
    BY <1>1, <2>2
<1>6. ASSUME NEW k \in written, \A j \in Batch : ~ SamePair(j, k)
      PROVE  supersededBy'[k] = supersededBy[k]
  <2>1. \A j \in Batch : signed[j].supersedes # k
    BY <1>1, <1>2, <1>6
  <2> QED
    BY <1>1, <2>1, LinksWritten
<1>7. ASSUME NEW k \in written, supersededBy[k] # 0
      PROVE  supersededBy'[k] # 0
  <2>1. \A j \in Batch : signed[j].supersedes # k
    BY <1>1, <1>2, <1>7
  <2>2. supersededBy'[k] = supersededBy[k]
    BY <1>1, <2>1, LinksWritten
  <2> QED
    BY <1>7, <2>2
<1> QED
  BY <1>4, <1>5, <1>6, <1>7

\* The license in force after the last transaction.
LEMMA InForceAfterGrant ==
    ASSUME IInv, MarkWritten, NEW p, NEW d
    PROVE  /\ \A i \in Batch : signed[i].project = p /\ signed[i].device = d
                => CurrentLicense(p, d)' = i
           /\ (\A i \in Batch : ~ (signed[i].project = p /\ signed[i].device = d))
                => CurrentLicense(p, d)' = CurrentLicense(p, d)
<1>1. /\ written' = written \union Batch /\ signed' = signed
      /\ Batch \subseteq Nat
  BY DEF MarkWritten, GrantLicenses, IInv, TypeOK, Batch
<1>2. \A i, j \in Batch : SamePair(i, j) => i = j
  BY DEF IInv, BatchReplaces, MarkWritten
<1>3. CurrentRows(p, d)' = {i \in written \union Batch :
          signed[i].project = p /\ signed[i].device = d /\ supersededBy'[i] = 0}
  BY <1>1 DEF CurrentRows
<1>4. ASSUME NEW i \in Batch, signed[i].project = p, signed[i].device = d
      PROVE  CurrentLicense(p, d)' = i
  <2>1. \A k \in written : signed[k].project = p /\ signed[k].device = d => supersededBy'[k] # 0
    BY <1>4, LinksOfGrant DEF SamePair
  <2>2. \A k \in Batch : signed[k].project = p /\ signed[k].device = d => k = i
    BY <1>2, <1>4 DEF SamePair
  <2>3. supersededBy'[i] = 0
    BY <1>4, LinksOfGrant
  <2>4. CurrentRows(p, d)' = {i}
    BY <1>3, <1>4, <2>1, <2>2, <2>3
  <2>5. CurrentLicense(p, d)' = NewestOf({i})
    BY <2>4 DEF CurrentLicense
  <2> QED
    BY <1>1, <1>4, <2>5, NewestOfOne
<1>5. ASSUME \A i \in Batch : ~ (signed[i].project = p /\ signed[i].device = d)
      PROVE  CurrentLicense(p, d)' = CurrentLicense(p, d)
  <2>1. \A k \in written : signed[k].project = p /\ signed[k].device = d =>
          (supersededBy'[k] = 0 <=> supersededBy[k] = 0)
    BY <1>5, LinksOfGrant DEF SamePair
  <2>2. CurrentRows(p, d)' = CurrentRows(p, d)
    BY <1>3, <1>5, <2>1 DEF CurrentRows
  <2> QED
    BY <2>2 DEF CurrentLicense
<1> QED
  BY <1>4, <1>5

\* What becomes retired is what was in force for the pairs granted.
LEMMA RetiredByGrant ==
    ASSUME IInv, MarkWritten
    PROVE  /\ \A k \in Retired' : \/ k \in Retired
                                  \/ \E i \in Batch : /\ k = CurrentLicense(signed[i].project, signed[i].device)
                                                      /\ k # 0
           /\ \A k \in Retired : k \in Retired'
           /\ \A i \in Batch :
                LET k == CurrentLicense(signed[i].project, signed[i].device)
                IN  k # 0 => k \in Retired'
<1>1. /\ written' = written \union Batch /\ written \subseteq LicenseIds
      /\ TypeOK /\ OneCurrent
  BY DEF MarkWritten, GrantLicenses, IInv, TypeOK
<1>2. ASSUME NEW k \in Retired', k \notin Retired
      PROVE  \E i \in Batch : k = CurrentLicense(signed[i].project, signed[i].device) /\ k # 0
  <2>1. k \in written /\ supersededBy[k] = 0 /\ supersededBy'[k] # 0
    BY <1>1, <1>2, LinksOfGrant DEF Retired
  <2>2. PICK i \in Batch : SamePair(i, k)
    BY <2>1, LinksOfGrant
  <2>3. k \in CurrentRows(signed[i].project, signed[i].device)
    BY <2>1, <2>2 DEF CurrentRows, SamePair
  <2>4. k = CurrentLicense(signed[i].project, signed[i].device)
    BY <1>1, <2>3, CurrentIsTheRow
  <2> QED
    BY <1>1, <2>1, <2>4
<1>3. ASSUME NEW k \in Retired PROVE k \in Retired'
  BY <1>1, <1>3, LinksOfGrant DEF Retired
<1>4. ASSUME NEW i \in Batch, CurrentLicense(signed[i].project, signed[i].device) # 0
      PROVE  CurrentLicense(signed[i].project, signed[i].device) \in Retired'
  <2> DEFINE k == CurrentLicense(signed[i].project, signed[i].device)
  <2>1. k \in CurrentRows(signed[i].project, signed[i].device)
    BY <1>1, <1>4, CurrentIsTheRow
  <2>2. k \in written /\ supersededBy[k] = 0 /\ SamePair(i, k)
    BY <2>1 DEF CurrentRows, SamePair
  <2>3. supersededBy'[k] # 0
    BY <2>2, LinksOfGrant
  <2> HIDE DEF k
  <2>4. k \in Retired'
    BY <1>1, <2>2, <2>3 DEF Retired
  <2> QED
    BY <2>4 DEF k
<1> QED
  BY <1>2, <1>3, <1>4


\* The last transaction grants the whole batch: each license to its own pair, under an id
\* no license in force or retired has.
LEMMA MarkWrittenGrants ==
    ASSUME IInv, AskedMayBeGranted, MarkWritten
    PROVE  Atomic!GrantNext
<1> DEFINE pair(i) == <<signed[i].project, signed[i].device>>
           idOf == [pd \in Asked |-> CHOOSE i \in Batch : pair(i) = pd]
<1>1. /\ phase = "writing" /\ phase' = "ready" /\ UNCHANGED catalogVars
      /\ Batch \subseteq 1 .. MaxLicenses /\ Batch \intersect written = {}
      /\ first \in Batch
      /\ \A i \in Batch : signed[i].project \in Projects /\ signed[i].device \in Devices
      /\ \A i, j \in Batch : SamePair(i, j) => i = j
  <2>1. phase = "writing" /\ phase' = "ready" /\ UNCHANGED catalogVars
    BY DEF MarkWritten
  <2>2. signed \in Seq(SignedLicense) /\ Len(signed) <= MaxLicenses /\ first \in Nat \ {0}
    BY DEF IInv, TypeOK
  <2>3. Batch \subseteq 1 .. Len(signed) /\ Batch \intersect written = {}
    BY <2>1, <2>2 DEF IInv, CallOK, InCall, Batch
  <2>4. \A i \in Batch : signed[i].project \in Projects /\ signed[i].device \in Devices
    <3>1. \A i \in Batch : signed[i] \in SignedLicense
      BY <2>2, <2>3
    <3> QED
      BY <3>1 DEF SignedLicense
  <2>8. Batch \subseteq 1 .. MaxLicenses
    BY <2>2, <2>3
  <2>5. first <= Len(signed)
    BY <2>1 DEF AskedMayBeGranted
  <2>6. first \in Batch
    BY <2>2, <2>5 DEF Batch
  <2>7. \A i, j \in Batch : SamePair(i, j) => i = j
    BY <2>1 DEF IInv, BatchReplaces
  <2> QED
    BY <2>1, <2>3, <2>4, <2>6, <2>7, <2>8
<1>2. Asked = {pair(i) : i \in Batch} /\ Asked # {} /\ Asked' = {}
  <2>1. Asked' = {}
    BY <1>1 DEF Asked
  <2>2. Asked = {pair(i) : i \in Batch}
    BY <1>1 DEF Asked
  <2>3. pair(first) \in Asked
    BY <1>1, <2>2
  <2> HIDE DEF pair
  <2> QED
    BY <2>1, <2>2, <2>3
<1>3. ASSUME NEW i \in Batch PROVE idOf[pair(i)] = i
  <2>1. \A j \in Batch : pair(j) = pair(i) => j = i
    BY <1>1, <1>3 DEF SamePair
  <2>2. pair(i) \in Asked
    BY <1>2
  <2> QED
    BY <2>1, <2>2
<1>4. \A pd \in Asked : \E i \in Batch : pd = pair(i)
  BY <1>2
<1>5. idOf \in [Asked -> 1 .. MaxLicenses]
  BY <1>1, <1>3, <1>4
<1> HIDE DEF idOf, pair
<1>6. ASSUME NEW pd \in Asked, NEW qe \in Asked, idOf[pd] = idOf[qe] PROVE pd = qe
  BY <1>3, <1>4, <1>6
<1>7. ASSUME NEW pd \in Asked PROVE Atomic!Fresh(idOf[pd])
  <2>1. idOf[pd] \in Batch /\ idOf[pd] \notin written /\ idOf[pd] # 0
    BY <1>1, <1>3, <1>4
  <2>2. idOf[pd] \notin Retired
    BY <2>1 DEF Retired
  <2>3. ASSUME NEW qe \in Projects \X Devices PROVE InForce[qe] # idOf[pd]
    <3>1. CurrentLicense(qe[1], qe[2]) # 0 => CurrentLicense(qe[1], qe[2]) \in written
      BY CurrentIsTheRow DEF IInv, CurrentRows
    <3> QED
      BY <2>1, <3>1 DEF InForce
  <2> QED
    BY <2>2, <2>3 DEF Atomic!Fresh
<1>8. InForce' = [pd \in Projects \X Devices |-> IF pd \in Asked THEN idOf[pd] ELSE InForce[pd]]
  <2>1. ASSUME NEW pd \in Projects \X Devices
        PROVE  CurrentLicense(pd[1], pd[2])' = IF pd \in Asked THEN idOf[pd] ELSE InForce[pd]
    <3>1. ASSUME NEW i \in Batch, pd = pair(i) PROVE CurrentLicense(pd[1], pd[2])' = idOf[pd]
      BY <1>3, <3>1, InForceAfterGrant DEF pair
    <3>2. ASSUME pd \notin Asked PROVE CurrentLicense(pd[1], pd[2])' = InForce[pd]
      <4>1. \A i \in Batch : ~ (signed[i].project = pd[1] /\ signed[i].device = pd[2])
        BY <1>2, <3>2 DEF pair
      <4> QED
        BY <4>1, InForceAfterGrant DEF InForce
    <3> QED
      BY <1>4, <3>1, <3>2
  <2> QED
    BY <2>1 DEF InForce
<1>9. Retired' = Retired \union ({InForce[pd] : pd \in Asked} \ {0})
  <2>1. \A i \in Batch : /\ pair(i) \in Asked
                         /\ InForce[pair(i)] = CurrentLicense(signed[i].project, signed[i].device)
    BY <1>1, <1>2 DEF InForce, pair
  <2>2. ASSUME NEW k \in Retired' PROVE k \in Retired \union ({InForce[pd] : pd \in Asked} \ {0})
    BY <2>1, <2>2, RetiredByGrant
  <2>3. ASSUME NEW k \in Retired \union ({InForce[pd] : pd \in Asked} \ {0}) PROVE k \in Retired'
    BY <1>4, <2>1, <2>3, RetiredByGrant
  <2> QED
    BY <2>2, <2>3
<1>10. /\ active # NoCert /\ key = CertKey[active] /\ Atomic!WithinQuota(active)
       /\ \A pd \in Asked : Atomic!Bound(pd[1], pd[2]) /\ pd[1] \in CertScope[active]
  <2>1. /\ active \in Certs /\ KeyMatches(active) /\ WithinQuota(active)
        /\ \A i \in Batch : /\ Bound(signed[i].project, signed[i].device)
                            /\ signed[i].project \in CertScope[active]
    BY <1>1 DEF AskedMayBeGranted
  <2>2. WithinQuota(active) <=> Atomic!WithinQuota(active)
    BY SameQuota
  <2>3. ASSUME NEW pd \in Asked
        PROVE  Atomic!Bound(pd[1], pd[2]) /\ pd[1] \in CertScope[active]
    <3>1. PICK i \in Batch : pd = <<signed[i].project, signed[i].device>>
      BY <1>4 DEF pair
    <3>2. Bound(pd[1], pd[2]) /\ pd[1] \in CertScope[active]
      BY <2>1, <3>1
    <3> QED
      BY <3>2, SameQuota
  <2>4. active # NoCert /\ key = CertKey[active]
    BY <2>1 DEF KeyMatches
  <2> QED
    BY <2>1, <2>2, <2>3, <2>4
<1>11. Atomic!Grant
  BY <1>1, <1>2, <1>5, <1>6, <1>7, <1>8, <1>9, <1>10
     DEF Atomic!Grant, Atomic!catalogVars, catalogVars
<1> QED
  BY <1>11 DEF Atomic!GrantNext

-----------------------------------------------------------------------------
(***************************************************************************)
(* The invariant of the call in flight.                                    *)
(***************************************************************************)

\* Signing establishes AskedMayBeGranted, and no step of the call loses it.
LEMMA AskedStep ==
    ASSUME IInv, AskedMayBeGranted, [Next]_vars
    PROVE  AskedMayBeGranted'
<1>1. ASSUME StartIssue PROVE AskedMayBeGranted'
  <2>1. PICK p \in Projects, devs \in Seq(Devices), requested \in Nat :
          Len(devs) # 0 /\ PrepareBatch(p, devs, requested)
    BY <1>1, StartPrepares
  <2>2. /\ active \in Certs /\ KeyMatches(active) /\ WithinQuota(active)
        /\ p \in CertScope[active] /\ \A i \in DOMAIN devs : Bound(p, devs[i])
        /\ UNCHANGED catalogVars
    BY <2>1 DEF PrepareBatch, MayIssue, CertUsable
  <2>3. /\ Len(signed) \in Nat /\ Len(devs) \in Nat
        /\ Len(signed') = Len(signed) + Len(devs) /\ first' = Len(signed) + 1
    BY <2>1, BatchSigned DEF PrepareBatch
  <2>4. ASSUME NEW i \in Len(signed) + 1 .. Len(signed) + Len(devs)
        PROVE  /\ Bound(signed'[i].project, signed'[i].device)
               /\ signed'[i].project \in CertScope[active]
    <3>1. signed'[i] = [project |-> p, device |-> devs[i - Len(signed)], control |-> active,
                        signedBy |-> key, issuedAt |-> now,
                        expiresAt |-> ResolveExpiry(requested, active),
                        supersedes |-> CurrentLicense(p, devs[i - Len(signed)])]
      BY <2>1, BatchSigned
    <3>2. i - Len(signed) \in DOMAIN devs
      BY <2>3
    <3> QED
      BY <2>2, <3>1, <3>2
  <2>5. Batch' = Len(signed) + 1 .. Len(signed) + Len(devs)
    BY <2>3 DEF Batch
  <2>6. KeyMatches(active)' /\ WithinQuota(active)' /\ active' \in Certs
    BY <2>2 DEF KeyMatches, WithinQuota, BoundIn, Bound, catalogVars
  <2>7. first' <= Len(signed')
    BY <2>1, <2>3
  <2> QED
    BY <2>2, <2>4, <2>5, <2>6, <2>7 DEF AskedMayBeGranted, Bound, catalogVars
<1>2. ASSUME phase' \notin {"prepared", "writing"} PROVE AskedMayBeGranted'
  BY <1>2 DEF AskedMayBeGranted
<1>3. ASSUME UNCHANGED <<signed, first, device, active, key>>,
             phase' \in {"prepared", "writing"} => phase \in {"prepared", "writing"}
      PROVE  AskedMayBeGranted'
  BY <1>3 DEF AskedMayBeGranted, Batch, KeyMatches, WithinQuota, BoundIn, Bound
<1>4. \/ StartIssue
      \/ phase' \notin {"prepared", "writing"}
      \/ /\ UNCHANGED <<signed, first, device, active, key>>
         /\ phase' \in {"prepared", "writing"} => phase \in {"prepared", "writing"}
  <2>1. CASE Operate \/ PassTime \/ UNCHANGED vars
    BY <2>1 DEF Operate, PassTime, Tick, vars, catalogVars, issueVars, storeVars, callVars
  <2>2. CASE CommitStep
    BY <2>2 DEF CommitStep, Reserve, ReserveFails, WriteFile, MarkWritten, CommitFails, UndoFile,
       UndoRows, catalogVars
  <2>3. CASE Crash \/ Boot \/ BootStep
    BY <2>3 DEF Crash, Boot, BootStep, RollBack, RollBackFails, ListOrphans, QuarantineOrphan,
       SweepFails, BootEnds
  <2> QED
    BY <2>1, <2>2, <2>3 DEF Next
<1> QED
  BY <1>1, <1>2, <1>3, <1>4

\* It holds in every reachable state.
LEMMA AskedHolds == Spec => []AskedMayBeGranted
<1>1. Init => AskedMayBeGranted
  BY DEF Init, AskedMayBeGranted
<1> QED
  BY <1>1, AskedStep, IInvHolds, PTL DEF Spec

-----------------------------------------------------------------------------
(***************************************************************************)
(* The refinement.                                                         *)
(***************************************************************************)

\* An empty database grants nothing.
LEMMA StartsAsPromised == Init => Atomic!GrantInit
<1> SUFFICES ASSUME Init PROVE Atomic!GrantInit
  OBVIOUS
<1>1. Atomic!CatalogInit
  BY DEF Init, CatalogInit, Atomic!CatalogInit
<1>2. Asked = {} /\ Retired = {}
  BY DEF Init, Asked, Retired
<1>3. \A p, d : CurrentLicense(p, d) = 0
  BY DEF Init, CurrentLicense, CurrentRows, NewestOf
<1> QED
  BY <1>1, <1>2, <1>3 DEF InForce, Atomic!GrantInit

\* Every step of the code is a step of the promise, or none.
LEMMA StepsAsPromised ==
    ASSUME IInv, AskedMayBeGranted, [Next]_vars
    PROVE  [Atomic!GrantNext]_abstractVars
<1>1. CASE Operate \/ PassTime
  <2>1. CatalogNext /\ UNCHANGED issueVars
    BY <1>1 DEF Operate, PassTime, CatalogNext
  <2> QED
    BY <2>1, CatalogSteps
<1>2. CASE StartIssue
  BY <1>2, StartPrepares, PrepareAsks
<1>3. CASE MarkWritten
  BY <1>3, MarkWrittenGrants
<1>4. CASE \/ Reserve \/ ReserveFails \/ WriteFile \/ CommitFails \/ UndoFile \/ UndoRows
           \/ Crash \/ Boot \/ BootStep
  BY <1>4, IdleSteps
<1>5. CASE UNCHANGED vars
  <2>1. UNCHANGED <<catalogVars, signed, written, supersededBy, phase, first>>
    BY <1>5 DEF vars, issueVars, storeVars, callVars
  <2>2. Asked' = Asked
    BY <2>1 DEF Asked, Batch
  <2> QED
    BY <2>1, <2>2, TablesKept, NothingGranted
<1> QED
  BY <1>1, <1>2, <1>3, <1>4, <1>5 DEF Next, CommitStep

\* However steps fail and wherever the process dies, a batch is granted whole, in one
\* step, or not at all, and only what the certificate, the key, the registrations and the
\* quota allow (issuance.ts:127-351: prepareBatch, commitPrepared and reconcile).
THEOREM GrantsAreAtomic == Spec => ImplementsAtomicIssue
<1>1. IInv /\ AskedMayBeGranted /\ [Next]_vars
        => [Atomic!GrantNext]_<<Atomic!catalogVars, Atomic!grantVars>>
  BY StepsAsPromised DEF abstractVars, catalogVars, Atomic!catalogVars, Atomic!grantVars
<1> QED
  BY <1>1, StartsAsPromised, IInvHolds, AskedHolds, PTL
     DEF Spec, ImplementsAtomicIssue, Atomic!GrantSpec
=============================================================================
