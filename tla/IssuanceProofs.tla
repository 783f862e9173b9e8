--------------------------- MODULE IssuanceProofs ---------------------------
(***************************************************************************)
(* Proofs about module Issuance, for every value of its constants: the     *)
(* invariant IInv is inductive, and the safety properties are parts of it. *)
(***************************************************************************)
EXTENDS Issuance, CatalogProofs

USE IssuanceConstants, CatalogConstants DEF LicenseIds

-----------------------------------------------------------------------------
(***************************************************************************)
(* The initial state and the steps that store nothing about licenses.      *)
(***************************************************************************)

\* Init satisfies the inductive invariant.
LEMMA InitIInv == Init => IInv
<1> SUFFICES ASSUME Init PROVE IInv
  OBVIOUS
<1>1. CatalogTypeOK
  BY DEF Init, CatalogInit, CatalogTypeOK, DeviceStatus
<1>2. signed = <<>> /\ signed \in Seq(SignedLicense) /\ Len(signed) = 0
  BY DEF Init
<1>3. TypeOK
  BY <1>1, <1>2 DEF Init, TypeOK, Phases
<1>4. QED
  BY <1>2, <1>3 DEF Init, IInv, RowsOK, CallOK, InCall, BatchReplaces, WrittenHasFile,
     OneCurrent, SupersededByGranted, AuditTellsGranted, GrantedNeverQuarantined

\* A step that leaves every variable of issuing alone preserves the invariant.
LEMMA IdleStep ==
    ASSUME IInv, CatalogTypeOK', UNCHANGED issueVars
    PROVE  IInv'
<1> USE DEF issueVars, storeVars, callVars
<1>1. TypeOK'
  BY DEF IInv, TypeOK, Phases
<1>2. RowsOK' /\ CallOK' /\ BatchReplaces' /\ WrittenHasFile'
  BY DEF IInv, RowsOK, CallOK, InCall, Batch, BatchReplaces, SamePair, WrittenHasFile
<1>3. OneCurrent' /\ SupersededByGranted' /\ AuditTellsGranted' /\ GrantedNeverQuarantined'
  BY DEF IInv, OneCurrent, SupersededByGranted, AuditTellsGranted, GrantedNeverQuarantined
<1>4. QED
  BY <1>1, <1>2, <1>3 DEF IInv

\* Only the phase and the local variables change, and no call is in flight after the
\* step: the call ended, the process died, or a start went on.
LEMMA LeaveCall ==
    ASSUME IInv, UNCHANGED <<catalogVars, storeVars>>,
           phase' \in Phases \ {"prepared", "writing", "undo"},
           first' \in Nat \ {0}, cursor' \in Nat, limit' \in Nat,
           orphans' \in SUBSET LicenseIds,
           phase' = "sweep" => orphans' \subseteq files \ (written \union pending)
    PROVE  IInv'
<1> USE DEF catalogVars, storeVars
<1>1. TypeOK'
  BY DEF IInv, TypeOK, CatalogTypeOK
<1>2. RowsOK' /\ WrittenHasFile'
  BY DEF IInv, RowsOK, WrittenHasFile
<1>3. CallOK' /\ BatchReplaces'
  BY DEF IInv, CallOK, InCall, BatchReplaces
<1>4. OneCurrent' /\ SupersededByGranted' /\ AuditTellsGranted' /\ GrantedNeverQuarantined'
  BY DEF IInv, OneCurrent, SupersededByGranted, AuditTellsGranted, GrantedNeverQuarantined
<1>5. QED
  BY <1>1, <1>2, <1>3, <1>4 DEF IInv

-----------------------------------------------------------------------------
(***************************************************************************)
(* Issuing.                                                                *)
(***************************************************************************)

\* What findCurrentLicense returns, given that a device has one license in force at
\* most: 0 exactly when there is none, and otherwise that license.
LEMMA CurrentIsTheRow ==
    ASSUME TypeOK, OneCurrent, NEW p, NEW d
    PROVE  /\ CurrentLicense(p, d) \in LicenseIds \union {0}
           /\ CurrentLicense(p, d) # 0 => CurrentLicense(p, d) \in CurrentRows(p, d)
           /\ \A k \in CurrentRows(p, d) : CurrentLicense(p, d) = k
<1>1. CurrentRows(p, d) \subseteq LicenseIds
  BY DEF TypeOK, CurrentRows
<1>2. \A j, k \in CurrentRows(p, d) : j = k
  BY DEF OneCurrent, CurrentRows
<1>3. CASE CurrentRows(p, d) = {}
  BY <1>3 DEF CurrentLicense, NewestOf
<1>4. ASSUME NEW k \in CurrentRows(p, d)
      PROVE  CurrentLicense(p, d) = k
  <2>1. k \in CurrentRows(p, d) /\ \A j \in CurrentRows(p, d) : j <= k
    BY <1>1, <1>2
  <2>2. PICK c \in CurrentRows(p, d) : CurrentLicense(p, d) = c
    BY <2>1 DEF CurrentLicense, NewestOf
  <2>3. QED
    BY <1>2, <2>2
<1>5. QED
  BY <1>1, <1>3, <1>4

\* Signing a batch preserves the invariant: its ids are new, and each license replaces
\* the one its device has in force.
LEMMA PrepareStep ==
    ASSUME IInv, NEW p \in Projects, NEW devs \in Seq(Devices), NEW requested \in Nat,
           \A i, j \in 1 .. Len(devs) : devs[i] = devs[j] => i = j,
           PrepareBatch(p, devs, requested)
    PROVE  IInv'
<1> DEFINE n == Len(signed)
           license(i) == [project |-> p, device |-> devs[i], control |-> active,
                          signedBy |-> key, issuedAt |-> now,
                          expiresAt |-> ResolveExpiry(requested, active),
                          supersedes |-> CurrentLicense(p, devs[i])]
           added == [i \in 1 .. Len(devs) |-> license(i)]
<1>1. TypeOK /\ OneCurrent /\ RowsOK /\ n \in Nat /\ Len(devs) \in Nat
  BY DEF IInv, TypeOK
<1>2. \A i \in 1 .. Len(devs) : license(i) \in SignedLicense
  <2>1. active \in Certs /\ key \in Keys /\ now \in Nat
    BY <1>1 DEF PrepareBatch, MayIssue, KeyMatches, CertUsable, TypeOK, CatalogTypeOK
  <2>2. ResolveExpiry(requested, active) \in Nat
    BY <2>1 DEF ResolveExpiry, DefaultExpiry
  <2>3. \A i \in 1 .. Len(devs) : CurrentLicense(p, devs[i]) \in LicenseIds \union {0}
    BY <1>1, CurrentIsTheRow
  <2>4. QED
    BY <2>1, <2>2, <2>3 DEF SignedLicense
<1>3. added \in Seq(SignedLicense) /\ Len(added) = Len(devs)
  BY <1>1, <1>2
<1>4. /\ signed' = signed \o added /\ Len(signed') = n + Len(devs)
      /\ signed' \in Seq(SignedLicense) /\ Len(signed') <= MaxLicenses
  BY <1>1, <1>3 DEF PrepareBatch, TypeOK
<1>5. \A i \in 1 .. n : signed'[i] = signed[i]
  BY <1>1, <1>3, <1>4 DEF TypeOK
<1>6. \A i \in n + 1 .. n + Len(devs) : i - n \in 1 .. Len(devs) /\ signed'[i] = license(i - n)
  BY <1>1, <1>3, <1>4 DEF TypeOK
<1>7. /\ first' = n + 1 /\ cursor' = n + 1 /\ phase' = "prepared"
      /\ Batch' = n + 1 .. n + Len(devs)
      /\ UNCHANGED <<catalogVars, pending, written, supersededBy, audit, files,
                     quarantined, limit, orphans>>
  BY <1>4 DEF PrepareBatch, Batch
<1>8. TypeOK'
  BY <1>1, <1>4, <1>7 DEF TypeOK, CatalogTypeOK, catalogVars, Phases
<1>9. RowsOK' /\ WrittenHasFile' /\ GrantedNeverQuarantined' /\ AuditTellsGranted'
  BY <1>1, <1>4, <1>7 DEF IInv, RowsOK, WrittenHasFile, GrantedNeverQuarantined, AuditTellsGranted
<1>10. CallOK'
  <2>1. /\ Batch' \intersect (written \union quarantined) = {}
        /\ \A i \in Batch' : <<"interrupted", i>> \notin audit
    BY <1>1, <1>7 DEF RowsOK
  <2>2. n + 1 <= Len(signed') + 1
    BY <1>1, <1>4
  <2>3. QED
    BY <1>7, <2>1, <2>2 DEF CallOK, InCall
<1>11. written \subseteq 1 .. n
  BY <1>1 DEF RowsOK
<1>12. OneCurrent' /\ SupersededByGranted'
  <2>0. \A i \in written : signed'[i] = signed[i]
    BY <1>5, <1>11
  <2>1. OneCurrent'
    <3> SUFFICES ASSUME NEW i \in written, NEW j \in written,
                        signed'[i].project = signed'[j].project,
                        signed'[i].device = signed'[j].device,
                        supersededBy[i] = 0, supersededBy[j] = 0
                 PROVE  i = j
      BY <1>7 DEF OneCurrent
    <3>1. QED
      BY <1>1, <2>0 DEF OneCurrent
  <2>2. SupersededByGranted
    BY DEF IInv
  <2>3. \A i \in LicenseIds : supersededBy[i] # 0 =>
          signed'[i] = signed[i] /\ signed'[supersededBy[i]] = signed[supersededBy[i]]
    BY <2>2, <1>5, <1>11 DEF SupersededByGranted
  <2>4. SupersededByGranted'
    BY <1>7, <2>2, <2>3 DEF SupersededByGranted
  <2>5. QED
    BY <2>1, <2>4
<1>13. BatchReplaces'
  <2> SUFFICES ASSUME NEW i \in n + 1 .. n + Len(devs)
               PROVE  /\ \A j \in n + 1 .. n + Len(devs) : SamePair(i, j)' => i = j
                      /\ \A k \in LicenseIds : signed'[i].supersedes = k <=>
                            k \in written /\ SamePair(i, k)' /\ supersededBy[k] = 0
    BY <1>7 DEF BatchReplaces, SamePair
  <2>1. /\ signed'[i].project = p /\ signed'[i].device = devs[i - n]
        /\ signed'[i].supersedes = CurrentLicense(p, devs[i - n])
    <3>1. signed'[i] = license(i - n)
      BY <1>6
    <3>2. QED
      BY <3>1
  <2>2. ASSUME NEW j \in n + 1 .. n + Len(devs), SamePair(i, j)'
        PROVE  i = j
    <3>1. signed'[j].device = devs[j - n] /\ j - n \in 1 .. Len(devs) /\ i - n \in 1 .. Len(devs)
      <4>1. signed'[j] = license(j - n)
        BY <1>6
      <4>2. QED
        BY <1>1, <4>1
    <3>2. devs[i - n] = devs[j - n]
      BY <2>1, <2>2, <3>1 DEF SamePair
    <3>3. i - n = j - n
      BY <3>1, <3>2
    <3>4. QED
      BY <1>1, <3>3
  <2>3. \A k \in LicenseIds :
          k \in written /\ SamePair(i, k)' /\ supersededBy[k] = 0
            <=> k \in CurrentRows(p, devs[i - n])
    BY <1>5, <1>11, <2>1 DEF SamePair, CurrentRows
  <2>4. \A k \in LicenseIds : CurrentLicense(p, devs[i - n]) = k
                                <=> k \in CurrentRows(p, devs[i - n])
    BY <1>1, CurrentIsTheRow
  <2>5. QED
    BY <2>1, <2>2, <2>3, <2>4
<1>14. QED
  BY <1>8, <1>9, <1>10, <1>12, <1>13 DEF IInv

\* The first transaction preserves the invariant.
LEMMA ReserveStep == ASSUME IInv, Reserve PROVE IInv'
<1> USE DEF Reserve, InsertLicenses, catalogVars
<1>1. /\ TypeOK /\ RowsOK /\ CallOK /\ Len(signed) \in Nat /\ first \in Nat \ {0}
      /\ Batch \intersect (written \union quarantined) = {}
      /\ \A i \in Batch : <<"interrupted", i>> \notin audit
      /\ cursor = first /\ first <= Len(signed) + 1
  BY DEF IInv, TypeOK, CallOK, InCall
<1>2. Batch \subseteq 1 .. Len(signed) /\ Batch \subseteq LicenseIds /\ Batch' = Batch
  BY <1>1 DEF Batch, TypeOK
<1>3. TypeOK'
  BY <1>1, <1>2 DEF TypeOK, CatalogTypeOK, Phases
<1>4. RowsOK' /\ WrittenHasFile' /\ GrantedNeverQuarantined'
  BY <1>1, <1>2 DEF IInv, RowsOK, WrittenHasFile, GrantedNeverQuarantined
<1>5. CallOK'
  <2>1. phase' = "writing" /\ Batch \subseteq pending' /\ first .. cursor - 1 = {}
    BY <1>1
  <2>2. QED
    BY <1>1, <1>2, <2>1 DEF CallOK, InCall
<1>6. BatchReplaces'
  <2>1. BatchReplaces /\ phase = "prepared"
    BY DEF IInv
  <2>2. \A i \in Batch :
          /\ \A j \in Batch : SamePair(i, j) => i = j
          /\ \A k \in LicenseIds : signed[i].supersedes = k <=>
                 k \in written /\ SamePair(i, k) /\ supersededBy[k] = 0
    BY <2>1 DEF BatchReplaces
  <2>3. UNCHANGED <<signed, written, supersededBy>>
    OBVIOUS
  <2>4. QED
    BY <1>2, <2>2, <2>3 DEF BatchReplaces, SamePair
<1>7. OneCurrent' /\ SupersededByGranted'
  BY DEF IInv, OneCurrent, SupersededByGranted
<1>8. AuditTellsGranted'
  <2>1. AuditTellsGranted /\ audit' = audit /\ written' = written /\ pending' = pending \union Batch
    BY DEF IInv
  <2>2. \A i \in LicenseIds : <<"interrupted", i>> \in audit => i \notin pending' \union written
    BY <1>1, <2>1 DEF AuditTellsGranted
  <2>3. QED
    BY <2>1, <2>2 DEF AuditTellsGranted
<1>9. QED
  BY <1>3, <1>4, <1>5, <1>6, <1>7, <1>8 DEF IInv

\* Writing the next file preserves the invariant.
LEMMA WriteFileStep == ASSUME IInv, WriteFile PROVE IInv'
<1> USE DEF WriteFile, catalogVars
<1>1. TypeOK /\ RowsOK /\ CallOK /\ Len(signed) \in Nat /\ first \in Nat \ {0} /\ cursor \in Nat
  BY DEF IInv, TypeOK
<1>2. cursor \in 1 .. Len(signed) /\ cursor \in LicenseIds /\ Batch' = Batch
  BY <1>1 DEF CallOK, TypeOK, Batch
<1>3. TypeOK'
  BY <1>1, <1>2 DEF TypeOK, CatalogTypeOK, Phases
<1>4. RowsOK' /\ WrittenHasFile' /\ GrantedNeverQuarantined'
  BY <1>1, <1>2 DEF IInv, RowsOK, WrittenHasFile, GrantedNeverQuarantined
<1>5. CallOK'
  BY <1>1, <1>2 DEF CallOK, InCall
<1>6. BatchReplaces'
  BY <1>2 DEF IInv, BatchReplaces, SamePair
<1>7. OneCurrent' /\ SupersededByGranted' /\ AuditTellsGranted'
  BY DEF IInv, OneCurrent, SupersededByGranted, AuditTellsGranted
<1>8. QED
  BY <1>3, <1>4, <1>5, <1>6, <1>7 DEF IInv

\* What the last transaction writes to superseded_by, row by row.
LEMMA LinksWritten ==
    ASSUME IInv, MarkWritten
    PROVE  /\ \A k \in LicenseIds : (\A j \in Batch : signed[j].supersedes # k)
                => supersededBy'[k] = supersededBy[k]
           /\ \A k \in LicenseIds : (\E j \in Batch : signed[j].supersedes = k)
                => supersededBy'[k] \in Batch /\ signed[supersededBy'[k]].supersedes = k
<1>1. supersededBy' = [i \in LicenseIds |->
                          IF \E j \in Batch : signed[j].supersedes = i
                          THEN CHOOSE j \in Batch : signed[j].supersedes = i
                          ELSE supersededBy[i]]
  BY DEF MarkWritten, GrantLicenses
<1>2. ASSUME NEW k \in LicenseIds, \A j \in Batch : signed[j].supersedes # k
      PROVE  supersededBy'[k] = supersededBy[k]
  BY <1>1, <1>2
<1>3. ASSUME NEW k \in LicenseIds, NEW j \in Batch, signed[j].supersedes = k
      PROVE  supersededBy'[k] \in Batch /\ signed[supersededBy'[k]].supersedes = k
  <2>1. supersededBy'[k] = CHOOSE l \in Batch : signed[l].supersedes = k
    BY <1>1, <1>3
  <2>2. QED
    BY <1>3, <2>1
<1>4. QED
  BY <1>2, <1>3

\* The last transaction preserves the invariant: the batch becomes written with its
\* files in place, and each license of it takes the place of the one it replaces.
LEMMA MarkWrittenStep == ASSUME IInv, MarkWritten PROVE IInv'
<1>1. /\ TypeOK /\ RowsOK /\ CallOK /\ BatchReplaces /\ OneCurrent /\ SupersededByGranted
      /\ Len(signed) \in Nat /\ first \in Nat \ {0} /\ cursor \in Nat
  BY DEF IInv, TypeOK
<1>2. /\ phase = "writing" /\ cursor > Len(signed) /\ phase' = "ready"
      /\ pending' = pending \ Batch /\ written' = written \union Batch
      /\ audit' = audit \union ({"issued"} \X Batch)
      /\ first' = 1 /\ cursor' = 1 /\ limit' = 0 /\ orphans' = {}
      /\ UNCHANGED <<signed, files, quarantined>> /\ UNCHANGED catalogVars
  BY DEF MarkWritten, GrantLicenses, CallEnds
<1>3. Batch \subseteq 1 .. Len(signed) /\ Batch \subseteq LicenseIds
  BY <1>1 DEF Batch, TypeOK
<1>4. Batch \subseteq files /\ Batch \subseteq pending /\ Batch \intersect (written \union quarantined) = {}
  BY <1>1, <1>2 DEF CallOK, InCall, Batch
<1>5. supersededBy' \in [LicenseIds -> LicenseIds \union {0}]
  <2>1. supersededBy' = [i \in LicenseIds |-> supersededBy'[i]]
    BY DEF MarkWritten, GrantLicenses
  <2>2. \A k \in LicenseIds : supersededBy'[k] \in LicenseIds \union {0}
    BY <1>1, <1>3, LinksWritten DEF TypeOK
  <2>3. QED
    BY <2>1, <2>2
<1>6. TypeOK'
  <2>1. audit' \in SUBSET ({"issued", "interrupted"} \X LicenseIds)
    BY <1>1, <1>2, <1>3 DEF TypeOK
  <2>2. QED
    BY <1>1, <1>2, <1>3, <1>5, <2>1 DEF TypeOK, CatalogTypeOK, catalogVars, Phases
<1>7. RowsOK' /\ WrittenHasFile' /\ GrantedNeverQuarantined'
  BY <1>1, <1>2, <1>3, <1>4 DEF IInv, RowsOK, WrittenHasFile, GrantedNeverQuarantined
<1>8. CallOK' /\ BatchReplaces'
  BY <1>2 DEF CallOK, InCall, BatchReplaces
<1>9. \A i \in Batch, j \in Batch : SamePair(i, j) => i = j
  BY <1>1, <1>2 DEF BatchReplaces
<1>10. \A i \in Batch, k \in LicenseIds :
          signed[i].supersedes = k <=> k \in written /\ SamePair(i, k) /\ supersededBy[k] = 0
  BY <1>1, <1>2 DEF BatchReplaces
<1>11. written \subseteq LicenseIds
  BY <1>1 DEF TypeOK
<1>12. OneCurrent'
  <2> SUFFICES ASSUME NEW i \in written', NEW j \in written', SamePair(i, j),
                      supersededBy'[i] = 0, supersededBy'[j] = 0
               PROVE  i = j
    BY <1>2 DEF OneCurrent, SamePair
  <2>1. ASSUME NEW k \in written, NEW l \in Batch, SamePair(l, k), supersededBy'[k] = 0
        PROVE  FALSE
    <3>1. signed[l].supersedes # k
      <4>1. SUFFICES ASSUME signed[l].supersedes = k PROVE FALSE
        OBVIOUS
      <4>2. supersededBy'[k] \in Batch
        BY <4>1, <1>11, LinksWritten
      <4>3. QED
        BY <2>1, <4>2, <1>3
    <3>2. supersededBy[k] # 0
      BY <2>1, <3>1, <1>10, <1>11
    <3>3. PICK m \in Batch : signed[m].supersedes = k
      BY <2>1, <3>2, <1>11, LinksWritten
    <3>4. QED
      BY <3>2, <3>3, <1>10, <1>11
  <2>2. CASE i \in written /\ j \in written
    <3>1. supersededBy[i] = 0 /\ supersededBy[j] = 0
      <4>1. ASSUME NEW k \in written, supersededBy'[k] = 0 PROVE supersededBy[k] = 0
        <5>1. \A l \in Batch : signed[l].supersedes # k
          BY <4>1, <1>3, <1>11, LinksWritten
        <5>2. QED
          BY <4>1, <5>1, <1>11, LinksWritten
      <4>2. QED
        BY <2>2, <4>1
    <3>2. QED
      BY <2>2, <3>1, <1>1 DEF OneCurrent, SamePair
  <2>3. CASE i \in Batch /\ j \in Batch
    BY <2>3, <1>9
  <2>4. QED
    BY <1>2, <2>1, <2>2, <2>3 DEF SamePair
<1>13. SupersededByGranted'
  <2> SUFFICES ASSUME NEW i \in LicenseIds, supersededBy'[i] # 0
               PROVE  /\ i \in written' /\ supersededBy'[i] \in written' /\ i < supersededBy'[i]
                      /\ signed[i].project = signed[supersededBy'[i]].project
                      /\ signed[i].device = signed[supersededBy'[i]].device
    BY <1>2 DEF SupersededByGranted
  <2>1. CASE \A j \in Batch : signed[j].supersedes # i
    <3>1. supersededBy'[i] = supersededBy[i]
      BY <2>1, LinksWritten
    <3>2. QED
      BY <1>1, <1>2, <3>1 DEF SupersededByGranted
  <2>2. CASE \E j \in Batch : signed[j].supersedes = i
    <3>1. PICK j : j = supersededBy'[i]
      OBVIOUS
    <3>2. j \in Batch /\ signed[j].supersedes = i
      BY <2>2, <3>1, LinksWritten
    <3>3. i \in written /\ SamePair(j, i)
      BY <3>2, <1>10
    <3>4. i < j
      BY <3>2, <3>3, <1>1, <1>4 DEF Batch, RowsOK
    <3>5. QED
      BY <1>2, <3>1, <3>2, <3>3, <3>4 DEF SamePair
  <2>3. QED
    BY <2>1, <2>2
<1>14. AuditTellsGranted'
  <2>1. \A i \in LicenseIds : <<"issued", i>> \in audit' <=> <<"issued", i>> \in audit \/ i \in Batch
    BY <1>2
  <2>2. \A i \in LicenseIds : <<"interrupted", i>> \in audit' <=> <<"interrupted", i>> \in audit
    BY <1>2
  <2>3. \A i \in Batch : <<"interrupted", i>> \notin audit
    BY <1>1, <1>2 DEF CallOK, InCall
  <2>4. QED
    BY <1>2, <2>1, <2>2, <2>3 DEF IInv, AuditTellsGranted
<1>15. QED
  BY <1>6, <1>7, <1>8, <1>12, <1>13, <1>14 DEF IInv

-----------------------------------------------------------------------------
(***************************************************************************)
(* Undoing, stopping, starting and reconciling.                            *)
(***************************************************************************)

\* Deleting pending records takes no link away: a link never points to one.
LEMMA NothingUnlinked ==
    ASSUME IInv, NEW deleted \in SUBSET pending
    PROVE  Unlinked(deleted) = supersededBy
<1>1. /\ supersededBy = [i \in LicenseIds |-> supersededBy[i]]
      /\ pending \intersect written = {} /\ SupersededByGranted /\ 0 \notin pending
  BY DEF IInv, TypeOK, RowsOK
<1>2. \A i \in LicenseIds : supersededBy[i] \notin deleted
  BY <1>1 DEF SupersededByGranted
<1>3. Unlinked(deleted) = [i \in LicenseIds |-> supersededBy[i]]
  BY <1>2 DEF Unlinked
<1>4. QED
  BY <1>1, <1>3

\* A license that is not in force, its record or its file, goes away: the invariant is
\* preserved as long as the step is one of the undo or of reconcile.
LEMMA RemovalStep ==
    ASSUME IInv,
           UNCHANGED <<catalogVars, signed, written, supersededBy>>,
           pending' \subseteq pending,
           files' \subseteq files, written \subseteq files',
           quarantined' \subseteq quarantined \union (files \ written),
           audit \subseteq audit',
           audit' \subseteq audit \union ({"interrupted"} \X (pending \ pending')),
           TypeOK', CallOK', phase' \notin {"prepared", "writing"}
    PROVE  IInv'
<1>1. TypeOK /\ RowsOK
  BY DEF IInv
<1>2. RowsOK'
  <2>1. \A e \in audit' : e[2] \in 1 .. Len(signed)
    BY <1>1 DEF RowsOK
  <2>2. QED
    BY <1>1, <2>1 DEF RowsOK
<1>3. BatchReplaces'
  BY DEF BatchReplaces
<1>4. WrittenHasFile' /\ OneCurrent' /\ SupersededByGranted'
  BY DEF IInv, WrittenHasFile, OneCurrent, SupersededByGranted
<1>5. GrantedNeverQuarantined'
  BY DEF IInv, GrantedNeverQuarantined
<1>6. AuditTellsGranted'
  <2>1. AuditTellsGranted /\ written' = written /\ pending \intersect written = {}
    BY <1>1 DEF IInv, RowsOK
  <2>2. ASSUME NEW i \in LicenseIds
        PROVE  <<"issued", i>> \in audit' <=> i \in written'
    <3>1. <<"issued", i>> \in audit' <=> <<"issued", i>> \in audit
      OBVIOUS
    <3>2. QED
      BY <2>1, <3>1 DEF AuditTellsGranted
  <2>3. ASSUME NEW i \in LicenseIds, <<"interrupted", i>> \in audit'
        PROVE  i \notin pending' \union written'
    <3>1. <<"interrupted", i>> \in audit \/ i \in pending \ pending'
      BY <2>3
    <3>2. QED
      BY <2>1, <3>1 DEF AuditTellsGranted
  <2>4. QED
    BY <2>2, <2>3 DEF AuditTellsGranted
<1>7. QED
  BY <1>2, <1>3, <1>4, <1>5, <1>6 DEF IInv

\* So does starting the undo.
LEMMA CommitFailsStep == ASSUME IInv, CommitFails PROVE IInv'
<1> USE DEF CommitFails, catalogVars, storeVars
<1>1. TypeOK /\ CallOK /\ Len(signed) \in Nat /\ first \in Nat \ {0} /\ cursor \in Nat /\ first <= cursor
  BY DEF IInv, TypeOK, CallOK
<1>2. limit' \in Nat /\ limit' <= Len(signed) /\ cursor' = first /\ first' = first
  BY <1>1 DEF CallOK
<1>3. TypeOK'
  BY <1>1, <1>2 DEF TypeOK, CatalogTypeOK, Phases
<1>4. CallOK'
  BY <1>1, <1>2 DEF CallOK, InCall, Batch
<1>5. QED
  BY <1>3, <1>4, RemovalStep DEF IInv, WrittenHasFile

\* A step of the undo loop preserves the invariant, whether or not the file goes.
LEMMA UndoFileStep == ASSUME IInv, UndoFile PROVE IInv'
<1> USE DEF UndoFile, catalogVars
<1>1. /\ TypeOK /\ CallOK /\ WrittenHasFile
      /\ Len(signed) \in Nat /\ first \in Nat \ {0} /\ cursor \in Nat /\ limit \in Nat
  BY DEF IInv, TypeOK
<1>2. cursor \in Batch /\ cursor \notin written
  BY <1>1 DEF CallOK, InCall, Batch
<1>3. TypeOK'
  BY <1>1 DEF TypeOK, CatalogTypeOK, Phases
<1>4. CallOK'
  BY <1>1 DEF CallOK, InCall, Batch
<1>5. files' \subseteq files /\ written \subseteq files'
  BY <1>1, <1>2 DEF WrittenHasFile
<1>6. QED
  BY <1>3, <1>4, <1>5, RemovalStep

\* The end of the undo preserves the invariant, whether or not the records go.
LEMMA UndoRowsStep == ASSUME IInv, UndoRows PROVE IInv'
<1> USE DEF UndoRows, CallEnds, catalogVars
<1>1. TypeOK /\ WrittenHasFile
  BY DEF IInv
<1>2. pending' \subseteq pending /\ supersededBy' = supersededBy
  <2>1. pending' \subseteq pending /\ pending \ pending' \in SUBSET pending
    OBVIOUS
  <2>2. Unlinked(pending \ pending') = supersededBy
    BY <2>1, NothingUnlinked
  <2>3. supersededBy' = Unlinked(pending \ pending')
    OBVIOUS
  <2>4. QED
    BY <2>1, <2>2, <2>3
<1>3. TypeOK'
  <2>1. CatalogTypeOK'
    BY <1>1 DEF TypeOK, CatalogTypeOK
  <2>2. supersededBy' \in [LicenseIds -> LicenseIds \union {0}]
    BY <1>1, <1>2 DEF TypeOK
  <2>3. /\ phase' = "ready" /\ first' = 1 /\ cursor' = 1 /\ limit' = 0 /\ orphans' = {}
        /\ UNCHANGED <<signed, written, audit, files, quarantined>>
    OBVIOUS
  <2>4. pending' \in SUBSET LicenseIds
    BY <1>1, <1>2 DEF TypeOK
  <2> HIDE DEF UndoRows, CallEnds, catalogVars
  <2>5. QED
    BY <1>1, <2>1, <2>2, <2>3, <2>4 DEF TypeOK, Phases
<1>4. CallOK'
  BY DEF CallOK, InCall
<1>5. QED
  BY <1>1, <1>2, <1>3, <1>4, RemovalStep DEF WrittenHasFile

\* Rolling back an interrupted license preserves the invariant.
LEMMA RollBackStep == ASSUME IInv, NEW i \in LicenseIds, RollBack(i) PROVE IInv'
<1> USE DEF RollBack, catalogVars
<1>1. TypeOK /\ RowsOK /\ WrittenHasFile
  BY DEF IInv
<1>2. i \notin written /\ i \in pending \ pending' /\ supersededBy' = supersededBy
  <2>1. {i} \in SUBSET pending /\ i \notin written /\ i \in pending \ pending'
    BY <1>1 DEF RowsOK
  <2>2. Unlinked({i}) = supersededBy
    BY <2>1, NothingUnlinked
  <2>3. supersededBy' = Unlinked({i})
    OBVIOUS
  <2>4. QED
    BY <2>1, <2>2, <2>3
<1>3. TypeOK'
  <2>1. CatalogTypeOK'
    BY <1>1 DEF TypeOK, CatalogTypeOK
  <2>2. supersededBy' \in [LicenseIds -> LicenseIds \union {0}]
    BY <1>1, <1>2 DEF TypeOK
  <2>3. audit' \in SUBSET ({"issued", "interrupted"} \X LicenseIds)
    BY <1>1 DEF TypeOK
  <2>4. QED
    BY <1>1, <2>1, <2>2, <2>3 DEF TypeOK, Phases
<1>4. CallOK'
  BY DEF CallOK, InCall
<1>5. files' \subseteq files /\ written \subseteq files'
  BY <1>1, <1>2 DEF WrittenHasFile
<1>6. QED
  BY <1>2, <1>3, <1>4, <1>5, RemovalStep

\* A rollback that fails halfway preserves the invariant.
LEMMA RollBackFailsStep == ASSUME IInv, NEW i \in LicenseIds, RollBackFails(i) PROVE IInv'
<1> USE DEF RollBackFails, catalogVars
<1>1. TypeOK /\ RowsOK /\ WrittenHasFile
  BY DEF IInv
<1>2. i \notin written
  BY <1>1 DEF RowsOK
<1>3. TypeOK'
  BY <1>1 DEF TypeOK, CatalogTypeOK, Phases
<1>4. CallOK'
  BY DEF CallOK, InCall
<1>5. files' \subseteq files /\ written \subseteq files'
  BY <1>1, <1>2 DEF WrittenHasFile
<1>6. QED
  BY <1>3, <1>4, <1>5, RemovalStep

\* Moving an orphan, or failing to, preserves the invariant.
LEMMA SweepStep ==
    ASSUME IInv, NEW i \in LicenseIds, QuarantineOrphan(i) \/ SweepFails(i)
    PROVE  IInv'
<1> USE DEF QuarantineOrphan, SweepFails, CallEnds, catalogVars
<1>1. TypeOK /\ WrittenHasFile /\ CallOK
  BY DEF IInv
<1>2. i \in files \ written
  BY <1>1 DEF CallOK
<1>3. TypeOK'
  <2>1. CASE QuarantineOrphan(i)
    BY <1>1, <2>1 DEF TypeOK, CatalogTypeOK, Phases
  <2>2. CASE SweepFails(i)
    <3>1. files' \in SUBSET LicenseIds /\ quarantined' \in SUBSET LicenseIds
      BY <1>1, <2>2 DEF TypeOK
    <3>2. /\ phase' = "broken" /\ first' = 1 /\ cursor' = 1 /\ limit' = 0 /\ orphans' = {}
          /\ UNCHANGED <<signed, pending, written, supersededBy, audit>>
          /\ UNCHANGED <<projects, device, imported, active, key, now>>
      BY <2>2
    <3>3. CatalogTypeOK'
      BY <1>1, <3>2 DEF TypeOK, CatalogTypeOK
    <3>4. QED
      BY <1>1, <3>1, <3>2, <3>3 DEF TypeOK, Phases
  <2>3. QED
    BY <2>1, <2>2
<1>4. CallOK'
  <2>1. CASE QuarantineOrphan(i)
    <3>1. orphans \subseteq files \ (written \union pending)
      BY <1>1, <2>1 DEF CallOK
    <3>2. orphans' \subseteq files' \ (written' \union pending') /\ phase' = "sweep"
      BY <2>1, <3>1
    <3>3. QED
      BY <3>2 DEF CallOK, InCall
  <2>2. CASE SweepFails(i)
    BY <2>2 DEF CallOK, InCall
  <2>3. QED
    BY <2>1, <2>2
<1>5. /\ files' \subseteq files /\ written \subseteq files'
      /\ quarantined' \subseteq quarantined \union (files \ written)
      /\ phase' \notin {"prepared", "writing"}
  <2>1. files' \in {files, files \ {i}} /\ quarantined' \in {quarantined, quarantined \union {i}}
    OBVIOUS
  <2>2. phase' \in {"sweep", "broken"}
    OBVIOUS
  <2>3. QED
    BY <1>1, <1>2, <2>1, <2>2 DEF WrittenHasFile
<1>6. QED
  BY <1>3, <1>4, <1>5, RemovalStep

-----------------------------------------------------------------------------
(***************************************************************************)
(* The invariant is inductive.                                             *)
(***************************************************************************)

\* Every way of starting an issue signs a batch for distinct devices.
LEMMA StartIssueStep == ASSUME IInv, StartIssue PROVE IInv'
<1>1. PICK p \in Projects, requested \in 0 .. MaxTime + 1 :
        \/ \E d \in Devices : IssueLicense(p, d, requested)
        \/ \E devs \in BatchInputs : IssueLicensesBatch(p, devs, requested)
        \/ \E d \in Devices : RenewLicense(p, d, requested)
  BY DEF StartIssue
<1>2. requested \in Nat
  OBVIOUS
<1>3. ASSUME NEW d \in Devices, PrepareBatch(p, <<d>>, requested) PROVE IInv'
  <2>1. <<d>> \in Seq(Devices) /\ \A i, j \in 1 .. Len(<<d>>) : <<d>>[i] = <<d>>[j] => i = j
    OBVIOUS
  <2>2. QED
    BY <1>2, <1>3, <2>1, PrepareStep
<1>4. ASSUME NEW devs \in BatchInputs, PrepareBatch(p, devs, requested) PROVE IInv'
  <2>1. PICK n \in 1 .. Cardinality(Devices) : devs \in [1 .. n -> Devices]
    <3>1. devs \in UNION {[1 .. n -> Devices] : n \in 1 .. Cardinality(Devices)}
      BY DEF BatchInputs
    <3>2. PICK S \in {[1 .. n -> Devices] : n \in 1 .. Cardinality(Devices)} : devs \in S
      BY <3>1, Zenon
    <3>3. PICK n \in 1 .. Cardinality(Devices) : S = [1 .. n -> Devices]
      BY <3>2, Zenon
    <3>4. QED
      BY <3>2, <3>3
  <2>2. n \in Nat /\ devs \in Seq(Devices) /\ Len(devs) = n /\ DOMAIN devs = 1 .. n
    BY <2>1
  <2>3. \A i, j \in 1 .. Len(devs) : devs[i] = devs[j] => i = j
    BY <2>2 DEF BatchInputs
  <2>4. QED
    BY <1>2, <1>4, <2>2, <2>3, PrepareStep
<1>5. QED
  BY <1>1, <1>3, <1>4 DEF IssueLicense, IssueLicensesBatch, RenewLicense

\* Steps after which no call is in flight and nothing was stored.
LEMMA QuietStep ==
    ASSUME IInv, ReserveFails \/ Crash \/ Boot \/ ListOrphans \/ BootEnds
    PROVE  IInv'
<1> USE DEF ReserveFails, Crash, Boot, ListOrphans, OrphanFiles, BootEnds, CallEnds
<1>1. UNCHANGED <<catalogVars, storeVars>>
  OBVIOUS
<1>2. phase' \in Phases \ {"prepared", "writing", "undo"}
  BY DEF Phases
<1>3. TypeOK
  BY DEF IInv
<1>4. first' \in Nat \ {0} /\ cursor' \in Nat /\ limit' \in Nat
  BY <1>3 DEF TypeOK
<1>5. orphans' \in SUBSET LicenseIds
  BY <1>3 DEF TypeOK
<1>6. phase' = "sweep" => orphans' \subseteq files \ (written \union pending)
  OBVIOUS
<1>7. QED
  BY <1>1, <1>2, <1>4, <1>5, <1>6, LeaveCall

\* IInv is preserved by every step.
LEMMA NextIInv == IInv /\ [Next]_vars => IInv'
<1> SUFFICES ASSUME IInv, [Next]_vars PROVE IInv'
  OBVIOUS
<1>1. CatalogTypeOK
  BY DEF IInv, TypeOK
<1>2. CASE Operate \/ PassTime
  <2>1. CatalogNext /\ UNCHANGED issueVars
    BY <1>2 DEF Operate, PassTime, CatalogNext
  <2>2. QED
    BY <1>1, <2>1, CatalogTypes, IdleStep
<1>3. CASE StartIssue
  BY <1>3, StartIssueStep
<1>4. CASE CommitStep
  BY <1>4, ReserveStep, QuietStep, WriteFileStep, MarkWrittenStep, CommitFailsStep,
     UndoFileStep, UndoRowsStep DEF CommitStep
<1>5. CASE Crash \/ Boot
  BY <1>5, QuietStep
<1>6. CASE BootStep
  BY <1>6, RollBackStep, RollBackFailsStep, SweepStep, QuietStep DEF BootStep
<1>7. CASE UNCHANGED vars
  <2>1. UNCHANGED issueVars /\ UNCHANGED catalogVars
    BY <1>7 DEF vars
  <2>2. CatalogTypeOK'
    BY <1>1, <2>1 DEF CatalogTypeOK, catalogVars
  <2>3. QED
    BY <2>1, <2>2, IdleStep
<1>8. QED
  BY <1>2, <1>3, <1>4, <1>5, <1>6, <1>7 DEF Next

\* IInv holds in every reachable state.
LEMMA IInvHolds == Spec => []IInv
BY InitIInv, NextIInv, PTL DEF Spec

-----------------------------------------------------------------------------
(***************************************************************************)
(* The safety properties.                                                  *)
(***************************************************************************)

\* Every variable stays inside its type, for any number of devices and licenses
\* (all of issuance.ts, license-files.ts and the tables they use).
THEOREM TypeCorrect == Spec => []TypeOK
<1>1. IInv => TypeOK
  BY DEF IInv
<1>2. QED
  BY <1>1, IInvHolds, PTL

\* A record marked written always has its file (issuance.ts:206-323).
THEOREM FilesOfWritten == Spec => []WrittenHasFile
<1>1. IInv => WrittenHasFile
  BY DEF IInv
<1>2. QED
  BY <1>1, IInvHolds, PTL

\* No device ever has two licenses in force (issuance.ts:165-204, 263-300).
THEOREM OneLicenseInForce == Spec => []OneCurrent
<1>1. IInv => OneCurrent
  BY DEF IInv
<1>2. QED
  BY <1>1, IInvHolds, PTL

\* A superseded license was replaced by a later, granted license of the same device
\* (issuance.ts:263-300).
THEOREM SupersededOnlyByGranted == Spec => []SupersededByGranted
<1>1. IInv => SupersededByGranted
  BY DEF IInv
<1>2. QED
  BY <1>1, IInvHolds, PTL

\* The audit log says exactly which licenses were granted (issuance.ts:263-300, 332-351).
THEOREM AuditIsExact == Spec => []AuditTellsGranted
<1>1. IInv => AuditTellsGranted
  BY DEF IInv
<1>2. QED
  BY <1>1, IInvHolds, PTL

\* Reconcile never quarantines the file of a granted license (issuance.ts:353-370).
THEOREM NeverQuarantined == Spec => []GrantedNeverQuarantined
<1>1. IInv => GrantedNeverQuarantined
  BY DEF IInv
<1>2. QED
  BY <1>1, IInvHolds, PTL

\* A license whose issue failed is not granted by any later step (issuance.ts:263-321):
\* only the last transaction extends the written records, and only by its own batch.
THEOREM FailureIsFinal == Spec => FailedStaysFailed
<1>1. ASSUME IInv, [Next]_vars, NEW i \in 1 .. Len(signed), i \notin written,
             ~ (phase = "writing" /\ i \in Batch)
      PROVE  i \notin written'
  <2>1. CASE MarkWritten
    BY <1>1, <2>1 DEF MarkWritten, GrantLicenses
  <2>2. CASE UNCHANGED written
    BY <1>1, <2>2
  <2>3. MarkWritten \/ UNCHANGED written
    BY <1>1 DEF Next, vars, issueVars, storeVars, Operate, PassTime, StartIssue, IssueLicense,
       IssueLicensesBatch, RenewLicense, PrepareBatch, CommitStep, Reserve, ReserveFails,
       WriteFile, CommitFails, UndoFile, UndoRows, Crash, Boot, BootStep, RollBack,
       RollBackFails, ListOrphans, QuarantineOrphan, SweepFails, BootEnds
  <2>4. QED
    BY <2>1, <2>2, <2>3
<1>2. IInv /\ [Next]_vars =>
        [\A i \in 1 .. Len(signed) :
           i \notin written /\ ~ (phase = "writing" /\ i \in Batch) => i \notin written']_vars
  BY <1>1
<1>3. QED
  BY <1>2, IInvHolds, PTL DEF Spec, FailedStaysFailed
=============================================================================
