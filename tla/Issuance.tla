------------------------------ MODULE Issuance ------------------------------
(***************************************************************************)
(* Issuing machine licenses on the desktop console, and the recovery that  *)
(* runs at the next start when an issue was interrupted.  Translated from  *)
(*   desktop/src/core/services/{issuance,license-files}.ts,                *)
(*   desktop/src/core/db/repositories.ts and                               *)
(*   desktop/src/main/license-runtime.ts.                                  *)
(*                                                                         *)
(* An issue is one synchronous call, but it spans two stores that share no *)
(* transaction: SQLite and a directory of license files.  The code reserves*)
(* the records, writes the files one by one, then marks the records, and   *)
(* undoes what it did when a step fails.  Each of those steps is an action *)
(* here, each may fail, and the process may die between any two.           *)
(*                                                                         *)
(* The process has one thread, so "phase" says where the one call in       *)
(* flight stands; other operations run only in phase "ready".              *)
(***************************************************************************)
EXTENDS Catalog, Sequences

CONSTANTS
    DefaultValidity,   \* DEFAULT_VALIDITY_DAYS
    MaxLicenses        \* bound on the licenses ever signed

ASSUME IssuanceConstants == DefaultValidity \in Nat \ {0} /\ MaxLicenses \in Nat

VARIABLES
    signed,        \* every license signed so far, oldest first; an index is its id
    pending,       \* rows of table licenses with file_state = 'pending'
    written,       \* rows with file_state = 'written'
    supersededBy,  \* column superseded_by, 0 for NULL
    audit,         \* <<action, id>>: "issued" and "interrupted" entries of audit_logs
    files,         \* license files in the licenses directory
    quarantined,   \* license files in its subdirectory orphan/
    phase,         \* where the process is
    first,         \* the batch in flight is signed[first .. Len(signed)]
    cursor,        \* the next license the current loop handles
    limit,         \* the last license the undo loop handles
    orphans        \* files the running reconcile has still to quarantine

storeVars == <<signed, pending, written, supersededBy, audit, files, quarantined>>
callVars == <<phase, first, cursor, limit, orphans>>
issueVars == <<storeVars, callVars>>
vars == <<catalogVars, issueVars>>

LicenseIds == 1 .. MaxLicenses

\* A call ends, and with it the local variables of the code it ran.
CallEnds == first' = 1 /\ cursor' = 1 /\ limit' = 0 /\ orphans' = {}

Batch == first .. Len(signed)

\* PreparedLicense: the payload, the key that signed it, and the license it replaces.
SignedLicense ==
    [project : Projects, device : Devices, control : Certs, signedBy : Keys,
     issuedAt : Nat, expiresAt : Nat, supersedes : LicenseIds \union {0}]

Phases == {"down", "rollback", "sweep", "broken",
           "ready", "prepared", "writing", "undo"}

TypeOK ==
    /\ CatalogTypeOK
    /\ signed \in Seq(SignedLicense) /\ Len(signed) <= MaxLicenses
    /\ pending \in SUBSET LicenseIds /\ written \in SUBSET LicenseIds
    /\ supersededBy \in [LicenseIds -> LicenseIds \union {0}]
    /\ audit \in SUBSET ({"issued", "interrupted"} \X LicenseIds)
    /\ files \in SUBSET LicenseIds /\ quarantined \in SUBSET LicenseIds
    /\ phase \in Phases
    /\ first \in Nat \ {0} /\ cursor \in Nat /\ limit \in Nat
    /\ orphans \in SUBSET LicenseIds

Init ==
    /\ CatalogInit
    /\ signed = <<>>
    /\ pending = {} /\ written = {}
    /\ supersededBy = [i \in LicenseIds |-> 0]
    /\ audit = {}
    /\ files = {} /\ quarantined = {}
    /\ phase = "down"
    /\ first = 1 /\ cursor = 1 /\ limit = 0 /\ orphans = {}

-----------------------------------------------------------------------------
(***************************************************************************)
(* Reading the tables.                                                     *)
(***************************************************************************)

CurrentRows(p, d) ==
    {i \in written : signed[i].project = p /\ signed[i].device = d /\ supersededBy[i] = 0}

\* findCurrentLicense: the newest row, or 0 for null.
NewestOf(rows) == IF rows = {} THEN 0 ELSE CHOOSE i \in rows : \A j \in rows : j <= i
CurrentLicense(p, d) == NewestOf(CurrentRows(p, d))

DefaultExpiry(c) ==
    IF now + DefaultValidity < CertExpires[c] THEN now + DefaultValidity ELSE CertExpires[c]

\* Mutant of ExpiryAllowed: the certificate's expiry is not an upper limit.
ExpiryAllowedUncapped(requested, c) == requested = 0 \/ now < requested

\* resolveExpiry; a request of 0 stands for "undefined".
ExpiryAllowed(requested, c) == requested = 0 \/ (now < requested /\ requested <= CertExpires[c])
ResolveExpiry(requested, c) == IF requested = 0 THEN DefaultExpiry(c) ELSE requested

\* Mutant of BatchInputs: repeated device ids are kept.
BatchInputsRepeated == UNION {[1 .. n -> Devices] : n \in 1 .. Cardinality(Devices)}

\* The device ids of one call; issueLicensesBatch drops the repeated ones.
BatchInputs ==
    {devs \in UNION {[1 .. n -> Devices] : n \in 1 .. Cardinality(Devices)} :
        \A i, j \in DOMAIN devs : devs[i] = devs[j] => i = j}

\* list() without the names of listAllLicenseFileNames
OrphanFiles == files \ (pending \union written)

-----------------------------------------------------------------------------
(***************************************************************************)
(* Writing the tables.                                                     *)
(***************************************************************************)

\* insertLicense, with file_state = 'pending'
InsertLicenses(ids) == pending' = pending \union ids

\* markLicenseFileState(id, 'written') and setSupersededBy on what each id replaces
GrantLicenses(ids) ==
    /\ pending' = pending \ ids
    /\ written' = written \union ids
    /\ supersededBy' = [i \in LicenseIds |->
                          IF \E j \in ids : signed[j].supersedes = i
                          THEN CHOOSE j \in ids : signed[j].supersedes = i
                          ELSE supersededBy[i]]

\* superseded_by REFERENCES licenses ON DELETE SET NULL
Unlinked(deleted) ==
    [i \in LicenseIds |-> IF supersededBy[i] \in deleted THEN 0 ELSE supersededBy[i]]

-----------------------------------------------------------------------------
(***************************************************************************)
(* Issuing.                                                                *)
(***************************************************************************)

\* Mutant of MayIssue: the scope of the certificate is not looked at.
MayIssueOutsideScope(p, devs) ==
    /\ CertUsable(active)
    /\ KeyMatches(active)
    /\ \A i \in DOMAIN devs : Bound(p, devs[i])
    /\ WithinQuota(active)

\* prepareBatch, first loop: every check on every device before anything is signed.
MayIssue(p, devs) ==
    /\ CertUsable(active)
    /\ KeyMatches(active)
    /\ p \in CertScope[active]
    /\ \A i \in DOMAIN devs : Bound(p, devs[i])
    /\ WithinQuota(active)

\* prepareBatch: then every license is signed, in memory only.
PrepareBatch(p, devs, requested) ==
    /\ phase = "ready"
    /\ MayIssue(p, devs)
    /\ ExpiryAllowed(requested, active)
    /\ Len(signed) + Len(devs) <= MaxLicenses
    /\ signed' = signed \o [i \in 1 .. Len(devs) |->
                    [project |-> p, device |-> devs[i], control |-> active, signedBy |-> key,
                     issuedAt |-> now, expiresAt |-> ResolveExpiry(requested, active),
                     supersedes |-> CurrentLicense(p, devs[i])]]
    /\ phase' = "prepared"
    /\ first' = Len(signed) + 1
    /\ cursor' = Len(signed) + 1
    /\ UNCHANGED <<catalogVars, pending, written, supersededBy, audit, files,
                   quarantined, limit, orphans>>

IssueLicense(p, d, requested) == PrepareBatch(p, <<d>>, requested)

IssueLicensesBatch(p, devs, requested) == PrepareBatch(p, devs, requested)

RenewLicense(p, d, requested) ==
    /\ CurrentLicense(p, d) # 0
    /\ PrepareBatch(p, <<d>>, requested)

\* Mutant of Reserve: the replaced licenses are linked when the records are reserved.
ReserveLinks ==
    /\ phase = "prepared"
    /\ pending' = pending \union Batch
    /\ supersededBy' = [i \in LicenseIds |->
                          IF \E j \in Batch : signed[j].supersedes = i
                          THEN CHOOSE j \in Batch : signed[j].supersedes = i
                          ELSE supersededBy[i]]
    /\ phase' = "writing"
    /\ UNCHANGED <<catalogVars, signed, written, audit, files, quarantined,
                   first, cursor, limit, orphans>>

\* Mutant of Reserve: success is audited when the records are reserved.
ReserveAudits ==
    /\ phase = "prepared"
    /\ pending' = pending \union Batch
    /\ audit' = audit \union ({"issued"} \X Batch)
    /\ phase' = "writing"
    /\ UNCHANGED <<catalogVars, signed, written, supersededBy, files, quarantined,
                   first, cursor, limit, orphans>>

\* commitPrepared, first transaction: certificate, quota and devices are read again.
Reserve ==
    /\ phase = "prepared"
    /\ CertUsable(active)
    /\ WithinQuota(active)
    /\ \A i \in Batch : Bound(signed[i].project, signed[i].device)
    /\ InsertLicenses(Batch)
    /\ phase' = "writing"
    /\ UNCHANGED <<catalogVars, signed, written, supersededBy, audit, files,
                   quarantined, first, cursor, limit, orphans>>

\* One of those checks fails, or the transaction does: nothing was stored.
ReserveFails ==
    /\ phase = "prepared"
    /\ phase' = "ready"
    /\ CallEnds
    /\ UNCHANGED <<catalogVars, storeVars>>

\* writeAtomic: temporary file, fsync, rename.  That the file is there is all that is
\* modelled: the count writeSync returns is not looked at, so a short file would be renamed
\* into place like a whole one, and nothing here tells them apart.
WriteFile ==
    /\ phase = "writing"
    /\ cursor <= Len(signed)
    /\ files' = files \union {cursor}
    /\ cursor' = cursor + 1
    /\ UNCHANGED <<catalogVars, signed, pending, written, supersededBy, audit,
                   quarantined, phase, first, limit, orphans>>

\* Mutant of MarkWritten: runs when the last file is still to be written.
MarkWrittenEarly ==
    /\ phase = "writing"
    /\ cursor >= Len(signed)
    /\ pending' = pending \ Batch
    /\ written' = written \union Batch
    /\ audit' = audit \union ({"issued"} \X Batch)
    /\ phase' = "ready"
    /\ CallEnds
    /\ UNCHANGED <<catalogVars, signed, supersededBy, files, quarantined>>

\* Mutant of MarkWritten: what has been written so far is granted, the rest dropped.
MarkWrittenPartly ==
    /\ phase = "writing"
    /\ cursor > first
    /\ pending' = pending \ Batch
    /\ written' = written \union first .. cursor - 1
    /\ audit' = audit \union ({"issued"} \X (first .. cursor - 1))
    /\ phase' = "ready"
    /\ CallEnds
    /\ UNCHANGED <<catalogVars, signed, supersededBy, files, quarantined>>

\* The last transaction: records marked, the replaced ones linked, success audited.
MarkWritten ==
    /\ phase = "writing"
    /\ cursor > Len(signed)
    /\ GrantLicenses(Batch)
    /\ audit' = audit \union ({"issued"} \X Batch)
    /\ phase' = "ready"
    /\ CallEnds
    /\ UNCHANGED <<catalogVars, signed, files, quarantined>>

\* Mutant of CommitFails: off by one in what there is to undo.
CommitFailsOffByOne ==
    /\ phase = "writing"
    /\ limit' = cursor - 2
    /\ cursor' = first
    /\ phase' = "undo"
    /\ UNCHANGED <<catalogVars, storeVars, first, orphans>>

\* A file write throws, or the last transaction does: undo the files written so far.
CommitFails ==
    /\ phase = "writing"
    /\ limit' = cursor - 1
    /\ cursor' = first
    /\ phase' = "undo"
    /\ UNCHANGED <<catalogVars, storeVars, first, orphans>>

\* Mutant of UndoFile: a file that cannot be removed starts the loop over.
UndoFileStartsOver ==
    /\ phase = "undo"
    /\ cursor <= limit
    /\ \/ files' = files \ {cursor} /\ cursor' = cursor + 1
       \/ files' = files /\ cursor' = first
    /\ UNCHANGED <<catalogVars, signed, pending, written, supersededBy, audit,
                   quarantined, phase, first, limit, orphans>>

\* A file that cannot be removed is left for reconcile.
UndoFile ==
    /\ phase = "undo"
    /\ cursor <= limit
    /\ files' \in {files \ {cursor}, files}
    /\ cursor' = cursor + 1
    /\ UNCHANGED <<catalogVars, signed, pending, written, supersededBy, audit,
                   quarantined, phase, first, limit, orphans>>

\* The deleting transaction may fail too: then the records stay pending.
UndoRows ==
    /\ phase = "undo"
    /\ cursor > limit
    /\ pending' \in {pending \ Batch, pending}
    /\ supersededBy' = Unlinked(pending \ pending')
    /\ phase' = "ready"
    /\ CallEnds
    /\ UNCHANGED <<catalogVars, signed, written, audit, files, quarantined>>

-----------------------------------------------------------------------------
(***************************************************************************)
(* Stopping, starting and reconcileLicenseStorage.                         *)
(***************************************************************************)

\* The process dies or is closed, wherever it is.
Crash ==
    /\ phase # "down"
    /\ phase' = "down"
    /\ CallEnds
    /\ UNCHANGED <<catalogVars, storeVars>>

\* initLicenseRuntime; "broken" when opening the database or reconciling throws:
\* the program stays up and answers every call with that error.
Boot ==
    /\ phase = "down"
    /\ phase' \in {"rollback", "broken"}
    /\ UNCHANGED <<catalogVars, storeVars, first, cursor, limit, orphans>>

RollBack(i) ==
    /\ phase = "rollback"
    /\ i \in pending
    /\ files' = files \ {i}
    /\ pending' = pending \ {i}
    /\ supersededBy' = Unlinked({i})
    /\ audit' = audit \union {<<"interrupted", i>>}
    /\ UNCHANGED <<catalogVars, signed, written, quarantined,
                   phase, first, cursor, limit, orphans>>

\* The file cannot be removed, or the transaction after its removal fails.
RollBackFails(i) ==
    /\ phase = "rollback"
    /\ i \in pending
    /\ files' \in {files, files \ {i}}
    /\ phase' = "broken"
    /\ UNCHANGED <<catalogVars, signed, pending, written, supersededBy, audit,
                   quarantined, first, cursor, limit, orphans>>

ListOrphans ==
    /\ phase = "rollback"
    /\ pending = {}
    /\ orphans' = OrphanFiles
    /\ phase' = "sweep"
    /\ UNCHANGED <<catalogVars, storeVars, first, cursor, limit>>

\* quarantine returns false when the rename fails: that file stays, the loop goes on.
QuarantineOrphan(i) ==
    /\ phase = "sweep"
    /\ i \in orphans
    /\ orphans' = orphans \ {i}
    /\ \/ files' = files \ {i} /\ quarantined' = quarantined \union {i}
       \/ UNCHANGED <<files, quarantined>>
    /\ UNCHANGED <<catalogVars, signed, pending, written, supersededBy, audit,
                   phase, first, cursor, limit>>

\* The quarantine directory cannot be made, or the audit entry cannot be stored.
SweepFails(i) ==
    /\ phase = "sweep"
    /\ i \in orphans
    /\ phase' = "broken"
    /\ CallEnds
    /\ \/ files' = files \ {i} /\ quarantined' = quarantined \union {i}
       \/ UNCHANGED <<files, quarantined>>
    /\ UNCHANGED <<catalogVars, signed, pending, written, supersededBy, audit>>

\* Mutant of BootEnds: reconciles again until no file is left over.
BootEndsWhenClean ==
    /\ phase = "sweep"
    /\ orphans = {}
    /\ phase' = IF files = written THEN "ready" ELSE "rollback"
    /\ UNCHANGED <<catalogVars, storeVars, first, cursor, limit, orphans>>

BootEnds ==
    /\ phase = "sweep"
    /\ orphans = {}
    /\ phase' = "ready"
    /\ UNCHANGED <<catalogVars, storeVars, first, cursor, limit, orphans>>

-----------------------------------------------------------------------------

Operate == phase = "ready" /\ CatalogOperation /\ UNCHANGED issueVars

PassTime == Tick /\ UNCHANGED issueVars

StartIssue ==
    \E p \in Projects, requested \in 0 .. MaxTime + 1 :
        \/ \E d \in Devices : IssueLicense(p, d, requested)
        \/ \E devs \in BatchInputs : IssueLicensesBatch(p, devs, requested)
        \/ \E d \in Devices : RenewLicense(p, d, requested)

CommitStep ==
    Reserve \/ ReserveFails \/ WriteFile \/ MarkWritten \/ CommitFails \/ UndoFile \/ UndoRows

BootStep ==
    \/ \E i \in LicenseIds :
          RollBack(i) \/ RollBackFails(i) \/ QuarantineOrphan(i) \/ SweepFails(i)
    \/ ListOrphans \/ BootEnds

Next == Operate \/ PassTime \/ StartIssue \/ CommitStep \/ Crash \/ Boot \/ BootStep

Spec == Init /\ [][Next]_vars

\* A call in progress is synchronous code: it goes on until it returns or the process dies.
FairSpec == Spec /\ WF_vars(CommitStep) /\ WF_vars(BootStep)

-----------------------------------------------------------------------------
(***************************************************************************)
(* What the promise of AtomicIssue looks like in the two stores.           *)
(***************************************************************************)

\* The pairs of the call in flight that are still to be granted.
Asked ==
    IF phase \in {"prepared", "writing"}
    THEN {<<signed[i].project, signed[i].device>> : i \in Batch} ELSE {}

\* What findCurrentLicense returns for each pair.
InForce == [pd \in Projects \X Devices |-> CurrentLicense(pd[1], pd[2])]

Retired == {i \in written : supersededBy[i] # 0}

Atomic == INSTANCE AtomicIssue WITH asked <- Asked, current <- InForce, retired <- Retired

\* Every behaviour of the two-store commit, with any step failing and the process
\* dying anywhere, is one in which batches are granted whole or not at all.
ImplementsAtomicIssue == Atomic!GrantSpec

-----------------------------------------------------------------------------
(***************************************************************************)
(* How a license file is checked, on the console (checkLicenseFile) and    *)
(* again by the game it is for.                                            *)
(***************************************************************************)

\* validateMachinePayload, which refuses expires_at <= issued_at whatever the time is.
WellFormed(l) == l.issuedAt < l.expiresAt

\* verifyVendorCertificate, at time t
CertificateVerifies(c, t) == InWindow(CertIssued[c], CertExpires[c], t)

\* isProjectAllowed
ProjectAllowed(c, p) == p \in CertScope[c]

\* verifyMachineLicense: the license text l against the certificate c that came with it.
LicenseVerifies(l, c, p, d, t) ==
    /\ l.signedBy = CertKey[c]
    /\ WellFormed(l)
    /\ t < CertExpires[c]
    /\ InWindow(l.issuedAt, l.expiresAt, t)
    /\ l.control = c
    /\ ProjectAllowed(c, l.project)
    /\ l.project = p /\ l.device = d
    /\ l.expiresAt <= CertExpires[c]

\* checkLicenseFile: does the file of license i, which embeds its certificate, pass for
\* device d of project p at time t?
Accepts(i, p, d, t) ==
    /\ CertificateVerifies(signed[i].control, t)
    /\ LicenseVerifies(signed[i], signed[i].control, p, d, t)

-----------------------------------------------------------------------------
(***************************************************************************)
(* Safety.                                                                 *)
(***************************************************************************)

\* A record marked written has its file in the licenses directory: no failing
\* step, undo, crash or reconcile separates the two (issuance.ts:206-323).
WrittenHasFile == written \subseteq files

\* A device has at most one license in force, across batches, renewals, undone
\* renewals and restarts (findCurrentLicense would hide a second one).
OneCurrent ==
    \A i, j \in written :
        /\ signed[i].project = signed[j].project /\ signed[i].device = signed[j].device
        /\ supersededBy[i] = 0 /\ supersededBy[j] = 0
        => i = j

\* A license is only ever superseded by a later one of the same device that was
\* granted: a renewal that was rolled back leaves no trace on the one before it.
SupersededByGranted ==
    \A i \in LicenseIds : supersededBy[i] # 0 =>
        LET j == supersededBy[i]
        IN  /\ i \in written /\ j \in written /\ i < j
            /\ signed[i].project = signed[j].project /\ signed[i].device = signed[j].device

\* The audit log tells granted from interrupted licenses exactly: a success entry
\* for each written record and for no other, and no license has both entries.
AuditTellsGranted ==
    /\ \A i \in LicenseIds : <<"issued", i>> \in audit <=> i \in written
    /\ \A i \in LicenseIds : <<"interrupted", i>> \in audit => i \notin pending \union written

\* Every license granted is one its device accepts, from the moment it is issued
\* to the moment it expires, whatever certificate has been imported since.
GrantedIsAccepted ==
    \A i \in written : LET l == signed[i] IN
        /\ WellFormed(l)
        /\ \A t \in l.issuedAt .. l.expiresAt - 1 : Accepts(i, l.project, l.device, t)

\* A license whose issue failed or was interrupted is never granted later, though
\* its record may stay pending and its file may lie in the directory until the
\* next start: an issue marks its own batch and nothing that was left behind.
FailedStaysFailed ==
    [][\A i \in 1 .. Len(signed) :
         i \notin written /\ ~ (phase = "writing" /\ i \in Batch) => i \notin written']_vars

\* Quarantine takes only files of licenses that were never granted.
GrantedNeverQuarantined == quarantined \intersect written = {}

-----------------------------------------------------------------------------
(***************************************************************************)
(* The inductive invariant behind them (proved in IssuanceProofs).         *)
(***************************************************************************)

InCall == phase \in {"prepared", "writing", "undo"}

SamePair(i, j) == signed[i].project = signed[j].project /\ signed[i].device = signed[j].device

RowsOK ==
    /\ pending \intersect written = {}
    /\ pending \union written \union files \union quarantined \subseteq 1 .. Len(signed)
    /\ \A e \in audit : e[2] \in 1 .. Len(signed)

\* Nothing outside memory knows the batch of the call in flight except as pending.
CallOK ==
    /\ InCall => /\ Batch \intersect (written \union quarantined) = {}
                 /\ \A i \in Batch : <<"interrupted", i>> \notin audit
    /\ phase = "prepared" => cursor = first /\ first <= Len(signed) + 1
    /\ phase = "writing" => /\ Batch \subseteq pending
                            /\ first <= cursor /\ cursor <= Len(signed) + 1
                            /\ first .. cursor - 1 \subseteq files
    /\ phase = "undo" => first <= cursor /\ limit <= Len(signed)
    /\ phase = "sweep" => orphans \subseteq files \ (written \union pending)

\* Each license of the batch is for another device and replaces the one in force.
BatchReplaces ==
    phase \in {"prepared", "writing"} => \A i \in Batch :
        /\ \A j \in Batch : SamePair(i, j) => i = j
        /\ \A k \in LicenseIds : signed[i].supersedes = k <=>
               k \in written /\ SamePair(i, k) /\ supersededBy[k] = 0

IInv ==
    /\ TypeOK
    /\ RowsOK
    /\ CallOK
    /\ BatchReplaces
    /\ WrittenHasFile
    /\ OneCurrent
    /\ SupersededByGranted
    /\ AuditTellsGranted
    /\ GrantedNeverQuarantined

-----------------------------------------------------------------------------
(***************************************************************************)
(* Liveness, under FairSpec.                                               *)
(***************************************************************************)

\* An issue that was started comes to an end: no undo loops for ever.
IssueEnds == phase \in {"prepared", "writing", "undo"} ~> phase \in {"ready", "down"}

\* So does a start: reconcile works off its lists even when files refuse to move.
BootTerminates == phase \in {"rollback", "sweep"} ~> phase \in {"ready", "broken", "down"}
=============================================================================
