# Aegis, specified in TLA+

Aegis is an offline licensing system. A vendor signs a *control certificate* for a
customer's console (P1, `desktop/`); the console registers devices and signs *machine
licenses* for them; a game with the Godot plugin (P2, `godot/addons/aegis/`) checks its
license by itself, and may fetch a new one from the console over the local network.

This directory holds the specification of that system: TLA+ modules translated from the
source, TLC configurations that check them on small instances, and TLAPS proofs.

## 1. The system

| Part | State it keeps | Operations | Talks to |
|---|---|---|---|
| Projects and devices (`catalog.ts`) | tables `projects`, `devices` | create, register, unbind, lock, unlock | certificate (scope, quota) |
| Control certificate (`control.ts`) | table `control_certificates`, one row active | import; verified again on every use | issuing, registering, key import, hub |
| Delegated key (`key-admin.ts`, `encrypted-key-store.ts`) | one encrypted file, an old plain file | import, load, migrate at start | issuing |
| Issuing (`issuance.ts`) | table `licenses`, `audit_logs`, the call's local variables | issue, issue a batch, renew | database and file store |
| License files (`license-files.ts`) | a directory and its subdirectory `orphan/` | write, remove, list, quarantine | issuing, hub |
| Start and recovery (`license-runtime.ts`, `reconcileLicenseStorage`) | the runtime or its error | open, migrate, reconcile, close | all services |
| Delivery (`delivery.ts`, `delivery-state.ts`) | table `delivery_orders`, `device_requests` | a pull from a game | issuing, files, hub server |
| Hub server (`hub-server.ts`) | sockets, connections, last request per device, state | start, stop, dispose, connection callbacks | delivery, IPC |
| Administrator session (`admin-session.ts`, `admin-credential.ts`) | unlocked flag, last activity; password and throttle in `app_settings` | set up, unlock, lock, change password, guard, touch | every sensitive IPC call |
| Calls of the window (`main/ipc/*.ts`) | nothing of their own | check the session, run the handler, extend the session | session, all services |
| Working view (`LicenseManageView.vue`) | what it read last, selection, dialogs, notices, busy flags | read everything, register, issue, renew, lock, unbind, import | the calls |
| Game guard (`aegis.gd`) | last result, waiting, timers | start, recheck, focus, wait, leave, quit | license check, network client |
| Game license check (`aegis_license.gd`) | `license.dat`, clock record | evaluate, replace | file system, clock |
| Game network client (`aegis_net.gd`) | request state, cached address | pull, discover, handle a reply | hub server |
| Game signature check (`aegis_rsa_verify.gd`) | prepared keys | verify | license check |

`App.vue` mounts the working view, the audit table and the administrator's entry only; the
views `IssueView`, `DevicesView` and `ProjectsView` are imported by nothing.

What is hard in it:

* *Two stores without a common transaction.* Issuing writes database rows and license
  files; each step can fail, the undo can fail, the process can die, recovery can be
  interrupted.
* *Values read early and used late.* The license to be replaced is read before signing
  and linked after the files are written; the certificate may expire in between.
* *Things that change under licenses.* Certificates are replaced, devices move between
  projects, are locked, unbound and registered again.
* *Callbacks.* The hub's start and stop wait for sockets while requests, a second start
  or the end of the process come in; the IPC guard is left before a call completes.
* *Restarts.* Lockout counters, keys and orders outlive the process; sessions do not.
* *Handlers of the view.* Each waits for the main process several times, and others run
  meanwhile; what it read before an await may have changed after it.
* *Big numbers.* A product of two moduli does not fit their limbs.
* *Retries.* A game that got no answer asks again; the console must not lose or repeat
  what it did.

What makes each part correct:

* catalog: a device counts in one project; the quota is exceeded only by importing a
  smaller certificate;
* issuing: a batch is granted whole or not at all; a record marked written has its file;
  a device has one license in force; the audit log agrees with the records; whatever is
  granted is accepted by the device for its whole life; a failed issue stays failed;
* recovery: it ends, and takes nothing that was granted;
* key store: a key is given up only for the key that replaces it, whatever fails; an
  import reported as a success is stored;
* delivery: what is handed out has its order, an order names one license granted for just
  its device and expiry, orders move as the table allows, a pull ends;
* hub server: connections are counted and belong to the present listener, a stop ends
  whatever the peers do, the reported state agrees with what is open;
* administrator session: guessing is throttled through restarts, only a password unlocks;
* working view: what the operator did is shown once everything came back, a notice of
  success names what was granted, buttons come back, every handler ends;
* the two behind the session: the key in use changes while an administrator who is logged in
  waits for the import, or in the migration of a start only, and its import is in the one call
  the guard let through;
* game: it is held back exactly while it has no valid license, renewal stays armed, a
  wait and a pull end;
* signature check: the power of a signature is the power, for any modulus.

## 2. Modules

| Module | What it is |
|---|---|
| `Catalog` | projects, devices, certificate, key and clock of the console: `catalog.ts`, `control.ts`, `key-admin.ts` |
| `CatalogProofs` | lemmas about the catalog's operations, for the proof modules below |
| `AtomicIssue` | what issuing promises: requests are granted in one step or refused; extends `Catalog` |
| `Issuance` | issuing and recovery as the code does them, with failures and crashes; extends `Catalog` and implements `AtomicIssue` |
| `IssuanceProofs` | the inductive invariant of `Issuance` and its theorems |
| `IssuancePromises` | theorems about the catalog under `Issuance`, about the acceptance of what is granted, and the refinement of `AtomicIssue` |
| `KeyStore` | the file of the delegated key: `encrypted-key-store.ts` |
| `HubDelivery`, `HubDeliveryProofs` | a pull as the console runs it, and its orders: `delivery.ts`, `delivery-state.ts`; extends `Catalog`; its theorems |
| `HubServer`, `HubServerProofs` | listeners and connections: `hub-server.ts`; its theorems |
| `AdminSession` | password, throttle, session and guarded calls |
| `ConsoleKeys`, `ConsoleKeysProofs` | the import of a key behind the session, in one process with restarts: composes `AdminSession` and `KeyStore` and implements both; the theorems of all three |
| `ConsoleView`, `ConsoleViewProofs` | the working view and the requests it sends: `LicenseManageView.vue`, `main/ipc/license.ts`; extends `Catalog`; its theorems |
| `LicenseFile` | the game's license file, its verification and the clock record: `aegis_license.gd` |
| `GameClient`, `GameClientProofs` | guard and network client of the game: `aegis.gd`, `aegis_net.gd`; extends `LicenseFile`; its theorems |
| `RsaVerify` | the arithmetic of the game's signature check: `aegis_rsa_verify.gd` |
| `IssuanceMC`, `KeyStoreMC`, `ConsoleKeysMC`, `ConsoleViewMC`, `HubDeliveryMC`, `HubServerMC`, `GameClientMC` | instances for TLC |

### Catalog

One action per service call; a call is synchronous and its database part is one
transaction, so it is atomic. `device[<<p, d>>]` is the row of table `devices`:
`"absent"`, `"bound"`, `"locked"` or `"unbound"` (columns `unbind_at`, `locked`).
`imported` and `active` are table `control_certificates`, `key` the delegated key on
disk, `now` the clock. What a signed certificate says is constant: `CertScope`,
`CertMax`, `CertIssued`, `CertExpires`, `CertKey`. `Skew` is how far ahead of the clock a
certificate may have been issued, `MaxAhead` how far ahead it may expire (100 years). An
operation that the code refuses has no step, since it changes nothing the properties are
about. There is one exception: an import of a key that is refused may have replaced it.
`ImportDelegatedKey` therefore asks nothing of the certificate: the refusal for a key of
another certificate is lost when its audit entry cannot be written (`key-admin.ts:85-101`).

### Issuance

`signed` is every license ever signed, in order; a license id is its index (the code
draws a random suffix; ids do not repeat). `pending` and `written` are the rows of table
`licenses` by `file_state`, `supersededBy` a column of it, `audit` the entries of issuing
and of recovery, `files` and `quarantined` the two directories. `phase` and the variables
`first`, `cursor`, `limit`, `orphans` are where the one running call stands: the main
process has one thread and holds the single-instance lock (`main/index.ts:8`).

| Action | Code |
|---|---|
| `PrepareBatch`, used by `IssueLicense`, `IssueLicensesBatch`, `RenewLicense` | `prepareBatch`: all checks, then all signatures |
| `Reserve`, `ReserveFails` | first transaction of `commitPrepared` |
| `WriteFile` | `writeAtomic` for the next license |
| `MarkWritten` | last transaction: mark, link the replaced license, audit |
| `CommitFails`, `UndoFile`, `UndoRows` | a write or that transaction throws; undo in order; each removal and the deleting transaction may fail |
| `Crash`, `Boot` | the process ends anywhere; `initLicenseRuntime`, which may throw |
| `RollBack`, `RollBackFails` | first loop of `reconcileLicenseStorage` |
| `ListOrphans`, `QuarantineOrphan`, `SweepFails`, `BootEnds` | its second loop |
| `Operate`, `PassTime` | any catalog operation while no call runs; the clock, always |

A step of a loop whose order nothing depends on (pending rows, orphan files) takes any
element. A crash is the end of the process; files and committed transactions survive it.
Loss of power between a rename and its reaching the disk is not modelled.

`AtomicIssue` is implemented under this mapping: a request is `asked` from signing until
the last transaction; the license in force is what `findCurrentLicense` returns;
`retired` licenses are the written ones with a successor. Only `MarkWritten` maps to
`Grant`; everything between, and all of recovery, maps to a stutter or a refusal.

### KeyStore

A PEM text is a constant of `Texts`; `plain`, `encrypted` and `temp` are the contents of
the old plain file, the encrypted file and the temporary one (`NoText`: no file;
`Damaged`: something that does not read back). `phase` is where `save()` stands, `caller`
who called it, `wanted` its argument, `imported` (history) the last text an import was
reported for.

| Action | Code |
|---|---|
| `StartMigrates`, `StartLeaves` | `migrateLegacy` at every start |
| `ImportDelegatedKey` | `importDelegatedKey` up to `save` |
| `WriteTemp`, `ReadBack`, `RenameTemp`, `RemoveLegacy`, `SaveReturns` | the file operations of `save`, in order |
| `SaveFails` | any of them before the rename throws |
| `AuditFails` | the audit entry after `save` throws: the import is refused, the key is replaced |
| `Crash`, `ProtectionChanges` | the process ends; the system's encryption comes or goes |

### HubDelivery

Issuing is one step here, as `AtomicIssue` promises. `granted` are the licenses with a
written record, an index is the id; `orders` is table `delivery_orders`; `call` the pull in
progress with its stage; `answer` the last answer sent. The stages follow `handlePull`:
orders of the reported license are confirmed one by one (`ConfirmSentOrder`), then the
pull is up to date, refused for its schema or served (`Decide`, `MarkUnsupported`,
`RefuseSchema`), an order is found and marked (`ReuseOrder`) or a license issued
(`IssueLicense`), its order inserted and marked sent (`InsertOrder`, `MarkSent`); then the
file of the order the pull is about (`call.order`) is read, the pull logged and answered
(`Reply`). Every statement may throw (`StatementFails`) and the process die (`Crash`).
Between pulls the operator issues by hand, operates the catalog, and files may be
removed. Reports are not trusted: any license or none. The schema of a client is never
supported in this version (`SchemaSupported = FALSE`); only `allowIncompatibleSchema`
gets a pull through.

### HubServer

`listener` stands for the pair `this.tcp`, `this.udp`; `socket` gives for each accepted
connection its listener and what became of it; `connections` is the set that takes the
slots; `waiting` are the calls inside `await this.stopSockets()`. One action is what
runs between two awaits that reach the event loop. Listening on an IP address and closing
a listener without connections complete without going back to it, hence `Start` is one
step; closing a listener that has connections waits (`StopSockets`, `StopSocketsReturns`),
and other calls come in meanwhile: the IPC handlers do not exclude each other. `Refuse`
and `HandleLine` answer a request, `ReadTimeout`, `SocketError`, `DestroyedCloses` and
`PeerCloses` are the callbacks of a connection. A socket that was answered has no read
timer any more; only its peer's closing, an error or a stop ends it. Listeners and sockets
are objects: they are reused in the model once nothing refers to them.

### AdminSession

`credential` and `throttle` are the two rows of `app_settings`, `unlocked` and
`lastActivity` the session in memory, `running` the sensitive calls whose handler is
awaited, `wrong` (history) when wrong passwords were counted since the count was last
cleared. A method is synchronous, but its statements are separate writes: `Setup` and
`ChangePassword` have a parameter `done`, how many of them had their effect. `BeginCall`,
`CallSucceeds` and `CallFails` are the wrapper in `main/ipc`: guard, await, `touch` on
success. `UnlockRight` marks the session before it writes the audit entry, so a failing
entry reports an error with the session open; the step is the same. `ExpireIfIdle` is the
guard or a status request that finds the session idle. The clock only goes forward.

### ConsoleKeys

`AdminSession` and `KeyStore` are two parts of one process. `KeyCall` is the sensitive call
`license:importKey`. A start migrates before there is a session (`StoreStep` with caller
`migrate`); `ImportKey` is the guard of the call and the first step of `save`, `ImportReturns`
and `ImportFails` the end of both; a failing import is `SaveFails`, with the key as it was, or
`AuditFails`, with the key replaced. `save` is synchronous: while it runs no step of the session
is possible (`SessionStep`), but the clock goes on and the process may end (`ProcessEnds`),
which is a crash of the store and a restart of the session in one.

### ConsoleView

`current` and `lastLicense` are what the main process knows of licenses, besides the catalog;
`view` is a record of the refs of the component; `tasks` the handlers that run, each a record of
what it keeps over its awaits; `wire` the order in which requests were sent. The main process
takes them in that order and does each in one step (`MainAnswers`, with `Does`); any may be
refused, and a refused import of a key may have replaced it (`DoesRefused`). Answers are taken in the same order (`Resume`). One action is what a handler does
between two awaits: `SubmitRegister`, `RegisterProjectMade`, `RegisterOneDone` and
`RefreshEnds`, for example, are `submitRegister` over its awaits. `refreshAll` sends its reads together, and
they are answered in that order, so they are one request, of which any may fail
(`Assigned` takes what came before); the quota may fail by itself, and counts as none. The hub
may issue between two of them, which changes nothing an earlier one read. A dialog is an overlay
without a hold on the keyboard, so the page behind it can be used, and it can be closed while
its request is under way.

### RsaVerify

`Verify` is `_verify_signature` for a key, a signature and an encoded digest; all of its
arithmetic is operators: limbs, comparison, subtraction, Montgomery product, power. The
numbers of limbs, of bits of a limb and of the exponent are constants. `Power` is the
definition it is compared with.

### LicenseFile and GameClient

What a license says is constant (`Terms`). `Result` is `evaluate`: whether the license is
valid, due for renewal, and the expiry if it was read as far. `file`, `clock` and `record`
are what it works on; the clock may be set to anything at any time, `license.dat` may be
replaced by hand, and the record may be reset. The record is written by truncating it first and
without looking at the result, so it may also be left empty, which is read as none
(`UpdateRecord`).

| State | Code |
|---|---|
| `run`, `waiting`, `last` | running, waiting (screen, paused tree, muted sound and the timer that asks meanwhile) and `last_result` |
| `checkTimer`, `pullTimer` | the recheck and the renewal timer run; a running timer may fire in any state |
| `net` | the request's state, the addresses left, whether discovery was used, the expiry the pull was requested with |
| `install` | where `replace_license_bytes` stands |

`Ready`, `FocusIn`, `CheckTimeout`, `PullTick`, `WaitPullTick`, `WaitOver` and `Quit` are the
guard's handlers, `NetStep` those of the client, `InstallStep` the file operations and the
verification after them. `replace_license_bytes` is one handler, but its operations are
steps: the process may end and the file be changed between them. What the hub answers is
open.

## 3. What is checked

| Run | Instance | Shows |
|---|---|---|
| `issuance` | 1 project, 2 devices, 1 certificate, 3 licenses, clock 0 | consistency of records, files, links and audit; `ImplementsAtomicIssue`; an issue and a start end; every failure and crash |
| `issuance_certs` | 2 projects, 2 devices, 2 certificates, 2 keys, clock 0..2, skew 2, certificates up to 3 ahead, 1 license | `GrantedIsAccepted`; `ImplementsAtomicIssue`, here for scope, quota and key at the moment of the grant; `BoundOnce`, `QuotaExceededOnlyByImport` |
| `console_keys` | 3 texts, 2 passwords, 1 awaited call besides the import, 2 failures, lockout 2, idle 3, clock 1..7, 4 guesses | `ThrottleHolds`, `OnlyPasswordUnlocks` of the session; `OldKeyGivenUpForNewOnly`, `StoredAsReported` of the store; `SaveHasItsCaller`, `KeyChangedByAdministrator` of both |
| `hub_delivery` | 2 projects, 1 device, 1 certificate, 2 licenses, clock 0..2 | `HandedOutIsOrdered`, `OrdersNameTheirLicense`, `OrdersMoveAsAllowed`, `PullEnds` |
| `hub_server` | 3 listeners, 3 sockets, 2 slots, 2 devices | `OpenSocketsTracked`, `NoOldConnection`, `RunningListens`, `StopEnds`, `SlowPeerDropped` |
| `game_client` | 3 licenses (soon out, lasting, another device's), clock 0..2 | `WaitsUnlessLicensed`, `RenewalTimerRuns`, `PullEnds`, `WaitEnds` |
| `console` | 2 projects, 2 devices, 2 certificates (one for any project), 2 handlers at a time, 2 licenses, 3 actions on the page and any in its dialogs | `OwnChangesShown`, `StatusSettles`, `ButtonsFollowHandlers`, `NoticeIsTrue`, `HandlersEnd` |

Five runs show that the code does not do what the repository says of it:

| Run | Statement | What happens |
|---|---|---|
| `key_store_plain` | `PlainKeyNoLongerUsed`: a plain file left behind is no longer used (`encrypted-key-store.ts:143`) | an import cannot remove the plain file, or dies before; the next start saves the old key over the new one (`:121`) |
| `hub_server_stopped` | `StoppedLeavesNoHandle`: stopping leaves no handle (`hub-server.ts:29`) | a stop waits for its connections, a second stop and a start come in; the first goes on and reports `stopped` while the new listener is open (`:92`) |
| `hub_delivery_second` | `NoSecondIssue`: nothing is issued twice (`repositories.ts:567`) | an order whose file is gone stays active: a second license is issued, then its order is refused by the index (`delivery.ts:139`) |
| `game_client_recheck` | `RecheckTimerRuns`: a running game is rechecked by time (`aegis.gd:11`) | a game that starts without a valid license and finds one when it gets the focus (put there by hand, or valid again because the clock was set) leaves the wait without starting the timer (`aegis.gd:118`) |
| `rsa_verify` | `SignedIsValid`: the Montgomery product agrees with big-integer arithmetic (`aegis_rsa_verify.gd:365`) | the sum exceeds the limbs when the modulus is more than about 0.62 of the next power of two; the carry is dropped (`:397`) and a proper signature is refused |

The signing keys of the repository's vectors have moduli of 0.59 and 0.53 of that power, where the
product is right; the third key there, at 0.79, is only used for signatures that must be
refused. Nothing keeps a vendor's or a console's key below the bound. The instance has numbers of two
limbs of two bits: moduli 9, 11, 13 and 15.

Seen while modelling and not run, because no statement of the repository is precise
enough to check or because it concerns durations:

* `DefaultExpiry` moves with the clock, so a pull repeated one second later finds no order
  for its expiry and issues again (`delivery.ts:131`); the test of a repeated pull
  (`tests/services/hub-delivery.test.ts:166`) repeats it at the same instant.
* A reused order may hand out a license that was superseded by hand since.
* The comment at `delivery.ts:121` says that a refusal for the schema leaves orders alone; the
  next statement moves the device's unsent orders to `unsupported` (`MarkUnsupported`).
* An import of a key whose audit entry fails is answered as refused, with the new key in place
  (`key-admin.ts:123`); the refusal of a key of another certificate is lost when its own audit
  entry fails (`:85`), since only the error it would have thrown is passed on (`:96`).
* A license file may be written short: `license-files.ts:41` does not look at the count
  `writeSync` returns. The model's `WriteFile` writes it whole or fails.
* The lock of one row ends and gives back the lock buttons of all rows
  (`LicenseManageView.vue:827`), and any read that ends gives back the refresh button (`:442`),
  while another is under way. `ButtonsFollowHandlers` says of these two only that they come back.
* After a lasting license was installed by hand the renewal timer goes on asking with the
  last result (`aegis.gd:167`, against `godot/README.md:116`); a recheck of a license about
  to run out restarts the longer renewal timer and asks by itself.
* The network takes away a license in cases `aegis_net.gd:9` does not have in mind: a short
  write of the temporary file is not noticed and is renamed over a valid license
  (`aegis_license.gd:292`); the fallback removes the license and the second rename fails; a
  pull compares with the result it was requested with, and with nothing while waiting,
  although a better license was put in place since.
* `submitUnbind` reads the dialog's device again after its request: the notice names another
  device when the dialog was opened for another, and nothing is read again when it was closed
  (`LicenseManageView.vue:855`). `OwnChangesShown` therefore says nothing of unbound rows.
* The view asks for 1000 licenses; a device whose license is older than the last 1000 looks
  unlicensed (`repositories.ts:276`).
* The wait lasts ten seconds where comments speak of 600.

Bounds. `MaxLicenses` bounds the licenses ever signed or granted, `MaxTime` and `MaxClock`
the clock, `MaxGuesses` the failures counted, `MaxClicks` what an operator does on the page,
`MaxHub` the licenses after which the local network asks for no more, `Slots` the
handlers at a time, `ListLimit` the licenses a view is told.

* Three licenses are enough for a batch of two over a device that already has one, and for
  a failed batch that leaves rows behind followed by another issue and a restart; two
  devices are enough for a batch that is half done. Certificates are chosen so that
  importing one changes scope, quota and key at once, that one reaches too far ahead at the
  start, is acceptable by the skew before it is valid, and outlives the other, and that the other
  runs out.
* Three texts: a plain one, an imported one and one that replaces it.
* Three listeners and sockets: one listener being closed while a second is replaced by a
  third; one connection more than there are slots.
* Two projects for a device that moves; two licenses for one that is superseded, or whose
  order is reused; three, in the run about the second issue, for a repetition.
* Four guesses and two allowed failures: two past the limit, with time for a lockout and
  an idle session to run out between them.
* Two handlers at a time are one that is between two awaits and one that overtakes it; three
  actions are the mount and two of the operator, and dialogs add to them. A device in each of two
  projects gives two rows, hence a batch of two groups of which one may fail; two licenses and
  one for the network are enough for a row whose license another replaced, and for a license
  past `ListLimit`, 1 here. The console starts with a device in each project, with a
  certificate of which one project was not made, or new. A read fails after the third answer, so that what
  it shows is part new and part old. Nobody fills the quota of the one certificate; that of the
  other, for one device, is exceeded by importing it.
* Three clock values hold a license before, inside and after its renewal window, and the
  clock set back.

The game's tolerance and skew are 0 in the instance, so that every clock set back is seen.
Devices in `issuance_certs`, texts and passwords in `console_keys` are interchangeable and form symmetry
sets; the runs with liveness properties use none.

Fairness. `FairSpec` of each module asks only what the code's scheduling gives: the
main process answers or the renderer takes an answer (`MainAnswers`, `Resume`; as requests and
answers keep their order, it is not needed to ask it of each); a synchronous call goes on
(`CommitStep`, `BootStep`, `PullStep`, `InstallStep`); the event loop fires read timers, delivers the close events of sockets the server destroyed, and lets
a waiting call go on; a frame polls the pull in progress (`NetStep`). `WaitOver` and `Quit`
are strongly fair: the frame that reads the countdown, and the end of the frame that asked
to quit, come between any two replies, though a reply being installed disables them for a
moment. Nothing is assumed of operators, peers, crashes, or of how often steps fail.

Deadlock is checked in every run but `console`, where the operator may stop and nothing runs.

## 4. What is proved

`IssuanceProofs` proves for every number of projects, devices, certificates and licenses
that `TypeOK`, `WrittenHasFile`, `OneCurrent`, `SupersededByGranted`,
`AuditTellsGranted` and `GrantedNeverQuarantined` are invariants of `Spec`, and that
`FailedStaysFailed` holds of every step; no run checks these last two, which the theorems
cover. The assumptions are the two on the constants:
what a certificate can say, and that bounds are natural numbers.

The invariants are not inductive by themselves. `IInv` adds: rows and files name licenses
that were signed and no record is both pending and written (`RowsOK`); what the running
call may rely on, above all that its batch is not yet known as written, quarantined or
interrupted, and that the files before the cursor exist (`CallOK`); and that each license
of the batch is for another device and replaces exactly the one that device has in force
(`BatchReplaces`), which is what carries `OneCurrent` through the last transaction. There
is one lemma per action; removals share `RemovalStep`, steps that end a call `LeaveCall`.

`IssuancePromises` goes on from there, in three parts.

* *The catalog.* `BoundOnce` is an invariant of `Issuance!Spec` and every step satisfies
  `QuotaExceededOnlyByImport`: issuing and recovery leave the catalog alone (`CatalogStep`),
  and only three operations change the table of devices. The quota counts registrations, so
  the proof rests on the projects and devices being finite sets, which `CatalogConstants`
  assumes.
* *Acceptance.* `GrantedIsAccepted` speaks of every time from a license's issue to its expiry, when
  the certificate in force may be another one. What carries it is `SignedAsAllowed`: every
  license ever signed, granted or not, is well formed, signed with the key of the certificate it
  names, inside that certificate's scope and window, and that window does not reach further than
  `MaxAhead`, which the device checks too. Signing is the only step that adds one
  (`SignedOnlyThere`), its checks give just this (`SigningAllowed`), and nothing signed is
  ever changed.
* *The refinement.* `GrantsAreAtomic` is `Spec => ImplementsAtomicIssue`: under the mapping of
  section 2 every step is one of `AtomicIssue` or a stutter. What is asked was allowed when it was
  asked, but is granted several steps, and file operations, later; `AskedMayBeGranted` says that
  while a batch is on its way the active certificate, the key and the registrations are still
  those it was checked against, since a call is synchronous and only the clock moves. The steps are proved by
  kind: those that grant nothing (`IdleSteps`), the catalog's (`CatalogSteps`), signing, which asks
  (`PrepareAsks`), and the last transaction, the only one that grants (`MarkWrittenGrants`). For
  that one, `BatchReplaces` of `IInv` says that the license a batch replaces is still the one in
  force, so the links it writes retire exactly those (`InForceAfterGrant`, `RetiredByGrant`).

`ConsoleKeysProofs` has the theorems of the session, of the store and of the two together.

* *Session*, for any passwords, limits and number of awaited calls: `TypeOK` and
  `ThrottleHolds` are invariants and `OnlyPasswordUnlocks` holds of every step. `ThrottleHolds`
  speaks of a history; the strengthening `Counted` ties it to the row on disk: the stored count is
  the number of wrong passwords since the last clearing, and from `MaxFailures` on the stored
  lockout ends one lockout after the last of them.
* *Store*, for any set of texts: `KeyTypeOK` is an invariant and every step satisfies
  `OldKeyGivenUpForNewOnly` and `StoredAsReported`. The strengthening says what `save` has
  established so far: a save in progress has a text; once it was read back the temporary file
  holds it; after the rename the encrypted file does.
* *Both*: `ConsoleKeys` implements `AdminSession` (`SessionIsImplemented`) and `KeyStore`
  (`StoreIsImplemented`): every step of the composition is a step of the one or leaves its
  variables alone, and likewise of the other. What is proved of the parts then holds of the whole,
  `OnlyPasswordUnlocks` and `OldKeyGivenUpForNewOnly` for example, and is cited, not proved again.
  `SaveHasItsCaller` is about both and inductive with the types of both;
  `KeyChangedByAdministrator`, that the session is unlocked and its call under way at the very
  step that replaces the key, follows from it, as no step of the session comes in between.

`HubDeliveryProofs` proves for any projects, devices, licenses and clocks that `TypeOK`,
`HandedOutIsOrdered` and `OrdersNameTheirLicense` are invariants and that every step satisfies
`OrdersMoveAsAllowed`. What is answered is decided several statements after the order was found or
inserted, and each of them may throw or be the last one before the process dies; `CallOK` ties the
stage of the pull to what it is about: once a license is issued it is the newest one, for the
pull's device, and no order names it yet (`IssuedForCall`); after `InsertOrder` the order of the
pull (`OrderOfCall`) is one of its device, and after `MarkSent` or `ReuseOrder` it is
marked sent or confirmed. `HInv`, the three invariants with `CallOK`, is inductive. For the moves of orders
`OrdersOnlyThere` names the five steps that touch one: `InsertOrder` adds one and leaves the
others, the rest are instances of `MoveOfOne`.

`ConsoleViewProofs` proves for any number of slots, projects, devices, certificates, inputs,
clicks and failures that `ButtonsFollowHandlers`, `StatusSettles` and `OwnChangesShown` are
invariants and that every step satisfies `NoticeIsTrue`. `ButtonsFollowHandlers` says "disabled
exactly while its handler runs" of five buttons; of registering it says "at most while", and of
reading, locking and the status only that they come back. `OwnChangesShown` is about what the
operator changed: it leaves out rows of unbound devices, licenses the hub issued, licenses past
the limit of the list, and whether a key is ready. All four are about handlers that
overlap, so their invariant `VInv` speaks of tasks and of the line of requests:

* `LightsKept`: what is lit has a handler that will turn it off, and a button has one only;
* `InLine`: a handler waits for one request at a time, and answers come in the order of requests;
* `StatusKept`: the last status request under way is the open dialog's, or there is none and the
  dialog shows its device or an error. An answer for a dialog closed since is followed by the
  answer for the one that is open;
* `ViewKept`, `ReadsKept`: the view, and every answer under way, is up to date (`UpToDate`) or
  somebody later in line will read again (`Owes`): whoever changes something in the main process
  owes a read, and pays it after the change;
* `TaskOK`: what a handler keeps over its awaits agrees with where it stands, above all that the rows
  of a batch are granted, refused, asked for or still to be asked for. `NoticeIsTrue` needs this.

An action of a handler is a `HandlerStep`, with one lemma per action that says so; that a
`HandlerStep` keeps `VInv` is proved once. The proof needs of the
constants what the code gives: `ViewConstants` says that the tables of devices the console may
start with (`Before`) are tables of devices.

`HubServerProofs` proves for any numbers of listeners, sockets, devices and slots that
`TypeOK`, `OpenSocketsTracked`, `NoOldConnection` and `RunningListens` are invariants.
They are inductive together, with the set of connections being finite added so that it can
be counted; every callback of a connection is an instance of one lemma, `SocketGoesOn`.

`GameClientProofs` proves for any licenses, clocks and windows that `TypeOK`,
`WaitsUnlessLicensed` and `RenewalTimerRuns` are invariants. The last two are inductive
together; the types need in addition that a game that is off has no pull and no
installation under way (`OffIsIdle`).

Every invariant and action property of a run that passes is stated by one of these theorems,
`ImplementsAtomicIssue` included. `CatalogProofs` holds what several of them need of the catalog:
types, and that its operations keep them.

Only model-checked: liveness (`IssueEnds`, `BootTerminates`, `PullEnds`, `WaitEnds`, `StopEnds`,
`SlowPeerDropped`, `HandlersEnd`), since fairness and `ENABLED` are out of the prover's reach; what
`RsaVerify` computes, since it is defined by recursion over limbs and bits; and the five runs that
show a violation, which need a behaviour and not a proof.

## 5. What is left out

Signing, hashing, padding, base64url, UTF-8, strict and canonical JSON and packet syntax
(computation over bytes, covered by the repository's vectors), the views nothing imports, the
audit table, layout and wording, the panel of the local network service, the editor dock, the offline vendor tool,
the Python prototype, names and reasons of records, and audit entries about refused
calls. A build without the vendor's public key refuses everything that needs a
certificate; it is the model in which no certificate is ever usable. Renaming a project
changes a label nothing reads. Locked devices are issued licenses like others: the code
checks registration only.

The console's answers to discovery, packet syntax and the counters it shows; the attempts
and times of an order and the log of requests, which nothing reads back; error codes. The
hub that a game talks to is open in `GameClient`, and the game that asks is open in
`HubDelivery`: the two meet in the messages, which each side checks by itself.

## 6. Plan

1. Done: `Catalog`, `AtomicIssue`, `Issuance`, `IssuanceProofs`.
2. Done: `KeyStore`, `HubServer`, `HubDelivery`, `AdminSession`, `LicenseFile`,
   `GameClient`, and the proofs `CatalogProofs`, `HubServerProofs`, `GameClientProofs`.
3. Done: `ConsoleKeys`, `ConsoleView`, `RsaVerify`.
4. Done: `IssuancePromises` (the refinement and `GrantedIsAccepted`), `ConsoleKeysProofs`,
   `HubDeliveryProofs`, `ConsoleViewProofs`.
5. A composition of `GameClient` with `HubDelivery`: what a game reports and what it is
   handed, with lost and repeated answers; discovery.
6. The two strict JSON parsers against one grammar, and the order of the verification's checks
   on both sides.
