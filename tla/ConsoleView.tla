---------------------------- MODULE ConsoleView ----------------------------
(***************************************************************************)
(* The console's working view (renderer/src/views/LicenseManageView.vue)   *)
(* and the main process it talks to.                                       *)
(*                                                                         *)
(* A button starts a handler, an asynchronous function that sends a        *)
(* request to the main process, goes on when the answer is there, sends    *)
(* the next one, and ends by reading everything again (refreshAll).  Other *)
(* handlers run while it waits.  The main process takes the requests in    *)
(* the order they were sent, does each of them synchronously (Catalog,     *)
(* AtomicIssue) and the answers come back in that order; a large batch     *)
(* keeps all the later ones waiting.  The eight reads of refreshAll are    *)
(* sent together and answered in one step.                                *)
(*                                                                         *)
(* Texts of messages, sorting, dates and the checks of typed ids are left  *)
(* out, but for one id that does not have the right form.  The panel of    *)
(* the local network service has no state in common with the rest.         *)
(***************************************************************************)
EXTENDS Catalog, Sequences

CONSTANTS
    Slots,         \* handlers that may run at the same time
    Inputs,        \* what an operator types as device ids: sequences without repetition
    Malformed,     \* an id that does not match ID_PATTERN
    Wildcards,     \* certificates whose project_ids is ["*"]
    None,          \* null
    Before,        \* what earlier uses of the console left in its tables
    ListLimit,     \* limit asked of listLicenses (1000)
    FailAt,        \* how many of the reads before a failing one succeed
    MaxLicenses, MaxHub, MaxClicks

Rows == Projects \X Devices

ASSUME ViewConstants ==
    /\ Slots \subseteq Nat /\ Slots # {}
    /\ Inputs \subseteq Seq(Devices \union {Malformed}) /\ Malformed \notin Devices
    /\ Wildcards \subseteq Certs /\ None \notin Projects \union Certs \union Rows
    /\ FailAt \subseteq 0 .. 3 /\ ListLimit \in Nat /\ MaxLicenses \in Nat /\ MaxHub \in Nat /\ MaxClicks \in Nat
    /\ \A b \in Before : b.device \in [Rows -> DeviceStatus]

VARIABLES
    current,     \* main: the license in force of each row, 0 for none
    lastLicense, \* main: licenses are numbered in the order they are issued
    view,        \* the refs of the component
    tasks,       \* the handlers that run
    wire,        \* slots of the requests sent and not yet consumed, oldest first
    clicks,      \* what the operator did on the page, for the bound
    mine         \* history: the licenses issued for the operator

vars == <<catalogVars, current, lastLicense, view, tasks, wire, clicks, mine>>
mainVars == <<catalogVars, current, lastLicense>>

Waiting == [ok |-> FALSE, read |-> -1]
Refused == [ok |-> FALSE, read |-> 0]
Ok == [ok |-> TRUE, read |-> 0]
NoCall == [do |-> "none", batch |-> {}]
Call(do) == [do |-> do, batch |-> {}]
CallFor(do, batch) == [do |-> do, batch |-> batch]

\* A handler: what it was started for, where it stands, what it keeps over its awaits.
NoTask == [handler |-> "none", at |-> "none", row |-> None, project |-> None,
           rows |-> {}, ids |-> <<>>, todo |-> {}, good |-> {}, bad |-> {}, granted |-> {},
           ask |-> NoCall, reply |-> Waiting]
Idle(s) == tasks[s] = NoTask

NoNotice == [about |-> "none", tone |-> "none", rows |-> {}]
Notice(about, tone, rows) == [about |-> about, tone |-> tone, rows |-> rows]
NoInit == [status |-> "idle", scope |-> {}]

\* The refs as they are declared.
BlankView ==
    [projects |-> {}, certificate |-> NoCert, keyReady |-> FALSE, full |-> FALSE,
     devices |-> [pd \in Rows |-> "absent"], licenses |-> [pd \in Rows |-> 0],
     readOk |-> FALSE, registerProject |-> None, selected |-> {},
     notice |-> NoNotice, projectInit |-> NoInit, registerError |-> FALSE,
     loading |-> FALSE, submitting |-> FALSE, registering |-> FALSE,
     adding |-> FALSE, importing |-> FALSE, importingKey |-> FALSE, unbindBusy |-> FALSE, locking |-> None,
     showAddProject |-> FALSE, showCertificateImport |-> FALSE, showKeyImport |-> FALSE,
     unbinding |-> None, statusTarget |-> None, statusDetail |-> None,
     statusError |-> FALSE, statusLoading |-> FALSE]

Init ==
    /\ \E b \in Before :
         /\ projects = b.projects /\ device = b.device
         /\ active = b.active /\ imported = {b.active} \ {NoCert} /\ key = b.key
    /\ now = 0
    /\ current = [pd \in Rows |-> 0] /\ lastLicense = 0
    /\ view = BlankView
    /\ tasks = [s \in Slots |-> NoTask] /\ wire = <<>>
    /\ clicks = 0 /\ mine = {}

-----------------------------------------------------------------------------
(***************************************************************************)
(* The main process: ipc/license.ts and the services behind it.            *)
(***************************************************************************)

\* listLicenses({limit}) returns the newest ones.
AmongNewest(license) == license > lastLicense - ListLimit

\* What buildCurrentLicenseMap makes of them.
Listed == [pd \in Rows |-> IF AmongNewest(current[pd]) THEN current[pd] ELSE 0]

\* currentControlCertificate; a certificate that no longer verifies is answered as none.
ShownCertificate == IF CertUsable(active) THEN active ELSE NoCert

\* quotaUsage: what the view makes of it is whether a place is left.
QuotaFull == CertUsable(active)
               /\ Cardinality(BoundIn(CertScope[active])) >= CertMax[active]

\* getDelegatedKeyStatus: configured, and not known to be another certificate's.
KeyReady == key # NoKey /\ (CertUsable(active) => KeyMatches(active))

\* listDevices with includeUnbound, which is how the view asks for it.
ListedDevices == device

\* The answers to refreshAll's reads; the one after the first n of projects, certificate
\* (with quota and keys), devices and licenses is a failure, or none is (4).  The quota may
\* fail by itself, and is then shown as none.  They are one step: the requests are sent
\* together and answered in that order, and nothing that comes between two of them changes
\* what an earlier one read, as the hub changes licenses only.
Snapshot(n, full) ==
    [ok |-> n = 4, read |-> n, projects |-> projects,
     certificate |-> ShownCertificate, keyReady |-> KeyReady, full |-> full,
     devices |-> ListedDevices, licenses |-> Listed]

\* A license for each device of a batch, or for none (AtomicIssue!Grant).
IssueTo(batch) ==
    /\ CertUsable(active) /\ KeyMatches(active) /\ WithinQuota(active)
    /\ \A pd \in batch : Bound(pd[1], pd[2]) /\ pd[1] \in CertScope[active]
    /\ lastLicense + Cardinality(batch) <= MaxLicenses
    /\ \E number \in [batch -> lastLicense + 1 .. lastLicense + Cardinality(batch)] :
         /\ \A pd, qe \in batch : number[pd] = number[qe] => pd = qe
         /\ current' = [pd \in Rows |-> IF pd \in batch THEN number[pd] ELSE current[pd]]
    /\ lastLicense' = lastLicense + Cardinality(batch)
    /\ UNCHANGED catalogVars

\* registerDevice of a device that is registered there returns it as it is.
RegisterAgain(p, d) ==
    /\ Bound(p, d) /\ CertUsable(active) /\ p \in CertScope[active]
    /\ UNCHANGED catalogVars

\* getDeviceLicenseStatus answers for a row that exists, whether or not it was unbound.
HasStatus(p, d) == device[<<p, d>>] # "absent"

Reading == {"read", "list"}

\* A request about one row is a batch of one.
Project(call) == (CHOOSE pd \in call.batch : TRUE)[1]
Device(call) == (CHOOSE pd \in call.batch : TRUE)[2]

\* What a request does when it succeeds.
Does(call) ==
    \/ /\ call.do \in Reading /\ UNCHANGED mainVars
    \/ /\ call.do = "status" /\ HasStatus(Project(call), Device(call)) /\ UNCHANGED mainVars
    \/ /\ call.do \in {"issue", "renew"}
       /\ call.do = "renew" => \A pd \in call.batch : current[pd] # 0
       /\ IssueTo(call.batch)
    \/ /\ \/ call.do = "create" /\ CreateProject(call.project)
          \/ call.do = "register" /\ RegisterDevice(Project(call), Device(call))
          \/ call.do = "register" /\ RegisterAgain(Project(call), Device(call))
          \/ call.do = "lock" /\ SetDeviceLock(Project(call), Device(call), call.to)
          \/ call.do = "unbind" /\ UnbindDevice(Project(call), Device(call))
          \/ call.do = "import" /\ ImportControlCertificate(call.cert)
          \/ call.do = "importKey" /\ ImportDelegatedKey(call.key)
       /\ UNCHANGED <<current, lastLicense>>

\* What a request that is refused may have done all the same: an import of a key replaces
\* it before its audit entry is written (KeyStore!AuditFails).
DoesRefused(call) ==
    \/ UNCHANGED mainVars
    \/ call.do = "importKey" /\ ImportDelegatedKey(call.key) /\ UNCHANGED <<current, lastLicense>>

\* The oldest request that has no answer yet.
Unanswered(s) ==
    \E i \in DOMAIN wire : /\ wire[i] = s /\ tasks[s].reply = Waiting
                           /\ \A j \in 1 .. i - 1 : tasks[wire[j]].reply # Waiting

\* Any request may be refused: the administrator's session is locked, a check of the service
\* fails, or the database or a file does.
MainAnswers(s) ==
    LET call == tasks[s].ask
    IN  /\ Unanswered(s)
        /\ \/ /\ DoesRefused(call)
              /\ \E n \in IF call.do = "read" THEN FailAt ELSE {0}, full \in {QuotaFull, FALSE} :
                   tasks' = [tasks EXCEPT ![s].reply = IF n = 0 THEN Refused ELSE Snapshot(n, full)]
           \/ /\ Does(call)
              /\ \E full \in {QuotaFull, FALSE} :
                   tasks' = [tasks EXCEPT
                      ![s].reply = IF call.do \in Reading THEN Snapshot(4, full) ELSE Ok,
                      ![s].granted = @ \union call.batch]
        /\ mine' = mine \union (lastLicense + 1 .. lastLicense')
        /\ UNCHANGED <<view, wire, clicks>>

\* The local network hands a device its license (delivery.ts) whenever it asks.
HubIssues ==
    /\ lastLicense < MaxHub
    /\ \E pd \in Rows : IssueTo({pd})
    /\ UNCHANGED <<view, tasks, wire, clicks, mine>>

-----------------------------------------------------------------------------
(***************************************************************************)
(* Handlers: how they send, go on and end.                                 *)
(***************************************************************************)

\* The handler in slot s sends a request and awaits its answer; rest is what is on the
\* wire besides.
Sends(s, task, call, rest) ==
    /\ tasks' = [tasks EXCEPT ![s] = [task EXCEPT !.ask = call, !.reply = Waiting]]
    /\ wire' = Append(rest, s)

Ends(s) == tasks' = [tasks EXCEPT ![s] = NoTask] /\ wire' = Tail(wire)

\* The first free slot runs the handler of a button.
Starts(task, call) ==
    /\ \E s \in Slots : /\ Idle(s) /\ \A r \in Slots : Idle(r) => s <= r
                        /\ Sends(s, task, call, wire)
    /\ UNCHANGED <<mainVars, mine>>

Answered(s) == wire # <<>> /\ Head(wire) = s /\ tasks[s].reply # Waiting

\* The answer that came first is taken by the handler it is for.
Resumes(s, handler, at) ==
    /\ Answered(s)
    /\ tasks[s].handler = handler /\ tasks[s].at = at
    /\ UNCHANGED <<mainVars, clicks, mine>>

\* refreshAll as the last thing a handler does.
Refreshes(s, task) == Sends(s, [task EXCEPT !.at = "refresh"], Call("read"), Tail(wire))

\* deviceRows
RowsOf(v) == {pd \in Rows : v.devices[pd] \in {"bound", "locked"}}

InScope(v, p) == v.certificate # NoCert /\ p \in CertScope[v.certificate]

\* allowedProjectIds
Allowed(v) == IF v.certificate = NoCert THEN {}
              ELSE IF v.certificate \in Wildcards THEN v.projects
              ELSE CertScope[v.certificate] \intersect v.projects

\* canIssue
CanIssue == view.certificate # NoCert /\ view.keyReady

\* ensureRegisterProject; which project comes first depends on their order.
EnsureRegisterProject(v) ==
    IF v.certificate = NoCert THEN {None}
    ELSE IF v.certificate \in Wildcards
         THEN IF v.registerProject # None THEN {v.registerProject}
              ELSE IF v.projects = {} THEN {None} ELSE v.projects
    ELSE IF InScope(v, v.registerProject) /\ Cardinality(CertScope[v.certificate]) > 1
         THEN {v.registerProject}
    ELSE IF Allowed(v) = {} THEN CertScope[v.certificate] ELSE Allowed(v)

-----------------------------------------------------------------------------
(***************************************************************************)
(* refreshAll                                                              *)
(***************************************************************************)

\* The answers are assigned one after the other, up to the one that is a failure.
Assigned(v, r) ==
    LET w == [v EXCEPT
                !.projects = IF r.read >= 1 THEN r.projects ELSE @,
                !.certificate = IF r.read >= 2 THEN r.certificate ELSE @,
                !.full = IF r.read >= 2 THEN r.full ELSE @,
                !.keyReady = IF r.read >= 2 THEN r.keyReady ELSE @,
                !.devices = IF r.read >= 3 THEN r.devices ELSE @,
                !.licenses = IF r.read = 4 THEN r.licenses ELSE @]
    IN  IF r.read = 4 THEN [w EXCEPT !.selected = @ \intersect RowsOf(w)] ELSE w

\* Then the flag of the handler the read belongs to is reset; p is the project of a
\* registration from now on.
ReadEnded(w, r, handler, p) ==
    [w EXCEPT
        !.readOk = r.ok,
        !.registerProject = p,
        !.loading = FALSE,
        !.notice = IF r.ok THEN @ ELSE Notice("refresh", "danger", {}),
        !.submitting = @ /\ handler \notin {"issue", "renew"},
        !.unbindBusy = @ /\ handler # "unbind",
        !.adding = @ /\ handler # "addProject",
        !.importing = @ /\ handler # "import",
        !.locking = IF handler = "lock" THEN None ELSE @]

\* A read ends.
Refreshed(v, r, handler) ==
    {ReadEnded(Assigned(v, r), r, handler, p) :
       p \in IF r.ok THEN EnsureRegisterProject(Assigned(v, r)) ELSE {v.registerProject}}

Reads(v) == [v EXCEPT !.loading = TRUE]

\* The button, and every handler that ends with it.
RefreshAll ==
    /\ ~ view.loading
    /\ view' = Reads(view)
    /\ Starts([NoTask EXCEPT !.handler = "refresh", !.at = "refresh"], Call("read"))

RefreshEnds(s) ==
    /\ \E h \in {"refresh", "register", "issue", "renew", "lock", "unbind", "addProject",
                 "import", "auto"} : Resumes(s, h, "refresh")
    /\ view' \in Refreshed(view, tasks[s].reply, tasks[s].handler)
    /\ Ends(s)

\* The component is mounted.
Mount ==
    /\ clicks = 0 /\ clicks' = 1
    /\ view' = Reads(view)
    /\ Starts([NoTask EXCEPT !.handler = "mount", !.at = "refresh"], Call("read"))

-----------------------------------------------------------------------------
(***************************************************************************)
(* Choosing rows, the project of a registration, and opening and closing   *)
(* dialogs: synchronous, no request.                                       *)
(***************************************************************************)

Local == UNCHANGED <<mainVars, tasks, wire, mine>>

ToggleDevice(pd) ==
    /\ pd \in RowsOf(view)
    /\ view' = [view EXCEPT !.selected = IF pd \in @ THEN @ \ {pd} ELSE @ \union {pd}]
    /\ Local

SelectAll ==
    /\ view' = [view EXCEPT !.selected = RowsOf(view)]
    /\ Local

ClearSelection ==
    /\ view' = [view EXCEPT !.selected = {}]
    /\ Local

\* The owner of a device is the operator's choice unless the certificate has one project.
ChooseProject(p) ==
    /\ view.certificate # NoCert
    /\ IF view.certificate \in Wildcards THEN TRUE
       ELSE Cardinality(CertScope[view.certificate]) > 1 /\ p \in Allowed(view)
    /\ view' = [view EXCEPT !.registerProject = p]
    /\ Local

OpensDialog ==
    /\ view' \in {[view EXCEPT !.showAddProject = TRUE],
                  [view EXCEPT !.showCertificateImport = TRUE],
                  [view EXCEPT !.showKeyImport = TRUE]}
                   \union {[view EXCEPT !.unbinding = pd] : pd \in RowsOf(view)}
    /\ Local

\* A dialog can be closed at any time, also while its request is under way.
ClosesDialog ==
    /\ view' \in {[view EXCEPT !.showAddProject = FALSE],
                  [view EXCEPT !.showCertificateImport = FALSE],
                  [view EXCEPT !.showKeyImport = FALSE],
                  [view EXCEPT !.unbinding = None], [view EXCEPT !.statusTarget = None]} \ {view}
    /\ Local

-----------------------------------------------------------------------------
(***************************************************************************)
(* submitRegister                                                          *)
(***************************************************************************)

Known(v, d) == d # Malformed /\ \E p \in Projects : <<p, d>> \in RowsOf(v)

\* The ids up to the first one that needs a request are told without one; when none does,
\* the results are shown and everything is read again.
RegisterOn(v, t) ==
    LET asks == {i \in DOMAIN t.ids : t.ids[i] # Malformed /\ ~ Known(v, t.ids[i])}
        k == IF asks = {} THEN Len(t.ids) + 1
             ELSE CHOOSE i \in asks : \A j \in asks : i <= j
        bad == t.bad \union {t.ids[i] : i \in {j \in 1 .. k - 1 : t.ids[j] = Malformed}}
        u == [t EXCEPT !.ids = SubSeq(@, k, Len(@)), !.bad = bad,
                       !.at = IF asks = {} THEN "refresh" ELSE "register"]
    IN  IF asks = {}
        THEN [task |-> u, call |-> Call("read"),
              view |-> Reads([v EXCEPT !.registering = FALSE,
                         !.notice = Notice("register", IF bad = {} THEN "success" ELSE "danger",
                                           {<<t.project, d>> : d \in t.good})])]
        ELSE [task |-> u, call |-> CallFor("register", {<<t.project, t.ids[k]>>}), view |-> v]

CreateCall(p) == [do |-> "create", batch |-> {}, project |-> p]

SubmitRegister(ids) ==
    LET p == view.registerProject
        v == [view EXCEPT !.registering = TRUE, !.registerError = FALSE]
        t == [NoTask EXCEPT !.handler = "register", !.project = p, !.ids = ids]
    IN  /\ ~ view.registering /\ ~ view.full
        /\ p # None /\ InScope(view, p)
        /\ IF p \in view.projects
           THEN /\ view' = RegisterOn(v, t).view
                /\ Starts(RegisterOn(v, t).task, RegisterOn(v, t).call)
           ELSE /\ view' = v
                /\ Starts([t EXCEPT !.at = "project"], CreateCall(p))

\* ensureProjectRecord: without the project nothing is registered.
RegisterProjectMade(s) ==
    LET t == tasks[s]
        v == [view EXCEPT !.projects = @ \union {t.project}]
    IN  /\ Resumes(s, "register", "project")
        /\ IF t.reply.ok
           THEN /\ view' = RegisterOn(v, t).view
                /\ Sends(s, RegisterOn(v, t).task, RegisterOn(v, t).call, Tail(wire))
           ELSE /\ view' = [view EXCEPT !.registering = FALSE, !.registerError = TRUE]
                /\ Ends(s)

\* Mutant of RegisterOneDone: an id that was refused is tried again.
RegisterOneDoneRetries(s) ==
    LET t == [tasks[s] EXCEPT !.ids = IF tasks[s].reply.ok THEN Tail(@) ELSE @]
    IN  /\ Resumes(s, "register", "register")
        /\ view' = RegisterOn(view, t).view
        /\ Sends(s, RegisterOn(view, t).task, RegisterOn(view, t).call, Tail(wire))

RegisterOneDone(s) ==
    LET d == Head(tasks[s].ids)
        t == [tasks[s] EXCEPT !.ids = Tail(@),
                !.good = IF tasks[s].reply.ok THEN @ \union {d} ELSE @,
                !.bad = IF tasks[s].reply.ok THEN @ ELSE @ \union {d}]
    IN  /\ Resumes(s, "register", "register")
        /\ view' = RegisterOn(view, t).view
        /\ Sends(s, RegisterOn(view, t).task, RegisterOn(view, t).call, Tail(wire))

-----------------------------------------------------------------------------
(***************************************************************************)
(* submitIssue and submitRenew                                             *)
(***************************************************************************)

\* groupSelected
Groups(rows) == {{pd \in rows : pd[1] = p} : p \in {qe[1] : qe \in rows}}

BatchCall(handler, batch) ==
    CallFor(IF handler = "renew" /\ Cardinality(batch) = 1 THEN "renew" ELSE "issue", batch)

\* Mutant of ApplyOutcomes: a success is a success, whatever else failed.
ApplyOutcomesAny(v, good, bad) ==
    [v EXCEPT !.notice = Notice("issue", IF good # {} THEN "success" ELSE "danger", good)]

ApplyOutcomes(v, good, bad) ==
    [v EXCEPT !.notice = Notice("issue", IF bad = {} THEN "success" ELSE "danger", good)]

\* The selection may name rows that are gone; when it names no other, nothing is asked.
SubmitIssue(handler) ==
    LET rows == view.selected \intersect RowsOf(view)
        t == [NoTask EXCEPT !.handler = handler, !.at = "batch", !.rows = rows]
        v == [view EXCEPT !.submitting = TRUE]
    IN  /\ handler \in {"issue", "renew"}
        /\ ~ view.submitting /\ CanIssue /\ view.selected # {}
        /\ handler = "renew" => rows = view.selected /\ \A pd \in rows : view.licenses[pd] # 0
        /\ IF rows = {}
           THEN /\ view' = Reads(ApplyOutcomes(v, {}, {}))
                /\ Starts([t EXCEPT !.at = "refresh"], Call("read"))
           ELSE /\ view' = v
                /\ \E b \in Groups(rows) :
                     Starts([t EXCEPT !.todo = Groups(rows) \ {b}], BatchCall(handler, b))

BatchDone(s) ==
    LET batch == tasks[s].ask.batch
        t == [tasks[s] EXCEPT !.good = IF tasks[s].reply.ok THEN @ \union batch ELSE @,
                              !.bad = IF tasks[s].reply.ok THEN @ ELSE @ \union batch]
    IN  /\ \E h \in {"issue", "renew"} : Resumes(s, h, "batch")
        /\ IF t.todo = {}
           THEN /\ view' = Reads(ApplyOutcomes(view, t.good, t.bad))
                /\ Refreshes(s, t)
           ELSE /\ UNCHANGED view
                /\ \E b \in t.todo : Sends(s, [t EXCEPT !.todo = @ \ {b}],
                                           BatchCall(t.handler, b), Tail(wire))

-----------------------------------------------------------------------------
(***************************************************************************)
(* toggleLock, submitUnbind, openStatus                                    *)
(***************************************************************************)

ToggleLock(pd) ==
    /\ pd \in RowsOf(view) /\ view.locking # pd
    /\ view' = [view EXCEPT !.locking = pd]
    /\ Starts([NoTask EXCEPT !.handler = "lock", !.at = "lock", !.row = pd],
              [do |-> "lock", batch |-> {pd}, to |-> view.devices[pd] = "bound"])

\* Mutant of LockDone: what was done is told and not read.
LockDoneUnread(s) ==
    /\ Resumes(s, "lock", "lock")
    /\ view' = [view EXCEPT !.locking = None, !.notice = Notice("lock", "success", {tasks[s].row})]
    /\ Ends(s)

LockDone(s) ==
    /\ Resumes(s, "lock", "lock")
    /\ IF tasks[s].reply.ok
       THEN /\ view' = Reads([view EXCEPT !.notice = Notice("lock", "success", {tasks[s].row})])
            /\ Refreshes(s, tasks[s])
       ELSE /\ view' = [view EXCEPT !.notice = Notice("lock", "danger", {}), !.locking = None]
            /\ Ends(s)

SubmitUnbind ==
    /\ view.unbinding # None /\ ~ view.unbindBusy
    /\ view' = [view EXCEPT !.unbindBusy = TRUE]
    /\ Starts([NoTask EXCEPT !.handler = "unbind", !.at = "unbind", !.row = view.unbinding],
              CallFor("unbind", {view.unbinding}))

\* Mutant of UnbindDone: a refusal leaves the button disabled.
UnbindDoneStuck(s) ==
    /\ Resumes(s, "unbind", "unbind")
    /\ IF tasks[s].reply.ok /\ view.unbinding # None
       THEN /\ view' = Reads([view EXCEPT !.unbinding = None])
            /\ Refreshes(s, tasks[s])
       ELSE UNCHANGED view /\ Ends(s)

\* The notice names the row the dialog is open for when the answer comes.  When it was
\* closed there is none: reading its device id throws, and nothing is read again.
UnbindDone(s) ==
    /\ Resumes(s, "unbind", "unbind")
    /\ IF tasks[s].reply.ok /\ view.unbinding # None
       THEN /\ view' = Reads([view EXCEPT !.notice = Notice("unbind", "success", {view.unbinding}),
                                          !.unbinding = None])
            /\ Refreshes(s, tasks[s])
       ELSE /\ view' = [view EXCEPT !.unbindBusy = FALSE]
            /\ Ends(s)

OpenStatus(pd) ==
    /\ pd \in RowsOf(view)
    /\ view' = [view EXCEPT !.statusTarget = pd, !.statusDetail = None, !.statusError = FALSE,
                            !.statusLoading = TRUE]
    /\ Starts([NoTask EXCEPT !.handler = "status", !.at = "status", !.row = pd],
              CallFor("status", {pd}))

\* Mutant of StatusDone: a failure is not told.
StatusDoneSilently(s) ==
    /\ Resumes(s, "status", "status")
    /\ view' = [view EXCEPT !.statusLoading = FALSE,
                  !.statusDetail = IF tasks[s].reply.ok THEN tasks[s].row ELSE @]
    /\ Ends(s)

\* The answer is shown whatever the dialog is about by now.
StatusDone(s) ==
    /\ Resumes(s, "status", "status")
    /\ view' = IF tasks[s].reply.ok
               THEN [view EXCEPT !.statusLoading = FALSE, !.statusDetail = tasks[s].row]
               ELSE [view EXCEPT !.statusLoading = FALSE, !.statusError = TRUE]
    /\ Ends(s)

-----------------------------------------------------------------------------
(***************************************************************************)
(* submitCertificate, initializeProjectsFromCertificate, autoInitProjects, *)
(* submitAddProject, submitPrivateKey                                      *)
(***************************************************************************)

SubmitCertificate(c) ==
    /\ view.showCertificateImport /\ ~ view.importing
    /\ view' = [view EXCEPT !.importing = TRUE]
    /\ Starts([NoTask EXCEPT !.handler = "import", !.at = "import", !.project = c],
              [do |-> "import", batch |-> {}, cert |-> c])

\* Projects are made for what the certificate names, unless it names all.
CertificateImported(s) ==
    LET c == tasks[s].project
        v == [view EXCEPT !.certificate = c, !.showCertificateImport = FALSE,
                          !.notice = Notice("import", "success", {})]
    IN  /\ Resumes(s, "import", "import")
        /\ IF ~ tasks[s].reply.ok
           THEN view' = [view EXCEPT !.importing = FALSE] /\ Ends(s)
           ELSE IF c \in Wildcards
           THEN /\ view' = Reads([v EXCEPT !.projectInit = [status |-> "skipped", scope |-> {}]])
                /\ Refreshes(s, tasks[s])
           ELSE /\ view' = [v EXCEPT !.projectInit = [status |-> "running", scope |-> CertScope[c]]]
                /\ Sends(s, [tasks[s] EXCEPT !.at = "list"], Call("list"), Tail(wire))

\* autoInitProjects, once the view was mounted and read everything.
Mounted(s) ==
    \E v \in Refreshed(view, tasks[s].reply, "mount") :
      LET c == v.certificate
      IN  /\ Resumes(s, "mount", "refresh")
          /\ IF c # NoCert /\ c \notin Wildcards /\ ~ CertScope[c] \subseteq v.projects
             THEN /\ view' = [v EXCEPT !.projectInit =
                                [status |-> "running", scope |-> CertScope[c]]]
                  /\ Sends(s, [NoTask EXCEPT !.handler = "auto", !.at = "list", !.project = c],
                           Call("list"), Tail(wire))
             ELSE view' = v /\ Ends(s)

\* How an initialization ended that made good and failed to make bad.
InitStatus(t) ==
    IF t.handler = "auto" /\ t.good = {} /\ t.bad = {} THEN "idle"
    ELSE IF t.bad = {} THEN "done" ELSE IF t.good = {} THEN "failed" ELSE "partial"

\* One project after the other; when all were tried, everything is read again.
InitOn(s, t) ==
    IF t.todo # {}
    THEN /\ UNCHANGED view
         /\ \E p \in t.todo : Sends(s, [t EXCEPT !.at = "create", !.todo = @ \ {p}],
                                    CreateCall(p), Tail(wire))
    ELSE /\ view' = Reads([view EXCEPT
                !.projectInit = [status |-> InitStatus(t), scope |-> CertScope[t.project]],
                !.notice = IF t.bad = {} THEN @ ELSE Notice("init", "danger", {})])
         /\ Refreshes(s, t)

ProjectsListed(s) ==
    LET scope == CertScope[tasks[s].project]
    IN  /\ \E h \in {"import", "auto"} : Resumes(s, h, "list")
        /\ IF tasks[s].reply.ok
           THEN InitOn(s, [tasks[s] EXCEPT !.todo = scope \ tasks[s].reply.projects])
           ELSE /\ view' = Reads([view EXCEPT !.projectInit = [status |-> "failed", scope |-> scope]])
                /\ Refreshes(s, tasks[s])

ProjectMade(s) ==
    LET p == tasks[s].ask.project
    IN  /\ \E h \in {"import", "auto"} : Resumes(s, h, "create")
        /\ InitOn(s, [tasks[s] EXCEPT !.good = IF tasks[s].reply.ok THEN @ \union {p} ELSE @,
                                      !.bad = IF tasks[s].reply.ok THEN @ ELSE @ \union {p}])

SubmitAddProject(p) ==
    /\ view.showAddProject /\ ~ view.adding /\ p \notin view.projects
    /\ view' = [view EXCEPT !.adding = TRUE]
    /\ Starts([NoTask EXCEPT !.handler = "addProject", !.at = "create", !.project = p],
              CreateCall(p))

ProjectAdded(s) ==
    LET p == tasks[s].project
    IN  /\ Resumes(s, "addProject", "create")
        /\ IF tasks[s].reply.ok
           THEN /\ view' = Reads([view EXCEPT
                      !.projects = @ \union {p}, !.registerProject = p, !.showAddProject = FALSE,
                      !.notice = Notice("addProject", IF InScope(view, p) THEN "success" ELSE "info", {})])
                /\ Refreshes(s, tasks[s])
           ELSE view' = [view EXCEPT !.adding = FALSE] /\ Ends(s)

SubmitPrivateKey(k) ==
    /\ view.showKeyImport /\ ~ view.importingKey
    /\ view' = [view EXCEPT !.importingKey = TRUE]
    /\ Starts([NoTask EXCEPT !.handler = "key", !.at = "key"],
              [do |-> "importKey", batch |-> {}, key |-> k])

\* The answer is the status of the key; nothing is read again.
PrivateKeyDone(s) ==
    /\ Resumes(s, "key", "key")
    /\ view' = IF tasks[s].reply.ok
               THEN [view EXCEPT !.importingKey = FALSE, !.showKeyImport = FALSE, !.keyReady = TRUE,
                                 !.notice = Notice("key", "success", {})]
               ELSE [view EXCEPT !.importingKey = FALSE]
    /\ Ends(s)

-----------------------------------------------------------------------------
\* What the operator does on the page is counted, for the bound; in a dialog it is not.
OnThePage ==
    /\ clicks \in 1 .. MaxClicks - 1 /\ clicks' = clicks + 1
    /\ \/ \E pd \in Rows : ToggleDevice(pd) \/ ToggleLock(pd) \/ OpenStatus(pd)
       \/ SelectAll \/ ClearSelection
       \/ \E p \in Projects : ChooseProject(p)
       \/ OpensDialog \/ RefreshAll
       \/ \E ids \in Inputs : SubmitRegister(ids)
       \/ \E handler \in {"issue", "renew"} : SubmitIssue(handler)

InADialog ==
    /\ UNCHANGED clicks
    /\ \/ ClosesDialog \/ SubmitUnbind
       \/ \E p \in Projects : SubmitAddProject(p)
       \/ \E c \in Certs : SubmitCertificate(c)
       \/ \E k \in Keys : SubmitPrivateKey(k)

Resume(s) ==
    /\ Answered(s)
    /\ \/ Mounted(s) \/ RefreshEnds(s)
       \/ RegisterProjectMade(s) \/ RegisterOneDone(s) \/ BatchDone(s)
       \/ LockDone(s) \/ UnbindDone(s) \/ StatusDone(s)
       \/ CertificateImported(s) \/ ProjectsListed(s) \/ ProjectMade(s)
       \/ ProjectAdded(s) \/ PrivateKeyDone(s)

Next ==
    \/ Mount \/ OnThePage \/ InADialog
    \/ \E s \in Slots : MainAnswers(s) \/ Resume(s)
    \/ HubIssues

Spec == Init /\ [][Next]_vars

\* As long as a handler waits the one or the other goes on: the main process answers, the
\* renderer takes what was answered.  Requests and answers keep their order, so that is enough.
FairSpec == Spec /\ WF_vars(\E s \in Slots : MainAnswers(s) \/ Resume(s))

-----------------------------------------------------------------------------
Quiet == \A s \in Slots : Idle(s)

\* What the operator did is what the view shows once nothing runs any more and the last read
\* did not fail: registrations and locks, the projects and the certificate, and the licenses
\* issued from here that are still in force and among those listed.  Handlers overlap, but
\* each ends by reading again and answers come in order, so no older answer stays on top.
\* (Rows of devices that were unbound may stay: see UnbindDone.)
OwnChangesShown ==
    Quiet /\ view.readOk =>
        /\ \A pd \in Rows : Bound(pd[1], pd[2]) => view.devices[pd] = device[pd]
        /\ view.projects = projects
        /\ view.certificate = ShownCertificate
        /\ \A pd \in Rows : current[pd] \in mine /\ AmongNewest(current[pd])
                              => view.licenses[pd] = current[pd]

\* A notice of success names rows for which the main process did just that in answer to
\* this handler, and success of issuing means all rows that were chosen (comment of
\* applyOutcomes: a partial failure is never told as a success).
NoticeIsTrue ==
    [][ \A s \in Slots :
          view'.notice # view.notice /\ BatchDone(s) =>
            /\ view'.notice.rows \subseteq tasks[s].granted
            /\ view'.notice.tone = "success" => tasks[s].rows \subseteq tasks[s].granted ]_vars

\* Once no status request is under way, the dialog shows the device it is about, or an error,
\* however often it was closed and opened for another device while answers were awaited.
StatusSettles ==
    (\A s \in Slots : tasks[s].handler # "status")
      => view.statusTarget = None \/ view.statusError \/ view.statusDetail = view.statusTarget

Running(handlers) == \E s \in Slots : tasks[s].handler \in handlers

\* The buttons of issuing, renewing, adding a project, importing a certificate or a key, and
\* unbinding are disabled exactly while their handler runs, so a batch is not sent twice and no
\* early return, refusal or overlapping handler leaves one disabled.  That of registering is
\* disabled, and an initialization shown as running, at most while theirs does; those of
\* reading, of locking and of the status are given back at the latest when nothing runs.
\* (They may be given back earlier, by another handler: any read that ends gives back the
\* refresh button, LicenseManageView.vue:442, any lock that ends those of all rows, :827.)
ButtonsFollowHandlers ==
    /\ view.submitting <=> Running({"issue", "renew"})
    /\ view.adding <=> Running({"addProject"})
    /\ view.importing <=> Running({"import"})
    /\ view.importingKey <=> Running({"key"})
    /\ view.unbindBusy <=> Running({"unbind"})
    /\ view.registering => Running({"register"})
    /\ view.projectInit.status = "running" => Running({"import", "auto"})
    /\ Quiet => ~ view.loading /\ ~ view.statusLoading /\ view.locking = None

\* Every handler comes to its end: nothing that the main process answers, in whatever
\* order with other handlers, leaves one waiting.
HandlersEnd == \A s \in Slots : []<>Idle(s)
=============================================================================
