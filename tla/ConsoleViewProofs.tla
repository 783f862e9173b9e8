-------------------------- MODULE ConsoleViewProofs --------------------------
(***************************************************************************)
(* Proofs about module ConsoleView, for any slots, projects, devices,      *)
(* certificates and inputs: whatever handlers overlap, the buttons follow  *)
(* them, a notice of success is true, the status dialog settles on its     *)
(* device and the view on what the operator did.                           *)
(***************************************************************************)
EXTENDS ConsoleView, FiniteSetTheorems, TLAPS

-----------------------------------------------------------------------------
(***************************************************************************)
(* The inductive invariant.                                                *)
(***************************************************************************)

\* A task on its own: what it awaits belongs to where it stands, what was done for it is
\* in granted, and the rows of a batch are issued, refused, asked or still to ask.
TaskOK(t) ==
    /\ DOMAIN t = DOMAIN NoTask
    /\ t.reply.ok \in BOOLEAN
    /\ t.reply.ok => t.ask.batch \subseteq t.granted
    /\ t.at = "refresh" => t.ask.do = "read" /\ (t.reply.ok => t.reply.read = 4)
    /\ t.ask.do \in {"register", "lock", "import"} => t.at = t.ask.do
    /\ t.ask.do = "create" => t.at \in {"project", "create"}
    /\ t.ask.do \in {"issue", "renew"} => t.at = "batch" /\ t.ask.batch \subseteq Rows
    /\ t.at = "batch" =>
         /\ t.todo \subseteq SUBSET Rows
         /\ t.good \subseteq t.granted
         /\ t.rows \subseteq t.good \union t.bad \union t.ask.batch \union UNION t.todo

\* The flags that disable a button, and everything that tells that something runs.
Buttons == {"submitting", "adding", "importing", "importingKey", "unbindBusy", "registering"}
Lights == Buttons \union {"loading", "statusLoading", "locking", "projectInit"}

Lit(v, f) == IF f = "locking" THEN v.locking # None
             ELSE IF f = "projectInit" THEN v.projectInit.status = "running"
             ELSE v[f]

\* The handlers that turn a light off again, and until when.
Keeps(t, f) ==
    \/ f = "submitting" /\ t.handler \in {"issue", "renew"}
    \/ f = "adding" /\ t.handler = "addProject"
    \/ f = "importing" /\ t.handler = "import"
    \/ f = "importingKey" /\ t.handler = "key"
    \/ f = "unbindBusy" /\ t.handler = "unbind"
    \/ f = "registering" /\ t.handler = "register" /\ t.at # "refresh"
    \/ f = "loading" /\ t.at = "refresh"
    \/ f = "statusLoading" /\ t.handler = "status"
    \/ f = "locking" /\ t.handler = "lock"
    \/ f = "projectInit" /\ t.handler \in {"import", "auto"} /\ t.at \in {"list", "create"}

\* What is lit has a handler that will turn it off; a button has no second one.
LightsKept ==
    /\ \A f \in Lights : Lit(view, f) => \E s \in Slots : Keeps(tasks[s], f)
    /\ \A f \in Buttons, s \in Slots : Keeps(tasks[s], f) => Lit(view, f)
    /\ \A f \in Buttons, r, s \in Slots : Keeps(tasks[r], f) /\ Keeps(tasks[s], f) => r = s

ViewTyped ==
    /\ DOMAIN view = DOMAIN BlankView
    /\ \A f \in Lights \ {"locking", "projectInit"} : view[f] \in BOOLEAN

TasksTyped == DOMAIN tasks = Slots /\ \A s \in Slots : TaskOK(tasks[s])

\* A handler waits for one request at a time, and answers come in the order of requests.
InLine ==
    /\ wire \in Seq(Slots)
    /\ \A i, j \in DOMAIN wire : wire[i] = wire[j] => i = j
    /\ \A i \in DOMAIN wire : tasks[wire[i]].handler # "none"
    /\ \A i, j \in DOMAIN wire :
         i < j /\ tasks[wire[j]].reply # Waiting => tasks[wire[i]].reply # Waiting

\* The last status request under way is the one the open dialog sent; with none under
\* way the dialog is settled.
LastStatusIsFor(pd) ==
    \E i \in DOMAIN wire :
        /\ tasks[wire[i]].handler = "status" /\ tasks[wire[i]].row = pd
        /\ \A j \in DOMAIN wire : j > i => tasks[wire[j]].handler # "status"

StatusKept ==
    \/ view.statusTarget = None
    \/ LastStatusIsFor(view.statusTarget)
    \/ /\ \A i \in DOMAIN wire : tasks[wire[i]].handler # "status"
       /\ view.statusError \/ view.statusDetail = view.statusTarget

MainTyped ==
    /\ DOMAIN device = Rows /\ DOMAIN current = Rows
    /\ lastLicense \in Nat /\ mine \subseteq 1 .. lastLicense

\* The tasks that will read everything again, whatever they are answered from now on.
Owes(t) ==
    \/ t.at \in {"refresh", "register", "batch", "list"}
    \/ t.at = "create" /\ t.handler # "addProject"
    \/ t.reply.ok /\ t.at \in {"project", "create", "lock", "import"}

\* What OwnChangesShown asks of the view, of the view and of an answer alike.
UpToDate(v) ==
    /\ \A pd \in Rows : Bound(pd[1], pd[2]) => v.devices[pd] = device[pd]
    /\ v.projects = projects
    /\ v.certificate = ShownCertificate
    /\ \A pd \in Rows : current[pd] \in mine /\ AmongNewest(current[pd])
                          => v.licenses[pd] = current[pd]

\* Whoever changed something after an answer was made reads again after that answer.
ViewKept == UpToDate(view) \/ ~ view.readOk \/ \E s \in Slots : Owes(tasks[s])

ReadsKept ==
    \A i \in DOMAIN wire :
        tasks[wire[i]].at = "refresh" /\ tasks[wire[i]].reply.ok =>
          \/ UpToDate(tasks[wire[i]].reply)
          \/ \E j \in DOMAIN wire : j > i /\ Owes(tasks[wire[j]])

VInv == /\ ViewTyped /\ TasksTyped /\ InLine /\ MainTyped
        /\ LightsKept /\ StatusKept /\ ViewKept /\ ReadsKept

-----------------------------------------------------------------------------
(***************************************************************************)
(* A step of a handler, seen from outside.                                 *)
(***************************************************************************)

\* In slot s a handler starts, goes on or ends, and is then the task t.
Moves(s, t) ==
    /\ s \in Slots /\ tasks' = [tasks EXCEPT ![s] = t]
    /\ TaskOK(t) /\ t.reply = Waiting
    /\ \/ Idle(s) /\ wire' = Append(wire, s) /\ t.handler # "none"
       \/ Answered(s) /\ wire' = Append(Tail(wire), s) /\ t.handler # "none"
       \/ Answered(s) /\ wire' = Tail(wire) /\ t = NoTask
    /\ UNCHANGED <<mainVars, mine>>

\* It lights only what it will turn off, a button only when it was off, and turns off
\* what it lit once it is past it.
LightsMove(s, t) ==
    /\ \A f \in Lights : Lit(view', f) => Keeps(t, f) \/ (Lit(view, f) /\ ~ Keeps(tasks[s], f))
    /\ \A f \in Buttons : Keeps(t, f) => Lit(view', f) /\ (Keeps(tasks[s], f) \/ ~ Lit(view, f))
    /\ \A f \in Buttons : Lit(view, f) /\ ~ Keeps(tasks[s], f) => Lit(view', f)

\* It opens the dialog with a request about its row, answers such a request, or has
\* nothing to do with the dialog.
StatusMoves(s, t) ==
    \/ t.handler = "status" /\ t.row = view'.statusTarget
    \/ /\ tasks[s].handler = "status" /\ t = NoTask
       /\ view'.statusTarget = view.statusTarget
       /\ view'.statusError \/ view'.statusDetail = tasks[s].row
    \/ /\ tasks[s].handler # "status" /\ t.handler # "status"
       /\ view'.statusTarget = view.statusTarget /\ view'.statusDetail = view.statusDetail
       /\ view'.statusError = view.statusError

\* It will read again, shows what was read, or leaves what is shown alone.
ShowsSame ==
    /\ view'.devices = view.devices /\ view'.projects = view.projects
    /\ view'.certificate = view.certificate /\ view'.licenses = view.licenses
    /\ view'.readOk = view.readOk

ShowsReply(r) ==
    IF r.ok THEN /\ view'.devices = r.devices /\ view'.projects = r.projects
                 /\ view'.certificate = r.certificate /\ view'.licenses = r.licenses
            ELSE ~ view'.readOk

ShownMoves(s, t) ==
    \/ Owes(t)
    \/ Answered(s) /\ tasks[s].at = "refresh" /\ ShowsReply(tasks[s].reply)
    \/ ~ Owes(tasks[s]) /\ ShowsSame

HandlerStep(s, t) ==
    /\ Moves(s, t) /\ ViewTyped'
    /\ LightsMove(s, t) /\ StatusMoves(s, t) /\ ShownMoves(s, t)

\* The slot that moves is taken off the wire before it is put at the end, or was not on it.
LEMMA Rest ==
    ASSUME InLine, NEW s \in Slots, NEW rest,
           (Idle(s) /\ rest = wire) \/ (Answered(s) /\ rest = Tail(wire))
    PROVE  /\ rest \in Seq(Slots)
           /\ \A i \in 1 .. Len(rest) : rest[i] # s
           /\ \E k \in {0, 1} :
                /\ Len(rest) = Len(wire) - k
                /\ \A i \in 1 .. Len(rest) : rest[i] = wire[i + k]
                /\ k = 1 => Len(wire) > 0 /\ wire[1] = s
                /\ k = 0 => \A i \in 1 .. Len(wire) : wire[i] # s
<1>1. wire \in Seq(Slots) /\ Len(wire) \in Nat /\ DOMAIN wire = 1 .. Len(wire)
  BY DEF InLine
<1>2. CASE Idle(s) /\ rest = wire
  <2>1. \A i \in 1 .. Len(wire) : wire[i] # s
    BY <1>1, <1>2 DEF InLine, Idle, NoTask
  <2>2. /\ Len(rest) = Len(wire) - 0
        /\ \A i \in 1 .. Len(rest) : rest[i] = wire[i + 0]
        /\ 0 = 1 => Len(wire) > 0 /\ wire[1] = s
    BY <1>1, <1>2
  <2> QED
    BY <1>1, <1>2, <2>1, <2>2
<1>3. CASE Answered(s) /\ rest = Tail(wire)
  <2>1. wire # <<>> /\ Head(wire) = s
    BY <1>3 DEF Answered
  <2>4. Len(wire) > 0 /\ wire[1] = s
    BY <1>1, <2>1
  <2>2. /\ rest \in Seq(Slots) /\ Len(rest) = Len(wire) - 1
        /\ \A i \in 1 .. Len(rest) : rest[i] = wire[i + 1]
    BY <1>1, <1>3, <2>1, <2>4
  <2>3. \A i \in 1 .. Len(rest) : rest[i] # s
    BY <1>1, <2>4, <2>2 DEF InLine
  <2> QED
    BY <2>2, <2>3, <2>4
<1> QED
  BY <1>2, <1>3

\* What is left of the wire when s is taken off, and where the others stand then.
Advances(k, n, s, t) ==
    /\ n = Len(wire) - k /\ DOMAIN wire = 1 .. n + k
    /\ wire' \in Seq(Slots)
    /\ \A i \in 1 .. n : wire'[i] = wire[i + k] /\ wire'[i] # s /\ wire'[i] \in Slots
    /\ k = 1 => wire[1] = s
    /\ k = 0 => \A i \in 1 .. n : wire[i] # s
    /\ \/ DOMAIN wire' = 1 .. n + 1 /\ wire'[n + 1] = s /\ t.handler # "none"
       \/ DOMAIN wire' = 1 .. n /\ t = NoTask

LEMMA WireMoves ==
    ASSUME InLine, NEW s, NEW t, Moves(s, t)
    PROVE  \E k \in {0, 1}, n \in Nat : Advances(k, n, s, t)
<1>1. s \in Slots
  BY DEF Moves
<1>2. PICK rest : /\ (Idle(s) /\ rest = wire) \/ (Answered(s) /\ rest = Tail(wire))
                  /\ \/ wire' = Append(rest, s) /\ t.handler # "none"
                     \/ wire' = rest /\ t = NoTask
  BY DEF Moves
<1>3. /\ rest \in Seq(Slots)
      /\ \A i \in 1 .. Len(rest) : rest[i] # s
      /\ \E k \in {0, 1} :
           /\ Len(rest) = Len(wire) - k
           /\ \A i \in 1 .. Len(rest) : rest[i] = wire[i + k]
           /\ k = 1 => Len(wire) > 0 /\ wire[1] = s
           /\ k = 0 => \A i \in 1 .. Len(wire) : wire[i] # s
  BY <1>1, <1>2, Rest
<1>4. PICK k \in {0, 1} :
           /\ Len(rest) = Len(wire) - k
           /\ \A i \in 1 .. Len(rest) : rest[i] = wire[i + k]
           /\ k = 1 => Len(wire) > 0 /\ wire[1] = s
           /\ k = 0 => \A i \in 1 .. Len(wire) : wire[i] # s
  BY <1>3
<1>5. Len(rest) \in Nat /\ wire \in Seq(Slots) /\ Len(wire) \in Nat
      /\ DOMAIN wire = 1 .. Len(wire) /\ Len(rest) + k = Len(wire)
  BY <1>3, <1>4 DEF InLine
<1>6. CASE wire' = Append(rest, s) /\ t.handler # "none"
  <2>1. /\ wire' \in Seq(Slots) /\ DOMAIN wire' = 1 .. Len(rest) + 1
        /\ wire'[Len(rest) + 1] = s /\ \A i \in 1 .. Len(rest) : wire'[i] = rest[i]
    BY <1>1, <1>3, <1>5, <1>6
  <2>2. \A i \in 1 .. Len(rest) : rest[i] \in Slots
    BY <1>3
  <2>3. \A i \in 1 .. Len(rest) : wire'[i] = wire[i + k] /\ wire'[i] # s /\ wire'[i] \in Slots
    BY <1>3, <1>4, <2>1, <2>2
  <2>4. /\ Len(rest) = Len(wire) - k /\ DOMAIN wire = 1 .. Len(rest) + k
        /\ k = 1 => wire[1] = s
        /\ k = 0 => \A i \in 1 .. Len(rest) : wire[i] # s
    BY <1>4, <1>5
  <2>5. Advances(k, Len(rest), s, t)
    BY <1>6, <2>1, <2>3, <2>4 DEF Advances
  <2> QED
    BY <1>5, <2>5
<1>7. CASE wire' = rest /\ t = NoTask
  <2>1. DOMAIN wire' = 1 .. Len(rest) /\ \A i \in 1 .. Len(rest) : rest[i] \in Slots
    BY <1>3, <1>7
  <2>2. \A i \in 1 .. Len(rest) : wire'[i] = wire[i + k] /\ wire'[i] # s /\ wire'[i] \in Slots
    BY <1>3, <1>4, <1>7, <2>1
  <2>3. /\ Len(rest) = Len(wire) - k /\ DOMAIN wire = 1 .. Len(rest) + k
        /\ k = 1 => wire[1] = s
        /\ k = 0 => \A i \in 1 .. Len(rest) : wire[i] # s
    BY <1>4, <1>5
  <2>4. Advances(k, Len(rest), s, t)
    BY <1>3, <1>7, <2>1, <2>2, <2>3 DEF Advances
  <2> QED
    BY <1>5, <2>4
<1> QED
  BY <1>2, <1>6, <1>7

\* Only the task of slot s changes.
LEMMA TasksMove ==
    ASSUME TasksTyped, NEW s, NEW t, Moves(s, t)
    PROVE  /\ s \in Slots /\ tasks'[s] = t
           /\ \A r \in Slots : r # s => tasks'[r] = tasks[r]
           /\ TasksTyped'
<1>1. /\ s \in Slots /\ tasks'[s] = t /\ DOMAIN tasks' = Slots
      /\ \A r \in Slots : r # s => tasks'[r] = tasks[r]
  BY DEF TasksTyped, Moves
<1>2. TaskOK(t)
  BY DEF Moves
<1>3. \A r \in Slots : TaskOK(tasks'[r])
  BY <1>1, <1>2 DEF TasksTyped
<1> QED
  BY <1>1, <1>3 DEF TasksTyped, TaskOK

\* The tasks on the wire are those from before, in their order, and then t: the first k of
\* n + k were taken off.
Shifts(k, n, s, t) ==
    /\ \A i \in 1 .. n : /\ i + k \in DOMAIN wire /\ i \in DOMAIN wire'
                         /\ wire'[i] = wire[i + k] /\ wire'[i] # s
                         /\ tasks'[wire'[i]] = tasks[wire[i + k]]
    /\ \A i \in DOMAIN wire : i \in Nat /\ (i - k \in 1 .. n \/ (i = 1 /\ k = 1 /\ wire[i] = s))
    /\ \A i \in DOMAIN wire' : i \in 1 .. n \/ (i = n + 1 /\ wire'[i] = s /\ t.handler # "none")
    /\ t.handler # "none" => n + 1 \in DOMAIN wire' /\ wire'[n + 1] = s

LEMMA LineMoves ==
    ASSUME InLine, TasksTyped, NEW s, NEW t, Moves(s, t)
    PROVE  \E k \in {0, 1}, n \in Nat : Shifts(k, n, s, t)
<1>1. PICK k \in {0, 1}, n \in Nat : Advances(k, n, s, t)
  BY WireMoves
<1>2. \A r \in Slots : r # s => tasks'[r] = tasks[r]
  BY TasksMove
<1>3. \A i \in 1 .. n : i + k \in 1 .. n + k /\ i \in 1 .. n + 1
  BY <1>1 DEF Advances
<1>4. \A i \in 1 .. n : /\ i + k \in DOMAIN wire /\ i \in DOMAIN wire'
                        /\ wire'[i] = wire[i + k] /\ wire'[i] # s
                        /\ tasks'[wire'[i]] = tasks[wire[i + k]]
  <2> TAKE i \in 1 .. n
  <2>1. i + k \in DOMAIN wire /\ i \in DOMAIN wire'
    BY <1>1, <1>3 DEF Advances
  <2>2. wire'[i] = wire[i + k] /\ wire'[i] # s /\ wire'[i] \in Slots
    BY <1>1 DEF Advances
  <2>3. tasks'[wire'[i]] = tasks[wire'[i]]
    BY <1>2, <2>2
  <2> QED
    BY <2>1, <2>2, <2>3
<1>5. \A i \in 1 .. n + k : i - k \in 1 .. n \/ (i = 1 /\ k = 1)
  BY <1>1 DEF Advances
<1>6. \A i \in DOMAIN wire : i \in Nat /\ (i - k \in 1 .. n \/ (i = 1 /\ k = 1 /\ wire[i] = s))
  BY <1>1, <1>5 DEF Advances
<1>7. t = NoTask => t.handler = "none"
  BY DEF NoTask
<1>8. /\ \A i \in DOMAIN wire' : i \in 1 .. n \/ (i = n + 1 /\ wire'[i] = s /\ t.handler # "none")
      /\ t.handler # "none" => n + 1 \in DOMAIN wire' /\ wire'[n + 1] = s
  BY <1>1, <1>7 DEF Advances
<1>9. Shifts(k, n, s, t)
  BY <1>4, <1>6, <1>8 DEF Shifts
<1> QED
  BY <1>9

\* Requests stay in line.
LEMMA InLineMoves ==
    ASSUME InLine, TasksTyped, NEW s, NEW t, Moves(s, t)
    PROVE  InLine'
<1>1. PICK k \in {0, 1}, n \in Nat : Shifts(k, n, s, t)
  BY LineMoves
<1>2. tasks'[s] = t /\ t.reply = Waiting
  BY TasksMove DEF Moves
<1>3. wire' \in Seq(Slots)
  <2>1. PICK m \in {0, 1}, l \in Nat : Advances(m, l, s, t)
    BY WireMoves
  <2> QED
    BY <2>1 DEF Advances
<1>4. /\ \A i \in 1 .. n : /\ i + k \in DOMAIN wire /\ wire'[i] # s
                           /\ wire'[i] = wire[i + k] /\ tasks'[wire'[i]] = tasks[wire[i + k]]
      /\ \A i \in DOMAIN wire' : i \in 1 .. n \/ (i = n + 1 /\ wire'[i] = s /\ t.handler # "none")
  BY <1>1 DEF Shifts
<1>5. ASSUME NEW i \in DOMAIN wire', NEW j \in DOMAIN wire', wire'[i] = wire'[j]
      PROVE  i = j
  <2>1. CASE i \in 1 .. n /\ j \in 1 .. n
    <3>1. wire[i + k] = wire[j + k]
      BY <1>4, <1>5, <2>1
    <3>2. i + k = j + k
      BY <1>4, <2>1, <3>1 DEF InLine
    <3> QED
      BY <1>1, <2>1, <3>2
  <2>2. CASE i \notin 1 .. n \/ j \notin 1 .. n
    BY <1>4, <1>5, <2>2
  <2> QED
    BY <2>1, <2>2
<1>6. ASSUME NEW i \in DOMAIN wire' PROVE tasks'[wire'[i]].handler # "none"
  <2>1. CASE i \in 1 .. n
    <3>1. i + k \in DOMAIN wire /\ tasks'[wire'[i]] = tasks[wire[i + k]]
      BY <1>4, <2>1
    <3> QED
      BY <3>1 DEF InLine
  <2>2. CASE i \notin 1 .. n
    BY <1>2, <1>4, <2>2
  <2> QED
    BY <2>1, <2>2
<1>7. ASSUME NEW i \in DOMAIN wire', NEW j \in DOMAIN wire', i < j,
             tasks'[wire'[j]].reply # Waiting
      PROVE  tasks'[wire'[i]].reply # Waiting
  <2>1. j \in 1 .. n /\ i \in 1 .. n
    BY <1>2, <1>4, <1>7
  <2>2. i + k < j + k
    BY <1>1, <1>7, <2>1
  <2>3. i + k \in DOMAIN wire /\ j + k \in DOMAIN wire /\ tasks[wire[j + k]].reply # Waiting
    BY <1>4, <1>7, <2>1
  <2>4. tasks[wire[i + k]].reply # Waiting
    BY <2>2, <2>3 DEF InLine
  <2> QED
    BY <1>4, <2>1, <2>4
<1> QED
  BY <1>3, <1>5, <1>6, <1>7 DEF InLine

\* A handler that turns off what it lit, and nothing else, leaves every light with one.
LEMMA LightsMoves ==
    ASSUME TasksTyped, LightsKept, NEW s, NEW t, Moves(s, t), LightsMove(s, t)
    PROVE  LightsKept'
<1>1. /\ s \in Slots /\ tasks'[s] = t
      /\ \A r \in Slots : r # s => tasks'[r] = tasks[r]
  BY TasksMove
<1>2. ASSUME NEW f \in Lights, Lit(view', f) PROVE \E r \in Slots : Keeps(tasks'[r], f)
  <2>1. CASE Keeps(t, f)
    BY <1>1, <2>1
  <2>2. CASE Lit(view, f) /\ ~ Keeps(tasks[s], f)
    <3>1. PICK r \in Slots : Keeps(tasks[r], f)
      BY <2>2 DEF LightsKept
    <3> QED
      BY <1>1, <2>2, <3>1
  <2> QED
    BY <1>2, <2>1, <2>2 DEF LightsMove
<1>3. ASSUME NEW f \in Buttons, NEW r \in Slots, Keeps(tasks'[r], f) PROVE Lit(view', f)
  <2>1. CASE r = s
    BY <1>1, <1>3, <2>1 DEF LightsMove
  <2>2. CASE r # s
    BY <1>1, <1>3, <2>2 DEF LightsMove, LightsKept
  <2> QED
    BY <2>1, <2>2
<1>4. ASSUME NEW f \in Buttons, NEW q \in Slots, NEW r \in Slots,
             Keeps(tasks'[q], f), Keeps(tasks'[r], f)
      PROVE  q = r
  <2>1. CASE q # s /\ r # s
    BY <1>1, <1>4, <2>1 DEF LightsKept
  <2>2. CASE q = s /\ r # s
    BY <1>1, <1>4, <2>2 DEF LightsMove, LightsKept
  <2>3. CASE q # s /\ r = s
    BY <1>1, <1>4, <2>3 DEF LightsMove, LightsKept
  <2> QED
    BY <2>1, <2>2, <2>3
<1> QED
  BY <1>2, <1>3, <1>4 DEF LightsKept, Lit, Keeps

\* Who is answered is first in line.
LEMMA AnsweredFirst ==
    ASSUME InLine, NEW s, Answered(s)
    PROVE  1 \in DOMAIN wire /\ wire[1] = s
<1>1. wire \in Seq(Slots) /\ wire # <<>> /\ Head(wire) = s
  BY DEF InLine, Answered
<1> QED
  BY <1>1

\* The dialog's own request is the last one: earlier answers may be shown, but not on top.
LEMMA StatusMoved ==
    ASSUME InLine, TasksTyped, StatusKept, NEW s, NEW t, Moves(s, t), StatusMoves(s, t)
    PROVE  StatusKept'
<1>1. PICK k \in {0, 1}, n \in Nat : Shifts(k, n, s, t)
  BY LineMoves
<1>2. s \in Slots /\ tasks'[s] = t
  BY TasksMove
<1>3. /\ \A i \in 1 .. n : /\ i + k \in DOMAIN wire /\ i \in DOMAIN wire'
                           /\ tasks'[wire'[i]] = tasks[wire[i + k]]
      /\ \A i \in DOMAIN wire' : i \in 1 .. n \/ (i = n + 1 /\ wire'[i] = s /\ t.handler # "none")
  BY <1>1 DEF Shifts
<1>4. \A i \in DOMAIN wire : i \in Nat /\ (i - k \in 1 .. n \/ (i = 1 /\ k = 1 /\ wire[i] = s))
  BY <1>1 DEF Shifts
<1>5. CASE t.handler = "status" /\ t.row = view'.statusTarget
  <2>1. n + 1 \in DOMAIN wire' /\ tasks'[wire'[n + 1]] = t
    BY <1>1, <1>2, <1>5 DEF Shifts
  <2>2. \A j \in DOMAIN wire' : ~ (j > n + 1)
    BY <1>1, <1>3
  <2> QED
    BY <1>5, <2>1, <2>2 DEF StatusKept, LastStatusIsFor
<1>6. CASE /\ tasks[s].handler = "status" /\ t = NoTask
           /\ view'.statusTarget = view.statusTarget
           /\ view'.statusError \/ view'.statusDetail = tasks[s].row
  <2>1. \A j \in DOMAIN wire' : j \in 1 .. n
    BY <1>3, <1>6 DEF NoTask
  <2>2. Answered(s) /\ 1 \in DOMAIN wire /\ wire[1] = s
    BY <1>6, AnsweredFirst DEF Moves, NoTask
  <2>3. CASE view.statusTarget = None
    BY <1>6, <2>3 DEF StatusKept
  <2>4. CASE LastStatusIsFor(view.statusTarget)
    <3>1. PICK i \in DOMAIN wire :
             /\ tasks[wire[i]].handler = "status" /\ tasks[wire[i]].row = view.statusTarget
             /\ \A j \in DOMAIN wire : j > i => tasks[wire[j]].handler # "status"
      BY <2>4 DEF LastStatusIsFor
    <3>2. \A j \in 1 .. n : j + k > i => tasks'[wire'[j]].handler # "status"
      BY <1>3, <3>1
    <3>3. CASE i - k \in 1 .. n
      <4>1. (i - k) + k = i /\ \A j \in 1 .. n : j > i - k => j + k > i
        BY <1>1, <1>4, <3>3
      <4>2. i - k \in DOMAIN wire' /\ tasks'[wire'[i - k]] = tasks[wire[i]]
        BY <1>3, <3>3, <4>1
      <4>3. \A j \in DOMAIN wire' : j > i - k => tasks'[wire'[j]].handler # "status"
        BY <2>1, <3>2, <4>1
      <4> QED
        BY <1>6, <3>1, <4>2, <4>3 DEF StatusKept, LastStatusIsFor
    <3>4. CASE i = 1 /\ k = 1 /\ wire[i] = s
      <4>1. \A j \in DOMAIN wire' : tasks'[wire'[j]].handler # "status"
        BY <2>1, <3>2, <3>4
      <4> QED
        BY <1>6, <3>1, <3>4, <4>1 DEF StatusKept
    <3> QED
      BY <1>4, <3>3, <3>4
  <2>5. CASE \A i \in DOMAIN wire : tasks[wire[i]].handler # "status"
    BY <1>6, <2>2, <2>5
  <2> QED
    BY <2>3, <2>4, <2>5 DEF StatusKept
<1>7. CASE /\ tasks[s].handler # "status" /\ t.handler # "status"
           /\ view'.statusTarget = view.statusTarget /\ view'.statusDetail = view.statusDetail
           /\ view'.statusError = view.statusError
  <2>1. CASE view.statusTarget = None
    BY <1>7, <2>1 DEF StatusKept
  <2>2. CASE LastStatusIsFor(view.statusTarget)
    <3>1. PICK i \in DOMAIN wire :
             /\ tasks[wire[i]].handler = "status" /\ tasks[wire[i]].row = view.statusTarget
             /\ \A j \in DOMAIN wire : j > i => tasks[wire[j]].handler # "status"
      BY <2>2 DEF LastStatusIsFor
    <3>2. i - k \in 1 .. n
      BY <1>4, <1>7, <3>1
    <3>3. (i - k) + k = i /\ \A j \in 1 .. n : j > i - k => j + k > i
      BY <1>1, <1>4, <3>2
    <3>4. i - k \in DOMAIN wire' /\ tasks'[wire'[i - k]] = tasks[wire[i]]
      BY <1>3, <3>2, <3>3
    <3>5. ASSUME NEW j \in DOMAIN wire', j > i - k PROVE tasks'[wire'[j]].handler # "status"
      <4>1. CASE j \in 1 .. n
        BY <1>3, <3>1, <3>3, <3>5, <4>1
      <4>2. CASE wire'[j] = s
        BY <1>2, <1>7, <4>2
      <4> QED
        BY <1>3, <4>1, <4>2
    <3> QED
      BY <1>7, <3>1, <3>4, <3>5 DEF StatusKept, LastStatusIsFor
  <2>3. CASE /\ \A i \in DOMAIN wire : tasks[wire[i]].handler # "status"
             /\ view.statusError \/ view.statusDetail = view.statusTarget
    <3>1. \A i \in DOMAIN wire' : tasks'[wire'[i]].handler # "status"
      BY <1>2, <1>3, <1>7, <2>3
    <3> QED
      BY <1>7, <2>3, <3>1 DEF StatusKept
  <2> QED
    BY <2>1, <2>2, <2>3 DEF StatusKept
<1> QED
  BY <1>5, <1>6, <1>7 DEF StatusMoves

\* Whoever owes a read still owes it, or has just read.
LEMMA ViewMoved ==
    ASSUME InLine, TasksTyped, ViewKept, ReadsKept, NEW s, NEW t, Moves(s, t), ShownMoves(s, t)
    PROVE  ViewKept'
<1>1. /\ s \in Slots /\ tasks'[s] = t
      /\ \A r \in Slots : r # s => tasks'[r] = tasks[r]
  BY TasksMove
<1>2. UNCHANGED <<mainVars, mine>>
  BY DEF Moves
<1>3. CASE Owes(t)
  BY <1>1, <1>3 DEF ViewKept
<1>4. CASE Answered(s) /\ tasks[s].at = "refresh" /\ ShowsReply(tasks[s].reply)
  <2>1. CASE ~ tasks[s].reply.ok
    BY <1>4, <2>1 DEF ShowsReply, ViewKept
  <2>2. CASE tasks[s].reply.ok
    <3>1. 1 \in DOMAIN wire /\ wire[1] = s
      BY <1>4, AnsweredFirst
    <3>2. CASE UpToDate(tasks[s].reply)
      BY <1>2, <1>4, <2>2, <3>2
         DEF ShowsReply, ViewKept, UpToDate, ShownCertificate, CertUsable, Bound, AmongNewest,
             mainVars, catalogVars
    <3>3. ASSUME NEW j \in DOMAIN wire, j > 1, Owes(tasks[wire[j]]) PROVE ViewKept'
      <4>1. wire[j] \in Slots /\ wire[j] # s
        BY <3>1, <3>3 DEF InLine
      <4> QED
        BY <1>1, <3>3, <4>1 DEF ViewKept
    <3> QED
      BY <1>4, <2>2, <3>1, <3>2, <3>3 DEF ReadsKept
  <2> QED
    BY <2>1, <2>2
<1>5. CASE ~ Owes(tasks[s]) /\ ShowsSame
  <2>1. CASE UpToDate(view)
    BY <1>2, <1>5, <2>1
       DEF ShowsSame, ViewKept, UpToDate, ShownCertificate, CertUsable, Bound, AmongNewest,
           mainVars, catalogVars
  <2>2. CASE ~ view.readOk
    BY <1>5, <2>2 DEF ShowsSame, ViewKept
  <2>3. CASE \E r \in Slots : Owes(tasks[r])
    BY <1>1, <1>5, <2>3 DEF ViewKept
  <2> QED
    BY <2>1, <2>2, <2>3 DEF ViewKept
<1> QED
  BY <1>3, <1>4, <1>5 DEF ShownMoves

\* An answer that is out of date stays in front of the read that is still to come.
LEMMA ReadsMoved ==
    ASSUME InLine, TasksTyped, ReadsKept, NEW s, NEW t, Moves(s, t)
    PROVE  ReadsKept'
<1>1. PICK k \in {0, 1}, n \in Nat : Shifts(k, n, s, t)
  BY LineMoves
<1>2. tasks'[s] = t /\ t.reply = Waiting /\ UNCHANGED <<mainVars, mine>>
  BY TasksMove DEF Moves
<1>3. /\ \A i \in 1 .. n : /\ i + k \in DOMAIN wire /\ i \in DOMAIN wire'
                           /\ tasks'[wire'[i]] = tasks[wire[i + k]]
      /\ \A i \in DOMAIN wire' : i \in 1 .. n \/ (i = n + 1 /\ wire'[i] = s /\ t.handler # "none")
      /\ \A i \in DOMAIN wire : i \in Nat /\ (i - k \in 1 .. n \/ (i = 1 /\ k = 1 /\ wire[i] = s))
  BY <1>1 DEF Shifts
<1> SUFFICES ASSUME NEW i \in DOMAIN wire', tasks'[wire'[i]].at = "refresh",
                    tasks'[wire'[i]].reply.ok
             PROVE  \/ UpToDate(tasks[wire[i]].reply)'
                    \/ \E j \in DOMAIN wire' : j > i /\ Owes(tasks'[wire'[j]])
  BY DEF ReadsKept, Owes
<1>4. i \in 1 .. n
  BY <1>2, <1>3 DEF Waiting
<1>5. /\ i + k \in DOMAIN wire /\ tasks'[wire'[i]] = tasks[wire[i + k]]
      /\ tasks[wire[i + k]].at = "refresh" /\ tasks[wire[i + k]].reply.ok
  BY <1>3, <1>4
<1>6. CASE UpToDate(tasks[wire[i + k]].reply)
  BY <1>2, <1>5, <1>6 DEF UpToDate, ShownCertificate, CertUsable, Bound, AmongNewest,
                          mainVars, catalogVars
<1>7. ASSUME NEW j \in DOMAIN wire, j > i + k, Owes(tasks[wire[j]])
      PROVE  \E m \in DOMAIN wire' : m > i /\ Owes(tasks'[wire'[m]])
  <2>1. j - k \in 1 .. n /\ j - k > i /\ (j - k) + k = j
    BY <1>1, <1>3, <1>4, <1>7
  <2> QED
    BY <1>3, <1>7, <2>1
<1> QED
  BY <1>5, <1>6, <1>7 DEF ReadsKept

\* What a step of a handler does to the invariant.
LEMMA HandlerStepSafe ==
    ASSUME VInv, NEW s, NEW t, HandlerStep(s, t)
    PROVE  VInv'
<1>1. InLine' /\ TasksTyped' /\ LightsKept' /\ StatusKept' /\ ViewKept' /\ ReadsKept'
  BY TasksMove, InLineMoves, LightsMoves, StatusMoved, ViewMoved, ReadsMoved
     DEF VInv, HandlerStep
<1>2. MainTyped'
  BY DEF VInv, HandlerStep, Moves, MainTyped, mainVars, catalogVars
<1> QED
  BY <1>1, <1>2 DEF VInv, HandlerStep

-----------------------------------------------------------------------------
(***************************************************************************)
(* The main process answers, or issues on its own.                         *)
(***************************************************************************)

\* What UpToDate asks is not changed, but for less being asked.
MainKeeps ==
    /\ \A pd \in Rows : Bound(pd[1], pd[2])' => Bound(pd[1], pd[2]) /\ device'[pd] = device[pd]
    /\ projects' = projects /\ ShownCertificate' = ShownCertificate
    /\ \A pd \in Rows : current'[pd] \in mine' /\ AmongNewest(current[pd])' =>
         current'[pd] = current[pd] /\ current[pd] \in mine /\ AmongNewest(current[pd])

\* New licenses have new numbers.
LEMMA NumbersAreNew ==
    ASSUME MainTyped, NEW batch \in SUBSET Rows, IssueTo(batch)
    PROVE  /\ lastLicense' \in Nat /\ lastLicense' >= lastLicense
           /\ DOMAIN current' = Rows /\ device' = device /\ projects' = projects
           /\ ShownCertificate' = ShownCertificate
           /\ \A pd \in Rows : current'[pd] = current[pd]
                                 \/ current'[pd] \in lastLicense + 1 .. lastLicense'
<1>1. IsFiniteSet(batch)
  BY CatalogConstants, FS_Product, FS_Subset DEF Rows
<1>2. Cardinality(batch) \in Nat
  BY <1>1, FS_CardinalityType
<1>3. PICK number \in [batch -> lastLicense + 1 .. lastLicense + Cardinality(batch)] :
         current' = [pd \in Rows |-> IF pd \in batch THEN number[pd] ELSE current[pd]]
  BY DEF IssueTo
<1>4. lastLicense' = lastLicense + Cardinality(batch) /\ UNCHANGED catalogVars
  BY DEF IssueTo
<1>5. lastLicense' \in Nat /\ lastLicense' >= lastLicense
  BY <1>2, <1>4 DEF MainTyped
<1>6. \A pd \in Rows : current'[pd] = current[pd]
                         \/ current'[pd] \in lastLicense + 1 .. lastLicense'
  BY <1>3, <1>4
<1> QED
  BY <1>3, <1>4, <1>5, <1>6 DEF catalogVars, ShownCertificate, CertUsable

\* The answer a request gets, and what it leaves of the task.
LEMMA AnswerMade ==
    ASSUME TasksTyped, NEW s \in Slots, MainAnswers(s)
    PROVE  /\ DOMAIN tasks' = Slots /\ \A r \in Slots : r # s => tasks'[r] = tasks[r]
           /\ tasks'[s].handler = tasks[s].handler /\ tasks'[s].at = tasks[s].at
           /\ tasks'[s].row = tasks[s].row /\ TaskOK(tasks'[s])
           /\ tasks[s].reply = Waiting /\ tasks'[s].reply # Waiting
           /\ \/ ~ tasks'[s].reply.ok /\ DoesRefused(tasks[s].ask)
              \/ /\ tasks'[s].reply.ok /\ Does(tasks[s].ask)
                 /\ tasks[s].ask.do \in Reading =>
                      \E full \in {QuotaFull, FALSE} : tasks'[s].reply = Snapshot(4, full)
<1>1. TaskOK(tasks[s]) /\ DOMAIN tasks = Slots
  BY DEF TasksTyped
<1>2. tasks[s].reply = Waiting
  BY DEF MainAnswers, Unanswered
<1>3. ASSUME NEW n \in FailAt \union {0}, NEW full, NEW r,
             r = IF n = 0 THEN Refused ELSE Snapshot(n, full),
             tasks' = [tasks EXCEPT ![s].reply = r]
      PROVE  /\ ~ r.ok /\ r # Waiting /\ r.ok \in BOOLEAN
             /\ tasks'[s].reply = r /\ tasks'[s].handler = tasks[s].handler
             /\ tasks'[s].at = tasks[s].at /\ tasks'[s].row = tasks[s].row
             /\ TaskOK(tasks'[s])
  <2>1. n \in 0 .. 3
    BY <1>3, ViewConstants
  <2>2. ~ r.ok /\ r.ok \in BOOLEAN /\ r.read # -1
    <3>1. CASE n = 0
      BY <1>3, <3>1 DEF Refused
    <3>2. CASE n # 0
      <4>1. r.ok = (n = 4) /\ r.read = n
        BY <1>3, <3>2 DEF Snapshot
      <4>2. n # 4 /\ n # -1
        BY <2>1
      <4>3. r.ok = FALSE
        BY <4>1, <4>2, Zenon
      <4> QED
        BY <4>1, <4>2, <4>3
    <3> QED
      BY <3>1, <3>2
  <2>3. tasks'[s] = [tasks[s] EXCEPT !.reply = r]
    BY <1>1, <1>3
  <2>4. {"handler", "at", "row", "reply", "ask", "granted", "good", "bad", "todo", "rows"}
          \subseteq DOMAIN tasks[s]
    BY <1>1 DEF TaskOK, NoTask
  <2>5. TaskOK(tasks'[s])
    BY <1>1, <2>2, <2>3, <2>4 DEF TaskOK
  <2> QED
    BY <2>2, <2>3, <2>4, <2>5 DEF Waiting
<1>4. ASSUME NEW full, NEW r,
             r = IF tasks[s].ask.do \in Reading THEN Snapshot(4, full) ELSE Ok,
             tasks' = [tasks EXCEPT ![s].reply = r,
                                    ![s].granted = @ \union tasks[s].ask.batch]
      PROVE  /\ r.ok /\ r # Waiting /\ r.ok \in BOOLEAN
             /\ tasks'[s].reply = r /\ tasks'[s].handler = tasks[s].handler
             /\ tasks'[s].at = tasks[s].at /\ tasks'[s].row = tasks[s].row
             /\ TaskOK(tasks'[s])
  <2>1. r.ok /\ r.ok \in BOOLEAN /\ (tasks[s].ask.do = "read" => r.read = 4)
    BY <1>4 DEF Ok, Snapshot, Reading
  <2>2. tasks'[s] = [tasks[s] EXCEPT !.reply = r, !.granted = @ \union tasks[s].ask.batch]
    BY <1>1, <1>4
  <2>3. {"handler", "at", "row", "reply", "ask", "granted", "good", "bad", "todo", "rows"}
          \subseteq DOMAIN tasks[s]
    BY <1>1 DEF TaskOK, NoTask
  <2>4. /\ tasks'[s].handler = tasks[s].handler /\ tasks'[s].at = tasks[s].at
        /\ tasks'[s].row = tasks[s].row /\ tasks'[s].ask = tasks[s].ask
        /\ tasks'[s].good = tasks[s].good /\ tasks'[s].bad = tasks[s].bad
        /\ tasks'[s].todo = tasks[s].todo /\ tasks'[s].rows = tasks[s].rows
        /\ tasks'[s].reply = r /\ tasks'[s].granted = tasks[s].granted \union tasks[s].ask.batch
        /\ DOMAIN tasks'[s] = DOMAIN tasks[s]
    BY <2>2, <2>3
  <2>5. TaskOK(tasks'[s])
    BY <1>1, <2>1, <2>4 DEF TaskOK
  <2> QED
    BY <2>1, <2>4, <2>5 DEF Waiting
<1>5. \/ /\ DoesRefused(tasks[s].ask)
         /\ \E n \in FailAt \union {0}, full \in {QuotaFull, FALSE} :
              tasks' = [tasks EXCEPT ![s].reply = IF n = 0 THEN Refused ELSE Snapshot(n, full)]
      \/ /\ Does(tasks[s].ask)
         /\ \E full \in {QuotaFull, FALSE} :
              tasks' = [tasks EXCEPT
                 ![s].reply = IF tasks[s].ask.do \in Reading THEN Snapshot(4, full) ELSE Ok,
                 ![s].granted = @ \union tasks[s].ask.batch]
  BY DEF MainAnswers
<1>6. DOMAIN tasks' = Slots /\ \A r \in Slots : r # s => tasks'[r] = tasks[r]
  BY <1>1, <1>5
<1>7. CASE /\ DoesRefused(tasks[s].ask)
           /\ \E n \in FailAt \union {0}, full \in {QuotaFull, FALSE} :
                tasks' = [tasks EXCEPT ![s].reply = IF n = 0 THEN Refused ELSE Snapshot(n, full)]
  <2>1. PICK n \in FailAt \union {0}, full \in {QuotaFull, FALSE} :
          tasks' = [tasks EXCEPT ![s].reply = IF n = 0 THEN Refused ELSE Snapshot(n, full)]
    BY <1>7
  <2> QED
    BY <1>2, <1>3, <1>6, <1>7, <2>1
<1>8. CASE /\ Does(tasks[s].ask)
           /\ \E full \in {QuotaFull, FALSE} :
                tasks' = [tasks EXCEPT
                   ![s].reply = IF tasks[s].ask.do \in Reading THEN Snapshot(4, full) ELSE Ok,
                   ![s].granted = @ \union tasks[s].ask.batch]
  <2>1. PICK full \in {QuotaFull, FALSE} :
          tasks' = [tasks EXCEPT
             ![s].reply = IF tasks[s].ask.do \in Reading THEN Snapshot(4, full) ELSE Ok,
             ![s].granted = @ \union tasks[s].ask.batch]
    BY <1>8
  <2> DEFINE r == IF tasks[s].ask.do \in Reading THEN Snapshot(4, full) ELSE Ok
  <2>2. r = IF tasks[s].ask.do \in Reading THEN Snapshot(4, full) ELSE Ok
    OBVIOUS
  <2>3. tasks' = [tasks EXCEPT ![s].reply = r, ![s].granted = @ \union tasks[s].ask.batch]
    BY <2>1
  <2> HIDE DEF r
  <2>4. /\ r.ok /\ r # Waiting /\ tasks'[s].reply = r /\ tasks'[s].handler = tasks[s].handler
        /\ tasks'[s].at = tasks[s].at /\ tasks'[s].row = tasks[s].row /\ TaskOK(tasks'[s])
    BY <1>4, <2>2, <2>3
  <2>5. tasks[s].ask.do \in Reading => tasks'[s].reply = Snapshot(4, full)
    BY <2>2, <2>4
  <2> QED
    BY <1>2, <1>6, <1>8, <2>1, <2>4, <2>5
<1> QED
  BY <1>5, <1>7, <1>8

\* An import of a key, refused or not, leaves what is asked of the view.
LEMMA KeyImportKeeps ==
    ASSUME MainTyped, NEW k, ImportDelegatedKey(k), UNCHANGED <<current, lastLicense>>,
           mine' = mine \union (lastLicense + 1 .. lastLicense')
    PROVE  MainTyped' /\ MainKeeps
<1>1. mine' = mine
  BY DEF MainTyped
<1> QED
  BY <1>1 DEF MainTyped, MainKeeps, ImportDelegatedKey, ShownCertificate, CertUsable, Bound,
              AmongNewest

\* A request that is refused leaves what is asked of the view.
LEMMA RefusedKeeps ==
    ASSUME MainTyped, NEW call, DoesRefused(call),
           mine' = mine \union (lastLicense + 1 .. lastLicense')
    PROVE  MainTyped' /\ MainKeeps
<1>1. CASE UNCHANGED mainVars
  <2>1. mine' = mine
    BY <1>1 DEF MainTyped, mainVars
  <2> QED
    BY <1>1, <2>1 DEF MainTyped, MainKeeps, mainVars, catalogVars, ShownCertificate, CertUsable,
                      Bound, AmongNewest
<1>2. CASE ImportDelegatedKey(call.key) /\ UNCHANGED <<current, lastLicense>>
  BY <1>2, KeyImportKeeps
<1> QED
  BY <1>1, <1>2 DEF DoesRefused

\* A request that succeeds leaves what is asked of the view, or its handler reads again.
LEMMA DoesMoves ==
    ASSUME TasksTyped, MainTyped, NEW s \in Slots, Does(tasks[s].ask),
           mine' = mine \union (lastLicense + 1 .. lastLicense')
    PROVE  /\ MainTyped'
           /\ MainKeeps \/ tasks[s].at \in {"register", "batch", "project", "create", "lock", "import"}
<1> DEFINE call == tasks[s].ask
<1>1. TaskOK(tasks[s])
  BY DEF TasksTyped
<1>2. CASE UNCHANGED mainVars
  <2>1. mine' = mine
    BY <1>2 DEF MainTyped, mainVars
  <2> QED
    BY <1>2, <2>1 DEF MainTyped, MainKeeps, mainVars, catalogVars, ShownCertificate, CertUsable,
                      Bound, AmongNewest
<1>3. CASE call.do \in {"issue", "renew"} /\ IssueTo(call.batch)
  <2>1. call.batch \in SUBSET Rows /\ tasks[s].at = "batch"
    BY <1>1, <1>3 DEF TaskOK
  <2>2. /\ lastLicense' \in Nat /\ lastLicense' >= lastLicense
        /\ DOMAIN current' = Rows /\ device' = device
    BY <1>3, <2>1, NumbersAreNew
  <2>3. mine' \subseteq 1 .. lastLicense'
    BY <2>2 DEF MainTyped
  <2> QED
    BY <2>1, <2>2, <2>3 DEF MainTyped
<1>4. CASE /\ UNCHANGED <<current, lastLicense>>
           /\ \/ call.do = "create" /\ CreateProject(call.project)
              \/ call.do = "register" /\ RegisterDevice(Project(call), Device(call))
              \/ call.do = "register" /\ RegisterAgain(Project(call), Device(call))
              \/ call.do = "lock" /\ SetDeviceLock(Project(call), Device(call), call.to)
              \/ call.do = "import" /\ ImportControlCertificate(call.cert)
  <2>1. DOMAIN device' = Rows
    BY <1>4 DEF MainTyped, CreateProject, RegisterDevice, RegisterAgain, SetDeviceLock,
       ImportControlCertificate, StoreRegistration, StoreLock, catalogVars
  <2>2. tasks[s].at \in {"register", "project", "create", "lock", "import"}
    BY <1>1, <1>4 DEF TaskOK
  <2> QED
    BY <1>4, <2>1, <2>2 DEF MainTyped
<1>5. CASE UNCHANGED <<current, lastLicense>> /\ UnbindDevice(Project(call), Device(call))
  <2>1. mine' = mine
    BY <1>5 DEF MainTyped
  <2>2. device' = [device EXCEPT ![<<Project(call), Device(call)>>] = "unbound"]
        /\ projects' = projects /\ active' = active /\ now' = now
    BY <1>5 DEF UnbindDevice, StoreUnbind
  <2>3. \A pd \in Rows : pd = <<pd[1], pd[2]>>
    BY DEF Rows
  <2>4. \A pd \in Rows : device'[pd] \in {"bound", "locked"} => device'[pd] = device[pd]
    BY <2>2 DEF MainTyped
  <2> QED
    BY <1>5, <2>1, <2>2, <2>3, <2>4
       DEF MainTyped, MainKeeps, ShownCertificate, CertUsable, Bound, AmongNewest
<1>6. CASE UNCHANGED <<current, lastLicense>> /\ ImportDelegatedKey(call.key)
  BY <1>6, KeyImportKeeps
<1> QED
  BY <1>2, <1>3, <1>4, <1>5, <1>6 DEF Does

\* Answers are made in the order of the requests, and every light keeps its handler.
LEMMA AnswerInLine ==
    ASSUME InLine, TasksTyped, NEW s \in Slots, MainAnswers(s)
    PROVE  /\ InLine'
           /\ \E i \in DOMAIN wire :
                /\ wire[i] = s
                /\ \A j \in DOMAIN wire : tasks[wire[j]].reply # Waiting => j < i
<1>1. /\ \A r \in Slots : r # s => tasks'[r] = tasks[r]
      /\ tasks'[s].handler = tasks[s].handler /\ tasks[s].reply = Waiting
      /\ tasks'[s].reply # Waiting
  BY AnswerMade
<1>2. wire' = wire /\ wire \in Seq(Slots) /\ DOMAIN wire = 1 .. Len(wire) /\ Len(wire) \in Nat
  BY DEF MainAnswers, InLine
<1>3. PICK i \in DOMAIN wire : /\ wire[i] = s
                               /\ \A j \in 1 .. i - 1 : tasks[wire[j]].reply # Waiting
  BY DEF MainAnswers, Unanswered
<1>4. \A j \in DOMAIN wire : wire[j] \in Slots
  BY <1>2
<1>5. \A j \in DOMAIN wire : tasks[wire[j]].reply # Waiting => j < i
  <2> SUFFICES ASSUME NEW j \in DOMAIN wire, tasks[wire[j]].reply # Waiting, ~ (j < i)
               PROVE  FALSE
    OBVIOUS
  <2>1. j # i
    BY <1>1, <1>3
  <2>2. i < j
    BY <1>2, <2>1
  <2> QED
    BY <1>1, <1>3, <2>2 DEF InLine
<1>6. \A j \in DOMAIN wire : tasks'[wire[j]].handler # "none"
  BY <1>1, <1>4 DEF InLine
<1>7. ASSUME NEW j \in DOMAIN wire, NEW m \in DOMAIN wire, j < m, tasks'[wire[m]].reply # Waiting
      PROVE  tasks'[wire[j]].reply # Waiting
  <2>1. CASE wire[m] = s
    <3>1. m = i
      BY <1>3, <2>1 DEF InLine
    <3>2. j \in 1 .. i - 1
      BY <1>2, <1>7, <3>1
    <3>3. tasks[wire[j]].reply # Waiting
      BY <1>3, <3>2
    <3> QED
      BY <1>1, <1>4, <3>3
  <2>2. CASE wire[m] # s
    <3>1. tasks[wire[m]].reply # Waiting
      BY <1>1, <1>4, <1>7, <2>2
    <3>2. tasks[wire[j]].reply # Waiting
      BY <1>7, <3>1 DEF InLine
    <3> QED
      BY <1>1, <1>4, <3>2
  <2> QED
    BY <2>1, <2>2
<1>8. InLine'
  BY <1>2, <1>6, <1>7 DEF InLine
<1> QED
  BY <1>3, <1>5, <1>8

\* Every answer, a refusal or not, keeps the invariant.
LEMMA AnswerSafe ==
    ASSUME VInv, NEW s \in Slots, MainAnswers(s)
    PROVE  VInv'
<1>1. /\ DOMAIN tasks' = Slots /\ \A r \in Slots : r # s => tasks'[r] = tasks[r]
      /\ tasks'[s].handler = tasks[s].handler /\ tasks'[s].at = tasks[s].at
      /\ tasks'[s].row = tasks[s].row /\ TaskOK(tasks'[s]) /\ tasks[s].reply = Waiting
  BY AnswerMade DEF VInv
<1>2. \/ ~ tasks'[s].reply.ok /\ DoesRefused(tasks[s].ask)
      \/ /\ tasks'[s].reply.ok /\ Does(tasks[s].ask)
         /\ tasks[s].ask.do \in Reading =>
                      \E full \in {QuotaFull, FALSE} : tasks'[s].reply = Snapshot(4, full)
  BY AnswerMade DEF VInv
<1>3. /\ UNCHANGED <<view, wire>> /\ mine' = mine \union (lastLicense + 1 .. lastLicense')
      /\ wire \in Seq(Slots)
  BY DEF MainAnswers, VInv, InLine
<1>4. PICK i \in DOMAIN wire :
         /\ wire[i] = s
         /\ \A j \in DOMAIN wire : tasks[wire[j]].reply # Waiting => j < i
  BY AnswerInLine DEF VInv
<1>5. ViewTyped' /\ TasksTyped' /\ InLine'
  BY <1>1, <1>3, AnswerInLine DEF VInv, ViewTyped, TasksTyped, TaskOK
<1>6. \A r \in Slots : /\ tasks'[r].handler = tasks[r].handler /\ tasks'[r].at = tasks[r].at
                       /\ tasks'[r].row = tasks[r].row
  BY <1>1
<1>7. LightsKept'
  <2>1. \A r \in Slots, f \in Lights : Keeps(tasks'[r], f) <=> Keeps(tasks[r], f)
    BY <1>6 DEF Keeps
  <2>2. \A f \in Buttons : f \in Lights
    BY DEF Lights
  <2> QED
    BY <1>3, <2>1, <2>2 DEF VInv, LightsKept, Lit
<1>8. \A j \in DOMAIN wire : wire[j] \in Slots
  BY <1>3
<1>9. StatusKept'
  BY <1>3, <1>6, <1>8 DEF VInv, StatusKept, LastStatusIsFor
<1>10. \A r \in Slots : Owes(tasks[r]) => Owes(tasks'[r])
  <2>1. ~ tasks[s].reply.ok
    BY <1>1 DEF Waiting
  <2> QED
    BY <1>1, <2>1 DEF Owes
<1>11. MainTyped' /\ (MainKeeps \/ Owes(tasks'[s]))
  <2>1. CASE ~ tasks'[s].reply.ok /\ DoesRefused(tasks[s].ask)
    BY <1>3, <2>1, RefusedKeeps DEF VInv
  <2>2. CASE tasks'[s].reply.ok /\ Does(tasks[s].ask)
    <3>1. /\ MainTyped'
          /\ MainKeeps \/ tasks[s].at \in {"register", "batch", "project", "create", "lock", "import"}
      BY <1>3, <2>2, DoesMoves DEF VInv
    <3> QED
      BY <1>1, <2>2, <3>1 DEF Owes
  <2> QED
    BY <1>2, <2>1, <2>2
<1>12. ViewKept'
  <2>1. CASE Owes(tasks'[s])
    BY <2>1 DEF ViewKept
  <2>2. CASE UpToDate(view) /\ MainKeeps
    BY <1>3, <2>2 DEF ViewKept, UpToDate, MainKeeps
  <2>3. CASE ~ view.readOk \/ \E r \in Slots : Owes(tasks[r])
    BY <1>3, <1>10, <2>3 DEF ViewKept
  <2> QED
    BY <1>11, <2>1, <2>2, <2>3 DEF VInv, ViewKept
<1>13. ASSUME NEW m \in DOMAIN wire, tasks'[wire[m]].at = "refresh", tasks'[wire[m]].reply.ok
       PROVE  \/ UpToDate(tasks[wire[m]].reply)'
              \/ \E j \in DOMAIN wire : j > m /\ Owes(tasks'[wire[j]])
  <2>1. CASE wire[m] = s
    <3>1. /\ Does(tasks[s].ask) /\ tasks[s].ask.do = "read"
          /\ \E full \in {QuotaFull, FALSE} : tasks'[s].reply = Snapshot(4, full)
      BY <1>1, <1>2, <1>13, <2>1 DEF VInv, TasksTyped, TaskOK, Reading
    <3>2. UNCHANGED mainVars
      BY <3>1 DEF Does, Reading
    <3>3. /\ tasks'[s].reply.projects = projects /\ tasks'[s].reply.devices = device
          /\ tasks'[s].reply.certificate = ShownCertificate /\ tasks'[s].reply.licenses = Listed
      BY <3>1 DEF Snapshot, ListedDevices
    <3> QED
      BY <1>3, <2>1, <3>2, <3>3
         DEF UpToDate, Listed, AmongNewest, ShownCertificate, CertUsable, Bound, mainVars, catalogVars
  <2>2. CASE wire[m] # s
    <3>1. tasks'[wire[m]] = tasks[wire[m]]
      BY <1>1, <1>8, <2>2
    <3>2. m < i
      BY <1>4, <1>13, <3>1 DEF Waiting
    <3>3. CASE Owes(tasks'[s])
      BY <1>4, <3>2, <3>3
    <3>4. CASE MainKeeps /\ UpToDate(tasks[wire[m]].reply)
      BY <1>3, <3>1, <3>4 DEF UpToDate, MainKeeps
    <3>5. CASE \E j \in DOMAIN wire : j > m /\ Owes(tasks[wire[j]])
      BY <1>8, <1>10, <3>5
    <3> QED
      BY <1>11, <1>13, <3>1, <3>3, <3>4, <3>5 DEF VInv, ReadsKept
  <2> QED
    BY <2>1, <2>2
<1>14. ReadsKept'
  BY <1>3, <1>13 DEF ReadsKept, Owes
<1> QED
  BY <1>5, <1>7, <1>9, <1>11, <1>12, <1>14 DEF VInv

\* What the network issues is not the operator's.
LEMMA HubSafe ==
    ASSUME VInv, HubIssues
    PROVE  VInv'
<1>1. PICK pd \in Rows : IssueTo({pd})
  BY DEF HubIssues
<1>2. UNCHANGED <<view, tasks, wire, clicks, mine>>
  BY DEF HubIssues
<1>3. /\ lastLicense' \in Nat /\ lastLicense' >= lastLicense
      /\ DOMAIN current' = Rows /\ device' = device /\ projects' = projects
      /\ ShownCertificate' = ShownCertificate
      /\ \A qe \in Rows : current'[qe] = current[qe]
                            \/ current'[qe] \in lastLicense + 1 .. lastLicense'
  BY <1>1, NumbersAreNew DEF VInv
<1>4. MainTyped'
  BY <1>2, <1>3 DEF VInv, MainTyped
<1>5. ASSUME NEW qe \in Rows, current'[qe] \in mine, current'[qe] > lastLicense' - ListLimit
      PROVE  /\ current'[qe] = current[qe] /\ current[qe] \in mine
             /\ current[qe] > lastLicense - ListLimit
  <2>1. current'[qe] \in 1 .. lastLicense /\ lastLicense \in Nat
    BY <1>5 DEF VInv, MainTyped
  <2>2. current'[qe] = current[qe]
    BY <1>3, <2>1
  <2> QED
    BY <1>3, <1>5, <2>1, <2>2, ViewConstants
<1>6. MainKeeps
  BY <1>2, <1>3, <1>5 DEF MainKeeps, Bound, AmongNewest
<1>7. ViewTyped' /\ TasksTyped' /\ InLine' /\ LightsKept' /\ StatusKept'
  BY <1>2 DEF VInv, ViewTyped, TasksTyped, InLine, LightsKept, StatusKept, LastStatusIsFor
<1>8. ViewKept'
  BY <1>2, <1>6 DEF VInv, ViewKept, UpToDate, MainKeeps
<1>9. ReadsKept'
  BY <1>2, <1>6 DEF VInv, ReadsKept, UpToDate, MainKeeps
<1> QED
  BY <1>4, <1>7, <1>8, <1>9 DEF VInv

-----------------------------------------------------------------------------
(***************************************************************************)
(* Handlers that are started.                                              *)
(***************************************************************************)

\* A task once its next request is sent.
Sent(task, call) == [task EXCEPT !.ask = call, !.reply = Waiting]

SentFrom(t, task, call) ==
    /\ DOMAIN t = DOMAIN NoTask /\ t.ask = call /\ t.reply = Waiting /\ t.reply.ok = FALSE
    /\ t.handler = task.handler /\ t.at = task.at /\ t.row = task.row /\ t.rows = task.rows
    /\ t.todo = task.todo /\ t.good = task.good /\ t.bad = task.bad /\ t.granted = task.granted

LEMMA SentFields ==
    ASSUME NEW task, DOMAIN task = DOMAIN NoTask, NEW call
    PROVE  SentFrom(Sent(task, call), task, call)
<1>1. {"handler", "at", "row", "rows", "todo", "good", "bad", "granted", "ask", "reply"}
        \subseteq DOMAIN task
  BY DEF NoTask
<1> QED
  BY <1>1 DEF SentFrom, Sent, Waiting

\* A request about no license, and the place where its handler waits for it.
LEMMA SentOK ==
    ASSUME NEW task, DOMAIN task = DOMAIN NoTask, NEW call, task.at # "batch",
           task.at = "refresh" => call.do = "read",
           call.do \notin {"issue", "renew"},
           call.do \in {"register", "lock", "import"} => task.at = call.do,
           call.do = "create" => task.at \in {"project", "create"}
    PROVE  TaskOK(Sent(task, call))
<1>1. PICK t : t = Sent(task, call)
  OBVIOUS
<1>2. /\ DOMAIN t = DOMAIN NoTask /\ t.ask = call /\ t.at = task.at /\ t.reply.ok = FALSE
  <2>1. SentFrom(t, task, call)
    BY <1>1, SentFields
  <2> QED
    BY <2>1 DEF SentFrom
<1>3. TaskOK(t)
  BY <1>2 DEF TaskOK
<1> QED
  BY <1>1, <1>3

\* The refs the invariant is about.
Watched == Lights \union {"statusTarget", "statusDetail", "statusError",
                          "devices", "projects", "certificate", "licenses", "readOk"}

Changes(fields) ==
    DOMAIN view' = DOMAIN view /\ \A f \in DOMAIN view \ fields : view'[f] = view[f]

LEMMA WatchedRefs == ASSUME ViewTyped PROVE Watched \subseteq DOMAIN view
BY DEF ViewTyped, Watched, Lights, Buttons, BlankView

LEMMA TypedChanges ==
    ASSUME ViewTyped, NEW fields, Changes(fields),
           \A f \in fields \intersect (Lights \ {"locking", "projectInit"}) : view'[f] \in BOOLEAN
    PROVE  ViewTyped'
<1>1. Watched \subseteq DOMAIN view
  BY WatchedRefs
<1>2. ASSUME NEW f \in Lights \ {"locking", "projectInit"} PROVE view'[f] \in BOOLEAN
  <2>1. f \in DOMAIN view
    BY <1>1 DEF Watched
  <2> QED
    BY <2>1 DEF Changes, ViewTyped
<1> QED
  BY <1>2 DEF Changes, ViewTyped

\* A handler that is started takes a slot that is free.
LEMMA StartMoves ==
    ASSUME NEW task, DOMAIN task = DOMAIN NoTask, task.handler # "none",
           NEW call, TaskOK(Sent(task, call)), Starts(task, call)
    PROVE  \E s \in Slots : tasks[s] = NoTask /\ Moves(s, Sent(task, call))
<1>1. PICK s \in Slots : Idle(s) /\ Sends(s, task, call, wire)
  BY DEF Starts
<1>2. tasks' = [tasks EXCEPT ![s] = Sent(task, call)] /\ wire' = Append(wire, s)
  BY <1>1 DEF Sends, Sent
<1>3. UNCHANGED <<mainVars, mine>>
  BY DEF Starts
<1>4. /\ Sent(task, call).reply = Waiting
      /\ Sent(task, call).handler = task.handler
  <2>1. SentFrom(Sent(task, call), task, call)
    BY SentFields
  <2> QED
    BY <2>1 DEF SentFrom
<1>5. Moves(s, Sent(task, call))
  BY <1>1, <1>2, <1>3, <1>4 DEF Moves
<1> QED
  BY <1>1, <1>5 DEF Idle

\* Started with the button it disables, and with nothing else changed that is watched, a
\* handler keeps the invariant.
LEMMA StartSafe ==
    ASSUME VInv, NEW task, DOMAIN task = DOMAIN NoTask, task.handler \notin {"none", "status"},
           NEW call, TaskOK(Sent(task, call)), Starts(task, call),
           NEW fields, Changes(fields), fields \intersect Watched \subseteq Lights,
           ViewTyped',
           \A f \in Lights \intersect fields : Lit(view', f) => Keeps(task, f) \/ Lit(view, f),
           \A f \in Buttons : Keeps(task, f) => Lit(view', f) /\ ~ Lit(view, f),
           \A f \in Buttons \intersect fields : Lit(view, f) => Lit(view', f)
    PROVE  VInv'
<1> DEFINE t == Sent(task, call)
<1>1. PICK s \in Slots : tasks[s] = NoTask /\ Moves(s, t)
  BY StartMoves
<1>2. Watched \subseteq DOMAIN view
  BY WatchedRefs DEF VInv
<1>3. \A f \in Watched \ fields : view'[f] = view[f]
  BY <1>2 DEF Changes
<1>4. t.handler = task.handler /\ t.at = task.at /\ t.row = task.row
  <2>1. SentFrom(Sent(task, call), task, call)
    BY SentFields
  <2> QED
    BY <2>1 DEF SentFrom
<1>5. \A f \in Lights : (Keeps(t, f) <=> Keeps(task, f)) /\ ~ Keeps(NoTask, f)
  BY <1>4 DEF Keeps, NoTask
<1>6. \A f \in Lights \ fields : Lit(view', f) <=> Lit(view, f)
  BY <1>3 DEF Watched, Lit, Lights, Buttons
<1>7. LightsMove(s, t)
  <2>1. \A f \in Buttons : f \in Lights
    BY DEF Lights
  <2> QED
    BY <1>1, <1>5, <1>6, <2>1 DEF LightsMove
<1>8. StatusMoves(s, t)
  BY <1>1, <1>3, <1>4 DEF StatusMoves, Watched, Lights, Buttons, NoTask
<1>9. ShownMoves(s, t)
  BY <1>1, <1>3 DEF ShownMoves, ShowsSame, Watched, Lights, Buttons, NoTask, Waiting, Owes
<1>10. HandlerStep(s, t)
  BY <1>1, <1>7, <1>8, <1>9 DEF HandlerStep
<1> QED
  BY <1>10, HandlerStepSafe

\* Reading everything, on mounting and with its button.
LEMMA ReadSafe ==
    ASSUME VInv, NEW handler \in {"mount", "refresh"}, view' = Reads(view),
           Starts([NoTask EXCEPT !.handler = handler, !.at = "refresh"], Call("read"))
    PROVE  VInv'
<1> DEFINE task == [NoTask EXCEPT !.handler = handler, !.at = "refresh"]
<1>1. /\ DOMAIN task = DOMAIN NoTask /\ task.handler = handler /\ task.at = "refresh"
  BY DEF NoTask
<1>2. Call("read").do = "read"
  BY DEF Call
<1>3. TaskOK(Sent(task, Call("read")))
  BY <1>1, <1>2, SentOK
<1>4. view' = [view EXCEPT !.loading = TRUE] /\ Watched \subseteq DOMAIN view
  BY WatchedRefs DEF Reads, VInv
<1>5. Changes({"loading"}) /\ view'.loading = TRUE
  BY <1>4 DEF Changes, Watched, Lights
<1>6. ViewTyped'
  BY <1>5, TypedChanges DEF VInv
<1>7. \A f \in Buttons : ~ Keeps(task, f)
  BY <1>1 DEF Keeps, Buttons
<1>8. Keeps(task, "loading")
  BY <1>1 DEF Keeps
<1>9. {"loading"} \intersect Watched \subseteq Lights /\ "loading" \notin Buttons
  BY DEF Lights, Buttons
<1> HIDE DEF task
<1> QED
  BY <1>1, <1>3, <1>5, <1>6, <1>7, <1>8, <1>9, StartSafe DEF task

\* A registration that goes on asks for the next id, or has none left and reads.
GoesOn(v, t, r) ==
    /\ DOMAIN r.task = DOMAIN NoTask /\ r.task.handler = t.handler
    /\ TaskOK(Sent(r.task, r.call))
    /\ \/ r.task.at = "register" /\ r.view = v
       \/ /\ r.task.at = "refresh" /\ DOMAIN r.view = DOMAIN v
          /\ r.view.registering = FALSE /\ r.view.loading = TRUE
          /\ \A f \in DOMAIN v \ {"registering", "loading", "notice"} : r.view[f] = v[f]

LEMMA RegisterOnMoves ==
    ASSUME NEW v, {"loading", "registering"} \subseteq DOMAIN v,
           NEW t, DOMAIN t = DOMAIN NoTask, NEW r, r = RegisterOn(v, t)
    PROVE  GoesOn(v, t, r)
<1> DEFINE asks == {i \in DOMAIN t.ids : t.ids[i] # Malformed /\ ~ Known(v, t.ids[i])}
<1>1. {"handler", "at", "ids", "bad"} \subseteq DOMAIN t
  BY DEF NoTask
<1>2. CASE asks = {}
  <2>1. PICK ids, bad, n :
          /\ r.task = [t EXCEPT !.ids = ids, !.bad = bad, !.at = "refresh"]
          /\ r.call = Call("read")
          /\ r.view = Reads([v EXCEPT !.registering = FALSE, !.notice = n])
    BY <1>2 DEF RegisterOn
  <2>2. /\ DOMAIN r.task = DOMAIN NoTask /\ r.task.handler = t.handler
        /\ r.task.at = "refresh" /\ r.call.do = "read"
    BY <1>1, <2>1 DEF Call
  <2>3. /\ DOMAIN r.view = DOMAIN v /\ r.view.registering = FALSE /\ r.view.loading = TRUE
        /\ \A f \in DOMAIN v \ {"registering", "loading", "notice"} : r.view[f] = v[f]
    BY <2>1 DEF Reads
  <2> QED
    BY <2>2, <2>3, SentOK DEF GoesOn
<1>3. CASE asks # {}
  <2>1. PICK ids, bad, batch :
          /\ r.task = [t EXCEPT !.ids = ids, !.bad = bad, !.at = "register"]
          /\ r.call = CallFor("register", batch) /\ r.view = v
    BY <1>3 DEF RegisterOn
  <2>2. /\ DOMAIN r.task = DOMAIN NoTask /\ r.task.handler = t.handler
        /\ r.task.at = "register" /\ r.call.do = "register"
    BY <1>1, <2>1 DEF CallFor
  <2> QED
    BY <2>1, <2>2, SentOK DEF GoesOn
<1> QED
  BY <1>2, <1>3

\* submitRegister
LEMMA SubmitRegisterSafe ==
    ASSUME VInv, NEW ids, SubmitRegister(ids)
    PROVE  VInv'
<1> DEFINE p == view.registerProject
           v == [view EXCEPT !.registering = TRUE, !.registerError = FALSE]
           t == [NoTask EXCEPT !.handler = "register", !.project = p, !.ids = ids]
           fields == {"registering", "registerError", "loading", "notice"}
<1>1. ~ view.registering /\ Watched \subseteq DOMAIN view
  BY WatchedRefs DEF SubmitRegister, VInv
<1>2. /\ fields \intersect Watched \subseteq Lights
      /\ fields \intersect Buttons = {"registering"} /\ "loading" \in Lights
  BY DEF Lights, Buttons, Watched
<1>3. DOMAIN t = DOMAIN NoTask /\ t.handler = "register"
  BY DEF NoTask
<1>4. {"loading", "registering"} \subseteq DOMAIN v /\ view.loading \in BOOLEAN
  BY <1>1 DEF VInv, ViewTyped, Watched, Lights, Buttons
<1>5. CASE p \in view.projects
  <2>1. PICK r : r = RegisterOn(v, t) /\ view' = r.view /\ Starts(r.task, r.call)
    BY <1>5 DEF SubmitRegister
  <2>2. /\ DOMAIN r.task = DOMAIN NoTask /\ r.task.handler = "register"
        /\ TaskOK(Sent(r.task, r.call))
        /\ \/ r.task.at = "register" /\ r.view = v
           \/ /\ r.task.at = "refresh" /\ DOMAIN r.view = DOMAIN v
              /\ r.view.registering = FALSE /\ r.view.loading = TRUE
              /\ \A f \in DOMAIN v \ {"registering", "loading", "notice"} : r.view[f] = v[f]
    <3>1. GoesOn(v, t, r)
      BY <1>3, <1>4, <2>1, RegisterOnMoves
    <3> QED
      BY <1>3, <3>1 DEF GoesOn
  <2>3. /\ Changes(fields)
        /\ \/ r.task.at = "register" /\ view'.registering = TRUE /\ view'.loading = view.loading
           \/ r.task.at = "refresh" /\ view'.registering = FALSE /\ view'.loading = TRUE
    BY <1>1, <2>1, <2>2 DEF Changes, Watched, Lights, Buttons
  <2>4. ViewTyped'
    BY <1>4, <2>3, TypedChanges DEF VInv, Lights, Buttons
  <2>5. /\ \A f \in Lights \intersect fields : Lit(view', f) => Keeps(r.task, f) \/ Lit(view, f)
        /\ \A f \in Buttons : Keeps(r.task, f) => Lit(view', f) /\ ~ Lit(view, f)
        /\ \A f \in Buttons \intersect fields : Lit(view, f) => Lit(view', f)
    BY <1>1, <2>2, <2>3 DEF Keeps, Lit, Lights, Buttons
  <2> HIDE DEF fields
  <2> QED
    BY <1>2, <2>1, <2>2, <2>3, <2>4, <2>5, StartSafe
<1>6. CASE p \notin view.projects
  <2> DEFINE u == [t EXCEPT !.at = "project"]
  <2>1. view' = v /\ Starts(u, CreateCall(p))
    BY <1>6 DEF SubmitRegister
  <2>2. /\ DOMAIN u = DOMAIN NoTask /\ u.handler = "register" /\ u.at = "project"
        /\ CreateCall(p).do = "create"
    BY DEF NoTask, CreateCall
  <2>3. TaskOK(Sent(u, CreateCall(p)))
    BY <2>2, SentOK
  <2> HIDE DEF u
  <2>4. Changes(fields) /\ view'.registering = TRUE /\ view'.loading = view.loading
    BY <1>1, <2>1 DEF Changes, Watched, Lights, Buttons
  <2>5. ViewTyped'
    BY <1>4, <2>4, TypedChanges DEF VInv, Lights, Buttons
  <2>6. /\ \A f \in Lights \intersect fields : Lit(view', f) => Keeps(u, f) \/ Lit(view, f)
        /\ \A f \in Buttons : Keeps(u, f) => Lit(view', f) /\ ~ Lit(view, f)
        /\ \A f \in Buttons \intersect fields : Lit(view, f) => Lit(view', f)
    BY <1>1, <2>2, <2>4 DEF Keeps, Lit, Lights, Buttons
  <2> HIDE DEF fields
  <2> QED
    BY <1>2, <2>1, <2>2, <2>3, <2>4, <2>5, <2>6, StartSafe
<1> QED
  BY <1>5, <1>6

\* groupSelected: every chosen row is in a batch.
LEMMA GroupsCover ==
    ASSUME NEW rows \in SUBSET Rows
    PROVE  /\ Groups(rows) \subseteq SUBSET rows
           /\ rows \subseteq UNION Groups(rows)
<1>1. \A b \in Groups(rows) : b \subseteq rows
  BY DEF Groups
<1>2. ASSUME NEW pd \in rows PROVE pd \in UNION Groups(rows)
  <2>1. pd[1] \in {qe[1] : qe \in rows}
    OBVIOUS
  <2>2. {qe \in rows : qe[1] = pd[1]} \in Groups(rows)
    BY <2>1 DEF Groups
  <2> QED
    BY <2>2
<1> QED
  BY <1>1, <1>2

\* A batch that is sent next to others that are still to be sent.
LEMMA BatchOK ==
    ASSUME NEW task, DOMAIN task = DOMAIN NoTask, task.at = "batch",
           NEW handler, NEW batch \in SUBSET Rows,
           task.todo \subseteq SUBSET Rows, task.good \subseteq task.granted,
           task.rows \subseteq task.good \union task.bad \union batch \union UNION task.todo
    PROVE  TaskOK(Sent(task, BatchCall(handler, batch)))
<1>1. /\ BatchCall(handler, batch).do \in {"issue", "renew"}
      /\ BatchCall(handler, batch).batch = batch
  BY DEF BatchCall, CallFor
<1>2. PICK c : c = BatchCall(handler, batch)
  OBVIOUS
<1> DEFINE t == Sent(task, c)
<1>3. /\ DOMAIN t = DOMAIN NoTask /\ t.ask = c /\ t.at = "batch" /\ t.reply.ok = FALSE
      /\ t.todo = task.todo /\ t.good = task.good /\ t.bad = task.bad
      /\ t.granted = task.granted /\ t.rows = task.rows
  <2>1. SentFrom(t, task, c)
    BY SentFields
  <2> QED
    BY <2>1 DEF SentFrom
<1> HIDE DEF t
<1>4. TaskOK(t)
  BY <1>1, <1>2, <1>3 DEF TaskOK
<1> QED
  BY <1>2, <1>4 DEF t

\* submitIssue and submitRenew
LEMMA SubmitIssueSafe ==
    ASSUME VInv, NEW handler, SubmitIssue(handler)
    PROVE  VInv'
<1> DEFINE rows == view.selected \intersect RowsOf(view)
           t == [NoTask EXCEPT !.handler = handler, !.at = "batch", !.rows = rows]
           v == [view EXCEPT !.submitting = TRUE]
           fields == {"submitting", "loading", "notice"}
<1>1. ~ view.submitting /\ handler \in {"issue", "renew"} /\ Watched \subseteq DOMAIN view
  BY WatchedRefs DEF SubmitIssue, VInv
<1>2. fields \intersect Watched \subseteq Lights /\ fields \intersect Buttons = {"submitting"}
  BY DEF Lights, Buttons, Watched
<1>3. /\ DOMAIN t = DOMAIN NoTask /\ t.handler = handler /\ t.at = "batch" /\ t.rows = rows
      /\ t.good = {} /\ t.bad = {} /\ t.granted = {} /\ t.todo = {}
  BY DEF NoTask
<1>4. view.loading \in BOOLEAN /\ rows \in SUBSET Rows
  BY DEF VInv, ViewTyped, Lights, RowsOf
<1>5. CASE rows = {}
  <2> DEFINE u == [t EXCEPT !.at = "refresh"]
  <2>1. view' = Reads(ApplyOutcomes(v, {}, {})) /\ Starts(u, Call("read"))
    BY <1>5 DEF SubmitIssue
  <2>2. DOMAIN u = DOMAIN NoTask /\ u.handler = handler /\ u.at = "refresh"
    BY DEF NoTask
  <2>3. TaskOK(Sent(u, Call("read")))
    BY <2>2, SentOK DEF Call
  <2> HIDE DEF u
  <2>4. Changes(fields) /\ view'.submitting = TRUE /\ view'.loading = TRUE
    BY <1>1, <2>1 DEF Changes, Reads, ApplyOutcomes, Watched, Lights, Buttons
  <2>5. ViewTyped'
    BY <2>4, TypedChanges DEF VInv, Lights, Buttons
  <2>6. /\ \A f \in Lights \intersect fields : Lit(view', f) => Keeps(u, f) \/ Lit(view, f)
        /\ \A f \in Buttons : Keeps(u, f) => Lit(view', f) /\ ~ Lit(view, f)
        /\ \A f \in Buttons \intersect fields : Lit(view, f) => Lit(view', f)
    BY <1>1, <2>2, <2>4 DEF Keeps, Lit, Lights, Buttons
  <2> HIDE DEF fields
  <2> QED
    BY <1>1, <1>2, <2>1, <2>2, <2>3, <2>4, <2>5, <2>6, StartSafe
<1>6. CASE rows # {}
  <2>1. PICK b \in Groups(rows) :
          /\ Starts([t EXCEPT !.todo = Groups(rows) \ {b}], BatchCall(handler, b))
          /\ view' = v
    BY <1>6 DEF SubmitIssue
  <2> DEFINE u == [t EXCEPT !.todo = Groups(rows) \ {b}]
             c == BatchCall(handler, b)
  <2>2. /\ DOMAIN u = DOMAIN NoTask /\ u.handler = handler /\ u.at = "batch"
        /\ u.todo = Groups(rows) \ {b} /\ u.rows = rows
        /\ u.good = {} /\ u.bad = {} /\ u.granted = {}
    BY DEF NoTask
  <2> HIDE DEF u
  <2>3. /\ b \in SUBSET Rows /\ u.todo \subseteq SUBSET Rows
        /\ rows \subseteq b \union UNION u.todo
    BY <1>4, <2>2, GroupsCover
  <2>4. TaskOK(Sent(u, c))
    BY <2>2, <2>3, BatchOK
  <2>5. Changes(fields) /\ view'.submitting = TRUE /\ view'.loading = view.loading
    BY <1>1, <2>1 DEF Changes, Watched, Lights, Buttons
  <2>6. ViewTyped'
    BY <1>4, <2>5, TypedChanges DEF VInv, Lights, Buttons
  <2>7. /\ \A f \in Lights \intersect fields : Lit(view', f) => Keeps(u, f) \/ Lit(view, f)
        /\ \A f \in Buttons : Keeps(u, f) => Lit(view', f) /\ ~ Lit(view, f)
        /\ \A f \in Buttons \intersect fields : Lit(view, f) => Lit(view', f)
    BY <1>1, <2>2, <2>5 DEF Keeps, Lit, Lights, Buttons
  <2>8. Starts(u, c)
    BY <2>1 DEF u
  <2> HIDE DEF fields, c
  <2> QED
    BY <1>1, <1>2, <2>2, <2>4, <2>5, <2>6, <2>7, <2>8, StartSafe
<1> QED
  BY <1>5, <1>6

\* A handler that is started with nothing but its own flag.
LEMMA OneFlagSafe ==
    ASSUME VInv, NEW flag \in Lights \ {"projectInit", "loading", "statusLoading"},
           NEW task, DOMAIN task = DOMAIN NoTask, task.handler \notin {"none", "status"},
           \A f \in Lights : Keeps(task, f) <=> f = flag,
           NEW call, TaskOK(Sent(task, call)), Starts(task, call),
           Changes({flag}), flag # "locking" => view[flag] = FALSE /\ view'[flag] = TRUE
    PROVE  VInv'
<1>1. ViewTyped'
  BY TypedChanges DEF VInv
<1>2. /\ {flag} \intersect Watched \subseteq Lights
      /\ \A f \in Buttons : f \in Lights /\ f \notin {"locking", "projectInit"}
  BY DEF Lights, Buttons
<1>3. /\ \A f \in Lights \intersect {flag} : Lit(view', f) => Keeps(task, f) \/ Lit(view, f)
      /\ \A f \in Buttons : Keeps(task, f) => Lit(view', f) /\ ~ Lit(view, f)
      /\ \A f \in Buttons \intersect {flag} : Lit(view, f) => Lit(view', f)
  BY <1>2 DEF Lit
<1> QED
  BY <1>1, <1>2, <1>3, StartSafe

\* toggleLock
LEMMA ToggleLockSafe ==
    ASSUME VInv, NEW pd, ToggleLock(pd)
    PROVE  VInv'
<1> DEFINE task == [NoTask EXCEPT !.handler = "lock", !.at = "lock", !.row = pd]
<1>1. PICK c : c.do = "lock" /\ Starts(task, c)
  BY DEF ToggleLock
<1>2. DOMAIN task = DOMAIN NoTask /\ task.handler = "lock" /\ task.at = "lock"
  BY DEF NoTask
<1> HIDE DEF task
<1>3. TaskOK(Sent(task, c))
  BY <1>1, <1>2, SentOK
<1>4. Changes({"locking"})
  BY DEF ToggleLock, Changes
<1>5. \A f \in Lights : Keeps(task, f) <=> f = "locking"
  BY <1>2 DEF Keeps, Lights, Buttons
<1>6. "locking" \in Lights \ {"projectInit", "loading", "statusLoading"}
  BY DEF Lights
<1> QED
  BY <1>1, <1>2, <1>3, <1>4, <1>5, <1>6, OneFlagSafe

\* submitUnbind
LEMMA SubmitUnbindSafe ==
    ASSUME VInv, SubmitUnbind
    PROVE  VInv'
<1> DEFINE task == [NoTask EXCEPT !.handler = "unbind", !.at = "unbind", !.row = view.unbinding]
<1>1. PICK c : c.do = "unbind" /\ Starts(task, c)
  BY DEF SubmitUnbind, CallFor
<1>2. DOMAIN task = DOMAIN NoTask /\ task.handler = "unbind" /\ task.at = "unbind"
  BY DEF NoTask
<1> HIDE DEF task
<1>3. TaskOK(Sent(task, c))
  BY <1>1, <1>2, SentOK
<1>4. "unbindBusy" \in Lights \ {"projectInit", "loading", "statusLoading", "locking"}
  BY DEF Lights, Buttons
<1>5. view.unbindBusy = FALSE /\ "unbindBusy" \in DOMAIN view
  BY <1>4, WatchedRefs DEF SubmitUnbind, VInv, ViewTyped, Watched
<1>6. Changes({"unbindBusy"}) /\ view'.unbindBusy = TRUE
  BY <1>5 DEF SubmitUnbind, Changes
<1>7. \A f \in Lights : Keeps(task, f) <=> f = "unbindBusy"
  BY <1>2 DEF Keeps, Lights, Buttons
<1> QED
  BY <1>1, <1>2, <1>3, <1>4, <1>5, <1>6, <1>7, OneFlagSafe

\* submitAddProject
LEMMA SubmitAddProjectSafe ==
    ASSUME VInv, NEW p, SubmitAddProject(p)
    PROVE  VInv'
<1> DEFINE task == [NoTask EXCEPT !.handler = "addProject", !.at = "create", !.project = p]
<1>1. PICK c : c.do = "create" /\ Starts(task, c)
  BY DEF SubmitAddProject, CreateCall
<1>2. DOMAIN task = DOMAIN NoTask /\ task.handler = "addProject" /\ task.at = "create"
  BY DEF NoTask
<1> HIDE DEF task
<1>3. TaskOK(Sent(task, c))
  BY <1>1, <1>2, SentOK
<1>4. "adding" \in Lights \ {"projectInit", "loading", "statusLoading", "locking"}
  BY DEF Lights, Buttons
<1>5. view.adding = FALSE /\ "adding" \in DOMAIN view
  BY <1>4, WatchedRefs DEF SubmitAddProject, VInv, ViewTyped, Watched
<1>6. Changes({"adding"}) /\ view'.adding = TRUE
  BY <1>5 DEF SubmitAddProject, Changes
<1>7. \A f \in Lights : Keeps(task, f) <=> f = "adding"
  BY <1>2 DEF Keeps, Lights, Buttons
<1> QED
  BY <1>1, <1>2, <1>3, <1>4, <1>5, <1>6, <1>7, OneFlagSafe

\* submitCertificate
LEMMA SubmitCertificateSafe ==
    ASSUME VInv, NEW c, SubmitCertificate(c)
    PROVE  VInv'
<1> DEFINE task == [NoTask EXCEPT !.handler = "import", !.at = "import", !.project = c]
<1>1. PICK call : call.do = "import" /\ Starts(task, call)
  BY DEF SubmitCertificate
<1>2. DOMAIN task = DOMAIN NoTask /\ task.handler = "import" /\ task.at = "import"
  BY DEF NoTask
<1> HIDE DEF task
<1>3. TaskOK(Sent(task, call))
  BY <1>1, <1>2, SentOK
<1>4. "importing" \in Lights \ {"projectInit", "loading", "statusLoading", "locking"}
  BY DEF Lights, Buttons
<1>5. view.importing = FALSE /\ "importing" \in DOMAIN view
  BY <1>4, WatchedRefs DEF SubmitCertificate, VInv, ViewTyped, Watched
<1>6. Changes({"importing"}) /\ view'.importing = TRUE
  BY <1>5 DEF SubmitCertificate, Changes
<1>7. \A f \in Lights : Keeps(task, f) <=> f = "importing"
  BY <1>2 DEF Keeps, Lights, Buttons
<1> QED
  BY <1>1, <1>2, <1>3, <1>4, <1>5, <1>6, <1>7, OneFlagSafe

\* submitPrivateKey
LEMMA SubmitPrivateKeySafe ==
    ASSUME VInv, NEW k, SubmitPrivateKey(k)
    PROVE  VInv'
<1> DEFINE task == [NoTask EXCEPT !.handler = "key", !.at = "key"]
<1>1. PICK call : call.do = "importKey" /\ Starts(task, call)
  BY DEF SubmitPrivateKey
<1>2. DOMAIN task = DOMAIN NoTask /\ task.handler = "key" /\ task.at = "key"
  BY DEF NoTask
<1> HIDE DEF task
<1>3. TaskOK(Sent(task, call))
  BY <1>1, <1>2, SentOK
<1>4. "importingKey" \in Lights \ {"projectInit", "loading", "statusLoading", "locking"}
  BY DEF Lights, Buttons
<1>5. view.importingKey = FALSE /\ "importingKey" \in DOMAIN view
  BY <1>4, WatchedRefs DEF SubmitPrivateKey, VInv, ViewTyped, Watched
<1>6. Changes({"importingKey"}) /\ view'.importingKey = TRUE
  BY <1>5 DEF SubmitPrivateKey, Changes
<1>7. \A f \in Lights : Keeps(task, f) <=> f = "importingKey"
  BY <1>2 DEF Keeps, Lights, Buttons
<1> QED
  BY <1>1, <1>2, <1>3, <1>4, <1>5, <1>6, <1>7, OneFlagSafe

\* openStatus
LEMMA OpenStatusSafe ==
    ASSUME VInv, NEW pd, OpenStatus(pd)
    PROVE  VInv'
<1> DEFINE task == [NoTask EXCEPT !.handler = "status", !.at = "status", !.row = pd]
           call == CallFor("status", {pd})
           t == Sent(task, call)
           fields == {"statusTarget", "statusDetail", "statusError", "statusLoading"}
<1>1. DOMAIN task = DOMAIN NoTask /\ task.handler = "status" /\ task.at = "status" /\ task.row = pd
  BY DEF NoTask
<1>2. Starts(task, call) /\ call.do = "status"
  BY DEF OpenStatus, CallFor
<1> HIDE DEF task, call
<1>3. TaskOK(t) /\ t.handler = "status" /\ t.at = "status" /\ t.row = pd
  <2>1. TaskOK(t)
    BY <1>1, <1>2, SentOK
  <2>2. t.handler = "status" /\ t.at = "status" /\ t.row = pd
    <3>1. SentFrom(t, task, call)
      BY <1>1, SentFields
    <3> QED
      BY <1>1, <3>1 DEF SentFrom
  <2> QED
    BY <2>1, <2>2
<1>4. PICK s \in Slots : tasks[s] = NoTask /\ Moves(s, t)
  BY <1>1, <1>2, <1>3, StartMoves
<1> HIDE DEF t
<1>5. Watched \subseteq DOMAIN view
  BY WatchedRefs DEF VInv
<1>6. Changes(fields) /\ view'.statusLoading = TRUE /\ view'.statusTarget = pd
  BY <1>5 DEF OpenStatus, Changes, Watched, Lights
<1>7. ViewTyped'
  BY <1>6, TypedChanges DEF VInv, Lights, Buttons
<1>8. \A f \in Lights \ {"statusLoading"} : Lit(view', f) <=> Lit(view, f)
  BY <1>5, <1>6 DEF Changes, Watched, Lights, Buttons, Lit
<1>9. /\ \A f \in Lights : ~ Keeps(NoTask, f) /\ (Keeps(t, f) <=> f = "statusLoading")
      /\ \A f \in Buttons : f \in Lights \ {"statusLoading"}
  BY <1>3 DEF Keeps, NoTask, Lights, Buttons
<1>10. LightsMove(s, t)
  BY <1>4, <1>8, <1>9 DEF LightsMove
<1>11. StatusMoves(s, t)
  BY <1>3, <1>6 DEF StatusMoves
<1>12. ShowsSame /\ ~ Owes(NoTask)
  BY <1>5, <1>6 DEF Changes, Watched, ShowsSame, Owes, NoTask, Waiting
<1>13. HandlerStep(s, t)
  BY <1>4, <1>7, <1>10, <1>11, <1>12 DEF HandlerStep, ShownMoves
<1> QED
  BY <1>13, HandlerStepSafe

-----------------------------------------------------------------------------
(***************************************************************************)
(* What the operator does without a request.                               *)
(***************************************************************************)

\* Nothing that is watched changes, but for the dialog being closed.
LEMMA LocalSafe ==
    ASSUME VInv, Local, NEW fields, Changes(fields),
           fields \intersect Watched \subseteq {"statusTarget"},
           view'.statusTarget = view.statusTarget \/ view'.statusTarget = None
    PROVE  VInv'
<1>1. UNCHANGED <<mainVars, tasks, wire, mine>>
  BY DEF Local
<1>2. Watched \subseteq DOMAIN view
  BY WatchedRefs DEF VInv
<1>3. \A f \in Watched \ {"statusTarget"} : view'[f] = view[f]
  BY <1>2 DEF Changes
<1>4. \A f \in Lights : f \in Watched \ {"statusTarget"}
  BY DEF Watched, Lights, Buttons
<1>5. ViewTyped'
  BY <1>3, <1>4 DEF VInv, ViewTyped, Changes
<1>6. \A f \in Lights : Lit(view', f) <=> Lit(view, f)
  BY <1>3, <1>4 DEF Lit
<1>7. LightsKept'
  <2>1. \A f \in Buttons : f \in Lights
    BY DEF Lights
  <2> QED
    BY <1>1, <1>6, <2>1 DEF VInv, LightsKept
<1>8. view'.statusError = view.statusError /\ view'.statusDetail = view.statusDetail
  BY <1>3 DEF Watched
<1>9. StatusKept'
  BY <1>1, <1>8 DEF VInv, StatusKept, LastStatusIsFor
<1>10. /\ view'.devices = view.devices /\ view'.projects = view.projects
       /\ view'.certificate = view.certificate /\ view'.licenses = view.licenses
       /\ view'.readOk = view.readOk
  BY <1>3 DEF Watched
<1>11. ViewKept'
  BY <1>1, <1>10 DEF VInv, ViewKept, UpToDate, ShownCertificate, CertUsable, Bound, AmongNewest,
                     mainVars, catalogVars
<1>12. ReadsKept'
  BY <1>1 DEF VInv, ReadsKept, UpToDate, ShownCertificate, CertUsable, Bound, AmongNewest,
              mainVars, catalogVars
<1>13. TasksTyped' /\ InLine' /\ MainTyped'
  BY <1>1 DEF VInv, TasksTyped, InLine, MainTyped, mainVars, catalogVars
<1> QED
  BY <1>5, <1>7, <1>9, <1>11, <1>12, <1>13 DEF VInv

\* Choosing rows and the project of a registration.
LEMMA ChoiceSafe ==
    ASSUME VInv, \/ \E pd \in Rows : ToggleDevice(pd)
                 \/ SelectAll \/ ClearSelection
                 \/ \E p \in Projects : ChooseProject(p)
    PROVE  VInv'
<1>1. Local
  BY DEF ToggleDevice, SelectAll, ClearSelection, ChooseProject
<1>2. PICK x : view' = [view EXCEPT !.selected = x] \/ view' = [view EXCEPT !.registerProject = x]
  BY DEF ToggleDevice, SelectAll, ClearSelection, ChooseProject
<1>3. /\ Changes({"selected", "registerProject"}) /\ view'.statusTarget = view.statusTarget
      /\ {"selected", "registerProject"} \intersect Watched \subseteq {"statusTarget"}
  BY <1>2, WatchedRefs DEF VInv, Changes, Watched, Lights, Buttons
<1> QED
  BY <1>1, <1>3, LocalSafe

\* Opening a dialog without a request, and closing any.
LEMMA DialogSafe ==
    ASSUME VInv, OpensDialog \/ ClosesDialog
    PROVE  VInv'
<1> DEFINE fields == {"showAddProject", "showCertificateImport", "showKeyImport", "unbinding",
                      "statusTarget"}
<1>1. Local /\ fields \intersect Watched \subseteq {"statusTarget"}
  BY DEF OpensDialog, ClosesDialog, Watched, Lights, Buttons
<1>2. "statusTarget" \in DOMAIN view
  BY WatchedRefs DEF VInv, Watched
<1>3. /\ Changes(fields)
      /\ view'.statusTarget = view.statusTarget \/ view'.statusTarget = None
  <2>1. CASE OpensDialog
    <3>1. PICK x : \/ view' = [view EXCEPT !.showAddProject = TRUE]
                   \/ view' = [view EXCEPT !.showCertificateImport = TRUE]
                   \/ view' = [view EXCEPT !.showKeyImport = TRUE]
                   \/ view' = [view EXCEPT !.unbinding = x]
      BY <2>1 DEF OpensDialog
    <3> QED
      BY <1>2, <3>1 DEF Changes
  <2>2. CASE ClosesDialog
    <3>1. \/ view' = [view EXCEPT !.showAddProject = FALSE]
          \/ view' = [view EXCEPT !.showCertificateImport = FALSE]
          \/ view' = [view EXCEPT !.showKeyImport = FALSE]
          \/ view' = [view EXCEPT !.unbinding = None]
          \/ view' = [view EXCEPT !.statusTarget = None]
      BY <2>2 DEF ClosesDialog
    <3> QED
      BY <1>2, <3>1 DEF Changes
  <2> QED
    BY <2>1, <2>2
<1> HIDE DEF fields
<1> QED
  BY <1>1, <1>3, LocalSafe

-----------------------------------------------------------------------------
(***************************************************************************)
(* Handlers that go on or end.                                             *)
(***************************************************************************)

StatusRefs == {"statusTarget", "statusDetail", "statusError"}

\* A handler that goes on will read again; what it shows until then is not final.
LEMMA GoSafe ==
    ASSUME VInv, NEW s \in Slots, Answered(s), tasks[s].handler # "status",
           UNCHANGED <<mainVars, mine>>,
           NEW task, DOMAIN task = DOMAIN NoTask, task.handler \notin {"none", "status"},
           NEW call, TaskOK(Sent(task, call)),
           \/ task.at \in {"refresh", "register", "batch", "list"}
           \/ task.at = "create" /\ task.handler # "addProject",
           Sends(s, task, call, Tail(wire)),
           NEW fields, Changes(fields), fields \intersect StatusRefs = {},
           ViewTyped', LightsMove(s, task)
    PROVE  VInv'
<1> DEFINE t == Sent(task, call)
<1>1. SentFrom(t, task, call)
  BY SentFields
<1>2. /\ t.handler = task.handler /\ t.at = task.at /\ t.reply = Waiting
  BY <1>1 DEF SentFrom
<1>3. tasks' = [tasks EXCEPT ![s] = t] /\ wire' = Append(Tail(wire), s)
  BY DEF Sends, Sent
<1> HIDE DEF t
<1>4. Moves(s, t)
  BY <1>2, <1>3 DEF Moves, t
<1>5. LightsMove(s, t)
  <2>1. \A f \in Lights : Keeps(t, f) <=> Keeps(task, f)
    BY <1>2 DEF Keeps
  <2>2. \A f \in Buttons : f \in Lights
    BY DEF Lights
  <2> QED
    BY <2>1, <2>2 DEF LightsMove
<1>6. StatusMoves(s, t)
  <2>1. StatusRefs \subseteq DOMAIN view
    BY WatchedRefs DEF VInv, StatusRefs, Watched
  <2>2. \A f \in StatusRefs : view'[f] = view[f]
    BY <2>1 DEF Changes
  <2> QED
    BY <1>2, <2>2 DEF StatusMoves, StatusRefs
<1>7. Owes(t)
  BY <1>2 DEF Owes
<1>8. HandlerStep(s, t)
  BY <1>4, <1>5, <1>6, <1>7 DEF HandlerStep, ShownMoves
<1> QED
  BY <1>8, HandlerStepSafe


\* A handler that ends turns off what it lit; either it changed nothing that is shown, or
\* it shows what was read.
LEMMA EndSafe ==
    ASSUME VInv, NEW s \in Slots, Answered(s), tasks[s].handler # "status", Ends(s),
           UNCHANGED <<mainVars, mine>>,
           NEW fields, Changes(fields), fields \intersect StatusRefs = {},
           ViewTyped', LightsMove(s, NoTask),
           \/ ~ Owes(tasks[s]) /\ ShowsSame
           \/ tasks[s].at = "refresh" /\ ShowsReply(tasks[s].reply)
    PROVE  VInv'
<1>1. Moves(s, NoTask)
  <2>1. TaskOK(NoTask) /\ NoTask.reply = Waiting
    BY DEF TaskOK, NoTask, Waiting, NoCall
  <2> QED
    BY <2>1 DEF Moves, Ends
<1>2. StatusMoves(s, NoTask)
  <2>1. StatusRefs \subseteq DOMAIN view
    BY WatchedRefs DEF VInv, StatusRefs, Watched
  <2>2. \A f \in StatusRefs : view'[f] = view[f]
    BY <2>1 DEF Changes
  <2> QED
    BY <2>2 DEF StatusMoves, StatusRefs, NoTask
<1>3. ShownMoves(s, NoTask)
  BY DEF ShownMoves
<1>4. HandlerStep(s, NoTask)
  BY <1>1, <1>2, <1>3 DEF HandlerStep
<1> QED
  BY <1>4, HandlerStepSafe

\* A handler goes on with what it lit, or turns it off.
LEMMA LightsMoveBy ==
    ASSUME VInv, NEW s \in Slots, NEW t, NEW fields, Changes(fields),
           \A f \in Lights \ fields : Keeps(tasks[s], f) => Keeps(t, f),
           \A f \in Buttons : Keeps(t, f) => Keeps(tasks[s], f),
           \A f \in Lights \intersect fields :
               Lit(view', f) => Keeps(t, f) \/ (Lit(view, f) /\ ~ Keeps(tasks[s], f)),
           \A f \in Buttons \intersect fields :
               (Keeps(t, f) => Lit(view', f)) /\ (Lit(view, f) /\ ~ Keeps(tasks[s], f) => Lit(view', f))
    PROVE  LightsMove(s, t)
<1>1. Watched \subseteq DOMAIN view
  BY WatchedRefs DEF VInv
<1>2. \A f \in Lights \ fields : Lit(view', f) <=> Lit(view, f)
  BY <1>1 DEF Changes, Watched, Lit, Lights, Buttons
<1>3. \A f \in Buttons : f \in Lights
  BY DEF Lights
<1>4. \A f \in Buttons : Keeps(tasks[s], f) => Lit(view, f)
  BY DEF VInv, LightsKept
<1> QED
  BY <1>2, <1>3, <1>4 DEF LightsMove

\* What a handler that goes on does to the refs, together.
LEMMA GoOnSafe ==
    ASSUME VInv, NEW s \in Slots, Answered(s), tasks[s].handler # "status",
           UNCHANGED <<mainVars, mine>>,
           NEW task, DOMAIN task = DOMAIN NoTask, task.handler = tasks[s].handler,
           NEW call, TaskOK(Sent(task, call)),
           \/ task.at \in {"refresh", "register", "batch", "list"}
           \/ task.at = "create" /\ task.handler # "addProject",
           Sends(s, task, call, Tail(wire)),
           NEW fields, Changes(fields), fields \intersect StatusRefs = {}, ViewTyped',
           fields \intersect Lights \subseteq {"loading", "registering", "projectInit"},
           "loading" \in fields => Keeps(task, "loading") /\ view'.loading = TRUE,
           "registering" \in fields => ~ Keeps(task, "registering") /\ view'.registering = FALSE
                                         /\ Keeps(tasks[s], "registering"),
           "registering" \notin fields => (Keeps(task, "registering") <=> Keeps(tasks[s], "registering")),
           Keeps(tasks[s], "loading") => Keeps(task, "loading"),
           Lit(view', "projectInit") => \/ Keeps(task, "projectInit")
                                        \/ Lit(view, "projectInit") /\ ~ Keeps(tasks[s], "projectInit"),
           "projectInit" \notin fields => (Keeps(tasks[s], "projectInit") => Keeps(task, "projectInit"))
    PROVE  VInv'
<1>1. /\ tasks[s].handler # "none"
  BY DEF VInv, InLine, Answered
<1>2. \A f \in Lights \ {"loading", "registering", "projectInit"} : Keeps(task, f) <=> Keeps(tasks[s], f)
  BY DEF Keeps
<1>3. \A f \in Buttons : f \in Lights /\ f # "loading" /\ f # "projectInit"
  BY DEF Lights, Buttons
<1>4. LightsMove(s, task)
  <2>1. \A f \in Lights \ fields : Keeps(tasks[s], f) => Keeps(task, f)
    BY <1>2
  <2>2. \A f \in Buttons : Keeps(task, f) => Keeps(tasks[s], f)
    BY <1>2, <1>3
  <2>3. \A f \in Lights \intersect fields :
               Lit(view', f) => Keeps(task, f) \/ (Lit(view, f) /\ ~ Keeps(tasks[s], f))
    BY DEF Lit
  <2>4. \A f \in Buttons \intersect fields :
           (Keeps(task, f) => Lit(view', f)) /\ (Lit(view, f) /\ ~ Keeps(tasks[s], f) => Lit(view', f))
    BY <1>3
  <2> QED
    BY <2>1, <2>2, <2>3, <2>4, LightsMoveBy
<1>5. task.handler \notin {"none", "status"}
  BY <1>1
<1> QED
  BY <1>4, <1>5, GoSafe

-----------------------------------------------------------------------------
(***************************************************************************)
(* refreshAll has its answers.                                             *)
(***************************************************************************)

\* What a read leaves in the refs that are watched.
ReadInto(w, r, h) ==
    /\ DOMAIN w = DOMAIN view /\ w.loading = FALSE
    /\ r.ok = FALSE => w.readOk = FALSE
    /\ w.submitting = (view.submitting /\ h \notin {"issue", "renew"})
    /\ w.unbindBusy = (view.unbindBusy /\ h # "unbind")
    /\ w.adding = (view.adding /\ h # "addProject")
    /\ w.importing = (view.importing /\ h # "import")
    /\ w.locking = IF h = "lock" THEN None ELSE view.locking
    /\ \A f \in {"registering", "importingKey", "projectInit", "statusLoading"} \union StatusRefs :
         w[f] = view[f]
    /\ r.read = 4 => /\ w.devices = r.devices /\ w.projects = r.projects
                     /\ w.certificate = r.certificate /\ w.licenses = r.licenses

LEMMA RefreshedFields ==
    ASSUME ViewTyped, NEW r, NEW h, NEW w \in Refreshed(view, r, h)
    PROVE  ReadInto(w, r, h)
<1> DEFINE a == Assigned(view, r)
<1>1. DOMAIN view = DOMAIN BlankView
  BY DEF ViewTyped
<1>2. Watched \union {"selected", "registerProject", "notice"} \subseteq DOMAIN view
  BY <1>1 DEF BlankView, Watched, Lights, Buttons
<1> DEFINE b == [view EXCEPT
                !.projects = IF r.read >= 1 THEN r.projects ELSE @,
                !.certificate = IF r.read >= 2 THEN r.certificate ELSE @,
                !.full = IF r.read >= 2 THEN r.full ELSE @,
                !.keyReady = IF r.read >= 2 THEN r.keyReady ELSE @,
                !.devices = IF r.read >= 3 THEN r.devices ELSE @,
                !.licenses = IF r.read = 4 THEN r.licenses ELSE @]
<1>3. a = IF r.read = 4 THEN [b EXCEPT !.selected = @ \intersect RowsOf(b)] ELSE b
  BY DEF Assigned
<1>4. /\ DOMAIN b = DOMAIN view
      /\ \A f \in Lights \union StatusRefs : b[f] = view[f]
      /\ r.read = 4 => /\ b.devices = r.devices /\ b.projects = r.projects
                       /\ b.certificate = r.certificate /\ b.licenses = r.licenses
  BY <1>2 DEF Watched, Lights, Buttons, StatusRefs
<1> HIDE DEF b
<1>5. /\ DOMAIN a = DOMAIN view
      /\ \A f \in Lights \union StatusRefs : a[f] = view[f]
      /\ r.read = 4 => /\ a.devices = r.devices /\ a.projects = r.projects
                       /\ a.certificate = r.certificate /\ a.licenses = r.licenses
  <2>1. "selected" \notin Lights \union StatusRefs \union {"devices", "projects", "certificate", "licenses"}
    BY DEF Lights, Buttons, StatusRefs
  <2>2. PICK rows : a = [b EXCEPT !.selected = rows] \/ a = b
    BY <1>3
  <2>3. DOMAIN a = DOMAIN b /\ \A f \in DOMAIN b \ {"selected"} : a[f] = b[f]
    BY <2>2
  <2>4. /\ \A f \in Lights \union StatusRefs : a[f] = b[f]
        /\ a.devices = b.devices /\ a.projects = b.projects
        /\ a.certificate = b.certificate /\ a.licenses = b.licenses
    BY <1>2, <1>4, <2>1, <2>3 DEF Watched, StatusRefs
  <2> QED
    BY <1>4, <2>3, <2>4
<1> HIDE DEF a
<1>6. PICK p : w = ReadEnded(a, r, h, p)
  BY DEF Refreshed, a
<1>7. \A f \in Watched : f \in DOMAIN a
  BY <1>2, <1>5
<1>8. /\ w.loading = FALSE /\ w.readOk = r.ok /\ DOMAIN w = DOMAIN a
      /\ w.submitting = (a.submitting /\ h \notin {"issue", "renew"})
      /\ w.unbindBusy = (a.unbindBusy /\ h # "unbind")
      /\ w.adding = (a.adding /\ h # "addProject")
      /\ w.importing = (a.importing /\ h # "import")
      /\ w.locking = IF h = "lock" THEN None ELSE a.locking
      /\ \A f \in {"registering", "importingKey", "projectInit", "statusLoading", "devices",
                   "projects", "certificate", "licenses"} \union StatusRefs : w[f] = a[f]
  BY <1>6, <1>7 DEF ReadEnded, Watched, Lights, Buttons, StatusRefs
<1>9. \A f \in Lights : a[f] = view[f]
  BY <1>5
<1>10. /\ a.submitting = view.submitting /\ a.unbindBusy = view.unbindBusy
       /\ a.adding = view.adding /\ a.importing = view.importing /\ a.locking = view.locking
       /\ \A f \in {"registering", "importingKey", "projectInit", "statusLoading"} : a[f] = view[f]
  BY <1>9 DEF Lights, Buttons
<1>11. /\ w.submitting = (view.submitting /\ h \notin {"issue", "renew"})
       /\ w.unbindBusy = (view.unbindBusy /\ h # "unbind")
       /\ w.adding = (view.adding /\ h # "addProject")
       /\ w.importing = (view.importing /\ h # "import")
       /\ w.locking = IF h = "lock" THEN None ELSE view.locking
  BY <1>8, <1>10, Zenon
<1>12. \A f \in {"registering", "importingKey", "projectInit", "statusLoading"} \union StatusRefs :
         w[f] = view[f]
  BY <1>5, <1>8, <1>10
<1>13. r.read = 4 => /\ w.devices = r.devices /\ w.projects = r.projects
                     /\ w.certificate = r.certificate /\ w.licenses = r.licenses
  BY <1>5, <1>8
<1>14. DOMAIN w = DOMAIN view /\ w.loading = FALSE /\ (r.ok = FALSE => w.readOk = FALSE)
  BY <1>5, <1>8, Zenon
<1> QED
  BY <1>11, <1>12, <1>13, <1>14, Zenon DEF ReadInto

\* refreshAll, at the end of a handler.
LEMMA RefreshEndsSafe ==
    ASSUME VInv, NEW s \in Slots, RefreshEnds(s)
    PROVE  VInv'
<1> DEFINE h == tasks[s].handler
           r == tasks[s].reply
           fields == DOMAIN view \ StatusRefs
<1>1. /\ Answered(s) /\ tasks[s].at = "refresh" /\ UNCHANGED <<mainVars, mine>> /\ Ends(s)
      /\ h \in {"refresh", "register", "issue", "renew", "lock", "unbind", "addProject",
                 "import", "auto"}
  BY DEF RefreshEnds, Resumes
<1>2. ReadInto(view', r, h)
  BY RefreshedFields DEF RefreshEnds, VInv
<1>3. Changes(fields) /\ fields \intersect StatusRefs = {}
  BY <1>2 DEF ReadInto, Changes
<1>4. \A f \in Lights \ {"locking", "projectInit"} : view[f] \in BOOLEAN
  BY DEF VInv, ViewTyped
<1>5. ViewTyped'
  <2>1. \A f \in Lights \ {"locking", "projectInit"} : view'[f] \in BOOLEAN
    BY <1>2, <1>4 DEF ReadInto, Lights, Buttons
  <2> QED
    BY <1>2, <2>1 DEF ReadInto, ViewTyped, VInv
<1>6. LightsMove(s, NoTask)
  <2>1. \A f \in Lights : ~ Keeps(NoTask, f)
    BY DEF Keeps, NoTask
  <2>2. \A f \in Lights : Lit(view', f) => Lit(view, f) /\ ~ Keeps(tasks[s], f)
    BY <1>1, <1>2 DEF ReadInto, Keeps, Lit, Lights, Buttons
  <2>3. \A f \in Buttons : Lit(view, f) /\ ~ Keeps(tasks[s], f) => Lit(view', f)
    BY <1>1, <1>2 DEF ReadInto, Keeps, Lit, Buttons
  <2>4. \A f \in Buttons : f \in Lights
    BY DEF Lights
  <2> QED
    BY <2>1, <2>2, <2>3, <2>4 DEF LightsMove
<1>7. ShowsReply(r)
  <2>1. r.ok \in BOOLEAN /\ (r.ok => r.read = 4)
    BY <1>1 DEF VInv, TasksTyped, TaskOK
  <2> QED
    BY <1>2, <2>1 DEF ReadInto, ShowsReply
<1>8. h # "status"
  BY <1>1
<1> HIDE DEF fields
<1> QED
  BY <1>1, <1>3, <1>5, <1>6, <1>7, <1>8, EndSafe

\* A handler that ends with nothing to show turns off its own light.
LEMMA DropSafe ==
    ASSUME VInv, NEW s \in Slots, Answered(s), tasks[s].handler # "status", Ends(s),
           UNCHANGED <<mainVars, mine>>, ~ Owes(tasks[s]),
           NEW flag \in Lights \ {"projectInit"}, \A f \in Lights : Keeps(tasks[s], f) <=> f = flag,
           NEW fields, Changes(fields), fields \intersect Watched \subseteq {flag}, flag \in fields,
           ~ Lit(view', flag), flag # "locking" => view'[flag] \in BOOLEAN
    PROVE  VInv'
<1>1. Watched \subseteq DOMAIN view
  BY WatchedRefs DEF VInv
<1>2. ShowsSame
  BY <1>1 DEF ShowsSame, Changes, Watched, Lights, Buttons
<1>3. fields \intersect StatusRefs = {}
  BY DEF StatusRefs, Watched, Lights, Buttons
<1>4. /\ fields \intersect Lights = {flag}
      /\ \A f \in Buttons : f \in Lights
  BY DEF Watched, Lights
<1>5. ViewTyped'
  BY <1>4, TypedChanges DEF VInv
<1>6. \A f \in Lights : ~ Keeps(NoTask, f)
  BY DEF Keeps, NoTask
<1>7. LightsMove(s, NoTask)
  BY <1>4, <1>6, LightsMoveBy
<1> QED
  BY <1>2, <1>3, <1>5, <1>7, EndSafe

\* The last thing a handler does is to read everything.
LEMMA RefreshSafe ==
    ASSUME VInv, NEW s \in Slots, Answered(s), tasks[s].handler # "status",
           tasks[s].at # "refresh", UNCHANGED <<mainVars, mine>>,
           NEW task, DOMAIN task = DOMAIN NoTask, task.handler = tasks[s].handler,
           task.handler # "register", Refreshes(s, task),
           NEW fields, Changes(fields), "loading" \in fields, view'.loading = TRUE,
           fields \intersect StatusRefs = {},
           fields \intersect Lights \subseteq {"loading", "projectInit"},
           \/ "projectInit" \in fields /\ view'.projectInit.status # "running"
           \/ "projectInit" \notin fields /\ ~ Keeps(tasks[s], "projectInit")
    PROVE  VInv'
<1> DEFINE t == [task EXCEPT !.at = "refresh"]
<1>1. DOMAIN t = DOMAIN NoTask /\ t.at = "refresh" /\ t.handler = task.handler
  BY DEF NoTask
<1>2. Sends(s, t, Call("read"), Tail(wire)) /\ Call("read").do = "read"
  BY DEF Refreshes, Call
<1> HIDE DEF t
<1>3. TaskOK(Sent(t, Call("read")))
  BY <1>1, <1>2, SentOK
<1>4. ViewTyped'
  BY TypedChanges DEF VInv
<1>5. /\ Keeps(t, "loading") /\ ~ Keeps(t, "projectInit")
      /\ ~ Keeps(t, "registering") /\ ~ Keeps(tasks[s], "registering")
  BY <1>1 DEF Keeps
<1>6. "registering" \in Lights /\ "projectInit" \in Lights
  BY DEF Lights, Buttons
<1>7. Lit(view', "projectInit") => Lit(view, "projectInit") /\ ~ Keeps(tasks[s], "projectInit")
  <2>1. "projectInit" \in DOMAIN view
    BY <1>6, WatchedRefs DEF VInv, Watched
  <2> QED
    BY <2>1 DEF Changes, Lit
<1> QED
  BY <1>1, <1>2, <1>3, <1>4, <1>5, <1>6, <1>7, GoOnSafe

-----------------------------------------------------------------------------
(***************************************************************************)
(* The handlers, one after the other.                                      *)
(***************************************************************************)

\* A registration goes on, with the list of projects or with the results it has.
LEMMA RegisterGoesOn ==
    ASSUME VInv, NEW s \in Slots, Resumes(s, "register", "project") \/ Resumes(s, "register", "register"),
           NEW v, DOMAIN v = DOMAIN view, \A f \in DOMAIN view \ {"projects"} : v[f] = view[f],
           NEW t, DOMAIN t = DOMAIN NoTask, t.handler = "register",
           NEW r, r = RegisterOn(v, t), view' = r.view, Sends(s, r.task, r.call, Tail(wire))
    PROVE  VInv'
<1>1. /\ Answered(s) /\ tasks[s].handler = "register" /\ UNCHANGED <<mainVars, mine>>
      /\ tasks[s].at \in {"project", "register"}
  BY DEF Resumes
<1>2. Watched \subseteq DOMAIN view
  BY WatchedRefs DEF VInv
<1>3. {"loading", "registering"} \subseteq DOMAIN v
  BY <1>2 DEF Watched, Lights, Buttons
<1>4. GoesOn(v, t, r)
  BY <1>3, RegisterOnMoves
<1>5. DOMAIN r.task = DOMAIN NoTask /\ r.task.handler = "register" /\ TaskOK(Sent(r.task, r.call))
  BY <1>4 DEF GoesOn
<1>6. Keeps(tasks[s], "registering") /\ ~ Keeps(tasks[s], "loading") /\ ~ Keeps(tasks[s], "projectInit")
  BY <1>1 DEF Keeps
<1>7. "projectInit" \in DOMAIN view /\ "registering" \in DOMAIN view /\ "loading" \in DOMAIN view
  BY <1>2 DEF Watched, Lights, Buttons
<1>8. CASE r.task.at = "register" /\ r.view = v
  <2> DEFINE fields == {"projects"}
  <2>1. Changes(fields) /\ view'.projectInit = view.projectInit
    BY <1>7, <1>8 DEF Changes
  <2>2. /\ fields \intersect StatusRefs = {} /\ fields \intersect Lights = {}
        /\ "loading" \notin fields /\ "registering" \notin fields /\ "projectInit" \notin fields
    BY DEF StatusRefs, Lights, Buttons
  <2>3. ViewTyped'
    BY <2>1, <2>2, TypedChanges DEF VInv
  <2>4. Keeps(r.task, "registering")
    BY <1>5, <1>8 DEF Keeps
  <2>5. Lit(view', "projectInit") => Lit(view, "projectInit")
    BY <2>1 DEF Lit
  <2> HIDE DEF fields
  <2> QED
    BY <1>1, <1>5, <1>6, <1>8, <2>1, <2>2, <2>3, <2>4, <2>5, GoOnSafe
<1>9. CASE /\ r.task.at = "refresh" /\ DOMAIN r.view = DOMAIN v
           /\ r.view.registering = FALSE /\ r.view.loading = TRUE
           /\ \A f \in DOMAIN v \ {"registering", "loading", "notice"} : r.view[f] = v[f]
  <2> DEFINE fields == {"projects", "registering", "loading", "notice"}
  <2>1. /\ Changes(fields) /\ view'.projectInit = view.projectInit
        /\ view'.registering = FALSE /\ view'.loading = TRUE
    BY <1>7, <1>9 DEF Changes
  <2>2. /\ fields \intersect StatusRefs = {}
        /\ fields \intersect Lights \subseteq {"loading", "registering", "projectInit"}
        /\ "loading" \in fields /\ "registering" \in fields /\ "projectInit" \notin fields
    BY DEF StatusRefs, Lights, Buttons
  <2>3. ViewTyped'
    BY <2>1, <2>2, TypedChanges DEF VInv
  <2>4. ~ Keeps(r.task, "registering") /\ Keeps(r.task, "loading")
    BY <1>5, <1>9 DEF Keeps
  <2>5. Lit(view', "projectInit") => Lit(view, "projectInit")
    BY <2>1 DEF Lit
  <2> HIDE DEF fields
  <2> QED
    BY <1>1, <1>5, <1>6, <1>9, <2>1, <2>2, <2>3, <2>4, <2>5, GoOnSafe
<1> QED
  BY <1>4, <1>8, <1>9 DEF GoesOn

\* A registration has its project, or cannot have it.
LEMMA RegisterProjectMadeSafe ==
    ASSUME VInv, NEW s \in Slots, RegisterProjectMade(s)
    PROVE  VInv'
<1> DEFINE t == tasks[s]
           v == [view EXCEPT !.projects = @ \union {t.project}]
<1>1. /\ Resumes(s, "register", "project") /\ Answered(s) /\ t.handler = "register"
      /\ t.at = "project" /\ UNCHANGED <<mainVars, mine>>
  BY DEF RegisterProjectMade, Resumes
<1>2. Watched \subseteq DOMAIN view
  BY WatchedRefs DEF VInv
<1>3. CASE t.reply.ok
  <2>1. PICK r : r = RegisterOn(v, t) /\ view' = r.view /\ Sends(s, r.task, r.call, Tail(wire))
    BY <1>3 DEF RegisterProjectMade
  <2>2. DOMAIN v = DOMAIN view /\ \A f \in DOMAIN view \ {"projects"} : v[f] = view[f]
    BY <1>2
  <2>3. DOMAIN t = DOMAIN NoTask
    BY DEF VInv, TasksTyped, TaskOK
  <2> QED
    BY <1>1, <2>1, <2>2, <2>3, RegisterGoesOn
<1>4. CASE ~ t.reply.ok
  <2>1. Ends(s) /\ view' = [view EXCEPT !.registering = FALSE, !.registerError = TRUE]
    BY <1>4 DEF RegisterProjectMade
  <2>2. Changes({"registering", "registerError"}) /\ view'.registering = FALSE
    BY <1>2, <2>1 DEF Changes, Watched, Lights, Buttons
  <2>3. /\ "registering" \in Lights \ {"projectInit"}
        /\ {"registering", "registerError"} \intersect Watched \subseteq {"registering"}
    BY DEF Lights, Buttons, Watched
  <2>4. ~ Owes(t) /\ \A f \in Lights : Keeps(t, f) <=> f = "registering"
    BY <1>1, <1>4 DEF Owes, Keeps, Lights, Buttons
  <2>5. ~ Lit(view', "registering")
    BY <2>2 DEF Lit
  <2> QED
    BY <1>1, <2>1, <2>2, <2>3, <2>4, <2>5, DropSafe
<1> QED
  BY <1>3, <1>4

\* One device more was registered, or could not be.
LEMMA RegisterOneDoneSafe ==
    ASSUME VInv, NEW s \in Slots, RegisterOneDone(s)
    PROVE  VInv'
<1>1. PICK t, r :
        /\ \E ids, good, bad : t = [tasks[s] EXCEPT !.ids = ids, !.good = good, !.bad = bad]
        /\ r = RegisterOn(view, t) /\ view' = r.view /\ Sends(s, r.task, r.call, Tail(wire))
  BY DEF RegisterOneDone
<1>2. Resumes(s, "register", "register") /\ tasks[s].handler = "register"
  BY DEF RegisterOneDone, Resumes
<1>3. DOMAIN tasks[s] = DOMAIN NoTask
  BY DEF VInv, TasksTyped, TaskOK
<1>4. DOMAIN t = DOMAIN NoTask /\ t.handler = "register"
  BY <1>1, <1>2, <1>3 DEF NoTask
<1> QED
  BY <1>1, <1>2, <1>4, RegisterGoesOn

\* A batch was issued or refused: the next one is sent, or the outcome is told.
LEMMA BatchDoneSafe ==
    ASSUME VInv, NEW s \in Slots, BatchDone(s)
    PROVE  VInv'
<1> DEFINE batch == tasks[s].ask.batch
           t == [tasks[s] EXCEPT !.good = IF tasks[s].reply.ok THEN @ \union batch ELSE @,
                                 !.bad = IF tasks[s].reply.ok THEN @ ELSE @ \union batch]
<1>1. /\ Answered(s) /\ tasks[s].handler \in {"issue", "renew"}
      /\ tasks[s].at = "batch" /\ UNCHANGED <<mainVars, mine>>
  BY DEF BatchDone, Resumes
<1>2. TaskOK(tasks[s])
  BY DEF VInv, TasksTyped
<1>3. /\ DOMAIN tasks[s] = DOMAIN NoTask
      /\ tasks[s].todo \subseteq SUBSET Rows /\ tasks[s].good \subseteq tasks[s].granted
      /\ tasks[s].rows \subseteq tasks[s].good \union tasks[s].bad \union batch \union UNION tasks[s].todo
      /\ tasks[s].reply.ok => batch \subseteq tasks[s].granted
  BY <1>1, <1>2 DEF TaskOK
<1>4. /\ DOMAIN t = DOMAIN NoTask /\ t.handler = tasks[s].handler /\ t.at = "batch"
      /\ t.todo = tasks[s].todo /\ t.rows = tasks[s].rows /\ t.granted = tasks[s].granted
      /\ t.good \subseteq t.granted
      /\ t.rows \subseteq t.good \union t.bad \union UNION t.todo
  BY <1>1, <1>3 DEF NoTask
<1>5. \/ /\ t.todo = {} /\ view' = Reads(ApplyOutcomes(view, t.good, t.bad)) /\ Refreshes(s, t)
      \/ /\ UNCHANGED view
         /\ \E b \in t.todo : Sends(s, [t EXCEPT !.todo = @ \ {b}], BatchCall(t.handler, b), Tail(wire))
  BY DEF BatchDone
<1>6. Watched \subseteq DOMAIN view
  BY WatchedRefs DEF VInv
<1> HIDE DEF t
<1>7. CASE view' = Reads(ApplyOutcomes(view, t.good, t.bad)) /\ Refreshes(s, t)
  <2>1. Changes({"loading", "notice"}) /\ view'.loading = TRUE
    BY <1>6, <1>7 DEF Changes, Reads, ApplyOutcomes, Watched, Lights
  <2>2. /\ {"loading", "notice"} \intersect StatusRefs = {}
        /\ {"loading", "notice"} \intersect Lights \subseteq {"loading", "projectInit"}
    BY DEF StatusRefs, Lights, Buttons
  <2>3. ~ Keeps(tasks[s], "projectInit") /\ t.handler # "register"
    BY <1>1, <1>4 DEF Keeps
  <2> QED
    BY <1>1, <1>4, <1>7, <2>1, <2>2, <2>3, RefreshSafe
<1>8. ASSUME UNCHANGED view, NEW b \in t.todo,
             Sends(s, [t EXCEPT !.todo = @ \ {b}], BatchCall(t.handler, b), Tail(wire))
      PROVE  VInv'
  <2> DEFINE u == [t EXCEPT !.todo = @ \ {b}]
             c == BatchCall(t.handler, b)
             none == {}
  <2>1. /\ DOMAIN u = DOMAIN NoTask /\ u.handler = tasks[s].handler /\ u.at = "batch"
        /\ u.todo = t.todo \ {b} /\ u.good = t.good /\ u.bad = t.bad
        /\ u.granted = t.granted /\ u.rows = t.rows
    BY <1>4 DEF NoTask
  <2>2. Sends(s, u, c, Tail(wire))
    BY <1>8
  <2> HIDE DEF u
  <2>3. /\ b \in SUBSET Rows /\ u.todo \subseteq SUBSET Rows
        /\ u.rows \subseteq u.good \union u.bad \union b \union UNION u.todo
    BY <1>3, <1>4, <2>1
  <2>4. TaskOK(Sent(u, c))
    BY <1>4, <2>1, <2>3, BatchOK
  <2>5. Changes(none) /\ ViewTyped'
    BY <1>8 DEF Changes, VInv, ViewTyped
  <2>6. ~ Keeps(tasks[s], "projectInit") /\ ~ Keeps(tasks[s], "loading")
        /\ ~ Keeps(tasks[s], "registering") /\ ~ Keeps(u, "registering")
    BY <1>1, <2>1 DEF Keeps
  <2>7. Lit(view', "projectInit") => Lit(view, "projectInit")
    BY <1>8
  <2>8. none \intersect StatusRefs = {} /\ none \intersect Lights = {}
        /\ "loading" \notin none /\ "registering" \notin none /\ "projectInit" \notin none
    OBVIOUS
  <2> HIDE DEF c, none
  <2> QED
    BY <1>1, <2>1, <2>2, <2>4, <2>5, <2>6, <2>7, <2>8, GoOnSafe
<1> QED
  BY <1>5, <1>7, <1>8

\* A device was locked or unlocked, or could not be.
LEMMA LockDoneSafe ==
    ASSUME VInv, NEW s \in Slots, LockDone(s)
    PROVE  VInv'
<1>1. /\ Answered(s) /\ tasks[s].handler = "lock" /\ tasks[s].at = "lock"
      /\ UNCHANGED <<mainVars, mine>>
  BY DEF LockDone, Resumes
<1>2. Watched \subseteq DOMAIN view
  BY WatchedRefs DEF VInv
<1>3. CASE tasks[s].reply.ok
  <2>1. Refreshes(s, tasks[s])
    BY <1>3 DEF LockDone
  <2>2. Changes({"loading", "notice"}) /\ view'.loading = TRUE
    BY <1>2, <1>3 DEF LockDone, Changes, Reads, Watched, Lights
  <2>3. /\ {"loading", "notice"} \intersect StatusRefs = {}
        /\ {"loading", "notice"} \intersect Lights \subseteq {"loading", "projectInit"}
    BY DEF StatusRefs, Lights, Buttons
  <2>4. ~ Keeps(tasks[s], "projectInit") /\ DOMAIN tasks[s] = DOMAIN NoTask
    BY <1>1 DEF Keeps, VInv, TasksTyped, TaskOK
  <2> QED
    BY <1>1, <2>1, <2>2, <2>3, <2>4, RefreshSafe
<1>4. CASE ~ tasks[s].reply.ok
  <2> DEFINE fields == {"locking", "notice"}
  <2>1. Ends(s) /\ Changes(fields) /\ view'.locking = None
    BY <1>2, <1>4 DEF LockDone, Changes, Watched, Lights
  <2>2. "locking" \in Lights \ {"projectInit"} /\ fields \intersect Watched \subseteq {"locking"}
        /\ "locking" \in fields
    BY DEF Lights, Buttons, Watched
  <2>3. ~ Owes(tasks[s]) /\ \A f \in Lights : Keeps(tasks[s], f) <=> f = "locking"
    BY <1>1, <1>4 DEF Owes, Keeps, Lights, Buttons
  <2>4. ~ Lit(view', "locking")
    BY <2>1 DEF Lit
  <2> HIDE DEF fields
  <2> QED
    BY <1>1, <2>1, <2>2, <2>3, <2>4, DropSafe
<1> QED
  BY <1>3, <1>4

\* A device was unbound, or could not be.
LEMMA UnbindDoneSafe ==
    ASSUME VInv, NEW s \in Slots, UnbindDone(s)
    PROVE  VInv'
<1>1. /\ Answered(s) /\ tasks[s].handler = "unbind" /\ tasks[s].at = "unbind"
      /\ UNCHANGED <<mainVars, mine>>
  BY DEF UnbindDone, Resumes
<1>2. Watched \subseteq DOMAIN view
  BY WatchedRefs DEF VInv
<1>3. CASE tasks[s].reply.ok /\ view.unbinding # None
  <2> DEFINE fields == {"loading", "notice", "unbinding"}
  <2>1. Refreshes(s, tasks[s])
    BY <1>3 DEF UnbindDone
  <2>2. Changes(fields) /\ view'.loading = TRUE
    BY <1>2, <1>3 DEF UnbindDone, Changes, Reads, Watched, Lights
  <2>3. /\ fields \intersect StatusRefs = {} /\ "loading" \in fields /\ "projectInit" \notin fields
        /\ fields \intersect Lights \subseteq {"loading", "projectInit"}
    BY DEF StatusRefs, Lights, Buttons
  <2>4. ~ Keeps(tasks[s], "projectInit") /\ DOMAIN tasks[s] = DOMAIN NoTask
    BY <1>1 DEF Keeps, VInv, TasksTyped, TaskOK
  <2> HIDE DEF fields
  <2> QED
    BY <1>1, <2>1, <2>2, <2>3, <2>4, RefreshSafe
<1>4. CASE ~ (tasks[s].reply.ok /\ view.unbinding # None)
  <2>1. Ends(s) /\ Changes({"unbindBusy"}) /\ view'.unbindBusy = FALSE
    BY <1>2, <1>4 DEF UnbindDone, Changes, Watched, Lights, Buttons
  <2>2. "unbindBusy" \in Lights \ {"projectInit"}
    BY DEF Lights, Buttons
  <2>3. ~ Owes(tasks[s]) /\ \A f \in Lights : Keeps(tasks[s], f) <=> f = "unbindBusy"
    BY <1>1 DEF Owes, Keeps, Lights, Buttons
  <2>4. ~ Lit(view', "unbindBusy")
    BY <2>1 DEF Lit
  <2> QED
    BY <1>1, <2>1, <2>2, <2>3, <2>4, DropSafe
<1> QED
  BY <1>3, <1>4

\* The status of a device is there.
LEMMA StatusDoneSafe ==
    ASSUME VInv, NEW s \in Slots, StatusDone(s)
    PROVE  VInv'
<1>1. /\ Answered(s) /\ tasks[s].handler = "status" /\ tasks[s].at = "status"
      /\ UNCHANGED <<mainVars, mine>> /\ Ends(s)
  BY DEF StatusDone, Resumes
<1>2. Watched \subseteq DOMAIN view
  BY WatchedRefs DEF VInv
<1>3. Moves(s, NoTask)
  <2>1. TaskOK(NoTask) /\ NoTask.reply = Waiting
    BY DEF TaskOK, NoTask, Waiting, NoCall
  <2> QED
    BY <1>1, <2>1 DEF Moves, Ends
<1>4. PICK detail, error :
        /\ view' = [view EXCEPT !.statusLoading = FALSE, !.statusDetail = detail, !.statusError = error]
        /\ error = TRUE \/ detail = tasks[s].row
  <2>1. CASE tasks[s].reply.ok
    <3>1. view' = [view EXCEPT !.statusLoading = FALSE, !.statusDetail = tasks[s].row,
                               !.statusError = view.statusError]
      BY <1>2, <2>1 DEF StatusDone, VInv, ViewTyped, BlankView
    <3> QED
      BY <3>1
  <2>2. CASE ~ tasks[s].reply.ok
    <3>1. view' = [view EXCEPT !.statusLoading = FALSE, !.statusDetail = view.statusDetail,
                               !.statusError = TRUE]
      BY <1>2, <2>2 DEF StatusDone, VInv, ViewTyped, BlankView
    <3> QED
      BY <3>1
  <2> QED
    BY <2>1, <2>2
<1> DEFINE fields == {"statusLoading", "statusDetail", "statusError"}
<1>5. /\ Changes(fields) /\ view'.statusLoading = FALSE
      /\ view'.statusDetail = detail /\ view'.statusError = error
      /\ view'.statusTarget = view.statusTarget
  BY <1>2, <1>4 DEF Changes, Watched, Lights
<1>6. fields \intersect Lights = {"statusLoading"} /\ "statusLoading" \notin Buttons
  BY DEF Lights, Buttons
<1>7. ViewTyped'
  BY <1>5, <1>6, TypedChanges DEF VInv
<1>8. \A f \in Lights : ~ Keeps(NoTask, f) /\ (Keeps(tasks[s], f) => f \in fields)
  BY <1>1 DEF Keeps, NoTask, Lights, Buttons
<1>9. LightsMove(s, NoTask)
  <2>1. ~ Lit(view', "statusLoading")
    BY <1>5 DEF Lit
  <2>2. \A f \in Buttons : f \in Lights
    BY DEF Lights
  <2> QED
    BY <1>5, <1>6, <1>8, <2>1, <2>2, LightsMoveBy
<1>10. StatusMoves(s, NoTask)
  BY <1>1, <1>4, <1>5 DEF StatusMoves
<1>11. ShownMoves(s, NoTask)
  <2>1. ShowsSame
    BY <1>2, <1>5 DEF ShowsSame, Changes, Watched
  <2>2. ~ Owes(tasks[s])
    BY <1>1 DEF Owes
  <2> QED
    BY <2>1, <2>2 DEF ShownMoves
<1>12. HandlerStep(s, NoTask)
  BY <1>3, <1>7, <1>9, <1>10, <1>11 DEF HandlerStep
<1> QED
  BY <1>12, HandlerStepSafe

\* A certificate was imported, or refused; what it names is made next.
LEMMA CertificateImportedSafe ==
    ASSUME VInv, NEW s \in Slots, CertificateImported(s)
    PROVE  VInv'
<1> DEFINE c == tasks[s].project
           shown == {"certificate", "showCertificateImport", "notice", "projectInit"}
<1>1. /\ Answered(s) /\ tasks[s].handler = "import" /\ tasks[s].at = "import"
      /\ UNCHANGED <<mainVars, mine>>
  BY DEF CertificateImported, Resumes
<1>2. Watched \subseteq DOMAIN view
  BY WatchedRefs DEF VInv
<1>3. DOMAIN tasks[s] = DOMAIN NoTask
  BY DEF VInv, TasksTyped, TaskOK
<1>4. CASE ~ tasks[s].reply.ok
  <2>1. Ends(s) /\ Changes({"importing"}) /\ view'.importing = FALSE
    BY <1>2, <1>4 DEF CertificateImported, Changes, Watched, Lights, Buttons
  <2>2. "importing" \in Lights \ {"projectInit"}
    BY DEF Lights, Buttons
  <2>3. ~ Owes(tasks[s]) /\ \A f \in Lights : Keeps(tasks[s], f) <=> f = "importing"
    BY <1>1, <1>4 DEF Owes, Keeps, Lights, Buttons
  <2>4. ~ Lit(view', "importing")
    BY <2>1 DEF Lit
  <2> QED
    BY <1>1, <2>1, <2>2, <2>3, <2>4, DropSafe
<1>5. CASE tasks[s].reply.ok /\ c \in Wildcards
  <2> DEFINE fields == shown \union {"loading"}
  <2>1. Refreshes(s, tasks[s])
    BY <1>5 DEF CertificateImported
  <2>2. Changes(fields) /\ view'.loading = TRUE /\ view'.projectInit = [status |-> "skipped", scope |-> {}]
    BY <1>2, <1>5 DEF CertificateImported, Changes, Reads, Watched, Lights
  <2>3. /\ fields \intersect StatusRefs = {} /\ "loading" \in fields /\ "projectInit" \in fields
        /\ fields \intersect Lights \subseteq {"loading", "projectInit"}
    BY DEF StatusRefs, Lights, Buttons
  <2>4. view'.projectInit.status # "running"
    BY <2>2
  <2> HIDE DEF fields
  <2> QED
    BY <1>1, <1>3, <2>1, <2>2, <2>3, <2>4, RefreshSafe
<1>6. CASE tasks[s].reply.ok /\ c \notin Wildcards
  <2> DEFINE task == [tasks[s] EXCEPT !.at = "list"]
  <2>1. Sends(s, task, Call("list"), Tail(wire)) /\ Call("list").do = "list"
    BY <1>6 DEF CertificateImported, Call
  <2>2. Changes(shown)
    BY <1>2, <1>6 DEF CertificateImported, Changes, Watched, Lights
  <2>3. /\ shown \intersect StatusRefs = {} /\ "loading" \notin shown /\ "registering" \notin shown
        /\ "projectInit" \in shown
        /\ shown \intersect Lights \subseteq {"loading", "registering", "projectInit"}
        /\ shown \intersect (Lights \ {"locking", "projectInit"}) = {}
    BY DEF StatusRefs, Lights, Buttons
  <2>4. ViewTyped'
    BY <2>2, <2>3, TypedChanges DEF VInv
  <2>5. DOMAIN task = DOMAIN NoTask /\ task.handler = "import" /\ task.at = "list"
    BY <1>1, <1>3 DEF NoTask
  <2> HIDE DEF task, shown
  <2>6. TaskOK(Sent(task, Call("list")))
    BY <2>1, <2>5, SentOK
  <2>7. /\ Keeps(task, "projectInit") /\ ~ Keeps(tasks[s], "loading")
        /\ ~ Keeps(tasks[s], "registering") /\ ~ Keeps(task, "registering")
    BY <1>1, <2>5 DEF Keeps
  <2> QED
    BY <1>1, <2>1, <2>2, <2>3, <2>4, <2>5, <2>6, <2>7, GoOnSafe
<1> QED
  BY <1>4, <1>5, <1>6

\* The view was mounted and shows what was read; what its certificate names is made next.
LEMMA MountedSafe ==
    ASSUME VInv, NEW s \in Slots, Mounted(s)
    PROVE  VInv'
<1> DEFINE r == tasks[s].reply
           fields == DOMAIN view \ StatusRefs
           task(c) == [NoTask EXCEPT !.handler = "auto", !.at = "list", !.project = c]
<1>1. PICK v \in Refreshed(view, r, "mount") :
        \/ /\ view' = [v EXCEPT !.projectInit = [status |-> "running", scope |-> CertScope[v.certificate]]]
           /\ Sends(s, task(v.certificate), Call("list"), Tail(wire))
        \/ view' = v /\ Ends(s)
  BY DEF Mounted
<1>2. /\ Answered(s) /\ tasks[s].handler = "mount" /\ tasks[s].at = "refresh"
      /\ UNCHANGED <<mainVars, mine>>
  BY DEF Mounted, Resumes
<1>3. ReadInto(v, r, "mount")
  BY RefreshedFields DEF VInv
<1>4. Watched \subseteq DOMAIN view
  BY WatchedRefs DEF VInv
<1>5. /\ DOMAIN view' = DOMAIN view
      /\ \A f \in Watched \ {"projectInit"} : view'[f] = v[f]
  BY <1>1, <1>3, <1>4 DEF ReadInto
<1>6. Changes(fields) /\ fields \intersect StatusRefs = {}
  BY <1>3, <1>4, <1>5 DEF ReadInto, Changes, StatusRefs, Watched, Lights, Buttons
<1>7. \A f \in Lights \ {"locking", "projectInit", "loading"} : view'[f] = view[f] \/ view'[f] = (view[f] /\ TRUE)
  BY <1>3, <1>5 DEF ReadInto, Watched, Lights, Buttons
<1>8. /\ \A f \in Lights \ {"locking", "projectInit"} : view[f] \in BOOLEAN
      /\ \A f \in Lights \ {"locking", "projectInit", "loading"} : view'[f] = view[f]
  BY <1>7 DEF VInv, ViewTyped
<1>9. view'.loading = FALSE /\ view'.locking = view.locking
  BY <1>3, <1>5 DEF ReadInto, Watched, Lights
<1>10. ViewTyped'
  BY <1>5, <1>8, <1>9 DEF ViewTyped, VInv
<1>11. /\ \A f \in Lights \ {"projectInit", "loading"} : Lit(view', f) <=> Lit(view, f)
       /\ ~ Lit(view', "loading")
  BY <1>8, <1>9 DEF Lit
<1>12. \A f \in Lights : Keeps(tasks[s], f) => f = "loading"
  BY <1>2 DEF Keeps, Lights, Buttons
<1>13. \A f \in Buttons : f \in Lights \ {"projectInit", "loading"}
  BY DEF Lights, Buttons
<1>14. CASE /\ view' = [v EXCEPT !.projectInit = [status |-> "running", scope |-> CertScope[v.certificate]]]
            /\ Sends(s, task(v.certificate), Call("list"), Tail(wire))
  <2> DEFINE t == task(v.certificate)
  <2>1. DOMAIN t = DOMAIN NoTask /\ t.handler = "auto" /\ t.at = "list" /\ Call("list").do = "list"
    BY DEF NoTask, Call
  <2>2. Sends(s, t, Call("list"), Tail(wire))
    BY <1>14
  <2> HIDE DEF t, fields, task
  <2>3. TaskOK(Sent(t, Call("list")))
    BY <2>1, SentOK
  <2>4. Keeps(t, "projectInit") /\ \A f \in Buttons : ~ Keeps(t, f)
    BY <2>1 DEF Keeps, Buttons
  <2>5. LightsMove(s, t)
    BY <1>11, <1>12, <1>13, <2>4 DEF LightsMove
  <2> QED
    BY <1>2, <1>6, <1>10, <2>1, <2>2, <2>3, <2>5, GoSafe
<1>15. CASE view' = v /\ Ends(s)
  <2>1. view'.projectInit = view.projectInit
    BY <1>3, <1>15 DEF ReadInto
  <2>2. \A f \in Lights : ~ Keeps(NoTask, f)
    BY DEF Keeps, NoTask
  <2>3. LightsMove(s, NoTask)
    BY <1>11, <1>12, <1>13, <2>1, <2>2 DEF LightsMove, Lit
  <2>4. ShowsReply(r)
    <3>1. r.ok \in BOOLEAN /\ (r.ok => r.read = 4)
      BY <1>2 DEF VInv, TasksTyped, TaskOK
    <3> QED
      BY <1>3, <1>15, <3>1 DEF ReadInto, ShowsReply
  <2>5. tasks[s].handler # "status"
    BY <1>2
  <2> HIDE DEF fields
  <2> QED
    BY <1>2, <1>6, <1>10, <1>15, <2>3, <2>4, <2>5, EndSafe
<1> QED
  BY <1>1, <1>14, <1>15

\* The next project is made, or all were tried.
LEMMA InitOnSafe ==
    ASSUME VInv, NEW s \in Slots, Answered(s), tasks[s].handler \in {"import", "auto"},
           tasks[s].at \in {"list", "create"}, UNCHANGED <<mainVars, mine>>,
           NEW t, DOMAIN t = DOMAIN NoTask, t.handler = tasks[s].handler, InitOn(s, t)
    PROVE  VInv'
<1>1. Watched \subseteq DOMAIN view
  BY WatchedRefs DEF VInv
<1>2. CASE t.todo # {}
  <2>1. PICK p \in t.todo : Sends(s, [t EXCEPT !.at = "create", !.todo = @ \ {p}], CreateCall(p), Tail(wire))
    BY <1>2 DEF InitOn
  <2> DEFINE task == [t EXCEPT !.at = "create", !.todo = @ \ {p}]
             none == {}
  <2>2. /\ DOMAIN task = DOMAIN NoTask /\ task.handler = tasks[s].handler /\ task.at = "create"
        /\ CreateCall(p).do = "create" /\ Sends(s, task, CreateCall(p), Tail(wire))
    BY <2>1 DEF NoTask, CreateCall
  <2> HIDE DEF task
  <2>3. TaskOK(Sent(task, CreateCall(p)))
    BY <2>2, SentOK
  <2>4. view' = view
    BY <1>2 DEF InitOn
  <2>5. Changes(none) /\ ViewTyped'
    BY <2>4 DEF Changes, VInv, ViewTyped
  <2>6. /\ Keeps(task, "projectInit") /\ ~ Keeps(tasks[s], "loading")
        /\ ~ Keeps(tasks[s], "registering") /\ ~ Keeps(task, "registering")
    BY <2>2 DEF Keeps
  <2>7. none \intersect StatusRefs = {} /\ none \intersect Lights = {}
        /\ "loading" \notin none /\ "registering" \notin none /\ "projectInit" \notin none
    OBVIOUS
  <2>8. tasks[s].handler # "status" /\ task.handler # "addProject"
    BY <2>2
  <2> HIDE DEF none
  <2> QED
    BY <2>2, <2>3, <2>5, <2>6, <2>7, <2>8, GoOnSafe
<1>3. CASE t.todo = {}
  <2> DEFINE fields == {"loading", "projectInit", "notice"}
  <2>1. Refreshes(s, t)
    BY <1>3 DEF InitOn
  <2>2. Changes(fields) /\ view'.loading = TRUE /\ view'.projectInit.status = InitStatus(t)
    <3>1. PICK init, n :
            /\ init = [status |-> InitStatus(t), scope |-> CertScope[t.project]]
            /\ view' = Reads([view EXCEPT !.projectInit = init, !.notice = n])
      BY <1>3 DEF InitOn
    <3>2. Changes(fields) /\ view'.loading = TRUE /\ view'.projectInit = init
      BY <1>1, <3>1 DEF Changes, Reads, Watched, Lights
    <3> QED
      BY <3>1, <3>2
  <2>3. InitStatus(t) # "running"
    BY DEF InitStatus
  <2>4. /\ fields \intersect StatusRefs = {} /\ "loading" \in fields /\ "projectInit" \in fields
        /\ fields \intersect Lights \subseteq {"loading", "projectInit"}
    BY DEF StatusRefs, Lights, Buttons
  <2>5. tasks[s].handler # "status" /\ tasks[s].at # "refresh" /\ t.handler # "register"
    OBVIOUS
  <2> HIDE DEF fields
  <2> QED
    BY <2>1, <2>2, <2>3, <2>4, <2>5, RefreshSafe
<1> QED
  BY <1>2, <1>3

\* The projects there are were listed, or one more was made.
LEMMA ProjectsListedSafe ==
    ASSUME VInv, NEW s \in Slots, ProjectsListed(s)
    PROVE  VInv'
<1>1. /\ Answered(s) /\ tasks[s].handler \in {"import", "auto"} /\ tasks[s].at = "list"
      /\ UNCHANGED <<mainVars, mine>>
  BY DEF ProjectsListed, Resumes
<1>2. DOMAIN tasks[s] = DOMAIN NoTask
  BY DEF VInv, TasksTyped, TaskOK
<1>3. CASE tasks[s].reply.ok
  <2>1. PICK todo : InitOn(s, [tasks[s] EXCEPT !.todo = todo])
    BY <1>3 DEF ProjectsListed
  <2> DEFINE t == [tasks[s] EXCEPT !.todo = todo]
  <2>2. DOMAIN t = DOMAIN NoTask /\ t.handler = tasks[s].handler /\ InitOn(s, t)
    BY <1>2, <2>1 DEF NoTask
  <2> HIDE DEF t
  <2> QED
    BY <1>1, <2>2, InitOnSafe
<1>4. CASE ~ tasks[s].reply.ok
  <2> DEFINE fields == {"loading", "projectInit"}
  <2>1. Refreshes(s, tasks[s])
    BY <1>4 DEF ProjectsListed
  <2>2. Changes(fields) /\ view'.loading = TRUE /\ view'.projectInit.status = "failed"
    <3>1. Watched \subseteq DOMAIN view
      BY WatchedRefs DEF VInv
    <3>2. PICK init :
            /\ init = [status |-> "failed", scope |-> CertScope[tasks[s].project]]
            /\ view' = Reads([view EXCEPT !.projectInit = init])
      BY <1>4 DEF ProjectsListed
    <3>3. Changes(fields) /\ view'.loading = TRUE /\ view'.projectInit = init
      BY <3>1, <3>2 DEF Changes, Reads, Watched, Lights
    <3> QED
      BY <3>2, <3>3
  <2>3. /\ fields \intersect StatusRefs = {} /\ "loading" \in fields /\ "projectInit" \in fields
        /\ fields \intersect Lights \subseteq {"loading", "projectInit"}
    BY DEF StatusRefs, Lights, Buttons
  <2>4. tasks[s].handler # "status" /\ tasks[s].at # "refresh" /\ tasks[s].handler # "register"
    BY <1>1
  <2> HIDE DEF fields
  <2> QED
    BY <1>1, <1>2, <2>1, <2>2, <2>3, <2>4, RefreshSafe
<1> QED
  BY <1>3, <1>4

LEMMA ProjectMadeSafe ==
    ASSUME VInv, NEW s \in Slots, ProjectMade(s)
    PROVE  VInv'
<1>1. /\ Answered(s) /\ tasks[s].handler \in {"import", "auto"} /\ tasks[s].at = "create"
      /\ UNCHANGED <<mainVars, mine>>
  BY DEF ProjectMade, Resumes
<1>2. DOMAIN tasks[s] = DOMAIN NoTask
  BY DEF VInv, TasksTyped, TaskOK
<1>3. PICK good, bad : InitOn(s, [tasks[s] EXCEPT !.good = good, !.bad = bad])
  BY DEF ProjectMade
<1> DEFINE t == [tasks[s] EXCEPT !.good = good, !.bad = bad]
<1>4. DOMAIN t = DOMAIN NoTask /\ t.handler = tasks[s].handler /\ InitOn(s, t)
  BY <1>2, <1>3 DEF NoTask
<1> HIDE DEF t
<1> QED
  BY <1>1, <1>4, InitOnSafe

\* The project of the dialog was made, or could not be.
LEMMA ProjectAddedSafe ==
    ASSUME VInv, NEW s \in Slots, ProjectAdded(s)
    PROVE  VInv'
<1>1. /\ Answered(s) /\ tasks[s].handler = "addProject" /\ tasks[s].at = "create"
      /\ UNCHANGED <<mainVars, mine>>
  BY DEF ProjectAdded, Resumes
<1>2. Watched \subseteq DOMAIN view
  BY WatchedRefs DEF VInv
<1>3. CASE tasks[s].reply.ok
  <2> DEFINE fields == {"loading", "projects", "registerProject", "showAddProject", "notice"}
  <2>1. Refreshes(s, tasks[s])
    BY <1>3 DEF ProjectAdded
  <2>2. Changes(fields) /\ view'.loading = TRUE
    BY <1>2, <1>3 DEF ProjectAdded, Changes, Reads, Watched, Lights
  <2>3. /\ fields \intersect StatusRefs = {} /\ "loading" \in fields /\ "projectInit" \notin fields
        /\ fields \intersect Lights \subseteq {"loading", "projectInit"}
    BY DEF StatusRefs, Lights, Buttons
  <2>4. ~ Keeps(tasks[s], "projectInit") /\ DOMAIN tasks[s] = DOMAIN NoTask
    BY <1>1 DEF Keeps, VInv, TasksTyped, TaskOK
  <2> HIDE DEF fields
  <2> QED
    BY <1>1, <2>1, <2>2, <2>3, <2>4, RefreshSafe
<1>4. CASE ~ tasks[s].reply.ok
  <2>1. Ends(s) /\ Changes({"adding"}) /\ view'.adding = FALSE
    BY <1>2, <1>4 DEF ProjectAdded, Changes, Watched, Lights, Buttons
  <2>2. "adding" \in Lights \ {"projectInit"}
    BY DEF Lights, Buttons
  <2>3. ~ Owes(tasks[s]) /\ \A f \in Lights : Keeps(tasks[s], f) <=> f = "adding"
    BY <1>1, <1>4 DEF Owes, Keeps, Lights, Buttons
  <2>4. ~ Lit(view', "adding")
    BY <2>1 DEF Lit
  <2> QED
    BY <1>1, <2>1, <2>2, <2>3, <2>4, DropSafe
<1> QED
  BY <1>3, <1>4

\* The key was stored, or refused.
LEMMA PrivateKeyDoneSafe ==
    ASSUME VInv, NEW s \in Slots, PrivateKeyDone(s)
    PROVE  VInv'
<1> DEFINE fields == {"importingKey", "showKeyImport", "keyReady", "notice"}
<1>1. /\ Answered(s) /\ tasks[s].handler = "key" /\ tasks[s].at = "key"
      /\ UNCHANGED <<mainVars, mine>> /\ Ends(s)
  BY DEF PrivateKeyDone, Resumes
<1>2. Watched \subseteq DOMAIN view
  BY WatchedRefs DEF VInv
<1>3. Changes(fields) /\ view'.importingKey = FALSE
  BY <1>2 DEF PrivateKeyDone, Changes, Watched, Lights, Buttons
<1>4. "importingKey" \in Lights \ {"projectInit"} /\ fields \intersect Watched \subseteq {"importingKey"}
      /\ "importingKey" \in fields
  BY DEF Lights, Buttons, Watched
<1>5. ~ Owes(tasks[s]) /\ \A f \in Lights : Keeps(tasks[s], f) <=> f = "importingKey"
  BY <1>1 DEF Owes, Keeps, Lights, Buttons
<1>6. ~ Lit(view', "importingKey")
  BY <1>3 DEF Lit
<1> HIDE DEF fields
<1> QED
  BY <1>1, <1>3, <1>4, <1>5, <1>6, DropSafe

-----------------------------------------------------------------------------
(***************************************************************************)
(* The invariant holds.                                                    *)
(***************************************************************************)

LEMMA InitVInv == Init => VInv
<1> SUFFICES ASSUME Init PROVE VInv
  OBVIOUS
<1>1. view = BlankView /\ wire = <<>> /\ tasks = [s \in Slots |-> NoTask]
  BY DEF Init
<1>2. \A f \in Lights : ~ Lit(view, f)
  BY <1>1 DEF Lights, Buttons, Lit, BlankView, NoInit
<1>3. ViewTyped
  <2>1. \A f \in Buttons \union {"loading", "statusLoading"} : view[f] = FALSE
    BY <1>1 DEF Buttons, BlankView
  <2> QED
    BY <1>1, <2>1 DEF ViewTyped, Lights
<1>4. TasksTyped
  <2>1. TaskOK(NoTask)
    BY DEF TaskOK, NoTask, Waiting, NoCall
  <2> QED
    BY <1>1, <2>1 DEF TasksTyped
<1>5. wire \in Seq(Slots) /\ DOMAIN wire = {}
  BY <1>1
<1>6. InLine /\ ReadsKept
  BY <1>5 DEF InLine, ReadsKept
<1>7. MainTyped
  BY ViewConstants DEF Init, MainTyped
<1>8. \A s \in Slots, f \in Lights : ~ Keeps(tasks[s], f)
  BY <1>1 DEF Keeps, NoTask
<1>9. LightsKept
  <2>1. \A f \in Buttons : f \in Lights
    BY DEF Lights
  <2> QED
    BY <1>2, <1>8, <2>1 DEF LightsKept
<1>10. StatusKept /\ ViewKept
  BY <1>1 DEF StatusKept, ViewKept, BlankView
<1> QED
  BY <1>3, <1>4, <1>6, <1>7, <1>9, <1>10 DEF VInv

\* A handler is resumed.
LEMMA ResumeSafe ==
    ASSUME VInv, NEW s \in Slots, Resume(s)
    PROVE  VInv'
<1>1. \/ Mounted(s) \/ RefreshEnds(s) \/ RegisterProjectMade(s) \/ RegisterOneDone(s)
      \/ BatchDone(s) \/ LockDone(s) \/ UnbindDone(s) \/ StatusDone(s)
      \/ CertificateImported(s) \/ ProjectsListed(s) \/ ProjectMade(s)
      \/ ProjectAdded(s) \/ PrivateKeyDone(s)
  BY DEF Resume
<1> QED
  BY <1>1, MountedSafe, RefreshEndsSafe, RegisterProjectMadeSafe, RegisterOneDoneSafe,
     BatchDoneSafe, LockDoneSafe, UnbindDoneSafe, StatusDoneSafe, CertificateImportedSafe,
     ProjectsListedSafe, ProjectMadeSafe, ProjectAddedSafe, PrivateKeyDoneSafe

\* The operator does something.
LEMMA OperatorSafe ==
    ASSUME VInv, Mount \/ OnThePage \/ InADialog
    PROVE  VInv'
<1>1. ASSUME Mount PROVE VInv'
  BY <1>1, ReadSafe DEF Mount
<1>2. ASSUME OnThePage PROVE VInv'
  <2>1. ASSUME RefreshAll PROVE VInv'
    BY <2>1, ReadSafe DEF RefreshAll
  <2>2. \/ \E pd \in Rows : ToggleDevice(pd) \/ ToggleLock(pd) \/ OpenStatus(pd)
        \/ SelectAll \/ ClearSelection
        \/ \E p \in Projects : ChooseProject(p)
        \/ OpensDialog \/ RefreshAll
        \/ \E ids \in Inputs : SubmitRegister(ids)
        \/ \E handler \in {"issue", "renew"} : SubmitIssue(handler)
    BY <1>2 DEF OnThePage
  <2>3. ASSUME NEW pd \in Rows, ToggleDevice(pd) \/ ToggleLock(pd) \/ OpenStatus(pd) PROVE VInv'
    BY <2>3, ChoiceSafe, ToggleLockSafe, OpenStatusSafe
  <2> QED
    BY <2>1, <2>2, <2>3, ChoiceSafe, DialogSafe, SubmitRegisterSafe, SubmitIssueSafe
<1>3. ASSUME InADialog PROVE VInv'
  BY <1>3, DialogSafe, SubmitUnbindSafe, SubmitAddProjectSafe, SubmitCertificateSafe,
     SubmitPrivateKeySafe DEF InADialog
<1> QED
  BY <1>1, <1>2, <1>3

LEMMA NextVInv == VInv /\ [Next]_vars => VInv'
<1> SUFFICES ASSUME VInv, [Next]_vars PROVE VInv'
  OBVIOUS
<1>1. CASE UNCHANGED vars
  <2>1. UNCHANGED <<mainVars, view, tasks, wire, mine>>
    BY <1>1 DEF vars, mainVars
  <2>2. ViewTyped' /\ TasksTyped' /\ InLine' /\ MainTyped'
    BY <2>1 DEF VInv, ViewTyped, TasksTyped, InLine, MainTyped, mainVars, catalogVars
  <2>3. LightsKept' /\ StatusKept'
    BY <2>1 DEF VInv, LightsKept, StatusKept, LastStatusIsFor
  <2>4. ViewKept' /\ ReadsKept'
    BY <2>1 DEF VInv, ViewKept, ReadsKept, UpToDate, ShownCertificate, CertUsable, Bound,
                AmongNewest, mainVars, catalogVars
  <2> QED
    BY <2>2, <2>3, <2>4 DEF VInv
<1>2. CASE Next
  BY <1>2, OperatorSafe, AnswerSafe, ResumeSafe, HubSafe DEF Next
<1> QED
  BY <1>1, <1>2

LEMMA SpecVInv == Spec => []VInv
  BY InitVInv, NextVInv, PTL DEF Spec

-----------------------------------------------------------------------------
(***************************************************************************)
(* What the operator can rely on.                                          *)
(***************************************************************************)

\* A button is disabled exactly while the handler it starts runs (submitting, adding,
\* importing, importingKey, unbindBusy), and nothing is left spinning once nothing runs:
\* whatever is answered, refused or overlaps, for any number of handlers at a time.
THEOREM ButtonsFollow == Spec => []ButtonsFollowHandlers
<1>1. VInv => ButtonsFollowHandlers
  <2> SUFFICES ASSUME VInv PROVE ButtonsFollowHandlers
    OBVIOUS
  <2>1. \A f \in Lights : Lit(view, f) => \E s \in Slots : Keeps(tasks[s], f)
    BY DEF VInv, LightsKept
  <2>2. \A f \in Buttons : (\E s \in Slots : Keeps(tasks[s], f)) => Lit(view, f)
    BY DEF VInv, LightsKept
  <2>3. /\ view.submitting <=> Running({"issue", "renew"})
        /\ view.adding <=> Running({"addProject"})
        /\ view.importing <=> Running({"import"})
        /\ view.importingKey <=> Running({"key"})
        /\ view.unbindBusy <=> Running({"unbind"})
    BY <2>1, <2>2 DEF Running, Keeps, Lit, Lights, Buttons
  <2>4. view.registering => Running({"register"})
    BY <2>1 DEF Running, Keeps, Lit, Lights, Buttons
  <2>5. view.projectInit.status = "running" => Running({"import", "auto"})
    BY <2>1 DEF Running, Keeps, Lit, Lights, Buttons
  <2>6. ASSUME Quiet PROVE ~ view.loading /\ ~ view.statusLoading /\ view.locking = None
    <3>1. \A s \in Slots, f \in Lights : ~ Keeps(tasks[s], f)
      BY <2>6 DEF Quiet, Idle, Keeps, NoTask
    <3> QED
      BY <2>1, <3>1 DEF Lit, Lights, Buttons
  <2> QED
    BY <2>3, <2>4, <2>5, <2>6 DEF ButtonsFollowHandlers
<1> QED
  BY <1>1, SpecVInv, PTL

\* openStatus: however often the dialog is closed and opened for another device while
\* answers are under way, it ends up with the device it was opened for, or an error.
THEOREM DialogSettles == Spec => []StatusSettles
<1>1. VInv => StatusSettles
  <2> SUFFICES ASSUME VInv, \A s \in Slots : tasks[s].handler # "status"
               PROVE  view.statusTarget = None \/ view.statusError
                        \/ view.statusDetail = view.statusTarget
    BY DEF StatusSettles
  <2>1. \A i \in DOMAIN wire : wire[i] \in Slots
    BY DEF VInv, InLine
  <2> QED
    BY <2>1 DEF VInv, StatusKept, LastStatusIsFor
<1> QED
  BY <1>1, SpecVInv, PTL

\* refreshAll at the end of the handlers: once nothing runs and the last read did not fail,
\* the view shows the registrations and locks, projects, certificate and own licenses that
\* the main process has, in whatever order overlapping handlers sent their requests.
THEOREM ViewSettles == Spec => []OwnChangesShown
<1>1. VInv => OwnChangesShown
  <2> SUFFICES ASSUME VInv, Quiet, view.readOk
               PROVE  UpToDate(view)
    BY DEF OwnChangesShown, UpToDate
  <2>1. \A s \in Slots : ~ Owes(tasks[s])
    BY DEF Quiet, Idle, Owes, NoTask, Waiting
  <2> QED
    BY <2>1 DEF VInv, ViewKept
<1> QED
  BY <1>1, SpecVInv, PTL

\* submitIssue and submitRenew tell of success only for rows the main process answered
\* with a license to this very handler, and of a full success only when all chosen rows
\* are among them.
THEOREM NoticesAreTrue == Spec => NoticeIsTrue
<1>1. ASSUME VInv, NEW s \in Slots, BatchDone(s), view'.notice # view.notice
      PROVE  /\ view'.notice.rows \subseteq tasks[s].granted
             /\ view'.notice.tone = "success" => tasks[s].rows \subseteq tasks[s].granted
  <2> DEFINE batch == tasks[s].ask.batch
             t == [tasks[s] EXCEPT !.good = IF tasks[s].reply.ok THEN @ \union batch ELSE @,
                                   !.bad = IF tasks[s].reply.ok THEN @ ELSE @ \union batch]
  <2>1. tasks[s].at = "batch" /\ TaskOK(tasks[s])
    BY <1>1 DEF BatchDone, Resumes, VInv, TasksTyped
  <2>2. /\ DOMAIN tasks[s] = DOMAIN NoTask
        /\ tasks[s].good \subseteq tasks[s].granted
        /\ tasks[s].rows \subseteq tasks[s].good \union tasks[s].bad \union batch \union UNION tasks[s].todo
        /\ tasks[s].reply.ok => batch \subseteq tasks[s].granted
    BY <2>1 DEF TaskOK
  <2>3. /\ t.todo = tasks[s].todo /\ t.good \subseteq tasks[s].granted
        /\ tasks[s].rows \subseteq t.good \union t.bad \union UNION t.todo
    BY <2>2 DEF NoTask
  <2>4. t.todo = {} /\ view' = Reads(ApplyOutcomes(view, t.good, t.bad))
    BY <1>1 DEF BatchDone
  <2> HIDE DEF t
  <2>5. "notice" \in DOMAIN view
    BY <1>1 DEF VInv, ViewTyped, BlankView
  <2>6. view'.notice = Notice("issue", IF t.bad = {} THEN "success" ELSE "danger", t.good)
    BY <2>4, <2>5 DEF Reads, ApplyOutcomes
  <2> QED
    BY <2>3, <2>4, <2>6 DEF Notice
<1>2. VInv /\ [Next]_vars => [\A s \in Slots :
          view'.notice # view.notice /\ BatchDone(s) =>
            /\ view'.notice.rows \subseteq tasks[s].granted
            /\ view'.notice.tone = "success" => tasks[s].rows \subseteq tasks[s].granted]_vars
  BY <1>1
<1> QED
  BY <1>2, SpecVInv, PTL DEF Spec, NoticeIsTrue
=============================================================================
