----------------------------- MODULE GameClient -----------------------------
(***************************************************************************)
(* A game with the Aegis plugin: the guard (godot/addons/aegis/aegis.gd),  *)
(* its network client (aegis_net.gd) and the replacement of license.dat    *)
(* (aegis_license.gd).                                                     *)
(*                                                                         *)
(* The engine runs one handler at a time: a notification, a timer or a     *)
(* frame's _process.  Replacing the file is one handler too; its file      *)
(* operations are steps of their own, because the process may end between  *)
(* them and others may touch the file.  The time of timers is left open: a *)
(* running timer may fire in any state.  Waiting stands for the wait       *)
(* screen, the paused scene tree, the muted sound and the timer that asks  *)
(* for a license meanwhile.                                                *)
(***************************************************************************)
EXTENDS LicenseFile

VARIABLES
    run,           \* the game: off, on, or quitting at the end of this frame
    waiting,       \* _waiting
    last,          \* last_result
    checkTimer,    \* _check_timer runs
    pullTimer,     \* _pull_timer runs
    net,           \* the pull in progress
    cached,        \* an address that answered is known
    install        \* where replace_license_bytes stands

guardVars == <<run, waiting, last, checkTimer, pullTimer>>
vars == <<licenseVars, guardVars, net, cached, install>>

\* left counts the addresses still to be tried; discovered says that the present
\* one came from discovery; current is the expiry of the result the pull was
\* requested with.
Idle == [state |-> "idle", left |-> 0, discovered |-> FALSE, current |-> NoExpiry]
Nets == [state : {"idle", "connecting", "reply", "discovering"}, left : 0..1,
         discovered : BOOLEAN, current : Nat]

NoInstall == [step |-> "none", content |-> NoLicense]
Steps == {"none", "write", "rename", "remove", "again", "evaluate"}
NoResult == [valid |-> FALSE, due |-> FALSE, expire |-> NoExpiry]

TypeOK ==
    /\ LicenseTypeOK
    /\ run \in {"off", "on", "quitting"}
    /\ {waiting, checkTimer, pullTimer, cached} \subseteq BOOLEAN
    /\ last \in Results
    /\ net \in Nets
    /\ install \in [step : Steps, content : Contents]
    /\ install.step # "none" => net.state = "reply" /\ cached

Init ==
    /\ file \in Contents /\ clock \in 0..MaxClock /\ record = 0
    /\ run = "off" /\ waiting = FALSE /\ last = NoResult
    /\ checkTimer = FALSE /\ pullTimer = FALSE
    /\ net = Idle /\ cached = FALSE /\ install = NoInstall

\* No handler is running.
Free == install.step = "none"

-----------------------------------------------------------------------------
(***************************************************************************)
(* Starting a pull.                                                        *)
(***************************************************************************)

\* Mutant of NextCandidate: a failed address starts the list over.
NextCandidateAgain(left, expire) ==
    {[state |-> "connecting", left |-> n, discovered |-> FALSE, current |-> expire] : n \in 0..1}

\* _next_candidate: an address that fails at once is passed over; after the last
\* one comes the broadcast, which may fail as well.
NextCandidate(left, expire) ==
    {[state |-> "connecting", left |-> n, discovered |-> FALSE, current |-> expire] : n \in 0..(left - 1)}
    \union {[state |-> "discovering", left |-> 0, discovered |-> FALSE, current |-> expire], Idle}

\* request_pull from a pull n: dropped while one is in progress.
RequestPull(n, expire) ==
    IF n # Idle THEN {n} ELSE NextCandidate(IF cached THEN 2 ELSE 1, expire)

-----------------------------------------------------------------------------
(***************************************************************************)
(* The guard.  What the handlers have in common starts from the pull n     *)
(* they find.                                                              *)
(***************************************************************************)

\* _maybe_pull
MaybePull(result, n) ==
    IF result.due
    THEN pullTimer' = TRUE /\ net' \in RequestPull(n, result.expire)
    ELSE net' = n /\ UNCHANGED pullTimer

\* _enter_wait, which does nothing when the game waits already
EnterWait(n) ==
    /\ waiting' = TRUE
    /\ net' \in IF waiting THEN {n} ELSE RequestPull(n, NoExpiry)
    /\ UNCHANGED pullTimer

\* _ready: the game starts.
Ready ==
    /\ run = "off"
    /\ run' = "on"
    /\ UpdateRecord(file)
    /\ last' = Result(file)
    /\ checkTimer' = last'.valid
    /\ IF last'.valid THEN waiting' = FALSE /\ MaybePull(last', Idle) ELSE EnterWait(Idle)
    /\ UNCHANGED <<file, clock, cached, install>>

\* Mutant of Check: a license found while waiting does not end the wait.
CheckStaysWaiting ==
    /\ run = "on" /\ Free
    /\ UpdateRecord(file)
    /\ last' = Result(file)
    /\ IF last'.valid THEN UNCHANGED waiting /\ MaybePull(last', net) ELSE EnterWait(net)
    /\ UNCHANGED <<file, clock, run, checkTimer, cached, install>>

\* _check
Check ==
    /\ run = "on" /\ Free
    /\ UpdateRecord(file)
    /\ last' = Result(file)
    /\ IF last'.valid THEN waiting' = FALSE /\ MaybePull(last', net) ELSE EnterWait(net)
    /\ UNCHANGED <<file, clock, run, checkTimer, cached, install>>

FocusIn == Check
CheckTimeout == checkTimer /\ Check

\* _on_pull_tick asks with the last result, however old that is.
PullTick ==
    /\ run # "off" /\ Free /\ pullTimer
    /\ net' \in RequestPull(net, last.expire)
    /\ UNCHANGED <<licenseVars, guardVars, cached, install>>

\* _on_wait_pull_tick
WaitPullTick ==
    /\ run # "off" /\ Free /\ waiting
    /\ net' \in RequestPull(net, NoExpiry)
    /\ UNCHANGED <<licenseVars, guardVars, cached, install>>

\* Mutant of WaitOver: asks once more instead of giving up.
WaitOverAsksAgain ==
    /\ run = "on" /\ Free /\ waiting
    /\ net' \in RequestPull(Idle, NoExpiry) \ {net}
    /\ UNCHANGED <<licenseVars, guardVars, cached, install>>

\* _process and _quit_denied: the countdown is at zero.
WaitOver ==
    /\ run = "on" /\ Free /\ waiting
    /\ run' = "quitting"
    /\ waiting' = FALSE
    /\ UNCHANGED <<licenseVars, last, checkTimer, pullTimer, net, cached, install>>

\* The deferred quit, or the process ends in any other way, in whatever it was
\* doing.  The files and the clock stay.
ProcessEnds ==
    /\ run' = "off" /\ waiting' = FALSE /\ last' = NoResult
    /\ checkTimer' = FALSE /\ pullTimer' = FALSE
    /\ net' = Idle /\ cached' = FALSE /\ install' = NoInstall
    /\ UNCHANGED licenseVars

Quit == run = "quitting" /\ Free /\ ProcessEnds
Crash == run # "off" /\ ProcessEnds

-----------------------------------------------------------------------------
(***************************************************************************)
(* The network client.  What the hub answers, and whether it does, is      *)
(* open.                                                                   *)
(***************************************************************************)

NetEnds == net' = Idle /\ UNCHANGED <<licenseVars, guardVars, cached, install>>

Connected ==
    /\ net.state = "connecting" /\ Free
    /\ net' = [net EXCEPT !.state = "reply"]
    /\ UNCHANGED <<licenseVars, guardVars, cached, install>>

\* _fail_stage: an address found by discovery is the last one.
ConnectFails ==
    /\ net.state = "connecting" /\ Free
    /\ net' \in IF net.discovered THEN {Idle} ELSE NextCandidate(net.left, net.current)
    /\ UNCHANGED <<licenseVars, guardVars, cached, install>>

\* _poll_discover: the first well-formed answer is used.
Discovered ==
    /\ net.state = "discovering" /\ Free
    /\ net' = [net EXCEPT !.state = "connecting", !.discovered = TRUE]
    /\ UNCHANGED <<licenseVars, guardVars, cached, install>>

\* _abort: the stage or the whole pull runs out of time, the connection breaks, or
\* the answer is malformed or to another request.
Abort == net # Idle /\ Free /\ NetEnds

\* The answer is unchanged or denied, or its license is refused.
NothingNew ==
    /\ net.state = "reply" /\ Free
    /\ cached' = TRUE
    /\ net' = Idle
    /\ UNCHANGED <<licenseVars, guardVars, install>>

\* _is_newer; NoExpiry is below every expiry.
IsNewer(l, current) == Terms[l].expires > current

\* Mutant of NewLicense: the pull is over before the file is replaced.
NewLicenseEndsPull(l) ==
    /\ net.state = "reply" /\ Free
    /\ Valid(l)
    /\ IsNewer(l, net.current)
    /\ cached' = TRUE
    /\ net' = Idle
    /\ install' = [step |-> "write", content |-> l]
    /\ UNCHANGED <<licenseVars, guardVars>>

\* _handle_reply: the license is compared with the result the pull was requested
\* with, then replace_license_bytes is called.
NewLicense(l) ==
    /\ net.state = "reply" /\ Free
    /\ Valid(l)
    /\ IsNewer(l, net.current)
    /\ cached' = TRUE
    /\ install' = [step |-> "write", content |-> l]
    /\ UNCHANGED <<licenseVars, guardVars, net>>

\* replace_license_bytes returns false; _abort.
InstallFails ==
    /\ install' = NoInstall
    /\ net' = Idle
    /\ UNCHANGED <<clock, record, guardVars, cached>>

GoOn(step, content) ==
    /\ install' = [step |-> step, content |-> content]
    /\ UNCHANGED <<clock, record, guardVars, net, cached>>

\* Opening the temporary file may fail; what store_buffer and close report is not
\* looked at, so it may be short.
WriteTemp ==
    /\ install.step = "write"
    /\ UNCHANGED file
    /\ \/ \E c \in {install.content, Broken} : GoOn("rename", c)
       \/ InstallFails

\* The directory cannot be opened, or the rename succeeds, or it fails.
RenameTemp ==
    /\ install.step = "rename"
    /\ \/ UNCHANGED file /\ InstallFails
       \/ file' = install.content /\ GoOn("evaluate", NoLicense)
       \/ UNCHANGED file /\ GoOn("remove", install.content)

\* remove_absolute, which may fail without notice
RemoveTarget ==
    /\ install.step = "remove"
    /\ file' \in {file, NoLicense}
    /\ GoOn("again", install.content)

RenameAgain ==
    /\ install.step = "again"
    /\ \/ file' = install.content /\ GoOn("evaluate", NoLicense)
       \/ UNCHANGED file /\ InstallFails

\* Mutant of LicenseUpdated: the timer for renewals is always stopped.
LicenseUpdatedStops ==
    /\ install.step = "evaluate"
    /\ UpdateRecord(file)
    /\ last' = Result(file)
    /\ install' = NoInstall
    /\ IF last'.valid
       THEN /\ waiting' = FALSE
            /\ checkTimer' = TRUE
            /\ pullTimer' = FALSE
            /\ net' \in IF last'.due THEN RequestPull(Idle, last'.expire) ELSE {Idle}
       ELSE EnterWait(Idle) /\ UNCHANGED checkTimer
    /\ UNCHANGED <<file, clock, run, cached>>

\* evaluate(true) of what is on disk now, the end of the pull and
\* _on_license_updated, which may request the next one.
LicenseUpdated ==
    /\ install.step = "evaluate"
    /\ UpdateRecord(file)
    /\ last' = Result(file)
    /\ install' = NoInstall
    /\ IF last'.valid
       THEN /\ waiting' = FALSE
            /\ checkTimer' = TRUE
            /\ IF last'.due THEN MaybePull(last', Idle) ELSE pullTimer' = FALSE /\ net' = Idle
       ELSE EnterWait(Idle) /\ UNCHANGED checkTimer
    /\ UNCHANGED <<file, clock, run, cached>>

InstallStep == WriteTemp \/ RenameTemp \/ RemoveTarget \/ RenameAgain \/ LicenseUpdated

NetStep ==
    \/ Connected
    \/ ConnectFails
    \/ Discovered
    \/ Abort
    \/ NothingNew
    \/ \E l \in Licenses : NewLicense(l)

-----------------------------------------------------------------------------
Environment ==
    /\ UserPutsFile \/ ResetRecord \/ ClockChanges
    /\ UNCHANGED <<guardVars, net, cached, install>>

Next ==
    \/ Ready
    \/ FocusIn
    \/ CheckTimeout
    \/ PullTick
    \/ WaitPullTick
    \/ WaitOver
    \/ Quit
    \/ Crash
    \/ NetStep
    \/ InstallStep
    \/ Environment

Spec == Init /\ [][Next]_vars

\* Frames go on: a pull is polled in each, a countdown read in each, a handler is
\* run to its end.  The countdown and the deferred quit are strongly fair because the
\* frame that reads the one, and the end of the frame that has the other, come
\* between any two replies.
FairSpec == Spec /\ WF_vars(NetStep) /\ WF_vars(InstallStep) /\ SF_vars(WaitOver) /\ SF_vars(Quit)

-----------------------------------------------------------------------------
(***************************************************************************)
(* Properties.                                                             *)
(***************************************************************************)

\* A running game is held back exactly while its last verification failed: every
\* handler that sets last_result also enters or leaves the wait (aegis.gd).
WaitsUnlessLicensed == run = "on" => (waiting <=> ~ last.valid)

\* While the license in force is about to run out, the timer that asks for the next
\* one runs, whichever way the license was found or replaced (aegis.gd _maybe_pull
\* and _on_license_updated).
RenewalTimerRuns == run = "on" /\ last.valid /\ last.due => pullTimer

\* A pull ends, or has its license put in place, without counting on the total
\* timeout: the addresses run out (aegis_net.gd).
PullEnds == net # Idle ~> (net = Idle \/ install.step = "evaluate" \/ run = "off")

\* A wait ends, with a license or by quitting, whatever the hub answers and however
\* often replacing the file fails (aegis.gd).
WaitEnds == waiting ~> (~ waiting)

\* Whenever the game runs with a license, the timer that verifies it again runs
\* (aegis.gd: a license that runs out or is changed while the game runs is noticed).
RecheckTimerRuns == run = "on" /\ last.valid => checkTimer
=============================================================================
