-------------------------- MODULE GameClientProofs --------------------------
(***************************************************************************)
(* Proofs about the guard of a game: it is held back just while it has no  *)
(* valid license, and renewal stays armed, for any licenses and clocks.    *)
(***************************************************************************)
EXTENDS GameClient, TLAPS

-----------------------------------------------------------------------------
\* What the guard promises of its own variables.
Guarded == WaitsUnlessLicensed /\ RenewalTimerRuns

LEMMA InitGuarded == Init => Guarded
BY DEF Init, Guarded, WaitsUnlessLicensed, RenewalTimerRuns, NoResult

\* Nothing but the guard's handlers touches its variables.
LEMMA GuardUntouched ==
    ASSUME Guarded, UNCHANGED guardVars
    PROVE  Guarded'
BY DEF Guarded, WaitsUnlessLicensed, RenewalTimerRuns, guardVars

\* A handler that takes note of a result waits just when it is not valid, and arms renewal
\* when it is due.
LEMMA ResultNoted ==
    ASSUME NEW n,
           IF last'.valid THEN waiting' = FALSE /\ MaybePull(last', n) ELSE EnterWait(n)
    PROVE  Guarded'
<1>1. CASE last'.valid
  <2>1. ~ waiting' /\ MaybePull(last', n)
    BY <1>1
  <2>2. last'.due => pullTimer'
    BY <2>1 DEF MaybePull
  <2> QED
    BY <1>1, <2>1, <2>2 DEF Guarded, WaitsUnlessLicensed, RenewalTimerRuns
<1>2. CASE ~ last'.valid
  <2>1. waiting'
    BY <1>2 DEF EnterWait
  <2> QED
    BY <1>2, <2>1 DEF Guarded, WaitsUnlessLicensed, RenewalTimerRuns
<1> QED
  BY <1>1, <1>2

LEMMA UpdatedNoted == ASSUME LicenseUpdated PROVE Guarded'
<1>1. CASE last'.valid
  <2>1. /\ ~ waiting'
        /\ IF last'.due THEN MaybePull(last', Idle) ELSE pullTimer' = FALSE /\ net' = Idle
    BY <1>1 DEF LicenseUpdated
  <2>2. last'.due => pullTimer'
    BY <2>1 DEF MaybePull
  <2> QED
    BY <1>1, <2>1, <2>2 DEF Guarded, WaitsUnlessLicensed, RenewalTimerRuns
<1>2. CASE ~ last'.valid
  <2>1. waiting'
    BY <1>2 DEF LicenseUpdated, EnterWait
  <2> QED
    BY <1>2, <2>1 DEF Guarded, WaitsUnlessLicensed, RenewalTimerRuns
<1> QED
  BY <1>1, <1>2

\* A game that is quitting or off promises nothing.
LEMMA NotOn == ASSUME run' # "on" PROVE Guarded'
BY DEF Guarded, WaitsUnlessLicensed, RenewalTimerRuns

LEMMA StepGuarded == Guarded /\ [Next]_vars => Guarded'
<1> SUFFICES ASSUME Guarded, [Next]_vars PROVE Guarded'
  OBVIOUS
<1>1. CASE Ready
  BY <1>1, ResultNoted DEF Ready
<1>2. CASE FocusIn \/ CheckTimeout
  BY <1>2, ResultNoted DEF FocusIn, CheckTimeout, Check
<1>3. CASE PullTick \/ WaitPullTick
  BY <1>3, GuardUntouched DEF PullTick, WaitPullTick
<1>4. CASE WaitOver \/ Quit \/ Crash
  BY <1>4, NotOn DEF WaitOver, Quit, Crash, ProcessEnds
<1>5. CASE NetStep
  BY <1>5, GuardUntouched
     DEF NetStep, NetEnds, Connected, ConnectFails, Discovered, Abort, NothingNew, NewLicense,
         guardVars
<1>6. CASE InstallStep
  BY <1>6, GuardUntouched, UpdatedNoted
     DEF InstallStep, WriteTemp, RenameTemp, RemoveTarget, RenameAgain, GoOn, InstallFails
<1>7. CASE Environment
  BY <1>7, GuardUntouched DEF Environment
<1>8. CASE UNCHANGED vars
  BY <1>8, GuardUntouched DEF vars
<1> QED
  BY <1>1, <1>2, <1>3, <1>4, <1>5, <1>6, <1>7, <1>8 DEF Next

LEMMA AlwaysGuarded == Spec => []Guarded
BY InitGuarded, StepGuarded, PTL DEF Spec

-----------------------------------------------------------------------------
(***************************************************************************)
(* Types.                                                                  *)
(***************************************************************************)

\* While the game is off no pull and no installation is under way.
OffIsIdle == run = "off" => net = Idle /\ install = NoInstall

LEMMA IdleTyped == Idle \in Nets /\ NoResult \in Results
BY DEF Idle, Nets, NoResult, Results, NoExpiry

\* A pull, new or in progress, is one.
LEMMA PullTyped ==
    ASSUME NEW n \in Nets, NEW expire \in Nat, NEW left \in 0..1
    PROVE  RequestPull(n, expire) \subseteq Nets /\ NextCandidate(left, expire) \subseteq Nets
<1>2. Idle \in Nets
  BY IdleTyped
<1>1. ASSUME NEW k \in 0..2 PROVE NextCandidate(k, expire) \subseteq Nets
  <2>1. \A m \in 0..(k - 1) : m \in 0..1
    OBVIOUS
  <2>2. \A m \in 0..1 :
          [state |-> "connecting", left |-> m, discovered |-> FALSE, current |-> expire] \in Nets
    BY DEF Nets
  <2>3. [state |-> "discovering", left |-> 0, discovered |-> FALSE, current |-> expire] \in Nets
    BY DEF Nets
  <2> QED
    BY <1>2, <2>1, <2>2, <2>3, Zenon DEF NextCandidate
<1> QED
  BY <1>1, <1>2 DEF RequestPull

\* What a verification returns and what it leaves in the clock record.
LEMMA ResultTyped ==
    ASSUME LicenseTypeOK, UpdateRecord(file)
    PROVE  Result(file) \in Results /\ record' \in 0..MaxClock
<1>1. Valid(file) \in BOOLEAN /\ Due(file) \in BOOLEAN
  BY DEF Valid, Fits, Readable, ClockOK, Due
<1>2. Readable(file) => Terms[file].expires \in Nat
  BY TermsAssumption DEF Readable
<1>3. record' \in 0..MaxClock
  BY BoundsAssumption DEF LicenseTypeOK, UpdateRecord
<1> QED
  BY <1>1, <1>2, <1>3 DEF Result, Results, NoExpiry

\* What a handler that took note of a result leaves.
LEMMA NotedTyped ==
    ASSUME TypeOK, NEW n \in Nets, last' \in Results,
           IF last'.valid THEN waiting' = FALSE /\ MaybePull(last', n) ELSE EnterWait(n)
    PROVE  waiting' \in BOOLEAN /\ pullTimer' \in BOOLEAN /\ net' \in Nets
<1>1. last'.expire \in Nat /\ NoExpiry \in Nat /\ pullTimer \in BOOLEAN
  BY DEF Results, NoExpiry, TypeOK
<1>2. CASE last'.valid
  <2>1. waiting' = FALSE /\ MaybePull(last', n)
    BY <1>2
  <2>2. CASE last'.due
    <3>1. pullTimer' = TRUE /\ net' \in RequestPull(n, last'.expire)
      BY <2>1, <2>2 DEF MaybePull
    <3>2. RequestPull(n, last'.expire) \subseteq Nets
      BY <1>1, PullTyped, 0 \in 0..1
    <3> QED
      BY <2>1, <3>1, <3>2
  <2>3. CASE ~ last'.due
    <3>1. pullTimer' = pullTimer /\ net' = n
      BY <2>1, <2>3 DEF MaybePull
    <3> QED
      BY <1>1, <2>1, <3>1
  <2> QED
    BY <2>2, <2>3
<1>3. CASE ~ last'.valid
  BY <1>1, <1>3, PullTyped DEF EnterWait
<1> QED
  BY <1>2, <1>3

\* A step of the network client leaves the license and the guard as they are.
LEMMA PullStepTyped ==
    ASSUME TypeOK, Free, net' \in Nets, UNCHANGED install,
           cached' \in BOOLEAN, UNCHANGED <<licenseVars, guardVars>>
    PROVE  TypeOK'
BY DEF TypeOK, LicenseTypeOK, licenseVars, guardVars, Free

LEMMA NetStepTyped == ASSUME TypeOK, NetStep PROVE TypeOK'
<1>0. Idle \in Nets /\ net \in Nets /\ cached \in BOOLEAN
  BY IdleTyped DEF TypeOK
<1>1. CASE Connected \/ Discovered
  <2>1. /\ \/ net' = [net EXCEPT !.state = "reply"]
           \/ net' = [net EXCEPT !.state = "connecting", !.discovered = TRUE]
        /\ Free /\ UNCHANGED <<licenseVars, guardVars, cached, install>>
    BY <1>1 DEF Connected, Discovered
  <2>2. net' \in Nets
    BY <1>0, <2>1 DEF Nets
  <2> QED
    BY <1>0, <2>1, <2>2, PullStepTyped
<1>2. CASE ConnectFails
  <2>1. net.left \in 0..1 /\ net.current \in Nat
    BY <1>0 DEF Nets
  <2>2. NextCandidate(net.left, net.current) \subseteq Nets
    BY <1>0, <2>1, PullTyped
  <2>3. net' \in Nets
    BY <1>0, <1>2, <2>2 DEF ConnectFails
  <2> QED
    BY <1>0, <1>2, <2>3, PullStepTyped DEF ConnectFails
<1>3. CASE Abort
  BY <1>0, <1>3, PullStepTyped DEF Abort, NetEnds
<1>4. CASE NothingNew
  BY <1>0, <1>4, PullStepTyped DEF NothingNew
<1>5. ASSUME NEW l \in Licenses, NewLicense(l) PROVE TypeOK'
  <2>1. /\ net.state = "reply" /\ cached' = TRUE
        /\ install' = [step |-> "write", content |-> l]
        /\ UNCHANGED <<licenseVars, guardVars, net>>
    BY <1>5 DEF NewLicense
  <2>2. install' \in [step : Steps, content : Contents]
    BY <2>1 DEF Steps, Contents
  <2> QED
    BY <2>1, <2>2 DEF TypeOK, LicenseTypeOK, licenseVars, guardVars
<1> QED
  BY <1>1, <1>2, <1>3, <1>4, <1>5 DEF NetStep

\* A file operation leaves the guard alone and some contents in the file.
LEMMA FileStepTyped ==
    ASSUME TypeOK, install.step # "none", file' \in Contents,
           \/ InstallFails
           \/ \E step \in Steps, content \in Contents : GoOn(step, content)
    PROVE  TypeOK'
<1>1. net.state = "reply" /\ cached
  BY DEF TypeOK
<1>2. UNCHANGED <<clock, record, guardVars, cached>>
  BY DEF InstallFails, GoOn
<1>3. /\ install' \in [step : Steps, content : Contents]
      /\ net' \in Nets
      /\ install'.step # "none" => net'.state = "reply"
  <2>1. CASE InstallFails
    <3>1. install' = NoInstall /\ net' = Idle
      BY <2>1 DEF InstallFails
    <3>2. Idle \in Nets
      BY IdleTyped DEF TypeOK
    <3> QED
      BY <3>1, <3>2 DEF NoInstall, Steps, Contents
  <2>2. ASSUME NEW step \in Steps, NEW content \in Contents, GoOn(step, content)
        PROVE  /\ install' \in [step : Steps, content : Contents]
               /\ net' \in Nets
               /\ install'.step # "none" => net'.state = "reply"
    BY <1>1, <2>2 DEF GoOn, TypeOK
  <2> QED
    BY <2>1, <2>2
<1> QED
  BY <1>1, <1>2, <1>3 DEF TypeOK, LicenseTypeOK, guardVars

LEMMA InstallStepTyped == ASSUME TypeOK, InstallStep PROVE TypeOK'
<1>0. install.content \in Contents /\ file \in Contents /\ NoLicense \in Contents
      /\ Broken \in Contents
  BY DEF TypeOK, LicenseTypeOK, Contents
<1>1. CASE WriteTemp
  <2>1. /\ install.step # "none" /\ file' \in Contents
        /\ InstallFails \/ \E c \in {install.content, Broken} : GoOn("rename", c)
    BY <1>0, <1>1 DEF WriteTemp
  <2>2. InstallFails \/ \E step \in Steps, content \in Contents : GoOn(step, content)
    BY <1>0, <2>1 DEF Steps
  <2> QED
    BY <2>1, <2>2, FileStepTyped
<1>2. CASE RenameTemp
  <2>1. /\ install.step # "none" /\ file' \in Contents
        /\ InstallFails \/ GoOn("evaluate", NoLicense) \/ GoOn("remove", install.content)
    BY <1>0, <1>2 DEF RenameTemp
  <2>2. InstallFails \/ \E step \in Steps, content \in Contents : GoOn(step, content)
    BY <1>0, <2>1 DEF Steps
  <2> QED
    BY <2>1, <2>2, FileStepTyped
<1>3. CASE RemoveTarget \/ RenameAgain
  <2>1. /\ install.step # "none" /\ file' \in Contents
        /\ InstallFails \/ GoOn("evaluate", NoLicense) \/ GoOn("again", install.content)
    BY <1>0, <1>3 DEF RemoveTarget, RenameAgain
  <2>2. InstallFails \/ \E step \in Steps, content \in Contents : GoOn(step, content)
    BY <1>0, <2>1 DEF Steps
  <2> QED
    BY <2>1, <2>2, FileStepTyped
<1>4. CASE LicenseUpdated
  <2>1. last' \in Results /\ record' \in 0..MaxClock
    BY <1>4, ResultTyped DEF LicenseUpdated, TypeOK
  <2>2. Idle \in Nets
    BY IdleTyped
  <2>3. waiting' \in BOOLEAN /\ pullTimer' \in BOOLEAN /\ net' \in Nets /\ checkTimer' \in BOOLEAN
    <3>1. CASE IF last'.valid THEN waiting' = FALSE /\ MaybePull(last', Idle) ELSE EnterWait(Idle)
      BY <1>4, <2>1, <2>2, <3>1, NotedTyped DEF LicenseUpdated, TypeOK
    <3>2. CASE last'.valid /\ ~ last'.due
      BY <1>4, <2>2, <3>2 DEF LicenseUpdated
    <3>3. last'.valid /\ last'.due
            => (IF last'.valid THEN waiting' = FALSE /\ MaybePull(last', Idle) ELSE EnterWait(Idle))
      BY <1>4 DEF LicenseUpdated
    <3>4. ~ last'.valid
            => (IF last'.valid THEN waiting' = FALSE /\ MaybePull(last', Idle) ELSE EnterWait(Idle))
      BY <1>4 DEF LicenseUpdated
    <3> QED
      BY <3>1, <3>2, <3>3, <3>4
  <2>4. install' = NoInstall /\ UNCHANGED <<file, clock, run, cached>>
    BY <1>4 DEF LicenseUpdated
  <2>5. install' \in [step : Steps, content : Contents] /\ install'.step = "none"
    BY <2>4 DEF NoInstall, Steps, Contents
  <2> QED
    BY <2>1, <2>3, <2>4, <2>5 DEF TypeOK, LicenseTypeOK
<1> QED
  BY <1>1, <1>2, <1>3, <1>4 DEF InstallStep

\* The guard's handlers that verify the license.
LEMMA VerifyTyped == ASSUME TypeOK, OffIsIdle, Ready \/ Check PROVE TypeOK'
<1> DEFINE n == IF run = "on" THEN net ELSE Idle
<1>1. UpdateRecord(file) /\ last' = Result(file) /\ UNCHANGED <<file, clock, cached, install>>
  BY DEF Ready, Check
<1>2. last' \in Results /\ record' \in 0..MaxClock
  BY <1>1, ResultTyped DEF TypeOK
<1>3. n \in Nets
  BY IdleTyped DEF TypeOK
<1>4. IF last'.valid THEN waiting' = FALSE /\ MaybePull(last', n) ELSE EnterWait(n)
  BY DEF Ready, Check
<1>5. waiting' \in BOOLEAN /\ pullTimer' \in BOOLEAN /\ net' \in Nets
  BY <1>2, <1>3, <1>4, NotedTyped
<1>6. last'.valid \in BOOLEAN
  BY <1>2 DEF Results
<1>7. run' \in {"off", "on", "quitting"} /\ checkTimer' \in BOOLEAN
  BY <1>6 DEF Ready, Check, TypeOK
<1>8. install'.step = "none" /\ install' \in [step : Steps, content : Contents]
  BY DEF Ready, Check, Free, TypeOK, OffIsIdle, NoInstall
<1> QED
  BY <1>1, <1>2, <1>5, <1>7, <1>8 DEF TypeOK, LicenseTypeOK

LEMMA StepTyped == TypeOK /\ OffIsIdle /\ [Next]_vars => TypeOK'
<1> SUFFICES ASSUME TypeOK, OffIsIdle, [Next]_vars PROVE TypeOK'
  OBVIOUS
<1>1. CASE Ready \/ FocusIn \/ CheckTimeout
  BY <1>1, VerifyTyped DEF FocusIn, CheckTimeout
<1>2. CASE PullTick \/ WaitPullTick
  <2>1. last.expire \in Nat /\ NoExpiry \in Nat /\ net \in Nets /\ cached \in BOOLEAN
    BY DEF TypeOK, Results, NoExpiry
  <2>2. RequestPull(net, last.expire) \subseteq Nets /\ RequestPull(net, NoExpiry) \subseteq Nets
    BY <2>1, PullTyped, 0 \in 0..1
  <2>3. net' \in Nets
    BY <1>2, <2>2 DEF PullTick, WaitPullTick
  <2> QED
    BY <1>2, <2>1, <2>3, PullStepTyped DEF PullTick, WaitPullTick
<1>3. CASE WaitOver
  BY <1>3 DEF WaitOver, TypeOK, LicenseTypeOK, licenseVars
<1>4. CASE Quit \/ Crash
  <2>1. ProcessEnds
    BY <1>4 DEF Quit, Crash
  <2>2. Idle \in Nets /\ NoResult \in Results
    BY IdleTyped
  <2> QED
    BY <2>1, <2>2 DEF ProcessEnds, TypeOK, LicenseTypeOK, licenseVars, NoInstall, Steps, Contents
<1>5. CASE NetStep
  BY <1>5, NetStepTyped
<1>6. CASE InstallStep
  BY <1>6, InstallStepTyped
<1>7. CASE Environment
  BY <1>7, BoundsAssumption
     DEF Environment, UserPutsFile, ResetRecord, ClockChanges, TypeOK, LicenseTypeOK, guardVars
<1>8. CASE UNCHANGED vars
  BY <1>8 DEF vars, TypeOK, LicenseTypeOK, licenseVars, guardVars
<1> QED
  BY <1>1, <1>2, <1>3, <1>4, <1>5, <1>6, <1>7, <1>8 DEF Next

\* When the game ends the pull and the installation end with it; off, neither begins.
LEMMA StepOff == OffIsIdle /\ [Next]_vars => OffIsIdle'
<1> SUFFICES ASSUME OffIsIdle, [Next]_vars, run' = "off" PROVE (net = Idle /\ install = NoInstall)'
  BY DEF OffIsIdle
<1>1. CASE Ready \/ FocusIn \/ CheckTimeout
  BY <1>1 DEF Ready, FocusIn, CheckTimeout, Check
<1>2. CASE PullTick \/ WaitPullTick \/ WaitOver
  BY <1>2 DEF PullTick, WaitPullTick, WaitOver, guardVars
<1>3. CASE Quit \/ Crash
  BY <1>3 DEF Quit, Crash, ProcessEnds
<1>4. CASE NetStep
  <2>1. net.state # "idle" \/ net # Idle
    BY <1>4 DEF NetStep, Connected, ConnectFails, Discovered, Abort, NothingNew, NewLicense
  <2>2. net # Idle
    BY <2>1 DEF Idle
  <2>3. run' = run
    BY <1>4 DEF NetStep, NetEnds, Connected, ConnectFails, Discovered, Abort, NothingNew,
       NewLicense, guardVars
  <2> QED
    BY <2>2, <2>3 DEF OffIsIdle
<1>5. CASE InstallStep
  <2>1. install.step # "none"
    BY <1>5 DEF InstallStep, WriteTemp, RenameTemp, RemoveTarget, RenameAgain, LicenseUpdated
  <2>2. run' = run
    BY <1>5 DEF InstallStep, WriteTemp, RenameTemp, RemoveTarget, RenameAgain, LicenseUpdated,
       GoOn, InstallFails, guardVars
  <2> QED
    BY <2>1, <2>2 DEF OffIsIdle, NoInstall
<1>6. CASE Environment \/ UNCHANGED vars
  BY <1>6 DEF Environment, vars, guardVars, OffIsIdle
<1> QED
  BY <1>1, <1>2, <1>3, <1>4, <1>5, <1>6 DEF Next

\* Every variable stays inside its type; a license is only put in place while its pull waits
\* for it.
THEOREM TypeCorrect == Spec => []TypeOK
<1>1. ASSUME Init PROVE TypeOK
  <2>1. LicenseTypeOK
    BY <1>1, BoundsAssumption DEF Init, LicenseTypeOK
  <2>2. install \in [step : Steps, content : Contents] /\ install.step = "none"
    BY <1>1 DEF Init, NoInstall, Steps, Contents
  <2>3. last \in Results /\ net \in Nets
    BY <1>1, IdleTyped DEF Init
  <2>4. run = "off" /\ {waiting, checkTimer, pullTimer, cached} \subseteq BOOLEAN
    BY <1>1 DEF Init
  <2> QED
    BY <2>1, <2>2, <2>3, <2>4 DEF TypeOK
<1>2. Init => OffIsIdle
  BY DEF Init, OffIsIdle
<1> QED
  BY <1>1, <1>2, StepTyped, StepOff, PTL DEF Spec

-----------------------------------------------------------------------------
\* A running game is held back exactly while its last verification failed, whatever
\* answers, timers, files and clocks come in which order (aegis.gd).
THEOREM HeldBackUnlessLicensed == Spec => []WaitsUnlessLicensed
<1>1. Guarded => WaitsUnlessLicensed
  BY DEF Guarded
<1> QED
  BY <1>1, AlwaysGuarded, PTL

\* A license that is about to run out never leaves the game without the timer that asks
\* for the next one (aegis.gd _maybe_pull, _on_license_updated).
THEOREM RenewalStaysArmed == Spec => []RenewalTimerRuns
<1>1. Guarded => RenewalTimerRuns
  BY DEF Guarded
<1> QED
  BY <1>1, AlwaysGuarded, PTL
=============================================================================
