-------------------------- MODULE ConsoleKeysProofs --------------------------
(***************************************************************************)
(* Theorems about the administrator's session, for any passwords, calls    *)
(* and policy; about the store of the private key, for any key texts; and  *)
(* about the console made of the two, which implements both, so what is    *)
(* proved of each part alone holds of it too.                              *)
(***************************************************************************)
EXTENDS ConsoleKeys, TLAPS

-----------------------------------------------------------------------------
(***************************************************************************)
(* The administrator's session (AdminSession).                             *)
(***************************************************************************)

\* The throttle on disk agrees with the guesses that were made: it has their number
\* and, from MaxFailures on, locks for Lockout after the last one.
Counted ==
    /\ throttle.failures = Len(wrong)
    /\ Len(wrong) >= MaxFailures => throttle.lockedUntil = wrong[Len(wrong)] + Lockout

IInv == TypeOK /\ Counted /\ ThrottleHolds

\* No password, no guesses.
LEMMA InitSafe == Init => IInv
<1> SUFFICES ASSUME Init PROVE IInv
  OBVIOUS
<1> USE PolicyAssumption DEF Init, NoFailures
<1>1. wrong = <<>> /\ wrong \in Seq(1..MaxClock) /\ Len(wrong) = 0
  OBVIOUS
<1>2. TypeOK
  <2>1. ~ unlocked /\ unlocked \in BOOLEAN
    OBVIOUS
  <2>2. ~ (lastActivity > 0)
    OBVIOUS
  <2> QED
    BY <1>1, <2>1, <2>2 DEF TypeOK
<1>3. Counted
  BY <1>1 DEF Counted
<1>4. ThrottleHolds
  BY <1>1 DEF ThrottleHolds
<1> QED
  BY <1>2, <1>3, <1>4 DEF IInv

\* Clearing the failures leaves a throttle that agrees with no guesses.
LEMMA ClearedAgrees == ASSUME ClearFailures PROVE Counted' /\ ThrottleHolds'
BY PolicyAssumption DEF ClearFailures, NoFailures, Counted, ThrottleHolds

\* Leaving throttle and guesses alone leaves them in agreement.
LEMMA KeptAgrees == ASSUME IInv, UNCHANGED guesses PROVE Counted' /\ ThrottleHolds'
BY DEF IInv, guesses, Counted, ThrottleHolds

\* The next wrong password comes after the lockout of the one before.
LEMMA GuessAgrees == ASSUME IInv, UnlockWrong PROVE Counted' /\ ThrottleHolds'
<1> DEFINE n == Len(wrong)
<1>1. wrong \in Seq(1..MaxClock) /\ clock \in 1..MaxClock /\ n \in Nat
  BY DEF IInv, TypeOK
<1>2. wrong' = Append(wrong, clock) /\ throttle.lockedUntil <= clock
  BY <1>1 DEF UnlockWrong, LockedOut, IInv, TypeOK
<1>3. /\ Len(wrong') = n + 1
      /\ \A i \in 1..n : wrong'[i] = wrong[i]
      /\ wrong'[n + 1] = clock
  BY <1>1, <1>2
<1>4. Counted'
  BY <1>1, <1>3, PolicyAssumption DEF UnlockWrong, RecordAdminFailure, IInv, Counted
<1>5. ASSUME NEW i \in (MaxFailures + 1)..(n + 1)
      PROVE  wrong'[i] >= wrong'[i - 1] + Lockout
  <2>1. CASE i = n + 1
    <3>1. throttle.lockedUntil = wrong[n] + Lockout /\ n \in 1..n
      BY <2>1, <1>1, PolicyAssumption DEF IInv, Counted
    <3> QED
      BY <2>1, <3>1, <1>1, <1>2, <1>3
  <2>2. CASE i # n + 1
    <3>1. i \in (MaxFailures + 1)..n /\ i \in 1..n /\ i - 1 \in 1..n
      BY <2>2, <1>1, PolicyAssumption
    <3> QED
      BY <3>1, <1>3 DEF IInv, ThrottleHolds
  <2> QED
    BY <2>1, <2>2
<1>6. ThrottleHolds'
  BY <1>3, <1>5 DEF ThrottleHolds
<1> QED
  BY <1>4, <1>6

\* A step that marks the session unlocked, or locks it, leaves it in order.
LEMMA UnlockedTyped ==
    ASSUME TypeOK, MarkUnlocked, credential' \in Passwords
    PROVE  /\ unlocked' \in BOOLEAN /\ lastActivity' \in 0..MaxClock
           /\ (unlocked' <=> lastActivity' > 0) /\ (unlocked' => credential' # None)
<1>1. unlocked'
  BY DEF MarkUnlocked
<1>2. unlocked' \in BOOLEAN
  BY DEF MarkUnlocked
<1>3. lastActivity' \in 0..MaxClock /\ lastActivity' > 0 /\ credential' # None
  BY PolicyAssumption DEF MarkUnlocked, TypeOK
<1> QED
  BY <1>1, <1>2, <1>3

LEMMA LockedTyped ==
    ASSUME unlocked' = FALSE, lastActivity' = 0
    PROVE  /\ unlocked' \in BOOLEAN /\ lastActivity' \in 0..MaxClock
           /\ (unlocked' <=> lastActivity' > 0) /\ (unlocked' => credential' # None)
<1>1. ~ unlocked' /\ unlocked' \in BOOLEAN
  OBVIOUS
<1>2. lastActivity' \in 0..MaxClock /\ ~ (lastActivity' > 0)
  BY PolicyAssumption
<1> QED
  BY <1>1, <1>2

\* A step that sets a password and leaves the session alone keeps it in order.
LEMMA KeptTyped ==
    ASSUME TypeOK, UNCHANGED session, credential' \in Passwords
    PROVE  /\ unlocked' \in BOOLEAN /\ lastActivity' \in 0..MaxClock
           /\ (unlocked' <=> lastActivity' > 0) /\ (unlocked' => credential' # None)
<1>1. unlocked' = unlocked /\ lastActivity' = lastActivity
  BY DEF session
<1>2. unlocked' \in BOOLEAN
  BY <1>1 DEF TypeOK
<1>3. lastActivity' \in 0..MaxClock /\ credential' # None
  BY <1>1, PolicyAssumption DEF TypeOK
<1>4. unlocked <=> lastActivity > 0
  BY DEF TypeOK
<1>5. unlocked' <=> lastActivity' > 0
  BY <1>1, <1>4, Zenon
<1> QED
  BY <1>2, <1>3, <1>5

LEMMA GuessesTyped ==
    ASSUME TypeOK, ClearFailures \/ UNCHANGED guesses
    PROVE  throttle' \in [failures : Nat, lockedUntil : Nat] /\ wrong' \in Seq(1..MaxClock)
<1>1. CASE ClearFailures
  <2>1. throttle' = [failures |-> 0, lockedUntil |-> 0] /\ wrong' = <<>>
    BY <1>1 DEF ClearFailures, NoFailures
  <2> QED
    BY <2>1
<1>2. CASE UNCHANGED guesses
  <2>1. throttle' = throttle /\ wrong' = wrong
    BY <1>2 DEF guesses
  <2> QED
    BY <2>1 DEF TypeOK
<1> QED
  BY <1>1, <1>2

\* Types are kept by every step.
LEMMA StepTyped == ASSUME IInv, [Next]_vars PROVE TypeOK'
<1> USE PolicyAssumption DEF IInv, TypeOK, guesses, session, MarkUnlocked, ClearFailures, NoFailures
<1>1. ASSUME NEW p \in Passwords, NEW done \in 1..3, Setup(p, done) PROVE TypeOK'
  <2>1. CASE done = 3
    BY <1>1, <2>1, UnlockedTyped DEF Setup
  <2>2. CASE done # 3
    <3> HIDE DEF IInv, TypeOK, guesses, session, MarkUnlocked, ClearFailures, NoFailures
    <3>1. /\ credential' \in Passwords /\ UNCHANGED session
          /\ ClearFailures \/ UNCHANGED guesses
          /\ running' = running /\ clock' = clock
      BY <1>1, <2>2 DEF Setup
    <3>2. TypeOK
      BY DEF IInv
    <3>3. running' \subseteq Calls /\ clock' \in 1..MaxClock
      BY <3>1, <3>2 DEF TypeOK
    <3> QED
      BY <3>1, <3>2, <3>3, KeptTyped, GuessesTyped DEF TypeOK
  <2> QED
    BY <2>1, <2>2
<1>2. ASSUME NEW p \in Passwords, UnlockRight(p) PROVE TypeOK'
  BY <1>2 DEF UnlockRight
<1>3. CASE UnlockWrong
  BY <1>3 DEF UnlockWrong, RecordAdminFailure
<1>4. CASE Lock \/ ExpireIfIdle
  BY <1>4, LockedTyped DEF Lock, ExpireIfIdle
<1>5. ASSUME NEW p \in Passwords, NEW new \in Passwords, NEW done \in 1..3,
             ChangePassword(p, new, done)
      PROVE  TypeOK'
  <2>1. CASE done = 3
    BY <1>5, <2>1, UnlockedTyped DEF ChangePassword
  <2>2. CASE done # 3
    <3> HIDE DEF IInv, TypeOK, guesses, session, MarkUnlocked, ClearFailures, NoFailures
    <3>1. /\ credential' \in Passwords /\ UNCHANGED session
          /\ ClearFailures \/ UNCHANGED guesses
          /\ running' = running /\ clock' = clock
      BY <1>5, <2>2 DEF ChangePassword
    <3>2. TypeOK
      BY DEF IInv
    <3>3. running' \subseteq Calls /\ clock' \in 1..MaxClock
      BY <3>1, <3>2 DEF TypeOK
    <3> QED
      BY <3>1, <3>2, <3>3, KeptTyped, GuessesTyped DEF TypeOK
  <2> QED
    BY <2>1, <2>2
<1>6. ASSUME NEW c \in Calls, BeginCall(c) \/ CallFails(c) PROVE TypeOK'
  BY <1>6 DEF BeginCall, CallFails
<1>7. ASSUME NEW c \in Calls, CallSucceeds(c) PROVE TypeOK'
  BY <1>7 DEF CallSucceeds, Touch
<1>8. CASE Restart
  BY <1>8, LockedTyped DEF Restart
<1>9. CASE Tick
  BY <1>9 DEF Tick
<1>10. CASE UNCHANGED vars
  BY <1>10 DEF vars
<1> QED
  BY <1>1, <1>2, <1>3, <1>4, <1>5, <1>6, <1>7, <1>8, <1>9, <1>10 DEF Next

\* A step makes a guess, clears the count or leaves both alone.
LEMMA GuessClearOrKeep ==
    ASSUME [Next]_vars PROVE UnlockWrong \/ ClearFailures \/ UNCHANGED guesses
BY DEF Next, vars, guesses, Setup, UnlockRight, Lock, ExpireIfIdle, ChangePassword, BeginCall,
   CallSucceeds, CallFails, Restart, Tick

LEMMA StepSafe == IInv /\ [Next]_vars => IInv'
<1> SUFFICES ASSUME IInv, [Next]_vars PROVE IInv'
  OBVIOUS
<1>1. TypeOK'
  BY StepTyped
<1>2. Counted' /\ ThrottleHolds'
  BY GuessClearOrKeep, GuessAgrees, ClearedAgrees, KeptAgrees
<1> QED
  BY <1>1, <1>2 DEF IInv

\* Types, and a locked session has no activity left to be extended from.
THEOREM TypeCorrect == Spec => []TypeOK
<1>1. IInv => TypeOK
  BY DEF IInv
<1> QED
  BY InitSafe, StepSafe, <1>1, PTL DEF Spec

\* The throttle bounds the guesses whatever is restarted, locked or unlocked.
THEOREM GuessesAreBounded == Spec => []ThrottleHolds
<1>1. IInv => ThrottleHolds
  BY DEF IInv
<1> QED
  BY InitSafe, StepSafe, <1>1, PTL DEF Spec

\* A step that unlocks is one that was given a password.
LEMMA StepUnlocksByPassword ==
    ASSUME [Next]_vars, ~ unlocked, unlocked'
    PROVE  \E p \in Passwords : Setup(p, 3) \/ UnlockRight(p)
<1>1. ASSUME NEW p \in Passwords, NEW done \in 1..3, Setup(p, done)
      PROVE  Setup(p, 3)
  <2>1. done = 3
    BY <1>1 DEF Setup, session
  <2> QED
    BY <1>1, <2>1
<1>2. ASSUME ~ (\E p \in Passwords, done \in 1..3 : Setup(p, done)),
             ~ (\E p \in Passwords : UnlockRight(p))
      PROVE  FALSE
  BY <1>2 DEF Next, vars, session, UnlockWrong, Lock, ExpireIfIdle, ChangePassword, Usable,
     BeginCall, CallSucceeds, Touch, CallFails, Restart, Tick
<1> QED
  BY <1>1, <1>2

\* Nothing but a password unlocks: no awaited call brings a locked session back.
THEOREM UnlockedByPasswordOnly == Spec => OnlyPasswordUnlocks
<1>1. [Next]_vars =>
        [~ unlocked /\ unlocked' => \E p \in Passwords : Setup(p, 3) \/ UnlockRight(p)]_vars
  BY StepUnlocksByPassword
<1> QED
  BY <1>1, PTL DEF Spec, OnlyPasswordUnlocks

-----------------------------------------------------------------------------
(***************************************************************************)
(* The store of the private key (KeyStore).                                *)
(***************************************************************************)

\* What a call in progress may rely on: it has a text to save; a temporary file that
\* passed the comparison holds it; once renamed, so does the encrypted file.
SaveInProgress ==
    /\ phase \notin {"off", "idle"} => wanted \in Texts
    /\ phase = "rename" => temp = wanted
    /\ phase \in {"cleanup", "done"} => encrypted = wanted

StoreInv == KeyTypeOK /\ SaveInProgress

\* Every start state is safe: no call is in progress.
LEMMA StoreInitSafe == StoreInit => StoreInv
BY DEF StoreInit, StoreInv, KeyTypeOK, SaveInProgress, SavePhases

\* Every step of the store, and every failure and crash, keeps what the running call
\* relies on.
LEMMA StoreStepSafe == StoreInv /\ [StoreNext]_keyVars => StoreInv'
<1> SUFFICES ASSUME StoreInv, [StoreNext]_keyVars PROVE StoreInv'
  OBVIOUS
<1> USE TextsAssumption DEF StoreInv, KeyTypeOK, SaveInProgress, SavePhases
<1>1. CASE StartMigrates
  BY <1>1 DEF StartMigrates, StartSave
<1>2. CASE StartLeaves
  BY <1>2 DEF StartLeaves, EndSave
<1>3. ASSUME NEW text \in Texts, ImportDelegatedKey(text) PROVE StoreInv'
  BY <1>3 DEF ImportDelegatedKey, StartSave
<1>4. CASE WriteTemp
  BY <1>4 DEF WriteTemp
<1>5. CASE ReadBack
  BY <1>5 DEF ReadBack
<1>6. CASE RenameTemp
  BY <1>6 DEF RenameTemp
<1>7. CASE SaveFails
  BY <1>7 DEF SaveFails, EndSave
<1>8. CASE RemoveLegacy
  BY <1>8 DEF RemoveLegacy
<1>9. CASE SaveReturns
  BY <1>9 DEF SaveReturns, EndSave
<1>10. CASE Crash
  BY <1>10 DEF Crash
<1>11. CASE ProtectionChanges
  BY <1>11 DEF ProtectionChanges
<1>12. CASE UNCHANGED keyVars
  BY <1>12 DEF keyVars
<1>13. CASE AuditFails
  BY <1>13 DEF AuditFails, EndSave
<1> QED
  BY <1>1, <1>2, <1>3, <1>4, <1>5, <1>6, <1>7, <1>8, <1>9, <1>10, <1>11, <1>12, <1>13
     DEF StoreNext

\* Files and variables hold what they are meant to hold.
THEOREM KeyTypeCorrect == StoreSpec => []KeyTypeOK
<1>1. StoreInv => KeyTypeOK
  BY DEF StoreInv
<1> QED
  BY StoreInitSafe, StoreStepSafe, <1>1, PTL DEF StoreSpec

\* One step never gives up the text of a file unless the encrypted file holds the text
\* that is being saved.
LEMMA StepKeepsKeys ==
    ASSUME StoreInv, [StoreNext]_keyVars, NEW text \in Texts,
           text \in {plain, encrypted}, text \notin {plain', encrypted'}
    PROVE  wanted # NoText /\ encrypted' = wanted
<1> USE TextsAssumption DEF StoreInv, KeyTypeOK, SaveInProgress, SavePhases
<1>1. CASE RenameTemp
  BY <1>1 DEF RenameTemp
<1>2. CASE RemoveLegacy
  BY <1>2 DEF RemoveLegacy
<1>3. CASE ~ RenameTemp /\ ~ RemoveLegacy
  <2>1. UNCHANGED <<plain, encrypted>>
    BY <1>3 DEF StoreNext, keyVars, StartMigrates, StartLeaves, ImportDelegatedKey, WriteTemp, ReadBack,
       SaveFails, SaveReturns, AuditFails, Crash, ProtectionChanges
  <2> QED
    BY <2>1
<1> QED
  BY <1>1, <1>2, <1>3

\* A key is only ever given up for the key that replaces it.
THEOREM KeysAreKept == StoreSpec => OldKeyGivenUpForNewOnly
<1>1. StoreInv /\ [StoreNext]_keyVars =>
        [\A text \in Texts :
            (text \in {plain, encrypted} /\ text \notin {plain', encrypted'})
               => wanted # NoText /\ encrypted' = wanted]_keyVars
  BY StepKeepsKeys
<1> QED
  BY StoreInitSafe, StoreStepSafe, <1>1, PTL DEF StoreSpec, OldKeyGivenUpForNewOnly

\* One step stores and reports the text being saved and nothing else.
LEMMA StepStoresAsReported ==
    ASSUME StoreInv, [StoreNext]_keyVars
    PROVE  /\ encrypted' # encrypted => encrypted' = wanted
           /\ imported' # imported => encrypted' = imported'
<1> USE TextsAssumption DEF StoreInv, KeyTypeOK, SaveInProgress, SavePhases
<1>1. CASE RenameTemp
  BY <1>1 DEF RenameTemp
<1>2. CASE SaveReturns
  BY <1>2 DEF SaveReturns
<1>3. CASE ~ RenameTemp /\ ~ SaveReturns
  <2>1. UNCHANGED <<encrypted, imported>>
    BY <1>3 DEF StoreNext, keyVars, StartMigrates, StartLeaves, ImportDelegatedKey, WriteTemp, ReadBack,
       SaveFails, AuditFails, RemoveLegacy, Crash, ProtectionChanges
  <2> QED
    BY <2>1
<1> QED
  BY <1>1, <1>2, <1>3

\* The encrypted file never holds anything but a text that was saved as a whole, and an
\* import reported as a success is what the store holds.
THEOREM ReportsAreTrue == StoreSpec => StoredAsReported
<1>1. StoreInv /\ [StoreNext]_keyVars =>
        [/\ encrypted' # encrypted => encrypted' = wanted
         /\ imported' # imported => encrypted' = imported']_keyVars
  BY StepStoresAsReported
<1> QED
  BY StoreInitSafe, StoreStepSafe, <1>1, PTL DEF StoreSpec, StoredAsReported

-----------------------------------------------------------------------------
(***************************************************************************)
(* Both in one process (ConsoleKeys).                                      *)
(***************************************************************************)

\* A step of the console is a step of its session, or leaves it alone.
LEMMA StepOfSession == ASSUME [KeysNext]_allVars PROVE [Next]_vars
<1> USE DEF allVars
<1>1. CASE SessionStep
  BY <1>1 DEF SessionStep, Next
<1>2. CASE StoreStep
  BY <1>2 DEF StoreStep
<1>3. ASSUME NEW text \in Texts, ImportKey(text) PROVE Next
  BY <1>3, KeyCallAssumption DEF ImportKey, Next
<1>4. CASE ImportReturns
  BY <1>4, KeyCallAssumption DEF ImportReturns, Next
<1>5. CASE ImportFails
  BY <1>5, KeyCallAssumption DEF ImportFails, Next
<1>6. CASE ProcessEnds
  BY <1>6 DEF ProcessEnds, Next
<1>7. CASE Outside
  BY <1>7 DEF Outside, Next
<1>8. CASE UNCHANGED allVars
  BY <1>8
<1> QED
  BY <1>1, <1>2, <1>3, <1>4, <1>5, <1>6, <1>7, <1>8 DEF KeysNext

\* Whatever the console does, its session does what AdminSession says.
THEOREM SessionIsImplemented == KeysSpec => Spec
BY StepOfSession, PTL DEF KeysSpec, KeysInit, Spec

\* A step of the console is a step of its key store, or leaves it alone.
LEMMA StepOfStore == ASSUME [KeysNext]_allVars PROVE [StoreNext]_keyVars
<1> USE DEF allVars, keyVars
<1>1. CASE SessionStep
  BY <1>1 DEF SessionStep
<1>2. CASE StoreStep
  BY <1>2 DEF StoreStep, StoreNext
<1>3. ASSUME NEW text \in Texts, ImportKey(text) PROVE StoreNext
  BY <1>3 DEF ImportKey, StoreNext
<1>4. CASE ImportReturns
  BY <1>4 DEF ImportReturns, StoreNext
<1>5. CASE ImportFails
  BY <1>5 DEF ImportFails, StoreNext
<1>6. CASE ProcessEnds
  BY <1>6 DEF ProcessEnds, StoreNext
<1>7. CASE Outside
  BY <1>7 DEF Outside, StoreNext
<1>8. CASE UNCHANGED allVars
  BY <1>8
<1> QED
  BY <1>1, <1>2, <1>3, <1>4, <1>5, <1>6, <1>7, <1>8 DEF KeysNext

\* Whatever the console does, its key store does what KeyStore says.
THEOREM StoreIsImplemented == KeysSpec => StoreSpec
BY StepOfStore, PTL DEF KeysSpec, KeysInit, StoreSpec

-----------------------------------------------------------------------------
\* Throttle, session, calls and files have their types in the console as a whole.
THEOREM ConsoleTypeCorrect == KeysSpec => []ConsoleTypeOK
BY SessionIsImplemented, StoreIsImplemented, TypeCorrect, KeyTypeCorrect, PTL DEF ConsoleTypeOK

\* The guesses of the administrator's password stay a lockout apart, whatever is saved.
THEOREM ConsoleGuessesAreBounded == KeysSpec => []ThrottleHolds
BY SessionIsImplemented, GuessesAreBounded, PTL

\* Nothing a save does, fails at or leaves behind unlocks the console.
THEOREM ConsoleUnlockedByPasswordOnly == KeysSpec => OnlyPasswordUnlocks
BY SessionIsImplemented, UnlockedByPasswordOnly, PTL

\* No key is lost but to the one that replaces it, whoever is logged in meanwhile.
THEOREM ConsoleKeysAreKept == KeysSpec => OldKeyGivenUpForNewOnly
BY StoreIsImplemented, KeysAreKept, PTL

\* What an import reports is what the store holds.
THEOREM ConsoleReportsAreTrue == KeysSpec => StoredAsReported
BY StoreIsImplemented, ReportsAreTrue, PTL

-----------------------------------------------------------------------------
\* Who may be saving: nobody while nothing is saved.
Tied ==
    /\ SaveHasItsCaller
    /\ caller \in {"import", "migrate", "none"}
    /\ caller = "none" <=> phase \in {"off", "idle"}

LEMMA InitTied == KeysInit => Tied
BY DEF KeysInit, Init, StoreInit, Tied, SaveHasItsCaller

\* Every step keeps a save with its caller: a session step has no save to disturb, a step
\* of a save leaves the session alone, and import begins and ends with its call.
LEMMA StepTied == ASSUME Tied, [KeysNext]_allVars PROVE Tied'
<1> USE DEF Tied, SaveHasItsCaller
<1>1. CASE SessionStep
  <2>1. phase = "idle" /\ UNCHANGED <<phase, caller>> /\ caller = "none"
    BY <1>1 DEF SessionStep, keyVars
  <2>2. KeyCall \notin running'
    BY <1>1, <2>1, KeyCallAssumption DEF SessionStep, Setup, UnlockRight, UnlockWrong, Lock,
       ExpireIfIdle, ChangePassword, BeginCall, CallSucceeds, CallFails
  <2> QED
    BY <2>1, <2>2
<1>2. CASE StoreStep
  <2>1. UNCHANGED <<unlocked, running>>
    BY <1>2 DEF StoreStep, vars
  <2>2. CASE caller = "migrate" /\ (SaveFails \/ SaveReturns)
    BY <2>1, <2>2 DEF SaveFails, SaveReturns, EndSave
  <2>3. CASE StartMigrates \/ StartLeaves
    BY <2>1, <2>3 DEF StartMigrates, StartLeaves, StartSave, EndSave
  <2>4. CASE \/ WriteTemp \/ ReadBack \/ RenameTemp \/ RemoveLegacy
    BY <2>1, <2>4 DEF WriteTemp, ReadBack, RenameTemp, RemoveLegacy
  <2> QED
    BY <1>2, <2>2, <2>3, <2>4 DEF StoreStep
<1>3. ASSUME NEW text \in Texts, ImportKey(text) PROVE Tied'
  BY <1>3 DEF ImportKey, BeginCall, Usable, session, ImportDelegatedKey, StartSave
<1>4. CASE ImportReturns
  BY <1>4 DEF ImportReturns, CallSucceeds, Touch, SaveReturns, EndSave
<1>5. CASE ImportFails
  BY <1>5 DEF ImportFails, CallFails, session, SaveFails, AuditFails, EndSave
<1>6. CASE ProcessEnds
  BY <1>6 DEF ProcessEnds, Restart, Crash
<1>7. CASE Outside
  BY <1>7 DEF Outside, Tick, session, keyVars, vars, ProtectionChanges
<1>8. CASE UNCHANGED allVars
  BY <1>8 DEF allVars, keyVars, vars
<1> QED
  BY <1>1, <1>2, <1>3, <1>4, <1>5, <1>6, <1>7, <1>8 DEF KeysNext

\* A save is the migration of a start or runs inside the one import the guard let through.
THEOREM SavesHaveTheirCaller == KeysSpec => []SaveHasItsCaller
<1>1. Tied => SaveHasItsCaller
  BY DEF Tied
<1> QED
  BY InitTied, StepTied, <1>1, PTL DEF KeysSpec

\* The key in force changes at the end of a save only, which has its caller.
LEMMA StepChangesKey ==
    ASSUME Tied, [KeysNext]_allVars, encrypted' # encrypted
    PROVE  \/ caller = "import" /\ unlocked /\ KeyCall \in running
           \/ caller = "migrate" /\ ~ unlocked /\ running = {}
<1>1. RenameTemp
  <2>1. CASE KeysNext
    BY <2>1 DEF KeysNext, SessionStep, StoreStep, ImportKey, ImportReturns, ImportFails,
       ProcessEnds, Outside, keyVars, StartMigrates, StartLeaves,
       ImportDelegatedKey, WriteTemp, ReadBack, RemoveLegacy,
       SaveFails, SaveReturns, AuditFails, Crash, ProtectionChanges
  <2>2. CASE UNCHANGED allVars
    BY <2>2 DEF allVars, keyVars
  <2> QED
    BY <2>1, <2>2
<1>2. caller \in {"import", "migrate"}
  BY <1>1 DEF Tied, RenameTemp
<1> QED
  BY <1>2 DEF Tied, SaveHasItsCaller

\* Only an import whose administrator is logged in and waits for it, or the migration of a
\* start, changes the key.
THEOREM KeyIsAdministrated == KeysSpec => KeyChangedByAdministrator
<1>1. Tied /\ [KeysNext]_allVars
        => [encrypted' # encrypted =>
              \/ caller = "import" /\ unlocked /\ KeyCall \in running
              \/ caller = "migrate" /\ ~ unlocked /\ running = {}]_allVars
  BY StepChangesKey
<1> QED
  BY InitTied, StepTied, <1>1, PTL DEF KeysSpec, KeyChangedByAdministrator
=============================================================================
