---------------------------- MODULE ConsoleKeys ----------------------------
(***************************************************************************)
(* The delegated key behind the administrator's session: AdminSession and  *)
(* KeyStore in one process.  A start migrates the key of an older version  *)
(* before there is a session (license-runtime.ts, main/index.ts); after    *)
(* that a key is only imported by a sensitive call (license:importKey).    *)
(*                                                                         *)
(* save() is synchronous: while it runs nothing else of the process does,  *)
(* no lock and no other call.  The clock goes on, the system's encryption  *)
(* may come and go, and the process may end.                               *)
(***************************************************************************)
EXTENDS AdminSession, KeyStore

CONSTANT KeyCall     \* the sensitive call that imports a key

ASSUME KeyCallAssumption == KeyCall \in Calls

allVars == <<vars, keyVars>>

KeysInit == Init /\ StoreInit

-----------------------------------------------------------------------------
\* Mutant of SessionStep: the console may be locked while a key is being saved.
SessionStepAnytime ==
    /\ phase # "off"
    /\ \/ \E p \in Passwords : Setup(p, 3) \/ UnlockRight(p)
       \/ Lock
       \/ \E c \in Calls \ {KeyCall} : BeginCall(c) \/ CallSucceeds(c) \/ CallFails(c)
    /\ UNCHANGED keyVars

\* A step of the session, between two calls of the store.
SessionStep ==
    /\ phase = "idle"
    /\ \/ \E p \in Passwords, done \in 1..3 : Setup(p, done)
       \/ \E p \in Passwords : UnlockRight(p)
       \/ UnlockWrong
       \/ Lock
       \/ ExpireIfIdle
       \/ \E p, new \in Passwords, done \in 1..3 : ChangePassword(p, new, done)
       \/ \E c \in Calls \ {KeyCall} : BeginCall(c) \/ CallSucceeds(c) \/ CallFails(c)
    /\ UNCHANGED keyVars

\* The start, and the steps inside save().
StoreStep ==
    /\ \/ StartMigrates \/ StartLeaves
       \/ WriteTemp \/ ReadBack \/ RenameTemp \/ RemoveLegacy
       \/ caller = "migrate" /\ (SaveFails \/ SaveReturns)
    /\ UNCHANGED vars

ImportKey(text) == BeginCall(KeyCall) /\ ImportDelegatedKey(text)

ImportReturns == caller = "import" /\ SaveReturns /\ CallSucceeds(KeyCall)

\* An import that is refused has replaced the key or not.
ImportFails == caller = "import" /\ (SaveFails \/ AuditFails) /\ CallFails(KeyCall)

ProcessEnds == Crash /\ Restart

Outside ==
    \/ Tick /\ UNCHANGED keyVars
    \/ ProtectionChanges /\ UNCHANGED vars

KeysNext ==
    \/ SessionStep \/ StoreStep
    \/ \E text \in Texts : ImportKey(text)
    \/ ImportReturns \/ ImportFails
    \/ ProcessEnds \/ Outside

KeysSpec == KeysInit /\ [][KeysNext]_allVars

-----------------------------------------------------------------------------
\* A save is the migration of a start, when nobody can be logged in, or runs inside the
\* one import that the guard let through: its session is still unlocked, however long the
\* save takes, and its call is the one awaited.
SaveHasItsCaller ==
    /\ (phase = "off" \/ caller = "migrate") => ~ unlocked /\ running = {}
    /\ caller = "import" => unlocked
    /\ caller = "import" <=> KeyCall \in running

\* The types of both parts.
ConsoleTypeOK == TypeOK /\ KeyTypeOK

\* The key the console signs with changes inside an import whose administrator is still
\* logged in and still waits for it, whatever the clock, the system's encryption and other
\* calls do meanwhile, or in the migration of a start, before anybody can log in.  (That a
\* refused import leaves the key alone is not so: AuditFails.)
KeyChangedByAdministrator ==
    [][ encrypted' # encrypted =>
          \/ caller = "import" /\ unlocked /\ KeyCall \in running
          \/ caller = "migrate" /\ ~ unlocked /\ running = {} ]_allVars
=============================================================================
