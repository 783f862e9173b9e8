------------------------------ MODULE KeyStore ------------------------------
(***************************************************************************)
(* The file the console keeps its delegated signing key in, the plain file *)
(* an older version left, and the migration at every start.  Translated    *)
(* from desktop/src/core/services/encrypted-key-store.ts and its callers,  *)
(* license-runtime.ts (start) and key-admin.ts (import).                   *)
(*                                                                         *)
(* A file is modelled by the text it holds (encrypted or not), NoText when   *)
(* it does not exist.  save() is one synchronous call, but every file      *)
(* operation in it can fail and the process can die between any two of     *)
(* them, so each is an action.  Which keys may be imported is the business *)
(* of Catalog's ImportDelegatedKey.                                        *)
(***************************************************************************)
EXTENDS Integers

CONSTANTS
    Texts,     \* what a plain file may hold or an operator may import
    Damaged,   \* a temporary file whose text is not the one to be saved
    NoText       \* no file; no text

ASSUME TextsAssumption == Damaged \notin Texts /\ NoText \notin Texts /\ Damaged # NoText

VARIABLES
    plain,      \* delegated.key.pem, the older version's file
    encrypted,  \* delegated.key.enc
    temp,       \* the temporary file of the running save()
    available,  \* protector.available: can the system encrypt now
    phase,      \* where the running call stands
    caller,     \* who called save(): "import" or "migrate"
    wanted,     \* the text being saved
    imported    \* what the last delegated_key_import audited as a success stored

keyFiles == <<plain, encrypted>>
keyVars == <<plain, encrypted, temp, available, phase, caller, wanted, imported>>

SavePhases == {"off", "idle", "encrypt", "readback", "rename", "cleanup", "done"}

KeyTypeOK ==
    /\ plain \in Texts \union {NoText}
    /\ encrypted \in Texts \union {NoText}
    /\ temp \in Texts \union {Damaged, NoText}
    /\ available \in BOOLEAN
    /\ phase \in SavePhases
    /\ caller \in {"import", "migrate", "none"}
    /\ wanted \in Texts \union {NoText}
    /\ imported \in Texts \union {NoText}

\* A console that was just updated may have the plain file; it never has both.
StoreInit ==
    /\ plain \in Texts \union {NoText}
    /\ encrypted = NoText
    /\ temp = NoText
    /\ available \in BOOLEAN
    /\ phase = "off"
    /\ caller = "none"
    /\ wanted = NoText
    /\ imported = NoText

-----------------------------------------------------------------------------
\* save(text), called while starting or by an operator.

StartSave(who, text) ==
    /\ phase' = "encrypt"
    /\ caller' = who
    /\ wanted' = text

EndSave ==
    /\ phase' = "idle"
    /\ caller' = "none"
    /\ wanted' = NoText

\* A start: migrateLegacy() saves the plain file if it is there, can be read and the
\* system can encrypt; otherwise the start goes on without it.
StartMigrates ==
    /\ phase = "off"
    /\ plain # NoText /\ available
    /\ StartSave("migrate", plain)
    /\ UNCHANGED <<plain, encrypted, temp, available, imported>>

StartLeaves ==
    /\ phase = "off"
    /\ EndSave
    /\ UNCHANGED <<plain, encrypted, temp, available, imported>>

ImportDelegatedKey(text) ==
    /\ phase = "idle"
    /\ available
    /\ StartSave("import", text)
    /\ UNCHANGED <<plain, encrypted, temp, available, imported>>

\* Mutant of WriteTemp: the plain file is removed before the new one is in place.
WriteTempAfterCleanup ==
    /\ phase = "encrypt" /\ available
    /\ temp' = wanted
    /\ plain' \in {NoText, plain}
    /\ phase' = "readback"
    /\ UNCHANGED <<encrypted, available, caller, wanted, imported>>

\* The disk or the system's encryption may store something that does not read back.
WriteTemp ==
    /\ phase = "encrypt" /\ available
    /\ temp' \in {wanted, Damaged}
    /\ phase' = "readback"
    /\ UNCHANGED <<plain, encrypted, available, caller, wanted, imported>>

\* Mutant of ReadBack: the comparison is skipped.
ReadBackSkipped ==
    /\ phase = "readback"
    /\ phase' = "rename"
    /\ UNCHANGED <<plain, encrypted, temp, available, caller, wanted, imported>>

ReadBack ==
    /\ phase = "readback" /\ available
    /\ temp = wanted
    /\ phase' = "rename"
    /\ UNCHANGED <<plain, encrypted, temp, available, caller, wanted, imported>>

RenameTemp ==
    /\ phase = "rename"
    /\ encrypted' = temp
    /\ temp' = NoText
    /\ phase' = "cleanup"
    /\ UNCHANGED <<plain, available, caller, wanted, imported>>

\* Anything before the rename throws: the temporary file goes and the call is refused.
\* (A temporary file that cannot be removed has a random name and is never read.)
SaveFails ==
    /\ phase \in {"encrypt", "readback", "rename"}
    /\ temp' = NoText
    /\ EndSave
    /\ UNCHANGED <<plain, encrypted, available, imported>>

\* removeLegacy() swallows its own failure.
RemoveLegacy ==
    /\ phase = "cleanup"
    /\ plain' \in {NoText, plain}
    /\ phase' = "done"
    /\ UNCHANGED <<encrypted, temp, available, caller, wanted, imported>>

\* save() has replaced the key, but the audit entry of the import cannot be written: the
\* import is refused all the same, and the key stays replaced (key-admin.ts:120-131).
AuditFails ==
    /\ phase = "done" /\ caller = "import"
    /\ EndSave
    /\ UNCHANGED <<plain, encrypted, temp, available, imported>>

\* save() returns; an import is audited.
SaveReturns ==
    /\ phase = "done"
    /\ imported' = IF caller = "import" THEN wanted ELSE imported
    /\ EndSave
    /\ UNCHANGED <<plain, encrypted, temp, available>>

-----------------------------------------------------------------------------
\* The environment.

\* The process ends, wherever it is.
Crash ==
    /\ phase # "off"
    /\ temp' = NoText
    /\ phase' = "off" /\ caller' = "none" /\ wanted' = NoText
    /\ UNCHANGED <<plain, encrypted, available, imported>>

\* safeStorage.isEncryptionAvailable() is asked again every time.
ProtectionChanges ==
    /\ available' = ~available
    /\ UNCHANGED <<plain, encrypted, temp, phase, caller, wanted, imported>>

StoreNext ==
    \/ StartMigrates \/ StartLeaves
    \/ \E text \in Texts : ImportDelegatedKey(text)
    \/ WriteTemp \/ ReadBack \/ RenameTemp \/ SaveFails
    \/ RemoveLegacy \/ SaveReturns \/ AuditFails
    \/ Crash \/ ProtectionChanges

StoreSpec == StoreInit /\ [][StoreNext]_keyVars

\* load(): the key the console signs with, if any.
Loaded == IF available THEN encrypted ELSE NoText

-----------------------------------------------------------------------------
\* What the store promises.

\* Class comment: a save replaces the key as a whole, and the plain file goes only when
\* the encrypted one holds the text being saved.  Whatever fails and whenever the process
\* dies, a console that held a key in some file still holds that key or the one that
\* replaced it: the text of either file is only given up for the text of a save.
OldKeyGivenUpForNewOnly ==
    [][ \A text \in Texts :
          (text \in {plain, encrypted} /\ text \notin {plain', encrypted'})
             => wanted # NoText /\ encrypted' = wanted ]_keyVars

\* The encrypted file holds an imported or migrated text, never a half-written one, and
\* an import that was reported as a success is what the store holds when it is reported.
StoredAsReported ==
    [][ /\ encrypted' # encrypted => encrypted' = wanted
        /\ imported' # imported => encrypted' = imported' ]_keyVars

\* encrypted-key-store.ts:143 reports, when both files exist, that the plain key is no
\* longer in use: then only an import can change the key the console signs with.
PlainKeyNoLongerUsed ==
    [][ (encrypted # NoText /\ plain # NoText /\ encrypted' # encrypted)
          => caller = "import" ]_keyVars
=============================================================================
