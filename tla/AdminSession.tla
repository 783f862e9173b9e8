---------------------------- MODULE AdminSession ----------------------------
(***************************************************************************)
(* The administrator of the console: the password and the throttle on disk *)
(* (admin-credential.ts), the session in memory (admin-session.ts) and the *)
(* wrapper every sensitive IPC call runs in, which checks the session,     *)
(* awaits the handler and extends the session when it succeeded            *)
(* (main/ipc/license.ts, hub.ts).                                          *)
(*                                                                         *)
(* A method of the session is synchronous.  Writing to the database may    *)
(* fail, or the process may end, after any of its statements: done says    *)
(* how many had their effect.  The audit log is left out but for the       *)
(* places where failing to write it stops a method.  A call that is        *)
(* refused and changes nothing has no step.                                *)
(***************************************************************************)
EXTENDS Integers, Sequences

CONSTANTS
    Passwords,     \* passwords the policy accepts
    None,          \* no password has been set
    Calls,         \* sensitive calls that may be awaited at the same time
    MaxFailures,   \* DEFAULT_MAX_FAILURES
    Lockout,       \* DEFAULT_LOCKOUT_MS
    IdleTimeout,   \* DEFAULT_IDLE_TIMEOUT_MS
    MaxClock,      \* bound of the clock
    MaxGuesses     \* bound of the failures counted

ASSUME PolicyAssumption ==
    /\ MaxFailures \in Nat \ {0} /\ Lockout \in Nat \ {0} /\ IdleTimeout \in Nat \ {0}
    /\ MaxClock \in Nat \ {0} /\ MaxGuesses \in Nat
    /\ None \notin Passwords

VARIABLES
    credential,    \* app_settings admin.credential
    throttle,      \* app_settings admin.throttle; lockedUntil is 0 for null
    unlocked,      \* the session: unlocked
    lastActivity,  \* the session: lastActivityAt, 0 for none
    running,       \* calls whose handler is awaited
    clock,
    wrong          \* history: when wrong passwords were recorded since the last clearing

vars == <<credential, throttle, unlocked, lastActivity, running, clock, wrong>>
session == <<unlocked, lastActivity>>
guesses == <<throttle, wrong>>

NoFailures == [failures |-> 0, lockedUntil |-> 0]

\* A locked session has no activity left that unlocking or extending could go by.
TypeOK ==
    /\ credential \in Passwords \union {None}
    /\ throttle \in [failures : Nat, lockedUntil : Nat]
    /\ unlocked \in BOOLEAN
    /\ lastActivity \in 0..MaxClock
    /\ running \subseteq Calls
    /\ clock \in 1..MaxClock
    /\ wrong \in Seq(1..MaxClock)
    /\ unlocked <=> lastActivity > 0
    /\ unlocked => credential # None

Init ==
    /\ credential = None /\ throttle = NoFailures
    /\ unlocked = FALSE /\ lastActivity = 0 /\ running = {}
    /\ clock = 1 /\ wrong = <<>>

-----------------------------------------------------------------------------
\* activeLockout
LockedOut == throttle.lockedUntil > clock

\* requireUnlocked lets a call through.
Usable == unlocked /\ clock - lastActivity < IdleTimeout

ClearFailures == throttle' = NoFailures /\ wrong' = <<>>
MarkUnlocked == unlocked' = TRUE /\ lastActivity' = clock

\* The statements write the password, clear the failures and write the audit entry;
\* only then the session is unlocked.
Setup(p, done) ==
    /\ credential = None
    /\ credential' = p
    /\ IF done >= 2 THEN ClearFailures ELSE UNCHANGED guesses
    /\ IF done = 3 THEN MarkUnlocked ELSE UNCHANGED session
    /\ UNCHANGED <<running, clock>>

\* unlock with the right password.  The audit entry comes last: when writing it
\* fails the caller sees an error and the session is unlocked.
UnlockRight(p) ==
    /\ p = credential
    /\ ~ LockedOut
    /\ ClearFailures
    /\ MarkUnlocked
    /\ UNCHANGED <<credential, running, clock>>

\* Mutant of RecordAdminFailure: a lockout that has passed starts the count over.
RecordFailureAfresh ==
    LET failures == IF throttle.lockedUntil > 0 THEN 1 ELSE throttle.failures + 1
    IN  throttle' = [failures |-> failures,
                     lockedUntil |-> IF failures >= MaxFailures THEN clock + Lockout ELSE 0]

\* The count is kept when a lockout has passed: the next failure locks again.
RecordAdminFailure ==
    LET failures == throttle.failures + 1
    IN  throttle' = [failures |-> failures,
                     lockedUntil |-> IF failures >= MaxFailures THEN clock + Lockout ELSE 0]

\* unlock with a wrong password: a session that is unlocked stays so.
UnlockWrong ==
    /\ credential # None
    /\ ~ LockedOut
    /\ Len(wrong) < MaxGuesses
    /\ RecordAdminFailure
    /\ wrong' = Append(wrong, clock)
    /\ UNCHANGED <<credential, session, running, clock>>

Lock ==
    /\ unlocked
    /\ unlocked' = FALSE /\ lastActivity' = 0
    /\ UNCHANGED <<credential, guesses, running, clock>>

\* expireIfIdle, from the guard of any sensitive call or from a status request
ExpireIfIdle ==
    /\ unlocked /\ ~ Usable
    /\ unlocked' = FALSE /\ lastActivity' = 0
    /\ UNCHANGED <<credential, guesses, running, clock>>

\* Given the current password in a session that may be used, the statements are as
\* in Setup; then the session is extended.
ChangePassword(p, new, done) ==
    /\ Usable
    /\ p = credential
    /\ credential' = new
    /\ IF done >= 2 THEN ClearFailures ELSE UNCHANGED guesses
    /\ IF done = 3 THEN MarkUnlocked ELSE UNCHANGED session
    /\ UNCHANGED <<running, clock>>

\* Mutant of BeginCall: the channel is not among the sensitive ones.
BeginCallUnchecked(c) ==
    /\ c \notin running
    /\ running' = running \union {c}
    /\ UNCHANGED <<credential, guesses, session, clock>>

\* The wrapper of a sensitive call: the guard, then the handler is awaited.
BeginCall(c) ==
    /\ c \notin running
    /\ Usable
    /\ running' = running \union {c}
    /\ UNCHANGED <<credential, guesses, session, clock>>

\* Mutant of Touch: marks the session unlocked, as unlock does.
TouchMarks == MarkUnlocked

\* Mutant of Touch: does not look whether the session was locked meanwhile.
TouchAlways == lastActivity' = clock /\ UNCHANGED unlocked

\* touch: a session locked during the call stays locked.
Touch ==
    /\ lastActivity' = IF unlocked THEN clock ELSE lastActivity
    /\ UNCHANGED unlocked

CallSucceeds(c) ==
    /\ c \in running
    /\ running' = running \ {c}
    /\ Touch
    /\ UNCHANGED <<credential, guesses, clock>>

CallFails(c) ==
    /\ c \in running
    /\ running' = running \ {c}
    /\ UNCHANGED <<credential, guesses, session, clock>>

\* The process ends and is started again: what is on disk stays.
Restart ==
    /\ unlocked' = FALSE /\ lastActivity' = 0 /\ running' = {}
    /\ UNCHANGED <<credential, guesses, clock>>

Tick ==
    /\ clock < MaxClock
    /\ clock' = clock + 1
    /\ UNCHANGED <<credential, guesses, session, running>>

Next ==
    \/ \E p \in Passwords, done \in 1..3 : Setup(p, done)
    \/ \E p \in Passwords : UnlockRight(p)
    \/ UnlockWrong
    \/ Lock
    \/ ExpireIfIdle
    \/ \E p, new \in Passwords, done \in 1..3 : ChangePassword(p, new, done)
    \/ \E c \in Calls : BeginCall(c) \/ CallSucceeds(c) \/ CallFails(c)
    \/ Restart
    \/ Tick

Spec == Init /\ [][Next]_vars

-----------------------------------------------------------------------------
\* Once MaxFailures wrong passwords have been counted, the next ones are a lockout
\* apart, through restarts and expired lockouts, until a right password clears the
\* count (admin-session.ts: the throttle is persisted and stays in force).
ThrottleHolds ==
    \A i \in (MaxFailures + 1)..Len(wrong) : wrong[i] >= wrong[i - 1] + Lockout

\* Only setting the first password or giving the right one unlocks.  A sensitive
\* call that was awaited while the session was locked, ran out or began in another
\* session does not bring it back (admin-session.ts touch).
OnlyPasswordUnlocks ==
    [][~ unlocked /\ unlocked' => \E p \in Passwords : Setup(p, 3) \/ UnlockRight(p)]_vars
=============================================================================
