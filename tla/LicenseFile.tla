---------------------------- MODULE LicenseFile ----------------------------
(***************************************************************************)
(* The license of a game: the file license.dat, its verification against   *)
(* the system clock and the record of the latest time seen                 *)
(* (godot/addons/aegis/aegis_license.gd).                                  *)
(*                                                                         *)
(* What a license and the certificate inside it say is constant.  Terms[l] *)
(* has the outcome of the checks that depend on nothing else: signed, the  *)
(* two signatures and the syntax; ours, the device, the project, the       *)
(* certificate's scope, the link between both, the status and the order of *)
(* the times.  The verification order matters in one place only: the       *)
(* expiry is known to the caller once the signatures have been checked.    *)
(***************************************************************************)
EXTENDS Integers

CONSTANTS
    Licenses,      \* license containers that exist anywhere
    Terms,         \* what each of them says
    NoLicense,     \* there is no file
    Broken,        \* a file that is no container
    Skew,          \* CLOCK_SKEW
    Tolerance,     \* ROLLBACK_TOLERANCE
    RenewWindow,   \* RENEW_WINDOW
    MaxClock       \* bound of the system clock

ASSUME TermsAssumption ==
    Terms \in [Licenses -> [signed : BOOLEAN, ours : BOOLEAN, certIssued : Nat,
                            certExpires : Nat, issued : Nat, expires : Nat \ {0}]]
ASSUME BoundsAssumption ==
    /\ Skew \in Nat /\ Tolerance \in Nat /\ RenewWindow \in Nat /\ MaxClock \in Nat
    /\ Broken \notin Licenses /\ NoLicense \notin Licenses

VARIABLES
    file,          \* contents of license.dat
    clock,         \* the system clock, which anyone may set
    record         \* user://aegis_time.dat, 0 when there is none

licenseVars == <<file, clock, record>>

Contents == Licenses \union {NoLicense, Broken}

NoExpiry == 0      \* the empty string in result.expire
Results == [valid : BOOLEAN, due : BOOLEAN, expire : Nat]

LicenseTypeOK ==
    /\ file \in Contents
    /\ clock \in 0..MaxClock
    /\ record \in 0..MaxClock

-----------------------------------------------------------------------------
\* Signatures, syntax and the certificate's window: the license can be read.
Readable(l) ==
    /\ l \in Licenses
    /\ Terms[l].signed
    /\ Terms[l].certIssued <= clock + Skew
    /\ clock < Terms[l].certExpires

\* Everything but the clock record and the expiry.
Fits(l) ==
    /\ Readable(l)
    /\ Terms[l].ours
    /\ Terms[l].issued <= clock + Skew
    /\ Terms[l].expires <= Terms[l].certExpires

ClockOK == record > 0 => clock + Tolerance >= record

Valid(l) == Fits(l) /\ ClockOK /\ clock < Terms[l].expires

\* is_renewal_due
Due(l) == Valid(l) /\ Terms[l].expires - clock < RenewWindow

\* evaluate_bytes and is_renewal_due of its result
Result(l) ==
    [valid |-> Valid(l), due |-> Due(l),
     expire |-> IF Readable(l) THEN Terms[l].expires ELSE NoExpiry]

\* evaluate(true): the record moves forward when the checks before it succeed, also
\* for a license that has expired.  Failing to open it is ignored, and so is a write that
\* fails in the file just truncated: what has no checksum is read as no record.
UpdateRecord(l) ==
    record' \in {record} \union (IF Fits(l) /\ ClockOK /\ clock > record THEN {clock, 0} ELSE {})

-----------------------------------------------------------------------------
\* The operator or the editor's dock puts a file there, or removes it.
UserPutsFile ==
    /\ file' \in Contents \ {file}
    /\ UNCHANGED <<clock, record>>

\* reset_time_record, which the editor's dock calls: without a record any time goes.
ResetRecord ==
    /\ record # 0 /\ record' = 0
    /\ UNCHANGED <<file, clock>>

\* Time passes, or someone sets the clock.
ClockChanges ==
    /\ clock' \in (0..MaxClock) \ {clock}
    /\ UNCHANGED <<file, record>>
=============================================================================
