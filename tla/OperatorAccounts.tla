---------------------------- MODULE OperatorAccounts ----------------------------
(***************************************************************************)
(* The operator's account: the password, the panel sessions it opened, and *)
(* the guard in front of the sign-in form.  Browsers sign in, sign out and *)
(* change the password under Settings; a console changes it with the       *)
(* passwd command, in a process of its own.                                *)
(*                                                                         *)
(* Checking a password is slow, and nothing is locked meanwhile.  A change *)
(* of password is an UPDATE and a separate DELETE of the sessions.         *)
(***************************************************************************)
EXTENDS Naturals, FiniteSets

CONSTANTS
    Browsers,
    Consoles,
    MaxAttempts,  \* loginGuard.maxAttempts
    MaxDelay,     \* loginGuard.maxDelay, in units of baseDelay
    MaxChanges,   \* bound: changes of the password
    MaxSessions   \* bound: sessions ever opened

ASSUME AccountConstants ==
    /\ Browsers \cap Consoles = {}
    /\ IsFiniteSet(Browsers) /\ Browsers # {}
    /\ MaxAttempts \in Nat \ {0} /\ MaxDelay \in Nat \ {0}
    /\ MaxChanges \in Nat /\ MaxSessions \in Nat

VARIABLES
    password,     \* row of the account: how often the password was changed
    rows,         \* admin_sessions: the sessions on file
    expired,      \* sessions past their expiry, on file or not
    opened,       \* sessions ever opened; the next one is opened + 1
    cookie,       \* per browser: the session it holds, 0 for none
    doing,        \* per actor: what its request is in the middle of
    failures,     \* guard: consecutive failures of the account, capped
    lockout,      \* guard: time until lockedUntil
    late,         \* observer: failures counted since the account was locked
    changes,      \* observer: changes reported to have worked
    openedAfter   \* observer: changes when the session was put on file

fileVars == <<rows, expired, opened, openedAfter>>
guardVars == <<failures, lockout, late>>
accountVars == <<password, fileVars, cookie, doing, guardVars, changes>>

Actors == Browsers \cup Consoles

AccountsInit ==
    /\ password = 0
    /\ rows = {} /\ expired = {} /\ opened = 0
    /\ openedAfter = [n \in 1..MaxSessions |-> 0]
    /\ cookie = [b \in Browsers |-> 0]
    /\ doing = [a \in Actors |-> "nothing"]
    /\ failures = 0 /\ lockout = 0 /\ late = 0
    /\ changes = 0

Turns(a, to) == doing' = [doing EXCEPT ![a] = to]

-----------------------------------------------------------------------------
(* loginGuard *)

(* The delay doubles with every failure beyond MaxAttempts, up to MaxDelay. *)
Delay(count) ==
    IF count < MaxAttempts THEN 0
    ELSE IF 2^(count - MaxAttempts) > MaxDelay THEN MaxDelay
    ELSE 2^(count - MaxAttempts)

(* Seeded fault: only the address is limited, the lock is not looked at. *)
ChecksAddressOnly == TRUE

(* check, apart from the limit per address, which may refuse at any time. *)
Check == lockout = 0

(* fail: the count stops mattering where the delay has stopped growing. *)
CountFailure ==
    LET count == IF Delay(failures) = MaxDelay THEN failures ELSE failures + 1
    IN  /\ failures' = count
        /\ lockout' = IF Delay(count) > 0 THEN Delay(count) ELSE lockout
        /\ late' = IF lockout > 0 THEN late + 1 ELSE 0

Forgets == failures' = 0 /\ lockout' = 0 /\ late' = 0

-----------------------------------------------------------------------------
(* Signing in and out *)

AdminLoginSubmit(b) ==
    /\ doing[b] = "nothing"
    /\ Check
    /\ Turns(b, "admitted")
    /\ UNCHANGED <<password, fileVars, cookie, guardVars, changes>>

VerifyPassword(b) ==
    /\ doing[b] = "admitted"
    /\ \/ Turns(b, "verified") /\ UNCHANGED guardVars
       \/ Turns(b, "nothing") /\ CountFailure
    /\ UNCHANGED <<password, fileVars, cookie, changes>>

(* succeed, then CreateSession; without a session there is no cookie. *)
CreateSession(b) ==
    /\ doing[b] = "verified"
    /\ Turns(b, "nothing")
    /\ Forgets
    /\ \/ /\ opened < MaxSessions
          /\ opened' = opened + 1
          /\ rows' = rows \cup {opened'}
          /\ openedAfter' = [openedAfter EXCEPT ![opened'] = changes]
          /\ cookie' = [cookie EXCEPT ![b] = opened']
          /\ UNCHANGED expired
       \/ UNCHANGED <<fileVars, cookie>>
    /\ UNCHANGED <<password, changes>>

(* SessionUser: what a cookie is worth. *)
SignedIn(b) == cookie[b] \in rows \ expired

(* The browser forgets its cookie even where the row could not be deleted. *)
AdminLogout(b) ==
    /\ doing[b] = "nothing"
    /\ cookie[b] # 0
    /\ rows' \in {rows, rows \ {cookie[b]}}
    /\ cookie' = [cookie EXCEPT ![b] = 0]
    /\ UNCHANGED <<password, expired, opened, openedAfter, doing, guardVars, changes>>

(* SessionUser deletes the row of a session found to be expired. *)
VisitsExpired(b) ==
    /\ cookie[b] \in rows \cap expired
    /\ rows' = rows \ {cookie[b]}
    /\ UNCHANGED <<password, expired, opened, openedAfter, cookie, doing, guardVars, changes>>

-----------------------------------------------------------------------------
(* Changing the password *)

(* SettingsCredentials: the session is looked up once, at the start. *)
SettingsCredentials(b) ==
    /\ doing[b] = "nothing"
    /\ SignedIn(b)
    /\ Turns(b, "retyping")
    /\ UNCHANGED <<password, fileVars, cookie, guardVars, changes>>

(* The current password, typed again, is verified, and the form is valid;  *)
(* of a form that is not, or a password that is wrong, RequestFails speaks. *)
VerifiesCurrent(b) ==
    /\ doing[b] = "retyping"
    /\ Turns(b, "changing")
    /\ UNCHANGED <<password, fileVars, cookie, guardVars, changes>>

Passwd(k) ==
    /\ doing[k] = "nothing"
    /\ Turns(k, "changing")
    /\ UNCHANGED <<password, fileVars, cookie, guardVars, changes>>

(* SetCredentials and SetPassword: the UPDATE ... *)
WritesPassword(a) ==
    /\ doing[a] = "changing"
    /\ password < MaxChanges
    /\ password' = password + 1
    /\ Turns(a, "revoking")
    /\ UNCHANGED <<fileVars, cookie, guardVars, changes>>

(* Seeded fault: only the session the change was made from is revoked. *)
RevokesOwnSession(a) ==
    /\ doing[a] = "revoking"
    /\ Turns(a, "nothing")
    /\ rows' = IF a \in Browsers THEN rows \ {cookie[a]} ELSE rows
    /\ cookie' = [b \in Browsers |-> IF b = a THEN 0 ELSE cookie[b]]
    /\ changes' = changes + 1
    /\ UNCHANGED <<password, expired, opened, openedAfter, guardVars>>

(* ... then the sessions; only then is the change reported. *)
DeleteUserSessions(a) ==
    /\ doing[a] = "revoking"
    /\ Turns(a, "nothing")
    /\ rows' = {}
    /\ cookie' = [b \in Browsers |-> IF b = a THEN 0 ELSE cookie[b]]
    /\ changes' = changes + 1
    /\ UNCHANGED <<password, expired, opened, openedAfter, guardVars>>

(* Any statement may fail; the steps before it stay done. *)
RequestFails(a) ==
    /\ doing[a] # "nothing"
    /\ Turns(a, "nothing")
    /\ UNCHANGED <<password, fileVars, cookie, guardVars, changes>>

-----------------------------------------------------------------------------
(* Time, and the panel's memory *)

LockRunsOut ==
    /\ lockout > 0
    /\ lockout' = lockout - 1
    /\ late' = IF lockout' = 0 THEN 0 ELSE late
    /\ UNCHANGED <<password, fileVars, cookie, doing, failures, changes>>

(* gcLocked: an hour after the last failure. *)
GuardForgets ==
    /\ failures > 0 /\ lockout = 0
    /\ Forgets
    /\ UNCHANGED <<password, fileVars, cookie, doing, changes>>

SessionExpires ==
    /\ \E n \in rows \ expired : expired' = expired \cup {n}
    /\ UNCHANGED <<password, rows, opened, openedAfter, cookie, doing, guardVars, changes>>

(* A restart loses the guard and what was under way; bootstrapAdmin leaves *)
(* an account that exists alone.                                           *)
AccountsRestart ==
    /\ doing' = [a \in Actors |-> IF a \in Browsers THEN "nothing" ELSE doing[a]]
    /\ Forgets
    /\ UNCHANGED <<password, fileVars, cookie, changes>>

AccountsNext ==
    \/ \E b \in Browsers :
        \/ AdminLoginSubmit(b) \/ VerifyPassword(b) \/ CreateSession(b)
        \/ AdminLogout(b) \/ VisitsExpired(b)
        \/ SettingsCredentials(b) \/ VerifiesCurrent(b)
    \/ \E k \in Consoles : Passwd(k)
    \/ \E a \in Actors : WritesPassword(a) \/ DeleteUserSessions(a) \/ RequestFails(a)
    \/ LockRunsOut \/ GuardForgets \/ SessionExpires \/ AccountsRestart

AccountsSpec == AccountsInit /\ [][AccountsNext]_accountVars

-----------------------------------------------------------------------------
(* Properties *)

(* Once a change of password was reported to have worked, every session    *)
(* that was on file before is gone, whoever opened it and whatever else    *)
(* was signing in, expiring or changing the password meanwhile.            *)
CookiesDieWithThePassword == \A n \in rows : openedAfter[n] = changes

(* The lock is looked at before the slow check of a password and set after *)
(* it: of a locked account only attempts already admitted are still        *)
(* counted, at most one for every other browser.                           *)
LateFailuresBounded == late < Cardinality(Browsers)
=============================================================================
