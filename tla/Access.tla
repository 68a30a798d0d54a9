------------------------------ MODULE Access ------------------------------
(***************************************************************************)
(* The sessions of the people who use the system, the codes that recover a *)
(* password and the suspensions that close them all.                       *)
(*                                                                         *)
(* What changes an account locks its row, or the filial's and the          *)
(* holding's and then the accounts': each operation is one step.  A code   *)
(* is sent before its transaction commits: it may have been sent, or not,  *)
(* whatever remains of it.  A repeated refresh finds the token used.       *)
(*                                                                         *)
(* Left out: roles and permissions, the budgets of attempts per address,   *)
(* the filial a holding's user acts for, and the audit of the holding.     *)
(***************************************************************************)
EXTENDS Integers, Sequences, FiniteSets

CONSTANTS
  Directors,      \* accounts of the holding, which recover their password with a code
  Employees,      \* accounts of its filiales, whose administrator resets it
  Offices,        \* the holding's filiales
  CodeAttempts,   \* recovery_otp_attempts
  MaxSessions,    \* bound: refresh tokens issued
  MaxCodes,       \* bound: codes issued
  MaxVersion      \* bound: session_version of an account

ASSUME AccessAssumption ==
  /\ Directors \intersect Employees = {} /\ Offices # {}
  /\ CodeAttempts \in Nat \ {0} /\ MaxSessions \in Nat /\ MaxCodes \in Nat /\ MaxVersion \in Nat

VARIABLES
  accounts,     \* users: status, session_version
  officeOf,     \* User.filial_id of each employee
  openOffices,  \* filiales that are active
  holdingOpen,  \* whether the holding is active
  sessions,     \* auth_refresh_sessions, in the order of their creation, with the token's session_version
  codes,        \* auth_recovery_challenges, in the order of their creation
  recovered,    \* codes that changed a password, in order
  verified      \* codes that verified a phone, in order

accessVars == <<accounts, officeOf, openOffices, holdingOpen, sessions, codes, recovered, verified>>

Accounts == Directors \union Employees
Statuses == {"activo", "invitado", "inactivo"}
Account == [status : Statuses, version : 0..MaxVersion]
\* A refresh token: whose, the version its access token carries, and the token it renewed, if any.
RefreshSession == [of : Accounts, version : 0..MaxVersion, revoked : BOOLEAN, renews : 0..MaxSessions]
Purposes == {"password_reset", "phone_enroll"}
Challenge == [of : Directors, purpose : Purposes, consumed : BOOLEAN, attempts : 0..CodeAttempts,
              age : {"recent", "valid", "expired"}]

AccessTypeOK ==
  /\ accounts \in [Accounts -> Account] /\ officeOf \in [Employees -> Offices]
  /\ openOffices \subseteq Offices /\ holdingOpen \in BOOLEAN
  /\ sessions \in Seq(RefreshSession) /\ Len(sessions) <= MaxSessions
  /\ codes \in Seq(Challenge) /\ Len(codes) <= MaxCodes
  /\ recovered \in Seq(1..MaxCodes) /\ verified \in Seq(1..MaxCodes)

AccessInit ==
  /\ accounts = [a \in Accounts |-> [status |-> "activo", version |-> 0]]
  /\ officeOf \in [Employees -> Offices]
  /\ openOffices = Offices /\ holdingOpen = TRUE
  /\ sessions = <<>> /\ codes = <<>> /\ recovered = <<>> /\ verified = <<>>

-----------------------------------------------------------------------------
(* What every operation asks of an account *)

AccountAvailable(a) ==
  /\ accounts[a].status = "activo" /\ holdingOpen
  /\ a \in Employees => officeOf[a] \in openOffices

\* The request carries an access token of a session that the account has not left behind.
Authenticated(a, s) ==
  /\ AccountAvailable(a)
  /\ sessions[s].of = a /\ sessions[s].version = accounts[a].version

\* The accounts' tokens stop being valid, and their codes too.
NextVersions(S) == [a \in Accounts |-> [accounts[a] EXCEPT !.version = IF a \in S THEN @ + 1 ELSE @]]
\* Wrong: only the tokens that access the system are left behind.
AccessOnly(S) ==
  /\ \A a \in S : accounts[a].version < MaxVersion
  /\ accounts' = NextVersions(S)
  /\ UNCHANGED <<sessions, codes>>
RevokeAccounts(S) ==
  /\ \A a \in S : accounts[a].version < MaxVersion
  /\ accounts' = NextVersions(S)
  /\ sessions' = [s \in DOMAIN sessions |-> [sessions[s] EXCEPT !.revoked = @ \/ sessions[s].of \in S]]
  /\ codes' = [c \in DOMAIN codes |-> [codes[c] EXCEPT !.consumed = @ \/ codes[c].of \in S]]

-----------------------------------------------------------------------------
(* Sessions *)

Issued(a, renewed) == [of |-> a, version |-> accounts[a].version, revoked |-> FALSE, renews |-> renewed]

Login(a) ==
  /\ AccountAvailable(a) /\ Len(sessions) < MaxSessions
  /\ sessions' = Append(sessions, Issued(a, 0))
  /\ UNCHANGED <<accounts, officeOf, openOffices, holdingOpen, codes, recovered, verified>>

\* Someone of the holding begins or stops acting for a filial: another session, beside the one it has.
SwitchContext(s) ==
  /\ sessions[s].of \in Directors /\ Authenticated(sessions[s].of, s) /\ Len(sessions) < MaxSessions
  /\ sessions' = Append(sessions, Issued(sessions[s].of, 0))
  /\ UNCHANGED <<accounts, officeOf, openOffices, holdingOpen, codes, recovered, verified>>

\* The token is exchanged for another, once, while it has not expired.
Refresh(s) ==
  /\ ~sessions[s].revoked /\ AccountAvailable(sessions[s].of) /\ Len(sessions) < MaxSessions
  /\ sessions' = Append([sessions EXCEPT ![s].revoked = TRUE], Issued(sessions[s].of, s))
  /\ UNCHANGED <<accounts, officeOf, openOffices, holdingOpen, codes, recovered, verified>>

\* Closed by its user, or expired.
Logout(s) ==
  /\ ~sessions[s].revoked
  /\ sessions' = [sessions EXCEPT ![s].revoked = TRUE]
  /\ UNCHANGED <<accounts, officeOf, openOffices, holdingOpen, codes, recovered, verified>>

-----------------------------------------------------------------------------
(* Codes *)

\* Only someone of the holding recovers a password, while the account is available.
Recoverable(a) == a \in Directors /\ AccountAvailable(a)

\* A minute, and then recovery_otp_minutes, pass for every code.
Older(age) == IF age = "recent" THEN "valid" ELSE "expired"
TimePasses ==
  /\ codes' = [c \in DOMAIN codes |-> [codes[c] EXCEPT !.age = Older(@)]]
  /\ codes' # codes
  /\ UNCHANGED <<accounts, officeOf, openOffices, holdingOpen, sessions, recovered, verified>>

\* Unless one was issued in the last minute; the earlier ones are consumed.
Supersede(a, purpose) ==
  [c \in DOMAIN codes |->
     [codes[c] EXCEPT !.consumed = @ \/ (codes[c].of = a /\ codes[c].purpose = purpose)]]
NewCode(a, purpose) ==
  [of |-> a, purpose |-> purpose, consumed |-> FALSE, attempts |-> 0, age |-> "recent"]
Issue(a, purpose) ==
  /\ Recoverable(a) /\ Len(codes) < MaxCodes
  /\ \A c \in DOMAIN codes : ~(codes[c].of = a /\ codes[c].purpose = purpose /\ codes[c].age = "recent")
  /\ codes' = Append(Supersede(a, purpose), NewCode(a, purpose))
  /\ UNCHANGED <<accounts, officeOf, openOffices, holdingOpen, sessions, recovered, verified>>

RequestReset(a) == Issue(a, "password_reset")
RequestPhone(s) ==
  /\ sessions[s].of \in Directors /\ Authenticated(sessions[s].of, s)
  /\ Issue(sessions[s].of, "phone_enroll")

\* A code answers for its purpose only, until it is used, expires or is missed too often.
Verifiable(c, purpose) ==
  /\ Recoverable(codes[c].of)
  /\ codes[c].purpose = purpose /\ ~codes[c].consumed
  /\ codes[c].age # "expired" /\ codes[c].attempts < CodeAttempts

MissCode(c) ==
  /\ Verifiable(c, codes[c].purpose)
  /\ codes' = [codes EXCEPT ![c].attempts = @ + 1]
  /\ UNCHANGED <<accounts, officeOf, openOffices, holdingOpen, sessions, recovered, verified>>

ResetWithCode(c) ==
  /\ Verifiable(c, "password_reset")
  /\ RevokeAccounts({codes[c].of})
  /\ recovered' = Append(recovered, c)
  /\ UNCHANGED <<officeOf, openOffices, holdingOpen, verified>>

VerifyPhone(s, c) ==
  /\ Authenticated(codes[c].of, s) /\ Verifiable(c, "phone_enroll")
  /\ codes' = [codes EXCEPT ![c].consumed = TRUE]
  /\ verified' = Append(verified, c)
  /\ UNCHANGED <<accounts, officeOf, openOffices, holdingOpen, sessions, recovered>>

-----------------------------------------------------------------------------
(* Administration *)

\* An employee's password, by the administrator of the filial, while the account is available.
ResetPassword(a) ==
  /\ a \in Employees /\ AccountAvailable(a)
  /\ RevokeAccounts({a})
  /\ UNCHANGED <<officeOf, openOffices, holdingOpen, recovered, verified>>

\* Becoming other than active, from another status, closes the sessions.
Suspends(a, status) == status # "activo" /\ accounts[a].status # status
ChangeUserStatus(a, status) ==
  /\ status # accounts[a].status
  /\ \/ /\ Suspends(a, status) /\ accounts[a].version < MaxVersion
        /\ accounts' = [NextVersions({a}) EXCEPT ![a].status = status]
        /\ sessions' = [s \in DOMAIN sessions |-> [sessions[s] EXCEPT !.revoked = @ \/ sessions[s].of = a]]
        /\ codes' = [c \in DOMAIN codes |-> [codes[c] EXCEPT !.consumed = @ \/ codes[c].of = a]]
     \/ /\ ~Suspends(a, status)
        /\ accounts' = [accounts EXCEPT ![a].status = status]
        /\ UNCHANGED <<sessions, codes>>
  /\ UNCHANGED <<officeOf, openOffices, holdingOpen, recovered, verified>>

\* To a filial that may be suspended.
MoveEmployee(a, f) ==
  /\ officeOf[a] # f
  /\ officeOf' = [officeOf EXCEPT ![a] = f]
  /\ UNCHANGED <<accounts, openOffices, holdingOpen, sessions, codes, recovered, verified>>

SuspendOffice(f) ==
  /\ f \in openOffices
  /\ RevokeAccounts({a \in Employees : officeOf[a] = f})
  /\ openOffices' = openOffices \ {f}
  /\ UNCHANGED <<officeOf, holdingOpen, recovered, verified>>
ActivateOffice(f) ==
  /\ f \notin openOffices /\ openOffices' = openOffices \union {f}
  /\ UNCHANGED <<accounts, officeOf, holdingOpen, sessions, codes, recovered, verified>>

SuspendHolding ==
  /\ holdingOpen /\ holdingOpen' = FALSE
  /\ RevokeAccounts(Accounts)
  /\ UNCHANGED <<officeOf, openOffices, recovered, verified>>
ActivateHolding ==
  /\ ~holdingOpen /\ holdingOpen' = TRUE
  /\ UNCHANGED <<accounts, officeOf, openOffices, sessions, codes, recovered, verified>>

-----------------------------------------------------------------------------
(* The specification *)

SessionRoutes ==
  \/ \E a \in Accounts : Login(a)
  \/ \E s \in DOMAIN sessions : Refresh(s) \/ Logout(s) \/ SwitchContext(s)
RecoveryRoutes ==
  \/ \E a \in Directors : RequestReset(a)
  \/ \E s \in DOMAIN sessions : RequestPhone(s)
  \/ \E c \in DOMAIN codes :
       ResetWithCode(c) \/ MissCode(c) \/ (\E s \in DOMAIN sessions : VerifyPhone(s, c))
UserRoutes ==
  \/ \E a \in Accounts, status \in Statuses : ChangeUserStatus(a, status)
  \/ \E a \in Employees : ResetPassword(a) \/ (\E f \in Offices : MoveEmployee(a, f))
OrganizationRoutes ==
  \/ \E f \in Offices : SuspendOffice(f) \/ ActivateOffice(f)
  \/ SuspendHolding \/ ActivateHolding

AccessNext == TimePasses \/ SessionRoutes \/ RecoveryRoutes \/ UserRoutes \/ OrganizationRoutes

AccessSpec == AccessInit /\ [][AccessNext]_accessVars

-----------------------------------------------------------------------------
(* Properties *)

\* What is closed stays closed: no session that was open before a suspension, of the account or of its
\* organization, or before a change of its password, is open again after it, even once the account is active
\* again; an account that is not active has no open session and no code left.
SessionsFollowAccount ==
  /\ \A s \in DOMAIN sessions : ~sessions[s].revoked =>
       /\ sessions[s].version = accounts[sessions[s].of].version
       /\ accounts[sessions[s].of].status = "activo"
  /\ \A c \in DOMAIN codes : ~codes[c].consumed => accounts[codes[c].of].status = "activo"

\* A token is renewed once, and renewing it closes it: a chain of renewals has one open end at most.
RenewedOnce ==
  \A s, t \in DOMAIN sessions :
    /\ s # t /\ sessions[s].renews # 0 => sessions[s].renews # sessions[t].renews
    /\ sessions[s].renews = t => sessions[t].revoked

\* A code changes one password or verifies one phone, once, and an account has one code for each purpose.
CodesUsedOnce ==
  /\ \A i, j \in DOMAIN recovered : i # j => recovered[i] # recovered[j]
  /\ \A i, j \in DOMAIN verified : i # j => verified[i] # verified[j]
  /\ \A c, d \in DOMAIN codes :
       c # d /\ ~codes[c].consumed /\ ~codes[d].consumed => <<codes[c].of, codes[c].purpose>> # <<codes[d].of, codes[d].purpose>>

AccessClosed == SessionsFollowAccount /\ RenewedOnce /\ CodesUsedOnce
=============================================================================
