------------------------------- MODULE Access -------------------------------
(* Who gets in, and how a restaurant comes to be: AuthService.authenticate   *)
(* behind AuthGuard and AdminGuard, the tenant a staff request works for,    *)
(* revokeSession, grantPlatformAdmin, and OnboardingService.onboard, which   *)
(* an administrator's request calls. None of these has a transaction: each   *)
(* statement commits by itself, and a process may stop between any two.      *)
(* Sessions are issued by OtpAuth. A tenant is named by the request that may *)
(* create it.                                                                *)
EXTENDS FiniteSets

CONSTANTS
  Users,            \* phone numbers
  Sessions,         \* session tokens
  UserOf,           \* whose session it is
  StaffRequests,    \* requests to the staff API
  AdminRequests,    \* requests to POST admin/tenants
  TokenOf,          \* the token a request brings
  Slugs, SlugOf,    \* the slug an administrator asks for
  OwnerOf,          \* the owner's phone
  nobody

Requests == StaffRequests \union AdminRequests

ASSUME RequestsAssumption ==
  /\ UserOf \in [Sessions -> Users]
  /\ TokenOf \in [Requests -> Sessions]
  /\ SlugOf \in [AdminRequests -> Slugs]
  /\ OwnerOf \in [AdminRequests -> Users]
  /\ StaffRequests \intersect AdminRequests = {}
  /\ nobody \notin AdminRequests /\ nobody \notin {"done", "refused", "error"}

VARIABLES
  session,        \* sessions: "live", "revoked" or "expired"
  users,          \* users: those with a row
  admins,         \* platform_admins
  tenants,        \* tenants, by the request that created them
  memberships,    \* memberships: pairs of a user and a tenant, all of owners
  branches,       \* tenants with a branch
  step,           \* where a request stands
  found,          \* the tenants authenticate found for the request's user
  actsFor,        \* the tenant a staff request works for, or nobody
  reply,          \* "done", "refused", "error" or nobody
  entered         \* history: [lapsed, owned] as they were when a request began

authVars == <<session, users, admins, memberships>>
rowVars == <<session, users, admins, tenants, memberships, branches>>
accessVars == <<session, users, admins, tenants, memberships, branches, step, found, actsFor, reply, entered>>

SessionStatus == {"live", "revoked", "expired"}
Steps == {"idle", "session", "memberships", "admin", "tenant", "owner", "membership", "branch", "done"}

(* What is read of a session's user: the tenants of the rows that are there. *)
TenantsOf(u) == {t \in tenants : <<u, t>> \in memberships}
User(r) == UserOf[TokenOf[r]]

AccessTypeOK ==
  /\ session \in [Sessions -> SessionStatus]
  /\ users \subseteq Users /\ admins \subseteq users
  /\ tenants \subseteq AdminRequests /\ branches \subseteq tenants
  /\ memberships \subseteq users \X tenants
  /\ step \in [Requests -> Steps]
  /\ found \in [Requests -> SUBSET tenants]
  /\ actsFor \in [Requests -> tenants \union {nobody}]
  /\ reply \in [Requests -> {"done", "refused", "error", nobody}]

AccessInit ==
  /\ session = [s \in Sessions |-> "live"]
  /\ users = {UserOf[s] : s \in Sessions}
  /\ admins = {} /\ tenants = {} /\ memberships = {} /\ branches = {}
  /\ step = [r \in Requests |-> "idle"]
  /\ found = [r \in Requests |-> {}]
  /\ actsFor = [r \in Requests |-> nobody]
  /\ reply = [r \in Requests |-> nobody]
  /\ entered = [r \in Requests |-> [lapsed |-> FALSE, owned |-> {}]]

At(r, place) == step[r] = place
GoTo(r, place) == step' = [step EXCEPT ![r] = place] /\ UNCHANGED reply
Reply(r, what) == step' = [step EXCEPT ![r] = "done"] /\ reply' = [reply EXCEPT ![r] = what]

authenticate(r) ==
  /\ At(r, "idle")
  /\ entered' = [entered EXCEPT ![r] = [lapsed |-> session[TokenOf[r]] # "live", owned |-> TenantsOf(User(r))]]
  /\ GoTo(r, "session")
  /\ UNCHANGED <<rowVars, found, actsFor>>

(* A plausible slip: isNull(revokedAt) is left out.                          *)
ReadSessionUnexpired(r) ==
  /\ At(r, "session")
  /\ IF session[TokenOf[r]] # "expired" THEN GoTo(r, "memberships") ELSE Reply(r, "refused")
  /\ UNCHANGED <<rowVars, found, actsFor, entered>>

(* The session and its user, whose row is never deleted.                     *)
ReadSession(r) ==
  /\ At(r, "session")
  /\ IF session[TokenOf[r]] = "live" THEN GoTo(r, "memberships") ELSE Reply(r, "refused")
  /\ UNCHANGED <<rowVars, found, actsFor, entered>>

ReadMemberships(r) ==
  /\ At(r, "memberships")
  /\ found' = [found EXCEPT ![r] = TenantsOf(User(r))]
  /\ GoTo(r, "admin")
  /\ UNCHANGED <<rowVars, actsFor, entered>>

(* Owners, as all members are here, have a role that staff routes allow.     *)
authorizeTenant(r, t) == t \in found[r]

(* AuthGuard and tenantOf: the first membership in whatever order the rows   *)
(* came.                                                                     *)
tenantOf(r) ==
  IF found[r] = {}
    THEN Reply(r, "refused") /\ UNCHANGED actsFor
    ELSE \E t \in found[r] :
           /\ actsFor' = [actsFor EXCEPT ![r] = IF authorizeTenant(r, t) THEN t ELSE nobody]
           /\ Reply(r, IF authorizeTenant(r, t) THEN "done" ELSE "refused")

(* The last read, of platform_admins, and what the guards make of it all.    *)
ReadAdmin(r) ==
  /\ At(r, "admin")
  /\ \/ r \in StaffRequests /\ tenantOf(r)
     \/ /\ r \in AdminRequests
        /\ IF User(r) \in admins THEN GoTo(r, "tenant") ELSE Reply(r, "refused")
        /\ UNCHANGED actsFor
  /\ UNCHANGED <<rowVars, found, entered>>

InsertTenant(r) ==
  /\ At(r, "tenant")
  /\ IF \E t \in tenants : SlugOf[t] = SlugOf[r]
       THEN Reply(r, "error") /\ UNCHANGED tenants
       ELSE tenants' = tenants \union {r} /\ GoTo(r, "owner")
  /\ UNCHANGED <<authVars, branches, found, actsFor, entered>>

UpsertOwner(r) ==
  /\ At(r, "owner")
  /\ users' = users \union {OwnerOf[r]}
  /\ GoTo(r, "membership")
  /\ UNCHANGED <<session, admins, tenants, memberships, branches, found, actsFor, entered>>

(* A plausible slip: the insert is not awaited, and fails unnoticed.         *)
InsertMembershipUnawaited(r) ==
  /\ At(r, "membership")
  /\ memberships' \in {memberships, memberships \union {<<OwnerOf[r], r>>}}
  /\ GoTo(r, "branch")
  /\ UNCHANGED <<session, users, admins, tenants, branches, found, actsFor, entered>>

InsertMembership(r) ==
  /\ At(r, "membership")
  /\ memberships' = memberships \union {<<OwnerOf[r], r>>}
  /\ GoTo(r, "branch")
  /\ UNCHANGED <<session, users, admins, tenants, branches, found, actsFor, entered>>

createBranch(r) ==
  /\ At(r, "branch")
  /\ branches' = branches \union {r}
  /\ \E what \in {"done", "error"} : Reply(r, what)
  /\ UNCHANGED <<authVars, tenants, found, actsFor, entered>>

(* A statement fails, or the process stops: what was committed stays.        *)
Break(r) ==
  /\ step[r] \notin {"idle", "done"}
  /\ Reply(r, "error")
  /\ UNCHANGED <<rowVars, found, actsFor, entered>>

(* revokeSession, or the day the session expires.                            *)
Lapse(s) ==
  /\ session[s] = "live"
  /\ \E how \in {"revoked", "expired"} : session' = [session EXCEPT ![s] = how]
  /\ UNCHANGED <<users, admins, tenants, memberships, branches, step, found, actsFor, reply, entered>>

(* Two commits: the user's row, then the administrator's.                    *)
grantPlatformAdmin(u) ==
  /\ u \notin admins
  /\ IF u \in users THEN admins' = admins \union {u} /\ UNCHANGED users
                    ELSE users' = users \union {u} /\ UNCHANGED admins
  /\ UNCHANGED <<session, tenants, memberships, branches, step, found, actsFor, reply, entered>>

onboard(r) == InsertTenant(r) \/ UpsertOwner(r) \/ InsertMembership(r) \/ createBranch(r)
Resume(r) == ReadSession(r) \/ ReadMemberships(r) \/ ReadAdmin(r) \/ onboard(r)
AccessNext ==
  \/ \E r \in Requests : authenticate(r) \/ Resume(r) \/ Break(r)
  \/ \E s \in Sessions : Lapse(s)
  \/ \E u \in Users : grantPlatformAdmin(u)
AccessSpec == AccessInit /\ [][AccessNext]_accessVars
AccessFairness == \A r \in Requests : WF_accessVars(Resume(r))

----------------------------------------------------------------------------
(* A request that did something brought a session that was live when it      *)
(* began, and did it as what the rows say its user is: for a tenant it is a  *)
(* member of, or, to create one, as an administrator. Revocations, grants    *)
(* and onboardings run between the reads that decide it.                     *)
AdmittedAreEntitled ==
  \A r \in Requests :
    reply[r] = "done" \/ r \in tenants =>
      /\ ~entered[r].lapsed
      /\ IF r \in StaffRequests THEN <<User(r), actsFor[r]>> \in memberships
                                ELSE User(r) \in admins

(* A tenant with a branch can be managed: its owner is a member of it. Only  *)
(* the order of four commits sees to that. And an owner with a live session  *)
(* who was a member when the request began is not turned away.               *)
OwnersGetIn ==
  /\ \A t \in branches : <<OwnerOf[t], t>> \in memberships
  /\ \A r \in StaffRequests :
       reply[r] = "refused" /\ session[TokenOf[r]] = "live" => entered[r].owned = {}

(* No request is under way.                                                  *)
AccessIsQuiet == \A r \in Requests : step[r] \in {"idle", "done"}
=============================================================================
