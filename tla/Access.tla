-------------------------------- MODULE Access --------------------------------
(***************************************************************************)
(* How a phone becomes a worker's device.  Staff create a worker, which    *)
(* issues a six-digit invite code, and re-invite one, which voids the old  *)
(* codes and issues a new one (roster).  A phone claims a code and is      *)
(* given a device token (auth/service.go), which authenticates its later   *)
(* requests until it is revoked or its worker deactivated (middleware.go). *)
(* The operator suspends, activates and archives tenants meanwhile, and    *)
(* the status gate keeps staff of a tenant that is not in good standing    *)
(* from changing anything.                                                 *)
(*                                                                         *)
(* The statements of a staff request commit one by one: a transaction is   *)
(* deliberately not used (roster/http.go:114-118).  A claim is a read and  *)
(* then a transaction, which holds the invite's row lock from its first    *)
(* statement to its commit.                                                *)
(***************************************************************************)
EXTENDS Naturals, FiniteSets, Tables

CONSTANTS
    Tenants, Workers,
    TenantOf,       \* the tenant a worker is created in
    Invites,        \* ids of worker_invite rows
    Codes,          \* what GenerateInviteCode draws from
    Devices,        \* ids of device_token rows
    StaffCalls,     \* staff requests in flight
    Reinvites,      \* re-invites staff may ask for: [tenant, worker, revoke]
    Patches,        \* activations they may ask for: [tenant, worker, active]
    Claims,         \* claims in flight
    Operated,       \* the tenants the operator changes the status of
    InviteTTL,
    MaxTime,        \* bound on the clock
    NULL

ASSUME AccessAssumption ==
    /\ TenantOf \in [Workers -> Tenants]
    /\ Reinvites \subseteq [tenant: Tenants, worker: Workers, revoke: BOOLEAN]
    /\ Patches \subseteq [tenant: Tenants, worker: Workers, active: BOOLEAN]
    /\ Operated \subseteq Tenants
    /\ InviteTTL \in Nat
    /\ MaxTime \in Nat
    /\ NULL \notin Nat

VARIABLES
    active,     \* app_user.is_active of the workers there are
    invite,     \* worker_invite
    device,     \* device_token
    staff,      \* the staff requests in flight
    claim,      \* the claims in flight
    status,     \* tenant.status
    clock

vars == <<active, invite, device, staff, claim, status, clock>>

\* Nothing here tells a trial from an active tenant.
TenantStatus == {"active", "suspended", "archived"}

\* used_at holds whichever of a claim and a re-invite came first.  No code can
\* tell which it was: voided is kept for the properties.
InviteRow == [worker: Workers, code: Codes, expiresAt: Nat, used: BOOLEAN, voided: BOOLEAN]

\* The invite a token was minted from is kept for the properties too.
DeviceRow == [worker: Workers, revoked: BOOLEAN, invite: Invites]

\* seen are the unused invites that stood before the voiding statement, kept for
\* a property.
StaffCall ==
    [op: {"create", "reinvite"}, pc: {"gated", "revoke", "void", "insert"},
     tenant: Tenants, worker: Workers, revoke: BOOLEAN, expires: Nat, seen: SUBSET Invites]
    \cup
    [op: {"patch"}, tenant: Tenants, worker: Workers, active: BOOLEAN]

Claim == [pc: {"read", "begun", "locked"}, invite: Invites]

TypeOK ==
    /\ IsTable(active, Workers, BOOLEAN)
    /\ IsTable(invite, Invites, InviteRow)
    /\ \A i \in DOMAIN invite : invite[i].worker \in DOMAIN active
    /\ IsTable(device, Devices, DeviceRow)
    /\ \A d \in DOMAIN device : device[d].invite \in DOMAIN invite
    /\ IsTable(staff, StaffCalls, StaffCall)
    /\ IsTable(claim, Claims, Claim)
    /\ \A c \in DOMAIN claim : claim[c].invite \in DOMAIN invite
    /\ status \in [Tenants -> TenantStatus]
    /\ clock \in Nat

Init ==
    /\ active = EmptyTable
    /\ invite = EmptyTable
    /\ device = EmptyTable
    /\ staff = EmptyTable
    /\ claim = EmptyTable
    /\ status = [t \in Tenants |-> "active"]
    /\ clock = 0

-----------------------------------------------------------------------------
(***************************************************************************)
(* Queries                                                                 *)
(***************************************************************************)

\* A claim's transaction has updated the row and not committed yet.
Locked(i) == \E c \in DOMAIN claim : claim[c].pc = "locked" /\ claim[c].invite = i

Unused(w) == {i \in DOMAIN invite : invite[i].worker = w /\ ~invite[i].used}

\* GetActiveInvite: the invites a code may claim.
GetActiveInvite(k) ==
    {i \in DOMAIN invite :
        /\ invite[i].code = k
        /\ ~invite[i].used
        /\ invite[i].expiresAt > clock
        /\ active[invite[i].worker]}

\* Mutant: a code is unique among the codes of one tenant.
CodeTakenInTenant(k, t) ==
    \E i \in DOMAIN invite :
        invite[i].code = k /\ ~invite[i].used /\ TenantOf[invite[i].worker] = t

\* The unique index over codes unused, of every tenant, expired or not.
CodeTaken(k, t) == \E i \in DOMAIN invite : invite[i].code = k /\ ~invite[i].used

\* GetDeviceSession: the token authenticates.
GetDeviceSession(d) ==
    d \in DOMAIN device /\ ~device[d].revoked /\ active[device[d].worker]

\* ListWorkers: of the codes pending for w, the one that expires last.
ListedInvites(w) ==
    LET pending == {i \in Unused(w) : invite[i].expiresAt > clock}
    IN  {i \in pending : \A j \in pending : invite[j].expiresAt <= invite[i].expiresAt}

\* Authorize, for a staff operation that changes something.
Authorize(t) == status[t] \notin {"suspended", "archived"}

-----------------------------------------------------------------------------
(***************************************************************************)
(* Staff requests                                                          *)
(***************************************************************************)

CreateStaffWorker(a, w) ==
    /\ a \notin DOMAIN staff
    /\ Authorize(TenantOf[w])
    /\ staff' = Put(staff, a, [op |-> "create", pc |-> "gated", tenant |-> TenantOf[w],
                               worker |-> w, revoke |-> FALSE, expires |-> 0, seen |-> {}])
    /\ UNCHANGED <<active, invite, device, claim, status, clock>>

InsertWorker(a) ==
    /\ a \in DOMAIN staff /\ staff[a].op = "create" /\ staff[a].pc = "gated"
    /\ staff[a].worker \notin DOMAIN active
    /\ active' = Put(active, staff[a].worker, TRUE)
    /\ staff' = [staff EXCEPT ![a].pc = "void"]
    /\ UNCHANGED <<invite, device, claim, status, clock>>

ReinviteStaffWorker(a, r) ==
    /\ a \notin DOMAIN staff
    /\ Authorize(r.tenant)
    /\ staff' = Put(staff, a, [op |-> "reinvite", pc |-> "gated", tenant |-> r.tenant,
                               worker |-> r.worker, revoke |-> r.revoke, expires |-> 0,
                               seen |-> {}])
    /\ UNCHANGED <<active, invite, device, claim, status, clock>>

\* Mutant: nobody looks whether there is such a worker.
AnyWorkerOf(w, t) == TRUE

\* GetWorker finds a worker of the tenant.
IsWorkerOf(w, t) == w \in DOMAIN active /\ TenantOf[w] = t

GetWorker(a) ==
    /\ a \in DOMAIN staff /\ staff[a].op = "reinvite" /\ staff[a].pc = "gated"
    /\ IsWorkerOf(staff[a].worker, staff[a].tenant)
    /\ staff' = [staff EXCEPT ![a].pc = IF staff[a].revoke THEN "revoke" ELSE "void"]
    /\ UNCHANGED <<active, invite, device, claim, status, clock>>

\* It does not see the token of a claim that has not committed.
RevokeWorkerDeviceTokens(a) ==
    /\ a \in DOMAIN staff /\ staff[a].op = "reinvite" /\ staff[a].pc = "revoke"
    /\ device' = [d \in DOMAIN device |->
                    IF device[d].worker = staff[a].worker
                    THEN [device[d] EXCEPT !.revoked = TRUE] ELSE device[d]]
    /\ staff' = [staff EXCEPT ![a].pc = "void"]
    /\ UNCHANGED <<active, invite, claim, status, clock>>

\* Mutant: only codes that are still pending are voided.
VoidedIfPending(w) == {i \in Unused(w) : invite[i].expiresAt > clock}

\* What the voiding UPDATE matches.
Voided(w) == Unused(w)

\* CreateInvite: it waits for the rows that claims hold.  The new code's expiry
\* is fixed here.
VoidWorkerInvites(a) ==
    LET w == staff[a].worker
    IN  /\ a \in DOMAIN staff /\ staff[a].op # "patch" /\ staff[a].pc = "void"
        /\ \A i \in Voided(w) : ~Locked(i)
        /\ invite' = [i \in DOMAIN invite |->
                        IF i \in Voided(w)
                        THEN [invite[i] EXCEPT !.used = TRUE, !.voided = TRUE]
                        ELSE invite[i]]
        /\ staff' = [staff EXCEPT ![a].pc = "insert", ![a].expires = clock + InviteTTL,
                                  ![a].seen = Unused(w)]
        /\ UNCHANGED <<active, device, claim, status, clock>>

\* The draw that is not taken; one that is taken is drawn again, five times at
\* most.  The insert waits for a claim that is using its code up.
InsertInvite(a, i, k) ==
    /\ a \in DOMAIN staff /\ staff[a].op # "patch" /\ staff[a].pc = "insert"
    /\ i \notin DOMAIN invite
    /\ ~CodeTaken(k, staff[a].tenant)
    /\ invite' = Put(invite, i, [worker |-> staff[a].worker, code |-> k,
                                 expiresAt |-> staff[a].expires,
                                 used |-> FALSE, voided |-> FALSE])
    /\ staff' = Without(staff, a)
    /\ UNCHANGED <<active, device, claim, status, clock>>

\* Activate or deactivate; the tokens and the codes stay as they are.
PatchStaffWorker(a, p) ==
    /\ a \notin DOMAIN staff
    /\ Authorize(p.tenant)
    /\ staff' = Put(staff, a, [op |-> "patch", tenant |-> p.tenant, worker |-> p.worker,
                               active |-> p.active])
    /\ UNCHANGED <<active, invite, device, claim, status, clock>>

UpdateWorker(a) ==
    /\ a \in DOMAIN staff /\ staff[a].op = "patch"
    /\ IsWorkerOf(staff[a].worker, staff[a].tenant)
    /\ active' = [active EXCEPT ![staff[a].worker] = staff[a].active]
    /\ staff' = Without(staff, a)
    /\ UNCHANGED <<invite, device, claim, status, clock>>

\* No such worker, no free code in five draws, a failing database, a cancelled
\* request or a crash: the call ends, what it committed stays.
EndStaffCall(a) ==
    /\ a \in DOMAIN staff
    /\ staff' = Without(staff, a)
    /\ UNCHANGED <<active, invite, device, claim, status, clock>>

-----------------------------------------------------------------------------
(***************************************************************************)
(* ClaimWorker                                                             *)
(***************************************************************************)

ReadInvite(c, k) ==
    /\ c \notin DOMAIN claim
    /\ \E i \in GetActiveInvite(k) : claim' = Put(claim, c, [pc |-> "read", invite |-> i])
    /\ UNCHANGED <<active, invite, device, staff, status, clock>>

AssertTenantNotArchived(c) ==
    /\ c \in DOMAIN claim /\ claim[c].pc = "read"
    /\ status[TenantOf[invite[claim[c].invite].worker]] # "archived"
    /\ claim' = [claim EXCEPT ![c].pc = "begun"]
    /\ UNCHANGED <<active, invite, device, staff, status, clock>>

\* Mutant: the UPDATE goes by the id alone.
ClaimableById(i) == TRUE

\* ClaimInvite: by id, and only while nobody has used the invite up.
Claimable(i) == ~invite[i].used

ClaimInvite(c) ==
    /\ c \in DOMAIN claim /\ claim[c].pc = "begun"
    /\ ~Locked(claim[c].invite)
    /\ Claimable(claim[c].invite)
    /\ claim' = [claim EXCEPT ![c].pc = "locked"]
    /\ UNCHANGED <<active, invite, device, staff, status, clock>>

\* The used invite and the token become visible together.
CommitClaim(c, d) ==
    LET i == claim[c].invite
    IN  /\ c \in DOMAIN claim /\ claim[c].pc = "locked"
        /\ d \notin DOMAIN device
        /\ invite' = [invite EXCEPT ![i].used = TRUE]
        /\ device' = Put(device, d, [worker |-> invite[i].worker, revoked |-> FALSE,
                                     invite |-> i])
        /\ claim' = Without(claim, c)
        /\ UNCHANGED <<active, staff, status, clock>>

\* The code is spent, the tenant archived, or anything fails: the claim rolls
\* back.
EndClaim(c) ==
    /\ c \in DOMAIN claim
    /\ claim' = Without(claim, c)
    /\ UNCHANGED <<active, invite, device, staff, status, clock>>

-----------------------------------------------------------------------------
(***************************************************************************)
(* The operator.  Archiving is still done by hand, in SQL.                 *)
(***************************************************************************)

SetStatus(t, s) ==
    /\ status[t] # s
    /\ status' = [status EXCEPT ![t] = s]
    /\ UNCHANGED <<active, invite, device, staff, claim, clock>>

OpsSuspend(t) == SetStatus(t, "suspended")
OpsActivate(t) == SetStatus(t, "active")
Archive(t) == SetStatus(t, "archived")

Tick ==
    /\ clock < MaxTime
    /\ clock' = clock + 1
    /\ UNCHANGED <<active, invite, device, staff, claim, status>>

StaffStep ==
    \E a \in StaffCalls :
        \/ \E w \in Workers : CreateStaffWorker(a, w)
        \/ \E r \in Reinvites : ReinviteStaffWorker(a, r)
        \/ \E p \in Patches : PatchStaffWorker(a, p)
        \/ InsertWorker(a)
        \/ GetWorker(a)
        \/ RevokeWorkerDeviceTokens(a)
        \/ VoidWorkerInvites(a)
        \/ \E i \in Invites, k \in Codes : InsertInvite(a, i, k)
        \/ UpdateWorker(a)
        \/ EndStaffCall(a)

ClaimStep ==
    \E c \in Claims :
        \/ \E k \in Codes : ReadInvite(c, k)
        \/ AssertTenantNotArchived(c)
        \/ ClaimInvite(c)
        \/ \E d \in Devices : CommitClaim(c, d)
        \/ EndClaim(c)

OperatorStep == \E t \in Operated : OpsSuspend(t) \/ OpsActivate(t) \/ Archive(t)

Next == StaffStep \/ ClaimStep \/ OperatorStep \/ Tick

Spec == Init /\ [][Next]_vars

-----------------------------------------------------------------------------
(***************************************************************************)
(* Properties                                                              *)
(***************************************************************************)

MintedFrom(i) == {d \in DOMAIN device : device[d].invite = i}

\* Claims and re-invites compete for an invite, and exactly one of them gets
\* it: an invite is used up either by one re-invite that voided it or by one
\* claim, which left one device token; until then it has done neither
\* (service.go:227-233).
InviteEndsOneWay ==
    \A i \in DOMAIN invite :
        Cardinality(MintedFrom(i)) + (IF invite[i].voided THEN 1 ELSE 0)
            = IF invite[i].used THEN 1 ELSE 0

\* The code the roster shows for an active worker signs a phone in as that
\* worker, and as nobody of another tenant (roster/http.go:169-184).
ListedCodeIsClaimable ==
    \A w \in DOMAIN active : \A i \in ListedInvites(w) :
        active[w] => GetActiveInvite(invite[i].code) = {i}

\* A re-invite leaves no older code behind: when it issues its own, only codes
\* issued by a re-invite that ran at the same time are still unused
\* (invite.go:31-35).
ReinviteReplacesCodes ==
    [][\A a \in StaffCalls, i \in Invites, k \in Codes :
        InsertInvite(a, i, k) =>
            Unused(staff[a].worker) \cap staff[a].seen = {}]_vars

(***************************************************************************)
(* A claim the code does not keep                                          *)
(***************************************************************************)

\* roster/http.go:114-117: revoking first "fails safe" instead of "leaving
\* stale tokens authenticated alongside a fresh code".
FreshCodeStandsAlone ==
    [][\A a \in StaffCalls, i \in Invites, k \in Codes :
        InsertInvite(a, i, k) /\ staff[a].revoke =>
            ~\E d \in DOMAIN device :
                device[d].worker = staff[a].worker /\ GetDeviceSession(d)]_vars

=============================================================================
