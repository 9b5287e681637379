----------------------------- MODULE AccessProofs -----------------------------
(***************************************************************************)
(* Proofs about Access, for any workers, codes, phones and requests in     *)
(* flight.  A staff request and a claim each act on what they read in an   *)
(* earlier statement: the proofs rest on what used_at, the unique index    *)
(* and a claim's row lock keep true until then.                            *)
(***************************************************************************)
EXTENDS Access, TableTheorems, TLAPS

\* No two unused invites have the same code.
UniqueCodes ==
    \A i, j \in DOMAIN invite :
        ~invite[i].used /\ ~invite[j].used /\ invite[i].code = invite[j].code => i = j

InvitesOK ==
    /\ IsTable(invite, Invites, InviteRow)
    /\ \A i \in DOMAIN invite : invite[i].worker \in DOMAIN active
    /\ UniqueCodes

\* InviteEndsOneWay, said without counting.
Spent ==
    \A i \in DOMAIN invite :
        IF invite[i].used /\ ~invite[i].voided
        THEN \E d \in Devices : MintedFrom(i) = {d}
        ELSE MintedFrom(i) = {} /\ (invite[i].voided => invite[i].used)

DevicesOK ==
    /\ IsTable(device, Devices, DeviceRow)
    /\ \A d \in DOMAIN device : device[d].invite \in DOMAIN invite
    /\ Spent

\* Past its first statement a staff request has a worker, and past the voiding
\* one the invites it found are used up.
StaffHolds ==
    \A a \in DOMAIN staff :
        staff[a].op # "patch" =>
            /\ staff[a].pc # "gated" => staff[a].worker \in DOMAIN active
            /\ staff[a].pc = "insert" =>
                \A i \in staff[a].seen : i \in DOMAIN invite /\ invite[i].used

StaffOK == IsTable(staff, StaffCalls, StaffCall) /\ StaffHolds

\* An invite whose row is held is unused, and held once.
ClaimsHold ==
    /\ \A c \in DOMAIN claim :
        /\ claim[c].invite \in DOMAIN invite
        /\ claim[c].pc = "locked" => ~invite[claim[c].invite].used
    /\ \A b, c \in DOMAIN claim :
        claim[b].pc = "locked" /\ claim[c].pc = "locked" /\ claim[b].invite = claim[c].invite
            => b = c

ClaimsOK == IsTable(claim, Claims, Claim) /\ ClaimsHold

RestOK ==
    /\ IsTable(active, Workers, BOOLEAN)
    /\ status \in [Tenants -> TenantStatus]
    /\ clock \in Nat

IInv ==
    /\ InvitesOK
    /\ DevicesOK
    /\ StaffOK
    /\ ClaimsOK
    /\ RestOK

LEMMA IInvInit == Init => IInv
<1> SUFFICES ASSUME Init PROVE IInv
    OBVIOUS
<1>1. /\ DOMAIN active = {} /\ DOMAIN invite = {} /\ DOMAIN device = {}
      /\ DOMAIN staff = {} /\ DOMAIN claim = {}
    BY EmptyIsTable DEF Init
<1>2. /\ IsTable(active, Workers, BOOLEAN) /\ IsTable(invite, Invites, InviteRow)
      /\ IsTable(device, Devices, DeviceRow) /\ IsTable(staff, StaffCalls, StaffCall)
      /\ IsTable(claim, Claims, Claim)
    BY EmptyIsTable DEF Init
<1>3. status \in [Tenants -> TenantStatus] /\ clock \in Nat
    BY DEF Init, TenantStatus
<1> QED
    BY <1>1, <1>2, <1>3 DEF IInv, InvitesOK, UniqueCodes, DevicesOK, Spent, StaffOK, StaffHolds,
        ClaimsOK, ClaimsHold, RestOK

-----------------------------------------------------------------------------
(***************************************************************************)
(* Rows and calls                                                          *)
(***************************************************************************)

LEMMA InviteRows ==
    ASSUME InvitesOK, NEW i \in DOMAIN invite
    PROVE  /\ i \in Invites /\ invite[i] \in InviteRow
           /\ invite[i].worker \in Workers /\ invite[i].worker \in DOMAIN active
           /\ invite[i].used \in BOOLEAN /\ invite[i].voided \in BOOLEAN
    BY DEF InvitesOK, IsTable, InviteRow

LEMMA StaffRows ==
    ASSUME StaffOK, NEW a \in DOMAIN staff
    PROVE  /\ staff[a] \in StaffCall /\ staff[a].worker \in Workers
           /\ staff[a].tenant \in Tenants
           /\ staff[a].op # "patch" => /\ staff[a].expires \in Nat
                                       /\ staff[a].seen \subseteq Invites
           /\ staff[a].op = "patch" => staff[a].active \in BOOLEAN
    BY DEF StaffOK, IsTable, StaffCall

LEMMA ClaimRows ==
    ASSUME ClaimsOK, NEW c \in DOMAIN claim
    PROVE  claim[c] \in Claim /\ claim[c].invite \in DOMAIN invite
    BY DEF ClaimsOK, ClaimsHold, IsTable

\* What staff requests remember stays true: workers stay, and what was used up.
NothingUndone ==
    /\ DOMAIN active \subseteq DOMAIN active'
    /\ DOMAIN invite \subseteq DOMAIN invite'
    /\ \A i \in DOMAIN invite : invite[i].used => invite'[i].used

LEMMA StaffStays ==
    ASSUME StaffOK, UNCHANGED staff, NothingUndone
    PROVE  StaffOK'
    BY DEF StaffOK, StaffHolds, NothingUndone

\* A staff request ends.
LEMMA StaffEnds ==
    ASSUME StaffOK, NEW a, staff' = Without(staff, a), NothingUndone
    PROVE  StaffOK'
<1>1. IsTable(staff', StaffCalls, StaffCall)
    BY WithoutTable DEF StaffOK
<1>2. \A b \in DOMAIN staff' : b \in DOMAIN staff /\ staff'[b] = staff[b]
    BY DEF Without, Restrict
<1> QED
    BY <1>1, <1>2 DEF StaffOK, StaffHolds, NothingUndone

\* A staff request begins.
LEMMA StaffBegins ==
    ASSUME StaffOK, NEW a \in StaffCalls, NEW row \in StaffCall, staff' = Put(staff, a, row),
           row.op = "patch" \/ row.pc = "gated", NothingUndone
    PROVE  StaffOK'
<1>1. IsTable(staff', StaffCalls, StaffCall)
    BY PutTable DEF StaffOK
<1>2. /\ DOMAIN staff' = DOMAIN staff \cup {a}
      /\ staff'[a] = row
      /\ \A b \in DOMAIN staff : b # a => staff'[b] = staff[b]
    BY DEF Put
<1> QED
    BY <1>1, <1>2 DEF StaffOK, StaffHolds, NothingUndone

\* A staff request goes on to its next statement.
LEMMA StaffGoesOn ==
    ASSUME StaffOK, NEW a \in DOMAIN staff, staff[a].op # "patch", NothingUndone,
           NEW pc \in {"revoke", "void"}, staff' = [staff EXCEPT ![a].pc = pc],
           staff[a].worker \in DOMAIN active'
    PROVE  StaffOK'
<1>1. PICK row \in StaffCall : row = staff[a] /\ row.op \in {"create", "reinvite"}
    BY StaffRows DEF StaffCall
<1>2. /\ DOMAIN staff' = DOMAIN staff
      /\ staff'[a] = [row EXCEPT !.pc = pc]
      /\ \A b \in DOMAIN staff : b # a => staff'[b] = staff[b]
      /\ staff' = [b \in DOMAIN staff' |-> staff'[b]]
    BY <1>1 DEF StaffOK, IsTable
<1>3. staff'[a] \in StaffCall
    BY <1>1, <1>2 DEF StaffCall
<1>4. staff'[a].pc = pc /\ staff'[a].worker = row.worker /\ staff'[a].op = row.op
    BY <1>1, <1>2 DEF StaffCall
<1>5. IsTable(staff', StaffCalls, StaffCall)
    BY <1>2, <1>3 DEF StaffOK, IsTable
<1> QED
    BY <1>1, <1>2, <1>4, <1>5 DEF StaffOK, StaffHolds, NothingUndone

\* What claims remember stays true while nobody uses an invite up that is held.
LEMMA ClaimsStay ==
    ASSUME ClaimsOK, UNCHANGED claim, DOMAIN invite \subseteq DOMAIN invite',
           \A i \in DOMAIN invite : Locked(i) => invite'[i].used = invite[i].used
    PROVE  ClaimsOK'
    BY DEF ClaimsOK, ClaimsHold, Locked

\* The invites and the tokens stay as they are.
LEMMA InvitesStay ==
    ASSUME InvitesOK, UNCHANGED invite, DOMAIN active \subseteq DOMAIN active'
    PROVE  InvitesOK'
    BY DEF InvitesOK, UniqueCodes

LEMMA DevicesStay ==
    ASSUME DevicesOK, UNCHANGED <<device, invite>>
    PROVE  DevicesOK'
    BY DEF DevicesOK, Spent, MintedFrom

-----------------------------------------------------------------------------
(***************************************************************************)
(* Staff requests                                                          *)
(***************************************************************************)

\* A step that leaves invites and tokens, and with them the claims, alone.
LEMMA InvitesAside ==
    ASSUME IInv, UNCHANGED <<invite, device, claim>>, StaffOK',
           IsTable(active', Workers, BOOLEAN), DOMAIN active \subseteq DOMAIN active',
           UNCHANGED <<status, clock>>
    PROVE  IInv'
<1>1. InvitesOK' /\ DevicesOK' /\ ClaimsOK'
    BY InvitesStay, DevicesStay, ClaimsStay DEF IInv
<1> QED
    BY <1>1 DEF IInv, RestOK

LEMMA RequestKeepsIInv ==
    ASSUME IInv, NEW a \in StaffCalls,
           \/ \E w \in Workers : CreateStaffWorker(a, w)
           \/ \E r \in Reinvites : ReinviteStaffWorker(a, r)
           \/ \E p \in Patches : PatchStaffWorker(a, p)
    PROVE  IInv'
<1>1. UNCHANGED <<active, invite, device, claim, status, clock>>
    BY DEF CreateStaffWorker, ReinviteStaffWorker, PatchStaffWorker
<1>2. NothingUndone
    BY <1>1 DEF NothingUndone
<1>3. PICK row \in StaffCall :
        staff' = Put(staff, a, row) /\ (row.op = "patch" \/ row.pc = "gated")
    <2>1. CASE \E w \in Workers : CreateStaffWorker(a, w)
        <3>1. PICK w \in Workers : CreateStaffWorker(a, w)
            BY <2>1
        <3> DEFINE new == [op |-> "create", pc |-> "gated", tenant |-> TenantOf[w],
                           worker |-> w, revoke |-> FALSE, expires |-> 0, seen |-> {}]
        <3>2. new \in StaffCall
            BY AccessAssumption DEF StaffCall
        <3> QED
            BY <3>1, <3>2 DEF CreateStaffWorker
    <2>2. CASE \E r \in Reinvites : ReinviteStaffWorker(a, r)
        <3>1. PICK r \in Reinvites : ReinviteStaffWorker(a, r)
            BY <2>2
        <3> DEFINE new == [op |-> "reinvite", pc |-> "gated", tenant |-> r.tenant,
                           worker |-> r.worker, revoke |-> r.revoke, expires |-> 0,
                           seen |-> {}]
        <3>2. r.tenant \in Tenants /\ r.worker \in Workers /\ r.revoke \in BOOLEAN
            BY AccessAssumption
        <3>3. new \in StaffCall
            BY <3>2 DEF StaffCall
        <3> QED
            BY <3>1, <3>3 DEF ReinviteStaffWorker
    <2>3. CASE \E p \in Patches : PatchStaffWorker(a, p)
        <3>1. PICK p \in Patches : PatchStaffWorker(a, p)
            BY <2>3
        <3> DEFINE new == [op |-> "patch", tenant |-> p.tenant, worker |-> p.worker,
                           active |-> p.active]
        <3>2. p.tenant \in Tenants /\ p.worker \in Workers /\ p.active \in BOOLEAN
            BY AccessAssumption
        <3>3. new \in StaffCall
            BY <3>2 DEF StaffCall
        <3> QED
            BY <3>1, <3>3 DEF PatchStaffWorker
    <2> QED
        BY <2>1, <2>2, <2>3
<1>4. StaffOK'
    BY <1>2, <1>3, StaffBegins DEF IInv
<1> QED
    BY <1>1, <1>4, InvitesAside DEF IInv, RestOK

LEMMA InsertWorkerKeepsIInv ==
    ASSUME IInv, NEW a \in StaffCalls, InsertWorker(a)
    PROVE  IInv'
<1>1. /\ UNCHANGED <<invite, device, claim, status, clock>>
      /\ a \in DOMAIN staff /\ staff[a].op # "patch" /\ staff[a].worker \in Workers
      /\ active' = Put(active, staff[a].worker, TRUE)
    BY StaffRows DEF InsertWorker, IInv
<1>2. IsTable(active', Workers, BOOLEAN)
    BY <1>1, PutTable DEF IInv, RestOK
<1>3. DOMAIN active' = DOMAIN active \cup {staff[a].worker}
    BY <1>1 DEF Put
<1>4. NothingUndone
    BY <1>1, <1>3 DEF NothingUndone
<1>5. StaffOK'
    BY <1>1, <1>3, <1>4, StaffGoesOn DEF InsertWorker, IInv
<1> QED
    BY <1>1, <1>2, <1>3, <1>5, InvitesAside

LEMMA GetWorkerKeepsIInv ==
    ASSUME IInv, NEW a \in StaffCalls, GetWorker(a)
    PROVE  IInv'
<1>1. /\ UNCHANGED <<active, invite, device, claim, status, clock>>
      /\ a \in DOMAIN staff /\ staff[a].op # "patch" /\ staff[a].worker \in DOMAIN active'
    BY DEF GetWorker, IsWorkerOf
<1>2. NothingUndone
    BY <1>1 DEF NothingUndone
<1>3. PICK pc \in {"revoke", "void"} : staff' = [staff EXCEPT ![a].pc = pc]
    BY DEF GetWorker
<1>4. StaffOK'
    BY <1>1, <1>2, <1>3, StaffGoesOn DEF IInv
<1> QED
    BY <1>1, <1>4, InvitesAside DEF IInv, RestOK

LEMMA UpdateWorkerKeepsIInv ==
    ASSUME IInv, NEW a \in StaffCalls, UpdateWorker(a) \/ EndStaffCall(a)
    PROVE  IInv'
<1>1. /\ UNCHANGED <<invite, device, claim, status, clock>>
      /\ a \in DOMAIN staff /\ staff' = Without(staff, a)
    BY DEF UpdateWorker, EndStaffCall
<1>2. IsTable(active', Workers, BOOLEAN) /\ DOMAIN active' = DOMAIN active
    <2>1. CASE UpdateWorker(a)
        <3>1. PICK v \in BOOLEAN : v = staff[a].active
            BY <1>1, <2>1, StaffRows DEF UpdateWorker, IInv
        <3>2. active' = [active EXCEPT ![staff[a].worker] = v]
            BY <2>1, <3>1 DEF UpdateWorker
        <3> QED
            BY <3>2 DEF IInv, RestOK, IsTable
    <2>2. CASE EndStaffCall(a)
        BY <2>2 DEF EndStaffCall, IInv, RestOK
    <2> QED
        BY <2>1, <2>2
<1>3. NothingUndone
    BY <1>1, <1>2 DEF NothingUndone
<1>4. StaffOK'
    BY <1>1, <1>3, StaffEnds DEF IInv
<1> QED
    BY <1>1, <1>2, <1>4, InvitesAside

\* Revoking tokens says nothing of the invites they were minted from.
LEMMA RevokeKeepsIInv ==
    ASSUME IInv, NEW a \in StaffCalls, RevokeWorkerDeviceTokens(a)
    PROVE  IInv'
<1>1. /\ UNCHANGED <<active, invite, claim, status, clock>>
      /\ a \in DOMAIN staff /\ staff[a].op # "patch" /\ staff[a].worker \in DOMAIN active
    BY DEF RevokeWorkerDeviceTokens, IInv, StaffOK, StaffHolds
<1>2. ASSUME NEW d \in DOMAIN device
      PROVE  device'[d] \in DeviceRow /\ device'[d].invite = device[d].invite
    <2>1. PICK row \in DeviceRow : row = device[d]
        BY <1>2 DEF IInv, DevicesOK, IsTable
    <2>2. device'[d] = row \/ device'[d] = [row EXCEPT !.revoked = TRUE]
        BY <2>1 DEF RevokeWorkerDeviceTokens
    <2> QED
        BY <2>1, <2>2 DEF DeviceRow
<1>3. /\ DOMAIN device' = DOMAIN device
      /\ device' = [d \in DOMAIN device' |-> device'[d]]
    BY DEF RevokeWorkerDeviceTokens
<1>4. IsTable(device', Devices, DeviceRow)
    BY <1>2, <1>3 DEF IInv, DevicesOK, IsTable
<1>5. \A i : MintedFrom(i)' = MintedFrom(i)
    BY <1>2, <1>3 DEF MintedFrom
<1>6. DevicesOK'
    BY <1>1, <1>2, <1>3, <1>4, <1>5 DEF IInv, DevicesOK, Spent
<1>7. NothingUndone
    BY <1>1 DEF NothingUndone
<1>8. StaffOK'
    BY <1>1, <1>7, StaffGoesOn DEF RevokeWorkerDeviceTokens, IInv
<1>9. InvitesOK' /\ ClaimsOK'
    BY <1>1, InvitesStay, ClaimsStay DEF IInv
<1> QED
    BY <1>1, <1>6, <1>8, <1>9 DEF IInv, RestOK

\* What the voiding statement does to the invites.
LEMMA VoidFacts ==
    ASSUME IInv, NEW a \in StaffCalls, VoidWorkerInvites(a)
    PROVE  /\ IsTable(invite', Invites, InviteRow)
           /\ DOMAIN invite' = DOMAIN invite
           /\ \A i \in Unused(staff[a].worker) :
                /\ invite'[i].used /\ invite'[i].voided
                /\ invite'[i].worker = invite[i].worker
                /\ i \in DOMAIN invite /\ ~invite[i].used /\ ~Locked(i)
           /\ \A i \in DOMAIN invite \ Unused(staff[a].worker) : invite'[i] = invite[i]
<1>1. PICK w \in Workers : w = staff[a].worker
    BY StaffRows DEF IInv, VoidWorkerInvites
<1>2. /\ DOMAIN invite' = DOMAIN invite
      /\ invite' = [i \in DOMAIN invite' |-> invite'[i]]
      /\ \A i \in Unused(w) : i \in DOMAIN invite /\ ~invite[i].used /\ ~Locked(i)
      /\ \A i \in DOMAIN invite \ Unused(w) : invite'[i] = invite[i]
    BY <1>1 DEF VoidWorkerInvites, Voided, Unused
<1>3. ASSUME NEW i \in Unused(w)
      PROVE  /\ invite'[i] \in InviteRow
             /\ invite'[i].used /\ invite'[i].voided /\ invite'[i].worker = invite[i].worker
    <2>1. PICK row \in InviteRow : row = invite[i]
        BY <1>2, InviteRows DEF IInv
    <2>2. invite'[i] = [row EXCEPT !.used = TRUE, !.voided = TRUE]
        BY <1>1, <1>2, <2>1 DEF VoidWorkerInvites, Voided
    <2>3. invite'[i] \in InviteRow
        BY <2>2 DEF InviteRow
    <2>4. invite'[i].used = TRUE
        BY <2>2 DEF InviteRow
    <2>5. invite'[i].voided = TRUE
        BY <2>2 DEF InviteRow
    <2>6. invite'[i].worker = row.worker
        BY <2>2 DEF InviteRow
    <2> QED
        BY <2>1, <2>3, <2>4, <2>5, <2>6
<1>4. IsTable(invite', Invites, InviteRow)
    BY <1>2, <1>3, InviteRows DEF IsTable, IInv, InvitesOK
<1> QED
    BY <1>1, <1>2, <1>3, <1>4

LEMMA VoidKeepsIInv ==
    ASSUME IInv, NEW a \in StaffCalls, VoidWorkerInvites(a)
    PROVE  IInv'
<1>1. /\ UNCHANGED <<active, device, claim, status, clock>>
      /\ a \in DOMAIN staff /\ staff[a].op # "patch"
    BY DEF VoidWorkerInvites
<1>2. PICK w \in Workers, now \in Nat : w = staff[a].worker /\ now = clock + InviteTTL
    BY <1>1, StaffRows, AccessAssumption DEF IInv, RestOK
<1>3. /\ IsTable(invite', Invites, InviteRow)
      /\ DOMAIN invite' = DOMAIN invite
      /\ \A i \in Unused(w) : /\ invite'[i].used /\ invite'[i].voided
                              /\ invite'[i].worker = invite[i].worker
                              /\ i \in DOMAIN invite /\ ~invite[i].used /\ ~Locked(i)
      /\ \A i \in DOMAIN invite \ Unused(w) : invite'[i] = invite[i]
    BY <1>2, VoidFacts
<1>4. InvitesOK'
    <2>1. \A i \in DOMAIN invite' : invite'[i].worker \in DOMAIN active'
        BY <1>1, <1>3, InviteRows DEF IInv
    <2>2. UniqueCodes'
        BY <1>3 DEF IInv, InvitesOK, UniqueCodes
    <2> QED
        BY <1>3, <2>1, <2>2 DEF InvitesOK
<1>5. DevicesOK'
    <2>1. \A i : MintedFrom(i)' = MintedFrom(i)
        BY <1>1 DEF MintedFrom
    <2> QED
        BY <1>1, <1>3, <2>1 DEF IInv, DevicesOK, Spent
<1>6. ClaimsOK'
    BY <1>1, <1>3, ClaimsStay DEF IInv
<1>7. NothingUndone
    BY <1>1, <1>3 DEF NothingUndone
<1>8. StaffOK'
    <2>1. PICK row \in StaffCall, seen \in SUBSET Invites :
            row = staff[a] /\ row.op \in {"create", "reinvite"} /\ seen = Unused(w)
        BY <1>1, <1>3, StaffRows DEF IInv, StaffCall, Unused, InvitesOK, IsTable
    <2>2. /\ DOMAIN staff' = DOMAIN staff
          /\ \A b \in DOMAIN staff : b # a => staff'[b] = staff[b]
          /\ staff' = [b \in DOMAIN staff' |-> staff'[b]]
        BY DEF VoidWorkerInvites, IInv, StaffOK, IsTable
    <2>3. staff'[a] = [row EXCEPT !.pc = "insert", !.expires = now, !.seen = seen]
        BY <1>1, <1>2, <2>1 DEF VoidWorkerInvites, IInv, StaffOK, IsTable
    <2>4. staff'[a] \in StaffCall
        BY <2>1, <2>3 DEF StaffCall
    <2>5. /\ staff'[a].op = row.op /\ staff'[a].worker = w
          /\ staff'[a].seen = seen
        BY <1>2, <2>1, <2>3 DEF StaffCall
    <2>6. w \in DOMAIN active
        BY <1>1, <1>2 DEF IInv, StaffOK, StaffHolds, VoidWorkerInvites
    <2>7. IsTable(staff', StaffCalls, StaffCall)
        BY <2>2, <2>4 DEF IInv, StaffOK, IsTable
    <2> QED
        BY <1>1, <1>3, <1>7, <2>1, <2>2, <2>5, <2>6, <2>7
           DEF IInv, StaffOK, StaffHolds, NothingUndone
<1> QED
    BY <1>1, <1>4, <1>5, <1>6, <1>8 DEF IInv, RestOK

\* The unique index keeps the new code apart from every unused one.
LEMMA InsertInviteKeepsIInv ==
    ASSUME IInv, NEW a \in StaffCalls, NEW i \in Invites, NEW k \in Codes, InsertInvite(a, i, k)
    PROVE  IInv'
<1>1. /\ UNCHANGED <<active, device, claim, status, clock>>
      /\ a \in DOMAIN staff /\ staff[a].op # "patch" /\ staff[a].pc = "insert"
      /\ i \notin DOMAIN invite /\ staff' = Without(staff, a)
      /\ \A j \in DOMAIN invite : ~(invite[j].code = k /\ ~invite[j].used)
    BY DEF InsertInvite, CodeTaken
<1>2. PICK w \in Workers, e \in Nat : w = staff[a].worker /\ e = staff[a].expires
    BY <1>1, StaffRows DEF IInv
<1> DEFINE row == [worker |-> w, code |-> k, expiresAt |-> e, used |-> FALSE, voided |-> FALSE]
<1>3. row \in InviteRow /\ invite' = Put(invite, i, row)
    BY <1>2 DEF InsertInvite, InviteRow
<1>4. /\ DOMAIN invite' = DOMAIN invite \cup {i}
      /\ invite'[i] = row
      /\ \A j \in DOMAIN invite : invite'[j] = invite[j]
    BY <1>1, <1>3 DEF Put
<1>5. w \in DOMAIN active
    BY <1>1, <1>2 DEF IInv, StaffOK, StaffHolds
<1>6. InvitesOK'
    <2>1. IsTable(invite', Invites, InviteRow)
        BY <1>3, PutTable DEF IInv, InvitesOK
    <2>2. \A j \in DOMAIN invite' : invite'[j].worker \in DOMAIN active'
        BY <1>1, <1>4, <1>5 DEF IInv, InvitesOK
    <2>3. UniqueCodes'
        BY <1>1, <1>4 DEF IInv, InvitesOK, UniqueCodes
    <2> QED
        BY <2>1, <2>2, <2>3 DEF InvitesOK
<1>7. DevicesOK'
    <2>1. \A j : MintedFrom(j)' = MintedFrom(j)
        BY <1>1 DEF MintedFrom
    <2>2. MintedFrom(i) = {}
        BY <1>1 DEF MintedFrom, IInv, DevicesOK
    <2> QED
        BY <1>1, <1>4, <2>1, <2>2 DEF IInv, DevicesOK, Spent
<1>8. ClaimsOK'
    BY <1>1, <1>4, ClaimsStay DEF IInv
<1>9. NothingUndone
    BY <1>1, <1>4 DEF NothingUndone
<1>10. StaffOK'
    BY <1>1, <1>9, StaffEnds DEF IInv
<1> QED
    BY <1>1, <1>6, <1>7, <1>8, <1>10 DEF IInv, RestOK

-----------------------------------------------------------------------------
(***************************************************************************)
(* Claims                                                                  *)
(***************************************************************************)

\* A step of a claim that commits nothing.
LEMMA ClaimAside ==
    ASSUME IInv, UNCHANGED <<active, invite, device, staff, status, clock>>, ClaimsOK'
    PROVE  IInv'
<1>1. NothingUndone
    BY DEF NothingUndone
<1>2. InvitesOK' /\ DevicesOK' /\ StaffOK'
    BY <1>1, InvitesStay, DevicesStay, StaffStays DEF IInv
<1> QED
    BY <1>2 DEF IInv, RestOK

LEMMA ReadInviteKeepsIInv ==
    ASSUME IInv, NEW c \in Claims, NEW k \in Codes, ReadInvite(c, k)
    PROVE  IInv'
<1>1. PICK i \in DOMAIN invite : claim' = Put(claim, c, [pc |-> "read", invite |-> i])
    BY DEF ReadInvite, GetActiveInvite
<1> DEFINE row == [pc |-> "read", invite |-> i]
<1>2. row \in Claim
    BY InviteRows DEF Claim, IInv
<1>3. IsTable(claim', Claims, Claim)
    BY <1>1, <1>2, PutTable DEF IInv, ClaimsOK
<1>4. /\ DOMAIN claim' = DOMAIN claim \cup {c}
      /\ claim'[c] = row
      /\ \A b \in DOMAIN claim : b # c => claim'[b] = claim[b]
    BY <1>1 DEF Put
<1>5. row.pc # "locked" /\ row.invite = i
    OBVIOUS
<1>6. UNCHANGED <<active, invite, device, staff, status, clock>>
    BY DEF ReadInvite
<1> HIDE DEF row
<1>7. ClaimsOK'
    BY <1>3, <1>4, <1>5, <1>6 DEF IInv, ClaimsOK, ClaimsHold
<1> QED
    BY <1>6, <1>7, ClaimAside

LEMMA ClaimGoesOnKeepsIInv ==
    ASSUME IInv, NEW c \in Claims, AssertTenantNotArchived(c) \/ ClaimInvite(c)
    PROVE  IInv'
<1>1. /\ c \in DOMAIN claim
      /\ UNCHANGED <<active, invite, device, staff, status, clock>>
    BY DEF AssertTenantNotArchived, ClaimInvite
<1>2. PICK row \in Claim : row = claim[c] /\ row.invite \in DOMAIN invite
    BY <1>1, ClaimRows DEF IInv
<1>3. PICK pc \in {"begun", "locked"} :
        /\ claim' = [claim EXCEPT ![c].pc = pc]
        /\ pc = "locked" => ~invite[row.invite].used /\ ~Locked(row.invite)
    BY <1>2 DEF AssertTenantNotArchived, ClaimInvite, Claimable
<1>4. /\ DOMAIN claim' = DOMAIN claim
      /\ claim'[c] = [row EXCEPT !.pc = pc]
      /\ \A b \in DOMAIN claim : b # c => claim'[b] = claim[b]
      /\ claim' = [b \in DOMAIN claim' |-> claim'[b]]
    BY <1>1, <1>2, <1>3 DEF IInv, ClaimsOK, IsTable
<1>5. claim'[c] \in Claim /\ claim'[c].pc = pc /\ claim'[c].invite = row.invite
    BY <1>4 DEF Claim
<1>6. IsTable(claim', Claims, Claim)
    BY <1>1, <1>4, <1>5 DEF IInv, ClaimsOK, IsTable
<1>7. \A b \in DOMAIN claim :
        b # c /\ claim[b].pc = "locked" /\ pc = "locked" => claim[b].invite # row.invite
    BY <1>3 DEF Locked
<1>8. ClaimsOK'
    BY <1>1, <1>2, <1>3, <1>4, <1>5, <1>6, <1>7 DEF IInv, ClaimsOK, ClaimsHold
<1> QED
    BY <1>1, <1>8, ClaimAside

\* A claim that ends lets go of the row it held.
LEMMA ClaimEnds ==
    ASSUME IInv, NEW c \in DOMAIN claim, claim' = Without(claim, c),
           DOMAIN invite \subseteq DOMAIN invite',
           \A i \in DOMAIN invite :
                \/ invite'[i].used = invite[i].used
                \/ claim[c].pc = "locked" /\ i = claim[c].invite
    PROVE  ClaimsOK'
<1>1. IsTable(claim', Claims, Claim)
    BY WithoutTable DEF IInv, ClaimsOK
<1>2. \A b \in DOMAIN claim' : b \in DOMAIN claim /\ b # c /\ claim'[b] = claim[b]
    BY DEF Without, Restrict
<1> QED
    BY <1>1, <1>2 DEF IInv, ClaimsOK, ClaimsHold

LEMMA CommitKeepsIInv ==
    ASSUME IInv, NEW c \in Claims, NEW d \in Devices, CommitClaim(c, d)
    PROVE  IInv'
<1>1. /\ UNCHANGED <<active, staff, status, clock>>
      /\ c \in DOMAIN claim /\ claim[c].pc = "locked"
      /\ d \notin DOMAIN device /\ claim' = Without(claim, c)
    BY DEF CommitClaim
<1>2. PICK i \in DOMAIN invite : i = claim[c].invite /\ ~invite[i].used
    BY <1>1 DEF IInv, ClaimsOK, ClaimsHold
<1>3. PICK row \in InviteRow : row = invite[i] /\ row.worker \in Workers /\ i \in Invites
    BY <1>2, InviteRows DEF IInv
<1> DEFINE token == [worker |-> row.worker, revoked |-> FALSE, invite |-> i]
<1>4. token \in DeviceRow /\ device' = Put(device, d, token)
    BY <1>2, <1>3 DEF CommitClaim, DeviceRow
<1>5. /\ DOMAIN device' = DOMAIN device \cup {d}
      /\ device'[d].invite = i
      /\ \A e \in DOMAIN device : device'[e] = device[e]
    BY <1>1, <1>4 DEF Put
<1>6. /\ DOMAIN invite' = DOMAIN invite
      /\ invite'[i] = [row EXCEPT !.used = TRUE]
      /\ \A j \in DOMAIN invite : j # i => invite'[j] = invite[j]
      /\ invite' = [j \in DOMAIN invite' |-> invite'[j]]
    BY <1>2, <1>3 DEF CommitClaim, IInv, InvitesOK, IsTable
<1>7. /\ invite'[i] \in InviteRow /\ invite'[i].used = TRUE
      /\ invite'[i].worker = row.worker /\ invite'[i].voided = row.voided
    BY <1>6 DEF InviteRow
<1>8. IsTable(invite', Invites, InviteRow)
    BY <1>6, <1>7 DEF IInv, InvitesOK, IsTable
<1>9. InvitesOK'
    <2>1. \A j \in DOMAIN invite' : invite'[j].worker \in DOMAIN active'
        <3>1. \A j \in DOMAIN invite : invite'[j].worker = invite[j].worker
            BY <1>3, <1>6, <1>7
        <3>2. \A j \in DOMAIN invite : invite[j].worker \in DOMAIN active
            BY DEF IInv, InvitesOK
        <3> QED
            BY <1>1, <1>6, <3>1, <3>2
    <2>2. UniqueCodes'
        <3>1. \A j \in DOMAIN invite' : ~invite'[j].used => j # i /\ invite'[j] = invite[j]
            BY <1>6, <1>7
        <3> QED
            BY <1>6, <3>1 DEF IInv, InvitesOK, UniqueCodes
    <2> QED
        BY <1>8, <2>1, <2>2 DEF InvitesOK
<1>10. DevicesOK'
    <2>1. IsTable(device', Devices, DeviceRow)
        BY <1>4, PutTable DEF IInv, DevicesOK
    <2>2. \A j : j # i => MintedFrom(j)' = MintedFrom(j)
        BY <1>5 DEF MintedFrom
    <2>3. MintedFrom(i) = {} /\ ~invite[i].voided
        BY <1>2 DEF IInv, DevicesOK, Spent
    <2>4. MintedFrom(i)' = {d}
        BY <1>5, <2>3 DEF MintedFrom
    <2>5. Spent'
        <3>1. invite'[i].used /\ ~invite'[i].voided
            BY <1>3, <1>7, <2>3
        <3>2. \A j \in DOMAIN invite : j # i =>
                IF invite'[j].used /\ ~invite'[j].voided
                THEN \E e \in Devices : MintedFrom(j)' = {e}
                ELSE MintedFrom(j)' = {} /\ (invite'[j].voided => invite'[j].used)
            BY <1>6, <2>2 DEF IInv, DevicesOK, Spent
        <3> QED
            BY <1>6, <2>4, <3>1, <3>2 DEF Spent
    <2>6. \A e \in DOMAIN device : device[e].invite \in DOMAIN invite
        BY DEF IInv, DevicesOK
    <2>7. \A e \in DOMAIN device' : device'[e].invite \in DOMAIN invite'
        BY <1>2, <1>5, <1>6, <2>6
    <2> QED
        BY <2>1, <2>5, <2>7 DEF DevicesOK
<1>11. ClaimsOK'
    BY <1>1, <1>2, <1>6, ClaimEnds
<1>12. NothingUndone
    BY <1>1, <1>6, <1>7 DEF NothingUndone
<1>13. StaffOK'
    BY <1>1, <1>12, StaffStays DEF IInv
<1> QED
    BY <1>1, <1>9, <1>10, <1>11, <1>13 DEF IInv, RestOK

LEMMA EndClaimKeepsIInv ==
    ASSUME IInv, NEW c \in Claims, EndClaim(c)
    PROVE  IInv'
    BY ClaimEnds, ClaimAside DEF EndClaim

-----------------------------------------------------------------------------
(***************************************************************************)
(* Theorems                                                                *)
(***************************************************************************)

LEMMA WorldKeepsIInv ==
    ASSUME IInv, OperatorStep \/ Tick
    PROVE  IInv'
<1>1. UNCHANGED <<active, invite, device, staff, claim>>
    BY DEF OperatorStep, OpsSuspend, OpsActivate, Archive, SetStatus, Tick
<1>2. status' \in [Tenants -> TenantStatus] /\ clock' \in Nat
    BY DEF OperatorStep, OpsSuspend, OpsActivate, Archive, SetStatus, Tick, TenantStatus,
        IInv, RestOK
<1>3. NothingUndone
    BY <1>1 DEF NothingUndone
<1>4. InvitesOK' /\ DevicesOK' /\ StaffOK' /\ ClaimsOK'
    BY <1>1, <1>3, InvitesStay, DevicesStay, StaffStays, ClaimsStay DEF IInv
<1> QED
    BY <1>1, <1>2, <1>4 DEF IInv, RestOK

LEMMA IInvStep == IInv /\ [Next]_vars => IInv'
<1> SUFFICES ASSUME IInv, [Next]_vars PROVE IInv'
    OBVIOUS
<1>1. CASE StaffStep
    BY <1>1, RequestKeepsIInv, InsertWorkerKeepsIInv, GetWorkerKeepsIInv, RevokeKeepsIInv,
        VoidKeepsIInv, InsertInviteKeepsIInv, UpdateWorkerKeepsIInv DEF StaffStep
<1>2. CASE ClaimStep
    BY <1>2, ReadInviteKeepsIInv, ClaimGoesOnKeepsIInv, CommitKeepsIInv, EndClaimKeepsIInv
       DEF ClaimStep
<1>3. CASE OperatorStep \/ Tick
    BY <1>3, WorldKeepsIInv
<1>4. CASE UNCHANGED vars
    <2>1. UNCHANGED <<active, invite, device, staff, claim, status, clock>>
        BY <1>4 DEF vars
    <2>2. ClaimsOK'
        BY <2>1, ClaimsStay DEF IInv
    <2> QED
        BY <2>1, <2>2, ClaimAside
<1> QED
    BY <1>1, <1>2, <1>3, <1>4 DEF Next

\* The inductive invariant holds in every reachable state.
THEOREM Inductive == Spec => []IInv
    BY IInvInit, IInvStep, PTL DEF Spec

\* Every variable keeps its type, and nothing refers to a row that is not there.
THEOREM TypeCorrect == Spec => []TypeOK
<1>1. IInv => TypeOK
    BY DEF IInv, InvitesOK, DevicesOK, StaffOK, ClaimsOK, ClaimsHold, RestOK, TypeOK
<1> QED
    BY <1>1, Inductive, PTL

\* An invite is used up by one claim, which left one token, or by one re-invite,
\* which left none (service.go:227-233).
THEOREM InvitesEndOneWay == Spec => []InviteEndsOneWay
<1>1. IInv => InviteEndsOneWay
    <2> SUFFICES ASSUME IInv, NEW i \in DOMAIN invite
                 PROVE  Cardinality(MintedFrom(i)) + (IF invite[i].voided THEN 1 ELSE 0)
                            = IF invite[i].used THEN 1 ELSE 0
        BY DEF InviteEndsOneWay
    <2>1. invite[i].used \in BOOLEAN /\ invite[i].voided \in BOOLEAN
        BY InviteRows DEF IInv
    <2>2. CASE invite[i].used /\ ~invite[i].voided
        <3>1. PICK d \in Devices : MintedFrom(i) = {d}
            BY <2>2 DEF IInv, DevicesOK, Spent
        <3>2. Cardinality(MintedFrom(i)) = 1
            BY <3>1, FS_Singleton
        <3> QED
            BY <2>2, <3>2
    <2>3. CASE ~(invite[i].used /\ ~invite[i].voided)
        <3>1. MintedFrom(i) = {} /\ (invite[i].voided => invite[i].used)
            BY <2>3 DEF IInv, DevicesOK, Spent
        <3>2. Cardinality(MintedFrom(i)) = 0
            BY <3>1, FS_EmptySet
        <3> QED
            BY <2>1, <2>3, <3>1, <3>2
    <2> QED
        BY <2>2, <2>3
<1> QED
    BY <1>1, Inductive, PTL

\* The code listed for an active worker claims that worker's own invite, and no
\* other (roster/http.go:169-184).
THEOREM ListedCodesWork == Spec => []ListedCodeIsClaimable
<1>1. IInv => ListedCodeIsClaimable
    <2> SUFFICES ASSUME IInv, NEW w \in DOMAIN active, NEW i \in ListedInvites(w), active[w]
                 PROVE  GetActiveInvite(invite[i].code) = {i}
        BY DEF ListedCodeIsClaimable
    <2>1. /\ i \in DOMAIN invite /\ invite[i].worker = w /\ ~invite[i].used
          /\ invite[i].expiresAt > clock
        BY DEF ListedInvites, Unused
    <2> QED
        BY <2>1 DEF GetActiveInvite, IInv, InvitesOK, UniqueCodes
<1> QED
    BY <1>1, Inductive, PTL

\* When a re-invite issues its code, the codes it found unused are used up
\* (invite.go:31-35).
THEOREM ReinvitesReplace == Spec => ReinviteReplacesCodes
<1>1. IInv =>
        [\A a \in StaffCalls, i \in Invites, k \in Codes :
            InsertInvite(a, i, k) => Unused(staff[a].worker) \cap staff[a].seen = {}]_vars
    BY DEF InsertInvite, Unused, IInv, StaffOK, StaffHolds
<1> QED
    BY <1>1, Inductive, PTL DEF Spec, ReinviteReplacesCodes

==============================================================================
