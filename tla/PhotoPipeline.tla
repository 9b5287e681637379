---------------------------- MODULE PhotoPipeline ----------------------------
(***************************************************************************)
(* Photo evidence in two phases: presign creates a photo row and hands out *)
(* a PUT URL, the phone uploads straight to the object store, and confirm  *)
(* stamps the row once the object is there (photo/http.go).  The hourly    *)
(* sweep deletes rows that were never confirmed (scheduler.go).  The       *)
(* database and the object store share no transaction, every handler reads *)
(* one, then acts on the other, and the sweep runs beside them.            *)
(*                                                                         *)
(* A subject is what a photo row is bound to for good: tenant, execution   *)
(* and kind.  Only calls of the execution's own worker are modelled; those *)
(* of anybody else are refused before they change anything.  The execution *)
(* itself is a row of WorkExecution, of which this module sees the stored  *)
(* device_finished_at.                                                     *)
(***************************************************************************)
EXTENDS Naturals, FiniteSets, Tables

CONSTANTS
    Photos,           \* client-generated photo ids, which name the object too
    Executions,
    Subjects,
    ExecutionOf,      \* the execution of a subject
    PresignRequests,  \* the <<photo, subject>> pairs phones ask to presign
    Metas,            \* what a confirm says of taken_at, lat and lon
    Calls,            \* server-side slots for calls in flight
    UrlTTL,           \* presignTTL
    OrphanAge,        \* orphanPhotoAge
    SweepLimit,       \* the LIMIT of ListOrphanPhotos
    MaxTime,          \* bound on the clock
    SuspendTimes,     \* bound on the instants at which the operator suspends
    NULL

ASSUME NullAssumption == NULL \notin Nat /\ NULL \notin Metas

ASSUME ParameterAssumption ==
    /\ ExecutionOf \in [Subjects -> Executions]
    /\ PresignRequests \subseteq Photos \X Subjects
    /\ UrlTTL \in Nat /\ OrphanAge \in Nat /\ MaxTime \in Nat
    /\ SweepLimit \in Nat \ {0}
    /\ SuspendTimes \subseteq Nat

VARIABLES
    photo,        \* the photo table
    stored,       \* the photos whose object is in the store
    putting,      \* the photos a PUT is on its way for
    urlExpires,   \* when the last URL handed out for a photo expires
    acked,        \* the photos whose confirm was answered 200
    call,         \* presign and confirm calls in flight
    sweep,        \* the scheduler's pass: what it listed, what it found missing
    finishedAt,   \* work_execution.device_finished_at
    suspendedAt,  \* tenant.suspended_at
    clock

bytes == <<stored, putting, urlExpires>>
world == <<finishedAt, suspendedAt, clock>>
vars == <<photo, stored, putting, urlExpires, acked, call, sweep,
          finishedAt, suspendedAt, clock>>

MaybeTime == Nat \cup {NULL}

PhotoRow == [subject: Subjects, createdAt: Nat, uploadedAt: MaybeTime,
             takenAt: Metas \cup {NULL}]

\* A confirm's subject is that of the row it read first.  suspended remembers
\* whether the gate saw the tenant suspended: no code reads it, only a property.
CallRow ==
    [op: {"presign"}, pc: {"gated", "inserted"}, photo: Photos, subject: Subjects,
     suspended: BOOLEAN]
    \cup
    [op: {"confirm"}, pc: {"gated", "seen"}, photo: Photos, subject: Subjects,
     meta: Metas \cup {NULL}, suspended: BOOLEAN]

TypeOK ==
    /\ IsTable(photo, Photos, PhotoRow)
    /\ stored \subseteq Photos
    /\ putting \subseteq Photos
    /\ urlExpires \in [Photos -> MaybeTime]
    /\ acked \subseteq Photos
    /\ IsTable(call, Calls, CallRow)
    /\ sweep \in [listed: SUBSET Photos, missing: SUBSET Photos, uploading: SUBSET Photos]
    /\ Cardinality(sweep.listed \cup sweep.missing) <= SweepLimit
    /\ finishedAt \in [Executions -> MaybeTime]
    /\ suspendedAt \in MaybeTime
    /\ clock \in Nat

\* uploading is history: the missing row, if a PUT was on its way when HEAD answered.
Idle == [listed |-> {}, missing |-> {}, uploading |-> {}]

Init ==
    /\ photo = EmptyTable
    /\ stored = {}
    /\ putting = {}
    /\ urlExpires = [p \in Photos |-> NULL]
    /\ acked = {}
    /\ call = EmptyTable
    /\ sweep = Idle
    /\ finishedAt = [e \in Executions |-> NULL]
    /\ suspendedAt = NULL
    /\ clock = 0

-----------------------------------------------------------------------------

Coalesce(a, b) == IF a = NULL THEN b ELSE a

\* Mutant: the gate looks only at executions that are finished.
GateLetsOpenWorkIn(s) ==
    LET finished == finishedAt[ExecutionOf[s]]
    IN  suspendedAt # NULL /\ finished # NULL => finished < suspendedAt

\* Once suspended_at is set, only photos of an execution whose stored
\* completion is strictly before it pass.
EvidenceSuspensionGate(s) ==
    LET finished == finishedAt[ExecutionOf[s]]
    IN  suspendedAt # NULL => finished # NULL /\ finished < suspendedAt

-----------------------------------------------------------------------------
(***************************************************************************)
(* POST /worker/photos/presign                                             *)
(***************************************************************************)

BeginPresign(c, p, s) ==
    /\ c \notin DOMAIN call
    /\ <<p, s>> \in PresignRequests
    /\ EvidenceSuspensionGate(s)
    /\ call' = Put(call, c, [op |-> "presign", pc |-> "gated", photo |-> p,
                             subject |-> s, suspended |-> suspendedAt # NULL])
    /\ UNCHANGED <<photo, bytes, acked, sweep, world>>

\* ON CONFLICT DO NOTHING: a row that is there keeps its subject and its age.
InsertPhotoPresign(c) ==
    /\ c \in DOMAIN call /\ call[c].op = "presign" /\ call[c].pc = "gated"
    /\ photo' = IF call[c].photo \in DOMAIN photo THEN photo
                ELSE Put(photo, call[c].photo,
                         [subject |-> call[c].subject, createdAt |-> clock,
                          uploadedAt |-> NULL, takenAt |-> NULL])
    /\ call' = [call EXCEPT ![c].pc = "inserted"]
    /\ UNCHANGED <<bytes, acked, sweep, world>>

\* Mutant: presign does not ask whether the photo was confirmed already.
PresignableThoughConfirmed(p, s) ==
    /\ p \in DOMAIN photo
    /\ photo[p].subject = s

\* The row read back is there, bound to this subject, and not yet confirmed.
Presignable(p, s) ==
    /\ p \in DOMAIN photo
    /\ photo[p].subject = s
    /\ photo[p].uploadedAt = NULL

\* Signing is local: the URL is valid for UrlTTL from here.
PresignPut(c) ==
    /\ c \in DOMAIN call /\ call[c].op = "presign" /\ call[c].pc = "inserted"
    /\ Presignable(call[c].photo, call[c].subject)
    /\ urlExpires' = [urlExpires EXCEPT ![call[c].photo] = clock + UrlTTL]
    /\ call' = Without(call, c)
    /\ UNCHANGED <<photo, stored, putting, acked, sweep, world>>

(***************************************************************************)
(* POST /worker/photos/{id}/confirm                                        *)
(***************************************************************************)

BeginConfirm(c, p, m) ==
    /\ c \notin DOMAIN call
    /\ p \in DOMAIN photo
    /\ EvidenceSuspensionGate(photo[p].subject)
    /\ call' = Put(call, c, [op |-> "confirm", pc |-> "gated", photo |-> p,
                             subject |-> photo[p].subject, meta |-> m,
                             suspended |-> suspendedAt # NULL])
    /\ UNCHANGED <<photo, bytes, acked, sweep, world>>

\* Mutant: confirm takes the phone's word that the upload is done.
ObjectAssumed(p) == TRUE

\* HEAD on the object.
ObjectExists(p) == p \in stored

HeadObject(c) ==
    /\ c \in DOMAIN call /\ call[c].op = "confirm" /\ call[c].pc = "gated"
    /\ ObjectExists(call[c].photo)
    /\ call' = [call EXCEPT ![c].pc = "seen"]
    /\ UNCHANGED <<photo, bytes, acked, sweep, world>>

\* Mutant: the answer is built without reading the row back.
AnsweredUnread(p) == TRUE

\* GetPhoto after the stamp: no row, no 200.
ReadBack(p) == p \in DOMAIN photo

\* Mutant: the query's parameters are bound in the wrong order.
StampSwapped(p, m) ==
    [photo[p] EXCEPT !.uploadedAt = Coalesce(@, m), !.takenAt = Coalesce(@, clock)]

\* Everything is stamped once.
Stamped(p, m) ==
    [photo[p] EXCEPT !.uploadedAt = Coalesce(@, clock), !.takenAt = Coalesce(@, m)]

\* ConfirmPhoto updates no row if the sweep deleted it; then the read back fails.
ConfirmPhoto(c) ==
    LET p == call[c].photo
    IN  /\ c \in DOMAIN call /\ call[c].op = "confirm" /\ call[c].pc = "seen"
        /\ photo' = IF p \in DOMAIN photo THEN Put(photo, p, Stamped(p, call[c].meta))
                    ELSE photo
        /\ acked' = IF ReadBack(p) THEN acked \cup {p} ELSE acked
        /\ call' = Without(call, c)
        /\ UNCHANGED <<bytes, sweep, world>>

\* Any error answer (a conflict, an object not uploaded, a failing database or
\* store), a cancelled request or a crash: the call ends, what it wrote stays.
EndCall(c) ==
    /\ c \in DOMAIN call
    /\ call' = Without(call, c)
    /\ UNCHANGED <<photo, bytes, acked, sweep, world>>

(***************************************************************************)
(* The phone's PUT.  The store checks the URL when the request begins; the *)
(* object appears whole when it ends, however late, or not at all.         *)
(***************************************************************************)

BeginPut(p) ==
    /\ urlExpires[p] # NULL /\ clock <= urlExpires[p]
    /\ putting' = putting \cup {p}
    /\ UNCHANGED <<photo, stored, urlExpires, acked, call, sweep, world>>

PutLands(p) ==
    /\ p \in putting
    /\ putting' = putting \ {p}
    /\ stored' = stored \cup {p}
    /\ UNCHANGED <<photo, urlExpires, acked, call, sweep, world>>

PutLost(p) ==
    /\ p \in putting
    /\ putting' = putting \ {p}
    /\ UNCHANGED <<photo, stored, urlExpires, acked, call, sweep, world>>

-----------------------------------------------------------------------------
(***************************************************************************)
(* The scheduler's gcOrphanPhotos                                          *)
(***************************************************************************)

\* Mutant: the cutoff is forgotten.
OrphansOfAnyAge == {p \in DOMAIN photo : photo[p].uploadedAt = NULL}

Orphans ==
    {p \in DOMAIN photo : /\ photo[p].uploadedAt = NULL
                          /\ photo[p].createdAt + OrphanAge < clock}

Oldest(p, rows) ==
    p \in rows /\ \A q \in rows : photo[p].createdAt <= photo[q].createdAt

\* ORDER BY created_at LIMIT: ties fall any way.
OldestOrphans(batch) ==
    /\ batch \subseteq Orphans
    /\ Cardinality(batch) <= SweepLimit
    /\ batch # Orphans => Cardinality(batch) = SweepLimit
    /\ \A p \in batch, q \in Orphans \ batch : photo[p].createdAt <= photo[q].createdAt

ListOrphanPhotos ==
    /\ sweep = Idle
    /\ \E batch \in SUBSET Orphans \ {{}} :
        /\ OldestOrphans(batch)
        /\ sweep' = [Idle EXCEPT !.listed = batch]
    /\ UNCHANGED <<photo, bytes, acked, call, world>>

\* The row whose turn it is.
Current(p) == sweep.missing = {} /\ Oldest(p, sweep.listed)

\* Exists answers: a row whose object is there is left alone.
SweepKeeps(p) ==
    /\ Current(p)
    /\ p \in stored
    /\ sweep' = [sweep EXCEPT !.listed = @ \ {p}]
    /\ UNCHANGED <<photo, bytes, acked, call, world>>

\* Mutant: the store's 404 counts as an error, so the row is skipped.
MissingIsAnError(p) ==
    /\ Current(p)
    /\ p \notin stored
    /\ sweep' = [sweep EXCEPT !.listed = @ \ {p}]
    /\ UNCHANGED <<photo, bytes, acked, call, world>>

SweepFindsMissing(p) ==
    /\ Current(p)
    /\ p \notin stored
    /\ sweep' = [listed |-> sweep.listed \ {p}, missing |-> {p}, uploading |-> {p} \cap putting]
    /\ UNCHANGED <<photo, bytes, acked, call, world>>

\* Mutant: the DELETE goes by the id alone.
DeletableById(p) == p \in DOMAIN photo

\* WHERE id = $1 AND uploaded_at IS NULL.
Deletable(p) == p \in DOMAIN photo /\ photo[p].uploadedAt = NULL

DeletePhotoRow(p) ==
    /\ p \in sweep.missing
    /\ photo' = IF Deletable(p) THEN Without(photo, p) ELSE photo
    /\ sweep' = [Idle EXCEPT !.listed = sweep.listed]
    /\ UNCHANGED <<bytes, acked, call, world>>

\* Exists or the DELETE fails: logged and skipped.
SweepSkips(p) ==
    /\ p \in sweep.missing \/ Current(p)
    /\ sweep' = [Idle EXCEPT !.listed = sweep.listed \ {p}]
    /\ UNCHANGED <<photo, bytes, acked, call, world>>

\* The process stops; the next one begins with a fresh list.
SweepRestarts ==
    /\ sweep # Idle
    /\ sweep' = Idle
    /\ UNCHANGED <<photo, bytes, acked, call, world>>

-----------------------------------------------------------------------------
(***************************************************************************)
(* What happens around the photos: the execution's completing upsert, the  *)
(* operator CLI (which reads the clock before its transaction), the clock. *)
(***************************************************************************)

FinishExecution(e) ==
    /\ finishedAt[e] = NULL
    /\ finishedAt' = [finishedAt EXCEPT ![e] = clock]
    /\ UNCHANGED <<photo, bytes, acked, call, sweep, suspendedAt, clock>>

OpsSuspend ==
    /\ \E now \in SuspendTimes : now <= clock /\ suspendedAt' = now
    /\ UNCHANGED <<photo, bytes, acked, call, sweep, finishedAt, clock>>

OpsActivate ==
    /\ suspendedAt # NULL
    /\ suspendedAt' = NULL
    /\ UNCHANGED <<photo, bytes, acked, call, sweep, finishedAt, clock>>

Tick ==
    /\ clock < MaxTime
    /\ clock' = clock + 1
    /\ UNCHANGED <<photo, bytes, acked, call, sweep, finishedAt, suspendedAt>>

-----------------------------------------------------------------------------

CallStep ==
    \E c \in Calls :
        \/ \E r \in PresignRequests : BeginPresign(c, r[1], r[2])
        \/ InsertPhotoPresign(c)
        \/ PresignPut(c)
        \/ \E p \in Photos, m \in Metas \cup {NULL} : BeginConfirm(c, p, m)
        \/ HeadObject(c)
        \/ ConfirmPhoto(c)
        \/ EndCall(c)

PutStep == \E p \in Photos : BeginPut(p) \/ PutLands(p) \/ PutLost(p)

SweepStep ==
    \/ ListOrphanPhotos
    \/ SweepRestarts
    \/ \E p \in Photos :
        \/ SweepKeeps(p) \/ SweepFindsMissing(p) \/ DeletePhotoRow(p) \/ SweepSkips(p)

WorldStep == (\E e \in Executions : FinishExecution(e)) \/ OpsSuspend \/ OpsActivate \/ Tick

Next == CallStep \/ PutStep \/ SweepStep \/ WorldStep

Spec == Init /\ [][Next]_vars

Lists(p) == ListOrphanPhotos /\ p \in sweep'.listed

\* The scheduler lists every hour; rows of the same age do not fall in the same
\* order for ever; and the store, the database and the process are not down at
\* the same step of every pass.
FairSpec ==
    /\ Spec
    /\ \A p \in Photos : /\ SF_vars(Lists(p))
                         /\ SF_vars(SweepKeeps(p) \/ SweepFindsMissing(p))
                         /\ SF_vars(DeletePhotoRow(p))

-----------------------------------------------------------------------------
(***************************************************************************)
(* Properties                                                              *)
(***************************************************************************)

Confirmed(p) == p \in DOMAIN photo /\ photo[p].uploadedAt # NULL

\* A stamp is never a promise without bytes: the object of a confirmed row is
\* in the store (the HEAD before the stamp, http.go:246-264).
ConfirmedHasBytes == \A p \in DOMAIN photo : Confirmed(p) => p \in stored

\* The phone may forget a photo once its confirm was answered 200: from then on
\* the row is there and confirmed and the bytes are stored, whatever the sweep,
\* a second confirm or a late presign of the same photo were doing meanwhile.
AckedIsDurable == \A p \in acked : Confirmed(p) /\ p \in stored

\* "Evidence is immutable" (worker.sql:118-119): a confirmed row is never deleted
\* nor bound to another subject, and no later confirm, late sweep or presign
\* changes a value once it was set, the confirmation time included.
ConfirmedRowsArePermanent ==
    [][\A p \in DOMAIN photo :
        Confirmed(p) =>
            /\ p \in DOMAIN photo'
            /\ photo'[p].subject = photo[p].subject
            /\ photo'[p].uploadedAt = photo[p].uploadedAt
            /\ photo[p].takenAt # NULL => photo'[p].takenAt = photo[p].takenAt]_vars

\* No URL outlives a confirm by more than its own lifetime: presign stops
\* handing out URLs for a confirmed photo, so an upload that could replace the
\* bytes has to begin within UrlTTL of the confirm (http.go:160-168).
UrlsEndWithConfirm ==
    \A p \in DOMAIN photo :
        Confirmed(p) /\ urlExpires[p] # NULL => urlExpires[p] <= photo[p].uploadedAt + UrlTTL

\* Photos of work left open under a suspension were let in before it: a URL for
\* an unfinished execution is only handed out, and its photo only confirmed, by
\* a call that passed the gate while the tenant was not suspended.  The one way
\* around it is a photo id used for two executions: a confirm whose row was swept
\* and bound anew after the gate stamps what it finds (http.go:221-263).
OpenPhotosPrecedeSuspension ==
    [][\A p \in Photos :
        LET open(s) == suspendedAt # NULL /\ finishedAt[ExecutionOf[s]] = NULL
            ended == {c \in DOMAIN call \ DOMAIN call' : call[c].photo = p}
        IN  /\ urlExpires'[p] # urlExpires[p] /\ open(photo[p].subject) =>
                \E c \in ended : ~call[c].suspended
            /\ ~Confirmed(p) /\ Confirmed(p)' /\ open(photo[p].subject) =>
                \E c \in ended :
                    ~call[c].suspended \/ call[c].subject # photo[p].subject]_vars

\* What is left of the promise at scheduler.go:24-27, that an upload "never races
\* the sweep": if a row is deleted although its object is there, then a PUT was
\* already on its way when the store said it was not, or a URL was valid past
\* the row's age, which takes presigning an old row again (a URL lives 15
\* minutes, the age is 14 days).
SweepSparesPromptUploads ==
    [][\A p \in DOMAIN photo :
        p \notin DOMAIN photo' /\ p \in stored =>
            p \in sweep.uploading \/ urlExpires[p] > photo[p].createdAt + OrphanAge]_vars

\* "Orphans are garbage-collected" (docs/07-api-spec.md:91): a row past its age
\* without an object does not stay for ever, although errors and restarts
\* interrupt passes and rows whose object exists are listed by every pass.
AbandonedRowsAreCollected ==
    \A p \in Photos : p \in DOMAIN photo /\ p \in Orphans /\ p \notin stored
                        ~> p \notin DOMAIN photo \/ p \in stored

(***************************************************************************)
(* A claim the code does not keep                                          *)
(***************************************************************************)

\* scheduler.go:24-27 and 134-141: a row is deleted "ONLY after verifying the
\* S3 object truly does not exist", and orphanPhotoAge is "long enough that a
\* slow or retried mobile upload never races the sweep".
SweepSparesUploads ==
    [][\A p \in DOMAIN photo : p \notin DOMAIN photo' => p \notin stored]_vars

=============================================================================
