------------------------- MODULE PhotoPipelineProofs -------------------------
(***************************************************************************)
(* Proofs about PhotoPipeline, for any photos, executions and number of    *)
(* calls in flight.  A handler acts on what it saw earlier: the proofs     *)
(* rest on what it saw staying true until it acts.                         *)
(***************************************************************************)
EXTENDS PhotoPipeline, TableTheorems, TLAPS

\* A batch is finite, being no larger than the LIMIT.
BatchIsFinite ==
    /\ IsFiniteSet(DOMAIN photo)
    /\ IsFiniteSet(sweep.listed \cup sweep.missing)

\* Objects are never deleted: what HEAD found is there when the row is stamped.
SeenIsStored ==
    \A c \in DOMAIN call : call[c].pc = "seen" => call[c].photo \in stored

\* No URL handed out so far lives longer than one handed out now.
UrlsAreBounded ==
    \A p \in Photos : urlExpires[p] # NULL => urlExpires[p] <= clock + UrlTTL

\* A completion is never taken back: what a call saw under a suspension holds.
GatedWorkIsFinished ==
    \A c \in DOMAIN call :
        call[c].suspended => finishedAt[ExecutionOf[call[c].subject]] # NULL

CallsHold == SeenIsStored /\ GatedWorkIsFinished

IInv ==
    /\ TypeOK
    /\ BatchIsFinite
    /\ CallsHold
    /\ ConfirmedHasBytes
    /\ AckedIsDurable
    /\ UrlsAreBounded
    /\ UrlsEndWithConfirm

LEMMA IInvInit == Init => IInv
<1> SUFFICES ASSUME Init PROVE IInv
    OBVIOUS
<1>1. DOMAIN photo = {} /\ DOMAIN call = {}
    BY EmptyIsTable DEF Init
<1>2. sweep.listed = {} /\ sweep.missing = {} /\ sweep.listed \cup sweep.missing = {}
    BY DEF Init, Idle
<1>3. BatchIsFinite
    BY <1>1, <1>2, FS_EmptySet DEF BatchIsFinite
<1>4. Cardinality(sweep.listed \cup sweep.missing) <= SweepLimit
    BY <1>2, FS_EmptySet, ParameterAssumption
<1>5. IsTable(photo, Photos, PhotoRow) /\ IsTable(call, Calls, CallRow)
    BY EmptyIsTable DEF Init
<1>6. TypeOK
    BY <1>4, <1>5 DEF TypeOK, Init, Idle, MaybeTime
<1> QED
    BY <1>1, <1>3, <1>6 DEF Init, IInv, CallsHold, SeenIsStored, GatedWorkIsFinished,
        ConfirmedHasBytes, AckedIsDurable, UrlsAreBounded, UrlsEndWithConfirm

-----------------------------------------------------------------------------
(***************************************************************************)
(* Rows and calls                                                          *)
(***************************************************************************)

LEMMA PhotoRows ==
    ASSUME TypeOK, NEW p \in DOMAIN photo
    PROVE  /\ p \in Photos
           /\ photo[p] \in PhotoRow
           /\ photo[p].subject \in Subjects /\ photo[p].createdAt \in Nat
           /\ photo[p].uploadedAt \in MaybeTime /\ photo[p].takenAt \in Metas \cup {NULL}
    BY DEF TypeOK, IsTable, PhotoRow

LEMMA CallRows ==
    ASSUME TypeOK, NEW c \in DOMAIN call
    PROVE  /\ c \in Calls
           /\ call[c] \in CallRow
           /\ call[c].photo \in Photos /\ call[c].subject \in Subjects
           /\ call[c].suspended \in BOOLEAN
           /\ ExecutionOf[call[c].subject] \in Executions
           /\ call[c].op = "confirm" => call[c].meta \in Metas \cup {NULL}
    BY ParameterAssumption DEF TypeOK, IsTable, CallRow

\* The calls of a step, and what they saw, are as they should be.
CallsOK == IsTable(call, Calls, CallRow) /\ CallsHold

\* Nobody forgets a completion, and no object is deleted.
NothingForgotten ==
    /\ stored \subseteq stored'
    /\ \A e \in Executions : finishedAt[e] # NULL => finishedAt'[e] # NULL

LEMMA CallsStay ==
    ASSUME IInv, UNCHANGED call, NothingForgotten
    PROVE  CallsOK'
    BY CallRows DEF IInv, TypeOK, CallsOK, CallsHold, SeenIsStored, GatedWorkIsFinished,
        NothingForgotten

\* A call that ends leaves the others as they were.
LEMMA CallEnds ==
    ASSUME IInv, NEW c, call' = Without(call, c), NothingForgotten
    PROVE  CallsOK'
<1>1. IsTable(call', Calls, CallRow)
    BY WithoutTable DEF IInv, TypeOK
<1>2. \A d \in DOMAIN call' : d \in DOMAIN call /\ call'[d] = call[d]
    BY DEF Without, Restrict
<1> QED
    BY <1>1, <1>2, CallRows DEF IInv, CallsOK, CallsHold, SeenIsStored, GatedWorkIsFinished,
        NothingForgotten

\* A call begins after the gate.
LEMMA CallBegins ==
    ASSUME IInv, NEW c \in Calls, NEW row \in CallRow, call' = Put(call, c, row),
           row.pc = "gated", row.suspended => finishedAt[ExecutionOf[row.subject]] # NULL,
           UNCHANGED <<stored, finishedAt>>
    PROVE  CallsOK'
<1>1. IsTable(call', Calls, CallRow)
    BY PutTable DEF IInv, TypeOK
<1>2. /\ DOMAIN call' = DOMAIN call \cup {c}
      /\ call'[c] = row
      /\ \A d \in DOMAIN call : d # c => call'[d] = call[d]
    BY DEF Put
<1> QED
    BY <1>1, <1>2 DEF IInv, CallsOK, CallsHold, SeenIsStored, GatedWorkIsFinished

\* The gate lets no open work in under a suspension.
LEMMA GateFacts ==
    ASSUME NEW s \in Subjects, EvidenceSuspensionGate(s)
    PROVE  (suspendedAt # NULL) => finishedAt[ExecutionOf[s]] # NULL
    BY DEF EvidenceSuspensionGate

\* A call goes on to its next statement.
LEMMA CallGoesOn ==
    ASSUME IInv, NEW c \in DOMAIN call, NEW pc, call' = [call EXCEPT ![c].pc = pc],
           \/ call[c].op = "presign" /\ pc = "inserted"
           \/ call[c].op = "confirm" /\ pc = "seen" /\ call[c].photo \in stored,
           UNCHANGED <<stored, finishedAt>>
    PROVE  CallsOK'
<1>1. /\ DOMAIN call' = DOMAIN call
      /\ call'[c] = [call[c] EXCEPT !.pc = pc]
      /\ \A d \in DOMAIN call : d # c => call'[d] = call[d]
    BY DEF IInv, TypeOK, IsTable
<1>2. /\ call'[c] \in CallRow
      /\ call'[c].pc = pc /\ call'[c].photo = call[c].photo
      /\ call'[c].subject = call[c].subject /\ call'[c].suspended = call[c].suspended
    <2>1. call[c] \in CallRow
        BY CallRows DEF IInv
    <2> QED
        BY <1>1, <2>1 DEF CallRow
<1>3. IsTable(call', Calls, CallRow)
    <2>1. call' = [d \in DOMAIN call' |-> call'[d]]
        OBVIOUS
    <2> QED
        BY <1>1, <1>2, <2>1 DEF IInv, TypeOK, IsTable
<1> QED
    BY <1>1, <1>2, <1>3 DEF IInv, CallsOK, CallsHold, SeenIsStored, GatedWorkIsFinished

\* A step that neither touches a row nor hands out a URL.
LEMMA QuietStep ==
    ASSUME IInv, CallsOK', NothingForgotten,
           UNCHANGED <<photo, acked, urlExpires>>,
           stored' \subseteq Photos, putting' \subseteq Photos,
           sweep' \in [listed: SUBSET Photos, missing: SUBSET Photos, uploading: SUBSET Photos],
           IsFiniteSet(sweep'.listed \cup sweep'.missing),
           Cardinality(sweep'.listed \cup sweep'.missing) <= SweepLimit,
           finishedAt' \in [Executions -> MaybeTime], suspendedAt' \in MaybeTime,
           clock' \in Nat, clock <= clock'
    PROVE  IInv'
<1>1. TypeOK'
    BY DEF IInv, TypeOK, CallsOK
<1>2. UrlsAreBounded'
    <2> SUFFICES ASSUME NEW p \in Photos, urlExpires[p] # NULL
                 PROVE  urlExpires[p] <= clock' + UrlTTL
        BY DEF UrlsAreBounded
    <2>1. urlExpires[p] \in Nat /\ urlExpires[p] <= clock + UrlTTL /\ clock \in Nat
        BY DEF IInv, TypeOK, MaybeTime, UrlsAreBounded
    <2> QED
        BY <2>1, ParameterAssumption
<1>3. BatchIsFinite'
    BY DEF IInv, BatchIsFinite
<1>4. ConfirmedHasBytes' /\ AckedIsDurable' /\ UrlsEndWithConfirm'
    BY DEF IInv, ConfirmedHasBytes, AckedIsDurable, UrlsEndWithConfirm, Confirmed,
        NothingForgotten
<1> QED
    BY <1>1, <1>2, <1>3, <1>4 DEF IInv, CallsOK

-----------------------------------------------------------------------------
(***************************************************************************)
(* The steps                                                               *)
(***************************************************************************)

LEMMA BeginKeepsIInv ==
    ASSUME IInv, NEW c \in Calls, NEW p \in Photos, NEW s \in Subjects,
           NEW m \in Metas \cup {NULL},
           BeginPresign(c, p, s) \/ BeginConfirm(c, p, m)
    PROVE  IInv'
<1> USE DEF bytes, world
<1>1. TypeOK
    BY DEF IInv
<1>2. CASE BeginPresign(c, p, s)
    <2> DEFINE row == [op |-> "presign", pc |-> "gated", photo |-> p, subject |-> s,
                       suspended |-> suspendedAt # NULL]
    <2>1. row \in CallRow
        BY DEF CallRow
    <2>2. row.suspended => finishedAt[ExecutionOf[row.subject]] # NULL
        BY <1>2, GateFacts DEF BeginPresign
    <2>3. CallsOK'
        BY <1>2, <2>1, <2>2, CallBegins DEF BeginPresign
    <2> QED
        BY <1>1, <1>2, <2>3, QuietStep
           DEF BeginPresign, TypeOK, IInv, BatchIsFinite, NothingForgotten
<1>3. CASE BeginConfirm(c, p, m)
    <2> DEFINE row == [op |-> "confirm", pc |-> "gated", photo |-> p,
                       subject |-> photo[p].subject, meta |-> m,
                       suspended |-> suspendedAt # NULL]
    <2>1. photo[p].subject \in Subjects /\ row \in CallRow
        BY <1>1, <1>3, PhotoRows DEF BeginConfirm, CallRow
    <2>2. row.suspended => finishedAt[ExecutionOf[row.subject]] # NULL
        BY <1>3, <2>1, GateFacts DEF BeginConfirm
    <2>3. CallsOK'
        BY <1>3, <2>1, <2>2, CallBegins DEF BeginConfirm
    <2> QED
        BY <1>1, <1>3, <2>3, QuietStep
           DEF BeginConfirm, TypeOK, IInv, BatchIsFinite, NothingForgotten
<1> QED
    BY <1>2, <1>3

LEMMA InsertKeepsIInv ==
    ASSUME IInv, NEW c \in Calls, InsertPhotoPresign(c)
    PROVE  IInv'
<1> USE DEF bytes, world
<1> DEFINE p == call[c].photo
           row == [subject |-> call[c].subject, createdAt |-> clock,
                   uploadedAt |-> NULL, takenAt |-> NULL]
<1>1. /\ TypeOK /\ c \in DOMAIN call /\ call[c].op = "presign"
      /\ p \in Photos /\ call[c].subject \in Subjects
    BY CallRows DEF IInv, InsertPhotoPresign
<1>2. CallsOK'
    BY <1>1, CallGoesOn DEF InsertPhotoPresign
<1>3. NothingForgotten
    BY DEF InsertPhotoPresign, NothingForgotten
<1>4. CASE p \in DOMAIN photo
    BY <1>1, <1>2, <1>3, <1>4, QuietStep DEF InsertPhotoPresign, TypeOK, IInv, BatchIsFinite
<1>5. CASE p \notin DOMAIN photo
    <2>1. photo' = Put(photo, p, row) /\ row \in PhotoRow
        BY <1>1, <1>5 DEF InsertPhotoPresign, PhotoRow, MaybeTime, TypeOK
    <2>2. /\ DOMAIN photo' = DOMAIN photo \cup {p}
          /\ photo'[p].uploadedAt = NULL
          /\ \A q \in DOMAIN photo : photo'[q] = photo[q]
        BY <1>5, <2>1 DEF Put
    <2>3. IsTable(photo', Photos, PhotoRow) /\ IsFiniteSet(DOMAIN photo')
        BY <1>1, <2>1, PutTable, FiniteTables DEF TypeOK, IInv, BatchIsFinite
    <2>4. TypeOK' /\ BatchIsFinite'
        BY <1>1, <1>2, <2>3 DEF TypeOK, IInv, BatchIsFinite, CallsOK, InsertPhotoPresign
    <2>5. \A q \in DOMAIN photo' : Confirmed(q)' => Confirmed(q) /\ photo'[q] = photo[q]
        BY <2>2 DEF Confirmed
    <2>6. \A q \in DOMAIN photo : Confirmed(q) => Confirmed(q)'
        BY <2>2 DEF Confirmed
    <2> QED
        BY <1>2, <2>4, <2>5, <2>6 DEF IInv, CallsOK, ConfirmedHasBytes, AckedIsDurable, Confirmed,
            UrlsAreBounded, UrlsEndWithConfirm, InsertPhotoPresign
<1> QED
    BY <1>4, <1>5

LEMMA PresignKeepsIInv ==
    ASSUME IInv, NEW c \in Calls, PresignPut(c)
    PROVE  IInv'
<1> USE DEF bytes, world
<1> DEFINE p == call[c].photo
<1>1. TypeOK /\ c \in DOMAIN call /\ p \in Photos /\ clock \in Nat
    BY CallRows DEF IInv, TypeOK, PresignPut
<1>2. CallsOK'
    BY CallEnds DEF PresignPut, NothingForgotten
<1>3. clock + UrlTTL \in Nat /\ clock + UrlTTL # NULL
    BY <1>1, ParameterAssumption, NullAssumption
<1>4. /\ urlExpires' \in [Photos -> MaybeTime]
      /\ urlExpires'[p] = clock + UrlTTL
      /\ \A q \in Photos : q # p => urlExpires'[q] = urlExpires[q]
    BY <1>1, <1>3 DEF PresignPut, TypeOK, MaybeTime
<1>5. TypeOK' /\ BatchIsFinite'
    BY <1>1, <1>2, <1>4 DEF TypeOK, IInv, BatchIsFinite, CallsOK, PresignPut
<1>6. ~Confirmed(p)
    BY DEF PresignPut, Presignable, Confirmed
<1>7. UrlsAreBounded'
    BY <1>3, <1>4 DEF IInv, UrlsAreBounded, PresignPut
<1>8. UrlsEndWithConfirm'
    BY <1>1, <1>4, <1>6, PhotoRows DEF IInv, UrlsEndWithConfirm, PresignPut, Confirmed
<1> QED
    BY <1>2, <1>5, <1>7, <1>8 DEF IInv, CallsOK, ConfirmedHasBytes, AckedIsDurable, Confirmed,
        PresignPut

\* What a confirm leaves of a row: every value it finds, and a time.
LEMMA StampFacts ==
    ASSUME IInv, NEW p \in DOMAIN photo, NEW m \in Metas \cup {NULL}
    PROVE  /\ Stamped(p, m) \in PhotoRow
           /\ Stamped(p, m).subject = photo[p].subject
           /\ Stamped(p, m).createdAt = photo[p].createdAt
           /\ Stamped(p, m).uploadedAt # NULL
           /\ Stamped(p, m).uploadedAt =
                IF photo[p].uploadedAt = NULL THEN clock ELSE photo[p].uploadedAt
           /\ photo[p].takenAt # NULL => Stamped(p, m).takenAt = photo[p].takenAt
<1> DEFINE u == Coalesce(photo[p].uploadedAt, clock)
           v == Coalesce(photo[p].takenAt, m)
<1>1. /\ photo[p] \in PhotoRow /\ clock \in Nat
      /\ photo[p].uploadedAt \in MaybeTime /\ photo[p].takenAt \in Metas \cup {NULL}
    BY PhotoRows DEF IInv, TypeOK
<1>2. u \in MaybeTime /\ u # NULL /\ v \in Metas \cup {NULL}
    BY <1>1, NullAssumption DEF Coalesce, MaybeTime
<1>3. PICK r \in PhotoRow, ru \in MaybeTime, rv \in Metas \cup {NULL} :
        r = photo[p] /\ ru = u /\ rv = v
    BY <1>1, <1>2
<1>4. Stamped(p, m) = [r EXCEPT !.uploadedAt = ru, !.takenAt = rv]
    BY <1>3 DEF Stamped
<1>5. /\ Stamped(p, m) \in PhotoRow
      /\ Stamped(p, m).subject = r.subject /\ Stamped(p, m).createdAt = r.createdAt
    BY <1>4 DEF PhotoRow
<1>6. Stamped(p, m).uploadedAt = ru /\ Stamped(p, m).takenAt = rv
    BY <1>4 DEF PhotoRow
<1> QED
    BY <1>2, <1>3, <1>5, <1>6 DEF Coalesce

LEMMA ConfirmKeepsIInv ==
    ASSUME IInv, NEW c \in Calls, ConfirmPhoto(c)
    PROVE  IInv'
<1> USE DEF bytes, world
<1>0. PICK p \in Photos, m \in Metas \cup {NULL} : p = call[c].photo /\ m = call[c].meta
    BY CallRows DEF IInv, ConfirmPhoto
<1>1. /\ TypeOK /\ p \in stored
      /\ photo' = IF p \in DOMAIN photo THEN Put(photo, p, Stamped(p, m)) ELSE photo
      /\ acked' = IF ReadBack(p) THEN acked \cup {p} ELSE acked
    BY <1>0 DEF IInv, ConfirmPhoto, CallsHold, SeenIsStored
<1>2. CallsOK' /\ NothingForgotten
    BY CallEnds DEF ConfirmPhoto, NothingForgotten
<1>3. CASE p \notin DOMAIN photo
    BY <1>1, <1>2, <1>3, QuietStep DEF ConfirmPhoto, ReadBack, TypeOK, IInv, BatchIsFinite
<1>4. CASE p \in DOMAIN photo
    <2>1. photo' = Put(photo, p, Stamped(p, m)) /\ acked' = acked \cup {p}
        BY <1>1, <1>4 DEF ReadBack
    <2>2. /\ DOMAIN photo' = DOMAIN photo
          /\ photo'[p] = Stamped(p, m)
          /\ \A q \in DOMAIN photo : q # p => photo'[q] = photo[q]
        BY <1>4, <2>1 DEF Put
    <2>3. IsTable(photo', Photos, PhotoRow)
        BY <1>1, <1>4, <2>1, StampFacts, PutTable DEF TypeOK
    <2>4. TypeOK' /\ BatchIsFinite'
        BY <1>1, <1>2, <2>1, <2>2, <2>3 DEF TypeOK, IInv, BatchIsFinite, CallsOK, ConfirmPhoto
    <2>5. \A q \in DOMAIN photo : /\ Confirmed(q) => Confirmed(q)'
                                  /\ Confirmed(q)' => Confirmed(q) \/ q = p
        BY <1>1, <1>4, <2>2, StampFacts DEF Confirmed
    <2>6. Confirmed(p)'
        <3>1. photo'[p].uploadedAt # NULL
            BY <1>1, <1>4, <2>2, StampFacts
        <3> QED
            BY <1>4, <2>2, <3>1 DEF Confirmed
    <2>7. ConfirmedHasBytes' /\ AckedIsDurable'
        <3>1. UNCHANGED stored
            BY DEF ConfirmPhoto
        <3>2. ConfirmedHasBytes'
            BY <1>1, <2>2, <2>5, <3>1 DEF IInv, ConfirmedHasBytes
        <3>3. AckedIsDurable'
            <4> SUFFICES ASSUME NEW q \in acked' PROVE Confirmed(q)' /\ q \in stored'
                BY DEF AckedIsDurable
            <4>1. CASE q = p
                BY <1>1, <2>6, <3>1, <4>1
            <4>2. CASE q \in acked
                <5>1. Confirmed(q) /\ q \in stored /\ q \in DOMAIN photo
                    BY <4>2 DEF IInv, AckedIsDurable, Confirmed
                <5> QED
                    BY <2>5, <3>1, <5>1
            <4> QED
                BY <2>1, <4>1, <4>2
        <3> QED
            BY <3>2, <3>3
    <2>8. UrlsEndWithConfirm'
        <3>1. urlExpires[p] # NULL => urlExpires[p] <= photo'[p].uploadedAt + UrlTTL
            BY <1>1, <1>4, <2>2, StampFacts
               DEF IInv, UrlsAreBounded, UrlsEndWithConfirm, Confirmed
        <3> QED
            BY <2>2, <2>5, <3>1 DEF IInv, UrlsEndWithConfirm, ConfirmPhoto, Confirmed
    <2> QED
        BY <1>2, <2>4, <2>7, <2>8 DEF IInv, CallsOK, UrlsAreBounded, ConfirmPhoto
<1> QED
    BY <1>3, <1>4

LEMMA OtherCallKeepsIInv ==
    ASSUME IInv, NEW c \in Calls, HeadObject(c) \/ EndCall(c)
    PROVE  IInv'
<1> USE DEF bytes, world
<1>1. NothingForgotten /\ UNCHANGED <<photo, bytes, acked, sweep, world>>
    BY DEF HeadObject, EndCall, NothingForgotten
<1>2. CallsOK'
    <2>1. CASE HeadObject(c)
        BY <1>1, <2>1, CallGoesOn DEF HeadObject, ObjectExists
    <2>2. CASE EndCall(c)
        BY <1>1, <2>2, CallEnds DEF EndCall
    <2> QED
        BY <2>1, <2>2
<1> QED
    BY <1>1, <1>2, QuietStep DEF TypeOK, IInv, BatchIsFinite

LEMMA PutKeepsIInv == ASSUME IInv, PutStep PROVE IInv'
<1> USE DEF world
<1>1. UNCHANGED call /\ NothingForgotten
    BY DEF PutStep, BeginPut, PutLands, PutLost, NothingForgotten
<1>2. CallsOK'
    BY <1>1, CallsStay
<1>3. /\ UNCHANGED <<photo, acked, urlExpires, sweep, world>>
      /\ stored' \subseteq Photos /\ putting' \subseteq Photos
    BY DEF PutStep, BeginPut, PutLands, PutLost, IInv, TypeOK
<1> QED
    BY <1>1, <1>2, <1>3, QuietStep DEF TypeOK, IInv, BatchIsFinite

LEMMA WorldKeepsIInv == ASSUME IInv, WorldStep PROVE IInv'
<1> USE DEF bytes
<1>1. UNCHANGED <<photo, bytes, acked, call, sweep>>
    BY DEF WorldStep, FinishExecution, OpsSuspend, OpsActivate, Tick
<1>2. /\ finishedAt' \in [Executions -> MaybeTime] /\ suspendedAt' \in MaybeTime
      /\ clock' \in Nat /\ clock <= clock'
    BY ParameterAssumption
       DEF WorldStep, FinishExecution, OpsSuspend, OpsActivate, Tick, IInv, TypeOK, MaybeTime
<1>3. NothingForgotten
    BY <1>1, NullAssumption DEF WorldStep, FinishExecution, OpsSuspend, OpsActivate, Tick,
        NothingForgotten, IInv, TypeOK
<1>4. CallsOK'
    BY <1>1, <1>3, CallsStay
<1> QED
    BY <1>1, <1>2, <1>3, <1>4, QuietStep DEF TypeOK, IInv, BatchIsFinite

\* A part of a batch is no larger than the batch.
LEMMA SmallerBatch ==
    ASSUME IInv, NEW listed \in SUBSET Photos, NEW missing \in SUBSET Photos,
           listed \cup missing \subseteq sweep.listed \cup sweep.missing
    PROVE  /\ IsFiniteSet(listed \cup missing)
           /\ Cardinality(listed \cup missing) <= SweepLimit
<1> DEFINE old == sweep.listed \cup sweep.missing
           new == listed \cup missing
<1>1. IsFiniteSet(old) /\ Cardinality(old) <= SweepLimit
    BY DEF IInv, TypeOK, BatchIsFinite
<1>2. new \subseteq old
    OBVIOUS
<1> HIDE DEF old, new
<1>3. IsFiniteSet(new) /\ Cardinality(new) <= Cardinality(old)
    BY <1>1, <1>2, FS_Subset
<1>4. Cardinality(new) \in Nat /\ Cardinality(old) \in Nat /\ SweepLimit \in Nat
    BY <1>1, <1>3, FS_CardinalityType, ParameterAssumption
<1>5. Cardinality(new) <= SweepLimit
    BY <1>1, <1>3, <1>4
<1> QED
    BY <1>3, <1>5 DEF new

\* The sweep moves on without touching a row.
LEMMA SweepMovesOn ==
    ASSUME IInv, NEW listed \in SUBSET Photos, NEW missing \in SUBSET Photos,
           NEW uploading \in SUBSET Photos,
           sweep' = [listed |-> listed, missing |-> missing, uploading |-> uploading],
           IsFiniteSet(listed \cup missing),
           Cardinality(listed \cup missing) <= SweepLimit,
           UNCHANGED <<photo, bytes, acked, call, world>>
    PROVE  IInv'
<1> USE DEF bytes, world
<1>1. NothingForgotten
    BY DEF NothingForgotten
<1>2. CallsOK'
    BY <1>1, CallsStay
<1>3. /\ sweep' \in [listed: SUBSET Photos, missing: SUBSET Photos, uploading: SUBSET Photos]
      /\ sweep'.listed = listed /\ sweep'.missing = missing
    OBVIOUS
<1> QED
    BY <1>1, <1>2, <1>3, QuietStep DEF TypeOK, IInv

LEMMA ListKeepsIInv == ASSUME IInv, ListOrphanPhotos PROVE IInv'
<1>1. PICK batch \in SUBSET Orphans :
        /\ OldestOrphans(batch)
        /\ sweep' = [listed |-> batch, missing |-> {}, uploading |-> {}]
    BY DEF ListOrphanPhotos, Idle
<1>2. batch \subseteq DOMAIN photo /\ batch \subseteq Photos
    BY DEF Orphans, IInv, TypeOK, IsTable
<1>3. IsFiniteSet(batch) /\ Cardinality(batch) <= SweepLimit
    BY <1>1, <1>2, FS_Subset DEF IInv, BatchIsFinite, OldestOrphans
<1>4. PICK listed \in SUBSET Photos, none \in SUBSET Photos : listed = batch /\ none = {}
    BY <1>2
<1>5. listed \cup none = listed
    BY <1>4
<1>6. /\ sweep' = [listed |-> listed, missing |-> none, uploading |-> none]
      /\ IsFiniteSet(listed \cup none) /\ Cardinality(listed \cup none) <= SweepLimit
    BY <1>1, <1>3, <1>4, <1>5
<1> QED
    BY <1>6, SweepMovesOn DEF ListOrphanPhotos

LEMMA PassKeepsIInv ==
    ASSUME IInv, NEW p, SweepKeeps(p) \/ SweepFindsMissing(p) \/ SweepSkips(p) \/ SweepRestarts
    PROVE  IInv'
<1>1. /\ sweep \in [listed: SUBSET Photos, missing: SUBSET Photos, uploading: SUBSET Photos]
      /\ UNCHANGED <<photo, bytes, acked, call, world>>
    BY DEF IInv, TypeOK, SweepKeeps, SweepFindsMissing, SweepSkips, SweepRestarts
<1>2. PICK listed \in SUBSET sweep.listed, missing \in SUBSET (sweep.listed \cup sweep.missing),
           uploading \in SUBSET Photos :
        sweep' = [listed |-> listed, missing |-> missing, uploading |-> uploading]
    <2>1. CASE SweepKeeps(p)
        <3>1. sweep' = [listed |-> sweep.listed \ {p}, missing |-> sweep.missing,
                        uploading |-> sweep.uploading]
            BY <1>1, <2>1 DEF SweepKeeps
        <3> QED
            BY <1>1, <3>1
    <2>2. CASE SweepFindsMissing(p)
        <3>1. {p} \subseteq sweep.listed
            BY <2>2 DEF SweepFindsMissing, Current, Oldest
        <3> QED
            BY <1>1, <2>2, <3>1 DEF SweepFindsMissing
    <2>3. CASE SweepSkips(p)
        BY <2>3 DEF SweepSkips, Idle
    <2>4. CASE SweepRestarts
        BY <2>4 DEF SweepRestarts, Idle
    <2> QED
        BY <2>1, <2>2, <2>3, <2>4
<1>3. listed \in SUBSET Photos /\ missing \in SUBSET Photos
    BY <1>1
<1>4. /\ IsFiniteSet(listed \cup missing)
      /\ Cardinality(listed \cup missing) <= SweepLimit
    BY <1>3, SmallerBatch
<1> QED
    BY <1>1, <1>2, <1>3, <1>4, SweepMovesOn

LEMMA DeleteKeepsIInv ==
    ASSUME IInv, NEW p \in Photos, DeletePhotoRow(p)
    PROVE  IInv'
<1> USE DEF bytes, world
<1>1. /\ TypeOK
      /\ sweep \in [listed: SUBSET Photos, missing: SUBSET Photos, uploading: SUBSET Photos]
      /\ UNCHANGED <<bytes, acked, call, world>>
    BY DEF IInv, TypeOK, DeletePhotoRow
<1>2. NothingForgotten
    BY <1>1 DEF NothingForgotten
<1>3. CallsOK'
    BY <1>1, <1>2, CallsStay
<1>4. /\ sweep' = [listed |-> sweep.listed, missing |-> {}, uploading |-> {}]
      /\ IsFiniteSet(sweep.listed \cup {})
      /\ Cardinality(sweep.listed \cup {}) <= SweepLimit
    BY <1>1, SmallerBatch DEF DeletePhotoRow, Idle
<1>5. CASE ~Deletable(p)
    <2>1. PICK listed \in SUBSET Photos, none \in SUBSET Photos :
            listed = sweep.listed /\ none = {}
        BY <1>1
    <2>2. /\ sweep' = [listed |-> listed, missing |-> none, uploading |-> none]
          /\ IsFiniteSet(listed \cup none) /\ Cardinality(listed \cup none) <= SweepLimit
        BY <1>4, <2>1
    <2>3. UNCHANGED <<photo, bytes, acked, call, world>>
        BY <1>1, <1>5 DEF DeletePhotoRow
    <2> QED
        BY <2>2, <2>3, SweepMovesOn
<1>6. CASE Deletable(p)
    <2>1. photo' = Without(photo, p)
        BY <1>6 DEF DeletePhotoRow
    <2>2. /\ DOMAIN photo' = DOMAIN photo \ {p}
          /\ \A q \in DOMAIN photo' : photo'[q] = photo[q]
        BY <2>1 DEF Without, Restrict
    <2>3. IsTable(photo', Photos, PhotoRow) /\ IsFiniteSet(DOMAIN photo')
        BY <1>1, <2>1, WithoutTable, FiniteTables DEF TypeOK, IInv, BatchIsFinite
    <2>4. TypeOK' /\ BatchIsFinite'
        BY <1>1, <1>3, <1>4, <2>3 DEF TypeOK, IInv, BatchIsFinite, CallsOK
    <2>5. \A q \in DOMAIN photo' : Confirmed(q)' <=> Confirmed(q)
        BY <2>2 DEF Confirmed
    <2>6. \A q \in DOMAIN photo : Confirmed(q) => q \in DOMAIN photo' /\ Confirmed(q)'
        BY <1>6, <2>2 DEF Confirmed, Deletable
    <2>7. ConfirmedHasBytes'
        BY <1>1, <2>2, <2>5 DEF IInv, ConfirmedHasBytes
    <2>8. AckedIsDurable'
        BY <1>1, <2>6 DEF IInv, AckedIsDurable, Confirmed
    <2>9. UrlsAreBounded'
        BY <1>1 DEF IInv, UrlsAreBounded
    <2>10. UrlsEndWithConfirm'
        BY <1>1, <2>2, <2>5 DEF IInv, UrlsEndWithConfirm
    <2> QED
        BY <1>3, <2>4, <2>7, <2>8, <2>9, <2>10 DEF IInv, CallsOK
<1> QED
    BY <1>5, <1>6

LEMMA IInvStep == IInv /\ [Next]_vars => IInv'
<1> SUFFICES ASSUME IInv, [Next]_vars PROVE IInv'
    OBVIOUS
<1>1. CASE CallStep
    <2>1. PICK c \in Calls :
            \/ \E r \in PresignRequests : BeginPresign(c, r[1], r[2])
            \/ InsertPhotoPresign(c)
            \/ PresignPut(c)
            \/ \E p \in Photos, m \in Metas \cup {NULL} : BeginConfirm(c, p, m)
            \/ HeadObject(c)
            \/ ConfirmPhoto(c)
            \/ EndCall(c)
        BY <1>1 DEF CallStep
    <2>2. CASE \E r \in PresignRequests : BeginPresign(c, r[1], r[2])
        <3>1. PICK r \in PresignRequests : BeginPresign(c, r[1], r[2])
            BY <2>2
        <3>2. r[1] \in Photos /\ r[2] \in Subjects
            BY ParameterAssumption
        <3> QED
            BY <3>1, <3>2, BeginKeepsIInv
    <2>3. CASE \E p \in Photos, m \in Metas \cup {NULL} : BeginConfirm(c, p, m)
        <3>1. PICK p \in Photos, m \in Metas \cup {NULL} : BeginConfirm(c, p, m)
            BY <2>3
        <3>2. photo[p].subject \in Subjects
            BY <3>1, PhotoRows DEF IInv, BeginConfirm
        <3> QED
            BY <3>1, <3>2, BeginKeepsIInv
    <2> QED
        BY <2>1, <2>2, <2>3, InsertKeepsIInv, PresignKeepsIInv, OtherCallKeepsIInv,
            ConfirmKeepsIInv
<1>2. CASE PutStep
    BY <1>2, PutKeepsIInv
<1>3. CASE SweepStep
    BY <1>3, ListKeepsIInv, PassKeepsIInv, DeleteKeepsIInv DEF SweepStep
<1>4. CASE WorldStep
    BY <1>4, WorldKeepsIInv
<1>5. CASE UNCHANGED vars
    <2>1. NothingForgotten /\ UNCHANGED call
        BY <1>5 DEF vars, NothingForgotten
    <2>2. CallsOK'
        BY <2>1, CallsStay
    <2> QED
        BY <1>5, <2>1, <2>2, QuietStep DEF vars, TypeOK, IInv, BatchIsFinite
<1> QED
    BY <1>1, <1>2, <1>3, <1>4, <1>5 DEF Next

\* The inductive invariant holds in every reachable state.
THEOREM Inductive == Spec => []IInv
    BY IInvInit, IInvStep, PTL DEF Spec

-----------------------------------------------------------------------------
(***************************************************************************)
(* Theorems                                                                *)
(***************************************************************************)

\* Every variable keeps its type, and a batch of the sweep its limit.
THEOREM TypeCorrect == Spec => []TypeOK
    BY Inductive, PTL DEF IInv

\* The object of a confirmed row is in the store (http.go:246-264).
THEOREM StampsHaveBytes == Spec => []ConfirmedHasBytes
    BY Inductive, PTL DEF IInv

\* A photo whose confirm was answered 200 stays, confirmed and with its bytes.
THEOREM AckIsDurable == Spec => []AckedIsDurable
    BY Inductive, PTL DEF IInv

\* No URL outlives a confirm by more than its own lifetime (http.go:160-168).
THEOREM NoLateUrl == Spec => []UrlsEndWithConfirm
    BY Inductive, PTL DEF IInv

\* Which statements write the photo table, and which hands out URLs.
LEMMA Writers ==
    ASSUME [Next]_vars
    PROVE  /\ \/ UNCHANGED photo
              \/ \E c \in Calls : InsertPhotoPresign(c) \/ ConfirmPhoto(c)
              \/ \E p \in Photos : DeletePhotoRow(p)
           /\ UNCHANGED urlExpires \/ \E c \in Calls : PresignPut(c)
<1> USE DEF bytes, world
<1>1. CASE CallStep
    BY <1>1 DEF CallStep, BeginPresign, BeginConfirm, InsertPhotoPresign, PresignPut,
        HeadObject, ConfirmPhoto, EndCall
<1>2. CASE PutStep
    BY <1>2 DEF PutStep, BeginPut, PutLands, PutLost
<1>3. CASE SweepStep
    BY <1>3 DEF SweepStep, ListOrphanPhotos, SweepRestarts, SweepKeeps, SweepFindsMissing,
        DeletePhotoRow, SweepSkips
<1>4. CASE WorldStep
    BY <1>4 DEF WorldStep, FinishExecution, OpsSuspend, OpsActivate, Tick
<1>5. CASE UNCHANGED vars
    BY <1>5 DEF vars
<1> QED
    BY <1>1, <1>2, <1>3, <1>4, <1>5 DEF Next

\* What an insert, a stamp and a delete do to the rows that are there.
LEMMA InsertFacts ==
    ASSUME NEW c, InsertPhotoPresign(c)
    PROVE  \A q \in DOMAIN photo : q \in DOMAIN photo' /\ photo'[q] = photo[q]
    BY DEF InsertPhotoPresign, Put

LEMMA ConfirmFacts ==
    ASSUME IInv, NEW c \in Calls, ConfirmPhoto(c)
    PROVE  /\ c \in DOMAIN call /\ c \notin DOMAIN call'
           /\ DOMAIN photo' = DOMAIN photo
           /\ \A q \in DOMAIN photo :
                \/ photo'[q] = photo[q]
                \/ \E m \in Metas \cup {NULL} :
                        q = call[c].photo /\ photo'[q] = Stamped(q, m)
<1>1. /\ c \in DOMAIN call /\ c \notin DOMAIN call'
      /\ call[c].meta \in Metas \cup {NULL}
    BY CallRows DEF IInv, ConfirmPhoto, Without, Restrict
<1>2. CASE call[c].photo \in DOMAIN photo
    BY <1>1, <1>2 DEF ConfirmPhoto, Put
<1>3. CASE call[c].photo \notin DOMAIN photo
    BY <1>1, <1>3 DEF ConfirmPhoto
<1> QED
    BY <1>1, <1>2, <1>3

LEMMA DeleteFacts ==
    ASSUME NEW p, DeletePhotoRow(p)
    PROVE  \A q \in DOMAIN photo :
               \/ q \in DOMAIN photo' /\ photo'[q] = photo[q]
               \/ q \notin DOMAIN photo' /\ photo[q].uploadedAt = NULL
    BY DEF DeletePhotoRow, Deletable, Without, Restrict

LEMMA PermanentStep ==
    ASSUME IInv, [Next]_vars, NEW q \in DOMAIN photo, Confirmed(q)
    PROVE  /\ q \in DOMAIN photo'
           /\ photo'[q].subject = photo[q].subject
           /\ photo'[q].uploadedAt = photo[q].uploadedAt
           /\ photo[q].takenAt # NULL => photo'[q].takenAt = photo[q].takenAt
<1>1. CASE UNCHANGED photo
    BY <1>1
<1>2. ASSUME NEW c \in Calls, InsertPhotoPresign(c)
      PROVE  q \in DOMAIN photo' /\ photo'[q] = photo[q]
    BY <1>2, InsertFacts
<1>3. CASE \E c \in Calls : ConfirmPhoto(c)
    <2>1. PICK c \in Calls : ConfirmPhoto(c)
        BY <1>3
    <2>2. CASE photo'[q] = photo[q]
        BY <2>1, <2>2, ConfirmFacts
    <2>3. CASE \E m \in Metas \cup {NULL} : photo'[q] = Stamped(q, m)
        BY <2>1, <2>3, ConfirmFacts, StampFacts DEF Confirmed
    <2> QED
        BY <2>1, <2>2, <2>3, ConfirmFacts
<1>4. ASSUME NEW p \in Photos, DeletePhotoRow(p)
      PROVE  q \in DOMAIN photo' /\ photo'[q] = photo[q]
    BY <1>4, DeleteFacts DEF Confirmed
<1> QED
    BY <1>1, <1>2, <1>3, <1>4, Writers

\* A confirmed row is never deleted, bound anew, or stamped again.
THEOREM EvidenceIsPermanent == Spec => ConfirmedRowsArePermanent
<1>1. IInv /\ [Next]_vars =>
        [\A p \in DOMAIN photo :
            Confirmed(p) =>
                /\ p \in DOMAIN photo'
                /\ photo'[p].subject = photo[p].subject
                /\ photo'[p].uploadedAt = photo[p].uploadedAt
                /\ photo[p].takenAt # NULL => photo'[p].takenAt = photo[p].takenAt]_vars
    BY PermanentStep
<1> QED
    BY <1>1, Inductive, PTL DEF Spec, ConfirmedRowsArePermanent

\* A URL is handed out by a presign of the row's own subject, which ends.
LEMMA PresignFacts ==
    ASSUME IInv, NEW c \in Calls, PresignPut(c), NEW p \in Photos,
           urlExpires'[p] # urlExpires[p]
    PROVE  /\ c \in DOMAIN call \ DOMAIN call' /\ call[c].photo = p
           /\ call[c].subject = photo[p].subject
    BY DEF PresignPut, Presignable, Without, Restrict, IInv, TypeOK

\* The calls that ended, and what the gate had seen of the photo's execution.
LEMMA SuspensionStep ==
    ASSUME IInv, [Next]_vars, NEW p \in Photos,
           suspendedAt # NULL, finishedAt[ExecutionOf[photo[p].subject]] = NULL
    PROVE  /\ urlExpires'[p] # urlExpires[p] =>
                \E c \in DOMAIN call \ DOMAIN call' :
                    call[c].photo = p /\ ~call[c].suspended
           /\ ~Confirmed(p) /\ Confirmed(p)' =>
                \E c \in DOMAIN call \ DOMAIN call' :
                    /\ call[c].photo = p
                    /\ ~call[c].suspended \/ call[c].subject # photo[p].subject
<1>1. \A c \in DOMAIN call :
        call[c].suspended => finishedAt[ExecutionOf[call[c].subject]] # NULL
    BY DEF IInv, CallsHold, GatedWorkIsFinished
<1>2. ASSUME urlExpires'[p] # urlExpires[p]
      PROVE  \E c \in DOMAIN call \ DOMAIN call' : call[c].photo = p /\ ~call[c].suspended
    <2>1. PICK c \in Calls : PresignPut(c)
        BY <1>2, Writers
    <2> QED
        BY <1>1, <1>2, <2>1, PresignFacts
<1>3. ASSUME ~Confirmed(p), Confirmed(p)'
      PROVE  \E c \in DOMAIN call \ DOMAIN call' :
                /\ call[c].photo = p
                /\ ~call[c].suspended \/ call[c].subject # photo[p].subject
    <2>1. ~ UNCHANGED photo
        BY <1>3 DEF Confirmed
    <2>2. ASSUME NEW c \in Calls, InsertPhotoPresign(c) PROVE FALSE
        <3>1. photo'[p].uploadedAt = NULL
            BY <1>3, <2>2 DEF InsertPhotoPresign, Put, Confirmed
        <3> QED
            BY <1>3, <3>1 DEF Confirmed
    <2>3. ASSUME NEW q \in Photos, DeletePhotoRow(q) PROVE FALSE
        <3>1. p \in DOMAIN photo /\ photo'[p] = photo[p]
            BY <1>3, <2>3 DEF DeletePhotoRow, Without, Restrict, Confirmed
        <3> QED
            BY <1>3, <3>1 DEF Confirmed
    <2>4. PICK c \in Calls : ConfirmPhoto(c)
        BY <2>1, <2>2, <2>3, Writers
    <2>5. p \in DOMAIN photo /\ photo'[p] # photo[p]
        BY <1>3, <2>4, ConfirmFacts DEF Confirmed
    <2> QED
        BY <1>1, <2>4, <2>5, ConfirmFacts
<1> QED
    BY <1>2, <1>3

\* Under a suspension, a URL or a stamp for unfinished work comes from a call
\* let in before it.
THEOREM OpenPhotosWereLetIn == Spec => OpenPhotosPrecedeSuspension
<1>1. IInv /\ [Next]_vars =>
        [\A p \in Photos :
            LET open(s) == suspendedAt # NULL /\ finishedAt[ExecutionOf[s]] = NULL
                ended == {c \in DOMAIN call \ DOMAIN call' : call[c].photo = p}
            IN  /\ urlExpires'[p] # urlExpires[p] /\ open(photo[p].subject) =>
                    \E c \in ended : ~call[c].suspended
                /\ ~Confirmed(p) /\ Confirmed(p)' /\ open(photo[p].subject) =>
                    \E c \in ended :
                        ~call[c].suspended \/ call[c].subject # photo[p].subject]_vars
    <2> SUFFICES ASSUME IInv, [Next]_vars, NEW p \in Photos,
                        suspendedAt # NULL /\ finishedAt[ExecutionOf[photo[p].subject]] = NULL
                 PROVE  LET ended == {c \in DOMAIN call \ DOMAIN call' : call[c].photo = p}
                        IN  /\ urlExpires'[p] # urlExpires[p] =>
                                \E c \in ended : ~call[c].suspended
                            /\ ~Confirmed(p) /\ Confirmed(p)' =>
                                \E c \in ended : \/ ~call[c].suspended
                                                 \/ call[c].subject # photo[p].subject
        OBVIOUS
    <2> QED
        BY SuspensionStep
<1> QED
    BY <1>1, Inductive, PTL DEF Spec, OpenPhotosPrecedeSuspension

-----------------------------------------------------------------------------
(***************************************************************************)
(* What the sweep deletes                                                  *)
(***************************************************************************)

UrlPastAge(p) == urlExpires[p] # NULL /\ urlExpires[p] > photo[p].createdAt + OrphanAge

\* The rows of a batch stay there, past their age, and of the one the store
\* missed an object only appears by a PUT that was on its way when HEAD answered
\* or by one that began since, with a URL valid past the age.
SweepHolds ==
    /\ sweep.listed \cap sweep.missing = {}
    /\ \A p \in sweep.listed \cup sweep.missing :
            p \in DOMAIN photo /\ photo[p].createdAt + OrphanAge < clock
    /\ \A p \in sweep.missing :
            p \in stored \cup putting => p \in sweep.uploading \/ UrlPastAge(p)

\* The batch lies where it was: rows keep their age, the clock and URLs move on,
\* and a PUT begins only with a URL that is valid.
LEMMA BatchStands ==
    ASSUME IInv, SweepHolds, UNCHANGED sweep, clock' \in Nat, clock <= clock',
           \A p \in DOMAIN photo :
                p \in DOMAIN photo' /\ photo'[p].createdAt = photo[p].createdAt,
           \A p \in Photos :
                \/ urlExpires'[p] = urlExpires[p]
                \/ urlExpires'[p] \in Nat /\ clock <= urlExpires'[p],
           \A p \in (stored' \cup putting') \ (stored \cup putting) :
                urlExpires[p] # NULL /\ clock <= urlExpires[p]
    PROVE  SweepHolds'
<1>1. \A p \in sweep.listed \cup sweep.missing :
        /\ p \in DOMAIN photo' /\ photo'[p].createdAt + OrphanAge < clock'
        /\ p \in Photos /\ photo[p].createdAt + OrphanAge < clock
        /\ photo'[p].createdAt = photo[p].createdAt /\ photo[p].createdAt + OrphanAge \in Nat
    <2> SUFFICES ASSUME NEW p \in sweep.listed \cup sweep.missing
                 PROVE  /\ p \in DOMAIN photo' /\ photo'[p].createdAt + OrphanAge < clock'
                        /\ p \in Photos /\ photo[p].createdAt + OrphanAge < clock
                        /\ photo'[p].createdAt = photo[p].createdAt
                        /\ photo[p].createdAt + OrphanAge \in Nat
        OBVIOUS
    <2>1. p \in DOMAIN photo /\ photo[p].createdAt + OrphanAge < clock
        BY DEF SweepHolds
    <2>2. p \in Photos /\ photo[p].createdAt \in Nat /\ OrphanAge \in Nat /\ clock \in Nat
        BY <2>1, PhotoRows, ParameterAssumption DEF IInv, TypeOK
    <2> QED
        BY <2>1, <2>2
<1>2. ASSUME NEW p \in sweep.missing, p \in stored' \cup putting', p \notin sweep.uploading
      PROVE  UrlPastAge(p)'
    <2>1. urlExpires[p] \in MaybeTime /\ clock \in Nat
        BY <1>1 DEF IInv, TypeOK
    <2>2. UrlPastAge(p) \/ (urlExpires[p] # NULL /\ clock <= urlExpires[p])
        BY <1>2 DEF SweepHolds
    <2>3. urlExpires[p] \in Nat /\ urlExpires[p] > photo[p].createdAt + OrphanAge
        BY <1>1, <2>1, <2>2 DEF UrlPastAge, MaybeTime
    <2>4. urlExpires'[p] \in Nat /\ urlExpires'[p] > photo[p].createdAt + OrphanAge
        BY <1>1, <2>1, <2>3
    <2> QED
        BY <1>1, <2>4, NullAssumption DEF UrlPastAge
<1> QED
    BY <1>1, <1>2 DEF SweepHolds

\* The sweep goes on with a part of its batch.
LEMMA BatchShrinks ==
    ASSUME SweepHolds, UNCHANGED <<photo, bytes, clock>>,
           sweep'.listed \subseteq sweep.listed, sweep'.missing = {}
    PROVE  SweepHolds'
    BY DEF SweepHolds, UrlPastAge, bytes

LEMMA SweepHoldsStep ==
    ASSUME IInv, SweepHolds, [Next]_vars
    PROVE  SweepHolds'
<1> USE DEF world
<1>0. /\ TypeOK /\ clock \in Nat /\ UrlTTL \in Nat
      /\ sweep \in [listed: SUBSET Photos, missing: SUBSET Photos, uploading: SUBSET Photos]
    BY ParameterAssumption DEF IInv, TypeOK
<1>1. CASE CallStep
    <2>1. UNCHANGED <<sweep, stored, putting, clock>>
        BY <1>1 DEF CallStep, BeginPresign, InsertPhotoPresign, PresignPut, BeginConfirm,
            HeadObject, ConfirmPhoto, EndCall, bytes
    <2>2. ~ \E p \in Photos : photo' # photo /\ DeletePhotoRow(p)
        <3>1. ASSUME NEW p \in Photos, DeletePhotoRow(p) PROVE sweep' # sweep
            BY <1>0, <3>1 DEF DeletePhotoRow, Idle
        <3> QED
            BY <2>1, <3>1
    <2>3. \A p \in DOMAIN photo :
            p \in DOMAIN photo' /\ photo'[p].createdAt = photo[p].createdAt
        <3>1. CASE UNCHANGED photo
            BY <3>1
        <3>2. ASSUME NEW c \in Calls, InsertPhotoPresign(c)
              PROVE  \A p \in DOMAIN photo : p \in DOMAIN photo' /\ photo'[p] = photo[p]
            BY <3>2, InsertFacts
        <3>3. ASSUME NEW c \in Calls, ConfirmPhoto(c), NEW p \in DOMAIN photo
              PROVE  p \in DOMAIN photo' /\ photo'[p].createdAt = photo[p].createdAt
            BY <3>3, ConfirmFacts, StampFacts
        <3> QED
            BY <2>2, <3>1, <3>2, <3>3, Writers
    <2>4. \A p \in Photos : \/ urlExpires'[p] = urlExpires[p]
                            \/ urlExpires'[p] \in Nat /\ clock <= urlExpires'[p]
        <3>1. ASSUME NEW c \in Calls, PresignPut(c), NEW p \in Photos
              PROVE  urlExpires'[p] = urlExpires[p] \/ urlExpires'[p] = clock + UrlTTL
            BY <1>0, <3>1 DEF PresignPut, TypeOK
        <3>2. clock + UrlTTL \in Nat /\ clock <= clock + UrlTTL
            BY <1>0
        <3> QED
            BY <3>1, <3>2, Writers
    <2> QED
        BY <1>0, <2>1, <2>3, <2>4, BatchStands
<1>2. CASE PutStep
    <2>1. /\ UNCHANGED <<photo, urlExpires, sweep, clock>>
          /\ \A p \in (stored' \cup putting') \ (stored \cup putting) :
                urlExpires[p] # NULL /\ clock <= urlExpires[p]
        BY <1>2 DEF PutStep, BeginPut, PutLands, PutLost
    <2> QED
        BY <1>0, <2>1, BatchStands
<1>3. CASE WorldStep
    <2>1. /\ UNCHANGED <<photo, bytes, sweep>> /\ clock' \in Nat /\ clock <= clock'
        BY <1>0, <1>3 DEF WorldStep, FinishExecution, OpsSuspend, OpsActivate, Tick
    <2> QED
        BY <2>1, BatchStands DEF bytes
<1>4. CASE ListOrphanPhotos
    <2>1. PICK batch \in SUBSET Orphans : sweep' = [listed |-> batch, missing |-> {}, uploading |-> {}]
        BY <1>4 DEF ListOrphanPhotos, Idle
    <2>2. UNCHANGED <<photo, clock>>
        BY <1>4 DEF ListOrphanPhotos
    <2> QED
        BY <2>1, <2>2 DEF SweepHolds, Orphans
<1>5. ASSUME NEW p \in Photos, SweepKeeps(p) PROVE SweepHolds'
    <2>1. sweep'.listed \subseteq sweep.listed /\ sweep'.missing = {}
        BY <1>0, <1>5 DEF SweepKeeps, Current
    <2> QED
        BY <1>5, <2>1, BatchShrinks DEF SweepKeeps
<1>6. ASSUME NEW p \in Photos, SweepSkips(p) PROVE SweepHolds'
    <2>1. sweep'.listed \subseteq sweep.listed /\ sweep'.missing = {}
        BY <1>0, <1>6 DEF SweepSkips, Idle
    <2> QED
        BY <1>6, <2>1, BatchShrinks DEF SweepSkips
<1>7. CASE SweepRestarts
    <2>1. sweep'.listed \subseteq sweep.listed /\ sweep'.missing = {}
        BY <1>7 DEF SweepRestarts, Idle
    <2> QED
        BY <1>7, <2>1, BatchShrinks DEF SweepRestarts
<1>8. ASSUME NEW p \in Photos, SweepFindsMissing(p) PROVE SweepHolds'
    <2>1. /\ sweep'.listed = sweep.listed \ {p} /\ sweep'.missing = {p}
          /\ sweep'.uploading = {p} \cap putting
          /\ p \in sweep.listed /\ p \notin stored
          /\ UNCHANGED <<photo, bytes, clock>>
        BY <1>8 DEF SweepFindsMissing, Current, Oldest
    <2> QED
        BY <2>1 DEF SweepHolds, bytes
<1>9. ASSUME NEW p \in Photos, DeletePhotoRow(p) PROVE SweepHolds'
    <2>1. /\ sweep'.listed = sweep.listed /\ sweep'.missing = {}
          /\ p \in sweep.missing /\ UNCHANGED clock
          /\ photo' = Without(photo, p) \/ UNCHANGED photo
        BY <1>9 DEF DeletePhotoRow, Idle
    <2>2. \A q \in sweep.listed : q \in DOMAIN photo' /\ photo'[q] = photo[q]
        BY <2>1 DEF SweepHolds, Without, Restrict
    <2> QED
        BY <2>1, <2>2 DEF SweepHolds
<1>10. CASE UNCHANGED vars
    BY <1>10 DEF vars, SweepHolds, UrlPastAge
<1> QED
    BY <1>1, <1>2, <1>3, <1>4, <1>5, <1>6, <1>7, <1>8, <1>9, <1>10 DEF Next, SweepStep

\* A row is deleted over its object only if the PUT was on its way when the
\* store said there was none, or if a URL was valid past the row's age: a row
\* presigned within its age, uploaded promptly, is safe from the sweep.
THEOREM PromptUploadsAreSafe == Spec => SweepSparesPromptUploads
<1>1. Init => SweepHolds
    BY DEF Init, Idle, SweepHolds
<1>2. IInv /\ SweepHolds /\ [Next]_vars => SweepHolds'
    BY SweepHoldsStep
<1>3. IInv /\ SweepHolds /\ [Next]_vars =>
        [\A p \in DOMAIN photo :
            p \notin DOMAIN photo' /\ p \in stored =>
                p \in sweep.uploading \/ urlExpires[p] > photo[p].createdAt + OrphanAge]_vars
    <2> SUFFICES ASSUME IInv, SweepHolds, [Next]_vars, NEW p \in DOMAIN photo,
                        p \notin DOMAIN photo', p \in stored
                 PROVE  p \in sweep.uploading \/ UrlPastAge(p)
        BY DEF UrlPastAge
    <2>1. PICK q \in Photos : DeletePhotoRow(q)
        BY Writers, InsertFacts, ConfirmFacts
    <2>2. p = q /\ q \in sweep.missing
        BY <2>1 DEF DeletePhotoRow, Without, Restrict
    <2> QED
        BY <2>2 DEF SweepHolds
<1> QED
    BY <1>1, <1>2, <1>3, Inductive, PTL DEF Spec, SweepSparesPromptUploads

==============================================================================
