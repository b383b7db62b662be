----------------------------- MODULE AssetStore -----------------------------
(***************************************************************************)
(* The bucket and the catalog side by side: what Service.Put and           *)
(* PutRendition, `asset-service withhold` and `requeue --rebuild` do to    *)
(* each, one call at a time, and what a reader makes of the two            *)
(* (internal/assets/service.go, withhold.go, requeue.go).                  *)
(*                                                                         *)
(* No transaction spans the two.  A call to storage can fail, or succeed   *)
(* and lose its answer; a request can end between any two calls, because   *)
(* its client went away or the process stopped.  The queue of jobs is kept *)
(* to what these operations see of it; Deriving has the whole of it.       *)
(***************************************************************************)
EXTENDS Integers, Sequences, FiniteSets

CONSTANTS Assets,      \* asset keys
          Stem,        \* assets of one stem make the same bytes under the same names
          Requests,    \* the uploads clients may send: [key, digest, visibility, kind]
          Legacy,      \* assets that may have been stored, public, before originals were withheld
          LegacyKind,  \* what the content type of such an asset is
          Uploaders, Builders, Readers,
          PutAttempts, \* putAttempts
          NoAsset

Kinds == {"image", "video", "model", "file"}
Visibilities == {"public", "private"}

ASSUME StoreAssumption ==
    /\ Requests \subseteq [key : Assets, digest : STRING \ {"", "old"},
                          visibility : Visibilities, kind : Kinds]
    /\ Legacy \subseteq Assets
    /\ LegacyKind \in [Assets -> Kinds]
    /\ PutAttempts \in Nat \ {0}
    /\ NoAsset \notin Assets

VARIABLES row,      \* the catalog's row of each asset
          forms,    \* the names in renditions for each asset
          job,      \* the state of each asset's job
          acl,      \* who may read each object; "none" is no object
          bytes,    \* the digest in the metadata of each original
          uploader, \* the uploads in progress
          builder,  \* the builds in progress
          reader,   \* the readers of a manifest
          withholder, \* the run of withhold
          rebuilder, \* the run of requeue --rebuild
          rebuilt   \* the assets whose forms some rebuild has cleared

catalog == <<row, forms, job>>
bucket == <<acl, bytes>>
operators == <<withholder, rebuilder, rebuilt>>
vars == <<row, forms, job, acl, bytes, uploader, builder, reader, withholder, rebuilder, rebuilt>>

-----------------------------------------------------------------------------
(* What derive says of a content type, and how keys are made.              *)

\* The forms of each kind in the order they are stored; one rung stands for
\* a ladder's sizes.
Ladder == [image |-> <<"rung", "full">>, video |-> <<"encode", "poster">>,
           model |-> <<"render">>, file |-> <<>>]

FormNames == {"rung", "full", "encode", "poster", "render"}

Supported(kind) == kind # "file"
WithholdsOriginal(kind) == kind \in {"image", "video"}

\* A form's key is made of the asset's name and the form's own bytes.
FormKey(a, name) == <<Stem[a], name>>

Objects == Assets \cup {FormKey(a, name) : a \in Assets, name \in FormNames}

NoRow == [visibility |-> "none", digest |-> "", kind |-> "none"]
OldDigest == "old"
OldRow(a) == [visibility |-> "public", digest |-> OldDigest, kind |-> LegacyKind[a]]
Stored(a) == row[a] # NoRow

-----------------------------------------------------------------------------
(* Types.                                                                  *)

Digests == {r.digest : r \in Requests} \cup {OldDigest, ""}

NoUpload == [at |-> "idle", request |-> NoRow, key |-> NoAsset, tries |-> 0]
NoBuild == [at |-> "idle", key |-> NoAsset, next |-> 1]
NoRead == [at |-> "idle", key |-> NoAsset, forms |-> {}, status |-> "none", url |-> NoAsset]
NoRun == [at |-> "idle", left |-> {}, key |-> NoAsset]

TypeOK ==
    /\ row \in [Assets -> {NoRow} \cup [visibility : Visibilities, digest : Digests, kind : Kinds]]
    /\ forms \in [Assets -> SUBSET FormNames]
    /\ job \in [Assets -> {"none", "pending", "running", "failed"}]
    /\ acl \in [Objects -> {"none"} \cup Visibilities]
    /\ bytes \in [Assets -> Digests]
    /\ \A u \in Uploaders :
        /\ uploader[u].at \in {"idle", "lookup", "head", "put", "insert", "queue"}
        /\ uploader[u].tries \in 0..PutAttempts - 1
    /\ \A b \in Builders : builder[b].at \in {"idle", "head", "put", "record", "done"}
    /\ \A r \in Readers :
        /\ reader[r].at \in {"idle", "forms", "job", "answered"}
        /\ reader[r].status \in {"none", "ready", "pending", "failed"}
    /\ withholder.at \in {"idle", "listed", "withhold", "queue"}
    /\ rebuilder.at \in {"idle", "listed", "queue"}
    /\ withholder.left \cup rebuilder.left \cup rebuilt \subseteq Assets

Init ==
    /\ \E old \in SUBSET Legacy :
        /\ row = [a \in Assets |-> IF a \in old THEN OldRow(a) ELSE NoRow]
        /\ acl = [o \in Objects |-> IF o \in old THEN "public" ELSE "none"]
        /\ bytes = [a \in Assets |-> IF a \in old THEN OldDigest ELSE ""]
    /\ forms = [a \in Assets |-> {}]
    /\ job = [a \in Assets |-> "none"]
    /\ uploader = [u \in Uploaders |-> NoUpload]
    /\ builder = [b \in Builders |-> NoBuild]
    /\ reader = [r \in Readers |-> NoRead]
    /\ withholder = NoRun /\ rebuilder = NoRun /\ rebuilt = {}

-----------------------------------------------------------------------------
(* Storage and the queue.                                                  *)

PutOriginal(a, access, digest) ==
    /\ acl' = [acl EXCEPT ![a] = access]
    /\ bytes' = [bytes EXCEPT ![a] = digest]

Enqueued(a) == [job EXCEPT ![a] = IF @ = "none" THEN "pending" ELSE @]

-----------------------------------------------------------------------------
(* Service.Put.                                                            *)

Receive(u, r) ==
    /\ uploader[u] = NoUpload
    /\ uploader' = [uploader EXCEPT ![u] =
          [at |-> "lookup", key |-> r.key, tries |-> 0,
           request |-> [visibility |-> r.visibility, digest |-> r.digest, kind |-> r.kind]]]
    /\ UNCHANGED <<catalog, bucket, builder, reader, operators>>

\* The request is answered, refused, or ends with its client or the process.
\* It reads storage and the catalog only until then.
End(u) == uploader' = [uploader EXCEPT ![u] = NoUpload]

Abandon(u) ==
    /\ uploader[u] # NoUpload
    /\ End(u)
    /\ UNCHANGED <<catalog, bucket, builder, reader, operators>>

\* A row under this key is the answer, or a collision of digests.
Lookup(u) ==
    /\ uploader[u].at = "lookup"
    /\ IF Stored(uploader[u].key) THEN End(u)
       ELSE uploader' = [uploader EXCEPT ![u].at = "head"]
    /\ UNCHANGED <<catalog, bucket, builder, reader, operators>>

AfterHeadTrusting(found, wanted) ==
    IF found \in {"", wanted} THEN "insert" ELSE "idle"

\* An object that does not say what it holds is stored again; these very
\* bytes are there already; other bytes are a collision.
AfterHead(found, wanted) ==
    IF found = "" THEN "put" ELSE IF found = wanted THEN "insert" ELSE "idle"

HeadOriginal(u) ==
    LET next == AfterHead(bytes[uploader[u].key], uploader[u].request.digest) IN
    /\ uploader[u].at = "head"
    /\ IF next = "idle" THEN End(u) ELSE uploader' = [uploader EXCEPT ![u].at = next]
    /\ UNCHANGED <<catalog, bucket, builder, reader, operators>>

AccessAsAsked(request) == request.visibility

\* By what this request declares the bytes to be, which its row will say too.
OriginalAccess(request) ==
    IF request.visibility = "public" /\ ~WithholdsOriginal(request.kind) THEN "public" ELSE "private"

PutDone(u) ==
    /\ uploader[u].at = "put"
    /\ PutOriginal(uploader[u].key, OriginalAccess(uploader[u].request),
                   uploader[u].request.digest)
    /\ uploader' = [uploader EXCEPT ![u].at = "insert"]
    /\ UNCHANGED <<catalog, builder, reader, operators>>

OneTooMany(u) == uploader[u].tries = PutAttempts

LastTry(u) == uploader[u].tries + 1 = PutAttempts

\* The bytes may be stored all the same: then only the answer was lost.
PutFails(u, kept) ==
    /\ uploader[u].at = "put"
    /\ IF kept THEN PutOriginal(uploader[u].key, OriginalAccess(uploader[u].request),
                                uploader[u].request.digest)
       ELSE UNCHANGED bucket
    /\ IF LastTry(u) THEN End(u) ELSE uploader' = [uploader EXCEPT ![u].tries = @ + 1]
    /\ UNCHANGED <<catalog, builder, reader, operators>>

\* A row that is there by now is the answer.
InsertAsset(u) ==
    LET a == uploader[u].key IN
    /\ uploader[u].at = "insert"
    /\ IF Stored(a) THEN UNCHANGED row /\ End(u)
       ELSE /\ row' = [row EXCEPT ![a] = uploader[u].request]
            /\ IF Supported(uploader[u].request.kind) THEN uploader' = [uploader EXCEPT ![u].at = "queue"] ELSE End(u)
    /\ UNCHANGED <<forms, job, bucket, builder, reader, operators>>

Queue(u) ==
    /\ uploader[u].at = "queue"
    /\ job' = Enqueued(uploader[u].key)
    /\ End(u)
    /\ UNCHANGED <<row, forms, bucket, builder, reader, operators>>

-----------------------------------------------------------------------------
(* Service.PutRendition, form after form, by whoever has the job.          *)

Claim(b, a) ==
    /\ builder[b] = NoBuild
    /\ job[a] = "pending"
    /\ job' = [job EXCEPT ![a] = "running"]
    /\ builder' = [builder EXCEPT ![b] = [at |-> "head", key |-> a, next |-> 1]]
    /\ UNCHANGED <<row, forms, bucket, uploader, reader, operators>>

LadderOf(a) == Ladder[row[a].kind]

Building(b) == FormKey(builder[b].key, LadderOf(builder[b].key)[builder[b].next])

IsThere(object) == acl[object] # "none"

HeadForm(b) ==
    /\ builder[b].at = "head"
    /\ builder' = [builder EXCEPT ![b].at = IF IsThere(Building(b)) THEN "record" ELSE "put"]
    /\ UNCHANGED <<catalog, bucket, uploader, reader, operators>>

PutForm(b) ==
    /\ builder[b].at = "put"
    /\ acl' = [acl EXCEPT ![Building(b)] = row[builder[b].key].visibility]
    /\ builder' = [builder EXCEPT ![b].at = "record"]
    /\ UNCHANGED <<catalog, bytes, uploader, reader, operators>>

RecordForm(b) ==
    LET a == builder[b].key
        last == builder[b].next = Len(LadderOf(a))
    IN  /\ builder[b].at = "record"
        /\ forms' = [forms EXCEPT ![a] = @ \cup {LadderOf(a)[builder[b].next]}]
        /\ builder' = [builder EXCEPT ![b].at = IF last THEN "done" ELSE "head",
                                      ![b].next = IF last THEN @ ELSE @ + 1]
        /\ UNCHANGED <<row, job, bucket, uploader, reader, operators>>

\* The build reports: the job is gone, offered again, or given up.
Report(b, state) ==
    /\ job' = [job EXCEPT ![builder[b].key] = state]
    /\ builder' = [builder EXCEPT ![b] = NoBuild]
    /\ UNCHANGED <<row, forms, uploader, reader, operators>>

Complete(b) ==
    /\ builder[b].at = "done"
    /\ Report(b, "none")
    /\ UNCHANGED bucket

\* Any call of the build may fail; the put may have stored the form all the same.
BuildFails(b, kept, state) ==
    /\ builder[b] # NoBuild
    /\ Report(b, state)
    /\ acl' = IF builder[b].at = "put" /\ kept
              THEN [acl EXCEPT ![Building(b)] = row[builder[b].key].visibility] ELSE acl
    /\ UNCHANGED bytes

-----------------------------------------------------------------------------
(* A reader's manifest: the row, the forms and the job are three reads.    *)

ReadRow(r, a) ==
    /\ reader[r] = NoRead
    /\ Stored(a)
    /\ reader' = [reader EXCEPT ![r].at = "forms", ![r].key = a]
    /\ UNCHANGED <<catalog, bucket, uploader, builder, operators>>

\* The forms of the asset's own kind, the widest of which may be published.
SameKind(a) == IF row[a].kind = "image" THEN "rung" ELSE "encode"

OriginalInstead(a, names) ==
    IF row[a].visibility = "private" \/ ~WithholdsOriginal(row[a].kind) THEN a
    ELSE IF "full" \in names THEN FormKey(a, "full")
    ELSE IF SameKind(a) \in names THEN FormKey(a, SameKind(a))
    ELSE a

PublicForm(a, names) ==
    IF row[a].visibility = "private" \/ ~WithholdsOriginal(row[a].kind) THEN a
    ELSE IF "full" \in names THEN FormKey(a, "full")
    ELSE IF SameKind(a) \in names THEN FormKey(a, SameKind(a))
    ELSE NoAsset

LadderStatus(state) ==
    CASE state = "none" -> "ready" [] state = "failed" -> "failed" [] OTHER -> "pending"

Answer(r, names, status) ==
    reader' = [reader EXCEPT ![r].at = "answered", ![r].forms = names, ![r].status = status,
                             ![r].url = PublicForm(reader[r].key, names)]

ReadForms(r) ==
    LET a == reader[r].key IN
    /\ reader[r].at = "forms"
    /\ IF Supported(row[a].kind) THEN reader' = [reader EXCEPT ![r].at = "job", ![r].forms = forms[a]]
       ELSE Answer(r, {}, "none")
    /\ UNCHANGED <<catalog, bucket, uploader, builder, operators>>

ReadJob(r) ==
    /\ reader[r].at = "job"
    /\ Answer(r, reader[r].forms, LadderStatus(job[reader[r].key]))
    /\ UNCHANGED <<catalog, bucket, uploader, builder, operators>>

Leave(r) ==
    /\ reader[r].at = "answered"
    /\ reader' = [reader EXCEPT ![r] = NoRead]
    /\ UNCHANGED <<catalog, bucket, uploader, builder, operators>>

-----------------------------------------------------------------------------
(* `asset-service withhold`, beside the serving process.                   *)

List ==
    /\ withholder = NoRun
    /\ withholder' = [NoRun EXCEPT !.at = "listed", !.left =
          {a \in Assets : Stored(a) /\ row[a].visibility = "public" /\ WithholdsOriginal(row[a].kind)}]
    /\ UNCHANGED <<catalog, bucket, uploader, builder, reader, rebuilder, rebuilt>>

AnyForm(a, names) == names # {}

Publishable(a, names) == IF row[a].kind = "image" THEN "full" \in names ELSE names # {}

Look(a) ==
    /\ withholder.at = "listed"
    /\ a \in withholder.left
    /\ withholder' = [at |-> IF Publishable(a, forms[a]) THEN "withhold" ELSE "queue",
                      left |-> withholder.left \ {a}, key |-> a]
    /\ UNCHANGED <<catalog, bucket, uploader, builder, reader, rebuilder, rebuilt>>

NextListed == withholder' = [withholder EXCEPT !.at = "listed", !.key = NoAsset]

SetPrivate ==
    /\ withholder.at = "withhold"
    /\ acl' = [acl EXCEPT ![withholder.key] = "private"]
    /\ NextListed
    /\ UNCHANGED <<catalog, bytes, uploader, builder, reader, rebuilder, rebuilt>>

QueueInstead ==
    /\ withholder.at = "queue"
    /\ job' = Enqueued(withholder.key)
    /\ NextListed
    /\ UNCHANGED <<row, forms, bucket, uploader, builder, reader, rebuilder, rebuilt>>

\* The list is done, or a call failed; rewriting the ACL may have worked.
EndRun(kept) ==
    /\ withholder # NoRun
    /\ withholder' = NoRun
    /\ acl' = IF withholder.at = "withhold" /\ kept
              THEN [acl EXCEPT ![withholder.key] = "private"] ELSE acl
    /\ UNCHANGED <<catalog, bytes, uploader, builder, reader, rebuilder, rebuilt>>

-----------------------------------------------------------------------------
(* `asset-service requeue --rebuild`, beside it too: rows go, objects stay. *)

ListAgain ==
    /\ rebuilder = NoRun
    /\ rebuilder' = [NoRun EXCEPT !.at = "listed", !.left =
          {a \in Assets : Stored(a) /\ job[a] = "none" /\ Supported(row[a].kind)}]
    /\ UNCHANGED <<catalog, bucket, uploader, builder, reader, withholder, rebuilt>>

\* What was listed may have a job by now, and its builder under way.
DeleteRenditions(a) ==
    /\ rebuilder.at = "listed"
    /\ a \in rebuilder.left
    /\ forms' = [forms EXCEPT ![a] = {}]
    /\ rebuilt' = rebuilt \cup {a}
    /\ rebuilder' = [at |-> "queue", left |-> rebuilder.left \ {a}, key |-> a]
    /\ UNCHANGED <<row, job, bucket, uploader, builder, reader, withholder>>

QueueAgain ==
    /\ rebuilder.at = "queue"
    /\ job' = Enqueued(rebuilder.key)
    /\ rebuilder' = [rebuilder EXCEPT !.at = "listed", !.key = NoAsset]
    /\ UNCHANGED <<row, forms, bucket, uploader, builder, reader, withholder, rebuilt>>

\* The list is done, or a statement failed.
EndRebuild ==
    /\ rebuilder # NoRun
    /\ rebuilder' = NoRun
    /\ UNCHANGED <<catalog, bucket, uploader, builder, reader, withholder, rebuilt>>

-----------------------------------------------------------------------------
Upload(u) ==
    \/ \E r \in Requests : Receive(u, r)
    \/ Lookup(u) \/ HeadOriginal(u) \/ PutDone(u) \/ \E kept \in BOOLEAN : PutFails(u, kept)
    \/ InsertAsset(u) \/ Queue(u) \/ Abandon(u)

Build(b) ==
    \/ \E a \in Assets : Claim(b, a)
    \/ HeadForm(b) \/ PutForm(b) \/ RecordForm(b) \/ Complete(b)
    \/ \E kept \in BOOLEAN, state \in {"pending", "failed"} : BuildFails(b, kept, state)

Read(r) ==
    \/ \E a \in Assets : ReadRow(r, a)
    \/ ReadForms(r) \/ ReadJob(r) \/ Leave(r)

Withhold ==
    \/ List \/ \E a \in Assets : Look(a)
    \/ SetPrivate \/ QueueInstead \/ \E kept \in BOOLEAN : EndRun(kept)

Rebuild ==
    \/ ListAgain \/ \E a \in Assets : DeleteRenditions(a)
    \/ QueueAgain \/ EndRebuild

Next ==
    \/ \E u \in Uploaders : Upload(u)
    \/ \E b \in Builders : Build(b)
    \/ \E r \in Readers : Read(r)
    \/ Withhold
    \/ Rebuild

Spec == Init /\ [][Next]_vars

-----------------------------------------------------------------------------
(* Properties.                                                             *)

\* The catalog never names what storage does not have: an asset's row means
\* its bytes are in the bucket, a rendition's row means its object is, across
\* lost answers, repeated uploads and requests that ended half way
\* (service.go:150-172, 199-215).
RecordedIsStored ==
    \A a \in Assets :
        /\ Stored(a) => acl[a] # "none" /\ bytes[a] = row[a].digest
        /\ \A name \in forms[a] : acl[FormKey(a, name)] # "none"

MayBeRead(a) == row[a].visibility = "public" /\ ~WithholdsOriginal(row[a].kind)

\* Uploads of one key, so of the same bytes, that differ in who may read them
\* or in what they say the bytes are.  Storage keeps what the first to store
\* asked for, the catalog what the first to be recorded did.
Disputed(a) == \E r, q \in Requests :
    /\ r.key = a /\ q.key = a
    /\ r.visibility # q.visibility \/ r.kind # q.kind

\* Storage lets anyone read an original exactly when the catalog publishes the
\* bytes as uploaded, except one stored before originals were withheld and
\* one whose uploads disagree; and lets anyone read a form exactly when its
\* asset is public, whoever disagreed about the original and however often
\* its forms are built again (service.go:318-322, 396-404, derive.go:65-70).
AccessAgrees ==
    \A a \in Assets : Stored(a) =>
        /\ row[a] # OldRow(a) /\ ~Disputed(a) => (acl[a] = "public" <=> MayBeRead(a))
        /\ \A name \in forms[a] : acl[FormKey(a, name)] = row[a].visibility

\* A plain URL handed to a reader is one that storage serves, at that moment
\* and for as long as the reader holds it, whatever is withheld or rebuilt
\* meanwhile; an original whose uploads disagree is excepted, a form of it is
\* not (service.go:362-394, withhold.go:91-104).
PublishedIsReadable ==
    \A r \in Readers :
        LET a == reader[r].key IN
        /\ reader[r].at = "answered" /\ reader[r].url # NoAsset
        /\ row[a].visibility = "public"
        /\ reader[r].url = a => ~Disputed(a)
        => acl[reader[r].url] = "public"

\* An image's original is made private only once the copy that stands in for
\* it is stored, and readable; and that copy is recorded, unless the operator
\* has had the asset's forms thrown away to be made again
\* (withhold.go:86-104, requeue.go:66-73).
WithheldHasCopy ==
    \A a \in Assets : row[a] = OldRow(a) /\ row[a].kind = "image" /\ acl[a] = "private" =>
        /\ acl[FormKey(a, "full")] = "public"
        /\ a \in rebuilt \/ PublicForm(a, forms[a]) = FormKey(a, "full")
=============================================================================
