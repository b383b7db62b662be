--------------------------- MODULE AssetStoreProofs ---------------------------
(***************************************************************************)
(* What holds of the bucket and the catalog for any assets, requests,      *)
(* uploaders, builders and readers.                                        *)
(***************************************************************************)
EXTENDS AssetStore, TLAPS

-----------------------------------------------------------------------------
(* The forms of a kind.                                                    *)

LEMMA Ladders ==
    ASSUME NEW a \in Assets, row[a].kind \in Kinds, Supported(row[a].kind)
    PROVE  /\ Len(LadderOf(a)) \in {1, 2}
           /\ \A i \in 1..Len(LadderOf(a)) : LadderOf(a)[i] \in FormNames
<1>1. row[a].kind \in {"image", "video", "model"}
  BY DEF Supported, Kinds
<1>2. CASE row[a].kind = "image"
  <2>1. LadderOf(a) = <<"rung", "full">>
    BY <1>2 DEF Ladder, LadderOf
  <2> QED  BY <2>1 DEF FormNames
<1>3. CASE row[a].kind = "video"
  <2>1. LadderOf(a) = <<"encode", "poster">>
    BY <1>3 DEF Ladder, LadderOf
  <2> QED  BY <2>1 DEF FormNames
<1>4. CASE row[a].kind = "model"
  <2>1. LadderOf(a) = <<"render">>
    BY <1>4 DEF Ladder, LadderOf
  <2> QED  BY <2>1 DEF FormNames
<1> QED  BY <1>1, <1>2, <1>3, <1>4

-----------------------------------------------------------------------------
(* The inductive invariant, whatever the requests ask for.                 *)

Rows == {NoRow} \cup [visibility : Visibilities, digest : Digests, kind : Kinds]

UploadType ==
    [at : {"idle", "lookup", "head", "put", "insert", "queue"}, request : Rows,
     key : Assets \cup {NoAsset}, tries : 0..PutAttempts - 1]

BuildType ==
    [at : {"idle", "head", "put", "record", "done"}, key : Assets \cup {NoAsset}, next : {1, 2}]

ReadType ==
    [at : {"idle", "forms", "job", "answered"}, key : Assets \cup {NoAsset},
     forms : SUBSET FormNames, status : {"none", "ready", "pending", "failed"},
     url : Objects \cup {NoAsset}]

RunType ==
    [at : {"idle", "listed", "withhold", "queue"}, left : SUBSET Assets, key : Assets \cup {NoAsset}]

RebuildType ==
    [at : {"idle", "listed", "queue"}, left : SUBSET Assets, key : Assets \cup {NoAsset}]

CatalogTyped ==
    /\ row \in [Assets -> Rows]
    /\ forms \in [Assets -> SUBSET FormNames]
    /\ job \in [Assets -> {"none", "pending", "running", "failed"}]

BucketTyped ==
    /\ acl \in [Objects -> {"none"} \cup Visibilities]
    /\ bytes \in [Assets -> Digests]

Typed ==
    /\ CatalogTyped
    /\ BucketTyped
    /\ uploader \in [Uploaders -> UploadType]
    /\ builder \in [Builders -> BuildType]
    /\ reader \in [Readers -> ReadType]
    /\ withholder \in RunType
    /\ rebuilder \in RebuildType
    /\ rebuilt \in SUBSET Assets

\* The rows the requests for an asset ask for.
AskedFor(a) ==
    {[visibility |-> r.visibility, digest |-> r.digest, kind |-> r.kind] : r \in {q \in Requests : q.key = a}}

\* Whoever uploads an asset, or once did, wants it read by these.
VisibilitiesOf(a) ==
    {r.visibility : r \in {q \in Requests : q.key = a}} \cup (IF a \in Legacy THEN {"public"} ELSE {})

\* A row is one an upload of the asset asked for, or from before.
RowFits(a) == Stored(a) =>
    \/ row[a] \in AskedFor(a)
    \/ row[a] = OldRow(a) /\ a \in Legacy

\* Only what has a row and forms to make is queued.
Derivable(a) == Stored(a) /\ Supported(row[a].kind)
JobFits(a) == job[a] # "none" => Derivable(a)

\* An original says what it holds, and is there, or nothing was stored.
ObjectFits(a) == bytes[a] # "" => acl[a] # "none"

\* An upload looks no further than a row it finds, and adds one only to bytes
\* that are there.
UploadFits(u) == uploader[u] # NoUpload =>
    LET a == uploader[u].key IN
    /\ uploader[u].at # "idle"
    /\ a \in Assets
    /\ uploader[u].request \in AskedFor(a)
    /\ uploader[u].at # "lookup" => row[a] # OldRow(a)
    /\ uploader[u].at = "insert" => acl[a] # "none"
    /\ uploader[u].at = "queue" => Derivable(a)

\* A build is of an asset with a row and of a form it has, and records only
\* what is there.
BuildFits(b) == builder[b] # NoBuild =>
    LET a == builder[b].key IN
    /\ builder[b].at # "idle"
    /\ a \in Assets
    /\ Derivable(a)
    /\ builder[b].next \in 1..Len(LadderOf(a))
    /\ builder[b].at = "record" => acl[Building(b)] # "none"

\* A reader has forms of an asset that are stored, recorded still or not.
ReadFits(r) == reader[r].at # "idle" =>
    /\ reader[r].key \in Assets
    /\ Stored(reader[r].key)
    /\ \A name \in reader[r].forms : acl[FormKey(reader[r].key, name)] # "none"
    /\ reader[r].at = "answered" => reader[r].url = PublicForm(reader[r].key, reader[r].forms)

Withholdable(a) == Stored(a) /\ row[a].visibility = "public" /\ WithholdsOriginal(row[a].kind)

\* There is something to publish instead of an image, recorded unless a
\* rebuild has cleared it.
Copied(a) == row[a].kind = "image" =>
    acl[FormKey(a, "full")] # "none" /\ ("full" \in forms[a] \/ a \in rebuilt)

\* What withhold has left and has in hand are public originals that are not to
\* be public; the one it is about to withhold has something to publish instead.
RunFits ==
    /\ \A a \in withholder.left : Withholdable(a)
    /\ withholder.at \in {"withhold", "queue"} =>
          withholder.key \in Assets /\ Withholdable(withholder.key)
    /\ withholder.at = "withhold" => Copied(withholder.key)

\* What a rebuild has left and has in hand has forms to make.
RebuildFits ==
    /\ \A a \in rebuilder.left : Derivable(a)
    /\ rebuilder.at = "queue" => rebuilder.key \in Assets /\ Derivable(rebuilder.key)

\* What is recorded is there.
FormsFit(a) == \A name \in forms[a] : acl[FormKey(a, name)] # "none"

Shaped ==
    /\ Typed
    /\ \A a \in Assets :
          RowFits(a) /\ JobFits(a) /\ ObjectFits(a) /\ FormsFit(a)
          /\ (Stored(a) => acl[a] # "none")
    /\ \A u \in Uploaders : UploadFits(u)
    /\ \A b \in Builders : BuildFits(b)
    /\ \A r \in Readers : ReadFits(r)
    /\ RunFits
    /\ RebuildFits

-----------------------------------------------------------------------------
(* What an asset is asked to be, and what a step never takes away.         *)

LEMMA Asked ==
    ASSUME NEW a \in Assets, NEW asked \in AskedFor(a)
    PROVE  /\ asked \in [visibility : Visibilities, digest : Digests, kind : Kinds]
           /\ asked # NoRow /\ asked # OldRow(a) /\ asked.digest # ""
           /\ asked.visibility \in VisibilitiesOf(a)
           /\ \E r \in Requests :
                 /\ r.key = a /\ asked.digest = r.digest
                 /\ asked.visibility = r.visibility /\ asked.kind = r.kind
<1>1. PICK r \in Requests : r.key = a /\ asked = [visibility |-> r.visibility, digest |-> r.digest, kind |-> r.kind]
  BY DEF AskedFor
<1>2. r \in [key : Assets, digest : STRING \ {"", "old"}, visibility : Visibilities, kind : Kinds]
  BY StoreAssumption
<1>3. r.digest \in Digests /\ r.digest \notin {"", "old"} /\ r.visibility \in Visibilities /\ r.kind \in Kinds
  BY <1>2 DEF Digests
<1>4. asked.digest = r.digest /\ asked.visibility = r.visibility /\ asked.kind = r.kind
  BY <1>1
<1>5. asked \in [visibility : Visibilities, digest : Digests, kind : Kinds]
  BY <1>1, <1>3
<1>6. asked # NoRow /\ asked # OldRow(a)
  <2>1. NoRow.digest = "" /\ OldRow(a).digest = "old"
    BY DEF NoRow, OldRow, OldDigest
  <2> QED  BY <2>1, <1>3, <1>4
<1>7. asked.visibility \in VisibilitiesOf(a)
  BY <1>1, <1>4 DEF VisibilitiesOf
<1> QED  BY <1>1, <1>3, <1>4, <1>5, <1>6, <1>7

LEMMA AskedBy ==
    ASSUME NEW a \in Assets, NEW asked \in AskedFor(a)
    PROVE  \E r \in Requests :
              /\ r.key = a /\ asked.digest = r.digest
              /\ asked.visibility = r.visibility /\ asked.kind = r.kind
BY Asked

\* A row is added as asked, to bytes that are there, and stays; a form, to an
\* object that is there, and goes with a rebuild only; a job, to a row with
\* forms to make; an object stays.
Grows ==
    /\ \A a \in Assets :
        /\ row'[a] = row[a] \/ (row[a] = NoRow /\ row'[a] \in AskedFor(a) /\ acl[a] # "none")
        /\ forms[a] \subseteq forms'[a] \/ a \in rebuilt'
        /\ \A name \in forms'[a] \ forms[a] : acl[FormKey(a, name)] # "none"
        /\ job'[a] # job[a] /\ job'[a] # "none" => Derivable(a)
        /\ bytes'[a] # bytes[a] => acl'[a] # "none"
    /\ \A o \in Objects : acl[o] # "none" => acl'[o] # "none"
    /\ rebuilt \subseteq rebuilt'

LEMMA OldIsARow ==
    ASSUME NEW a
    PROVE  /\ OldRow(a) # NoRow /\ OldRow(a).digest = "old" /\ NoRow.digest = ""
           /\ OldRow(a).visibility = "public"
<1>1. OldRow(a).digest = "old" /\ NoRow.digest = "" /\ OldRow(a).visibility = "public"
  BY DEF OldRow, NoRow, OldDigest
<1> QED  BY <1>1

LEMMA Keys ==
    /\ \A a \in Assets : a \in Objects
    /\ \A a \in Assets, name \in FormNames : FormKey(a, name) \in Objects
BY DEF Objects

LEMMA AssetsFit ==
    ASSUME Shaped, Grows, CatalogTyped'
    PROVE  \A a \in Assets :
              (/\ RowFits(a) /\ JobFits(a) /\ ObjectFits(a) /\ FormsFit(a)
               /\ (Stored(a) => acl[a] # "none"))'
<1> SUFFICES ASSUME NEW a \in Assets
             PROVE  (/\ RowFits(a) /\ JobFits(a) /\ ObjectFits(a) /\ FormsFit(a)
                     /\ (Stored(a) => acl[a] # "none"))'
  OBVIOUS
<1>1. /\ row'[a] = row[a] \/ (row[a] = NoRow /\ row'[a] \in AskedFor(a) /\ acl[a] # "none")
      /\ \A name \in forms'[a] \ forms[a] : acl[FormKey(a, name)] # "none"
      /\ job'[a] # job[a] /\ job'[a] # "none" => Derivable(a)
      /\ bytes'[a] # bytes[a] => acl'[a] # "none"
      /\ acl[a] # "none" => acl'[a] # "none"
      /\ \A name \in FormNames : acl[FormKey(a, name)] # "none" => acl'[FormKey(a, name)] # "none"
  BY Keys DEF Grows
<1>2. /\ RowFits(a) /\ JobFits(a) /\ ObjectFits(a) /\ FormsFit(a)
      /\ (Stored(a) => acl[a] # "none")
  BY DEF Shaped
<1>3. Stored(a) => Stored(a)'
  BY <1>1 DEF Stored
<1>4. RowFits(a)' /\ (Stored(a) => acl[a] # "none")'
  BY <1>1, <1>2 DEF RowFits, Stored, AskedFor, OldRow
<1>5. JobFits(a)' /\ ObjectFits(a)'
  BY <1>1, <1>2, <1>3 DEF JobFits, ObjectFits, Derivable, Stored
<1>6. FormsFit(a)'
  <2> SUFFICES ASSUME NEW name \in forms'[a] PROVE acl'[FormKey(a, name)] # "none"
    BY DEF FormsFit, FormKey
  <2>1. name \in FormNames
    BY DEF CatalogTyped
  <2> QED  BY <2>1, <1>1, <1>2 DEF FormsFit
<1> QED  BY <1>4, <1>5, <1>6

LEMMA OriginalAccessTyped ==
    \A request : OriginalAccess(request) \in Visibilities
BY DEF OriginalAccess, Visibilities

-----------------------------------------------------------------------------
(* Initially.                                                              *)

LEMMA NothingTyped ==
    NoUpload \in UploadType /\ NoBuild \in BuildType /\ NoRead \in ReadType
    /\ NoRun \in RunType /\ NoRun \in RebuildType
<1>1. PutAttempts \in Nat \ {0}
  BY StoreAssumption
<1>2. 0 \in 0..PutAttempts - 1
  BY <1>1
<1>3. NoUpload \in UploadType
  BY <1>2 DEF NoUpload, UploadType, Rows
<1>4. NoBuild \in BuildType /\ NoRead \in ReadType /\ NoRun \in RunType /\ NoRun \in RebuildType
  BY DEF NoBuild, BuildType, NoRead, ReadType, NoRun, RunType, RebuildType
<1> QED  BY <1>3, <1>4

LEMMA ShapedInit == Init => Shaped
<1> SUFFICES ASSUME Init PROVE Shaped  OBVIOUS
<1>1. PICK old \in SUBSET Legacy :
          /\ row = [a \in Assets |-> IF a \in old THEN OldRow(a) ELSE NoRow]
          /\ acl = [o \in Objects |-> IF o \in old THEN "public" ELSE "none"]
          /\ bytes = [a \in Assets |-> IF a \in old THEN OldDigest ELSE ""]
  BY DEF Init
<1>2. /\ NoRow \in Rows /\ OldDigest \in Digests /\ "" \in Digests
      /\ \A a \in Assets : OldRow(a) \in Rows /\ OldRow(a) # NoRow
  BY StoreAssumption, OldIsARow DEF OldRow, NoRow, Rows, Visibilities, Digests
<1>3. Typed
  <2>1. CatalogTyped
    BY <1>1, <1>2 DEF CatalogTyped, Init
  <2>2. BucketTyped
    BY <1>1, <1>2 DEF BucketTyped, Visibilities
  <2>3. uploader \in [Uploaders -> UploadType]
    BY NothingTyped DEF Init
  <2>4. /\ builder \in [Builders -> BuildType] /\ reader \in [Readers -> ReadType]
        /\ withholder \in RunType /\ rebuilder \in RebuildType /\ rebuilt \in SUBSET Assets
    BY NothingTyped DEF Init
  <2> QED  BY <2>1, <2>2, <2>3, <2>4 DEF Typed
<1>4. ASSUME NEW a \in Assets
      PROVE  /\ RowFits(a) /\ JobFits(a) /\ ObjectFits(a) /\ FormsFit(a)
             /\ (Stored(a) => acl[a] # "none")
  BY <1>1, <1>2, Keys DEF Init, RowFits, JobFits, ObjectFits, FormsFit, Stored
<1>5. /\ \A u \in Uploaders : UploadFits(u)
      /\ \A b \in Builders : BuildFits(b)
      /\ \A r \in Readers : ReadFits(r)
      /\ RunFits /\ RebuildFits
  BY DEF Init, UploadFits, BuildFits, ReadFits, RunFits, RebuildFits, NoRead, NoRun
<1> QED  BY <1>3, <1>4, <1>5 DEF Shaped

-----------------------------------------------------------------------------
(* An upload's steps.                                                      *)

LEMMA Moves ==
    ASSUME uploader \in [Uploaders -> UploadType], NEW u \in Uploaders,
           NEW at \in {"idle", "lookup", "head", "put", "insert", "queue"},
           uploader' = [uploader EXCEPT ![u].at = at]
    PROVE  /\ uploader' \in [Uploaders -> UploadType]
           /\ uploader'[u].at = at
           /\ uploader'[u].key = uploader[u].key
           /\ uploader'[u].request = uploader[u].request
<1>1. uploader'[u] = [uploader[u] EXCEPT !.at = at]
  OBVIOUS
<1>2. uploader[u] \in UploadType
  OBVIOUS
<1>3. /\ [uploader[u] EXCEPT !.at = at] \in UploadType
      /\ uploader'[u].at = at
      /\ uploader'[u].key = uploader[u].key
      /\ uploader'[u].request = uploader[u].request
  BY <1>1, <1>2 DEF UploadType
<1> QED  BY <1>1, <1>3

LEMMA Ends ==
    ASSUME uploader \in [Uploaders -> UploadType], NEW u \in Uploaders, End(u)
    PROVE  uploader' \in [Uploaders -> UploadType] /\ uploader'[u] = NoUpload
BY NothingTyped DEF End

\* What an upload may rely on once it is under way.
LEMMA UnderWay ==
    ASSUME Shaped, NEW u \in Uploaders, uploader[u].at # "idle"
    PROVE  /\ uploader[u].key \in Assets /\ uploader[u].key \in Objects
           /\ uploader[u].request \in AskedFor(uploader[u].key)
           /\ uploader[u].request \in [visibility : Visibilities, digest : Digests, kind : Kinds]
           /\ uploader[u].request # NoRow /\ uploader[u].request # OldRow(uploader[u].key)
           /\ uploader[u].request.digest \in Digests \ {""}
           /\ uploader[u].request.visibility \in Visibilities
           /\ uploader[u].at # "lookup" => row[uploader[u].key] # OldRow(uploader[u].key)
           /\ uploader[u].at = "insert" => acl[uploader[u].key] # "none"
           /\ uploader[u].at = "queue" => Derivable(uploader[u].key)
<1>1. UploadFits(u) /\ uploader[u] # NoUpload
  BY DEF Shaped, NoUpload
<1>2. uploader[u].key \in Assets /\ uploader[u].request \in AskedFor(uploader[u].key)
  BY <1>1 DEF UploadFits
<1> QED  BY <1>1, <1>2, Asked, Keys DEF UploadFits

LEMMA PutTyped ==
    ASSUME Shaped, NEW u \in Uploaders, uploader[u].at # "idle",
           PutOriginal(uploader[u].key,
                       OriginalAccess(uploader[u].request),
                       uploader[u].request.digest)
    PROVE  /\ BucketTyped'
           /\ acl'[uploader[u].key] # "none"
           /\ \A o \in Objects : acl[o] # "none" => acl'[o] # "none"
           /\ \A a \in Assets : bytes'[a] # bytes[a] => acl'[a] # "none"
<1>1. BucketTyped /\ uploader[u].key \in Assets /\ uploader[u].key \in Objects
      /\ uploader[u].request.digest \in Digests
  BY UnderWay DEF Shaped, Typed
<1>2. PICK access \in Visibilities :
          access = OriginalAccess(uploader[u].request)
  BY OriginalAccessTyped
<1>3. access # "none"
  BY <1>2 DEF Visibilities
<1>4. acl' = [acl EXCEPT ![uploader[u].key] = access]
      /\ bytes' = [bytes EXCEPT ![uploader[u].key] = uploader[u].request.digest]
  BY <1>2 DEF PutOriginal
<1> QED  BY <1>1, <1>2, <1>3, <1>4 DEF BucketTyped

LEMMA UploadStep ==
    ASSUME Shaped, NEW u \in Uploaders, Upload(u)
    PROVE  Typed' /\ Grows /\ UploadFits(u)'
<1>t. Typed /\ uploader \in [Uploaders -> UploadType] /\ CatalogTyped /\ BucketTyped
  BY DEF Shaped, Typed
<1>1. ASSUME NEW r \in Requests, Receive(u, r) PROVE Typed' /\ Grows /\ UploadFits(u)'
  <2>1. r \in [key : Assets, digest : STRING \ {"", "old"}, visibility : Visibilities, kind : Kinds]
    BY StoreAssumption
  <2>2. [visibility |-> r.visibility, digest |-> r.digest, kind |-> r.kind] \in AskedFor(r.key) /\ r.key \in Assets
    BY <2>1 DEF AskedFor
  <2>3. [visibility |-> r.visibility, digest |-> r.digest, kind |-> r.kind] \in Rows
    BY <2>2, Asked DEF Rows
  <2>4. 0 \in 0..PutAttempts - 1
    BY NothingTyped DEF NoUpload, UploadType
  <2>5. uploader'[u] = [at |-> "lookup", key |-> r.key, tries |-> 0,
                        request |-> [visibility |-> r.visibility, digest |-> r.digest, kind |-> r.kind]]
    BY <1>1, <1>t DEF Receive
  <2>6. uploader'[u] \in UploadType
    BY <2>2, <2>3, <2>4, <2>5 DEF UploadType
  <2>7. uploader' \in [Uploaders -> UploadType]
    BY <1>1, <1>t, <2>5, <2>6 DEF Receive
  <2>8. Typed'
    BY <1>1, <1>t, <2>7 DEF Receive, Typed, CatalogTyped, BucketTyped, catalog, bucket, operators
  <2>9. Grows
    BY <1>1 DEF Receive, Grows, catalog, bucket, operators
  <2> QED  BY <2>2, <2>5, <2>8, <2>9 DEF UploadFits
<1>2. CASE Lookup(u)
  <2>1. UNCHANGED <<catalog, bucket, builder, reader, withholder, rebuilder, rebuilt>>
    BY <1>2 DEF Lookup, operators
  <2>2. uploader' \in [Uploaders -> UploadType] /\ UploadFits(u)'
    <3>1. uploader[u].at # "idle"
      BY <1>2 DEF Lookup
    <3>2. CASE End(u)
      BY <3>2, <1>t, Ends DEF UploadFits
    <3>3. CASE uploader' = [uploader EXCEPT ![u].at = "head"] /\ ~Stored(uploader[u].key)
      <4>1. row[uploader[u].key] # OldRow(uploader[u].key)
        BY <3>3, OldIsARow DEF Stored
      <4>2. uploader[u].key \in Assets /\ uploader[u].request \in AskedFor(uploader[u].key)
        BY <3>1, UnderWay
      <4>3. /\ uploader' \in [Uploaders -> UploadType]
            /\ uploader'[u].at = "head"
            /\ uploader'[u].key = uploader[u].key
            /\ uploader'[u].request = uploader[u].request
        BY <3>3, <1>t, Moves
      <4> QED  BY <4>1, <4>2, <4>3, <2>1 DEF UploadFits, catalog, bucket
    <3> QED  BY <1>2, <3>2, <3>3 DEF Lookup
  <2> QED  BY <1>t, <2>1, <2>2 DEF Grows, Typed, CatalogTyped, BucketTyped, catalog, bucket
<1>3. CASE HeadOriginal(u)
  <2>1. UNCHANGED <<catalog, bucket, builder, reader, withholder, rebuilder, rebuilt>>
    BY <1>3 DEF HeadOriginal, operators
  <2>2. uploader' \in [Uploaders -> UploadType] /\ UploadFits(u)'
    <3>1. uploader[u].at = "head" /\ uploader[u].at # "idle"
      BY <1>3 DEF HeadOriginal
    <3>0. /\ uploader[u].key \in Assets /\ uploader[u].request \in AskedFor(uploader[u].key)
          /\ row[uploader[u].key] # OldRow(uploader[u].key)
      BY <3>1, UnderWay
    <3>2. CASE End(u)
      BY <3>2, <1>t, Ends DEF UploadFits
    <3>3. CASE uploader' = [uploader EXCEPT ![u].at = "put"]
      <4>1. /\ uploader' \in [Uploaders -> UploadType]
            /\ uploader'[u].at = "put"
            /\ uploader'[u].key = uploader[u].key
            /\ uploader'[u].request = uploader[u].request
        BY <3>3, <1>t, Moves
      <4> QED  BY <4>1, <3>0, <2>1 DEF UploadFits, catalog, bucket
    <3>4. CASE /\ uploader' = [uploader EXCEPT ![u].at = "insert"]
               /\ bytes[uploader[u].key] = uploader[u].request.digest
      <4>1. acl[uploader[u].key] # "none"
        BY <3>1, <3>4, UnderWay DEF Shaped, ObjectFits
      <4>2. /\ uploader' \in [Uploaders -> UploadType]
            /\ uploader'[u].at = "insert"
            /\ uploader'[u].key = uploader[u].key
            /\ uploader'[u].request = uploader[u].request
        BY <3>4, <1>t, Moves
      <4> QED  BY <4>1, <4>2, <3>0, <2>1 DEF UploadFits, catalog, bucket
    <3> QED  BY <1>3, <3>2, <3>3, <3>4 DEF HeadOriginal, AfterHead
  <2> QED  BY <1>t, <2>1, <2>2 DEF Grows, Typed, CatalogTyped, BucketTyped, catalog, bucket
<1>4. CASE PutDone(u)
  <2>1. UNCHANGED <<catalog, builder, reader, withholder, rebuilder, rebuilt>> /\ uploader[u].at # "idle" /\ uploader[u].at # "lookup"
    BY <1>4 DEF PutDone, operators
  <2>2. uploader' = [uploader EXCEPT ![u].at = "insert"]
    BY <1>4 DEF PutDone
  <2>3. BucketTyped' /\ Grows /\ acl'[uploader[u].key] # "none"
    BY <1>4, <1>t, <2>1, PutTyped DEF PutDone, Grows, catalog
  <2> QED  BY <1>t, <2>1, <2>2, <2>3, Moves, UnderWay DEF UploadFits, Typed, CatalogTyped, catalog
<1>5. ASSUME NEW kept \in BOOLEAN, PutFails(u, kept) PROVE Typed' /\ Grows /\ UploadFits(u)'
  <2>1. UNCHANGED <<catalog, builder, reader, withholder, rebuilder, rebuilt>> /\ uploader[u].at = "put"
    BY <1>5 DEF PutFails, operators
  <2>2. BucketTyped' /\ Grows
    BY <1>5, <1>t, <2>1, PutTyped DEF PutFails, Grows, catalog, bucket, BucketTyped
  <2>3. uploader' \in [Uploaders -> UploadType] /\ UploadFits(u)'
    <3>1. CASE End(u)
      BY <3>1, <1>t, Ends DEF UploadFits
    <3>2. CASE ~LastTry(u) /\ uploader' = [uploader EXCEPT ![u].tries = @ + 1]
      <4>1. PutAttempts \in Nat \ {0} /\ uploader[u].tries \in 0..PutAttempts - 1
        BY <1>t, StoreAssumption DEF UploadType
      <4>2. uploader[u].tries + 1 \in 0..PutAttempts - 1
        BY <4>1, <3>2 DEF LastTry
      <4>3. uploader'[u] = [uploader[u] EXCEPT !.tries = @ + 1]
        BY <3>2, <1>t
      <4>4. /\ uploader'[u] \in UploadType /\ uploader'[u].at = "put"
            /\ uploader'[u].key = uploader[u].key /\ uploader'[u].request = uploader[u].request
        BY <4>2, <4>3, <1>t, <2>1 DEF UploadType
      <4>5. uploader' \in [Uploaders -> UploadType]
        BY <3>2, <4>3, <4>4, <1>t
      <4> QED  BY <4>4, <4>5, <2>1, UnderWay DEF UploadFits, catalog
    <3> QED  BY <1>5, <3>1, <3>2 DEF PutFails
  <2> QED  BY <1>t, <2>1, <2>2, <2>3 DEF Typed, CatalogTyped, catalog
<1>6. CASE InsertAsset(u)
  <2>1. UNCHANGED <<forms, job, bucket, builder, reader, withholder, rebuilder, rebuilt>> /\ uploader[u].at = "insert"
    BY <1>6 DEF InsertAsset, operators
  <2>2. CASE UNCHANGED row /\ End(u)
    BY <2>1, <2>2, <1>t, Ends DEF UploadFits, Typed, CatalogTyped, BucketTyped, Grows, bucket
  <2>3. CASE ~Stored(uploader[u].key) /\ row' = [row EXCEPT ![uploader[u].key] = uploader[u].request]
    <3>1. uploader[u].request \in Rows
      BY <2>1, UnderWay DEF Rows
    <3>2. CatalogTyped'
      BY <2>1, <2>3, <3>1, <1>t DEF CatalogTyped
    <3>3. Grows
      BY <2>1, <2>3, <1>t, UnderWay DEF Grows, Stored, CatalogTyped, bucket
    <3>4. row'[uploader[u].key] = uploader[u].request
      BY <2>1, <2>3, <1>t, UnderWay DEF CatalogTyped
    <3>5. uploader' \in [Uploaders -> UploadType] /\ UploadFits(u)'
      <4>1. CASE End(u)
        BY <4>1, <1>t, Ends DEF UploadFits
      <4>2. CASE Supported(uploader[u].request.kind) /\ uploader' = [uploader EXCEPT ![u].at = "queue"]
        <5>1. /\ uploader' \in [Uploaders -> UploadType]
              /\ uploader'[u].at = "queue"
              /\ uploader'[u].key = uploader[u].key
              /\ uploader'[u].request = uploader[u].request
          BY <4>2, <1>t, Moves
        <5>2. /\ uploader[u].key \in Assets /\ uploader[u].request \in AskedFor(uploader[u].key)
              /\ uploader[u].request # NoRow /\ uploader[u].request # OldRow(uploader[u].key)
          BY <2>1, UnderWay
        <5> QED  BY <5>1, <5>2, <4>2, <3>4 DEF UploadFits, Derivable, Stored
      <4> QED  BY <1>6, <2>3, <4>1, <4>2 DEF InsertAsset
    <3> QED  BY <3>2, <3>3, <3>5, <2>1, <1>t DEF Typed, BucketTyped, bucket
  <2> QED  BY <1>6, <2>2, <2>3 DEF InsertAsset
<1>7. CASE Queue(u)
  <2>1. UNCHANGED <<row, forms, bucket, builder, reader, withholder, rebuilder, rebuilt>> /\ End(u) /\ uploader[u].at = "queue"
    BY <1>7 DEF Queue, operators
  <2>2. Derivable(uploader[u].key)
    BY <2>1, UnderWay
  <2>3. CatalogTyped' /\ \A a \in Assets : job'[a] # job[a] => Derivable(a)
    BY <1>7, <1>t, <2>2 DEF Queue, CatalogTyped, Enqueued
  <2> QED  BY <1>t, <2>1, <2>3, Ends DEF UploadFits, Typed, BucketTyped, Grows, bucket
<1>8. CASE Abandon(u)
  BY <1>8, <1>t, Ends DEF Abandon, UploadFits, Typed, CatalogTyped, BucketTyped, Grows, catalog, bucket, operators
<1> QED  BY <1>1, <1>2, <1>3, <1>4, <1>5, <1>6, <1>7, <1>8 DEF Upload

-----------------------------------------------------------------------------
(* A build's steps.                                                        *)

\* What a build may rely on.
LEMMA AtWork ==
    ASSUME Shaped, NEW b \in Builders, builder[b] # NoBuild
    PROVE  /\ builder[b] \in BuildType
           /\ builder[b].at # "idle"
           /\ builder[b].key \in Assets
           /\ Derivable(builder[b].key)
           /\ builder[b].next \in 1..Len(LadderOf(builder[b].key))
           /\ LadderOf(builder[b].key)[builder[b].next] \in FormNames
           /\ Building(b) = FormKey(builder[b].key, LadderOf(builder[b].key)[builder[b].next])
           /\ Building(b) \in Objects
           /\ builder[b].at = "record" => acl[Building(b)] # "none"
           /\ row[builder[b].key].visibility \in Visibilities
           /\ row[builder[b].key].visibility # "none"
<1>1. /\ BuildFits(b) /\ builder[b] \in BuildType /\ row \in [Assets -> Rows]
      /\ \A a \in Assets : RowFits(a)
  BY DEF Shaped, Typed, CatalogTyped
<1>2. /\ builder[b].at # "idle"
      /\ builder[b].key \in Assets
      /\ Derivable(builder[b].key)
      /\ builder[b].next \in 1..Len(LadderOf(builder[b].key))
      /\ builder[b].at = "record" => acl[Building(b)] # "none"
  BY <1>1 DEF BuildFits
<1>3. LadderOf(builder[b].key)[builder[b].next] \in FormNames
  <2>1. row[builder[b].key].kind \in Kinds /\ Supported(row[builder[b].key].kind)
    BY <1>1, <1>2 DEF Rows, Derivable, Stored
  <2> QED  BY <2>1, <1>2, Ladders
<1>4. Building(b) = FormKey(builder[b].key, LadderOf(builder[b].key)[builder[b].next])
      /\ Building(b) \in Objects
  BY <1>2, <1>3, Keys DEF Building
<1>5. row[builder[b].key].visibility \in Visibilities
  BY <1>1, <1>2 DEF Rows, Derivable, Stored
<1> QED  BY <1>1, <1>2, <1>3, <1>4, <1>5 DEF Visibilities

LEMMA BuildMoves ==
    ASSUME builder \in [Builders -> BuildType], NEW b \in Builders,
           NEW at \in {"idle", "head", "put", "record", "done"},
           builder' = [builder EXCEPT ![b].at = at]
    PROVE  /\ builder' \in [Builders -> BuildType]
           /\ builder'[b].at = at
           /\ builder'[b].key = builder[b].key
           /\ builder'[b].next = builder[b].next
<1>1. builder'[b] = [builder[b] EXCEPT !.at = at] /\ builder[b] \in BuildType
  OBVIOUS
<1>2. /\ [builder[b] EXCEPT !.at = at] \in BuildType
      /\ builder'[b].at = at
      /\ builder'[b].key = builder[b].key
      /\ builder'[b].next = builder[b].next
  BY <1>1 DEF BuildType
<1> QED  BY <1>1, <1>2

LEMMA Reports ==
    ASSUME Shaped, NEW b \in Builders, builder[b] # NoBuild,
           NEW state \in {"none", "pending", "failed"}, Report(b, state)
    PROVE  /\ CatalogTyped' /\ builder' \in [Builders -> BuildType] /\ builder'[b] = NoBuild
           /\ \A a \in Assets : job'[a] # job[a] => Derivable(a)
<1>1. Typed /\ CatalogTyped /\ builder \in [Builders -> BuildType]
  BY DEF Shaped, Typed
<1>2. Derivable(builder[b].key)
  BY AtWork
<1>3. UNCHANGED <<row, forms>> /\ job' = [job EXCEPT ![builder[b].key] = state]
      /\ builder' = [builder EXCEPT ![b] = NoBuild]
  BY DEF Report
<1> QED  BY <1>1, <1>2, <1>3, NothingTyped DEF CatalogTyped

LEMMA BuildStep ==
    ASSUME Shaped, NEW b \in Builders, Build(b)
    PROVE  Typed' /\ Grows /\ BuildFits(b)'
<1>t. Typed /\ builder \in [Builders -> BuildType] /\ CatalogTyped /\ BucketTyped
  BY DEF Shaped, Typed
<1>1. ASSUME NEW a \in Assets, Claim(b, a) PROVE Typed' /\ Grows /\ BuildFits(b)'
  <2>1. UNCHANGED <<row, forms, bucket, uploader, reader, withholder, rebuilder, rebuilt>>
    BY <1>1 DEF Claim, operators
  <2>2. Derivable(a)
    BY <1>1 DEF Claim, Shaped, JobFits
  <2>3. CatalogTyped' /\ \A c \in Assets : job'[c] # job[c] => Derivable(c)
    BY <1>1, <2>1, <2>2, <1>t DEF Claim, CatalogTyped
  <2>4. [at |-> "head", key |-> a, next |-> 1] \in BuildType
    BY DEF BuildType
  <2>5. /\ builder' \in [Builders -> BuildType]
        /\ builder'[b].at = "head" /\ builder'[b].key = a /\ builder'[b].next = 1
    BY <1>1, <1>t, <2>4 DEF Claim
  <2>6. 1 \in 1..Len(LadderOf(a))
    <3>1. row[a].kind \in Kinds /\ Supported(row[a].kind)
      BY <2>2, <1>t DEF CatalogTyped, Rows, Derivable, Stored
    <3> QED  BY <3>1, Ladders
  <2>7. BuildFits(b)'
    BY <2>1, <2>2, <2>5, <2>6 DEF BuildFits, Derivable, Stored, LadderOf
  <2> QED  BY <1>t, <2>1, <2>3, <2>5, <2>7 DEF Typed, BucketTyped, Grows, bucket
<1>2. CASE HeadForm(b)
  <2>1. builder[b] # NoBuild /\ UNCHANGED <<catalog, bucket, uploader, reader, withholder, rebuilder, rebuilt>>
    BY <1>2 DEF HeadForm, NoBuild, operators
  <2>2. PICK at \in {"record", "put"} :
           /\ at = IF IsThere(Building(b)) THEN "record" ELSE "put"
           /\ builder' = [builder EXCEPT ![b].at = at]
    BY <1>2 DEF HeadForm
  <2>3. /\ builder' \in [Builders -> BuildType]
        /\ builder'[b].at = at
        /\ builder'[b].key = builder[b].key
        /\ builder'[b].next = builder[b].next
    BY <2>2, <1>t, BuildMoves
  <2>4. /\ builder[b].key \in Assets
        /\ Derivable(builder[b].key)
        /\ builder[b].next \in 1..Len(LadderOf(builder[b].key))
    BY <2>1, AtWork
  <2>5. at = "record" => acl[Building(b)] # "none"
    BY <2>2 DEF IsThere
  <2>6. Building(b)' = Building(b)
    BY <2>1, <2>3 DEF Building, FormKey, LadderOf, catalog
  <2>7. BuildFits(b)'
    BY <2>1, <2>2, <2>3, <2>4, <2>5, <2>6 DEF BuildFits, Derivable, Stored, LadderOf, catalog, bucket
  <2> QED  BY <1>t, <2>1, <2>3, <2>7 DEF Typed, CatalogTyped, BucketTyped, Grows, catalog, bucket
<1>3. CASE PutForm(b)
  <2>1. builder[b] # NoBuild /\ UNCHANGED <<catalog, bytes, uploader, reader, withholder, rebuilder, rebuilt>>
    BY <1>3 DEF PutForm, NoBuild, operators
  <2>2. PICK access \in Visibilities : access = row[builder[b].key].visibility /\ access # "none"
    BY <2>1, AtWork
  <2>3. acl' = [acl EXCEPT ![Building(b)] = access] /\ builder' = [builder EXCEPT ![b].at = "record"]
    BY <1>3, <2>2 DEF PutForm
  <2>4. BucketTyped' /\ acl'[Building(b)] # "none" /\ \A o \in Objects : acl[o] # "none" => acl'[o] # "none"
    BY <2>1, <2>2, <2>3, <1>t, AtWork DEF BucketTyped
  <2>5. /\ builder' \in [Builders -> BuildType]
        /\ builder'[b].at = "record"
        /\ builder'[b].key = builder[b].key
        /\ builder'[b].next = builder[b].next
    BY <2>3, <1>t, BuildMoves
  <2>6. /\ builder[b].key \in Assets
        /\ Derivable(builder[b].key)
        /\ builder[b].next \in 1..Len(LadderOf(builder[b].key))
    BY <2>1, AtWork
  <2>7. Building(b)' = Building(b)
    BY <2>1, <2>5 DEF Building, FormKey, LadderOf, catalog
  <2>8. BuildFits(b)'
    BY <2>1, <2>4, <2>5, <2>6, <2>7 DEF BuildFits, Derivable, Stored, LadderOf, catalog
  <2> QED  BY <1>t, <2>1, <2>4, <2>5, <2>8 DEF Typed, CatalogTyped, Grows, catalog
<1>4. CASE RecordForm(b)
  <2>1. builder[b] # NoBuild /\ builder[b].at = "record"
        /\ UNCHANGED <<row, job, bucket, uploader, reader, withholder, rebuilder, rebuilt>>
    BY <1>4 DEF RecordForm, NoBuild, operators
  <2> DEFINE a == builder[b].key
             length == Len(LadderOf(a))
             name == LadderOf(a)[builder[b].next]
  <2>2. /\ a \in Assets
        /\ Derivable(a)
        /\ builder[b].next \in 1..length
        /\ name \in FormNames
        /\ acl[FormKey(a, name)] # "none"
    BY <2>1, AtWork
  <2>3. forms' = [forms EXCEPT ![a] = @ \cup {name}]
    BY <1>4 DEF RecordForm
  <2>4. CatalogTyped' /\ Grows
    BY <2>1, <2>2, <2>3, <1>t DEF CatalogTyped, Grows, bucket
  <2>5. CASE builder[b].next = length
    <3>1. builder' = [builder EXCEPT ![b].at = "done", ![b].next = @]
      BY <1>4, <2>5 DEF RecordForm
    <3>2. builder'[b] = [builder[b] EXCEPT !.at = "done", !.next = @]
      BY <3>1, <1>t
    <3>3. /\ builder'[b] \in BuildType
          /\ builder'[b].at = "done" /\ builder'[b].key = a /\ builder'[b].next = builder[b].next
      BY <3>2, <1>t DEF BuildType
    <3>4. builder' \in [Builders -> BuildType]
      BY <3>1, <3>2, <3>3, <1>t
    <3> QED  BY <3>3, <3>4, <2>1, <2>2, <2>4, <1>t DEF BuildFits, Derivable, Stored, LadderOf, Typed, BucketTyped, bucket
  <2>6. CASE builder[b].next # length
    <3>1. builder' = [builder EXCEPT ![b].at = "head", ![b].next = @ + 1]
      BY <1>4, <2>6 DEF RecordForm
    <3>2. builder'[b] = [builder[b] EXCEPT !.at = "head", !.next = @ + 1]
      BY <3>1, <1>t
    <3>3. length \in {1, 2}
      <4>1. row[a].kind \in Kinds /\ Supported(row[a].kind)
        BY <2>2, <1>t DEF CatalogTyped, Rows, Derivable, Stored
      <4> QED  BY <4>1, <2>2, Ladders
    <3>4. builder[b].next + 1 \in {1, 2} /\ builder[b].next + 1 \in 1..length
      <4>1. builder[b].next \in 1..length /\ builder[b].next # length
        BY <2>2, <2>6
      <4> HIDE DEF length
      <4>2. length = 2 /\ builder[b].next = 1
        BY <4>1, <3>3
      <4> QED  BY <4>2
    <3>5. /\ builder'[b] \in BuildType
          /\ builder'[b].at = "head" /\ builder'[b].key = a /\ builder'[b].next = builder[b].next + 1
      BY <3>2, <3>4, <1>t DEF BuildType
    <3>6. builder' \in [Builders -> BuildType]
      BY <3>1, <3>2, <3>5, <1>t
    <3> QED  BY <3>4, <3>5, <3>6, <2>1, <2>2, <2>4, <1>t DEF BuildFits, Derivable, Stored, LadderOf, Typed, BucketTyped, bucket
  <2> QED  BY <2>5, <2>6
<1>5. CASE Complete(b)
  <2>1. builder[b] # NoBuild /\ Report(b, "none") /\ UNCHANGED bucket
    BY <1>5 DEF Complete, NoBuild
  <2>2. /\ CatalogTyped' /\ builder' \in [Builders -> BuildType] /\ builder'[b] = NoBuild
        /\ \A a \in Assets : job'[a] # job[a] => Derivable(a)
    BY <2>1, Reports
  <2> QED  BY <1>t, <2>1, <2>2 DEF Typed, BucketTyped, Grows, BuildFits, Report, bucket, operators
<1>6. ASSUME NEW kept \in BOOLEAN, NEW state \in {"pending", "failed"}, BuildFails(b, kept, state)
      PROVE  Typed' /\ Grows /\ BuildFits(b)'
  <2>1. builder[b] # NoBuild /\ Report(b, state) /\ UNCHANGED bytes
    BY <1>6 DEF BuildFails
  <2>2. /\ CatalogTyped' /\ builder' \in [Builders -> BuildType] /\ builder'[b] = NoBuild
        /\ \A a \in Assets : job'[a] # job[a] => Derivable(a)
    BY <2>1, Reports
  <2>3. PICK access \in Visibilities : access = row[builder[b].key].visibility /\ access # "none"
    BY <2>1, AtWork
  <2>4. acl' = acl \/ acl' = [acl EXCEPT ![Building(b)] = access]
    BY <1>6, <2>3 DEF BuildFails
  <2>5. BucketTyped' /\ \A o \in Objects : acl[o] # "none" => acl'[o] # "none"
    BY <2>1, <2>3, <2>4, <1>t, AtWork DEF BucketTyped
  <2> QED  BY <1>t, <2>1, <2>2, <2>5 DEF Typed, Grows, BuildFits, Report, operators
<1> QED  BY <1>1, <1>2, <1>3, <1>4, <1>5, <1>6 DEF Build

-----------------------------------------------------------------------------
(* A reader's steps.                                                       *)

LEMMA PublicFormTyped ==
    \A a \in Assets : \A names : PublicForm(a, names) \in Objects \cup {NoAsset}
<1> SUFFICES ASSUME NEW a \in Assets, NEW names
             PROVE  PublicForm(a, names) \in Objects \cup {NoAsset}
  OBVIOUS
<1>1. "full" \in FormNames /\ SameKind(a) \in FormNames
  BY DEF FormNames, SameKind
<1> QED  BY <1>1, Keys DEF PublicForm

LEMMA AtReading ==
    ASSUME Shaped, NEW r \in Readers, reader[r].at # "idle"
    PROVE  /\ reader[r] \in ReadType
           /\ reader[r].key \in Assets
           /\ Stored(reader[r].key)
           /\ \A name \in reader[r].forms : acl[FormKey(reader[r].key, name)] # "none"
           /\ reader[r].at = "answered" =>
                 reader[r].url = PublicForm(reader[r].key, reader[r].forms)
BY DEF Shaped, Typed, ReadFits

\* An answer, whatever forms the reader has and however it says they stand.
LEMMA Answers ==
    ASSUME Shaped, NEW r \in Readers, reader[r].at # "idle", UNCHANGED <<row, acl>>,
           NEW names \in SUBSET FormNames,
           \A name \in names : acl[FormKey(reader[r].key, name)] # "none",
           NEW status \in {"none", "ready", "pending", "failed"}, Answer(r, names, status)
    PROVE  reader' \in [Readers -> ReadType] /\ ReadFits(r)'
<1>1. /\ reader \in [Readers -> ReadType] /\ reader[r] \in ReadType
      /\ reader[r].key \in Assets /\ Stored(reader[r].key)
  BY AtReading DEF Shaped, Typed
<1>2. PICK url \in Objects \cup {NoAsset} : url = PublicForm(reader[r].key, names)
  BY <1>1, PublicFormTyped
<1>3. reader' = [reader EXCEPT ![r].at = "answered", ![r].forms = names, ![r].status = status,
                               ![r].url = url]
  BY <1>2 DEF Answer
<1>4. reader'[r] = [reader[r] EXCEPT !.at = "answered", !.forms = names, !.status = status,
                                     !.url = url]
  BY <1>1, <1>3
<1>6. /\ reader'[r] \in ReadType
      /\ reader'[r].at = "answered" /\ reader'[r].key = reader[r].key
      /\ reader'[r].forms = names /\ reader'[r].url = url
  BY <1>1, <1>4 DEF ReadType
<1>7. reader' \in [Readers -> ReadType]
  BY <1>1, <1>3, <1>4, <1>6
<1>8. PublicForm(reader[r].key, names) = url /\ (PublicForm(reader[r].key, reader[r].forms))' = url
  BY <1>2, <1>6 DEF PublicForm, WithholdsOriginal, SameKind, FormKey
<1> QED  BY <1>1, <1>6, <1>7, <1>8 DEF ReadFits, Stored, FormKey

LEMMA ReadStep ==
    ASSUME Shaped, NEW r \in Readers, Read(r)
    PROVE  Typed' /\ Grows /\ ReadFits(r)'
<1>t. Typed /\ reader \in [Readers -> ReadType] /\ CatalogTyped /\ BucketTyped
  BY DEF Shaped, Typed
<1>1. UNCHANGED <<catalog, bucket, uploader, builder, withholder, rebuilder, rebuilt>>
  BY DEF Read, ReadRow, ReadForms, ReadJob, Leave, operators
<1>2. Grows
  BY <1>1 DEF Grows, catalog, bucket
<1>3. reader' \in [Readers -> ReadType] /\ ReadFits(r)'
  <2>1. ASSUME NEW a \in Assets, ReadRow(r, a) PROVE reader' \in [Readers -> ReadType] /\ ReadFits(r)'
    <3>1. reader' = [reader EXCEPT ![r].at = "forms", ![r].key = a] /\ Stored(a) /\ reader[r] = NoRead
      BY <2>1 DEF ReadRow
    <3>2. reader'[r] = [reader[r] EXCEPT !.at = "forms", !.key = a] /\ reader[r] \in ReadType
      BY <3>1, <1>t
    <3>3. /\ reader'[r] \in ReadType /\ reader'[r].at = "forms" /\ reader'[r].key = a
          /\ reader'[r].forms = reader[r].forms
      BY <3>2 DEF ReadType
    <3>5. reader'[r].forms = {}
      <4>1. NoRead.forms = {}
        BY DEF NoRead
      <4> QED  BY <3>1, <3>3, <4>1
    <3>4. reader' \in [Readers -> ReadType]
      BY <3>1, <3>2, <3>3, <1>t
    <3> QED  BY <3>1, <3>3, <3>4, <3>5, <1>1 DEF ReadFits, Stored, catalog
  <2>2. CASE ReadForms(r)
    <3>1. reader[r].at # "idle" /\ reader[r].at = "forms" /\ UNCHANGED <<row, acl>>
      BY <2>2, <1>1 DEF ReadForms, catalog, bucket
    <3>2. CASE Answer(r, {}, "none")
      BY <3>1, <3>2, Answers
    <3>3. CASE reader' = [reader EXCEPT ![r].at = "job", ![r].forms = forms[reader[r].key]]
      <4>1. /\ reader'[r] = [reader[r] EXCEPT !.at = "job", !.forms = forms[reader[r].key]]
            /\ reader[r] \in ReadType
        BY <3>3, <1>t
      <4>2. reader[r].key \in Assets /\ Stored(reader[r].key) /\ forms[reader[r].key] \in SUBSET FormNames
            /\ \A name \in forms[reader[r].key] : acl[FormKey(reader[r].key, name)] # "none"
        BY <3>1, <1>t, AtReading DEF CatalogTyped, Shaped, FormsFit
      <4>3. /\ reader'[r] \in ReadType /\ reader'[r].at = "job"
            /\ reader'[r].key = reader[r].key /\ reader'[r].forms = forms[reader[r].key]
        BY <4>1, <4>2 DEF ReadType
      <4>4. reader' \in [Readers -> ReadType]
        BY <3>3, <4>1, <4>3, <1>t
      <4> QED  BY <3>1, <4>2, <4>3, <4>4 DEF ReadFits, Stored, FormKey
    <3> QED  BY <2>2, <3>2, <3>3 DEF ReadForms
  <2>3. CASE ReadJob(r)
    <3>1. /\ reader[r].at # "idle" /\ reader[r].at = "job" /\ UNCHANGED <<row, acl>>
          /\ Answer(r, reader[r].forms, LadderStatus(job[reader[r].key]))
      BY <2>3, <1>1 DEF ReadJob, catalog, bucket
    <3>2. /\ reader[r].forms \in SUBSET FormNames
          /\ \A name \in reader[r].forms : acl[FormKey(reader[r].key, name)] # "none"
      BY <3>1, AtReading DEF ReadType
    <3>3. LadderStatus(job[reader[r].key]) \in {"none", "ready", "pending", "failed"}
      BY DEF LadderStatus
    <3> QED  BY <3>1, <3>2, <3>3, Answers
  <2>4. CASE Leave(r)
    BY <2>4, <1>t, NothingTyped DEF Leave, ReadFits, NoRead
  <2> QED  BY <2>1, <2>2, <2>3, <2>4 DEF Read
<1> QED  BY <1>t, <1>1, <1>2, <1>3 DEF Typed, CatalogTyped, BucketTyped, catalog, bucket

-----------------------------------------------------------------------------
(* The steps of withhold.                                                  *)

LEMMA WithholdableStays ==
    ASSUME Grows, NEW a \in Assets, Withholdable(a)
    PROVE  Withholdable(a)'
BY DEF Grows, Withholdable, Stored

LEMMA CopiedStays ==
    ASSUME Grows, NEW a \in Assets, Stored(a), Copied(a)
    PROVE  Copied(a)'
<1>1. /\ row'[a] = row[a]
      /\ forms[a] \subseteq forms'[a] \/ a \in rebuilt'
      /\ acl[FormKey(a, "full")] # "none" => acl'[FormKey(a, "full")] # "none"
      /\ rebuilt \subseteq rebuilt'
  BY Keys DEF Grows, Stored, FormNames
<1> QED  BY <1>1 DEF Copied, FormKey

LEMMA DerivableStays ==
    ASSUME Grows, NEW a \in Assets, Derivable(a)
    PROVE  Derivable(a)'
BY DEF Grows, Derivable, Stored

LEMMA WithholdsSupported ==
    \A kind : WithholdsOriginal(kind) => Supported(kind)
BY DEF WithholdsOriginal, Supported

LEMMA WithholdStep ==
    ASSUME Shaped, Withhold
    PROVE  Typed' /\ Grows /\ RunFits'
<1>t. Typed /\ CatalogTyped /\ BucketTyped /\ withholder \in RunType /\ RunFits
  BY DEF Shaped, Typed
<1>1. CASE List
  <2>1. withholder' = [NoRun EXCEPT !.at = "listed", !.left =
            {a \in Assets : Stored(a) /\ row[a].visibility = "public" /\ WithholdsOriginal(row[a].kind)}]
        /\ UNCHANGED <<catalog, bucket, uploader, builder, reader, rebuilder, rebuilt>>
    BY <1>1 DEF List
  <2>2. withholder' \in RunType /\ withholder'.at = "listed"
        /\ withholder'.left = {a \in Assets : Withholdable(a)}
    BY <2>1 DEF NoRun, RunType, Withholdable
  <2>3. Grows
    BY <2>1 DEF Grows, catalog, bucket
  <2>4. RunFits'
    BY <2>2, <2>3, WithholdableStays DEF RunFits
  <2> QED  BY <1>t, <2>1, <2>2, <2>3, <2>4 DEF Typed, CatalogTyped, BucketTyped, catalog, bucket
<1>2. ASSUME NEW a \in Assets, Look(a) PROVE Typed' /\ Grows /\ RunFits'
  <2>1. /\ a \in withholder.left /\ UNCHANGED <<catalog, bucket, uploader, builder, reader, rebuilder, rebuilt>>
        /\ withholder' = [at |-> IF Publishable(a, forms[a]) THEN "withhold" ELSE "queue",
                          left |-> withholder.left \ {a}, key |-> a]
    BY <1>2 DEF Look
  <2>2. /\ withholder' \in RunType /\ withholder'.key = a /\ withholder'.left \subseteq withholder.left
        /\ withholder'.at = "withhold" => Copied(a)
    <3>1. Publishable(a, forms[a]) => Copied(a)
      BY DEF Shaped, FormsFit, Publishable, Copied
    <3> QED  BY <2>1, <3>1, <1>t DEF RunType
  <2>3. Grows
    BY <2>1 DEF Grows, catalog, bucket
  <2>4. withholder.left \subseteq Assets /\ \A c \in withholder.left : Withholdable(c)
    BY <1>t DEF RunFits, RunType
  <2>5. RunFits'
    <3>1. Withholdable(a)' /\ (withholder'.at = "withhold" => Copied(a)')
      BY <2>1, <2>2, <2>3, <2>4, WithholdableStays, CopiedStays DEF Withholdable
    <3> QED  BY <2>2, <2>3, <2>4, <3>1, WithholdableStays DEF RunFits
  <2> QED  BY <1>t, <2>1, <2>2, <2>3, <2>5 DEF Typed, CatalogTyped, BucketTyped, catalog, bucket
<1>3. CASE SetPrivate
  <2>1. /\ withholder.at = "withhold" /\ acl' = [acl EXCEPT ![withholder.key] = "private"]
        /\ withholder' = [withholder EXCEPT !.at = "listed", !.key = NoAsset]
        /\ UNCHANGED <<catalog, bytes, uploader, builder, reader, rebuilder, rebuilt>>
    BY <1>3 DEF SetPrivate, NextListed
  <2>2. BucketTyped' /\ Grows
    BY <2>1, <1>t DEF BucketTyped, Grows, catalog, Visibilities
  <2>3. withholder' \in RunType /\ withholder'.at = "listed" /\ withholder'.left = withholder.left
    BY <2>1, <1>t DEF RunType
  <2>4. RunFits'
    BY <2>2, <2>3, <1>t, WithholdableStays DEF RunFits, RunType
  <2> QED  BY <1>t, <2>1, <2>2, <2>3, <2>4 DEF Typed, CatalogTyped, catalog
<1>4. CASE QueueInstead
  <2>1. /\ withholder.at = "queue" /\ job' = Enqueued(withholder.key)
        /\ withholder' = [withholder EXCEPT !.at = "listed", !.key = NoAsset]
        /\ UNCHANGED <<row, forms, bucket, uploader, builder, reader, rebuilder, rebuilt>>
    BY <1>4 DEF QueueInstead, NextListed
  <2>2. Derivable(withholder.key)
    BY <2>1, <1>t, WithholdsSupported DEF RunFits, Withholdable, Derivable
  <2>3. CatalogTyped' /\ \A a \in Assets : job'[a] # job[a] => Derivable(a)
    BY <2>1, <2>2, <1>t DEF CatalogTyped, Enqueued
  <2>4. Grows
    BY <2>1, <2>3 DEF Grows, bucket
  <2>5. withholder' \in RunType /\ withholder'.at = "listed" /\ withholder'.left = withholder.left
    BY <2>1, <1>t DEF RunType
  <2>6. RunFits'
    BY <2>4, <2>5, <1>t, WithholdableStays DEF RunFits, RunType
  <2> QED  BY <1>t, <2>1, <2>3, <2>4, <2>5, <2>6 DEF Typed, BucketTyped, bucket
<1>5. ASSUME NEW kept \in BOOLEAN, EndRun(kept) PROVE Typed' /\ Grows /\ RunFits'
  <2>1. /\ withholder' = NoRun
        /\ acl' = acl \/ acl' = [acl EXCEPT ![withholder.key] = "private"]
        /\ UNCHANGED <<catalog, bytes, uploader, builder, reader, rebuilder, rebuilt>>
    BY <1>5 DEF EndRun
  <2>2. BucketTyped' /\ Grows
    BY <2>1, <1>t DEF BucketTyped, Grows, catalog, Visibilities
  <2> QED  BY <1>t, <2>1, <2>2, NothingTyped DEF Typed, CatalogTyped, catalog, RunFits, NoRun
<1> QED  BY <1>1, <1>2, <1>3, <1>4, <1>5 DEF Withhold

-----------------------------------------------------------------------------
(* The steps of a rebuild.                                                 *)

LEMMA RebuildStep ==
    ASSUME Shaped, Rebuild
    PROVE  Typed' /\ Grows /\ RebuildFits'
<1>t. Typed /\ CatalogTyped /\ BucketTyped /\ rebuilder \in RebuildType /\ rebuilt \in SUBSET Assets
      /\ RebuildFits
  BY DEF Shaped, Typed
<1>1. CASE ListAgain
  <2>1. /\ rebuilder' = [NoRun EXCEPT !.at = "listed", !.left =
               {a \in Assets : Stored(a) /\ job[a] = "none" /\ Supported(row[a].kind)}]
        /\ UNCHANGED <<catalog, bucket, uploader, builder, reader, withholder, rebuilt>>
    BY <1>1 DEF ListAgain
  <2>2. /\ rebuilder' \in RebuildType /\ rebuilder'.at = "listed"
        /\ rebuilder'.left \subseteq {a \in Assets : Derivable(a)}
    BY <2>1 DEF NoRun, RebuildType, Derivable
  <2>3. Grows
    BY <2>1 DEF Grows, catalog, bucket
  <2>4. RebuildFits'
    BY <2>2, <2>3, DerivableStays DEF RebuildFits
  <2> QED  BY <1>t, <2>1, <2>2, <2>3, <2>4 DEF Typed, CatalogTyped, BucketTyped, catalog, bucket
<1>2. ASSUME NEW a \in Assets, DeleteRenditions(a) PROVE Typed' /\ Grows /\ RebuildFits'
  <2>1. /\ a \in rebuilder.left
        /\ forms' = [forms EXCEPT ![a] = {}] /\ rebuilt' = rebuilt \cup {a}
        /\ rebuilder' = [at |-> "queue", left |-> rebuilder.left \ {a}, key |-> a]
        /\ UNCHANGED <<row, job, bucket, uploader, builder, reader, withholder>>
    BY <1>2 DEF DeleteRenditions
  <2>2. /\ rebuilder' \in RebuildType /\ rebuilder'.key = a
        /\ rebuilder'.left \subseteq rebuilder.left
    BY <2>1, <1>t DEF RebuildType
  <2>3. Grows /\ CatalogTyped' /\ rebuilt' \in SUBSET Assets
    BY <2>1, <1>t DEF Grows, CatalogTyped, bucket
  <2>4. rebuilder.left \subseteq Assets /\ \A c \in rebuilder.left : Derivable(c)
    BY <1>t DEF RebuildFits, RebuildType
  <2>5. RebuildFits'
    BY <2>1, <2>2, <2>3, <2>4, DerivableStays DEF RebuildFits
  <2> QED  BY <1>t, <2>1, <2>2, <2>3, <2>5 DEF Typed, BucketTyped, bucket
<1>3. CASE QueueAgain
  <2>1. /\ rebuilder.at = "queue" /\ job' = Enqueued(rebuilder.key)
        /\ rebuilder' = [rebuilder EXCEPT !.at = "listed", !.key = NoAsset]
        /\ UNCHANGED <<row, forms, bucket, uploader, builder, reader, withholder, rebuilt>>
    BY <1>3 DEF QueueAgain
  <2>2. Derivable(rebuilder.key)
    BY <2>1, <1>t DEF RebuildFits
  <2>3. CatalogTyped' /\ \A a \in Assets : job'[a] # job[a] => Derivable(a)
    BY <2>1, <2>2, <1>t DEF CatalogTyped, Enqueued
  <2>4. Grows
    BY <2>1, <2>3 DEF Grows, bucket
  <2>5. rebuilder' \in RebuildType /\ rebuilder'.at = "listed" /\ rebuilder'.left = rebuilder.left
    BY <2>1, <1>t DEF RebuildType
  <2>6. RebuildFits'
    BY <2>4, <2>5, <1>t, DerivableStays DEF RebuildFits, RebuildType
  <2> QED  BY <1>t, <2>1, <2>3, <2>4, <2>5, <2>6 DEF Typed, BucketTyped, bucket
<1>4. CASE EndRebuild
  <2>1. rebuilder' = NoRun /\ UNCHANGED <<catalog, bucket, uploader, builder, reader, withholder, rebuilt>>
    BY <1>4 DEF EndRebuild
  <2> QED  BY <1>t, <2>1, NothingTyped
           DEF Typed, CatalogTyped, BucketTyped, Grows, RebuildFits, NoRun, catalog, bucket
<1> QED  BY <1>1, <1>2, <1>3, <1>4 DEF Rebuild

-----------------------------------------------------------------------------
(* What the others rely on stays so, and the invariant.                    *)

LEMMA UploadOfOthers ==
    ASSUME Shaped, Grows, NEW u \in Uploaders, uploader'[u] = uploader[u]
    PROVE  UploadFits(u)'
<1> SUFFICES ASSUME uploader[u] # NoUpload PROVE UploadFits(u)'
  BY DEF UploadFits
<1>1. UploadFits(u)
  BY DEF Shaped
<1>2. PICK a \in Assets : a = uploader[u].key
  BY <1>1 DEF UploadFits
<1>3. /\ row'[a] = row[a] \/ (row[a] = NoRow /\ row'[a] \in AskedFor(a))
      /\ acl[a] # "none" => acl'[a] # "none"
  BY Keys DEF Grows
<1>4. row[a] # OldRow(a) => row'[a] # OldRow(a)
  BY <1>3, Asked
<1>5. Derivable(a) => Derivable(a)'
  BY DerivableStays
<1> QED  BY <1>1, <1>2, <1>3, <1>4, <1>5 DEF UploadFits, AskedFor

LEMMA BuildOfOthers ==
    ASSUME Shaped, Grows, NEW b \in Builders, builder'[b] = builder[b]
    PROVE  BuildFits(b)'
<1> SUFFICES ASSUME builder[b] # NoBuild PROVE BuildFits(b)'
  BY DEF BuildFits
<1>1. /\ builder[b].at # "idle"
      /\ builder[b].key \in Assets
      /\ Derivable(builder[b].key)
      /\ builder[b].next \in 1..Len(LadderOf(builder[b].key))
      /\ Building(b) \in Objects
      /\ builder[b].at = "record" => acl[Building(b)] # "none"
  BY AtWork
<1>3. row'[builder[b].key] = row[builder[b].key]
  BY <1>1 DEF Grows, Derivable, Stored
<1>2. Building(b)' = Building(b)
  BY <1>3 DEF Building, FormKey, LadderOf
<1>4. builder[b].at = "record" => acl'[Building(b)] # "none"
  BY <1>1 DEF Grows
<1> QED  BY <1>1, <1>2, <1>3, <1>4 DEF BuildFits, Derivable, Stored, LadderOf

LEMMA ReadOfOthers ==
    ASSUME Shaped, Grows, NEW r \in Readers, reader'[r] = reader[r]
    PROVE  ReadFits(r)'
<1> SUFFICES ASSUME reader[r].at # "idle" PROVE ReadFits(r)'
  BY DEF ReadFits
<1>1. PICK a \in Assets : a = reader[r].key
  BY AtReading
<1>2. /\ Stored(a)
      /\ reader[r].forms \subseteq FormNames
      /\ \A name \in reader[r].forms : acl[FormKey(a, name)] # "none"
      /\ reader[r].at = "answered" => reader[r].url = PublicForm(a, reader[r].forms)
  BY <1>1, AtReading DEF ReadType
<1>3. row'[a] = row[a] /\ \A name \in reader[r].forms : acl'[FormKey(a, name)] # "none"
  BY <1>2, Keys DEF Grows, Stored
<1>4. (PublicForm(reader[r].key, reader[r].forms))' = PublicForm(a, reader[r].forms)
  BY <1>1, <1>3 DEF PublicForm, WithholdsOriginal, SameKind, FormKey
<1> QED  BY <1>1, <1>2, <1>3, <1>4 DEF ReadFits, Stored, FormKey

LEMMA RunOfOthers ==
    ASSUME Shaped, Grows, withholder' = withholder
    PROVE  RunFits'
<1>1. RunFits /\ withholder \in RunType
  BY DEF Shaped, Typed
<1>2. \A a \in withholder.left : Withholdable(a)'
  BY <1>1, WithholdableStays DEF RunFits, RunType
<1>3. withholder.at \in {"withhold", "queue"} =>
          withholder.key \in Assets /\ Stored(withholder.key) /\ Withholdable(withholder.key)'
  BY <1>1, WithholdableStays DEF RunFits, Withholdable
<1>4. withholder.at = "withhold" => Copied(withholder.key)'
  BY <1>1, <1>3, CopiedStays DEF RunFits
<1> QED  BY <1>1, <1>2, <1>3, <1>4 DEF RunFits

LEMMA RebuildOfOthers ==
    ASSUME Shaped, Grows, rebuilder' = rebuilder
    PROVE  RebuildFits'
<1>1. RebuildFits /\ rebuilder \in RebuildType
  BY DEF Shaped, Typed
<1>2. \A a \in rebuilder.left : Derivable(a)'
  BY <1>1, DerivableStays DEF RebuildFits, RebuildType
<1>3. rebuilder.at = "queue" => rebuilder.key \in Assets /\ Derivable(rebuilder.key)'
  BY <1>1, DerivableStays DEF RebuildFits
<1> QED  BY <1>2, <1>3 DEF RebuildFits

LEMMA Steps ==
    ASSUME Shaped, Next
    PROVE  Typed' /\ Grows
BY UploadStep, BuildStep, ReadStep, WithholdStep, RebuildStep DEF Next

LEMMA UploadOrNot ==
    ASSUME Shaped, Next, NEW u \in Uploaders
    PROVE  Upload(u) \/ uploader'[u] = uploader[u]
<1>1. ASSUME NEW v \in Uploaders, Upload(v), v # u PROVE uploader'[u] = uploader[u]
  BY <1>1 DEF Shaped, Typed, Upload, Receive, Lookup, HeadOriginal, PutDone, PutFails,
              InsertAsset, Queue, Abandon, End
<1>2. ASSUME NEW b \in Builders, Build(b) PROVE uploader' = uploader
  BY <1>2 DEF Build, Claim, HeadForm, PutForm, RecordForm, Complete, BuildFails, Report
<1>3. ASSUME NEW r \in Readers, Read(r) PROVE uploader' = uploader
  BY <1>3 DEF Read, ReadRow, ReadForms, ReadJob, Leave
<1>4. ASSUME Withhold PROVE uploader' = uploader
  BY <1>4 DEF Withhold, List, Look, SetPrivate, QueueInstead, EndRun
<1>5. ASSUME Rebuild PROVE uploader' = uploader
  BY <1>5 DEF Rebuild, ListAgain, DeleteRenditions, QueueAgain, EndRebuild
<1> QED  BY <1>1, <1>2, <1>3, <1>4, <1>5 DEF Next

LEMMA ShapedStep == Shaped /\ [Next]_vars => Shaped'
<1> SUFFICES ASSUME Shaped, [Next]_vars PROVE Shaped'
  OBVIOUS
<1>1. CASE Next
  <2>1. Typed' /\ Grows /\ CatalogTyped'
    BY <1>1, Steps DEF Typed
  <2>2. \A u \in Uploaders : UploadFits(u)'
    <3> SUFFICES ASSUME NEW u \in Uploaders PROVE UploadFits(u)'
      OBVIOUS
    <3>1. CASE Upload(u)
      BY <3>1, UploadStep
    <3>2. CASE uploader'[u] = uploader[u]
      BY <3>2, <2>1, UploadOfOthers
    <3> QED  BY <3>1, <3>2, <1>1, UploadOrNot
  <2>3. \A b \in Builders : BuildFits(b)'
    <3> SUFFICES ASSUME NEW b \in Builders PROVE BuildFits(b)'
      OBVIOUS
    <3>1. CASE Build(b)
      BY <3>1, BuildStep
    <3>2. CASE builder'[b] = builder[b]
      BY <3>2, <2>1, BuildOfOthers
    <3>3. Build(b) \/ builder'[b] = builder[b]
      <4>1. ASSUME NEW c \in Builders, Build(c), c # b PROVE builder'[b] = builder[b]
        BY <4>1 DEF Shaped, Typed, Build, Claim, HeadForm, PutForm, RecordForm, Complete,
                    BuildFails, Report
      <4>2. ASSUME NEW u \in Uploaders, Upload(u) PROVE builder' = builder
        BY <4>2 DEF Upload, Receive, Lookup, HeadOriginal, PutDone, PutFails, InsertAsset, Queue, Abandon
      <4>3. ASSUME NEW r \in Readers, Read(r) PROVE builder' = builder
        BY <4>3 DEF Read, ReadRow, ReadForms, ReadJob, Leave
      <4>4. ASSUME Withhold PROVE builder' = builder
        BY <4>4 DEF Withhold, List, Look, SetPrivate, QueueInstead, EndRun
      <4>5. ASSUME Rebuild PROVE builder' = builder
        BY <4>5 DEF Rebuild, ListAgain, DeleteRenditions, QueueAgain, EndRebuild
      <4> QED  BY <1>1, <4>1, <4>2, <4>3, <4>4, <4>5 DEF Next
    <3> QED  BY <3>1, <3>2, <3>3
  <2>4. \A r \in Readers : ReadFits(r)'
    <3> SUFFICES ASSUME NEW r \in Readers PROVE ReadFits(r)'
      OBVIOUS
    <3>1. CASE Read(r)
      BY <3>1, ReadStep
    <3>2. CASE reader'[r] = reader[r]
      BY <3>2, <2>1, ReadOfOthers
    <3>3. Read(r) \/ reader'[r] = reader[r]
      <4>1. ASSUME NEW s \in Readers, Read(s), s # r PROVE reader'[r] = reader[r]
        BY <4>1 DEF Shaped, Typed, Read, ReadRow, ReadForms, ReadJob, Leave, Answer
      <4>2. ASSUME NEW u \in Uploaders, Upload(u) PROVE reader' = reader
        BY <4>2 DEF Upload, Receive, Lookup, HeadOriginal, PutDone, PutFails, InsertAsset, Queue, Abandon
      <4>3. ASSUME NEW b \in Builders, Build(b) PROVE reader' = reader
        BY <4>3 DEF Build, Claim, HeadForm, PutForm, RecordForm, Complete, BuildFails, Report
      <4>4. ASSUME Withhold PROVE reader' = reader
        BY <4>4 DEF Withhold, List, Look, SetPrivate, QueueInstead, EndRun
      <4>5. ASSUME Rebuild PROVE reader' = reader
        BY <4>5 DEF Rebuild, ListAgain, DeleteRenditions, QueueAgain, EndRebuild
      <4> QED  BY <1>1, <4>1, <4>2, <4>3, <4>4, <4>5 DEF Next
    <3> QED  BY <3>1, <3>2, <3>3
  <2>5. RunFits'
    <3>1. CASE Withhold
      BY <3>1, WithholdStep
    <3>2. CASE withholder' = withholder
      BY <3>2, <2>1, RunOfOthers
    <3>3. Withhold \/ withholder' = withholder
      <4>1. ASSUME NEW u \in Uploaders, Upload(u) PROVE withholder' = withholder
        BY <4>1 DEF Upload, Receive, Lookup, HeadOriginal, PutDone, PutFails, InsertAsset, Queue, Abandon,
                    operators
      <4>2. ASSUME NEW b \in Builders, Build(b) PROVE withholder' = withholder
        BY <4>2 DEF Build, Claim, HeadForm, PutForm, RecordForm, Complete, BuildFails, Report, operators
      <4>3. ASSUME NEW r \in Readers, Read(r) PROVE withholder' = withholder
        BY <4>3 DEF Read, ReadRow, ReadForms, ReadJob, Leave, operators
      <4>4. ASSUME Rebuild PROVE withholder' = withholder
        BY <4>4 DEF Rebuild, ListAgain, DeleteRenditions, QueueAgain, EndRebuild
      <4> QED  BY <1>1, <4>1, <4>2, <4>3, <4>4 DEF Next
    <3> QED  BY <3>1, <3>2, <3>3
  <2>7. RebuildFits'
    <3>1. CASE Rebuild
      BY <3>1, RebuildStep
    <3>2. CASE rebuilder' = rebuilder
      BY <3>2, <2>1, RebuildOfOthers
    <3>3. Rebuild \/ rebuilder' = rebuilder
      <4>1. ASSUME NEW u \in Uploaders, Upload(u) PROVE rebuilder' = rebuilder
        BY <4>1 DEF Upload, Receive, Lookup, HeadOriginal, PutDone, PutFails, InsertAsset, Queue, Abandon,
                    operators
      <4>2. ASSUME NEW b \in Builders, Build(b) PROVE rebuilder' = rebuilder
        BY <4>2 DEF Build, Claim, HeadForm, PutForm, RecordForm, Complete, BuildFails, Report, operators
      <4>3. ASSUME NEW r \in Readers, Read(r) PROVE rebuilder' = rebuilder
        BY <4>3 DEF Read, ReadRow, ReadForms, ReadJob, Leave, operators
      <4>4. ASSUME Withhold PROVE rebuilder' = rebuilder
        BY <4>4 DEF Withhold, List, Look, SetPrivate, QueueInstead, EndRun
      <4> QED  BY <1>1, <4>1, <4>2, <4>3, <4>4 DEF Next
    <3> QED  BY <3>1, <3>2, <3>3
  <2>6. \A a \in Assets :
           (/\ RowFits(a) /\ JobFits(a) /\ ObjectFits(a) /\ FormsFit(a)
            /\ (Stored(a) => acl[a] # "none"))'
    BY <2>1, AssetsFit
  <2> QED  BY <2>1, <2>2, <2>3, <2>4, <2>5, <2>6, <2>7 DEF Shaped
<1>2. CASE UNCHANGED vars
  <2>1. Grows /\ Typed' /\ CatalogTyped'
    BY <1>2 DEF Grows, vars, Shaped, Typed, CatalogTyped, BucketTyped
  <2>2. UNCHANGED <<uploader, builder, reader, withholder, rebuilder, rebuilt>>
    BY <1>2 DEF vars
  <2>3. \A a \in Assets :
           (/\ RowFits(a) /\ JobFits(a) /\ ObjectFits(a) /\ FormsFit(a)
            /\ (Stored(a) => acl[a] # "none"))'
    BY <2>1, AssetsFit
  <2> QED  BY <2>1, <2>2, <2>3, UploadOfOthers, BuildOfOthers, ReadOfOthers, RunOfOthers,
              RebuildOfOthers DEF Shaped
<1> QED  BY <1>1, <1>2

\* However uploads, builds, readers and the operator's commands interleave,
\* break off and repeat, each stays of its shape.  Rows and objects are only
\* added, so what one has seen of them it may rely on until it is done; forms
\* go only with a rebuild, and none relies on a form staying recorded.
THEOREM StoreShaped == Spec => []Shaped
<1>1. Init => Shaped
  BY ShapedInit
<1>2. Shaped /\ [Next]_vars => Shaped'
  BY ShapedStep
<1> QED  BY <1>1, <1>2, PTL DEF Spec

\* The type invariant the runs check, for any assets and requests.
THEOREM StoreTyped == Spec => []TypeOK
<1>1. Shaped => TypeOK
  BY DEF Shaped, Typed, CatalogTyped, BucketTyped, Rows, UploadType, BuildType, ReadType, RunType, RebuildType, TypeOK
<1> QED  BY <1>1, StoreShaped, PTL

-----------------------------------------------------------------------------
(* The steps that change the bucket, and the one that adds a row.          *)

LEMMA WhoStoresBytes ==
    ASSUME Next
    PROVE  \/ UNCHANGED bytes
           \/ \E u \in Uploaders :
                /\ uploader[u].at = "put"
                /\ bytes' = [bytes EXCEPT ![uploader[u].key] = uploader[u].request.digest]
<1>1. ASSUME NEW u \in Uploaders, Upload(u)
      PROVE  \/ UNCHANGED bytes
             \/ /\ uploader[u].at = "put"
                /\ bytes' = [bytes EXCEPT ![uploader[u].key] = uploader[u].request.digest]
  BY <1>1 DEF Upload, Receive, Lookup, HeadOriginal, PutDone, PutFails, InsertAsset, Queue, Abandon,
              PutOriginal, bucket
<1>2. ASSUME NEW b \in Builders, Build(b) PROVE UNCHANGED bytes
  BY <1>2 DEF Build, Claim, HeadForm, PutForm, RecordForm, Complete, BuildFails, bucket
<1>3. ASSUME NEW r \in Readers, Read(r) PROVE UNCHANGED bytes
  BY <1>3 DEF Read, ReadRow, ReadForms, ReadJob, Leave, bucket
<1>4. ASSUME Withhold PROVE UNCHANGED bytes
  BY <1>4 DEF Withhold, List, Look, SetPrivate, QueueInstead, EndRun, bucket
<1>5. ASSUME Rebuild PROVE UNCHANGED bytes
  BY <1>5 DEF Rebuild, ListAgain, DeleteRenditions, QueueAgain, EndRebuild, bucket
<1> QED  BY <1>1, <1>2, <1>3, <1>4, <1>5 DEF Next

LEMMA WhoSetsAccess ==
    ASSUME Next
    PROVE  \/ UNCHANGED acl
           \/ \E u \in Uploaders :
                /\ uploader[u].at = "put"
                /\ acl' = [acl EXCEPT ![uploader[u].key] =
                              OriginalAccess(uploader[u].request)]
           \/ \E b \in Builders :
                /\ builder[b] # NoBuild
                /\ acl' = [acl EXCEPT ![Building(b)] = row[builder[b].key].visibility]
           \/ /\ withholder.at = "withhold"
              /\ acl' = [acl EXCEPT ![withholder.key] = "private"]
<1>1. ASSUME NEW u \in Uploaders, Upload(u)
      PROVE  \/ UNCHANGED acl
             \/ /\ uploader[u].at = "put"
                /\ acl' = [acl EXCEPT ![uploader[u].key] =
                              OriginalAccess(uploader[u].request)]
  BY <1>1 DEF Upload, Receive, Lookup, HeadOriginal, PutDone, PutFails, InsertAsset, Queue, Abandon,
              PutOriginal, bucket
<1>2. ASSUME NEW b \in Builders, Build(b)
      PROVE  \/ UNCHANGED acl
             \/ /\ builder[b] # NoBuild
                /\ acl' = [acl EXCEPT ![Building(b)] = row[builder[b].key].visibility]
  BY <1>2 DEF Build, Claim, HeadForm, PutForm, RecordForm, Complete, BuildFails, NoBuild, bucket
<1>3. ASSUME NEW r \in Readers, Read(r) PROVE UNCHANGED acl
  BY <1>3 DEF Read, ReadRow, ReadForms, ReadJob, Leave, bucket
<1>4. ASSUME Withhold
      PROVE  \/ UNCHANGED acl
             \/ /\ withholder.at = "withhold"
                /\ acl' = [acl EXCEPT ![withholder.key] = "private"]
  BY <1>4 DEF Withhold, List, Look, SetPrivate, QueueInstead, EndRun, bucket
<1>5. ASSUME Rebuild PROVE UNCHANGED acl
  BY <1>5 DEF Rebuild, ListAgain, DeleteRenditions, QueueAgain, EndRebuild, bucket
<1> QED  BY <1>1, <1>2, <1>3, <1>4, <1>5 DEF Next

LEMMA WhoAddsRows ==
    ASSUME Next
    PROVE  \/ UNCHANGED row
           \/ \E u \in Uploaders :
                /\ uploader[u].at = "insert" /\ UNCHANGED bytes
                /\ row' = [row EXCEPT ![uploader[u].key] = uploader[u].request]
<1>1. ASSUME NEW u \in Uploaders, Upload(u)
      PROVE  \/ UNCHANGED row
             \/ /\ uploader[u].at = "insert" /\ UNCHANGED bytes
                /\ row' = [row EXCEPT ![uploader[u].key] = uploader[u].request]
  BY <1>1 DEF Upload, Receive, Lookup, HeadOriginal, PutDone, PutFails, InsertAsset, Queue, Abandon,
              catalog, bucket
<1>2. ASSUME NEW b \in Builders, Build(b) PROVE UNCHANGED row
  BY <1>2 DEF Build, Claim, HeadForm, PutForm, RecordForm, Complete, BuildFails, Report, catalog
<1>3. ASSUME NEW r \in Readers, Read(r) PROVE UNCHANGED row
  BY <1>3 DEF Read, ReadRow, ReadForms, ReadJob, Leave, catalog
<1>4. ASSUME Withhold PROVE UNCHANGED row
  BY <1>4 DEF Withhold, List, Look, SetPrivate, QueueInstead, EndRun, catalog
<1>5. ASSUME Rebuild PROVE UNCHANGED row
  BY <1>5 DEF Rebuild, ListAgain, DeleteRenditions, QueueAgain, EndRebuild, catalog
<1> QED  BY <1>1, <1>2, <1>3, <1>4, <1>5 DEF Next

-----------------------------------------------------------------------------
(* What is recorded is stored, of one digest.                              *)

\* Files whose digests agree in the twelve digits of a key are the same file.
OneDigest == \A r, s \in Requests : r.key = s.key => r.digest = s.digest

LEMMA SameDigest ==
    ASSUME OneDigest, NEW a \in Assets, NEW one \in AskedFor(a), NEW other \in AskedFor(a)
    PROVE  one.digest = other.digest
<1>1. PICK r \in Requests : r.key = a /\ one.digest = r.digest
  BY AskedBy
<1>2. PICK q \in Requests : q.key = a /\ other.digest = q.digest
  BY AskedBy
<1> QED  BY <1>1, <1>2 DEF OneDigest

\* An upload that comes to add the row has seen or stored its own bytes.
Seen(u) == uploader[u].at = "insert" => bytes[uploader[u].key] = uploader[u].request.digest

\* The bytes of an asset are those of each who asked for it.
BytesFit ==
    /\ \A a \in Assets : Stored(a) => bytes[a] = row[a].digest
    /\ \A u \in Uploaders : Seen(u)

LEMMA SeenStep ==
    ASSUME Shaped, NEW u \in Uploaders, Upload(u), Seen(u)
    PROVE  Seen(u)'
<1>t. uploader \in [Uploaders -> UploadType] /\ bytes \in [Assets -> Digests]
  BY DEF Shaped, Typed, BucketTyped
<1>e. NoUpload.at # "insert"
  BY DEF NoUpload
<1>1. CASE End(u)
  BY <1>1, <1>t, <1>e, Ends DEF Seen
<1>2. ASSUME NEW r \in Requests, Receive(u, r) PROVE Seen(u)'
  BY <1>2, <1>t DEF Receive, Seen
<1>3. CASE /\ UNCHANGED bytes
           /\ \E at \in {"head", "put", "queue"} : uploader' = [uploader EXCEPT ![u].at = at]
  BY <1>3, <1>t, Moves DEF Seen
<1>4. CASE /\ UNCHANGED bytes /\ uploader' = [uploader EXCEPT ![u].at = "insert"]
           /\ bytes[uploader[u].key] = uploader[u].request.digest
  BY <1>4, <1>t, Moves DEF Seen
<1>5. CASE PutDone(u)
  <2>1. uploader[u].key \in Assets
    BY <1>5, UnderWay DEF PutDone
  <2> QED  BY <2>1, <1>5, <1>t, Moves DEF PutDone, PutOriginal, Seen
<1>6. CASE uploader' = [uploader EXCEPT ![u].tries = @ + 1] /\ uploader[u].at = "put"
  <2>1. uploader'[u] = [uploader[u] EXCEPT !.tries = @ + 1]
    BY <1>6, <1>t
  <2>2. uploader'[u].at = "put"
    BY <2>1, <1>6, <1>t DEF UploadType
  <2> QED  BY <2>2 DEF Seen
<1>7. CASE HeadOriginal(u)
  BY <1>7, <1>1, <1>3, <1>4 DEF HeadOriginal, AfterHead, bucket
<1> QED  BY <1>1, <1>2, <1>3, <1>5, <1>6, <1>7 DEF Upload, Lookup, PutFails, InsertAsset, Queue, Abandon, bucket

LEMMA BytesStep ==
    ASSUME OneDigest, Shaped, Shaped', BytesFit, [Next]_vars
    PROVE  BytesFit'
<1>1. CASE UNCHANGED vars
  BY <1>1 DEF vars, BytesFit, Seen, Stored
<1>2. CASE Next
  <2>1. Grows /\ bytes \in [Assets -> Digests] /\ row \in [Assets -> Rows]
    BY <1>2, Steps DEF Shaped, Typed, CatalogTyped, BucketTyped
  \* Whoever stores bytes stores those that are there.
  <2>2. ASSUME NEW a \in Assets, NEW asked \in AskedFor(a), row[a] # OldRow(a), bytes[a] = asked.digest
        PROVE  bytes'[a] = asked.digest
    <3>1. CASE UNCHANGED bytes
      BY <3>1, <2>2
    <3>2. ASSUME NEW u \in Uploaders, uploader[u].at = "put",
                 bytes' = [bytes EXCEPT ![uploader[u].key] = uploader[u].request.digest]
          PROVE  bytes'[a] = asked.digest
      <4>1. uploader[u].key = a => uploader[u].request.digest = asked.digest
        BY <3>2, UnderWay, SameDigest
      <4> QED  BY <4>1, <3>2, <2>1, <2>2
    <3> QED  BY <3>1, <3>2, <1>2, WhoStoresBytes
  \* None stores bytes of an asset from before.
  <2>3. ASSUME NEW a \in Assets, row[a] = OldRow(a) PROVE bytes'[a] = bytes[a]
    BY <2>1, <2>3, <1>2, WhoStoresBytes, UnderWay
  <2>4. ASSUME NEW a \in Assets, Stored(a)' PROVE bytes'[a] = row'[a].digest
    <3>1. CASE Stored(a)
      <4>1. row'[a] = row[a] /\ bytes[a] = row[a].digest /\ RowFits(a)
        BY <3>1, <2>1 DEF Grows, Stored, BytesFit, Shaped
      <4> QED  BY <4>1, <3>1, <2>2, <2>3, Asked DEF RowFits
    <3>2. CASE ~Stored(a)
      <4>1. PICK u \in Uploaders :
              /\ uploader[u].at = "insert" /\ UNCHANGED bytes
              /\ row' = [row EXCEPT ![uploader[u].key] = uploader[u].request]
        BY <3>2, <2>4, <1>2, WhoAddsRows DEF Stored
      <4>2. uploader[u].key = a
        BY <4>1, <3>2, <2>4, <2>1 DEF Stored
      <4> QED  BY <4>1, <4>2, <2>1 DEF BytesFit, Seen
    <3> QED  BY <3>1, <3>2
  <2>5. ASSUME NEW u \in Uploaders PROVE Seen(u)'
    <3>1. CASE Upload(u)
      BY <3>1, SeenStep DEF BytesFit
    <3>2. CASE uploader'[u] = uploader[u] /\ uploader[u].at = "insert"
      <4>1. /\ uploader[u].key \in Assets /\ uploader[u].request \in AskedFor(uploader[u].key)
            /\ row[uploader[u].key] # OldRow(uploader[u].key)
        BY <3>2, UnderWay
      <4> QED  BY <4>1, <3>2, <2>2 DEF BytesFit, Seen
    <3>3. CASE uploader'[u] = uploader[u] /\ uploader[u].at # "insert"
      BY <3>3 DEF Seen
    <3> QED  BY <3>1, <3>2, <3>3, <1>2, UploadOrNot
  <2> QED  BY <2>4, <2>5 DEF BytesFit
<1> QED  BY <1>1, <1>2

\* Where the files of a key are one file, the catalog never names what storage
\* does not have, whatever answers are lost and whichever requests break off.
\* Two files of one key are the hazard at service.go:138.
THEOREM CatalogIsBacked == ASSUME OneDigest PROVE Spec => []RecordedIsStored
<1>1. Init => BytesFit
  <2> SUFFICES ASSUME Init PROVE BytesFit
    OBVIOUS
  <2>1. PICK old \in SUBSET Legacy :
            /\ row = [a \in Assets |-> IF a \in old THEN OldRow(a) ELSE NoRow]
            /\ bytes = [a \in Assets |-> IF a \in old THEN OldDigest ELSE ""]
    BY DEF Init
  <2>2. \A a \in Assets : Stored(a) => bytes[a] = row[a].digest
    BY <2>1 DEF Stored, OldRow
  <2>3. \A u \in Uploaders : Seen(u)
    BY DEF Init, Seen, NoUpload
  <2> QED  BY <2>2, <2>3 DEF BytesFit
<1>2. Shaped /\ Shaped' /\ BytesFit /\ [Next]_vars => BytesFit'
  BY BytesStep
<1>3. Shaped /\ BytesFit => RecordedIsStored
  BY DEF Shaped, BytesFit, FormsFit, RecordedIsStored
<1> QED  BY <1>1, <1>2, <1>3, StoreShaped, PTL DEF Spec

-----------------------------------------------------------------------------
(* Who may read what.                                                      *)

\* No form has the name of an original.
FormsApart == \A a \in Assets, name \in FormNames : FormKey(a, name) \notin Assets

\* Files of different keys that make the same forms agree on who may read them.
SharersAgree == \A a, b \in Assets : a # b /\ Stem[a] = Stem[b] =>
    \A v \in VisibilitiesOf(a), w \in VisibilitiesOf(b) : v = w

\* An original stored since originals are withheld is as public as its uploads
\* ask, where they agree.
OriginalFits(a) == row[a] # OldRow(a) /\ acl[a] # "none" /\ ~Disputed(a) =>
    \A r \in Requests : r.key = a => acl[a] = OriginalAccess(r)

\* One stored before is public, or withheld with something to publish instead.
OldFits(a) == row[a] = OldRow(a) =>
    /\ acl[a] \in {"public", "private"}
    /\ acl[a] = "private" => WithholdsOriginal(row[a].kind) /\ Copied(a)

\* A form is as public as an asset that has it.
FormFits(a, name) == acl[FormKey(a, name)] # "none" =>
    \E b \in Assets :
        Stored(b) /\ Stem[b] = Stem[a] /\ acl[FormKey(a, name)] = row[b].visibility

AccessFits == \A a \in Assets :
    OriginalFits(a) /\ OldFits(a) /\ \A name \in FormNames : FormFits(a, name)

\* An undisputed key is asked for in one way.
LEMMA OneAccess ==
    ASSUME NEW a \in Assets, ~Disputed(a), NEW r \in Requests, NEW q \in Requests,
           r.key = a, q.key = a
    PROVE  r.visibility = q.visibility /\ r.kind = q.kind
BY DEF Disputed

LEMMA RowVisibility ==
    ASSUME Shaped, NEW a \in Assets, Stored(a)
    PROVE  row[a].visibility \in VisibilitiesOf(a)
<1>1. RowFits(a)
  BY DEF Shaped
<1>2. CASE row[a] \in AskedFor(a)
  BY <1>2, Asked
<1>3. CASE row[a] = OldRow(a) /\ a \in Legacy
  BY <1>3, OldIsARow DEF VisibilitiesOf
<1> QED  BY <1>1, <1>2, <1>3 DEF RowFits

LEMMA SameForms ==
    ASSUME NEW a \in Assets, NEW b \in Assets, NEW name, NEW other,
           FormKey(a, name) = FormKey(b, other)
    PROVE  Stem[a] = Stem[b]
BY DEF FormKey

\* A form of an asset is as public as that asset, whoever stored it.
LEMMA FormsAsPublic ==
    ASSUME SharersAgree, Shaped, AccessFits, NEW a \in Assets, Stored(a), NEW name \in FormNames,
           acl[FormKey(a, name)] # "none"
    PROVE  acl[FormKey(a, name)] = row[a].visibility
<1>1. PICK b \in Assets : Stored(b) /\ Stem[b] = Stem[a] /\ acl[FormKey(a, name)] = row[b].visibility
  BY DEF AccessFits, FormFits
<1>2. CASE b = a
  BY <1>1, <1>2
<1>3. CASE b # a
  <2>1. row[a].visibility \in VisibilitiesOf(a) /\ row[b].visibility \in VisibilitiesOf(b)
    BY <1>1, RowVisibility
  <2> QED  BY <2>1, <1>1, <1>3 DEF SharersAgree
<1> QED  BY <1>2, <1>3

\* A form that was as public as some asset's row still is, if its access stays.
LEMMA FormStays ==
    ASSUME Grows, NEW a \in Assets, NEW name \in FormNames, FormFits(a, name),
           acl'[FormKey(a, name)] = acl[FormKey(a, name)]
    PROVE  FormFits(a, name)'
<1> SUFFICES ASSUME acl[FormKey(a, name)] # "none" PROVE FormFits(a, name)'
  BY DEF FormFits, FormKey
<1>1. PICK b \in Assets : Stored(b) /\ Stem[b] = Stem[a] /\ acl[FormKey(a, name)] = row[b].visibility
  BY DEF FormFits
<1>2. row'[b] = row[b]
  BY <1>1 DEF Grows, Stored
<1> QED  BY <1>1, <1>2 DEF FormFits, FormKey, Stored

\* Nothing changes for an original whose access stays.
LEMMA OriginalStays ==
    ASSUME Grows, NEW a \in Assets, OriginalFits(a), OldFits(a), acl'[a] = acl[a]
    PROVE  OriginalFits(a)' /\ OldFits(a)'
<1>1. OldRow(a) # NoRow /\ \A asked \in AskedFor(a) : asked # OldRow(a)
  BY OldIsARow, Asked
<1>2. row'[a] = OldRow(a) <=> row[a] = OldRow(a)
  BY <1>1 DEF Grows
<1>3. OriginalFits(a)'
  BY <1>2 DEF OriginalFits, Disputed, OriginalAccess, WithholdsOriginal, OldRow
<1>4. OldFits(a)'
  <2> SUFFICES ASSUME row[a] = OldRow(a) PROVE OldFits(a)'
    BY <1>2 DEF OldFits, OldRow
  <2>1. row'[a] = row[a] /\ Stored(a)
    BY <1>1, <1>2 DEF Stored
  <2>2. Copied(a) => Copied(a)'
    BY <2>1, CopiedStays
  <2> QED  BY <2>1, <2>2 DEF OldFits, OldRow
<1> QED  BY <1>3, <1>4

LEMMA AccessStep ==
    ASSUME FormsApart, Shaped, AccessFits, Next
    PROVE  AccessFits'
<1>t. /\ Grows /\ row \in [Assets -> Rows] /\ acl \in [Objects -> {"none"} \cup Visibilities]
      /\ RunFits
  BY Steps DEF Shaped, Typed, CatalogTyped, BucketTyped
<1> SUFFICES ASSUME NEW a \in Assets
             PROVE  /\ OriginalFits(a)' /\ OldFits(a)'
                    /\ \A name \in FormNames : FormFits(a, name)'
  BY DEF AccessFits
<1>f. OriginalFits(a) /\ OldFits(a) /\ \A name \in FormNames : FormFits(a, name)
  BY DEF AccessFits
<1>k. a \in Objects /\ \A name \in FormNames : FormKey(a, name) \in Objects /\ FormKey(a, name) \notin Assets
  BY Keys DEF FormsApart
<1>1. CASE UNCHANGED acl
  BY <1>1, <1>t, <1>f, FormStays, OriginalStays
<1>2. ASSUME NEW u \in Uploaders, uploader[u].at = "put",
             acl' = [acl EXCEPT ![uploader[u].key] = OriginalAccess(uploader[u].request)]
      PROVE  /\ OriginalFits(a)' /\ OldFits(a)'
             /\ \A name \in FormNames : FormFits(a, name)'
  <2>1. PICK c \in Assets :
           /\ c = uploader[u].key /\ row[c] # OldRow(c)
           /\ uploader[u].request \in AskedFor(c)
    BY <1>2, UnderWay
  <2>2. PICK q \in Requests :
           /\ q.key = c
           /\ uploader[u].request.visibility = q.visibility /\ uploader[u].request.kind = q.kind
    BY <2>1, AskedBy
  <2>3. acl' = [acl EXCEPT ![c] = OriginalAccess(q)]
    BY <1>2, <2>1, <2>2 DEF OriginalAccess
  <2>4. \A name \in FormNames : FormFits(a, name)'
    <3>1. \A name \in FormNames : acl'[FormKey(a, name)] = acl[FormKey(a, name)]
      BY <2>3, <1>t, <1>k
    <3> QED  BY <3>1, <1>t, <1>f, FormStays
  <2>5. CASE a = c
    <3>1. acl'[a] = OriginalAccess(q)
      BY <2>3, <2>5, <1>t, <1>k
    <3>2. ~Disputed(a) => \A r \in Requests : r.key = a => OriginalAccess(r) = OriginalAccess(q)
      BY <2>2, <2>5, OneAccess DEF OriginalAccess
    <3>3. OldRow(a) # NoRow /\ row'[a] # OldRow(a)
      BY <2>1, <2>5, <1>t, OldIsARow, Asked DEF Grows
    <3>4. OriginalFits(a)'
      BY <3>1, <3>2 DEF OriginalFits, Disputed, OriginalAccess, WithholdsOriginal
    <3>5. OldFits(a)'
      BY <3>3 DEF OldFits, OldRow
    <3> QED  BY <3>4, <3>5, <2>4
  <2>6. CASE a # c
    <3>1. acl'[a] = acl[a]
      BY <2>3, <2>6, <1>t, <1>k
    <3> QED  BY <3>1, <2>4, <1>t, <1>f, OriginalStays
  <2> QED  BY <2>5, <2>6
<1>3. ASSUME NEW b \in Builders, builder[b] # NoBuild,
             acl' = [acl EXCEPT ![Building(b)] = row[builder[b].key].visibility]
      PROVE  /\ OriginalFits(a)' /\ OldFits(a)'
             /\ \A name \in FormNames : FormFits(a, name)'
  <2>1. PICK c \in Assets, built \in FormNames :
           /\ c = builder[b].key /\ Stored(c)
           /\ Building(b) = FormKey(c, built)
    BY <1>3, AtWork DEF Derivable
  <2>2. PICK v \in Visibilities : v = row[c].visibility
    BY <2>1, <1>3, AtWork
  <2>3. acl' = [acl EXCEPT ![FormKey(c, built)] = v] /\ FormKey(c, built) \notin Assets
    BY <1>3, <2>1, <2>2 DEF FormsApart
  <2>4. acl'[a] = acl[a]
    BY <2>3, <1>t, <1>k
  <2>5. OriginalFits(a)' /\ OldFits(a)'
    BY <2>4, <1>t, <1>f, OriginalStays
  <2>6. ASSUME NEW name \in FormNames PROVE FormFits(a, name)'
    <3>1. CASE FormKey(a, name) = FormKey(c, built)
      <4>1. acl'[FormKey(a, name)] = v
        BY <2>3, <3>1, <1>t, <1>k
      <4>2. Stem[c] = Stem[a]
        BY <3>1, SameForms
      <4>3. row'[c] = row[c] /\ row[c] # NoRow
        BY <2>1, <1>t DEF Grows, Stored
      <4> QED  BY <4>1, <4>2, <4>3, <2>2 DEF FormFits, FormKey, Stored
    <3>2. CASE FormKey(a, name) # FormKey(c, built)
      <4>1. acl'[FormKey(a, name)] = acl[FormKey(a, name)]
        BY <2>3, <3>2, <1>t, <1>k
      <4> QED  BY <4>1, <1>t, <1>f, FormStays
    <3> QED  BY <3>1, <3>2
  <2> QED  BY <2>5, <2>6
<1>4. CASE /\ withholder.at = "withhold"
           /\ acl' = [acl EXCEPT ![withholder.key] = "private"]
  <2>1. PICK c \in Assets :
           /\ c = withholder.key /\ Withholdable(c) /\ Copied(c)
           /\ acl' = [acl EXCEPT ![c] = "private"]
    BY <1>4, <1>t DEF RunFits
  <2>2. \A name \in FormNames : acl'[FormKey(a, name)] = acl[FormKey(a, name)]
    BY <2>1, <1>t, <1>k
  <2>3. \A name \in FormNames : FormFits(a, name)'
    BY <2>2, <1>t, <1>f, FormStays
  <2>4. CASE a = c
    <3>1. acl'[a] = "private"
      BY <2>1, <2>4, <1>t, <1>k
    <3>2. row'[a] = row[a] /\ WithholdsOriginal(row[a].kind) /\ Copied(a)'
      BY <2>1, <2>4, <1>t, CopiedStays DEF Withholdable, Grows, Stored
    <3>3. OldFits(a)'
      BY <3>1, <3>2 DEF OldFits, OldRow
    <3>4. OriginalFits(a)'
      <4> SUFFICES ASSUME row[a] # OldRow(a), ~Disputed(a), NEW r \in Requests, r.key = a
                   PROVE  OriginalAccess(r) = "private"
        BY <3>1, <3>2 DEF OriginalFits, Disputed, OriginalAccess, WithholdsOriginal, OldRow
      <4>1. row[a] \in AskedFor(a)
        BY <2>1, <2>4 DEF Shaped, RowFits, Withholdable
      <4>2. PICK q \in Requests : q.key = a /\ row[a].kind = q.kind
        BY <4>1, AskedBy
      <4>3. r.kind = q.kind
        BY <4>2, OneAccess
      <4> QED  BY <3>2, <4>2, <4>3 DEF OriginalAccess
    <3> QED  BY <3>3, <3>4, <2>3
  <2>5. CASE a # c
    <3>1. acl'[a] = acl[a]
      BY <2>1, <2>5, <1>t, <1>k
    <3> QED  BY <3>1, <2>3, <1>t, <1>f, OriginalStays
  <2> QED  BY <2>4, <2>5
<1> QED  BY <1>1, <1>2, <1>3, <1>4, WhoSetsAccess

LEMMA AccessInit == ASSUME FormsApart PROVE Init => AccessFits
<1> SUFFICES ASSUME Init, NEW a \in Assets
             PROVE  OriginalFits(a) /\ OldFits(a) /\ \A name \in FormNames : FormFits(a, name)
  BY DEF AccessFits
<1>1. PICK old \in SUBSET Legacy :
          /\ row = [c \in Assets |-> IF c \in old THEN OldRow(c) ELSE NoRow]
          /\ acl = [o \in Objects |-> IF o \in old THEN "public" ELSE "none"]
  BY DEF Init
<1>2. \A name \in FormNames : FormKey(a, name) \in Objects /\ FormKey(a, name) \notin old
  BY Keys, StoreAssumption DEF FormsApart
<1>3. a \in Objects
  BY Keys
<1>4. OldRow(a) # NoRow
  BY OldIsARow
<1> QED  BY <1>1, <1>2, <1>3, <1>4 DEF OriginalFits, OldFits, FormFits

LEMMA Access == ASSUME FormsApart PROVE Spec => [](Shaped /\ AccessFits)
<1>1. Init => AccessFits
  BY AccessInit
<1>2. Shaped /\ AccessFits /\ [Next]_vars => AccessFits'
  <2>1. ASSUME Shaped, AccessFits, UNCHANGED vars PROVE AccessFits'
    BY <2>1 DEF AccessFits, OriginalFits, OldFits, FormFits, vars, Disputed, OriginalAccess,
       WithholdsOriginal, Copied, FormKey, Stored, OldRow
  <2> QED  BY <2>1, AccessStep
<1> QED  BY <1>1, <1>2, StoreShaped, PTL DEF Spec

\* Storage lets anyone read exactly what the catalog publishes of an original
\* whose uploads agree, and of a form whose sharers agree.  Uploads of a key
\* that do not are the hazard at service.go:172; different keys that make one
\* form are that at service.go:205, and the run shared_forms has such a pair.
THEOREM AccessKept == ASSUME FormsApart, SharersAgree PROVE Spec => []AccessAgrees
<1>1. Shaped /\ AccessFits => AccessAgrees
  <2> SUFFICES ASSUME Shaped, AccessFits, NEW a \in Assets, Stored(a)
               PROVE  /\ row[a] # OldRow(a) /\ ~Disputed(a) => (acl[a] = "public" <=> MayBeRead(a))
                      /\ \A name \in forms[a] : acl[FormKey(a, name)] = row[a].visibility
    BY DEF AccessAgrees
  <2>1. row[a] # OldRow(a) /\ ~Disputed(a) => (acl[a] = "public" <=> MayBeRead(a))
    <3> SUFFICES ASSUME row[a] # OldRow(a), ~Disputed(a) PROVE acl[a] = "public" <=> MayBeRead(a)
      OBVIOUS
    <3>1. row[a] \in AskedFor(a) /\ acl[a] # "none" /\ OriginalFits(a)
      BY DEF Shaped, RowFits, AccessFits
    <3>2. PICK q \in Requests : q.key = a /\ row[a].visibility = q.visibility /\ row[a].kind = q.kind
      BY <3>1, AskedBy
    <3>3. acl[a] = OriginalAccess(q)
      BY <3>1, <3>2 DEF OriginalFits
    <3> QED  BY <3>2, <3>3 DEF OriginalAccess, MayBeRead
  <2>2. ASSUME NEW name \in forms[a] PROVE acl[FormKey(a, name)] = row[a].visibility
    <3>1. name \in FormNames /\ acl[FormKey(a, name)] # "none"
      BY DEF Shaped, Typed, CatalogTyped, FormsFit
    <3> QED  BY <3>1, FormsAsPublic
  <2> QED  BY <2>1, <2>2
<1> QED  BY <1>1, Access, PTL

\* A plain URL that a reader was given is served for as long as the reader
\* holds it, whatever withhold and a rebuild do meanwhile, under the same
\* condition on forms and with the same exception of a disputed original.
THEOREM ReadersServed == ASSUME FormsApart, SharersAgree PROVE Spec => []PublishedIsReadable
<1>1. Shaped /\ AccessFits => PublishedIsReadable
  <2> SUFFICES ASSUME Shaped, AccessFits, NEW r \in Readers, reader[r].at = "answered",
                      reader[r].url # NoAsset, row[reader[r].key].visibility = "public",
                      reader[r].url = reader[r].key => ~Disputed(reader[r].key)
               PROVE  acl[reader[r].url] = "public"
    BY DEF PublishedIsReadable
  <2>1. PICK a \in Assets :
           /\ a = reader[r].key /\ Stored(a) /\ reader[r].forms \subseteq FormNames
           /\ \A name \in reader[r].forms : acl[FormKey(a, name)] # "none"
           /\ reader[r].url = PublicForm(a, reader[r].forms)
    BY AtReading DEF ReadType
  <2>2. row[a].visibility = "public"
    BY <2>1
  <2>3. \A name \in reader[r].forms : acl[FormKey(a, name)] = "public"
    BY <2>1, <2>2, FormsAsPublic
  <2>4. CASE WithholdsOriginal(row[a].kind)
    BY <2>1, <2>2, <2>3, <2>4 DEF PublicForm
  <2>5. CASE ~WithholdsOriginal(row[a].kind)
    <3>1. reader[r].url = a /\ ~Disputed(a) /\ OriginalFits(a) /\ OldFits(a) /\ RowFits(a) /\ acl[a] # "none"
      BY <2>1, <2>5 DEF PublicForm, AccessFits, Shaped
    <3>2. CASE row[a] = OldRow(a)
      BY <3>1, <3>2, <2>5 DEF OldFits
    <3>3. CASE row[a] # OldRow(a)
      <4>1. PICK q \in Requests : q.key = a /\ row[a].visibility = q.visibility /\ row[a].kind = q.kind
        BY <3>1, <3>3, <2>1, AskedBy DEF RowFits
      <4> QED  BY <4>1, <3>1, <3>3, <2>2, <2>5 DEF OriginalFits, OriginalAccess
    <3> QED  BY <3>2, <3>3
  <2> QED  BY <2>4, <2>5
<1> QED  BY <1>1, Access, PTL

\* An image from before is private only when its stripped copy is stored and
\* public, and recorded unless a rebuild has been asked for since it was.
THEOREM CopiedBeforeWithheld == ASSUME FormsApart, SharersAgree PROVE Spec => []WithheldHasCopy
<1>1. Shaped /\ AccessFits => WithheldHasCopy
  <2> SUFFICES ASSUME Shaped, AccessFits, NEW a \in Assets, row[a] = OldRow(a), row[a].kind = "image",
                      acl[a] = "private"
               PROVE  /\ acl[FormKey(a, "full")] = "public"
                      /\ a \in rebuilt \/ PublicForm(a, forms[a]) = FormKey(a, "full")
    BY DEF WithheldHasCopy
  <2>1. Stored(a) /\ row[a].visibility = "public"
    BY OldIsARow DEF Stored
  <2>2. WithholdsOriginal(row[a].kind) /\ Copied(a)
    BY DEF AccessFits, OldFits
  <2>3. acl[FormKey(a, "full")] # "none" /\ ("full" \in forms[a] \/ a \in rebuilt)
    BY <2>2 DEF Copied
  <2>4. acl[FormKey(a, "full")] = "public"
    BY <2>1, <2>3, FormsAsPublic DEF FormNames
  <2> QED  BY <2>1, <2>2, <2>3, <2>4 DEF PublicForm
<1> QED  BY <1>1, Access, PTL
=============================================================================
