------------------------------ MODULE Uploads ------------------------------
(***************************************************************************)
(* Uploads in parts (internal/api/uploads.go): the map of open uploads, in *)
(* memory under a mutex, the files in the spool folder that hold their     *)
(* bytes, and the requests of several clients that open uploads, send      *)
(* parts and finish them, all at once.                                     *)
(*                                                                         *)
(* Each hold of the mutex is one step, and so is each change of a file.    *)
(* A file's bytes are counted in units; unit n of every client's file is   *)
(* the number n, so a file is assembled right when it reads 1, 2, 3, ...   *)
(* Answers that change nothing (not found, busy) are stuttering steps.     *)
(***************************************************************************)
EXTENDS Integers, Sequences, FiniteSets

CONSTANTS Callers,    \* a principal's name and account
          Handlers,   \* requests the server works on at once
          Length,     \* units in a whole file (Upload-Length)
          MaxOpen,    \* uploadsOpenEach
          OwnSpool,   \* is the spool folder the service's own?
          MaxUploads, \* bound: uploads opened over the whole run
          Nobody      \* the caller of no upload

ASSUME UploadsAssumption ==
    /\ IsFiniteSet(Handlers)
    /\ Handlers # {}
    /\ Length \in Nat \ {0}
    /\ MaxOpen \in Nat \ {0}
    /\ OwnSpool \in BOOLEAN
    /\ MaxUploads \in Nat
    /\ Nobody \notin Callers

VARIABLES serving, \* is the process up?
          drawn,   \* how many ids were drawn; they are random and never repeat
          open,    \* the ids in the map
          upload,  \* what the map's entry, or a request's pointer, says of it
          spool,   \* the ids whose file exists
          content, \* the units in each file
          handler  \* what each request is doing

vars == <<serving, drawn, open, upload, spool, content, handler>>

-----------------------------------------------------------------------------
(* Types.                                                                  *)

Ids == 1..MaxUploads

Upload == [by : Callers \cup {Nobody}, offset : 0..Length, busy : BOOLEAN, idle : BOOLEAN]

NoUpload == [by |-> Nobody, offset |-> 0, busy |-> FALSE, idle |-> FALSE]

\* Where a request stands: opening (sweeping .. naming), sending a part
\* (held, copying) or finishing (finishing .. unlinking).
Opening == {"sweeping", "creating", "naming"}
Holding == {"held", "copying", "finishing", "storing"}

Handler == [at : {"idle", "unlinking"} \cup Opening \cup Holding,
            by : Callers \cup {Nobody}, id : Ids \cup {0},
            from : 0..Length, len : 0..Length + 1, sent : 0..Length + 1,
            stale : SUBSET Ids]

NoHandler == [at |-> "idle", by |-> Nobody, id |-> 0,
              from |-> 0, len |-> 0, sent |-> 0, stale |-> {}]

TypeOK ==
    /\ serving \in BOOLEAN
    /\ drawn \in 0..MaxUploads
    /\ open \subseteq Ids
    /\ upload \in [Ids -> Upload]
    /\ spool \subseteq Ids
    /\ content \in [Ids -> Seq(1..Length)]
    /\ handler \in [Handlers -> Handler]

-----------------------------------------------------------------------------
(* The map.                                                                *)

OpenBy(c) == {id \in open : upload[id].by = c}

SweptWhileBusy == {id \in open : upload[id].idle}

\* sweep's test.  A busy upload is somebody's, however long ago it was touched.
Expired == {id \in open : ~upload[id].busy /\ upload[id].idle}

\* take's test, for a request on a known id.
FreeFor(c, id) == id \in OpenBy(c) /\ ~upload[id].busy

Released(up) == [up EXCEPT !.busy = FALSE, !.idle = FALSE]

Goto(h, at) == handler' = [handler EXCEPT ![h].at = at]
Answer(h) == handler' = [handler EXCEPT ![h] = NoHandler]

\* Closing and removing files; what pointed at them is forgotten with them.
Unlink(ids) ==
    /\ spool' = spool \ ids
    /\ content' = [id \in Ids |-> IF id \in ids THEN <<>> ELSE content[id]]
    /\ upload' = [id \in Ids |-> IF id \in ids THEN NoUpload ELSE upload[id]]

-----------------------------------------------------------------------------
(* POST /v1/uploads: sweep, count and insert each take the mutex anew.     *)

Init ==
    /\ serving = TRUE
    /\ drawn = 0
    /\ open = {}
    /\ upload = [id \in Ids |-> NoUpload]
    /\ spool = {}
    /\ content = [id \in Ids |-> <<>>]
    /\ handler = [h \in Handlers |-> NoHandler]

Sweep(h, c) ==
    /\ handler[h].at = "idle"
    /\ open' = open \ Expired
    /\ handler' = [handler EXCEPT ![h] =
                      [NoHandler EXCEPT !.at = "sweeping", !.by = c, !.stale = Expired]]
    /\ UNCHANGED <<serving, drawn, upload, spool, content>>

RemoveSwept(h) ==
    /\ handler[h].at = "sweeping"
    /\ \E id \in handler[h].stale :
        /\ Unlink({id})
        /\ handler' = [handler EXCEPT ![h].stale = @ \ {id}]
    /\ UNCHANGED <<serving, drawn, open>>

HasRoomForOneMore(c) == Cardinality(OpenBy(c)) <= MaxOpen

HasRoom(c) == Cardinality(OpenBy(c)) < MaxOpen

Count(h) ==
    /\ handler[h].at = "sweeping"
    /\ handler[h].stale = {}
    /\ IF HasRoom(handler[h].by) THEN Goto(h, "creating") ELSE Answer(h)
    /\ UNCHANGED <<serving, drawn, open, upload, spool, content>>

CreateFile(h) ==
    /\ handler[h].at = "creating"
    /\ drawn < MaxUploads
    /\ drawn' = drawn + 1
    /\ spool' = spool \cup {drawn + 1}
    /\ handler' = [handler EXCEPT ![h].at = "naming", ![h].id = drawn + 1]
    /\ UNCHANGED <<serving, open, upload, content>>

CannotCreate(h) ==
    /\ handler[h].at = "creating"
    /\ Answer(h)
    /\ UNCHANGED <<serving, drawn, open, upload, spool, content>>

LeavesUnnamed(h) ==
    /\ handler[h].at = "naming"
    /\ Answer(h)
    /\ UNCHANGED <<serving, drawn, open, upload, spool, content>>

CannotName(h) ==
    /\ handler[h].at = "naming"
    /\ Unlink({handler[h].id})
    /\ Answer(h)
    /\ UNCHANGED <<serving, drawn, open>>

Register(h) ==
    /\ handler[h].at = "naming"
    /\ open' = open \cup {handler[h].id}
    /\ upload' = [upload EXCEPT ![handler[h].id] = [NoUpload EXCEPT !.by = handler[h].by]]
    /\ Answer(h)
    /\ UNCHANGED <<serving, drawn, spool, content>>

-----------------------------------------------------------------------------
(* PATCH /v1/uploads/{id}.                                                 *)

Take(h, c, id, at, from) ==
    /\ handler[h].at = "idle"
    /\ FreeFor(c, id)
    /\ upload' = [upload EXCEPT ![id].busy = TRUE]
    /\ handler' = [handler EXCEPT ![h] =
                      [NoHandler EXCEPT !.at = at, !.by = c, !.id = id, !.from = from]]
    /\ UNCHANGED <<serving, drawn, open, spool, content>>

Stands(h) == upload[handler[h].id].offset

\* The end of any request that still holds its upload.
GiveBack(h, up) ==
    /\ upload' = [upload EXCEPT ![handler[h].id] = Released(up)]
    /\ Answer(h)
    /\ UNCHANGED <<serving, drawn, open, spool>>

WithinReach(h) == handler[h].from <= Stands(h)

OffsetAgrees(h) == handler[h].from = Stands(h)

RefusePart(h) ==
    /\ handler[h].at = "held"
    /\ ~OffsetAgrees(h)
    /\ GiveBack(h, upload[handler[h].id])
    /\ UNCHANGED content

\* len is how much body the client sends, one unit too much at the most.
AcceptPart(h, len) ==
    /\ handler[h].at = "held"
    /\ OffsetAgrees(h)
    /\ handler' = [handler EXCEPT ![h].at = "copying", ![h].len = len]
    /\ UNCHANGED <<serving, drawn, open, upload, spool, content>>

Written(file, position, unit) ==
    IF position <= Len(file) THEN [file EXCEPT ![position] = unit] ELSE Append(file, unit)

CopyUnlimited(h) ==
    /\ handler[h].at = "copying"
    /\ handler[h].sent < handler[h].len
    /\ content' = [content EXCEPT ![handler[h].id] =
                      Written(@, Stands(h) + handler[h].sent + 1, handler[h].from + handler[h].sent + 1)]
    /\ handler' = [handler EXCEPT ![h].sent = @ + 1]
    /\ UNCHANGED <<serving, drawn, open, upload, spool>>

CopyFromStart(h) ==
    /\ handler[h].at = "copying"
    /\ handler[h].sent < handler[h].len
    /\ Stands(h) + handler[h].sent < Length
    /\ content' = [content EXCEPT ![handler[h].id] =
                      Written(@, handler[h].sent + 1, handler[h].from + handler[h].sent + 1)]
    /\ handler' = [handler EXCEPT ![h].sent = @ + 1]
    /\ UNCHANGED <<serving, drawn, open, upload, spool>>

\* The copy starts at the offset it sought and stops at the upload's length.
CopyUnit(h) ==
    LET id == handler[h].id
        sent == handler[h].sent
    IN  /\ handler[h].at = "copying"
        /\ sent < handler[h].len
        /\ Stands(h) + sent < Length
        /\ content' = [content EXCEPT ![id] =
                          Written(@, Stands(h) + sent + 1, handler[h].from + sent + 1)]
        /\ handler' = [handler EXCEPT ![h].sent = @ + 1]
        /\ UNCHANGED <<serving, drawn, open, upload, spool>>

PartLands(h) ==
    /\ handler[h].at = "copying"
    /\ handler[h].sent = handler[h].len
    /\ GiveBack(h, [upload[handler[h].id] EXCEPT !.offset = @ + handler[h].sent])
    /\ UNCHANGED content

\* The body broke off, a write failed, or there is more of it than the
\* upload has room for.  Truncate's own failure is not looked at.
PartFails(h, cut) ==
    LET id == handler[h].id IN
    /\ handler[h].at = "copying"
    /\ content' = IF cut THEN [content EXCEPT ![id] = SubSeq(@, 1, Stands(h))] ELSE content
    /\ GiveBack(h, upload[id])

-----------------------------------------------------------------------------
(* POST /v1/uploads/{id}/finish.                                           *)

RefuseAndKeep(h) ==
    /\ handler[h].at = "finishing"
    /\ Stands(h) # Length
    /\ Answer(h)
    /\ UNCHANGED <<serving, drawn, open, upload, spool, content>>

RefuseFinish(h) ==
    /\ handler[h].at = "finishing"
    /\ Stands(h) # Length
    /\ GiveBack(h, upload[handler[h].id])
    /\ UNCHANGED content

Store(h) ==
    /\ handler[h].at = "finishing"
    /\ Stands(h) = Length
    /\ Goto(h, "storing")
    /\ UNCHANGED <<serving, drawn, open, upload, spool, content>>

\* Whatever Put answered, the upload is gone.
Drop(h) ==
    /\ handler[h].at = "storing"
    /\ open' = open \ {handler[h].id}
    /\ Goto(h, "unlinking")
    /\ UNCHANGED <<serving, drawn, upload, spool, content>>

RemoveDropped(h) ==
    /\ handler[h].at = "unlinking"
    /\ Unlink({handler[h].id})
    /\ Answer(h)
    /\ UNCHANGED <<serving, drawn, open>>

-----------------------------------------------------------------------------
(* The clock and the process.                                              *)

\* More than uploadIdle passes since the upload was touched.
GoIdle(id) ==
    /\ id \in open
    /\ ~upload[id].idle
    /\ upload' = [upload EXCEPT ![id].idle = TRUE]
    /\ UNCHANGED <<serving, drawn, open, spool, content, handler>>

Stop ==
    /\ serving
    /\ serving' = FALSE
    /\ open' = {}
    /\ upload' = [id \in Ids |-> NoUpload]
    /\ handler' = [h \in Handlers |-> NoHandler]
    /\ UNCHANGED <<drawn, spool, content>>

\* RemoveAbandonedUploads runs before the server listens.
Start ==
    /\ ~serving
    /\ serving' = TRUE
    /\ spool' = IF OwnSpool THEN {} ELSE spool
    /\ content' = IF OwnSpool THEN [id \in Ids |-> <<>>] ELSE content
    /\ UNCHANGED <<drawn, open, upload, handler>>

-----------------------------------------------------------------------------
NewRequest(h) ==
    \E c \in Callers :
        \/ Sweep(h, c)
        \/ \E id \in Ids, from \in 0..Length : Take(h, c, id, "held", from)
        \/ \E id \in Ids : Take(h, c, id, "finishing", 0)

Proceed(h) ==
    \/ RemoveSwept(h) \/ Count(h)
    \/ CreateFile(h) \/ CannotCreate(h) \/ CannotName(h) \/ Register(h)
    \/ RefusePart(h) \/ \E len \in 1..Length + 1 : AcceptPart(h, len)
    \/ CopyUnit(h) \/ PartLands(h) \/ \E cut \in BOOLEAN : PartFails(h, cut)
    \/ RefuseFinish(h) \/ Store(h) \/ Drop(h) \/ RemoveDropped(h)

Next ==
    \/ serving /\ \E h \in Handlers : NewRequest(h)
    \/ \E h \in Handlers : Proceed(h)
    \/ \E id \in Ids : GoIdle(id)
    \/ Stop
    \/ Start

\* A request gets on with its work: the server's ReadTimeout ends a body that
\* stalls.  Nobody need send another request, and the clock need not move.
Fairness == \A h \in Handlers : WF_vars(Proceed(h))

Spec == Init /\ [][Next]_vars /\ Fairness

-----------------------------------------------------------------------------
(* Properties.                                                             *)

Holds(h, id) == handler[h].at \in Holding /\ handler[h].id = id

\* An upload is busy exactly while one request holds it, and what a request
\* holds stays in the map with its file: no sweep and no second request gets
\* between take and release (uploads.go:64-80, 97-106).
HeldByOne ==
    /\ \A h \in Handlers, id \in Ids : Holds(h, id) =>
        id \in open \cap spool /\ upload[id].busy
    /\ \A id \in open : upload[id].busy => \E h \in Handlers : Holds(h, id)
    /\ \A g, h \in Handlers, id \in Ids : Holds(g, id) /\ Holds(h, id) => g = h

\* What finish hands to Put is the client's file, unit for unit, whichever
\* parts were refused, broke off, were sent twice, ran past the end or left
\* bytes behind because Truncate failed (uploads.go:228-256, 266-278).
AssembledWhole ==
    \A h \in Handlers : handler[h].at = "storing" =>
        content[handler[h].id] = [n \in 1..Length |-> n]

\* What was acknowledged is never rewritten or taken back while the upload is
\* open: the offset does not fall, and the bytes before it stay (uploads.go:234-256).
LandedStays ==
    [][\A id \in open \cap open' :
        /\ upload'[id].offset >= upload[id].offset
        /\ SubSeq(content'[id], 1, upload[id].offset) = SubSeq(content[id], 1, upload[id].offset)
      ]_vars

\* The files a request will hand to the map or remove, out of the map's reach.
Keeps(h) ==
    IF handler[h].at \in {"naming", "unlinking"} THEN {handler[h].id} ELSE handler[h].stale

OneOwner ==
    /\ \A h \in Handlers : Keeps(h) \cap open = {}
    /\ \A g, h \in Handlers : g # h => Keeps(g) \cap Keeps(h) = {}

\* In a spool folder of its own, no file is left behind and none is removed
\* twice: every file is the map's or one request's, across sweeps, failures
\* and restarts (uploads.go:89-125, 169-188).
FilesAccounted ==
    /\ OneOwner
    /\ OwnSpool /\ serving => spool = open \cup UNION {Keeps(h) : h \in Handlers}

Admitted(c) == {h \in Handlers : handler[h].at \in {"creating", "naming"} /\ handler[h].by = c}

\* The count and the insert are two holds of the mutex, so a caller can have
\* more than uploadsOpenEach open: by the requests it opens at once, never
\* more (uploads.go:153-188).
OvershootBounded ==
    \A c \in Callers :
        Cardinality(OpenBy(c)) + Cardinality(Admitted(c)) <= MaxOpen - 1 + Cardinality(Handlers)

\* Whoever takes an upload lets go of it: no answer leaves it busy for good,
\* out of reach of its client and of every sweep (uploads.go:221-279).
EveryTakeEnds == \A id \in Ids : upload[id].busy ~> ~upload[id].busy
=============================================================================
