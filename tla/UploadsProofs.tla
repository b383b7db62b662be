--------------------------- MODULE UploadsProofs ---------------------------
(***************************************************************************)
(* Uploads in parts, for any number of callers and requests at once, any   *)
(* length and any limit: who has a file, and what is in it.                *)
(***************************************************************************)
EXTENDS Uploads, SequenceTheorems, FiniteSetTheorems, TLAPS

(* The first inductive invariant: who owns what.  Offsets and bytes are    *)
(* only numbers here; that they are the right ones comes after.            *)

Loose == [by : Callers \cup {Nobody}, offset : Nat, busy : BOOLEAN, idle : BOOLEAN]

Shapes ==
    /\ serving \in BOOLEAN
    /\ drawn \in 0..MaxUploads
    /\ open \subseteq 1..drawn
    /\ upload \in [Ids -> Loose]
    /\ spool \subseteq Ids
    /\ content = [id \in Ids |-> content[id]]
    /\ handler \in [Handlers -> Handler]

\* A request has an id drawn before, where it has one, and only a sweeping
\* one has stale uploads; nobody is at work while the process is down.
Stages ==
    /\ \A h \in Handlers :
        /\ handler[h].at \in Holding \cup {"naming", "unlinking"} => handler[h].id \in 1..drawn
        /\ handler[h].at # "sweeping" => handler[h].stale = {}
        /\ handler[h].stale \subseteq 1..drawn
    /\ ~serving => open = {} /\ \A h \in Handlers : handler[h] = NoHandler

\* Whatever the map has or a request keeps is in the spool folder.
Spooled == open \subseteq spool /\ \A h \in Handlers : Keeps(h) \subseteq spool

-----------------------------------------------------------------------------
LEMMA ShapesStep ==
    ASSUME Shapes, Stages, [Next]_vars
    PROVE  Shapes'
<1> USE UploadsAssumption
<1>1. NoHandler \in Handler /\ NoUpload \in Loose
  BY DEF NoHandler, Handler, NoUpload, Loose
<1>2. \A ids \in SUBSET Ids : Unlink(ids) =>
        /\ spool' \subseteq Ids
        /\ content' = [id \in Ids |-> content'[id]]
        /\ upload' \in [Ids -> Loose]
  BY <1>1 DEF Unlink, Shapes
<1>3. \A h \in Handlers : Answer(h) => handler' \in [Handlers -> Handler]
  BY <1>1 DEF Answer, Shapes
<1>4. \A h \in Handlers, up \in Loose : GiveBack(h, up) =>
        upload' \in [Ids -> Loose] /\ handler' \in [Handlers -> Handler]
  <2>1. \A up \in Loose : Released(up) \in Loose
    BY DEF Released, Loose
  <2> QED BY <1>3, <2>1 DEF GiveBack, Shapes
<1>5. ASSUME NEW h \in Handlers, NEW at \in {"idle", "unlinking"} \cup Opening \cup Holding, Goto(h, at)
      PROVE  handler' \in [Handlers -> Handler]
  BY <1>5, Zenon DEF Goto, Shapes, Handler
<1>6. ASSUME NEW h \in Handlers, NEW c \in Callers, Sweep(h, c) PROVE Shapes'
  <2>1. Expired \in SUBSET Ids
    <3>1. open \subseteq Ids
      BY DEF Shapes, Ids
    <3> QED BY <3>1, Zenon DEF Expired
  <2>2. [NoHandler EXCEPT !.at = "sweeping", !.by = c, !.stale = Expired] \in Handler
    BY <1>1, <2>1, Zenon DEF Handler, Opening
  <2> QED BY <1>6, <2>2 DEF Sweep, Shapes, Ids
<1>7. ASSUME NEW h \in Handlers, RemoveSwept(h) PROVE Shapes'
  <2>1. PICK id \in handler[h].stale : Unlink({id}) /\ handler' = [handler EXCEPT ![h].stale = @ \ {id}]
    BY <1>7 DEF RemoveSwept
  <2>2. handler[h] \in Handler /\ {id} \in SUBSET Ids
    BY DEF Shapes, Handler
  <2>3. handler' \in [Handlers -> Handler]
    BY <2>1, <2>2 DEF Shapes, Handler
  <2> QED BY <1>2, <1>7, <2>1, <2>2, <2>3 DEF RemoveSwept, Shapes
<1>8. ASSUME NEW h \in Handlers, Count(h) PROVE Shapes'
  BY <1>3, <1>5, <1>8 DEF Count, Shapes, Opening
<1>9. ASSUME NEW h \in Handlers, CreateFile(h) PROVE Shapes'
  <2>1. drawn + 1 \in Ids /\ drawn' \in 0..MaxUploads /\ open \subseteq 1..drawn'
    BY <1>9 DEF CreateFile, Shapes, Ids
  <2>2. [handler[h] EXCEPT !.at = "naming", !.id = drawn + 1] \in Handler
    BY <2>1, Zenon DEF Shapes, Handler, Opening
  <2> QED BY <1>9, <2>1, <2>2 DEF CreateFile, Shapes
<1>10. ASSUME NEW h \in Handlers, CannotCreate(h) PROVE Shapes'
  BY <1>3, <1>10 DEF CannotCreate, Shapes
<1>11. ASSUME NEW h \in Handlers, CannotName(h) PROVE Shapes'
  <2>1. handler[h].id \in Ids
    BY <1>11 DEF CannotName, Stages, Shapes, Ids
  <2> QED BY <1>2, <1>3, <1>11, <2>1 DEF CannotName, Shapes
<1>12. ASSUME NEW h \in Handlers, Register(h) PROVE Shapes'
  <2>1. handler[h].id \in 1..drawn
    BY <1>12 DEF Register, Stages
  <2>2. handler[h].by \in Callers \cup {Nobody}
    BY DEF Shapes, Handler
  <2>3. [NoUpload EXCEPT !.by = handler[h].by] \in Loose
    BY <1>1, <2>2 DEF NoUpload, Loose
  <2> QED BY <1>3, <1>12, <2>1, <2>3 DEF Register, Shapes
<1>13. ASSUME NEW h \in Handlers, NEW c \in Callers, NEW id \in Ids,
              NEW at \in Holding, NEW from \in 0..Length, Take(h, c, id, at, from)
       PROVE  Shapes'
  <2>1. [NoHandler EXCEPT !.at = at, !.by = c, !.id = id, !.from = from] \in Handler
    BY <1>1, Zenon DEF Handler
  <2>2. [upload[id] EXCEPT !.busy = TRUE] \in Loose
    BY Zenon DEF Shapes, Loose
  <2> QED BY <1>13, <2>1, <2>2 DEF Take, Shapes
<1>14. ASSUME NEW h \in Handlers, handler[h].at \in Holding PROVE handler[h].id \in Ids
  BY <1>14 DEF Stages, Shapes, Ids
<1>15. ASSUME NEW h \in Handlers, RefusePart(h) PROVE Shapes'
  BY <1>4, <1>14, <1>15 DEF RefusePart, GiveBack, Shapes, Holding
<1>16. ASSUME NEW h \in Handlers, NEW len \in 1..Length + 1, AcceptPart(h, len) PROVE Shapes'
  <2>1. len \in 0..Length + 1
    OBVIOUS
  <2>2. [handler[h] EXCEPT !.at = "copying", !.len = len] \in Handler
    BY <2>1, Zenon DEF Shapes, Handler, Holding
  <2> QED BY <1>16, <2>2 DEF AcceptPart, Shapes
<1>17. ASSUME NEW h \in Handlers, CopyUnit(h) PROVE Shapes'
  <2>1. handler[h] \in Handler
    BY DEF Shapes
  <2>4. handler[h].sent + 1 \in 0..Length + 1
    BY <1>17, <2>1 DEF CopyUnit, Handler
  <2>5. [handler[h] EXCEPT !.sent = @ + 1] \in Handler
    BY <2>1, <2>4, Zenon DEF Handler
  <2> QED BY <1>17, <2>5 DEF CopyUnit, Shapes
<1>18. ASSUME NEW h \in Handlers, PartLands(h) PROVE Shapes'
  <2>1. handler[h].id \in Ids /\ upload[handler[h].id] \in Loose /\ handler[h].sent \in Nat
    BY <1>14, <1>18 DEF PartLands, Holding, Shapes, Handler
  <2>2. [upload[handler[h].id] EXCEPT !.offset = @ + handler[h].sent] \in Loose
    BY <2>1 DEF Loose
  <2> QED BY <1>4, <1>18, <2>2 DEF PartLands, GiveBack, Shapes
<1>19. ASSUME NEW h \in Handlers, NEW cut \in BOOLEAN, PartFails(h, cut) PROVE Shapes'
  <2>1. handler[h].id \in Ids /\ upload[handler[h].id] \in Loose
    BY <1>14, <1>19 DEF PartFails, Holding, Shapes
  <2>2. content' = [id \in Ids |-> content'[id]]
    BY <1>19 DEF PartFails, Shapes
  <2> QED BY <1>4, <1>19, <2>1, <2>2 DEF PartFails, GiveBack, Shapes
<1>20. ASSUME NEW h \in Handlers, RefuseFinish(h) PROVE Shapes'
  BY <1>4, <1>14, <1>20 DEF RefuseFinish, GiveBack, Shapes, Holding
<1>21. ASSUME NEW h \in Handlers, Store(h) PROVE Shapes'
  BY <1>5, <1>21 DEF Store, Shapes, Holding
<1>22. ASSUME NEW h \in Handlers, Drop(h) PROVE Shapes'
  BY <1>5, <1>22 DEF Drop, Shapes
<1>23. ASSUME NEW h \in Handlers, RemoveDropped(h) PROVE Shapes'
  <2>1. handler[h].id \in Ids
    BY <1>23 DEF RemoveDropped, Stages, Shapes, Ids
  <2> QED BY <1>2, <1>3, <1>23, <2>1 DEF RemoveDropped, Shapes
<1>24. ASSUME NEW id \in Ids, GoIdle(id) PROVE Shapes'
  <2>1. [upload[id] EXCEPT !.idle = TRUE] \in Loose
    BY Zenon DEF Shapes, Loose
  <2> QED BY <1>24, <2>1 DEF GoIdle, Shapes
<1>25. CASE Stop
  BY <1>1, <1>25 DEF Stop, Shapes
<1>26. CASE Start
  BY <1>26 DEF Start, Shapes
<1>27. CASE UNCHANGED vars
  BY <1>27 DEF vars, Shapes
<1> QED
  <2>1. "held" \in Holding /\ "finishing" \in Holding /\ 0 \in 0..Length
    BY DEF Holding
  <2> QED BY <1>6, <1>7, <1>8, <1>9, <1>10, <1>11, <1>12, <1>13, <1>15, <1>16, <1>17, <1>18,
             <1>19, <1>20, <1>21, <1>22, <1>23, <1>24, <1>25, <1>26, <1>27, <2>1
          DEF Next, NewRequest, Proceed

-----------------------------------------------------------------------------
\* Every file in the folder has an owner, where the folder is the service's own.
Exact == OwnSpool /\ serving =>
    \A id \in spool : id \in open \/ \E h \in Handlers : id \in Keeps(h)

Ownership == Stages /\ OneOwner /\ HeldByOne /\ Spooled /\ Exact

\* A step of request h leaves the others where they are.
Alone(h) ==
    /\ \A g \in Handlers \ {h} : handler'[g] = handler[g]
    /\ handler'[h] \in Handler

LEMMA OneOwnerKept ==
    ASSUME OneOwner, NEW h \in Handlers,
           \A g \in Handlers \ {h} : /\ Keeps(g)' = Keeps(g)
                                     /\ Keeps(g) \cap open' = {}
                                     /\ Keeps(g) \cap Keeps(h)' = {},
           Keeps(h)' \cap open' = {}
    PROVE  OneOwner'
<1>1. \A g \in Handlers : Keeps(g)' \cap open' = {}
  OBVIOUS
<1>2. ASSUME NEW g \in Handlers, NEW k \in Handlers, g # k PROVE Keeps(g)' \cap Keeps(k)' = {}
  <2>1. CASE g = h
    BY <1>2, <2>1
  <2>2. CASE k = h
    BY <1>2, <2>2
  <2>3. CASE g # h /\ k # h
    BY <1>2, <2>3 DEF OneOwner
  <2> QED BY <2>1, <2>2, <2>3
<1> QED BY <1>1, <1>2 DEF OneOwner

\* Nobody takes an upload or lets go of one.
LEMMA HeldKept ==
    ASSUME HeldByOne,
           \A g \in Handlers, id \in Ids : Holds(g, id)' <=> Holds(g, id),
           \A g \in Handlers, id \in Ids : Holds(g, id) =>
               id \in open' \cap spool' /\ upload'[id].busy,
           \A id \in open' : upload'[id].busy => id \in open /\ upload[id].busy,
           open' \subseteq Ids
    PROVE  HeldByOne'
BY DEF HeldByOne

\* Three kinds of step decide who owns what.  A request that keeps and holds
\* nothing before and after:
LEMMA Bystander ==
    ASSUME Shapes, Ownership, NEW h \in Handlers, Alone(h),
           handler[h].at \notin Holding, handler'[h].at \notin Holding,
           Keeps(h) = {}, handler'[h].stale = {}, handler'[h].at \notin {"naming", "unlinking"},
           serving, UNCHANGED <<serving, drawn, open, upload, spool>>
    PROVE  Ownership'
<1> USE DEF Alone, Keeps, Holds
<1>1. Stages'
  BY DEF Stages, Ownership
<1>2. OneOwner'
  BY DEF OneOwner, Ownership
<1>3. HeldByOne'
  BY DEF HeldByOne, Ownership
<1>4. Spooled'
  BY DEF Spooled, Ownership
<1>5. Exact'
  BY DEF Exact, Ownership
<1> QED BY <1>1, <1>2, <1>3, <1>4, <1>5 DEF Ownership

\* One that goes on holding what it held:
LEMMA GoesOn ==
    ASSUME Shapes, Ownership, NEW h \in Handlers, Alone(h),
           handler[h].at \in Holding, handler'[h].at \in Holding,
           handler'[h].id = handler[h].id, handler'[h].stale = handler[h].stale,
           serving, UNCHANGED <<serving, drawn, open, upload, spool>>
    PROVE  Ownership'
<1> USE DEF Alone, Keeps, Holds
<1>1. handler[h].at \notin {"naming", "unlinking", "sweeping"} /\ handler'[h].at \notin {"naming", "unlinking", "sweeping"}
  BY DEF Holding
<1>2. Stages'
  BY <1>1 DEF Stages, Ownership
<1>3. OneOwner'
  BY <1>1 DEF OneOwner, Ownership
<1>4. HeldByOne'
  BY DEF HeldByOne, Ownership
<1>5. Spooled'
  BY <1>1 DEF Spooled, Ownership
<1>6. Exact'
  BY <1>1 DEF Exact, Ownership
<1> QED BY <1>2, <1>3, <1>4, <1>5, <1>6 DEF Ownership

\* And one that lets go of an upload that stays open:
LEMMA LetsGo ==
    ASSUME Shapes, Ownership, NEW h \in Handlers, handler[h].at \in Holding,
           NEW up, GiveBack(h, up), up.busy \in BOOLEAN, serving
    PROVE  Ownership'
<1> USE DEF Keeps, Holds, GiveBack, Answer, NoHandler, Released
<1> DEFINE id == handler[h].id
<1>1. id \in Ids /\ Holds(h, id)
  BY UploadsAssumption DEF Ownership, Stages, Shapes, Ids
<1>2. handler'[h] = NoHandler /\ NoHandler.at \notin Holding /\ Keeps(h)' = {}
  BY DEF Shapes, Holding
<1>3. Keeps(h) = {}
  BY DEF Ownership, Stages, Holding
<1>4. \A g \in Handlers \ {h} : handler'[g] = handler[g]
  BY DEF Shapes
<1>5. Stages'
  BY <1>2, <1>4 DEF Stages, Ownership
<1>6. OneOwner'
  BY <1>2, <1>3, <1>4 DEF OneOwner, Ownership
<1>7. HeldByOne'
  BY <1>1, <1>2, <1>4 DEF HeldByOne, Ownership, Shapes
<1>8. Spooled'
  BY <1>2, <1>4 DEF Spooled, Ownership
<1>9. Exact'
  BY <1>2, <1>3, <1>4 DEF Exact, Ownership
<1> QED BY <1>5, <1>6, <1>7, <1>8, <1>9 DEF Ownership

\* One that removes a file it keeps:
LEMMA Removes ==
    ASSUME Shapes, Ownership, NEW h \in Handlers, Alone(h), NEW id \in Keeps(h), Unlink({id}),
           handler[h].at \notin Holding, handler'[h].at \notin Holding,
           Keeps(h)' = Keeps(h) \ {id}, handler'[h].at \notin {"naming", "unlinking"},
           handler'[h].at # "sweeping" => handler'[h].stale = {},
           serving, UNCHANGED <<serving, drawn, open>>
    PROVE  Ownership'
<1> USE DEF Alone, Holds, Unlink
<1>1. \A g \in Handlers \ {h} : Keeps(g)' = Keeps(g)
  BY DEF Keeps
<1>2. id \notin open /\ \A g \in Handlers \ {h} : id \notin Keeps(g)
  BY DEF Ownership, OneOwner
<1>3. Stages'
  <2>1. handler'[h].stale \subseteq Keeps(h) /\ Keeps(h) \subseteq 1..drawn
    BY DEF Keeps, Ownership, Stages
  <2> QED BY <2>1 DEF Stages, Ownership
<1>4. OneOwner'
  BY <1>1 DEF OneOwner, Ownership
<1>5. HeldByOne'
  <2>1. open \subseteq Ids
    BY UploadsAssumption DEF Shapes, Ids
  <2>2. \A i \in Ids \ {id} : upload'[i] = upload[i]
    OBVIOUS
  <2>3. \A g \in Handlers, i \in Ids : Holds(g, i)' <=> Holds(g, i)
    OBVIOUS
  <2>4. \A g \in Handlers, i \in Ids : Holds(g, i) => i \in open \cap spool /\ upload[i].busy
    BY DEF Ownership, HeldByOne
  <2> HIDE DEF Holds
  <2> QED BY <1>2, <2>1, <2>2, <2>3, <2>4, HeldKept DEF Ownership
<1>6. Spooled'
  BY <1>1, <1>2 DEF Spooled, Ownership
<1>7. Exact'
  BY <1>1 DEF Exact, Ownership
<1> QED BY <1>3, <1>4, <1>5, <1>6, <1>7 DEF Ownership

-----------------------------------------------------------------------------
LEMMA OwnershipStep ==
    ASSUME Shapes, Ownership, Shapes', [Next]_vars
    PROVE  Ownership'
<1> USE UploadsAssumption
<1>1. \A h \in Handlers : handler[h].at # "idle" => serving
  BY DEF Ownership, Stages, NoHandler
<1>2. \A h \in Handlers, at \in {"idle", "unlinking"} \cup Opening \cup Holding :
        Goto(h, at) => Alone(h) /\ handler'[h] = [handler[h] EXCEPT !.at = at]
  BY DEF Goto, Alone, Shapes
<1>3. \A h \in Handlers : Answer(h) => Alone(h) /\ handler'[h] = NoHandler
  BY DEF Answer, Alone, Shapes
<1>4. NoHandler.at = "idle" /\ NoHandler.stale = {}
  BY DEF NoHandler
<1>5. \A h \in Handlers : handler[h] \in Handler /\ handler'[h] \in Handler
  BY DEF Shapes
<1>6. ASSUME NEW h \in Handlers, NEW c \in Callers, serving, Sweep(h, c) PROVE Ownership'
  <2> USE DEF Keeps, Holds
  <2>1. /\ handler'[h] = [NoHandler EXCEPT !.at = "sweeping", !.by = c, !.stale = Expired]
        /\ \A g \in Handlers \ {h} : handler'[g] = handler[g]
    BY <1>6 DEF Sweep, Shapes
  <2>2. handler'[h].at = "sweeping" /\ handler'[h].stale = Expired
    BY <2>1 DEF NoHandler
  <2>3. handler[h].at = "idle" /\ handler[h].stale = {}
    BY <1>6 DEF Sweep, Ownership, Stages
  <2>4. Keeps(h) = {} /\ Keeps(h)' = Expired /\ \A g \in Handlers \ {h} : Keeps(g)' = Keeps(g)
    BY <2>1, <2>2, <2>3
  <2>10. Expired \subseteq open /\ open' = open \ Expired /\ \A id \in Expired : ~upload[id].busy
    BY <1>6 DEF Sweep, Expired
  <2>11. UNCHANGED <<serving, drawn, upload, spool>>
    BY <1>6 DEF Sweep
  <2>5. Stages'
    <3>1. \A g \in Handlers \ {h} : handler'[g].at = handler[g].at
      BY <2>1
    <3> QED BY <1>6, <2>1, <2>2, <2>10, <2>11 DEF Stages, Ownership, Shapes, Holding
  <2>6. OneOwner'
    <3> HIDE DEF Keeps
    <3>1. \A g \in Handlers \ {h} : Keeps(g) \cap open = {}
      BY DEF Ownership, OneOwner
    <3> QED BY <2>4, <2>10, <3>1, OneOwnerKept DEF Ownership
  <2>7. HeldByOne'
    <3>1. \A g \in Handlers, i \in Ids : Holds(g, i)' <=> Holds(g, i)
      BY <2>1, <2>2, <2>3 DEF Holding
    <3>2. \A g \in Handlers, i \in Ids : Holds(g, i) => i \in open \cap spool /\ upload[i].busy
      BY DEF Ownership, HeldByOne
    <3>3. open' \subseteq Ids
      BY <2>10 DEF Shapes, Ids
    <3> HIDE DEF Holds
    <3> QED BY <2>10, <2>11, <3>1, <3>2, <3>3, HeldKept DEF Ownership
  <2>8. Spooled'
    BY <2>4, <2>10, <2>11 DEF Spooled, Ownership
  <2>9. Exact'
    BY <2>4, <2>10, <2>11 DEF Exact, Ownership
  <2> QED BY <2>5, <2>6, <2>7, <2>8, <2>9 DEF Ownership
<1>7. ASSUME NEW h \in Handlers, RemoveSwept(h) PROVE Ownership'
  <2>1. PICK id \in handler[h].stale : Unlink({id}) /\ handler' = [handler EXCEPT ![h].stale = @ \ {id}]
    BY <1>7 DEF RemoveSwept
  <2>2. /\ Alone(h) /\ handler[h].at = "sweeping" /\ handler'[h].at = "sweeping"
        /\ handler'[h].stale = handler[h].stale \ {id}
    BY <1>5, <1>7, <2>1 DEF RemoveSwept, Alone, Shapes, Handler
  <2>3. id \in Keeps(h) /\ Keeps(h)' = Keeps(h) \ {id}
    BY <2>2 DEF Keeps
  <2> QED BY <1>1, <1>7, <2>1, <2>2, <2>3, Removes DEF RemoveSwept, Holding
<1>8. ASSUME NEW h \in Handlers, Count(h) PROVE Ownership'
  <2>1. /\ Alone(h) /\ handler[h].at = "sweeping" /\ handler[h].stale = {}
        /\ handler'[h].at \in {"idle", "creating"} /\ handler'[h].stale = {}
    <3>1. handler[h].at = "sweeping" /\ handler[h].stale = {}
      BY <1>8 DEF Count
    <3>2. CASE Goto(h, "creating")
      <4>1. Alone(h) /\ handler'[h] = [handler[h] EXCEPT !.at = "creating"]
        BY <1>2, <3>2 DEF Opening
      <4> QED BY <1>5, <3>1, <4>1 DEF Handler
    <3>3. CASE Answer(h)
      BY <1>3, <1>4, <3>1, <3>3
    <3> QED BY <1>8, <3>2, <3>3 DEF Count
  <2> QED BY <1>1, <1>8, <2>1, Bystander DEF Count, Keeps, Holding
<1>9. ASSUME NEW h \in Handlers, CreateFile(h) PROVE Ownership'
  <2> USE DEF Keeps, Holds
  <2>1. /\ handler'[h].at = "naming" /\ handler'[h].id = drawn + 1
        /\ handler'[h].stale = handler[h].stale /\ handler[h].at = "creating"
        /\ \A g \in Handlers \ {h} : handler'[g] = handler[g]
    BY <1>5, <1>9 DEF CreateFile, Shapes, Handler
  <2>2. /\ Keeps(h) = {} /\ Keeps(h)' = {drawn + 1}
        /\ \A g \in Handlers \ {h} : Keeps(g)' = Keeps(g)
    BY <2>1 DEF Ownership, Stages
  <2>3. /\ drawn \in Nat /\ drawn' = drawn + 1 /\ spool' = spool \cup {drawn + 1}
        /\ UNCHANGED <<serving, open, upload>> /\ serving
    BY <1>1, <1>9, <2>1 DEF CreateFile, Shapes
  <2>4. drawn + 1 \notin open /\ \A g \in Handlers \ {h} : drawn + 1 \notin Keeps(g)
    BY <2>3 DEF Shapes, Ownership, Stages
  <2>5. Stages'
    BY <2>1, <2>3 DEF Stages, Ownership, Holding
  <2>6. OneOwner'
    <3> HIDE DEF Keeps
    <3>1. \A g \in Handlers \ {h} : Keeps(g) \cap open = {}
      BY DEF Ownership, OneOwner
    <3> QED BY <2>2, <2>3, <2>4, <3>1, OneOwnerKept DEF Ownership
  <2>7. HeldByOne'
    BY <2>1, <2>3 DEF HeldByOne, Ownership, Holding
  <2>8. Spooled'
    BY <2>2, <2>3 DEF Spooled, Ownership
  <2>9. Exact'
    BY <2>2, <2>3 DEF Exact, Ownership
  <2> QED BY <2>5, <2>6, <2>7, <2>8, <2>9 DEF Ownership
<1>10. ASSUME NEW h \in Handlers, CannotCreate(h) PROVE Ownership'
  <2>1. /\ Alone(h) /\ handler[h].at = "creating" /\ handler[h].stale = {}
        /\ handler'[h].at = "idle" /\ handler'[h].stale = {}
    BY <1>3, <1>4, <1>10 DEF CannotCreate, Ownership, Stages
  <2> QED BY <1>1, <1>10, <2>1, Bystander DEF CannotCreate, Keeps, Holding
<1>11. ASSUME NEW h \in Handlers, NEW at \in {"naming", "unlinking"}, handler[h].at = at,
              Unlink({handler[h].id}), Answer(h), UNCHANGED <<serving, drawn, open>>
       PROVE  Ownership'
  <2>1. Alone(h) /\ handler'[h].at = "idle" /\ handler'[h].stale = {}
    BY <1>3, <1>4, <1>11
  <2>2. handler[h].id \in Keeps(h) /\ Keeps(h)' = Keeps(h) \ {handler[h].id}
    BY <1>11, <2>1 DEF Keeps
  <2> QED BY <1>1, <1>11, <2>1, <2>2, Removes DEF Holding
<1>12. ASSUME NEW h \in Handlers, Register(h) PROVE Ownership'
  <2> USE DEF Keeps, Holds
  <2> DEFINE id == handler[h].id
  <2>1. /\ handler'[h].at = "idle" /\ handler'[h].stale = {} /\ handler[h].at = "naming"
        /\ \A g \in Handlers \ {h} : handler'[g] = handler[g]
        /\ handler'[h] = NoHandler
    BY <1>3, <1>4, <1>12 DEF Register, Alone
  <2>2. /\ Keeps(h) = {id} /\ Keeps(h)' = {}
        /\ \A g \in Handlers \ {h} : Keeps(g)' = Keeps(g)
    BY <2>1
  <2>3. /\ id \in 1..drawn /\ id \in Ids /\ id \in spool /\ id \notin open
        /\ \A g \in Handlers \ {h} : id \notin Keeps(g)
    BY <2>1, <2>2 DEF Ownership, Stages, OneOwner, Spooled, Shapes, Ids
  <2>4. /\ open' = open \cup {id} /\ ~upload'[id].busy
        /\ \A i \in Ids \ {id} : upload'[i] = upload[i]
        /\ UNCHANGED <<serving, drawn, spool>> /\ serving
    BY <1>1, <1>12, <2>1, <2>3 DEF Register, Shapes, NoUpload
  <2>5. Stages'
    BY <2>1, <2>4 DEF Stages, Ownership, Holding
  <2>6. OneOwner'
    <3> HIDE DEF Keeps
    <3>1. \A g \in Handlers \ {h} : Keeps(g) \cap open = {}
      BY DEF Ownership, OneOwner
    <3> QED BY <2>2, <2>3, <2>4, <3>1, OneOwnerKept DEF Ownership
  <2>7. HeldByOne'
    <3>1. \A g \in Handlers, i \in Ids : Holds(g, i)' <=> Holds(g, i)
      BY <2>1 DEF Holding
    <3>2. \A g \in Handlers, i \in Ids : Holds(g, i) => i \in open \cap spool /\ upload[i].busy
      BY DEF Ownership, HeldByOne
    <3>3. open \subseteq Ids
      BY DEF Shapes, Ids
    <3> HIDE DEF Holds
    <3> QED BY <2>3, <2>4, <3>1, <3>2, <3>3, HeldKept DEF Ownership
  <2>8. Spooled'
    <3> HIDE DEF Keeps
    <3>1. open \subseteq spool /\ \A g \in Handlers : Keeps(g) \subseteq spool
      BY DEF Spooled, Ownership
    <3> QED BY <2>2, <2>3, <2>4, <3>1 DEF Spooled
  <2>9. Exact'
    BY <2>2, <2>4 DEF Exact, Ownership
  <2> QED BY <2>5, <2>6, <2>7, <2>8, <2>9 DEF Ownership
<1>13. ASSUME NEW h \in Handlers, NEW c \in Callers, NEW id \in Ids,
              NEW at \in Holding, NEW from \in 0..Length, serving, Take(h, c, id, at, from)
       PROVE  Ownership'
  <2> USE DEF Keeps, Holds
  <2>1. /\ handler'[h].at = at /\ handler'[h].id = id /\ handler'[h].stale = {}
        /\ \A g \in Handlers \ {h} : handler'[g] = handler[g]
        /\ handler[h].at = "idle" /\ handler[h].stale = {}
    BY <1>13 DEF Take, Shapes, NoHandler, Ownership, Stages
  <2>2. /\ id \in open /\ ~upload[id].busy /\ upload'[id].busy
        /\ \A i \in Ids \ {id} : upload'[i] = upload[i]
        /\ UNCHANGED <<serving, drawn, open, spool>>
    BY <1>13 DEF Take, FreeFor, OpenBy, Shapes, Loose
  <2>3. at \notin {"naming", "unlinking", "sweeping", "idle"}
    BY DEF Holding
  <2>4. Keeps(h) = {} /\ Keeps(h)' = {} /\ \A g \in Handlers \ {h} : Keeps(g)' = Keeps(g)
    BY <2>1, <2>3
  <2>5. Stages'
    <3>1. id \in 1..drawn
      BY <2>2 DEF Shapes
    <3> QED BY <1>13, <2>1, <2>2, <2>3, <3>1 DEF Stages, Ownership
  <2>6. OneOwner'
    <3> HIDE DEF Keeps
    <3> QED BY <2>2, <2>4, OneOwnerKept DEF Ownership, OneOwner
  <2>7. HeldByOne'
    <3>1. \A g \in Handlers : ~Holds(g, id)
      BY <2>2 DEF Ownership, HeldByOne
    <3>2. \A g \in Handlers, i \in Ids : Holds(g, i)' <=> Holds(g, i) \/ (g = h /\ i = id)
      BY <2>1, <2>3 DEF Holding
    <3>3. id \in spool /\ open \subseteq Ids
      BY <2>2 DEF Ownership, Spooled, Shapes, Ids
    <3> HIDE DEF Holds
    <3> QED BY <2>2, <3>1, <3>2, <3>3 DEF Ownership, HeldByOne
  <2>8. Spooled'
    <3> HIDE DEF Keeps
    <3> QED BY <2>2, <2>4 DEF Spooled, Ownership
  <2>9. Exact'
    BY <2>2, <2>4 DEF Exact, Ownership
  <2> QED BY <2>5, <2>6, <2>7, <2>8, <2>9 DEF Ownership
<1>14. ASSUME NEW h \in Handlers, handler[h].at \in Holding
       PROVE  serving /\ upload[handler[h].id] \in Loose
  BY <1>1, <1>14 DEF Ownership, Stages, Shapes, Ids, Holding
<1>15. CASE \E h \in Handlers : RefusePart(h) \/ RefuseFinish(h)
  BY <1>14, <1>15, LetsGo DEF RefusePart, RefuseFinish, Holding, Loose
<1>16. ASSUME NEW h \in Handlers, NEW len \in 1..Length + 1, AcceptPart(h, len) PROVE Ownership'
  <2>1. /\ handler'[h] = [handler[h] EXCEPT !.at = "copying", !.len = len] /\ Alone(h)
        /\ handler[h].at = "held"
    BY <1>5, <1>16 DEF AcceptPart, Alone, Shapes
  <2>2. /\ handler'[h].at = "copying" /\ handler'[h].id = handler[h].id
        /\ handler'[h].stale = handler[h].stale
    BY <1>5, <2>1 DEF Handler
  <2> QED BY <1>14, <1>16, <2>1, <2>2, GoesOn DEF AcceptPart, Holding
<1>17. ASSUME NEW h \in Handlers, CopyUnit(h) PROVE Ownership'
  <2>1. /\ handler'[h] = [handler[h] EXCEPT !.sent = @ + 1] /\ Alone(h)
        /\ handler[h].at = "copying"
    BY <1>5, <1>17 DEF CopyUnit, Alone, Shapes
  <2>2. /\ handler'[h].at = "copying" /\ handler'[h].id = handler[h].id
        /\ handler'[h].stale = handler[h].stale
    BY <1>5, <2>1 DEF Handler
  <2> QED BY <1>14, <1>17, <2>1, <2>2, GoesOn DEF CopyUnit, Holding
<1>18. ASSUME NEW h \in Handlers, PartLands(h) PROVE Ownership'
  <2>1. [upload[handler[h].id] EXCEPT !.offset = @ + handler[h].sent].busy \in BOOLEAN
    BY <1>14, <1>18 DEF PartLands, Loose, Holding
  <2> QED BY <1>14, <1>18, <2>1, LetsGo DEF PartLands, Holding
<1>19. ASSUME NEW h \in Handlers, NEW cut \in BOOLEAN, PartFails(h, cut) PROVE Ownership'
  BY <1>14, <1>19, LetsGo DEF PartFails, Holding, Loose
<1>20. ASSUME NEW h \in Handlers, Store(h) PROVE Ownership'
  <2>1. /\ handler'[h] = [handler[h] EXCEPT !.at = "storing"] /\ Alone(h)
        /\ handler[h].at = "finishing"
    BY <1>2, <1>20 DEF Store, Holding
  <2>2. /\ handler'[h].at = "storing" /\ handler'[h].id = handler[h].id
        /\ handler'[h].stale = handler[h].stale
    BY <1>5, <2>1 DEF Handler
  <2> QED BY <1>14, <1>20, <2>1, <2>2, GoesOn DEF Store, Holding
<1>21. ASSUME NEW h \in Handlers, Drop(h) PROVE Ownership'
  <2> USE DEF Keeps, Holds
  <2> DEFINE id == handler[h].id
  <2>1. /\ handler'[h] = [handler[h] EXCEPT !.at = "unlinking"] /\ Alone(h)
        /\ handler[h].at = "storing"
    BY <1>2, <1>21 DEF Drop
  <2>2. /\ handler'[h].at = "unlinking" /\ handler'[h].id = id
        /\ handler'[h].stale = {} /\ handler[h].stale = {}
        /\ \A g \in Handlers \ {h} : handler'[g] = handler[g]
    BY <1>5, <2>1 DEF Handler, Alone, Ownership, Stages
  <2>3. /\ id \in open /\ id \in 1..drawn /\ id \in Ids /\ id \in spool
        /\ open' = open \ {id} /\ UNCHANGED <<serving, drawn, upload, spool>> /\ serving
    BY <1>14, <1>21, <2>1 DEF Drop, Holding, Ownership, Stages, Shapes, HeldByOne, Ids
  <2>4. /\ Keeps(h) = {} /\ Keeps(h)' = {id}
        /\ \A g \in Handlers \ {h} : Keeps(g)' = Keeps(g)
    BY <2>1, <2>2
  <2>5. Stages'
    BY <2>2, <2>3 DEF Stages, Ownership, Holding
  <2>6. OneOwner'
    <3> HIDE DEF Keeps
    <3>1. \A g \in Handlers \ {h} : Keeps(g) \cap open = {}
      BY DEF Ownership, OneOwner
    <3> QED BY <2>3, <2>4, <3>1, OneOwnerKept DEF Ownership
  <2>7. HeldByOne'
    <3>1. \A g \in Handlers, i \in Ids : Holds(g, i)' <=> Holds(g, i) /\ g # h
      BY <2>1, <2>2 DEF Holding
    <3>2. Holds(h, id)
      BY <2>1 DEF Holding
    <3>3. \A g \in Handlers, i \in Ids : Holds(g, i) =>
            i \in open \cap spool /\ upload[i].busy /\ (i = id => g = h)
      BY <2>3, <3>2 DEF Ownership, HeldByOne
    <3>4. \A i \in open' : upload[i].busy => \E g \in Handlers \ {h} : Holds(g, i)
      <4>1. \A i \in Ids : Holds(h, i) => i = id
        OBVIOUS
      <4>2. \A i \in open' : i \in open /\ i \in Ids /\ i # id
        BY <2>3 DEF Shapes, Ids
      <4> HIDE DEF Holds
      <4> QED BY <4>1, <4>2 DEF Ownership, HeldByOne
    <3>5. open' \subseteq Ids
      BY <2>3 DEF Shapes, Ids
    <3>6. \A g, k \in Handlers, i \in Ids : Holds(g, i) /\ Holds(k, i) => g = k
      BY DEF Ownership, HeldByOne
    <3> HIDE DEF Holds
    <3> QED BY <2>3, <3>1, <3>3, <3>4, <3>5, <3>6 DEF HeldByOne
  <2>8. Spooled'
    BY <2>3, <2>4 DEF Spooled, Ownership
  <2>9. Exact'
    BY <2>3, <2>4 DEF Exact, Ownership
  <2> QED BY <2>5, <2>6, <2>7, <2>8, <2>9 DEF Ownership
<1>22. ASSUME NEW id \in Ids, GoIdle(id) PROVE Ownership'
  <2>1. /\ \A i \in Ids : upload'[i].busy = upload[i].busy
        /\ UNCHANGED <<serving, drawn, open, spool, handler>>
    BY <1>22 DEF GoIdle, Shapes, Loose
  <2>2. open \subseteq Ids
    BY DEF Shapes, Ids
  <2> QED BY <2>1, <2>2 DEF Ownership, Stages, OneOwner, HeldByOne, Spooled, Exact, Keeps, Holds
<1>23. CASE Stop
  BY <1>4, <1>23 DEF Stop, NoHandler, Ownership, Stages, OneOwner, HeldByOne, Spooled, Exact,
                     Keeps, Holds, Holding
<1>24. CASE Start
  <2>1. open = {} /\ \A h \in Handlers : handler[h] = NoHandler
    BY <1>24 DEF Start, Ownership, Stages
  <2> QED BY <1>4, <1>24, <2>1 DEF Start, NoHandler, Ownership, Stages, OneOwner, HeldByOne,
                                   Spooled, Exact, Keeps, Holds, Holding
<1>25. CASE UNCHANGED vars
  BY <1>25 DEF vars, Ownership, Stages, OneOwner, HeldByOne, Spooled, Exact, Keeps, Holds
<1> QED
  <2>1. "held" \in Holding /\ "finishing" \in Holding /\ 0 \in 0..Length
    BY DEF Holding
  <2> QED BY <1>6, <1>7, <1>8, <1>9, <1>10, <1>11, <1>12, <1>13, <1>15, <1>16, <1>17, <1>18,
             <1>19, <1>20, <1>21, <1>22, <1>23, <1>24, <1>25, <2>1
          DEF Next, NewRequest, Proceed, CannotName, RemoveDropped

-----------------------------------------------------------------------------
LEMMA OwnershipHolds == Spec => [](Shapes /\ Ownership)
<1>1. Init => Shapes /\ Ownership
  BY UploadsAssumption DEF Init, Shapes, Ownership, Stages, OneOwner, HeldByOne, Spooled, Exact,
     Keeps, Holds, Holding, NoHandler, Handler, NoUpload, Loose, Ids
<1> QED BY <1>1, ShapesStep, OwnershipStep, PTL DEF Spec, Ownership

\* What a request holds is its own, in the map and in the spool folder, and
\* an upload is busy only for somebody.
THEOREM HeldIsOwn == Spec => []HeldByOne
BY OwnershipHolds, PTL DEF Ownership

\* No file of an own spool folder is forgotten or has two owners.
THEOREM NoFileForgotten == Spec => []FilesAccounted
<1>1. Shapes /\ Ownership => FilesAccounted
  BY DEF Ownership, Spooled, Exact, FilesAccounted
<1> QED BY <1>1, OwnershipHolds, PTL

-----------------------------------------------------------------------------
(* The second inductive invariant: what the offsets and the bytes are.     *)

\* The first n units of a file are the client's.
Prefix(file, n) == n <= Len(file) /\ \A i \in 1..n : file[i] = i

Fits(file) == file \in Seq(1..Length) /\ Len(file) <= Length

Bytes ==
    /\ \A id \in Ids : Fits(content[id]) /\ upload[id].offset <= Length
    /\ \A id \in open : Prefix(content[id], upload[id].offset)

\* Only the request that holds an upload moves its offset, so what a copy
\* read of it at its start stays true.
Copies == \A h \in Handlers : handler[h].at = "copying" =>
    /\ handler[h].from = Stands(h)
    /\ handler[h].sent <= handler[h].len
    /\ Stands(h) + handler[h].sent <= Length
    /\ Prefix(content[handler[h].id], Stands(h) + handler[h].sent)

Stores == \A h \in Handlers : handler[h].at = "storing" => Stands(h) = Length

Sound == Bytes /\ Copies /\ Stores

\* Writing the next unit of the file.
LEMMA WriteNext ==
    ASSUME NEW file, Fits(file), NEW n \in 1..Length, Prefix(file, n - 1)
    PROVE  Fits(Written(file, n, n)) /\ Prefix(Written(file, n, n), n)
<1> USE UploadsAssumption DEF Fits, Prefix, Written
<1>1. CASE n <= Len(file)
  <2>1. Written(file, n, n) = [file EXCEPT ![n] = n] /\ n \in 1..Len(file)
    BY <1>1
  <2>2. /\ [file EXCEPT ![n] = n] \in Seq(1..Length)
        /\ Len([file EXCEPT ![n] = n]) = Len(file)
        /\ \A i \in 1..Len(file) : [file EXCEPT ![n] = n][i] = IF i = n THEN n ELSE file[i]
    BY <2>1
  <2> HIDE DEF Written
  <2> QED BY <1>1, <2>1, <2>2
<1>2. CASE ~(n <= Len(file))
  <2>1. Written(file, n, n) = Append(file, n) /\ n = Len(file) + 1
    BY <1>2
  <2>2. /\ Append(file, n) \in Seq(1..Length)
        /\ Len(Append(file, n)) = Len(file) + 1
        /\ \A i \in 1..Len(file) + 1 : Append(file, n)[i] = IF i = Len(file) + 1 THEN n ELSE file[i]
    BY <2>1
  <2> HIDE DEF Written
  <2> QED BY <2>1, <2>2
<1> QED BY <1>1, <1>2

\* Cutting a file back to a part of it that is right.
LEMMA CutBack ==
    ASSUME NEW file, Fits(file), NEW n \in Nat, Prefix(file, n)
    PROVE  Fits(SubSeq(file, 1, n)) /\ Prefix(SubSeq(file, 1, n), n)
<1>1. n <= Length /\ Length \in Nat
  BY UploadsAssumption DEF Fits, Prefix
<1>2. /\ SubSeq(file, 1, n) \in Seq(1..Length) /\ Len(SubSeq(file, 1, n)) = n
      /\ \A i \in 1..n : SubSeq(file, 1, n)[i] = file[i]
  <2>1. \A i \in 1..n : file[i] \in 1..Length
    BY <1>1 DEF Prefix
  <2> QED BY <2>1, SubSeqProperties
<1>3. \A part : /\ part \in Seq(1..Length) /\ Len(part) = n
                /\ \A i \in 1..n : part[i] = file[i]
        => Fits(part) /\ Prefix(part, n)
  BY <1>1 DEF Fits, Prefix
<1> QED BY <1>2, <1>3

-----------------------------------------------------------------------------
\* Steps that leave bytes, offsets and the requests that copy or store alone.
LEMMA Untouched ==
    ASSUME Shapes, Stages, Shapes', Sound, open' \subseteq open, UNCHANGED content,
           \A id \in Ids : upload'[id].offset = upload[id].offset,
           \A h \in Handlers : handler'[h].at \in {"copying", "storing"} => handler'[h] = handler[h]
    PROVE  Sound'
<1>1. open \subseteq Ids
  BY UploadsAssumption DEF Shapes, Ids
<1>2. \A h \in Handlers : handler[h].at \in {"copying", "storing"} => handler[h].id \in Ids
  BY UploadsAssumption DEF Stages, Shapes, Holding, Ids
<1>3. Bytes'
  BY <1>1 DEF Sound, Bytes
<1>4. Copies'
  BY <1>2 DEF Sound, Copies, Stands
<1>5. Stores'
  BY <1>2 DEF Sound, Stores, Stands
<1> QED BY <1>3, <1>4, <1>5 DEF Sound

\* Steps of request h that change one file or offset which h alone may touch.
LEMMA TouchesOwn ==
    ASSUME Shapes, Stages, Shapes', Sound, open' \subseteq Ids,
           NEW id \in Ids, NEW h \in Handlers,
           \A i \in Ids \ {id} : /\ content'[i] = content[i]
                                 /\ upload'[i] = upload[i]
                                 /\ i \in open' => i \in open,
           Fits(content'[id]), upload'[id].offset <= Length,
           id \in open' => Prefix(content'[id], upload'[id].offset),
           \A g \in Handlers \ {h} : /\ handler'[g] = handler[g]
                                     /\ ~Holds(g, id),
           handler'[h].at # "storing",
           handler'[h].at = "copying" =>
               /\ handler'[h].id = id
               /\ handler'[h].from = upload'[id].offset
               /\ handler'[h].sent <= handler'[h].len
               /\ upload'[id].offset + handler'[h].sent <= Length
               /\ Prefix(content'[id], upload'[id].offset + handler'[h].sent)
    PROVE  Sound'
<1>1. \A g \in Handlers : handler[g].at \in {"copying", "storing"} => handler[g].id \in Ids
  BY UploadsAssumption DEF Stages, Shapes, Holding, Ids
<1>2. Bytes'
  BY DEF Sound, Bytes
<1>3. ASSUME NEW g \in Handlers \ {h}, handler[g].at \in {"copying", "storing"}
      PROVE  handler[g].id \in Ids \ {id}
  BY <1>1, <1>3 DEF Holds, Holding
<1>4. Copies'
  <2>1. ASSUME NEW g \in Handlers \ {h}, handler'[g].at = "copying"
        PROVE  /\ handler'[g].from = Stands(g)' /\ handler'[g].sent <= handler'[g].len
               /\ Stands(g)' + handler'[g].sent <= Length
               /\ Prefix(content'[handler'[g].id], Stands(g)' + handler'[g].sent)
    BY <1>3, <2>1 DEF Sound, Copies, Stands
  <2> QED BY <2>1 DEF Copies, Stands
<1>5. Stores'
  <2>1. ASSUME NEW g \in Handlers \ {h}, handler'[g].at = "storing" PROVE Stands(g)' = Length
    BY <1>3, <2>1 DEF Sound, Stores, Stands
  <2> QED BY <2>1 DEF Stores
<1> QED BY <1>2, <1>4, <1>5 DEF Sound

\* A request that holds an upload has copied nothing before its part is accepted.
Fresh == \A h \in Handlers : handler[h].at = "held" => handler[h].sent = 0

LEMMA FreshStep ==
    ASSUME Shapes, Fresh, [Next]_vars
    PROVE  Fresh'
<1> USE DEF Fresh
<1>1. handler \in [Handlers -> Handler]
  BY DEF Shapes
<1>2. NoHandler.at = "idle" /\ NoHandler.sent = 0
  BY DEF NoHandler
<1>3. ASSUME NEW h \in Handlers, NEW to, handler' = [handler EXCEPT ![h] = to],
             to.at = "held" => to.sent = 0
      PROVE  Fresh'
  BY <1>1, <1>3
<1>4. \A h \in Handlers, at \in {"creating", "storing", "unlinking"} : Answer(h) \/ Goto(h, at) => Fresh'
  <2>1. \A h \in Handlers, at \in {"creating", "storing", "unlinking"} :
          [handler[h] EXCEPT !.at = at].at = at
    BY <1>1 DEF Handler
  <2> QED BY <1>2, <1>3, <2>1 DEF Answer, Goto
<1>5. ASSUME NEW h \in Handlers, NEW c \in Callers, Sweep(h, c) PROVE Fresh'
  BY <1>1, <1>2, <1>5 DEF Sweep, NoHandler
<1>6. ASSUME NEW h \in Handlers, NEW c \in Callers, NEW id \in Ids, NEW at, NEW from, Take(h, c, id, at, from)
      PROVE  Fresh'
  BY <1>1, <1>6 DEF Take, NoHandler
<1>7. ASSUME NEW h \in Handlers, RemoveSwept(h) PROVE Fresh'
  BY <1>1, <1>7 DEF RemoveSwept, Handler
<1>8. ASSUME NEW h \in Handlers,
             CreateFile(h) \/ CopyUnit(h) \/ \E len \in 1..Length + 1 : AcceptPart(h, len)
      PROVE  Fresh'
  BY <1>1, <1>8 DEF CreateFile, CopyUnit, AcceptPart, Handler
<1>9. ASSUME NEW h \in Handlers,
             \/ Count(h) \/ CannotCreate(h) \/ CannotName(h) \/ Register(h) \/ RefusePart(h)
             \/ PartLands(h) \/ (\E cut \in BOOLEAN : PartFails(h, cut))
             \/ RefuseFinish(h) \/ Store(h) \/ Drop(h) \/ RemoveDropped(h)
      PROVE  Fresh'
  BY <1>4, <1>9 DEF Count, CannotCreate, CannotName, Register, RefusePart, PartLands, PartFails,
                    RefuseFinish, Store, Drop, RemoveDropped, GiveBack
<1>10. CASE UNCHANGED handler
  BY <1>10
<1>11. CASE Stop
  BY <1>2, <1>11 DEF Stop
<1> QED
  BY <1>5, <1>6, <1>7, <1>8, <1>9, <1>10, <1>11
     DEF Next, NewRequest, Proceed, GoIdle, Start, vars

-----------------------------------------------------------------------------
LEMMA SoundStep ==
    ASSUME Shapes, Ownership, Fresh, Sound, Shapes', Ownership', [Next]_vars
    PROVE  Sound'
<1> USE UploadsAssumption
<1>1. Stages /\ OneOwner /\ HeldByOne /\ open \subseteq Ids /\ open' \subseteq Ids
  BY DEF Ownership, Shapes, Ids
<1>2. \A h \in Handlers : handler[h] \in Handler /\ handler \in [Handlers -> Handler]
  BY DEF Shapes
<1>3. NoHandler.at = "idle"
  BY DEF NoHandler
\* Removing a file out of the map's reach, which nobody holds.
<1>4. ASSUME NEW h \in Handlers, NEW id \in Ids, id \notin open, open' = open, Unlink({id}),
             \A g \in Handlers \ {h} : handler'[g] = handler[g],
             handler'[h].at \notin {"copying", "storing"}
      PROVE  Sound'
  <2>1. /\ \A i \in Ids \ {id} : content'[i] = content[i] /\ upload'[i] = upload[i]
        /\ content'[id] = <<>> /\ upload'[id].offset = 0
    BY <1>4 DEF Unlink, NoUpload
  <2>2. Fits(<<>>)
    BY DEF Fits
  <2>3. \A g \in Handlers : ~Holds(g, id)
    BY <1>1, <1>4 DEF HeldByOne
  <2> QED BY <1>1, <1>4, <2>1, <2>2, <2>3, TouchesOwn
<1>5. \A h \in Handlers : Answer(h) \/ Goto(h, "creating") \/ Goto(h, "unlinking") =>
        /\ \A g \in Handlers \ {h} : handler'[g] = handler[g]
        /\ handler'[h].at \notin {"copying", "storing"}
  BY <1>2, <1>3 DEF Answer, Goto, Handler
<1>6. ASSUME NEW h \in Handlers, NEW c \in Callers, Sweep(h, c) PROVE Sound'
  BY <1>1, <1>2, <1>6, Untouched DEF Sweep, NoHandler
<1>7. ASSUME NEW h \in Handlers, RemoveSwept(h) PROVE Sound'
  <2>1. PICK id \in handler[h].stale : Unlink({id}) /\ handler' = [handler EXCEPT ![h].stale = @ \ {id}]
    BY <1>7 DEF RemoveSwept
  <2>2. id \in Ids /\ id \notin open
    BY <1>1, <1>2, <1>7 DEF RemoveSwept, Handler, OneOwner, Keeps
  <2>3. handler'[h].at \notin {"copying", "storing"} /\ \A g \in Handlers \ {h} : handler'[g] = handler[g]
    BY <1>2, <1>7, <2>1 DEF RemoveSwept, Handler
  <2> QED BY <1>4, <1>7, <2>1, <2>2, <2>3 DEF RemoveSwept
<1>8. ASSUME NEW h \in Handlers, Count(h) PROVE Sound'
  BY <1>1, <1>5, <1>8, Untouched DEF Count
<1>9. ASSUME NEW h \in Handlers, CreateFile(h) PROVE Sound'
  <2>1. handler'[h].at = "naming" /\ \A g \in Handlers \ {h} : handler'[g] = handler[g]
    BY <1>2, <1>9 DEF CreateFile, Handler
  <2> QED BY <1>1, <1>9, <2>1, Untouched DEF CreateFile
<1>10. ASSUME NEW h \in Handlers, CannotCreate(h) PROVE Sound'
  BY <1>1, <1>5, <1>10, Untouched DEF CannotCreate
<1>11. ASSUME NEW h \in Handlers, CannotName(h) \/ RemoveDropped(h) PROVE Sound'
  <2>1. handler[h].id \in Ids /\ handler[h].id \notin open
    BY <1>1, <1>11 DEF CannotName, RemoveDropped, Stages, Shapes, Ids, OneOwner, Keeps
  <2> QED BY <1>4, <1>5, <1>11, <2>1 DEF CannotName, RemoveDropped
<1>12. ASSUME NEW h \in Handlers, Register(h) PROVE Sound'
  <2> DEFINE id == handler[h].id
  <2>1. id \in Ids /\ id \notin open
    BY <1>1, <1>12 DEF Register, Stages, Shapes, Ids, OneOwner, Keeps
  <2>2. \A g \in Handlers : ~Holds(g, id)
    BY <1>1, <2>1 DEF HeldByOne
  <2>3. upload'[id].offset = 0 /\ \A i \in Ids \ {id} : upload'[i] = upload[i]
    BY <1>12, <2>1 DEF Register, Shapes, NoUpload
  <2>4. Fits(content[id]) /\ Prefix(content[id], 0)
    BY <2>1 DEF Sound, Bytes, Fits, Prefix
  <2> HIDE DEF id
  <2>5. \A i \in Ids \ {id} : i \in open' => i \in open
    BY <1>12 DEF Register, id
  <2> QED BY <1>1, <1>5, <1>12, <2>1, <2>2, <2>3, <2>4, <2>5, TouchesOwn DEF Register
<1>13. ASSUME NEW h \in Handlers, NEW c \in Callers, NEW id \in Ids,
              NEW at \in {"held", "finishing"}, NEW from \in 0..Length, Take(h, c, id, at, from)
       PROVE  Sound'
  <2>1. handler'[h].at = at /\ \A g \in Handlers \ {h} : handler'[g] = handler[g]
    BY <1>2, <1>13 DEF Take, NoHandler
  <2>2. \A i \in Ids : upload'[i].offset = upload[i].offset
    BY <1>13 DEF Take, Shapes, Loose
  <2> QED BY <1>1, <1>13, <2>1, <2>2, Untouched DEF Take
<1>14. ASSUME NEW h \in Handlers, handler[h].at \in Holding
       PROVE  /\ handler[h].id \in open /\ handler[h].id \in Ids
              /\ upload[handler[h].id] \in Loose
              /\ \A g \in Handlers \ {h} : ~Holds(g, handler[h].id)
  BY <1>1, <1>14 DEF HeldByOne, Holds, Shapes, Stages, Ids
<1>15. ASSUME NEW h \in Handlers, RefusePart(h) \/ RefuseFinish(h) PROVE Sound'
  <2> DEFINE id == handler[h].id
  <2>1. \A i \in Ids : upload'[i].offset = upload[i].offset
    <3>1. id \in Ids /\ upload[id] \in Loose
      BY <1>14, <1>15 DEF RefusePart, RefuseFinish, Holding
    <3>2. upload' = [upload EXCEPT ![id] = Released(upload[id])]
      BY <1>15 DEF RefusePart, RefuseFinish, GiveBack
    <3> HIDE DEF id
    <3> QED BY <3>1, <3>2 DEF Released, Shapes, Loose
  <2> QED BY <1>1, <1>5, <1>15, <2>1, Untouched DEF RefusePart, RefuseFinish, GiveBack
<1>16. ASSUME NEW h \in Handlers, NEW len \in 1..Length + 1, AcceptPart(h, len) PROVE Sound'
  <2> DEFINE id == handler[h].id
  <2>1. /\ id \in open /\ id \in Ids /\ upload[id] \in Loose
        /\ \A g \in Handlers \ {h} : ~Holds(g, id)
    BY <1>14, <1>16 DEF AcceptPart, Holding
  <2>2. UNCHANGED <<serving, drawn, open, upload, spool, content>>
    BY <1>16 DEF AcceptPart
  <2>3. handler'[h] = [handler[h] EXCEPT !.at = "copying", !.len = len] /\ \A g \in Handlers \ {h} : handler'[g] = handler[g]
    BY <1>2, <1>16 DEF AcceptPart
  <2>4. /\ handler'[h].id = id /\ handler'[h].from = upload[id].offset /\ handler'[h].at = "copying"
        /\ handler'[h].sent = 0 /\ handler'[h].len \in Nat
    BY <1>2, <1>16, <2>3 DEF AcceptPart, OffsetAgrees, Stands, Fresh, Handler
  <2>5. /\ Fits(content[id]) /\ upload[id].offset <= Length /\ upload[id].offset \in Nat
        /\ Prefix(content[id], upload[id].offset)
    BY <2>1 DEF Sound, Bytes, Loose
  <2> HIDE DEF id
  <2>6. /\ upload[id].offset + handler'[h].sent = upload[id].offset
        /\ handler'[h].sent <= handler'[h].len
    BY <2>4, <2>5
  <2>7. \A g \in Handlers \ {h} : handler'[g] = handler[g] /\ ~Holds(g, id)
    BY <2>1, <2>3
  <2> QED BY <1>1, <2>1, <2>2, <2>4, <2>5, <2>6, <2>7, TouchesOwn
<1>17. ASSUME NEW h \in Handlers, CopyUnit(h) PROVE Sound'
  <2> DEFINE id == handler[h].id
             n == upload[id].offset + handler[h].sent + 1
  <2>1. /\ id \in open /\ id \in Ids /\ upload[id] \in Loose
        /\ \A g \in Handlers \ {h} : ~Holds(g, id)
    BY <1>14, <1>17 DEF CopyUnit, Holding
  <2>2. /\ handler[h].from = upload[id].offset /\ handler[h].sent \in Nat /\ handler[h].len \in Nat
        /\ Prefix(content[id], n - 1) /\ n \in 1..Length /\ handler[h].sent < handler[h].len
    BY <1>2, <1>17, <2>1 DEF CopyUnit, Sound, Copies, Stands, Handler, Loose
  <2>3. /\ Fits(content[id]) /\ upload[id].offset <= Length /\ upload[id].offset \in Nat
        /\ Prefix(content[id], upload[id].offset)
    BY <2>1 DEF Sound, Bytes, Loose
  <2>4. /\ handler'[h].id = id /\ handler'[h].from = upload[id].offset /\ handler'[h].at = "copying"
        /\ handler'[h].sent = handler[h].sent + 1 /\ handler'[h].len = handler[h].len
        /\ \A g \in Handlers \ {h} : handler'[g] = handler[g]
    BY <1>2, <1>17, <2>2 DEF CopyUnit, Handler
  <2>5. /\ content'[id] = Written(content[id], n, n)
        /\ \A i \in Ids \ {id} : content'[i] = content[i]
        /\ UNCHANGED <<open, upload>>
    <3>1. content' = [content EXCEPT ![id] = Written(content[id], n, n)]
      BY <1>17, <2>2 DEF CopyUnit, Stands
    <3>2. content = [i \in Ids |-> content[i]]
      BY DEF Shapes
    <3> HIDE DEF id, n
    <3> QED BY <1>17, <2>1, <3>1, <3>2 DEF CopyUnit
  <2>6. Fits(content'[id]) /\ Prefix(content'[id], n)
    <3> HIDE DEF id, n
    <3> QED BY <2>2, <2>3, <2>5, WriteNext
  <2>7. Prefix(content'[id], upload[id].offset)
    <3>1. upload[id].offset \in 0..n
      BY <2>2, <2>3
    <3> HIDE DEF id, n
    <3> QED BY <2>2, <2>6, <3>1 DEF Prefix, Fits
  <2>8. upload[id].offset + (handler[h].sent + 1) = n /\ n <= Length
    BY <2>2, <2>3
  <2> HIDE DEF id, n
  <2> QED BY <1>1, <2>1, <2>2, <2>3, <2>4, <2>5, <2>6, <2>7, <2>8, TouchesOwn
\* A request gives back its upload with the offset and the bytes it left.
<1>18. ASSUME NEW h \in Handlers, handler[h].at = "copying", NEW up \in Loose, GiveBack(h, up),
              up.offset <= Length, Fits(content'[handler[h].id]),
              Prefix(content'[handler[h].id], up.offset),
              \A i \in Ids \ {handler[h].id} : content'[i] = content[i]
       PROVE  Sound'
  <2> DEFINE id == handler[h].id
  <2>1. /\ id \in open /\ id \in Ids /\ \A g \in Handlers \ {h} : ~Holds(g, id)
    BY <1>14, <1>18 DEF Holding
  <2>2. /\ upload'[id].offset = up.offset /\ open' = open
        /\ \A i \in Ids \ {id} : upload'[i] = upload[i]
    BY <1>18, <2>1 DEF GiveBack, Released, Shapes, Loose
  <2>3. handler'[h].at = "idle" /\ \A g \in Handlers \ {h} : handler'[g] = handler[g]
    BY <1>2, <1>3, <1>18 DEF GiveBack, Answer
  <2> HIDE DEF id
  <2> QED BY <1>1, <1>18, <2>1, <2>2, <2>3, TouchesOwn DEF id
<1>19. ASSUME NEW h \in Handlers, handler[h].at = "copying"
       PROVE  LET id == handler[h].id IN
              /\ upload[id] \in Loose /\ Fits(content[id]) /\ upload[id].offset <= Length
              /\ Prefix(content[id], upload[id].offset) /\ handler[h].sent \in Nat
              /\ Prefix(content[id], upload[id].offset + handler[h].sent)
              /\ upload[id].offset + handler[h].sent <= Length
  BY <1>2, <1>14, <1>19 DEF Holding, Sound, Bytes, Copies, Stands, Handler
<1>20. ASSUME NEW h \in Handlers, PartLands(h) PROVE Sound'
  <2> DEFINE up == [upload[handler[h].id] EXCEPT !.offset = @ + handler[h].sent]
  <2>1. up \in Loose /\ up.offset = upload[handler[h].id].offset + handler[h].sent
    BY <1>19, <1>20 DEF PartLands, Loose
  <2>2. GiveBack(h, up) /\ UNCHANGED content /\ handler[h].at = "copying"
    BY <1>20 DEF PartLands
  <2> HIDE DEF up
  <2> QED BY <1>18, <1>19, <2>1, <2>2
<1>21. ASSUME NEW h \in Handlers, NEW cut \in BOOLEAN, PartFails(h, cut) PROVE Sound'
  <2> DEFINE id == handler[h].id
             off == upload[id].offset
  <2>1. /\ upload[id] \in Loose /\ Fits(content[id]) /\ off <= Length /\ off \in Nat
        /\ Prefix(content[id], off) /\ id \in Ids
    BY <1>14, <1>19, <1>21 DEF PartFails, Loose, Holding
  <2>2. /\ content'[id] \in {content[id], SubSeq(content[id], 1, off)}
        /\ \A i \in Ids \ {id} : content'[i] = content[i]
        /\ GiveBack(h, upload[id]) /\ handler[h].at = "copying"
    BY <1>21, <2>1 DEF PartFails, Stands, Shapes
  <2>3. Fits(content'[id]) /\ Prefix(content'[id], off)
    <3> HIDE DEF id, off
    <3> QED BY <2>1, <2>2, CutBack
  <2> QED BY <1>18, <2>1, <2>2, <2>3
<1>22. ASSUME NEW h \in Handlers, Store(h) PROVE Sound'
  <2>1. /\ handler'[h].at = "storing" /\ handler'[h].id = handler[h].id
        /\ \A g \in Handlers \ {h} : handler'[g] = handler[g]
        /\ Stands(h) = Length
        /\ UNCHANGED <<open, upload, content>>
    BY <1>2, <1>22 DEF Store, Goto, Handler
  <2>2. Bytes'
    BY <2>1 DEF Sound, Bytes
  <2>3. Copies'
    BY <2>1 DEF Sound, Copies, Stands
  <2>4. Stores'
    BY <2>1 DEF Sound, Stores, Stands
  <2> QED BY <2>2, <2>3, <2>4 DEF Sound
<1>23. ASSUME NEW h \in Handlers, Drop(h) PROVE Sound'
  BY <1>1, <1>5, <1>23, Untouched DEF Drop
<1>24. ASSUME NEW id \in Ids, GoIdle(id) PROVE Sound'
  <2>1. \A i \in Ids : upload'[i].offset = upload[i].offset
    BY <1>24 DEF GoIdle, Shapes, Loose
  <2> QED BY <1>1, <1>24, <2>1, Untouched DEF GoIdle
<1>25. CASE Stop
  BY <1>3, <1>25 DEF Stop, NoUpload, Sound, Bytes, Copies, Stores
<1>26. CASE Start
  <2>1. open = {} /\ \A h \in Handlers : handler'[h].at = "idle"
    BY <1>1, <1>3, <1>26 DEF Start, Stages
  <2>2. Fits(<<>>)
    BY DEF Fits
  <2>3. \A id \in Ids : content'[id] \in {<<>>, content[id]}
    BY <1>26 DEF Start
  <2> QED BY <1>26, <2>1, <2>2, <2>3 DEF Start, Sound, Bytes, Copies, Stores
<1>27. CASE UNCHANGED vars
  BY <1>27 DEF vars, Sound, Bytes, Copies, Stores, Stands
<1> QED
  <2>1. 0 \in 0..Length
    OBVIOUS
  <2> QED BY <1>6, <1>7, <1>8, <1>9, <1>10, <1>11, <1>12, <1>13, <1>15, <1>16, <1>17, <1>20,
             <1>21, <1>22, <1>23, <1>24, <1>25, <1>26, <1>27, <2>1
          DEF Next, NewRequest, Proceed

-----------------------------------------------------------------------------
LEMMA SoundHolds == Spec => [](Shapes /\ Ownership /\ Fresh /\ Sound)
<1>1. Init => Fresh /\ Sound
  BY UploadsAssumption DEF Init, Fresh, Sound, Bytes, Copies, Stores, Fits, NoHandler, NoUpload
<1> QED BY <1>1, OwnershipHolds, FreshStep, SoundStep, PTL DEF Spec

\* Every variable keeps its type: no offset or file grows past Upload-Length.
THEOREM TypeCorrect == Spec => []TypeOK
<1>1. Shapes /\ Sound => TypeOK
  <2> HAVE Shapes /\ Sound
  <2>1. upload \in [Ids -> Upload]
    <3>1. \A id \in Ids : upload[id] \in Upload
      BY UploadsAssumption DEF Shapes, Sound, Bytes, Loose, Upload
    <3> QED BY <3>1 DEF Shapes
  <2>2. content \in [Ids -> Seq(1..Length)]
    BY DEF Shapes, Sound, Bytes, Fits
  <2> QED BY <2>1, <2>2, UploadsAssumption DEF Shapes, TypeOK, Ids
<1> QED BY <1>1, SoundHolds, PTL

\* What finish hands to Put is the client's file, unit for unit.
THEOREM Assembled == Spec => []AssembledWhole
<1>1. Shapes /\ Ownership /\ Sound => AssembledWhole
  <2> SUFFICES ASSUME Shapes, Ownership, Sound, NEW h \in Handlers, handler[h].at = "storing"
               PROVE  content[handler[h].id] = [n \in 1..Length |-> n]
    BY DEF AssembledWhole
  <2>1. handler[h].id \in open /\ handler[h].id \in Ids
    <3>1. handler[h].id \in Ids /\ handler[h].at \in Holding
      BY UploadsAssumption DEF Ownership, Holding, Stages, Shapes, Ids
    <3> QED BY <3>1 DEF Ownership, HeldByOne, Holds
  <2>2. /\ Fits(content[handler[h].id]) /\ Prefix(content[handler[h].id], Length)
    BY <2>1 DEF Sound, Bytes, Stores, Stands
  <2>3. \A file : Fits(file) /\ Prefix(file, Length) => file = [n \in 1..Length |-> n]
    BY UploadsAssumption DEF Fits, Prefix
  <2> QED BY <2>2, <2>3
<1> QED BY <1>1, SoundHolds, PTL

-----------------------------------------------------------------------------
\* No step takes back what was acknowledged of an upload that stays open.
LEMMA OffsetsRise ==
    ASSUME Shapes, Ownership, Next
    PROVE  \A id \in open \cap open' : upload'[id].offset >= upload[id].offset
<1> DEFINE Rises == \A id \in open \cap open' : upload'[id].offset >= upload[id].offset
<1> USE UploadsAssumption
<1>1. Stages /\ OneOwner /\ HeldByOne /\ open \subseteq Ids
  BY DEF Ownership, Shapes, Ids
<1>2. \A id \in open : upload[id].offset \in Int
  BY <1>1 DEF Shapes, Loose
<1>3. (\A id \in open : upload'[id].offset = upload[id].offset) => Rises
  BY <1>2
<1>4. ASSUME NEW ids, ids \cap open = {}, Unlink(ids) PROVE Rises
  BY <1>1, <1>3, <1>4 DEF Unlink
<1>5. ASSUME NEW h \in Handlers, handler[h].at \in Holding PROVE handler[h].id \in Ids
  BY <1>5 DEF Ownership, Stages, Shapes, Ids
<1>6. ASSUME NEW h \in Handlers, handler[h].at \in Holding, NEW up, GiveBack(h, up),
             up.offset >= upload[handler[h].id].offset
      PROVE  Rises
  <2> DEFINE id == handler[h].id
  <2>1. upload' = [upload EXCEPT ![id] = Released(up)] /\ id \in Ids
    BY <1>5, <1>6 DEF GiveBack
  <2>2. upload'[id] = Released(up) /\ \A i \in Ids \ {id} : upload'[i] = upload[i]
    BY <2>1 DEF Shapes
  <2>3. Released(up).offset = up.offset
    BY DEF Released
  <2> QED BY <1>1, <1>2, <1>6, <2>2, <2>3
<1>7. ASSUME NEW h \in Handlers, RemoveSwept(h) \/ CannotName(h) \/ RemoveDropped(h) PROVE Rises
  <2>1. Keeps(h) \cap open = {}
    BY <1>1 DEF OneOwner
  <2>2. PICK id \in Keeps(h) : Unlink({id})
    BY <1>7 DEF RemoveSwept, CannotName, RemoveDropped, Keeps
  <2> QED BY <1>4, <2>1, <2>2
<1>8. ASSUME NEW h \in Handlers, Register(h) PROVE Rises
  <2>1. handler[h].id \notin open
    BY <1>1, <1>8 DEF OneOwner, Keeps, Register
  <2> QED BY <1>1, <1>3, <1>8, <2>1 DEF Register, Shapes
<1>9. ASSUME NEW h \in Handlers, NEW c, NEW id, NEW at, NEW from, Take(h, c, id, at, from) PROVE Rises
  <2>1. id \in Ids
    BY <1>1, <1>9 DEF Take, FreeFor, OpenBy
  <2> QED BY <1>1, <1>3, <1>9, <2>1 DEF Take, Shapes, Loose
<1>10. ASSUME NEW h \in Handlers,
              RefusePart(h) \/ RefuseFinish(h) \/ \E cut \in BOOLEAN : PartFails(h, cut)
       PROVE  Rises
  <2>1. handler[h].at \in Holding /\ GiveBack(h, upload[handler[h].id])
    BY <1>10 DEF RefusePart, RefuseFinish, PartFails, Holding
  <2>2. upload[handler[h].id].offset \in Int
    BY <1>5, <2>1 DEF Shapes, Loose
  <2> QED BY <1>6, <2>1, <2>2
<1>11. ASSUME NEW h \in Handlers, PartLands(h) PROVE Rises
  <2> DEFINE up == [upload[handler[h].id] EXCEPT !.offset = @ + handler[h].sent]
  <2>1. handler[h].at \in Holding /\ GiveBack(h, up)
    BY <1>11 DEF PartLands, Holding
  <2>2. upload[handler[h].id] \in Loose /\ handler[h].sent \in Nat
    BY <1>5, <2>1 DEF Shapes, Handler
  <2>3. up.offset >= upload[handler[h].id].offset
    BY <2>2 DEF Loose
  <2> HIDE DEF up
  <2> QED BY <1>6, <2>1, <2>3
<1>12. ASSUME NEW id \in Ids, GoIdle(id) PROVE Rises
  BY <1>1, <1>3, <1>12 DEF GoIdle, Shapes, Loose
<1>13. CASE Stop
  BY <1>13 DEF Stop
<1>14. CASE UNCHANGED upload
  BY <1>3, <1>14
<1> QED
  BY <1>7, <1>8, <1>9, <1>10, <1>11, <1>12, <1>13, <1>14
     DEF Next, NewRequest, Proceed, Sweep, Count, CreateFile, CannotCreate, AcceptPart, CopyUnit,
         Store, Drop, Start

\* What was acknowledged is never rewritten or taken back.
THEOREM LandedForGood == Spec => LandedStays
<1> DEFINE Stays == \A id \in open \cap open' :
        /\ upload'[id].offset >= upload[id].offset
        /\ SubSeq(content'[id], 1, upload[id].offset) = SubSeq(content[id], 1, upload[id].offset)
<1>1. ASSUME NEW file, NEW n \in Nat, n <= Length, Prefix(file, n)
      PROVE  SubSeq(file, 1, n) = [i \in 1..n |-> i]
  <2>1. \A i \in 1..n : file[i] \in 1..Length /\ file[i] = i
    BY <1>1, UploadsAssumption DEF Prefix
  <2>2. /\ SubSeq(file, 1, n) \in Seq(1..Length) /\ Len(SubSeq(file, 1, n)) = n
        /\ \A i \in 1..n : SubSeq(file, 1, n)[i] = i
    BY <2>1, SubSeqProperties
  <2>3. \A part \in Seq(1..Length) : Len(part) = n /\ (\A i \in 1..n : part[i] = i)
          => part = [i \in 1..n |-> i]
    OBVIOUS
  <2> QED BY <2>2, <2>3
<1>2. /\ Shapes /\ Ownership /\ Sound /\ Shapes' /\ Sound' /\ [Next]_vars
      => [Stays]_vars
  <2> SUFFICES ASSUME Shapes, Ownership, Sound, Shapes', Sound', Next PROVE Stays
    OBVIOUS
  <2> SUFFICES ASSUME NEW id \in open \cap open'
               PROVE  /\ upload'[id].offset >= upload[id].offset
                      /\ SubSeq(content'[id], 1, upload[id].offset)
                           = SubSeq(content[id], 1, upload[id].offset)
    OBVIOUS
  <2>1. id \in Ids /\ upload[id].offset \in Nat /\ upload'[id].offset \in Nat
    BY UploadsAssumption DEF Shapes, Loose, Ids
  <2>2. /\ upload[id].offset <= Length /\ Prefix(content[id], upload[id].offset)
        /\ Prefix(content'[id], upload'[id].offset)
        /\ Len(content'[id]) \in Nat
    BY <2>1 DEF Sound, Bytes, Fits
  <2>3. upload'[id].offset >= upload[id].offset
    BY OffsetsRise
  <2>4. Prefix(content'[id], upload[id].offset)
    BY <2>1, <2>2, <2>3 DEF Prefix
  <2> QED BY <1>1, <2>1, <2>2, <2>3, <2>4
<1>3. Spec => [][Stays]_vars
  BY <1>2, SoundHolds, PTL DEF Spec
<1> QED BY <1>3 DEF LandedStays

-----------------------------------------------------------------------------
(* How many a caller can have open.                                        *)

LEMMA Counted ==
    ASSUME Shapes, NEW c \in Callers
    PROVE  /\ IsFiniteSet(OpenBy(c)) /\ Cardinality(OpenBy(c)) \in Nat
           /\ IsFiniteSet(Admitted(c)) /\ Cardinality(Admitted(c)) \in 0..Cardinality(Handlers)
           /\ Cardinality(Handlers) \in Nat
<1>1. IsFiniteSet(Ids) /\ IsFiniteSet(Handlers)
  BY FS_Interval, UploadsAssumption DEF Ids
<1>2. OpenBy(c) \subseteq Ids /\ Admitted(c) \subseteq Handlers
  BY UploadsAssumption DEF Shapes, OpenBy, Admitted, Ids
<1>3. /\ IsFiniteSet(OpenBy(c)) /\ IsFiniteSet(Admitted(c))
      /\ Cardinality(Admitted(c)) <= Cardinality(Handlers)
  BY <1>1, <1>2, FS_Subset
<1> QED  BY <1>1, <1>3, FS_CardinalityType

\* The requests that are let in but have opened nothing yet.
LetIn(r) == r.at \in {"creating", "naming"}

NoneLetIn(h) ==
    /\ \A g \in Handlers \ {h} : handler'[g] = handler[g]
    /\ LetIn(handler'[h]) => LetIn(handler[h]) /\ handler'[h].by = handler[h].by

NoneOpened == open' \subseteq open /\ \A id \in Ids : upload'[id].by \in {upload[id].by, Nobody}

LEMMA NoMore ==
    ASSUME Shapes, NEW h \in Handlers, NoneLetIn(h), NoneOpened, NEW c \in Callers
    PROVE  OpenBy(c)' \subseteq OpenBy(c) /\ Admitted(c)' \subseteq Admitted(c)
<1>1. open \subseteq Ids /\ c # Nobody
  BY UploadsAssumption DEF Shapes, Ids
<1>2. OpenBy(c)' \subseteq OpenBy(c)
  BY <1>1 DEF NoneOpened, OpenBy
<1>3. Admitted(c)' \subseteq Admitted(c)
  BY DEF NoneLetIn, LetIn, Admitted
<1> QED  BY <1>2, <1>3

LEMMA NoneComes ==
    ASSUME Shapes, NEW h \in Handlers,
           \/ /\ serving /\ NewRequest(h)
           \/ Proceed(h) /\ ~Count(h) /\ ~Register(h)
    PROVE  NoneLetIn(h) /\ NoneOpened
<1>t. handler \in [Handlers -> Handler] /\ upload \in [Ids -> Loose] /\ open \subseteq Ids
  BY UploadsAssumption DEF Shapes, Ids
<1>n. ~LetIn(NoHandler) /\ NoUpload.by = Nobody
  BY DEF LetIn, NoHandler, NoUpload
<1>a. Answer(h) => NoneLetIn(h)
  BY <1>t, <1>n DEF Answer, NoneLetIn
<1>g. \A at \in {"storing", "unlinking"} : Goto(h, at) => NoneLetIn(h)
  BY <1>t DEF Goto, NoneLetIn, LetIn, Handler
<1>u. \A ids : Unlink(ids) /\ UNCHANGED open => NoneOpened
  BY <1>t, <1>n DEF Unlink, NoneOpened
<1>s. UNCHANGED <<open, upload>> => NoneOpened
  BY DEF NoneOpened
<1>b. \A up \in Loose : GiveBack(h, up) /\ up.by = upload[handler[h].id].by => NoneOpened /\ NoneLetIn(h)
  <2> SUFFICES ASSUME NEW up \in Loose, GiveBack(h, up), up.by = upload[handler[h].id].by
               PROVE  NoneOpened /\ NoneLetIn(h)
    OBVIOUS
  <2>1. Released(up).by = up.by
    BY DEF Released, Loose
  <2>2. \A id \in Ids : upload'[id].by = upload[id].by
    BY <2>1, <1>t DEF GiveBack
  <2> QED  BY <2>2, <1>a DEF GiveBack, NoneOpened
<1>1. ASSUME NEW c \in Callers, Sweep(h, c) PROVE NoneLetIn(h) /\ NoneOpened
  <2>1. handler'[h].at = "sweeping" /\ \A g \in Handlers \ {h} : handler'[g] = handler[g]
    BY <1>1, <1>t DEF Sweep, NoHandler
  <2> QED  BY <1>1, <2>1 DEF Sweep, NoneLetIn, LetIn, NoneOpened
<1>2. ASSUME NEW c \in Callers, NEW id \in Ids, NEW at \in {"held", "finishing"}, NEW from,
             Take(h, c, id, at, from)
      PROVE  NoneLetIn(h) /\ NoneOpened
  <2>1. handler'[h].at = at /\ \A g \in Handlers \ {h} : handler'[g] = handler[g]
    BY <1>2, <1>t DEF Take, NoHandler
  <2>2. \A i \in Ids : upload'[i].by = upload[i].by
    BY <1>2, <1>t DEF Take, Loose
  <2> QED  BY <1>2, <2>1, <2>2 DEF Take, NoneLetIn, LetIn, NoneOpened
<1>3. CASE RemoveSwept(h)
  <2>1. PICK id \in handler[h].stale : Unlink({id}) /\ handler' = [handler EXCEPT ![h].stale = @ \ {id}]
    BY <1>3 DEF RemoveSwept
  <2>2. handler'[h].at = "sweeping" /\ \A g \in Handlers \ {h} : handler'[g] = handler[g]
    BY <1>3, <2>1, <1>t DEF RemoveSwept, Handler
  <2> QED  BY <1>3, <2>1, <2>2, <1>u DEF RemoveSwept, NoneLetIn, LetIn
<1>4. CASE CreateFile(h)
  <2>1. /\ handler'[h].at = "naming" /\ handler'[h].by = handler[h].by
        /\ \A g \in Handlers \ {h} : handler'[g] = handler[g]
    BY <1>4, <1>t DEF CreateFile, Handler
  <2> QED  BY <1>4, <2>1, <1>s DEF CreateFile, NoneLetIn, LetIn
<1>5. CASE CannotCreate(h) \/ CannotName(h) \/ RemoveDropped(h)
  BY <1>5, <1>a, <1>s, <1>u DEF CannotCreate, CannotName, RemoveDropped
<1>6. CASE RefusePart(h) \/ RefuseFinish(h) \/ \E cut \in BOOLEAN : PartFails(h, cut)
  <2>1. handler[h].id \in Ids => upload[handler[h].id] \in Loose
    BY <1>t
  <2>2. CASE handler[h].id \in Ids
    BY <1>6, <2>1, <2>2, <1>b DEF RefusePart, RefuseFinish, PartFails
  <2>3. CASE handler[h].id \notin Ids
    <3>1. UNCHANGED <<upload, open>> /\ Answer(h)
      BY <1>6, <2>3, <1>t DEF RefusePart, RefuseFinish, PartFails, GiveBack
    <3> QED  BY <3>1, <1>a, <1>s
  <2> QED  BY <2>2, <2>3
<1>7. CASE PartLands(h)
  <2>1. GiveBack(h, [upload[handler[h].id] EXCEPT !.offset = @ + handler[h].sent])
    BY <1>7 DEF PartLands
  <2>2. CASE handler[h].id \in Ids
    <3>1. handler[h].sent \in Nat /\ upload[handler[h].id] \in Loose
      BY <2>2, <1>t, UploadsAssumption DEF Handler
    <3>2. [upload[handler[h].id] EXCEPT !.offset = @ + handler[h].sent] \in Loose
      BY <3>1 DEF Loose
    <3>3. [upload[handler[h].id] EXCEPT !.offset = @ + handler[h].sent].by = upload[handler[h].id].by
      BY <3>1 DEF Loose
    <3> QED  BY <2>1, <3>2, <3>3, <1>b
  <2>3. CASE handler[h].id \notin Ids
    <3>1. UNCHANGED <<upload, open>> /\ Answer(h)
      BY <2>1, <2>3, <1>t DEF GiveBack
    <3> QED  BY <3>1, <1>a, <1>s
  <2> QED  BY <2>2, <2>3
<1>8. ASSUME NEW len, AcceptPart(h, len) PROVE NoneLetIn(h) /\ NoneOpened
  <2>1. handler'[h].at = "copying" /\ \A g \in Handlers \ {h} : handler'[g] = handler[g]
    BY <1>8, <1>t DEF AcceptPart, Handler
  <2> QED  BY <1>8, <2>1, <1>s DEF AcceptPart, NoneLetIn, LetIn
<1>9. CASE CopyUnit(h)
  <2>1. handler'[h].at = "copying" /\ \A g \in Handlers \ {h} : handler'[g] = handler[g]
    BY <1>9, <1>t DEF CopyUnit, Handler
  <2> QED  BY <1>9, <2>1, <1>s DEF CopyUnit, NoneLetIn, LetIn
<1>10. CASE Store(h) \/ Drop(h)
  BY <1>10, <1>g DEF Store, Drop, NoneOpened
<1> QED  BY <1>1, <1>2, <1>3, <1>4, <1>5, <1>6, <1>7, <1>8, <1>9, <1>10 DEF NewRequest, Proceed

\* A request is let in by a count below the limit, and brings one at most.
LEMMA OvershootStep ==
    ASSUME Shapes, Shapes', Stages, OvershootBounded, [Next]_vars
    PROVE  OvershootBounded'
<1> SUFFICES ASSUME NEW c \in Callers
             PROVE  Cardinality(OpenBy(c)') + Cardinality(Admitted(c)')
                        <= MaxOpen - 1 + Cardinality(Handlers)
  BY DEF OvershootBounded
<1>b. Cardinality(OpenBy(c)) + Cardinality(Admitted(c)) <= MaxOpen - 1 + Cardinality(Handlers)
  BY DEF OvershootBounded
<1>f. /\ IsFiniteSet(OpenBy(c)) /\ Cardinality(OpenBy(c)) \in Nat
      /\ IsFiniteSet(Admitted(c)) /\ Cardinality(Admitted(c)) \in 0..Cardinality(Handlers)
      /\ Cardinality(Handlers) \in Nat /\ MaxOpen \in Nat \ {0}
  BY Counted, UploadsAssumption
<1>g. /\ IsFiniteSet(OpenBy(c)') /\ Cardinality(OpenBy(c)') \in Nat
      /\ IsFiniteSet(Admitted(c)') /\ Cardinality(Admitted(c)') \in 0..Cardinality(Handlers)
  <2>1. IsFiniteSet(Ids) /\ IsFiniteSet(Handlers)
    BY FS_Interval, UploadsAssumption DEF Ids
  <2>2. OpenBy(c)' \subseteq Ids /\ Admitted(c)' \subseteq Handlers
    BY UploadsAssumption DEF Shapes, OpenBy, Admitted, Ids
  <2>3. /\ IsFiniteSet(OpenBy(c)') /\ IsFiniteSet(Admitted(c)')
        /\ Cardinality(Admitted(c)') <= Cardinality(Handlers)
    BY <2>1, <2>2, FS_Subset
  <2> QED  BY <2>3, <1>f, FS_CardinalityType
<1>1. CASE OpenBy(c)' \subseteq OpenBy(c) /\ Admitted(c)' \subseteq Admitted(c)
  <2>1. /\ Cardinality(OpenBy(c)') <= Cardinality(OpenBy(c))
        /\ Cardinality(Admitted(c)') <= Cardinality(Admitted(c))
    BY <1>1, <1>f, FS_Subset
  <2> QED  BY <2>1, <1>b, <1>f, <1>g
<1>2. ASSUME NEW h \in Handlers, Count(h), ~(OpenBy(c)' \subseteq OpenBy(c) /\ Admitted(c)' \subseteq Admitted(c))
      PROVE  Cardinality(OpenBy(c)') + Cardinality(Admitted(c)')
                 <= MaxOpen - 1 + Cardinality(Handlers)
  <2>1. OpenBy(c)' = OpenBy(c)
    BY <1>2 DEF Count, OpenBy
  <2>2. handler \in [Handlers -> Handler]
    BY DEF Shapes
  <2>3. HasRoom(c)
    <3>1. CASE handler[h].by = c /\ HasRoom(handler[h].by)
      BY <3>1
    <3>2. CASE handler[h].by # c /\ Goto(h, "creating")
      <4>1. handler'[h].by = handler[h].by /\ \A g \in Handlers \ {h} : handler'[g] = handler[g]
        BY <3>2, <2>2 DEF Goto, Handler
      <4> QED  BY <4>1, <3>2, <1>2, <2>1 DEF Admitted
    <3>3. CASE Answer(h)
      <4>1. handler'[h].at = "idle" /\ \A g \in Handlers \ {h} : handler'[g] = handler[g]
        BY <3>3, <2>2 DEF Answer, NoHandler
      <4> QED  BY <4>1, <1>2, <2>1 DEF Admitted
    <3> QED  BY <1>2, <3>1, <3>2, <3>3 DEF Count
  <2> QED  BY <2>1, <2>3, <1>f, <1>g DEF HasRoom
<1>3. ASSUME NEW h \in Handlers, Register(h), handler[h].by = c
      PROVE  Cardinality(OpenBy(c)') + Cardinality(Admitted(c)')
                 <= MaxOpen - 1 + Cardinality(Handlers)
  <2>1. handler \in [Handlers -> Handler] /\ upload \in [Ids -> Loose]
    BY DEF Shapes
  <2>2. handler'[h].at = "idle" /\ \A g \in Handlers \ {h} : handler'[g] = handler[g]
    BY <1>3, <2>1 DEF Register, Answer, NoHandler
  <2>3. h \in Admitted(c) /\ Admitted(c)' = Admitted(c) \ {h}
    BY <1>3, <2>2 DEF Admitted, Register
  <2>4. Cardinality(Admitted(c)') = Cardinality(Admitted(c)) - 1
    BY <2>3, <1>f, FS_RemoveElement
  <2>5. \A id \in Ids \ {handler[h].id} : upload'[id] = upload[id]
    BY <1>3, <2>1 DEF Register
  <2>6. OpenBy(c)' \subseteq OpenBy(c) \cup {handler[h].id}
    BY <1>3, <2>5, UploadsAssumption DEF Register, OpenBy, Shapes, Ids
  <2>7. /\ IsFiniteSet(OpenBy(c) \cup {handler[h].id})
        /\ Cardinality(OpenBy(c) \cup {handler[h].id}) <= Cardinality(OpenBy(c)) + 1
        /\ Cardinality(OpenBy(c) \cup {handler[h].id}) \in Nat
    <3>1. /\ IsFiniteSet(OpenBy(c) \cup {handler[h].id})
          /\ Cardinality(OpenBy(c) \cup {handler[h].id}) =
                IF handler[h].id \in OpenBy(c) THEN Cardinality(OpenBy(c)) ELSE Cardinality(OpenBy(c)) + 1
      BY <1>f, FS_AddElement, Zenon
    <3> QED  BY <3>1, <1>f
  <2>8. Cardinality(OpenBy(c)') <= Cardinality(OpenBy(c) \cup {handler[h].id})
    BY <2>6, <2>7, FS_Subset
  <2> QED  BY <2>4, <2>7, <2>8, <1>b, <1>f, <1>g
<1>4. \/ OpenBy(c)' \subseteq OpenBy(c) /\ Admitted(c)' \subseteq Admitted(c)
      \/ \E h \in Handlers : Count(h)
      \/ \E h \in Handlers : Register(h) /\ handler[h].by = c
  <2>1. ASSUME NEW h \in Handlers, (serving /\ NewRequest(h)) \/ Proceed(h)
        PROVE  \/ OpenBy(c)' \subseteq OpenBy(c) /\ Admitted(c)' \subseteq Admitted(c)
               \/ Count(h)
               \/ Register(h)
    BY <2>1, NoneComes, NoMore
  <2>2. ASSUME NEW h \in Handlers, Register(h), handler[h].by # c
        PROVE  OpenBy(c)' \subseteq OpenBy(c) /\ Admitted(c)' \subseteq Admitted(c)
    <3>1. handler \in [Handlers -> Handler] /\ upload \in [Ids -> Loose] /\ open \subseteq Ids
      BY UploadsAssumption DEF Shapes, Ids
    <3>2. handler'[h].at = "idle" /\ \A g \in Handlers \ {h} : handler'[g] = handler[g]
      BY <2>2, <3>1 DEF Register, Answer, NoHandler
    <3>3. \A id \in Ids : id = handler[h].id \/ upload'[id] = upload[id]
      BY <2>2, <3>1 DEF Register
    <3>4. handler[h].id \in Ids => upload'[handler[h].id].by = handler[h].by
      BY <2>2, <3>1 DEF Register, NoUpload
    <3>5. OpenBy(c)' \subseteq OpenBy(c)
      <4>1. handler[h].id \in 1..drawn
        BY <2>2 DEF Register, Stages
      <4>2. handler[h].id \in Ids
        BY <4>1, UploadsAssumption DEF Shapes, Ids
      <4> QED  BY <2>2, <4>2, <3>1, <3>3, <3>4 DEF Register, OpenBy
    <3> QED  BY <3>2, <3>5 DEF Admitted
  <2>3. ASSUME (\E id \in Ids : GoIdle(id)) \/ Stop \/ Start \/ UNCHANGED vars
        PROVE  OpenBy(c)' \subseteq OpenBy(c) /\ Admitted(c)' \subseteq Admitted(c)
    <3>1. upload \in [Ids -> Loose] /\ open \subseteq Ids
      BY UploadsAssumption DEF Shapes, Ids
    <3>2. CASE \E id \in Ids : GoIdle(id)
      <4>1. \A id \in Ids : upload'[id].by = upload[id].by
        BY <3>2, <3>1 DEF GoIdle, Loose
      <4> QED  BY <3>1, <3>2, <4>1 DEF GoIdle, OpenBy, Admitted
    <3>3. CASE Stop
      BY <3>3 DEF Stop, OpenBy, Admitted, NoHandler
    <3>4. CASE Start \/ UNCHANGED vars
      BY <3>4 DEF Start, vars, OpenBy, Admitted
    <3> QED  BY <2>3, <3>2, <3>3, <3>4
  <2> QED  BY <2>1, <2>2, <2>3 DEF Next
<1> QED  BY <1>1, <1>2, <1>3, <1>4

\* However many requests a caller sends at once, and whatever is swept, dropped
\* or fails meanwhile, it has at most as many uploads open beyond the limit as
\* the server works on requests: for any limit and any number of requests.
THEOREM OvershootHeld == Spec => []OvershootBounded
<1>1. Init => OvershootBounded
  <2> SUFFICES ASSUME Init, NEW c \in Callers
               PROVE  Cardinality(OpenBy(c)) + Cardinality(Admitted(c)) <= MaxOpen - 1 + Cardinality(Handlers)
    BY DEF OvershootBounded
  <2>1. OpenBy(c) = {} /\ Admitted(c) = {}
    BY DEF Init, OpenBy, Admitted, NoHandler
  <2>2. Cardinality(Handlers) \in Nat /\ MaxOpen \in Nat \ {0}
    BY UploadsAssumption, FS_CardinalityType
  <2> QED  BY <2>1, <2>2, FS_EmptySet
<1>2. Shapes /\ Shapes' /\ Stages /\ OvershootBounded /\ [Next]_vars => OvershootBounded'
  BY OvershootStep
<1>3. Ownership => Stages
  BY DEF Ownership
<1>4. Spec => [](Shapes /\ Ownership)
  BY OwnershipHolds
<1> QED  BY <1>1, <1>2, <1>3, <1>4, PTL DEF Spec
=============================================================================
