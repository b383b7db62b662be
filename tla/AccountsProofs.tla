--------------------------- MODULE AccountsProofs ---------------------------
(***************************************************************************)
(* Accounts and keys, for any accounts, namespaces, tiers' numbers, number *)
(* of requests at work and of keys.                                        *)
(***************************************************************************)
EXTENDS Accounts, SequenceTheorems, FiniteSetTheorems, TLAPS

\* Where a request can be, given whose it is and what was read for it.
Staged(r) ==
    /\ r.at \in SigningIn \cup {"setting", "sweeping"} => r.account \in Accounts
    /\ r.at \in SigningIn \ {"redeemed"} => tier[r.account] # NoTier
    /\ r.at \in {"counting", "issuing"} => r.tier \in Tiers \ {"blocked"}
    /\ r.at = "setting" => r.tier \in Tiers

\* What a key may hold that descends from another.
Reaches(root, scopes) == scopes = root \/ Administers(root, scopes)

\* A key begins its own chain, or was minted within the one it names.
Rooted(k) ==
    /\ keys[k].root \in Ids
    /\ keys[k].how # "minted" => keys[k].root = k
    /\ keys[k].how = "minted" => Administers(keys[keys[k].root].scopes, keys[k].scopes)

\* A request that mints goes by the scopes of a key, and was let to.
MayMint(r) ==
    r.at = "minting" =>
        /\ r.root \in Ids
        /\ Reaches(keys[r.root].scopes, r.scopes)
        /\ Administers(r.scopes, r.wanted)

\* A request that revokes has seen a key of the name that it administers.
MayRevoke(r) ==
    r.at = "revoking" =>
        \E k \in Ids : keys[k].name = r.name /\ Administers(r.scopes, keys[k].scopes)

OfOneName == \A j, k \in Ids : keys[j].name = keys[k].name => j = k

\* What an account blocked and swept has left came too late to be swept.
Late(a) ==
    a \in swept /\ tier[a] = "blocked" =>
        /\ \A k \in Ids : keys[k].account = a /\ Usable(keys[k]) => keys[k].late
        /\ \A q \in Requests :
            request[q].account = a /\ request[q].at \in {"counting", "issuing", "minting"}
                => request[q].late

IInv ==
    /\ TypeOK
    /\ \A q \in Requests : Staged(request[q]) /\ MayMint(request[q]) /\ MayRevoke(request[q])
    /\ \A k \in Ids : Rooted(k)
    /\ OfOneName
    /\ \A a \in Accounts : Late(a)

-----------------------------------------------------------------------------
(* Scopes and the table of keys.                                           *)

\* Who administers what administers something administers it.
LEMMA Transitive ==
    ASSUME NEW A, NEW B, NEW C, Administers(A, B), Administers(B, C)
    PROVE  Administers(A, C)
<1> SUFFICES ASSUME NEW scope \in C PROVE Can(A, "admin", scope.on)
  BY DEF Administers
<1>1. PICK h \in B : h.action = "admin" /\ h.on \in {Everywhere, scope.on}
  BY DEF Administers, Can
<1>2. PICK g \in A : g.action = "admin" /\ g.on \in {Everywhere, h.on}
  BY DEF Administers, Can
<1> QED BY <1>1, <1>2 DEF Can

\* What one step leaves of a key: it may be revoked or expire.
Same(old, new) ==
    /\ new.how = old.how /\ new.name = old.name /\ new.scopes = old.scopes
    /\ new.account = old.account /\ new.root = old.root /\ new.late = old.late
    /\ new.tier = old.tier
    /\ Usable(new) => Usable(old)

\* No key comes.
Stays == keys' \in Seq(Key) /\ Ids' = Ids /\ \A k \in Ids : Same(keys[k], keys'[k])

\* One key comes, of a name of its own.
Comes(key) ==
    /\ keys' \in Seq(Key)
    /\ Ids' = Ids \cup {Len(keys) + 1} /\ Len(keys) + 1 \notin Ids
    /\ keys'[Len(keys) + 1] = key
    /\ \A k \in Ids : keys'[k] = keys[k] /\ keys[k].name # key.name

LEMMA Unchanged == ASSUME TypeOK, UNCHANGED keys PROVE Stays
  BY DEF Stays, Same, TypeOK, Ids

LEMMA Inserted == ASSUME TypeOK, NEW key \in Key, InsertAPIKey(key) PROVE Comes(key)
<1>1. Len(keys) \in Nat /\ keys \in Seq(Key) /\ keys' = Append(keys, key)
  BY DEF TypeOK, InsertAPIKey
<1>2. /\ keys' \in Seq(Key) /\ Len(keys') = Len(keys) + 1 /\ keys'[Len(keys) + 1] = key
      /\ \A k \in 1..Len(keys) : keys'[k] = keys[k]
  BY <1>1
<1>3. \A k \in Ids : keys[k].name # key.name
  BY DEF InsertAPIKey, Taken
<1> QED BY <1>1, <1>2, <1>3 DEF Comes, Ids

LEMMA KeyOf == ASSUME TypeOK, NEW k \in Ids PROVE keys[k] \in Key
  BY DEF TypeOK, Ids

\* A table of as many keys, each what `Changed' says or what it was.
LEMMA Replaced ==
    ASSUME TypeOK, NEW new \in [Ids -> Key], keys' = new, \A k \in Ids : Same(keys[k], new[k])
    PROVE  Stays
<1>1. Len(keys) \in Nat /\ Ids = 1..Len(keys)
  BY DEF TypeOK, Ids
<1>2. keys' \in Seq(Key) /\ Len(keys') = Len(keys)
  BY <1>1
<1> QED BY <1>1, <1>2 DEF Stays, Ids

LEMMA Marked ==
    ASSUME TypeOK, NEW which, keys' = Revoked(which)
    PROVE  /\ Stays
           /\ \A k \in Ids : k \in which => ~Usable(keys'[k])
           /\ \A k \in Ids : k \notin which => keys'[k] = keys[k]
<1> DEFINE new == [k \in Ids |-> IF k \in which THEN [keys[k] EXCEPT !.revoked = TRUE] ELSE keys[k]]
<1>1. keys' = new
  BY DEF Revoked
<1>2. \A k \in Ids : /\ k \in which => new[k] = [keys[k] EXCEPT !.revoked = TRUE]
                     /\ k \notin which => new[k] = keys[k]
  OBVIOUS
<1>3. \A k \in Ids : new[k] \in Key /\ Same(keys[k], new[k]) /\ (k \in which => ~Usable(new[k]))
  BY <1>2, KeyOf DEF Key, Same, Usable
<1>4. new \in [Ids -> Key]
  BY <1>3
<1> HIDE DEF new
<1>5. Stays
  BY <1>1, <1>3, <1>4, Replaced
<1> QED BY <1>1, <1>2, <1>3, <1>5

LEMMA Aged == ASSUME TypeOK, NEW k \in Ids, Expire(k) PROVE Stays
<1>1. keys' = [keys EXCEPT ![k].life = "expired"] /\ keys[k].life = "good"
  BY DEF Expire
<1>2. DOMAIN keys = Ids
  BY DEF TypeOK, Ids
<1>3. \A j \in Ids : j # k => keys'[j] = keys[j]
  BY <1>1, <1>2
<1>4. keys'[k] = [keys[k] EXCEPT !.life = "expired"]
  BY <1>1, <1>2
<1>5. \A j \in Ids : keys'[j] \in Key /\ Same(keys[j], keys'[j])
  BY <1>1, <1>3, <1>4, KeyOf DEF Key, Same, Usable
<1>6. keys' \in [Ids -> Key]
  <2>1. keys' = [j \in Ids |-> keys'[j]]
    BY <1>1, <1>2
  <2> QED BY <2>1, <1>5
<1> QED BY <1>5, <1>6, Replaced

-----------------------------------------------------------------------------
(* What holds of requests and keys whatever happens to others.             *)

\* What a request may do it may still do when no key is lost.
LEMMA Persists ==
    ASSUME NEW r, TypeOK, Stays \/ \E key : Comes(key)
    PROVE  (MayMint(r) => MayMint(r)') /\ (MayRevoke(r) => MayRevoke(r)')
  BY DEF MayMint, MayRevoke, Stays, Comes, Same, Reaches, Administers

LEMMA KeysHold ==
    ASSUME TypeOK, \A k \in Ids : Rooted(k), OfOneName, Stays
    PROVE  (\A k \in Ids : Rooted(k))' /\ OfOneName'
  BY DEF Stays, Same, Rooted, OfOneName, Administers

LEMMA KeyHolds ==
    ASSUME TypeOK, \A k \in Ids : Rooted(k), OfOneName, NEW key, Comes(key),
           \/ key.how # "minted" /\ key.root = Len(keys) + 1
           \/ /\ key.how = "minted" /\ key.root \in Ids
              /\ Administers(keys[key.root].scopes, key.scopes)
    PROVE  (\A k \in Ids : Rooted(k))' /\ OfOneName'
<1>1. PICK n : n = Len(keys) + 1
  OBVIOUS
<1>2. Ids' = Ids \cup {n} /\ n \notin Ids /\ keys'[n] = key /\ \A k \in Ids : keys'[k] = keys[k]
  BY <1>1 DEF Comes
<1>3. \A k \in Ids : Rooted(k)'
  BY <1>2 DEF Rooted, Administers
<1>4. Rooted(n)'
  BY <1>1, <1>2 DEF Rooted, Administers
<1>5. OfOneName'
  BY <1>2 DEF Comes, OfOneName
<1> QED BY <1>2, <1>3, <1>4, <1>5

-----------------------------------------------------------------------------
(* One step: what it must show of the accounts, the keys and the requests. *)

\* An account that signed in has a tier for good.
TiersStay ==
    /\ tier' \in [Accounts -> Tiers \cup {NoTier}]
    /\ \A a \in Accounts : tier[a] # NoTier => tier'[a] # NoTier

Fits(key) ==
    \/ key.how # "minted" /\ key.root = Len(keys) + 1
    \/ /\ key.how = "minted" /\ key.root \in Ids
       /\ Administers(keys[key.root].scopes, key.scopes)

KeysStep == Stays \/ \E key : Comes(key) /\ Fits(key)

Sound(q) == Staged(request[q]) /\ MayMint(request[q]) /\ MayRevoke(request[q])

RequestsStep ==
    /\ request' \in [Requests -> Request]
    /\ \A q \in Requests : request'[q] = request[q] \/ Sound(q)'

LEMMA AllButLate ==
    ASSUME IInv, TiersStay, swept' \subseteq Accounts, KeysStep, RequestsStep
    PROVE  (/\ TypeOK
            /\ \A q \in Requests : Sound(q)
            /\ \A k \in Ids : Rooted(k)
            /\ OfOneName)'
<1>1. TypeOK /\ (\A k \in Ids : Rooted(k)) /\ OfOneName
  BY DEF IInv
<1>2. TypeOK'
  BY DEF TypeOK, TiersStay, KeysStep, Stays, Comes, RequestsStep
<1>3. Stays \/ \E key : Comes(key)
  BY DEF KeysStep
<1>4. ASSUME NEW q \in Requests PROVE Sound(q)'
  <2>1. CASE request'[q] = request[q]
    <3>1. PICK r : r = request[q]
      OBVIOUS
    <3>2. Staged(r) /\ MayMint(r) /\ MayRevoke(r)
      BY <3>1 DEF IInv
    <3>3. Staged(r)'
      BY <3>2 DEF Staged, TiersStay, SigningIn
    <3>4. MayMint(r)' /\ MayRevoke(r)'
      BY <1>1, <1>3, <3>2, Persists
    <3> QED BY <2>1, <3>1, <3>3, <3>4 DEF Sound, Staged, MayMint, MayRevoke
  <2> QED BY <2>1 DEF RequestsStep
<1>5. (\A k \in Ids : Rooted(k))' /\ OfOneName'
  <2>1. CASE Stays
    BY <1>1, <2>1, KeysHold
  <2>2. CASE \E key : Comes(key) /\ Fits(key)
    BY <1>1, <2>2, KeyHolds DEF Fits
  <2> QED BY <2>1, <2>2 DEF KeysStep
<1> QED BY <1>2, <1>4, <1>5

InTime(r) == r.at \in {"counting", "issuing", "minting"} => r.late

\* Nothing of an account that was blocked and swept comes anew, but late.
LEMMA LateStays ==
    ASSUME IInv, NEW a \in Accounts,
           a \in swept' /\ tier'[a] = "blocked" => a \in swept /\ tier[a] = "blocked",
           a \in swept /\ tier[a] = "blocked" =>
               /\ Stays \/ \E key : Comes(key) /\ (key.account = a => key.late)
               /\ \A q \in Requests : \/ request'[q] = request[q]
                                      \/ request'[q].account = a => InTime(request'[q])
    PROVE  Late(a)'
<1> SUFFICES ASSUME a \in swept, tier[a] = "blocked"
             PROVE  /\ \A k \in Ids' : keys'[k].account = a /\ Usable(keys'[k]) => keys'[k].late
                    /\ \A q \in Requests :
                         request'[q].account = a /\ request'[q].at \in {"counting", "issuing", "minting"}
                           => request'[q].late
  BY DEF Late, Usable
<1>1. Late(a)
  BY DEF IInv
<1>2. ASSUME NEW k \in Ids', keys'[k].account = a, Usable(keys'[k]) PROVE keys'[k].late
  <2>1. CASE Stays
    BY <1>1, <1>2, <2>1 DEF Stays, Same, Late
  <2>2. CASE \E key : Comes(key) /\ (key.account = a => key.late)
    BY <1>1, <1>2, <2>2 DEF Comes, Late
  <2> QED BY <2>1, <2>2
<1>3. ASSUME NEW q \in Requests, request'[q].account = a,
             request'[q].at \in {"counting", "issuing", "minting"}
      PROVE  request'[q].late
  BY <1>1, <1>3 DEF Late, InTime
<1> QED BY <1>2, <1>3

\* Every step but the sweep itself: nobody is swept, and who is blocked was.
LEMMA Step ==
    ASSUME IInv, TiersStay, KeysStep, RequestsStep, swept' \subseteq swept,
           \A a \in swept' : tier'[a] = "blocked" => tier[a] = "blocked",
           \A a \in swept : tier[a] = "blocked" =>
               /\ Stays \/ \E key : Comes(key) /\ (key.account = a => key.late)
               /\ \A q \in Requests : \/ request'[q] = request[q]
                                      \/ request'[q].account = a => InTime(request'[q])
    PROVE  IInv'
<1>1. swept' \subseteq Accounts
  BY DEF IInv, TypeOK
<1>2. \A a \in Accounts : Late(a)'
  BY LateStays
<1> QED BY <1>1, <1>2, AllButLate DEF IInv, Sound

\* What the request is in a step that is about one request only.
LEMMA One ==
    ASSUME IInv, NEW q \in Requests, NEW r \in Request, request' = [request EXCEPT ![q] = r]
    PROVE  /\ request' \in [Requests -> Request]
           /\ request'[q] = r
           /\ \A p \in Requests \ {q} : request'[p] = request[p]
  BY DEF IInv, TypeOK

LEMMA Moves ==
    ASSUME IInv, NEW q \in Requests, NEW at \in Phases, Goto(q, at)
    PROVE  /\ request' \in [Requests -> Request]
           /\ request'[q] = [request[q] EXCEPT !.at = at]
           /\ \A p \in Requests \ {q} : request'[p] = request[p]
<1>1. request[q] \in Request /\ [request[q] EXCEPT !.at = at] \in Request
  BY DEF IInv, TypeOK, Request
<1>2. request' = [request EXCEPT ![q] = [request[q] EXCEPT !.at = at]]
  BY DEF Goto, IInv, TypeOK
<1> QED BY <1>1, <1>2, One

LEMMA Leaves ==
    ASSUME IInv, NEW q \in Requests, Finish(q)
    PROVE  /\ request' \in [Requests -> Request]
           /\ request'[q] = NoRequest
           /\ \A p \in Requests \ {q} : request'[p] = request[p]
           /\ RequestsStep
<1>1. NoRequest \in Request
  BY DEF NoRequest, Request, Phases
<1>2. /\ request' \in [Requests -> Request]
      /\ request'[q] = NoRequest
      /\ \A p \in Requests \ {q} : request'[p] = request[p]
  BY <1>1, One DEF Finish
<1>3. Sound(q)'
  BY <1>2 DEF Sound, Staged, MayMint, MayRevoke, NoRequest, SigningIn
<1> QED BY <1>2, <1>3 DEF RequestsStep

-----------------------------------------------------------------------------
(* Signing in.                                                             *)

LEMMA Quiet == ASSUME IInv, UNCHANGED <<tier, keys, swept>> PROVE TiersStay /\ KeysStep /\ Stays
  BY Unchanged DEF IInv, TypeOK, TiersStay, KeysStep

LEMMA RedeemStep == ASSUME IInv, NEW q \in Requests, NEW a \in Accounts, Redeem(q, a) PROVE IInv'
<1> DEFINE r == [NoRequest EXCEPT !.at = "redeemed", !.account = a]
<1>1. r \in Request /\ r.at = "redeemed" /\ r.account = a
  BY DEF NoRequest, Request, Phases, SigningIn
<1>2. request' = [request EXCEPT ![q] = r] /\ UNCHANGED <<tier, keys, swept>>
  BY DEF Redeem
<1> HIDE DEF r
<1>3. /\ request' \in [Requests -> Request] /\ request'[q] = r
      /\ \A p \in Requests \ {q} : request'[p] = request[p]
  BY <1>1, <1>2, One
<1>4. Sound(q)'
  BY <1>1, <1>3 DEF Sound, Staged, MayMint, MayRevoke, SigningIn
<1>5. RequestsStep
  BY <1>3, <1>4 DEF RequestsStep
<1> QED BY <1>1, <1>2, <1>3, <1>5, Quiet, Step DEF InTime

LEMMA UpsertAccountStep == ASSUME IInv, NEW q \in Requests, UpsertAccount(q) PROVE IInv'
<1> DEFINE a == request[q].account
<1>1. request[q].at = "redeemed" /\ a \in Accounts /\ request[q] \in Request
  BY DEF UpsertAccount, IInv, TypeOK, Staged, SigningIn
<1>2. tier' = [tier EXCEPT ![a] = IF @ = NoTier THEN "unknown" ELSE @] /\ UNCHANGED <<keys, swept>>
  BY DEF UpsertAccount
<1>3. PICK at \in {"upserted", "known"} : Goto(q, at)
  BY DEF UpsertAccount
<1>4. /\ request' \in [Requests -> Request]
      /\ request'[q] = [request[q] EXCEPT !.at = at]
      /\ \A p \in Requests \ {q} : request'[p] = request[p]
  BY <1>3, Moves DEF Phases, SigningIn
<1>5. request'[q].at = at /\ request'[q].account = a
  BY <1>1, <1>4 DEF Request
<1>6. TiersStay /\ tier'[a] # NoTier /\ \A b \in Accounts : tier'[b] = "blocked" => tier[b] = "blocked"
  BY <1>1, <1>2, AccountsAssumption DEF TiersStay, IInv, TypeOK, Tiers
<1>7. Sound(q)'
  BY <1>1, <1>5, <1>6 DEF Sound, Staged, MayMint, MayRevoke, SigningIn
<1>8. RequestsStep
  BY <1>4, <1>7 DEF RequestsStep
<1>9. Stays /\ KeysStep
  BY <1>2, Unchanged DEF IInv, KeysStep
<1> QED BY <1>2, <1>4, <1>5, <1>6, <1>8, <1>9, Step DEF InTime, IInv, TypeOK

LEMMA TierSet ==
    ASSUME IInv, NEW a \in Accounts, NEW t \in Tiers, SetTierTo(a, t)
    PROVE  /\ TiersStay
           /\ swept' \subseteq swept
           /\ \A b \in swept' : tier'[b] = tier[b]
  BY AccountsAssumption DEF SetTierTo, TiersStay, IInv, TypeOK

LEMMA BlessStep == ASSUME IInv, NEW q \in Requests, Bless(q) PROVE IInv'
<1> DEFINE a == request[q].account
<1>1. /\ request[q].at = "upserted" /\ a \in Accounts /\ request[q] \in Request
      /\ tier[a] # NoTier
  BY DEF Bless, IInv, TypeOK, Staged, SigningIn
<1>2. SetTierTo(a, "admin") /\ Goto(q, "known") /\ UNCHANGED keys
  BY DEF Bless
<1>3. TiersStay /\ swept' \subseteq swept /\ \A b \in swept' : tier'[b] = tier[b]
  BY <1>1, <1>2, TierSet DEF Tiers
<1>4. /\ request' \in [Requests -> Request]
      /\ request'[q] = [request[q] EXCEPT !.at = "known"]
      /\ \A p \in Requests \ {q} : request'[p] = request[p]
  BY <1>2, Moves DEF Phases, SigningIn
<1>5. request'[q].at = "known" /\ request'[q].account = a
  BY <1>1, <1>4 DEF Request
<1>6. Sound(q)'
  BY <1>1, <1>3, <1>5 DEF Sound, Staged, MayMint, MayRevoke, SigningIn, TiersStay
<1>7. RequestsStep
  BY <1>4, <1>6 DEF RequestsStep
<1>8. Stays /\ KeysStep
  BY <1>2, Unchanged DEF IInv, KeysStep
<1> QED BY <1>3, <1>4, <1>5, <1>7, <1>8, Step DEF InTime

LEMMA ReadAccountStep == ASSUME IInv, NEW q \in Requests, ReadAccount(q) PROVE IInv'
<1> DEFINE a == request[q].account
           r == [request[q] EXCEPT !.at = "counting", !.tier = tier[a]]
<1>1. /\ request[q].at = "known" /\ a \in Accounts /\ request[q] \in Request
      /\ tier[a] \in Tiers /\ UNCHANGED <<tier, keys, swept>>
  BY DEF ReadAccount, IInv, TypeOK, Staged, SigningIn
<1>2. CASE tier[a] = "blocked"
  <2>1. Finish(q)
    BY <1>2 DEF ReadAccount, Finish, IInv, TypeOK
  <2>2. /\ request'[q] = NoRequest /\ RequestsStep
        /\ \A p \in Requests \ {q} : request'[p] = request[p]
    BY <2>1, Leaves
  <2> QED BY <1>1, <2>2, Quiet, Step DEF InTime, NoRequest
<1>3. CASE tier[a] # "blocked"
  <2>1. /\ r \in Request /\ r.at = "counting" /\ r.account = a /\ r.tier = tier[a]
        /\ r.tier \in Tiers \ {"blocked"}
    BY <1>1, <1>3 DEF Request, Phases, SigningIn
  <2>2. request' = [request EXCEPT ![q] = r]
    BY <1>3 DEF ReadAccount, IInv, TypeOK
  <2> HIDE DEF r
  <2>3. /\ request' \in [Requests -> Request] /\ request'[q] = r
        /\ \A p \in Requests \ {q} : request'[p] = request[p]
    BY <2>1, <2>2, One
  <2>4. Sound(q)'
    BY <1>1, <2>1, <2>3, AccountsAssumption DEF Sound, Staged, MayMint, MayRevoke, SigningIn
  <2>5. RequestsStep
    BY <2>3, <2>4 DEF RequestsStep
  <2> QED BY <1>1, <1>3, <2>1, <2>3, <2>5, Quiet, Step
<1> QED BY <1>2, <1>3

LEMMA CountKeysStep == ASSUME IInv, NEW q \in Requests, CountKeys(q) PROVE IInv'
<1>1. request[q].at = "counting" /\ UNCHANGED <<tier, keys, swept>> /\ request[q] \in Request
  BY DEF CountKeys, IInv, TypeOK
<1>2. CASE Finish(q)
  <2>1. /\ request'[q] = NoRequest /\ RequestsStep
        /\ \A p \in Requests \ {q} : request'[p] = request[p]
    BY <1>2, Leaves
  <2> QED BY <1>1, <2>1, Quiet, Step DEF InTime, NoRequest
<1>3. CASE Goto(q, "issuing")
  <2>1. /\ request' \in [Requests -> Request]
        /\ request'[q] = [request[q] EXCEPT !.at = "issuing"]
        /\ \A p \in Requests \ {q} : request'[p] = request[p]
    BY <1>3, Moves DEF Phases, SigningIn
  <2>2. /\ request'[q].at = "issuing" /\ request'[q].account = request[q].account
        /\ request'[q].tier = request[q].tier /\ request'[q].late = request[q].late
    BY <1>1, <2>1 DEF Request
  <2>3. Sound(q)'
    BY <1>1, <2>2 DEF IInv, Sound, Staged, MayMint, MayRevoke, SigningIn
  <2>4. RequestsStep
    BY <2>1, <2>3 DEF RequestsStep
  <2>5. \A a \in swept : tier[a] = "blocked" /\ request[q].account = a => request[q].late
    BY <1>1 DEF IInv, TypeOK, Late
  <2>6. \A a \in swept : tier[a] = "blocked" /\ request'[q].account = a => InTime(request'[q])
    BY <2>2, <2>5 DEF InTime
  <2>7. TiersStay /\ KeysStep /\ Stays
    BY <1>1, Quiet
  <2> QED BY <1>1, <2>1, <2>4, <2>6, <2>7, Step
<1> QED BY <1>2, <1>3 DEF CountKeys

LEMMA IssueStep == ASSUME IInv, NEW q \in Requests, Issue(q) PROVE IInv'
<1> DEFINE r   == request[q]
           key == [how |-> "issued", name |-> Len(keys) + 1, scopes |-> Scopes(r.tier, r.account),
                   account |-> r.account, life |-> "good", revoked |-> FALSE,
                   root |-> Len(keys) + 1, tier |-> r.tier, late |-> r.late]
<1>1. /\ r.at = "issuing" /\ r \in Request /\ r.account \in Accounts
      /\ r.tier \in Tiers \ {"blocked"} /\ Len(keys) \in Nat
  BY DEF Issue, IInv, TypeOK, Staged, SigningIn
<1>2. InsertAPIKey(key) /\ Finish(q) /\ UNCHANGED <<tier, swept>>
  BY DEF Issue
<1>3. Scopes(r.tier, r.account) \subseteq Scope
  BY <1>1, PolicyAssumption DEF Scopes, Scope
<1>4. key \in Key /\ key.how = "issued" /\ key.root = Len(keys) + 1 /\ key.account = r.account
      /\ key.late = r.late
  BY <1>1, <1>3 DEF Key, Request
<1> HIDE DEF key
<1>5. Comes(key)
  BY <1>2, <1>4, Inserted DEF IInv
<1>6. KeysStep /\ TiersStay
  BY <1>2, <1>4, <1>5 DEF KeysStep, Fits, TiersStay, IInv, TypeOK
<1>7. /\ request'[q] = NoRequest /\ RequestsStep
      /\ \A p \in Requests \ {q} : request'[p] = request[p]
  BY <1>2, Leaves
<1>8. \A a \in swept : tier[a] = "blocked" => (key.account = a => key.late)
  BY <1>1, <1>4 DEF IInv, TypeOK, Late
<1> QED BY <1>2, <1>5, <1>6, <1>7, <1>8, Step DEF InTime, NoRequest

-----------------------------------------------------------------------------
(* Minting and revoking.                                                   *)

\* A request let in goes by the scopes of its key, and comes late if that did.
LEMMA LetInMoves ==
    ASSUME IInv, NEW q \in Requests, NEW k \in Ids, NEW at \in {"minting", "listing"},
           NEW name, name \in Names \cup Nat, NEW wanted \in SUBSET Scope,
           LetIn(q, k, at, name, wanted)
    PROVE  /\ request' \in [Requests -> Request]
           /\ request'[q].at = at /\ request'[q].wanted = wanted
           /\ request'[q].scopes = keys[k].scopes /\ request'[q].root = keys[k].root
           /\ \A p \in Requests \ {q} : request'[p] = request[p]
           /\ \A a \in swept : tier[a] = "blocked" /\ request'[q].account = a => InTime(request'[q])
           /\ UNCHANGED <<tier, keys, swept>>
<1> DEFINE r == [NoRequest EXCEPT !.at = at, !.account = keys[k].account, !.scopes = keys[k].scopes,
                     !.root = keys[k].root, !.name = name, !.wanted = wanted, !.late = keys[k].late]
<1>1. keys[k] \in Key /\ Usable(keys[k])
  BY KeyOf DEF IInv, LetIn
<1>2. /\ r \in Request /\ r.at = at /\ r.wanted = wanted /\ r.scopes = keys[k].scopes
      /\ r.root = keys[k].root /\ r.account = keys[k].account /\ r.late = keys[k].late
  BY <1>1 DEF NoRequest, Request, Phases, Key
<1>3. request' = [request EXCEPT ![q] = r] /\ UNCHANGED <<tier, keys, swept>>
  BY DEF LetIn
<1> HIDE DEF r
<1>4. /\ request' \in [Requests -> Request] /\ request'[q] = r
      /\ \A p \in Requests \ {q} : request'[p] = request[p]
  BY <1>2, <1>3, One
<1>5. \A a \in swept : tier[a] = "blocked" /\ keys[k].account = a => keys[k].late
  BY <1>1 DEF IInv, TypeOK, Late
<1> QED BY <1>2, <1>3, <1>4, <1>5 DEF InTime

LEMMA AskForKeyStep ==
    ASSUME IInv, NEW q \in Requests, NEW k \in Ids, NEW name \in Names, NEW wanted \in Wanted,
           AskForKey(q, k, name, wanted)
    PROVE  IInv'
<1>1. LetIn(q, k, "minting", name, wanted) /\ Administers(keys[k].scopes, wanted)
  BY DEF AskForKey, CanGrant, Administers
<1>2. wanted \in SUBSET Scope /\ name \in Names \cup Nat
  BY AccountsAssumption
<1>3. /\ request' \in [Requests -> Request]
      /\ request'[q].at = "minting" /\ request'[q].wanted = wanted
      /\ request'[q].scopes = keys[k].scopes /\ request'[q].root = keys[k].root
      /\ \A p \in Requests \ {q} : request'[p] = request[p]
      /\ \A a \in swept : tier[a] = "blocked" /\ request'[q].account = a => InTime(request'[q])
      /\ UNCHANGED <<tier, keys, swept>>
  BY <1>1, <1>2, LetInMoves
<1>4. Rooted(k)
  BY DEF IInv
<1>5. MayMint(request[q])'
  BY <1>1, <1>3, <1>4 DEF MayMint, Reaches, Rooted, Ids, Administers
<1>6. Sound(q)'
  BY <1>3, <1>5 DEF Sound, Staged, MayRevoke, SigningIn
<1>7. RequestsStep
  BY <1>3, <1>6 DEF RequestsStep
<1>8. TiersStay /\ KeysStep /\ Stays
  BY <1>3, Quiet
<1> QED BY <1>3, <1>7, <1>8, Step

LEMMA MintStep == ASSUME IInv, NEW q \in Requests, Mint(q) PROVE IInv'
<1> DEFINE r   == request[q]
           key == [how |-> "minted", name |-> r.name, scopes |-> r.wanted,
                   account |-> r.account, life |-> "good", revoked |-> FALSE,
                   root |-> r.root, tier |-> NoTier, late |-> r.late]
<1>1. r.at = "minting" /\ r \in Request /\ MayMint(r)
  BY DEF Mint, IInv, TypeOK
<1>2. InsertAPIKey(key) /\ Finish(q) /\ UNCHANGED <<tier, swept>>
  BY DEF Mint
<1>3. /\ key \in Key /\ key.how = "minted" /\ key.root = r.root /\ key.scopes = r.wanted
      /\ key.account = r.account /\ key.late = r.late
  BY <1>1 DEF Key, Request
<1> HIDE DEF key
<1>4. Comes(key)
  BY <1>2, <1>3, Inserted DEF IInv
<1>5. r.root \in Ids /\ Administers(keys[r.root].scopes, r.wanted)
  BY <1>1, Transitive DEF MayMint, Reaches
<1>6. KeysStep /\ TiersStay
  BY <1>2, <1>3, <1>4, <1>5 DEF KeysStep, Fits, TiersStay, IInv, TypeOK
<1>7. /\ request'[q] = NoRequest /\ RequestsStep
      /\ \A p \in Requests \ {q} : request'[p] = request[p]
  BY <1>2, Leaves
<1>8. \A a \in swept : tier[a] = "blocked" => (key.account = a => key.late)
  BY <1>1, <1>3 DEF IInv, TypeOK, Late
<1> QED BY <1>2, <1>4, <1>6, <1>7, <1>8, Step DEF InTime, NoRequest

LEMMA AskToRevokeStep ==
    ASSUME IInv, NEW q \in Requests, NEW k \in Ids, NEW other \in Ids,
           AskToRevoke(q, k, keys[other].name)
    PROVE  IInv'
<1>1. LetIn(q, k, "listing", keys[other].name, {}) /\ keys[other].name \in Names \cup Nat
  BY KeyOf DEF AskToRevoke, IInv, Key
<1>2. /\ request' \in [Requests -> Request] /\ request'[q].at = "listing"
      /\ \A p \in Requests \ {q} : request'[p] = request[p]
      /\ \A a \in swept : tier[a] = "blocked" /\ request'[q].account = a => InTime(request'[q])
      /\ UNCHANGED <<tier, keys, swept>>
  BY <1>1, LetInMoves
<1>3. Sound(q)'
  BY <1>2 DEF Sound, Staged, MayMint, MayRevoke, SigningIn
<1>4. RequestsStep
  BY <1>2, <1>3 DEF RequestsStep
<1>5. TiersStay /\ KeysStep /\ Stays
  BY <1>2, Quiet
<1> QED BY <1>2, <1>4, <1>5, Step

LEMMA ListKeysStep == ASSUME IInv, NEW q \in Requests, ListKeys(q) PROVE IInv'
<1>1. request[q].at = "listing" /\ UNCHANGED <<tier, keys, swept>> /\ request[q] \in Request
  BY DEF ListKeys, IInv, TypeOK
<1>2. TiersStay /\ KeysStep /\ Stays
  BY <1>1, Quiet
<1>3. CASE Finish(q)
  <2>1. /\ request'[q] = NoRequest /\ RequestsStep
        /\ \A p \in Requests \ {q} : request'[p] = request[p]
    BY <1>3, Leaves
  <2> QED BY <1>1, <1>2, <2>1, Step DEF InTime, NoRequest
<1>4. CASE /\ \E k \in Newest(request[q].name) : CanGrant(request[q].scopes, keys[k].scopes)
           /\ Goto(q, "revoking")
  <2>1. /\ request' \in [Requests -> Request]
        /\ request'[q] = [request[q] EXCEPT !.at = "revoking"]
        /\ \A p \in Requests \ {q} : request'[p] = request[p]
    BY <1>4, Moves DEF Phases
  <2>2. /\ request'[q].at = "revoking" /\ request'[q].name = request[q].name
        /\ request'[q].scopes = request[q].scopes
    BY <1>1, <2>1 DEF Request
  <2>3. \E k \in Ids : keys[k].name = request[q].name /\ Administers(request[q].scopes, keys[k].scopes)
    BY <1>4 DEF Newest, RevokeAPIKey, CanGrant, Administers
  <2>4. Sound(q)'
    BY <1>1, <2>2, <2>3 DEF Sound, Staged, MayMint, MayRevoke, SigningIn, Ids, Administers
  <2>5. RequestsStep
    BY <2>1, <2>4 DEF RequestsStep
  <2> QED BY <1>1, <1>2, <2>1, <2>2, <2>5, Step DEF InTime
<1> QED BY <1>3, <1>4 DEF ListKeys

LEMMA RevokeStep == ASSUME IInv, NEW q \in Requests, Revoke(q) PROVE IInv'
<1>1. Finish(q) /\ UNCHANGED <<tier, swept>> /\ keys' = Revoked(RevokeAPIKey(request[q].name))
  BY DEF Revoke
<1>2. Stays /\ KeysStep /\ TiersStay
  BY <1>1, Marked DEF IInv, TypeOK, KeysStep, TiersStay
<1>3. /\ request'[q] = NoRequest /\ RequestsStep
      /\ \A p \in Requests \ {q} : request'[p] = request[p]
  BY <1>1, Leaves
<1> QED BY <1>1, <1>2, <1>3, Step DEF InTime, NoRequest

-----------------------------------------------------------------------------
(* Tiers, the host, and what breaks off.                                   *)

LEMMA StartTierMoves ==
    ASSUME IInv, NEW q \in Requests, NEW a \in Accounts, NEW t \in Tiers,
           StartTier(q, a, t), UNCHANGED <<tier, keys, swept>>
    PROVE  IInv'
<1> DEFINE r == [NoRequest EXCEPT !.at = "setting", !.account = a, !.tier = t]
<1>1. r \in Request /\ r.at = "setting" /\ r.account = a /\ r.tier = t
  BY DEF NoRequest, Request, Phases
<1>2. request' = [request EXCEPT ![q] = r]
  BY DEF StartTier
<1> HIDE DEF r
<1>3. /\ request' \in [Requests -> Request] /\ request'[q] = r
      /\ \A p \in Requests \ {q} : request'[p] = request[p]
  BY <1>1, <1>2, One
<1>4. Sound(q)'
  BY <1>1, <1>3 DEF Sound, Staged, MayMint, MayRevoke, SigningIn
<1>5. RequestsStep
  BY <1>3, <1>4 DEF RequestsStep
<1>6. TiersStay /\ KeysStep /\ Stays
  BY Quiet
<1> QED BY <1>1, <1>3, <1>5, <1>6, Step DEF InTime

LEMMA SetTierStep == ASSUME IInv, NEW q \in Requests, SetTier(q) PROVE IInv'
<1> DEFINE a == request[q].account
<1>1. /\ request[q].at = "setting" /\ a \in Accounts /\ request[q] \in Request
      /\ request[q].tier \in Tiers /\ UNCHANGED keys
  BY DEF SetTier, IInv, TypeOK, Staged
<1>2. Stays /\ KeysStep
  BY <1>1, Unchanged DEF IInv, KeysStep
<1>3. /\ TiersStay /\ swept' \subseteq swept
      /\ \A b \in swept' : tier'[b] = tier[b]
  <2>1. CASE UNCHANGED <<tier, swept>>
    BY <2>1 DEF TiersStay, IInv, TypeOK
  <2>2. CASE SetTierTo(a, request[q].tier)
    BY <1>1, <2>2, TierSet
  <2> QED BY <2>1, <2>2 DEF SetTier
<1>4. CASE Finish(q)
  <2>1. /\ request'[q] = NoRequest /\ RequestsStep
        /\ \A p \in Requests \ {q} : request'[p] = request[p]
    BY <1>4, Leaves
  <2> QED BY <1>2, <1>3, <2>1, Step DEF InTime, NoRequest
<1>5. CASE Goto(q, "sweeping")
  <2>1. /\ request' \in [Requests -> Request]
        /\ request'[q] = [request[q] EXCEPT !.at = "sweeping"]
        /\ \A p \in Requests \ {q} : request'[p] = request[p]
    BY <1>5, Moves DEF Phases
  <2>2. request'[q].at = "sweeping" /\ request'[q].account = a
    BY <1>1, <2>1 DEF Request
  <2>3. Sound(q)'
    BY <1>1, <2>2 DEF Sound, Staged, MayMint, MayRevoke, SigningIn
  <2>4. RequestsStep
    BY <2>1, <2>3 DEF RequestsStep
  <2> QED BY <1>2, <1>3, <2>1, <2>2, <2>4, Step DEF InTime
<1> QED BY <1>4, <1>5 DEF SetTier

LEMMA SweepKeysStep == ASSUME IInv, NEW q \in Requests, SweepKeys(q) PROVE IInv'
<1>1. PICK a \in Accounts : a = request[q].account
  BY DEF SweepKeys, IInv, Staged
<1>2. /\ keys' = Revoked(RevokeAccountKeys(a)) /\ swept' = swept \cup {a} /\ UNCHANGED tier
      /\ request' = [p \in Requests |->
           IF p = q THEN NoRequest
           ELSE IF request[p].account = a THEN [request[p] EXCEPT !.late = TRUE]
           ELSE request[p]]
  BY <1>1 DEF SweepKeys
<1>3. /\ Stays /\ KeysStep /\ TiersStay /\ swept' \subseteq Accounts
      /\ \A k \in Ids : keys[k].account = a => ~Usable(keys'[k])
  BY <1>2, Marked DEF IInv, TypeOK, KeysStep, TiersStay, RevokeAccountKeys
<1>4. ASSUME NEW p \in Requests
      PROVE  /\ request'[p] \in Request
             /\ \/ request'[p] = request[p] /\ request[p].account # a
                \/ request'[p] = NoRequest
                \/ request[p].account = a /\ request'[p] = [request[p] EXCEPT !.late = TRUE]
  <2>1. request[p] \in Request /\ NoRequest \in Request
    BY DEF IInv, TypeOK, NoRequest, Request, Phases
  <2> QED BY <1>2, <2>1 DEF Request
<1>5. RequestsStep
  <2>1. request' \in [Requests -> Request]
    BY <1>2, <1>4
  <2>2. ASSUME NEW p \in Requests, request'[p] # request[p] PROVE Sound(p)'
    <3>1. CASE request'[p] = NoRequest
      BY <3>1 DEF Sound, Staged, MayMint, MayRevoke, NoRequest, SigningIn
    <3>2. CASE request'[p] = [request[p] EXCEPT !.late = TRUE]
      <4>1. PICK r : r = request[p]
        OBVIOUS
      <4>2. r \in Request /\ Staged(r) /\ MayMint(r) /\ MayRevoke(r)
        BY <4>1 DEF IInv, TypeOK
      <4>3. /\ request'[p].at = r.at /\ request'[p].account = r.account /\ request'[p].tier = r.tier
            /\ request'[p].scopes = r.scopes /\ request'[p].root = r.root
            /\ request'[p].name = r.name /\ request'[p].wanted = r.wanted
        BY <3>2, <4>1, <4>2 DEF Request
      <4>4. Staged(r)' /\ MayMint(r)' /\ MayRevoke(r)'
        BY <1>2, <1>3, <4>2, Persists DEF IInv, Staged
      <4> QED BY <4>3, <4>4 DEF Sound, Staged, MayMint, MayRevoke
    <3> QED BY <2>2, <3>1, <3>2, <1>4
  <2> QED BY <2>1, <2>2 DEF RequestsStep
<1>6. Late(a)'
  <2>1. ASSUME NEW k \in Ids' PROVE ~(keys'[k].account = a /\ Usable(keys'[k]))
    BY <1>3 DEF Stays, Same
  <2>2. ASSUME NEW p \in Requests, request'[p].account = a PROVE request'[p].late
    <3>1. request[p] \in Request /\ NoRequest.account = Operator /\ a # Operator
      BY AccountsAssumption DEF IInv, TypeOK, NoRequest
    <3> QED BY <1>4, <2>2, <3>1 DEF Request
  <2> QED BY <2>1, <2>2 DEF Late, Usable
<1>7. ASSUME NEW b \in Accounts, b # a PROVE Late(b)'
  <2>1. \A p \in Requests : request'[p] = request[p] \/ (request'[p].account = b => InTime(request'[p]))
    <3> SUFFICES ASSUME NEW p \in Requests, request'[p] # request[p]
                 PROVE  request'[p].account # b
      OBVIOUS
    <3>1. request[p] \in Request
      BY DEF IInv, TypeOK
    <3>2. NoRequest.account # b
      BY AccountsAssumption DEF NoRequest
    <3> QED BY <1>4, <1>7, <3>1, <3>2 DEF Request
  <2> QED BY <1>2, <1>3, <1>7, <2>1, LateStays
<1> QED BY <1>3, <1>5, <1>6, <1>7, AllButLate DEF IInv, Sound

LEMMA AddKeyStep ==
    ASSUME IInv, NEW name \in Names, NEW scopes \in Wanted, AddKey(name, scopes)
    PROVE  IInv'
<1> DEFINE key == [how |-> "operator", name |-> name, scopes |-> scopes,
                   account |-> Operator, life |-> "endless", revoked |-> FALSE,
                   root |-> Len(keys) + 1, tier |-> NoTier, late |-> FALSE]
<1>1. InsertAPIKey(key) /\ UNCHANGED <<tier, request, swept>> /\ Len(keys) \in Nat
  BY DEF AddKey, IInv, TypeOK
<1>2. key \in Key /\ key.how = "operator" /\ key.root = Len(keys) + 1 /\ key.account = Operator
  BY <1>1, AccountsAssumption DEF Key
<1> HIDE DEF key
<1>3. Comes(key)
  BY <1>1, <1>2, Inserted DEF IInv
<1>4. KeysStep /\ TiersStay /\ RequestsStep
  BY <1>1, <1>2, <1>3 DEF KeysStep, Fits, TiersStay, RequestsStep, IInv, TypeOK
<1>5. \A a \in swept : key.account # a
  BY <1>2, AccountsAssumption DEF IInv, TypeOK
<1> QED BY <1>1, <1>3, <1>4, <1>5, Step

LEMMA KeysOnly ==
    ASSUME IInv, UNCHANGED <<tier, request, swept>>, Stays
    PROVE  IInv'
<1>1. KeysStep /\ TiersStay /\ RequestsStep
  BY DEF KeysStep, TiersStay, RequestsStep, IInv, TypeOK
<1> QED BY <1>1, Step

LEMMA AbandonStep == ASSUME IInv, NEW q \in Requests, Abandon(q) PROVE IInv'
<1>1. /\ request'[q] = NoRequest /\ RequestsStep
      /\ \A p \in Requests \ {q} : request'[p] = request[p]
  BY Leaves DEF Abandon
<1>2. TiersStay /\ KeysStep /\ Stays /\ UNCHANGED <<tier, swept>>
  BY Quiet DEF Abandon
<1> QED BY <1>1, <1>2, Step DEF InTime, NoRequest

-----------------------------------------------------------------------------
(* The invariant and what follows.                                         *)

LEMMA InitHolds == Init => IInv
<1> SUFFICES ASSUME Init PROVE IInv
  OBVIOUS
<1>1. NoRequest \in Request /\ \A q \in Requests : request[q] = NoRequest
  BY DEF Init, NoRequest, Request, Phases
<1>2. keys = <<>> /\ keys \in Seq(Key) /\ Ids = {} /\ swept = {}
  BY DEF Init, Ids
<1>3. TypeOK
  BY <1>1, <1>2 DEF Init, TypeOK
<1>4. \A q \in Requests : Staged(request[q]) /\ MayMint(request[q]) /\ MayRevoke(request[q])
  BY <1>1 DEF Staged, MayMint, MayRevoke, NoRequest, SigningIn
<1> QED BY <1>2, <1>3, <1>4 DEF IInv, OfOneName, Late

LEMMA NextHolds == ASSUME IInv, [Next]_vars PROVE IInv'
<1>1. ASSUME NEW q \in Requests, SignIn(q) PROVE IInv'
  BY <1>1, RedeemStep, UpsertAccountStep, BlessStep, ReadAccountStep, CountKeysStep, IssueStep DEF SignIn
<1>2. ASSUME NEW q \in Requests, ManageKeys(q) PROVE IInv'
  BY <1>2, AskForKeyStep, MintStep, AskToRevokeStep, ListKeysStep, RevokeStep DEF ManageKeys
<1>3. ASSUME NEW q \in Requests, ChangeTier(q) PROVE IInv'
  <2>1. ASSUME NEW k \in Ids, NEW a \in Accounts, NEW t \in Tiers, AskForTier(q, k, a, t) PROVE IInv'
    BY <2>1, StartTierMoves DEF AskForTier
  <2>2. ASSUME NEW a \in Accounts, NEW t \in Tiers, CommandTier(q, a, t) PROVE IInv'
    BY <2>2, StartTierMoves DEF CommandTier
  <2> QED BY <1>3, <2>1, <2>2, SetTierStep, SweepKeysStep DEF ChangeTier
<1>4. ASSUME OnHost PROVE IInv'
  <2>1. ASSUME NEW k \in Ids, RevokeOnHost(keys[k].name) PROVE IInv'
    BY <2>1, Marked, KeysOnly DEF RevokeOnHost, IInv
  <2> QED BY <1>4, <2>1, AddKeyStep DEF OnHost
<1>5. ASSUME NEW k \in Ids, Expire(k) PROVE IInv'
  BY <1>5, Aged, KeysOnly DEF Expire, IInv
<1>6. CASE UNCHANGED vars
  BY <1>6, Unchanged, KeysOnly DEF vars, IInv
<1> QED BY <1>1, <1>2, <1>3, <1>4, <1>5, <1>6, AbandonStep DEF Next

\* The inductive invariant.  None of the three properties below is inductive:
\* each needs what a request that is under way was let to do, and on which key.
THEOREM Accounted == Spec => []IInv
<1> QED BY InitHolds, NextHolds, PTL DEF Spec

\* No chain of minting widens access, however long.
THEOREM MintedWithinRoot == Spec => []WithinRoot
<1>1. IInv => WithinRoot
  BY DEF IInv, Rooted, WithinRoot
<1> QED BY <1>1, Accounted, PTL

\* A blocked account keeps no usable key, but what was too late to be swept.
THEOREM BlockedIsOut == Spec => []BlockedKeepsNone
<1>1. IInv => BlockedKeepsNone
  BY DEF IInv, TypeOK, Late, BlockedKeepsNone, LiveKeysFor
<1> QED BY <1>1, Accounted, PTL

\* A key that is revoked by name is one that its revoker administers.
THEOREM RevokesItsOwn == Spec => RevokesWhatItMay
<1>1. ASSUME IInv, NEW q \in Requests, Revoke(q), NEW k \in Ids, keys[k] # keys'[k]
      PROVE  Administers(request[q].scopes, keys[k].scopes)
  <2>1. k \in RevokeAPIKey(request[q].name)
    BY <1>1, Marked DEF Revoke, IInv
  <2>2. PICK j \in Ids : keys[j].name = request[q].name /\ Administers(request[q].scopes, keys[j].scopes)
    BY <1>1 DEF Revoke, IInv, MayRevoke
  <2> QED BY <2>1, <2>2, <1>1 DEF RevokeAPIKey, IInv, OfOneName
<1>2. IInv => (\A q \in Requests : Revoke(q) =>
                \A k \in Ids : keys[k] # keys'[k] => Administers(request[q].scopes, keys[k].scopes))
  BY <1>1
<1> QED BY <1>2, Accounted, PTL DEF RevokesWhatItMay

-----------------------------------------------------------------------------
(* How many keys an account is issued.                                     *)

\* A tier that limits its keys, and to no more than so many.
LimitedTo(t, most) == LimitsOf[t].tokens > 0 /\ LimitsOf[t].tokens <= most

IssuedWithin(a, most) == {k \in LiveIssued(a) : LimitedTo(keys[k].tier, most)}

Issuing(r, a, most) == r.at = "issuing" /\ r.account = a /\ LimitedTo(r.tier, most)

AboutToIssue(a, most) == {q \in Requests : Issuing(request[q], a, most)}

\* For every number: the keys issued under tiers of that limit or less, and
\* those about to be, are fewer than that and one for each request.  The keys
\* of one tier alone would not do: the others count against its limit too.
Tallied ==
    /\ \A k \in Ids : keys[k].how = "issued" => keys[k].tier \in Tiers
    /\ \A a \in Accounts, most \in Nat \ {0} :
          Cardinality(IssuedWithin(a, most)) + Cardinality(AboutToIssue(a, most))
              <= most - 1 + Cardinality(Requests)

LEMMA Tally ==
    ASSUME TypeOK, NEW a, NEW most
    PROVE  /\ IsFiniteSet(LiveKeysFor(a)) /\ Cardinality(LiveKeysFor(a)) \in Nat
           /\ IsFiniteSet(LiveIssued(a)) /\ Cardinality(LiveIssued(a)) \in Nat
           /\ IsFiniteSet(IssuedWithin(a, most)) /\ Cardinality(IssuedWithin(a, most)) \in Nat
           /\ Cardinality(IssuedWithin(a, most)) <= Cardinality(LiveKeysFor(a))
           /\ IsFiniteSet(AboutToIssue(a, most))
           /\ Cardinality(AboutToIssue(a, most)) \in 0..Cardinality(Requests)
           /\ Cardinality(Requests) \in Nat
<1>1. Len(keys) \in Nat /\ IsFiniteSet(Requests)
  BY AccountsAssumption DEF TypeOK
<1>2. IsFiniteSet(Ids)
  BY <1>1, FS_Interval DEF Ids
<1>3. /\ LiveKeysFor(a) \in SUBSET Ids /\ LiveIssued(a) \in SUBSET LiveKeysFor(a)
      /\ IssuedWithin(a, most) \in SUBSET LiveKeysFor(a)
      /\ AboutToIssue(a, most) \in SUBSET Requests
  BY DEF LiveKeysFor, LiveIssued, IssuedWithin, AboutToIssue
<1>4. IsFiniteSet(LiveKeysFor(a))
  BY <1>2, <1>3, FS_Subset
<1>5. /\ IsFiniteSet(LiveIssued(a)) /\ IsFiniteSet(IssuedWithin(a, most))
      /\ Cardinality(IssuedWithin(a, most)) <= Cardinality(LiveKeysFor(a))
      /\ IsFiniteSet(AboutToIssue(a, most))
      /\ Cardinality(AboutToIssue(a, most)) <= Cardinality(Requests)
  BY <1>1, <1>3, <1>4, FS_Subset
<1>6. /\ Cardinality(LiveKeysFor(a)) \in Nat /\ Cardinality(LiveIssued(a)) \in Nat
      /\ Cardinality(IssuedWithin(a, most)) \in Nat /\ Cardinality(AboutToIssue(a, most)) \in Nat
      /\ Cardinality(Requests) \in Nat
  BY <1>1, <1>4, <1>5, FS_CardinalityType
<1> QED BY <1>4, <1>5, <1>6

\* Most steps issue no key and bring no request to where it issues one.
NoneMore ==
    /\ Stays \/ \E key : Comes(key) /\ key.how # "issued"
    /\ \A q \in Requests : request'[q].at = "issuing" =>
          /\ request[q].at = "issuing"
          /\ request'[q].account = request[q].account /\ request'[q].tier = request[q].tier

LEMMA NoneMoreTallied ==
    ASSUME TypeOK, TypeOK', Tallied, NoneMore
    PROVE  Tallied'
<1>1. ASSUME NEW a \in Accounts, NEW most \in Nat \ {0}
      PROVE  Cardinality(IssuedWithin(a, most)') + Cardinality(AboutToIssue(a, most)')
                 <= most - 1 + Cardinality(Requests)
  <2>1. IssuedWithin(a, most)' \in SUBSET IssuedWithin(a, most)
    BY DEF NoneMore, Stays, Comes, Same, IssuedWithin, LiveIssued, LiveKeysFor, Usable, LimitedTo
  <2>2. AboutToIssue(a, most)' \in SUBSET AboutToIssue(a, most)
    BY DEF NoneMore, AboutToIssue, Issuing, LimitedTo
  <2>3. /\ IsFiniteSet(IssuedWithin(a, most)) /\ Cardinality(IssuedWithin(a, most)) \in Nat
        /\ IsFiniteSet(AboutToIssue(a, most)) /\ Cardinality(AboutToIssue(a, most)) \in Nat
        /\ Cardinality(Requests) \in Nat
    BY Tally
  <2>4. /\ IsFiniteSet(IssuedWithin(a, most)') /\ IsFiniteSet(AboutToIssue(a, most)')
        /\ Cardinality(IssuedWithin(a, most)') <= Cardinality(IssuedWithin(a, most))
        /\ Cardinality(AboutToIssue(a, most)') <= Cardinality(AboutToIssue(a, most))
    BY <2>1, <2>2, <2>3, FS_Subset
  <2>5. Cardinality(IssuedWithin(a, most)') \in Nat /\ Cardinality(AboutToIssue(a, most)') \in Nat
    BY <2>4, FS_CardinalityType
  <2> QED BY <2>3, <2>4, <2>5 DEF Tallied
<1>2. (\A k \in Ids : keys[k].how = "issued" => keys[k].tier \in Tiers)'
  BY DEF Tallied, NoneMore, Stays, Comes, Same
<1> QED BY <1>1, <1>2 DEF Tallied

LEMMA CountTallied ==
    ASSUME IInv, IInv', Tallied, NEW q \in Requests, CountKeys(q)
    PROVE  Tallied'
<1>1. /\ request[q].at = "counting" /\ UNCHANGED <<tier, keys, swept>> /\ request[q] \in Request
      /\ request[q].tier \in Tiers /\ TypeOK /\ TypeOK'
  BY DEF CountKeys, IInv, TypeOK, Staged
<1>2. CASE Finish(q)
  <2>1. request'[q] = NoRequest /\ \A p \in Requests \ {q} : request'[p] = request[p]
    BY <1>2, Leaves
  <2>2. NoneMore
    BY <1>1, <2>1, Unchanged DEF NoneMore, NoRequest
  <2> QED BY <1>1, <2>2, NoneMoreTallied
<1>3. CASE /\ Goto(q, "issuing")
           /\ ~AtTokenLimit(request[q].tier, Cardinality(LiveKeysFor(request[q].account)))
  <2>1. /\ request'[q] = [request[q] EXCEPT !.at = "issuing"]
        /\ \A p \in Requests \ {q} : request'[p] = request[p]
    BY <1>3, Moves DEF Phases, SigningIn
  <2>2. request'[q].account = request[q].account /\ request'[q].tier = request[q].tier
    BY <1>1, <2>1 DEF Request
  <2>3. ASSUME NEW a \in Accounts, NEW most \in Nat \ {0}
        PROVE  Cardinality(IssuedWithin(a, most)') + Cardinality(AboutToIssue(a, most)')
                   <= most - 1 + Cardinality(Requests)
    <3>1. IssuedWithin(a, most)' = IssuedWithin(a, most)
      BY <1>1 DEF IssuedWithin, LiveIssued, LiveKeysFor, Ids, LimitedTo, Usable
    <3>2. /\ Cardinality(IssuedWithin(a, most)) \in Nat
          /\ Cardinality(LiveKeysFor(a)) \in Nat
          /\ Cardinality(IssuedWithin(a, most)) <= Cardinality(LiveKeysFor(a))
          /\ IsFiniteSet(AboutToIssue(a, most)) /\ Cardinality(AboutToIssue(a, most)) \in Nat
          /\ Cardinality(Requests) \in Nat
      BY <1>1, Tally
    <3>3. /\ IsFiniteSet(AboutToIssue(a, most)') /\ Cardinality(AboutToIssue(a, most)') \in Nat
          /\ Cardinality(AboutToIssue(a, most)') <= Cardinality(Requests)
      <4>1. AboutToIssue(a, most)' \in SUBSET Requests /\ IsFiniteSet(Requests)
        BY AccountsAssumption DEF AboutToIssue
      <4> QED BY <4>1, FS_Subset, FS_CardinalityType
    <3>4. CASE request[q].account = a /\ LimitedTo(request[q].tier, most)
      <4>1. LimitsOf[request[q].tier].tokens \in Nat
        BY <1>1, PolicyAssumption DEF Limits
      <4>2. Cardinality(LiveKeysFor(a)) < most
        BY <4>1, <1>3, <3>2, <3>4 DEF AtTokenLimit, Reached, LimitedTo
      <4> QED BY <4>2, <3>1, <3>2, <3>3
    <3>5. CASE ~(request[q].account = a /\ LimitedTo(request[q].tier, most))
      <4>1. AboutToIssue(a, most)' \in SUBSET AboutToIssue(a, most)
        BY <2>1, <2>2, <3>5 DEF AboutToIssue, Issuing, LimitedTo
      <4>2. Cardinality(AboutToIssue(a, most)') <= Cardinality(AboutToIssue(a, most))
        BY <4>1, <3>2, FS_Subset
      <4> QED BY <4>2, <3>1, <3>2, <3>3 DEF Tallied
    <3> QED BY <3>4, <3>5
  <2> QED BY <1>1, <2>3 DEF Tallied, Ids
<1> QED BY <1>2, <1>3 DEF CountKeys

LEMMA IssueTallied ==
    ASSUME IInv, IInv', Tallied, NEW q \in Requests, Issue(q)
    PROVE  Tallied'
<1> DEFINE r   == request[q]
           key == [how |-> "issued", name |-> Len(keys) + 1, scopes |-> Scopes(r.tier, r.account),
                   account |-> r.account, life |-> "good", revoked |-> FALSE,
                   root |-> Len(keys) + 1, tier |-> r.tier, late |-> r.late]
<1>1. /\ r.at = "issuing" /\ r \in Request /\ r.account \in Accounts /\ TypeOK
      /\ r.tier \in Tiers \ {"blocked"} /\ Len(keys) \in Nat
  BY DEF Issue, IInv, TypeOK, Staged, SigningIn
<1>2. InsertAPIKey(key) /\ Finish(q)
  BY DEF Issue
<1>3. Scopes(r.tier, r.account) \subseteq Scope
  BY <1>1, PolicyAssumption DEF Scopes, Scope
<1>4. key \in Key /\ key.how = "issued" /\ key.account = r.account /\ key.tier = r.tier
  BY <1>1, <1>3 DEF Key, Request
<1> HIDE DEF key
<1>5. PICK n : /\ n = Len(keys) + 1 /\ Ids' = Ids \cup {n} /\ n \notin Ids /\ keys'[n] = key
               /\ \A k \in Ids : keys'[k] = keys[k]
  BY <1>1, <1>2, <1>4, Inserted DEF Comes
<1>6. request'[q] = NoRequest /\ \A p \in Requests \ {q} : request'[p] = request[p]
  BY <1>2, Leaves
<1>7. ASSUME NEW a \in Accounts, NEW most \in Nat \ {0}
      PROVE  Cardinality(IssuedWithin(a, most)') + Cardinality(AboutToIssue(a, most)')
                 <= most - 1 + Cardinality(Requests)
  <2>1. /\ IsFiniteSet(IssuedWithin(a, most)) /\ Cardinality(IssuedWithin(a, most)) \in Nat
        /\ IsFiniteSet(AboutToIssue(a, most)) /\ Cardinality(AboutToIssue(a, most)) \in Nat
        /\ Cardinality(Requests) \in Nat
    BY <1>1, Tally
  <2>2. AboutToIssue(a, most)' = AboutToIssue(a, most) \ {q}
    BY <1>6 DEF AboutToIssue, Issuing, NoRequest, LimitedTo
  <2>3. CASE r.account = a /\ LimitedTo(r.tier, most)
    <3>1. q \in AboutToIssue(a, most)
      BY <1>1, <2>3 DEF AboutToIssue, Issuing
    <3>2. Cardinality(AboutToIssue(a, most)') = Cardinality(AboutToIssue(a, most)) - 1
      BY <2>1, <2>2, <3>1, FS_RemoveElement
    <3>3. IssuedWithin(a, most)' \in SUBSET (IssuedWithin(a, most) \cup {n})
      BY <1>5 DEF IssuedWithin, LiveIssued, LiveKeysFor, Usable, LimitedTo
    <3>4. /\ IsFiniteSet(IssuedWithin(a, most) \cup {n})
          /\ Cardinality(IssuedWithin(a, most) \cup {n}) =
                IF n \in IssuedWithin(a, most) THEN Cardinality(IssuedWithin(a, most))
                ELSE Cardinality(IssuedWithin(a, most)) + 1
      BY <2>1, FS_AddElement, Zenon
    <3>5. /\ IsFiniteSet(IssuedWithin(a, most)')
          /\ Cardinality(IssuedWithin(a, most)') <= Cardinality(IssuedWithin(a, most) \cup {n})
      BY <3>3, <3>4, FS_Subset
    <3>6. Cardinality(IssuedWithin(a, most)') \in Nat
      BY <3>5, FS_CardinalityType
    <3> QED BY <2>1, <3>2, <3>4, <3>5, <3>6 DEF Tallied
  <2>4. CASE ~(r.account = a /\ LimitedTo(r.tier, most))
    <3>1. IssuedWithin(a, most)' \in SUBSET IssuedWithin(a, most)
      BY <1>4, <1>5, <2>4 DEF IssuedWithin, LiveIssued, LiveKeysFor, Usable, LimitedTo
    <3>2. AboutToIssue(a, most)' \in SUBSET AboutToIssue(a, most)
      BY <2>2
    <3>3. /\ IsFiniteSet(IssuedWithin(a, most)') /\ IsFiniteSet(AboutToIssue(a, most)')
          /\ Cardinality(IssuedWithin(a, most)') <= Cardinality(IssuedWithin(a, most))
          /\ Cardinality(AboutToIssue(a, most)') <= Cardinality(AboutToIssue(a, most))
      BY <2>1, <3>1, <3>2, FS_Subset
    <3>4. Cardinality(IssuedWithin(a, most)') \in Nat /\ Cardinality(AboutToIssue(a, most)') \in Nat
      BY <3>3, FS_CardinalityType
    <3> QED BY <2>1, <3>3, <3>4 DEF Tallied
  <2> QED BY <2>3, <2>4
<1>8. (\A k \in Ids : keys[k].how = "issued" => keys[k].tier \in Tiers)'
  BY <1>1, <1>4, <1>5 DEF Tallied
<1> QED BY <1>7, <1>8 DEF Tallied

\* A step of one request, which is not about to issue a key after it.
LEMMA OneMoves ==
    ASSUME NEW q \in Requests, request'[q].at # "issuing",
           \A p \in Requests \ {q} : request'[p] = request[p],
           Stays \/ \E key : Comes(key) /\ key.how # "issued"
    PROVE  NoneMore
  BY DEF NoneMore

LEMMA SignInTallied ==
    ASSUME IInv, IInv', Tallied, NEW q \in Requests, SignIn(q)
    PROVE  Tallied'
<1>1. TypeOK /\ TypeOK' /\ request[q] \in Request /\ NoRequest \in Request
  BY DEF IInv, TypeOK, NoRequest, Request, Phases
<1>2. ASSUME NEW r \in Request, request' = [request EXCEPT ![q] = r], r.at # "issuing",
             UNCHANGED keys
      PROVE  Tallied'
  BY <1>1, <1>2, One, Unchanged, OneMoves, NoneMoreTallied
<1>3. ASSUME NEW a \in Accounts, Redeem(q, a) PROVE Tallied'
  <2>1. [NoRequest EXCEPT !.at = "redeemed", !.account = a] \in Request
    BY DEF NoRequest, Request, Phases, SigningIn
  <2> QED BY <1>2, <1>3, <2>1 DEF Redeem, NoRequest
<1>4. ASSUME NEW at \in {"upserted", "known"}, Goto(q, at), UNCHANGED keys PROVE Tallied'
  <2>1. [request[q] EXCEPT !.at = at] \in Request /\ [request[q] EXCEPT !.at = at].at # "issuing"
    BY <1>1 DEF Request, Phases, SigningIn
  <2>2. request' = [request EXCEPT ![q] = [request[q] EXCEPT !.at = at]]
    BY <1>4 DEF Goto, IInv, TypeOK
  <2> QED BY <1>2, <1>4, <2>1, <2>2
<1>5. CASE ReadAccount(q)
  <2>1. request' \in [Requests -> Request] /\ UNCHANGED keys
    BY <1>1, <1>5 DEF ReadAccount, TypeOK
  <2>2. /\ request'[q].at \in {"idle", "counting"}
        /\ \A p \in Requests \ {q} : request'[p] = request[p]
    BY <1>1, <1>5 DEF ReadAccount, TypeOK, NoRequest, Request
  <2> QED BY <1>1, <2>1, <2>2, Unchanged, OneMoves, NoneMoreTallied
<1> QED BY <1>3, <1>4, <1>5, CountTallied, IssueTallied DEF SignIn, UpsertAccount, Bless

LEMMA ManageTallied ==
    ASSUME IInv, IInv', Tallied, NEW q \in Requests, ManageKeys(q)
    PROVE  Tallied'
<1>1. TypeOK /\ TypeOK' /\ request[q] \in Request
  BY DEF IInv, TypeOK
<1>2. ASSUME NEW k \in Ids, NEW at \in {"minting", "listing"}, NEW name, name \in Names \cup Nat,
             NEW wanted \in SUBSET Scope, LetIn(q, k, at, name, wanted)
      PROVE  Tallied'
  <2>1. /\ request'[q].at = at /\ UNCHANGED keys
        /\ \A p \in Requests \ {q} : request'[p] = request[p]
    BY <1>2, LetInMoves
  <2> QED BY <1>1, <2>1, Unchanged, OneMoves, NoneMoreTallied
<1>3. ASSUME NEW k \in Ids, NEW name \in Names, NEW wanted \in Wanted, AskForKey(q, k, name, wanted)
      PROVE  Tallied'
  BY <1>2, <1>3, AccountsAssumption DEF AskForKey
<1>4. ASSUME NEW k \in Ids, NEW other \in Ids, AskToRevoke(q, k, keys[other].name)
      PROVE  Tallied'
  <2>1. keys[other].name \in Names \cup Nat
    BY <1>1, KeyOf DEF Key
  <2> QED BY <1>2, <1>4, <2>1 DEF AskToRevoke
<1>5. CASE Mint(q)
  <2> DEFINE r   == request[q]
             key == [how |-> "minted", name |-> r.name, scopes |-> r.wanted,
                     account |-> r.account, life |-> "good", revoked |-> FALSE,
                     root |-> r.root, tier |-> NoTier, late |-> r.late]
  <2>1. key \in Key /\ key.how = "minted"
    BY <1>1 DEF Key, Request
  <2>2. InsertAPIKey(key) /\ Finish(q)
    BY <1>5 DEF Mint
  <2> HIDE DEF key
  <2>3. Comes(key) /\ key.how # "issued"
    BY <1>1, <2>1, <2>2, Inserted
  <2>4. request'[q].at # "issuing" /\ \A p \in Requests \ {q} : request'[p] = request[p]
    BY <2>2, Leaves DEF NoRequest
  <2> QED BY <1>1, <2>3, <2>4, OneMoves, NoneMoreTallied
<1>6. CASE ListKeys(q)
  <2>1. /\ request'[q].at # "issuing" /\ UNCHANGED keys
        /\ \A p \in Requests \ {q} : request'[p] = request[p]
    <3>1. UNCHANGED keys
      BY <1>6 DEF ListKeys
    <3>2. CASE Finish(q)
      BY <3>1, <3>2, Leaves DEF NoRequest
    <3>3. CASE Goto(q, "revoking")
      <4>1. /\ request'[q] = [request[q] EXCEPT !.at = "revoking"]
            /\ \A p \in Requests \ {q} : request'[p] = request[p]
        BY <3>3, Moves DEF Phases
      <4>2. request'[q].at = "revoking"
        BY <1>1, <4>1 DEF Request
      <4> QED BY <3>1, <4>1, <4>2
    <3>4. Finish(q) \/ Goto(q, "revoking")
      BY <1>6 DEF ListKeys
    <3> QED BY <3>2, <3>3, <3>4
  <2> QED BY <1>1, <2>1, Unchanged, OneMoves, NoneMoreTallied
<1>7. CASE Revoke(q)
  <2>1. Stays
    BY <1>1, <1>7, Marked DEF Revoke
  <2>2. request'[q].at # "issuing" /\ \A p \in Requests \ {q} : request'[p] = request[p]
    BY <1>7, Leaves DEF Revoke, NoRequest
  <2> QED BY <1>1, <2>1, <2>2, OneMoves, NoneMoreTallied
<1> QED BY <1>3, <1>4, <1>5, <1>6, <1>7 DEF ManageKeys

LEMMA ChangeTallied ==
    ASSUME IInv, IInv', Tallied, NEW q \in Requests, ChangeTier(q)
    PROVE  Tallied'
<1>1. TypeOK /\ TypeOK' /\ request[q] \in Request
  BY DEF IInv, TypeOK
<1>2. ASSUME NEW a \in Accounts, NEW t \in Tiers, StartTier(q, a, t), UNCHANGED keys
      PROVE  Tallied'
  <2> DEFINE r == [NoRequest EXCEPT !.at = "setting", !.account = a, !.tier = t]
  <2>1. r \in Request /\ r.at # "issuing"
    BY DEF NoRequest, Request, Phases
  <2>2. request' = [request EXCEPT ![q] = r]
    BY <1>2 DEF StartTier
  <2> HIDE DEF r
  <2> QED BY <1>1, <1>2, <2>1, <2>2, One, Unchanged, OneMoves, NoneMoreTallied
<1>3. CASE SetTier(q)
  <2>1. /\ request'[q].at # "issuing" /\ UNCHANGED keys
        /\ \A p \in Requests \ {q} : request'[p] = request[p]
    <3>1. UNCHANGED keys
      BY <1>3 DEF SetTier
    <3>2. CASE Finish(q)
      BY <3>1, <3>2, Leaves DEF NoRequest
    <3>3. CASE Goto(q, "sweeping")
      <4>1. /\ request'[q] = [request[q] EXCEPT !.at = "sweeping"]
            /\ \A p \in Requests \ {q} : request'[p] = request[p]
        BY <3>3, Moves DEF Phases
      <4>2. request'[q].at = "sweeping"
        BY <1>1, <4>1 DEF Request
      <4> QED BY <3>1, <4>1, <4>2
    <3>4. Finish(q) \/ Goto(q, "sweeping")
      BY <1>3 DEF SetTier
    <3> QED BY <3>2, <3>3, <3>4
  <2> QED BY <1>1, <2>1, Unchanged, OneMoves, NoneMoreTallied
<1>4. CASE SweepKeys(q)
  <2>1. Stays
    BY <1>1, <1>4, Marked DEF SweepKeys
  <2>2. ASSUME NEW p \in Requests, request'[p].at = "issuing"
        PROVE  /\ request[p].at = "issuing"
               /\ request'[p].account = request[p].account /\ request'[p].tier = request[p].tier
    <3>1. request[p] \in Request
      BY DEF IInv, TypeOK
    <3>2. request'[p] \in {NoRequest, request[p], [request[p] EXCEPT !.late = TRUE]}
      BY <1>4 DEF SweepKeys
    <3> QED BY <2>2, <3>1, <3>2 DEF NoRequest, Request
  <2> QED BY <1>1, <2>1, <2>2, NoneMoreTallied DEF NoneMore
<1> QED BY <1>2, <1>3, <1>4 DEF ChangeTier, AskForTier, CommandTier

LEMMA TalliedStep == ASSUME IInv, IInv', Tallied, [Next]_vars PROVE Tallied'
<1>1. TypeOK /\ TypeOK'
  BY DEF IInv
<1>2. ASSUME Stays \/ \E key : Comes(key) /\ key.how # "issued", UNCHANGED request
      PROVE  Tallied'
  BY <1>1, <1>2, NoneMoreTallied DEF NoneMore
<1>3. ASSUME NEW q \in Requests, Abandon(q) PROVE Tallied'
  <2>1. UNCHANGED keys /\ request'[q].at # "issuing" /\ \A p \in Requests \ {q} : request'[p] = request[p]
    BY <1>3, Leaves DEF Abandon, NoRequest
  <2> QED BY <1>1, <2>1, Unchanged, OneMoves, NoneMoreTallied
<1>4. ASSUME NEW name \in Names, NEW scopes \in Wanted, AddKey(name, scopes) PROVE Tallied'
  <2> DEFINE key == [how |-> "operator", name |-> name, scopes |-> scopes,
                     account |-> Operator, life |-> "endless", revoked |-> FALSE,
                     root |-> Len(keys) + 1, tier |-> NoTier, late |-> FALSE]
  <2>1. InsertAPIKey(key) /\ UNCHANGED request /\ Len(keys) \in Nat
    BY <1>1, <1>4 DEF AddKey, TypeOK
  <2>2. key \in Key /\ key.how # "issued"
    BY <2>1, AccountsAssumption DEF Key
  <2> HIDE DEF key
  <2> QED BY <1>1, <1>2, <2>1, <2>2, Inserted
<1>5. ASSUME NEW k \in Ids, RevokeOnHost(keys[k].name) PROVE Tallied'
  BY <1>1, <1>2, <1>5, Marked DEF RevokeOnHost
<1>6. ASSUME NEW k \in Ids, Expire(k) PROVE Tallied'
  BY <1>1, <1>2, <1>6, Aged DEF Expire
<1>7. CASE UNCHANGED vars
  BY <1>1, <1>2, <1>7, Unchanged DEF vars
<1> QED BY <1>3, <1>4, <1>5, <1>6, <1>7, SignInTallied, ManageTallied, ChangeTallied DEF Next, OnHost

LEMMA InitTallied == ASSUME Init PROVE Tallied
<1>1. IsFiniteSet(Requests) /\ Cardinality(Requests) \in Nat /\ keys = <<>> /\ Ids = {}
  BY AccountsAssumption, FS_CardinalityType DEF Init, Ids
<1>2. ASSUME NEW a \in Accounts, NEW most \in Nat \ {0}
      PROVE  IssuedWithin(a, most) = {} /\ AboutToIssue(a, most) = {}
  BY <1>1 DEF IssuedWithin, LiveIssued, LiveKeysFor, AboutToIssue, Issuing, Init, NoRequest
<1>3. ASSUME NEW a \in Accounts, NEW most \in Nat \ {0}
      PROVE  Cardinality(IssuedWithin(a, most)) + Cardinality(AboutToIssue(a, most))
                 <= most - 1 + Cardinality(Requests)
  <2>1. Cardinality(IssuedWithin(a, most)) = 0 /\ Cardinality(AboutToIssue(a, most)) = 0
    BY <1>2, FS_EmptySet
  <2> QED BY <1>1, <2>1
<1> QED BY <1>1, <1>3 DEF Tallied

\* A tier more is the loosest of all, or the loosest so far is.
HasLoosest(some) ==
    some = {} \/ \E t \in some : \A u \in some : LimitsOf[u].tokens <= LimitsOf[t].tokens

LEMMA OneTierMore ==
    ASSUME NEW some \in SUBSET Tiers, HasLoosest(some), NEW x \in Tiers,
           \A t \in Tiers : LimitsOf[t].tokens \in Nat
    PROVE  HasLoosest(some \cup {x})
<1>1. CASE some = {}
  <2>1. some \cup {x} = {x} /\ LimitsOf[x].tokens <= LimitsOf[x].tokens
    BY <1>1
  <2> QED BY <2>1 DEF HasLoosest
<1>2. CASE some # {}
  <2>1. PICK t \in some : \A u \in some : LimitsOf[u].tokens <= LimitsOf[t].tokens
    BY <1>2 DEF HasLoosest
  <2>2. \A u \in some : LimitsOf[u].tokens \in Nat
    OBVIOUS
  <2>3. CASE LimitsOf[x].tokens <= LimitsOf[t].tokens
    <3>1. \A u \in some \cup {x} : LimitsOf[u].tokens <= LimitsOf[t].tokens
      BY <2>1, <2>3
    <3> QED BY <3>1 DEF HasLoosest
  <2>4. CASE LimitsOf[t].tokens <= LimitsOf[x].tokens
    <3>1. \A u \in some \cup {x} : LimitsOf[u].tokens <= LimitsOf[x].tokens
      <4> SUFFICES ASSUME NEW u \in some \cup {x} PROVE LimitsOf[u].tokens <= LimitsOf[x].tokens
        OBVIOUS
      <4>1. CASE u \in some
        <5>1. LimitsOf[u].tokens <= LimitsOf[t].tokens
          BY <2>1, <4>1
        <5> QED BY <2>2, <2>4, <4>1, <5>1
      <4>2. CASE u = x
        BY <4>2
      <4> QED BY <4>1, <4>2
    <3> QED BY <3>1 DEF HasLoosest
  <2>5. LimitsOf[x].tokens \in Nat /\ LimitsOf[t].tokens \in Nat
    BY <2>2
  <2> QED BY <2>3, <2>4, <2>5
<1> QED BY <1>1, <1>2

\* Of any tiers that limit their keys, one limits them least.
LEMMA Loosest ==
    ASSUME NEW some \in (SUBSET Tiers) \ {{}}
    PROVE  \E t \in some : \A u \in some : LimitsOf[u].tokens <= LimitsOf[t].tokens
<1>1. \A t \in Tiers : LimitsOf[t].tokens \in Nat
  BY PolicyAssumption DEF Limits
<1> DEFINE one == some \cap {"unknown"}
           two == some \cap {"unknown", "contributor"}
           three == some \cap {"unknown", "contributor", "admin"}
<1>2. HasLoosest({})
  BY DEF HasLoosest
<1>3. one = {} \/ one = {} \cup {"unknown"}
  OBVIOUS
<1>4. two = one \/ two = one \cup {"contributor"}
  OBVIOUS
<1>5. three = two \/ three = two \cup {"admin"}
  OBVIOUS
<1>6. some = three \/ some = three \cup {"blocked"}
  BY DEF Tiers
<1>7. /\ {} \in SUBSET Tiers /\ one \in SUBSET Tiers /\ two \in SUBSET Tiers /\ three \in SUBSET Tiers
      /\ \A t \in {"unknown", "contributor", "admin", "blocked"} : t \in Tiers
  BY DEF Tiers
<1> HIDE DEF one, two, three
<1>8. HasLoosest(one)
  BY <1>1, <1>2, <1>3, <1>7, OneTierMore
<1>9. HasLoosest(two)
  BY <1>1, <1>4, <1>7, <1>8, OneTierMore
<1>10. HasLoosest(three)
  BY <1>1, <1>5, <1>7, <1>9, OneTierMore
<1>11. HasLoosest(some)
  BY <1>1, <1>6, <1>7, <1>10, OneTierMore
<1> QED BY <1>11 DEF HasLoosest


LEMMA TalliedIsBounded == ASSUME IInv, Tallied PROVE IssuedBounded
<1> SUFFICES ASSUME NEW a \in Accounts, LiveIssued(a) # {}
             PROVE  \E k \in LiveIssued(a) :
                        LimitsOf[keys[k].tier].tokens > 0 =>
                            Cardinality(LiveIssued(a))
                                <= LimitsOf[keys[k].tier].tokens + Cardinality(Requests) - 1
  BY DEF IssuedBounded
<1> DEFINE theirs == {keys[k].tier : k \in LiveIssued(a)}
<1>1. TypeOK /\ LiveIssued(a) \subseteq Ids
  BY DEF IInv, LiveIssued, LiveKeysFor
<1>2. \A k \in LiveIssued(a) : keys[k].tier \in Tiers
  BY DEF LiveIssued, LiveKeysFor, Tallied
<1>3. theirs \in (SUBSET Tiers) \ {{}}
  BY <1>2
<1>4. PICK t \in theirs : \A u \in theirs : LimitsOf[u].tokens <= LimitsOf[t].tokens
  BY <1>3, Loosest
<1>5. PICK k \in LiveIssued(a) : keys[k].tier = t
  OBVIOUS
<1>6. \A u \in Tiers : LimitsOf[u].tokens \in Nat
  BY PolicyAssumption DEF Limits
<1>7. CASE \E j \in LiveIssued(a) : LimitsOf[keys[j].tier].tokens = 0
  BY <1>7
<1>8. CASE \A j \in LiveIssued(a) : LimitsOf[keys[j].tier].tokens # 0
  <2>1. PICK most \in Nat \ {0} : most = LimitsOf[t].tokens
    BY <1>2, <1>5, <1>6, <1>8
  <2>2. IssuedWithin(a, most) = LiveIssued(a)
    BY <1>2, <1>4, <1>6, <1>8, <2>1 DEF IssuedWithin, LimitedTo
  <2>3. /\ Cardinality(IssuedWithin(a, most)) + Cardinality(AboutToIssue(a, most))
             <= most - 1 + Cardinality(Requests)
        /\ Cardinality(AboutToIssue(a, most)) \in Nat /\ Cardinality(Requests) \in Nat
        /\ Cardinality(LiveIssued(a)) \in Nat
    BY <1>1, Tally DEF Tallied
  <2> QED BY <1>5, <2>1, <2>2, <2>3
<1> QED BY <1>7, <1>8

\* An account holds no more issued keys than the loosest of the tiers they were
\* issued under allows, and one for every other request at work at once.
THEOREM IssuedKept == Spec => []IssuedBounded
<1>1. Init => Tallied
  BY InitTallied
<1>2. IInv /\ IInv' /\ Tallied /\ [Next]_vars => Tallied'
  BY TalliedStep
<1>3. IInv /\ Tallied => IssuedBounded
  BY TalliedIsBounded
<1> QED BY <1>1, <1>2, <1>3, Accounted, PTL DEF Spec
=============================================================================
