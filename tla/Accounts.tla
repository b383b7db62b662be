------------------------------ MODULE Accounts ------------------------------
(***************************************************************************)
(* Accounts, their tiers and their keys: signing in, minting and revoking  *)
(* keys, and changing a tier, as the sequences of catalog statements that  *)
(* internal/api and cmd/asset-service make them.                           *)
(*                                                                         *)
(* A request is let in by one read of its key; the principal it got then   *)
(* is what every later step goes by.  Each statement is a step, with the   *)
(* steps of every other request in between, and a request may end after    *)
(* any of them.  Keys are never deleted: `keys' lists them as inserted.    *)
(*                                                                         *)
(* A key's root, tier and late, a request's late and the set `swept' are   *)
(* history variables, which no action depends on.                          *)
(***************************************************************************)
EXTENDS Policy, Sequences, FiniteSets

CONSTANTS Configured, \* AdminLogins: accounts named in the configuration
          Names,      \* names people give keys
          Wanted,     \* sets of scopes people ask for
          Requests,   \* requests, and commands on the host, at work at once
          MaxKeys,    \* bound: keys inserted over the whole run
          Operator,   \* the account of a key made on the host: none
          NoTier      \* the tier of an account that never signed in

ASSUME AccountsAssumption ==
    /\ Configured \subseteq Accounts
    /\ Wanted \subseteq (SUBSET Scope) \ {{}}
    /\ IsFiniteSet(Requests)
    /\ Operator \notin Accounts
    /\ Names \cap Nat = {}
    /\ NoTier \notin Tiers

VARIABLES tier,    \* the accounts table
          keys,    \* the api_keys table, in order of insertion
          request, \* what each request is doing
          swept    \* blocked accounts whose keys were revoked for it

vars == <<tier, keys, request, swept>>

-----------------------------------------------------------------------------
(* Types.                                                                  *)

Ids == 1..Len(keys)

\* How a key came to be: `issued' by a sign-in, `minted' by another key, or
\* added by the operator.  A key issued by a sign-in is named after its own id.
Key == [how : {"issued", "minted", "operator"}, name : Names \cup Nat,
        scopes : SUBSET Scope, account : Accounts \cup {Operator},
        life : {"good", "endless", "expired"}, revoked : BOOLEAN,
        root : Nat, tier : (Tiers \ {"blocked"}) \cup {NoTier}, late : BOOLEAN]

SigningIn == {"redeemed", "upserted", "known", "counting", "issuing"}
Phases == {"idle", "minting", "listing", "revoking", "setting", "sweeping"} \cup SigningIn

\* `account' is the principal's account, or the one a sign-in or a change of
\* tier is about; `scopes' and `root' are the principal's.
Request == [at : Phases, account : Accounts \cup {Operator}, scopes : SUBSET Scope,
            root : Nat, name : Names \cup Nat, wanted : SUBSET Scope,
            tier : Tiers \cup {NoTier}, late : BOOLEAN]

NoRequest == [at |-> "idle", account |-> Operator, scopes |-> {}, root |-> 0,
              name |-> 0, wanted |-> {}, tier |-> NoTier, late |-> FALSE]

TypeOK ==
    /\ tier \in [Accounts -> Tiers \cup {NoTier}]
    /\ keys \in Seq(Key)
    /\ request \in [Requests -> Request]
    /\ swept \subseteq Accounts

-----------------------------------------------------------------------------
(* Queries and statements.                                                 *)

Usable(key) == ~key.revoked /\ key.life # "expired"

LiveKeysFor(a) == {k \in Ids : keys[k].account = a /\ Usable(keys[k])}

\* A bug: the table lets two keys have one name.
NeverTaken(name) == FALSE

Taken(name) == \E k \in Ids : keys[k].name = name

InsertAPIKey(key) ==
    /\ Len(keys) < MaxKeys
    /\ ~Taken(key.name)
    /\ keys' = Append(keys, key)

Revoked(which) ==
    [k \in Ids |-> IF k \in which THEN [keys[k] EXCEPT !.revoked = TRUE] ELSE keys[k]]

RevokeAPIKey(name) == {k \in Ids : keys[k].name = name}

\* A bug: only the keys that were issued are taken away.
RevokeIssuedKeys(a) == {k \in Ids : keys[k].account = a /\ keys[k].how = "issued"}

RevokeAccountKeys(a) == {k \in Ids : keys[k].account = a}

Goto(q, at) == request' = [request EXCEPT ![q].at = at]
Finish(q) == request' = [request EXCEPT ![q] = NoRequest]

Init ==
    /\ tier = [a \in Accounts |-> NoTier]
    /\ keys = <<>>
    /\ request = [q \in Requests |-> NoRequest]
    /\ swept = {}

-----------------------------------------------------------------------------
(* Signing in.                                                             *)

\* GitHub says who it is; what it may answer instead changes nothing.
Redeem(q, a) ==
    /\ request[q].at = "idle"
    /\ request' = [request EXCEPT ![q] = [NoRequest EXCEPT !.at = "redeemed", !.account = a]]
    /\ UNCHANGED <<tier, keys, swept>>

\* A new account is unknown; one already there keeps its tier.
UpsertAccount(q) ==
    LET a == request[q].account IN
    /\ request[q].at = "redeemed"
    /\ tier' = [tier EXCEPT ![a] = IF @ = NoTier THEN "unknown" ELSE @]
    /\ Goto(q, IF a \in Configured THEN "upserted" ELSE "known")
    /\ UNCHANGED <<keys, swept>>

SetTierTo(a, t) ==
    /\ tier' = [tier EXCEPT ![a] = t]
    /\ swept' = swept \ {a}

Bless(q) ==
    /\ request[q].at = "upserted"
    /\ SetTierTo(request[q].account, "admin")
    /\ Goto(q, "known")
    /\ UNCHANGED keys

\* A bug: a blocked account is given a key as any other.
ReadAnyAccount(q) ==
    LET a == request[q].account IN
    /\ request[q].at = "known"
    /\ request' = [request EXCEPT ![q].at = "counting", ![q].tier = tier[a]]
    /\ UNCHANGED <<tier, keys, swept>>

ReadAccount(q) ==
    LET a == request[q].account IN
    /\ request[q].at = "known"
    /\ request' = [request EXCEPT ![q] =
        IF tier[a] = "blocked" THEN NoRequest ELSE [@ EXCEPT !.at = "counting", !.tier = tier[a]]]
    /\ UNCHANGED <<tier, keys, swept>>

\* A bug: the limit is what may be there already.
OverTokenLimit(t, live) == LimitsOf[t].tokens > 0 /\ live > LimitsOf[t].tokens

AtTokenLimit(t, live) == Reached(LimitsOf[t].tokens, live)

CountKeys(q) ==
    /\ request[q].at = "counting"
    /\ IF AtTokenLimit(request[q].tier, Cardinality(LiveKeysFor(request[q].account)))
       THEN Finish(q) ELSE Goto(q, "issuing")
    /\ UNCHANGED <<tier, keys, swept>>

Issue(q) ==
    LET r == request[q] IN
    /\ r.at = "issuing"
    /\ InsertAPIKey([how |-> "issued", name |-> Len(keys) + 1, scopes |-> Scopes(r.tier, r.account),
                     account |-> r.account, life |-> "good", revoked |-> FALSE,
                     root |-> Len(keys) + 1, tier |-> r.tier, late |-> r.late])
    /\ Finish(q)
    /\ UNCHANGED <<tier, swept>>

-----------------------------------------------------------------------------
(* Minting and revoking, by the API and by the page alike.                 *)

\* The middleware reads the key once; its scopes are the principal's.
LetIn(q, k, at, name, wanted) ==
    /\ request[q].at = "idle"
    /\ Usable(keys[k])
    /\ request' = [request EXCEPT ![q] =
        [NoRequest EXCEPT !.at = at, !.account = keys[k].account, !.scopes = keys[k].scopes,
            !.root = keys[k].root, !.name = name, !.wanted = wanted, !.late = keys[k].late]]
    /\ UNCHANGED <<tier, keys, swept>>

AskForKey(q, k, name, wanted) ==
    /\ CanGrant(keys[k].scopes, wanted)
    /\ LetIn(q, k, "minting", name, wanted)

Mint(q) ==
    LET r == request[q] IN
    /\ r.at = "minting"
    /\ InsertAPIKey([how |-> "minted", name |-> r.name, scopes |-> r.wanted,
                     account |-> r.account, life |-> "good", revoked |-> FALSE,
                     root |-> r.root, tier |-> NoTier, late |-> r.late])
    /\ Finish(q)
    /\ UNCHANGED <<tier, swept>>

AskToRevoke(q, k, name) == LetIn(q, k, "listing", name, {})

\* ListAPIKeys is newest first, and the first of the name is the one looked at.
Newest(name) == {k \in RevokeAPIKey(name) : \A other \in RevokeAPIKey(name) : other <= k}

ListKeys(q) ==
    LET r == request[q] IN
    /\ r.at = "listing"
    /\ IF \E k \in Newest(r.name) : CanGrant(r.scopes, keys[k].scopes)
       THEN Goto(q, "revoking") ELSE Finish(q)
    /\ UNCHANGED <<tier, keys, swept>>

Revoke(q) ==
    /\ request[q].at = "revoking"
    /\ keys' = Revoked(RevokeAPIKey(request[q].name))
    /\ Finish(q)
    /\ UNCHANGED <<tier, swept>>

-----------------------------------------------------------------------------
(* Changing a tier, over the API or by a command on the host.              *)

StartTier(q, a, t) ==
    request' = [request EXCEPT ![q] =
        [NoRequest EXCEPT !.at = "setting", !.account = a, !.tier = t]]

AskForTier(q, k, a, t) ==
    /\ request[q].at = "idle"
    /\ Usable(keys[k])
    /\ Holds(keys[k].scopes, "admin")
    /\ StartTier(q, a, t)
    /\ UNCHANGED <<tier, keys, swept>>

\* accounts promote, admin, block and reset look the handle up first.
CommandTier(q, a, t) ==
    /\ request[q].at = "idle"
    /\ tier[a] # NoTier
    /\ StartTier(q, a, t)
    /\ UNCHANGED <<tier, keys, swept>>

SetTier(q) ==
    LET r == request[q] IN
    /\ r.at = "setting"
    /\ IF tier[r.account] = NoTier
       THEN Finish(q) /\ UNCHANGED <<tier, swept>>
       ELSE /\ SetTierTo(r.account, r.tier)
            /\ IF r.tier = "blocked" THEN Goto(q, "sweeping") ELSE Finish(q)
    /\ UNCHANGED keys

\* History: whatever of the account's is under way now comes too late to be swept.
SweepKeys(q) ==
    LET a == request[q].account IN
    /\ request[q].at = "sweeping"
    /\ keys' = Revoked(RevokeAccountKeys(a))
    /\ swept' = swept \cup {a}
    /\ request' = [p \in Requests |->
        IF p = q THEN NoRequest
        ELSE IF request[p].account = a THEN [request[p] EXCEPT !.late = TRUE]
        ELSE request[p]]
    /\ UNCHANGED tier

-----------------------------------------------------------------------------
(* The operator on the host, time, and what breaks off.                    *)

AddKey(name, scopes) ==
    /\ InsertAPIKey([how |-> "operator", name |-> name, scopes |-> scopes,
                     account |-> Operator, life |-> "endless", revoked |-> FALSE,
                     root |-> Len(keys) + 1, tier |-> NoTier, late |-> FALSE])
    /\ UNCHANGED <<tier, request, swept>>

RevokeOnHost(name) ==
    /\ keys' = Revoked(RevokeAPIKey(name))
    /\ UNCHANGED <<tier, request, swept>>

Expire(k) ==
    /\ keys[k].life = "good"
    /\ keys' = [keys EXCEPT ![k].life = "expired"]
    /\ UNCHANGED <<tier, request, swept>>

\* The client goes away, a statement fails, or the process stops.
Abandon(q) ==
    /\ request[q].at # "idle"
    /\ Finish(q)
    /\ UNCHANGED <<tier, keys, swept>>

SignIn(q) ==
    \/ \E a \in Accounts : Redeem(q, a)
    \/ UpsertAccount(q) \/ Bless(q) \/ ReadAccount(q) \/ CountKeys(q) \/ Issue(q)

ManageKeys(q) ==
    \/ \E k \in Ids, name \in Names, wanted \in Wanted : AskForKey(q, k, name, wanted)
    \/ Mint(q)
    \/ \E k \in Ids, other \in Ids : AskToRevoke(q, k, keys[other].name)
    \/ ListKeys(q) \/ Revoke(q)

ChangeTier(q) ==
    \/ \E k \in Ids, a \in Accounts, t \in Tiers : AskForTier(q, k, a, t)
    \/ \E a \in Accounts, t \in Tiers : CommandTier(q, a, t)
    \/ SetTier(q) \/ SweepKeys(q)

OnHost ==
    \/ \E name \in Names, scopes \in Wanted : AddKey(name, scopes)
    \/ \E k \in Ids : RevokeOnHost(keys[k].name)

Next ==
    \/ \E q \in Requests : SignIn(q) \/ ManageKeys(q) \/ ChangeTier(q) \/ Abandon(q)
    \/ OnHost
    \/ \E k \in Ids : Expire(k)

Spec == Init /\ [][Next]_vars

-----------------------------------------------------------------------------
(* Properties.                                                             *)

Administers(scopes, what) == \A scope \in what : Can(scopes, "admin", scope.on)

\* No chain of minting widens access: whatever a minted key holds, on a
\* namespace that the key its chain began with, issued or made on the host,
\* administers.
WithinRoot ==
    \A k \in Ids : keys[k].how = "minted" =>
        Administers(keys[keys[k].root].scopes, keys[k].scopes)

\* Once the keys of a blocked account were revoked it holds no usable one, but
\* for those of requests already let in by then, and what these go on to mint.
BlockedKeepsNone ==
    \A a \in swept, k \in Ids :
        tier[a] = "blocked" /\ k \in LiveKeysFor(a) => keys[k].late

LiveIssued(a) == {k \in LiveKeysFor(a) : keys[k].how = "issued"}

\* The limit is read in one statement and used in another, so an account can
\* hold more issued keys than its tier allows, by the other requests at once.
IssuedBounded ==
    \A a \in Accounts :
        LiveIssued(a) # {} =>
            \E k \in LiveIssued(a) :
                LET most == LimitsOf[keys[k].tier].tokens IN
                most > 0 => Cardinality(LiveIssued(a)) <= most + Cardinality(Requests) - 1

\* The key that goes when somebody revokes a name is one they may administer,
\* although it was looked up in one statement and revoked in another.
RevokesWhatItMay ==
    [][\A q \in Requests : Revoke(q) =>
        \A k \in Ids : keys[k] # keys'[k] => Administers(request[q].scopes, keys[k].scopes)]_vars
=============================================================================
