----------------------------- MODULE MCAccounts -----------------------------
(***************************************************************************)
(* Admission, and with it Accounts, for TLC: `guest' signs in like anybody *)
(* and `boss' is named in the configuration.  Before a sign-in comes its   *)
(* start, which Throttle lets through or not.  The product of everything   *)
(* anybody may do is out of reach, so a behaviour mixes the operations of  *)
(* one of five kinds, chosen at the start.                                 *)
(***************************************************************************)
EXTENDS Admission, Throttle, TLC

CONSTANTS boss, guest, web, guests, bosses, n1

VARIABLE mix

MCHome == [a \in Accounts |-> IF a = boss THEN bosses ELSE guests]

\* Numbers in the order of the real ones, with every limit within reach.
MCLimits == [t \in Tiers |->
    CASE t = "admin"       -> Unlimited
      [] t = "blocked"     -> [Unlimited EXCEPT !.file = -1]
      [] t = "contributor" -> [file |-> 2, hour |-> 2, day |-> 2, week |-> 3, bytes |-> 4,
                               tokens |-> 2, types |-> {}]
      [] OTHER             -> [file |-> 1, hour |-> 1, day |-> 1, week |-> 2, bytes |-> 2,
                               tokens |-> 1, types |-> {"image"}]]

Right(action, on) == [action |-> action, on |-> on]

MCWide == {Right("write", Everywhere)}
MCWanted == {{Right("admin", web), Right("write", web)}, MCWide}

MCBodies == {[type |-> "image", size |-> 1, said |-> 1],
             [type |-> "image", size |-> 2, said |-> -1]}

MCSymmetry == Permutations(Requests) \cup Permutations(Uploaders)

\* Who signs in where, and with which keys.
MCInit ==
    /\ AdmitInit
    /\ ThrottleInit
    /\ mix \in {"standing", "founder", "keys", "uploads", "starts"}

SignsIn(q, a) == SignIn(q) /\ request'[q].account \in {a, Operator}

Standing(q) ==
    \/ SignsIn(q, guest)
    \/ \E t \in {"unknown", "blocked"} : CommandTier(q, guest, t)
    \/ SetTier(q) \/ SweepKeys(q) \/ Abandon(q)

Founder(q) ==
    \/ SignsIn(q, boss)
    \/ \E k \in Ids, t \in {"unknown", "blocked"} : AskForTier(q, k, boss, t)
    \/ \E k \in Ids, wanted \in Wanted : AskForKey(q, k, n1, wanted)
    \/ Mint(q) \/ SetTier(q) \/ SweepKeys(q) \/ Abandon(q)

OneKey(q) ==
    /\ \A other \in Requests \ {q} : request[other].at = "idle"
    /\ \/ Len(keys) = 0 /\ SignsIn(q, guest)
       \/ CommandTier(q, guest, "blocked")
       \/ SetTier(q) \/ SweepKeys(q)

MCAccountsStep ==
    \/ mix = "standing" /\ \E q \in Requests : Standing(q)
    \/ mix = "founder" /\ \E q \in Requests : Founder(q)
    \/ mix \in {"standing", "founder"} /\ \E k \in Ids : ~keys[k].revoked /\ Expire(k)
    \/ mix = "keys" /\ \E q \in Requests : ManageKeys(q) \/ Abandon(q)
    \/ mix = "keys" /\ OnHost
    \/ mix = "uploads" /\ \E q \in Requests : OneKey(q)
    \/ mix = "uploads" /\ Len(keys) = 0 /\ AddKey(n1, MCWide)

MCNext ==
    /\ UNCHANGED mix
    /\ \/ /\ UNCHANGED throttleVars
          /\ \/ MCAccountsStep /\ MarkLate
             \/ mix = "uploads" /\ \E u \in Uploaders : Uploading(u)
             \/ \E a \in Accounts : \E f \in DOMAIN files[a] : Grow(a, f)
       \/ mix = "starts" /\ ThrottleNext /\ UNCHANGED allVars

MCSpec == MCInit /\ [][MCNext]_<<allVars, throttleVars, mix>>
=============================================================================
