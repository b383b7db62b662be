------------------------------- MODULE Policy -------------------------------
(***************************************************************************)
(* What a credential may do (internal/auth) and what an account may do     *)
(* (internal/policy), as the pure functions they are in the code.          *)
(*                                                                         *)
(* A scope is an action on a namespace, which may be "*" (Everywhere).     *)
(* The numbers of a tier are a constant: TLC takes small ones in the same  *)
(* order, the proofs any.  Zero means unlimited, as in the code.           *)
(***************************************************************************)
EXTENDS Integers

CONSTANTS Accounts,    \* the accounts that may ever sign in
          Namespaces,  \* what uploads are addressed to
          Everywhere,  \* the namespace "*" of a scope
          Home,        \* policy.Namespace: an account's own namespace
          LimitsOf     \* policy.For: the limits of each tier

Tiers == {"unknown", "contributor", "admin", "blocked"}

Scope == [action : {"read", "write", "admin"}, on : Namespaces \cup {Everywhere}]

Limits == [file : Int, hour : Nat, day : Nat, week : Nat, bytes : Nat,
           tokens : Nat, types : SUBSET {"image", "other"}]

ASSUME PolicyAssumption ==
    /\ Everywhere \notin Namespaces
    /\ Home \in [Accounts -> Namespaces]
    /\ LimitsOf \in [Tiers -> Limits]
    /\ LimitsOf["blocked"].file < 0

-----------------------------------------------------------------------------
(* internal/auth.                                                          *)

Can(scopes, action, on) ==
    \E held \in scopes : held.action = action /\ held.on \in {Everywhere, on}

Holds(scopes, action) == \E held \in scopes : held.action = action

\* A bug: any right on a namespace is taken for the right to hand it out.
CanGrantWhatItHolds(scopes, wanted) ==
    /\ wanted # {}
    /\ \A scope \in wanted :
        Can(scopes, "admin", scope.on) \/ Can(scopes, "write", scope.on)

CanGrant(scopes, wanted) ==
    /\ wanted # {}
    /\ \A scope \in wanted : Can(scopes, "admin", scope.on)

-----------------------------------------------------------------------------
(* internal/policy.                                                        *)

Scopes(tier, account) ==
    IF tier = "admin" THEN [action : {"write", "read", "admin"}, on : {Everywhere}]
    ELSE [action : {"write", "read"}, on : {Home[account]}]

Unlimited == [file |-> 0, hour |-> 0, day |-> 0, week |-> 0, bytes |-> 0,
              tokens |-> 0, types |-> {}]

Reached(limit, used) == limit > 0 /\ used >= limit

LimitReached(limits, used) ==
    \/ Reached(limits.hour, used.hour)
    \/ Reached(limits.day, used.day)
    \/ Reached(limits.week, used.week)
    \/ Reached(limits.bytes, used.bytes)

\* A bug: a limit below zero is none, although it means no file at all.
EvaluateLoosely(limits, up, used) ==
    IF limits.types # {} /\ up.type \notin limits.types THEN "unsupported_type"
    ELSE IF limits.file > 0 /\ up.size > limits.file THEN "too_large"
    ELSE IF LimitReached(limits, used) THEN "rate_limited"
    ELSE "allowed"

\* The first reason there is decides.  used.hour, used.day and used.week count
\* uploads, used.bytes a day's bytes.
Evaluate(limits, up, used) ==
    IF limits.file < 0 THEN "forbidden"
    ELSE IF limits.types # {} /\ up.type \notin limits.types THEN "unsupported_type"
    ELSE IF limits.file > 0 /\ up.size > limits.file THEN "too_large"
    ELSE IF LimitReached(limits, used) THEN "rate_limited"
    ELSE "allowed"
=============================================================================
