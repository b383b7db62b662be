-------------------------- MODULE AdmissionProofs --------------------------
(***************************************************************************)
(* What blocking an account does to its uploads, and what an account can   *)
(* have stored for all that is let in at once, for any limits, bodies and  *)
(* number of uploads, on top of what is proved of accounts.                *)
(***************************************************************************)
EXTENDS Admission, AccountsProofs

-----------------------------------------------------------------------------
(* Sums over finite sets.  The fold they are is a recursive function; each *)
(* fact is by induction, in the form that needs no operator as parameter:  *)
(* if a set were wrong, so would be one with no smaller wrong set in it.   *)

\* BytesOf of rows that are given.
Total(rows, S) == FoldSet(LAMBDA f, sum : sum + rows[f].size, 0, S)

First(s) == CHOOSE x \in s : TRUE

\* The function that a fold over a set is defined by.
Adds(g, rows, S) ==
    g = [s \in SUBSET S |-> IF s = {} THEN 0 ELSE g[s \ {First(s)}] + rows[First(s)].size]

TheSums(rows, S) == CHOOSE g : Adds(g, rows, S)

LEMMA TotalIs == ASSUME NEW rows, NEW S PROVE Total(rows, S) = TheSums(rows, S)[S]
  BY DEF Total, FoldSet, MapThenFoldSet, TheSums, Adds, First

\* Of sets that are wrong, one has no smaller wrong one: induction over a finite set.
LEMMA Descent ==
    ASSUME NEW S, IsFiniteSet(S), NEW wrong \in SUBSET SUBSET S, wrong # {}
    PROVE  \E s \in wrong : \A t \in SUBSET s : t # s => t \notin wrong
<1>1. IsWellFoundedOn(StrictSubsetOrdering(S), FiniteSubsetsOf(S))
  BY FS_StrictSubsetOrderingWellFounded
<1>2. wrong \subseteq FiniteSubsetsOf(S)
  BY FS_Subset DEF FiniteSubsetsOf
<1>3. \E s \in wrong : \A t \in wrong : <<t, s>> \notin StrictSubsetOrdering(S)
  BY <1>1, <1>2, WFMin
<1> QED BY <1>3 DEF StrictSubsetOrdering

LEMMA FirstIn == ASSUME NEW s, s # {} PROVE First(s) \in s
  BY DEF First

LEMMA AddsAt ==
    ASSUME NEW rows, NEW S, NEW g, Adds(g, rows, S), NEW s \in SUBSET S
    PROVE  g[s] = IF s = {} THEN 0 ELSE g[s \ {First(s)}] + rows[First(s)].size
  BY DEF Adds

\* There is one such function at most, and for a part of the set it is a part.
LEMMA OneSum ==
    ASSUME NEW rows, NEW S, IsFiniteSet(S), NEW g, NEW h, Adds(g, rows, S), Adds(h, rows, S)
    PROVE  g = h
<1> DEFINE wrong == {s \in SUBSET S : g[s] # h[s]}
<1>1. ASSUME wrong # {} PROVE FALSE
  <2>1. PICK s \in wrong : \A t \in SUBSET s : t # s => t \notin wrong
    <3>1. wrong \in SUBSET SUBSET S
      OBVIOUS
    <3> HIDE DEF wrong
    <3> QED BY <1>1, <3>1, Descent
  <2>2. /\ g[s] = IF s = {} THEN 0 ELSE g[s \ {First(s)}] + rows[First(s)].size
        /\ h[s] = IF s = {} THEN 0 ELSE h[s \ {First(s)}] + rows[First(s)].size
    BY AddsAt
  <2>3. CASE s # {}
    <3>1. s \ {First(s)} \in SUBSET s /\ s \ {First(s)} # s
      BY <2>3, FirstIn
    <3>2. g[s \ {First(s)}] = h[s \ {First(s)}]
      BY <2>1, <3>1
    <3> QED BY <2>1, <2>2, <2>3, <3>2
  <2> QED BY <2>1, <2>2, <2>3
<1> QED BY <1>1 DEF Adds

LEMMA Restricted ==
    ASSUME NEW rows, NEW S, NEW g, Adds(g, rows, S), NEW T \in SUBSET S
    PROVE  Adds([s \in SUBSET T |-> g[s]], rows, T)
<1> DEFINE h == [s \in SUBSET T |-> g[s]]
<1>1. ASSUME NEW s \in SUBSET T
      PROVE  h[s] = IF s = {} THEN 0 ELSE h[s \ {First(s)}] + rows[First(s)].size
  <2>1. s \ {First(s)} \in SUBSET T /\ s \in SUBSET S
    OBVIOUS
  <2> QED BY <2>1, AddsAt
<1> QED BY <1>1, Zenon DEF Adds

\* And there is one, put together from those of the smaller sets.
LEMMA SumsExist ==
    ASSUME NEW rows, NEW S, IsFiniteSet(S)
    PROVE  Adds(TheSums(rows, S), rows, S)
<1> DEFINE wrong == {s \in SUBSET S : ~\E g : Adds(g, rows, s)}
<1>1. ASSUME wrong # {} PROVE FALSE
  <2>1. PICK U \in wrong : \A t \in SUBSET U : t # U => t \notin wrong
    <3>1. wrong \in SUBSET SUBSET S
      OBVIOUS
    <3> HIDE DEF wrong
    <3> QED BY <1>1, <3>1, Descent
  <2>2. \A t \in SUBSET U : t # U => Adds(TheSums(rows, t), rows, t) /\ IsFiniteSet(t)
    <3> SUFFICES ASSUME NEW t \in SUBSET U, t # U
                 PROVE  Adds(TheSums(rows, t), rows, t) /\ IsFiniteSet(t)
      OBVIOUS
    <3>1. \E g : Adds(g, rows, t)
      BY <2>1
    <3> QED BY <3>1, FS_Subset DEF TheSums
  <2> DEFINE less(s) == s \ {First(s)}
             h == [s \in SUBSET U |->
                     IF s = {} THEN 0 ELSE TheSums(rows, less(s))[less(s)] + rows[First(s)].size]
  <2>3. ASSUME NEW s \in SUBSET U, s # {} PROVE TheSums(rows, less(s))[less(s)] = h[less(s)]
    <3>1. less(s) \in SUBSET U /\ less(s) # U
      BY <2>3, FirstIn
    <3> DEFINE t == less(s)
    <3>2. Adds(TheSums(rows, t), rows, t)
      BY <2>2, <3>1
    <3> HIDE DEF less
    <3>3. TheSums(rows, t)[t] =
            IF t = {} THEN 0 ELSE TheSums(rows, t)[t \ {First(t)}] + rows[First(t)].size
      BY <3>2, AddsAt
    <3>4. CASE t = {}
      BY <3>1, <3>3, <3>4
    <3>5. CASE t # {}
      <4> DEFINE w == less(t)
      <4>1. w \in SUBSET t /\ w # U /\ w = t \ {First(t)}
        BY <3>1 DEF less
      <4>2. Adds(TheSums(rows, w), rows, w) /\ IsFiniteSet(w)
        BY <2>2, <3>1, <4>1
      <4>3. TheSums(rows, w) = [x \in SUBSET w |-> TheSums(rows, t)[x]]
        BY <3>2, <4>1, <4>2, Restricted, OneSum
      <4>4. TheSums(rows, w)[w] = TheSums(rows, t)[w]
        BY <4>3
      <4>5. h[t] = TheSums(rows, w)[w] + rows[First(t)].size
        BY <3>1, <3>5
      <4> QED BY <3>3, <3>5, <4>1, <4>4, <4>5
    <3> QED BY <3>4, <3>5
  <2> HIDE DEF less
  <2>4. \A s \in SUBSET U : h[s] = IF s = {} THEN 0 ELSE h[less(s)] + rows[First(s)].size
    BY <2>3
  <2>5. Adds(h, rows, U)
    BY <2>4, Zenon DEF Adds, less
  <2> QED BY <2>1, <2>5
<1>2. \E g : Adds(g, rows, S)
  BY <1>1
<1> QED BY <1>2 DEF TheSums

\* What the fold comes to: a first element, and the others.
LEMMA TotalStep ==
    ASSUME NEW rows, NEW S, IsFiniteSet(S)
    PROVE  Total(rows, S) =
             IF S = {} THEN 0 ELSE Total(rows, S \ {First(S)}) + rows[First(S)].size
<1> DEFINE T == S \ {First(S)}
<1>1. IsFiniteSet(T) /\ T \in SUBSET S
  BY FS_Subset
<1>2. Adds(TheSums(rows, S), rows, S) /\ Adds(TheSums(rows, T), rows, T)
  BY <1>1, SumsExist
<1>3. TheSums(rows, T) = [s \in SUBSET T |-> TheSums(rows, S)[s]]
  <2> HIDE DEF T
  <2>1. Adds([s \in SUBSET T |-> TheSums(rows, S)[s]], rows, T)
    BY <1>1, <1>2, Restricted
  <2> QED BY <1>1, <1>2, <2>1, OneSum
<1>4. TheSums(rows, T)[T] = TheSums(rows, S)[T]
  BY <1>3
<1>5. TheSums(rows, S)[S] = IF S = {} THEN 0 ELSE TheSums(rows, S)[T] + rows[First(S)].size
  BY <1>2, AddsAt
<1> QED BY <1>4, <1>5, TotalIs

Sized(rows, S) == \A x \in S : rows[x].size \in Nat

LEMMA TotalNat ==
    ASSUME NEW rows, NEW S, IsFiniteSet(S), Sized(rows, S)
    PROVE  Total(rows, S) \in Nat
<1> DEFINE wrong == {s \in SUBSET S : Total(rows, s) \notin Nat}
<1>1. ASSUME wrong # {} PROVE FALSE
  <2>1. PICK s \in wrong : \A t \in SUBSET s : t # s => t \notin wrong
    <3>1. wrong \in SUBSET SUBSET S
      OBVIOUS
    <3> HIDE DEF wrong
    <3> QED BY <1>1, <3>1, Descent
  <2>2. Total(rows, s) = IF s = {} THEN 0 ELSE Total(rows, s \ {First(s)}) + rows[First(s)].size
    BY FS_Subset, TotalStep
  <2>3. s # {}
    BY <2>1, <2>2
  <2>4. Total(rows, s \ {First(s)}) \in Nat /\ rows[First(s)].size \in Nat
    BY <2>1, <2>3, FirstIn DEF Sized
  <2> QED BY <2>1, <2>2, <2>3, <2>4
<1> QED BY <1>1

\* Any element can be the first.
LEMMA TotalLess ==
    ASSUME NEW rows, NEW S, IsFiniteSet(S), Sized(rows, S), NEW x \in S
    PROVE  Total(rows, S) = Total(rows, S \ {x}) + rows[x].size
<1> DEFINE wrong == {s \in SUBSET S : \E y \in s : Total(rows, s) # Total(rows, s \ {y}) + rows[y].size}
<1>1. ASSUME wrong # {} PROVE FALSE
  <2>1. PICK s \in wrong : \A t \in SUBSET s : t # s => t \notin wrong
    <3>1. wrong \in SUBSET SUBSET S
      OBVIOUS
    <3> HIDE DEF wrong
    <3> QED BY <1>1, <3>1, Descent
  <2>2. PICK y \in s : Total(rows, s) # Total(rows, s \ {y}) + rows[y].size
    BY <2>1
  <2> DEFINE c == First(s)
             r == (s \ {c}) \ {y}
  <2>3. c \in s
    BY FirstIn
  <2>4. Total(rows, s) = Total(rows, s \ {c}) + rows[c].size
    BY <2>3, FS_Subset, TotalStep
  <2>5. c # y
    BY <2>2, <2>4
  <2> HIDE DEF c
  <2>6. Total(rows, s \ {c}) = Total(rows, r) + rows[y].size
    BY <2>1, <2>3, <2>5
  <2>7. (s \ {y}) \ {c} = r
    OBVIOUS
  <2>8. Total(rows, s \ {y}) = Total(rows, r) + rows[c].size
    <3>1. s \ {y} \in SUBSET s /\ s \ {y} # s /\ c \in s \ {y}
      BY <2>3, <2>5
    <3> HIDE DEF r
    <3> QED BY <2>1, <2>7, <3>1
  <2>9. Total(rows, r) \in Nat /\ rows[c].size \in Nat /\ rows[y].size \in Nat
    BY <2>3, FS_Subset, TotalNat DEF Sized
  <2> HIDE DEF r
  <2> QED BY <2>2, <2>4, <2>6, <2>8, <2>9
<1> QED BY <1>1

LEMMA TotalSubset ==
    ASSUME NEW rows, NEW S, IsFiniteSet(S), Sized(rows, S), NEW T \in SUBSET S
    PROVE  Total(rows, T) <= Total(rows, S)
<1> DEFINE wrong == {s \in SUBSET S : T \subseteq s /\ ~(Total(rows, T) <= Total(rows, s))}
<1>1. ASSUME wrong # {} PROVE FALSE
  <2>1. PICK s \in wrong : \A t \in SUBSET s : t # s => t \notin wrong
    <3>1. wrong \in SUBSET SUBSET S
      OBVIOUS
    <3> HIDE DEF wrong
    <3> QED BY <1>1, <3>1, Descent
  <2>2. \A t \in SUBSET S : Total(rows, t) \in Nat
    BY FS_Subset, TotalNat DEF Sized
  <2>3. PICK x \in s : x \notin T
    <3>1. T \subseteq s /\ Total(rows, s) \in Nat /\ ~(Total(rows, T) <= Total(rows, s))
      BY <2>1, <2>2
    <3>2. s # T
      BY <3>1
    <3> QED BY <3>1, <3>2
  <2>4. Total(rows, T) <= Total(rows, s \ {x})
    BY <2>1, <2>3
  <2>5. Total(rows, s) = Total(rows, s \ {x}) + rows[x].size
    BY FS_Subset, TotalLess DEF Sized
  <2>6. rows[x].size \in Nat /\ s \ {x} \in SUBSET S
    BY DEF Sized
  <2> QED BY <2>1, <2>2, <2>4, <2>5, <2>6
<1> QED BY <1>1

LEMMA TotalSame ==
    ASSUME NEW rows, NEW others, NEW S, IsFiniteSet(S), \A x \in S : rows[x].size = others[x].size
    PROVE  Total(rows, S) = Total(others, S)
<1> DEFINE wrong == {s \in SUBSET S : Total(rows, s) # Total(others, s)}
<1>1. ASSUME wrong # {} PROVE FALSE
  <2>1. PICK s \in wrong : \A t \in SUBSET s : t # s => t \notin wrong
    <3>1. wrong \in SUBSET SUBSET S
      OBVIOUS
    <3> HIDE DEF wrong
    <3> QED BY <1>1, <3>1, Descent
  <2>2. IsFiniteSet(s)
    BY FS_Subset
  <2>3. /\ Total(rows, s) = IF s = {} THEN 0 ELSE Total(rows, s \ {First(s)}) + rows[First(s)].size
        /\ Total(others, s) = IF s = {} THEN 0 ELSE Total(others, s \ {First(s)}) + others[First(s)].size
    BY <2>2, TotalStep
  <2>4. CASE s # {}
    BY <2>1, <2>3, <2>4, FirstIn
  <2> QED BY <2>1, <2>3, <2>4
<1> QED BY <1>1

\* A finite set of numbers has a greatest.
LEMMA Greatest ==
    ASSUME NEW S \in SUBSET Nat, IsFiniteSet(S), S # {}
    PROVE  Max(S) \in S /\ \A y \in S : y <= Max(S)
<1> DEFINE wrong == {s \in SUBSET S : s # {} /\ ~\E x \in s : \A y \in s : x >= y}
<1>1. ASSUME wrong # {} PROVE FALSE
  <2>1. PICK s \in wrong : \A t \in SUBSET s : t # s => t \notin wrong
    <3>1. wrong \in SUBSET SUBSET S
      OBVIOUS
    <3> HIDE DEF wrong
    <3> QED BY <1>1, <3>1, Descent
  <2>2. PICK x : x \in s /\ x \in Nat
    BY <2>1
  <2> DEFINE t == s \ {x}
  <2>3. t = {} \/ \E m \in t : \A y \in t : m >= y
    BY <2>1, <2>2
  <2> QED BY <2>1, <2>2, <2>3
<1>2. \E x \in S : \A y \in S : x >= y
  BY <1>1
<1> QED BY <1>2 DEF Max

-----------------------------------------------------------------------------
(* The invariant but for the quotas.                                       *)

Read == {"hourly", "daily", "weekly", "judging", "admitted"}

\* What an upload goes by, or else it is late: once its account was read, that is
\* not blocked, unless the upload is bound to be refused.
Judged(up) ==
    /\ up.at \in Read /\ up.account # Operator /\ tier[up.account] = "blocked"
         => up.late \/ up.tier = "blocked"
    /\ up.at = "admitted" /\ up.account # Operator => up.tier # "blocked"

\* What an upload is about, and that nothing is kept of what was counted for it.
Carried(up) ==
    /\ up.at # "idle" => up.body \in Bodies
    /\ up.at \notin {"idle", "admitted"} => up.account \in Accounts
    /\ up.at = "admitted" => up.used = NothingUsed

\* A file is a body that was uploaded, never by a blocked account.
Filed(row) == row.tier # "blocked" /\ \E body \in Bodies : row.size = body.size

AdmitIInv ==
    /\ IInv
    /\ AdmissionTypeOK
    /\ \A u \in Uploaders : Judged(upload[u]) /\ Carried(upload[u])
    /\ \A a \in Accounts : \A f \in DOMAIN files[a] : Filed(files[a][f])

\* A blocked account is let in with nothing, whatever it uploads and has stored.
LEMMA BlockedIsRefused == ASSUME NEW up, up.tier = "blocked" PROVE Verdict(up) = "forbidden"
<1>1. LimitsAt(up.tier) = LimitsOf["blocked"]
  BY AccountsAssumption DEF LimitsAt, Tiers
<1> QED BY <1>1, PolicyAssumption DEF Verdict, Evaluate

LEMMA Rows ==
    ASSUME AdmissionTypeOK, NEW a \in Accounts
    PROVE  /\ files[a] \in Seq(File) /\ Len(files[a]) \in Nat /\ DOMAIN files[a] = 1..Len(files[a])
           /\ \A f \in DOMAIN files[a] : files[a][f] \in File
           /\ IsFiniteSet(DOMAIN files[a]) /\ Sized(files[a], DOMAIN files[a])
<1>1. /\ files[a] \in Seq(File) /\ Len(files[a]) \in Nat /\ DOMAIN files[a] = 1..Len(files[a])
      /\ \A f \in DOMAIN files[a] : files[a][f] \in File
  BY DEF AdmissionTypeOK
<1>2. IsFiniteSet(DOMAIN files[a])
  BY <1>1, FS_Interval
<1> QED BY <1>1, <1>2 DEF Sized, File

\* What is counted are numbers.
LEMMA Counts ==
    ASSUME AdmissionTypeOK, NEW a \in Accounts, NEW window
    PROVE  /\ Within(a, window) \in SUBSET DOMAIN files[a] /\ IsFiniteSet(Within(a, window))
           /\ Cardinality(Within(a, window)) \in Nat
           /\ BytesOf(a, Within(a, window)) = Total(files[a], Within(a, window))
           /\ BytesOf(a, Within(a, window)) \in Nat
<1>1. Within(a, window) \in SUBSET DOMAIN files[a]
  BY DEF Within
<1>2. IsFiniteSet(Within(a, window)) /\ Cardinality(Within(a, window)) \in Nat
  BY <1>1, Rows, FS_Subset, FS_CardinalityType
<1>3. BytesOf(a, Within(a, window)) = Total(files[a], Within(a, window))
  BY DEF BytesOf, Total
<1>4. Sized(files[a], Within(a, window))
  BY <1>1, Rows DEF Sized
<1> QED BY <1>1, <1>2, <1>3, <1>4, TotalNat

LEMMA NoUploadIs ==
    NoUpload \in Upload /\ Judged(NoUpload) /\ Carried(NoUpload) /\ NothingUsed \in [hour : Nat, day : Nat, week : Nat, bytes : Nat]
  BY DEF NoUpload, NothingUsed, Upload, Judged, Carried, Read

\* A step that is about one upload only, and leaves the accounts and files alone.
LEMMA OneUpload ==
    ASSUME AdmitIInv, NEW u \in Uploaders, NEW r \in Upload, upload' = [upload EXCEPT ![u] = r],
           UNCHANGED <<vars, files>>, Judged(r), Carried(r)
    PROVE  AdmitIInv'
<1>1. IInv' /\ TypeOK'
  BY NextHolds DEF AdmitIInv, IInv
<1>2. tier' = tier /\ files' = files
  BY DEF vars
<1>3. /\ upload' \in [Uploaders -> Upload]
      /\ upload'[u] = r /\ \A v \in Uploaders \ {u} : upload'[v] = upload[v]
  BY DEF AdmitIInv, AdmissionTypeOK
<1>4. AdmissionTypeOK'
  BY <1>1, <1>2, <1>3 DEF AdmitIInv, AdmissionTypeOK
<1>5. \A v \in Uploaders : Judged(upload[v])' /\ Carried(upload[v])'
  BY <1>2, <1>3 DEF AdmitIInv, Judged, Carried
<1>6. (\A a \in Accounts : \A f \in DOMAIN files[a] : Filed(files[a][f]))'
  BY <1>2 DEF AdmitIInv, Filed
<1> QED BY <1>1, <1>4, <1>5, <1>6 DEF AdmitIInv

\* An upload goes on counting, and nothing else of it changes.
LEMMA GoesOn ==
    ASSUME AdmitIInv, NEW u \in Uploaders, UNCHANGED <<vars, files>>,
           NEW used \in [hour : Nat, day : Nat, week : Nat, bytes : Nat],
           NEW from \in Read \ {"admitted"}, NEW at \in Read \ {"admitted"}, upload[u].at = from,
           upload' = [upload EXCEPT ![u] = [upload[u] EXCEPT !.at = at, !.used = used]]
    PROVE  AdmitIInv'
<1> DEFINE r == [upload[u] EXCEPT !.at = at, !.used = used]
<1>1. upload[u] \in Upload /\ Judged(upload[u]) /\ Carried(upload[u])
  BY DEF AdmitIInv, AdmissionTypeOK
<1>2. /\ r.at = at /\ r.account = upload[u].account /\ r.tier = upload[u].tier
      /\ r.late = upload[u].late /\ r.body = upload[u].body /\ r \in Upload
  BY <1>1 DEF Upload, Read
<1>3. Judged(r) /\ Carried(r)
  BY <1>1, <1>2 DEF Judged, Carried, Read
<1> HIDE DEF r
<1>4. upload' = [upload EXCEPT ![u] = r]
  BY DEF r
<1> QED BY <1>2, <1>3, <1>4, OneUpload

LEMMA LeaveStep ==
    ASSUME AdmitIInv, NEW u \in Uploaders, Leave(u), UNCHANGED <<vars, files>>
    PROVE  AdmitIInv'
  BY NoUploadIs, OneUpload DEF Leave

LEMMA AskToUploadStep ==
    ASSUME AdmitIInv, NEW u \in Uploaders, NEW k \in Ids, NEW on, NEW body \in Bodies,
           AskToUpload(u, k, on, body)
    PROVE  AdmitIInv'
<1> DEFINE at == IF keys[k].account = Operator THEN "admitted" ELSE "asking"
           r  == [NoUpload EXCEPT !.at = at, !.account = keys[k].account, !.body = body]
<1>1. keys[k].account \in Accounts \cup {Operator}
  BY KeyOf DEF AdmitIInv, IInv, Key
<1>2. /\ r.at = at /\ r.account = keys[k].account /\ r.body = body /\ r.used = NothingUsed
      /\ r \in Upload
  BY <1>1, NoUploadIs DEF NoUpload, Upload
<1>3. Judged(r) /\ Carried(r)
  BY <1>1, <1>2 DEF Judged, Carried, Read
<1>4. upload' = [upload EXCEPT ![u] = r] /\ UNCHANGED <<vars, files>>
  BY DEF AskToUpload
<1> HIDE DEF r
<1> QED BY <1>2, <1>3, <1>4, OneUpload

LEMMA ReadTierStep == ASSUME AdmitIInv, NEW u \in Uploaders, ReadTier(u) PROVE AdmitIInv'
<1> DEFINE r == [upload[u] EXCEPT !.at = "hourly", !.tier = tier[upload[u].account]]
<1>1. upload[u] \in Upload /\ Carried(upload[u]) /\ upload[u].at = "asking"
  BY DEF AdmitIInv, AdmissionTypeOK, ReadTier
<1>2. tier[upload[u].account] \in Tiers \cup {NoTier}
  BY <1>1 DEF AdmitIInv, IInv, TypeOK, Carried
<1>3. /\ r.at = "hourly" /\ r.account = upload[u].account /\ r.tier = tier[upload[u].account]
      /\ r.body = upload[u].body /\ r \in Upload
  BY <1>1, <1>2 DEF Upload
<1>4. Judged(r) /\ Carried(r)
  BY <1>1, <1>3 DEF Judged, Carried
<1>5. upload' = [upload EXCEPT ![u] = r] /\ UNCHANGED <<vars, files>>
  BY DEF ReadTier, AdmitIInv, AdmissionTypeOK
<1> HIDE DEF r
<1> QED BY <1>3, <1>4, <1>5, OneUpload

LEMMA CountStep ==
    ASSUME AdmitIInv, NEW u \in Uploaders, CountHour(u) \/ CountDay(u) \/ CountWeek(u)
    PROVE  AdmitIInv'
<1>1. /\ upload \in [Uploaders -> Upload] /\ upload[u] \in Upload /\ Carried(upload[u])
      /\ upload[u].used \in [hour : Nat, day : Nat, week : Nat, bytes : Nat]
  BY DEF AdmitIInv, AdmissionTypeOK, Upload
<1> DEFINE a == upload[u].account
<1>2. a \in Accounts /\ AdmissionTypeOK /\ UNCHANGED <<vars, files>>
  BY <1>1 DEF CountHour, CountDay, CountWeek, Carried, AdmitIInv
<1>3. CASE CountHour(u)
  <2> DEFINE used == [upload[u].used EXCEPT !.hour = Cardinality(Within(a, Hour))]
  <2>1. upload' = [upload EXCEPT ![u] = [upload[u] EXCEPT !.at = "daily", !.used = used]]
    BY <1>1, <1>3 DEF CountHour
  <2>2. upload[u].at = "hourly" /\ used \in [hour : Nat, day : Nat, week : Nat, bytes : Nat]
    BY <1>1, <1>2, <1>3, Counts DEF CountHour
  <2>3. "hourly" \in Read \ {"admitted"} /\ "daily" \in Read \ {"admitted"}
    BY DEF Read
  <2> HIDE DEF used
  <2> QED BY <1>2, <2>1, <2>2, <2>3, GoesOn
<1>4. CASE CountDay(u)
  <2> DEFINE used == [upload[u].used EXCEPT !.day = Cardinality(Within(a, Day)),
                                            !.bytes = BytesOf(a, Within(a, Day))]
  <2>1. upload' = [upload EXCEPT ![u] = [upload[u] EXCEPT !.at = "weekly", !.used = used]]
    BY <1>1, <1>4 DEF CountDay
  <2>2. upload[u].at = "daily" /\ used \in [hour : Nat, day : Nat, week : Nat, bytes : Nat]
    BY <1>1, <1>2, <1>4, Counts DEF CountDay
  <2>3. "daily" \in Read \ {"admitted"} /\ "weekly" \in Read \ {"admitted"}
    BY DEF Read
  <2> HIDE DEF used
  <2> QED BY <1>2, <2>1, <2>2, <2>3, GoesOn
<1>5. CASE CountWeek(u)
  <2> DEFINE used == [upload[u].used EXCEPT !.week = Cardinality(Within(a, Week))]
  <2>1. upload' = [upload EXCEPT ![u] = [upload[u] EXCEPT !.at = "judging", !.used = used]]
    BY <1>1, <1>5 DEF CountWeek
  <2>2. upload[u].at = "weekly" /\ used \in [hour : Nat, day : Nat, week : Nat, bytes : Nat]
    BY <1>1, <1>2, <1>5, Counts DEF CountWeek
  <2>3. "weekly" \in Read \ {"admitted"} /\ "judging" \in Read \ {"admitted"}
    BY DEF Read
  <2> HIDE DEF used
  <2> QED BY <1>2, <2>1, <2>2, <2>3, GoesOn
<1> QED BY <1>3, <1>4, <1>5

LEMMA JudgeStep == ASSUME AdmitIInv, NEW u \in Uploaders, Judge(u) PROVE AdmitIInv'
<1>1. /\ upload[u] \in Upload /\ Judged(upload[u]) /\ Carried(upload[u])
      /\ upload[u].at = "judging" /\ UNCHANGED <<vars, files>>
  BY DEF AdmitIInv, AdmissionTypeOK, Judge
<1>2. CASE Verdict(upload[u]) = "allowed"
  <2> DEFINE r == [upload[u] EXCEPT !.at = "admitted", !.used = NothingUsed]
  <2>1. upload' = [upload EXCEPT ![u] = r]
    BY <1>2 DEF Judge, AdmitIInv, AdmissionTypeOK
  <2>2. /\ r.at = "admitted" /\ r.account = upload[u].account /\ r.tier = upload[u].tier
        /\ r.late = upload[u].late /\ r.body = upload[u].body /\ r.used = NothingUsed /\ r \in Upload
    BY <1>1, NoUploadIs DEF Upload
  <2>3. r.tier # "blocked"
    BY <1>2, <2>2, BlockedIsRefused
  <2>4. Judged(r) /\ Carried(r)
    BY <1>1, <2>2, <2>3 DEF Judged, Carried, Read
  <2> HIDE DEF r
  <2> QED BY <1>1, <2>1, <2>2, <2>4, OneUpload
<1>3. CASE Verdict(upload[u]) # "allowed"
  BY <1>1, <1>3, LeaveStep DEF Judge
<1> QED BY <1>2, <1>3

\* What a file is when it has just been stored.
LEMMA StoresOne ==
    ASSUME AdmitIInv, NEW u \in Uploaders, StoreUpload(u), upload[u].account # Operator
    PROVE  \E n, row :
             LET a == upload[u].account IN
             /\ a \in Accounts /\ row \in File /\ Filed(row)
             /\ row.tier = upload[u].tier /\ row.age = Hour
             /\ files'[a] \in Seq(File) /\ n \notin DOMAIN files[a]
             /\ DOMAIN files'[a] = DOMAIN files[a] \cup {n}
             /\ files'[a][n] = row /\ \A f \in DOMAIN files[a] : files'[a][f] = files[a][f]
             /\ \A b \in Accounts \ {a} : files'[b] = files[b]
             /\ files' \in [Accounts -> Seq(File)]
<1> DEFINE a   == upload[u].account
           row == [age |-> Hour, size |-> upload[u].body.size, tier |-> upload[u].tier]
           n   == Len(files[a]) + 1
<1>1. /\ upload[u] \in Upload /\ upload[u].at = "admitted" /\ upload[u].body \in Bodies
      /\ a \in Accounts /\ upload[u].tier # "blocked"
  BY DEF StoreUpload, AdmitIInv, AdmissionTypeOK, Upload, Carried, Judged
<1>2. /\ row \in File /\ row.tier = upload[u].tier /\ row.age = Hour /\ row.size = upload[u].body.size
  BY <1>1, AdmissionAssumption DEF File, Hour, Older, Upload
<1>3. Filed(row)
  BY <1>1, <1>2 DEF Filed
<1> HIDE DEF row
<1>4. /\ files[a] \in Seq(File) /\ Len(files[a]) \in Nat /\ DOMAIN files[a] = 1..Len(files[a])
  BY <1>1, Rows DEF AdmitIInv
<1>5. files' = [files EXCEPT ![a] = Append(files[a], row)] /\ files \in [Accounts -> Seq(File)]
  BY DEF StoreUpload, AdmitIInv, AdmissionTypeOK, row
<1>6. files'[a] = Append(files[a], row) /\ \A b \in Accounts \ {a} : files'[b] = files[b]
  BY <1>1, <1>5
<1>7. /\ Append(files[a], row) \in Seq(File) /\ Len(Append(files[a], row)) = n
      /\ Append(files[a], row)[n] = row
      /\ \A f \in 1..Len(files[a]) : Append(files[a], row)[f] = files[a][f]
      /\ DOMAIN Append(files[a], row) = 1..n
  BY <1>2, <1>4
<1>8. files' \in [Accounts -> Seq(File)]
  BY <1>5, <1>7, <1>1
<1>9. n \notin 1..Len(files[a]) /\ 1..n = 1..Len(files[a]) \cup {n}
  BY <1>4
<1> QED BY <1>1, <1>2, <1>3, <1>4, <1>6, <1>7, <1>8, <1>9

LEMMA StoreStep == ASSUME AdmitIInv, NEW u \in Uploaders, StoreUpload(u) PROVE AdmitIInv'
<1>1. CASE upload[u].account = Operator
  BY <1>1, LeaveStep DEF StoreUpload
<1>2. CASE upload[u].account # Operator
  <2>1. IInv' /\ TypeOK' /\ UNCHANGED vars /\ tier' = tier /\ upload' = [upload EXCEPT ![u] = NoUpload]
    BY NextHolds DEF AdmitIInv, IInv, StoreUpload, vars, Leave
  <2>2. /\ upload' \in [Uploaders -> Upload]
        /\ upload'[u] = NoUpload /\ \A v \in Uploaders \ {u} : upload'[v] = upload[v]
    BY <2>1, NoUploadIs DEF AdmitIInv, AdmissionTypeOK
  <2>3. \A v \in Uploaders : Judged(upload[v])' /\ Carried(upload[v])'
    BY <2>1, <2>2, NoUploadIs DEF AdmitIInv, Judged, Carried, NoUpload, Read
  <2>4. (\A a \in Accounts : \A f \in DOMAIN files[a] : Filed(files[a][f]))' /\ files' \in [Accounts -> Seq(File)]
    <3> DEFINE a == upload[u].account
    <3>1. PICK n, row :
             /\ Filed(row) /\ DOMAIN files'[a] = DOMAIN files[a] \cup {n}
             /\ files'[a][n] = row /\ \A f \in DOMAIN files[a] : files'[a][f] = files[a][f]
             /\ \A b \in Accounts \ {a} : files'[b] = files[b]
             /\ files' \in [Accounts -> Seq(File)]
      BY <1>2, StoresOne
    <3>2. ASSUME NEW b \in Accounts, NEW f \in DOMAIN files'[b] PROVE Filed(files'[b][f])
      BY <3>1 DEF AdmitIInv
    <3> QED BY <3>1, <3>2 DEF Filed
  <2> QED BY <2>1, <2>2, <2>3, <2>4 DEF AdmitIInv, AdmissionTypeOK
<1> QED BY <1>1, <1>2

\* A file that leaves a window is the same file.
LEMMA Grows ==
    ASSUME AdmitIInv, NEW b \in Accounts, NEW g \in DOMAIN files[b], Grow(b, g)
    PROVE  /\ files' \in [Accounts -> Seq(File)]
           /\ \A a \in Accounts :
                /\ DOMAIN files'[a] = DOMAIN files[a]
                /\ \A f \in DOMAIN files[a] : /\ files'[a][f].tier = files[a][f].tier
                                              /\ files'[a][f].size = files[a][f].size
                                              /\ files'[a][f].age >= files[a][f].age
<1> DEFINE older == [files[b][g] EXCEPT !.age = @ + 1]
<1>1. /\ files \in [Accounts -> Seq(File)] /\ files[b] \in Seq(File) /\ files[b][g] \in File
      /\ Len(files[b]) \in Nat /\ DOMAIN files[b] = 1..Len(files[b])
  BY Rows DEF AdmitIInv, AdmissionTypeOK
<1>2. files[b][g].age < Older
  BY DEF Grow
<1>3. /\ older \in File /\ older.tier = files[b][g].tier /\ older.size = files[b][g].size
      /\ older.age >= files[b][g].age
  <2>1. PICK row \in File : row = files[b][g]
    BY <1>1
  <2>2. row.age + 1 \in Hour..Older /\ row.age \in Int
    BY <1>2, <2>1 DEF File, Hour, Older
  <2>3. older = [row EXCEPT !.age = row.age + 1]
    BY <2>1
  <2> HIDE DEF older
  <2>4. older \in File /\ older.tier = row.tier /\ older.size = row.size /\ older.age = row.age + 1
    BY <2>2, <2>3 DEF File
  <2> QED BY <2>1, <2>2, <2>4
<1> HIDE DEF older
<1>4. files' = [files EXCEPT ![b] = [files[b] EXCEPT ![g] = older]]
  BY <1>1 DEF Grow, older
<1>5. /\ files'[b] = [files[b] EXCEPT ![g] = older]
      /\ \A a \in Accounts \ {b} : files'[a] = files[a]
  BY <1>1, <1>4
<1>6. [files[b] EXCEPT ![g] = older] \in Seq(File)
  BY <1>1, <1>3
<1>7. files' \in [Accounts -> Seq(File)]
  BY <1>1, <1>4, <1>6
<1>8. /\ DOMAIN files'[b] = DOMAIN files[b]
      /\ files'[b][g] = older /\ \A f \in DOMAIN files[b] \ {g} : files'[b][f] = files[b][f]
  BY <1>5
<1>9. ASSUME NEW a \in Accounts, NEW f \in DOMAIN files[a] PROVE files[a][f].age \in Int
  <2>1. files[a][f] \in File
    BY Rows DEF AdmitIInv
  <2> QED BY <2>1 DEF File, Hour, Older
<1>10. ASSUME NEW a \in Accounts
       PROVE  /\ DOMAIN files'[a] = DOMAIN files[a]
              /\ \A f \in DOMAIN files[a] : /\ files'[a][f].tier = files[a][f].tier
                                            /\ files'[a][f].size = files[a][f].size
                                            /\ files'[a][f].age >= files[a][f].age
  <2>1. CASE a = b
    BY <1>3, <1>8, <1>9, <2>1
  <2>2. CASE a # b
    BY <1>5, <1>9, <2>2
  <2> QED BY <2>1, <2>2
<1> QED BY <1>7, <1>10

LEMMA GrowStep ==
    ASSUME AdmitIInv, NEW a \in Accounts, NEW f \in DOMAIN files[a], Grow(a, f)
    PROVE  AdmitIInv'
<1>1. IInv' /\ TypeOK' /\ UNCHANGED <<vars, upload>> /\ tier' = tier
  BY NextHolds DEF AdmitIInv, IInv, Grow, vars
<1>2. AdmissionTypeOK'
  BY <1>1, Grows DEF AdmitIInv, AdmissionTypeOK
<1>3. (\A b \in Accounts : \A g \in DOMAIN files[b] : Filed(files[b][g]))'
  BY Grows DEF AdmitIInv, Filed
<1>4. \A v \in Uploaders : Judged(upload[v])' /\ Carried(upload[v])'
  BY <1>1 DEF AdmitIInv, Judged, Carried
<1> QED BY <1>1, <1>2, <1>3, <1>4 DEF AdmitIInv

\* Whatever is done to the accounts, an upload changes in its history only.
LEMMA OnlyLate ==
    ASSUME AdmitIInv, MarkLate
    PROVE  /\ upload' \in [Uploaders -> Upload] /\ files' = files
           /\ \A u \in Uploaders :
                /\ upload'[u].at = upload[u].at /\ upload'[u].account = upload[u].account
                /\ upload'[u].tier = upload[u].tier /\ upload'[u].body = upload[u].body
                /\ upload'[u].used = upload[u].used
                /\ \/ upload'[u].late = (tier'[upload[u].account] = "blocked")
                   \/ /\ upload'[u].late = upload[u].late
                      /\ \/ upload[u].at = "asking" \/ upload[u].account \notin Accounts
                         \/ tier'[upload[u].account] = tier[upload[u].account]
<1> DEFINE hit(u) == /\ upload[u].account \in {a \in Accounts : tier[a] # tier'[a]}
                     /\ upload[u].at # "asking"
<1>1. \A u \in Uploaders :
        /\ hit(u) => upload'[u] = [upload[u] EXCEPT !.late = tier'[upload[u].account] = "blocked"]
        /\ ~hit(u) => upload'[u] = upload[u]
  BY DEF MarkLate
<1>2. upload' = [u \in Uploaders |-> upload'[u]] /\ files' = files
  BY DEF MarkLate
<1>3. ASSUME NEW u \in Uploaders
      PROVE  /\ upload'[u] \in Upload
             /\ upload'[u].at = upload[u].at /\ upload'[u].account = upload[u].account
             /\ upload'[u].tier = upload[u].tier /\ upload'[u].body = upload[u].body
             /\ upload'[u].used = upload[u].used
             /\ \/ upload'[u].late = (tier'[upload[u].account] = "blocked")
                \/ /\ upload'[u].late = upload[u].late
                   /\ \/ upload[u].at = "asking" \/ upload[u].account \notin Accounts
                      \/ tier'[upload[u].account] = tier[upload[u].account]
  <2>1. upload[u] \in Upload
    BY DEF AdmitIInv, AdmissionTypeOK
  <2>2. CASE hit(u)
    <3> DEFINE late == tier'[upload[u].account] = "blocked"
    <3>1. upload'[u] = [upload[u] EXCEPT !.late = late] /\ late \in BOOLEAN
      BY <1>1, <2>2
    <3> HIDE DEF hit, late
    <3>2. /\ upload'[u] \in Upload
          /\ upload'[u].at = upload[u].at /\ upload'[u].account = upload[u].account
          /\ upload'[u].tier = upload[u].tier /\ upload'[u].body = upload[u].body
          /\ upload'[u].used = upload[u].used /\ upload'[u].late = late
      BY <2>1, <3>1 DEF Upload
    <3> QED BY <3>2 DEF late
  <2>3. CASE ~hit(u)
    BY <1>1, <2>1, <2>3
  <2> QED BY <2>2, <2>3
<1>4. upload' \in [Uploaders -> Upload]
  BY <1>2, <1>3
<1> QED BY <1>2, <1>3, <1>4

LEMMA AccountStep == ASSUME AdmitIInv, Next, MarkLate PROVE AdmitIInv'
<1>1. IInv' /\ TypeOK'
  BY NextHolds DEF AdmitIInv, IInv
<1>2. AdmissionTypeOK' /\ files' = files
  BY <1>1, OnlyLate DEF AdmitIInv, AdmissionTypeOK
<1>3. ASSUME NEW u \in Uploaders PROVE Judged(upload[u])' /\ Carried(upload[u])'
  <2>1. upload[u] \in Upload /\ Judged(upload[u]) /\ Carried(upload[u])
    BY DEF AdmitIInv, AdmissionTypeOK
  <2>2. upload[u].account \in Accounts \cup {Operator}
    BY <2>1 DEF Upload
  <2>3. Carried(upload[u])'
    BY <2>1, OnlyLate DEF Carried
  <2>4. Judged(upload[u])'
    BY <2>1, <2>2, OnlyLate DEF Judged, Read
  <2> QED BY <2>3, <2>4
<1>4. (\A a \in Accounts : \A f \in DOMAIN files[a] : Filed(files[a][f]))'
  BY <1>2 DEF AdmitIInv, Filed
<1> QED BY <1>1, <1>2, <1>3, <1>4 DEF AdmitIInv

LEMMA InitAdmits == ASSUME AdmitInit PROVE AdmitIInv
<1>1. upload = [u \in Uploaders |-> NoUpload] /\ files = [a \in Accounts |-> <<>>] /\ IInv
  BY InitHolds DEF AdmitInit
<1>2. \A u \in Uploaders : upload[u] = NoUpload
  BY <1>1
<1>3. AdmissionTypeOK
  BY <1>1, NoUploadIs DEF AdmissionTypeOK, IInv
<1>4. ASSUME NEW a \in Accounts PROVE DOMAIN files[a] = {}
  <2>1. files[a] = <<>> /\ Len(<<>>) = 0
    BY <1>1
  <2>2. DOMAIN files[a] = 1..Len(files[a])
    BY <1>3, Rows
  <2> QED BY <2>1, <2>2
<1> QED BY <1>1, <1>2, <1>3, <1>4, NoUploadIs DEF AdmitIInv

LEMMA AdmitStep == ASSUME AdmitIInv, [AdmitNext]_allVars PROVE AdmitIInv'
<1>1. ASSUME NEW u \in Uploaders, Uploading(u) PROVE AdmitIInv'
  <2>1. ASSUME GiveUp(u) PROVE AdmitIInv'
    BY <2>1, LeaveStep DEF GiveUp
  <2> QED BY <1>1, <2>1, AskToUploadStep, ReadTierStep, CountStep, JudgeStep, StoreStep DEF Uploading
<1>2. CASE UNCHANGED allVars
  <2>1. IInv' /\ TypeOK' /\ UNCHANGED <<tier, files, upload>>
    BY <1>2, NextHolds DEF AdmitIInv, IInv, allVars, admissionVars, vars
  <2> QED BY <2>1 DEF AdmitIInv, AdmissionTypeOK, Judged, Carried, Filed
<1> QED BY <1>1, <1>2, AccountStep, GrowStep DEF AdmitNext

\* The inductive invariant but for the quotas.
THEOREM Admitted == AdmitSpec => []AdmitIInv
<1>1. AdmitInit => AdmitIInv
  BY InitAdmits
<1>2. AdmitIInv /\ [AdmitNext]_allVars => AdmitIInv'
  BY AdmitStep
<1> QED BY <1>1, <1>2, PTL DEF AdmitSpec

\* Accounts, keys, files and uploads are what they are declared to be; that what
\* is counted is a number needs that a sum of sizes is one.
THEOREM AdmissionTyped == AdmitSpec => []AdmissionTypeOK
<1>1. AdmitIInv => AdmissionTypeOK
  BY DEF AdmitIInv
<1> QED BY <1>1, Admitted, PTL

\* Whatever is still to be stored for a blocked account was read before.
THEOREM BlockedUploadsAreLate == AdmitSpec => []BlockedUploadsWereLetIn
<1>1. AdmitIInv => BlockedUploadsWereLetIn
  BY DEF AdmitIInv, Judged, Read, BlockedUploadsWereLetIn
<1> QED BY <1>1, Admitted, PTL

-----------------------------------------------------------------------------
(* The quotas.                                                             *)

\* What is counted, over which window, and when it has been.
Whats == {"hour", "day", "week", "bytes"}

Window == [hour |-> Hour, day |-> Day, week |-> Week, bytes |-> Day]

Counted == [hour  |-> {"daily", "weekly", "judging", "admitted"},
            day   |-> {"weekly", "judging", "admitted"},
            bytes |-> {"weekly", "judging", "admitted"},
            week  |-> {"judging", "admitted"}]

\* What one more file may add to a count, and what some files come to.
Biggest == IF Bodies = {} THEN 0 ELSE Largest

Each(what) == IF what = "bytes" THEN Biggest ELSE 1

Weigh(rows, what, chosen) == IF what = "bytes" THEN Total(rows, chosen) ELSE Cardinality(chosen)

\* A tier that has a limit, of no more than so much.
Capped(t, what, most) == LimitsAt(t)[what] > 0 /\ LimitsAt(t)[what] <= most

Under(a, what, most) == {f \in Within(a, Window[what]) : Capped(files[a][f].tier, what, most)}

\* An upload that was counted and found below its limit.
Passed(up, a, what, most) ==
    /\ up.account = a /\ up.at \in Counted[what]
    /\ Capped(up.tier, what, most) /\ up.used[what] < LimitsAt(up.tier)[what]

ToStore(a, what, most) == {u \in Uploaders : Passed(upload[u], a, what, most)}

\* For every number: what is stored under tiers of that limit or less, and what
\* the uploads that passed such a limit may add, is below it but for one more
\* file by each upload.
Quota(a, what, most) ==
    Weigh(files[a], what, Under(a, what, most)) + Each(what) * Cardinality(ToStore(a, what, most))
        <= most - 1 + Each(what) * Cardinality(Uploaders)

Quotas == \A a \in Accounts, what \in Whats, most \in Nat \ {0} : Quota(a, what, most)

LEMMA LimitIs == ASSUME NEW t \in Tiers \cup {NoTier}, NEW what \in Whats PROVE LimitsAt(t)[what] \in Nat
  BY PolicyAssumption DEF LimitsAt, Limits, Unlimited, Whats

LEMMA BiggestIs == Biggest \in Nat /\ \A body \in Bodies : body.size <= Biggest
<1>1. CASE Bodies = {}
  BY <1>1 DEF Biggest
<1>2. CASE Bodies # {}
  <2> DEFINE sizes == {body.size : body \in Bodies}
             size  == [body \in Bodies |-> body.size]
  <2>1. size \in Surjection(Bodies, sizes)
    BY DEF Surjection
  <2>2. IsFiniteSet(sizes)
    BY <2>1, AdmissionAssumption, FS_Surjection
  <2>3. sizes \in SUBSET Nat /\ sizes # {}
    BY <1>2, AdmissionAssumption
  <2>4. Biggest = Max(sizes)
    BY <1>2 DEF Biggest, Largest
  <2>5. \A body \in Bodies : body.size \in sizes
    OBVIOUS
  <2> HIDE DEF sizes
  <2> QED BY <2>2, <2>3, <2>4, <2>5, Greatest
<1> QED BY <1>1, <1>2

LEMMA Times ==
    ASSUME NEW e \in Nat, NEW m \in Nat, NEW n \in Nat, m <= n
    PROVE  e * m \in Nat /\ e * m <= e * n /\ e * (m + 1) = e * m + e
  OBVIOUS

LEMMA EachIs == ASSUME NEW what PROVE Each(what) \in Nat
  BY BiggestIs DEF Each

LEMMA Weighs ==
    ASSUME NEW rows, NEW S, IsFiniteSet(S), Sized(rows, S), NEW what, NEW T \in SUBSET S
    PROVE  /\ Weigh(rows, what, S) \in Nat /\ Weigh(rows, what, T) \in Nat
           /\ Weigh(rows, what, T) <= Weigh(rows, what, S)
<1>1. IsFiniteSet(T) /\ Sized(rows, T) /\ Cardinality(T) <= Cardinality(S)
  BY FS_Subset DEF Sized
<1>2. Cardinality(S) \in Nat /\ Cardinality(T) \in Nat
  BY <1>1, FS_CardinalityType
<1> QED BY <1>1, <1>2, TotalNat, TotalSubset DEF Weigh

LEMMA Sums ==
    ASSUME AdmissionTypeOK, NEW a \in Accounts, NEW what \in Whats, NEW most
    PROVE  /\ Under(a, what, most) \in SUBSET Within(a, Window[what])
           /\ Within(a, Window[what]) \in SUBSET DOMAIN files[a]
           /\ IsFiniteSet(DOMAIN files[a]) /\ Sized(files[a], DOMAIN files[a])
           /\ Weigh(files[a], what, Under(a, what, most)) \in Nat
           /\ IsFiniteSet(ToStore(a, what, most)) /\ Cardinality(ToStore(a, what, most)) \in Nat
           /\ Cardinality(ToStore(a, what, most)) <= Cardinality(Uploaders)
           /\ Cardinality(Uploaders) \in Nat
           /\ Each(what) \in Nat
<1>1. /\ Under(a, what, most) \in SUBSET Within(a, Window[what])
      /\ Within(a, Window[what]) \in SUBSET DOMAIN files[a]
      /\ ToStore(a, what, most) \in SUBSET Uploaders
  BY DEF Under, Within, ToStore
<1>2. IsFiniteSet(DOMAIN files[a]) /\ Sized(files[a], DOMAIN files[a])
  BY Rows
<1>3. /\ IsFiniteSet(ToStore(a, what, most)) /\ Cardinality(ToStore(a, what, most)) <= Cardinality(Uploaders)
      /\ Cardinality(ToStore(a, what, most)) \in Nat /\ Cardinality(Uploaders) \in Nat
  BY <1>1, AdmissionAssumption, FS_Subset, FS_CardinalityType
<1>4. Under(a, what, most) \in SUBSET DOMAIN files[a]
  BY <1>1
<1> QED BY <1>1, <1>2, <1>3, <1>4, Weighs, EachIs

\* Fewer files, and fewer uploads to store.
LEMMA FewerQuota ==
    ASSUME AdmissionTypeOK, AdmissionTypeOK',
           NEW a \in Accounts, NEW what \in Whats, NEW most \in Nat \ {0}, Quota(a, what, most),
           Under(a, what, most)' \in SUBSET Under(a, what, most),
           \A f \in DOMAIN files[a] : files'[a][f].size = files[a][f].size,
           ToStore(a, what, most)' \in SUBSET ToStore(a, what, most)
    PROVE  Quota(a, what, most)'
<1> DEFINE S == Under(a, what, most)
           T == ToStore(a, what, most)
           U == Cardinality(Uploaders)
<1>1. S \in SUBSET DOMAIN files[a] /\ IsFiniteSet(S) /\ Sized(files[a], S)
  BY Sums, FS_Subset DEF Sized
<1>2. S' \in SUBSET S /\ IsFiniteSet(S') /\ \A f \in S' : files'[a][f].size = files[a][f].size
  BY <1>1, FS_Subset
<1>3. Weigh(files'[a], what, S') = Weigh(files[a], what, S')
  BY <1>2, TotalSame DEF Weigh
<1>4. Weigh(files[a], what, S') <= Weigh(files[a], what, S) /\ Weigh(files[a], what, S') \in Nat
      /\ Weigh(files[a], what, S) \in Nat
  BY <1>1, <1>2, Weighs
<1>5. /\ IsFiniteSet(T) /\ Cardinality(T) \in Nat /\ U \in Nat /\ Each(what) \in Nat
  BY Sums
<1>6. Cardinality(T') <= Cardinality(T) /\ Cardinality(T') \in Nat
  BY <1>5, FS_Subset, FS_CardinalityType
<1>7. /\ Each(what) * Cardinality(T') <= Each(what) * Cardinality(T)
      /\ Each(what) * Cardinality(T') \in Nat /\ Each(what) * Cardinality(T) \in Nat
      /\ Each(what) * U \in Nat
  BY <1>5, <1>6, Times
<1>8. Weigh(files[a], what, S) + Each(what) * Cardinality(T) <= most - 1 + Each(what) * U
  BY DEF Quota
<1>9. Weigh(files'[a], what, S') + Each(what) * Cardinality(T') <= most - 1 + Each(what) * U
  <2> HIDE DEF S, T, U
  <2> QED BY <1>3, <1>4, <1>7, <1>8
<1> QED BY <1>9 DEF Quota

\* When the whole window has just been found below the limit.
LEMMA CountedQuota ==
    ASSUME AdmissionTypeOK, AdmissionTypeOK', UNCHANGED files,
           NEW a \in Accounts, NEW what \in Whats, NEW most \in Nat \ {0},
           Weigh(files[a], what, Within(a, Window[what])) < most
    PROVE  Quota(a, what, most)'
<1> DEFINE S == Under(a, what, most)
           T == ToStore(a, what, most)
           U == Cardinality(Uploaders)
           W == Within(a, Window[what])
<1>1. /\ S \in SUBSET W /\ IsFiniteSet(W) /\ Sized(files[a], W)
  BY Sums, FS_Subset DEF Sized
<1>2. /\ Weigh(files[a], what, S) <= Weigh(files[a], what, W)
      /\ Weigh(files[a], what, S) \in Nat /\ Weigh(files[a], what, W) \in Nat
  BY <1>1, Weighs
<1>3. S' = S /\ files'[a] = files[a]
  BY DEF Under, Within
<1>4. T' \in SUBSET Uploaders /\ U \in Nat /\ Each(what) \in Nat
  BY Sums DEF ToStore
<1>5. Cardinality(T') <= U /\ Cardinality(T') \in Nat
  BY <1>4, AdmissionAssumption, FS_Subset, FS_CardinalityType
<1>6. /\ Each(what) * Cardinality(T') <= Each(what) * U
      /\ Each(what) * Cardinality(T') \in Nat /\ Each(what) * U \in Nat
  BY <1>4, <1>5, Times
<1>7. Weigh(files'[a], what, S') + Each(what) * Cardinality(T') <= most - 1 + Each(what) * U
  <2>1. Weigh(files[a], what, W) < most
    OBVIOUS
  <2> HIDE DEF S, T, U, W
  <2> QED BY <1>2, <1>3, <1>6, <2>1
<1> QED BY <1>7 DEF Quota

\* When an upload that passed has stored its file.
LEMMA StoredQuota ==
    ASSUME AdmissionTypeOK, AdmissionTypeOK',
           NEW a \in Accounts, NEW what \in Whats, NEW most \in Nat \ {0}, Quota(a, what, most),
           NEW u \in ToStore(a, what, most), ToStore(a, what, most)' = ToStore(a, what, most) \ {u},
           NEW n, n \notin DOMAIN files[a], files'[a][n].size \in 0..Biggest,
           Under(a, what, most)' \in SUBSET (Under(a, what, most) \cup {n}),
           \A f \in DOMAIN files[a] : files'[a][f].size = files[a][f].size
    PROVE  Quota(a, what, most)'
<1> DEFINE S == Under(a, what, most)
           N == S \cup {n}
           T == ToStore(a, what, most)
           U == Cardinality(Uploaders)
<1>1. S \in SUBSET DOMAIN files[a] /\ IsFiniteSet(S) /\ Sized(files[a], S)
  BY Sums, FS_Subset DEF Sized
<1>2. Biggest \in Nat
  BY BiggestIs
<1>3. IsFiniteSet(N) /\ Sized(files'[a], N) /\ N \ {n} = S /\ Cardinality(N) = Cardinality(S) + 1
  <2>1. n \notin S
    BY <1>1
  <2>2. IsFiniteSet(N) /\ Cardinality(N) = Cardinality(S) + 1
    BY <1>1, <2>1, FS_AddElement
  <2>3. Sized(files'[a], N)
    BY <1>1, <1>2 DEF Sized
  <2> QED BY <2>1, <2>2, <2>3
<1>4. Weigh(files'[a], what, N) <= Weigh(files[a], what, S) + Each(what)
  <2>1. CASE what = "bytes"
    <3>1. Total(files'[a], N) = Total(files'[a], S) + files'[a][n].size
      BY <1>3, TotalLess
    <3>2. Total(files'[a], S) = Total(files[a], S)
      BY <1>1, TotalSame
    <3>3. Total(files[a], S) \in Nat
      BY <1>1, TotalNat
    <3> QED BY <1>2, <2>1, <3>1, <3>2, <3>3 DEF Weigh, Each
  <2>2. CASE what # "bytes"
    <3>1. Cardinality(S) \in Nat
      BY <1>1, FS_CardinalityType
    <3> QED BY <1>3, <2>2, <3>1 DEF Weigh, Each
  <2> QED BY <2>1, <2>2
<1>5. Weigh(files[a], what, S) \in Nat
  BY <1>1, Weighs
<1>6. /\ Weigh(files'[a], what, S') <= Weigh(files'[a], what, N)
      /\ Weigh(files'[a], what, S') \in Nat /\ Weigh(files'[a], what, N) \in Nat
  BY <1>3, Weighs
<1>7. IsFiniteSet(T) /\ Cardinality(T) \in Nat /\ U \in Nat /\ Each(what) \in Nat
  BY Sums
<1>8. Cardinality(T') = Cardinality(T) - 1 /\ Cardinality(T') \in Nat
  BY <1>7, FS_RemoveElement, FS_CardinalityType
<1>9. /\ Each(what) * Cardinality(T) = Each(what) * Cardinality(T') + Each(what)
      /\ Each(what) * Cardinality(T') \in Nat /\ Each(what) * U \in Nat
  <2>1. PICK m \in Nat : m = Cardinality(T') /\ Cardinality(T) = m + 1
    BY <1>7, <1>8
  <2> HIDE DEF T, U
  <2> QED BY <1>7, <2>1, Times
<1>10. Weigh(files[a], what, S) + Each(what) * Cardinality(T) <= most - 1 + Each(what) * U
  BY DEF Quota
<1>11. Weigh(files'[a], what, S') + Each(what) * Cardinality(T') <= most - 1 + Each(what) * U
  <2> HIDE DEF S, T, U, N
  <2> QED BY <1>4, <1>5, <1>6, <1>7, <1>9, <1>10
<1> QED BY <1>11 DEF Quota

\* A step that is about one upload only, and leaves the files alone: if it then has
\* passed a limit, it had before, or has just been counted.
LEMMA UploadQuotas ==
    ASSUME AdmitIInv, AdmitIInv', Quotas, NEW u \in Uploaders, UNCHANGED files,
           \A v \in Uploaders \ {u} : upload'[v] = upload[v],
           \A a \in Accounts, what \in Whats, most \in Nat \ {0} :
               Passed(upload'[u], a, what, most) =>
                   \/ Passed(upload[u], a, what, most)
                   \/ Weigh(files[a], what, Within(a, Window[what])) < most
    PROVE  Quotas'
<1> SUFFICES ASSUME NEW a \in Accounts, NEW what \in Whats, NEW most \in Nat \ {0}
             PROVE  Quota(a, what, most)'
  BY DEF Quotas
<1>1. AdmissionTypeOK /\ AdmissionTypeOK' /\ Quota(a, what, most)
  BY DEF AdmitIInv, Quotas
<1>2. CASE Weigh(files[a], what, Within(a, Window[what])) < most
  BY <1>1, <1>2, CountedQuota
<1>3. CASE Passed(upload'[u], a, what, most) => Passed(upload[u], a, what, most)
  <2>1. ToStore(a, what, most)' \in SUBSET ToStore(a, what, most)
    BY <1>3 DEF ToStore, Passed, Capped
  <2>2. Under(a, what, most)' \in SUBSET Under(a, what, most)
    BY DEF Under, Within, Capped
  <2> QED BY <1>1, <2>1, <2>2, FewerQuota
<1> QED BY <1>2, <1>3

\* An upload that is not counted, or of nobody's account, has passed no limit.
LEMMA NotPassed ==
    ASSUME NEW up, up.at \in {"idle", "asking", "hourly"} \/ up.account = Operator,
           NEW a \in Accounts, NEW what \in Whats, NEW most
    PROVE  ~Passed(up, a, what, most)
  BY AccountsAssumption DEF Passed, Counted, Whats

LEMMA CountQuotas ==
    ASSUME AdmitIInv, AdmitIInv', Quotas, NEW u \in Uploaders,
           CountHour(u) \/ CountDay(u) \/ CountWeek(u)
    PROVE  Quotas'
<1>1. /\ upload \in [Uploaders -> Upload] /\ upload[u] \in Upload /\ upload[u].account \in Accounts
      /\ upload[u].used \in [hour : Nat, day : Nat, week : Nat, bytes : Nat]
      /\ UNCHANGED files /\ AdmissionTypeOK
  BY DEF AdmitIInv, AdmissionTypeOK, Upload, Carried, CountHour, CountDay, CountWeek
<1> DEFINE b == upload[u].account
<1>2. \A v \in Uploaders \ {u} : upload'[v] = upload[v]
  BY <1>1 DEF CountHour, CountDay, CountWeek
<1>3. ASSUME NEW a \in Accounts, NEW what \in Whats, NEW most \in Nat \ {0},
             Passed(upload'[u], a, what, most)
      PROVE  \/ Passed(upload[u], a, what, most)
             \/ Weigh(files[a], what, Within(a, Window[what])) < most
  <2>1. PICK up : up = upload'[u]
    OBVIOUS
  <2>2. up.account = a /\ up.at \in Counted[what] /\ Capped(up.tier, what, most)
        /\ up.used[what] < LimitsAt(up.tier)[what]
    BY <1>3, <2>1 DEF Passed
  <2>3. up.account = b /\ up.tier = upload[u].tier
    BY <1>1, <2>1 DEF CountHour, CountDay, CountWeek, Upload
  <2>4. upload[u].tier \in Tiers \cup {NoTier} /\ LimitsAt(upload[u].tier)[what] \in Nat
    BY <1>1, LimitIs DEF Upload
  <2>5. /\ Cardinality(Within(a, Window[what])) \in Nat
        /\ BytesOf(a, Within(a, Window[what])) = Total(files[a], Within(a, Window[what]))
        /\ Total(files[a], Within(a, Window[what])) \in Nat
    BY <1>1, Counts
  <2>6. CASE CountHour(u)
    <3>1. up.at = "daily" /\ up.used.hour = Cardinality(Within(a, Hour))
      BY <1>1, <2>1, <2>2, <2>3, <2>6 DEF CountHour, Upload
    <3>2. what = "hour"
      BY <2>2, <3>1 DEF Whats, Counted
    <3> QED BY <2>2, <2>3, <2>4, <2>5, <3>1, <3>2 DEF Weigh, Window, Capped
  <2>7. CASE CountDay(u)
    <3>1. /\ up.at = "weekly" /\ upload[u].at = "daily" /\ up.used.hour = upload[u].used.hour
          /\ up.used.day = Cardinality(Within(a, Day)) /\ up.used.bytes = BytesOf(a, Within(a, Day))
      BY <1>1, <2>1, <2>2, <2>3, <2>7 DEF CountDay, Upload
    <3>2. CASE what = "hour"
      BY <2>2, <2>3, <3>1, <3>2 DEF Passed, Counted
    <3>3. CASE what \in {"day", "bytes"}
      BY <2>2, <2>3, <2>4, <2>5, <3>1, <3>3 DEF Weigh, Window, Capped
    <3>4. what # "week"
      BY <2>2, <3>1 DEF Counted
    <3> QED BY <3>2, <3>3, <3>4 DEF Whats
  <2>8. CASE CountWeek(u)
    <3>1. /\ up.at = "judging" /\ upload[u].at = "weekly" /\ up.used.hour = upload[u].used.hour
          /\ up.used.day = upload[u].used.day /\ up.used.bytes = upload[u].used.bytes
          /\ up.used.week = Cardinality(Within(a, Week))
      BY <1>1, <2>1, <2>2, <2>3, <2>8 DEF CountWeek, Upload
    <3>2. CASE what \in {"hour", "day", "bytes"}
      BY <2>2, <2>3, <3>1, <3>2 DEF Passed, Counted
    <3>3. CASE what = "week"
      BY <2>2, <2>3, <2>4, <2>5, <3>1, <3>3 DEF Weigh, Window, Capped
    <3> QED BY <3>2, <3>3 DEF Whats
  <2> QED BY <2>6, <2>7, <2>8
<1> QED BY <1>1, <1>2, <1>3, UploadQuotas

LEMMA JudgeQuotas ==
    ASSUME AdmitIInv, AdmitIInv', Quotas, NEW u \in Uploaders, Judge(u)
    PROVE  Quotas'
<1>1. /\ upload \in [Uploaders -> Upload] /\ upload[u] \in Upload /\ upload[u].at = "judging"
      /\ upload[u].used \in [hour : Nat, day : Nat, week : Nat, bytes : Nat]
      /\ upload[u].tier \in Tiers \cup {NoTier} /\ UNCHANGED files
  BY DEF AdmitIInv, AdmissionTypeOK, Upload, Judge
<1>2. CASE Verdict(upload[u]) = "allowed"
  <2>1. ~LimitReached(LimitsAt(upload[u].tier), upload[u].used)
    BY <1>2 DEF Verdict, Evaluate
  <2>2. \A what \in Whats : ~Reached(LimitsAt(upload[u].tier)[what], upload[u].used[what])
    BY <2>1 DEF LimitReached, Whats
  <2>3. /\ upload' = [upload EXCEPT ![u].at = "admitted", ![u].used = NothingUsed]
        /\ upload'[u].account = upload[u].account /\ upload'[u].tier = upload[u].tier
        /\ \A v \in Uploaders \ {u} : upload'[v] = upload[v]
    BY <1>1, <1>2 DEF Judge, Upload
  <2>4. ASSUME NEW a \in Accounts, NEW what \in Whats, NEW most \in Nat \ {0},
               Passed(upload'[u], a, what, most)
        PROVE  Passed(upload[u], a, what, most)
    <3>1. /\ LimitsAt(upload[u].tier)[what] \in Nat /\ upload[u].used[what] \in Nat
          /\ LimitsAt(upload[u].tier)[what] > 0
      BY <1>1, <2>3, <2>4, LimitIs DEF Passed, Capped, Whats
    <3>2. upload[u].used[what] < LimitsAt(upload[u].tier)[what]
      BY <2>2, <3>1 DEF Reached
    <3>3. "judging" \in Counted[what]
      BY DEF Counted, Whats
    <3> QED BY <1>1, <2>3, <2>4, <3>2, <3>3 DEF Passed
  <2> QED BY <1>1, <2>3, <2>4, UploadQuotas
<1>3. CASE Leave(u)
  <2>1. upload'[u].at = "idle" /\ \A v \in Uploaders \ {u} : upload'[v] = upload[v]
    BY <1>1, <1>3 DEF Leave, NoUpload
  <2> QED BY <1>1, <2>1, NotPassed, UploadQuotas
<1> QED BY <1>2, <1>3 DEF Judge

LEMMA StoreQuotas ==
    ASSUME AdmitIInv, AdmitIInv', Quotas, NEW u \in Uploaders, StoreUpload(u)
    PROVE  Quotas'
<1>1. /\ upload \in [Uploaders -> Upload] /\ upload[u] \in Upload /\ upload[u].at = "admitted"
      /\ upload[u].tier \in Tiers \cup {NoTier} /\ upload[u].used = NothingUsed
      /\ AdmissionTypeOK /\ AdmissionTypeOK'
  BY DEF AdmitIInv, AdmissionTypeOK, Upload, StoreUpload, Carried
<1>2. upload'[u] = NoUpload /\ \A v \in Uploaders \ {u} : upload'[v] = upload[v]
  BY <1>1 DEF StoreUpload, Leave
<1>3. CASE upload[u].account = Operator
  <2>1. UNCHANGED files /\ upload'[u].at = "idle"
    BY <1>2, <1>3 DEF StoreUpload, NoUpload
  <2> QED BY <1>2, <2>1, NotPassed, UploadQuotas
<1>4. CASE upload[u].account # Operator
  <2> DEFINE b == upload[u].account
  <2>1. PICK n, row :
           /\ b \in Accounts /\ row \in File /\ Filed(row) /\ row.tier = upload[u].tier
           /\ n \notin DOMAIN files[b] /\ DOMAIN files'[b] = DOMAIN files[b] \cup {n}
           /\ files'[b][n] = row /\ \A f \in DOMAIN files[b] : files'[b][f] = files[b][f]
           /\ \A a \in Accounts \ {b} : files'[a] = files[a]
    BY <1>4, StoresOne
  <2> SUFFICES ASSUME NEW a \in Accounts, NEW what \in Whats, NEW most \in Nat \ {0}
               PROVE  Quota(a, what, most)'
    BY DEF Quotas
  <2>2. Quota(a, what, most)
    BY DEF Quotas
  <2>3. ToStore(a, what, most)' = ToStore(a, what, most) \ {u}
    <3>1. ~Passed(upload'[u], a, what, most)
      BY <1>2, NotPassed DEF NoUpload
    <3> QED BY <1>2, <3>1 DEF ToStore, Passed, Capped
  <2>4. CASE a = b /\ Capped(upload[u].tier, what, most)
    <3>1. u \in ToStore(a, what, most)
      <4>1. NothingUsed[what] = 0 /\ "admitted" \in Counted[what]
        BY DEF NothingUsed, Counted, Whats
      <4>2. LimitsAt(upload[u].tier)[what] > 0
        BY <2>4 DEF Capped
      <4> QED BY <1>1, <2>4, <4>1, <4>2 DEF ToStore, Passed
    <3>2. files'[a][n].size \in 0..Biggest
      <4>1. row.size \in Nat
        BY <2>1 DEF File
      <4>2. row.size <= Biggest /\ Biggest \in Nat
        BY <2>1, BiggestIs DEF Filed
      <4> QED BY <2>1, <2>4, <4>1, <4>2
    <3>3. Under(a, what, most)' \in SUBSET (Under(a, what, most) \cup {n})
      BY <2>1, <2>4 DEF Under, Within, Capped
    <3>4. \A f \in DOMAIN files[a] : files'[a][f].size = files[a][f].size
      BY <2>1, <2>4
    <3> QED BY <1>1, <2>1, <2>2, <2>3, <2>4, <3>1, <3>2, <3>3, <3>4, StoredQuota
  <2>5. CASE ~(a = b /\ Capped(upload[u].tier, what, most))
    <3>1. Under(a, what, most)' \in SUBSET Under(a, what, most)
      <4>1. CASE a = b
        BY <2>1, <2>5, <4>1 DEF Under, Within, Capped
      <4>2. CASE a # b
        BY <2>1, <4>2 DEF Under, Within, Capped
      <4> QED BY <4>1, <4>2
    <3>2. \A f \in DOMAIN files[a] : files'[a][f].size = files[a][f].size
      BY <2>1
    <3> QED BY <1>1, <2>2, <2>3, <3>1, <3>2, FewerQuota
  <2> QED BY <2>4, <2>5
<1> QED BY <1>3, <1>4

LEMMA UploadingQuotas ==
    ASSUME AdmitIInv, AdmitIInv', Quotas, NEW u \in Uploaders, Uploading(u)
    PROVE  Quotas'
<1>1. upload \in [Uploaders -> Upload] /\ upload[u] \in Upload
  BY DEF AdmitIInv, AdmissionTypeOK
<1>2. ASSUME UNCHANGED files, \A v \in Uploaders \ {u} : upload'[v] = upload[v],
             upload'[u].at \in {"idle", "asking", "hourly"} \/ upload'[u].account = Operator
      PROVE  Quotas'
  BY <1>2, NotPassed, UploadQuotas
<1>3. ASSUME NEW k \in Ids, NEW on \in Namespaces, NEW body \in Bodies, AskToUpload(u, k, on, body)
      PROVE  Quotas'
  <2>1. UNCHANGED files /\ \A v \in Uploaders \ {u} : upload'[v] = upload[v]
    BY <1>1, <1>3 DEF AskToUpload
  <2>2. upload'[u].at = "asking" \/ upload'[u].account = Operator
    BY <1>1, <1>3 DEF AskToUpload, NoUpload
  <2> QED BY <1>2, <2>1, <2>2
<1>4. CASE ReadTier(u)
  <2>1. UNCHANGED files /\ \A v \in Uploaders \ {u} : upload'[v] = upload[v]
    BY <1>1, <1>4 DEF ReadTier
  <2>2. upload'[u].at = "hourly"
    BY <1>1, <1>4 DEF ReadTier, Upload
  <2> QED BY <1>2, <2>1, <2>2
<1>5. CASE GiveUp(u)
  <2>1. UNCHANGED files /\ upload'[u].at = "idle" /\ \A v \in Uploaders \ {u} : upload'[v] = upload[v]
    BY <1>1, <1>5 DEF GiveUp, Leave, NoUpload
  <2> QED BY <1>2, <2>1
<1> QED BY <1>3, <1>4, <1>5, CountQuotas, JudgeQuotas, StoreQuotas DEF Uploading

LEMMA QuotasStep == ASSUME AdmitIInv, AdmitIInv', Quotas, [AdmitNext]_allVars PROVE Quotas'
<1>1. AdmissionTypeOK /\ AdmissionTypeOK'
  BY DEF AdmitIInv
<1>2. ASSUME UNCHANGED files,
             \A u \in Uploaders :
                 /\ upload'[u].at = upload[u].at /\ upload'[u].account = upload[u].account
                 /\ upload'[u].tier = upload[u].tier /\ upload'[u].used = upload[u].used
      PROVE  Quotas'
  <2> SUFFICES ASSUME NEW a \in Accounts, NEW what \in Whats, NEW most \in Nat \ {0}
               PROVE  Quota(a, what, most)'
    BY DEF Quotas
  <2>1. ToStore(a, what, most)' \in SUBSET ToStore(a, what, most)
    BY <1>2 DEF ToStore, Passed, Capped
  <2>2. Under(a, what, most)' \in SUBSET Under(a, what, most)
    BY <1>2 DEF Under, Within, Capped
  <2> QED BY <1>1, <1>2, <2>1, <2>2, FewerQuota DEF Quotas
<1>3. ASSUME MarkLate PROVE Quotas'
  BY <1>2, <1>3, OnlyLate
<1>4. CASE UNCHANGED allVars
  BY <1>2, <1>4 DEF allVars, admissionVars
<1>5. ASSUME NEW b \in Accounts, NEW g \in DOMAIN files[b], Grow(b, g) PROVE Quotas'
  <2> SUFFICES ASSUME NEW a \in Accounts, NEW what \in Whats, NEW most \in Nat \ {0}
               PROVE  Quota(a, what, most)'
    BY DEF Quotas
  <2>1. UNCHANGED upload
    BY <1>5 DEF Grow
  <2>2. /\ DOMAIN files'[a] = DOMAIN files[a]
        /\ \A f \in DOMAIN files[a] : /\ files'[a][f].tier = files[a][f].tier
                                      /\ files'[a][f].size = files[a][f].size
                                      /\ files'[a][f].age >= files[a][f].age
    BY <1>5, Grows
  <2>3. \A f \in DOMAIN files[a] : files[a][f].age \in Int /\ files'[a][f].age \in Int
    <3> SUFFICES ASSUME NEW f \in DOMAIN files[a]
                 PROVE  files[a][f].age \in Int /\ files'[a][f].age \in Int
      OBVIOUS
    <3>1. files[a][f] \in File
      BY <1>1, Rows
    <3>2. files'[a][f] \in File
      BY <1>1, <2>2 DEF AdmissionTypeOK
    <3> QED BY <3>1, <3>2 DEF File, Hour, Older
  <2>4. Window[what] \in Int
    BY DEF Window, Whats, Hour, Day, Week
  <2>5. ToStore(a, what, most)' \in SUBSET ToStore(a, what, most)
    BY <2>1 DEF ToStore, Passed, Capped
  <2>6. Under(a, what, most)' \in SUBSET Under(a, what, most)
    <3>1. ASSUME NEW f \in DOMAIN files'[a], files'[a][f].age <= Window[what]
          PROVE  f \in DOMAIN files[a] /\ files[a][f].age <= Window[what]
      BY <2>2, <2>3, <2>4, <3>1
    <3> QED BY <2>2, <3>1 DEF Under, Within, Capped
  <2> QED BY <1>1, <2>2, <2>5, <2>6, FewerQuota DEF Quotas
<1> QED BY <1>3, <1>4, <1>5, UploadingQuotas DEF AdmitNext

LEMMA InitQuotas == ASSUME AdmitInit PROVE Quotas
<1> SUFFICES ASSUME NEW a \in Accounts, NEW what \in Whats, NEW most \in Nat \ {0}
             PROVE  Quota(a, what, most)
  BY DEF Quotas
<1>1. AdmissionTypeOK /\ files[a] = <<>> /\ \A u \in Uploaders : upload[u] = NoUpload
  BY InitAdmits DEF AdmitInit, AdmitIInv
<1>2. ToStore(a, what, most) = {}
  BY <1>1, NotPassed DEF ToStore, NoUpload
<1>3. Under(a, what, most) = {}
  <2>1. DOMAIN files[a] = 1..Len(<<>>) /\ Len(<<>>) = 0
    BY <1>1, Rows
  <2> QED BY <2>1 DEF Under, Within
<1>4. Cardinality({}) = 0 /\ IsFiniteSet({})
  BY FS_EmptySet
<1>5. Weigh(files[a], what, {}) = 0
  BY <1>4, TotalStep DEF Weigh
<1>6. Each(what) \in Nat /\ Cardinality(Uploaders) \in Nat
  BY <1>1, Sums
<1>7. Each(what) * Cardinality(Uploaders) \in Nat /\ Each(what) * 0 = 0
  BY <1>6
<1> QED BY <1>2, <1>3, <1>4, <1>5, <1>7 DEF Quota

\* The tiers' numbers are in one order, as those of policy.For are: of any two
\* limits on one thing that of the higher tier is the wider.
Ascending ==
    \A what \in Whats :
        /\ Capped("contributor", what, LimitsOf["contributor"][what]) =>
               Capped("unknown", what, LimitsOf["contributor"][what])
        /\ Capped("admin", what, LimitsOf["admin"][what]) =>
               /\ Capped("contributor", what, LimitsOf["admin"][what])
               /\ Capped("unknown", what, LimitsOf["admin"][what])

\* The file of the highest tier in a window is the one to go by.
LEMMA Highest ==
    ASSUME AdmitIInv, Ascending, NEW a \in Accounts, NEW window, Within(a, window) # {}
    PROVE  \E f \in Within(a, window) :
             \A what \in Whats : LimitsAt(files[a][f].tier)[what] > 0 =>
                 \A g \in Within(a, window) :
                     Capped(files[a][g].tier, what, LimitsAt(files[a][f].tier)[what])
<1> DEFINE W == Within(a, window)
           has(t) == \E f \in W : files[a][f].tier = t
<1>1. \A f \in W : files[a][f].tier \in {"unknown", "contributor", "admin", NoTier}
  <2> SUFFICES ASSUME NEW f \in DOMAIN files[a]
               PROVE  files[a][f].tier \in {"unknown", "contributor", "admin", NoTier}
    BY DEF Within
  <2>1. files[a][f] \in File /\ files[a][f].tier # "blocked"
    BY Rows DEF AdmitIInv, Filed
  <2> QED BY <2>1 DEF File, Tiers
<1>2. /\ LimitsAt("unknown") = LimitsOf["unknown"] /\ LimitsAt("contributor") = LimitsOf["contributor"]
      /\ LimitsAt("admin") = LimitsOf["admin"]
      /\ \A what \in Whats : LimitsAt(NoTier)[what] = 0
  BY AccountsAssumption DEF LimitsAt, Tiers, Unlimited, Whats
<1>3. \A what \in Whats, t \in {"unknown", "contributor", "admin"} :
        LimitsAt(t)[what] \in Nat /\ (LimitsAt(t)[what] > 0 => Capped(t, what, LimitsAt(t)[what]))
  BY LimitIs DEF Capped, Tiers
<1>4. CASE has(NoTier)
  BY <1>2, <1>4
<1>5. CASE ~has(NoTier) /\ has("admin")
  BY <1>1, <1>2, <1>3, <1>5 DEF Ascending
<1>6. CASE ~has(NoTier) /\ ~has("admin") /\ has("contributor")
  BY <1>1, <1>2, <1>3, <1>6 DEF Ascending
<1>7. CASE ~has(NoTier) /\ ~has("admin") /\ ~has("contributor")
  BY <1>1, <1>2, <1>3, <1>7
<1> QED BY <1>4, <1>5, <1>6, <1>7

LEMMA QuotasBound == ASSUME AdmitIInv, Quotas, Ascending PROVE QuotaBounded
<1> SUFFICES ASSUME NEW a \in Accounts, NEW window \in {Hour, Day, Week}, Within(a, window) # {}
             PROVE  \E f \in Within(a, window) :
                LET limits == LimitsAt(files[a][f].tier)
                    n      == Cardinality(Within(a, window))
                IN  /\ window = Hour => Overshoots(limits.hour, n, 1)
                    /\ window = Day => Overshoots(limits.day, n, 1)
                    /\ window = Day => Overshoots(limits.bytes, BytesOf(a, Within(a, Day)), Largest)
                    /\ window = Week => Overshoots(limits.week, n, 1)
  BY DEF QuotaBounded
<1>1. PICK f \in Within(a, window) :
        \A what \in Whats : LimitsAt(files[a][f].tier)[what] > 0 =>
            \A g \in Within(a, window) :
                Capped(files[a][g].tier, what, LimitsAt(files[a][f].tier)[what])
  BY Highest
<1>2. AdmissionTypeOK /\ files[a][f] \in File /\ Filed(files[a][f]) /\ f \in DOMAIN files[a]
  BY Rows DEF AdmitIInv, Within
<1>3. \A what \in Whats : LimitsAt(files[a][f].tier)[what] \in Nat
  BY <1>2, LimitIs DEF File
<1>4. Biggest = Largest
  BY <1>2 DEF Filed, Biggest
<1>5. ASSUME NEW what \in Whats, Window[what] = window
      PROVE  Overshoots(LimitsAt(files[a][f].tier)[what],
                        Weigh(files[a], what, Within(a, window)), Each(what))
  <2> DEFINE most == LimitsAt(files[a][f].tier)[what]
  <2> SUFFICES ASSUME most > 0
               PROVE  Weigh(files[a], what, Within(a, window))
                          <= most - 1 + Each(what) * Cardinality(Uploaders)
    BY DEF Overshoots
  <2>1. most \in Nat \ {0}
    BY <1>3
  <2>2. Under(a, what, most) = Within(a, window)
    BY <1>1, <1>5 DEF Under
  <2> HIDE DEF most
  <2>3. /\ Weigh(files[a], what, Within(a, window)) \in Nat
        /\ Each(what) \in Nat /\ Cardinality(ToStore(a, what, most)) \in Nat
        /\ Cardinality(Uploaders) \in Nat
    BY <1>2, <2>2, Sums
  <2>4. Quota(a, what, most)
    BY <2>1 DEF Quotas
  <2>5. /\ Each(what) * Cardinality(ToStore(a, what, most)) \in Nat
        /\ Each(what) * Cardinality(Uploaders) \in Nat
    BY <2>3
  <2> QED BY <2>1, <2>2, <2>3, <2>4, <2>5 DEF Quota
<1>6. /\ Window["hour"] = Hour /\ Window["day"] = Day /\ Window["bytes"] = Day /\ Window["week"] = Week
      /\ {"hour", "day", "bytes", "week"} \subseteq Whats
  BY DEF Window, Whats
<1>7. /\ Each("hour") = 1 /\ Each("day") = 1 /\ Each("week") = 1 /\ Each("bytes") = Largest
      /\ \A what \in {"hour", "day", "week"} :
            Weigh(files[a], what, Within(a, window)) = Cardinality(Within(a, window))
      /\ Weigh(files[a], "bytes", Within(a, Day)) = BytesOf(a, Within(a, Day))
  BY <1>2, <1>4, Counts DEF Each, Weigh
<1>8. window = Hour => Overshoots(LimitsAt(files[a][f].tier).hour, Cardinality(Within(a, window)), 1)
  BY <1>5, <1>6, <1>7
<1>9. window = Day => Overshoots(LimitsAt(files[a][f].tier).day, Cardinality(Within(a, window)), 1)
  BY <1>5, <1>6, <1>7
<1>10. window = Day => Overshoots(LimitsAt(files[a][f].tier).bytes, BytesOf(a, Within(a, Day)), Largest)
  BY <1>5, <1>6, <1>7
<1>11. window = Week => Overshoots(LimitsAt(files[a][f].tier).week, Cardinality(Within(a, window)), 1)
  BY <1>5, <1>6, <1>7
<1> QED BY <1>8, <1>9, <1>10, <1>11

\* What an account has stored stays within its limits, for every window and for
\* the day's bytes, but for one file of each upload that was let in at once.
THEOREM QuotaKept ==
    ASSUME Ascending
    PROVE  AdmitSpec => []QuotaBounded
<1>1. AdmitInit => Quotas
  BY InitQuotas
<1>2. AdmitIInv /\ AdmitIInv' /\ Quotas /\ [AdmitNext]_allVars => Quotas'
  BY QuotasStep
<1>3. AdmitIInv /\ Quotas => QuotaBounded
  BY QuotasBound
<1> QED BY <1>1, <1>2, <1>3, Admitted, PTL DEF AdmitSpec

=============================================================================
