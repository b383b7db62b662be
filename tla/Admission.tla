----------------------------- MODULE Admission ------------------------------
(***************************************************************************)
(* Uploads against the limits of their account: internal/api/assets.go     *)
(* lets an upload in by what its account has stored so far, and            *)
(* internal/assets stores it later, when its bytes have come, or, for an   *)
(* upload in parts, when its last part has.                                *)
(*                                                                         *)
(* `files' are the rows of the assets table that an account's usage is     *)
(* counted from, oldest first.  A file's age is the narrowest window it is *)
(* still in.  Composed with Accounts: an upload is let in by a key, and    *)
(* goes by the tier its account has then.                                  *)
(***************************************************************************)
EXTENDS Accounts, FiniteSetsExt

CONSTANTS Uploaders, \* upload requests at work, and uploads open in parts
          Bodies,    \* what people upload: type, units, and units announced
          MaxFiles   \* bound: files stored over the whole run

ASSUME AdmissionAssumption ==
    /\ IsFiniteSet(Uploaders)
    /\ Bodies \subseteq [type : {"image", "other"}, size : Nat \ {0}, said : Int]
    /\ IsFiniteSet(Bodies) \* the server itself takes none above a size
    /\ MaxFiles \in Nat

VARIABLES files,  \* what each account has stored
          upload  \* what each upload is doing

admissionVars == <<files, upload>>
allVars == <<vars, admissionVars>>

-----------------------------------------------------------------------------
(* Types.                                                                  *)

Hour == 0
Day == 1
Week == 2
Older == 3

\* `tier' is history: the tier the file was let in by.
File == [age : Hour..Older, size : Nat, tier : Tiers \cup {NoTier}]

NoBody == [type |-> "other", size |-> 0, said |-> 0]

\* A body is as long as announced, or announced as -1, not known.  `used' is what
\* was counted so far; `late' is history: the account was blocked after it was read.
Upload == [at : {"idle", "asking", "hourly", "daily", "weekly", "judging", "admitted"},
           account : Accounts \cup {Operator}, body : Bodies \cup {NoBody}, tier : Tiers \cup {NoTier},
           used : [hour : Nat, day : Nat, week : Nat, bytes : Nat], late : BOOLEAN]

NothingUsed == [hour |-> 0, day |-> 0, week |-> 0, bytes |-> 0]

NoUpload == [at |-> "idle", account |-> Operator, body |-> NoBody,
             tier |-> NoTier, used |-> NothingUsed, late |-> FALSE]

AdmissionTypeOK ==
    /\ TypeOK
    /\ files \in [Accounts -> Seq(File)]
    /\ upload \in [Uploaders -> Upload]

AdmitInit ==
    /\ Init
    /\ files = [a \in Accounts |-> <<>>]
    /\ upload = [u \in Uploaders |-> NoUpload]

-----------------------------------------------------------------------------
(* Queries.                                                                *)

\* UsageSince, for a window and everything younger.
Within(a, window) == {f \in DOMAIN files[a] : files[a][f].age <= window}

BytesOf(a, chosen) ==
    FoldSet(LAMBDA f, sum : sum + files[a][f].size, 0, chosen)

LimitsAt(t) == IF t = NoTier THEN Unlimited ELSE LimitsOf[t]

-----------------------------------------------------------------------------
(* Letting an upload in: one read of the key, one of the account, three of *)
(* what it stored, and the decision.                                       *)

Leave(u) == upload' = [upload EXCEPT ![u] = NoUpload]

\* uploadRequest, as far as the account.  A key made on the host has none and
\* no limits.  A body may come without saying how long it is.
AskToUpload(u, k, on, body) ==
    /\ upload[u].at = "idle"
    /\ Usable(keys[k])
    /\ Can(keys[k].scopes, "write", on)
    /\ upload' = [upload EXCEPT ![u] =
        [NoUpload EXCEPT !.at = IF keys[k].account = Operator THEN "admitted" ELSE "asking",
            !.account = keys[k].account, !.body = body]]
    /\ UNCHANGED <<vars, files>>

ReadTier(u) ==
    /\ upload[u].at = "asking"
    /\ upload' = [upload EXCEPT ![u].at = "hourly", ![u].tier = tier[upload[u].account]]
    /\ UNCHANGED <<vars, files>>

CountHour(u) ==
    /\ upload[u].at = "hourly"
    /\ upload' = [upload EXCEPT ![u].at = "daily",
                     ![u].used.hour = Cardinality(Within(upload[u].account, Hour))]
    /\ UNCHANGED <<vars, files>>

\* A bug: the day's uploads are counted over the hour.
CountHourForDay(u) ==
    LET lately == Within(upload[u].account, Hour) IN
    /\ upload[u].at = "daily"
    /\ upload' = [upload EXCEPT ![u].at = "weekly",
                     ![u].used.day = Cardinality(lately),
                     ![u].used.bytes = BytesOf(upload[u].account, lately)]
    /\ UNCHANGED <<vars, files>>

CountDay(u) ==
    LET today == Within(upload[u].account, Day) IN
    /\ upload[u].at = "daily"
    /\ upload' = [upload EXCEPT ![u].at = "weekly",
                     ![u].used.day = Cardinality(today),
                     ![u].used.bytes = BytesOf(upload[u].account, today)]
    /\ UNCHANGED <<vars, files>>

CountWeek(u) ==
    /\ upload[u].at = "weekly"
    /\ upload' = [upload EXCEPT ![u].at = "judging",
                     ![u].used.week = Cardinality(Within(upload[u].account, Week))]
    /\ UNCHANGED <<vars, files>>

Verdict(up) ==
    Evaluate(LimitsAt(up.tier), [type |-> up.body.type, size |-> up.body.said], up.used)

Judge(u) ==
    /\ upload[u].at = "judging"
    /\ IF Verdict(upload[u]) = "allowed"
       THEN upload' = [upload EXCEPT ![u].at = "admitted", ![u].used = NothingUsed]
       ELSE Leave(u)
    /\ UNCHANGED <<vars, files>>

-----------------------------------------------------------------------------
(* Storing it, and what else happens.                                      *)

\* spool stops one byte past the limit the upload was let in with.
FitsLimit(up) == LimitsAt(up.tier).file = 0 \/ up.body.size <= LimitsAt(up.tier).file

Stored(a) == Len(files[a])

StoreUpload(u) ==
    LET up == upload[u] IN
    /\ up.at = "admitted"
    /\ FitsLimit(up)
    /\ IF up.account = Operator THEN UNCHANGED files
       ELSE /\ Stored(up.account) < MaxFiles
            /\ files' = [files EXCEPT ![up.account] =
                   Append(@, [age |-> Hour, size |-> up.body.size, tier |-> up.tier])]
    /\ Leave(u)
    /\ UNCHANGED vars

\* Too large after all, the same bytes are there, the client goes, a call fails.
GiveUp(u) ==
    /\ upload[u].at # "idle"
    /\ Leave(u)
    /\ UNCHANGED <<vars, files>>

\* A file leaves a window, after every file stored before it.
Grow(a, f) ==
    /\ files[a][f].age < Older
    /\ \A older \in 1..f - 1 : files[a][older].age > files[a][f].age
    /\ files' = [files EXCEPT ![a][f].age = @ + 1]
    /\ UNCHANGED <<vars, upload>>

\* History: the account of an upload is blocked after it was read.
MarkLate ==
    /\ upload' = [u \in Uploaders |->
         IF /\ upload[u].account \in {a \in Accounts : tier[a] # tier'[a]}
            /\ upload[u].at # "asking"
         THEN [upload[u] EXCEPT !.late = tier'[upload[u].account] = "blocked"]
         ELSE upload[u]]
    /\ UNCHANGED files

Uploading(u) ==
    \/ \E k \in Ids, on \in Namespaces, body \in Bodies :
        AskToUpload(u, k, on, body)
    \/ ReadTier(u) \/ CountHour(u) \/ CountDay(u) \/ CountWeek(u) \/ Judge(u)
    \/ StoreUpload(u) \/ GiveUp(u)

AdmitNext ==
    \/ Next /\ MarkLate
    \/ \E u \in Uploaders : Uploading(u)
    \/ \E a \in Accounts : \E f \in DOMAIN files[a] : Grow(a, f)

AdmitSpec == AdmitInit /\ [][AdmitNext]_allVars

-----------------------------------------------------------------------------
(* Properties.                                                             *)

Largest == Max({body.size : body \in Bodies})

\* A limit may be passed by what was let in at once and not yet stored.
Overshoots(most, n, each) == most > 0 => n <= most - 1 + each * Cardinality(Uploaders)

\* The limits of every window hold, whatever is stored at once: a window never
\* has more in it than the limit of the last file let in, and one for each
\* other upload that had been counted before that file was stored.
QuotaBounded ==
    \A a \in Accounts, window \in {Hour, Day, Week} :
        Within(a, window) # {} =>
            \E f \in Within(a, window) :
                LET limits == LimitsAt(files[a][f].tier)
                    n      == Cardinality(Within(a, window))
                IN  /\ window = Hour => Overshoots(limits.hour, n, 1)
                    /\ window = Day => Overshoots(limits.day, n, 1)
                    /\ window = Day => Overshoots(limits.bytes, BytesOf(a, Within(a, Day)), Largest)
                    /\ window = Week => Overshoots(limits.week, n, 1)

\* An upload that is to be stored for a blocked account had its account read
\* before that was blocked: until its keys are revoked they go on letting
\* requests in, and what keeps these from storing is the limit of the tier.
BlockedUploadsWereLetIn ==
    \A u \in Uploaders :
        LET up == upload[u] IN
        up.at = "admitted" /\ up.account # Operator =>
            (tier[up.account] = "blocked" => up.late)
=============================================================================
