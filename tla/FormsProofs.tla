---------------------------- MODULE FormsProofs ----------------------------
(***************************************************************************)
(* What is made of pictures and videos, of every size and every length: a  *)
(* picture is turned as its tag says, the copy that is published keeps the *)
(* picture and no notes, and the ladder of a source fits it.               *)
(*                                                                         *)
(* A copy and a ladder are flattened sequences of sequences.  What a       *)
(* flattening gives is proved first, one element at a time; the copy of a  *)
(* whole file follows from the specification, whose behaviours grow a file *)
(* by one segment or chunk in each step.                                   *)
(***************************************************************************)
EXTENDS MCForms, SequenceTheorems, FiniteSetTheorems, WellFoundedInduction, TLAPS

-----------------------------------------------------------------------------
(* Flattening.  It is a recursive function; each fact is by induction on a *)
(* length, in the form that needs no operator as parameter: if one length  *)
(* were wrong, a least one would be.                                       *)

\* Induction along 0..n: what holds of 0, and of the next whenever of one, holds of n.
LEMMA Upward ==
    ASSUME NEW n \in Nat, NEW good, 0 \in good,
           \A k \in 0..n - 1 : k \in good => k + 1 \in good
    PROVE  n \in good
<1> DEFINE wrong == {k \in Nat : k <= n /\ k \notin good}
<1>1. IsWellFoundedOn(OpToRel(<, Nat), Nat)
  BY NatLessThanWellFounded
<1>2. ASSUME wrong # {} PROVE FALSE
  <2>1. wrong \subseteq Nat
    OBVIOUS
  <2>2. PICK k \in wrong : \A l \in wrong : <<l, k>> \notin OpToRel(<, Nat)
    <3> HIDE DEF wrong
    <3> QED BY <1>1, <1>2, <2>1, WFMin
  <2>3. k - 1 \in wrong /\ k - 1 < k
    OBVIOUS
  <2> QED BY <2>2, <2>3 DEF OpToRel
<1> QED BY <1>2

\* The function that a flattening is defined by, for the first k sequences.
Joins(f, seqs, k) ==
    f = [i \in 1..k |-> IF i = 1 THEN seqs[i] ELSE f[i - 1] \o seqs[i]]

Joined(seqs) == CHOOSE f : Joins(f, seqs, Len(seqs))

\* What the first k sequences make.
Part(seqs, k) == IF k = 0 THEN <<>> ELSE Joined(seqs)[k]

\* There is a function that joins the sequences, so the one that is chosen is one.
LEMMA JoinsExist ==
    ASSUME NEW seqs, Len(seqs) \in Nat
    PROVE  Joins(Joined(seqs), seqs, Len(seqs))
<1> DEFINE good == {k \in Nat : \E f : Joins(f, seqs, k)}
<1>1. 0 \in good
  <2>1. 1..0 = {}
    OBVIOUS
  <2>2. Joins(<<>>, seqs, 0)
    BY <2>1 DEF Joins
  <2> QED BY <2>2
<1>2. ASSUME NEW k \in 0..Len(seqs) - 1, k \in good PROVE k + 1 \in good
  <2>1. PICK f : Joins(f, seqs, k)
    BY <1>2
  <2> DEFINE g == [i \in 1..k + 1 |-> IF i <= k THEN f[i] ELSE
                                        IF i = 1 THEN seqs[i] ELSE f[i - 1] \o seqs[i]]
  <2>2. ASSUME NEW i \in 1..k + 1
        PROVE  g[i] = IF i = 1 THEN seqs[i] ELSE g[i - 1] \o seqs[i]
    <3>1. i \in 1..k => f[i] = IF i = 1 THEN seqs[i] ELSE f[i - 1] \o seqs[i]
      BY <2>1, Zenon DEF Joins
    <3>2. i # 1 => i - 1 \in 1..k + 1 /\ i - 1 <= k
      OBVIOUS
    <3>3. i # 1 => g[i - 1] = f[i - 1]
      BY <3>2
    <3> QED BY <3>1, <3>3
  <2>3. Joins(g, seqs, k + 1)
    BY <2>2, Zenon DEF Joins
  <2> QED BY <2>3
<1>3. Len(seqs) \in good
  <2> HIDE DEF good
  <2> QED BY <1>1, <1>2, Upward
<1> QED BY <1>3 DEF Joined

\* It joins one more sequence at each place.
LEMMA JoinedAt ==
    ASSUME NEW seqs, Len(seqs) \in Nat, NEW i \in 1..Len(seqs)
    PROVE  Joined(seqs)[i] = IF i = 1 THEN seqs[i] ELSE Joined(seqs)[i - 1] \o seqs[i]
<1> DEFINE f == Joined(seqs)
<1>1. f = [j \in 1..Len(seqs) |-> IF j = 1 THEN seqs[j] ELSE f[j - 1] \o seqs[j]]
  BY JoinsExist DEF Joins
<1> HIDE DEF f
<1>2. f[i] = IF i = 1 THEN seqs[i] ELSE f[i - 1] \o seqs[i]
  BY <1>1
<1> QED BY <1>2 DEF f

\* A flattening is what the sequences make, taken one at a time.
LEMMA Parts ==
    ASSUME NEW T, NEW seqs \in Seq(Seq(T))
    PROVE  /\ Len(seqs) \in Nat
           /\ Part(seqs, 0) = <<>>
           /\ \A k \in 0..Len(seqs) - 1 : Part(seqs, k + 1) = Part(seqs, k) \o seqs[k + 1]
           /\ \A k \in 0..Len(seqs) : Part(seqs, k) \in Seq(T)
           /\ FlattenSeq(seqs) = Part(seqs, Len(seqs))
<1>1. Len(seqs) \in Nat
  OBVIOUS
<1>2. Part(seqs, 0) = <<>>
  BY DEF Part
<1>3. ASSUME NEW k \in 0..Len(seqs) - 1
      PROVE  Part(seqs, k + 1) = Part(seqs, k) \o seqs[k + 1]
  <2>1. k + 1 \in 1..Len(seqs) /\ seqs[k + 1] \in Seq(T) /\ k + 1 # 0 /\ k + 1 - 1 = k
    OBVIOUS
  <2>2. Joined(seqs)[k + 1] = IF k + 1 = 1 THEN seqs[k + 1] ELSE Joined(seqs)[k] \o seqs[k + 1]
    BY <1>1, <2>1, JoinedAt
  <2>3. <<>> \o seqs[k + 1] = seqs[k + 1]
    BY <2>1, ConcatEmptySeq
  <2>4. CASE k = 0
    <3>1. Part(seqs, k + 1) = Joined(seqs)[k + 1] /\ Part(seqs, k) = <<>>
      BY <2>1, <2>4 DEF Part
    <3> QED BY <2>2, <2>3, <2>4, <3>1
  <2>5. CASE k # 0
    <3>1. Part(seqs, k + 1) = Joined(seqs)[k + 1] /\ Part(seqs, k) = Joined(seqs)[k] /\ k + 1 # 1
      BY <2>1, <2>5 DEF Part
    <3> QED BY <2>2, <3>1
  <2> QED BY <2>4, <2>5
<1>4. ASSUME NEW m \in 0..Len(seqs) PROVE Part(seqs, m) \in Seq(T)
  <2> DEFINE good == {k \in Nat : Part(seqs, k) \in Seq(T)}
  <2>1. 0 \in good
    BY <1>2, EmptySeq
  <2>2. ASSUME NEW k \in 0..m - 1, k \in good PROVE k + 1 \in good
    <3>1. k \in 0..Len(seqs) - 1 /\ seqs[k + 1] \in Seq(T) /\ k + 1 \in Nat
      OBVIOUS
    <3>2. Part(seqs, k) \o seqs[k + 1] \in Seq(T)
      BY <2>2, <3>1, ConcatProperties
    <3> QED BY <1>3, <3>1, <3>2
  <2>3. m \in Nat
    OBVIOUS
  <2>4. m \in good
    <3> HIDE DEF good
    <3> QED BY <2>1, <2>2, <2>3, Upward
  <2> QED BY <2>4
<1>5. FlattenSeq(seqs) = Part(seqs, Len(seqs))
  <2>1. CASE Len(seqs) = 0
    <3>1. seqs = <<>>
      BY <2>1, EmptySeq
    <3> QED BY <2>1, <3>1 DEF FlattenSeq, Part
  <2>2. CASE Len(seqs) # 0
    BY <2>2 DEF FlattenSeq, Part, Joined, Joins
  <2> QED BY <2>1, <2>2
<1> QED BY <1>1, <1>2, <1>3, <1>4, <1>5

\* Nothing flattens to nothing.
LEMMA FlattenEmpty == FlattenSeq(<<>>) = <<>>
  BY DEF FlattenSeq

\* One sequence more is joined on at the end.
LEMMA FlattenAppend ==
    ASSUME NEW T, NEW seqs \in Seq(Seq(T)), NEW x \in Seq(T)
    PROVE  /\ FlattenSeq(seqs) \in Seq(T)
           /\ FlattenSeq(Append(seqs, x)) = FlattenSeq(seqs) \o x
<1> DEFINE more == Append(seqs, x)
           n == Len(seqs)
<1>1. /\ more \in Seq(Seq(T)) /\ Len(more) = n + 1 /\ n \in Nat
      /\ \A i \in 1..n : more[i] = seqs[i]
      /\ more[n + 1] = x
  OBVIOUS
<1> HIDE DEF more
<1> DEFINE good == {k \in Nat : Part(more, k) = Part(seqs, k)}
<1>2. 0 \in good
  BY DEF Part
<1>3. ASSUME NEW k \in 0..n - 1, k \in good PROVE k + 1 \in good
  <2>1. k + 1 \in Nat /\ k \in 0..Len(more) - 1 /\ more[k + 1] = seqs[k + 1]
    BY <1>1
  <2> QED BY <1>1, <1>3, <2>1, Parts
<1>4. n \in good
  <2> HIDE DEF good, n
  <2> QED BY <1>1, <1>2, <1>3, Upward
<1>5. Part(more, n + 1) = Part(more, n) \o more[n + 1]
  <2>1. n \in 0..Len(more) - 1
    BY <1>1
  <2> QED BY <1>1, <2>1, Parts
<1>6. FlattenSeq(seqs) = Part(seqs, n) /\ FlattenSeq(more) = Part(more, n + 1)
  <2>1. FlattenSeq(seqs) = Part(seqs, n)
    BY Parts
  <2>2. FlattenSeq(more) = Part(more, Len(more))
    BY <1>1, Parts
  <2> QED BY <1>1, <2>1, <2>2
<1>7. FlattenSeq(seqs) \in Seq(T)
  <2>1. n \in 0..n
    BY <1>1
  <2> QED BY <1>6, <2>1, Parts
<1> QED BY <1>1, <1>4, <1>5, <1>6, <1>7 DEF more

\* The same where the sequences are given by functions.
LongerBy(last, T, n, parts, more) ==
    /\ n \in Nat /\ parts \in [1..n -> Seq(T)] /\ more \in [1..n + 1 -> Seq(T)]
    /\ \A i \in 1..n : more[i] = parts[i]
    /\ more[n + 1] = last

LEMMA FlattenMore ==
    ASSUME NEW last, NEW T, NEW n, NEW parts, NEW more, LongerBy(last, T, n, parts, more)
    PROVE  FlattenSeq(parts) \in Seq(T) /\ FlattenSeq(more) = FlattenSeq(parts) \o last
<1>1. /\ parts \in Seq(Seq(T)) /\ Len(parts) = n /\ n \in Nat
      /\ more \in Seq(Seq(T)) /\ Len(more) = n + 1 /\ last \in Seq(T)
      /\ \A i \in 1..n : more[i] = parts[i]
      /\ more[n + 1] = last
  BY DEF LongerBy
<1> DEFINE longer == Append(parts, last)
<1>2. longer \in Seq(Seq(T)) /\ Len(longer) = n + 1 /\ \A i \in 1..n + 1 : longer[i] = more[i]
  BY <1>1
<1> HIDE DEF longer
<1>3. longer = more
  BY <1>1, <1>2, SeqEqual
<1> QED BY <1>1, <1>3, FlattenAppend DEF longer

-----------------------------------------------------------------------------
(* Which way up.                                                           *)

Pixels(w, h) == (0..w - 1) \X (0..h - 1)

\* The tag that undoes a tag: each undoes itself, but for the quarter turns.
Undoing(o) == IF o = 6 THEN 8 ELSE IF o = 8 THEN 6 ELSE o

\* Where each tag sends a pixel, tag by tag.
LEMMA Turns ==
    ASSUME NEW w \in Int, NEW h \in Int, NEW x \in Int, NEW y \in Int
    PROVE  /\ Turned(1, w, h, x, y) = <<x, y>>
           /\ Turned(2, w, h, x, y) = <<w - 1 - x, y>>
           /\ Turned(3, w, h, x, y) = <<w - 1 - x, h - 1 - y>>
           /\ Turned(4, w, h, x, y) = <<x, h - 1 - y>>
           /\ Turned(5, w, h, x, y) = <<y, x>>
           /\ Turned(6, w, h, x, y) = <<h - 1 - y, x>>
           /\ Turned(7, w, h, x, y) = <<h - 1 - y, w - 1 - x>>
           /\ Turned(8, w, h, x, y) = <<y, w - 1 - x>>
  BY SMT DEF Turned

\* The same for whichever tag it is, with the size of the picture as it is looked at.
LEMMA Ways ==
    ASSUME NEW o \in Orientations, NEW w \in Nat, NEW h \in Nat, NEW x \in Int, NEW y \in Int
    PROVE  \/ o = 1 /\ Size(o, w, h) = <<w, h>> /\ Turned(o, w, h, x, y) = <<x, y>>
           \/ o = 2 /\ Size(o, w, h) = <<w, h>> /\ Turned(o, w, h, x, y) = <<w - 1 - x, y>>
           \/ o = 3 /\ Size(o, w, h) = <<w, h>> /\ Turned(o, w, h, x, y) = <<w - 1 - x, h - 1 - y>>
           \/ o = 4 /\ Size(o, w, h) = <<w, h>> /\ Turned(o, w, h, x, y) = <<x, h - 1 - y>>
           \/ o = 5 /\ Size(o, w, h) = <<h, w>> /\ Turned(o, w, h, x, y) = <<y, x>>
           \/ o = 6 /\ Size(o, w, h) = <<h, w>> /\ Turned(o, w, h, x, y) = <<h - 1 - y, x>>
           \/ o = 7 /\ Size(o, w, h) = <<h, w>> /\ Turned(o, w, h, x, y) = <<h - 1 - y, w - 1 - x>>
           \/ o = 8 /\ Size(o, w, h) = <<h, w>> /\ Turned(o, w, h, x, y) = <<y, w - 1 - x>>
<1>1. o = 1 \/ o = 2 \/ o = 3 \/ o = 4 \/ o = 5 \/ o = 6 \/ o = 7 \/ o = 8
  BY DEF Orientations
<1>2. /\ \A p \in {1, 2, 3, 4} : Size(p, w, h) = <<w, h>>
      /\ \A p \in {5, 6, 7, 8} : Size(p, w, h) = <<h, w>>
  BY SMT DEF Size, SwapsAxes
<1>3. w \in Int /\ h \in Int
  OBVIOUS
<1>4. /\ Turned(1, w, h, x, y) = <<x, y>>
      /\ Turned(2, w, h, x, y) = <<w - 1 - x, y>>
      /\ Turned(3, w, h, x, y) = <<w - 1 - x, h - 1 - y>>
      /\ Turned(4, w, h, x, y) = <<x, h - 1 - y>>
      /\ Turned(5, w, h, x, y) = <<y, x>>
      /\ Turned(6, w, h, x, y) = <<h - 1 - y, x>>
      /\ Turned(7, w, h, x, y) = <<h - 1 - y, w - 1 - x>>
      /\ Turned(8, w, h, x, y) = <<y, w - 1 - x>>
  BY <1>3, Turns
<1> QED BY <1>1, <1>2, <1>4

\* A pixel stays inside the picture as it is looked at.
LEMMA TurnedInside ==
    ASSUME NEW o \in Orientations, NEW w \in Nat, NEW h \in Nat,
           NEW x \in 0..w - 1, NEW y \in 0..h - 1
    PROVE  Turned(o, w, h, x, y) \in Pixels(Size(o, w, h)[1], Size(o, w, h)[2])
<1>1. x \in Int /\ y \in Int
  OBVIOUS
<1> QED BY <1>1, Ways, SMT DEF Pixels

\* What is turned and turned back has its size again, and each pixel its place.
LEMMA TurnedBack ==
    ASSUME NEW o \in Orientations, NEW w \in Nat, NEW h \in Nat, NEW x \in Int, NEW y \in Int
    PROVE  LET size == Size(o, w, h)
               to   == Turned(o, w, h, x, y)
           IN  /\ size[1] \in Nat /\ size[2] \in Nat
               /\ Undoing(o) \in Orientations /\ Undoing(Undoing(o)) = o
               /\ Size(Undoing(o), size[1], size[2]) = <<w, h>>
               /\ Turned(Undoing(o), size[1], size[2], to[1], to[2]) = <<x, y>>
<1> DEFINE right == w - 1 - x
           down  == h - 1 - y
<1>1. /\ right \in Int /\ down \in Int /\ w \in Int /\ h \in Int
      /\ w - 1 - right = x /\ h - 1 - down = y
  OBVIOUS
<1>2. /\ Turned(1, w, h, x, y) = <<x, y>>
      /\ Turned(2, w, h, right, y) = <<x, y>>
      /\ Turned(3, w, h, right, down) = <<x, y>>
      /\ Turned(4, w, h, x, down) = <<x, y>>
      /\ Turned(5, h, w, y, x) = <<x, y>>
      /\ Turned(6, h, w, y, right) = <<x, y>>
      /\ Turned(7, h, w, down, right) = <<x, y>>
      /\ Turned(8, h, w, down, x) = <<x, y>>
  <2> HIDE DEF right, down
  <2> QED BY <1>1, Turns
<1>3. /\ Undoing(o) \in Orientations /\ Undoing(Undoing(o)) = o
      /\ Size(o, w, h)[1] \in Nat /\ Size(o, w, h)[2] \in Nat
      /\ Size(Undoing(o), Size(o, w, h)[1], Size(o, w, h)[2]) = <<w, h>>
  BY SMT DEF Orientations, Undoing, Size, SwapsAxes
<1>4. /\ Undoing(1) = 1 /\ Undoing(2) = 2 /\ Undoing(3) = 3 /\ Undoing(4) = 4
      /\ Undoing(5) = 5 /\ Undoing(6) = 8 /\ Undoing(7) = 7 /\ Undoing(8) = 6
  BY DEF Undoing
<1> QED BY <1>2, <1>3, <1>4, Ways

\* The sides where the first row and the first column of the file come to lie.
LEMMA Sides ==
    ASSUME NEW w \in Int, NEW h \in Int, NEW at \in Int \X Int
    PROVE  /\ Side("top", w, h, at) <=> at[2] = 0
           /\ Side("bottom", w, h, at) <=> at[2] = h - 1
           /\ Side("left", w, h, at) <=> at[1] = 0
           /\ Side("right", w, h, at) <=> at[1] = w - 1
  BY SMT DEF Side

\* The first row and the first column come to the sides that the tag is named for.
LEMMA FirstLines ==
    ASSUME NEW o \in Orientations, NEW w \in Nat, NEW h \in Nat, NEW t \in Int
    PROVE  LET size == Size(o, w, h) IN
           /\ Side(FirstRow[o], size[1], size[2], Turned(o, w, h, t, 0))
           /\ Side(FirstColumn[o], size[1], size[2], Turned(o, w, h, 0, t))
<1> DEFINE size == Size(o, w, h)
           row  == Turned(o, w, h, t, 0)
           column == Turned(o, w, h, 0, t)
<1>1. /\ FirstRow[1] = "top" /\ FirstRow[2] = "top" /\ FirstRow[3] = "bottom" /\ FirstRow[4] = "bottom"
      /\ FirstRow[5] = "left" /\ FirstRow[6] = "right" /\ FirstRow[7] = "right" /\ FirstRow[8] = "left"
  BY DEF FirstRow
<1>2. /\ FirstColumn[1] = "left" /\ FirstColumn[2] = "right" /\ FirstColumn[3] = "right" /\ FirstColumn[4] = "left"
      /\ FirstColumn[5] = "top" /\ FirstColumn[6] = "top" /\ FirstColumn[7] = "bottom" /\ FirstColumn[8] = "bottom"
  BY DEF FirstColumn
<1>3. /\ size[1] \in Int /\ size[2] \in Int /\ row \in Int \X Int
      /\ \/ FirstRow[o] = "top" /\ row[2] = 0
         \/ FirstRow[o] = "bottom" /\ row[2] = size[2] - 1
         \/ FirstRow[o] = "left" /\ row[1] = 0
         \/ FirstRow[o] = "right" /\ row[1] = size[1] - 1
  BY <1>1, Ways
<1>4. /\ column \in Int \X Int
      /\ \/ FirstColumn[o] = "top" /\ column[2] = 0
         \/ FirstColumn[o] = "bottom" /\ column[2] = size[2] - 1
         \/ FirstColumn[o] = "left" /\ column[1] = 0
         \/ FirstColumn[o] = "right" /\ column[1] = size[1] - 1
  BY <1>2, Ways
<1> HIDE DEF size, row, column
<1>5. Side(FirstRow[o], size[1], size[2], row) /\ Side(FirstColumn[o], size[1], size[2], column)
  BY <1>3, <1>4, Sides
<1> QED BY <1>5 DEF size, row, column

\* Every place of the picture as it is looked at is one a pixel comes to.
LEMMA Reached ==
    ASSUME NEW o \in Orientations, NEW w \in Nat, NEW h \in Nat,
           NEW x \in 0..Size(o, w, h)[1] - 1, NEW y \in 0..Size(o, w, h)[2] - 1
    PROVE  \E at \in Pixels(w, h) : Turned(o, w, h, at[1], at[2]) = <<x, y>>
<1> DEFINE a == Size(o, w, h)[1]
           b == Size(o, w, h)[2]
           back == Undoing(o)
           at == Turned(back, a, b, x, y)
<1>1. a \in Nat /\ b \in Nat /\ back \in Orientations /\ Undoing(back) = o /\ Size(back, a, b) = <<w, h>>
  <2>1. 0 \in Int
    OBVIOUS
  <2> QED BY <2>1, TurnedBack
<1>2. x \in 0..a - 1 /\ y \in 0..b - 1 /\ x \in Int /\ y \in Int
  OBVIOUS
<1> HIDE DEF a, b, back
<1>3. Size(back, a, b)[1] = w /\ Size(back, a, b)[2] = h
  BY <1>1
<1>4. at \in Pixels(Size(back, a, b)[1], Size(back, a, b)[2])
  BY <1>1, <1>2, TurnedInside
<1>5. Turned(Undoing(back), Size(back, a, b)[1], Size(back, a, b)[2], at[1], at[2]) = <<x, y>>
  BY <1>1, <1>2, TurnedBack
<1> HIDE DEF at
<1> QED BY <1>1, <1>3, <1>4, <1>5

\* A picture of any size is turned as its tag says.
LEMMA TurnedWell ==
    ASSUME NEW o \in Orientations, NEW w \in Nat \ {0}, NEW h \in Nat \ {0}
    PROVE  TurnedAsTagged(o, w, h)
<1> DEFINE size == Size(o, w, h)
           to   == [at \in Pixels(w, h) |-> Turned(o, w, h, at[1], at[2])]
           there == Pixels(size[1], size[2])
<1>1. ASSUME NEW at \in Pixels(w, h) PROVE to[at] \in there
  BY TurnedInside DEF Pixels
<1>2. ASSUME NEW p \in there PROVE \E at \in Pixels(w, h) : to[at] = p
  <2>1. PICK x \in 0..size[1] - 1, y \in 0..size[2] - 1 : p = <<x, y>>
    BY DEF Pixels
  <2>2. PICK at \in Pixels(w, h) : Turned(o, w, h, at[1], at[2]) = <<x, y>>
    BY Reached
  <2> QED BY <2>1, <2>2
<1>3. {to[at] : at \in DOMAIN to} = there
  BY <1>1, <1>2
<1>4. ASSUME NEW x \in 0..w - 1 PROVE Side(FirstRow[o], size[1], size[2], to[<<x, 0>>])
  <2>1. to[<<x, 0>>] = Turned(o, w, h, x, 0)
    BY DEF Pixels
  <2>2. x \in Int
    OBVIOUS
  <2> QED BY <2>1, <2>2, FirstLines
<1>5. ASSUME NEW y \in 0..h - 1 PROVE Side(FirstColumn[o], size[1], size[2], to[<<0, y>>])
  <2>1. to[<<0, y>>] = Turned(o, w, h, 0, y)
    BY DEF Pixels
  <2>2. y \in Int
    OBVIOUS
  <2> QED BY <2>1, <2>2, FirstLines
<1> QED BY <1>3, <1>4, <1>5 DEF TurnedAsTagged, Pixels

\* Pictures of every size are turned the way their tag says, onto the size that
\* the manifest gives, and leave no place of it empty.
THEOREM TurnedRight == Spec => []UprightAsTagged
<1> DEFINE Pictured == /\ picture.o \in Orientations
                       /\ picture.w \in Nat \ {0} /\ picture.h \in Nat \ {0}
<1>1. Init => Pictured
  BY DEF Init, Orientations
<1>2. Pictured /\ [Next]_vars => Pictured'
  BY FormsAssumption DEF Next, vars, AddSegment, AddChunk, ChangePicture, AskForLadder, Orientations
<1>3. Pictured => UprightAsTagged
  BY TurnedWell DEF UprightAsTagged
<1> QED BY <1>1, <1>2, <1>3, PTL DEF Spec

-----------------------------------------------------------------------------
(* The copy of a JPEG.                                                     *)

\* What a copy may hold before its scan; a stray byte only where the file has one.
Copyable == {"needed", "alone", "eoi", "stray"}
Clean == {Plain(kind) : kind \in Copyable} \cup {OrientationSegment(o) : o \in 2..8}

\* What there may be before a scan, and anywhere.
Anything == Segments \cup Clean
Segment == {s \in Anything : s.kind # "scan"}

CopyOf(f) == FlattenSeq([i \in DOMAIN f |-> Kept(f[i])])

\* The lesser of two is the least of both.
LEMMA Least == ASSUME NEW m \in Int, NEW n \in Int, m <= n PROVE Min({m, n}) = m
<1>1. \E k \in {m, n} : \A l \in {m, n} : k <= l
  OBVIOUS
<1>2. Min({m, n}) \in {m, n} /\ \A l \in {m, n} : Min({m, n}) <= l
  BY <1>1, Zenon DEF Min
<1> QED BY <1>2

\* Whatever a directory holds, what is read from it is one of the eight tags.
LEMMA TagIsOne == ASSUME NEW ifd PROVE TagInIFD0(ifd) \in Orientations
  BY DEF TagInIFD0, Orientations, Upright

\* The tag that is written is the one that is read.
LEMMA TagReadBack == ASSUME NEW o \in 2..8 PROVE TagInIFD0(<<o>>) = o
<1>1. {i \in DOMAIN <<o>> : <<o>>[i] # Other} \cup {Len(<<o>>) + 1} = {1, 2}
  BY DEF Other
<1>2. FirstOf(<<o>>, LAMBDA entry : entry # Other) = 1
  BY <1>1, Least DEF FirstOf
<1> QED BY <1>2 DEF TagInIFD0, Orientations

\* Every segment is of one kind, and what is copied as it stands may be in a copy.
LEMMA SegmentShape ==
    ASSUME NEW s \in Segment
    PROVE  /\ s.kind \in Kinds
           /\ s.kind \in Copyable => s \in Clean
  BY DEF Segment, Anything, Segments, Clean, Copyable, Plain, Exif, OrientationSegment, Kinds

\* What one segment leaves.
LEMMA KeptOne ==
    ASSUME NEW s \in Segment
    PROVE  \/ s.kind = "exif" /\ TagInIFD0(s.ifd) = Upright /\ Kept(s) = <<>>
           \/ /\ s.kind = "exif" /\ TagInIFD0(s.ifd) \in 2..8
              /\ Kept(s) = <<OrientationSegment(TagInIFD0(s.ifd))>>
           \/ s.kind \in {"note", "fill"} /\ Kept(s) = <<>>
           \/ s.kind \in Copyable /\ s \in Clean /\ Kept(s) = <<s>>
<1> DEFINE o == TagInIFD0(s.ifd)
<1>1. o \in Orientations
  BY TagIsOne
<1> HIDE DEF o
<1>2. CASE s.kind = "exif"
  <2>1. Kept(s) = IF o > Upright THEN <<OrientationSegment(o)>> ELSE <<>>
    BY <1>2 DEF Kept, o
  <2>2. o = Upright \/ (o > Upright /\ o \in 2..8)
    BY <1>1 DEF Orientations, Upright
  <2>3. ~(Upright > Upright)
    BY DEF Upright
  <2> QED BY <1>2, <2>1, <2>2, <2>3 DEF o
<1>3. CASE s.kind \in {"note", "fill"}
  BY <1>3 DEF Kept
<1>4. CASE s.kind \in Copyable
  <2>1. Kept(s) = <<s>>
    BY <1>4 DEF Kept, Copyable
  <2> QED BY <1>4, <2>1, SegmentShape
<1>5. s.kind # "scan"
  BY DEF Segment
<1> QED BY <1>2, <1>3, <1>4, <1>5, SegmentShape DEF Kinds, Copyable

\* What a copy may hold has no notes, and is kept as it is.
LEMMA CleanOne ==
    ASSUME NEW c \in Clean
    PROVE  /\ c \in Segment /\ Kept(c) = <<c>> /\ ~HoldsNotes(c)
           /\ c.kind \in {"exif"} \cup Copyable
<1>1. CASE c \in {Plain(kind) : kind \in Copyable}
  <2>1. c.kind \in Copyable /\ c.more = FALSE
    BY <1>1 DEF Plain
  <2>2. Kept(c) = <<c>>
    BY <2>1 DEF Kept, Copyable
  <2> QED BY <2>1, <2>2 DEF Segment, Anything, HoldsNotes, Copyable
<1>2. ASSUME NEW o \in 2..8, c = OrientationSegment(o)
      PROVE  c.kind = "exif" /\ c.more = FALSE /\ Kept(c) = <<c>>
  <2>1. c.kind = "exif" /\ c.more = FALSE /\ c.ifd = <<o>>
    BY <1>2 DEF OrientationSegment, Exif
  <2>2. TagInIFD0(c.ifd) = o /\ o # Upright
    BY <2>1, TagReadBack DEF Upright
  <2>3. c \in Segment
    BY <2>1 DEF Segment, Anything
  <2>4. Kept(c) = <<OrientationSegment(o)>>
    BY <2>1, <2>2, <2>3, KeptOne DEF Copyable
  <2> QED BY <1>2, <2>1, <2>4
<1>3. c \in Segment
  BY <1>1, <1>2 DEF Clean, Segment, Anything, Plain, Copyable
<1> QED BY <1>1, <1>2, <1>3 DEF Clean, HoldsNotes

\* What is kept of a segment is what a copy may hold.
LEMMA KeptIsClean ==
    ASSUME NEW s \in Segment
    PROVE  Kept(s) = <<>> \/ \E c \in Clean : Kept(s) = <<c>>
  BY KeptOne DEF Clean

\* A segment more adds to the copy what is kept of it.
LEMMA CopyGrows ==
    ASSUME NEW f \in Seq(Segment), NEW s \in Segment
    PROVE  CopyOf(f) \in Seq(Clean) /\ CopyOf(Append(f, s)) = CopyOf(f) \o Kept(s)
<1>1. ASSUME NEW t \in Segment PROVE Kept(t) \in Seq(Clean)
  <2>1. CASE Kept(t) = <<>>
    BY <2>1
  <2>2. ASSUME NEW c \in Clean, Kept(t) = <<c>> PROVE Kept(t) \in Seq(Clean)
    BY <2>2
  <2> QED BY <2>1, <2>2, KeptIsClean
<1>2. /\ Append(f, s) \in Seq(Segment) /\ Len(Append(f, s)) = Len(f) + 1 /\ Len(f) \in Nat
      /\ \A i \in 1..Len(f) : Append(f, s)[i] = f[i]
      /\ Append(f, s)[Len(f) + 1] = s
  OBVIOUS
<1> DEFINE parts == [i \in DOMAIN f |-> Kept(f[i])]
           more == [i \in DOMAIN Append(f, s) |-> Kept(Append(f, s)[i])]
<1>3. parts \in [1..Len(f) -> Seq(Clean)] /\ more \in [1..Len(f) + 1 -> Seq(Clean)]
  BY <1>1, <1>2
<1>4. (\A i \in 1..Len(f) : more[i] = parts[i]) /\ more[Len(f) + 1] = Kept(s)
  BY <1>2
<1> HIDE DEF parts, more
<1>5. LongerBy(Kept(s), Clean, Len(f), parts, more)
  <2>1. Len(f) \in Nat
    BY <1>2
  <2> QED BY <1>3, <1>4, <2>1, Zenon DEF LongerBy
<1>6. FlattenSeq(parts) \in Seq(Clean) /\ FlattenSeq(more) = FlattenSeq(parts) \o Kept(s)
  BY <1>5, FlattenMore
<1> QED BY <1>6 DEF CopyOf, parts, more

\* And to the picture, if it is part of the picture.
LEMMA PictureGrows ==
    ASSUME NEW f \in Seq(Segment), NEW s \in Segment
    PROVE  PictureOf(Append(f, s)) = IF IsPicture(s) THEN Append(PictureOf(f), s) ELSE PictureOf(f)
<1> DEFINE One(t) == IF IsPicture(t) THEN <<t>> ELSE <<>>
<1>1. ASSUME NEW t \in Segment PROVE One(t) \in Seq(Segment)
  OBVIOUS
<1> HIDE DEF One
<1>2. /\ Append(f, s) \in Seq(Segment) /\ Len(Append(f, s)) = Len(f) + 1 /\ Len(f) \in Nat
      /\ \A i \in 1..Len(f) : Append(f, s)[i] = f[i]
      /\ Append(f, s)[Len(f) + 1] = s
  OBVIOUS
<1> DEFINE parts == [i \in DOMAIN f |-> One(f[i])]
           more == [i \in DOMAIN Append(f, s) |-> One(Append(f, s)[i])]
<1>3. parts \in [1..Len(f) -> Seq(Segment)] /\ more \in [1..Len(f) + 1 -> Seq(Segment)]
  BY <1>1, <1>2
<1>4. (\A i \in 1..Len(f) : more[i] = parts[i]) /\ more[Len(f) + 1] = One(s)
  BY <1>2
<1> HIDE DEF parts, more
<1>5. LongerBy(One(s), Segment, Len(f), parts, more)
  <2>1. Len(f) \in Nat
    BY <1>2
  <2> QED BY <1>3, <1>4, <2>1, Zenon DEF LongerBy
<1>6. FlattenSeq(parts) \in Seq(Segment) /\ FlattenSeq(more) = FlattenSeq(parts) \o One(s)
  BY <1>5, FlattenMore
<1>7. PictureOf(f) = FlattenSeq(parts) /\ PictureOf(Append(f, s)) = FlattenSeq(more)
  BY DEF PictureOf, parts, more, One
<1>8. CASE IsPicture(s)
  BY <1>6, <1>7, <1>8, AppendIsConcat DEF One
<1>9. CASE ~IsPicture(s)
  BY <1>6, <1>7, <1>9, ConcatEmptySeq DEF One
<1> QED BY <1>8, <1>9

\* Its place joins those of the EXIF segments, if it is one.
LEMMA ExifsGrow ==
    ASSUME NEW f \in Seq(Segment), NEW s \in Segment
    PROVE  /\ Exifs(Append(f, s)) = IF s.kind = "exif" THEN Exifs(f) \cup {Len(f) + 1} ELSE Exifs(f)
           /\ Exifs(f) \subseteq 1..Len(f)
           /\ \A i \in 1..Len(f) : Append(f, s)[i] = f[i]
           /\ Append(f, s)[Len(f) + 1] = s
<1>1. /\ DOMAIN Append(f, s) = 1..Len(f) + 1 /\ DOMAIN f = 1..Len(f) /\ Len(f) \in Nat
      /\ \A i \in 1..Len(f) : Append(f, s)[i] = f[i]
      /\ Append(f, s)[Len(f) + 1] = s
  OBVIOUS
<1> QED BY <1>1 DEF Exifs

\* It may be walked if all before it may, and it is no stray byte.
LEMMA WalkGrows ==
    ASSUME NEW f \in Seq(Segment), NEW s \in Segment
    PROVE  Walkable(Append(f, s)) <=> Walkable(f) /\ s.kind # "stray"
<1>1. /\ DOMAIN Append(f, s) = 1..Len(f) + 1 /\ DOMAIN f = 1..Len(f) /\ Len(f) \in Nat
      /\ \A i \in 1..Len(f) : Append(f, s)[i] = f[i]
      /\ Append(f, s)[Len(f) + 1] = s
  OBVIOUS
<1> QED BY <1>1 DEF Walkable

\* Where the walk for the way up ends.
Stopping == {"exif", "stray", "scan", "eoi"}
Stopless(f) == \A i \in DOMAIN f : f[i].kind \notin Stopping

\* The least of a set, once it is known.
LEMMA LeastIs ==
    ASSUME NEW S, NEW m \in S, S \subseteq Int, \A k \in S : m <= k
    PROVE  Min(S) = m
<1>1. Min(S) \in S /\ \A k \in S : Min(S) <= k
  <2>1. \E l \in S : \A k \in S : l <= k
    OBVIOUS
  <2> QED BY <2>1, Zenon DEF Min
<1>2. Min(S) <= m /\ m <= Min(S) /\ m \in Int /\ Min(S) \in Int
  BY <1>1
<1> QED BY <1>2

\* The place where that walk ends is the first of those, or past the file.
StopAt(f) == Min({i \in DOMAIN f : f[i].kind \in Stopping} \cup {Len(f) + 1})

LEMMA StopIs ==
    ASSUME NEW f \in Seq(Anything), NEW m \in 1..Len(f) + 1,
           m \in 1..Len(f) => f[m].kind \in Stopping,
           \A i \in 1..Len(f) : i < m => f[i].kind \notin Stopping
    PROVE  /\ StopAt(f) = m
           /\ Orientation(f) = IF m \in 1..Len(f) /\ f[m].kind = "exif" THEN TagInIFD0(f[m].ifd)
                               ELSE Upright
<1> DEFINE stops == {i \in DOMAIN f : f[i].kind \in Stopping} \cup {Len(f) + 1}
<1>1. DOMAIN f = 1..Len(f) /\ Len(f) \in Nat
  OBVIOUS
<1>2. m \in stops /\ stops \subseteq Int /\ \A k \in stops : m <= k
  BY <1>1
<1>3. Min(stops) = m
  <2> HIDE DEF stops
  <2> QED BY <1>2, LeastIs
<1>4. FirstOf(f, LAMBDA segment : segment.kind \in {"exif", "stray", "scan", "eoi"}) = Min(stops)
  BY DEF FirstOf, Stopping
<1> HIDE DEF stops
<1>5. Orientation(f) = IF m \in DOMAIN f /\ f[m].kind = "exif" THEN TagInIFD0(f[m].ifd) ELSE Upright
  BY <1>3, <1>4 DEF Orientation
<1> QED BY <1>1, <1>3, <1>5 DEF StopAt, stops

\* There is such a place in every file.
LEMMA StopExists ==
    ASSUME NEW f \in Seq(Anything)
    PROVE  /\ StopAt(f) \in 1..Len(f) + 1
           /\ StopAt(f) \in 1..Len(f) => f[StopAt(f)].kind \in Stopping
           /\ \A i \in 1..Len(f) : i < StopAt(f) => f[i].kind \notin Stopping
<1> DEFINE stops == {i \in DOMAIN f : f[i].kind \in Stopping} \cup {Len(f) + 1}
<1>1. DOMAIN f = 1..Len(f) /\ Len(f) \in Nat /\ Len(f) + 1 \in stops /\ stops \subseteq Nat
  OBVIOUS
<1>2. \E l \in stops : \A k \in stops : l <= k
  <2>1. IsWellFoundedOn(OpToRel(<, Nat), Nat)
    BY NatLessThanWellFounded
  <2>2. PICK l \in stops : \A k \in stops : <<k, l>> \notin OpToRel(<, Nat)
    <3> HIDE DEF stops
    <3> QED BY <1>1, <2>1, WFMin
  <2>3. \A k \in stops : ~(k < l)
    <3> HIDE DEF stops
    <3> QED BY <1>1, <2>2 DEF OpToRel
  <2>4. l \in Nat /\ \A k \in stops : l <= k
    <3> HIDE DEF stops
    <3> QED BY <1>1, <2>3
  <2> QED BY <2>4
<1>3. StopAt(f) \in stops /\ \A k \in stops : StopAt(f) <= k
  BY <1>2, Zenon DEF StopAt, Min
<1>4. StopAt(f) \in Nat
  BY <1>1, <1>3
<1> QED BY <1>1, <1>3, <1>4

\* A file more by a segment is the way up it was, unless that segment is the
\* first to tell.
LEMMA WayUpGrows ==
    ASSUME NEW f \in Seq(Anything), NEW s \in Anything
    PROVE  /\ Orientation(Append(f, s)) =
                 IF s.kind = "exif" /\ Stopless(f) THEN TagInIFD0(s.ifd) ELSE Orientation(f)
           /\ Stopless(Append(f, s)) <=> Stopless(f) /\ s.kind \notin Stopping
           /\ Stopless(f) => Orientation(f) = Upright
<1> DEFINE g == Append(f, s)
           m == StopAt(f)
<1>1. /\ g \in Seq(Anything) /\ Len(g) = Len(f) + 1 /\ Len(f) \in Nat
      /\ DOMAIN g = 1..Len(f) + 1 /\ DOMAIN f = 1..Len(f)
      /\ \A i \in 1..Len(f) : g[i] = f[i]
      /\ g[Len(f) + 1] = s
  OBVIOUS
<1>2. /\ m \in 1..Len(f) + 1
      /\ m \in 1..Len(f) => f[m].kind \in Stopping
      /\ \A i \in 1..Len(f) : i < m => f[i].kind \notin Stopping
  BY StopExists
<1> HIDE DEF g, m
<1>3. Stopless(g) <=> Stopless(f) /\ s.kind \notin Stopping
  BY <1>1 DEF Stopless
<1>4. Orientation(f) = IF m \in 1..Len(f) /\ f[m].kind = "exif" THEN TagInIFD0(f[m].ifd) ELSE Upright
  BY <1>2, StopIs
<1>5. Stopless(f) <=> m = Len(f) + 1
  BY <1>1, <1>2 DEF Stopless
<1>6. CASE m \in 1..Len(f)
  <2>1. /\ m \in 1..Len(g) + 1 /\ g[m].kind \in Stopping
        /\ \A i \in 1..Len(g) : i < m => g[i].kind \notin Stopping
    BY <1>1, <1>2, <1>6
  <2>2. Orientation(g) = IF m \in 1..Len(g) /\ g[m].kind = "exif" THEN TagInIFD0(g[m].ifd) ELSE Upright
    BY <1>1, <2>1, StopIs
  <2>3. m \in 1..Len(g) /\ g[m] = f[m] /\ m # Len(f) + 1
    BY <1>1, <1>6
  <2> QED BY <1>3, <1>4, <1>5, <1>6, <2>2, <2>3 DEF g
<1>7. CASE m = Len(f) + 1 /\ s.kind \in Stopping
  <2>1. /\ m \in 1..Len(g) + 1 /\ g[m].kind \in Stopping /\ g[m] = s /\ m \in 1..Len(g)
        /\ \A i \in 1..Len(g) : i < m => g[i].kind \notin Stopping
        /\ m \notin 1..Len(f)
    BY <1>1, <1>2, <1>7
  <2>2. Orientation(g) = IF m \in 1..Len(g) /\ g[m].kind = "exif" THEN TagInIFD0(g[m].ifd) ELSE Upright
    BY <1>1, <2>1, StopIs
  <2> QED BY <1>3, <1>4, <1>5, <1>7, <2>1, <2>2 DEF g
<1>8. CASE m = Len(f) + 1 /\ s.kind \notin Stopping
  <2> DEFINE n == Len(f) + 2
  <2>1. /\ n \in 1..Len(g) + 1 /\ n \notin 1..Len(g) /\ m \notin 1..Len(f)
        /\ \A i \in 1..Len(g) : i < n => g[i].kind \notin Stopping
    BY <1>1, <1>2, <1>8
  <2>2. Orientation(g) = IF n \in 1..Len(g) /\ g[n].kind = "exif" THEN TagInIFD0(g[n].ifd) ELSE Upright
    <3> HIDE DEF n
    <3> QED BY <1>1, <2>1, StopIs
  <2>3. s.kind # "exif"
    BY <1>8 DEF Stopping
  <2> QED BY <1>3, <1>4, <1>5, <1>8, <2>1, <2>2, <2>3 DEF g
<1> QED BY <1>2, <1>6, <1>7, <1>8

\* Of a copy: where the file has one EXIF segment at most it is the same way up, no
\* EXIF segment comes in, and it ends where the file does.
SameWay(f, c) ==
    /\ Exifs(f) = {} => Exifs(c) = {}
    /\ (\E i \in DOMAIN f : f[i].kind = "eoi") => \E i \in DOMAIN c : c[i].kind = "eoi"
    /\ (\A i \in DOMAIN f : f[i].kind # "eoi") => \A i \in DOMAIN c : c[i].kind # "eoi"
    /\ (\A i, j \in Exifs(f) : i = j) => Orientation(c) = Orientation(f)

\* What there is to say of a file up to its scan and of its copy, segment by segment.
Copied(f) ==
    /\ f \in Seq(Segment)
    /\ CopyOf(f) \in Seq(Clean)
    /\ CopyOf(CopyOf(f)) = CopyOf(f)
    /\ PictureOf(CopyOf(f)) = PictureOf(f)
    /\ Walkable(f) => Walkable(CopyOf(f)) /\ SameWay(f, CopyOf(f))

\* The copy of an empty file is in order.
LEMMA NothingCopied == Copied(<<>>)
<1>1. DOMAIN <<>> = {} /\ <<>> \in Seq(Segment) /\ <<>> \in Seq(Clean)
  OBVIOUS
<1>2. CopyOf(<<>>) = <<>>
  BY <1>1, FlattenEmpty DEF CopyOf
<1>3. Exifs(<<>>) = {} /\ Walkable(<<>>)
  BY <1>1 DEF Exifs, Walkable
<1> QED BY <1>1, <1>2, <1>3 DEF Copied, SameWay

\* Without an EXIF segment and the end of the picture nothing stops a walk.
LEMMA NoStop ==
    ASSUME NEW f \in Seq(Segment), Walkable(f)
    PROVE  Stopless(f) <=> Exifs(f) = {} /\ \A i \in DOMAIN f : f[i].kind # "eoi"
<1>1. \A i \in DOMAIN f : f[i] \in Segment /\ f[i].kind # "scan" /\ f[i].kind # "stray"
  BY DEF Walkable, Segment
<1> QED BY <1>1 DEF Stopless, Stopping, Exifs

\* A copy stays the same way up when the file and it grow by what is kept: nothing
\* of an EXIF segment that says upright, or of one that is no part of the picture;
LEMMA WayKept ==
    ASSUME NEW f \in Seq(Segment), NEW c \in Seq(Segment), NEW s \in Segment,
           Walkable(f), Walkable(c), SameWay(f, c),
           s.kind \in {"note", "fill"} \/ (s.kind = "exif" /\ TagInIFD0(s.ifd) = Upright)
    PROVE  SameWay(Append(f, s), c)
<1> DEFINE g == Append(f, s)
<1>1. f \in Seq(Anything) /\ s \in Anything
  BY SeqMonotonic DEF Segment
<1>2. /\ Orientation(g) = IF s.kind = "exif" /\ Stopless(f) THEN TagInIFD0(s.ifd) ELSE Orientation(f)
      /\ Stopless(f) => Orientation(f) = Upright
  BY <1>1, WayUpGrows
<1>3. Orientation(g) = Orientation(f)
  BY <1>2
<1>4. /\ Exifs(g) = IF s.kind = "exif" THEN Exifs(f) \cup {Len(f) + 1} ELSE Exifs(f)
      /\ DOMAIN g = 1..Len(f) + 1 /\ DOMAIN f = 1..Len(f) /\ Len(f) \in Nat
      /\ \A i \in 1..Len(f) : g[i] = f[i]
      /\ g[Len(f) + 1] = s
  BY ExifsGrow
<1>5. s.kind # "eoi"
  OBVIOUS
<1> HIDE DEF g
<1>6. /\ (\E i \in DOMAIN g : g[i].kind = "eoi") => \E i \in DOMAIN f : f[i].kind = "eoi"
      /\ (\A i \in DOMAIN g : g[i].kind # "eoi") => \A i \in DOMAIN f : f[i].kind # "eoi"
  BY <1>4, <1>5
<1>7. Exifs(g) = {} => Exifs(f) = {}
  BY <1>4
<1>8. (\A i, j \in Exifs(g) : i = j) => \A i, j \in Exifs(f) : i = j
  BY <1>4
<1> QED BY <1>3, <1>6, <1>7, <1>8 DEF SameWay, g

\* or a segment of the same kind, which is the same where it says the way up.
LEMMA WayAppended ==
    ASSUME NEW f \in Seq(Segment), NEW c \in Seq(Segment), NEW s \in Segment, NEW k \in Segment,
           Walkable(f), Walkable(c), SameWay(f, c), s.kind = k.kind,
           s.kind = "exif" => TagInIFD0(k.ifd) = TagInIFD0(s.ifd)
    PROVE  SameWay(Append(f, s), Append(c, k))
<1> DEFINE g == Append(f, s)
           d == Append(c, k)
<1>1. f \in Seq(Anything) /\ s \in Anything /\ c \in Seq(Anything) /\ k \in Anything
  BY SeqMonotonic DEF Segment
<1>2. /\ Orientation(g) = IF s.kind = "exif" /\ Stopless(f) THEN TagInIFD0(s.ifd) ELSE Orientation(f)
      /\ Orientation(d) = IF k.kind = "exif" /\ Stopless(c) THEN TagInIFD0(k.ifd) ELSE Orientation(c)
  BY <1>1, WayUpGrows
<1>3. /\ Exifs(g) = IF s.kind = "exif" THEN Exifs(f) \cup {Len(f) + 1} ELSE Exifs(f)
      /\ Exifs(f) \subseteq 1..Len(f)
      /\ DOMAIN g = 1..Len(f) + 1 /\ DOMAIN f = 1..Len(f) /\ Len(f) \in Nat
      /\ \A i \in 1..Len(f) : g[i] = f[i]
      /\ g[Len(f) + 1] = s
  BY ExifsGrow
<1>4. /\ Exifs(d) = IF k.kind = "exif" THEN Exifs(c) \cup {Len(c) + 1} ELSE Exifs(c)
      /\ DOMAIN d = 1..Len(c) + 1 /\ DOMAIN c = 1..Len(c) /\ Len(c) \in Nat
      /\ \A i \in 1..Len(c) : d[i] = c[i]
      /\ d[Len(c) + 1] = k
  BY ExifsGrow
<1> HIDE DEF g, d
<1>5. /\ (\E i \in DOMAIN g : g[i].kind = "eoi") => \E i \in DOMAIN d : d[i].kind = "eoi"
      /\ (\A i \in DOMAIN g : g[i].kind # "eoi") => \A i \in DOMAIN d : d[i].kind # "eoi"
  <2>1. /\ (\E i \in DOMAIN f : f[i].kind = "eoi") => \E i \in DOMAIN c : c[i].kind = "eoi"
        /\ (\A i \in DOMAIN f : f[i].kind # "eoi") => \A i \in DOMAIN c : c[i].kind # "eoi"
    BY DEF SameWay
  <2>2. /\ (\E i \in DOMAIN g : g[i].kind = "eoi") <=> s.kind = "eoi" \/ \E i \in DOMAIN f : f[i].kind = "eoi"
        /\ (\E i \in DOMAIN d : d[i].kind = "eoi") <=> s.kind = "eoi" \/ \E i \in DOMAIN c : c[i].kind = "eoi"
    BY <1>3, <1>4
  <2> QED BY <2>1, <2>2
<1>6. Exifs(g) = {} => Exifs(d) = {}
  BY <1>3, <1>4 DEF SameWay
<1>7. ASSUME \A i, j \in Exifs(g) : i = j PROVE Orientation(d) = Orientation(g)
  <2>1. \A i, j \in Exifs(f) : i = j
    BY <1>3, <1>7
  <2>2. Orientation(c) = Orientation(f)
    BY <2>1 DEF SameWay
  <2>3. CASE s.kind = "exif"
    <3>1. \A i \in Exifs(f) : i \in Exifs(g) /\ Len(f) + 1 \in Exifs(g) /\ i # Len(f) + 1
      BY <1>3, <2>3
    <3>2. Exifs(f) = {}
      BY <1>7, <3>1
    <3>3. Stopless(f) <=> Stopless(c)
      BY <3>2, NoStop DEF SameWay
    <3> QED BY <1>2, <2>2, <2>3, <3>3
  <2> QED BY <1>2, <2>2, <2>3
<1> QED BY <1>5, <1>6, <1>7 DEF SameWay, g, d

\* The copy of a file that is in order stays so when the file grows.
LEMMA CopiedGrows ==
    ASSUME NEW f, NEW s \in Segment, Copied(f)
    PROVE  Copied(Append(f, s))
<1> DEFINE c == CopyOf(f)
           g == Append(f, s)
<1>0. Clean \subseteq Segment
  BY CleanOne
<1>1. /\ f \in Seq(Segment) /\ g \in Seq(Segment)
      /\ c \in Seq(Clean) /\ c \in Seq(Segment)
      /\ CopyOf(c) = c /\ PictureOf(c) = PictureOf(f)
      /\ Walkable(f) => Walkable(c) /\ SameWay(f, c)
  BY <1>0, SeqMonotonic DEF Copied
<1>2. CopyOf(g) = c \o Kept(s) /\ CopyOf(g) \in Seq(Clean)
  <2>1. CopyOf(g) = c \o Kept(s)
    BY <1>1, CopyGrows
  <2>2. CopyOf(Append(g, s)) = CopyOf(g) \o Kept(s) /\ CopyOf(g) \in Seq(Clean)
    BY <1>1, CopyGrows
  <2> QED BY <2>1, <2>2
<1>3. ASSUME Kept(s) = <<>>,
             s.kind \in {"note", "fill"} \/ (s.kind = "exif" /\ TagInIFD0(s.ifd) = Upright)
      PROVE  Copied(g)
  <2>1. CopyOf(g) = c
    BY <1>1, <1>2, <1>3, ConcatEmptySeq
  <2>2. PictureOf(g) = PictureOf(f)
    BY <1>1, <1>3, PictureGrows DEF IsPicture
  <2>3. Walkable(g) => Walkable(c) /\ SameWay(g, c)
    BY <1>1, <1>3, WalkGrows, WayKept
  <2> QED BY <1>1, <2>1, <2>2, <2>3 DEF Copied
<1>5. ASSUME NEW k \in Clean, Kept(s) = <<k>>, IsPicture(s) => k = s, k.kind = s.kind,
             s.kind = "exif" => TagInIFD0(k.ifd) = TagInIFD0(s.ifd)
      PROVE  Copied(g)
  <2>1. CopyOf(g) = Append(c, k) /\ k \in Segment
    BY <1>0, <1>1, <1>2, <1>5, AppendIsConcat
  <2>2. CopyOf(CopyOf(g)) = CopyOf(g)
    <3>1. CopyOf(Append(c, k)) = c \o <<k>>
      BY <1>1, <2>1, CopyGrows, CleanOne
    <3> QED BY <1>2, <1>5, <2>1, <3>1
  <2>3. PictureOf(CopyOf(g)) = PictureOf(g)
    BY <1>1, <1>5, <2>1, PictureGrows DEF IsPicture
  <2>4. Walkable(g) => Walkable(CopyOf(g)) /\ SameWay(g, CopyOf(g))
    <3>1. Walkable(g) <=> Walkable(f) /\ s.kind # "stray"
      BY <1>1, WalkGrows
    <3>2. Walkable(Append(c, k)) <=> Walkable(c) /\ k.kind # "stray"
      BY <1>1, <2>1, WalkGrows
    <3>3. Walkable(g) => SameWay(g, Append(c, k))
      BY <1>1, <1>5, <2>1, <3>1, WayAppended
    <3> QED BY <1>1, <1>5, <2>1, <3>1, <3>2, <3>3
  <2> QED BY <1>1, <1>2, <2>2, <2>3, <2>4 DEF Copied
<1>6. CASE s.kind = "exif" /\ TagInIFD0(s.ifd) \in 2..8 /\ Kept(s) = <<OrientationSegment(TagInIFD0(s.ifd))>>
  <2> DEFINE o == TagInIFD0(s.ifd)
             k == OrientationSegment(o)
  <2>1. k \in Clean /\ k.kind = "exif" /\ k.ifd = <<o>>
    BY <1>6 DEF Clean, OrientationSegment, Exif
  <2>2. TagInIFD0(k.ifd) = o
    BY <1>6, <2>1, TagReadBack
  <2>3. ~IsPicture(s)
    BY <1>6, <2>1 DEF IsPicture
  <2> HIDE DEF k
  <2> QED BY <1>5, <1>6, <2>1, <2>2, <2>3 DEF k
<1>7. CASE s.kind \in Copyable /\ s \in Clean /\ Kept(s) = <<s>>
  BY <1>5, <1>7
<1>8. CASE /\ Kept(s) = <<>>
           /\ s.kind \in {"note", "fill"} \/ (s.kind = "exif" /\ TagInIFD0(s.ifd) = Upright)
  BY <1>3, <1>8
<1> HIDE DEF g
<1>9. \/ s.kind = "exif" /\ TagInIFD0(s.ifd) = Upright /\ Kept(s) = <<>>
      \/ /\ s.kind = "exif" /\ TagInIFD0(s.ifd) \in 2..8
         /\ Kept(s) = <<OrientationSegment(TagInIFD0(s.ifd))>>
      \/ s.kind \in {"note", "fill"} /\ Kept(s) = <<>>
      \/ s.kind \in Copyable /\ s \in Clean /\ Kept(s) = <<s>>
  BY KeptOne
<1> QED BY <1>6, <1>7, <1>8, <1>9, Zenon DEF g

\* A file comes apart at its first scan, and only there.
Apart(f, front, rest) ==
    /\ f = front \o rest
    /\ front \in Seq(Segment) /\ rest \in Seq(Anything)
    /\ rest # <<>> => rest[1].kind = "scan"

LEMMA ApartOnce ==
    ASSUME NEW f, NEW front, NEW rest, Apart(f, front, rest)
    PROVE  /\ BeforeScan(f) = front /\ FromScan(f) = rest
           /\ Orientation(f) = Orientation(front)
<1> DEFINE n == Len(front)
           r == Len(rest)
<1>1. /\ front \in Seq(Anything) /\ rest \in Seq(Anything) /\ f \in Seq(Anything)
      /\ Len(f) = n + r /\ n \in Nat /\ r \in Nat
      /\ \A i \in 1..n : f[i] = front[i]
      /\ \A i \in 1..r : f[n + i] = rest[i]
      /\ DOMAIN f = 1..n + r /\ DOMAIN front = 1..n /\ DOMAIN rest = 1..r
  <2>1. front \in Seq(Anything) /\ rest \in Seq(Anything) /\ f = front \o rest
    BY SeqMonotonic DEF Apart, Segment
  <2>2. f \in Seq(Anything) /\ Len(f) = n + r
    BY <2>1
  <2>3. (\A i \in 1..n : f[i] = front[i]) /\ \A i \in 1..r : f[n + i] = rest[i]
    BY <2>1
  <2> QED BY <2>1, <2>2, <2>3
<1>2. \A i \in 1..n : front[i] \in Segment /\ f[i].kind # "scan"
  <2>1. \A i \in 1..n : front[i] \in Segment
    BY <1>1 DEF Apart
  <2> QED BY <1>1, <2>1 DEF Segment
<1>3. r > 0 => f[n + 1].kind = "scan"
  <2>1. r > 0 => rest # <<>> /\ f[n + 1] = rest[1]
    BY <1>1
  <2> QED BY <2>1 DEF Apart
<1> HIDE DEF n, r
<1> DEFINE scans == {i \in DOMAIN f : f[i].kind = "scan"} \cup {Len(f) + 1}
<1>4. n + 1 \in scans /\ scans \subseteq Int /\ \A k \in scans : n + 1 <= k
  BY <1>1, <1>2, <1>3
<1>5. FirstOf(f, LAMBDA segment : segment.kind = "scan") = n + 1
  <2>1. Min(scans) = n + 1
    <3> HIDE DEF scans
    <3> QED BY <1>4, LeastIs
  <2> QED BY <2>1 DEF FirstOf
<1>6. BeforeScan(f) = front
  <2>1. BeforeScan(f) = SubSeq(f, 1, n)
    BY <1>1, <1>5 DEF BeforeScan
  <2>2. /\ SubSeq(f, 1, n) \in Seq(Anything) /\ Len(SubSeq(f, 1, n)) = n
        /\ \A i \in 1..n : SubSeq(f, 1, n)[i] = f[i]
    BY <1>1
  <2> QED BY <1>1, <2>1, <2>2, SeqEqual DEF n
<1>7. FromScan(f) = rest
  <2>1. FromScan(f) = SubSeq(f, n + 1, n + r)
    BY <1>1, <1>5 DEF FromScan
  <2>2. /\ SubSeq(f, n + 1, n + r) \in Seq(Anything) /\ Len(SubSeq(f, n + 1, n + r)) = r
        /\ \A i \in 1..r : SubSeq(f, n + 1, n + r)[i] = f[n + i]
    BY <1>1
  <2> QED BY <1>1, <2>1, <2>2, SeqEqual DEF r
<1>8. Orientation(f) = Orientation(front)
  <2> DEFINE m == StopAt(front)
  <2>1. /\ m \in 1..n + 1
        /\ m \in 1..n => front[m].kind \in Stopping
        /\ \A i \in 1..n : i < m => front[i].kind \notin Stopping
    BY <1>1, StopExists DEF n
  <2>2. Orientation(front) = IF m \in 1..n /\ front[m].kind = "exif" THEN TagInIFD0(front[m].ifd) ELSE Upright
    BY <1>1, <2>1, StopIs DEF n
  <2> HIDE DEF m
  <2>3. /\ m \in 1..Len(f) + 1
        /\ m \in 1..Len(f) => f[m].kind \in Stopping
        /\ \A i \in 1..Len(f) : i < m => f[i].kind \notin Stopping
    <3>1. m = n + 1 /\ m \in 1..Len(f) => f[m].kind \in Stopping
      BY <1>1, <1>3 DEF Stopping
    <3> QED BY <1>1, <2>1, <3>1
  <2>4. Orientation(f) = IF m \in 1..Len(f) /\ f[m].kind = "exif" THEN TagInIFD0(f[m].ifd) ELSE Upright
    BY <1>1, <2>3, StopIs
  <2>5. CASE m \in 1..n
    BY <1>1, <2>2, <2>4, <2>5
  <2>6. CASE m = n + 1
    BY <1>1, <1>3, <2>2, <2>4, <2>6
  <2> QED BY <1>1, <2>1, <2>5, <2>6
<1> QED BY <1>6, <1>7, <1>8

\* What there is to say of a whole file.
Halved(f) == \E front, rest : Apart(f, front, rest) /\ Copied(front)

LEMMA HalvedGrows ==
    ASSUME NEW f, NEW s \in Anything, Halved(f)
    PROVE  Halved(Append(f, s))
<1>1. PICK front, rest : Apart(f, front, rest) /\ Copied(front)
  BY DEF Halved
<1>2. front \in Seq(Anything) /\ rest \in Seq(Anything)
  BY <1>1, SeqMonotonic DEF Apart, Segment
<1>3. CASE rest = <<>> /\ s.kind # "scan"
  <2>1. s \in Segment /\ f = front
    BY <1>1, <1>2, <1>3, ConcatEmptySeq DEF Apart, Segment
  <2>2. Append(f, s) \in Seq(Segment) /\ Append(f, s) \in Seq(Anything) /\ <<>> \in Seq(Anything)
    BY <1>1, <1>2, <2>1 DEF Apart
  <2>3. Apart(Append(f, s), Append(f, s), <<>>)
    BY <2>2, ConcatEmptySeq DEF Apart
  <2> QED BY <1>1, <2>1, <2>3, CopiedGrows DEF Halved
<1>4. CASE rest = <<>> /\ s.kind = "scan"
  <2>1. f = front
    BY <1>1, <1>2, <1>4, ConcatEmptySeq DEF Apart
  <2>2. Append(f, s) = front \o <<s>> /\ <<s>> \in Seq(Anything) /\ <<s>>[1] = s
    BY <1>2, <2>1, AppendIsConcat
  <2> QED BY <1>1, <1>4, <2>2 DEF Halved, Apart
<1>5. CASE rest # <<>>
  <2>1. Append(f, s) = front \o Append(rest, s)
    <3>1. f = front \o rest
      BY <1>1 DEF Apart
    <3>2. /\ f \in Seq(Anything) /\ Len(f) = Len(front) + Len(rest)
          /\ \A i \in 1..Len(f) : f[i] = IF i <= Len(front) THEN front[i] ELSE rest[i - Len(front)]
          /\ Len(front) \in Nat /\ Len(rest) \in Nat
      BY <1>2, <3>1, ConcatProperties
    <3> DEFINE longer == Append(rest, s)
    <3>3. /\ longer \in Seq(Anything) /\ Len(longer) = Len(rest) + 1 /\ longer[Len(rest) + 1] = s
          /\ \A i \in 1..Len(rest) : longer[i] = rest[i]
      BY <1>2
    <3> HIDE DEF longer
    <3>4. /\ front \o longer \in Seq(Anything) /\ Len(front \o longer) = Len(front) + Len(longer)
          /\ \A i \in 1..Len(front) + Len(longer) :
                (front \o longer)[i] = IF i <= Len(front) THEN front[i] ELSE longer[i - Len(front)]
      BY <1>2, <3>3, ConcatProperties
    <3>5. /\ Append(f, s) \in Seq(Anything) /\ Len(Append(f, s)) = Len(f) + 1
          /\ Append(f, s)[Len(f) + 1] = s /\ \A i \in 1..Len(f) : Append(f, s)[i] = f[i]
      BY <3>2
    <3>6. Len(front \o longer) = Len(Append(f, s))
      BY <3>2, <3>3, <3>4, <3>5
    <3>7. ASSUME NEW i \in 1..Len(f) + 1 PROVE Append(f, s)[i] = (front \o longer)[i]
      <4>1. CASE i = Len(f) + 1
        <5>1. i - Len(front) = Len(rest) + 1 /\ ~(i <= Len(front)) /\ i \in 1..(Len(front) + Len(longer))
          BY <3>2, <3>3, <4>1
        <5> QED BY <3>3, <3>4, <3>5, <4>1, <5>1
      <4>2. CASE i \in 1..Len(f)
        <5>1. i \in 1..Len(front) + Len(longer)
          BY <3>2, <3>3, <4>2
        <5>2. ~(i <= Len(front)) => i - Len(front) \in 1..Len(rest)
          BY <3>2, <4>2
        <5> QED BY <3>2, <3>3, <3>4, <3>5, <4>2, <5>1, <5>2
      <4>3. i = Len(f) + 1 \/ i \in 1..Len(f)
        <5>1. Len(f) \in Nat
          BY <3>2
        <5> QED BY <5>1
      <4> QED BY <4>1, <4>2, <4>3, Zenon
    <3>8. Append(f, s) = front \o longer
      BY <3>4, <3>5, <3>6, <3>7, SeqEqual
    <3> QED BY <3>8 DEF longer
  <2>2. Append(rest, s) \in Seq(Anything) /\ Append(rest, s)[1] = rest[1]
    BY <1>2, <1>5
  <2> QED BY <1>1, <1>5, <2>1, <2>2 DEF Halved, Apart
<1> QED BY <1>3, <1>4, <1>5

\* What is kept along the way is what the property asks of a JPEG.
LEMMA CopiedWell ==
    ASSUME NEW f, Halved(f)
    PROVE  NotesGone(f) /\ PictureStays(f) /\ StrippedOnce(f)
<1>1. PICK front, rest : Apart(f, front, rest) /\ Copied(front)
  BY DEF Halved
<1> DEFINE c == CopyOf(front)
           d == c \o rest
<1>2. BeforeScan(f) = front /\ FromScan(f) = rest /\ Orientation(f) = Orientation(front)
  BY <1>1, ApartOnce
<1>3. StripJPEG(f) = IF Walkable(front) THEN d ELSE f
  <2>1. front \in Seq(Anything) /\ rest \in Seq(Anything) /\ f = front \o rest
    BY <1>1, SeqMonotonic DEF Apart, Segment
  <2>2. \A i \in DOMAIN front : f[i] = front[i]
    BY <2>1
  <2>3. [i \in DOMAIN front |-> Kept(f[i])] = [i \in DOMAIN front |-> Kept(front[i])]
    BY <2>2
  <2> QED BY <1>2, <2>3 DEF StripJPEG, CopyOf
<1>4. CASE ~Walkable(front)
  BY <1>2, <1>3, <1>4 DEF NotesGone, PictureStays, StrippedOnce
<1>5. CASE Walkable(front)
  <2>1. /\ c \in Seq(Clean) /\ CopyOf(c) = c /\ Walkable(c) /\ SameWay(front, c)
        /\ PictureOf(c) = PictureOf(front)
        /\ front \in Seq(Segment)
    BY <1>1, <1>5 DEF Copied
  <2>2. Apart(d, c, rest)
    <3>1. Clean \subseteq Segment
      BY CleanOne
    <3>2. c \in Seq(Segment)
      BY <2>1, <3>1, SeqMonotonic
    <3> QED BY <1>1, <3>2 DEF Apart
  <2>3. BeforeScan(d) = c /\ FromScan(d) = rest /\ Orientation(d) = Orientation(c)
    BY <2>2, ApartOnce
  <2>4. StripJPEG(f) = d
    BY <1>3, <1>5
  <2>5. /\ rest \in Seq(Anything) /\ c \in Seq(Anything) /\ \A i \in DOMAIN c : d[i] = c[i]
    <3>1. rest \in Seq(Anything) /\ c \in Seq(Anything)
      BY <2>2, SeqMonotonic DEF Apart, Segment
    <3> QED BY <3>1
  <2> HIDE DEF c, d
  <2>6. StripJPEG(d) = d
    <3>1. [i \in DOMAIN c |-> Kept(d[i])] = [i \in DOMAIN c |-> Kept(c[i])]
      BY <2>5
    <3>2. StripJPEG(d) = CopyOf(c) \o rest
      BY <2>1, <2>3, <3>1 DEF StripJPEG, CopyOf
    <3> QED BY <2>1, <3>2 DEF d
  <2>7. NotesGone(f)
    <3>1. \A i \in DOMAIN c : ~HoldsNotes(d[i])
      BY <2>1, <2>5, CleanOne
    <3> QED BY <2>3, <2>4, <3>1 DEF NotesGone
  <2>8. ASSUME Cardinality(Exifs(front)) <= 1 PROVE Orientation(d) = Orientation(f)
    <3>1. IsFiniteSet(Exifs(front))
      <4>1. Exifs(front) \subseteq 1..Len(front) /\ Len(front) \in Nat
        BY <2>1 DEF Exifs
      <4>2. IsFiniteSet(1..Len(front))
        BY <4>1, FS_Interval
      <4> HIDE DEF Exifs
      <4> QED BY <4>1, <4>2, FS_Subset
    <3>2. Exifs(front) = {} \/ \E i : Exifs(front) = {i}
      <4>1. Cardinality(Exifs(front)) \in Nat
        BY <3>1, FS_CardinalityType
      <4>2. Cardinality(Exifs(front)) = 0 \/ Cardinality(Exifs(front)) = 1
        BY <2>8, <4>1
      <4> QED BY <3>1, <4>2, FS_EmptySet, FS_Singleton
    <3>3. \A i, j \in Exifs(front) : i = j
      BY <3>2
    <3> QED BY <1>2, <2>1, <2>3, <3>3 DEF SameWay
  <2> QED BY <1>2, <2>1, <2>3, <2>4, <2>6, <2>7, <2>8 DEF PictureStays, StrippedOnce
<1> QED BY <1>4, <1>5

-----------------------------------------------------------------------------
(* The copy of a PNG.                                                      *)

Left(chunk) == IF chunk = "note" THEN <<>> ELSE <<chunk>>

\* What is left of chunks that have no end.
LeftOf(cs) == FlattenSeq([i \in DOMAIN cs |-> Left(cs[i])])

EndsFirstAt(cs, m) == m \in DOMAIN cs /\ cs[m] = "end" /\ \A i \in 1..m - 1 : cs[i] # "end"

\* A chunk more adds what is left of it.
LEMMA LeftGrows ==
    ASSUME NEW cs \in Seq(Chunks), NEW x \in Chunks
    PROVE  /\ LeftOf(Append(cs, x)) = LeftOf(cs) \o Left(x)
           /\ LeftOf(cs) \in Seq(Chunks)
<1>1. ASSUME NEW y \in Chunks PROVE Left(y) \in Seq(Chunks)
  BY DEF Left
<1>2. /\ Append(cs, x) \in Seq(Chunks) /\ Len(Append(cs, x)) = Len(cs) + 1 /\ Len(cs) \in Nat
      /\ \A i \in 1..Len(cs) : Append(cs, x)[i] = cs[i]
      /\ Append(cs, x)[Len(cs) + 1] = x
  OBVIOUS
<1> DEFINE parts == [i \in DOMAIN cs |-> Left(cs[i])]
           more == [i \in DOMAIN Append(cs, x) |-> Left(Append(cs, x)[i])]
<1> HIDE DEF Chunks
<1>3. parts \in [1..Len(cs) -> Seq(Chunks)] /\ more \in [1..Len(cs) + 1 -> Seq(Chunks)]
  BY <1>1, <1>2
<1>4. (\A i \in 1..Len(cs) : more[i] = parts[i]) /\ more[Len(cs) + 1] = Left(x)
  BY <1>2
<1> HIDE DEF parts, more
<1>5. LongerBy(Left(x), Chunks, Len(cs), parts, more)
  <2>1. Len(cs) \in Nat
    BY <1>2
  <2> QED BY <1>3, <1>4, <2>1, Zenon DEF LongerBy
<1>6. FlattenSeq(parts) \in Seq(Chunks) /\ FlattenSeq(more) = FlattenSeq(parts) \o Left(x)
  BY <1>5, FlattenMore
<1> QED BY <1>6 DEF LeftOf, parts, more

\* The copy of a PNG stops at the first end, and so does what a decoder reads.
LEMMA StrippedTo ==
    ASSUME NEW cs \in Seq(Chunks), NEW m, EndsFirstAt(cs, m)
    PROVE  /\ StripPNG(cs) = FlattenSeq([i \in 1..m |-> Left(cs[i])])
           /\ NeededOf(cs) = FlattenSeq([i \in 1..m - 1 |-> Left(cs[i])])
<1> DEFINE ends == {i \in DOMAIN cs : cs[i] = "end"} \cup {Len(cs) + 1}
<1>1. DOMAIN cs = 1..Len(cs) /\ Len(cs) \in Nat
  OBVIOUS
<1>2. m \in ends /\ ends \subseteq Int
  BY <1>1 DEF EndsFirstAt
<1>3. \A k \in ends : m <= k
  BY <1>1 DEF EndsFirstAt
<1>4. Min(ends) = m
  <2> HIDE DEF ends
  <2> QED BY <1>2, <1>3, LeastIs
<1>5. FirstOf(cs, LAMBDA chunk : chunk = "end") = m
  BY <1>4 DEF FirstOf
<1>6. NeededOf(cs) = FlattenSeq([i \in 1..m - 1 |-> Left(cs[i])])
  <2>1. \A i \in 1..m - 1 : cs[i] \in {"colour", "pixels", "note"}
    BY <1>1 DEF EndsFirstAt, Chunks
  <2>2. \A i \in 1..m - 1 : Left(cs[i]) = IF cs[i] \in {"colour", "pixels"} THEN <<cs[i]>> ELSE <<>>
    BY <2>1 DEF Left
  <2> QED BY <1>5, <2>2 DEF NeededOf
<1> QED BY <1>5, <1>6 DEF StripPNG, Left

\* Bare chunks with an end after them are their own copy.
LEMMA Ended ==
    ASSUME NEW cs \in Seq(Chunks), \A i \in DOMAIN cs : cs[i] # "end"
    PROVE  /\ EndsFirstAt(Append(cs, "end"), Len(cs) + 1)
           /\ StripPNG(Append(cs, "end")) = Append(LeftOf(cs), "end")
           /\ NeededOf(Append(cs, "end")) = LeftOf(cs)
<1> DEFINE more == Append(cs, "end")
<1>1. /\ more \in Seq(Chunks) /\ Len(more) = Len(cs) + 1 /\ Len(cs) \in Nat
      /\ \A i \in 1..Len(cs) : more[i] = cs[i]
      /\ more[Len(cs) + 1] = "end"
  BY DEF Chunks
<1> HIDE DEF more
<1>2. EndsFirstAt(more, Len(cs) + 1)
  BY <1>1 DEF EndsFirstAt
<1>3. StripPNG(more) = LeftOf(more)
  <2>1. DOMAIN more = 1..Len(cs) + 1
    BY <1>1
  <2> QED BY <1>1, <1>2, <2>1, StrippedTo DEF LeftOf
<1>4. LeftOf(more) = LeftOf(cs) \o Left("end") /\ LeftOf(cs) \in Seq(Chunks) /\ "end" \in Chunks
  <2>1. "end" \in Chunks
    BY DEF Chunks
  <2> QED BY <2>1, LeftGrows DEF more
<1>5. LeftOf(cs) \o <<"end">> = Append(LeftOf(cs), "end")
  BY <1>4, AppendIsConcat
<1>6. NeededOf(more) = LeftOf(cs)
  <2> DEFINE m == Len(cs) + 1
  <2>1. m - 1 = Len(cs) /\ DOMAIN cs = 1..Len(cs) /\ EndsFirstAt(more, m)
    BY <1>1, <1>2
  <2> HIDE DEF m
  <2>2. NeededOf(more) = FlattenSeq([i \in 1..m - 1 |-> Left(more[i])])
    BY <1>1, <2>1, StrippedTo, Zenon
  <2>3. [i \in 1..m - 1 |-> Left(more[i])] = [i \in DOMAIN cs |-> Left(cs[i])]
    BY <1>1, <2>1
  <2> QED BY <2>2, <2>3, Zenon DEF LeftOf
<1> QED BY <1>2, <1>3, <1>4, <1>5, <1>6 DEF Left, more

\* What there is to say of chunks and what is left of them, chunk by chunk.
Bare(p) == p \in Seq({"colour", "pixels"}) /\ LeftOf(p) = p

Stripped(cs) ==
    /\ cs \in Seq(Chunks)
    /\ \/ (\A i \in DOMAIN cs : cs[i] # "end") /\ Bare(LeftOf(cs))
       \/ \E m \in DOMAIN cs : \E p :
             /\ EndsFirstAt(cs, m) /\ Bare(p)
             /\ StripPNG(cs) = Append(p, "end") /\ NeededOf(cs) = p

\* The copy of an empty PNG is in order.
LEMMA NothingStripped == Stripped(<<>>)
<1>1. DOMAIN <<>> = {} /\ <<>> \in Seq(Chunks) /\ <<>> \in Seq({"colour", "pixels"})
  OBVIOUS
<1>2. LeftOf(<<>>) = <<>>
  BY <1>1, FlattenEmpty DEF LeftOf
<1> QED BY <1>1, <1>2 DEF Stripped, Bare

\* It stays so when the PNG grows.
LEMMA StrippedGrows ==
    ASSUME NEW cs, NEW x \in Chunks, Stripped(cs)
    PROVE  Stripped(Append(cs, x))
<1> DEFINE more == Append(cs, x)
<1>1. /\ cs \in Seq(Chunks) /\ more \in Seq(Chunks) /\ DOMAIN cs = 1..Len(cs)
      /\ DOMAIN more = 1..Len(cs) + 1 /\ Len(cs) \in Nat
      /\ \A i \in 1..Len(cs) : more[i] = cs[i]
      /\ more[Len(cs) + 1] = x
  BY DEF Stripped
<1> HIDE DEF more
<1>2. ASSUME NEW m \in DOMAIN cs, NEW p, EndsFirstAt(cs, m), Bare(p),
             StripPNG(cs) = Append(p, "end"), NeededOf(cs) = p
      PROVE  Stripped(more)
  <2>1. EndsFirstAt(more, m) /\ m \in DOMAIN more /\ m \in Nat
    BY <1>1, <1>2 DEF EndsFirstAt
  <2>2. /\ [i \in 1..m |-> Left(more[i])] = [i \in 1..m |-> Left(cs[i])]
        /\ [i \in 1..m - 1 |-> Left(more[i])] = [i \in 1..m - 1 |-> Left(cs[i])]
    BY <1>1, <2>1
  <2>3. /\ StripPNG(more) = FlattenSeq([i \in 1..m |-> Left(more[i])])
        /\ NeededOf(more) = FlattenSeq([i \in 1..m - 1 |-> Left(more[i])])
    BY <1>1, <2>1, StrippedTo, Zenon
  <2>4. /\ StripPNG(cs) = FlattenSeq([i \in 1..m |-> Left(cs[i])])
        /\ NeededOf(cs) = FlattenSeq([i \in 1..m - 1 |-> Left(cs[i])])
    BY <1>1, <1>2, StrippedTo, Zenon
  <2>5. StripPNG(more) = StripPNG(cs) /\ NeededOf(more) = NeededOf(cs)
    BY <2>2, <2>3, <2>4, Zenon
  <2> QED BY <1>1, <1>2, <2>1, <2>5 DEF Stripped
<1>3. CASE (\A i \in DOMAIN cs : cs[i] # "end") /\ Bare(LeftOf(cs)) /\ x = "end"
  <2>1. /\ EndsFirstAt(more, Len(cs) + 1)
        /\ StripPNG(more) = Append(LeftOf(cs), "end") /\ NeededOf(more) = LeftOf(cs)
    BY <1>1, <1>3, Ended DEF more
  <2> QED BY <1>1, <1>3, <2>1 DEF Stripped, more
<1>4. CASE (\A i \in DOMAIN cs : cs[i] # "end") /\ Bare(LeftOf(cs)) /\ x # "end"
  <2> DEFINE p == LeftOf(cs)
  <2>1. LeftOf(more) = p \o Left(x) /\ p \in Seq({"colour", "pixels"}) /\ LeftOf(p) = p
    BY <1>1, <1>4, LeftGrows DEF more, Bare
  <2>2. p \in Seq(Chunks)
    BY <2>1, SeqMonotonic DEF Chunks
  <2>3. CASE x = "note"
    <3>1. LeftOf(more) = p
      BY <2>1, <2>2, <2>3, ConcatEmptySeq DEF Left
    <3> QED BY <1>1, <1>4, <3>1 DEF Stripped, more
  <2>4. CASE x \in {"colour", "pixels"}
    <3>1. LeftOf(more) = Append(p, x) /\ Append(p, x) \in Seq({"colour", "pixels"})
      BY <2>1, <2>2, <2>4, AppendIsConcat DEF Left
    <3>2. LeftOf(Append(p, x)) = p \o Left(x)
      BY <2>1, <2>2, LeftGrows
    <3>3. Bare(LeftOf(more))
      BY <2>1, <3>1, <3>2 DEF Bare
    <3> QED BY <1>1, <1>4, <3>3 DEF Stripped, more
  <2> QED BY <1>4, <2>3, <2>4 DEF Chunks
<1> QED BY <1>2, <1>3, <1>4 DEF Stripped, more

\* What is kept along the way is what the property asks of a PNG.
LEMMA StrippedWell ==
    ASSUME NEW cs, Stripped(cs)
    PROVE  CleanPNG(cs)
<1> SUFFICES ASSUME "end" \in Range(cs)
             PROVE  /\ "note" \notin Range(StripPNG(cs))
                    /\ NeededOf(StripPNG(cs)) = NeededOf(cs)
                    /\ StripPNG(StripPNG(cs)) = StripPNG(cs)
                    /\ Last(StripPNG(cs)) = "end"
  BY DEF CleanPNG
<1>1. PICK p : Bare(p) /\ StripPNG(cs) = Append(p, "end") /\ NeededOf(cs) = p
  BY DEF Stripped, Range
<1>2. /\ p \in Seq({"colour", "pixels"}) /\ p \in Seq(Chunks)
      /\ \A i \in DOMAIN p : p[i] \in {"colour", "pixels"}
  BY <1>1, SeqMonotonic DEF Bare, Chunks
<1>3. StripPNG(Append(p, "end")) = Append(p, "end") /\ NeededOf(Append(p, "end")) = p
  <2>1. \A i \in DOMAIN p : p[i] # "end"
    BY <1>2
  <2> QED BY <1>1, <1>2, <2>1, Ended DEF Bare
<1>4. /\ DOMAIN Append(p, "end") = 1..Len(p) + 1 /\ Len(p) \in Nat
      /\ \A i \in 1..Len(p) : Append(p, "end")[i] \in {"colour", "pixels"}
      /\ Append(p, "end")[Len(p) + 1] = "end" /\ Len(Append(p, "end")) = Len(p) + 1
  BY <1>2
<1>5. "note" \notin Range(Append(p, "end")) /\ Last(Append(p, "end")) = "end"
  BY <1>4 DEF Range, Last
<1> QED BY <1>1, <1>3, <1>5

\* Of every JPEG and PNG the copy that is published keeps the picture, its order
\* and its way up, and all that comes from the first scan on; loses every note
\* before that; and is its own copy.
THEOREM CopiesAreClean == Spec => []NotesGoPictureStays
<1> DEFINE Inv == Halved(file) /\ Stripped(chunks)
<1>1. Init => Inv
  <2>1. Apart(<<>>, <<>>, <<>>)
    BY ConcatEmptySeq DEF Apart
  <2>2. Halved(<<>>)
    BY <2>1, NothingCopied DEF Halved
  <2> QED BY <2>2, NothingStripped DEF Init
<1>2. Inv /\ [Next]_vars => Inv'
  <2> SUFFICES ASSUME Inv, [Next]_vars PROVE Inv'
    OBVIOUS
  <2>1. CASE AddSegment
    <3>1. PICK segment \in Segments : file' = Append(file, segment)
      BY <2>1 DEF AddSegment
    <3>2. chunks' = chunks
      BY <2>1 DEF AddSegment
    <3> QED BY <3>1, <3>2, HalvedGrows DEF Anything
  <2>2. CASE AddChunk
    <3>1. PICK chunk \in Chunks : chunks' = Append(chunks, chunk)
      BY <2>2 DEF AddChunk
    <3>2. file' = file
      BY <2>2 DEF AddChunk
    <3> QED BY <3>1, <3>2, StrippedGrows
  <2>3. CASE UNCHANGED <<file, chunks>>
    BY <2>3
  <2> QED BY <2>1, <2>2, <2>3 DEF Next, vars, ChangePicture, AskForLadder
<1>3. Inv => NotesGoPictureStays
  BY CopiedWell, StrippedWell DEF NotesGoPictureStays
<1> QED BY <1>1, <1>2, <1>3, PTL DEF Spec

-----------------------------------------------------------------------------
(* Ladders.                                                                *)

Sizes == Nat \ {0}

\* Widths as they are configured.
Lists == {widths \in Seq(Sizes) : IsSorted(widths, <=)}

Sources == [type : Types, width : Nat, height : Nat, turned : BOOLEAN]

Setups == [widths : Lists, videoWidths : Lists, poster : Int, ffmpeg : BOOLEAN, serverFfmpeg : BOOLEAN,
           skip : BOOLEAN, slicer : BOOLEAN, sliced : SUBSET {"off", "on"}]

Sized(s) == s.width \in Sizes /\ s.height \in Sizes

\* The greatest of two is the greater.
LEMMA Larger ==
    ASSUME NEW m \in Int, NEW n \in Int
    PROVE  Max({m, n}) = IF m <= n THEN n ELSE m
<1>1. \E k \in {m, n} : \A l \in {m, n} : k >= l
  OBVIOUS
<1>2. Max({m, n}) \in {m, n} /\ \A l \in {m, n} : Max({m, n}) >= l
  BY <1>1, Zenon DEF Max
<1> QED BY <1>2

\* The height a width is given: no more than the source's, and rounded down.
LEMMA Proportion ==
    ASSUME NEW w \in Sizes, NEW h \in Sizes, NEW v \in Sizes, v <= w,
           NEW q, q = (h * v) \div w
    PROVE  /\ q \in Nat /\ q <= h
           /\ 0 <= h * v - w * q /\ h * v - w * q < w
<1>1. h * v \in Nat
  BY DEF Sizes
<1>2. q \in Nat /\ w * q <= h * v /\ h * v < w * q + w
  BY <1>1, SMT DEF Sizes
<1>3. h * v <= h * w
  BY SMT DEF Sizes
<1>4. ASSUME q > h PROVE FALSE
  <2>1. w * q >= w * (h + 1)
    BY <1>2, <1>4, SMT DEF Sizes
  <2>2. w * (h + 1) = h * w + w
    BY SMT DEF Sizes
  <2>3. w * q \in Nat /\ h * w \in Nat
    BY <1>2, SMT DEF Sizes
  <2> QED BY <1>1, <1>2, <1>3, <2>1, <2>2, <2>3 DEF Sizes
<1>5. w * q \in Nat
  BY <1>2, SMT DEF Sizes
<1> QED BY <1>1, <1>2, <1>4, <1>5 DEF Sizes

\* A number made even loses at most one.
LEMMA EvenIs ==
    ASSUME NEW n \in Nat
    PROVE  Even(n) \in Nat /\ Even(n) <= n /\ n <= Even(n) + 1 /\ Even(n) % 2 = 0
  BY SMT DEF Even

\* A form of an image keeps its shape to less than a pixel of its height.
LEMMA RenderedFits ==
    ASSUME NEW kind, NEW s \in Sources, Sized(s), NEW v \in Sizes, v <= s.width
    PROVE  LET form == Rendered(kind, s, v) IN
           /\ form.kind = kind /\ form.width = v /\ form.height \in Sizes
           /\ form.height <= s.height
           /\ form.height > 1 => /\ 0 <= s.height * v - s.width * form.height
                                 /\ s.height * v - s.width * form.height < s.width
<1> DEFINE q == (s.height * v) \div s.width
           form == Rendered(kind, s, v)
<1>1. /\ q \in Nat /\ q <= s.height
      /\ 0 <= s.height * v - s.width * q /\ s.height * v - s.width * q < s.width
  BY Proportion DEF Sized
<1>2. form.kind = kind /\ form.width = v /\ form.height = Max({1, q})
  BY DEF Rendered, Form
<1> HIDE DEF q, form
<1>3. form.height = IF 1 <= q THEN q ELSE 1
  BY <1>1, <1>2, Larger
<1> QED BY <1>1, <1>2, <1>3 DEF form, Sized, Sizes

\* One of a video to less than two, and its height is even.
LEMMA EncodedFits ==
    ASSUME NEW s \in Sources, Sized(s), NEW v \in Sizes, v <= s.width
    PROVE  LET form == Encoded(s, v) IN
           /\ form.kind = "size" /\ form.width = v /\ form.height \in Sizes
           /\ form.height <= s.height \/ form.height = 2
           /\ form.height % 2 = 0
           /\ form.height > 2 => /\ 0 <= s.height * v - s.width * form.height
                                 /\ s.height * v - s.width * form.height < 2 * s.width
<1> DEFINE q == (s.height * v) \div s.width
           form == Encoded(s, v)
<1>1. /\ q \in Nat /\ q <= s.height
      /\ 0 <= s.height * v - s.width * q /\ s.height * v - s.width * q < s.width
  BY Proportion DEF Sized
<1>2. form.kind = "size" /\ form.width = v /\ form.height = Max({2, Even(q)})
  BY DEF Encoded, Form
<1> HIDE DEF q, form
<1>3. Even(q) \in Nat /\ Even(q) <= q /\ q <= Even(q) + 1 /\ Even(q) % 2 = 0
  BY <1>1, EvenIs
<1>4. form.height = IF 2 <= Even(q) THEN Even(q) ELSE 2
  BY <1>2, <1>3, Larger
<1>5. CASE form.height = 2
  BY <1>2, <1>5 DEF form, Sizes
<1>6. CASE form.height = Even(q) /\ 2 <= Even(q)
  <2>1. s.width * Even(q) <= s.width * q /\ s.width * q <= s.width * Even(q) + s.width
    <3>1. s.width \in Nat
      BY DEF Sized, Sizes
    <3>2. q = Even(q) \/ q = Even(q) + 1
      BY <1>1, <1>3
    <3> QED BY <1>3, <3>1, <3>2, SMT
  <2>2. s.width * Even(q) \in Nat /\ s.width * q \in Nat /\ s.height * v \in Nat /\ s.width \in Nat
    BY <1>1, <1>3, SMT DEF Sized, Sizes
  <2>3. 0 <= s.height * v - s.width * Even(q) /\ s.height * v - s.width * Even(q) < 2 * s.width
    BY <1>1, <2>1, <2>2
  <2>4. form.height <= s.height /\ form.height \in Sizes /\ form.height % 2 = 0
    BY <1>1, <1>3, <1>6 DEF Sizes, Sized
  <2> QED BY <1>2, <1>6, <2>3, <2>4 DEF form
<1> QED BY <1>4, <1>5, <1>6

\* The widths picked from a list are of the list, small enough, and in order.
Picked(most, widths, out) ==
    /\ out \in Seq(Sizes)
    /\ IsSorted(out, <=)
    /\ \A j \in 1..Len(out) : out[j] <= most /\ \E i \in 1..Len(widths) : out[j] = widths[i]

LEMMA UpToPicks ==
    ASSUME NEW most \in Int, NEW widths \in Lists
    PROVE  Picked(most, widths, UpTo(most, widths))
<1> DEFINE One(i) == IF widths[i] <= most THEN <<widths[i]>> ELSE <<>>
           parts(k) == [i \in 1..k |-> One(i)]
           out(k) == FlattenSeq(parts(k))
           good == {k \in 0..Len(widths) :
                       /\ out(k) \in Seq(Sizes) /\ IsSorted(out(k), <=)
                       /\ \A j \in 1..Len(out(k)) :
                             out(k)[j] <= most /\ \E i \in 1..k : out(k)[j] = widths[i]}
<1>1. /\ widths \in Seq(Sizes) /\ Len(widths) \in Nat /\ DOMAIN widths = 1..Len(widths)
      /\ \A i, j \in 1..Len(widths) : i < j => widths[i] <= widths[j]
      /\ \A i \in 1..Len(widths) : widths[i] \in Sizes
  BY DEF Lists, IsSorted
<1>2. \A i \in 1..Len(widths) : One(i) \in Seq(Sizes)
  BY <1>1
<1> HIDE DEF One
<1>3. 0 \in good
  <2>1. parts(0) = <<>>
    OBVIOUS
  <2>2. out(0) = <<>>
    BY <2>1, FlattenEmpty
  <2> HIDE DEF out
  <2>3. 1..0 = {} /\ 0 \in 0..Len(widths)
    BY <1>1
  <2>4. out(0) \in Seq(Sizes) /\ Len(out(0)) = 0
    BY <2>2, EmptySeq
  <2>5. IsSorted(out(0), <=)
    BY <2>3, <2>4 DEF IsSorted
  <2> QED BY <2>3, <2>4, <2>5
<1>4. ASSUME NEW k \in 0..Len(widths) - 1, k \in good PROVE k + 1 \in good
  <2>1. k \in Nat /\ k + 1 \in 1..Len(widths) /\ k + 1 \in 0..Len(widths)
    BY <1>1
  <2>2. LongerBy(One(k + 1), Sizes, k, parts(k), parts(k + 1))
    <3>1. parts(k) \in [1..k -> Seq(Sizes)] /\ parts(k + 1) \in [1..k + 1 -> Seq(Sizes)]
      BY <1>1, <1>2, <2>1
    <3>2. (\A i \in 1..k : parts(k + 1)[i] = parts(k)[i]) /\ parts(k + 1)[k + 1] = One(k + 1)
      BY <2>1
    <3> QED BY <2>1, <3>1, <3>2 DEF LongerBy
  <2> HIDE DEF parts
  <2>3. out(k + 1) = out(k) \o One(k + 1)
    BY <2>2, FlattenMore
  <2>4. /\ out(k) \in Seq(Sizes) /\ Len(out(k)) \in Nat
        /\ \A i, j \in 1..Len(out(k)) : i < j => out(k)[i] <= out(k)[j]
        /\ \A j \in 1..Len(out(k)) : out(k)[j] <= most /\ \E i \in 1..k : out(k)[j] = widths[i]
    BY <1>4 DEF IsSorted
  <2> HIDE DEF out
  <2>5. CASE One(k + 1) = <<>>
    <3>1. out(k + 1) = out(k)
      BY <2>3, <2>4, <2>5, ConcatEmptySeq
    <3>2. \A j \in 1..Len(out(k)) : \E i \in 1..k + 1 : out(k)[j] = widths[i]
      BY <2>1, <2>4
    <3> QED BY <1>4, <2>1, <2>4, <3>1, <3>2
  <2>6. CASE One(k + 1) = <<widths[k + 1]>> /\ widths[k + 1] <= most
    <3> DEFINE w == widths[k + 1]
               more == out(k + 1)
               n == Len(out(k))
    <3>1. w \in Sizes /\ more = Append(out(k), w)
      BY <1>1, <2>1, <2>3, <2>4, <2>6, AppendIsConcat
    <3>2. /\ more \in Seq(Sizes) /\ Len(more) = n + 1 /\ more[n + 1] = w /\ n \in Nat
          /\ \A j \in 1..n : more[j] = out(k)[j]
      <4> DEFINE before == out(k)
      <4>1. before \in Seq(Sizes) /\ n = Len(before)
        BY <2>4
      <4> HIDE DEF before, more, w, n
      <4>2. more = Append(before, w)
        BY <3>1 DEF before
      <4>3. /\ more \in Seq(Sizes) /\ Len(more) = Len(before) + 1 /\ Len(before) \in Nat
            /\ more[Len(before) + 1] = w /\ \A j \in 1..Len(before) : more[j] = before[j]
        BY <3>1, <4>1, <4>2, AppendProperties
      <4> QED BY <4>1, <4>3 DEF before
    <3>3. \A j \in 1..n : out(k)[j] <= w
      <4> SUFFICES ASSUME NEW j \in 1..n PROVE out(k)[j] <= w
        OBVIOUS
      <4>1. PICK i \in 1..k : out(k)[j] = widths[i]
        BY <2>4
      <4>2. i \in 1..Len(widths) /\ i < k + 1
        BY <1>1, <2>1
      <4> QED BY <1>1, <2>1, <4>1, <4>2
    <3> HIDE DEF more, w
    <3>4. IsSorted(more, <=)
      <4>1. \A i, j \in 1..n : i < j => out(k)[i] <= out(k)[j]
        BY <2>4
      <4> HIDE DEF n
      <4> SUFFICES ASSUME NEW i \in 1..n + 1, NEW j \in 1..n + 1, i < j
                   PROVE  more[i] <= more[j]
        BY <3>2 DEF IsSorted
      <4>2. i \in 1..n /\ (j \in 1..n \/ j = n + 1)
        BY <3>2
      <4>3. more[i] = out(k)[i]
        BY <3>2, <4>2
      <4> QED BY <3>2, <3>3, <4>1, <4>2, <4>3
    <3>5. \A j \in 1..Len(more) : more[j] <= most /\ \E i \in 1..k + 1 : more[j] = widths[i]
      <4>1. w <= most /\ w = widths[k + 1] /\ k + 1 \in 1..k + 1
        BY <2>1, <2>6 DEF w
      <4>2. \A j \in 1..n : more[j] <= most /\ \E i \in 1..k + 1 : more[j] = widths[i]
        BY <2>1, <2>4, <3>2
      <4> QED BY <2>4, <3>2, <4>1, <4>2
    <3> QED BY <2>1, <3>2, <3>4, <3>5 DEF more
  <2> QED BY <2>5, <2>6 DEF One
<1>5. Len(widths) \in good
  <2> HIDE DEF good
  <2> QED BY <1>1, <1>3, <1>4, Upward
<1>6. UpTo(most, widths) = out(Len(widths))
  BY <1>1 DEF UpTo, One
<1> HIDE DEF out
<1> QED BY <1>5, <1>6 DEF Picked

\* What is in order may come out of sorting in order.
LEMMA SortedIs ==
    ASSUME NEW s \in Lists
    PROVE  /\ Sorted(s) \in [1..Len(s) -> Range(s)]
           /\ IsSorted(Sorted(s), <=)
<1>1. s \in TupleOf(Range(s), Len(s))
  <2>1. s \in Seq(Sizes)
    BY DEF Lists
  <2>2. s \in [1..Len(s) -> Sizes]
    BY <2>1, LenProperties
  <2>3. \A i \in 1..Len(s) : s[i] \in Range(s)
    BY <2>2 DEF Range
  <2> QED BY <2>2, <2>3 DEF TupleOf
<1>2. IsSorted(s, <=) /\ ToBag(s) = ToBag(s)
  BY DEF Lists
<1>3. /\ Sorted(s) \in TupleOf(Range(s), Len(s))
      /\ IsSorted(Sorted(s), <=) /\ ToBag(Sorted(s)) = ToBag(s)
  <2> DEFINE T == TupleOf(Range(s), Len(s))
             P(t) == IsSorted(t, <=) /\ ToBag(t) = ToBag(s)
  <2>1. s \in T /\ P(s)
    BY <1>1, <1>2
  <2>2. Sorted(s) = CHOOSE t \in T : P(t)
    BY DEF Sorted
  <2> HIDE DEF T, P
  <2>3. Sorted(s) \in T /\ P(Sorted(s))
    BY <2>1, <2>2, Zenon
  <2> QED BY <2>3 DEF T, P
<1> QED BY <1>3 DEF TupleOf

\* A video wider than a pixel has a width to be encoded at, and every one fits.
LEMMA WidthsForPicks ==
    ASSUME NEW own \in Sizes, NEW widths \in Lists
    PROVE  LET fitting == WidthsFor(own, widths) IN
           /\ fitting \in Lists
           /\ own > 1 => Len(fitting) > 0
           /\ \A j \in 1..Len(fitting) : fitting[j] <= own
           /\ (\A i \in DOMAIN widths : widths[i] % 2 = 0)
                 => \A j \in 1..Len(fitting) : fitting[j] % 2 = 0
<1> DEFINE fitting == UpTo(own, widths)
           all == WidthsFor(own, widths)
<1>1. /\ Picked(own, widths, fitting)
      /\ fitting \in Lists /\ Len(fitting) \in Nat /\ DOMAIN fitting = 1..Len(fitting)
      /\ DOMAIN widths = 1..Len(widths)
  <2>1. Picked(own, widths, fitting)
    BY UpToPicks DEF Sizes
  <2> HIDE DEF fitting
  <2>2. fitting \in Seq(Sizes) /\ widths \in Seq(Sizes) /\ fitting \in Lists
    BY <2>1 DEF Picked, Lists
  <2> QED BY <2>1, <2>2, LenProperties
<1>2. CASE fitting = <<>> /\ own > 1
  <2>1. all = <<Even(own)>>
    BY <1>2 DEF WidthsFor
  <2>2. Even(own) \in Sizes /\ Even(own) <= own /\ Even(own) % 2 = 0
    BY <1>2, EvenIs, SMT DEF Sizes
  <2> HIDE DEF all
  <2>3. all \in Seq(Sizes) /\ Len(all) = 1 /\ all[1] = Even(own)
    BY <2>1, <2>2
  <2>4. IsSorted(all, <=)
    BY <2>3 DEF IsSorted
  <2>5. all \in Lists
    BY <2>3, <2>4 DEF Lists
  <2>6. \A j \in 1..Len(all) : j = 1
    BY <2>3
  <2>7. /\ Len(all) > 0
        /\ \A j \in 1..Len(all) : all[j] <= own /\ all[j] % 2 = 0
    BY <2>2, <2>3, <2>6
  <2> QED BY <2>5, <2>7 DEF all
<1>3. CASE ~(fitting = <<>> /\ own > 1)
  <2>1. all = Sorted(fitting)
    BY <1>3 DEF WidthsFor
  <2> HIDE DEF fitting, all
  <2>2. all \in [1..Len(fitting) -> Range(fitting)] /\ IsSorted(all, <=)
    BY <1>1, <2>1, SortedIs
  <2>3. \A x \in Range(fitting) : x \in Sizes
    <3>1. fitting \in Seq(Sizes)
      BY <1>1 DEF Lists
    <3>2. \A i \in 1..Len(fitting) : fitting[i] \in Sizes
      BY <3>1
    <3> QED BY <1>1, <3>2 DEF Range
  <2>4. all \in Seq(Sizes) /\ Len(all) = Len(fitting) /\ all \in Lists
    <3>1. all \in [1..Len(fitting) -> Sizes]
      BY <2>2, <2>3
    <3>2. all \in Seq(Sizes) /\ Len(all) = Len(fitting)
      BY <1>1, <3>1
    <3> QED BY <2>2, <3>2 DEF Lists
  <2>5. own > 1 => Len(all) > 0
    <3>1. own > 1 => fitting # <<>>
      BY <1>3 DEF fitting
    <3>2. fitting \in Seq(Sizes)
      BY <1>1 DEF Lists
    <3>3. own > 1 => Len(fitting) # 0
      BY <3>1, <3>2, EmptySeq
    <3> QED BY <1>1, <2>4, <3>3
  <2>6. \A j \in 1..Len(all) : \E i \in 1..Len(fitting) : all[j] = fitting[i]
    BY <1>1, <2>2, <2>4 DEF Range
  <2>7. \A j \in 1..Len(all) : all[j] <= own /\ \E i \in 1..Len(widths) : all[j] = widths[i]
    BY <1>1, <2>6 DEF Picked
  <2>8. (\A i \in DOMAIN widths : widths[i] % 2 = 0) => \A j \in 1..Len(all) : all[j] % 2 = 0
    BY <1>1, <2>7
  <2> QED BY <2>4, <2>5, <2>7, <2>8 DEF all
<1> QED BY <1>2, <1>3

\* A ladder is its rungs, and perhaps one form more.
Topped(ladder, rungs, n, last) ==
    /\ n \in Nat /\ (Len(ladder) = n \/ Len(ladder) = n + 1) /\ DOMAIN ladder = 1..Len(ladder)
    /\ \A i \in 1..n : ladder[i] = rungs[i]
    /\ Len(ladder) = n + 1 => ladder[n + 1] = last

LEMMA ToppedBy ==
    ASSUME NEW T, NEW n \in Nat, NEW rungs \in [1..n -> T], NEW last \in T, NEW more \in BOOLEAN
    PROVE  LET ladder == rungs \o (IF more THEN <<last>> ELSE <<>>) IN
           Topped(ladder, rungs, n, last) /\ Len(ladder) = IF more THEN n + 1 ELSE n
<1>1. rungs \in Seq(T) /\ Len(rungs) = n
  OBVIOUS
<1>2. CASE more
  <2>1. <<last>> \in Seq(T) /\ Len(<<last>>) = 1
    OBVIOUS
  <2> DEFINE ladder == Append(rungs, last)
  <2>2. rungs \o <<last>> = ladder
    BY <1>1, AppendIsConcat
  <2>3. /\ ladder \in Seq(T) /\ Len(ladder) = n + 1 /\ \A i \in 1..n : ladder[i] = rungs[i]
        /\ ladder[n + 1] = last
    BY <1>1
  <2> HIDE DEF ladder
  <2>4. DOMAIN ladder = 1..Len(ladder)
    BY <2>3
  <2> QED BY <1>2, <2>2, <2>3, <2>4 DEF Topped
<1>3. CASE ~more
  <2>1. rungs \o <<>> = rungs
    BY <1>1, ConcatEmptySeq
  <2> QED BY <1>1, <1>3, <2>1 DEF Topped
<1> QED BY <1>2, <1>3

\* A video's rungs are of the widths that fit, and the poster comes after them.
LEMMA VideoFits ==
    ASSUME NEW s \in Sources, Sized(s), s.type = "video", NEW w \in Setups, w.ffmpeg
    PROVE  LadderFitsSource(s, Ladder(s, w), w)
<1> DEFINE fitting == WidthsFor(s.width, w.videoWidths)
           n == Len(fitting)
           rungs == [i \in 1..n |-> Encoded(s, fitting[i])]
           d == Displayed(s)
           last == IF w.poster > 0 THEN Still("poster", d, w.poster)
                   ELSE Form("poster", d.width, d.height)
           ladder == Ladder(s, w)
<1>1. /\ fitting \in Lists /\ n \in Nat /\ DOMAIN fitting = 1..n
      /\ s.width > 1 => n > 0
      /\ \A j \in 1..n : fitting[j] \in Sizes /\ fitting[j] <= s.width
      /\ \A i, j \in 1..n : i < j => fitting[i] <= fitting[j]
      /\ (\A i \in DOMAIN w.videoWidths : w.videoWidths[i] % 2 = 0)
            => \A j \in 1..n : fitting[j] % 2 = 0
  <2>1. s.width \in Sizes /\ w.videoWidths \in Lists
    BY DEF Sized, Setups
  <2>2. /\ fitting \in Lists
        /\ s.width > 1 => n > 0
        /\ \A j \in 1..n : fitting[j] <= s.width
        /\ (\A i \in DOMAIN w.videoWidths : w.videoWidths[i] % 2 = 0)
              => \A j \in 1..n : fitting[j] % 2 = 0
    BY <2>1, WidthsForPicks
  <2> HIDE DEF fitting
  <2>3. fitting \in Seq(Sizes) /\ \A i, j \in 1..n : i < j => fitting[i] <= fitting[j]
    BY <2>2 DEF Lists, IsSorted
  <2> QED BY <2>2, <2>3, LenProperties
<1>0. d \in Sources /\ Sized(d) /\ (~s.turned => d = s)
  BY DEF Displayed, Sources, Sized, Sizes
<1> HIDE DEF fitting, n, d
<1>2. /\ s.width \in Int /\ s.height \in Int /\ s.width > 0 /\ s.height > 0
      /\ d.width \in Int /\ d.height \in Int /\ d.width > 0 /\ d.height > 0
      /\ w.poster \in Int
  BY <1>0 DEF Sized, Sizes, Setups
<1>3. \A i \in 1..n :
        /\ rungs[i].kind = "size" /\ rungs[i].width = fitting[i] /\ rungs[i].height \in Sizes
        /\ rungs[i].height <= s.height \/ rungs[i].height = 2
        /\ rungs[i].height % 2 = 0
        /\ rungs[i].height > 2 =>
              /\ 0 <= s.height * fitting[i] - s.width * rungs[i].height
              /\ s.height * fitting[i] - s.width * rungs[i].height < 2 * s.width
  BY <1>1, EncodedFits
<1>4. /\ last.kind = "poster" /\ last.width \in Int /\ last.height \in Int
      /\ last.width <= d.width /\ last.height <= d.height
  <2>1. CASE w.poster > 0
    <3> DEFINE v == IF w.poster <= 0 \/ w.poster > d.width THEN d.width ELSE w.poster
    <3>1. v \in Sizes /\ v <= d.width
      BY <1>2, <2>1 DEF Sizes
    <3>2. last = Rendered("poster", d, v)
      BY <2>1 DEF Still
    <3> HIDE DEF v, last
    <3>3. /\ last.kind = "poster" /\ last.width = v /\ last.height \in Sizes /\ last.height <= d.height
      BY <1>0, <3>1, <3>2, RenderedFits
    <3>4. last.width \in Int /\ last.height \in Int /\ v <= d.width
      BY <3>1, <3>3 DEF Sizes
    <3> QED BY <3>3, <3>4
  <2>2. CASE ~(w.poster > 0)
    <3>1. last.kind = "poster" /\ last.width = d.width /\ last.height = d.height
      BY <2>2 DEF Form
    <3> HIDE DEF last
    <3> QED BY <1>2, <3>1
  <2> QED BY <2>1, <2>2
<1>5. Topped(ladder, rungs, n, last)
  <2>1. ladder = rungs \o (IF w.poster > 0 THEN <<last>> ELSE <<>>)
    <3>1. ladder = VideoLadder(s, w.videoWidths, w.poster)
      BY SMT DEF Ladder, ImageSupported, VideoSupported, ModelSupported
    <3> QED BY <1>1, <3>1 DEF VideoLadder, fitting, d
  <2> DEFINE all == {rungs[i] : i \in 1..n} \cup {last}
  <2>2. rungs \in [1..n -> all] /\ last \in all
    OBVIOUS
  <2> HIDE DEF rungs, last, ladder, all
  <2> QED BY <1>1, <2>1, <2>2, ToppedBy
<1> HIDE DEF rungs, last, ladder
<1>6. \A i \in DOMAIN ladder : \/ i \in 1..n /\ ladder[i] = rungs[i]
                               \/ i = n + 1 /\ Len(ladder) = n + 1 /\ ladder[i] = last
  <2>1. n \in Nat
    BY <1>1
  <2>2. /\ DOMAIN ladder = 1..Len(ladder) /\ (Len(ladder) = n \/ Len(ladder) = n + 1)
        /\ \A i \in 1..n : ladder[i] = rungs[i]
        /\ Len(ladder) = n + 1 => ladder[n + 1] = last
    BY <1>5 DEF Topped
  <2> SUFFICES ASSUME NEW i \in DOMAIN ladder
               PROVE  \/ i \in 1..n /\ ladder[i] = rungs[i]
                      \/ i = n + 1 /\ Len(ladder) = n + 1 /\ ladder[i] = last
    OBVIOUS
  <2>3. i \in 1..n \/ (i = n + 1 /\ Len(ladder) = n + 1)
    <3> DEFINE m == Len(ladder)
    <3>1. i \in 1..m /\ (m = n \/ m = n + 1)
      BY <2>2
    <3> HIDE DEF m
    <3>2. i \in 1..n \/ (i = n + 1 /\ m = n + 1)
      BY <2>1, <3>1
    <3> QED BY <3>2 DEF m
  <2> QED BY <2>2, <2>3
<1>7. NeverUpscaled(s, ladder)
  <2>1. Max({2, d.height}) >= 2 /\ Max({2, d.height}) >= d.height /\ Max({2, d.height}) \in Int
    BY <1>2, Larger
  <2> SUFFICES ASSUME NEW i \in DOMAIN ladder, Measured(s, ladder[i])
               PROVE  ladder[i].width <= d.width /\ ladder[i].height <= Max({2, d.height})
    BY DEF NeverUpscaled, ImageSupported, d
  <2>2. CASE i \in 1..n /\ ladder[i] = rungs[i]
    <3>1. d = s
      BY <1>0, <1>3, <2>2 DEF Measured
    <3>2. ladder[i].width <= d.width
      BY <1>1, <1>3, <2>2, <3>1
    <3>3. rungs[i].height <= d.height \/ rungs[i].height = 2
      BY <1>3, <2>2, <3>1
    <3>4. ladder[i].height <= Max({2, d.height})
      <4>1. rungs[i].height \in Nat
        BY <1>3, <2>2 DEF Sizes
      <4> QED BY <1>2, <2>1, <2>2, <3>3, <4>1
    <3> QED BY <3>2, <3>4
  <2>3. CASE ladder[i] = last
    BY <1>2, <1>4, <2>1, <2>3
  <2> QED BY <1>6, <2>2, <2>3
<1>8. ShapeKept(s, ladder)
  BY <1>3, <1>4, <1>6 DEF ShapeKept
<1>9. EvenUnlessConfigured(s, ladder, w.videoWidths)
  BY <1>1, <1>3, <1>4, <1>6 DEF EvenUnlessConfigured
<1>10. SmallestFirst(ladder)
  <2> SUFFICES ASSUME NEW i \in DOMAIN ladder, NEW j \in DOMAIN ladder, i < j
               PROVE  /\ ladder[i].kind \notin {"full", "poster"}
                      /\ ladder[j].kind \in {"size", "full"} => ladder[i].width <= ladder[j].width
    BY DEF SmallestFirst
  <2>1. i \in 1..n /\ ladder[i] = rungs[i] /\ i \in Int /\ j \in Int
    <3>1. (i \in 1..n \/ i = n + 1) /\ (j \in 1..n \/ j = n + 1)
      BY <1>6
    <3>2. i \in 1..n /\ i \in Int /\ j \in Int
      BY <1>1, <3>1
    <3>3. \A k \in 1..n : ladder[k] = rungs[k]
      BY <1>5 DEF Topped
    <3> QED BY <3>2, <3>3
  <2>2. CASE j \in 1..n /\ ladder[j] = rungs[j]
    BY <1>1, <1>3, <2>1, <2>2
  <2>3. CASE ladder[j] = last
    BY <1>3, <1>4, <2>1, <2>3
  <2> QED BY <1>6, <2>2, <2>3
<1>11. SomethingToPublish(s, ladder, w)
  <2> SUFFICES ASSUME s.width > 1 PROVE \E i \in DOMAIN ladder : ladder[i].kind = "size"
    BY DEF SomethingToPublish
  <2>1. 1 \in 1..n
    BY <1>1, <1>2
  <2>2. 1 \in DOMAIN ladder /\ ladder[1] = rungs[1]
    <3>0. n \in Nat /\ n >= 1
      BY <1>1, <2>1
    <3>1. (Len(ladder) = n \/ Len(ladder) = n + 1) /\ DOMAIN ladder = 1..Len(ladder)
      BY <1>5 DEF Topped
    <3>2. 1 \in 1..Len(ladder)
      <4> DEFINE m == Len(ladder)
      <4>1. m = n \/ m = n + 1
        BY <3>1
      <4> HIDE DEF m
      <4>2. 1 \in 1..m
        BY <3>0, <4>1
      <4> QED BY <4>2 DEF m
    <3>3. \A i \in 1..n : ladder[i] = rungs[i]
      BY <1>5 DEF Topped
    <3> QED BY <2>1, <3>1, <3>2, <3>3
  <2> QED BY <1>3, <2>1, <2>2
<1>12. ReportedUnlessSkipped(s, ladder, w.skip)
  BY DEF ReportedUnlessSkipped
<1>13. Supported(s.type, w.ffmpeg)
  BY DEF Supported, VideoSupported
<1> QED BY <1>7, <1>8, <1>9, <1>10, <1>11, <1>12, <1>13 DEF LadderFitsSource, ladder

\* An image's rungs are narrower than it, and what is published in full is last.
LEMMA ImageFits ==
    ASSUME NEW s \in Sources, Sized(s), ImageSupported(s.type), ~s.turned, NEW w \in Setups
    PROVE  LadderFitsSource(s, Ladder(s, w), w)
<1> DEFINE fitting == UpTo(s.width - 1, w.widths)
           n == Len(fitting)
           rungs == [i \in 1..n |-> Rendered("size", s, fitting[i])]
           last == Form("full", s.width, s.height)
           ladder == Ladder(s, w)
<1>1. /\ s.width \in Int /\ s.height \in Int /\ s.width > 0 /\ s.height > 0
      /\ w.widths \in Lists
  BY DEF Sized, Sizes, Setups
<1>2. /\ fitting \in Seq(Sizes) /\ n \in Nat /\ DOMAIN fitting = 1..n
      /\ \A j \in 1..n : fitting[j] \in Sizes /\ fitting[j] < s.width
      /\ \A i, j \in 1..n : i < j => fitting[i] <= fitting[j]
  <2>1. Picked(s.width - 1, w.widths, fitting)
    BY <1>1, UpToPicks
  <2> HIDE DEF fitting
  <2>2. fitting \in Seq(Sizes) /\ n \in Nat /\ DOMAIN fitting = 1..n
    BY <2>1, LenProperties DEF Picked
  <2>3. \A j \in 1..n : fitting[j] \in Sizes /\ fitting[j] <= s.width - 1
    <3>1. \A j \in 1..n : fitting[j] \in Sizes
      BY <2>2
    <3>2. \A j \in 1..n : fitting[j] <= s.width - 1
      BY <2>1 DEF Picked
    <3> QED BY <3>1, <3>2
  <2>4. \A i, j \in 1..n : i < j => fitting[i] <= fitting[j]
    BY <2>1 DEF Picked, IsSorted
  <2>5. \A j \in 1..n : fitting[j] < s.width
    BY <1>1, <2>3 DEF Sizes
  <2> QED BY <2>2, <2>3, <2>4, <2>5
<1> HIDE DEF fitting, n
<1>3. \A i \in 1..n :
        /\ rungs[i].kind = "size" /\ rungs[i].width = fitting[i] /\ rungs[i].height \in Sizes
        /\ rungs[i].height <= s.height
        /\ rungs[i].height > 1 =>
              /\ 0 <= s.height * fitting[i] - s.width * rungs[i].height
              /\ s.height * fitting[i] - s.width * rungs[i].height < s.width
  <2> SUFFICES ASSUME NEW i \in 1..n
               PROVE  LET form == Rendered("size", s, fitting[i]) IN
                      /\ form.kind = "size" /\ form.width = fitting[i] /\ form.height \in Sizes
                      /\ form.height <= s.height
                      /\ form.height > 1 =>
                            /\ 0 <= s.height * fitting[i] - s.width * form.height
                            /\ s.height * fitting[i] - s.width * form.height < s.width
    OBVIOUS
  <2>1. fitting[i] \in Sizes /\ fitting[i] <= s.width
    BY <1>1, <1>2 DEF Sizes
  <2> QED BY <2>1, RenderedFits
<1>4. last.kind = "full" /\ last.width = s.width /\ last.height = s.height
  BY DEF Form
<1>5. /\ Topped(ladder, rungs, n, last)
      /\ Publishable(s.type) => Len(ladder) = n + 1
  <2> DEFINE all == {rungs[i] : i \in 1..n} \cup {last}
  <2>1. ladder = rungs \o (IF Publishable(s.type) THEN <<last>> ELSE <<>>)
    <3>1. ladder = ImageLadder(s, w.widths)
      BY SMT DEF Ladder, ImageSupported, VideoSupported, ModelSupported
    <3> QED BY <1>2, <3>1 DEF ImageLadder, Rungs, fitting
  <2>2. rungs \in [1..n -> all] /\ last \in all
    OBVIOUS
  <2>3. Publishable(s.type) \in BOOLEAN
    BY DEF Publishable
  <2> HIDE DEF rungs, last, ladder, all
  <2> QED BY <1>2, <2>1, <2>2, <2>3, ToppedBy
<1> HIDE DEF rungs, last, ladder
<1>6. \A i \in DOMAIN ladder : \/ i \in 1..n /\ ladder[i] = rungs[i]
                               \/ i = n + 1 /\ Len(ladder) = n + 1 /\ ladder[i] = last
  <2>1. n \in Nat
    BY <1>2
  <2>2. /\ DOMAIN ladder = 1..Len(ladder) /\ (Len(ladder) = n \/ Len(ladder) = n + 1)
        /\ \A i \in 1..n : ladder[i] = rungs[i]
        /\ Len(ladder) = n + 1 => ladder[n + 1] = last
    BY <1>5 DEF Topped
  <2> SUFFICES ASSUME NEW i \in DOMAIN ladder
               PROVE  \/ i \in 1..n /\ ladder[i] = rungs[i]
                      \/ i = n + 1 /\ Len(ladder) = n + 1 /\ ladder[i] = last
    OBVIOUS
  <2>3. i \in 1..n \/ (i = n + 1 /\ Len(ladder) = n + 1)
    <3> DEFINE m == Len(ladder)
    <3>1. i \in 1..m /\ (m = n \/ m = n + 1)
      BY <2>2
    <3> HIDE DEF m
    <3>2. i \in 1..n \/ (i = n + 1 /\ m = n + 1)
      BY <2>1, <3>1
    <3> QED BY <3>2 DEF m
  <2> QED BY <2>2, <2>3
<1>7. NeverUpscaled(s, ladder)
  <2>1. Max({2, s.height}) >= 2 /\ Max({2, s.height}) >= s.height /\ Max({2, s.height}) \in Int
    BY <1>1, Larger
  <2> SUFFICES ASSUME NEW i \in DOMAIN ladder
               PROVE  /\ ladder[i].width <= s.width /\ ladder[i].height <= Max({2, s.height})
                      /\ ladder[i].kind = "size" => ladder[i].width < s.width
    BY DEF NeverUpscaled, Displayed
  <2>2. CASE i \in 1..n /\ ladder[i] = rungs[i]
    BY <1>1, <1>2, <1>3, <2>1, <2>2 DEF Sizes
  <2>3. CASE ladder[i] = last
    BY <1>1, <1>4, <2>1, <2>3
  <2> QED BY <1>6, <2>2, <2>3
<1>8. s.type # "video" /\ s.type # "stl"
  BY DEF ImageSupported
<1>9. ShapeKept(s, ladder)
  <2> SUFFICES ASSUME NEW i \in DOMAIN ladder, ladder[i].kind = "size", ladder[i].height > 1
               PROVE  LET off == s.height * ladder[i].width - s.width * ladder[i].height
                      IN  0 <= off /\ off < 1 * s.width
    BY <1>8 DEF ShapeKept
  <2>1. i \in 1..n /\ ladder[i] = rungs[i]
    BY <1>4, <1>6
  <2> QED BY <1>1, <1>3, <2>1
<1>10. EvenUnlessConfigured(s, ladder, w.videoWidths)
  BY <1>8 DEF EvenUnlessConfigured
<1>11. SmallestFirst(ladder)
  <2> SUFFICES ASSUME NEW i \in DOMAIN ladder, NEW j \in DOMAIN ladder, i < j
               PROVE  /\ ladder[i].kind \notin {"full", "poster"}
                      /\ ladder[j].kind \in {"size", "full"} => ladder[i].width <= ladder[j].width
    BY DEF SmallestFirst
  <2>1. i \in 1..n /\ ladder[i] = rungs[i] /\ i \in Int /\ j \in Int
    <3>1. (i \in 1..n \/ i = n + 1) /\ (j \in 1..n \/ j = n + 1)
      BY <1>6
    <3>2. i \in 1..n /\ i \in Int /\ j \in Int
      BY <1>2, <3>1
    <3>3. \A k \in 1..n : ladder[k] = rungs[k]
      BY <1>5 DEF Topped
    <3> QED BY <3>2, <3>3
  <2>2. CASE j \in 1..n /\ ladder[j] = rungs[j]
    BY <1>2, <1>3, <2>1, <2>2
  <2>3. CASE ladder[j] = last
    <3>1. fitting[i] <= s.width
      BY <1>1, <1>2, <2>1 DEF Sizes
    <3> QED BY <1>3, <1>4, <2>1, <2>3, <3>1
  <2> QED BY <1>6, <2>2, <2>3
<1>12. SomethingToPublish(s, ladder, w)
  <2> SUFFICES ASSUME Publishable(s.type) PROVE \E i \in DOMAIN ladder : ladder[i].kind = "full"
    BY <1>8 DEF SomethingToPublish, WithholdsOriginal, VideoSupported
  <2>1. DOMAIN ladder = 1..Len(ladder) /\ Len(ladder) = n + 1 /\ ladder[n + 1] = last
    BY <1>5 DEF Topped
  <2>2. n + 1 \in DOMAIN ladder
    BY <1>2, <2>1
  <2> QED BY <1>4, <2>1, <2>2
<1>13. ReportedUnlessSkipped(s, ladder, w.skip)
  BY <1>8 DEF ReportedUnlessSkipped
<1>14. Supported(s.type, w.ffmpeg)
  BY DEF Supported
<1> QED BY <1>7, <1>9, <1>10, <1>11, <1>12, <1>13, <1>14 DEF LadderFitsSource, ladder

\* Short sequences, joined.
LEMMA Joining ==
    ASSUME NEW x, NEW y, NEW z
    PROVE  /\ <<x>> \o <<>> = <<x>> /\ <<x, y>> \o <<>> = <<x, y>>
           /\ <<x>> \o <<y>> = <<x, y>> /\ <<x, y>> \o <<z>> = <<x, y, z>>
<1>1. <<x>> \in Seq({x, y, z}) /\ <<x, y>> \in Seq({x, y, z})
  OBVIOUS
<1>2. <<x>> \o <<>> = <<x>> /\ <<x, y>> \o <<>> = <<x, y>>
  BY <1>1, ConcatEmptySeq
<1>3. <<x>> \o <<y>> = <<x, y>>
  <2> DEFINE S == {x, y, z}
             one == <<x>>
             other == <<y>>
             both == <<x, y>>
  <2>1. one \in Seq(S) /\ Len(one) = 1 /\ one[1] = x /\ other \in Seq(S) /\ Len(other) = 1 /\ other[1] = y
    OBVIOUS
  <2>2. both \in Seq(S) /\ Len(both) = 2 /\ both[1] = x /\ both[2] = y
    OBVIOUS
  <2> HIDE DEF S, one, other, both
  <2>3. /\ one \o other \in Seq(S) /\ Len(one \o other) = 2
        /\ (one \o other)[1] = x /\ (one \o other)[2] = y
    <3>1. /\ one \o other \in Seq(S) /\ Len(one \o other) = Len(one) + Len(other)
          /\ \A i \in 1..Len(one) + Len(other) :
                (one \o other)[i] = IF i <= Len(one) THEN one[i] ELSE other[i - Len(one)]
      BY <2>1, ConcatProperties
    <3> QED BY <2>1, <3>1
  <2>4. \A i \in 1..2 : (one \o other)[i] = both[i]
    <3>1. \A i \in 1..2 : i = 1 \/ i = 2
      OBVIOUS
    <3> QED BY <2>2, <2>3, <3>1
  <2>5. one \o other = both
    BY <2>2, <2>3, <2>4, SeqEqual
  <2> QED BY <2>5 DEF one, other, both
<1>4. <<x, y>> \o <<z>> = <<x, y, z>>
  <2> DEFINE S == {x, y, z}
             one == <<x, y>>
             other == <<z>>
             both == <<x, y, z>>
  <2>1. /\ one \in Seq(S) /\ Len(one) = 2 /\ one[1] = x /\ one[2] = y
        /\ other \in Seq(S) /\ Len(other) = 1 /\ other[1] = z
    OBVIOUS
  <2>2. both \in Seq(S) /\ Len(both) = 3 /\ both[1] = x /\ both[2] = y /\ both[3] = z
    OBVIOUS
  <2> HIDE DEF S, one, other, both
  <2>3. /\ one \o other \in Seq(S) /\ Len(one \o other) = 3
        /\ (one \o other)[1] = x /\ (one \o other)[2] = y /\ (one \o other)[3] = z
    <3>1. /\ one \o other \in Seq(S) /\ Len(one \o other) = Len(one) + Len(other)
          /\ \A i \in 1..Len(one) + Len(other) :
                (one \o other)[i] = IF i <= Len(one) THEN one[i] ELSE other[i - Len(one)]
      BY <2>1, ConcatProperties
    <3> QED BY <2>1, <3>1
  <2>4. \A i \in 1..3 : (one \o other)[i] = both[i]
    <3>1. \A i \in 1..3 : i = 1 \/ i = 2 \/ i = 3
      OBVIOUS
    <3> QED BY <2>2, <2>3, <3>1
  <2>5. one \o other = both
    BY <2>2, <2>3, <2>4, SeqEqual
  <2> QED BY <2>5 DEF one, other, both
<1> QED BY <1>2, <1>3, <1>4

\* A model's forms have no size to be compared; a render comes with a report.
LEMMA ModelFits ==
    ASSUME NEW s, s.type = "stl", NEW w, w.sliced \subseteq {"off", "on"}
    PROVE  LadderFitsSource(s, Ladder(s, w), w)
<1> DEFINE ladder == Ladder(s, w)
           r == Form("render", RenderSize, RenderSize)
           a == Form("slice", 0, 0)
           b == Form("slice-support", 0, 0)
<1>1. ladder = ModelLadder(w.skip, w.slicer, w.sliced)
  BY SMT DEF Ladder, ImageSupported, VideoSupported, ModelSupported
<1>2. r.kind = "render" /\ a.kind = "slice" /\ b.kind = "slice-support"
  BY DEF Form
<1>3. \/ ladder = <<>>
      \/ w.skip /\ ladder = <<r>>
      \/ ladder = <<r, a>> \/ ladder = <<r, b>> \/ ladder = <<r, a, b>>
  <2>1. CASE w.skip
    BY <1>1, <2>1 DEF ModelLadder
  <2>2. CASE ~w.skip /\ (~w.slicer \/ w.sliced = {})
    BY <1>1, <2>2 DEF ModelLadder
  <2>3. CASE ~w.skip /\ ~(~w.slicer \/ w.sliced = {})
    <3>1. ladder = <<r>> \o (IF "off" \in w.sliced THEN <<a>> ELSE <<>>)
                         \o (IF "on" \in w.sliced THEN <<b>> ELSE <<>>)
      BY <1>1, <2>3 DEF ModelLadder
    <3>2. "off" \in w.sliced \/ "on" \in w.sliced
      BY <2>3
    <3> HIDE DEF r, a, b, ladder
    <3>3. /\ <<r>> \o <<>> = <<r>> /\ <<r>> \o <<a>> = <<r, a>>
          /\ <<r>> \o <<b>> = <<r, b>> /\ <<r, a>> \o <<>> = <<r, a>>
          /\ <<r, a>> \o <<b>> = <<r, a, b>>
      BY Joining
    <3>4. CASE "off" \in w.sliced /\ "on" \in w.sliced
      BY <3>1, <3>3, <3>4, Zenon
    <3>5. CASE "off" \in w.sliced /\ "on" \notin w.sliced
      BY <3>1, <3>3, <3>5, Zenon
    <3>6. CASE "off" \notin w.sliced /\ "on" \in w.sliced
      BY <3>1, <3>3, <3>6, Zenon
    <3> QED BY <3>2, <3>4, <3>5, <3>6
  <2> QED BY <2>1, <2>2, <2>3
<1> HIDE DEF r, a, b, ladder
<1>4. \A i \in DOMAIN ladder : ladder[i].kind \in {"render", "slice", "slice-support"}
  <2>1. CASE ladder = <<>>
    BY <2>1
  <2>2. CASE ladder = <<r>>
    BY <1>2, <2>2
  <2>3. CASE ladder = <<r, a>>
    BY <1>2, <2>3
  <2>4. CASE ladder = <<r, b>>
    BY <1>2, <2>4
  <2>5. CASE ladder = <<r, a, b>>
    BY <1>2, <2>5
  <2> QED BY <1>3, <2>1, <2>2, <2>3, <2>4, <2>5
<1>5. ladder # <<>> /\ ~w.skip => Len(ladder) > 1
  BY <1>3
<1>6. NeverUpscaled(s, ladder) /\ ShapeKept(s, ladder) /\ SmallestFirst(ladder)
  BY <1>4 DEF NeverUpscaled, ShapeKept, SmallestFirst
<1>7. /\ EvenUnlessConfigured(s, ladder, w.videoWidths)
      /\ SomethingToPublish(s, ladder, w)
      /\ Supported(s.type, w.ffmpeg)
  BY DEF EvenUnlessConfigured, SomethingToPublish, WithholdsOriginal, Publishable,
         VideoSupported, Supported, ModelSupported
<1>8. ReportedUnlessSkipped(s, ladder, w.skip)
  BY <1>5 DEF ReportedUnlessSkipped
<1> QED BY <1>6, <1>7, <1>8 DEF LadderFitsSource, ladder

\* What is of no type that has forms has none, and nothing of it is withheld.
LEMMA OthersHaveNone ==
    ASSUME NEW s, NEW w,
           \/ s.type = "gif"
           \/ s.type = "video" /\ ~w.ffmpeg
    PROVE  LadderFitsSource(s, Ladder(s, w), w)
<1>1. Ladder(s, w) = <<>>
  <2>1. CASE s.type = "gif"
    BY <2>1, SMT DEF Ladder, ImageSupported, VideoSupported, ModelSupported
  <2>2. CASE s.type = "video" /\ ~w.ffmpeg
    BY <2>2, SMT DEF Ladder, ImageSupported, VideoSupported, ModelSupported
  <2> QED BY <2>1, <2>2
<1> DEFINE ladder == Ladder(s, w)
<1>2. DOMAIN ladder = {}
  BY <1>1
<1> HIDE DEF ladder
<1>3. WithholdsOriginal(s.type, w.serverFfmpeg) => w.serverFfmpeg /\ ~w.ffmpeg
  BY DEF WithholdsOriginal, Publishable, VideoSupported
<1>4. /\ NeverUpscaled(s, ladder) /\ ShapeKept(s, ladder) /\ SmallestFirst(ladder)
      /\ EvenUnlessConfigured(s, ladder, w.videoWidths)
      /\ SomethingToPublish(s, ladder, w)
      /\ ReportedUnlessSkipped(s, ladder, w.skip)
  BY <1>2, <1>3 DEF NeverUpscaled, ShapeKept, SmallestFirst, EvenUnlessConfigured,
                    SomethingToPublish, ReportedUnlessSkipped
<1> QED BY <1>1, <1>4 DEF LadderFitsSource, ladder

\* Whatever is asked for, and however the service is set up.
LEMMA EveryLadderFits ==
    ASSUME NEW s \in Sources, NEW w \in Setups, s.type = "stl" \/ Sized(s),
           s.turned => s.type = "video"
    PROVE  LadderFitsSource(s, Ladder(s, w), w)
<1>1. CASE s.type = "stl"
  <2>1. w.sliced \subseteq {"off", "on"}
    BY DEF Setups
  <2> QED BY <1>1, <2>1, ModelFits
<1>2. CASE Sized(s) /\ ImageSupported(s.type)
  BY <1>2, ImageFits DEF ImageSupported
<1>3. CASE Sized(s) /\ s.type = "video" /\ w.ffmpeg
  BY <1>3, VideoFits
<1>4. CASE s.type = "gif" \/ (s.type = "video" /\ ~w.ffmpeg)
  BY <1>4, OthersHaveNone
<1>5. s.type \in Types
  BY DEF Sources
<1> QED BY <1>1, <1>2, <1>3, <1>4, <1>5 DEF Types, ImageSupported

\* The service is set up with widths in order, each more than nothing.
Asked ==
    /\ source \in Sources /\ with \in Setups
    /\ source.type = "stl" \/ Sized(source)
    /\ source.turned => source.type = "video"

\* The lists that are configured are in order.
LEMMA ConfiguredIs == Configured \subseteq Lists
<1> SUFFICES ASSUME NEW widths \in Configured PROVE widths \in Lists
  OBVIOUS
<1>1. IsSorted(widths, <=) /\ widths \in SeqOf(Widths, MaxWidths)
  BY DEF Configured
<1>2. PICK m \in 0..MaxWidths : widths \in [1..m -> Widths]
  BY <1>1 DEF SeqOf
<1>3. m \in Nat /\ Widths \subseteq Sizes
  BY FormsAssumption DEF Sizes
<1>4. widths \in Seq(Sizes)
  BY <1>2, <1>3
<1> QED BY <1>1, <1>4 DEF Lists

\* Before anything is asked for, nothing is out of the ordinary.
LEMMA PlainlyAsked ==
    /\ NoSource \in Sources /\ Sized(NoSource) /\ ~NoSource.turned
    /\ Plainest \in Setups
<1>1. <<>> \in Lists
  BY DEF Lists, IsSorted
<1> QED BY <1>1 DEF NoSource, Plainest, Sources, Setups, Sized, Sizes, Types

\* Every ladder fits its source: for every size of a source, and for every list
\* of widths the service may be configured with.  The encodes of a video that is
\* stored on its side are not measured, and what a machine without ffmpeg leaves
\* unpublished for a server that has it is excepted.
THEOREM LaddersFit == Spec => []LadderFits
<1>1. Init => Asked
  BY PlainlyAsked DEF Init, Asked
<1>2. Asked /\ [Next]_vars => Asked'
  <2> SUFFICES ASSUME Asked, [Next]_vars PROVE Asked'
    OBVIOUS
  <2>1. CASE AskForLadder
    <3>1. Plainest \in Setups /\ Configured \subseteq Lists
      BY PlainlyAsked, ConfiguredIs
    <3>2. CASE AskForImage
      <4>1. PICK type \in Types \ {"video", "stl"}, w, h \in 1..MaxSize :
               source' = [type |-> type, width |-> w, height |-> h, turned |-> FALSE]
        BY <3>2 DEF AskForImage
      <4>2. PICK widths \in Configured : with' = [Plainest EXCEPT !.widths = widths]
        BY <3>2 DEF AskForImage
      <4>3. source' \in Sources /\ Sized(source)' /\ ~source'.turned
        BY <4>1, FormsAssumption DEF Sources, Sized, Sizes
      <4>4. with' \in Setups
        BY <3>1, <4>2 DEF Setups
      <4> QED BY <4>3, <4>4 DEF Asked
    <3>3. CASE AskForVideo
      <4>1. PICK w, h \in 1..MaxSize, turned \in BOOLEAN :
               source' = [type |-> "video", width |-> w, height |-> h, turned |-> turned]
        BY <3>3 DEF AskForVideo
      <4>2. PICK widths \in Configured, poster \in Posters, ffmpeg, server \in BOOLEAN :
               with' = [Plainest EXCEPT !.videoWidths = widths, !.poster = poster,
                                        !.ffmpeg = ffmpeg, !.serverFfmpeg = server]
        BY <3>3 DEF AskForVideo
      <4>3. source' \in Sources /\ Sized(source)' /\ source'.type = "video"
        BY <4>1, FormsAssumption DEF Sources, Sized, Sizes, Types
      <4>4. with' \in Setups
        <5>1. poster \in Int /\ widths \in Lists
          BY <3>1 DEF Posters
        <5> QED BY <3>1, <4>2, <5>1 DEF Setups
      <4> QED BY <4>3, <4>4 DEF Asked
    <3>4. CASE AskForModel
      <4>1. source' = [type |-> "stl", width |-> 0, height |-> 0, turned |-> FALSE]
        BY <3>4 DEF AskForModel
      <4>2. PICK skip \in BOOLEAN, slicer \in BOOLEAN, sliced \in SUBSET {"off", "on"} :
               with' = [Plainest EXCEPT !.skip = skip, !.slicer = slicer, !.sliced = sliced]
        BY <3>4 DEF AskForModel
      <4>3. source' \in Sources /\ source'.type = "stl" /\ ~source'.turned
        BY <4>1 DEF Sources, Types
      <4>4. with' \in Setups
        BY <3>1, <4>2 DEF Setups
      <4> QED BY <4>3, <4>4 DEF Asked
    <3> QED BY <2>1, <3>2, <3>3, <3>4 DEF AskForLadder
  <2>2. CASE AddSegment \/ AddChunk \/ ChangePicture \/ UNCHANGED vars
    BY <2>2 DEF AddSegment, AddChunk, ChangePicture, vars, Asked, Sized
  <2> QED BY <2>1, <2>2 DEF Next
<1>3. Asked => LadderFits
  BY EveryLadderFits DEF Asked, LadderFits
<1> QED BY <1>1, <1>2, <1>3, PTL DEF Spec
=============================================================================
