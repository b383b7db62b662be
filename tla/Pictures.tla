------------------------------ MODULE Pictures ------------------------------
(***************************************************************************)
(* The publishable copy of an image (internal/imaging/strip.go) and which  *)
(* way up it is looked at (internal/imaging/orientation.go).               *)
(*                                                                         *)
(* A JPEG is the sequence of its segments, a PNG that of its chunks.  A    *)
(* segment is what the walks tell apart: its kind, and of an EXIF segment  *)
(* the entries of its first directory and whether it holds anything else.  *)
(* Neither walk reads past the first scan, after which more segments may   *)
(* come: other scans, or another whole picture with notes of its own.      *)
(***************************************************************************)
EXTENDS Integers, SequencesExt

Upright == 1
Orientations == 1..8

\* An entry of a directory: `Cut' runs past the segment, `Other' is another tag,
\* and any other number is the value of an orientation tag.
Cut == -1
Other == 0

\* Kinds: an EXIF APP1; what the picture needs (JFIF, ICC, Adobe's APP14, tables
\* and frame headers); any other APPn or comment, a note; a marker that stands
\* alone, and the one of them that says the picture ends; a scan; fill bytes
\* before a marker; and bytes that are no segment.
Kinds == {"exif", "needed", "note", "alone", "eoi", "scan", "fill", "stray"}

\* A PNG's: the profile of its colours and its pixels, which a decoder needs; a
\* note (eXIf, tEXt, iTXt, zTXt, tIME); and the end.
Chunks == {"colour", "pixels", "note", "end"}

Plain(kind) == [kind |-> kind, ifd |-> <<>>, more |-> FALSE]
Exif(ifd, more) == [kind |-> "exif", ifd |-> ifd, more |-> more]

FirstOf(s, Test(_)) == Min({i \in DOMAIN s : Test(s[i])} \cup {Len(s) + 1})

\* The segments before the first scan, and that scan with all that follows.
BeforeScan(file) == SubSeq(file, 1, FirstOf(file, LAMBDA segment : segment.kind = "scan") - 1)
FromScan(file) ==
    SubSeq(file, FirstOf(file, LAMBDA segment : segment.kind = "scan"), Len(file))

-----------------------------------------------------------------------------
(* orientation.go.                                                         *)

\* The first orientation tag decides, whatever its value.
TagInIFD0(ifd) ==
    LET i == FirstOf(ifd, LAMBDA entry : entry # Other) IN
    IF i \in DOMAIN ifd /\ ifd[i] \in Orientations THEN ifd[i] ELSE Upright

\* The first EXIF segment decides, unless the walk ends before it: at a scan, at
\* the end of the picture, or at bytes that are no segment.
Orientation(file) ==
    LET i == FirstOf(file, LAMBDA segment : segment.kind \in {"exif", "stray", "scan", "eoi"}) IN
    IF i \in DOMAIN file /\ file[i].kind = "exif" THEN TagInIFD0(file[i].ifd) ELSE Upright

SwapsAxes(o) == o \in 5..8

Size(o, w, h) == IF SwapsAxes(o) THEN <<h, w>> ELSE <<w, h>>

UprightSize(file, w, h) == Size(Orientation(file), w, h)

\* A bug: the two quarter turns are exchanged.
TurnedTheOtherWay(o, w, h, x, y) ==
    CASE o = 2 -> <<w - 1 - x, y>>
      [] o = 3 -> <<w - 1 - x, h - 1 - y>>
      [] o = 4 -> <<x, h - 1 - y>>
      [] o = 5 -> <<y, x>>
      [] o = 6 -> <<y, w - 1 - x>>
      [] o = 7 -> <<h - 1 - y, w - 1 - x>>
      [] o = 8 -> <<h - 1 - y, x>>
      [] OTHER -> <<x, y>>

\* Where orient puts the pixel at <<x, y>> of a stored picture of w by h.
Turned(o, w, h, x, y) ==
    CASE o = 2 -> <<w - 1 - x, y>>
      [] o = 3 -> <<w - 1 - x, h - 1 - y>>
      [] o = 4 -> <<x, h - 1 - y>>
      [] o = 5 -> <<y, x>>
      [] o = 6 -> <<h - 1 - y, x>>
      [] o = 7 -> <<h - 1 - y, w - 1 - x>>
      [] o = 8 -> <<y, w - 1 - x>>
      [] OTHER -> <<x, y>>

-----------------------------------------------------------------------------
(* strip.go.                                                               *)

OrientationSegment(o) == Exif(<<o>>, FALSE)

\* A bug: an EXIF segment goes whole, the way up of the picture with it.
KeptWithoutTag(segment) ==
    IF segment.kind \in {"exif", "note", "fill"} THEN <<>> ELSE <<segment>>

\* What stripJPEG copies of one segment.  The end of the picture is one more
\* marker that stands alone here, and the walk goes on after it.
Kept(segment) ==
    CASE segment.kind = "exif" ->
            LET o == TagInIFD0(segment.ifd) IN
            IF o > Upright THEN <<OrientationSegment(o)>> ELSE <<>>
      [] segment.kind \in {"note", "fill"} -> <<>>
      [] OTHER -> <<segment>>

Walkable(front) == \A i \in DOMAIN front : front[i].kind # "stray"

\* Bytes that do not walk as a JPEG are returned as they came, and so is all that
\* comes from the first scan on.
StripJPEG(file) ==
    IF Walkable(BeforeScan(file))
    THEN FlattenSeq([i \in DOMAIN BeforeScan(file) |-> Kept(file[i])]) \o FromScan(file)
    ELSE file

\* The walk stops at the end, and what follows it is not copied.
StripPNG(chunks) ==
    FlattenSeq([i \in 1..FirstOf(chunks, LAMBDA chunk : chunk = "end") |->
                    IF chunks[i] = "note" THEN <<>> ELSE <<chunks[i]>>])

-----------------------------------------------------------------------------
(* Properties of one file and of one turn.                                 *)

HoldsNotes(segment) == segment.kind = "note" \/ segment.more
IsPicture(segment) == segment.kind \in {"needed", "alone", "eoi"}
Exifs(front) == {i \in DOMAIN front : front[i].kind = "exif"}

NotesGone(file) ==
    Walkable(BeforeScan(file)) =>
        \A i \in DOMAIN BeforeScan(StripJPEG(file)) : ~HoldsNotes(StripJPEG(file)[i])

PictureOf(front) ==
    FlattenSeq([i \in DOMAIN front |-> IF IsPicture(front[i]) THEN <<front[i]>> ELSE <<>>])

PictureStays(file) ==
    /\ PictureOf(BeforeScan(StripJPEG(file))) = PictureOf(BeforeScan(file))
    /\ FromScan(StripJPEG(file)) = FromScan(file)
    /\ Cardinality(Exifs(BeforeScan(file))) <= 1 => Orientation(StripJPEG(file)) = Orientation(file)

StrippedOnce(file) == StripJPEG(StripJPEG(file)) = StripJPEG(file)

\* Of the chunks before the end, what a decoder needs, in its order.
NeededOf(chunks) ==
    FlattenSeq([i \in 1..FirstOf(chunks, LAMBDA chunk : chunk = "end") - 1 |->
                    IF chunks[i] \in {"colour", "pixels"} THEN <<chunks[i]>> ELSE <<>>])

CleanPNG(chunks) ==
    LET copy == StripPNG(chunks) IN
    "end" \in Range(chunks) =>
        /\ "note" \notin Range(copy)
        /\ NeededOf(copy) = NeededOf(chunks)
        /\ StripPNG(copy) = copy
        /\ Last(copy) = "end"

\* How the EXIF standard says it: the side of the picture as it is looked at
\* where the first stored row, and the first stored column, are.
FirstRow == <<"top", "top", "bottom", "bottom", "left", "right", "right", "left">>
FirstColumn == <<"left", "right", "right", "left", "top", "top", "bottom", "bottom">>

Side(where, w, h, at) ==
    CASE where = "top"    -> at[2] = 0
      [] where = "bottom" -> at[2] = h - 1
      [] where = "left"   -> at[1] = 0
      [] where = "right"  -> at[1] = w - 1

TurnedAsTagged(o, w, h) ==
    LET size == Size(o, w, h)
        to   == [at \in (0..w - 1) \X (0..h - 1) |-> Turned(o, w, h, at[1], at[2])]
    IN  /\ {to[at] : at \in DOMAIN to} = (0..size[1] - 1) \X (0..size[2] - 1)
        /\ \A x \in 0..w - 1 : Side(FirstRow[o], size[1], size[2], to[<<x, 0>>])
        /\ \A y \in 0..h - 1 : Side(FirstColumn[o], size[1], size[2], to[<<0, y>>])
=============================================================================
