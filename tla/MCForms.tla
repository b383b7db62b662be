------------------------------- MODULE MCForms ------------------------------
(***************************************************************************)
(* The pure parts of what makes derived forms, on every small input: a     *)
(* behaviour grows one JPEG, one PNG or one picture to be turned, or asks  *)
(* for one ladder, and the properties look at what the code makes of it.   *)
(***************************************************************************)
EXTENDS Pictures, Ladders

CONSTANTS MaxSegments, \* segments of a JPEG
          MaxChunks,   \* chunks of a PNG
          MaxSide,     \* pixels along a side of a picture that is turned
          MaxSize,     \* width and height of what gets a ladder
          Widths,      \* widths that may be configured
          MaxWidths    \* how many are

ASSUME FormsAssumption ==
    /\ MaxSide \in Nat /\ MaxSize \in Nat /\ MaxWidths \in Nat
    /\ Widths \subseteq Nat \ {0}

VARIABLES about, file, chunks, picture, source, with

vars == <<about, file, chunks, picture, source, with>>

\* An EXIF segment with no tag, one with a value out of range, a way up in its
\* first entry or after another, or one past the end of the segment.
Directories == {<<>>, <<9, 6>>, <<1>>, <<6>>, <<Other, 8>>, <<Other, Cut, 3>>}

Segments ==
    {Plain(kind) : kind \in Kinds \ {"exif"}} \cup {Exif(ifd, TRUE) : ifd \in Directories}

\* Widths of a poster; below zero there is none.
Posters == {-1, 3, 8}

NoSource == [type |-> "gif", width |-> 1, height |-> 1, turned |-> FALSE]

Plainest == [widths |-> <<>>, videoWidths |-> <<>>, poster |-> 0, ffmpeg |-> FALSE,
             serverFfmpeg |-> FALSE, skip |-> FALSE, slicer |-> FALSE, sliced |-> {}]

Init ==
    /\ about \in {"jpeg", "png", "turn", "ladder"}
    /\ file = <<>>
    /\ chunks = <<>>
    /\ picture = [o |-> 1, w |-> 1, h |-> 1]
    /\ source = NoSource
    /\ with = Plainest

AddSegment ==
    /\ about = "jpeg"
    /\ Len(file) < MaxSegments
    /\ \E segment \in Segments : file' = Append(file, segment)
    /\ UNCHANGED <<about, chunks, picture, source, with>>

\* A PNG that decodes has its end; anything may follow that.
AddChunk ==
    /\ about = "png"
    /\ Len(chunks) < MaxChunks
    /\ \E chunk \in Chunks : chunks' = Append(chunks, chunk)
    /\ UNCHANGED <<about, file, picture, source, with>>

ChangePicture ==
    /\ about = "turn"
    /\ \E o \in Orientations, w, h \in 1..MaxSide : picture' = [o |-> o, w |-> w, h |-> h]
    /\ UNCHANGED <<about, file, chunks, source, with>>

\* The widths are configured in ascending order: config.widths sorts them.  One
\* may be there twice.
Configured == {widths \in SeqOf(Widths, MaxWidths) : widths # <<>> /\ IsSorted(widths, <=)}

AskForImage ==
    /\ \E type \in Types \ {"video", "stl"}, w, h \in 1..MaxSize :
        source' = [type |-> type, width |-> w, height |-> h, turned |-> FALSE]
    /\ \E widths \in Configured : with' = [Plainest EXCEPT !.widths = widths]

AskForVideo ==
    /\ \E w, h \in 1..MaxSize, turned \in BOOLEAN :
        source' = [type |-> "video", width |-> w, height |-> h, turned |-> turned]
    /\ \E widths \in Configured, poster \in Posters, ffmpeg, server \in BOOLEAN :
        with' = [Plainest EXCEPT !.videoWidths = widths, !.poster = poster,
                                 !.ffmpeg = ffmpeg, !.serverFfmpeg = server]

AskForModel ==
    /\ source' = [type |-> "stl", width |-> 0, height |-> 0, turned |-> FALSE]
    /\ \E skip, slicer \in BOOLEAN, sliced \in SUBSET {"off", "on"} :
        with' = [Plainest EXCEPT !.skip = skip, !.slicer = slicer, !.sliced = sliced]

AskForLadder ==
    /\ about = "ladder"
    /\ source = NoSource
    /\ AskForImage \/ AskForVideo \/ AskForModel
    /\ UNCHANGED <<about, file, chunks, picture>>

Next == AddSegment \/ AddChunk \/ ChangePicture \/ AskForLadder

Spec == Init /\ [][Next]_vars

-----------------------------------------------------------------------------
(* Properties.                                                             *)

\* The copy of an image that is published keeps the picture, in the order of the
\* original and the same way up, and none of the notes a camera puts before the
\* scan; and making it of a copy changes nothing.  Three things are excepted as
\* the code has them: bytes that do not walk as a JPEG stay as they came, so does
\* all that comes from the first scan on, and of several EXIF segments another
\* than the first may decide.
NotesGoPictureStays ==
    /\ NotesGone(file) /\ PictureStays(file) /\ StrippedOnce(file)
    /\ CleanPNG(chunks)

\* Every tag turns a picture the way the EXIF standard means it, onto exactly the
\* size the manifest gives for it.
UprightAsTagged == TurnedAsTagged(picture.o, picture.w, picture.h)

\* The ladder of every source fits it: nothing is upscaled, each form keeps its
\* shape, the smallest comes first, and what is withheld has something to publish.
\* Two things are excepted as the code has them: the encodes of a video that is
\* stored on its side, which is probed unturned and encoded turned; and a server
\* that withholds videos for a machine without ffmpeg to derive.
LadderFits == LadderFitsSource(source, Ladder(source, with), with)
=============================================================================
