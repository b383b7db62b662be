------------------------------- MODULE Ladders ------------------------------
(***************************************************************************)
(* Which derived forms an asset gets, and of which size: internal/derive   *)
(* over internal/imaging, internal/video and internal/model.               *)
(*                                                                         *)
(* A source has a type and, where it has one, a size: of an image the one  *)
(* it is looked at, of a video the one it is stored with, which a quarter  *)
(* turn may exchange.  Of a form the model keeps its kind and the size     *)
(* that is recorded for it; what ffmpeg and the slicer make of a file is   *)
(* external, and their failing fails the ladder.                           *)
(***************************************************************************)
EXTENDS Integers, SequencesExt

Types == {"jpeg", "png", "webp", "gif", "video", "stl"}

Form(kind, width, height) == [kind |-> kind, width |-> width, height |-> height]

\* The source as it is looked at.  ffmpeg turns what it decodes; probe does not.
Displayed(source) ==
    IF source.turned THEN [source EXCEPT !.width = source.height, !.height = source.width]
    ELSE source

-----------------------------------------------------------------------------
(* internal/imaging.                                                       *)

Publishable(type) == type \in {"jpeg", "png"}

ImageSupported(type) == type \in {"jpeg", "png", "webp"}

\* render keeps the shape, rounding the height down.
Rendered(kind, source, width) ==
    Form(kind, width, Max({1, (source.height * width) \div source.width}))

\* The widths that are at most `most', in the order they are configured.
UpTo(most, widths) ==
    FlattenSeq([i \in DOMAIN widths |-> IF widths[i] <= most THEN <<widths[i]>> ELSE <<>>])

\* imaging.Ladder, which leaves out what is no smaller than the source.
Rungs(source, widths) ==
    LET smaller == UpTo(source.width - 1, widths)
    IN  [i \in DOMAIN smaller |-> Rendered("size", source, smaller[i])]

Still(kind, source, width) ==
    Rendered(kind, source, IF width <= 0 \/ width > source.width THEN source.width ELSE width)

ImageLadder(source, widths) ==
    Rungs(source, widths)
        \o (IF Publishable(source.type) THEN <<Form("full", source.width, source.height)>> ELSE <<>>)

-----------------------------------------------------------------------------
(* internal/video.                                                         *)

VideoSupported(type, ffmpeg) == type = "video" /\ ffmpeg

Even(n) == n - (n % 2)

\* sort.Ints.
Sorted(s) == CHOOSE t \in TupleOf(Range(s), Len(s)) : IsSorted(t, <=) /\ ToBag(t) = ToBag(s)

\* A bug: what is narrower than every width configured is left as it came.
WidthsThatFit(own, configured) == Sorted(UpTo(own, configured))

WidthsFor(own, configured) ==
    LET fitting == UpTo(own, configured) IN
    IF fitting = <<>> /\ own > 1 THEN <<Even(own)>> ELSE Sorted(fitting)

\* The width that is asked for, and the height the stored shape gives it.
Encoded(source, width) ==
    Form("size", width, Max({2, Even((source.height * width) \div source.width)}))

\* The widths are held against the stored one.  A poster is made of a frame as it
\* is looked at, unless its width is configured below zero.
VideoLadder(source, widths, poster) ==
    LET fitting == WidthsFor(source.width, widths) IN
    [i \in DOMAIN fitting |-> Encoded(source, fitting[i])]
        \o (IF poster > 0 THEN <<Still("poster", Displayed(source), poster)>> ELSE <<>>)

-----------------------------------------------------------------------------
(* internal/model.                                                         *)

ModelSupported(type) == type = "stl"

RenderSize == 1024

\* Of the two slices, without supports and with them, one may fail: `sliced' are
\* those that came out.  No form at all stands for the error the code returns.
ModelLadder(skip, slicer, sliced) ==
    LET render   == Form("render", RenderSize, RenderSize)
        report   == <<Form("slice", 0, 0)>>
        supports == <<Form("slice-support", 0, 0)>>
    IN  IF skip THEN <<render>>
        ELSE IF ~slicer \/ sliced = {} THEN <<>>
        ELSE <<render>> \o (IF "off" \in sliced THEN report ELSE <<>>)
                        \o (IF "on" \in sliced THEN supports ELSE <<>>)

-----------------------------------------------------------------------------
(* internal/derive.                                                        *)

Supported(type, ffmpeg) ==
    ImageSupported(type) \/ VideoSupported(type, ffmpeg) \/ ModelSupported(type)

WithholdsOriginal(type, ffmpeg) == Publishable(type) \/ VideoSupported(type, ffmpeg)

Cost(type, ffmpeg) ==
    CASE ImageSupported(type)         -> 0
      [] VideoSupported(type, ffmpeg) -> 1
      [] ModelSupported(type)         -> 2
      [] OTHER                        -> 3

\* `with' is how the machine that derives is set up, and how its slicer did.
Ladder(source, with) ==
    CASE ImageSupported(source.type)              -> ImageLadder(source, with.widths)
      [] VideoSupported(source.type, with.ffmpeg) -> VideoLadder(source, with.videoWidths, with.poster)
      [] ModelSupported(source.type)              -> ModelLadder(with.skip, with.slicer, with.sliced)
      [] OTHER                                    -> <<>>

-----------------------------------------------------------------------------
(* Properties of one ladder.                                               *)

\* An encode of a video that is stored on its side is measured by the wrong one.
Measured(source, form) == ~(source.turned /\ form.kind = "size")

\* Nothing is upscaled, and an image's rungs stop below its own width.
NeverUpscaled(source, ladder) ==
    \A i \in DOMAIN ladder :
        ladder[i].kind \in {"size", "full", "poster"} /\ Measured(source, ladder[i]) =>
            /\ ladder[i].width <= Displayed(source).width
            /\ ladder[i].height <= Max({2, Displayed(source).height})
            /\ ImageSupported(source.type) /\ ladder[i].kind = "size" => ladder[i].width < source.width

\* Each keeps the shape of its source, but for less than one pixel of its height,
\* or two where the height has to be even, and for a least height of one or two.
ShapeKept(source, ladder) ==
    LET step == IF source.type = "video" THEN 2 ELSE 1 IN
    \A i \in DOMAIN ladder :
        ladder[i].kind = "size" /\ ladder[i].height > step /\ Measured(source, ladder[i]) =>
            LET off == source.height * ladder[i].width - source.width * ladder[i].height
            IN  0 <= off /\ off < step * source.width

\* H.264 cannot have an odd size, and no form has one unless it was configured.
EvenUnlessConfigured(source, ladder, widths) ==
    source.type = "video" /\ (\A i \in DOMAIN widths : widths[i] % 2 = 0) =>
        \A i \in DOMAIN ladder :
            ladder[i].kind = "size" => ladder[i].width % 2 = 0 /\ ladder[i].height % 2 = 0

\* Smallest first, with what is published in full, or the poster, last.
SmallestFirst(ladder) ==
    \A i, j \in DOMAIN ladder :
        i < j => /\ ladder[i].kind \notin {"full", "poster"}
                 /\ ladder[j].kind \in {"size", "full"} => ladder[i].width <= ladder[j].width

\* Whatever the server withholds has a form that is published in its place, if the
\* machine that derives it has the server's tools.
SomethingToPublish(source, ladder, with) ==
    /\ WithholdsOriginal(source.type, with.serverFfmpeg)
    /\ with.serverFfmpeg => with.ffmpeg
    /\ source.width > 1
    =>
        \E i \in DOMAIN ladder :
            ladder[i].kind = (IF source.type = "video" THEN "size" ELSE "full")

\* A model's render never goes without a report, unless nothing is to be sliced.
ReportedUnlessSkipped(source, ladder, skip) ==
    source.type = "stl" /\ ~skip /\ ladder # <<>> => Len(ladder) > 1

LadderFitsSource(source, ladder, with) ==
    /\ NeverUpscaled(source, ladder)
    /\ ShapeKept(source, ladder)
    /\ EvenUnlessConfigured(source, ladder, with.videoWidths)
    /\ SmallestFirst(ladder)
    /\ SomethingToPublish(source, ladder, with)
    /\ ReportedUnlessSkipped(source, ladder, with.skip)
    /\ ladder # <<>> => Supported(source.type, with.ffmpeg)
=============================================================================
