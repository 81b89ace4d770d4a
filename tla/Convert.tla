------------------------------ MODULE Convert ------------------------------
(***************************************************************************)
(* The converters of lib/imaging/convert.cc, and the modules downscale and *)
(* grayfilter, which make another image in BGR888 in the same manner.      *)
(* What they do to a frame is a set of loops: the arithmetic on a byte is  *)
(* left out; what is kept is where each byte of the result is stored and   *)
(* from which bytes of the source it is computed.  A conversion is its set *)
(* of stores [to, from]: the offset written and the offsets read.          *)
(*                                                                         *)
(* The result is compared with the layouts of the formats: which component *)
(* of which pixels the byte at an offset stands for.                       *)
(***************************************************************************)
EXTENDS Integers, FiniteSets

CONSTANTS
    Widths, Heights,   \* of the images that are converted
    Factors            \* factor_ of downscale, which divides by it

\* Every width and height of the cameras' table is even.
ASSUME SizesAssumption ==
    /\ Widths \cup Heights \subseteq {n \in Nat \ {0} : n % 2 = 0}
    /\ Factors \subseteq Nat \ {0}

VARIABLE converted   \* the latest conversion: formats, size and stores

convertVars == <<converted>>

\* Converter::conversions_
Conversions ==
    {<<"YUYV", "YV12">>, <<"YUYV", "BGR888">>, <<"YUYV", "RGB888">>,
     <<"YV12", "RGB888">>, <<"YV12", "BGR888">>, <<"BGR888", "RGB888">>,
     <<"RGB888", "BGR888">>, <<"BGR888", "YV12">>, <<"BGR888", "YUYV">>,
     <<"GRAY", "BGR888">>, <<"BGR888", "GRAY">>}

Store(to, from) == [to |-> to, from |-> from]

\* The position of a channel within a pixel of three bytes.
Channel(format, c) ==
    IF format = "RGB888" THEN CASE c = "R" -> 0 [] c = "G" -> 1 [] c = "B" -> 2
                         ELSE CASE c = "R" -> 2 [] c = "G" -> 1 [] c = "B" -> 0

-----------------------------------------------------------------------------
(* The bytes that target_format allocates for an image of w * h pixels *)

SourceSize(format, w, h) ==
    CASE format = "YUYV" -> 2 * w * h
      [] format = "YV12" -> (3 * w * h) \div 2
      [] format \in {"BGR888", "RGB888", "GRAYED"} -> 3 * w * h
      [] format = "GRAY" -> w * h

TargetSize(from, to, w, h) ==
    LET bytesize == SourceSize(from, w, h)
    IN  CASE <<from, to>> = <<"YUYV", "YV12">> -> (bytesize \div 4) * 3
          [] from \in {"YUYV", "YV12"} /\ to # "YV12" -> w * h * 3
          [] {from, to} = {"BGR888", "RGB888"} -> bytesize
          [] from = "BGR888" /\ to \in {"YV12", "YUYV"} -> (w * h * 3) \div 2
          [] to = "GRAY" -> bytesize \div 3
          [] from = "GRAY" -> bytesize * 3

-----------------------------------------------------------------------------
(* The loops *)

Upto(n) == 0..n - 1
Even(n) == {i \in Upto(n) : i % 2 = 0}

\* convert_any with the offsets of u and v: the luma bytes, then two planes
\* of one byte for two rows of four bytes.
YUYVToYV12(w, h, u, v) ==
    LET plane(start, first) ==
            {Store(start + (i \div 2) * (w \div 2) + j,
                   {first + i * 2 * w + 4 * j, first + (i + 1) * 2 * w + 4 * j}) :
                i \in Even(h), j \in Upto(w \div 2)}
    IN  {Store(i, {2 * i}) : i \in Upto(w * h)}
            \cup plane(w * h, v) \cup plane(w * h + (w * h) \div 4, u)

\* YUVToRGB::convert: red does not depend on u, blue not on v.
Pixel(format, at, y, u, v) ==
    {Store(at + Channel(format, "R"), {y, v}),
     Store(at + Channel(format, "G"), {y, u, v}),
     Store(at + Channel(format, "B"), {y, u})}

\* Two pixels from four bytes.
YUYVToRGB(format, w, h) ==
    UNION {Pixel(format, 6 * k, 4 * k, 4 * k + 1, 4 * k + 3)
           \cup Pixel(format, 6 * k + 3, 4 * k + 2, 4 * k + 1, 4 * k + 3) :
                k \in Upto((w * h) \div 2)}

\* Mutant of YV12ToRGB: the planes in the order of image.hh:53-63.
YV12ToRGBSwapped(format, w, h) ==
    LET uv(i, j) == (i \div 2) * (w \div 2) + j \div 2
    IN  UNION {Pixel(format, 3 * (i * w + j), i * w + j, w * h + uv(i, j),
                     w * h + (w * h) \div 4 + uv(i, j)) :
                    i \in Upto(h), j \in Upto(w)}

\* The v-plane follows the luma bytes, then comes the u-plane.
YV12ToRGB(format, w, h) ==
    LET uv(i, j) == (i \div 2) * (w \div 2) + j \div 2
    IN  UNION {Pixel(format, 3 * (i * w + j), i * w + j,
                     w * h + (w * h) \div 4 + uv(i, j), w * h + uv(i, j)) :
                    i \in Upto(h), j \in Upto(w)}

Reversed(w, h) ==
    {Store(3 * k + c, {3 * k + 2 - c}) : k \in Upto(w * h), c \in 0..2}

\* Mutant of BGRToYV12: the rows are not taken in pairs.
BGRToYV12Unpaired(w, h) ==
    LET bgr(i, j) == {3 * (i * w + j) + c : c \in 0..2}
        block(i, j) == bgr(i, j) \cup bgr(i, j + 1)
                       \cup bgr(i + 1, j) \cup bgr(i + 1, j + 1)
        uv(i, j) == w * h + (i \div 2) * (w \div 2) + j \div 2
    IN  {Store(i * w + j, bgr(i, j)) : i \in Upto(h), j \in Upto(w)}
        \cup UNION {{Store(uv(i, j), block(i, j)),
                     Store(uv(i, j) + (w * h) \div 4, block(i, j))} :
                        i \in Upto(h), j \in Even(w)}

\* Two rows at a time: four luma bytes, and one of u and of v for the block.
BGRToYV12(w, h) ==
    LET bgr(i, j) == {3 * (i * w + j) + c : c \in 0..2}
        block(i, j) == bgr(i, j) \cup bgr(i, j + 1)
                       \cup bgr(i + 1, j) \cup bgr(i + 1, j + 1)
        uv(i, j) == w * h + (i \div 2) * (w \div 2) + j \div 2
    IN  {Store(i * w + j, bgr(i, j)) : i \in Upto(h), j \in Upto(w)}
        \cup UNION {{Store(uv(i, j), block(i, j)),
                     Store(uv(i, j) + (w * h) \div 4, block(i, j))} :
                        i \in Even(h), j \in Even(w)}

\* The pointers into the target move once per row, not once per two pixels.
BGRToYUYV(w, h) ==
    LET bgr(i, j) == {3 * (i * w + j) + c : c \in 0..2}
    IN  UNION {{Store(4 * i, bgr(i, j)), Store(4 * i + 2, bgr(i, j + 1)),
                Store(4 * i + 1, bgr(i, j) \cup bgr(i, j + 1)),
                Store(4 * i + 3, bgr(i, j) \cup bgr(i, j + 1))} :
                    i \in Upto(h), j \in Even(w)}

BGRToGray(w, h) == {Store(k, {3 * k + c : c \in 0..2}) : k \in Upto(w * h)}

GrayToBGR(w, h) == {Store(3 * k + c, {k}) : k \in Upto(w * h), c \in 0..2}

Stores(from, to, w, h) ==
    CASE <<from, to>> = <<"YUYV", "YV12">>   -> YUYVToYV12(w, h, 1, 3)
      [] from = "YUYV" /\ to # "YV12"        -> YUYVToRGB(to, w, h)
      [] from = "YV12"                       -> YV12ToRGB(to, w, h)
      [] {from, to} = {"BGR888", "RGB888"}   -> Reversed(w, h)
      [] <<from, to>> = <<"BGR888", "YV12">> -> BGRToYV12(w, h)
      [] <<from, to>> = <<"BGR888", "YUYV">> -> BGRToYUYV(w, h)
      [] to = "GRAY"                         -> BGRToGray(w, h)
      [] from = "GRAY"                       -> GrayToBGR(w, h)

-----------------------------------------------------------------------------
(* The modules *)

\* Downscale::get_output_image_header
Scaled(n, skip) == n \div skip

\* Downscale::execute: one pixel of skip columns, one row of skip rows.  The
\* columns that remain at the end of a row are not skipped.
DownscaleStores(skip, w, h) ==
    LET row == Scaled(w, skip) * skip + w * (skip - 1)
    IN  {Store(3 * (i * Scaled(w, skip) + j) + c, {3 * (i * row + j * skip) + c}) :
            i \in Upto(Scaled(h, skip)), j \in Upto(Scaled(w, skip)), c \in 0..2}

\* Grayfilter::execute, where OpenCV computes the gray values in between.
GrayfilterStores(w, h) ==
    {Store(3 * k + c, {3 * k + d : d \in 0..2}) : k \in Upto(w * h), c \in 0..2}

-----------------------------------------------------------------------------

\* The formats; the width and height of the result and, skip times as large,
\* of the part of the source it shows; the width and height of the source.
NoConversion == [pair |-> <<>>, w |-> 0, h |-> 0, skip |-> 1, width |-> 0,
                 height |-> 0, size |-> 0, stores |-> {}]

\* Convert::operator()
ConvertImage(pair, w, h) ==
    converted' = [pair |-> pair, w |-> w, h |-> h, skip |-> 1,
                  width |-> w, height |-> h,
                  size |-> TargetSize(pair[1], pair[2], w, h),
                  stores |-> Stores(pair[1], pair[2], w, h)]

Downscale(factor, w, h) ==
    LET skip == 2 * factor
    IN  converted' = [pair |-> <<"BGR888", "BGR888">>, w |-> Scaled(w, skip),
                      h |-> Scaled(h, skip), skip |-> skip, width |-> w, height |-> h,
                      size |-> Scaled(w, skip) * Scaled(h, skip) * 3,
                      stores |-> DownscaleStores(skip, w, h)]

\* The output has the header of the input.
Grayfilter(w, h) ==
    converted' = [pair |-> <<"BGR888", "GRAYED">>, w |-> w, h |-> h, skip |-> 1,
                  width |-> w, height |-> h, size |-> 3 * w * h,
                  stores |-> GrayfilterStores(w, h)]

ConvertInit == converted = NoConversion

ConvertNext ==
    /\ converted = NoConversion
    /\ \E w \in Widths, h \in Heights :
            \/ \E pair \in Conversions : ConvertImage(pair, w, h)
            \/ \E factor \in Factors : Downscale(factor, w, h)
            \/ Grayfilter(w, h)

ConvertSpec == ConvertInit /\ [][ConvertNext]_convertVars

-----------------------------------------------------------------------------
(* The layouts of the formats, image.hh:40-77.  Of YV12 that comment says    *)
(* that the u-plane comes before the v-plane; the converters and the encoder *)
(* of the module stream (h264_encoder.cc:98-100) agree on the order the      *)
(* comment in convert.hh:118 gives, "y-block, v-block, u-block", and it is   *)
(* this order that the properties below hold for.                            *)

YV12Component(w, h, o) ==
    IF o < w * h THEN "Y"
    ELSE IF o < w * h + (w * h) \div 4 THEN "V" ELSE "U"

\* What the byte at offset o stands for, and of which pixels <<row, column>>.
Component(format, w, h, o) ==
    CASE format = "YUYV" ->
            IF o % 2 = 0 THEN "Y" ELSE IF o % 4 = 1 THEN "U" ELSE "V"
      [] format = "YV12" -> YV12Component(w, h, o)
      [] format \in {"BGR888", "RGB888"} ->
            CHOOSE c \in {"R", "G", "B"} : Channel(format, c) = o % 3
      [] format \in {"GRAY", "GRAYED"} -> "Y"

Pixels(format, w, h, o) ==
    LET at(k) == <<k \div w, k % w>>
        pair(k) == {at(k), at(k + 1)}
        rest == (o - w * h) % ((w * h) \div 4)
        row == 2 * (rest \div (w \div 2))
        column == 2 * (rest % (w \div 2))
    IN  CASE format = "YUYV" ->
                IF o % 2 = 0 THEN {at(o \div 2)} ELSE pair(2 * (o \div 4))
          [] format = "YV12" ->
                IF o < w * h THEN {at(o)}
                ELSE {row, row + 1} \X {column, column + 1}
          [] format \in {"BGR888", "RGB888", "GRAYED"} -> {at(o \div 3)}
          [] format = "GRAY" -> {at(o)}

\* The components of the source a component of the target is computed from.
Needs(from, c) ==
    IF from \in {"YUYV", "YV12"}
      THEN CASE c = "R" -> {"Y", "V"} [] c = "G" -> {"Y", "U", "V"}
             [] c = "B" -> {"Y", "U"} [] OTHER -> {c}
      ELSE IF from = "GRAY" THEN {"Y"}
      ELSE IF c \in {"R", "G", "B"} THEN {c} ELSE {"R", "G", "B"}

\* BGR888 to YUYV allocates and fills another image than a YUYV one.
Sound == converted.pair # <<>> /\ converted.pair # <<"BGR888", "YUYV">>

\* Downscaled rows are aligned if no columns remain.
Aligned == converted.width % converted.skip = 0

\* A conversion writes every byte it allocates exactly once, and reads within
\* the source only (convert.cc:106-468), for all images of even size; so do
\* the modules that output images, also if columns remain
\* (downscale.cc:48-72, grayfilter.cc:33-47).
EveryByteOnce ==
    Sound =>
        /\ {s.to : s \in converted.stores} = 0..converted.size - 1
        /\ Cardinality(converted.stores) = converted.size
        /\ converted.size = SourceSize(converted.pair[2], converted.w, converted.h)
        /\ \A s \in converted.stores :
                s.from \subseteq 0..SourceSize(converted.pair[1], converted.width,
                                             converted.height) - 1

\* A byte of the result is computed from the right components of the pixels
\* it stands for: planes, rows and channels are not mixed up, and those that
\* write YV12 and those that read it take its planes in the same order, that of
\* convert.hh:118, not the one of image.hh:53-63 (convert.cc:106-468).
RightPixels ==
    Sound /\ Aligned =>
        LET from == converted.pair[1]
            to == converted.pair[2]
            read(o) == Pixels(from, converted.width, converted.height, o)
            meant(o) == {<<p[1] * converted.skip, p[2] * converted.skip>> :
                            p \in Pixels(to, converted.w, converted.h, o)}
        IN  \A s \in converted.stores :
                /\ {Component(from, converted.width, converted.height, o) : o \in s.from}
                       = Needs(from, Component(to, converted.w, converted.h, s.to))
                /\ \A o \in s.from : read(o) \cap meant(s.to) # {}
                /\ meant(s.to) \subseteq UNION {read(o) : o \in s.from}
=============================================================================
