------------------------------ MODULE FrameProofs ------------------------------
(***************************************************************************)
(* What becomes of a frame: which one a module is given in a pass, and     *)
(* what the converters and the modules that make images write.             *)
(*                                                                         *)
(* The pass, for any modules, formats, converters and periods.  A          *)
(* timestamp does not tell two images apart, so the proof cannot rely on   *)
(* it: a converter's result is that of the current frame because whatever  *)
(* replaces the frame invalidates all results (ResultsInv).  That there is *)
(* a converter at all follows from the formats a frame may have in a pass  *)
(* (FormatInv), which depend on the outputs (OutputInv).                   *)
(*                                                                         *)
(* The conversions, for images of any even size.  The stores of each loop  *)
(* are shown to be one for each byte of the result (ByteStores), for each  *)
(* byte of each pixel (PixelStores) or for each byte of three planes       *)
(* (Planar), as a function of which byte or pixel it is.  That every byte  *)
(* is written once then follows by one bijection (Written), and that it is *)
(* computed from the right pixels by comparing two layouts at one byte.    *)
(* Rows and columns are found again by dividing (GridFacts).               *)
(***************************************************************************)
EXTENDS ModulePass, Convert, FiniteSetTheorems, FunctionTheorems, TLAPS

\* The results are those of the frame f.
ResultsOf(res, f) ==
    /\ res \in [Converters -> Picture]
    /\ \A p \in Converters :
            res[p].format # "INVALID" => res[p] = [f EXCEPT !.format = p[2]]

ResultsInv == ResultsOf(results, frame)

FormatInv == next # 0 => frame.format \in {CameraFormat, "BGR888"}

OutputInv ==
    \A m \in Unit : \/ output[m] = NoPicture
                    \/ m \in Modifier /\ output[m].format = "BGR888"

PassInv ==
    /\ PassTypeOK
    /\ ResultsInv /\ FormatInv /\ OutputInv
    /\ ConversionCurrent

-----------------------------------------------------------------------------
(* Frames and conversions *)

LEMMA NothingIsPicture ==
    NoPicture \in Picture /\ NoPicture.format = "INVALID" /\ NoPicture.of = 0
BY UnitAssumption DEF NoPicture, Picture, Formats

LEMMA Reformatted ==
    ASSUME NEW f \in Picture, NEW format \in Formats
    PROVE  LET g == [f EXCEPT !.format = format]
           IN  g \in Picture /\ g.of = f.of /\ g.format = format
BY DEF Picture

\* Nothing that was made of an earlier frame is valid for a new one.
LEMMA NewFrame ==
    ASSUME NEW f \in Picture
    PROVE  ResultsOf([pair \in Converters |-> NoPicture], f)
BY NothingIsPicture DEF ResultsOf

\* get_frame: the image is the frame in the wanted format, and so is what the
\* converter keeps.
LEMMA ConversionOfFrame ==
    ASSUME PassTypeOK, ResultsInv, FormatInv, next # 0,
           NEW m \in Unit, Wanted[m] # "NONE"
    PROVE  /\ InFormat(Wanted[m]) = [frame EXCEPT !.format = Wanted[m]]
           /\ InFormat(Wanted[m]) \in Picture
           /\ InFormat(Wanted[m]).of = frame.of
           /\ ResultsOf(Converted(Wanted[m]), frame)
<1> DEFINE w == Wanted[m]
           p == <<frame.format, w>>
           g == [frame EXCEPT !.format = w]
<1>1. frame \in Picture /\ w \in Formats
    BY WantedAssumption DEF PassTypeOK
<1>2. g \in Picture /\ g.of = frame.of
    BY <1>1, Reformatted
<1>3. CASE frame.format = w
    <2>1. g = frame
        BY <1>1, <1>3 DEF Picture
    <2>2. InFormat(w) = frame /\ Converted(w) = results
        BY <1>3 DEF InFormat, Converted
    <2>3. QED
        BY <1>1, <2>1, <2>2 DEF ResultsInv
<1>4. CASE frame.format # w
    <2>1. p \in Converters /\ p[2] = w
        BY <1>4, WantedAssumption DEF FormatInv
    <2>2. InFormat(w) = IF Fresh(results[p]) THEN results[p] ELSE g
        BY <1>4 DEF InFormat
    <2>3. InFormat(w) = g
        BY <2>1, <2>2 DEF Fresh, ResultsInv, ResultsOf
    <2>4. Converted(w) = [results EXCEPT ![p] = g]
        BY <1>4, <2>3 DEF Converted
    <2>5. results \in [Converters -> Picture]
        BY DEF ResultsInv, ResultsOf
    <2>6. Converted(w) \in [Converters -> Picture]
        BY <1>2, <2>1, <2>4, <2>5
    <2>7. \A q \in Converters : Converted(w)[q] = IF q = p THEN g ELSE results[q]
        BY <2>1, <2>4, <2>5
    <2>8. ResultsOf(Converted(w), frame)
        BY <2>1, <2>6, <2>7 DEF ResultsInv, ResultsOf
    <2>9. QED
        BY <1>2, <2>3, <2>8
<1>5. QED
    BY <1>3, <1>4

\* An image that is passed on becomes the frame, without any results.
LEMMA PassedOn ==
    ASSUME NEW image \in Picture, NEW res, frame \in Picture,
           ResultsOf(res, frame), PassOn(image, res)
    PROVE  /\ frame' = IF image.format # "INVALID" THEN image ELSE frame
           /\ ResultsInv'
BY NewFrame DEF PassOn, SetFrame, ResultsInv

-----------------------------------------------------------------------------
(* Steps of a pass *)

LEMMA CountStep ==
    ASSUME PassTypeOK, NEW m \in Unit, Count(m)
    PROVE  current' \in 0..254
<1>1. period[m] \in 0..255 /\ current \in 0..254
    BY DEF PassTypeOK
<1>2. QED
    BY <1>1 DEF Count, Due

\* A module passes on an output of its own, or none.
LEMMA HoldStep ==
    ASSUME PassInv, next # 0, NEW m \in Unit, NEW res, ResultsOf(res, frame),
           Hold(m, res)
    PROVE  /\ output' = output /\ frame' \in Picture /\ ResultsInv'
           /\ frame'.format \in {CameraFormat, "BGR888"}
<1> USE DEF PassInv, PassTypeOK
<1>1. output[m] \in Picture
    OBVIOUS
<1>2. /\ frame' = IF output[m].format # "INVALID" THEN output[m] ELSE frame
      /\ ResultsInv'
    BY <1>1, PassedOn DEF Hold
<1>3. CASE output[m] = NoPicture
    BY <1>2, <1>3, NothingIsPicture DEF Hold, FormatInv
<1>4. CASE output[m] # NoPicture
    BY <1>1, <1>2, <1>4 DEF Hold, FormatInv, OutputInv
<1>5. QED
    BY <1>3, <1>4

\* What ends the turn of a module, but for the frame.
LEMMA InvOfFrame ==
    ASSUME PassInv, PassTypeOK', ResultsInv', OutputInv', ConversionCurrent',
           frame'.format \in {CameraFormat, "BGR888"}
    PROVE  PassInv'
BY DEF PassInv, FormatInv

LEMMA TurnStep ==
    ASSUME PassTypeOK, NEW m \in Unit, Turn(m)
    PROVE  /\ current' \in 0..254 /\ missed' \in [Unit -> Nat]
           /\ UNCHANGED <<enabled, periodSet, period, grabbed>>
BY CountStep DEF Turn, PassTypeOK

\* The image a module is given.
LEMMA GiveStep ==
    ASSUME PassInv, next # 0, NEW m \in Unit, Wanted[m] # "NONE", Give(m)
    PROVE  /\ ConversionCurrent'
           /\ given'.image \in Picture /\ given'.frame \in Picture
           /\ given'.to \in Unit \cup {0}
<1>1. InFormat(Wanted[m]) = [frame EXCEPT !.format = Wanted[m]]
      /\ InFormat(Wanted[m]) \in Picture
    BY ConversionOfFrame DEF PassInv
<1>2. given' = [image |-> InFormat(Wanted[m]), frame |-> frame, to |-> m]
    BY DEF Give
<1>3. QED
    BY <1>1, <1>2 DEF ConversionCurrent, PassInv, PassTypeOK

LEMMA PassInitInv == PassInit => PassInv
<1> SUFFICES ASSUME PassInit PROVE PassInv
    OBVIOUS
<1>1. /\ periodSet \in [Unit -> 0..500] /\ period \in [Unit -> 0..255]
      /\ missed \in [Unit -> Nat] /\ current \in 0..254
      /\ grabbed \in 0..MaxGrabbed
    BY UnitAssumption DEF PassInit
<1>2. /\ output \in [Unit -> Picture] /\ frame \in Picture
      /\ given.image \in Picture /\ given.frame \in Picture /\ given.to = 0
    BY NothingIsPicture DEF PassInit
<1>3. ResultsInv
    BY NothingIsPicture, NewFrame DEF PassInit, ResultsInv
<1>4. enabled \in [Unit -> BOOLEAN] /\ removable \subseteq Unit
    BY DEF PassInit
<1>5. PassTypeOK
    BY <1>1, <1>2, <1>3, <1>4 DEF PassTypeOK, ResultsInv, ResultsOf
<1>6. FormatInv /\ OutputInv /\ ConversionCurrent
    BY <1>2 DEF PassInit, FormatInv, OutputInv, ConversionCurrent
<1>7. QED
    BY <1>3, <1>5, <1>6 DEF PassInv

\* Every turn of a module keeps the invariant.
LEMMA ExecuteNextStep ==
    ASSUME PassInv, ExecuteNext
    PROVE  PassInv'
<1> DEFINE m == next
           res == Converted(Wanted[m])
<1> USE DEF PassInv
<1>0. m \in Unit /\ next # 0
    BY UnitAssumption DEF ExecuteNext
<1>1. PassTypeOK /\ ResultsInv /\ ResultsOf(results, frame)
    BY DEF ResultsInv
<1>2. CASE Skip(m)
    <2>1. PassTypeOK' /\ ResultsInv' /\ OutputInv' /\ ConversionCurrent'
        BY <1>2 DEF Skip, PassTypeOK, ResultsInv, ResultsOf, OutputInv, ConversionCurrent
    <2>2. QED
        BY <1>0, <1>2, <2>1, InvOfFrame DEF Skip, FormatInv
<1>3. CASE PassOnly(m)
    <2>1. Hold(m, results)
        BY <1>3 DEF PassOnly
    <2>2. /\ output' = output /\ frame' \in Picture /\ ResultsInv'
          /\ frame'.format \in {CameraFormat, "BGR888"}
        BY <1>0, <1>1, <2>1, HoldStep
    <2>3. UNCHANGED <<enabled, periodSet, period, current, given, removable,
                      grabbed, missed>>
        BY <1>3 DEF PassOnly
    <2>4. PassTypeOK' /\ OutputInv' /\ ConversionCurrent'
        BY <2>2, <2>3 DEF PassTypeOK, ResultsInv, ResultsOf, OutputInv, ConversionCurrent
    <2>5. QED
        BY <2>2, <2>3, <2>4, InvOfFrame
<1>4. ASSUME Wanted[m] # "NONE"
      PROVE  /\ InFormat(Wanted[m]) \in Picture
             /\ InFormat(Wanted[m]).of = frame.of
             /\ ResultsOf(res, frame)
    BY <1>0, <1>4, ConversionOfFrame
<1>5. CASE NotDue(m) \/ Refuse(m)
    <2>1. Wanted[m] # "NONE" /\ Hold(m, res)
        BY <1>5 DEF NotDue, Refuse, Turn
    <2>2. /\ output' = output /\ frame' \in Picture /\ ResultsInv'
          /\ frame'.format \in {CameraFormat, "BGR888"}
        BY <1>0, <1>4, <2>1, HoldStep
    <2>3. /\ UNCHANGED <<enabled, periodSet, period, given, removable, grabbed>>
          /\ current' \in 0..254 /\ missed' \in [Unit -> Nat]
        <3>1. CASE NotDue(m)
            <4>1. current' \in 0..254
                BY <1>0, <1>1, <3>1, CountStep DEF NotDue
            <4>2. missed' \in [Unit -> Nat]
                BY <1>0, <1>1, <3>1 DEF NotDue, PassTypeOK
            <4>3. QED
                BY <3>1, <4>1, <4>2 DEF NotDue
        <3>2. CASE Refuse(m)
            BY <1>0, <1>1, <3>2, TurnStep DEF Refuse
        <3>3. QED
            BY <1>5, <3>1, <3>2
    <2>4. PassTypeOK' /\ OutputInv' /\ ConversionCurrent'
        BY <2>2, <2>3 DEF PassTypeOK, ResultsInv, ResultsOf, OutputInv, ConversionCurrent
    <2>5. QED
        BY <2>2, <2>3, <2>4, InvOfFrame
<1>6. CASE Execute(m)
    <2>1. Wanted[m] # "NONE" /\ Turn(m) /\ Give(m)
        BY <1>6 DEF Execute, Turn
    <2>2. PassOn(output'[m], res)
          /\ output' = IF m \in Modifier
                         THEN [output EXCEPT ![m] = Modified(m, InFormat(Wanted[m]))]
                         ELSE output
        BY <1>6 DEF Execute
    <2>3. Modified(m, InFormat(Wanted[m])) \in Picture
          /\ Modified(m, InFormat(Wanted[m])).format = "BGR888"
          /\ Modified(m, InFormat(Wanted[m])).of = frame.of
        <3>1. InFormat(Wanted[m]).of \in 0..MaxGrabbed /\ 0 \in 0..MaxGrabbed
            BY <1>4, <2>1, UnitAssumption DEF Picture
        <3>2. "BGR888" \in Formats
            BY DEF Formats
        <3>3. QED
            BY <1>0, <1>4, <2>1, <3>1, <3>2 DEF Modified, Picture
    <2>4. output' \in [Unit -> Picture]
        BY <2>2, <2>3 DEF PassTypeOK
    <2>5. OutputInv'
        BY <1>0, <2>2, <2>3 DEF OutputInv, PassTypeOK
    <2>6. \/ output'[m] = NoPicture
          \/ output'[m].of = frame.of /\ output'[m].format = "BGR888"
        BY <1>0, <2>2, <2>3 DEF OutputInv, PassTypeOK
    <2>7. /\ frame' = IF output'[m].format # "INVALID" THEN output'[m] ELSE frame
          /\ ResultsInv'
        BY <1>0, <1>4, <2>1, <2>2, <2>4, PassedOn DEF PassTypeOK
    <2>8. /\ frame' \in Picture /\ frame'.of = frame.of
          /\ frame'.format \in {CameraFormat, "BGR888"}
        BY <1>0, <2>4, <2>6, <2>7, NothingIsPicture DEF PassTypeOK, FormatInv
    <2>9. /\ UNCHANGED <<enabled, periodSet, period, removable, grabbed>>
          /\ current' \in 0..254 /\ missed' \in [Unit -> Nat]
        BY <1>0, <1>6, <2>1, TurnStep DEF Execute
    <2>10. /\ ConversionCurrent'
           /\ given'.image \in Picture /\ given'.frame \in Picture
           /\ given'.to \in Unit \cup {0}
        BY <1>0, <2>1, GiveStep
    <2>11. PassTypeOK'
        BY <2>4, <2>7, <2>8, <2>9, <2>10 DEF PassTypeOK, ResultsInv, ResultsOf
    <2>12. QED
        BY <1>0, <2>5, <2>7, <2>8, <2>9, <2>10, <2>11, InvOfFrame
<1>7. CASE Throw(m)
    <2>1. Wanted[m] # "NONE" /\ Turn(m) /\ Give(m)
        BY <1>7 DEF Throw, Turn
    <2>2. /\ removable' = removable \cup {m} /\ results' = res
          /\ UNCHANGED <<output, frame>>
        BY <1>7 DEF Throw
    <2>3. ResultsInv' /\ OutputInv'
        BY <1>4, <2>1, <2>2 DEF ResultsInv, ResultsOf, OutputInv
    <2>4. /\ UNCHANGED <<enabled, periodSet, period, grabbed>>
          /\ current' \in 0..254 /\ missed' \in [Unit -> Nat]
        BY <1>0, <2>1, TurnStep
    <2>5. /\ ConversionCurrent'
          /\ given'.image \in Picture /\ given'.frame \in Picture
          /\ given'.to \in Unit \cup {0}
        BY <1>0, <2>1, GiveStep
    <2>6. PassTypeOK'
        BY <1>0, <2>2, <2>3, <2>4, <2>5 DEF PassTypeOK, ResultsInv, ResultsOf
    <2>7. QED
        BY <1>0, <2>2, <2>3, <2>4, <2>5, <2>6, InvOfFrame DEF FormatInv
<1>8. QED
    BY <1>2, <1>3, <1>5, <1>6, <1>7 DEF ExecuteNext

\* So does what happens between the turns.
LEMMA PassInvStep == PassInv /\ [PassNext]_passVars => PassInv'
<1> SUFFICES ASSUME PassInv, [PassNext]_passVars PROVE PassInv'
    OBVIOUS
<1> USE DEF PassInv
<1>1. ASSUME UNCHANGED <<output, frame, results, next, given>>,
             PassTypeOK'
      PROVE  PassInv'
    BY <1>1 DEF ResultsInv, ResultsOf, FormatInv, OutputInv, ConversionCurrent
<1>2. CASE UNCHANGED passVars
    <2>1. PassTypeOK'
        BY <1>2 DEF passVars, PassTypeOK
    <2>2. QED
        BY <1>1, <1>2, <2>1 DEF passVars
<1>3. CASE BeginPass
    <2>1. PICK image \in Grabbed : SetFrame(image)
        BY <1>3 DEF BeginPass
    <2>2. grabbed \in 0..MaxGrabbed /\ grabbed + 1 \in 0..MaxGrabbed
        BY <1>3, UnitAssumption DEF BeginPass, PassTypeOK
    <2>3. image \in Picture /\ image.format \in {CameraFormat, "BGR888"}
        <3>1. CameraFormat \in Formats /\ "BGR888" \in Formats /\ 0 \in 0..MaxGrabbed
            <4>1. CameraFormat \in Formats
                BY WantedAssumption
            <4>2. "BGR888" \in Formats
                BY DEF Formats
            <4>3. 0 \in 0..MaxGrabbed
                BY UnitAssumption
            <4>4. QED
                BY <4>1, <4>2, <4>3
        <3>2. CASE image = [of |-> grabbed + 1, by |-> 0, format |-> CameraFormat,
                            stamp |-> grabbed + 1]
            BY <2>2, <3>1, <3>2 DEF Picture
        <3>3. CASE image = [of |-> 0, by |-> 0, format |-> "BGR888", stamp |-> 0]
            BY <3>1, <3>3 DEF Picture
        <3>4. QED
            BY <2>1, <3>2, <3>3 DEF Grabbed
    <2>4. /\ frame' = image /\ grabbed' = grabbed + 1
          /\ UNCHANGED <<enabled, periodSet, period, current, output, given,
                         removable, missed>>
        BY <1>3, <2>1 DEF BeginPass, SetFrame
    <2>5. ResultsInv'
        BY <2>1, <2>3, NewFrame DEF SetFrame, ResultsInv
    <2>6. PassTypeOK'
        BY <2>2, <2>3, <2>4, <2>5 DEF PassTypeOK, ResultsInv, ResultsOf
    <2>7. OutputInv' /\ ConversionCurrent'
        BY <2>4 DEF OutputInv, ConversionCurrent
    <2>8. QED
        BY <2>3, <2>4, <2>5, <2>6, <2>7, InvOfFrame
<1>4. CASE ExecuteNext
    BY <1>4, ExecuteNextStep
<1>5. CASE EndPass
    <2>1. PassTypeOK'
        BY <1>5 DEF EndPass, PassTypeOK
    <2>2. ResultsInv' /\ OutputInv' /\ ConversionCurrent'
        BY <1>5 DEF EndPass, ResultsInv, ResultsOf, OutputInv, ConversionCurrent
    <2>3. QED
        BY <1>5, <2>1, <2>2 DEF EndPass, FormatInv
<1>6. ASSUME NEW m \in Unit, Enable(m) \/ Disable(m) PROVE PassInv'
    <2>1. enabled' \in [Unit -> BOOLEAN]
        BY <1>6 DEF Enable, Disable, PassTypeOK
    <2>2. missed' \in [Unit -> Nat]
        BY <1>6 DEF Enable, Disable, PassTypeOK
    <2>3. UNCHANGED <<periodSet, period, current, output, frame, results, next,
                      given, removable, grabbed>>
        BY <1>6 DEF Enable, Disable
    <2>4. PassTypeOK'
        BY <2>1, <2>2, <2>3 DEF PassTypeOK
    <2>5. QED
        BY <1>1, <2>3, <2>4
<1>7. ASSUME NEW m \in Unit, NEW value, SetPeriod(m, value) PROVE PassInv'
    <2>1. value \in 0..500 /\ value % 256 \in 0..255
        BY <1>7 DEF SetPeriod
    <2>2. periodSet' \in [Unit -> 0..500] /\ period' \in [Unit -> 0..255]
          /\ missed' \in [Unit -> Nat]
        BY <1>7, <2>1 DEF SetPeriod, PassTypeOK
    <2>3. UNCHANGED <<enabled, current, output, frame, results, next, given,
                      removable, grabbed>>
        BY <1>7 DEF SetPeriod
    <2>4. PassTypeOK'
        BY <2>2, <2>3 DEF PassTypeOK
    <2>5. QED
        BY <1>1, <2>3, <2>4
<1>8. QED
    BY <1>2, <1>3, <1>4, <1>5, <1>6, <1>7 DEF PassNext

-----------------------------------------------------------------------------

\* The invariant holds in every behaviour.
THEOREM PassInvariance == PassSpec => []PassInv
<1>1. QED
    BY PassInitInv, PassInvStep, PTL DEF PassSpec

\* A module is never given the conversion of an older frame, although the
\* timestamps that are compared do not tell images apart (convert.hh:524-525).
THEOREM ConversionsAreCurrent == PassSpec => []ConversionCurrent
<1>1. PassInv => ConversionCurrent
    BY DEF PassInv
<1>2. QED
    BY PassInvariance, <1>1, PTL

\* The variables of a pass keep their types: period_ has eight bits
\* (module.hh) and the counter of execute never reaches a period.
THEOREM TypeCorrect == PassSpec => []PassTypeOK
<1>1. PassInv => PassTypeOK
    BY DEF PassInv
<1>2. QED
    BY PassInvariance, <1>1, PTL

-----------------------------------------------------------------------------
(* Conversions: rows and columns *)

\* Products are monotone.
LEMMA TimesMonotone == \A a, x, y \in Nat : x <= y => a * x <= a * y
<1> SUFFICES ASSUME NEW a \in Nat, NEW x \in Nat, NEW y \in Nat, x <= y
             PROVE  a * x <= a * y
    OBVIOUS
<1>1. PICK d \in Nat : y = x + d
    <2>1. y - x \in Nat /\ y = x + (y - x)
        OBVIOUS
    <2>2. QED
        BY <2>1
<1>2. a * y = a * x + a * d
    BY <1>1
<1>3. a * d \in Nat /\ a * x \in Nat
    OBVIOUS
<1>4. QED
    BY <1>2, <1>3

\* Division with a remainder.
LEMMA DivMod ==
    ASSUME NEW a \in Nat \ {0}, NEW o \in Nat
    PROVE  o \div a \in Nat /\ o % a \in 0..a - 1 /\ o = a * (o \div a) + (o % a)
    OBVIOUS

\* Column j of row i lies within b rows of a columns.
LEMMA GridIn ==
    ASSUME NEW a \in Nat, NEW b \in Nat, NEW i \in 0..b - 1, NEW j \in 0..a - 1
    PROVE  a * i + j \in 0..a * b - 1 /\ a * i \in Nat
<1>1. a * (i + 1) <= a * b
    BY TimesMonotone
<1>2. a * (i + 1) = a * i + a /\ a * i \in Nat
    OBVIOUS
<1>3. QED
    BY <1>1, <1>2

\* Division finds the row and the column again.
LEMMA GridOf ==
    ASSUME NEW a \in Nat \ {0}, NEW i \in Nat, NEW j \in 0..a - 1
    PROVE  (a * i + j) \div a = i /\ (a * i + j) % a = j
<1> DEFINE o == a * i + j
           q == o \div a
           r == o % a
<1>1. o \in Nat /\ o = a * i + j
    OBVIOUS
<1>2. q \in Nat /\ r \in 0..a - 1 /\ o = a * q + r
    BY <1>1, DivMod
<1> HIDE DEF o, q, r
<1>3. ASSUME q < i PROVE FALSE
    <2>1. a * (q + 1) <= a * i /\ a * (q + 1) = a * q + a
        BY <1>2, <1>3, TimesMonotone
    <2>2. QED
        BY <1>1, <1>2, <2>1
<1>4. ASSUME i < q PROVE FALSE
    <2>1. a * (i + 1) <= a * q /\ a * (i + 1) = a * i + a
        BY <1>2, <1>4, TimesMonotone
    <2>2. QED
        BY <1>1, <1>2, <2>1
<1>5. q = i
    BY <1>2, <1>3, <1>4
<1>6. r = j
    BY <1>1, <1>2, <1>5
<1>7. QED
    BY <1>5, <1>6 DEF q, r, o

\* Every place in b rows of a columns has a row and a column.
LEMMA GridSplit ==
    ASSUME NEW a \in Nat \ {0}, NEW b \in Nat, NEW o \in 0..a * b - 1
    PROVE  o \div a \in 0..b - 1 /\ o % a \in 0..a - 1 /\ o = a * (o \div a) + (o % a)
<1>1. o \in Nat /\ o < a * b /\ a * b \in Nat
    OBVIOUS
<1> DEFINE q == o \div a
           r == o % a
<1>2. q \in Nat /\ r \in 0..a - 1 /\ o = a * q + r
    BY <1>1, DivMod
<1> HIDE DEF q, r
<1>3. ASSUME b <= q PROVE FALSE
    <2>1. a * b <= a * q
        BY <1>2, <1>3, TimesMonotone
    <2>2. QED
        BY <1>1, <1>2, <2>1
<1>4. QED
    BY <1>2, <1>3 DEF q, r

-----------------------------------------------------------------------------
(* Every byte once *)

\* One store for each of N bytes, and for each byte of n pixels.
ByteStores(N, f) == {Store(o, f[o]) : o \in 0..N - 1}
PixelAt(p, c) == 3 * p + c
PixelStores(n, g) == {Store(PixelAt(p, c), g[p][c]) : p \in 0..n - 1, c \in 0..2}

\* The stores S write each of N bytes once and read M bytes.
OnceEach(S, N, M) ==
    /\ {s.to : s \in S} = 0..N - 1
    /\ Cardinality(S) = N
    /\ \A s \in S : s.from \subseteq 0..M - 1

\* Stores to N bytes, one for each of them, write every byte once.
LEMMA Written ==
    ASSUME NEW N \in Nat, NEW M, NEW f, \A o \in 0..N - 1 : f[o] \subseteq 0..M - 1
    PROVE  OnceEach(ByteStores(N, f), N, M)
<1> DEFINE S == ByteStores(N, f)
           g == [o \in 0..N - 1 |-> Store(o, f[o])]
<1>1. \A o \in 0..N - 1 : g[o].to = o /\ g[o].from = f[o]
    BY DEF Store
<1>2. /\ g \in [0..N - 1 -> S] /\ \A o \in 0..N - 1 : g[o] \in S
      /\ \A s \in S : \E o \in 0..N - 1 : s = g[o]
    BY DEF ByteStores
<1> HIDE DEF g, S
<1>3. g \in Bijection(0..N - 1, S)
    <2>1. \A i, j \in 0..N - 1 : g[i] = g[j] => i = j
        BY <1>1
    <2>2. \A s \in S : \E o \in 0..N - 1 : g[o] = s
        BY <1>2
    <2>3. QED
        BY <1>2, <2>1, <2>2, Fun_IsBij
<1>4. Cardinality(S) = N
    <2>1. IsFiniteSet(0..N - 1) /\ Cardinality(0..N - 1) = N
        BY FS_Interval
    <2>2. ExistsBijection(0..N - 1, S)
        BY <1>3 DEF ExistsBijection
    <2>3. QED
        BY <2>1, <2>2, FS_Bijection
<1>5. {s.to : s \in S} = 0..N - 1
    BY ONLY <1>1, <1>2
<1>6. ASSUME NEW s \in S PROVE s.from \subseteq 0..M - 1
    <2>1. PICK o \in 0..N - 1 : s = g[o]
        BY <1>2
    <2>2. QED
        BY <1>1, <2>1
<1>7. QED
    BY <1>4, <1>5, <1>6 DEF OnceEach, S

\* The bytes of n pixels of three bytes, and back.
LEMMA Thirds ==
    \A n \in Nat :
        /\ \A p \in 0..n - 1, c \in 0..2 :
                /\ 3 * p + c \in 0..3 * n - 1
                /\ (3 * p + c) \div 3 = p /\ (3 * p + c) % 3 = c
        /\ \A o \in 0..3 * n - 1 :
                /\ o \div 3 \in 0..n - 1 /\ o % 3 \in 0..2
                /\ o = 3 * (o \div 3) + (o % 3)
    OBVIOUS

\* Stores to the three bytes of n pixels, one for each, write every byte once.
LEMMA PixelsWritten ==
    ASSUME NEW n \in Nat, NEW M, NEW g,
           \A p \in 0..n - 1, c \in 0..2 : g[p][c] \subseteq 0..M - 1
    PROVE  OnceEach(PixelStores(n, g), 3 * n, M)
<1> DEFINE f == [o \in 0..3 * n - 1 |-> g[o \div 3][o % 3]]
<1>1. \A o \in 0..3 * n - 1 : f[o] = g[o \div 3][o % 3]
    OBVIOUS
<1> HIDE DEF f
<1>2. PixelStores(n, g) = ByteStores(3 * n, f)
    <2>1. ASSUME NEW p \in 0..n - 1, NEW c \in 0..2
          PROVE  \E o \in 0..3 * n - 1 : Store(3 * p + c, g[p][c]) = Store(o, f[o])
        <3>1. 3 * p + c \in 0..3 * n - 1 /\ f[3 * p + c] = g[p][c]
            BY <1>1, Thirds
        <3>2. QED
            BY <3>1
    <2>2. ASSUME NEW o \in 0..3 * n - 1
          PROVE  \E p \in 0..n - 1, c \in 0..2 : Store(o, f[o]) = Store(3 * p + c, g[p][c])
        <3>1. /\ o \div 3 \in 0..n - 1 /\ o % 3 \in 0..2
              /\ o = 3 * (o \div 3) + (o % 3)
            BY Thirds
        <3>2. QED
            BY <1>1, <3>1
    <2>3. QED
        BY <2>1, <2>2 DEF PixelStores, PixelAt, ByteStores
<1>3. \A o \in 0..3 * n - 1 : f[o] \subseteq 0..M - 1
    BY <1>1, Thirds
<1>4. 3 * n \in Nat
    OBVIOUS
<1>5. QED
    BY <1>2, <1>3, <1>4, Written

-----------------------------------------------------------------------------
(* The layouts *)

\* The pixel that comes at place p.
At(w, p) == <<p \div w, p % w>>

\* The pixels of block r, counted along the rows of blocks.
Block(w, r) ==
    LET i == 2 * (r \div (w \div 2))
        j == 2 * (r % (w \div 2))
    IN  {i, i + 1} \X {j, j + 1}

\* The channel at byte c of a pixel.
Colour(format, c) ==
    IF c = 1 THEN "G" ELSE IF c = Channel(format, "R") THEN "R" ELSE "B"

\* What the bytes of a YUYV image stand for (image.hh:40-77).
LEMMA YUYVLayout ==
    ASSUME NEW w, NEW h, NEW p \in Nat
    PROVE  /\ Component("YUYV", w, h, 2 * p) = "Y"
           /\ Component("YUYV", w, h, 4 * p + 1) = "U"
           /\ Component("YUYV", w, h, 4 * p + 3) = "V"
           /\ Pixels("YUYV", w, h, 2 * p) = {At(w, p)}
           /\ Pixels("YUYV", w, h, 4 * p + 1) = {At(w, 2 * p), At(w, 2 * p + 1)}
           /\ Pixels("YUYV", w, h, 4 * p + 3) = {At(w, 2 * p), At(w, 2 * p + 1)}
<1>1. /\ (2 * p) % 2 = 0 /\ (2 * p) \div 2 = p
      /\ (4 * p + 1) % 2 = 1 /\ (4 * p + 1) % 4 = 1 /\ (4 * p + 1) \div 4 = p
      /\ (4 * p + 3) % 2 = 1 /\ (4 * p + 3) % 4 = 3 /\ (4 * p + 3) \div 4 = p
    OBVIOUS
<1>2. QED
    BY <1>1 DEF Component, Pixels, At

\* Offset o of an image of n pixels, q in each of the planes of v and u.
InYV12(w, h, n, q, o) ==
    /\ o < n => Component("YV12", w, h, o) = "Y" /\ Pixels("YV12", w, h, o) = {At(w, o)}
    /\ n <= o /\ o < n + q => /\ Component("YV12", w, h, o) = "V"
                             /\ Pixels("YV12", w, h, o) = Block(w, o - n)
    /\ n + q <= o /\ o < n + 2 * q => /\ Component("YV12", w, h, o) = "U"
                                     /\ Pixels("YV12", w, h, o) = Block(w, o - n - q)

\* What the bytes of a YV12 image stand for.
LEMMA YV12Layout ==
    ASSUME NEW w, NEW h, NEW n, n \in Nat, n = w * h, NEW q, q \in Nat \ {0}, q = n \div 4,
           NEW o, o \in Nat
    PROVE  InYV12(w, h, n, q, o)
<1>1. ASSUME o < n
      PROVE  Component("YV12", w, h, o) = "Y" /\ Pixels("YV12", w, h, o) = {At(w, o)}
    BY <1>1 DEF Component, YV12Component, Pixels, At
<1>2. ASSUME n <= o
      PROVE  /\ Component("YV12", w, h, o) = IF o < n + q THEN "V" ELSE "U"
             /\ Pixels("YV12", w, h, o) = Block(w, (o - n) % q)
    <2>1. ~(o < n)
        BY <1>2
    <2>2. Component("YV12", w, h, o) = IF o < n + q THEN "V" ELSE "U"
        BY <2>1 DEF Component, YV12Component
    <2>3. Pixels("YV12", w, h, o) = Block(w, (o - n) % q)
        BY <2>1 DEF Pixels, Block
    <2>4. QED
        BY <2>2, <2>3
<1>3. ASSUME n <= o, o < n + q PROVE (o - n) % q = o - n
    <2>1. o - n \in 0..q - 1
        BY <1>3
    <2>2. QED
        BY <2>1
<1>4. ASSUME n + q <= o, o < n + 2 * q PROVE (o - n) % q = o - n - q
    <2> DEFINE r == o - n - q
    <2>1. r \in 0..q - 1 /\ o - n = q * 1 + r
        BY <1>4
    <2> HIDE DEF r
    <2>2. (q * 1 + r) % q = r
        BY <2>1, GridOf
    <2>3. QED
        BY <2>1, <2>2 DEF r
<1>5. QED
    BY <1>1, <1>2, <1>3, <1>4 DEF InYV12

\* What the bytes of an image with three bytes for a pixel stand for.
LEMMA ColourLayout ==
    ASSUME NEW w, NEW h, NEW format, format \in {"BGR888", "RGB888"}, NEW o, o \in Nat
    PROVE  /\ Component(format, w, h, o) = Colour(format, o % 3)
           /\ Pixels(format, w, h, o) = {At(w, o \div 3)}
           /\ Pixels("GRAYED", w, h, o) = {At(w, o \div 3)}
<1> DEFINE c == o % 3
<1>1. c \in 0..2
    OBVIOUS
<1>2. Component(format, w, h, o) = CHOOSE x \in {"R", "G", "B"} : Channel(format, x) = c
    BY DEF Component
<1> HIDE DEF c
<1>3. \A x \in {"R", "G", "B"} : Channel(format, x) = c <=> x = Colour(format, c)
    BY <1>1 DEF Channel, Colour
<1>4. Colour(format, c) \in {"R", "G", "B"}
    BY DEF Colour
<1>5. Component(format, w, h, o) = Colour(format, c)
    BY <1>2, <1>3, <1>4
<1>6. Pixels(format, w, h, o) = {At(w, o \div 3)} /\ Pixels("GRAYED", w, h, o) = {At(w, o \div 3)}
    BY DEF Pixels, At
<1>7. QED
    BY <1>5, <1>6 DEF c

\* What the bytes of a gray image stand for.
LEMMA GrayLayout ==
    ASSUME NEW w, NEW h, NEW o
    PROVE  /\ Component("GRAY", w, h, o) = "Y" /\ Component("GRAYED", w, h, o) = "Y"
           /\ Pixels("GRAY", w, h, o) = {At(w, o)}
    BY DEF Component, Pixels, At

-----------------------------------------------------------------------------
(* Stores that read the right bytes *)

\* RightPixels of a store, if the result shows the whole source.
Matches(from, to, w, h, s) ==
    /\ {Component(from, w, h, o) : o \in s.from} = Needs(from, Component(to, w, h, s.to))
    /\ \A o \in s.from : Pixels(from, w, h, o) \cap Pixels(to, w, h, s.to) # {}
    /\ Pixels(to, w, h, s.to) \subseteq UNION {Pixels(from, w, h, o) : o \in s.from}

\* Component c of pixel p can be computed from the bytes F.
Shows(from, w, h, F, c, p) ==
    /\ {Component(from, w, h, o) : o \in F} = Needs(from, c)
    /\ \A o \in F : At(w, p) \in Pixels(from, w, h, o)
    /\ F # {}

\* A store to a byte of pixel p that reads what shows p.
LEMMA ShowsMatches ==
    ASSUME NEW from, NEW to, NEW w, NEW h, NEW F, NEW c, NEW p, NEW t,
           Component(to, w, h, t) = c, Pixels(to, w, h, t) = {At(w, p)},
           Shows(from, w, h, F, c, p)
    PROVE  Matches(from, to, w, h, Store(t, F))
<1> DEFINE s == Store(t, F)
<1>1. s.to = t /\ s.from = F
    BY DEF Store
<1> HIDE DEF s
<1>2. {Component(from, w, h, o) : o \in s.from} = Needs(from, Component(to, w, h, s.to))
    BY <1>1 DEF Shows
<1>3. \A o \in s.from : Pixels(from, w, h, o) \cap Pixels(to, w, h, s.to) # {}
    BY <1>1 DEF Shows
<1>4. Pixels(to, w, h, s.to) \subseteq UNION {Pixels(from, w, h, o) : o \in s.from}
    BY <1>1 DEF Shows
<1>5. QED
    BY <1>2, <1>3, <1>4 DEF Matches, s

\* A conversion to three bytes for a pixel is right if each of them is.
LEMMA ColourTarget ==
    ASSUME NEW from, NEW to, to \in {"BGR888", "RGB888"}, NEW w, NEW h, NEW n \in Nat, NEW M,
           NEW g, \A p \in 0..n - 1, c \in 0..2 :
                g[p][c] \subseteq 0..M - 1 /\ Shows(from, w, h, g[p][c], Colour(to, c), p)
    PROVE  /\ OnceEach(PixelStores(n, g), 3 * n, M)
           /\ \A s \in PixelStores(n, g) : Matches(from, to, w, h, s)
<1>1. OnceEach(PixelStores(n, g), 3 * n, M)
    BY PixelsWritten
<1>2. ASSUME NEW s \in PixelStores(n, g) PROVE Matches(from, to, w, h, s)
    <2>1. PICK p \in 0..n - 1, c \in 0..2 : s = Store(3 * p + c, g[p][c])
        BY DEF PixelStores, PixelAt
    <2> DEFINE o == 3 * p + c
    <2>2. o \in Nat /\ o \div 3 = p /\ o % 3 = c /\ s = Store(o, g[p][c])
        BY <2>1
    <2> HIDE DEF o
    <2>3. Component(to, w, h, o) = Colour(to, c) /\ Pixels(to, w, h, o) = {At(w, p)}
        <3>1. /\ Component(to, w, h, o) = Colour(to, o % 3)
              /\ Pixels(to, w, h, o) = {At(w, o \div 3)}
            <4>1. to \in {"BGR888", "RGB888"} /\ o \in Nat
                BY <2>2
            <4>2. QED
                BY ONLY <4>1, ColourLayout
        <3>2. QED
            BY ONLY <2>2, <3>1
    <2>4. Shows(from, w, h, g[p][c], Colour(to, c), p)
        OBVIOUS
    <2>5. QED
        BY ONLY <2>2, <2>3, <2>4, ShowsMatches
<1>3. QED
    BY <1>1, <1>2

\* The bytes that YUVToRGB::convert computes byte c of a pixel from.
PixelFrom(format, c, y, u, v) ==
    IF c = 1 THEN {y, u, v} ELSE IF c = Channel(format, "R") THEN {y, v} ELSE {y, u}

\* YUVToRGB::convert stores one byte for each channel.
LEMMA PixelIsStores ==
    ASSUME NEW format, format \in {"BGR888", "RGB888"}, NEW at \in Nat, NEW y, NEW u, NEW v
    PROVE  Pixel(format, at, y, u, v)
               = {Store(at + c, PixelFrom(format, c, y, u, v)) : c \in 0..2}
<1>1. 0..2 = {0, 1, 2}
    OBVIOUS
<1>2. CASE format = "RGB888"
    BY <1>1, <1>2 DEF Pixel, PixelFrom, Channel
<1>3. CASE format = "BGR888"
    BY <1>1, <1>3 DEF Pixel, PixelFrom, Channel
<1>4. QED
    BY <1>2, <1>3

\* YUVToRGB::convert computes a channel from what it needs.
LEMMA PixelShows ==
    ASSUME NEW from, from \in {"YUYV", "YV12"}, NEW to, to \in {"BGR888", "RGB888"}, NEW w, NEW h,
           NEW p, NEW c \in 0..2, NEW y, NEW u, NEW v,
           Component(from, w, h, y) = "Y", Component(from, w, h, u) = "U",
           Component(from, w, h, v) = "V", At(w, p) \in Pixels(from, w, h, y),
           At(w, p) \in Pixels(from, w, h, u), At(w, p) \in Pixels(from, w, h, v)
    PROVE  Shows(from, w, h, PixelFrom(to, c, y, u, v), Colour(to, c), p)
<1>1. CASE c = 1
    <2>1. PixelFrom(to, c, y, u, v) = {y, u, v} /\ Colour(to, c) = "G"
        BY <1>1 DEF PixelFrom, Colour
    <2>2. Needs(from, "G") = {"Y", "U", "V"}
        BY DEF Needs
    <2>3. QED
        BY <2>1, <2>2 DEF Shows
<1>2. CASE c # 1 /\ c = Channel(to, "R")
    <2>1. PixelFrom(to, c, y, u, v) = {y, v} /\ Colour(to, c) = "R"
        BY <1>2 DEF PixelFrom, Colour
    <2>2. Needs(from, "R") = {"Y", "V"}
        BY DEF Needs
    <2>3. QED
        BY <2>1, <2>2 DEF Shows
<1>3. CASE c # 1 /\ c # Channel(to, "R")
    <2>1. PixelFrom(to, c, y, u, v) = {y, u} /\ Colour(to, c) = "B"
        BY <1>3 DEF PixelFrom, Colour
    <2>2. Needs(from, "B") = {"Y", "U"}
        BY DEF Needs
    <2>3. QED
        BY <2>1, <2>2 DEF Shows
<1>4. QED
    BY <1>1, <1>2, <1>3

\* SizesAssumption of one image.
EvenSize(w, h) == w \in Nat \ {0} /\ h \in Nat \ {0} /\ w % 2 = 0 /\ h % 2 = 0

\* An image of even size consists of blocks of two by two pixels.
LEMMA EvenSizeFacts ==
    ASSUME NEW w, NEW h, EvenSize(w, h)
    PROVE  /\ w \in Nat \ {0} /\ h \in Nat \ {0}
           /\ w \div 2 \in Nat \ {0} /\ w = 2 * (w \div 2)
           /\ h \div 2 \in Nat \ {0} /\ h = 2 * (h \div 2)
           /\ w * h \in Nat \ {0}
           /\ (w \div 2) * (h \div 2) \in Nat \ {0}
           /\ w * h = 4 * ((w \div 2) * (h \div 2))
           /\ (w * h) \div 4 = (w \div 2) * (h \div 2)
<1>1. /\ w \in Nat \ {0} /\ h \in Nat \ {0}
      /\ w \div 2 \in Nat \ {0} /\ w = 2 * (w \div 2)
      /\ h \div 2 \in Nat \ {0} /\ h = 2 * (h \div 2)
    BY DEF EvenSize
<1> DEFINE a == w \div 2
           b == h \div 2
<1>2. a \in Nat \ {0} /\ b \in Nat \ {0} /\ w = 2 * a /\ h = 2 * b
    BY <1>1
<1> HIDE DEF a, b
<1>3. w * h = 4 * (a * b) /\ a * b \in Nat \ {0}
    BY <1>2
<1>4. w * h \in Nat \ {0} /\ (w * h) \div 4 = a * b
    <2>1. \A k \in Nat \ {0} : 4 * k \in Nat \ {0} /\ (4 * k) \div 4 = k
        OBVIOUS
    <2>2. QED
        BY <1>3, <2>1
<1>5. QED
    BY <1>1, <1>3, <1>4 DEF a, b

\* The sizes of images, without the divisions.
LEMMA SourceSizes ==
    ASSUME NEW w, NEW h, EvenSize(w, h)
    PROVE  /\ SourceSize("YUYV", w, h) = 2 * (w * h)
           /\ SourceSize("YV12", w, h) = 6 * ((w * h) \div 4)
           /\ SourceSize("GRAY", w, h) = w * h
           /\ \A format \in {"BGR888", "RGB888", "GRAYED"} :
                    SourceSize(format, w, h) = 3 * (w * h)
<1> DEFINE n == w * h
<1>1. /\ w \in Nat /\ h \in Nat /\ n \in Nat /\ n % 4 = 0
      /\ 2 * w * h = 2 * n /\ 3 * w * h = 3 * n
    BY EvenSizeFacts
<1>2. (3 * n) \div 2 = 6 * (n \div 4)
    <2> HIDE DEF n
    <2> QED BY <1>1
<1>3. QED
    BY <1>1, <1>2 DEF SourceSize

\* What is allocated for the result of a conversion: as much as it needs.
LEMMA TargetSizes ==
    ASSUME NEW w, NEW h, EvenSize(w, h)
    PROVE  /\ TargetSize("YUYV", "YV12", w, h) = 6 * ((w * h) \div 4)
           /\ TargetSize("BGR888", "YV12", w, h) = 6 * ((w * h) \div 4)
           /\ TargetSize("BGR888", "GRAY", w, h) = w * h
           /\ TargetSize("BGR888", "RGB888", w, h) = 3 * (w * h)
           /\ \A from \in {"YUYV", "YV12", "RGB888", "GRAY"} :
                    TargetSize(from, "BGR888", w, h) = 3 * (w * h)
           /\ \A from \in {"YUYV", "YV12"} : TargetSize(from, "RGB888", w, h) = 3 * (w * h)
<1> DEFINE n == w * h
<1>1. n \in Nat /\ n % 4 = 0 /\ w * h * 3 = 3 * n
    BY EvenSizeFacts
<1>2. /\ SourceSize("YUYV", w, h) = 2 * n /\ SourceSize("GRAY", w, h) = n
      /\ SourceSize("BGR888", w, h) = 3 * n /\ SourceSize("RGB888", w, h) = 3 * n
    BY SourceSizes
<1>3. TargetSize("YUYV", "YV12", w, h) = ((2 * n) \div 4) * 3
    BY <1>2 DEF TargetSize
<1>4. TargetSize("BGR888", "YV12", w, h) = (w * h * 3) \div 2
    BY DEF TargetSize
<1>5. TargetSize("BGR888", "GRAY", w, h) = (3 * n) \div 3
    BY <1>2 DEF TargetSize
<1>6. TargetSize("BGR888", "RGB888", w, h) = 3 * n /\ TargetSize("RGB888", "BGR888", w, h) = 3 * n
    BY <1>2 DEF TargetSize
<1>7. /\ TargetSize("YUYV", "BGR888", w, h) = w * h * 3
      /\ TargetSize("YUYV", "RGB888", w, h) = w * h * 3
      /\ TargetSize("YV12", "BGR888", w, h) = w * h * 3
      /\ TargetSize("YV12", "RGB888", w, h) = w * h * 3
    BY DEF TargetSize
<1>8. TargetSize("GRAY", "BGR888", w, h) = n * 3
    BY <1>2 DEF TargetSize
<1> HIDE DEF n
<1>9. /\ ((2 * n) \div 4) * 3 = 6 * (n \div 4) /\ (3 * n) \div 2 = 6 * (n \div 4)
      /\ (3 * n) \div 3 = n /\ n * 3 = 3 * n
    BY <1>1
<1>10. QED
    BY <1>1, <1>3, <1>4, <1>5, <1>6, <1>7, <1>8, <1>9 DEF n

\* A conversion with the properties EveryByteOnce and RightPixels.
Right(from, to, w, h) ==
    /\ OnceEach(Stores(from, to, w, h), TargetSize(from, to, w, h), SourceSize(from, w, h))
    /\ TargetSize(from, to, w, h) = SourceSize(to, w, h)
    /\ \A s \in Stores(from, to, w, h) : Matches(from, to, w, h, s)

-----------------------------------------------------------------------------
(* The conversions (convert.cc:106-468) *)

\* YUYV to BGR888 and RGB888.
LEMMA YUYVToColour ==
    ASSUME NEW to, to \in {"BGR888", "RGB888"}, NEW w, NEW h, EvenSize(w, h)
    PROVE  Right("YUYV", to, w, h)
<1> DEFINE n == w * h
           g == [p \in 0..n - 1 |-> [c \in 0..2 |->
                    PixelFrom(to, c, 2 * p, 4 * (p \div 2) + 1, 4 * (p \div 2) + 3)]]
<1>1. n \in Nat \ {0} /\ n % 4 = 0
    BY EvenSizeFacts
<1>2. \A p \in 0..n - 1, c \in 0..2 :
        g[p][c] = PixelFrom(to, c, 2 * p, 4 * (p \div 2) + 1, 4 * (p \div 2) + 3)
    OBVIOUS
<1>3. /\ SourceSize("YUYV", w, h) = 2 * n /\ SourceSize(to, w, h) = 3 * n
      /\ TargetSize("YUYV", to, w, h) = 3 * n
      /\ Stores("YUYV", to, w, h) = YUYVToRGB(to, w, h)
    <2>1. SourceSize("YUYV", w, h) = 2 * n /\ SourceSize(to, w, h) = 3 * n
        BY SourceSizes
    <2>2. TargetSize("YUYV", to, w, h) = 3 * n
        BY <1>1, TargetSizes
    <2>3. Stores("YUYV", to, w, h) = YUYVToRGB(to, w, h)
        BY DEF Stores
    <2>4. QED
        BY <2>1, <2>2, <2>3
<1> HIDE DEF g
<1>4. YUYVToRGB(to, w, h) = PixelStores(n, g)
    <2> DEFINE even(k) == Pixel(to, 6 * k, 4 * k, 4 * k + 1, 4 * k + 3)
               odd(k) == Pixel(to, 6 * k + 3, 4 * k + 2, 4 * k + 1, 4 * k + 3)
               at(p) == {Store(3 * p + c, g[p][c]) : c \in 0..2}
    <2>1. ASSUME NEW k \in 0..(n \div 2) - 1
          PROVE  /\ 2 * k \in 0..n - 1 /\ even(k) = at(2 * k)
                 /\ 2 * k + 1 \in 0..n - 1 /\ odd(k) = at(2 * k + 1)
        <3>1. /\ 2 * k \in 0..n - 1 /\ (2 * k) \div 2 = k
              /\ 2 * k + 1 \in 0..n - 1 /\ (2 * k + 1) \div 2 = k
              /\ 3 * (2 * k) = 6 * k /\ 3 * (2 * k + 1) = 6 * k + 3 /\ 2 * (2 * k) = 4 * k
              /\ 2 * (2 * k + 1) = 4 * k + 2 /\ 6 * k \in Nat /\ 6 * k + 3 \in Nat
            BY <1>1
        <3>2. /\ even(k) = {Store(6 * k + c, PixelFrom(to, c, 4 * k, 4 * k + 1, 4 * k + 3)) :
                                c \in 0..2}
              /\ odd(k) = {Store(6 * k + 3 + c, PixelFrom(to, c, 4 * k + 2, 4 * k + 1, 4 * k + 3)) :
                                c \in 0..2}
            BY <3>1, PixelIsStores
        <3>3. \A c \in 0..2 :
                /\ g[2 * k][c] = PixelFrom(to, c, 4 * k, 4 * k + 1, 4 * k + 3)
                /\ g[2 * k + 1][c] = PixelFrom(to, c, 4 * k + 2, 4 * k + 1, 4 * k + 3)
            BY <1>2, <3>1
        <3>4. QED
            BY <3>1, <3>2, <3>3
    <2>2. ASSUME NEW p \in 0..n - 1
          PROVE  \E k \in 0..(n \div 2) - 1 : at(p) = even(k) \/ at(p) = odd(k)
        <3>1. PICK k \in 0..(n \div 2) - 1 : p = 2 * k \/ p = 2 * k + 1
            <4>1. p \div 2 \in 0..(n \div 2) - 1
                  /\ (p = 2 * (p \div 2) \/ p = 2 * (p \div 2) + 1)
                BY <1>1
            <4>2. QED
                BY <4>1
        <3>2. QED
            BY <2>1, <3>1
    <2> HIDE DEF even, odd, at
    <2>3. YUYVToRGB(to, w, h) = UNION {even(k) \cup odd(k) : k \in 0..(n \div 2) - 1}
        BY DEF YUYVToRGB, even, odd, Upto
    <2>4. PixelStores(n, g) = UNION {at(p) : p \in 0..n - 1}
        BY DEF PixelStores, PixelAt, at
    <2>5. QED
        BY <2>1, <2>2, <2>3, <2>4
<1>5. ASSUME NEW p \in 0..n - 1, NEW c \in 0..2
      PROVE  g[p][c] \subseteq 0..2 * n - 1 /\ Shows("YUYV", w, h, g[p][c], Colour(to, c), p)
    <2> DEFINE k == p \div 2
    <2>1. /\ k \in Nat /\ p \in Nat /\ (p = 2 * k \/ p = 2 * k + 1)
          /\ 2 * p \in 0..2 * n - 1 /\ 4 * k + 1 \in 0..2 * n - 1 /\ 4 * k + 3 \in 0..2 * n - 1
          /\ g[p][c] = PixelFrom(to, c, 2 * p, 4 * k + 1, 4 * k + 3)
        BY <1>1, <1>2
    <2> HIDE DEF k
    <2>2. g[p][c] \subseteq 0..2 * n - 1
        BY <2>1 DEF PixelFrom
    <2>3. Shows("YUYV", w, h, PixelFrom(to, c, 2 * p, 4 * k + 1, 4 * k + 3), Colour(to, c), p)
        <3>1. /\ Component("YUYV", w, h, 2 * p) = "Y"
              /\ At(w, p) \in Pixels("YUYV", w, h, 2 * p)
            BY <2>1, YUYVLayout
        <3>2. /\ Component("YUYV", w, h, 4 * k + 1) = "U"
              /\ Component("YUYV", w, h, 4 * k + 3) = "V"
              /\ At(w, p) \in Pixels("YUYV", w, h, 4 * k + 1)
              /\ At(w, p) \in Pixels("YUYV", w, h, 4 * k + 3)
            BY <2>1, YUYVLayout
        <3>3. QED
            BY <3>1, <3>2, PixelShows
    <2>4. QED
        BY <2>1, <2>2, <2>3
<1>6. /\ OnceEach(PixelStores(n, g), 3 * n, 2 * n)
      /\ \A s \in PixelStores(n, g) : Matches("YUYV", to, w, h, s)
    BY <1>1, <1>5, ColourTarget
<1>7. QED
    BY <1>3, <1>4, <1>6 DEF Right

\* BGR888 to RGB888 and back.
LEMMA SwapColours ==
    ASSUME NEW from, NEW to, {from, to} = {"BGR888", "RGB888"}, from # to,
           NEW w, NEW h, EvenSize(w, h)
    PROVE  Right(from, to, w, h)
<1> DEFINE n == w * h
           g == [p \in 0..n - 1 |-> [c \in 0..2 |-> {3 * p + 2 - c}]]
<1>1. n \in Nat \ {0} /\ from \in {"BGR888", "RGB888"} /\ to \in {"BGR888", "RGB888"}
    BY EvenSizeFacts
<1>2. \A p \in 0..n - 1, c \in 0..2 : g[p][c] = {3 * p + 2 - c}
    OBVIOUS
<1>3. /\ SourceSize(from, w, h) = 3 * n /\ SourceSize(to, w, h) = 3 * n
      /\ TargetSize(from, to, w, h) = 3 * n
    BY <1>1, SourceSizes, TargetSizes
<1>4. Stores(from, to, w, h) = Reversed(w, h)
    <2>1. CASE from = "BGR888" /\ to = "RGB888"
        BY <2>1 DEF Stores
    <2>2. CASE from = "RGB888" /\ to = "BGR888"
        BY <2>2 DEF Stores
    <2>3. QED
        BY <1>1, <2>1, <2>2
<1> HIDE DEF g
<1>5. Reversed(w, h) = PixelStores(n, g)
    <2> DEFINE F(p, c) == {3 * p + 2 - c}
    <2>1. Reversed(w, h) = {Store(PixelAt(p, c), F(p, c)) : p \in 0..n - 1, c \in 0..2}
        BY DEF Reversed, Upto, PixelAt
    <2>2. \A p \in 0..n - 1, c \in 0..2 : g[p][c] = F(p, c)
        BY <1>2
    <2> HIDE DEF n, F
    <2>3. QED
        BY ONLY <2>1, <2>2 DEF PixelStores
<1>6. ASSUME NEW p \in 0..n - 1, NEW c \in 0..2
      PROVE  g[p][c] \subseteq 0..3 * n - 1 /\ Shows(from, w, h, g[p][c], Colour(to, c), p)
    <2> DEFINE o == 3 * p + 2 - c
    <2>1. /\ o \in Nat /\ o \in 0..3 * n - 1 /\ o \div 3 = p /\ o % 3 = 2 - c
          /\ g[p][c] = {o}
        <3> DEFINE d == 2 - c
        <3>1. d \in 0..2 /\ o = 3 * p + d /\ g[p][c] = {o} /\ p \in Nat
            BY <1>1, <1>2
        <3> HIDE DEF o, n
        <3>2. n \in Nat
            BY <1>1
        <3> HIDE DEF d
        <3>3. o \in 0..3 * n - 1 /\ o \div 3 = p /\ o % 3 = d
            BY <3>1, <3>2, Thirds
        <3>4. o \in Nat
            BY <3>1
        <3>5. QED
            BY <3>1, <3>3, <3>4 DEF d
    <2> HIDE DEF o
    <2>2. Component(from, w, h, o) = Colour(from, 2 - c) /\ Pixels(from, w, h, o) = {At(w, p)}
        <3>1. /\ Component(from, w, h, o) = Colour(from, o % 3)
              /\ Pixels(from, w, h, o) = {At(w, o \div 3)}
            <4>1. from \in {"BGR888", "RGB888"} /\ o \in Nat
                BY <1>1, <2>1
            <4>2. QED
                BY ONLY <4>1, ColourLayout
        <3>2. QED
            BY ONLY <2>1, <3>1
    <2>3. Colour(from, 2 - c) = Colour(to, c) /\ Needs(from, Colour(to, c)) = {Colour(to, c)}
        <3>1. Colour(to, c) \in {"R", "G", "B"}
            BY DEF Colour
        <3>2. c = 0 \/ c = 1 \/ c = 2
            OBVIOUS
        <3>3. Colour(from, 2 - c) = Colour(to, c)
            BY <1>1, <3>2 DEF Colour, Channel
        <3>4. QED
            BY <1>1, <3>1, <3>3 DEF Needs
    <2>4. QED
        BY <2>1, <2>2, <2>3 DEF Shows
<1>7. /\ OnceEach(PixelStores(n, g), 3 * n, 3 * n)
      /\ \A s \in PixelStores(n, g) : Matches(from, to, w, h, s)
    BY <1>1, <1>6, ColourTarget
<1>8. QED
    BY <1>3, <1>4, <1>5, <1>7 DEF Right

\* GRAY to BGR888.
LEMMA GrayToColour ==
    ASSUME NEW w, NEW h, EvenSize(w, h)
    PROVE  Right("GRAY", "BGR888", w, h)
<1> DEFINE n == w * h
           g == [p \in 0..n - 1 |-> [c \in 0..2 |-> {p}]]
<1>1. n \in Nat \ {0}
    BY EvenSizeFacts
<1>2. \A p \in 0..n - 1, c \in 0..2 : g[p][c] = {p}
    OBVIOUS
<1>3. /\ SourceSize("GRAY", w, h) = n /\ SourceSize("BGR888", w, h) = 3 * n
      /\ TargetSize("GRAY", "BGR888", w, h) = 3 * n
    BY SourceSizes, TargetSizes
<1>4. Stores("GRAY", "BGR888", w, h) = GrayToBGR(w, h)
    BY DEF Stores
<1> HIDE DEF g
<1>5. GrayToBGR(w, h) = PixelStores(n, g)
    <2> DEFINE F(p, c) == {p}
    <2>1. GrayToBGR(w, h) = {Store(PixelAt(p, c), F(p, c)) : p \in 0..n - 1, c \in 0..2}
        BY DEF GrayToBGR, Upto, PixelAt
    <2>2. \A p \in 0..n - 1, c \in 0..2 : g[p][c] = F(p, c)
        BY <1>2
    <2> HIDE DEF n, F
    <2>3. QED
        BY ONLY <2>1, <2>2 DEF PixelStores
<1>6. ASSUME NEW p \in 0..n - 1, NEW c \in 0..2
      PROVE  /\ g[p][c] \subseteq 0..n - 1
             /\ Shows("GRAY", w, h, g[p][c], Colour("BGR888", c), p)
    <2>1. Component("GRAY", w, h, p) = "Y" /\ Pixels("GRAY", w, h, p) = {At(w, p)}
        BY GrayLayout
    <2>2. Needs("GRAY", Colour("BGR888", c)) = {"Y"}
        BY DEF Needs
    <2>3. QED
        BY <1>2, <2>1, <2>2 DEF Shows
<1>7. /\ OnceEach(PixelStores(n, g), 3 * n, n)
      /\ \A s \in PixelStores(n, g) : Matches("GRAY", "BGR888", w, h, s)
    BY <1>1, <1>6, ColourTarget
<1>8. QED
    BY <1>3, <1>4, <1>5, <1>7 DEF Right

\* The bytes of pixel p.
PixelBytes(p) == {3 * p + c : c \in 0..2}

\* The three bytes of a pixel show all of it.
LEMMA PixelBytesShow ==
    ASSUME NEW w, NEW h, NEW p \in Nat
    PROVE  Shows("BGR888", w, h, PixelBytes(p), "Y", p)
<1>1. \A c \in 0..2 : 3 * p + c \in Nat /\ (3 * p + c) \div 3 = p /\ (3 * p + c) % 3 = c
    OBVIOUS
<1>2. \A o \in PixelBytes(p) : o \in Nat /\ o \div 3 = p /\ o % 3 \in 0..2
    BY <1>1 DEF PixelBytes
<1>3. ASSUME NEW o \in PixelBytes(p)
      PROVE  /\ Component("BGR888", w, h, o) = Colour("BGR888", o % 3)
             /\ Pixels("BGR888", w, h, o) = {At(w, p)}
    <2>1. o \in Nat /\ o \div 3 = p
        BY <1>2
    <2>2. /\ Component("BGR888", w, h, o) = Colour("BGR888", o % 3)
          /\ Pixels("BGR888", w, h, o) = {At(w, o \div 3)}
        BY <2>1, ColourLayout
    <2>3. QED
        BY ONLY <2>1, <2>2
<1>4. \A c \in 0..2 : 3 * p + c \in PixelBytes(p)
    BY DEF PixelBytes
<1>5. \A c \in 0..2 : Component("BGR888", w, h, 3 * p + c) = Colour("BGR888", c)
    BY <1>1, <1>3, <1>4
<1>6. Colour("BGR888", 0) = "B" /\ Colour("BGR888", 1) = "G" /\ Colour("BGR888", 2) = "R"
    BY DEF Colour, Channel
<1>7. \A c \in 0..2 : c = 0 \/ c = 1 \/ c = 2
    OBVIOUS
<1>8. \A c \in 0..2 : Colour("BGR888", c) \in {"R", "G", "B"}
    BY DEF Colour
<1>9. {Component("BGR888", w, h, o) : o \in PixelBytes(p)} = {"R", "G", "B"}
    <2>1. \A o \in PixelBytes(p) : Component("BGR888", w, h, o) \in {"R", "G", "B"}
        BY <1>2, <1>3, <1>8
    <2>2. \A x \in {"R", "G", "B"} : \E o \in PixelBytes(p) : Component("BGR888", w, h, o) = x
        <3>1. 0 \in 0..2 /\ 1 \in 0..2 /\ 2 \in 0..2
            OBVIOUS
        <3>2. QED
            BY <1>4, <1>5, <1>6, <3>1
    <2>3. QED
        BY ONLY <2>1, <2>2
<1>10. Needs("BGR888", "Y") = {"R", "G", "B"}
    BY DEF Needs
<1>11. PixelBytes(p) # {}
    BY <1>4
<1>12. QED
    BY <1>3, <1>9, <1>10, <1>11 DEF Shows

\* A conversion is right if each of its bytes is.
LEMMA ByteTarget ==
    ASSUME NEW from, NEW to, NEW w, NEW h, NEW N, N \in Nat, NEW M, NEW f,
           \A o \in 0..N - 1 : f[o] \subseteq 0..M - 1 /\ Matches(from, to, w, h, Store(o, f[o]))
    PROVE  /\ OnceEach(ByteStores(N, f), N, M)
           /\ \A s \in ByteStores(N, f) : Matches(from, to, w, h, s)
<1>1. OnceEach(ByteStores(N, f), N, M)
    BY Written
<1>2. \A s \in ByteStores(N, f) : Matches(from, to, w, h, s)
    BY DEF ByteStores
<1>3. QED
    BY <1>1, <1>2

\* BGR888 to GRAY.
LEMMA ColourToGray ==
    ASSUME NEW w, NEW h, EvenSize(w, h)
    PROVE  Right("BGR888", "GRAY", w, h)
<1> DEFINE n == w * h
           f == [o \in 0..n - 1 |-> PixelBytes(o)]
<1>1. n \in Nat \ {0}
    BY EvenSizeFacts
<1>2. \A o \in 0..n - 1 : f[o] = PixelBytes(o)
    OBVIOUS
<1>3. /\ SourceSize("BGR888", w, h) = 3 * n /\ SourceSize("GRAY", w, h) = n
      /\ TargetSize("BGR888", "GRAY", w, h) = n
    BY SourceSizes, TargetSizes
<1>4. Stores("BGR888", "GRAY", w, h) = BGRToGray(w, h)
    BY DEF Stores
<1>5. BGRToGray(w, h) = {Store(o, PixelBytes(o)) : o \in 0..n - 1}
    BY DEF BGRToGray, Upto, PixelBytes
<1> HIDE DEF f
<1>6. BGRToGray(w, h) = ByteStores(n, f)
    <2> HIDE DEF n
    <2> QED BY ONLY <1>2, <1>5 DEF ByteStores
<1>7. ASSUME NEW o \in 0..n - 1
      PROVE  f[o] \subseteq 0..3 * n - 1 /\ Matches("BGR888", "GRAY", w, h, Store(o, f[o]))
    <2>1. o \in Nat /\ f[o] = PixelBytes(o)
        BY <1>1, <1>2
    <2>2. f[o] \subseteq 0..3 * n - 1
        BY <1>1, <2>1 DEF PixelBytes
    <2>3. Shows("BGR888", w, h, f[o], "Y", o)
        BY <2>1, PixelBytesShow
    <2>4. Component("GRAY", w, h, o) = "Y" /\ Pixels("GRAY", w, h, o) = {At(w, o)}
        BY GrayLayout
    <2>5. QED
        BY <2>2, <2>3, <2>4, ShowsMatches
<1>8. /\ OnceEach(ByteStores(n, f), n, 3 * n)
      /\ \A s \in ByteStores(n, f) : Matches("BGR888", "GRAY", w, h, s)
    BY <1>1, <1>7, ByteTarget
<1>9. QED
    BY <1>3, <1>4, <1>6, <1>8 DEF Right

\* Rows of w and h of them: where row and column are, and back.
IsGrid(w, h) ==
    /\ \A i \in 0..h - 1, j \in 0..w - 1 :
            /\ i * w + j \in 0..w * h - 1
            /\ (i * w + j) \div w = i /\ (i * w + j) % w = j
    /\ \A p \in 0..w * h - 1 :
            /\ p \div w \in 0..h - 1 /\ p % w \in 0..w - 1
            /\ p = (p \div w) * w + (p % w)

\* Rows and columns are found by division.
LEMMA GridFacts ==
    ASSUME NEW w, w \in Nat \ {0}, NEW h, h \in Nat
    PROVE  IsGrid(w, h)
<1>1. ASSUME NEW i \in 0..h - 1, NEW j \in 0..w - 1
      PROVE  /\ i * w + j \in 0..w * h - 1
             /\ (i * w + j) \div w = i /\ (i * w + j) % w = j
    <2>1. w * i + j \in 0..w * h - 1
        BY GridIn
    <2>2. (w * i + j) \div w = i /\ (w * i + j) % w = j
        BY GridOf
    <2>3. w * i = i * w
        OBVIOUS
    <2>4. QED
        BY <2>1, <2>2, <2>3
<1>2. ASSUME NEW p \in 0..w * h - 1
      PROVE  /\ p \div w \in 0..h - 1 /\ p % w \in 0..w - 1
             /\ p = (p \div w) * w + (p % w)
    <2>1. /\ p \div w \in 0..h - 1 /\ p % w \in 0..w - 1
          /\ p = w * (p \div w) + (p % w)
        BY GridSplit
    <2>2. w * (p \div w) = (p \div w) * w
        BY <2>1
    <2>3. QED
        BY <2>1, <2>2
<1>3. QED
    BY <1>1, <1>2 DEF IsGrid

\* The place of pixel p within a plane of one byte for four pixels.
UV(w, p) == ((p \div w) \div 2) * (w \div 2) + (p % w) \div 2

\* A pixel belongs to the block of its u and v.
LEMMA UVFacts ==
    ASSUME NEW w, NEW h, EvenSize(w, h)
    PROVE  \A p \in 0..w * h - 1 :
                UV(w, p) \in 0..(w * h) \div 4 - 1 /\ At(w, p) \in Block(w, UV(w, p))
<1> DEFINE a == w \div 2
           b == h \div 2
<1>1. /\ a \in Nat \ {0} /\ w = 2 * a /\ w \in Nat \ {0}
      /\ b \in Nat \ {0} /\ h = 2 * b /\ h \in Nat /\ (w * h) \div 4 = a * b
    BY EvenSizeFacts
<1>2. ASSUME NEW p \in 0..w * h - 1
      PROVE  UV(w, p) \in 0..(w * h) \div 4 - 1 /\ At(w, p) \in Block(w, UV(w, p))
    <2> DEFINE i == p \div w
               j == p % w
               r == UV(w, p)
    <2>1. i \in 0..h - 1 /\ j \in 0..w - 1
        BY <1>1, GridFacts DEF IsGrid
    <2>2. r = (i \div 2) * a + (j \div 2)
        BY DEF UV
    <2>3. At(w, p) = <<i, j>>
        BY DEF At
    <2>4. Block(w, r) = {2 * (r \div a), 2 * (r \div a) + 1} \X {2 * (r % a), 2 * (r % a) + 1}
        BY DEF Block
    <2> HIDE DEF i, j, r, a, b
    <2>5. i \div 2 \in 0..b - 1 /\ j \div 2 \in 0..a - 1
        BY <1>1, <2>1
    <2>6. r \in 0..a * b - 1 /\ r \div a = i \div 2 /\ r % a = j \div 2
        <3>1. \A x \in 0..b - 1, y \in 0..a - 1 :
                /\ x * a + y \in 0..a * b - 1
                /\ (x * a + y) \div a = x /\ (x * a + y) % a = y
            BY <1>1, GridFacts DEF IsGrid
        <3>2. QED
            BY <2>2, <2>5, <3>1
    <2>7. i \in {2 * (i \div 2), 2 * (i \div 2) + 1} /\ j \in {2 * (j \div 2), 2 * (j \div 2) + 1}
        BY <2>1, <1>1
    <2>8. QED
        BY <1>1, <2>3, <2>4, <2>6, <2>7 DEF r
<1>3. QED
    BY <1>2

\* YV12 to BGR888 and RGB888.
LEMMA YV12ToColour ==
    ASSUME NEW to, to \in {"BGR888", "RGB888"}, NEW w, NEW h, EvenSize(w, h)
    PROVE  Right("YV12", to, w, h)
<1> DEFINE n == w * h
           q == n \div 4
           F(p, c) == PixelFrom(to, c, p, n + q + UV(w, p), n + UV(w, p))
           g == [p \in 0..n - 1 |-> [c \in 0..2 |-> F(p, c)]]
           pixel(p) == {Store(PixelAt(p, c), F(p, c)) : c \in 0..2}
<1>1. n \in Nat \ {0} /\ q \in Nat \ {0} /\ n = 4 * q /\ w \in Nat \ {0} /\ h \in Nat \ {0}
    BY EvenSizeFacts
<1>2. \A p \in 0..n - 1, c \in 0..2 : g[p][c] = F(p, c)
    OBVIOUS
<1>3. /\ SourceSize("YV12", w, h) = 6 * q /\ SourceSize(to, w, h) = 3 * n
      /\ TargetSize("YV12", to, w, h) = 3 * n
    BY SourceSizes, TargetSizes
<1>4. Stores("YV12", to, w, h) = YV12ToRGB(to, w, h)
    BY DEF Stores
<1> DEFINE stores(i, j) == Pixel(to, 3 * (i * w + j), i * w + j,
                                w * h + (w * h) \div 4 + ((i \div 2) * (w \div 2) + j \div 2),
                                w * h + ((i \div 2) * (w \div 2) + j \div 2))
<1>5. YV12ToRGB(to, w, h) = UNION {stores(i, j) : i \in 0..h - 1, j \in 0..w - 1}
    BY DEF YV12ToRGB, Upto
<1>6. ASSUME NEW i \in 0..h - 1, NEW j \in 0..w - 1
      PROVE  i * w + j \in 0..n - 1 /\ stores(i, j) = pixel(i * w + j)
    <2> DEFINE p == i * w + j
    <2>1. p \in 0..n - 1 /\ p \div w = i /\ p % w = j
        BY <1>1, GridFacts DEF IsGrid
    <2>2. stores(i, j) = Pixel(to, 3 * p, p, n + q + UV(w, p), n + UV(w, p))
        BY <2>1 DEF UV
    <2>3. 3 * p \in Nat
        BY <1>1, <2>1
    <2>4. Pixel(to, 3 * p, p, n + q + UV(w, p), n + UV(w, p))
            = {Store(3 * p + c, F(p, c)) : c \in 0..2}
        BY <2>3, PixelIsStores
    <2>5. pixel(p) = {Store(3 * p + c, F(p, c)) : c \in 0..2}
        BY DEF PixelAt
    <2>6. QED
        BY <2>1, <2>2, <2>4, <2>5
<1> HIDE DEF g, stores
<1>7. YV12ToRGB(to, w, h) = PixelStores(n, g)
    <2>1. ASSUME NEW p \in 0..n - 1
          PROVE  \E i \in 0..h - 1, j \in 0..w - 1 : p = i * w + j
        <3>1. p \div w \in 0..h - 1 /\ p % w \in 0..w - 1 /\ p = (p \div w) * w + (p % w)
            BY <1>1, GridFacts DEF IsGrid
        <3>2. QED
            BY <3>1
    <2> HIDE DEF n, F
    <2>2. PixelStores(n, g) = UNION {pixel(p) : p \in 0..n - 1}
        BY <1>2 DEF PixelStores
    <2> HIDE DEF pixel
    <2>3. QED
        BY <1>5, <1>6, <2>1, <2>2
<1>8. ASSUME NEW p \in 0..n - 1, NEW c \in 0..2
      PROVE  g[p][c] \subseteq 0..6 * q - 1 /\ Shows("YV12", w, h, g[p][c], Colour(to, c), p)
    <2> DEFINE r == UV(w, p)
    <2>1. /\ r \in Nat /\ r < q /\ p \in Nat /\ p < n /\ At(w, p) \in Block(w, r)
          /\ n + q + r \in 0..6 * q - 1 /\ n + r \in 0..6 * q - 1 /\ p \in 0..6 * q - 1
        BY <1>1, UVFacts
    <2>2. g[p][c] = PixelFrom(to, c, p, n + q + r, n + r)
        BY <1>2
    <2>3. g[p][c] \subseteq 0..6 * q - 1
        BY <2>1, <2>2 DEF PixelFrom
    <2> DEFINE u == n + q + r
               v == n + r
    <2>4. /\ u \in Nat /\ n + q <= u /\ u < n + 2 * q /\ u - n - q = r
          /\ v \in Nat /\ n <= v /\ v < n + q /\ v - n = r
          /\ n = w * h /\ q = n \div 4 /\ q \in Nat \ {0} /\ n \in Nat
        BY <1>1, <2>1
    <2> HIDE DEF r, u, v, n, q
    <2>5. Component("YV12", w, h, p) = "Y" /\ At(w, p) \in Pixels("YV12", w, h, p)
        BY <2>1, <2>4, YV12Layout DEF InYV12
    <2>6. Component("YV12", w, h, u) = "U" /\ At(w, p) \in Pixels("YV12", w, h, u)
        BY <2>1, <2>4, YV12Layout DEF InYV12
    <2>7. Component("YV12", w, h, v) = "V" /\ At(w, p) \in Pixels("YV12", w, h, v)
        BY <2>1, <2>4, YV12Layout DEF InYV12
    <2>8. Shows("YV12", w, h, PixelFrom(to, c, p, u, v), Colour(to, c), p)
        BY ONLY <2>5, <2>6, <2>7, PixelShows, to \in {"BGR888", "RGB888"}, c \in 0..2
    <2>9. QED
        BY <2>2, <2>3, <2>8 DEF u, v
<1>9. /\ OnceEach(PixelStores(n, g), 3 * n, 6 * q)
      /\ \A s \in PixelStores(n, g) : Matches("YV12", to, w, h, s)
    BY <1>1, <1>8, ColourTarget
<1>10. QED
    BY <1>3, <1>4, <1>7, <1>9 DEF Right

\* A plane of N bytes, and the three of a YV12 image.
PlaneAt(start, o) == start + o
PlaneStores(start, N, f) == {Store(PlaneAt(start, o), f[o]) : o \in 0..N - 1}

Planar(n, q, l, v, u) == ByteStores(n, l) \cup PlaneStores(n, q, v) \cup PlaneStores(n + q, q, u)

\* Component c of the pixels of block r can be computed from the bytes F.
ShowsBlock(from, w, h, F, c, r) ==
    /\ {Component(from, w, h, o) : o \in F} = Needs(from, c)
    /\ \A o \in F : Pixels(from, w, h, o) \cap Block(w, r) # {}
    /\ Block(w, r) \subseteq UNION {Pixels(from, w, h, o) : o \in F}

\* A store to a byte of block r that reads what shows r.
LEMMA ShowsBlockMatches ==
    ASSUME NEW from, NEW to, NEW w, NEW h, NEW F, NEW c, NEW r, NEW t,
           Component(to, w, h, t) = c, Pixels(to, w, h, t) = Block(w, r),
           ShowsBlock(from, w, h, F, c, r)
    PROVE  Matches(from, to, w, h, Store(t, F))
<1> DEFINE s == Store(t, F)
<1>1. s.to = t /\ s.from = F
    BY DEF Store
<1> HIDE DEF s
<1>2. QED
    BY <1>1 DEF ShowsBlock, Matches, s

\* A conversion to YV12 is right if the luma bytes l and the planes v and u are.
LEMMA PlanarTarget ==
    ASSUME NEW from, NEW w, NEW h, NEW n, n \in Nat, n = w * h, NEW q, q \in Nat \ {0}, n = 4 * q,
           NEW M, NEW l, NEW v, NEW u,
           \A p \in 0..n - 1 : l[p] \subseteq 0..M - 1 /\ Shows(from, w, h, l[p], "Y", p),
           \A r \in 0..q - 1 : v[r] \subseteq 0..M - 1 /\ ShowsBlock(from, w, h, v[r], "V", r),
           \A r \in 0..q - 1 : u[r] \subseteq 0..M - 1 /\ ShowsBlock(from, w, h, u[r], "U", r)
    PROVE  /\ OnceEach(Planar(n, q, l, v, u), 6 * q, M)
           /\ \A s \in Planar(n, q, l, v, u) : Matches(from, "YV12", w, h, s)
<1> DEFINE N == 6 * q
           f == [o \in 0..N - 1 |-> IF o < n THEN l[o] ELSE IF o < n + q THEN v[o - n]
                                     ELSE u[o - n - q]]
<1>1. \A o \in 0..N - 1 :
        /\ o < n => f[o] = l[o]
        /\ n <= o /\ o < n + q => f[o] = v[o - n]
        /\ n + q <= o => f[o] = u[o - n - q]
    OBVIOUS
<1>2. N \in Nat /\ N = n + 2 * q /\ q = n \div 4
    OBVIOUS
<1> HIDE DEF f, N
<1>3. ASSUME NEW o, o \in 0..N - 1
      PROVE  /\ f[o] \subseteq 0..M - 1 /\ Matches(from, "YV12", w, h, Store(o, f[o]))
             /\ Store(o, f[o]) \in Planar(n, q, l, v, u)
    <2>1. o \in Nat
        BY <1>2, <1>3
    <2>2. CASE o < n
        <3>1. o \in 0..n - 1 /\ f[o] = l[o]
            BY <1>1, <1>2, <1>3, <2>2
        <3>2. Component("YV12", w, h, o) = "Y" /\ Pixels("YV12", w, h, o) = {At(w, o)}
            BY <1>2, <2>1, <2>2, YV12Layout DEF InYV12
        <3>3. Matches(from, "YV12", w, h, Store(o, l[o]))
            BY <3>1, <3>2, ShowsMatches
        <3>4. QED
            BY <3>1, <3>3 DEF Planar, ByteStores
    <2>3. CASE n <= o /\ o < n + q
        <3> DEFINE r == o - n
        <3>1. r \in 0..q - 1 /\ f[o] = v[r] /\ o = n + r
            BY <1>1, <1>2, <1>3, <2>3
        <3>2. Component("YV12", w, h, o) = "V" /\ Pixels("YV12", w, h, o) = Block(w, r)
            BY <1>2, <2>1, <2>3, YV12Layout DEF InYV12
        <3> HIDE DEF r
        <3>3. Matches(from, "YV12", w, h, Store(o, v[r]))
            BY <3>1, <3>2, ShowsBlockMatches
        <3>4. Store(o, v[r]) \in PlaneStores(n, q, v)
            BY <3>1 DEF PlaneStores, PlaneAt
        <3>5. QED
            BY <3>1, <3>3, <3>4 DEF Planar
    <2>4. CASE n + q <= o
        <3> DEFINE r == o - n - q
        <3>1. r \in 0..q - 1 /\ f[o] = u[r] /\ o = n + q + r
            BY <1>1, <1>2, <1>3, <2>4
        <3>2. Component("YV12", w, h, o) = "U" /\ Pixels("YV12", w, h, o) = Block(w, r)
            <4>1. o < n + 2 * q /\ n \in Nat /\ n = w * h /\ q \in Nat \ {0}
                BY <1>2, <1>3
            <4>2. InYV12(w, h, n, q, o)
                BY <1>2, <2>1, <4>1, YV12Layout
            <4>3. QED
                BY <2>4, <4>1, <4>2 DEF InYV12
        <3> HIDE DEF r
        <3>3. Matches(from, "YV12", w, h, Store(o, u[r]))
            BY <3>1, <3>2, ShowsBlockMatches
        <3>4. Store(o, u[r]) \in PlaneStores(n + q, q, u)
            BY <3>1 DEF PlaneStores, PlaneAt
        <3>5. QED
            BY <3>1, <3>3, <3>4 DEF Planar
    <2>5. QED
        BY <1>2, <2>1, <2>2, <2>3, <2>4
<1>4. ASSUME NEW s, s \in Planar(n, q, l, v, u)
      PROVE  \E o \in 0..N - 1 : s = Store(o, f[o])
    <2>1. CASE s \in ByteStores(n, l)
        <3>1. PICK o \in 0..n - 1 : s = Store(o, l[o])
            BY <2>1 DEF ByteStores
        <3>2. o \in 0..N - 1 /\ f[o] = l[o]
            BY <1>1, <1>2
        <3>3. QED
            BY <3>1, <3>2
    <2>2. CASE s \in PlaneStores(n, q, v)
        <3>1. PICK r \in 0..q - 1 : s = Store(n + r, v[r])
            BY <2>2 DEF PlaneStores, PlaneAt
        <3> DEFINE o == n + r
        <3>2. o \in 0..N - 1 /\ n <= o /\ o < n + q /\ o - n = r
            BY <1>2
        <3> HIDE DEF o
        <3>3. f[o] = v[r]
            BY <1>1, <3>2
        <3>4. QED
            BY <3>1, <3>2, <3>3 DEF o
    <2>3. CASE s \in PlaneStores(n + q, q, u)
        <3>1. PICK r \in 0..q - 1 : s = Store(n + q + r, u[r])
            BY <2>3 DEF PlaneStores, PlaneAt
        <3> DEFINE o == n + q + r
        <3>2. o \in 0..N - 1 /\ n + q <= o /\ o - n - q = r
            BY <1>2
        <3> HIDE DEF o
        <3>3. f[o] = u[r]
            BY <1>1, <3>2
        <3>4. QED
            BY <3>1, <3>2, <3>3 DEF o
    <2>4. QED
        BY <1>4, <2>1, <2>2, <2>3 DEF Planar
<1>5. Planar(n, q, l, v, u) = ByteStores(N, f)
    BY ONLY <1>3, <1>4 DEF ByteStores
<1>6. \A o \in 0..N - 1 :
        f[o] \subseteq 0..M - 1 /\ Matches(from, "YV12", w, h, Store(o, f[o]))
    BY <1>3
<1>7. OnceEach(ByteStores(N, f), N, M) /\ \A s \in ByteStores(N, f) : Matches(from, "YV12", w, h, s)
    BY <1>2, <1>6, ByteTarget
<1>8. QED
    BY <1>5, <1>7 DEF N

\* The upper left pixel of a block.
Corner(w, r) == 2 * (r \div (w \div 2)) * w + 2 * (r % (w \div 2))

\* The four pixels of a block lie within the image.
LEMMA BlockFacts ==
    ASSUME NEW w, NEW h, EvenSize(w, h), NEW r, r \in 0..(w * h) \div 4 - 1,
           NEW k, k = Corner(w, r)
    PROVE  /\ k \in Nat /\ k + w + 1 \in 0..w * h - 1 /\ k % 2 = 0
           /\ Block(w, r) = {At(w, k), At(w, k + 1), At(w, k + w), At(w, k + w + 1)}
<1> DEFINE a == w \div 2
           b == h \div 2
           i == r \div a
           j == r % a
<1>1. /\ a \in Nat \ {0} /\ w = 2 * a /\ w \in Nat \ {0}
      /\ b \in Nat \ {0} /\ h = 2 * b /\ h \in Nat /\ (w * h) \div 4 = a * b
    BY EvenSizeFacts
<1>2. i \in 0..b - 1 /\ j \in 0..a - 1
    <2> HIDE DEF a, b, i, j
    <2>1. r \in 0..a * b - 1
        BY <1>1
    <2>2. r \div a \in 0..b - 1 /\ r % a \in 0..a - 1
        BY <1>1, <2>1, GridSplit
    <2>3. QED
        BY <2>2 DEF i, j
<1>3. k = 2 * i * w + 2 * j
    BY DEF Corner
<1>4. Block(w, r) = {2 * i, 2 * i + 1} \X {2 * j, 2 * j + 1}
    BY DEF Block
<1> HIDE DEF a, b, i, j
<1>5. /\ 2 * i \in 0..h - 1 /\ 2 * i + 1 \in 0..h - 1
      /\ 2 * j \in 0..w - 1 /\ 2 * j + 1 \in 0..w - 1
    BY <1>1, <1>2
<1>6. ASSUME NEW x, x \in 0..h - 1, NEW y, y \in 0..w - 1
      PROVE  At(w, x * w + y) = <<x, y>> /\ x * w + y \in 0..w * h - 1
    <2>1. (x * w + y) \div w = x /\ (x * w + y) % w = y /\ x * w + y \in 0..w * h - 1
        BY <1>1, <1>6, GridFacts DEF IsGrid
    <2>2. QED
        BY <2>1 DEF At
<1> DEFINE m == i * w
<1>7. m \in Nat /\ k = 2 * m + 2 * j /\ 2 * i * w = 2 * m /\ (2 * i + 1) * w = 2 * m + w
    BY <1>1, <1>2, <1>3
<1>8. /\ k = 2 * i * w + 2 * j /\ k + 1 = 2 * i * w + (2 * j + 1)
      /\ k + w = (2 * i + 1) * w + 2 * j /\ k + w + 1 = (2 * i + 1) * w + (2 * j + 1)
    <2> HIDE DEF m
    <2> QED BY <1>1, <1>2, <1>7
<1>9. /\ At(w, k) = <<2 * i, 2 * j>> /\ At(w, k + 1) = <<2 * i, 2 * j + 1>>
      /\ At(w, k + w) = <<2 * i + 1, 2 * j>> /\ At(w, k + w + 1) = <<2 * i + 1, 2 * j + 1>>
      /\ k + w + 1 \in 0..w * h - 1
    BY <1>5, <1>6, <1>8
<1>10. k \in Nat /\ k % 2 = 0
    <2> HIDE DEF m
    <2> QED BY <1>2, <1>7
<1>11. QED
    BY <1>4, <1>9, <1>10

\* Blocks are counted by the even rows of their corners and half their columns.
LEMMA BlockIndex ==
    ASSUME NEW w, NEW h, EvenSize(w, h), NEW a, a = w \div 2, NEW q, q = (w * h) \div 4
    PROVE  /\ \A i \in Even(h), j \in 0..a - 1 :
                    /\ (i \div 2) * a + j \in 0..q - 1
                    /\ Corner(w, (i \div 2) * a + j) = i * w + 2 * j
           /\ \A r \in 0..q - 1 : \E i \in Even(h), j \in 0..a - 1 : r = (i \div 2) * a + j
<1> DEFINE b == h \div 2
<1>1. /\ a \in Nat \ {0} /\ w = 2 * a /\ w \in Nat \ {0}
      /\ b \in Nat \ {0} /\ h = 2 * b /\ h \in Nat /\ q = a * b
    BY EvenSizeFacts
<1> HIDE DEF b
<1>2. /\ \A x \in 0..b - 1, y \in 0..a - 1 :
            /\ x * a + y \in 0..a * b - 1
            /\ (x * a + y) \div a = x /\ (x * a + y) % a = y
      /\ \A r \in 0..a * b - 1 : /\ r \div a \in 0..b - 1 /\ r % a \in 0..a - 1
                                /\ r = (r \div a) * a + (r % a)
    <2>1. IsGrid(a, b)
        BY <1>1, GridFacts
    <2>2. QED
        BY <2>1 DEF IsGrid
<1>3. ASSUME NEW i, i \in Even(h), NEW j, j \in 0..a - 1
      PROVE  /\ (i \div 2) * a + j \in 0..q - 1
             /\ Corner(w, (i \div 2) * a + j) = i * w + 2 * j
    <2> DEFINE x == i \div 2
               r == x * a + j
    <2>1. x \in 0..b - 1 /\ i = 2 * x
        BY <1>1, <1>3 DEF Even, Upto
    <2>2. r \in 0..q - 1 /\ r \div a = x /\ r % a = j
        BY <1>1, <1>2, <1>3, <2>1
    <2> HIDE DEF x
    <2>3. Corner(w, r) = 2 * (r \div a) * w + 2 * (r % a)
        BY DEF Corner
    <2>4. Corner(w, r) = 2 * x * w + 2 * j
        BY ONLY <2>2, <2>3
    <2>5. QED
        BY <2>1, <2>2, <2>4 DEF x
<1>4. ASSUME NEW r, r \in 0..q - 1
      PROVE  \E i \in Even(h), j \in 0..a - 1 : r = (i \div 2) * a + j
    <2> DEFINE x == r \div a
               y == r % a
               i == 2 * x
    <2>1. x \in 0..b - 1 /\ y \in 0..a - 1 /\ r = x * a + y
        BY <1>1, <1>2, <1>4
    <2> HIDE DEF x, y
    <2>2. i \in 0..h - 1 /\ i % 2 = 0 /\ i \div 2 = x
        BY <1>1, <2>1
    <2> HIDE DEF i
    <2>3. i \in Even(h) /\ r = (i \div 2) * a + y
        BY <2>1, <2>2 DEF Even, Upto
    <2>4. QED
        BY <2>1, <2>3
<1>5. QED
    BY <1>3, <1>4

\* The two bytes of u or v of a block whose corner is k.
TwoRows(first, w, k) == {first + 2 * k, first + 2 * (k + w)}

\* Two bytes of u or v, of two rows, show a block.
LEMMA YUYVBlockShows ==
    ASSUME NEW w, NEW h, EvenSize(w, h), NEW n, n = w * h, NEW r, r \in 0..n \div 4 - 1,
           NEW k, k = Corner(w, r), NEW first, NEW c,
           (first = 1 /\ c = "U") \/ (first = 3 /\ c = "V")
    PROVE  /\ TwoRows(first, w, k) \subseteq 0..2 * n - 1
           /\ ShowsBlock("YUYV", w, h, TwoRows(first, w, k), c, r)
<1>1. /\ k \in Nat /\ k + w + 1 \in 0..w * h - 1 /\ k % 2 = 0
      /\ Block(w, r) = {At(w, k), At(w, k + 1), At(w, k + w), At(w, k + w + 1)}
    BY BlockFacts
<1>2. w \in Nat /\ w % 2 = 0 /\ w * h \in Nat
    BY EvenSizeFacts DEF EvenSize
<1> DEFINE x == k \div 2
           y == (k + w) \div 2
           o == first + 2 * k
           p == first + 2 * (k + w)
<1>3. x \in Nat /\ y \in Nat /\ k = 2 * x /\ k + w = 2 * y
    <2>1. \A z \in Nat : z % 2 = 0 => z \div 2 \in Nat /\ z = 2 * (z \div 2)
        OBVIOUS
    <2>2. k + w \in Nat /\ (k + w) % 2 = 0
        BY ONLY <1>1, <1>2
    <2>3. QED
        BY ONLY <1>1, <2>1, <2>2 DEF x, y
<1> HIDE DEF x, y
<1>4. o = 4 * x + first /\ p = 4 * y + first
    BY <1>3
<1>5. o \in 0..2 * n - 1 /\ p \in 0..2 * n - 1
    BY <1>1, <1>2
<1> HIDE DEF o, p
<1>6. /\ Component("YUYV", w, h, o) = c /\ Component("YUYV", w, h, p) = c
      /\ Pixels("YUYV", w, h, o) = {At(w, 2 * x), At(w, 2 * x + 1)}
      /\ Pixels("YUYV", w, h, p) = {At(w, 2 * y), At(w, 2 * y + 1)}
    <2>1. CASE first = 1 /\ c = "U"
        BY <1>3, <1>4, <2>1, YUYVLayout
    <2>2. CASE first = 3 /\ c = "V"
        BY <1>3, <1>4, <2>2, YUYVLayout
    <2>3. QED
        BY <2>1, <2>2
<1>7. /\ Pixels("YUYV", w, h, o) = {At(w, k), At(w, k + 1)}
      /\ Pixels("YUYV", w, h, p) = {At(w, k + w), At(w, k + w + 1)}
    BY ONLY <1>3, <1>6
<1>8. Needs("YUYV", c) = {c}
    BY DEF Needs
<1>9. ShowsBlock("YUYV", w, h, {o, p}, c, r)
    BY ONLY <1>1, <1>6, <1>7, <1>8 DEF ShowsBlock
<1>10. QED
    BY <1>5, <1>9 DEF o, p, TwoRows

\* The loop that writes a plane.
YUYVPlaneStores(w, h, start, first) ==
    {Store(start + (i \div 2) * (w \div 2) + j,
           {first + i * 2 * w + 4 * j, first + (i + 1) * 2 * w + 4 * j}) :
        i \in Even(h), j \in Upto(w \div 2)}

\* convert_any fills a plane with one byte for each block.
LEMMA YUYVPlane ==
    ASSUME NEW w, NEW h, EvenSize(w, h), NEW q, q = (w * h) \div 4,
           NEW start, start \in Nat, NEW first, first \in Nat,
           NEW f, \A r \in 0..q - 1 : f[r] = TwoRows(first, w, Corner(w, r))
    PROVE  YUYVPlaneStores(w, h, start, first) = PlaneStores(start, q, f)
<1> DEFINE a == w \div 2
           place(i, j) == (i \div 2) * a + j
           store(i, j) == Store(start + (i \div 2) * a + j,
                                {first + i * 2 * w + 4 * j, first + (i + 1) * 2 * w + 4 * j})
<1>1. w \in Nat /\ a \in Nat
    BY EvenSizeFacts
<1>2. /\ \A i \in Even(h), j \in 0..a - 1 :
            place(i, j) \in 0..q - 1 /\ Corner(w, place(i, j)) = i * w + 2 * j
      /\ \A r \in 0..q - 1 : \E i \in Even(h), j \in 0..a - 1 : r = place(i, j)
    BY BlockIndex
<1>3. ASSUME NEW i, i \in Even(h), NEW j, j \in 0..a - 1
      PROVE  store(i, j) = Store(PlaneAt(start, place(i, j)), f[place(i, j)])
    <2> DEFINE m == (i \div 2) * a
               k == i * w
               r == place(i, j)
               c == Corner(w, r)
    <2>1. /\ i \in Nat /\ j \in Nat /\ m \in Nat /\ k \in Nat /\ i * 2 * w = 2 * k
          /\ (i + 1) * 2 * w = 2 * k + 2 * w
        BY <1>1, <1>3 DEF Even, Upto
    <2>2. r = m + j /\ r \in 0..q - 1 /\ c = k + 2 * j
        BY <1>2, <1>3
    <2>3. f[r] = {first + 2 * c, first + 2 * (c + w)}
        BY <2>2 DEF TwoRows
    <2>4. store(i, j) = Store(start + m + j,
                              {first + i * 2 * w + 4 * j, first + (i + 1) * 2 * w + 4 * j})
        OBVIOUS
    <2> HIDE DEF m, k, r, c, store
    <2>5. /\ start + m + j = start + r
          /\ first + i * 2 * w + 4 * j = first + 2 * c
          /\ first + (i + 1) * 2 * w + 4 * j = first + 2 * (c + w)
        BY <1>1, <2>1, <2>2
    <2>6. store(i, j) = Store(start + r, f[r])
        BY ONLY <2>3, <2>4, <2>5
    <2>7. QED
        BY <2>6 DEF r, PlaneAt
<1>4. YUYVPlaneStores(w, h, start, first) = {store(i, j) : i \in Even(h), j \in 0..a - 1}
    BY DEF YUYVPlaneStores, Upto
<1> HIDE DEF store, place, a
<1>5. QED
    BY ONLY <1>2, <1>3, <1>4 DEF PlaneStores

\* YUYV to YV12.
LEMMA YUYVToPlanes ==
    ASSUME NEW w, NEW h, EvenSize(w, h)
    PROVE  Right("YUYV", "YV12", w, h)
<1> DEFINE n == w * h
           q == n \div 4
           l == [p \in 0..n - 1 |-> {2 * p}]
           v == [r \in 0..q - 1 |-> TwoRows(3, w, Corner(w, r))]
           u == [r \in 0..q - 1 |-> TwoRows(1, w, Corner(w, r))]
<1>1. n \in Nat /\ q \in Nat \ {0} /\ n = 4 * q /\ n = w * h
    BY EvenSizeFacts
<1>2. /\ \A p \in 0..n - 1 : l[p] = {2 * p}
      /\ \A r \in 0..q - 1 : v[r] = TwoRows(3, w, Corner(w, r))
      /\ \A r \in 0..q - 1 : u[r] = TwoRows(1, w, Corner(w, r))
    OBVIOUS
<1>3. /\ SourceSize("YUYV", w, h) = 2 * n /\ SourceSize("YV12", w, h) = 6 * q
      /\ TargetSize("YUYV", "YV12", w, h) = 6 * q
    BY SourceSizes, TargetSizes
<1>4. Stores("YUYV", "YV12", w, h) = YUYVToYV12(w, h, 1, 3)
    BY DEF Stores
<1> HIDE DEF l, v, u
<1> DEFINE plane(start, first) == YUYVPlaneStores(w, h, start, first)
<1>5. YUYVToYV12(w, h, 1, 3) = {Store(p, {2 * p}) : p \in 0..n - 1}
                                \cup plane(n, 3) \cup plane(n + q, 1)
    BY DEF YUYVToYV12, YUYVPlaneStores, Upto
<1>6. plane(n, 3) = PlaneStores(n, q, v) /\ plane(n + q, 1) = PlaneStores(n + q, q, u)
    <2>1. n \in Nat /\ n + q \in Nat /\ 1 \in Nat /\ 3 \in Nat /\ q = (w * h) \div 4
        BY <1>1
    <2>2. plane(n, 3) = PlaneStores(n, q, v)
        BY <1>2, <2>1, YUYVPlane
    <2>3. plane(n + q, 1) = PlaneStores(n + q, q, u)
        BY <1>2, <2>1, YUYVPlane
    <2>4. QED
        BY <2>2, <2>3
<1> HIDE DEF plane
<1>7. {Store(p, {2 * p}) : p \in 0..n - 1} = ByteStores(n, l)
    <2> DEFINE F(p) == {2 * p}
    <2> HIDE DEF n, F
    <2>1. {Store(p, F(p)) : p \in 0..n - 1} = ByteStores(n, l)
        BY <1>2 DEF ByteStores, F
    <2>2. QED
        BY <2>1 DEF F
<1>8. YUYVToYV12(w, h, 1, 3) = Planar(n, q, l, v, u)
    BY ONLY <1>5, <1>6, <1>7 DEF Planar
<1>9. ASSUME NEW p \in 0..n - 1
      PROVE  l[p] \subseteq 0..2 * n - 1 /\ Shows("YUYV", w, h, l[p], "Y", p)
    <2>1. p \in Nat /\ l[p] = {2 * p} /\ 2 * p \in 0..2 * n - 1
        BY <1>1, <1>2
    <2>2. Component("YUYV", w, h, 2 * p) = "Y" /\ Pixels("YUYV", w, h, 2 * p) = {At(w, p)}
        BY <2>1, YUYVLayout
    <2>3. Needs("YUYV", "Y") = {"Y"}
        BY DEF Needs
    <2>4. QED
        BY <2>1, <2>2, <2>3 DEF Shows
<1>10. ASSUME NEW r \in 0..q - 1
       PROVE  /\ v[r] \subseteq 0..2 * n - 1 /\ ShowsBlock("YUYV", w, h, v[r], "V", r)
              /\ u[r] \subseteq 0..2 * n - 1 /\ ShowsBlock("YUYV", w, h, u[r], "U", r)
    <2> DEFINE k == Corner(w, r)
    <2>0. /\ r \in 0..n \div 4 - 1 /\ n = w * h /\ EvenSize(w, h) /\ k = Corner(w, r)
          /\ v[r] = TwoRows(3, w, k) /\ u[r] = TwoRows(1, w, k)
        BY <1>1, <1>2
    <2> HIDE DEF n, q, k
    <2>1. /\ v[r] \subseteq 0..2 * n - 1 /\ ShowsBlock("YUYV", w, h, v[r], "V", r)
        BY ONLY <2>0, YUYVBlockShows
    <2>2. /\ u[r] \subseteq 0..2 * n - 1 /\ ShowsBlock("YUYV", w, h, u[r], "U", r)
        BY ONLY <2>0, YUYVBlockShows
    <2>3. QED
        BY <2>1, <2>2
<1>11. /\ OnceEach(Planar(n, q, l, v, u), 6 * q, 2 * n)
       /\ \A s \in Planar(n, q, l, v, u) : Matches("YUYV", "YV12", w, h, s)
    <2> HIDE DEF n, q
    <2> QED BY <1>1, <1>9, <1>10, PlanarTarget
<1>12. QED
    BY <1>3, <1>4, <1>8, <1>11 DEF Right

\* The bytes of the four pixels of a block whose corner is k.
FourPixels(w, k) ==
    PixelBytes(k) \cup PixelBytes(k + 1) \cup PixelBytes(k + w) \cup PixelBytes(k + w + 1)

\* Four pixels show their block.
LEMMA FourPixelsShow ==
    ASSUME NEW w, NEW h, EvenSize(w, h), NEW n, n = w * h, NEW r, r \in 0..n \div 4 - 1,
           NEW k, k = Corner(w, r), NEW c, c \in {"U", "V"}
    PROVE  /\ FourPixels(w, k) \subseteq 0..3 * n - 1
           /\ ShowsBlock("BGR888", w, h, FourPixels(w, k), c, r)
<1> DEFINE K == {k, k + 1, k + w, k + w + 1}
           F == FourPixels(w, k)
<1>1. /\ k \in Nat /\ k + w + 1 \in 0..n - 1
      /\ Block(w, r) = {At(w, k), At(w, k + 1), At(w, k + w), At(w, k + w + 1)}
    BY BlockFacts
<1>2. w \in Nat /\ n \in Nat
    BY EvenSizeFacts
<1>3. F = UNION {PixelBytes(p) : p \in K}
    BY DEF FourPixels
<1>4. /\ \A p \in K : p \in 0..n - 1 /\ p \in Nat
      /\ k \in K /\ Block(w, r) = {At(w, p) : p \in K}
    BY <1>1, <1>2
<1> HIDE DEF K, F
<1>5. \A p \in K : Shows("BGR888", w, h, PixelBytes(p), "Y", p)
    BY <1>4, PixelBytesShow
<1>6. Needs("BGR888", "Y") = {"R", "G", "B"} /\ Needs("BGR888", c) = {"R", "G", "B"}
    BY DEF Needs
<1>7. /\ \A p \in K : {Component("BGR888", w, h, o) : o \in PixelBytes(p)} = {"R", "G", "B"}
      /\ \A p \in K : \A o \in PixelBytes(p) : At(w, p) \in Pixels("BGR888", w, h, o)
      /\ \A p \in K : PixelBytes(p) # {}
    BY <1>5, <1>6 DEF Shows
<1>8. {Component("BGR888", w, h, o) : o \in F} = {"R", "G", "B"}
    <2>1. \A p \in K : \A o \in PixelBytes(p) : Component("BGR888", w, h, o) \in {"R", "G", "B"}
        BY ONLY <1>7
    <2>2. \A x \in {"R", "G", "B"} : \E o \in PixelBytes(k) : Component("BGR888", w, h, o) = x
        BY ONLY <1>4, <1>7
    <2>3. \A o \in F : \E p \in K : o \in PixelBytes(p)
        BY ONLY <1>3
    <2>4. \A o \in PixelBytes(k) : o \in F
        BY ONLY <1>3, <1>4
    <2>5. QED
        BY ONLY <2>1, <2>2, <2>3, <2>4
<1>9. \A o \in F : Pixels("BGR888", w, h, o) \cap Block(w, r) # {}
    BY ONLY <1>3, <1>4, <1>7
<1>10. Block(w, r) \subseteq UNION {Pixels("BGR888", w, h, o) : o \in F}
    BY ONLY <1>3, <1>4, <1>7
<1>11. F \subseteq 0..3 * n - 1
    <2>1. ASSUME NEW p \in K PROVE PixelBytes(p) \subseteq 0..3 * n - 1
        BY <1>2, <1>4 DEF PixelBytes
    <2>2. QED
        BY <1>3, <2>1
<1>12. QED
    BY <1>6, <1>8, <1>9, <1>10, <1>11 DEF ShowsBlock, F

\* The stores of the loop for the block whose corner is pixel <<i, j>>.
BlockStores(w, h, i, j) ==
    LET bgr(x, y) == {3 * (x * w + y) + c : c \in 0..2}
        block == bgr(i, j) \cup bgr(i, j + 1) \cup bgr(i + 1, j) \cup bgr(i + 1, j + 1)
        uv == w * h + (i \div 2) * (w \div 2) + j \div 2
    IN  {Store(uv, block), Store(uv + (w * h) \div 4, block)}

\* The loop stores one byte of each plane for the block at <<i, j>>.
LEMMA BlockStoresAre ==
    ASSUME NEW w, NEW h, EvenSize(w, h), NEW n, n = w * h, NEW q, q = n \div 4,
           NEW i, i \in Even(h), NEW j, j \in Even(w), NEW r, r = (i \div 2) * (w \div 2) + j \div 2
    PROVE  /\ r \in 0..q - 1
           /\ BlockStores(w, h, i, j)
                = {Store(PlaneAt(n, r), FourPixels(w, Corner(w, r))),
                   Store(PlaneAt(n + q, r), FourPixels(w, Corner(w, r)))}
<1> DEFINE a == w \div 2
           y == j \div 2
           k == i * w + j
           uv == n + r
<1>1. /\ w \in Nat /\ h \in Nat /\ w = 2 * a /\ n \in Nat /\ q \in Nat /\ i \in Nat
    BY EvenSizeFacts DEF Even, Upto
<1>2. y \in 0..a - 1 /\ j = 2 * y /\ j \in Nat
    BY <1>1 DEF Even, Upto
<1>3. r \in 0..q - 1 /\ Corner(w, r) = i * w + 2 * y
    <2>1. r = (i \div 2) * a + y
        OBVIOUS
    <2> HIDE DEF a, y
    <2>2. a = w \div 2
        BY DEF a
    <2>3. QED
        BY ONLY <2>1, <2>2, <1>2, BlockIndex, EvenSize(w, h), n = w * h, q = n \div 4, i \in Even(h)
<1>4. k = Corner(w, r) /\ r \in 0..q - 1
    BY ONLY <1>2, <1>3 DEF k
<1>5. i * w \in Nat /\ (i + 1) * w = i * w + w /\ r \in Nat /\ k \in Nat
    BY <1>1, <1>2, <1>3
<1>6. /\ i * w + j = k /\ i * w + (j + 1) = k + 1
      /\ (i + 1) * w + j = k + w /\ (i + 1) * w + (j + 1) = k + w + 1
    BY <1>1, <1>2, <1>5
<1> DEFINE block == PixelBytes(i * w + j) \cup PixelBytes(i * w + (j + 1))
                    \cup PixelBytes((i + 1) * w + j) \cup PixelBytes((i + 1) * w + (j + 1))
           at == w * h + (i \div 2) * (w \div 2) + j \div 2
<1>7. BlockStores(w, h, i, j) = {Store(at, block), Store(at + (w * h) \div 4, block)}
    BY DEF BlockStores, PixelBytes
<1>8. block = FourPixels(w, k)
    BY ONLY <1>6 DEF FourPixels
<1>9. at = n + r /\ at + (w * h) \div 4 = n + q + r
    <2>1. at = n + a * 0 + ((i \div 2) * a + y)
        <3> DEFINE z == (i \div 2) * a
        <3>1. z \in Nat
            BY <1>1 DEF Even, Upto
        <3>2. at = n + z + y /\ a * 0 = 0
            BY <1>1
        <3> HIDE DEF z, at, y
        <3>3. at = n + 0 + (z + y)
            BY ONLY <1>1, <1>2, <3>1, <3>2
        <3>4. QED
            BY <3>2, <3>3 DEF z
    <2>2. at = n + r
        BY <1>1, <1>5, <2>1
    <2> HIDE DEF at
    <2>3. QED
        BY ONLY <1>1, <1>5, <2>2, n = w * h, q = n \div 4
<1>10. QED
    BY ONLY <1>4, <1>7, <1>8, <1>9 DEF PlaneAt

\* BGR888 to YV12.
LEMMA ColourToPlanes ==
    ASSUME NEW w, NEW h, EvenSize(w, h)
    PROVE  Right("BGR888", "YV12", w, h)
<1> DEFINE n == w * h
           q == n \div 4
           l == [p \in 0..n - 1 |-> PixelBytes(p)]
           f == [r \in 0..q - 1 |-> FourPixels(w, Corner(w, r))]
<1>1. /\ n \in Nat /\ q \in Nat \ {0} /\ n = 4 * q /\ n = w * h
      /\ w \in Nat \ {0} /\ h \in Nat
    BY EvenSizeFacts
<1>2. /\ \A p \in 0..n - 1 : l[p] = PixelBytes(p)
      /\ \A r \in 0..q - 1 : f[r] = FourPixels(w, Corner(w, r))
    OBVIOUS
<1>3. /\ SourceSize("BGR888", w, h) = 3 * n /\ SourceSize("YV12", w, h) = 6 * q
      /\ TargetSize("BGR888", "YV12", w, h) = 6 * q
    BY SourceSizes, TargetSizes
<1>4. Stores("BGR888", "YV12", w, h) = BGRToYV12(w, h)
    BY DEF Stores
<1> DEFINE pixels == {Store(i * w + j, PixelBytes(i * w + j)) : i \in 0..h - 1, j \in 0..w - 1}
<1>5. BGRToYV12(w, h) = pixels \cup UNION {BlockStores(w, h, i, j) : i \in Even(h), j \in Even(w)}
    BY DEF BGRToYV12, BlockStores, Upto, PixelBytes
<1>6. pixels = ByteStores(n, l)
    <2>1. /\ \A i \in 0..h - 1, j \in 0..w - 1 : i * w + j \in 0..n - 1
          /\ \A p \in 0..n - 1 : \E i \in 0..h - 1, j \in 0..w - 1 : p = i * w + j
        <3>1. IsGrid(w, h)
            BY <1>1, GridFacts
        <3>2. ASSUME NEW p \in 0..n - 1
              PROVE  \E i \in 0..h - 1, j \in 0..w - 1 : p = i * w + j
            BY <3>1 DEF IsGrid
        <3>3. \A i \in 0..h - 1, j \in 0..w - 1 : i * w + j \in 0..n - 1
            BY <3>1 DEF IsGrid
        <3>4. QED
            BY <3>2, <3>3
    <2> DEFINE at(i, j) == i * w + j
    <2>2. pixels = {Store(at(i, j), PixelBytes(at(i, j))) : i \in 0..h - 1, j \in 0..w - 1}
        OBVIOUS
    <2>3. /\ \A i \in 0..h - 1, j \in 0..w - 1 : at(i, j) \in 0..n - 1
          /\ \A p \in 0..n - 1 : \E i \in 0..h - 1, j \in 0..w - 1 : p = at(i, j)
        BY ONLY <2>1
    <2> HIDE DEF n, l, at, pixels
    <2>4. QED
        BY ONLY <1>2, <2>2, <2>3 DEF ByteStores
<1> HIDE DEF l, f, pixels
<1>7. ASSUME NEW i \in Even(h), NEW j \in Even(w)
      PROVE  \E r \in 0..q - 1 : BlockStores(w, h, i, j) = {Store(PlaneAt(n, r), f[r]),
                                                           Store(PlaneAt(n + q, r), f[r])}
    <2> DEFINE r == (i \div 2) * (w \div 2) + j \div 2
    <2>1. r = (i \div 2) * (w \div 2) + j \div 2
        OBVIOUS
    <2> HIDE DEF r, n, q
    <2>2. /\ r \in 0..q - 1
          /\ BlockStores(w, h, i, j)
                = {Store(PlaneAt(n, r), FourPixels(w, Corner(w, r))),
                   Store(PlaneAt(n + q, r), FourPixels(w, Corner(w, r)))}
        BY ONLY <2>1, BlockStoresAre, EvenSize(w, h), n = w * h, q = n \div 4,
                i \in Even(h), j \in Even(w) DEF n, q
    <2>3. QED
        BY ONLY <1>2, <2>2
<1>8. ASSUME NEW r \in 0..q - 1
      PROVE  \E i \in Even(h), j \in Even(w) :
                BlockStores(w, h, i, j) = {Store(PlaneAt(n, r), f[r]),
                                           Store(PlaneAt(n + q, r), f[r])}
    <2>1. PICK i \in Even(h), x \in 0..(w \div 2) - 1 : r = (i \div 2) * (w \div 2) + x
        BY BlockIndex
    <2> DEFINE j == 2 * x
    <2>2. j \in Even(w) /\ j \div 2 = x
        BY EvenSizeFacts DEF Even, Upto
    <2> HIDE DEF n, q, j
    <2>3. r = (i \div 2) * (w \div 2) + j \div 2
        BY ONLY <2>1, <2>2
    <2>4. BlockStores(w, h, i, j)
                = {Store(PlaneAt(n, r), FourPixels(w, Corner(w, r))),
                   Store(PlaneAt(n + q, r), FourPixels(w, Corner(w, r)))}
        BY ONLY <2>2, <2>3, BlockStoresAre, EvenSize(w, h), n = w * h, q = n \div 4 DEF n, q
    <2>5. QED
        BY ONLY <1>2, <2>2, <2>4, r \in 0..q - 1
<1>9. UNION {BlockStores(w, h, i, j) : i \in Even(h), j \in Even(w)}
        = PlaneStores(n, q, f) \cup PlaneStores(n + q, q, f)
    <2> DEFINE S == UNION {BlockStores(w, h, i, j) : i \in Even(h), j \in Even(w)}
               P == PlaneStores(n, q, f)
               Q == PlaneStores(n + q, q, f)
    <2> HIDE DEF n, q
    <2>1. /\ \A r \in 0..q - 1 : /\ Store(PlaneAt(n, r), f[r]) \in P
                                /\ Store(PlaneAt(n + q, r), f[r]) \in Q
          /\ \A s \in P : \E r \in 0..q - 1 : s = Store(PlaneAt(n, r), f[r])
          /\ \A s \in Q : \E r \in 0..q - 1 : s = Store(PlaneAt(n + q, r), f[r])
        BY DEF PlaneStores
    <2>2. /\ \A i \in Even(h), j \in Even(w) : \A s \in BlockStores(w, h, i, j) : s \in S
          /\ \A s \in S : \E i \in Even(h), j \in Even(w) : s \in BlockStores(w, h, i, j)
        OBVIOUS
    <2> HIDE DEF S, P, Q
    <2>3. ASSUME NEW s \in S PROVE s \in P \cup Q
        BY ONLY <1>7, <2>1, <2>2, <2>3
    <2>4. ASSUME NEW s \in P \cup Q PROVE s \in S
        <3>1. PICK r \in 0..q - 1 : \/ s = Store(PlaneAt(n, r), f[r])
                                    \/ s = Store(PlaneAt(n + q, r), f[r])
            BY ONLY <2>1, <2>4
        <3>2. QED
            BY ONLY <1>8, <2>2, <3>1
    <2>5. QED
        BY ONLY <2>3, <2>4 DEF S, P, Q
<1>10. Stores("BGR888", "YV12", w, h) = Planar(n, q, l, f, f)
    BY ONLY <1>4, <1>5, <1>6, <1>9 DEF Planar
<1>11. ASSUME NEW p \in 0..n - 1
       PROVE  l[p] \subseteq 0..3 * n - 1 /\ Shows("BGR888", w, h, l[p], "Y", p)
    <2>1. p \in Nat /\ l[p] = PixelBytes(p)
        BY <1>1, <1>2
    <2>2. l[p] \subseteq 0..3 * n - 1
        BY <1>1, <2>1 DEF PixelBytes
    <2>3. QED
        BY <2>1, <2>2, PixelBytesShow
<1>12. ASSUME NEW r \in 0..q - 1, NEW c \in {"U", "V"}
       PROVE  f[r] \subseteq 0..3 * n - 1 /\ ShowsBlock("BGR888", w, h, f[r], c, r)
    <2> DEFINE k == Corner(w, r)
    <2>1. /\ r \in 0..n \div 4 - 1 /\ n = w * h /\ EvenSize(w, h) /\ k = Corner(w, r)
          /\ f[r] = FourPixels(w, k)
        BY <1>1, <1>2
    <2> HIDE DEF n, q, k
    <2>2. QED
        BY ONLY <2>1, FourPixelsShow, c \in {"U", "V"}
<1>13. /\ OnceEach(Planar(n, q, l, f, f), 6 * q, 3 * n)
       /\ \A s \in Planar(n, q, l, f, f) : Matches("BGR888", "YV12", w, h, s)
    <2> HIDE DEF n, q
    <2> QED BY <1>1, <1>11, <1>12, PlanarTarget
<1>14. QED
    BY <1>3, <1>10, <1>13 DEF Right

-----------------------------------------------------------------------------
(* The modules *)

\* Grayfilter::execute.
LEMMA GrayfilterRight ==
    ASSUME NEW w, NEW h, EvenSize(w, h), NEW n, n = w * h
    PROVE  /\ OnceEach(GrayfilterStores(w, h), 3 * n, 3 * n)
           /\ \A s \in GrayfilterStores(w, h) : Matches("BGR888", "GRAYED", w, h, s)
<1> DEFINE g == [p \in 0..n - 1 |-> [c \in 0..2 |-> PixelBytes(p)]]
<1>1. n \in Nat
    BY EvenSizeFacts
<1>2. \A p \in 0..n - 1, c \in 0..2 : g[p][c] = PixelBytes(p)
    OBVIOUS
<1> HIDE DEF g
<1>3. GrayfilterStores(w, h) = PixelStores(n, g)
    <2> DEFINE F(p, c) == PixelBytes(p)
    <2>1. GrayfilterStores(w, h) = {Store(PixelAt(p, c), F(p, c)) : p \in 0..n - 1, c \in 0..2}
        BY DEF GrayfilterStores, Upto, PixelAt, PixelBytes
    <2>2. \A p \in 0..n - 1, c \in 0..2 : g[p][c] = F(p, c)
        BY <1>2
    <2> HIDE DEF F
    <2>3. QED
        BY ONLY <2>1, <2>2 DEF PixelStores
<1>4. ASSUME NEW p \in 0..n - 1 PROVE PixelBytes(p) \subseteq 0..3 * n - 1
    BY <1>1 DEF PixelBytes
<1>5. OnceEach(PixelStores(n, g), 3 * n, 3 * n)
    BY <1>1, <1>2, <1>4, PixelsWritten
<1>6. ASSUME NEW s \in PixelStores(n, g) PROVE Matches("BGR888", "GRAYED", w, h, s)
    <2>1. PICK p \in 0..n - 1, c \in 0..2 : s = Store(3 * p + c, g[p][c])
        BY DEF PixelStores, PixelAt
    <2> DEFINE o == 3 * p + c
    <2>2. o \in Nat /\ o \div 3 = p /\ s = Store(o, PixelBytes(p)) /\ p \in Nat
        BY <1>1, <1>2, <2>1
    <2> HIDE DEF o
    <2>3. Component("GRAYED", w, h, o) = "Y" /\ Pixels("GRAYED", w, h, o) = {At(w, p)}
        <3>1. Pixels("GRAYED", w, h, o) = {At(w, o \div 3)} /\ Component("GRAYED", w, h, o) = "Y"
            BY <2>2, GrayLayout DEF Pixels, At
        <3>2. QED
            BY ONLY <2>2, <3>1
    <2>4. Shows("BGR888", w, h, PixelBytes(p), "Y", p)
        BY <2>2, PixelBytesShow
    <2>5. QED
        BY ONLY <2>2, <2>3, <2>4, ShowsMatches
<1>7. QED
    BY <1>3, <1>5, <1>6

\* Downscale reads, for byte c of pixel <<i, j>> of its result, byte c of
\* pixel x * w + y of the source, or of an earlier one if columns remain.
IsSource(skip, w, h, i, j, row) ==
    /\ i * skip \in 0..h - 1 /\ j * skip \in 0..w - 1
    /\ i * row + j * skip \in 0..w * h - 1
    /\ w % skip = 0 => i * row + j * skip = (i * skip) * w + j * skip

\* Whatever pixel of the source Downscale reads lies within it.
LEMMA SkippedPixel ==
    ASSUME NEW skip, skip \in Nat \ {0}, NEW w, w \in Nat \ {0}, NEW h, h \in Nat \ {0},
           NEW row, row = Scaled(w, skip) * skip + w * (skip - 1),
           NEW i, i \in 0..Scaled(h, skip) - 1, NEW j, j \in 0..Scaled(w, skip) - 1
    PROVE  IsSource(skip, w, h, i, j, row)
<1> DEFINE sw == Scaled(w, skip)
           sh == Scaled(h, skip)
           x == i * skip
           y == j * skip
           u == sw * skip
<1>1. /\ sw \in Nat /\ sh \in Nat
      /\ w = skip * sw + (w % skip) /\ w % skip \in 0..skip - 1
      /\ h = skip * sh + (h % skip) /\ h % skip \in 0..skip - 1
    BY DivMod DEF Scaled
<1>2. i \in Nat /\ j \in Nat
    BY <1>1
<1>3. x \in 0..h - 1 /\ y \in 0..w - 1
    <2> HIDE DEF sw, sh
    <2>1. skip * i \in 0..skip * sh - 1
        <3>1. skip * (i + 1) <= skip * sh
            BY <1>1, <1>2, TimesMonotone DEF sh
        <3>2. skip * (i + 1) = skip * i + skip /\ skip * i \in Nat
            BY <1>2
        <3>3. skip * sh \in Nat
            BY <1>1
        <3>4. QED
            BY <3>1, <3>2, <3>3
    <2>2. skip * j \in 0..skip * sw - 1
        <3>1. skip * (j + 1) <= skip * sw
            BY <1>1, <1>2, TimesMonotone DEF sw
        <3>2. skip * (j + 1) = skip * j + skip /\ skip * j \in Nat
            BY <1>2
        <3>3. skip * sw \in Nat
            BY <1>1
        <3>4. QED
            BY <3>1, <3>2, <3>3
    <2>3. x = skip * i /\ y = skip * j /\ skip * sh \in Nat /\ skip * sw \in Nat
        BY <1>1, <1>2
    <2> DEFINE A == skip * sh
               B == skip * sw
    <2> HIDE DEF x, y
    <2>4. QED
        BY <1>1, <2>1, <2>2, <2>3
<1>4. /\ u \in Nat /\ u <= w /\ (w % skip = 0 => u = w)
    <2>1. u = skip * sw /\ skip * sw \in Nat
        BY <1>1
    <2> HIDE DEF u, sw
    <2>2. QED
        BY <1>1, <2>1
<1>5. row = u + w * (skip - 1)
    OBVIOUS
<1> HIDE DEF u
<1>6. /\ row \in Nat /\ row <= w * skip /\ (w % skip = 0 => row = w * skip)
    <2>1. w * skip = w + w * (skip - 1) /\ w * (skip - 1) \in Nat
        OBVIOUS
    <2>2. QED
        BY <1>4, <1>5, <2>1
<1>7. i * row <= i * (w * skip) /\ i * row \in Nat
    BY <1>2, <1>6, TimesMonotone
<1>8. i * (w * skip) = x * w
    BY <1>2
<1>9. x * w + y \in 0..w * h - 1
    BY <1>3, GridFacts DEF IsGrid
<1>10. w % skip = 0 => i * row = x * w
    BY <1>6, <1>8
<1>11. i * row + y \in 0..w * h - 1
    <2>1. x * w \in Nat /\ w * h \in Nat
        BY <1>3
    <2> HIDE DEF x, y
    <2>2. QED
        BY <1>3, <1>7, <1>8, <1>9, <2>1
<1>12. QED
    BY <1>3, <1>10, <1>11 DEF IsSource

\* Each byte is that of the pixel at skip times the row and column.
Samples(S, w, sw, skip) ==
    \A s \in S :
        \E i \in Nat, j \in Nat, c \in 0..2, k \in Nat, p \in Nat :
            /\ s = Store(3 * p + c, {3 * k + c})
            /\ At(sw, p) = <<i, j>> /\ At(w, k) = <<i * skip, j * skip>>

\* Downscale::execute writes every byte once and reads within the source; if
\* no columns remain it takes the pixels at multiples of the factor.
LEMMA DownscaleRight ==
    ASSUME NEW skip, skip \in Nat \ {0}, NEW w, w \in Nat \ {0}, NEW h, h \in Nat \ {0},
           NEW sw, sw = Scaled(w, skip), NEW sh, sh = Scaled(h, skip)
    PROVE  /\ OnceEach(DownscaleStores(skip, w, h), 3 * (sw * sh), 3 * (w * h))
           /\ sw * sh \in Nat
           /\ w % skip = 0 => Samples(DownscaleStores(skip, w, h), w, sw, skip)
<1> DEFINE row == Scaled(w, skip) * skip + w * (skip - 1)
           n == sw * sh
           source(i, j) == i * row + j * skip
           place(i, j) == i * sw + j
           store(i, j, c) == Store(PixelAt(place(i, j), c), {PixelAt(source(i, j), c)})
           f(p) == source(p \div sw, p % sw)
           g == [p \in 0..n - 1 |-> [c \in 0..2 |-> {PixelAt(f(p), c)}]]
           S == DownscaleStores(skip, w, h)
<1>1. sw \in Nat /\ sh \in Nat /\ n \in Nat
    BY DivMod DEF Scaled
<1>2. \A p \in 0..n - 1, c \in 0..2 : g[p][c] = {PixelAt(f(p), c)}
    OBVIOUS
<1>3. ASSUME NEW i, i \in 0..sh - 1, NEW j, j \in 0..sw - 1
      PROVE  /\ i * skip \in 0..h - 1 /\ j * skip \in 0..w - 1
             /\ source(i, j) \in 0..w * h - 1
             /\ w % skip = 0 => source(i, j) = (i * skip) * w + j * skip
    <2>1. row = Scaled(w, skip) * skip + w * (skip - 1)
        OBVIOUS
    <2>2. i \in 0..Scaled(h, skip) - 1 /\ j \in 0..Scaled(w, skip) - 1
        BY <1>3
    <2> HIDE DEF row
    <2>3. IsSource(skip, w, h, i, j, row)
        BY ONLY <2>1, <2>2, SkippedPixel, skip \in Nat \ {0}, w \in Nat \ {0}, h \in Nat \ {0}
    <2>4. QED
        BY ONLY <2>3 DEF IsSource, source
<1> HIDE DEF source, g, row
<1>4. S = {store(i, j, c) :
                i \in 0..sh - 1, j \in 0..sw - 1, c \in 0..2}
    BY DEF DownscaleStores, store, place, Upto, PixelAt, source, row
<1> HIDE DEF S, store
<1>5. ASSUME NEW i \in 0..sh - 1, NEW j \in 0..sw - 1
      PROVE  /\ place(i, j) \in 0..n - 1 /\ f(place(i, j)) = source(i, j)
             /\ At(sw, place(i, j)) = <<i, j>>
    <2>1. sw \in Nat \ {0}
        BY <1>1
    <2>2. IsGrid(sw, sh)
        BY <1>1, <2>1, GridFacts
    <2>3. /\ i * sw + j \in 0..n - 1 /\ (i * sw + j) \div sw = i /\ (i * sw + j) % sw = j
        BY <2>2 DEF IsGrid
    <2>4. QED
        BY ONLY <2>3 DEF At
<1>6. ASSUME NEW p \in 0..n - 1
      PROVE  \E i \in 0..sh - 1, j \in 0..sw - 1 : p = place(i, j) /\ f(p) = source(i, j)
    <2>1. sw \in Nat \ {0}
        <3>1. sw # 0
            <4>1. SUFFICES ASSUME sw = 0 PROVE FALSE
                OBVIOUS
            <4>2. n = 0
                BY <1>1, <4>1
            <4> HIDE DEF n
            <4>3. QED
                BY <4>2
        <3>2. QED
            BY <1>1, <3>1
    <2>2. IsGrid(sw, sh)
        BY <1>1, <2>1, GridFacts
    <2>3. /\ p \div sw \in 0..sh - 1 /\ p % sw \in 0..sw - 1
          /\ p = (p \div sw) * sw + (p % sw)
        BY <2>2 DEF IsGrid
    <2>4. QED
        BY ONLY <2>3
<1> HIDE DEF f, n, place
<1>7. S = PixelStores(n, g)
    <2>1. ASSUME NEW s \in S PROVE s \in PixelStores(n, g)
        <3>1. PICK i \in 0..sh - 1, j \in 0..sw - 1, c \in 0..2 :
                    s = store(i, j, c)
            BY <1>4
        <3>2. /\ place(i, j) \in 0..n - 1
              /\ g[place(i, j)][c] = {PixelAt(source(i, j), c)}
            BY <1>2, <1>5
        <3> DEFINE p == place(i, j)
        <3>3. s = Store(PixelAt(p, c), g[p][c]) /\ p \in 0..n - 1
            BY ONLY <3>1, <3>2 DEF store
        <3> HIDE DEF p
        <3>4. QED
            BY ONLY <3>3, c \in 0..2 DEF PixelStores
    <2>2. ASSUME NEW s \in PixelStores(n, g) PROVE s \in S
        <3>1. PICK p \in 0..n - 1, c \in 0..2 : s = Store(PixelAt(p, c), g[p][c])
            BY DEF PixelStores
        <3>2. PICK i \in 0..sh - 1, j \in 0..sw - 1 : p = place(i, j) /\ f(p) = source(i, j)
            BY <1>6
        <3>3. s = store(i, j, c)
            BY <1>2, <3>1, <3>2 DEF store
        <3>4. QED
            BY <1>4, <3>3
    <2>3. QED
        BY <2>1, <2>2
<1>8. ASSUME NEW p \in 0..n - 1, NEW c \in 0..2 PROVE g[p][c] \subseteq 0..3 * (w * h) - 1
    <2>1. f(p) \in 0..w * h - 1 /\ g[p][c] = {PixelAt(f(p), c)}
        BY <1>2, <1>3, <1>6
    <2>2. w * h \in Nat
        OBVIOUS
    <2>3. QED
        BY <2>1, <2>2 DEF PixelAt
<1>9. OnceEach(S, 3 * n, 3 * (w * h))
    BY <1>1, <1>7, <1>8, PixelsWritten
<1>10. ASSUME w % skip = 0, NEW s \in S
       PROVE  \E i \in Nat, j \in Nat, c \in 0..2, k \in Nat, p \in Nat :
                /\ s = Store(3 * p + c, {3 * k + c})
                /\ At(sw, p) = <<i, j>> /\ At(w, k) = <<i * skip, j * skip>>
    <2>1. PICK i \in 0..sh - 1, j \in 0..sw - 1, c \in 0..2 :
                s = store(i, j, c)
        BY <1>4
    <2> DEFINE p == place(i, j)
               k == source(i, j)
               x == i * skip
               y == j * skip
    <2>2. p \in 0..n - 1 /\ At(sw, p) = <<i, j>>
        BY <1>5
    <2>3. x \in 0..h - 1 /\ y \in 0..w - 1 /\ k \in 0..w * h - 1 /\ k = x * w + y
        BY <1>3, <1>10
    <2>4. s = Store(3 * p + c, {3 * k + c})
        BY <2>1 DEF store, PixelAt
    <2> HIDE DEF p, k, x, y
    <2>5. At(w, k) = <<x, y>>
        <3>1. IsGrid(w, h)
            BY GridFacts
        <3>2. (x * w + y) \div w = x /\ (x * w + y) % w = y
            BY ONLY <2>3, <3>1 DEF IsGrid
        <3>3. QED
            BY ONLY <2>3, <3>2 DEF At
    <2>6. i \in Nat /\ j \in Nat /\ p \in Nat /\ k \in Nat
        BY <1>1, <2>2, <2>3
    <2>7. QED
        BY ONLY <2>2, <2>4, <2>5, <2>6, c \in 0..2 DEF x, y
<1>11. QED
    <2>1. w % skip = 0 => Samples(S, w, sw, skip)
        BY ONLY <1>10 DEF Samples
    <2>2. QED
        BY ONLY <1>1, <1>9, <2>1 DEF n, S

-----------------------------------------------------------------------------
(* What is converted *)

\* EveryByteOnce and RightPixels of a conversion k.
WritesOnce(k) ==
    /\ OnceEach(k.stores, k.size, SourceSize(k.pair[1], k.width, k.height))
    /\ k.size = SourceSize(k.pair[2], k.w, k.h)

Meant(k, o) == {<<p[1] * k.skip, p[2] * k.skip>> : p \in Pixels(k.pair[2], k.w, k.h, o)}

ReadsStore(k, s) ==
    /\ {Component(k.pair[1], k.width, k.height, o) : o \in s.from}
           = Needs(k.pair[1], Component(k.pair[2], k.w, k.h, s.to))
    /\ \A o \in s.from : Pixels(k.pair[1], k.width, k.height, o) \cap Meant(k, s.to) # {}
    /\ Meant(k, s.to) \subseteq UNION {Pixels(k.pair[1], k.width, k.height, o) : o \in s.from}

ReadsRight(k) == \A s \in k.stores : ReadsStore(k, s)

\* Pixels are pairs of a row and a column.
LEMMA ArePairs ==
    ASSUME NEW to, to \in {"YV12", "BGR888", "RGB888", "GRAY", "GRAYED"},
           NEW w, NEW h, EvenSize(w, h), NEW o, o \in Nat
    PROVE  \A p \in Pixels(to, w, h, o) : <<p[1] * 1, p[2] * 1>> = p
<1>1. w \in Nat \ {0} /\ w \div 2 \in Nat \ {0} /\ w * h \in Nat /\ (w * h) \div 4 \in Nat \ {0}
    BY EvenSizeFacts
<1>2. \A x, y \in Int : LET p == <<x, y>> IN <<p[1] * 1, p[2] * 1>> = p
    OBVIOUS
<1>3. \A k \in Nat : \E x, y \in Int : At(w, k) = <<x, y>>
    <2>1. \A k \in Nat : k \div w \in Int /\ k % w \in Int
        BY <1>1, DivMod
    <2>2. QED
        BY <2>1 DEF At
<1>4. \A r \in Nat : \A p \in Block(w, r) : \E x, y \in Int : p = <<x, y>>
    <2>1. ASSUME NEW r \in Nat, NEW p \in Block(w, r) PROVE \E x, y \in Int : p = <<x, y>>
        <3> DEFINE a == w \div 2
                   i == r \div a
                   j == r % a
        <3>1. i \in Nat /\ j \in Nat
            <4>1. a \in Nat \ {0}
                BY <1>1
            <4> HIDE DEF a
            <4>2. i \in Nat /\ j \in 0..a - 1
                BY <4>1, DivMod
            <4>3. QED
                BY <4>1, <4>2
        <3>2. Block(w, r) = {2 * i, 2 * i + 1} \X {2 * j, 2 * j + 1}
            BY DEF Block
        <3> HIDE DEF i, j
        <3>3. QED
            BY <3>1, <3>2
    <2>2. QED
        BY <2>1
<1>5. \A p \in Pixels(to, w, h, o) : \E x, y \in Int : p = <<x, y>>
    <2>1. CASE to \in {"BGR888", "RGB888", "GRAYED"}
        <3>1. Pixels(to, w, h, o) = {At(w, o \div 3)} /\ o \div 3 \in Nat
            BY <2>1 DEF Pixels, At
        <3>2. QED
            BY ONLY <1>3, <3>1
    <2>2. CASE to = "GRAY"
        <3>1. Pixels(to, w, h, o) = {At(w, o)}
            BY <2>2 DEF Pixels, At
        <3>2. QED
            BY ONLY <1>3, <3>1, o \in Nat
    <2>3. CASE to = "YV12" /\ o < w * h
        <3>1. Pixels(to, w, h, o) = {At(w, o)}
            BY <2>3 DEF Pixels, At
        <3>2. QED
            BY ONLY <1>3, <3>1, o \in Nat
    <2>4. CASE to = "YV12" /\ ~(o < w * h)
        <3> DEFINE x == o - w * h
                   q == (w * h) \div 4
                   r == x % q
        <3>1. Pixels(to, w, h, o) = Block(w, r)
            BY <2>4 DEF Pixels, Block
        <3>2. x \in Nat /\ q \in Nat \ {0}
            BY <1>1, <2>4
        <3>3. r \in Nat
            <4> HIDE DEF x, q
            <4>1. x % q \in 0..q - 1
                BY <3>2, DivMod
            <4>2. QED
                BY <3>2, <4>1
        <3> HIDE DEF r
        <3>4. QED
            BY ONLY <1>4, <3>1, <3>3
    <2>5. QED
        BY <2>1, <2>2, <2>3, <2>4
<1>6. QED
    BY ONLY <1>2, <1>5

\* A conversion is right if its result has the size of the image and each of its
\* stores reads the right bytes.
LEMMA SameSize ==
    ASSUME NEW k, NEW w, NEW h, EvenSize(w, h), k.skip = 1,
           k.w = w, k.h = h, k.width = w, k.height = h, NEW to, k.pair[2] = to,
           to \in {"YV12", "BGR888", "RGB888", "GRAY", "GRAYED"},
           k.size \in Nat, OnceEach(k.stores, k.size, SourceSize(k.pair[1], w, h)),
           \A s \in k.stores : Matches(k.pair[1], to, w, h, s)
    PROVE  ReadsRight(k)
<1>1. ASSUME NEW s, s \in k.stores PROVE Meant(k, s.to) = Pixels(to, w, h, s.to)
    <2>1. s.to \in Nat
        <3>1. s.to \in {x.to : x \in k.stores} /\ {x.to : x \in k.stores} = 0..k.size - 1
            BY <1>1 DEF OnceEach
        <3>2. QED
            BY <3>1
    <2>2. \A p \in Pixels(to, w, h, s.to) : <<p[1] * 1, p[2] * 1>> = p
        BY <2>1, ArePairs
    <2>3. Meant(k, s.to) = {<<p[1] * 1, p[2] * 1>> : p \in Pixels(to, w, h, s.to)}
        BY DEF Meant
    <2>4. QED
        BY ONLY <2>2, <2>3
<1>2. QED
    BY <1>1 DEF ReadsRight, ReadsStore, Matches

\* All conversions but that to YUYV.
LEMMA AllRight ==
    ASSUME NEW pair, pair \in Conversions, pair # <<"BGR888", "YUYV">>,
           NEW w, NEW h, EvenSize(w, h)
    PROVE  /\ Right(pair[1], pair[2], w, h)
           /\ pair[2] \in {"YV12", "BGR888", "RGB888", "GRAY"}
           /\ SourceSize(pair[2], w, h) \in Nat
<1>1. /\ Right("YUYV", "YV12", w, h) /\ Right("BGR888", "YV12", w, h)
      /\ Right("BGR888", "GRAY", w, h) /\ Right("GRAY", "BGR888", w, h)
    BY YUYVToPlanes, ColourToPlanes, ColourToGray, GrayToColour
<1>2. /\ Right("YUYV", "BGR888", w, h) /\ Right("YUYV", "RGB888", w, h)
      /\ Right("YV12", "BGR888", w, h) /\ Right("YV12", "RGB888", w, h)
    BY YUYVToColour, YV12ToColour
<1>3. Right("BGR888", "RGB888", w, h) /\ Right("RGB888", "BGR888", w, h)
    <2>1. \A from, to : {from, to} = {"BGR888", "RGB888"} /\ from # to => Right(from, to, w, h)
        BY SwapColours
    <2>2. {"RGB888", "BGR888"} = {"BGR888", "RGB888"}
        OBVIOUS
    <2>3. QED
        BY <2>1, <2>2
<1>4. \/ pair[1] = "YUYV" /\ pair[2] \in {"YV12", "BGR888", "RGB888"}
      \/ pair[1] = "YV12" /\ pair[2] \in {"BGR888", "RGB888"}
      \/ pair[1] = "BGR888" /\ pair[2] \in {"RGB888", "YV12", "GRAY"}
      \/ pair[1] \in {"RGB888", "GRAY"} /\ pair[2] = "BGR888"
    BY DEF Conversions
<1>5. Right(pair[1], pair[2], w, h)
    BY <1>1, <1>2, <1>3, <1>4
<1>6. SourceSize(pair[2], w, h) \in Nat
    <2>1. w * h \in Nat /\ (w * h) \div 4 \in Nat
        BY EvenSizeFacts
    <2>2. \A n \in Nat : 3 * n \in Nat /\ 6 * n \in Nat
        OBVIOUS
    <2>3. QED
        BY <1>4, <2>1, <2>2, SourceSizes
<1>7. QED
    BY <1>4, <1>5, <1>6

\* A conversion with both properties.
RightConversion(k) == WritesOnce(k) /\ (k.width % k.skip = 0 => ReadsRight(k))

\* A converted image.
LEMMA ConvertedImage ==
    ASSUME NEW pair, pair \in Conversions, pair # <<"BGR888", "YUYV">>,
           NEW w, NEW h, EvenSize(w, h), NEW k,
           k = [pair |-> pair, w |-> w, h |-> h, skip |-> 1, width |-> w, height |-> h,
                size |-> TargetSize(pair[1], pair[2], w, h),
                stores |-> Stores(pair[1], pair[2], w, h)]
    PROVE  RightConversion(k)
<1>1. /\ Right(pair[1], pair[2], w, h)
      /\ pair[2] \in {"YV12", "BGR888", "RGB888", "GRAY"}
      /\ SourceSize(pair[2], w, h) \in Nat
    BY AllRight
<1>2. /\ k.pair = pair /\ k.skip = 1 /\ k.w = w /\ k.h = h /\ k.width = w /\ k.height = h
      /\ k.size = TargetSize(pair[1], pair[2], w, h)
      /\ k.stores = Stores(pair[1], pair[2], w, h)
    OBVIOUS
<1>3. /\ OnceEach(k.stores, k.size, SourceSize(k.pair[1], w, h))
      /\ k.size = SourceSize(k.pair[2], w, h)
      /\ \A s \in k.stores : Matches(k.pair[1], pair[2], w, h, s)
    BY ONLY <1>1, <1>2 DEF Right
<1>4. WritesOnce(k)
    BY ONLY <1>2, <1>3 DEF WritesOnce
<1>5. ReadsRight(k)
    <2>1. k.size \in Nat /\ k.pair[2] = pair[2]
        BY ONLY <1>1, <1>2, <1>3
    <2>2. pair[2] \in {"YV12", "BGR888", "RGB888", "GRAY", "GRAYED"}
        BY <1>1
    <2> DEFINE to == pair[2]
    <2>3. k.pair[2] = to /\ to \in {"YV12", "BGR888", "RGB888", "GRAY", "GRAYED"}
          /\ \A s \in k.stores : Matches(k.pair[1], to, w, h, s)
        BY ONLY <2>1, <2>2, <1>3
    <2> HIDE DEF to
    <2>4. QED
        BY ONLY <1>2, <1>3, <2>1, <2>3, EvenSize(w, h), SameSize
<1>6. QED
    BY ONLY <1>4, <1>5 DEF RightConversion

\* An image of the gray filter.
LEMMA Grayfiltered ==
    ASSUME NEW w, NEW h, EvenSize(w, h), NEW k,
           k = [pair |-> <<"BGR888", "GRAYED">>, w |-> w, h |-> h, skip |-> 1,
                width |-> w, height |-> h, size |-> 3 * w * h,
                stores |-> GrayfilterStores(w, h)]
    PROVE  RightConversion(k)
<1> DEFINE n == w * h
<1>1. n \in Nat /\ 3 * w * h = 3 * n /\ 3 * n \in Nat
    BY EvenSizeFacts
<1>2. SourceSize("BGR888", w, h) = 3 * n /\ SourceSize("GRAYED", w, h) = 3 * n
    BY SourceSizes
<1>3. /\ OnceEach(GrayfilterStores(w, h), 3 * n, 3 * n)
      /\ \A s \in GrayfilterStores(w, h) : Matches("BGR888", "GRAYED", w, h, s)
    BY GrayfilterRight
<1> HIDE DEF n
<1>4. /\ k.pair[1] = "BGR888" /\ k.pair[2] = "GRAYED" /\ k.skip = 1 /\ k.w = w /\ k.h = h
      /\ k.width = w /\ k.height = h /\ k.size = 3 * n /\ k.stores = GrayfilterStores(w, h)
    BY <1>1
<1>5. WritesOnce(k)
    BY ONLY <1>2, <1>3, <1>4 DEF WritesOnce
<1>6. ReadsRight(k)
    <2>1. PICK to : to = "GRAYED"
        OBVIOUS
    <2>2. /\ k.pair[2] = to /\ to \in {"YV12", "BGR888", "RGB888", "GRAY", "GRAYED"}
          /\ k.size \in Nat /\ OnceEach(k.stores, k.size, SourceSize(k.pair[1], w, h))
          /\ \A s \in k.stores : Matches(k.pair[1], to, w, h, s)
        BY ONLY <1>1, <1>2, <1>3, <1>4, <2>1
    <2>3. QED
        BY ONLY <1>4, <2>2, EvenSize(w, h), SameSize
<1>7. QED
    BY ONLY <1>5, <1>6 DEF RightConversion

\* A downscaled image.
LEMMA Downscaled ==
    ASSUME NEW skip, skip \in Nat \ {0}, NEW w, w \in Nat \ {0}, NEW h, h \in Nat \ {0}, NEW k,
           k = [pair |-> <<"BGR888", "BGR888">>, w |-> Scaled(w, skip), h |-> Scaled(h, skip),
                skip |-> skip, width |-> w, height |-> h,
                size |-> Scaled(w, skip) * Scaled(h, skip) * 3,
                stores |-> DownscaleStores(skip, w, h)]
    PROVE  RightConversion(k)
<1> DEFINE sw == Scaled(w, skip)
           sh == Scaled(h, skip)
           S == DownscaleStores(skip, w, h)
<1>1. sw = Scaled(w, skip) /\ sh = Scaled(h, skip) /\ S = DownscaleStores(skip, w, h)
    OBVIOUS
<1>2. sw \in Nat /\ sh \in Nat
    BY DivMod DEF Scaled
<1>3. /\ k.pair[1] = "BGR888" /\ k.pair[2] = "BGR888" /\ k.skip = skip /\ k.w = sw /\ k.h = sh
      /\ k.width = w /\ k.height = h /\ k.size = sw * sh * 3 /\ k.stores = S
    OBVIOUS
<1> HIDE DEF sw, sh, S
<1>4. /\ OnceEach(S, 3 * (sw * sh), 3 * (w * h))
      /\ w % skip = 0 => Samples(S, w, sw, skip)
    BY <1>1, DownscaleRight
<1>5. /\ sw * sh * 3 = 3 * (sw * sh)
      /\ SourceSize("BGR888", sw, sh) = 3 * (sw * sh) /\ SourceSize("BGR888", w, h) = 3 * (w * h)
    BY <1>2 DEF SourceSize
<1>6. WritesOnce(k)
    BY ONLY <1>3, <1>4, <1>5 DEF WritesOnce
<1>7. ASSUME w % skip = 0, NEW s \in S
      PROVE  ReadsStore(k, s)
    <2>1. PICK i \in Nat, j \in Nat, c \in 0..2, b \in Nat, p \in Nat :
                /\ s = Store(3 * p + c, {3 * b + c})
                /\ At(sw, p) = <<i, j>> /\ At(w, b) = <<i * skip, j * skip>>
        BY <1>4, <1>7 DEF Samples
    <2> DEFINE t == 3 * p + c
               f == 3 * b + c
    <2>2. /\ t \in Nat /\ t \div 3 = p /\ t % 3 = c
          /\ f \in Nat /\ f \div 3 = b /\ f % 3 = c
        BY <2>1
    <2>3. s.to = t /\ s.from = {f}
        BY <2>1 DEF Store
    <2> HIDE DEF t, f
    <2>4. /\ Component("BGR888", sw, sh, t) = Colour("BGR888", c)
          /\ Pixels("BGR888", sw, sh, t) = {<<i, j>>}
        <3>1. /\ Component("BGR888", sw, sh, t) = Colour("BGR888", t % 3)
              /\ Pixels("BGR888", sw, sh, t) = {At(sw, t \div 3)}
            BY <2>2, ColourLayout
        <3>2. QED
            BY ONLY <2>1, <2>2, <3>1
    <2>5. /\ Component("BGR888", w, h, f) = Colour("BGR888", c)
          /\ Pixels("BGR888", w, h, f) = {<<i * skip, j * skip>>}
        <3>1. /\ Component("BGR888", w, h, f) = Colour("BGR888", f % 3)
              /\ Pixels("BGR888", w, h, f) = {At(w, f \div 3)}
            BY <2>2, ColourLayout
        <3>2. QED
            BY ONLY <2>1, <2>2, <3>1
    <2>6. Needs("BGR888", Colour("BGR888", c)) = {Colour("BGR888", c)}
        BY DEF Needs, Colour
    <2>7. Meant(k, t) = {<<i * skip, j * skip>>}
        <3>1. Meant(k, t) = {<<q[1] * skip, q[2] * skip>> : q \in {<<i, j>>}}
            BY ONLY <1>3, <2>4 DEF Meant
        <3>2. <<i, j>>[1] = i /\ <<i, j>>[2] = j
            OBVIOUS
        <3>3. QED
            BY ONLY <3>1, <3>2
    <2>8. QED
        BY ONLY <1>3, <2>3, <2>4, <2>5, <2>6, <2>7 DEF ReadsStore
<1>8. w % skip = 0 => ReadsRight(k)
    BY ONLY <1>3, <1>7 DEF ReadsRight
<1>9. QED
    BY ONLY <1>3, <1>6, <1>8 DEF RightConversion

\* The images are of even size.
LEMMA SizesAreEven == \A w \in Widths, h \in Heights : EvenSize(w, h)
BY SizesAssumption DEF EvenSize

\* The latest conversion is a right one.
ConvertedRight == Sound => RightConversion(converted)

\* What a right conversion is.
LEMMA RightIsOnce == ConvertedRight => EveryByteOnce /\ RightPixels
<1> SUFFICES ASSUME ConvertedRight, Sound PROVE EveryByteOnce /\ RightPixels
    BY DEF EveryByteOnce, RightPixels
<1>1. WritesOnce(converted) /\ (Aligned => ReadsRight(converted))
    BY DEF ConvertedRight, RightConversion, Aligned
<1>2. EveryByteOnce
    BY <1>1 DEF EveryByteOnce, WritesOnce, OnceEach
<1>3. RightPixels
    BY <1>1 DEF RightPixels, ReadsRight, ReadsStore, Meant
<1>4. QED
    BY <1>2, <1>3

\* A step converts an image right.
LEMMA StepRight == ASSUME ConvertNext PROVE ConvertedRight'
<1>1. PICK w \in Widths, h \in Heights :
            \/ \E pair \in Conversions : ConvertImage(pair, w, h)
            \/ \E factor \in Factors : Downscale(factor, w, h)
            \/ Grayfilter(w, h)
    BY DEF ConvertNext
<1>2. EvenSize(w, h) /\ w \in Nat \ {0} /\ h \in Nat \ {0}
    BY SizesAreEven DEF EvenSize
<1> PICK k : k = converted'
    OBVIOUS
<1>3. SUFFICES ASSUME k.pair # <<"BGR888", "YUYV">> PROVE RightConversion(k)
    BY DEF ConvertedRight, Sound
<1>4. CASE \E pair \in Conversions : ConvertImage(pair, w, h)
    <2>1. PICK pair \in Conversions : ConvertImage(pair, w, h)
        BY <1>4
    <2>2. k = [pair |-> pair, w |-> w, h |-> h, skip |-> 1, width |-> w, height |-> h,
               size |-> TargetSize(pair[1], pair[2], w, h),
               stores |-> Stores(pair[1], pair[2], w, h)]
        BY <2>1 DEF ConvertImage
    <2>3. pair # <<"BGR888", "YUYV">>
        BY <1>3, <2>2
    <2>4. QED
        BY ONLY <1>2, <2>2, <2>3, ConvertedImage, pair \in Conversions
<1>5. CASE \E factor \in Factors : Downscale(factor, w, h)
    <2>1. PICK factor \in Factors : Downscale(factor, w, h)
        BY <1>5
    <2> DEFINE skip == 2 * factor
    <2>2. skip \in Nat \ {0}
        BY SizesAssumption
    <2>3. k = [pair |-> <<"BGR888", "BGR888">>, w |-> Scaled(w, skip), h |-> Scaled(h, skip),
               skip |-> skip, width |-> w, height |-> h,
               size |-> Scaled(w, skip) * Scaled(h, skip) * 3,
               stores |-> DownscaleStores(skip, w, h)]
        BY <2>1 DEF Downscale
    <2> HIDE DEF skip
    <2>4. QED
        BY ONLY <1>2, <2>2, <2>3, Downscaled
<1>6. CASE Grayfilter(w, h)
    <2>1. k = [pair |-> <<"BGR888", "GRAYED">>, w |-> w, h |-> h, skip |-> 1,
               width |-> w, height |-> h, size |-> 3 * w * h,
               stores |-> GrayfilterStores(w, h)]
        BY <1>6 DEF Grayfilter
    <2>2. QED
        BY ONLY <1>2, <2>1, Grayfiltered
<1>7. QED
    BY <1>1, <1>4, <1>5, <1>6

\* The inductive invariant of Convert: the latest conversion is right.
THEOREM ConvertInvariance == ConvertSpec => []ConvertedRight
<1>1. ConvertInit => ConvertedRight
    BY DEF ConvertInit, ConvertedRight, Sound, NoConversion
<1>2. ConvertedRight /\ [ConvertNext]_convertVars => ConvertedRight'
    <2>1. ASSUME ConvertedRight, UNCHANGED convertVars PROVE ConvertedRight'
        BY <2>1 DEF convertVars, ConvertedRight, Sound
    <2>2. QED
        BY <2>1, StepRight
<1>3. QED
    BY <1>1, <1>2, PTL DEF ConvertSpec

\* Every conversion but that to YUYV, and the modules downscale and
\* grayfilter, write each byte of their result exactly once and read within
\* the source, for images of any even size and any factor.
THEOREM BytesAreWrittenOnce == ConvertSpec => []EveryByteOnce
BY ConvertInvariance, RightIsOnce, PTL

\* Each byte is computed from the right components of the pixels it stands
\* for, with the planes of YV12 in the order of convert.hh:118 (image.hh:53-63
\* gives another one), for images of any even size and, where no columns
\* remain, any factor.
THEOREM PixelsAreRight == ConvertSpec => []RightPixels
BY ConvertInvariance, RightIsOnce, PTL
===============================================================================
