----------------------------- MODULE ModulePass -----------------------------
(***************************************************************************)
(* What a pass of the main loop does with a frame: the wrapped modules of  *)
(* lib/core/module_wrapper.cc and lib/interface/module.cc, executed one    *)
(* after the other by Api::module_exec, and between them FrameConversions  *)
(* of lib/imaging/convert.hh, which hands each module the current frame in *)
(* the format it wants.  Api models who may call what when; here the loop  *)
(* is alone, and the client acts between two executions.                   *)
(*                                                                         *)
(* An image is known by the grabbed frame it shows and by the module that  *)
(* has made it.  Only camera frames have a timestamp: allocate() leaves it *)
(* 0, for the fallback image as for the output of a module.                *)
(***************************************************************************)
EXTENDS Integers, FiniteSets, FiniteSetsExt, Sequences

CONSTANTS
    Unit,          \* the modules, by id: a pass takes them in this order
    Wanted,        \* the format each one wants, "NONE" for no image
    Modifier,      \* the modules that output an image, in BGR888
    CameraFormat,  \* the format of the camera
    Converters,    \* the pairs of formats there is a converter for
    PeriodValue,   \* the values "period" is set to
    MaxGrabbed     \* bound: frames grabbed

ASSUME UnitAssumption ==
    /\ Unit \subseteq Nat \ {0} /\ IsFiniteSet(Unit) /\ Unit # {}
    /\ Modifier \subseteq Unit /\ PeriodValue \subseteq Int
    /\ MaxGrabbed \in Nat \ {0}

Formats == {"NONE", "INVALID", "YUYV", "YV12", "BGR888", "RGB888", "GRAY"}

\* Without a converter the code would use an uninitialized pointer: no such
\* module is loaded.
ASSUME WantedAssumption ==
    /\ Wanted \in [Unit -> Formats] /\ CameraFormat \in Formats
    /\ Converters \subseteq Formats \X Formats
    /\ \A m \in Unit : Wanted[m] # "NONE" =>
            \A f \in {CameraFormat, "BGR888"} \ {Wanted[m]} : <<f, Wanted[m]>> \in Converters

VARIABLES
    enabled,    \* active_
    periodSet,  \* the value of the parameter "period"
    period,     \* period_, an uint8_t
    current,    \* the counter of execute, one for all modules
    output,     \* output_image_
    frame,      \* what frame_ of FrameConversions points to
    results,    \* the results of its converters
    next,       \* the module the pass takes next, 0 between two passes
    given,      \* the image given to the latest execution, and frame then
    removable,  \* the modules that are Removable
    grabbed,    \* frames grabbed
    missed      \* the passes a module was not due in since its latest turn,
                \* or since it was enabled or given its period

passVars == <<enabled, periodSet, period, current, output, frame, results,
              next, given, removable, grabbed, missed>>

Picture == [of: 0..MaxGrabbed, by: Unit \cup {0}, format: Formats,
            stamp: 0..MaxGrabbed]

NoPicture == [of |-> 0, by |-> 0, format |-> "INVALID", stamp |-> 0]

-----------------------------------------------------------------------------
(* FrameConversions *)

\* Mutant of SetFrame: the results of the converters are kept.
SetFrameKeeping(image) == frame' = image /\ UNCHANGED results

\* set_frame marks every result as invalid.
SetFrame(image) ==
    /\ frame' = image
    /\ results' = [pair \in Converters |-> NoPicture]

\* A result is used again if it is valid and has the timestamp of the frame.
Fresh(result) == result.format # "INVALID" /\ result.stamp = frame.stamp

\* get_frame
InFormat(format) ==
    LET result == results[<<frame.format, format>>]
    IN  IF format = frame.format THEN frame
        ELSE IF Fresh(result) THEN result ELSE [frame EXCEPT !.format = format]

\* The results after get_frame.
Converted(format) ==
    IF format = frame.format THEN results
    ELSE [results EXCEPT ![<<frame.format, format>>] = InFormat(format)]

-----------------------------------------------------------------------------
(* ModuleWrapper and Module *)

\* set_parameter: only values in the range are taken.
SetPeriod(m, value) ==
    /\ value \in 0..500
    /\ periodSet' = [periodSet EXCEPT ![m] = value]
    /\ period' = [period EXCEPT ![m] = value % 256]
    /\ missed' = [missed EXCEPT ![m] = 0]
    /\ UNCHANGED <<enabled, current, output, frame, results, next, given,
                   removable, grabbed>>

\* enable and disable, by module_start and module_stop
Enable(m) ==
    /\ enabled' = [enabled EXCEPT ![m] = TRUE]
    /\ missed' = [missed EXCEPT ![m] = 0]
    /\ UNCHANGED <<periodSet, period, current, output, frame, results, next,
                   given, removable, grabbed>>

Disable(m) ==
    /\ enabled' = [enabled EXCEPT ![m] = FALSE]
    /\ UNCHANGED <<periodSet, period, current, output, frame, results, next,
                   given, removable, grabbed, missed>>

\* execute(Image): is this execution to be done?
Due(m) == period[m] > 0 /\ current + 1 >= period[m]

\* The counter stands still for a module whose period is 0.
Count(m) ==
    current' = IF period[m] = 0 THEN current
               ELSE IF Due(m) THEN 0 ELSE current + 1

\* What a module that outputs images makes of the image.
Modified(m, image) ==
    [of |-> image.of, by |-> m, format |-> "BGR888", stamp |-> 0]

-----------------------------------------------------------------------------
(* Api::module_exec within a pass *)

After(m) == Min({n \in Unit : n > m} \cup {Max(Unit) + 1})

Advance(m) == next' = After(m)

\* Paused modules are skipped.
Skip(m) ==
    /\ ~enabled[m]
    /\ Advance(m)
    /\ UNCHANGED <<enabled, periodSet, period, current, output, frame,
                   results, given, removable, grabbed, missed>>

\* The output image becomes the frame for the modules that follow, whether
\* the module was executed in this pass or not.
PassOn(image, res) ==
    IF image.format # "INVALID" THEN SetFrame(image)
    ELSE UNCHANGED frame /\ results' = res

\* A module that is not executed passes on its output of an earlier pass.
Hold(m, res) == PassOn(output[m], res) /\ UNCHANGED output

\* A module without an input image only passes on its output.
PassOnly(m) ==
    /\ enabled[m] /\ Wanted[m] = "NONE"
    /\ Hold(m, results)
    /\ Advance(m)
    /\ UNCHANGED <<enabled, periodSet, period, current, given, removable,
                   grabbed, missed>>

\* The frame is converted, but it is not the turn of the module.
NotDue(m) ==
    /\ enabled[m] /\ Wanted[m] # "NONE"
    /\ ~Due(m)
    /\ Count(m)
    /\ Hold(m, Converted(Wanted[m]))
    /\ missed' = [missed EXCEPT ![m] = @ + 1]
    /\ Advance(m)
    /\ UNCHANGED <<enabled, periodSet, period, given, removable, grabbed>>

Turn(m) ==
    /\ enabled[m] /\ Wanted[m] # "NONE"
    /\ Due(m)
    /\ Count(m)
    /\ missed' = [missed EXCEPT ![m] = 0]
    /\ Advance(m)
    /\ UNCHANGED <<enabled, periodSet, period, grabbed>>

Give(m) == given' = [image |-> InFormat(Wanted[m]), frame |-> frame, to |-> m]

\* Module::execute: the module finds no header for its output image and is
\* not executed.
Refuse(m) ==
    /\ m \in Modifier
    /\ Turn(m)
    /\ Hold(m, Converted(Wanted[m]))
    /\ UNCHANGED <<given, removable>>

\* Module::execute
Execute(m) ==
    /\ Turn(m)
    /\ Give(m)
    /\ LET image == InFormat(Wanted[m])
       IN  /\ output' = IF m \in Modifier
                          THEN [output EXCEPT ![m] = Modified(m, image)]
                          ELSE output
           /\ PassOn(output'[m], Converted(Wanted[m]))
    /\ UNCHANGED removable

\* The module throws: it is to be removed, and passes nothing on.
Throw(m) ==
    /\ Turn(m)
    /\ Give(m)
    /\ removable' = removable \cup {m}
    /\ results' = Converted(Wanted[m])
    /\ UNCHANGED <<output, frame>>

-----------------------------------------------------------------------------
(* Api::execute *)

\* update_frame delivers the next frame of the camera or the fallback image,
\* which is always the same.
Grabbed ==
    {[of |-> grabbed + 1, by |-> 0, format |-> CameraFormat, stamp |-> grabbed + 1],
     [of |-> 0, by |-> 0, format |-> "BGR888", stamp |-> 0]}

BeginPass ==
    /\ next = 0 /\ grabbed < MaxGrabbed
    /\ \E m \in Unit : enabled[m]
    /\ \E image \in Grabbed : SetFrame(image)
    /\ grabbed' = grabbed + 1
    /\ next' = Min(Unit)
    /\ UNCHANGED <<enabled, periodSet, period, current, output, given,
                   removable, missed>>

\* The removable modules leave the table.
EndPass ==
    /\ next > Max(Unit)
    /\ enabled' = [m \in Unit |-> enabled[m] /\ m \notin removable]
    /\ next' = 0
    /\ UNCHANGED <<periodSet, period, current, output, frame, results, given,
                   removable, grabbed, missed>>

ExecuteNext ==
    /\ next \in Unit
    /\ \/ Skip(next) \/ PassOnly(next) \/ NotDue(next)
       \/ Refuse(next) \/ Execute(next) \/ Throw(next)

PassInit ==
    /\ enabled = [m \in Unit |-> FALSE]
    /\ periodSet = [m \in Unit |-> 1] /\ period = [m \in Unit |-> 1]
    /\ current = 0
    /\ output = [m \in Unit |-> NoPicture]
    /\ frame = NoPicture /\ results = [pair \in Converters |-> NoPicture]
    /\ next = 0
    /\ given = [image |-> NoPicture, frame |-> NoPicture, to |-> 0]
    /\ removable = {}
    /\ grabbed = 0
    /\ missed = [m \in Unit |-> 0]

PassNext ==
    \/ BeginPass \/ ExecuteNext \/ EndPass
    \/ \E m \in Unit \ removable :
            \/ ~enabled[m] /\ Enable(m)
            \/ enabled[m] /\ Disable(m)
            \/ \E value \in PeriodValue : SetPeriod(m, value)

PassSpec == PassInit /\ [][PassNext]_passVars

-----------------------------------------------------------------------------
(* Properties *)

\* The type invariant of the wrappers, the conversions and the pass.
PassTypeOK ==
    /\ enabled \in [Unit -> BOOLEAN]
    /\ periodSet \in [Unit -> 0..500] /\ period \in [Unit -> 0..255]
    /\ current \in 0..254
    /\ output \in [Unit -> Picture] /\ frame \in Picture
    /\ results \in [Converters -> Picture]
    /\ given.image \in Picture /\ given.frame \in Picture
    /\ given.to \in Unit \cup {0}
    /\ removable \subseteq Unit
    /\ grabbed \in 0..MaxGrabbed /\ missed \in [Unit -> Nat]

\* A module is never given the conversion of another image than the current
\* one, though the fallback image and the outputs of all modules have the same
\* timestamp (convert.hh:524-525): every change of the frame invalidates the
\* results of the converters.
ConversionCurrent ==
    given.to # 0 =>
        given.image = [given.frame EXCEPT !.format = Wanted[given.to]]

\* The comment in module_wrapper.hh:83-85 says of period_ that it is "an
\* execution frequency for the wrapped module", and 1 "means 'execute every
\* cycle'": a module with the period p misses at most p - 1 cycles.
PeriodRespected ==
    \A m \in Unit : enabled[m] /\ period[m] > 0 => missed[m] < period[m]
=============================================================================
