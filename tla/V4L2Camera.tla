----------------------------- MODULE V4L2Camera -----------------------------
(***************************************************************************)
(* A camera object: lib/imaging/v4l2_camera.cc and the part of camera.cc   *)
(* above it.  The object is made for a device, opened once, and deleted    *)
(* after it was stopped, so it is a value here: what opening may yield,    *)
(* and what asking for a frame may do to it.                               *)
(*                                                                         *)
(* The driver is external.  It owns the buffers that are queued, hands     *)
(* back any of them, refuses a buffer it already has, gives only the sizes *)
(* it supports, and every call to it may fail.                             *)
(***************************************************************************)
EXTENDS Integers

CONSTANTS
    Device,       \* the numbers n with a character device /dev/video<n>
    Table,        \* supported_resolutions_
    Grants,       \* the sizes each device can be set to
    BufferCount   \* request_buffer_count_, 4 in the code

ASSUME DeviceAssumption == Device \subseteq 0..5
ASSUME TableAssumption == Table \subseteq Nat \ {0}
ASSUME GrantsAssumption == Grants \in [Device -> SUBSET (Nat \ {0})]
ASSUME BufferAssumption == BufferCount \in Nat \ {0}

Buffer == 0..BufferCount - 1

\* device_, the buffers at the driver, buffer_.index and running_.
Camera == [id: Device, size: Nat \ {0}, queued: SUBSET Buffer, index: Buffer,
           running: BOOLEAN]

\* _select_requested_settings: the size must be in the table, and the driver
\* may put another one in its place.
RequestedSizes(d, size) ==
    IF size \notin Table THEN {}
    ELSE IF size \in Grants[d] THEN {size} ELSE Grants[d]

\* select_best_available_settings: one the driver does not change; the larger
\* ones may have failed.
BestSizes(d) == Table \cap Grants[d]

\* Camera::open, which takes a width of 0 for no request.
SelectedSizes(d, size) ==
    IF size = 0 THEN BestSizes(d) ELSE RequestedSizes(d, size)

\* _start_capturing: every buffer is mapped and queued.
Capturing(d, size) ==
    [id |-> d, size |-> size, queued |-> Buffer, index |-> 0,
     running |-> FALSE]

\* What opening device d may yield when it does not fail.
Opened(d, size) == {Capturing(d, s) : s \in SelectedSizes(d, size)}

\* The buffers at the driver after the last one was queued again.
Requeued(c) == IF c.running THEN c.queued \cup {c.index} ELSE c.queued

\* The driver refuses a buffer it has.
MayQueue(c) == ~c.running \/ c.index \notin c.queued

\* Mutant of Dequeued: the working buffer is initialized before, not after
\* the last one is queued.
DequeuedInitialized(c) ==
    IF ~MayQueue(c) THEN {}
    ELSE {[c EXCEPT !.queued = (c.queued \cup {0}) \ {i}, !.index = i,
                    !.running = TRUE] : i \in c.queued \cup {0}}

\* retrieve_frame delivers a frame in one of the buffers,
Dequeued(c) ==
    IF ~MayQueue(c) THEN {}
    ELSE {[c EXCEPT !.queued = Requeued(c) \ {i}, !.index = i,
                    !.running = TRUE] : i \in Requeued(c)}

\* or fails: to wait for the device or to queue the last buffer, which change
\* nothing, or to dequeue one.
NotDequeued(c) ==
    {c} \cup IF ~MayQueue(c) THEN {}
             ELSE {[c EXCEPT !.queued = Requeued(c), !.index = 0,
                             !.running = TRUE]}

-----------------------------------------------------------------------------

\* No buffer is lost: each one is at the driver or is the one whose frame was
\* delivered last, which retrieve_frame will queue again.
Complete(c) ==
    Buffer \ c.queued \subseteq IF c.running THEN {c.index} ELSE {}
=============================================================================
