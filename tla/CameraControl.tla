---------------------------- MODULE CameraControl ----------------------------
(***************************************************************************)
(* The owner of the camera, lib/core/cameracontrol.cc, with the image it   *)
(* keeps for its callers, an ImageAllocator of lib/interface/image.cc.     *)
(*                                                                         *)
(* Each public method is one action: the calls that change the camera are  *)
(* serialized by camera_mutex_.  What two threads may do around that mutex *)
(* is not modelled.                                                        *)
(*                                                                         *)
(* The search for any device, _open_device without an id, counts an        *)
(* unsigned i down "while i >= 0": it returns with a device or not at all. *)
(***************************************************************************)
EXTENDS V4L2Camera

CONSTANTS
    Default,   \* the size requested at first, which the fallback image has
    Asked,     \* the sizes set_framesize is called with, 0 for a width of 0
    MaxUsers   \* bound: users of the camera

ASSUME SizeAssumption == Default \in Table /\ Asked \subseteq Nat
ASSUME UsersAssumption == MaxUsers \in Nat \ {0}

VARIABLES
    camera,     \* camera_: the open camera or NoCamera
    requested,  \* requested_width_ and requested_height_
    preferred,  \* preferred_device_, -1 for none
    users,      \* usercount_
    stopped,    \* stopped_
    image,      \* image_
    control     \* the last call returned, waits for ever, or aborted

cameraVars == <<camera, requested, preferred, users, stopped, image,
                control>>

NoCamera == [id |-> -1]

\* An ImageAllocator: the size of its image (0 for no data) and whether the
\* data is its own.
Image == [size: Nat, own: BOOLEAN]

-----------------------------------------------------------------------------
(* ImageAllocator *)

\* Mutant of Allocate: an image that has data is kept.
AllocateOnce(size) ==
    image' = IF image.size = 0 \/ ~image.own
              THEN [size |-> size, own |-> TRUE] ELSE image

\* allocate(header, false)
Allocate(size) == image' = [size |-> size, own |-> TRUE]

\* set_from_image(fallback_)
SetFromFallback == image' = [size |-> Default, own |-> FALSE]

\* copy_data asserts that the data is its own and has the size of the source.
MayCopy(i, size) == i.own /\ i.size = size

-----------------------------------------------------------------------------
(* The private methods *)

\* _open_device with an id: the device may refuse.
OpenedWith(id, size) == IF id \in Device THEN Opened(id, size) ELSE {}

\* _init: the preferred device first, then any, the higher ones having failed.
InitOutcomes(size, pref) ==
    OpenedWith(pref, size) \cup UNION {Opened(d, size) : d \in Device}

Return == control' = "returned"

\* No device opens: the search goes on for ever.
Hang ==
    /\ control' = "hung"
    /\ UNCHANGED <<users, preferred, image>>

Close == camera' = NoCamera /\ stopped' = TRUE

\* _test_device of id for a device that is not camera_ clears
\* stopped_ when the device opens, and only closing camera_ sets it.
TestOther(id, ok) ==
    /\ ok => OpenedWith(id, requested) # {}
    /\ stopped' = IF ok THEN FALSE ELSE stopped

-----------------------------------------------------------------------------
(* The public methods *)

\* is_available opens and closes camera_ unless it is open.
IsAvailable ==
    /\ IF camera # NoCamera
         THEN UNCHANGED <<camera, stopped>>
         ELSE InitOutcomes(requested, -1) # {} /\ Close
    /\ Return
    /\ UNCHANGED <<requested, preferred, users, image>>

IsAvailableId(id) ==
    /\ IF camera.id = id
         THEN UNCHANGED stopped
         ELSE \E ok \in BOOLEAN : TestOther(id, ok)
    /\ Return
    /\ UNCHANGED <<camera, requested, preferred, users, image>>

\* Mutant of SwitchToPreferred: the open device is replaced by the preferred
\* one without _init, hence without a new image.
SwitchToPreferredKeeping(id) ==
    /\ preferred' = id
    /\ camera # NoCamera /\ camera.id # id
    /\ camera' \in OpenedWith(id, requested)
    /\ stopped' = FALSE
    /\ Return
    /\ UNCHANGED <<requested, users, image>>

\* switch_to_preferred: the open camera is replaced if it is another one.
SwitchToPreferred(id) ==
    \/ /\ camera.id = id
       /\ preferred' = id
       /\ Return
       /\ UNCHANGED <<camera, stopped, image, requested, users>>
    \/ /\ camera.id # id
       /\ \E ok \in BOOLEAN :
             /\ ok => camera = NoCamera
             /\ TestOther(id, ok)
             /\ preferred' = IF ok THEN id ELSE preferred
       /\ Return
       /\ UNCHANGED <<camera, image, requested, users>>
    \/ /\ camera.id \notin {id, -1}
       /\ OpenedWith(id, requested) # {}
       /\ preferred' = id
       /\ camera' \in InitOutcomes(requested, id)
       /\ stopped' = FALSE
       /\ Allocate(camera'.size)
       /\ Return
       /\ UNCHANGED <<requested, users>>

\* Mutant of Restored: a size the device did not give is kept.
RestoredNever(size, given) == size

\* The size that remains requested when the device gave another one.
Restored(size, given) == IF given = size THEN size ELSE requested

\* preselect_framesize tries the size on a device that it closes again.
Preselect(size) ==
    /\ IF camera # NoCamera
         THEN UNCHANGED <<camera, stopped, requested, image>>
         ELSE \E c \in InitOutcomes(size, preferred) :
                 /\ requested' = Restored(size, c.size)
                 /\ Allocate(c.size)
                 /\ Close
    /\ Return
    /\ UNCHANGED <<preferred, users>>

PreselectHang(size) ==
    /\ camera = NoCamera
    /\ Hang
    /\ requested' = size
    /\ UNCHANGED <<camera, stopped>>

\* Mutant of Acquire: opening the camera does not clear stopped_.
AcquireStopped(n) ==
    /\ users + n <= MaxUsers
    /\ IF camera # NoCamera
         THEN UNCHANGED <<camera, image>>
         ELSE camera' \in InitOutcomes(requested, preferred)
              /\ Allocate(camera'.size)
    /\ users' = users + n
    /\ Return
    /\ UNCHANGED <<requested, preferred, stopped>>

\* acquire(n), which is acquire() and n - 1 users more.
Acquire(n) ==
    /\ users + n <= MaxUsers
    /\ IF camera # NoCamera
         THEN UNCHANGED <<camera, stopped, image>>
         ELSE /\ camera' \in InitOutcomes(requested, preferred)
              /\ stopped' = FALSE
              /\ Allocate(camera'.size)
    /\ users' = users + n
    /\ Return
    /\ UNCHANGED <<requested, preferred>>

\* acquire, is_available and update_frame search without a device; so does
\* switch_to_preferred after it has closed the camera.
SearchHang ==
    /\ camera = NoCamera
    /\ Hang
    /\ UNCHANGED <<camera, stopped, requested>>

SwitchHang(id) ==
    /\ camera.id \notin {id, -1} /\ OpenedWith(id, requested) # {}
    /\ control' = "hung" /\ preferred' = id
    /\ Close
    /\ UNCHANGED <<requested, users, image>>

\* Mutant of Release: the last user but one closes the camera.
ReleaseEarly ==
    /\ users' = IF users > 0 THEN users - 1 ELSE 0
    /\ IF users <= 2 /\ camera # NoCamera
         THEN Close ELSE UNCHANGED <<camera, stopped>>
    /\ Return
    /\ UNCHANGED <<requested, preferred, image>>

Release ==
    /\ users' = IF users > 0 THEN users - 1 ELSE 0
    /\ IF users <= 1 /\ camera # NoCamera
         THEN Close ELSE UNCHANGED <<camera, stopped>>
    /\ Return
    /\ UNCHANGED <<requested, preferred, image>>

ReleaseAll ==
    /\ users' = 0
    /\ Close
    /\ Return
    /\ UNCHANGED <<requested, preferred, image>>

\* _update_from_camera on camera c, when image_ is img.  copy_data aborts the
\* process if the image is not its own.
Deliver(c, img) ==
    /\ camera' \in Dequeued(c)
    /\ image' = img
    /\ control' = IF MayCopy(img, c.size) THEN "returned" ELSE "aborted"

\* No frame: image_ becomes an alias of the fallback image.
FallBack(c) ==
    /\ camera' \in IF c = NoCamera THEN {c} ELSE NotDequeued(c)
    /\ SetFromFallback
    /\ Return

\* update_frame, which opens a camera first if it was stopped.
UpdateFrame ==
    /\ \/ /\ ~stopped
          /\ \/ camera # NoCamera /\ Deliver(camera, image)
             \/ FallBack(camera)
       \/ /\ stopped
          /\ \E c \in InitOutcomes(requested, preferred) :
                \/ Deliver(c, [size |-> c.size, own |-> TRUE])
                \/ FallBack(c)
    /\ stopped' = FALSE
    /\ UNCHANGED <<requested, preferred, users>>

-----------------------------------------------------------------------------

CameraInit ==
    /\ camera = NoCamera /\ requested = Default /\ preferred = -1
    /\ users = 0 /\ stopped = FALSE
    /\ image = [size |-> 0, own |-> TRUE]
    /\ control = "returned"

\* After a call that did not return nothing else is called.
CameraNext ==
    /\ control = "returned"
    /\ \/ IsAvailable \/ SearchHang
       \/ \E id \in Device : IsAvailableId(id) \/ SwitchToPreferred(id)
                             \/ SwitchHang(id)
       \/ \E size \in Asked : Preselect(size) \/ PreselectHang(size)
       \/ \E n \in 1..MaxUsers : Acquire(n)
       \/ Release \/ ReleaseAll
       \/ UpdateFrame

CameraSpec == CameraInit /\ [][CameraNext]_cameraVars

-----------------------------------------------------------------------------
(* Properties *)

\* The type invariant of camera_, the requested size, the users and image_.
CameraTypeOK ==
    /\ camera = NoCamera \/ camera \in Camera
    /\ requested \in Nat /\ preferred \in Device \cup {-1}
    /\ users \in 0..MaxUsers
    /\ stopped \in BOOLEAN
    /\ image \in Image
    /\ control \in {"returned", "hung", "aborted"}

\* The driver never runs out of buffers: over any frames, failures and
\* reopenings (v4l2_camera.cc:364-396) at most one buffer is at neither side.
NoBufferLost == camera = NoCamera \/ Complete(camera)

\* Whatever opened or replaced the camera has also allocated image_ for its
\* frames (cameracontrol.cc:316-318), which copy_data relies on.
ImageFits == camera # NoCamera /\ image.own => image.size = camera.size

\* While the camera is open stopped_ is clear: otherwise update_frame would
\* open a second one over it (cameracontrol.cc:238).
OpenIsNotStopped == camera # NoCamera => ~stopped

\* Between two calls the camera is open as long as it has a user
\* (cameracontrol.cc:200-209), also after switch_to_preferred and is_available
\* have opened and closed devices.
UsersHaveCamera == control = "returned" /\ users > 0 => camera # NoCamera

\* The requested size is the first one or one that a device has given, so that
\* a later search can succeed (cameracontrol.cc:135-139).
RequestedIsGiven ==
    control = "returned" => requested \in {Default} \cup UNION {Grants[d] : d \in Device}

\* The comment in image.cc:116-117 says of copy_data that "the method is only
\* called for instances that are already set to be managing their own data":
\* its assertions hold in every frame.
CopyOwnsData == control # "aborted"
=============================================================================
