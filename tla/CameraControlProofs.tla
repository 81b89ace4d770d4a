------------------------- MODULE CameraControlProofs -------------------------
(***************************************************************************)
(* Safety of CameraControl for any devices, sizes, buffers and users.      *)
(*                                                                         *)
(* The five properties need each other: stopped_ is clear while the camera *)
(* is open, hence update_frame opens none over it and image_ still fits;   *)
(* a camera with a user is open, hence is_available and preselect_framesize*)
(* close none that is used.  Together with the types they are inductive.   *)
(* What opening and reading a camera may yield is said by three lemmas.    *)
(***************************************************************************)
EXTENDS CameraControl, TLAPS

Inv ==
    /\ CameraTypeOK
    /\ NoBufferLost
    /\ ImageFits
    /\ OpenIsNotStopped
    /\ UsersHaveCamera
    /\ RequestedIsGiven

Granted == UNION {Grants[d] : d \in Device}

\* A camera that was opened, as far as the invariant speaks of it.
Open(c) == c \in Camera /\ c # NoCamera /\ Complete(c) /\ c.size \in Granted

-----------------------------------------------------------------------------
(* The camera *)

LEMMA RealCamera == ASSUME NEW c \in Camera PROVE c # NoCamera
<1>1. c.id \in 0..5
    BY DeviceAssumption DEF Camera
<1>2. NoCamera.id = -1
    BY DEF NoCamera
<1>3. QED
    BY <1>1, <1>2

LEMMA OpenedIsOpen ==
    ASSUME NEW d \in Device, NEW size, NEW c \in Opened(d, size)
    PROVE  Open(c)
<1>1. PICK s \in SelectedSizes(d, size) : c = Capturing(d, s)
    BY DEF Opened
<1>2. s \in Grants[d] /\ s \in Nat \ {0}
    BY GrantsAssumption DEF SelectedSizes, BestSizes, RequestedSizes
<1>3. c \in Camera
    BY <1>1, <1>2, BufferAssumption DEF Capturing, Camera, Buffer
<1>4. Complete(c)
    BY <1>1 DEF Capturing, Complete
<1>5. c.size \in Granted
    BY <1>1, <1>2 DEF Capturing, Granted
<1>6. QED
    BY <1>3, <1>4, <1>5, RealCamera DEF Open

LEMMA InitIsOpen ==
    ASSUME NEW size, NEW pref, NEW c \in InitOutcomes(size, pref)
    PROVE  Open(c)
BY OpenedIsOpen DEF InitOutcomes, OpenedWith

\* Whether a frame is delivered or not, the camera stays as it is but for its
\* buffers, of which none is lost.
LEMMA FrameKeepsOpen ==
    ASSUME NEW c \in Camera, Complete(c), NEW d \in Dequeued(c) \cup NotDequeued(c)
    PROVE  d \in Camera /\ d # NoCamera /\ Complete(d) /\ d.size = c.size
<1> USE BufferAssumption DEF Camera, Buffer
<1>1. CASE d = c
    BY <1>1, RealCamera
<1>2. CASE MayQueue(c) /\ \E i \in Requeued(c) :
                d = [c EXCEPT !.queued = Requeued(c) \ {i}, !.index = i, !.running = TRUE]
    <2>1. PICK i \in Requeued(c) :
                d = [c EXCEPT !.queued = Requeued(c) \ {i}, !.index = i, !.running = TRUE]
        BY <1>2
    <2>2. Requeued(c) = Buffer
        BY DEF Requeued, Complete
    <2>3. d \in Camera /\ d.size = c.size
        BY <2>1, <2>2
    <2>4. Complete(d)
        BY <2>1, <2>2 DEF Complete
    <2>5. QED
        BY <2>3, <2>4, RealCamera
<1>3. CASE d = [c EXCEPT !.queued = Requeued(c), !.index = 0, !.running = TRUE]
    <2>1. Requeued(c) = Buffer
        BY DEF Requeued, Complete
    <2>2. d \in Camera /\ d.size = c.size
        <3>1. 0 \in Buffer /\ Buffer \in SUBSET Buffer
            OBVIOUS
        <3>2. d = [id |-> c.id, size |-> c.size, queued |-> Buffer,
                   index |-> 0, running |-> TRUE]
            BY <1>3, <2>1
        <3>3. QED
            BY <3>1, <3>2
    <2>3. Complete(d)
        BY <1>3, <2>1 DEF Complete
    <2>4. QED
        BY <2>2, <2>3, RealCamera
<1>4. QED
    BY <1>1, <1>2, <1>3 DEF Dequeued, NotDequeued

-----------------------------------------------------------------------------
(* The steps *)

LEMMA InvStep == Inv /\ [CameraNext]_cameraVars => Inv'
<1> SUFFICES ASSUME Inv, [CameraNext]_cameraVars PROVE Inv'
    OBVIOUS
<1>0. CASE UNCHANGED cameraVars
    BY <1>0 DEF cameraVars, Inv, CameraTypeOK, NoBufferLost, ImageFits,
        OpenIsNotStopped, UsersHaveCamera, RequestedIsGiven
<1> SUFFICES ASSUME CameraNext PROVE Inv'
    BY <1>0
<1> control = "returned"
    BY DEF CameraNext
<1> USE SizeAssumption, UsersAssumption, TableAssumption, DeviceAssumption
        DEF Inv, CameraTypeOK, NoBufferLost, ImageFits, OpenIsNotStopped,
            UsersHaveCamera, RequestedIsGiven, Return, Close, Hang, Allocate,
            Image, Open
<1>1. CASE IsAvailable
    BY <1>1 DEF IsAvailable
<1>2. CASE SearchHang
    BY <1>2 DEF SearchHang
<1>3. ASSUME NEW id \in Device, IsAvailableId(id) PROVE Inv'
    BY <1>3 DEF IsAvailableId, TestOther
<1>4. ASSUME NEW id \in Device, SwitchToPreferred(id) PROVE Inv'
    <2>1. CASE /\ camera' \in InitOutcomes(requested, id)
               /\ preferred' = id /\ stopped' = FALSE
               /\ image' = [size |-> camera'.size, own |-> TRUE]
               /\ control' = "returned" /\ UNCHANGED <<requested, users>>
        <3>1. Open(camera')
            BY <2>1, InitIsOpen
        <3>2. camera' \in Camera /\ camera' # NoCamera /\ Complete(camera')
              /\ camera'.size \in Nat
            BY <3>1 DEF Open, Camera
        <3>3. image' \in Image /\ image'.size = camera'.size
            BY <2>1, <3>2
        <3>4. QED
            BY <2>1, <3>2, <3>3
    <2>2. CASE /\ preferred' \in {id, preferred} /\ stopped' \in BOOLEAN
               /\ camera # NoCamera => UNCHANGED stopped
               /\ control' = "returned"
               /\ UNCHANGED <<camera, image, requested, users>>
        BY <2>2
    <2>3. QED
        BY <1>4, <2>1, <2>2 DEF SwitchToPreferred, TestOther
<1>5. ASSUME NEW id \in Device, SwitchHang(id) PROVE Inv'
    BY <1>5 DEF SwitchHang
<1>6. ASSUME NEW size \in Asked, Preselect(size) PROVE Inv'
    <2>1. CASE camera # NoCamera
        BY <1>6, <2>1 DEF Preselect
    <2>2. CASE camera = NoCamera
        <3>1. PICK c \in InitOutcomes(size, preferred) :
                    /\ requested' = Restored(size, c.size)
                    /\ Allocate(c.size) /\ Close
            BY <1>6, <2>2 DEF Preselect
        <3>2. Open(c)
            BY InitIsOpen
        <3>3. c.size \in Nat
            BY <3>2 DEF Camera
        <3>4. requested' \in Nat /\ requested' \in {Default} \cup Granted
            BY <3>1, <3>2 DEF Restored, Granted
        <3>5. QED
            BY <1>6, <2>2, <3>1, <3>3, <3>4 DEF Preselect, Granted
    <2>3. QED
        BY <2>1, <2>2
<1>7. ASSUME NEW size \in Asked, PreselectHang(size) PROVE Inv'
    BY <1>7 DEF PreselectHang
<1>8. ASSUME NEW n \in 1..MaxUsers, Acquire(n) PROVE Inv'
    <2>1. CASE camera # NoCamera
        BY <1>8, <2>1 DEF Acquire
    <2>2. CASE camera = NoCamera
        <3>1. Open(camera')
            BY <1>8, <2>2, InitIsOpen DEF Acquire
        <3>2. camera' \in Camera /\ camera' # NoCamera /\ Complete(camera')
              /\ camera'.size \in Nat
            BY <3>1 DEF Open, Camera
        <3>3. /\ image' = [size |-> camera'.size, own |-> TRUE]
              /\ stopped' = FALSE /\ control' = "returned"
              /\ users' = users + n /\ users + n <= MaxUsers
              /\ UNCHANGED <<requested, preferred>>
            BY <1>8, <2>2 DEF Acquire
        <3>4. users' \in 0..MaxUsers
            BY <3>3
        <3>5. image' \in Image /\ image'.size = camera'.size
            BY <3>2, <3>3
        <3>6. QED
            BY <3>2, <3>3, <3>4, <3>5
    <2>3. QED
        BY <2>1, <2>2
<1>9. CASE Release
    <2>1. users' \in 0..MaxUsers /\ users' <= users
        BY <1>9 DEF Release
    <2>2. \/ camera' = NoCamera /\ stopped' = TRUE /\ users' = 0
          \/ UNCHANGED <<camera, stopped>>
        BY <1>9 DEF Release
    <2>3. control' = "returned" /\ UNCHANGED <<requested, preferred, image>>
        BY <1>9 DEF Release
    <2>4. users' > 0 => users > 0
        BY <2>1
    <2>5. CASE camera' = NoCamera /\ stopped' = TRUE /\ users' = 0
        BY <2>1, <2>3, <2>5
    <2>6. CASE UNCHANGED <<camera, stopped>>
        BY <2>1, <2>3, <2>4, <2>6
    <2>7. QED
        BY <2>2, <2>5, <2>6
<1>10. CASE ReleaseAll
    BY <1>10 DEF ReleaseAll
<1>11. CASE UpdateFrame
    <2>1. PICK c : /\ IF stopped THEN c \in InitOutcomes(requested, preferred)
                      ELSE c = camera
                   /\ \/ /\ c # NoCamera
                         /\ Deliver(c, IF stopped THEN [size |-> c.size, own |-> TRUE]
                                       ELSE image)
                      \/ FallBack(c)
        BY <1>11, InitIsOpen DEF UpdateFrame
    <2>2. c = NoCamera \/ (c \in Camera /\ Complete(c))
        BY <2>1, InitIsOpen
    <2>3. c # NoCamera => camera' \in Camera /\ camera' # NoCamera
                          /\ Complete(camera') /\ camera'.size = c.size
        BY <2>1, <2>2, FrameKeepsOpen DEF Deliver, FallBack
    <2>4. c = NoCamera => camera = NoCamera /\ camera' = NoCamera
        BY <2>1, InitIsOpen DEF FallBack
    <2>5. c # NoCamera => c.size \in Nat
        BY <2>2 DEF Camera
    <2>6. image' \in Image
        <3>1. Default \in Nat
            BY SizeAssumption, TableAssumption
        <3>2. CASE FallBack(c)
            BY <3>1, <3>2 DEF FallBack, SetFromFallback
        <3>3. CASE ~FallBack(c)
            <4>1. /\ c # NoCamera
                  /\ image' = IF stopped THEN [size |-> c.size, own |-> TRUE]
                              ELSE image
                BY <2>1, <3>3 DEF Deliver
            <4>2. [size |-> c.size, own |-> TRUE] \in Image
                BY <4>1, <2>5
            <4>3. QED
                BY <4>1, <4>2
        <3>4. QED
            BY <3>2, <3>3
    <2>7. camera' # NoCamera /\ image'.own => image'.size = camera'.size
        BY <2>1, <2>3, <2>4 DEF Deliver, FallBack, SetFromFallback
    <2>8. control' \in {"returned", "aborted"}
        BY <2>1 DEF Deliver, FallBack
    <2>9. /\ stopped' = FALSE /\ requested' = requested
          /\ preferred' = preferred /\ users' = users
        BY <1>11 DEF UpdateFrame
    <2>10. users > 0 => camera # NoCamera /\ ~stopped
        OBVIOUS
    <2>11. users > 0 => camera' # NoCamera
        BY <2>1, <2>3, <2>10
    <2>12. QED
        BY <2>2, <2>3, <2>4, <2>6, <2>7, <2>8, <2>9, <2>11
<1>12. QED
    BY <1>1, <1>2, <1>3, <1>4, <1>5, <1>6, <1>7, <1>8, <1>9, <1>10, <1>11
    DEF CameraNext

-----------------------------------------------------------------------------

\* The conjunction of all properties holds in every behaviour.
THEOREM Invariance == CameraSpec => []Inv
<1>1. CameraInit => Inv
    <2> SUFFICES ASSUME CameraInit PROVE Inv
        OBVIOUS
    <2>1. Default \in Nat /\ 0 \in 0..MaxUsers
        BY SizeAssumption, TableAssumption, UsersAssumption
    <2>2. image \in Image
        BY DEF CameraInit, Image
    <2>3. CameraTypeOK
        BY <2>1, <2>2 DEF CameraInit, CameraTypeOK
    <2>4. UsersHaveCamera /\ RequestedIsGiven
        BY DEF CameraInit, UsersHaveCamera, RequestedIsGiven
    <2>5. NoBufferLost /\ ImageFits /\ OpenIsNotStopped
        BY DEF CameraInit, NoBufferLost, ImageFits, OpenIsNotStopped
    <2>6. QED
        BY <2>3, <2>4, <2>5 DEF Inv
<1>2. Inv /\ [CameraNext]_cameraVars => Inv'
    BY InvStep
<1>3. QED
    BY <1>1, <1>2, PTL DEF CameraSpec

\* Every variable of the camera control keeps its type.
THEOREM TypeCorrect == CameraSpec => []CameraTypeOK
<1>1. Inv => CameraTypeOK
    BY DEF Inv
<1>2. QED
    BY Invariance, <1>1, PTL

\* Over frames, failures and reopenings the driver loses no buffer
\* (v4l2_camera.cc:364-396).
THEOREM BuffersAreKept == CameraSpec => []NoBufferLost
<1>1. Inv => NoBufferLost
    BY DEF Inv
<1>2. QED
    BY Invariance, <1>1, PTL

\* image_ has the size of the open camera unless it is the fallback image
\* (cameracontrol.cc:316-318).
THEOREM ImageFollowsCamera == CameraSpec => []ImageFits
<1>1. Inv => ImageFits
    BY DEF Inv
<1>2. QED
    BY Invariance, <1>1, PTL

\* stopped_ is clear while the camera is open: update_frame never opens a
\* second one over it (cameracontrol.cc:238).
THEOREM NeverOpenedTwice == CameraSpec => []OpenIsNotStopped
<1>1. Inv => OpenIsNotStopped
    BY DEF Inv
<1>2. QED
    BY Invariance, <1>1, PTL

\* A camera with users is open, whatever else opened and closed devices
\* (cameracontrol.cc:200-209).
THEOREM UsedCameraIsOpen == CameraSpec => []UsersHaveCamera
<1>1. Inv => UsersHaveCamera
    BY DEF Inv
<1>2. QED
    BY Invariance, <1>1, PTL

\* Between two calls the requested size is the default or one that a device
\* gives (cameracontrol.cc:135-139).
THEOREM RequestIsGranted == CameraSpec => []RequestedIsGiven
<1>1. Inv => RequestedIsGiven
    BY DEF Inv
<1>2. QED
    BY Invariance, <1>1, PTL
=============================================================================
