------------------------------- MODULE Stream -------------------------------
(***************************************************************************)
(* The module that streams the frames it is executed with,                 *)
(* src/modules/stream.  Its execute and stop are called by the library,    *)
(* never together (SharedResource); a thread of its own, the streamer,     *)
(* runs the event loop of live555 and fetches what the encoder has made.   *)
(*                                                                         *)
(* live555 and x264 are external.  A client that connects makes a source   *)
(* of bytes and a sink that asks it for one nal after the other.  The      *)
(* first client has to wait for the description of the stream in an event  *)
(* loop of its own, which runs inside the outer one.  What x264 makes of a *)
(* frame is a number of nals, known by the frame.                          *)
(***************************************************************************)
EXTENDS Integers, Sequences

CONSTANTS
    MaxKept,    \* the number of nals that are kept, 10 in the code
    MaxNals,    \* nals a frame is encoded to at most
    MaxFrames   \* bound: frames encoded

ASSUME StreamAssumption ==
    MaxKept \in Nat /\ MaxNals \in Nat \ {0} /\ MaxFrames \in Nat

VARIABLES
    at,          \* where the module is: idle, in execute, or waiting in stop
    session,     \* session_ and subsession_ exist
    killswitch,  \* killswitch_
    quit,        \* quit of the context
    url,         \* url_
    urlValue,    \* the value of the parameter "url"
    streamer,    \* where the streamer is
    source,      \* the source of bytes: none, asked for a nal, waiting for
                 \* one in doGetNextFrame, or given up
    sourceNals,  \* nals_ of the source
    encoded,     \* nals_ of the encoder
    described,   \* the sink has seen the description of the stream
    doneFlag,    \* done_flag_ of the media session, with aux_SDP_line_
    frames,      \* frames encoded
    sent         \* the frame of the nal that was sent last

moduleVars   == <<at, session, url, urlValue, frames>>
flagVars     == <<killswitch, quit>>
sourceVars   == <<source, sourceNals, described, doneFlag, sent>>
streamVars   == <<moduleVars, flagVars, sourceVars, streamer, encoded>>

OuterLoop == {"check", "event"}
InnerLoop == {"innerCheck", "innerEvent"}

\* The predicate of the parameter "url" accepts only the member.
SetUrl(value) ==
    urlValue' = IF url' # "" /\ value = url' THEN value ELSE urlValue

-----------------------------------------------------------------------------
(* Stream::execute *)

\* The first execution, also after stop, makes a new session and starts the
\* streamer.  If no server can be opened it throws, and changes nothing here.
StartStreaming ==
    IF session THEN UNCHANGED <<session, url, urlValue, streamer, sourceVars>>
    ELSE /\ session' = TRUE
         /\ streamer' = "check"
         /\ url' = "rtsp" /\ SetUrl("rtsp")
         /\ source' = "none" /\ sourceNals' = <<>>
         /\ described' = FALSE /\ doneFlag' = FALSE
         /\ UNCHANGED sent

\* Mutant of Kept: the limit is missed when a frame brings more than one nal.
KeptUnlessEqual == IF Len(encoded) = MaxKept + 1 THEN <<>> ELSE encoded

\* If no one is watching old nals are discarded.
Kept == IF Len(encoded) > MaxKept THEN <<>> ELSE encoded

ExecuteBegin ==
    /\ at = "idle" /\ frames < MaxFrames
    /\ StartStreaming
    /\ encoded' = Kept
    /\ at' = "execute"
    /\ UNCHANGED <<flagVars, frames>>

\* add_frame
AddFrame ==
    /\ at = "execute"
    /\ \E n \in 0..MaxNals : encoded' = encoded \o [i \in 1..n |-> frames + 1]
    /\ frames' = frames + 1
    /\ at' = "idle"
    /\ UNCHANGED <<session, url, urlValue, flagVars, sourceVars, streamer>>

-----------------------------------------------------------------------------
(* Stream::stop *)

\* Mutant of StopSignal: the source is not told to quit.
StopSignalLoop ==
    /\ at = "idle"
    /\ killswitch' = TRUE /\ UNCHANGED quit
    /\ at' = "stop"
    /\ UNCHANGED <<session, url, urlValue, frames, sourceVars, streamer, encoded>>

StopSignal ==
    /\ at = "idle"
    /\ killswitch' = TRUE /\ quit' = TRUE
    /\ at' = "stop"
    /\ UNCHANGED <<session, url, urlValue, frames, sourceVars, streamer, encoded>>

\* Mutant of Deactivated: the parameter is set before the member.
DeactivatedBefore ==
    /\ url' = "<inactive>"
    /\ urlValue' = IF url # "" /\ url = "<inactive>" THEN "<inactive>" ELSE urlValue

Deactivated == url' = "<inactive>" /\ SetUrl("<inactive>")

\* stop waits for the streamer, if there is one, and forgets the session.
StopEnd ==
    /\ at = "stop" /\ streamer \in {"none", "ended"}
    /\ streamer' = "none" /\ session' = FALSE
    /\ Deactivated
    /\ source' = "none" /\ sourceNals' = <<>>
    /\ at' = "idle"
    /\ UNCHANGED <<flagVars, described, doneFlag, sent, encoded, frames>>

-----------------------------------------------------------------------------
(* The streamer: doEventLoop of live555 *)

\* An event loop tests its flag and then handles one event.
Turn ==
    /\ source # "waiting"
    /\ \/ /\ streamer = "check"
          /\ streamer' = IF killswitch THEN "ended" ELSE "event"
          /\ UNCHANGED sourceVars
       \/ /\ streamer = "innerCheck" /\ ~doneFlag
          /\ streamer' = "innerEvent"
          /\ UNCHANGED sourceVars
       \/ \* the stream is described, and its source closed again
          /\ streamer = "innerCheck" /\ doneFlag
          /\ streamer' = "check"
          /\ source' = "none" /\ sourceNals' = <<>>
          /\ UNCHANGED <<described, doneFlag, sent>>
    /\ UNCHANGED <<moduleVars, flagVars, encoded>>

Handled == streamer' = IF streamer = "event" THEN "check" ELSE "innerCheck"

\* getAuxSDPLine for the first client starts the sink, which asks at once;
\* for later ones the line is known.
Connect ==
    /\ streamer = "event" /\ source = "none"
    /\ IF doneFlag
         THEN source' = "asked" /\ streamer' = "check"
         ELSE source' = "waiting" /\ streamer' = "innerCheck"
    /\ UNCHANGED <<moduleVars, flagVars, sourceNals, described, doneFlag, sent, encoded>>

\* The client leaves.
Disconnect ==
    /\ streamer = "event" /\ source \notin {"none", "waiting"}
    /\ source' = "none" /\ sourceNals' = <<>>
    /\ Handled
    /\ UNCHANGED <<moduleVars, flagVars, described, doneFlag, sent, encoded>>

\* The sink asks for the next nal: doGetNextFrame is called.
Ask ==
    /\ streamer \in {"event", "innerEvent"} /\ source = "asked"
    /\ source' = "waiting"
    /\ Handled
    /\ UNCHANGED <<moduleVars, flagVars, sourceNals, described, doneFlag, sent, encoded>>

\* check_for_aux_sdp_line, called again and again while the client waits
CheckForLine ==
    /\ streamer = "innerEvent" /\ described
    /\ doneFlag' = TRUE
    /\ Handled
    /\ UNCHANGED <<moduleVars, flagVars, source, sourceNals, described, sent, encoded>>

\* Nothing to handle.
Idle ==
    /\ streamer \in {"event", "innerEvent"} /\ source # "asked"
    /\ streamer = "innerEvent" => ~described
    /\ Handled
    /\ UNCHANGED <<moduleVars, flagVars, sourceVars, encoded>>

-----------------------------------------------------------------------------
(* H264ByteSource::doGetNextFrame *)

\* Mutant of Fetch: the nals remain in the queue of the encoder.
FetchKeeping ==
    /\ source = "waiting" /\ ~quit /\ sourceNals = <<>> /\ encoded # <<>>
    /\ sourceNals' = encoded
    /\ UNCHANGED <<moduleVars, flagVars, source, described, doneFlag, sent,
                   streamer, encoded>>

\* get_nals, in a loop until there are some.
Fetch ==
    /\ source = "waiting" /\ ~quit /\ sourceNals = <<>> /\ encoded # <<>>
    /\ sourceNals' = encoded /\ encoded' = <<>>
    /\ UNCHANGED <<moduleVars, flagVars, source, described, doneFlag, sent, streamer>>

\* deliverFrame: the sink may find the description in the nal, and asks again.
DeliverFrame ==
    /\ source = "waiting" /\ ~quit /\ sourceNals # <<>>
    /\ sent' = Head(sourceNals) /\ sourceNals' = Tail(sourceNals)
    /\ source' = "asked"
    /\ described' \in {described, TRUE}
    /\ UNCHANGED <<moduleVars, flagVars, doneFlag, streamer, encoded>>

\* Nothing is delivered, and so nobody will ask again.
GiveUp ==
    /\ source = "waiting" /\ quit
    /\ source' = "given up"
    /\ UNCHANGED <<moduleVars, flagVars, sourceNals, described, doneFlag, sent,
                   streamer, encoded>>

-----------------------------------------------------------------------------

StreamInit ==
    /\ at = "idle" /\ session = FALSE
    /\ killswitch = FALSE /\ quit = FALSE
    /\ url = "" /\ urlValue = "<inactive>"
    /\ streamer = "none" /\ source = "none" /\ sourceNals = <<>>
    /\ encoded = <<>> /\ described = FALSE /\ doneFlag = FALSE
    /\ frames = 0 /\ sent = 0

StreamerStep ==
    \/ Turn \/ Ask \/ CheckForLine \/ Idle
    \/ Fetch \/ DeliverFrame \/ GiveUp

StreamNext ==
    \/ ExecuteBegin \/ AddFrame \/ StopSignal \/ StopEnd
    \/ StreamerStep \/ Connect \/ Disconnect

StreamSpec == StreamInit /\ [][StreamNext]_streamVars

\* The threads are scheduled; nobody has to connect or to call.
StreamFairSpec ==
    /\ StreamSpec
    /\ WF_streamVars(AddFrame) /\ WF_streamVars(StopEnd)
    /\ WF_streamVars(StreamerStep)

-----------------------------------------------------------------------------
(* Properties *)

\* Nals do not pile up while no one is watching: the queue of the encoder never
\* holds more than the limit and the nals of one frame (stream.cc:94-99).
QueueIsBounded == Len(encoded) <= MaxKept + MaxNals

\* Whatever was discarded, and however sources come and go, nals are sent in
\* the order of their frames, none of an earlier frame after one of a later
\* (h264_encoder.cc:112-124, h264_byte_source.cc:64-86).
SentInOrder == [][sent' >= sent]_streamVars

\* Between two calls the parameter "url" is the address of the stream while
\* there is one and "<inactive>" otherwise, although its predicate refuses
\* whatever is not in the member already (stream.cc:40-45, 89, 124-125).
UrlTells ==
    at = "idle" => urlValue = IF session THEN "rtsp" ELSE "<inactive>"

\* The first client waits for a description that does not come any more.
Stuck == streamer \in InnerLoop /\ source = "given up" /\ ~described

\* stop returns, also when the streamer waits for frames that nobody encodes
\* any more; but not when the first client is being connected.
StopEnds == at = "stop" ~> at = "idle" \/ Stuck

\* The comment in stream.hh says of killswitch_ that it is to "signal live555
\* to stop the event loop": the streamer ends and stop returns.
KillswitchStops == at = "stop" ~> at = "idle"
=============================================================================
