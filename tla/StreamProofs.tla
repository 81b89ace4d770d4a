----------------------------- MODULE StreamProofs -----------------------------
(***************************************************************************)
(* Safety of the stream module for any limit, number of nals and frames.   *)
(*                                                                         *)
(* The queue may hold more than the limit, but not when a frame is about   *)
(* to be added.  The parameter "url" follows the session in every state.   *)
(* What is sent stays in order because the nals that were sent, those of   *)
(* the source and those of the encoder follow each other: every way a nal  *)
(* is moved or dropped keeps that.                                         *)
(***************************************************************************)
EXTENDS Stream, TLAPS

TypeInv ==
    /\ at \in {"idle", "execute", "stop"}
    /\ session \in BOOLEAN
    /\ encoded \in Seq(Nat) /\ sourceNals \in Seq(Nat)
    /\ frames \in Nat /\ sent \in Nat

BoundInv ==
    /\ QueueIsBounded
    /\ at = "execute" => Len(encoded) <= MaxKept

UrlInv == urlValue = IF session THEN "rtsp" ELSE "<inactive>"

Ascending(s) == \A i, j \in 1..Len(s) : i <= j => s[i] <= s[j]

\* Nals of t come from no earlier frame than those of s.
Follows(s, t) == \A i \in 1..Len(s), j \in 1..Len(t) : s[i] <= t[j]

Between(low, s, high) == \A i \in 1..Len(s) : low <= s[i] /\ s[i] <= high

OrderInv ==
    /\ Ascending(encoded) /\ Ascending(sourceNals)
    /\ Follows(sourceNals, encoded)
    /\ Between(sent, sourceNals, frames) /\ Between(sent, encoded, frames)
    /\ sent <= frames

Inv == TypeInv /\ BoundInv /\ UrlInv /\ OrderInv

-----------------------------------------------------------------------------
(* Sequences of nals *)

LEMMA EmptySequence == <<>> \in Seq(Nat) /\ Len(<<>>) = 0
OBVIOUS

\* What add_frame appends: n nals of the frame k.
LEMMA Appended ==
    ASSUME NEW s \in Seq(Nat), NEW n \in Nat, NEW k \in Nat, NEW t,
           t = s \o [i \in 1..n |-> k]
    PROVE  /\ t \in Seq(Nat) /\ Len(t) = Len(s) + n
           /\ \A i \in 1..Len(t) : t[i] = IF i <= Len(s) THEN s[i] ELSE k
<1> DEFINE a == [i \in 1..n |-> k]
<1>1. a \in Seq(Nat) /\ Len(a) = n
    OBVIOUS
<1>2. \A i \in 1..n : a[i] = k
    OBVIOUS
<1>3. t = s \o a
    OBVIOUS
<1> HIDE DEF a
<1>4. QED
    BY <1>1, <1>2, <1>3

LEMMA TailOfNals ==
    ASSUME NEW s \in Seq(Nat), s # <<>>
    PROVE  /\ Head(s) \in Nat /\ Head(s) = s[1] /\ 1 \in 1..Len(s)
           /\ Tail(s) \in Seq(Nat) /\ Len(Tail(s)) = Len(s) - 1
           /\ \A i \in 1..Len(Tail(s)) : Tail(s)[i] = s[i + 1] /\ i + 1 \in 1..Len(s)
OBVIOUS

-----------------------------------------------------------------------------
(* Initial states and steps *)

LEMMA InitInv == StreamInit => Inv
<1> SUFFICES ASSUME StreamInit PROVE Inv
    OBVIOUS
<1>1. TypeInv
    BY EmptySequence DEF StreamInit, TypeInv
<1> /\ Len(encoded) = 0 /\ Len(sourceNals) = 0 /\ at = "idle"
    /\ frames = 0 /\ sent = 0
    BY EmptySequence DEF StreamInit
<1>2. BoundInv
    BY StreamAssumption DEF BoundInv, QueueIsBounded
<1>3. UrlInv
    BY DEF StreamInit, UrlInv
<1>4. OrderInv
    BY DEF OrderInv, Ascending, Follows, Between
<1>5. QED
    BY <1>1, <1>2, <1>3, <1>4 DEF Inv

\* Steps that neither move nals nor start or end a session.
Quiet ==
    UNCHANGED <<session, urlValue, encoded, sourceNals, frames, sent>>

LEMMA QuietStep ==
    ASSUME Inv, Quiet, at' \in {"idle", "execute", "stop"},
           at' = "execute" => at = "execute"
    PROVE  Inv' /\ sent' >= sent
<1>1. TypeInv'
    BY DEF Inv, Quiet, TypeInv
<1>2. UrlInv'
    BY DEF Inv, Quiet, UrlInv
<1>3. OrderInv'
    <2>1. Ascending(encoded)' /\ Ascending(sourceNals)'
        BY DEF Inv, Quiet, OrderInv, Ascending
    <2>2. Follows(sourceNals, encoded)'
        BY DEF Inv, Quiet, OrderInv, Follows
    <2>3. Between(sent, sourceNals, frames)' /\ Between(sent, encoded, frames)'
        BY DEF Inv, Quiet, OrderInv, Between
    <2>4. QED
        BY <2>1, <2>2, <2>3 DEF Inv, Quiet, OrderInv
<1>4. BoundInv'
    BY DEF Inv, Quiet, BoundInv, QueueIsBounded
<1>5. sent' >= sent
    BY DEF Inv, Quiet, TypeInv
<1>6. QED
    BY <1>1, <1>2, <1>3, <1>4, <1>5 DEF Inv

\* Every step keeps the invariant and the order of what is sent.
LEMMA InvStep ==
    ASSUME Inv, [StreamNext]_streamVars PROVE Inv' /\ sent' >= sent
<1> USE DEF Inv
<1>0. CASE UNCHANGED streamVars
    BY <1>0, QuietStep DEF streamVars, moduleVars, sourceVars, Quiet, TypeInv
<1>1. CASE ExecuteBegin
    <2>1. encoded' \in {encoded, <<>>} /\ Len(encoded') <= MaxKept
        BY <1>1, StreamAssumption, EmptySequence DEF ExecuteBegin, Kept, TypeInv
    <2>2. /\ at' = "execute" /\ session' = TRUE /\ frames' = frames /\ sent' = sent
          /\ sourceNals' \in {sourceNals, <<>>}
        BY <1>1 DEF ExecuteBegin, StartStreaming, TypeInv, sourceVars
    <2>3. urlValue' = "rtsp"
        BY <1>1 DEF ExecuteBegin, StartStreaming, SetUrl, UrlInv
    <2>4. TypeInv'
        BY <2>1, <2>2, EmptySequence DEF TypeInv
    <2>5. BoundInv'
        <3>1. Len(encoded') \in Nat
            BY <2>4 DEF TypeInv
        <3>2. QED
            BY <2>1, <3>1, StreamAssumption DEF BoundInv, QueueIsBounded
    <2>6. OrderInv'
        BY <2>1, <2>2, EmptySequence DEF OrderInv, Ascending, Follows, Between, TypeInv
    <2>7. QED
        BY <2>2, <2>3, <2>4, <2>5, <2>6 DEF UrlInv, TypeInv
<1>2. CASE AddFrame
    <2>1. PICK n \in 0..MaxNals : encoded' = encoded \o [i \in 1..n |-> frames + 1]
        BY <1>2 DEF AddFrame
    <2>2. /\ frames' = frames + 1 /\ at' = "idle"
          /\ UNCHANGED <<session, urlValue, sourceNals, sent>>
        BY <1>2 DEF AddFrame, sourceVars
    <2>3. /\ encoded' \in Seq(Nat) /\ Len(encoded') = Len(encoded) + n
          /\ \A i \in 1..Len(encoded') :
                encoded'[i] = IF i <= Len(encoded) THEN encoded[i] ELSE frames + 1
        BY <2>1, StreamAssumption, Appended DEF TypeInv
    <2>4. TypeInv'
        BY <2>2, <2>3 DEF TypeInv
    <2>5. BoundInv'
        <3>1. Len(encoded) <= MaxKept /\ Len(encoded) \in Nat
            BY <1>2 DEF AddFrame, BoundInv, TypeInv
        <3>2. QED
            BY <2>2, <2>3, <3>1, StreamAssumption DEF BoundInv, QueueIsBounded
    <2>6. OrderInv'
        <3>1. \A i \in 1..Len(encoded) : encoded[i] \in Nat /\ encoded[i] <= frames
            BY DEF OrderInv, Between, TypeInv
        <3>2. \A i \in 1..Len(sourceNals) : sourceNals[i] \in Nat /\ sourceNals[i] <= frames
            BY DEF OrderInv, Between, TypeInv
        <3>3. Ascending(encoded)'
            <4>1. SUFFICES ASSUME NEW i \in 1..Len(encoded'), NEW j \in 1..Len(encoded'), i <= j
                           PROVE  encoded'[i] <= encoded'[j]
                BY DEF Ascending
            <4>2. CASE j <= Len(encoded)
                <5>1. i \in 1..Len(encoded) /\ j \in 1..Len(encoded)
                    BY <4>1, <4>2, <2>3 DEF TypeInv
                <5>2. encoded[i] <= encoded[j]
                    BY <4>1, <5>1 DEF OrderInv, Ascending
                <5>3. QED
                    BY <2>3, <4>2, <5>1, <5>2
            <4>3. CASE ~(j <= Len(encoded))
                <5>1. encoded'[j] = frames + 1
                    BY <2>3, <4>3
                <5>2. CASE i <= Len(encoded)
                    <6>1. i \in 1..Len(encoded)
                        BY <5>2, <2>3 DEF TypeInv
                    <6>2. encoded'[i] = encoded[i]
                        BY <2>3, <5>2
                    <6>3. encoded[i] \in Nat /\ encoded[i] <= frames /\ frames \in Nat
                        BY <3>1, <6>1 DEF TypeInv
                    <6>4. QED
                        BY <5>1, <6>2, <6>3
                <5>3. CASE ~(i <= Len(encoded))
                    BY <2>3, <5>1, <5>3 DEF TypeInv
                <5>4. QED
                    BY <5>2, <5>3
            <4>4. QED
                BY <4>2, <4>3
        <3>4. Ascending(sourceNals)'
            BY <2>2 DEF Ascending, OrderInv
        <3>5. Follows(sourceNals, encoded)'
            <4>1. SUFFICES ASSUME NEW i \in 1..Len(sourceNals), NEW j \in 1..Len(encoded')
                           PROVE  sourceNals[i] <= encoded'[j]
                BY <2>2 DEF Follows
            <4>2. CASE j <= Len(encoded)
                <5>1. j \in 1..Len(encoded)
                    BY <4>2, <2>3 DEF TypeInv
                <5>2. sourceNals[i] <= encoded[j]
                    BY <5>1 DEF OrderInv, Follows
                <5>3. QED
                    BY <2>3, <4>2, <5>2
            <4>3. CASE ~(j <= Len(encoded))
                BY <2>3, <3>2, <4>3 DEF TypeInv
            <4>4. QED
                BY <4>2, <4>3
        <3>6. Between(sent, sourceNals, frames)'
            BY <2>2, <3>2 DEF Between, OrderInv, TypeInv
        <3>7. Between(sent, encoded, frames)'
            <4>1. SUFFICES ASSUME NEW i \in 1..Len(encoded')
                           PROVE  sent <= encoded'[i] /\ encoded'[i] <= frames + 1
                BY <2>2 DEF Between
            <4>2. CASE i <= Len(encoded)
                <5>1. i \in 1..Len(encoded)
                    BY <4>2, <2>3 DEF TypeInv
                <5>2. sent <= encoded[i] /\ encoded[i] <= frames /\ encoded[i] \in Nat
                    BY <5>1, <3>1 DEF OrderInv, Between
                <5>3. QED
                    BY <2>3, <4>2, <5>2 DEF TypeInv
            <4>3. CASE ~(i <= Len(encoded))
                BY <2>3, <4>3 DEF TypeInv, OrderInv
            <4>4. QED
                BY <4>2, <4>3
        <3>8. (sent <= frames)'
            BY <2>2 DEF OrderInv, TypeInv
        <3>9. QED
            BY <3>3, <3>4, <3>5, <3>6, <3>7, <3>8 DEF OrderInv
    <2>7. QED
        BY <2>2, <2>4, <2>5, <2>6 DEF UrlInv, TypeInv
<1>3. CASE StopSignal
    BY <1>3, QuietStep DEF StopSignal, sourceVars, Quiet
<1>4. CASE StopEnd
    <2>1. /\ session' = FALSE /\ at' = "idle" /\ sourceNals' = <<>>
          /\ UNCHANGED <<encoded, frames, sent>>
        BY <1>4 DEF StopEnd
    <2>2. urlValue' = "<inactive>"
        BY <1>4 DEF StopEnd, Deactivated, SetUrl
    <2>3. TypeInv'
        BY <2>1, EmptySequence DEF TypeInv
    <2>4. BoundInv'
        BY <2>1 DEF BoundInv, QueueIsBounded
    <2>5. OrderInv'
        BY <2>1, EmptySequence DEF OrderInv, Ascending, Follows, Between, TypeInv
    <2>6. QED
        BY <2>1, <2>2, <2>3, <2>4, <2>5 DEF UrlInv, TypeInv
<1>5. CASE StreamerStep \/ Connect \/ Disconnect
    <2>1. at' = at /\ session' = session /\ urlValue' = urlValue /\ frames' = frames
        BY <1>5 DEF StreamerStep, Connect, Disconnect, Turn, Ask, CheckForLine,
            Idle, Fetch, DeliverFrame, GiveUp, moduleVars
    <2>2. CASE UNCHANGED <<encoded, sourceNals, sent>>
        BY <2>1, <2>2, QuietStep DEF Quiet, TypeInv
    <2>3. CASE sourceNals' = <<>> /\ UNCHANGED <<encoded, sent>>
        <3>1. TypeInv' /\ BoundInv' /\ UrlInv'
            BY <2>1, <2>3, EmptySequence DEF TypeInv, BoundInv, QueueIsBounded, UrlInv
        <3>2. OrderInv'
            BY <2>1, <2>3, EmptySequence DEF OrderInv, Ascending, Follows, Between, TypeInv
        <3>3. QED
            BY <2>3, <3>1, <3>2 DEF TypeInv
    <2>4. CASE Fetch
        <3>1. sourceNals' = encoded /\ encoded' = <<>> /\ sent' = sent
            BY <2>4 DEF Fetch
        <3>2. TypeInv' /\ UrlInv'
            BY <2>1, <3>1, EmptySequence DEF TypeInv, UrlInv
        <3>3. BoundInv'
            BY <3>1, EmptySequence, StreamAssumption DEF BoundInv, QueueIsBounded
        <3>4. OrderInv'
            BY <2>1, <3>1, EmptySequence DEF OrderInv, Ascending, Follows, Between, TypeInv
        <3>5. QED
            BY <3>1, <3>2, <3>3, <3>4 DEF TypeInv
    <2>5. CASE DeliverFrame
        <3>1. /\ sourceNals # <<>> /\ encoded' = encoded
              /\ sent' = Head(sourceNals) /\ sourceNals' = Tail(sourceNals)
            BY <2>5 DEF DeliverFrame
        <3>2. /\ sent' \in Nat /\ sent' = sourceNals[1] /\ 1 \in 1..Len(sourceNals)
              /\ sourceNals' \in Seq(Nat) /\ Len(sourceNals') = Len(sourceNals) - 1
              /\ \A i \in 1..Len(sourceNals') :
                    sourceNals'[i] = sourceNals[i + 1] /\ i + 1 \in 1..Len(sourceNals)
            BY <3>1, TailOfNals DEF TypeInv
        <3>3. TypeInv' /\ BoundInv' /\ UrlInv'
            BY <2>1, <3>1, <3>2 DEF TypeInv, BoundInv, QueueIsBounded, UrlInv
        <3>4. sent' >= sent /\ sent' <= frames
            BY <3>2 DEF OrderInv, Between, TypeInv
        <3>5. Ascending(encoded)' /\ Ascending(sourceNals)'
            <4>1. ASSUME NEW i \in 1..Len(sourceNals'), NEW j \in 1..Len(sourceNals'), i <= j
                  PROVE  sourceNals'[i] <= sourceNals'[j]
                <5>1. i + 1 <= j + 1
                    BY <4>1, <3>2
                <5>2. sourceNals[i + 1] <= sourceNals[j + 1]
                    BY <3>2, <5>1 DEF OrderInv, Ascending
                <5>3. QED
                    BY <3>2, <5>2
            <4>2. Ascending(sourceNals')
                BY <4>1 DEF Ascending
            <4>3. Ascending(encoded')
                BY <3>1 DEF OrderInv
            <4>4. QED
                BY <4>2, <4>3 DEF Ascending
        <3>6. Follows(sourceNals, encoded)'
            BY <3>1, <3>2 DEF Follows, OrderInv, TypeInv
        <3>7. Between(sent, sourceNals, frames)'
            <4>1. SUFFICES ASSUME NEW i \in 1..Len(sourceNals')
                           PROVE  sourceNals[1] <= sourceNals[i + 1]
                                  /\ sourceNals[i + 1] <= frames
                BY <2>1, <3>2 DEF Between
            <4>2. i + 1 \in 1..Len(sourceNals) /\ 1 <= i + 1
                BY <3>2
            <4>3. QED
                BY <3>2, <4>2 DEF Ascending, OrderInv, Between
        <3>8. Between(sent, encoded, frames)'
            <4>1. SUFFICES ASSUME NEW i \in 1..Len(encoded)
                           PROVE  sourceNals[1] <= encoded[i] /\ encoded[i] <= frames
                BY <2>1, <3>1, <3>2 DEF Between
            <4>2. QED
                BY <3>2 DEF OrderInv, Follows, Between
        <3>9. QED
            BY <2>1, <3>3, <3>4, <3>5, <3>6, <3>7, <3>8 DEF OrderInv
    <2>6. QED
        BY <1>5, <2>2, <2>3, <2>4, <2>5 DEF StreamerStep, Connect, Disconnect, Turn,
            Ask, CheckForLine, Idle, GiveUp, sourceVars
<1>6. QED
    BY <1>0, <1>1, <1>2, <1>3, <1>4, <1>5 DEF StreamNext

-----------------------------------------------------------------------------

\* The invariant holds in every behaviour.
THEOREM Invariance == StreamSpec => []Inv
<1>1. Inv /\ [StreamNext]_streamVars => Inv'
    BY InvStep
<1>2. QED
    BY InitInv, <1>1, PTL DEF StreamSpec

\* The queue of the encoder is bounded by the limit and the nals of one frame
\* (stream.cc:94-99).
THEOREM NalsDoNotPileUp == StreamSpec => []QueueIsBounded
<1>1. Inv => QueueIsBounded
    BY DEF Inv, BoundInv
<1>2. QED
    BY Invariance, <1>1, PTL

\* The parameter "url" tells whether there is a stream (stream.cc:124-125).
THEOREM UrlIsTold == StreamSpec => []UrlTells
<1>1. Inv => UrlTells
    BY DEF Inv, UrlInv, UrlTells
<1>2. QED
    BY Invariance, <1>1, PTL

\* No nal is sent after one of a later frame (h264_encoder.cc:112-124).
THEOREM NalsAreInOrder == StreamSpec => SentInOrder
<1>1. Inv /\ [StreamNext]_streamVars => [sent' >= sent]_streamVars
    BY InvStep
<1>2. QED
    BY Invariance, <1>1, PTL DEF StreamSpec, SentInOrder
=============================================================================
