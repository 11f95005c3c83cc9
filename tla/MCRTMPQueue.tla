---------------------------- MODULE MCRTMPQueue -----------------------------
EXTENDS RTMPQueue

\* Streams with and without the fast initial keyframe.
MCFast == BOOLEAN

\* The times are uneven, so that audio which is moved to where it belongs passes
\* video, and so that both thresholds are reached with a few packets.
Timed(types) == [n \in 1 .. Len(types) |->
                   [type |-> types[n], time |-> 5 + n + n \div 3]]

AnyType == VideoDisposable .. Audio

\* Groups of pictures with B frames, some that others refer to, audio late or
\* early, and keyframes far apart or one after the other; any two types in the
\* middle of the stream.
MCStreams ==
  {Timed(<<VideoHighest, VideoHigh, Audio>> \o <<x, y>> \o <<VideoHigh, VideoLow, VideoDisposable>>) :
     x \in AnyType, y \in AnyType}
  \cup
  {Timed(<<Audio, VideoHighest, VideoDisposable, VideoHigh>> \o <<x, y>>
          \o <<VideoHigh, VideoHighest, VideoHigh>>) :
     x \in AnyType, y \in AnyType}

\* What TypeCorrect assumes of the streams is so of these.
ASSUME MCAudioInOrder == AudioInOrder
=============================================================================
