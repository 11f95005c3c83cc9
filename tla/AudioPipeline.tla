--------------------------- MODULE AudioPipeline ----------------------------
(***************************************************************************)
(* The host's audio thread and the times of what it mixes (MainAudioLoop,  *)
(* QueryNewAudio and QueryAudioBuffers in OBSCapture.cpp, and AudioSource).*)
(* Every source keeps a queue of segments of STEP milliseconds with their  *)
(* timestamps.  The desktop's audio is the clock of the stream: for each   *)
(* packet it delivers the thread plans a time to mix (bufferedAudioTimes), *)
(* and when the desktop has enough buffered, it mixes what the sources     *)
(* have for the earliest of them.  The other source is the plugin's: its   *)
(* segments bear the time that was planned last (OBSGetAudioTime).         *)
(*                                                                         *)
(* A segment is its timestamp.  The raw microphone, whose segments the     *)
(* plugin discards, and other auxiliary sources are left out, and so is    *)
(* the mixing of the samples itself.                                       *)
(***************************************************************************)
EXTENDS Integers, SequencesExt

CONSTANTS
  STEP,    \* a segment's length: 10 ms
  SLACK,   \* a segment this far ahead of its time is mixed: 11 ms
  JUMP,    \* jumpRange of a new source: 70 ms
  BUFFER,  \* bufferingTime: 60 to 20000 ms
  Stamps,  \* bound: the timestamps the desktop device gives, far from zero
  MaxTime, \* bound: times planned
  MaxVoice \* bound: voice segments queued

ASSUME PipelineAssumption ==
  /\ {STEP, SLACK, JUMP, BUFFER, MaxTime, MaxVoice} \subseteq Nat
  /\ STEP > 0 /\ SLACK >= STEP /\ JUMP >= STEP /\ BUFFER > 0
  /\ Stamps \subseteq Nat /\ \A t \in Stamps : t > JUMP + STEP * MaxVoice

VARIABLES
  desktop,     \* desktopAudio->audioSegments
  desktopUsed, \* desktopAudio->lastUsedTimestamp
  desktopSent, \* desktopAudio->lastSentTimestamp
  voice,       \* the voice source's audioSegments
  voiceUsed,   \* its lastUsedTimestamp
  voiceJump,   \* its jumpRange
  latest,      \* latestAudioTime
  times,       \* bufferedAudioTimes
  pc,          \* in QueryNewAudio's first loop, in its drain, or mixing
  encoded      \* history: the time encoded last, 0 before the first

desktopVars == <<desktop, desktopUsed, desktopSent>>
voiceVars   == <<voice, voiceUsed, voiceJump>>
timeVars    == <<latest, times>>
vars == <<desktopVars, voiceVars, timeVars, pc, encoded>>

Larger(a, b)  == IF a > b THEN a ELSE b
Smaller(a, b) == IF a < b THEN a ELSE b

\* GetBufferedTime.
BufferedTime(q) == IF q = <<>> THEN 0 ELSE Last(q) - Head(q)

Init ==
  /\ desktop = <<>> /\ desktopUsed = 0 /\ desktopSent = 0
  /\ voice = <<>> /\ voiceUsed = 0 /\ voiceJump = JUMP
  /\ latest = 0 /\ times = <<>>
  /\ pc = "query" /\ encoded = 0
-----------------------------------------------------------------------------
(***************************************************************************)
(* AudioSource.                                                            *)
(***************************************************************************)

\* QueryAudio2: "timestamp smoothing (keep audio within 70ms of target time)".
Smoothed(used, stamp, jump) ==
  LET next == IF used = 0 THEN stamp ELSE used + STEP
      dif  == IF stamp > next THEN stamp - next ELSE next - stamp
  IN  IF dif > jump THEN stamp ELSE next

\* Mutants of SortedTimes: without the underflow, and one that stops short of
\* the first segment.
SortedTimesSigned(q) ==
  LET time[n \in 1 .. Len(q)] ==
        IF n = Len(q) THEN q[n] ELSE Smaller(q[n], time[n + 1] - STEP)
  IN  [n \in 1 .. Len(q) |-> time[n]]
SortedTimesNotFirst(q) ==
  LET time[n \in 1 .. Len(q)] ==
        IF n \in {1, Len(q)} \/ time[n + 1] < STEP
        THEN q[n]
        ELSE Smaller(q[n], time[n + 1] - STEP)
  IN  [n \in 1 .. Len(q) |-> time[n]]

\* SortAudio, from the back: the last segment stays, and each one before it is
\* moved to where it ends when the next begins, if it is later than that.  A time
\* that underflows is a huge QWORD, which is not earlier than anything.
SortedTimes(q) ==
  LET time[n \in 1 .. Len(q)] ==
        IF n = Len(q) \/ time[n + 1] < STEP THEN q[n] ELSE Smaller(q[n], time[n + 1] - STEP)
  IN  [n \in 1 .. Len(q) |-> time[n]]

\* The furthest that SortAudio moves a segment; it widens jumpRange.
WidestMove(q) == Max({q[n] - SortedTimes(q)[n] : n \in 1 .. Len(q)})

SortAudio ==
  IF Len(voice) <= 1
  THEN UNCHANGED voiceVars
  ELSE /\ voice' = SortedTimes(voice)
       /\ voiceUsed' = Last(voice)
       /\ voiceJump' = Larger(voiceJump, WidestMove(voice))

\* Mutant: it may begin with the last one.
OvershotOnlyBack(used) == used < desktopSent

\* overshotAudio: the segment begins before the last one has ended.
Overshot(used) == used < desktopSent + STEP

\* QueryAudio2 of the desktop, which is given a packet with this timestamp.  A
\* segment that overshoots is dropped.
QueryDesktop(stamp) ==
  /\ desktopUsed' = Smoothed(desktopUsed, stamp, JUMP)
  /\ IF Overshot(desktopUsed')
     THEN UNCHANGED <<desktop, desktopSent>>
     ELSE /\ desktop' = Append(desktop, desktopUsed')
          /\ desktopSent' = desktopUsed'

\* QueryAudio2 of the voice source, which is asked for as much as it has
\* (bCanBurstHack): nothing is dropped.
QueryVoice(stamp) ==
  /\ Len(voice) < MaxVoice
  /\ voiceUsed' = Smoothed(voiceUsed, stamp, voiceJump)
  /\ voice' = Append(voice, voiceUsed')
  /\ UNCHANGED voiceJump

\* GetBuffer: the segments that are behind the target are deleted; the next one
\* is mixed if something was behind, or if it is near.
Behind(q, target) == SelectInSeq(q \o <<target>>, LAMBDA t : t >= target) - 1
AfterGetBuffer(q, target) ==
  LET left == SubSeq(q, Behind(q, target) + 1, Len(q))
  IN  IF left # <<>> /\ (left # q \/ Head(left) - target <= SLACK)
      THEN Tail(left)
      ELSE left
-----------------------------------------------------------------------------
(***************************************************************************)
(* OBS::QueryNewAudio and OBS::MainAudioLoop.                              *)
(***************************************************************************)

\* QueryAudioBuffers: the next time is planned, unless the desktop has not come
\* so far, and the other sources are asked for a segment.
NotYet == latest # 0 /\ desktop' # <<>> /\ latest + STEP > Last(desktop')

\* Mutant: the plan catches up with a desktop that has jumped.
NextTimeCatchesUp == IF desktop' # <<>> THEN Last(desktop') ELSE latest + STEP

NextTime ==
  IF latest # 0 THEN latest + STEP
  ELSE IF desktop' # <<>> THEN Head(desktop') ELSE 0

QueryAudioBuffers ==
  \/ NotYet /\ UNCHANGED <<voiceVars, timeVars>>
  \/ /\ ~NotYet
     /\ latest' = NextTime
     /\ times' = Append(times, latest')
     /\ QueryVoice(latest') \/ UNCHANGED voiceVars

TooSlow == 2 * BufferedTime(desktop) > 3 * BUFFER

\* The desktop is not even asked: too much is buffered.
SkipDesktop ==
  /\ pc = "query" /\ TooSlow
  /\ UNCHANGED desktopVars
  /\ QueryAudioBuffers
  /\ pc' = "mix"
  /\ UNCHANGED encoded

DesktopPacket ==
  /\ pc = "query" /\ ~TooSlow
  /\ latest < MaxTime
  /\ \E stamp \in Stamps : QueryDesktop(stamp)
  /\ QueryAudioBuffers
  /\ pc' = IF BufferedTime(desktop') >= BUFFER THEN "mix" ELSE "query"
  /\ UNCHANGED encoded

\* Mutant: only a new packet plans a time.
DesktopFilledUnplanned ==
  /\ pc = "query" /\ ~TooSlow /\ BufferedTime(desktop) >= BUFFER
  /\ pc' = "mix"
  /\ UNCHANGED <<desktopVars, voiceVars, timeVars, encoded>>

\* The desktop has nothing new, but enough.
DesktopFilled ==
  /\ pc = "query" /\ ~TooSlow /\ BufferedTime(desktop) >= BUFFER
  /\ UNCHANGED desktopVars
  /\ QueryAudioBuffers
  /\ pc' = "mix"
  /\ UNCHANGED encoded

\* It has nothing new and not enough: the voice is drained.
DesktopDry ==
  /\ pc = "query" /\ BufferedTime(desktop) < BUFFER
  /\ pc' = "drain"
  /\ UNCHANGED <<desktopVars, voiceVars, timeVars, encoded>>

\* The voice has one more segment; it is stamped with OBSGetAudioTime().
Drain ==
  /\ pc = "drain"
  /\ QueryVoice(latest)
  /\ UNCHANGED <<desktopVars, timeVars, pc, encoded>>

DrainEnds ==
  /\ pc = "drain"
  /\ SortAudio
  /\ pc' = "query"
  /\ UNCHANGED <<desktopVars, timeVars, encoded>>

\* What the sources have for the earliest time is mixed and encoded.
Mix ==
  /\ pc = "mix" /\ times # <<>>
  /\ encoded' = Head(times)
  /\ times' = Tail(times)
  /\ desktop' = AfterGetBuffer(desktop, encoded')
  /\ voice' = AfterGetBuffer(voice, encoded')
  /\ pc' = "query"
  /\ UNCHANGED <<desktopUsed, desktopSent, voiceUsed, voiceJump, latest>>

Next ==
  \/ SkipDesktop \/ DesktopPacket \/ DesktopFilled \/ DesktopDry
  \/ Drain \/ DrainEnds
  \/ Mix

Spec == Init /\ [][Next]_vars
-----------------------------------------------------------------------------
\* Every variable has its type; a time that is written is never an underflow,
\* so that SortAudio (AudioSource.cpp 214-249) moves no segment before zero; and
\* whenever QueryNewAudio says that a buffer is full there is a planned time for
\* MainAudioLoop to take, which takes bufferedAudioTimes[0] without a look at the
\* list (OBSCapture.cpp 1430), although a round may end without one being planned.
TypeOK ==
  /\ desktop \in Seq(Nat) /\ desktopUsed \in Nat /\ desktopSent \in Nat
  /\ voice \in Seq(Nat) /\ voiceUsed \in Nat /\ voiceJump \in Nat
  /\ latest \in Nat /\ times \in Seq(Nat)
  /\ pc \in {"query", "drain", "mix"} /\ encoded \in Nat
  /\ pc = "mix" => times # <<>>

\* The stream's audio has no gap and no overlap (OBSCapture.cpp 1256-1267, 1430):
\* the planned times follow each other and the time encoded last, up to the
\* latest, and the first of them is a time of the desktop's, not the zero that
\* latestAudioTime starts with ("will always return true", 1257). The plan never
\* runs ahead of the desktop's clock either: QueryAudioBuffers holds back only while
\* the desktop's queue has something in it (1259-1263), so mixing must never empty
\* that queue once a time has been planned.
TrackGapless ==
  /\ \A n \in 1 .. Len(times) : times[n] = latest - STEP * (Len(times) - n)
  /\ encoded # 0 => latest = encoded + STEP * Len(times)
  /\ \A n \in 1 .. Len(times) : times[n] > 0
  /\ latest # 0 => desktop # <<>> /\ latest <= Last(desktop)

\* No segment of the desktop is thrown away for being late: GetBuffer never finds
\* one behind its target (AudioSource.cpp 720-753), however the device's timestamps
\* jump.
DesktopNeverLate ==
  pc = "mix" /\ desktop # <<>> /\ times # <<>> => Head(desktop) >= Head(times)

\* A drain leaves the voice in order, each segment after the end of the one
\* before, whatever burst and whatever jumps of the stream's clock came before
\* (OBSCapture.cpp 1332-1343, SortAudio AudioSource.cpp 212-249).  Segments taken
\* before the desktop's first packet bear the time zero and are excepted.
DrainSorts == [][DrainEnds => \A n \in 1 .. Len(voice) - 1 :
                   voice'[n + 1] >= voice'[n] + STEP \/ voice'[n + 1] = 0]_vars
=============================================================================
