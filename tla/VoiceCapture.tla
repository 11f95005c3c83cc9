---------------------------- MODULE VoiceCapture ----------------------------
(***************************************************************************)
(* VoiceCaptureDMOSource (OBS_mic_dsp/src/win_voicecapturedmo.cpp): the    *)
(* auxiliary audio source that feeds the host with the microphone samples  *)
(* that the Windows voice-capture DMO has cleaned.  Three threads meet in  *)
(* one object, with no lock between them:                                  *)
(*                                                                         *)
(*  - the host's audio thread calls GetNextBuffer and ReleaseBuffer, either*)
(*    once or, to drain the source, until GetNextBuffer returns false;     *)
(*  - the main thread runs PushToTalkHotkeyCB and SetMicVolume;            *)
(*  - the video thread advances the stream time that both of them read.    *)
(*                                                                         *)
(* The state starts where a successful Initialize leaves it.  A sample is  *)
(* its number in the order of capture, whether it was let through (live)   *)
(* or zeroed, and how many times the Speex preprocessor has run over it.   *)
(***************************************************************************)
EXTENDS Integers, Sequences, FiniteSets

CONSTANTS
  SEG,          \* k_SegmentSize: samples in a segment
  PttHotkeys,   \* the push-to-talk hotkeys Initialize created (none, one or two)
  PttDelay,     \* _pttDelay, in ticks of the stream time
  UsePtt,       \* _usePushToTalk
  HasSpeex,     \* _speexState # nullptr: the preprocessor could be created
  MaxCaptured,  \* bound: samples the device captures in a behaviour
  MaxTime       \* bound: ticks of the stream time

ASSUME ConstantsAssumption ==
  /\ SEG \in Nat \ {0}
  /\ IsFiniteSet(PttHotkeys)
  /\ PttDelay \in Nat
  /\ UsePtt \in BOOLEAN
  /\ HasSpeex \in BOOLEAN
  /\ MaxCaptured \in Nat
  /\ MaxTime \in Nat

VARIABLES
  captured,     \* device: samples captured so far
  read,         \* device: samples taken out of it through ProcessOutput
  audioBuf,     \* _audioBuf[0 .. _numSamples-1]
  skipNextRead, \* _skipNextRead
  micVolume,    \* _micVolume * _micBoost, as far as it matters: zero or not
  pttKeysDown,  \* _pttKeysDown
  pttDelayExpires, \* _pttDelayExpires
  now,          \* OBSGetTotalStreamTime()
  pc,           \* where the audio thread is
  draining,     \* audio thread: called until it returns false, or just once
  fresh,        \* audio thread: newSamples, read and not yet appended
  incomplete,   \* audio thread: dodb.dwStatus of the last ProcessOutput
  pttMute,      \* audio thread: pttMute
  cb,           \* main thread: inside PushToTalkHotkeyCB or not
  delivered,    \* samples handed to the host and released
  out,          \* the last segment handed to the host
  held,         \* history: hotkeys whose last event was "down"
  pressed,      \* history: a key went down after the count was read, in the read under way
  openUntil,    \* history: PttDelay after the last key went up
  dry           \* history: the device said it is empty and the host does not know yet

audioVars == <<audioBuf, skipNextRead, pc, draining, fresh, incomplete, pttMute,
               delivered, out, dry>>
pttVars   == <<pttKeysDown, pttDelayExpires, cb, held, pressed, openUntil>>
vars == <<captured, read, micVolume, now, audioVars, pttVars>>

Sample == [id : Nat, live : BOOLEAN, runs : Nat]

\* The steps of GetNextBuffer between which another thread may run, and
\* "host", where the host uses the segment before it calls ReleaseBuffer.
AudioPC == {"idle", "test", "count", "expiry", "append", "host"}

Smaller(a, b) == IF a < b THEN a ELSE b

Init ==
  /\ captured = 0 /\ read = 0
  /\ audioBuf = <<>> /\ skipNextRead = FALSE
  /\ micVolume \in {0, 1}
  /\ pttKeysDown = 0 /\ pttDelayExpires = 0
  /\ now = 0
  /\ pc = "idle" /\ draining = FALSE
  /\ fresh = 0 /\ incomplete = FALSE /\ pttMute = FALSE
  /\ cb = "idle"
  /\ delivered = 0 /\ out = <<>>
  /\ held = {} /\ pressed = FALSE /\ openUntil = 0 /\ dry = FALSE
-----------------------------------------------------------------------------
(***************************************************************************)
(* The device and the clock.                                               *)
(***************************************************************************)

\* The DMO's own thread captures up to a segment at a time.
Capture ==
  /\ \E n \in 1 .. SEG :
       /\ captured + n <= MaxCaptured
       /\ captured' = captured + n
  /\ UNCHANGED <<read, micVolume, now, audioVars, pttVars>>

\* MainCaptureLoop sets totalStreamTime once per frame.
Tick ==
  /\ now < MaxTime
  /\ now' = now + 1
  /\ UNCHANGED <<captured, read, micVolume, audioVars, pttVars>>
-----------------------------------------------------------------------------
(***************************************************************************)
(* The main thread.                                                        *)
(***************************************************************************)

PttKeyDown(h) ==
  /\ cb = "idle"
  /\ h \notin held
  /\ pttKeysDown' = pttKeysDown + 1
  /\ held' = held \cup {h}
  /\ pressed' = (pc = "expiry")
  /\ UNCHANGED <<pttDelayExpires, cb, openUntil, captured, read, micVolume, now,
                 audioVars>>

\* Mutant: the callback remembers only that a key went up, not how many are down.
PttKeyUpForgets(h) ==
  /\ cb = "idle"
  /\ h \in held
  /\ pttKeysDown' = 0
  /\ held' = held \ {h}
  /\ cb' = "stamp"
  /\ openUntil' = IF held' = {} THEN now + PttDelay ELSE openUntil
  /\ UNCHANGED <<pttDelayExpires, pressed, captured, read, micVolume, now, audioVars>>

\* The decrement; when the count reaches zero the deadline is still the old
\* one until PttStamp has run.
PttKeyUp(h) ==
  /\ cb = "idle"
  /\ h \in held
  /\ pttKeysDown' = pttKeysDown - 1
  /\ held' = held \ {h}
  /\ cb' = IF pttKeysDown' = 0 THEN "stamp" ELSE "idle"
  /\ openUntil' = IF held' = {} THEN now + PttDelay ELSE openUntil
  /\ UNCHANGED <<pttDelayExpires, pressed, captured, read, micVolume, now, audioVars>>

Deadline == now + PttDelay

\* The delay counts from where the callback looks at the clock, which may be
\* later than the key.
PttStamp ==
  /\ cb = "stamp"
  /\ pttDelayExpires' = Deadline
  /\ openUntil' = now + PttDelay
  /\ cb' = "idle"
  /\ UNCHANGED <<pttKeysDown, held, pressed, captured, read, micVolume, now, audioVars>>

SetMicVolume ==
  /\ cb = "idle"
  /\ micVolume' \in {0, 1} \ {micVolume}
  /\ UNCHANGED <<captured, read, now, audioVars, pttVars>>
-----------------------------------------------------------------------------
(***************************************************************************)
(* The audio thread: GetNextBuffer and ReleaseBuffer, as the host calls    *)
(* them (through QueryAudio2).                                             *)
(***************************************************************************)

\* Mutant: while(_numSamples <= k_SegmentSize).
ReadNeededOneMore == Len(audioBuf) <= SEG

\* while(_numSamples < k_SegmentSize)
ReadNeeded == Len(audioBuf) < SEG

\* Mutant: room for two segments.
BufferRoomTwo == 2 * SEG

\* CMediaBuffer::Create(k_SegmentSize * 2), in samples of two bytes
BufferRoom == SEG

\* Mutant: Speex is run over everything that is buffered.
FilteredAll(buf) ==
  [i \in 1 .. Len(buf) |-> [buf[i] EXCEPT !.runs = @ + (IF HasSpeex THEN 1 ELSE 0)]]

\* speex_preprocess_run works in place, on the first segment of the buffer.
Filtered(buf) ==
  [i \in 1 .. Len(buf) |->
     IF HasSpeex /\ i <= SEG THEN [buf[i] EXCEPT !.runs = @ + 1] ELSE buf[i]]

\* Mutant: the host is never told that the device is empty.
SkipAfterReadNever == skipNextRead

SkipAfterRead == skipNextRead \/ ~incomplete

\* What was read last, muted or not.
NewSamples ==
  [i \in 1 .. fresh |-> [id   |-> read - fresh + i,
                         live |-> ~pttMute /\ micVolume # 0,
                         runs |-> 0]]

\* Mutant: OBSGetTotalStreamTime() > _pttDelayExpires.
DelayOverLater == now > pttDelayExpires

DelayOver == now >= pttDelayExpires

\* Mutant: the segment is taken from the end.
RemainderEnd(buf) == SubSeq(buf, 1, Len(buf) - SEG)

\* mcpy moves what follows the first segment to the front.
Remainder(buf) == SubSeq(buf, SEG + 1, Len(buf))

\* GetNextBuffer returns false: the host takes it for "no more data", and a
\* drain is over.
ReturnFalse ==
  /\ pc' = "idle"
  /\ dry' = FALSE

Query ==
  /\ pc = "idle"
  /\ pc' = "test"
  /\ draining' \in BOOLEAN
  /\ UNCHANGED <<audioBuf, skipNextRead, fresh, incomplete, pttMute, delivered, out, dry,
                 captured, read, micVolume, now, pttVars>>

\* The loop's condition is false: Speex runs over the first segment of the
\* buffer in place, and the host gets a pointer to it.
SegmentReady ==
  /\ pc = "test"
  /\ ~ReadNeeded
  /\ audioBuf' = Filtered(audioBuf)
  /\ out' = SubSeq(audioBuf', 1, SEG)
  /\ pc' = "host"
  /\ UNCHANGED <<skipNextRead, draining, fresh, incomplete, pttMute, delivered, dry,
                 captured, read, micVolume, now, pttVars>>

\* Mutant: the flag stays set, every later read is skipped too.
SkipReadForever ==
  /\ pc = "test"
  /\ ReadNeeded
  /\ skipNextRead
  /\ ReturnFalse
  /\ UNCHANGED <<audioBuf, skipNextRead, draining, fresh, incomplete, pttMute, delivered,
                 out, captured, read, micVolume, now, pttVars>>

SkipRead ==
  /\ pc = "test"
  /\ ReadNeeded
  /\ skipNextRead
  /\ skipNextRead' = FALSE
  /\ ReturnFalse
  /\ UNCHANGED <<audioBuf, draining, fresh, incomplete, pttMute, delivered, out,
                 captured, read, micVolume, now, pttVars>>

\* CMediaBuffer::Create or ProcessOutput fails; the device keeps its data.
ReadFails ==
  /\ pc = "test"
  /\ ReadNeeded
  /\ ~skipNextRead
  /\ ReturnFalse
  /\ UNCHANGED <<audioBuf, skipNextRead, draining, fresh, incomplete, pttMute, delivered,
                 out, captured, read, micVolume, now, pttVars>>

\* ProcessOutput fills a media buffer of one segment as far as it can and
\* says INCOMPLETE if it holds more.
ReadSamples ==
  /\ pc = "test"
  /\ ReadNeeded
  /\ ~skipNextRead
  /\ fresh' = Smaller(captured - read, BufferRoom)
  /\ read' = read + fresh'
  /\ incomplete' = (read' < captured)
  /\ dry' = ~incomplete'
  /\ pc' = "count"
  /\ UNCHANGED <<audioBuf, skipNextRead, draining, pttMute, delivered, out,
                 captured, micVolume, now, pttVars>>

\* _usePushToTalk && _pttKeysDown == 0 ...
TestKeysDown ==
  /\ pc = "count"
  /\ \/ /\ UsePtt /\ pttKeysDown = 0
        /\ pc' = "expiry"
        /\ UNCHANGED pttMute
     \/ /\ ~(UsePtt /\ pttKeysDown = 0)
        /\ pc' = "append"
        /\ pttMute' = FALSE
  /\ UNCHANGED <<audioBuf, skipNextRead, draining, fresh, incomplete, delivered, out, dry,
                 captured, read, micVolume, now, pttVars>>

\* ... && OBSGetTotalStreamTime() >= _pttDelayExpires
TestExpiry ==
  /\ pc = "expiry"
  /\ pttMute' = DelayOver
  /\ pressed' = FALSE
  /\ pc' = "append"
  /\ UNCHANGED <<audioBuf, skipNextRead, draining, fresh, incomplete, delivered, out, dry,
                 captured, read, micVolume, now,
                 pttKeysDown, pttDelayExpires, cb, held, openUntil>>

\* The new samples go behind the ones a previous call has left over.
AppendSamples ==
  /\ pc = "append"
  /\ audioBuf' = audioBuf \o NewSamples
  /\ skipNextRead' = SkipAfterRead
  /\ fresh' = 0
  /\ pc' = "test"
  /\ UNCHANGED <<draining, incomplete, pttMute, delivered, out, dry,
                 captured, read, micVolume, now, pttVars>>

\* The host has converted the segment.
ReleaseBuffer ==
  /\ pc = "host"
  /\ IF Len(audioBuf) >= SEG
     THEN /\ audioBuf' = Remainder(audioBuf)
          /\ delivered' = delivered + SEG
     ELSE UNCHANGED <<audioBuf, delivered>>
  /\ pc' = IF draining THEN "test" ELSE "idle"
  /\ UNCHANGED <<skipNextRead, draining, fresh, incomplete, pttMute, out, dry,
                 captured, read, micVolume, now, pttVars>>

AudioStep ==
  \/ Query
  \/ SegmentReady
  \/ SkipRead
  \/ ReadFails
  \/ ReadSamples
  \/ TestKeysDown
  \/ TestExpiry
  \/ AppendSamples
  \/ ReleaseBuffer

MainStep ==
  \/ \E h \in PttHotkeys : PttKeyDown(h) \/ PttKeyUp(h)
  \/ PttStamp
  \/ SetMicVolume

Next == AudioStep \/ MainStep \/ Capture \/ Tick

Spec == Init /\ [][Next]_vars

(***************************************************************************)
(* MainAudioLoop never stops querying while the stream runs, and a device  *)
(* that keeps answering does not fail for ever.                            *)
(***************************************************************************)
Fairness == WF_vars(AudioStep) /\ SF_vars(ReadSamples)

FairSpec == Spec /\ Fairness
-----------------------------------------------------------------------------
(***************************************************************************)
(* Properties.                                                             *)
(***************************************************************************)

\* Every variable has its type; no more keys are down than there are hotkeys.
TypeOK ==
  /\ captured \in 0 .. MaxCaptured
  /\ read \in 0 .. MaxCaptured
  /\ audioBuf \in Seq(Sample)
  /\ skipNextRead \in BOOLEAN
  /\ micVolume \in {0, 1}
  /\ pttKeysDown \in 0 .. Cardinality(PttHotkeys)
  /\ pttDelayExpires \in Nat
  /\ now \in 0 .. MaxTime
  /\ pc \in AudioPC
  /\ draining \in BOOLEAN
  /\ fresh \in 0 .. SEG
  /\ incomplete \in BOOLEAN
  /\ pttMute \in BOOLEAN
  /\ cb \in {"idle", "stamp"}
  /\ delivered \in Nat
  /\ out \in Seq(Sample)
  /\ held \in SUBSET PttHotkeys
  /\ pressed \in BOOLEAN
  /\ openUntil \in Nat
  /\ dry \in BOOLEAN

\* GetNextBuffer assembles segments from reads of any length: what it has
\* buffered is exactly the samples between the last one delivered and the last
\* one read, in the order of capture, whatever mix of partial reads, failed
\* reads, skipped reads and released segments came before.
SamplesInOrder ==
  /\ \A i \in 1 .. Len(audioBuf) : audioBuf[i].id = delivered + i
  /\ read = delivered + Len(audioBuf) + fresh
  /\ read <= captured

\* A read is appended to a remainder shorter than a segment, so the buffer never
\* holds two whole segments, and between two calls it holds less than one.
BufferBound ==
  /\ Len(audioBuf) < 2 * SEG
  /\ pc = "idle" => Len(audioBuf) < SEG

\* Speex keeps its own history of the signal: it must see every sample once. No
\* sample still to be handed over has been through it, every sample the host
\* gets has (speex_preprocess_run works in place on the shared buffer, so a host
\* that did not call ReleaseBuffer would have it filter twice).
FilteredOnce ==
  \A i \in 1 .. Len(audioBuf) :
    audioBuf[i].runs = IF HasSpeex /\ pc = "host" /\ i <= SEG THEN 1 ELSE 0

\* "If the next call to ProcessOutput would block, force the next read to be
\* skipped and return false": once the device has said that it holds nothing
\* more, it is not read again before the host has been told that the source is
\* empty, even if segments are handed over in between.
NeverReadsDry == [][pc = "test" /\ pc' = "count" => ~dry]_vars

\* The microphone is open while a push-to-talk key is down, and until PttDelay
\* after the last one went up; without push-to-talk it always is.
MicOpen == ~UsePtt \/ held # {} \/ now < openUntil

\* The step in which the audio thread decides whether a read is muted.
Decides == pc \in {"count", "expiry"} /\ pc' = "append"

\* A closed microphone is not heard: the audio thread lets a read through only
\* if the microphone is open at that moment, although it looks at the count of
\* keys and at the deadline in two steps with the hotkey callback in between.
OnlyOpenMicIsHeard == [][Decides /\ ~pttMute' => MicOpen]_vars

\* An open microphone is heard: a read is muted only if the microphone is closed,
\* or a key went down between the two tests of this very read, or the callback
\* has counted the last key up and not yet written the deadline.  In the last two
\* cases the read of an open microphone is muted; a key that was down before the
\* read, or the delay of one that went up, excuses nothing.
OnlyClosedMicIsMuted ==
  [][Decides /\ pttMute' => ~MicOpen \/ pressed \/ cb = "stamp"]_vars

\* "you cannot always return true from this function or you will get OBS stuck in
\* an infinite loop": every call of the host, a drain too, comes to its end.
DrainEnds == pc # "idle" ~> pc = "idle"

\* The source implements the stream it promises (a segment counts as delivered
\* when GetNextBuffer returns it), and every full segment is delivered at last:
\* a read that was skipped or failed is made up for.
Stream == INSTANCE SegmentStream WITH
  delivered <- IF pc = "host" THEN delivered + SEG ELSE delivered,
  out <- [i \in 1 .. Len(out) |-> out[i].id]

StreamSafe == Stream!SafeSpec
StreamSpec == Stream!Spec
=============================================================================
