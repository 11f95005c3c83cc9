# A verification project for OBS_mic_dsp

`OBS_mic_dsp` is a plugin for the (classic) OBS streaming program. It replaces
the microphone of a stream: a filter that discards everything goes on the
host's own microphone source, and an additional audio source delivers what the
Windows voice-capture DMO makes of the same microphone, run through the Speex
noise suppressor and muted by push-to-talk. The plugin has about 900 lines;
what makes it hard is that the host calls it from several threads, in an order
that only the host's source tells. The host is in the repository (`src/OBS`),
so the models take both sides from code.

This directory holds TLA+ modules for the plugin and for the part of the host
it depends on, the TLC configurations that check them, and TLAPS proofs of what
matters most about them. `PROJECT.json` maps every definition to the lines it translates.

## Inventory

| component | state it keeps | operations | who calls it |
|---|---|---|---|
| `VoiceCaptureDMOSource` (win_voicecapturedmo.cpp 26-519) | sample buffer, `_skipNextRead`, volume, count of push-to-talk keys, deadline, Speex state | Initialize, GetNextBuffer, ReleaseBuffer, PushToTalkHotkeyCB, SetMicVolume | audio thread (buffers), main thread (the rest) |
| `WinVoiceCaptureDMOMethod` and the entry points (win_voicecapturedmo.cpp 523-589, main.cpp) | `_micFilter`, `_auxSource`, `g_instance` | OnStartStream, OnStopStream, OnMicVolumeChanged, Load/UnloadPlugin | main thread |
| host: streams (OBSCapture.cpp 53-138, 262-1130, 1589, OBSEvents.cpp, OBS.cpp 819, WindowStuff.cpp 4347-4419) | `bRunning`, `bStreaming`, `bRecording`, `bRecordingReplayBuffer`, `bStreamFlushed`, three `StopInfo`s, the threads, pending streams | Start, Stop, Start/StopRecording, Start/StopReplayBuffer, HandleStreamStopInfo, ~OBS, the triggers | user and window messages (main thread), encode thread, the threads that close streams |
| host: hotkeys (API.cpp 711-919) | `hotkeys`, `curHotkeyIDVal`, the message queue | Create/DeleteHotkey, HandleHotkeys, CallHotkey | hotkey thread (poll), main thread (the rest) |
| host: audio pipeline (OBSCapture.cpp 1252-1578, AudioSource.cpp) | filters, segments, timestamps, mix | QueryAudio2, AddAudioSegment, SortAudio, GetBuffer, MainAudioLoop | audio thread |
| NoiseGate plugin (NoiseGate.cpp) | its filter, the gate's level and hold time | StreamStarted/Stopped, Process | main and audio thread |
| host: A/V loop (OBSVideoCapture.cpp) | buffered video and pending audio, stream clock | MainCaptureLoop, BufferVideoData, SendFrame | video and encode threads |
| host: RTMP publisher (RTMPPublisher.cpp) | held packets, send queue, what kind of frame is waited for, data buffer, events | SendPacket, SendLoop, BufferedSend, SocketLoop, ~RTMPPublisher | encode thread; its own connection, send and socket threads; the thread that destroys it |
| host: delayed publisher (DelayedPublisher.cpp) | packets by age | SendPacket, ~DelayedPublisher | encode thread, the thread that destroys it |
| host: replay buffer (ReplayBuffer.cpp) | packets, key frames, save requests; of a recording made from it, what its thread has still to write | AddPacket, save, record, RecordingHelper | encode thread, main thread (requests), save threads |
| host: file streams (FLV/MP4FileStream.cpp) | the open file | AddPacket | encode thread, save threads |
| `CMediaBuffer` (CMediaBuffer.h) | reference count, length | Create, AddRef, Release | GetNextBuffer |

The interactions that matter: the host calls the plugins on the main thread at
the start and at the stop of a stream (a callback per plugin, in the order they
were loaded); the plugins change two lists, the microphone's filters (no lock)
and the auxiliary sources (`hAuxAudioMutex`), that the audio thread walks; the
hotkey thread posts messages that the main thread dispatches to the plugin; the
plugin reads the stream clock that the video thread writes. On the other side of
the encoder, the encode thread hands packets to the publisher, the file and the
replay buffer, each of which is started and stopped on its own; the main thread
asks for a stop and the encode thread carries it out; the publisher passes the
packets from one thread to the next until they are on the network, and is
destroyed on a thread of its own whose callback sets the host's flags.

What makes each component correct:

- **source**: samples in order, none lost or repeated, each through Speex once;
  GetNextBuffer returns false in the end; a closed microphone is not heard;
- **plugin and host lifecycle**: nothing is used after it is deleted or deleted
  twice, filter and source are installed together, the voice is heard once, a
  Stop ends;
- **hotkeys**: the count of keys that the source keeps is the number of keys
  held, although events are posted, delayed and cross the end of a stream;
- **pipeline**: times increase, the track has no gap, nothing is mixed late;
- **outputs of a session**: the flags agree with the streams, a stop is carried
  out for the stream it was asked for, a new stream starts only when the last one
  is closed, a session ends with its last output;
- **RTMP publisher**: only frames that can be decoded are sent, what is dropped is
  counted, shutdown sends everything and ends;
- **replay buffer**: a save has the seconds it promises, a recording made from it
  has no gap, nobody waits for ever.

## Modules

| module | models |
|---|---|
| `SegmentStream` | the abstract promise of a source: the samples captured come out in order, each once, in segments of `SEG`, and no full segment waits for ever |
| `VoiceCapture` | `VoiceCaptureDMOSource`, with the audio, main and video threads |
| `PluginLifecycle` | OnStartStream and OnStopStream of any number of plugins, the host's Start, Stop and ~OBS, and the audio thread on the two lists |
| `Hotkeys` | the hotkey thread's poll, the message queue, and the creation and deletion of the plugin's hotkeys |
| `AudioPipeline` | the timestamps of the audio thread: QueryNewAudio, QueryAudioBuffers, AudioSource, the time that is mixed |
| `StreamControl` | the stream, the recording and the replay buffer of a session: their starts, their stops on the encode thread, the publishers being closed, lost connections and reconnects |
| `RTMPQueue` | the RTMP publisher's packets: held back and sorted, queued, dropped, sent, flushed |
| `RTMPShutdown` | the RTMP publisher's threads: send thread, socket thread, data buffer, events, the destructor and its timeouts |
| `ReplayBuffer` | the replay buffer, its saves, and a recording that grows out of it with a thread of its own |
| `..._proofs` | the theorems about the module of that name, and their proofs |
| `MC...` | instances for TLC |

### VoiceCapture

A variable per field of the class, `now` for the stream clock, `captured` and
`read` for the device. A sample is its number, whether it was let through, and
how often Speex has run over it: its value is abstracted away. GetNextBuffer is
cut where another thread's write can make a difference: the test of the loop
(`ReadNeeded`, `skipNextRead`), the call of the device (`ReadSamples`), the
count of keys (`TestKeysDown`), clock and deadline (`TestExpiry`), the volume
and the copy into the buffer (`AppendSamples`), the return with Speex
(`SegmentReady`), the host's use of the segment until `ReleaseBuffer`. The
callback for a key going up is cut between the decrement and the stamp of the
deadline. The device delivers as much as fits in a media buffer of one segment
and says INCOMPLETE if it holds more, or fails (`ReadFails`) and keeps its data.
Both ways the host calls are there (`draining`). `held`, `openUntil` and `dry`
are history: what the user does and what the device has said.

### PluginLifecycle

Objects are addresses that can be freed and handed out again, so a dangling
pointer may come to point to something else. The main thread has a program
counter with a step for each statement of OnStopStream and OnStartStream that
the audio thread can see; `List::Add`, which `AddAudioFilter` is, counts the
entry before it writes it, so it has two steps (`GrowFilters`, `StoreFilter`).
The audio thread walks the auxiliary sources under the mutex, then the filters
without one, in three steps per filter (length, load, call), and after the last look
at the length appends the segment in a step of its own. What `Create`
cannot do (no microphone, Initialize fails, a source of the same name is there,
a NoiseGate switched off) is `DoNotInstall`. Simplified: Start is modelled only
when nothing runs, and Stop always stops everything (keep-recording modes are
StreamControl's subject); other auxiliary sources are left out; the audio thread
is joined without the 20 s limit after which the host would kill it. Between
`GrowFilters` and `StoreFilter` the model's list holds 0, where the real entry
holds whatever `ReAllocate` left; the reallocation itself can also move the
array under the reader. Both are the same window, and `wild` marks a call
through it.

### Hotkeys

The user presses and releases keys at any time; `tapped` is the low bit of
GetAsyncKeyState (pressed since last asked). The hotkey thread reads the
modifiers, takes the mutex and goes through the hotkeys, one action per hotkey
and kind (`PollXInput`, `PollModifiers`, `PollKey`), each ending with `KeyUp` or
`NextHotkey`. The main thread dispatches a message when it is idle, or starts and
ends a source with its hotkeys (`Initialize`, `CreateHotkey`, `Destroy`,
`DeleteHotkey`). `DeleteHotkey` removes
the entry that has the ID, of which there is one (`IdInv` of the proofs). At least
one push-to-talk hotkey is configured: without any, the source creates none and
nothing is posted to it. Left out: the Uplay overlay option, and messages
dispatched from within Stop by the delayed publisher's loop.

### AudioPipeline

Sequential: one thread, with devices that deliver when they like. A segment is its
timestamp, and two sources are enough: the desktop, whose packets are the clock,
and one auxiliary source, the plugin's, which bears the stream's own time
(win_voicecapturedmo.cpp:501) and may burst. Each action is a round of
QueryNewAudio's loop (`SkipDesktop`, `DesktopPacket`, `DesktopFilled`,
`DesktopDry`), a segment drained (`Drain`), the end of the drain with SortAudio
(`DrainEnds`), or the mix of one time (`Mix`). `Smoothed`, `Overshot`,
`SortedTimes` and `AfterGetBuffer` are the computations of AudioSource. Left out:
the samples, EncodeAudioSegment's queue, further auxiliary sources, and the raw
microphone, whose segments the plugin discards. Assumed: the desktop device's
timestamps are far from zero (they count from when the machine or the stream was
started), `bufferingTime` is positive (the settings allow 60 to 20000 ms), and
`jumpRange` is at least one segment (70 ms in the code, a segment is 10).

### StreamControl

The flags and the three streams of OBSCapture.cpp under their names, `stop` for
the three `StopInfo`s, `encode` for the encode thread, `messages` for what is
posted to the main thread, `closing` for the threads of AddPendingStream that
have a callback. An action per hotkey handler; the buttons' ToggleX call the same
functions under guards the hotkeys cover. Frames are left out: a pending stop is
`asked`, then `seen` when the first frame at or after its time is sent
(HandleStreamStopInfo lets that one pass), then carried out. A stop asked for
before the session's first frame has the time since the machine was started, or
since the last session, because `firstFrameTimestamp` is not yet this one's: it
may never come, which is the value `never`. The replay buffer's stop has two
steps, because the flag goes before the stream. Stop(everything) has two, with
the encode thread between them.

Two states are not followed further (`main = "lost"`): a Start that runs through
although the session already runs (with a delay, with "File Output Only" and a
replay buffer, or while the last stream is still closing, the test at 342 fails
and nothing else stops it: threads and textures of the session are replaced), and
a replay buffer that was started again between the flag and the stream of the
last one, which the encode thread then destroys. Left out: bTestStream,
OBS_NETWORK_FAILED, the kill of the encode thread after 30 s, file errors after
the start.

### RTMPQueue

`held` is bufferedPackets, `queue` queuedPackets, `wait` packetWaitType; a packet
is its type, time and what it is decoded from. Each call of SendPacket is one
step: only the encode thread makes it, and it enters `hDataMutex` once, in
SendPacketForReal. The send thread is cut where it leaves the mutex: `SendNext`,
`FoundEmpty`, then the test of `hSendLoopExit` (`CheckExit`). How old the last drop of
B frames is, by the system's clock, is a free choice. Simplified: which of the
disposable frames goes first (`distanceFromDroppedFrame`) makes no difference,
since the callers repeat until none is left; B and P frames dropped are counted
together, because the code reads the type of a list element it has just removed
(1590-1592) to tell them apart; RequestKeyframe and the SEI are the encoder's. The
loops over the queue (`Without`, `DropFrames`, `InitializeBuffer`) are recursive
functions, which can be proved about. `firstID` is the packet that
firstTimestamp was taken from: `SentDecodable` excuses, with bFastInitialKeyframe,
only frames that follow a keyframe from before it.

### RTMPShutdown

The data buffer as a length, in units of 1000 bytes, which is the threshold of
line 1445; the semaphore and the events that reset themselves as variables, the
socket as what it has to report (`net`) and whether it has refused data
(`blocked`). The send thread's BufferedSend and the socket thread's round are cut
wherever they leave `hDataBufferMutex` or wait. `SendTakes` and `Consume` are two
steps under the mutex, because FatalSocketShutdown changes the length without it.
The destructor may lose patience at any time (`LosePatience`,
`TerminateSocket`); a socket thread that is killed while it holds the mutex leaves
it locked, and the final flush then hangs (`locked`). A send takes any part of what
it is offered, which is the whole buffer, or at most `CHUNK` in low latency mode. Left
out: the "ideal send backlog" event, which only changes the socket's buffer size.

### ReplayBuffer

A packet's number is its time. The encode thread has a packet in hand through
`throttle`, `drain`, `append` and `replay`, in SendFrame's order: the file first,
then the replay buffer. A save is computed when it is asked of the save thread,
which works on a copy; `unanswered` is the requests that no file satisfies. The
recording's thread takes a packet under the mutex, writes it, and when it finds
none it is `leaving` before it has `exited`, which is what the encode thread sees.
`written` is video_packet_written_event; it is set for audio too, since line 297
compares the packet's time with PacketType_Audio. The loops of HandleSaveTimes and
of the trimming look at the front of a sorted list, so each is the longest prefix
that is due (`HandleSaveTimes`, `Trim`). `stream` is what the buffer is given from
its first packet on. That is a key frame in a session that has just begun; a buffer
that joins a running session only has one requested (OBSCapture.cpp 97-100) and is
given the audio and P-frames on their way first. Simplified: no B frames, one
recording per buffer, requests come between two packets. ~ReplayBuffer waits
`seconds*100` ms for each save thread and kills one that has not written a key
frame by then (67-68), and ~RecordingHelper kills a thread that takes 1 s to see
its event; neither is modelled.

## What the runs check

| run | instance | states | shows |
|---|---|---|---|
| `capture` | segments of 2, 5 samples, two hotkeys (symmetric), delay 1, 3 ticks | 476,928 | `SamplesInOrder`, `BufferBound`, `FilteredOnce`, `NeverReadsDry`, `OnlyOpenMicIsHeard`, `OnlyClosedMicIsMuted` |
| `capture_live` | segments of 3, 7 samples, no push-to-talk, no Speex | 11,248 | `DrainEnds`, and `StreamSpec`: refinement of `SegmentStream` with its fairness |
| `lifecycle` | a NoiseGate and two copies of the plugin, three addresses | 96,053 | `NothingDangles` (what the pointers own, what the lists hold and what the audio thread uses is alive), `InstalledTogether`, `MicHeardOnce`, `WildOnlyInWindow`, `StopEnds` |
| `hotkeys` | a key with a modifier and the modifier alone (sharing it) for push-to-talk, a gamepad button for the host; five IDs, that is two streams; a poll begins behind at most two messages | 341,816 | `KeysDownAddsUp`, `EventsAlternate`, `KeyboardUpMeansReleased`, `NoStuckKey` |
| `audio_pipeline` | 10 ms are 2 units, jumps beyond 3, a buffer of 4, six timestamps in any order, a voice queue of 4 | 65,709 | `TrackGapless`, `DesktopNeverLate`, `DrainSorts`; in `TypeOK`, that there is always a time to mix |
| `stream_control` | streaming that keeps the recording, streaming with a delay that saves to a file, recording only; no new request behind two messages, two publishers closing | 905,650 | `StopsAreForStreams`, `FlushedMeansClosed`, `IdleSessionEnds`; in `TypeOK`, that an output that is on has its stream |
| `rtmp_queue` | 50 streams of 8 or 9 packets, with and without the fast keyframe; 2 packets held back, thresholds 3 and 2 | 394,772 | `PacketsAccounted`, `NothingLeftBehind`, `SentDecodable`, `FlushEnds`; in `TypeOK`, that no timestamp underflows |
| `rtmp_shutdown` | a buffer of 5, packets of 1 and 3, three of them, sends of any part | 526,093 | `AllDelivered`, `GracefulShutdown`; in `TypeOK`, the bounds of the buffer |
| `replay_buffer` | 2 seconds, six streams of 6 or 7 packets, two of which begin with audio or P-frames; two requests | 442,934 | `SavesCover`, `RecordingGapless`, `AddPacketReturns`; in `TypeOK`, that key frames point into the list |
| `hotkeys_gamepad` | a gamepad button for push-to-talk | - | violates `UpMeansReleased`: see below |
| `rtmp_low_latency` | as `rtmp_shutdown`, packets of 3, at most 2 units a send | - | violates `SocketLoopEnds`: see below |
| `stream_reconnect` | as `stream_control` | - | violates `ReconnectStarts`: see below |

Why the bounds are enough. In `capture`, five samples in segments of two give a
remainder, a read that completes a segment exactly, one that overfills it, and a
third segment after both; two hotkeys give overlapping presses, and three ticks
a deadline that is renewed. The proofs remove these bounds. In `lifecycle` the
number of starts and stops is not bounded; three addresses are one more than a
plugin needs, so that an address is reused, and force one copy of the plugin to
fail. In `hotkeys` two streams are what a stale message needs. In
`audio_pipeline` the timestamps jump forward and back by less and by more than
`jumpRange`, to even and odd times, so that segments are dropped, mixed early and
kept; the buffer fills in one jump and beyond 1.5 times its size, and bursts are
long enough to fall back in time and widen `jumpRange`. In `rtmp_queue` the
streams have B frames of both kinds, audio early and late, key frames far apart
and adjacent, and any two types in the middle; uneven times reach both thresholds
with three or four packets queued, and a stalled send thread lets whole groups be
dropped. In `rtmp_shutdown` one packet leaves more than the threshold in the
buffer, two fill it, and the third waits for space. In `stream_control` the
number of starts and stops is unbounded; two publishers closing at a time are
what a second Stop needs, and two messages let a reconnect and a stop of the
encode thread be under way together. In `replay_buffer` seven packets trim the
list twice, and two requests fall due apart or together; a buffer that joins is asked
to save, to record and to stop before it has seen a key frame.

`WildOnlyInWindow` states what really holds. That the audio thread never calls a
filter that is gone is *not* true of this code: nothing locks `audioFilters`,
and Stop lets the plugins delete their filters (OBSCapture.cpp:992) before it
waits for the audio thread (1005). The run shows that there is no third way: no
wild call happens while the stream runs other than through an entry that is
being appended. In the same way `OnlyClosedMicIsMuted` names the two ways an
open microphone can be muted for one read: the callback has taken a key off the count
and not stamped the deadline (win_voicecapturedmo.cpp 398-401), or a key went down
after the read had looked at the count (`pressed`). A key that is held throughout is
no excuse.

Other properties name exceptions for the same reason, each a window in the code:

- `MicHeardOnce`: the microphone is queried outside `hAuxAudioMutex`
  (OBSCapture.cpp 1276-1282), so AddAudioFilter and AddAudioSource
  (win_voicecapturedmo.cpp 559-560) can both run after the audio thread has seen
  the end of the list of filters (AudioSource.cpp:202, `FiltersDone`) and before it
  appends the segment (209). That one segment is in the mix with the source listed
  (`AddedSince`); TLC finds it when the exception is taken out.
- `NothingLeftBehind`: the send thread may find the queue empty, the destructor's
  flush may then queue a packet and set `hSendLoopExit`, and the thread exits
  (RTMPPublisher.cpp 1467-1532) with that packet unsent (`missed`).
- `GracefulShutdown`: a send thread that waits for space when the connection
  breaks is not told (FatalSocketShutdown does not set
  hBufferSpaceAvailableEvent), and waits until the destructor sets it once more,
  which may be taken too early; then only the 50 s timeout helps (`SenderStuck`).
  And a send that leaves no more than 1000 bytes ends the round of writing (1445); if
  the socket took a part of what it was offered (1386-1390) after the destructor's one
  hBufferEvent, nothing makes the thread try again (`SocketStalled`), as in the low
  latency finding below.
- `TypeOK` of RTMPShutdown: the length may go negative only after the 50 s timeout,
  when FatalSocketShutdown resets it in the middle of a send.
- `StopsAreForStreams`: Stop(everything) while an output's own stop is pending
  leaves the StopInfo set (`stale`). The next recording or stream is then ended by
  it, or cannot be stopped because a stop seems to be under way (307, 930).
- `FlushedMeansClosed`, `IdleSessionEnds`: a Stop while the last stream is still
  closing calls `network.release()` on an empty pointer and adds a pending stream
  without a stream (OBSCapture.cpp 1026); its callback sets `bStreamFlushed` and
  clears `bStreaming` at once, so a new stream may start before the old one is
  closed, and the old one's callback then clears the new one's flag
  (`closedAgain`).
- `RecordingGapless`: a packet that is appended while the recording's thread is
  leaving is thrown away, with a warning (ReplayBuffer.cpp 325-329).

### Findings

`hotkeys_gamepad`: the branch of HandleHotkeys for gamepad buttons
(API.cpp:836-857) lacks the `continue` of the keyboard's branches, so that a
button that is down runs into `if(info.bHotkeyDown) //key up` (906) and goes up
in the same poll, again and again while it is held. For the plugin it means that
push-to-talk on a gamepad works only through the delay after the key went up.
The rest of the hotkey path is unaffected, as `KeyboardUpMeansReleased` and the
accounting properties show with such a hotkey in the list.

`rtmp_low_latency`: the socket thread ends its round of writing when at most 1000
bytes are left (RTMPPublisher.cpp:1445), counting on the next event. At shutdown
there is none: the send thread is gone, the socket stays writable, and the one
event the destructor sets has been used. The thread does not "shut down after the
buffer is empty" (295); the destructor waits 60 s, kills it, and sends the rest
itself. Low latency mode cuts every send and so comes to this by itself. Without it
the socket must take a part of a send and leave so little: rarer, the same stall, and
one of the two cases in which `rtmp_shutdown` lets the threads not end.

`stream_reconnect`: with a reconnect timeout of 0 the handler of OBS_REQUESTSTOP
calls Stop and posts OBS_RECONNECT ("fire immediately"). Stop has the publisher
closed on another thread and clears `bStreamFlushed`; the Start of OBS_RECONNECT
returns while it is clear (OBSCapture.cpp:340), and nothing tries again.

## Fairness

- `VoiceCapture`: weak fairness of the audio thread, which is a loop that ends
  only when the stream does; strong fairness of `ReadSamples`, which says that a
  device that is asked again and again does not fail for ever. The amount
  captured is bounded: the device captures in real time, slower than a drain
  reads. Nothing is assumed of the user, the clock or the device's capture.
- `PluginLifecycle`: weak fairness of the main thread inside Start, Stop and the
  callbacks, and of the audio thread. A mutex is taken at last because the audio
  thread ends once `bRunning` is false. The user may do nothing for ever.
- `Hotkeys`: weak fairness of the hotkey thread (a loop with a sleep), strong
  fairness of the main thread's steps that wait for the mutex, which the hotkey
  thread leaves after every poll and holds for a fraction of its 30 ms.
- `StreamControl`: weak fairness of the encode thread, of Stop on the main thread,
  of the threads that close publishers and of the message loop: each goes on when
  it can. The user and the network may do nothing for ever.
- `RTMPQueue`: weak fairness of the connection thread (its calls time out), the
  send thread (the network takes data: stalling is RTMPShutdown's subject) and the
  destructor.
- `RTMPShutdown`: weak fairness of the three threads; of `Writable`, and strong
  fairness of `SendTakes`: a connection that is not lost takes data again and
  again. A connection that does not is what the timeouts are for; they are not
  fair, so no property needs them to expire.
- `ReplayBuffer`: weak fairness of the encode thread, once it has a packet, and of
  the recording's thread.

## What is proved

Each `..._proofs` module proves its theorems for every value of the module's
constants, from the assumption that the module states about them, and so without
the bounds of the runs. The arguments have one form. The properties are not
inductive; each follows from an invariant `IInv` of named parts, for which
`InitIInv`, a lemma for each action (`...IInv`) and `NextIInv` are proved. TLC has
checked each `IInv` (of `RTMPQueue` also `FrameInv` and `TypeInv`) on the instances
above, with the same number of states.
Fairness is not used. The parts of `IInv` that are not properties of a run
themselves say why the code works:

**`VoiceCapture_proofs`** (any segment size, hotkeys, delay): `TypeCorrect`,
`SamplesStayInOrder`, `BufferIsBounded`, `EverySampleFilteredOnce`; of the action
properties `DeviceIsNotReadDry`, `ClosedMicIsNotHeard`, `OpenMicIsHeard`; and
`ImplementsStream`, the safety part of the refinement, `Spec => StreamSafe`.
`FillInv` has where in GetNextBuffer the buffer may hold how much (a read is only
begun with less than a segment buffered, and appended to that); `PttInv` that the
count of keys is the cardinality of the keys held, the deadline the one of the
history but between the two statements of the callback, and that the test has come to
the deadline only with no key held when it began; `DryInv` that a device that has said it is empty has set `_skipNextRead`
or is about to. `BufferKept` carries the buffer's part through every step of
another thread; the lemmas on `Filtered`, `Remainder` and `NewSamples` say what
the operations on the buffer do to its length and elements.

**`PluginLifecycle_proofs`** (any number of plugins of either kind, any
addresses): `TypeCorrect`, `PointersAreAlive`, `ListsAgree`, `MicIsHeardOnce`,
`WildCallsHaveTwoCauses`. What is alive is what the plugins own (`LiveInv`), each
object through one pointer (`DistinctInv`), and which plugin may own anything
depends on how far the calls have come (`OwnInv`, `MayOwn`). The lists hold the
pointers that are listed at this step, the filters in the order of the plugins
(`FiltersInv`, `SourcesInv`), so that `RemoveItem`, which takes out the first
entry, takes out the right one. `AudioInv` follows the audio thread down the list:
while the stream runs, a segment that is still heard has yet to come to every
filter that discards it, or the filter was added after the loop had ended. It holds although filters are appended under the walk,
and fails when one is removed: that is the window which `WildOnlyInWindow` names.

**`Hotkeys_proofs`** (any hotkeys of the host and the plugin, any keys, any number
of messages and of streams): `TypeCorrect`, `CountIsRight`, `CallbacksAlternate`,
`KeyboardIsBelieved`. An ID is given once, and no message has one that was not
given yet (`IdInv`); the source has the IDs of its own hotkeys (`SourceInv`). The
heart is `TalkInv`: read one after the other, the messages lead from what the
source was last told (`talking`) to what the hotkey thread believes (`Sent`), and
each says something new (`Leads`, by a sequence of sets that has a set for each
position of the queue). Messages for hotkeys of earlier streams are in between
and lead nowhere, because their IDs are not used again.

**`AudioPipeline_proofs`** (any step, slack, jump range, buffer, timestamps):
`TypeCorrect`, `NoGapInTheTrack`, `DesktopIsNeverBehind`, `VoiceIsSorted`, which
is the action property `DrainSorts`. `ClockInv` has the desktop's queue: each
segment after the end of the last, and two of them at least while something is
mixed; `PlanInv` that the plan is never ahead of that queue, which needs that a
mix never empties it. `VoiceInv` bounds how far SortAudio can move segments back
from the end of a burst, one `STEP` each, so that no difference of times
underflows. This is what the assumption on the device's timestamps is for.

**`StreamControl_proofs`** (any settings and bounds): `TypeCorrect`,
`StopsHaveTargets`, `FlushedTellsTheTruth`. Here the properties are nearly
inductive themselves. They need that a stop which waits outside a session was left
behind (`SessionInv`), and that unless two were closed at a time at most one
publisher is being closed (`CloseInv`), for which the threads are a bag.

**`RTMPShutdown_proofs`** (packets, sends and buffer of any size): `TypeCorrect`,
`EverythingDelivered`. `FlowInv`: what was taken from the queue is in the send
thread's hands, in the buffer or on the network, and a socket thread that has
ended by itself leaves an empty buffer that nobody fills any more. `LenInv` keeps
the length in range as long as the socket is open, or nobody has used a timeout:
beyond that FatalSocketShutdown resets it under the socket thread's feet.

**`ReplayBuffer_proofs`** (any number of seconds, any streams, any number of
requests): `TypeCorrect`, `SavesAreComplete`, `RecordingHasNoGap`. `BufferInv`: the
list is an interval of the stream, reaches back far enough from the last key frame it
knows of (`LastKey`), or to the first packet when it knows of none yet, and has every
key frame that `keyframes` points at. `RequestInv`: requests wait in order and none is due yet.
`FileInv`: what the recording has, what its thread holds and what is left in the
thread's list continue each other up to what the encode thread has given; after
the thread has left, what remains there is late.

**`RTMPQueue_proofs`** (any thresholds, any number of packets held back, any
streams): `FramesAddUp`, `NothingIsLeft`, `SentAreDecodable`, which is the action
property `SentDecodable`, and `TypeCorrect`. The first two rest on `IInv`. `OnceInv`:
what has been given is held back, or queued, once and not both; this is why the
counts of a queue change by one when one packet comes or goes. `ExitInv`: the exit is
asked for when nothing is held back, so that after the send thread has looked at an
empty queue only what it misses can be there. `HeadersInv`: the buffer fills for the
first time while the connection is up and nobody stops, so the headers go first.

`SentAreDecodable` needs `FrameInv`, which the same steps keep
(`FramesStayDecodable`). The frames that are queued, those held back and the two that
may be given next, a frame that others refer to and one that none does (`Coming`),
form one list in the order in which they were given (`OrderInv`). Each refers to
the last frame before it in the list that it can refer to, or to a later one that
has left the list (`Reads`, `RefsInv`). Of a queue, `QueueSound` says that the reference of
every frame in it was sent and is still remembered, or is in the queue before it
(`Decodable`), and that whatever of the rest would be accepted now finds its
reference there too, or in what is held back (`Ready`): so packetWaitType refuses
long enough. Dropping a frame keeps this, alone and repeated (`DropFrameKeeps`,
`DoIFrameDelayKeeps`, `ProcessedKeeps`), and so do the acceptance or refusal of the
next frame (`AcceptedFrame`, `RefusedFrame`) and the send thread. The exception of
bFastInitialKeyframe is `Excused`.

`TypeCorrect` says that no time underflows when the first frame's is subtracted
(DWORDs in the code), and that the buffer keeps to its size. `TimeInv`: what is still
to be given is not earlier than the first packet, nor, once the buffer has been full,
than the first audio packet in it; until then the audio in it is in order
(`AudioOrder`), so that its first is its earliest. This needs `AudioInOrder`, see
below, which is a hypothesis of the theorem.

Induction over the queue is by the least counterexample (`SmallestExists`,
`Steps`), and that the recursive functions exist is `RecursionExists`. On them
rest `WithoutProperties`, `BestPacketProperties` and `DropFramesStay`
(dropping leaves a part of the queue that has all of its audio),
`InitializeBufferProperties` (a reordering loses and doubles nothing),
`SendPacketForRealProperties` and, for each way SendPacket can go, `...Moves`,
`...Frames` and `...Types`.

The assumptions on the constants are those a reader of the code would grant:
positive sizes and lengths; `JUMP >= STEP` and timestamps far from zero
(`AudioPipeline`); streams that are not empty (`ReplayBuffer`); at least
one push-to-talk hotkey and room for the host's IDs (`Hotkeys`). The bounds
(`Max...`) may be any numbers. For `RTMPQueue`, `FramesInOrder`: frames are given in
the order of their times and not before audio that is earlier, which is the loop of
SendFrame (OBSVideoCapture.cpp:160-168). `AudioInOrder`, that audio does not come
after a frame or audio that is later, is what BufferVideoData (94-99) waits for,
but FlushBufferedVideo (359-390) gives the last frames without waiting for audio.
If audio is late then, it comes after later frames: so this is assumed by
`TypeCorrect` only, and everything else holds without it. The streams of the run
satisfy both.

Only model-checked:

- liveness, which the prover cannot do: `DrainEnds`, the fairness of `StreamSpec`,
  `StopEnds`, `NoStuckKey`, `FlushEnds`, `GracefulShutdown`, `IdleSessionEnds`,
  `AddPacketReturns`;
- the three findings, which are counterexamples.

## Plan

Done, in this order: `VoiceCapture` with its abstract stream, `PluginLifecycle`,
`Hotkeys`, the proofs of the first, `AudioPipeline`; then `RTMPQueue`,
`RTMPShutdown`, `StreamControl` and `ReplayBuffer`; then the proofs about all of
them. No module uses a RECURSIVE operator, so all can be proved about. Every
invariant that a run checks is proved now, but for the findings; so are the action
properties.

Modules planned: `DelayedPublisher` in front of `RTMPQueue`; `AVMux`, the order of
audio and video in SendFrame, with EncodeAudioSegment's queue; the NoiseGate's
state machine, `CMediaBuffer`'s reference count, a narrow clock for the
deadline's overflow.

## Not modelled

User interface, settings and rendering; encoders and file formats (sequential,
numeric); WASAPI, Direct3D and COM calls (outcomes only); the other plugins; the
vendored libraries. `_pttDelayExpires` wraps after 49.7 days, which the models'
clock does not, and a deadline stamped before the video thread has set the new
stream's clock is not modelled. Threads that the host kills after a timeout are
modelled in RTMPShutdown only. The components planned above are listed in
`PROJECT.json` as not modelled or partly modelled.

Of the half million lines in the repository, 320,000 are the coefficient tables of
a vendored resampler, and most of the others are vendored codecs, protocol
libraries and headers; the host's own sources have 36,000 lines, largely windows,
settings and Direct3D, and the plugin has 900. The map covers the plugin, and of
the host the code that has threads, state and order to get wrong; a large share of
all the lines cannot be reached by models of that kind.

Seen while reading, and outside what a property here could hold across: when Start
fails late it returns without leaving hStartupShutdownMutex (OBSCapture.cpp 858-871,
881-885; the mutex is recursive, and the main thread its only blocking owner); a
stream that is started while recording replaces `network` (345) while the encode
thread may be in the old one, if it was not yet taken away; SaveReplayBufferHotkey
uses a raw pointer that the encode thread may be deleting; OBS_REQUESTSTOP posted
by a publisher that is being closed stops the session that runs by then, whatever
it is for.
