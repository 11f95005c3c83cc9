-------------------------- MODULE PluginLifecycle ---------------------------
(***************************************************************************)
(* The life of the audio plugins in the host: OBS::Start, OBS::Stop and    *)
(* OBS::~OBS call the plugins' OnStartStream, OnStopStream and UnloadPlugin*)
(* on the main thread while the host's audio thread walks the two lists the*)
(* plugins have put their objects on:                                      *)
(*                                                                         *)
(*  - audioFilters of the microphone's AudioSource, which no lock protects;*)
(*  - auxAudioSources of the host, under hAuxAudioMutex.                   *)
(*                                                                         *)
(* A plugin is a copy of OBS_mic_dsp (it puts a MicDiscardFilter on the    *)
(* first list and a VoiceCaptureDMOSource on the second) or the NoiseGate  *)
(* (a filter only).  Objects are named by their address, an address that   *)
(* was freed may be handed out again, and 0 stands for the null pointer and*)
(* for an entry of a list that is not written yet.                         *)
(***************************************************************************)
EXTENDS Integers, SequencesExt

CONSTANTS
  NumPlugins,  \* the plugins, in the order in which they were loaded
  Gates,       \* those of them that are NoiseGates; the others are OBS_mic_dsp
  Objects      \* bound: the addresses that filters and sources may have

ASSUME PluginsAssumption ==
  /\ NumPlugins \in Nat \ {0}
  /\ Gates \subseteq 1 .. NumPlugins
  /\ Objects \subseteq Nat \ {0}

VARIABLES
  bRunning, bStreaming, bShuttingDown, \* of the host
  exiting,      \* OBS::~OBS has begun
  mic,          \* micAudio # NULL
  audioFilters, \* micAudio->audioFilters
  auxSources,   \* auxAudioSources
  micFilter,    \* _micFilter (NoiseGate: filter) of each plugin
  auxSource,    \* _auxSource of each plugin
  live,         \* the objects that are allocated
  main,         \* main thread: where it is
  job,          \* main thread: what it calls the plugins for
  p,            \* main thread: the plugin it is calling
  audio,        \* audio thread: where it is
  i,            \* audio thread: index in the list it walks
  cur,          \* audio thread: the pointer it has read from the list
  segment,      \* audio thread: newSegment # NULL
  wild          \* history: the audio thread has called a filter that is not alive

hostVars   == <<bRunning, bStreaming, bShuttingDown, exiting, mic>>
listVars   == <<audioFilters, auxSources>>
pluginVars == <<micFilter, auxSource, live>>
mainVars   == <<main, job, p>>
audioVars  == <<audio, i, cur, segment, wild>>
vars == <<hostVars, listVars, pluginVars, mainVars, audioVars>>

Plugins == 1 .. NumPlugins

MainPC  == {"idle", "started", "unhook", "freefilter", "unlist", "freesource",
            "begin", "grow", "store", "list", "join", "free", "shutdown", "gone"}
AudioPC == {"off", "head", "aux", "auxuse", "mic", "filter", "load", "process", "keep"}

\* The audio thread owns hAuxAudioMutex.
AuxMutexTaken == audio \in {"aux", "auxuse"}

\* The DMO source of some plugin is on the host's list.
Listed == \E q \in Plugins : auxSource[q] # 0 /\ Contains(auxSources, auxSource[q])

Init ==
  /\ bRunning = FALSE /\ bStreaming = FALSE /\ bShuttingDown = FALSE
  /\ exiting = FALSE /\ mic = FALSE
  /\ audioFilters = <<>> /\ auxSources = <<>>
  /\ micFilter = [q \in Plugins |-> 0]
  /\ auxSource = [q \in Plugins |-> 0]
  /\ live = {}
  /\ main = "idle" /\ job = "start" /\ p = 1
  /\ audio = "off" /\ i = 1 /\ cur = 0 /\ segment = FALSE /\ wild = FALSE
-----------------------------------------------------------------------------
(***************************************************************************)
(* Calling the plugins one after the other.                                *)
(***************************************************************************)

\* Where the callback of plugin q begins: OnStartStream of the NoiseGate does
\* not stop first, every other callback begins with OnStopStream.
FirstStep(j, q) == IF j = "start" /\ q \in Gates THEN "begin" ELSE "unhook"

\* Where the main thread goes when every plugin has been called.
AfterPlugins == CASE job = "start" -> "idle"
                  [] job = "stop"  -> "join"
                  [] job = "exit"  -> "gone"

\* Mutant: i <= plugins.Num().
NextPluginOneMore ==
  /\ UNCHANGED job
  /\ IF p <= NumPlugins
     THEN p' = p + 1 /\ main' = FirstStep(job, p + 1)
     ELSE p' = 1 /\ main' = AfterPlugins

NextPlugin ==
  /\ UNCHANGED job
  /\ IF p < NumPlugins
     THEN p' = p + 1 /\ main' = FirstStep(job, p + 1)
     ELSE p' = 1 /\ main' = AfterPlugins

\* OnStopStream returns, to the plugin's OnStartStream or to the host.
StopReturns ==
  IF job = "start" THEN main' = "begin" /\ UNCHANGED <<job, p>> ELSE NextPlugin
-----------------------------------------------------------------------------
(***************************************************************************)
(* The host, on the main thread.                                           *)
(***************************************************************************)

\* OBS::Start up to the creation of the sound thread.  The microphone may be
\* disabled or fail to open.
Start ==
  /\ main = "idle" /\ ~exiting
  /\ ~bRunning
  /\ mic' \in BOOLEAN
  /\ bRunning' = TRUE
  /\ audio' = "head"
  /\ main' = "started"
  /\ UNCHANGED <<bStreaming, bShuttingDown, exiting, listVars, pluginVars, job, p,
                 i, cur, segment, wild>>

\* The rest of Start.  While an earlier stream is still being flushed only a
\* recording can have been started.
ReportStartStreamTrigger ==
  /\ main = "started"
  /\ bStreaming' \in IF bStreaming THEN {FALSE} ELSE BOOLEAN
  /\ job' = "start" /\ p' = 1
  /\ main' = IF bShuttingDown THEN "idle" ELSE FirstStep("start", 1)
  /\ UNCHANGED <<bRunning, bShuttingDown, exiting, mic, listVars, pluginVars, audioVars>>

\* Mutant: the plugins are called while the stream still runs.
StopBodyStillRunning ==
  /\ UNCHANGED bRunning
  /\ job' = "stop" /\ p' = 1
  /\ main' = IF bShuttingDown THEN "join" ELSE FirstStep("stop", 1)

\* OBS::Stop up to ReportStopStreamTrigger.
StopBody ==
  /\ bRunning' = FALSE
  /\ job' = "stop" /\ p' = 1
  /\ main' = IF bShuttingDown THEN "join" ELSE FirstStep("stop", 1)

\* Start gives up: no encoder, or the recording cannot be started.
StartFails ==
  /\ main = "started"
  /\ bStreaming' \in {bStreaming, FALSE}
  /\ StopBody
  /\ UNCHANGED <<bShuttingDown, exiting, mic, listVars, pluginVars, audioVars>>

Stop ==
  /\ main = "idle" /\ ~exiting
  /\ bRunning \/ bStreaming
  /\ StopBody
  /\ UNCHANGED <<bStreaming, bShuttingDown, exiting, mic, listVars, pluginVars, audioVars>>

\* OSTerminateThread(hSoundThread): waits for the thread to end.
JoinSoundThread ==
  /\ main = "join"
  /\ audio = "off"
  /\ main' = "free"
  /\ UNCHANGED <<hostVars, listVars, pluginVars, job, p, audioVars>>

\* The rest of Stop: micAudio and its list go, and so does every source that is
\* still on the list of auxiliary sources.
FreeAudio ==
  /\ main = "free"
  /\ mic' = FALSE /\ audioFilters' = <<>>
  /\ live' = live \ ToSet(auxSources) /\ auxSources' = <<>>
  /\ main' = IF exiting THEN "shutdown" ELSE "idle"
  /\ UNCHANGED <<bRunning, bStreaming, bShuttingDown, exiting, micFilter, auxSource,
                 job, p, audioVars>>

\* The stream that Stop has left pending is flushed.
StreamFlushed ==
  /\ main = "idle"
  /\ bStreaming /\ ~bRunning
  /\ bStreaming' = FALSE
  /\ UNCHANGED <<bRunning, bShuttingDown, exiting, mic, listVars, pluginVars, mainVars,
                 audioVars>>

\* Mutant: bShuttingDown is set before Stop, which then calls no plugin.
DestroyShutsDownFirst ==
  /\ main = "idle" /\ ~exiting
  /\ exiting' = TRUE /\ bShuttingDown' = TRUE
  /\ bRunning' = FALSE
  /\ main' = IF bRunning \/ bStreaming THEN "join" ELSE "shutdown"
  /\ UNCHANGED <<bStreaming, mic, listVars, pluginVars, job, p, audioVars>>

\* OBS::~OBS begins with Stop(true, true).
Destroy ==
  /\ main = "idle" /\ ~exiting
  /\ exiting' = TRUE
  /\ IF bRunning \/ bStreaming
     THEN StopBody
     ELSE main' = "shutdown" /\ UNCHANGED <<bRunning, job, p>>
  /\ UNCHANGED <<bStreaming, bShuttingDown, mic, listVars, pluginVars, audioVars>>

\* bShuttingDown is set, then every plugin is unloaded.
UnloadPlugins ==
  /\ main = "shutdown"
  /\ bShuttingDown' = TRUE /\ bStreaming' = FALSE
  /\ job' = "exit" /\ p' = 1
  /\ main' = FirstStep("exit", 1)
  /\ UNCHANGED <<bRunning, exiting, mic, listVars, pluginVars, audioVars>>
-----------------------------------------------------------------------------
(***************************************************************************)
(* A plugin's OnStopStream, on the main thread.                            *)
(***************************************************************************)

\* Mutant: the filter stays on the microphone's list.
RemoveAudioFilterForgotten ==
  /\ main = "unhook"
  /\ main' = IF micFilter[p] # 0 THEN "freefilter" ELSE "unlist"
  /\ UNCHANGED <<hostVars, listVars, pluginVars, job, p, audioVars>>

RemoveAudioFilter ==
  /\ main = "unhook"
  /\ IF micFilter[p] # 0
     THEN /\ audioFilters' = IF mic THEN RemoveFirst(audioFilters, micFilter[p])
                           ELSE audioFilters
          /\ main' = "freefilter"
     ELSE /\ main' = "unlist"
          /\ UNCHANGED audioFilters
  /\ UNCHANGED <<hostVars, auxSources, pluginVars, job, p, audioVars>>

DeleteFilter ==
  /\ main = "freefilter"
  /\ live' = live \ {micFilter[p]}
  /\ micFilter' = [micFilter EXCEPT ![p] = 0]
  /\ main' = "unlist"
  /\ UNCHANGED <<hostVars, listVars, auxSource, job, p, audioVars>>

\* Mutant: without hAuxAudioMutex.
RemoveAudioSourceUnlocked ==
  /\ main = "unlist"
  /\ auxSource[p] # 0
  /\ auxSources' = RemoveFirst(auxSources, auxSource[p])
  /\ main' = "freesource"
  /\ UNCHANGED <<hostVars, audioFilters, pluginVars, job, p, audioVars>>

RemoveAudioSource ==
  /\ main = "unlist"
  /\ auxSource[p] # 0
  /\ ~AuxMutexTaken
  /\ auxSources' = RemoveFirst(auxSources, auxSource[p])
  /\ main' = "freesource"
  /\ UNCHANGED <<hostVars, audioFilters, pluginVars, job, p, audioVars>>

NoSource ==
  /\ main = "unlist"
  /\ auxSource[p] = 0
  /\ StopReturns
  /\ UNCHANGED <<hostVars, listVars, pluginVars, audioVars>>

DeleteSource ==
  /\ main = "freesource"
  /\ live' = live \ {auxSource[p]}
  /\ auxSource' = [auxSource EXCEPT ![p] = 0]
  /\ StopReturns
  /\ UNCHANGED <<hostVars, listVars, micFilter, audioVars>>
-----------------------------------------------------------------------------
(***************************************************************************)
(* A plugin's OnStartStream, on the main thread.                           *)
(***************************************************************************)

\* Mutant: when Initialize fails, the filter is not deleted.
DoNotInstallLeaks ==
  /\ main = "begin"
  /\ IF mic /\ p \notin Gates /\ live # Objects
     THEN \E f \in Objects \ live : live' = live \cup {f}
     ELSE UNCHANGED live
  /\ NextPlugin
  /\ UNCHANGED <<hostVars, listVars, micFilter, auxSource, audioVars>>

\* "Another aux source with the same device name was found", no microphone,
\* Initialize fails (what was created is deleted again), or a NoiseGate that is
\* not enabled: nothing is installed.
DoNotInstall ==
  /\ main = "begin"
  /\ NextPlugin
  /\ UNCHANGED <<hostVars, listVars, pluginVars, audioVars>>

Create ==
  /\ main = "begin"
  /\ mic
  /\ p \in Gates \/ ~Listed
  /\ \E f \in Objects \ live :
       /\ micFilter' = [micFilter EXCEPT ![p] = f]
       /\ IF p \in Gates
          THEN live' = live \cup {f} /\ UNCHANGED auxSource
          ELSE \E s \in Objects \ (live \cup {f}) :
                 /\ auxSource' = [auxSource EXCEPT ![p] = s]
                 /\ live' = live \cup {f, s}
  /\ main' = "grow"
  /\ UNCHANGED <<hostVars, listVars, job, p, audioVars>>

\* AddAudioFilter is List::Add: it counts the entry, then it writes it.
GrowFilters ==
  /\ main = "grow"
  /\ audioFilters' = Append(audioFilters, 0)
  /\ main' = "store"
  /\ UNCHANGED <<hostVars, auxSources, pluginVars, job, p, audioVars>>

StoreFilter ==
  /\ main = "store"
  /\ audioFilters' = [audioFilters EXCEPT ![Len(audioFilters)] = micFilter[p]]
  /\ IF p \in Gates THEN NextPlugin ELSE main' = "list" /\ UNCHANGED <<job, p>>
  /\ UNCHANGED <<hostVars, auxSources, pluginVars, audioVars>>

AddAudioSource ==
  /\ main = "list"
  /\ ~AuxMutexTaken
  /\ auxSources' = Append(auxSources, auxSource[p])
  /\ NextPlugin
  /\ UNCHANGED <<hostVars, audioFilters, pluginVars, audioVars>>
-----------------------------------------------------------------------------
(***************************************************************************)
(* The audio thread: MainAudioLoop.                                        *)
(***************************************************************************)

\* while(true) { if(!bRunning) break; ... }: each round may query the auxiliary
\* sources (under the mutex) and then the microphone, or do neither.
AudioHead ==
  /\ audio = "head"
  /\ IF bRunning
     THEN audio' \in {"head", "aux"}
     ELSE audio' = "off"
  /\ i' = 1
  /\ UNCHANGED <<hostVars, listVars, pluginVars, mainVars, cur, segment, wild>>

\* Takes the next source, or unlocks the mutex after the last one.  (The source
\* is used until the loop comes round, under the mutex.)
NextAuxSource ==
  /\ audio = "aux"
  /\ IF i <= Len(auxSources)
     THEN cur' = auxSources[i] /\ audio' = "auxuse"
     ELSE audio' \in {"mic", "head"} /\ UNCHANGED cur
  /\ UNCHANGED <<hostVars, listVars, pluginVars, mainVars, i, segment, wild>>

\* Mutant: the source always has audio, and the drain does not end.
UseAuxSourceForever ==
  /\ audio = "auxuse"
  /\ audio' = "aux"
  /\ UNCHANGED <<hostVars, listVars, pluginVars, mainVars, i, cur, segment, wild>>

UseAuxSource ==
  /\ audio = "auxuse"
  /\ i' = i + 1
  /\ audio' = "aux"
  /\ UNCHANGED <<hostVars, listVars, pluginVars, mainVars, cur, segment, wild>>

\* micAudio->QueryAudio2 delivers a segment, or no audio is available.
QueryMic ==
  /\ audio = "mic"
  /\ IF mic
     THEN segment' = TRUE /\ audio' \in {"head", "filter"}
     ELSE audio' = "head" /\ UNCHANGED segment
  /\ i' = 1
  /\ UNCHANGED <<hostVars, listVars, pluginVars, mainVars, cur, wild>>

\* AddAudioSegment: for(i < audioFilters.Num()) if(newSegment) ...
NextFilter ==
  /\ audio = "filter"
  /\ i <= Len(audioFilters)
  /\ IF segment THEN audio' = "load" /\ UNCHANGED i ELSE i' = i + 1 /\ UNCHANGED audio
  /\ UNCHANGED <<hostVars, listVars, pluginVars, mainVars, cur, segment, wild>>

\* audioFilters[i]: the list may have shrunk since its length was read.
LoadFilter ==
  /\ audio = "load"
  /\ cur' = IF i <= Len(audioFilters) THEN audioFilters[i] ELSE 0
  /\ audio' = "process"
  /\ UNCHANGED <<hostVars, listVars, pluginVars, mainVars, i, segment, wild>>

\* MicDiscardFilter::Process discards the segment, NoiseGateFilter::Process
\* passes it on; a call of a filter that is not alive may do anything.
ProcessSegment ==
  /\ audio = "process"
  /\ segment' \in IF cur \notin live THEN BOOLEAN
                  ELSE {\E q \in Gates : micFilter[q] = cur}
  /\ wild' = (wild \/ cur \notin live)
  /\ i' = i + 1
  /\ audio' = "filter"
  /\ UNCHANGED <<hostVars, listVars, pluginVars, mainVars, cur>>

\* The loop's last test finds no further filter.
FiltersDone ==
  /\ audio = "filter"
  /\ i > Len(audioFilters)
  /\ audio' = "keep"
  /\ UNCHANGED <<hostVars, listVars, pluginVars, mainVars, i, cur, segment, wild>>

\* if(newSegment) audioSegments << newSegment: the host's mix will contain it.
KeepSegment ==
  /\ audio = "keep"
  /\ segment' = FALSE
  /\ audio' = "head"
  /\ UNCHANGED <<hostVars, listVars, pluginVars, mainVars, i, cur, wild>>

HostStep ==
  \/ ReportStartStreamTrigger
  \/ StartFails
  \/ JoinSoundThread
  \/ FreeAudio
  \/ UnloadPlugins

PluginStep ==
  \/ RemoveAudioFilter
  \/ DeleteFilter
  \/ RemoveAudioSource
  \/ NoSource
  \/ DeleteSource
  \/ DoNotInstall
  \/ Create
  \/ GrowFilters
  \/ StoreFilter
  \/ AddAudioSource

AudioStep ==
  \/ AudioHead
  \/ NextAuxSource
  \/ UseAuxSource
  \/ QueryMic
  \/ NextFilter
  \/ LoadFilter
  \/ ProcessSegment
  \/ FiltersDone
  \/ KeepSegment

UserStep == Start \/ Stop \/ StreamFlushed \/ Destroy

Next == UserStep \/ HostStep \/ PluginStep \/ AudioStep

Spec == Init /\ [][Next]_vars

(***************************************************************************)
(* A thread that can run does run; hAuxAudioMutex is free again and again, *)
(* and for good once the audio thread has ended.                           *)
(***************************************************************************)
FairSpec == Spec /\ WF_vars(HostStep \/ PluginStep) /\ WF_vars(AudioStep)
-----------------------------------------------------------------------------
(***************************************************************************)
(* Properties.                                                             *)
(***************************************************************************)

\* Every variable has its type, and the lists hold addresses only.
TypeOK ==
  /\ bRunning \in BOOLEAN /\ bStreaming \in BOOLEAN /\ bShuttingDown \in BOOLEAN
  /\ exiting \in BOOLEAN /\ mic \in BOOLEAN /\ segment \in BOOLEAN /\ wild \in BOOLEAN
  /\ audioFilters \in Seq(Objects \cup {0})
  /\ auxSources \in Seq(Objects)
  /\ micFilter \in [Plugins -> Objects \cup {0}]
  /\ auxSource \in [Plugins -> Objects \cup {0}]
  /\ live \subseteq Objects
  /\ main \in MainPC /\ job \in {"start", "stop", "exit"} /\ p \in Plugins
  /\ audio \in AudioPC /\ i \in Nat \ {0} /\ cur \in Objects \cup {0}

\* No pointer dangles. The ones a plugin keeps (OnMicVolumeChanged and OnStopStream
\* will follow them): the host's Stop deletes the sources that are left on its
\* list, the plugin deletes its own, and none is deleted by both. Those in the two
\* lists: an object leaves the list before it goes. And that of the source which
\* the audio thread is querying, although the main thread may be in OnStopStream at
\* any point of the round.
OwnedAlive     == \A q \in Plugins : {micFilter[q], auxSource[q]} \ {0} \subseteq live
ListedAlive    == (ToSet(audioFilters) \ {0}) \cup ToSet(auxSources) \subseteq live
SourceUseAlive == audio = "auxuse" => cur \in live
NothingDangles == OwnedAlive /\ ListedAlive /\ SourceUseAlive

\* The list holds the plugins' pointers, each once, in the order of the plugins.
InOrder(list, pointers) ==
  /\ ToSet(list) = {pointers[q] : q \in Plugins} \ {0}
  /\ \A a, b \in DOMAIN list : \A q, r \in Plugins :
       a < b /\ list[a] = pointers[q] /\ list[b] = pointers[r] => q < r

\* Between two calls of the plugins the host's lists are what the plugins
\* believe: while it runs, at most one copy of OBS_mic_dsp is installed, with its
\* filter and its source or with neither; when it does not run, and once the
\* plugins are unloaded, nothing of them is left, on a list or in memory.
InstalledTogether ==
  main \in {"idle", "gone"} =>
    IF bRunning
    THEN /\ InOrder(audioFilters, micFilter)
         /\ InOrder(auxSources, auxSource)
         /\ \A q \in Plugins \ Gates : micFilter[q] = 0 <=> auxSource[q] = 0
         /\ Len(auxSources) <= 1
    ELSE live = {} /\ audioFilters = <<>> /\ auxSources = <<>>

\* The filter of plugin q came on the list after the audio thread's last look at the
\* length of the list in this call of AddAudioSegment.
AddedSince(q) ==
  \E k \in DOMAIN audioFilters : k >= i /\ audioFilters[k] = micFilter[q]

\* "Supplying processed microphone audio via aux audio source": the voice is not
\* heard twice. While the stream runs, a segment of the raw microphone gets into the
\* mix when a DMO source is on the list of sources in one case only: the loop over
\* the filters had ended when AddAudioFilter ran, and AddAudioSource overtook the
\* append (the microphone is queried without hAuxAudioMutex).
MicHeardOnce ==
  [][KeepSegment /\ segment /\ bRunning /\ ~wild =>
       \A q \in Plugins :
         auxSource[q] # 0 /\ Contains(auxSources, auxSource[q]) => AddedSince(q)]_vars

\* The audio thread calls a filter that is not alive only in the two windows that
\* the missing lock leaves open: it read an entry that AddAudioFilter had counted
\* and not written, or Stop has cleared bRunning and calls the plugins before it
\* waits for the audio thread. While the stream runs, deleting is safe.
WildOnlyInWindow ==
  [][~wild /\ wild' => cur = 0 \/ ~bRunning]_vars

\* Stop comes to its end: the main thread waits for hAuxAudioMutex and for the
\* audio thread, which at that time may wait for nothing.
StopEnds ==
  ~bRunning /\ main \notin {"idle", "gone"} ~> main \in {"idle", "gone"}
=============================================================================
