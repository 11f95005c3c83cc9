----------------------- MODULE PluginLifecycle_proofs -----------------------
(***************************************************************************)
(* Proofs about PluginLifecycle, for any number of plugins of either kind  *)
(* and any addresses: its invariants and action properties follow from one *)
(* inductive invariant, IInv.                                              *)
(***************************************************************************)
EXTENDS PluginLifecycle, SequenceTheorems, WellFoundedInduction, TLAPS

-----------------------------------------------------------------------------
(***************************************************************************)
(* The inductive invariant.                                                *)
(***************************************************************************)

\* The main thread is in a callback of plugin p.
InPlugin == main \in {"unhook", "freefilter", "unlist", "freesource",
                      "begin", "grow", "store", "list"}

\* What the host is doing: the stream runs when OnStartStream is called and not
\* when OnStopStream is called for another reason; the program ends only once; the
\* audio thread has ended when Stop has.
ControlInv ==
  /\ bRunning => main \in {"idle", "started"} \/ (InPlugin /\ job = "start")
  /\ main = "started" \/ (InPlugin /\ job = "start") => bRunning
  /\ main \in {"begin", "grow", "store", "list"} => job = "start"
  /\ exiting => ~bRunning /\ main \notin {"idle", "started"}
  /\ main \in {"shutdown", "gone"} \/ (InPlugin /\ job = "exit") => exiting
  /\ bShuttingDown => main = "gone" \/ (InPlugin /\ job = "exit")
  /\ \/ main \in {"free", "shutdown", "gone"}
     \/ main = "idle" /\ ~bRunning
     \/ InPlugin /\ job = "exit"
     => audio = "off"

\* Which plugins may have objects: those that OnStartStream has been called for, or
\* OnStopStream has not.
MayOwn(q) ==
  \/ main = "idle" /\ bRunning
  \/ InPlugin /\ job = "start" /\ (q < p \/ (q = p /\ main \in {"grow", "store", "list"}))
  \/ InPlugin /\ job # "start" /\ q >= p

\* What is alive is what the plugins own.
LiveInv ==
  \A x \in Objects : x \in live <=> \E q \in Plugins : x = micFilter[q] \/ x = auxSource[q]

\* An object is owned by one pointer.
DistinctInv ==
  \A q, r \in Plugins :
    /\ micFilter[q] # 0 /\ micFilter[q] = micFilter[r] => q = r
    /\ auxSource[q] # 0 /\ auxSource[q] = auxSource[r] => q = r
    /\ micFilter[q] # 0 => micFilter[q] # auxSource[r]

\* A NoiseGate has no source, and OBS_mic_dsp has its filter and its source or
\* neither, but for the moment in OnStopStream when only the filter is gone.
OwnInv ==
  /\ \A q \in Plugins :
       /\ micFilter[q] # 0 => mic
       /\ micFilter[q] # 0 \/ auxSource[q] # 0 => MayOwn(q)
       /\ q \in Gates => auxSource[q] = 0
       /\ q \notin Gates /\ ~(q = p /\ main \in {"unlist", "freesource"}) =>
            (micFilter[q] = 0 <=> auxSource[q] = 0)
  /\ main \in {"freefilter", "grow", "store", "list"} => micFilter[p] # 0
  /\ main \in {"unlist", "freesource"} => micFilter[p] = 0
  /\ main = "freesource" => auxSource[p] # 0
  /\ main = "list" => p \notin Gates

\* The plugin's filter, or its source, is on the host's list.
FilterListed(q) ==
  micFilter[q] # 0 /\ ~(q = p /\ main \in {"freefilter", "grow", "store"})
SourceListed(q) ==
  auxSource[q] # 0 /\ ~(q = p /\ main \in {"freesource", "grow", "store", "list"})

\* The entries of the filter list that are written.
Stored == 1 .. (IF main = "store" THEN Len(audioFilters) - 1 ELSE Len(audioFilters))

\* The lists hold the listed pointers, the filters in the order of the plugins, and
\* one source.
FiltersInv ==
  /\ main = "store" => audioFilters # <<>> /\ audioFilters[Len(audioFilters)] = 0
  /\ \A k \in Stored : \E q \in Plugins : FilterListed(q) /\ audioFilters[k] = micFilter[q]
  /\ \A q \in Plugins : FilterListed(q) => \E k \in Stored : audioFilters[k] = micFilter[q]
  /\ \A a, b \in Stored : \A q, r \in Plugins :
       a < b /\ audioFilters[a] = micFilter[q] /\ audioFilters[b] = micFilter[r] => q < r
SourcesInv ==
  /\ Len(auxSources) <= 1
  /\ \A k \in DOMAIN auxSources : \E q \in Plugins :
       SourceListed(q) /\ auxSources[k] = auxSource[q]
  /\ \A q \in Plugins :
       SourceListed(q) => \E k \in DOMAIN auxSources : auxSources[k] = auxSource[q]
  /\ main \in {"grow", "store", "list"} /\ p \notin Gates => auxSources = <<>>

\* An entry that does not let a segment through: the filter of an OBS_mic_dsp, or one
\* that is yet to be written.
Discards(k) == audioFilters[k] = 0 \/ \E q \in Plugins \ Gates : audioFilters[k] = micFilter[q]

\* The audio thread: the source it uses is on the list; while the stream runs, the
\* filter it has loaded is alive or null, and a segment that it still has has yet to
\* come to every filter that would discard it, or came too early for it.
AudioInv ==
  /\ audio = "auxuse" => cur \in ToSet(auxSources)
  /\ bRunning =>
       /\ audio = "process" => cur \in live \cup {0}
       /\ audio \in {"filter", "keep"} => i <= Len(audioFilters) + 1
       /\ audio \in {"load", "process"} => i <= Len(audioFilters)
       /\ ~wild => \A k \in DOMAIN audioFilters : Discards(k) =>
            /\ \/ audio \in {"filter", "keep"} /\ segment
               \/ audio \in {"load", "process"}
               => i <= k
            /\ audio = "process" /\ i = k => cur \in {0, audioFilters[k]}

IInv ==
  /\ TypeOK /\ ControlInv /\ LiveInv /\ DistinctInv /\ OwnInv
  /\ FiltersInv /\ SourcesInv /\ AudioInv
-----------------------------------------------------------------------------
(***************************************************************************)
(* Lemmas about the operators on lists.                                    *)
(***************************************************************************)

\* A set of natural numbers has a least element.
LEMMA SmallestExists ==
  ASSUME NEW T \in SUBSET Nat, T # {}
  PROVE  \E m \in T : \A n \in T : m <= n
<1> DEFINE R == OpToRel(<, Nat)
<1>1. IsWellFoundedOn(R, Nat)
  BY NatLessThanWellFounded, Zenon
<1>2. \A m, n \in Nat : m < n => <<m, n>> \in R
  BY Zenon DEF OpToRel
<1> HIDE DEF R
<1>3. PICK m \in T : \A n \in T : <<n, m>> \notin R
  BY <1>1, WFMin
<1>4. \A n \in T : ~(n < m)
  BY <1>2, <1>3
<1> QED
  BY <1>4

\* RemoveItem takes out one entry, and the others keep their order.
LEMMA RemoveFirstProperties ==
  ASSUME NEW S, NEW s \in Seq(S), NEW e, \E k \in 1 .. Len(s) : s[k] = e
  PROVE  \E k \in 1 .. Len(s) :
           /\ s[k] = e
           /\ RemoveFirst(s, e) \in Seq(S)
           /\ Len(RemoveFirst(s, e)) = Len(s) - 1
           /\ \A j \in 1 .. Len(s) - 1 :
                RemoveFirst(s, e)[j] = IF j < k THEN s[j] ELSE s[j + 1]
<1> DEFINE I == {i0 \in 1 .. Len(s) : s[i0] = e}
<1>1. Len(s) \in Nat
  BY LenProperties
<1>2. I \in SUBSET Nat /\ I # {}
  BY <1>1
<1>3. Min(I) \in I
  BY <1>2, SmallestExists DEF Min
<1>4. RemoveFirst(s, e) = RemoveAt(s, Min(I))
  BY DEF RemoveFirst, SelectInSeq
<1> HIDE DEF I
<1>5. PICK k \in 1 .. Len(s) : s[k] = e /\ RemoveFirst(s, e) = RemoveAt(s, k)
  BY <1>3, <1>4 DEF I
<1> DEFINE a == SubSeq(s, 1, k - 1)
           b == SubSeq(s, k + 1, Len(s))
<1>6. \A j \in 1 .. Len(s) : s[j] \in S
  BY ElementOfSeq
<1>7. a \in Seq(S) /\ Len(a) = k - 1 /\ \A j \in 1 .. k - 1 : a[j] = s[j]
  BY <1>1, <1>6, SubSeqProperties
<1>8. b \in Seq(S) /\ Len(b) = Len(s) - k /\ \A j \in 1 .. Len(s) - k : b[j] = s[k + j]
  BY <1>1, <1>6, SubSeqProperties
<1> HIDE DEF a, b
<1>9. /\ a \o b \in Seq(S)
      /\ Len(a \o b) = Len(a) + Len(b)
      /\ \A j \in 1 .. Len(a) + Len(b) :
           (a \o b)[j] = IF j <= Len(a) THEN a[j] ELSE b[j - Len(a)]
  BY <1>7, <1>8, ConcatProperties
<1>10. RemoveFirst(s, e) = a \o b
  BY <1>5 DEF RemoveAt, a, b
<1>11. \A j \in 1 .. Len(s) - 1 : (a \o b)[j] = IF j < k THEN s[j] ELSE s[j + 1]
  BY <1>1, <1>7, <1>8, <1>9
<1>12. RemoveFirst(s, e) \in Seq(S) /\ Len(RemoveFirst(s, e)) = Len(s) - 1
  <2>1. Len(a) + Len(b) = Len(s) - 1
    BY <1>1, <1>7, <1>8
  <2> QED
    BY <1>9, <1>10, <2>1
<1>13. \A j \in 1 .. Len(s) - 1 :
         RemoveFirst(s, e)[j] = IF j < k THEN s[j] ELSE s[j + 1]
  BY <1>10, <1>11
<1> QED
  BY <1>5, <1>12, <1>13
-----------------------------------------------------------------------------
(***************************************************************************)
(* Lemmas about the steps of the main thread.                              *)
(***************************************************************************)

\* The next plugin is called, or the host goes on.
LEMMA NextPluginProperties ==
  ASSUME p \in Plugins, job \in {"start", "stop", "exit"}, NextPlugin
  PROVE  /\ job' = job /\ p' \in Plugins
         /\ \/ /\ p' = p + 1
               /\ (main' = "begin" /\ job = "start") \/ main' = "unhook"
            \/ /\ p' = 1 /\ p = NumPlugins
               /\ \/ main' = "idle" /\ job = "start"
                  \/ main' = "join" /\ job = "stop"
                  \/ main' = "gone" /\ job = "exit"
<1>1. CASE p < NumPlugins
  BY <1>1, PluginsAssumption DEF NextPlugin, FirstStep, Plugins
<1>2. CASE ~(p < NumPlugins)
  <2>1. p = NumPlugins /\ 1 \in Plugins
    BY <1>2, PluginsAssumption DEF Plugins
  <2> QED
    BY <1>2, <2>1 DEF NextPlugin, AfterPlugins
<1> QED
  BY <1>1, <1>2

\* The first plugin is called.
LEMMA FirstStepProperties ==
  /\ 1 \in Plugins
  /\ \A j \in {"start", "stop", "exit"} :
       FirstStep(j, 1) = "unhook" \/ (FirstStep(j, 1) = "begin" /\ j = "start")
<1>1. 1 \in Plugins
  BY PluginsAssumption DEF Plugins
<1>2. \A j : FirstStep(j, 1) = "unhook" \/ (FirstStep(j, 1) = "begin" /\ j = "start")
  BY Zenon DEF FirstStep
<1> QED
  BY <1>1, <1>2

\* While the stream runs, OnStopStream finds nothing to delete.
LEMMA NothingToStop ==
  ASSUME TypeOK, ControlInv, OwnInv, bRunning,
         main \in {"unhook", "freefilter", "unlist", "freesource"}
  PROVE  main \in {"unhook", "unlist"} /\ micFilter[p] = 0 /\ auxSource[p] = 0
<1>1. job = "start" /\ InPlugin /\ p \in Plugins
  BY DEF TypeOK, ControlInv, InPlugin
<1>2. ~MayOwn(p)
  BY <1>1, PluginsAssumption DEF MayOwn, InPlugin, Plugins
<1> QED
  BY <1>1, <1>2 DEF OwnInv

\* At first nothing is installed and nobody runs.
LEMMA InitIInv == Init => IInv
<1> SUFFICES ASSUME Init PROVE IInv
  OBVIOUS
<1>1. <<>> \in Seq(Objects \cup {0}) /\ <<>> \in Seq(Objects) /\ Len(<<>>) = 0
  BY EmptySeq
<1>2. /\ bRunning \in BOOLEAN /\ bStreaming \in BOOLEAN /\ bShuttingDown \in BOOLEAN
      /\ exiting \in BOOLEAN /\ mic \in BOOLEAN /\ segment \in BOOLEAN /\ wild \in BOOLEAN
  BY DEF Init
<1>3. TypeOK
  BY <1>1, <1>2, FirstStepProperties DEF Init, TypeOK, MainPC, AudioPC
<1>4. ControlInv
  BY DEF Init, ControlInv, InPlugin
<1>5. LiveInv /\ DistinctInv /\ OwnInv
  BY PluginsAssumption DEF Init, LiveInv, DistinctInv, OwnInv, MayOwn, InPlugin
<1>6. FiltersInv
  BY <1>1 DEF Init, FiltersInv, FilterListed, Stored
<1>7. SourcesInv
  BY <1>1 DEF Init, SourcesInv, SourceListed
<1>8. AudioInv
  BY DEF Init, AudioInv
<1> QED
  BY <1>3, <1>4, <1>5, <1>6, <1>7, <1>8 DEF IInv

-----------------------------------------------------------------------------
\* Start creates the audio thread; the plugins have not been called yet.
LEMMA StartIInv == IInv /\ Start => IInv'
<1> SUFFICES ASSUME IInv, Start PROVE IInv'
  OBVIOUS
<1> USE DEF IInv, Start, hostVars, listVars, pluginVars, mainVars, audioVars
<1>1. TypeOK'
  BY DEF TypeOK, MainPC, AudioPC
<1>2. ControlInv'
  BY DEF TypeOK, ControlInv, InPlugin, MainPC
<1>3. LiveInv'
  BY DEF LiveInv
<1>4. DistinctInv'
  BY DEF DistinctInv
<1>5. OwnInv'
  BY DEF TypeOK, ControlInv, OwnInv, MayOwn, InPlugin, MainPC
<1>6. FiltersInv'
  BY DEF TypeOK, FiltersInv, FilterListed, Stored
<1>7. SourcesInv'
  BY DEF TypeOK, SourcesInv, SourceListed
<1>8. AudioInv'
  BY DEF TypeOK, ControlInv, AudioInv, Discards, InPlugin
<1> QED
  BY <1>1, <1>2, <1>3, <1>4, <1>5, <1>6, <1>7, <1>8

\* The first plugin's OnStartStream is called; none has an object.
LEMMA ReportStartStreamTriggerIInv == IInv /\ ReportStartStreamTrigger => IInv'
<1> SUFFICES ASSUME IInv, ReportStartStreamTrigger PROVE IInv'
  OBVIOUS
<1> USE DEF IInv, ReportStartStreamTrigger, hostVars, listVars, pluginVars, mainVars, audioVars
<1>1. TypeOK'
  <2>1. /\ p' \in Plugins /\ job' \in {"start", "stop", "exit"} /\ main' \in MainPC
        /\ bRunning' \in BOOLEAN /\ bStreaming' \in BOOLEAN /\ bShuttingDown' \in BOOLEAN
        /\ exiting' \in BOOLEAN
    BY FirstStepProperties DEF TypeOK, MainPC
  <2> QED
    BY <2>1 DEF TypeOK, AudioPC
<1>2. ControlInv'
  BY FirstStepProperties DEF TypeOK, ControlInv, InPlugin, MainPC
<1>3. LiveInv'
  BY FirstStepProperties DEF LiveInv
<1>4. DistinctInv'
  BY FirstStepProperties DEF DistinctInv
<1>5. OwnInv'
  BY FirstStepProperties DEF TypeOK, ControlInv, OwnInv, MayOwn, InPlugin, MainPC
<1>6. FiltersInv'
  BY FirstStepProperties DEF TypeOK, FiltersInv, FilterListed, Stored
<1>7. SourcesInv'
  BY FirstStepProperties DEF TypeOK, SourcesInv, SourceListed
<1>8. AudioInv'
  BY FirstStepProperties DEF TypeOK, ControlInv, AudioInv, Discards, InPlugin
<1> QED
  BY <1>1, <1>2, <1>3, <1>4, <1>5, <1>6, <1>7, <1>8

\* Start gives up: the plugins are stopped, although none was started.
LEMMA StartFailsIInv == IInv /\ StartFails => IInv'
<1> SUFFICES ASSUME IInv, StartFails PROVE IInv'
  OBVIOUS
<1> USE DEF IInv, StartFails, hostVars, listVars, pluginVars, mainVars, audioVars, StopBody
<1>1. TypeOK'
  <2>1. /\ p' \in Plugins /\ job' \in {"start", "stop", "exit"} /\ main' \in MainPC
        /\ bRunning' \in BOOLEAN /\ bStreaming' \in BOOLEAN /\ bShuttingDown' \in BOOLEAN
        /\ exiting' \in BOOLEAN
    BY FirstStepProperties DEF TypeOK, MainPC
  <2> QED
    BY <2>1 DEF TypeOK, AudioPC
<1>2. ControlInv'
  BY FirstStepProperties DEF TypeOK, ControlInv, InPlugin, MainPC
<1>3. LiveInv'
  BY FirstStepProperties DEF LiveInv
<1>4. DistinctInv'
  BY FirstStepProperties DEF DistinctInv
<1>5. OwnInv'
  BY FirstStepProperties DEF TypeOK, ControlInv, OwnInv, MayOwn, InPlugin, MainPC
<1>6. FiltersInv'
  BY FirstStepProperties DEF TypeOK, FiltersInv, FilterListed, Stored
<1>7. SourcesInv'
  BY FirstStepProperties DEF TypeOK, SourcesInv, SourceListed
<1>8. AudioInv'
  BY FirstStepProperties DEF TypeOK, ControlInv, AudioInv, Discards, InPlugin
<1> QED
  BY <1>1, <1>2, <1>3, <1>4, <1>5, <1>6, <1>7, <1>8

\* The first plugin's OnStopStream is called; every plugin may have its objects.
LEMMA StopIInv == IInv /\ Stop => IInv'
<1> SUFFICES ASSUME IInv, Stop PROVE IInv'
  OBVIOUS
<1> USE DEF IInv, Stop, hostVars, listVars, pluginVars, mainVars, audioVars, StopBody
<1>1. TypeOK'
  <2>1. /\ p' \in Plugins /\ job' \in {"start", "stop", "exit"} /\ main' \in MainPC
        /\ bRunning' \in BOOLEAN /\ bStreaming' \in BOOLEAN /\ bShuttingDown' \in BOOLEAN
        /\ exiting' \in BOOLEAN
    BY FirstStepProperties DEF TypeOK, MainPC
  <2> QED
    BY <2>1 DEF TypeOK, AudioPC
<1>2. ControlInv'
  BY FirstStepProperties DEF TypeOK, ControlInv, InPlugin, MainPC
<1>3. LiveInv'
  BY FirstStepProperties DEF LiveInv
<1>4. DistinctInv'
  BY FirstStepProperties DEF DistinctInv
<1>5. OwnInv'
  BY FirstStepProperties DEF TypeOK, ControlInv, OwnInv, MayOwn, InPlugin, MainPC
<1>6. FiltersInv'
  BY FirstStepProperties DEF TypeOK, FiltersInv, FilterListed, Stored
<1>7. SourcesInv'
  BY FirstStepProperties DEF TypeOK, SourcesInv, SourceListed
<1>8. AudioInv'
  BY FirstStepProperties DEF TypeOK, ControlInv, AudioInv, Discards, InPlugin
<1> QED
  BY <1>1, <1>2, <1>3, <1>4, <1>5, <1>6, <1>7, <1>8

\* Every plugin has been stopped, and the audio thread has ended.
LEMMA JoinSoundThreadIInv == IInv /\ JoinSoundThread => IInv'
<1> SUFFICES ASSUME IInv, JoinSoundThread PROVE IInv'
  OBVIOUS
<1> USE DEF IInv, JoinSoundThread, hostVars, listVars, pluginVars, mainVars, audioVars
<1>1. TypeOK'
  BY DEF TypeOK, MainPC, AudioPC
<1>2. ControlInv'
  BY DEF TypeOK, ControlInv, InPlugin, MainPC
<1>3. LiveInv'
  BY DEF LiveInv
<1>4. DistinctInv'
  BY DEF DistinctInv
<1>5. OwnInv'
  BY DEF TypeOK, ControlInv, OwnInv, MayOwn, InPlugin, MainPC
<1>6. FiltersInv'
  BY DEF TypeOK, FiltersInv, FilterListed, Stored
<1>7. SourcesInv'
  BY DEF TypeOK, SourcesInv, SourceListed
<1>8. AudioInv'
  BY DEF TypeOK, ControlInv, AudioInv, Discards, InPlugin
<1> QED
  BY <1>1, <1>2, <1>3, <1>4, <1>5, <1>6, <1>7, <1>8

\* Stop frees the microphone: the plugins have left nothing on its lists.
LEMMA FreeAudioIInv == IInv /\ FreeAudio => IInv'
<1> SUFFICES ASSUME IInv, FreeAudio PROVE IInv'
  OBVIOUS
<1> USE DEF IInv, FreeAudio, hostVars, listVars, pluginVars, mainVars, audioVars
<1>11. \A q \in Plugins : micFilter[q] = 0 /\ auxSource[q] = 0
  BY DEF OwnInv, MayOwn, InPlugin
<1>12. <<>> \in Seq(Objects \cup {0}) /\ <<>> \in Seq(Objects) /\ Len(<<>>) = 0
  BY EmptySeq
<1>13. live = {} /\ live' = {}
  BY <1>11, PluginsAssumption DEF LiveInv, TypeOK
<1>1. TypeOK'
  <2>1. /\ mic' \in BOOLEAN /\ main' \in MainPC /\ live' \subseteq Objects
        /\ audioFilters' \in Seq(Objects \cup {0}) /\ auxSources' \in Seq(Objects)
    BY <1>12 DEF TypeOK, MainPC
  <2> QED
    BY <2>1 DEF TypeOK, AudioPC
<1>2. ControlInv'
  BY <1>11, <1>12, <1>13 DEF TypeOK, ControlInv, InPlugin, MainPC
<1>3. LiveInv'
  BY <1>11, <1>13, PluginsAssumption DEF LiveInv
<1>4. DistinctInv'
  BY <1>11, <1>12, <1>13 DEF DistinctInv
<1>5. OwnInv'
  BY <1>11, <1>12, <1>13 DEF TypeOK, ControlInv, OwnInv, MayOwn, InPlugin, MainPC
<1>6. FiltersInv'
  BY <1>11, <1>12, <1>13 DEF TypeOK, FiltersInv, FilterListed, Stored
<1>7. SourcesInv'
  BY <1>11, <1>12, <1>13 DEF TypeOK, SourcesInv, SourceListed
<1>8. AudioInv'
  BY <1>11, <1>12, <1>13 DEF TypeOK, ControlInv, AudioInv, Discards, InPlugin
<1> QED
  BY <1>1, <1>2, <1>3, <1>4, <1>5, <1>6, <1>7, <1>8

\* The end of a flush touches no plugin.
LEMMA StreamFlushedIInv == IInv /\ StreamFlushed => IInv'
<1> SUFFICES ASSUME IInv, StreamFlushed PROVE IInv'
  OBVIOUS
<1> USE DEF IInv, StreamFlushed, hostVars, listVars, pluginVars, mainVars, audioVars
<1>1. TypeOK'
  <2>1. bStreaming' \in BOOLEAN
    OBVIOUS
  <2> QED
    BY <2>1 DEF TypeOK
<1>2. ControlInv'
  BY DEF TypeOK, ControlInv, InPlugin, MainPC
<1>3. LiveInv'
  BY DEF LiveInv
<1>4. DistinctInv'
  BY DEF DistinctInv
<1>5. OwnInv'
  BY DEF TypeOK, ControlInv, OwnInv, MayOwn, InPlugin, MainPC
<1>6. FiltersInv'
  BY DEF TypeOK, FiltersInv, FilterListed, Stored
<1>7. SourcesInv'
  BY DEF TypeOK, SourcesInv, SourceListed
<1>8. AudioInv'
  BY DEF TypeOK, ControlInv, AudioInv, Discards, InPlugin
<1> QED
  BY <1>1, <1>2, <1>3, <1>4, <1>5, <1>6, <1>7, <1>8

\* ~OBS stops what runs.
LEMMA DestroyIInv == IInv /\ Destroy => IInv'
<1> SUFFICES ASSUME IInv, Destroy PROVE IInv'
  OBVIOUS
<1> USE DEF IInv, Destroy, hostVars, listVars, pluginVars, mainVars, audioVars, StopBody
<1>1. TypeOK'
  <2>1. /\ p' \in Plugins /\ job' \in {"start", "stop", "exit"} /\ main' \in MainPC
        /\ bRunning' \in BOOLEAN /\ bStreaming' \in BOOLEAN /\ bShuttingDown' \in BOOLEAN
        /\ exiting' \in BOOLEAN
    BY FirstStepProperties DEF TypeOK, MainPC
  <2> QED
    BY <2>1 DEF TypeOK, AudioPC
<1>2. ControlInv'
  BY FirstStepProperties DEF TypeOK, ControlInv, InPlugin, MainPC
<1>3. LiveInv'
  BY FirstStepProperties DEF LiveInv
<1>4. DistinctInv'
  BY FirstStepProperties DEF DistinctInv
<1>5. OwnInv'
  BY FirstStepProperties DEF TypeOK, ControlInv, OwnInv, MayOwn, InPlugin, MainPC
<1>6. FiltersInv'
  BY FirstStepProperties DEF TypeOK, FiltersInv, FilterListed, Stored
<1>7. SourcesInv'
  BY FirstStepProperties DEF TypeOK, SourcesInv, SourceListed
<1>8. AudioInv'
  BY FirstStepProperties DEF TypeOK, ControlInv, AudioInv, Discards, InPlugin
<1> QED
  BY <1>1, <1>2, <1>3, <1>4, <1>5, <1>6, <1>7, <1>8

\* The plugins are unloaded when Stop has already stopped them.
LEMMA UnloadPluginsIInv == IInv /\ UnloadPlugins => IInv'
<1> SUFFICES ASSUME IInv, UnloadPlugins PROVE IInv'
  OBVIOUS
<1> USE DEF IInv, UnloadPlugins, hostVars, listVars, pluginVars, mainVars, audioVars
<1>1. TypeOK'
  <2>1. /\ p' \in Plugins /\ job' \in {"start", "stop", "exit"} /\ main' \in MainPC
        /\ bRunning' \in BOOLEAN /\ bStreaming' \in BOOLEAN /\ bShuttingDown' \in BOOLEAN
        /\ exiting' \in BOOLEAN
    BY FirstStepProperties DEF TypeOK, MainPC
  <2> QED
    BY <2>1 DEF TypeOK, AudioPC
<1>2. ControlInv'
  BY FirstStepProperties DEF TypeOK, ControlInv, InPlugin, MainPC
<1>3. LiveInv'
  BY FirstStepProperties DEF LiveInv
<1>4. DistinctInv'
  BY FirstStepProperties DEF DistinctInv
<1>5. OwnInv'
  BY FirstStepProperties DEF TypeOK, ControlInv, OwnInv, MayOwn, InPlugin, MainPC
<1>6. FiltersInv'
  BY FirstStepProperties DEF TypeOK, FiltersInv, FilterListed, Stored
<1>7. SourcesInv'
  BY FirstStepProperties DEF TypeOK, SourcesInv, SourceListed
<1>8. AudioInv'
  BY FirstStepProperties DEF TypeOK, ControlInv, AudioInv, Discards, InPlugin
<1> QED
  BY <1>1, <1>2, <1>3, <1>4, <1>5, <1>6, <1>7, <1>8

\* The filter of the plugin is taken out of the microphone's list.
LEMMA RemovedFilter ==
  ASSUME IInv, main = "unhook", RemoveAudioFilter, micFilter[p] # 0
  PROVE  \E k \in 1 .. Len(audioFilters) :
           /\ audioFilters[k] = micFilter[p]
           /\ audioFilters' \in Seq(Objects \cup {0})
           /\ Len(audioFilters') = Len(audioFilters) - 1
           /\ \A j \in 1 .. Len(audioFilters) - 1 :
                audioFilters'[j] = IF j < k THEN audioFilters[j] ELSE audioFilters[j + 1]
<1>1. p \in Plugins /\ audioFilters \in Seq(Objects \cup {0})
  BY DEF IInv, TypeOK
<1>2. mic /\ FilterListed(p)
  BY <1>1 DEF IInv, OwnInv, FilterListed
<1>3. \E k \in 1 .. Len(audioFilters) : audioFilters[k] = micFilter[p]
  BY <1>1, <1>2 DEF IInv, FiltersInv, Stored
<1>4. audioFilters' = RemoveFirst(audioFilters, micFilter[p])
  BY <1>2 DEF RemoveAudioFilter
<1>5. PICK k \in 1 .. Len(audioFilters) :
        /\ audioFilters[k] = micFilter[p]
        /\ RemoveFirst(audioFilters, micFilter[p]) \in Seq(Objects \cup {0})
        /\ Len(RemoveFirst(audioFilters, micFilter[p])) = Len(audioFilters) - 1
        /\ \A j \in 1 .. Len(audioFilters) - 1 :
             RemoveFirst(audioFilters, micFilter[p])[j] =
               IF j < k THEN audioFilters[j] ELSE audioFilters[j + 1]
  <2> DEFINE S == Objects \cup {0}
             s == audioFilters
             e == micFilter[p]
  <2>1. s \in Seq(S) /\ \E k \in 1 .. Len(s) : s[k] = e
    BY <1>1, <1>3
  <2> HIDE DEF S, s, e
  <2>2. PICK k \in 1 .. Len(s) :
          /\ s[k] = e
          /\ RemoveFirst(s, e) \in Seq(S)
          /\ Len(RemoveFirst(s, e)) = Len(s) - 1
          /\ \A j \in 1 .. Len(s) - 1 :
               RemoveFirst(s, e)[j] = IF j < k THEN s[j] ELSE s[j + 1]
    BY <2>1, RemoveFirstProperties
  <2> QED
    BY <2>2 DEF S, s, e
<1> QED
  BY <1>4, <1>5

\* The other filters stay on the list, in their order.
LEMMA RemoveAudioFilterIInv == IInv /\ RemoveAudioFilter => IInv'
<1> SUFFICES ASSUME IInv, RemoveAudioFilter PROVE IInv'
  OBVIOUS
<1> USE DEF IInv, RemoveAudioFilter, hostVars, listVars, pluginVars, mainVars, audioVars
<1>1. TypeOK'
  <2>1. audioFilters' \in Seq(Objects \cup {0})
    <3>1. CASE micFilter[p] = 0
      BY <3>1 DEF TypeOK
    <3>2. CASE micFilter[p] # 0
      BY <3>2, RemovedFilter
    <3> QED
      BY <3>1, <3>2
  <2> QED
    BY <2>1 DEF TypeOK, MainPC
<1>2. ControlInv'
  BY DEF TypeOK, ControlInv, InPlugin, MainPC
<1>3. LiveInv'
  BY DEF LiveInv
<1>4. DistinctInv'
  BY DEF DistinctInv
<1>5. OwnInv'
  BY DEF TypeOK, ControlInv, OwnInv, MayOwn, InPlugin, MainPC
<1>6. FiltersInv'
  <2>1. CASE micFilter[p] = 0
    BY <2>1 DEF TypeOK, FiltersInv, FilterListed, Stored
  <2>2. CASE micFilter[p] # 0
    <3>1. main' = "freefilter" /\ p' = p /\ micFilter' = micFilter
      BY <2>2
    <3>2. PICK k \in 1 .. Len(audioFilters) :
            /\ audioFilters[k] = micFilter[p]
            /\ audioFilters' \in Seq(Objects \cup {0})
            /\ Len(audioFilters') = Len(audioFilters) - 1
            /\ \A j \in 1 .. Len(audioFilters) - 1 :
                 audioFilters'[j] = IF j < k THEN audioFilters[j] ELSE audioFilters[j + 1]
      BY <2>2, RemovedFilter
    <3>3. Len(audioFilters) \in Nat /\ Stored = 1 .. Len(audioFilters)
      BY LenProperties DEF Stored, TypeOK
    <3>4. Stored' = 1 .. Len(audioFilters) - 1
      BY <3>1, <3>2 DEF Stored
    <3>5. \A q \in Plugins : FilterListed(q)' <=> FilterListed(q) /\ q # p
      BY <3>1 DEF FilterListed
    <3>6. \A j \in Stored : j # k => audioFilters[j] # micFilter[p]
      <4> SUFFICES ASSUME NEW j \in Stored, j # k, audioFilters[j] = micFilter[p]
                   PROVE  FALSE
        OBVIOUS
      <4>1. p \in Plugins /\ p \in Nat
        BY PluginsAssumption DEF TypeOK, Plugins
      <4>2. j < k \/ k < j
        BY <3>2, <3>3
      <4> QED
        BY <3>2, <3>3, <4>1, <4>2 DEF FiltersInv
    <3>7. ASSUME NEW j \in Stored'
          PROVE  \E q \in Plugins : FilterListed(q)' /\ audioFilters'[j] = micFilter'[q]
      <4>1. \E n \in Stored : n # k /\ audioFilters'[j] = audioFilters[n]
        BY <3>2, <3>3, <3>4
      <4> QED
        BY <4>1, <3>1, <3>5, <3>6 DEF FiltersInv
    <3>8. ASSUME NEW q \in Plugins, FilterListed(q)'
          PROVE  \E j \in Stored' : audioFilters'[j] = micFilter'[q]
      <4>1. PICK n \in Stored : audioFilters[n] = micFilter[q]
        BY <3>5, <3>8 DEF FiltersInv
      <4>2. n # k
        BY <3>2, <3>5, <3>8, <4>1, <2>2 DEF DistinctInv, TypeOK
      <4>3. CASE n < k
        BY <3>1, <3>2, <3>3, <3>4, <4>1, <4>3
      <4>4. CASE n > k
        <5>1. n - 1 \in Stored' /\ audioFilters'[n - 1] = audioFilters[n]
          BY <3>2, <3>3, <3>4, <4>4
        <5> QED
          BY <3>1, <4>1, <5>1
      <4> QED
        BY <3>3, <4>2, <4>3, <4>4
    <3>9. ASSUME NEW a \in Stored', NEW b \in Stored', NEW q \in Plugins, NEW r \in Plugins,
                 a < b, audioFilters'[a] = micFilter'[q], audioFilters'[b] = micFilter'[r]
          PROVE  q < r
      <4>1. \E m, n \in Stored : m < n /\ audioFilters[m] = micFilter[q]
                                /\ audioFilters[n] = micFilter[r]
        <5> DEFINE At(j) == IF j < k THEN j ELSE j + 1
        <5>1. At(a) \in Stored /\ At(b) \in Stored /\ At(a) < At(b)
          BY <3>2, <3>3, <3>4, <3>9
        <5>2. audioFilters[At(a)] = micFilter[q] /\ audioFilters[At(b)] = micFilter[r]
          BY <3>1, <3>2, <3>4, <3>9
        <5> HIDE DEF At
        <5> QED
          BY <5>1, <5>2
      <4> QED
        BY <4>1 DEF FiltersInv
    <3> QED
      BY <3>1, <3>7, <3>8, <3>9 DEF FiltersInv
  <2> QED
    BY <2>1, <2>2
<1>7. SourcesInv'
  BY DEF TypeOK, SourcesInv, SourceListed
<1>8. AudioInv'
  <2>1. CASE bRunning
    <3>1. micFilter[p] = 0
      BY <2>1, NothingToStop
    <3> QED
      BY <3>1 DEF TypeOK, AudioInv, Discards
  <2>2. CASE ~bRunning
    BY <2>2 DEF TypeOK, AudioInv
  <2> QED
    BY <2>1, <2>2
<1> QED
  BY <1>1, <1>2, <1>3, <1>4, <1>5, <1>6, <1>7, <1>8

\* The filter is no longer on the list when it is deleted.
LEMMA DeleteFilterIInv == IInv /\ DeleteFilter => IInv'
<1> SUFFICES ASSUME IInv, DeleteFilter PROVE IInv'
  OBVIOUS
<1> USE DEF IInv, DeleteFilter, hostVars, listVars, pluginVars, mainVars, audioVars
<1>11. \A q \in Plugins : micFilter'[q] = IF q = p THEN 0 ELSE micFilter[q]
  BY DEF TypeOK
<1>12. ~bRunning
  BY NothingToStop
<1>1. TypeOK'
  BY <1>11, <1>12 DEF TypeOK, MainPC, AudioPC
<1>2. ControlInv'
  BY <1>11, <1>12 DEF TypeOK, ControlInv, InPlugin, MainPC
<1>3. LiveInv'
  <2>1. p \in Plugins /\ auxSource' = auxSource /\ live' = live \ {micFilter[p]} /\ 0 \notin Objects
    BY PluginsAssumption DEF TypeOK
  <2>2. ASSUME NEW x \in Objects
        PROVE  x \in live' <=> \E q \in Plugins : x = micFilter'[q] \/ x = auxSource'[q]
    <3>1. ASSUME NEW q \in Plugins
          PROVE  (x = micFilter'[q] \/ x = auxSource'[q]) <=>
                   x # micFilter[p] /\ (x = micFilter[q] \/ x = auxSource[q])
      BY <1>11, <2>1 DEF DistinctInv
    <3> QED
      BY <2>1, <3>1 DEF LiveInv
  <2> QED
    BY <2>2 DEF LiveInv
<1>4. DistinctInv'
  BY <1>11, <1>12 DEF DistinctInv
<1>5. OwnInv'
  BY <1>11, <1>12 DEF TypeOK, ControlInv, OwnInv, MayOwn, InPlugin, MainPC
<1>6. FiltersInv'
  <2>1. p \in Plugins /\ p' = p /\ main' = "unlist" /\ audioFilters' = audioFilters
        /\ Stored' = Stored
    BY DEF TypeOK, Stored
  <2>2. \A q \in Plugins : FilterListed(q)' <=> FilterListed(q)
    BY <1>11, <2>1 DEF FilterListed
  <2>3. \A q \in Plugins : FilterListed(q) => micFilter'[q] = micFilter[q] /\ micFilter[q] # 0
    BY <1>11, <2>1 DEF FilterListed
  <2>4. ASSUME NEW a \in Stored, NEW q \in Plugins, audioFilters[a] = micFilter'[q]
        PROVE  audioFilters[a] = micFilter[q]
    <3>1. audioFilters[a] # 0
      BY DEF FiltersInv, FilterListed
    <3> QED
      BY <3>1, <2>4, <1>11
  <2> QED
    BY <2>1, <2>2, <2>3, <2>4 DEF FiltersInv
<1>7. SourcesInv'
  BY <1>11, <1>12 DEF TypeOK, SourcesInv, SourceListed
<1>8. AudioInv'
  BY <1>12 DEF TypeOK, AudioInv
<1> QED
  BY <1>1, <1>2, <1>3, <1>4, <1>5, <1>6, <1>7, <1>8

\* The source of the plugin was the only one on the host's list.
LEMMA RemovedSource ==
  ASSUME IInv, RemoveAudioSource
  PROVE  /\ auxSources' \in Seq(Objects) /\ auxSources' = <<>>
         /\ \A q \in Plugins : SourceListed(q) => q = p
<1>1. p \in Plugins /\ auxSources \in Seq(Objects) /\ Len(auxSources) \in Nat
      /\ DOMAIN auxSources = 1 .. Len(auxSources)
  BY LenProperties DEF IInv, TypeOK
<1>2. SourceListed(p)
  BY <1>1 DEF RemoveAudioSource, SourceListed
<1>3. \E k \in 1 .. Len(auxSources) : auxSources[k] = auxSource[p]
  BY <1>1, <1>2 DEF IInv, SourcesInv
<1>4. Len(auxSources) = 1 /\ auxSources[1] = auxSource[p]
  BY <1>1, <1>3 DEF IInv, SourcesInv
<1>5. auxSources' \in Seq(Objects) /\ Len(auxSources') = 0
  BY <1>1, <1>3, <1>4, RemoveFirstProperties DEF RemoveAudioSource
<1>6. \A q \in Plugins : SourceListed(q) => q = p
  BY <1>1, <1>2, <1>4 DEF IInv, SourcesInv, DistinctInv, SourceListed
<1> QED
  BY <1>5, <1>6, EmptySeq

\* The list of sources is empty, and the audio thread is not using one.
LEMMA RemoveAudioSourceIInv == IInv /\ RemoveAudioSource => IInv'
<1> SUFFICES ASSUME IInv, RemoveAudioSource PROVE IInv'
  OBVIOUS
<1> USE DEF IInv, RemoveAudioSource, hostVars, listVars, pluginVars, mainVars, audioVars
<1>1. TypeOK'
  <2>1. auxSources' \in Seq(Objects)
    BY RemovedSource
  <2> QED
    BY <2>1 DEF TypeOK, MainPC
<1>2. ControlInv'
  BY DEF TypeOK, ControlInv, InPlugin, MainPC
<1>3. LiveInv'
  BY DEF LiveInv
<1>4. DistinctInv'
  BY DEF DistinctInv
<1>5. OwnInv'
  BY DEF TypeOK, ControlInv, OwnInv, MayOwn, InPlugin, MainPC
<1>6. FiltersInv'
  BY DEF TypeOK, FiltersInv, FilterListed, Stored
<1>7. SourcesInv'
  <2>1. auxSources' = <<>> /\ \A q \in Plugins : SourceListed(q) => q = p
    BY RemovedSource
  <2>2. main' = "freesource" /\ p' = p /\ auxSource' = auxSource
    OBVIOUS
  <2>3. \A q \in Plugins : ~SourceListed(q)'
    BY <2>1, <2>2 DEF SourceListed
  <2> QED
    BY <2>1, <2>2, <2>3 DEF SourcesInv
<1>8. AudioInv'
  <2>1. ~bRunning
    BY NothingToStop
  <2> QED
    BY <2>1 DEF AuxMutexTaken, AudioInv
<1> QED
  BY <1>1, <1>2, <1>3, <1>4, <1>5, <1>6, <1>7, <1>8

\* The plugin has nothing, and the next one is called.
LEMMA NoSourceIInv == IInv /\ NoSource => IInv'
<1> SUFFICES ASSUME IInv, NoSource PROVE IInv'
  OBVIOUS
<1> USE DEF IInv, NoSource, hostVars, listVars, pluginVars, mainVars, audioVars, StopReturns
<1>1. TypeOK'
  BY NextPluginProperties DEF TypeOK, MainPC, AudioPC
<1>2. ControlInv'
  BY NextPluginProperties DEF TypeOK, ControlInv, InPlugin, MainPC
<1>3. LiveInv'
  BY NextPluginProperties DEF LiveInv
<1>4. DistinctInv'
  BY NextPluginProperties DEF DistinctInv
<1>5. OwnInv'
  <2>1. p \in Plugins /\ p' \in Plugins /\ NumPlugins \in Nat
    BY NextPluginProperties, PluginsAssumption DEF TypeOK
  <2>2. ASSUME NEW q \in Plugins, micFilter'[q] # 0 \/ auxSource'[q] # 0
        PROVE  MayOwn(q)'
    BY <2>1, <2>2, NextPluginProperties, PluginsAssumption
       DEF TypeOK, OwnInv, MayOwn, InPlugin, Plugins, ControlInv
  <2> QED
    BY <2>1, <2>2, NextPluginProperties DEF TypeOK, OwnInv
<1>6. FiltersInv'
  BY NextPluginProperties DEF TypeOK, FiltersInv, FilterListed, Stored
<1>7. SourcesInv'
  BY NextPluginProperties DEF TypeOK, SourcesInv, SourceListed
<1>8. AudioInv'
  BY NextPluginProperties DEF TypeOK, ControlInv, AudioInv, Discards, InPlugin
<1> QED
  BY <1>1, <1>2, <1>3, <1>4, <1>5, <1>6, <1>7, <1>8

\* The source is no longer on the list when it is deleted.
LEMMA DeleteSourceIInv == IInv /\ DeleteSource => IInv'
<1> SUFFICES ASSUME IInv, DeleteSource PROVE IInv'
  OBVIOUS
<1> USE DEF IInv, DeleteSource, hostVars, listVars, pluginVars, mainVars, audioVars, StopReturns
<1>11. \A q \in Plugins : auxSource'[q] = IF q = p THEN 0 ELSE auxSource[q]
  BY DEF TypeOK
<1>12. ~bRunning
  BY NothingToStop
<1>1. TypeOK'
  BY NextPluginProperties, <1>11, <1>12 DEF TypeOK, MainPC, AudioPC
<1>2. ControlInv'
  BY NextPluginProperties, <1>11, <1>12 DEF TypeOK, ControlInv, InPlugin, MainPC
<1>3. LiveInv'
  <2>1. p \in Plugins /\ micFilter' = micFilter /\ live' = live \ {auxSource[p]} /\ 0 \notin Objects
    BY PluginsAssumption DEF TypeOK
  <2>2. ASSUME NEW x \in Objects
        PROVE  x \in live' <=> \E q \in Plugins : x = micFilter'[q] \/ x = auxSource'[q]
    <3>1. ASSUME NEW q \in Plugins
          PROVE  (x = micFilter'[q] \/ x = auxSource'[q]) <=>
                   x # auxSource[p] /\ (x = micFilter[q] \/ x = auxSource[q])
      BY <1>11, <2>1 DEF DistinctInv
    <3> QED
      BY <2>1, <3>1 DEF LiveInv
  <2> QED
    BY <2>2 DEF LiveInv
<1>4. DistinctInv'
  BY NextPluginProperties, <1>11, <1>12 DEF DistinctInv
<1>5. OwnInv'
  <2>1. p \in Plugins /\ p' \in Plugins /\ NumPlugins \in Nat
    BY NextPluginProperties, PluginsAssumption DEF TypeOK
  <2>2. ASSUME NEW q \in Plugins, micFilter'[q] # 0 \/ auxSource'[q] # 0
        PROVE  MayOwn(q)'
    BY <1>11, <2>1, <2>2, NextPluginProperties, PluginsAssumption
       DEF TypeOK, OwnInv, MayOwn, InPlugin, Plugins, ControlInv
  <2> QED
    BY <1>11, <2>1, <2>2, NextPluginProperties DEF TypeOK, OwnInv
<1>6. FiltersInv'
  BY NextPluginProperties, <1>11, <1>12 DEF TypeOK, FiltersInv, FilterListed, Stored
<1>7. SourcesInv'
  BY NextPluginProperties, <1>11, <1>12 DEF TypeOK, SourcesInv, SourceListed
<1>8. AudioInv'
  BY <1>12 DEF TypeOK, AudioInv
<1> QED
  BY <1>1, <1>2, <1>3, <1>4, <1>5, <1>6, <1>7, <1>8

\* The plugin has nothing, and the next one is called.
LEMMA DoNotInstallIInv == IInv /\ DoNotInstall => IInv'
<1> SUFFICES ASSUME IInv, DoNotInstall PROVE IInv'
  OBVIOUS
<1> USE DEF IInv, DoNotInstall, hostVars, listVars, pluginVars, mainVars, audioVars
<1>1. TypeOK'
  BY NextPluginProperties DEF TypeOK, MainPC, AudioPC
<1>2. ControlInv'
  BY NextPluginProperties DEF TypeOK, ControlInv, InPlugin, MainPC
<1>3. LiveInv'
  BY NextPluginProperties DEF LiveInv
<1>4. DistinctInv'
  BY NextPluginProperties DEF DistinctInv
<1>5. OwnInv'
  <2>1. p \in Plugins /\ p' \in Plugins /\ NumPlugins \in Nat
    BY NextPluginProperties, PluginsAssumption DEF TypeOK
  <2>2. ASSUME NEW q \in Plugins, micFilter'[q] # 0 \/ auxSource'[q] # 0
        PROVE  MayOwn(q)'
    BY <2>1, <2>2, NextPluginProperties, PluginsAssumption
       DEF TypeOK, OwnInv, MayOwn, InPlugin, Plugins, ControlInv
  <2> QED
    BY <2>1, <2>2, NextPluginProperties DEF TypeOK, OwnInv
<1>6. FiltersInv'
  BY NextPluginProperties DEF TypeOK, FiltersInv, FilterListed, Stored
<1>7. SourcesInv'
  BY NextPluginProperties DEF TypeOK, SourcesInv, SourceListed
<1>8. AudioInv'
  BY NextPluginProperties DEF TypeOK, ControlInv, AudioInv, Discards, InPlugin
<1> QED
  BY <1>1, <1>2, <1>3, <1>4, <1>5, <1>6, <1>7, <1>8

\* The new objects have addresses that nobody's pointer has; a source is only made
\* while the host has none.
LEMMA CreateIInv == IInv /\ Create => IInv'
<1> SUFFICES ASSUME IInv, Create PROVE IInv'
  OBVIOUS
<1> USE DEF IInv, Create, hostVars, listVars, pluginVars, mainVars, audioVars
<1>11. p \in Plugins /\ micFilter[p] = 0 /\ auxSource[p] = 0
  BY PluginsAssumption DEF TypeOK, OwnInv, MayOwn, InPlugin, ControlInv, Plugins
<1>12. PICK f \in Objects \ live :
        /\ micFilter' = [micFilter EXCEPT ![p] = f]
        /\ IF p \in Gates
           THEN live' = live \cup {f} /\ UNCHANGED auxSource
           ELSE \E s \in Objects \ (live \cup {f}) :
                  auxSource' = [auxSource EXCEPT ![p] = s] /\ live' = live \cup {f, s}
  OBVIOUS
<1>13. \A q \in Plugins : micFilter'[q] = IF q = p THEN f ELSE micFilter[q]
  BY <1>12 DEF TypeOK
<1>14. /\ f # 0
      /\ \A q \in Plugins : /\ micFilter[q] # 0 => micFilter[q] \in live
                            /\ auxSource[q] # 0 => auxSource[q] \in live
  BY PluginsAssumption DEF LiveInv, TypeOK
<1>15. \/ p \in Gates /\ live' = live \cup {f} /\ auxSource' = auxSource
      \/ /\ p \notin Gates
         /\ \E s \in Objects : /\ s \notin live /\ s # f /\ s # 0 /\ live' = live \cup {f, s}
                              /\ \A q \in Plugins :
                                   auxSource'[q] = IF q = p THEN s ELSE auxSource[q]
  BY <1>12, PluginsAssumption DEF TypeOK
<1>1. TypeOK'
  BY <1>11, <1>12, <1>13, <1>14, <1>15 DEF TypeOK, MainPC, AudioPC
<1>2. ControlInv'
  BY <1>11, <1>12, <1>13, <1>14, <1>15 DEF TypeOK, ControlInv, InPlugin, MainPC
<1>3. LiveInv'
  BY <1>11, <1>12, <1>13, <1>14, <1>15, PluginsAssumption DEF LiveInv, TypeOK
<1>4. DistinctInv'
  BY <1>11, <1>12, <1>13, <1>14, <1>15 DEF DistinctInv
<1>5. OwnInv'
  BY <1>11, <1>12, <1>13, <1>14, <1>15 DEF TypeOK, ControlInv, OwnInv, MayOwn, InPlugin, MainPC
<1>6. FiltersInv'
  <2>1. main' = "grow" /\ p' = p /\ audioFilters' = audioFilters /\ Stored' = Stored
    BY DEF Stored
  <2>2. \A q \in Plugins : FilterListed(q)' <=> FilterListed(q)
    BY <1>11, <1>13, <2>1 DEF FilterListed
  <2>3. \A q \in Plugins : FilterListed(q) => micFilter'[q] = micFilter[q]
    BY <1>11, <1>13 DEF FilterListed
  <2>4. ASSUME NEW a \in Stored, NEW q \in Plugins, audioFilters[a] = micFilter'[q]
        PROVE  audioFilters[a] = micFilter[q]
    <3>1. audioFilters[a] \in live
      BY <1>14 DEF FiltersInv, FilterListed
    <3> QED
      BY <1>12, <1>13, <2>4, <3>1
  <2> QED
    BY <2>1, <2>2, <2>3, <2>4 DEF FiltersInv
<1>7. SourcesInv'
  <2>1. main' = "grow" /\ p' = p /\ auxSources' = auxSources
    OBVIOUS
  <2>2. \A q \in Plugins : SourceListed(q)' <=> SourceListed(q)
    BY <1>11, <1>15, <2>1 DEF SourceListed
  <2>3. \A q \in Plugins : SourceListed(q) => auxSource'[q] = auxSource[q]
    BY <1>11, <1>15 DEF SourceListed
  <2>4. p \notin Gates => auxSources = <<>>
    <3> SUFFICES ASSUME p \notin Gates, auxSources # <<>> PROVE FALSE
      OBVIOUS
    <3>1. Len(auxSources) \in Nat \ {0} /\ DOMAIN auxSources = 1 .. Len(auxSources)
      BY LenProperties, EmptySeq DEF TypeOK
    <3>2. 1 \in 1 .. Len(auxSources)
      BY <3>1
    <3> QED
      BY <3>1, <3>2 DEF SourcesInv, SourceListed, Listed, Contains
  <2> QED
    BY <2>1, <2>2, <2>3, <2>4 DEF SourcesInv
<1>8. AudioInv'
  <2>1. ASSUME NEW k \in DOMAIN audioFilters, Discards(k)'
        PROVE  Discards(k)
    <3>1. CASE k \in Stored
      <4>1. audioFilters[k] \in live
        BY <1>14, <3>1 DEF FiltersInv, FilterListed
      <4> QED
        BY <1>12, <1>13, <2>1, <4>1 DEF Discards
    <3>2. CASE k \notin Stored
      BY <3>2 DEF Stored, TypeOK
    <3> QED
      BY <3>1, <3>2
  <2> QED
    BY <1>12, <2>1, <1>15 DEF TypeOK, AudioInv
<1> QED
  BY <1>1, <1>2, <1>3, <1>4, <1>5, <1>6, <1>7, <1>8

\* The new entry is null: the audio thread will not take it for a filter that is
\* alive, and its segment would not pass it.
LEMMA GrowFiltersIInv == IInv /\ GrowFilters => IInv'
<1> SUFFICES ASSUME IInv, GrowFilters PROVE IInv'
  OBVIOUS
<1> USE DEF IInv, GrowFilters, hostVars, listVars, pluginVars, mainVars, audioVars
<1>1. TypeOK'
  BY DEF TypeOK, MainPC, AudioPC
<1>2. ControlInv'
  BY DEF TypeOK, ControlInv, InPlugin, MainPC
<1>3. LiveInv'
  BY DEF LiveInv
<1>4. DistinctInv'
  BY DEF DistinctInv
<1>5. OwnInv'
  BY DEF TypeOK, ControlInv, OwnInv, MayOwn, InPlugin, MainPC
<1>6. FiltersInv'
  BY DEF TypeOK, FiltersInv, FilterListed, Stored
<1>7. SourcesInv'
  BY DEF TypeOK, SourcesInv, SourceListed
<1>8. AudioInv'
  BY DEF TypeOK, ControlInv, AudioInv, Discards, InPlugin
<1> QED
  BY <1>1, <1>2, <1>3, <1>4, <1>5, <1>6, <1>7, <1>8

\* The entry that is written is the last one, and the plugin the last that was called.
LEMMA StoreFilterIInv == IInv /\ StoreFilter => IInv'
<1> SUFFICES ASSUME IInv, StoreFilter PROVE IInv'
  OBVIOUS
<1> USE DEF IInv, StoreFilter, hostVars, listVars, pluginVars, mainVars, audioVars
<1>11. /\ p \in Plugins /\ audioFilters \in Seq(Objects \cup {0})
       /\ Len(audioFilters) \in Nat \ {0} /\ audioFilters[Len(audioFilters)] = 0
       /\ DOMAIN audioFilters = 1 .. Len(audioFilters)
       /\ Stored = 1 .. Len(audioFilters) - 1
       /\ micFilter[p] # 0 /\ micFilter[p] \in Objects /\ job = "start" /\ bRunning
  BY LenProperties, EmptySeq DEF TypeOK, FiltersInv, OwnInv, ControlInv, Stored, InPlugin
<1>12. /\ audioFilters' \in Seq(Objects \cup {0}) /\ Len(audioFilters') = Len(audioFilters)
       /\ DOMAIN audioFilters' = 1 .. Len(audioFilters)
       /\ \A k \in 1 .. Len(audioFilters) :
            audioFilters'[k] = IF k = Len(audioFilters) THEN micFilter[p] ELSE audioFilters[k]
  BY <1>11, ExceptSeq, LenProperties
<1>13. /\ job' = "start" /\ p' \in Plugins
       /\ \/ main' = "list" /\ p' = p /\ p \notin Gates
          \/ main' \in {"begin", "unhook"} /\ p' = p + 1 /\ p \in Gates
          \/ main' = "idle" /\ p' = 1 /\ p = NumPlugins /\ p \in Gates
  BY <1>11, NextPluginProperties
<1>14. ASSUME NEW q \in Plugins, micFilter[q] # 0 \/ auxSource[q] # 0
       PROVE  q <= p
  BY <1>11, <1>14, PluginsAssumption DEF OwnInv, MayOwn, InPlugin, Plugins
<1>15. Stored' = 1 .. Len(audioFilters)
  <2>1. main' # "store" /\ Len(audioFilters') = Len(audioFilters)
    BY <1>12, <1>13
  <2> HIDE DEF IInv, StoreFilter
  <2> QED
    BY <2>1 DEF Stored
<1>1. TypeOK'
  BY <1>12, <1>13 DEF TypeOK, MainPC
<1>2. ControlInv'
  BY <1>11, <1>13 DEF ControlInv, InPlugin
<1>3. LiveInv'
  BY NextPluginProperties DEF LiveInv
<1>4. DistinctInv'
  BY NextPluginProperties DEF DistinctInv
<1>5. OwnInv'
  <2>1. ASSUME NEW q \in Plugins, micFilter[q] # 0 \/ auxSource[q] # 0
        PROVE  MayOwn(q)'
    <3>1. q \in Nat /\ p \in Nat /\ NumPlugins \in Nat /\ q <= p
      BY <1>11, <1>14, <2>1, PluginsAssumption DEF Plugins
    <3> QED
      BY <1>11, <1>13, <3>1 DEF MayOwn, InPlugin
  <2> QED
    BY <1>11, <1>13, <2>1 DEF OwnInv
<1>6. FiltersInv'
  <2> DEFINE n == Len(audioFilters)
  <2>1. /\ p \in Plugins /\ micFilter[p] # 0 /\ micFilter' = micFilter
        /\ FiltersInv /\ DistinctInv /\ main' # "store"
    BY <1>11, <1>13
  <2>2. \A q \in Plugins : (FilterListed(q)' <=> micFilter[q] # 0)
                          /\ (FilterListed(q) <=> micFilter[q] # 0 /\ q # p)
    BY <1>13 DEF FilterListed
  <2>3. ASSUME NEW q \in Plugins, FilterListed(q)
        PROVE  q < p
    <3>1. q \in Nat /\ p \in Nat /\ q <= p /\ q # p
      BY <1>11, <1>14, <2>2, <2>3, PluginsAssumption DEF Plugins
    <3> QED
      BY <3>1
  <2> HIDE DEF IInv, StoreFilter
  <2>4. n \in Nat \ {0} /\ Stored = 1 .. n - 1 /\ Stored' = 1 .. n
    BY <1>11, <1>15
  <2>5. \A k \in 1 .. n : audioFilters'[k] = IF k = n THEN micFilter[p] ELSE audioFilters[k]
    BY Zenon, <1>12
  <2> HIDE DEF n
  <2>6. /\ n \in Stored' /\ Stored \subseteq Stored'
        /\ \A k \in Stored' : k # n => k \in Stored /\ k < n
    BY <2>4
  <2>7. audioFilters'[n] = micFilter[p]
    BY <2>4, <2>5
  <2>8. \A k \in Stored : audioFilters'[k] = audioFilters[k]
    BY <2>4, <2>5
  <2>9. ASSUME NEW k \in Stored'
        PROVE  \E q \in Plugins : FilterListed(q)' /\ audioFilters'[k] = micFilter'[q]
    <3>1. CASE k = n
      BY <2>1, <2>2, <2>7, <3>1
    <3>2. CASE k # n
      <4>1. k \in Stored /\ audioFilters'[k] = audioFilters[k]
        BY <2>6, <2>8, <3>2
      <4> QED
        BY <2>1, <2>2, <4>1 DEF FiltersInv
    <3> QED
      BY <3>1, <3>2
  <2>10. ASSUME NEW q \in Plugins, FilterListed(q)'
         PROVE  \E k \in Stored' : audioFilters'[k] = micFilter'[q]
    <3>1. CASE q = p
      BY <2>1, <2>6, <2>7, <3>1
    <3>2. CASE q # p
      <4>1. PICK k \in Stored : audioFilters[k] = micFilter[q]
        BY <2>1, <2>2, <2>10, <3>2 DEF FiltersInv
      <4> QED
        BY <2>1, <2>6, <2>8, <4>1
    <3> QED
      BY <3>1, <3>2
  <2>11. ASSUME NEW a \in Stored', NEW b \in Stored', NEW q \in Plugins, NEW r \in Plugins,
                a < b, audioFilters'[a] = micFilter'[q], audioFilters'[b] = micFilter'[r]
         PROVE  q < r
    <3>1. a \in Stored /\ audioFilters[a] = micFilter[q]
      <4>1. a # n
        BY <2>4, <2>11
      <4> QED
        BY <2>1, <2>6, <2>8, <2>11, <4>1
    <3>2. CASE b = n
      <4>1. r = p
        BY <2>1, <2>7, <2>11, <3>2 DEF DistinctInv
      <4>2. PICK t \in Plugins : FilterListed(t) /\ audioFilters[a] = micFilter[t]
        BY <2>1, <3>1 DEF FiltersInv
      <4>3. t = q
        BY <2>1, <2>2, <3>1, <4>2 DEF DistinctInv
      <4> QED
        BY <2>3, <4>1, <4>2, <4>3
    <3>3. CASE b # n
      <4>1. b \in Stored /\ audioFilters[b] = micFilter[r]
        BY <2>1, <2>6, <2>8, <2>11, <3>3
      <4> QED
        BY <2>1, <2>11, <3>1, <4>1 DEF FiltersInv
    <3> QED
      BY <3>2, <3>3
  <2> QED
    BY <2>1, <2>9, <2>10, <2>11 DEF FiltersInv
<1>7. SourcesInv'
  <2>1. auxSources' = auxSources /\ auxSource' = auxSource
    OBVIOUS
  <2>2. \A q \in Plugins : SourceListed(q)' <=> SourceListed(q)
    BY <1>11, <1>13, <2>1 DEF SourceListed, OwnInv
  <2> QED
    BY <1>13, <2>1, <2>2 DEF SourcesInv
<1>8. AudioInv'
  <2>1. ASSUME NEW k \in DOMAIN audioFilters, Discards(k)'
        PROVE  Discards(k) /\ (audioFilters[k] = 0 \/ audioFilters'[k] = audioFilters[k])
    BY <1>11, <1>12, <2>1 DEF Discards
  <2> QED
    BY <1>11, <1>12, <2>1 DEF AudioInv
<1> QED
  BY <1>1, <1>2, <1>3, <1>4, <1>5, <1>6, <1>7, <1>8

\* The source becomes the only one on the list, which the audio thread is not using.
LEMMA AddAudioSourceIInv == IInv /\ AddAudioSource => IInv'
<1> SUFFICES ASSUME IInv, AddAudioSource PROVE IInv'
  OBVIOUS
<1> USE DEF IInv, AddAudioSource, hostVars, listVars, pluginVars, mainVars, audioVars
<1>11. /\ p \in Plugins /\ p \notin Gates /\ job = "start" /\ bRunning
       /\ auxSources = <<>> /\ auxSource[p] # 0 /\ auxSource[p] \in Objects
  BY DEF TypeOK, OwnInv, ControlInv, SourcesInv, InPlugin
<1>12. /\ auxSources' \in Seq(Objects) /\ Len(auxSources') = 1
       /\ DOMAIN auxSources' = 1 .. 1 /\ auxSources'[1] = auxSource[p]
  <2>1. <<>> \in Seq(Objects) /\ Len(<<>>) = 0
    BY EmptySeq
  <2>2. /\ Append(<<>>, auxSource[p]) \in Seq(Objects)
        /\ Len(Append(<<>>, auxSource[p])) = 1
        /\ Append(<<>>, auxSource[p])[1] = auxSource[p]
    BY <1>11, <2>1, AppendProperties
  <2> QED
    BY <1>11, <2>2, LenProperties
<1>13. /\ job' = "start" /\ p' \in Plugins
       /\ \/ main' \in {"begin", "unhook"} /\ p' = p + 1
          \/ main' = "idle" /\ p' = 1 /\ p = NumPlugins
  BY <1>11, NextPluginProperties
<1>14. ASSUME NEW q \in Plugins, micFilter[q] # 0 \/ auxSource[q] # 0
       PROVE  q <= p
  BY <1>11, <1>14, PluginsAssumption DEF OwnInv, MayOwn, InPlugin, Plugins
<1>1. TypeOK'
  BY <1>12, <1>13 DEF TypeOK, MainPC
<1>2. ControlInv'
  BY <1>11, <1>13 DEF ControlInv, InPlugin
<1>3. LiveInv'
  BY NextPluginProperties DEF LiveInv
<1>4. DistinctInv'
  BY NextPluginProperties DEF DistinctInv
<1>5. OwnInv'
  <2>1. ASSUME NEW q \in Plugins, micFilter[q] # 0 \/ auxSource[q] # 0
        PROVE  MayOwn(q)'
    <3>1. q \in Nat /\ p \in Nat /\ NumPlugins \in Nat /\ q <= p
      BY <1>11, <1>14, <2>1, PluginsAssumption DEF Plugins
    <3> QED
      BY <1>11, <1>13, <3>1 DEF MayOwn, InPlugin
  <2> QED
    BY <1>11, <1>13, <2>1 DEF OwnInv
<1>6. FiltersInv'
  BY NextPluginProperties DEF TypeOK, FiltersInv, FilterListed, Stored
<1>7. SourcesInv'
  <2>1. \A q \in Plugins : SourceListed(q)' <=> q = p
    <3>1. \A q \in Plugins : ~SourceListed(q)
      BY <1>11 DEF SourcesInv
    <3> QED
      BY <1>11, <1>13, <3>1 DEF SourceListed
  <2>2. \A k \in DOMAIN auxSources' : auxSources'[k] = auxSource[p]
    BY <1>12
  <2>3. 1 \in DOMAIN auxSources' /\ auxSource' = auxSource
    BY <1>12
  <2> QED
    BY <1>11, <1>12, <1>13, <2>1, <2>2, <2>3 DEF SourcesInv
<1>8. AudioInv'
  <2>1. \A k : Discards(k)' <=> Discards(k)
    BY DEF Discards
  <2> QED
    BY <2>1 DEF AuxMutexTaken, AudioInv
<1> QED
  BY <1>1, <1>2, <1>3, <1>4, <1>5, <1>6, <1>7, <1>8

\* Each round of the audio thread begins without a segment.
LEMMA AudioHeadIInv == IInv /\ AudioHead => IInv'
<1> SUFFICES ASSUME IInv, AudioHead PROVE IInv'
  OBVIOUS
<1> USE DEF IInv, AudioHead, hostVars, listVars, pluginVars, mainVars, audioVars
<1>1. TypeOK'
  BY DEF TypeOK, MainPC, AudioPC
<1>2. ControlInv'
  BY DEF TypeOK, ControlInv, InPlugin, MainPC
<1>3. LiveInv'
  BY DEF LiveInv
<1>4. DistinctInv'
  BY DEF DistinctInv
<1>5. OwnInv'
  BY DEF TypeOK, ControlInv, OwnInv, MayOwn, InPlugin, MainPC
<1>6. FiltersInv'
  BY DEF TypeOK, FiltersInv, FilterListed, Stored
<1>7. SourcesInv'
  BY DEF TypeOK, SourcesInv, SourceListed
<1>8. AudioInv'
  BY DEF TypeOK, ControlInv, AudioInv, Discards, InPlugin
<1> QED
  BY <1>1, <1>2, <1>3, <1>4, <1>5, <1>6, <1>7, <1>8

\* The source the audio thread uses is on the list.
LEMMA NextAuxSourceIInv == IInv /\ NextAuxSource => IInv'
<1> SUFFICES ASSUME IInv, NextAuxSource PROVE IInv'
  OBVIOUS
<1> USE DEF IInv, NextAuxSource, hostVars, listVars, pluginVars, mainVars, audioVars
<1>1. TypeOK'
  BY DEF TypeOK, MainPC, AudioPC
<1>2. ControlInv'
  BY DEF TypeOK, ControlInv, InPlugin, MainPC
<1>3. LiveInv'
  BY DEF LiveInv
<1>4. DistinctInv'
  BY DEF DistinctInv
<1>5. OwnInv'
  BY DEF TypeOK, ControlInv, OwnInv, MayOwn, InPlugin, MainPC
<1>6. FiltersInv'
  BY DEF TypeOK, FiltersInv, FilterListed, Stored
<1>7. SourcesInv'
  BY DEF TypeOK, SourcesInv, SourceListed
<1>8. AudioInv'
  <2>1. i <= Len(auxSources) => auxSources[i] \in ToSet(auxSources)
    BY LenProperties DEF TypeOK, ToSet
  <2> QED
    BY <2>1 DEF AudioInv, Discards
<1> QED
  BY <1>1, <1>2, <1>3, <1>4, <1>5, <1>6, <1>7, <1>8

\* The audio thread is done with the source.
LEMMA UseAuxSourceIInv == IInv /\ UseAuxSource => IInv'
<1> SUFFICES ASSUME IInv, UseAuxSource PROVE IInv'
  OBVIOUS
<1> USE DEF IInv, UseAuxSource, hostVars, listVars, pluginVars, mainVars, audioVars
<1>1. TypeOK'
  BY DEF TypeOK, MainPC, AudioPC
<1>2. ControlInv'
  BY DEF TypeOK, ControlInv, InPlugin, MainPC
<1>3. LiveInv'
  BY DEF LiveInv
<1>4. DistinctInv'
  BY DEF DistinctInv
<1>5. OwnInv'
  BY DEF TypeOK, ControlInv, OwnInv, MayOwn, InPlugin, MainPC
<1>6. FiltersInv'
  BY DEF TypeOK, FiltersInv, FilterListed, Stored
<1>7. SourcesInv'
  BY DEF TypeOK, SourcesInv, SourceListed
<1>8. AudioInv'
  BY DEF TypeOK, ControlInv, AudioInv, Discards, InPlugin
<1> QED
  BY <1>1, <1>2, <1>3, <1>4, <1>5, <1>6, <1>7, <1>8

\* A new segment has every filter before it.
LEMMA QueryMicIInv == IInv /\ QueryMic => IInv'
<1> SUFFICES ASSUME IInv, QueryMic PROVE IInv'
  OBVIOUS
<1> USE DEF IInv, QueryMic, hostVars, listVars, pluginVars, mainVars, audioVars
<1>1. TypeOK'
  <2>1. segment' \in BOOLEAN /\ wild' \in BOOLEAN
    BY DEF TypeOK
  <2> QED
    BY <2>1 DEF TypeOK, AudioPC
<1>2. ControlInv'
  BY DEF TypeOK, ControlInv, InPlugin, MainPC
<1>3. LiveInv'
  BY DEF LiveInv
<1>4. DistinctInv'
  BY DEF DistinctInv
<1>5. OwnInv'
  BY DEF TypeOK, ControlInv, OwnInv, MayOwn, InPlugin, MainPC
<1>6. FiltersInv'
  BY DEF TypeOK, FiltersInv, FilterListed, Stored
<1>7. SourcesInv'
  BY DEF TypeOK, SourcesInv, SourceListed
<1>8. AudioInv'
  BY DEF TypeOK, ControlInv, AudioInv, Discards, InPlugin
<1> QED
  BY <1>1, <1>2, <1>3, <1>4, <1>5, <1>6, <1>7, <1>8

\* The audio thread looks at the length of the list and takes it up again.
LEMMA NextFilterIInv == IInv /\ NextFilter => IInv'
<1> SUFFICES ASSUME IInv, NextFilter PROVE IInv'
  OBVIOUS
<1> USE DEF IInv, NextFilter, hostVars, listVars, pluginVars, mainVars, audioVars
<1>1. TypeOK'
  BY DEF TypeOK, MainPC, AudioPC
<1>2. ControlInv'
  BY DEF TypeOK, ControlInv, InPlugin, MainPC
<1>3. LiveInv'
  BY DEF LiveInv
<1>4. DistinctInv'
  BY DEF DistinctInv
<1>5. OwnInv'
  BY DEF TypeOK, ControlInv, OwnInv, MayOwn, InPlugin, MainPC
<1>6. FiltersInv'
  BY DEF TypeOK, FiltersInv, FilterListed, Stored
<1>7. SourcesInv'
  BY DEF TypeOK, SourcesInv, SourceListed
<1>8. AudioInv'
  BY DEF TypeOK, ControlInv, AudioInv, Discards, InPlugin
<1> QED
  BY <1>1, <1>2, <1>3, <1>4, <1>5, <1>6, <1>7, <1>8

\* While the stream runs no entry is taken away: the one that is read is alive or null.
LEMMA LoadFilterIInv == IInv /\ LoadFilter => IInv'
<1> SUFFICES ASSUME IInv, LoadFilter PROVE IInv'
  OBVIOUS
<1> USE DEF IInv, LoadFilter, hostVars, listVars, pluginVars, mainVars, audioVars
<1>1. TypeOK'
  BY DEF TypeOK, MainPC, AudioPC
<1>2. ControlInv'
  BY DEF TypeOK, ControlInv, InPlugin, MainPC
<1>3. LiveInv'
  BY DEF LiveInv
<1>4. DistinctInv'
  BY DEF DistinctInv
<1>5. OwnInv'
  BY DEF TypeOK, ControlInv, OwnInv, MayOwn, InPlugin, MainPC
<1>6. FiltersInv'
  BY DEF TypeOK, FiltersInv, FilterListed, Stored
<1>7. SourcesInv'
  BY DEF TypeOK, SourcesInv, SourceListed
<1>8. AudioInv'
  <2>1. CASE bRunning
    <3>1. i \in DOMAIN audioFilters /\ cur' = audioFilters[i] /\ DOMAIN audioFilters = 1 .. Len(audioFilters)
      BY <2>1, LenProperties DEF TypeOK, AudioInv
    <3>2. audioFilters[i] \in live \cup {0}
      <4>1. CASE i \in Stored
        BY <4>1 DEF FiltersInv, FilterListed, LiveInv, TypeOK
      <4>2. CASE i \notin Stored
        BY <3>1, <4>2, LenProperties DEF FiltersInv, Stored, TypeOK
      <4> QED
        BY <4>1, <4>2
    <3>3. \A k : Discards(k)' <=> Discards(k)
      BY DEF Discards
    <3> QED
      BY <2>1, <3>1, <3>2, <3>3 DEF AudioInv
  <2>2. CASE ~bRunning
    BY <2>2 DEF AudioInv
  <2> QED
    BY <2>1, <2>2
<1> QED
  BY <1>1, <1>2, <1>3, <1>4, <1>5, <1>6, <1>7, <1>8

\* The filter of an OBS_mic_dsp discards the segment.
LEMMA ProcessSegmentIInv == IInv /\ ProcessSegment => IInv'
<1> SUFFICES ASSUME IInv, ProcessSegment PROVE IInv'
  OBVIOUS
<1> USE DEF IInv, ProcessSegment, hostVars, listVars, pluginVars, mainVars, audioVars
<1>1. TypeOK'
  <2>1. segment' \in BOOLEAN /\ wild' \in BOOLEAN
    BY DEF TypeOK
  <2> QED
    BY <2>1 DEF TypeOK, AudioPC
<1>2. ControlInv'
  BY DEF TypeOK, ControlInv, InPlugin, MainPC
<1>3. LiveInv'
  BY DEF LiveInv
<1>4. DistinctInv'
  BY DEF DistinctInv
<1>5. OwnInv'
  BY DEF TypeOK, ControlInv, OwnInv, MayOwn, InPlugin, MainPC
<1>6. FiltersInv'
  BY DEF TypeOK, FiltersInv, FilterListed, Stored
<1>7. SourcesInv'
  BY DEF TypeOK, SourcesInv, SourceListed
<1>8. AudioInv'
  <2>1. CASE bRunning
    <3>1. i \in Nat /\ i <= Len(audioFilters) /\ Len(audioFilters) \in Nat
          /\ DOMAIN audioFilters = 1 .. Len(audioFilters)
      BY <2>1, LenProperties DEF TypeOK, AudioInv
    <3>2. \A k : Discards(k)' <=> Discards(k)
      BY DEF Discards
    <3>3. ASSUME ~wild', segment', NEW k \in DOMAIN audioFilters, Discards(k)
          PROVE  i + 1 <= k
      <4>1. ~wild /\ cur \in live /\ cur # 0 /\ i <= k
        BY <2>1, <3>3, PluginsAssumption DEF TypeOK, AudioInv
      <4>2. ASSUME i = k PROVE FALSE
        <5>1. cur = audioFilters[k]
          BY <2>1, <3>3, <4>1, <4>2 DEF AudioInv
        <5>2. PICK q \in Plugins \ Gates : cur = micFilter[q]
          BY <3>3, <4>1, <5>1 DEF Discards
        <5>3. PICK r \in Gates : micFilter[r] = cur
          BY <3>3, <4>1
        <5> QED
          BY <4>1, <5>2, <5>3, PluginsAssumption DEF DistinctInv, Plugins
      <4> QED
        BY <3>1, <4>1, <4>2
    <3> QED
      BY <3>1, <3>2, <3>3 DEF AudioInv
  <2>2. CASE ~bRunning
    BY <2>2 DEF AudioInv
  <2> QED
    BY <2>1, <2>2
<1> QED
  BY <1>1, <1>2, <1>3, <1>4, <1>5, <1>6, <1>7, <1>8

\* The loop ends: no filter that would discard the segment is on the list.
LEMMA FiltersDoneIInv == IInv /\ FiltersDone => IInv'
<1> SUFFICES ASSUME IInv, FiltersDone PROVE IInv'
  OBVIOUS
<1> USE DEF IInv, FiltersDone, hostVars, listVars, pluginVars, mainVars, audioVars
<1>1. TypeOK'
  BY DEF TypeOK, MainPC, AudioPC
<1>2. ControlInv'
  BY DEF TypeOK, ControlInv, InPlugin, MainPC
<1>3. LiveInv'
  BY DEF LiveInv
<1>4. DistinctInv'
  BY DEF DistinctInv
<1>5. OwnInv'
  BY DEF TypeOK, ControlInv, OwnInv, MayOwn, InPlugin, MainPC
<1>6. FiltersInv'
  BY DEF TypeOK, FiltersInv, FilterListed, Stored
<1>7. SourcesInv'
  BY DEF TypeOK, SourcesInv, SourceListed
<1>8. AudioInv'
  BY DEF TypeOK, ControlInv, AudioInv, Discards, InPlugin
<1> QED
  BY <1>1, <1>2, <1>3, <1>4, <1>5, <1>6, <1>7, <1>8

\* The round ends.
LEMMA KeepSegmentIInv == IInv /\ KeepSegment => IInv'
<1> SUFFICES ASSUME IInv, KeepSegment PROVE IInv'
  OBVIOUS
<1> USE DEF IInv, KeepSegment, hostVars, listVars, pluginVars, mainVars, audioVars
<1>1. TypeOK'
  <2>1. segment' \in BOOLEAN /\ wild' \in BOOLEAN
    BY DEF TypeOK
  <2> QED
    BY <2>1 DEF TypeOK, AudioPC
<1>2. ControlInv'
  BY DEF TypeOK, ControlInv, InPlugin, MainPC
<1>3. LiveInv'
  BY DEF LiveInv
<1>4. DistinctInv'
  BY DEF DistinctInv
<1>5. OwnInv'
  BY DEF TypeOK, ControlInv, OwnInv, MayOwn, InPlugin, MainPC
<1>6. FiltersInv'
  BY DEF TypeOK, FiltersInv, FilterListed, Stored
<1>7. SourcesInv'
  BY DEF TypeOK, SourcesInv, SourceListed
<1>8. AudioInv'
  BY DEF TypeOK, ControlInv, AudioInv, Discards, InPlugin
<1> QED
  BY <1>1, <1>2, <1>3, <1>4, <1>5, <1>6, <1>7, <1>8

\* The invariant is inductive.
LEMMA NextIInv == IInv /\ [Next]_vars => IInv'
<1> SUFFICES ASSUME IInv, [Next]_vars PROVE IInv'
  OBVIOUS
<1>1. CASE UserStep
  BY <1>1, StartIInv, StopIInv, StreamFlushedIInv, DestroyIInv DEF UserStep
<1>2. CASE HostStep
  BY <1>2, ReportStartStreamTriggerIInv, StartFailsIInv, JoinSoundThreadIInv,
     FreeAudioIInv, UnloadPluginsIInv DEF HostStep
<1>3. CASE PluginStep
  BY <1>3, RemoveAudioFilterIInv, DeleteFilterIInv, RemoveAudioSourceIInv, NoSourceIInv,
     DeleteSourceIInv, DoNotInstallIInv, CreateIInv, GrowFiltersIInv, StoreFilterIInv,
     AddAudioSourceIInv DEF PluginStep
<1>4. CASE AudioStep
  BY <1>4, AudioHeadIInv, NextAuxSourceIInv, UseAuxSourceIInv, QueryMicIInv,
     NextFilterIInv, LoadFilterIInv, ProcessSegmentIInv, FiltersDoneIInv,
     KeepSegmentIInv DEF AudioStep
<1>5. CASE UNCHANGED vars
  BY <1>5 DEF IInv, TypeOK, ControlInv, LiveInv, DistinctInv, OwnInv, FiltersInv,
     SourcesInv, AudioInv, InPlugin, MayOwn, FilterListed, SourceListed, Stored, Discards,
     vars, hostVars, listVars, pluginVars, mainVars, audioVars
<1> QED
  BY <1>1, <1>2, <1>3, <1>4, <1>5 DEF Next
-----------------------------------------------------------------------------
(***************************************************************************)
(* The theorems.                                                           *)
(***************************************************************************)

\* IInv holds of every reachable state of the host's two threads, for any number of
\* copies of OBS_mic_dsp and of NoiseGates.
THEOREM InductiveInvariant == Spec => []IInv
<1>1. Spec => Init /\ [][Next]_vars
  BY DEF Spec
<1> QED
  BY <1>1, InitIInv, NextIInv, PTL

\* Types: the lists hold addresses, and the callbacks are called for plugins that
\* exist.
THEOREM TypeCorrect == Spec => []TypeOK
<1>1. IInv => TypeOK
  BY DEF IInv
<1> QED
  BY <1>1, InductiveInvariant, PTL

\* The pointers that the plugins keep, the entries of the two lists and the source
\* that the audio thread is using are alive, whatever the audio thread does during
\* OnStartStream, OnStopStream, Stop and ~OBS.
THEOREM PointersAreAlive == Spec => []NothingDangles
<1>1. IInv => NothingDangles
  <2> SUFFICES ASSUME IInv PROVE NothingDangles
    OBVIOUS
  <2>1. OwnedAlive
    BY DEF IInv, TypeOK, LiveInv, OwnedAlive
  <2>2. \A x \in ToSet(audioFilters) : x # 0 => x \in live
    <3> SUFFICES ASSUME NEW k \in DOMAIN audioFilters, audioFilters[k] # 0
                 PROVE  audioFilters[k] \in live
      BY DEF ToSet
    <3>1. k \in Stored
      BY LenProperties DEF IInv, TypeOK, FiltersInv, Stored
    <3> QED
      BY <2>1, <3>1 DEF IInv, FiltersInv, OwnedAlive, FilterListed
  <2>3. ToSet(auxSources) \subseteq live
    BY <2>1 DEF ToSet, IInv, SourcesInv, OwnedAlive, SourceListed
  <2>4. SourceUseAlive
    BY <2>3 DEF IInv, AudioInv, SourceUseAlive
  <2> QED
    BY <2>1, <2>2, <2>3, <2>4 DEF NothingDangles, ListedAlive
<1> QED
  BY <1>1, InductiveInvariant, PTL

\* Between the calls of the plugins the host's lists are what the plugins believe,
\* and when the stream does not run nothing of them is left.
THEOREM ListsAgree == Spec => []InstalledTogether
<1>1. IInv => InstalledTogether
  <2> SUFFICES ASSUME IInv, main \in {"idle", "gone"} PROVE InstalledTogether
    BY DEF InstalledTogether
  <2>1. ~InPlugin
    BY DEF InPlugin
  <2>2. /\ DOMAIN audioFilters = 1 .. Len(audioFilters) /\ Stored = 1 .. Len(audioFilters)
        /\ DOMAIN auxSources = 1 .. Len(auxSources)
        /\ Len(audioFilters) \in Nat /\ Len(auxSources) \in Nat
    BY LenProperties DEF IInv, TypeOK, Stored
  <2>3. \A q \in Plugins : /\ FilterListed(q) = (micFilter[q] # 0)
                          /\ SourceListed(q) = (auxSource[q] # 0)
    BY DEF FilterListed, SourceListed
  <2>4. CASE bRunning
    <3>1. InOrder(audioFilters, micFilter)
      <4>1. ToSet(audioFilters) = {micFilter[q] : q \in Plugins} \ {0}
        <5>1. ASSUME NEW k \in DOMAIN audioFilters
              PROVE  audioFilters[k] # 0 /\ \E q \in Plugins : audioFilters[k] = micFilter[q]
          BY <2>2, <2>3 DEF IInv, FiltersInv
        <5>2. ASSUME NEW q \in Plugins, micFilter[q] # 0
              PROVE  \E k \in DOMAIN audioFilters : audioFilters[k] = micFilter[q]
          BY <2>2, <2>3, <5>2 DEF IInv, FiltersInv
        <5> QED
          BY <5>1, <5>2 DEF ToSet
      <4> QED
        BY <2>2, <4>1 DEF IInv, FiltersInv, InOrder
    <3>2. InOrder(auxSources, auxSource)
      <4>1. ToSet(auxSources) = {auxSource[q] : q \in Plugins} \ {0}
        <5>1. ASSUME NEW k \in DOMAIN auxSources
              PROVE  auxSources[k] # 0 /\ \E q \in Plugins : auxSources[k] = auxSource[q]
          BY <2>2, <2>3 DEF IInv, SourcesInv
        <5>2. ASSUME NEW q \in Plugins, auxSource[q] # 0
              PROVE  \E k \in DOMAIN auxSources : auxSources[k] = auxSource[q]
          BY <2>2, <2>3, <5>2 DEF IInv, SourcesInv
        <5> QED
          BY <5>1, <5>2 DEF ToSet
      <4>2. \A a, b \in DOMAIN auxSources : ~(a < b)
        BY <2>2 DEF IInv, SourcesInv
      <4> QED
        BY <4>1, <4>2 DEF InOrder
    <3>3. \A q \in Plugins \ Gates : micFilter[q] = 0 <=> auxSource[q] = 0
      BY DEF IInv, OwnInv
    <3> QED
      BY <2>4, <3>1, <3>2, <3>3 DEF InstalledTogether, IInv, SourcesInv
  <2>5. CASE ~bRunning
    <3>1. \A q \in Plugins : micFilter[q] = 0 /\ auxSource[q] = 0
      BY <2>1, <2>5 DEF IInv, OwnInv, MayOwn
    <3>2. live = {}
      BY <3>1, PluginsAssumption DEF IInv, TypeOK, LiveInv
    <3>3. Len(audioFilters) = 0 /\ Len(auxSources) = 0
      <4>1. 1 .. Len(audioFilters) = {} /\ 1 .. Len(auxSources) = {}
        BY <2>2, <2>3, <3>1 DEF IInv, FiltersInv, SourcesInv
      <4> QED
        BY <2>2, <4>1
    <3>4. audioFilters = <<>> /\ auxSources = <<>>
      BY <3>3, EmptySeq DEF IInv, TypeOK
    <3> QED
      BY <2>5, <3>2, <3>4 DEF InstalledTogether
  <2> QED
    BY <2>4, <2>5
<1> QED
  BY <1>1, InductiveInvariant, PTL

\* AddAudioSegment, the filters and the auxiliary source: while the stream runs, a
\* segment of the raw microphone gets into the mix when a DMO source is listed only
\* if the filter of that plugin came on the list after the loop over it had ended.
THEOREM MicIsHeardOnce == Spec => MicHeardOnce
<1>1. ASSUME IInv, KeepSegment, segment, bRunning, ~wild,
             NEW q \in Plugins, auxSource[q] # 0, Contains(auxSources, auxSource[q])
      PROVE  AddedSince(q)
  <2>1. audio = "keep"
    BY <1>1 DEF KeepSegment
  <2>2. SourceListed(q) /\ q \notin Gates
    <3>1. PICK k \in DOMAIN auxSources : auxSources[k] = auxSource[q]
      BY <1>1, LenProperties DEF Contains, IInv, TypeOK
    <3> QED
      BY <1>1, <3>1 DEF IInv, SourcesInv, DistinctInv, OwnInv, SourceListed
  <2>3. main \in {"unhook", "freefilter", "unlist", "freesource"} => q # p
    BY <1>1, NothingToStop DEF IInv
  <2>4. FilterListed(q)
    BY <1>1, <2>2, <2>3 DEF IInv, OwnInv, FilterListed, SourceListed
  <2>5. PICK k \in Stored : audioFilters[k] = micFilter[q]
    BY <1>1, <2>4 DEF IInv, FiltersInv
  <2>6. k \in DOMAIN audioFilters /\ k \in Nat /\ i \in Nat
    BY <1>1, <2>5, LenProperties DEF IInv, TypeOK, Stored
  <2>7. Discards(k)
    BY <2>2, <2>5 DEF Discards
  <2>8. i <= k
    BY <1>1, <2>1, <2>6, <2>7 DEF IInv, AudioInv
  <2> QED
    BY <2>5, <2>6, <2>8 DEF AddedSince
<1>2. IInv /\ [Next]_vars =>
        [KeepSegment /\ segment /\ bRunning /\ ~wild =>
           \A q \in Plugins :
             auxSource[q] # 0 /\ Contains(auxSources, auxSource[q]) => AddedSince(q)]_vars
  BY <1>1
<1> QED
  BY <1>2, InductiveInvariant, PTL DEF Spec, MicHeardOnce

\* AddAudioFilter, RemoveAudioFilter and the audio thread share the list of filters
\* without a lock: a filter that is not alive is called only where the entry was not
\* written yet, or after Stop has cleared bRunning.
THEOREM WildCallsHaveTwoCauses == Spec => WildOnlyInWindow
<1>1. IInv /\ [Next]_vars => [~wild /\ wild' => cur = 0 \/ ~bRunning]_vars
  <2> SUFFICES ASSUME IInv, [Next]_vars, ~wild, wild' PROVE cur = 0 \/ ~bRunning
    OBVIOUS
  <2>1. ~UserStep
    BY DEF UserStep, Start, Stop, StreamFlushed, Destroy, audioVars
  <2>2. ~HostStep
    BY DEF HostStep, ReportStartStreamTrigger, StartFails, JoinSoundThread, FreeAudio,
           UnloadPlugins, audioVars
  <2>3. ~PluginStep
    BY DEF PluginStep, RemoveAudioFilter, DeleteFilter, RemoveAudioSource, NoSource,
           DeleteSource, DoNotInstall, Create, GrowFilters, StoreFilter, AddAudioSource,
           audioVars
  <2>4. ~UNCHANGED vars
    BY DEF vars, audioVars
  <2>5. ProcessSegment
    BY <2>1, <2>2, <2>3, <2>4
       DEF Next, AudioStep, AudioHead, NextAuxSource, UseAuxSource, QueryMic, NextFilter,
           LoadFilter, FiltersDone, KeepSegment
  <2>6. audio = "process" /\ cur \notin live
    BY <2>5 DEF ProcessSegment
  <2> QED
    BY <2>6 DEF IInv, AudioInv
<1> QED
  BY <1>1, InductiveInvariant, PTL DEF Spec, WildOnlyInWindow
=============================================================================
