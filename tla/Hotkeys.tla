------------------------------ MODULE Hotkeys -------------------------------
(***************************************************************************)
(* How a key on the keyboard becomes a call of the plugin's push-to-talk   *)
(* callback (OBS/Source/API.cpp).  The hotkey thread polls the keyboard    *)
(* every 30 ms and posts OBS_CALLHOTKEY messages to the main thread's      *)
(* queue; the main thread, some time later, looks the hotkey up by its ID  *)
(* and calls it.  Meanwhile streams start and stop, and each one creates   *)
(* and deletes the hotkeys of its VoiceCaptureDMOSource.                   *)
(*                                                                         *)
(* A slot is a configured hotkey: the plugin's (push-to-talk, one or two), *)
(* which live as long as its source, or one of the host's own, which is    *)
(* always there.  Binding says which keys it consists of.                  *)
(***************************************************************************)
EXTENDS Integers, FiniteSets, SequencesExt

CONSTANTS
  PttSlots,   \* the plugin's hotkeys, in the order of creation
  HostSlots,  \* hotkeys that the host has created at its start
  Binding,    \* slot -> [kind, key, mods]; kind is "key", "modifiers" or "xinput"
  Keys,       \* keys and gamepad buttons
  Modifiers,  \* alt, control, shift
  AllowOther, \* allow_other_hotkey_modifiers
  MaxQueue,   \* bound: no poll begins behind more messages than this
  MaxID       \* bound: hotkeys created

ASSUME HotkeysAssumption ==
  /\ PttSlots \in Seq(DOMAIN Binding) /\ PttSlots # <<>>
  /\ HostSlots \in Seq(DOMAIN Binding)
  /\ Binding \in [DOMAIN Binding -> [kind : {"key", "modifiers", "xinput"},
                                     key : Keys, mods : SUBSET Modifiers]]
  /\ AllowOther \in BOOLEAN
  /\ MaxQueue \in Nat /\ MaxID \in Nat /\ Len(HostSlots) <= MaxID

VARIABLES
  down,       \* keyboard: the keys that are down
  tapped,     \* keyboard: keys that went down since they were last asked for
  mods,       \* keyboard: the modifiers that are down
  snapshot,   \* hotkey thread: modifiers, as HandleHotkeys has read them
  poll,       \* hotkey thread: 0, or the index in hotkeys it is at (mutex held)
  ready,      \* hotkey thread: it has read the modifiers
  hotkeys,    \* OBSAPIInterface::hotkeys
  curID,      \* curHotkeyIDVal
  queue,      \* the main thread's messages
  source,     \* the plugin's source: "none", "init", "live" or "gone"
  pttIDs,     \* _pttHotkeyID, _pttHotkey2ID
  keysDown,   \* _pttKeysDown
  talking     \* history: the live push-to-talk IDs whose last call said "down"

keyboardVars == <<down, tapped, mods>>
pollVars     == <<snapshot, poll, ready>>
sourceVars   == <<source, pttIDs, keysDown, talking>>
vars == <<keyboardVars, pollVars, hotkeys, curID, queue, sourceVars>>

HotkeyInfo == [id : Nat, slot : DOMAIN Binding, modifiersDown : BOOLEAN,
               hotkeyDown : BOOLEAN, downSent : BOOLEAN]
Message    == [id : Nat, bDown : BOOLEAN]

NewHotkey(id, slot) ==
  [id |-> id, slot |-> slot, modifiersDown |-> FALSE, hotkeyDown |-> FALSE,
   downSent |-> FALSE]

\* The hotkey thread is in the loop of HandleHotkeys, and owns hHotkeyMutex.
Polling == poll > 0

Init ==
  /\ down = {} /\ tapped = {} /\ mods = {}
  /\ snapshot = {} /\ poll = 0 /\ ready = FALSE
  /\ hotkeys = [n \in 1 .. Len(HostSlots) |-> NewHotkey(n, HostSlots[n])]
  /\ curID = Len(HostSlots)
  /\ queue = <<>>
  /\ source = "none" /\ pttIDs = <<>> /\ keysDown = 0 /\ talking = {}
-----------------------------------------------------------------------------
(***************************************************************************)
(* The user's hands.                                                       *)
(***************************************************************************)

PressKey(k) ==
  /\ k \notin down
  /\ down' = down \cup {k} /\ tapped' = tapped \cup {k}
  /\ UNCHANGED <<mods, pollVars, hotkeys, curID, queue, sourceVars>>

ReleaseKey(k) ==
  /\ k \in down
  /\ down' = down \ {k}
  /\ UNCHANGED <<tapped, mods, pollVars, hotkeys, curID, queue, sourceVars>>

MoveModifier(m) ==
  /\ mods' = IF m \in mods THEN mods \ {m} ELSE mods \cup {m}
  /\ UNCHANGED <<down, tapped, pollVars, hotkeys, curID, queue, sourceVars>>
-----------------------------------------------------------------------------
(***************************************************************************)
(* The hotkey thread: HandleHotkeys, every 30 ms.                          *)
(***************************************************************************)

\* The modifiers are read before the mutex is taken.
ReadModifiers ==
  /\ ~ready /\ ~Polling
  /\ snapshot' = mods
  /\ ready' = TRUE
  /\ UNCHANGED <<keyboardVars, poll, hotkeys, curID, queue, sourceVars>>

EnterPoll ==
  /\ ready
  /\ Len(queue) <= MaxQueue
  /\ ready' = FALSE
  /\ poll' = IF hotkeys = <<>> THEN 0 ELSE 1
  /\ UNCHANGED <<keyboardVars, snapshot, hotkeys, curID, queue, sourceVars>>

Here    == hotkeys[poll]
Bound   == Binding[Here.slot]
Matches == IF AllowOther \/ Bound.kind = "modifiers"
           THEN Bound.mods \subseteq snapshot
           ELSE Bound.mods = snapshot
ModifiersMatch == IF AllowOther THEN Bound.mods \subseteq snapshot ELSE Bound.mods = snapshot

\* Mutant: i <= hotkeys.Num().
NextHotkeyOneMore(h, posted) ==
  /\ hotkeys' = [hotkeys EXCEPT ![poll] = h]
  /\ queue' = queue \o posted
  /\ poll' = IF poll <= Len(hotkeys) THEN poll + 1 ELSE 0
  /\ UNCHANGED <<down, mods, snapshot, ready, curID, sourceVars>>

\* The loop's next round: hotkey h has replaced the current one, and these
\* messages have been posted.
NextHotkey(h, posted) ==
  /\ hotkeys' = [hotkeys EXCEPT ![poll] = h]
  /\ queue' = queue \o posted
  /\ poll' = IF poll < Len(hotkeys) THEN poll + 1 ELSE 0
  /\ UNCHANGED <<down, mods, snapshot, ready, curID, sourceVars>>

Post(h, bDown) == <<[id |-> h.id, bDown |-> bDown]>>

\* Mutant: "up" is not posted.
KeyUpSilent(h, posted) ==
  NextHotkey([h EXCEPT !.hotkeyDown = FALSE, !.downSent = @ /\ ~h.hotkeyDown], posted)

\* "key up", at the end of the loop's body: h and the messages so far.
KeyUp(h, posted) ==
  NextHotkey([h EXCEPT !.hotkeyDown = FALSE, !.downSent = @ /\ ~h.hotkeyDown],
             IF h.hotkeyDown /\ h.downSent THEN posted \o Post(h, FALSE) ELSE posted)

\* A gamepad button; the gamepad may also be gone.  There is no "continue" in
\* this branch: a button that is down goes on to "key up".
PollXInput ==
  /\ Polling
  /\ Bound.kind = "xinput"
  /\ LET h == [Here EXCEPT !.modifiersDown = FALSE] IN
     \/ /\ Bound.key \in down /\ ~h.hotkeyDown
        /\ KeyUp([h EXCEPT !.downSent = TRUE, !.hotkeyDown = TRUE], Post(h, TRUE))
     \/ KeyUp(h, <<>>)
  /\ UNCHANGED tapped

\* Mutant: "down" is posted in every poll.
PollModifiersRepeats ==
  /\ Polling
  /\ Bound.kind = "modifiers"
  /\ IF Matches
     THEN NextHotkey([Here EXCEPT !.downSent = TRUE, !.hotkeyDown = TRUE], Post(Here, TRUE))
     ELSE KeyUp([Here EXCEPT !.modifiersDown = ModifiersMatch], <<>>)
  /\ UNCHANGED tapped

\* Mutant: no "continue".
PollModifiersFallsThrough ==
  /\ Polling
  /\ Bound.kind = "modifiers"
  /\ IF Matches /\ ~Here.hotkeyDown
     THEN KeyUp([Here EXCEPT !.downSent = TRUE, !.hotkeyDown = TRUE], Post(Here, TRUE))
     ELSE KeyUp([Here EXCEPT !.modifiersDown = ModifiersMatch], <<>>)
  /\ UNCHANGED tapped

PollModifiers ==
  /\ Polling
  /\ Bound.kind = "modifiers"
  /\ IF Matches
     THEN NextHotkey([Here EXCEPT !.downSent = @ \/ ~Here.hotkeyDown, !.hotkeyDown = TRUE],
                     IF Here.hotkeyDown THEN <<>> ELSE Post(Here, TRUE))
     ELSE KeyUp([Here EXCEPT !.modifiersDown = ModifiersMatch], <<>>)
  /\ UNCHANGED tapped

\* GetAsyncKeyState says whether the key is down, and whether it went down since
\* the last time anyone asked.  "only triggers the hotkey if the actual main key
\* was pressed second".
PollKey ==
  /\ Polling
  /\ Bound.kind = "key"
  /\ LET asked   == Matches
         isDown  == asked /\ Bound.key \in down
         wasDown == asked /\ Bound.key \in tapped
         fires   == (isDown \/ wasDown) /\ ~Here.hotkeyDown /\ Here.modifiersDown
         h       == [Here EXCEPT !.downSent = @ \/ fires,
                                 !.hotkeyDown = @ \/ isDown \/ wasDown]
         posted  == IF fires THEN Post(h, TRUE) ELSE <<>>
     IN /\ tapped' = IF asked THEN tapped \ {Bound.key} ELSE tapped
        /\ IF isDown
           THEN NextHotkey(h, posted)
           ELSE KeyUp([h EXCEPT !.modifiersDown = ModifiersMatch], posted)
-----------------------------------------------------------------------------
(***************************************************************************)
(* The main thread.  CreateHotkey, DeleteHotkey and CallHotkey take        *)
(* hHotkeyMutex.                                                           *)
(***************************************************************************)

MainIdle == source \in {"none", "live"}

\* CallHotkey, and PushToTalkHotkeyCB if the ID is one of the source's.
DispatchMessage ==
  /\ MainIdle /\ ~Polling
  /\ queue # <<>>
  /\ queue' = Tail(queue)
  /\ LET m == Head(queue) IN
     IF \E n \in DOMAIN hotkeys : hotkeys[n].id = m.id /\ m.id > Len(HostSlots)
     THEN /\ keysDown' = IF m.bDown THEN keysDown + 1 ELSE keysDown - 1
          /\ talking' = IF m.bDown THEN talking \cup {m.id} ELSE talking \ {m.id}
     ELSE UNCHANGED <<keysDown, talking>>
  /\ UNCHANGED <<keyboardVars, pollVars, hotkeys, curID, source, pttIDs>>

\* Mutant: _pttKeysDown is not reset.
InitializeKeepsCount ==
  /\ source = "none"
  /\ curID + Len(PttSlots) <= MaxID
  /\ source' = "init"
  /\ pttIDs' = <<>> /\ talking' = {}
  /\ UNCHANGED <<keyboardVars, pollVars, hotkeys, curID, queue, keysDown>>

\* The source's constructor and the beginning of Initialize.
Initialize ==
  /\ source = "none"
  /\ curID + Len(PttSlots) <= MaxID
  /\ source' = "init"
  /\ pttIDs' = <<>> /\ keysDown' = 0 /\ talking' = {}
  /\ UNCHANGED <<keyboardVars, pollVars, hotkeys, curID, queue>>

CreateHotkey ==
  /\ source = "init" /\ ~Polling
  /\ curID' = curID + 1
  /\ hotkeys' = Append(hotkeys, NewHotkey(curID', PttSlots[Len(pttIDs) + 1]))
  /\ pttIDs' = Append(pttIDs, curID')
  /\ source' = IF Len(pttIDs') = Len(PttSlots) THEN "live" ELSE "init"
  /\ UNCHANGED <<keyboardVars, pollVars, queue, keysDown, talking>>

\* The source's destructor.
Destroy ==
  /\ source = "live"
  /\ source' = "gone"
  /\ UNCHANGED <<keyboardVars, pollVars, hotkeys, curID, queue, pttIDs, keysDown, talking>>

\* The destructor deletes them; no two hotkeys have the same ID.
DeleteHotkey ==
  /\ source = "gone" /\ ~Polling
  /\ \E n \in DOMAIN hotkeys :
       hotkeys[n].id = Head(pttIDs) /\ hotkeys' = RemoveAt(hotkeys, n)
  /\ pttIDs' = Tail(pttIDs)
  /\ source' = IF pttIDs' = <<>> THEN "none" ELSE "gone"
  /\ UNCHANGED <<keyboardVars, pollVars, curID, queue, keysDown, talking>>

UserStep ==
  \/ \E k \in Keys : PressKey(k) \/ ReleaseKey(k)
  \/ \E m \in Modifiers : MoveModifier(m)

PollStep == ReadModifiers \/ EnterPoll \/ PollXInput \/ PollModifiers \/ PollKey

MainStep == DispatchMessage \/ Initialize \/ CreateHotkey \/ Destroy \/ DeleteHotkey

Next == UserStep \/ PollStep \/ MainStep

Spec == Init /\ [][Next]_vars

(***************************************************************************)
(* The hotkey thread runs until the host shuts down, and the main thread   *)
(* handles its messages.                                                   *)
(***************************************************************************)
FairSpec ==
  /\ Spec
  /\ WF_vars(PollStep)
  /\ SF_vars(DispatchMessage)
  /\ SF_vars(CreateHotkey)
  /\ SF_vars(DeleteHotkey)
-----------------------------------------------------------------------------
(***************************************************************************)
(* Properties.                                                             *)
(***************************************************************************)

\* Every variable has its type.
TypeOK ==
  /\ down \subseteq Keys /\ tapped \subseteq Keys
  /\ mods \subseteq Modifiers /\ snapshot \subseteq Modifiers
  /\ poll \in 0 .. Len(hotkeys) /\ ready \in BOOLEAN
  /\ hotkeys \in Seq(HotkeyInfo)
  /\ curID \in 0 .. MaxID
  /\ queue \in Seq(Message)
  /\ source \in {"none", "init", "live", "gone"}
  /\ pttIDs \in Seq(1 .. MaxID)
  /\ keysDown \in Int
  /\ talking \subseteq 1 .. MaxID

PttHotkeys == {n \in DOMAIN hotkeys : hotkeys[n].id > Len(HostSlots)}
PttIDs     == {hotkeys[n].id : n \in PttHotkeys}
Pending(bDown) == {n \in DOMAIN queue : queue[n].id \in PttIDs /\ queue[n].bDown = bDown}

\* While the source lives, its count of keys and the messages still on their way
\* add up to the hotkeys that the hotkey thread believes to be down: no "down" and
\* no "up" is lost, none is counted twice, and none of an earlier stream counts.
KeysDownAddsUp ==
  source = "live" =>
    keysDown + Cardinality(Pending(TRUE)) - Cardinality(Pending(FALSE))
      = Cardinality({n \in PttHotkeys : hotkeys[n].downSent})

\* The callback is called for a hotkey alternately with "down" and "up", and only
\* while the source it would be called on lives.
EventsAlternate ==
  [][DispatchMessage /\ keysDown' # keysDown =>
       /\ source = "live"
       /\ Head(queue).bDown <=> Head(queue).id \notin talking]_vars

\* The keys of the hotkey at which the hotkey thread is are held.
HeldHere ==
  /\ Polling
  /\ Bound.kind \in {"key", "xinput"} => Bound.key \in down
  /\ Bound.kind \in {"key", "modifiers"} => Bound.mods \subseteq snapshot
  /\ Bound.kind = "key" /\ ~AllowOther => Bound.mods = snapshot

\* "key up": the hotkey thread reports a hotkey up only if it has seen a part of
\* the combination up. It is so for a hotkey on the keyboard; PollXInput breaks it
\* for a button of a gamepad, which goes up in the very poll in which it went down.
UpMeansReleased ==
  [][HeldHere /\ Len(queue') > Len(queue) => queue'[Len(queue')].bDown]_vars
KeyboardUpMeansReleased ==
  [][HeldHere /\ Bound.kind # "xinput" /\ Len(queue') > Len(queue)
       => queue'[Len(queue')].bDown]_vars

\* No key sticks: once the user has taken the hands off the keyboard for good, the
\* source ends up with no key down, whatever was posted before and however many
\* streams have started since.
NoStuckKey ==
  <>[](down = {} /\ mods = {}) => <>[](source = "live" => keysDown = 0)
=============================================================================
