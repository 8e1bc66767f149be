------------------------------- MODULE Input --------------------------------
(***************************************************************************)
(* Keys, buttons and the key buffer (win_keyboard.cpp, g_controls.cpp).    *)
(*                                                                         *)
(* Nothing is read but by UpdateControls, which the engine and scripts     *)
(* call, and which runs scripts itself: that of a key that was pressed,    *)
(* then those of the buttons that were.  These may call it again.  stack   *)
(* holds the scripts and the calls of UpdateControls that are under way:   *)
(*   script  a script that runs                                            *)
(*   parse   UpdateKeyboard: while (ParseKeyEvent())                       *)
(*   read    the buttons are read from the keys                            *)
(*   fire    the scripts of buttons are run, from the button `next' on     *)
(* A button stands for a direction as well; the joystick is left out.      *)
(***************************************************************************)
EXTENDS Integers, Sequences, SequencesExt, FiniteSetsExt

CONSTANTS
  Keys,
  Buttons,          \* the keys of the buttons, in the order of the code
  Hooked,           \* keys that run a script when pressed
  Typing,           \* keys that have a character
  Arrows,           \* the keys of two opposite directions, in the order of the code
  ArrowTypes,       \* does an arrow type something?  Its code lies beyond the
                    \* table of characters, and so does what is read there
  KEY_BUFFER_SIZE,
  MaxEvents,        \* bound on the events waiting (64 in the code)
  MaxUpdates        \* bound on the calls of UpdateControls within each other

NULL == "none"

ASSUME InputAssumption ==
  /\ Buttons \in Seq(Keys) /\ IsInjective(Buttons)
  /\ Hooked \subseteq Keys /\ Typing \subseteq Keys
  /\ Arrows \in Seq(Keys) /\ IsInjective(Arrows) /\ Len(Arrows) <= 2
  /\ ArrowTypes \in BOOLEAN
  /\ NULL \notin Keys
  /\ KEY_BUFFER_SIZE \in Nat \ {0}
  /\ MaxEvents \in Nat /\ MaxUpdates \in Nat \ {0}

VARIABLES
  hand,        \* the keys that are held down
  device,      \* the events waiting: <<key, is it pressed?>>
  keys, lastpressed, repeatedkey,
  key_buffer, key_buffer_position,
  b, kill,     \* the buttons reported pressed, and those unpressed
  killswitch,  \* _input_killswitch
  stack,
  unpressed,   \* history: unpressed buttons whose key is down ever since
  fired,       \* history: runs of a button's script since it was last not reported
  typed        \* history: the first characters since the buffer was empty

outside   == <<hand, device>>
keyboard  == <<keys, lastpressed, repeatedkey>>
buffer    == <<key_buffer, key_buffer_position, typed>>
controls  == <<b, kill, unpressed, fired>>
inputVars == <<outside, keyboard, buffer, controls, killswitch, stack>>

Cells   == 0 .. (KEY_BUFFER_SIZE - 1)
Empty   == [c \in Cells |-> NULL]
Pressable == {Buttons[i] : i \in DOMAIN Buttons}
IsArrow(k) == \E i \in DOMAIN Arrows : Arrows[i] = k
Frame(at) == [at |-> at, old |-> {}, next |-> 1]

InputInit ==
  /\ hand = {} /\ device = <<>>
  /\ keys = {} /\ lastpressed = NULL /\ repeatedkey = NULL
  /\ key_buffer = Empty /\ key_buffer_position = 0
  /\ b = {} /\ kill = {} /\ killswitch = FALSE
  /\ stack = <<>>
  /\ unpressed = {} /\ fired = [k \in Keys |-> 0] /\ typed = <<>>

-----------------------------------------------------------------------------
(* The player.                                                             *)

Press(k) ==
  /\ k \notin hand /\ Len(device) < MaxEvents
  /\ hand' = hand \cup {k} /\ device' = Append(device, <<k, TRUE>>)
  /\ UNCHANGED <<keyboard, buffer, controls, killswitch, stack>>

Release(k) ==
  /\ k \in hand /\ Len(device) < MaxEvents
  /\ hand' = hand \ {k} /\ device' = Append(device, <<k, FALSE>>)
  /\ UNCHANGED <<keyboard, buffer, controls, killswitch, stack>>

-----------------------------------------------------------------------------
(* The keyboard.  A state of it is a record, which events change in turn.  *)

Now == [keys |-> keys, last |-> lastpressed, rep |-> repeatedkey,
        buf |-> key_buffer, pos |-> key_buffer_position, typed |-> typed,
        raw |-> {}]   \* arrows pressed by the events read

Noted(s, k) == IF Len(s.typed) > KEY_BUFFER_SIZE THEN s.typed ELSE Append(s.typed, k)

(* AppendToKeyBuffer.  The position reaches KEY_BUFFER_SIZE before it is   *)
(* set to 0, and the character written there falls on memory behind the    *)
(* buffer: that of nobody, or the position itself, which is then p.        *)
Appended(s, k, p) ==
  IF s.pos = KEY_BUFFER_SIZE
  THEN [s EXCEPT !.typed = Noted(s, k), !.pos = p]
  ELSE [s EXCEPT !.typed = Noted(s, k), !.pos = @ + 1, !.buf[s.pos] = k]

Types(k) == k \in Typing \/ (IsArrow(k) /\ ArrowTypes)

(* An arrow has a code of its own until Arranged: no script hooks it.      *)
Down(s, k, p) ==
  LET t == IF Types(k) THEN Appended(s, k, p) ELSE s
  IN  IF IsArrow(k) THEN [t EXCEPT !.raw = @ \cup {k}, !.last = NULL, !.rep = k]
      ELSE [t EXCEPT !.keys = @ \cup {k}, !.last = k, !.rep = k]

(* Mutant: an arrow goes on repeating.                                     *)
UpRepeating(s, k) ==
  [s EXCEPT !.keys = @ \ {k}, !.raw = @ \ {k},
            !.rep = IF k = @ /\ ~IsArrow(k) THEN NULL ELSE @]

(* The release of an arrow stops the repetition of any key.                *)
Up(s, k) ==
  [s EXCEPT !.keys = @ \ {k}, !.raw = @ \ {k},
            !.rep = IF k = @ \/ IsArrow(k) THEN NULL ELSE @]

Event(s, e, p) == IF e[2] THEN Down(s, e[1], p) ELSE Up(s, e[1])

(* The keyboard after the events that wait, one after another.             *)
EventsRead(p) ==
  LET after[n \in 0 .. Len(device)] ==
        IF n = 0 THEN Now ELSE Event(after[n - 1], device[n], p)
  IN  after[Len(device)]

(* The arrows pressed become keys, the last of them the key pressed last,  *)
(* and of two opposite directions only that one is kept.                   *)
Arranged(s) ==
  LET fresh   == {i \in DOMAIN Arrows : Arrows[i] \in s.raw}
      latest  == Arrows[Max(fresh)]
      named   == IF fresh = {} THEN s
                 ELSE [s EXCEPT !.keys = @ \cup s.raw, !.last = latest, !.rep = latest]
      against == IF IsArrow(named.last)
                 THEN {Arrows[i] : i \in DOMAIN Arrows} \ {named.last} ELSE {}
  IN  [named EXCEPT !.keys = @ \ against]

(* A key held long enough types again.                                     *)
Repetitions(s, p) ==
  IF s.rep \in Typing THEN {s, Appended(s, s.rep, p)} ELSE {s}

(* All events that wait are taken at once, and only the key pressed last   *)
(* runs its script; then there is another turn.                            *)
ParseKeyEvent ==
  /\ stack # <<>> /\ Last(stack).at = "parse"
  /\ \E p \in 0 .. KEY_BUFFER_SIZE :
       LET read == Arranged(EventsRead(p))
           key_pressed == \E i \in DOMAIN device : device[i][2]
       IN  \E s \in Repetitions(read, p) :
             /\ keys' = s.keys /\ lastpressed' = s.last /\ repeatedkey' = s.rep
             /\ key_buffer' = s.buf /\ key_buffer_position' = s.pos /\ typed' = s.typed
             /\ stack' = IF ~key_pressed THEN Front(stack) \o <<Frame("read")>>
                         ELSE IF s.last \in Hooked THEN stack \o <<Frame("script")>>
                         ELSE stack
             /\ unpressed' = {k \in unpressed \cap s.keys :
                                \A i \in DOMAIN device : device[i] # <<k, FALSE>>}
  /\ device' = <<>>
  /\ UNCHANGED <<hand, b, kill, fired, killswitch>>

(* The characters from the position on, around the end of the buffer.      *)
GetKeyBuffer ==
  LET at(i) == key_buffer[(key_buffer_position + i) % KEY_BUFFER_SIZE]
      ordered[n \in 0 .. KEY_BUFFER_SIZE] ==
        IF n = 0 THEN <<>>
        ELSE IF at(n - 1) = NULL THEN ordered[n - 1] ELSE Append(ordered[n - 1], at(n - 1))
  IN  ordered[KEY_BUFFER_SIZE]

-----------------------------------------------------------------------------
(* UpdateControls.                                                         *)

FiredAmong(reported) == [k \in Keys |-> IF k \in reported THEN fired[k] ELSE 0]

(* With the kill switch on nothing is read.                                *)
UpdateControls ==
  IF killswitch
  THEN /\ b' = {} /\ fired' = FiredAmong({})
       /\ UNCHANGED <<stack, outside, keyboard, buffer, kill, unpressed, killswitch>>
  ELSE /\ stack' = Append(stack, Frame("parse"))
       /\ UNCHANGED <<outside, keyboard, buffer, controls, killswitch>>

EngineUpdates == stack = <<>> /\ UpdateControls

(* Mutant: a button is forgiven as soon as it is no longer reported.       *)
ReadButtonsForgiving ==
  /\ stack # <<>> /\ Last(stack).at = "read"
  /\ LET down == keys \cap Pressable
     IN  /\ b' = down \ kill
         /\ kill' = kill \cap b'
  /\ stack' = Front(stack) \o <<[at |-> "fire", old |-> b, next |-> 1]>>
  /\ fired' = FiredAmong(b')
  /\ UNCHANGED <<outside, keyboard, buffer, unpressed, killswitch>>

(* A button unpressed is not reported until its key was up.                *)
ReadButtons ==
  /\ stack # <<>> /\ Last(stack).at = "read"
  /\ kill' = kill \cap keys
  /\ b' = (keys \cap Pressable) \ kill'
  /\ stack' = Front(stack) \o <<[at |-> "fire", old |-> b, next |-> 1]>>
  /\ fired' = FiredAmong(b')
  /\ UNCHANGED <<outside, keyboard, buffer, unpressed, killswitch>>

(* Mutant: the script of a button runs for as long as it is pressed.       *)
DueHeld(frame) == {i \in frame.next .. Len(Buttons) : Buttons[i] \in b}

(* The buttons whose scripts this call has still to run.  old was saved    *)
(* when the call began; b is what the scripts run since left of it.        *)
Due(frame) == {i \in frame.next .. Len(Buttons) : Buttons[i] \in b \ frame.old}

FireButton ==
  /\ stack # <<>> /\ Last(stack).at = "fire"
  /\ Due(Last(stack)) # {}
  /\ LET i == Min(Due(Last(stack)))
     IN  /\ stack' = [stack EXCEPT ![Len(stack)].next = i + 1] \o <<Frame("script")>>
         /\ fired' = [fired EXCEPT ![Buttons[i]] = @ + 1]
  /\ UNCHANGED <<outside, keyboard, buffer, b, kill, unpressed, killswitch>>

UpdateReturns ==
  /\ stack # <<>> /\ Last(stack).at = "fire"
  /\ Due(Last(stack)) = {}
  /\ stack' = Front(stack)
  /\ UNCHANGED <<outside, keyboard, buffer, controls, killswitch>>

-----------------------------------------------------------------------------
(* Scripts.                                                                *)

InScript == stack # <<>> /\ Last(stack).at = "script"
Updates  == Cardinality({i \in DOMAIN stack : stack[i].at # "script"})

EngineRunsScript ==
  /\ stack = <<>> /\ stack' = <<Frame("script")>>
  /\ UNCHANGED <<outside, keyboard, buffer, controls, killswitch>>

ScriptReturns ==
  /\ InScript /\ stack' = Front(stack)
  /\ UNCHANGED <<outside, keyboard, buffer, controls, killswitch>>

CallUpdateControls == InScript /\ Updates < MaxUpdates /\ UpdateControls

Unpress(k) ==
  /\ InScript /\ k \in b
  /\ kill' = kill \cup {k} /\ b' = b \ {k}
  /\ unpressed' = IF k \in keys THEN unpressed \cup {k} ELSE unpressed
  /\ fired' = [fired EXCEPT ![k] = 0]
  /\ UNCHANGED <<outside, keyboard, buffer, killswitch, stack>>

(* Mutant: what was typed stays behind the position.                       *)
FlushKeyBufferRewinds ==
  /\ InScript
  /\ key_buffer' = key_buffer /\ key_buffer_position' = 0
  /\ typed' = <<>>
  /\ UNCHANGED <<outside, keyboard, controls, killswitch, stack>>

FlushKeyBuffer ==
  /\ InScript
  /\ key_buffer' = Empty /\ key_buffer_position' = 0
  /\ typed' = <<>>
  /\ UNCHANGED <<outside, keyboard, controls, killswitch, stack>>

SetInputKillSwitch(on) ==
  /\ InScript /\ killswitch' = on
  /\ UNCHANGED <<outside, keyboard, buffer, controls, stack>>

InputNext ==
  \/ \E k \in Keys : Press(k) \/ Release(k)
  \/ EngineUpdates \/ EngineRunsScript
  \/ ParseKeyEvent \/ ReadButtons \/ FireButton \/ UpdateReturns
  \/ CallUpdateControls \/ ScriptReturns \/ FlushKeyBuffer
  \/ \E k \in Pressable : Unpress(k)
  \/ \E on \in BOOLEAN : SetInputKillSwitch(on)

InputSpec == InputInit /\ [][InputNext]_inputVars

-----------------------------------------------------------------------------
(* Properties.                                                             *)

(* What the keyboard, the buffer and the frames on the stack hold stays in *)
(* its ranges, whatever events are read.  The position may be one past the *)
(* last cell: it is compared with the size after it was used, so that the  *)
(* next character falls behind the buffer (PositionInBuffer).              *)
InputTypeOK ==
  /\ hand \subseteq Keys /\ device \in Seq(Keys \X BOOLEAN)
  /\ keys \subseteq Keys /\ {lastpressed, repeatedkey} \subseteq Keys \cup {NULL}
  /\ key_buffer \in [Cells -> Keys \cup {NULL}]
  /\ key_buffer_position \in 0 .. KEY_BUFFER_SIZE
  /\ b \subseteq Pressable /\ kill \subseteq Pressable /\ killswitch \in BOOLEAN
  /\ stack \in Seq([at : {"script", "parse", "read", "fire"},
                    old : SUBSET Pressable, next : 1 .. (Len(Buttons) + 1)])

(* After Unpress a button is not reported again while its key is held,     *)
(* however often the controls are updated, and by whom.                    *)
UnpressHolds == b \cap unpressed = {}

(* A button that is held does not run its script again and again: at most  *)
(* once for each of the calls of UpdateControls that were under way, one   *)
(* within another, when it was pressed.                                    *)
FiredByNestingOnly == \A k \in Keys : fired[k] <= MaxUpdates

(* A key that is up does not go on typing.                                 *)
RepeatsHeldKey == repeatedkey # NULL => repeatedkey \in keys

(* What was typed since the buffer was last empty is what a script gets,   *)
(* in its order, as long as it is shorter than the buffer.                 *)
BufferExactUntilFull == Len(typed) < KEY_BUFFER_SIZE => GetKeyBuffer = typed

(* The comment at win_keyboard.cpp:27: `Position in the buffer which       *)
(* cycles through the range 0..KEY_BUFFER_SIZE - 1.'  It does not.         *)
PositionInBuffer == key_buffer_position \in Cells

(* The keyboard stays in its types, and the key buffer holds what was      *)
(* typed, in its order.                                                    *)
InputInv == InputTypeOK /\ BufferExactUntilFull

=============================================================================
