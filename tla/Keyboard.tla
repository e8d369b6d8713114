----------------------------- MODULE Keyboard ------------------------------
(***************************************************************************)
(* The keyboard interrupt (devices/kbd.c): scancodes of keys that go down  *)
(* and up become shift states and characters.  Characters are their ASCII  *)
(* codes.  The queue behind input_putc is in Console.                      *)
(***************************************************************************)
EXTENDS Integers, Sequences, FiniteSets

CONSTANTS
  KeyCodes           (* scancodes of the keys that are used                 *)

VARIABLES
  held,              (* keys that are down                                  *)
  shifts,            (* left_shift, right_shift, ... that are true          *)
  caps_lock,
  key_char,          (* the character put into the buffer last, or None     *)
  rebooted

keyboardVars == <<held, shifts, caps_lock, key_char, rebooted>>

None == -1

Map(first, chars) == [first |-> first, chars |-> chars]

invariant_keymap ==
  { Map(1, <<27>>), Map(14, <<8>>), Map(15, <<9, 81, 87, 69, 82, 84, 89, 85, 73, 79, 80>>),
    Map(28, <<13>>), Map(30, <<65, 83, 68, 70, 71, 72, 74, 75, 76>>),
    Map(44, <<90, 88, 67, 86, 66, 78, 77>>), Map(55, <<42>>), Map(57, <<32>>), Map(83, <<127>>) }

unshifted_keymap ==
  { Map(2, <<49, 50, 51, 52, 53, 54, 55, 56, 57, 48, 45, 61>>), Map(26, <<91, 93>>),
    Map(39, <<59, 39, 96>>), Map(43, <<92>>), Map(51, <<44, 46, 47>>) }

shifted_keymap ==
  { Map(2, <<33, 64, 35, 36, 37, 94, 38, 42, 40, 41, 95, 43>>), Map(26, <<123, 125>>),
    Map(39, <<58, 34, 126>>), Map(43, <<124>>), Map(51, <<60, 62, 63>>) }

(* The characters of a scancode; the maps of a table do not overlap. *)
map_key(maps, code) ==
  {m.chars[code - m.first + 1] : m \in {k \in maps : code >= k.first /\ code < k.first + Len(k.chars)}}

(* Scancodes of the shift keys; the right Alt and Ctrl have the prefix E0. *)
left_shift == 42
right_shift == 54
left_alt == 56
right_alt == 57344 + 56
left_ctrl == 29
right_ctrl == 57344 + 29
CapsLock == 58

shift_keys == {left_shift, right_shift, left_alt, right_alt, left_ctrl, right_ctrl}

(* Faulty variant: the last letter stays as it is. *)
tolower_short(c) == IF c \in 65..89 THEN c + 32 ELSE c

tolower(c) == IF c \in 65..90 THEN c + 32 ELSE c

Shift == shifts \cap {left_shift, right_shift} # {}
Alt == shifts \cap {left_alt, right_alt} # {}
Ctrl == shifts \cap {left_ctrl, right_ctrl} # {}

Chars(code, shift) ==
  map_key(invariant_keymap, code)
    \cup map_key(IF shift THEN shifted_keymap ELSE unshifted_keymap, code)

(* The character that is put into the buffer for a character of the maps. *)
Character(c, shift, caps, ctrl, alt) ==
  (IF ctrl /\ c \in 64..95 THEN c - 64 ELSE IF shift = caps THEN tolower(c) ELSE c)
    + (IF alt THEN 128 ELSE 0)

KeyboardInit == held = {} /\ shifts = {} /\ caps_lock = FALSE /\ key_char = None /\ rebooted = FALSE

ShiftState(code, release) == IF release THEN shifts \ {code} ELSE shifts \cup {code}

(* keyboard_interrupt for a key that goes down, or up (release). *)
keyboard_interrupt(code, release) ==
  /\ \/ /\ code = CapsLock
        /\ caps_lock' = IF release THEN caps_lock ELSE ~caps_lock
        /\ key_char' = None
        /\ UNCHANGED <<shifts, rebooted>>
     \/ /\ code # CapsLock /\ Chars(code, Shift) # {}
        /\ \E c \in Chars(code, Shift) :
             /\ rebooted' = (~release /\ c = 127 /\ Ctrl /\ Alt)
             /\ key_char' = IF release \/ rebooted' THEN None ELSE Character(c, Shift, caps_lock, Ctrl, Alt)
        /\ UNCHANGED <<shifts, caps_lock>>
     \/ /\ code # CapsLock /\ Chars(code, Shift) = {}
        /\ shifts' = IF code \in shift_keys THEN ShiftState(code, release) ELSE shifts
        /\ key_char' = None
        /\ UNCHANGED <<caps_lock, rebooted>>
  /\ held' = IF release THEN held \ {code} ELSE held \cup {code}

(* A key that is held repeats: it goes down again and again. *)
KeyboardNext ==
  /\ ~rebooted
  /\ \/ \E code \in KeyCodes : keyboard_interrupt(code, FALSE)
     \/ \E code \in held : keyboard_interrupt(code, TRUE)

-----------------------------------------------------------------------------
(* Properties *)

(* After any sequence of keys the shift states are those of the keys that  *)
(* are down: no Shift, Alt or Ctrl sticks, with two keys for each, keys    *)
(* that repeat and keys whose maps depend on Shift.                        *)
ShiftsHeld == shifts = held \cap shift_keys

Typable(caps) ==
  UNION {{Character(c, shift, caps, FALSE, FALSE) : c \in Chars(code, shift)} :
           code \in 1..83, shift \in BOOLEAN}

(* Every character of printable ASCII can be typed with one key and at     *)
(* most Shift, before and after Caps Lock changes.                         *)
AllTypable ==
  [][caps_lock' # caps_lock => 32..126 \subseteq Typable(caps_lock) \cap Typable(caps_lock')]_keyboardVars

(* Every key that is pressed counts as what the other keys make it. *)
KeysRight == []ShiftsHeld /\ AllTypable
=============================================================================
