------------------------------ MODULE Keyboard ------------------------------
(***************************************************************************)
(* The keyboard interrupt, device/keyboard/keyboard.c: one byte from the   *)
(* keyboard at a time becomes a change of a modifier or a character for    *)
(* the input queue (module InputQueue, which drops it when full).          *)
(*                                                                         *)
(* scan_code_1 has 59 bytes.  For a larger scan code, and for the prefix,  *)
(* which is looked up as a release of code 96, the handler reads what the  *)
(* build put behind the table: any characters, modifiers among them.       *)
(***************************************************************************)
EXTENDS Integers, Sequences, FiniteSets

CONSTANTS
  Plain,      \* [scan code -> character] of scan_code_1, in part
  Shifted,    \* the same of scan_code_1_shift
  Beyond,     \* what may lie behind the tables: <<[scan code -> character] of each>>
  Keys,       \* [key -> the scan codes of a press]
  MaxEvents   \* bound: keys pressed and released

VARIABLES
  wire,         \* bytes that the keyboard has still to send
  shift_pressed, ctrl_pressed, alt_pressed, prev_scan,
  behind,       \* what lies behind the two tables
  put,          \* the characters given to inputPutc
  events        \* ghost: <<key, pressed>>, in their order

vars == <<wire, shift_pressed, ctrl_pressed, alt_pressed, prev_scan, behind, put, events>>

NUL == "nul"
Prefix == 224
Release == 128
Modifiers == {"shift", "control", "alt"}

\* The tables, and what follows them.
scan_code_1(scan) == IF scan \in DOMAIN Plain THEN Plain[scan] ELSE behind[1][scan]
scan_code_1_shift(scan) == IF scan \in DOMAIN Shifted THEN Shifted[scan] ELSE behind[2][scan]

Init ==
  /\ wire = <<>> /\ put = <<>> /\ events = <<>>
  /\ shift_pressed = FALSE /\ ctrl_pressed = FALSE /\ alt_pressed = FALSE
  /\ prev_scan = 0
  /\ behind \in Beyond

\* The last event of the key was a press.
Held(k) == \E i \in DOMAIN events :
             /\ events[i] = <<k, TRUE>>
             /\ \A j \in i + 1 .. Len(events) : events[j][1] # k

\* A key is pressed (again, when it is held down) or released.  The code of a
\* release has the top bit; the prefix is sent with both.
Event(k, pressed) ==
  /\ wire = <<>> /\ Len(events) < MaxEvents
  /\ pressed \/ Held(k)
  /\ events' = Append(events, <<k, pressed>>)
  /\ wire' = [i \in DOMAIN Keys[k] |->
                IF pressed \/ Keys[k][i] >= Release THEN Keys[k][i] ELSE Keys[k][i] + Release]
  /\ UNCHANGED <<shift_pressed, ctrl_pressed, alt_pressed, prev_scan, behind, put>>

Arrows == [scan \in {72, 75, 77, 80} |->
             CASE scan = 72 -> "up" [] scan = 75 -> "left" [] scan = 77 -> "right" [] scan = 80 -> "down"]

\* Mutant: an arrow is known by its code alone.
CharacterBare(scan) ==
  LET t == scan_code_1(scan)
  IN  CASE t = "backspace" -> "BS" [] t = "enter" -> "LF"
      [] scan \in DOMAIN Arrows -> Arrows[scan]
      [] OTHER -> IF ctrl_pressed /\ t = "l" THEN "clear"
                  ELSE IF shift_pressed THEN scan_code_1_shift(scan) ELSE t

\* The character of a key that is no modifier.
Character(scan) ==
  LET t == scan_code_1(scan)
  IN  CASE t = "backspace" -> "BS" [] t = "enter" -> "LF"
      [] t \notin {"backspace", "enter"} /\ prev_scan # Prefix ->
           IF ctrl_pressed /\ t = "l" THEN "clear"
           ELSE IF shift_pressed THEN scan_code_1_shift(scan) ELSE t
      [] OTHER -> IF scan \in DOMAIN Arrows THEN Arrows[scan] ELSE NUL

irqKeyboardHandler ==
  LET scan == Head(wire)
      released == scan >= Release
      t == scan_code_1(scan % Release)
  IN  /\ wire # <<>> /\ wire' = Tail(wire)
      /\ shift_pressed' = IF t = "shift" THEN ~released ELSE shift_pressed
      /\ ctrl_pressed' = IF t = "control" THEN ~released ELSE ctrl_pressed
      /\ alt_pressed' = IF t = "alt" THEN ~released ELSE alt_pressed
      /\ put' = IF released \/ t \in Modifiers THEN put
                ELSE Append(put, Character(scan))
      /\ prev_scan' = scan
      /\ UNCHANGED <<behind, events>>

Next == irqKeyboardHandler \/ \E k \in DOMAIN Keys, p \in BOOLEAN : Event(k, p)

Spec == Init /\ [][Next]_vars

-----------------------------------------------------------------------------
(* Properties.                                                             *)

Code(k) == Keys[k][Len(Keys[k])]
Prefixed(k) == Len(Keys[k]) > 1

\* What the tables say of a key, and of the prefix.
Sign(k) == scan_code_1(Code(k))
PrefixSign == scan_code_1(Prefix % Release)

\* The events before i that set or reset a modifier: those of its keys, which share
\* their flag, and those with a prefix when the prefix reads as its release.
Of(name, i) == {j \in 1 .. i - 1 : \/ Sign(events[j][1]) = name
                                   \/ Prefixed(events[j][1]) /\ PrefixSign = name}

\* A modifier is on at event i when the last of those was a press of a key of its.
On(name, i) == \E j \in Of(name, i) : /\ events[j][2] /\ Sign(events[j][1]) = name
                                      /\ \A l \in Of(name, i) : l <= j

\* What a press means, read off the key and the modifiers at that time.
Meaning(i) ==
  LET k == events[i][1]
  IN  IF Sign(k) = "enter" THEN "LF"
      ELSE IF Sign(k) = "backspace" THEN "BS"
      ELSE IF Prefixed(k) THEN IF k \in {"up", "left", "right", "down"} THEN k ELSE NUL
      ELSE IF On("control", i) /\ Sign(k) = "l" THEN "clear"
      ELSE IF On("shift", i) THEN scan_code_1_shift(Code(k)) ELSE Sign(k)

\* The presses of keys that are no modifier.
Typed == {i \in DOMAIN events : events[i][2] /\ Sign(events[i][1]) \notin Modifiers}

\* What is assumed of the keys: one code, with a prefix or without, whose release
\* does not look like the prefix; an arrow is a key with a prefix.
Layout ==
  \A k \in DOMAIN Keys : \E c \in 1 .. 127 \ {Prefix % Release} :
    \/ Keys[k] = <<c>>
    \/ /\ Keys[k] = <<Prefix, c>>
       /\ IF c \in DOMAIN Arrows THEN k = Arrows[c]
          ELSE k \notin {"up", "left", "right", "down"}

\* Every press of a key that is no modifier arrives once and in order, with the
\* meaning its modifiers gave it when it was pressed, however presses, releases
\* and the prefix bytes of the keys before it came (irqKeyboardHandler).  A code
\* outside the tables means what lies in memory there.
KeysArrive ==
  wire = <<>> =>
    /\ Len(put) = Cardinality(Typed)
    /\ \A i \in Typed : put[Cardinality({j \in Typed : j <= i})] = Meaning(i)
=============================================================================
