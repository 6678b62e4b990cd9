------------------------------ MODULE Keyboard ------------------------------
(* The scan code decoder of devices/kbd.c.  obj is what the driver keeps; ref *)
(* is the keyboard itself: which keys are down, and Caps Lock.  One key       *)
(* stands for each class of key the tables and conditions tell apart;         *)
(* characters are ASCII codes.                                                *)
EXTENDS Integers, FiniteSets, Caller

\* Scan codes of keys.  A code above 255 is sent as 0xe0 and a second byte.
CAPS == 58
K_A == 30      \* a letter
K_1 == 2       \* 1 and !
K_LB == 26     \* [ and {, of which only [ has a control character
K_CR == 28     \* Enter, the same with every modifier
K_F1 == 59     \* a key the driver knows nothing of
shift_keys == [left_shift |-> 42, right_shift |-> 54, left_alt |-> 56,
               right_alt |-> 57400, left_ctrl |-> 29, right_ctrl |-> 57373]
Modifiers == DOMAIN shift_keys
AllKeys == {CAPS, K_A, K_1, K_LB, K_CR, K_F1} \cup {shift_keys[m] : m \in Modifiers}

invariant_keymap == [k \in {K_A, K_CR} |-> IF k = K_A THEN 65 ELSE 13]
unshifted_keymap == [k \in {K_1, K_LB} |-> IF k = K_1 THEN 49 ELSE 91]
shifted_keymap == [k \in {K_1, K_LB} |-> IF k = K_1 THEN 33 ELSE 123]
map_key(map, code) == code \in DOMAIN map

tolower(c) == IF c \in 65..90 THEN c + 32 ELSE c
NoChar == 0

KeyInit ==
  /\ unit = "keyboard" /\ ret = NoReturn
  /\ obj = [state |-> [m \in Modifiers |-> FALSE], caps_lock |-> FALSE]
  /\ ref = [down |-> {}, caps |-> FALSE]

\* The character keyboard_interrupt() makes of c.
Translate(c, shift, alt, ctrl, caps) ==
  LET d == IF ctrl /\ c >= 64 /\ c < 96 THEN c - 64
           ELSE IF shift = caps THEN tolower(c) ELSE c
  IN  IF alt THEN d + 128 ELSE d

\* Mutant: a release is taken for the release of both keys of a pair.
ReleasePair(o, code, release) ==
  [o EXCEPT !.state = [m \in Modifiers |->
     IF \/ shift_keys[m] = code
        \/ release /\ {m, CHOOSE x \in Modifiers : shift_keys[x] = code} = {"left_shift", "right_shift"}
     THEN ~release ELSE @[m]]]
SetState(o, code, release) ==
  [o EXCEPT !.state = [m \in Modifiers |-> IF shift_keys[m] = code THEN ~release ELSE @[m]]]

\* keyboard_interrupt() for the one or two bytes read, of which the lower one
\* has the bit 0x80 when the key is released.
Interpret(o, raw) ==
  LET release == (raw \div 128) % 2 = 1
      code == IF release THEN raw - 128 ELSE raw
      shift == o.state["left_shift"] \/ o.state["right_shift"]
      alt   == o.state["left_alt"] \/ o.state["right_alt"]
      ctrl  == o.state["left_ctrl"] \/ o.state["right_ctrl"]
      second == IF shift THEN shifted_keymap ELSE unshifted_keymap
  IN  CASE code = CAPS -> [o |-> [o EXCEPT !.caps_lock = IF release THEN @ ELSE ~@], c |-> NoChar]
        [] code # CAPS /\ (map_key(invariant_keymap, code) \/ map_key(second, code)) ->
             [o |-> o, c |-> IF release THEN NoChar
                             ELSE Translate(IF map_key(invariant_keymap, code)
                                            THEN invariant_keymap[code] ELSE second[code],
                                            shift, alt, ctrl, o.caps_lock)]
        [] OTHER -> [o |-> IF \E m \in Modifiers : shift_keys[m] = code
                           THEN SetState(o, code, release) ELSE o, c |-> NoChar]

-----------------------------------------------------------------------------
Down(l, r) == {shift_keys[l], shift_keys[r]} \cap ref.down # {}
\* What a typist who holds the keys down expects of key k.
Expected_c(k) ==
  LET shift == Down("left_shift", "right_shift")
      ctrl == Down("left_ctrl", "right_ctrl")
      plain == CASE k = K_A -> IF ctrl THEN 1 ELSE IF shift # ref.caps THEN 65 ELSE 97
                 [] k = K_1 -> IF shift THEN 33 ELSE 49
                 [] k = K_LB -> IF shift THEN 123 ELSE IF ctrl THEN 27 ELSE 91
                 [] k = K_CR -> 13
                 [] OTHER -> NoChar
  IN  IF plain # NoChar /\ Down("left_alt", "right_alt") THEN plain + 128 ELSE plain

\* A key that stays down repeats its code.
KeyPress(k) ==
  LET r == Interpret(obj, k) IN
  /\ unit = "keyboard"
  /\ Does(r.o, [down |-> ref.down \cup {k}, caps |-> IF k = CAPS THEN ~ref.caps ELSE ref.caps],
          r.c, Expected_c(k))
KeyRelease(k) ==
  LET r == Interpret(obj, k + 128) IN
  /\ unit = "keyboard" /\ k \in ref.down
  /\ Does(r.o, [ref EXCEPT !.down = @ \ {k}], r.c, NoChar)

KeyNext == \E k \in AllKeys : KeyPress(k) \/ KeyRelease(k)

\* Whatever keys were pressed and released before, in whatever order, the
\* modifiers kbd.c keeps are the ones that are down and a key gives the
\* character those modifiers and Caps Lock make of it.
KeyboardExact ==
  unit = "keyboard" =>
    /\ ret.got = ret.want
    /\ obj.caps_lock = ref.caps
    /\ \A m \in Modifiers : obj.state[m] = (shift_keys[m] \in ref.down)
=============================================================================
