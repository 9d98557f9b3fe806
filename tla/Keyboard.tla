------------------------------- MODULE Keyboard -------------------------------
(* The keyboard of the BIOS (src/kbd.c): the scancode machine behind int 09h, *)
(* which turns the bytes of the keyboard into shift flags and keys, the ring  *)
(* of keys in the BIOS data area, and the services of int 16h that read it    *)
(* while further interrupts come in.                                          *)
(*                                                                            *)
(* A scancode is the string of its hexadecimal digits, and a keycode names    *)
(* the entry of scan_to_keycode it was read from.  The read-only services     *)
(* (ah=02h, 09h, 0ah, 12h, 6fh, 92h, a2h) are left out.                       *)
EXTENDS Naturals, Sequences

CONSTANTS
  Keys,        \* the keys that are typed, among those of KeyNames
  Services,    \* the services of int 16h that are called, among Functions
  Slots,       \* the places of kbd_buf, 16 in the code
  MaxPresses   \* bound: the number of times a key is pressed or repeats

Functions == {"00", "10", "01", "11", "05"}

KeyNames == {"LShift", "RShift", "LCtrl", "RCtrl", "LAlt", "RAlt", "CapsLock",
             "NumLock", "ScrollLock", "A", "Keypad7", "Home", "KeypadEnter",
             "Delete", "PrtScr", "Pause"}

\* kbd_ctrl_break() needs a second place; one place always stays free.
ASSUME KeyboardAssumption ==
  /\ Keys \subseteq KeyNames
  /\ Services \subseteq Functions
  /\ Slots \in Nat \ {0, 1}
  /\ MaxPresses \in Nat

VARIABLES
  kbd_flag0, kbd_flag1,         \* the sets of bits KF0_*, KF1_* that are set
  kbd_led,                      \* the lock lights as last told to the keyboard
  kbd_buf, kbd_buf_head, kbd_buf_tail,
  call,      \* the int 16h call of the program
  hook,      \* the software interrupt that process_key() has raised
  ax,        \* what int 16h returned last
  bytes,     \* sent by the keyboard, not yet read
  down,      \* the keys that are held down
  heard,     \* those whose press was processed since the last restart
  presses,   \* the number of presses and repeats
  resets,    \* the number of breaks and restarts
  numlocks   \* how many of them were of NumLock, since the last restart

flagVars == <<kbd_flag0, kbd_flag1>>
ringVars == <<kbd_buf, kbd_buf_head, kbd_buf_tail>>
callVars == <<call, kbd_led, ax>>
keyVars  == <<bytes, down, heard, presses, numlocks>>
vars == <<flagVars, ringVars, callVars, hook, keyVars, resets>>

Locks == {"CAPSACTIVE", "NUMACTIVE", "SCROLLACTIVE"}

Flag0 == Locks \cup {"RSHIFT", "LSHIFT", "CTRLACTIVE", "ALTACTIVE", "LCTRL",
                     "LALT", "SCROLL", "NUM", "CAPS"}

Flag1 == {"LAST_E1", "LAST_E0", "RCTRL", "RALT"}

Column == {"normal", "shift", "control", "alt"}

\* A keycode: the entry of the table, and whether it is the variant of the key
\* that is sent with an e0.
Keycode == [key : {"1e", "47", "53", "1c", "37", "00"}, col : Column, ext : BOOLEAN]

Break == [key |-> "00", col |-> "normal", ext |-> FALSE]

NoCall == [fn |-> "none", at |-> "none", leds |-> {}]

TypeOK ==
  /\ kbd_flag0 \subseteq Flag0
  /\ kbd_flag1 \subseteq Flag1
  /\ kbd_led \subseteq Locks
  /\ kbd_buf \in [0 .. Slots - 1 -> Keycode]
  /\ kbd_buf_head \in 0 .. Slots - 1
  /\ kbd_buf_tail \in 0 .. Slots - 1
  /\ call \in [fn : Services \cup {"none"}, at : {"none", "leds", "body"},
               leds : SUBSET Locks]
  /\ hook \in {"none", "int1b", "int1585", "int05"}
  /\ ax \in Keycode
  /\ heard \subseteq down /\ down \subseteq Keys
  /\ presses \in 0 .. MaxPresses /\ resets \in 0 .. MaxPresses
  /\ numlocks \in 0 .. MaxPresses

-------------------------------------------------------------------------------
(* The keyboard: the bytes it sends for a press, a repeat and a release.      *)

E0 == [sc |-> "e0", rel |-> FALSE]
E1 == [sc |-> "e1", rel |-> FALSE]
Press(sc) == [sc |-> sc, rel |-> FALSE]
Release(sc) == [sc |-> sc, rel |-> TRUE]

PlainCode ==
  [LShift |-> "2a", RShift |-> "36", LCtrl |-> "1d", LAlt |-> "38",
   CapsLock |-> "3a", NumLock |-> "45", ScrollLock |-> "46", A |-> "1e",
   Keypad7 |-> "47"]

ExtendedCode ==
  [RCtrl |-> "1d", RAlt |-> "38", KeypadEnter |-> "1c", Home |-> "47",
   Delete |-> "53"]

\* The keys of the cursor block are wrapped in a shift that nobody pressed (or
\* released) when NumLock (or a shift key) would change their meaning.
Wrapped == {"Home", "Delete"}

Held(keys) == down \cap keys # {}

MakeBytes(k) ==
  CASE k \in DOMAIN PlainCode -> {<<Press(PlainCode[k])>>}
    [] k \in Wrapped -> LET c == Press(ExtendedCode[k]) IN
         {<<E0, c>>, <<E0, Press("2a"), E0, c>>, <<E0, Release("2a"), E0, c>>}
    [] k \in DOMAIN ExtendedCode \ Wrapped -> {<<E0, Press(ExtendedCode[k])>>}
    [] k = "PrtScr" ->
         {IF Held({"LAlt", "RAlt"}) THEN <<Press("54")>>
          ELSE IF Held({"LCtrl", "RCtrl", "LShift", "RShift"})
          THEN <<E0, Press("37")>>
          ELSE <<E0, Press("2a"), E0, Press("37")>>}
    [] k = "Pause" ->
         {IF Held({"LCtrl", "RCtrl"}) THEN <<E0, Press("46"), E0, Release("46")>>
          ELSE <<E1, Press("1d"), Press("45"), E1, Release("1d"), Release("45")>>}

BreakBytes(k) ==
  CASE k \in DOMAIN PlainCode -> {<<Release(PlainCode[k])>>}
    [] k \in Wrapped -> LET c == Release(ExtendedCode[k]) IN
         {<<E0, c>>, <<E0, c, E0, Release("2a")>>, <<E0, c, E0, Press("2a")>>}
    [] k \in DOMAIN ExtendedCode \ Wrapped -> {<<E0, Release(ExtendedCode[k])>>}
    [] k = "PrtScr" ->
         {IF Held({"LAlt", "RAlt"}) THEN <<Release("54")>>
          ELSE IF Held({"LCtrl", "RCtrl", "LShift", "RShift"})
          THEN <<E0, Release("37")>>
          ELSE <<E0, Release("37"), E0, Release("2a")>>}
    [] k = "Pause" -> {}

\* The user presses a key, or holds it until it repeats.
PressKey(k) ==
  /\ bytes = <<>> /\ presses < MaxPresses
  /\ bytes' \in MakeBytes(k)
  /\ presses' = presses + 1
  /\ down' = IF k = "Pause" THEN down ELSE down \cup {k}
  /\ heard' = heard \cup (down' \cap {k})
  /\ numlocks' = IF k = "NumLock" THEN numlocks + 1 ELSE numlocks
  /\ UNCHANGED <<flagVars, ringVars, callVars, hook, resets>>

ReleaseKey(k) ==
  /\ bytes = <<>> /\ k \in down
  /\ bytes' \in BreakBytes(k)
  /\ down' = down \ {k} /\ heard' = heard \ {k}
  /\ UNCHANGED <<flagVars, ringVars, callVars, hook, presses, numlocks, resets>>

-------------------------------------------------------------------------------
(* The ring of keys.                                                          *)

Advance(i) == (i + 1) % Slots

\* The keys in the ring, the oldest first.
Contents ==
  [i \in 1 .. (kbd_buf_tail + Slots - kbd_buf_head) % Slots |->
     kbd_buf[(kbd_buf_head + i - 1) % Slots]]

\* Deviation: a full ring is not noticed.
enqueue_key_unchecked(keycode) ==
  /\ kbd_buf' = [kbd_buf EXCEPT ![kbd_buf_tail] = keycode]
  /\ kbd_buf_tail' = Advance(kbd_buf_tail)
  /\ UNCHANGED kbd_buf_head

\* A full ring drops the key.
enqueue_key(keycode) ==
  IF Advance(kbd_buf_tail) = kbd_buf_head
  THEN UNCHANGED ringVars
  ELSE /\ kbd_buf' = [kbd_buf EXCEPT ![kbd_buf_tail] = keycode]
       /\ kbd_buf_tail' = Advance(kbd_buf_tail)
       /\ UNCHANGED kbd_buf_head

\* What the services that know only the old keyboards make of a keycode.  The
\* alt entries of the new keys have codes of their own and stay.
Standard(k) == IF k.col = "alt" THEN k ELSE [k EXCEPT !.ext = FALSE]

\* dequeue_key() behind its waiting loop.
dequeue_key(fn) ==
  /\ kbd_buf_head # kbd_buf_tail
  /\ ax' = IF fn \in {"10", "11"} THEN kbd_buf[kbd_buf_head]
           ELSE Standard(kbd_buf[kbd_buf_head])
  /\ kbd_buf_head' = IF fn \in {"00", "10"} THEN Advance(kbd_buf_head)
                     ELSE kbd_buf_head
  /\ UNCHANGED <<kbd_buf, kbd_buf_tail>>

-------------------------------------------------------------------------------
(* int 09h                                                                    *)

Xor(S, T) == (S \ T) \cup (T \ S)

\* kbd_flag1 as __process_key() leaves it before it looks at the key.
Flag1Cleared == kbd_flag1 \ {"LAST_E0", "LAST_E1"}

\* Deviation: the release of a right hand key leaves its bit behind.
kbd_set_flag_keeps(rel, set_bit0, set_bit1, toggle_bit) ==
  /\ kbd_flag0' = IF rel THEN kbd_flag0 \ set_bit0
                  ELSE Xor(kbd_flag0, toggle_bit) \cup set_bit0
  /\ kbd_flag1' = IF rel THEN Flag1Cleared ELSE Flag1Cleared \cup set_bit1

kbd_set_flag(rel, set_bit0, set_bit1, toggle_bit) ==
  /\ kbd_flag0' = IF rel THEN kbd_flag0 \ set_bit0
                  ELSE Xor(kbd_flag0, toggle_bit) \cup set_bit0
  /\ kbd_flag1' = IF rel THEN Flag1Cleared \ set_bit1
                  ELSE Flag1Cleared \cup set_bit1

kbd_ctrl_break(rel) ==
  /\ IF rel THEN /\ kbd_buf_head' = 0 /\ kbd_buf_tail' = 1
                 /\ kbd_buf' = [kbd_buf EXCEPT ![0] = Break]
                 /\ hook' = "int1b" /\ resets' = resets + 1
     ELSE UNCHANGED <<ringVars, hook, resets>>
  /\ kbd_flag1' = Flag1Cleared /\ UNCHANGED kbd_flag0

\* reset(), and the bda_init() and kbd_init() of the POST phase that follows;
\* the keyboard forgets what it has not sent (ATKBD_CMD_RESET_BAT).
Restart ==
  /\ kbd_flag0' = {} /\ kbd_flag1' = {} /\ kbd_led' = {}
  /\ kbd_buf' = [i \in 0 .. Slots - 1 |-> Break]
  /\ kbd_buf_head' = 0 /\ kbd_buf_tail' = 0
  /\ call' = NoCall /\ hook' = "none" /\ bytes' = <<>>
  /\ heard' = {} /\ numlocks' = 0 /\ resets' = resets + 1
  /\ UNCHANGED <<ax, down, presses>>

\* Keys in __process_key() that act without a keycode, and the bits they set
\* in kbd_flag0 and kbd_flag1 and toggle.
FlagBits(sc, e0) ==
  CASE sc = "3a" -> <<{"CAPS"}, {}, {"CAPSACTIVE"}>>
    [] sc = "2a" -> <<{"LSHIFT"}, {}, {}>>
    [] sc = "36" -> <<{"RSHIFT"}, {}, {}>>
    [] sc = "1d" -> IF e0 THEN <<{"CTRLACTIVE"}, {"RCTRL"}, {}>>
                    ELSE <<{"CTRLACTIVE", "LCTRL"}, {}, {}>>
    [] sc = "38" -> IF e0 THEN <<{"ALTACTIVE"}, {"RALT"}, {}>>
                    ELSE <<{"ALTACTIVE", "LALT"}, {}, {}>>
    [] sc = "45" -> <<{"NUM"}, {}, {"NUMACTIVE"}>>
    [] sc = "46" -> <<{"SCROLL"}, {}, {"SCROLLACTIVE"}>>

FlagCodes == {"3a", "2a", "36", "1d", "38", "45", "46"}

\* The shift that wraps the keys of the cursor block, and the pause key.
Ignored(b, e0, e1) == (e0 /\ b.sc \in {"2a", "36"}) \/ (e1 /\ b.sc = "45")

SetsFlags(b, e0, e1) ==
  /\ b.sc \in FlagCodes /\ ~Ignored(b, e0, e1)
  /\ ~(e0 /\ b.sc = "46") /\ ~(e1 /\ b.sc = "1d")

\* The column of scan_to_keycode a key is looked up in.
ColumnOf(sc) ==
  LET keypad == sc \in {"47", "53"}
      toggled == (keypad /\ "NUMACTIVE" \in kbd_flag0)
                   \/ (sc = "1e" /\ "CAPSACTIVE" \in kbd_flag0)
      shift == kbd_flag0 \cap {"LSHIFT", "RSHIFT"} # {}
  IN  CASE "ALTACTIVE" \in kbd_flag0 -> "alt"
        [] "ALTACTIVE" \notin kbd_flag0 /\ "CTRLACTIVE" \in kbd_flag0 -> "control"
        [] OTHER -> IF shift # toggled THEN "shift" ELSE "normal"

\* The table has no entry for the keys of the keypad together with alt.
GenericKey(b, e0) ==
  LET col == ColumnOf(b.sc)
  IN  /\ IF b.rel \/ (col = "alt" /\ b.sc \in {"47", "53"} /\ ~e0)
         THEN UNCHANGED ringVars
         ELSE enqueue_key([key |-> b.sc, col |-> col,
                           ext |-> e0 /\ b.sc \in {"47", "53", "1c"}])
      /\ kbd_flag1' = Flag1Cleared /\ UNCHANGED <<kbd_flag0, hook, resets>>

\* A key that raises a software interrupt and does nothing else.
RaisingKey(intr) ==
  /\ hook' = intr
  /\ kbd_flag1' = Flag1Cleared /\ UNCHANGED <<kbd_flag0, ringVars, resets>>

IgnoredKey ==
  kbd_flag1' = Flag1Cleared /\ UNCHANGED <<kbd_flag0, ringVars, hook, resets>>

\* __process_key() with one byte, the restart excepted.
__process_key(b) ==
  LET e0 == "LAST_E0" \in kbd_flag1
      e1 == "LAST_E1" \in kbd_flag1
  IN  CASE b.sc \in {"e0", "e1"} ->
             /\ kbd_flag1' = kbd_flag1 \cup {IF b.sc = "e0" THEN "LAST_E0" ELSE "LAST_E1"}
             /\ UNCHANGED <<kbd_flag0, ringVars, hook, resets>>
        [] e1 /\ b.sc = "1d" -> UNCHANGED <<flagVars, ringVars, hook, resets>>
        [] Ignored(b, e0, e1) -> IgnoredKey
        [] e0 /\ b.sc = "46" -> kbd_ctrl_break(b.rel)
        [] e0 /\ b.sc = "37" -> IF b.rel THEN IgnoredKey ELSE RaisingKey("int05")
        [] b.sc = "54" -> RaisingKey("int1585")
        [] SetsFlags(b, e0, e1) ->
             LET bits == FlagBits(b.sc, e0)
             IN  /\ kbd_set_flag(b.rel, bits[1], bits[2], bits[3])
                 /\ UNCHANGED <<ringVars, hook, resets>>
        [] OTHER -> GenericKey(b, e0)

CtrlAltDel(b) ==
  b = Press("53") /\ {"CTRLACTIVE", "ALTACTIVE"} \subseteq kbd_flag0

\* The keyboard interrupt; another one waits for the end of this one, and with
\* that for the return of the software interrupt.
handle_09 ==
  /\ bytes # <<>> /\ hook = "none"
  /\ IF CtrlAltDel(Head(bytes))
     THEN Restart
     ELSE /\ __process_key(Head(bytes))
          /\ bytes' = Tail(bytes)
          /\ UNCHANGED <<callVars, down, heard, presses, numlocks>>

HookReturns ==
  /\ hook # "none" /\ hook' = "none"
  /\ UNCHANGED <<flagVars, ringVars, callVars, keyVars, resets>>

-------------------------------------------------------------------------------
(* int 16h                                                                    *)

ShiftFlags == kbd_flag0 \cap Locks

\* The program enters handle_16(); set_leds() sends a command only if the
\* lights are not as the flags say.
Int16(fn) ==
  /\ call = NoCall /\ hook = "none"
  /\ call' = IF ShiftFlags = kbd_led THEN [fn |-> fn, at |-> "body", leds |-> {}]
             ELSE [fn |-> fn, at |-> "leds", leds |-> ShiftFlags]
  /\ UNCHANGED <<flagVars, ringVars, kbd_led, ax, hook, keyVars, resets>>

\* kbd_command() returns to set_leds(); interrupts have come in meanwhile.
set_leds ==
  /\ call.at = "leds" /\ hook = "none"
  /\ kbd_led' \in {call.leds, kbd_led}
  /\ call' = [call EXCEPT !.at = "body", !.leds = {}]
  /\ UNCHANGED <<flagVars, ringVars, ax, hook, keyVars, resets>>

\* The service proper.  A read waits in yield_toirq() for a key, a check
\* returns without one, and ah=05h stores one.
Service(fn) ==
  \/ fn \in {"00", "10", "01", "11"} /\ dequeue_key(fn)
  \/ /\ fn \in {"01", "11"} /\ kbd_buf_head = kbd_buf_tail
     /\ UNCHANGED <<ringVars, ax>>
  \/ /\ fn = "05"
     /\ enqueue_key([key |-> "1c", col |-> "normal", ext |-> TRUE])
     /\ UNCHANGED ax

Int16Body ==
  /\ call.at = "body" /\ hook = "none"
  /\ Service(call.fn)
  /\ call' = NoCall
  /\ UNCHANGED <<flagVars, kbd_led, hook, keyVars, resets>>

\* A program that has hooked the software interrupt uses int 16h in it, while
\* the program underneath may be in the middle of a call of its own.
HookInt16(fn) ==
  /\ hook # "none"
  /\ kbd_led' \in {ShiftFlags, kbd_led}
  /\ Service(fn)
  /\ UNCHANGED <<flagVars, call, hook, keyVars, resets>>

-------------------------------------------------------------------------------

Init ==
  /\ kbd_flag0 = {} /\ kbd_flag1 = {} /\ kbd_led = {}
  /\ kbd_buf = [i \in 0 .. Slots - 1 |-> Break]
  /\ kbd_buf_head = 0 /\ kbd_buf_tail = 0
  /\ call = NoCall /\ hook = "none" /\ ax = Break
  /\ bytes = <<>> /\ down = {} /\ heard = {} /\ presses = 0 /\ numlocks = 0
  /\ resets = 0

Next ==
  \/ \E k \in Keys : PressKey(k) \/ ReleaseKey(k)
  \/ handle_09
  \/ HookReturns
  \/ \E fn \in Services : Int16(fn) \/ HookInt16(fn)
  \/ set_leds
  \/ Int16Body

Spec == Init /\ [][Next]_vars

-------------------------------------------------------------------------------
(* Properties                                                                 *)

\* The bits of kbd_flag0 and kbd_flag1 that say that a key is held.
HeldFlags ==
  (kbd_flag0 \ (Locks \cup {"CTRLACTIVE", "ALTACTIVE"})) \cup kbd_flag1

FlagOf ==
  [LShift |-> "LSHIFT", RShift |-> "RSHIFT", LCtrl |-> "LCTRL", RCtrl |-> "RCTRL",
   LAlt |-> "LALT", RAlt |-> "RALT", CapsLock |-> "CAPS", NumLock |-> "NUM",
   ScrollLock |-> "SCROLL"]

\* Whenever every byte has been processed, the flags that programs read with
\* int 16h say exactly which keys are held, whatever prefixes, wrapping shifts
\* and restarts there were; no half of an e0 or e1 sequence is left over, and
\* with no key held neither ctrl nor alt is active.
KeyFlags ==
  bytes = <<>> =>
    /\ HeldFlags = {FlagOf[k] : k \in heard \cap DOMAIN FlagOf}
    /\ heard = {} => kbd_flag0 \cap {"CTRLACTIVE", "ALTACTIVE"} = {}

\* NumLock toggles once for each time it was pressed, and the pause key, whose
\* last byte is the one of NumLock, does not toggle it.
LockCounted ==
  bytes = <<>> => ("NUMACTIVE" \in kbd_flag0 <=> numlocks % 2 = 1)

\* What int 16h tells of the keyboard is what was done on it.
FlagsTellKeys == TypeOK /\ KeyFlags /\ LockCounted

Queue == INSTANCE KeyQueue WITH
  Key <- Keycode, Plain <- Standard, Mark <- Break, Capacity <- Slots - 1,
  queue <- Contents, seen <- ax, resets <- resets

\* The ring and int 16h implement a first-in first-out queue, however
\* interrupts, breaks and calls from within interrupts come in between: no key
\* is lost, repeated or overtaken once it is in the ring, and what a call
\* returns is the oldest key.
ImplementsKeyQueue == Queue!QueueSpec
===============================================================================
