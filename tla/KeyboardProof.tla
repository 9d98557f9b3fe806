---------------------------- MODULE KeyboardProof ----------------------------
(* Proofs about the keyboard: the ring with int 16h implements the queue of   *)
(* KeyQueue for every size of the ring, and the flags tell which keys are     *)
(* held for every set of keys and every number of presses.                    *)
EXTENDS Keyboard, TLAPS

-------------------------------------------------------------------------------
(* The ring: a buffer buf of which the places from h up to t hold keys.       *)

Slot == 0 .. Slots - 1

Place(h, i) == (h + i - 1) % Slots

Filled(h, t) == (t + Slots - h) % Slots

KeysIn(buf, h, t) == [i \in 1 .. Filled(h, t) |-> buf[Place(h, i)]]

\* The ring has at least two places (kbd_ctrl_break() uses both).
LEMMA Size == Slots \in Nat /\ Slots >= 2
  BY KeyboardAssumption

\* A place of the ring after at most one turn.
LEMMA Turn ==
  ASSUME NEW a \in 0 .. 2 * Slots - 1
  PROVE  /\ a % Slots = IF a < Slots THEN a ELSE a - Slots
         /\ a % Slots \in Slot
<1>1. a % Slots = IF a < Slots THEN a ELSE a - Slots
  BY Size, SMTT(30)
<1> QED
  BY <1>1, Size DEF Slot

\* The place after one.
LEMMA Advances ==
  ASSUME NEW i \in Slot
  PROVE  /\ Advance(i) = IF i = Slots - 1 THEN 0 ELSE i + 1
         /\ Advance(i) \in Slot
<1>1. i + 1 \in 0 .. 2 * Slots - 1
  BY Size DEF Slot
<1>2. Advance(i) = IF i + 1 < Slots THEN i + 1 ELSE i + 1 - Slots
  BY <1>1, Turn, Size DEF Advance, Slot
<1> QED
  BY <1>2, Size DEF Slot

\* How many keys the ring holds.
LEMMA Count ==
  ASSUME NEW h \in Slot, NEW t \in Slot
  PROVE  /\ Filled(h, t) \in Slot
         /\ h <= t => Filled(h, t) = t - h
         /\ ~(h <= t) => Filled(h, t) = t + Slots - h
<1>1. t + Slots - h \in 0 .. 2 * Slots - 1
  BY Size DEF Slot
<1>2. Filled(h, t) = IF t + Slots - h < Slots THEN t + Slots - h
                     ELSE t + Slots - h - Slots
  BY <1>1, Turn, Size, SMTT(30) DEF Filled, Slot
<1> QED
  BY <1>2, Size DEF Slot

\* Where the i-th key lies.
LEMMA Places ==
  ASSUME NEW h \in Slot, NEW i \in 1 .. Slots
  PROVE  /\ Place(h, i) \in Slot
         /\ h + i <= Slots => Place(h, i) = h + i - 1
         /\ ~(h + i <= Slots) => Place(h, i) = h + i - 1 - Slots
<1>1. h + i - 1 \in 0 .. 2 * Slots - 1
  BY Size DEF Slot
<1>2. Place(h, i) = IF h + i - 1 < Slots THEN h + i - 1 ELSE h + i - 1 - Slots
  BY <1>1, Turn, Size, SMTT(40) DEF Place, Slot
<1> QED
  BY <1>2, Size DEF Slot

\* The keys in the ring are a sequence of keycodes.
LEMMA Kept ==
  ASSUME NEW h \in Slot, NEW t \in Slot, NEW buf \in [Slot -> Keycode]
  PROVE  /\ KeysIn(buf, h, t) \in Seq(Keycode)
         /\ Len(KeysIn(buf, h, t)) = Filled(h, t)
         /\ \A i \in 1 .. Filled(h, t) : KeysIn(buf, h, t)[i] = buf[Place(h, i)]
<1>1. Filled(h, t) \in Slot
  BY Count
<1>2. Filled(h, t) \in Nat /\ \A i \in 1 .. Filled(h, t) : i \in 1 .. Slots
  BY <1>1, Size DEF Slot
<1>3. \A i \in 1 .. Filled(h, t) : buf[Place(h, i)] \in Keycode
  BY <1>2, Places
<1>4. KeysIn(buf, h, t) \in [1 .. Filled(h, t) -> Keycode]
  BY <1>3 DEF KeysIn
<1> QED
  BY <1>2, <1>4 DEF KeysIn

\* A ring that looks empty holds no key, and one that is full holds a key in
\* every place but one.
LEMMA Ends ==
  ASSUME NEW h \in Slot, NEW t \in Slot, NEW buf \in [Slot -> Keycode]
  PROVE  /\ h = t <=> KeysIn(buf, h, t) = <<>>
         /\ Advance(t) # h <=> Len(KeysIn(buf, h, t)) < Slots - 1
         /\ h # t => Head(KeysIn(buf, h, t)) = buf[h]
<1> DEFINE n == Filled(h, t)
           keys == KeysIn(buf, h, t)
<1>1. /\ n \in Slot
      /\ h <= t => n = t - h
      /\ ~(h <= t) => n = t + Slots - h
  BY Count
<1>2. /\ Advance(t) \in Slot
      /\ Advance(t) = IF t = Slots - 1 THEN 0 ELSE t + 1
  BY Advances
<1>3. /\ keys \in Seq(Keycode) /\ Len(keys) = n
      /\ \A i \in 1 .. n : keys[i] = buf[Place(h, i)]
  BY Kept
<1> HIDE DEF n, keys
<1>4. n \in Nat /\ (n = 0 <=> h = t) /\ (Advance(t) # h <=> n < Slots - 1)
  BY <1>1, <1>2, Size DEF Slot
<1>5. keys = <<>> <=> n = 0
  BY <1>3, <1>4
<1>6. ASSUME h # t
      PROVE  Head(keys) = buf[h]
  <2>1. 1 \in 1 .. n /\ 1 \in 1 .. Slots
    BY <1>4, <1>6, Size
  <2>2. h + 1 <= Slots /\ h + 1 - 1 = h
    BY Size DEF Slot
  <2>3. Place(h, 1) = h
    BY <2>1, <2>2, Places
  <2> QED
    BY <2>1, <2>3, <1>3, <1>4
<1> QED
  BY <1>3, <1>4, <1>5, <1>6 DEF keys

\* A key that is put into the ring is the youngest one.
LEMMA PutAppends ==
  ASSUME NEW h \in Slot, NEW t \in Slot, NEW buf \in [Slot -> Keycode],
         NEW k \in Keycode, Advance(t) # h
  PROVE  KeysIn([buf EXCEPT ![t] = k], h, Advance(t)) = Append(KeysIn(buf, h, t), k)
<1> DEFINE new == [buf EXCEPT ![t] = k]
           u == Advance(t)
           n == Filled(h, t)
           old_keys == KeysIn(buf, h, t)
           new_keys == KeysIn(new, h, u)
<1>1. u \in Slot /\ u = (IF t = Slots - 1 THEN 0 ELSE t + 1) /\ u # h
  BY Advances
<1>2. /\ n \in Slot
      /\ h <= t => n = t - h
      /\ ~(h <= t) => n = t + Slots - h
  BY Count
<1>3. /\ Filled(h, u) \in Slot
      /\ h <= u => Filled(h, u) = u - h
      /\ ~(h <= u) => Filled(h, u) = u + Slots - h
  BY <1>1, Count
<1>4. new \in [Slot -> Keycode]
  OBVIOUS
<1>5. /\ old_keys \in Seq(Keycode) /\ Len(old_keys) = n
      /\ \A i \in 1 .. n : old_keys[i] = buf[Place(h, i)]
  BY Kept
<1>6. /\ new_keys \in Seq(Keycode) /\ Len(new_keys) = Filled(h, u)
      /\ \A i \in 1 .. Filled(h, u) : new_keys[i] = new[Place(h, i)]
  BY <1>1, <1>4, Kept
<1> HIDE DEF n, u, old_keys, new_keys
<1>7. n \in Nat /\ n + 1 \in 1 .. Slots /\ Filled(h, u) = n + 1
  BY <1>1, <1>2, <1>3, Size DEF Slot
<1>8. ASSUME NEW i \in 1 .. n
      PROVE  new_keys[i] = old_keys[i]
  <2>1. i \in 1 .. Slots /\ i \in 1 .. n + 1
    BY <1>7, Size
  <2>2. /\ Place(h, i) \in Slot
        /\ h + i <= Slots => Place(h, i) = h + i - 1
        /\ ~(h + i <= Slots) => Place(h, i) = h + i - 1 - Slots
    BY <2>1, Places
  <2>3. Place(h, i) # t
    BY <2>1, <2>2, <1>2, <1>7, Size DEF Slot
  <2> QED
    BY <2>1, <2>2, <2>3, <1>5, <1>6, <1>7
<1>9. new_keys[n + 1] = k
  <2>1. /\ h + (n + 1) <= Slots => Place(h, n + 1) = h + (n + 1) - 1
        /\ ~(h + (n + 1) <= Slots) => Place(h, n + 1) = h + (n + 1) - 1 - Slots
    BY <1>7, Places
  <2>2. Place(h, n + 1) = t
    BY <2>1, <1>2, <1>7, Size DEF Slot
  <2> QED
    BY <2>2, <1>6, <1>7
<1>10. new_keys = Append(old_keys, k)
  <2> HIDE DEF new
  <2> QED
    BY <1>5, <1>6, <1>7, <1>8, <1>9
<1> QED
  BY <1>10 DEF new_keys, old_keys, u

\* What is taken out of the ring is the oldest key.
LEMMA TakeTails ==
  ASSUME NEW h \in Slot, NEW t \in Slot, NEW buf \in [Slot -> Keycode], h # t
  PROVE  KeysIn(buf, Advance(h), t) = Tail(KeysIn(buf, h, t))
<1> DEFINE g == Advance(h)
           n == Filled(h, t)
           old_keys == KeysIn(buf, h, t)
           new_keys == KeysIn(buf, g, t)
<1>1. g \in Slot /\ g = IF h = Slots - 1 THEN 0 ELSE h + 1
  BY Advances
<1>2. /\ n \in Slot
      /\ h <= t => n = t - h
      /\ ~(h <= t) => n = t + Slots - h
  BY Count
<1>3. /\ Filled(g, t) \in Slot
      /\ g <= t => Filled(g, t) = t - g
      /\ ~(g <= t) => Filled(g, t) = t + Slots - g
  BY <1>1, Count
<1>4. /\ old_keys \in Seq(Keycode) /\ Len(old_keys) = n
      /\ \A i \in 1 .. n : old_keys[i] = buf[Place(h, i)]
  BY Kept
<1>5. /\ new_keys \in Seq(Keycode) /\ Len(new_keys) = Filled(g, t)
      /\ \A i \in 1 .. Filled(g, t) : new_keys[i] = buf[Place(g, i)]
  BY <1>1, Kept
<1> HIDE DEF n, g, old_keys, new_keys
<1>6. n \in Nat /\ n # 0 /\ n < Slots /\ Filled(g, t) = n - 1
  BY <1>1, <1>2, <1>3, Size DEF Slot
<1>7. ASSUME NEW i \in 1 .. n - 1
      PROVE  new_keys[i] = old_keys[i + 1]
  <2>1. i \in 1 .. Slots /\ i + 1 \in 1 .. Slots /\ i + 1 \in 1 .. n
    BY <1>6, Size
  <2>2. /\ g + i <= Slots => Place(g, i) = g + i - 1
        /\ ~(g + i <= Slots) => Place(g, i) = g + i - 1 - Slots
    BY <2>1, <1>1, Places
  <2>3. /\ h + (i + 1) <= Slots => Place(h, i + 1) = h + (i + 1) - 1
        /\ ~(h + (i + 1) <= Slots) => Place(h, i + 1) = h + (i + 1) - 1 - Slots
    BY <2>1, Places
  <2>4. Place(g, i) = Place(h, i + 1)
    BY <2>1, <2>2, <2>3, <1>1, Size DEF Slot
  <2> QED
    BY <2>1, <2>4, <1>4, <1>5, <1>6
<1>8. new_keys = Tail(old_keys)
  BY <1>4, <1>5, <1>6, <1>7
<1> QED
  BY <1>8 DEF new_keys, old_keys, g

-------------------------------------------------------------------------------
(* Keys on their way                                                          *)

\* The half of a sequence that was processed.
Prefix == kbd_flag1 \cap {"LAST_E0", "LAST_E1"}

\* The bytes that are sent alone, those that follow an e0, and those that come
\* in one sequence with others.
PlainBytes ==
  [sc : {"2a", "36", "1d", "38", "3a", "45", "46", "1e", "47", "54"}, rel : BOOLEAN]

ChainBytes == [sc : {"2a", "1c", "47", "53", "37"}, rel : BOOLEAN] \cup {Press("46")}

ExtendedBytes ==
  [sc : {"2a", "1c", "47", "53", "37", "1d", "38"}, rel : BOOLEAN]
    \cup {Release("46")}

\* What is left of the sequence of a key, and the prefix it is processed under.
Alone == Prefix = {} /\ \E b \in PlainBytes : bytes = <<b>>

Extended ==
  \/ Prefix = {} /\ \E b \in ExtendedBytes : bytes = <<E0, b>>
  \/ Prefix = {"LAST_E0"} /\ \E b \in ExtendedBytes : bytes = <<b>>

Chain ==
  \E b \in ChainBytes, c \in (ChainBytes \ {Press("46")}) \cup {Release("46")} :
    \/ Prefix = {} /\ bytes = <<E0, b, E0, c>>
    \/ Prefix = {"LAST_E0"} /\ bytes = <<b, E0, c>>

PauseMakes ==
  \/ /\ Prefix = {}
     /\ \/ bytes = <<E1, Press("1d"), Press("45"), E1, Release("1d"), Release("45")>>
        \/ bytes = <<E1, Release("1d"), Release("45")>>
  \/ /\ Prefix = {"LAST_E1"}
     /\ \/ bytes = <<Press("1d"), Press("45"), E1, Release("1d"), Release("45")>>
        \/ bytes = <<Press("45"), E1, Release("1d"), Release("45")>>
        \/ bytes = <<Release("1d"), Release("45")>>
        \/ bytes = <<Release("45")>>

\* No half of a sequence is left when all bytes are processed.
SequenceInv == (bytes = <<>> /\ Prefix = {}) \/ Alone \/ Extended \/ Chain \/ PauseMakes

\* The bytes bs that are left under the prefix p set (or clear) the flag of a key.
TurningBy(bs, p, k, rel) ==
  \/ /\ k \in DOMAIN PlainCode
     /\ p = {} /\ bs = <<[sc |-> PlainCode[k], rel |-> rel]>>
  \/ /\ k \in {"RCtrl", "RAlt"}
     /\ LET b == [sc |-> ExtendedCode[k], rel |-> rel]
        IN  \/ p = {} /\ bs = <<E0, b>>
            \/ p = {"LAST_E0"} /\ bs = <<b>>

Turning(k, rel) == TurningBy(bytes, Prefix, k, rel)

FlagKeys == DOMAIN FlagOf

HeldInv ==
  \A k \in FlagKeys :
    /\ Turning(k, FALSE) => k \in heard
    /\ Turning(k, TRUE) => k \notin heard
    /\ ~Turning(k, FALSE) /\ ~Turning(k, TRUE) =>
         (FlagOf[k] \in kbd_flag0 \cup kbd_flag1 <=> k \in heard)

ActiveInv ==
  /\ "CTRLACTIVE" \in kbd_flag0 => "LCTRL" \in kbd_flag0 \/ "RCTRL" \in kbd_flag1
  /\ "ALTACTIVE" \in kbd_flag0 => "LALT" \in kbd_flag0 \/ "RALT" \in kbd_flag1

LockInv ==
  "NUMACTIVE" \in kbd_flag0 <=>
    numlocks % 2 = IF Turning("NumLock", FALSE) THEN 0 ELSE 1

\* The bytes that are left may still break or restart.
ResettingBy(bs, p) ==
  \/ \E i \in DOMAIN bs : bs[i] = Press("53")
  \/ p = {"LAST_E0"} /\ bs = <<Release("46")>>
  \/ \E i \in DOMAIN bs : i # 1 /\ bs[i] = Release("46")

Resetting == ResettingBy(bytes, Prefix)

CountInv ==
  /\ numlocks <= presses /\ resets <= presses
  /\ Resetting => resets < presses

IInv ==
  /\ TypeOK /\ SequenceInv /\ HeldInv /\ ActiveInv /\ LockInv /\ CountInv

\* What the processing of a byte that is no shift key leaves alone.
Quiet ==
  /\ kbd_flag0' = kbd_flag0
  /\ kbd_flag1' \cap {"RCTRL", "RALT"} = kbd_flag1 \cap {"RCTRL", "RALT"}
  /\ kbd_flag1' \subseteq Flag1

\* The processing of the byte that presses or releases a shift key.
Turns(k, rel) ==
  /\ kbd_flag0' \subseteq Flag0 /\ kbd_flag1' \subseteq Flag1
  /\ FlagOf[k] \in kbd_flag0' \cup kbd_flag1' <=> ~rel
  /\ \A j \in FlagKeys \ {k} :
       FlagOf[j] \in kbd_flag0' \cup kbd_flag1' <=> FlagOf[j] \in kbd_flag0 \cup kbd_flag1
  /\ "NUMACTIVE" \in kbd_flag0' <=>
       IF k = "NumLock" /\ ~rel THEN "NUMACTIVE" \notin kbd_flag0
       ELSE "NUMACTIVE" \in kbd_flag0
  /\ ActiveInv => ActiveInv'

\* The keys that turn flags, by the code that is looked up in the switch.
KeyOf(sc, e0) ==
  CASE sc = "3a" -> "CapsLock" [] sc = "2a" -> "LShift" [] sc = "36" -> "RShift"
    [] sc = "1d" -> (IF e0 THEN "RCtrl" ELSE "LCtrl")
    [] sc = "38" -> (IF e0 THEN "RAlt" ELSE "LAlt")
    [] sc = "45" -> "NumLock" [] sc = "46" -> "ScrollLock"

\* kbd_set_flag() sets and clears the flag of its key and no other.
LEMMA SetFlag ==
  ASSUME kbd_flag0 \subseteq Flag0, kbd_flag1 \subseteq Flag1,
         NEW rel \in BOOLEAN, NEW e0 \in BOOLEAN, NEW sc \in FlagCodes,
         e0 => sc \in {"1d", "38"},
         kbd_set_flag(rel, FlagBits(sc, e0)[1], FlagBits(sc, e0)[2], FlagBits(sc, e0)[3])
  PROVE  Turns(KeyOf(sc, e0), rel) /\ Prefix' = {}
<1> DEFINE bits == FlagBits(sc, e0)
<1> USE DEF kbd_set_flag, Turns, FlagKeys, FlagOf, Xor, Flag1Cleared, Flag0, Flag1, Locks,
            ActiveInv, Prefix
<1>1. CASE sc = "3a"
  <2>1. bits = <<{"CAPS"}, {}, {"CAPSACTIVE"}>> /\ KeyOf(sc, e0) = "CapsLock"
    BY <1>1 DEF FlagBits, KeyOf
  <2> QED
    BY <2>1
<1>2. CASE sc = "2a"
  <2>1. bits = <<{"LSHIFT"}, {}, {}>> /\ KeyOf(sc, e0) = "LShift"
    BY <1>2 DEF FlagBits, KeyOf
  <2> QED
    BY <2>1
<1>3. CASE sc = "36"
  <2>1. bits = <<{"RSHIFT"}, {}, {}>> /\ KeyOf(sc, e0) = "RShift"
    BY <1>3 DEF FlagBits, KeyOf
  <2> QED
    BY <2>1
<1>4. CASE sc = "1d" /\ e0
  <2>1. bits = <<{"CTRLACTIVE"}, {"RCTRL"}, {}>> /\ KeyOf(sc, e0) = "RCtrl"
    BY <1>4 DEF FlagBits, KeyOf
  <2> QED
    BY <2>1
<1>5. CASE sc = "1d" /\ ~e0
  <2>1. bits = <<{"CTRLACTIVE", "LCTRL"}, {}, {}>> /\ KeyOf(sc, e0) = "LCtrl"
    BY <1>5 DEF FlagBits, KeyOf
  <2> QED
    BY <2>1
<1>6. CASE sc = "38" /\ e0
  <2>1. bits = <<{"ALTACTIVE"}, {"RALT"}, {}>> /\ KeyOf(sc, e0) = "RAlt"
    BY <1>6 DEF FlagBits, KeyOf
  <2> QED
    BY <2>1
<1>7. CASE sc = "38" /\ ~e0
  <2>1. bits = <<{"ALTACTIVE", "LALT"}, {}, {}>> /\ KeyOf(sc, e0) = "LAlt"
    BY <1>7 DEF FlagBits, KeyOf
  <2> QED
    BY <2>1
<1>8. CASE sc = "45"
  <2>1. bits = <<{"NUM"}, {}, {"NUMACTIVE"}>> /\ KeyOf(sc, e0) = "NumLock"
    BY <1>8 DEF FlagBits, KeyOf
  <2> QED
    BY <2>1
<1>9. CASE sc = "46"
  <2>1. bits = <<{"SCROLL"}, {}, {"SCROLLACTIVE"}>> /\ KeyOf(sc, e0) = "ScrollLock"
    BY <1>9 DEF FlagBits, KeyOf
  <2> QED
    BY <2>1
<1> QED
  BY <1>1, <1>2, <1>3, <1>4, <1>5, <1>6, <1>7, <1>8, <1>9 DEF FlagCodes

\* What a byte does to the ring of keys.
RingMoves ==
  \/ UNCHANGED <<ringVars, resets>>
  \/ (\E k \in Keycode : enqueue_key(k)) /\ UNCHANGED resets
  \/ /\ kbd_buf_head' = 0 /\ kbd_buf_tail' = 1
     /\ kbd_buf' = [kbd_buf EXCEPT ![0] = Break]
     /\ resets' = resets + 1

FlagTypes == kbd_flag0 \subseteq Flag0 /\ kbd_flag1 \subseteq Flag1

HookTypes == hook \in {"none", "int1b", "int1585", "int05"}

\* A key that is no shift key.
LEMMA Generic ==
  ASSUME FlagTypes, HookTypes, NEW b, NEW e0 \in BOOLEAN,
         b.sc \in {"1e", "47", "53", "1c", "37"}, GenericKey(b, e0)
  PROVE  Quiet /\ Prefix' = {} /\ RingMoves /\ resets' = resets /\ HookTypes'
<1>1. ColumnOf(b.sc) \in Column
  BY DEF ColumnOf, Column
<1>2. [key |-> b.sc, col |-> ColumnOf(b.sc), ext |-> e0 /\ b.sc \in {"47", "53", "1c"}]
        \in Keycode
  BY <1>1 DEF Keycode
<1>3. RingMoves
  BY <1>2 DEF GenericKey, RingMoves
<1> QED
  BY <1>3 DEF GenericKey, Quiet, Prefix, Flag1Cleared, FlagTypes, HookTypes, Flag1

\* Which of its cases __process_key() takes.
LEMMA Cases ==
  ASSUME NEW b, __process_key(b)
  PROVE  LET e0 == "LAST_E0" \in kbd_flag1
             e1 == "LAST_E1" \in kbd_flag1
         IN  /\ b.sc \in {"1e", "47", "53", "1c"} \/ (b.sc = "37" /\ ~e0) =>
                  GenericKey(b, e0)
             /\ b.sc = "54" => RaisingKey("int1585")
             /\ e0 /\ b.sc = "37" /\ ~b.rel => RaisingKey("int05")
             /\ Ignored(b, e0, e1) \/ (e0 /\ b.sc = "37" /\ b.rel) => IgnoredKey
             /\ e0 /\ b.sc = "46" => kbd_ctrl_break(b.rel)
             /\ SetsFlags(b, e0, e1) =>
                  /\ kbd_set_flag(b.rel, FlagBits(b.sc, e0)[1], FlagBits(b.sc, e0)[2],
                                  FlagBits(b.sc, e0)[3])
                  /\ UNCHANGED <<ringVars, hook, resets>>
             /\ e1 /\ b.sc = "1d" => UNCHANGED <<flagVars, ringVars, hook, resets>>
             /\ b.sc \in {"e0", "e1"} =>
                  /\ kbd_flag1' =
                       kbd_flag1 \cup {IF b.sc = "e0" THEN "LAST_E0" ELSE "LAST_E1"}
                  /\ UNCHANGED <<kbd_flag0, ringVars, hook, resets>>
<1> DEFINE e0 == "LAST_E0" \in kbd_flag1
           e1 == "LAST_E1" \in kbd_flag1
<1>1. b.sc \in {"1e", "47", "53", "1c"} \/ (b.sc = "37" /\ ~e0) => GenericKey(b, e0)
  BY DEF __process_key, Ignored, SetsFlags, FlagCodes
<1>2. b.sc = "54" => RaisingKey("int1585")
  BY DEF __process_key, Ignored, SetsFlags, FlagCodes
<1>3. e0 /\ b.sc = "37" /\ ~b.rel => RaisingKey("int05")
  BY DEF __process_key, Ignored, SetsFlags, FlagCodes
<1>4. Ignored(b, e0, e1) \/ (e0 /\ b.sc = "37" /\ b.rel) => IgnoredKey
  BY DEF __process_key, Ignored, SetsFlags, FlagCodes
<1>5. e0 /\ b.sc = "46" => kbd_ctrl_break(b.rel)
  BY DEF __process_key, Ignored, SetsFlags, FlagCodes
<1>6. SetsFlags(b, e0, e1) =>
        /\ kbd_set_flag(b.rel, FlagBits(b.sc, e0)[1], FlagBits(b.sc, e0)[2],
                        FlagBits(b.sc, e0)[3])
        /\ UNCHANGED <<ringVars, hook, resets>>
  BY DEF __process_key, Ignored, SetsFlags, FlagCodes
<1>7. e1 /\ b.sc = "1d" => UNCHANGED <<flagVars, ringVars, hook, resets>>
  BY DEF __process_key, Ignored, SetsFlags, FlagCodes
<1>8. b.sc \in {"e0", "e1"} =>
        /\ kbd_flag1' = kbd_flag1 \cup {IF b.sc = "e0" THEN "LAST_E0" ELSE "LAST_E1"}
        /\ UNCHANGED <<kbd_flag0, ringVars, hook, resets>>
  BY DEF __process_key, Ignored, SetsFlags, FlagCodes
<1> QED
  BY <1>1, <1>2, <1>3, <1>4, <1>5, <1>6, <1>7, <1>8

\* A byte that is sent alone.
LEMMA PlainByte ==
  ASSUME FlagTypes, HookTypes, Prefix = {}, NEW b \in PlainBytes, __process_key(b)
  PROVE  /\ b.sc \in FlagCodes => Turns(KeyOf(b.sc, "LAST_E0" \in kbd_flag1), b.rel)
         /\ b.sc \notin FlagCodes => Quiet
         /\ Prefix' = {} /\ RingMoves /\ resets' = resets /\ HookTypes'
<1> DEFINE e0 == "LAST_E0" \in kbd_flag1
           e1 == "LAST_E1" \in kbd_flag1
<1>1. ~e0 /\ ~e1
  BY DEF Prefix
<1>2. b.rel \in BOOLEAN /\ b.sc \in FlagCodes \cup {"54", "1e", "47"}
  BY DEF PlainBytes, FlagCodes
<1>3. CASE b.sc \in FlagCodes
  <2>1. SetsFlags(b, e0, e1)
    BY <1>1, <1>3 DEF SetsFlags, Ignored
  <2>2. kbd_set_flag(b.rel, FlagBits(b.sc, e0)[1], FlagBits(b.sc, e0)[2],
                     FlagBits(b.sc, e0)[3])
    BY <2>1, Cases
  <2>3. UNCHANGED <<ringVars, hook, resets>>
    BY <2>1, Cases
  <2>4. Turns(KeyOf(b.sc, e0), b.rel) /\ Prefix' = {}
    <3>1. FlagTypes /\ ~e0 /\ b.rel \in BOOLEAN /\ e0 \in BOOLEAN /\ b.sc \in FlagCodes
      BY <1>1, <1>2, <1>3
    <3> HIDE DEF e0
    <3> QED
      BY <3>1, <2>2, SetFlag DEF FlagTypes
  <2> QED
    BY <2>3, <2>4, <1>3 DEF RingMoves, HookTypes
<1>4. CASE b.sc = "54"
  <2>1. RaisingKey("int1585")
    BY <1>4, Cases
  <2> QED
    BY <2>1, <1>4 DEF RaisingKey, Quiet, Prefix, Flag1Cleared, FlagTypes, HookTypes, Flag1,
                      RingMoves, FlagCodes
<1>5. CASE b.sc \in {"1e", "47"}
  <2>1. GenericKey(b, e0) /\ e0 \in BOOLEAN /\ b.sc \notin FlagCodes
    BY <1>5, Cases DEF FlagCodes
  <2> HIDE DEF e0
  <2>2. Quiet /\ Prefix' = {} /\ RingMoves /\ resets' = resets /\ HookTypes'
    BY <2>1, <1>5, Generic
  <2> QED
    BY <2>1, <2>2
<1> QED
  BY <1>2, <1>3, <1>4, <1>5

\* A byte that follows an e0.
LEMMA ExtendedByte ==
  ASSUME FlagTypes, HookTypes, Prefix = {"LAST_E0"},
         NEW b \in ExtendedBytes \cup ChainBytes, __process_key(b)
  PROVE  /\ b.sc \in {"1d", "38"} => Turns(KeyOf(b.sc, "LAST_E0" \in kbd_flag1), b.rel)
         /\ b.sc \notin {"1d", "38"} => Quiet
         /\ Prefix' = {} /\ RingMoves /\ HookTypes'
         /\ resets' = IF b = Release("46") THEN resets + 1 ELSE resets
<1> DEFINE e0 == "LAST_E0" \in kbd_flag1
           e1 == "LAST_E1" \in kbd_flag1
<1>1. e0 /\ ~e1
  BY DEF Prefix
<1>2. /\ b.rel \in BOOLEAN
      /\ b.sc \in {"2a", "1c", "47", "53", "37", "1d", "38", "46"}
      /\ b = Release("46") <=> b.sc = "46" /\ b.rel
  <2>1. CASE b \in [sc : {"2a", "1c", "47", "53", "37", "1d", "38"}, rel : BOOLEAN]
    BY <2>1 DEF Release
  <2>2. CASE b = Press("46")
    BY <2>2 DEF Press, Release
  <2>3. CASE b = Release("46")
    BY <2>3 DEF Release
  <2> QED
    BY <2>1, <2>2, <2>3 DEF ExtendedBytes, ChainBytes
<1>3. CASE b.sc \in {"1d", "38"}
  <2>1. SetsFlags(b, e0, e1)
    BY <1>1, <1>3 DEF SetsFlags, Ignored, FlagCodes
  <2>2. kbd_set_flag(b.rel, FlagBits(b.sc, e0)[1], FlagBits(b.sc, e0)[2],
                     FlagBits(b.sc, e0)[3])
    BY <2>1, Cases
  <2>3. UNCHANGED <<ringVars, hook, resets>>
    BY <2>1, Cases
  <2>4. Turns(KeyOf(b.sc, e0), b.rel) /\ Prefix' = {}
    <3>1. FlagTypes /\ b.rel \in BOOLEAN /\ e0 \in BOOLEAN /\ b.sc \in FlagCodes
      BY <1>2, <1>3 DEF FlagCodes
    <3> HIDE DEF e0
    <3> QED
      BY <3>1, <1>3, <2>2, SetFlag DEF FlagTypes
  <2> QED
    BY <2>3, <2>4, <1>2, <1>3 DEF RingMoves, HookTypes
<1>4. CASE b.sc \in {"1c", "47", "53"}
  <2>1. GenericKey(b, e0) /\ e0 \in BOOLEAN
    BY <1>4, Cases
  <2> HIDE DEF e0
  <2>2. Quiet /\ Prefix' = {} /\ RingMoves /\ resets' = resets /\ HookTypes'
    BY <2>1, <1>4, Generic
  <2> QED
    BY <2>2, <1>2, <1>4
<1>5. CASE b.sc = "2a" \/ (b.sc = "37" /\ b.rel)
  <2>1. IgnoredKey
    BY <1>1, <1>5, Cases DEF Ignored
  <2> QED
    BY <2>1, <1>2, <1>5 DEF IgnoredKey, Quiet, Prefix, Flag1Cleared, FlagTypes, HookTypes,
                            Flag1, RingMoves
<1>6. CASE b.sc = "37" /\ ~b.rel
  <2>1. RaisingKey("int05")
    BY <1>1, <1>6, Cases
  <2> QED
    BY <2>1, <1>2, <1>6 DEF RaisingKey, Quiet, Prefix, Flag1Cleared, FlagTypes, HookTypes,
                            Flag1, RingMoves
<1>7. CASE b.sc = "46"
  <2>1. kbd_ctrl_break(b.rel)
    BY <1>1, <1>7, Cases
  <2> QED
    BY <2>1, <1>2, <1>7 DEF kbd_ctrl_break, Quiet, Prefix, Flag1Cleared, FlagTypes,
                            HookTypes, Flag1, RingMoves
<1> QED
  BY <1>2, <1>3, <1>4, <1>5, <1>6, <1>7

\* A prefix, and the bytes of the pause key.
LEMMA PrefixByte ==
  ASSUME FlagTypes, HookTypes, NEW b \in {E0, E1}, __process_key(b)
  PROVE  /\ Quiet /\ RingMoves /\ resets' = resets /\ HookTypes'
         /\ Prefix' = Prefix \cup {IF b = E0 THEN "LAST_E0" ELSE "LAST_E1"}
<1>1. b.sc \in {"e0", "e1"} /\ (b.sc = "e0" <=> b = E0)
  BY DEF E0, E1
<1>2. kbd_flag1' = kbd_flag1 \cup {IF b.sc = "e0" THEN "LAST_E0" ELSE "LAST_E1"}
  BY <1>1, Cases
<1>3. UNCHANGED <<kbd_flag0, ringVars, hook, resets>>
  BY <1>1, Cases
<1> QED
  BY <1>1, <1>2, <1>3 DEF Quiet, RingMoves, HookTypes, FlagTypes, Prefix, Flag1

\* The bytes of Pause under the prefix e1 change nothing.
LEMMA PauseByte ==
  ASSUME FlagTypes, HookTypes, Prefix = {"LAST_E1"}, NEW b,
         b.sc \in {"1d", "45"}, __process_key(b)
  PROVE  /\ Quiet /\ RingMoves /\ resets' = resets /\ HookTypes'
         /\ Prefix' = IF b.sc = "1d" THEN Prefix ELSE {}
<1>1. "LAST_E1" \in kbd_flag1
  BY DEF Prefix
<1>2. CASE b.sc = "1d"
  <2>1. UNCHANGED <<flagVars, ringVars, hook, resets>>
    BY <1>1, <1>2, Cases
  <2> QED
    BY <2>1, <1>2 DEF Quiet, RingMoves, HookTypes, FlagTypes, Prefix, flagVars
<1>3. CASE b.sc = "45"
  <2>1. IgnoredKey
    BY <1>1, <1>3, Cases DEF Ignored
  <2> QED
    BY <2>1, <1>3 DEF IgnoredKey, Quiet, RingMoves, HookTypes, FlagTypes, Prefix,
                      Flag1Cleared, Flag1
<1> QED
  BY <1>2, <1>3

-------------------------------------------------------------------------------
(* What the bytes that are left do to the flags                               *)

\* The keys by the codes that turn them.
LEMMA KeyTable ==
  /\ FlagKeys = {"LShift", "RShift", "LCtrl", "RCtrl", "LAlt", "RAlt", "CapsLock",
                 "NumLock", "ScrollLock"}
  /\ FlagKeys \cap DOMAIN PlainCode = FlagKeys \ {"RCtrl", "RAlt"}
  /\ \A k \in FlagKeys \ {"RCtrl", "RAlt"} :
       PlainCode[k] \in FlagCodes /\ KeyOf(PlainCode[k], FALSE) = k
  /\ \A sc \in FlagCodes :
       /\ KeyOf(sc, FALSE) \in FlagKeys \ {"RCtrl", "RAlt"}
       /\ PlainCode[KeyOf(sc, FALSE)] = sc
  /\ \A k \in {"RCtrl", "RAlt"} :
       ExtendedCode[k] \in {"1d", "38"} /\ KeyOf(ExtendedCode[k], TRUE) = k
  /\ \A sc \in {"1d", "38"} :
       KeyOf(sc, TRUE) \in {"RCtrl", "RAlt"} /\ ExtendedCode[KeyOf(sc, TRUE)] = sc
<1>1. FlagKeys = {"LShift", "RShift", "LCtrl", "RCtrl", "LAlt", "RAlt", "CapsLock",
                 "NumLock", "ScrollLock"}
  BY DEF FlagKeys, FlagOf
<1>2. DOMAIN PlainCode = {"LShift", "RShift", "LCtrl", "LAlt", "CapsLock", "NumLock",
                          "ScrollLock", "A", "Keypad7"}
  BY DEF PlainCode
<1>3. \A k \in FlagKeys \ {"RCtrl", "RAlt"} :
        PlainCode[k] \in FlagCodes /\ KeyOf(PlainCode[k], FALSE) = k
  BY <1>1 DEF PlainCode, FlagCodes, KeyOf
<1>4. \A sc \in FlagCodes :
        /\ KeyOf(sc, FALSE) \in FlagKeys \ {"RCtrl", "RAlt"}
        /\ PlainCode[KeyOf(sc, FALSE)] = sc
  BY <1>1 DEF PlainCode, FlagCodes, KeyOf
<1>5. \A k \in {"RCtrl", "RAlt"} :
        ExtendedCode[k] \in {"1d", "38"} /\ KeyOf(ExtendedCode[k], TRUE) = k
  BY DEF ExtendedCode, KeyOf
<1>6. \A sc \in {"1d", "38"} :
        KeyOf(sc, TRUE) \in {"RCtrl", "RAlt"} /\ ExtendedCode[KeyOf(sc, TRUE)] = sc
  BY DEF ExtendedCode, KeyOf
<1> QED
  BY <1>1, <1>2, <1>3, <1>4, <1>5, <1>6

\* A byte that is sent alone turns the flag of its own key.
LEMMA AloneTurns ==
  ASSUME NEW bs, NEW p, p = {}, NEW b \in PlainBytes, bs = <<b>>,
         NEW k \in FlagKeys, NEW rel \in BOOLEAN
  PROVE  TurningBy(bs, p, k, rel) <=>
           b.sc \in FlagCodes /\ k = KeyOf(b.sc, FALSE) /\ rel = b.rel
<1>1. b = [sc |-> b.sc, rel |-> b.rel] /\ b.rel \in BOOLEAN
  BY DEF PlainBytes
<1>2. \A c : bs # <<E0, c>> /\ (bs = <<c>> <=> b = c)
  OBVIOUS
<1>3. TurningBy(bs, p, k, rel) <=> /\ k \in DOMAIN PlainCode
                          /\ b = [sc |-> PlainCode[k], rel |-> rel]
  <2>1. p # {"LAST_E0"}
    OBVIOUS
  <2>2. /\ bs # <<E0, [sc |-> ExtendedCode[k], rel |-> rel]>>
        /\ bs = <<[sc |-> PlainCode[k], rel |-> rel]>>
             <=> b = [sc |-> PlainCode[k], rel |-> rel]
    BY <1>2
  <2> QED
    BY <2>1, <2>2, Zenon DEF TurningBy
<1>4. b = [sc |-> PlainCode[k], rel |-> rel] <=> b.sc = PlainCode[k] /\ b.rel = rel
  BY <1>1
<1>5. ASSUME b.sc \in FlagCodes, k = KeyOf(b.sc, FALSE)
      PROVE  k \in DOMAIN PlainCode /\ b.sc = PlainCode[k]
  <2>1. k \in FlagKeys \ {"RCtrl", "RAlt"} /\ PlainCode[k] = b.sc
    BY <1>5, KeyTable
  <2> QED
    BY <2>1, KeyTable
<1>6. ASSUME k \in DOMAIN PlainCode, b.sc = PlainCode[k]
      PROVE  b.sc \in FlagCodes /\ k = KeyOf(b.sc, FALSE)
  <2>1. k \in FlagKeys \ {"RCtrl", "RAlt"}
    BY <1>6, KeyTable
  <2> QED
    BY <2>1, <1>6, KeyTable
<1> QED
  BY <1>3, <1>4, <1>5, <1>6

\* A byte that follows an e0 turns the flag of a right hand key.
LEMMA ExtendedTurns ==
  ASSUME NEW bs, NEW p, NEW b \in ExtendedBytes,
         \/ p = {} /\ bs = <<E0, b>>
         \/ p = {"LAST_E0"} /\ bs = <<b>>,
         NEW k \in FlagKeys, NEW rel \in BOOLEAN
  PROVE  TurningBy(bs, p, k, rel) <=>
           b.sc \in {"1d", "38"} /\ k = KeyOf(b.sc, TRUE) /\ rel = b.rel
<1>1. b = [sc |-> b.sc, rel |-> b.rel] /\ b.rel \in BOOLEAN
  <2>1. CASE b \in [sc : {"2a", "1c", "47", "53", "37", "1d", "38"}, rel : BOOLEAN]
    BY <2>1
  <2>2. CASE b = Release("46")
    BY <2>2 DEF Release
  <2> QED
    BY <2>1, <2>2 DEF ExtendedBytes
<1>2. \A c : \/ p = {} /\ bs # <<c>> /\ (bs = <<E0, c>> <=> b = c)
             \/ p = {"LAST_E0"} /\ bs # <<E0, c>> /\ (bs = <<c>> <=> b = c)
  OBVIOUS
<1>3. TurningBy(bs, p, k, rel) <=> /\ k \in {"RCtrl", "RAlt"}
                          /\ b = [sc |-> ExtendedCode[k], rel |-> rel]
  <2>1. p = {} => p # {"LAST_E0"}
    OBVIOUS
  <2>2. /\ p = {} => bs # <<[sc |-> PlainCode[k], rel |-> rel]>>
        /\ p = {} =>
             (bs = <<E0, [sc |-> ExtendedCode[k], rel |-> rel]>>
               <=> b = [sc |-> ExtendedCode[k], rel |-> rel])
        /\ p = {"LAST_E0"} =>
             (bs = <<[sc |-> ExtendedCode[k], rel |-> rel]>>
               <=> b = [sc |-> ExtendedCode[k], rel |-> rel])
    OBVIOUS
  <2> QED
    BY <2>1, <2>2, Zenon DEF TurningBy
<1>4. b = [sc |-> ExtendedCode[k], rel |-> rel] <=> b.sc = ExtendedCode[k] /\ b.rel = rel
  BY <1>1
<1> QED
  BY <1>3, <1>4, KeyTable, ZenonT(40)

\* No other bytes turn one.
LEMMA NothingTurns ==
  ASSUME NEW bs, NEW p,
         bs = <<>> \/ Len(bs) > 2 \/ p = {"LAST_E1"},
         NEW k, NEW rel
  PROVE  ~TurningBy(bs, p, k, rel)
<1>1. CASE p = {"LAST_E1"}
  <2>1. p # {} /\ p # {"LAST_E0"}
    BY <1>1
  <2> QED
    BY <2>1, Zenon DEF TurningBy
<1>2. CASE p # {"LAST_E1"}
  <2>1. \A x : bs # <<x>>
    <3>1. ASSUME NEW x, bs = <<x>>
          PROVE  FALSE
      BY <1>2, <3>1
    <3> QED
      BY <3>1
  <2>2. \A x, y : bs # <<x, y>>
    <3>1. ASSUME NEW x, NEW y, bs = <<x, y>>
          PROVE  FALSE
      BY <1>2, <3>1
    <3> QED
      BY <3>1
  <2> QED
    BY <2>1, <2>2, Zenon DEF TurningBy
<1> QED
  BY <1>1, <1>2

\* What is left of a sequence, and what its first byte does.
Passes ==
  /\ Quiet
  /\ \A k \in FlagKeys, rel \in BOOLEAN : Turning(k, rel)' <=> Turning(k, rel)

Turned ==
  /\ bytes' = <<>> /\ Prefix' = {}
  /\ \E k \in FlagKeys, rel \in BOOLEAN :
       /\ Turning(k, rel) /\ Turns(k, rel)
       /\ \A j \in FlagKeys, r \in BOOLEAN : Turning(j, r) => j = k /\ r = rel

Counted ==
  \/ resets' = resets /\ (Resetting' => Resetting)
  \/ Resetting /\ ~Resetting' /\ resets' = resets + 1

ByteStep ==
  /\ SequenceInv' /\ (Passes \/ Turned) /\ Counted
  /\ HookTypes' /\ RingMoves

\* The bytes that are sent alone.
LEMMA AloneStep ==
  ASSUME FlagTypes, HookTypes, Alone, __process_key(Head(bytes)), bytes' = Tail(bytes)
  PROVE  ByteStep
<1>1. PICK b \in PlainBytes : bytes = <<b>>
  BY DEF Alone
<1>2. Prefix = {} /\ __process_key(b) /\ bytes' = <<>>
  BY <1>1 DEF Alone
<1>3. /\ b.sc \in FlagCodes => Turns(KeyOf(b.sc, "LAST_E0" \in kbd_flag1), b.rel)
      /\ b.sc \notin FlagCodes => Quiet
      /\ Prefix' = {} /\ RingMoves /\ resets' = resets /\ HookTypes'
  BY <1>2, PlainByte
<1>4. SequenceInv'
  BY <1>2, <1>3 DEF SequenceInv
<1>5. ~Resetting'
  BY <1>2 DEF Resetting, ResettingBy
<1>6. \A k \in FlagKeys, rel \in BOOLEAN :
        Turning(k, rel) <=> b.sc \in FlagCodes /\ k = KeyOf(b.sc, FALSE) /\ rel = b.rel
  BY <1>1, <1>2, AloneTurns DEF Turning
<1>7. \A k \in FlagKeys, rel \in BOOLEAN : ~Turning(k, rel)'
  BY <1>2, NothingTurns DEF Turning
<1>8. CASE b.sc \in FlagCodes
  <2>1. b.rel \in BOOLEAN /\ KeyOf(b.sc, FALSE) \in FlagKeys
    <3>1. b.rel \in BOOLEAN
      BY DEF PlainBytes
    <3>2. KeyOf(b.sc, FALSE) \in FlagKeys
      BY <1>8, KeyTable
    <3> QED
      BY <3>1, <3>2
  <2>2. Turns(KeyOf(b.sc, FALSE), b.rel)
    <3>1. ("LAST_E0" \in kbd_flag1) = FALSE
      BY <1>2 DEF Prefix
    <3> QED
      BY <3>1, <1>3, <1>8
  <2>3. Turned
    BY <2>1, <2>2, <1>2, <1>3, <1>6, <1>8 DEF Turned
  <2> QED
    BY <2>3, <1>3, <1>4, <1>5 DEF ByteStep, Counted
<1>9. CASE b.sc \notin FlagCodes
  BY <1>9, <1>3, <1>4, <1>5, <1>6, <1>7 DEF ByteStep, Counted, Passes
<1> QED
  BY <1>8, <1>9

\* An e0, or the byte that follows it.
LEMMA ExtendedStep ==
  ASSUME FlagTypes, HookTypes, Extended, __process_key(Head(bytes)), bytes' = Tail(bytes)
  PROVE  ByteStep
<1>1. PICK b \in ExtendedBytes : \/ Prefix = {} /\ bytes = <<E0, b>>
                                 \/ Prefix = {"LAST_E0"} /\ bytes = <<b>>
  BY DEF Extended
<1>2. \A k \in FlagKeys, rel \in BOOLEAN :
        Turning(k, rel) <=> b.sc \in {"1d", "38"} /\ k = KeyOf(b.sc, TRUE) /\ rel = b.rel
  BY <1>1, ExtendedTurns DEF Turning
<1>3. CASE Prefix = {} /\ bytes = <<E0, b>>
  <2>1. bytes' = <<b>> /\ __process_key(E0)
    BY <1>3
  <2>2. /\ Quiet /\ RingMoves /\ resets' = resets /\ HookTypes'
        /\ Prefix' = {"LAST_E0"}
    BY <2>1, <1>3, PrefixByte
  <2>3. SequenceInv'
    BY <2>1, <2>2 DEF SequenceInv, Extended
  <2>4. Resetting' => Resetting
    <3>1. ResettingBy(<<b>>, {"LAST_E0"}) => b = Press("53") \/ b = Release("46")
      BY DEF ResettingBy
    <3>2. bytes[2] = b /\ 2 \in DOMAIN bytes
      BY <1>3
    <3>3. Resetting' => b = Press("53") \/ b = Release("46")
      BY <3>1, <2>1, <2>2 DEF Resetting
    <3>4. b = Press("53") \/ b = Release("46") => Resetting
      BY <3>2 DEF Resetting, ResettingBy
    <3> QED
      BY <3>3, <3>4
  <2>5. \A k \in FlagKeys, rel \in BOOLEAN :
          Turning(k, rel)' <=> b.sc \in {"1d", "38"} /\ k = KeyOf(b.sc, TRUE) /\ rel = b.rel
    BY <2>1, <2>2, ExtendedTurns, ZenonT(40) DEF Turning
  <2> QED
    BY <2>2, <2>3, <2>4, <2>5, <1>2 DEF ByteStep, Counted, Passes
<1>4. CASE Prefix = {"LAST_E0"} /\ bytes = <<b>>
  <2>1. bytes' = <<>> /\ __process_key(b)
    BY <1>4
  <2>2. /\ b.sc \in {"1d", "38"} => Turns(KeyOf(b.sc, "LAST_E0" \in kbd_flag1), b.rel)
        /\ b.sc \notin {"1d", "38"} => Quiet
        /\ Prefix' = {} /\ RingMoves /\ HookTypes'
        /\ resets' = IF b = Release("46") THEN resets + 1 ELSE resets
    BY <2>1, <1>4, ExtendedByte
  <2>3. SequenceInv'
    BY <2>1, <2>2 DEF SequenceInv
  <2>4. Counted
    <3>1. ~Resetting'
      BY <2>1 DEF Resetting, ResettingBy
    <3>2. b = Release("46") => Resetting
      BY <1>4 DEF Resetting, ResettingBy
    <3> QED
      BY <3>1, <3>2, <2>2 DEF Counted
  <2>5. \A k \in FlagKeys, rel \in BOOLEAN : ~Turning(k, rel)'
    BY <2>1, NothingTurns DEF Turning
  <2>6. CASE b.sc \in {"1d", "38"}
    <3>1. KeyOf(b.sc, TRUE) \in FlagKeys
      BY <2>6, KeyTable
    <3>2. b.rel \in BOOLEAN
      BY <2>6 DEF ExtendedBytes, Release
    <3>3. ("LAST_E0" \in kbd_flag1) = TRUE
      BY <1>4 DEF Prefix
    <3>4. Turns(KeyOf(b.sc, TRUE), b.rel)
      BY <3>3, <2>2, <2>6
    <3>5. Turned
      BY <3>1, <3>2, <3>4, <2>1, <2>2, <2>6, <1>2 DEF Turned
    <3> QED
      BY <3>5, <2>2, <2>3, <2>4 DEF ByteStep
  <2>7. CASE b.sc \notin {"1d", "38"}
    BY <2>7, <2>2, <2>3, <2>4, <2>5, <1>2 DEF ByteStep, Passes
  <2> QED
    BY <2>6, <2>7
<1> QED
  BY <1>1, <1>3, <1>4

\* Two bytes that each follow an e0.
LEMMA ChainStep ==
  ASSUME FlagTypes, HookTypes, Chain, __process_key(Head(bytes)), bytes' = Tail(bytes)
  PROVE  ByteStep
<1> DEFINE Last == (ChainBytes \ {Press("46")}) \cup {Release("46")}
<1>1. PICK b \in ChainBytes, c \in Last :
        \/ Prefix = {} /\ bytes = <<E0, b, E0, c>>
        \/ Prefix = {"LAST_E0"} /\ bytes = <<b, E0, c>>
  BY DEF Chain
<1>2. E0 # Press("53") /\ E0 # Release("46")
  BY DEF E0, Press, Release
<1>3. c \in ExtendedBytes /\ c.sc \notin {"1d", "38"}
  <2>1. CASE c = Release("46")
    BY <2>1 DEF ExtendedBytes, Release
  <2>2. CASE c \in [sc : {"2a", "1c", "47", "53", "37"}, rel : BOOLEAN]
    BY <2>2 DEF ExtendedBytes
  <2> QED
    BY <2>1, <2>2 DEF ChainBytes
<1>4. b.sc \notin {"1d", "38"} /\ b # Release("46")
  <2>1. CASE b = Press("46")
    BY <2>1 DEF Press, Release
  <2>2. CASE b \in [sc : {"2a", "1c", "47", "53", "37"}, rel : BOOLEAN]
    BY <2>2 DEF Release
  <2> QED
    BY <2>1, <2>2 DEF ChainBytes
<1>5. \A k \in FlagKeys, rel \in BOOLEAN : ~Turning(k, rel)
  BY <1>1, NothingTurns, SMTT(30) DEF Turning
<1>6. CASE Prefix = {} /\ bytes = <<E0, b, E0, c>>
  <2>1. bytes' = <<b, E0, c>> /\ __process_key(E0)
    BY <1>6
  <2>2. /\ Quiet /\ RingMoves /\ resets' = resets /\ HookTypes'
        /\ Prefix' = {"LAST_E0"}
    BY <2>1, <1>6, PrefixByte
  <2>3. SequenceInv'
    BY <2>1, <2>2 DEF SequenceInv, Chain
  <2>4. Resetting' => Resetting
    <3>1. ResettingBy(<<b, E0, c>>, {"LAST_E0"}) =>
            b = Press("53") \/ c = Press("53") \/ c = Release("46")
      BY <1>2 DEF ResettingBy
    <3>2. bytes[2] = b /\ bytes[4] = c /\ 2 \in DOMAIN bytes /\ 4 \in DOMAIN bytes
      BY <1>6
    <3>3. b = Press("53") \/ c = Press("53") \/ c = Release("46") => Resetting
      BY <3>2 DEF Resetting, ResettingBy
    <3> QED
      BY <3>1, <3>3, <2>1, <2>2 DEF Resetting
  <2>5. \A k \in FlagKeys, rel \in BOOLEAN : ~Turning(k, rel)'
    <3>1. Len(<<b, E0, c>>) > 2
      OBVIOUS
    <3>2. Len(bytes') > 2
      BY <2>1, <3>1
    <3> QED
      BY <3>2, NothingTurns DEF Turning
  <2> QED
    BY <2>2, <2>3, <2>4, <2>5, <1>5 DEF ByteStep, Counted, Passes
<1>7. CASE Prefix = {"LAST_E0"} /\ bytes = <<b, E0, c>>
  <2>1. bytes' = <<E0, c>> /\ __process_key(b)
    BY <1>7
  <2>2. Quiet /\ Prefix' = {} /\ RingMoves /\ HookTypes' /\ resets' = resets
    BY <2>1, <1>4, <1>7, ExtendedByte
  <2>3. SequenceInv'
    BY <2>1, <2>2, <1>3 DEF SequenceInv, Extended
  <2>4. Resetting' => Resetting
    <3>1. ResettingBy(<<E0, c>>, {}) => c = Press("53") \/ c = Release("46")
      BY <1>2 DEF ResettingBy
    <3>2. bytes[3] = c /\ 3 \in DOMAIN bytes
      BY <1>7
    <3>3. c = Press("53") \/ c = Release("46") => Resetting
      BY <3>2 DEF Resetting, ResettingBy
    <3> QED
      BY <3>1, <3>3, <2>1, <2>2 DEF Resetting
  <2>5. \A k \in FlagKeys, rel \in BOOLEAN : ~Turning(k, rel)'
    <3>1. Prefix' = {} /\ bytes' = <<E0, c>>
      BY <2>1, <2>2
    <3> HIDE DEF Last
    <3>2. \A k \in FlagKeys, rel \in BOOLEAN : ~TurningBy(bytes', Prefix', k, rel)
      BY <3>1, <1>3, ExtendedTurns, ZenonT(30)
    <3> QED
      BY <3>2 DEF Turning
  <2> QED
    BY <2>2, <2>3, <2>4, <2>5, <1>5 DEF ByteStep, Counted, Passes
<1> QED
  BY <1>1, <1>6, <1>7

\* The pause key: an e1 and two bytes, which come twice.
LEMMA PauseStep ==
  ASSUME FlagTypes, HookTypes, PauseMakes, __process_key(Head(bytes)),
         bytes' = Tail(bytes)
  PROVE  ByteStep
<1> DEFINE P1 == Press("1d")
           P2 == Press("45")
           R1 == Release("1d")
           R2 == Release("45")
<1>1. /\ P1.sc = "1d" /\ R1.sc = "1d" /\ P2.sc = "45" /\ R2.sc = "45"
      /\ \A x \in {E1, P1, P2, R1, R2} : x # Press("53") /\ x # Release("46")
      /\ E1 # E0
  BY DEF E0, E1, Press, Release
<1>2. \A q : q \in {<<P1, P2, E1, R1, R2>>, <<P2, E1, R1, R2>>, <<E1, R1, R2>>,
                    <<R1, R2>>, <<R2>>, <<>>} => ~ResettingBy(q, Prefix')
  <2> HIDE DEF P1, P2, R1, R2
  <2>1. ~ResettingBy(<<P1, P2, E1, R1, R2>>, Prefix')
    BY <1>1 DEF ResettingBy
  <2>2. ~ResettingBy(<<P2, E1, R1, R2>>, Prefix')
    BY <1>1 DEF ResettingBy
  <2>3. ~ResettingBy(<<E1, R1, R2>>, Prefix')
    BY <1>1 DEF ResettingBy
  <2>4. ~ResettingBy(<<R1, R2>>, Prefix') /\ ~ResettingBy(<<>>, Prefix')
    BY <1>1 DEF ResettingBy
  <2>5. ~ResettingBy(<<R2>>, Prefix')
    BY <1>1 DEF ResettingBy
  <2> QED
    BY <2>1, <2>2, <2>3, <2>4, <2>5
<1>3. CASE Prefix = {}
  <2>1. \/ bytes = <<E1, P1, P2, E1, R1, R2>> /\ bytes' = <<P1, P2, E1, R1, R2>>
        \/ bytes = <<E1, R1, R2>> /\ bytes' = <<R1, R2>>
    <3>1. bytes = <<E1, P1, P2, E1, R1, R2>> \/ bytes = <<E1, R1, R2>>
      BY <1>3 DEF PauseMakes
    <3> HIDE DEF P1, P2, R1, R2
    <3>2. Tail(<<E1, P1, P2, E1, R1, R2>>) = <<P1, P2, E1, R1, R2>>
      OBVIOUS
    <3>3. Tail(<<E1, R1, R2>>) = <<R1, R2>>
      OBVIOUS
    <3> QED
      BY <3>1, <3>2, <3>3, Zenon
  <2>2. __process_key(E1)
    BY <2>1
  <2>3. Quiet /\ RingMoves /\ resets' = resets /\ HookTypes' /\ Prefix' = {"LAST_E1"}
    BY <2>2, <1>1, <1>3, PrefixByte
  <2>4. SequenceInv'
    BY <2>1, <2>3 DEF SequenceInv, PauseMakes
  <2>5. Len(bytes) > 2
    BY <2>1
  <2>6. \A k \in FlagKeys, rel \in BOOLEAN : ~Turning(k, rel) /\ ~Turning(k, rel)'
    BY <2>3, <2>5, NothingTurns DEF Turning
  <2>7. ~Resetting'
    BY <2>1, <1>2 DEF Resetting
  <2> QED
    BY <2>3, <2>4, <2>6, <2>7 DEF ByteStep, Passes, Counted
<1>4. CASE Prefix = {"LAST_E1"}
  <2>1. \/ bytes = <<P1, P2, E1, R1, R2>> /\ bytes' = <<P2, E1, R1, R2>>
        \/ bytes = <<P2, E1, R1, R2>> /\ bytes' = <<E1, R1, R2>>
        \/ bytes = <<R1, R2>> /\ bytes' = <<R2>>
        \/ bytes = <<R2>> /\ bytes' = <<>>
    <3>1. bytes \in {<<P1, P2, E1, R1, R2>>, <<P2, E1, R1, R2>>, <<R1, R2>>, <<R2>>}
      <4>1. Prefix # {}
        BY <1>4
      <4> QED
        BY <4>1 DEF PauseMakes
    <3> HIDE DEF P1, P2, R1, R2
    <3>2. /\ Tail(<<P1, P2, E1, R1, R2>>) = <<P2, E1, R1, R2>>
          /\ Tail(<<P2, E1, R1, R2>>) = <<E1, R1, R2>>
      OBVIOUS
    <3>3. Tail(<<R1, R2>>) = <<R2>> /\ Tail(<<R2>>) = <<>>
      OBVIOUS
    <3> QED
      BY <3>1, <3>2, <3>3, Zenon
  <2>2. PICK b \in {P1, P2, R1, R2} : Head(bytes) = b
    BY <2>1
  <2>3. /\ Quiet /\ RingMoves /\ resets' = resets /\ HookTypes'
        /\ Prefix' = IF b.sc = "1d" THEN Prefix ELSE {}
    BY <2>2, <1>1, <1>4, PauseByte
  <2>4. /\ SequenceInv'
        /\ bytes' = <<>> \/ Len(bytes') > 2 \/ Prefix' = {"LAST_E1"}
    <3>1. CASE bytes = <<P1, P2, E1, R1, R2>> /\ bytes' = <<P2, E1, R1, R2>>
      <4>1. Prefix' = {"LAST_E1"}
        BY <3>1, <2>2, <2>3, <1>1, <1>4
      <4> QED
        BY <4>1, <3>1 DEF SequenceInv, PauseMakes
    <3>2. CASE bytes = <<P2, E1, R1, R2>> /\ bytes' = <<E1, R1, R2>>
      <4>1. Prefix' = {} /\ Len(bytes') = 3
        BY <3>2, <2>2, <2>3, <1>1, <1>4
      <4> QED
        BY <4>1, <3>2 DEF SequenceInv, PauseMakes
    <3>3. CASE bytes = <<R1, R2>> /\ bytes' = <<R2>>
      <4>1. Prefix' = {"LAST_E1"}
        BY <3>3, <2>2, <2>3, <1>1, <1>4
      <4> QED
        BY <4>1, <3>3 DEF SequenceInv, PauseMakes
    <3>4. CASE bytes = <<R2>> /\ bytes' = <<>>
      <4>1. Prefix' = {}
        BY <3>4, <2>2, <2>3, <1>1, <1>4
      <4> QED
        BY <4>1, <3>4 DEF SequenceInv
    <3> QED
      BY <2>1, <3>1, <3>2, <3>3, <3>4
  <2>5. \A k \in FlagKeys, rel \in BOOLEAN : ~Turning(k, rel) /\ ~Turning(k, rel)'
    BY <2>4, <1>4, NothingTurns DEF Turning
  <2>6. ~Resetting'
    BY <2>1, <1>2 DEF Resetting
  <2> QED
    BY <2>3, <2>4, <2>5, <2>6 DEF ByteStep, Passes, Counted
<1> QED
  BY <1>3, <1>4 DEF PauseMakes

\* Whatever sequence the byte belongs to.
LEMMA SomeByteStep ==
  ASSUME FlagTypes, HookTypes, SequenceInv, bytes # <<>>,
         __process_key(Head(bytes)), bytes' = Tail(bytes)
  PROVE  ByteStep
  BY AloneStep, ExtendedStep, ChainStep, PauseStep DEF SequenceInv

\* With the byte processed, the flags are again those of the keys that are held,
\* but for the key whose bytes are still on their way.
LEMMA FlagsAfterByte ==
  ASSUME FlagTypes, HeldInv, ActiveInv, LockInv, ByteStep,
         numlocks \in Nat, UNCHANGED <<heard, numlocks>>
  PROVE  FlagTypes' /\ HeldInv' /\ ActiveInv' /\ LockInv'
<1>1. CASE Passes
  <2>1. \A k \in FlagKeys :
          FlagOf[k] \in kbd_flag0' \cup kbd_flag1' <=> FlagOf[k] \in kbd_flag0 \cup kbd_flag1
    <3>1. /\ kbd_flag0' = kbd_flag0
          /\ "RCTRL" \in kbd_flag1' <=> "RCTRL" \in kbd_flag1
          /\ "RALT" \in kbd_flag1' <=> "RALT" \in kbd_flag1
      BY <1>1 DEF Passes, Quiet
    <3>2. \A k \in FlagKeys : FlagOf[k] \notin Flag1 \ {"RCTRL", "RALT"}
      BY DEF FlagKeys, FlagOf, Flag1
    <3>3. kbd_flag1 \subseteq Flag1 /\ kbd_flag1' \subseteq Flag1
      BY <1>1 DEF Passes, Quiet, FlagTypes
    <3> QED
      BY <3>1, <3>2, <3>3
  <2>2. HeldInv'
    BY <1>1, <2>1 DEF HeldInv, Passes
  <2>3. LockInv'
    <3>1. Turning("NumLock", FALSE)' <=> Turning("NumLock", FALSE)
      BY <1>1, KeyTable DEF Passes
    <3> QED
      BY <1>1, <3>1 DEF LockInv, Passes, Quiet
  <2> QED
    BY <1>1, <2>2, <2>3 DEF Passes, Quiet, FlagTypes, ActiveInv
<1>2. CASE Turned
  <2>1. PICK k \in FlagKeys, rel \in BOOLEAN :
          /\ Turning(k, rel) /\ Turns(k, rel)
          /\ \A j \in FlagKeys, r \in BOOLEAN : Turning(j, r) => j = k /\ r = rel
    BY <1>2 DEF Turned
  <2>2. \A j \in FlagKeys, r \in BOOLEAN : ~Turning(j, r)'
    BY <1>2, NothingTurns DEF Turning, Turned
  <2>3. \A j \in FlagKeys : FlagOf[j] \in kbd_flag0' \cup kbd_flag1' <=> j \in heard
    <3>1. ASSUME NEW j \in FlagKeys, j # k
          PROVE  FlagOf[j] \in kbd_flag0' \cup kbd_flag1' <=> j \in heard
      <4>1. ~Turning(j, FALSE) /\ ~Turning(j, TRUE)
        BY <2>1, <3>1
      <4>2. FlagOf[j] \in kbd_flag0 \cup kbd_flag1 <=> j \in heard
        BY <4>1, <3>1 DEF HeldInv
      <4> QED
        BY <4>2, <3>1, <2>1 DEF Turns
    <3>2. FlagOf[k] \in kbd_flag0' \cup kbd_flag1' <=> k \in heard
      <4>1. FlagOf[k] \in kbd_flag0' \cup kbd_flag1' <=> ~rel
        BY <2>1 DEF Turns
      <4>2. CASE rel = TRUE
        BY <4>1, <4>2, <2>1 DEF HeldInv
      <4>3. CASE rel = FALSE
        BY <4>1, <4>3, <2>1 DEF HeldInv
      <4> QED
        BY <4>2, <4>3
    <3> QED
      BY <3>1, <3>2
  <2>4. HeldInv'
    BY <2>2, <2>3 DEF HeldInv
  <2>5. LockInv'
    <3>1. ~Turning("NumLock", FALSE)'
      BY <2>2, KeyTable
    <3>2. Turning("NumLock", FALSE) <=> k = "NumLock" /\ rel = FALSE
      BY <2>1, KeyTable
    <3>3. numlocks % 2 = 0 \/ numlocks % 2 = 1
      OBVIOUS
    <3>4. CASE k = "NumLock" /\ rel = FALSE
      <4>1. "NUMACTIVE" \in kbd_flag0 <=> numlocks % 2 = 0
        BY <3>2, <3>4 DEF LockInv
      <4>2. "NUMACTIVE" \in kbd_flag0' <=> "NUMACTIVE" \notin kbd_flag0
        BY <2>1, <3>4 DEF Turns
      <4> QED
        BY <4>1, <4>2, <3>1, <3>3 DEF LockInv
    <3>5. CASE ~(k = "NumLock" /\ rel = FALSE)
      <4>1. "NUMACTIVE" \in kbd_flag0 <=> numlocks % 2 = 1
        BY <3>2, <3>5 DEF LockInv
      <4>2. "NUMACTIVE" \in kbd_flag0' <=> "NUMACTIVE" \in kbd_flag0
        BY <2>1, <3>5 DEF Turns
      <4> QED
        BY <4>1, <4>2, <3>1 DEF LockInv
    <3> QED
      BY <3>4, <3>5
  <2> QED
    BY <2>1, <2>4, <2>5 DEF Turns, FlagTypes
<1> QED
  BY <1>1, <1>2 DEF ByteStep

-------------------------------------------------------------------------------
(* The user                                                                   *)

\* A press (or a release) of k begins: its sequence is one of those above, and
\* turns the flag of k and no other.
Begins(k, rel) ==
  /\ Prefix' = {} /\ SequenceInv'
  /\ \A j \in FlagKeys, r \in BOOLEAN : Turning(j, r)' <=> j = k /\ r = rel

\* What the keyboard may send for a key.
LEMMA Made ==
  ASSUME NEW k \in KeyNames, NEW bs \in MakeBytes(k)
  PROVE  \/ k \in DOMAIN PlainCode /\ bs = <<Press(PlainCode[k])>>
         \/ k \in Wrapped /\ bs \in {<<E0, Press(ExtendedCode[k])>>,
                                     <<E0, Press("2a"), E0, Press(ExtendedCode[k])>>,
                                     <<E0, Release("2a"), E0, Press(ExtendedCode[k])>>}
         \/ k \in {"RCtrl", "RAlt", "KeypadEnter"} /\ bs = <<E0, Press(ExtendedCode[k])>>
         \/ k = "PrtScr" /\ bs \in {<<Press("54")>>, <<E0, Press("37")>>,
                                    <<E0, Press("2a"), E0, Press("37")>>}
         \/ k = "Pause" /\ bs \in {<<E0, Press("46"), E0, Release("46")>>,
                                   <<E1, Press("1d"), Press("45"),
                                     E1, Release("1d"), Release("45")>>}
<1>1. CASE k \in DOMAIN PlainCode
  BY <1>1 DEF MakeBytes, PlainCode, ExtendedCode, Wrapped
<1>2. CASE k \in Wrapped
  BY <1>2 DEF MakeBytes, PlainCode, ExtendedCode, Wrapped
<1>3. CASE k \in {"RCtrl", "RAlt", "KeypadEnter"}
  BY <1>3 DEF MakeBytes, PlainCode, ExtendedCode, Wrapped
<1>4. CASE k = "PrtScr"
  BY <1>4 DEF MakeBytes, PlainCode, ExtendedCode, Wrapped
<1>5. CASE k = "Pause"
  BY <1>5 DEF MakeBytes, PlainCode, ExtendedCode, Wrapped
<1> QED
  BY <1>1, <1>2, <1>3, <1>4, <1>5 DEF KeyNames, PlainCode, Wrapped

\* The bytes that a key sends when it is released.
LEMMA Broken ==
  ASSUME NEW k \in KeyNames, NEW bs \in BreakBytes(k)
  PROVE  \/ k \in DOMAIN PlainCode /\ bs = <<Release(PlainCode[k])>>
         \/ k \in Wrapped /\ bs \in {<<E0, Release(ExtendedCode[k])>>,
                                     <<E0, Release(ExtendedCode[k]), E0, Release("2a")>>,
                                     <<E0, Release(ExtendedCode[k]), E0, Press("2a")>>}
         \/ k \in {"RCtrl", "RAlt", "KeypadEnter"} /\ bs = <<E0, Release(ExtendedCode[k])>>
         \/ k = "PrtScr" /\ bs \in {<<Release("54")>>, <<E0, Release("37")>>,
                                    <<E0, Release("37"), E0, Release("2a")>>}
<1>1. CASE k \in DOMAIN PlainCode
  BY <1>1 DEF BreakBytes, PlainCode, ExtendedCode, Wrapped
<1>2. CASE k \in Wrapped
  BY <1>2 DEF BreakBytes, PlainCode, ExtendedCode, Wrapped
<1>3. CASE k \in {"RCtrl", "RAlt", "KeypadEnter"}
  BY <1>3 DEF BreakBytes, PlainCode, ExtendedCode, Wrapped
<1>4. CASE k = "PrtScr"
  BY <1>4 DEF BreakBytes, PlainCode, ExtendedCode, Wrapped
<1>5. CASE k = "Pause"
  BY <1>5 DEF BreakBytes, PlainCode, ExtendedCode, Wrapped
<1> QED
  BY <1>1, <1>2, <1>3, <1>4, <1>5 DEF KeyNames, PlainCode, Wrapped

\* The three forms of a sequence that the keyboard begins.
LEMMA BeginAlone ==
  ASSUME NEW k \in DOMAIN PlainCode, NEW rel \in BOOLEAN, Prefix' = {},
         bytes' = <<[sc |-> PlainCode[k], rel |-> rel]>>
  PROVE  Begins(k, rel)
<1> DEFINE b == [sc |-> PlainCode[k], rel |-> rel]
<1>1. b \in PlainBytes /\ b.sc = PlainCode[k] /\ b.rel = rel
  BY DEF PlainBytes, PlainCode
<1> HIDE DEF b
<1>2. bytes' = <<b>> /\ Prefix' = {}
  BY DEF b
<1>3. SequenceInv'
  BY <1>1, <1>2 DEF SequenceInv, Alone
<1>4. \A j \in FlagKeys, r \in BOOLEAN :
        Turning(j, r)' <=> b.sc \in FlagCodes /\ j = KeyOf(b.sc, FALSE) /\ r = b.rel
  <2>1. \A j \in FlagKeys, r \in BOOLEAN :
          TurningBy(bytes', Prefix', j, r) <=>
            b.sc \in FlagCodes /\ j = KeyOf(b.sc, FALSE) /\ r = b.rel
    BY ONLY <1>1, <1>2, AloneTurns
  <2> QED
    BY <2>1 DEF Turning
<1>5. CASE k \in FlagKeys
  <2>1. b.sc \in FlagCodes /\ KeyOf(b.sc, FALSE) = k
    <3>1. k \in FlagKeys \ {"RCtrl", "RAlt"}
      BY <1>5, KeyTable
    <3> QED
      BY <3>1, <1>1, KeyTable, ZenonT(30)
  <2> QED
    BY <2>1, <1>1, <1>3, <1>4 DEF Begins
<1>6. CASE k \notin FlagKeys
  <2>1. b.sc \notin FlagCodes
    BY <1>1, <1>6 DEF PlainCode, FlagKeys, FlagOf, FlagCodes
  <2> QED
    BY <2>1, <1>3, <1>4, <1>6 DEF Begins
<1> QED
  BY <1>5, <1>6

\* An extended key of two bytes starts a sequence.
LEMMA BeginExtended ==
  ASSUME NEW b \in ExtendedBytes, Prefix' = {}, bytes' = <<E0, b>>,
         NEW k, NEW rel \in BOOLEAN,
         \/ k \in {"RCtrl", "RAlt"} /\ b.sc = ExtendedCode[k] /\ b.rel = rel
         \/ k \notin FlagKeys /\ b.sc \notin {"1d", "38"}
  PROVE  Begins(k, rel)
<1>1. SequenceInv'
  BY DEF SequenceInv, Extended
<1>2. \A j \in FlagKeys, r \in BOOLEAN :
        Turning(j, r)' <=> b.sc \in {"1d", "38"} /\ j = KeyOf(b.sc, TRUE) /\ r = b.rel
  <2>1. \A j \in FlagKeys, r \in BOOLEAN :
          TurningBy(bytes', Prefix', j, r) <=>
            b.sc \in {"1d", "38"} /\ j = KeyOf(b.sc, TRUE) /\ r = b.rel
    <3>1. b \in ExtendedBytes /\ Prefix' = {} /\ bytes' = <<E0, b>>
      OBVIOUS
    <3> QED
      BY ONLY <3>1, ExtendedTurns
  <2> QED
    BY <2>1 DEF Turning
<1>3. CASE k \in {"RCtrl", "RAlt"} /\ b.sc = ExtendedCode[k] /\ b.rel = rel
  <2>1. b.sc \in {"1d", "38"} /\ KeyOf(b.sc, TRUE) = k
    BY <1>3, KeyTable
  <2> QED
    BY <2>1, <1>1, <1>2, <1>3 DEF Begins
<1>4. CASE k \notin FlagKeys /\ b.sc \notin {"1d", "38"}
  BY <1>1, <1>2, <1>4 DEF Begins
<1> QED
  BY <1>3, <1>4

\* A key of four bytes or more starts a sequence, and turns no flag.
LEMMA BeginLong ==
  ASSUME Prefix' = {}, NEW k, k \notin FlagKeys, NEW rel,
         \/ \E b \in ChainBytes, c \in (ChainBytes \ {Press("46")}) \cup {Release("46")} :
              bytes' = <<E0, b, E0, c>>
         \/ bytes' = <<E1, Press("1d"), Press("45"), E1, Release("1d"), Release("45")>>
  PROVE  Begins(k, rel)
<1>1. SequenceInv'
  <2>1. CASE \E b \in ChainBytes,
               c \in (ChainBytes \ {Press("46")}) \cup {Release("46")} :
                 bytes' = <<E0, b, E0, c>>
    BY <2>1, Zenon DEF SequenceInv, Chain
  <2>2. CASE bytes' = <<E1, Press("1d"), Press("45"), E1, Release("1d"), Release("45")>>
    BY <2>2, Zenon DEF SequenceInv, PauseMakes
  <2> QED
    BY <2>1, <2>2
<1>2. Len(bytes') > 2
  <2>1. \A b, c : Len(<<E0, b, E0, c>>) > 2
    OBVIOUS
  <2>2. \A a, b, c, d, e, f : Len(<<a, b, c, d, e, f>>) > 2
    OBVIOUS
  <2> QED
    BY <2>1, <2>2, Zenon
<1>3. \A j \in FlagKeys, r \in BOOLEAN : ~Turning(j, r)'
  BY <1>2, NothingTurns DEF Turning
<1> QED
  BY <1>1, <1>3 DEF Begins

\* A press begins a sequence for its key.
LEMMA PressBegins ==
  ASSUME NEW k \in KeyNames, Prefix' = {}, bytes' \in MakeBytes(k)
  PROVE  Begins(k, FALSE)
<1>1. CASE k \in DOMAIN PlainCode /\ bytes' = <<Press(PlainCode[k])>>
  BY <1>1, BeginAlone DEF Press
<1>2. CASE bytes' = <<E0, Press(ExtendedCode[k])>>
             /\ k \in {"RCtrl", "RAlt", "KeypadEnter", "Home", "Delete"}
  <2> DEFINE b == Press(ExtendedCode[k])
  <2>1. b \in ExtendedBytes /\ b.sc = ExtendedCode[k] /\ b.rel = FALSE
    BY <1>2 DEF ExtendedBytes, Press, ExtendedCode
  <2>2. k \in {"RCtrl", "RAlt"} \/ (k \notin FlagKeys /\ b.sc \notin {"1d", "38"})
    BY <1>2, <2>1 DEF FlagKeys, FlagOf, ExtendedCode
  <2> QED
    BY <2>1, <2>2, <1>2, BeginExtended
<1>3. CASE k \in Wrapped /\ bytes' \in {<<E0, Press("2a"), E0, Press(ExtendedCode[k])>>,
                                        <<E0, Release("2a"), E0, Press(ExtendedCode[k])>>}
  <2>1. /\ {Press("2a"), Release("2a"), Press(ExtendedCode[k])} \subseteq ChainBytes
        /\ Press(ExtendedCode[k]) # Press("46")
    BY <1>3 DEF ChainBytes, Press, Release, ExtendedCode, Wrapped
  <2>2. k \notin FlagKeys
    BY <1>3 DEF Wrapped, FlagKeys, FlagOf
  <2> QED
    BY <2>1, <2>2, <1>3, BeginLong
<1>4. CASE k = "PrtScr" /\ bytes' = <<Press("54")>>
  <2>1. Press("54") \in PlainBytes /\ Press("54").sc = "54" /\ "54" \notin FlagCodes
    BY DEF PlainBytes, Press, FlagCodes
  <2>2. SequenceInv'
    BY <2>1, <1>4 DEF SequenceInv, Alone
  <2>3. \A j \in FlagKeys, r \in BOOLEAN : ~Turning(j, r)'
    BY <2>1, <1>4, AloneTurns DEF Turning
  <2> QED
    BY <2>2, <2>3, <1>4 DEF Begins, FlagKeys, FlagOf
<1>5. CASE k = "PrtScr" /\ bytes' \in {<<E0, Press("37")>>,
                                       <<E0, Press("2a"), E0, Press("37")>>}
  <2>1. /\ Press("37") \in ExtendedBytes /\ Press("37").sc = "37"
        /\ {Press("2a"), Press("37")} \subseteq ChainBytes /\ Press("37") # Press("46")
    BY DEF ExtendedBytes, ChainBytes, Press
  <2>2. k \notin FlagKeys
    BY <1>5 DEF FlagKeys, FlagOf
  <2> QED
    BY <2>1, <2>2, <1>5, BeginExtended, BeginLong
<1>6. CASE k = "Pause" /\ bytes' \in {<<E0, Press("46"), E0, Release("46")>>,
                                      <<E1, Press("1d"), Press("45"),
                                        E1, Release("1d"), Release("45")>>}
  <2>1. Press("46") \in ChainBytes
    BY DEF ChainBytes
  <2>2. k \notin FlagKeys
    BY <1>6 DEF FlagKeys, FlagOf
  <2> QED
    BY <2>1, <2>2, <1>6, BeginLong
<1> QED
  BY <1>1, <1>2, <1>3, <1>4, <1>5, <1>6, Made DEF Wrapped

\* A release begins one too, and one that neither breaks nor restarts.
LEMMA ReleaseBegins ==
  ASSUME NEW k \in KeyNames, Prefix' = {}, bytes' \in BreakBytes(k)
  PROVE  Begins(k, TRUE) /\ ~Resetting'
<1>1. CASE k \in DOMAIN PlainCode /\ bytes' = <<Release(PlainCode[k])>>
  <2>1. Begins(k, TRUE)
    BY <1>1, BeginAlone DEF Release
  <2>2. \A x : x # Press("53") => ~ResettingBy(<<x>>, {})
    BY DEF ResettingBy
  <2>3. Release(PlainCode[k]) # Press("53")
    BY DEF Press, Release
  <2> QED
    BY <2>1, <2>2, <2>3, <1>1 DEF Resetting
<1>2. CASE bytes' = <<E0, Release(ExtendedCode[k])>>
             /\ k \in {"RCtrl", "RAlt", "KeypadEnter", "Home", "Delete"}
  <2> DEFINE b == Release(ExtendedCode[k])
  <2>1. /\ b \in ExtendedBytes /\ b.sc = ExtendedCode[k] /\ b.rel = TRUE
        /\ b # Press("53") /\ b # Release("46") /\ E0 # Press("53")
    BY <1>2 DEF ExtendedBytes, Press, Release, ExtendedCode, E0
  <2>2. k \in {"RCtrl", "RAlt"} \/ (k \notin FlagKeys /\ b.sc \notin {"1d", "38"})
    BY <1>2, <2>1 DEF FlagKeys, FlagOf, ExtendedCode
  <2> HIDE DEF b
  <2>3. bytes' = <<E0, b>>
    BY <1>2 DEF b
  <2>4. Begins(k, TRUE)
    BY <2>1, <2>2, <2>3, BeginExtended
  <2>5. ~ResettingBy(<<E0, b>>, {})
    BY <2>1 DEF ResettingBy
  <2> QED
    BY <2>3, <2>4, <2>5 DEF Resetting
<1>3. CASE k \in Wrapped
             /\ bytes' \in {<<E0, Release(ExtendedCode[k]), E0, Release("2a")>>,
                            <<E0, Release(ExtendedCode[k]), E0, Press("2a")>>}
  <2>1. /\ {Press("2a"), Release("2a"), Release(ExtendedCode[k])} \subseteq ChainBytes
        /\ Release("2a") # Press("46") /\ Press("2a") # Press("46")
    BY <1>3 DEF ChainBytes, Press, Release, ExtendedCode, Wrapped
  <2>2. k \notin FlagKeys
    BY <1>3 DEF Wrapped, FlagKeys, FlagOf
  <2>3. Begins(k, TRUE)
    BY <2>1, <2>2, <1>3, BeginLong
  <2>4. \A x \in {E0, Press("2a"), Release("2a"), Release(ExtendedCode[k])} :
          x # Press("53") /\ x # Release("46")
    BY <1>3 DEF E0, Press, Release, ExtendedCode, Wrapped
  <2>5. \A b, c \in {E0, Press("2a"), Release("2a"), Release(ExtendedCode[k])} :
          ~ResettingBy(<<E0, b, E0, c>>, {})
    BY <2>4 DEF ResettingBy
  <2> QED
    BY <2>3, <2>5, <1>3 DEF Resetting
<1>4. CASE k = "PrtScr" /\ bytes' = <<Release("54")>>
  <2>1. Release("54") \in PlainBytes /\ Release("54").sc = "54" /\ "54" \notin FlagCodes
        /\ Release("54") # Press("53")
    BY DEF PlainBytes, Press, Release, FlagCodes
  <2>2. SequenceInv'
    BY <2>1, <1>4 DEF SequenceInv, Alone
  <2>3. \A j \in FlagKeys, r \in BOOLEAN : ~Turning(j, r)'
    BY <2>1, <1>4, AloneTurns DEF Turning
  <2>4. \A x : x # Press("53") => ~ResettingBy(<<x>>, {})
    BY DEF ResettingBy
  <2> QED
    BY <2>1, <2>2, <2>3, <2>4, <1>4 DEF Begins, FlagKeys, FlagOf, Resetting
<1>5. CASE k = "PrtScr" /\ bytes' \in {<<E0, Release("37")>>,
                                       <<E0, Release("37"), E0, Release("2a")>>}
  <2>1. /\ Release("37") \in ExtendedBytes /\ Release("37").sc = "37"
        /\ {Release("2a"), Release("37")} \subseteq ChainBytes
        /\ Release("2a") # Press("46")
    BY DEF ExtendedBytes, ChainBytes, Press, Release
  <2>2. k \notin FlagKeys
    BY <1>5 DEF FlagKeys, FlagOf
  <2>3. Begins(k, TRUE)
    BY <2>1, <2>2, <1>5, BeginExtended, BeginLong
  <2>4. \A x \in {E0, Release("2a"), Release("37")} :
          x # Press("53") /\ x # Release("46")
    BY DEF E0, Press, Release
  <2>5. /\ ~ResettingBy(<<E0, Release("37")>>, {})
        /\ ~ResettingBy(<<E0, Release("37"), E0, Release("2a")>>, {})
    BY <2>4 DEF ResettingBy
  <2> QED
    BY <2>3, <2>5, <1>5 DEF Resetting
<1> QED
  BY <1>1, <1>2, <1>3, <1>4, <1>5, Broken DEF Wrapped

-------------------------------------------------------------------------------
(* The invariant, part by part                                                *)

\* Actions that do not come from the keyboard.
LEMMA OthersKeep ==
  ASSUME IInv, UNCHANGED <<flagVars, keyVars, resets>>
  PROVE  SequenceInv' /\ HeldInv' /\ ActiveInv' /\ LockInv' /\ CountInv'
<1>1. UNCHANGED <<kbd_flag0, kbd_flag1, bytes, heard, presses, numlocks, resets>>
  BY DEF flagVars, keyVars
<1>2. Prefix' = Prefix
  BY <1>1 DEF Prefix
<1>3. \A k, rel : Turning(k, rel)' = Turning(k, rel)
  BY <1>1, <1>2 DEF Turning
<1>4. Resetting' = Resetting
  BY <1>1, <1>2 DEF Resetting
<1>5. SequenceInv'
  BY <1>1, <1>2 DEF IInv, SequenceInv, Alone, Extended, Chain, PauseMakes
<1>6. HeldInv'
  BY <1>1, <1>3 DEF IInv, HeldInv
<1>7. ActiveInv' /\ LockInv'
  BY <1>1, <1>3 DEF IInv, ActiveInv, LockInv
<1>8. CountInv'
  BY <1>1, <1>4 DEF IInv, CountInv
<1> QED
  BY <1>5, <1>6, <1>7, <1>8

\* The user presses a key.
LEMMA PressKeeps ==
  ASSUME IInv, NEW k \in Keys, PressKey(k)
  PROVE  SequenceInv' /\ HeldInv' /\ ActiveInv' /\ LockInv' /\ CountInv'
<1>1. /\ k \in KeyNames /\ bytes = <<>> /\ bytes' \in MakeBytes(k)
      /\ UNCHANGED <<kbd_flag0, kbd_flag1, resets>>
  BY KeyboardAssumption DEF PressKey, flagVars
<1>2. Prefix = {}
  BY <1>1 DEF IInv, SequenceInv, Alone, Extended, Chain, PauseMakes
<1>3. Begins(k, FALSE)
  BY <1>1, <1>2, PressBegins DEF Prefix
<1>4. \A j \in FlagKeys, r \in BOOLEAN : ~Turning(j, r)
  BY <1>1, NothingTurns DEF Turning
<1>5. HeldInv'
  <2>1. \A j \in FlagKeys : FlagOf[j] \in kbd_flag0 \cup kbd_flag1 <=> j \in heard
    BY <1>4 DEF IInv, HeldInv
  <2>2. /\ \A j \in FlagKeys \ {k} : j \in heard' <=> j \in heard
        /\ k \in FlagKeys => k \in heard'
    BY DEF PressKey, FlagKeys, FlagOf
  <2> QED
    BY <2>1, <2>2, <1>1, <1>3 DEF HeldInv, Begins
<1>6. LockInv'
  <2>1. "NUMACTIVE" \in kbd_flag0 <=> numlocks % 2 = 1
    BY <1>4, KeyTable DEF IInv, LockInv
  <2>2. Turning("NumLock", FALSE)' <=> k = "NumLock"
    BY <1>3, KeyTable DEF Begins
  <2>3. numlocks \in Nat
    BY DEF IInv, TypeOK
  <2>4. (numlocks + 1) % 2 = 0 <=> numlocks % 2 = 1
    BY <2>3
  <2>5. numlocks' = IF k = "NumLock" THEN numlocks + 1 ELSE numlocks
    BY DEF PressKey
  <2>6. CASE k = "NumLock"
    BY <2>1, <2>2, <2>4, <2>5, <2>6, <1>1 DEF LockInv
  <2>7. CASE k # "NumLock"
    BY <2>1, <2>2, <2>5, <2>7, <1>1 DEF LockInv
  <2> QED
    BY <2>6, <2>7
<1>7. CountInv'
  BY <1>1 DEF IInv, CountInv, PressKey, TypeOK
<1> QED
  BY <1>1, <1>3, <1>5, <1>6, <1>7 DEF IInv, ActiveInv, Begins

\* The user releases one.
LEMMA ReleaseKeeps ==
  ASSUME IInv, NEW k \in Keys, ReleaseKey(k)
  PROVE  SequenceInv' /\ HeldInv' /\ ActiveInv' /\ LockInv' /\ CountInv'
<1>1. /\ k \in KeyNames /\ bytes = <<>> /\ bytes' \in BreakBytes(k)
      /\ UNCHANGED <<kbd_flag0, kbd_flag1, resets, presses, numlocks>>
      /\ heard' = heard \ {k}
  BY KeyboardAssumption DEF ReleaseKey, flagVars
<1>2. Prefix = {}
  BY <1>1 DEF IInv, SequenceInv, Alone, Extended, Chain, PauseMakes
<1>3. Begins(k, TRUE) /\ ~Resetting'
  BY <1>1, <1>2, ReleaseBegins DEF Prefix
<1>4. \A j \in FlagKeys, r \in BOOLEAN : ~Turning(j, r)
  BY <1>1, NothingTurns DEF Turning
<1>5. HeldInv'
  <2>1. \A j \in FlagKeys : FlagOf[j] \in kbd_flag0 \cup kbd_flag1 <=> j \in heard
    BY <1>4 DEF IInv, HeldInv
  <2> QED
    BY <2>1, <1>1, <1>3 DEF HeldInv, Begins
<1>6. LockInv'
  <2>1. ~Turning("NumLock", FALSE) /\ ~Turning("NumLock", FALSE)'
    BY <1>3, <1>4, KeyTable DEF Begins
  <2> QED
    BY <2>1, <1>1 DEF IInv, LockInv
<1>7. CountInv'
  BY <1>1, <1>3 DEF IInv, CountInv
<1> QED
  BY <1>1, <1>3, <1>5, <1>6, <1>7 DEF IInv, ActiveInv, Begins

\* The keyboard interrupt.
LEMMA InterruptKeeps ==
  ASSUME IInv, handle_09
  PROVE  SequenceInv' /\ HeldInv' /\ ActiveInv' /\ LockInv' /\ CountInv'
<1>1. FlagTypes /\ HookTypes /\ numlocks \in Nat /\ bytes # <<>>
  BY DEF IInv, TypeOK, FlagTypes, HookTypes, handle_09
<1>2. CASE CtrlAltDel(Head(bytes)) /\ Restart
  <2>1. /\ kbd_flag0' = {} /\ kbd_flag1' = {} /\ bytes' = <<>> /\ heard' = {}
        /\ numlocks' = 0 /\ resets' = resets + 1 /\ presses' = presses
    BY <1>2 DEF Restart
  <2>2. Prefix' = {}
    BY <2>1 DEF Prefix
  <2>3. \A k \in FlagKeys, rel \in BOOLEAN : ~Turning(k, rel)'
    BY <2>1, NothingTurns DEF Turning
  <2>4. Resetting
    <3>1. \E a : bytes[1] = Press("53") /\ 1 \in DOMAIN bytes
      <4>1. Head(bytes) = Press("53")
        BY <1>2 DEF CtrlAltDel
      <4>2. \A a : Head(<<a>>) = a /\ <<a>>[1] = a /\ 1 \in DOMAIN <<a>>
        OBVIOUS
      <4> QED
        BY <4>1, <1>1 DEF IInv, SequenceInv, Alone, Extended, Chain, PauseMakes
    <3> QED
      BY <3>1 DEF Resetting, ResettingBy
  <2>5. ~Resetting'
    BY <2>1 DEF Resetting, ResettingBy
  <2>6. CountInv'
    BY <2>1, <2>4, <2>5 DEF CountInv, IInv, TypeOK
  <2>7. LockInv'
    <3>1. ~Turning("NumLock", FALSE)'
      BY <2>3, KeyTable
    <3>2. 0 % 2 = 0
      OBVIOUS
    <3> QED
      BY <3>1, <3>2, <2>1 DEF LockInv
  <2> QED
    BY <2>1, <2>2, <2>3, <2>6, <2>7 DEF SequenceInv, HeldInv, ActiveInv
<1>3. CASE /\ __process_key(Head(bytes)) /\ bytes' = Tail(bytes)
           /\ UNCHANGED <<heard, presses, numlocks>>
  <2>1. ByteStep
    BY <1>1, <1>3, SomeByteStep DEF IInv
  <2>2. HeldInv' /\ ActiveInv' /\ LockInv'
    BY <1>1, <1>3, <2>1, FlagsAfterByte DEF IInv
  <2>3. CountInv'
    BY <1>3, <2>1 DEF ByteStep, Counted, CountInv, IInv, TypeOK
  <2> QED
    BY <2>1, <2>2, <2>3 DEF ByteStep
<1> QED
  BY <1>2, <1>3 DEF handle_09

\* Every step.
LEMMA StepKeeps ==
  ASSUME IInv, [Next]_vars
  PROVE  SequenceInv' /\ HeldInv' /\ ActiveInv' /\ LockInv' /\ CountInv'
<1>1. CASE UNCHANGED <<flagVars, keyVars, resets>>
  BY <1>1, OthersKeep
<1>2. CASE \E k \in Keys : PressKey(k) \/ ReleaseKey(k)
  BY <1>2, PressKeeps, ReleaseKeeps
<1>3. CASE handle_09
  BY <1>3, InterruptKeeps
<1>4. CASE HookReturns \/ set_leds \/ Int16Body \/ UNCHANGED vars
             \/ \E fn \in Services : Int16(fn) \/ HookInt16(fn)
  <2>1. UNCHANGED <<flagVars, keyVars, resets>>
    BY <1>4 DEF HookReturns, set_leds, Int16Body, vars, Int16, HookInt16
  <2> QED
    BY <2>1, OthersKeep
<1> QED
  BY <1>2, <1>3, <1>4 DEF Next

-------------------------------------------------------------------------------
(* The ring implements the queue                                              *)

RingTypes ==
  /\ kbd_buf \in [Slot -> Keycode]
  /\ kbd_buf_head \in Slot /\ kbd_buf_tail \in Slot

QueueNext ==
  Queue!Put \/ Queue!Take \/ Queue!Look \/ Queue!Break \/ Queue!Restart

QueueStep == [QueueNext]_<<Contents, ax, resets>>

\* Contents as the lemmas about the ring write it.
LEMMA ContentsAre ==
  /\ Contents = KeysIn(kbd_buf, kbd_buf_head, kbd_buf_tail)
  /\ Contents' = KeysIn(kbd_buf', kbd_buf_head', kbd_buf_tail')
  BY DEF Contents, KeysIn, Filled, Place

\* enqueue_key() puts a key or, into a full ring, does nothing.
LEMMA EnqueuePuts ==
  ASSUME RingTypes, NEW k \in Keycode, enqueue_key(k), UNCHANGED <<ax, resets>>
  PROVE  RingTypes' /\ QueueStep
<1>1. CASE Advance(kbd_buf_tail) = kbd_buf_head
  <2>1. UNCHANGED ringVars
    BY <1>1 DEF enqueue_key
  <2>2. RingTypes' /\ Contents' = Contents
    BY <2>1 DEF RingTypes, ringVars, Contents
  <2> QED
    BY <2>2 DEF QueueStep
<1>2. CASE Advance(kbd_buf_tail) # kbd_buf_head
  <2>1. /\ kbd_buf' = [kbd_buf EXCEPT ![kbd_buf_tail] = k]
        /\ kbd_buf_tail' = Advance(kbd_buf_tail) /\ kbd_buf_head' = kbd_buf_head
    BY <1>2 DEF enqueue_key
  <2>2. RingTypes'
    BY <2>1, Advances DEF RingTypes
  <2>3. Contents' = Append(Contents, k)
    BY <2>1, <1>2, PutAppends, ContentsAre DEF RingTypes
  <2>4. Len(Contents) < Slots - 1
    BY <1>2, Ends, ContentsAre DEF RingTypes
  <2>5. Queue!Put
    BY <2>3, <2>4 DEF Queue!Put
  <2> QED
    BY <2>2, <2>5 DEF QueueStep, QueueNext
<1> QED
  BY <1>1, <1>2

\* dequeue_key() takes or shows the oldest key.
LEMMA DequeueTakes ==
  ASSUME RingTypes, NEW fn, dequeue_key(fn), UNCHANGED resets
  PROVE  RingTypes' /\ ax' \in Keycode /\ QueueStep
<1>1. /\ kbd_buf_head # kbd_buf_tail /\ UNCHANGED <<kbd_buf, kbd_buf_tail>>
      /\ kbd_buf_head' \in {kbd_buf_head, Advance(kbd_buf_head)}
      /\ ax' \in {kbd_buf[kbd_buf_head], Standard(kbd_buf[kbd_buf_head])}
  BY DEF dequeue_key
<1>2. kbd_buf[kbd_buf_head] \in Keycode
  BY DEF RingTypes
<1>3. \A k \in Keycode : Standard(k) \in Keycode
  BY DEF Standard, Keycode
<1>4. RingTypes'
  BY <1>1, Advances DEF RingTypes
<1>5. Head(Contents) = kbd_buf[kbd_buf_head] /\ Contents # <<>>
  BY <1>1, Ends, ContentsAre DEF RingTypes
<1>6. Queue!Show
  BY <1>1, <1>5 DEF Queue!Show
<1>7. Contents' = Contents \/ Contents' = Tail(Contents)
  BY <1>1, TakeTails, ContentsAre DEF RingTypes
<1> QED
  BY <1>1, <1>2, <1>3, <1>4, <1>6, <1>7 DEF QueueStep, QueueNext, Queue!Take, Queue!Look

\* A service of int 16h.
LEMMA ServiceServes ==
  ASSUME RingTypes, ax \in Keycode, NEW fn, Service(fn), UNCHANGED resets
  PROVE  RingTypes' /\ ax' \in Keycode /\ QueueStep
<1>1. CASE dequeue_key(fn)
  BY <1>1, DequeueTakes
<1>2. CASE UNCHANGED <<ringVars, ax>>
  BY <1>2 DEF RingTypes, ringVars, QueueStep, Contents
<1>3. CASE enqueue_key([key |-> "1c", col |-> "normal", ext |-> TRUE]) /\ UNCHANGED ax
  <2>1. [key |-> "1c", col |-> "normal", ext |-> TRUE] \in Keycode
    BY DEF Keycode, Column
  <2> QED
    BY <2>1, <1>3, EnqueuePuts
<1> QED
  BY <1>1, <1>2, <1>3 DEF Service

\* What a byte of the keyboard does to the queue.
LEMMA ByteQueues ==
  ASSUME RingTypes, RingMoves, UNCHANGED ax
  PROVE  RingTypes' /\ QueueStep
<1>1. CASE UNCHANGED <<ringVars, resets>>
  BY <1>1 DEF RingTypes, ringVars, QueueStep, Contents
<1>2. CASE (\E k \in Keycode : enqueue_key(k)) /\ UNCHANGED resets
  BY <1>2, EnqueuePuts
<1>3. CASE /\ kbd_buf_head' = 0 /\ kbd_buf_tail' = 1
           /\ kbd_buf' = [kbd_buf EXCEPT ![0] = Break]
           /\ resets' = resets + 1
  <2>1. Break \in Keycode /\ 0 \in Slot /\ 1 \in Slot
    BY Size DEF Break, Keycode, Column, Slot
  <2>2. RingTypes'
    BY <2>1, <1>3 DEF RingTypes
  <2>3. Filled(0, 1) = 1 /\ Place(0, 1) = 0
    <3>1. 0 <= 1 /\ 0 + 1 <= Slots /\ 1 \in 1 .. Slots /\ 1 - 0 = 1 /\ 0 + 1 - 1 = 0
      BY Size
    <3> QED
      BY <3>1, <2>1, Count, Places
  <2>4. Contents' = <<Break>>
    <3> DEFINE buf == kbd_buf'
    <3>1. buf \in [Slot -> Keycode] /\ buf[0] = Break
      BY <2>1, <1>3 DEF RingTypes
    <3> HIDE DEF buf
    <3>2. KeysIn(buf, 0, 1) = [i \in 1 .. 1 |-> buf[Place(0, i)]]
      BY <2>3 DEF KeysIn
    <3>3. KeysIn(buf, 0, 1) = <<Break>>
      BY <3>1, <3>2, <2>3
    <3> QED
      BY <3>3, <1>3, ContentsAre DEF buf
  <2>5. Queue!Break
    BY <2>4, <1>3 DEF Queue!Break
  <2> QED
    BY <2>2, <2>5 DEF QueueStep, QueueNext
<1> QED
  BY <1>1, <1>2, <1>3 DEF RingMoves

\* Every step is one of the queue or leaves it alone.
LEMMA StepQueues ==
  ASSUME IInv, [Next]_vars
  PROVE  RingTypes' /\ ax' \in Keycode /\ QueueStep
<1>1. RingTypes /\ ax \in Keycode
  BY DEF IInv, TypeOK, RingTypes, Slot
<1>2. CASE UNCHANGED <<ringVars, ax, resets>>
  BY <1>1, <1>2 DEF RingTypes, ringVars, QueueStep, Contents
<1>3. CASE handle_09
  <2>1. CASE Restart
    <3>1. /\ kbd_buf' = [i \in Slot |-> Break] /\ kbd_buf_head' = 0 /\ kbd_buf_tail' = 0
          /\ ax' = ax /\ resets' = resets + 1
      BY <2>1 DEF Restart, Slot
    <3>2. Break \in Keycode /\ 0 \in Slot
      BY Size DEF Break, Keycode, Column, Slot
    <3>3. RingTypes'
      BY <3>1, <3>2 DEF RingTypes
    <3>4. Contents' = <<>>
      BY <3>1, <3>2, <3>3, Ends, ContentsAre DEF RingTypes
    <3>5. Queue!Restart
      BY <3>1, <3>4 DEF Queue!Restart
    <3> QED
      BY <3>1, <3>3, <3>5, <1>1 DEF QueueStep, QueueNext
  <2>2. CASE __process_key(Head(bytes)) /\ bytes' = Tail(bytes) /\ UNCHANGED callVars
    <3>1. FlagTypes /\ HookTypes /\ SequenceInv /\ bytes # <<>>
      BY <1>3 DEF IInv, TypeOK, FlagTypes, HookTypes, handle_09
    <3>2. RingMoves /\ ax' = ax
      BY <3>1, <2>2, SomeByteStep DEF ByteStep, callVars
    <3> QED
      BY <3>2, <1>1, ByteQueues
  <2> QED
    BY <1>3, <2>1, <2>2 DEF handle_09
<1>4. CASE Int16Body
  BY <1>4, <1>1, ServiceServes DEF Int16Body
<1>5. CASE \E fn \in Services : HookInt16(fn)
  BY <1>5, <1>1, ServiceServes DEF HookInt16
<1>6. CASE \/ HookReturns \/ set_leds \/ UNCHANGED vars
           \/ \E fn \in Services : Int16(fn)
           \/ \E k \in Keys : PressKey(k) \/ ReleaseKey(k)
  <2>1. UNCHANGED <<ringVars, ax, resets>>
    BY <1>6 DEF HookReturns, set_leds, vars, Int16, PressKey, ReleaseKey, callVars
  <2> QED
    BY <2>1, <1>2
<1> QED
  BY <1>3, <1>4, <1>5, <1>6 DEF Next

\* The variables keep their types.
LEMMA StepTypes ==
  ASSUME IInv, [Next]_vars
  PROVE  TypeOK'
<1>1. kbd_buf' \in [0 .. Slots - 1 -> Keycode] /\ kbd_buf_head' \in 0 .. Slots - 1
      /\ kbd_buf_tail' \in 0 .. Slots - 1 /\ ax' \in Keycode
  BY StepQueues DEF RingTypes, Slot
<1>2. presses' \in 0 .. MaxPresses
  BY KeyboardAssumption DEF IInv, TypeOK, Next, vars, PressKey, ReleaseKey, handle_09, Restart,
     HookReturns, Int16, HookInt16, set_leds, Int16Body, keyVars
<1>3. resets' \in 0 .. MaxPresses /\ numlocks' \in 0 .. MaxPresses
  <2>1. CountInv'
    BY StepKeeps
  <2>2. resets' \in Nat /\ numlocks' \in Nat
    <3>1. numlocks' \in Nat
      BY KeyboardAssumption DEF IInv, TypeOK, Next, vars, PressKey, ReleaseKey, handle_09,
         Restart, HookReturns, Int16, HookInt16, set_leds, Int16Body, keyVars
    <3>2. resets' = resets \/ resets' = resets + 1
      BY StepQueues DEF QueueStep, QueueNext, Queue!Put, Queue!Take, Queue!Look,
         Queue!Break, Queue!Restart
    <3> QED
      BY <3>1, <3>2 DEF IInv, TypeOK
  <2> QED
    BY <2>1, <2>2, <1>2, KeyboardAssumption DEF CountInv
<1>4. heard' \subseteq down' /\ down' \subseteq Keys
  BY DEF IInv, TypeOK, Next, vars, PressKey, ReleaseKey, handle_09, Restart, HookReturns,
     Int16, HookInt16, set_leds, Int16Body, keyVars
<1>5. kbd_flag0' \subseteq Flag0 /\ kbd_flag1' \subseteq Flag1
      /\ hook' \in {"none", "int1b", "int1585", "int05"}
  <2>1. FlagTypes /\ HookTypes
    BY DEF IInv, TypeOK, FlagTypes, HookTypes
  <2>2. CASE handle_09
    <3>1. CASE Restart
      BY <3>1 DEF Restart
    <3>2. CASE __process_key(Head(bytes)) /\ bytes' = Tail(bytes)
                 /\ UNCHANGED <<heard, numlocks>>
      <4>1. ByteStep
        BY <2>1, <2>2, <3>2, SomeByteStep DEF IInv, handle_09
      <4>2. FlagTypes'
        BY <2>1, <3>2, <4>1, FlagsAfterByte DEF IInv, TypeOK
      <4> QED
        BY <4>1, <4>2 DEF ByteStep, FlagTypes, HookTypes
    <3> QED
      BY <2>2, <3>1, <3>2 DEF handle_09
  <2>3. CASE ~handle_09
    BY <2>1, <2>3 DEF FlagTypes, HookTypes, Next, vars, PressKey, ReleaseKey, HookReturns,
       Int16, HookInt16, set_leds, Int16Body, flagVars
  <2> QED
    BY <2>2, <2>3
<1>6. /\ kbd_led' \subseteq Locks
      /\ call' \in [fn : Services \cup {"none"}, at : {"none", "leds", "body"},
                    leds : SUBSET Locks]
  <2> DEFINE Calls == [fn : Services \cup {"none"}, at : {"none", "leds", "body"},
                       leds : SUBSET Locks]
  <2>1. kbd_led \subseteq Locks /\ call \in Calls
    BY DEF IInv, TypeOK
  <2>2. ShiftFlags \subseteq Locks
    BY DEF ShiftFlags
  <2>3. NoCall \in Calls
    BY DEF NoCall
  <2>4. call.leds \subseteq Locks /\ [call EXCEPT !.at = "body", !.leds = {}] \in Calls
    BY <2>1
  <2>5. \A fn \in Services : /\ [fn |-> fn, at |-> "body", leds |-> {}] \in Calls
                             /\ [fn |-> fn, at |-> "leds", leds |-> ShiftFlags] \in Calls
    BY <2>2
  <2> HIDE DEF Calls
  <2>6. kbd_led' \subseteq Locks
    BY <2>1, <2>2, <2>4 DEF Next, vars, PressKey, ReleaseKey, handle_09, Restart,
       HookReturns, Int16, HookInt16, set_leds, Int16Body, callVars
  <2>7. call' \in Calls
    BY <2>1, <2>3, <2>4, <2>5 DEF Next, vars, PressKey, ReleaseKey, handle_09, Restart,
       HookReturns, Int16, HookInt16, set_leds, Int16Body, callVars
  <2> QED
    BY <2>6, <2>7 DEF Calls
<1> QED
  BY <1>1, <1>2, <1>3, <1>4, <1>5, <1>6 DEF TypeOK

-------------------------------------------------------------------------------
(* The theorems                                                               *)

\* No key is held and no byte is on its way when the BIOS starts.
LEMMA InitIInv ==
  ASSUME Init
  PROVE  IInv /\ Contents = <<>>
<1>1. Prefix = {} /\ bytes = <<>> /\ heard = {} /\ kbd_flag0 = {} /\ kbd_flag1 = {}
  BY DEF Init, Prefix
<1>2. Break \in Keycode /\ 0 \in Slot
  BY Size DEF Break, Keycode, Column, Slot
<1>3. kbd_buf \in [Slot -> Keycode] /\ kbd_buf_head = 0 /\ kbd_buf_tail = 0
  BY <1>2 DEF Init, Slot
<1>4. Contents = <<>>
  BY <1>2, <1>3, Ends, ContentsAre
<1>5. TypeOK
  BY <1>2, <1>3, KeyboardAssumption DEF Init, TypeOK, NoCall, Slot
<1>6. \A k, rel : ~Turning(k, rel)
  BY <1>1, NothingTurns DEF Turning
<1>7. LockInv
  <2>1. 0 % 2 = 0
    OBVIOUS
  <2>2. ~Turning("NumLock", FALSE) /\ numlocks = 0
    BY <1>6 DEF Init
  <2> QED
    BY <1>1, <2>1, <2>2 DEF LockInv
<1>8. CountInv
  <2>1. ~Resetting
    BY <1>1 DEF Resetting, ResettingBy
  <2> QED
    BY <2>1 DEF Init, CountInv
<1>9. SequenceInv /\ HeldInv /\ ActiveInv
  BY <1>1, <1>6 DEF SequenceInv, HeldInv, ActiveInv
<1> QED
  BY <1>4, <1>5, <1>7, <1>8, <1>9 DEF IInv

\* Every step preserves the inductive invariant.
LEMMA NextIInv ==
  ASSUME IInv, [Next]_vars
  PROVE  IInv' /\ QueueStep
  BY StepTypes, StepKeeps, StepQueues DEF IInv

\* The inductive invariant holds in every reachable state.
LEMMA Invariance == Spec => []IInv
<1>1. Init => IInv
  BY InitIInv
<1>2. IInv /\ [Next]_vars => IInv'
  BY NextIInv
<1> QED
  BY <1>1, <1>2, PTL DEF Spec

\* Whenever every byte is processed, the flags of int 16h say exactly which keys
\* are held and how often NumLock was pressed, whatever was typed and however
\* often the ring was reset.
THEOREM FlagsCorrect == Spec => []FlagsTellKeys
<1>1. ASSUME IInv, bytes = <<>>
      PROVE  /\ HeldFlags = {FlagOf[k] : k \in heard \cap DOMAIN FlagOf}
             /\ heard = {} => kbd_flag0 \cap {"CTRLACTIVE", "ALTACTIVE"} = {}
             /\ "NUMACTIVE" \in kbd_flag0 <=> numlocks % 2 = 1
  <2>1. Prefix = {}
    BY <1>1 DEF IInv, SequenceInv, Alone, Extended, Chain, PauseMakes
  <2>2. \A k \in FlagKeys, rel \in BOOLEAN : ~Turning(k, rel)
    BY <1>1, NothingTurns DEF Turning
  <2>3. \A k \in FlagKeys : FlagOf[k] \in kbd_flag0 \cup kbd_flag1 <=> k \in heard
    BY <1>1, <2>2 DEF IInv, HeldInv
  <2>4. \A f : f \in HeldFlags <=> /\ f \in kbd_flag0 \cup kbd_flag1
                                   /\ \E k \in FlagKeys : f = FlagOf[k]
    <3>1. kbd_flag0 \subseteq Flag0 /\ kbd_flag1 \subseteq {"RCTRL", "RALT"}
      BY <1>1, <2>1 DEF IInv, TypeOK, Prefix, Flag1
    <3>2. \A f : (\E k \in FlagKeys : f = FlagOf[k]) <=>
                   f \in {"LSHIFT", "RSHIFT", "LCTRL", "RCTRL", "LALT", "RALT", "CAPS",
                          "NUM", "SCROLL"}
      BY KeyTable DEF FlagOf
    <3> QED
      BY <3>1, <3>2 DEF HeldFlags, Flag0, Locks
  <2>5. HeldFlags = {FlagOf[k] : k \in heard \cap DOMAIN FlagOf}
    BY <2>3, <2>4 DEF FlagKeys
  <2>6. heard = {} => kbd_flag0 \cap {"CTRLACTIVE", "ALTACTIVE"} = {}
    <3>1. heard = {} => /\ "LCTRL" \notin kbd_flag0 /\ "RCTRL" \notin kbd_flag1
                        /\ "LALT" \notin kbd_flag0 /\ "RALT" \notin kbd_flag1
      BY <2>3, KeyTable DEF FlagOf
    <3> QED
      BY <3>1, <1>1 DEF IInv, ActiveInv
  <2>7. "NUMACTIVE" \in kbd_flag0 <=> numlocks % 2 = 1
    BY <2>2, <1>1, KeyTable DEF IInv, LockInv
  <2> QED
    BY <2>5, <2>6, <2>7
<1>2. IInv => FlagsTellKeys
  BY <1>1 DEF FlagsTellKeys, KeyFlags, LockCounted, IInv
<1> QED
  BY <1>2, Invariance, PTL

\* The ring in the BIOS data area, the keyboard interrupt and int 16h implement
\* a first-in first-out queue, for a ring of any size.
THEOREM RingIsQueue == Spec => ImplementsKeyQueue
<1>1. Init => Contents = <<>> /\ resets = 0
  BY InitIInv DEF Init
<1>2. IInv /\ [Next]_vars => QueueStep
  BY NextIInv
<1> QED
  BY <1>1, <1>2, Invariance, PTL
     DEF Spec, ImplementsKeyQueue, Queue!QueueSpec, QueueStep, QueueNext
===============================================================================
