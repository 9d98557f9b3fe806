----------------------------- MODULE UsbKeyboard -----------------------------
(* A USB keyboard (src/hw/usb-hid.c): handle_key() compares each report, the  *)
(* set of keys held down, with the last one and gives process_key() the       *)
(* presses, releases and repetitions that an AT keyboard would have sent.     *)
EXTENDS Naturals, SequencesExt

CONSTANTS
  Keys,       \* "Pause" and "PrtScr" have codes that depend on the modifiers
  Modifiers,  \* "Ctrl" and "Alt" matter to those
  Slots,      \* 6: the keys in a report
  Wait        \* KEYREPEATWAITMS / KEYREPEATMS + 1

VARIABLES
  held,        \* [keys, modifiers] that are held down
  LastUSBkey,  \* [modifiers, repeatcount, keys]
  seen         \* what process_key() was told: [down, newest, reports, sound]

keyVars == <<held, LastUSBkey, seen>>

None == "none"         \* an empty place in a report
RollOver == "rollover" \* the code in every place when too many keys are held
NoRepeat == 255        \* 0xff

----------------------------------------------------------------------------
(* What process_key() is told                                                 *)

Code(key, mods) ==
  CASE key = "Pause" /\ "Ctrl" \in mods -> "Break"
    [] key = "PrtScr" /\ "Alt" \in mods -> "SysReq"
    [] OTHER -> key

Special == {"Pause", "Break", "PrtScr", "SysReq"}

Event(kind, key, mods) == [kind |-> kind, code |-> Code(key, mods)]

\* A key without a code, as RollOver, is not passed on.
procscankey(kind, keys, mods) ==
  LET known == SelectSeq(keys, LAMBDA k : k \in Keys)
  IN  [i \in DOMAIN known |-> Event(kind, known[i], mods)]

\* In the order of their bits; the order shows nowhere.
procmodkey(kind, mods) == [i \in 1 .. Cardinality(mods) |->
                             Event(kind, SetToSeq(mods)[i], {})]

\* One event, as a program sees it that believes in an AT keyboard: only what
\* is down is released, only what is not down is pressed, a key comes with its
\* modifiers already down, and what repeats is the newest key, still held, a
\* while after it was pressed.
Told(s, e, mods) ==
  LET fits == CASE e.code \in Special -> TRUE
                [] e.kind = "break" -> e.code \in s.down
                [] e.kind = "make" -> /\ e.code \notin s.down
                                      /\ e.code \in Keys => mods = s.down \cap Modifiers
                [] e.kind = "repeat" -> /\ e.code = s.newest
                                        /\ s.reports >= Wait
  IN  [down    |-> IF e.kind = "break" THEN s.down \ {e.code} ELSE s.down \cup {e.code},
       newest  |-> CASE e.kind = "make" /\ e.code \notin Modifiers -> e.code
                     [] e.kind = "break" /\ e.code = s.newest -> None
                     [] OTHER -> s.newest,
       reports |-> IF e.kind = "make" /\ e.code \notin Modifiers THEN 0 ELSE s.reports,
       sound   |-> s.sound /\ fits]

----------------------------------------------------------------------------
(* Reports                                                                    *)

\* The keys held down stand in any places of a report, in any order.
Reports ==
  IF Cardinality(held.keys) > Slots
  THEN {[i \in 1 .. Slots |-> RollOver]}
  ELSE {r \in [1 .. Slots -> held.keys \cup {None}] :
          \A k \in held.keys : Cardinality({i \in 1 .. Slots : r[i] = k}) = 1}

\* Deviation: the release of the newest key does not end its repetition.
AfterReleases_repeats(old, data) == old.repeatcount

\* The repetition ends with the last key in the list, the newest.
AfterReleases(old, data) ==
  IF old.keys # <<>> /\ Last(old.keys) \notin Range(data)
  THEN NoRepeat ELSE old.repeatcount

handle_key(data) ==
  LET mods == held.modifiers
      old == LastUSBkey
      released == SelectSeq(old.keys, LAMBDA k : k \notin Range(data))
      kept == SelectSeq(old.keys, LAMBDA k : k \in Range(data))
      new == SelectSeq(data, LAMBDA k : k # None /\ k \notin Range(old.keys))
      count == IF new # <<>> THEN Wait ELSE AfterReleases(old, data)
      keys == kept \o new
      repeats == keys # <<>> /\ count = 0
      events == procscankey("break", released, mods)
                  \o procmodkey("break", old.modifiers \ mods)
                  \o procmodkey("make", mods \ old.modifiers)
                  \o procscankey("make", new, mods)
                  \o IF repeats THEN procscankey("repeat", <<Last(keys)>>, mods) ELSE <<>>
      Tell(s, e) == Told(s, e, mods)
  IN  /\ LastUSBkey' = [modifiers |-> mods, keys |-> keys,
                        repeatcount |-> IF keys # <<>> /\ count \notin {0, NoRepeat}
                                        THEN count - 1 ELSE count]
      /\ LET s == FoldLeft(Tell, seen, events)
         IN  seen' = [s EXCEPT !.reports = IF @ < Wait THEN @ + 1 ELSE @]

\* The timer interrupt polls; the keyboard reports changes and, every
\* KEYREPEATMS, that nothing has changed.
usb_check_key ==
  /\ \E data \in Reports : handle_key(data)
  /\ UNCHANGED held

\* Any number of keys go up and down between two reports.
Press ==
  /\ \/ \E k \in Keys \ held.keys : held' = [held EXCEPT !.keys = @ \cup {k}]
     \/ \E m \in Modifiers \ held.modifiers :
          held' = [held EXCEPT !.modifiers = @ \cup {m}]
  /\ UNCHANGED <<LastUSBkey, seen>>

Release ==
  /\ \/ \E k \in held.keys : held' = [held EXCEPT !.keys = @ \ {k}]
     \/ \E m \in held.modifiers : held' = [held EXCEPT !.modifiers = @ \ {m}]
  /\ UNCHANGED <<LastUSBkey, seen>>

Init ==
  /\ held = [keys |-> {}, modifiers |-> {}]
  /\ LastUSBkey = [modifiers |-> {}, repeatcount |-> 0, keys |-> <<>>]
  /\ seen = [down |-> {}, newest |-> None, reports |-> 0, sound |-> TRUE]

Next == Press \/ Release \/ usb_check_key

Spec == Init /\ [][Next]_keyVars

----------------------------------------------------------------------------

\* The keys that process_key() takes to be down are those of the last report,
\* and what it was told so far could have come from an AT keyboard, whatever
\* happened between two reports, in whatever order a report lists its keys and
\* however many are held.  Keys with codes that depend on a modifier are left
\* out: handle_key() releases another code than it pressed when the modifier
\* has changed.
ReportsFollowed ==
  /\ seen.sound
  /\ seen.down \ Special =
       ((Range(LastUSBkey.keys) \cap Keys) \cup LastUSBkey.modifiers) \ Special
=============================================================================
