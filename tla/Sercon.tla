-------------------------------- MODULE Sercon --------------------------------
(***************************************************************************)
(* The serial console (src/sercon.c).  Output is lazy: a character waits   *)
(* in a buffer, and cursor moves are sent when they can no longer be       *)
(* avoided or when the timer ticks.  Input is bytes, from which keys that  *)
(* the terminal sends as escape sequences are recognised by what has       *)
(* arrived from one tick to the next.                                      *)
(*                                                                         *)
(* The line takes bytes as fast as they are written.  Beside a VGA BIOS    *)
(* ("split mode") that moves the cursor instead, to the same places.       *)
(***************************************************************************)
EXTENDS Integers, SequencesExt

CONSTANTS
  Rows, Cols,
  RxSize,       \* bytes in rx_buf
  ESC,
  Chars,        \* the keys that are one byte each, ESC among them
  termseq,      \* the bytes of the other keys: a function
  Worlds        \* bounds: calls of int 10h, keys typed

VARIABLES
  bda,          \* cursor and mode
  con,          \* the driver's variables; scrolls the terminal is owed (history)
  term,         \* the terminal at the other end
  screen,       \* what the calls have asked to be shown (history)
  rx_buf,
  keys,         \* the keys enqueued
  line,         \* what is typed, and how much of it has arrived
  left,         \* what is left of the bounds
  lost          \* reasons why the terminal, or the keys, may differ (history)

vars == <<bda, con, term, screen, rx_buf, keys, line, left, lost>>

Places == (0 .. Rows - 1) \X (0 .. Cols - 1)
Home == <<0, 0>>
LastRow == Rows - 1
None == "none"
DefaultAttr == 7
AnyAttr == -1
Cell(char, attr) == [char |-> char, attr |-> attr]

Init ==
  /\ \E w \in Worlds : left = w
  /\ bda = [cursor |-> Home, enable |-> FALSE]
  /\ con = [last |-> Home, char |-> None, attr |-> DefaultAttr, attr_last |-> 0, owed |-> 0]
  /\ term = [at |-> Home, attr |-> DefaultAttr,
             cells |-> [p \in Places |-> Cell(" ", DefaultAttr)]]
  /\ screen = [p \in Places |-> Cell(" ", AnyAttr)]
  /\ rx_buf = <<>> /\ keys = <<>>
  /\ line = [typed |-> <<>>, coming |-> <<>>, fifo |-> <<>>]
  /\ lost = {}

----------------------------------------------------------------------------
(* The terminal, with line wrap off.  A state of the output is               *)
(* [cursor, con, term, lost].                                                *)

Scrolled(cells, n, blank) ==
  [p \in Places |-> IF p[1] + n > LastRow THEN blank ELSE cells[<<p[1] + n, p[2]>>]]

Shown(t, char) ==
  [t EXCEPT !.cells[t.at] = Cell(char, t.attr),
            !.at[2] = IF @ = Cols - 1 THEN @ ELSE @ + 1]

CarriageReturn(t) == [t EXCEPT !.at[2] = 0]

LineFeeds(t, n) ==
  LET scrolls == IF t.at[1] + n > LastRow THEN t.at[1] + n - LastRow ELSE 0
  IN  [t EXCEPT !.at[1] = @ + n - scrolls,
                !.cells = Scrolled(@, scrolls, Cell(" ", t.attr))]

Cleared(t) == [t EXCEPT !.cells = [p \in Places |-> Cell(" ", t.attr)]]

\* A reset (ESC c) clears the terminal, too.
Reset(t) == Cleared([t EXCEPT !.at = Home, !.attr = DefaultAttr])

----------------------------------------------------------------------------
(* Lazy output                                                               *)

Excuse(s, reason, when) == IF when THEN [s EXCEPT !.lost = @ \cup {reason}] ELSE s

sercon_set_attr(s, attr) ==
  IF attr = s.con.attr_last THEN s
  ELSE [s EXCEPT !.con.attr_last = attr, !.term.attr = attr]

\* Line feeds that the last row was moved up for scroll the terminal only when
\* they are sent as such.
sercon_lazy_cursor_sync(s) ==
  LET last == s.con.last
      lf   == s.cursor[2] = 0 /\ last[1] <= s.cursor[1]
      moved == IF lf
               THEN LineFeeds(IF last[2] # 0 THEN CarriageReturn(s.term) ELSE s.term,
                              s.cursor[1] - last[1])
               ELSE [s.term EXCEPT !.at = s.cursor]
  IN  IF last = s.cursor THEN s
      ELSE Excuse([s EXCEPT !.term = moved, !.con.last = s.cursor, !.con.owed = 0],
                  "scroll", s.con.owed > 0 /\ s.cursor # <<LastRow, 0>>)

sercon_lazy_flush(s) ==
  LET coloured == sercon_set_attr(s, s.con.attr)
      printed == IF s.con.char = None THEN s
                 ELSE [coloured EXCEPT !.term = Shown(@, s.con.char),
                                       !.con.last[2] = @ + 1]
  IN  [sercon_lazy_cursor_sync(printed) EXCEPT !.con.attr = DefaultAttr, !.con.char = None]

sercon_lazy_cr(s) == [s EXCEPT !.cursor[2] = 0]

\* Deviation: where the terminal scrolls is not noted.
RowAfterScroll_kept(row) == row
RowAfterScroll(row) == IF row > 0 THEN row - 1 ELSE row

sercon_lazy_lf(s) ==
  IF s.cursor[1] < LastRow
  THEN [s EXCEPT !.cursor[1] = @ + 1]
  ELSE Excuse([s EXCEPT !.con.last[1] = RowAfterScroll(@), !.con.owed = @ + 1],
              "scroll", s.con.last[1] = 0)

sercon_lazy_move_cursor(s) ==
  IF s.cursor[2] + 1 >= Cols THEN sercon_lazy_lf(sercon_lazy_cr(s))
  ELSE [s EXCEPT !.cursor[2] = @ + 1]

sercon_lazy_putchar(s, char, attr, teletype) ==
  LET flushed == IF s.cursor # s.con.last THEN sercon_lazy_flush(s) ELSE s
      waits   == [flushed EXCEPT !.con.char = char]
  IN  IF teletype THEN sercon_lazy_move_cursor(waits) ELSE [waits EXCEPT !.con.attr = attr]

sercon_lazy_backspace(s) ==
  LET flushed == sercon_lazy_flush(s)
      before  == <<flushed.cursor[1], flushed.cursor[2] - 1>>
  IN  IF flushed.cursor[2] = 0 THEN flushed
      ELSE [flushed EXCEPT !.term.at[2] = IF @ = 0 THEN 0 ELSE @ - 1,
                           !.cursor = before, !.con.last = before]

----------------------------------------------------------------------------
(* int 10h                                                                   *)

Output == [cursor |-> bda.cursor, con |-> con, term |-> term, lost |-> lost]

\* The call leaves the output in state s and asks for the screen to be "asked".
Calls(s, asked) ==
  /\ left' = [left EXCEPT !.calls = @ - 1]
  /\ bda' = [bda EXCEPT !.cursor = s.cursor]
  /\ con' = s.con /\ term' = s.term /\ lost' = s.lost
  /\ screen' = asked
  /\ UNCHANGED <<rx_buf, keys, line>>

Blank == [p \in Places |-> Cell(" ", AnyAttr)]
ScrolledUp(cells) == Scrolled(cells, 1, Cell(" ", AnyAttr))

\* The reasons why the terminal may show something else; a cleared screen ends them.
Shifts == {"mode", "kept", "scroll", "1006", "1009"}

\* A character that waits stays in the buffer.  With bit 7 of al (~clear) the screen
\* is to be kept; only sercon_term_clear_screen() heeds that.
sercon_1000(mode, clear) ==
  /\ left' = [left EXCEPT !.calls = @ - 1]
  /\ bda' = [cursor |-> Home, enable |-> mode = "text"]
  /\ con' = [con EXCEPT !.last = Home, !.attr_last = 0, !.owed = 0]
  /\ term' = IF clear THEN Cleared(Reset(term)) ELSE Reset(term)
  /\ screen' = IF clear THEN Blank ELSE screen
  /\ lost' = (IF clear THEN lost \ Shifts ELSE lost)
               \cup (IF con.char # None THEN {"mode"} ELSE {})
               \cup (IF ~clear /\ screen # Blank THEN {"kept"} ELSE {})
  /\ UNCHANGED <<rx_buf, keys, line>>

sercon_1002 ==
  \E place \in Places :
    Calls(Excuse([Output EXCEPT !.cursor = place], "scroll",
                 con.owed > 0 /\ place # <<LastRow, 0>>), screen)

\* The rows down to "bottom" move up n lines; all of them are cleared if that is none
\* or too many.
WindowUp(cells, bottom, n) ==
  LET up == IF n \in 1 .. bottom THEN n ELSE bottom + 1
  IN  [p \in Places |-> CASE p[1] > bottom -> cells[p]
                           [] p[1] + up > bottom /\ p[1] <= bottom -> Cell(" ", AnyAttr)
                           [] OTHER -> cells[<<p[1] + up, p[2]>>]]

\* A window is cleared if it is the whole screen, and left alone otherwise; to scroll,
\* a line feed is sent, whatever the window and the number of lines.
sercon_1006 ==
  \E bottom \in {LastRow - 1, LastRow}, n \in 0 .. 2, attr \in {DefaultAttr, 1} :
    \E s \in {sercon_lazy_flush(Output)} :
    LET whole   == bottom = LastRow
        cleared == [sercon_set_attr(s, attr) EXCEPT !.term = Cleared(@)]
        fed     == [s EXCEPT !.term = LineFeeds(CarriageReturn(@), 1)]
        done    == CASE n = 0 /\ whole -> cleared [] n = 0 /\ ~whole -> s [] OTHER -> fed
        meant   == whole /\ (n = 0 \/ (n = 1 /\ s.cursor = <<LastRow, 0>>))
    IN  Calls(Excuse(done, "1006", ~meant), WindowUp(screen, bottom, n))

\* One character waits, several of them are sent; all of them are a clear screen.
\* What passes the end of the line is to go on in the next one, but the terminal does
\* not wrap.
sercon_1009 ==
  \E count \in {1, 2, Rows * Cols}, char \in {" ", "x"}, attr \in {DefaultAttr, 1} :
    \E s \in {sercon_set_attr(sercon_lazy_flush(Output), attr)} :
    LET row   == s.cursor[1]
        col   == s.cursor[2]
        clear == count = Rows * Cols /\ char = " " /\ bda.cursor = Home
        asked == {p \in Places : p[1] * Cols + p[2] \in
                                   row * Cols + col .. row * Cols + col + count - 1}
        Put(cells, run) == [p \in Places |-> IF p \in run THEN Cell(char, attr) ELSE cells[p]]
    IN  \/ /\ count = 1
           /\ Calls(sercon_lazy_putchar(Output, char, attr, FALSE),
                    [screen EXCEPT ![bda.cursor] = Cell(char, attr)])
        \/ /\ clear
           /\ Calls([s EXCEPT !.term = Cleared(@)], Blank)
        \/ /\ count # 1 /\ ~clear
           /\ Calls(Excuse([s EXCEPT !.term.cells = Put(@, {p \in asked : p[1] = row})],
                           "1009", col + count > Cols),
                    Put(screen, asked))

\* What a character at the cursor, or a line feed, leaves of the screen.
Fed(cells, scrolls) == IF scrolls THEN ScrolledUp(cells) ELSE cells

sercon_100e ==
  \/ Calls(sercon_lazy_backspace(Output), screen)
  \/ Calls(sercon_lazy_cr(Output), screen)
  \/ Calls(sercon_lazy_lf(Output), Fed(screen, bda.cursor[1] = LastRow))
  \/ \E char \in {"a", "b"} :
       Calls(sercon_lazy_putchar(Output, char, 0, TRUE),
             Fed([screen EXCEPT ![bda.cursor] = Cell(char, AnyAttr)],
                 bda.cursor = <<LastRow, Cols - 1>>))

----------------------------------------------------------------------------
(* The timer tick                                                            *)

Bytes(k) == IF k \in DOMAIN termseq THEN termseq[k] ELSE <<k>>

\* What is enqueued from a buffer, and what is left of it: an escape that begins
\* no sequence is held back as long as bytes come.
Taken(buf, came) ==
  LET Found(b) == {k \in DOMAIN termseq : IsPrefix(termseq[k], b)}
      Step[n \in 0 .. Len(buf)] ==
        LET b == SubSeq(buf, n + 1, Len(buf))
            k == IF Found(b) = {} THEN b[1] ELSE CHOOSE f \in Found(b) : TRUE
            r == Step[n + Len(Bytes(k))]
        IN  IF b = <<>> \/ (b[1] = ESC /\ Found(b) = {} /\ came)
            THEN [keys |-> <<>>, buf |-> b]
            ELSE [r EXCEPT !.keys = <<k>> \o @]
  IN  Step[0]

\* Bytes that find no room are read and dropped.
sercon_check_event ==
  \E s \in {sercon_lazy_flush(Output)},
     count \in {IF Len(line.fifo) < RxSize - Len(rx_buf) THEN Len(line.fifo)
               ELSE RxSize - Len(rx_buf)} :
  \E t \in {Taken(rx_buf \o SubSeq(line.fifo, 1, count), count > 0)} :
  LET split == line.fifo = <<>> /\ line.coming # <<>>
  IN  /\ con' = s.con /\ term' = s.term
      /\ rx_buf' = t.buf
      /\ keys' = keys \o t.keys
      /\ line' = [line EXCEPT !.fifo = <<>>]
      /\ lost' = s.lost \cup (IF count < Len(line.fifo) THEN {"overflow"} ELSE {})
                        \cup (IF split THEN {"slow"} ELSE {})
      /\ UNCHANGED <<bda, screen, left>>

Types ==
  /\ left.keys > 0 /\ line.coming = <<>>
  /\ \E k \in DOMAIN termseq \cup Chars :
       line' = [typed |-> Append(line.typed, k),
                coming |-> Tail(Bytes(k)), fifo |-> Append(line.fifo, Bytes(k)[1])]
  /\ left' = [left EXCEPT !.keys = @ - 1]
  /\ UNCHANGED <<bda, con, term, screen, rx_buf, keys, lost>>

Arrives ==
  /\ line.coming # <<>>
  /\ line' = [line EXCEPT !.coming = Tail(@), !.fifo = Append(@, line.coming[1])]
  /\ UNCHANGED <<bda, con, term, screen, rx_buf, keys, left, lost>>

\* While the console shows a graphics mode only a mode can be set.
handle_sercon ==
  /\ left.calls > 0
  /\ \/ \E mode \in {"text", "graphics"}, clear \in BOOLEAN : sercon_1000(mode, clear)
     \/ /\ bda.enable
        /\ sercon_1002 \/ sercon_1006 \/ sercon_1009 \/ sercon_100e

Next ==
  \/ handle_sercon
  \/ sercon_check_event
  \/ Types
  \/ Arrives

----------------------------------------------------------------------------

Same(shown, asked) ==
  shown.char = asked.char /\ asked.attr \in {AnyAttr, shown.attr}

\* When the buffer is flushed, the terminal shows what the calls of int 10h have
\* asked for, and its cursor is at the program's.  Until a mode is set that clears the
\* screen, that is not so
\*   - after a mode is set while a character waits ("mode"), or with bit 7 of al, to
\*     keep a screen that is not empty ("kept");
\*   - when lines that scrolled are followed by another move than to the start of the
\*     last row ("scroll");
\*   - after int 10h ah=06h, but for clearing the whole screen and for scrolling it by
\*     one line with the cursor at the start of the last row ("1006");
\*   - after int 10h ah=09h with a run that passes the end of its line ("1009").
\* Only the calls that sercon.c carries out count: it answers ah=08h with a blank and
\* does nothing on ah=07h, 0ah and 13h.
TerminalShowsScreen ==
  LET s == sercon_lazy_flush(Output)
  IN  s.lost \cap Shifts = {} =>
        /\ s.term.at = s.cursor
        /\ \A p \in Places : Same(s.term.cells[p], screen[p])

\* Keys come in the order and number in which they were typed, each as one key,
\* whenever the ticks fall, unless a sequence pauses for a tick or the buffer
\* overflows behind an escape that is held back.
KeysAsTyped ==
  lost \cap {"slow", "overflow"} = {} =>
    /\ IsPrefix(keys, line.typed)
    /\ (line.coming = <<>> /\ line.fifo = <<>> /\ rx_buf = <<>>) => keys = line.typed

ConsoleTrue == TerminalShowsScreen /\ KeysAsTyped

=============================================================================
