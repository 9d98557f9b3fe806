------------------------------- MODULE VgaText -------------------------------
(***************************************************************************)
(* Text on the screen (vgasrc/vgabios.c, vgafb.c, swcursor.c): the calls   *)
(* of int 10h that write, scroll, and move the cursor, in video memory of  *)
(* four layouts, and the cursor that the timer draws into it where the     *)
(* hardware has none.  Interrupts are off while a call runs.               *)
(*                                                                         *)
(* Video memory holds cells: characters with attributes in text modes,     *)
(* octets (the eight pixels that GO_READ8 and GO_WRITE8 move) in graphics  *)
(* modes.  An octet is its first and its last pixel.  A colour is the set  *)
(* of its parts: "rgb", which the cursor inverts, and "h".                 *)
(***************************************************************************)
EXTENDS Integers, SequencesExt

CONSTANTS
  Cols,
  Heights,     \* heights of characters: the mode's own and other fonts'
  Lines,       \* of pixels
  LineLength,  \* octets in memory for a line, or two lines of a CGA mode
  Bank,        \* where the odd lines of a CGA mode begin
  PageAlign,   \* cells of which a page of text takes a multiple
  Pages,
  Machines,    \* [model, emulate, height]
  MaxCalls

VARIABLES
  machine,
  bda,
  swcursor,    \* BF_SWCURSOR
  fb,
  crtc,        \* the display's start and the cursor of hardware, in text modes
  saved,       \* what int 10h ah=1Ch has saved
  calls,
  picture,     \* what the calls have asked to be shown, by place (history)
  unsettled    \* the cursor's cell was changed while it was drawn (history)

vars == <<machine, bda, swcursor, fb, crtc, saved, calls, picture, unsettled>>

Xor(c, d) == (c \ d) \cup (d \ c)
Octet(first, last) == <<first, last>>
Attr(fg, bg) == [fg |-> fg, bg |-> bg]
Normal == Attr({"rgb"}, {})
Bright == Attr({"rgb", "h"}, {"rgb"})
Cell(char, attr) == [char |-> char, attr |-> attr]

MemModel == machine.model
Text == MemModel = "text"
Rows == bda.rows

\* Where a line of a character has pixels of the foreground.
Glyph(char, i) ==
  CASE char = "full" -> <<TRUE, TRUE>>
    [] char = "a" /\ i = 0 -> <<FALSE, TRUE>>
    [] char = "b" -> <<TRUE, i = 0>>
    [] OTHER -> <<FALSE, FALSE>>

----------------------------------------------------------------------------
(* Addresses                                                                 *)

calc_page_size ==
  LET cells == Cols * (Lines \div machine.height)
  IN  ((cells + PageAlign - 1) \div PageAlign) * PageAlign

text_address(page, y, x) == calc_page_size * page + y * Cols + x

GfxAddress(y, x) ==
  IF MemModel = "cga" THEN (y \div 2) * LineLength + x + (y % 2) * Bank
  ELSE y * LineLength + x

\* memmove_stride() and memset_stride(), row by row.
MoveStride(mem, dst, src, length, stride, lines) ==
  LET Row(n) == IF src < dst THEN lines - 1 - n ELSE n
      Moved[n \in 0 .. lines] ==
        IF n = 0 THEN mem
        ELSE LET done == Moved[n - 1]
                 at == Row(n - 1) * stride
             IN  [a \in DOMAIN mem |->
                    IF a - dst - at \in 0 .. length - 1 THEN done[a - dst + src]
                    ELSE done[a]]
  IN  Moved[lines]

SetStride(mem, dst, value, length, stride, lines) ==
  [a \in DOMAIN mem |->
     IF \E n \in 0 .. lines - 1 : a - dst - n * stride \in 0 .. length - 1
     THEN value ELSE mem[a]]

GfxMemMove(mem, x, y, srcy, length, lines) ==
  LET Move(m, bank) ==
        MoveStride(m, bank + (y \div 2) * LineLength + x,
                   bank + (srcy \div 2) * LineLength + x, length, LineLength, lines \div 2)
  IN  IF MemModel = "cga" THEN Move(Move(mem, 0), Bank)
      ELSE MoveStride(mem, GfxAddress(y, x), GfxAddress(srcy, x), length, LineLength, lines)

GfxMemSet(mem, x, y, colour, length, lines) ==
  LET Set(m, bank) ==
        SetStride(m, bank + (y \div 2) * LineLength + x, Octet(colour, colour), length,
                  LineLength, lines \div 2)
  IN  IF MemModel = "cga" THEN Set(Set(mem, 0), Bank)
      ELSE SetStride(mem, GfxAddress(y, x), Octet(colour, colour), length,
                     LineLength, lines)

----------------------------------------------------------------------------
(* Characters                                                                *)

\* struct carattr
Char(char, attr, use) == [char |-> char, attr |-> attr, use |-> use]

\* The lines of a cell in graphics modes after a character was written into it.
Inked(cell, ca) ==
  LET h      == Len(cell)
      guess  == cell[h][2]
      usexor == ~machine.emulate /\ ca.attr.bg # {}
      fg == IF machine.emulate /\ ~ca.use THEN Xor(guess, {"rgb"}) ELSE ca.attr.fg
      bg == IF ~machine.emulate THEN {} ELSE IF ca.use THEN ca.attr.bg ELSE guess
      Ink(old, set) == IF usexor THEN Xor(old, IF set THEN fg ELSE {})
                       ELSE IF set THEN fg ELSE bg
  IN  [i \in 1 .. h |-> [p \in 1 .. 2 |-> Ink(cell[i][p], Glyph(ca.char, i - 1)[p])]]

gfx_write_char(mem, y, x, ca) ==
  LET at == [i \in 1 .. bda.height |-> GfxAddress(y * bda.height + i - 1, x)]
      inked == Inked([i \in 1 .. bda.height |-> mem[at[i]]], ca)
  IN  FoldLeft(LAMBDA m, i : [m EXCEPT ![at[i]] = inked[i]], mem,
               [i \in 1 .. bda.height |-> i])

vgafb_write_char(mem, page, y, x, ca) ==
  LET a == text_address(page, y, x)
  IN  IF ~Text THEN gfx_write_char(mem, y, x, ca)
      ELSE IF ca.use THEN [mem EXCEPT ![a] = Cell(ca.char, ca.attr)]
      ELSE [mem EXCEPT ![a].char = ca.char]

\* The character whose glyph differs from the background where the cell does; none
\* when there is no such character.
gfx_read_char(mem, y, x) ==
  LET h == bda.height
      cell == [i \in 1 .. h |-> mem[GfxAddress(y * h + i - 1, x)]]
      bg == IF machine.emulate THEN cell[h][2] ELSE {}
  IN  {char \in {" ", "a", "b", "full"} :
         \A i \in 1 .. h, p \in 1 .. 2 : Glyph(char, i - 1)[p] = (cell[i][p] # bg)}

vgafb_move_chars(mem, page, y, x, height, width, lines) ==
  IF Text
  THEN MoveStride(mem, text_address(page, y, x), text_address(page, y + lines, x), width,
                  Cols, height)
  ELSE GfxMemMove(mem, x, y * bda.height, (y + lines) * bda.height, width,
                  height * bda.height)

\* The colour that clears in graphics modes.
ClearColour(attr) == IF machine.emulate THEN attr.bg ELSE attr.fg

vgafb_clear_chars(mem, page, y, x, height, width, ca) ==
  IF Text
  THEN SetStride(mem, text_address(page, y, x),
                 Cell(ca.char, IF ca.use THEN ca.attr ELSE Normal), width, Cols, height)
  ELSE GfxMemSet(mem, x, y * bda.height, ClearColour(ca.attr), width, height * bda.height)

vgafb_scroll(mem, page, y, x, height, width, lines, ca) ==
  IF lines = 0 THEN vgafb_clear_chars(mem, page, y, x, height, width, ca)
  ELSE IF lines > 0
  THEN vgafb_clear_chars(
         vgafb_move_chars(mem, page, y, x, height - lines, width, lines),
         page, y + height - lines, x, lines, width, ca)
  ELSE vgafb_clear_chars(
         vgafb_move_chars(mem, page, y - lines, x, height + lines, width, lines),
         page, y, x, -lines, width, ca)

----------------------------------------------------------------------------
(* The picture: what such operations mean by place, which is a page, row and  *)
(* column in text modes and a line of pixels and a column in graphics modes.  *)

Places ==
  IF Text THEN Pages \X (0 .. (Lines \div machine.height) - 1) \X (0 .. Cols - 1)
  ELSE (0 .. Lines - 1) \X (0 .. Cols - 1)

AddressOf(p) == IF Text THEN text_address(p[1], p[2], p[3]) ELSE GfxAddress(p[1], p[2])

\* The places of the character at row y and column x, and the line within it.
At(p, page, y, x) ==
  IF Text THEN p = <<page, y, x>> ELSE p[1] \div bda.height = y /\ p[2] = x

InWindow(p, page, y, x, height, width) ==
  \E r \in 0 .. height - 1, c \in 0 .. width - 1 : At(p, page, y + r, x + c)

Put(pic, page, y, x, ca) ==
  LET cell == [i \in 1 .. bda.height |-> pic[<<y * bda.height + i - 1, x>>]]
  IN  [p \in Places |->
         IF ~At(p, page, y, x) THEN pic[p]
         ELSE IF Text THEN Cell(ca.char, IF ca.use THEN ca.attr ELSE pic[p].attr)
         ELSE Inked(cell, ca)[(p[1] % bda.height) + 1]]

Scrolled(pic, page, y, x, height, width, lines, ca) ==
  LET Src(p) == IF Text THEN [p EXCEPT ![2] = @ + lines]
                ELSE [p EXCEPT ![1] = @ + lines * bda.height]
      blank == IF Text THEN Cell(ca.char, IF ca.use THEN ca.attr ELSE Normal)
               ELSE Octet(ClearColour(ca.attr), ClearColour(ca.attr))
  IN  [p \in Places |->
         IF ~InWindow(p, page, y, x, height, width) THEN pic[p]
         ELSE IF lines # 0 /\ InWindow(Src(p), page, y, x, height, width) THEN pic[Src(p)]
         ELSE blank]

----------------------------------------------------------------------------
(* The cursor                                                                *)

\* Deviation: the cursor stays drawn while the active page changes.
Undraws_pages(ah) == ah \in {"00", "01", "02", "06", "08", "09", "0c", "0e", "13"}

\* The calls for which swcursor_pre_handle10() takes the cursor away.
Undraws(ah) == ah \in {"00", "01", "02", "05", "06", "08", "09", "0c", "0e", "13"}

CursorVisible ==
  LET cp == bda.cursor[bda.page]
  IN  cp[2] < Cols /\ cp[1] <= Rows - 1 /\ bda.shape # "hidden"

CursorLines == IF bda.shape = "all" THEN 0 .. bda.height - 1 ELSE {bda.height - 1}

Inverted(cell) ==
  IF Text THEN [cell EXCEPT !.attr = Attr(@.bg, @.fg)]
  ELSE [p \in 1 .. 2 |-> Xor(cell[p], {"rgb"})]

CursorCells ==
  LET cp == bda.cursor[bda.page]
  IN  IF Text THEN {text_address(bda.page, cp[1], cp[2])}
      ELSE {GfxAddress(cp[1] * bda.height + i, cp[2]) : i \in CursorLines}

WithCursorToggled(mem) ==
  LET cells == CursorCells
  IN  [a \in DOMAIN mem |-> IF a \in cells THEN Inverted(mem[a]) ELSE mem[a]]

\* set_swcursor(): memory and flag.
Drawn(enable) ==
  IF swcursor = enable \/ ~CursorVisible THEN [fb |-> fb, flag |-> swcursor]
  ELSE [fb |-> WithCursorToggled(fb), flag |-> enable]

swcursor_pre_handle10(ah) ==
  IF machine.emulate /\ Undraws(ah) THEN Drawn(FALSE) ELSE [fb |-> fb, flag |-> swcursor]

\* swcursor_check_event(), from the timer.
swcursor_check_event ==
  /\ machine.emulate
  /\ \E enable \in BOOLEAN :
       /\ fb' = Drawn(enable).fb
       /\ swcursor' = Drawn(enable).flag
  /\ UNCHANGED <<machine, bda, crtc, saved, calls, picture, unsettled>>

----------------------------------------------------------------------------
(* int 10h                                                                   *)

set_cursor_pos(b, page, cp) == [b EXCEPT !.cursor[page] = cp]

CrtcAfter(page, cp) ==
  IF page # bda.page THEN crtc
  ELSE [crtc EXCEPT !.cursor = text_address(page, cp[1], cp[2])]

\* The memory a call finds when the cursor was taken away.
Found(ah) == swcursor_pre_handle10(ah).fb

\* The call makes [cp, fb, pic] "done", and puts the cursor of "page" there if it
\* moves it.
Output(ah, page, move, done) ==
  /\ calls' = calls + 1
  /\ fb' = done.fb
  /\ swcursor' = swcursor_pre_handle10(ah).flag
  /\ picture' = done.pic
  /\ bda' = IF move THEN set_cursor_pos(bda, page, done.cp) ELSE bda
  /\ crtc' = IF move THEN CrtcAfter(page, done.cp) ELSE crtc
  /\ UNCHANGED <<machine, saved>>

\* The call makes memory "mem" and sets other variables of the BIOS data area.
Control(ah, mem, pic) ==
  /\ calls' = calls + 1
  /\ fb' = mem
  /\ swcursor' = swcursor_pre_handle10(ah).flag
  /\ picture' = pic
  /\ UNCHANGED <<machine, saved>>

\* Calls of which swcursor_pre_handle10() does not know may move or resize a cursor
\* that is drawn: it is then taken away where it is not.
Settled == UNCHANGED unsettled
Unsettles == unsettled' = (unsettled \/ (swcursor /\ CursorCells' # CursorCells))

\* write_char(): the place after the one written.
NextPlace(cp) == IF cp[2] + 1 = Cols THEN <<cp[1] + 1, 0>> ELSE <<cp[1], cp[2] + 1>>

\* A state of output is [cp, fb, pic].
WriteChar(s, page, ca) ==
  [cp |-> NextPlace(s.cp),
   fb |-> vgafb_write_char(s.fb, page, s.cp[1], s.cp[2], ca),
   pic |-> Put(s.pic, page, s.cp[1], s.cp[2], ca)]

Teletype(s, page, ca) ==
  CASE ca.char = "bs" -> [s EXCEPT !.cp[2] = IF @ > 0 THEN @ - 1 ELSE @]
    [] ca.char = "cr" -> [s EXCEPT !.cp[2] = 0]
    [] ca.char = "lf" -> [s EXCEPT !.cp[1] = @ + 1]
    [] OTHER -> WriteChar(s, page, ca)

write_teletype(s, page, ca) ==
  LET t == Teletype(s, page, ca)
      blank == Char(" ", Attr({}, {}), FALSE)
  IN  IF t.cp[1] <= Rows - 1 THEN t
      ELSE [cp |-> <<t.cp[1] - 1, t.cp[2]>>,
            fb |-> vgafb_scroll(t.fb, page, 0, 0, Rows, Cols, 1, blank),
            pic |-> Scrolled(t.pic, page, 0, 0, Rows, Cols, 1, blank)]

From(mem, cp) == [cp |-> cp, fb |-> mem, pic |-> picture]

\* Nothing keeps characters out of the memory behind the screen: programs do not
\* write there.
OnScreen(cp, count) == cp[1] * Cols + cp[2] + count <= Rows * Cols

Blank == IF Text THEN Cell(" ", Normal) ELSE Octet({}, {})

clear_screen(mem) == [a \in DOMAIN mem |-> Blank]

\* In its text mode only the first page is cleared.
cbvga_set_mode(mem) ==
  IF Text THEN SetStride(mem, 0, Blank, Cols * (Lines \div machine.height), 1, 1)
  ELSE SetStride(mem, 0, Blank, Cols, LineLength, Lines)

handle_1000(noclear) ==
  LET cleared ==
        IF noclear THEN Found("00")
        ELSE IF machine.emulate THEN cbvga_set_mode(Found("00"))
        ELSE clear_screen(Found("00"))
      Kept(p) == noclear \/ (machine.emulate /\ Text /\ p[1] # 0)
  IN  /\ Control("00", cleared, [p \in Places |-> IF Kept(p) THEN picture[p] ELSE Blank])
      /\ bda' = [page |-> 0, cursor |-> [page \in Pages |-> <<0, 0>>], shape |-> "last",
                 height |-> machine.height, rows |-> Lines \div machine.height]
      /\ crtc' = [start |-> 0, cursor |-> 0]

handle_1001(shape) ==
  /\ Control("01", Found("01"), picture)
  /\ bda' = [bda EXCEPT !.shape = shape]
  /\ UNCHANGED crtc

handle_1002(page, cp) ==
  Output("02", page, TRUE, From(Found("02"), cp))

handle_1005(page) ==
  LET cp == bda.cursor[page]
  IN  /\ Control("05", Found("05"), picture)
      /\ bda' = [bda EXCEPT !.page = page]
      /\ crtc' = [start |-> text_address(page, 0, 0),
                  cursor |-> text_address(page, cp[1], cp[2])]

\* handle_1006() and handle_1007() with verify_scroll().
verify_scroll(dir, uly, ulx, lry, lrx, al, attr) ==
  LET Least(a, b) == IF a < b THEN a ELSE b
      height == Least(lry, Rows - 1) - uly + 1
      width == Least(lrx, Cols - 1) - ulx + 1
      lines == IF al >= height THEN 0 ELSE dir * al
      ca == Char(" ", attr, TRUE)
      page == bda.page
      done ==
        IF height <= 0 \/ width <= 0 THEN From(Found("06"), <<>>)
        ELSE [fb |-> vgafb_scroll(Found("06"), page, uly, ulx, height, width, lines, ca),
              pic |-> Scrolled(picture, page, uly, ulx, height, width, lines, ca)]
  IN  Output("06", page, FALSE, done)

\* handle_1009() and handle_100a().
handle_1009(page, count, ca) ==
  /\ OnScreen(bda.cursor[page], count)
  /\ Output("09", page, FALSE,
            FoldLeft(LAMBDA s, n : WriteChar(s, page, ca),
                     From(Found("09"), bda.cursor[page]), [n \in 1 .. count |-> n]))

\* Reading a character takes the cursor away first.
handle_1008 ==
  Output("08", bda.page, FALSE, From(Found("08"), <<>>))

\* A pixel of an octet; nothing happens in text modes.
vgafb_write_pixel(y, x, p, colour, usexor) ==
  LET Dot(octet) == [octet EXCEPT ![p] = IF usexor /\ ~machine.emulate
                                         THEN Xor(@, colour) ELSE colour]
      done ==
        IF Text THEN From(Found("0c"), <<>>)
        ELSE [fb |-> [Found("0c") EXCEPT ![GfxAddress(y, x)] = Dot(@)],
              pic |-> [picture EXCEPT ![<<y, x>>] = Dot(@)]]
  IN  Output("0c", bda.page, FALSE, done)

handle_100e(ca) ==
  /\ OnScreen(bda.cursor[bda.page], 1)
  /\ Output("0e", bda.page, TRUE,
            write_teletype(From(Found("0e"), bda.cursor[bda.page]), bda.page, ca))

handle_1013(page, place, string, attr, move) ==
  /\ OnScreen(place, 1)
  /\ Output("13", page, move,
            FoldLeft(LAMBDA s, char : write_teletype(s, page, Char(char, attr, TRUE)),
                     From(Found("13"), place), string))

\* A font for graphics modes: the rows change with it, but not what is shown.
load_gfx_font(height) ==
  /\ ~Text
  /\ Control("11", Found("11"), picture)
  /\ bda' = [bda EXCEPT !.height = height, !.rows = Lines \div height]
  /\ UNCHANGED crtc
  /\ Unsettles

\* int 10h ah=1Ch, of the BIOS data area and, where it has one, the hardware.
SaveState ==
  /\ calls' = calls + 1
  /\ saved = <<>>
  /\ saved' = <<[bda |-> bda, crtc |-> crtc]>>
  /\ UNCHANGED <<machine, bda, swcursor, fb, crtc, picture, unsettled>>

RestoreState ==
  /\ calls' = calls + 1
  /\ saved # <<>>
  /\ bda' = saved[1].bda
  /\ crtc' = saved[1].crtc
  /\ UNCHANGED <<machine, swcursor, fb, saved, picture>>
  /\ Unsettles

----------------------------------------------------------------------------

\* A machine on whose screen there is something on every page.
Init ==
  /\ machine \in Machines
  /\ bda = [page |-> 0, cursor |-> [page \in Pages |-> <<0, 0>>], shape |-> "last",
            height |-> machine.height, rows |-> Lines \div machine.height]
  /\ LET Old(y, x) == IF (y + x) % 3 = 0 THEN Char("a", Normal, TRUE)
                      ELSE Char(IF x = 0 THEN "b" ELSE "full", Bright, TRUE)
         blank == [i \in 1 .. machine.height |-> Octet({}, {})]
         h == machine.height
     IN  picture = [p \in Places |->
           IF Text THEN Cell(Old(p[1] + p[2], p[3]).char, Old(p[1] + p[2], p[3]).attr)
           ELSE Inked(blank, Old(p[1] \div h, p[2]))[(p[1] % h) + 1]]
  /\ fb = [a \in 0 .. Bank + (Lines \div 2) * LineLength |->
             IF \E p \in Places : AddressOf(p) = a
             THEN picture[CHOOSE p \in Places : AddressOf(p) = a]
             ELSE IF Text THEN Cell(" ", Normal) ELSE Octet({}, {})]
  /\ crtc = [start |-> 0, cursor |-> 0]
  /\ swcursor = FALSE /\ saved = <<>> /\ calls = 0 /\ unsettled = FALSE

\* The cursor is put on the screen, or below it to hide it.
CursorPlaces == {<<0, Cols - 1>>, <<Rows - 1, Cols - 1>>, <<Rows, 0>>}

Calls ==
  \/ /\ Settled
     /\ \/ \E noclear \in BOOLEAN : handle_1000(noclear)
        \/ \E shape \in {"all", "hidden"} : handle_1001(shape)
        \/ \E page \in Pages, cp \in CursorPlaces : handle_1002(page, cp)
        \/ \E page \in Pages : handle_1005(page)
        \/ \E dir \in {-1, 1}, ulx \in 0 .. 1 :
             verify_scroll(dir, 0, ulx, Lines, Cols, 1, Bright)
        \/ verify_scroll(1, 0, 0, 0, 0, 2, Normal)
        \/ verify_scroll(-1, 1, 1, 0, 1, 1, Bright)
        \/ \E page \in Pages, use \in BOOLEAN : handle_1009(page, 2, Char("b", Bright, use))
        \/ handle_1008
        \/ \E usexor \in BOOLEAN : vgafb_write_pixel(Lines - 1, 0, 2, {"h"}, usexor)
        \/ \E char \in {"a", "full", "bs", "cr", "lf"} :
             handle_100e(Char(char, Bright, FALSE))
        \/ \E page \in Pages, string \in {<<"a", "b">>, <<"lf", "b">>}, move \in BOOLEAN :
             handle_1013(page, <<Rows - 1, Cols - 1>>, string, Normal, move)
  \/ \E height \in Heights : load_gfx_font(height)
  \/ SaveState /\ Settled
  \/ RestoreState

Next ==
  \/ calls < MaxCalls /\ Calls
  \/ swcursor_check_event

----------------------------------------------------------------------------

\* Video memory holds what the calls have asked for, on every page and whichever
\* page is shown, under the cursor if it is drawn.
MemoryShowsPicture ==
  LET mem == IF swcursor THEN WithCursorToggled(fb) ELSE fb
  IN  ~unsettled => \A p \in Places : mem[AddressOf(p)] = picture[p]

\* In text modes of VGA hardware the display and its cursor are where the active
\* page's are.
DisplayFollows ==
  Text /\ ~machine.emulate =>
    LET cp == bda.cursor[bda.page]
    IN  crtc = [start |-> text_address(bda.page, 0, 0),
                cursor |-> text_address(bda.page, cp[1], cp[2])]

\* In graphics modes a letter is recognised by what writing it has left in memory.
LettersRead ==
  Text \/ \A char \in {" ", "a", "b"} :
            gfx_read_char(gfx_write_char(fb, 0, 0, Char(char, Normal, TRUE)), 0, 0) = {char}

\* The screen is what the calls made of it, for the eye and for int 10h ah=08h.
ScreenTrue == MemoryShowsPicture /\ DisplayFollows /\ LettersRead

=============================================================================
