------------------------------ MODULE Terminal ------------------------------
(***************************************************************************)
(* The virtual terminals (arch/x64/tty.c) and the escape sequences of      *)
(* ttyk_write (drv/ttyk/ttyk.c).  Each terminal has a buffer of cells and  *)
(* a cursor; the screen and its cursor are meant to show the terminal      *)
(* tty_current, called `shown' here.  A call of tty_write or ttyk_write    *)
(* holds spinlocks to its end and is one step; tty_switch_to sets          *)
(* tty_current before it takes the lock of the display, and two threads    *)
(* may be in it.  The parser of escape sequences is one for all terminals. *)
(* A cell is a character and its colours, and a colour goes by the number  *)
(* an escape sequence has for it.  The model begins after tty_init_post.   *)
(***************************************************************************)
EXTENDS Integers, Sequences

LOCAL INSTANCE SequencesExt

CONSTANTS
  Vids, Switchers,   \* the terminals, the threads that switch
  SIZE_X, SIZE_Y,    \* 80 and 25
  ANSI_MAX,          \* the longest sequence: 22
  Printed, Strings,  \* what ttyk_write and what tty_write are given
  MaxWrites          \* bound on the number of calls

VARIABLES
  screen,    \* the terminals, the screen (output), its cursor and the parser;
             \* ghosts: `stale' when output lacks a change of the shown buffer,
             \* `astray' when the cursor does
  shown,     \* tty_current
  switching, \* what each thread in tty_switch_to has still to copy
  writes

ttyVideo == <<screen, shown, switching, writes>>

BlankCell(t) == [ascii |-> "nul", fg |-> t.color_fg, bg |-> t.color_bg]

FreshTty ==
  [x |-> 0, y |-> 0, color_fg |-> 97, color_bg |-> 40,
   buffer |-> [i \in 0 .. SIZE_X * SIZE_Y - 1 |-> [ascii |-> "nul", fg |-> 97, bg |-> 40]]]

TerminalInit ==
  /\ screen = [tty |-> [v \in Vids |-> FreshTty], output |-> FreshTty.buffer,
               cursor |-> <<0, 0>>, state |-> 0, sequence |-> <<>>,
               stale |-> FALSE, astray |-> FALSE]
  /\ shown \in Vids
  /\ switching = [s \in Switchers |-> {}]
  /\ writes = 0

-----------------------------------------------------------------------------
(* The whole buffer of the shown terminal goes to the screen. *)
Refreshed(S, v) ==
  IF v # shown THEN S
  ELSE [S EXCEPT !.output = S.tty[v].buffer, !.stale = FALSE]

_tty_set_cursor_pos(S, v) ==
  [S EXCEPT !.cursor = <<S.tty[v].x, S.tty[v].y>>, !.astray = v # shown]

CursorShown(S, v) == IF v = shown THEN _tty_set_cursor_pos(S, v) ELSE S

tty_scroll(S, v) ==
  LET t == S.tty[v]
      moved == [i \in DOMAIN t.buffer |->
                  IF i + SIZE_X \in DOMAIN t.buffer THEN t.buffer[i + SIZE_X] ELSE BlankCell(t)]
  IN  Refreshed([S EXCEPT !.tty[v].buffer = moved, !.tty[v].y = @ - 1], v)

(* Column 0 of the next line, scrolling as often as it takes. *)
NextLine(S, v) ==
  LET below == [S EXCEPT !.tty[v].x = 0, !.tty[v].y = @ + 1]
  IN  FoldLeft(LAMBDA R, i : tty_scroll(R, v), below,
               [i \in 1 .. below.tty[v].y - (SIZE_Y - 1) |-> i])

Wrapped(S, v) == IF S.tty[v].x >= SIZE_X THEN NextLine(S, v) ELSE S

Cell(S, v) == S.tty[v].x + S.tty[v].y * SIZE_X

Coloured(S, v, c) ==
  [ascii |-> c, fg |-> S.tty[v].color_fg, bg |-> S.tty[v].color_bg]

(* A backspace blanks the cell under the cursor, in the buffer only, and at
   column 0 sets the screen's cursor whatever terminal is shown. *)
tty_putchar(S0, v, c) ==
  LET S == Wrapped(S0, v)
      at == Cell(S, v)
  IN
  CASE c = "nl" -> CursorShown(NextLine(S, v), v)
    [] c = "cr" -> CursorShown([S EXCEPT !.tty[v].x = 0], v)
    [] c = "bs" /\ S.tty[v].x = 0 -> _tty_set_cursor_pos(S, v)
    [] c = "bs" /\ S.tty[v].x # 0 ->
         CursorShown([S EXCEPT !.tty[v].buffer[at].ascii = " ", !.tty[v].x = @ - 1,
                               !.stale = @ \/ v = shown], v)
    [] OTHER ->
         LET put == [S EXCEPT !.tty[v].buffer[at] = Coloured(S, v, c), !.tty[v].x = @ + 1]
         IN  IF v # shown THEN put
             ELSE CursorShown([put EXCEPT !.output[at] = put.tty[v].buffer[at]], v)

(* tty_write copies as many cells as it wrote, from where it began: all of
   them only when the text has no line break and does not scroll. *)
tty_write(S, v, text) ==
  LET start == Cell(S, v)
      Put(R, c) ==
        LET W == Wrapped(R, v) IN
        IF c = "nl" THEN NextLine(W, v)
        ELSE IF c = "cr" THEN [W EXCEPT !.tty[v].x = 0]
        ELSE [W EXCEPT !.tty[v].buffer[Cell(W, v)] = Coloured(W, v, c),
                       !.tty[v].x = @ + 1]
      done == FoldLeft(Put, S, text)
      len  == Len(SelectSeq(text, LAMBDA c : c \notin {"nl", "cr"}))
      out  == [i \in DOMAIN done.output |->
                 IF i \in start .. start + len - 1 THEN done.tty[v].buffer[i]
                                                   ELSE done.output[i]]
  IN  IF v # shown THEN done
      ELSE CursorShown([done EXCEPT !.output = out, !.stale = @ \/ len < Len(text)
                          \/ start + len > SIZE_X * SIZE_Y], v)

tty_clear(S, v) ==
  Refreshed([S EXCEPT !.tty[v].buffer = [i \in DOMAIN @ |-> BlankCell(S.tty[v])]], v)

tty_set_color_ansi(S, v, ansi) ==
  IF ansi \in 30 .. 37 \cup 90 .. 97 THEN [S EXCEPT !.tty[v].color_fg = ansi]
  ELSE IF ansi \in 40 .. 47 \cup 100 .. 107 THEN [S EXCEPT !.tty[v].color_bg = ansi]
  ELSE S

(* Its tests let every position through. *)
tty_set_cursor_pos(S, v, x, y) ==
  CursorShown([S EXCEPT !.tty[v].x = x, !.tty[v].y = y], v)

-----------------------------------------------------------------------------
Upper == {"[", "J", "H"}            \* '@' to '_'
Final == Upper \cup {"m", "a"}      \* '@' to '~'

(* A character of a number, less '0': atoi takes any for a digit. *)
Digit(c) ==
  CASE c = "1" -> 1 [] c = "2" -> 2 [] c = "3" -> 3 [] c = "4" -> 4
    [] c = "nl" -> 10 - 48 [] c = "cr" -> 13 - 48 [] c = "bs" -> 8 - 48
    [] c = "esc" -> 27 - 48

(* The numbers, of 16 bits, between separators; an empty one is skipped. *)
Args(seq) ==
  LET Step(a, c) ==
        IF c \notin {";"} \cup Final THEN [a EXCEPT !.n = 10 * @ + Digit(c), !.some = TRUE]
        ELSE IF a.some
        THEN [args |-> Append(a.args, a.n % 2^16), n |-> 0, some |-> FALSE]
        ELSE a
      all == FoldLeft(Step, [args |-> <<>>, n |-> 0, some |-> FALSE], seq)
  IN  [i \in 1 .. 6 |-> IF i <= Len(all.args) THEN all.args[i] ELSE 0]

interpret_ansi(S, v, seq) ==
  LET final == seq[Len(seq)]
      args == Args(Tail(seq))
  IN  CASE final = "m" -> tty_set_color_ansi(S, v, args[1])
        [] final = "J" /\ args[1] = 2 -> tty_clear(S, v)
        [] final = "H" -> tty_set_cursor_pos(S, v, args[1] - 1, args[2] - 1)
        [] OTHER -> S

_tty_write(S, v, c) ==
  LET seq == Append(S.sequence, c)
      over == [S EXCEPT !.state = 0, !.sequence = <<>>]
  IN
  CASE S.state = 0 /\ c = "esc" -> [S EXCEPT !.state = 1]
    [] S.state = 0 /\ c # "esc" -> tty_putchar(S, v, c)
    [] S.state = 1 /\ c \in Upper -> [S EXCEPT !.state = 2, !.sequence = seq]
    [] S.state = 1 /\ c \notin Upper -> over
    [] S.state = 2 /\ c \in Final -> interpret_ansi(over, v, seq)
    [] S.state = 2 /\ c \notin Final ->
         IF Len(seq) > ANSI_MAX THEN over ELSE [S EXCEPT !.sequence = seq]

ttyk_write(S, v, text) == FoldLeft(LAMBDA R, c : _tty_write(R, v, c), S, text)

-----------------------------------------------------------------------------
Write(v) ==
  /\ writes < MaxWrites
  /\ writes' = writes + 1
  /\ \/ \E text \in Printed : screen' = ttyk_write(screen, v, text)
     \/ \E text \in Strings : screen' = tty_write(screen, v, text)
  /\ UNCHANGED <<shown, switching>>

(* tty_switch_to, from sys_funckey: its two halves.  The second copies the
   terminal it was called for, whatever is current by then. *)
BeginSwitch(s, v) ==
  /\ switching[s] = {} /\ writes < MaxWrites
  /\ writes' = writes + 1
  /\ shown' = v
  /\ switching' = [switching EXCEPT ![s] = {v}]
  /\ UNCHANGED screen

switch_cursor_only(s) ==
  /\ \E v \in switching[s] :
       screen' = [_tty_set_cursor_pos(screen, v) EXCEPT !.stale = v # shown]
  /\ switching' = [switching EXCEPT ![s] = {}]
  /\ UNCHANGED <<shown, writes>>

CopySwitched(s) ==
  /\ \E v \in switching[s] :
       screen' = [_tty_set_cursor_pos(screen, v) EXCEPT
                    !.output = screen.tty[v].buffer, !.stale = v # shown]
  /\ switching' = [switching EXCEPT ![s] = {}]
  /\ UNCHANGED <<shown, writes>>

TerminalNext ==
  \/ \E v \in Vids : Write(v)
  \/ \E s \in Switchers, v \in Vids : BeginSwitch(s, v)
  \/ \E s \in Switchers : CopySwitched(s)

-----------------------------------------------------------------------------
(* The screen shows tty_current: when no switch is under way, each cell of
   the screen is the cell of the terminal's buffer, and the screen's cursor
   is its cursor, whatever was written to which terminal, scrolled, cleared
   or coloured meanwhile.  The exceptions are the ghosts': a backspace, a
   string with line breaks or at the foot of the screen, two switches that
   overlap, until the next copy of the whole buffer.  The cursor of every
   terminal stays on the screen, or one column past its end until the next
   character wraps, when programs ask for positions on the screen: no cell
   outside the buffer is written. *)
ScreenShowsTerminal ==
  /\ (\A s \in Switchers : switching[s] = {})
       => /\ ~screen.stale => screen.output = screen.tty[shown].buffer
          /\ ~screen.astray => screen.cursor = <<screen.tty[shown].x, screen.tty[shown].y>>
  /\ \A v \in Vids : screen.tty[v].x \in 0 .. SIZE_X /\ screen.tty[v].y \in 0 .. SIZE_Y - 1

=============================================================================
