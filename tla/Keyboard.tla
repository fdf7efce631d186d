------------------------------ MODULE Keyboard ------------------------------
(***************************************************************************)
(* The keyboard, from the scancodes to the readers of the terminals        *)
(* (arch/x64/ps2.c, dev/input.c, drv/ttyk/ttyk.c).  The worker of the      *)
(* keyboard's interrupt turns scancodes into key presses, the thread of    *)
(* input_loop repeats the keys held down, and both append key events, a    *)
(* byte of modifiers and a byte of key, to one ring (Cbufm).  The readers  *)
(* of all terminals share one place in it, ttyk_current_ptr.               *)
(* The two bytes of an event are written, and read, under input_spinlock.  *)
(* The driver drops the prefix 0xE0, so two buttons may send one scancode, *)
(* and its table gives one key to several scancodes and key 0 to the ones  *)
(* it does not know.  The replies of the keyboard to commands only set     *)
(* last_cmd_byte, and the only request sys_sysrq knows stops the machine:  *)
(* they are left out.                                                      *)
(***************************************************************************)
EXTENDS Integers, Sequences, Cbufm

CONSTANTS
  Buttons,      \* the keyboard's buttons
  sends,        \* the scancode of each, without the prefix
  translation,  \* the table of ps2.c, from scancodes to keys
  KB_SIZE,      \* the ring's size: 512
  REPEAT_AFTER, \* the turns of input_loop before it repeats: 10
  MaxStrokes,   \* bound on the buttons pressed
  TTY_AMOUNT,   \* the number of terminals: 6
  TtyFiles,     \* the dev_fd_t's that open terminals, each with its reader
  NoFile

(* An event is two bytes, and a whole number of them fits in the ring. *)
ASSUME KeyboardAssumption ==
  /\ KB_SIZE \in Nat \ {0} /\ KB_SIZE % 2 = 0
  /\ \A b \in Buttons : translation[sends[b]] \in 0 .. 255

Key(b) == translation[sends[b]]
Keys == {Key(b) : b \in Buttons}
Ttys == 0 .. TTY_AMOUNT - 1

VARIABLES
  release, ps2_pressed,     \* ps2.c: after 0xF0; pressed[]
  input_flags, pressed_keys, prscnt, sysrq,  \* input.c
  looping,      \* input_loop's pc and the key it saw pressed
  kb_ring,      \* input_kb_cbufm
  tty_current, ttyk_current_ptr,
  queues,       \* each terminal's open files, in order, and its `current'
  ttyfiles,     \* each file's terminal and its reader's pc and whether
                \* something is left to read
  down,         \* ghost: the buttons held down
  prefixed,     \* ghost: the keyboard sent 0xF0 and has the scancode to send
  strokes,      \* ghost: the number of buttons pressed
  untyped,      \* ghost: the key events appended and not yet read
  kb_lapped,    \* ghost: a full turn was appended past ttyk_current_ptr
  mistyped      \* ghost: a reader got another event than the oldest one

ps2Vars == <<release, ps2_pressed, down, prefixed, strokes>>
inputVars == <<input_flags, pressed_keys, prscnt, sysrq>>
eventVars == <<kb_ring, untyped, kb_lapped>>
ttyVars == <<ttyk_current_ptr, queues, mistyped>>
kbVars == <<ps2Vars, inputVars, eventVars, ttyVars, looping, tty_current, ttyfiles>>

ClosedFile == [tty |-> NoFile, pc |-> "idle", left |-> FALSE]

KeyboardInit ==
  /\ release = FALSE /\ ps2_pressed = {} /\ down = {}
  /\ prefixed = FALSE /\ strokes = 0
  /\ input_flags = {} /\ pressed_keys = {} /\ prscnt = 0 /\ sysrq = FALSE
  /\ looping = [pc |-> "asleep", key |-> 0]
  /\ kb_ring = cbufm_create(KB_SIZE, 0)
  /\ untyped = <<>> /\ kb_lapped = FALSE /\ mistyped = FALSE
  /\ tty_current = 0 /\ ttyk_current_ptr = 0
  /\ queues = [t \in Ttys |-> [files |-> <<>>, current |-> NoFile]]
  /\ ttyfiles = [f \in TtyFiles |-> ClosedFile]

-----------------------------------------------------------------------------
(* The modifiers a key stands for: the shifts, the alts and the controls. *)
Flags(key) ==
  (IF key \in {\h0E, \h0F} THEN {"shift"} ELSE {})
    \cup (IF key \in {\h17, \h18} THEN {"alt"} ELSE {})
    \cup (IF key \in {\h15, \h18, \h1B} THEN {"ctrl"} ELSE {})

(* The byte input_flags, of INPUT_SHIFT_FLAG, INPUT_CONTROL_FLAG and
   INPUT_ALT_FLAG. *)
FlagsByte ==
  (IF "shift" \in input_flags THEN 1 ELSE 0)
    + (IF "ctrl" \in input_flags THEN 2 ELSE 0)
    + (IF "alt" \in input_flags THEN 4 ELSE 0)

CtrlAlt == {"ctrl", "alt"} \subseteq input_flags

(* F1 to F8 show a terminal, when there is one for the key. *)
sys_funckey(key) ==
  tty_current' = IF key - \h6A < TTY_AMOUNT THEN key - \h6A ELSE tty_current

(* append_key_event: a key that follows the system request key, that key and
   the function keys are not appended.  The append wakes the readers on
   input_event. *)
append_key_first(k) ==
  IF sysrq THEN sysrq' = FALSE /\ UNCHANGED <<eventVars, tty_current, ttyfiles>>
  ELSE IF k = \h75 /\ CtrlAlt
  THEN sysrq' = TRUE /\ UNCHANGED <<eventVars, tty_current, ttyfiles>>
  ELSE IF k \in \h6A .. \h71 /\ CtrlAlt
  THEN sys_funckey(k) /\ UNCHANGED <<sysrq, eventVars, ttyfiles>>
  ELSE /\ kb_ring' = cbufm_write(kb_ring, <<k, FlagsByte>>)
       /\ kb_lapped' = (kb_lapped \/ 2 * (Len(untyped) + 1) = KB_SIZE)
       /\ untyped' = IF kb_lapped' THEN <<>> ELSE Append(untyped, <<FlagsByte, k>>)
       /\ ttyfiles' = [f \in TtyFiles |->
            IF ttyfiles[f].pc = "asleep" THEN [ttyfiles[f] EXCEPT !.pc = "test"]
                                         ELSE ttyfiles[f]]
       /\ UNCHANGED <<sysrq, tty_current>>

append_key_event(k) ==
  IF sysrq THEN sysrq' = FALSE /\ UNCHANGED <<eventVars, tty_current, ttyfiles>>
  ELSE IF k = \h75 /\ CtrlAlt
  THEN sysrq' = TRUE /\ UNCHANGED <<eventVars, tty_current, ttyfiles>>
  ELSE IF k \in \h6A .. \h71 /\ CtrlAlt
  THEN sys_funckey(k) /\ UNCHANGED <<sysrq, eventVars, ttyfiles>>
  ELSE /\ kb_ring' = cbufm_write(kb_ring, <<FlagsByte, k>>)
       /\ kb_lapped' = (kb_lapped \/ 2 * (Len(untyped) + 1) = KB_SIZE)
       /\ untyped' = IF kb_lapped' THEN <<>> ELSE Append(untyped, <<FlagsByte, k>>)
       /\ ttyfiles' = [f \in TtyFiles |->
            IF ttyfiles[f].pc = "asleep" THEN [ttyfiles[f] EXCEPT !.pc = "test"]
                                         ELSE ttyfiles[f]]
       /\ UNCHANGED <<sysrq, tty_current>>

input_kb_press(k) ==
  IF Flags(k) # {}
  THEN /\ input_flags' = input_flags \cup Flags(k)
       /\ UNCHANGED <<pressed_keys, prscnt, sysrq, eventVars, tty_current, ttyfiles>>
  ELSE /\ IF k \in pressed_keys
          THEN UNCHANGED <<sysrq, eventVars, tty_current, ttyfiles>>
          ELSE append_key_event(k)
       /\ prscnt' = 0
       /\ pressed_keys' = pressed_keys \cup {k}
       /\ UNCHANGED input_flags

input_kb_release(k) ==
  /\ IF Flags(k) # {}
     THEN /\ input_flags' = input_flags \ Flags(k)
          /\ UNCHANGED <<pressed_keys, prscnt>>
     ELSE /\ prscnt' = 0
          /\ pressed_keys' = pressed_keys \ {k}
          /\ UNCHANGED input_flags
  /\ UNCHANGED <<sysrq, eventVars, tty_current, ttyfiles>>

(* ps2kb_irq after the prefixes: the scancode of a release, of a press, or
   the repetition of one that is pressed. *)
irq_keeps_release(c) ==
  /\ IF release
     THEN /\ ps2_pressed' = ps2_pressed \ {c}
          /\ input_kb_release(translation[c])
     ELSE IF c \in ps2_pressed
     THEN UNCHANGED <<ps2_pressed, inputVars, eventVars, tty_current, ttyfiles>>
     ELSE /\ ps2_pressed' = ps2_pressed \cup {c}
          /\ input_kb_press(translation[c])
  /\ UNCHANGED release

ps2kb_irq(c) ==
  /\ IF release
     THEN /\ ps2_pressed' = ps2_pressed \ {c}
          /\ input_kb_release(translation[c])
     ELSE IF c \in ps2_pressed
     THEN UNCHANGED <<ps2_pressed, inputVars, eventVars, tty_current, ttyfiles>>
     ELSE /\ ps2_pressed' = ps2_pressed \cup {c}
          /\ input_kb_press(translation[c])
  /\ release' = FALSE

(* The keyboard: a button goes down, repeats its scancode while it is down, or
   comes up in two scancodes.  A lapped ring is not followed further. *)
KeyDown(b) ==
  /\ ~prefixed /\ ~kb_lapped
  /\ b \in down \/ strokes < MaxStrokes
  /\ strokes' = IF b \in down THEN strokes ELSE strokes + 1
  /\ ps2kb_irq(sends[b])
  /\ down' = down \cup {b}
  /\ UNCHANGED <<prefixed, ttyVars, looping>>

(* ps2kb_irq of 0xF0. *)
KeyUpPrefix ==
  /\ ~prefixed /\ down # {}
  /\ prefixed' = TRUE /\ release' = TRUE
  /\ UNCHANGED <<ps2_pressed, down, strokes, inputVars, eventVars, ttyVars, looping,
                 tty_current, ttyfiles>>

KeyUp(b) ==
  /\ prefixed /\ b \in down
  /\ prefixed' = FALSE
  /\ ps2kb_irq(sends[b])
  /\ down' = down \ {b}
  /\ UNCHANGED <<strokes, ttyVars, looping>>

-----------------------------------------------------------------------------
(* input_loop, awake after its sleep: prscnt, then the keys, in any order and
   as often as a run of passes may look at them.  A key that is seen pressed
   may be released before it is appended. *)
input_loop ==
  /\ looping.pc = "asleep"
  /\ prscnt' = IF prscnt < REPEAT_AFTER THEN prscnt + 1 ELSE prscnt
  /\ looping' = [looping EXCEPT !.pc =
       IF prscnt' < REPEAT_AFTER THEN "asleep" ELSE "look"]
  /\ UNCHANGED <<ps2Vars, input_flags, pressed_keys, sysrq, eventVars, ttyVars,
                 tty_current, ttyfiles>>

LookAtKey ==
  /\ looping.pc = "look"
  /\ \/ \E k \in pressed_keys : looping' = [pc |-> "append", key |-> k]
     \/ looping' = [looping EXCEPT !.pc = "asleep"]
  /\ UNCHANGED <<ps2Vars, inputVars, eventVars, ttyVars, tty_current, ttyfiles>>

RepeatKey ==
  /\ looping.pc = "append"
  /\ append_key_event(looping.key)
  /\ looping' = [pc |-> "look", key |-> 0]
  /\ UNCHANGED <<ps2Vars, input_flags, pressed_keys, prscnt, ttyVars>>

-----------------------------------------------------------------------------
(* The terminals' files: the last one opened reads. *)
ttyk_open(f, t) ==
  /\ ttyfiles[f] = ClosedFile
  /\ ttyfiles' = [ttyfiles EXCEPT ![f].tty = t]
  /\ queues' = [queues EXCEPT ![t] = [files |-> Append(@.files, f), current |-> f]]
  /\ UNCHANGED <<ps2Vars, inputVars, eventVars, looping, tty_current,
                 ttyk_current_ptr, mistyped>>

remove_file(f) ==
  LET t == ttyfiles[f].tty
      rest == SelectSeq(queues[t].files, LAMBDA g : g # f)
  IN  queues' = [queues EXCEPT ![t] =
        [files |-> rest,
         current |-> IF rest = <<>> THEN NoFile ELSE rest[Len(rest)]]]

ttyk_close(f) ==
  /\ ttyfiles[f].tty # NoFile /\ ttyfiles[f].pc = "idle"
  /\ remove_file(f)
  /\ ttyfiles' = [ttyfiles EXCEPT ![f] = ClosedFile]
  /\ UNCHANGED <<ps2Vars, inputVars, eventVars, looping, tty_current,
                 ttyk_current_ptr, mistyped>>

ReaderAt(f, pc) == ttyfiles[f].pc = pc

(* ttyk_read of one byte, to the wait on input_event; a killed reader returns
   from it with -EINTR. *)
ttyk_read(f) ==
  /\ ttyfiles[f].tty # NoFile /\ ReaderAt(f, "idle")
  /\ ttyfiles' = [ttyfiles EXCEPT ![f].pc = "asleep", ![f].left = TRUE]
  /\ UNCHANGED <<ps2Vars, inputVars, eventVars, ttyVars, looping, tty_current>>

ReadInterrupted(f) ==
  /\ ReaderAt(f, "asleep")
  /\ ttyfiles' = [ttyfiles EXCEPT ![f].pc = "idle", ![f].left = FALSE]
  /\ UNCHANGED <<ps2Vars, inputVars, eventVars, ttyVars, looping, tty_current>>

(* Awake, the reader waits again unless its terminal is shown and it is the
   terminal's current file. *)
ReadTest(f) ==
  /\ ReaderAt(f, "test")
  /\ ttyfiles' = [ttyfiles EXCEPT ![f].pc =
       IF ttyfiles[f].tty = tty_current /\ queues[ttyfiles[f].tty].current = f
       THEN "get" ELSE "asleep"]
  /\ UNCHANGED <<ps2Vars, inputVars, eventVars, ttyVars, looping, tty_current>>

(* input_kb_get, then `again' until it finds no key, or key 0, whatever is left
   to read. *)
input_kb_get(last) ==
  IF cbufm_available(kb_ring, last) < 2 THEN [key |-> 0, mod |-> 0, next |-> last]
  ELSE [key |-> Chunk(kb_ring, last + 1, 1)[1], mod |-> Chunk(kb_ring, last, 1)[1],
        next |-> After(kb_ring, last + 1, 1)]

ReadKeys(f) ==
  /\ ReaderAt(f, "get")
  /\ LET e == input_kb_get(ttyk_current_ptr) IN
     /\ ttyk_current_ptr' = e.next
     /\ ttyfiles' = [ttyfiles EXCEPT ![f] =
          IF e.key # 0 THEN [ttyfiles[f] EXCEPT !.left = FALSE]
          ELSE [ttyfiles[f] EXCEPT !.pc = IF ttyfiles[f].left THEN "asleep" ELSE "idle"]]
     /\ IF e.next = ttyk_current_ptr
        THEN UNCHANGED <<untyped, mistyped>>
        ELSE /\ untyped' = IF untyped = <<>> THEN <<>> ELSE Tail(untyped)
             /\ mistyped' = (mistyped \/
                  (~kb_lapped /\ (untyped = <<>> \/ Head(untyped) # <<e.mod, e.key>>)))
  /\ UNCHANGED <<ps2Vars, inputVars, kb_ring, kb_lapped, looping, tty_current, queues>>

KeyboardNext ==
  \/ \E b \in Buttons : KeyDown(b) \/ KeyUp(b)
  \/ KeyUpPrefix
  \/ input_loop \/ LookAtKey \/ RepeatKey
  \/ \E f \in TtyFiles, t \in Ttys : ttyk_open(f, t)
  \/ \E f \in TtyFiles :
       ttyk_close(f) \/ ttyk_read(f) \/ ReadInterrupted(f) \/ ReadTest(f) \/ ReadKeys(f)

KeyboardSpec == KeyboardInit /\ [][KeyboardNext]_kbVars

-----------------------------------------------------------------------------
(* Unless the ring was lapped, the readers of the terminals together get the
   key events in the order they were appended, each once and with the
   modifiers it was appended with, whichever of the two threads appended it
   and however the shown terminal and the current file change. *)
KeysInOrder == ~mistyped

(* What ps2.c and input.c believe held down.  Nothing stays stuck: a scancode,
   a key or a modifier that is believed held is held by some button.  And
   nothing a button holds alone is lost between the two scancodes of its
   release, whatever else is pressed and released meanwhile: when no other
   button sends its scancode, has its key or has a modifier of it, the drivers
   believe that scancode, that key or that modifier held as long as the button
   is.  Of two buttons that share one, the release of either clears it. *)
KeysFollowKeyboard ==
  /\ ps2_pressed \subseteq {sends[b] : b \in down}
  /\ \A k \in pressed_keys : Flags(k) = {} /\ \E b \in down : Key(b) = k
  /\ input_flags \subseteq UNION {Flags(Key(b)) : b \in down}
  /\ \A b \in down :
       /\ (\A a \in Buttons : sends[a] = sends[b] => a = b) =>
            sends[b] \in ps2_pressed
       /\ Flags(Key(b)) = {} /\ (\A a \in Buttons : Key(a) = Key(b) => a = b) =>
            Key(b) \in pressed_keys
       /\ \A f \in Flags(Key(b)) :
            (\A a \in Buttons : f \in Flags(Key(a)) => a = b) => f \in input_flags

=============================================================================
