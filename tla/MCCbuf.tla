------------------------------- MODULE MCCbuf -------------------------------
(***************************************************************************)
(* The ring buffers for TLC: the blocking one, and the three that an       *)
(* interrupt fills, which are the queue of interrupts, the receiver of the *)
(* serial port and the keyboard's events.  The parts share no state; a     *)
(* behaviour exercises one of them.  The blocking buffer has a reader that *)
(* also polls and two writers, three bytes and calls of up to three bytes: *)
(* longer than what fits, so a call takes several transfers and wraps.     *)
(* The keyboard is exercised in three parts: its buttons with no reader, a *)
(* terminal with two files that read, and a file that reads on either of   *)
(* two terminals while input_loop repeats a key and the keys switch.       *)
(***************************************************************************)
EXTENDS Cbuf, Irq, Serial, Keyboard, TLC

(* Buttons of a real keyboard: the two controls differ by the prefix 0xE0
   only, which the GUI key has too. *)
MCSends ==
  [lalt |-> \h11, lctrl |-> \h14, rctrl |-> \h14, esc |-> \h76, F2 |-> \h06,
   kp1 |-> \h69, F12 |-> \h07, gui |-> \h1F]
MCButtons == DOMAIN MCSends

(* Their rows of the table in ps2.c. *)
MCTranslation ==
  (\h11 :> \h17) @@ (\h14 :> \h15) @@ (\h76 :> \h1B) @@ (\h06 :> \h6B)
    @@ (\h69 :> \h6B) @@ (\h07 :> \h75) @@ (\h1F :> 0)

VARIABLE part
cbufRunVars == <<part, vars, irqVars, serialVars, kbVars>>

CbufRunInit ==
  /\ part \in {"cbuf", "irq", "serial", "typing", "reading", "switching"}
  /\ Init
  /\ part # "cbuf" => \A i \in Cells : buffer[i] = CHOOSE v \in Values : TRUE
  /\ IrqInit
  /\ SerialInit
  /\ KeyboardInit

(* Which buttons are pressed and which files are opened in the parts of the
   keyboard; for the switch alt goes down before ctrl. *)
PartOfKeyboard ==
  \/ part = "typing" /\ looping'.pc # "append" /\ UNCHANGED ttyfiles
  \/ /\ part = "reading" /\ UNCHANGED looping
     /\ down' \subseteq {"lctrl", "F2", "gui"} /\ strokes' <= 3
     /\ \A f \in TtyFiles : ttyfiles'[f].tty \in {NoFile, 0}
  \/ /\ part = "switching"
     /\ down' \subseteq {"lalt", "lctrl", "F2"} /\ strokes' <= 3
     /\ "lctrl" \in down' => "lalt" \in down'
     /\ \A f \in TtyFiles \ {CHOOSE f \in TtyFiles : TRUE} : ttyfiles'[f].tty = NoFile

CbufRunNext ==
  /\ UNCHANGED part
  /\ \/ part = "cbuf" /\ Next /\ UNCHANGED <<irqVars, serialVars, kbVars>>
     \/ part = "irq" /\ IrqNext /\ UNCHANGED <<vars, serialVars, kbVars>>
     \/ part = "serial" /\ SerialNext /\ UNCHANGED <<vars, irqVars, kbVars>>
     \/ /\ part \in {"typing", "reading", "switching"}
        /\ KeyboardNext /\ PartOfKeyboard /\ UNCHANGED <<vars, irqVars, serialVars>>

(* The fairness of Cbuf!FairSpec, for its part. *)
CbufRunSpec ==
  /\ CbufRunInit /\ [][CbufRunNext]_cbufRunVars
  /\ \A t \in Threads : WF_vars(part = "cbuf" /\ Step(t))

(* The keyboard's ring is not followed further once a full turn was appended
   past the reader. *)
NotLapped == ~kb_lapped
=============================================================================
