---------------------------- MODULE ConsoleInput ----------------------------
(***************************************************************************)
(* The input half of ucore's console driver: the keyboard's scan codes are *)
(* decoded, the characters of keyboard and serial port collected in one    *)
(* ring, and cons_getc, called by the interrupt handlers and by getchar,   *)
(* empties both devices into the ring and takes one character.  A step is  *)
(* one round of a loop: bytes go on arriving while cons_getc runs.         *)
(*                                                                         *)
(* A key is <<code, prefix>>: its scan code, and "E0" if that byte comes   *)
(* before it.  The keyboard sends every press and release once (a key that *)
(* is held down is not repeated).  History: means of a byte is the         *)
(* character the user meant by it ("NO" for none), and waiting those meant *)
(* by the bytes that were read and not yet taken from the ring; held and   *)
(* caps say which keys are down and whether caps lock is on, and asked,    *)
(* doubled and lost whether Ctrl-Alt-Del was pressed, two keys with the    *)
(* same flag were down together, or the ring was given more than it holds. *)
(***************************************************************************)
EXTENDS Integers, Sequences

CONSTANTS CONSBUFSIZE, MaxEvents

VARIABLES kbd, com, shift, cons, polling, rebooted, held, caps, waiting, asked, doubled, lost, events

inputVars == <<kbd, com, shift, cons, polling, rebooted, held, caps, waiting, asked, doubled, lost, events>>

-----------------------------------------------------------------------------
(* The tables, for one key of every kind.                                  *)
shiftcode(key) ==
  IF key \in {<<"1D", "">>, <<"1D", "E0">>} THEN {"CTL"}
  ELSE IF key = <<"2A", "">> THEN {"SHIFT"}
  ELSE IF key = <<"38", "">> THEN {"ALT"}
  ELSE {}

togglecode(key) == IF key = <<"3A", "">> THEN {"CAPSLOCK"} ELSE {}

Keys == {<<"1D", "">>, <<"1D", "E0">>, <<"2A", "">>, <<"38", "">>, <<"3A", "">>,
         <<"1E", "">>, <<"53", "E0">>}

normalmap(key) == IF key = <<"1E", "">> THEN "a"
                  ELSE IF key = <<"53", "E0">> THEN "DEL" ELSE "NO"
shiftmap(key) == IF key = <<"1E", "">> THEN "A" ELSE normalmap(key)
ctlmap(key) == IF key = <<"1E", "">> THEN "^A" ELSE normalmap(key)

charcode(flags, key) ==
  IF "CTL" \in flags THEN ctlmap(key)
  ELSE IF "SHIFT" \in flags THEN shiftmap(key) ELSE normalmap(key)

SwapCase(c) == IF c = "a" THEN "A" ELSE IF c = "A" THEN "a" ELSE c

(* kbd_proc_data on one byte, an E0 or a code with the release bit up: the *)
(* key it is of, ...                                                       *)
Key(flags, byte) == <<byte.code, IF "E0ESC" \in flags THEN "E0" ELSE "">>

(* ... the flags after the release or the press of a key, ...              *)
(* Mutant for InputSound: a release leaves the E0 flag as it is.           *)
ReleasedKeepsE0(flags, key) == flags \ shiftcode(key)

Released(flags, key) == flags \ (shiftcode(key) \cup {"E0ESC"})

Pressed(flags, key) ==
  LET on == (flags \ {"E0ESC"}) \cup shiftcode(key)
  IN (on \ togglecode(key)) \cup (togglecode(key) \ on)

NewShift(flags, byte) ==
  IF byte.code = "E0" THEN flags \cup {"E0ESC"}
  ELSE IF byte.up = 1 THEN Released(flags, Key(flags, byte)) ELSE Pressed(flags, Key(flags, byte))

(* ... the character, and whether the reset line is pulled.                *)
kbd_proc_data(flags, byte) ==
  LET c == charcode(NewShift(flags, byte), Key(flags, byte))
  IN IF byte.code = "E0" \/ byte.up = 1 THEN "NO"
     ELSE IF "CAPSLOCK" \in NewShift(flags, byte) THEN SwapCase(c) ELSE c

Reboots(flags, byte) == {"CTL", "ALT"} \subseteq NewShift(flags, byte) /\ kbd_proc_data(flags, byte) = "DEL"

serial_proc_data(c) == IF c = "127" THEN "BACK" ELSE c

-----------------------------------------------------------------------------
(* One round of the loop of cons_intr, which never looks at rpos.          *)
Succ(pos) == IF pos + 1 = CONSBUFSIZE THEN 0 ELSE pos + 1

cons_intr(c, means) ==
  /\ cons' = IF c = "NO" THEN cons
             ELSE [cons EXCEPT !.buf[cons.wpos] = c, !.wpos = Succ(cons.wpos)]
  /\ waiting' = IF means = "NO" THEN waiting ELSE Append(waiting, means)
  /\ lost' = (lost \/ (c # "NO" /\ Succ(cons.wpos) = cons.rpos))
  /\ UNCHANGED <<held, caps, asked, doubled, events>>

(* The loops of serial_intr and kbd_intr end when nothing more has arrived.*)
serial_intr ==
  /\ polling = "com" /\ ~rebooted /\ com # <<>>
  /\ cons_intr(serial_proc_data(Head(com).c), Head(com).means)
  /\ com' = Tail(com)
  /\ UNCHANGED <<kbd, shift, polling, rebooted>>

SerialEmpty ==
  /\ polling = "com" /\ ~rebooted
  /\ polling' = "kbd"
  /\ UNCHANGED <<kbd, com, shift, cons, rebooted, held, caps, waiting, asked, doubled, lost, events>>

kbd_intr ==
  /\ polling = "kbd" /\ ~rebooted /\ kbd # <<>>
  /\ cons_intr(kbd_proc_data(shift, Head(kbd)), Head(kbd).means)
  /\ shift' = NewShift(shift, Head(kbd))
  /\ rebooted' = Reboots(shift, Head(kbd))
  /\ kbd' = Tail(kbd)
  /\ UNCHANGED <<com, polling>>

(* The rest of cons_getc: one character is taken, if there is one.         *)
GrabChar ==
  /\ polling = "kbd" /\ ~rebooted
  /\ polling' = "com"
  /\ IF cons.rpos = cons.wpos THEN UNCHANGED <<cons, waiting>>
     ELSE /\ cons' = [cons EXCEPT !.rpos = Succ(cons.rpos)]
          /\ waiting' = IF waiting = <<>> THEN waiting ELSE Tail(waiting)
  /\ UNCHANGED <<kbd, com, shift, rebooted, held, caps, asked, doubled, lost, events>>

cons_getc == serial_intr \/ SerialEmpty \/ kbd_intr \/ GrabChar

-----------------------------------------------------------------------------
(* The user and the other end of the serial line.                          *)
Bytes(key, up, means) ==
  (IF key[2] = "E0" THEN <<[code |-> "E0", up |-> 1, means |-> "NO"]>> ELSE <<>>)
  \o <<[code |-> key[1], up |-> up, means |-> means]>>

Held == UNION {shiftcode(k) : k \in held}

(* The character that pressing the key stands for.                         *)
Meant(key) ==
  IF key = <<"53", "E0">> THEN "DEL"
  ELSE IF key # <<"1E", "">> THEN "NO"
  ELSE IF "CTL" \in Held THEN "^A"
  ELSE IF ("SHIFT" \in Held) <=> caps THEN "a" ELSE "A"

Press(key) ==
  /\ ~rebooted /\ events < MaxEvents /\ key \notin held
  /\ held' = held \cup {key}
  /\ caps' = IF togglecode(key) = {} THEN caps ELSE ~caps
  /\ doubled' = (doubled \/ (shiftcode(key) # {} /\ shiftcode(key) \subseteq Held))
  /\ kbd' = kbd \o Bytes(key, 0, Meant(key))
  /\ asked' = (asked \/ (key = <<"53", "E0">> /\ {"CTL", "ALT"} \subseteq Held))
  /\ events' = events + 1
  /\ UNCHANGED <<com, shift, cons, polling, rebooted, waiting, lost>>

Release(key) ==
  /\ ~rebooted /\ events < MaxEvents /\ key \in held
  /\ held' = held \ {key}
  /\ kbd' = kbd \o Bytes(key, 1, "NO")
  /\ events' = events + 1
  /\ UNCHANGED <<com, shift, cons, polling, rebooted, caps, waiting, asked, doubled, lost>>

SerialArrives(c) ==
  /\ ~rebooted /\ events < MaxEvents
  /\ com' = Append(com, [c |-> c, means |-> IF c = "127" THEN "BACK" ELSE c])
  /\ events' = events + 1
  /\ UNCHANGED <<kbd, shift, cons, polling, rebooted, held, caps, waiting, asked, doubled, lost>>

Next ==
  \/ cons_getc
  \/ \E key \in Keys : Press(key) \/ Release(key)
  \/ \E c \in {"s", "127"} : SerialArrives(c)

Init ==
  /\ kbd = <<>> /\ com = <<>> /\ shift = {} /\ rebooted = FALSE /\ polling = "com"
  /\ cons = [buf |-> [i \in 0..(CONSBUFSIZE - 1) |-> "NO"], rpos |-> 0, wpos |-> 0]
  /\ held = {} /\ caps = FALSE /\ waiting = <<>>
  /\ asked = FALSE /\ doubled = FALSE /\ lost = FALSE /\ events = 0

-----------------------------------------------------------------------------
(* The characters in the ring, the oldest first.                           *)
Around(pos) == IF pos < CONSBUFSIZE THEN pos ELSE pos - CONSBUFSIZE
InRing == [i \in 1..Around(cons.wpos + CONSBUFSIZE - cons.rpos) |-> cons.buf[Around(cons.rpos + i - 1)]]

(* Every character meant comes out of the ring once, in the order in which *)
(* its byte was read, decoded as the keys held at its press say, however   *)
(* the bytes are split among the interrupts; unless CONSBUFSIZE characters *)
(* were left waiting, or two keys with the same flag were held together.   *)
InputKept == ~lost /\ ~doubled => InRing = waiting

(* No flag of the driver is left on once its keys are released, and no E0  *)
(* is left over, so that no later key is taken for another.                *)
NoStuckModifier ==
  kbd = <<>> => /\ shift \ {"CAPSLOCK"} \subseteq Held
                /\ "CAPSLOCK" \in shift <=> caps
                /\ ~doubled => Held \subseteq shift

(* The machine is reset only after Del was pressed with Ctrl and Alt held. *)
ResetMeant == rebooted => asked

(* The keyboard and the ring together.                                     *)
InputSound == InputKept /\ NoStuckModifier /\ ResetMeant
=============================================================================
