------------------------------- MODULE Kernel -------------------------------
(***************************************************************************)
(* The ucore kernel of lab1 and lab2 from kern_init to its idle loop: the  *)
(* console's screen, the interrupt controller, the trap handlers and the   *)
(* switch to user mode and back.  The kernel prints with interrupts on;    *)
(* the handlers, which run with interrupts off, print too.  cons_putc of   *)
(* lab2 turns interrupts off around its work, that of lab1 does not.       *)
(*                                                                         *)
(* A line the kernel prints is cut down to one mark and the end of the     *)
(* line; the parallel and the serial port only repeat what the screen is   *)
(* given.  roll, torn and traps are history: the roll of paper that the  *)
(* screen is a window of, that an interrupt fell into a cons_putc of lab1, *)
(* and the number of interrupts, at most MaxTraps.                         *)
(***************************************************************************)
EXTENDS Integers, Sequences

CONSTANTS CRT_COLS, CRT_ROWS, TICK_NUM, MaxTraps

VARIABLES lab, serial_exists, step, text, stage, crt_buf, crt_pos, irq_mask, did_init,
          pic, idt, iflag, cs, iopl, ticks, roll, torn, traps

kernelVars == <<lab, serial_exists, step, text, stage, crt_buf, crt_pos, irq_mask, did_init,
                pic, idt, iflag, cs, iopl, ticks, roll, torn, traps>>

CRT_SIZE == CRT_ROWS * CRT_COLS
Cells == 0..(CRT_SIZE - 1)
Screen == [buf |-> crt_buf, pos |-> crt_pos]
Console == [screen |-> Screen, roll |-> roll]
Idle == [at |-> "idle"]

-----------------------------------------------------------------------------
(* The body of cga_putc up to its test for the end of the screen.  pos is  *)
(* crt_pos as it was read.  A cell beyond the screen is not shown.         *)
Stored(s, pos, c) ==
  IF c = "back" THEN IF pos = 0 THEN s
                   ELSE [buf |-> [s.buf EXCEPT ![pos - 1] = " "], pos |-> pos - 1]
  ELSE IF c = "newline" THEN [s EXCEPT !.pos = pos + CRT_COLS - (pos % CRT_COLS)]
  ELSE IF c = "return" THEN [s EXCEPT !.pos = pos - (pos % CRT_COLS)]
  ELSE [buf |-> [i \in Cells |-> IF i = pos THEN c ELSE s.buf[i]], pos |-> pos + 1]

Scrolled(s) ==
  IF s.pos < CRT_SIZE THEN s
  ELSE [buf |-> [i \in Cells |-> IF i < CRT_SIZE - CRT_COLS THEN s.buf[i + CRT_COLS] ELSE " "],
        pos |-> s.pos - CRT_COLS]

cga_putc(s, c) == Scrolled(Stored(s, s.pos, c))

(* The same on an endless roll of paper, of which the screen shows the     *)
(* rows from top on: nothing ever moves.  ink is what is printed, where    *)
(* something is.                                                           *)
InkAt(r, i) == IF i \in DOMAIN r.ink THEN r.ink[i] ELSE " "
Inked(r, i, c) == [j \in DOMAIN r.ink \cup {i} |-> IF j = i THEN c ELSE r.ink[j]]

Rolled(r, c) ==
  LET at == IF c = "back" THEN IF r.at = r.top * CRT_COLS THEN r.at ELSE r.at - 1
            ELSE IF c = "newline" THEN (r.at \div CRT_COLS + 1) * CRT_COLS
            ELSE IF c = "return" THEN (r.at \div CRT_COLS) * CRT_COLS
            ELSE r.at + 1
      row == at \div CRT_COLS - CRT_ROWS + 1
  IN [at |-> at,
      top |-> IF row > r.top THEN row ELSE r.top,
      ink |-> IF c = "back" /\ at # r.at THEN Inked(r, at, " ")
              ELSE IF c \in {"back", "newline", "return"} THEN r.ink
              ELSE Inked(r, r.at, c)]

(* A character of a handler, on the screen and on the roll.                *)
Printed(z, c) == [screen |-> cga_putc(z.screen, c), roll |-> Rolled(z.roll, c)]

-----------------------------------------------------------------------------
(* The interrupt controller; a mask is the set of the interrupts let in.   *)
(* Before pic_init only the kernel's copy of the mask changes.             *)
pic_setmask(mask) ==
  /\ irq_mask' = mask
  /\ pic' = IF did_init THEN mask ELSE pic

pic_enable(irqs) == pic_setmask(irq_mask \cup irqs)

pic_init ==
  /\ did_init' = TRUE
  /\ pic' = irq_mask
  /\ UNCHANGED <<serial_exists, text, irq_mask, idt, iflag, cs, iopl, ticks>>

(* The serial port is found or not; what each device enables.              *)
serial_init == IF serial_exists' THEN {"COM1"} ELSE {}
kbd_init == {"KBD"}

cons_init ==
  /\ serial_exists' \in BOOLEAN
  /\ pic_enable(serial_init \cup kbd_init)
  /\ UNCHANGED <<text, did_init, idt, iflag, cs, iopl, ticks>>

idt_init ==
  /\ idt' = TRUE
  /\ UNCHANGED <<serial_exists, text, irq_mask, pic, did_init, iflag, cs, iopl, ticks>>

clock_init ==
  /\ ticks' = 0
  /\ pic_enable({"TIMER"})
  /\ UNCHANGED <<serial_exists, text, did_init, idt, iflag, cs, iopl>>

intr_enable ==
  /\ iflag' = TRUE
  /\ UNCHANGED <<serial_exists, text, irq_mask, pic, did_init, idt, cs, iopl, ticks>>

cprintf ==
  /\ text' = <<"m", "newline">>
  /\ UNCHANGED <<serial_exists, irq_mask, pic, did_init, idt, iflag, cs, iopl, ticks>>

(* The traps T_SWITCH_TOU and T_SWITCH_TOK, which change the saved         *)
(* registers of the kernel's own thread.                                   *)
SwitchTo(mode) ==
  /\ cs' = mode
  /\ iopl' = IF cs = mode THEN iopl ELSE 3
  /\ UNCHANGED <<serial_exists, text, irq_mask, pic, did_init, idt, iflag, ticks>>

(* The parts of the test print where they are; the kernel's thread waits   *)
(* in its idle loop afterwards.                                            *)
lab1_switch_test == <<"cprintf", "user", "cprintf", "kernel", "cprintf">>

kern_init == <<"cons_init", "cprintf", "pic_init", "idt_init", "cprintf", "clock_init", "intr_enable">>
               \o lab1_switch_test \o <<"idle">>

Call(name) ==
  /\ step <= Len(kern_init) /\ kern_init[step] = name
  /\ text = <<>> /\ stage = Idle
  /\ step' = step + 1
  /\ UNCHANGED <<lab, stage, crt_buf, crt_pos, roll, torn, traps>>

KernInit ==
  \/ Call("cons_init") /\ cons_init
  \/ Call("pic_init") /\ pic_init
  \/ Call("idt_init") /\ idt_init
  \/ Call("clock_init") /\ clock_init
  \/ Call("intr_enable") /\ intr_enable
  \/ Call("cprintf") /\ cprintf
  \/ Call("user") /\ SwitchTo("user")
  \/ Call("kernel") /\ SwitchTo("kernel")

-----------------------------------------------------------------------------
(* cons_putc of the kernel's own thread.  In user mode neither the ports   *)
(* nor the interrupt flag may be touched unless the I/O level allows it.   *)
Allowed == cs = "kernel" \/ iopl = 3

(* Mutant for KernelSound: the flag is read and interrupts stay on.        *)
local_intr_saveOnly == iflag' = iflag

local_intr_save == iflag' = IF lab = 2 THEN FALSE ELSE iflag

BeginPut ==
  /\ text # <<>> /\ stage = Idle /\ Allowed
  /\ stage' = [at |-> "store", intr_flag |-> iflag, pos |-> crt_pos]
  /\ local_intr_save
  /\ UNCHANGED <<lab, serial_exists, step, text, crt_buf, crt_pos, irq_mask, did_init, pic, idt,
                 cs, iopl, ticks, roll, torn, traps>>

StorePut ==
  /\ stage.at = "store"
  /\ LET s == Stored(Screen, stage.pos, Head(text))
     IN crt_buf' = s.buf /\ crt_pos' = s.pos
  /\ roll' = Rolled(roll, Head(text))
  /\ text' = Tail(text)
  /\ stage' = [stage EXCEPT !.at = "scroll"]
  /\ UNCHANGED <<lab, serial_exists, step, irq_mask, did_init, pic, idt, iflag, cs, iopl, ticks,
                 torn, traps>>

ScrollPut ==
  /\ stage.at = "scroll"
  /\ LET s == Scrolled(Screen) IN crt_buf' = s.buf /\ crt_pos' = s.pos
  /\ stage' = Idle
  /\ iflag' = stage.intr_flag
  /\ UNCHANGED <<lab, serial_exists, step, text, irq_mask, did_init, pic, idt, cs, iopl, ticks,
                 roll, torn, traps>>

cons_putc == BeginPut \/ StorePut \/ ScrollPut

-----------------------------------------------------------------------------
(* trap_dispatch for an interrupt: an interrupt gate, so nothing comes     *)
(* between.                                                                *)
Trap(irq, z) ==
  /\ iflag /\ irq \in pic /\ traps < MaxTraps
  /\ traps' = traps + 1
  /\ crt_buf' = z.screen.buf /\ crt_pos' = z.screen.pos /\ roll' = z.roll
  /\ torn' = (torn \/ stage # Idle)
  /\ UNCHANGED <<lab, serial_exists, step, text, stage, irq_mask, did_init, pic, idt, iflag, cs, iopl>>

TimerTrap ==
  LET tick == (ticks + 1) % TICK_NUM
  IN Trap("TIMER", IF tick = 0 THEN Printed(Printed(Console, "t"), "newline") ELSE Console) /\ ticks' = tick

(* One character of the input is taken and printed.                        *)
InputTrap ==
  \E irq \in {"COM1", "KBD"}, c \in {"x", "back", "return"} :
    Trap(irq, Printed(Printed(Printed(Console, "k"), c), "newline")) /\ UNCHANGED ticks

Next == KernInit \/ cons_putc \/ TimerTrap \/ InputTrap

(* The kernel's own thread.                                                *)
KernelThread == KernInit \/ cons_putc

Init ==
  /\ lab \in {1, 2} /\ serial_exists = FALSE
  /\ step = 1 /\ text = <<>> /\ stage = Idle
  /\ crt_buf = [i \in Cells |-> " "] /\ crt_pos = 0
  /\ irq_mask = {"SLAVE"} /\ did_init = FALSE /\ pic = {} /\ idt = FALSE
  /\ iflag = FALSE /\ cs = "kernel" /\ iopl = 0 /\ ticks = 0
  /\ roll = [at |-> 0, top |-> 0, ink |-> [i \in {} |-> " "]]
  /\ torn = FALSE /\ traps = 0

-----------------------------------------------------------------------------
(* cga_putc loses no text: the screen is the end of what was printed, in   *)
(* the order in which it was printed, and the cursor is on it, although    *)
(* the kernel's prints are interrupted by handlers that print.  In lab1    *)
(* this holds until an interrupt falls into a cons_putc.                   *)
ScreenKept ==
  (stage = Idle /\ (lab = 2 \/ ~torn)) =>
    /\ \A i \in Cells : crt_buf[i] = InkAt(roll, roll.top * CRT_COLS + i)
    /\ crt_pos = roll.at - roll.top * CRT_COLS
    /\ crt_pos < CRT_SIZE

(* pic_enable before pic_init is not forgotten: when interrupts are on the *)
(* table of handlers is set up, the timer and the keyboard get through, the *)
(* serial port does if there is one, and nothing else does.                *)
InterruptsReady ==
  iflag => /\ idt
           /\ pic = {"SLAVE", "TIMER", "KBD"} \cup (IF serial_exists THEN {"COM1"} ELSE {})

(* local_intr_restore leaves interrupts as they were: off until the kernel *)
(* turns them on, and on afterwards.                                       *)
InterruptsRestored == stage = Idle => (iflag <=> step > 7)

(* The console, the interrupt controller and the trap handlers together.   *)
KernelSound == ScreenKept /\ InterruptsReady /\ InterruptsRestored

(* The kernel gets to its idle loop.                                       *)
Finished == kern_init[step] = "idle" /\ text = <<>> /\ stage = Idle
=============================================================================
