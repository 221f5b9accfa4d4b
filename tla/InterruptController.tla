------------------------- MODULE InterruptController -------------------------
(***************************************************************************)
(* The path of an external interrupt: the two 8259 interrupt controllers,  *)
(* the code that programs them (pic.c), the table of gates it leads        *)
(* through (interrupt.c, interrupt_entry.asm) and the processor's          *)
(* interrupt flag, one instruction at a time.  Devices may raise their     *)
(* lines between any two instructions.                                     *)
(*                                                                         *)
(* A byte is the set of its bits, so that 255 is 0..7 and 32 is {5}.  The  *)
(* program is the sequence `code` of the instructions that are still to be *)
(* executed; an instruction is a tuple of a name and its operands.  No     *)
(* entry stub returns, so entering a handler replaces the whole of `code`. *)
(* What the timer's handler does with the tasks is in module Kernel.       *)
(***************************************************************************)
EXTENDS Integers, Sequences, FiniteSetsExt

CONSTANTS
  MasterLines,  \* the lines of the master controller that devices raise
  SlaveLines,   \* the lines of the slave controller that devices raise
  CallIrqs      \* the IRQ numbers that callers of pic.h may name

ASSUME LineAssumption ==
  /\ MasterLines \subseteq (0..7) \ {2} /\ 0 \in MasterLines
  /\ SlaveLines \subseteq 0..7
  /\ CallIrqs \subseteq Nat

VARIABLES
  build,         \* which of the builds of kernel_main runs
  code,          \* the instructions to execute; <<>> is a hlt loop
  interruptFlag, \* RFLAGS.IF
  idt,           \* arch_idt: the vectors that have a gate
  idtLoaded,     \* the IDT register points at arch_idt
  initialized,   \* arch_interrupt_initialized
  mask,          \* pic_master_mask and pic_slave_mask
  pic,           \* the controllers' own registers
  open,          \* the IRQs that were unmasked last (history)
  taken,         \* the vector the processor went through, or NoVector
  ticks          \* calls of timer_tick()

cpuVars == <<build, interruptFlag, idt, idtLoaded, initialized, taken, ticks>>
vars == <<cpuVars, code, mask, pic, open>>

-----------------------------------------------------------------------------
Byte == SUBSET (0..7)
Value(byte) ==
  LET weight(b, w) == IF b \in byte THEN w ELSE 0
  IN  weight(0, 1) + weight(1, 2) + weight(2, 4) + weight(3, 8)
        + weight(4, 16) + weight(5, 32) + weight(6, 64) + weight(7, 128)
Chip == {"master", "slave"}
NoVector == -1
Reset == -2        \* a vector without a gate: the processor resets

\* "normal" is the shipped kernel, "exception" and "timer" are the two
\* validation builds.  "calls" is any further caller of pic.h: it masks and
\* unmasks as it likes while interrupts are disabled.
Builds == {"normal", "exception", "timer", "calls"}

-----------------------------------------------------------------------------
(***************************************************************************)
(* The 8259 (external), as far as the code uses it.  `init` is the number  *)
(* of the initialisation word it waits for, 0 when initialised.            *)
(***************************************************************************)
\* ICW1 clears the masks, the requests and what is in service.
StartInit(c) == [c EXCEPT !.init = 2, !.imr = {}, !.irr = {}, !.isr = {}]

\* A non-specific end of interrupt ends the most urgent one in service.
EndOfInterrupt(c) == [c EXCEPT !.isr = IF @ = {} THEN {} ELSE @ \ {Min(@)}]

CommandWrite(c, byte) == IF 4 \in byte THEN StartInit(c) ELSE EndOfInterrupt(c)

DataWrite(c, byte) ==
  CASE c.init = 0 -> [c EXCEPT !.imr = byte]
    [] c.init = 2 -> [c EXCEPT !.base = Value(byte), !.init = 3]
    [] c.init = 3 -> [c EXCEPT !.init = 4]
    [] c.init = 4 -> [c EXCEPT !.init = 0]

\* The lines a controller would interrupt for, and the one it chooses.
Eligible(c, requests) ==
  {l \in requests \ c.imr : \A s \in c.isr : l < s}
SlaveRequests == Eligible(pic.slave, pic.slave.irr)
MasterRequests ==
  Eligible(pic.master, pic.master.irr \cup (IF SlaveRequests = {} THEN {} ELSE {2}))

Acknowledge(c, l) == [c EXCEPT !.irr = @ \ {l}, !.isr = @ \cup {l}]

-----------------------------------------------------------------------------
(***************************************************************************)
(* pic.c.                                                                  *)
(***************************************************************************)
outb(chip, port, byte) == << "outb", chip, port, byte >>

arch_pic_write_masks == << <<"write_mask", "master">>, <<"write_mask", "slave">> >>

\* Mutant: the master keeps the firmware's base, among the exceptions.
KeepMasterBase ==
  << outb("master", "command", {0, 4}), outb("slave", "command", {0, 4}),
     outb("master", "data", {3}),       outb("slave", "data", {3, 5}),
     outb("master", "data", {2}),       outb("slave", "data", {1}),
     outb("master", "data", {0}),       outb("slave", "data", {0}) >>

InitializationWords ==
  << outb("master", "command", {0, 4}), outb("slave", "command", {0, 4}),
     outb("master", "data", {5}),       outb("slave", "data", {3, 5}),
     outb("master", "data", {2}),       outb("slave", "data", {1}),
     outb("master", "data", {0}),       outb("slave", "data", {0}) >>

\* Mutant: the masks are written before the initialisation only.
InitMasksFirst ==
  << <<"mask_all">> >> \o arch_pic_write_masks \o InitializationWords

arch_pic_init ==
  << <<"mask_all">> >> \o arch_pic_write_masks \o InitializationWords
    \o arch_pic_write_masks

arch_pic_irq_is_valid(irq) == irq < 16

ChipOf(irq) == IF irq < 8 THEN "master" ELSE "slave"

\* Mutant: the bit of a slave line is not converted.
BitUnshifted(irq) == irq
Bit(irq) == IF irq < 8 THEN irq ELSE irq - 8

arch_pic_mask_irq(irq) ==
  IF arch_pic_irq_is_valid(irq)
  THEN << <<"mask", irq>> >> \o arch_pic_write_masks ELSE <<>>

arch_pic_unmask_irq(irq) ==
  IF arch_pic_irq_is_valid(irq)
  THEN << <<"unmask", irq>> >> \o arch_pic_write_masks ELSE <<>>

arch_pic_send_eoi(irq) ==
  IF ~arch_pic_irq_is_valid(irq) THEN <<>>
  ELSE (IF irq >= 8 THEN << outb("slave", "command", {5}) >> ELSE <<>>)
         \o << outb("master", "command", {5}) >>

-----------------------------------------------------------------------------
(***************************************************************************)
(* interrupt.c and the part of kernel_main that calls it.                  *)
(***************************************************************************)
ExceptionVectors == {0, 3, 6, 13, 14}
TimerVector == 32

arch_interrupt_init ==
  << <<"idt_clear">>,
     <<"gate", 0>>, <<"gate", 3>>, <<"gate", 6>>, <<"gate", 13>>, <<"gate", 14>>,
     <<"gate", TimerVector>>,
     <<"lidt">>, <<"set_initialized">> >>

arch_interrupt_trigger_validation_exception ==
  << <<"if_initialized", << <<"int3">> >> >> >>

\* Mutant: interrupts stay disabled.
UnmaskOnly == << <<"if_initialized", arch_pic_unmask_irq(0)>> >>
arch_interrupt_enable_timer_entry_validation ==
  << <<"if_initialized", arch_pic_unmask_irq(0) \o << <<"sti">> >> >> >>

\* Mutant: the end of the interrupt is not announced.
HandleWithoutEoi == << <<"timer_tick">> >>

\* Mutant: the handler does not tick.
HandleWithoutTick == arch_pic_send_eoi(0)
arch_timer_irq_handle == << <<"timer_tick">> >> \o arch_pic_send_eoi(0)

\* The stub of a vector: what runs until its hlt loop.  The exception
\* handlers only write to the console.
Stub(v) == IF v = TimerVector THEN arch_timer_irq_handle ELSE <<>>

kernel_main(b) ==
  arch_interrupt_init \o arch_pic_init
    \o (IF b = "exception" THEN arch_interrupt_trigger_validation_exception ELSE <<>>)
    \o (IF b = "timer" THEN arch_interrupt_enable_timer_entry_validation ELSE <<>>)

-----------------------------------------------------------------------------
\* boot.asm has disabled interrupts; the firmware has left its vector bases
\* and some lines open.
Init ==
  /\ build \in Builds
  /\ code = kernel_main(build)
  /\ interruptFlag = FALSE
  /\ idt = {} /\ idtLoaded = FALSE /\ initialized = FALSE
  /\ mask = [chip \in Chip |-> 0..7]
  /\ \E openMaster \in SUBSET MasterLines, openSlave \in SUBSET SlaveLines :
       pic = [master |-> [init |-> 0, base |-> 8, imr |-> (0..7) \ (openMaster \cup {2}),
                          irr |-> {}, isr |-> {}],
              slave  |-> [init |-> 0, base |-> 112, imr |-> (0..7) \ openSlave,
                          irr |-> {}, isr |-> {}]]
  /\ open = {}
  /\ taken = NoVector
  /\ ticks = 0

\* The next instruction is `op`.
Fetch(op) == /\ code # <<>> /\ Head(code)[1] = op
             /\ code' = Tail(code)
Operand(i) == Head(code)[i + 1]

\* The processor goes through the gate of vector v, which disables interrupts.
Enter(v) ==
  LET gated == idtLoaded /\ v \in idt
  IN  /\ taken' = IF gated THEN v ELSE Reset
      /\ code' = IF gated THEN Stub(v) ELSE <<>>
      /\ interruptFlag' = FALSE

Outb ==
  /\ Fetch("outb")
  /\ pic' = [pic EXCEPT ![Operand(1)] =
               IF Operand(2) = "command" THEN CommandWrite(@, Operand(3))
                                         ELSE DataWrite(@, Operand(3))]
  /\ UNCHANGED <<cpuVars, mask, open>>

WriteMask ==
  /\ Fetch("write_mask")
  /\ pic' = [pic EXCEPT ![Operand(1)] = DataWrite(@, mask[Operand(1)])]
  /\ UNCHANGED <<cpuVars, mask, open>>

MaskAll ==
  /\ Fetch("mask_all")
  /\ mask' = [chip \in Chip |-> 0..7]
  /\ open' = {}
  /\ UNCHANGED <<cpuVars, pic>>

Mask ==
  /\ Fetch("mask")
  /\ mask' = [mask EXCEPT ![ChipOf(Operand(1))] = @ \cup {Bit(Operand(1))}]
  /\ open' = open \ {Operand(1)}
  /\ UNCHANGED <<cpuVars, pic>>

Unmask ==
  /\ Fetch("unmask")
  /\ mask' = [mask EXCEPT ![ChipOf(Operand(1))] = @ \ {Bit(Operand(1))}]
  /\ open' = open \cup {Operand(1)}
  /\ UNCHANGED <<cpuVars, pic>>

SetUpIdt ==
  /\ \/ Fetch("idt_clear") /\ idt' = {} /\ UNCHANGED <<idtLoaded, initialized>>
     \/ /\ Fetch("gate")
        /\ idt' = idt \cup {Operand(1)}
        /\ UNCHANGED <<idtLoaded, initialized>>
     \/ Fetch("lidt") /\ idtLoaded' = TRUE /\ UNCHANGED <<idt, initialized>>
     \/ Fetch("set_initialized") /\ initialized' = TRUE /\ UNCHANGED <<idt, idtLoaded>>
  /\ UNCHANGED <<build, interruptFlag, taken, ticks, mask, pic, open>>

IfInitialized ==
  /\ code # <<>> /\ Head(code)[1] = "if_initialized"
  /\ code' = (IF initialized THEN Operand(1) ELSE <<>>) \o Tail(code)
  /\ UNCHANGED <<cpuVars, mask, pic, open>>

Sti ==
  /\ Fetch("sti")
  /\ interruptFlag' = TRUE
  /\ UNCHANGED <<build, idt, idtLoaded, initialized, taken, ticks, mask, pic, open>>

Int3 ==
  /\ code # <<>> /\ Head(code)[1] = "int3"
  /\ Enter(3)
  /\ UNCHANGED <<build, idt, idtLoaded, initialized, ticks, mask, pic, open>>

TimerTick ==
  /\ Fetch("timer_tick")
  /\ ticks' = ticks + 1
  /\ UNCHANGED <<build, interruptFlag, idt, idtLoaded, initialized, taken, mask, pic, open>>

Step == \/ Outb \/ WriteMask \/ MaskAll \/ Mask \/ Unmask \/ SetUpIdt
        \/ IfInitialized \/ Sti \/ Int3 \/ TimerTick

\* The processor accepts an interrupt.  Line 2 of the master is the slave.
Accept ==
  /\ interruptFlag /\ MasterRequests # {}
  /\ LET m == Min(MasterRequests)
     IN  IF m = 2
         THEN LET s == Min(SlaveRequests)
              IN  /\ pic' = [master |-> Acknowledge(pic.master, 2),
                             slave |-> Acknowledge(pic.slave, s)]
                  /\ Enter(pic.slave.base + s)
         ELSE /\ pic' = [pic EXCEPT !.master = Acknowledge(@, m)]
              /\ Enter(pic.master.base + m)
  /\ UNCHANGED <<build, idt, idtLoaded, initialized, ticks, mask, open>>

\* A device raises its line; the controller latches it.
Raise(chip, l) ==
  /\ l \notin pic[chip].irr
  /\ pic' = [pic EXCEPT ![chip].irr = @ \cup {l}]
  /\ UNCHANGED <<cpuVars, code, mask, open>>

\* The next call of a caller of pic.h.
Call(irq) ==
  /\ build = "calls" /\ code = <<>>
  /\ code' \in {arch_pic_mask_irq(irq), arch_pic_unmask_irq(irq)}
  /\ UNCHANGED <<cpuVars, mask, pic, open>>

Next ==
  \/ Step
  \/ Accept
  \/ \E l \in MasterLines : Raise("master", l)
  \/ \E l \in SlaveLines : Raise("slave", l)
  \/ \E irq \in CallIrqs : Call(irq)

\* The processor executes and accepts interrupts, and the interval timer,
\* which nobody stops, raises line 0 again and again.
Spec == /\ Init /\ [][Next]_vars
        /\ WF_vars(Step) /\ WF_vars(Accept) /\ WF_vars(Raise("master", 0))

-----------------------------------------------------------------------------
(***************************************************************************)
(* Properties.                                                             *)
(***************************************************************************)
ControllerState ==
  [init : {0, 2, 3, 4}, base : 0..255, imr : Byte, irr : Byte, isr : Byte]

\* Registers and mirrors stay bytes, whatever IRQ number the callers of
\* arch_pic_mask_irq() and arch_pic_unmask_irq() name.
TypeOK ==
  /\ build \in Builds
  /\ interruptFlag \in BOOLEAN /\ idtLoaded \in BOOLEAN /\ initialized \in BOOLEAN
  /\ idt \subseteq 0..255
  /\ mask \in [Chip -> Byte]
  /\ pic \in [Chip -> ControllerState]
  /\ open \subseteq 0..15
  /\ taken \in (0..255) \cup {NoVector, Reset}
  /\ ticks \in Nat

\* Whatever the firmware left open and whenever a device raises its line,
\* the only external interrupt that is ever accepted is the timer's, at its
\* own vector 32 and through a loaded gate, and only in the build that asks
\* for it: arch_pic_init() moves the bases away from the exceptions' vectors,
\* and when interrupts are enabled every other line is closed, though the
\* initialisation words open them all.
OnlyTheTimerArrives ==
  taken # NoVector =>
    \/ build = "timer" /\ taken = TimerVector
    \/ build = "exception" /\ taken = 3

\* Between two calls, and whenever an interrupt could be accepted, both
\* controllers are initialised and hold open exactly the lines that were
\* unmasked and not masked since: the mirrors of pic.c, from which both
\* masks are rewritten on each call, never go out of step with the chips.
MasksAsAsked ==
  interruptFlag \/ code = <<>> =>
    /\ \A chip \in Chip : pic[chip].init = 0
    /\ \A l \in 0..7 : /\ l \in open <=> l \notin pic.master.imr
                       /\ l + 8 \in open <=> l \notin pic.slave.imr

\* When the machine has come to rest no interrupt is left in service at
\* either controller, so that none of them holds back later ones: the
\* timer's handler reaches its EOI.
NothingInService ==
  code = <<>> => \A chip \in Chip : pic[chip].isr = {}

\* The shipped kernel has not taken an interrupt, the exception build has
\* gone to the handler of int3 and the timer build to the timer's, for
\* exactly one tick.
EndedAsBuilt ==
  /\ build = "normal" => taken = NoVector
  /\ build = "exception" => taken = 3
  /\ build = "timer" => taken = TimerVector
  /\ ticks = IF build = "timer" THEN 1 ELSE 0

\* No build comes to rest anywhere else than where it is meant to: once the
\* instructions have run out with interrupts disabled nothing can happen any
\* more, so arch_interrupt_trigger_validation_exception() must not pass by
\* its int3, nor the timer build get there before its tick, nor tick twice.
RestsAsBuilt ==
  build # "calls" /\ code = <<>> /\ ~interruptFlag => EndedAsBuilt

\* Each build does come to rest, and for good.
EndsAsBuilt ==
  build # "calls" => <>[](code = <<>> /\ ~interruptFlag /\ EndedAsBuilt)
=============================================================================
