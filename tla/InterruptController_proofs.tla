--------------------- MODULE InterruptController_proofs ---------------------
(***************************************************************************)
(* Only the timer's interrupt is ever taken, the masks are what was asked  *)
(* for and no interrupt stays in service: for every set of lines that      *)
(* devices raise and of IRQ numbers that callers of pic.h name.            *)
(***************************************************************************)
EXTENDS InterruptController, SequenceTheorems, TLAPS

\* The part of program p that is left after k instructions.
From(p, k) == SubSeq(p, k + 1, Len(p))

\* The program of a caller of pic.h, for op "mask" or "unmask".
CallOf(op, irq) == << <<op, irq>> >> \o arch_pic_write_masks

\* The timer validation once it is known that the IDT is loaded.
EnableTimer == arch_pic_unmask_irq(0) \o << <<"sti">> >>

\* The mirrors of pic.c record which lines were unmasked last.
Mirrors ==
  \A l \in 0..7 : /\ l \in open <=> l \notin mask["master"]
                  /\ l + 8 \in open <=> l \notin mask["slave"]

Synced(chip) == pic[chip].imr = mask[chip]
Quiet(chip) == pic[chip].isr = {}

\* What arch_interrupt_init() and arch_pic_init() establish for good.
Programmed ==
  /\ {3, TimerVector} \subseteq idt /\ idtLoaded /\ initialized
  /\ pic["master"].init = 0 /\ pic["master"].base = 32
  /\ pic["slave"].init = 0

\* The initialisation word that the master waits for after k instructions of
\* kernel_main, and the slave one instruction later.
AwaitedWord(k) ==
  IF k \in 13..14 THEN 2 ELSE IF k \in 15..16 THEN 3 ELSE IF k \in 17..18 THEN 4 ELSE 0

\* kernel_main has executed its first k instructions: the IDT, then the eight
\* initialisation words in turn for each controller, then the masks.
BootPlace(k) ==
  /\ ~interruptFlag /\ taken = NoVector /\ ticks = 0
  /\ mask = [chip \in Chip |-> 0..7] /\ open = {}
  /\ Quiet("master") /\ Quiet("slave")
  /\ k >= 3 => 3 \in idt
  /\ k >= 7 => TimerVector \in idt
  /\ k >= 8 => idtLoaded
  /\ k >= 9 => initialized
  /\ pic["master"].init = AwaitedWord(k)
  /\ pic["slave"].init = AwaitedWord(k - 1)
  /\ k >= 15 => pic["master"].base = 32
  /\ k >= 21 => Synced("master")
  /\ k >= 22 => Synced("slave")

Booting ==
  \E k \in 0..22 : code = From(kernel_main(build), k) /\ BootPlace(k)

\* Line 0 is open from the first instruction on, interrupts from the last.
Enabling ==
  /\ build = "timer" /\ Programmed /\ taken = NoVector /\ ticks = 0
  /\ Quiet("master") /\ Quiet("slave")
  /\ \E k \in 0..4 : /\ code = From(EnableTimer, k)
                     /\ interruptFlag <=> k = 4
                     /\ open = IF k = 0 THEN {} ELSE {0}
                     /\ k # 1 => Synced("master")
                     /\ Synced("slave")

Triggering ==
  /\ build = "exception" /\ Programmed /\ taken = NoVector /\ ~interruptFlag
  /\ code = << <<"int3">> >> /\ ticks = 0
  /\ \A chip \in Chip : Synced(chip) /\ Quiet(chip)

\* A call rewrites both masks, whichever of them it has changed.
Calling ==
  /\ build = "calls" /\ Programmed /\ taken = NoVector /\ ~interruptFlag
  /\ Quiet("master") /\ Quiet("slave")
  /\ \E op \in {"mask", "unmask"}, irq \in 0..15, k \in 0..3 :
       /\ code = From(CallOf(op, irq), k)
       /\ k # 1 => Synced("master")
       /\ k \notin {1, 2} => Synced("slave")

\* In the timer's handler, which ends the interrupt with its last instruction.
Handling ==
  /\ build = "timer" /\ Programmed /\ taken = TimerVector /\ ~interruptFlag
  /\ Synced("master") /\ Synced("slave") /\ Quiet("slave")
  /\ \E k \in 0..2 : /\ code = From(arch_timer_irq_handle, k)
                     /\ pic["master"].isr = IF k = 2 THEN {} ELSE {0}
                     /\ ticks = IF k = 0 THEN 0 ELSE 1

Trapped ==
  /\ build = "exception" /\ Programmed /\ taken = 3 /\ ~interruptFlag
  /\ code = <<>> /\ ticks = 0
  /\ \A chip \in Chip : Synced(chip) /\ Quiet(chip)

\* The inductive invariant: where the processor is, and what the chips hold
\* there.
PlaceInv ==
  /\ TypeOK /\ Mirrors
  /\ Booting \/ Enabling \/ Triggering \/ Calling \/ Handling \/ Trapped

-----------------------------------------------------------------------------
(***************************************************************************)
(* Programs.                                                               *)
(***************************************************************************)

Instruction ==
  {<<"idt_clear">>, <<"lidt">>, <<"set_initialized">>, <<"mask_all">>,
   <<"sti">>, <<"int3">>, <<"timer_tick">>}
    \cup {<<"gate", v>> : v \in ExceptionVectors \cup {TimerVector}}
    \cup {<<"write_mask", chip>> : chip \in Chip}
    \cup {<<op, irq>> : op \in {"mask", "unmask"}, irq \in 0..15}
    \cup {outb(chip, port, byte) : chip \in Chip, port \in {"command", "data"}, byte \in Byte}
    \cup {<<"if_initialized", q>> : q \in {EnableTimer, << <<"int3">> >>}}

\* What is left of a program after k instructions begins with the next one.
LEMMA FromStep ==
  ASSUME NEW p \in Seq(Instruction), NEW k \in Nat, k < Len(p)
  PROVE  /\ From(p, k) # <<>> /\ Head(From(p, k)) = p[k + 1]
         /\ Tail(From(p, k)) = From(p, k + 1)
<1>1. /\ Len(p) \in Nat /\ k + 1 \in 1..Len(p) /\ Len(p) \in (k + 1)..Len(p)
      /\ \A i \in (k + 1)..Len(p) : p[i] \in Instruction
  BY LenProperties
<1>2. /\ Head(From(p, k)) = p[k + 1]
      /\ Tail(From(p, k)) = From(p, k + 1)
  BY <1>1, HeadTailOfSubSeq DEF From
<1>3. Len(From(p, k)) = (Len(p) - (k + 1)) + 1
  BY <1>1, SubSeqProperties DEF From
<1>4. From(p, k) # <<>>
  BY <1>1, <1>3, EmptySeq
<1> QED BY <1>2, <1>4

\* Nothing is left at the end, and only there.
LEMMA FromEnd ==
  ASSUME NEW p \in Seq(Instruction), NEW k \in Nat, k <= Len(p)
  PROVE  From(p, k) = <<>> <=> k = Len(p)
<1>1. Len(p) \in Nat
  BY LenProperties
<1>2. CASE k = Len(p)
  BY <1>1, <1>2, SubSeqEmpty DEF From
<1>3. CASE k # Len(p)
  BY <1>1, <1>3, FromStep
<1> QED BY <1>2, <1>3

\* All of a program is left before its first instruction.
LEMMA FromStart ==
  ASSUME NEW p \in Seq(Instruction)
  PROVE  From(p, 0) = p
BY SubSeqFull DEF From

\* One program behind another.
LEMMA Concat ==
  ASSUME NEW p \in Seq(Instruction), NEW q \in Seq(Instruction)
  PROVE  /\ p \o q \in Seq(Instruction) /\ Len(p \o q) = Len(p) + Len(q)
         /\ \A i \in 1..Len(p) : (p \o q)[i] = p[i]
         /\ \A i \in 1..Len(q) : (p \o q)[Len(p) + i] = q[i]
<1>1. Len(p) \in Nat /\ Len(q) \in Nat
  BY LenProperties
<1>2. /\ p \o q \in Seq(Instruction) /\ Len(p \o q) = Len(p) + Len(q)
      /\ \A i \in 1..(Len(p) + Len(q)) :
           (p \o q)[i] = IF i <= Len(p) THEN p[i] ELSE q[i - Len(p)]
  BY ConcatProperties
<1>3. ASSUME NEW i \in 1..Len(q) PROVE (p \o q)[Len(p) + i] = q[i]
  <2>1. /\ Len(p) + i \in 1..(Len(p) + Len(q))
        /\ ~(Len(p) + i <= Len(p)) /\ (Len(p) + i) - Len(p) = i
    BY <1>1
  <2> QED BY <1>2, <2>1
<1>4. \A i \in 1..Len(p) : i \in 1..(Len(p) + Len(q)) /\ i <= Len(p)
  BY <1>1
<1> QED BY <1>2, <1>3, <1>4

\* The instructions of arch_interrupt_init().
LEMMA IdtProgram ==
  /\ arch_interrupt_init \in Seq(Instruction) /\ Len(arch_interrupt_init) = 9
  /\ arch_interrupt_init[1] = <<"idt_clear">>
  /\ arch_interrupt_init[2] = <<"gate", 0>> /\ arch_interrupt_init[3] = <<"gate", 3>>
  /\ arch_interrupt_init[4] = <<"gate", 6>> /\ arch_interrupt_init[5] = <<"gate", 13>>
  /\ arch_interrupt_init[6] = <<"gate", 14>>
  /\ arch_interrupt_init[7] = <<"gate", TimerVector>>
  /\ arch_interrupt_init[8] = <<"lidt">> /\ arch_interrupt_init[9] = <<"set_initialized">>
<1>1. /\ <<"idt_clear">> \in Instruction /\ <<"lidt">> \in Instruction
      /\ <<"set_initialized">> \in Instruction
      /\ \A v \in {0, 3, 6, 13, 14, TimerVector} : <<"gate", v>> \in Instruction
  BY DEF Instruction, ExceptionVectors
<1>2. arch_interrupt_init \in Seq(Instruction)
  BY <1>1 DEF arch_interrupt_init
<1> QED BY <1>2 DEF arch_interrupt_init

\* The instructions of arch_pic_init().
LEMMA PicProgram ==
  /\ arch_pic_init \in Seq(Instruction) /\ Len(arch_pic_init) = 13
  /\ arch_pic_init[1] = <<"mask_all">>
  /\ arch_pic_init[2] = <<"write_mask", "master">>
  /\ arch_pic_init[3] = <<"write_mask", "slave">>
  /\ arch_pic_init[4] = outb("master", "command", {0, 4})
  /\ arch_pic_init[5] = outb("slave", "command", {0, 4})
  /\ arch_pic_init[6] = outb("master", "data", {5})
  /\ arch_pic_init[7] = outb("slave", "data", {3, 5})
  /\ arch_pic_init[8] = outb("master", "data", {2})
  /\ arch_pic_init[9] = outb("slave", "data", {1})
  /\ arch_pic_init[10] = outb("master", "data", {0})
  /\ arch_pic_init[11] = outb("slave", "data", {0})
  /\ arch_pic_init[12] = <<"write_mask", "master">>
  /\ arch_pic_init[13] = <<"write_mask", "slave">>
<1>1. /\ <<"mask_all">> \in Instruction
      /\ <<"write_mask", "master">> \in Instruction
      /\ <<"write_mask", "slave">> \in Instruction
  BY DEF Instruction, Chip
<1>2. \A byte \in Byte : /\ outb("master", "command", byte) \in Instruction
                         /\ outb("slave", "command", byte) \in Instruction
                         /\ outb("master", "data", byte) \in Instruction
                         /\ outb("slave", "data", byte) \in Instruction
  BY DEF Instruction, Chip
<1>3. /\ {0, 4} \in Byte /\ {5} \in Byte /\ {3, 5} \in Byte /\ {2} \in Byte
      /\ {1} \in Byte /\ {0} \in Byte
  BY DEF Byte
<1> DEFINE all == << <<"mask_all">> >>
           masks == << <<"write_mask", "master">>, <<"write_mask", "slave">> >>
           words == InitializationWords
<1>4. /\ all \in Seq(Instruction) /\ Len(all) = 1 /\ all[1] = <<"mask_all">>
      /\ masks \in Seq(Instruction) /\ Len(masks) = 2
      /\ masks[1] = <<"write_mask", "master">> /\ masks[2] = <<"write_mask", "slave">>
  BY <1>1
<1>5. words \in Seq(Instruction)
  BY <1>2, <1>3 DEF InitializationWords
<1>6. /\ Len(words) = 8
      /\ words[1] = outb("master", "command", {0, 4})
      /\ words[2] = outb("slave", "command", {0, 4})
      /\ words[3] = outb("master", "data", {5}) /\ words[4] = outb("slave", "data", {3, 5})
      /\ words[5] = outb("master", "data", {2}) /\ words[6] = outb("slave", "data", {1})
      /\ words[7] = outb("master", "data", {0}) /\ words[8] = outb("slave", "data", {0})
  BY DEF InitializationWords
<1>7. arch_pic_init = ((all \o masks) \o words) \o masks
  BY DEF arch_pic_init, arch_pic_write_masks
<1> HIDE DEF all, masks, words
<1>8. PICK r : r = all \o masks
  OBVIOUS
<1>9. r \in Seq(Instruction) /\ Len(r) = 3
  <2>1. r \in Seq(Instruction)
    BY <1>4, <1>8, Concat
  <2>2. Len(r) = Len(all) + Len(masks)
    BY <1>4, <1>8, Concat
  <2> QED BY <1>4, <2>1, <2>2
<1>10. r[1] = all[1] /\ r[1 + 1] = masks[1] /\ r[1 + 2] = masks[2]
  <2>1. \A i \in 1..Len(all) : r[i] = all[i]
    BY <1>4, <1>8, Concat
  <2>2. \A i \in 1..Len(masks) : r[Len(all) + i] = masks[i]
    BY <1>4, <1>8, Concat
  <2> QED BY <1>4, <2>1, <2>2
<1>11. PICK q : q = r \o words
  OBVIOUS
<1>12. q \in Seq(Instruction) /\ Len(q) = 11
  <2>1. q \in Seq(Instruction)
    BY <1>5, <1>9, <1>11, Concat
  <2>2. Len(q) = Len(r) + Len(words)
    BY <1>5, <1>9, <1>11, Concat
  <2> QED BY <1>6, <1>9, <2>1, <2>2
<1>13. (\A i \in 1..3 : q[i] = r[i]) /\ \A i \in 1..8 : q[3 + i] = words[i]
  <2>1. \A i \in 1..Len(r) : q[i] = r[i]
    BY <1>5, <1>9, <1>11, Concat
  <2>2. \A i \in 1..Len(words) : q[Len(r) + i] = words[i]
    BY <1>5, <1>9, <1>11, Concat
  <2> QED BY <1>6, <1>9, <2>1, <2>2
<1>14. arch_pic_init = q \o masks
  BY <1>7, <1>8, <1>11
<1>15. arch_pic_init \in Seq(Instruction) /\ Len(arch_pic_init) = 13
  <2>1. arch_pic_init \in Seq(Instruction)
    BY <1>4, <1>12, <1>14, Concat
  <2>2. Len(arch_pic_init) = Len(q) + Len(masks)
    BY <1>4, <1>12, <1>14, Concat
  <2> QED BY <1>4, <1>12, <2>1, <2>2
<1>16. /\ \A i \in 1..11 : arch_pic_init[i] = q[i]
       /\ \A i \in 1..2 : arch_pic_init[11 + i] = masks[i]
  <2>1. \A i \in 1..Len(q) : arch_pic_init[i] = q[i]
    BY <1>4, <1>12, <1>14, Concat
  <2>2. \A i \in 1..Len(masks) : arch_pic_init[Len(q) + i] = masks[i]
    BY <1>4, <1>12, <1>14, Concat
  <2> QED BY <1>4, <1>12, <2>1, <2>2
<1> QED BY <1>4, <1>6, <1>10, <1>13, <1>15, <1>16, SMTT(30)

\* The instructions of a call of arch_pic_mask_irq() or arch_pic_unmask_irq().
LEMMA CallProgram ==
  ASSUME NEW op \in {"mask", "unmask"}, NEW irq \in 0..15,
         NEW p, p = CallOf(op, irq)
  PROVE  /\ p \in Seq(Instruction) /\ Len(p) = 3
         /\ p[1] = <<op, irq>>
         /\ p[2] = <<"write_mask", "master">> /\ p[3] = <<"write_mask", "slave">>
<1>1. /\ <<op, irq>> \in Instruction
      /\ <<"write_mask", "master">> \in Instruction
      /\ <<"write_mask", "slave">> \in Instruction
  BY DEF Instruction, Chip
<1> DEFINE one == << <<op, irq>> >>
           masks == << <<"write_mask", "master">>, <<"write_mask", "slave">> >>
<1>2. /\ one \in Seq(Instruction) /\ Len(one) = 1 /\ one[1] = <<op, irq>>
      /\ masks \in Seq(Instruction) /\ Len(masks) = 2
      /\ masks[1] = <<"write_mask", "master">> /\ masks[2] = <<"write_mask", "slave">>
  BY <1>1
<1>3. p = one \o masks
  BY DEF CallOf, arch_pic_write_masks
<1> HIDE DEF one, masks
<1>4. p \in Seq(Instruction)
  BY <1>2, <1>3, Concat
<1>5. Len(p) = Len(one) + Len(masks)
  BY <1>2, <1>3, Concat, SMTT(30)
<1>6. \A i \in 1..Len(one) : p[i] = one[i]
  <2>1. one \in Seq(Instruction) /\ masks \in Seq(Instruction)
    BY <1>2
  <2> QED BY <1>3, <2>1, Concat
<1>7. \A i \in 1..Len(masks) : p[Len(one) + i] = masks[i]
  BY <1>2, <1>3, Concat
<1>8. p[1] = one[1] /\ p[1 + 1] = masks[1] /\ p[1 + 2] = masks[2]
  BY <1>2, <1>6, <1>7
<1> QED BY <1>2, <1>4, <1>5, <1>8

\* Calls with a number that is not an IRQ do nothing.
LEMMA CallsOfPic ==
  ASSUME NEW irq \in Nat
  PROVE  /\ arch_pic_mask_irq(irq) = IF irq \in 0..15 THEN CallOf("mask", irq) ELSE <<>>
         /\ arch_pic_unmask_irq(irq) = IF irq \in 0..15 THEN CallOf("unmask", irq) ELSE <<>>
BY DEF arch_pic_mask_irq, arch_pic_unmask_irq, arch_pic_irq_is_valid, CallOf

\* The instructions of the timer validation.
LEMMA EnableProgram ==
  /\ EnableTimer \in Seq(Instruction) /\ Len(EnableTimer) = 4
  /\ EnableTimer[1] = <<"unmask", 0>>
  /\ EnableTimer[2] = <<"write_mask", "master">>
  /\ EnableTimer[3] = <<"write_mask", "slave">>
  /\ EnableTimer[4] = <<"sti">>
<1> DEFINE sti == << <<"sti">> >>
<1>1. PICK p : p = CallOf("unmask", 0)
  OBVIOUS
<1>2. /\ p \in Seq(Instruction) /\ Len(p) = 3
      /\ p[1] = <<"unmask", 0>>
      /\ p[2] = <<"write_mask", "master">> /\ p[3] = <<"write_mask", "slave">>
  BY <1>1, CallProgram, SMTT(30)
<1>3. sti \in Seq(Instruction) /\ Len(sti) = 1 /\ sti[1] = <<"sti">>
  BY DEF Instruction
<1>4. EnableTimer = p \o sti
  BY <1>1, CallsOfPic DEF EnableTimer
<1> HIDE DEF sti
<1>5. EnableTimer \in Seq(Instruction)
  BY <1>2, <1>3, <1>4, Concat
<1>6. Len(EnableTimer) = Len(p) + Len(sti)
  BY <1>2, <1>3, <1>4, Concat
<1>7. \A i \in 1..Len(p) : EnableTimer[i] = p[i]
  BY <1>2, <1>3, <1>4, Concat
<1>8. \A i \in 1..Len(sti) : EnableTimer[Len(p) + i] = sti[i]
  BY <1>2, <1>3, <1>4, Concat
<1>9. EnableTimer[1] = p[1] /\ EnableTimer[2] = p[2] /\ EnableTimer[3] = p[3]
  BY <1>2, <1>7
<1>10. EnableTimer[3 + 1] = sti[1]
  BY <1>2, <1>3, <1>8
<1> QED BY <1>2, <1>3, <1>5, <1>6, <1>9, <1>10

\* The instructions of the timer's handler.
LEMMA HandleProgram ==
  /\ arch_timer_irq_handle \in Seq(Instruction) /\ Len(arch_timer_irq_handle) = 2
  /\ arch_timer_irq_handle[1] = <<"timer_tick">>
  /\ arch_timer_irq_handle[2] = outb("master", "command", {5})
<1> DEFINE tick == << <<"timer_tick">> >>
           eoi == << outb("master", "command", {5}) >>
<1>1. <<"timer_tick">> \in Instruction /\ outb("master", "command", {5}) \in Instruction
  BY DEF Instruction, Chip, Byte
<1>2. /\ tick \in Seq(Instruction) /\ Len(tick) = 1 /\ tick[1] = <<"timer_tick">>
      /\ eoi \in Seq(Instruction) /\ Len(eoi) = 1 /\ eoi[1] = outb("master", "command", {5})
  BY <1>1
<1>3. arch_timer_irq_handle = tick \o eoi
  <2>1. <<>> \o eoi = eoi
    BY <1>2, ConcatEmptySeq
  <2>2. arch_pic_send_eoi(0) = <<>> \o eoi
    BY DEF arch_pic_send_eoi, arch_pic_irq_is_valid
  <2> QED BY <2>1, <2>2 DEF arch_timer_irq_handle
<1> HIDE DEF tick, eoi
<1>4. arch_timer_irq_handle \in Seq(Instruction)
  BY <1>2, <1>3, Concat
<1>5. Len(arch_timer_irq_handle) = Len(tick) + Len(eoi)
  BY <1>2, <1>3, Concat
<1>6. \A i \in 1..Len(tick) : arch_timer_irq_handle[i] = tick[i]
  BY <1>2, <1>3, Concat
<1>7. \A i \in 1..Len(eoi) : arch_timer_irq_handle[Len(tick) + i] = eoi[i]
  BY <1>2, <1>3, Concat
<1>8. arch_timer_irq_handle[1] = tick[1] /\ arch_timer_irq_handle[1 + 1] = eoi[1]
  BY <1>2, <1>6, <1>7
<1> QED BY <1>2, <1>4, <1>5, <1>8

\* The instructions of kernel_main.
LEMMA BootProgram ==
  ASSUME NEW b \in Builds, NEW p, p = kernel_main(b)
  PROVE  /\ p \in Seq(Instruction)
         /\ Len(p) = IF b \in {"timer", "exception"} THEN 23 ELSE 22
         /\ \A i \in 1..9 : p[i] = arch_interrupt_init[i]
         /\ \A i \in 1..13 : p[9 + i] = arch_pic_init[i]
         /\ b = "timer" => p[23] = <<"if_initialized", EnableTimer>>
         /\ b = "exception" => p[23] = <<"if_initialized", << <<"int3">> >> >>
<1>1. PICK q : q = arch_interrupt_init \o arch_pic_init
  OBVIOUS
<1>2. q \in Seq(Instruction)
  BY <1>1, IdtProgram, PicProgram, Concat
<1>3. Len(q) = 22
  <2>1. Len(q) = Len(arch_interrupt_init) + Len(arch_pic_init)
    BY <1>1, IdtProgram, PicProgram, Concat, Zenon
  <2> QED BY <2>1, IdtProgram, PicProgram
<1>4. \A i \in 1..9 : q[i] = arch_interrupt_init[i]
  <2>1. \A i \in 1..Len(arch_interrupt_init) : q[i] = arch_interrupt_init[i]
    BY <1>1, IdtProgram, PicProgram, Concat, Zenon
  <2> QED BY <2>1, IdtProgram
<1>5. \A i \in 1..13 : q[9 + i] = arch_pic_init[i]
  <2>1. \A i \in 1..Len(arch_pic_init) : q[Len(arch_interrupt_init) + i] = arch_pic_init[i]
    BY <1>1, IdtProgram, PicProgram, Concat, Zenon
  <2> QED BY <2>1, IdtProgram, PicProgram
<1>6. PICK x : x = IF b = "exception" THEN arch_interrupt_trigger_validation_exception ELSE <<>>
  OBVIOUS
<1>7. PICK y : y = IF b = "timer" THEN arch_interrupt_enable_timer_entry_validation ELSE <<>>
  OBVIOUS
<1>8. p = (q \o x) \o y
  BY <1>1, <1>6, <1>7 DEF kernel_main
<1>9. CASE b \notin {"timer", "exception"}
  <2>1. q \o <<>> = q
    BY <1>2, ConcatEmptySeq
  <2>2. p = q
    BY <1>6, <1>7, <1>8, <1>9, <2>1
  <2> QED BY <1>2, <1>3, <1>4, <1>5, <1>9, <2>2
<1>10. ASSUME NEW z \in Instruction, p = q \o <<z>>
       PROVE  /\ p \in Seq(Instruction) /\ Len(p) = 23 /\ p[23] = z
              /\ \A i \in 1..9 : p[i] = arch_interrupt_init[i]
              /\ \A i \in 1..13 : p[9 + i] = arch_pic_init[i]
  <2>1. PICK last : last = <<z>>
    OBVIOUS
  <2>2. last \in Seq(Instruction) /\ Len(last) = 1 /\ last[1] = z
    BY <2>1
  <2>3. p \in Seq(Instruction)
    BY <1>2, <1>10, <2>1, <2>2, Concat
  <2>4. Len(p) = Len(q) + Len(last)
    BY <1>2, <1>10, <2>1, <2>2, Concat
  <2>5. \A i \in 1..Len(q) : p[i] = q[i]
    BY <1>2, <1>10, <2>1, <2>2, Concat
  <2>6. \A i \in 1..Len(last) : p[Len(q) + i] = last[i]
    BY <1>2, <1>10, <2>1, <2>2, Concat
  <2>7. Len(p) = 23
    BY <1>3, <2>2, <2>4
  <2>8. p[22 + 1] = z
    BY <1>3, <2>2, <2>6
  <2>9. \A i \in 1..9 : p[i] = arch_interrupt_init[i]
    BY <1>3, <1>4, <2>5
  <2>10. ASSUME NEW i \in 1..13 PROVE p[9 + i] = arch_pic_init[i]
    <3>1. 9 + i \in 1..Len(q)
      BY <1>3
    <3> QED BY <1>5, <2>5, <3>1
  <2> QED BY <2>3, <2>7, <2>8, <2>9, <2>10
<1>11. CASE b = "timer"
  <2>1. PICK z : z = <<"if_initialized", EnableTimer>>
    OBVIOUS
  <2>2. z \in Instruction
    BY <2>1 DEF Instruction
  <2>3. q \o <<>> = q
    BY <1>2, ConcatEmptySeq
  <2>4. y = <<z>> /\ x = <<>>
    BY <1>6, <1>7, <1>11, <2>1
       DEF arch_interrupt_enable_timer_entry_validation, EnableTimer
  <2>5. p = q \o <<z>>
    BY <1>8, <2>3, <2>4
  <2> QED BY <1>10, <1>11, <2>1, <2>2, <2>5
<1>12. CASE b = "exception"
  <2>1. PICK z : z = <<"if_initialized", << <<"int3">> >> >>
    OBVIOUS
  <2>2. z \in Instruction
    BY <2>1 DEF Instruction
  <2>3. y = <<>> /\ x = <<z>>
    BY <1>6, <1>7, <1>12, <2>1 DEF arch_interrupt_trigger_validation_exception
  <2>4. q \o <<z>> \in Seq(Instruction)
    <3>1. <<z>> \in Seq(Instruction)
      BY <2>2
    <3> QED BY <1>2, <3>1, Concat
  <2>5. p = q \o <<z>>
    BY <1>8, <2>3, <2>4, ConcatEmptySeq
  <2> QED BY <1>10, <1>12, <2>1, <2>2, <2>5
<1> QED BY <1>9, <1>11, <1>12

-----------------------------------------------------------------------------
(***************************************************************************)
(* What the instructions do.                                               *)
(***************************************************************************)

\* The name of the next instruction decides which action is taken.
LEMMA OneAction ==
  ASSUME Step, NEW n, Head(code)[1] = n
  PROVE  /\ n = "outb" => Outb
         /\ n = "write_mask" => WriteMask
         /\ n = "mask_all" => MaskAll
         /\ n = "mask" => Mask
         /\ n = "unmask" => Unmask
         /\ n \in {"idt_clear", "gate", "lidt", "set_initialized"} => SetUpIdt
         /\ n = "if_initialized" => IfInitialized
         /\ n = "sti" => Sti
         /\ n = "int3" => Int3
         /\ n = "timer_tick" => TimerTick
<1>1. Outb => n = "outb"
  BY DEF Outb, Fetch
<1>2. WriteMask => n = "write_mask"
  BY DEF WriteMask, Fetch
<1>3. MaskAll => n = "mask_all"
  BY DEF MaskAll, Fetch
<1>4. Mask => n = "mask"
  BY DEF Mask, Fetch
<1>5. Unmask => n = "unmask"
  BY DEF Unmask, Fetch
<1>6. SetUpIdt => n \in {"idt_clear", "gate", "lidt", "set_initialized"}
  BY DEF SetUpIdt, Fetch
<1>7. IfInitialized => n = "if_initialized"
  BY DEF IfInitialized
<1>8. Sti => n = "sti"
  BY DEF Sti, Fetch
<1>9. Int3 => n = "int3"
  BY DEF Int3
<1>10. TimerTick => n = "timer_tick"
  BY DEF TimerTick, Fetch
<1> QED BY <1>1, <1>2, <1>3, <1>4, <1>5, <1>6, <1>7, <1>8, <1>9, <1>10 DEF Step

\* The next instruction is in hand, and there is only one.
Executes(i) == Step /\ code # <<>> /\ Head(code) = i

\* A write to a controller's port.
LEMMA DoOutb ==
  ASSUME NEW chip \in Chip, NEW port \in {"command", "data"}, NEW byte,
         Executes(outb(chip, port, byte))
  PROVE  /\ code' = Tail(code) /\ UNCHANGED <<cpuVars, mask, open>>
         /\ pic' = [pic EXCEPT ![chip] = IF port = "command" THEN CommandWrite(@, byte)
                                                              ELSE DataWrite(@, byte)]
<1>1. /\ Head(code)[1] = "outb" /\ Operand(1) = chip /\ Operand(2) = port
      /\ Operand(3) = byte
  BY DEF Executes, outb, Operand
<1>2. Outb
  BY <1>1, OneAction DEF Executes
<1> QED BY <1>1, <1>2 DEF Outb, Fetch

\* A mirror is written to its controller.
LEMMA DoWriteMask ==
  ASSUME NEW chip \in Chip, Executes(<<"write_mask", chip>>)
  PROVE  /\ code' = Tail(code) /\ UNCHANGED <<cpuVars, mask, open>>
         /\ pic' = [pic EXCEPT ![chip] = DataWrite(@, mask[chip])]
<1>1. Head(code)[1] = "write_mask" /\ Operand(1) = chip
  BY DEF Executes, Operand
<1>2. WriteMask
  BY <1>1, OneAction DEF Executes
<1> QED BY <1>1, <1>2 DEF WriteMask, Fetch

\* A line is closed or opened in the mirrors.
LEMMA DoMask ==
  ASSUME NEW op \in {"mask", "unmask"}, NEW irq, Executes(<<op, irq>>)
  PROVE  /\ code' = Tail(code) /\ UNCHANGED <<cpuVars, pic>>
         /\ mask' = [mask EXCEPT ![ChipOf(irq)] = IF op = "mask" THEN @ \cup {Bit(irq)}
                                                                  ELSE @ \ {Bit(irq)}]
         /\ open' = IF op = "mask" THEN open \ {irq} ELSE open \cup {irq}
<1>1. Head(code)[1] = op /\ Operand(1) = irq
  BY DEF Executes, Operand
<1>2. CASE op = "mask"
  <2>1. Mask
    BY <1>1, <1>2, OneAction DEF Executes
  <2> QED BY <1>1, <1>2, <2>1 DEF Mask, Fetch
<1>3. CASE op = "unmask"
  <2>1. Unmask
    BY <1>1, <1>3, OneAction DEF Executes
  <2> QED BY <1>1, <1>3, <2>1 DEF Unmask, Fetch
<1> QED BY <1>2, <1>3

\* All lines are closed in the mirrors.
LEMMA DoMaskAll ==
  ASSUME Executes(<<"mask_all">>)
  PROVE  /\ code' = Tail(code) /\ UNCHANGED <<cpuVars, pic>>
         /\ mask' = [chip \in Chip |-> 0..7] /\ open' = {}
<1>1. Head(code)[1] = "mask_all"
  BY DEF Executes
<1>2. MaskAll
  BY <1>1, OneAction DEF Executes
<1> QED BY <1>2 DEF MaskAll, Fetch

\* A step of arch_interrupt_init().
LEMMA DoIdt ==
  ASSUME NEW i, Executes(i),
         \/ i \in {<<"idt_clear">>, <<"lidt">>, <<"set_initialized">>}
         \/ \E v \in 0..255 : i = <<"gate", v>>
  PROVE  /\ code' = Tail(code)
         /\ UNCHANGED <<build, interruptFlag, taken, ticks, mask, pic, open>>
         /\ i = <<"idt_clear">> => idt' = {} /\ UNCHANGED <<idtLoaded, initialized>>
         /\ \A v \in 0..255 :
              i = <<"gate", v>> => idt' = idt \cup {v} /\ UNCHANGED <<idtLoaded, initialized>>
         /\ i = <<"lidt">> => idtLoaded' = TRUE /\ UNCHANGED <<idt, initialized>>
         /\ i = <<"set_initialized">> => initialized' = TRUE /\ UNCHANGED <<idt, idtLoaded>>
<1>1. /\ Head(code) = i /\ i[1] \in {"idt_clear", "gate", "lidt", "set_initialized"}
      /\ i = <<"idt_clear">> => i[1] = "idt_clear"
      /\ i = <<"lidt">> => i[1] = "lidt"
      /\ i = <<"set_initialized">> => i[1] = "set_initialized"
      /\ \A v \in 0..255 : i = <<"gate", v>> => i[1] = "gate" /\ i[2] = v
  BY DEF Executes
<1>2. SetUpIdt
  BY <1>1, OneAction DEF Executes
<1>3. /\ code' = Tail(code)
      /\ UNCHANGED <<build, interruptFlag, taken, ticks, mask, pic, open>>
  BY <1>2 DEF SetUpIdt, Fetch
<1>4. ASSUME i = <<"idt_clear">> PROVE idt' = {} /\ UNCHANGED <<idtLoaded, initialized>>
  BY <1>1, <1>2, <1>4 DEF SetUpIdt, Fetch
<1>5. ASSUME NEW v \in 0..255, i = <<"gate", v>>
      PROVE  idt' = idt \cup {v} /\ UNCHANGED <<idtLoaded, initialized>>
  BY <1>1, <1>2, <1>5 DEF SetUpIdt, Fetch, Operand
<1>6. ASSUME i = <<"lidt">> PROVE idtLoaded' = TRUE /\ UNCHANGED <<idt, initialized>>
  BY <1>1, <1>2, <1>6 DEF SetUpIdt, Fetch
<1>7. ASSUME i = <<"set_initialized">>
      PROVE  initialized' = TRUE /\ UNCHANGED <<idt, idtLoaded>>
  BY <1>1, <1>2, <1>7 DEF SetUpIdt, Fetch
<1> QED BY <1>3, <1>4, <1>5, <1>6, <1>7

\* A gate is installed.
LEMMA DoGate ==
  ASSUME NEW v \in 0..255, Executes(<<"gate", v>>)
  PROVE  idt' = idt \cup {v} /\ UNCHANGED <<idtLoaded, initialized>>
<1>1. Head(code)[1] = "gate" /\ Operand(1) = v
  BY DEF Executes, Operand
<1>2. SetUpIdt
  BY <1>1, OneAction DEF Executes
<1> QED BY <1>1, <1>2 DEF SetUpIdt, Fetch

\* The rest of a validation, if the IDT is set up.
LEMMA DoIfInitialized ==
  ASSUME NEW q, Executes(<<"if_initialized", q>>)
  PROVE  /\ code' = (IF initialized THEN q ELSE <<>>) \o Tail(code)
         /\ UNCHANGED <<cpuVars, mask, pic, open>>
<1>1. Head(code)[1] = "if_initialized" /\ Operand(1) = q
  BY DEF Executes, Operand
<1>2. IfInitialized
  BY <1>1, OneAction DEF Executes
<1> QED BY <1>1, <1>2 DEF IfInitialized

\* Interrupts are enabled.
LEMMA DoSti ==
  ASSUME Executes(<<"sti">>)
  PROVE  /\ code' = Tail(code) /\ interruptFlag' = TRUE
         /\ UNCHANGED <<build, idt, idtLoaded, initialized, taken, ticks, mask, pic, open>>
<1>1. Head(code)[1] = "sti"
  BY DEF Executes
<1>2. Sti
  BY <1>1, OneAction DEF Executes
<1> QED BY <1>2 DEF Sti, Fetch

\* The breakpoint exception.
LEMMA DoInt3 ==
  ASSUME Executes(<<"int3">>)
  PROVE  /\ Enter(3)
         /\ UNCHANGED <<build, idt, idtLoaded, initialized, ticks, mask, pic, open>>
<1>1. Head(code)[1] = "int3"
  BY DEF Executes
<1>2. Int3
  BY <1>1, OneAction DEF Executes
<1> QED BY <1>2 DEF Int3

\* The timer's handler calls timer_tick().
LEMMA DoTimerTick ==
  ASSUME Executes(<<"timer_tick">>)
  PROVE  /\ code' = Tail(code) /\ ticks' = ticks + 1
         /\ UNCHANGED <<build, interruptFlag, idt, idtLoaded, initialized, taken, mask,
                        pic, open>>
<1>1. Head(code)[1] = "timer_tick"
  BY DEF Executes
<1>2. TimerTick
  BY <1>1, OneAction DEF Executes
<1> QED BY <1>2 DEF TimerTick, Fetch

-----------------------------------------------------------------------------
(***************************************************************************)
(* The controllers.                                                        *)
(***************************************************************************)

\* A byte has a value.
LEMMA ValueType == \A byte \in Byte : Value(byte) \in 0..255
BY DEF Value, Byte

\* What a write to the data port does, depending on the initialisation.
LEMMA DataWritten ==
  ASSUME NEW c \in ControllerState, NEW byte \in Byte,
         NEW new, new = DataWrite(c, byte)
  PROVE  /\ new \in ControllerState /\ new.isr = c.isr
         /\ c.init = 0 => new.init = 0 /\ new.base = c.base /\ new.imr = byte
         /\ c.init = 2 => new.init = 3 /\ new.base = Value(byte) /\ new.imr = c.imr
         /\ c.init = 3 => new.init = 4 /\ new.base = c.base /\ new.imr = c.imr
         /\ c.init = 4 => new.init = 0 /\ new.base = c.base /\ new.imr = c.imr
<1>1. c.init \in {0, 2, 3, 4} /\ Value(byte) \in 0..255
  BY ValueType DEF ControllerState
<1>2. CASE c.init = 0
  <2>1. new = [c EXCEPT !.imr = byte]
    BY <1>2 DEF DataWrite
  <2> QED BY <1>2, <2>1 DEF ControllerState
<1>3. CASE c.init = 2
  <2>1. new = [c EXCEPT !.base = Value(byte), !.init = 3]
    BY <1>3 DEF DataWrite
  <2>2. new \in ControllerState
    BY <1>1, <2>1 DEF ControllerState
  <2>3. new.isr = c.isr /\ new.init = 3 /\ new.imr = c.imr
    BY <2>1 DEF ControllerState
  <2>4. new.base = Value(byte)
    BY <2>1 DEF ControllerState
  <2> QED BY <1>3, <2>2, <2>3, <2>4
<1>4. CASE c.init = 3
  <2>1. new = [c EXCEPT !.init = 4]
    BY <1>4 DEF DataWrite
  <2> QED BY <1>4, <2>1 DEF ControllerState
<1>5. CASE c.init = 4
  <2>1. new = [c EXCEPT !.init = 0]
    BY <1>5 DEF DataWrite
  <2> QED BY <1>5, <2>1 DEF ControllerState
<1> QED BY <1>1, <1>2, <1>3, <1>4, <1>5

\* The first initialisation word.
LEMMA InitStarted ==
  ASSUME NEW c \in ControllerState, NEW new, new = CommandWrite(c, {0, 4})
  PROVE  new \in ControllerState /\ new.init = 2 /\ new.isr = {} /\ new.base = c.base
<1>1. new = [c EXCEPT !.init = 2, !.imr = {}, !.irr = {}, !.isr = {}]
  BY DEF CommandWrite, StartInit
<1> QED BY <1>1, ZenonT(60) DEF ControllerState, Byte

\* The end of interrupt of a controller with one interrupt in service.
LEMMA InterruptEnded ==
  ASSUME NEW c \in ControllerState, c.isr = {0}, NEW new, new = CommandWrite(c, {5})
  PROVE  /\ new \in ControllerState /\ new.isr = {}
         /\ new.init = c.init /\ new.base = c.base /\ new.imr = c.imr
<1>1. Min({0}) = 0
  BY DEF Min
<1>2. new = [c EXCEPT !.isr = {}]
  BY <1>1 DEF CommandWrite, EndOfInterrupt
<1> QED BY <1>2 DEF ControllerState, Byte

\* One controller's registers change.
LEMMA OneChip ==
  ASSUME pic \in [Chip -> ControllerState], NEW chip \in Chip,
         NEW new \in ControllerState, pic' = [pic EXCEPT ![chip] = new]
  PROVE  /\ pic' \in [Chip -> ControllerState] /\ pic'[chip] = new
         /\ \A d \in Chip : d # chip => pic'[d] = pic[d]
OBVIOUS

\* The types when one controller's registers change, and nothing else.
LEMMA ChipTypes ==
  ASSUME TypeOK, Mirrors, NEW chip \in Chip, NEW new \in ControllerState,
         pic' = [pic EXCEPT ![chip] = new], UNCHANGED <<cpuVars, mask, open>>
  PROVE  TypeOK' /\ Mirrors'
<1>1. pic' \in [Chip -> ControllerState]
  BY OneChip DEF TypeOK
<1> QED BY <1>1 DEF TypeOK, Mirrors, cpuVars

-----------------------------------------------------------------------------
(***************************************************************************)
(* kernel_main sets up the IDT and the controllers.                        *)
(***************************************************************************)

\* The IDT is set up.
LEMMA BootIdt ==
  ASSUME TypeOK, Mirrors, NEW k \in 0..8, BootPlace(k),
         Executes(arch_interrupt_init[k + 1])
  PROVE  /\ TypeOK' /\ Mirrors' /\ BootPlace(k + 1)'
         /\ build' = build /\ code' = Tail(code)
<1>1. PICK i : i = arch_interrupt_init[k + 1]
  OBVIOUS
<1>2. \/ k = 0 /\ i = <<"idt_clear">>
      \/ k \in 1..6 /\ \E v \in 0..255 : /\ i = <<"gate", v>>
                                         /\ k = 2 => v = 3
                                         /\ k = 6 => v = TimerVector
      \/ k = 7 /\ i = <<"lidt">>
      \/ k = 8 /\ i = <<"set_initialized">>
  <2>1. /\ k = 0 => i = <<"idt_clear">>
        /\ k = 1 => i = <<"gate", 0>>
        /\ k = 2 => i = <<"gate", 3>>
        /\ k = 3 => i = <<"gate", 6>>
        /\ k = 4 => i = <<"gate", 13>>
        /\ k = 5 => i = <<"gate", 14>>
        /\ k = 6 => i = <<"gate", 32>>
        /\ k = 7 => i = <<"lidt">>
        /\ k = 8 => i = <<"set_initialized">>
    BY <1>1, IdtProgram DEF TimerVector
  <2>2. CASE k = 0
    BY <2>1, <2>2
  <2>3. CASE k \in 1..6
    <3>1. PICK v \in {0, 3, 6, 13, 14, 32} : /\ i = <<"gate", v>>
                                             /\ k = 2 => v = 3
                                             /\ k = 6 => v = 32
      BY <2>1, <2>3
    <3> QED BY <2>3, <3>1 DEF TimerVector
  <2>4. CASE k = 7
    BY <2>1, <2>4
  <2>5. CASE k = 8
    BY <2>1, <2>5
  <2> QED BY <2>2, <2>3, <2>4, <2>5
<1>3. /\ code' = Tail(code)
      /\ UNCHANGED <<build, interruptFlag, taken, ticks, mask, pic, open>>
  BY <1>1, <1>2, DoIdt, ZenonT(60)
<1>4. /\ idt' \subseteq 0..255 /\ idtLoaded' \in BOOLEAN /\ initialized' \in BOOLEAN
      /\ k + 1 >= 3 => 3 \in idt'
      /\ k + 1 >= 7 => TimerVector \in idt'
      /\ k + 1 >= 8 => idtLoaded'
      /\ k + 1 >= 9 => initialized'
  <2>1. CASE k = 0 /\ i = <<"idt_clear">>
    <3>1. idt' = {} /\ UNCHANGED <<idtLoaded, initialized>>
      BY <1>1, <2>1, DoIdt, ZenonT(60)
    <3> QED BY <2>1, <3>1 DEF TypeOK
  <2>2. CASE k \in 1..6
    <3>1. PICK v \in 0..255 : /\ i = <<"gate", v>>
                              /\ k = 2 => v = 3
                              /\ k = 6 => v = TimerVector
      BY <1>2, <2>2
    <3>2. Executes(<<"gate", v>>)
      BY <1>1, <3>1
    <3>3. idt' = idt \cup {v} /\ UNCHANGED <<idtLoaded, initialized>>
      BY <3>2, DoGate
    <3>4. k + 1 >= 3 => 3 \in idt'
      BY <2>2, <3>1, <3>3 DEF BootPlace
    <3>5. k + 1 >= 7 => TimerVector \in idt'
      BY <2>2, <3>1, <3>3 DEF BootPlace
    <3> QED BY <2>2, <3>3, <3>4, <3>5 DEF TypeOK
  <2>3. CASE k = 7 /\ i = <<"lidt">>
    <3>1. idtLoaded' = TRUE /\ UNCHANGED <<idt, initialized>>
      BY <1>1, <2>3, DoIdt, ZenonT(60)
    <3> QED BY <2>3, <3>1 DEF TypeOK, BootPlace
  <2>4. CASE k = 8 /\ i = <<"set_initialized">>
    <3>1. initialized' = TRUE /\ UNCHANGED <<idt, idtLoaded>>
      BY <1>1, <2>4, DoIdt, ZenonT(60)
    <3> QED BY <2>4, <3>1 DEF TypeOK, BootPlace
  <2> QED BY <1>2, <2>1, <2>2, <2>3, <2>4
<1>5. TypeOK' /\ Mirrors'
  BY <1>3, <1>4 DEF TypeOK, Mirrors
<1>6. BootPlace(k + 1)'
  BY <1>3, <1>4 DEF BootPlace, Quiet, Synced, AwaitedWord
<1> QED BY <1>3, <1>5, <1>6

\* An instruction of arch_pic_init() that is for the master.
LEMMA BootMaster ==
  ASSUME TypeOK, Mirrors, NEW k \in {10, 12, 14, 16, 18, 20}, BootPlace(k),
         NEW new \in ControllerState, pic' = [pic EXCEPT !["master"] = new],
         UNCHANGED <<cpuVars, mask, open>>,
         new.isr = {}, new.init = AwaitedWord(k + 1),
         k >= 14 => new.base = 32, k >= 20 => new.imr = 0..7
  PROVE  TypeOK' /\ Mirrors' /\ BootPlace(k + 1)'
<1>1. TypeOK' /\ Mirrors'
  BY ChipTypes DEF Chip
<1>2. pic'["master"] = new /\ pic'["slave"] = pic["slave"]
  BY OneChip DEF TypeOK, Chip
<1>3. AwaitedWord((k + 1) - 1) = AwaitedWord(k - 1)
  BY DEF AwaitedWord
<1>4. mask'["master"] = 0..7 /\ mask'["slave"] = mask["slave"]
  BY DEF BootPlace, Chip
<1>5. k + 1 >= 21 => Synced("master")'
  BY <1>2, <1>4 DEF Synced
<1>6. (k + 1 >= 22 => Synced("slave")') /\ Quiet("master")' /\ Quiet("slave")'
  BY <1>2, <1>4 DEF Quiet, BootPlace
<1>7. /\ pic'["master"].init = AwaitedWord(k + 1)
      /\ pic'["slave"].init = AwaitedWord((k + 1) - 1)
      /\ k + 1 >= 15 => pic'["master"].base = 32
  BY <1>2, <1>3 DEF BootPlace
<1>8. /\ k + 1 >= 3 => 3 \in idt'
      /\ k + 1 >= 7 => TimerVector \in idt'
      /\ k + 1 >= 8 => idtLoaded'
      /\ k + 1 >= 9 => initialized'
  BY DEF BootPlace, cpuVars
<1>9. /\ ~interruptFlag' /\ taken' = NoVector /\ ticks' = 0
      /\ mask' = [chip \in Chip |-> 0..7] /\ open' = {}
  BY DEF BootPlace, cpuVars
<1> QED BY <1>1, <1>5, <1>6, <1>7, <1>8, <1>9 DEF BootPlace

\* An instruction of arch_pic_init() that is for the slave.
LEMMA BootSlave ==
  ASSUME TypeOK, Mirrors, NEW k \in {11, 13, 15, 17, 19, 21}, BootPlace(k),
         NEW new \in ControllerState, pic' = [pic EXCEPT !["slave"] = new],
         UNCHANGED <<cpuVars, mask, open>>,
         new.isr = {}, new.init = AwaitedWord(k), k >= 21 => new.imr = 0..7
  PROVE  TypeOK' /\ Mirrors' /\ BootPlace(k + 1)'
<1>1. TypeOK' /\ Mirrors'
  BY ChipTypes DEF Chip
<1>2. pic'["slave"] = new /\ pic'["master"] = pic["master"]
  BY OneChip DEF TypeOK, Chip
<1>3. AwaitedWord(k + 1) = AwaitedWord(k) /\ (k + 1) - 1 = k
  BY DEF AwaitedWord
<1>4. mask'["slave"] = 0..7 /\ mask'["master"] = mask["master"]
  BY DEF BootPlace, Chip
<1>5. k + 1 >= 22 => Synced("slave")'
  BY <1>2, <1>4 DEF Synced
<1>6. (k + 1 >= 21 => Synced("master")') /\ Quiet("master")' /\ Quiet("slave")'
  BY <1>2, <1>4 DEF Quiet, Synced, BootPlace
<1>7. /\ pic'["master"].init = AwaitedWord(k + 1)
      /\ pic'["slave"].init = AwaitedWord((k + 1) - 1)
      /\ k + 1 >= 15 => pic'["master"].base = 32
  BY <1>2, <1>3 DEF BootPlace
<1>8. /\ k + 1 >= 3 => 3 \in idt'
      /\ k + 1 >= 7 => TimerVector \in idt'
      /\ k + 1 >= 8 => idtLoaded'
      /\ k + 1 >= 9 => initialized'
  BY DEF BootPlace, cpuVars
<1>9. /\ ~interruptFlag' /\ taken' = NoVector /\ ticks' = 0
      /\ mask' = [chip \in Chip |-> 0..7] /\ open' = {}
  BY DEF BootPlace, cpuVars
<1> QED BY <1>1, <1>5, <1>6, <1>7, <1>8, <1>9 DEF BootPlace

\* One of the six data words or the four masks that the master or the slave
\* gets, or one of the two commands.
LEMMA BootWrite ==
  ASSUME TypeOK, Mirrors, NEW k \in 10..21, BootPlace(k),
         NEW chip \in Chip, chip = "master" <=> k \in {10, 12, 14, 16, 18, 20},
         UNCHANGED <<cpuVars, mask, open>>,
         \/ /\ k \in {12, 13}
            /\ pic' = [pic EXCEPT ![chip] = CommandWrite(@, {0, 4})]
         \/ /\ k \notin {12, 13}
            /\ \E byte \in Byte : /\ pic' = [pic EXCEPT ![chip] = DataWrite(@, byte)]
                                  /\ k = 14 => byte = {5}
                                  /\ k >= 20 => byte = 0..7
  PROVE  TypeOK' /\ Mirrors' /\ BootPlace(k + 1)'
<1>1. pic \in [Chip -> ControllerState] /\ pic[chip] \in ControllerState
  BY DEF TypeOK
<1>2. PICK c : c = pic[chip]
  OBVIOUS
<1>3. c \in ControllerState /\ c.isr = {}
  BY <1>1, <1>2 DEF BootPlace, Quiet, Chip
<1>4. k \in {10, 12, 14, 16, 18, 20} \/ k \in {11, 13, 15, 17, 19, 21}
  OBVIOUS
<1>5. CASE k \in {12, 13}
  <2>1. PICK new : new = CommandWrite(c, {0, 4})
    OBVIOUS
  <2>2. new \in ControllerState /\ new.init = 2 /\ new.isr = {}
    BY <1>3, <2>1, InitStarted
  <2>3. pic' = [pic EXCEPT ![chip] = new]
    BY <1>1, <1>2, <1>5, <2>1
  <2>4. CASE k = 12
    <3>1. chip = "master" /\ k \in {10, 12, 14, 16, 18, 20} /\ ~(k >= 14) /\ ~(k >= 20)
      BY <2>4
    <3>2. new.init = AwaitedWord(k + 1)
      BY <2>2, <2>4 DEF AwaitedWord
    <3>3. pic' = [pic EXCEPT !["master"] = new]
      BY <2>3, <3>1
    <3> QED BY <2>2, <3>1, <3>2, <3>3, BootMaster, ZenonT(60)
  <2>5. CASE k = 13
    <3>1. chip = "slave" /\ k \in {11, 13, 15, 17, 19, 21} /\ ~(k >= 21)
      BY <2>5 DEF Chip
    <3>2. new.init = AwaitedWord(k)
      BY <2>2, <2>5 DEF AwaitedWord
    <3>3. pic' = [pic EXCEPT !["slave"] = new]
      BY <2>3, <3>1
    <3> QED BY <2>2, <3>1, <3>2, <3>3, BootSlave
  <2> QED BY <1>5, <2>4, <2>5
<1>6. CASE k \notin {12, 13}
  <2>1. PICK byte \in Byte : /\ pic' = [pic EXCEPT ![chip] = DataWrite(@, byte)]
                             /\ k = 14 => byte = {5}
                             /\ k >= 20 => byte = 0..7
    BY <1>6
  <2>2. PICK new : new = DataWrite(c, byte)
    OBVIOUS
  <2>3. pic' = [pic EXCEPT ![chip] = new]
    BY <1>1, <1>2, <2>1, <2>2
  <2>4. new \in ControllerState /\ new.isr = {}
    BY <1>3, <2>2, DataWritten
  <2>5. c.init = 0 => new.init = 0 /\ new.base = c.base /\ new.imr = byte
    BY <1>3, <2>2, DataWritten
  <2>6. c.init = 2 => new.init = 3 /\ new.base = Value(byte)
    BY <1>3, <2>2, DataWritten
  <2>7. c.init = 3 => new.init = 4 /\ new.base = c.base
    BY <1>3, <2>2, DataWritten
  <2>8. c.init = 4 => new.init = 0 /\ new.base = c.base
    BY <1>3, <2>2, DataWritten
  <2>9. CASE k \in {10, 14, 16, 18, 20}
    <3>1. chip = "master" /\ c = pic["master"]
      BY <1>2, <2>9
    <3>2. c.init = AwaitedWord(k) /\ (k >= 16 => c.base = 32)
      BY <2>9, <3>1 DEF BootPlace
    <3>3. new.init = AwaitedWord(k + 1)
      BY <2>5, <2>6, <2>7, <2>8, <2>9, <3>2 DEF AwaitedWord
    <3>4. k >= 14 => new.base = 32
      <4>1. CASE k = 14
        <5>1. Value({5}) = 32
          BY DEF Value
        <5>2. c.init = 2
          BY <3>2, <4>1 DEF AwaitedWord
        <5> QED BY <2>1, <2>6, <4>1, <5>1, <5>2
      <4>2. CASE k \in {16, 18, 20}
        BY <2>5, <2>7, <2>8, <3>2, <4>2 DEF AwaitedWord
      <4> QED BY <2>9, <4>1, <4>2
    <3>5. k >= 20 => new.imr = 0..7
      BY <2>1, <2>5, <2>9, <3>2 DEF AwaitedWord
    <3> QED BY <2>3, <2>4, <2>9, <3>1, <3>3, <3>4, <3>5, BootMaster, ZenonT(60)
  <2>10. CASE k \in {11, 15, 17, 19, 21}
    <3>1. chip = "slave" /\ c = pic["slave"]
      BY <1>2, <2>10 DEF Chip
    <3>2. c.init = AwaitedWord(k - 1)
      BY <2>10, <3>1 DEF BootPlace
    <3>3. new.init = AwaitedWord(k)
      BY <2>5, <2>6, <2>7, <2>8, <2>10, <3>2 DEF AwaitedWord
    <3>4. k >= 21 => new.imr = 0..7
      BY <2>1, <2>5, <2>10, <3>2 DEF AwaitedWord
    <3> QED BY <2>3, <2>4, <2>10, <3>1, <3>3, <3>4, BootSlave, ZenonT(60)
  <2> QED BY <1>4, <1>6, <2>9, <2>10
<1> QED BY <1>5, <1>6

\* The controllers are set up.
LEMMA BootPic ==
  ASSUME TypeOK, Mirrors, NEW k \in 9..21, BootPlace(k), Executes(arch_pic_init[k - 8])
  PROVE  /\ TypeOK' /\ Mirrors' /\ BootPlace(k + 1)'
         /\ build' = build /\ code' = Tail(code)
<1>1. PICK i : i = arch_pic_init[k - 8]
  OBVIOUS
<1>2. Executes(i)
  BY <1>1
<1>3. /\ k = 9 => i = <<"mask_all">>
      /\ k \in {10, 20} => i = <<"write_mask", "master">>
      /\ k \in {11, 21} => i = <<"write_mask", "slave">>
      /\ k = 12 => i = outb("master", "command", {0, 4})
      /\ k = 13 => i = outb("slave", "command", {0, 4})
      /\ k = 14 => i = outb("master", "data", {5})
      /\ k = 15 => i = outb("slave", "data", {3, 5})
      /\ k = 16 => i = outb("master", "data", {2})
      /\ k = 17 => i = outb("slave", "data", {1})
      /\ k = 18 => i = outb("master", "data", {0})
      /\ k = 19 => i = outb("slave", "data", {0})
  BY <1>1, PicProgram
<1>4. CASE k = 9
  <2>1. Executes(<<"mask_all">>)
    BY <1>2, <1>3, <1>4
  <2>2. /\ code' = Tail(code) /\ UNCHANGED <<cpuVars, pic>>
        /\ mask' = [chip \in Chip |-> 0..7] /\ open' = {}
    BY <2>1, DoMaskAll
  <2>3. UNCHANGED <<mask, open>>
    BY <2>2 DEF BootPlace
  <2>4. TypeOK' /\ Mirrors'
    BY <2>2, <2>3 DEF TypeOK, Mirrors, cpuVars
  <2>5. BootPlace(k + 1)'
    BY <1>4, <2>2, <2>3 DEF BootPlace, Quiet, Synced, AwaitedWord, cpuVars
  <2> QED BY <2>2, <2>4, <2>5 DEF cpuVars
<1>5. CASE k \in {10, 11, 20, 21}
  <2>1. PICK chip \in Chip : /\ chip = "master" <=> k \in {10, 20}
                             /\ i = <<"write_mask", chip>>
    <3>1. CASE k \in {10, 20}
      BY <1>3, <3>1 DEF Chip
    <3>2. CASE k \in {11, 21}
      BY <1>3, <3>2 DEF Chip
    <3> QED BY <1>5, <3>1, <3>2
  <2>2. Executes(<<"write_mask", chip>>)
    BY <1>2, <2>1
  <2>3. /\ code' = Tail(code) /\ UNCHANGED <<cpuVars, mask, open>>
        /\ pic' = [pic EXCEPT ![chip] = DataWrite(@, mask[chip])]
    BY <2>2, DoWriteMask
  <2>4. mask[chip] = 0..7 /\ mask[chip] \in Byte
    BY DEF BootPlace, Byte
  <2>5. chip = "master" <=> k \in {10, 12, 14, 16, 18, 20}
    BY <1>5, <2>1
  <2>6. TypeOK' /\ Mirrors' /\ BootPlace(k + 1)'
    <3>1. PICK byte \in Byte : byte = mask[chip]
      BY <2>4
    <3>2. /\ pic' = [pic EXCEPT ![chip] = DataWrite(@, byte)] /\ byte = 0..7
          /\ k \in 10..21 /\ k \notin {12, 13} /\ k # 14
      BY <1>5, <2>3, <2>4, <3>1
    <3>3. UNCHANGED <<cpuVars, mask, open>>
      BY <2>3
    <3> QED BY <2>5, <3>2, <3>3, BootWrite
  <2> QED BY <2>3, <2>6 DEF cpuVars
<1>6. CASE k \in 12..19
  <2>1. PICK chip \in Chip, port \in {"command", "data"}, byte \in Byte :
          /\ chip = "master" <=> k \in {10, 12, 14, 16, 18, 20}
          /\ port = "command" <=> k \in {12, 13}
          /\ k \in {12, 13} => byte = {0, 4}
          /\ k = 14 => byte = {5}
          /\ i = outb(chip, port, byte)
    <3> HIDE DEF outb
    <3>1. /\ {0, 4} \in Byte /\ {5} \in Byte /\ {3, 5} \in Byte /\ {2} \in Byte
          /\ {1} \in Byte /\ {0} \in Byte /\ "master" \in Chip /\ "slave" \in Chip
      BY DEF Byte, Chip
    <3>2. CASE k = 12
      BY <1>3, <3>1, <3>2
    <3>3. CASE k = 13
      BY <1>3, <3>1, <3>3
    <3>4. CASE k = 14
      BY <1>3, <3>1, <3>4
    <3>5. CASE k = 15
      BY <1>3, <3>1, <3>5
    <3>6. CASE k = 16
      BY <1>3, <3>1, <3>6
    <3>7. CASE k = 17
      BY <1>3, <3>1, <3>7
    <3>8. CASE k = 18
      BY <1>3, <3>1, <3>8
    <3>9. CASE k = 19
      BY <1>3, <3>1, <3>9
    <3> QED BY <1>6, <3>2, <3>3, <3>4, <3>5, <3>6, <3>7, <3>8, <3>9
  <2>2. Executes(outb(chip, port, byte))
    BY <1>2, <2>1
  <2>3. /\ code' = Tail(code) /\ UNCHANGED <<cpuVars, mask, open>>
        /\ pic' = [pic EXCEPT ![chip] = IF port = "command" THEN CommandWrite(@, byte)
                                                             ELSE DataWrite(@, byte)]
    BY <2>2, DoOutb
  <2>4. CASE k \in {12, 13}
    <3>1. pic' = [pic EXCEPT ![chip] = CommandWrite(@, {0, 4})]
      BY <2>1, <2>3, <2>4
    <3>2. k \in 10..21 /\ UNCHANGED <<cpuVars, mask, open>>
      BY <2>3, <2>4
    <3>3. TypeOK' /\ Mirrors' /\ BootPlace(k + 1)'
      BY <2>1, <2>4, <3>1, <3>2, BootWrite
    <3> QED BY <2>3, <3>3 DEF cpuVars
  <2>5. CASE k \notin {12, 13}
    <3>1. pic' = [pic EXCEPT ![chip] = DataWrite(@, byte)]
      BY <2>1, <2>3, <2>5
    <3>2. k \in 10..21 /\ ~(k >= 20) /\ UNCHANGED <<cpuVars, mask, open>>
      BY <1>6, <2>3
    <3>3. TypeOK' /\ Mirrors' /\ BootPlace(k + 1)'
      BY <2>1, <2>5, <3>1, <3>2, BootWrite
    <3> QED BY <2>3, <3>3 DEF cpuVars
  <2> QED BY <2>4, <2>5
<1> QED BY <1>4, <1>5, <1>6

\* The processor executes the next instruction of its program.
LEMMA Fetched ==
  ASSUME Step, NEW p \in Seq(Instruction), NEW k \in Nat, k <= Len(p), code = From(p, k)
  PROVE  k < Len(p) /\ Executes(p[k + 1]) /\ Tail(code) = From(p, k + 1)
<1>1. code # <<>>
  BY DEF Step, Outb, WriteMask, MaskAll, Mask, Unmask, SetUpIdt, IfInitialized, Sti, Int3,
         TimerTick, Fetch
<1>2. Len(p) \in Nat
  BY LenProperties
<1>3. k < Len(p)
  BY <1>1, <1>2, FromEnd
<1>4. /\ Head(From(p, k)) = p[k + 1]
      /\ Tail(From(p, k)) = From(p, k + 1)
  BY <1>3, FromStep
<1> QED BY <1>1, <1>3, <1>4 DEF Executes

\* kernel_main before the validations.
LEMMA BootGoesOn ==
  ASSUME TypeOK, Mirrors, NEW k \in 0..21, code = From(kernel_main(build), k),
         BootPlace(k), Step
  PROVE  TypeOK' /\ Mirrors' /\ Booting'
<1>1. PICK p : p = kernel_main(build)
  OBVIOUS
<1>2. build \in Builds
  BY DEF TypeOK
<1>3. /\ p \in Seq(Instruction) /\ Len(p) \in {22, 23}
      /\ \A i \in 1..9 : p[i] = arch_interrupt_init[i]
      /\ \A i \in 1..13 : p[9 + i] = arch_pic_init[i]
  BY <1>1, <1>2, BootProgram, ZenonT(60)
<1>4. k \in Nat /\ k <= Len(p) /\ code = From(p, k)
  <2>1. \A n \in {22, 23} : k \in Nat /\ k <= n
    OBVIOUS
  <2>2. k \in Nat /\ k <= Len(p)
    BY <1>3, <2>1
  <2>3. code = From(p, k)
    BY <1>1
  <2> QED BY <2>2, <2>3
<1>5. Executes(p[k + 1]) /\ Tail(code) = From(p, k + 1)
  BY <1>3, <1>4, Fetched
<1>6. /\ TypeOK' /\ Mirrors' /\ BootPlace(k + 1)'
      /\ build' = build /\ code' = Tail(code)
  <2>1. CASE k \in 0..8
    <3>1. k + 1 \in 1..9 /\ \A i \in 1..9 : p[i] = arch_interrupt_init[i]
      BY <1>3, <2>1
    <3>2. Executes(arch_interrupt_init[k + 1])
      BY <1>5, <3>1
    <3> QED BY <2>1, <3>2, BootIdt
  <2>2. CASE k \in 9..21
    <3>1. k - 8 \in 1..13 /\ 9 + (k - 8) = k + 1
      BY <2>2
    <3>2. p[k + 1] = arch_pic_init[k - 8]
      BY <1>3, <3>1
    <3>3. Executes(arch_pic_init[k - 8])
      BY <1>5, <3>2
    <3> QED BY <2>2, <3>3, BootPic
  <2> QED BY <2>1, <2>2
<1>7. code' = From(kernel_main(build'), k + 1) /\ k + 1 \in 0..22
  BY <1>1, <1>5, <1>6
<1> QED BY <1>6, <1>7 DEF Booting

\* The end of kernel_main's set-up.
LEMMA BootDone ==
  ASSUME BootPlace(22)
  PROVE  /\ Programmed /\ taken = NoVector /\ ~interruptFlag /\ open = {} /\ ticks = 0
         /\ Synced("master") /\ Synced("slave") /\ Quiet("master") /\ Quiet("slave")
BY DEF BootPlace, Programmed, AwaitedWord

\* kernel_main's last instruction starts a validation.
LEMMA BootEnds ==
  ASSUME TypeOK, Mirrors, code = From(kernel_main(build), 22), BootPlace(22), Step
  PROVE  TypeOK' /\ Mirrors' /\ (Enabling' \/ Triggering')
<1>1. PICK p : p = kernel_main(build)
  OBVIOUS
<1>2. build \in Builds
  BY DEF TypeOK
<1>3. p \in Seq(Instruction)
  BY <1>1, <1>2, BootProgram
<1>4. Len(p) = IF build \in {"timer", "exception"} THEN 23 ELSE 22
  BY <1>1, <1>2, BootProgram
<1>5. build = "timer" => p[23] = <<"if_initialized", EnableTimer>>
  BY <1>1, <1>2, BootProgram
<1>6. build = "exception" => p[23] = <<"if_initialized", << <<"int3">> >> >>
  BY <1>1, <1>2, BootProgram
<1>7. 22 < Len(p) /\ Executes(p[22 + 1]) /\ Tail(code) = From(p, 22 + 1)
  <2>1. code = From(p, 22) /\ 22 \in Nat
    BY <1>1
  <2>2. 22 <= Len(p)
    BY <1>4
  <2> QED BY <1>3, <2>1, <2>2, Fetched
<1>8. Len(p) = 23 /\ build \in {"timer", "exception"} /\ Executes(p[23])
  BY <1>4, <1>7
<1>9. Tail(code) = <<>>
  <2>1. Tail(code) = From(p, 23) /\ 23 \in Nat /\ 23 <= Len(p) /\ 23 = Len(p)
    BY <1>7, <1>8
  <2> QED BY <1>3, <2>1, FromEnd
<1>10. /\ Programmed /\ taken = NoVector /\ ~interruptFlag /\ open = {} /\ ticks = 0
       /\ Synced("master") /\ Synced("slave") /\ Quiet("master") /\ Quiet("slave")
  BY BootDone
<1>11. ASSUME NEW q \in Seq(Instruction), Executes(<<"if_initialized", q>>)
       PROVE  /\ code' = q /\ UNCHANGED <<cpuVars, mask, pic, open>>
              /\ TypeOK' /\ Mirrors' /\ Programmed'
              /\ taken' = NoVector /\ ~interruptFlag' /\ open' = {} /\ ticks' = 0
              /\ Synced("master")' /\ Synced("slave")'
              /\ Quiet("master")' /\ Quiet("slave")'
  <2>1. /\ code' = (IF initialized THEN q ELSE <<>>) \o Tail(code)
        /\ UNCHANGED <<cpuVars, mask, pic, open>>
    BY <1>11, DoIfInitialized
  <2>2. initialized
    BY <1>10 DEF Programmed
  <2>3. code' = q
    BY <1>9, <2>1, <2>2, ConcatEmptySeq
  <2>4. TypeOK' /\ Mirrors' /\ Programmed'
    BY <1>10, <2>1 DEF TypeOK, Mirrors, Programmed, cpuVars
  <2>5. /\ taken' = NoVector /\ ~interruptFlag' /\ open' = {} /\ ticks' = 0
        /\ Synced("master")' /\ Synced("slave")' /\ Quiet("master")' /\ Quiet("slave")'
    BY <1>10, <2>1 DEF Synced, Quiet, cpuVars
  <2> QED BY <2>1, <2>3, <2>4, <2>5
<1>12. CASE build = "timer"
  <2>1. EnableTimer \in Seq(Instruction) /\ From(EnableTimer, 0) = EnableTimer
    BY EnableProgram, FromStart
  <2>2. Executes(<<"if_initialized", EnableTimer>>)
    BY <1>5, <1>8, <1>12
  <2>3. /\ code' = EnableTimer /\ UNCHANGED <<cpuVars, mask, pic, open>>
        /\ TypeOK' /\ Mirrors' /\ Programmed'
        /\ taken' = NoVector /\ ~interruptFlag' /\ open' = {} /\ ticks' = 0
        /\ Synced("master")' /\ Synced("slave")' /\ Quiet("master")' /\ Quiet("slave")'
    BY <1>11, <2>1, <2>2
  <2>4. /\ 0 \in 0..4 /\ code' = From(EnableTimer, 0)
        /\ interruptFlag' <=> 0 = 4
        /\ open' = IF 0 = 0 THEN {} ELSE {0}
    BY <2>1, <2>3
  <2>5. build' = "timer"
    BY <1>12, <2>3 DEF cpuVars
  <2> QED BY <2>3, <2>4, <2>5 DEF Enabling
<1>13. CASE build = "exception"
  <2>1. << <<"int3">> >> \in Seq(Instruction)
    BY DEF Instruction
  <2>2. Executes(<<"if_initialized", << <<"int3">> >> >>)
    BY <1>6, <1>8, <1>13
  <2>3. /\ code' = << <<"int3">> >> /\ UNCHANGED <<cpuVars, mask, pic, open>>
        /\ TypeOK' /\ Mirrors' /\ Programmed'
        /\ taken' = NoVector /\ ~interruptFlag' /\ open' = {} /\ ticks' = 0
        /\ Synced("master")' /\ Synced("slave")' /\ Quiet("master")' /\ Quiet("slave")'
    BY <1>11, <2>1, <2>2
  <2>4. build' = "exception"
    BY <1>13, <2>3 DEF cpuVars
  <2>5. \A chip \in Chip : Synced(chip)' /\ Quiet(chip)'
    BY <2>3 DEF Chip
  <2> QED BY <2>3, <2>4, <2>5 DEF Triggering
<1> QED BY <1>8, <1>12, <1>13

-----------------------------------------------------------------------------
(***************************************************************************)
(* The controllers are programmed: calls of pic.h, the validations and     *)
(* the handlers.                                                           *)
(***************************************************************************)

\* A mirror and the record of what was unmasked last change together.
LEMMA MirrorChanged ==
  ASSUME TypeOK, Mirrors, NEW op \in {"mask", "unmask"}, NEW irq \in 0..15,
         Executes(<<op, irq>>)
  PROVE  /\ TypeOK' /\ Mirrors' /\ code' = Tail(code) /\ UNCHANGED <<cpuVars, pic>>
         /\ \A chip \in Chip : chip # ChipOf(irq) => mask'[chip] = mask[chip]
<1>1. /\ code' = Tail(code) /\ UNCHANGED <<cpuVars, pic>>
      /\ mask' = [mask EXCEPT ![ChipOf(irq)] = IF op = "mask" THEN @ \cup {Bit(irq)}
                                                               ELSE @ \ {Bit(irq)}]
      /\ open' = IF op = "mask" THEN open \ {irq} ELSE open \cup {irq}
  BY DoMask
<1>2. /\ mask \in [Chip -> Byte] /\ open \subseteq 0..15
      /\ ChipOf(irq) \in Chip /\ Bit(irq) \in 0..7
      /\ ChipOf(irq) = "master" => irq = Bit(irq)
      /\ ChipOf(irq) = "slave" => irq = Bit(irq) + 8
  BY DEF TypeOK, ChipOf, Bit, Chip
<1>3. PICK chip \in Chip : chip = ChipOf(irq)
  BY <1>2
<1>4. PICK bit \in 0..7 : bit = Bit(irq)
  BY <1>2
<1>5. PICK byte : byte = IF op = "mask" THEN mask[chip] \cup {bit} ELSE mask[chip] \ {bit}
  OBVIOUS
<1>6. mask' = [mask EXCEPT ![chip] = byte]
  BY <1>1, <1>2, <1>3, <1>4, <1>5
<1>7. byte \in Byte
  BY <1>2, <1>5 DEF Byte
<1>8. /\ mask' \in [Chip -> Byte] /\ mask'[chip] = byte
      /\ \A d \in Chip : d # chip => mask'[d] = mask[d]
  BY <1>2, <1>6, <1>7
<1>9. open' \subseteq 0..15
  BY <1>1, <1>2
<1>10. TypeOK'
  BY <1>1, <1>8, <1>9 DEF TypeOK, cpuVars
<1>11. Mirrors'
  <2>1. CASE chip = "master"
    <3>1. mask'["slave"] = mask["slave"] /\ mask'["master"] = byte /\ irq = bit
      BY <1>2, <1>3, <1>4, <1>8, <2>1 DEF Chip
    <3>2. ASSUME NEW l \in 0..7 PROVE l \in open' <=> l \notin mask'["master"]
      BY <1>1, <1>5, <2>1, <3>1 DEF Mirrors
    <3>3. ASSUME NEW l \in 0..7 PROVE l + 8 \in open' <=> l \notin mask'["slave"]
      <4>1. l + 8 # irq
        BY <3>1
      <4> QED BY <1>1, <3>1, <4>1 DEF Mirrors
    <3> QED BY <3>2, <3>3 DEF Mirrors
  <2>2. CASE chip = "slave"
    <3>1. mask'["master"] = mask["master"] /\ mask'["slave"] = byte /\ irq = bit + 8
      BY <1>2, <1>3, <1>4, <1>8, <2>2 DEF Chip
    <3>2. ASSUME NEW l \in 0..7 PROVE l \in open' <=> l \notin mask'["master"]
      <4>1. l # irq
        BY <3>1
      <4> QED BY <1>1, <3>1, <4>1 DEF Mirrors
    <3>3. ASSUME NEW l \in 0..7 PROVE l + 8 \in open' <=> l \notin mask'["slave"]
      <4>1. l + 8 = irq <=> l = bit
        BY <3>1
      <4> QED BY <1>1, <1>5, <2>2, <3>1, <4>1 DEF Mirrors
    <3> QED BY <3>2, <3>3 DEF Mirrors
  <2> QED BY <2>1, <2>2 DEF Chip
<1> QED BY <1>1, <1>3, <1>8, <1>10, <1>11

\* A mirror is written to a controller that is programmed.
LEMMA MaskWritten ==
  ASSUME TypeOK, Mirrors, Programmed, NEW chip \in Chip, Executes(<<"write_mask", chip>>)
  PROVE  /\ TypeOK' /\ Mirrors' /\ Programmed'
         /\ code' = Tail(code) /\ UNCHANGED <<cpuVars, mask, open>>
         /\ Synced(chip)'
         /\ \A d \in Chip : Synced(d) => Synced(d)'
         /\ \A d \in Chip : Quiet(d) => Quiet(d)'
<1>1. /\ code' = Tail(code) /\ UNCHANGED <<cpuVars, mask, open>>
      /\ pic' = [pic EXCEPT ![chip] = DataWrite(@, mask[chip])]
  BY DoWriteMask
<1>2. /\ pic \in [Chip -> ControllerState] /\ mask[chip] \in Byte
      /\ pic[chip] \in ControllerState /\ pic[chip].init = 0
  BY DEF TypeOK, Programmed, Chip
<1>3. PICK new : new = DataWrite(pic[chip], mask[chip])
  OBVIOUS
<1>4. /\ new \in ControllerState /\ new.isr = pic[chip].isr
      /\ new.init = 0 /\ new.base = pic[chip].base /\ new.imr = mask[chip]
  BY <1>2, <1>3, DataWritten
<1>5. pic' = [pic EXCEPT ![chip] = new]
  BY <1>1, <1>2, <1>3
<1>6. TypeOK' /\ Mirrors'
  BY <1>1, <1>4, <1>5, ChipTypes
<1>7. pic'[chip] = new /\ \A d \in Chip : d # chip => pic'[d] = pic[d]
  BY <1>2, <1>4, <1>5, OneChip
<1>8. Synced(chip)'
  BY <1>1, <1>4, <1>7 DEF Synced
<1>9. \A d \in Chip : Synced(d) => Synced(d)'
  BY <1>1, <1>7, <1>8 DEF Synced
<1>10. \A d \in Chip : Quiet(d) => Quiet(d)'
  BY <1>4, <1>7 DEF Quiet
<1>11. \A d \in Chip : pic'[d].init = pic[d].init /\ pic'[d].base = pic[d].base
  BY <1>2, <1>4, <1>7
<1>12. Programmed'
  BY <1>1, <1>11 DEF Programmed, Chip, cpuVars
<1> QED BY <1>1, <1>6, <1>8, <1>9, <1>10, <1>12

\* The timer validation opens line 0 and then enables interrupts.
LEMMA EnableStep ==
  ASSUME TypeOK, Mirrors, Enabling, Step
  PROVE  TypeOK' /\ Mirrors' /\ Enabling'
<1>1. /\ build = "timer" /\ Programmed /\ taken = NoVector /\ ticks = 0
      /\ Quiet("master") /\ Quiet("slave")
  BY DEF Enabling
<1>2. PICK k \in 0..4 : /\ code = From(EnableTimer, k)
                        /\ interruptFlag <=> k = 4
                        /\ open = IF k = 0 THEN {} ELSE {0}
                        /\ k # 1 => Synced("master")
                        /\ Synced("slave")
  BY DEF Enabling
<1>3. /\ EnableTimer \in Seq(Instruction) /\ Len(EnableTimer) = 4
      /\ EnableTimer[1] = <<"unmask", 0>>
      /\ EnableTimer[2] = <<"write_mask", "master">>
      /\ EnableTimer[3] = <<"write_mask", "slave">>
      /\ EnableTimer[4] = <<"sti">>
  BY EnableProgram
<1>4. k \in Nat /\ k <= Len(EnableTimer)
  BY <1>3
<1>5. /\ k < Len(EnableTimer) /\ Executes(EnableTimer[k + 1])
      /\ Tail(code) = From(EnableTimer, k + 1)
  BY <1>2, <1>3, <1>4, Fetched
<1>6. k \in 0..3 /\ k + 1 \in 0..4 /\ ~interruptFlag
  BY <1>2, <1>3, <1>5
<1>7. SUFFICES /\ TypeOK' /\ Mirrors' /\ build' = "timer" /\ Programmed' /\ taken' = NoVector
               /\ Quiet("master")' /\ Quiet("slave")' /\ ticks' = 0
               /\ code' = Tail(code)
               /\ interruptFlag' <=> k + 1 = 4
               /\ open' = {0}
               /\ k + 1 # 1 => Synced("master")'
               /\ Synced("slave")'
  <2>1. code' = From(EnableTimer, k + 1)
    BY <1>5, <1>7
  <2>2. open' = IF k + 1 = 0 THEN {} ELSE {0}
    BY <1>6, <1>7
  <2> QED BY <1>6, <1>7, <2>1, <2>2 DEF Enabling
<1>8. CASE k = 0
  <2>1. Executes(<<"unmask", 0>>)
    BY <1>3, <1>5, <1>8
  <2>2. /\ TypeOK' /\ Mirrors' /\ code' = Tail(code) /\ UNCHANGED <<cpuVars, pic>>
        /\ \A chip \in Chip : chip # ChipOf(0) => mask'[chip] = mask[chip]
    BY <2>1, MirrorChanged
  <2>3. open' = open \cup {0}
    BY <2>1, DoMask
  <2>4. mask'["slave"] = mask["slave"]
    BY <2>2 DEF ChipOf, Chip
  <2>5. Synced("slave")' /\ Quiet("master")' /\ Quiet("slave")'
    BY <1>1, <1>2, <2>2, <2>4 DEF Synced, Quiet
  <2>6. build' = "timer" /\ Programmed' /\ taken' = NoVector /\ ~interruptFlag' /\ ticks' = 0
    BY <1>1, <1>6, <2>2 DEF Programmed, cpuVars
  <2>7. open' = {0}
    BY <1>2, <1>8, <2>3
  <2> QED BY <1>8, <2>2, <2>5, <2>6, <2>7
<1>9. CASE k \in {1, 2}
  <2>1. PICK chip \in Chip : chip = IF k = 1 THEN "master" ELSE "slave"
    BY DEF Chip
  <2>2. Executes(<<"write_mask", chip>>)
    <3>1. CASE k = 1
      <4>1. Executes(EnableTimer[2]) /\ chip = "master"
        BY <1>5, <2>1, <3>1
      <4> QED BY <1>3, <4>1
    <3>2. CASE k = 2
      <4>1. Executes(EnableTimer[3]) /\ chip = "slave"
        BY <1>5, <2>1, <3>2
      <4> QED BY <1>3, <4>1
    <3> QED BY <1>9, <3>1, <3>2
  <2>3. /\ TypeOK' /\ Mirrors' /\ Programmed'
        /\ code' = Tail(code) /\ UNCHANGED <<cpuVars, mask, open>>
        /\ Synced(chip)'
        /\ \A d \in Chip : Synced(d) => Synced(d)'
        /\ \A d \in Chip : Quiet(d) => Quiet(d)'
    BY <1>1, <2>2, MaskWritten
  <2>4. Quiet("master")' /\ Quiet("slave")' /\ Synced("slave")'
    BY <1>1, <1>2, <2>3 DEF Chip
  <2>5. Synced("master")'
    BY <1>2, <1>9, <2>1, <2>3 DEF Chip
  <2>6. build' = "timer" /\ taken' = NoVector /\ ~interruptFlag' /\ open' = {0} /\ ticks' = 0
    BY <1>1, <1>2, <1>6, <1>9, <2>3 DEF cpuVars
  <2> QED BY <1>9, <2>3, <2>4, <2>5, <2>6
<1>10. CASE k = 3
  <2>1. Executes(<<"sti">>)
    BY <1>3, <1>5, <1>10
  <2>2. /\ code' = Tail(code) /\ interruptFlag' = TRUE
        /\ UNCHANGED <<build, idt, idtLoaded, initialized, taken, ticks, mask, pic, open>>
    BY <2>1, DoSti
  <2>3. TypeOK' /\ Mirrors' /\ Programmed'
    BY <1>1, <2>2 DEF TypeOK, Mirrors, Programmed
  <2>4. Synced("master")' /\ Synced("slave")' /\ Quiet("master")' /\ Quiet("slave")'
    BY <1>1, <1>2, <1>10, <2>2 DEF Synced, Quiet
  <2> QED BY <1>1, <1>2, <1>10, <2>2, <2>3, <2>4
<1> QED BY <1>6, <1>8, <1>9, <1>10

\* A call of pic.h.
LEMMA CallStep ==
  ASSUME TypeOK, Mirrors, Calling, Step
  PROVE  TypeOK' /\ Mirrors' /\ Calling'
<1>1. /\ build = "calls" /\ Programmed /\ taken = NoVector /\ ~interruptFlag
      /\ Quiet("master") /\ Quiet("slave")
  BY DEF Calling
<1>2. PICK op \in {"mask", "unmask"}, irq \in 0..15, k \in 0..3 :
        /\ code = From(CallOf(op, irq), k)
        /\ k # 1 => Synced("master")
        /\ k \notin {1, 2} => Synced("slave")
  BY DEF Calling
<1>3. PICK p : p = CallOf(op, irq)
  OBVIOUS
<1>4. /\ p \in Seq(Instruction) /\ Len(p) = 3
      /\ p[1] = <<op, irq>>
      /\ p[2] = <<"write_mask", "master">> /\ p[3] = <<"write_mask", "slave">>
  BY <1>3, CallProgram
<1>5. k \in Nat /\ k <= Len(p) /\ code = From(p, k)
  BY <1>2, <1>3, <1>4
<1>6. k < Len(p) /\ Executes(p[k + 1]) /\ Tail(code) = From(p, k + 1)
  BY <1>4, <1>5, Fetched
<1>7. k \in 0..2 /\ k + 1 \in 0..3
  BY <1>4, <1>6
<1>8. SUFFICES /\ TypeOK' /\ Mirrors' /\ Programmed' /\ UNCHANGED cpuVars
               /\ Quiet("master")' /\ Quiet("slave")'
               /\ code' = Tail(code)
               /\ k + 1 # 1 => Synced("master")'
               /\ k + 1 \notin {1, 2} => Synced("slave")'
  <2>1. code' = From(CallOf(op, irq), k + 1)
    BY <1>3, <1>6, <1>8
  <2>2. build' = "calls" /\ taken' = NoVector /\ ~interruptFlag'
    BY <1>1, <1>8 DEF cpuVars
  <2> QED BY <1>7, <1>8, <2>1, <2>2 DEF Calling
<1>9. CASE k = 0
  <2>1. Executes(<<op, irq>>)
    BY <1>4, <1>6, <1>9
  <2>2. TypeOK' /\ Mirrors' /\ code' = Tail(code) /\ UNCHANGED <<cpuVars, pic>>
    BY <2>1, MirrorChanged
  <2>3. Programmed' /\ Quiet("master")' /\ Quiet("slave")'
    BY <1>1, <2>2 DEF Programmed, Quiet, cpuVars
  <2> QED BY <1>9, <2>2, <2>3
<1>10. CASE k \in {1, 2}
  <2>1. PICK chip \in Chip : chip = IF k = 1 THEN "master" ELSE "slave"
    BY DEF Chip
  <2>2. Executes(<<"write_mask", chip>>)
    <3>1. CASE k = 1
      <4>1. Executes(p[2]) /\ chip = "master"
        BY <1>6, <2>1, <3>1
      <4> QED BY <1>4, <4>1
    <3>2. CASE k = 2
      <4>1. Executes(p[3]) /\ chip = "slave"
        BY <1>6, <2>1, <3>2
      <4> QED BY <1>4, <4>1
    <3> QED BY <1>10, <3>1, <3>2
  <2>3. /\ TypeOK' /\ Mirrors' /\ Programmed'
        /\ code' = Tail(code) /\ UNCHANGED <<cpuVars, mask, open>>
        /\ Synced(chip)'
        /\ \A d \in Chip : Synced(d) => Synced(d)'
        /\ \A d \in Chip : Quiet(d) => Quiet(d)'
    BY <1>1, <2>2, MaskWritten
  <2>4. Quiet("master")' /\ Quiet("slave")'
    BY <1>1, <2>3 DEF Chip
  <2>5. Synced("master")' /\ (k = 2 => Synced("slave")')
    BY <1>2, <1>10, <2>1, <2>3 DEF Chip
  <2> QED BY <1>10, <2>3, <2>4, <2>5
<1> QED BY <1>7, <1>9, <1>10

\* The exception validation ends in the breakpoint's handler.
LEMMA TriggerStep ==
  ASSUME TypeOK, Mirrors, Triggering, Step
  PROVE  TypeOK' /\ Mirrors' /\ Trapped'
<1>1. /\ build = "exception" /\ Programmed /\ taken = NoVector /\ ~interruptFlag
      /\ code = << <<"int3">> >> /\ ticks = 0
      /\ \A chip \in Chip : Synced(chip) /\ Quiet(chip)
  BY DEF Triggering
<1>2. code # <<>> /\ Head(code) = <<"int3">>
  BY <1>1
<1>3. Executes(<<"int3">>)
  BY <1>2 DEF Executes
<1>4. /\ Enter(3)
      /\ UNCHANGED <<build, idt, idtLoaded, initialized, ticks, mask, pic, open>>
  BY <1>3, DoInt3
<1>5. idtLoaded /\ 3 \in idt
  BY <1>1 DEF Programmed
<1>6. taken' = 3 /\ code' = <<>> /\ interruptFlag' = FALSE
  BY <1>4, <1>5 DEF Enter, Stub, TimerVector
<1>7. TypeOK' /\ Mirrors'
  <2>1. taken' \in (0..255) \cup {NoVector, Reset} /\ interruptFlag' \in BOOLEAN
    <3>1. 3 \in 0..255
      OBVIOUS
    <3> QED BY <1>6, <3>1
  <2>2. TypeOK'
    BY <1>4, <2>1 DEF TypeOK
  <2>3. Mirrors'
    BY <1>4 DEF Mirrors
  <2> QED BY <2>2, <2>3
<1>8. Programmed' /\ \A chip \in Chip : Synced(chip)' /\ Quiet(chip)'
  BY <1>1, <1>4 DEF Programmed, Synced, Quiet
<1> QED BY <1>1, <1>4, <1>6, <1>7, <1>8 DEF Trapped

\* The timer's handler counts a tick and ends the interrupt.
LEMMA HandleStep ==
  ASSUME TypeOK, Mirrors, Handling, Step
  PROVE  TypeOK' /\ Mirrors' /\ Handling'
<1>1. /\ build = "timer" /\ Programmed /\ taken = TimerVector /\ ~interruptFlag
      /\ Synced("master") /\ Synced("slave") /\ Quiet("slave")
  BY DEF Handling
<1>2. PICK k \in 0..2 : /\ code = From(arch_timer_irq_handle, k)
                        /\ pic["master"].isr = IF k = 2 THEN {} ELSE {0}
                        /\ ticks = IF k = 0 THEN 0 ELSE 1
  BY DEF Handling
<1>3. PICK p : p = arch_timer_irq_handle
  OBVIOUS
<1>4. /\ p \in Seq(Instruction) /\ Len(p) = 2
      /\ p[1] = <<"timer_tick">> /\ p[2] = outb("master", "command", {5})
  BY <1>3, HandleProgram
<1>5. k \in Nat /\ k <= Len(p) /\ code = From(p, k)
  <2>1. k \in Nat /\ k <= Len(p)
    BY <1>4
  <2> QED BY <1>2, <1>3, <2>1
<1>6. k < Len(p) /\ Executes(p[k + 1]) /\ Tail(code) = From(p, k + 1)
  BY <1>4, <1>5, Fetched
<1>7. k \in 0..1 /\ k + 1 \in 0..2
  BY <1>4, <1>6
<1>8. CASE k = 0
  <2>1. Executes(<<"timer_tick">>)
    BY <1>4, <1>6, <1>8
  <2>2. /\ code' = Tail(code) /\ ticks' = ticks + 1
        /\ UNCHANGED <<build, interruptFlag, idt, idtLoaded, initialized, taken, mask,
                       pic, open>>
    BY <2>1, DoTimerTick
  <2>3. TypeOK' /\ Mirrors'
    BY <2>2 DEF TypeOK, Mirrors
  <2>4. Programmed' /\ Synced("master")' /\ Synced("slave")' /\ Quiet("slave")'
    BY <1>1, <2>2 DEF Programmed, Synced, Quiet
  <2>5. /\ 1 \in 0..2 /\ code' = From(arch_timer_irq_handle, 1)
        /\ pic'["master"].isr = {0} /\ ticks' = 1
    BY <1>2, <1>3, <1>6, <1>8, <2>2
  <2>6. build' = "timer" /\ taken' = TimerVector /\ ~interruptFlag'
    BY <1>1, <2>2
  <2> QED BY <2>3, <2>4, <2>5, <2>6 DEF Handling
<1>9. CASE k = 1
  <2>1. Executes(outb("master", "command", {5}))
    <3>1. Executes(p[2])
      BY <1>6, <1>9
    <3> QED BY <1>4, <3>1
  <2>2. /\ code' = Tail(code) /\ UNCHANGED <<cpuVars, mask, open>>
        /\ pic' = [pic EXCEPT !["master"] = CommandWrite(@, {5})]
    BY <2>1, DoOutb DEF Chip
  <2>3. /\ pic \in [Chip -> ControllerState] /\ pic["master"] \in ControllerState
        /\ pic["master"].isr = {0}
    BY <1>2, <1>9 DEF TypeOK, Chip
  <2>4. PICK new : new = CommandWrite(pic["master"], {5})
    OBVIOUS
  <2>5. /\ new \in ControllerState /\ new.isr = {}
        /\ new.init = pic["master"].init /\ new.base = pic["master"].base
        /\ new.imr = pic["master"].imr
    BY <2>3, <2>4, InterruptEnded
  <2>6. pic' = [pic EXCEPT !["master"] = new]
    BY <2>2, <2>3, <2>4
  <2>7. TypeOK' /\ Mirrors'
    BY <2>2, <2>5, <2>6, ChipTypes DEF Chip
  <2>8. pic'["master"] = new /\ pic'["slave"] = pic["slave"]
    BY <2>3, <2>5, <2>6, OneChip DEF Chip
  <2>9. Synced("master")' /\ Synced("slave")' /\ Quiet("slave")'
    BY <1>1, <2>2, <2>5, <2>8 DEF Synced, Quiet
  <2>10. Programmed'
    BY <1>1, <2>2, <2>5, <2>8 DEF Programmed, cpuVars
  <2>11. 2 \in 0..2 /\ code' = From(arch_timer_irq_handle, 2) /\ pic'["master"].isr = {}
    BY <1>3, <1>6, <1>9, <2>2, <2>5, <2>8
  <2>12. build' = "timer" /\ taken' = TimerVector /\ ~interruptFlag' /\ ticks' = 1
    BY <1>1, <1>2, <1>9, <2>2 DEF cpuVars
  <2> QED BY <2>7, <2>9, <2>10, <2>11, <2>12 DEF Handling
<1> QED BY <1>7, <1>8, <1>9

\* An instruction keeps the invariant.
LEMMA StepKeeps == PlaceInv /\ Step => PlaceInv'
<1> SUFFICES ASSUME PlaceInv, Step PROVE PlaceInv'
  OBVIOUS
<1>1. TypeOK /\ Mirrors
  BY DEF PlaceInv
<1>2. CASE Booting
  <2>1. PICK k \in 0..22 : code = From(kernel_main(build), k) /\ BootPlace(k)
    BY <1>2 DEF Booting
  <2>2. CASE k \in 0..21
    BY <1>1, <2>1, <2>2, BootGoesOn DEF PlaceInv
  <2>3. CASE k = 22
    BY <1>1, <2>1, <2>3, BootEnds DEF PlaceInv
  <2> QED BY <2>2, <2>3
<1>3. CASE Enabling
  BY <1>1, <1>3, EnableStep DEF PlaceInv
<1>4. CASE Triggering
  BY <1>1, <1>4, TriggerStep DEF PlaceInv
<1>5. CASE Calling
  BY <1>1, <1>5, CallStep DEF PlaceInv
<1>6. CASE Handling
  BY <1>1, <1>6, HandleStep DEF PlaceInv
<1>7. CASE Trapped
  BY <1>7 DEF Trapped, Step, Outb, WriteMask, MaskAll, Mask, Unmask, SetUpIdt,
              IfInitialized, Sti, Int3, TimerTick, Fetch
<1> QED BY <1>2, <1>3, <1>4, <1>5, <1>6, <1>7 DEF PlaceInv

-----------------------------------------------------------------------------
(***************************************************************************)
(* Devices, callers and the acceptance of an interrupt.                    *)
(***************************************************************************)

\* A place of the processor depends on no request of a device.
LEMMA RequestsDoNotMatter ==
  ASSUME PlaceInv, TypeOK', Mirrors', UNCHANGED <<cpuVars, code, mask, open>>,
         \A d \in Chip : /\ pic'[d].init = pic[d].init /\ pic'[d].base = pic[d].base
                         /\ pic'[d].imr = pic[d].imr /\ pic'[d].isr = pic[d].isr
  PROVE  PlaceInv'
<1>1. \A d \in Chip : (Synced(d)' <=> Synced(d)) /\ (Quiet(d)' <=> Quiet(d))
  BY DEF Synced, Quiet
<1>2. /\ Synced("master")' <=> Synced("master")
      /\ Synced("slave")' <=> Synced("slave")
      /\ Quiet("master")' <=> Quiet("master")
      /\ Quiet("slave")' <=> Quiet("slave")
  BY <1>1 DEF Chip
<1>3. /\ pic'["master"].init = pic["master"].init /\ pic'["master"].base = pic["master"].base
      /\ pic'["master"].isr = pic["master"].isr /\ pic'["slave"].init = pic["slave"].init
  BY DEF Chip
<1>4. Programmed' <=> Programmed
  BY <1>3 DEF Programmed, cpuVars
<1>5. Booting => Booting'
  <2>1. ASSUME NEW k \in 0..22, BootPlace(k) PROVE BootPlace(k)'
    BY <1>2, <1>3, <2>1 DEF BootPlace, cpuVars
  <2> QED BY <2>1 DEF Booting, cpuVars
<1>6. Enabling => Enabling'
  BY <1>2, <1>4 DEF Enabling, cpuVars
<1>7. Triggering => Triggering'
  BY <1>1, <1>4 DEF Triggering, cpuVars
<1>8. Calling => Calling'
  BY <1>2, <1>4 DEF Calling, cpuVars
<1>9. Handling => Handling'
  BY <1>2, <1>3, <1>4 DEF Handling, cpuVars
<1>10. Trapped => Trapped'
  BY <1>1, <1>4 DEF Trapped, cpuVars
<1> QED BY <1>5, <1>6, <1>7, <1>8, <1>9, <1>10 DEF PlaceInv

\* A device raises its line.
LEMMA RaiseKeeps ==
  ASSUME PlaceInv, NEW chip \in Chip, NEW l \in 0..7, Raise(chip, l)
  PROVE  PlaceInv'
<1>1. TypeOK /\ Mirrors /\ pic \in [Chip -> ControllerState]
  BY DEF PlaceInv, TypeOK
<1>2. PICK new : new = [pic[chip] EXCEPT !.irr = @ \cup {l}]
  OBVIOUS
<1>3. /\ pic' = [pic EXCEPT ![chip] = new]
      /\ UNCHANGED <<cpuVars, code, mask, open>>
  BY <1>1, <1>2 DEF Raise
<1>4. pic[chip] \in ControllerState
  BY <1>1
<1>5. new \in ControllerState
  BY <1>2, <1>4 DEF ControllerState, Byte
<1>6. /\ new.init = pic[chip].init /\ new.base = pic[chip].base
      /\ new.imr = pic[chip].imr /\ new.isr = pic[chip].isr
  BY <1>2, <1>4 DEF ControllerState
<1>7. TypeOK' /\ Mirrors'
  BY <1>1, <1>3, <1>5, ChipTypes
<1>8. pic'[chip] = new /\ \A d \in Chip : d # chip => pic'[d] = pic[d]
  BY <1>1, <1>3, <1>5, OneChip
<1>9. \A d \in Chip : /\ pic'[d].init = pic[d].init /\ pic'[d].base = pic[d].base
                      /\ pic'[d].imr = pic[d].imr /\ pic'[d].isr = pic[d].isr
  BY <1>6, <1>8
<1> QED BY <1>3, <1>7, <1>9, RequestsDoNotMatter

\* What holds when the program has come to its end, and when an interrupt
\* can be accepted.
LEMMA AtRest ==
  ASSUME PlaceInv, interruptFlag \/ code = <<>>
  PROVE  /\ Programmed
         /\ Synced("master") /\ Synced("slave")
         /\ code = <<>> => Quiet("master") /\ Quiet("slave")
         /\ build = "calls" => taken = NoVector /\ ~interruptFlag
         /\ interruptFlag => Enabling
         /\ RestsAsBuilt
<1>1. CASE Booting
  <2>1. PICK k \in 0..22 : code = From(kernel_main(build), k) /\ BootPlace(k)
    BY <1>1 DEF Booting
  <2>2. code = <<>> /\ ~interruptFlag
    BY <2>1 DEF BootPlace
  <2>3. PICK p : p = kernel_main(build)
    OBVIOUS
  <2>4. build \in Builds
    BY DEF PlaceInv, TypeOK
  <2>5. p \in Seq(Instruction) /\ Len(p) \in {22, 23}
    BY <2>3, <2>4, BootProgram
  <2>6. k \in Nat /\ \A n \in {22, 23} : k <= n
    OBVIOUS
  <2>7. k <= Len(p)
    BY <2>5, <2>6
  <2>8. k = Len(p)
    BY <2>1, <2>2, <2>3, <2>5, <2>6, <2>7, FromEnd
  <2>9. k = 22
    <3>1. \A n \in {22, 23} : k = n => k = 22
      OBVIOUS
    <3> QED BY <2>5, <2>8, <3>1
  <2>10. BootPlace(22)
    BY <2>1, <2>9
  <2>11. Len(p) = IF build \in {"timer", "exception"} THEN 23 ELSE 22
    BY <2>3, <2>4, BootProgram
  <2>12. build \notin {"timer", "exception"}
    <3>1. Len(p) = 22
      BY <2>8, <2>9
    <3>2. build \in {"timer", "exception"} => Len(p) = 23
      BY <2>11
    <3> QED BY <3>1, <3>2
  <2>13. /\ Programmed /\ taken = NoVector /\ ticks = 0
         /\ Synced("master") /\ Synced("slave") /\ Quiet("master") /\ Quiet("slave")
    BY <2>10, BootDone
  <2>14. RestsAsBuilt
    BY <2>12, <2>13 DEF RestsAsBuilt, EndedAsBuilt
  <2> QED BY <2>2, <2>13, <2>14
<1>2. CASE Enabling
  <2>1. PICK k \in 0..4 : /\ code = From(EnableTimer, k)
                          /\ interruptFlag <=> k = 4
                          /\ k # 1 => Synced("master")
                          /\ Synced("slave")
    BY <1>2 DEF Enabling
  <2>2. k = 4
    <3>1. EnableTimer \in Seq(Instruction) /\ Len(EnableTimer) = 4
      BY EnableProgram
    <3>2. k \in Nat /\ k <= Len(EnableTimer)
      BY <3>1
    <3>3. code = <<>> => k = Len(EnableTimer)
      BY <2>1, <3>1, <3>2, FromEnd
    <3> QED BY <2>1, <3>1, <3>3
  <2>3. interruptFlag /\ RestsAsBuilt
    BY <2>1, <2>2 DEF RestsAsBuilt
  <2> QED BY <1>2, <2>1, <2>2, <2>3 DEF Enabling
<1>3. CASE Triggering
  <2>1. ~interruptFlag /\ code = << <<"int3">> >>
    BY <1>3 DEF Triggering
  <2> QED BY <2>1
<1>4. CASE Calling
  <2>1. PICK op \in {"mask", "unmask"}, irq \in 0..15, k \in 0..3 :
          /\ code = From(CallOf(op, irq), k)
          /\ k # 1 => Synced("master")
          /\ k \notin {1, 2} => Synced("slave")
    BY <1>4 DEF Calling
  <2>2. PICK p : p = CallOf(op, irq)
    OBVIOUS
  <2>3. p \in Seq(Instruction) /\ Len(p) = 3
    BY <2>2, CallProgram
  <2>4. code = From(p, k) /\ code = <<>>
    BY <1>4, <2>1, <2>2 DEF Calling
  <2>5. k \in Nat /\ k <= Len(p)
    BY <2>3
  <2>6. k = Len(p)
    BY <2>3, <2>4, <2>5, FromEnd
  <2>7. k = 3
    BY <2>3, <2>6
  <2>8. RestsAsBuilt
    BY <1>4 DEF Calling, RestsAsBuilt
  <2> QED BY <1>4, <2>1, <2>7, <2>8 DEF Calling
<1>5. CASE Handling
  <2>1. PICK k \in 0..2 : /\ code = From(arch_timer_irq_handle, k)
                          /\ pic["master"].isr = IF k = 2 THEN {} ELSE {0}
                          /\ ticks = IF k = 0 THEN 0 ELSE 1
    BY <1>5 DEF Handling
  <2>2. code = <<>>
    BY <1>5 DEF Handling
  <2>3. arch_timer_irq_handle \in Seq(Instruction) /\ Len(arch_timer_irq_handle) = 2
    BY HandleProgram
  <2>4. k \in Nat /\ k <= Len(arch_timer_irq_handle)
    BY <2>3
  <2>5. k = Len(arch_timer_irq_handle)
    BY <2>1, <2>2, <2>3, <2>4, FromEnd
  <2>6. Quiet("master")
    BY <2>1, <2>3, <2>5 DEF Quiet
  <2>7. build = "timer" /\ taken = TimerVector /\ ticks = 1
    BY <1>5, <2>1, <2>3, <2>5 DEF Handling
  <2>8. RestsAsBuilt
    BY <2>7 DEF RestsAsBuilt, EndedAsBuilt
  <2> QED BY <1>5, <2>6, <2>8 DEF Handling
<1>6. CASE Trapped
  <2>1. build = "exception" /\ taken = 3 /\ ticks = 0
    BY <1>6 DEF Trapped
  <2>2. RestsAsBuilt
    BY <2>1 DEF RestsAsBuilt, EndedAsBuilt
  <2> QED BY <1>6, <2>1, <2>2 DEF Trapped, Chip
<1> QED BY <1>1, <1>2, <1>3, <1>4, <1>5, <1>6 DEF PlaceInv

\* A caller of pic.h makes its next call.
LEMMA CallKeeps ==
  ASSUME PlaceInv, NEW irq \in Nat, Call(irq)
  PROVE  PlaceInv'
<1>1. /\ build = "calls" /\ code = <<>>
      /\ code' \in {arch_pic_mask_irq(irq), arch_pic_unmask_irq(irq)}
      /\ UNCHANGED <<cpuVars, mask, pic, open>>
  BY DEF Call
<1>2. TypeOK' /\ Mirrors'
  BY <1>1 DEF PlaceInv, TypeOK, Mirrors, cpuVars
<1>3. CASE irq \in 0..15
  <2>1. PICK op \in {"mask", "unmask"} : code' = CallOf(op, irq)
    BY <1>1, <1>3, CallsOfPic
  <2>2. PICK p : p = CallOf(op, irq)
    OBVIOUS
  <2>3. p \in Seq(Instruction)
    BY <1>3, <2>2, CallProgram
  <2>4. code' = From(CallOf(op, irq), 0)
    BY <2>1, <2>2, <2>3, FromStart
  <2>5. /\ Programmed /\ taken = NoVector /\ ~interruptFlag
        /\ Synced("master") /\ Synced("slave") /\ Quiet("master") /\ Quiet("slave")
    BY <1>1, AtRest
  <2>6. /\ Programmed' /\ build' = "calls" /\ taken' = NoVector /\ ~interruptFlag'
        /\ Synced("master")' /\ Synced("slave")' /\ Quiet("master")' /\ Quiet("slave")'
    BY <1>1, <2>5 DEF Programmed, Synced, Quiet, cpuVars
  <2>7. Calling'
    BY <1>3, <2>4, <2>6 DEF Calling
  <2> QED BY <1>2, <2>7 DEF PlaceInv
<1>4. CASE irq \notin 0..15
  <2>1. code' = code
    BY <1>1, <1>4, CallsOfPic
  <2>2. /\ UNCHANGED <<cpuVars, code, mask, open>>
        /\ \A d \in Chip : /\ pic'[d].init = pic[d].init /\ pic'[d].base = pic[d].base
                           /\ pic'[d].imr = pic[d].imr /\ pic'[d].isr = pic[d].isr
    BY <1>1, <2>1
  <2> QED BY <1>2, <2>2, RequestsDoNotMatter
<1> QED BY <1>3, <1>4

\* While interrupts are enabled the timer's line is the only one that can
\* be chosen.
LEMMA OnlyLineZero ==
  ASSUME PlaceInv, Enabling, interruptFlag
  PROVE  SlaveRequests = {} /\ MasterRequests \subseteq {0}
<1>1. PICK k \in 0..4 : /\ interruptFlag <=> k = 4
                        /\ open = IF k = 0 THEN {} ELSE {0}
  BY DEF Enabling
<1>2. open = {0}
  BY <1>1
<1>3. Synced("master") /\ Synced("slave")
  BY AtRest
<1>4. \A l \in 0..7 : (l \in mask["master"] <=> l # 0) /\ l \in mask["slave"]
  <2>1. ASSUME NEW l \in 0..7 PROVE l + 8 \notin open
    BY <1>2
  <2> QED BY <1>2, <2>1 DEF PlaceInv, Mirrors
<1>5. \A l \in 0..7 : (l \in pic["master"].imr <=> l # 0) /\ l \in pic["slave"].imr
  BY <1>3, <1>4 DEF Synced
<1>6. pic["master"].irr \subseteq 0..7 /\ pic["slave"].irr \subseteq 0..7
  BY DEF PlaceInv, TypeOK, ControllerState, Byte, Chip
<1>7. SlaveRequests = {}
  BY <1>5, <1>6 DEF SlaveRequests, Eligible
<1>8. MasterRequests \subseteq pic["master"].irr \ pic["master"].imr
  BY <1>7 DEF MasterRequests, Eligible
<1> QED BY <1>5, <1>6, <1>7, <1>8

\* The timer's interrupt is accepted.
LEMMA AcceptKeeps ==
  ASSUME PlaceInv, Accept
  PROVE  PlaceInv'
<1>1. /\ interruptFlag /\ MasterRequests # {}
      /\ UNCHANGED <<build, idt, idtLoaded, initialized, ticks, mask, open>>
  BY DEF Accept
<1>2. /\ Programmed /\ Enabling /\ Synced("master") /\ Synced("slave")
  BY <1>1, AtRest
<1>3. MasterRequests = {0}
  BY <1>1, <1>2, OnlyLineZero
<1>4. Min(MasterRequests) = 0
  BY <1>3 DEF Min
<1>5. pic' = [pic EXCEPT !.master = Acknowledge(@, 0)] /\ Enter(pic.master.base + 0)
  BY <1>4 DEF Accept
<1>6. pic["master"].base + 0 = 32
  BY <1>2 DEF Programmed
<1>7. Enter(32)
  BY <1>5, <1>6
<1>8. idtLoaded /\ 32 \in idt
  BY <1>2 DEF Programmed, TimerVector
<1>9. taken' = 32 /\ code' = arch_timer_irq_handle /\ interruptFlag' = FALSE
  BY <1>7, <1>8 DEF Enter, Stub, TimerVector
<1>10. PICK c : c = pic["master"]
  OBVIOUS
<1>11. /\ pic \in [Chip -> ControllerState] /\ c \in ControllerState /\ c.isr = {}
       /\ "master" \in Chip /\ "slave" \in Chip
  BY <1>2, <1>10 DEF PlaceInv, TypeOK, Enabling, Quiet, Chip
<1>12. PICK new : new = [c EXCEPT !.irr = @ \ {0}, !.isr = @ \cup {0}]
  OBVIOUS
<1>13. new \in ControllerState
  <2>1. c.irr \in Byte /\ c.isr \in Byte
    BY <1>11 DEF ControllerState
  <2>2. c.irr \ {0} \in Byte /\ c.isr \cup {0} \in Byte
    BY <2>1 DEF Byte
  <2> QED BY <1>11, <1>12, <2>2 DEF ControllerState
<1>14. new.isr = {0} /\ new.init = c.init /\ new.base = c.base /\ new.imr = c.imr
  BY <1>11, <1>12 DEF ControllerState
<1>15. pic' = [pic EXCEPT !["master"] = new]
  BY <1>5, <1>10, <1>11, <1>12 DEF Acknowledge
<1>16. /\ pic' \in [Chip -> ControllerState]
       /\ pic'["master"] = new /\ pic'["slave"] = pic["slave"]
  BY <1>11, <1>13, <1>15, OneChip DEF Chip
<1>17. TypeOK' /\ Mirrors'
  <2>1. taken' \in (0..255) \cup {NoVector, Reset} /\ interruptFlag' \in BOOLEAN
    <3>1. 32 \in 0..255
      OBVIOUS
    <3> QED BY <1>9, <3>1
  <2>2. TypeOK'
    BY <1>1, <1>16, <2>1 DEF PlaceInv, TypeOK
  <2>3. Mirrors'
    BY <1>1 DEF PlaceInv, Mirrors
  <2> QED BY <2>2, <2>3
<1>18. Synced("master")' /\ Synced("slave")' /\ Quiet("slave")'
  BY <1>1, <1>2, <1>10, <1>14, <1>16 DEF Synced, Quiet, Enabling
<1>19. Programmed'
  BY <1>1, <1>2, <1>10, <1>14, <1>16 DEF Programmed
<1>20. /\ 0 \in 0..2 /\ code' = From(arch_timer_irq_handle, 0)
       /\ pic'["master"].isr = {0}
  BY <1>9, <1>14, <1>16, HandleProgram, FromStart
<1>21. build' = "timer" /\ taken' = TimerVector /\ ~interruptFlag' /\ ticks' = 0
  BY <1>1, <1>2, <1>9 DEF Enabling, TimerVector
<1>22. Handling'
  BY <1>18, <1>19, <1>20, <1>21 DEF Handling
<1> QED BY <1>17, <1>22 DEF PlaceInv

\* Whatever lines the firmware has left open.
LEMMA PlaceInit == Init => PlaceInv
<1> SUFFICES ASSUME Init PROVE PlaceInv
  OBVIOUS
<1>1. PICK openMaster, openSlave :
        pic = [master |-> [init |-> 0, base |-> 8, imr |-> (0..7) \ (openMaster \cup {2}),
                           irr |-> {}, isr |-> {}],
               slave  |-> [init |-> 0, base |-> 112, imr |-> (0..7) \ openSlave,
                           irr |-> {}, isr |-> {}]]
  BY DEF Init
<1>2. /\ pic["master"] = [init |-> 0, base |-> 8, imr |-> (0..7) \ (openMaster \cup {2}),
                          irr |-> {}, isr |-> {}]
      /\ pic["slave"] = [init |-> 0, base |-> 112, imr |-> (0..7) \ openSlave,
                         irr |-> {}, isr |-> {}]
  BY <1>1
<1>3. pic["master"] \in ControllerState /\ pic["slave"] \in ControllerState
  BY <1>2 DEF ControllerState, Byte
<1>4. pic \in [Chip -> ControllerState]
  BY <1>1, <1>3 DEF Chip
<1>5. mask = [chip \in Chip |-> 0..7] /\ mask \in [Chip -> Byte] /\ open = {}
  BY DEF Init, Byte
<1>6. TypeOK
  <2>1. taken \in (0..255) \cup {NoVector, Reset} /\ ticks \in Nat
    BY DEF Init
  <2>2. interruptFlag \in BOOLEAN /\ idtLoaded \in BOOLEAN /\ initialized \in BOOLEAN
    BY DEF Init
  <2>3. build \in Builds /\ idt \subseteq 0..255 /\ open \subseteq 0..15
    BY DEF Init
  <2> QED BY <1>4, <1>5, <2>1, <2>2, <2>3 DEF TypeOK
<1>7. Mirrors
  BY <1>5 DEF Mirrors, Chip
<1>8. PICK p : p = kernel_main(build)
  OBVIOUS
<1>9. p \in Seq(Instruction)
  <2>1. build \in Builds
    BY DEF Init
  <2> QED BY <1>8, <2>1, BootProgram
<1>10. code = From(kernel_main(build), 0)
  BY <1>8, <1>9, FromStart DEF Init
<1>11. BootPlace(0)
  BY <1>2, <1>5 DEF Init, BootPlace, AwaitedWord, Quiet
<1> QED BY <1>6, <1>7, <1>10, <1>11 DEF PlaceInv, Booting

\* A step keeps the invariant.
LEMMA PlaceNext == PlaceInv /\ [Next]_vars => PlaceInv'
<1> SUFFICES ASSUME PlaceInv, [Next]_vars PROVE PlaceInv'
  OBVIOUS
<1>1. CASE Step
  BY <1>1, StepKeeps
<1>2. CASE Accept
  BY <1>2, AcceptKeeps
<1>3. ASSUME NEW l \in MasterLines, Raise("master", l) PROVE PlaceInv'
  BY <1>3, RaiseKeeps, LineAssumption DEF Chip
<1>4. ASSUME NEW l \in SlaveLines, Raise("slave", l) PROVE PlaceInv'
  BY <1>4, RaiseKeeps, LineAssumption DEF Chip
<1>5. ASSUME NEW irq \in CallIrqs, Call(irq) PROVE PlaceInv'
  BY <1>5, CallKeeps, LineAssumption
<1>6. CASE UNCHANGED vars
  <2>1. UNCHANGED <<cpuVars, code, mask, open>> /\ pic' = pic
    BY <1>6 DEF vars
  <2>2. TypeOK' /\ Mirrors'
    BY <2>1 DEF PlaceInv, TypeOK, Mirrors, cpuVars
  <2> QED BY <2>1, <2>2, RequestsDoNotMatter
<1> QED BY <1>1, <1>2, <1>3, <1>4, <1>5, <1>6 DEF Next

\* The invariant holds in every state, whatever lines the devices raise, at
\* whatever instruction, and whatever IRQ numbers the callers of pic.h name.
THEOREM AlwaysInPlace == Spec => []PlaceInv
BY PlaceInit, PlaceNext, PTL DEF Spec

\* The registers of both controllers, the mirrors of pic.c and the IDT keep
\* their types: no IRQ number that a caller of arch_pic_mask_irq() or
\* arch_pic_unmask_irq() names reaches a bit outside a byte.
THEOREM InterruptTyping == Spec => []TypeOK
<1>1. PlaceInv => TypeOK
  BY DEF PlaceInv
<1> QED BY <1>1, AlwaysInPlace, PTL

\* The only external interrupt that is ever accepted is the timer's, at
\* vector 32, through its gate, and in the build that asks for it; the only
\* exception is the breakpoint of the exception build.
THEOREM TimerOnly == Spec => []OnlyTheTimerArrives
<1>1. PlaceInv => OnlyTheTimerArrives
  BY DEF PlaceInv, OnlyTheTimerArrives, Booting, BootPlace, Enabling, Triggering, Calling,
         Handling, Trapped
<1> QED BY <1>1, AlwaysInPlace, PTL

\* When interrupts are enabled, and when a program has come to its end, each
\* controller is initialised and masks exactly the lines that were not
\* unmasked last.
THEOREM MasksFollow == Spec => []MasksAsAsked
<1>1. ASSUME PlaceInv, interruptFlag \/ code = <<>>
      PROVE  /\ \A chip \in Chip : pic[chip].init = 0
             /\ \A l \in 0..7 : /\ l \in open <=> l \notin pic.master.imr
                                /\ l + 8 \in open <=> l \notin pic.slave.imr
  <2>1. Programmed /\ Synced("master") /\ Synced("slave")
    BY <1>1, AtRest
  <2>2. \A chip \in Chip : pic[chip].init = 0
    BY <2>1 DEF Programmed, Chip
  <2>3. pic.master.imr = mask["master"] /\ pic.slave.imr = mask["slave"]
    BY <2>1 DEF Synced
  <2>4. Mirrors
    BY <1>1 DEF PlaceInv
  <2> QED BY <2>2, <2>3, <2>4 DEF Mirrors
<1>2. PlaceInv => MasksAsAsked
  BY <1>1 DEF MasksAsAsked
<1> QED BY <1>2, AlwaysInPlace, PTL

\* No interrupt is in service when a program has come to its end: the timer's
\* handler ends the one it was entered for, and nothing else is accepted.
THEOREM NoneInService == Spec => []NothingInService
<1>1. PlaceInv => NothingInService
  <2> SUFFICES ASSUME PlaceInv, code = <<>> PROVE \A chip \in Chip : pic[chip].isr = {}
    BY DEF NothingInService
  <2>1. Quiet("master") /\ Quiet("slave")
    BY AtRest
  <2> QED BY <2>1 DEF Quiet, Chip
<1> QED BY <1>1, AlwaysInPlace, PTL

\* No build comes to rest but where it is meant to, and the timer build not
\* without exactly one tick.  With the progress that EndsAsBuilt adds under
\* fairness, each build ends as it should.
THEOREM RestingPlaces == Spec => []RestsAsBuilt
<1>1. PlaceInv => RestsAsBuilt
  <2>1. CASE interruptFlag \/ code # <<>>
    BY <2>1 DEF RestsAsBuilt
  <2>2. CASE code = <<>>
    BY <2>2, AtRest
  <2> QED BY <2>1, <2>2
<1> QED BY <1>1, AlwaysInPlace, PTL
=============================================================================
