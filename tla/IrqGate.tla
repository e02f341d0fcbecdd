------------------------------ MODULE IrqGate ------------------------------
(***************************************************************************)
(* disable_irq and enable_irq (usb_irq.c), instruction by instruction: the *)
(* gate behind which the main loop and usb_isr share the control pipe.     *)
(* Both call the two functions in any order and number: the gate does not  *)
(* count, so a handler that is called with the gate closed opens it        *)
(* (LowerIRQL), and its caller's enable_irq then finds it open.            *)
(*                                                                         *)
(* frame[1] is the main program, frame[2] the interrupt handler that       *)
(* interrupted it, frame[3] one that interrupted that, ...; frame[depth]   *)
(* runs.  Definitions marked "Mistaken" are plausible errors in those that *)
(* follow them.                                                            *)
(***************************************************************************)
EXTENDS Naturals

CONSTANT MaxDepth      \* a bound on nested interrupts

ASSUME DepthAssumption == MaxDepth \in Nat \ {0}

VARIABLES
  pie,            \* the interrupt enable bit of the processor
  INT_Enabled,
  status,         \* the bit in the saved status word
  depth, frame

vars == <<pie, INT_Enabled, status, depth, frame>>

Places == {"idle", "dTest", "dRead", "dWrite", "dSave", "dClear",
           "eTest", "eLoad", "eWrite", "eSet"}

\* Where a frame is, the local variable context of the inlined alt_irq_ functions, the bit the
\* return from the interrupt restores, and whether the frame counts on the gate being closed.
Frame == [pc: Places, context: BOOLEAN, ret: BOOLEAN, inside: BOOLEAN]

Unused == [pc |-> "idle", context |-> FALSE, ret |-> FALSE, inside |-> FALSE]

Top == frame[depth]

Init ==
  /\ pie = TRUE /\ INT_Enabled = TRUE /\ status = FALSE
  /\ depth = 1
  /\ frame = [i \in 1..MaxDepth |-> Unused]

At(l)   == Top.pc = l
Goto(l) == frame' = [frame EXCEPT ![depth].pc = l]

-----------------------------------------------------------------------------
(* disable_irq *)

CallDisable ==
  /\ At("idle") /\ Goto("dTest")
  /\ UNCHANGED <<pie, INT_Enabled, status, depth>>

\* Mistaken: the closed gate is closed again.
DisableTestDropped ==
  /\ At("dTest") /\ Goto("dRead")
  /\ UNCHANGED <<pie, INT_Enabled, status, depth>>

DisableTest ==
  /\ At("dTest")
  /\ IF INT_Enabled THEN Goto("dRead")
     ELSE frame' = [frame EXCEPT ![depth].pc = "idle", ![depth].inside = TRUE]
  /\ UNCHANGED <<pie, INT_Enabled, status, depth>>

DisableRead ==
  /\ At("dRead")
  /\ frame' = [frame EXCEPT ![depth].pc = "dWrite", ![depth].context = pie]
  /\ UNCHANGED <<pie, INT_Enabled, status, depth>>

DisableWrite ==
  /\ At("dWrite") /\ Goto("dSave")
  /\ pie' = FALSE
  /\ UNCHANGED <<INT_Enabled, status, depth>>

DisableSave ==
  /\ At("dSave") /\ Goto("dClear")
  /\ status' = Top.context
  /\ UNCHANGED <<pie, INT_Enabled, depth>>

DisableClear ==
  /\ At("dClear")
  /\ INT_Enabled' = FALSE
  /\ frame' = [frame EXCEPT ![depth].pc = "idle", ![depth].inside = TRUE]
  /\ UNCHANGED <<pie, status, depth>>

-----------------------------------------------------------------------------
(* enable_irq *)

CallEnable ==
  /\ At("idle")
  /\ frame' = [frame EXCEPT ![depth].pc = "eTest", ![depth].inside = FALSE]
  /\ UNCHANGED <<pie, INT_Enabled, status, depth>>

EnableTest ==
  /\ At("eTest") /\ Goto(IF INT_Enabled THEN "idle" ELSE "eLoad")
  /\ UNCHANGED <<pie, INT_Enabled, status, depth>>

EnableLoad ==
  /\ At("eLoad")
  /\ frame' = [frame EXCEPT ![depth].pc = "eWrite", ![depth].context = status]
  /\ UNCHANGED <<pie, INT_Enabled, status, depth>>

EnableWrite ==
  /\ At("eWrite") /\ Goto("eSet")
  /\ pie' = Top.context
  /\ UNCHANGED <<INT_Enabled, status, depth>>

\* Mistaken: the flag is forgotten.
EnableSetForgotten ==
  /\ At("eSet") /\ Goto("idle")
  /\ UNCHANGED <<pie, INT_Enabled, status, depth>>

\* Between EnableWrite and EnableSet an interrupt finds the gate closed and the processor open.
EnableSet ==
  /\ At("eSet") /\ Goto("idle")
  /\ INT_Enabled' = TRUE
  /\ UNCHANGED <<pie, status, depth>>

-----------------------------------------------------------------------------
(* The processor: usb_isr begins with disable_irq and ends with enable_irq. *)

Interrupt ==
  /\ pie /\ depth < MaxDepth
  /\ pie' = FALSE
  /\ depth' = depth + 1
  /\ frame' = [frame EXCEPT ![depth + 1] = [pc |-> "dTest", context |-> FALSE, ret |-> pie,
                                            inside |-> FALSE]]
  /\ UNCHANGED <<INT_Enabled, status>>

Return ==
  /\ depth > 1 /\ At("idle") /\ ~Top.inside
  /\ pie' = Top.ret
  /\ depth' = depth - 1
  /\ frame' = [frame EXCEPT ![depth] = Unused]
  /\ UNCHANGED <<INT_Enabled, status>>

Next ==
  \/ CallDisable \/ DisableTest \/ DisableRead \/ DisableWrite \/ DisableSave \/ DisableClear
  \/ CallEnable \/ EnableTest \/ EnableLoad \/ EnableWrite \/ EnableSet
  \/ Interrupt \/ Return

Spec == Init /\ [][Next]_vars

-----------------------------------------------------------------------------

TypeOK ==
  /\ pie \in BOOLEAN /\ INT_Enabled \in BOOLEAN /\ status \in BOOLEAN
  /\ depth \in 1..MaxDepth
  /\ frame \in [1..MaxDepth -> Frame]

\* Nothing interrupts a frame that counts on the closed gate, neither the main loop in a
\* critical section nor a handler in its body, although a handler may interrupt another one.
Exclusion == \A i \in 1..depth : frame[i].inside => i = depth /\ ~pie

\* The main loop is never left with interrupts off, nor with a flag that would make its next
\* disable_irq do nothing, whatever handlers saved over status meanwhile.
NeverLockedOut == depth = 1 /\ Top.pc = "idle" /\ ~Top.inside => pie /\ INT_Enabled
=============================================================================
