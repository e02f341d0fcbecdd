--------------------------- MODULE IrqGateProofs ---------------------------
(***************************************************************************)
(* The gate excludes, and never locks the main loop out, for any number of *)
(* nested handlers.                                                        *)
(*                                                                         *)
(* Neither property is inductive: they hold because a frame is interrupted *)
(* only where it does not count on the gate (Interrupted), because every   *)
(* handler returns with INT_Enabled set (Flag), and because what the main  *)
(* program saved survives the handlers that save over it (MainSaved).      *)
(***************************************************************************)
EXTENDS IrqGate, TLAPS

Interruptible == {"idle", "dTest", "dRead", "dWrite", "eTest", "eSet"}

\* Every frame below the running one waits where the processor bit was on, and gets it back.
Interrupted ==
  /\ \A i \in 1..depth - 1 :
       /\ frame[i].pc \in Interruptible /\ ~frame[i].inside
       /\ frame[i].pc = "dWrite" => frame[i].context
  /\ \A i \in 2..depth : frame[i].ret

\* What the flag says of the processor bit and of the place of the running frame.
Flag ==
  /\ ~INT_Enabled /\ Top.pc # "eSet" => ~pie
  /\ Top.inside => ~INT_Enabled /\ Top.pc \in {"idle", "dTest"}
  /\ Top.pc = "idle" /\ ~Top.inside => INT_Enabled
  /\ Top.pc \in {"dRead", "dWrite", "dSave", "dClear"} => INT_Enabled
  /\ Top.pc \in {"dSave", "dClear"} => ~pie
  /\ Top.pc \in {"eLoad", "eWrite"} => ~INT_Enabled
  /\ Top.pc = "dWrite" => Top.context = pie

\* While only the main program runs, the bit it will restore is on.
MainSaved ==
  depth = 1 =>
    /\ Top.pc \in {"idle", "dTest", "eTest"} /\ INT_Enabled => pie
    /\ Top.pc \in {"dRead", "dWrite", "eSet"} => pie
    /\ Top.pc \in {"dSave", "eWrite"} => Top.context
    /\ Top.pc = "dClear" => status
    /\ Top.pc \in {"idle", "dTest", "eTest", "eLoad"} /\ ~INT_Enabled => status

IInv == TypeOK /\ Interrupted /\ Flag /\ MainSaved

USE DEF Interruptible, Places, Frame

LEMMA InitIInv == Init => IInv
  <1> SUFFICES ASSUME Init PROVE IInv
    OBVIOUS
  <1>1. depth = 1 /\ depth \in 1..MaxDepth /\ Top = Unused
    BY DepthAssumption DEF Init, Top
  <1>2. TypeOK
    <2>1. Unused \in Frame
      BY DEF Unused
    <2>2. frame \in [1..MaxDepth -> Frame]
      BY <2>1 DEF Init
    <2> QED BY <1>1, <2>2 DEF Init, TypeOK
  <1>3. Interrupted
    BY <1>1 DEF Interrupted
  <1>4. Flag /\ MainSaved
    BY <1>1 DEF Init, Flag, MainSaved, Unused
  <1> QED BY <1>2, <1>3, <1>4 DEF IInv

\* A step of the running frame leaves the frames below it alone.
LEMMA Local ==
  ASSUME TypeOK, Interrupted
  PROVE  \A f \in Frame :
           /\ f.ret = Top.ret
           /\ depth' = depth /\ frame' = [frame EXCEPT ![depth] = f]
           => Interrupted' /\ frame' \in [1..MaxDepth -> Frame] /\ Top' = f
  <1> SUFFICES ASSUME NEW f \in Frame, f.ret = Top.ret,
                      depth' = depth, frame' = [frame EXCEPT ![depth] = f]
               PROVE  Interrupted' /\ frame' \in [1..MaxDepth -> Frame] /\ Top' = f
    OBVIOUS
  <1>1. depth \in 1..MaxDepth /\ frame \in [1..MaxDepth -> Frame] /\ MaxDepth \in Nat
    BY DepthAssumption DEF TypeOK
  <1>2. frame' \in [1..MaxDepth -> Frame] /\ frame'[depth] = f
    BY <1>1
  <1>3. \A i \in 1..MaxDepth : i # depth => frame'[i] = frame[i]
    BY <1>1
  <1>4. Interrupted'
    BY <1>1, <1>2, <1>3 DEF Interrupted, Top
  <1> QED BY <1>2, <1>4 DEF Top

\* The place the running frame goes to keeps the rest of the frame.
LEMMA Gone ==
  ASSUME TypeOK, Interrupted, NEW l \in Places, Goto(l), depth' = depth
  PROVE  /\ Interrupted' /\ frame' \in [1..MaxDepth -> Frame]
         /\ Top' = [Top EXCEPT !.pc = l]
  <1>1. Top \in Frame
    BY DEF TypeOK, Top
  <1>2. [Top EXCEPT !.pc = l] \in Frame /\ [Top EXCEPT !.pc = l].ret = Top.ret
    BY <1>1
  <1>3. frame' = [frame EXCEPT ![depth] = [Top EXCEPT !.pc = l]]
    BY DEF Goto, Top
  <1> QED BY <1>2, <1>3, Local

LEMMA StepDisable ==
  ASSUME IInv,
         CallDisable \/ DisableTest \/ DisableRead \/ DisableWrite \/ DisableSave \/ DisableClear
  PROVE  IInv'
  <1>1. Top \in Frame
    BY DEF IInv, TypeOK, Top
  <1>2. TypeOK /\ Interrupted
    BY DEF IInv
  <1> USE <1>1, <1>2 DEF IInv, TypeOK, Flag, MainSaved, At
  <1>3. CASE CallDisable
    <2>1. Goto("dTest") /\ depth' = depth
      BY <1>3 DEF CallDisable
    <2>2. Interrupted' /\ frame' \in [1..MaxDepth -> Frame] /\ Top' = [Top EXCEPT !.pc = "dTest"]
      BY <2>1, Gone
    <2> QED BY <1>3, <2>2 DEF CallDisable
  <1>4. CASE DisableTest
    <2>1. CASE INT_Enabled
      <3>1. Goto("dRead") /\ depth' = depth
        BY <1>4, <2>1 DEF DisableTest
      <3>2. Interrupted' /\ frame' \in [1..MaxDepth -> Frame] /\ Top' = [Top EXCEPT !.pc = "dRead"]
        BY <3>1, Gone
      <3> QED BY <1>4, <2>1, <3>2 DEF DisableTest
    <2>2. CASE ~INT_Enabled
      <3> DEFINE f == [Top EXCEPT !.pc = "idle", !.inside = TRUE]
      <3>1. f \in Frame /\ f.ret = Top.ret
        OBVIOUS
      <3>2. depth' = depth /\ frame' = [frame EXCEPT ![depth] = f]
        BY <1>4, <2>2 DEF DisableTest, Top
      <3>3. Interrupted' /\ frame' \in [1..MaxDepth -> Frame] /\ Top' = f
        BY <3>1, <3>2, Local
      <3> QED BY <1>4, <2>2, <3>3 DEF DisableTest
    <2> QED BY <2>1, <2>2
  <1>5. CASE DisableRead
    <2> DEFINE f == [Top EXCEPT !.pc = "dWrite", !.context = pie]
    <2>1. f \in Frame /\ f.ret = Top.ret
      OBVIOUS
    <2>2. depth' = depth /\ frame' = [frame EXCEPT ![depth] = f]
      BY <1>5 DEF DisableRead, Top
    <2>3. Interrupted' /\ frame' \in [1..MaxDepth -> Frame] /\ Top' = f
      BY <2>1, <2>2, Local
    <2> QED BY <1>5, <2>3 DEF DisableRead
  <1>6. CASE DisableWrite
    <2>1. Goto("dSave") /\ depth' = depth
      BY <1>6 DEF DisableWrite
    <2>2. Interrupted' /\ frame' \in [1..MaxDepth -> Frame] /\ Top' = [Top EXCEPT !.pc = "dSave"]
      BY <2>1, Gone
    <2> QED BY <1>6, <2>2 DEF DisableWrite
  <1>7. CASE DisableSave
    <2>1. Goto("dClear") /\ depth' = depth
      BY <1>7 DEF DisableSave
    <2>2. Interrupted' /\ frame' \in [1..MaxDepth -> Frame] /\ Top' = [Top EXCEPT !.pc = "dClear"]
      BY <2>1, Gone
    <2> QED BY <1>7, <2>2 DEF DisableSave
  <1>8. CASE DisableClear
    <2> DEFINE f == [Top EXCEPT !.pc = "idle", !.inside = TRUE]
    <2>1. f \in Frame /\ f.ret = Top.ret
      OBVIOUS
    <2>2. depth' = depth /\ frame' = [frame EXCEPT ![depth] = f]
      BY <1>8 DEF DisableClear, Top
    <2>3. Interrupted' /\ frame' \in [1..MaxDepth -> Frame] /\ Top' = f
      BY <2>1, <2>2, Local
    <2> QED BY <1>8, <2>3 DEF DisableClear
  <1> QED BY <1>3, <1>4, <1>5, <1>6, <1>7, <1>8

LEMMA StepEnable ==
  ASSUME IInv, CallEnable \/ EnableTest \/ EnableLoad \/ EnableWrite \/ EnableSet
  PROVE  IInv'
  <1>1. Top \in Frame
    BY DEF IInv, TypeOK, Top
  <1>2. TypeOK /\ Interrupted
    BY DEF IInv
  <1> USE <1>1, <1>2 DEF IInv, TypeOK, Flag, MainSaved, At
  <1>3. CASE CallEnable
    <2> DEFINE f == [Top EXCEPT !.pc = "eTest", !.inside = FALSE]
    <2>1. f \in Frame /\ f.ret = Top.ret
      OBVIOUS
    <2>2. depth' = depth /\ frame' = [frame EXCEPT ![depth] = f]
      BY <1>3 DEF CallEnable, Top
    <2>3. Interrupted' /\ frame' \in [1..MaxDepth -> Frame] /\ Top' = f
      BY <2>1, <2>2, Local
    <2> QED BY <1>3, <2>3 DEF CallEnable
  <1>4. CASE EnableTest
    <2>1. Goto(IF INT_Enabled THEN "idle" ELSE "eLoad") /\ depth' = depth
      BY <1>4 DEF EnableTest
    <2>2. /\ Interrupted' /\ frame' \in [1..MaxDepth -> Frame]
          /\ Top' = [Top EXCEPT !.pc = IF INT_Enabled THEN "idle" ELSE "eLoad"]
      BY <2>1, Gone
    <2> QED BY <1>4, <2>2 DEF EnableTest
  <1>5. CASE EnableLoad
    <2> DEFINE f == [Top EXCEPT !.pc = "eWrite", !.context = status]
    <2>1. f \in Frame /\ f.ret = Top.ret
      OBVIOUS
    <2>2. depth' = depth /\ frame' = [frame EXCEPT ![depth] = f]
      BY <1>5 DEF EnableLoad, Top
    <2>3. Interrupted' /\ frame' \in [1..MaxDepth -> Frame] /\ Top' = f
      BY <2>1, <2>2, Local
    <2> QED BY <1>5, <2>3 DEF EnableLoad
  <1>6. CASE EnableWrite
    <2>1. Goto("eSet") /\ depth' = depth
      BY <1>6 DEF EnableWrite
    <2>2. Interrupted' /\ frame' \in [1..MaxDepth -> Frame] /\ Top' = [Top EXCEPT !.pc = "eSet"]
      BY <2>1, Gone
    <2> QED BY <1>6, <2>2 DEF EnableWrite
  <1>7. CASE EnableSet
    <2>1. Goto("idle") /\ depth' = depth
      BY <1>7 DEF EnableSet
    <2>2. Interrupted' /\ frame' \in [1..MaxDepth -> Frame] /\ Top' = [Top EXCEPT !.pc = "idle"]
      BY <2>1, Gone
    <2> QED BY <1>7, <2>2 DEF EnableSet
  <1> QED BY <1>3, <1>4, <1>5, <1>6, <1>7

\* The interrupted frame was interruptible: the processor bit was on.
LEMMA StepInterrupt == ASSUME IInv, Interrupt PROVE IInv'
  <1> DEFINE f == [pc |-> "dTest", context |-> FALSE, ret |-> pie, inside |-> FALSE]
  <1>1. /\ depth \in 1..MaxDepth /\ depth + 1 \in 1..MaxDepth /\ MaxDepth \in Nat
        /\ frame \in [1..MaxDepth -> Frame] /\ Top \in Frame
        /\ pie = TRUE /\ f \in Frame
    BY DepthAssumption DEF IInv, TypeOK, Interrupt, Top
  <1>2. depth' = depth + 1 /\ frame' = [frame EXCEPT ![depth + 1] = f]
    BY DEF Interrupt
  <1>3. frame' \in [1..MaxDepth -> Frame] /\ Top' = f
    BY <1>1, <1>2 DEF Top
  <1>4. \A i \in 1..depth : frame'[i] = frame[i]
    BY <1>1, <1>2
  <1>5. Top.pc \in Interruptible /\ ~Top.inside /\ (Top.pc = "dWrite" => Top.context)
    BY <1>1 DEF IInv, Flag
  <1>6. TypeOK'
    BY <1>1, <1>2, <1>3 DEF IInv, TypeOK, Interrupt
  <1>7. Interrupted'
    <2>1. \A i \in 1..depth :
            /\ frame'[i].pc \in Interruptible /\ ~frame'[i].inside
            /\ frame'[i].pc = "dWrite" => frame'[i].context
      BY <1>1, <1>4, <1>5 DEF IInv, Interrupted, Top
    <2>2. \A i \in 2..depth + 1 : frame'[i].ret
      BY <1>1, <1>2, <1>3, <1>4 DEF IInv, Interrupted, Top
    <2> QED BY <1>1, <1>2, <2>1, <2>2 DEF Interrupted
  <1>8. Flag' /\ MainSaved'
    BY <1>1, <1>2, <1>3 DEF Flag, MainSaved, Interrupt
  <1> QED BY <1>6, <1>7, <1>8 DEF IInv

\* The frame returned to finds the processor bit on, as it left it, and the flag set.
LEMMA StepReturn == ASSUME IInv, Return PROVE IInv'
  <1>1. /\ depth \in 2..MaxDepth /\ depth - 1 \in 1..MaxDepth /\ MaxDepth \in Nat
        /\ frame \in [1..MaxDepth -> Frame] /\ Unused \in Frame
        /\ Top.ret = TRUE /\ INT_Enabled = TRUE
    BY DepthAssumption DEF IInv, TypeOK, Interrupted, Flag, Return, At, Top, Unused
  <1>2. /\ depth' = depth - 1 /\ frame' = [frame EXCEPT ![depth] = Unused]
        /\ pie' = TRUE /\ INT_Enabled' = TRUE /\ status' = status
    BY <1>1 DEF Return
  <1>3. frame' \in [1..MaxDepth -> Frame] /\ \A i \in 1..depth - 1 : frame'[i] = frame[i]
    BY <1>1, <1>2
  <1>4. Top' \in Frame /\ Top' = frame[depth - 1]
    BY <1>1, <1>2, <1>3 DEF Top
  <1>5. Top'.pc \in Interruptible /\ ~Top'.inside /\ (Top'.pc = "dWrite" => Top'.context)
    BY <1>1, <1>4 DEF IInv, Interrupted
  <1>6. TypeOK'
    BY <1>1, <1>2, <1>3 DEF IInv, TypeOK
  <1>7. Interrupted'
    BY <1>1, <1>2, <1>3 DEF IInv, Interrupted
  <1>8. Flag' /\ MainSaved'
    BY <1>2, <1>4, <1>5 DEF Flag, MainSaved
  <1> QED BY <1>6, <1>7, <1>8 DEF IInv

LEMMA Inductive == IInv /\ [Next]_vars => IInv'
  <1> SUFFICES ASSUME IInv, [Next]_vars PROVE IInv'
    OBVIOUS
  <1>1. CASE UNCHANGED vars
    BY <1>1 DEF vars, IInv, TypeOK, Interrupted, Flag, MainSaved, Top
  <1>2. CASE Next
    BY <1>2, StepDisable, StepEnable, StepInterrupt, StepReturn DEF Next
  <1> QED BY <1>1, <1>2

LEMMA Always == Spec => []IInv
  BY InitIInv, Inductive, PTL DEF Spec

\* The variables keep their types.
THEOREM TypeCorrect == Spec => []TypeOK
  <1>1. IInv => TypeOK BY DEF IInv
  <1> QED BY Always, <1>1, PTL

\* disable_irq and enable_irq protect what lies between them, for any depth of interrupts.
THEOREM GateExcludes == Spec => []Exclusion
  <1>1. IInv => Exclusion
    BY DEF IInv, TypeOK, Interrupted, Flag, Exclusion, Top
  <1> QED BY Always, <1>1, PTL

\* Outside its critical sections the main program always has interrupts on.
THEOREM MainNeverLockedOut == Spec => []NeverLockedOut
  <1>1. IInv => NeverLockedOut
    BY DEF IInv, Flag, MainSaved, NeverLockedOut, Top
  <1> QED BY Always, <1>1, PTL
=============================================================================
