----------------------------- MODULE ReportPipe -----------------------------
(***************************************************************************)
(* From a gesture to a key in the host: the part of the main loop (main.c, *)
(* read from FinalFlashedDE2.objdump) that turns the gesture of the last   *)
(* glove stream into a keyboard report, writes it to endpoint 1 and takes  *)
(* the key back once the host has it.  The control pipe is ControlPipe's   *)
(* subject: here it is hid, the flag INTR1DONE of DCP_state and what may   *)
(* overwrite that flag.  The interrupt gate makes each step of the loop    *)
(* below one step.  Definitions marked "Mistaken" are plausible errors in  *)
(* those that follow them.                                                 *)
(***************************************************************************)
EXTENDS Naturals, Sequences

CONSTANTS
  Ep1Results,   \* the outcomes GetErrorCode may report for endpoint 1
  SlowGlove,    \* whether a glove stream begins only when the report before it is settled
  MaxStreams,   \* glove streams in a behaviour
  MaxSetups,    \* SETUPs that overwrite INTR1DONE in a behaviour
  MaxResets     \* bus resets in a behaviour

ASSUME ReportAssumption ==
  /\ Ep1Results \subseteq BOOLEAN /\ SlowGlove \in BOOLEAN
  /\ {MaxStreams, MaxSetups, MaxResets} \subseteq Nat

VARIABLES
  gesture, new_report, old_report, bufferAvailable,
  hid,          \* hid_settings.state
  done,         \* DCP_state is INTR1DONE
  pc,           \* where the main loop is
  unread,       \* characters in the serial FIFO, the last one ends a stream
  fresh,        \* a bus reset that the loop has not been round since
  fifo, int,    \* endpoint 1: its buffers and its interrupt
  hostReport,   \* the keys the host believes are down
  sent,         \* the last report written to endpoint 1 (history)
  left          \* what is left of the bounds

reportVars == <<gesture, new_report, old_report, bufferAvailable>>
chipVars   == <<fifo, int, hostReport, sent>>
vars == <<reportVars, hid, done, pc, unread, fresh, chipVars, left>>

StreamLength == 2      \* one character inside a stream and the one that ends it

Gestures == {"NULL", "UP", "DOWN", "LEFT", "RIGHT", "ALT"}
Moved    == Gestures \ {"ALT"}      \* what the end of a stream may set
Reports  == [modifier: SUBSET {"alt", "shift"}, key: {"none", "pageup", "pagedown", "tab"}]

NoKey == [modifier |-> {}, key |-> "none"]

mapGestureToKeycodes(g) ==
  CASE g = "NULL"  -> NoKey
    [] g = "UP"    -> [modifier |-> {}, key |-> "pageup"]
    [] g = "DOWN"  -> [modifier |-> {}, key |-> "pagedown"]
    [] g = "LEFT"  -> [modifier |-> {"alt", "shift"}, key |-> "tab"]
    [] g = "RIGHT" -> [modifier |-> {"alt"}, key |-> "tab"]
    [] OTHER       -> [modifier |-> {"alt"}, key |-> "none"]

Init ==
  /\ gesture = "NULL" /\ new_report = NoKey /\ old_report = NoKey /\ bufferAvailable = TRUE
  /\ hid = "reset" /\ done = FALSE /\ pc = "top" /\ unread = 0 /\ fresh = TRUE
  /\ fifo = <<>> /\ int = FALSE /\ hostReport = NoKey /\ sent = NoKey
  /\ left = [streams |-> MaxStreams, setups |-> MaxSetups, resets |-> MaxResets]

-----------------------------------------------------------------------------
(* The main loop. *)

\* The main loop makes a step at l unless the handler preempts it there.
At(l) == pc = l /\ ~int

\* The request the host connects with, which enumeration puts some rounds behind a bus reset.
Connect ==
  /\ At("top") /\ hid = "reset" /\ ~fresh
  /\ hid' = "connected"
  /\ UNCHANGED <<reportVars, done, pc, unread, fresh, chipVars, left>>

\* Mistaken: the key is not taken back.
TakeKeyBackNever == gesture' = gesture

\* Mistaken: ALT is let go with the key.
TakeKeyBackWhole == gesture' = "NULL"

\* What follows the report the host has: its key goes up, ALT stays down.
TakeKeyBack == gesture' = IF "alt" \in old_report.modifier THEN "ALT" ELSE "NULL"

\* The test of INTR1DONE and what it guards.
CheckEp1 ==
  /\ At("top")
  /\ done' = FALSE
  /\ \/ /\ done /\ TRUE \in Ep1Results
        /\ TakeKeyBack /\ bufferAvailable' = TRUE
     \/ /\ ~done \/ FALSE \in Ep1Results
        /\ UNCHANGED <<gesture, bufferAvailable>>
  /\ pc' = "report"
  /\ UNCHANGED <<new_report, old_report, hid, unread, fresh, chipVars, left>>

\* A character of a stream sends the loop back to its top, the last one with a gesture:
\* a movement forward or backward leaves the one before.
ReadCharacter ==
  /\ At("report") /\ hid = "connected" /\ unread > 0
  /\ unread' = unread - 1
  /\ gesture' \in IF unread % StreamLength = 1 THEN Moved \cup {gesture} ELSE {gesture}
  /\ pc' = "top"
  /\ UNCHANGED <<new_report, old_report, bufferAvailable, hid, done, fresh, chipVars, left>>

BuildReport ==
  /\ At("report") /\ hid = "connected" /\ unread = 0
  /\ new_report' = mapGestureToKeycodes(gesture)
  /\ pc' = "send"
  /\ UNCHANGED <<gesture, old_report, bufferAvailable, hid, done, unread, fresh, chipVars, left>>

NotConnected ==
  /\ At("report") /\ hid # "connected"
  /\ pc' = "resetCheck"
  /\ UNCHANGED <<reportVars, hid, done, unread, fresh, chipVars, left>>

\* Mistaken: a change of the modifiers alone is not noticed.
reportChangedByKey(old, new) == old.key # new.key

reportChanged(old, new) == old # new

\* Endpoint 1 is configured once, at the start, and so takes a report behind a bus reset, too.
SendReport ==
  /\ At("send")
  /\ IF reportChanged(old_report, new_report) /\ bufferAvailable
     THEN /\ bufferAvailable' = FALSE
          /\ sent' = new_report
          /\ fifo' = Append(fifo, new_report)
     ELSE UNCHANGED <<bufferAvailable, sent, fifo>>
  /\ pc' = "update"
  /\ UNCHANGED <<gesture, new_report, old_report, hid, done, unread, fresh, int, hostReport, left>>

\* Mistaken: only the key is copied.
UpdateOldKey ==
  /\ At("update")
  /\ old_report' = [old_report EXCEPT !.key = new_report.key]
  /\ pc' = "resetCheck"
  /\ UNCHANGED <<gesture, new_report, bufferAvailable, hid, done, unread, fresh, chipVars, left>>

\* The old report follows the new one whether or not it was sent.
UpdateOld ==
  /\ At("update")
  /\ old_report' = new_report
  /\ pc' = "resetCheck"
  /\ UNCHANGED <<gesture, new_report, bufferAvailable, hid, done, unread, fresh, chipVars, left>>

\* Mistaken: the buffer stays taken over a bus reset.
CheckResetKeepsBuffer ==
  /\ At("resetCheck")
  /\ gesture' = (IF hid = "reset" THEN "NULL" ELSE gesture) /\ fresh' = FALSE
  /\ pc' = "top"
  /\ UNCHANGED <<new_report, old_report, bufferAvailable, hid, done, unread, chipVars, left>>

CheckReset ==
  /\ At("resetCheck")
  /\ IF hid = "reset" THEN gesture' = "NULL" /\ bufferAvailable' = TRUE
     ELSE UNCHANGED <<gesture, bufferAvailable>>
  /\ fresh' = FALSE
  /\ pc' = "top"
  /\ UNCHANGED <<new_report, old_report, hid, done, unread, chipVars, left>>

MainStep ==
  \/ CheckEp1 \/ ReadCharacter \/ BuildReport \/ NotConnected \/ SendReport \/ UpdateOld
  \/ CheckReset

-----------------------------------------------------------------------------
(* The interrupt handler. *)

Isr_Ep01Done ==
  /\ int /\ int' = FALSE /\ done' = TRUE
  /\ UNCHANGED <<reportVars, hid, pc, unread, fresh, fifo, hostReport, sent, left>>

\* Isr_BusReset, with the reset of the chip and of the host that it answers. An interrupt of
\* before it may survive.
Isr_BusReset ==
  /\ left.resets > 0
  /\ left' = [left EXCEPT !.resets = @ - 1]
  /\ hid' = "reset" /\ fresh' = TRUE /\ done' = FALSE
  /\ fifo' = <<>> /\ hostReport' = NoKey
  /\ int' \in {FALSE, int}
  /\ UNCHANGED <<reportVars, pc, unread, sent>>

\* Isr_Ep00RxDone records a SETUP in the bits that still hold INTR1DONE.
OverwriteDone ==
  /\ done /\ left.setups > 0
  /\ left' = [left EXCEPT !.setups = @ - 1]
  /\ done' = FALSE
  /\ UNCHANGED <<reportVars, hid, pc, unread, fresh, chipVars>>

-----------------------------------------------------------------------------
(* The host and the glove, external to this code. *)

HostPoll ==
  /\ fifo # <<>> /\ hid = "connected"
  /\ hostReport' = Head(fifo) /\ fifo' = Tail(fifo) /\ int' = TRUE
  /\ UNCHANGED <<reportVars, hid, done, pc, unread, fresh, sent, left>>

\* The host has the last report and the loop knows.
Settled ==
  /\ hid = "connected" /\ fifo = <<>> /\ ~int /\ ~done /\ bufferAvailable
  /\ old_report = mapGestureToKeycodes(gesture)

GloveStream ==
  /\ left.streams > 0 /\ unread = 0
  /\ SlowGlove => Settled
  /\ left' = [left EXCEPT !.streams = @ - 1]
  /\ unread' = StreamLength
  /\ UNCHANGED <<reportVars, hid, done, pc, fresh, chipVars>>

Next ==
  \/ Connect \/ MainStep \/ Isr_Ep01Done \/ Isr_BusReset \/ OverwriteDone
  \/ HostPoll \/ GloveStream

Spec == Init /\ [][Next]_vars

\* The processor runs, the interrupt line is level triggered, the host polls endpoint 1 of a
\* keyboard that is connected.
Fairness == WF_vars(MainStep) /\ WF_vars(Isr_Ep01Done) /\ WF_vars(HostPoll)

FairSpec == Spec /\ Fairness

-----------------------------------------------------------------------------
(* Correctness. *)

TypeOK ==
  /\ gesture \in Gestures /\ new_report \in Reports /\ old_report \in Reports
  /\ bufferAvailable \in BOOLEAN /\ done \in BOOLEAN /\ int \in BOOLEAN /\ fresh \in BOOLEAN
  /\ hid \in {"reset", "connected"}
  /\ pc \in {"top", "report", "send", "update", "resetCheck"}
  /\ unread \in 0..StreamLength
  /\ fifo \in Seq(Reports) /\ hostReport \in Reports /\ sent \in Reports
  /\ left \in [streams: 0..MaxStreams, setups: 0..MaxSetups, resets: 0..MaxResets]

\* A SETUP has overwritten INTR1DONE before the loop saw it.
Forgotten == left.setups < MaxSetups

\* A key the host sees go down goes up again: INTR1DONE of its report brings the report that
\* releases it, or a bus reset does. No key repeats for ever, unless INTR1DONE is forgotten.
KeyReleased == hostReport.key # "none" ~> hostReport.key = "none" \/ Forgotten

\* A gesture that asks for other keys than those that are down reaches the host, as long as
\* no bus reset comes.
GestureReachesHost ==
  \A g \in Moved :
    gesture = g /\ pc = "top" /\ mapGestureToKeycodes(g) # old_report
      ~> hostReport = mapGestureToKeycodes(g) \/ left.resets < MaxResets

\* ALT is held from one TAB to the next, so that the host's window switcher stays open: the
\* report behind a TAB never lets ALT go with it, as long as no bus reset comes.
AltOutlivesTab ==
  [][hostReport.key = "tab" /\ hostReport' # hostReport
       => "alt" \in hostReport'.modifier \/ left'.resets < MaxResets]_vars

\* While a connected keyboard holds its reports back, one of them is still on its way to
\* free the buffer, whatever streams and bus resets come, unless INTR1DONE was forgotten.
NotJammed == hid = "connected" /\ ~bufferAvailable => fifo # <<>> \/ int \/ done \/ Forgotten

\* "If the report has changed send it" (main.c): old_report, with which the next report is
\* compared, is the report that was written last. A change that finds the buffer taken is
\* recorded in old_report and never sent.
OldReportIsSent == pc # "update" => old_report = sent
=============================================================================
