-------------------------- MODULE ReportPipeProofs --------------------------
(***************************************************************************)
(* Proofs about ReportPipe for any number of glove streams and bus resets: *)
(* its types, that the keyboard is never silent for ever as long as no     *)
(* SETUP overwrites INTR1DONE and no report fails, and that no gesture of  *)
(* a slow glove is recorded as sent without being sent.                    *)
(***************************************************************************)
EXTENDS ReportPipe, TLAPS

\* The report and the key of every gesture are among those of the type invariant.
LEMMA MapType ==
  ASSUME NEW g \in Gestures PROVE mapGestureToKeycodes(g) \in Reports
BY DEF Gestures, mapGestureToKeycodes, Reports, NoKey

LEMMA NoKeyType == NoKey \in Reports
BY DEF NoKey, Reports

LEMMA TypeInit == Init => TypeOK
<1> SUFFICES ASSUME Init PROVE TypeOK  OBVIOUS
<1>1. left \in [streams: 0..MaxStreams, setups: 0..MaxSetups, resets: 0..MaxResets]
  BY ReportAssumption DEF Init
<1>2. fifo \in Seq(Reports)  BY DEF Init
<1>3. hostReport \in Reports /\ sent \in Reports /\ new_report \in Reports /\ old_report \in Reports
  BY NoKeyType DEF Init
<1>4. unread \in 0..StreamLength  BY DEF Init, StreamLength
<1>5. gesture \in Gestures  BY DEF Init, Gestures
<1> QED  BY <1>1, <1>2, <1>3, <1>4, <1>5 DEF Init, TypeOK

\* A countdown of the bounds stays in its range.
LEMMA LeftType ==
  ASSUME TypeOK
  PROVE  /\ left.resets > 0 => [left EXCEPT !.resets = @ - 1]
                \in [streams: 0..MaxStreams, setups: 0..MaxSetups, resets: 0..MaxResets]
         /\ left.setups > 0 => [left EXCEPT !.setups = @ - 1]
                \in [streams: 0..MaxStreams, setups: 0..MaxSetups, resets: 0..MaxResets]
         /\ left.streams > 0 => [left EXCEPT !.streams = @ - 1]
                \in [streams: 0..MaxStreams, setups: 0..MaxSetups, resets: 0..MaxResets]
BY ReportAssumption DEF TypeOK

LEMMA TypeStep == TypeOK /\ [Next]_vars => TypeOK'
<1> SUFFICES ASSUME TypeOK, [Next]_vars PROVE TypeOK'  OBVIOUS
<1> USE DEF TypeOK
<1>1. CASE Connect
  BY <1>1 DEF Connect, reportVars, chipVars
<1>2. CASE CheckEp1
  <2>1. gesture' \in Gestures  BY <1>2 DEF CheckEp1, TakeKeyBack, Gestures
  <2>2. bufferAvailable' \in BOOLEAN /\ done' \in BOOLEAN  BY <1>2 DEF CheckEp1
  <2> QED  BY <1>2, <2>1, <2>2 DEF CheckEp1, chipVars
<1>3. CASE ReadCharacter
  BY <1>3 DEF ReadCharacter, Moved, StreamLength, chipVars
<1>4. CASE BuildReport
  BY <1>4, MapType DEF BuildReport, chipVars
<1>5. CASE NotConnected
  BY <1>5 DEF NotConnected, reportVars, chipVars
<1>6. CASE SendReport
  <2>1. fifo' \in Seq(Reports) /\ sent' \in Reports /\ bufferAvailable' \in BOOLEAN
    <3>1. Append(fifo, new_report) \in Seq(Reports)  OBVIOUS
    <3>2. CASE reportChanged(old_report, new_report) /\ bufferAvailable
      BY <1>6, <3>1, <3>2 DEF SendReport
    <3>3. CASE ~(reportChanged(old_report, new_report) /\ bufferAvailable)
      BY <1>6, <3>3 DEF SendReport
    <3> QED  BY <3>2, <3>3
  <2>2. pc' \in {"top", "report", "send", "update", "resetCheck"}  BY <1>6 DEF SendReport
  <2>3. UNCHANGED <<gesture, new_report, old_report, hid, done, unread, fresh, int, hostReport, left>>
    BY <1>6 DEF SendReport
  <2> QED  BY <2>1, <2>2, <2>3
<1>7. CASE UpdateOld
  BY <1>7 DEF UpdateOld, chipVars
<1>8. CASE CheckReset
  BY <1>8 DEF CheckReset, Gestures, chipVars
<1>9. CASE Isr_Ep01Done
  BY <1>9 DEF Isr_Ep01Done, reportVars
<1>10. CASE Isr_BusReset
  <2>1. <<>> \in Seq(Reports)  OBVIOUS
  <2> QED  BY <1>10, <2>1, LeftType, NoKeyType DEF Isr_BusReset, reportVars
<1>11. CASE OverwriteDone
  BY <1>11, LeftType DEF OverwriteDone, reportVars, chipVars
<1>12. CASE HostPoll
  BY <1>12 DEF HostPoll, reportVars
<1>13. CASE GloveStream
  BY <1>13, LeftType DEF GloveStream, StreamLength, reportVars, chipVars
<1>14. CASE UNCHANGED vars
  BY <1>14 DEF vars, reportVars, chipVars
<1> QED
  BY <1>1, <1>2, <1>3, <1>4, <1>5, <1>6, <1>7, <1>8, <1>9, <1>10, <1>11, <1>12, <1>13, <1>14
  DEF Next, MainStep

\* Every variable of the report path keeps its type.
THEOREM TypeCorrect == Spec => []TypeOK
BY TypeInit, TypeStep, PTL DEF Spec

-----------------------------------------------------------------------------

\* A loop that has been round since a bus reset has freed the buffer and has no report in
\* hand, so that the host cannot connect to a keyboard that would hold its reports back.
ResetSeen ==
  hid = "reset" /\ ~fresh => bufferAvailable /\ pc \notin {"send", "update"}

IInv == TypeOK /\ ResetSeen /\ NotJammed

LEMMA JamInit == Init => IInv
BY TypeInit DEF Init, IInv, ResetSeen, NotJammed

\* The host takes no report without an interrupt, the handler leaves none without a mark, and
\* the loop takes no mark without freeing the buffer.
LEMMA JamStep == ASSUME Ep1Results = {TRUE} PROVE IInv /\ [Next]_vars => IInv'
<1> SUFFICES ASSUME IInv, [Next]_vars PROVE IInv'  OBVIOUS
<1>0. TypeOK'  BY TypeStep DEF IInv
<1>a. left'.setups <= left.setups
  <2>1. CASE Isr_BusReset  BY <2>1 DEF Isr_BusReset, IInv, TypeOK
  <2>2. CASE OverwriteDone  BY <2>2 DEF OverwriteDone, IInv, TypeOK
  <2>3. CASE GloveStream  BY <2>3 DEF GloveStream, IInv, TypeOK
  <2>4. CASE left' = left  BY <2>4 DEF IInv, TypeOK
  <2> QED
    BY <2>1, <2>2, <2>3, <2>4
    DEF Next, MainStep, Connect, CheckEp1, ReadCharacter, BuildReport, NotConnected, SendReport,
        UpdateOld, CheckReset, Isr_Ep01Done, HostPoll, vars
<1>b. Forgotten => Forgotten'
  BY <1>0, <1>a, ReportAssumption DEF Forgotten, IInv, TypeOK
<1> USE DEF IInv, ResetSeen, NotJammed
<1>1. CASE Connect
  BY <1>0, <1>b, <1>1 DEF Connect, reportVars, chipVars
<1>2. CASE CheckEp1
  BY <1>0, <1>b, <1>2 DEF CheckEp1, chipVars
<1>3. CASE ReadCharacter
  BY <1>0, <1>b, <1>3 DEF ReadCharacter, chipVars
<1>4. CASE BuildReport
  BY <1>0, <1>b, <1>4 DEF BuildReport, chipVars
<1>5. CASE NotConnected
  BY <1>0, <1>b, <1>5 DEF NotConnected, reportVars, chipVars
<1>6. CASE SendReport
  <2>1. fifo \in Seq(Reports) /\ new_report \in Reports  BY DEF TypeOK
  <2>2. Append(fifo, new_report) # <<>>  BY <2>1
  <2> QED  BY <1>0, <1>b, <1>6, <2>2 DEF SendReport, At
<1>7. CASE UpdateOld
  BY <1>0, <1>b, <1>7 DEF UpdateOld, At, chipVars
<1>8. CASE CheckReset
  BY <1>0, <1>b, <1>8 DEF CheckReset, chipVars
<1>9. CASE Isr_Ep01Done
  BY <1>0, <1>b, <1>9 DEF Isr_Ep01Done, reportVars
<1>10. CASE Isr_BusReset
  BY <1>0, <1>b, <1>10 DEF Isr_BusReset, reportVars
<1>11. CASE OverwriteDone
  <2>1. Forgotten'  BY <1>11, ReportAssumption DEF OverwriteDone, Forgotten, TypeOK
  <2> QED  BY <1>0, <1>11, <2>1 DEF OverwriteDone, reportVars, chipVars
<1>12. CASE HostPoll
  BY <1>0, <1>b, <1>12 DEF HostPoll, reportVars
<1>13. CASE GloveStream
  BY <1>0, <1>b, <1>13 DEF GloveStream, reportVars, chipVars
<1>14. CASE UNCHANGED vars
  BY <1>0, <1>b, <1>14 DEF vars, reportVars, chipVars
<1> QED
  BY <1>1, <1>2, <1>3, <1>4, <1>5, <1>6, <1>7, <1>8, <1>9, <1>10, <1>11, <1>12, <1>13, <1>14
  DEF Next, MainStep

\* A connected keyboard that holds its reports back is about to be told that it need not, for
\* any number of streams, fast or slow, and of bus resets, unless INTR1DONE was forgotten.
THEOREM NeverJammed ==
  ASSUME Ep1Results = {TRUE} PROVE Spec => []NotJammed
<1>1. Init => IInv  BY JamInit
<1>2. IInv /\ [Next]_vars => IInv'  BY JamStep
<1>3. IInv => NotJammed  BY DEF IInv
<1> QED  BY <1>1, <1>2, <1>3, PTL DEF Spec

-----------------------------------------------------------------------------
(* With a glove that waits for the host, no change of the report finds the buffer taken. *)

\* What old_report, new_report and the gesture have to do with each other at each place of
\* the loop: a taken buffer holds the report of the gesture, and an unread stream finds the
\* buffer free.
Accounted ==
  /\ pc # "update" /\ ~bufferAvailable => mapGestureToKeycodes(gesture) = old_report
  /\ pc \in {"send", "update"} => new_report = mapGestureToKeycodes(gesture)
  /\ pc = "update" => new_report = sent
  /\ unread > 0 => bufferAvailable
  /\ unread > 0 /\ pc = "send" => new_report = old_report

SInv == Accounted /\ OldReportIsSent

LEMMA SentInit == Init => SInv
BY DEF Init, SInv, Accounted, OldReportIsSent

LEMMA SentStep == ASSUME SlowGlove = TRUE PROVE TypeOK /\ SInv /\ [Next]_vars => SInv'
<1> SUFFICES ASSUME TypeOK, SInv, [Next]_vars PROVE SInv'  OBVIOUS
<1> USE DEF SInv, Accounted, OldReportIsSent
<1>1. CASE Connect
  BY <1>1 DEF Connect, reportVars, chipVars, At
<1>2. CASE CheckEp1
  <2>1. pc' = "report" /\ pc # "update" /\ old_report' = old_report /\ sent' = sent /\ unread' = unread
    BY <1>2 DEF CheckEp1, chipVars, At
  <2>2. CASE bufferAvailable' = TRUE  BY <2>1, <2>2
  <2>3. CASE gesture' = gesture /\ bufferAvailable' = bufferAvailable
    BY <2>1, <2>3
  <2> QED  BY <1>2, <2>2, <2>3 DEF CheckEp1
<1>3. CASE ReadCharacter
  BY <1>3 DEF ReadCharacter, chipVars, At
<1>4. CASE BuildReport
  BY <1>4 DEF BuildReport, chipVars, At
<1>5. CASE NotConnected
  BY <1>5 DEF NotConnected, reportVars, chipVars, At
<1>6. CASE SendReport
  <2>1. CASE reportChanged(old_report, new_report) /\ bufferAvailable
    <3>1. unread = 0  BY <1>6, <2>1 DEF SendReport, At, reportChanged, TypeOK
    <3> QED  BY <1>6, <2>1, <3>1 DEF SendReport, At
  <2>2. CASE ~(reportChanged(old_report, new_report) /\ bufferAvailable)
    <3>1. new_report = old_report  BY <1>6, <2>2 DEF SendReport, At, reportChanged
    <3> QED  BY <1>6, <2>2, <3>1 DEF SendReport, At
  <2> QED  BY <2>1, <2>2
<1>7. CASE UpdateOld
  BY <1>7 DEF UpdateOld, At, chipVars
<1>8. CASE CheckReset
  BY <1>8 DEF CheckReset, chipVars, At
<1>9. CASE Isr_Ep01Done
  BY <1>9 DEF Isr_Ep01Done, reportVars
<1>10. CASE Isr_BusReset
  BY <1>10 DEF Isr_BusReset, reportVars
<1>11. CASE OverwriteDone
  BY <1>11 DEF OverwriteDone, reportVars, chipVars
<1>12. CASE HostPoll
  BY <1>12 DEF HostPoll, reportVars
<1>13. CASE GloveStream
  BY <1>13 DEF GloveStream, Settled, reportVars, chipVars
<1>14. CASE UNCHANGED vars
  BY <1>14 DEF vars, reportVars, chipVars
<1> QED
  BY <1>1, <1>2, <1>3, <1>4, <1>5, <1>6, <1>7, <1>8, <1>9, <1>10, <1>11, <1>12, <1>13, <1>14
  DEF Next, MainStep

\* old_report is the report that was written last, if a stream begins only when the report
\* before it is settled, for any number of streams, bus resets and overwritten marks.
THEOREM SlowGestureIsSent ==
  ASSUME SlowGlove = TRUE PROVE Spec => []OldReportIsSent
<1>1. Init => TypeOK /\ SInv  BY TypeInit, SentInit
<1>2. TypeOK /\ SInv /\ [Next]_vars => (TypeOK /\ SInv)'  BY TypeStep, SentStep
<1>3. SInv => OldReportIsSent  BY DEF SInv
<1> QED  BY <1>1, <1>2, <1>3, PTL DEF Spec
=============================================================================
