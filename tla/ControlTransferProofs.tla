------------------------ MODULE ControlTransferProofs ------------------------
(***************************************************************************)
(* A read is exact for every packet size, every length asked for and every *)
(* length of the answer.  ReadIsExact speaks of the end of the data stage  *)
(* only; the strengthening says what is true on the way there.             *)
(***************************************************************************)
EXTENDS ControlTransfer, TLAPS

\* The answer is never overshot on the way.
NeverTooMuch == phase \in Running => got <= Answer(req)

\* The stage fits the request.
StageFits ==
  /\ phase = "dataIn" => IsRead(req)
  /\ phase \in {"dataOut", "statusIn"} => ~IsRead(req)

IInv == TypeOK /\ NeverTooMuch /\ StageFits /\ ReadIsExact

LEMMA InitIInv == Init => IInv
  BY DEF Init, IInv, TypeOK, NeverTooMuch, StageFits, ReadIsExact, Running, Over

LEMMA BeginKeeps == ASSUME TransferAssumption, IInv, NEW r \in Requests, Begin(r) PROVE IInv'
  BY DEF TransferAssumption, Begin, IInv, TypeOK, NeverTooMuch, StageFits, ReadIsExact, Running, Over

\* The packet that ends the data stage is the one that completes the answer: a short packet
\* is all that was left, and the length asked for is no less than the answer.
LEMMA PacketKeeps == ASSUME TransferAssumption, IInv, Packet PROVE IInv'
  <1> DEFINE left == Answer(req) - got
             n    == IF left < PacketSize THEN left ELSE PacketSize
  <1>1. /\ req \in Requests /\ phase = "dataIn" /\ IsRead(req)
        /\ got \in Nat /\ got <= Answer(req)
    BY DEF Packet, IInv, TypeOK, NeverTooMuch, StageFits, Running
  <1>2. Answer(req) \in Nat /\ Asked(req) \in Nat /\ Answer(req) <= Asked(req)
        /\ PacketSize \in Nat \ {0}
    BY <1>1 DEF TransferAssumption
  <1>3. got' = got + n /\ req' = req
        /\ phase' = IF n < PacketSize \/ got' = Asked(req) THEN "statusOut" ELSE "dataIn"
    BY DEF Packet
  <1>4. got' \in Nat /\ got' <= Answer(req)
    BY <1>1, <1>2, <1>3
  <1>5. n < PacketSize \/ got' = Asked(req) => got' = Answer(req)
    BY <1>1, <1>2, <1>3, <1>4
  <1> HIDE DEF n, left
  <1> QED
    BY <1>1, <1>3, <1>4, <1>5
       DEF IInv, TypeOK, NeverTooMuch, StageFits, ReadIsExact, Running, Over

LEMMA OthersKeep == ASSUME TransferAssumption, IInv, SendData \/ Status \/ Stall \/ UNCHANGED vars PROVE IInv'
  BY DEF SendData, Status, Stall, vars,
         IInv, TypeOK, NeverTooMuch, StageFits, ReadIsExact, Running, Over

\* The stages and counters keep their types.
THEOREM TypeCorrect == ASSUME TransferAssumption PROVE Spec => []TypeOK
  <1>1. IInv /\ [Next]_vars => IInv'
    BY BeginKeeps, PacketKeeps, OthersKeep DEF Next
  <1>2. IInv => TypeOK
    BY DEF IInv
  <1> QED BY InitIInv, <1>1, <1>2, PTL DEF Spec

\* Whatever the host asks for, a read that has reached its status stage has brought the
\* answer, the whole answer and nothing else.
THEOREM ReadsAreExact == ASSUME TransferAssumption PROVE Spec => []ReadIsExact
  <1>1. IInv /\ [Next]_vars => IInv'
    BY BeginKeeps, PacketKeeps, OthersKeep DEF Next
  <1>2. IInv => ReadIsExact
    BY DEF IInv
  <1> QED BY InitIInv, <1>1, <1>2, PTL DEF Spec
=============================================================================
