--------------------------- MODULE LoraRadioProofs ----------------------------
(* Theorems about the radio and the loop, for any number of packets that     *)
(* arrive and are sent.                                                      *)
EXTENDS LoraRadio, TLAPS

(* Chip, loop and history, without the bounds on unreported.                 *)
Types ==
  /\ mode \in {"RX", "TX", "STANDBY"}
  /\ irq \subseteq {"RX_DONE", "TX_DONE", "CRC_ERR"}
  /\ buffer \in {"GOOD", "BAD"}
  /\ unread \in BOOLEAN /\ rxDone \in BOOLEAN /\ txDone \in BOOLEAN /\ radioStateError \in BOOLEAN
  /\ pc \in {"idle", "startTransmit", "error", "result", "read", "reset", "resetBad",
             "handle", "checkTx", "sent", "callback", "listen"}
  /\ return \in {"idle", "handle", "listen"}
  /\ disturbed \subseteq {"event", "onPacketSent", "application"}

Bounds == packets \in 0..MaxPackets /\ sends \in 0..MaxSends

(* An end of a transmission that the loop still knows of: the flag, and the  *)
(* call of onPacketSent it is about to make.                                 *)
Known == (IF txDone THEN 1 ELSE 0) + (IF pc = "sent" THEN 1 ELSE 0)

(* A transmission that has not ended: under way, or about to start.          *)
UnderWay == (IF mode = "TX" THEN 1 ELSE 0) + (IF pc = "startTransmit" THEN 1 ELSE 0)

(* The ends that are unreported lie between what the loop knows of and what  *)
(* was sent.                                                                 *)
Account ==
  /\ unreported \in Int
  /\ Known <= unreported
  /\ unreported + UnderWay <= sends

Undisturbed == disturbed \cap {"event", "onPacketSent"} = {}

(* Undisturbed, the loop never gets to its end with a transmission under     *)
(* way, and no flag of an earlier one is left that could take it there.      *)
LoopWaits ==
  Undisturbed =>
    /\ mode = "TX" \/ pc = "startTransmit" => ~txDone /\ ~radioStateError
    /\ pc \in {"sent", "callback", "listen"} => mode # "TX"
    /\ pc = "startTransmit" => return # "listen"

(* The inductive invariant.                                                  *)
IInv == Types /\ Bounds /\ Account /\ LoopWaits

-----------------------------------------------------------------------------
LEMMA Initially == Init => IInv
<1>. SUFFICES ASSUME Init PROVE IInv
  OBVIOUS
<1>1. Types
  BY DEF Init, Types
<1>4. Bounds
  BY RadioAssumption DEF Init, Bounds
<1>2. Account
  BY DEF Init, Account, Known, UnderWay
<1>3. LoopWaits
  BY DEF Init, LoopWaits
<1>. QED
  BY <1>1, <1>2, <1>3, <1>4 DEF IInv

(* Types are kept by every step.                                             *)
LEMMA TypesStep == Types /\ [Next]_vars => Types'
<1>. SUFFICES ASSUME Types, [Next]_vars PROVE Types'
  OBVIOUS
<1>. USE DEF Types
<1>1. CASE CheckRx \/ ClearRadioStateError \/ ReturnRadioStateError \/ ReadData \/ ResetAfterRead
  BY <1>1 DEF CheckRx, ClearRadioStateError, ReturnRadioStateError, ReadData, ResetAfterRead,
              Goto, ResetRadioState, StartReceive, chip, flags, counts
<1>2. CASE HandlePacket \/ Callback \/ AppSend
  BY <1>2 DEF HandlePacket, Callback, AppSend, StartTransmitPacket, Goto, chip, flags, counts
<1>3. CASE StartTransmit \/ CheckTx \/ PacketSent \/ Listen
  BY <1>3 DEF StartTransmit, CheckTx, PacketSent, Listen, Goto, ResetRadioState, StartReceive,
              chip, flags, counts
<1>4. CASE PacketArrives
  BY <1>4 DEF PacketArrives, Raise, OnInterrupt, Event, flags
<1>5. CASE TransmissionEnds
  BY <1>5 DEF TransmissionEnds, Raise, OnInterrupt, Event, flags
<1>6. CASE UNCHANGED vars
  BY <1>6 DEF vars, chip, flags, counts
<1>. QED
  BY <1>1, <1>2, <1>3, <1>4, <1>5, <1>6 DEF Next, Run

(* Bounds are guards of the steps that count.                                *)
LEMMA BoundsStep == Bounds /\ [Next]_vars => Bounds'
<1>. SUFFICES ASSUME Bounds, [Next]_vars PROVE Bounds'
  OBVIOUS
<1>1. CASE packets' = packets /\ (sends' = sends \/ (sends < MaxSends /\ sends' = sends + 1))
  BY <1>1, RadioAssumption DEF Bounds
<1>2. CASE packets < MaxPackets /\ packets' = packets + 1 /\ sends' = sends
  BY <1>2, RadioAssumption DEF Bounds
<1>3. CASE Run \/ AppSend
  <2>1. packets' = packets /\ (sends' = sends \/ (sends < MaxSends /\ sends' = sends + 1))
    BY <1>3 DEF Run, AppSend, CheckRx, ClearRadioStateError, ReturnRadioStateError, ReadData,
                ResetAfterRead, HandlePacket, StartTransmit, CheckTx, PacketSent, Callback, Listen,
                StartTransmitPacket, counts
  <2>. QED
    BY <2>1, <1>1
<1>4. CASE PacketArrives \/ TransmissionEnds
  BY <1>4, <1>1, <1>2 DEF PacketArrives, TransmissionEnds
<1>. QED
  BY <1>1, <1>3, <1>4 DEF Next, vars, counts

(* CheckTx turns the flag into the call, PacketSent makes the call, and a    *)
(* transmission is started, is under way and ends.                           *)
LEMMA AccountStep == IInv /\ [Next]_vars => Account'
<1>. SUFFICES ASSUME IInv, [Next]_vars PROVE Account'
  OBVIOUS
<1>. USE RadioAssumption DEF IInv, Types, Bounds, Account, Known, UnderWay
<1>1. CASE CheckRx \/ ClearRadioStateError \/ ReturnRadioStateError \/ ReadData \/ ResetAfterRead
  BY <1>1 DEF CheckRx, ClearRadioStateError, ReturnRadioStateError, ReadData, ResetAfterRead,
              Goto, ResetRadioState, StartReceive, chip, flags, counts
<1>2. CASE HandlePacket \/ Callback \/ AppSend
  BY <1>2 DEF HandlePacket, Callback, AppSend, StartTransmitPacket, Goto, chip, flags, counts
<1>3. CASE StartTransmit \/ CheckTx \/ PacketSent \/ Listen
  BY <1>3 DEF StartTransmit, CheckTx, PacketSent, Listen, Goto, ResetRadioState, StartReceive,
              chip, flags, counts
<1>4. CASE PacketArrives
  BY <1>4 DEF PacketArrives, Raise, OnInterrupt, Event, flags
<1>5. CASE TransmissionEnds
  BY <1>5 DEF TransmissionEnds, Raise, OnInterrupt, Event, flags
<1>6. CASE UNCHANGED vars
  BY <1>6 DEF vars, chip, flags, counts
<1>. QED
  BY <1>1, <1>2, <1>3, <1>4, <1>5, <1>6 DEF Next, Run

(* A packet cannot arrive during a transmission, and one that arrives or     *)
(* ends while the loop is at work is a disturbance.                          *)
LEMMA LoopStep == IInv /\ [Next]_vars => LoopWaits'
<1>. SUFFICES ASSUME IInv, [Next]_vars, Undisturbed' PROVE LoopWaits'
  BY DEF LoopWaits
<1>. USE DEF IInv, Types, LoopWaits, Undisturbed
<1>1. CASE CheckRx \/ ClearRadioStateError \/ ReturnRadioStateError \/ ReadData \/ ResetAfterRead
  BY <1>1 DEF CheckRx, ClearRadioStateError, ReturnRadioStateError, ReadData, ResetAfterRead,
              Goto, ResetRadioState, StartReceive, chip, flags, counts
<1>2. CASE HandlePacket \/ Callback \/ AppSend
  BY <1>2 DEF HandlePacket, Callback, AppSend, StartTransmitPacket, Goto, chip, flags, counts
<1>3. CASE StartTransmit \/ CheckTx \/ PacketSent \/ Listen
  BY <1>3 DEF StartTransmit, CheckTx, PacketSent, Listen, Goto, ResetRadioState, StartReceive,
              chip, flags, counts
<1>4. CASE PacketArrives
  BY <1>4 DEF PacketArrives, Raise, OnInterrupt, Event, flags
<1>5. CASE TransmissionEnds
  BY <1>5 DEF TransmissionEnds, Raise, OnInterrupt, Event, flags
<1>6. CASE UNCHANGED vars
  BY <1>6 DEF vars, chip, flags, counts
<1>. QED
  BY <1>1, <1>2, <1>3, <1>4, <1>5, <1>6 DEF Next, Run

-----------------------------------------------------------------------------
(* The inductive invariant of the radio and the loop holds in every          *)
(* reachable state.                                                          *)
THEOREM Invariance == Spec => []IInv
<1>1. IInv /\ [Next]_vars => IInv'
  BY TypesStep, BoundsStep, AccountStep, LoopStep DEF IInv
<1>. QED
  BY Initially, <1>1, PTL DEF Spec

(* Chip, flags and loop stay in their domains, and the loop never reports    *)
(* the end of more transmissions than have ended, however interrupts and     *)
(* sends fall.                                                               *)
THEOREM TypeCorrect == Spec => []TypeOK
<1>1. IInv => TypeOK
  BY RadioAssumption DEF IInv, Types, Bounds, Account, Known, UnderWay, TypeOK
<1>. QED
  BY Invariance, <1>1, PTL

(* Unless onPacketSent sends or an event falls into a pass, the loop does    *)
(* not return to reception in the middle of a transmission.                  *)
THEOREM SendsAreNotAborted == Spec => NoSendIsAborted
<1>. DEFINE Kept == mode = "TX" => mode' # "RX" \/ disturbed \cap {"event", "onPacketSent"} # {}
<1>1. IInv /\ [Next]_vars => [Kept]_vars
  <2>. SUFFICES ASSUME IInv, Next, mode = "TX", Undisturbed PROVE mode' # "RX"
    BY DEF Undisturbed
  <2>1. CASE ClearRadioStateError \/ PacketSent \/ Listen
    BY <2>1 DEF ClearRadioStateError, PacketSent, Listen, Goto, IInv, LoopWaits, chip
  <2>2. CASE CheckRx \/ ReturnRadioStateError \/ ReadData \/ ResetAfterRead \/ CheckTx \/ StartTransmit
    BY <2>2 DEF CheckRx, ReturnRadioStateError, ReadData, ResetAfterRead, CheckTx, StartTransmit, chip
  <2>3. CASE HandlePacket \/ Callback \/ AppSend
    BY <2>3 DEF HandlePacket, Callback, AppSend, StartTransmitPacket, chip
  <2>4. CASE PacketArrives \/ TransmissionEnds
    BY <2>4 DEF PacketArrives, TransmissionEnds
  <2>. QED
    BY <2>1, <2>2, <2>3, <2>4 DEF Next, Run
<1>. QED
  BY Invariance, <1>1, PTL DEF Spec, NoSendIsAborted
===============================================================================
