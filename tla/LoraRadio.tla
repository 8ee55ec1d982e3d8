------------------------------- MODULE LoraRadio -------------------------------
(***************************************************************************)
(* The half-duplex radio of a device: the chip, the interrupt handler that *)
(* sets rxDone and txDone at any moment, and the loop that looks at them.  *)
(* The loop is cut where an interrupt can fall between two accesses to the *)
(* flags or to the chip.  DIO1 interrupts on its rising edge: an event     *)
(* that finds another one not yet cleared in the chip does not interrupt.  *)
(***************************************************************************)
EXTENDS Integers

CONSTANTS
  MaxPackets,     \* bound: packets that arrive
  MaxSends        \* bound: packets that are sent

VARIABLES
  mode,             \* of the chip: receiving, transmitting or in standby
  irq,              \* its interrupt flags
  buffer,           \* the last packet it received, and
  unread,           \* whether the loop has still to read it
  rxDone, txDone, radioStateError,  \* shared by handler and loop
  pc,               \* where the loop is
  return,           \* where it goes on after a transmission was started
  unreported,       \* transmissions that ended, less those reported
  disturbed,        \* history: what happened apart from receiving, handling
                    \* and sending one packet after another
  packets, sends

flags == <<rxDone, txDone, radioStateError>>
chip == <<mode, irq, buffer, unread>>
counts == <<unreported, disturbed, packets, sends>>
vars == <<chip, flags, pc, return, counts>>

ASSUME RadioAssumption ==
  /\ MaxPackets \in Nat /\ MaxSends \in Nat

(* After setup() and the first startReceive().                             *)
Init ==
  /\ mode = "RX" /\ irq = {} /\ buffer = "BAD" /\ unread = FALSE
  /\ rxDone = FALSE /\ txDone = FALSE /\ radioStateError = FALSE
  /\ pc = "idle" /\ return = "idle"
  /\ unreported = 0 /\ disturbed = {} /\ packets = 0 /\ sends = 0

-----------------------------------------------------------------------------
(* The chip and its interrupt.                                             *)

OnInterrupt(status) ==
  /\ rxDone' = (rxDone \/ "RX_DONE" \in status)
  /\ txDone' = (txDone \/ "TX_DONE" \in status)
  /\ radioStateError' = (radioStateError \/ "CRC_ERR" \in status)

Raise(new) ==
  /\ irq' = irq \cup new
  /\ IF irq = {} THEN OnInterrupt(irq') ELSE UNCHANGED flags

(* An event while run() is at work is a disturbance.                       *)
Event == disturbed' = IF pc = "idle" THEN disturbed ELSE disturbed \cup {"event"}

PacketArrives ==
  /\ mode = "RX" /\ packets < MaxPackets
  /\ \/ buffer' = "GOOD" /\ Raise({"RX_DONE"})
     \/ buffer' = "BAD" /\ Raise({"RX_DONE", "CRC_ERR"})
  /\ unread' = TRUE
  /\ packets' = packets + 1
  /\ Event
  /\ UNCHANGED <<mode, pc, return, unreported, sends>>

TransmissionEnds ==
  /\ mode = "TX"
  /\ mode' = "STANDBY"
  /\ Raise({"TX_DONE"})
  /\ unreported' = unreported + 1
  /\ Event
  /\ UNCHANGED <<buffer, unread, pc, return, packets, sends>>

(* Both commands clear the interrupt flags; startTransmit ends whatever    *)
(* the chip was doing, and so does startReceive.                           *)
StartReceive == mode' = "RX" /\ irq' = {} /\ UNCHANGED <<buffer, unread>>

-----------------------------------------------------------------------------
(* LoraRadio.  A chip command is taken to succeed.                         *)

ResetRadioState == rxDone' = FALSE /\ txDone' = FALSE /\ radioStateError' = FALSE

(* startTransmitPacket clears its flag, then starts the chip.  The sender  *)
(* is a packet handler, onPacketSent, or the application between two calls *)
(* of run(); the last two are disturbances.                                *)
StartTransmitPacket(sender, next) ==
  /\ sends < MaxSends
  /\ sends' = sends + 1
  /\ txDone' = FALSE /\ radioStateError' = FALSE /\ UNCHANGED rxDone
  /\ pc' = "startTransmit" /\ return' = next
  /\ disturbed' = disturbed \cup ({sender} \ {"handler"})
  /\ UNCHANGED <<chip, unreported, packets>>

StartTransmit ==
  /\ pc = "startTransmit"
  /\ mode' = "TX" /\ irq' = {} /\ UNCHANGED <<buffer, unread>>
  /\ pc' = return
  /\ UNCHANGED <<flags, return, counts>>

Goto(here, next) == pc = here /\ pc' = next /\ UNCHANGED return

(* An error resets the flags and restarts reception before it is returned: *)
(* what is returned is then what the handler has set since.                *)
ClearRadioStateError ==
  /\ Goto("error", "result")
  /\ IF radioStateError THEN ResetRadioState /\ StartReceive ELSE UNCHANGED <<flags, chip>>
  /\ UNCHANGED counts

ReturnRadioStateError ==
  /\ pc = "result"
  /\ pc' = IF radioStateError THEN "idle" ELSE "read"
  /\ UNCHANGED <<chip, flags, return, counts>>

(* Variant: readData is left out for a damaged packet, and so is its       *)
(* clearing of the chip's flags.                                           *)
ReadDataKeepsFlags ==
  /\ pc = "read"
  /\ pc' = IF buffer = "GOOD" THEN "reset" ELSE "resetBad"
  /\ unread' = (buffer = "BAD")
  /\ irq' = IF buffer = "BAD" THEN irq ELSE {}
  /\ UNCHANGED <<mode, buffer, flags, return, counts>>

(* readData reports a CRC error that is still in the flags, and clears     *)
(* them; then the loop clears its own.                                     *)
ReadData ==
  /\ pc = "read"
  /\ pc' = IF "CRC_ERR" \in irq THEN "idle" ELSE IF buffer = "GOOD" THEN "reset" ELSE "resetBad"
  /\ irq' = {} /\ unread' = FALSE
  /\ UNCHANGED <<mode, buffer, flags, return, counts>>

ResetAfterRead ==
  /\ Goto("reset", "handle") \/ Goto("resetBad", "idle")
  /\ ResetRadioState
  /\ UNCHANGED <<chip, counts>>

-----------------------------------------------------------------------------
(* RadioMeshDevice::run().                                                 *)

CheckRx ==
  /\ pc = "idle"
  /\ pc' = IF rxDone THEN "error" ELSE "checkTx"
  /\ rxDone' = FALSE
  /\ UNCHANGED <<chip, txDone, radioStateError, return, counts>>

(* The device may answer or relay the packet, the application may send in  *)
(* onPacketReceived; when handling fails, run() returns at once.           *)
HandlePacket ==
  \/ /\ Goto("handle", "checkTx") \/ Goto("handle", "idle")
     /\ UNCHANGED <<chip, flags, counts>>
  \/ pc = "handle" /\ StartTransmitPacket("handler", "handle")

(* Variant: txDone is looked at and not cleared.                           *)
CheckTxKeepsFlag ==
  /\ pc = "checkTx"
  /\ pc' = IF txDone THEN "sent" ELSE "idle"
  /\ UNCHANGED <<chip, flags, return, counts>>

(* Variant: the loop looks for the end of a transmission by the chip being *)
(* in transmission.                                                        *)
CheckTxByMode ==
  /\ pc = "checkTx"
  /\ pc' = IF mode = "TX" THEN "sent" ELSE "idle"
  /\ txDone' = FALSE
  /\ UNCHANGED <<chip, rxDone, radioStateError, return, counts>>

CheckTx ==
  /\ pc = "checkTx"
  /\ pc' = IF txDone THEN "sent" ELSE "idle"
  /\ txDone' = FALSE
  /\ UNCHANGED <<chip, rxDone, radioStateError, return, counts>>

(* Variant: onPacketSent is called for a failed transmission only.         *)
PacketSentReportsErrors ==
  /\ pc = "sent" /\ UNCHANGED return
  /\ pc' = IF radioStateError THEN "callback" ELSE "listen"
  /\ UNCHANGED <<chip, flags, counts>>

(* getRadioStateError, then onPacketSent.                                  *)
PacketSent ==
  /\ Goto("sent", "callback")
  /\ IF radioStateError THEN ResetRadioState /\ StartReceive ELSE UNCHANGED <<flags, chip>>
  /\ unreported' = unreported - 1
  /\ UNCHANGED <<disturbed, packets, sends>>

Callback ==
  \/ Goto("callback", "listen") /\ UNCHANGED <<chip, flags, counts>>
  \/ pc = "callback" /\ StartTransmitPacket("onPacketSent", "listen")

(* Variant: the chip stays in standby.                                    *)
ListenNever ==
  /\ Goto("listen", "idle")
  /\ UNCHANGED <<chip, flags, counts>>

Listen ==
  /\ Goto("listen", "idle")
  /\ StartReceive
  /\ UNCHANGED <<flags, counts>>

Run ==
  \/ CheckRx \/ ClearRadioStateError \/ ReturnRadioStateError
  \/ ReadData \/ ResetAfterRead \/ HandlePacket \/ StartTransmit
  \/ CheckTx \/ PacketSent \/ Callback \/ Listen

AppSend == pc = "idle" /\ StartTransmitPacket("application", "idle")

Next == Run \/ AppSend \/ PacketArrives \/ TransmissionEnds

Spec == Init /\ [][Next]_vars

(* loop() keeps calling run(), and a transmission ends by itself.          *)
Fairness == WF_vars(Run) /\ WF_vars(TransmissionEnds)
FairSpec == Spec /\ Fairness
-----------------------------------------------------------------------------
(* Properties.                                                             *)

(* Chip, flags and loop stay in their domains.  Every call of onPacketSent *)
(* stands for a transmission of its own that has ended: unreported does    *)
(* not fall below 0, however interrupts and sends fall.                    *)
TypeOK ==
  /\ mode \in {"RX", "TX", "STANDBY"}
  /\ irq \subseteq {"RX_DONE", "TX_DONE", "CRC_ERR"}
  /\ buffer \in {"GOOD", "BAD"}
  /\ unread \in BOOLEAN /\ rxDone \in BOOLEAN /\ txDone \in BOOLEAN /\ radioStateError \in BOOLEAN
  /\ pc \in {"idle", "startTransmit", "error", "result", "read", "reset", "resetBad",
             "handle", "checkTx", "sent", "callback", "listen"}
  /\ return \in {"idle", "handle", "listen"}
  /\ unreported \in 0..MaxSends /\ disturbed \subseteq {"event", "onPacketSent", "application"}
  /\ packets \in 0..MaxPackets /\ sends \in 0..MaxSends

(* A packet the chip received is read by the loop, whoever sends in the    *)
(* meantime, as long as the chip's events fall between two passes.         *)
EveryPacketIsRead == unread ~> (~unread \/ "event" \in disturbed)

(* The radio never stays deaf, by whatever it has handled and sent: again  *)
(* and again it is in reception with no flag left that would hide the next *)
(* interrupt.  Sends of onPacketSent do not change that.                   *)
ListensAgain ==
  []<>((mode = "RX" /\ irq = {}) \/ disturbed \cap {"event", "application"} # {})

(* A transmission leads to a call of onPacketSent, if nothing disturbs it. *)
EverySendIsReported == mode = "TX" ~> (pc = "callback" \/ disturbed # {})

(* The loop returns to reception in the middle of a transmission only if   *)
(* onPacketSent sent, or an event fell into a pass.                        *)
NoSendIsAborted ==
  [][mode = "TX" => mode' # "RX" \/ disturbed \cap {"event", "onPacketSent"} # {}]_vars
=============================================================================
