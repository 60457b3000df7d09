----------------------------- MODULE MassStorage -----------------------------
(***************************************************************************)
(* The sender's mass-storage driver (MassStorageDevice::Initialize and     *)
(* GetCapacity, sender/usb/mass_storage_device.cpp) run against the        *)
(* receiver's mass-storage emulator (VirtualUsbDevice::HandleMassStorageUrb *)
(* and ProcessScsiCommand, receiver/virtual_device/virtual_usb_device.cpp) *)
(* as its bulk-only device.  The emulator keeps no state between URBs, so  *)
(* each transfer of the driver is one action that includes the emulator's  *)
(* answer to it.  Every transfer may also fail in the transport (libusb    *)
(* timeout, unplug): that choice is TransportOutcomes.                     *)
(*                                                                         *)
(* A CBW is abstracted to the fields the emulator and the driver read: its *)
(* 31-byte size, tag, data length and SCSI opcode (CBWCB[0], byte 15 of    *)
(* the wire form).  Data and CSW payloads are byte sequences.              *)
(***************************************************************************)
EXTENDS Naturals, Sequences, ScsiEmulator

CONSTANT MaxTransportFaults   \* transfers that may fail in the transport

VARIABLES
    dpc,          \* driver position in Initialize / GetCapacity
    nextTag,      \* next_tag_
    cbw,          \* the CBW last sent (cbw in GetCapacity)
    outData,      \* data the emulator put in its last OUT completion
    totalBlocks,  \* total_blocks_
    blockSize,    \* block_size_ (GetCapacity writes it through a reference)
    capBlocks,    \* capacity, GetCapacity's total_blocks out-parameter
    capOk,        \* the value GetCapacity returned
    initialized,  \* initialized_
    unreadCsw,    \* tags of CBWs whose CSW the driver has not read
    faults        \* transfers failed in the transport so far

vars == <<dpc, nextTag, cbw, outData, capBlocks, totalBlocks, blockSize, capOk,
          initialized, unreadCsw, faults>>

READ_CAPACITY_16 == 158  \* 0x9E
CSW_SIZE == 13
CSW_SIGNATURE == 1396855637           \* 0x53425355, "USBS"

\* Big- and little-endian readings of a byte sequence.
RECURSIVE BEValue(_)
BEValue(s) == IF s = <<>> THEN 0 ELSE BEValue(SubSeq(s, 1, Len(s)-1)) * 256 + s[Len(s)]
LEValue(s) == BEValue([i \in 1..Len(s) |-> s[Len(s)+1-i]])

(* ProcessScsiCommand: a CBW shorter than 31 bytes gets an empty         *)
(* response, any other the answer to its opcode.                          *)
ProcessScsiCommand(c) == IF c.size < CBW_SIZE THEN <<>> ELSE ScsiData(c.op)

(* HandleMassStorageUrb: the response to an OUT URB carries the SCSI data; *)
(* the response to any IN URB is a 13-byte CSW whose signature is copied in *)
(* host (little-endian) order and whose tag, residue and status are 0.     *)
EmulatorOut(c) == ProcessScsiCommand(c)
EmulatorIn == <<85, 83, 66, 83>> \o Zeros(9)

(* libusb_bulk_transfer on the IN endpoint: a device packet longer than the *)
(* buffer is LIBUSB_ERROR_OVERFLOW, a shorter one gives actual_length < len; *)
(* TransferData and ReceiveCSW accept only actual_length = len.            *)
ReadsExactly(len) == Len(EmulatorIn) = len

\* A transfer of the driver either reaches the device or fails in the transport.
TransportOutcomes == IF faults < MaxTransportFaults THEN BOOLEAN ELSE {TRUE}
CountFault(ok) == faults' = IF ok THEN faults ELSE faults + 1

Init ==
    /\ dpc = "open"
    /\ nextTag = 1
    /\ cbw = [size |-> CBW_SIZE, tag |-> 0, len |-> 0, op |-> 0]
    /\ outData = <<>>
    /\ capBlocks = 0
    /\ totalBlocks = 0
    /\ blockSize = 512
    /\ capOk = FALSE
    /\ initialized = FALSE
    /\ unreadCsw = {}
    /\ faults = 0

(* Initialize: Open, FindEndpoints and ClaimInterface act on the local     *)
(* libusb handle; any failure returns false before the device is used.     *)
OpenDevice ==
    /\ dpc = "open"
    /\ \E ok \in TransportOutcomes:
          /\ dpc' = IF ok THEN "reset" ELSE "failed"
          /\ CountFault(ok)
    /\ UNCHANGED <<nextTag, cbw, outData, capBlocks, totalBlocks, blockSize, capOk, initialized, unreadCsw>>

(* ResetDevice: class request 0xFF to the interface.  The emulator answers *)
(* with empty data (HandleClassRequest); a failure is only logged.          *)
ResetDevice ==
    /\ dpc = "reset"
    /\ \E ok \in TransportOutcomes: CountFault(ok)
    /\ dpc' = "cbw16"
    /\ UNCHANGED <<nextTag, cbw, outData, capBlocks, totalBlocks, blockSize, capOk, initialized, unreadCsw>>

(* SendCBW of a fresh tag (next_tag_++): the OUT transfer of the 31 bytes.  *)
(* The emulator runs the command and puts its data in the OUT completion,  *)
(* which the driver never reads.                                           *)
SendCBW(op, len, at, next) ==
    /\ dpc = at
    /\ LET c == [size |-> CBW_SIZE, tag |-> nextTag, len |-> len, op |-> op]
       IN \E ok \in TransportOutcomes:
            /\ cbw' = c
            /\ outData' = IF ok THEN EmulatorOut(c) ELSE outData
            /\ nextTag' = nextTag + 1
            /\ unreadCsw' = IF ok THEN unreadCsw \cup {c.tag} ELSE unreadCsw
            /\ dpc' = IF ok THEN next ELSE "getcap_done"
            /\ CountFault(ok)
    /\ capOk' = FALSE
    /\ UNCHANGED <<capBlocks, totalBlocks, blockSize, initialized>>

SendCBW16 == SendCBW(READ_CAPACITY_16, 32, "cbw16", "data16")
SendCBW10 == SendCBW(READ_CAPACITY_10, 8, "cbw10", "data10")

(* TransferData(true, capacity_data, len): an IN transfer that succeeds     *)
(* only if exactly len bytes arrive.  For READ CAPACITY (16) a failure      *)
(* falls back to READ CAPACITY (10); for (10) it ends GetCapacity with     *)
(* false.  On success the response is parsed, block_size_ directly: (16)   *)
(* blocks = bytes 1..8 + 1, size = bytes 9..12; (10) blocks = bytes 1..4 + 1, *)
(* size = bytes 5..8.                                                      *)
ParseCapacity(d, len) ==
    IF len = 32 THEN [blocks |-> BEValue(SubSeq(d, 1, 8)) + 1, size |-> BEValue(SubSeq(d, 9, 12))]
                ELSE [blocks |-> BEValue(SubSeq(d, 1, 4)) + 1, size |-> BEValue(SubSeq(d, 5, 8))]

TransferData(len, at, onFail) ==
    /\ dpc = at
    /\ \E ok \in TransportOutcomes:
         LET got == ok /\ ReadsExactly(len)
         IN /\ dpc' = IF got THEN "csw" ELSE onFail
            /\ capBlocks' = IF got THEN ParseCapacity(EmulatorIn, len).blocks ELSE capBlocks
            /\ blockSize' = IF got THEN ParseCapacity(EmulatorIn, len).size ELSE blockSize
            /\ CountFault(ok)
    /\ UNCHANGED <<nextTag, cbw, outData, capOk, totalBlocks, initialized, unreadCsw>>

TransferData16 == TransferData(32, "data16", "cbw10")
TransferData10 == TransferData(8, "data10", "getcap_done")

(* ReceiveCSW(csw, cbw.dCBWTag): a 13-byte IN read whose signature and tag *)
(* must match; GetCapacity returns csw.bCSWStatus == 0.                    *)
ReceiveCSW ==
    /\ dpc = "csw"
    /\ \E ok \in TransportOutcomes:
         LET csw == EmulatorIn
             got == ok /\ ReadsExactly(CSW_SIZE)
         IN /\ capOk' = (got /\ LEValue(SubSeq(csw, 1, 4)) = CSW_SIGNATURE
                             /\ LEValue(SubSeq(csw, 5, 8)) = cbw.tag
                             /\ csw[13] = 0)
            /\ unreadCsw' = IF got THEN unreadCsw \ {cbw.tag} ELSE unreadCsw
            /\ CountFault(ok)
    /\ dpc' = "getcap_done"
    /\ UNCHANGED <<nextTag, cbw, outData, capBlocks, totalBlocks, blockSize, initialized>>

(* The rest of Initialize: total_blocks_ = capacity only if GetCapacity    *)
(* returned true; initialized_ is set either way.                          *)
FinishInitialize ==
    /\ dpc = "getcap_done"
    /\ totalBlocks' = IF capOk THEN capBlocks ELSE totalBlocks
    /\ initialized' = TRUE
    /\ dpc' = "initialized"
    /\ UNCHANGED <<nextTag, cbw, outData, capBlocks, blockSize, capOk, unreadCsw, faults>>

Next ==
    \/ OpenDevice
    \/ ResetDevice
    \/ SendCBW16
    \/ TransferData16
    \/ SendCBW10
    \/ TransferData10
    \/ ReceiveCSW
    \/ FinishInitialize

Spec == Init /\ [][Next]_vars

TypeOK ==
    /\ dpc \in {"open", "failed", "reset", "cbw16", "data16", "cbw10", "data10",
                "csw", "getcap_done", "initialized"}
    /\ nextTag \in 1..3
    /\ initialized \in BOOLEAN
    /\ capOk \in BOOLEAN
    /\ faults \in 0..MaxTransportFaults

(* Capacity discovery end to end (spec 4.5, 4.7, 6): a driver that reaches  *)
(* the end of Initialize without a transport fault has read the emulated   *)
(* capacity, 1024 blocks of 512 bytes, through the CBW / data / CSW cycle.  *)
CapacityDiscovered ==
    (dpc = "initialized" /\ faults = 0) => (totalBlocks = 1024 /\ blockSize = 512)

====
