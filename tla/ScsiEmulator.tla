----------------------------- MODULE ScsiEmulator -----------------------------
(***************************************************************************)
(* The receiver's emulated SCSI target: VirtualUsbDevice::               *)
(* ProcessScsiCommand (src/receiver/virtual_device/virtual_usb_device.cpp). *)
(* It keeps no state between commands: each answer is a function of the   *)
(* SCSI opcode alone.  MassStorage drives it   *)
(* with abstract CBWs, UsbEmulator with the bytes of a bulk URB.           *)
(***************************************************************************)
EXTENDS Naturals, Sequences

INQUIRY == 18            \* 0x12
READ_CAPACITY_10 == 37   \* 0x25
CBW_SIZE == 31

Zeros(n) == [i \in 1..n |-> 0]

(* The switch of ProcessScsiCommand: INQUIRY gives 36 bytes (peripheral  *)
(* type 0, removable, SCSI-2, format 2, additional length 31; the vendor  *)
(* and product text is left out), READ CAPACITY (10) gives htonl(1023)    *)
(* then htonl(512), every other opcode an empty response.                 *)
ScsiData(op) ==
    CASE op = INQUIRY          -> <<0, 128, 4, 2, 31>> \o Zeros(31)
      [] op = READ_CAPACITY_10 -> <<0, 0, 3, 255, 0, 0, 2, 0>>
      [] OTHER                 -> <<>>

=============================================================================
