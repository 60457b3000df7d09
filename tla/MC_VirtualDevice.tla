-------------------------- MODULE MC_VirtualDevice --------------------------
(* Model values for checking VirtualDevice with TLC. *)
EXTENDS VirtualDevice, TLC

CONSTANTS d1, d2, d3, d4

(* VirtualUsbDevice objects: one per ImportDeviceInternal call. *)
MCDevices == {d1, d2, d3, d4}

(* Two mass-storage devices as the sender's libusb reports them.  The     *)
(* multi-byte fields have distinct bytes, so a missing byte swap changes  *)
(* them; bConfigurationValue and bNumInterfaces are what the sender       *)
(* overwrites.                                                             *)
DevA == [path |-> "pathA", busid |-> "1-1", busnum |-> 1, devnum |-> 2,
         speed |-> 3, idVendor |-> 81, idProduct |-> 100, bcdDevice |-> 16,
         bDeviceClass |-> 8, bDeviceSubClass |-> 6, bDeviceProtocol |-> 80,
         bConfigurationValue |-> 0, bNumConfigurations |-> 1, bNumInterfaces |-> 0]
DevB == [DevA EXCEPT !.path = "pathB", !.busid = "1-2", !.devnum = 3]

(* Contents of mass_storage_devices_ when a request is answered: one      *)
(* device, or two.                                                         *)
MCSenderLists == {<<DevA>>, <<DevA, DevB>>}

(* Control transfers the peer submits, as setup bytes:                     *)
(* GET_DESCRIPTOR(DEVICE), GET_DESCRIPTOR(STRING 2), Get Max LUN,         *)
(* SET_CONFIGURATION(1) and GET_CONFIGURATION.  wLength, which becomes a  *)
(* 32-bit field of CMD_SUBMIT, stays below 128, as do the sender's 32-bit *)
(* fields: their byte swap must fit TLC's 32-bit integers.                *)
MCUrbSetups ==
    {<<128, 6, 0, 1, 0, 0, 18, 0>>, <<128, 6, 2, 3, 9, 4, 64, 0>>,
     <<161, 254, 0, 0, 0, 0, 1, 0>>, <<0, 9, 1, 0, 0, 0, 0, 0>>,
     <<128, 8, 0, 0, 0, 0, 1, 0>>}

(* SCSI commands the peer submits as CBWs: INQUIRY, READ CAPACITY (10)   *)
(* and TEST UNIT READY, which the emulator does not support.              *)
MCScsiOps == {INQUIRY, READ_CAPACITY_10, 0}

MCSymmetry == Permutations(MCDevices)

=============================================================================
