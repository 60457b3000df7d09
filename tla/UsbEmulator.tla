----------------------------- MODULE UsbEmulator -----------------------------
(***************************************************************************)
(* The answers of the receiver's emulated device to control transfers     *)
(* (src/receiver/virtual_device/virtual_usb_device.cpp): the descriptors   *)
(* CreateDevice synthesises from the imported UsbipDeviceInfo, and         *)
(* HandleControlUrb's dispatch on the setup packet, and the bulk path      *)
(* (HandleBulkUrb, HandleMassStorageUrb).  Only the selected configuration *)
(* is state; it is passed in and returned.                                 *)
(*                                                                         *)
(* A setup packet is its 8 bytes as they come in CMD_SUBMIT:               *)
(* HandleUrbSubmit memcpy's them into UsbSetupPacket without conversion,  *)
(* so its 16-bit fields are read in the host's byte order (Load).         *)
(***************************************************************************)
EXTENDS Integers, Sequences, Bitwise, DeviceList, ScsiEmulator

(* UsbStandardRequest and UsbDescriptorType (src/common/protocol/         *)
(* usb_types.h).                                                           *)
GET_DESCRIPTOR == 6
GET_CONFIGURATION == 8
SET_CONFIGURATION == 9
DEVICE == 1
CONFIGURATION == 2
STRING_DESCRIPTOR == 3  \* UsbDescriptorType::STRING

(* memcpy(&urb.setup, &cmd_submit.setup, sizeof(urb.setup)) *)
SetupPacket(b) ==
    [bmRequestType |-> b[1], bRequest |-> b[2],
     wValue |-> Load(SubSeq(b, 3, 4)), wIndex |-> Load(SubSeq(b, 5, 6)),
     wLength |-> Load(SubSeq(b, 7, 8))]

(* CreateDeviceDescriptors: the 18-byte UsbDeviceDescriptor written       *)
(* through a struct pointer, so its 16-bit fields are in host order.      *)
CreateDeviceDescriptors(info) ==
    <<18, DEVICE>> \o Store(512, 2)
        \o <<info.bDeviceClass, info.bDeviceSubClass, info.bDeviceProtocol, 64>>
        \o Store(info.idVendor, 2) \o Store(info.idProduct, 2)
        \o Store(info.bcdDevice, 2)
        \o <<1, 2, 3, 1>>

(* config_descriptor_.resize(32): 32 zero bytes. *)
ConfigDescriptor == [i \in 1..32 |-> 0]

(* string_descriptors_ of the constructor: the language-ID descriptor for *)
(* index 0, else bLength = 2 + 2 * length, type 3 and the UTF-16 text --  *)
(* the text is kept as one cell.                                           *)
StringText == <<"USB Redirector", "Virtual Mass Storage", "123456789">>
StringLength == <<14, 20, 9>>

GetStringDescriptor(index) ==
    IF index = 0 THEN <<4, 3, 9, 4>>
    ELSE IF index < 4 THEN <<2 + 2 * StringLength[index], 3, StringText[index]>>
    ELSE <<>>

(* Mutant: the descriptor type taken from the low byte of wValue, the     *)
(* index's byte.                                                           *)
DescriptorTypeLowByte(wValue) == wValue & 255

(* uint8_t desc_type = (setup.wValue >> 8) & 0xFF *)
DescriptorType(wValue) == shiftR(wValue, 8) & 255

(* HandleStandardRequest: the response bytes and current_configuration_. *)
HandleStandardRequest(info, cfg, setup) ==
    LET descType == DescriptorType(setup.wValue)
        descIndex == setup.wValue & 255
    IN  CASE setup.bRequest = GET_DESCRIPTOR ->
               [data |-> CASE descType = DEVICE -> CreateDeviceDescriptors(info)
                           [] descType = CONFIGURATION -> ConfigDescriptor
                           [] descType = STRING_DESCRIPTOR -> GetStringDescriptor(descIndex)
                           [] OTHER -> <<>>,
                config |-> cfg]
          [] setup.bRequest = SET_CONFIGURATION ->
               [data |-> <<>>, config |-> setup.wValue & 255]
          [] setup.bRequest = GET_CONFIGURATION -> [data |-> <<cfg>>, config |-> cfg]
          [] OTHER -> [data |-> <<>>, config |-> cfg]

(* HandleClassRequest: for a mass-storage device, Get Max LUN (0xFE)      *)
(* answers one byte 0; the reset (0xFF) and everything else answer        *)
(* nothing.                                                                *)
HandleClassRequest(info, setup) ==
    IF IsMassStorageInfo(info) /\ setup.bRequest = 254 THEN <<0>> ELSE <<>>

(* HandleVendorRequest: no vendor request is implemented. *)
HandleVendorRequest(setup) == <<>>

(* HandleControlUrb: the request type bits of bmRequestType select the    *)
(* handler; vendor requests answer nothing, and a reserved type leaves    *)
(* the response with the URB's own data.                                  *)
HandleControlUrb(info, cfg, setup, data) ==
    LET kind == setup.bmRequestType & 96 IN
    CASE kind = 0 -> HandleStandardRequest(info, cfg, setup)
      [] kind = 32 -> [data |-> HandleClassRequest(info, setup), config |-> cfg]
      [] kind = 64 -> [data |-> HandleVendorRequest(setup), config |-> cfg]
      [] OTHER -> [data |-> data, config |-> cfg]

(* ProcessScsiCommand on the bytes of a CBW: the opcode is CBWCB[0], byte *)
(* 15 of the wire form.                                                    *)
ProcessScsiCommand(d) == IF Len(d) < CBW_SIZE THEN <<>> ELSE ScsiData(d[16])

(* HandleMassStorageUrb: the response starts as a copy of the URB; an OUT *)
(* URB carrying a whole CBW gets the SCSI data, a shorter one keeps its    *)
(* own data; an IN URB's data is resized to 13 bytes (zero-filled past   *)
(* its end) and its first four overwritten with the signature 0x53425355  *)
(* in host order.                                                          *)
HandleMassStorageUrb(urb) ==
    IF urb.direction = 0
       THEN IF Len(urb.data) >= CBW_SIZE THEN ProcessScsiCommand(urb.data) ELSE urb.data
       ELSE Store(1396855637, 4)
            \o SubSeq(urb.data \o Zeros(13), 5, 13)

(* SimulateDeviceResponse: an OUT URB is acknowledged with no data, an IN *)
(* URB answered with the bytes 0, 1, 2, 3.                                  *)
SimulateDeviceResponse(urb) == IF urb.direction = 0 THEN <<>> ELSE <<0, 1, 2, 3>>

(* HandleBulkUrb: device_info_'s class selects the mass-storage handler.  *)
HandleBulkUrb(info, urb) ==
    IF IsMassStorageInfo(info) THEN HandleMassStorageUrb(urb) ELSE SimulateDeviceResponse(urb)

=============================================================================
