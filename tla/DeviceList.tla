----------------------------- MODULE DeviceList -----------------------------
(***************************************************************************)
(* The device-list reply on the wire.                                      *)
(*                                                                         *)
(* The sender's HandleDeviceListRequest (src/sender/main.cpp) fills one    *)
(* UsbipDeviceInfo per device of mass_storage_devices_, and                *)
(* UsbipProtocol::SerializeDeviceList (src/common/protocol/                *)
(* usbip_protocol.cpp) lays them out after a 12-byte header: the op code,  *)
(* the status and the count, each htonl'd, then each packed struct with    *)
(* its 32- and 16-bit fields converted by htonl/htons.  The receiver's     *)
(* UsbipClient::HandleDeviceListResponse (src/receiver/usbip/              *)
(* usbip_client.cpp) skips 8 bytes, reads the count with ntohl and copies  *)
(* structs while both the count and the payload last, converting them      *)
(* back with ntohl/ntohs.                                                  *)
(*                                                                         *)
(* A payload is a sequence of cells.  A cell is a byte (0..255), except    *)
(* that the char arrays path[256] and busid[32] are one cell each, holding *)
(* the string: they are copied by memcpy and never converted.  Multi-byte  *)
(* integers are split into bytes in the host's order, so a missing or      *)
(* doubled conversion shows up as a different value.                       *)
(***************************************************************************)
EXTENDS Integers, Sequences, SequencesExt

CONSTANT LittleEndian   \* byte order of the hosts the programs run on

(* UsbipOpCode::OP_REPLY | UsbipOpCode::OP_DEVLIST *)
OpReplyDevlist == 5

(* UsbDeviceClass::MASS_STORAGE *)
MassStorageClass == 8

(* sizeof(UsbipDeviceInfo) in cells: path and busid, three uint32_t,      *)
(* three uint16_t and six uint8_t.                                         *)
InfoSize == 2 + 3 * 4 + 3 * 2 + 6

(* The bytes of v, most significant first. *)
BigEndianBytes(v, n) == [i \in 1..n |-> (v \div 2^(8 * (n - i))) % 256]

(* The value of 2 or 4 bytes, most significant first. *)
BigEndianValue(b) ==
    IF Len(b) = 2 THEN b[1] * 256 + b[2]
    ELSE ((b[1] * 256 + b[2]) * 256 + b[3]) * 256 + b[4]

(* memcpy of an n-byte integer out of, or into, host memory. *)
Store(v, n) == IF LittleEndian THEN Reverse(BigEndianBytes(v, n)) ELSE BigEndianBytes(v, n)
Load(b) == IF LittleEndian THEN BigEndianValue(Reverse(b)) ELSE BigEndianValue(b)

(* htonl/htons: the integer whose bytes in memory are those of v in       *)
(* network order -- a byte swap on a little-endian host.                   *)
Hton(v, n) == Load(BigEndianBytes(v, n))

(* ntohl/ntohs: the same swap. *)
Ntoh(v, n) == Load(BigEndianBytes(v, n))

-----------------------------------------------------------------------------
(* The sender *)

(* HandleDeviceListRequest: the UsbipDeviceInfo built for one device, its *)
(* fields taken from the device descriptor, with bConfigurationValue and *)
(* bNumInterfaces set to 1.                                               *)
ListInfo(dev) == [dev EXCEPT !.bConfigurationValue = 1, !.bNumInterfaces = 1]

(* The loop body of SerializeDeviceList: the struct with its multi-byte   *)
(* fields converted, copied byte for byte.                                 *)
SerializeInfo(info) ==
    <<info.path, info.busid>>
        \o Store(Hton(info.busnum, 4), 4) \o Store(Hton(info.devnum, 4), 4)
        \o Store(Hton(info.speed, 4), 4)
        \o Store(Hton(info.idVendor, 2), 2) \o Store(Hton(info.idProduct, 2), 2)
        \o Store(Hton(info.bcdDevice, 2), 2)
        \o <<info.bDeviceClass, info.bDeviceSubClass, info.bDeviceProtocol,
             info.bConfigurationValue, info.bNumConfigurations, info.bNumInterfaces>>

SerializeDeviceList(infos) ==
    Store(Hton(OpReplyDevlist, 4), 4) \o Store(Hton(0, 4), 4)
        \o Store(Hton(Len(infos), 4), 4)
        \o FlattenSeq([i \in 1..Len(infos) |-> SerializeInfo(infos[i])])

-----------------------------------------------------------------------------
(* The receiver *)

(* One iteration of the parse loop: memcpy of the struct at the offset,   *)
(* then ntohl/ntohs on its multi-byte fields.                              *)
ParseInfo(b) ==
    [path |-> b[1], busid |-> b[2],
     busnum |-> Ntoh(Load(SubSeq(b, 3, 6)), 4),
     devnum |-> Ntoh(Load(SubSeq(b, 7, 10)), 4),
     speed |-> Ntoh(Load(SubSeq(b, 11, 14)), 4),
     idVendor |-> Ntoh(Load(SubSeq(b, 15, 16)), 2),
     idProduct |-> Ntoh(Load(SubSeq(b, 17, 18)), 2),
     bcdDevice |-> Ntoh(Load(SubSeq(b, 19, 20)), 2),
     bDeviceClass |-> b[21], bDeviceSubClass |-> b[22], bDeviceProtocol |-> b[23],
     bConfigurationValue |-> b[24], bNumConfigurations |-> b[25],
     bNumInterfaces |-> b[26]]

(* Mutant: the loop test "offset + sizeof(UsbipDeviceInfo) < size", which *)
(* drops the struct that ends exactly at the end of the payload.           *)
RECURSIVE ParseDevicesStrict(_, _, _, _)
ParseDevicesStrict(data, offset, i, num) ==
    IF i < num /\ offset + InfoSize < Len(data)
       THEN <<ParseInfo(SubSeq(data, offset + 1, offset + InfoSize))>>
                \o ParseDevicesStrict(data, offset + InfoSize, i + 1, num)
       ELSE <<>>

(* for (i = 0; i < num_devices && offset + sizeof(UsbipDeviceInfo) <=    *)
(* payload.size(); ++i): offsets count from 0.                             *)
RECURSIVE ParseDevices(_, _, _, _)
ParseDevices(data, offset, i, num) ==
    IF i < num /\ offset + InfoSize <= Len(data)
       THEN <<ParseInfo(SubSeq(data, offset + 1, offset + InfoSize))>>
                \o ParseDevices(data, offset + InfoSize, i + 1, num)
       ELSE <<>>

(* HandleDeviceListResponse: the devices passed to device_list_callback_; *)
(* none when the payload is shorter than 12 bytes.                         *)
HandleDeviceListResponse(payload) ==
    IF Len(payload) >= 12
       THEN ParseDevices(payload, 12, 0, Ntoh(Load(SubSeq(payload, 9, 12)), 4))
       ELSE <<>>

(* OnDeviceListReceived imports a device when its bDeviceClass is         *)
(* MASS_STORAGE.                                                           *)
IsMassStorageInfo(info) == info.bDeviceClass = MassStorageClass

=============================================================================
