----------------------------- MODULE UsbipSubmit -----------------------------
(***************************************************************************)
(* The USBIP_CMD_SUBMIT payload of a URB_SUBMIT message and the URB the    *)
(* receiver makes of it (UsbipClient::HandleUrbSubmit,                     *)
(* src/receiver/usbip/usbip_client.cpp).  The layout is                    *)
(* UsbipProtocol::SerializeCmdSubmit's (src/common/protocol/               *)
(* usbip_protocol.cpp): the packed UsbipCmdSubmit, its 32-bit fields       *)
(* htonl'd and its 8 setup bytes copied verbatim, then the transfer data.  *)
(* Cells and byte order are as in DeviceList.                               *)
(***************************************************************************)
EXTENDS Integers, Sequences, DeviceList

(* sizeof(UsbipCmdSubmit): five header words, five 32-bit fields, setup. *)
CmdSubmitSize == 48

(* A 32-bit field after htonl, as memcpy writes it. *)
NetWord(v) == Store(Hton(v, 4), 4)

(* HostToNetwork(UsbipCmdSubmit) and the memcpy's of SerializeCmdSubmit;  *)
(* the setup field is left as it is.                                       *)
SerializeCmdSubmit(cmd, data) ==
    NetWord(cmd.command) \o NetWord(cmd.seqnum) \o NetWord(cmd.devid)
        \o NetWord(cmd.direction) \o NetWord(cmd.ep)
        \o NetWord(cmd.transfer_flags) \o NetWord(cmd.transfer_buffer_length)
        \o NetWord(cmd.start_frame) \o NetWord(cmd.number_of_packets)
        \o NetWord(cmd.interval) \o cmd.setup \o data

(* The 32-bit field at byte i of a payload, after memcpy and ntohl. *)
Word(b, i) == Ntoh(Load(SubSeq(b, i, i + 3)), 4)

(* ParseCmdSubmit: memcpy of the struct, then NetworkToHost on every     *)
(* field but setup.                                                        *)
ParseCmdSubmit(b) ==
    [command |-> Word(b, 1), seqnum |-> Word(b, 5), devid |-> Word(b, 9),
     direction |-> Word(b, 13), ep |-> Word(b, 17),
     transfer_flags |-> Word(b, 21), transfer_buffer_length |-> Word(b, 25),
     start_frame |-> Word(b, 29), number_of_packets |-> Word(b, 33),
     interval |-> Word(b, 37), setup |-> SubSeq(b, 41, 48)]

(* The transfer data HandleUrbSubmit copies: transfer_buffer_length bytes *)
(* after the struct, when that length is positive (the peer's lengths stay *)
(* below 2^31, so the int32 is the parsed value) and the payload holds     *)
(* them; otherwise none.                                                   *)
(* Mutant: the data taken from the start of the setup field.              *)
TransferDataAtSetup(payload, len) ==
    IF len > 0 /\ Len(payload) >= CmdSubmitSize + len
       THEN SubSeq(payload, CmdSubmitSize - 7, CmdSubmitSize - 8 + len) ELSE <<>>

TransferData(payload, len) ==
    IF len > 0 /\ Len(payload) >= CmdSubmitSize + len
       THEN SubSeq(payload, CmdSubmitSize + 1, CmdSubmitSize + len) ELSE <<>>

(* HandleUrbSubmit: a payload shorter than UsbipCmdSubmit is dropped      *)
(* (ParseCmdSubmit's own length check is the same test); otherwise the    *)
(* URB takes the seqnum as id and the low bytes of direction and ep (the *)
(* casts to the uint8_t enum and endpoint), and endpoint 0 makes it a     *)
(* CONTROL transfer carrying the setup bytes, any                          *)
(* other a BULK one whose setup stays uninitialized (<<>> here: nothing    *)
(* reads it).  The result is the URB passed to urb_callback_, or none.     *)
HandleUrbSubmit(payload) ==
    IF Len(payload) < CmdSubmitSize
       THEN <<>>
       ELSE LET cmd == ParseCmdSubmit(payload)
                endpoint == cmd.ep % 256
            IN  <<[id |-> cmd.seqnum, endpoint |-> endpoint,
                   direction |-> cmd.direction % 256, flags |-> cmd.transfer_flags,
                   type |-> IF endpoint = 0 THEN "control" ELSE "bulk",
                   setup |-> IF endpoint = 0 THEN cmd.setup ELSE <<>>,
                   data |-> TransferData(payload, cmd.transfer_buffer_length)]>>

=============================================================================
