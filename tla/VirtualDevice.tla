---------------------------- MODULE VirtualDevice ----------------------------
(***************************************************************************)
(* The receiver's virtual devices (src/receiver/virtual_device/           *)
(* virtual_usb_device.cpp) and the port allocator of UsbipManager, driven  *)
(* as src/receiver/main.cpp drives them.                                   *)
(*                                                                         *)
(* Two threads act on them.  The TCP receive thread runs the client's     *)
(* message callbacks: a device list, parsed as DeviceList parses it,      *)
(* triggers ImportDeviceInternal for each mass-storage device it lists,   *)
(* one after the other, and a URB_SUBMIT runs OnUrbReceived,              *)
(* which hands the URB to the first device of virtual_devices_.  The main *)
(* thread runs UsbReceiver::Stop: it detaches every listed device, clears *)
(* the list, and disconnects (which joins the receive thread).            *)
(*                                                                         *)
(* A VirtualUsbDevice lives while a shared_ptr refers to it: an entry of  *)
(* virtual_devices_, or the local of ImportDeviceInternal.  The last      *)
(* reference gone, ~VirtualUsbDevice runs DestroyDevice.                   *)
(***************************************************************************)
EXTENDS Integers, Sequences, FiniteSets, SequencesExt, DeviceList, UsbEmulator, UsbipSubmit

CONSTANTS
    Devices,    \* VirtualUsbDevice objects ImportDeviceInternal may create
    NumPorts,   \* size of UsbipManager::port_usage_ (8 in the code)
    MaxUrbs,    \* bound on the number of URB_SUBMIT messages received
    SenderLists, \* contents of mass_storage_devices_ a device list may report
    MaxLists,   \* bound on the number of device lists received
    UrbSetups,  \* setup packets of the control transfers the peer may submit
    ScsiOps,    \* SCSI opcodes of the CBWs the peer may submit on bulk OUT
    NoDevice    \* model value: no device

Ports == 0..(NumPorts - 1)
NoPort == -1

VARIABLES
    portUsage,  \* UsbipManager::port_usage_
    created,    \* VirtualUsbDevice::created_
    attached,   \* VirtualUsbDevice::attached_
    port,       \* VirtualUsbDevice::port_number_
    born,       \* devices constructed so far
    freed,      \* devices whose destructor has run
    list,       \* UsbReceiver::virtual_devices_
    connected,  \* the client's TCP connection is open (sends succeed)
    rpc,        \* the receive thread's program counter
    rdev,       \* the device the receive thread is working on
    mpc,        \* the main thread's program counter (UsbReceiver::Stop)
    mi,         \* index of Stop's loop over virtual_devices_
    urbs,       \* number of URB_SUBMIT messages received
    responses,  \* history: urb_response_callback_ calls (device, setup, data)
    rurb,       \* the URB the receive thread is handling: what HandleUrbSubmit
                \* parsed, and (history) the request the peer sent
    source,     \* device_info_ of each device: its index in imported
    config,     \* VirtualUsbDevice::current_configuration_
    pending,    \* entries of the device list OnDeviceListReceived has yet to visit
    lists,      \* number of device lists received
    imported,   \* history: the UsbipDeviceInfo of every ImportDeviceInternal call
    listed      \* history: the mass-storage devices the sender's lists reported

vars == <<portUsage, created, attached, port, born, freed, list, connected,
          rpc, rdev, mpc, mi, urbs, responses, pending, lists, imported, listed,
          rurb, source, config>>

(* Variables of the device-list loop, left alone by the other steps. *)
listVars == <<pending, lists, imported, listed>>

(* Variables of the emulated device, left alone by the other steps. *)
emuVars == <<rurb, source, config>>

(* shared_ptr references to d: entries of the list, and the local of     *)
(* ImportDeviceInternal while the receive thread runs it.  The reference *)
(* OnUrbReceived uses is an "auto&" into the vector, not a shared_ptr.   *)
Refs(d, l, pc, cur) ==
    Cardinality({i \in DOMAIN l : l[i] = d})
        + (IF pc \in {"push", "send"} /\ cur = d THEN 1 ELSE 0)

(* Mutant: the allocator returns the slot without marking it. *)
GetAvailablePortUnmarked(usage) ==
    IF \E p \in Ports : ~usage[p]
       THEN LET p == Min({q \in Ports : ~usage[q]}) IN [port |-> p, usage |-> usage]
       ELSE [port |-> NoPort, usage |-> usage]

(* Mutant: the scan runs one slot past the end ("i <= size()") and, with *)
(* every port taken, returns the index just past the vector.              *)
GetAvailablePortPastEnd(usage) ==
    IF \E p \in Ports : ~usage[p]
       THEN LET p == Min({q \in Ports : ~usage[q]})
            IN  [port |-> p, usage |-> [usage EXCEPT ![p] = TRUE]]
       ELSE [port |-> NumPorts, usage |-> usage]

(* UsbipManager::GetAvailablePort: the first free slot, marked used, or -1. *)
GetAvailablePort(usage) ==
    IF \E p \in Ports : ~usage[p]
       THEN LET p == Min({q \in Ports : ~usage[q]})
            IN  [port |-> p, usage |-> [usage EXCEPT ![p] = TRUE]]
       ELSE [port |-> NoPort, usage |-> usage]

(* UsbipManager::ReleasePort, for the ports of a set of devices. *)
ReleasePorts(usage, S) ==
    [p \in Ports |-> IF \E d \in S : created[d] /\ port[d] = p THEN FALSE ELSE usage[p]]

DestroyDevices(S) ==
    /\ portUsage' = ReleasePorts(portUsage, S)
    /\ created' = [d \in Devices |-> IF d \in S THEN FALSE ELSE created[d]]
    /\ port' = [d \in Devices |-> IF d \in S /\ created[d] THEN NoPort ELSE port[d]]
    /\ attached' = [d \in Devices |-> IF d \in S THEN FALSE ELSE attached[d]]

-----------------------------------------------------------------------------

(* The requests the peer makes: a control transfer for each setup packet, *)
(* a bulk OUT carrying a CBW for each SCSI opcode, a bulk IN read, and a    *)
(* payload too short to be a CMD_SUBMIT.                                    *)
Request(kind, setup, op) == [kind |-> kind, setup |-> setup, op |-> op]
Requests ==
    {Request("control", s, 0) : s \in UrbSetups}
        \cup {Request("bulk_out", <<>>, o) : o \in ScsiOps}
        \cup {Request("bulk_in", <<>>, 0), Request("short", <<>>, 0)}
NoRequest == Request("none", <<>>, 0)

(* No URB in hand. *)
NoUrb == [req |-> NoRequest, type |-> "none", direction |-> 0, setup |-> <<>>, data |-> <<>>]

Init ==
    /\ portUsage = [p \in Ports |-> FALSE]
    /\ created = [d \in Devices |-> FALSE]
    /\ attached = [d \in Devices |-> FALSE]
    /\ port = [d \in Devices |-> NoPort]
    /\ born = {}
    /\ freed = {}
    /\ list = <<>>
    /\ connected = TRUE
    /\ rpc = "idle"
    /\ rdev = NoDevice
    /\ mpc = "running"
    /\ mi = 1
    /\ urbs = 0
    /\ responses = <<>>
    /\ pending = <<>>
    /\ lists = 0
    /\ imported = <<>>
    /\ listed = <<>>
    /\ rurb = NoUrb
    /\ source = [d \in Devices |-> 0]
    /\ config = [d \in Devices |-> 0]


(* The receive thread *)

(* VirtualUsbDevice::CreateDevice succeeded: it stored device_info_ (the  *)
(* entry being imported), took port g.port from GetAvailablePort, built   *)
(* the descriptors from device_info_, and stored created_.                *)
CreateDevice(d, g) ==
    /\ source' = [source EXCEPT ![d] = Len(imported) + 1]
    /\ portUsage' = g.usage
    /\ created' = [created EXCEPT ![d] = TRUE]
    /\ port' = [port EXCEPT ![d] = g.port]

(* AttachToPort runs ExecuteCommand("echo 'attach ...' > .../attach"): the *)
(* exit status of std::system, zero or not.                                *)
AttachToPort == BOOLEAN

(* VirtualUsbDevice::AttachDevice succeeded: the URB thread is started and *)
(* attached_ stored.                                                       *)
AttachDevice(d) == attached' = [attached EXCEPT ![d] = TRUE]

(* The sender's answer to a device-list request: HandleDeviceListRequest  *)
(* builds one UsbipDeviceInfo per device, which CreateDeviceListResponse *)
(* serializes.                                                             *)
SenderInfos(devs) == [i \in 1..Len(devs) |-> ListInfo(devs[i])]

(* A DEVICE_LIST_RESPONSE arrives: HandleDeviceListResponse parses it and *)
(* device_list_callback_ runs OnDeviceListReceived on the parsed devices. *)
(* listed records what the sender reported.                                *)
DeviceListReceived ==
    /\ rpc = "idle" /\ connected
    /\ lists < MaxLists
    /\ lists' = lists + 1
    /\ \E devs \in SenderLists :
          /\ pending' = HandleDeviceListResponse(SerializeDeviceList(SenderInfos(devs)))
          /\ listed' = listed \o SelectSeq(SenderInfos(devs), IsMassStorageInfo)
    /\ rpc' = "list"
    /\ UNCHANGED <<portUsage, created, attached, port, born, freed, list,
                   connected, rdev, mpc, mi, urbs, responses, imported>>
    /\ UNCHANGED emuVars

(* The loop of OnDeviceListReceived: at its end the callback returns; an  *)
(* entry whose class is not MASS_STORAGE is passed over; a mass-storage   *)
(* entry is imported.                                                      *)
NextEntry ==
    /\ rpc = "list"
    /\ IF pending = <<>>
          THEN rpc' = "idle" /\ UNCHANGED pending
       ELSE IF IsMassStorageInfo(Head(pending))
          THEN rpc' = "import" /\ UNCHANGED pending
          ELSE pending' = Tail(pending) /\ UNCHANGED rpc
    /\ UNCHANGED <<portUsage, created, attached, port, born, freed, list,
                   connected, rdev, mpc, mi, urbs, responses, lists, imported,
                   listed>>
    /\ UNCHANGED emuVars

(* ImportDeviceInternal for the entry: make_shared, then CreateDevice (a  *)
(* port from GetAvailablePort, or failure), then AttachDevice, whose      *)
(* AttachToPort may fail.  On either failure the local shared_ptr is the  *)
(* only reference and the device is destroyed on return, releasing the   *)
(* port it took, and the loop goes on.                                     *)
ImportDevice(d) ==
    /\ rpc = "import"
    /\ d \notin born
    /\ born' = born \cup {d}
    /\ imported' = Append(imported, Head(pending))
    /\ pending' = Tail(pending)
    /\ \E attachOk \in AttachToPort :
       LET g == GetAvailablePort(portUsage) IN
       IF g.port # NoPort /\ attachOk
          THEN /\ CreateDevice(d, g)
               /\ AttachDevice(d)
               /\ rpc' = "push" /\ rdev' = d
               /\ UNCHANGED freed
          ELSE /\ freed' = freed \cup {d}
               /\ rpc' = "list"
               /\ UNCHANGED <<portUsage, created, attached, port, rdev, source>>
    /\ UNCHANGED <<list, connected, mpc, mi, urbs, responses, lists, listed,
                   rurb, config>>

(* virtual_devices_.push_back(virtual_device), without a mutex. *)
ImportPush ==
    /\ rpc = "push"
    /\ list' = Append(list, rdev)
    /\ rpc' = "send"
    /\ UNCHANGED <<portUsage, created, attached, port, born, freed, connected,
                   rdev, mpc, mi, urbs, responses>>
    /\ UNCHANGED listVars
    /\ UNCHANGED emuVars

(* UsbipClient::ImportDevice sends the import request: false when         *)
(* connected_ is clear or TcpSocket::Send fails on the closed socket.      *)
ImportDeviceSent == connected

(* usbip_client_->ImportDevice(busid): it fails once the socket is        *)
(* closed.  On success the function returns and its local reference is    *)
(* dropped.  On failure: DetachDevice, DestroyDevice, pop_back -- and a    *)
(* pop_back on a vector Stop has emptied is undefined behaviour, taken    *)
(* here as the crash it leads to: both threads stop.                       *)
ImportSend ==
    /\ rpc = "send"
    /\ rdev' = NoDevice
    /\ \/ /\ ImportDeviceSent
          /\ LET gone == IF Refs(rdev, list, "idle", NoDevice) = 0
                            THEN {rdev} ELSE {}
             IN  DestroyDevices(gone) /\ freed' = freed \cup gone
          /\ rpc' = "list"
          /\ UNCHANGED <<list, mpc>>
       \/ /\ ~ImportDeviceSent /\ list # <<>>
          /\ DestroyDevices({rdev})
          /\ list' = Front(list)
          /\ freed' = freed \cup {rdev}
          /\ rpc' = "list"
          /\ UNCHANGED mpc
       \/ /\ ~ImportDeviceSent /\ list = <<>>
          /\ rpc' = "crashed" /\ mpc' = "crashed"
          /\ UNCHANGED <<portUsage, created, attached, port, freed, list>>
    /\ UNCHANGED <<born, connected, mi, urbs, responses>>
    /\ UNCHANGED listVars
    /\ UNCHANGED emuVars

(* The peer's URB_SUBMIT payloads: the CMD_SUBMIT of a control transfer   *)
(* on endpoint 0 for each setup packet (seqnum 7, direction IN, the      *)
(* buffer length wLength), laid out by SerializeCmdSubmit, and a payload  *)
(* shorter than a CMD_SUBMIT, such as the 40-byte RET_SUBMIT this         *)
(* repository's sender (UrbProcessor::ProcessUrb) makes of an IN URB      *)
(* without data; HandleUrbSubmit looks only at its length, so the model   *)
(* takes <<>> for it.                                                      *)
ControlCmd(setup) ==
    [command |-> 1, seqnum |-> 7, devid |-> 1, direction |-> 1, ep |-> 0,
     transfer_flags |-> 0, transfer_buffer_length |-> setup[7] + 256 * setup[8],
     start_frame |-> 0, number_of_packets |-> 0, interval |-> 0, setup |-> setup]

(* A bulk transfer on endpoint ep of len bytes; the setup field is zero. *)
BulkCmd(dir, ep, len) ==
    [command |-> 1, seqnum |-> 7, devid |-> 1, direction |-> dir, ep |-> ep,
     transfer_flags |-> 0, transfer_buffer_length |-> len,
     start_frame |-> 0, number_of_packets |-> 0, interval |-> 0, setup |-> Zeros(8)]

(* The 31 bytes of a bulk-only CBW for a SCSI opcode, in the little-endian *)
(* order of the USB wire: "USBC", tag 1, the data length the command       *)
(* returns, direction IN when it returns data, LUN 0, a 10-byte CDB.       *)
CbwDataLength(op) == CASE op = INQUIRY -> 36 [] op = READ_CAPACITY_10 -> 8 [] OTHER -> 0
Cbw(op) ==
    <<85, 83, 66, 67, 1, 0, 0, 0, CbwDataLength(op), 0, 0, 0,
      IF CbwDataLength(op) > 0 THEN 128 ELSE 0, 0, 10, op>> \o Zeros(15)

(* The payload of each request: a bulk OUT goes to endpoint 2 with the CBW *)
(* as its data, a bulk IN to endpoint 1 asking for a 13-byte CSW.          *)
UrbPayload(req) ==
    CASE req.kind = "control"  -> SerializeCmdSubmit(ControlCmd(req.setup), <<>>)
      [] req.kind = "bulk_out" -> SerializeCmdSubmit(BulkCmd(0, 2, CBW_SIZE), Cbw(req.op))
      [] req.kind = "bulk_in"  -> SerializeCmdSubmit(BulkCmd(1, 1, 13), <<>>)
      [] OTHER                 -> <<>>


(* A URB_SUBMIT arrives: OnUrbReceived takes the first listed device and  *)
(* ProcessUrb reads attached_ without the device mutex; a URB for no      *)
(* device, or for a device not attached, is dropped, and so is a payload  *)
(* HandleUrbSubmit rejects.                                                  *)
OnUrbReceived ==
    /\ rpc = "idle" /\ connected
    /\ urbs < MaxUrbs
    /\ urbs' = urbs + 1
    /\ \E req \in Requests :
       LET urb == HandleUrbSubmit(UrbPayload(req)) IN
       IF urb # <<>> /\ list # <<>> /\ attached[list[1]]
          THEN rpc' = "urb" /\ rdev' = list[1]
               /\ rurb' = [req |-> req, type |-> urb[1].type, direction |-> urb[1].direction,
                          setup |-> urb[1].setup, data |-> urb[1].data]
          ELSE UNCHANGED <<rpc, rdev, rurb>>
    /\ UNCHANGED <<portUsage, created, attached, port, born, freed, list,
                   connected, mpc, mi, responses, source, config>>
    /\ UNCHANGED listVars

(* ProcessUrb's switch on the URB's type: HandleControlUrb answers from   *)
(* device_info_ and current_configuration_; HandleBulkUrb from           *)
(* device_info_'s class and the URB.  HandleUrbSubmit makes no other type. *)
DispatchUrb(d, u) ==
    IF u.type = "control"
       THEN HandleControlUrb(imported[source[d]], config[d], SetupPacket(u.setup), u.data)
       ELSE [data |-> HandleBulkUrb(imported[source[d]], u), config |-> config[d]]

(* Mutant: the answer is sent but current_configuration_ is not written  *)
(* back.                                                                   *)
UrbRespondNoSave ==
    /\ rpc = "urb"
    /\ LET r == DispatchUrb(rdev, rurb)
       IN  responses' = Append(responses, [dev |-> rdev, req |-> rurb.req, data |-> r.data])
    /\ rpc' = "idle" /\ rdev' = NoDevice /\ rurb' = NoUrb
    /\ UNCHANGED <<portUsage, created, attached, port, born, freed, list,
                   connected, mpc, mi, urbs, source, config>>
    /\ UNCHANGED listVars

(* ProcessUrb past its attached_ check: the handler answers and calls    *)
(* urb_response_callback_, which sends the response (OnUrbResponse).      *)
UrbRespond ==
    /\ rpc = "urb"
    /\ LET r == DispatchUrb(rdev, rurb)
       IN  /\ responses' = Append(responses, [dev |-> rdev, req |-> rurb.req, data |-> r.data])
           /\ config' = [config EXCEPT ![rdev] = r.config]
    /\ rpc' = "idle" /\ rdev' = NoDevice /\ rurb' = NoUrb
    /\ UNCHANGED <<portUsage, created, attached, port, born, freed, list,
                   connected, mpc, mi, urbs, source>>
    /\ UNCHANGED listVars

(* The main thread: UsbReceiver::Stop *)

StopBegin ==
    /\ mpc = "running"
    /\ mpc' = "detach" /\ mi' = 1
    /\ UNCHANGED <<portUsage, created, attached, port, born, freed, list,
                   connected, rpc, rdev, urbs, responses>>
    /\ UNCHANGED listVars
    /\ UNCHANGED emuVars

(* for (auto& device : virtual_devices_) device->DetachDevice(); *)
StopDetach ==
    /\ mpc = "detach"
    /\ IF mi <= Len(list)
          THEN attached' = [attached EXCEPT ![list[mi]] = FALSE] /\ mi' = mi + 1
                /\ UNCHANGED mpc
          ELSE mpc' = "clear" /\ UNCHANGED <<attached, mi>>
    /\ UNCHANGED <<portUsage, created, port, born, freed, list, connected, rpc,
                   rdev, urbs, responses>>
    /\ UNCHANGED listVars
    /\ UNCHANGED emuVars

(* virtual_devices_.clear(): every device no other reference keeps alive *)
(* is destroyed.                                                          *)
StopClear ==
    /\ mpc = "clear"
    /\ LET gone == {d \in Range(list) : Refs(d, <<>>, rpc, rdev) = 0} IN
       /\ DestroyDevices(gone)
       /\ freed' = freed \cup gone
    /\ list' = <<>>
    /\ mpc' = "disconnect"
    /\ UNCHANGED <<born, connected, rpc, rdev, mi, urbs, responses>>
    /\ UNCHANGED listVars
    /\ UNCHANGED emuVars

(* usbip_client_->Disconnect(): the socket is closed ... *)
StopDisconnect ==
    /\ mpc = "disconnect"
    /\ connected' = FALSE
    /\ mpc' = "join"
    /\ UNCHANGED <<portUsage, created, attached, port, born, freed, list, rpc,
                   rdev, mi, urbs, responses>>
    /\ UNCHANGED listVars
    /\ UNCHANGED emuVars

(* ... and the receive thread joined once its callback has returned.     *)
(* UsbipManager::Cleanup leaves port_usage_ as it is.                     *)
StopJoin ==
    /\ mpc = "join" /\ rpc = "idle"
    /\ rpc' = "gone" /\ mpc' = "done"
    /\ UNCHANGED <<portUsage, created, attached, port, born, freed, list,
                   connected, rdev, mi, urbs, responses>>
    /\ UNCHANGED listVars
    /\ UNCHANGED emuVars

Next ==
    \/ DeviceListReceived \/ NextEntry \/ \E d \in Devices : ImportDevice(d)
    \/ ImportPush \/ ImportSend \/ OnUrbReceived \/ UrbRespond
    \/ StopBegin \/ StopDetach \/ StopClear \/ StopDisconnect \/ StopJoin

Spec == Init /\ [][Next]_vars

-----------------------------------------------------------------------------

(* Type invariant. *)
TypeOK ==
    /\ portUsage \in [Ports -> BOOLEAN]
    /\ created \in [Devices -> BOOLEAN] /\ attached \in [Devices -> BOOLEAN]
    /\ port \in [Devices -> Ports \cup {NoPort}]
    /\ born \subseteq Devices /\ freed \subseteq born
    /\ list \in Seq(Devices)
    /\ rpc \in {"idle", "list", "import", "push", "send", "urb", "gone", "crashed"}
    /\ rdev \in Devices \cup {NoDevice}
    /\ mpc \in {"running", "detach", "clear", "disconnect", "join", "done", "crashed"}
    /\ urbs \in 0..MaxUrbs
    /\ lists \in 0..MaxLists
    /\ rurb.req \in Requests \cup {NoRequest} /\ Len(rurb.setup) \in {0, 8}
    /\ source \in [Devices -> 0..Len(imported)]
    /\ config \in [Devices -> 0..255]

(* The port allocator, as the protocol states it: the ports marked used   *)
(* are exactly the ports of the devices created and not destroyed, and no *)
(* port is held by two devices -- whatever the order of imports, failed   *)
(* attaches, failed sends and Stop.                                        *)
PortExclusive ==
    /\ \A d1, d2 \in Devices :
          d1 # d2 /\ created[d1] /\ created[d2] => port[d1] # port[d2]
    /\ \A p \in Ports : portUsage[p] <=> \E d \in Devices : created[d] /\ port[d] = p

ImportsAsListed ==
    imported \o SelectSeq(pending, IsMassStorageInfo) = listed

(* The 16-bit little-endian field at byte i of a USB descriptor, as the  *)
(* host's USB stack reads it.                                              *)
UsbWord(b, i) == b[i] + 256 * b[i + 1]

(* The virtual device describes the device the sender listed: every      *)
(* answer to a standard GET_DESCRIPTOR(DEVICE) request the peer submits  *)
(* (setup bytes 0x80, 0x06, index, 0x01) is an 18-byte device descriptor whose class, vendor, *)
(* product and release are those HandleDeviceListRequest reported for the *)
(* device this VirtualUsbDevice was created from.  It spans the sender's  *)
(* serialization, the receiver's parse and loop, CreateDevice's           *)
(* descriptor, HandleUrbSubmit's parse of the CMD_SUBMIT and              *)
(* HandleControlUrb's decoding of the setup packet.                        *)
DeviceDescriptorAsListed ==
    \A i \in DOMAIN responses :
        LET a == responses[i]
            l == listed[source[a.dev]]
            q == a.req.setup
        IN  a.req.kind = "control" /\ q[1] = 128 /\ q[2] = 6 /\ q[4] = 1 =>
               /\ Len(a.data) = 18 /\ a.data[1] = 18 /\ a.data[2] = 1
               /\ a.data[5] = l.bDeviceClass
               /\ UsbWord(a.data, 9) = l.idVendor
               /\ UsbWord(a.data, 11) = l.idProduct
               /\ UsbWord(a.data, 13) = l.bcdDevice

(* A device remembers its configuration across URBs: every answer to a   *)
(* GET_CONFIGURATION (setup bytes 0x80, 0x08) is the one byte of the      *)
(* wValue of the last SET_CONFIGURATION (0x00, 0x09) answered by the same *)
(* VirtualUsbDevice before it, or 0 (the constructor's                     *)
(* current_configuration_) if there was none -- across HandleStandardRequest *)
(* storing and reading current_configuration_, OnUrbReceived's routing to *)
(* the first listed device, and imports and Stop changing that list.      *)
IsSetConfiguration(req) == req.kind = "control" /\ req.setup[1] = 0 /\ req.setup[2] = 9
IsGetConfiguration(req) == req.kind = "control" /\ req.setup[1] = 128 /\ req.setup[2] = 8

ConfigurationRemembered ==
    \A i \in DOMAIN responses :
        LET a == responses[i]
            sets == {j \in 1..(i - 1) : responses[j].dev = a.dev
                                        /\ IsSetConfiguration(responses[j].req)}
        IN  IsGetConfiguration(a.req) =>
               a.data = << IF sets = {} THEN 0 ELSE responses[Max(sets)].req.setup[3] >>

(* SCSI commands reach the emulated target intact: the answer to every    *)
(* CBW the peer submits in a bulk OUT is the data of the emulator's SCSI   *)
(* target for that command -- READ CAPACITY (10) reads, in SCSI's           *)
(* big-endian order, as 1024 blocks of 512 bytes, INQUIRY as 36 bytes of a  *)
(* removable direct-access device, anything else as nothing -- and every   *)
(* bulk IN read is a 13-byte CSW whose signature reads "USBS" in USB's     *)
(* little-endian order.  It spans SerializeCmdSubmit with transfer data,   *)
(* HandleUrbSubmit's endpoint-to-type rule, its converted                   *)
(* transfer_buffer_length and the data offset, ProcessUrb's switch,        *)
(* HandleBulkUrb's class test on the imported device_info_,                 *)
(* HandleMassStorageUrb's direction test and ProcessScsiCommand's opcode   *)
(* byte.                                                                    *)
ScsiAnswered ==
    \A i \in DOMAIN responses :
        LET a == responses[i] IN
        /\ a.req.kind = "bulk_out" =>
              CASE a.req.op = READ_CAPACITY_10 ->
                     /\ Len(a.data) = 8
                     /\ BigEndianValue(SubSeq(a.data, 1, 4)) + 1 = 1024
                     /\ BigEndianValue(SubSeq(a.data, 5, 8)) = 512
                [] a.req.op = INQUIRY ->
                     Len(a.data) = 36 /\ a.data[1] = 0 /\ a.data[2] = 128
                [] OTHER -> a.data = <<>>
        /\ a.req.kind = "bulk_in" =>
              Len(a.data) = 13 /\ a.data[1] = 85 /\ a.data[2] = 83
                                /\ a.data[3] = 66 /\ a.data[4] = 83

(* The device life cycle, as the protocol states it: urb_response_callback_ *)
(* never fires for a device whose DetachDevice has completed.             *)
NoResponseAfterDetach ==
    [][Len(responses') > Len(responses) => attached[rdev]]_vars

(* The virtual-device list is guarded, as the protocol states it: no      *)
(* interleaving of the receive thread and Stop leads to a pop_back on an  *)
(* emptied vector.                                                         *)
NoPopOnEmptyList == rpc # "crashed"

============================================================================
