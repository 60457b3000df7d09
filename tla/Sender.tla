-------------------------------- MODULE Sender --------------------------------
(***************************************************************************)
(* The sender application (UsbSender, src/sender/main.cpp) with the server *)
(* side of TcpSocket (src/common/network/tcp_socket.cpp) and the hotplug   *)
(* monitor of UsbDeviceManager (src/sender/usb/usb_device_manager.cpp).    *)
(*                                                                         *)
(* Threads: the main thread runs Start, then Run until a signal runs Stop; *)
(* the accept thread accepts connections and starts one detached           *)
(* HandleClient thread per connection, which decodes requests and runs    *)
(* the handlers of UsbSender; the hotplug thread runs libusb's event loop, *)
(* whose arrival callback initialises the device and appends it to        *)
(* mass_storage_devices_.  That vector has no mutex: ScanMassStorageDevices *)
(* and the hotplug callback append to it, Stop clears it, and the device  *)
(* list and import handlers iterate over it, one element per step here.   *)
(*                                                                         *)
(* The receivers that connect are the environment: each may connect once, *)
(* send requests and close.  MassStorageDevice::Initialize (the           *)
(* MassStorage module) is one step that succeeds or fails.                *)
(***************************************************************************)
EXTENDS Naturals, Sequences

CONSTANTS
    StartDevices,     \* mass-storage devices plugged in before Start
    ArrivingDevices,  \* mass-storage devices plugged in later
    DeviceClass,      \* bDeviceClass of each device: "storage" or "other"
    Clients,          \* connections receivers may open
    MaxRequests       \* bound on the requests all clients send

VARIABLES
    mpc,          \* main thread: Start, Run, Stop
    running,      \* UsbSender::running_
    scanned,      \* devices ScanMassStorageDevices has handled
    capturing,    \* UrbCapture::capturing_
    devices,      \* UsbSender::mass_storage_devices_
    captured,     \* devices given to UrbCapture::AddDevice
    listening,    \* TcpSocket::is_listening_
    stopFlag,     \* TcpSocket::should_stop_
    apc,          \* accept thread: "none", "accept", "exited"
    clientFds,    \* TcpSocket::client_fds_
    hpc,          \* HandleClient thread of each connection
    idx,          \* position of each handler's loop over devices
    requests,     \* requests received so far
    replies,      \* replies TcpSocket::Send accepted
    monitoring,   \* UsbDeviceManager::monitoring_
    hotpc,        \* hotplug thread
    arrived       \* devices whose arrival event has been delivered

vars == <<mpc, running, scanned, capturing, devices, captured, listening,
          stopFlag, apc, clientFds, hpc, idx, requests, replies, monitoring,
          hotpc, arrived>>

(* The test GetMassStorageDevices and OnDeviceHotplug make inline:        *)
(* bDeviceClass == MASS_STORAGE.                                          *)
IsMassStorageClass(d) == DeviceClass[d] = "storage"

(* GetMassStorageDevices: EnumerateDevices wraps every device libusb lists *)
(* (those plugged in before Start) and keeps the mass-storage class.      *)
GetMassStorageDevices == {d \in StartDevices : IsMassStorageClass(d)}

(* UrbCapture::AddDevice: under devices_mutex_, a device not yet in       *)
(* devices_ gets its data callback set and is appended.                   *)
AddDevice(d) == captured' = captured \cup {d}

(* The listening socket never sets is_connected_, so TcpSocket::Send on   *)
(* it returns false at its first check: no reply leaves the sender.       *)
ServerIsConnected == FALSE

(* A handler is between the begin and the end of a range-for over         *)
(* mass_storage_devices_.                                                 *)
Iterating(c) == hpc[c] \in {"list", "import"}

Init ==
    /\ mpc = "init"
    /\ running = FALSE
    /\ scanned = {}
    /\ capturing = FALSE
    /\ devices = <<>>
    /\ captured = {}
    /\ listening = FALSE
    /\ stopFlag = FALSE
    /\ apc = "none"
    /\ clientFds = {}
    /\ hpc = [c \in Clients |-> "none"]
    /\ idx = [c \in Clients |-> 1]
    /\ requests = 0
    /\ replies = 0
    /\ monitoring = FALSE
    /\ hotpc = "none"
    /\ arrived = {}

-----------------------------------------------------------------------------
(* The main thread *)

(* Initialize: UsbDeviceManager::Initialize is libusb_init, which may    *)
(* fail; main() then returns.  The callbacks it sets change no state here. *)
InitializeSender ==
    /\ mpc = "init"
    /\ \E ok \in BOOLEAN : mpc' = IF ok THEN "listen" ELSE "failed"
    /\ UNCHANGED <<running, scanned, capturing, devices, captured, listening,
                   stopFlag, apc, clientFds, hpc, idx, requests, replies,
                   monitoring, hotpc, arrived>>

(* Start: Listen binds, listens, clears should_stop_ and starts the accept *)
(* thread; if it fails Start returns false and main() exits.               *)
StartListen ==
    /\ mpc = "listen"
    /\ \/ /\ listening' = TRUE /\ stopFlag' = FALSE /\ apc' = "accept"
          /\ mpc' = "scan"
       \/ /\ mpc' = "failed"
          /\ UNCHANGED <<listening, stopFlag, apc>>
    /\ UNCHANGED <<running, scanned, capturing, devices, captured, clientFds,
                   hpc, idx, requests, replies, monitoring, hotpc, arrived>>

(* ScanMassStorageDevices, one device per step: a device whose Initialize *)
(* succeeds is appended to mass_storage_devices_ and given to UrbCapture. *)
ScanStep ==
    /\ mpc = "scan"
    /\ \E d \in GetMassStorageDevices \ scanned :
          /\ scanned' = scanned \cup {d}
          /\ \/ devices' = Append(devices, d) /\ AddDevice(d)
             \/ UNCHANGED <<devices, captured>>
    /\ UNCHANGED <<mpc, running, capturing, listening, stopFlag, apc, clientFds,
                   hpc, idx, requests, replies, monitoring, hotpc, arrived>>

(* StartHotplugMonitoring returns early, monitoring_ unset and no thread  *)
(* started, when libusb lacks the hotplug capability or the callback       *)
(* cannot be registered.                                                   *)
StartHotplugMonitoring(ok) ==
    IF ok THEN monitoring' = TRUE /\ hotpc' = "wait"
          ELSE UNCHANGED <<monitoring, hotpc>>

(* Then StartCapture (which always returns true), StartHotplugMonitoring,  *)
(* and running_ = true.                                                    *)
StartCaptureAndHotplug ==
    /\ mpc = "scan" /\ scanned = GetMassStorageDevices
    /\ capturing' = TRUE
    /\ \E ok \in BOOLEAN : StartHotplugMonitoring(ok)
    /\ running' = TRUE
    /\ mpc' = "run"
    /\ UNCHANGED <<scanned, devices, captured, listening, stopFlag, apc,
                   clientFds, hpc, idx, requests, replies, arrived>>

(* A signal runs Stop: running_ = false, StopCapture, then                 *)
(* StopHotplugMonitoring clears monitoring_ ...                           *)
StopBegin ==
    /\ mpc = "run"
    /\ running' = FALSE /\ capturing' = FALSE /\ monitoring' = FALSE
    /\ mpc' = "join_hotplug"
    /\ UNCHANGED <<scanned, devices, captured, listening, stopFlag, apc,
                   clientFds, hpc, idx, requests, replies, hotpc, arrived>>

(* ... and joins the hotplug thread, if one was started; then             *)
(* TcpSocket::Close stores          *)
(* should_stop_, clears is_listening_ and closes the listening socket and *)
(* every client descriptor.  close() wakes neither accept() nor recv().   *)
StopClose ==
    /\ mpc = "join_hotplug" /\ hotpc # "wait"
    /\ stopFlag' = TRUE /\ listening' = FALSE /\ clientFds' = {}
    /\ mpc' = "join_accept"
    /\ UNCHANGED <<running, scanned, capturing, devices, captured, apc, hpc,
                   idx, requests, replies, monitoring, hotpc, arrived>>

(* Close joins the accept thread once it has left its loop; Stop then     *)
(* clears mass_storage_devices_.  The HandleClient threads are detached   *)
(* and nobody waits for them.                                             *)
StopClear ==
    /\ mpc = "join_accept" /\ apc = "exited"
    /\ devices' = <<>>
    /\ mpc' = "stopped"
    /\ UNCHANGED <<running, scanned, capturing, captured, listening, stopFlag,
                   apc, clientFds, hpc, idx, requests, replies, monitoring, hotpc,
                   arrived>>

-----------------------------------------------------------------------------
(* The accept thread and the HandleClient threads *)

(* accept() returns a connection: the descriptor is added to client_fds_ *)
(* and a detached HandleClient thread started; the loop then leaves if    *)
(* should_stop_ is set or is_listening_ clear.                            *)
Accept(c) ==
    /\ apc = "accept" /\ hpc[c] = "none"
    /\ clientFds' = clientFds \cup {c}
    /\ hpc' = [hpc EXCEPT ![c] = "recv"]
    /\ apc' = IF stopFlag \/ ~listening THEN "exited" ELSE "accept"
    /\ UNCHANGED <<mpc, running, scanned, capturing, devices, captured,
                   listening, stopFlag, idx, requests, replies, monitoring, hotpc,
                   arrived>>

(* A complete request arrives: ProcessReceivedData calls OnNetworkMessage, *)
(* which runs HandleDeviceListRequest, HandleDeviceImportRequest or       *)
(* HandleHeartbeat; the first two iterate over mass_storage_devices_.     *)
Request(c) ==
    /\ hpc[c] = "recv" /\ requests < MaxRequests
    /\ requests' = requests + 1
    /\ \E kind \in {"list", "import", "reply"} : hpc' = [hpc EXCEPT ![c] = kind]
    /\ idx' = [idx EXCEPT ![c] = 1]
    /\ UNCHANGED <<replies, mpc, running, scanned, capturing, devices, captured,
                   listening, stopFlag, apc, clientFds, monitoring, hotpc,
                   arrived>>

(* HandleDeviceListRequest: one UsbipDeviceInfo per element, then the     *)
(* reply.                                                                 *)
ListStep(c) ==
    /\ hpc[c] = "list"
    /\ IF idx[c] <= Len(devices)
          THEN idx' = [idx EXCEPT ![c] = idx[c] + 1] /\ UNCHANGED hpc
          ELSE hpc' = [hpc EXCEPT ![c] = "reply"] /\ UNCHANGED idx
    /\ UNCHANGED <<mpc, running, scanned, capturing, devices, captured,
                   listening, stopFlag, apc, clientFds, requests, replies, monitoring,
                   hotpc, arrived>>

(* HandleDeviceImportRequest: compare each element's bus id with the      *)
(* requested one, break when found, then the reply.                       *)
ImportStep(c) ==
    /\ hpc[c] = "import"
    /\ IF idx[c] <= Len(devices)
          THEN \/ hpc' = [hpc EXCEPT ![c] = "reply"] /\ UNCHANGED idx
               \/ idx' = [idx EXCEPT ![c] = idx[c] + 1] /\ UNCHANGED hpc
          ELSE hpc' = [hpc EXCEPT ![c] = "reply"] /\ UNCHANGED idx
    /\ UNCHANGED <<mpc, running, scanned, capturing, devices, captured,
                   listening, stopFlag, apc, clientFds, requests, replies, monitoring,
                   hotpc, arrived>>

(* tcp_server_->Send(reply) fails (ServerIsConnected); HandleClient then   *)
(* leaves its loop if should_stop_ is set, closing and erasing its fd.    *)
Reply(c) ==
    /\ hpc[c] = "reply"
    /\ replies' = IF ServerIsConnected THEN replies + 1 ELSE replies
    /\ IF stopFlag
          THEN hpc' = [hpc EXCEPT ![c] = "closed"] /\ clientFds' = clientFds \ {c}
          ELSE hpc' = [hpc EXCEPT ![c] = "recv"] /\ UNCHANGED clientFds
    /\ UNCHANGED <<mpc, running, scanned, capturing, devices, captured,
                   listening, stopFlag, apc, idx, requests, monitoring, hotpc,
                   arrived>>

(* The receiver closes the connection: recv() returns 0, the thread closes *)
(* its descriptor and erases it from client_fds_ under mutex_.            *)
ClientClosed(c) ==
    /\ hpc[c] = "recv"
    /\ hpc' = [hpc EXCEPT ![c] = "closed"]
    /\ clientFds' = clientFds \ {c}
    /\ UNCHANGED <<mpc, running, scanned, capturing, devices, captured,
                   listening, stopFlag, apc, idx, requests, replies, monitoring, hotpc,
                   arrived>>

-----------------------------------------------------------------------------
(* The hotplug thread *)

(* OnDeviceHotplug(device, true): a mass-storage device whose Initialize  *)
(* succeeds is appended and given to UrbCapture; any other is ignored.     *)
OnDeviceHotplug(d) ==
    IF IsMassStorageClass(d)
       THEN \/ devices' = Append(devices, d) /\ AddDevice(d)
            \/ UNCHANGED <<devices, captured>>
       ELSE UNCHANGED <<devices, captured>>

(* libusb_handle_events_timeout delivers an arrival: HotplugCallback       *)
(* creates the UsbDevice (CreateDevice) and calls the device callback.    *)
(* A departure calls it with nullptr, which only logs.                    *)
HotplugArrive ==
    /\ hotpc = "wait"
    /\ \E d \in ArrivingDevices \ arrived :
          /\ arrived' = arrived \cup {d}
          /\ OnDeviceHotplug(d)
    /\ UNCHANGED <<mpc, running, scanned, capturing, listening, stopFlag, apc,
                   clientFds, hpc, idx, requests, replies, monitoring, hotpc>>

(* HotplugThread leaves its loop once monitoring_ is clear. *)
HotplugExit ==
    /\ hotpc = "wait" /\ ~monitoring
    /\ hotpc' = "exited"
    /\ UNCHANGED <<mpc, running, scanned, capturing, devices, captured,
                   listening, stopFlag, apc, clientFds, hpc, idx, requests, replies,
                   monitoring, arrived>>

Next ==
    \/ InitializeSender \/ StartListen \/ ScanStep \/ StartCaptureAndHotplug
    \/ StopBegin \/ StopClose \/ StopClear
    \/ \E c \in Clients :
          Accept(c) \/ Request(c) \/ ListStep(c) \/ ImportStep(c) \/ Reply(c)
            \/ ClientClosed(c)
    \/ HotplugArrive \/ HotplugExit

(* The sender's own threads -- main, accept, hotplug and the handlers --   *)
(* are eventually scheduled.  A signal (StopBegin), a device arrival, a    *)
(* connection (Accept), a request and a close by a receiver are up to the  *)
(* environment.                                                            *)
Fairness ==
    /\ WF_vars(InitializeSender) /\ WF_vars(StartListen) /\ WF_vars(ScanStep)
    /\ WF_vars(StartCaptureAndHotplug) /\ WF_vars(StopClose) /\ WF_vars(StopClear)
    /\ WF_vars(HotplugExit)
    /\ \A c \in Clients : WF_vars(ListStep(c)) /\ WF_vars(ImportStep(c)) /\ WF_vars(Reply(c))

Spec == Init /\ [][Next]_vars /\ Fairness

-----------------------------------------------------------------------------

TypeOK ==
    /\ mpc \in {"init", "listen", "failed", "scan", "run", "join_hotplug", "join_accept", "stopped"}
    /\ devices \in Seq({d \in StartDevices \cup ArrivingDevices : IsMassStorageClass(d)})
    /\ hpc \in [Clients -> {"none", "recv", "list", "import", "reply", "closed"}]
    /\ apc \in {"none", "accept", "exited"}
    /\ hotpc \in {"none", "wait", "exited"}
    /\ requests \in 0..MaxRequests

(* The device list is shared safely (spec: the sender's device list is     *)
(* read by request handlers): mass_storage_devices_ is never appended to  *)
(* or cleared -- by the scan in Start, the hotplug callback or Stop --    *)
(* while a HandleClient thread is iterating over it.                      *)
NoListMutationDuringIteration ==
    [][devices' # devices => \A c \in Clients : ~Iterating(c)]_vars

(* Stop, run by the signal handler, returns: after StopCapture and        *)
(* StopHotplugMonitoring, TcpSocket::Close joins the accept thread and     *)
(* Stop clears the device list.  A sender told to stop ends.               *)
StopCompletes == mpc = "join_hotplug" ~> mpc = "stopped"

====
