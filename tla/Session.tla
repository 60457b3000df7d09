------------------------------- MODULE Session -------------------------------
(***************************************************************************)
(* The receiver's connection to the sender: UsbReceiver::Start and Run     *)
(* (src/receiver/main.cpp), UsbipClient's Connect, RequestDeviceList,     *)
(* heartbeat and connection callbacks (src/receiver/usbip/                 *)
(* usbip_client.cpp) and the client side of TcpSocket (src/common/network/ *)
(* tcp_socket.cpp).                                                        *)
(*                                                                         *)
(* Three threads share the state.  The main thread connects, requests the *)
(* device list and then polls IsConnected() once a second, reconnecting   *)
(* when it is false.  TcpSocket::Connect starts the receive thread, which *)
(* blocks in recv(); when the sender closes the connection it clears      *)
(* is_connected_ and calls the connect callback with false, which clears  *)
(* UsbipClient::connected_ and stops the heartbeat.  The heartbeat thread *)
(* started by the connect callback sends a HEARTBEAT after every sleep     *)
(* while heartbeat_running_ and connected_ hold.                           *)
(*                                                                         *)
(* The sender is the environment: it accepts connections while it is up,  *)
(* and it may close the connection (its Stop, or its process ending).     *)
(* What the receiver sends is not modelled: no property depends on it.    *)
(***************************************************************************)
EXTENDS Naturals

CONSTANTS
    MaxAttempts,    \* bound on the connection attempts of the main thread
    MaxPeerCloses   \* bound on the times the sender closes a connection

Threads == {"main", "recv", "hb"}

VARIABLES
    isConnected,  \* TcpSocket::is_connected_
    shouldStop,   \* TcpSocket::should_stop_
    recvThread,   \* TcpSocket::receive_thread_ holds a thread (is joinable)
    connected,    \* UsbipClient::connected_
    hbRunning,    \* UsbipClient::heartbeat_running_
    hbThread,     \* UsbipClient::heartbeat_thread_ holds a thread
    running,      \* UsbReceiver::running_
    pc,           \* program counter of each thread
    ret,          \* where StopHeartbeat returns to, per calling thread
    peerUp,       \* the sender is listening
    link,         \* the current connection: "none", "open", "peer_closed"
    attempts,     \* connection attempts so far
    closes        \* connections the sender has closed so far

vars == <<isConnected, shouldStop, recvThread, connected, hbRunning, hbThread,
          running, pc, ret, peerUp, link, attempts, closes>>

(* std::terminate ends every thread of the process. *)
Terminated == [t \in Threads |-> "terminated"]

(* Where the main thread goes when a connection attempt fails: Start      *)
(* returns false and main() exits; in Run the loop goes on.               *)
AfterFailedConnect == IF running THEN "run" ELSE "exited"

(* UsbipClient::OnNetworkError: calls the error callback (UsbReceiver's    *)
(* OnUsbipError only logs) and stores connected_ = false.                  *)
OnNetworkError == FALSE

(* TcpSocket::Send's outcome on the current connection.  On a connection *)
(* the peer has closed the first writes may still succeed; a later one    *)
(* fails, and the error callback (UsbipClient::OnNetworkError) clears     *)
(* connected_.  The result is the set of possible values of connected_.   *)
SendOutcomes ==
    IF ~isConnected \/ link = "open" THEN {connected}
    ELSE {connected, OnNetworkError}

Init ==
    /\ isConnected = FALSE
    /\ shouldStop = FALSE
    /\ recvThread = FALSE
    /\ connected = FALSE
    /\ hbRunning = FALSE
    /\ hbThread = FALSE
    /\ running = FALSE
    /\ pc = [main |-> "init", recv |-> "idle", hb |-> "idle"]
    /\ ret = [main |-> "none", recv |-> "none"]
    /\ peerUp = TRUE
    /\ link = "none"
    /\ attempts = 0
    /\ closes = 0

-----------------------------------------------------------------------------
(* The main thread *)

(* UsbReceiver::Initialize: UsbipManager::Initialize (which loads the     *)
(* vhci-hcd module) may fail, and main() then returns before Start.       *)
ReceiverInitialize ==
    /\ pc["main"] = "init"
    /\ \E ok \in BOOLEAN :
          pc' = [pc EXCEPT !["main"] = IF ok THEN "connect" ELSE "exited"]
    /\ UNCHANGED <<isConnected, shouldStop, recvThread, connected, hbRunning,
                   hbThread, running, ret, peerUp, link, attempts, closes>>

(* UsbipClient::Connect calls TcpSocket::Connect, which returns false    *)
(* while is_connected_ is set or when connect() is refused.  Otherwise it *)
(* sets is_connected_ and should_stop_ and move-assigns a new thread to  *)
(* receive_thread_: if that still holds a thread (one that ran and was    *)
(* never joined), std::thread's assignment calls std::terminate.          *)
ClientConnect ==
    /\ pc["main"] = "connect"
    /\ attempts < MaxAttempts
    /\ attempts' = attempts + 1
    /\ \/ /\ isConnected \/ ~peerUp
          /\ pc' = [pc EXCEPT !["main"] = AfterFailedConnect]
          /\ UNCHANGED <<isConnected, shouldStop, recvThread, link>>
       \/ /\ ~isConnected /\ peerUp
          /\ isConnected' = TRUE
          /\ shouldStop' = FALSE
          /\ link' = "open"
          /\ IF recvThread
                THEN pc' = Terminated /\ UNCHANGED recvThread
                ELSE /\ recvThread' = TRUE
                     /\ pc' = [pc EXCEPT !["main"] = "notify", !["recv"] = "recv"]
    /\ UNCHANGED <<connected, hbRunning, hbThread, running, ret, peerUp, closes>>

(* TcpSocket::Connect ends with NotifyConnect(true): OnNetworkConnect     *)
(* stores connected_ = true and calls StartHeartbeat, which returns at    *)
(* once if heartbeat_running_ is set and otherwise starts the thread.     *)
NotifyConnected ==
    /\ pc["main"] = "notify"
    /\ connected' = TRUE
    /\ IF hbRunning
          THEN /\ pc' = [pc EXCEPT !["main"] = "confirm"]
               /\ UNCHANGED <<hbRunning, hbThread>>
       ELSE IF hbThread
          THEN pc' = Terminated /\ UNCHANGED <<hbRunning, hbThread>>
          ELSE /\ hbRunning' = TRUE /\ hbThread' = TRUE
               /\ pc' = [pc EXCEPT !["main"] = "confirm", !["hb"] = "loop"]
    /\ UNCHANGED <<isConnected, shouldStop, recvThread, running, ret, peerUp,
                   link, attempts, closes>>

(* UsbipClient::Connect then polls connected_ for five seconds; only this *)
(* thread sets it, so it is seen at once or never.  On timeout it calls   *)
(* TcpSocket::Close, whose first part stores should_stop_ and clears      *)
(* is_connected_ and closes the descriptor.                               *)
ConfirmConnect ==
    /\ pc["main"] = "confirm"
    /\ IF connected
          THEN /\ pc' = [pc EXCEPT !["main"] = "request"]
               /\ UNCHANGED <<isConnected, shouldStop, link>>
          ELSE /\ shouldStop' = TRUE /\ isConnected' = FALSE
               /\ link' = IF link = "open" THEN "none" ELSE link
               /\ pc' = [pc EXCEPT !["main"] = "close_join"]
    /\ UNCHANGED <<recvThread, connected, hbRunning, hbThread, running, ret,
                   peerUp, attempts, closes>>

(* Close joins the receive thread, then NotifyConnect(false) runs        *)
(* OnNetworkConnect(false): connected_ = false and StopHeartbeat.         *)
CloseJoin ==
    /\ pc["main"] = "close_join"
    /\ ~recvThread \/ pc["recv"] = "done"
    /\ recvThread' = FALSE
    /\ connected' = FALSE
    /\ pc' = [pc EXCEPT !["main"] = "stophb", !["recv"] = "idle"]
    /\ ret' = [ret EXCEPT !["main"] = "failed"]
    /\ UNCHANGED <<isConnected, shouldStop, hbRunning, hbThread, running,
                   peerUp, link, attempts, closes>>

(* Connect returned false after Close. *)
ConnectFailed ==
    /\ pc["main"] = "failed"
    /\ pc' = [pc EXCEPT !["main"] = AfterFailedConnect]
    /\ UNCHANGED <<isConnected, shouldStop, recvThread, connected, hbRunning,
                   hbThread, running, ret, peerUp, link, attempts, closes>>

(* Start: when RequestDeviceList fails it returns false and main() exits; *)
(* otherwise it sets running_.  Run ignores the result.                   *)
AfterRequest(sent) == IF running \/ sent THEN "run" ELSE "exited"

(* RequestDeviceList: false when connected_ is clear, else a Send. *)
RequestDeviceList ==
    /\ pc["main"] = "request"
    /\ \E c \in SendOutcomes :
          LET sent == connected /\ isConnected /\ c
          IN /\ connected' = c
             /\ running' = (running \/ sent)
             /\ pc' = [pc EXCEPT !["main"] = AfterRequest(sent)]
    /\ UNCHANGED <<isConnected, shouldStop, recvThread, hbRunning, hbThread,
                   ret, peerUp, link, attempts, closes>>

(* Run: after each one-second sleep, if !IsConnected(), reconnect. *)
RunCheck ==
    /\ pc["main"] = "run"
    /\ ~connected
    /\ pc' = [pc EXCEPT !["main"] = "connect"]
    /\ UNCHANGED <<isConnected, shouldStop, recvThread, connected, hbRunning,
                   hbThread, running, ret, peerUp, link, attempts, closes>>

-----------------------------------------------------------------------------
(* StopHeartbeat, called by the main thread (from Close) or by the        *)
(* receive thread (from its connect callback).                            *)

StopHeartbeatCheck(t) ==
    /\ pc[t] = "stophb"
    /\ IF hbRunning
          THEN hbRunning' = FALSE /\ pc' = [pc EXCEPT ![t] = "joinhb"]
          ELSE UNCHANGED hbRunning /\ pc' = [pc EXCEPT ![t] = ret[t]]
    /\ UNCHANGED <<isConnected, shouldStop, recvThread, connected, hbThread,
                   running, ret, peerUp, link, attempts, closes>>

(* heartbeat_thread_.join() once the thread has returned.  A join of a    *)
(* thread another caller already joined throws std::system_error, which  *)
(* nothing catches: std::terminate.                                       *)
StopHeartbeatJoin(t) ==
    /\ pc[t] = "joinhb"
    /\ \/ /\ hbThread /\ pc["hb"] = "done"
          /\ hbThread' = FALSE
          /\ pc' = [pc EXCEPT ![t] = ret[t], !["hb"] = "idle"]
       \/ /\ ~hbThread
          /\ pc' = Terminated /\ UNCHANGED hbThread
    /\ UNCHANGED <<isConnected, shouldStop, recvThread, connected, hbRunning,
                   running, ret, peerUp, link, attempts, closes>>

-----------------------------------------------------------------------------
(* The receive thread *)

(* recv() returns 0 once the sender has closed the connection: the loop  *)
(* ends and is_connected_ is cleared.  close() of the descriptor by this *)
(* process does not make a blocked recv() return.                         *)
RecvClosed ==
    /\ pc["recv"] = "recv"
    /\ link = "peer_closed"
    /\ isConnected' = FALSE
    /\ pc' = [pc EXCEPT !["recv"] = "notify"]
    /\ UNCHANGED <<shouldStop, recvThread, connected, hbRunning, hbThread,
                   running, ret, peerUp, link, attempts, closes>>

(* NotifyConnect(false): OnNetworkConnect(false) stores connected_ =     *)
(* false and calls StopHeartbeat; the thread function then returns.       *)
RecvNotify ==
    /\ pc["recv"] = "notify"
    /\ connected' = FALSE
    /\ pc' = [pc EXCEPT !["recv"] = "stophb"]
    /\ ret' = [ret EXCEPT !["recv"] = "done"]
    /\ UNCHANGED <<isConnected, shouldStop, recvThread, hbRunning, hbThread,
                   running, peerUp, link, attempts, closes>>

-----------------------------------------------------------------------------
(* The heartbeat thread *)

(* After each sleep: leave the loop unless heartbeat_running_ and         *)
(* connected_ both hold; otherwise send a HEARTBEAT.                      *)
HeartbeatTick ==
    /\ pc["hb"] = "loop"
    /\ IF hbRunning /\ connected
          THEN \E c \in SendOutcomes : connected' = c /\ UNCHANGED pc
          ELSE pc' = [pc EXCEPT !["hb"] = "done"] /\ UNCHANGED connected
    /\ UNCHANGED <<isConnected, shouldStop, recvThread, hbRunning, hbThread,
                   running, ret, peerUp, link, attempts, closes>>

-----------------------------------------------------------------------------
(* The sender *)

PeerClose ==
    /\ link = "open" /\ closes < MaxPeerCloses
    /\ link' = "peer_closed" /\ peerUp' = FALSE
    /\ closes' = closes + 1
    /\ UNCHANGED <<isConnected, shouldStop, recvThread, connected, hbRunning,
                   hbThread, running, pc, ret, attempts>>

PeerRestart ==
    /\ ~peerUp
    /\ peerUp' = TRUE
    /\ UNCHANGED <<isConnected, shouldStop, recvThread, connected, hbRunning,
                   hbThread, running, pc, ret, link, attempts, closes>>

Next ==
    \/ ReceiverInitialize \/ ClientConnect \/ NotifyConnected \/ ConfirmConnect \/ CloseJoin
    \/ ConnectFailed \/ RequestDeviceList \/ RunCheck
    \/ \E t \in {"main", "recv"} : StopHeartbeatCheck(t) \/ StopHeartbeatJoin(t)
    \/ RecvClosed \/ RecvNotify \/ HeartbeatTick
    \/ PeerClose \/ PeerRestart

(* Every thread that can run is eventually scheduled; the sender is not  *)
(* obliged to do anything.                                                *)
Fairness ==
    /\ WF_vars(ReceiverInitialize) /\ WF_vars(ClientConnect) /\ WF_vars(NotifyConnected)
    /\ WF_vars(ConfirmConnect) /\ WF_vars(CloseJoin) /\ WF_vars(ConnectFailed)
    /\ WF_vars(RequestDeviceList) /\ WF_vars(RunCheck)
    /\ \A t \in {"main", "recv"} :
          WF_vars(StopHeartbeatCheck(t)) /\ WF_vars(StopHeartbeatJoin(t))
    /\ WF_vars(RecvClosed) /\ WF_vars(RecvNotify) /\ WF_vars(HeartbeatTick)

Spec == Init /\ [][Next]_vars /\ Fairness

-----------------------------------------------------------------------------

TypeOK ==
    /\ isConnected \in BOOLEAN /\ shouldStop \in BOOLEAN
    /\ recvThread \in BOOLEAN /\ connected \in BOOLEAN
    /\ hbRunning \in BOOLEAN /\ hbThread \in BOOLEAN /\ running \in BOOLEAN
    /\ peerUp \in BOOLEAN
    /\ link \in {"none", "open", "peer_closed"}
    /\ attempts \in 0..MaxAttempts /\ closes \in 0..MaxPeerCloses

(* The spec's auto-reconnect: on disconnect the receiver reattempts until *)
(* told to stop.  Reconnecting must not end the process: TcpSocket::       *)
(* Connect must never assign over a receive_thread_ that is joinable.     *)
NoTerminate == pc["main"] # "terminated"

=============================================================================
