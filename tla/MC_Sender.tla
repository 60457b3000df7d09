------------------------------- MODULE MC_Sender -------------------------------
(* Sender with a mass-storage device and a device of another class present *)
(* at Start, one mass-storage device arriving later and two receiver      *)
(* connections.                                                            *)
EXTENDS Sender, TLC

CONSTANTS s1, s2, a1, c1, c2

MC_StartDevices == {s1, s2}
MC_ArrivingDevices == {a1}
MC_DeviceClass == (s1 :> "storage") @@ (s2 :> "other") @@ (a1 :> "storage")
MC_Clients == {c1, c2}
====
