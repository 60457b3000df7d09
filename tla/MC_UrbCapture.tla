---------------------------- MODULE MC_UrbCapture ----------------------------
(* Model values for checking UrbCapture with TLC. *)
EXTENDS UrbCapture, TLC

CONSTANTS p1, p2, u1, u2, u3

MCProducers == {p1, p2}
MCUrbs == {u1, u2, u3}
MCTransferTypes == {"CONTROL", "BULK", "INTERRUPT", "ISOCHRONOUS"}

(* A control URB, a bulk URB that failed, and a bulk URB with data. *)
MCAttr == (u1 :> [type |-> "CONTROL", status |-> 0, actual_length |-> 8])
       @@ (u2 :> [type |-> "BULK", status |-> 1, actual_length |-> 0])
       @@ (u3 :> [type |-> "BULK", status |-> 0, actual_length |-> 512])

(* Producers are interchangeable threads. *)
MCSymmetry == Permutations(MCProducers)

=============================================================================
