------------------------ MODULE MCNotificationOutbox ------------------------
(* NotificationOutbox on one bill due on the third day. *)
EXTENDS NotificationOutbox, TLC

CONSTANT b1

MCDueDate == b1 :> 3
WorkerSymmetry == Permutations(Workers)
=============================================================================
