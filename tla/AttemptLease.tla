---------------------------- MODULE AttemptLease ----------------------------
(***************************************************************************)
(* What the two durable queues of the application promise about one work   *)
(* item (an uploaded file, an alert to send), whatever their workers,      *)
(* sweeps and requests do: attempts are numbered, an attempt is closed at  *)
(* most once and only while it is the newest one, and the result an item   *)
(* shows comes from an attempt at the moment that attempt is closed.       *)
(* CaptureQueue and NotificationOutbox implement it.                       *)
(***************************************************************************)
EXTENDS Naturals

CONSTANT Items

VARIABLES granted,   \* granted[i]: number of the newest attempt, 0 before any
          closed,    \* closed[i]: the attempts that have been closed
          shown      \* shown[i]: the attempt whose result the item shows, 0 if none

leaseVars == <<granted, closed, shown>>

LeaseInit ==
    /\ granted = [i \in Items |-> 0]
    /\ closed = [i \in Items |-> {}]
    /\ shown = [i \in Items |-> 0]

(* A new attempt supersedes the previous one, closed or not. *)
Grant(i) ==
    /\ granted' = [granted EXCEPT ![i] = @ + 1]
    /\ UNCHANGED <<closed, shown>>

(* The newest attempt ends with its result published. *)
Publish(i) ==
    /\ granted[i] > 0
    /\ granted[i] \notin closed[i]
    /\ closed' = [closed EXCEPT ![i] = @ \cup {granted[i]}]
    /\ shown' = [shown EXCEPT ![i] = granted[i]]
    /\ UNCHANGED granted

(* The newest attempts of one or several items end without a result. *)
Close(C) ==
    /\ \A i \in C : granted[i] > 0 /\ granted[i] \notin closed[i]
    /\ closed' = [i \in Items |->
                    IF i \in C THEN closed[i] \cup {granted[i]} ELSE closed[i]]
    /\ UNCHANGED <<granted, shown>>

LeaseNext ==
    \/ \E i \in Items : Grant(i) \/ Publish(i)
    \/ \E C \in SUBSET Items : Close(C)

LeaseSpec == LeaseInit /\ [][LeaseNext]_leaseVars
=============================================================================
