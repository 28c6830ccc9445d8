---------------------------- MODULE DeviceLeases ----------------------------
(***************************************************************************)
(* What the GPU pool promises: a device is leased to at most one worker at *)
(* a time, a worker leases at most one device, and no lease lasts forever. *)
(* Locks, sweeps, occupancy queries, sandboxes and crashes do not appear.  *)
(***************************************************************************)
CONSTANTS
    Workers,
    Devices,
    None

VARIABLE lease   \* the worker each device is leased to, or None

Init == lease = [d \in Devices |-> None]

Grant(w, d) ==
    /\ lease[d] = None
    /\ \A e \in Devices : lease[e] # w
    /\ lease' = [lease EXCEPT ![d] = w]

Revoke(d) ==
    /\ lease[d] # None
    /\ lease' = [lease EXCEPT ![d] = None]

Next == \E d \in Devices : Revoke(d) \/ \E w \in Workers : Grant(w, d)

SafeSpec == Init /\ [][Next]_lease

Spec == SafeSpec /\ \A d \in Devices : WF_lease(Revoke(d))
=============================================================================
