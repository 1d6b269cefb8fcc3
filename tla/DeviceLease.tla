---------------------------- MODULE DeviceLease ----------------------------
(***************************************************************************)
(* What the NBD reservations of a node promise.  A volume leases a device  *)
(* that is free and not in use, at most one at a time, and while it holds  *)
(* the lease nobody else connects or disconnects the device.               *)
(***************************************************************************)
CONSTANTS Volumes, Devices, None

VARIABLES
    lease,  \* the volume that holds a device
    link    \* the volume that a device is connected to

Init ==
    /\ lease = [d \in Devices |-> None]
    /\ link = [d \in Devices |-> None]

Acquire(v, d) ==
    /\ lease[d] = None /\ link[d] = None
    /\ \A e \in Devices : lease[e] # v
    /\ lease' = [lease EXCEPT ![d] = v]
    /\ UNCHANGED link

\* A lease may end with the device still connected, if disconnecting failed;
\* the device then stays out of use.
Release(v, d) ==
    /\ lease[d] = v
    /\ lease' = [lease EXCEPT ![d] = None]
    /\ UNCHANGED link

Connect(v, d) ==
    /\ lease[d] = v /\ link[d] = None
    /\ link' = [link EXCEPT ![d] = v]
    /\ UNCHANGED lease

Disconnect(v, d) ==
    /\ lease[d] = v /\ link[d] = v
    /\ link' = [link EXCEPT ![d] = None]
    /\ UNCHANGED lease

Next ==
    \E v \in Volumes, d \in Devices :
        Acquire(v, d) \/ Release(v, d) \/ Connect(v, d) \/ Disconnect(v, d)

Spec == Init /\ [][Next]_<<lease, link>>

=============================================================================
