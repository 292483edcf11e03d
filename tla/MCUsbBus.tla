------------------------------ MODULE MCUsbBus ------------------------------
(* What may be plugged in: a disk; disks and others behind a hub.           *)
EXTENDS UsbBus, TLC

CONSTANTS d1, d2, d3, d4, d5

\* Every device has two numbers for its endpoints; d2 uses one for both.
TwoNumbers == [d \in Device |-> [in |-> 1, out |-> 2]]
Numbers    == [TwoNumbers EXCEPT ![d2].out = 1]

Bus(kind, fat) ==
    [root |-> d1, kind |-> kind, fat |-> fat,
     ports |-> [d \in Device |-> IF kind[d] # "hub" THEN <<>>
                                 ELSE IF d = d1 THEN <<d2, Nobody, d3>> ELSE <<d4, d5>>]]

Kinds(k1, k2, k3, k4) ==
    (d1 :> k1) @@ (d2 :> k2) @@ (d3 :> k3) @@ (d4 :> k4) @@ (d5 :> "keyboard")

OneDiskBuses ==
    {Bus(Kinds("disk", "none", "none", "none"), {d1}),
     Bus(Kinds("hub", "disk", "none", "none"), {d2}),
     Bus(Kinds("hub", "mouse", "disk", "none"), {d3}),
     Bus(Kinds("hub", "oversize", "disk", "none"), {d3}),
     Bus(Kinds("hub", "keyboard", "disk", "none"), {d3}),
     Bus(Kinds("hub", "hub", "other", "disk"), {d4})}

\* The second of two disks holds something else.
TwoDiskBuses == {Bus(Kinds("hub", "disk", "disk", "none"), {d2})}

=============================================================================
