-------------------------------- MODULE UsbBus --------------------------------
(***************************************************************************)
(* What the threads of the kernel do with UsbTransfer.  The boot thread    *)
(* waits for a connection, resets the bus, enumerates the devices, hubs    *)
(* within hubs, and mounts the disks it has found (host_usb.c and its      *)
(* devices); then it exits.  The disk server reads the mounted volume from *)
(* the moment it is not dead.                                              *)
(*                                                                         *)
(* todo[t] is what thread t has before it: requests, which take it through *)
(* a transaction, and the steps between them.  A call puts its items in    *)
(* front, so the recursion of enumerate() is a stack; a return drops what  *)
(* is left of the items of its device.                                     *)
(***************************************************************************)
EXTENDS UsbTransfer, FiniteSets, SequencesExt

CONSTANTS Boot, Server, Nobody,
          Buses,            \* what may be plugged in
          MAX_USB_DEVICES,
          MaxTries          \* how often a disk is asked whether it is ready

ASSUME ThreadsAssumption == Thread = {Boot, Server} /\ Boot # Server /\ Nobody \notin Device

ASSUME LimitsAssumption == MAX_USB_DEVICES \in Nat /\ MaxTries \in Nat

\* Devices hang in a tree: each is at one port at most, the root at none.
ASSUME BusesAssumption ==
    /\ IsFiniteSet(Device)
    /\ \A b \in Buses :
          /\ b.root \in Device /\ b.ports \in [Device -> Seq(Device \cup {Nobody})]
          /\ \A h \in Device : \A i \in DOMAIN b.ports[h] :
                /\ b.ports[h][i] # b.root
                /\ b.ports[h][i] # Nobody =>
                      \A g \in Device : \A j \in DOMAIN b.ports[g] :
                         b.ports[g][j] = b.ports[h][i] => g = h /\ j = i

VARIABLES
    bus,      \* the devices that are there, never changed: [root, kind, ports, fat]
    todo,
    list,     \* device_list from 1 on: which device, and that it is not dead
    volume,   \* the disk of the file system
    dead      \* dead_volume

busVars == <<bus, list, volume, dead>>
vars    == <<transferVars, busVars, todo>>

Item(do, d, to, n) == [do |-> do, device |-> d, to |-> to, n |-> n]

Requested(item) == item.do \in DOMAIN Descriptors

\* t is in perform_transaction().
Busy == {t \in Thread : todo[t] # <<>> /\ Requested(Head(todo[t])) /\ phase[t] # "out"}

Disks == {d \in Device : bus.kind[d] = "disk"}

-----------------------------------------------------------------------------
(* Scripts: the requests that functions make, in order *)

GetDescriptor(d, to) == <<Item("query", d, to, 0), Item("query", d, to, 0)>>

\* set_port_feature(PORT_POWER), get_port_status(); for a device that is there,
\* PORT_RESET, two flags cleared, the status again, and enumerate().
Port(h, a, port) ==
    <<Item("order", h, a, port), Item("query", h, a, port)>> \o
    IF bus.ports[h][port] = Nobody THEN <<>>
    ELSE <<Item("restart", h, a, port), Item("order", h, a, port), Item("order", h, a, port),
           Item("query", h, a, port), Item("enumerate", h, a, port)>>

\* The constructors of the drivers.  That of the mouse reads for ever, that of
\* the keyboard is commented out and leaves the device dead.
Driver(d, a) ==
    CASE bus.kind[d] = "hub" ->
           GetDescriptor(d, a)
           \o FlattenSeq([port \in DOMAIN bus.ports[d] |-> Port(d, a, port)])
           \o <<Item("up", d, a, 0)>>
      [] bus.kind[d] = "disk" ->
           GetDescriptor(d, a)
           \o <<Item("query", d, a, 0), Item("test", d, a, 0), Item("read", d, a, 0),
                Item("reply", d, a, 0), Item("up", d, a, 0)>>
      [] bus.kind[d] = "mouse" -> <<Item("poll", d, a, 0)>>
      [] OTHER -> <<>>

\* A slip for the properties to catch: current.address is set too early.
TooEarly(d, a) == a

\* The address of a device until set_address() has returned.
DefaultAddress(d, a) == 0

\* enumerate() of device d, which is given slot a and address a.  A hub's class
\* is in its device descriptor, the others' in the configuration; that of an
\* oversize device does not fit the buffer and ends it.
Identify(d, a) ==
    GetDescriptor(d, 0)
    \o (IF bus.kind[d] = "hub" THEN <<>> ELSE GetDescriptor(d, 0))
    \o <<Item("rename", d, DefaultAddress(d, a), a), Item("order", d, a, 0)>>
    \o Driver(d, a)

Oversize(d) == <<Item("query", d, 0, 0), Item("query", d, 0, 0), Item("query", d, 0, 0)>>

ReadSectors(d, to) == <<Item("read", d, to, 0), Item("reply", d, to, 0)>>

\* mount() of the disks that are not dead, in the order of the list.
Mounts ==
    FlattenSeq([a \in DOMAIN list |->
        LET d == list[a].device IN
        IF list[a].alive /\ bus.kind[d] = "disk"
        THEN ReadSectors(d, a) \o <<Item("initialise", d, a, 0)>> ELSE <<>>])

-----------------------------------------------------------------------------
(* Steps between the requests *)

At(t, do) == isr = "none" /\ todo[t] # <<>> /\ Head(todo[t]).do = do

Then(t, items) == todo' = [todo EXCEPT ![t] = items \o Tail(@)]

\* What t is about to do with one device, up to any point of it, and dropping it.
Own(t) == {k \in DOMAIN todo[t] : \A j \in 1 .. k : todo[t][j].device = Head(todo[t]).device}

Drop(t, k) == todo' = [todo EXCEPT ![t] = SubSeq(@, k + 1, Len(@))]

\* The rest of what t was about to do with the device is dropped.
GiveUp(t) == \E k \in Own(t) : k + 1 \notin Own(t) /\ Drop(t, k)

\* wait_for_connection(), and the port reset of usb_bus_reset(): it ends in an
\* interrupt of its own.
BusReset ==
    /\ At(Boot, "connect") /\ phase[Boot] = "woken"
    /\ phase' = [phase EXCEPT ![Boot] = "started"]
    /\ pci' = (pci \/ ccs)
    /\ address' = [address EXCEPT ![bus.root] = IF ccs THEN 0 ELSE Silent]
    /\ Then(Boot, <<>>)
    /\ UNCHANGED <<signals, asleep, schedule, queue, toggle, isr, ui, ccs, changes, expects,
                   stalls, busVars>>

ResetOver ==
    /\ At(Boot, "reset") /\ phase[Boot] = "woken"
    /\ phase' = [phase EXCEPT ![Boot] = "out"]
    /\ Then(Boot, <<>>)
    /\ UNCHANGED <<signals, asleep, schedule, queue, toggle, controllerVars, deviceVars, busVars>>

\* device_list has no room, or only the last place.
Full == Len(list) + 2 >= MAX_USB_DEVICES

\* What enumerate() is called for: the root, or what is at a port.
Enumerated(item) == IF item.device = Nobody THEN bus.root ELSE bus.ports[item.device][item.n]

Enumerate ==
    /\ At(Boot, "enumerate")
    /\ LET d == Enumerated(Head(todo[Boot]))  a == Len(list) + 1 IN
       IF Full THEN Then(Boot, <<>>) /\ UNCHANGED list
       ELSE /\ list' = Append(list, [device |-> d, alive |-> FALSE])
            /\ Then(Boot, IF bus.kind[d] = "oversize" THEN Oversize(d) ELSE Identify(d, a))
    /\ UNCHANGED <<transferVars, bus, volume, dead>>

Up ==
    /\ At(Boot, "up")
    /\ list' = [list EXCEPT ![Head(todo[Boot]).to].alive = TRUE]
    /\ Then(Boot, <<>>)
    /\ UNCHANGED <<transferVars, bus, volume, dead>>

DeviceManager ==
    /\ At(Boot, "manage") /\ Then(Boot, Mounts)
    /\ UNCHANGED <<transferVars, busVars>>

\* ATOSE_fat::initialise(): the file system is turned to the disk, which may
\* then prove not to hold a FAT32 volume.
Initialise ==
    /\ At(Boot, "initialise")
    /\ LET item == Head(todo[Boot]) IN
          /\ volume' = item.device
          /\ Then(Boot, ReadSectors(item.device, item.to) \o <<[item EXCEPT !.do = "format"]>>)
    /\ UNCHANGED <<transferVars, bus, list, dead>>

\* A slip for the properties to catch: the volume is good before FSInfo is read.
GoodFirst(item) == <<[item EXCEPT !.do = "good"]>> \o ReadSectors(item.device, item.to)

\* What follows a boot sector of FAT32.
FSInfo(item) == ReadSectors(item.device, item.to) \o <<[item EXCEPT !.do = "good"]>>

Format ==
    /\ At(Boot, "format")
    /\ Then(Boot, IF volume \in bus.fat THEN FSInfo(Head(todo[Boot])) ELSE <<>>)
    /\ UNCHANGED <<transferVars, busVars>>

Good ==
    /\ At(Boot, "good") /\ Then(Boot, <<>>)
    /\ dead' = FALSE
    /\ UNCHANGED <<transferVars, bus, list, volume>>

\* The shell is waiting for the volume; from then on programs read files.
Serve ==
    /\ isr = "none" /\ ~dead /\ todo[Server] = <<>>
    /\ \E a \in DOMAIN list :
          /\ list[a].device = volume
          /\ todo' = [todo EXCEPT ![Server] = ReadSectors(volume, a)]
    /\ UNCHANGED <<transferVars, busVars>>

-----------------------------------------------------------------------------
(* Requests *)

Begin(t) ==
    /\ todo[t] # <<>> /\ Requested(Head(todo[t])) /\ Fill(t, Head(todo[t]))
    /\ UNCHANGED <<busVars, todo>>

Go(t) == (Start(t) \/ SemaphoreWait(t)) /\ UNCHANGED <<busVars, todo>>

\* What the caller makes of a request that has returned 0.
\*   test, reply: the status block that came, if it came, says how it went;
\*   query: a buffer that was not filled may say anything, so that any part of
\*   what was to be done with the device is left out.
Returned(t) ==
    LET item == Head(todo[t]) IN
    CASE item.do = "test" ->
           \/ Done /\ Then(t, <<>>)
           \/ IF item.n < MaxTries THEN Then(t, <<[item EXCEPT !.n = @ + 1]>>) ELSE GiveUp(t)
      [] item.do = "reply" -> IF Done THEN Then(t, <<>>) ELSE GiveUp(t)
      [] item.do = "query" /\ ~Done -> \E k \in Own(t) : Drop(t, k)
      [] item.do = "poll" -> UNCHANGED todo
      [] OTHER -> Then(t, <<>>)

End(t) ==
    /\ todo[t] # <<>> /\ Requested(Head(todo[t])) /\ Finish(t, Head(todo[t]))
    /\ Returned(t)
    /\ UNCHANGED busVars

\* The controller performs a descriptor; the last one of set_address() and of
\* PORT_RESET changes who listens.
Perform ==
    /\ \E d \in Device, flipped \in SUBSET Endpoint :
          /\ Transfer(d, flipped)
          /\ LET request == queue.request IN
             address' = CASE request.do = "rename" /\ queue.left = 1 -> [address EXCEPT ![d] = request.n]
                          [] request.do = "restart" /\ queue.left = 1 ->
                               [address EXCEPT ![bus.ports[request.device][request.n]] = 0]
                          [] OTHER -> address
    /\ UNCHANGED <<busVars, todo>>

Hardware == (Halt \/ PortChange) /\ UNCHANGED <<busVars, todo>>

Interrupt == (Acknowledge \/ AcknowledgePort) /\ UNCHANGED <<busVars, todo>>

-----------------------------------------------------------------------------

Init ==
    /\ TransferInit(Boot)
    /\ bus \in Buses
    /\ todo = [t \in Thread |-> IF t = Boot
                                THEN <<Item("connect", Nobody, 0, 0), Item("reset", Nobody, 0, 0),
                                       Item("enumerate", Nobody, 0, 0), Item("manage", Nobody, 0, 0)>>
                                ELSE <<>>]
    /\ list = <<>> /\ volume = Nobody /\ dead = TRUE

BootStep == BusReset \/ ResetOver \/ Enumerate \/ Up \/ DeviceManager \/ Initialise \/ Format \/ Good

Transact(t) == Begin(t) \/ Go(t) \/ End(t)

Next ==
    \/ BootStep \/ Serve
    \/ \E t \in Thread : Transact(t)
    \/ Perform \/ Hardware \/ Interrupt

Spec == Init /\ [][Next]_vars

\* Threads that are ready run (the kernel's EventuallyRuns, while no program asks
\* for a key), interrupts are taken, and a working device answers in the end.
FairSpec ==
    /\ Spec
    /\ WF_vars(BootStep) /\ \A t \in Thread : WF_vars(Transact(t))
    /\ WF_vars(Interrupt) /\ WF_vars(Perform)

-----------------------------------------------------------------------------
(* Properties *)

\* Nothing was plugged in or pulled out since the first connection.
Quiet == changes <= 1

OneDisk == Cardinality(Disks) <= 1

\* perform_transaction() goes on when the reply to its own transfer has come,
\* or the transfer has failed at its end, and not on the signal of something
\* else: as long as the port is quiet and there is only one disk.
WaitsForReply ==
    Quiet /\ OneDisk =>
       \A t \in Busy : phase[t] = "woken" => queue.by = t /\ (queue.left = 0 \/ queue.halted)

\* The static descriptors are one thread's at a time: the boot thread has done
\* with them when it says that the volume is good, if there is only one disk.
Exclusive == OneDisk => Cardinality(Busy) <= 1

\* No device is left at address 0 because it was given up before set_address().
AllAddressed == \A d \in Device : bus.kind[d] # "oversize"

\* A request reaches one device, the one it is for, whatever ports and hubs the
\* devices are behind: when each was given its address before the next was reset.
OneListener ==
    Working /\ Quiet /\ stalls = 0 /\ AllAddressed => Listeners = {queue.request.device}

\* The host's record can tell the toggles of the two endpoints of d apart.
Apart(d) == Number[d]["in"] # Number[d]["out"]

\* Between transactions the host's record of each toggle is the device's own,
\* whatever the lengths of the data were: under the same conditions, and that of
\* OUT only if the device does not use the number of its OUT endpoint for IN too
\* (set_toggle() of the two is the same bit, and IN is saved last).
TogglesAgree ==
    Quiet /\ OneDisk /\ stalls = 0 /\ AllAddressed /\ Busy = {} =>
       \A d \in Device : /\ Recorded(d)["in"] = expects[d]["in"]
                        /\ Apart(d) => Recorded(d)["out"] = expects[d]["out"]

\* A disk that is up and holds FAT32 becomes the volume: no call of the way
\* there is lost, unless there is a mouse, the port changes, a device refuses, or
\* a disk uses one number for both endpoints (which comes up and then hangs).
Boots ==
    /\ \E a \in DOMAIN list : list[a].alive /\ list[a].device \in bus.fat
    /\ \A d \in Device : bus.kind[d] # "mouse"
    /\ \A d \in Disks : Apart(d)
    ~> ~dead \/ ~Quiet \/ stalls > 0

\* dead_volume: "true if we can't read this volume and should consider it
\* dead".  (Violated: a second disk that holds no FAT32 takes the place of the
\* first, which stays good.)
DeadIfUnreadable == ~dead => volume \in bus.fat

=============================================================================
