----------------------------- MODULE UsbTransfer -----------------------------
(***************************************************************************)
(* Transactions of the USB host (host_usb.c): threads that fill static     *)
(* transfer descriptors, start the controller's schedule and wait on one   *)
(* semaphore, which acknowledge() signals both for a finished transfer and *)
(* for a change of the port.  With them the controller and the devices, as *)
(* far as the code relies on them.                                         *)
(*                                                                         *)
(* A request is [do, device, to, n]: what is asked of which device, by     *)
(* which bus address; n is used by UsbBus.                                 *)
(***************************************************************************)
EXTENDS Integers, Sequences

CONSTANTS Thread, Device,
          Number,           \* Number[d][e], the number of endpoint e of device d
          MaxPortChanges,   \* how often something is plugged in or pulled out
          MaxStalls         \* how often a device refuses

Endpoint == {"in", "out"}

ASSUME BoundsAssumption == MaxPortChanges \in Nat /\ MaxStalls \in Nat

ASSUME NumberAssumption == Number \in [Device -> [Endpoint -> 0 .. 15]]

VARIABLES
    signals,   \* value of the semaphore, when nobody sleeps on it
    asleep,    \* its sleepers, the latest first
    phase,     \* phase[t], where t is in perform_transaction()
    schedule,  \* the controller works (USBCMD.ASE)
    queue,     \* the static queue heads and transfer descriptors
    toggle,    \* toggle[d], the host's record of the data toggles: the endpoint
               \* numbers whose bit is set
    isr,       \* "port" while acknowledge() waits for the port
    ui, pci,   \* USBSTS: transfer finished, port change
    ccs,       \* PORTSC1: something is connected
    address,   \* address[d], what device d answers to
    expects,   \* expects[d], the toggles of the device itself
    changes, stalls

semaphoreVars  == <<signals, asleep, phase>>
controllerVars == <<isr, ui, pci, ccs, changes>>
deviceVars     == <<address, expects, stalls>>
transferVars   == <<semaphoreVars, schedule, queue, toggle, controllerVars, deviceVars>>

Silent == -1          \* not reset yet, or pulled out

\* How many descriptors each kind of request is made of: SETUP, IN and OUT;
\* SETUP and IN; OUT and IN; IN.  The last one interrupts.
Descriptors == [query |-> 3, order |-> 2, rename |-> 2, restart |-> 2,
                test |-> 2, read |-> 2, reply |-> 1, poll |-> 1]

\* The endpoints whose toggles a request looks up and saves.
Toggled(do) == CASE do \in {"test", "read"} -> Endpoint
                 [] do \in {"reply", "poll"} -> {"in"}
                 [] OTHER -> {}

\* The bits are kept by endpoint number: the direction, which is a bit of the
\* endpoint's address, has been stripped.
GetToggle(bits, number) == IF number \in bits THEN 1 ELSE 0

SetToggle(bits, number, bit) == IF bit = 1 THEN bits \cup {number} ELSE bits \ {number}

\* What the host takes the toggles of d to be.
Recorded(d) == [e \in Endpoint |-> GetToggle(toggle[d], Number[d][e])]

Done == queue.left = 0 /\ ~queue.halted

-----------------------------------------------------------------------------
(* Threads.  They do not run while an interrupt is being handled. *)

\* initialise_queuehead(), initialise_transfer_descriptor(); a poll, which is not
\* stopped when it returns, is stopped first.
Fill(t, request) ==
    /\ isr = "none" /\ phase[t] = "out"
    /\ phase' = [phase EXCEPT ![t] = "filled"]
    /\ queue' = [by |-> t, request |-> request, left |-> Descriptors[request.do],
                 halted |-> FALSE, dt |-> Recorded(request.device)]
    /\ schedule' = (schedule /\ request.do # "poll")
    /\ UNCHANGED <<signals, asleep, toggle, controllerVars, deviceVars>>

Start(t) ==
    /\ isr = "none" /\ phase[t] = "filled"
    /\ phase' = [phase EXCEPT ![t] = "started"]
    /\ schedule' = TRUE
    /\ UNCHANGED <<signals, asleep, queue, toggle, controllerVars, deviceVars>>

\* ATOSE_api::semaphore_wait().
SemaphoreWait(t) ==
    /\ isr = "none" /\ phase[t] = "started"
    /\ IF signals > 0
       THEN /\ signals' = signals - 1
            /\ phase' = [phase EXCEPT ![t] = "woken"]
            /\ UNCHANGED asleep
       ELSE /\ asleep' = <<t>> \o asleep
            /\ phase' = [phase EXCEPT ![t] = "asleep"]
            /\ UNCHANGED signals
    /\ UNCHANGED <<schedule, queue, toggle, controllerVars, deviceVars>>

\* The toggle of one endpoint of d is read back from its descriptor.
Save(bits, d, e) == SetToggle(bits, Number[d][e], queue.dt[e])

\* A slip for the properties to catch: the toggle of the OUT endpoint is lost.
SavedIn(bits, request) ==
    IF "in" \in Toggled(request.do) THEN Save(bits, request.device, "in") ELSE bits

\* OUT is saved first, so that IN has the last word where they share a number.
Saved(bits, request) ==
    LET d == request.device IN
    CASE Toggled(request.do) = Endpoint -> Save(Save(bits, d, "out"), d, "in")
      [] Toggled(request.do) = {"in"}   -> Save(bits, d, "in")
      [] OTHER -> bits

\* The schedule is stopped, toggles are read back from the descriptors, and the
\* call answers 0 whatever they say.
Finish(t, request) ==
    /\ isr = "none" /\ phase[t] = "woken"
    /\ phase' = [phase EXCEPT ![t] = "out"]
    /\ schedule' = (schedule /\ request.do = "poll")
    /\ toggle' = [toggle EXCEPT ![request.device] = Saved(@, request)]
    /\ UNCHANGED <<signals, asleep, queue, controllerVars, deviceVars>>

-----------------------------------------------------------------------------
(* acknowledge() *)

\* A slip for the properties to catch: a signal that wakes nobody.
CountOnly == signals' = signals + 1 /\ UNCHANGED <<asleep, phase>>

Signal ==
    IF asleep = <<>>
    THEN signals' = signals + 1 /\ UNCHANGED <<asleep, phase>>
    ELSE /\ phase' = [phase EXCEPT ![Head(asleep)] = "woken"]
         /\ asleep' = Tail(asleep)
         /\ UNCHANGED signals

Acknowledge ==
    /\ isr = "none" /\ (ui \/ pci)
    /\ IF ui THEN Signal ELSE UNCHANGED semaphoreVars
    /\ isr' = IF pci THEN "port" ELSE "none"
    /\ ui' = FALSE /\ pci' = FALSE
    /\ UNCHANGED <<schedule, queue, toggle, ccs, changes, deviceVars>>

\* It waits until something is connected, and then sets PCI by reading USBSTS
\* and writing it back: every status bit that is up by then is cleared.
AcknowledgePort ==
    /\ isr = "port" /\ ccs
    /\ Signal
    /\ isr' = "none" /\ ui' = FALSE /\ pci' = FALSE
    /\ UNCHANGED <<schedule, queue, toggle, ccs, changes, deviceVars>>

-----------------------------------------------------------------------------
(* The controller and the devices *)

Working == schedule /\ queue.left > 0 /\ ~queue.halted

\* A slip for the properties to catch: every descriptor interrupts.
EachInterrupts == TRUE

\* ioc is set in the last one only.
LastInterrupts == queue.left = 1

Listeners == {d \in Device : address[d] = queue.request.to}

\* The endpoint of the descriptor at the head of the queue, if it has a toggle:
\* IN comes last.
EndpointNow == Toggled(queue.request.do) \cap {IF queue.left = 1 THEN "in" ELSE "out"}

\* One descriptor is performed: by a device that listens and expects the toggle
\* that is sent, if any.  Data of an odd number of packets
\* flips the toggle at both ends.
Transfer(d, flipped) ==
    /\ Working /\ d \in Listeners /\ ccs
    /\ flipped \subseteq EndpointNow
    /\ EndpointNow = {"out"} => flipped = {"out"}
    /\ \A e \in EndpointNow : queue.dt[e] = expects[d][e]
    /\ LET Flip(dt) == [e \in Endpoint |-> IF e \in flipped THEN 1 - dt[e] ELSE dt[e]] IN
          /\ queue' = [queue EXCEPT !.left = @ - 1, !.dt = Flip(@)]
          /\ expects' = [expects EXCEPT ![d] = Flip(@)]
    /\ ui' = (ui \/ LastInterrupts)
    /\ UNCHANGED <<semaphoreVars, schedule, toggle, isr, pci, ccs, changes, stalls>>

\* The device refuses, or nobody answers.  Only USBINT is enabled, and a queue
\* that halts before its last descriptor does not raise it.
Halt ==
    /\ Working
    /\ \/ Listeners = {} /\ UNCHANGED stalls
       \/ stalls < MaxStalls /\ stalls' = stalls + 1
    /\ queue' = [queue EXCEPT !.halted = TRUE]
    /\ ui' = (ui \/ LastInterrupts)
    /\ UNCHANGED <<semaphoreVars, schedule, toggle, isr, pci, ccs, changes, address, expects>>

\* Something is plugged in or pulled out.
PortChange ==
    /\ changes < MaxPortChanges
    /\ changes' = changes + 1
    /\ ccs' = ~ccs /\ pci' = TRUE
    /\ address' = [d \in Device |-> Silent]
    /\ UNCHANGED <<semaphoreVars, schedule, queue, toggle, isr, ui, expects, stalls>>

\* The first thread is about to wait for a connection.
TransferInit(boot) ==
    /\ signals = 0 /\ asleep = <<>>
    /\ phase = [t \in Thread |-> IF t = boot THEN "started" ELSE "out"]
    /\ schedule = FALSE
    /\ queue = [by |-> boot, request |-> <<>>, left |-> 0, halted |-> FALSE, dt |-> [e \in Endpoint |-> 0]]
    /\ toggle = [d \in Device |-> {}] /\ expects = [d \in Device |-> [e \in Endpoint |-> 0]]
    /\ isr = "none" /\ ui = FALSE /\ pci = FALSE /\ ccs = FALSE
    /\ address = [d \in Device |-> Silent]
    /\ changes = 0 /\ stalls = 0

=============================================================================
