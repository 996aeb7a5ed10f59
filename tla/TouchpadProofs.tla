--------------------------- MODULE TouchpadProofs ----------------------------
(***************************************************************************)
(* Proofs about Touchpad, for any number of clients.  UseInv says who may  *)
(* use the mouse at each place of probe and disconnect; it is inductive    *)
(* with TypeOK.                                                            *)
(***************************************************************************)
EXTENDS Touchpad, TLAPS

Connected == {"bound", "killing", "unregistering", "closing"}

\* mouse_new has come to its n-th allocation: what there is after it.
LEMMA Allocated ==
  ASSUME NEW n \in DOMAIN Parts, memory = {Parts[m] : m \in 1 .. n - 1},
         memory' = memory \cup {Parts[n]}
  PROVE  memory' \in {{"mouse"}, {"mouse", "input"}, {"mouse", "input", "urb"}, Whole}
<1>. USE DEF Parts, Whole
<1>1. n \in 1 .. 4
  OBVIOUS
<1>2. CASE n = 1
  <2>1. 1 .. n - 1 = {}
    BY <1>2
  <2>2. Parts[n] = "mouse"
    BY <1>2
  <2>. QED
    BY <2>1, <2>2
<1>3. CASE n = 2
  <2>1. 1 .. n - 1 = {1}
    BY <1>3
  <2>2. Parts[1] = "mouse" /\ Parts[n] = "input"
    BY <1>3
  <2>. QED
    BY <2>1, <2>2
<1>4. CASE n = 3
  <2>1. 1 .. n - 1 = {1, 2}
    BY <1>4
  <2>2. Parts[1] = "mouse" /\ Parts[2] = "input" /\ Parts[n] = "urb"
    BY <1>4
  <2>. QED
    BY <2>1, <2>2
<1>5. CASE n = 4
  <2>1. 1 .. n - 1 = {1, 2, 3}
    BY <1>5
  <2>2. Parts[1] = "mouse" /\ Parts[2] = "input" /\ Parts[3] = "urb" /\ Parts[n] = "data"
    BY <1>5
  <2>. QED
    BY <2>1, <2>2
<1>6. n = 1 \/ n = 2 \/ n = 3 \/ n = 4
  BY <1>1
<1>. QED
  BY <1>2, <1>3, <1>4, <1>5, <1>6, Zenon

-----------------------------------------------------------------------------

\* The urb is in flight only for clients that have the device open or for a
\* close that is killing it; the device is open only while it is registered;
\* and from probe to the end of disconnect the mouse is whole.
UseInv ==
  /\ opens \in {0, 1} /\ (users # {} <=> opens = 1)
  /\ users # {} => Registered
  /\ urb # "idle" => users # {} \/ "close" \in killers
  /\ "close" \in killers => device \in Connected
  /\ device \in Connected => memory = Whole
  /\ memory \in {{}, {"mouse"}, {"mouse", "input"}, {"mouse", "input", "urb"}, Whole}

\* It is inductive by itself, in every order of the steps.
LEMMA UseInvariant == Spec => []UseInv
<1>. USE DEF UseInv, Registered, Connected, memVars, useVars, urbVars
<1>1. Init => UseInv
  BY DEF Init
<1>2. UseInv /\ [Next]_vars => UseInv'
  <2>. SUFFICES ASSUME UseInv, [Next]_vars PROVE UseInv'
    OBVIOUS
  <2>1. CASE usb_touchpad_init \/ usb_touchpad_exit \/ Deregistered
    BY <2>1 DEF usb_touchpad_init, usb_touchpad_exit, Deregistered, Module
  <2>2. CASE Plug BY <2>2 DEF Plug, Device
  <2>3. CASE Allocate
    <3>1. memory' \in {{"mouse"}, {"mouse", "input"}, {"mouse", "input", "urb"}, Whole}
      BY <2>3, Allocated DEF Allocate
    <3>2. opens' \in {0, opens} /\ UNCHANGED <<device, users, urb, killers>>
      BY <2>3 DEF Allocate
    <3>3. device = "probing"
      BY <2>3 DEF Allocate
    <3>. QED
      BY <3>1, <3>2, <3>3
  <2>4. CASE AllocateFails BY <2>4 DEF AllocateFails, Device
  <2>5. CASE Probed BY <2>5 DEF Probed, Device
  <2>6. CASE UrbStep \/ Complete
    BY <2>6 DEF UrbStep, Unlink, HandleError, HandleData, CloseKilled, Complete
  <2>7. CASE Disconnect BY <2>7 DEF Disconnect, Device
  <2>8. CASE DisconnectKilled BY <2>8 DEF DisconnectKilled, Device
  <2>9. CASE Unregister
    BY <2>9 DEF Unregister, Device, CoreFree, usb_touchpad_close
  <2>10. CASE Free BY <2>10 DEF Free, Device, CoreFree
  <2>11. ASSUME NEW c \in Clients, usb_touchpad_open(c) PROVE UseInv'
    BY <2>11 DEF usb_touchpad_open, CoreFree
  <2>12. ASSUME NEW c \in Clients, CloseLast(c) PROVE UseInv'
    BY <2>12 DEF CloseLast, CoreFree, usb_touchpad_close
  <2>13. ASSUME NEW c \in Clients, OtherClients(c) PROVE UseInv'
    BY <2>13 DEF OtherClients, CoreFree
  <2>14. CASE UNCHANGED vars BY <2>14 DEF vars
  <2>. QED
    BY <2>1, <2>2, <2>3, <2>4, <2>5, <2>6, <2>7, <2>8, <2>9, <2>10, <2>11, <2>12,
       <2>13, <2>14 DEF Next, ProbeStep, DisconnectStep
<1>. QED
  BY <1>1, <1>2, PTL DEF Spec

\* Whatever order clients, the handler and disconnect take their steps in, the
\* urb and the open device have the whole mouse under them.
THEOREM MouseInUse == Spec => []UseHasMouse
<1>1. UseInv => UseHasMouse
  BY DEF UseInv, UseHasMouse, Registered, Connected
<1>. QED
  BY <1>1, UseInvariant, PTL

-----------------------------------------------------------------------------

\* disconnect loses nothing, and a failed mouse_new no more than the mouse and
\* its input device.
THEOREM NothingLost == Spec => LeavesNothing
<1>. DEFINE Lost == device # "absent" /\ device' = "absent" =>
              /\ memory' = {}
              /\ leaked' \ leaked \subseteq
                   IF device = "probing" THEN {"mouse", "input"} ELSE {}
<1>1. UseInv /\ [Next]_vars => [Lost]_vars
  <2>. SUFFICES ASSUME UseInv, Next, device # "absent", device' = "absent"
                PROVE  Lost
    OBVIOUS
  <2>. USE DEF UseInv, Connected, Whole, touchpad_free
  <2>1. CASE AllocateFails BY <2>1 DEF AllocateFails, Device
  <2>2. CASE Free BY <2>2 DEF Free, Device
  <2>3. CASE usb_touchpad_init \/ usb_touchpad_exit \/ Deregistered \/ Plug
    BY <2>3 DEF usb_touchpad_init, usb_touchpad_exit, Deregistered, Module, Plug, Device
  <2>4. CASE Allocate \/ Probed BY <2>4 DEF Allocate, Probed, Device
  <2>5. CASE UrbStep \/ Complete
    BY <2>5 DEF UrbStep, Unlink, HandleError, HandleData, CloseKilled, Complete
  <2>6. CASE Disconnect \/ DisconnectKilled \/ Unregister
    BY <2>6 DEF Disconnect, DisconnectKilled, Unregister, Device
  <2>7. ASSUME NEW c \in Clients, usb_touchpad_open(c) \/ CloseLast(c) \/ OtherClients(c)
        PROVE  FALSE
    BY <2>7 DEF usb_touchpad_open, CloseLast, OtherClients
  <2>. QED
    BY <2>1, <2>2, <2>3, <2>4, <2>5, <2>6, <2>7 DEF Next, ProbeStep, DisconnectStep
<1>. QED
  BY <1>1, UseInvariant, PTL DEF Spec, LeavesNothing

-----------------------------------------------------------------------------

\* Every variable keeps its type; mouse->open is 0 or 1, as the core calls open
\* and close.
THEOREM TypeCorrect == Spec => []TypeOK
<1>. USE DEF TypeOK, Whole
<1>1. Init => TypeOK
  BY DEF Init
<1>2. UseInv /\ UseInv' /\ TypeOK /\ [Next]_vars => TypeOK'
  <2>. SUFFICES ASSUME UseInv, UseInv', TypeOK, [Next]_vars PROVE TypeOK'
    OBVIOUS
  <2>. USE DEF memVars, useVars, urbVars
  <2>1. opens' \in {0, 1} /\ memory' \subseteq Whole
    BY DEF UseInv
  <2>2. CASE usb_touchpad_init \/ usb_touchpad_exit \/ Deregistered \/ Plug
    BY <2>1, <2>2
       DEF usb_touchpad_init, usb_touchpad_exit, Deregistered, Module, Plug, Device
  <2>3. CASE Allocate \/ Probed BY <2>1, <2>3 DEF Allocate, Probed, Device
  <2>4. CASE AllocateFails BY <2>1, <2>4 DEF AllocateFails, Device
  <2>5. CASE UrbStep \/ Complete
    BY <2>1, <2>5 DEF UrbStep, Unlink, HandleError, HandleData, CloseKilled, Complete
  <2>6. CASE Disconnect \/ DisconnectKilled
    BY <2>1, <2>6 DEF Disconnect, DisconnectKilled, Device
  <2>7. CASE Unregister
    BY <2>1, <2>7 DEF Unregister, Device, usb_touchpad_close
  <2>8. CASE Free BY <2>1, <2>8 DEF Free, Device
  <2>9. ASSUME NEW c \in Clients, usb_touchpad_open(c) PROVE TypeOK'
    BY <2>1, <2>9 DEF usb_touchpad_open
  <2>10. ASSUME NEW c \in Clients, CloseLast(c) \/ OtherClients(c) PROVE TypeOK'
    BY <2>1, <2>10 DEF CloseLast, OtherClients, usb_touchpad_close
  <2>11. CASE UNCHANGED vars BY <2>11 DEF vars
  <2>. QED
    BY <2>2, <2>3, <2>4, <2>5, <2>6, <2>7, <2>8, <2>9, <2>10, <2>11
       DEF Next, ProbeStep, DisconnectStep
<1>. QED
  BY <1>1, <1>2, UseInvariant, PTL DEF Spec

-----------------------------------------------------------------------------

\* Inductive, unlike OpenDelivers: also while disconnect is under way an open
\* device whose urb has not failed has it in flight.
InFlight == users # {} /\ ~broken => urb # "idle"

\* Whatever opens have failed before and whatever close and disconnect were
\* killing, a client that has the device open gets its events.
THEOREM Delivers == Spec => []OpenDelivers
<1>. USE DEF InFlight, memVars, useVars, urbVars
<1>1. Init => InFlight
  BY DEF Init
<1>2. UseInv /\ InFlight /\ [Next]_vars => InFlight'
  <2>. SUFFICES ASSUME UseInv, InFlight, [Next]_vars PROVE InFlight'
    OBVIOUS
  <2>1. CASE usb_touchpad_init \/ usb_touchpad_exit \/ Deregistered \/ Plug
    BY <2>1 DEF usb_touchpad_init, usb_touchpad_exit, Deregistered, Module, Plug, Device
  <2>2. CASE ProbeStep
    BY <2>2 DEF ProbeStep, Allocate, AllocateFails, Probed
  <2>3. CASE UrbStep \/ Complete
    BY <2>3 DEF UrbStep, Unlink, HandleError, HandleData, CloseKilled, Complete
  <2>4. CASE Disconnect \/ DisconnectStep
    BY <2>4 DEF DisconnectStep, Disconnect, DisconnectKilled, Unregister, Free
  <2>5. ASSUME NEW c \in Clients, usb_touchpad_open(c) PROVE InFlight'
    BY <2>5 DEF usb_touchpad_open, UseInv
  <2>6. ASSUME NEW c \in Clients, CloseLast(c) \/ OtherClients(c) PROVE InFlight'
    BY <2>6 DEF CloseLast, OtherClients
  <2>7. CASE UNCHANGED vars BY <2>7 DEF vars
  <2>. QED
    BY <2>1, <2>2, <2>3, <2>4, <2>5, <2>6, <2>7 DEF Next
<1>3. InFlight => OpenDelivers
  BY DEF OpenDelivers
<1>. QED
  BY <1>1, <1>2, <1>3, UseInvariant, PTL DEF Spec
=============================================================================
