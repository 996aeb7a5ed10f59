------------------------------ MODULE Touchpad -------------------------------
(***************************************************************************)
(* The USB touchpad driver char_driver2/device_driver.c: the life of       *)
(* mouse_t and of its one urb, which the completion handler submits again  *)
(* and again, while clients open and close the input device and the device *)
(* is unplugged or the module unloaded.                                    *)
(*                                                                         *)
(* The file is unfinished: it does not compile (usb_touchpad_close, for    *)
(* one, declares a mouse_t where it means a pointer), and the probe        *)
(* function it names is missing.  Every function that has a body is        *)
(* modelled as it is meant; of probe, only what the others rely on: that   *)
(* it calls mouse_new, prepares the urb, registers the input device and    *)
(* stores the mouse for disconnect.                                        *)
(*                                                                         *)
(* External, as the driver meets it: the input core runs open for the      *)
(* first client and close for the last, one such call at a time, and       *)
(* input_unregister_device closes what is open.  usb_kill_urb makes an urb *)
(* in flight complete with an error, refuses to have it submitted          *)
(* meanwhile, and waits until its handler has returned.                    *)
(***************************************************************************)
EXTENDS Naturals

CONSTANT Clients  \* programs that open the input device

VARIABLES
  module,  \* "unloaded", "live", or "going" during usb_deregister
  device,  \* where probe or disconnect of the device is
  memory,  \* the parts of the mouse that are allocated
  leaked,  \* parts that no pointer leads to any more
  opens,   \* mouse->open
  users,   \* the clients that have the input device open
  urb,     \* "idle", "active", or the handler runs: "good" or "bad" status
  killers, \* the calls of usb_kill_urb in progress
  broken   \* history: since open submitted it the urb has failed or not gone back

memVars == <<memory, leaked>>
useVars == <<opens, users>>
urbVars == <<urb, killers, broken>>
vars    == <<module, device, memVars, useVars, urbVars>>

Parts == <<"mouse", "input", "urb", "data">>
Whole == {"mouse", "input", "urb", "data"}

Init == /\ module = "unloaded"
        /\ device = "absent"
        /\ memory = {} /\ leaked = {}
        /\ opens = 0 /\ users = {}
        /\ urb = "idle" /\ killers = {} /\ broken = FALSE

-----------------------------------------------------------------------------
(* The module, probe, and mouse_new *)

Module(from, to) ==
  module = from /\ module' = to /\ UNCHANGED <<device, memVars, useVars, urbVars>>
Device(from, to) == device = from /\ device' = to /\ UNCHANGED module

\* usb_register; usb_deregister, which disconnects the device and waits.
usb_touchpad_init == Module("unloaded", "live")
usb_touchpad_exit == Module("live", "going")
Deregistered      == device = "absent" /\ Module("going", "unloaded")

Plug == /\ module = "live"
        /\ Device("absent", "probing")
        /\ UNCHANGED <<memVars, useVars, urbVars>>

\* mouse_new: the allocations in their order; touchpad_init clears the mouse.
Allocate == /\ device = "probing"
            /\ \E n \in DOMAIN Parts :
                 /\ memory = {Parts[m] : m \in 1 .. n - 1}
                 /\ memory' = memory \cup {Parts[n]}
                 /\ opens' = IF n = 1 THEN 0 ELSE opens
            /\ UNCHANGED <<module, device, leaked, users, urbVars>>

\* Broken variant, for a mutant: the urb is forgotten.
touchpad_free_noUrb == IF "data" \in memory THEN {"data", "mouse"} ELSE {}

\* What touchpad_free frees: the mouse itself only if it has its data, and the
\* input device never.
touchpad_free == (memory \cap {"urb"}) \cup
                 (IF "data" \in memory THEN {"data", "mouse"} ELSE {})

\* An allocation fails: touchpad_free, and mouse_new returns NULL.
AllocateFails == /\ memory # Whole
                 /\ Device("probing", "absent")
                 /\ memory' = {}
                 /\ leaked' = leaked \cup (memory \ touchpad_free)
                 /\ UNCHANGED <<useVars, urbVars>>

\* The rest of probe, which is missing: the device can be opened from here on.
Probed == /\ memory = Whole
          /\ Device("probing", "bound")
          /\ UNCHANGED <<memVars, useVars, urbVars>>

-----------------------------------------------------------------------------
(* open and close, as the input core calls them *)

\* The core's lock is held as long as close waits in usb_kill_urb.
CoreFree   == "close" \notin killers
Registered == device \in {"bound", "killing", "unregistering"}

\* Broken variant, for a mutant: open stays counted when the urb is refused.
open_counted(c) ==
  /\ Registered /\ CoreFree /\ users = {}
  /\ opens' = opens + 1
  /\ \/ opens > 0 /\ users' = {c} /\ UNCHANGED urbVars
     \/ /\ opens = 0 /\ urb = "idle" /\ killers = {}
        /\ users' = {c} /\ urb' = "active" /\ broken' = FALSE
        /\ UNCHANGED killers
     \/ opens = 0 /\ UNCHANGED <<users, urbVars>>
  /\ UNCHANGED <<module, device, memVars>>

\* Called for the first client.  The urb is submitted if open was 0; that may
\* fail, and does while the urb is being killed: open is then counted back.
usb_touchpad_open(c) ==
  /\ Registered /\ CoreFree /\ users = {}
  /\ \/ opens > 0 /\ users' = {c} /\ opens' = opens + 1 /\ UNCHANGED urbVars
     \/ /\ opens = 0 /\ urb = "idle" /\ killers = {}
        /\ users' = {c} /\ opens' = 1
        /\ urb' = "active" /\ broken' = FALSE
        /\ UNCHANGED killers
     \/ opens = 0 /\ UNCHANGED <<useVars, urbVars>>
  /\ UNCHANGED <<module, device, memVars>>

\* Broken variant, for a mutant: the urb is killed only if open is not 0.
close_inverted == /\ opens' = opens - 1
                  /\ killers' = IF opens > 1 THEN killers \cup {"close"} ELSE killers

\* if(!--mouse->open) usb_kill_urb, which begins here.
usb_touchpad_close == /\ opens' = opens - 1
                      /\ killers' = IF opens = 1 THEN killers \cup {"close"} ELSE killers

CloseLast(c) == /\ CoreFree /\ users = {c}
                /\ users' = {}
                /\ usb_touchpad_close
                /\ UNCHANGED <<module, device, memVars, urb, broken>>

\* The core does not ask the driver about further clients.
OtherClients(c) == /\ Registered /\ CoreFree /\ users \ {c} # {}
                   /\ users' \in {users \cup {c}, users \ {c}}
                   /\ UNCHANGED <<module, device, memVars, opens, urbVars>>

-----------------------------------------------------------------------------
(* The urb *)

\* The device has sent data, or the transfer has failed; a killed urb fails.
Complete == /\ urb = "active"
            /\ urb' \in {"good", "bad"}
            /\ UNCHANGED <<module, device, memVars, useVars, killers, broken>>
Unlink == /\ urb = "active" /\ killers # {}
          /\ urb' = "bad"
          /\ UNCHANGED <<module, device, memVars, useVars, killers, broken>>

\* Broken variant, for a mutant: the handler calls usb_kill_urb, and so waits
\* for its own return.
handle_killsItself == urb = "bad" /\ UNCHANGED vars

\* usb_mouse_handle: if(urb->status) return;
HandleError == /\ urb = "bad"
               /\ urb' = "idle" /\ broken' = TRUE
               /\ UNCHANGED <<module, device, memVars, useVars, killers>>

\* Broken variant, for a mutant: the handler does not submit the urb again.
HandleOnce == /\ urb = "good"
              /\ urb' = "idle"
              /\ UNCHANGED <<module, device, memVars, useVars, killers, broken>>

\* ... otherwise it passes the data on and submits the urb again.  That may
\* fail, and does while the urb is being killed; the result is ignored.
HandleData == /\ urb = "good"
              /\ \/ killers = {} /\ urb' = "active" /\ UNCHANGED broken
                 \/ urb' = "idle" /\ broken' = TRUE
              /\ UNCHANGED <<module, device, memVars, useVars, killers>>

CloseKilled == /\ urb = "idle" /\ "close" \in killers
               /\ killers' = killers \ {"close"}
               /\ UNCHANGED <<module, device, memVars, useVars, urb, broken>>

-----------------------------------------------------------------------------
(* usb_mouse_disconnect *)

Disconnect == /\ Device("bound", "killing")
              /\ killers' = killers \cup {"disconnect"}
              /\ UNCHANGED <<memVars, useVars, urb, broken>>
DisconnectKilled == /\ urb = "idle"
                    /\ Device("killing", "unregistering")
                    /\ killers' = killers \ {"disconnect"}
                    /\ UNCHANGED <<memVars, useVars, urb, broken>>

\* input_unregister_device calls close if clients still have the device open.
Unregister == /\ CoreFree
              /\ Device("unregistering", "closing")
              /\ IF users = {} THEN UNCHANGED <<opens, killers>> ELSE usb_touchpad_close
              /\ users' = {}
              /\ UNCHANGED <<memVars, urb, broken>>

\* The input device is the core's to free, the rest touchpad_free's.
Free == /\ CoreFree
        /\ Device("closing", "absent")
        /\ memory' = {}
        /\ leaked' = leaked \cup (memory \ ({"input"} \cup touchpad_free))
        /\ UNCHANGED <<useVars, urbVars>>

ProbeStep      == Allocate \/ AllocateFails \/ Probed
UrbStep        == Unlink \/ HandleError \/ HandleData \/ CloseKilled
DisconnectStep == DisconnectKilled \/ Unregister \/ Free

Next == \/ usb_touchpad_init \/ usb_touchpad_exit \/ Deregistered \/ Plug
        \/ ProbeStep \/ UrbStep \/ Complete \/ Disconnect \/ DisconnectStep
        \/ \E c \in Clients : usb_touchpad_open(c) \/ CloseLast(c) \/ OtherClients(c)

Spec == Init /\ [][Next]_vars

\* The handler returns, killed urbs are given back, threads in probe and
\* disconnect go on, and usb_deregister disconnects the device.  Fairness is
\* strong for Unregister: it waits for a lock that clients take again and
\* again, but the kernel's mutexes hand over to the longest waiter.
FairSpec == /\ Spec
            /\ WF_vars(ProbeStep) /\ WF_vars(UrbStep) /\ WF_vars(DisconnectStep)
            /\ SF_vars(Unregister)
            /\ WF_vars(module = "going" /\ Disconnect) /\ WF_vars(Deregistered)

-----------------------------------------------------------------------------
(* Properties *)

\* Every variable has its type; the core keeps mouse->open at 0 or 1.
TypeOK == /\ module \in {"unloaded", "live", "going"}
          /\ device \in {"absent", "probing", "bound", "killing", "unregistering", "closing"}
          /\ memory \subseteq Whole /\ leaked \subseteq Whole
          /\ opens \in {0, 1} /\ users \subseteq Clients
          /\ urb \in {"idle", "active", "good", "bad"}
          /\ killers \subseteq {"close", "disconnect"}
          /\ broken \in BOOLEAN

\* The urb is never in flight, nor its handler running, nor the device open,
\* without the whole mouse in memory: not even if a client opens the device
\* after disconnect has killed the urb and before it unregisters the device.
UseHasMouse == urb # "idle" \/ users # {} => memory = Whole

\* A client that has opened the device gets its events as long as no transfer
\* fails and no submission is refused: in particular an open that failed does
\* not make the next one succeed without submitting the urb.
OpenDelivers == device = "bound" /\ users # {} /\ ~broken => urb # "idle"

\* A device that was bound leaves nothing allocated when it is gone; a mouse_new
\* that failed leaves at most the mouse and its input device.
LeavesNothing ==
  [][ device # "absent" /\ device' = "absent" =>
        /\ memory' = {}
        /\ leaked' \ leaked \subseteq
             IF device = "probing" THEN {"mouse", "input"} ELSE {} ]_vars

\* A disconnect ends although the handler submits the urb again, and so does
\* rmmod.
GoesAway == /\ device \in {"killing", "unregistering", "closing"} ~> device = "absent"
            /\ module = "going" ~> module = "unloaded"
=============================================================================
