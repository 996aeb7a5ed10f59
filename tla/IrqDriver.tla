------------------------------ MODULE IrqDriver ------------------------------
(***************************************************************************)
(* The interrupt half of techoGenius/irq_device_driver.c: the module       *)
(* loader's thread runs chr_driver_init and chr_driver_exit, the shared    *)
(* keyboard line may interrupt it at any time once request_irq has         *)
(* succeeded, and the handler hands work to a tasklet that the softirq     *)
(* code runs later, possibly on another processor.                         *)
(*                                                                         *)
(* External to the repository, modelled as the driver uses them: the line  *)
(* is not delivered again while its handler runs; free_irq detaches the    *)
(* handler and then waits for it to finish; tasklet_schedule queues the    *)
(* tasklet unless its SCHED bit is set; the softirq clears SCHED and runs  *)
(* the function once; tasklet_kill waits for SCHED to clear, takes the     *)
(* bit, waits for the function to finish and clears it.                    *)
(*                                                                         *)
(* The other resources of the same init and exit are in DriverLifecycle:   *)
(* here they are the steps before "request_irq" and after "tasklet_kill".  *)
(***************************************************************************)
EXTENDS Naturals

CONSTANTS MaxIrqs,     \* bound on the interrupts delivered in a behaviour
          CounterSize  \* 2^32 in the code: i is an unsigned int

ASSUME IrqAssumption == MaxIrqs \in Nat /\ CounterSize \in Nat \ {0}

VARIABLES
  loader,     \* the call the loader's thread makes next, or where it rests
  registered, \* irq_handler is attached to IRQ_NO
  tasklet,    \* what the global pointer `tasklet' leads to
  handler,    \* where irq_handler is
  i,          \* the global interrupt counter
  sched,      \* the tasklet's SCHED bit
  queued,     \* the tasklet is on a softirq list
  running,    \* tasklet_func is running (the RUN bit)
  irqs,       \* history: interrupts delivered to the driver
  runs,       \* history: executions of tasklet_func completed
  early,      \* history: an interrupt came before tasklet_init had returned
  fault       \* tasklet_schedule was given a pointer to no tasklet

loadVars    == <<loader, registered, tasklet>>
handlerVars == <<handler, i>>
softVars    == <<sched, queued, running>>
histVars    == <<irqs, runs, early, fault>>
vars        == <<loadVars, handlerVars, softVars, histVars>>

Loading   == {"request_irq", "kmalloc", "tasklet_init"}
\* "irq" and "synchronize" are the two halves of free_irq, at the error label
\* irq and in chr_driver_exit; tasklet_kill too has two waits.
Failing   == {"err_free_irq", "err_synchronize"}
Unloading == {"free_irq", "synchronize", "tasklet_kill", "tasklet_wait"}
Places    == {"unloaded", "live"} \cup Loading \cup Failing \cup Unloading

Init == /\ loader = "unloaded"
        /\ registered = FALSE
        /\ tasklet = "null"
        /\ handler = "idle"
        /\ i = 0
        /\ sched = FALSE /\ queued = FALSE /\ running = FALSE
        /\ irqs = 0 /\ runs = 0
        /\ early = FALSE
        /\ fault = FALSE

-----------------------------------------------------------------------------
(* chr_driver_init *)

\* insmod; the ladder up to device_create has succeeded.  The module's data,
\* the pointer and the counter included, is fresh.
Insmod == /\ ~fault
          /\ loader = "unloaded"
          /\ loader' = "request_irq"
          /\ tasklet' = "null"
          /\ i' = 0
          /\ UNCHANGED <<registered, handler, softVars, histVars>>

\* request_irq attaches the handler, or fails and the code jumps to irq.
RequestIrq == /\ ~fault
              /\ loader = "request_irq"
              /\ \/ loader' = "kmalloc" /\ registered' = TRUE
                 \/ loader' = "err_free_irq" /\ UNCHANGED registered
              /\ UNCHANGED <<tasklet, handlerVars, softVars, histVars>>

\* kmalloc of the tasklet, whose memory holds anything, or a jump to irq.
AllocTasklet == /\ ~fault
                /\ loader = "kmalloc"
                /\ \/ loader' = "tasklet_init" /\ tasklet' = "raw"
                   \/ loader' = "err_free_irq" /\ UNCHANGED tasklet
                /\ UNCHANGED <<registered, handlerVars, softVars, histVars>>

\* Broken variant, for mutants: the state word kmalloc handed out is not
\* cleared, so that SCHED is set although the tasklet is on no list.
TaskletInitDirty == /\ ~fault
                    /\ loader = "tasklet_init"
                    /\ loader' = "live"
                    /\ tasklet' = "ready"
                    /\ sched' = TRUE
                    /\ UNCHANGED <<registered, handlerVars, queued, running, histVars>>

TaskletInit == /\ ~fault
               /\ loader = "tasklet_init"
               /\ loader' = "live"
               /\ tasklet' = "ready"
               /\ sched' = FALSE
               /\ UNCHANGED <<registered, handlerVars, queued, running, histVars>>

-----------------------------------------------------------------------------
(* free_irq, at the error label and in chr_driver_exit *)

\* Detaching a handler that was never attached only prints a warning.
FreeIrq(from, to) == /\ ~fault
                     /\ loader = from
                     /\ loader' = to
                     /\ registered' = FALSE
                     /\ UNCHANGED <<tasklet, handlerVars, softVars, histVars>>

\* free_irq returns when no handler is running.
Synchronize(from, to) == /\ ~fault
                         /\ loader = from
                         /\ handler = "idle"
                         /\ loader' = to
                         /\ UNCHANGED <<registered, tasklet, handlerVars, softVars, histVars>>

\* The error path ends in return -1 and the loader discards the module.
ErrFreeIrq     == FreeIrq("err_free_irq", "err_synchronize")
ErrSynchronize == Synchronize("err_synchronize", "unloaded")

\* rmmod starts chr_driver_exit.
Rmmod == /\ ~fault
         /\ loader = "live"
         /\ loader' = "free_irq"
         /\ UNCHANGED <<registered, tasklet, handlerVars, softVars, histVars>>

\* Broken variants, for mutants: free_irq does not wait for the handler; exit
\* forgets tasklet_kill.
ExitNoSynchronize == FreeIrq("synchronize", "tasklet_kill")
ExitNoKill        == Synchronize("synchronize", "unloaded")

ExitFreeIrq     == FreeIrq("free_irq", "synchronize")
ExitSynchronize == Synchronize("synchronize", "tasklet_kill")

\* tasklet_kill takes the SCHED bit once it is clear ...
TaskletKill == /\ ~fault
               /\ loader = "tasklet_kill"
               /\ ~sched
               /\ sched' = TRUE
               /\ loader' = "tasklet_wait"
               /\ UNCHANGED <<registered, tasklet, handlerVars, queued, running, histVars>>

\* ... and returns once the function is not running.  The rest of
\* chr_driver_exit follows and the module's text is discarded.
TaskletWait == /\ ~fault
               /\ loader = "tasklet_wait"
               /\ ~running
               /\ sched' = FALSE
               /\ loader' = "unloaded"
               /\ UNCHANGED <<registered, tasklet, handlerVars, queued, running, histVars>>

-----------------------------------------------------------------------------
(* irq_handler *)

\* The line fires: the driver's handler is entered.
IrqEnter == /\ ~fault
            /\ registered
            /\ handler = "idle"
            /\ irqs < MaxIrqs
            /\ handler' = "entered"
            /\ irqs' = irqs + 1
            /\ early' = (early \/ tasklet # "ready")
            /\ UNCHANGED <<loadVars, i, softVars, runs, fault>>

\* Broken variant, for a mutant: the handler does not schedule the tasklet.
IrqForgets == /\ ~fault
              /\ handler = "entered"
              /\ handler' = "scheduled"
              /\ UNCHANGED <<loadVars, i, softVars, histVars>>

\* tasklet_schedule(tasklet)
IrqSchedule == /\ ~fault
               /\ handler = "entered"
               /\ IF tasklet = "ready"
                    THEN /\ handler' = "scheduled"
                         /\ sched' = TRUE
                         /\ queued' = (queued \/ ~sched)
                         /\ UNCHANGED <<running, fault>>
                    ELSE /\ fault' = TRUE
                         /\ UNCHANGED <<handler, softVars>>
               /\ UNCHANGED <<loadVars, i, irqs, runs, early>>

\* Broken variant, for a mutant: a counter that does not wrap.
IrqReturnNoWrap == /\ ~fault
                   /\ handler = "scheduled"
                   /\ handler' = "idle"
                   /\ i' = i + 1
                   /\ UNCHANGED <<loadVars, softVars, histVars>>

\* i++; return IRQ_HANDLED
IrqReturn == /\ ~fault
             /\ handler = "scheduled"
             /\ handler' = "idle"
             /\ i' = (i + 1) % CounterSize
             /\ UNCHANGED <<loadVars, softVars, histVars>>

-----------------------------------------------------------------------------
(* the softirq *)

TaskletRun == /\ ~fault
              /\ queued /\ ~running
              /\ queued' = FALSE
              /\ sched' = FALSE
              /\ running' = TRUE
              /\ UNCHANGED <<loadVars, handlerVars, histVars>>

\* Broken variant, for a mutant: the function schedules its own tasklet.
tasklet_func_again == /\ ~fault
                      /\ running
                      /\ running' = FALSE
                      /\ runs' = runs + 1
                      /\ sched' = TRUE /\ queued' = TRUE
                      /\ UNCHANGED <<loadVars, handlerVars, irqs, early, fault>>

\* tasklet_func only prints.
tasklet_func == /\ ~fault
                /\ running
                /\ running' = FALSE
                /\ runs' = runs + 1
                /\ UNCHANGED <<loadVars, handlerVars, sched, queued, irqs, early, fault>>

-----------------------------------------------------------------------------

Next == \/ Insmod \/ RequestIrq \/ AllocTasklet \/ TaskletInit
        \/ ErrFreeIrq \/ ErrSynchronize
        \/ Rmmod \/ ExitFreeIrq \/ ExitSynchronize \/ TaskletKill \/ TaskletWait
        \/ IrqEnter \/ IrqSchedule \/ IrqReturn
        \/ TaskletRun \/ tasklet_func

\* The thread that loads or unloads, a handler that has started and the
\* softirq keep running; interrupts, insmod and rmmod need never come.
Fairness == /\ WF_vars(RequestIrq) /\ WF_vars(AllocTasklet) /\ WF_vars(TaskletInit)
            /\ WF_vars(ErrFreeIrq) /\ WF_vars(ErrSynchronize)
            /\ WF_vars(ExitFreeIrq) /\ WF_vars(ExitSynchronize)
            /\ WF_vars(TaskletKill) /\ WF_vars(TaskletWait)
            /\ WF_vars(IrqSchedule) /\ WF_vars(IrqReturn)
            /\ WF_vars(TaskletRun) /\ WF_vars(tasklet_func)

Spec == Init /\ [][Next]_vars
FairSpec == Spec /\ Fairness

-----------------------------------------------------------------------------
(* Properties *)

\* Every variable has its type; i wraps like the unsigned int it is.
TypeOK == /\ loader \in Places
          /\ registered \in BOOLEAN
          /\ tasklet \in {"null", "raw", "ready"}
          /\ handler \in {"idle", "entered", "scheduled"}
          /\ i \in 0 .. CounterSize - 1
          /\ sched \in BOOLEAN /\ queued \in BOOLEAN /\ running \in BOOLEAN
          /\ irqs \in 0 .. MaxIrqs /\ runs \in Nat
          /\ early \in BOOLEAN /\ fault \in BOOLEAN

\* Once chr_driver_exit, or a failed chr_driver_init, has returned, no
\* interrupt can enter the driver, no handler is inside it and no tasklet is
\* queued or running: free_irq before tasklet_kill is the order that works,
\* for a handler that is still running may queue the tasklet again.
QuiescentWhenUnloaded ==
  loader = "unloaded" =>
    ~registered /\ handler = "idle" /\ ~queued /\ ~running

\* tasklet_schedule is given something other than an initialised tasklet only
\* if an interrupt was delivered between request_irq and tasklet_init (or the
\* error path after kmalloc failed); no interrupt of the live driver or of the
\* exit path ever is the cause, reloading the module included.
FaultNeedsEarlyIrq == fault => early

\* Scheduling coalesces and never invents work: the executions of the tasklet,
\* finished, running and pending, are covered by distinct interrupts, and one
\* more interrupt is there for the handler that has yet to schedule.
BoolToNat(b) == IF b THEN 1 ELSE 0
RunsCoveredByIrqs ==
  runs + BoolToNat(queued) + BoolToNat(running) + BoolToNat(handler = "entered") <= irqs

\* What makes the three above inductive: which places of the loader each
\* state of the handler, the pointer and the tasklet belongs to.
Attached == {"kmalloc", "tasklet_init", "live", "free_irq", "err_free_irq"}
Draining == {"synchronize", "err_synchronize"}
LoaderInv ==
  /\ registered => loader \in Attached
  /\ handler # "idle" => loader \in Attached \cup Draining
  /\ loader \in {"live"} \cup Unloading => tasklet = "ready"
  /\ loader \in Loading \cup Failing => tasklet # "ready"
  /\ queued \/ running => loader \in {"live"} \cup Unloading
  /\ sched <=> queued \/ loader = "tasklet_wait"
  /\ loader = "tasklet_wait" => ~queued
  /\ handler # "idle" /\ tasklet # "ready" => early

\* Every interrupt that enters the driver is followed by an execution of the
\* tasklet that starts later, unless it faults for want of a tasklet: the one
\* running already does not count, and rmmod does not drop one that is queued.
Started == runs + BoolToNat(running)
HandledIrqRuns ==
  \A n \in 0 .. MaxIrqs :
    handler = "entered" /\ Started = n ~> Started > n \/ fault

\* rmmod, and an insmod that fails, come to an end: neither free_irq's nor
\* tasklet_kill's waits can be starved by the handler or the tasklet.
UnloadEnds == loader \in Unloading \cup Failing ~> loader = "unloaded" \/ fault
=============================================================================
