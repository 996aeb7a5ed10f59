--------------------------- MODULE IrqDriverProofs ---------------------------
(***************************************************************************)
(* Proofs about IrqDriver, for any bound on the interrupts and any width   *)
(* of the counter.  LoaderInv says which places of the loader's thread go  *)
(* with which states of the handler and the tasklet; it is inductive with  *)
(* TypeOK and gives the safety properties.                                 *)
(***************************************************************************)
EXTENDS IrqDriver, TLAPS

\* Every variable keeps its type: in particular i stays below 2^32.
THEOREM TypeCorrect == Spec => []TypeOK
<1>. USE IrqAssumption
<1>1. Init => TypeOK
  <2>. SUFFICES ASSUME Init PROVE TypeOK
    OBVIOUS
  <2>1. i \in 0 .. CounterSize - 1 /\ irqs \in 0 .. MaxIrqs /\ runs \in Nat
    BY DEF Init
  <2>2. sched \in BOOLEAN /\ queued \in BOOLEAN /\ running \in BOOLEAN
    BY DEF Init
  <2>3. registered \in BOOLEAN /\ early \in BOOLEAN /\ fault \in BOOLEAN
    BY DEF Init
  <2>. QED
    BY <2>1, <2>2, <2>3 DEF Init, TypeOK, Places
<1>2. TypeOK /\ [Next]_vars => TypeOK'
  <2>. SUFFICES ASSUME TypeOK, [Next]_vars PROVE TypeOK'
    OBVIOUS
  <2>. USE DEF TypeOK, Places, Loading, Failing, Unloading, loadVars,
               handlerVars, softVars, histVars
  <2>1. CASE Insmod BY <2>1 DEF Insmod
  <2>2. CASE RequestIrq BY <2>2 DEF RequestIrq
  <2>3. CASE AllocTasklet BY <2>3 DEF AllocTasklet
  <2>4. CASE TaskletInit BY <2>4 DEF TaskletInit
  <2>5. CASE ErrFreeIrq BY <2>5 DEF ErrFreeIrq, FreeIrq
  <2>6. CASE ErrSynchronize BY <2>6 DEF ErrSynchronize, Synchronize
  <2>7. CASE Rmmod BY <2>7 DEF Rmmod
  <2>8. CASE ExitFreeIrq BY <2>8 DEF ExitFreeIrq, FreeIrq
  <2>9. CASE ExitSynchronize BY <2>9 DEF ExitSynchronize, Synchronize
  <2>10. CASE TaskletKill BY <2>10 DEF TaskletKill
  <2>11. CASE TaskletWait BY <2>11 DEF TaskletWait
  <2>12. CASE IrqEnter BY <2>12 DEF IrqEnter
  <2>13. CASE IrqSchedule BY <2>13 DEF IrqSchedule
  <2>14. CASE IrqReturn BY <2>14 DEF IrqReturn
  <2>15. CASE TaskletRun BY <2>15 DEF TaskletRun
  <2>16. CASE tasklet_func
    <3>1. runs' \in Nat
      BY <2>16 DEF tasklet_func
    <3>2. UNCHANGED <<loadVars, handlerVars, sched, queued, irqs, early, fault>>
      BY <2>16 DEF tasklet_func
    <3>3. running' \in BOOLEAN
      BY <2>16 DEF tasklet_func
    <3>. QED
      BY <3>1, <3>2, <3>3
  <2>17. CASE UNCHANGED vars BY <2>17 DEF vars
  <2>. QED
    BY <2>1, <2>2, <2>3, <2>4, <2>5, <2>6, <2>7, <2>8, <2>9, <2>10, <2>11,
       <2>12, <2>13, <2>14, <2>15, <2>16, <2>17 DEF Next
<1>. QED
  BY <1>1, <1>2, PTL DEF Spec

-----------------------------------------------------------------------------

\* A step keeps the correspondence between the loader's thread, the handler
\* and the tasklet.
LEMMA LoaderStep == TypeOK /\ LoaderInv /\ [Next]_vars => LoaderInv'
<1>. SUFFICES ASSUME TypeOK, LoaderInv, [Next]_vars PROVE LoaderInv'
  OBVIOUS
<1>. USE DEF TypeOK, LoaderInv, Attached, Draining, Loading, Failing, Unloading,
             loadVars, handlerVars, softVars, histVars
<1>1. CASE Insmod BY <1>1 DEF Insmod
<1>2. CASE RequestIrq BY <1>2 DEF RequestIrq
<1>3. CASE AllocTasklet BY <1>3 DEF AllocTasklet
<1>4. CASE TaskletInit BY <1>4 DEF TaskletInit
<1>5. CASE ErrFreeIrq BY <1>5 DEF ErrFreeIrq, FreeIrq
<1>6. CASE ErrSynchronize BY <1>6 DEF ErrSynchronize, Synchronize
<1>7. CASE Rmmod BY <1>7 DEF Rmmod
<1>8. CASE ExitFreeIrq BY <1>8 DEF ExitFreeIrq, FreeIrq
<1>9. CASE ExitSynchronize BY <1>9 DEF ExitSynchronize, Synchronize
<1>10. CASE TaskletKill BY <1>10 DEF TaskletKill
<1>11. CASE TaskletWait BY <1>11 DEF TaskletWait
<1>12. CASE IrqEnter BY <1>12 DEF IrqEnter
<1>13. CASE IrqSchedule BY <1>13 DEF IrqSchedule
<1>14. CASE IrqReturn BY <1>14 DEF IrqReturn
<1>15. CASE TaskletRun BY <1>15 DEF TaskletRun
<1>16. CASE tasklet_func BY <1>16 DEF tasklet_func
<1>17. CASE UNCHANGED vars BY <1>17 DEF vars
<1>. QED
  BY <1>1, <1>2, <1>3, <1>4, <1>5, <1>6, <1>7, <1>8, <1>9, <1>10, <1>11,
     <1>12, <1>13, <1>14, <1>15, <1>16, <1>17 DEF Next

\* The correspondence holds in every state.
THEOREM LoaderInvariant == Spec => []LoaderInv
<1>1. Init => LoaderInv
  BY DEF Init, LoaderInv, Loading, Failing, Unloading
<1>. QED
  BY <1>1, LoaderStep, TypeCorrect, PTL DEF Spec

\* Once the driver is unloaded no interrupt can enter it, no handler is inside
\* it and no tasklet of it is queued or running: free_irq, then tasklet_kill.
THEOREM Quiescent == Spec => []QuiescentWhenUnloaded
<1>1. TypeOK /\ LoaderInv => QuiescentWhenUnloaded
  BY DEF TypeOK, LoaderInv, QuiescentWhenUnloaded, Attached, Draining, Unloading
<1>. QED
  BY <1>1, TypeCorrect, LoaderInvariant, PTL

\* tasklet_schedule is given no tasklet only because an interrupt was delivered
\* before tasklet_init had returned.
THEOREM FaultIsEarly == Spec => []FaultNeedsEarlyIrq
<1>1. Init => FaultNeedsEarlyIrq
  BY DEF Init, FaultNeedsEarlyIrq
<1>2. TypeOK /\ LoaderInv /\ FaultNeedsEarlyIrq /\ [Next]_vars => FaultNeedsEarlyIrq'
  <2>. SUFFICES ASSUME TypeOK, LoaderInv, FaultNeedsEarlyIrq, [Next]_vars
                PROVE FaultNeedsEarlyIrq'
    OBVIOUS
  <2>. USE DEF FaultNeedsEarlyIrq, loadVars, handlerVars, softVars, histVars
  <2>1. CASE Insmod BY <2>1 DEF Insmod
  <2>2. CASE RequestIrq BY <2>2 DEF RequestIrq
  <2>3. CASE AllocTasklet BY <2>3 DEF AllocTasklet
  <2>4. CASE TaskletInit BY <2>4 DEF TaskletInit
  <2>5. CASE ErrFreeIrq BY <2>5 DEF ErrFreeIrq, FreeIrq
  <2>6. CASE ErrSynchronize BY <2>6 DEF ErrSynchronize, Synchronize
  <2>7. CASE Rmmod BY <2>7 DEF Rmmod
  <2>8. CASE ExitFreeIrq BY <2>8 DEF ExitFreeIrq, FreeIrq
  <2>9. CASE ExitSynchronize BY <2>9 DEF ExitSynchronize, Synchronize
  <2>10. CASE TaskletKill BY <2>10 DEF TaskletKill
  <2>11. CASE TaskletWait BY <2>11 DEF TaskletWait
  <2>12. CASE IrqEnter BY <2>12 DEF IrqEnter
  <2>13. CASE IrqSchedule
    <3>1. fault' => tasklet # "ready" /\ handler # "idle"
      BY <2>13 DEF IrqSchedule
    <3>2. early' = early
      BY <2>13 DEF IrqSchedule
    <3>. QED
      BY <3>1, <3>2 DEF LoaderInv
  <2>14. CASE IrqReturn BY <2>14 DEF IrqReturn
  <2>15. CASE TaskletRun BY <2>15 DEF TaskletRun
  <2>16. CASE tasklet_func BY <2>16 DEF tasklet_func
  <2>17. CASE UNCHANGED vars BY <2>17 DEF vars
  <2>. QED
    BY <2>1, <2>2, <2>3, <2>4, <2>5, <2>6, <2>7, <2>8, <2>9, <2>10, <2>11,
       <2>12, <2>13, <2>14, <2>15, <2>16, <2>17 DEF Next
<1>. QED
  BY <1>1, <1>2, TypeCorrect, LoaderInvariant, PTL DEF Spec

\* However interrupts coalesce, the tasklet never runs more often than they came.
THEOREM RunsCovered == Spec => []RunsCoveredByIrqs
<1>1. Init => RunsCoveredByIrqs
  BY DEF Init, RunsCoveredByIrqs, BoolToNat
<1>2. TypeOK /\ RunsCoveredByIrqs /\ [Next]_vars => RunsCoveredByIrqs'
  <2>. SUFFICES ASSUME TypeOK, RunsCoveredByIrqs, [Next]_vars
                PROVE RunsCoveredByIrqs'
    OBVIOUS
  <2>. USE DEF TypeOK, RunsCoveredByIrqs, BoolToNat, loadVars, handlerVars,
               softVars, histVars
  <2>1. CASE Insmod BY <2>1 DEF Insmod
  <2>2. CASE RequestIrq BY <2>2 DEF RequestIrq
  <2>3. CASE AllocTasklet BY <2>3 DEF AllocTasklet
  <2>4. CASE TaskletInit BY <2>4 DEF TaskletInit
  <2>5. CASE ErrFreeIrq BY <2>5 DEF ErrFreeIrq, FreeIrq
  <2>6. CASE ErrSynchronize BY <2>6 DEF ErrSynchronize, Synchronize
  <2>7. CASE Rmmod BY <2>7 DEF Rmmod
  <2>8. CASE ExitFreeIrq BY <2>8 DEF ExitFreeIrq, FreeIrq
  <2>9. CASE ExitSynchronize BY <2>9 DEF ExitSynchronize, Synchronize
  <2>10. CASE TaskletKill BY <2>10 DEF TaskletKill
  <2>11. CASE TaskletWait BY <2>11 DEF TaskletWait
  <2>12. CASE IrqEnter BY <2>12 DEF IrqEnter
  <2>13. CASE IrqSchedule BY <2>13 DEF IrqSchedule
  <2>14. CASE IrqReturn BY <2>14 DEF IrqReturn
  <2>15. CASE TaskletRun BY <2>15 DEF TaskletRun
  <2>16. CASE tasklet_func BY <2>16 DEF tasklet_func
  <2>17. CASE UNCHANGED vars BY <2>17 DEF vars
  <2>. QED
    BY <2>1, <2>2, <2>3, <2>4, <2>5, <2>6, <2>7, <2>8, <2>9, <2>10, <2>11,
       <2>12, <2>13, <2>14, <2>15, <2>16, <2>17 DEF Next
<1>. QED
  BY <1>1, <1>2, TypeCorrect, PTL DEF Spec
=============================================================================
