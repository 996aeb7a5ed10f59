-------------------------- MODULE BufferDriverProofs --------------------------
(***************************************************************************)
(* Proofs about BufferDriver, for any number of files, blocks and cells.   *)
(* ExclusiveUse (while uses have not overlapped, the one file in use has   *)
(* the one live block) is inductive with TypeOK; the other invariants      *)
(* follow from it, and so does the refinement of ScratchDevice.            *)
(***************************************************************************)
EXTENDS BufferDriver, TLAPS

-----------------------------------------------------------------------------
(* The two user copies keep memory well-formed. *)

\* A copy from the user of at most MemSize cells fills a block with values.
LEMMA CopyFromUserType ==
  ASSUME NEW dst \in Area, NEW src \in Area, NEW len \in Nat, len <= MemSize,
         NEW good \in 0 .. len
  PROVE  CopyFromUser(dst, src, len, good) \in Area
BY ConstAssumption DEF CopyFromUser, Area, Cells

\* A copy to the user of one whole block fills the client's buffer with values.
LEMMA CopyToUserType ==
  ASSUME NEW b \in Area, NEW src \in Area, NEW good \in 0 .. MemSize
  PROVE  CopyToUser(b, src, MemSize, good) \in Area
BY ConstAssumption DEF CopyToUser, Area, Cells

\* The cleared block is a block.
LEMMA BlankType == Blank \in Area
BY ConstAssumption DEF Blank, Area, Cells

-----------------------------------------------------------------------------
(* Types *)

\* A step of one file keeps the types.
LEMMA TypeStep == TypeOK /\ [Next]_vars => TypeOK'
<1>. SUFFICES ASSUME TypeOK, [Next]_vars PROVE TypeOK'
  OBVIOUS
<1>. USE ConstAssumption
<1>. USE DEF TypeOK, States, Return, driverVars, heapVars, fileVars, histVars
<1>1. ASSUME NEW f \in Files, OpenAlloc(f) PROVE TypeOK'
  BY <1>1 DEF OpenAlloc
<1>2. ASSUME NEW f \in Files, OpenStore(f) PROVE TypeOK'
  BY <1>2 DEF OpenStore
<1>3. ASSUME NEW f \in Files, ReadStart(f) PROVE TypeOK'
  BY <1>3 DEF ReadStart, Load
<1>4. ASSUME NEW f \in Files, ReadCopy(f) PROVE TypeOK'
  <2>1. CASE BadAccess(f)
    BY <2>1 DEF BadAccess
  <2>2. CASE ~BadAccess(f)
    <3>1. PICK good \in 0 .. MemSize :
            buf' = [buf EXCEPT ![f] = CopyToUser(@, mem[ptr[f]], MemSize, good)]
      BY <1>4, <2>2 DEF ReadCopy
    <3>2. buf' \in [Files -> Area]
      BY <1>4, <2>2, <3>1, CopyToUserType DEF ReadCopy
    <3>. QED
      BY <1>4, <2>2, <3>2 DEF ReadCopy
  <2>. QED
    BY <2>1, <2>2
<1>5. ASSUME NEW f \in Files, WriteStart(f) PROVE TypeOK'
  BY <1>5 DEF WriteStart, Load
<1>6. ASSUME NEW f \in Files, WriteCopy(f) PROVE TypeOK'
  <2>1. CASE BadAccess(f)
    BY <2>1 DEF BadAccess
  <2>2. CASE ~BadAccess(f) /\ mem' # mem
    <3>1. PICK len \in WriteLens, src \in Area : \E good \in 0 .. len :
            /\ ptr[f] \in live
            /\ len <= MemSize
            /\ mem' = [mem EXCEPT ![ptr[f]] = CopyFromUser(@, src, len, good)]
      BY <1>6, <2>2 DEF WriteCopy
    <3>2. mem' \in [Blocks -> Area]
      BY <3>1, CopyFromUserType
    <3>. QED
      BY <1>6, <2>2, <3>2 DEF WriteCopy
  <2>3. CASE ~BadAccess(f) /\ mem' = mem
    BY <1>6, <2>3 DEF WriteCopy
  <2>. QED
    BY <2>1, <2>2, <2>3
<1>7. ASSUME NEW f \in Files, ReleaseStart(f) PROVE TypeOK'
  BY <1>7 DEF ReleaseStart, Load
<1>8. ASSUME NEW f \in Files, ReleaseFree(f) PROVE TypeOK'
  BY <1>8 DEF ReleaseFree
<1>9. ASSUME NEW f \in Files, IoctlWrite(f) PROVE TypeOK'
  BY <1>9 DEF IoctlWrite
<1>10. CASE UNCHANGED vars
  BY <1>10 DEF vars
<1>. QED
  BY <1>1, <1>2, <1>3, <1>4, <1>5, <1>6, <1>7, <1>8, <1>9, <1>10 DEF Next

\* Every variable keeps its type, whatever the clients do.
THEOREM TypeCorrect == Spec => []TypeOK
<1>1. ASSUME Init PROVE TypeOK
  <2>1. /\ st \in [Files -> States] /\ ptr \in [Files -> Blocks \cup {NULL}]
        /\ buf \in [Files -> Area]
    BY <1>1, BlankType DEF Init, States
  <2>2. sent \in [Files -> Values \cup {NULL}]
    BY <1>1 DEF Init
  <2>3. val \in Values /\ mem \in [Blocks -> Area]
    BY <1>1, ConstAssumption DEF Init
  <2>4. /\ kernel_buffer \in Blocks \cup {NULL} /\ live \subseteq Blocks
        /\ overlapped \in BOOLEAN /\ oversized \in BOOLEAN /\ fault = "none"
    BY <1>1 DEF Init
  <2>. QED
    BY <2>1, <2>2, <2>3, <2>4 DEF TypeOK
<1>. QED
  BY <1>1, TypeStep, PTL DEF Spec

-----------------------------------------------------------------------------
(* Exclusive use *)

\* A step of the open handler, of any handler after it, of ioctl: each keeps
\* the one file in use the owner of the one live block.
LEMMA ExclusiveStep == TypeOK /\ ExclusiveUse /\ [Next]_vars => ExclusiveUse'
<1>. SUFFICES ASSUME TypeOK, ExclusiveUse, [Next]_vars, ~overlapped'
              PROVE  /\ \A f, g \in InUse' : f = g
                     /\ \A f \in Files : LoneFileOwnsBuffer(f)'
                     /\ InUse' = {} => live' = {}
                     /\ fault' \in {"none", "overrun"}
  BY DEF ExclusiveUse
<1>. DEFINE Goal == /\ \A f, g \in InUse' : f = g
                    /\ \A f \in Files : LoneFileOwnsBuffer(f)'
                    /\ InUse' = {} => live' = {}
                    /\ fault' \in {"none", "overrun"}
<1>. USE ConstAssumption
<1>. USE DEF TypeOK, States, Return, LoneFileOwnsBuffer, InUse,
             driverVars, heapVars, fileVars, histVars
<1>0. ~overlapped => /\ \A f, g \in InUse : f = g
                     /\ \A f \in Files : LoneFileOwnsBuffer(f)
                     /\ InUse = {} => live = {}
                     /\ fault \in {"none", "overrun"}
  BY DEF ExclusiveUse
<1>1. ASSUME NEW f \in Files, OpenAlloc(f) PROVE Goal
  <2>1. InUse = {} /\ live = {} /\ fault = "none"
    BY <1>1 DEF OpenAlloc, ExclusiveUse
  <2>2. live' = {ptr'[f]} \ {NULL} /\ st' = [st EXCEPT ![f] = "opening"]
    BY <1>1, <2>1 DEF OpenAlloc
  <2>3. \A g \in Files \ {f} : st'[g] = "closed"
    BY <2>1, <2>2
  <2>. QED
    BY <1>1, <2>1, <2>2, <2>3 DEF OpenAlloc
<1>2. ASSUME NEW f \in Files, OpenStore(f) PROVE Goal
  BY <1>0, <1>2 DEF OpenStore
<1>3. ASSUME NEW f \in Files, ReadStart(f) PROVE Goal
  BY <1>0, <1>3 DEF ReadStart, Load
<1>4. ASSUME NEW f \in Files, ReadCopy(f) PROVE Goal
  BY <1>0, <1>4 DEF ReadCopy, BadAccess
<1>5. ASSUME NEW f \in Files, WriteStart(f) PROVE Goal
  BY <1>0, <1>5 DEF WriteStart, Load
<1>6. ASSUME NEW f \in Files, WriteCopy(f) PROVE Goal
  BY <1>0, <1>6 DEF WriteCopy, BadAccess
<1>7. ASSUME NEW f \in Files, ReleaseStart(f) PROVE Goal
  BY <1>0, <1>7 DEF ReleaseStart, Load
<1>8. ASSUME NEW f \in Files, ReleaseFree(f) PROVE Goal
  BY <1>0, <1>8 DEF ReleaseFree
<1>9. ASSUME NEW f \in Files, IoctlWrite(f) PROVE Goal
  BY <1>0, <1>9 DEF IoctlWrite
<1>10. CASE UNCHANGED vars
  BY <1>0, <1>10 DEF vars
<1>. QED
  BY <1>1, <1>2, <1>3, <1>4, <1>5, <1>6, <1>7, <1>8, <1>9, <1>10 DEF Next

\* While uses do not overlap, the file in use owns the one live block.
THEOREM ExclusiveOwnership == Spec => []ExclusiveUse
<1>1. Init => ExclusiveUse
  BY DEF Init, ExclusiveUse, InUse, LoneFileOwnsBuffer
<1>. QED
  BY <1>1, TypeCorrect, ExclusiveStep, PTL DEF Spec

\* Clients that have never overlapped and have all closed leave no block behind.
THEOREM NoLeak == Spec => []NoLeakWhenExclusive
<1>1. ExclusiveUse => NoLeakWhenExclusive
  BY DEF ExclusiveUse, NoLeakWhenExclusive
<1>. QED
  BY <1>1, ExclusiveOwnership, PTL

\* A memory error needs clients that overlapped or a write longer than mem_size.
THEOREM MemorySafety == Spec => []FaultNeedsMisuse
<1>. DEFINE OverrunIsOversized == fault = "overrun" => oversized
<1>1. Init => OverrunIsOversized
  BY DEF Init
<1>2. TypeOK /\ OverrunIsOversized /\ [Next]_vars => OverrunIsOversized'
  <2>. SUFFICES ASSUME TypeOK, OverrunIsOversized, [Next]_vars, fault' = "overrun"
                PROVE  oversized'
    OBVIOUS
  <2>1. CASE UNCHANGED <<fault, oversized>>
    BY <2>1
  <2>2. CASE \E f \in Files : WriteCopy(f)
    BY <2>2 DEF WriteCopy, BadAccess, histVars
  <2>3. CASE \E f \in Files : ReadCopy(f) \/ ReleaseFree(f)
    BY <2>3 DEF ReadCopy, ReleaseFree, BadAccess, histVars
  <2>4. CASE \E f \in Files : \/ OpenAlloc(f) \/ OpenStore(f) \/ ReadStart(f)
                              \/ WriteStart(f) \/ ReleaseStart(f) \/ IoctlWrite(f)
    BY <2>4 DEF OpenAlloc, OpenStore, ReadStart, WriteStart, ReleaseStart, Load,
                IoctlWrite, histVars
  <2>. QED
    BY <2>1, <2>2, <2>3, <2>4 DEF Next, vars, histVars
<1>3. ExclusiveUse /\ OverrunIsOversized => FaultNeedsMisuse
  BY DEF ExclusiveUse, FaultNeedsMisuse
<1>. QED
  BY <1>1, <1>2, <1>3, TypeCorrect, ExclusiveOwnership, PTL DEF Spec

\* A step keeps val at what the one file in use has sent.
LEMMA RoundTripStep ==
  TypeOK /\ ExclusiveUse /\ IoctlRoundTrip /\ [Next]_vars => IoctlRoundTrip'
<1>. SUFFICES ASSUME TypeOK, ExclusiveUse, IoctlRoundTrip, [Next]_vars, ~overlapped',
                     NEW g \in Files, sent'[g] # NULL
              PROVE  g \in Holder' /\ val' = sent'[g]
  BY DEF IoctlRoundTrip
<1>. USE ConstAssumption
<1>. USE DEF TypeOK, States, Return, InUse, Holder, IoctlRoundTrip,
             driverVars, heapVars, fileVars, histVars
<1>1. ASSUME NEW f \in Files, OpenAlloc(f) PROVE g \in Holder' /\ val' = sent'[g]
  BY <1>1 DEF OpenAlloc
<1>2. ASSUME NEW f \in Files, OpenStore(f) PROVE g \in Holder' /\ val' = sent'[g]
  BY <1>2 DEF OpenStore
<1>3. ASSUME NEW f \in Files, ReadStart(f) \/ WriteStart(f) \/ ReleaseStart(f)
      PROVE  g \in Holder' /\ val' = sent'[g]
  BY <1>3 DEF ReadStart, WriteStart, ReleaseStart, Load
<1>4. ASSUME NEW f \in Files, ReadCopy(f) PROVE g \in Holder' /\ val' = sent'[g]
  BY <1>4 DEF ReadCopy, BadAccess
<1>5. ASSUME NEW f \in Files, WriteCopy(f) PROVE g \in Holder' /\ val' = sent'[g]
  BY <1>5 DEF WriteCopy, BadAccess
<1>6. ASSUME NEW f \in Files, ReleaseFree(f) PROVE g \in Holder' /\ val' = sent'[g]
  BY <1>6 DEF ReleaseFree
<1>7. ASSUME NEW f \in Files, IoctlWrite(f) PROVE g \in Holder' /\ val' = sent'[g]
  <2>1. f \in InUse /\ ~overlapped
    BY <1>7 DEF IoctlWrite
  <2>2. \A h \in Files : sent[h] # NULL => h = f
    BY <2>1 DEF ExclusiveUse
  <2>3. g = f
    BY <1>7, <2>2 DEF IoctlWrite
  <2>. QED
    BY <1>7, <2>1, <2>3 DEF IoctlWrite
<1>8. CASE UNCHANGED vars
  BY <1>8 DEF vars
<1>. QED
  BY <1>1, <1>2, <1>3, <1>4, <1>5, <1>6, <1>7, <1>8 DEF Next

\* RD_DATA gives a client back the value it last sent with WR_DATA while it is
\* the only one to use the driver.
THEOREM RoundTrip == Spec => []IoctlRoundTrip
<1>1. Init => IoctlRoundTrip
  BY DEF Init, IoctlRoundTrip
<1>. QED
  BY <1>1, TypeCorrect, ExclusiveOwnership, RoundTripStep, PTL DEF Spec

-----------------------------------------------------------------------------
(* The refinement of ScratchDevice *)

\* What the scratch device looks like from a state of the driver: nothing once
\* it is misused; nothing but the clients' buffers while no file is held; the
\* block of the file that is held.
ScratchView ==
  /\ Misused => /\ ScratchOwner = NULL /\ ScratchCall = "none"
                /\ ScratchContent = Blank /\ ScratchBuf = [f \in Files |-> Blank]
  /\ ~Misused => ScratchBuf = buf
  /\ ~Misused /\ Holder = {} =>
       ScratchOwner = NULL /\ ScratchCall = "none" /\ ScratchContent = Blank
  /\ ~Misused => \A f \in Files : Holder = {f} =>
       /\ ScratchOwner = f
       /\ ScratchContent = mem[kernel_buffer]
       /\ ScratchCall = IF st[f] = "reading" THEN "read"
                        ELSE IF st[f] = "writing" THEN "write" ELSE "none"

\* The refinement mapping shows what ScratchView says of it: nothing once the
\* promise is void, and until then the file in use and the block it has.
LEMMA View == ScratchView
<1>1. Misused => /\ ScratchOwner = NULL /\ ScratchCall = "none"
                 /\ ScratchContent = Blank /\ ScratchBuf = [f \in Files |-> Blank]
  BY DEF ScratchOwner, ScratchCall, ScratchContent, ScratchBuf
<1>2. ~Misused => ScratchBuf = buf
  BY DEF ScratchBuf
<1>3. ~Misused /\ Holder = {} =>
        ScratchOwner = NULL /\ ScratchCall = "none" /\ ScratchContent = Blank
  BY DEF ScratchOwner, ScratchCall, ScratchContent, Holder
<1>4. ASSUME ~Misused, NEW f \in Files, Holder = {f}
      PROVE  /\ ScratchOwner = f
             /\ ScratchContent = mem[kernel_buffer]
             /\ ScratchCall = IF st[f] = "reading" THEN "read"
                              ELSE IF st[f] = "writing" THEN "write" ELSE "none"
  <2>1. ScratchOwner = f /\ ScratchContent = mem[kernel_buffer]
    BY <1>4 DEF ScratchOwner, ScratchContent
  <2>2. \A g \in Files : st[g] \in {"reading", "writing"} => g = f
    BY <1>4 DEF Holder
  <2>. QED
    BY <1>4, <2>1, <2>2 DEF ScratchCall
<1>. QED
  BY <1>1, <1>2, <1>3, <1>4 DEF ScratchView

\* A step of a driver that is used as it should be, before and after, is a step
\* of the scratch device or changes nothing of it.
LEMMA ProperStep ==
  ASSUME TypeOK, ExclusiveUse, [Next]_vars, ~Misused, ~Misused', ScratchView, ScratchView'
  PROVE  [Scratch!Next]_(Scratch!vars)
<1>. USE ConstAssumption
<1>. USE DEF TypeOK, Return, driverVars, heapVars, fileVars, histVars
<1>0. /\ \A f, g \in InUse : f = g
      /\ \A f \in Files : LoneFileOwnsBuffer(f)
      /\ fault \in {"none", "overrun"}
      /\ ~overlapped /\ ~overlapped' /\ ~oversized /\ ~oversized'
  BY DEF ExclusiveUse, Misused
\* The file of a call after open is the one that is held; nothing is held
\* before and while a file is being opened.
<1>1. ASSUME NEW f \in Files, st[f] \in {"open", "reading", "writing", "releasing"}
      PROVE  Holder = {f}
  BY <1>0, <1>1 DEF Holder, InUse
<1>2. ASSUME NEW f \in Files, OpenAlloc(f) PROVE UNCHANGED Scratch!vars
  <2>1. Holder = {} /\ Holder' = {}
    BY <1>0, <1>2 DEF OpenAlloc, Holder, InUse
  <2>. QED
    BY <1>2, <2>1 DEF ScratchView, Scratch!vars, OpenAlloc, Misused
<1>3. ASSUME NEW f \in Files, OpenStore(f) PROVE [Scratch!Next]_(Scratch!vars)
  <2>1. Holder = {}
    BY <1>0, <1>3 DEF OpenStore, Holder, InUse
  <2>2. CASE ptr[f] = NULL
    <3>1. Holder' = {}
      BY <1>0, <1>3, <2>2 DEF OpenStore, Holder, InUse
    <3>. QED
      BY <1>3, <2>1, <3>1 DEF ScratchView, Scratch!vars, OpenStore, Misused
  <2>3. CASE ptr[f] # NULL
    <3>1. Holder' = {f} /\ st'[f] = "open"
      BY <1>0, <1>3, <2>3 DEF OpenStore, Holder, InUse
    <3>2. mem'[kernel_buffer'] \in Area
      BY <1>3, <2>3 DEF OpenStore
    <3>3. Scratch!Open(f)
      BY <1>3, <2>1, <3>1, <3>2 DEF ScratchView, Scratch!Open, Scratch!Area, Scratch!Cells,
                                    Area, Cells, OpenStore, Misused
    <3>. QED
      BY <3>3 DEF Scratch!Next
  <2>. QED
    BY <2>2, <2>3
<1>4. ASSUME NEW f \in Files, ReadStart(f) \/ WriteStart(f) PROVE Scratch!Call(f)
  <2>1. Holder = {f} /\ Holder' = {f}
    BY <1>1, <1>4 DEF ReadStart, WriteStart, Load, Holder
  <2>2. st[f] = "open" /\ st'[f] \in {"reading", "writing"}
    BY <1>4 DEF ReadStart, WriteStart, Load
  <2>. QED
    BY <1>4, <2>1, <2>2 DEF ScratchView, Scratch!Call, ReadStart, WriteStart, Load, Misused
<1>5. ASSUME NEW f \in Files, ReleaseStart(f) PROVE UNCHANGED Scratch!vars
  <2>1. Holder = {f} /\ Holder' = {f} /\ st[f] = "open" /\ st'[f] = "releasing"
    BY <1>1, <1>5 DEF ReleaseStart, Load, Holder
  <2>. QED
    BY <1>5, <2>1 DEF ScratchView, Scratch!vars, ReleaseStart, Load, Misused
<1>6. ASSUME NEW f \in Files, IoctlWrite(f) PROVE UNCHANGED Scratch!vars
  <2>1. Holder = {f} /\ Holder' = {f} /\ st' = st
    BY <1>1, <1>6 DEF IoctlWrite, Holder
  <2>. QED
    BY <1>6, <2>1 DEF ScratchView, Scratch!vars, IoctlWrite, Misused
\* A call in progress works on the block that is there for it.
<1>7. ASSUME NEW f \in Files, st[f] \in {"reading", "writing", "releasing"}
      PROVE  ptr[f] = kernel_buffer /\ kernel_buffer \in live
  BY <1>0, <1>7 DEF LoneFileOwnsBuffer
<1>8. ASSUME NEW f \in Files, ReadCopy(f) PROVE Scratch!Read(f)
  <2>1. Holder = {f} /\ ptr[f] = kernel_buffer /\ kernel_buffer \in live
    BY <1>1, <1>7, <1>8 DEF ReadCopy
  <2>2. PICK good \in 0 .. MemSize :
          buf' = [buf EXCEPT ![f] = CopyToUser(@, mem[kernel_buffer], MemSize, good)]
    BY <1>8, <2>1 DEF ReadCopy, BadAccess
  <2>3. /\ st[f] = "reading" /\ st' = [st EXCEPT ![f] = "open"]
        /\ UNCHANGED <<kernel_buffer, mem>>
    BY <1>8, <2>1 DEF ReadCopy, BadAccess
  <2>4. Holder' = {f} /\ st'[f] = "open"
    BY <2>1, <2>3 DEF Holder
  <2>5. CopyToUser(buf[f], mem[kernel_buffer], MemSize, good)
          = Scratch!CopyToUser(buf[f], mem[kernel_buffer], MemSize, good)
    BY DEF CopyToUser, Scratch!CopyToUser
  <2>. QED
    BY <2>1, <2>2, <2>3, <2>4, <2>5 DEF ScratchView, Scratch!Read, Misused
<1>9. ASSUME NEW f \in Files, WriteCopy(f) PROVE Scratch!Write(f)
  <2>1. Holder = {f} /\ ptr[f] = kernel_buffer /\ kernel_buffer \in live
    BY <1>1, <1>7, <1>9 DEF WriteCopy
  <2>2. PICK len \in WriteLens, src \in Area :
          /\ len <= MemSize
          /\ \E good \in 0 .. len :
               mem' = [mem EXCEPT ![kernel_buffer] = CopyFromUser(@, src, len, good)]
          /\ st' = [st EXCEPT ![f] = "open"]
          /\ UNCHANGED <<kernel_buffer, buf>>
    BY <1>0, <1>9, <2>1 DEF WriteCopy, BadAccess
  <2>3. PICK good \in 0 .. len :
          mem' = [mem EXCEPT ![kernel_buffer] = CopyFromUser(@, src, len, good)]
    BY <2>2
  <2>4. Holder' = {f} /\ st[f] = "writing" /\ st'[f] = "open"
    BY <1>9, <2>1, <2>2 DEF WriteCopy, Holder
  <2>5. mem'[kernel_buffer] = Scratch!CopyFromUser(mem[kernel_buffer], src, len, good)
    BY <2>1, <2>3 DEF CopyFromUser, Scratch!CopyFromUser
  <2>6. len \in 0 .. MemSize /\ src \in Scratch!Area
    BY <2>2 DEF Scratch!Area, Scratch!Cells, Area, Cells
  <2>7. ScratchContent' = Scratch!CopyFromUser(ScratchContent, src, len, good)
    BY <2>1, <2>2, <2>4, <2>5 DEF ScratchView
  <2>. QED
    BY <2>1, <2>2, <2>4, <2>6, <2>7 DEF ScratchView, Scratch!Write, Misused
<1>10. ASSUME NEW f \in Files, ReleaseFree(f) PROVE Scratch!Close(f)
  <2>1. Holder = {f} /\ ptr[f] = kernel_buffer /\ kernel_buffer \in live
    BY <1>1, <1>7, <1>10 DEF ReleaseFree
  <2>2. st[f] = "releasing" /\ st' = [st EXCEPT ![f] = "closed"] /\ buf' = buf
    BY <1>10, <2>1 DEF ReleaseFree
  <2>3. Holder' = {}
    BY <2>1, <2>2 DEF Holder
  <2>. QED
    BY <2>1, <2>2, <2>3 DEF ScratchView, Scratch!Close, Scratch!Blank, Scratch!Cells,
                            Blank, Cells, Misused
<1>11. CASE UNCHANGED vars
  BY <1>11 DEF vars, Scratch!vars, ScratchOwner, ScratchCall, ScratchContent, ScratchBuf,
               Misused, Holder
<1>. QED
  BY <1>2, <1>3, <1>4, <1>5, <1>6, <1>8, <1>9, <1>10, <1>11 DEF Next, Scratch!Next, Misused

\* Misuse is for good.
LEMMA MisuseStays == Misused /\ [Next]_vars => Misused'
<1>. SUFFICES ASSUME Misused, [Next]_vars PROVE Misused'
  OBVIOUS
<1>1. ASSUME NEW f \in Files, OpenAlloc(f) PROVE Misused'
  <2>1. overlapped' = (overlapped \/ InUse # {}) /\ oversized' = oversized
    BY <1>1 DEF OpenAlloc
  <2>. QED
    BY <2>1, Zenon DEF Misused
<1>2. CASE \E f \in Files : WriteCopy(f)
  BY <1>2 DEF WriteCopy, BadAccess, histVars, Misused
<1>3. CASE \E f \in Files : ReadCopy(f) \/ ReleaseFree(f)
  BY <1>3 DEF ReadCopy, ReleaseFree, BadAccess, histVars, Misused
<1>4. CASE \E f \in Files : \/ OpenStore(f) \/ ReadStart(f) \/ WriteStart(f)
                            \/ ReleaseStart(f) \/ IoctlWrite(f)
  BY <1>4 DEF OpenStore, ReadStart, WriteStart, ReleaseStart, Load, IoctlWrite,
              histVars, Misused
<1>5. CASE UNCHANGED vars
  BY <1>5 DEF vars, histVars, Misused
<1>. QED
  BY <1>1, <1>2, <1>3, <1>4, <1>5 DEF Next

\* The driver is the scratch device, for any number of files, blocks and cells,
\* until clients overlap or write too much: every step of it is one of the
\* scratch device's or leaves the scratch device as it is.
THEOREM Refinement == Spec => ImplementsScratch
<1>1. Init => Scratch!Init
  BY View DEF Init, ScratchView, Scratch!Init, Scratch!Silent, Scratch!Blank, Scratch!Cells,
              Blank, Cells, Misused, Holder
<1>2. TypeOK /\ ExclusiveUse /\ [Next]_vars /\ ScratchView /\ ScratchView' =>
        [Scratch!Next]_(Scratch!vars)
  <2>. SUFFICES ASSUME TypeOK, ExclusiveUse, [Next]_vars, ScratchView, ScratchView'
                PROVE  [Scratch!Next]_(Scratch!vars)
    OBVIOUS
  <2>1. CASE Misused
    BY <2>1, MisuseStays DEF ScratchView, Scratch!vars, Misused
  <2>2. CASE ~Misused /\ Misused'
    BY <2>2 DEF ScratchView, Scratch!Next, Scratch!Misuse, Scratch!Silent, Scratch!Blank,
                Scratch!Cells, Blank, Cells
  <2>3. CASE ~Misused /\ ~Misused'
    BY <2>3, ProperStep
  <2>. QED
    BY <2>1, <2>2, <2>3
<1>. QED
  BY <1>1, <1>2, View, TypeCorrect, ExclusiveOwnership, PTL
     DEF Spec, ImplementsScratch, Scratch!Spec
=============================================================================
