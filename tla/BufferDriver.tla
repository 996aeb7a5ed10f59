---------------------------- MODULE BufferDriver -----------------------------
(***************************************************************************)
(* The file operations of seven drivers of the repository, which share     *)
(* open, read, write and release line for line: techoGenius/{first,        *)
(* simple_driver,proc_device_driver,irq_device_driver}.c,                  *)
(* kernel_device_driver/first_driver.c, current_driver/basic_driver.c and  *)
(* i2c_client_driver/base-driver.c.  The ioctl is that of four of them:    *)
(* first.c, basic_driver.c and base-driver.c have none, and are this       *)
(* module without IoctlWrite.                                              *)
(*                                                                         *)
(* One global pointer, kernel_buffer, serves every open file: open         *)
(* allocates a block and stores its address in the pointer, read and write *)
(* copy through it, release frees what it points to.  No lock protects it. *)
(* A handler may sleep in kmalloc and in the user copies, so each is split *)
(* where it loads or stores the pointer.  The calls on one open file       *)
(* follow one another, as they do in the test programs, and release is     *)
(* called by the kernel after the last of them; calls on different files   *)
(* interleave.                                                             *)
(*                                                                         *)
(* The first access that breaks a rule of the allocator sets `fault' and   *)
(* ends the behaviour: C gives no meaning to what follows.                 *)
(***************************************************************************)
EXTENDS UserCopy

CONSTANTS Files,     \* struct file: the files clients may open
          Blocks,    \* the addresses kmalloc may return
          NULL,      \* the null pointer, and "no value"
          MemSize,   \* mem_size
          Values,    \* what a cell of memory, or the ioctl value, may be
          WriteLens  \* the len arguments clients pass to write

ASSUME ConstAssumption ==
  /\ NULL \notin Files /\ NULL \notin Blocks /\ NULL \notin Values
  /\ MemSize \in Nat \ {0}
  /\ 0 \in Values
  /\ WriteLens \subseteq Nat \ {0}  \* test_app.c writes strlen(write_buf)+1

VARIABLES
  kernel_buffer, \* the global pointer
  val,           \* the global int32_t read and written by ioctl
  live,          \* the blocks allocated and not freed
  mem,           \* the contents of every block, freed ones included
  st,            \* st[f]: where the call in progress on file f is
  ptr,           \* ptr[f]: the pointer that call has loaded
  buf,           \* buf[f]: the read_buf of the client of f
  sent,          \* sent[f]: the value f last sent by ioctl since it was opened
  overlapped,    \* history: two files were in use at the same time
  oversized,     \* history: a write was longer than the block
  fault          \* the rule that was broken first, or "none"

driverVars == <<kernel_buffer, val>>
heapVars   == <<live, mem>>
fileVars   == <<st, ptr, buf, sent>>
histVars   == <<overlapped, oversized, fault>>
vars       == <<driverVars, heapVars, fileVars, histVars>>

Cells  == 0 .. MemSize - 1
Area   == [Cells -> Values]
Blank  == [c \in Cells |-> 0]
States == {"closed", "opening", "open", "reading", "writing", "releasing"}
InUse  == {f \in Files : st[f] # "closed"}
Holder == {f \in Files : st[f] \in {"open", "reading", "writing", "releasing"}}

\* The module has just been loaded.  Memory kmalloc has not cleared holds anything.
Init == /\ kernel_buffer = NULL
        /\ val = 0
        /\ live = {}
        /\ mem \in [Blocks -> Area]
        /\ st = [f \in Files |-> "closed"]
        /\ ptr = [f \in Files |-> NULL]
        /\ buf = [f \in Files |-> Blank]
        /\ sent = [f \in Files |-> NULL]
        /\ overlapped = FALSE
        /\ oversized = FALSE
        /\ fault = "none"

\* The call in progress on f returns, leaving f in state s.
Return(f, s) == /\ st' = [st EXCEPT ![f] = s]
                /\ ptr' = [ptr EXCEPT ![f] = NULL]

-----------------------------------------------------------------------------
(* open *)

\* techo_open: kmalloc returns a block that is not in use, or fails.
OpenAlloc(f) ==
  /\ fault = "none"
  /\ st[f] = "closed"
  /\ \E b \in (Blocks \ live) \cup {NULL} :
       /\ ptr' = [ptr EXCEPT ![f] = b]
       /\ live' = live \cup ({b} \ {NULL})
  /\ st' = [st EXCEPT ![f] = "opening"]
  /\ overlapped' = (overlapped \/ InUse # {})
  /\ UNCHANGED <<driverVars, mem, buf, sent, oversized, fault>>

\* Broken variant, for a mutant: open does not check what kmalloc returned.
OpenStoreUnchecked(f) ==
  /\ fault = "none"
  /\ st[f] = "opening"
  /\ kernel_buffer' = ptr[f]
  /\ Return(f, "open")
  /\ UNCHANGED <<val, heapVars, buf, sent, histVars>>

\* techo_open: the result, be it null, replaces the shared pointer.  A null
\* result makes open return -1, and the kernel calls no release for it.
OpenStore(f) ==
  /\ fault = "none"
  /\ st[f] = "opening"
  /\ kernel_buffer' = ptr[f]
  /\ Return(f, IF ptr[f] = NULL THEN "closed" ELSE "open")
  /\ UNCHANGED <<val, heapVars, buf, sent, histVars>>

-----------------------------------------------------------------------------
(* read, write, release: each loads the pointer, then uses what it loaded. *)

Load(f, op) ==
  /\ fault = "none"
  /\ st[f] = "open"
  /\ st' = [st EXCEPT ![f] = op]
  /\ ptr' = [ptr EXCEPT ![f] = kernel_buffer]
  /\ UNCHANGED <<driverVars, heapVars, buf, sent, histVars>>

ReadStart(f)    == Load(f, "reading")
WriteStart(f)   == Load(f, "writing")
ReleaseStart(f) == Load(f, "releasing")

\* The copy goes through a pointer that is null or was freed meanwhile.
BadAccess(f) ==
  /\ ptr[f] \notin live
  /\ fault' = IF ptr[f] = NULL THEN "nullDeref" ELSE "useAfterFree"
  /\ UNCHANGED <<driverVars, heapVars, fileVars, overlapped, oversized>>

\* Broken variant, for a mutant: a read leaves the block cleared.
ReadCopyClears(f) ==
  /\ fault = "none"
  /\ st[f] = "reading"
  /\ \/ /\ ptr[f] \in live
        /\ mem' = [mem EXCEPT ![ptr[f]] = Blank]
        /\ Return(f, "open")
        /\ UNCHANGED <<driverVars, live, buf, sent, histVars>>
     \/ BadAccess(f)

\* techo_read: copies mem_size cells whatever len is, returns mem_size.
ReadCopy(f) ==
  /\ fault = "none"
  /\ st[f] = "reading"
  /\ \/ /\ ptr[f] \in live
        /\ \E good \in 0 .. MemSize :
             buf' = [buf EXCEPT ![f] = CopyToUser(@, mem[ptr[f]], MemSize, good)]
        /\ Return(f, "open")
        /\ UNCHANGED <<driverVars, heapVars, sent, histVars>>
     \/ BadAccess(f)

\* techo_write: copies len cells, with no check of len, returns len.
WriteCopy(f) ==
  /\ fault = "none"
  /\ st[f] = "writing"
  /\ \E len \in WriteLens :
       \/ /\ ptr[f] \in live
          /\ len <= MemSize
          /\ \E src \in Area, good \in 0 .. len :
               mem' = [mem EXCEPT ![ptr[f]] = CopyFromUser(@, src, len, good)]
          /\ Return(f, "open")
          /\ UNCHANGED <<driverVars, live, buf, sent, histVars>>
       \/ /\ ptr[f] \in live
          /\ len > MemSize
          /\ fault' = "overrun"
          /\ oversized' = TRUE
          /\ UNCHANGED <<driverVars, heapVars, fileVars, overlapped>>
       \/ BadAccess(f)

\* Broken variant, for a mutant: release forgets kfree.
ReleaseForgets(f) ==
  /\ fault = "none"
  /\ st[f] = "releasing"
  /\ Return(f, "closed")
  /\ sent' = [sent EXCEPT ![f] = NULL]
  /\ UNCHANGED <<driverVars, heapVars, buf, histVars>>

\* techo_release: kfree(NULL) does nothing; the pointer keeps its stale value.
ReleaseFree(f) ==
  /\ fault = "none"
  /\ st[f] = "releasing"
  /\ \/ /\ ptr[f] \in live \cup {NULL}
        /\ live' = live \ {ptr[f]}
        /\ Return(f, "closed")
        /\ sent' = [sent EXCEPT ![f] = NULL]
        /\ UNCHANGED <<driverVars, mem, buf, histVars>>
     \/ /\ ptr[f] \notin live \cup {NULL}
        /\ fault' = "doubleFree"
        /\ UNCHANGED <<driverVars, heapVars, fileVars, overlapped, oversized>>

-----------------------------------------------------------------------------
(* ioctl.  RD_DATA copies val out and changes nothing; WR_DATA copies it in. *)

\* Broken variant, for a mutant: WR_DATA reports success and stores nothing.
IoctlWriteLost(f) ==
  /\ fault = "none"
  /\ st[f] = "open"
  /\ \E v \in Values : sent' = [sent EXCEPT ![f] = v]
  /\ UNCHANGED <<driverVars, heapVars, st, ptr, buf, histVars>>

\* Broken variant, for a mutant: the stored value is not the client's.
IoctlWriteShifted(f) ==
  /\ fault = "none"
  /\ st[f] = "open"
  /\ \E v \in Values : val' = v + 1 /\ sent' = [sent EXCEPT ![f] = v]
  /\ UNCHANGED <<kernel_buffer, heapVars, st, ptr, buf, histVars>>

IoctlWrite(f) ==
  /\ fault = "none"
  /\ st[f] = "open"
  /\ \/ \E v \in Values : val' = v /\ sent' = [sent EXCEPT ![f] = v]
     \/ \* the client's pointer is bad: val is zeroed, ioctl still returns 0
        val' = 0 /\ sent' = [sent EXCEPT ![f] = NULL]
  /\ UNCHANGED <<kernel_buffer, heapVars, st, ptr, buf, histVars>>

-----------------------------------------------------------------------------

Next == \E f \in Files :
          \/ OpenAlloc(f)  \/ OpenStore(f)
          \/ ReadStart(f)  \/ ReadCopy(f)
          \/ WriteStart(f) \/ WriteCopy(f)
          \/ ReleaseStart(f) \/ ReleaseFree(f)
          \/ IoctlWrite(f)

Spec == Init /\ [][Next]_vars

-----------------------------------------------------------------------------
(* Properties *)

\* Every variable has its type.
TypeOK ==
  /\ kernel_buffer \in Blocks \cup {NULL}
  /\ val \in Values
  /\ live \subseteq Blocks
  /\ mem \in [Blocks -> Area]
  /\ st \in [Files -> States]
  /\ ptr \in [Files -> Blocks \cup {NULL}]
  /\ buf \in [Files -> Area]
  /\ sent \in [Files -> Values \cup {NULL}]
  /\ overlapped \in BOOLEAN
  /\ oversized \in BOOLEAN
  /\ fault \in {"none", "nullDeref", "useAfterFree", "doubleFree", "overrun"}

\* As long as uses have not overlapped, the one file in use has the one live
\* block, kernel_buffer points to it from the moment open returns, and a call
\* in progress works on that block; with no file in use nothing is allocated,
\* however stale kernel_buffer is.  The strengthening the theorems rest on.
LoneFileOwnsBuffer(f) ==
  /\ st[f] = "opening" => live = {ptr[f]} \ {NULL}
  /\ st[f] \in {"open", "reading", "writing", "releasing"} =>
       kernel_buffer # NULL /\ live = {kernel_buffer}
  /\ st[f] \in {"reading", "writing", "releasing"} => ptr[f] = kernel_buffer
ExclusiveUse ==
  ~overlapped =>
    /\ \A f, g \in InUse : f = g
    /\ \A f \in Files : LoneFileOwnsBuffer(f)
    /\ InUse = {} => live = {}
    /\ fault \in {"none", "overrun"}

\* The drivers' memory errors (a copy through a null or freed pointer, a
\* double free, a copy past the block) happen only to clients that had two
\* files open at once or wrote more than mem_size bytes: with one file at a
\* time open/read/write/release are memory safe, kmalloc failures included,
\* although release leaves kernel_buffer dangling.
FaultNeedsMisuse == fault # "none" => overlapped \/ oversized

\* Clients that never overlap leave no block behind when they have all closed.
NoLeakWhenExclusive == ~overlapped /\ InUse = {} => live = {}

\* test_app.c ioctl_read_write sends a value with WR_DATA and reads it back
\* with RD_DATA: unless another client's use overlaps, val is still the value
\* this file sent, for as long as the file is open.
IoctlRoundTrip ==
  ~overlapped => \A f \in Files : sent[f] # NULL => f \in Holder /\ val = sent[f]

Misused == overlapped \/ oversized
ScratchOwner   == IF Misused \/ Holder = {} THEN NULL ELSE CHOOSE f \in Holder : TRUE
ScratchContent == IF Misused \/ Holder = {} THEN Blank ELSE mem[kernel_buffer]
ScratchBuf     == IF Misused THEN [f \in Files |-> Blank] ELSE buf
ScratchCall    == IF Misused THEN "none"
                  ELSE IF \E f \in Files : st[f] = "reading" THEN "read"
                  ELSE IF \E f \in Files : st[f] = "writing" THEN "write"
                  ELSE "none"
Scratch == INSTANCE ScratchDevice WITH
  void    <- Misused,
  call    <- ScratchCall,
  owner   <- ScratchOwner,
  content <- ScratchContent,
  buf     <- ScratchBuf

\* Until clients open two files at once or write more than mem_size bytes the
\* driver is the scratch device: a read returns what the writes of this open
\* file left and changes nothing, only a write of this file changes the area,
\* and no write of an earlier session shows through other than as the
\* initial, arbitrary contents.
ImplementsScratch == Scratch!Spec
=============================================================================
