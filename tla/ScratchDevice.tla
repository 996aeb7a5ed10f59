---------------------------- MODULE ScratchDevice ----------------------------
(***************************************************************************)
(* What a client of the buffer drivers is promised, as the test programs   *)
(* use it (techoGenius/test_app.c, kernel_device_driver/test_app.c): one   *)
(* open file at a time owns a scratch area of MemSize cells; a write       *)
(* replaces a prefix of it, a read returns all of it, nothing else changes *)
(* it while the file is open, and a failed open leaves no trace.  Clients  *)
(* that open a second file meanwhile, or write more than the area holds,   *)
(* void the promise: from then on the specification says nothing.          *)
(***************************************************************************)
EXTENDS UserCopy

CONSTANTS Files,    \* the file structures clients may open
          NULL,     \* the absence of an owner
          MemSize,  \* mem_size, the cells of the scratch area
          Values    \* what a cell may hold; 0 is one of them

VARIABLES owner,    \* the file that owns the area, or NULL
          call,     \* the owner's call in progress: "read", "write" or "none"
          content,  \* the area; all 0 while nobody owns it
          buf,      \* what each file's last reads left in the user's read_buf
          void      \* the promise is void; nothing else is said any more

vars == <<owner, call, content, buf, void>>

Cells == 0 .. MemSize - 1
Area  == [Cells -> Values]
Blank == [c \in Cells |-> 0]

Silent == owner = NULL /\ call = "none" /\ content = Blank /\ buf = [f \in Files |-> Blank]

Init == Silent /\ ~void

\* open("/dev/..."): the area holds anything at first, for it is not cleared.
Open(f) == /\ owner = NULL
           /\ owner' = f
           /\ content' \in Area
           /\ UNCHANGED <<call, buf, void>>

\* The owner calls read or write.
Call(f) == /\ owner = f
           /\ call = "none"
           /\ call' \in {"read", "write"}
           /\ UNCHANGED <<owner, content, buf, void>>

\* write(fd, write_buf, len): at most the first len cells change.
Write(f) == /\ owner = f
            /\ call = "write"
            /\ call' = "none"
            /\ \E src \in Area, len \in 0 .. MemSize :
                 \E good \in 0 .. len :
                   content' = CopyFromUser(content, src, len, good)
            /\ UNCHANGED <<owner, buf, void>>

\* read(fd, read_buf, 1024): the client sees the area, the whole area if the
\* copy completes, and nothing but the area.
Read(f) == /\ owner = f
           /\ call = "read"
           /\ call' = "none"
           /\ \E good \in 0 .. MemSize :
                buf' = [buf EXCEPT ![f] = CopyToUser(@, content, MemSize, good)]
           /\ UNCHANGED <<owner, content, void>>

\* close(fd): the area is given back.
Close(f) == /\ owner = f
            /\ call = "none"
            /\ owner' = NULL
            /\ content' = Blank
            /\ UNCHANGED <<call, buf, void>>

\* Some client breaks the rules.
Misuse == ~void /\ void' /\ Silent'

Next == \/ ~void /\ \E f \in Files : Open(f) \/ Call(f) \/ Write(f) \/ Read(f) \/ Close(f)
        \/ Misuse

Spec == Init /\ [][Next]_vars
=============================================================================
