----------------------------- MODULE CharBuffer ------------------------------
(***************************************************************************)
(* driver_read and driver_write of letsCodeLinuxDriver/driver3.c: a global *)
(* buffer of 255 bytes and buffer_pointer, the length of what was written  *)
(* last, without a lock.  A copy from or to a user goes cell by cell, as   *)
(* seen from another processor, and may stop at a missing page.  A write   *)
(* sets the length only after its copy, a read takes it before its copy.   *)
(* open and release only print, so the files are open throughout.          *)
(***************************************************************************)
EXTENDS Integers

CONSTANTS Files,  \* the open files; one call at a time on each
          Size,   \* sizeof(buffer)
          Values, \* what a cell may hold
          Counts  \* the count arguments of read and write

ASSUME CharAssumption == /\ Size \in Nat \ {0}
                         /\ 0 \in Values
                         /\ Counts \subseteq Nat

VARIABLES
  buffer,         \* the global buffer
  buffer_pointer, \* the global length
  st,             \* st[f]: the call in progress on f
  to_copy,        \* to_copy[f]: that call's local variable
  copied,         \* copied[f]: the cells copied so far
  user,           \* user[f]: the user's buffer, source of writes, target of reads
  alone,          \* history: no other write overlapped the call in progress
  msg,            \* history: the data of the last write that has returned ...
  msgLen          \* ... and its length, or -1 if another overlapped it

callVars == <<st, to_copy, copied, user, alone>>
msgVars  == <<msg, msgLen>>
vars     == <<buffer, buffer_pointer, callVars, msgVars>>

Cells == 0 .. Size - 1
Area  == [Cells -> Values]
Blank == [c \in Cells |-> 0]

Writing == {f \in Files : st[f] \in {"writing", "written"}}

\* buffer and buffer_pointer are static: zero until something is written.
Init == /\ buffer = Blank
        /\ buffer_pointer = 0
        /\ st = [f \in Files |-> "idle"]
        /\ to_copy = [f \in Files |-> 0]
        /\ copied = [f \in Files |-> 0]
        /\ user = [f \in Files |-> Blank]
        /\ alone = [f \in Files |-> TRUE]
        /\ msg = Blank
        /\ msgLen = 0

\* min()
Least(a, b) == IF a < b THEN a ELSE b

\* The call on f begins, with to_copy = len.
Begin(f, kind, len) == /\ st' = [st EXCEPT ![f] = kind]
                       /\ to_copy' = [to_copy EXCEPT ![f] = len]
                       /\ copied' = [copied EXCEPT ![f] = 0]

\* The call on f returns; what it knew is gone.
Return(f) == /\ st' = [st EXCEPT ![f] = "idle"]
             /\ to_copy' = [to_copy EXCEPT ![f] = 0]
             /\ copied' = [copied EXCEPT ![f] = 0]
             /\ user' = [user EXCEPT ![f] = Blank]
             /\ alone' = [alone EXCEPT ![f] = TRUE]

-----------------------------------------------------------------------------
(* driver_write *)

\* min(count, sizeof(buffer)).  History: all calls in progress see a write.
WriteStart(f) ==
  /\ st[f] = "idle"
  /\ \E count \in Counts : Begin(f, "writing", Least(count, Size))
  /\ \E data \in Area : user' = [user EXCEPT ![f] = data]
  /\ alone' = [g \in Files |-> IF g = f THEN Writing = {}
                               ELSE alone[g] /\ st[g] = "idle"]
  /\ UNCHANGED <<buffer, buffer_pointer, msgVars>>

\* copy_from_user, one more cell
WriteCell(f) ==
  /\ st[f] = "writing"
  /\ copied[f] < to_copy[f]
  /\ buffer' = [buffer EXCEPT ![copied[f]] = user[f][copied[f]]]
  /\ copied' = [copied EXCEPT ![f] = @ + 1]
  /\ UNCHANGED <<buffer_pointer, st, to_copy, user, alone, msgVars>>

\* Broken variant, for a mutant: what was there stays behind a partial copy.
WriteStopsKeeps(f) ==
  /\ st[f] = "writing"
  /\ copied[f] < to_copy[f]
  /\ user' = [user EXCEPT ![f] = [c \in Cells |-> IF c < copied[f] THEN @[c] ELSE 0]]
  /\ st' = [st EXCEPT ![f] = "written"]
  /\ UNCHANGED <<buffer, buffer_pointer, to_copy, copied, alone, msgVars>>

\* copy_from_user stops at a missing page and zeroes the rest; what the write
\* leaves is from then on the data it got, followed by zeros.
WriteStops(f) ==
  /\ st[f] = "writing"
  /\ copied[f] < to_copy[f]
  /\ LET Lost(c) == copied[f] <= c /\ c < to_copy[f]
         Fill(a) == [c \in Cells |-> IF Lost(c) THEN 0 ELSE a[c]]
     IN  /\ buffer' = Fill(buffer)
         /\ user' = [user EXCEPT ![f] = Fill(@)]
  /\ st' = [st EXCEPT ![f] = "written"]
  /\ UNCHANGED <<buffer_pointer, to_copy, copied, alone, msgVars>>

\* Broken variant, for a mutant: the length only grows.
WriteEndGrows(f) ==
  /\ st[f] = "written" \/ (st[f] = "writing" /\ copied[f] = to_copy[f])
  /\ buffer_pointer' = IF to_copy[f] > buffer_pointer THEN to_copy[f] ELSE buffer_pointer
  /\ msg' = user[f]
  /\ msgLen' = IF alone[f] THEN to_copy[f] ELSE -1
  /\ Return(f)
  /\ UNCHANGED buffer

\* buffer_pointer = to_copy, however much was copied; return delta
WriteEnd(f) ==
  /\ st[f] = "written" \/ (st[f] = "writing" /\ copied[f] = to_copy[f])
  /\ buffer_pointer' = to_copy[f]
  /\ msg' = user[f]
  /\ msgLen' = IF alone[f] THEN to_copy[f] ELSE -1
  /\ Return(f)
  /\ UNCHANGED buffer

-----------------------------------------------------------------------------
(* driver_read *)

\* Broken variant, for a mutant: a read takes no account of the length.
ReadStartWhole(f) ==
  /\ st[f] = "idle"
  /\ \E count \in Counts : Begin(f, "reading", count)
  /\ alone' = [alone EXCEPT ![f] = Writing = {}]
  /\ UNCHANGED <<buffer, buffer_pointer, user, msgVars>>

\* min(count, buffer_pointer); the offset is not looked at.
ReadStart(f) ==
  /\ st[f] = "idle"
  /\ \E count \in Counts : Begin(f, "reading", Least(count, buffer_pointer))
  /\ alone' = [alone EXCEPT ![f] = Writing = {}]
  /\ UNCHANGED <<buffer, buffer_pointer, user, msgVars>>

\* copy_to_user, one more cell
ReadCell(f) ==
  /\ st[f] = "reading"
  /\ copied[f] < to_copy[f]
  /\ user' = [user EXCEPT ![f][copied[f]] = buffer[copied[f]]]
  /\ copied' = [copied EXCEPT ![f] = @ + 1]
  /\ UNCHANGED <<buffer, buffer_pointer, st, to_copy, alone, msgVars>>

\* The copy is complete or has stopped; return delta, the cells copied.
ReadEnd(f) ==
  /\ st[f] = "reading"
  /\ Return(f)
  /\ UNCHANGED <<buffer, buffer_pointer, msgVars>>

-----------------------------------------------------------------------------

Next == \E f \in Files :
          \/ WriteStart(f) \/ WriteCell(f) \/ WriteStops(f) \/ WriteEnd(f)
          \/ ReadStart(f) \/ ReadCell(f) \/ ReadEnd(f)

Spec == Init /\ [][Next]_vars

-----------------------------------------------------------------------------
(* Properties *)

\* Every variable has its type: no copy and no length exceeds the buffer.
TypeOK == /\ buffer \in Area
          /\ buffer_pointer \in 0 .. Size
          /\ st \in [Files -> {"idle", "writing", "written", "reading"}]
          /\ to_copy \in [Files -> 0 .. Size]
          /\ copied \in [Files -> 0 .. Size]
          /\ user \in [Files -> Area]
          /\ alone \in [Files -> BOOLEAN]
          /\ msg \in Area
          /\ msgLen \in -1 .. Size

\* What a read has copied so far is from the message of the last write, no
\* byte of an older, longer one behind it, unless a write overlapped the read
\* or another write overlapped that last one.
ReadsOneMessage ==
  \A f \in Files : st[f] = "reading" /\ alone[f] /\ msgLen >= 0 =>
    /\ to_copy[f] <= msgLen
    /\ \A c \in Cells : c < copied[f] => user[f][c] = msg[c]

\* When no write is in progress, and the last did not meet another, buffer and
\* buffer_pointer hold its message; a write that is alone has put into buffer
\* what it has copied; a read that is alone meets no write.  This is what
\* makes the property above inductive.
BufferHoldsMessage ==
  /\ msgLen >= 0 /\ Writing = {} =>
       /\ buffer_pointer = msgLen
       /\ \A c \in Cells : c < msgLen => buffer[c] = msg[c]
  /\ \A f \in Writing : alone[f] =>
       /\ Writing = {f}
       /\ \A c \in Cells : c < copied[f] => buffer[c] = user[f][c]
       /\ st[f] = "written" =>
            \A c \in Cells : c < to_copy[f] => buffer[c] = user[f][c]
  /\ \A f \in Files : st[f] = "reading" /\ alone[f] => Writing = {}
=============================================================================
