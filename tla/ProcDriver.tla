----------------------------- MODULE ProcDriver ------------------------------
(***************************************************************************)
(* The proc entries of techoGenius/proc_device_driver.c (/proc/techo_proc) *)
(* and kernel_device_driver/first_driver.c (/proc/chr_proc), which are the *)
(* same code.  A reader should see the text once and then the end of file; *)
(* to tell the two apart the driver flips one global flag, len, on every   *)
(* read, whoever reads, and no lock covers the test and the flip.          *)
(*                                                                         *)
(* Two kinds of client use the entry: techoGenius/test_app_proc.c reads or *)
(* writes when it is told to and shows its read_buf after every read; cat  *)
(* reads until a read returns 0.  chr_array is one value, its text.  A     *)
(* read tells its client that it has brought what was asked for, however   *)
(* much copy_to_user has copied.  A write longer than the array goes on    *)
(* over what the build has put behind it; of the module's data that is in  *)
(* the model, this is the flag, an int, tested only for being 0.           *)
(***************************************************************************)
EXTENDS Integers

CONSTANTS Files,    \* the files open on the entry
          Texts,    \* what chr_array and a client's buffer may hold
          Welcome,  \* the text the module is loaded with
          Nothing,  \* a client's buffer before its first read
          Torn,     \* a client's buffer with a part of the text in it
          Spills,   \* what a write past chr_array may leave in len
          Cats,     \* the files of clients that read until the end
          MaxReads  \* bound on the reads of a behaviour

ASSUME ProcAssumption == /\ Welcome \in Texts
                         /\ Nothing \notin Texts /\ Torn \notin Texts
                         /\ Spills \subseteq Int
                         /\ Cats \subseteq Files
                         /\ MaxReads \in Nat

VARIABLES
  len,        \* the global flag; the writers' parameter of that name hides it
  chr_array,  \* the text
  st,         \* st[f]: where the client of f and its call are
  read_buf,   \* read_buf[f]: the client's buffer
  told,       \* told[f]: the reads since f opened that returned a length
  short,      \* short[f]: one of them has copied less than the text
  balance,    \* history: reads that found the flag set minus reads that returned 0
  reads,      \* history: reads begun
  raced,      \* history: two reads were between test and flip at once
  overlapped, \* history: two files were open at once
  stray,      \* history: a client that stops reading when it likes has opened
  spilled     \* history: a write was longer than chr_array

bufVars == <<read_buf, told, short>>
useVars == <<overlapped, stray, spilled>>
vars    == <<len, chr_array, st, bufVars, balance, reads, raced, useVars>>

States == {"closed", "open", "one", "zero", "copying", "showing", "ended"}
Open   == {f \in Files : st[f] # "closed"}
Tested == {f \in Files : st[f] \in {"one", "zero"}}

Init == /\ len = 1
        /\ chr_array = Welcome
        /\ st = [f \in Files |-> "closed"]
        /\ read_buf = [f \in Files |-> Nothing]
        /\ told = [f \in Files |-> 0]
        /\ short = [f \in Files |-> FALSE]
        /\ balance = 0
        /\ reads = 0
        /\ raced = FALSE
        /\ overlapped = FALSE
        /\ stray = FALSE
        /\ spilled = FALSE

\* proc_open only prints; the flag is not reset.
proc_open(f) == /\ st[f] = "closed"
                /\ st' = [st EXCEPT ![f] = "open"]
                /\ read_buf' = [read_buf EXCEPT ![f] = Nothing]
                /\ told' = [told EXCEPT ![f] = 0]
                /\ short' = [short EXCEPT ![f] = FALSE]
                /\ overlapped' = (overlapped \/ Open # {})
                /\ stray' = (stray \/ f \notin Cats)
                /\ UNCHANGED <<len, chr_array, balance, reads, raced, spilled>>

\* proc_read, if(len)
ReadTest(f) == /\ st[f] = "open"
               /\ reads < MaxReads
               /\ reads' = reads + 1
               /\ st' = [st EXCEPT ![f] = IF len # 0 THEN "one" ELSE "zero"]
               /\ raced' = (raced \/ Tested # {})
               /\ UNCHANGED <<len, chr_array, bufVars, balance,
                              useVars>>

\* ... len = 0 ...
ReadOne(f) == /\ st[f] = "one"
              /\ len' = 0
              /\ st' = [st EXCEPT ![f] = "copying"]
              /\ balance' = balance + 1
              /\ UNCHANGED <<chr_array, bufVars, reads, raced,
                             useVars>>

\* ... copy_to_user, which may stop before the first byte or after some; its
\* result is ignored: return length
ReadCopy(f) == /\ st[f] = "copying"
               /\ \/ read_buf' = [read_buf EXCEPT ![f] = chr_array] /\ UNCHANGED short
                  \/ /\ \E got \in {read_buf[f], Torn} :
                           read_buf' = [read_buf EXCEPT ![f] = got]
                     /\ short' = [short EXCEPT ![f] = TRUE]
               /\ told' = [told EXCEPT ![f] = @ + 1]
               /\ st' = [st EXCEPT ![f] = "showing"]
               /\ UNCHANGED <<len, chr_array, balance, reads, raced, useVars>>

\* Broken variant, for a mutant: the flag becomes -1, which tests as true.
ReadZeroWrong(f) == /\ st[f] = "zero"
                    /\ len' = len - 1
                    /\ st' = [st EXCEPT ![f] = IF f \in Cats THEN "ended" ELSE "showing"]
                    /\ balance' = balance - 1
                    /\ UNCHANGED <<chr_array, bufVars, reads, raced,
                                   useVars>>

\* Broken variant, for a mutant: the flag is not set again.
ReadZeroNoFlip(f) == /\ st[f] = "zero"
                     /\ st' = [st EXCEPT ![f] = IF f \in Cats THEN "ended" ELSE "showing"]
                     /\ balance' = balance - 1
                     /\ UNCHANGED <<len, chr_array, bufVars, reads,
                                    raced, useVars>>

\* ... else len = 1, return 0: the client's buffer keeps what it had, and a
\* client that reads until the end has reached it.
ReadZero(f) == /\ st[f] = "zero"
               /\ len' = 1
               /\ st' = [st EXCEPT ![f] = IF f \in Cats THEN "ended" ELSE "showing"]
               /\ balance' = balance - 1
               /\ UNCHANGED <<chr_array, bufVars, reads, raced,
                              useVars>>

\* The client has shown its buffer, the line after each read.
Shown(f) == /\ st[f] = "showing"
            /\ st' = [st EXCEPT ![f] = "open"]
            /\ UNCHANGED <<len, chr_array, bufVars, balance, reads,
                           raced, useVars>>

\* Broken variant, for a mutant: a write sets the flag, so that it can be read.
proc_write_sets(f) == /\ st[f] = "open"
                      /\ f \notin Cats
                      /\ chr_array' \in Texts
                      /\ len' = 1
                      /\ UNCHANGED <<st, bufVars, balance, reads, raced, useVars>>

\* proc_write copies len bytes with no check.  The text changes, the flag does
\* not: unless the write is longer than the array.
proc_write(f) == /\ st[f] = "open"
                 /\ f \notin Cats
                 /\ chr_array' \in Texts
                 /\ \/ UNCHANGED <<len, spilled>>
                    \/ len' \in Spills /\ spilled' = TRUE
                 /\ UNCHANGED <<st, bufVars, balance, reads, raced,
                                overlapped, stray>>

\* proc_release only prints.  A client that reads until the end closes there.
proc_release(f) == /\ st[f] = IF f \in Cats THEN "ended" ELSE "open"
                   /\ st' = [st EXCEPT ![f] = "closed"]
                   /\ UNCHANGED <<len, chr_array, bufVars, balance, reads,
                                  raced, useVars>>

Next == \E f \in Files :
          \/ proc_open(f) \/ proc_release(f) \/ proc_write(f) \/ Shown(f)
          \/ ReadTest(f) \/ ReadOne(f) \/ ReadCopy(f) \/ ReadZero(f)

Spec == Init /\ [][Next]_vars

-----------------------------------------------------------------------------
(* Properties *)

\* Every variable has its type; until a write runs over the array the flag is
\* nothing but 0 and 1, however the reads race.
TypeOK == /\ len \in {0, 1} \cup Spills
          /\ ~spilled => len \in {0, 1}
          /\ chr_array \in Texts
          /\ st \in [Files -> States]
          /\ read_buf \in [Files -> Texts \cup {Nothing, Torn}]
          /\ told \in [Files -> Nat] /\ short \in [Files -> BOOLEAN]
          /\ balance \in Int /\ reads \in Nat
          /\ raced \in BOOLEAN /\ overlapped \in BOOLEAN /\ stray \in BOOLEAN
          /\ spilled \in BOOLEAN

\* While no two reads meet between the test and the flip, and no write runs
\* over the end of the array, reads that find the flag set and reads that return 0
\* alternate over all clients together, starting with the former, whoever writes
\* in between; and len says whose turn it is: a read finds the flag as its
\* test left it.
Alternates ==
  ~raced /\ ~spilled =>
    /\ balance = 1 - len
    /\ \A f \in Files : /\ st[f] = "one" => len = 1
                        /\ st[f] = "zero" => len = 0
    /\ \A f, g \in Tested : f = g

\* If every client reads until the end and no two are open at once, each of
\* them is told exactly once that it has something, has the text then unless its
\* own copy stopped, and finds the flag set when it opens: what the flag is for.
\* A copy that stops is not made up for: its client gets no second read, and the
\* next client is none the worse for it.
EachSeesTextOnce ==
  ~stray /\ ~overlapped =>
    /\ \A f \in Files : st[f] = "ended" =>
         told[f] = 1 /\ (short[f] \/ read_buf[f] = chr_array)
    /\ Open = {} => len = 1

\* techoGenius/test_app_proc.c shows read_buf after each read as the data of
\* the entry: for a lone client, all of whose copies are whole and whose writes
\* fit in the array, it should be the text the entry holds.
ShowsText ==
  ~overlapped /\ ~spilled =>
    \A f \in Files : st[f] = "showing" /\ ~short[f] => read_buf[f] = chr_array
=============================================================================
