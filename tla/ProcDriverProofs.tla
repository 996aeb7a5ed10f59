--------------------------- MODULE ProcDriverProofs ---------------------------
(***************************************************************************)
(* Proofs about ProcDriver, for any set of files and any bound on reads.   *)
(***************************************************************************)
EXTENDS ProcDriver, TLAPS

\* Every variable keeps its type, whatever integers a write past the array may
\* leave in the flag; and without such a write the flag is nothing but 0 and 1.
THEOREM TypeCorrect == Spec => []TypeOK
<1>. USE ProcAssumption
<1>1. Init => TypeOK
  <2>. SUFFICES ASSUME Init PROVE TypeOK
    OBVIOUS
  <2>1. /\ raced \in BOOLEAN /\ overlapped \in BOOLEAN
        /\ stray \in BOOLEAN /\ spilled \in BOOLEAN /\ short \in [Files -> BOOLEAN]
    BY DEF Init
  <2>2. st \in [Files -> States] /\ told \in [Files -> Nat]
    BY DEF Init, States
  <2>. QED
    BY <2>1, <2>2 DEF Init, TypeOK
<1>2. TypeOK /\ [Next]_vars => TypeOK'
  <2>. SUFFICES ASSUME TypeOK, [Next]_vars PROVE TypeOK'
    OBVIOUS
  <2>. USE DEF TypeOK, States, useVars, bufVars
  <2>1. ASSUME NEW f \in Files, proc_open(f) PROVE TypeOK'
    BY <2>1 DEF proc_open
  <2>2. ASSUME NEW f \in Files, ReadTest(f) PROVE TypeOK'
    BY <2>2 DEF ReadTest
  <2>3. ASSUME NEW f \in Files, ReadOne(f) PROVE TypeOK'
    BY <2>3 DEF ReadOne
  <2>4. ASSUME NEW f \in Files, ReadCopy(f) PROVE TypeOK'
    <3>1. read_buf' \in [Files -> Texts \cup {Nothing, Torn}]
      BY <2>4 DEF ReadCopy
    <3>2. short' \in [Files -> BOOLEAN]
      BY <2>4 DEF ReadCopy
    <3>3. told' \in [Files -> Nat] /\ st' \in [Files -> States]
      BY <2>4 DEF ReadCopy
    <3>4. UNCHANGED <<len, chr_array, balance, reads, raced, useVars>>
      BY <2>4 DEF ReadCopy
    <3>. QED
      BY <3>1, <3>2, <3>3, <3>4
  <2>5. ASSUME NEW f \in Files, ReadZero(f) PROVE TypeOK'
    BY <2>5 DEF ReadZero
  <2>6. ASSUME NEW f \in Files, Shown(f) \/ proc_write(f) \/ proc_release(f)
        PROVE  TypeOK'
    BY <2>6 DEF Shown, proc_write, proc_release
  <2>7. CASE UNCHANGED vars
    BY <2>7 DEF vars
  <2>. QED
    BY <2>1, <2>2, <2>3, <2>4, <2>5, <2>6, <2>7 DEF Next
<1>. QED
  BY <1>1, <1>2, PTL DEF Spec

\* Until two reads race or a write runs over the array, the reads that find the
\* flag set and those that return 0 alternate over all clients.
THEOREM Alternation == Spec => []Alternates
<1>1. Init => Alternates
  BY DEF Init, Alternates, Tested
<1>2. TypeOK /\ Alternates /\ [Next]_vars => Alternates'
  <2>. SUFFICES ASSUME TypeOK, Alternates, [Next]_vars, ~raced', ~spilled'
                PROVE  Alternates'
    BY DEF Alternates
  <2>. USE DEF TypeOK, States, Alternates, Tested, useVars, bufVars
  <2>1. ASSUME NEW f \in Files, proc_open(f) PROVE Alternates'
    BY <2>1 DEF proc_open
  <2>2. ASSUME NEW f \in Files, ReadTest(f) PROVE Alternates'
    <3>1. ~raced /\ ~spilled /\ Tested = {}
      BY <2>2 DEF ReadTest
    <3>. QED
      BY <2>2, <3>1 DEF ReadTest
  <2>3. ASSUME NEW f \in Files, ReadOne(f) PROVE Alternates'
    <3>1. ~raced /\ ~spilled /\ len = 1 /\ balance = 0
      BY <2>3 DEF ReadOne
    <3>. QED
      BY <2>3, <3>1 DEF ReadOne
  <2>4. ASSUME NEW f \in Files, ReadCopy(f) PROVE Alternates'
    BY <2>4 DEF ReadCopy
  <2>5. ASSUME NEW f \in Files, ReadZero(f) PROVE Alternates'
    <3>1. ~raced /\ ~spilled /\ len = 0 /\ balance = 1
      BY <2>5 DEF ReadZero
    <3>. QED
      BY <2>5, <3>1 DEF ReadZero
  <2>6. ASSUME NEW f \in Files, Shown(f) \/ proc_write(f) \/ proc_release(f)
        PROVE  Alternates'
    BY <2>6 DEF Shown, proc_write, proc_release
  <2>7. CASE UNCHANGED vars
    BY <2>7 DEF vars
  <2>. QED
    BY <2>1, <2>2, <2>3, <2>4, <2>5, <2>6, <2>7 DEF Next
<1>. QED
  BY <1>1, <1>2, TypeCorrect, PTL DEF Spec

\* A client that was told it has something has the text, but for its own copy.
Got(f) == told[f] = 1 /\ (short[f] \/ read_buf[f] = chr_array)

\* What a client that reads until the end has been told and given, and what the
\* flag says, at each point of its session, when it is the only one.
CatSession(f) ==
  /\ st[f] = "open"    => (told[f] = 0 /\ len = 1) \/ (Got(f) /\ len = 0)
  /\ st[f] = "one"     => told[f] = 0 /\ len = 1
  /\ st[f] = "copying" => told[f] = 0 /\ len = 0
  /\ st[f] \in {"showing", "zero"} => Got(f) /\ len = 0
  /\ st[f] = "ended"   => Got(f) /\ len = 1

\* The strengthening of EachSeesTextOnce: one session at a time, each in step
\* with the flag, which is set between sessions.
OneCat ==
  ~stray /\ ~overlapped =>
    /\ Open \subseteq Cats
    /\ \A f, g \in Open : f = g
    /\ \A f \in Files : CatSession(f)
    /\ Open = {} => len = 1

\* Clients that read until the end, one at a time, are each told once that they
\* have something, have the text then unless their own copy stopped, and leave
\* the flag set for the next, whatever the copies before have done.
THEOREM OneText == Spec => []EachSeesTextOnce
<1>. USE ProcAssumption
<1>1. Init => OneCat
  BY DEF Init, OneCat, CatSession, Got, Open
<1>2. TypeOK /\ OneCat /\ [Next]_vars => OneCat'
  <2>. SUFFICES ASSUME TypeOK, OneCat, [Next]_vars, ~stray', ~overlapped'
                PROVE  OneCat'
    BY DEF OneCat
  <2>. USE DEF TypeOK, States, OneCat, CatSession, Got, Open, useVars, bufVars
  <2>1. ASSUME NEW f \in Files, proc_open(f) PROVE OneCat'
    <3>1. ~stray /\ ~overlapped /\ Open = {} /\ f \in Cats /\ len = 1
      BY <2>1 DEF proc_open
    <3>. QED
      BY <2>1, <3>1 DEF proc_open
  <2>2. ASSUME NEW f \in Files, ReadTest(f) PROVE OneCat'
    <3>1. ~stray /\ ~overlapped /\ \A g \in Open : g = f
      BY <2>2 DEF ReadTest
    <3>. QED
      BY <2>2, <3>1 DEF ReadTest
  <2>3. ASSUME NEW f \in Files, ReadOne(f) PROVE OneCat'
    <3>1. ~stray /\ ~overlapped /\ \A g \in Open : g = f
      BY <2>3 DEF ReadOne
    <3>. QED
      BY <2>3, <3>1 DEF ReadOne
  <2>4. ASSUME NEW f \in Files, ReadCopy(f) PROVE OneCat'
    <3>1. ~stray /\ ~overlapped /\ \A g \in Open : g = f
      BY <2>4 DEF ReadCopy
    <3>. QED
      BY <2>4, <3>1 DEF ReadCopy
  <2>5. ASSUME NEW f \in Files, ReadZero(f) PROVE OneCat'
    <3>1. ~stray /\ ~overlapped /\ f \in Cats /\ \A g \in Open : g = f
      BY <2>5 DEF ReadZero
    <3>. QED
      BY <2>5, <3>1 DEF ReadZero
  <2>6. ASSUME NEW f \in Files, Shown(f) \/ proc_write(f) \/ proc_release(f)
        PROVE  OneCat'
    <3>1. /\ ~stray /\ ~overlapped /\ f \in Cats
          /\ \A g \in Open : g = f
      BY <2>6 DEF Shown, proc_write, proc_release
    <3>. QED
      BY <2>6, <3>1 DEF Shown, proc_write, proc_release
  <2>7. CASE UNCHANGED vars
    BY <2>7 DEF vars
  <2>. QED
    BY <2>1, <2>2, <2>3, <2>4, <2>5, <2>6, <2>7 DEF Next
<1>3. OneCat => EachSeesTextOnce
  BY DEF OneCat, CatSession, Got, EachSeesTextOnce
<1>. QED
  BY <1>1, <1>2, <1>3, TypeCorrect, PTL DEF Spec
=============================================================================
