--------------------------- MODULE CharBufferProofs ---------------------------
(***************************************************************************)
(* Proofs about CharBuffer, for a buffer of any size, any number of files  *)
(* and any lengths clients ask for.                                        *)
(***************************************************************************)
EXTENDS CharBuffer, TLAPS

\* min() stays within both its arguments.
LEMMA LeastBound ==
  \A a, b \in Nat : Least(a, b) \in Nat /\ Least(a, b) <= a /\ Least(a, b) <= b
BY DEF Least

\* The cleared buffer is a buffer.
LEMMA BlankType == Blank \in Area
BY CharAssumption DEF Blank, Area

\* What a call leaves behind when it returns is well typed.
LEMMA ReturnType ==
  ASSUME TypeOK, NEW f \in Files, Return(f)
  PROVE  /\ st' \in [Files -> {"idle", "writing", "written", "reading"}]
         /\ to_copy' \in [Files -> 0 .. Size] /\ copied' \in [Files -> 0 .. Size]
         /\ user' \in [Files -> Area] /\ alone' \in [Files -> BOOLEAN]
<1>1. 0 \in 0 .. Size
  BY CharAssumption
<1>. QED
  BY <1>1, BlankType DEF TypeOK, Return

\* A step keeps the types: every copy stays within the buffer.
LEMMA TypeStep == TypeOK /\ [Next]_vars => TypeOK'
<1>. SUFFICES ASSUME TypeOK, [Next]_vars PROVE TypeOK'
  OBVIOUS
<1>. USE CharAssumption
<1>1. ASSUME NEW f \in Files, WriteStart(f) PROVE TypeOK'
  <2>1. PICK count \in Counts : Begin(f, "writing", Least(count, Size))
    BY <1>1 DEF WriteStart
  <2>2. Least(count, Size) \in 0 .. Size
    BY LeastBound
  <2>3. /\ to_copy' \in [Files -> 0 .. Size] /\ copied' \in [Files -> 0 .. Size]
        /\ st' \in [Files -> {"idle", "writing", "written", "reading"}]
    BY <2>1, <2>2 DEF Begin, TypeOK
  <2>4. user' \in [Files -> Area]
    BY <1>1 DEF WriteStart, TypeOK
  <2>5. alone' \in [Files -> BOOLEAN]
    <3>1. \A g \in Files : (IF g = f THEN Writing = {}
                            ELSE alone[g] /\ st[g] = "idle") \in BOOLEAN
      BY DEF TypeOK
    <3>. QED
      BY <1>1, <3>1 DEF WriteStart
  <2>. QED
    BY <1>1, <2>3, <2>4, <2>5 DEF WriteStart, TypeOK, msgVars
<1>2. ASSUME NEW f \in Files, WriteCell(f) PROVE TypeOK'
  <2>1. copied[f] \in Cells /\ copied[f] + 1 \in 0 .. Size
    BY <1>2 DEF WriteCell, TypeOK, Cells
  <2>2. buffer' \in Area
    BY <1>2, <2>1 DEF WriteCell, TypeOK, Area
  <2>3. copied' \in [Files -> 0 .. Size]
    BY <1>2, <2>1 DEF WriteCell, TypeOK
  <2>. QED
    BY <1>2, <2>2, <2>3 DEF WriteCell, TypeOK, msgVars
<1>3. ASSUME NEW f \in Files, WriteStops(f) PROVE TypeOK'
  <2>. DEFINE Lost(c) == copied[f] <= c /\ c < to_copy[f]
              Fill(a) == [c \in Cells |-> IF Lost(c) THEN 0 ELSE a[c]]
  <2>1. \A a \in Area : Fill(a) \in Area
    BY DEF Area
  <2>2. buffer' = Fill(buffer) /\ user' = [user EXCEPT ![f] = Fill(user[f])]
    BY <1>3 DEF WriteStops, TypeOK
  <2>3. buffer' \in Area /\ user' \in [Files -> Area]
    BY <2>1, <2>2 DEF TypeOK
  <2>. QED
    BY <1>3, <2>3 DEF WriteStops, TypeOK, msgVars
<1>4. ASSUME NEW f \in Files, WriteEnd(f) PROVE TypeOK'
  <2>1. msg' \in Area /\ msgLen' \in -1 .. Size /\ buffer_pointer' \in 0 .. Size
    BY <1>4 DEF WriteEnd, TypeOK
  <2>. QED
    BY <1>4, <2>1, ReturnType DEF WriteEnd, TypeOK
<1>5. ASSUME NEW f \in Files, ReadStart(f) PROVE TypeOK'
  <2>1. PICK count \in Counts : Begin(f, "reading", Least(count, buffer_pointer))
    BY <1>5 DEF ReadStart
  <2>2. Least(count, buffer_pointer) \in 0 .. Size
    <3>1. count \in Nat /\ buffer_pointer \in 0 .. Size
      BY DEF TypeOK
    <3>. QED
      BY <3>1, LeastBound
  <2>3. /\ to_copy' \in [Files -> 0 .. Size] /\ copied' \in [Files -> 0 .. Size]
        /\ st' \in [Files -> {"idle", "writing", "written", "reading"}]
    BY <2>1, <2>2 DEF Begin, TypeOK
  <2>4. alone' \in [Files -> BOOLEAN]
    BY <1>5 DEF ReadStart, TypeOK
  <2>. QED
    BY <1>5, <2>3, <2>4 DEF ReadStart, TypeOK, msgVars
<1>6. ASSUME NEW f \in Files, ReadCell(f) PROVE TypeOK'
  <2>1. copied[f] \in Cells /\ copied[f] + 1 \in 0 .. Size
    BY <1>6 DEF ReadCell, TypeOK, Cells
  <2>2. user' \in [Files -> Area]
    BY <1>6, <2>1 DEF ReadCell, TypeOK, Area
  <2>3. copied' \in [Files -> 0 .. Size]
    BY <1>6, <2>1 DEF ReadCell, TypeOK
  <2>. QED
    BY <1>6, <2>2, <2>3 DEF ReadCell, TypeOK, msgVars
<1>7. ASSUME NEW f \in Files, ReadEnd(f) PROVE TypeOK'
  BY <1>7, ReturnType DEF ReadEnd, TypeOK, msgVars
<1>8. CASE UNCHANGED vars
  BY <1>8 DEF vars, callVars, msgVars, TypeOK
<1>. QED
  BY <1>1, <1>2, <1>3, <1>4, <1>5, <1>6, <1>7, <1>8 DEF Next

\* Every variable keeps its type: no length exceeds the buffer.
THEOREM TypeCorrect == Spec => []TypeOK
<1>1. Init => TypeOK
  <2>. SUFFICES ASSUME Init PROVE TypeOK
    OBVIOUS
  <2>1. 0 \in 0 .. Size /\ 0 \in -1 .. Size
    BY CharAssumption
  <2>2. alone \in [Files -> BOOLEAN]
    BY DEF Init
  <2>. QED
    BY <2>1, <2>2, BlankType DEF Init, TypeOK
<1>. QED
  BY <1>1, TypeStep, PTL DEF Spec

-----------------------------------------------------------------------------

\* A step of any client keeps the two invariants, which need one another.
LEMMA MessageStep ==
  TypeOK /\ BufferHoldsMessage /\ ReadsOneMessage /\ [Next]_vars =>
    BufferHoldsMessage' /\ ReadsOneMessage'
<1>. SUFFICES ASSUME TypeOK, BufferHoldsMessage, ReadsOneMessage, [Next]_vars
              PROVE  BufferHoldsMessage' /\ ReadsOneMessage'
  OBVIOUS
<1>. USE CharAssumption
<1>1. ASSUME NEW f \in Files, WriteStart(f)
      PROVE  BufferHoldsMessage' /\ ReadsOneMessage'
  <2>1. /\ st[f] = "idle" /\ st' = [st EXCEPT ![f] = "writing"]
        /\ copied' = [copied EXCEPT ![f] = 0]
        /\ alone' = [g \in Files |-> IF g = f THEN Writing = {}
                                     ELSE alone[g] /\ st[g] = "idle"]
        /\ UNCHANGED <<buffer, buffer_pointer, msg, msgLen>>
    BY <1>1 DEF WriteStart, Begin, msgVars
  <2>2. Writing' = Writing \cup {f}
    BY <2>1 DEF Writing, TypeOK
  <2>3. ASSUME NEW g \in Files, g # f, st'[g] # "idle" PROVE ~alone'[g]
    BY <2>1, <2>3 DEF TypeOK
  <2>4. ReadsOneMessage'
    BY <2>1, <2>3 DEF ReadsOneMessage, TypeOK
  <2>5. ASSUME NEW g \in Writing', alone'[g]
        PROVE  g = f /\ Writing = {} /\ copied'[g] = 0 /\ st'[g] = "writing"
    BY <2>1, <2>3, <2>5 DEF Writing, TypeOK
  <2>6. ASSUME NEW c \in Cells PROVE ~(c < 0)
    BY DEF Cells
  <2>7. /\ Writing' # {}
        /\ \A g \in Files : st'[g] = "reading" /\ alone'[g] => FALSE
    BY <2>1, <2>2, <2>3 DEF TypeOK
  <2>8. ASSUME NEW g \in Writing', alone'[g]
        PROVE  /\ Writing' = {g}
               /\ \A c \in Cells : c < copied'[g] => buffer'[c] = user'[g][c]
               /\ st'[g] # "written"
    BY <2>2, <2>5, <2>6, <2>8
  <2>. QED
    BY <2>4, <2>7, <2>8 DEF BufferHoldsMessage
<1>2. ASSUME NEW f \in Files, WriteCell(f)
      PROVE  BufferHoldsMessage' /\ ReadsOneMessage'
  <2>1. f \in Writing /\ Writing' = Writing
    BY <1>2 DEF WriteCell, Writing
  <2>2. ReadsOneMessage'
    BY <1>2, <2>1 DEF WriteCell, ReadsOneMessage, BufferHoldsMessage, msgVars
  <2>3. ASSUME NEW g \in Writing, alone[g]
        PROVE  /\ Writing = {g} /\ g = f
               /\ \A c \in Cells : c < copied'[g] => buffer'[c] = user'[g][c]
               /\ st'[g] # "written"
    <3>1. Writing = {g} /\ g = f
      BY <2>1, <2>3 DEF BufferHoldsMessage
    <3>2. copied[f] \in Cells
      BY <1>2 DEF WriteCell, TypeOK, Cells
    <3>3. ASSUME NEW c \in Cells, c < copied'[f] PROVE buffer'[c] = user'[f][c]
      <4>1. c < copied[f] \/ c = copied[f]
        BY <1>2, <3>2, <3>3 DEF WriteCell, TypeOK, Cells
      <4>. QED
        BY <1>2, <2>3, <3>1, <3>2, <4>1 DEF WriteCell, TypeOK, Area, BufferHoldsMessage
    <3>. QED
      BY <1>2, <3>1, <3>3 DEF WriteCell, TypeOK
  <2>. QED
    BY <1>2, <2>1, <2>2, <2>3 DEF WriteCell, BufferHoldsMessage
<1>3. ASSUME NEW f \in Files, WriteStops(f)
      PROVE  BufferHoldsMessage' /\ ReadsOneMessage'
  <2>. DEFINE Lost(c) == copied[f] <= c /\ c < to_copy[f]
              Fill(a) == [c \in Cells |-> IF Lost(c) THEN 0 ELSE a[c]]
  <2>1. /\ buffer' = Fill(buffer) /\ user' = [user EXCEPT ![f] = Fill(user[f])]
        /\ st[f] = "writing" /\ st' = [st EXCEPT ![f] = "written"]
        /\ UNCHANGED <<buffer_pointer, to_copy, copied, alone, msg, msgLen>>
    BY <1>3 DEF WriteStops, TypeOK, msgVars
  <2>2. f \in Writing /\ Writing' = Writing
    BY <2>1 DEF Writing, TypeOK
  <2>3. ASSUME NEW g \in Files, st'[g] = "reading" /\ alone'[g] PROVE FALSE
    BY <2>1, <2>2, <2>3 DEF BufferHoldsMessage, TypeOK
  <2>4. ASSUME NEW g \in Writing, alone[g]
        PROVE  /\ Writing = {g} /\ g = f
               /\ \A c \in Cells : c < to_copy[f] => buffer'[c] = user'[f][c]
               /\ \A c \in Cells : c < copied[f] => buffer'[c] = user'[f][c]
    <3>1. Writing = {g} /\ g = f
      BY <2>2, <2>4 DEF BufferHoldsMessage
    <3>2. \A c \in Cells : c < copied[f] => buffer[c] = user[f][c]
      BY <2>4, <3>1 DEF BufferHoldsMessage
    <3>3. user'[f] = Fill(user[f])
      BY <2>1 DEF TypeOK
    <3>4. copied[f] \in Nat /\ to_copy[f] \in Nat /\ Cells \subseteq Nat
      BY DEF TypeOK, Cells
    <3>5. ASSUME NEW c \in Cells, c < to_copy[f] \/ c < copied[f]
          PROVE  buffer'[c] = user'[f][c]
      BY <2>1, <3>2, <3>3, <3>4, <3>5
    <3>. QED
      BY <3>1, <3>5
  <2>5. ReadsOneMessage'
    BY <2>3 DEF ReadsOneMessage
  <2>. QED
    BY <2>1, <2>2, <2>3, <2>4, <2>5 DEF BufferHoldsMessage
<1>4. ASSUME NEW f \in Files, WriteEnd(f)
      PROVE  BufferHoldsMessage' /\ ReadsOneMessage'
  <2>1. /\ f \in Writing /\ Writing' = Writing \ {f}
        /\ st' = [st EXCEPT ![f] = "idle"]
    BY <1>4 DEF WriteEnd, Return, Writing, TypeOK
  <2>2. ASSUME NEW g \in Files, st'[g] = "reading" /\ alone'[g] PROVE FALSE
    BY <1>4, <2>1, <2>2 DEF WriteEnd, Return, BufferHoldsMessage, TypeOK
  <2>3. ASSUME NEW g \in Writing', alone'[g] PROVE FALSE
    <3>1. g # f /\ g \in Writing /\ alone[g] /\ g \in Files
      BY <1>4, <2>1, <2>3 DEF WriteEnd, Return, Writing, TypeOK
    <3>. QED
      BY <2>1, <3>1 DEF BufferHoldsMessage
  <2>4. ASSUME msgLen' >= 0
        PROVE  /\ buffer_pointer' = msgLen'
               /\ \A c \in Cells : c < msgLen' => buffer'[c] = msg'[c]
    <3>1. alone[f] /\ msgLen' = to_copy[f] /\ buffer_pointer' = to_copy[f]
          /\ msg' = user[f] /\ buffer' = buffer
      BY <1>4, <2>4 DEF WriteEnd
    <3>2. st[f] = "written" \/ copied[f] = to_copy[f]
      BY <1>4 DEF WriteEnd
    <3>. QED
      BY <2>1, <3>1, <3>2 DEF BufferHoldsMessage
  <2>5. ReadsOneMessage'
    BY <2>2 DEF ReadsOneMessage
  <2>. QED
    BY <2>2, <2>3, <2>4, <2>5 DEF BufferHoldsMessage
<1>5. ASSUME NEW f \in Files, ReadStart(f)
      PROVE  BufferHoldsMessage' /\ ReadsOneMessage'
  <2>1. PICK count \in Counts : Begin(f, "reading", Least(count, buffer_pointer))
    BY <1>5 DEF ReadStart
  <2>2. /\ st[f] = "idle" /\ st' = [st EXCEPT ![f] = "reading"]
        /\ to_copy' = [to_copy EXCEPT ![f] = Least(count, buffer_pointer)]
        /\ copied' = [copied EXCEPT ![f] = 0]
        /\ alone' = [alone EXCEPT ![f] = Writing = {}]
        /\ UNCHANGED <<buffer, buffer_pointer, user, msg, msgLen>>
    BY <1>5, <2>1 DEF ReadStart, Begin, msgVars
  <2>3. Writing' = Writing /\ f \notin Writing
    BY <2>2 DEF Writing, TypeOK
  <2>4. BufferHoldsMessage'
    <3>1. ASSUME NEW g \in Files, g # f
          PROVE  st'[g] = st[g] /\ copied'[g] = copied[g] /\ alone'[g] = alone[g]
                 /\ to_copy'[g] = to_copy[g]
      BY <2>2, <3>1 DEF TypeOK
    <3>2. alone'[f] => Writing = {}
      BY <2>2 DEF TypeOK
    <3>3. \A g \in Writing : g \in Files /\ g # f
      BY <2>3 DEF Writing
    <3>4. \A g \in Files : st'[g] = "reading" /\ alone'[g] => Writing' = {}
      BY <2>3, <3>1, <3>2 DEF BufferHoldsMessage
    <3>. QED
      BY <2>2, <2>3, <3>1, <3>3, <3>4 DEF BufferHoldsMessage
  <2>5. ASSUME alone'[f], msgLen >= 0
        PROVE  /\ to_copy'[f] <= msgLen /\ copied'[f] = 0
    <3>1. Writing = {} /\ buffer_pointer = msgLen
      BY <2>2, <2>5 DEF BufferHoldsMessage, TypeOK
    <3>2. Least(count, buffer_pointer) <= buffer_pointer
      BY LeastBound DEF TypeOK
    <3>. QED
      BY <2>2, <3>1, <3>2 DEF TypeOK
  <2>6. \A c \in Cells : ~(c < 0)
    BY DEF Cells
  <2>7. ReadsOneMessage'
    BY <2>2, <2>5, <2>6 DEF ReadsOneMessage, TypeOK
  <2>. QED
    BY <2>4, <2>7
<1>6. ASSUME NEW f \in Files, ReadCell(f)
      PROVE  BufferHoldsMessage' /\ ReadsOneMessage'
  <2>1. /\ st[f] = "reading" /\ copied[f] < to_copy[f]
        /\ user' = [user EXCEPT ![f][copied[f]] = buffer[copied[f]]]
        /\ copied' = [copied EXCEPT ![f] = @ + 1]
        /\ UNCHANGED <<buffer, buffer_pointer, st, to_copy, alone, msg, msgLen>>
    BY <1>6 DEF ReadCell, msgVars
  <2>2. Writing' = Writing /\ f \notin Writing
    BY <2>1 DEF Writing
  <2>3. \A g \in Files : g # f => user'[g] = user[g] /\ copied'[g] = copied[g]
    BY <2>1 DEF TypeOK
  <2>4. BufferHoldsMessage'
    BY <2>1, <2>2, <2>3 DEF BufferHoldsMessage, Writing
  <2>5. ASSUME alone[f], msgLen >= 0
        PROVE  \A c \in Cells : c < copied'[f] => user'[f][c] = msg[c]
    <3>1. /\ copied[f] \in Cells /\ copied[f] < msgLen
          /\ \A c \in Cells : c < copied[f] => user[f][c] = msg[c]
      BY <2>1, <2>5 DEF ReadsOneMessage, TypeOK, Cells
    <3>2. buffer[copied[f]] = msg[copied[f]]
      BY <2>1, <2>5, <3>1 DEF BufferHoldsMessage
    <3>3. user'[f] = [user[f] EXCEPT ![copied[f]] = buffer[copied[f]]]
      BY <2>1 DEF TypeOK
    <3>4. ASSUME NEW c \in Cells, c < copied'[f] PROVE user'[f][c] = msg[c]
      <4>1. c < copied[f] \/ c = copied[f]
        BY <2>1, <3>1, <3>4 DEF TypeOK, Cells
      <4>2. user[f] \in Area
        BY DEF TypeOK
      <4>. QED
        BY <3>1, <3>2, <3>3, <4>1, <4>2 DEF Area
    <3>. QED
      BY <3>4
  <2>6. ReadsOneMessage'
    BY <2>1, <2>3, <2>5 DEF ReadsOneMessage
  <2>. QED
    BY <2>4, <2>6
<1>7. ASSUME NEW f \in Files, ReadEnd(f)
      PROVE  BufferHoldsMessage' /\ ReadsOneMessage'
  <2>1. /\ st[f] = "reading" /\ st' = [st EXCEPT ![f] = "idle"]
        /\ \A g \in Files : g # f => /\ user'[g] = user[g] /\ copied'[g] = copied[g]
                                     /\ to_copy'[g] = to_copy[g] /\ alone'[g] = alone[g]
        /\ UNCHANGED <<buffer, buffer_pointer, msg, msgLen>>
    BY <1>7 DEF ReadEnd, Return, TypeOK, msgVars
  <2>2. Writing' = Writing /\ f \notin Writing /\ Writing \subseteq Files
    BY <2>1 DEF Writing, TypeOK
  <2>3. BufferHoldsMessage'
    BY <2>1, <2>2 DEF BufferHoldsMessage, Writing, TypeOK
  <2>4. ReadsOneMessage'
    BY <2>1 DEF ReadsOneMessage, TypeOK
  <2>. QED
    BY <2>3, <2>4
<1>8. CASE UNCHANGED vars
  BY <1>8 DEF vars, callVars, msgVars, BufferHoldsMessage, ReadsOneMessage, Writing
<1>. QED
  BY <1>1, <1>2, <1>3, <1>4, <1>5, <1>6, <1>7, <1>8 DEF Next

\* The buffer holds the message of the last write, whenever it should.
THEOREM BufferIsMessage == Spec => []BufferHoldsMessage
<1>1. Init => BufferHoldsMessage /\ ReadsOneMessage
  BY CharAssumption DEF Init, BufferHoldsMessage, ReadsOneMessage, Writing, Cells, Blank
<1>. QED
  BY <1>1, MessageStep, TypeCorrect, PTL DEF Spec

\* Reads and writes that do not overlap give each reader one whole message,
\* however long the buffer and however many clients.
THEOREM OneMessage == Spec => []ReadsOneMessage
<1>1. Init => BufferHoldsMessage /\ ReadsOneMessage
  BY CharAssumption DEF Init, BufferHoldsMessage, ReadsOneMessage, Writing, Cells, Blank
<1>. QED
  BY <1>1, MessageStep, TypeCorrect, PTL DEF Spec
=============================================================================
