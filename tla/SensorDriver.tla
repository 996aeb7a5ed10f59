---------------------------- MODULE SensorDriver -----------------------------
(***************************************************************************)
(* The light sensor driver ssd1306/bh1750.c at work: clients such as       *)
(* ssd1306/testapp.c open the device and ask for the light by ioctl, while *)
(* insmod has published the device and is still looking for the sensor,    *)
(* while rmmod wants to take it away, or when the adapter has gone.        *)
(*                                                                         *)
(* Two globals are shared: bh_i2c_client, which init sets after the device *)
(* can be opened, and value, through which every ioctl passes its answer.  *)
(* An ioctl is three steps: the transfer, which may sleep, the store into  *)
(* value, and the copy of value to the client, which may sleep too.        *)
(*                                                                         *)
(* What init and exit hold and leave behind is in DriverLifecycle; here    *)
(* they are what an ioctl can meet of them.  A memory error, or a call in  *)
(* a module that the loader has freed, sets `fault' and is the end.        *)
(***************************************************************************)
EXTENDS Integers

CONSTANTS Files,   \* the files clients may open
          Words,   \* what the sensor's 16-bit register may hold
          Errors,  \* the negative error numbers of transfers that fail
          Nothing  \* the client's variable before the first answer

MaxWord == 65535  \* of 16 bits
Divisor == 65279  \* of the percentage

\* The kernel defines no error number beyond 531; 653 would show as -1.
ASSUME SensorAssumption == /\ Words \subseteq 0 .. MaxWord
                           /\ Errors \subseteq -652 .. -1
                           /\ Nothing \notin Int

VARIABLES
  loader,        \* where the thread of insmod or rmmod is
  bh_i2c_client, \* "null", "ok", "err" (an error pointer) or "freed"
  value,         \* the global
  st,            \* st[f]: where the client of f and its call are
  ret,           \* ret[f]: what the last transfer of f brought
  answer,        \* answer[f]: the client's variable
  alone,         \* history: alone[f], no other call has met the last call of f
  unplugged,     \* history: the adapter has gone, and this module's client with it
  fault          \* a call followed a bad client pointer, or ran in freed code

modVars == <<loader, bh_i2c_client>>
vars    == <<modVars, value, st, ret, answer, alone, unplugged, fault>>

InCall == {f \in Files : st[f] \in {"calling", "transferred", "stored"}}
Gone   == loader = "discarded"

Init == /\ loader = "unloaded"
        /\ bh_i2c_client = "null"
        /\ value = 0
        /\ st = [f \in Files |-> "closed"]
        /\ ret = [f \in Files |-> 0]
        /\ answer = [f \in Files |-> Nothing]
        /\ alone = [f \in Files |-> FALSE]
        /\ unplugged = FALSE
        /\ fault = FALSE

-----------------------------------------------------------------------------
(* insmod and rmmod *)

Load(from, to) == loader = from /\ loader' = to /\ UNCHANGED <<st, ret, answer, alone, fault>>

\* The data is fresh; init up to the point where the device can be opened.
Publish == /\ Load("unloaded", "published")
           /\ bh_i2c_client' = "null"
           /\ value' = 0
           /\ unplugged' = FALSE

\* No adapter: init returns -1, and the loader frees a module whose cdev stays.
NoAdapter == Load("published", "discarded") /\ UNCHANGED <<bh_i2c_client, value, unplugged>>

\* A client that could not be made is an error pointer, not NULL: init goes on
\* and succeeds, for the result of i2c_add_driver is ignored as well.
NewClient == /\ Load("published", "live")
             /\ bh_i2c_client' \in {"ok", "err"}
             /\ UNCHANGED <<value, unplugged>>

\* init has let go of the adapter with i2c_put_adapter: it may be removed from
\* here on, and the I2C core then unregisters and frees the client on it.
AdapterGone == /\ loader \in {"live", "going"}
               /\ bh_i2c_client = "ok"
               /\ bh_i2c_client' = "freed"
               /\ unplugged' = TRUE
               /\ UNCHANGED <<loader, value, st, ret, answer, alone, fault>>

\* Broken variant, for a mutant: no owner line, rmmod ignores open files.
RmmodUnowned == Load("live", "going") /\ UNCHANGED <<bh_i2c_client, value, unplugged>>

\* rmmod, up to cdev_del: with .owner set an open file keeps it from starting.
Rmmod == /\ Load("live", "going")
         /\ \A f \in Files : st[f] = "closed"
         /\ UNCHANGED <<bh_i2c_client, value, unplugged>>

\* i2c_unregister_device, which ignores an error pointer; then the rest ...
Unregister == /\ bh_i2c_client # "freed"
              /\ Load("going", "unloaded")
              /\ bh_i2c_client' = IF bh_i2c_client = "ok" THEN "freed" ELSE "err"
              /\ UNCHANGED <<value, unplugged>>

\* ... but nothing tells the driver that its client has been unregistered.
UnregisterFreed == /\ loader = "going"
                   /\ bh_i2c_client = "freed"
                   /\ fault' = TRUE
                   /\ UNCHANGED <<modVars, value, st, ret, answer, alone, unplugged>>

-----------------------------------------------------------------------------
(* Clients *)

Goes(f, from, to) ==
  /\ ~Gone
  /\ st[f] = from /\ st' = [st EXCEPT ![f] = to]
  /\ UNCHANGED <<modVars, unplugged, fault>>

\* driver_open: the kernel opens no file of a module that is going.
Open(f) == /\ loader \in {"published", "live"}
           /\ Goes(f, "closed", "open")
           /\ answer' = [answer EXCEPT ![f] = Nothing]
           /\ UNCHANGED <<value, ret, alone>>

\* driver_ioctl is called, with any cmd: it does not look at it.
Ioctl(f) == /\ Goes(f, "open", "calling")
            /\ alone' = [g \in Files |-> IF g = f THEN InCall = {}
                                         ELSE alone[g] /\ g \notin InCall]
            /\ UNCHANGED <<value, ret, answer>>

\* Broken variant, for a mutant: a byte is read in place of the word.
TransferByte(f) == /\ bh_i2c_client = "ok"
                   /\ Goes(f, "calling", "transferred")
                   /\ \E r \in Words : ret' = [ret EXCEPT ![f] = r % 256]
                   /\ UNCHANGED <<value, answer, alone>>

\* I2C_Read through the client, a word or an error number.  The core lets one
\* transfer at a time on the bus.
Transfer(f) == /\ bh_i2c_client = "ok"
               /\ Goes(f, "calling", "transferred")
               /\ \E r \in Words \cup Errors : ret' = [ret EXCEPT ![f] = r]
               /\ UNCHANGED <<value, answer, alone>>

\* C divides towards zero.
Quotient(a, b) == IF a >= 0 THEN a \div b ELSE -((-a) \div b)

\* Broken variant, for a mutant: the division rounds down.
BH1750_data_floor(r) == (r * 100) \div Divisor

\* lightPerc.  The product fits in an int; an error number becomes 0.
BH1750_data(r) == Quotient(r * 100, Divisor)

\* Broken variant, for a mutant: a failed transfer leaves the old value.
StoreIfGood(f) == /\ Goes(f, "transferred", "stored")
                  /\ value' = IF ret[f] < 0 THEN value ELSE BH1750_data(ret[f])
                  /\ UNCHANGED <<ret, answer, alone>>

\* The assignment to value.
Store(f) == /\ Goes(f, "transferred", "stored")
            /\ value' = BH1750_data(ret[f])
            /\ UNCHANGED <<ret, answer, alone>>

\* copy_to_user, from the global ...
Answer(f) == /\ Goes(f, "stored", "answered")
             /\ answer' = [answer EXCEPT ![f] = value]
             /\ UNCHANGED <<value, ret, alone>>

\* ... and when it fails ioctl returns 0 all the same.
NoAnswer(f) == Goes(f, "stored", "open") /\ UNCHANGED <<value, ret, answer, alone>>

\* The client prints its variable, and goes on or closes the file.
Shows(f) == Goes(f, "answered", "open") /\ UNCHANGED <<value, ret, answer, alone>>
Close(f) == Goes(f, "open", "closed") /\ UNCHANGED <<value, ret, answer, alone>>

\* The call follows a pointer that is no client, or is made on a module that
\* is gone, through a file that is still open or through the cdev left behind.
Fault(f) == /\ Gone \/ (st[f] = "calling" /\ bh_i2c_client # "ok")
            /\ fault' = TRUE
            /\ UNCHANGED <<modVars, value, st, ret, answer, alone, unplugged>>

Next == /\ ~fault
        /\ \/ Publish \/ NoAdapter \/ NewClient \/ AdapterGone
           \/ Rmmod \/ Unregister \/ UnregisterFreed
           \/ \E f \in Files :
                \/ Open(f) \/ Ioctl(f) \/ Transfer(f) \/ Store(f) \/ Answer(f)
                \/ NoAnswer(f) \/ Shows(f) \/ Close(f) \/ Fault(f)

Spec == Init /\ [][Next]_vars

-----------------------------------------------------------------------------
(* Properties *)

\* Every variable has its type; a transfer brings a word or an error number.
TypeOK ==
  /\ loader \in {"unloaded", "published", "live", "going", "discarded"}
  /\ bh_i2c_client \in {"null", "ok", "err", "freed"}
  /\ value \in Int
  /\ st \in [Files -> {"closed", "open", "calling", "transferred", "stored", "answered"}]
  /\ ret \in [Files -> Words \cup Errors \cup {0}]
  /\ answer \in [Files -> Int \cup {Nothing}]
  /\ alone \in [Files -> BOOLEAN]
  /\ unplugged \in BOOLEAN /\ fault \in BOOLEAN

\* What clients are told is a percentage: a word above the divisor of
\* BH1750_data gives no more than 100, and no error number shows through as
\* a negative light (it shows as darkness).
IsPercent == /\ value \in 0 .. 100
             /\ \A f \in Files : answer[f] \in (0 .. 100) \cup {Nothing}

\* A client whose ioctl met no other ioctl is told what its own transfer
\* brought, although the answer passes through a global and init, rmmod and
\* other clients' earlier calls leave values there.
AnswersOwn == \A f \in Files :
                st[f] = "answered" /\ alone[f] => answer[f] = BH1750_data(ret[f])

\* A call meets a bad client pointer, or freed code, only through an init that
\* has not yet made the client, could not make it, or failed with the device
\* published, or because the adapter has gone since: never because of rmmod,
\* which frees the client of a live driver.
FaultNeedsBadInitOrUnplug == fault => \/ loader \in {"published", "discarded"}
                                      \/ bh_i2c_client = "err"
                                      \/ unplugged
=============================================================================
