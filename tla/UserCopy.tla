------------------------------ MODULE UserCopy ------------------------------
(***************************************************************************)
(* The two kernel helpers every read and write handler of the repository   *)
(* calls.  They are external to the repository: what is modelled is what   *)
(* its handlers rely on.  A user page may be missing, so a copy may stop   *)
(* after its first `good' cells.  copy_from_user zeroes the part of the    *)
(* destination it could not fill, copy_to_user leaves it alone; both       *)
(* return how many bytes are missing, a value the buffer drivers ignore.   *)
(***************************************************************************)
EXTENDS Naturals

\* dst after copy_from_user(dst, src, len) that stopped after `good' cells.
CopyFromUser(dst, src, len, good) ==
  [c \in DOMAIN dst |-> IF c < good THEN src[c]
                        ELSE IF c < len THEN 0 ELSE dst[c]]

\* The user's buffer after copy_to_user(buf, src, len) that stopped after `good'.
CopyToUser(buf, src, len, good) ==
  [c \in DOMAIN buf |-> IF c < good /\ c < len THEN src[c] ELSE buf[c]]
=============================================================================
