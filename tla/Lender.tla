-------------------------------- MODULE Lender --------------------------------
(***************************************************************************)
(* What the two memory managers of the driver promise, VRAM in blocks and  *)
(* GTT in pages, whatever their locks, counters, retries and error paths:  *)
(* while it is open, a manager lends units of memory, each to one holder   *)
(* at a time, and a holder gives back all it has.  It is opened when       *)
(* nothing is lent, and closed at any time, for good or until everything   *)
(* has been given back.                                                    *)
(***************************************************************************)
CONSTANTS Holder, Unit

VARIABLES
  open,     \* units can be lent
  lent      \* the units each holder has

vars == <<open, lent>>

Lent == UNION {lent[h] : h \in Holder}

Init == open = FALSE /\ lent = [h \in Holder |-> {}]

Open ==
  /\ Lent = {}
  /\ open' = TRUE /\ UNCHANGED lent

Close == open' = FALSE /\ UNCHANGED lent

Lend(h) ==
  /\ open
  /\ \E units \in SUBSET (Unit \ Lent) : lent' = [lent EXCEPT ![h] = @ \cup units]
  /\ UNCHANGED open

TakeBack(h) == lent' = [lent EXCEPT ![h] = {}] /\ UNCHANGED open

Next == Open \/ Close \/ \E h \in Holder : Lend(h) \/ TakeBack(h)

Spec == Init /\ [][Next]_vars
===============================================================================
