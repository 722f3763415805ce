------------------------------- MODULE LeakWalk -------------------------------
(***************************************************************************)
(* What a turn of the monitor gets to see: the leak detector with a record *)
(* of the walk that is going on (leak_check_rcu or leak_report_rcu).  The  *)
(* walk takes no lock, so leak objects are inserted at the tail and taken  *)
(* out of the middle, also from under the walker, while it counts them.    *)
(***************************************************************************)
EXTENDS LeakDetector

VARIABLES
  seen,     \* leak objects that the walk has looked at
  stayed    \* leak objects that have been on the list since it began

walkVars == <<vars, seen, stayed>>

\* The loop body looks at the leak object under the cursor.
Record ==
  /\ seen' = IF ~Reading' THEN {}
             ELSE IF mpc' = "advance" THEN seen \cup {cursor} ELSE seen
  /\ stayed' = IF ~Reading' THEN {}
               ELSE IF Reading THEN stayed \cap linked' ELSE linked'

RecordInit == Init /\ seen = {} /\ stayed = {}

RecordNext == Next /\ Record

RecordSpec == RecordInit /\ [][RecordNext]_walkVars

RecordFairSpec == RecordSpec /\ Fairness

-----------------------------------------------------------------------------
(* Property *)

\* A turn looks at no leak object twice, and when it has come round it has
\* looked at every one that was on the list all the time: what it counts is
\* right, whatever was inserted, removed and used again under it.
CountsEachOnce ==
  mpc = "walk" => IF cursor = Head THEN stayed \subseteq seen
                                   ELSE cursor \notin seen
=============================================================================
