----------------------------- MODULE LeakDetector -----------------------------
(***************************************************************************)
(* The leak detector of the memory statistics (pddgpu_memory_stats.c and   *)
(* .h): a linked list with one leak object per buffer object, written      *)
(* under a spinlock by the threads that create and destroy buffer objects, *)
(* and read without it, inside an RCU read-side section, by a delayed work *)
(* that arms itself again until the device is removed.                     *)
(*                                                                         *)
(* The driver has the writer's side twice: "plain" is the form that buffer *)
(* objects use (inline functions of the header: list_del and kfree at      *)
(* once), "rcu" the form beside it that nothing calls yet (the _lockfree   *)
(* functions: list_del_rcu and call_rcu).  Forms are the ones in use.      *)
(*                                                                         *)
(* An element of Bo, and of LeakObj, is a piece of memory that is used     *)
(* again after it was freed.  Times are left out: an interval has elapsed  *)
(* or has not, as it happens.                                              *)
(***************************************************************************)
EXTENDS Integers, FiniteSets

CONSTANTS
  Bo,            \* memory for buffer objects, each used by one thread
  LeakObj,       \* memory for leak objects
  Diag,          \* threads that call leak_check, leak_report and the _safe
                 \* functions around them: src/ exports them and calls none
  Head,          \* the list head
  None,
  Forms          \* of "plain" and "rcu", the writers in use

ASSUME NameAssumption ==
  Head \notin LeakObj /\ None \notin Bo \cup Diag \cup LeakObj
ASSUME WriterAssumption ==
  Forms \subseteq {"plain", "rcu"} /\ IsFiniteSet(LeakObj)

VARIABLES
  device_state, drv,
  \* the list: its members, the next pointer of every node, the bo pointers
  linked, next, obj_bo,
  \* leak objects that are allocated; of these, handed to call_rcu; of these,
  \* waiting for the read-side section that is open
  obj_live, deferred, gp_wait,
  \* leak_detector.lock
  lock,
  \* buffer objects whose memory is allocated, and their threads
  bo_live, pc,
  \* the delayed work: enabled?, queued?, being cancelled?, where it is, in
  \* which of its two walks, and at which node
  monitor_enabled, work_pending, canceling, mpc, section, cursor,
  \* the diagnostic threads
  dpc

device  == <<device_state, drv>>
list    == <<linked, next, obj_bo>>
memory  == <<obj_live, deferred, gp_wait>>
bos     == <<bo_live, pc>>
queue   == <<monitor_enabled, work_pending, canceling>>
reader  == <<mpc, section, cursor>>

vars == <<device, list, memory, lock, bos, queue, reader, dpc>>

-----------------------------------------------------------------------------
(* Vocabulary; a name that ends in _fault belongs to a plausible mistake in *)
(* the operator defined after it and is used by no specification            *)

Shutdown == device_state = "SHUTDOWN"

Reading == mpc \in {"walk", "advance"}   \* rcu_read_lock is in force

Node == LeakObj \cup {Head}

Goto(b, l) == pc' = [pc EXCEPT ![b] = l]

Predecessor(o) == CHOOSE p \in linked \cup {Head} : next[p] = o

Entries(b) == {o \in linked : obj_bo[o] = b}

Link_fault(o, b) ==
  /\ linked' = linked \cup {o}
  /\ next' = [next EXCEPT ![Head] = o, ![o] = Head]
  /\ obj_bo' = [obj_bo EXCEPT ![o] = b]

\* list_add_tail
Link(o, b) ==
  /\ linked' = linked \cup {o}
  /\ next' = [next EXCEPT ![Predecessor(Head)] = o, ![o] = Head]
  /\ obj_bo' = [obj_bo EXCEPT ![o] = b]

Unlink_fault(o) ==
  /\ linked' = linked \ {o}
  /\ next' = [next EXCEPT ![Predecessor(o)] = next[o], ![o] = o]
  /\ UNCHANGED obj_bo

\* list_del, of which list_del_rcu keeps the next pointer of the node
Unlink(o) ==
  /\ linked' = linked \ {o}
  /\ next' = [next EXCEPT ![Predecessor(o)] = next[o]]
  /\ UNCHANGED obj_bo

Dispose_fault(o) == obj_live' = obj_live \ {o} /\ UNCHANGED <<deferred, gp_wait>>

DisposeForgets_fault(o) == UNCHANGED memory

\* kfree at once, or by call_rcu after the section that is open now
Dispose(o) ==
  \/ /\ "rcu" \in Forms
     /\ deferred' = deferred \cup {o}
     /\ gp_wait' = IF Reading THEN gp_wait \cup {o} ELSE gp_wait
     /\ UNCHANGED obj_live
  \/ /\ "plain" \in Forms
     /\ obj_live' = obj_live \ {o}
     /\ UNCHANGED <<deferred, gp_wait>>

-----------------------------------------------------------------------------
Init ==
  /\ device_state = "READY" /\ drv = "bound"
  /\ linked = {} /\ next = [n \in Node |-> Head]
  /\ obj_bo = [o \in LeakObj |-> None]
  /\ obj_live = {} /\ deferred = {} /\ gp_wait = {}
  /\ lock = None
  /\ bo_live = {} /\ pc = [b \in Bo |-> "none"]
  /\ monitor_enabled = TRUE /\ work_pending = TRUE /\ canceling = FALSE
  /\ mpc = "idle" /\ section = "check" /\ cursor = Head
  /\ dpc = [d \in Diag |-> "idle"]

-----------------------------------------------------------------------------
(* A thread creates and destroys a buffer object *)

\* pddgpu_bo_create: the device check and kvzalloc
CreateBegin(b) ==
  /\ pc[b] = "none" /\ ~Shutdown
  /\ bo_live' = bo_live \cup {b}
  /\ Goto(b, "create")
  /\ UNCHANGED <<device, list, memory, lock, queue, reader, dpc>>

\* ttm_bo_init_reserved fails: alloc_end with an error does nothing to the
\* list, and the memory is freed
CreateFail(b) ==
  /\ pc[b] = "create"
  /\ bo_live' = bo_live \ {b}
  /\ Goto(b, "none")
  /\ UNCHANGED <<device, list, memory, lock, queue, reader, dpc>>

\* pddgpu_memory_stats_alloc_end: its device check
AllocEnd(b) ==
  /\ pc[b] = "create"
  /\ Goto(b, IF Shutdown THEN "live" ELSE "add")
  /\ UNCHANGED <<device, list, memory, lock, bo_live, queue, reader, dpc>>

\* add_leak_object: kzalloc, and the new object goes to the end of the list
AddObject(b) ==
  /\ pc[b] = "add" /\ lock = None
  /\ \E o \in LeakObj \ obj_live : obj_live' = obj_live \cup {o} /\ Link(o, b)
  /\ Goto(b, "live")
  /\ UNCHANGED <<device, deferred, gp_wait, lock, bo_live, queue, reader, dpc>>

\* kzalloc fails: the buffer object stays without a leak object
AddFails(b) ==
  /\ pc[b] = "add"
  /\ Goto(b, "live")
  /\ UNCHANGED <<device, list, memory, lock, bo_live, queue, reader, dpc>>

\* pddgpu_bo_destroy: a device that is shutting down keeps the buffer object
DestroyBegin(b) ==
  /\ pc[b] = "live"
  /\ Goto(b, IF Shutdown THEN "kept" ELSE "destroy")
  /\ UNCHANGED <<device, list, memory, lock, bo_live, queue, reader, dpc>>

\* pddgpu_memory_stats_free_end: its own device check
FreeEnd(b) ==
  /\ pc[b] = "destroy"
  /\ Goto(b, IF Shutdown THEN "kvfree" ELSE "remove")
  /\ UNCHANGED <<device, list, memory, lock, bo_live, queue, reader, dpc>>

RemoveObject_fault(b) ==
  /\ pc[b] = "remove" /\ lock = None
  /\ Goto(b, "kvfree")
  /\ UNCHANGED <<device, list, memory, lock, bo_live, queue, reader, dpc>>

\* remove_leak_object: the entry of this buffer object, if there is one
RemoveObject(b) ==
  /\ pc[b] = "remove" /\ lock = None
  /\ IF Entries(b) = {}
       THEN UNCHANGED <<list, memory>>
       ELSE \E o \in Entries(b) : Unlink(o) /\ Dispose(o)
  /\ Goto(b, "kvfree")
  /\ UNCHANGED <<device, lock, bo_live, queue, reader, dpc>>

\* kvfree(bo), with no grace period in either version
Kvfree(b) ==
  /\ pc[b] = "kvfree"
  /\ bo_live' = bo_live \ {b}
  /\ Goto(b, "none")
  /\ UNCHANGED <<device, list, memory, lock, queue, reader, dpc>>

RcuFree_fault(o) ==
  /\ o \in deferred
  /\ deferred' = deferred \ {o} /\ obj_live' = obj_live \ {o}
  /\ UNCHANGED <<device, list, gp_wait, lock, bos, queue, reader, dpc>>

\* pddgpu_memory_leak_object_rcu_free, after the grace period
RcuFree(o) ==
  /\ o \in deferred \ gp_wait
  /\ deferred' = deferred \ {o} /\ obj_live' = obj_live \ {o}
  /\ UNCHANGED <<device, list, gp_wait, lock, bos, queue, reader, dpc>>

-----------------------------------------------------------------------------
(* pddgpu_memory_leak_monitor_work *)

WorkStart ==
  /\ work_pending /\ mpc = "idle"
  /\ work_pending' = FALSE /\ mpc' = "start"
  /\ UNCHANGED <<device, list, memory, lock, bos, monitor_enabled, canceling,
                 section, cursor, dpc>>

\* the device check; the statistics exceed the threshold or they do not
WorkCheck ==
  /\ mpc = "start"
  /\ IF Shutdown THEN mpc' = "idle" ELSE mpc' \in {"report", "check"}
  /\ UNCHANGED <<device, list, memory, lock, bos, queue, section, cursor, dpc>>

\* leak_report_rcu or leak_check_rcu enters its read-side section
ReadBegin ==
  /\ mpc \in {"report", "check"} /\ ~Shutdown
  /\ section' = mpc /\ mpc' = "walk" /\ cursor' = next[Head]
  /\ UNCHANGED <<device, list, memory, lock, bos, queue, dpc>>

ReadSkip_fault ==
  /\ \/ mpc = "report" /\ Shutdown /\ mpc' = "check"
     \/ mpc = "check" /\ mpc' = "idle"
  /\ UNCHANGED <<device, list, memory, lock, bos, queue, section, cursor, dpc>>

\* the report does nothing on shutdown, the check neither then nor before
\* its interval has elapsed
ReadSkip ==
  /\ \/ mpc = "report" /\ Shutdown /\ mpc' = "check"
     \/ mpc = "check" /\ mpc' = "rearm"
  /\ UNCHANGED <<device, list, memory, lock, bos, queue, section, cursor, dpc>>

\* leak_obj->bo->tbo.base.resv: the memory of both objects is read
Visit ==
  /\ mpc = "walk" /\ cursor # Head
  /\ mpc' = "advance"
  /\ UNCHANGED <<device, list, memory, lock, bos, queue, section, cursor, dpc>>

\* the next pointer is read; from freed memory, anything may come
Advance ==
  /\ mpc = "advance"
  /\ cursor' \in IF cursor \in obj_live THEN {next[cursor]} ELSE Node
  /\ mpc' = "walk"
  /\ UNCHANGED <<device, list, memory, lock, bos, queue, section, dpc>>

\* rcu_read_unlock
ReadEnd ==
  /\ mpc = "walk" /\ cursor = Head
  /\ gp_wait' = {}
  /\ mpc' = IF section = "report" THEN "check" ELSE "rearm"
  /\ UNCHANGED <<device, list, obj_live, deferred, lock, bos, queue, section,
                 cursor, dpc>>

\* the two conditions for another turn ...
Rearm ==
  /\ mpc = "rearm"
  /\ mpc' = IF monitor_enabled /\ ~Shutdown THEN "schedule" ELSE "idle"
  /\ UNCHANGED <<device, list, memory, lock, bos, queue, section, cursor, dpc>>

\* ... and schedule_delayed_work, in vain while the work is being cancelled
Schedule ==
  /\ mpc = "schedule"
  /\ work_pending' = (work_pending \/ ~canceling)
  /\ mpc' = "idle"
  /\ UNCHANGED <<device, list, memory, lock, bos, monitor_enabled, canceling,
                 section, cursor, dpc>>

-----------------------------------------------------------------------------
(* pddgpu_device_fini and pddgpu_memory_stats_fini *)

DeviceFini ==
  /\ drv = "bound"
  /\ drv' = "fini" /\ device_state' = "SHUTDOWN"
  /\ UNCHANGED <<list, memory, lock, bos, queue, reader, dpc>>

StatsFini ==
  /\ drv = "fini"
  /\ drv' = "cancel" /\ monitor_enabled' = FALSE
  /\ UNCHANGED <<device_state, list, memory, lock, bos, work_pending,
                 canceling, reader, dpc>>

\* cancel_delayed_work_sync takes the work off the queue ...
CancelBegin ==
  /\ drv = "cancel"
  /\ drv' = "wait" /\ work_pending' = FALSE /\ canceling' = TRUE
  /\ UNCHANGED <<device_state, list, memory, lock, bos, monitor_enabled,
                 reader, dpc>>

CancelEnd_fault ==
  /\ drv = "wait"
  /\ drv' = "clear" /\ canceling' = FALSE
  /\ UNCHANGED <<device_state, list, memory, lock, bos, monitor_enabled,
                 work_pending, reader, dpc>>

\* ... and waits for the turn that is running
CancelEnd ==
  /\ drv = "wait" /\ mpc = "idle"
  /\ drv' = "clear" /\ canceling' = FALSE
  /\ UNCHANGED <<device_state, list, memory, lock, bos, monitor_enabled,
                 work_pending, reader, dpc>>

\* every leak object on the list is freed, under the lock
ClearList ==
  /\ drv = "clear" /\ lock = None
  /\ drv' = "done"
  /\ linked' = {} /\ next' = [next EXCEPT ![Head] = Head]
  /\ obj_live' = obj_live \ linked
  /\ UNCHANGED <<device_state, obj_bo, deferred, gp_wait, lock, bos, queue,
                 reader, dpc>>

-----------------------------------------------------------------------------
(* The exported diagnostics: leak_check, leak_report and their _safe forms *)

DGoto(d, l) == dpc' = [dpc EXCEPT ![d] = l]

DiagCall(d) ==
  /\ dpc[d] = "idle"
  /\ \E l \in {"check", "report", "try_check", "try_report"} : DGoto(d, l)
  /\ UNCHANGED <<device, list, memory, lock, bos, queue, reader>>

\* the _safe functions: -ENODEV or -EBUSY, or the lock
DiagTry(d, try, what) ==
  /\ dpc[d] = try
  /\ IF lock # None \/ Shutdown
       THEN DGoto(d, "idle") /\ UNCHANGED lock
       ELSE DGoto(d, what) /\ lock' = d
  /\ UNCHANGED <<device, list, memory, bos, queue, reader>>

DiagReturn(d) == DGoto(d, IF lock = d THEN "unlock" ELSE "idle")

\* leak_check or leak_report, called with the lock or without: the device
\* check, and the interval of leak_check
DiagEnter(d, call, body) ==
  /\ dpc[d] = call
  /\ \/ ~Shutdown /\ DGoto(d, body)
     \/ (Shutdown \/ call = "check") /\ DiagReturn(d)
  /\ UNCHANGED <<device, list, memory, lock, bos, queue, reader>>

\* leak_check: spin_trylock fails
DiagCheckBusy(d) ==
  /\ dpc[d] = "checking" /\ lock # None
  /\ DiagReturn(d)
  /\ UNCHANGED <<device, list, memory, lock, bos, queue, reader>>

\* leak_check: spin_trylock succeeds
DiagCheckLock(d) ==
  /\ dpc[d] = "checking" /\ lock = None
  /\ lock' = d
  /\ DGoto(d, "sweeping")
  /\ UNCHANGED <<device, list, memory, bos, queue, reader>>

\* leak_check, in its loop: an entry whose buffer object has no reservation
\* object any more is removed and freed; the loop reads freed memory to find
\* out and may pass over it
DiagSweep(d) ==
  /\ dpc[d] = "sweeping"
  /\ \E o \in linked :
       /\ obj_bo[o] \notin bo_live
       /\ Unlink(o)
       /\ obj_live' = obj_live \ {o}
  /\ UNCHANGED <<device, deferred, gp_wait, lock, bos, queue, reader, dpc>>

\* leak_check: the end of the list, and the lock it took
DiagSweepEnd(d) ==
  /\ dpc[d] = "sweeping"
  /\ lock' = None
  /\ DGoto(d, "idle")
  /\ UNCHANGED <<device, list, memory, bos, queue, reader>>

\* leak_report takes the lock with spin_lock, walks and releases it
DiagReport(d) ==
  /\ dpc[d] = "reporting" /\ lock = None
  /\ DiagReturn(d)
  /\ UNCHANGED <<device, list, memory, lock, bos, queue, reader>>

DiagUnlock(d) ==
  /\ dpc[d] = "unlock"
  /\ lock' = None
  /\ DGoto(d, "idle")
  /\ UNCHANGED <<device, list, memory, bos, queue, reader>>

-----------------------------------------------------------------------------
BoThread(b) == \/ CreateBegin(b) \/ CreateFail(b) \/ AllocEnd(b)
               \/ AddObject(b) \/ AddFails(b)
               \/ DestroyBegin(b) \/ FreeEnd(b) \/ RemoveObject(b) \/ Kvfree(b)

Walk == ReadBegin \/ ReadSkip \/ Visit \/ Advance \/ ReadEnd

Monitor == WorkStart \/ WorkCheck \/ Walk \/ Rearm \/ Schedule

Fini == StatsFini \/ CancelBegin \/ CancelEnd \/ ClearList

DiagStep(d) == \/ DiagTry(d, "try_check", "check")
               \/ DiagTry(d, "try_report", "report")
               \/ DiagEnter(d, "check", "checking")
               \/ DiagEnter(d, "report", "reporting")
               \/ DiagCheckBusy(d) \/ DiagCheckLock(d) \/ DiagSweep(d)
               \/ DiagSweepEnd(d) \/ DiagReport(d) \/ DiagUnlock(d)

Next == \/ \E b \in Bo : BoThread(b)
        \/ \E o \in LeakObj : RcuFree(o)
        \/ Monitor
        \/ DeviceFini \/ Fini
        \/ \E d \in Diag : DiagCall(d) \/ DiagStep(d)

Spec == Init /\ [][Next]_vars

(***************************************************************************)
(* Fairness: the kernel runs a queued work, lets the thread that removes   *)
(* the device and the diagnostics go on, and hands a spinlock to who waits *)
(* for it.  Nothing is asked of the threads with buffer objects: they may  *)
(* stop for ever, or create and destroy without end.                       *)
(***************************************************************************)
Fairness == /\ WF_vars(Monitor)
            /\ WF_vars(StatsFini \/ CancelBegin \/ CancelEnd) /\ SF_vars(ClearList)
            /\ \A d \in Diag : WF_vars(DiagStep(d))

FairSpec == Spec /\ Fairness

-----------------------------------------------------------------------------
(* Properties *)

TypeOK ==
  /\ device_state \in {"READY", "SHUTDOWN"}
  /\ drv \in {"bound", "fini", "cancel", "wait", "clear", "done"}
  /\ linked \subseteq LeakObj /\ next \in [Node -> Node]
  /\ obj_bo \in [LeakObj -> Bo \cup {None}]
  /\ obj_live \subseteq LeakObj /\ deferred \subseteq LeakObj
  /\ gp_wait \subseteq deferred
  /\ lock \in Diag \cup {None}
  /\ bo_live \subseteq Bo
  /\ pc \in [Bo -> {"none", "create", "add", "live", "destroy", "remove",
                    "kvfree", "kept"}]
  /\ monitor_enabled \in BOOLEAN /\ work_pending \in BOOLEAN
  /\ canceling \in BOOLEAN
  /\ mpc \in {"idle", "start", "report", "check", "walk", "advance", "rearm",
              "schedule"}
  /\ section \in {"report", "check"} /\ cursor \in Node
  /\ dpc \in [Diag -> {"idle", "check", "report", "try_check", "try_report",
                       "checking", "sweeping", "reporting", "unlock"}]

\* the nodes a walk from the head visits, the first |LeakObj| + 1 of them
Path == LET at[n \in 0 .. Cardinality(LeakObj)] ==
              IF n = 0 THEN next[Head]
              ELSE IF at[n - 1] = Head THEN Head ELSE next[at[n - 1]]
        IN at

\* The list is whole: a walk from the head comes back to it and visits every
\* member and nothing else, after any insertions and removals in the middle.
ListWhole ==
  /\ Path[Cardinality(LeakObj)] = Head
  /\ {Path[n] : n \in 0 .. Cardinality(LeakObj)} \ {Head} = linked

\* Until the device shuts down, and again once fini has cleared the list, an
\* entry points to a buffer object whose memory is allocated: free_end takes
\* the entry out before kvfree, and what alloc_end adds late belongs to a
\* buffer object that is kept.
ListedBoLive ==
  ~Shutdown \/ drv = "done" => \A o \in linked : obj_bo[o] \in bo_live

\* A buffer object has one entry at most, also when its memory is one that a
\* destroyed buffer object had before: remove_leak_object stops at the first.
OneEntryPerBo == \A b \in Bo : Cardinality(Entries(b)) <= 1

\* Leak objects neither leak nor dangle: what is allocated is exactly what is
\* on the list or waits for its grace period, also after the list is cleared.
ObjectsAccounted == obj_live = linked \cup deferred

\* With call_rcu the monitor never stands on a leak object that was freed,
\* and the walk it is in goes on from a removed one.
WalkerSeesLiveObject ==
  mpc \in {"walk", "advance"} /\ cursor # Head => cursor \in obj_live

\* Once fini has cancelled the work, it is neither queued nor running, and no
\* turn of it that was under way arms it again.
NoWorkAfterCancel ==
  drv \in {"clear", "done"} => ~work_pending /\ mpc = "idle"

\* The monitor goes on, turn after turn, until the device shuts down: every turn
\* comes to its end, whatever is inserted and removed under it.
MonitorGoesOn == []<>(mpc = "start" \/ Shutdown)

\* Removing the device does not hang on the list's lock, nor on the monitor,
\* whose last turn it waits for.
FiniEnds == (drv = "fini") ~> (drv = "done")

-----------------------------------------------------------------------------
(* A claim of the documentation, checked as it is stated *)

\* "Deferred freeing avoids access to freed memory": the leak object the
\* monitor stands on, and the buffer object it is about to read through
\* leak_obj->bo, are both still allocated.
WalkerReadsLiveMemory ==
  mpc = "walk" /\ cursor # Head => cursor \in obj_live /\ obj_bo[cursor] \in bo_live
=============================================================================
