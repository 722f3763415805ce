-------------------------- MODULE LeakDetectorProofs --------------------------
(***************************************************************************)
(* Theorems about LeakDetector, and at the end about LeakWalk, for every   *)
(* set of buffer objects, of leak objects and of diagnostic threads, and   *)
(* for both versions of the writers' side unless a theorem says otherwise. *)
(*                                                                         *)
(* The inductive invariant Inv has five parts.  DeviceInv: where the       *)
(* driver is tells whether the device is shut down, and where a thread is  *)
(* tells whether its buffer object is allocated.  WorkInv: cancelling      *)
(* leaves no work.  EntryInv: what the place of a thread says of its entry *)
(* on the list.  MemoryInv: what is allocated.  ListInv: on the list and   *)
(* its head, next is a permutation.  WalkInv adds, for the version with    *)
(* call_rcu, where the monitor can get to.                                 *)
(*                                                                         *)
(* For ListWhole a permutation is not enough, it could have two cycles:    *)
(* RingInv says that the list and its head are one.  CycleWalk concludes,  *)
(* by induction and the pigeonhole principle, that a walk comes round.     *)
(*                                                                         *)
(* For a walk with writers under it SeenInv says that the leak objects can *)
(* be numbered so that next leads upwards and skips nothing: Order, of the *)
(* list, and Progress, of what a walk has behind it.                       *)
(***************************************************************************)
EXTENDS LeakWalk, SumTheorems

\* The steps, by what they change.
BoQuiet(b) == \/ CreateBegin(b) \/ CreateFail(b) \/ AllocEnd(b) \/ AddFails(b)
              \/ DestroyBegin(b) \/ FreeEnd(b) \/ Kvfree(b)

DiagQuiet(d) == \/ DiagCall(d)
                \/ DiagTry(d, "try_check", "check")
                \/ DiagTry(d, "try_report", "report")
                \/ DiagEnter(d, "check", "checking")
                \/ DiagEnter(d, "report", "reporting")
                \/ DiagCheckBusy(d) \/ DiagCheckLock(d) \/ DiagSweepEnd(d)
                \/ DiagReport(d) \/ DiagUnlock(d)

LEMMA NextCases ==
  ASSUME Next
  PROVE  \/ \E b \in Bo : BoQuiet(b) \/ AddObject(b) \/ RemoveObject(b)
         \/ \E o \in LeakObj : RcuFree(o)
         \/ Monitor \/ DeviceFini \/ Fini
         \/ \E d \in Diag : DiagQuiet(d) \/ DiagSweep(d)
BY DEF Next, BoThread, BoQuiet, DiagStep, DiagQuiet

-----------------------------------------------------------------------------
(* Types *)

Labels == {"none", "create", "add", "live", "destroy", "remove", "kvfree",
           "kept"}

LEMMA TypeInit == Init => TypeOK
  BY NameAssumption DEF Init, TypeOK, Node

\* A thread with a buffer object changes its label and the allocation.
LEMMA TypeBo ==
  ASSUME TypeOK, NEW b \in Bo, BoQuiet(b)
  PROVE  TypeOK'
<1>1. /\ UNCHANGED <<device, list, memory, lock, queue, reader, dpc>>
      /\ bo_live' \in {bo_live, bo_live \cup {b}, bo_live \ {b}}
      /\ \E l \in Labels : pc' = [pc EXCEPT ![b] = l]
  BY DEF BoQuiet, CreateBegin, CreateFail, AllocEnd, AddFails, DestroyBegin,
         FreeEnd, Kvfree, Goto, Labels
<1>2. pc' \in [Bo -> Labels]
  BY <1>1 DEF TypeOK, Labels
<1> QED
  BY <1>1, <1>2
  DEF TypeOK, device, list, memory, queue, reader, Node, Labels

\* Linking, unlinking and disposing of a leak object keep the types.
LEMMA TypeList ==
  ASSUME TypeOK, NEW o \in LeakObj
  PROVE  /\ \A b \in Bo : Link(o, b) => /\ linked' \subseteq LeakObj
                                        /\ next' \in [Node -> Node]
                                        /\ obj_bo' \in [LeakObj -> Bo \cup {None}]
         /\ Unlink(o) => /\ linked' \subseteq LeakObj
                         /\ next' \in [Node -> Node]
                         /\ obj_bo' \in [LeakObj -> Bo \cup {None}]
         /\ Dispose(o) => /\ obj_live' \subseteq LeakObj
                          /\ deferred' \subseteq LeakObj
                          /\ gp_wait' \subseteq deferred'
<1>1. /\ linked \subseteq LeakObj /\ next \in [Node -> Node]
      /\ obj_bo \in [LeakObj -> Bo \cup {None}]
      /\ o \in Node /\ Head \in Node
  BY DEF TypeOK, Node
<1>2. ASSUME NEW b \in Bo, Link(o, b)
      PROVE  /\ linked' \subseteq LeakObj /\ next' \in [Node -> Node]
             /\ obj_bo' \in [LeakObj -> Bo \cup {None}]
  BY <1>1, <1>2 DEF Link
<1>3. ASSUME Unlink(o)
      PROVE  /\ linked' \subseteq LeakObj /\ next' \in [Node -> Node]
             /\ obj_bo' \in [LeakObj -> Bo \cup {None}]
  BY <1>1, <1>3 DEF Unlink
<1>4. ASSUME Dispose(o)
      PROVE  /\ obj_live' \subseteq LeakObj /\ deferred' \subseteq LeakObj
             /\ gp_wait' \subseteq deferred'
  BY <1>4 DEF Dispose, TypeOK
<1> QED
  BY <1>2, <1>3, <1>4

LEMMA TypeAdd ==
  ASSUME TypeOK, NEW b \in Bo, AddObject(b)
  PROVE  TypeOK'
<1>1. PICK o \in LeakObj \ obj_live : obj_live' = obj_live \cup {o} /\ Link(o, b)
  BY DEF AddObject
<1>2. /\ linked' \subseteq LeakObj /\ next' \in [Node -> Node]
      /\ obj_bo' \in [LeakObj -> Bo \cup {None}]
  BY <1>1, TypeList
<1>3. UNCHANGED <<device, deferred, gp_wait, lock, bo_live, queue, reader, dpc>>
      /\ pc' = [pc EXCEPT ![b] = "live"]
  BY DEF AddObject, Goto
<1> QED
  BY <1>1, <1>2, <1>3 DEF TypeOK, device, queue, reader, Node

LEMMA TypeRemove ==
  ASSUME TypeOK, NEW b \in Bo, RemoveObject(b)
  PROVE  TypeOK'
<1>1. UNCHANGED <<device, lock, bo_live, queue, reader, dpc>>
      /\ pc' = [pc EXCEPT ![b] = "kvfree"]
  BY DEF RemoveObject, Goto
<1>2. \/ UNCHANGED <<list, memory>>
      \/ \E o \in LeakObj : Unlink(o) /\ Dispose(o)
  BY DEF RemoveObject, Entries, TypeOK
<1>3. CASE UNCHANGED <<list, memory>>
  BY <1>1, <1>3 DEF TypeOK, device, list, memory, queue, reader, Node
<1>4. CASE \E o \in LeakObj : Unlink(o) /\ Dispose(o)
  <2>1. /\ linked' \subseteq LeakObj /\ next' \in [Node -> Node]
        /\ obj_bo' \in [LeakObj -> Bo \cup {None}]
        /\ obj_live' \subseteq LeakObj /\ deferred' \subseteq LeakObj
        /\ gp_wait' \subseteq deferred'
    BY <1>4, TypeList
  <2> QED
    BY <1>1, <2>1 DEF TypeOK, device, queue, reader, Node
<1> QED
  BY <1>2, <1>3, <1>4

LEMMA TypeSweep ==
  ASSUME TypeOK, NEW d \in Diag, DiagSweep(d)
  PROVE  TypeOK'
<1>1. PICK o \in linked : Unlink(o) /\ obj_live' = obj_live \ {o}
  BY DEF DiagSweep
<1>2. /\ linked' \subseteq LeakObj /\ next' \in [Node -> Node]
      /\ obj_bo' \in [LeakObj -> Bo \cup {None}]
  BY <1>1, TypeList DEF TypeOK
<1>3. UNCHANGED <<device, deferred, gp_wait, lock, bos, queue, reader, dpc>>
  BY DEF DiagSweep
<1> QED
  BY <1>1, <1>2, <1>3 DEF TypeOK, device, bos, queue, reader, Node

LEMMA TypeMonitor ==
  ASSUME TypeOK, Monitor
  PROVE  TypeOK'
<1> USE DEF TypeOK, device, list, memory, bos, queue, reader
<1>1. CASE WorkStart
  BY <1>1 DEF WorkStart, Node
<1>2. CASE WorkCheck
  BY <1>2 DEF WorkCheck, Node
<1>3. CASE ReadBegin
  BY <1>3 DEF ReadBegin, Node
<1>4. CASE ReadSkip
  BY <1>4 DEF ReadSkip, Node
<1>5. CASE Visit
  BY <1>5 DEF Visit, Node
<1>6. CASE Advance
  <2>1. cursor' \in Node
    BY <1>6 DEF Advance
  <2> QED
    BY <1>6, <2>1 DEF Advance, Node
<1>7. CASE ReadEnd
  BY <1>7 DEF ReadEnd, Node
<1>8. CASE Rearm
  BY <1>8 DEF Rearm, Node
<1>9. CASE Schedule
  BY <1>9 DEF Schedule, Node
<1> QED
  BY <1>1, <1>2, <1>3, <1>4, <1>5, <1>6, <1>7, <1>8, <1>9 DEF Monitor, Walk

LEMMA TypeDriver ==
  ASSUME TypeOK, DeviceFini \/ Fini
  PROVE  TypeOK'
<1> USE DEF TypeOK, device, list, memory, bos, queue, reader, Node
<1>1. CASE DeviceFini
  BY <1>1 DEF DeviceFini
<1>2. CASE StatsFini
  BY <1>2 DEF StatsFini
<1>3. CASE CancelBegin
  BY <1>3 DEF CancelBegin
<1>4. CASE CancelEnd
  BY <1>4 DEF CancelEnd
<1>5. CASE ClearList
  BY <1>5 DEF ClearList
<1> QED
  BY <1>1, <1>2, <1>3, <1>4, <1>5 DEF Fini

LEMMA TypeDiag ==
  ASSUME TypeOK, NEW d \in Diag, DiagQuiet(d)
  PROVE  TypeOK'
<1>1. UNCHANGED <<device, list, memory, bos, queue, reader>>
      /\ lock' \in {lock, d, None}
      /\ \E l \in {"idle", "check", "report", "try_check", "try_report",
                   "checking", "sweeping", "reporting", "unlock"} :
           dpc' = [dpc EXCEPT ![d] = l]
  BY DEF DiagQuiet, DiagCall, DiagTry, DiagEnter, DiagCheckBusy, DiagCheckLock,
         DiagSweepEnd, DiagReport, DiagUnlock, DiagReturn, DGoto
<1> QED
  BY <1>1 DEF TypeOK, device, list, memory, bos, queue, reader, Node

LEMMA TypeStep == TypeOK /\ [Next]_vars => TypeOK'
<1> SUFFICES ASSUME TypeOK, [Next]_vars PROVE TypeOK'
  OBVIOUS
<1>1. CASE UNCHANGED vars
  BY <1>1 DEF TypeOK, vars, device, list, memory, bos, queue, reader, Node
<1>2. ASSUME NEW o \in LeakObj, RcuFree(o)
      PROVE  TypeOK'
  BY <1>2 DEF TypeOK, RcuFree, device, list, bos, queue, reader, Node
<1> QED
  BY <1>1, <1>2, NextCases, TypeBo, TypeAdd, TypeRemove, TypeMonitor,
     TypeDriver, TypeDiag, TypeSweep

\* Type correctness, in particular of the list: next pointers lead to nodes,
\* and what waits for a grace period was handed to call_rcu.
THEOREM TypeCorrect == Spec => []TypeOK
  BY TypeInit, TypeStep, PTL DEF Spec

-----------------------------------------------------------------------------
(* The inductive invariant *)

DeviceInv ==
  /\ Shutdown <=> drv # "bound"
  /\ bo_live = {b \in Bo : pc[b] # "none"}

WorkInv ==
  /\ drv = "wait" => ~work_pending /\ canceling
  /\ drv \in {"clear", "done"} => ~work_pending /\ mpc = "idle"

EntryInv ==
  /\ \A o \in linked :
       /\ obj_bo[o] \in Bo
       /\ pc[obj_bo[o]] \notin {"create", "add"}
       /\ ~Shutdown => pc[obj_bo[o]] \in {"live", "destroy", "remove"}
       /\ drv = "done" => pc[obj_bo[o]] \in {"live", "kept"}
  /\ \A o, q \in linked : obj_bo[o] = obj_bo[q] => o = q

MemoryInv == ObjectsAccounted /\ linked \cap deferred = {}

Inv == TypeOK /\ DeviceInv /\ WorkInv /\ EntryInv /\ MemoryInv

LEMMA InvInit == Init => Inv
  BY TypeInit DEF Init, Inv, DeviceInv, Shutdown, WorkInv, EntryInv, MemoryInv,
                  ObjectsAccounted

\* A thread leaves a place where it has no entry for another such place, or
\* one where it may have an entry for another such place.
LEMMA InvBo ==
  ASSUME Inv, NEW b \in Bo, BoQuiet(b)
  PROVE  DeviceInv' /\ WorkInv' /\ EntryInv' /\ MemoryInv'
<1> USE DEF Inv, TypeOK, Goto, device, list, memory, queue, reader
<1>1. UNCHANGED <<device, list, memory, queue, reader>>
  BY DEF BoQuiet, CreateBegin, CreateFail, AllocEnd, AddFails, DestroyBegin,
         FreeEnd, Kvfree
<1>2. WorkInv' /\ MemoryInv'
  BY <1>1 DEF WorkInv, MemoryInv, ObjectsAccounted
<1>3. DeviceInv'
  BY <1>1
  DEF BoQuiet, CreateBegin, CreateFail, AllocEnd, AddFails, DestroyBegin,
      FreeEnd, Kvfree, DeviceInv, Shutdown
<1>4. EntryInv'
  <2>1. \A o, q \in linked' : obj_bo'[o] = obj_bo'[q] => o = q
    BY <1>1 DEF EntryInv
  <2>2. ASSUME NEW o \in linked
        PROVE  /\ obj_bo[o] \in Bo
               /\ pc'[obj_bo[o]] \notin {"create", "add"}
               /\ ~Shutdown => pc'[obj_bo[o]] \in {"live", "destroy", "remove"}
               /\ drv = "done" => pc'[obj_bo[o]] \in {"live", "kept"}
    BY <2>2
    DEF EntryInv, DeviceInv, BoQuiet, CreateBegin, CreateFail, AllocEnd,
        AddFails, DestroyBegin, FreeEnd, Kvfree
  <2> QED
    BY <1>1, <2>1, <2>2 DEF EntryInv, Shutdown
<1> QED
  BY <1>2, <1>3, <1>4

\* A thread that adds its entry had none.
LEMMA InvAdd ==
  ASSUME Inv, NEW b \in Bo, AddObject(b)
  PROVE  DeviceInv' /\ WorkInv' /\ EntryInv' /\ MemoryInv'
<1>1. PICK o \in LeakObj \ obj_live : obj_live' = obj_live \cup {o} /\ Link(o, b)
  BY DEF AddObject
<1>2. /\ UNCHANGED <<device, deferred, bo_live, queue, reader>>
      /\ pc[b] = "add" /\ pc' = [pc EXCEPT ![b] = "live"]
  BY DEF AddObject, Goto
<1>3. DeviceInv' /\ WorkInv'
  BY <1>2 DEF Inv, TypeOK, DeviceInv, WorkInv, Shutdown, device, queue, reader
<1>4. linked' = linked \cup {o} /\ obj_bo' = [obj_bo EXCEPT ![o] = b]
  BY <1>1 DEF Link
<1>5. MemoryInv'
  BY <1>1, <1>2, <1>4 DEF Inv, MemoryInv, ObjectsAccounted
<1>6. EntryInv'
  <2>1. o \notin linked
    BY <1>1 DEF Inv, MemoryInv, ObjectsAccounted
  <2>2. \A q \in linked : obj_bo'[q] = obj_bo[q] /\ obj_bo[q] # b
    BY <1>2, <1>4, <2>1 DEF Inv, TypeOK, EntryInv
  <2>3. obj_bo'[o] = b
    BY <1>1, <1>4 DEF Inv, TypeOK
  <2>4. pc'[b] = "live" /\ \A c \in Bo \ {b} : pc'[c] = pc[c]
    BY <1>2 DEF Inv, TypeOK
  <2> QED
    BY <1>2, <1>4, <2>1, <2>2, <2>3, <2>4
    DEF Inv, EntryInv, Shutdown, device
<1> QED
  BY <1>3, <1>5, <1>6

\* A thread that removes its entry has none left.
LEMMA InvRemove ==
  ASSUME Inv, NEW b \in Bo, RemoveObject(b)
  PROVE  DeviceInv' /\ WorkInv' /\ EntryInv' /\ MemoryInv'
<1>1. /\ UNCHANGED <<device, bo_live, queue, reader>>
      /\ pc[b] = "remove" /\ pc' = [pc EXCEPT ![b] = "kvfree"]
  BY DEF RemoveObject, Goto
<1>2. DeviceInv' /\ WorkInv'
  BY <1>1 DEF Inv, TypeOK, DeviceInv, WorkInv, Shutdown, device, queue, reader
<1>3. pc'[b] = "kvfree" /\ \A c \in Bo \ {b} : pc'[c] = pc[c]
  BY <1>1 DEF Inv, TypeOK
<1>4. linked' \subseteq linked /\ obj_bo' = obj_bo
      /\ \A q \in linked' : obj_bo[q] # b
  BY DEF RemoveObject, Entries, Unlink, Inv, EntryInv, list
<1>5. EntryInv'
  BY <1>1, <1>3, <1>4 DEF Inv, EntryInv, Shutdown, device
<1>6. MemoryInv'
  <2>1. CASE UNCHANGED <<list, memory>>
    BY <2>1 DEF Inv, MemoryInv, ObjectsAccounted, list, memory
  <2>2. ASSUME NEW o \in linked, Unlink(o), Dispose(o)
        PROVE  MemoryInv'
    BY <2>2 DEF Inv, MemoryInv, ObjectsAccounted, Unlink, Dispose
  <2> QED
    BY <2>1, <2>2 DEF RemoveObject, Entries
<1> QED
  BY <1>2, <1>5, <1>6

\* The monitor changes none of this but, when its turn is over and the work is
\* not being cancelled, queues the next one.
LEMMA InvMonitor ==
  ASSUME Inv, Monitor
  PROVE  DeviceInv' /\ WorkInv' /\ EntryInv' /\ MemoryInv'
<1>1. UNCHANGED <<device, list, obj_live, deferred, bos, monitor_enabled,
                  canceling>>
  BY DEF Monitor, Walk, WorkStart, WorkCheck, ReadBegin, ReadSkip, Visit,
         Advance, ReadEnd, Rearm, Schedule, memory, queue
<1>2. WorkInv'
  BY <1>1
  DEF Inv, TypeOK, WorkInv, Monitor, Walk, WorkStart, WorkCheck, ReadBegin,
      ReadSkip, Visit, Advance, ReadEnd, Rearm, Schedule, device, queue
<1> QED
  BY <1>1, <1>2
  DEF Inv, DeviceInv, EntryInv, MemoryInv, ObjectsAccounted, Shutdown, device,
      list, bos

LEMMA InvDriver ==
  ASSUME Inv, DeviceFini \/ Fini
  PROVE  DeviceInv' /\ WorkInv' /\ EntryInv' /\ MemoryInv'
<1> USE DEF Inv, TypeOK, DeviceInv, WorkInv, EntryInv, MemoryInv,
            ObjectsAccounted, Shutdown, device, list, memory, bos, queue, reader
<1>1. CASE DeviceFini
  BY <1>1 DEF DeviceFini
<1>2. CASE StatsFini
  BY <1>2 DEF StatsFini
<1>3. CASE CancelBegin
  BY <1>3 DEF CancelBegin
<1>4. CASE CancelEnd
  BY <1>4 DEF CancelEnd
<1>5. CASE ClearList
  BY <1>5 DEF ClearList
<1> QED
  BY <1>1, <1>2, <1>3, <1>4, <1>5 DEF Fini

LEMMA InvRest ==
  ASSUME Inv,
         \/ \E o \in LeakObj : RcuFree(o)
         \/ \E d \in Diag : DiagQuiet(d) \/ DiagSweep(d)
         \/ UNCHANGED vars
  PROVE  DeviceInv' /\ WorkInv' /\ EntryInv' /\ MemoryInv'
<1>1. ASSUME NEW o \in LeakObj, RcuFree(o)
      PROVE  DeviceInv' /\ WorkInv' /\ EntryInv' /\ MemoryInv'
  BY <1>1
  DEF Inv, DeviceInv, WorkInv, EntryInv, MemoryInv, ObjectsAccounted, Shutdown,
      RcuFree, device, list, bos, queue, reader
<1>2. ASSUME NEW d \in Diag, DiagSweep(d)
      PROVE  DeviceInv' /\ WorkInv' /\ EntryInv' /\ MemoryInv'
  BY <1>2
  DEF Inv, DeviceInv, WorkInv, EntryInv, MemoryInv, ObjectsAccounted, Shutdown,
      DiagSweep, Unlink, device, bos, queue, reader
<1>3. ASSUME NEW d \in Diag, DiagQuiet(d)
      PROVE  UNCHANGED <<device, list, memory, bos, queue, reader>>
  BY <1>3
  DEF DiagQuiet, DiagCall, DiagTry, DiagEnter, DiagCheckBusy, DiagCheckLock,
      DiagSweepEnd, DiagReport, DiagUnlock
<1>4. CASE UNCHANGED <<device, list, memory, bos, queue, reader>>
  BY <1>4
  DEF Inv, DeviceInv, WorkInv, EntryInv, MemoryInv, ObjectsAccounted, Shutdown,
      device, list, memory, bos, queue, reader
<1> QED
  BY <1>1, <1>2, <1>3, <1>4 DEF vars

LEMMA InvStep == Inv /\ [Next]_vars => Inv'
<1> SUFFICES ASSUME Inv, [Next]_vars PROVE Inv'
  OBVIOUS
<1>1. TypeOK'
  BY TypeStep DEF Inv
<1>2. DeviceInv' /\ WorkInv' /\ EntryInv' /\ MemoryInv'
  BY NextCases, InvBo, InvAdd, InvRemove, InvMonitor, InvDriver, InvRest
<1> QED
  BY <1>1, <1>2 DEF Inv

LEMMA Invariance == Spec => []Inv
  BY InvInit, InvStep, PTL DEF Spec

-----------------------------------------------------------------------------
\* Until the device shuts down, and again after fini, no entry points to a
\* buffer object whose memory was freed, for any number of threads.
THEOREM ListedLive == Spec => []ListedBoLive
<1>1. Inv => ListedBoLive
  BY DEF Inv, DeviceInv, EntryInv, ListedBoLive
<1> QED
  BY <1>1, Invariance, PTL

\* No buffer object ever has two entries, also when its memory is used again.
THEOREM OneEntry == Spec => []OneEntryPerBo
<1>1. Inv => OneEntryPerBo
  <2> SUFFICES ASSUME Inv, NEW b \in Bo
               PROVE  Cardinality(Entries(b)) <= 1
    BY DEF OneEntryPerBo
  <2>1. CASE Entries(b) = {}
    BY <2>1, FS_EmptySet
  <2>2. ASSUME NEW o \in Entries(b)
        PROVE  Cardinality(Entries(b)) <= 1
    <3>1. Entries(b) = {o}
      BY <2>2 DEF Entries, Inv, EntryInv
    <3>2. Cardinality({o}) = 1
      BY FS_Singleton
    <3> QED
      BY <3>1, <3>2
  <2> QED
    BY <2>1, <2>2
<1> QED
  BY <1>1, Invariance, PTL

\* Leak objects neither leak nor dangle.
THEOREM Accounted == Spec => []ObjectsAccounted
<1>1. Inv => ObjectsAccounted
  BY DEF Inv, MemoryInv
<1> QED
  BY <1>1, Invariance, PTL

\* After the cancellation the monitor is dead: it is not queued, and it does
\* not run, whatever it had read before.
THEOREM WorkStops == Spec => []NoWorkAfterCancel
<1>1. Inv => NoWorkAfterCancel
  BY DEF Inv, WorkInv, NoWorkAfterCancel
<1> QED
  BY <1>1, Invariance, PTL

-----------------------------------------------------------------------------
(* Where the monitor can get to, in the version with call_rcu *)

Members == linked \cup {Head}

\* On the members of the list and its head, next is a permutation.
ListInv ==
  /\ \A n \in Members : next[n] \in Members
  /\ \A n \in Members : \E p \in Members : next[p] = n
  /\ \A m, n \in Members : next[m] = next[n] => m = n

\* The monitor stands on a member or on a node removed during its section, of
\* which none is freed before the section ends and none leads out of these.
WalkInv ==
  /\ ~Reading => gp_wait = {}
  /\ Reading => /\ cursor \in Members \cup gp_wait
                /\ \A n \in gp_wait : next[n] \in Members \cup gp_wait
  /\ mpc = "advance" => cursor # Head

LEMMA ListLink ==
  ASSUME Inv, ListInv, NEW b \in Bo, NEW o \in LeakObj \ obj_live, Link(o, b)
  PROVE  /\ ListInv' /\ Members' = Members \cup {o}
         /\ \A n \in Node \ (Members \cup {o}) : next'[n] = next[n]
<1> DEFINE p == Predecessor(Head)
<1>1. p \in Members /\ next[p] = Head
  BY DEF ListInv, Members, Predecessor
<1>2. o \notin Members /\ Members \subseteq Node /\ o \in Node
  BY NameAssumption DEF Inv, TypeOK, MemoryInv, ObjectsAccounted, Members, Node
<1>3. next' = [next EXCEPT ![p] = o, ![o] = Head] /\ Members' = Members \cup {o}
  BY DEF Link, Members
<1>4. next \in [Node -> Node] /\ p \in Node /\ o # p
  BY <1>1, <1>2 DEF Inv, TypeOK
<1>5. next'[p] = o /\ next'[o] = Head
      /\ \A n \in Node \ {p, o} : next'[n] = next[n]
  BY <1>2, <1>3, <1>4
<1> HIDE DEF p
<1>6. ListInv'
  <2>1. \A n \in Members' : next'[n] \in Members'
    BY <1>1, <1>2, <1>3, <1>5 DEF ListInv, Members
  <2>2. ASSUME NEW n \in Members' PROVE \E q \in Members' : next'[q] = n
    <3>1. CASE n \in {o, Head}
      BY <3>1, <1>1, <1>3, <1>5
    <3>2. CASE n \notin {o, Head}
      <4>1. PICK q \in Members : next[q] = n
        BY <3>2, <1>3 DEF ListInv
      <4>2. q \notin {p, o}
        BY <4>1, <3>2, <1>1, <1>2
      <4> QED BY <4>1, <4>2, <1>2, <1>3, <1>5
    <3> QED BY <3>1, <3>2
  <2>3. \A m, n \in Members' : next'[m] = next'[n] => m = n
    BY <1>1, <1>2, <1>3, <1>5 DEF ListInv, Members
  <2> QED
    BY <2>1, <2>2, <2>3 DEF ListInv
<1> QED
  BY <1>1, <1>3, <1>5, <1>6

LEMMA ListUnlink ==
  ASSUME Inv, ListInv, NEW o \in linked, Unlink(o)
  PROVE  /\ ListInv' /\ Members' = Members \ {o}
         /\ \A n \in Node \ Members' : next'[n] = next[n] \/ n = o
<1> DEFINE p == Predecessor(o)
<1>1. p \in Members /\ next[p] = o
  BY DEF ListInv, Members, Predecessor
<1>2. o # Head /\ o \in Members /\ Members \subseteq Node
  BY NameAssumption DEF Inv, TypeOK, Members, Node
<1>3. next' = [next EXCEPT ![p] = next[o]] /\ Members' = Members \ {o}
  BY <1>2 DEF Unlink, Members
<1>4. next \in [Node -> Node] /\ p \in Node
  BY <1>1, <1>2 DEF Inv, TypeOK
<1>5. next'[p] = next[o] /\ \A n \in Node \ {p} : next'[n] = next[n]
  BY <1>3, <1>4
<1> HIDE DEF p
<1>6. ListInv'
  <2>1. \A n \in Members' : next'[n] \in Members'
    BY <1>1, <1>2, <1>3, <1>5 DEF ListInv
  <2>2. \A n \in Members' : \E q \in Members' : next'[q] = n
    BY <1>1, <1>2, <1>3, <1>5 DEF ListInv
  <2>3. \A m, n \in Members' : next'[m] = next'[n] => m = n
    BY <1>1, <1>2, <1>3, <1>5 DEF ListInv
  <2> QED
    BY <2>1, <2>2, <2>3 DEF ListInv
<1> QED
  BY <1>1, <1>3, <1>5, <1>6

LEMMA WalkInit == Init => ListInv /\ WalkInv
  BY NameAssumption DEF Init, ListInv, WalkInv, Members, Reading, Node

\* Steps of a thread with a buffer object.
LEMMA WalkBo ==
  ASSUME Forms = {"rcu"}, Inv, ListInv, WalkInv, NEW b \in Bo,
         AddObject(b) \/ RemoveObject(b)
  PROVE  ListInv' /\ WalkInv'
<1>1. UNCHANGED reader
  BY DEF AddObject, RemoveObject
<1>2. gp_wait \subseteq deferred /\ linked \cap gp_wait = {}
      /\ linked \subseteq LeakObj /\ deferred \subseteq LeakObj
      /\ gp_wait \subseteq obj_live
  BY DEF Inv, TypeOK, MemoryInv, ObjectsAccounted
<1>3. CASE AddObject(b)
  <2>1. PICK o \in LeakObj \ obj_live : Link(o, b)
    BY <1>3 DEF AddObject
  <2>2. /\ ListInv' /\ Members' = Members \cup {o}
        /\ \A n \in Node \ (Members \cup {o}) : next'[n] = next[n]
    BY <2>1, ListLink
  <2>3. gp_wait' = gp_wait /\ gp_wait \cap (Members \cup {o}) = {}
    BY <1>2, <1>3, <2>1, NameAssumption DEF AddObject, Members
  <2>4. WalkInv'
    BY <1>1, <1>2, <2>2, <2>3 DEF WalkInv, Reading, reader, Node
  <2> QED
    BY <2>2, <2>4
<1>4. CASE RemoveObject(b)
  <2>1. CASE UNCHANGED <<list, memory>>
    BY <1>1, <2>1 DEF ListInv, WalkInv, Members, Reading, reader, list, memory
  <2>2. ASSUME NEW o \in linked, Unlink(o), Dispose(o)
        PROVE  ListInv' /\ WalkInv'
    <3>1. /\ ListInv' /\ Members' = Members \ {o}
          /\ \A n \in Node \ Members' : next'[n] = next[n] \/ n = o
      BY <2>2, ListUnlink
    <3>2. gp_wait' = IF Reading THEN gp_wait \cup {o} ELSE gp_wait
      BY <2>2 DEF Dispose
    <3>3. \A n \in gp_wait : next'[n] = next[n]
      BY <1>2, <2>2, <3>1, NameAssumption DEF Members, Node
    <3>4. Reading => next'[o] \in Members' \cup gp_wait'
      <4>1. next[o] \in Members
        BY <2>2 DEF ListInv, Members
      <4>2. next'[o] \in {next[o], next[next[o]]}
        BY <2>2, <1>2 DEF Unlink, Inv, TypeOK, Node
      <4>3. next'[o] \in Members
        BY <4>1, <4>2 DEF ListInv
      <4> QED
        BY <3>1, <3>2, <4>3
    <3>5. WalkInv'
      BY <1>1, <3>1, <3>2, <3>3, <3>4 DEF WalkInv, Reading, reader
    <3> QED
      BY <3>1, <3>5
  <2> QED
    BY <1>4, <2>1, <2>2 DEF RemoveObject, Entries
<1> QED
  BY <1>3, <1>4

\* Steps of the monitor.
LEMMA WalkMonitor ==
  ASSUME Inv, ListInv, WalkInv, Monitor
  PROVE  ListInv' /\ WalkInv'
<1>1. UNCHANGED <<linked, next>>
  BY DEF Monitor, Walk, WorkStart, WorkCheck, ReadBegin, ReadSkip, Visit,
         Advance, ReadEnd, Rearm, Schedule, list
<1>2. ListInv' /\ Members' = Members
  BY <1>1 DEF ListInv, Members
<1>3. CASE ReadBegin
  BY <1>1, <1>2, <1>3
  DEF ReadBegin, WalkInv, Reading, ListInv, Members, memory
<1>4. CASE Advance
  <2>1. cursor \in Members \cup gp_wait /\ cursor # Head
    BY <1>4 DEF Advance, WalkInv, Reading
  <2>2. cursor \in obj_live
    BY <2>1 DEF Members, Inv, TypeOK, MemoryInv, ObjectsAccounted
  <2>3. cursor' = next[cursor]
    BY <1>4, <2>2 DEF Advance
  <2>4. cursor' \in Members \cup gp_wait
    BY <1>4, <2>1, <2>3 DEF Advance, WalkInv, ListInv, Reading
  <2> QED
    BY <1>1, <1>2, <1>4, <2>4 DEF Advance, WalkInv, Reading, memory
<1>5. CASE Visit
  BY <1>1, <1>2, <1>5 DEF Visit, WalkInv, Reading, memory
<1>6. CASE ReadEnd
  BY <1>2, <1>6 DEF ReadEnd, WalkInv, Reading
<1>7. CASE WorkStart \/ WorkCheck \/ ReadSkip \/ Rearm \/ Schedule
  BY <1>2, <1>7
  DEF WorkStart, WorkCheck, ReadSkip, Rearm, Schedule, WalkInv, Reading, memory
<1> QED
  BY <1>2, <1>3, <1>4, <1>5, <1>6, <1>7 DEF Monitor, Walk

\* Every other step: the list is cleared when the monitor is dead only.
LEMMA WalkRest ==
  ASSUME Diag = {}, Inv, ListInv, WalkInv,
         \/ \E b \in Bo : BoQuiet(b)
         \/ \E o \in LeakObj : RcuFree(o)
         \/ DeviceFini \/ Fini
         \/ UNCHANGED vars
  PROVE  ListInv' /\ WalkInv'
<1>1. CASE UNCHANGED <<linked, next, gp_wait, reader>>
  BY <1>1 DEF ListInv, WalkInv, Members, Reading, reader
<1>2. CASE ClearList
  <2>1. linked' = {} /\ next'[Head] = Head
    BY <1>2 DEF ClearList, Inv, TypeOK, Node
  <2>2. ~Reading /\ UNCHANGED <<gp_wait, reader>>
    BY <1>2 DEF ClearList, Inv, WorkInv, Reading
  <2> QED
    BY <2>1, <2>2 DEF ListInv, WalkInv, Members, Reading, reader
<1> QED
  BY <1>1, <1>2
  DEF BoQuiet, CreateBegin, CreateFail, AllocEnd, AddFails, DestroyBegin,
      FreeEnd, Kvfree, RcuFree, DeviceFini, Fini, StatsFini, CancelBegin,
      CancelEnd, vars, list, memory

\* With call_rcu, and without the diagnostic functions, which free at once,
\* the monitor never stands on a leak object that was freed, however many
\* objects are inserted and removed while it walks.
THEOREM WalkerSafe ==
  ASSUME Forms = {"rcu"}, Diag = {} PROVE Spec => []WalkerSeesLiveObject
<1>1. Inv /\ ListInv /\ WalkInv /\ [Next]_vars => ListInv' /\ WalkInv'
  BY NextCases, WalkBo, WalkMonitor, WalkRest
<1>2. Inv /\ WalkInv => WalkerSeesLiveObject
  BY DEF Inv, TypeOK, MemoryInv, ObjectsAccounted, WalkInv, Members, Reading,
         WalkerSeesLiveObject
<1> QED
  BY <1>1, <1>2, WalkInit, Invariance, PTL DEF Spec

-----------------------------------------------------------------------------
(* The list is whole *)

\* The list and its head are one cycle: whoever follows the next pointers from
\* anywhere comes through all of them.
OneCycle ==
  \A T \in SUBSET Members :
    T # {} /\ (\A n \in T : next[n] \in T) => T = Members

RingInv == ListInv /\ OneCycle

\* A node goes between the last and the head of the cycle.
LEMMA RingLink ==
  ASSUME Inv, RingInv, NEW b \in Bo, NEW o \in LeakObj \ obj_live, Link(o, b)
  PROVE  RingInv'
<1> DEFINE p == Predecessor(Head)
<1>0. ListInv /\ OneCycle
  BY DEF RingInv
<1>1. p \in Members /\ next[p] = Head /\ Head \in Members
  BY <1>0 DEF ListInv, Members, Predecessor
<1>2. o \notin Members /\ Members \subseteq Node /\ o \in Node
  BY NameAssumption DEF Inv, TypeOK, MemoryInv, ObjectsAccounted, Members, Node
<1>3. next' = [next EXCEPT ![p] = o, ![o] = Head] /\ Members' = Members \cup {o}
  BY DEF Link, Members
<1>4. next \in [Node -> Node] /\ p \in Node /\ o # p
  BY <1>1, <1>2 DEF Inv, TypeOK
<1>5. next'[p] = o /\ next'[o] = Head
      /\ \A n \in Node \ {p, o} : next'[n] = next[n]
  BY <1>2, <1>3, <1>4
<1> HIDE DEF p
<1>6. ASSUME NEW T \in SUBSET Members', T # {}, \A n \in T : next'[n] \in T
      PROVE  T = Members'
  <2> DEFINE R == T \ {o}
  <2>1. R \subseteq Members
    BY <1>3
  <2>2. o \in T => Head \in R
    BY <1>1, <1>2, <1>5, <1>6
  <2>3. R # {}
    BY <1>6, <2>2
  <2>4. ASSUME NEW n \in R PROVE next[n] \in R
    <3>1. CASE n = p
      BY <1>1, <1>5, <1>6, <2>2, <3>1
    <3>2. CASE n # p
      <4>1. next'[n] = next[n]
        BY <1>2, <1>5, <2>1, <3>2
      <4>2. next[n] \in Members
        BY <1>0, <2>1 DEF ListInv
      <4> QED BY <1>2, <1>6, <4>1, <4>2
    <3> QED BY <3>1, <3>2
  <2>5. R = Members
    BY <1>0, <2>1, <2>3, <2>4 DEF OneCycle
  <2>6. o \in T
    BY <1>1, <1>5, <1>6, <2>5
  <2> QED BY <1>2, <1>3, <2>5, <2>6
<1>7. ListInv'
  BY <1>0, ListLink
<1> QED
  BY <1>6, <1>7 DEF RingInv, OneCycle

\* A node goes out of the cycle: what remains is one.
LEMMA RingUnlink ==
  ASSUME Inv, RingInv, NEW o \in linked, Unlink(o)
  PROVE  RingInv'
<1> DEFINE p == Predecessor(o)
<1>0. ListInv /\ OneCycle
  BY DEF RingInv
<1>1. p \in Members /\ next[p] = o
  BY <1>0 DEF ListInv, Members, Predecessor
<1>2. o # Head /\ o \in Members /\ Head \in Members /\ Members \subseteq Node
  BY NameAssumption DEF Inv, TypeOK, Members, Node
<1>3. next' = [next EXCEPT ![p] = next[o]] /\ Members' = Members \ {o}
  BY <1>2 DEF Unlink, Members
<1>4. next \in [Node -> Node] /\ p \in Node
  BY <1>1, <1>2 DEF Inv, TypeOK
<1>5. next'[p] = next[o] /\ \A n \in Node \ {p} : next'[n] = next[n]
  BY <1>3, <1>4
<1> HIDE DEF p
<1>6. ASSUME NEW T \in SUBSET Members', T # {}, \A n \in T : next'[n] \in T
      PROVE  T = Members'
  <2>1. T \subseteq Members /\ o \notin T
    BY <1>3
  <2>2. CASE p \in T
    <3> DEFINE R == T \cup {o}
    <3>1. ASSUME NEW n \in R PROVE next[n] \in R
      <4>1. CASE n = o
        BY <1>5, <1>6, <2>2, <4>1
      <4>2. CASE n = p
        BY <1>1, <4>2
      <4>3. CASE n # o /\ n # p
        BY <1>2, <1>5, <1>6, <2>1, <4>3
      <4> QED BY <4>1, <4>2, <4>3
    <3>2. R \in SUBSET Members /\ R # {}
      BY <1>2, <2>1
    <3>3. R \ {o} = T
      BY <2>1
    <3> HIDE DEF R
    <3>4. R = Members
      BY <1>0, <3>1, <3>2 DEF OneCycle
    <3> QED BY <1>3, <3>3, <3>4
  <2>3. CASE p \notin T
    <3>1. \A n \in T : next[n] \in T
      BY <1>2, <1>5, <1>6, <2>1, <2>3
    <3>2. T = Members
      BY <1>0, <1>6, <2>1, <3>1 DEF OneCycle
    <3> QED BY <1>2, <2>1, <3>2
  <2> QED BY <2>2, <2>3
<1>7. ListInv'
  BY <1>0, ListUnlink
<1> QED
  BY <1>6, <1>7 DEF RingInv, OneCycle

\* The empty list is a cycle of one, and every step keeps it whole.
LEMMA RingInit == Init => RingInv
<1>1. Init => ListInv
  BY WalkInit
<1>2. Init => OneCycle
  BY DEF Init, OneCycle, Members
<1> QED BY <1>1, <1>2 DEF RingInv

LEMMA RingStep == Inv /\ RingInv /\ [Next]_vars => RingInv'
<1> SUFFICES ASSUME Inv, RingInv, [Next]_vars PROVE RingInv'
  OBVIOUS
<1>1. CASE UNCHANGED <<linked, next>>
  BY <1>1 DEF RingInv, ListInv, OneCycle, Members
<1>2. ASSUME NEW b \in Bo, AddObject(b) PROVE RingInv'
  BY <1>2, RingLink DEF AddObject
<1>3. ASSUME NEW b \in Bo, RemoveObject(b) PROVE RingInv'
  BY <1>1, <1>3, RingUnlink DEF RemoveObject, Entries, list
<1>4. ASSUME NEW d \in Diag, DiagSweep(d) PROVE RingInv'
  BY <1>4, RingUnlink DEF DiagSweep
<1>5. CASE ClearList
  <2>1. Members' = {Head} /\ next'[Head] = Head
    BY <1>5 DEF ClearList, Members, Inv, TypeOK, Node
  <2>2. ListInv' /\ OneCycle'
    BY <2>1 DEF ListInv, OneCycle
  <2> QED BY <2>2 DEF RingInv
<1>6. CASE \/ \E b \in Bo : BoQuiet(b)
           \/ \E o \in LeakObj : RcuFree(o)
           \/ DeviceFini \/ StatsFini \/ CancelBegin \/ CancelEnd
           \/ \E d \in Diag : DiagQuiet(d)
           \/ UNCHANGED vars
  BY <1>1, <1>6
  DEF BoQuiet, CreateBegin, CreateFail, AllocEnd, AddFails, DestroyBegin,
      FreeEnd, Kvfree, RcuFree, DeviceFini, StatsFini, CancelBegin, CancelEnd,
      DiagQuiet, DiagCall, DiagTry, DiagEnter, DiagCheckBusy, DiagCheckLock,
      DiagSweepEnd, DiagReport, DiagUnlock, vars, list
<1>7. CASE Monitor
  BY <1>1, <1>7
  DEF Monitor, Walk, WorkStart, WorkCheck, ReadBegin, ReadSkip, Visit,
      Advance, ReadEnd, Rearm, Schedule, list
<1> QED
  BY <1>2, <1>3, <1>4, <1>5, <1>6, <1>7, NextCases DEF Fini

\* One more node of a walk, when at holds the earlier ones.
Hop(at, n) == IF n = 0 THEN next[Head]
              ELSE IF at[n - 1] = Head THEN Head ELSE next[at[n - 1]]

\* The recursion of Path defines a function: one exists on 0 .. n for every n.
LEMMA PathDef ==
  \A n \in 0 .. Cardinality(LeakObj) : Path[n] = Hop(Path, n)
<1> DEFINE N == Cardinality(LeakObj)
           Good(at, n) == at = [k \in 0 .. n |-> Hop(at, k)]
           T == {n \in Nat : \E at : Good(at, n)}
<1>0. N \in Nat
  BY WriterAssumption, FS_CardinalityType
<1> HIDE DEF N
<1>1. 0 \in T
  <2> DEFINE g == [k \in 0 .. 0 |-> next[Head]]
  <2>1. Good(g, 0)
    BY DEF Hop
  <2> QED BY <2>1
<1>2. ASSUME NEW n \in Nat, n \in T PROVE n + 1 \in T
  <2>1. PICK at : Good(at, n)
    BY <1>2
  <2> DEFINE g == [k \in 0 .. n + 1 |-> Hop(at, k)]
  <2>2. ASSUME NEW k \in 0 .. n PROVE k \in 0 .. n + 1 /\ g[k] = at[k]
    BY <2>1
  <2>3. ASSUME NEW k \in 0 .. n + 1 PROVE Hop(at, k) = Hop(g, k)
    <3>1. CASE k = 0
      BY <3>1 DEF Hop
    <3>2. CASE k # 0
      <4>1. k - 1 \in 0 .. n
        BY <3>2
      <4>2. g[k - 1] = at[k - 1]
        BY <2>2, <4>1
      <4> HIDE DEF g
      <4> QED BY <3>2, <4>2 DEF Hop
    <3> QED BY <3>1, <3>2
  <2>4. Good(g, n + 1)
    BY <2>3
  <2> HIDE DEF Good
  <2> QED BY <2>4
<1> HIDE DEF T
<1>3. N \in T
  BY <1>0, <1>1, <1>2, NatInd
<1>4. \E at : at = [n \in 0 .. N |-> Hop(at, n)]
  BY <1>3 DEF T
<1> DEFINE P == Path
<1>5. P = CHOOSE at : at = [n \in 0 .. N |-> Hop(at, n)]
  BY DEF Path, Hop, N
<1>6. P = [n \in 0 .. N |-> Hop(P, n)]
  BY <1>4, <1>5
<1> HIDE DEF P
<1>7. \A n \in 0 .. N : P[n] = Hop(P, n)
  BY <1>6
<1> QED BY <1>7 DEF P, N

\* f goes around M, and at holds N + 1 nodes of a walk that stays at h.
Cycle(f, M) ==
  /\ \A n \in M : f[n] \in M
  /\ \A T \in SUBSET M : T # {} /\ (\A n \in T : f[n] \in T) => T = M

Trip(at, f, h, N) ==
  /\ at[0] = f[h]
  /\ \A n \in 1 .. N : at[n] = IF at[n - 1] = h THEN h ELSE f[at[n - 1]]

\* A walk of N more steps around a cycle of at most N + 1 nodes ends at the
\* head and has visited the others.
LEMMA CycleWalk ==
  ASSUME NEW M, IsFiniteSet(M), NEW h \in M, NEW f, Cycle(f, M),
         NEW N \in Nat, Cardinality(M) <= N + 1, NEW at, Trip(at, f, h, N)
  PROVE  at[N] = h /\ {at[n] : n \in 0 .. N} = M
<1> USE DEF Cycle, Trip
<1>1. \A n \in 0 .. N : at[n] \in M
  <2> DEFINE T == {n \in Nat : n \in 0 .. N => at[n] \in M}
  <2>1. 0 \in T
    OBVIOUS
  <2>2. ASSUME NEW n \in Nat, n \in T PROVE n + 1 \in T
    <3>1. CASE n + 1 \in 0 .. N
      <4>1. n \in 0 .. N /\ n + 1 \in 1 .. N /\ (n + 1) - 1 = n
        BY <3>1
      <4>2. at[n] \in M
        BY <2>2, <4>1
      <4>3. at[n + 1] = IF at[n] = h THEN h ELSE f[at[n]]
        BY <4>1
      <4> QED BY <4>2, <4>3
    <3> QED BY <3>1
  <2> HIDE DEF T
  <2>3. Nat \subseteq T
    BY <2>1, <2>2, NatInd
  <2> QED BY <2>3 DEF T
<1>2. ASSUME NEW n \in 0 .. N, n # N
      PROVE  at[n + 1] = IF at[n] = h THEN h ELSE f[at[n]]
  <2>1. n + 1 \in 1 .. N /\ (n + 1) - 1 = n
    BY <1>2
  <2> QED BY <2>1
<1>3. ASSUME NEW i \in 0 .. N, at[i] = h PROVE at[N] = h
  <2> DEFINE T == {n \in Nat : i + n <= N => at[i + n] = h}
  <2>1. 0 \in T
    BY <1>3
  <2>2. ASSUME NEW n \in Nat, n \in T PROVE n + 1 \in T
    <3>1. CASE i + (n + 1) <= N
      <4>1. i + n \in 0 .. N /\ i + n # N /\ (i + n) + 1 = i + (n + 1)
        BY <3>1
      <4>2. at[i + n] = h
        BY <2>2, <4>1
      <4> QED BY <1>2, <4>1, <4>2
    <3> QED BY <3>1
  <2> HIDE DEF T
  <2>3. N - i \in T
    BY <2>1, <2>2, NatInd
  <2>4. i + (N - i) = N
    OBVIOUS
  <2> QED BY <2>3, <2>4 DEF T
<1>4. \E i \in 0 .. N : at[i] = h
  <2> SUFFICES ASSUME \A i \in 0 .. N : at[i] # h PROVE FALSE
    OBVIOUS
  <2> DEFINE g == [n \in 0 .. N |-> at[n]]
             R == M \ {h}
  <2>1. g \in [0 .. N -> R]
    BY <1>1
  <2>2. IsFiniteSet(R) /\ Cardinality(R) = Cardinality(M) - 1
        /\ Cardinality(M) \in Nat
    BY FS_RemoveElement, FS_CardinalityType
  <2>3. IsFiniteSet(0 .. N) /\ Cardinality(0 .. N) = N + 1
    BY FS_Interval
  <2>4. Cardinality(R) < Cardinality(0 .. N)
    BY <2>2, <2>3
  <2> HIDE DEF R
  <2>5. \E x, y \in 0 .. N : x # y /\ g[x] = g[y]
    <3> HIDE DEF g
    <3> QED BY <2>1, <2>2, <2>3, <2>4, FS_PigeonHole
  <2>6. PICK i \in 0 .. N, j \in 0 .. N : i < j /\ at[i] = at[j]
    BY <2>5
  <2> DEFINE T == {at[n] : n \in i .. j}
  <2>7. T \in SUBSET M /\ T # {}
    BY <1>1, <2>6
  <2>8. ASSUME NEW x \in T PROVE f[x] \in T
    <3>1. PICK n \in i .. j : x = at[n]
      OBVIOUS
    <3>2. CASE n # j
      <4>1. n \in 0 .. N /\ n # N /\ n + 1 \in i .. j
        BY <2>6, <3>1, <3>2
      <4>2. at[n + 1] = f[x]
        BY <1>2, <3>1, <4>1
      <4> QED BY <4>1, <4>2
    <3>3. CASE n = j
      <4>1. i # N /\ i + 1 \in i .. j
        BY <2>6
      <4>2. at[i + 1] = f[x]
        BY <1>2, <2>6, <3>1, <3>3, <4>1
      <4> QED BY <4>1, <4>2
    <3> QED BY <3>2, <3>3
  <2>9. h \notin T
    BY <2>6
  <2> HIDE DEF T
  <2> QED BY <2>7, <2>8, <2>9
<1>5. at[N] = h
  BY <1>3, <1>4
<1>6. {at[n] : n \in 0 .. N} = M
  <2> DEFINE T == {at[n] : n \in 0 .. N}
  <2>1. T \in SUBSET M /\ T # {}
    BY <1>1, <1>5
  <2>2. ASSUME NEW x \in T PROVE f[x] \in T
    <3>1. PICK n \in 0 .. N : x = at[n]
      OBVIOUS
    <3>2. CASE x = h
      BY <3>2
    <3>3. CASE x # h
      <4>1. n # N
        BY <1>5, <3>1, <3>3
      <4>2. n + 1 \in 0 .. N /\ at[n + 1] = f[x]
        BY <1>2, <3>1, <3>3, <4>1
      <4> QED BY <4>2
    <3> QED BY <3>2, <3>3
  <2> HIDE DEF T
  <2>3. T = M
    BY <2>1, <2>2
  <2> QED BY <2>3 DEF T
<1> QED BY <1>5, <1>6

\* The list is whole: for any number of buffer objects, after any sequence of
\* insertions, removals and sweeps, a walk from the head comes back to it and
\* visits every entry and nothing else.
THEOREM Whole == Spec => []ListWhole
<1>1. Inv /\ RingInv => ListWhole
  <2> SUFFICES ASSUME Inv, RingInv PROVE ListWhole
    OBVIOUS
  <2> DEFINE N == Cardinality(LeakObj)  M == Members  at == Path
  <2>1. N \in Nat
    BY WriterAssumption, FS_CardinalityType
  <2>2. IsFiniteSet(M) /\ Cardinality(M) <= N + 1
    <3>1. linked \subseteq LeakObj /\ Head \notin linked
      BY NameAssumption DEF Inv, TypeOK
    <3>2. IsFiniteSet(linked) /\ Cardinality(linked) <= N
      BY <3>1, WriterAssumption, FS_Subset
    <3>3. /\ Cardinality(linked) \in Nat
          /\ IsFiniteSet(linked \cup {Head})
          /\ Cardinality(linked \cup {Head}) = Cardinality(linked) + 1
      BY <3>1, <3>2, FS_AddElement, FS_CardinalityType
    <3> QED BY <2>1, <3>2, <3>3 DEF Members
  <2>3. Head \in M /\ Cycle(next, M)
    BY DEF RingInv, ListInv, OneCycle, Members, Cycle
  <2>4. Trip(at, next, Head, N)
    <3> HIDE DEF at
    <3>1. \A n \in 0 .. N : at[n] = Hop(at, n)
      BY PathDef DEF at
    <3> HIDE DEF N
    <3> QED BY <2>1, <3>1 DEF Hop, Trip
  <2>5. M \ {Head} = linked
    BY NameAssumption DEF Members, Inv, TypeOK
  <2> HIDE DEF N, M, at
  <2>6. at[N] = Head /\ {at[n] : n \in 0 .. N} = M
    BY ONLY <2>1, <2>2, <2>3, <2>4, CycleWalk
  <2> QED BY <2>5, <2>6 DEF ListWhole, N, at
<1> QED
  BY <1>1, RingInit, RingStep, Invariance, PTL DEF Spec

-----------------------------------------------------------------------------
(* What a walk gets to see, in the version with call_rcu *)

\* Leak objects the walker may come to: on the list, or removed under it.
Ahead == linked \cup gp_wait

\* m was inserted after n and before the successor of n.
Within(s, n, m) == s[n] < s[m] /\ s[m] < s[next[n]]

\* s numbers the leak objects in the order of their insertion, the head comes
\* last: every next pointer leads upwards, from a member to the next member.
Order(s) ==
  /\ \A o \in LeakObj : s[o] < s[Head]
  /\ \A n \in Ahead : s[n] < s[next[n]]
  /\ \A m, n \in Ahead : s[m] = s[n] => m = n
  /\ \A m \in linked : s[next[Head]] <= s[m]
  /\ \A m, n \in linked : ~Within(s, n, m)

\* Where a walk is: it has seen nothing that lies ahead, and everything
\* behind that has stayed; no removed leak object leads past one that has.
Progress(s) ==
  /\ ~Reading => seen = {}
  /\ Reading =>
       /\ stayed \subseteq linked /\ seen \subseteq Ahead
       /\ \A n \in gp_wait, m \in stayed : ~Within(s, n, m)
       /\ \A m \in stayed : s[m] < s[cursor] => m \in seen
       /\ \A m \in seen : s[m] < s[cursor] \/ (mpc = "advance" /\ m = cursor)
       /\ mpc = "advance" => cursor \in seen

SeenInv == \E s \in [Node -> Nat] : Order(s) /\ Progress(s)

\* What Inv says of the sets of leak objects.
LEMMA Objects ==
  ASSUME Inv
  PROVE  /\ linked \subseteq LeakObj /\ gp_wait \subseteq LeakObj
         /\ linked \cap gp_wait = {} /\ Ahead \subseteq obj_live
         /\ next \in [Node -> Node] /\ cursor \in Node
         /\ LeakObj \subseteq Node /\ Head \in Node /\ Head \notin LeakObj
  BY NameAssumption DEF Inv, TypeOK, MemoryInv, ObjectsAccounted, Ahead, Node

\* An insertion: behind the last one, p.
LEMMA Inserted ==
  ASSUME Inv, ListInv, NEW b \in Bo, NEW o \in LeakObj \ obj_live, Link(o, b)
  PROVE  \E p \in Members : /\ next[p] = Head /\ next'[p] = o /\ next'[o] = Head
                            /\ \A n \in Node \ {p, o} : next'[n] = next[n]
                            /\ linked' = linked \cup {o} /\ p # o
<1> DEFINE p == Predecessor(Head)
<1>1. p \in Members /\ next[p] = Head
  BY DEF ListInv, Members, Predecessor
<1>2. o \notin Members /\ Members \subseteq Node /\ o \in Node
  BY Objects DEF Members, Ahead, Node
<1>3. next' = [next EXCEPT ![p] = o, ![o] = Head] /\ linked' = linked \cup {o}
  BY DEF Link
<1>4. next \in [Node -> Node] /\ p \in Node /\ o # p
  BY <1>1, <1>2, Objects
<1> HIDE DEF p
<1>5. next'[p] = o /\ next'[o] = Head
      /\ \A n \in Node \ {p, o} : next'[n] = next[n]
  BY <1>2, <1>3, <1>4
<1> QED BY <1>1, <1>3, <1>4, <1>5

\* A removal: from behind p.
LEMMA Removed ==
  ASSUME Inv, ListInv, NEW o \in linked, Unlink(o)
  PROVE  \E p \in Members : /\ next[p] = o /\ next'[p] = next[o]
                            /\ \A n \in Node \ {p} : next'[n] = next[n]
                            /\ linked' = linked \ {o}
<1> DEFINE p == Predecessor(o)
<1>1. p \in Members /\ next[p] = o
  BY DEF ListInv, Members, Predecessor
<1>2. next' = [next EXCEPT ![p] = next[o]] /\ linked' = linked \ {o}
  BY DEF Unlink
<1>3. next \in [Node -> Node] /\ p \in Node
  BY <1>1, Objects DEF Members, Node
<1> HIDE DEF p
<1>4. next'[p] = next[o] /\ \A n \in Node \ {p} : next'[n] = next[n]
  BY <1>2, <1>3
<1> QED BY <1>1, <1>2, <1>4

\* The numbering after an insertion: the new one gets the number of the head.
Append(s, o) == [s EXCEPT ![o] = s[Head], ![Head] = s[Head] + 1]

LEMMA AppendValues ==
  ASSUME NEW s \in [Node -> Nat], NEW o \in LeakObj
  PROVE  /\ Append(s, o) \in [Node -> Nat]
         /\ Append(s, o)[o] = s[Head] /\ Append(s, o)[Head] = s[Head] + 1
         /\ \A n \in Node \ {o, Head} : Append(s, o)[n] = s[n]
  BY NameAssumption DEF Append, Node

LEMMA InsertOrder ==
  ASSUME Inv, ListInv, WalkInv, NEW s \in [Node -> Nat], Order(s), Progress(s),
         NEW b \in Bo, NEW o \in LeakObj \ obj_live, Link(o, b), Record,
         UNCHANGED <<gp_wait, reader>>
  PROVE  Order(Append(s, o))' /\ Progress(Append(s, o))'
<1> DEFINE t == Append(s, o)
<1>1. /\ t[o] = s[Head] /\ t[Head] = s[Head] + 1
      /\ \A n \in Node \ {o, Head} : t[n] = s[n]
      /\ t \in [Node -> Nat]
  BY AppendValues
<1> HIDE DEF t
<1>2. PICK p \in Members : /\ next[p] = Head /\ next'[p] = o /\ next'[o] = Head
                           /\ \A n \in Node \ {p, o} : next'[n] = next[n]
                           /\ linked' = linked \cup {o} /\ p # o
  BY Inserted
<1>3. /\ linked \subseteq LeakObj /\ gp_wait \subseteq LeakObj
      /\ linked \cap gp_wait = {} /\ o \notin Ahead /\ o \in LeakObj
      /\ LeakObj \subseteq Node /\ Head \in Node /\ Head \notin LeakObj
      /\ next \in [Node -> Node] /\ cursor \in Node
  BY Objects
<1>4. Ahead' = Ahead \cup {o} /\ gp_wait' = gp_wait
  BY <1>2 DEF Ahead
<1>5. \A n \in Node : s[n] \in Nat /\ t[n] \in Nat
  BY <1>1
<1>6. \A n \in LeakObj : s[n] < s[Head]
  BY DEF Order
<1>7. \A n \in LeakObj \ {o} : t[n] = s[n] /\ t[n] < t[o]
  BY <1>1, <1>3, <1>6
<1>8. \A n \in linked \ {p} : next'[n] = next[n] /\ next[n] \in linked
  <2>1. \A n \in linked \ {p} : next[n] \in Members /\ next[n] # Head
    BY <1>2 DEF ListInv, Members
  <2> QED BY <1>2, <1>3, <2>1 DEF Members, Ahead
<1>9. \A n \in gp_wait : next'[n] = next[n] /\ next[n] # o
  <2>1. gp_wait # {} => Reading
    BY DEF WalkInv
  <2>2. \A n \in gp_wait : next[n] \in Members \cup gp_wait
    BY <2>1 DEF WalkInv
  <2>3. \A n \in gp_wait : n # p /\ n # o
    BY <1>2, <1>3 DEF Members, Ahead
  <2> QED BY <1>2, <1>3, <2>2, <2>3 DEF Members, Ahead
<1>10. \A n \in gp_wait :
         t[next'[n]] = IF next[n] = Head THEN s[Head] + 1 ELSE s[next[n]]
  BY <1>1, <1>3, <1>9
<1>11. Order(t)'
  <2>1. \A n \in LeakObj : t[n] < t[Head]
    BY <1>1, <1>3, <1>5, <1>6, <1>7
  <2>2. ASSUME NEW n \in Ahead' PROVE t[n] < t[next'[n]]
    <3>1. CASE n = o
      BY <1>1, <1>2, <1>3, <1>5, <3>1
    <3>2. CASE n = p
      BY <1>2, <1>3, <1>4, <1>7, <2>2, <3>2 DEF Ahead
    <3>3. CASE n \in linked \ {p}
      <4>1. s[n] < s[next[n]]
        BY <3>3 DEF Order, Ahead
      <4> QED BY <1>3, <1>7, <1>8, <3>3, <4>1 DEF Ahead
    <3>4. CASE n \in gp_wait
      <4>1. s[n] < s[next[n]]
        BY <3>4 DEF Order, Ahead
      <4> QED BY <1>3, <1>5, <1>7, <1>10, <3>4, <4>1, <1>9 DEF Ahead
    <3> QED BY <1>4, <3>1, <3>2, <3>3, <3>4 DEF Ahead
  <2>3. \A m, n \in Ahead' : t[m] = t[n] => m = n
    <3>1. \A m, n \in Ahead : s[m] = s[n] => m = n
      BY DEF Order
    <3>2. \A n \in Ahead : n \in LeakObj \ {o}
      BY <1>3 DEF Ahead
    <3>3. \A n \in Ahead : t[n] = s[n] /\ t[n] < t[o] /\ t[n] \in Nat
      BY <1>3, <1>5, <1>7, <3>2
    <3> QED BY <1>1, <1>3, <1>4, <1>5, <3>1, <3>3
  <2>4. \A m \in linked' : t[next'[Head]] <= t[m]
    <3>1. CASE p = Head
      <4>1. linked = {}
        <5>1. ASSUME NEW m \in linked PROVE FALSE
          <6>1. s[next[Head]] <= s[m]
            BY <5>1 DEF Order
          <6> QED BY <1>2, <1>3, <1>5, <1>6, <3>1, <5>1, <6>1
        <5> QED BY <5>1
      <4> QED BY <1>2, <1>3, <1>5, <3>1, <4>1
    <3>2. CASE p # Head
      <4>1. next'[Head] = next[Head] /\ next[Head] \in linked
        <5>1. next[Head] # Head /\ next[Head] \in Members
          BY <1>2, <3>2 DEF ListInv, Members
        <5> QED BY <1>2, <1>3, <3>2, <5>1 DEF Members
      <4>2. \A m \in linked : s[next[Head]] <= s[m]
        BY DEF Order
      <4>3. \A m \in linked : /\ t[m] = s[m] /\ t[m] < t[o]
                              /\ t[m] \in Nat /\ t[o] \in Nat
        BY <1>3, <1>5, <1>7 DEF Ahead
      <4>4. t[next[Head]] = s[next[Head]] /\ t[next[Head]] < t[o]
        BY <4>1, <4>3
      <4> QED BY <1>2, <4>1, <4>2, <4>3, <4>4
    <3> QED BY <3>1, <3>2
  <2>5. ASSUME NEW m \in linked', NEW n \in linked', t[n] < t[m],
               t[m] < t[next'[n]]
        PROVE  FALSE
    <3>1. CASE n = o
      \* the number of a leak object is at most that of o
      BY <1>1, <1>2, <1>3, <1>5, <1>7, <2>5, <3>1
    <3>2. CASE n # o /\ m = o
      <4>1. CASE n = p
        BY <1>2, <1>3, <1>5, <2>5, <3>2, <4>1
      <4>2. CASE n # p
        <5>1. next'[n] = next[n] /\ next[n] \in LeakObj \ {o}
          BY <1>2, <1>3, <1>8, <3>2, <4>2 DEF Ahead
        <5> QED BY <1>3, <1>5, <1>7, <2>5, <3>2, <5>1
      <4> QED BY <4>1, <4>2
    <3>3. CASE n # o /\ m # o
      <4>1. n \in linked /\ m \in linked /\ ~Within(s, n, m)
        BY <1>2, <3>3 DEF Order
      <4>2. t[n] = s[n] /\ t[m] = s[m]
        BY <1>3, <1>7, <3>3, <4>1
      <4>3. CASE n = p
        <5>1. s[m] < s[next[n]]
          BY <1>2, <1>3, <1>6, <4>1, <4>3
        <5> QED BY <2>5, <4>1, <4>2, <5>1 DEF Within
      <4>4. CASE n # p
        <5>1. next'[n] = next[n] /\ t[next[n]] = s[next[n]]
          BY <1>3, <1>7, <1>8, <4>1, <4>4 DEF Ahead
        <5> QED BY <2>5, <4>1, <4>2, <5>1 DEF Within
      <4> QED BY <4>3, <4>4
    <3> QED BY <3>1, <3>2, <3>3
  <2>6. \A m, n \in linked' : ~(t[n] < t[m] /\ t[m] < t[next'[n]])
    BY <2>5
  <2> QED BY <2>1, <2>2, <2>3, <2>4, <2>6 DEF Order, Within
<1>12. Progress(t)'
  <2> SUFFICES ASSUME Reading'
               PROVE  /\ stayed' \subseteq linked' /\ seen' \subseteq Ahead'
                      /\ \A n \in gp_wait', m \in stayed' :
                           ~(t[n] < t[m] /\ t[m] < t[next'[n]])
                      /\ \A m \in stayed' : t[m] < t[cursor'] => m \in seen'
                      /\ \A m \in seen' : t[m] < t[cursor']
                                          \/ (mpc' = "advance" /\ m = cursor')
                      /\ mpc' = "advance" => cursor' \in seen'
    BY DEF Progress, Within, Record
  <2>1. Reading /\ mpc' = mpc /\ cursor' = cursor
    BY DEF Reading, reader
  <2>2. /\ stayed \subseteq linked /\ seen \subseteq Ahead
        /\ \A n \in gp_wait, m \in stayed : ~Within(s, n, m)
        /\ \A m \in stayed : s[m] < s[cursor] => m \in seen
        /\ \A m \in seen : s[m] < s[cursor] \/ (mpc = "advance" /\ m = cursor)
        /\ mpc = "advance" => cursor \in seen
    BY <2>1 DEF Progress
  <2>3. seen' = seen /\ stayed' = stayed
    BY <1>2, <2>1, <2>2 DEF Record
  <2>4. /\ cursor # o /\ cursor \in Node
        /\ \A m \in Ahead : /\ t[m] = s[m]
                            /\ t[m] < t[cursor] <=> s[m] < s[cursor]
    <3>1. cursor \in Members \cup gp_wait
      BY <2>1 DEF WalkInv
    <3>2. cursor # o /\ cursor \in Node
      BY <1>3, <3>1 DEF Members, Ahead
    <3>3. \A m \in Ahead : t[m] = s[m] /\ s[m] < s[Head] /\ t[m] < t[Head]
      <4>1. \A m \in Ahead : m \in LeakObj \ {o}
        BY <1>3 DEF Ahead
      <4> QED BY <1>1, <1>3, <1>5, <1>6, <1>7, <4>1
    <3>4. CASE cursor = Head
      BY <3>2, <3>3, <3>4
    <3>5. CASE cursor # Head
      BY <1>1, <3>2, <3>3, <3>5
    <3> QED BY <3>4, <3>5
  <2>5. ASSUME NEW n \in gp_wait, NEW m \in stayed, t[n] < t[m],
               t[m] < t[next'[n]]
        PROVE  FALSE
    <3>1. n \in Ahead /\ m \in Ahead /\ m \in LeakObj
      BY <1>3, <2>2 DEF Ahead
    <3>2. t[n] = s[n] /\ t[m] = s[m] /\ s[m] < s[Head]
      BY <1>6, <2>4, <3>1
    <3>3. s[m] < s[next[n]]
      BY <1>10, <2>5, <3>2
    <3> QED BY <2>2, <2>5, <3>2, <3>3 DEF Within
  <2>6. \A m \in stayed : m \in Ahead
    BY <2>2 DEF Ahead
  <2> QED BY <1>2, <1>4, <2>1, <2>2, <2>3, <2>4, <2>5, <2>6
<1> QED BY <1>11, <1>12 DEF t

\* A removal leaves the numbers as they are.
LEMMA RemoveOrder ==
  ASSUME Forms = {"rcu"}, Inv, ListInv, WalkInv, NEW s \in [Node -> Nat], Order(s),
         Progress(s), NEW o \in linked, Unlink(o), Dispose(o), Record,
         UNCHANGED reader
  PROVE  Order(s)' /\ Progress(s)'
<1>1. PICK p \in Members : /\ next[p] = o /\ next'[p] = next[o]
                           /\ \A n \in Node \ {p} : next'[n] = next[n]
                           /\ linked' = linked \ {o}
  BY Removed
<1>2. gp_wait' = IF Reading THEN gp_wait \cup {o} ELSE gp_wait
  BY DEF Dispose
<1>3. /\ linked \subseteq LeakObj /\ gp_wait \subseteq LeakObj
      /\ linked \cap gp_wait = {} /\ o \in LeakObj /\ o \in Ahead
      /\ LeakObj \subseteq Node /\ Head \in Node /\ Head \notin LeakObj
      /\ next \in [Node -> Node] /\ cursor \in Node
  BY Objects DEF Ahead
<1>4. \A n \in Node : s[n] \in Nat
  OBVIOUS
<1>5. /\ s[o] < s[next[o]] /\ next[o] \in Node
      /\ p \in linked => s[p] < s[o]
      /\ \A m \in linked \ {o} : s[m] # s[o]
      /\ \A m \in linked : ~Within(s, o, m) /\ (p \in linked => ~Within(s, p, m))
  BY <1>1, <1>3 DEF Order, Ahead
<1>6. Ahead' \subseteq Ahead /\ linked' \subseteq linked
  BY <1>1, <1>2 DEF Ahead
<1>7. \A m \in linked \ {o} : s[o] < s[m] => s[next[o]] <= s[m]
  BY <1>3, <1>4, <1>5 DEF Within
<1>8. Order(s)'
  <2>1. \A n \in LeakObj : s[n] < s[Head]
    BY DEF Order
  <2>2. \A n \in Ahead' : s[n] < s[next'[n]]
    <3>1. ASSUME NEW n \in Ahead' PROVE s[n] < s[next'[n]]
      <4>1. n \in Ahead /\ n \in Node /\ s[n] < s[next[n]]
        BY <1>3, <1>6 DEF Order, Ahead
      <4>2. CASE n = p
        BY <1>1, <1>3, <1>4, <1>5, <4>1, <4>2
      <4>3. CASE n # p
        BY <1>1, <4>1, <4>3
      <4> QED BY <4>2, <4>3
    <3> QED BY <3>1
  <2>3. \A m, n \in Ahead' : s[m] = s[n] => m = n
    BY <1>6 DEF Order
  <2>4. \A m \in linked' : s[next'[Head]] <= s[m]
    <3>1. \A m \in linked : s[next[Head]] <= s[m]
      BY DEF Order
    <3>2. CASE p = Head
      BY <1>1, <1>3, <1>4, <1>5, <1>7, <3>1, <3>2
    <3>3. CASE p # Head
      BY <1>1, <1>3, <3>1, <3>3
    <3> QED BY <3>2, <3>3
  <2>5. \A m, n \in linked' : ~(s[n] < s[m] /\ s[m] < s[next'[n]])
    <3>1. ASSUME NEW m \in linked', NEW n \in linked'
          PROVE  ~(s[n] < s[m] /\ s[m] < s[next'[n]])
      <4>1. n \in linked /\ m \in linked \ {o} /\ ~Within(s, n, m)
        BY <1>1 DEF Order
      <4>2. CASE n = p
        BY <1>1, <1>3, <1>4, <1>5, <1>7, <4>1, <4>2 DEF Within
      <4>3. CASE n # p
        BY <1>1, <1>3, <4>1, <4>3 DEF Within
      <4> QED BY <4>2, <4>3
    <3> QED BY <3>1
  <2> QED BY <2>1, <2>2, <2>3, <2>4, <2>5 DEF Order, Within
<1>9. Progress(s)'
  <2>0. (Reading' <=> Reading) /\ mpc' = mpc /\ cursor' = cursor
    BY DEF Reading, reader
  <2> SUFFICES ASSUME Reading
               PROVE  /\ stayed' \subseteq linked' /\ seen' \subseteq Ahead'
                      /\ \A n \in gp_wait', m \in stayed' :
                           ~(s[n] < s[m] /\ s[m] < s[next'[n]])
                      /\ \A m \in stayed' : s[m] < s[cursor] => m \in seen'
                      /\ \A m \in seen' : s[m] < s[cursor]
                                          \/ (mpc = "advance" /\ m = cursor)
                      /\ mpc = "advance" => cursor \in seen'
    BY <2>0 DEF Progress, Within, Record
  <2>1. /\ stayed \subseteq linked /\ seen \subseteq Ahead
        /\ \A n \in gp_wait, m \in stayed : ~Within(s, n, m)
        /\ \A m \in stayed : s[m] < s[cursor] => m \in seen
        /\ \A m \in seen : s[m] < s[cursor] \/ (mpc = "advance" /\ m = cursor)
        /\ mpc = "advance" => cursor \in seen
    BY DEF Progress
  <2>2. seen' = seen /\ stayed' = stayed \cap linked'
    BY <2>0, <2>1 DEF Record
  <2>3. Ahead' = Ahead /\ gp_wait' = gp_wait \cup {o}
    BY <1>1, <1>2, <1>3 DEF Ahead
  <2>4. \A n \in gp_wait' : n \in LeakObj /\ next'[n] = next[n]
    <3>1. p # o
      BY <1>1, <1>3, <1>4, <1>5
    <3>2. \A n \in gp_wait : n # p
      BY <1>3 DEF Members
    <3> QED BY <1>1, <1>3, <2>3, <3>1, <3>2
  <2>5. \A n \in gp_wait', m \in stayed' : ~(s[n] < s[m] /\ s[m] < s[next'[n]])
    BY <1>5, <2>1, <2>2, <2>3, <2>4 DEF Within
  <2> QED BY <2>1, <2>2, <2>3, <2>5
<1> QED BY <1>8, <1>9

\* The list stays, and the walk where it is.
LEMMA StayOrder ==
  ASSUME NEW s \in [Node -> Nat], Order(s), Progress(s), Record,
         UNCHANGED <<linked, next, gp_wait, reader>>
  PROVE  Order(s)' /\ Progress(s)'
<1>1. Order(s)'
  BY DEF Order, Ahead, Within
<1>2. (Reading' <=> Reading) /\ mpc' = mpc /\ cursor' = cursor
  BY DEF Reading, reader
<1>3. CASE ~Reading
  BY <1>1, <1>2, <1>3 DEF Progress, Record
<1>4. CASE Reading
  <2>1. seen' = seen /\ stayed' = stayed
    BY <1>2, <1>4 DEF Record, Progress
  <2> QED BY <1>1, <1>2, <1>4, <2>1 DEF Progress, Ahead, Within
<1> QED BY <1>1, <1>3, <1>4

\* The walker looks at one leak object after the other.
LEMMA MonitorOrder ==
  ASSUME Inv, ListInv, WalkInv, NEW s \in [Node -> Nat], Order(s), Progress(s),
         Monitor, Record
  PROVE  Order(s)' /\ Progress(s)'
<1>1. UNCHANGED <<linked, next>> /\ gp_wait' \in {gp_wait, {}}
  BY DEF Monitor, Walk, WorkStart, WorkCheck, ReadBegin, ReadSkip, Visit,
         Advance, ReadEnd, Rearm, Schedule, list, memory
<1>2. Ahead' \subseteq Ahead
  BY <1>1 DEF Ahead
<1>3. Order(s)'
  BY <1>1, <1>2 DEF Order, Within
<1>4. /\ linked \subseteq LeakObj /\ gp_wait \subseteq LeakObj
      /\ linked \cap gp_wait = {} /\ Ahead \subseteq obj_live
      /\ LeakObj \subseteq Node /\ Head \in Node /\ Head \notin LeakObj
      /\ next \in [Node -> Node] /\ cursor \in Node
      /\ \A n \in Node : s[n] \in Nat
  BY Objects
<1>5. Reading => /\ stayed \subseteq linked /\ seen \subseteq Ahead
                 /\ \A n \in gp_wait, m \in stayed : ~Within(s, n, m)
                 /\ \A m \in stayed : s[m] < s[cursor] => m \in seen
                 /\ \A m \in seen : \/ s[m] < s[cursor]
                                    \/ mpc = "advance" /\ m = cursor
                 /\ mpc = "advance" => cursor \in seen
  BY DEF Progress
<1>6. CASE ReadBegin
  <2>1. /\ ~Reading /\ Reading' /\ mpc' = "walk" /\ cursor' = next[Head]
        /\ gp_wait' = gp_wait
    BY <1>6 DEF ReadBegin, Reading, memory
  <2>2. gp_wait = {} /\ seen' = {} /\ stayed' = linked'
    BY <2>1 DEF WalkInv, Progress, Record
  <2>3. \A m \in linked : ~(s[m] < s[next[Head]])
    <3>1. \A m \in linked : s[next[Head]] <= s[m]
      BY DEF Order
    <3> QED BY <1>4, <3>1
  <2> QED BY <1>1, <1>3, <2>1, <2>2, <2>3 DEF Progress
<1>7. CASE Visit
  <2>1. /\ Reading /\ Reading' /\ mpc = "walk" /\ mpc' = "advance"
        /\ cursor' = cursor /\ gp_wait' = gp_wait /\ cursor # Head
    BY <1>7 DEF Visit, Reading, memory
  <2>2. seen' = seen \cup {cursor} /\ stayed' = stayed /\ Ahead' = Ahead
    BY <1>1, <1>5, <2>1 DEF Record, Ahead
  <2>3. cursor \in Ahead
    BY <2>1 DEF WalkInv, Members, Ahead
  <2> QED BY <1>1, <1>3, <1>5, <2>1, <2>2, <2>3 DEF Progress, Within
<1>8. CASE Advance
  <2>1. /\ Reading /\ Reading' /\ mpc = "advance" /\ mpc' = "walk"
        /\ gp_wait' = gp_wait
    BY <1>8 DEF Advance, Reading, memory
  <2>2. cursor \in Ahead /\ cursor \in obj_live
    BY <1>4, <2>1 DEF WalkInv, Members, Ahead
  <2>3. cursor' = next[cursor]
    BY <1>8, <2>2 DEF Advance
  <2>4. seen' = seen /\ stayed' = stayed /\ Ahead' = Ahead /\ cursor \in seen
    BY <1>1, <1>5, <2>1 DEF Record, Ahead
  <2>5. /\ s[cursor] < s[next[cursor]]
        /\ s[next[cursor]] \in Nat /\ s[cursor] \in Nat
    BY <1>4, <2>2 DEF Order, Ahead
  <2>6. ASSUME NEW m \in stayed, s[m] < s[next[cursor]] PROVE m \in seen
    <3>1. m \in linked /\ m \in Ahead /\ m \in LeakObj /\ s[m] \in Nat
      BY <1>4, <1>5, <2>1 DEF Ahead
    <3>2. ~Within(s, cursor, m)
      <4>1. CASE cursor \in linked
        BY <3>1, <4>1 DEF Order
      <4>2. CASE cursor \in gp_wait
        BY <1>5, <2>1, <4>2
      <4> QED BY <2>2, <4>1, <4>2 DEF Ahead
    <3>3. CASE s[m] = s[cursor]
      <4>1. m = cursor
        BY <2>2, <3>1, <3>3 DEF Order
      <4> QED BY <2>4, <4>1
    <3>4. CASE s[m] < s[cursor]
      BY <1>5, <2>1, <3>4
    <3> QED BY <2>5, <2>6, <3>1, <3>2, <3>3, <3>4 DEF Within
  <2>7. ASSUME NEW m \in seen PROVE s[m] < s[next[cursor]]
    <3>1. s[m] \in Nat
      BY <1>4, <1>5, <2>1 DEF Ahead
    <3> QED BY <1>5, <2>1, <2>5, <3>1
  <2> QED BY <1>1, <1>3, <1>5, <2>1, <2>3, <2>4, <2>6, <2>7
          DEF Progress, Within
<1>9. CASE ReadEnd
  <2>1. ~Reading'
    BY <1>9 DEF ReadEnd, Reading
  <2> QED BY <1>3, <2>1 DEF Progress, Record
<1>10. CASE WorkStart \/ WorkCheck \/ ReadSkip \/ Rearm \/ Schedule
  <2>1. ~Reading'
    BY <1>10 DEF WorkStart, WorkCheck, ReadSkip, Rearm, Schedule, Reading
  <2> QED BY <1>3, <2>1 DEF Progress, Record
<1> QED BY <1>6, <1>7, <1>8, <1>9, <1>10 DEF Monitor, Walk

\* fini clears the list when the monitor is dead.
LEMMA ClearOrder ==
  ASSUME Inv, WalkInv, NEW s \in [Node -> Nat], Order(s), Progress(s), ClearList,
         Record
  PROVE  Order(s)' /\ Progress(s)'
<1>1. ~Reading /\ ~Reading'
  BY DEF ClearList, Inv, WorkInv, Reading, reader
<1>2. Ahead' = {} /\ linked' = {}
  BY <1>1 DEF ClearList, WalkInv, Ahead
<1>3. Order(s)'
  BY <1>2 DEF Order
<1> QED BY <1>1, <1>3 DEF Progress, Record

LEMMA SeenInit == RecordInit => SeenInv
<1> SUFFICES ASSUME RecordInit PROVE SeenInv
  OBVIOUS
<1> DEFINE s == [n \in Node |-> IF n = Head THEN 1 ELSE 0]
<1>1. s \in [Node -> Nat]
  OBVIOUS
<1>2. Order(s)
  BY NameAssumption DEF RecordInit, Init, Order, Ahead, Node
<1>3. Progress(s)
  BY DEF RecordInit, Init, Progress, Reading
<1> QED BY <1>1, <1>2, <1>3 DEF SeenInv

LEMMA SeenStep ==
  ASSUME Forms = {"rcu"}, Diag = {}
  PROVE  Inv /\ ListInv /\ WalkInv /\ SeenInv /\ [RecordNext]_walkVars => SeenInv'
<1> SUFFICES ASSUME Inv, ListInv, WalkInv, SeenInv, [RecordNext]_walkVars
             PROVE  SeenInv'
  OBVIOUS
<1>1. PICK s \in [Node -> Nat] : Order(s) /\ Progress(s)
  BY DEF SeenInv
<1>2. CASE UNCHANGED walkVars
  <2>1. UNCHANGED <<linked, next, gp_wait, reader, seen, stayed>>
    BY <1>2 DEF walkVars, vars, list, memory
  <2>2. Order(s)' /\ Progress(s)'
    BY <1>1, <2>1 DEF Order, Progress, Ahead, Within, Reading, reader
  <2> QED BY <1>1, <2>2 DEF SeenInv
<1>3. ASSUME Next, Record PROVE SeenInv'
  <2>1. ASSUME NEW b \in Bo, AddObject(b) PROVE SeenInv'
    <3>1. PICK o \in LeakObj \ obj_live : Link(o, b)
      BY <2>1 DEF AddObject
    <3>2. UNCHANGED <<gp_wait, reader>>
      BY <2>1 DEF AddObject
    <3>3. Order(Append(s, o))' /\ Progress(Append(s, o))'
      BY <1>1, <1>3, <3>1, <3>2, InsertOrder
    <3>4. Append(s, o) \in [Node -> Nat]
      BY <1>1, AppendValues
    <3> QED BY <3>3, <3>4 DEF SeenInv
  <2>2. CASE UNCHANGED <<linked, next, gp_wait, reader>>
    <3>1. Order(s)' /\ Progress(s)'
      BY <1>1, <1>3, <2>2, StayOrder
    <3> QED BY <1>1, <3>1 DEF SeenInv
  <2>3. ASSUME NEW b \in Bo, RemoveObject(b) PROVE SeenInv'
    <3>1. UNCHANGED reader
      BY <2>3 DEF RemoveObject
    <3>2. CASE UNCHANGED <<list, memory>>
      BY <2>2, <3>1, <3>2 DEF list, memory
    <3>3. ASSUME NEW o \in linked, Unlink(o), Dispose(o) PROVE SeenInv'
      <4>1. Order(s)' /\ Progress(s)'
        BY <1>1, <1>3, <3>1, <3>3, RemoveOrder
      <4> QED BY <1>1, <4>1 DEF SeenInv
    <3> QED BY <2>3, <3>2, <3>3 DEF RemoveObject, Entries
  <2>4. CASE Monitor
    <3>1. Order(s)' /\ Progress(s)'
      BY <1>1, <1>3, <2>4, MonitorOrder
    <3> QED BY <1>1, <3>1 DEF SeenInv
  <2>5. CASE ClearList
    <3>1. Order(s)' /\ Progress(s)'
      BY <1>1, <1>3, <2>5, ClearOrder
    <3> QED BY <1>1, <3>1 DEF SeenInv
  <2>6. CASE \/ \E b \in Bo : BoQuiet(b)
             \/ \E o \in LeakObj : RcuFree(o)
             \/ DeviceFini \/ StatsFini \/ CancelBegin \/ CancelEnd
    <3>1. UNCHANGED <<linked, next, gp_wait, reader>>
      BY <2>6 DEF BoQuiet, CreateBegin, CreateFail, AllocEnd, AddFails,
                  DestroyBegin, FreeEnd, Kvfree, RcuFree, DeviceFini, StatsFini,
                  CancelBegin, CancelEnd, list, memory
    <3> QED BY <2>2, <3>1
  <2> QED BY <1>3, <2>1, <2>3, <2>4, <2>5, <2>6, NextCases DEF Fini
<1> QED BY <1>2, <1>3 DEF RecordNext

LEMMA SeenInvariance ==
  ASSUME Forms = {"rcu"}, Diag = {}
  PROVE  RecordSpec => [](Inv /\ WalkInv /\ SeenInv)
<1>1. RecordInit => Init
  BY DEF RecordInit
<1>2. [RecordNext]_walkVars => [Next]_vars
  BY DEF RecordNext, walkVars
<1>3. Inv /\ ListInv /\ WalkInv /\ [Next]_vars => ListInv' /\ WalkInv'
  BY NextCases, WalkBo, WalkMonitor, WalkRest
<1>4. Inv /\ ListInv /\ WalkInv /\ SeenInv /\ [RecordNext]_walkVars => SeenInv'
  BY SeenStep
<1> QED
  BY <1>1, <1>2, <1>3, <1>4, SeenInit, WalkInit, InvInit, InvStep, PTL
  DEF RecordSpec

\* With call_rcu, and without the diagnostic functions, a turn of the monitor
\* looks once at every leak object that is on the list all the time, and at none
\* twice, whatever is inserted, removed and used again under it.
THEOREM CountsRight ==
  ASSUME Forms = {"rcu"}, Diag = {} PROVE RecordSpec => []CountsEachOnce
<1>1. Inv /\ WalkInv /\ SeenInv => CountsEachOnce
  <2> SUFFICES ASSUME Inv, SeenInv, mpc = "walk" PROVE CountsEachOnce
    BY DEF CountsEachOnce
  <2>1. PICK s \in [Node -> Nat] : Order(s) /\ Progress(s)
    BY DEF SeenInv
  <2>2. Reading /\ cursor \in Node /\ linked \subseteq LeakObj
    BY Objects DEF Reading
  <2>3. CASE cursor = Head
    <3>1. \A m \in stayed : s[m] < s[cursor]
      BY <2>1, <2>2, <2>3 DEF Order, Progress
    <3> QED BY <2>1, <2>2, <2>3, <3>1 DEF Progress, CountsEachOnce
  <2>4. CASE cursor # Head
    <3>1. ~(s[cursor] < s[cursor])
      BY <2>2
    <3>2. \A m \in seen : s[m] < s[cursor]
      BY <2>1, <2>2 DEF Progress
    <3> QED BY <2>4, <3>1, <3>2 DEF CountsEachOnce
  <2> QED BY <2>3, <2>4
<1> QED BY <1>1, SeenInvariance, PTL
=============================================================================
