-------------------------------- MODULE GemBo ---------------------------------
(***************************************************************************)
(* Buffer objects as clients and the kernel use them (pddgpu_gem.c,        *)
(* pddgpu_object.c): the structure, its two reference counts (GEM's and    *)
(* TTM's), its reservation, the memory behind it and the handle a client   *)
(* names it by.                                                            *)
(*                                                                         *)
(* Each element of Task is a thread that makes one call after another.     *)
(* Each element of Bo is one structure: kvzalloc hands out a new one every *)
(* time.  A client destroys a handle at most once and uses none it has     *)
(* closed.  The parts of TTM and GEM the calls rely on are modelled as     *)
(* they are in the kernel: the last put of a buffer object that is         *)
(* reserved leaves the rest to a worker, which waits for the reservation.  *)
(***************************************************************************)
EXTENDS Integers, FiniteSetsExt

CONSTANTS
  Bo, Task,
  None,                \* nobody
  Request,             \* the requests: records of domains and a size
  VramSize, GttSize    \* pages

ASSUME RequestAssumption ==
  /\ Request \subseteq [domain : SUBSET {"VRAM", "GTT", "CPU"}, size : Nat \ {0}]
  /\ VramSize \in Nat /\ GttSize \in Nat
ASSUME TaskAssumption == IsFiniteSet(Task) /\ None \notin Task \cup Bo

VARIABLES
  device_state,
  st,        \* of a structure: not yet allocated, in use, left to the worker, the
             \* worker waiting for it, freed
  gem, ttm,  \* its reference counts
  resv,      \* who holds its reservation
  mem,       \* the type of memory it has
  req,       \* what was asked for
  handle,    \* the handle: none, open, closed
  asked,     \* gem_destroy_ioctl was called for it
  pc, obj    \* the call of a thread and the structure it works on

bo   == <<st, gem, ttm, resv, mem, req, handle, asked>>
vars == <<device_state, bo, pc, obj>>

-----------------------------------------------------------------------------
MemType == {"VRAM", "TT", "SYSTEM"}

Shutdown == device_state = "SHUTDOWN"

\* The domain flag that asks for a memory type.
Domain(m) == CASE m = "VRAM" -> "VRAM" [] m = "TT" -> "GTT" [] m = "SYSTEM" -> "CPU"

\* pddgpu_bo_placement_from_domain: the places that are tried.
Places(d) == {m \in MemType : Domain(m) \in d \/ (m = "SYSTEM" /\ d = {})}

\* pddgpu_bo_validate_size: compared with the one manager that has to do.
SizeFits(r) ==
  IF "GTT" \in r.domain THEN r.size < GttSize
  ELSE "VRAM" \in r.domain => r.size < VramSize

Used(m) == MapThenSumSet(LAMBDA b : req[b].size, {b \in Bo : mem[b] = m})

\* A manager has room for a request; system memory may be short as well.
Room(m, s) == CASE m = "VRAM" -> Used(m) + s <= VramSize
                [] m = "TT"   -> Used(m) + s <= GttSize
                [] OTHER      -> TRUE

Live(b)    == st[b] \in {"used", "dying", "waiting"}
At(t, l)   == pc[t] = l
Goto(t, l) == pc' = [pc EXCEPT ![t] = l]

\* pddgpu_bo_destroy, the destroy callback: nothing is freed while the device
\* shuts down.
Destroyed(b) == IF Shutdown THEN st[b] ELSE "freed"

\* ttm_bo_put.  The last one frees memory and structure if it can take the
\* reservation; otherwise it leaves one reference to the worker.
TtmPut(b) ==
  IF ttm[b] > 1
  THEN ttm' = [ttm EXCEPT ![b] = @ - 1] /\ UNCHANGED <<st, mem>>
  ELSE IF st[b] = "used" /\ resv[b] # None
  THEN st' = [st EXCEPT ![b] = "dying"] /\ UNCHANGED <<ttm, mem>>
  ELSE /\ ttm' = [ttm EXCEPT ![b] = 0]
       /\ mem' = [mem EXCEPT ![b] = IF st[b] = "used" THEN "none" ELSE @]
       /\ st' = [st EXCEPT ![b] = Destroyed(b)]

-----------------------------------------------------------------------------
Init ==
  /\ device_state = "READY"
  /\ st = [b \in Bo |-> "new"]
  /\ gem = [b \in Bo |-> 0] /\ ttm = [b \in Bo |-> 0]
  /\ resv = [b \in Bo |-> None]
  /\ mem = [b \in Bo |-> "none"]
  /\ req \in [Bo -> Request]
  /\ handle = [b \in Bo |-> "none"] /\ asked = [b \in Bo |-> FALSE]
  /\ pc = [t \in Task |-> "idle"]
  /\ obj = [t \in Task |-> None]

-----------------------------------------------------------------------------
(* pddgpu_bo_create, for pddgpu_gem_create_ioctl and for create_kernel *)

\* The checks, kvzalloc, and ttm_bo_init_reserved up to its validation.
BoCreate(t, b) ==
  /\ At(t, "idle") /\ st[b] = "new" /\ ~Shutdown /\ SizeFits(req[b])
  /\ st' = [st EXCEPT ![b] = "used"]
  /\ gem' = [gem EXCEPT ![b] = 1] /\ ttm' = [ttm EXCEPT ![b] = 1]
  /\ resv' = [resv EXCEPT ![b] = t]
  /\ obj' = [obj EXCEPT ![t] = b]
  /\ \E l \in {"validate", "validate_kernel"} : Goto(t, l)
  /\ UNCHANGED <<device_state, mem, req, handle, asked>>

\* bo_create returns without ttm_bo_unreserve.
AfterCreate_fault(t, b) == resv' = [resv EXCEPT ![b] = None]
AfterCreate(t, b) == UNCHANGED resv

\* A manager gives memory; those asked before it had none in one piece.
Placed(t, b) ==
  /\ pc[t] \in {"validate", "validate_kernel"} /\ obj[t] = b
  /\ \E m \in Places(req[b].domain) :
       Room(m, req[b].size) /\ mem' = [mem EXCEPT ![b] = m]
  /\ AfterCreate(t, b)
  /\ Goto(t, IF At(t, "validate") THEN "handle" ELSE "reserve")
  /\ UNCHANGED <<device_state, st, gem, ttm, req, handle, asked, obj>>

\* No manager does: ttm_bo_init_reserved gives the reservation and the reference
\* up, which runs the destroy callback (create_kernel passes none: then TTM frees
\* the structure itself), and bo_create goes on with its error path.
NotPlaced(t, b) ==
  /\ pc[t] \in {"validate", "validate_kernel"} /\ obj[t] = b
  /\ st' = [st EXCEPT ![b] = IF At(t, "validate") THEN Destroyed(b) ELSE "freed"]
  /\ ttm' = [ttm EXCEPT ![b] = 0]
  /\ resv' = [resv EXCEPT ![b] = None]
  /\ Goto(t, "kvfree")
  /\ UNCHANGED <<device_state, gem, mem, req, handle, asked, obj>>

\* ... which is to free the structure.
CreateFails(t, b) ==
  /\ At(t, "kvfree") /\ obj[t] = b
  /\ st' = [st EXCEPT ![b] = "freed"]
  /\ Goto(t, "idle") /\ obj' = [obj EXCEPT ![t] = None]
  /\ UNCHANGED <<device_state, gem, ttm, resv, mem, req, handle, asked>>

\* create_kernel then reserves the buffer object, and bo_pin reserves it again.
\* Whoever finds it reserved waits; as it is bo_create that left it reserved, by
\* this thread, nothing after that (alloc_gart, kmap, free_kernel) is reached.
Reserve(t, b) ==
  /\ pc[t] \in {"reserve", "pin"} /\ obj[t] = b
  /\ IF resv[b] = None
     THEN resv' = [resv EXCEPT ![b] = t] /\ Goto(t, "pin")
     ELSE Goto(t, "blocked") /\ UNCHANGED resv
  /\ UNCHANGED <<device_state, st, gem, ttm, mem, req, handle, asked, obj>>

-----------------------------------------------------------------------------
(* The client calls *)

\* drm_gem_handle_create takes a GEM reference and calls gem_open_object.
gem_open_object_fault(b) == UNCHANGED ttm
gem_open_object(b) == ttm' = [ttm EXCEPT ![b] = @ + 1]

HandleCreate(t, b) ==
  /\ At(t, "handle") /\ obj[t] = b
  /\ gem' = [gem EXCEPT ![b] = @ + 1]
  /\ gem_open_object(b)
  /\ handle' = [handle EXCEPT ![b] = "open"]
  /\ Goto(t, "idle") /\ obj' = [obj EXCEPT ![t] = None]
  /\ UNCHANGED <<device_state, st, resv, mem, req, asked>>

HandleFails(t, b) ==
  /\ At(t, "handle") /\ obj[t] = b
  /\ TtmPut(b)
  /\ Goto(t, "idle") /\ obj' = [obj EXCEPT ![t] = None]
  /\ UNCHANGED <<device_state, gem, resv, req, handle, asked>>

\* drm_gem_object_lookup, for map and info or for destroy, takes a reference.
gem_object_lookup_fault(b) == UNCHANGED gem
gem_object_lookup(b) == gem' = [gem EXCEPT ![b] = @ + 1]

Lookup(t, b) ==
  /\ At(t, "idle")
  /\ handle[b] = "open"
  /\ \/ Goto(t, "use") /\ UNCHANGED asked
     \/ ~asked[b] /\ Goto(t, "destroy") /\ asked' = [asked EXCEPT ![b] = TRUE]
  /\ gem_object_lookup(b)
  /\ obj' = [obj EXCEPT ![t] = b]
  /\ UNCHANGED <<device_state, st, ttm, resv, mem, req, handle>>

\* gem_map_ioctl or gem_info_ioctl: ttm_bo_kmap or the fields; good or bad, the
\* reference goes afterwards.
Use(t, b) ==
  /\ At(t, "use") /\ obj[t] = b
  /\ Goto(t, "put")
  /\ UNCHANGED <<device_state, bo, obj>>

\* gem_destroy_ioctl: pddgpu_bo_unref; the handle stays.
GemDestroy(t, b) ==
  /\ At(t, "destroy") /\ obj[t] = b
  /\ TtmPut(b)
  /\ Goto(t, "put")
  /\ UNCHANGED <<device_state, gem, resv, req, handle, asked, obj>>

\* GEM_CLOSE or the end of the file: the handle goes, gem_close_object is called.
GemClose(t, b) ==
  /\ At(t, "idle") /\ handle[b] = "open"
  /\ handle' = [handle EXCEPT ![b] = "closed"]
  /\ TtmPut(b)
  /\ Goto(t, "put") /\ obj' = [obj EXCEPT ![t] = b]
  /\ UNCHANGED <<device_state, gem, resv, req, asked>>

\* drm_gem_object_put; the last one calls gem_free_object, which is another
\* pddgpu_bo_unref.
GemPut(t, b) ==
  /\ At(t, "put") /\ obj[t] = b
  /\ gem' = [gem EXCEPT ![b] = @ - 1]
  /\ IF gem[b] = 1 THEN TtmPut(b) ELSE UNCHANGED <<ttm, st, mem>>
  /\ Goto(t, "idle") /\ obj' = [obj EXCEPT ![t] = None]
  /\ UNCHANGED <<device_state, resv, req, handle, asked>>

-----------------------------------------------------------------------------
\* ttm_bo_delayed_delete: the worker waits for the reservation.
WorkerRuns(b) ==
  /\ st[b] = "dying" \/ (st[b] = "waiting" /\ resv[b] = None)
  /\ IF resv[b] # None
     THEN st' = [st EXCEPT ![b] = "waiting"] /\ UNCHANGED <<ttm, mem>>
     ELSE /\ mem' = [mem EXCEPT ![b] = "none"]
          /\ ttm' = [ttm EXCEPT ![b] = @ - 1]
          /\ st' = [st EXCEPT ![b] = IF ttm[b] = 1 THEN Destroyed(b) ELSE @]
  /\ UNCHANGED <<device_state, gem, resv, req, handle, asked, pc, obj>>

Shut ==
  /\ ~Shutdown
  /\ device_state' = "SHUTDOWN"
  /\ UNCHANGED <<bo, pc, obj>>

Step(t) == \E b \in Bo :
  \/ Placed(t, b) \/ NotPlaced(t, b) \/ CreateFails(t, b) \/ Reserve(t, b)
  \/ HandleCreate(t, b) \/ HandleFails(t, b)
  \/ Use(t, b) \/ GemDestroy(t, b) \/ GemPut(t, b)

Call(t) == \E b \in Bo : BoCreate(t, b) \/ Lookup(t, b) \/ GemClose(t, b)

Next ==
  \/ \E t \in Task : Step(t) \/ Call(t)
  \/ \E b \in Bo : WorkerRuns(b)
  \/ Shut

Spec == Init /\ [][Next]_vars

\* A thread finishes the call it is in, and the worker runs when it can.
FairSpec ==
  /\ Spec
  /\ \A t \in Task : WF_vars(Step(t))
  /\ \A b \in Bo : WF_vars(WorkerRuns(b))

-----------------------------------------------------------------------------
\* Every variable has its type.
TypeOK ==
  /\ device_state \in {"READY", "SHUTDOWN"}
  /\ st \in [Bo -> {"new", "used", "dying", "waiting", "freed"}]
  /\ gem \in [Bo -> Nat] /\ ttm \in [Bo -> Nat]
  /\ resv \in [Bo -> Task \cup {None}]
  /\ mem \in [Bo -> MemType \cup {"none"}]
  /\ req \in [Bo -> Request]
  /\ handle \in [Bo -> {"none", "open", "closed"}]
  /\ asked \in [Bo -> BOOLEAN]
  /\ pc \in [Task -> {"idle", "validate", "validate_kernel", "kvfree", "handle",
                     "reserve", "pin", "blocked", "use", "destroy", "put"}]
  /\ obj \in [Task -> Bo \cup {None}]

In(b, L) == {t \in Task : obj[t] = b /\ pc[t] \in L}
One(p)   == IF p THEN 1 ELSE 0

\* The two reference counts are what the calls in flight account for: GEM's is
\* the creator's, the handle's and one per call that looked the object up; TTM's
\* is the creator's, until the destroy ioctl has dropped it, and the handle's.
RefsAddUp ==
  \A b \in Bo : st[b] = "used" /\ In(b, {"kvfree"}) = {} =>
    /\ gem[b] = 1 + One(handle[b] = "open") + Cardinality(In(b, {"use", "destroy", "put"}))
    /\ ttm[b] = One(~asked[b] \/ In(b, {"destroy"}) # {}) + One(handle[b] = "open")

\* Whatever an open handle names is allocated, and so is whatever a call works
\* on: lookups, closes and the destroy ioctl interleaved.  The one exception is
\* bo_create after a failure (line 150), when the destroy callback has run.
NobodyUsesFreed ==
  /\ \A b \in Bo : handle[b] = "open" => Live(b)
  /\ \A t \in Task : pc[t] \notin {"idle", "kvfree"} => Live(obj[t])

\* What docs/ARCHITECTURE.md:153 draws: a buffer object a client has destroyed
\* and closed ends with its memory given back.
DestroyedIsReturned ==
  \A b \in Bo : (asked[b] /\ handle[b] = "closed") ~> (mem[b] = "none")
=============================================================================
