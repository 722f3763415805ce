---------------------------- MODULE GttMgrProofs ----------------------------
(***************************************************************************)
(* Theorems about GttMgr, for every set of buffer objects, request sizes,  *)
(* limits and GTT size.                                                    *)
(*                                                                         *)
(* First the types.  Then one inductive invariant, Inv: where a caller is  *)
(* tells whether it has a range (RangeInv), and where the driver is tells  *)
(* whether the range allocator works and the manager is ready (LiveInv).   *)
(* RangesLentOnce is a conjunct of it, and UntouchedAfterTakedown follows  *)
(* from LiveInv, because callers change the allocator when ready only.     *)
(*                                                                         *)
(* The counters come last.  A step of a caller moves the usage, and, until *)
(* the device shuts down, the statistics, by what it does to the set of    *)
(* resources that count (UsageDelta, StatsDelta), and SumMove says that    *)
(* the sum over that set moves by the same.  An admission looks at the     *)
(* usage, which is the sum over a larger set than the one that must fit.   *)
(***************************************************************************)
EXTENDS GttMgr, SumTheorems

\* The variables that hold the requests have their types after a return.
LEMMA ReturnType ==
  ASSUME TypeOK, NEW b \in Bo, Return(b)
  PROVE  /\ pc' \in [Bo -> {"idle", "checked", "usage", "insert", "count",
                            "held", "freecheck", "remove", "freed", "fini",
                            "lost"}]
         /\ size' \in [Bo -> Size \cup {0}] /\ lpfn' \in [Bo -> Lpfn \cup {0}]
         /\ temporary' \in [Bo -> BOOLEAN]
         /\ retry_count' \in [Bo -> 0 .. RETRY_COUNT - 1]
<1>1. 0 \in 0 .. RETRY_COUNT - 1
  BY RetryAssumption
<1>2. /\ size \in [Bo -> Size \cup {0}] /\ lpfn \in [Bo -> Lpfn \cup {0}]
      /\ temporary \in [Bo -> BOOLEAN]
      /\ retry_count \in [Bo -> 0 .. RETRY_COUNT - 1]
  BY DEF TypeOK
<1>3. pc' \in [Bo -> {"idle", "checked", "usage", "insert", "count", "held",
                      "freecheck", "remove", "freed", "fini", "lost"}]
  BY DEF TypeOK, Return, Goto
<1>4. temporary' \in [Bo -> BOOLEAN]
  BY <1>2 DEF Return
<1>5. size' \in [Bo -> Size \cup {0}] /\ lpfn' \in [Bo -> Lpfn \cup {0}]
  BY <1>2 DEF Return
<1> QED
  BY <1>1, <1>2, <1>3, <1>4, <1>5 DEF Return

\* The driver counts the calls of init, and of fini, from zero.
DriverShape == /\ drv = "bound" => calls = 0
               /\ drv \in {"fini", "takedown"} => calls < MGR_CALLS

LEMMA TypeInit == Init => TypeOK
<1>1. 0 \in 0 .. RETRY_COUNT - 1 /\ 0 \in 0 .. MGR_CALLS
  BY RetryAssumption DEF MGR_CALLS
<1> SUFFICES ASSUME Init PROVE TypeOK
  OBVIOUS
<1>2. /\ device_state \in {"INITIALIZING", "READY", "SHUTDOWN"}
      /\ drv \in {"probe", "bound", "fini", "takedown", "gone"}
      /\ calls \in 0 .. MGR_CALLS
      /\ state \subseteq {"INITIALIZING", "READY", "SHUTDOWN", "ERROR"}
      /\ usage \in Int /\ stats_used \in Int
  BY <1>1 DEF Init
<1>3. mm_live \in BOOLEAN /\ mm_used \subseteq Page
  BY DEF Init
<1>4. pc \in [Bo -> {"idle", "checked", "usage", "insert", "count", "held",
                     "freecheck", "remove", "freed", "fini", "lost"}]
  BY DEF Init
<1>5. size \in [Bo -> Size \cup {0}] /\ lpfn \in [Bo -> Lpfn \cup {0}]
  BY DEF Init
<1>6. temporary \in [Bo -> BOOLEAN]
  BY DEF Init
<1>7. retry_count \in [Bo -> 0 .. RETRY_COUNT - 1]
  BY <1>1 DEF Init
<1>8. range \in [Bo -> SUBSET Page]
  BY DEF Init
<1>9. rpc \in [Recoverer -> {"idle", "init", "ready"}]
  BY DEF Init
<1> QED
  BY <1>2, <1>3, <1>4, <1>5, <1>6, <1>7, <1>8, <1>9 DEF TypeOK

\* Type correctness: the variables of the manager, of its callers and of the
\* driver keep their types in every behaviour, with recovery and without.
THEOREM TypeCorrect == Spec => []TypeOK
<1>1. Init => TypeOK /\ DriverShape
  BY TypeInit DEF Init, DriverShape
<1>2. TypeOK /\ DriverShape /\ [Next]_vars => TypeOK' /\ DriverShape'
  <2> SUFFICES ASSUME TypeOK, DriverShape, [Next]_vars
               PROVE  TypeOK' /\ DriverShape'
    OBVIOUS
  <2>0. Size \subseteq Nat /\ Size \subseteq Int /\ Lpfn \subseteq Nat
    BY SizeAssumption
  <2>1. ASSUME NEW b \in Bo, AllocBegin(b)
        PROVE  TypeOK'
    BY <2>0, <2>1 DEF TypeOK, AllocBegin, outside, deviceVars, Goto
  <2>2. ASSUME NEW b \in Bo, AllocReject(b)
        PROVE  TypeOK'
    BY <2>2, ReturnType DEF TypeOK, AllocReject, outside, deviceVars
  <2>3. ASSUME NEW b \in Bo, AllocPrepare(b)
        PROVE  TypeOK'
    BY <2>0, <2>3 DEF TypeOK, AllocPrepare, outside, deviceVars, request, Goto
  <2>4. ASSUME NEW b \in Bo,
               AllocOverLimit(b) \/ AllocNotReady(b) \/ FreeFini(b)
        PROVE  TypeOK'
    <3>1. Return(b) /\ usage' = usage - size[b]
          /\ UNCHANGED <<outside, mm_used, range, stats_used>>
      BY <2>4 DEF AllocOverLimit, AllocNotReady, FreeFini, ErrFree
    <3>2. usage' \in Int
      BY <2>0, <3>1 DEF TypeOK
    <3> QED
      BY <3>1, <3>2, ReturnType DEF TypeOK, outside, deviceVars
  <2>5. ASSUME NEW b \in Bo, AllocAdmit(b)
        PROVE  TypeOK'
    BY <2>5 DEF TypeOK, AllocAdmit, outside, deviceVars, request, Goto
  <2>6. ASSUME NEW b \in Bo, AllocInsert(b)
        PROVE  TypeOK'
    <3>1. PICK hole \in Holes(b) : /\ range' = [range EXCEPT ![b] = hole]
                                   /\ mm_used' = mm_used \cup hole
      BY <2>6 DEF AllocInsert
    <3>2. hole \subseteq Page
      BY <3>1 DEF Holes
    <3> QED
      BY <2>6, <3>1, <3>2
      DEF TypeOK, AllocInsert, outside, deviceVars, request, Goto
  <2>7. ASSUME NEW b \in Bo, AllocRetry(b)
        PROVE  TypeOK'
    <3>1. CASE retry_count[b] + 1 < RETRY_COUNT
      <4>1. /\ retry_count' = [retry_count EXCEPT ![b] = @ + 1]
            /\ UNCHANGED <<outside, mm_used, usage, pc, request, range,
                           stats_used>>
        BY <2>7, <3>1 DEF AllocRetry
      <4>2. retry_count \in [Bo -> 0 .. RETRY_COUNT - 1]
        BY DEF TypeOK
      <4>3. retry_count[b] + 1 \in 0 .. RETRY_COUNT - 1
        BY <3>1, <4>2, RetryAssumption
      <4>4. retry_count' \in [Bo -> 0 .. RETRY_COUNT - 1]
        BY <4>1, <4>2, <4>3
      <4> QED
        BY <4>1, <4>4 DEF TypeOK, outside, deviceVars, request
    <3>2. CASE ~(retry_count[b] + 1 < RETRY_COUNT)
      <4>1. Return(b) /\ usage' = usage - size[b]
            /\ UNCHANGED <<outside, mm_used, range, stats_used>>
        BY <2>7, <3>2 DEF AllocRetry, ErrFree
      <4>2. usage' \in Int
        BY <2>0, <4>1 DEF TypeOK
      <4> QED
        BY <4>1, <4>2, ReturnType DEF TypeOK, outside, deviceVars
    <3> QED
      BY <3>1, <3>2
  <2>8. ASSUME NEW b \in Bo, AllocCount(b) \/ FreeCount(b)
        PROVE  TypeOK'
    <3>0. /\ size \in [Bo -> Size \cup {0}] /\ stats_used \in Int
          /\ retry_count \in [Bo -> 0 .. RETRY_COUNT - 1]
      BY DEF TypeOK
    <3>1. size[b] \in Size \cup {0}
      BY <3>0
    <3>2. stats_used' \in {stats_used, stats_used + size[b],
                           stats_used - size[b]}
      BY <2>8 DEF AllocCount, FreeCount, UpdateUsage
    <3>3. stats_used' \in Int
      <4>1. \A s \in Size \cup {0} : s \in Int
        BY <2>0
      <4>2. size[b] \in Int
        BY <3>1, <4>1
      <4> QED
        BY <3>0, <3>2, <4>2
    <3>4. retry_count' \in [Bo -> 0 .. RETRY_COUNT - 1]
      <4>1. \/ retry_count' = retry_count
            \/ retry_count' = [retry_count EXCEPT ![b] = 0]
        BY <2>8 DEF AllocCount, FreeCount
      <4>2. 0 \in 0 .. RETRY_COUNT - 1
        BY RetryAssumption
      <4> QED
        BY <3>0, <4>1, <4>2
    <3>5. pc' \in [Bo -> {"idle", "checked", "usage", "insert", "count", "held",
                          "freecheck", "remove", "freed", "fini", "lost"}]
      BY <2>8 DEF TypeOK, AllocCount, FreeCount, Goto
    <3>6. UNCHANGED <<outside, mm_used, usage, request, range>>
      BY <2>8 DEF AllocCount, FreeCount
    <3> QED
      BY <3>3, <3>4, <3>5, <3>6 DEF TypeOK, outside, deviceVars, request
  <2>9. ASSUME NEW b \in Bo, FreeBegin(b) \/ FreeCheck(b)
        PROVE  TypeOK'
    BY <2>9
    DEF TypeOK, FreeBegin, FreeCheck, outside, deviceVars, request, Goto
  <2>10. ASSUME NEW b \in Bo, FreeRemove(b)
         PROVE  TypeOK'
    BY <2>10 DEF TypeOK, FreeRemove, outside, deviceVars, request, Goto
  <2>11. ASSUME Driver
         PROVE  TypeOK'
    <3>1. /\ UNCHANGED <<callers, rpc>> /\ mm_used' \in {mm_used, {}}
          /\ mm_live' \in {mm_live, TRUE, FALSE}
          /\ device_state' \in {device_state, "READY", "SHUTDOWN"}
          /\ drv' \in {drv, "bound", "fini", "takedown", "gone"}
          /\ state' \in {state, {"READY"}, {"INITIALIZING", "ERROR"},
                          {"SHUTDOWN"}}
      BY <2>11 DEF Driver, Fini, MgrInit, MgrInitFail, ProbeDone, DeviceFini,
                   FiniMark, FiniTakedown, mm
    <3>2. calls' \in 0 .. MGR_CALLS
      BY <2>11 DEF TypeOK, DriverShape, MGR_CALLS, Driver, Fini, MgrInit,
                   MgrInitFail, ProbeDone, DeviceFini, FiniMark, FiniTakedown
    <3> QED
      BY <3>1, <3>2, ZenonT(40) DEF TypeOK, callers, request
  <2>12. ASSUME NEW r \in Recoverer, Recover(r)
         PROVE  TypeOK'
    BY <2>12
    DEF TypeOK, Recover, RecoverBegin, RecoverMm, RecoverReady, callers,
        request, deviceVars, mm
  <2>13. ASSUME UNCHANGED vars
         PROVE  TypeOK'
    BY <2>13 DEF TypeOK, vars, outside, deviceVars, callers, request
  <2>14. DriverShape'
    <3>1. CASE UNCHANGED deviceVars
      BY <3>1 DEF DriverShape, deviceVars
    <3>2. CASE Driver
      BY <3>2 DEF TypeOK, DriverShape, MGR_CALLS, Driver, Fini, MgrInit,
                  MgrInitFail, ProbeDone, DeviceFini, FiniMark, FiniTakedown
    <3>3. ASSUME NEW b \in Bo, Caller(b)
          PROVE  UNCHANGED deviceVars
      BY <3>3 DEF Caller, AllocStep, FreeStep, AllocBegin, AllocReject,
                  AllocPrepare, AllocOverLimit, AllocAdmit, AllocNotReady,
                  AllocInsert, AllocRetry, AllocCount, FreeBegin, FreeCheck,
                  FreeRemove, FreeCount, FreeFini, outside
    <3>4. ASSUME NEW r \in Recoverer, Recover(r)
          PROVE  UNCHANGED deviceVars
      BY <3>4 DEF Recover, RecoverBegin, RecoverMm, RecoverReady
    <3> QED
      BY <3>1, <3>2, <3>3, <3>4 DEF Next, vars, outside
  <2> QED
    BY <2>1, <2>2, <2>3, <2>4, <2>5, <2>6, <2>7, <2>8, <2>9, <2>10, <2>11,
       <2>12, <2>13, <2>14
    DEF Next, Caller, AllocStep, FreeStep
<1> QED
  BY <1>1, <1>2, PTL DEF Spec

-----------------------------------------------------------------------------
\* Who has no range: everybody before its insertion and after its removal,
\* and everybody while the device is set up.
RangeInv ==
  \A b \in Bo :
    /\ pc[b] \in {"idle", "checked", "usage", "insert", "freed", "fini"}
       => range[b] = {}
    /\ drv = "probe" => pc[b] = "idle"

\* Whether the range allocator works and the manager is ready, by the place
\* of the driver.
LiveInv ==
  Recoverer = {} =>
    /\ drv = "takedown" => "SHUTDOWN" \in state
    /\ drv = "probe" /\ calls > 0 => mm_live
    /\ drv # "probe" /\ ~mm_live => ~is_ready

Inv == TypeOK /\ RangeInv /\ LiveInv /\ RangesLentOnce

LEMMA InvInit == Init => Inv
<1> SUFFICES ASSUME Init PROVE Inv
  OBVIOUS
<1>1. TypeOK
  BY TypeInit
<1>2. RangeInv /\ LiveInv
  BY DEF Init, RangeInv, LiveInv
<1>3. RangesLentOnce
  BY DEF Init, RangesLentOnce
<1> QED
  BY <1>1, <1>2, <1>3 DEF Inv

\* The steps of a caller that leave the range allocator alone: the places
\* they go to need no range, unless the caller comes from a place with one.
Quiet(b) ==
  AllocBegin(b) \/ AllocReject(b) \/ AllocPrepare(b) \/ AllocOverLimit(b)
  \/ AllocAdmit(b) \/ AllocNotReady(b) \/ AllocRetry(b) \/ AllocCount(b)
  \/ FreeBegin(b) \/ FreeCheck(b) \/ FreeCount(b) \/ FreeFini(b)

LEMMA QuietStep ==
  ASSUME Inv, NEW b \in Bo, Quiet(b)
  PROVE  RangeInv' /\ LiveInv' /\ RangesLentOnce'
<1>1. UNCHANGED <<outside, mm_used, range>>
  BY DEF Quiet, AllocBegin, AllocReject, AllocPrepare, AllocOverLimit,
         AllocAdmit, AllocNotReady, AllocRetry, AllocCount, FreeBegin,
         FreeCheck, FreeCount, FreeFini
<1>2. LiveInv' /\ RangesLentOnce'
  BY <1>1 DEF Inv, LiveInv, RangesLentOnce, outside, deviceVars, is_ready
<1>3. \A a \in Bo \ {b} : pc'[a] = pc[a]
  BY DEF Quiet, AllocBegin, AllocReject, AllocPrepare, AllocOverLimit,
         AllocAdmit, AllocNotReady, AllocRetry, AllocCount, FreeBegin,
         FreeCheck, FreeCount, FreeFini, ErrFree, Return, Goto, Inv, TypeOK,
         request
<1>4. drv # "probe"
  BY DEF Quiet, AllocBegin, AllocReject, AllocPrepare, AllocOverLimit,
         AllocAdmit, AllocNotReady, AllocRetry, AllocCount, FreeBegin,
         FreeCheck, FreeCount, FreeFini, Inv, RangeInv
<1>5. pc'[b] \in {"idle", "checked", "usage", "insert", "freed", "fini"}
      => range[b] = {}
  BY DEF Quiet, AllocBegin, AllocReject, AllocPrepare, AllocOverLimit,
         AllocAdmit, AllocNotReady, AllocRetry, AllocCount, FreeBegin,
         FreeCheck, FreeCount, FreeFini, ErrFree, Return, Goto, Inv, TypeOK,
         RangeInv, request
<1> QED
  BY <1>1, <1>2, <1>3, <1>4, <1>5 DEF Inv, RangeInv, outside, deviceVars

LEMMA InsertStep ==
  ASSUME Inv, NEW b \in Bo, AllocInsert(b)
  PROVE  RangeInv' /\ LiveInv' /\ RangesLentOnce'
<1>1. PICK hole \in Holes(b) : /\ range' = [range EXCEPT ![b] = hole]
                               /\ mm_used' = mm_used \cup hole
  BY DEF AllocInsert
<1>2. hole \cap mm_used = {}
  BY <1>1 DEF Holes
<1>3. range[b] = {} /\ UNCHANGED outside /\ pc' = [pc EXCEPT ![b] = "count"]
      /\ drv # "probe"
  BY DEF AllocInsert, Goto, Inv, RangeInv
<1>4. range \in [Bo -> SUBSET Page]
      /\ pc \in [Bo -> {"idle", "checked", "usage", "insert", "count", "held",
                        "freecheck", "remove", "freed", "fini", "lost"}]
  BY DEF Inv, TypeOK
<1>5. LiveInv'
  BY <1>3 DEF Inv, LiveInv, outside, deviceVars, is_ready
<1>6. RangeInv'
  BY <1>1, <1>3, <1>4 DEF Inv, RangeInv, outside, deviceVars
<1>7. ASSUME Recoverer = {}
      PROVE  /\ \A a, c \in Bo : a # c => range'[a] \cap range'[c] = {}
             /\ mm_used' = UNION {range'[a] : a \in Bo}
  <2>1. \A a, c \in Bo : a # c => range[a] \cap range[c] = {}
    BY <1>7 DEF Inv, RangesLentOnce
  <2>2. mm_used = UNION {range[a] : a \in Bo}
    BY <1>7 DEF Inv, RangesLentOnce
  <2>3. \A a \in Bo : range'[a] = IF a = b THEN hole ELSE range[a]
    BY <1>1, <1>4
  <2>4. \A a \in Bo : range[a] \cap hole = {}
    BY <1>2, <2>2
  <2>5. UNION {range'[a] : a \in Bo} = mm_used \cup hole
    BY <1>3, <2>2, <2>3
  <2> QED
    BY <1>1, <2>1, <2>3, <2>4, <2>5
<1> QED
  BY <1>5, <1>6, <1>7 DEF RangesLentOnce

LEMMA RemoveStep ==
  ASSUME Inv, NEW b \in Bo, FreeRemove(b)
  PROVE  RangeInv' /\ LiveInv' /\ RangesLentOnce'
<1>1. UNCHANGED outside /\ pc[b] = "remove" /\ drv # "probe"
  BY DEF FreeRemove, Inv, RangeInv
<1>2. LiveInv'
  BY <1>1 DEF Inv, LiveInv, outside, deviceVars, is_ready
<1>3. range \in [Bo -> SUBSET Page]
      /\ pc \in [Bo -> {"idle", "checked", "usage", "insert", "count", "held",
                        "freecheck", "remove", "freed", "fini", "lost"}]
  BY DEF Inv, TypeOK
<1>4. CASE ~is_ready
  <2>1. UNCHANGED <<mm_used, range>> /\ pc' = [pc EXCEPT ![b] = "lost"]
    BY <1>4 DEF FreeRemove, Goto
  <2> QED
    BY <1>1, <1>2, <1>3, <2>1
    DEF Inv, RangeInv, RangesLentOnce, outside, deviceVars
<1>5. CASE is_ready
  <2>1. /\ mm_used' = mm_used \ range[b]
        /\ range' = [range EXCEPT ![b] = {}]
        /\ pc' = [pc EXCEPT ![b] = "freed"]
    BY <1>5 DEF FreeRemove, Goto
  <2>2. RangeInv'
    BY <1>1, <1>3, <2>1 DEF Inv, RangeInv, outside, deviceVars
  <2>3. ASSUME Recoverer = {}
        PROVE  /\ \A a, c \in Bo : a # c => range'[a] \cap range'[c] = {}
               /\ mm_used' = UNION {range'[a] : a \in Bo}
    <3>1. \A a, c \in Bo : a # c => range[a] \cap range[c] = {}
      BY <2>3 DEF Inv, RangesLentOnce
    <3>2. mm_used = UNION {range[a] : a \in Bo}
      BY <2>3 DEF Inv, RangesLentOnce
    <3>3. \A a \in Bo : range'[a] = IF a = b THEN {} ELSE range[a]
      BY <1>3, <2>1
    <3>4. UNION {range'[a] : a \in Bo} = mm_used \ range[b]
      BY <3>1, <3>2, <3>3
    <3> QED
      BY <2>1, <3>1, <3>3, <3>4
  <2> QED
    BY <1>2, <2>2, <2>3 DEF RangesLentOnce
<1> QED
  BY <1>4, <1>5

LEMMA DriverStep ==
  ASSUME Inv, Driver
  PROVE  RangeInv' /\ LiveInv' /\ RangesLentOnce'
<1>1. UNCHANGED callers /\ (drv' = "probe" => drv = "probe")
  BY DEF Driver, Fini, MgrInit, MgrInitFail, ProbeDone, DeviceFini, FiniMark,
         FiniTakedown
<1>2. RangeInv'
  BY <1>1 DEF Inv, RangeInv, callers
<1>3. LiveInv'
  BY DEF Inv, TypeOK, LiveInv, is_ready, MGR_CALLS, Driver, Fini, MgrInit,
         MgrInitFail, ProbeDone, DeviceFini, FiniMark, FiniTakedown, mm
<1>4. CASE drv = "probe"
  <2>1. \A b \in Bo : range[b] = {}
    BY <1>4 DEF Inv, RangeInv
  <2>2. Recoverer = {} => mm_used = {}
    BY <2>1 DEF Inv, RangesLentOnce
  <2>3. mm_used' = {} \/ mm_used' = mm_used
    BY DEF Driver, Fini, MgrInit, MgrInitFail, ProbeDone, DeviceFini,
           FiniMark, FiniTakedown, mm
  <2> QED
    BY <1>1, <1>2, <1>3, <2>1, <2>2, <2>3 DEF RangesLentOnce, callers
<1>5. CASE drv # "probe"
  <2>1. mm_used' = mm_used
    BY <1>5 DEF Driver, Fini, MgrInit, MgrInitFail, ProbeDone, DeviceFini,
                FiniMark, FiniTakedown, mm
  <2> QED
    BY <1>1, <1>2, <1>3, <2>1 DEF Inv, RangesLentOnce, callers
<1> QED
  BY <1>4, <1>5

LEMMA RecoverStep ==
  ASSUME Inv, NEW r \in Recoverer, Recover(r)
  PROVE  RangeInv' /\ LiveInv' /\ RangesLentOnce'
<1>1. UNCHANGED <<callers, deviceVars>> /\ Recoverer # {}
  BY DEF Recover, RecoverBegin, RecoverMm, RecoverReady
<1> QED
  BY <1>1
  DEF Inv, RangeInv, LiveInv, RangesLentOnce, callers, deviceVars

\* Every step keeps the invariant.
LEMMA InvStep == Inv /\ TypeOK' /\ [Next]_vars => Inv'
<1> SUFFICES ASSUME Inv, TypeOK', [Next]_vars
             PROVE  RangeInv' /\ LiveInv' /\ RangesLentOnce'
  BY DEF Inv
<1>1. CASE UNCHANGED vars
  BY <1>1 DEF Inv, RangeInv, LiveInv, RangesLentOnce, is_ready, vars, outside,
              deviceVars, callers
<1>2. ASSUME NEW b \in Bo, Caller(b)
      PROVE  RangeInv' /\ LiveInv' /\ RangesLentOnce'
  <2>1. Quiet(b) \/ AllocInsert(b) \/ FreeRemove(b)
    BY <1>2 DEF Caller, AllocStep, FreeStep, Quiet
  <2> QED
    BY <2>1, QuietStep, InsertStep, RemoveStep
<1> QED
  BY <1>1, <1>2, DriverStep, RecoverStep DEF Next

LEMMA Invariance == Spec => []Inv
<1>1. Inv /\ TypeOK' /\ [Next]_vars => Inv'
  BY InvStep
<1> QED
  BY <1>1, InvInit, TypeCorrect, PTL DEF Spec

\* Addresses are lent once: no interleaving of insertions and removals lets
\* two resources share a page, or lets the drm_mm and the resources disagree.
THEOREM LentOnce == Spec => []RangesLentOnce
<1>1. Inv => RangesLentOnce
  BY DEF Inv
<1> QED
  BY <1>1, Invariance, PTL

\* Nobody touches the drm_mm after its takedown: callers change it under the
\* lock and when the manager is ready, which it no longer is.
THEOREM Untouched == Spec => UntouchedAfterTakedown
<1> DEFINE Same ==
      Recoverer = {} /\ ~mm_live /\ drv # "probe" => mm_used' = mm_used
<1>1. Inv /\ [Next]_vars => Same
  <2> SUFFICES ASSUME Inv, [Next]_vars, Recoverer = {}, ~mm_live,
                      drv # "probe"
               PROVE  mm_used' = mm_used
    BY DEF Same
  <2>1. ~is_ready
    BY DEF Inv, LiveInv
  <2>2. ASSUME NEW b \in Bo, Caller(b)
        PROVE  mm_used' = mm_used
    BY <2>1, <2>2
    DEF Caller, AllocStep, FreeStep, AllocBegin, AllocReject, AllocPrepare,
        AllocOverLimit, AllocAdmit, AllocNotReady, AllocInsert, AllocRetry,
        AllocCount, FreeBegin, FreeCheck, FreeRemove, FreeCount, FreeFini
  <2>3. CASE Driver
    BY <2>3 DEF Driver, Fini, MgrInit, MgrInitFail, ProbeDone, DeviceFini,
                FiniMark, FiniTakedown, mm
  <2> QED
    BY <2>2, <2>3 DEF Next, vars
<1>2. Inv /\ [Next]_vars => [Same]_vars
  BY <1>1
<1> QED
  BY <1>2, Invariance, PTL DEF Spec, UntouchedAfterTakedown

-----------------------------------------------------------------------------
(* Ranges are as asked *)

\* Only a request with a limit goes to the range allocator.
AskedInv == RangeAsAsked /\ \A b \in Bo : pc[b] = "insert" => lpfn[b] # 0

\* A hole has the size of the request and lies below its limit.
LEMMA HoleAsAsked ==
  ASSUME TypeOK, NEW b \in Bo, NEW hole \in Holes(b)
  PROVE  Cardinality(hole) = size[b] /\ \A p \in hole : p < lpfn[b]
<1>1. PICK first \in Page : hole = first .. first + size[b] - 1
  BY DEF Holes
<1>2. size[b] \in Nat
  <2>1. size[b] \in Size \cup {0}
    BY DEF TypeOK
  <2>2. \A s \in Size \cup {0} : s \in Nat
    BY SizeAssumption
  <2> QED
    BY <2>1, <2>2
<1>3. first \in Int /\ first + size[b] - 1 \in Int
  BY <1>2 DEF Page
<1>4. Cardinality(hole) = IF first > first + size[b] - 1 THEN 0
                          ELSE (first + size[b] - 1) - first + 1
  BY <1>1, <1>3, FS_Interval
<1>5. Cardinality(hole) = size[b]
  BY <1>2, <1>3, <1>4
<1> QED
  BY <1>5 DEF Holes

\* What a caller does to itself keeps its range as asked; it touches no other.
LEMMA AskedCaller ==
  ASSUME Inv, AskedInv, NEW b \in Bo, Caller(b)
  PROVE  AskedInv'
<1> USE DEF Inv, TypeOK, AskedInv, RangeAsAsked, request, Goto
<1>1. CASE AllocBegin(b)
  BY <1>1 DEF AllocBegin, RangeInv
<1>2. CASE AllocReject(b)
  BY <1>2 DEF AllocReject, Return, RangeInv
<1>3. CASE AllocPrepare(b)
  BY <1>3 DEF AllocPrepare
<1>4. CASE AllocOverLimit(b)
  BY <1>4 DEF AllocOverLimit, ErrFree, Return, RangeInv
<1>5. CASE AllocAdmit(b)
  BY <1>5 DEF AllocAdmit
<1>6. CASE AllocNotReady(b)
  BY <1>6 DEF AllocNotReady, ErrFree, Return, RangeInv
<1>7. CASE AllocInsert(b)
  <2>1. PICK hole \in Holes(b) : range' = [range EXCEPT ![b] = hole]
    BY <1>7 DEF AllocInsert
  <2>2. Cardinality(hole) = size[b] /\ \A p \in hole : p < lpfn[b]
    BY <2>1, HoleAsAsked
  <2>3. lpfn[b] # 0 /\ pc' = [pc EXCEPT ![b] = "count"] /\ UNCHANGED <<size, lpfn>>
    BY <1>7 DEF AllocInsert
  <2> QED
    BY <2>1, <2>2, <2>3
<1>8. CASE AllocRetry(b)
  BY <1>8 DEF AllocRetry, ErrFree, Return, RangeInv
<1>9. CASE AllocCount(b)
  BY <1>9 DEF AllocCount
<1>10. CASE FreeBegin(b)
  BY <1>10 DEF FreeBegin
<1>11. CASE FreeCheck(b)
  BY <1>11 DEF FreeCheck
<1>12. CASE FreeRemove(b)
  BY <1>12 DEF FreeRemove
<1>13. CASE FreeCount(b)
  BY <1>13 DEF FreeCount
<1>14. CASE FreeFini(b)
  BY <1>14 DEF FreeFini, ErrFree, Return, RangeInv
<1> QED
  BY <1>1, <1>2, <1>3, <1>4, <1>5, <1>6, <1>7, <1>8, <1>9, <1>10, <1>11,
     <1>12, <1>13, <1>14
  DEF Caller, AllocStep, FreeStep

\* A resource has a range of its size below its limit exactly if it asked for
\* an address, from its insertion to its removal, with recovery and without.
THEOREM AsAsked == Spec => []RangeAsAsked
<1>1. Init => AskedInv
  BY DEF Init, AskedInv, RangeAsAsked
<1>2. Inv /\ AskedInv /\ [Next]_vars => AskedInv'
  <2> SUFFICES ASSUME Inv, AskedInv, [Next]_vars
               PROVE  AskedInv'
    OBVIOUS
  <2>1. CASE UNCHANGED callers
    BY <2>1 DEF AskedInv, RangeAsAsked, callers, request
  <2>2. CASE Driver
    BY <2>1, <2>2 DEF Driver, Fini, MgrInit, MgrInitFail, ProbeDone,
                      DeviceFini, FiniMark, FiniTakedown
  <2>3. ASSUME NEW r \in Recoverer, Recover(r)
        PROVE  UNCHANGED callers
    BY <2>3 DEF Recover, RecoverBegin, RecoverMm, RecoverReady
  <2> QED
    BY <2>1, <2>2, <2>3, AskedCaller DEF Next, vars
<1>3. AskedInv => RangeAsAsked
  BY DEF AskedInv
<1> QED
  BY <1>1, <1>2, <1>3, Invariance, PTL DEF Spec

-----------------------------------------------------------------------------
(* The GTT manager implements Lender                                       *)

\* The two steps of a caller that change its range: the insertion, which the
\* ready manager lets it make, lends the hole, and the removal takes it back.
LEMMA CallerLends ==
  ASSUME Inv, Recoverer = {}, NEW b \in Bo, Caller(b)
  PROVE  [Abstract!Next]_Abstract!vars
<1>1. CASE Quiet(b)
  <2>1. UNCHANGED <<mm_live, range>>
    BY <1>1 DEF Quiet, AllocBegin, AllocReject, AllocPrepare, AllocOverLimit,
                AllocAdmit, AllocNotReady, AllocRetry, AllocCount, FreeBegin,
                FreeCheck, FreeCount, FreeFini, outside
  <2> QED
    BY <2>1 DEF Abstract!vars
<1>2. CASE AllocInsert(b)
  <2>1. PICK hole \in Holes(b) : range' = [range EXCEPT ![b] = hole]
    BY <1>2 DEF AllocInsert
  <2>2. mm_live /\ mm_live' = mm_live /\ range[b] = {}
    BY <1>2 DEF AllocInsert, Inv, LiveInv, RangeInv, outside
  <2>3. hole \in SUBSET (Page \ Abstract!Lent)
    BY <2>1 DEF Holes, Inv, RangesLentOnce, Abstract!Lent
  <2>4. range' = [range EXCEPT ![b] = @ \cup hole]
    BY <2>1, <2>2
  <2>5. Abstract!Lend(b)
    BY <2>2, <2>3, <2>4 DEF Abstract!Lend
  <2> QED
    BY <2>5 DEF Abstract!Next
<1>3. CASE FreeRemove(b)
  <2>1. mm_live' = mm_live /\ (range' = range \/ range' = [range EXCEPT ![b] = {}])
    BY <1>3 DEF FreeRemove, outside
  <2> QED
    BY <2>1 DEF Abstract!Next, Abstract!TakeBack, Abstract!vars
<1> QED
  BY <1>1, <1>2, <1>3 DEF Caller, AllocStep, FreeStep, Quiet

\* The driver opens the manager before there are callers, and closes it.
LEMMA DriverLends ==
  ASSUME Inv, Driver
  PROVE  [Abstract!Next]_Abstract!vars
<1>1. range' = range
  BY DEF Driver, Fini, MgrInit, MgrInitFail, ProbeDone, DeviceFini, FiniMark,
         FiniTakedown, callers
<1>2. \/ mm_live' = mm_live
      \/ mm_live' = FALSE
      \/ mm_live' = TRUE /\ drv = "probe"
  BY DEF Driver, Fini, MgrInit, MgrInitFail, ProbeDone, DeviceFini, FiniMark,
         FiniTakedown, mm
<1>3. drv = "probe" => Abstract!Lent = {}
  BY DEF Inv, RangeInv, Abstract!Lent
<1> QED
  BY <1>1, <1>2, <1>3
  DEF Abstract!Next, Abstract!Open, Abstract!Close, Abstract!vars

\* Without recovery the GTT manager implements Lender: whatever the charges,
\* the retries and the removal of the device do, its drm_mm lends pages that
\* nobody has, while it works, and nothing is lent when it is set up.
THEOREM Implements == ASSUME Recoverer = {} PROVE Spec => LendsPages
<1>1. Init => Abstract!Init
  BY DEF Init, Abstract!Init
<1>2. Inv /\ [Next]_vars => [Abstract!Next]_Abstract!vars
  <2>1. ASSUME UNCHANGED vars
        PROVE  UNCHANGED Abstract!vars
    BY <2>1 DEF vars, outside, callers, Abstract!vars
  <2> QED
    BY <2>1, CallerLends, DriverLends DEF Next
<1> QED
  BY <1>1, <1>2, Invariance, PTL DEF Spec, LendsPages, Abstract!Spec

-----------------------------------------------------------------------------
(* Usage and statistics *)

Charged == Admitted \cup At({"usage"})
Lasting == {b \in Admitted : ~temporary[b]}

\* The manager is ready from the end of its setup until the device shuts down,
\* with recovery and without.
ReadyInv ==
  /\ drv = "probe" => ~DeviceShutdown /\ (calls > 0 => is_ready)
  /\ drv = "bound" => is_ready
  /\ drv \in {"fini", "takedown", "gone"} => DeviceShutdown

CountInv == ReadyInv /\ UsageExact /\ AdmittedFit /\ StatsAgree

\* The counters as sums, as SumTheorems speaks of them.
LEMMA SumForms ==
  /\ UsageExact <=> usage = SumOver(size, Charged)
  /\ AdmittedFit <=> SumOver(size, Lasting) <= GttSize
  /\ StatsAgree <=> (~DeviceShutdown => stats_used = SumOver(size, Counted))
  BY DEF UsageExact, AdmittedFit, StatsAgree, Total, SumOver, Charged, Lasting

\* The same after a step.
LEMMA SumFormsNext ==
  /\ UsageExact' <=> usage' = SumOver(size', Charged')
  /\ AdmittedFit' <=> SumOver(size', Lasting') <= GttSize
  /\ StatsAgree' <=> (~DeviceShutdown' => stats_used' = SumOver(size', Counted'))
<1>1. (/\ UsageExact <=> usage = SumOver(size, Charged)
       /\ AdmittedFit <=> SumOver(size, Lasting) <= GttSize
       /\ StatsAgree <=> (~DeviceShutdown => stats_used = SumOver(size, Counted)))'
  BY DEF UsageExact, AdmittedFit, StatsAgree, Total, SumOver, Charged, Lasting
<1> QED BY <1>1

\* The sets of resources are finite, and sizes are natural numbers.
LEMMA Sizes ==
  ASSUME TypeOK
  PROVE  /\ IsFiniteSet(Charged) /\ IsFiniteSet(Lasting) /\ IsFiniteSet(Counted)
         /\ \A b \in Bo : size[b] \in Nat
         /\ Lasting \subseteq Bo /\ Charged \subseteq Bo /\ Counted \subseteq Bo
         /\ Lasting \subseteq Charged
<1>1. Lasting \subseteq Bo /\ Charged \subseteq Bo /\ Counted \subseteq Bo
  BY DEF Lasting, Charged, Counted, Admitted, At
<1>2. \A s \in Size \cup {0} : s \in Nat
  BY SizeAssumption
<1>3. \A b \in Bo : size[b] \in Nat
  BY <1>2 DEF TypeOK
<1> QED BY <1>1, <1>3, BoAssumption, FS_Subset DEF Lasting, Charged

\* The same after a step: SizesNext, from the formula primed.
LEMMA SizesForm ==
  TypeOK => /\ IsFiniteSet(Charged) /\ IsFiniteSet(Lasting) /\ IsFiniteSet(Counted)
            /\ \A b \in Bo : size[b] \in Nat
            /\ Lasting \subseteq Bo /\ Charged \subseteq Bo /\ Counted \subseteq Bo
            /\ Lasting \subseteq Charged
  BY Sizes

LEMMA SizesFormNext ==
  (TypeOK => /\ IsFiniteSet(Charged) /\ IsFiniteSet(Lasting) /\ IsFiniteSet(Counted)
             /\ \A b \in Bo : size[b] \in Nat
             /\ Lasting \subseteq Bo /\ Charged \subseteq Bo /\ Counted \subseteq Bo
             /\ Lasting \subseteq Charged)'
  BY SizesForm, PTL

LEMMA SizesNext ==
  ASSUME TypeOK'
  PROVE  /\ IsFiniteSet(Charged') /\ IsFiniteSet(Lasting') /\ IsFiniteSet(Counted')
         /\ \A b \in Bo : size'[b] \in Nat
         /\ Lasting' \subseteq Bo /\ Charged' \subseteq Bo /\ Counted' \subseteq Bo
         /\ Lasting' \subseteq Charged'
  BY SizesFormNext

\* ReadyInv is an invariant.
LEMMA ReadyInit == Init => ReadyInv
  BY DEF Init, ReadyInv, DeviceShutdown

LEMMA ReadyStep == TypeOK /\ ReadyInv /\ [Next]_vars => ReadyInv'
<1> SUFFICES ASSUME TypeOK, ReadyInv, [Next]_vars PROVE ReadyInv'
  OBVIOUS
<1>1. CASE UNCHANGED outside
  BY <1>1 DEF ReadyInv, outside, deviceVars, DeviceShutdown, is_ready
<1>2. ASSUME NEW b \in Bo, Caller(b) PROVE UNCHANGED outside
  BY <1>2 DEF Caller, AllocStep, FreeStep, AllocBegin, AllocReject,
              AllocPrepare, AllocOverLimit, AllocAdmit, AllocNotReady,
              AllocInsert, AllocRetry, AllocCount, FreeBegin, FreeCheck,
              FreeRemove, FreeCount, FreeFini
<1>3. CASE Driver
  BY <1>3 DEF Driver, Fini, MgrInit, MgrInitFail, ProbeDone, DeviceFini,
              FiniMark, FiniTakedown, ReadyInv, DeviceShutdown, is_ready,
              MGR_CALLS, TypeOK
<1>4. ASSUME NEW r \in Recoverer, Recover(r) PROVE ReadyInv'
  BY <1>4 DEF Recover, RecoverBegin, RecoverMm, RecoverReady, ReadyInv,
              DeviceShutdown, is_ready, deviceVars
<1> QED BY <1>1, <1>2, <1>3, <1>4 DEF Next, vars

\* What a step of b does to the others: nothing.
LEMMA OthersKeep ==
  ASSUME TypeOK, NEW b \in Bo, Caller(b)
  PROVE  /\ \A a \in Bo \ {b} : /\ pc'[a] = pc[a] /\ size'[a] = size[a]
                                /\ temporary'[a] = temporary[a]
         /\ Charged' \ {b} = Charged \ {b}
         /\ Lasting' \ {b} = Lasting \ {b}
         /\ Counted' \ {b} = Counted \ {b}
         /\ UNCHANGED outside
<1>1. \A a \in Bo \ {b} : /\ pc'[a] = pc[a] /\ size'[a] = size[a]
                          /\ temporary'[a] = temporary[a]
  BY DEF Caller, AllocStep, FreeStep, AllocBegin, AllocReject,
         AllocPrepare, AllocOverLimit, AllocAdmit, AllocNotReady,
         AllocInsert, AllocRetry, AllocCount, FreeBegin, FreeCheck,
         FreeRemove, FreeCount, FreeFini, ErrFree, Return, Goto, request, TypeOK
<1>2. UNCHANGED outside
  BY DEF Caller, AllocStep, FreeStep, AllocBegin, AllocReject,
         AllocPrepare, AllocOverLimit, AllocAdmit, AllocNotReady,
         AllocInsert, AllocRetry, AllocCount, FreeBegin, FreeCheck,
         FreeRemove, FreeCount, FreeFini
<1> QED BY <1>1, <1>2 DEF Charged, Lasting, Counted, Admitted, At

\* What a step of b charges to the usage is what it does to the resource of b.
LEMMA UsageDelta ==
  ASSUME TypeOK, NEW b \in Bo, Caller(b)
  PROVE  usage' = usage + (IF b \in Charged' THEN size'[b] ELSE 0)
                        - (IF b \in Charged THEN size[b] ELSE 0)
<1>1. usage \in Int /\ size[b] \in Nat
  BY Sizes DEF TypeOK
<1>2. pc[b] \in {"idle", "checked", "usage", "insert", "count", "held",
                 "freecheck", "remove", "freed", "fini", "lost"}
  BY DEF TypeOK
<1>3. /\ b \in Charged <=> pc[b] \notin {"idle", "checked"}
      /\ b \in Charged' <=> pc'[b] \notin {"idle", "checked"}
  <2>1. pc'[b] \in {"idle", "checked", "usage", "insert", "count", "held",
                    "freecheck", "remove", "freed", "fini", "lost"}
    BY <1>2 DEF Caller, AllocStep, FreeStep, AllocBegin, AllocReject,
       AllocPrepare, AllocOverLimit, AllocAdmit, AllocNotReady, AllocInsert,
       AllocRetry, AllocCount, FreeBegin, FreeCheck, FreeRemove, FreeCount,
       FreeFini, ErrFree, Return, Goto, TypeOK
  <2> QED BY <1>2, <2>1 DEF Charged, Admitted, Counted, At
<1>4. /\ pc'[b] \in {"idle", "checked"} <=> b \notin Charged'
      /\ pc[b] \in {"idle", "checked"} <=> b \notin Charged
  BY <1>3
<1> HIDE DEF Charged
<1> USE DEF Return, Goto, request, TypeOK
<1>5. CASE AllocBegin(b) \/ AllocReject(b)
  <2>1. usage' = usage /\ pc[b] \in {"idle", "checked"} /\ pc'[b] \in {"idle", "checked"}
    BY <1>5 DEF AllocBegin, AllocReject
  <2> QED BY <2>1, <1>1, <1>4
<1>6. CASE AllocPrepare(b)
  <2>1. /\ usage' = usage + size[b] /\ pc[b] = "checked" /\ pc'[b] = "usage"
        /\ size'[b] = size[b]
    BY <1>6 DEF AllocPrepare
  <2> QED BY <2>1, <1>1, <1>4
<1>7. CASE AllocOverLimit(b) \/ AllocNotReady(b) \/ FreeFini(b)
  <2>1. /\ usage' = usage - size[b] /\ pc[b] \in {"usage", "insert", "fini"}
        /\ pc'[b] = "idle"
    BY <1>7 DEF AllocOverLimit, AllocNotReady, FreeFini, ErrFree
  <2> QED BY <2>1, <1>1, <1>4
<1>8. CASE AllocRetry(b)
  <2>1. CASE retry_count[b] + 1 < RETRY_COUNT
    <3>1. /\ usage' = usage /\ pc[b] = "insert" /\ pc'[b] = "insert"
          /\ size'[b] = size[b]
      BY <1>8, <2>1 DEF AllocRetry
    <3> QED BY <3>1, <1>1, <1>4
  <2>2. CASE ~(retry_count[b] + 1 < RETRY_COUNT)
    <3>1. /\ usage' = usage - size[b] /\ pc[b] = "insert" /\ pc'[b] = "idle"
      BY <1>8, <2>2 DEF AllocRetry, ErrFree
    <3> QED BY <3>1, <1>1, <1>4
  <2> QED BY <2>1, <2>2
<1>9. CASE \/ AllocAdmit(b) \/ AllocInsert(b) \/ AllocCount(b) \/ FreeBegin(b)
           \/ FreeCheck(b) \/ FreeRemove(b) \/ FreeCount(b)
  <2>1. /\ usage' = usage /\ pc[b] \notin {"idle", "checked"}
        /\ pc'[b] \notin {"idle", "checked"} /\ size'[b] = size[b]
    BY <1>9 DEF AllocAdmit, AllocInsert, AllocCount, FreeBegin, FreeCheck,
                FreeRemove, FreeCount
  <2> QED BY <2>1, <1>1, <1>4
<1> QED BY <1>5, <1>6, <1>7, <1>8, <1>9 DEF Caller, AllocStep, FreeStep

\* So a step of a caller keeps the usage exact.
LEMMA UsageCaller ==
  ASSUME TypeOK, TypeOK', NEW b \in Bo, Caller(b), UsageExact
  PROVE  UsageExact'
<1> DEFINE S == Charged  R == Charged'  f == size  g == size'
<1>1. /\ IsFiniteSet(S) /\ IsFiniteSet(R)
      /\ \A a \in S : f[a] \in Int
      /\ \A a \in R : g[a] \in Int
      /\ f[b] \in Int /\ g[b] \in Int
  BY Sizes, SizesNext
<1>2. S \ {b} = R \ {b} /\ \A a \in S \ {b} : f[a] = g[a]
  BY OthersKeep, Sizes
<1>4. usage \in Int /\ usage = SumOver(f, S)
  BY SumForms DEF TypeOK
<1>5. usage' = usage + (IF b \in R THEN g[b] ELSE 0) - (IF b \in S THEN f[b] ELSE 0)
  BY UsageDelta
<1> HIDE DEF S, R, f, g
<1>3. /\ SumOver(f, S) \in Int /\ SumOver(g, R) \in Int
      /\ SumOver(g, R) - (IF b \in R THEN g[b] ELSE 0)
           = SumOver(f, S) - (IF b \in S THEN f[b] ELSE 0)
  BY ONLY <1>1, <1>2, SumMove
<1>6. usage' = SumOver(g, R)
  BY <1>1, <1>3, <1>4, <1>5
<1> QED BY <1>6, SumFormsNext DEF g, R

\* The allowance never grows but by an admission that saw room for it.
LEMMA FitCaller ==
  ASSUME TypeOK, TypeOK', NEW b \in Bo, Caller(b), UsageExact, AdmittedFit
  PROVE  AdmittedFit'
<1>1. /\ IsFiniteSet(Lasting) /\ IsFiniteSet(Lasting')
      /\ \A a \in Bo : size[a] \in Nat /\ size'[a] \in Nat
      /\ Lasting \subseteq Bo /\ Lasting' \subseteq Bo /\ Charged \subseteq Bo
      /\ IsFiniteSet(Charged)
  BY Sizes, SizesNext
<1>2. GttSize \in Nat
  BY SizeAssumption
<1>3. Lasting' \ {b} = Lasting \ {b} /\ \A a \in Bo \ {b} : size'[a] = size[a]
  BY OthersKeep
<1>4. SumOver(size, Lasting) <= GttSize
  BY SumForms
<1>5. CASE b \in Lasting' => b \in Lasting /\ size'[b] = size[b]
  <2>1. Lasting' \subseteq Lasting /\ \A a \in Lasting' : size'[a] = size[a]
    BY <1>1, <1>3, <1>5
  <2>2. SumOver(size', Lasting') = SumOver(size, Lasting')
    BY <1>1, <2>1, SumSame
  <2>3. /\ SumOver(size, Lasting) \in Nat
        /\ SumOver(size, Lasting') <= SumOver(size, Lasting)
    BY <1>1, <2>1, SumNat
  <2>4. SumOver(size, Lasting') \in Nat
    BY <1>1, SumNat
  <2>5. SumOver(size', Lasting') <= GttSize
    BY <1>2, <1>4, <2>2, <2>3, <2>4
  <2> QED BY <2>5, SumFormsNext
<1>6. CASE AllocAdmit(b) /\ ~temporary[b]
  <2>1. usage <= GttSize /\ UNCHANGED <<size, temporary>>
    BY <1>2, <1>6 DEF AllocAdmit, Overcommitted, request, TypeOK
  <2>2. pc[b] = "usage"
    BY <1>6 DEF AllocAdmit
  <2>3. Lasting' \subseteq Charged
    <3>1. b \in Charged
      BY <2>2 DEF Charged, At
    <3>2. Lasting \subseteq Charged
      BY Sizes
    <3> QED BY <1>3, <3>1, <3>2
  <2>4. usage = SumOver(size, Charged)
    BY SumForms
  <2>5. /\ SumOver(size, Charged) \in Nat
        /\ SumOver(size, Lasting') <= SumOver(size, Charged)
    BY <1>1, <2>3, SumNat
  <2>6. SumOver(size, Lasting') \in Nat
    BY <1>1, SumNat
  <2>7. SumOver(size', Lasting') <= GttSize
    BY <1>2, <2>1, <2>4, <2>5, <2>6
  <2> QED BY <2>7, SumFormsNext
<1>7. \/ b \in Lasting' => b \in Lasting /\ size'[b] = size[b]
      \/ AllocAdmit(b) /\ ~temporary[b]
  <2> USE DEF Lasting, Admitted, Counted, At, Return, Goto, request, TypeOK
  <2>1. CASE AllocBegin(b) \/ AllocReject(b) \/ AllocPrepare(b)
    BY <2>1 DEF AllocBegin, AllocReject, AllocPrepare
  <2>2. CASE AllocOverLimit(b) \/ AllocNotReady(b) \/ FreeFini(b)
    BY <2>2 DEF AllocOverLimit, AllocNotReady, FreeFini, ErrFree
  <2>3. CASE AllocRetry(b)
    BY <2>3 DEF AllocRetry, ErrFree
  <2>4. CASE AllocAdmit(b)
    BY <2>4 DEF AllocAdmit
  <2>5. CASE \/ AllocInsert(b) \/ AllocCount(b) \/ FreeBegin(b)
             \/ FreeCheck(b) \/ FreeRemove(b) \/ FreeCount(b)
    BY <2>5 DEF AllocInsert, AllocCount, FreeBegin, FreeCheck,
                FreeRemove, FreeCount
  <2> QED BY <2>1, <2>2, <2>3, <2>4, <2>5 DEF Caller, AllocStep, FreeStep
<1> QED BY <1>5, <1>6, <1>7

\* Until the device shuts down a caller that sees a manager that is not ready
\* does not exist, so no resource is lost and the statistics see every step.
LEMMA StatsDelta ==
  ASSUME TypeOK, ReadyInv, RangeInv, ~DeviceShutdown, NEW b \in Bo, Caller(b)
  PROVE  stats_used' = stats_used + (IF b \in Counted' THEN size'[b] ELSE 0)
                                  - (IF b \in Counted THEN size[b] ELSE 0)
<1>1. stats_used \in Int /\ size[b] \in Nat
  BY Sizes DEF TypeOK
<1>2. /\ b \in Counted <=> pc[b] \in {"held", "freecheck", "remove", "freed"}
      /\ b \in Counted' <=> pc'[b] \in {"held", "freecheck", "remove", "freed"}
  BY DEF Counted, At
<1>3. pc[b] # "idle" => is_ready
  <2>1. pc[b] # "idle" => drv # "probe"
    BY DEF RangeInv
  <2> QED BY <2>1 DEF TypeOK, ReadyInv
<1> HIDE DEF Counted
<1> USE DEF Return, Goto, request, TypeOK
<1>4. CASE \/ AllocBegin(b) \/ AllocReject(b) \/ AllocPrepare(b) \/ AllocOverLimit(b)
           \/ AllocNotReady(b) \/ AllocAdmit(b) \/ AllocInsert(b) \/ AllocRetry(b)
           \/ FreeFini(b)
  <2>1. /\ stats_used' = stats_used
        /\ pc[b] \notin {"held", "freecheck", "remove", "freed"}
        /\ pc'[b] \notin {"held", "freecheck", "remove", "freed"}
    BY <1>4 DEF AllocBegin, AllocReject, AllocPrepare, AllocOverLimit,
                AllocNotReady, AllocAdmit, AllocInsert, AllocRetry, FreeFini,
                ErrFree
  <2> QED BY <2>1, <1>1, <1>2
<1>5. CASE FreeBegin(b) \/ FreeCheck(b) \/ FreeRemove(b)
  <2>1. /\ stats_used' = stats_used /\ size'[b] = size[b]
        /\ pc[b] \in {"held", "freecheck", "remove", "freed"}
        /\ pc'[b] \in {"held", "freecheck", "remove", "freed"}
    BY <1>3, <1>5 DEF FreeBegin, FreeCheck, FreeRemove
  <2> QED BY <2>1, <1>1, <1>2
<1>6. CASE AllocCount(b)
  <2>1. /\ stats_used' = stats_used + size[b] /\ size'[b] = size[b]
        /\ pc[b] = "count" /\ pc'[b] = "held"
    BY <1>6 DEF AllocCount, UpdateUsage
  <2> QED BY <2>1, <1>1, <1>2
<1>7. CASE FreeCount(b)
  <2>1. /\ stats_used' = stats_used - size[b]
        /\ pc[b] = "freed" /\ pc'[b] = "fini"
    BY <1>7 DEF FreeCount, UpdateUsage
  <2> QED BY <2>1, <1>1, <1>2
<1> QED BY <1>4, <1>5, <1>6, <1>7 DEF Caller, AllocStep, FreeStep

\* So a step of a caller keeps the statistics exact.
LEMMA StatsCaller ==
  ASSUME TypeOK, TypeOK', ReadyInv, RangeInv, NEW b \in Bo, Caller(b), StatsAgree
  PROVE  StatsAgree'
<1>0. DeviceShutdown' <=> DeviceShutdown
  BY OthersKeep DEF outside, deviceVars, DeviceShutdown
<1> SUFFICES ASSUME ~DeviceShutdown PROVE stats_used' = SumOver(size', Counted')
  BY <1>0, SumFormsNext
<1> DEFINE S == Counted  R == Counted'  f == size  g == size'
<1>1. /\ IsFiniteSet(S) /\ IsFiniteSet(R)
      /\ \A a \in S : f[a] \in Int
      /\ \A a \in R : g[a] \in Int
      /\ f[b] \in Int /\ g[b] \in Int
  BY Sizes, SizesNext
<1>2. S \ {b} = R \ {b} /\ \A a \in S \ {b} : f[a] = g[a]
  BY OthersKeep, Sizes
<1>4. stats_used \in Int /\ stats_used = SumOver(f, S)
  BY SumForms DEF TypeOK
<1>5. stats_used' = stats_used + (IF b \in R THEN g[b] ELSE 0)
                               - (IF b \in S THEN f[b] ELSE 0)
  BY StatsDelta
<1> HIDE DEF S, R, f, g
<1>3. /\ SumOver(f, S) \in Int /\ SumOver(g, R) \in Int
      /\ SumOver(g, R) - (IF b \in R THEN g[b] ELSE 0)
           = SumOver(f, S) - (IF b \in S THEN f[b] ELSE 0)
  BY ONLY <1>1, <1>2, SumMove
<1>6. stats_used' = SumOver(g, R)
  BY <1>1, <1>3, <1>4, <1>5
<1> QED BY <1>6 DEF g, R

\* The three counters' invariant.
LEMMA CountInit == Init => CountInv
<1> SUFFICES ASSUME Init PROVE CountInv
  OBVIOUS
<1>1. Charged = {} /\ Lasting = {} /\ Counted = {}
  BY DEF Init, Charged, Lasting, Counted, Admitted, At
<1>2. usage = 0 /\ stats_used = 0 /\ GttSize \in Nat
  BY SizeAssumption DEF Init
<1>3. SumOver(size, {}) = 0
  BY SumEmpty
<1> QED BY <1>1, <1>2, <1>3, ReadyInit, SumForms DEF CountInv

LEMMA CountStep == Inv /\ TypeOK' /\ CountInv /\ [Next]_vars => CountInv'
<1> SUFFICES ASSUME Inv, TypeOK', CountInv, [Next]_vars PROVE CountInv'
  OBVIOUS
<1>1. ReadyInv'
  BY ReadyStep DEF Inv, CountInv
<1>2. ASSUME NEW b \in Bo, Caller(b) PROVE UsageExact' /\ AdmittedFit' /\ StatsAgree'
  BY <1>2, UsageCaller, FitCaller, StatsCaller DEF Inv, CountInv
<1>3. CASE UNCHANGED callers /\ (DeviceShutdown => DeviceShutdown')
  <2>1. Charged' = Charged /\ Lasting' = Lasting /\ Counted' = Counted
        /\ UNCHANGED <<usage, size, stats_used>>
    BY <1>3 DEF callers, request, Charged, Lasting, Counted, Admitted, At
  <2>2. UsageExact' /\ AdmittedFit'
    BY <2>1, SumForms, SumFormsNext DEF CountInv
  <2>3. StatsAgree'
    BY <1>3, <2>1, SumForms, SumFormsNext DEF CountInv
  <2> QED BY <1>1, <2>2, <2>3 DEF CountInv
<1>4. CASE UNCHANGED vars
  BY <1>3, <1>4 DEF vars, outside, deviceVars, DeviceShutdown
<1>5. CASE Driver
  <2>1. UNCHANGED callers
    BY <1>5 DEF Driver, Fini, MgrInit, MgrInitFail, ProbeDone, DeviceFini,
                FiniMark, FiniTakedown
  <2>2. DeviceShutdown => DeviceShutdown'
    BY <1>5 DEF Driver, Fini, MgrInit, MgrInitFail, ProbeDone, DeviceFini,
                FiniMark, FiniTakedown, DeviceShutdown, CountInv, ReadyInv
  <2> QED BY <1>3, <2>1, <2>2
<1>6. ASSUME NEW r \in Recoverer, Recover(r)
      PROVE  UNCHANGED callers /\ (DeviceShutdown => DeviceShutdown')
  BY <1>6 DEF Recover, RecoverBegin, RecoverMm, RecoverReady, deviceVars,
              DeviceShutdown
<1>7. ASSUME NEW b \in Bo, Caller(b) PROVE CountInv'
  BY <1>1, <1>2, <1>7 DEF CountInv
<1> QED BY <1>3, <1>4, <1>5, <1>6, <1>7 DEF Next

LEMMA CountInvariance == Spec => []CountInv
<1>1. Inv /\ TypeOK' /\ CountInv /\ [Next]_vars => CountInv'
  BY CountStep
<1> QED BY <1>1, CountInit, Invariance, TypeCorrect, PTL DEF Spec

\* The usage is exact: whatever the errors, the retries and the removal of the
\* device do, TTM's usage is the sum of the sizes of the resources that exist.
THEOREM UsageIsExact == Spec => []UsageExact
<1>1. CountInv => UsageExact
  BY DEF CountInv
<1> QED BY <1>1, CountInvariance, PTL

\* No overcommitment, for any number of concurrent allocations: a charge is
\* made before its check, so a check that passes has seen every charge.
THEOREM AdmittedFits == Spec => []AdmittedFit
<1>1. CountInv => AdmittedFit
  BY DEF CountInv
<1> QED BY <1>1, CountInvariance, PTL

\* The statistics agree until the device shuts down, with recovery and without.
THEOREM StatsAreExact == Spec => []StatsAgree
<1>1. CountInv => StatsAgree
  BY DEF CountInv
<1> QED BY <1>1, CountInvariance, PTL
=============================================================================
