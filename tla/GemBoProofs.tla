------------------------------ MODULE GemBoProofs -----------------------------
(***************************************************************************)
(* Theorems about GemBo, for every set of structures, every finite set of  *)
(* threads and all requests and sizes.                                     *)
(*                                                                         *)
(* BoInv(b) collects what has to be known of one structure: who works on   *)
(* it, what its counts are made of, and that it is reserved from its       *)
(* creation on, by the thread that created it.  So no put is ever the one  *)
(* that frees (Local lets every step be looked at on its one structure).   *)
(***************************************************************************)
EXTENDS GemBo, FiniteSetTheorems, TLAPS

Making == {"validate", "validate_kernel", "kvfree", "handle", "reserve", "pin", "blocked"}
Using  == {"use", "destroy", "put"}

\* The creator works alone, until the handle is there.
MakeInv(b) ==
  \A t \in Task : obj[t] = b /\ pc[t] \in Making =>
    /\ handle[b] = "none" /\ ~asked[b]
    /\ \A u \in Task \ {t} : obj[u] # b
    /\ st[b] \in IF pc[t] = "kvfree" THEN {"used", "freed"} ELSE {"used"}

Failed(b) == In(b, {"kvfree"}) # {}

Dropping(b) == In(b, {"destroy"}) # {}

BoInv(b) ==
  /\ MakeInv(b)
  /\ \A t, u \in In(b, {"destroy"}) : t = u
  /\ Dropping(b) => asked[b]
  /\ st[b] = "new" =>
       /\ gem[b] = 0 /\ ttm[b] = 0 /\ handle[b] = "none" /\ ~asked[b]
       /\ \A t \in Task : obj[t] # b
  /\ st[b] # "new" => gem[b] = 1 + One(handle[b] = "open") + Cardinality(In(b, Using))
  /\ st[b] = "used" /\ ~Failed(b) =>
       /\ resv[b] # None
       /\ ttm[b] = One(~asked[b] \/ Dropping(b)) + One(handle[b] = "open")
  /\ st[b] \in {"dying", "waiting"} =>
       /\ resv[b] # None /\ ttm[b] = 1
       /\ handle[b] # "open" /\ ~Dropping(b)
       /\ \A t \in Task : obj[t] = b => pc[t] \notin Making
  /\ st[b] = "freed" =>
       /\ handle[b] = "none"
       /\ \A t \in Task : obj[t] = b => pc[t] = "kvfree"

TaskInv == \A t \in Task : pc[t] = "idle" <=> obj[t] = None

Inv == TypeOK /\ TaskInv /\ \A b \in Bo : BoInv(b)

-----------------------------------------------------------------------------
(* A step concerns one structure *)

LEMMA FewUsing ==
  ASSUME NEW b, NEW L
  PROVE  IsFiniteSet(In(b, L)) /\ Cardinality(In(b, L)) \in Nat
  <1>1. In(b, L) \subseteq Task
    BY DEF In
  <1> QED BY <1>1, TaskAssumption, FS_Subset, FS_CardinalityType

Touches(b) ==
  /\ \A u \in Task :
       \/ pc'[u] = pc[u] /\ obj'[u] = obj[u]
       \/ obj[u] \in {b, None} /\ obj'[u] \in {b, None}
  /\ \A c \in Bo \ {b} :
       /\ st'[c] = st[c] /\ gem'[c] = gem[c] /\ ttm'[c] = ttm[c]
       /\ resv'[c] = resv[c] /\ handle'[c] = handle[c] /\ asked'[c] = asked[c]

LEMMA Local ==
  ASSUME NEW b \in Bo, Touches(b), \A c \in Bo : BoInv(c), BoInv(b)'
  PROVE  \A c \in Bo : BoInv(c)'
  <1> SUFFICES ASSUME NEW c \in Bo \ {b} PROVE BoInv(c)'
    OBVIOUS
  <1>1. c # None
    BY TaskAssumption
  <1>2. \A u \in Task : /\ obj'[u] = c <=> obj[u] = c
                        /\ obj[u] = c => pc'[u] = pc[u]
    BY <1>1 DEF Touches
  <1>3. ASSUME NEW L PROVE In(c, L)' = In(c, L)
    BY <1>2 DEF In
  <1>4. /\ st'[c] = st[c] /\ gem'[c] = gem[c] /\ ttm'[c] = ttm[c]
        /\ resv'[c] = resv[c] /\ handle'[c] = handle[c] /\ asked'[c] = asked[c]
    BY DEF Touches
  <1>5. BoInv(c)
    OBVIOUS
  <1>6. MakeInv(c)'
    BY <1>2, <1>4, <1>5 DEF BoInv, MakeInv
  <1>7. (Failed(c)' <=> Failed(c)) /\ (Dropping(c)' <=> Dropping(c))
    BY <1>3 DEF Failed, Dropping
  <1>8. /\ In(c, {"destroy"})' = In(c, {"destroy"})
        /\ In(c, Using)' = In(c, Using)
    BY <1>3
  <1> QED BY <1>2, <1>4, <1>5, <1>6, <1>7, <1>8 DEF BoInv, One

\* Who is in a set of labels after a thread has moved.
LEMMA Moves ==
  ASSUME TypeOK, NEW b \in Bo, NEW t \in Task, obj[t] \in {b, None}, obj'[t] \in {b, None},
         \A u \in Task \ {t} : pc'[u] = pc[u] /\ obj'[u] = obj[u],
         NEW L
  PROVE  /\ t \in In(b, L) <=> obj[t] = b /\ pc[t] \in L
         /\ In(b, L)' = IF obj'[t] = b /\ pc'[t] \in L THEN In(b, L) \cup {t}
                                                       ELSE In(b, L) \ {t}
  BY DEF In

-----------------------------------------------------------------------------
(* Types *)

LEMMA InvInit == Init => Inv
  <1> SUFFICES ASSUME Init PROVE Inv
    OBVIOUS
  <1>1. TypeOK
    BY DEF Init, TypeOK
  <1>2. \A b \in Bo, t \in Task : obj[t] # b
    BY TaskAssumption DEF Init
  <1>3. \A b \in Bo : In(b, {"destroy"}) = {}
    BY <1>2 DEF In
  <1>4. \A b \in Bo : BoInv(b)
    BY <1>2, <1>3 DEF Init, BoInv, MakeInv, Dropping
  <1>5. TaskInv
    BY TaskAssumption DEF Init, TaskInv
  <1> QED BY <1>1, <1>4, <1>5 DEF Inv

\* The last put finds the structure reserved and leaves it to the worker.
LEMMA LastPut ==
  ASSUME TypeOK, NEW b \in Bo, st[b] = "used", resv[b] # None, ttm[b] >= 1, TtmPut(b)
  PROVE  /\ mem' = mem
         /\ \/ ttm[b] > 1 /\ ttm' = [ttm EXCEPT ![b] = @ - 1] /\ st' = st
            \/ ttm[b] = 1 /\ ttm' = ttm /\ st' = [st EXCEPT ![b] = "dying"]
  BY DEF TtmPut, TypeOK

\* A step of a thread on its structure: the parts that do not depend on which.
Moved(t, b) ==
  /\ obj[t] \in {b, None} /\ obj'[t] \in {b, None}
  /\ pc'[t] = "idle" <=> obj'[t] = None
  /\ \A u \in Task \ {t} : pc'[u] = pc[u] /\ obj'[u] = obj[u]
  /\ \A c \in Bo \ {b} :
       /\ st'[c] = st[c] /\ gem'[c] = gem[c] /\ ttm'[c] = ttm[c]
       /\ resv'[c] = resv[c] /\ handle'[c] = handle[c] /\ asked'[c] = asked[c]

LEMMA MovedStep ==
  ASSUME Inv, NEW b \in Bo, NEW t \in Task, Moved(t, b), TypeOK', BoInv(b)'
  PROVE  Inv'
  <1>1. Touches(b)
    BY DEF Moved, Touches
  <1>2. \A c \in Bo : BoInv(c)'
    BY <1>1, Local DEF Inv
  <1>3. TaskInv'
    BY DEF Moved, TaskInv, Inv
  <1> QED BY <1>2, <1>3 DEF Inv

\* What BoInv says of a structure that a client can name.
LEMMA OpenFacts ==
  ASSUME Inv, NEW b \in Bo, handle[b] = "open"
  PROVE  /\ st[b] = "used" /\ ~Failed(b) /\ resv[b] # None
         /\ \A t \in Task : obj[t] = b => pc[t] \notin Making
         /\ ttm[b] = One(~asked[b] \/ Dropping(b)) + 1
         /\ gem[b] = 2 + Cardinality(In(b, Using))
  <1>1. BoInv(b) /\ TypeOK
    BY DEF Inv
  <1>2. \A t \in Task : obj[t] = b => pc[t] \notin Making
    BY <1>1 DEF BoInv, MakeInv
  <1>3. ~Failed(b)
    BY <1>2 DEF Failed, In, Making
  <1>4. st[b] = "used"
    BY <1>1 DEF BoInv, TypeOK
  <1>5. Cardinality(In(b, Using)) \in Nat
    BY FewUsing
  <1>6. gem[b] = 1 + One(handle[b] = "open") + Cardinality(In(b, Using))
    BY <1>1, <1>4 DEF BoInv
  <1>7. gem[b] = 2 + Cardinality(In(b, Using))
    BY <1>5, <1>6 DEF One
  <1> QED BY <1>1, <1>2, <1>3, <1>4, <1>7 DEF BoInv, One

\* What it says of one that a call works on.
LEMMA UsingFacts ==
  ASSUME Inv, NEW b \in Bo, NEW t \in Task, obj[t] = b, pc[t] \in Using
  PROVE  /\ st[b] \in {"used", "dying", "waiting"} /\ ~Failed(b) /\ resv[b] # None
         /\ \A u \in Task : obj[u] = b => pc[u] \notin Making
         /\ t \in In(b, Using)
         /\ Cardinality(In(b, Using)) \in Nat \ {0}
         /\ gem[b] = 1 + One(handle[b] = "open") + Cardinality(In(b, Using))
  <1>1. BoInv(b) /\ TypeOK
    BY DEF Inv
  <1>2. st[b] \in {"used", "dying", "waiting"}
    BY <1>1 DEF BoInv, TypeOK, Using
  <1>3. \A u \in Task : obj[u] = b => pc[u] \notin Making
    <2> SUFFICES ASSUME NEW u \in Task, obj[u] = b, pc[u] \in Making PROVE FALSE
      OBVIOUS
    <2>1. u = t
      BY <1>1 DEF BoInv, MakeInv
    <2> QED BY <2>1 DEF Using, Making
  <1>4. ~Failed(b)
    BY <1>3 DEF Failed, In, Making
  <1>5. t \in In(b, Using)
    BY DEF In
  <1>6. Cardinality(In(b, Using)) # 0
    BY <1>5, FewUsing, FS_EmptySet
  <1>7. gem[b] = 1 + One(handle[b] = "open") + Cardinality(In(b, Using))
    BY <1>1, <1>2 DEF BoInv
  <1> QED BY <1>1, <1>2, <1>3, <1>4, <1>5, <1>6, <1>7, FewUsing DEF BoInv

-----------------------------------------------------------------------------
(* pddgpu_bo_create *)

LEMMA StepBoCreate ==
  ASSUME Inv, NEW t \in Task, NEW b \in Bo, BoCreate(t, b)
  PROVE  Inv'
  <1>1. TypeOK /\ BoInv(b) /\ TaskInv
    BY DEF Inv
  <1>2. /\ pc[t] = "idle" /\ st[b] = "new"
        /\ st' = [st EXCEPT ![b] = "used"]
        /\ gem' = [gem EXCEPT ![b] = 1] /\ ttm' = [ttm EXCEPT ![b] = 1]
        /\ resv' = [resv EXCEPT ![b] = t] /\ obj' = [obj EXCEPT ![t] = b]
        /\ \E l \in {"validate", "validate_kernel"} : pc' = [pc EXCEPT ![t] = l]
        /\ UNCHANGED <<device_state, mem, req, handle, asked>>
    BY DEF BoCreate, At, Goto
  <1>3. TypeOK'
    BY <1>1, <1>2 DEF TypeOK
  <1>4. /\ obj[t] = None /\ \A u \in Task : obj[u] # b
        /\ handle[b] = "none" /\ ~asked[b]
    BY <1>1, <1>2 DEF BoInv, TaskInv
  <1>5. /\ obj'[t] = b /\ pc'[t] \in {"validate", "validate_kernel"}
        /\ \A u \in Task \ {t} : pc'[u] = pc[u] /\ obj'[u] = obj[u]
    BY <1>1, <1>2 DEF TypeOK
  <1>6. Moved(t, b)
    BY <1>1, <1>2, <1>4, <1>5, TaskAssumption DEF Moved, TypeOK
  <1>7. In(b, {"destroy"})' = {} /\ In(b, {"kvfree"})' = {} /\ In(b, Using)' = {}
    BY <1>4, <1>5 DEF In, Using
  <1>8. /\ st'[b] = "used" /\ gem'[b] = 1 /\ ttm'[b] = 1 /\ resv'[b] = t
        /\ handle'[b] = "none" /\ ~asked'[b]
    BY <1>1, <1>2, <1>4 DEF TypeOK
  <1>9. MakeInv(b)'
    BY <1>4, <1>5, <1>8 DEF MakeInv
  <1>10. Cardinality(In(b, Using)') = 0
    BY <1>7, FS_EmptySet
  <1>11. t # None
    BY TaskAssumption
  <1>12. BoInv(b)'
    BY <1>5, <1>7, <1>8, <1>9, <1>10, <1>11 DEF BoInv, Failed, Dropping, One
  <1> QED BY <1>3, <1>6, <1>12, MovedStep

\* While a structure is made its creator is the only thread on it.
LEMMA MakingFacts ==
  ASSUME Inv, NEW t \in Task, NEW b \in Bo, obj[t] = b, pc[t] \in Making
  PROVE  /\ handle[b] = "none" /\ ~asked[b]
         /\ \A u \in Task \ {t} : obj[u] # b
         /\ In(b, Using) = {} /\ ~Dropping(b) /\ gem[b] = 1
         /\ pc[t] # "kvfree" =>
              /\ ~Failed(b) /\ st[b] = "used" /\ resv[b] # None /\ ttm[b] = 1
         /\ st[b] \in {"used", "freed"}
  <1>1. BoInv(b) /\ TypeOK
    BY DEF Inv
  <1>2. /\ handle[b] = "none" /\ ~asked[b]
        /\ \A u \in Task \ {t} : obj[u] # b
        /\ st[b] \in {"used", "freed"} /\ (pc[t] # "kvfree" => st[b] = "used")
    BY <1>1 DEF BoInv, MakeInv
  <1>3. In(b, Using) = {} /\ In(b, {"destroy"}) = {}
    BY <1>2 DEF In, Using, Making
  <1>4. pc[t] # "kvfree" => ~Failed(b)
    BY <1>2 DEF Failed, In
  <1>5. Cardinality(In(b, Using)) = 0
    BY <1>3, FS_EmptySet
  <1>6. gem[b] = 1
    BY <1>1, <1>2, <1>5 DEF BoInv, One
  <1> QED BY <1>1, <1>2, <1>3, <1>4, <1>6 DEF BoInv, One, Dropping

\* The creator goes on to another label and nothing else is disturbed.
LEMMA StepMaking ==
  ASSUME Inv, NEW t \in Task, NEW b \in Bo, obj[t] = b,
         pc[t] \in Making \ {"kvfree"}, NEW l \in Making \ {"kvfree"},
         pc' = [pc EXCEPT ![t] = l], mem' \in [Bo -> MemType \cup {"none"}],
         UNCHANGED <<device_state, st, gem, ttm, resv, req, handle, asked, obj>>
  PROVE  Inv'
  <1>1. TypeOK /\ BoInv(b) /\ TaskInv
    BY DEF Inv
  <1>2. TypeOK'
    BY <1>1 DEF TypeOK, Making
  <1>3. /\ obj'[t] = b /\ pc'[t] = l
        /\ \A u \in Task \ {t} : pc'[u] = pc[u] /\ obj'[u] = obj[u]
    BY <1>1 DEF TypeOK
  <1>4. Moved(t, b)
    BY <1>3, TaskAssumption DEF Moved, Making
  <1>5. /\ In(b, {"destroy"})' = {} /\ In(b, {"kvfree"})' = {} /\ In(b, Using)' = {}
    BY <1>3, MakingFacts DEF In, Using, Making
  <1>6. MakeInv(b)'
    BY <1>3, MakingFacts DEF MakeInv
  <1>7. Cardinality(In(b, Using)') = 0
    BY <1>5, FS_EmptySet
  <1>8. BoInv(b)'
    BY <1>3, <1>5, <1>6, <1>7, MakingFacts DEF BoInv, Failed, Dropping, One
  <1> QED BY <1>2, <1>4, <1>8, MovedStep

LEMMA StepPlaced ==
  ASSUME Inv, NEW t \in Task, NEW b \in Bo, Placed(t, b)
  PROVE  Inv'
  <1>1. mem \in [Bo -> MemType \cup {"none"}]
    BY DEF Inv, TypeOK
  <1>2. mem' \in [Bo -> MemType \cup {"none"}]
    BY <1>1 DEF Placed, Places
  <1> QED BY <1>2, StepMaking DEF Placed, AfterCreate, Goto, At, Making

LEMMA StepReserve ==
  ASSUME Inv, NEW t \in Task, NEW b \in Bo, Reserve(t, b)
  PROVE  Inv'
  <1>1. resv[b] # None
    BY MakingFacts DEF Reserve, Making
  <1>2. mem' \in [Bo -> MemType \cup {"none"}]
    BY DEF Reserve, Inv, TypeOK
  <1> QED BY <1>1, <1>2, StepMaking DEF Reserve, Goto, Making

LEMMA StepNotPlaced ==
  ASSUME Inv, NEW t \in Task, NEW b \in Bo, NotPlaced(t, b)
  PROVE  Inv'
  <1>1. TypeOK /\ BoInv(b) /\ TaskInv
    BY DEF Inv
  <1>2. pc[t] \in Making \ {"kvfree"} /\ obj[t] = b
    BY DEF NotPlaced, Making
  <1>3. /\ st[b] = "used" /\ gem[b] = 1 /\ handle[b] = "none" /\ ~asked[b]
        /\ \A u \in Task \ {t} : obj[u] # b
    BY <1>2, MakingFacts
  <1>4. /\ \E s \in {"used", "freed"} : st' = [st EXCEPT ![b] = s]
        /\ ttm' = [ttm EXCEPT ![b] = 0] /\ resv' = [resv EXCEPT ![b] = None]
        /\ pc' = [pc EXCEPT ![t] = "kvfree"]
        /\ UNCHANGED <<device_state, gem, mem, req, handle, asked, obj>>
    BY <1>3 DEF NotPlaced, Destroyed, Goto
  <1>5. TypeOK'
    BY <1>1, <1>4 DEF TypeOK
  <1>6. /\ obj'[t] = b /\ pc'[t] = "kvfree" /\ st'[b] \in {"used", "freed"}
        /\ \A u \in Task \ {t} : pc'[u] = pc[u] /\ obj'[u] = obj[u]
    BY <1>1, <1>2, <1>4 DEF TypeOK
  <1>7. Moved(t, b)
    BY <1>1, <1>2, <1>4, <1>6, TaskAssumption DEF Moved, TypeOK
  <1>8. /\ In(b, {"destroy"})' = {} /\ In(b, Using)' = {} /\ t \in In(b, {"kvfree"})'
    BY <1>3, <1>6 DEF In, Using
  <1>9. MakeInv(b)'
    BY <1>3, <1>4, <1>6 DEF MakeInv
  <1>10. Cardinality(In(b, Using)') = 0
    BY <1>8, FS_EmptySet
  <1>11. BoInv(b)'
    BY <1>3, <1>4, <1>6, <1>8, <1>9, <1>10 DEF BoInv, Failed, Dropping, One
  <1> QED BY <1>5, <1>7, <1>11, MovedStep

LEMMA StepCreateFails ==
  ASSUME Inv, NEW t \in Task, NEW b \in Bo, CreateFails(t, b)
  PROVE  Inv'
  <1>1. TypeOK /\ BoInv(b) /\ TaskInv
    BY DEF Inv
  <1>2. pc[t] = "kvfree" /\ obj[t] = b /\ pc[t] \in Making
    BY DEF CreateFails, At, Making
  <1>3. /\ gem[b] = 1 /\ handle[b] = "none" /\ ~asked[b]
        /\ \A u \in Task \ {t} : obj[u] # b
    BY <1>2, MakingFacts
  <1>4. /\ st' = [st EXCEPT ![b] = "freed"]
        /\ pc' = [pc EXCEPT ![t] = "idle"] /\ obj' = [obj EXCEPT ![t] = None]
        /\ UNCHANGED <<device_state, gem, ttm, resv, mem, req, handle, asked>>
    BY DEF CreateFails, Goto
  <1>5. TypeOK'
    BY <1>1, <1>4 DEF TypeOK
  <1>6. /\ obj'[t] = None /\ pc'[t] = "idle" /\ st'[b] = "freed"
        /\ \A u \in Task \ {t} : pc'[u] = pc[u] /\ obj'[u] = obj[u]
    BY <1>1, <1>4 DEF TypeOK
  <1>7. Moved(t, b)
    BY <1>1, <1>2, <1>4, <1>6 DEF Moved, TypeOK
  <1>8. \A u \in Task : obj'[u] # b
    BY <1>3, <1>6, TaskAssumption
  <1>9. In(b, {"destroy"})' = {} /\ In(b, Using)' = {}
    BY <1>8 DEF In
  <1>10. Cardinality(In(b, Using)') = 0
    BY <1>9, FS_EmptySet
  <1>11. BoInv(b)'
    BY <1>3, <1>4, <1>6, <1>8, <1>9, <1>10 DEF BoInv, MakeInv, Failed, Dropping, One
  <1> QED BY <1>5, <1>7, <1>11, MovedStep

-----------------------------------------------------------------------------
(* The client calls *)

LEMMA StepHandleCreate ==
  ASSUME Inv, NEW t \in Task, NEW b \in Bo, HandleCreate(t, b)
  PROVE  Inv'
  <1>1. TypeOK /\ BoInv(b) /\ TaskInv
    BY DEF Inv
  <1>2. pc[t] = "handle" /\ obj[t] = b /\ pc[t] \in Making
    BY DEF HandleCreate, At, Making
  <1>3. /\ gem[b] = 1 /\ ttm[b] = 1 /\ st[b] = "used" /\ resv[b] # None /\ ~asked[b]
        /\ \A u \in Task \ {t} : obj[u] # b
    BY <1>2, MakingFacts
  <1>4. /\ gem' = [gem EXCEPT ![b] = @ + 1] /\ ttm' = [ttm EXCEPT ![b] = @ + 1]
        /\ handle' = [handle EXCEPT ![b] = "open"]
        /\ pc' = [pc EXCEPT ![t] = "idle"] /\ obj' = [obj EXCEPT ![t] = None]
        /\ UNCHANGED <<device_state, st, resv, mem, req, asked>>
    BY DEF HandleCreate, gem_open_object, Goto
  <1>5. TypeOK'
    BY <1>1, <1>4 DEF TypeOK
  <1>6. /\ obj'[t] = None /\ pc'[t] = "idle" /\ handle'[b] = "open"
        /\ gem'[b] = 2 /\ ttm'[b] = 2
        /\ \A u \in Task \ {t} : pc'[u] = pc[u] /\ obj'[u] = obj[u]
    BY <1>1, <1>3, <1>4 DEF TypeOK
  <1>7. Moved(t, b)
    BY <1>1, <1>2, <1>4, <1>6 DEF Moved, TypeOK
  <1>8. \A u \in Task : obj'[u] # b
    BY <1>3, <1>6, TaskAssumption
  <1>9. In(b, {"destroy"})' = {} /\ In(b, Using)' = {}
    BY <1>8 DEF In
  <1>10. Cardinality(In(b, Using)') = 0
    BY <1>9, FS_EmptySet
  <1>11. BoInv(b)'
    BY <1>3, <1>4, <1>6, <1>8, <1>9, <1>10 DEF BoInv, MakeInv, Failed, Dropping, One
  <1> QED BY <1>5, <1>7, <1>11, MovedStep

LEMMA StepHandleFails ==
  ASSUME Inv, NEW t \in Task, NEW b \in Bo, HandleFails(t, b)
  PROVE  Inv'
  <1>1. TypeOK /\ BoInv(b) /\ TaskInv
    BY DEF Inv
  <1>2. pc[t] = "handle" /\ obj[t] = b /\ pc[t] \in Making
    BY DEF HandleFails, At, Making
  <1>3. /\ gem[b] = 1 /\ ttm[b] = 1 /\ st[b] = "used" /\ resv[b] # None /\ ~asked[b]
        /\ handle[b] = "none"
        /\ \A u \in Task \ {t} : obj[u] # b
    BY <1>2, MakingFacts
  <1>4. /\ st' = [st EXCEPT ![b] = "dying"] /\ ttm' = ttm /\ mem' = mem
        /\ pc' = [pc EXCEPT ![t] = "idle"] /\ obj' = [obj EXCEPT ![t] = None]
        /\ UNCHANGED <<device_state, gem, resv, req, handle, asked>>
    BY <1>1, <1>3, LastPut DEF HandleFails, Goto
  <1>5. TypeOK'
    BY <1>1, <1>4 DEF TypeOK
  <1>6. /\ obj'[t] = None /\ pc'[t] = "idle" /\ st'[b] = "dying"
        /\ \A u \in Task \ {t} : pc'[u] = pc[u] /\ obj'[u] = obj[u]
    BY <1>1, <1>4 DEF TypeOK
  <1>7. Moved(t, b)
    BY <1>1, <1>2, <1>4, <1>6 DEF Moved, TypeOK
  <1>8. \A u \in Task : obj'[u] # b
    BY <1>3, <1>6, TaskAssumption
  <1>9. In(b, {"destroy"})' = {} /\ In(b, Using)' = {}
    BY <1>8 DEF In
  <1>10. Cardinality(In(b, Using)') = 0
    BY <1>9, FS_EmptySet
  <1>11. BoInv(b)'
    BY <1>3, <1>4, <1>6, <1>8, <1>9, <1>10 DEF BoInv, MakeInv, Failed, Dropping, One
  <1> QED BY <1>5, <1>7, <1>11, MovedStep

LEMMA StepLookup ==
  ASSUME Inv, NEW t \in Task, NEW b \in Bo, Lookup(t, b)
  PROVE  Inv'
  <1>1. TypeOK /\ BoInv(b) /\ TaskInv
    BY DEF Inv
  <1>2. /\ pc[t] = "idle" /\ obj[t] = None /\ handle[b] = "open"
        /\ \/ pc' = [pc EXCEPT ![t] = "use"] /\ asked' = asked
           \/ /\ ~asked[b] /\ pc' = [pc EXCEPT ![t] = "destroy"]
              /\ asked' = [asked EXCEPT ![b] = TRUE]
        /\ gem' = [gem EXCEPT ![b] = @ + 1] /\ obj' = [obj EXCEPT ![t] = b]
        /\ UNCHANGED <<device_state, st, ttm, resv, mem, req, handle>>
    BY <1>1 DEF Lookup, gem_object_lookup, At, Goto, TaskInv
  <1>3. TypeOK'
    <2>1. asked' \in [Bo -> BOOLEAN]
      BY <1>1, <1>2 DEF TypeOK
    <2>2. \E l \in {"use", "destroy"} : pc' = [pc EXCEPT ![t] = l]
      BY <1>2
    <2>3. gem' \in [Bo -> Nat] /\ obj' \in [Task -> Bo \cup {None}]
      BY <1>1, <1>2 DEF TypeOK
    <2> QED BY <1>1, <1>2, <2>1, <2>2, <2>3 DEF TypeOK
  <1>4. /\ obj'[t] = b /\ pc'[t] \in {"use", "destroy"} /\ gem'[b] = gem[b] + 1
        /\ \A u \in Task \ {t} : pc'[u] = pc[u] /\ obj'[u] = obj[u]
    BY <1>1, <1>2 DEF TypeOK
  <1>5. Moved(t, b)
    BY <1>1, <1>2, <1>4, TaskAssumption DEF Moved, TypeOK
  <1>6. /\ st[b] = "used" /\ ~Failed(b) /\ resv[b] # None
        /\ \A u \in Task : obj[u] = b => pc[u] \notin Making
        /\ ttm[b] = One(~asked[b] \/ Dropping(b)) + 1
        /\ gem[b] = 2 + Cardinality(In(b, Using))
    BY <1>2, OpenFacts
  <1>7. \A u \in Task : obj'[u] = b => pc'[u] \notin Making
    BY <1>4, <1>6 DEF Making
  <1>8. MakeInv(b)' /\ ~Failed(b)'
    BY <1>7 DEF MakeInv, Failed, In, Making
  <1>9. t \notin In(b, Using) /\ In(b, Using)' = In(b, Using) \cup {t}
    BY <1>2, <1>4 DEF In, Using
  <1>10. Cardinality(In(b, Using)') = Cardinality(In(b, Using)) + 1
    BY <1>9, FewUsing, FS_AddElement
  <1>11. gem'[b] = 2 + Cardinality(In(b, Using)')
    BY <1>4, <1>6, <1>10, FewUsing
  <1>12. CASE asked' = asked /\ pc'[t] = "use"
    <2>1. In(b, {"destroy"})' = In(b, {"destroy"})
      BY <1>2, <1>4, <1>12 DEF In
    <2>2. Dropping(b)' <=> Dropping(b)
      BY <2>1 DEF Dropping
    <2>3. /\ st'[b] = "used" /\ resv'[b] # None /\ handle'[b] = "open"
          /\ ttm'[b] = One(~asked'[b] \/ Dropping(b)') + 1
      BY <1>2, <1>6, <1>12, <2>2 DEF One
    <2>4. BoInv(b)'
      BY <1>1, <1>8, <1>11, <1>12, <2>1, <2>2, <2>3, FewUsing DEF BoInv, One
    <2> QED BY <1>3, <1>5, <2>4, MovedStep
  <1>13. CASE /\ ~asked[b] /\ pc'[t] = "destroy"
              /\ asked' = [asked EXCEPT ![b] = TRUE]
    <2>1. ~Dropping(b)
      BY <1>1, <1>13 DEF BoInv
    <2>2. In(b, {"destroy"})' = {t}
      BY <1>4, <1>13, <2>1 DEF In, Dropping
    <2>3. Dropping(b)' /\ asked'[b]
      BY <1>1, <1>13, <2>2 DEF Dropping, TypeOK
    <2>4. /\ st'[b] = "used" /\ resv'[b] # None /\ handle'[b] = "open"
          /\ ttm'[b] = One(~asked'[b] \/ Dropping(b)') + 1
      BY <1>2, <1>6, <1>13, <2>3 DEF One
    <2>5. BoInv(b)'
      BY <1>8, <1>11, <2>2, <2>3, <2>4, FewUsing DEF BoInv, One
    <2> QED BY <1>3, <1>5, <2>5, MovedStep
  <1> QED BY <1>1, <1>2, <1>12, <1>13 DEF TypeOK

LEMMA StepUse ==
  ASSUME Inv, NEW t \in Task, NEW b \in Bo, Use(t, b)
  PROVE  Inv'
  <1>1. TypeOK /\ BoInv(b) /\ TaskInv
    BY DEF Inv
  <1>2. /\ pc[t] = "use" /\ obj[t] = b /\ pc[t] \in Using
        /\ pc' = [pc EXCEPT ![t] = "put"]
        /\ UNCHANGED <<device_state, st, gem, ttm, resv, mem, req, handle, asked, obj>>
    BY DEF Use, At, Goto, Using, bo
  <1>3. TypeOK'
    BY <1>1, <1>2 DEF TypeOK
  <1>4. /\ obj'[t] = b /\ pc'[t] = "put"
        /\ \A u \in Task \ {t} : pc'[u] = pc[u] /\ obj'[u] = obj[u]
    BY <1>1, <1>2 DEF TypeOK
  <1>5. Moved(t, b)
    BY <1>2, <1>4, TaskAssumption DEF Moved
  <1>6. /\ In(b, Using)' = In(b, Using)
        /\ In(b, {"destroy"})' = In(b, {"destroy"})
        /\ In(b, {"kvfree"})' = In(b, {"kvfree"})
    BY <1>2, <1>4 DEF In, Using
  <1>7. /\ ~Failed(b) /\ st[b] # "freed"
        /\ \A u \in Task : obj[u] = b => pc[u] \notin Making
    BY <1>2, UsingFacts
  <1>8. \A u \in Task : obj'[u] = b => pc'[u] \notin Making
    BY <1>4, <1>7 DEF Making
  <1>9. MakeInv(b)' /\ (Failed(b)' <=> Failed(b)) /\ (Dropping(b)' <=> Dropping(b))
    BY <1>6, <1>8 DEF MakeInv, Failed, Dropping
  <1>10. st[b] # "new"
    BY <1>1, <1>2 DEF BoInv
  <1>11. BoInv(b)'
    BY <1>1, <1>2, <1>6, <1>7, <1>8, <1>9, <1>10 DEF BoInv, One
  <1> QED BY <1>3, <1>5, <1>11, MovedStep

LEMMA StepGemDestroy ==
  ASSUME Inv, NEW t \in Task, NEW b \in Bo, GemDestroy(t, b)
  PROVE  Inv'
  <1>1. TypeOK /\ BoInv(b) /\ TaskInv
    BY DEF Inv
  <1>2. /\ pc[t] = "destroy" /\ obj[t] = b /\ pc[t] \in Using /\ TtmPut(b)
        /\ pc' = [pc EXCEPT ![t] = "put"]
        /\ UNCHANGED <<device_state, gem, resv, req, handle, asked, obj>>
    BY DEF GemDestroy, At, Goto, Using
  <1>3. t \in In(b, {"destroy"})
    BY <1>2 DEF In
  <1>4. Dropping(b) /\ asked[b] /\ \A u \in In(b, {"destroy"}) : u = t
    BY <1>1, <1>3 DEF BoInv, Dropping
  <1>5. /\ st[b] = "used" /\ ~Failed(b) /\ resv[b] # None
        /\ \A u \in Task : obj[u] = b => pc[u] \notin Making
        /\ gem[b] = 1 + One(handle[b] = "open") + Cardinality(In(b, Using))
    BY <1>1, <1>2, <1>4, UsingFacts DEF BoInv
  <1>6. ttm[b] = 1 + One(handle[b] = "open")
    BY <1>1, <1>4, <1>5 DEF BoInv, One
  <1>7. /\ mem' = mem
        /\ \/ handle[b] = "open" /\ ttm' = [ttm EXCEPT ![b] = @ - 1] /\ st' = st
           \/ handle[b] # "open" /\ ttm' = ttm /\ st' = [st EXCEPT ![b] = "dying"]
    BY <1>1, <1>2, <1>5, <1>6, LastPut DEF One
  <1>8. TypeOK'
    BY <1>1, <1>2, <1>6, <1>7 DEF TypeOK, One
  <1>9. /\ obj'[t] = b /\ pc'[t] = "put"
        /\ \A u \in Task \ {t} : pc'[u] = pc[u] /\ obj'[u] = obj[u]
    BY <1>1, <1>2 DEF TypeOK
  <1>10. Moved(t, b)
    BY <1>1, <1>2, <1>7, <1>9, TaskAssumption DEF Moved, TypeOK
  <1>11. /\ In(b, Using)' = In(b, Using) /\ In(b, {"destroy"})' = {}
    BY <1>2, <1>4, <1>9 DEF In, Using
  <1>12. \A u \in Task : obj'[u] = b => pc'[u] \notin Making
    BY <1>5, <1>9 DEF Making
  <1>13. MakeInv(b)' /\ ~Failed(b)' /\ ~Dropping(b)'
    BY <1>11, <1>12 DEF MakeInv, Failed, Dropping, In, Making
  <1>14. /\ gem'[b] = 1 + One(handle'[b] = "open") + Cardinality(In(b, Using)')
         /\ asked'[b] /\ resv'[b] # None
    BY <1>2, <1>4, <1>5, <1>11 DEF One
  <1>15. \/ st'[b] = "used" /\ handle'[b] = "open" /\ ttm'[b] = 1
         \/ st'[b] = "dying" /\ handle'[b] # "open" /\ ttm'[b] = 1
    BY <1>1, <1>2, <1>5, <1>6, <1>7 DEF TypeOK, One
  <1>16. BoInv(b)'
    BY <1>11, <1>12, <1>13, <1>14, <1>15 DEF BoInv, One
  <1> QED BY <1>8, <1>10, <1>16, MovedStep

LEMMA StepGemClose ==
  ASSUME Inv, NEW t \in Task, NEW b \in Bo, GemClose(t, b)
  PROVE  Inv'
  <1>1. TypeOK /\ BoInv(b) /\ TaskInv
    BY DEF Inv
  <1>2. /\ pc[t] = "idle" /\ obj[t] = None /\ handle[b] = "open" /\ TtmPut(b)
        /\ handle' = [handle EXCEPT ![b] = "closed"]
        /\ pc' = [pc EXCEPT ![t] = "put"] /\ obj' = [obj EXCEPT ![t] = b]
        /\ UNCHANGED <<device_state, gem, resv, req, asked>>
    BY <1>1 DEF GemClose, At, Goto, TaskInv
  <1>3. /\ st[b] = "used" /\ ~Failed(b) /\ resv[b] # None
        /\ \A u \in Task : obj[u] = b => pc[u] \notin Making
        /\ ttm[b] = One(~asked[b] \/ Dropping(b)) + 1
        /\ gem[b] = 2 + Cardinality(In(b, Using))
    BY <1>2, OpenFacts
  <1>4. /\ mem' = mem
        /\ \/ /\ ~asked[b] \/ Dropping(b)
              /\ ttm' = [ttm EXCEPT ![b] = @ - 1] /\ st' = st
           \/ /\ ~(~asked[b] \/ Dropping(b))
              /\ ttm' = ttm /\ st' = [st EXCEPT ![b] = "dying"]
    BY <1>1, <1>2, <1>3, LastPut DEF One
  <1>5. TypeOK'
    BY <1>1, <1>2, <1>3, <1>4 DEF TypeOK, One
  <1>6. /\ obj'[t] = b /\ pc'[t] = "put" /\ handle'[b] = "closed"
        /\ \A u \in Task \ {t} : pc'[u] = pc[u] /\ obj'[u] = obj[u]
    BY <1>1, <1>2 DEF TypeOK
  <1>7. Moved(t, b)
    BY <1>1, <1>2, <1>4, <1>6, TaskAssumption DEF Moved, TypeOK
  <1>8. /\ t \notin In(b, Using) /\ In(b, Using)' = In(b, Using) \cup {t}
        /\ In(b, {"destroy"})' = In(b, {"destroy"})
    BY <1>2, <1>6, TaskAssumption DEF In, Using
  <1>9. Cardinality(In(b, Using)') = Cardinality(In(b, Using)) + 1
    BY <1>8, FewUsing, FS_AddElement
  <1>10. \A u \in Task : obj'[u] = b => pc'[u] \notin Making
    BY <1>3, <1>6 DEF Making
  <1>11. MakeInv(b)' /\ ~Failed(b)' /\ (Dropping(b)' <=> Dropping(b))
    BY <1>8, <1>10 DEF MakeInv, Failed, Dropping, In, Making
  <1>12. gem'[b] = 1 + One(handle'[b] = "open") + Cardinality(In(b, Using)')
    BY <1>2, <1>3, <1>6, <1>9, FewUsing DEF One
  <1>13. \/ /\ st'[b] = "used"
            /\ ttm'[b] = One(~asked'[b] \/ Dropping(b)') + One(handle'[b] = "open")
         \/ st'[b] = "dying" /\ ttm'[b] = 1 /\ ~Dropping(b)'
    BY <1>1, <1>2, <1>3, <1>4, <1>6, <1>11 DEF TypeOK, One
  <1>14. BoInv(b)'
    BY <1>1, <1>2, <1>3, <1>6, <1>8, <1>10, <1>11, <1>12, <1>13 DEF BoInv
  <1> QED BY <1>5, <1>7, <1>14, MovedStep

LEMMA StepGemPut ==
  ASSUME Inv, NEW t \in Task, NEW b \in Bo, GemPut(t, b)
  PROVE  Inv'
  <1>1. TypeOK /\ BoInv(b) /\ TaskInv
    BY DEF Inv
  <1>2. pc[t] = "put" /\ obj[t] = b /\ pc[t] \in Using
    BY DEF GemPut, At, Using
  <1>3. /\ st[b] \in {"used", "dying", "waiting"} /\ ~Failed(b)
        /\ \A u \in Task : obj[u] = b => pc[u] \notin Making
        /\ t \in In(b, Using)
        /\ Cardinality(In(b, Using)) \in Nat \ {0}
        /\ gem[b] = 1 + One(handle[b] = "open") + Cardinality(In(b, Using))
    BY <1>2, UsingFacts
  <1>4. gem[b] > 1
    BY <1>3 DEF One
  <1>5. /\ gem' = [gem EXCEPT ![b] = @ - 1]
        /\ pc' = [pc EXCEPT ![t] = "idle"] /\ obj' = [obj EXCEPT ![t] = None]
        /\ UNCHANGED <<device_state, st, ttm, resv, mem, req, handle, asked>>
    BY <1>4 DEF GemPut, Goto
  <1>6. TypeOK'
    BY <1>1, <1>4, <1>5 DEF TypeOK
  <1>7. /\ obj'[t] = None /\ pc'[t] = "idle" /\ gem'[b] = gem[b] - 1
        /\ \A u \in Task \ {t} : pc'[u] = pc[u] /\ obj'[u] = obj[u]
    BY <1>1, <1>5 DEF TypeOK
  <1>8. Moved(t, b)
    BY <1>1, <1>2, <1>5, <1>7 DEF Moved, TypeOK
  <1>9. /\ In(b, Using)' = In(b, Using) \ {t}
        /\ In(b, {"destroy"})' = In(b, {"destroy"})
    BY <1>2, <1>7, TaskAssumption DEF In, Using
  <1>10. Cardinality(In(b, Using)') = Cardinality(In(b, Using)) - 1
    BY <1>3, <1>9, FewUsing, FS_RemoveElement
  <1>11. \A u \in Task : obj'[u] = b => pc'[u] \notin Making
    BY <1>3, <1>7 DEF Making
  <1>12. MakeInv(b)' /\ ~Failed(b)' /\ (Dropping(b)' <=> Dropping(b))
    BY <1>9, <1>11 DEF MakeInv, Failed, Dropping, In, Making
  <1>13. gem'[b] = 1 + One(handle'[b] = "open") + Cardinality(In(b, Using)')
    BY <1>3, <1>5, <1>7, <1>10 DEF One
  <1>14. BoInv(b)'
    BY <1>1, <1>3, <1>5, <1>9, <1>11, <1>12, <1>13 DEF BoInv, One
  <1> QED BY <1>6, <1>8, <1>14, MovedStep

-----------------------------------------------------------------------------
(* The worker and the end of the device *)

LEMMA StepWorker ==
  ASSUME Inv, NEW b \in Bo, WorkerRuns(b)
  PROVE  Inv'
  <1>1. TypeOK /\ BoInv(b) /\ TaskInv
    BY DEF Inv
  <1>2. st[b] \in {"dying", "waiting"} /\ resv[b] # None
    BY <1>1 DEF WorkerRuns, BoInv
  <1>3. /\ st' = [st EXCEPT ![b] = "waiting"]
        /\ UNCHANGED <<device_state, gem, ttm, resv, mem, req, handle, asked, pc, obj>>
    BY <1>2 DEF WorkerRuns
  <1>4. TypeOK'
    BY <1>1, <1>3 DEF TypeOK
  <1>5. Touches(b)
    BY <1>1, <1>3 DEF Touches, TypeOK
  <1>6. \A L : In(b, L)' = In(b, L)
    BY <1>3 DEF In
  <1>7. (Failed(b)' <=> Failed(b)) /\ (Dropping(b)' <=> Dropping(b))
    BY <1>3 DEF Failed, Dropping, In
  <1>8. st'[b] = "waiting"
    BY <1>1, <1>3 DEF TypeOK
  <1>9. \A u \in Task : obj'[u] = b => pc'[u] \notin Making
    BY <1>1, <1>2, <1>3 DEF BoInv
  <1>10. MakeInv(b)'
    BY <1>9 DEF MakeInv
  <1>11. /\ In(b, {"destroy"})' = In(b, {"destroy"})
         /\ In(b, Using)' = In(b, Using)
    BY <1>6
  <1>12. BoInv(b)'
    BY <1>1, <1>2, <1>3, <1>7, <1>8, <1>9, <1>10, <1>11 DEF BoInv, One
  <1>13. \A c \in Bo : BoInv(c)'
    BY <1>5, <1>12, Local DEF Inv
  <1>14. TaskInv'
    BY <1>1, <1>3 DEF TaskInv
  <1> QED BY <1>4, <1>13, <1>14 DEF Inv

LEMMA StepStill ==
  ASSUME Inv, UNCHANGED <<bo, pc, obj>>, device_state' \in {device_state, "SHUTDOWN"}
  PROVE  Inv'
  <1>1. TypeOK /\ TaskInv /\ \A b \in Bo : BoInv(b)
    BY DEF Inv
  <1>2. TypeOK' /\ TaskInv'
    BY <1>1 DEF TypeOK, TaskInv, bo
  <1>3. UNCHANGED <<st, gem, ttm, resv, handle, asked, pc, obj>>
    BY DEF bo
  <1>4. \A b, L : In(b, L)' = In(b, L)
    BY <1>3 DEF In
  <1>5. ASSUME NEW b \in Bo PROVE BoInv(b)'
    <2>1. /\ In(b, {"destroy"})' = In(b, {"destroy"})
          /\ In(b, Using)' = In(b, Using)
      BY <1>4
    <2>2. (Failed(b)' <=> Failed(b)) /\ (Dropping(b)' <=> Dropping(b))
      BY <1>4 DEF Failed, Dropping
    <2>3. MakeInv(b)'
      BY <1>1, <1>3 DEF BoInv, MakeInv
    <2> QED BY <1>1, <1>3, <2>1, <2>2, <2>3 DEF BoInv, One
  <1> QED BY <1>2, <1>5 DEF Inv

LEMMA InvStep == Inv /\ [Next]_vars => Inv'
  <1> SUFFICES ASSUME Inv, [Next]_vars PROVE Inv'
    OBVIOUS
  <1>1. ASSUME NEW t \in Task, Step(t) PROVE Inv'
    BY <1>1, StepPlaced, StepNotPlaced, StepCreateFails, StepReserve,
       StepHandleCreate, StepHandleFails, StepUse, StepGemDestroy, StepGemPut
    DEF Step
  <1>2. ASSUME NEW t \in Task, Call(t) PROVE Inv'
    BY <1>2, StepBoCreate, StepLookup, StepGemClose DEF Call
  <1>3. ASSUME NEW b \in Bo, WorkerRuns(b) PROVE Inv'
    BY <1>3, StepWorker
  <1>4. CASE Shut \/ UNCHANGED vars
    BY <1>4, StepStill DEF Shut, vars
  <1> QED BY <1>1, <1>2, <1>3, <1>4 DEF Next

LEMMA Invariance == Spec => []Inv
  BY InvInit, InvStep, PTL DEF Spec

-----------------------------------------------------------------------------
\* Every variable keeps its type; in particular no count ever goes below zero.
THEOREM TypeCorrect == Spec => []TypeOK
  <1>1. Inv => TypeOK
    BY DEF Inv
  <1> QED BY <1>1, Invariance, PTL

\* Both reference counts are exactly what the handles and the calls in flight
\* account for, for any number of threads.
THEOREM Counted == Spec => []RefsAddUp
  <1>1. Inv => RefsAddUp
    <2> SUFFICES ASSUME Inv, NEW b \in Bo, st[b] = "used", In(b, {"kvfree"}) = {}
                 PROVE  /\ gem[b] = 1 + One(handle[b] = "open")
                                      + Cardinality(In(b, {"use", "destroy", "put"}))
                        /\ ttm[b] = One(~asked[b] \/ In(b, {"destroy"}) # {})
                                      + One(handle[b] = "open")
      BY DEF RefsAddUp
    <2>1. BoInv(b) /\ ~Failed(b)
      BY DEF Inv, Failed
    <2> QED BY <2>1 DEF BoInv, Dropping, Using
  <1> QED BY <1>1, Invariance, PTL

\* No open handle and no call in flight ever names freed memory, but for the
\* error path of bo_create.
THEOREM NobodyFreed == Spec => []NobodyUsesFreed
  <1>1. Inv => NobodyUsesFreed
    <2> SUFFICES ASSUME Inv PROVE NobodyUsesFreed
      OBVIOUS
    <2>1. \A b \in Bo : handle[b] = "open" => Live(b)
      BY OpenFacts DEF Live
    <2>2. ASSUME NEW t \in Task, pc[t] \notin {"idle", "kvfree"} PROVE Live(obj[t])
      <3>1. obj[t] \in Bo /\ pc[t] \in Using \cup Making
        BY <2>2 DEF Inv, TaskInv, TypeOK, Using, Making
      <3> QED BY <2>2, <3>1, UsingFacts, MakingFacts DEF Live
    <2> QED BY <2>1, <2>2 DEF NobodyUsesFreed
  <1> QED BY <1>1, Invariance, PTL

\* What the last put leaves to TTM's worker is reserved and stays so: the worker
\* waits for ever, and the memory of a buffer object that bo_create returned never
\* comes back.  This is DestroyedIsReturned's violation, for every instance.
THEOREM WorkerWaits ==
  Spec => [](\A b \in Bo : st[b] \in {"dying", "waiting"} => resv[b] # None)
  <1>1. Inv => \A b \in Bo : st[b] \in {"dying", "waiting"} => resv[b] # None
    BY DEF Inv, BoInv
  <1> QED BY <1>1, Invariance, PTL
=============================================================================
