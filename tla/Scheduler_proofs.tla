-------------------------- MODULE Scheduler_proofs --------------------------
(***************************************************************************)
(* Proofs for Scheduler, for any number of blocks and slots: what the two  *)
(* list operations of process.c do to the ring, LinkAfter (add_process)    *)
(* and the unlinking of remove_process, and the invariants.                *)
(***************************************************************************)
EXTENDS Scheduler, FiniteSetTheorems, WellFoundedInduction, TLAPS

-----------------------------------------------------------------------------
(***************************************************************************)
(* The ring.                                                               *)
(***************************************************************************)
\* process.c 46-55: the search for a slot finds a free one when there is one.
LEMMA SlotFound ==
  ASSUME FreeSlots # {}
  PROVE  LowestFreeSlot \in FreeSlots
<1>1. FreeSlots \subseteq Nat
  BY SlotAssumption DEF FreeSlots, Slot
<1>2. PICK i \in FreeSlots : \A j \in FreeSlots : ~(<<j, i>> \in OpToRel(<, Nat))
  BY <1>1, NatLessThanWellFounded, WFMin
<1>3. \A j \in FreeSlots : i <= j
  <2> SUFFICES ASSUME NEW j \in FreeSlots PROVE i <= j
    OBVIOUS
  <2>1. i \in Nat /\ j \in Nat
    BY <1>1
  <2>2. ~(j < i)
    <3> DEFINE pair == <<j, i>>
    <3>1. pair \notin {ss \in Nat \X Nat : ss[1] < ss[2]}
      BY <1>2 DEF OpToRel
    <3>2. pair \in Nat \X Nat /\ pair[1] = j /\ pair[2] = i
      BY <2>1
    <3> HIDE DEF pair
    <3> QED
      BY <3>1, <3>2
  <2> QED
    BY <2>1, <2>2
<1> QED
  BY <1>3 DEF LowestFreeSlot

\* The blocks of the ring are finitely many, and none of them when the count is 0.
LEMMA RingFinite ==
  ASSUME real_nbprocs = Cardinality(Ring)
  PROVE  /\ IsFiniteSet(Ring)
         /\ real_nbprocs \in Nat
         /\ real_nbprocs = 0 <=> Ring = {}
         /\ \A a \in Ring : real_nbprocs = 1 => Ring = {a}
<1>1. IsFiniteSet(Ring)
  BY AddrAssumption, FS_Subset DEF Ring
<1>2. real_nbprocs \in Nat /\ (real_nbprocs = 0 <=> Ring = {})
  BY <1>1, FS_CardinalityType, FS_EmptySet
<1>3. ASSUME NEW a \in Ring, real_nbprocs = 1
      PROVE  Ring = {a}
  <2>1. \E x : Ring = {x}
    BY <1>1, <1>3, FS_Singleton
  <2> QED
    BY <2>1
<1> QED
  BY <1>1, <1>2, <1>3

\* process.c 73-85: the case of one process and the general one link alike,
\* because a lone process is its own successor.
LEMMA LinkAfterGeneral ==
  ASSUME TableTypeOK, RingOK, NEW c \in Ring, NEW p \in Addr, LinkAfter(c, p)
  PROVE  /\ next' = [next EXCEPT ![p] = next[c], ![c] = p]
         /\ prev' = [prev EXCEPT ![next[c]] = p, ![p] = c]
<1>1. real_nbprocs # 0
  BY RingFinite DEF RingOK
<1>2. CASE real_nbprocs = 1
  <2>1. Ring = {c}
    BY <1>2, RingFinite DEF RingOK
  <2>2. next[c] = c /\ prev[c] = c
    BY <2>1 DEF RingOK, Linked
  <2>3. /\ next' = [next EXCEPT ![c] = p, ![p] = c]
        /\ prev' = [prev EXCEPT ![c] = p, ![p] = c]
    BY <1>2 DEF LinkAfter
  <2> QED
    BY <2>2, <2>3 DEF TableTypeOK, Ring
<1>3. CASE real_nbprocs # 1
  BY <1>1, <1>3 DEF LinkAfter
<1> QED
  BY <1>2, <1>3

\* add_process into a ring that is not empty leaves one ring, one longer.
LEMMA InsertKeepsRing ==
  ASSUME TableTypeOK, RingOK,
         NEW c \in Ring, NEW p \in Addr, p \notin Ring,
         LinkAfter(c, p),
         alloc' = [alloc EXCEPT ![p] = "linked"],
         real_nbprocs' = real_nbprocs + 1
  PROVE  RingOK' /\ Ring' = Ring \cup {p}
<1>1. Ring' = Ring \cup {p}
  BY DEF Ring, TableTypeOK
<1>2. /\ next' = [next EXCEPT ![p] = next[c], ![c] = p]
      /\ prev' = [prev EXCEPT ![next[c]] = p, ![p] = c]
  BY LinkAfterGeneral
<1>3. p # c /\ Ring \subseteq Addr /\ next[c] \in Ring
  BY DEF Ring, RingOK, Linked
<1>4. /\ next'[c] = p /\ next'[p] = next[c]
      /\ \A a \in Ring \ {c} : next'[a] = next[a]
  BY <1>2, <1>3 DEF TableTypeOK
<1>5. /\ prev'[p] = c /\ prev'[next[c]] = p
      /\ \A a \in Ring \ {next[c]} : prev'[a] = prev[a]
  BY <1>2, <1>3 DEF TableTypeOK
<1>6. Linked'
  <2> SUFFICES ASSUME NEW a \in Ring'
               PROVE  /\ next'[a] \in Ring' /\ prev'[next'[a]] = a
                      /\ prev'[a] \in Ring' /\ next'[prev'[a]] = a
    BY DEF Linked
  <2>1. CASE a = p
    BY <1>1, <1>3, <1>4, <1>5, <2>1 DEF RingOK, Linked
  <2>2. CASE a = c
    BY <1>1, <1>3, <1>4, <1>5, <2>2 DEF RingOK, Linked
  <2>3. CASE a = next[c]
    BY <1>1, <1>3, <1>4, <1>5, <2>3 DEF RingOK, Linked
  <2>4. CASE a \notin {p, c, next[c]}
    <3>1. a \in Ring /\ next[a] \in Ring /\ prev[next[a]] = a
      BY <1>1, <2>4 DEF RingOK, Linked
    <3>2. prev[a] \in Ring /\ next[prev[a]] = a
      BY <3>1 DEF RingOK, Linked
    <3>3. prev[next[c]] = c
      BY DEF RingOK, Linked
    <3>4. next[a] # next[c] /\ prev[a] # c
      BY <2>4, <3>1, <3>2, <3>3
    <3> QED
      BY <1>1, <1>4, <1>5, <2>4, <3>1, <3>2, <3>4
  <2> QED
    BY <2>1, <2>2, <2>3, <2>4
<1>7. OneCycle'
  <2> SUFFICES ASSUME NEW S \in SUBSET Ring', S # {}, \A a \in S : next'[a] \in S
               PROVE  S = Ring'
    BY DEF OneCycle
  <2>1. S \ {p} \in SUBSET Ring
    BY <1>1
  <2>2. S \ {p} # {}
    BY <1>3, <1>4
  <2>3. \A a \in S \ {p} : next[a] \in S \ {p}
    <3> SUFFICES ASSUME NEW a \in S \ {p}
                 PROVE  next[a] \in S \ {p}
      OBVIOUS
    <3>1. CASE a = c
      BY <1>3, <1>4, <3>1
    <3>2. CASE a # c
      <4>1. a \in Ring /\ next[a] \in Ring
        BY <2>1 DEF RingOK, Linked
      <4> QED
        BY <1>4, <3>2, <4>1
    <3> QED
      BY <3>1, <3>2
  <2>4. S \ {p} = Ring
    BY <2>1, <2>2, <2>3 DEF RingOK, OneCycle
  <2>5. p \in S
    BY <1>4, <2>4
  <2> QED
    BY <1>1, <2>4, <2>5
<1>8. real_nbprocs' = Cardinality(Ring')
  BY <1>1, RingFinite, FS_AddElement DEF RingOK
<1> QED
  BY <1>1, <1>6, <1>7, <1>8 DEF RingOK

\* The first process (case 0 of the switch) makes a ring of itself.
LEMMA FirstMakesRing ==
  ASSUME TableTypeOK, real_nbprocs = 0, Ring = {},
         NEW c, NEW p \in Addr,
         LinkAfter(c, p),
         alloc' = [alloc EXCEPT ![p] = "linked"],
         real_nbprocs' = real_nbprocs + 1
  PROVE  RingOK' /\ Ring' = {p}
<1>1. Ring' = {p}
  BY DEF Ring, TableTypeOK
<1>2. next'[p] = p /\ prev'[p] = p
  BY DEF LinkAfter, TableTypeOK
<1>3. real_nbprocs' = Cardinality(Ring')
  BY <1>1, FS_Singleton
<1> QED
  BY <1>1, <1>2, <1>3 DEF RingOK, Linked, OneCycle

\* A process that is not alone has a neighbour other than itself.
LEMMA NotAlone ==
  ASSUME RingOK, NEW p \in Ring, Ring # {p}
  PROVE  /\ next[p] \in Ring \ {p} /\ prev[next[p]] = p
         /\ prev[p] \in Ring \ {p} /\ next[prev[p]] = p
<1>1. /\ next[p] \in Ring /\ prev[next[p]] = p
      /\ prev[p] \in Ring /\ next[prev[p]] = p
  BY DEF RingOK, Linked
<1>2. next[p] # p
  <2> SUFFICES ASSUME next[p] = p PROVE FALSE
    OBVIOUS
  <2>1. {p} \in SUBSET Ring /\ \A a \in {p} : next[a] \in {p}
    OBVIOUS
  <2> QED
    BY <2>1 DEF RingOK, OneCycle
<1> QED
  BY <1>1, <1>2

\* remove_process of a block that is not alone leaves one ring, one shorter.
LEMMA RemoveKeepsRing ==
  ASSUME TableTypeOK, RingOK,
         NEW p \in Ring, Ring # {p}, NEW st,
         RemoveProcess(p, st)
  PROVE  /\ RingOK'
         /\ Ring' = Ring \ {p}
         /\ next'[prev[p]] = next[p]
         /\ \A a \in Addr \ {prev[p]} : next'[a] = next[a]
<1>1. Ring' = Ring \ {p}
  BY DEF RemoveProcess, Ring, TableTypeOK
<1>2. /\ next[p] \in Ring \ {p} /\ prev[next[p]] = p
      /\ prev[p] \in Ring \ {p} /\ next[prev[p]] = p
  BY NotAlone
<1>3. /\ next' = [next EXCEPT ![prev[p]] = next[p]]
      /\ prev' = [prev EXCEPT ![next[p]] = prev[p]]
      /\ real_nbprocs' = real_nbprocs - 1
  BY DEF RemoveProcess
<1>4. /\ next'[prev[p]] = next[p]
      /\ \A a \in Addr \ {prev[p]} : next'[a] = next[a]
  BY <1>2, <1>3 DEF TableTypeOK, Ring
<1>5. /\ prev'[next[p]] = prev[p]
      /\ \A a \in Addr \ {next[p]} : prev'[a] = prev[a]
  BY <1>2, <1>3 DEF TableTypeOK, Ring
<1>6. Linked'
  <2> SUFFICES ASSUME NEW a \in Ring'
               PROVE  /\ next'[a] \in Ring' /\ prev'[next'[a]] = a
                      /\ prev'[a] \in Ring' /\ next'[prev'[a]] = a
    BY DEF Linked
  <2>1. /\ a \in Ring \ {p} /\ a \in Addr
        /\ next[a] \in Ring /\ prev[next[a]] = a /\ next[a] \in Addr
        /\ prev[a] \in Ring /\ next[prev[a]] = a /\ prev[a] \in Addr
    BY <1>1 DEF RingOK, Linked, Ring
  <2>2. next'[a] \in Ring' /\ prev'[next'[a]] = a
    <3>1. CASE a = prev[p]
      BY <1>1, <1>2, <1>4, <1>5, <3>1
    <3>2. CASE a # prev[p]
      <4>1. next[a] # p /\ next[a] # next[p]
        BY <1>2, <2>1, <3>2
      <4> QED
        BY <1>1, <1>4, <1>5, <2>1, <3>2, <4>1
    <3> QED
      BY <3>1, <3>2
  <2>3. prev'[a] \in Ring' /\ next'[prev'[a]] = a
    <3>1. CASE a = next[p]
      BY <1>1, <1>2, <1>4, <1>5, <3>1
    <3>2. CASE a # next[p]
      <4>1. prev[a] # p /\ prev[a] # prev[p]
        BY <1>2, <2>1, <3>2
      <4> QED
        BY <1>1, <1>4, <1>5, <2>1, <3>2, <4>1
    <3> QED
      BY <3>1, <3>2
  <2> QED
    BY <2>2, <2>3
<1>7. OneCycle'
  <2> SUFFICES ASSUME NEW S \in SUBSET Ring', S # {}, \A a \in S : next'[a] \in S
               PROVE  S = Ring'
    BY DEF OneCycle
  <2>1. \A a \in S : a \in Addr /\ a \in Ring /\ a # p
    BY <1>1 DEF Ring
  <2>2. CASE prev[p] \in S
    <3>1. \A a \in S \cup {p} : next[a] \in S \cup {p}
      BY <1>2, <1>4, <2>1, <2>2
    <3>2. S \cup {p} \in SUBSET Ring /\ S \cup {p} # {}
      BY <2>1
    <3>3. S \cup {p} = Ring
      BY <3>1, <3>2 DEF RingOK, OneCycle
    <3> QED
      BY <1>1, <2>1, <3>3
  <2>3. CASE prev[p] \notin S
    <3>1. \A a \in S : next[a] \in S
      BY <1>4, <2>1, <2>3
    <3>2. S = Ring
      BY <2>1, <3>1 DEF RingOK, OneCycle
    <3> QED
      BY <2>1, <3>2
  <2> QED
    BY <2>2, <2>3
<1>8. real_nbprocs' = Cardinality(Ring')
  BY <1>1, <1>3, RingFinite, FS_RemoveElement DEF RingOK
<1> QED
  BY <1>1, <1>4, <1>6, <1>7, <1>8 DEF RingOK

-----------------------------------------------------------------------------
(***************************************************************************)
(* The invariants.                                                         *)
(***************************************************************************)

\* The types are inductive with three more facts: there is a current process
\* from the first add_process on and a count of 0 before it, and no saved
\* context predates it.
TypeInv == /\ TypeOK
           /\ At("boot") => real_nbprocs = 0
           /\ current_process = NULL <=> At("boot")
           /\ \A a \in Addr : sp[a].at # "boot"

LEMMA TypeInit == Init => TypeInv
<1> SUFFICES ASSUME Init PROVE TypeInv
  OBVIOUS
<1>1. 0 \in Slot /\ 0 \in Wait
  BY SlotAssumption, WaitAssumption DEF Slot, Wait
<1>2. \A i \in Slot : FreshContext(i) \in Context
  BY DEF FreshContext, Context, Point
<1>3. cpu \in Context /\ cpu.at = "boot"
  BY <1>1 DEF Init, FreshContext, Context, Point
<1>4. TableTypeOK
  BY <1>1, <1>2 DEF Init, TableInit, TableTypeOK, Alloc, Status
<1>5. \A a \in Addr : sp[a].at # "boot"
  BY DEF Init, TableInit, FreshContext
<1> QED
  BY <1>3, <1>4, <1>5 DEF TypeInv, TypeOK, At, Init, TableInit

\* The fields add_process writes keep their types.
LEMMA AddProcessType ==
  ASSUME TypeInv, NEW p \in Addr, NEW w \in Wait, AddProcess(p, w)
  PROVE  /\ TableTypeOK'
         /\ current_process' \in Addr
         /\ \A a \in Addr : sp'[a].at # "boot"
<1> USE DEF TypeInv, TypeOK
<1>1. LowestFreeSlot \in Slot
  BY SlotFound DEF AddProcess, FreeSlots
<1>2. FreshContext(LowestFreeSlot) \in Context /\ FreshContext(LowestFreeSlot).at # "boot"
  BY <1>1 DEF FreshContext, Context, Point
<1>3. next' \in [Addr -> Addr] /\ prev' \in [Addr -> Addr]
  <2>1. CASE real_nbprocs = 0
    <3>1. next' = [next EXCEPT ![p] = p] /\ prev' = [prev EXCEPT ![p] = p]
      BY <2>1 DEF AddProcess, LinkAfter
    <3> QED
      BY <3>1 DEF TableTypeOK
  <2>2. CASE real_nbprocs # 0
    <3> DEFINE c == current_process
    <3>1. c \in Addr /\ next[c] \in Addr
      BY <2>2 DEF At, TableTypeOK
    <3>2. CASE real_nbprocs = 1
      <4>1. /\ next' = [next EXCEPT ![c] = p, ![p] = c]
            /\ prev' = [prev EXCEPT ![c] = p, ![p] = c]
        BY <3>2 DEF AddProcess, LinkAfter
      <4> QED
        BY <3>1, <4>1 DEF TableTypeOK
    <3>3. CASE real_nbprocs # 1
      <4>1. /\ prev' = [prev EXCEPT ![next[c]] = p, ![p] = c]
            /\ next' = [next EXCEPT ![p] = next[c], ![c] = p]
        BY <2>2, <3>3 DEF AddProcess, LinkAfter
      <4> QED
        BY <3>1, <4>1 DEF TableTypeOK
    <3> QED
      BY <3>2, <3>3
  <2> QED
    BY <2>1, <2>2
<1>4. current_process' \in Addr
  BY DEF AddProcess, TableTypeOK, At
<1>5. sp' \in [Addr -> Context] /\ \A a \in Addr : sp'[a].at # "boot"
  BY <1>2 DEF AddProcess, TableTypeOK
<1>6. /\ alloc' \in [Addr -> Alloc] /\ status' \in [Addr -> Status]
      /\ run_count' \in [Addr -> 0 .. 2] /\ stack_idx' \in [Addr -> Slot]
  BY <1>1 DEF AddProcess, TableTypeOK, Alloc, Status
<1>7. wait_time' \in [Addr -> Wait]
  BY WaitAssumption DEF AddProcess, TableTypeOK, Wait
<1>8. stacks' \in SUBSET Slot /\ real_nbprocs' \in Int
  BY <1>1 DEF AddProcess, TableTypeOK
<1> QED
  BY <1>3, <1>4, <1>5, <1>6, <1>7, <1>8 DEF TableTypeOK

\* So do those remove_process writes.
LEMMA RemoveProcessType ==
  ASSUME TypeInv, current_process \in Addr,
         NEW p \in Addr, NEW st \in [Addr -> Status], RemoveProcess(p, st)
  PROVE  TableTypeOK'
<1> USE DEF TypeInv, TypeOK, TableTypeOK, RemoveProcess
<1>1. next[p] \in Addr /\ prev[p] \in Addr
  OBVIOUS
<1>2. next' \in [Addr -> Addr] /\ prev' \in [Addr -> Addr]
  BY <1>1
<1>3. status' \in [Addr -> Status]
  BY DEF Status
<1>4. alloc' \in [Addr -> Alloc]
  BY DEF Alloc
<1>5. stacks' \in SUBSET Slot /\ real_nbprocs' \in Int
  OBVIOUS
<1> QED
  BY <1>2, <1>3, <1>4, <1>5

\* Every step keeps the types.
LEMMA TypeStep == TypeInv /\ [Next]_vars => TypeInv'
<1> SUFFICES ASSUME TypeInv, [Next]_vars PROVE TypeInv'
  OBVIOUS
<1>s. spsr' \in BOOLEAN
  <2>1. spsr' = spsr \/ spsr' = cpu.masked
    BY DEF Next, vars, Boot, Tick, Schedule, SchedSkip, SchedAge, SchedReap, SchedHalt, SchedAdvance,
           SchedSwitch, Spawn, Clone, CloneFull, CloneFullFree, SysReturn, Exit, ExitInit, Kill,
           WaitPid, WaitPidDone, Exec, Swi
  <2> QED
    BY <2>1 DEF TypeInv, TypeOK, Context
<1> USE <1>s DEF TypeInv, TypeOK
<1>a. \A pt \in Point : [cpu EXCEPT !.at = pt] \in Context /\ [cpu EXCEPT !.at = pt].at = pt
  BY DEF Context
<1>b. ~At("boot") => current_process \in Addr
  BY DEF TableTypeOK
<1>c. 0 \in Wait
  BY WaitAssumption DEF Wait
<1>1. CASE Boot
  <2>1. PICK w \in Wait : AddProcess(InitAddr, w)
    BY <1>1 DEF Boot
  <2>2. cpu' \in Context /\ cpu'.at = "user" /\ irq' = TRUE
    BY <1>1, <1>a DEF Boot, Point
  <2> QED
    BY <2>1, <2>2, AddProcessType, AddrAssumption DEF At
<1>2. CASE Tick
  <2>1. cpu' \in Context /\ cpu'.at = "check" /\ irq' = FALSE
    BY <1>2 DEF Tick, Context, Point
  <2>2. sp' \in [Addr -> Context] /\ status' \in [Addr -> Status]
    BY <1>2 DEF Tick, TableTypeOK, Status
  <2>3. cpu.at # "boot" /\ \A a \in Addr : sp'[a].at # "boot"
    BY <1>2 DEF Tick, TableTypeOK, ThreadPoint, SchedPoint
  <2> QED
    BY <1>2, <2>1, <2>2, <2>3, AddrAssumption DEF Tick, TableTypeOK, At
<1>3. CASE SchedSkip
  BY <1>3, <1>a DEF SchedSkip, tableVars, TableTypeOK, At, Point
<1>4. CASE SchedAge
  <2>1. wait_time' \in [Addr -> Wait]
    BY <1>4, <1>b, WaitAssumption DEF SchedAge, TableTypeOK, Wait, At, Successor
  <2> QED
    BY <1>4, <1>a, <2>1 DEF SchedAge, TableTypeOK, At, Point
<1>5. CASE SchedReap
  <2>1. current_process \in Addr /\ Successor \in Addr
    BY <1>5, <1>b DEF SchedReap, At, Successor, TableTypeOK
  <2>2. TableTypeOK'
    BY <1>5, <2>1, RemoveProcessType DEF SchedReap, TableTypeOK
  <2> QED
    BY <1>5, <1>a, <2>1, <2>2 DEF SchedReap, RemoveProcess, At, Point
<1>6. CASE SchedHalt
  BY <1>6, <1>a DEF SchedHalt, tableVars, TableTypeOK, At, Point
<1>7. CASE SchedAdvance
  <2>1. Successor \in Addr
    BY <1>7, <1>b DEF SchedAdvance, At, Successor, TableTypeOK
  <2> QED
    BY <1>7, <1>a, <2>1, AddrAssumption DEF SchedAdvance, TableTypeOK, At, Point
<1>8. CASE SchedSwitch
  <2>1. current_process \in Addr
    BY <1>8, <1>b DEF SchedSwitch, At
  <2>2. cpu' \in Context /\ cpu'.at # "boot"
    BY <1>8, <2>1 DEF SchedSwitch, ResumeContext, FreshContext, Context, Point, TableTypeOK
  <2>3. status' \in [Addr -> Status]
    BY <1>8 DEF SchedSwitch, TableTypeOK, Status
  <2>4. run_count' \in [Addr -> 0 .. 2]
    <3>1. Bump(run_count[current_process]) \in 0 .. 2
      BY <2>1 DEF TableTypeOK, Bump
    <3> QED
      BY <1>8, <2>1, <3>1 DEF SchedSwitch, TableTypeOK
  <2> QED
    BY <1>8, <2>1, <2>2, <2>3, <2>4, AddrAssumption DEF SchedSwitch, TableTypeOK, At
<1>9. ASSUME NEW p \in Addr, NEW w \in Wait, Clone(p, w)
      PROVE  TypeInv'
  BY <1>9, <1>a, AddProcessType, AddrAssumption DEF Clone, At, Point
<1>10. ASSUME NEW p \in Addr, CloneFull(p)
       PROVE  TypeInv'
  <2>1. cpu' \in Context /\ cpu'.at = "sysfree"
    BY <1>10 DEF CloneFull, Context, Point
  <2>2. alloc' \in [Addr -> Alloc] /\ status' \in [Addr -> Status]
    BY <1>10 DEF CloneFull, TableTypeOK, Alloc, Status
  <2>3. run_count' \in [Addr -> 0 .. 2]
    BY <1>10 DEF CloneFull, TableTypeOK
  <2>4. wait_time' \in [Addr -> Wait]
    BY <1>10, <1>c DEF CloneFull, TableTypeOK
  <2> QED
    BY <1>10, <2>1, <2>2, <2>3, <2>4 DEF CloneFull, TableTypeOK, At, Swi
<1>11. CASE CloneFullFree
  <2>1. cpu' \in Context /\ cpu'.at = "sysret"
    BY <1>11 DEF CloneFullFree, Context, Point
  <2>2. alloc' \in [Addr -> Alloc]
    BY <1>11 DEF CloneFullFree, TableTypeOK, Alloc
  <2> QED
    BY <1>11, <2>1, <2>2 DEF CloneFullFree, TableTypeOK, At
<1>12. CASE SysReturn
  <2>1. cpu' \in Context /\ cpu'.at # "boot" /\ irq' \in BOOLEAN
    BY <1>12 DEF SysReturn, Context, Point, At
  <2> QED
    BY <1>12, <2>1 DEF SysReturn, tableVars, TableTypeOK, At
<1>13. CASE Exit
  <2>1. current_process \in Addr
    BY <1>13, <1>b DEF Exit, Swi, At
  <2>2. [status EXCEPT ![current_process] = "TERM"] \in [Addr -> Status]
    BY DEF TableTypeOK, Status
  <2>3. TableTypeOK'
    BY <1>13, <2>1, <2>2, RemoveProcessType DEF Exit
  <2> QED
    BY <1>13, <1>a, <2>1, <2>3, AddrAssumption DEF Exit, RemoveProcess, At, Point
<1>14. CASE ExitInit
  BY <1>14, <1>a DEF ExitInit, Swi, TableTypeOK, Status, At, Point
<1>15. ASSUME NEW a \in Addr, NEW s \in KillStatus, Kill(a, s)
       PROVE  TypeInv'
  <2>1. status' \in [Addr -> Status]
    BY <1>15, WorkloadAssumption DEF Kill, TableTypeOK
  <2> QED
    BY <1>15, <1>a, <2>1 DEF Kill, Swi, TableTypeOK, At, Point
<1>16. ASSUME NEW a \in Addr, WaitPid(a)
       PROVE  TypeInv'
  <2>1. cpu' \in Context /\ cpu'.at = "waitspin"
    BY <1>16 DEF WaitPid, Context, Point
  <2>2. wait_time' \in [Addr -> Wait]
    BY <1>16, WaitAssumption DEF WaitPid, TableTypeOK, Wait
  <2> QED
    BY <1>16, <2>1, <2>2 DEF WaitPid, Swi, TableTypeOK, At
<1>17. CASE WaitPidDone
  <2>1. cpu' \in Context /\ cpu'.at = "sysret"
    BY <1>17 DEF WaitPidDone, Context, Point
  <2> QED
    BY <1>17, <2>1 DEF WaitPidDone, tableVars, TableTypeOK, At
<1>18. CASE Exec
  BY <1>18 DEF Exec, tableVars, TableTypeOK, Swi, At, Context
<1>19. CASE UNCHANGED vars
  BY <1>19 DEF vars, tableVars, TableTypeOK, At
<1> QED
  BY <1>1, <1>2, <1>3, <1>4, <1>5, <1>6, <1>7, <1>8, <1>9, <1>10, <1>11, <1>12,
     <1>13, <1>14, <1>15, <1>16, <1>17, <1>18, <1>19
     DEF Next, Schedule, Spawn

\* Every field of the table and of the CPU keeps its type in every behaviour,
\* whatever the workload and whenever the timer fires.
THEOREM TypeCorrect == Spec => []TypeOK
<1>1. TypeInv => TypeOK
  BY DEF TypeInv
<1> QED
  BY TypeInit, TypeStep, <1>1, PTL DEF Spec

-----------------------------------------------------------------------------
(***************************************************************************)
(* The ring.  RingOK is not inductive: exit leaves current_process outside *)
(* of the ring, and whether the next scan finds its way back depends on    *)
(* where the CPU is (Whereabouts), on what the parked processes will do    *)
(* when they are resumed (ParkedLive), and on a refused clone freeing its  *)
(* own block and not a linked one (BlockOwned).                            *)
(***************************************************************************)

\* Code of a process that is still in the ring.
LivePoint == {"fresh", "user", "sysret", "sysfree"}

Whereabouts ==
  /\ cpu.at \in LivePoint \cup {"waitspin", "switch"} => current_process \in Ring
  /\ cpu.at \in {"exitret", "exited"} => current_process \notin Ring
  /\ cpu.at \in {"exitret", "exited", "lost", "check"} => next[current_process] \in Ring
  /\ At("advance") => \/ Successor \in Ring
                      \/ status[Successor] # "WAIT" /\ next[Successor] \in Ring
  /\ cpu.at \in {"waitspin", "halted"} => ~irq
  /\ At("boot") => Ring = {}
  /\ ~At("boot") => InitAddr \in Ring

ParkedLive == \A a \in Ring : sp[a].at \in LivePoint \cup {"lost"}

RingInv == TypeInv /\ RingOK /\ Whereabouts /\ ParkedLive /\ BlockOwned

LEMMA RingInit == Init => RingInv
<1> SUFFICES ASSUME Init PROVE RingInv
  OBVIOUS
<1>1. TypeInv
  BY TypeInit
<1>2. Ring = {} /\ cpu.at = "boot" /\ real_nbprocs = 0
  BY DEF Init, TableInit, Ring, FreshContext
<1>3. RingOK
  BY <1>2, FS_EmptySet DEF RingOK, Linked, OneCycle
<1>4. Whereabouts /\ ParkedLive /\ BlockOwned
  BY <1>2 DEF Whereabouts, ParkedLive, BlockOwned, LivePoint, At, Freeing, Parked
<1> QED
  BY <1>1, <1>3, <1>4 DEF RingInv

\* A step that leaves the links and the ownership of blocks alone.
LEMMA SameRing ==
  ASSUME UNCHANGED <<alloc, next, prev, real_nbprocs>>, RingOK
  PROVE  RingOK' /\ Ring' = Ring
<1>1. Ring' = Ring
  BY DEF Ring
<1> QED
  BY <1>1 DEF RingOK, Linked, OneCycle

\* A step that leaves the process the CPU runs where it is, at another point
\* of its code that is not a refused clone, keeps every block's owner.
LEMMA SameOwners ==
  ASSUME BlockOwned, UNCHANGED <<alloc, sp>>, Parked' \subseteq Parked, cpu'.at # "sysfree"
  PROVE  BlockOwned'
BY DEF BlockOwned, Freeing, At

LEMMA RingStep ==
  ASSUME ~NestedTicks, ExitSpins, RingInv, [Next]_vars
  PROVE  RingInv'
<1> USE DEF RingInv
<1>a. TypeInv'
  BY TypeStep
<1>b. TableTypeOK /\ cpu \in Context /\ irq \in BOOLEAN
  BY DEF TypeInv, TypeOK
<1>c. Ring \subseteq Addr /\ NULL \notin Ring
  BY AddrAssumption DEF Ring
<1>1. CASE Boot
  <2>1. PICK w \in Wait : AddProcess(InitAddr, w)
    BY <1>1 DEF Boot
  <2>2. Ring = {} /\ real_nbprocs = 0 /\ cpu'.at = "user"
    BY <1>1, <1>b DEF Boot, Whereabouts, TypeInv, Context
  <2>3. RingOK' /\ Ring' = {InitAddr}
    BY <1>b, <2>1, <2>2, FirstMakesRing, AddrAssumption DEF AddProcess
  <2>4. current_process' = InitAddr /\ sp'[InitAddr].at = "fresh"
    BY <1>b, <2>1, <2>2, AddrAssumption DEF AddProcess, FreshContext, TableTypeOK
  <2>5. Whereabouts' /\ ParkedLive' /\ BlockOwned'
    BY <2>2, <2>3, <2>4
       DEF Whereabouts, ParkedLive, BlockOwned, Freeing, Parked, LivePoint, SchedPoint, At
  <2> QED
    BY <1>a, <2>3, <2>5
<1>2. CASE Tick
  <2>1. cpu.at \in ThreadPoint /\ irq /\ cpu'.at = "check" /\ irq' = FALSE
    BY <1>2, <1>b DEF Tick, Context
  <2>2. RingOK' /\ Ring' = Ring
    BY <1>2, SameRing DEF Tick
  <2>3. cpu.at \in LivePoint \cup {"exitret", "exited", "lost"}
    BY <2>1 DEF ThreadPoint, LivePoint, Whereabouts
  <2>4. next[current_process] \in Ring
    BY <2>3 DEF Whereabouts, LivePoint, RingOK, Linked
  <2>5. Whereabouts'
    BY <1>2, <2>1, <2>2, <2>3, <2>4 DEF Tick, Whereabouts, LivePoint, At
  <2>6. \A a \in Addr : sp'[a] = IF a = current_process THEN cpu ELSE sp[a]
    BY <1>2, <1>b DEF Tick, TableTypeOK
  <2>7. ParkedLive'
    BY <1>c, <2>2, <2>3, <2>6 DEF ParkedLive, Whereabouts
  <2>8. \A a \in Addr : Freeing(a)' => \/ a # current_process /\ Freeing(a) /\ sp'[a] = sp[a]
                                       \/ a = current_process /\ At("sysfree") /\ sp'[a] = cpu
    BY <2>2, <2>6 DEF Freeing, Parked, At
  <2>9. alloc' = alloc /\ ~At("sysfree")'
    BY <1>2, <2>1 DEF Tick, At
  <2>10. BlockOwned'
    BY <2>8, <2>9 DEF BlockOwned
  <2> QED
    BY <1>a, <2>2, <2>5, <2>7, <2>10
<1>3. CASE SchedSkip
  <2>1. cpu.at = "check" /\ cpu'.at = "advance" /\ UNCHANGED tableVars
    BY <1>3, <1>b DEF SchedSkip, At, Context
  <2>2. RingOK' /\ Ring' = Ring
    BY <2>1, SameRing DEF tableVars
  <2>3. Whereabouts' /\ ParkedLive'
    BY <2>1, <2>2 DEF tableVars, Whereabouts, ParkedLive, LivePoint, At, Successor
  <2>4. BlockOwned'
    BY <2>1, <2>2, SameOwners DEF tableVars, Parked, SchedPoint
  <2> QED
    BY <1>a, <2>2, <2>3, <2>4
<1>4. CASE SchedAge
  <2>1. /\ cpu.at = "check" /\ cpu'.at = "advance"
        /\ UNCHANGED <<alloc, status, sp, next, prev, current_process, real_nbprocs>>
    BY <1>4, <1>b DEF SchedAge, At, Context
  <2>2. RingOK' /\ Ring' = Ring
    BY <2>1, SameRing
  <2>3. Whereabouts' /\ ParkedLive'
    BY <2>1, <2>2 DEF Whereabouts, ParkedLive, LivePoint, At, Successor
  <2>4. BlockOwned'
    BY <2>1, <2>2, SameOwners DEF Parked, SchedPoint
  <2> QED
    BY <1>a, <2>2, <2>3, <2>4
<1>5. CASE SchedReap
  <2> DEFINE b == next[current_process]
  <2>1. /\ cpu.at = "check" /\ cpu'.at = "advance" /\ irq' = TRUE
        /\ status[b] = "TERM" /\ b # InitAddr
        /\ RemoveProcess(b, status)
        /\ UNCHANGED <<sp, current_process>>
    BY <1>5, <1>b DEF SchedReap, At, Context, Successor, RemoveProcess
  <2>2. b \in Ring /\ InitAddr \in Ring /\ Ring # {b}
    BY <2>1 DEF Whereabouts, At
  <2>3. /\ RingOK' /\ Ring' = Ring \ {b}
        /\ next'[prev[b]] = next[b]
        /\ \A a \in Addr \ {prev[b]} : next'[a] = next[a]
    BY <1>b, <2>1, <2>2, RemoveKeepsRing
  <2>4. /\ next[b] \in Ring \ {b} /\ prev[b] \in Ring \ {b}
        /\ \A a \in Ring : next[a] = b => a = prev[b]
    BY <2>2, NotAlone DEF RingOK, Linked
  <2>5. current_process \in Addr
    BY <1>b, <2>1 DEF TypeInv, TableTypeOK, At
  <2>6. At("advance")' => \/ Successor' \in Ring'
                          \/ status'[Successor'] # "WAIT" /\ next'[Successor'] \in Ring'
    <3>1. CASE current_process \in Ring
      BY <2>1, <2>3, <2>4, <3>1 DEF Successor
    <3>2. CASE current_process \notin Ring
      <4>1. next'[current_process] = b
        BY <2>3, <2>4, <2>5, <3>2
      <4>2. next'[b] = next[b]
        BY <1>c, <2>2, <2>3, <2>4
      <4>3. status'[b] = "TERM"
        BY <1>b, <2>1, <2>2, <3>2 DEF RemoveProcess, TableTypeOK
      <4> QED
        BY <2>1, <2>3, <2>4, <4>1, <4>2, <4>3 DEF Successor
    <3> QED
      BY <3>1, <3>2
  <2>7. Whereabouts'
    BY <2>1, <2>2, <2>3, <2>6 DEF Whereabouts, LivePoint, At
  <2>8. ParkedLive'
    BY <2>1, <2>3 DEF ParkedLive
  <2>9. BlockOwned'
    <3>1. \A a \in Addr : Freeing(a)' => Freeing(a)
      BY <2>1, <2>3 DEF Freeing, Parked, SchedPoint
    <3>2. \A a \in Addr : alloc[a] = "private" => alloc'[a] = "private"
      BY <1>b, <2>1, <2>2 DEF RemoveProcess, TableTypeOK, Ring
    <3> QED
      BY <2>1, <3>1, <3>2 DEF BlockOwned, At
  <2> QED
    BY <1>a, <2>3, <2>7, <2>8, <2>9
<1>6. CASE SchedHalt
  <2>1. cpu.at = "check" /\ cpu'.at = "halted" /\ irq' = FALSE /\ UNCHANGED tableVars
    BY <1>6, <1>b DEF SchedHalt, At, Context
  <2>2. RingOK' /\ Ring' = Ring
    BY <2>1, SameRing DEF tableVars
  <2>3. Whereabouts' /\ ParkedLive'
    BY <2>1, <2>2 DEF tableVars, Whereabouts, ParkedLive, LivePoint, At
  <2>4. BlockOwned'
    BY <2>1, <2>2, SameOwners DEF tableVars, Parked, SchedPoint
  <2> QED
    BY <1>a, <2>2, <2>3, <2>4
<1>7. CASE SchedAdvance
  <2>1. /\ cpu.at = "advance" /\ current_process' = Successor
        /\ cpu'.at = IF status[Successor] = "WAIT" THEN "switch" ELSE "check"
        /\ UNCHANGED <<alloc, status, sp, next, prev, real_nbprocs, irq>>
    BY <1>7, <1>b DEF SchedAdvance, At, Context
  <2>2. RingOK' /\ Ring' = Ring
    BY <2>1, SameRing
  <2>3. Whereabouts'
    BY <2>1, <2>2 DEF Whereabouts, LivePoint, At, RingOK, Linked
  <2>4. ParkedLive'
    BY <2>1, <2>2 DEF ParkedLive
  <2>5. BlockOwned'
    BY <2>1, <2>2, SameOwners DEF Parked, SchedPoint
  <2> QED
    BY <1>a, <2>2, <2>3, <2>4, <2>5
<1>8. CASE SchedSwitch
  <2>1. /\ cpu.at = "switch" /\ current_process \in Ring
        /\ UNCHANGED <<alloc, sp, next, prev, real_nbprocs, current_process>>
    BY <1>8 DEF SchedSwitch, At, Whereabouts
  <2>2. RingOK' /\ Ring' = Ring
    BY <2>1, SameRing
  <2>3. \/ cpu' = sp[current_process]
        \/ cpu'.at = "user"
    BY <1>8 DEF SchedSwitch, ResumeContext, FreshContext
  <2>4. cpu'.at \in LivePoint \cup {"lost"}
    BY <2>1, <2>3 DEF ParkedLive, LivePoint
  <2>5. Whereabouts'
    BY <2>1, <2>2, <2>4 DEF Whereabouts, LivePoint, At, RingOK, Linked
  <2>6. ParkedLive'
    BY <2>1, <2>2 DEF ParkedLive
  <2>7. BlockOwned'
    <3>1. current_process \in Addr /\ current_process \in Parked
      BY <1>c, <2>1 DEF Parked, SchedPoint
    <3>2. \A a \in Addr : Freeing(a)' => Freeing(a) /\ a # current_process
      BY <2>1, <2>2, <2>4 DEF Freeing, Parked, SchedPoint, LivePoint
    <3>3. At("sysfree")' => cpu' = sp[current_process] /\ Freeing(current_process)
      BY <2>3, <3>1 DEF At, Freeing
    <3> QED
      BY <2>1, <3>1, <3>2, <3>3 DEF BlockOwned
  <2> QED
    BY <1>a, <2>2, <2>5, <2>6, <2>7
<1>9. ASSUME NEW p \in Addr, NEW w \in Wait, Clone(p, w)
      PROVE  RingInv'
  <2>1. /\ cpu.at = "user" /\ cpu'.at = "sysret" /\ irq' = TRUE
        /\ alloc[p] = "free" /\ AddProcess(p, w)
    BY <1>9, <1>b DEF Clone, Swi, At, Context, AddProcess
  <2>2. current_process \in Ring /\ p \notin Ring /\ InitAddr \in Ring
    BY <2>1 DEF Whereabouts, LivePoint, Ring, At
  <2>3. RingOK' /\ Ring' = Ring \cup {p}
    BY <1>b, <2>1, <2>2, InsertKeepsRing DEF AddProcess
  <2>4. current_process' = current_process
    <3>1. real_nbprocs # 0
      BY <2>2, RingFinite DEF RingOK
    <3> QED
      BY <2>1, <3>1 DEF AddProcess
  <2>5. \A a \in Addr : sp'[a].at = IF a = p THEN "fresh" ELSE sp[a].at
    BY <1>b, <2>1 DEF AddProcess, TableTypeOK, FreshContext
  <2>6. Whereabouts'
    BY <2>1, <2>2, <2>3, <2>4 DEF Whereabouts, LivePoint, At
  <2>7. ParkedLive'
    BY <1>c, <2>3, <2>5 DEF ParkedLive, LivePoint
  <2>8. BlockOwned'
    <3>1. \A a \in Addr : Freeing(a)' => Freeing(a) /\ sp'[a] = sp[a]
      <4>1. \A a \in Addr : a # p => sp'[a] = sp[a]
        BY <1>b, <2>1 DEF AddProcess, TableTypeOK
      <4> QED
        BY <2>1, <2>3, <2>4, <2>5, <4>1 DEF Freeing, Parked, SchedPoint
    <3>2. \A a \in Addr : alloc[a] = "private" => alloc'[a] = "private"
      BY <1>b, <2>1 DEF AddProcess, TableTypeOK
    <3> QED
      BY <2>1, <3>1, <3>2 DEF BlockOwned, At
  <2> QED
    BY <1>a, <2>3, <2>6, <2>7, <2>8
<1>10. ASSUME NEW p \in Addr, CloneFull(p)
       PROVE  RingInv'
  <2>1. /\ cpu.at = "user" /\ cpu'.at = "sysfree" /\ cpu'.blk = p /\ irq' = TRUE
        /\ alloc[p] = "free" /\ alloc' = [alloc EXCEPT ![p] = "private"]
        /\ UNCHANGED <<sp, next, prev, current_process, real_nbprocs>>
    BY <1>10, <1>b DEF CloneFull, Swi, At, Context
  <2>2. Ring' = Ring
    BY <1>b, <2>1 DEF Ring, TableTypeOK
  <2>3. RingOK'
    BY <2>1, <2>2 DEF RingOK, Linked, OneCycle
  <2>4. Whereabouts' /\ ParkedLive'
    BY <2>1, <2>2 DEF Whereabouts, ParkedLive, LivePoint, At
  <2>5. BlockOwned'
    <3>1. \A a \in Addr : Freeing(a)' => Freeing(a)
      BY <2>1, <2>2 DEF Freeing, Parked, SchedPoint
    <3>2. /\ alloc'[p] = "private"
          /\ \A a \in Addr : alloc[a] = "private" => a # p /\ alloc'[a] = "private"
      BY <1>b, <2>1 DEF TableTypeOK
    <3> QED
      BY <2>1, <3>1, <3>2 DEF BlockOwned, At
  <2> QED
    BY <1>a, <2>3, <2>4, <2>5
<1>11. CASE CloneFullFree
  <2>1. /\ cpu.at = "sysfree" /\ cpu'.at = "sysret"
        /\ cpu.blk \in Addr /\ alloc[cpu.blk] = "private"
        /\ alloc' = [alloc EXCEPT ![cpu.blk] = "free"]
        /\ UNCHANGED <<sp, next, prev, current_process, real_nbprocs, irq>>
    BY <1>11, <1>b DEF CloneFullFree, At, Context, BlockOwned
  <2>2. Ring' = Ring
    BY <1>b, <2>1 DEF Ring, TableTypeOK
  <2>3. RingOK'
    BY <2>1, <2>2 DEF RingOK, Linked, OneCycle
  <2>4. Whereabouts' /\ ParkedLive'
    BY <2>1, <2>2 DEF Whereabouts, ParkedLive, LivePoint, At
  <2>5. BlockOwned'
    <3>1. \A a \in Addr : Freeing(a)' => Freeing(a)
      BY <2>1, <2>2 DEF Freeing, Parked, SchedPoint
    <3>2. \A a \in Addr : a # cpu.blk => alloc'[a] = alloc[a]
      BY <1>b, <2>1 DEF TableTypeOK
    <3> QED
      BY <2>1, <3>1, <3>2 DEF BlockOwned, At
  <2> QED
    BY <1>a, <2>3, <2>4, <2>5
<1>12. CASE SysReturn
  <2>1. /\ \/ cpu.at = "sysret" /\ cpu'.at \in {"user", "lost"}
           \/ cpu.at = "exitret" /\ cpu'.at \in {"exited", "lost"}
        /\ UNCHANGED tableVars
    BY <1>12, <1>b DEF SysReturn, At, Context
  <2>2. RingOK' /\ Ring' = Ring
    BY <2>1, SameRing DEF tableVars
  <2>3. Whereabouts' /\ ParkedLive'
    BY <2>1, <2>2 DEF tableVars, Whereabouts, ParkedLive, LivePoint, At, RingOK, Linked
  <2>4. BlockOwned'
    BY <2>1, <2>2, SameOwners DEF tableVars, Parked, SchedPoint
  <2> QED
    BY <1>a, <2>2, <2>3, <2>4
<1>13. CASE Exit
  <2> DEFINE p == current_process
  <2>1. /\ cpu.at = "user" /\ cpu'.at = "exitret" /\ irq' = TRUE
        /\ p # InitAddr
        /\ RemoveProcess(p, [status EXCEPT ![p] = "TERM"])
        /\ UNCHANGED <<sp, current_process>>
    BY <1>13, <1>b DEF Exit, Swi, At, Context, RemoveProcess
  <2>2. p \in Ring /\ InitAddr \in Ring /\ Ring # {p}
    BY <2>1 DEF Whereabouts, LivePoint, At
  <2>3. /\ RingOK' /\ Ring' = Ring \ {p}
        /\ \A a \in Addr \ {prev[p]} : next'[a] = next[a]
    BY <1>b, <2>1, <2>2, RemoveKeepsRing
  <2>4. next[p] \in Ring \ {p} /\ prev[p] \in Ring \ {p}
    BY <2>2, NotAlone
  <2>5. Whereabouts'
    BY <1>c, <2>1, <2>2, <2>3, <2>4 DEF Whereabouts, LivePoint, At
  <2>6. ParkedLive'
    BY <2>1, <2>3 DEF ParkedLive
  <2>7. BlockOwned'
    <3>1. \A a \in Addr : Freeing(a)' => Freeing(a)
      BY <2>1, <2>3 DEF Freeing, Parked, SchedPoint
    <3>2. \A a \in Addr : alloc[a] = "private" => alloc'[a] = "private"
      BY <1>b, <2>1, <2>2 DEF RemoveProcess, TableTypeOK, Ring
    <3> QED
      BY <2>1, <3>1, <3>2 DEF BlockOwned, At
  <2> QED
    BY <1>a, <2>3, <2>5, <2>6, <2>7
<1>14. CASE ExitInit
  <2>1. /\ cpu.at = "user" /\ cpu'.at = "halted" /\ irq' = FALSE
        /\ UNCHANGED <<alloc, sp, next, prev, current_process, real_nbprocs>>
    BY <1>14, <1>b DEF ExitInit, Swi, At, Context
  <2>2. RingOK' /\ Ring' = Ring
    BY <2>1, SameRing
  <2>3. Whereabouts' /\ ParkedLive'
    BY <2>1, <2>2 DEF Whereabouts, ParkedLive, LivePoint, At
  <2>4. BlockOwned'
    BY <2>1, <2>2, SameOwners DEF Parked, SchedPoint
  <2> QED
    BY <1>a, <2>2, <2>3, <2>4
<1>15. ASSUME NEW a \in Addr, NEW s \in KillStatus, Kill(a, s)
       PROVE  RingInv'
  <2>1. /\ cpu.at = "user" /\ cpu'.at = "sysret"
        /\ UNCHANGED <<alloc, sp, next, prev, current_process, real_nbprocs>>
    BY <1>15, <1>b DEF Kill, Swi, At, Context
  <2>2. RingOK' /\ Ring' = Ring
    BY <2>1, SameRing
  <2>3. Whereabouts' /\ ParkedLive'
    BY <2>1, <2>2 DEF Whereabouts, ParkedLive, LivePoint, At
  <2>4. BlockOwned'
    BY <2>1, <2>2, SameOwners DEF Parked, SchedPoint
  <2> QED
    BY <1>a, <2>2, <2>3, <2>4
<1>16. ASSUME NEW a \in Addr, WaitPid(a)
       PROVE  RingInv'
  <2>1. /\ cpu.at = "user" /\ cpu'.at = "waitspin" /\ irq' = FALSE
        /\ UNCHANGED <<alloc, sp, next, prev, current_process, real_nbprocs>>
    BY <1>16, <1>b DEF WaitPid, Swi, At, Context
  <2>2. RingOK' /\ Ring' = Ring
    BY <2>1, SameRing
  <2>3. Whereabouts' /\ ParkedLive'
    BY <2>1, <2>2 DEF Whereabouts, ParkedLive, LivePoint, At
  <2>4. BlockOwned'
    BY <2>1, <2>2, SameOwners DEF Parked, SchedPoint
  <2> QED
    BY <1>a, <2>2, <2>3, <2>4
<1>17. CASE WaitPidDone
  <2>1. cpu.at = "waitspin" /\ cpu'.at = "sysret" /\ UNCHANGED tableVars
    BY <1>17, <1>b DEF WaitPidDone, At, Context
  <2>2. RingOK' /\ Ring' = Ring
    BY <2>1, SameRing DEF tableVars
  <2>3. Whereabouts' /\ ParkedLive'
    BY <2>1, <2>2 DEF tableVars, Whereabouts, ParkedLive, LivePoint, At
  <2>4. BlockOwned'
    BY <2>1, <2>2, SameOwners DEF tableVars, Parked, SchedPoint
  <2> QED
    BY <1>a, <2>2, <2>3, <2>4
<1>18. CASE Exec
  <2>1. cpu.at = "user" /\ cpu'.at = "user" /\ UNCHANGED tableVars
    BY <1>18, <1>b DEF Exec, Swi, At, Context
  <2>2. RingOK' /\ Ring' = Ring
    BY <2>1, SameRing DEF tableVars
  <2>3. Whereabouts' /\ ParkedLive'
    BY <2>1, <2>2 DEF tableVars, Whereabouts, ParkedLive, LivePoint, At
  <2>4. BlockOwned'
    BY <2>1, <2>2, SameOwners DEF tableVars, Parked, SchedPoint
  <2> QED
    BY <1>a, <2>2, <2>3, <2>4
<1>19. CASE UNCHANGED vars
  BY <1>a, <1>19, SameRing
     DEF vars, tableVars, Whereabouts, ParkedLive, BlockOwned, Freeing, Parked, Ring,
         At, Successor
<1> QED
  BY <1>1, <1>2, <1>3, <1>4, <1>5, <1>6, <1>7, <1>8, <1>9, <1>10, <1>11, <1>12,
     <1>13, <1>14, <1>15, <1>16, <1>17, <1>18, <1>19
     DEF Next, Schedule, Spawn

\* Whatever is added, removed, killed or left by exit, the ring stays one
\* doubly linked cycle of exactly real_nbprocs blocks - provided no timer
\* interrupt nests in schedule() and a program stops at its exit.
THEOREM RingCorrect ==
  ASSUME ~NestedTicks, ExitSpins
  PROVE  Spec => []RingOK
<1>1. Init => RingInv
  BY RingInit
<1>2. RingInv /\ [Next]_vars => RingInv'
  BY RingStep
<1>3. RingInv => RingOK
  BY DEF RingInv
<1> QED
  BY <1>1, <1>2, <1>3, PTL DEF Spec

\* Under the same conditions no process runs on a freed table entry.
THEOREM CurrentAliveCorrect ==
  ASSUME ~NestedTicks, ExitSpins
  PROVE  Spec => []CurrentAlive
<1>1. Init => RingInv
  BY RingInit
<1>2. RingInv /\ [Next]_vars => RingInv'
  BY RingStep
<1>3. RingInv => CurrentAlive
  BY DEF RingInv, Whereabouts, LivePoint, CurrentAlive, At
<1> QED
  BY <1>1, <1>2, <1>3, PTL DEF Spec

\* And a refused clone that is preempted before it frees its block still owns
\* that block when it gets the CPU back.
THEOREM BlockOwnedCorrect ==
  ASSUME ~NestedTicks, ExitSpins
  PROVE  Spec => []BlockOwned
<1>1. Init => RingInv
  BY RingInit
<1>2. RingInv /\ [Next]_vars => RingInv'
  BY RingStep
<1>3. RingInv => BlockOwned
  BY DEF RingInv
<1> QED
  BY <1>1, <1>2, <1>3, PTL DEF Spec

-----------------------------------------------------------------------------
(***************************************************************************)
(* Stacks and contexts.  OwnContext and FrameKnown speak of the parked     *)
(* processes; what makes them inductive is that the process being run has  *)
(* been run (Begun), so that the frame Tick saves for it will be popped,   *)
(* and that k_start already runs on slot 0, the one add_process is to find *)
(* for pid 1 (StartStack).                                                 *)
(***************************************************************************)
StartStack == At("boot") => cpu.stk = 0

Begun == /\ cpu.at # "fresh"
         /\ cpu.at \in ThreadPoint /\ current_process \in Ring
              => run_count[current_process] # 0

ContextInv == RingInv /\ StackOK /\ StartStack /\ OwnContext /\ FrameKnown /\ Begun

LEMMA ContextInit == Init => ContextInv
<1> SUFFICES ASSUME Init PROVE ContextInv
  OBVIOUS
<1>1. RingInv
  BY RingInit
<1>2. Ring = {} /\ stacks = {} /\ cpu.stk = 0 /\ cpu.at = "boot"
  BY DEF Init, TableInit, Ring, FreshContext
<1>3. StackOK /\ StartStack /\ OwnContext /\ FrameKnown /\ Begun
  BY <1>2 DEF StackOK, StartStack, OwnContext, FrameKnown, Begun, Parked, ThreadPoint
<1> QED
  BY <1>1, <1>3 DEF ContextInv

\* A step of a process's own code that leaves the table's slots, counts and
\* saved contexts alone, and the ring.
LEMMA SameContexts ==
  ASSUME ContextInv, RingInv',
         UNCHANGED <<alloc, run_count, stack_idx, sp, stacks, current_process>>,
         cpu.at \in ThreadPoint, cpu'.at \in ThreadPoint \cup {"halted"},
         cpu'.stk = cpu.stk
  PROVE  ContextInv'
<1>1. Ring' = Ring /\ Parked' \subseteq Parked
  BY DEF Ring, Parked, ThreadPoint, SchedPoint
<1>2. StackOK' /\ StartStack'
  BY <1>1 DEF ContextInv, StackOK, StartStack, ThreadPoint, At
<1>3. OwnContext' /\ FrameKnown' /\ Begun'
  BY <1>1 DEF ContextInv, OwnContext, FrameKnown, Begun, ThreadPoint
<1> QED
  BY <1>2, <1>3 DEF ContextInv

\* So does a step of schedule() on its way to the next process.
LEMMA SchedContexts ==
  ASSUME ContextInv, RingInv',
         UNCHANGED <<alloc, run_count, stack_idx, sp, stacks>>,
         cpu.at \in SchedPoint, cpu'.at \in SchedPoint \cup {"halted"}
  PROVE  ContextInv'
<1>1. Ring' = Ring /\ Parked' \subseteq Parked
  BY DEF Ring, Parked
<1>2. StackOK' /\ StartStack'
  BY <1>1 DEF ContextInv, StackOK, StartStack, SchedPoint, At
<1>3. OwnContext' /\ FrameKnown' /\ Begun'
  BY <1>1 DEF ContextInv, OwnContext, FrameKnown, Begun, SchedPoint, ThreadPoint
<1> QED
  BY <1>2, <1>3 DEF ContextInv

\* Removing a process takes exactly its slot out of the used ones.
LEMMA RemoveFreesSlot ==
  ASSUME TableTypeOK, StackOK, NEW p \in Ring, NEW st, RemoveProcess(p, st),
         Ring' = Ring \ {p}
  PROVE  StackOK'
BY DEF StackOK, RemoveProcess

\* Adding one takes a slot no live process has.
LEMMA AddTakesSlot ==
  ASSUME TableTypeOK, StackOK, NEW p \in Addr, p \notin Ring, NEW w, AddProcess(p, w),
         Ring' = Ring \cup {p}
  PROVE  StackOK'
<1> DEFINE i == LowestFreeSlot
<1>1. i \notin stacks /\ stack_idx' = [stack_idx EXCEPT ![p] = i] /\ stacks' = stacks \cup {i}
  BY SlotFound DEF AddProcess, FreeSlots
<1>2. stack_idx'[p] = i /\ \A a \in Ring : stack_idx'[a] = stack_idx[a] /\ stack_idx[a] # i
  BY <1>1 DEF TableTypeOK, StackOK, Ring
<1> HIDE DEF i
<1>3. \A a, b \in Ring' : stack_idx'[a] = stack_idx'[b] => a = b
  BY <1>2 DEF StackOK
<1>4. stacks' = {stack_idx'[a] : a \in Ring'}
  BY <1>1, <1>2 DEF StackOK
<1> QED
  BY <1>3, <1>4 DEF StackOK

LEMMA ContextStep ==
  ASSUME ~NestedTicks, ExitSpins, ContextInv, [Next]_vars
  PROVE  ContextInv'
<1> USE DEF ContextInv
<1>a. RingInv' /\ TypeInv
  BY RingStep DEF RingInv
<1>b. TableTypeOK /\ cpu \in Context
  BY <1>a DEF TypeInv, TypeOK
<1>c. Ring \subseteq Addr /\ NULL \notin Ring
  BY AddrAssumption DEF Ring
<1>1. CASE Boot
  <2>1. PICK w \in Wait : AddProcess(InitAddr, w)
    BY <1>1 DEF Boot
  <2>2. Ring = {} /\ real_nbprocs = 0 /\ stacks = {} /\ cpu'.stk = 0 /\ cpu'.at = "user"
    BY <1>1, <1>a, <1>b DEF Boot, RingInv, Whereabouts, TypeInv, Context, StackOK, StartStack
  <2>3. Ring' = {InitAddr}
    BY <1>b, <2>1, <2>2, FirstMakesRing, AddrAssumption DEF AddProcess
  <2>4. StackOK'
    BY <1>b, <2>1, <2>2, <2>3, AddTakesSlot, AddrAssumption
  <2>5. LowestFreeSlot = 0
    <3>1. FreeSlots = Slot /\ 0 \in Slot /\ \A j \in Slot : j \in Nat /\ 0 <= j
      BY <2>2, SlotAssumption DEF FreeSlots, Slot
    <3>2. \A j \in FreeSlots : LowestFreeSlot <= j
      BY <3>1 DEF LowestFreeSlot
    <3>3. LowestFreeSlot \in Slot
      BY <3>1, SlotFound
    <3> QED
      BY <3>1, <3>2, <3>3
  <2>6. /\ stack_idx'[InitAddr] = 0 /\ run_count'[InitAddr] = 1
        /\ current_process' = InitAddr
    BY <1>b, <2>1, <2>2, <2>5, AddrAssumption DEF AddProcess, TableTypeOK
  <2>7. Parked' = {}
    BY <2>2, <2>3, <2>6 DEF Parked, SchedPoint
  <2> QED
    BY <1>a, <2>2, <2>4, <2>6, <2>7 DEF StartStack, OwnContext, FrameKnown, Begun, At
<1>2. CASE Tick
  <2>1. /\ cpu.at \in ThreadPoint /\ cpu'.at = "check"
        /\ UNCHANGED <<alloc, run_count, stack_idx, stacks, current_process>>
    BY <1>2, <1>b DEF Tick, Context
  <2>2. \A a \in Addr : sp'[a] = IF a = current_process THEN cpu ELSE sp[a]
    BY <1>2, <1>b DEF Tick, TableTypeOK
  <2>3. Ring' = Ring /\ Parked' = Ring /\ \A a \in Ring : a # current_process => a \in Parked
    BY <2>1 DEF Ring, Parked, SchedPoint
  <2>4. OwnContext' /\ FrameKnown'
    BY <1>c, <2>1, <2>2, <2>3 DEF OwnContext, FrameKnown, Begun, ThreadPoint
  <2> QED
    BY <1>a, <2>1, <2>3, <2>4 DEF StackOK, StartStack, Begun, ThreadPoint, At
<1>3. CASE SchedSkip
  <2>1. cpu.at \in SchedPoint /\ cpu'.at \in SchedPoint /\ UNCHANGED tableVars
    BY <1>3, <1>b DEF SchedSkip, At, Context, SchedPoint
  <2> QED
    BY <1>a, <2>1, SchedContexts DEF tableVars
<1>4. CASE SchedAge
  BY <1>4, <1>a, <1>b, SchedContexts DEF SchedAge, At, Context, SchedPoint
<1>5. CASE SchedReap
  <2> DEFINE b == next[current_process]
  <2>1. /\ cpu.at = "check" /\ cpu'.at = "advance"
        /\ b # InitAddr /\ RemoveProcess(b, status)
        /\ UNCHANGED <<sp, run_count, stack_idx, current_process>>
    BY <1>5, <1>b DEF SchedReap, At, Context, Successor, RemoveProcess
  <2>2. b \in Ring /\ InitAddr \in Ring /\ Ring # {b}
    BY <1>a, <2>1 DEF RingInv, Whereabouts, At
  <2>3. Ring' = Ring \ {b}
    BY <1>b, <2>1, <2>2, RemoveKeepsRing DEF RingInv
  <2>4. StackOK'
    BY <1>b, <2>1, <2>2, <2>3, RemoveFreesSlot
  <2>5. Parked' \subseteq Parked
    BY <2>1, <2>3 DEF Parked, SchedPoint
  <2> QED
    BY <1>a, <2>1, <2>4, <2>5 DEF StartStack, OwnContext, FrameKnown, Begun, ThreadPoint, At
<1>6. CASE SchedHalt
  <2>1. cpu.at \in SchedPoint /\ cpu'.at = "halted" /\ UNCHANGED tableVars
    BY <1>6, <1>b DEF SchedHalt, At, Context, SchedPoint
  <2> QED
    BY <1>a, <2>1, SchedContexts DEF tableVars
<1>7. CASE SchedAdvance
  BY <1>7, <1>a, <1>b, SchedContexts DEF SchedAdvance, At, Context, SchedPoint
<1>8. CASE SchedSwitch
  <2> DEFINE c == current_process
  <2>1. /\ cpu.at = "switch" /\ c \in Ring /\ c \in Parked
        /\ run_count' = [run_count EXCEPT ![c] = Bump(@)]
        /\ UNCHANGED <<alloc, stack_idx, sp, stacks, current_process>>
    BY <1>8 DEF SchedSwitch, At, RingInv, Whereabouts, Parked, SchedPoint
  <2>2. /\ run_count'[c] # 0 /\ (run_count'[c] > 1 => run_count[c] # 0)
        /\ \A a \in Ring : a # c => run_count'[a] = run_count[a]
    <3>1. run_count[c] \in 0 .. 2 /\ run_count'[c] = Bump(run_count[c])
      BY <1>b, <1>c, <2>1 DEF TableTypeOK
    <3> QED
      BY <1>b, <1>c, <2>1, <3>1 DEF TableTypeOK, Bump
  <2>3. /\ sp[c].stk = stack_idx[c] /\ sp[c].at \in LivePoint \cup {"lost"}
        /\ run_count[c] # 0 => sp[c].at # "fresh"
    BY <2>1 DEF OwnContext, FrameKnown, RingInv, ParkedLive
  <2>4. cpu' = IF run_count'[c] > 1 THEN sp[c] ELSE [FreshContext(sp[c].stk) EXCEPT !.at = "user"]
    BY <1>8 DEF SchedSwitch, ResumeContext
  <2>5. cpu'.stk = stack_idx[c] /\ cpu'.at \in ThreadPoint /\ cpu'.at # "fresh"
    <3>1. CASE run_count'[c] > 1
      BY <2>2, <2>3, <2>4, <3>1 DEF LivePoint, ThreadPoint
    <3>2. CASE ~(run_count'[c] > 1)
      BY <2>3, <2>4, <3>2 DEF FreshContext, ThreadPoint
    <3> QED
      BY <3>1, <3>2
  <2>6. Ring' = Ring /\ \A a \in Parked' : a \in Parked /\ a # c /\ run_count'[a] = run_count[a]
    BY <2>1, <2>2, <2>5 DEF Ring, Parked, SchedPoint, ThreadPoint
  <2> QED
    BY <1>a, <2>1, <2>2, <2>5, <2>6
       DEF StackOK, StartStack, OwnContext, FrameKnown, Begun, At, ThreadPoint
<1>9. ASSUME NEW p \in Addr, NEW w \in Wait, Clone(p, w)
      PROVE  ContextInv'
  <2>1. /\ cpu.at = "user" /\ cpu'.at = "sysret" /\ cpu'.stk = cpu.stk
        /\ alloc[p] = "free" /\ AddProcess(p, w)
    BY <1>9, <1>b DEF Clone, Swi, At, Context, AddProcess
  <2>2. current_process \in Ring /\ p \notin Ring
    BY <2>1 DEF RingInv, Whereabouts, LivePoint, Ring
  <2>3. Ring' = Ring \cup {p}
    BY <1>b, <2>1, <2>2, InsertKeepsRing DEF AddProcess, RingInv
  <2>4. real_nbprocs # 0 /\ current_process' = current_process
    <3>1. real_nbprocs # 0
      BY <2>2, RingFinite DEF RingInv, RingOK
    <3> QED
      BY <2>1, <3>1 DEF AddProcess
  <2>5. StackOK'
    BY <1>b, <2>1, <2>2, <2>3, AddTakesSlot
  <2>6. \A a \in Ring : /\ sp'[a] = sp[a] /\ stack_idx'[a] = stack_idx[a]
                        /\ run_count'[a] = run_count[a]
    BY <1>b, <1>c, <2>1, <2>2 DEF AddProcess, TableTypeOK
  <2>7. /\ sp'[p].stk = stack_idx'[p] /\ sp'[p].at = "fresh" /\ run_count'[p] = 0
    BY <1>b, <2>1, <2>4 DEF AddProcess, TableTypeOK, FreshContext
  <2>8. \A a \in Parked' : a = p \/ a \in Parked
    BY <2>1, <2>3, <2>4 DEF Parked, SchedPoint
  <2>9. Parked \subseteq Ring
    BY DEF Parked
  <2>10. OwnContext' /\ FrameKnown' /\ Begun'
    BY <2>1, <2>2, <2>4, <2>6, <2>7, <2>8, <2>9
       DEF OwnContext, FrameKnown, Begun, ThreadPoint
  <2> QED
    BY <1>a, <2>1, <2>5, <2>10 DEF StartStack, At
<1>10. ASSUME NEW p \in Addr, CloneFull(p)
       PROVE  ContextInv'
  <2>1. /\ cpu.at = "user" /\ cpu'.at = "sysfree" /\ cpu'.stk = cpu.stk
        /\ alloc[p] = "free" /\ alloc' = [alloc EXCEPT ![p] = "private"]
        /\ run_count' = [run_count EXCEPT ![p] = 0]
        /\ UNCHANGED <<sp, stack_idx, stacks, current_process>>
    BY <1>10, <1>b DEF CloneFull, Swi, At, Context
  <2>2. Ring' = Ring /\ \A a \in Ring : run_count'[a] = run_count[a]
    BY <1>b, <2>1 DEF Ring, TableTypeOK
  <2>3. Parked' = Parked /\ Parked \subseteq Ring
    BY <2>1, <2>2 DEF Parked, SchedPoint
  <2> QED
    BY <1>a, <2>1, <2>2, <2>3
       DEF StackOK, StartStack, OwnContext, FrameKnown, Begun, ThreadPoint, At
<1>11. CASE CloneFullFree
  <2>1. /\ cpu.at = "sysfree" /\ cpu'.at = "sysret" /\ cpu'.stk = cpu.stk
        /\ cpu.blk \in Addr /\ alloc[cpu.blk] = "private"
        /\ alloc' = [alloc EXCEPT ![cpu.blk] = "free"]
        /\ UNCHANGED <<run_count, sp, stack_idx, stacks, current_process>>
    BY <1>11, <1>b DEF CloneFullFree, At, Context, RingInv, BlockOwned
  <2>2. Ring' = Ring
    BY <1>b, <2>1 DEF Ring, TableTypeOK
  <2>3. Parked' = Parked
    BY <2>1, <2>2 DEF Parked, SchedPoint
  <2> QED
    BY <1>a, <2>1, <2>2, <2>3
       DEF StackOK, StartStack, OwnContext, FrameKnown, Begun, ThreadPoint, At
<1>12. CASE SysReturn
  <2>1. /\ cpu.at \in ThreadPoint /\ cpu'.at \in ThreadPoint /\ cpu'.stk = cpu.stk
        /\ UNCHANGED tableVars
    BY <1>12, <1>b DEF SysReturn, At, Context, ThreadPoint
  <2> QED
    BY <1>a, <2>1, SameContexts DEF tableVars
<1>13. CASE Exit
  <2> DEFINE p == current_process
  <2>1. /\ cpu.at = "user" /\ cpu'.at = "exitret" /\ cpu'.stk = cpu.stk
        /\ p # InitAddr
        /\ RemoveProcess(p, [status EXCEPT ![p] = "TERM"])
        /\ UNCHANGED <<sp, run_count, stack_idx, current_process>>
    BY <1>13, <1>b DEF Exit, Swi, At, Context, RemoveProcess
  <2>2. p \in Ring /\ InitAddr \in Ring /\ Ring # {p}
    BY <2>1 DEF RingInv, Whereabouts, LivePoint, At
  <2>3. Ring' = Ring \ {p}
    BY <1>b, <2>1, <2>2, RemoveKeepsRing DEF RingInv
  <2>4. StackOK'
    BY <1>b, <2>1, <2>2, <2>3, RemoveFreesSlot
  <2>5. Parked' \subseteq Parked
    BY <2>1, <2>3 DEF Parked, SchedPoint
  <2> QED
    BY <1>a, <2>1, <2>3, <2>4, <2>5
       DEF StartStack, OwnContext, FrameKnown, Begun, ThreadPoint, At
<1>14. CASE ExitInit
  BY <1>14, <1>a, <1>b, SameContexts DEF ExitInit, Swi, At, Context, ThreadPoint
<1>15. ASSUME NEW a \in Addr, NEW s \in KillStatus, Kill(a, s)
       PROVE  ContextInv'
  BY <1>15, <1>a, <1>b, SameContexts DEF Kill, Swi, At, Context, ThreadPoint
<1>16. ASSUME NEW a \in Addr, WaitPid(a)
       PROVE  ContextInv'
  BY <1>16, <1>a, <1>b, SameContexts DEF WaitPid, Swi, At, Context, ThreadPoint
<1>17. CASE WaitPidDone
  <2>1. /\ cpu.at \in ThreadPoint /\ cpu'.at \in ThreadPoint /\ cpu'.stk = cpu.stk
        /\ UNCHANGED tableVars
    BY <1>17, <1>b DEF WaitPidDone, At, Context, ThreadPoint
  <2> QED
    BY <1>a, <2>1, SameContexts DEF tableVars
<1>18. CASE Exec
  <2>1. /\ cpu.at \in ThreadPoint /\ cpu'.at \in ThreadPoint /\ cpu'.stk = cpu.stk
        /\ UNCHANGED tableVars
    BY <1>18, <1>b DEF Exec, Swi, At, Context, ThreadPoint
  <2> QED
    BY <1>a, <2>1, SameContexts DEF tableVars
<1>19. CASE UNCHANGED vars
  BY <1>a, <1>19
     DEF vars, tableVars, StackOK, StartStack, OwnContext, FrameKnown, Begun, Parked, Ring, At
<1> QED
  BY <1>1, <1>2, <1>3, <1>4, <1>5, <1>6, <1>7, <1>8, <1>9, <1>10, <1>11, <1>12,
     <1>13, <1>14, <1>15, <1>16, <1>17, <1>18, <1>19
     DEF Next, Schedule, Spawn

\* No two live processes ever have the same stack, and a stack is marked used
\* exactly while a live process has it: no slot leaks, none is given twice.
THEOREM StackCorrect ==
  ASSUME ~NestedTicks, ExitSpins
  PROVE  Spec => []StackOK
<1>1. ContextInv => StackOK
  BY DEF ContextInv
<1> QED
  BY ContextInit, ContextStep, <1>1, PTL DEF Spec

\* The CPU runs a process's code on that process's own stack, and every other
\* live process is parked on its own, at a point of its own code.
THEOREM OwnContextCorrect ==
  ASSUME ~NestedTicks, ExitSpins
  PROVE  Spec => []OwnContext
<1>1. ContextInv => OwnContext
  BY DEF ContextInv
<1> QED
  BY ContextInit, ContextStep, <1>1, PTL DEF Spec

\* run_count tells schedule() rightly whether there is a frame to pop.
THEOREM FrameKnownCorrect ==
  ASSUME ~NestedTicks, ExitSpins
  PROVE  Spec => []FrameKnown
<1>1. ContextInv => FrameKnown
  BY DEF ContextInv
<1> QED
  BY ContextInit, ContextStep, <1>1, PTL DEF Spec

\* No process is marked RUN while schedule() runs on the stack of one.
LoneRunner == \A a \in Ring : status[a] = "RUN" => a = current_process /\ cpu.at \notin SchedPoint

RunnerInv == RingInv /\ LoneRunner

\* A step that marks no process RUN and leaves the running one in place, not
\* inside schedule().
LEMMA NoNewRunner ==
  ASSUME LoneRunner, RingInv', Ring' \subseteq Ring, UNCHANGED current_process,
         \A a \in Ring' : status'[a] = "RUN" => status[a] = "RUN",
         cpu.at \in SchedPoint \/ cpu'.at \notin SchedPoint
  PROVE  RunnerInv'
BY DEF RunnerInv, LoneRunner

LEMMA RunnerStep ==
  ASSUME ~NestedTicks, ExitSpins, "RUN" \notin KillStatus, RunnerInv, [Next]_vars
  PROVE  RunnerInv'
<1> USE DEF RunnerInv
<1>a. RingInv' /\ TypeInv
  BY RingStep DEF RingInv
<1>b. TableTypeOK /\ cpu \in Context
  BY <1>a DEF TypeInv, TypeOK
<1>c. Ring \subseteq Addr
  BY DEF Ring
<1>1. CASE Boot
  <2>1. PICK w \in Wait : AddProcess(InitAddr, w)
    BY <1>1 DEF Boot
  <2>2. Ring = {} /\ real_nbprocs = 0
    BY <1>1, <1>a DEF Boot, RingInv, Whereabouts, TypeInv
  <2>3. Ring' = {InitAddr}
    BY <1>b, <2>1, <2>2, FirstMakesRing, AddrAssumption DEF AddProcess
  <2>4. status'[InitAddr] = "WAIT"
    BY <1>b, <2>1, AddrAssumption DEF AddProcess, TableTypeOK
  <2> QED
    BY <1>a, <2>3, <2>4 DEF LoneRunner
<1>2. CASE Tick
  <2>1. /\ cpu.at \in ThreadPoint
        /\ status' = [status EXCEPT ![current_process] = IF @ = "RUN" THEN "WAIT" ELSE @]
        /\ UNCHANGED <<alloc, current_process>>
    BY <1>2 DEF Tick
  <2>2. Ring' = Ring
    BY <2>1 DEF Ring
  <2>3. \A a \in Ring : status'[a] # "RUN"
    BY <1>b, <1>c, <2>1 DEF LoneRunner, TableTypeOK
  <2> QED
    BY <1>a, <2>2, <2>3 DEF LoneRunner
<1>3. CASE SchedSkip
  BY <1>3, <1>a, NoNewRunner DEF SchedSkip, tableVars, Ring, At, SchedPoint
<1>4. CASE SchedAge
  BY <1>4, <1>a, NoNewRunner DEF SchedAge, Ring, At, SchedPoint
<1>5. CASE SchedReap
  <2> DEFINE b == next[current_process]
  <2>1. cpu.at = "check" /\ RemoveProcess(b, status) /\ UNCHANGED current_process
    BY <1>5 DEF SchedReap, At, Successor, RemoveProcess
  <2>2. \A a \in Ring' : a \in Ring /\ (status'[a] = "RUN" => status[a] = "RUN")
    BY <1>b, <2>1 DEF RemoveProcess, TableTypeOK, Ring
  <2> QED
    BY <1>a, <2>1, <2>2, NoNewRunner DEF SchedPoint
<1>6. CASE SchedHalt
  BY <1>6, <1>a, NoNewRunner DEF SchedHalt, tableVars, Ring, At, SchedPoint
<1>7. CASE SchedAdvance
  <2>1. cpu.at \in SchedPoint /\ UNCHANGED <<alloc, status>>
    BY <1>7 DEF SchedAdvance, At, SchedPoint
  <2> QED
    BY <1>a, <2>1 DEF LoneRunner, Ring
<1>8. CASE SchedSwitch
  <2>1. /\ cpu.at = "switch" /\ current_process \in Ring
        /\ status' = [status EXCEPT ![current_process] = "RUN"]
        /\ UNCHANGED <<alloc, sp, current_process>>
    BY <1>8 DEF SchedSwitch, At, RingInv, Whereabouts
  <2>2. cpu' = sp[current_process] \/ cpu'.at = "user"
    BY <1>8 DEF SchedSwitch, ResumeContext, FreshContext
  <2>3. cpu'.at \notin SchedPoint
    BY <2>1, <2>2 DEF RingInv, ParkedLive, LivePoint, SchedPoint
  <2>4. Ring' = Ring /\ \A a \in Ring : a # current_process => status'[a] = status[a]
    BY <1>b, <1>c, <2>1 DEF Ring, TableTypeOK
  <2> QED
    BY <1>a, <2>1, <2>3, <2>4 DEF LoneRunner, SchedPoint
<1>9. ASSUME NEW p \in Addr, NEW w \in Wait, Clone(p, w)
      PROVE  RunnerInv'
  <2>1. cpu.at = "user" /\ cpu'.at = "sysret" /\ alloc[p] = "free" /\ AddProcess(p, w)
    BY <1>9, <1>b DEF Clone, Swi, At, Context, AddProcess
  <2>2. current_process \in Ring /\ p \notin Ring
    BY <2>1 DEF RingInv, Whereabouts, LivePoint, Ring
  <2>3. Ring' = Ring \cup {p}
    BY <1>b, <2>1, <2>2, InsertKeepsRing DEF AddProcess, RingInv
  <2>4. current_process' = current_process
    <3>1. real_nbprocs # 0
      BY <2>2, RingFinite DEF RingInv, RingOK
    <3> QED
      BY <2>1, <3>1 DEF AddProcess
  <2>5. \A a \in Addr : status'[a] = IF a = p THEN "WAIT" ELSE status[a]
    BY <1>b, <2>1 DEF AddProcess, TableTypeOK
  <2> QED
    BY <1>a, <1>c, <2>1, <2>3, <2>4, <2>5 DEF LoneRunner, SchedPoint
<1>10. ASSUME NEW p \in Addr, CloneFull(p)
       PROVE  RunnerInv'
  <2>1. /\ cpu'.at = "sysfree"
        /\ alloc' = [alloc EXCEPT ![p] = "private"] /\ status' = [status EXCEPT ![p] = "WAIT"]
        /\ UNCHANGED current_process
    BY <1>10, <1>b DEF CloneFull, Context
  <2>2. \A a \in Ring' : a \in Ring /\ (status'[a] = "RUN" => status[a] = "RUN")
    BY <1>b, <2>1 DEF TableTypeOK, Ring
  <2> QED
    BY <1>a, <2>1, <2>2, NoNewRunner DEF SchedPoint
<1>11. CASE CloneFullFree
  <2>1. /\ cpu'.at = "sysret" /\ alloc' = [alloc EXCEPT ![cpu.blk] = "free"]
        /\ UNCHANGED <<status, current_process>>
    BY <1>11, <1>b DEF CloneFullFree, Context
  <2>2. Ring' \subseteq Ring
    BY <1>b, <2>1 DEF TableTypeOK, Ring
  <2> QED
    BY <1>a, <2>1, <2>2, NoNewRunner DEF SchedPoint
<1>12. CASE SysReturn
  <2>1. cpu'.at \notin SchedPoint /\ UNCHANGED <<alloc, status, current_process>>
    BY <1>12, <1>b DEF SysReturn, At, Context, SchedPoint, tableVars
  <2> QED
    BY <1>a, <2>1, NoNewRunner DEF Ring
<1>13. CASE Exit
  <2> DEFINE p == current_process
             st == [status EXCEPT ![p] = "TERM"]
  <2>1. cpu'.at = "exitret" /\ RemoveProcess(p, st) /\ UNCHANGED p
    BY <1>13, <1>b DEF Exit, Context, RemoveProcess
  <2>2. \A a \in Addr : st[a] = "RUN" => status[a] = "RUN"
    BY <1>b DEF TableTypeOK
  <2>3. \A a \in Ring' : a \in Ring /\ (status'[a] = "RUN" => status[a] = "RUN")
    <3>1. Ring' \subseteq Ring
      BY <1>b, <2>1 DEF RemoveProcess, TableTypeOK, Ring
    <3>2. st \in [Addr -> Status]
      BY <1>b DEF TableTypeOK, Status
    <3>3. \A a \in Addr : status'[a] = "RUN" => st[a] = "RUN"
      BY <2>1, <3>2 DEF RemoveProcess
    <3> QED
      BY <1>c, <2>2, <3>1, <3>3
  <2> QED
    BY <1>a, <2>1, <2>3, NoNewRunner DEF SchedPoint
<1>14. CASE ExitInit
  <2>1. cpu'.at = "halted" /\ status' = [status EXCEPT ![InitAddr] = "TERM"]
        /\ UNCHANGED <<alloc, current_process>>
    BY <1>14, <1>b DEF ExitInit, Context
  <2>2. Ring' = Ring /\ \A a \in Ring : status'[a] = "RUN" => status[a] = "RUN"
    BY <1>b, <2>1 DEF Ring, TableTypeOK
  <2> QED
    BY <1>a, <2>1, <2>2, NoNewRunner DEF SchedPoint
<1>15. ASSUME NEW a \in Addr, NEW s \in KillStatus, Kill(a, s)
       PROVE  RunnerInv'
  <2>1. cpu'.at = "sysret" /\ status' = [status EXCEPT ![a] = s]
        /\ UNCHANGED <<alloc, current_process>>
    BY <1>15, <1>b DEF Kill, Context
  <2>2. Ring' = Ring /\ s # "RUN" /\ \A b \in Ring : status'[b] = "RUN" => status[b] = "RUN"
    BY <1>b, <2>1 DEF Ring, TableTypeOK
  <2> QED
    BY <1>a, <2>1, <2>2, NoNewRunner DEF SchedPoint
<1>16. ASSUME NEW a \in Addr, WaitPid(a)
       PROVE  RunnerInv'
  <2>1. cpu'.at = "waitspin" /\ UNCHANGED <<alloc, status, current_process>>
    BY <1>16, <1>b DEF WaitPid, Context
  <2> QED
    BY <1>a, <2>1, NoNewRunner DEF Ring, SchedPoint
<1>17. CASE WaitPidDone
  <2>1. cpu'.at = "sysret" /\ UNCHANGED <<alloc, status, current_process>>
    BY <1>17, <1>b DEF WaitPidDone, Context, tableVars
  <2> QED
    BY <1>a, <2>1, NoNewRunner DEF Ring, SchedPoint
<1>18. CASE Exec
  <2>1. cpu'.at = "user" /\ UNCHANGED <<alloc, status, current_process>>
    BY <1>18, <1>b DEF Exec, Swi, At, Context, tableVars
  <2> QED
    BY <1>a, <2>1, NoNewRunner DEF Ring, SchedPoint
<1>19. CASE UNCHANGED vars
  BY <1>a, <1>19 DEF vars, tableVars, LoneRunner, Ring
<1> QED
  BY <1>1, <1>2, <1>3, <1>4, <1>5, <1>6, <1>7, <1>8, <1>9, <1>10, <1>11, <1>12,
     <1>13, <1>14, <1>15, <1>16, <1>17, <1>18, <1>19
     DEF Next, Schedule, Spawn

\* While no process uses kill to mark another one RUN, only the process the
\* CPU runs is marked so: no ready process is mistaken for a running one.
THEOREM OneRunnerCorrect ==
  ASSUME ~NestedTicks, ExitSpins, "RUN" \notin KillStatus
  PROVE  Spec => []OneRunner
<1>1. Init => RunnerInv
  BY RingInit DEF RunnerInv, LoneRunner, Init, TableInit, Ring
<1>2. RunnerInv /\ [Next]_vars => RunnerInv'
  BY RunnerStep
<1>3. RunnerInv => OneRunner
  BY DEF RunnerInv, LoneRunner, OneRunner
<1> QED
  BY <1>1, <1>2, <1>3, PTL DEF Spec
=============================================================================
