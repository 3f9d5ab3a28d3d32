-------------------------- MODULE SvcStack_proofs --------------------------
(***************************************************************************)
(* Invariance proofs for SvcStack, on top of those for Scheduler.          *)
(***************************************************************************)
EXTENDS SvcStack, Scheduler_proofs

\* The stack holds table entries, and never fewer than the processes that
\* have yet to finish a call; the scheduler's own invariant says who they are.
SvcInv == ContextInv /\ svc \in Seq(Addr) /\ SvcEnough

\* A step of SvcStack is one of Scheduler.
LEMMA SvcNextIsNext == [SvcNext]_svcVars => [Next]_vars
BY DEF SvcNext, svcVars

\* A call that begins adds at most its caller to them: the one process it may
\* add to the ring is fresh.
LEMMA EntryInside ==
  ASSUME RingInv, Next, SwiEntry
  PROVE  /\ current_process' = current_process
         /\ Inside' \subseteq Inside \cup {current_process}
<1>a. TableTypeOK /\ cpu \in Context /\ Ring \subseteq Addr /\ cpu.at = "user"
  BY DEF RingInv, TypeInv, TypeOK, Ring, SwiEntry, At
<1>b. current_process \in Ring
  BY <1>a DEF RingInv, Whereabouts, LivePoint
<1>c. Parked = Ring \ {current_process}
  BY <1>a DEF Parked, SchedPoint
<1>1. SUFFICES /\ current_process' = current_process
               /\ \A a \in Parked' : (a \in Parked /\ sp'[a] = sp[a]) \/ sp'[a].at = "fresh"
  BY <1>1, <1>a DEF Inside, InCall
<1>2. ASSUME NEW p \in Addr, NEW w \in Wait, Clone(p, w)
      PROVE  /\ current_process' = current_process
             /\ \A a \in Parked' : (a \in Parked /\ sp'[a] = sp[a]) \/ sp'[a].at = "fresh"
  <2>1. real_nbprocs # 0
    BY <1>b, RingFinite DEF RingInv, RingOK
  <2>2. /\ AddProcess(p, w) /\ cpu'.at = "sysret"
        /\ current_process' = current_process
        /\ alloc' = [alloc EXCEPT ![p] = "linked"]
    BY <1>2, <1>a, <2>1 DEF Clone, AddProcess, Context
  <2>3. \A a \in Addr : IF a = p THEN sp'[a].at = "fresh" ELSE sp'[a] = sp[a]
    BY <1>a, <2>2 DEF AddProcess, TableTypeOK, FreshContext
  <2>4. Parked' \subseteq Parked \cup {p} /\ Parked' \subseteq Addr
    BY <1>a, <1>c, <2>2 DEF Parked, Ring, SchedPoint, TableTypeOK
  <2> QED
    BY <2>2, <2>3, <2>4
<1>3. CASE \/ \E p \in Addr : CloneFull(p)
           \/ Exit \/ ExitInit \/ Exec
           \/ \E a \in Addr : (\E s \in KillStatus : Kill(a, s)) \/ WaitPid(a)
  <2>1. UNCHANGED <<sp, current_process>> /\ cpu'.at \notin SchedPoint
    BY <1>3, <1>a
       DEF CloneFull, Exit, ExitInit, Exec, Kill, WaitPid, RemoveProcess, tableVars,
           Context, SchedPoint, Swi, At
  <2>2. alloc' = alloc \/ \E p \in Addr, v \in {"private", "free"} : alloc' = [alloc EXCEPT ![p] = v]
    BY <1>3, <1>b, <1>a
       DEF CloneFull, Exit, ExitInit, Exec, Kill, WaitPid, RemoveProcess, tableVars
  <2>3. Ring' \subseteq Ring
    BY <1>a, <2>2 DEF Ring, TableTypeOK
  <2> QED
    BY <1>c, <2>1, <2>3 DEF Parked, SchedPoint
<1>4. ASSUME Boot \/ Tick \/ Schedule \/ CloneFullFree \/ SysReturn \/ WaitPidDone
      PROVE  FALSE
  <2>1. CASE Tick
    BY <2>1, <1>a DEF Tick, SwiEntry, InCall, Exec, Swi, At, Context
  <2> QED
    BY <1>4, <1>a, <2>1
       DEF Boot, Schedule, SchedSkip, SchedAge, SchedReap, SchedHalt, SchedAdvance, SchedSwitch,
           CloneFullFree, SysReturn, WaitPidDone, At
<1> QED
  BY <1>2, <1>3, <1>4 DEF Next, Spawn

\* A call that ends takes its caller away.
LEMMA ReturnInside ==
  ASSUME SysReturn, TypeInv
  PROVE  current_process \in Inside /\ Inside' \subseteq Inside \ {current_process}
<1>1. /\ cpu.at \in {"sysret", "exitret"} /\ cpu'.at \in {"user", "exited", "lost"}
      /\ UNCHANGED <<sp, alloc, current_process>>
  BY DEF SysReturn, TypeInv, TypeOK, Context, At, tableVars
<1>2. Parked' = Parked /\ current_process \notin Parked
  BY <1>1 DEF Parked, Ring, SchedPoint
<1> QED
  BY <1>1, <1>2 DEF Inside, InCall

\* Any other step leaves them or takes some away: schedule() only moves a
\* context between the CPU and the table, and a reap drops one.
LEMMA OtherInside ==
  ASSUME ContextInv, ~NestedTicks, ExitSpins, [Next]_vars, ~SysReturn, ~SwiEntry
  PROVE  Inside' \subseteq Inside
<1> USE DEF ContextInv
<1>a. RingInv /\ TypeInv /\ TableTypeOK /\ cpu \in Context /\ Ring \subseteq Addr
  BY DEF RingInv, TypeInv, TypeOK, Ring
<1>1. CASE Boot
  <2>1. PICK w \in Wait : AddProcess(InitAddr, w)
    BY <1>1 DEF Boot
  <2>2. Ring = {} /\ real_nbprocs = 0 /\ cpu'.at = "user"
    BY <1>1, <1>a DEF Boot, RingInv, Whereabouts, TypeInv, Context
  <2>3. Ring' = {InitAddr} /\ current_process' = InitAddr
    BY <1>a, <2>1, <2>2, FirstMakesRing, AddrAssumption DEF AddProcess
  <2> QED
    BY <2>2, <2>3 DEF Inside, Parked, SchedPoint, InCall
<1>2. CASE Tick
  <2>1. cpu.at \in ThreadPoint /\ cpu'.at = "check" /\ UNCHANGED <<alloc, current_process>>
    BY <1>2, <1>a DEF Tick, Context
  <2>2. \A a \in Addr : sp'[a] = IF a = current_process THEN cpu ELSE sp[a]
    BY <1>2, <1>a DEF Tick, TableTypeOK
  <2>3. Parked' = Ring /\ \A a \in Ring : a # current_process => a \in Parked
    BY <2>1 DEF Parked, Ring, SchedPoint
  <2> QED
    BY <1>a, <2>1, <2>2, <2>3 DEF Inside, InCall
<1>3. CASE SchedSkip \/ SchedAge \/ SchedHalt \/ SchedAdvance
  <2>1. /\ cpu.at \in SchedPoint /\ cpu'.at \in SchedPoint \cup {"halted"}
        /\ UNCHANGED <<alloc, sp>>
    BY <1>3, <1>a
       DEF SchedSkip, SchedAge, SchedHalt, SchedAdvance, tableVars, At, Context, SchedPoint
  <2> QED
    BY <2>1 DEF Inside, Parked, Ring, SchedPoint, InCall
<1>4. CASE SchedReap
  <2> DEFINE b == next[current_process]
  <2>1. /\ cpu.at = "check" /\ cpu'.at = "advance" /\ UNCHANGED sp
        /\ alloc' = [alloc EXCEPT ![b] = "free"]
    BY <1>4, <1>a DEF SchedReap, At, Context, Successor, RemoveProcess
  <2>2. Ring' \subseteq Ring
    BY <1>a, <2>1 DEF Ring, TableTypeOK
  <2> QED
    BY <2>1, <2>2 DEF Inside, Parked, SchedPoint, InCall
<1>5. CASE SchedSwitch
  <2>1. /\ cpu.at = "switch" /\ current_process \in Parked
        /\ UNCHANGED <<alloc, sp, current_process>>
        /\ cpu' = sp[current_process] \/ cpu'.at = "user"
    BY <1>5
       DEF SchedSwitch, ResumeContext, FreshContext, At, RingInv, Whereabouts, Parked, SchedPoint
  <2>2. Parked' \subseteq Parked
    BY <2>1 DEF Parked, Ring, SchedPoint
  <2> QED
    BY <2>1, <2>2 DEF Inside, InCall
<1>6. CASE CloneFullFree \/ WaitPidDone
  <2>1. /\ cpu.at \in {"sysfree", "waitspin"} /\ cpu'.at = "sysret"
        /\ UNCHANGED <<sp, current_process>>
    BY <1>6, <1>a DEF CloneFullFree, WaitPidDone, tableVars, At, Context
  <2>2. alloc' = alloc \/ alloc' = [alloc EXCEPT ![cpu.blk] = "free"]
    BY <1>6 DEF CloneFullFree, WaitPidDone, tableVars
  <2>3. Ring' \subseteq Ring
    BY <1>a, <2>2 DEF Ring, TableTypeOK
  <2> QED
    BY <2>1, <2>3 DEF Inside, Parked, SchedPoint, InCall
<1>7. ASSUME \/ Spawn \/ Exit \/ ExitInit \/ Exec
             \/ \E a \in Addr : (\E s \in KillStatus : Kill(a, s)) \/ WaitPid(a)
      PROVE  FALSE
  <2>1. At("user")
    BY <1>7 DEF Spawn, Clone, CloneFull, Exit, ExitInit, Exec, Kill, WaitPid, Swi
  <2>2. ~Exec => cpu'.at \in InCall \cup {"halted"}
    BY <1>7, <1>a
       DEF Spawn, Clone, CloneFull, Exit, ExitInit, Exec, Kill, WaitPid, InCall, Context
  <2> QED
    BY <2>1, <2>2 DEF SwiEntry
<1>8. CASE UNCHANGED vars
  BY <1>8 DEF vars, tableVars, Inside, Parked, Ring
<1> QED
  BY <1>1, <1>2, <1>3, <1>4, <1>5, <1>6, <1>7, <1>8 DEF Next, Schedule

LEMMA SvcStep ==
  ASSUME ~NestedTicks, ExitSpins, SvcInv, [SvcNext]_svcVars
  PROVE  SvcInv'
<1> USE DEF SvcInv
<1>a. ContextInv' /\ [Next]_vars
  BY ContextStep, SvcNextIsNext
<1>b. RingOK /\ RingOK' /\ TypeInv
  BY <1>a DEF ContextInv, RingInv
<1>c. IsFiniteSet(Inside) /\ IsFiniteSet(Inside')
  <2>1. Inside \subseteq Addr \cup {current_process} /\ Inside' \subseteq Addr \cup {current_process'}
    BY DEF Inside, Parked, Ring
  <2>2. \A x : IsFiniteSet(Addr \cup {x})
    BY AddrAssumption, FS_AddElement
  <2> QED
    BY <2>1, <2>2, FS_Subset
<1>d. /\ Cardinality(Inside) \in Nat /\ Cardinality(Inside') \in Nat
      /\ Len(svc) \in Nat /\ Len(svc) >= Cardinality(Inside)
  BY <1>c, FS_CardinalityType DEF SvcEnough
<1>1. CASE SvcNext /\ SwiEntry
  <2>1. cpu.at = "user" /\ svc' = <<current_process>> \o svc
    BY <1>1 DEF SvcNext, SwiEntry, At
  <2>2. current_process \in Addr
    BY <1>b, <2>1 DEF TypeInv, TypeOK, TableTypeOK, At
  <2>3. svc' \in Seq(Addr) /\ Len(svc') = Len(svc) + 1
    BY <2>1, <2>2
  <2>5. Inside' \subseteq Inside \cup {current_process}
    BY <1>1, EntryInside DEF ContextInv, SvcNext
  <2>6. Cardinality(Inside') <= Cardinality(Inside) + 1
    <3> DEFINE T == Inside \cup {current_process}
    <3>1. IsFiniteSet(T) /\ Cardinality(T) \in {Cardinality(Inside), Cardinality(Inside) + 1}
      BY <1>c, FS_AddElement
    <3>2. Cardinality(Inside') <= Cardinality(T)
      BY <2>5, <3>1, FS_Subset
    <3> QED
      BY <1>d, <3>1, <3>2
  <2> QED
    BY <1>a, <1>d, <2>3, <2>6 DEF SvcEnough
<1>2. CASE SvcNext /\ ~SwiEntry /\ SysReturn
  <2>1. svc' = Tail(svc)
    BY <1>2 DEF SvcNext, SwiExit
  <2>2. current_process \in Inside /\ Inside' \subseteq Inside \ {current_process}
    BY <1>2, <1>b, ReturnInside
  <2>3. Cardinality(Inside') <= Cardinality(Inside) - 1 /\ Cardinality(Inside) > 0
    BY <1>c, <1>d, <2>2, FS_RemoveElement, FS_Subset, FS_EmptySet
  <2>4. svc' \in Seq(Addr) /\ Len(svc') = Len(svc) - 1
    BY <1>d, <2>1, <2>3
  <2> QED
    BY <1>a, <1>d, <2>3, <2>4 DEF SvcEnough
<1>3. CASE ~SwiEntry /\ ~SysReturn
  <2>1. svc' = svc
    BY <1>3 DEF SvcNext, SwiExit, svcVars
  <2>2. Inside' \subseteq Inside
    BY <1>a, <1>3, OtherInside
  <2>3. Cardinality(Inside') <= Cardinality(Inside)
    BY <1>c, <2>2, FS_Subset
  <2> QED
    BY <1>a, <1>d, <2>1, <2>3 DEF SvcEnough
<1>4. CASE UNCHANGED svcVars
  BY <1>a, <1>4 DEF svcVars, vars, tableVars, SvcEnough, Inside, Parked, Ring
<1> QED
  BY <1>1, <1>2, <1>3, <1>4

\* Whatever is preempted, killed or reaped inside a call, and however calls
\* interleave on the one SVC stack, it always holds at least as many frames
\* as there are calls still to pop one.
THEOREM SvcEnoughCorrect ==
  ASSUME ~NestedTicks, ExitSpins
  PROVE  SvcSpec => []SvcEnough
<1>1. SvcInit => SvcInv
  <2> SUFFICES ASSUME SvcInit PROVE SvcInv
    OBVIOUS
  <2>1. ContextInv /\ svc = <<>>
    BY ContextInit DEF SvcInit
  <2>2. Inside = {}
    BY DEF SvcInit, Init, TableInit, FreshContext, Inside, Parked, Ring, InCall
  <2> QED
    BY <2>1, <2>2, FS_EmptySet DEF SvcInv, SvcEnough
<1>2. SvcInv /\ [SvcNext]_svcVars => SvcInv'
  BY SvcStep
<1>3. SvcInv => SvcEnough
  BY DEF SvcInv
<1> QED
  BY <1>1, <1>2, <1>3, PTL DEF SvcSpec
=============================================================================
