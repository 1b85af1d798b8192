------------------------------ MODULE SchedProof ------------------------------
(***************************************************************************)
(* Proofs about Sched.tla for every number of slots: types, the idle        *)
(* process, round robin and the registers of switched processes.            *)
(***************************************************************************)
EXTENDS Sched, WellFoundedInduction, TLAPS

(***************************************************************************)
(* The search of pc_schedule                                                *)
(***************************************************************************)
(* The remainder of a number below 2 * n.                                   *)
LEMMA Remainder ==
    ASSUME NEW a \in Nat, NEW n \in Nat \ {0}, a < 2 * n
    PROVE  a % n = IF a < n THEN a ELSE a - n
BY Z3

(* The index of the search wraps at the end of pcb[], as (curr_proc + 1) &  *)
(* 7 does.                                                                  *)
LEMMA Wrap ==
    ASSUME NEW c \in Slots, NEW d \in 1 .. NSlots
    PROVE  /\ (c + d) % NSlots = IF c + d < NSlots THEN c + d ELSE c + d - NSlots
           /\ (c + d) % NSlots \in Slots
<1>1. PICK a \in Nat : a = c + d /\ a < 2 * NSlots  BY SlotAssumption DEF Slots
<1>2. a % NSlots = IF a < NSlots THEN a ELSE a - NSlots
  BY <1>1, SlotAssumption, Remainder
<1>3. a % NSlots \in Slots  BY <1>1, <1>2, SlotAssumption DEF Slots
<1>4. (c + d) % NSlots = a % NSlots  BY <1>1
<1>5. (c + d) % NSlots \in Slots  BY <1>3, <1>4
<1>6. (c + d) % NSlots = IF c + d < NSlots THEN c + d ELSE c + d - NSlots
  BY <1>1, <1>2, <1>4, SlotAssumption DEF Slots
<1> QED BY <1>5, <1>6

(* Slots from c to s in the order of the search; a full turn back to c.     *)
Dist(c, s) == IF s > c THEN s - c ELSE s - c + NSlots

(* Every slot is reached in one turn of the search.                         *)
LEMMA DistFacts ==
    ASSUME NEW c \in Slots, NEW s \in Slots
    PROVE  Dist(c, s) \in 1 .. NSlots /\ (c + Dist(c, s)) % NSlots = s
<1>1. Dist(c, s) \in 1 .. NSlots  BY SlotAssumption DEF Dist, Slots
<1> DEFINE d == Dist(c, s)
<1>2. (c + d) % NSlots = IF c + d < NSlots THEN c + d ELSE c + d - NSlots
  <2> HIDE DEF d
  <2>1. d \in 1 .. NSlots  BY <1>1 DEF d
  <2> QED BY <2>1, Wrap
<1>3. (IF c + d < NSlots THEN c + d ELSE c + d - NSlots) = s
  BY SlotAssumption DEF Dist, Slots
<1>4. (c + d) % NSlots = s  BY <1>2, <1>3
<1> QED BY <1>1, <1>4

(* When some slot is live the search of pc_schedule has a first hit.        *)
LEMMA HopsFacts ==
    ASSUME NEW c \in Slots, NEW L \in SUBSET Slots, L # {}
    PROVE  Hops(c, L) \in 1 .. NSlots /\ IsNext(c, L, Hops(c, L))
<1> DEFINE D == {d \in 1 .. NSlots : (c + d) % NSlots \in L}
<1>1. D # {}
  <2>1. PICK s \in L : s \in Slots  OBVIOUS
  <2> QED BY <2>1, DistFacts
<1>2. D \subseteq Nat  OBVIOUS
<1>3. PICK d \in D : \A e \in D : d <= e
  <2>1. PICK d \in D : \A e \in D : ~(<<e, d>> \in OpToRel(<, Nat))
    <3> HIDE DEF D
    <3> QED BY <1>1, <1>2, NatLessThanWellFounded, WFMin
  <2> HIDE DEF D
  <2>2. \A e \in D : ~(e < d)  BY <1>2, <2>1 DEF OpToRel
  <2> QED BY <1>2, <2>2
<1>4. d \in 1 .. NSlots /\ (c + d) % NSlots \in L  BY <1>3
<1>5. d \in 1 .. NSlots /\ IsNext(c, L, d)  BY <1>3, <1>4 DEF IsNext
<1> QED BY <1>5 DEF Hops

Landing(c, L) == IF L = {} THEN c ELSE (c + Hops(c, L)) % NSlots

(* The search ends on a live slot, and has moved towards every other one:   *)
(* it passes none.                                                          *)
LEMMA LandingFacts ==
    ASSUME NEW c \in Slots, NEW L \in SUBSET Slots
    PROVE  /\ Landing(c, L) \in Slots
           /\ L # {} => Landing(c, L) \in L
           /\ \A s \in L : s # Landing(c, L) => Dist(Landing(c, L), s) < Dist(c, s)
<1>1. CASE L = {}  BY <1>1 DEF Landing
<1>2. CASE L # {}
  <2> DEFINE d == Hops(c, L)
             n == (c + d) % NSlots
  <2>1. d \in 1 .. NSlots /\ IsNext(c, L, d)  BY <1>2, HopsFacts
  <2>2. n \in Slots /\ n \in L /\ Landing(c, L) = n
    BY <1>2, <2>1, Wrap DEF IsNext, Landing
  <2>3. n = IF c + d < NSlots THEN c + d ELSE c + d - NSlots  BY <2>1, Wrap
  <2>4. ASSUME NEW s \in L, s # n
        PROVE  Dist(n, s) < Dist(c, s)
    <3>1. Dist(c, s) \in 1 .. NSlots /\ (c + Dist(c, s)) % NSlots = s
      BY DistFacts
    <3>2. d <= Dist(c, s)  BY <2>1, <3>1 DEF IsNext
    <3>3. d # Dist(c, s)  BY <2>4, <3>1
    <3> HIDE DEF d, n
    <3> QED BY <2>1, <2>2, <2>3, <2>4, <3>1, <3>2, <3>3, SlotAssumption DEF Dist, Slots
  <2> QED BY <2>2, <2>4
<1> QED BY <1>1, <1>2

(***************************************************************************)
(* What Schedule does to the variables                                      *)
(***************************************************************************)
(* What pc_schedule does to the table.                                      *)
LEMMA ScheduleEffect ==
    ASSUME NEW L \in SUBSET Slots, curr_proc \in Slots, Schedule(L)
    PROVE  /\ curr_proc' = Landing(curr_proc, L)
           /\ curr_proc' \in Slots
           /\ L # {} => curr_proc' \in L
           /\ live' = L
           /\ pcb' = [pcb EXCEPT ![curr_proc] = cpu]
           /\ cpu' = IF L = {} THEN cpu ELSE pcb'[curr_proc']
           /\ fresh' = fresh \ {curr_proc', curr_proc}
           /\ waits' = [s \in Slots |-> IF s = curr_proc' \/ s \notin L
                                         THEN 0 ELSE Longer(waits[s])]
<1>1. curr_proc' = Landing(curr_proc, L)  BY DEF Schedule, Landing
<1> QED BY <1>1, LandingFacts DEF Schedule, Saved

(* Every step keeps the types.                                              *)
LEMMA TypeStep ==
    ASSUME TypeOK, [Next]_vars
    PROVE  TypeOK'
<1> USE SlotAssumption
<1>1. ASSUME NEW L \in SUBSET Slots, Schedule(L)
      PROVE  /\ live' \subseteq Slots /\ pcb' \in [Slots -> Contexts] /\ cpu' \in Contexts
             /\ curr_proc' \in Slots /\ fresh' \subseteq Slots /\ waits' \in [Slots -> 0 .. NSlots]
  <2>1. curr_proc \in Slots /\ pcb \in [Slots -> Contexts] /\ cpu \in Contexts
        /\ fresh \subseteq Slots /\ waits \in [Slots -> 0 .. NSlots]
    BY DEF TypeOK
  <2>2. \A n \in 0 .. NSlots : Longer(n) \in 0 .. NSlots /\ 0 \in 0 .. NSlots  BY DEF Longer
  <2> HIDE DEF Slots, Contexts
  <2> QED BY <1>1, <2>1, <2>2, ScheduleEffect
<1>2. CASE Tick  BY <1>1, <1>2 DEF Tick, TypeOK
<1>3. CASE Run
  <2>1. cpu' \in Contexts  BY <1>3 DEF Run, TypeOK, Contexts
  <2> QED BY <1>3, <2>1 DEF Run, TypeOK
<1>4. CASE KillSyscall
  BY <1>1, <1>4 DEF KillSyscall, TypeOK
<1>5. CASE Fault  BY <1>1, <1>5 DEF Fault, TypeOK
<1>6. CASE Spin \/ UNCHANGED vars  BY <1>6 DEF Spin, vars, TypeOK
<1>7. ASSUME NEW s \in Slots, Begin(s)
      PROVE  /\ job' \in Jobs
             /\ created' \in Creations => TypeOK'
  <2>1. job' \in Jobs  BY <1>7 DEF Begin, Jobs
  <2> QED BY <1>7, <2>1 DEF Begin, TypeOK
<1>8. CASE Proc \/ Time
  <2>1. created' \in Creations  BY <1>8 DEF Proc, Time, Asked, TypeOK, Creations
  <2>2. Clock \in Slots /\ 0 \in Slots  BY DEF Clock, Slots
  <2>3. CASE Proc
    <3>1. job' \in Jobs  BY <2>2, <2>3 DEF Proc, Jobs
    <3> QED BY <2>1, <2>3, <3>1 DEF Proc, TypeOK
  <2>4. CASE Time  BY <1>7, <2>1, <2>2, <2>4 DEF Time
  <2> QED BY <1>8, <2>3, <2>4
<1>9. CASE Peek
  <2>1. job.slot \in Slots /\ Idle \in Jobs  BY DEF TypeOK, Jobs, Idle, Slots
  <2>2. CASE job.slot \notin live  BY <1>7, <1>9, <2>1, <2>2 DEF Peek, TypeOK
  <2>3. CASE job.slot \in live
    <3>1. job' \in Jobs
      <4>1. CASE job.slot + 1 < NSlots
        <5>1. job.slot + 1 \in Slots  BY <2>1, <4>1 DEF Slots
        <5> QED BY <1>9, <2>3, <4>1, <5>1 DEF Peek, TypeOK, Jobs
      <4>2. CASE ~(job.slot + 1 < NSlots)  BY <1>9, <2>1, <2>3, <4>2 DEF Peek
      <4> QED BY <4>1, <4>2
    <3> QED BY <1>9, <2>3, <3>1 DEF Peek, TypeOK
  <2> QED BY <2>2, <2>3
<1>10. CASE WriteEpc
  <2>1. job.slot \in Slots /\ job' \in Jobs  BY <1>10 DEF WriteEpc, TypeOK, Jobs
  <2>2. pcb' \in [Slots -> Contexts]  BY <1>10, <2>1 DEF WriteEpc, TypeOK, Contexts
  <2> QED BY <1>10, <2>1, <2>2 DEF WriteEpc, TypeOK
<1>11. CASE WriteSp
  <2>1. job.slot \in Slots /\ job' \in Jobs  BY <1>11 DEF WriteSp, TypeOK, Jobs
  <2>2. pcb' \in [Slots -> Contexts]  BY <1>11, <2>1 DEF WriteSp, TypeOK, Contexts
  <2> QED BY <1>11, <2>1, <2>2 DEF WriteSp, TypeOK
<1>12. CASE Publish
  <2>1. job.slot \in Slots  BY DEF TypeOK, Jobs
  <2>2. Idle \in Jobs  BY DEF Idle, Jobs, Slots
  <2> QED BY <1>12, <2>1, <2>2 DEF Publish, TypeOK
<1>13. CASE \E n \in 0 .. 2 * NSlots - 1 : Kill(n)
  BY <1>13 DEF Kill, TypeOK
<1> QED
  BY <1>2, <1>3, <1>4, <1>5, <1>6, <1>8, <1>9, <1>10, <1>11, <1>12, <1>13 DEF Next, Create

(* Types (TypeOK), for every number of slots and of creations.              *)
THEOREM TypeCorrect == Spec => []TypeOK
<1>1. Init => TypeOK
  BY SlotAssumption
     DEF Init, TypeOK, Slots, Contexts, Context, Creations, Jobs, Idle, Init0, Shell, Clock, Blank
<1> QED BY <1>1, TypeStep, PTL DEF Spec

(***************************************************************************)
(* The idle process stays                                                   *)
(***************************************************************************)
(* pc_schedule never finds slot 0 invalid (NeverPanics): no kill, by        *)
(* number, by system call or by exception, takes the idle process.          *)
THEOREM IdleStays == Spec => []NeverPanics
<1>1. Init => NeverPanics  BY DEF Init, NeverPanics
<1>2. TypeOK /\ NeverPanics /\ [Next]_vars => NeverPanics'
  <2> SUFFICES ASSUME TypeOK, NeverPanics, [Next]_vars
               PROVE  NeverPanics'
    OBVIOUS
  <2>1. CASE Tick  BY <2>1 DEF Tick, Schedule, NeverPanics
  <2>2. CASE KillSyscall  BY <2>2 DEF KillSyscall, Schedule, NeverPanics
  <2>3. CASE Fault  BY <2>3 DEF Fault, Schedule, NeverPanics
  <2>4. CASE Run \/ Spin \/ UNCHANGED vars  BY <2>4 DEF Run, Spin, vars, NeverPanics
  <2>5. CASE Proc \/ Peek \/ Time  BY <2>5 DEF Proc, Peek, Time, Begin, NeverPanics
  <2>6. CASE Create  BY <2>6 DEF Create, WriteEpc, WriteSp, Publish, NeverPanics
  <2>7. CASE \E n \in 0 .. 2 * NSlots - 1 : Kill(n)  BY <2>7 DEF Kill, NeverPanics
  <2> QED BY <2>1, <2>2, <2>3, <2>4, <2>5, <2>6, <2>7 DEF Next
<1> QED BY <1>1, <1>2, TypeCorrect, PTL DEF Spec

(* Whoever runs has a live slot, but for a shell that killed its own number *)
(* (RunsLive).                                                              *)
THEOREM OnlyShellRunsDead == Spec => []RunsLive
<1>1. Init => RunsLive  BY DEF Init, RunsLive
<1>2. TypeOK /\ NeverPanics /\ RunsLive /\ [Next]_vars => RunsLive'
  <2> SUFFICES ASSUME TypeOK, NeverPanics, RunsLive, [Next]_vars
               PROVE  RunsLive'
    OBVIOUS
  <2>0. ASSUME NEW L \in SUBSET Slots, Init0 \in L, Schedule(L)
        PROVE  RunsLive'
    BY <2>0, ScheduleEffect DEF RunsLive, TypeOK
  <2>1. CASE Tick  BY <2>0, <2>1 DEF Tick, TypeOK, NeverPanics
  <2>2. CASE KillSyscall  BY <2>0, <2>2 DEF KillSyscall, TypeOK, NeverPanics
  <2>3. CASE Fault  BY <2>0, <2>3 DEF Fault, TypeOK, NeverPanics, RunsLive
  <2>4. CASE Run \/ Spin \/ UNCHANGED vars  BY <2>4 DEF Run, Spin, vars, RunsLive
  <2>5. CASE Proc \/ Peek \/ Time  BY <2>5 DEF Proc, Peek, Time, Begin, RunsLive
  <2>6. CASE Create  BY <2>6 DEF Create, WriteEpc, WriteSp, Publish, RunsLive
  <2>7. CASE \E n \in 0 .. 2 * NSlots - 1 : Kill(n)  BY <2>7 DEF Kill, AtPrompt, RunsLive
  <2> QED BY <2>1, <2>2, <2>3, <2>4, <2>5, <2>6, <2>7 DEF Next
<1> QED BY <1>1, <1>2, TypeCorrect, IdleStays, PTL DEF Spec

(* The switch always finds a process to run, and runs no dead one but the   *)
(* shell (RunsOn).                                                          *)
THEOREM SomeoneRuns == Spec => []RunsOn
<1>1. NeverPanics /\ RunsLive => RunsOn  BY DEF RunsOn
<1> QED BY <1>1, IdleStays, OnlyShellRunsDead, PTL

(***************************************************************************)
(* Round robin                                                              *)
(***************************************************************************)
(* A live process has waited at most as many switches as the search of      *)
(* pc_schedule has moved towards it.                                        *)
Turn == \A s \in live : waits[s] + Dist(curr_proc, s) <= NSlots

(* A switch keeps Turn: a process that waits one more switch is at least    *)
(* one slot nearer.                                                         *)
LEMMA TurnOfSchedule ==
    ASSUME TypeOK, Turn, NEW L \in SUBSET live, Schedule(L)
    PROVE  Turn'
<1> SUFFICES ASSUME NEW s \in live'
             PROVE  waits'[s] + Dist(curr_proc', s) <= NSlots
  BY DEF Turn
<1>1. /\ curr_proc' = Landing(curr_proc, L) /\ live' = L /\ s \in Slots
      /\ curr_proc \in Slots /\ curr_proc' \in Slots /\ L \in SUBSET Slots
      /\ waits' = [q \in Slots |-> IF q = curr_proc' \/ q \notin L THEN 0 ELSE Longer(waits[q])]
      /\ waits[s] \in 0 .. NSlots
  BY ScheduleEffect DEF TypeOK
<1>2. Dist(curr_proc', s) \in 1 .. NSlots /\ Dist(curr_proc, s) \in 1 .. NSlots
  BY <1>1, DistFacts
<1>3. CASE s = curr_proc'
  BY <1>1, <1>2, <1>3, SlotAssumption
<1>4. CASE s # curr_proc'
  <2>1. Dist(curr_proc', s) < Dist(curr_proc, s)  BY <1>1, <1>4, LandingFacts
  <2>2. waits'[s] <= waits[s] + 1 /\ waits'[s] \in Int
    BY <1>1, <1>4, SlotAssumption DEF Longer
  <2>3. waits[s] + Dist(curr_proc, s) <= NSlots  BY <1>1 DEF Turn
  <2> QED BY <1>1, <1>2, <2>1, <2>2, <2>3, SlotAssumption
<1> QED BY <1>3, <1>4

(* A live process waits fewer switches than there are slots (BoundedWait),  *)
(* whatever is killed and created meanwhile.                                *)
THEOREM NobodyStarves == Spec => []BoundedWait
<1>1. Init => Turn
  <2> SUFFICES ASSUME Init, NEW s \in live PROVE waits[s] + Dist(curr_proc, s) <= NSlots
    BY DEF Turn
  <2>1. curr_proc \in Slots /\ s \in Slots /\ waits[s] = 0
    BY SlotAssumption DEF Init, Slots, Init0, Shell, Clock
  <2> QED BY <2>1, DistFacts, SlotAssumption
<1>2. TypeOK /\ Turn /\ [Next]_vars => Turn'
  <2> SUFFICES ASSUME TypeOK, Turn, [Next]_vars
               PROVE  Turn'
    OBVIOUS
  <2>0. ASSUME live' \subseteq live, UNCHANGED <<curr_proc, waits>>
        PROVE  Turn'
    BY <2>0 DEF Turn
  <2>1. CASE Tick  BY <2>1, TurnOfSchedule DEF Tick
  <2>2. CASE KillSyscall  BY <2>2, TurnOfSchedule DEF KillSyscall
  <2>3. CASE Fault  BY <2>0, <2>3, TurnOfSchedule DEF Fault
  <2>4. CASE Run \/ Spin \/ UNCHANGED vars  BY <2>0, <2>4 DEF Run, Spin, vars
  <2>5. CASE Proc \/ Peek \/ Time  BY <2>0, <2>5 DEF Proc, Peek, Time, Begin
  <2>6. CASE WriteEpc \/ WriteSp  BY <2>0, <2>6 DEF WriteEpc, WriteSp
  <2>7. CASE Publish
    <3> SUFFICES ASSUME NEW s \in live' PROVE waits'[s] + Dist(curr_proc', s) <= NSlots
      BY DEF Turn
    <3>1. curr_proc' = curr_proc /\ curr_proc \in Slots /\ job.slot \in Slots /\ s \in Slots
      BY <2>7 DEF Publish, TypeOK, Jobs
    <3>2. CASE s \in live
      <4>1. waits'[s] = waits[s]  BY <2>7, <3>2 DEF Publish, TypeOK
      <4> QED BY <3>1, <3>2, <4>1 DEF Turn
    <3>3. CASE s \notin live
      <4>1. waits'[s] = 0  BY <2>7, <3>1, <3>3 DEF Publish, TypeOK
      <4> QED BY <3>1, <4>1, DistFacts, SlotAssumption
    <3> QED BY <3>2, <3>3
  <2>8. CASE \E n \in 0 .. 2 * NSlots - 1 : Kill(n)  BY <2>0, <2>8 DEF Kill
  <2> QED BY <2>1, <2>2, <2>3, <2>4, <2>5, <2>6, <2>7, <2>8 DEF Next, Create
<1>3. TypeOK /\ Turn => BoundedWait
  <2> SUFFICES ASSUME TypeOK, Turn, NEW s \in live PROVE waits[s] < NSlots
    BY DEF BoundedWait
  <2>1. curr_proc \in Slots /\ s \in Slots /\ waits[s] \in 0 .. NSlots  BY DEF TypeOK
  <2>2. Dist(curr_proc, s) \in 1 .. NSlots  BY <2>1, DistFacts
  <2> QED BY <2>1, <2>2, SlotAssumption DEF Turn
<1> QED BY <1>1, <1>2, <1>3, TypeCorrect, PTL DEF Spec

(***************************************************************************)
(* Saving and restoring                                                     *)
(***************************************************************************)
(* A switch gives every process its registers back (SwitchKeepsRegisters).  *)
THEOREM RegistersKept == Spec => SwitchKeepsRegisters
<1> DEFINE Kept == \A s \in Slots : Registers(s)' # Registers(s) =>
                      \/ s = curr_proc /\ Run
                      \/ s = job.slot /\ Create
<1>1. TypeOK /\ NeverPanics /\ [Next]_vars => [Kept]_vars
  <2> SUFFICES ASSUME TypeOK, NeverPanics, Next, NEW s \in Slots,
                      Registers(s)' # Registers(s)
               PROVE  (s = curr_proc /\ Run) \/ (s = job.slot /\ Create)
    OBVIOUS
  <2>0. ASSUME NEW L \in SUBSET Slots, Schedule(L), L # {}
        PROVE  Registers(s)' = Registers(s)
    <3>1. curr_proc \in Slots /\ pcb \in [Slots -> Contexts]  BY DEF TypeOK
    <3>2. pcb' = [pcb EXCEPT ![curr_proc] = cpu] /\ cpu' = pcb'[curr_proc']
      BY <2>0, <3>1, ScheduleEffect
    <3> QED BY <3>1, <3>2 DEF Registers
  <2>1. CASE Tick  BY <2>0, <2>1 DEF Tick, TypeOK, NeverPanics
  <2>2. CASE KillSyscall  BY <2>0, <2>2 DEF KillSyscall, TypeOK, NeverPanics
  <2>3. CASE Fault  BY <2>0, <2>3 DEF Fault, TypeOK, NeverPanics, Registers
  <2>4. CASE Run  BY <2>4 DEF Run, Registers
  <2>5. CASE Spin  BY <2>5 DEF Spin, vars, Registers
  <2>6. CASE Proc \/ Peek \/ Time  BY <2>6 DEF Proc, Peek, Time, Begin, Registers
  <2>7. CASE WriteEpc \/ WriteSp
    <3>1. s = job.slot  BY <2>7 DEF WriteEpc, WriteSp, Registers, TypeOK
    <3> QED BY <2>7, <3>1 DEF Create
  <2>8. CASE Publish  BY <2>8 DEF Publish, Registers
  <2>9. CASE \E n \in 0 .. 2 * NSlots - 1 : Kill(n)  BY <2>9 DEF Kill, Registers
  <2> QED BY <2>1, <2>2, <2>3, <2>4, <2>5, <2>6, <2>7, <2>8, <2>9 DEF Next, Create
<1> QED BY <1>1, TypeCorrect, IdleStays, PTL DEF Spec, SwitchKeepsRegisters
(***************************************************************************)
(* Creation                                                                 *)
(***************************************************************************)
(* What holds between the assignments of pc_create.  The slot it writes is  *)
(* one that was free, which nobody else touches until ASID is written, or   *)
(* the shell's own after it killed itself, or the one of the clock.         *)
Creation ==
    job.at \notin {"prompt", "peek"} =>
        /\ job.slot \notin fresh
        /\ job.slot = Shell => Shell \notin live
        /\ ~job.clean => job.slot \in {Shell, Clock}
        /\ job.clean => /\ job.slot \notin live /\ job.slot # Shell
                        /\ job.at # "epc" => pcb[job.slot].epc = created
                        /\ job.at = "asid" => pcb[job.slot].sp = created

(* Nobody but the clock runs, or will run, with mixed registers.            *)
Unmixed == \A s \in (live \cup {curr_proc}) \ {Clock} : ~Mixed(Registers(s))

(* The inductive invariant behind FreshIsWhole and OnlyClockMixes.          *)
Whole == Creation /\ Unmixed /\ FreshIsWhole /\ created > Blank

(* A switch leaves the registers of every process as they were, so it keeps *)
(* Whole: the slot being created is not the running one, unless the shell   *)
(* makes itself anew.                                                       *)
LEMMA ScheduleWhole ==
    ASSUME TypeOK, RunsLive, Whole, NEW L \in SUBSET live, L # {}, Schedule(L),
           L = live \/ L = live \ {curr_proc}, UNCHANGED <<job, created>>
    PROVE  Whole'
<1>1. /\ L \in SUBSET Slots /\ curr_proc \in Slots /\ pcb \in [Slots -> Contexts]
      /\ live \subseteq Slots /\ fresh \subseteq Slots
  BY DEF TypeOK
<1>2. /\ curr_proc' \in L /\ live' = L
      /\ pcb' = [pcb EXCEPT ![curr_proc] = cpu] /\ cpu' = pcb'[curr_proc']
      /\ fresh' = fresh \ {curr_proc', curr_proc}
  BY <1>1, ScheduleEffect
<1>3. \A s \in Slots : Registers(s)' = Registers(s)
  BY <1>1, <1>2 DEF Registers
<1>4. Creation'
  <2> SUFFICES ASSUME job.at \notin {"prompt", "peek"}
               PROVE  /\ job.slot \notin fresh'
                      /\ job.slot = Shell => Shell \notin live'
                      /\ ~job.clean => job.slot \in {Shell, Clock}
                      /\ job.clean => /\ job.slot \notin live' /\ job.slot # Shell
                                      /\ pcb'[job.slot] = pcb[job.slot]
    BY DEF Whole, Creation
  <2>1. job.slot \in Slots  BY DEF TypeOK, Jobs
  <2>2. job.clean => job.slot # curr_proc  BY DEF Whole, Creation, RunsLive
  <2> QED BY <1>1, <1>2, <2>1, <2>2 DEF Whole, Creation
<1>5. Unmixed'
  <2> SUFFICES ASSUME NEW s \in (live' \cup {curr_proc'}) \ {Clock}
               PROVE  ~Mixed(Registers(s)')
    BY DEF Unmixed, Mixed
  <2> QED BY <1>1, <1>2, <1>3 DEF Whole, Unmixed
<1>6. FreshIsWhole'
  BY <1>1, <1>2 DEF Whole, FreshIsWhole
<1> QED BY <1>4, <1>5, <1>6 DEF Whole

(* The assignments of pc_create keep Whole: those before the last write a   *)
(* slot that is not live, or the clock's.                                   *)
LEMMA WriteWhole ==
    ASSUME TypeOK, RunsLive, Whole, Create
    PROVE  Whole'
<1>1. /\ job.slot \in Slots /\ curr_proc = Shell /\ job.at \notin {"prompt", "peek"}
      /\ pcb \in [Slots -> Contexts] /\ curr_proc' = curr_proc /\ cpu' = cpu
      /\ created' = created /\ job \in Jobs /\ live \subseteq Slots
  BY DEF TypeOK, Jobs, Create, WriteEpc, WriteSp, Publish, Creating
<1>2. Shell # Clock  BY DEF Shell, Clock
<1>3. CASE WriteEpc \/ WriteSp
  <2>1. /\ UNCHANGED <<live, fresh>>
        /\ \A s \in Slots \ {job.slot} : pcb'[s] = pcb[s]
    BY <1>1, <1>3 DEF WriteEpc, WriteSp
  <2>2. Unmixed'
    <3> SUFFICES ASSUME NEW s \in (live \cup {curr_proc}) \ {Clock}
                 PROVE  ~Mixed(Registers(s)')
      BY <1>1, <2>1 DEF Unmixed, Mixed
    <3>1. s # job.slot \/ s = curr_proc
      BY <1>1 DEF Whole, Creation
    <3>2. Registers(s)' = Registers(s)
      BY <1>1, <2>1, <3>1 DEF Registers
    <3> QED BY <3>2 DEF Whole, Unmixed
  <2>3. FreshIsWhole'
    BY <1>1, <2>1 DEF Whole, FreshIsWhole, Creation
  <2>4. Creation'
    <3>1. CASE WriteEpc
      <4>1. pcb'[job.slot].epc = created
        BY <1>1, <3>1 DEF WriteEpc, Contexts
      <4>2. job'.slot = job.slot /\ job'.clean = job.clean /\ job'.at = "sp"
        BY <1>1, <3>1 DEF WriteEpc, Jobs
      <4> QED BY <1>1, <2>1, <4>1, <4>2 DEF Whole, Creation
    <3>2. CASE WriteSp
      <4>1. pcb'[job.slot].sp = created /\ pcb'[job.slot].epc = pcb[job.slot].epc
        BY <1>1, <3>2 DEF WriteSp, Contexts
      <4>2. job'.slot = job.slot /\ job'.clean = job.clean /\ job.at = "sp"
        BY <1>1, <3>2 DEF WriteSp, Jobs, Creating
      <4> QED BY <1>1, <2>1, <4>1, <4>2 DEF Whole, Creation
    <3> QED BY <1>3, <3>1, <3>2
  <2> QED BY <1>1, <2>2, <2>3, <2>4 DEF Whole
<1>4. CASE Publish
  <2>1. /\ live' = live \cup {job.slot} /\ pcb' = pcb /\ job' = Idle /\ job.at = "asid"
        /\ fresh' = IF job.clean THEN fresh \cup {job.slot} ELSE fresh
    BY <1>4 DEF Publish, Creating
  <2>2. Creation'  BY <2>1 DEF Creation, Idle
  <2>3. job.clean => /\ job.slot # curr_proc
                     /\ pcb[job.slot].epc = created /\ pcb[job.slot].sp = created
    BY <1>1, <2>1 DEF Whole, Creation
  <2>4. FreshIsWhole'
    <3>1. created # Blank  BY DEF Whole, TypeOK, Creations, Blank
    <3> QED BY <1>1, <2>1, <2>3, <3>1 DEF Whole, FreshIsWhole
  <2>5. Unmixed'
    <3> SUFFICES ASSUME NEW s \in (live \cup {job.slot, curr_proc}) \ {Clock}
                 PROVE  ~Mixed(Registers(s))
      BY <1>1, <2>1 DEF Unmixed, Mixed, Registers
    <3>1. CASE s \in live \cup {curr_proc}  BY <3>1 DEF Whole, Unmixed
    <3>2. CASE s = job.slot /\ s # curr_proc
      <4>1. job.clean  BY <1>1, <3>2 DEF Whole, Creation
      <4> QED BY <2>3, <3>2, <4>1 DEF Registers, Mixed
    <3> QED BY <3>1, <3>2
  <2> QED BY <1>1, <2>2, <2>4, <2>5 DEF Whole
<1> QED BY <1>3, <1>4 DEF Create

(* Every step keeps Whole.                                                  *)
LEMMA WholeStep ==
    ASSUME TypeOK, NeverPanics, RunsLive, Whole, [Next]_vars
    PROVE  Whole'
<1>1. CASE Tick  BY <1>1, ScheduleWhole DEF Tick, NeverPanics
<1>2. CASE KillSyscall
  <2>1. live \ {curr_proc} # {}  BY <1>2 DEF KillSyscall, NeverPanics
  <2> QED BY <1>2, <2>1, ScheduleWhole DEF KillSyscall
<1>3. CASE Fault /\ curr_proc # Init0
  <2>1. live \ {curr_proc} # {}  BY <1>3 DEF NeverPanics
  <2> QED BY <1>3, <2>1, ScheduleWhole DEF Fault
<1>4. CASE Run
  <2>1. /\ cpu'.epc = cpu.epc /\ cpu'.sp = cpu.sp
        /\ UNCHANGED <<live, pcb, curr_proc, job, created, fresh>>
    BY <1>4 DEF Run, TypeOK, Contexts
  <2>2. Unmixed'
    <3> SUFFICES ASSUME NEW s \in (live \cup {curr_proc}) \ {Clock}
                 PROVE  ~Mixed(Registers(s)')
      BY <2>1 DEF Unmixed, Mixed
    <3> QED BY <2>1 DEF Whole, Unmixed, Mixed, Registers
  <2> QED BY <2>1, <2>2 DEF Whole, Creation, FreshIsWhole
<1>5. CASE UNCHANGED <<live, pcb, cpu, curr_proc, job, created, fresh>>
  BY <1>5 DEF Whole, Creation, Unmixed, FreshIsWhole, Registers, Mixed
<1>6. ASSUME NEW s \in Slots, Begin(s), curr_proc = Shell, s \notin live \/ s = Clock,
             created' \in {created, created + 1}
      PROVE  Whole'
  <2>1. /\ job' = [at |-> "epc", slot |-> s, clean |-> s \notin live \cup {curr_proc}]
        /\ fresh' = fresh \ {s} /\ UNCHANGED <<live, pcb, cpu, curr_proc>>
    BY <1>6 DEF Begin
  <2>2. Creation'
    <3>1. job'.at = "epc" /\ job'.slot = s /\ (job'.clean <=> s \notin live \cup {Shell})
      BY <1>6, <2>1
    <3>2. s = Shell => s # Clock  BY DEF Shell, Clock
    <3> QED BY <1>6, <2>1, <3>1, <3>2 DEF Creation
  <2>3. Unmixed' /\ FreshIsWhole'
    BY <2>1 DEF Whole, Unmixed, Mixed, Registers, FreshIsWhole
  <2>4. created' > Blank  BY <1>6 DEF Whole, TypeOK, Creations, Blank
  <2> QED BY <2>2, <2>3, <2>4 DEF Whole
<1>7. CASE Proc \/ (Peek /\ job.slot \in live)
  <2>1. /\ job'.at \in {"prompt", "peek"} /\ created' \in {created, created + 1}
        /\ UNCHANGED <<live, pcb, cpu, curr_proc, fresh>>
    BY <1>7 DEF Proc, Asked, Peek, Creating, Idle, TypeOK, Jobs
  <2>2. created' > Blank  BY <2>1 DEF Whole, TypeOK, Creations, Blank
  <2> QED BY <2>1, <2>2 DEF Whole, Creation, Unmixed, Mixed, Registers, FreshIsWhole
<1>8. CASE Time \/ (Peek /\ job.slot \notin live)
  <2>1. Clock \in Slots /\ job.slot \in Slots
    BY SlotAssumption DEF Clock, Slots, TypeOK, Jobs
  <2>2. CASE Time  BY <1>6, <2>1, <2>2 DEF Time, Asked, AtPrompt
  <2>3. CASE Peek /\ job.slot \notin live  BY <1>6, <2>1, <2>3 DEF Peek, Creating
  <2> QED BY <1>8, <2>2, <2>3
<1>9. CASE \E n \in 0 .. 2 * NSlots - 1 : Kill(n)
  <2>1. PICK s \in live : live' = live \ {s} /\ fresh' = fresh \ {s}
    BY <1>9 DEF Kill
  <2>2. job.at = "prompt" /\ UNCHANGED <<pcb, cpu, curr_proc, job, created>>
    BY <1>9 DEF Kill, AtPrompt, Idle
  <2>3. Creation'  BY <2>2 DEF Creation
  <2>4. Unmixed' /\ FreshIsWhole'
    BY <2>1, <2>2 DEF Whole, Unmixed, Mixed, Registers, FreshIsWhole
  <2> QED BY <2>2, <2>3, <2>4 DEF Whole
<1> QED
  BY <1>1, <1>2, <1>3, <1>4, <1>5, <1>7, <1>8, <1>9, WriteWhole DEF Next, Fault, Spin, vars

(* Whole holds when interrupts are first enabled.                           *)
LEMMA WholeInit == Init => Whole
<1> SUFFICES ASSUME Init PROVE Whole  OBVIOUS
<1>1. /\ live = {0, 1, 2} /\ curr_proc = 0 /\ fresh = {1, 2}
      /\ job.at = "prompt" /\ created = 3
  BY DEF Init, Idle, Init0, Shell, Clock
<1>2. /\ cpu = Context(1) /\ {1, 2} \subseteq Slots
      /\ pcb[1] = Context(2) /\ pcb[2] = Context(3)
  BY SlotAssumption DEF Init, Slots, Shell, Clock
<1>3. \A n : Context(n).epc = n /\ Context(n).sp = n  BY DEF Context
<1> HIDE DEF Context
<1>4. Unmixed  BY <1>1, <1>2, <1>3 DEF Unmixed, Mixed, Registers, Clock
<1>5. FreshIsWhole  BY <1>1, <1>2, <1>3 DEF FreshIsWhole, Blank
<1> QED BY <1>1, <1>4, <1>5 DEF Whole, Creation, Blank

(* A process created in a free slot first runs with the program counter and *)
(* the stack of its own creation (FreshIsWhole), wherever the timer cuts    *)
(* pc_create.                                                               *)
THEOREM CreationIsWhole == Spec => []FreshIsWhole
<1>1. Init => Whole  BY WholeInit
<1>2. TypeOK /\ NeverPanics /\ RunsLive /\ Whole /\ [Next]_vars => Whole'
  BY WholeStep
<1>3. Whole => FreshIsWhole  BY DEF Whole
<1> QED BY <1>1, <1>2, <1>3, TypeCorrect, IdleStays, OnlyShellRunsDead, PTL DEF Spec

(* Only the slot that the time command overwrites can run with the          *)
(* registers of two creations (OnlyClockMixes).                             *)
THEOREM NoMixture == Spec => []OnlyClockMixes
<1>1. Init => Whole  BY WholeInit
<1>2. TypeOK /\ NeverPanics /\ RunsLive /\ Whole /\ [Next]_vars => Whole'
  BY WholeStep
<1>3. Whole => OnlyClockMixes  BY DEF Whole, Unmixed, OnlyClockMixes
<1> QED BY <1>1, <1>2, <1>3, TypeCorrect, IdleStays, OnlyShellRunsDead, PTL DEF Spec
=============================================================================
