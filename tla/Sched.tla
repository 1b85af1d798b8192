-------------------------------- MODULE Sched --------------------------------
(***************************************************************************)
(* The process table of kernel/pc/pc.c, its round-robin switch on the timer *)
(* interrupt, and the ways the shell (usr/ps.c) and running processes       *)
(* change it.  The kernel is preemptible: pc_peek and pc_create run in the  *)
(* shell with interrupts on, so the timer may fire between any two slots of *)
(* the search and any two assignments, while pc_schedule itself runs with   *)
(* interrupts off and is one step.                                          *)
(*                                                                         *)
(* A register holds the number of the creation its value comes from: the   *)
(* program counter and the stack pointer that pc_create writes stay with    *)
(* the process; rest stands for the registers it does not write.           *)
(***************************************************************************)
EXTENDS Integers

CONSTANTS
    NSlots,     \* length of pcb[]
    MaxCreates  \* bound on the creations asked of the shell

ASSUME SlotAssumption == NSlots \in Nat /\ NSlots >= 3 /\ MaxCreates \in Nat

Slots == 0 .. NSlots - 1
Init0 == 0      \* the idle loop at the end of init_kernel
Shell == 1      \* ps
Clock == 2      \* system_time_proc

Blank == 0      \* what .bss holds
\* Creation numbers: 1, 2, 3 are the processes started at boot.
Creations == 0 .. 3 + MaxCreates
Contexts  == [epc : Creations, sp : Creations, rest : {0, 1}]

VARIABLES
    live,       \* slots whose ASID is not negative
    pcb,        \* slot -> pcb[slot].context
    cpu,        \* registers of the running process
    curr_proc,
    job,        \* what the shell is doing: see Jobs
    created,    \* number of the last creation asked for
    halted,     \* "no", or which while (1) the machine is in
    fresh,      \* ghost: slots published from a free slot and not run since
    waits       \* ghost: slot -> switches since it ran or was published, up
                \* to NSlots

vars == <<live, pcb, cpu, curr_proc, job, created, halted, fresh, waits>>

\* The shell is between commands, about to look at a slot in pc_peek, or about to do
\* one of the assignments of pc_create to a slot; clean tells whether that slot was
\* free and not its own.
Idle == [at |-> "prompt", slot |-> 0, clean |-> FALSE]
Jobs == [at : {"prompt", "peek", "epc", "sp", "asid"}, slot : Slots, clean : BOOLEAN]

\* The registers a process will have when it next runs.
Registers(s) == IF s = curr_proc THEN cpu ELSE pcb[s]

(***************************************************************************)
(* pc_schedule                                                              *)
(***************************************************************************)
\* Mutants of IsNext: ASID not looked at; the search starts over from slot 0.
IsNextSlot(c, L, d)  == d = 1
IsLowest(c, L, d) ==
    /\ (c + d) % NSlots \in L
    /\ \A s \in L : (c + d) % NSlots <= s

\* How far the search of pc_schedule goes: past the slots that are not live.
IsNext(c, L, d) ==
    /\ (c + d) % NSlots \in L
    /\ \A e \in 1 .. NSlots : (c + e) % NSlots \in L => d <= e
Hops(c, L) == CHOOSE d \in 1 .. NSlots : IsNext(c, L, d)

\* copy_context to the slot of the running process; its mutant misses a register.
SavedButSp == [pcb EXCEPT ![curr_proc].epc = cpu.epc, ![curr_proc].rest = cpu.rest]
Saved      == [pcb EXCEPT ![curr_proc] = cpu]

Longer(n) == IF n < NSlots THEN n + 1 ELSE n

\* Save the running process, take the next live slot of L, load it.  When
\* there is none curr_proc has come round to itself and the kernel panics.
Schedule(L) ==
    LET next == IF L = {} THEN curr_proc ELSE (curr_proc + Hops(curr_proc, L)) % NSlots
    IN  /\ pcb' = Saved
        /\ curr_proc' = next
        /\ cpu' = IF L = {} THEN cpu ELSE Saved[next]
        /\ live' = L
        /\ fresh' = fresh \ {next, curr_proc}
        /\ waits' = [s \in Slots |-> IF s = next \/ s \notin L THEN 0 ELSE Longer(waits[s])]

Running == halted = "no"

\* The timer interrupt.
Tick ==
    /\ Running
    /\ Schedule(live)
    /\ halted' = IF live = {} THEN "panic" ELSE "no"
    /\ UNCHANGED <<job, created>>

(***************************************************************************)
(* Running processes                                                        *)
(***************************************************************************)
Run ==
    /\ Running
    /\ cpu' = [cpu EXCEPT !.rest = 1 - @]
    /\ UNCHANGED <<live, pcb, curr_proc, job, created, halted, fresh, waits>>

\* Not inside a command: the shell makes no system call of its own, only a
\* program it runs with exec does.
AtRest == curr_proc = Shell => job = Idle

\* pc_kill_syscall ignores the idle process.
KillSyscall ==
    /\ Running /\ AtRest
    /\ curr_proc # Init0
    /\ Schedule(live \ {curr_proc})
    /\ halted' = IF live = {curr_proc} THEN "panic" ELSE "no"
    /\ UNCHANGED <<job, created>>

\* An exception nobody registered: the process is killed, then the handler
\* spins with interrupts off.
Fault ==
    /\ Running /\ AtRest
    /\ IF curr_proc # Init0
       THEN Schedule(live \ {curr_proc})
       ELSE UNCHANGED <<live, pcb, cpu, curr_proc, fresh, waits>>
    /\ halted' = "fault"
    /\ UNCHANGED <<job, created>>

\* while (1) ;
Spin == ~Running /\ UNCHANGED vars

(***************************************************************************)
(* Commands of the shell                                                    *)
(***************************************************************************)
AtPrompt == Running /\ curr_proc = Shell /\ job = Idle

Asked == AtPrompt /\ created < 3 + MaxCreates /\ created' = created + 1

Begin(s) ==
    /\ job' = [at |-> "epc", slot |-> s, clean |-> s \notin live \cup {curr_proc}]
    /\ fresh' = fresh \ {s}
    /\ UNCHANGED <<live, pcb, cpu, curr_proc, halted, waits>>

\* "proc": the first slot that pc_peek finds not live, if any.
Proc ==
    /\ Asked /\ job' = [at |-> "peek", slot |-> 0, clean |-> FALSE]
    /\ UNCHANGED <<live, pcb, cpu, curr_proc, halted, fresh, waits>>

\* "time": always slot 2, whoever has it.
Time == Asked /\ Begin(Clock)

Creating(step) == Running /\ curr_proc = Shell /\ job.at = step

Peek ==
    /\ Creating("peek") /\ UNCHANGED created
    /\ \/ job.slot \notin live /\ Begin(job.slot)
       \/ /\ job.slot \in live
          /\ job' = IF job.slot + 1 < NSlots THEN [job EXCEPT !.slot = @ + 1] ELSE Idle
          /\ UNCHANGED <<live, pcb, cpu, curr_proc, halted, fresh, waits>>

\* The assignments of pc_create, in order.

\* Mutants of WriteEpc: ASID written first; the stack pointer forgotten.
WriteAsidToo ==
    /\ Creating("epc")
    /\ pcb' = [pcb EXCEPT ![job.slot].epc = created]
    /\ job' = [job EXCEPT !.at = "sp"]
    /\ live' = live \cup {job.slot}
    /\ UNCHANGED <<cpu, curr_proc, created, halted, fresh, waits>>
WriteEpcOnly ==
    /\ Creating("epc")
    /\ pcb' = [pcb EXCEPT ![job.slot].epc = created]
    /\ job' = [job EXCEPT !.at = "asid"]
    /\ UNCHANGED <<live, cpu, curr_proc, created, halted, fresh, waits>>

WriteEpc ==
    /\ Creating("epc")
    /\ pcb' = [pcb EXCEPT ![job.slot].epc = created]
    /\ job' = [job EXCEPT !.at = "sp"]
    /\ UNCHANGED <<live, cpu, curr_proc, created, halted, fresh, waits>>

WriteSp ==
    /\ Creating("sp")
    /\ pcb' = [pcb EXCEPT ![job.slot].sp = created]
    /\ job' = [job EXCEPT !.at = "asid"]
    /\ UNCHANGED <<live, cpu, curr_proc, created, halted, fresh, waits>>

Publish ==
    /\ Creating("asid")
    /\ live' = live \cup {job.slot}
    /\ waits' = IF job.slot \in live THEN waits ELSE [waits EXCEPT ![job.slot] = 0]
    /\ fresh' = IF job.clean THEN fresh \cup {job.slot} ELSE fresh
    /\ job' = Idle
    /\ UNCHANGED <<pcb, cpu, curr_proc, created, halted>>

Kill(n) ==
    /\ AtPrompt
    /\ LET s == n % NSlots IN
        /\ s # Init0 /\ s \in live
        /\ live' = live \ {s}
        /\ fresh' = fresh \ {s}
    /\ UNCHANGED <<pcb, cpu, curr_proc, job, created, halted, waits>>

(***************************************************************************)
(* Specification                                                            *)
(***************************************************************************)
Context(n) == [epc |-> n, sp |-> n, rest |-> 0]

\* After init_pc and create_startup_process, when interrupts are enabled.
Init ==
    /\ live = {Init0, Shell, Clock}
    /\ pcb = [s \in Slots |-> CASE s = Shell -> Context(2)
                                [] s = Clock -> Context(3)
                                [] OTHER     -> Context(Blank)]
    /\ cpu = Context(1)
    /\ curr_proc = Init0
    /\ job = Idle /\ created = 3 /\ halted = "no"
    /\ fresh = {Shell, Clock}
    /\ waits = [s \in Slots |-> 0]

Create == WriteEpc \/ WriteSp \/ Publish

Next == \/ Tick \/ Run \/ KillSyscall \/ Fault \/ Spin
        \/ Proc \/ Peek \/ Time \/ Create
        \/ \E n \in 0 .. 2 * NSlots - 1 : Kill(n)

\* The timer goes on firing.
Spec == Init /\ [][Next]_vars /\ WF_vars(Tick)

(***************************************************************************)
(* Properties                                                               *)
(***************************************************************************)
TypeOK ==
    /\ live \subseteq Slots
    /\ pcb \in [Slots -> Contexts]
    /\ cpu \in Contexts
    /\ curr_proc \in Slots
    /\ job \in Jobs
    /\ created \in Creations
    /\ halted \in {"no", "panic", "fault"}
    /\ fresh \subseteq Slots
    /\ waits \in [Slots -> 0 .. NSlots]

\* "PCB[0] is invalid!" is never printed: whatever is killed, by number, by
\* system call or by an exception, the idle process stays.
NeverPanics == Init0 \in live /\ halted # "panic"

\* A process may run on in a slot that is not live only if it is the shell,
\* which is the only one that can kill itself and go on.
RunsLive == curr_proc \in live \/ curr_proc = Shell

\* The switch always finds a process to run, and runs no dead one but the shell.
RunsOn == NeverPanics /\ RunsLive

\* Round robin starves nobody: a live process waits fewer switches than
\* there are slots, whatever is killed and created meanwhile.
BoundedWait == \A s \in live : waits[s] < NSlots

\* A switch gives every process back the registers it was interrupted with:
\* only the process itself and a pc_create of its slot change them.
SwitchKeepsRegisters ==
    [][\A s \in Slots : Registers(s)' # Registers(s) =>
          \/ s = curr_proc /\ Run
          \/ s = job.slot /\ Create]_vars

\* A process created in a free slot first runs with the program counter and
\* the stack it was given: ASID is written last, so a switch between two
\* assignments of pc_create finds the slot not live.
FreshIsWhole ==
    \A s \in fresh : s \in live /\ s # curr_proc /\ pcb[s].epc = pcb[s].sp /\ pcb[s].epc # Blank

\* Two creations never mix in a process, unless it has the slot that the
\* time command writes without asking whether it is free.
Mixed(c) == c.epc # c.sp
OnlyClockMixes == \A s \in live \ {Clock} : ~Mixed(Registers(s))

\* A live process runs again, unless it is killed or the machine has stopped.
EveryoneRuns ==
    \A s \in Slots : []<>(s = curr_proc \/ s \notin live \/ ~Running)
=============================================================================
