-------------------------------- MODULE Sched -------------------------------
(***************************************************************************)
(* The process table and the scheduler: src/myos/process.c, the timer      *)
(* handler of src/myos/interrupts.c and context_switch_asm.                *)
(*                                                                         *)
(* One CPU runs on the stack of a process or of the shell, which is the    *)
(* "idle" context and no process (current_process is -1).  Kernel code     *)
(* runs with interrupts on, timer_handler with interrupts off: a call of   *)
(* schedule by a process or by the shell takes four steps (choose, change  *)
(* the states, set current_process, switch stacks), and the shell's        *)
(* creation of a process two, and a tick may come between any two steps;   *)
(* within a tick all this is one step.                                     *)
(*                                                                         *)
(* Some ticks do harm: cut says that one came where the code cannot stand  *)
(* it (TickHarms, StaleChoice), after which the CPU may be on any stack    *)
(* and nothing is claimed.  The properties say that those are the only     *)
(* places.                                                                 *)
(***************************************************************************)
EXTENDS Integers, FiniteSets

CONSTANT
  NProcs    \* MAX_PROCESSES (64)

ASSUME SchedAssumption == NProcs \in Nat \ {0}

Pid == 0 .. NProcs - 1
None == -1
Shell == -1
Context == Pid \cup {Shell}

VARIABLES
  st,       \* process_table[].state
  kind,     \* what it runs: "none" yet, "demo" in kernel mode, "user" in user mode
  built,    \* has it a kernel stack with a frame to switch to, page directory and mode?
  cur,      \* current_process
  cpu,      \* the context whose stack the CPU is on
  at,       \* how far each context is in schedule or process_create
  idle,     \* the context whose frame kernel_idle_esp points to
  respawn,  \* demo_autorespawn
  cut       \* history: has a tick done harm?

vars == <<st, kind, built, cur, cpu, at, idle, respawn, cut>>

Running == [step |-> "run", p |-> None]

Init ==
  /\ st = [p \in Pid |-> "unused"]
  /\ kind = [p \in Pid |-> "none"]
  /\ built = [p \in Pid |-> FALSE]
  /\ cur = None /\ cpu = Shell
  /\ at = [x \in Context |-> Running]
  /\ idle = Shell /\ respawn = FALSE /\ cut = FALSE

IsLowest(x, S) == x \in S /\ \A y \in S : x <= y

Alive(p) == st[p] \in {"ready", "running"}

\* process_create takes any slot that is not alive, reaped or not.
FreeSlots == {p \in Pid : ~Alive(p)}

\* schedule looks at the slots after the current one, the shell at those
\* after slot 0, in this order.
Distance(p) == (p - (IF cur = None THEN 0 ELSE cur) - 1) % NProcs

\* The lowest number first (for the mutants).
NextReadyLowest(s) ==
  LET ready == {p \in Pid : s[p] = "ready"}
  IN  IF ready = {} THEN None ELSE CHOOSE p \in ready : \A q \in ready : p <= q

\* The process schedule chooses, given the states.
NextReady(s) ==
  LET ready == {p \in Pid : s[p] = "ready"}
  IN  IF ready = {} THEN None
      ELSE CHOOSE p \in ready : \A q \in ready : Distance(p) <= Distance(q)

\* context_switch's bookkeeping: the process left is READY again, unless it
\* exited, and the chosen one RUNNING.
SwitchedTo(s, n) ==
  [p \in Pid |-> IF p = n THEN "running"
                 ELSE IF p = cur /\ s[p] = "running" THEN "ready" ELSE s[p]]

-----------------------------------------------------------------------------
\* schedule, called by the context on the CPU: the choice, from the states s.
Choose(s) ==
  at' = IF NextReady(s) = None /\ cur = None THEN at
        ELSE [at EXCEPT ![cpu] = [step |-> "chosen", p |-> NextReady(s)]]

\* The shell was switched away from after its choice, and the process chosen
\* has ended since: context_switch makes it RUNNING all the same.
StaleChoice == cpu = Shell /\ ~Alive(at[cpu].p)

\* The states change.  With nothing READY the current process is left as it
\* is: still RUNNING, if it did not exit.
Mark ==
  /\ at[cpu].step = "chosen"
  /\ st' = IF at[cpu].p = None THEN st ELSE SwitchedTo(st, at[cpu].p)
  /\ at' = [at EXCEPT ![cpu].step = "marked"]
  /\ cut' = (cut \/ StaleChoice)
  /\ UNCHANGED <<kind, built, cur, cpu, idle, respawn>>

\* current_process changes.
\* Mutant: it is not cleared on the way to the shell.
CommitKeepsCurrent ==
  /\ at[cpu].step = "marked"
  /\ cur' = IF at[cpu].p = None THEN cur ELSE at[cpu].p
  /\ at' = [at EXCEPT ![cpu].step = "switch"]
  /\ UNCHANGED <<st, kind, built, cpu, idle, respawn, cut>>

Commit ==
  /\ at[cpu].step = "marked"
  /\ cur' = at[cpu].p
  /\ at' = [at EXCEPT ![cpu].step = "switch"]
  /\ UNCHANGED <<st, kind, built, cpu, idle, respawn, cut>>

\* context_switch_asm saves this context's frame and loads the other's.  A
\* process to be resumed later continues after its call of schedule.
Switch ==
  /\ at[cpu].step = "switch"
  /\ cpu' = IF at[cpu].p = None THEN idle ELSE at[cpu].p
  /\ idle' = IF cpu = Shell THEN Shell ELSE idle
  /\ at' = [at EXCEPT ![cpu] = Running]
  /\ UNCHANGED <<st, kind, built, cur, respawn, cut>>

-----------------------------------------------------------------------------
\* What the code on the CPU may do next: the shell, or a process that has not
\* exited.
Executes(x) == cpu = x /\ at[x] = Running /\ (x \in Pid => st[x] = "running")

\* process_yield, by the demo processes and by the shell while it waits.
Yield(x) ==
  /\ Executes(x)
  /\ x \in Pid => kind[x] = "demo"
  /\ Choose(st)
  /\ UNCHANGED <<st, kind, built, cur, cpu, idle, respawn, cut>>

\* process_exit.
Exit(p) ==
  /\ Executes(p)
  /\ st' = [st EXCEPT ![p] = "exited"]
  /\ Choose(st')
  /\ UNCHANGED <<kind, built, cur, cpu, idle, respawn, cut>>

\* linux_do_fork: no other context enters the kernel before it returns, so it
\* is one step.  It may run out of memory in process_create, or after it.
Fork(p, c, result) ==
  /\ Executes(p) /\ kind[p] = "user"
  /\ IsLowest(c, FreeSlots)
  /\ st' = [st EXCEPT ![c] = result]
  /\ built' = [built EXCEPT ![c] = (result = "ready")]
  /\ kind' = [kind EXCEPT ![c] = IF result = "unused" THEN "none" ELSE "user"]
  /\ UNCHANGED <<cur, cpu, at, idle, respawn, cut>>

\* process_create by the shell: it finds a slot that is free ...
ShellFind(p) ==
  /\ Executes(Shell)
  /\ IsLowest(p, FreeSlots)
  /\ at' = [at EXCEPT ![Shell] = [step |-> "found", p |-> p]]
  /\ UNCHANGED <<st, kind, built, cur, cpu, idle, respawn, cut>>

\* ... makes it READY, and another process that got it meanwhile is lost ...
ShellTake ==
  /\ cpu = Shell /\ at[Shell].step = "found"
  /\ LET p == at[Shell].p
     IN  /\ st' = [st EXCEPT ![p] = "ready"]
         /\ kind' = [kind EXCEPT ![p] = "none"]
         /\ built' = [built EXCEPT ![p] = FALSE]
  /\ at' = [at EXCEPT ![Shell].step = "create"]
  /\ UNCHANGED <<cur, cpu, idle, respawn, cut>>

\* ... and gets its stack, its page directory and its mode, or is undone,
\* later: out of memory in process_create, or in the spawn function after it.
ShellBuild(k, result) ==
  /\ cpu = Shell /\ at[Shell].step = "create"
  /\ result = "exited" => k = "user"
  /\ LET p == at[Shell].p
     IN  /\ st' = IF result = "ready" THEN st ELSE [st EXCEPT ![p] = result]
         /\ built' = [built EXCEPT ![p] = (result = "ready")]
         /\ kind' = [kind EXCEPT ![p] = IF result = "ready" THEN k ELSE "none"]
  /\ at' = [at EXCEPT ![Shell] = Running]
  /\ UNCHANGED <<cur, cpu, idle, respawn, cut>>

\* process_kill by the shell; a process that has exited is left alone.
\* Mutant: the resources go, the state stays.
KillKeepsState(p) ==
  /\ Executes(Shell) /\ Alive(p)
  /\ at' = [at EXCEPT ![Shell] = [step |-> "kill", p |-> p]]
  /\ UNCHANGED <<st, kind, built, cur, cpu, idle, respawn, cut>>

Kill(p) ==
  /\ Executes(Shell) /\ Alive(p)
  /\ st' = [st EXCEPT ![p] = "exited"]
  /\ at' = [at EXCEPT ![Shell] = [step |-> "kill", p |-> p]]
  /\ UNCHANGED <<kind, built, cur, cpu, idle, respawn, cut>>

\* process_release_resources.
ShellFree ==
  /\ cpu = Shell /\ at[Shell].step = "kill"
  /\ built' = [built EXCEPT ![at[Shell].p] = FALSE]
  /\ at' = [at EXCEPT ![Shell] = Running]
  /\ UNCHANGED <<st, kind, cur, cpu, idle, respawn, cut>>

\* "spawn demo auto on" and "off".
SetAutorespawn ==
  /\ Executes(Shell)
  /\ respawn' = ~respawn
  /\ UNCHANGED <<st, kind, built, cur, cpu, at, idle, cut>>

-----------------------------------------------------------------------------
\* timer_handler.  It reaps, spawns a demo process if one is due (ok: there is
\* memory for it), and then switches if it interrupted the shell or user mode.
Reaped == {p \in Pid \ {cur} : st[p] = "exited" /\ built[p]}

DemoDue == respawn /\ ~\E p \in Pid : kind[p] = "demo" /\ Alive(p)

\* Where a tick does harm.  In the middle of the shell's process_create it
\* switches to a process without a stack, or lets it be switched to; in the
\* middle of its process_kill it frees what is being freed.  In an exit it gives
\* the slot, which is free at once, to a demo process, whose esp the exit then
\* overwrites; and, current_process being changed before the stacks are, it
\* frees the stack the CPU is on.
TickHarms ==
  \/ at[cpu].step \in {"create", "kill"}
  \/ /\ cpu \in Pid /\ st[cpu] = "exited"
     /\ at[cpu].step = "switch" \/ (DemoDue /\ IsLowest(cpu, FreeSlots))

Tick(user, ok) ==
  /\ user => cpu \in Pid /\ kind[cpu] = "user" /\ Executes(cpu)
  /\ LET new == {p \in FreeSlots : DemoDue /\ IsLowest(p, FreeSlots)}
         s == [p \in Pid |-> IF p \notin new THEN st[p] ELSE IF ok THEN "ready" ELSE "unused"]
         n == NextReady(s)
     IN  /\ ok \/ new # {}
         /\ kind' = [p \in Pid |-> IF p \notin new THEN kind[p] ELSE IF ok THEN "demo" ELSE "none"]
         /\ built' = [p \in Pid |-> IF p \in new THEN ok ELSE built[p] /\ p \notin Reaped]
         /\ IF cur = None \/ user
              THEN /\ st' = IF n = None THEN s ELSE SwitchedTo(s, n)
                   /\ cur' = n
                   /\ cpu' = IF n # None THEN n ELSE IF cur = None THEN cpu ELSE idle
                   /\ idle' = IF cur = None /\ n # None THEN cpu ELSE idle
              ELSE st' = s /\ UNCHANGED <<cur, cpu, idle>>
  /\ cut' = (cut \/ TickHarms)
  /\ UNCHANGED <<at, respawn>>

Next ==
  \/ Mark \/ Commit \/ Switch
  \/ \E x \in Context : Yield(x)
  \/ \E p \in Pid : Exit(p) \/ ShellFind(p) \/ Kill(p)
  \/ ShellTake \/ ShellFree
  \/ \E p, c \in Pid, r \in {"ready", "unused", "exited"} : Fork(p, c, r)
  \/ \E k \in {"demo", "user"}, r \in {"ready", "unused", "exited"} : ShellBuild(k, r)
  \/ SetAutorespawn
  \/ \E user, ok \in BOOLEAN : Tick(user, ok)

Spec == Init /\ [][Next]_vars

\* Ticks go on, and one that comes while interrupts are off waits; some find a
\* user program in user mode; a demo process yields again or exits; a call of
\* schedule goes on.
PreemptingTick == \E user, ok \in BOOLEAN : (cur = None \/ user) /\ Tick(user, ok)

FairSpec ==
  /\ Spec
  /\ SF_vars(PreemptingTick)
  /\ WF_vars(\E p \in Pid : kind[p] = "demo" /\ (Yield(p) \/ Exit(p)))
  /\ WF_vars(Mark) /\ WF_vars(Commit) /\ WF_vars(Switch)

-----------------------------------------------------------------------------
TypeOK ==
  /\ st \in [Pid -> {"unused", "ready", "running", "exited"}]
  /\ kind \in [Pid -> {"none", "demo", "user"}]
  /\ built \in [Pid -> BOOLEAN]
  /\ cur \in Context /\ cpu \in Context /\ idle \in Context
  /\ at \in [Context -> [step : {"run", "chosen", "marked", "switch", "found", "create", "kill"}, p : Context]]
  /\ respawn \in BOOLEAN /\ cut \in BOOLEAN

\* A process that may run has the stack it runs on, and the CPU is never on a
\* stack that was given back, not after a kill, a reap or a slot's new use: a
\* tick breaks this only where TickHarms and StaleChoice say.
StacksHeld ==
  ~cut =>
    /\ cpu \in Pid => built[cpu]
    /\ \A p \in Pid : Alive(p) => built[p] \/ at[Shell] = [step |-> "create", p |-> p]

\* The scheduler knows where the CPU is, and where the shell's frame: getpid,
\* the owner of what is opened and the choice of the next process go by
\* current_process.  A tick breaks this only where TickHarms and StaleChoice say.
CpuIsCurrent ==
  ~cut /\ at[cpu] = Running =>
    /\ cur = cpu /\ idle = Shell
    /\ cpu \in Pid => st[cpu] = "running"

\* Only the context on the CPU is in a call, and the shell in one that a tick
\* cut; the call's local variables agree with the table, the shell's choice and
\* the slot it found excepted.
CallsAgree ==
  LET step == at[cpu].step
      p == at[cpu].p
  IN  /\ idle = Shell
      /\ \A x \in Context \ {cpu} :
           \/ at[x] = Running
           \/ x = Shell /\ at[x].step \in {"chosen", "marked", "found"} /\ at[x].p \in Pid
      /\ cpu \in Pid => st[cpu] # "unused"
      /\ step = "run" => p = None
      /\ step # "run" /\ cpu = Shell => p \in Pid
      /\ step \in {"found", "create", "kill"} => cpu = Shell
      /\ step # "switch" => cur = cpu
      /\ step = "create" => st[p] = "ready"
      /\ step = "kill" => st[p] = "exited"
      /\ step = "chosen" /\ cpu \in Pid =>
           st[cpu] \in {"running", "exited"} /\ (p \in Pid => st[p] = "ready")
      /\ step # "run" /\ p = None /\ cpu \in Pid /\ st[cpu] # "exited" =>
           kind[cpu] = "demo" /\ Alive(cpu) /\ \A q \in Pid : st[q] # "ready"
      /\ step = "marked" /\ p \in Pid => st[p] = "running"
      /\ step = "switch" => cur = p /\ (p \in Pid => st[p] = "running")

\* What the shell has made RUNNING before a tick took it off the CPU is not
\* what runs meanwhile.
MarkedWaits ==
  LET p == at[Shell].p
  IN  at[Shell].step = "marked" /\ cpu # Shell =>
        st[p] = "running" /\ p # cpu /\ p # at[cpu].p

\* The inductive invariant.
IInv == TypeOK /\ (~cut => StacksHeld /\ CpuIsCurrent /\ CallsAgree /\ MarkedWaits)

\* Round robin: a process that is READY is run, however many others yield, are
\* preempted, forked or respawned, and whatever a tick cuts where it does no
\* harm.
ReadyRuns == \A p \in Pid : st[p] = "ready" ~> (cur = p \/ st[p] # "ready" \/ cut)

=============================================================================
